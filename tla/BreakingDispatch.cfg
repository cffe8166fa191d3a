\* Two occurrences that share a candidate, a development or an event.
CONSTANTS
    o1 = o1
    o2 = o2
    c1 = c1
    c2 = c2
    Op = Op
    Occurrences = {o1, o2}
    Operator = Op
    Scans <- MCScans
    Histories <- MCHistories
    StoryMax = 1
    MainMax = 1
    MaxFills = 1
    MaxCrashes = 1
    MaxContinues = 1
    None = None
    Finalized = Finalized
SPECIFICATION FairSpec
INVARIANTS IInv SucceededWasSeen UnsettledIsVisible
PROPERTIES ImplementsPromise EveryOccurrenceIsSettled
\* When every occurrence is settled nothing more happens.
CHECK_DEADLOCK FALSE
