\* The agenda of wake-ups is finite: the system may stop once it is over.
CONSTANTS
    w1 = w1
    w2 = w2
    St = St
    c1 = c1
    c2 = c2
    Wakers = {w1, w2}
    Stray = St
    Candidates = {c1, c2}
    Handoffs <- MCHandoffs
    Slots <- MCSlots
    DayLength = 4
    Agendas <- MCAgendas
    StoryTarget = 2
    MaxAttempts = 2
    MaxCrashes = 1
    Found = {c1, c2}
    Scans = {1, 2}
    Cycles = {y1, y2}
    v1 = v1
    v2 = v2
    Answers <- MCAnswers
    MaxCycles = 2
    MaxKills = 1
    None = None
    Absent = Absent
    Invalid = Invalid
SPECIFICATION MCSpec
INVARIANTS IInv SucceededIsBacked DraftsAreProven ConsumedIsCommitted
PROPERTIES ImplementsPromises EveryRunEnds
CHECK_DEADLOCK FALSE
