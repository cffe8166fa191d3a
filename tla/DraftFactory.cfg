\* Two candidates and two cycles over two days; Morning edits an entry once.
CONSTANTS
    c1 = c1
    c2 = c2
    Candidates = {c1, c2}
    MaxDay = 2
    MaxCycles = 2
    MaxEdits = 1
    Offers <- MCOffers
    Copies = {t1}
    None = None
SPECIFICATION FairSpec
INVARIANTS IInv CardIsTrue RecoveryIsTruthful ProducedUnderReceipt
PROPERTIES ImplementsPromise EveryCycleEnds
\* After the last cycle nothing more happens.
CHECK_DEADLOCK FALSE
