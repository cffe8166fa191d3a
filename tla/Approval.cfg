\* One post, two clicks and one sweep at the same time.
CONSTANTS
    Posts = {a}
    Clicks = {c1, c2}
    Sweeps = {s1}
    Nobody = Nobody
    NoMarker = NoMarker
SPECIFICATION Spec
SYMMETRY ClickSymmetry
INVARIANTS IInv StageIsAudited RowsHappened AcceptedStands AnswersAreHonest PublicationWasApproved
PROPERTIES DecisionsStand
