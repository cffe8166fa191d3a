\* One post and two clicks, where the ledger cannot always be written.
CONSTANTS
    Posts = {a}
    Clicks = {c1, c2}
    Sweeps = {}
    Nobody = Nobody
    NoMarker = NoMarker
SPECIFICATION Spec
SYMMETRY ClickSymmetry
INVARIANT NoDecisionLost
