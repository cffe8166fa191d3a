\* One Story post and one authorization for it, with a reconciliation command, a
\* Story revision and every kind of file damage.
CONSTANTS
    a = a  b = b  i1 = i1  i2 = i2
    Posts = {a}
    StoryPosts = {a}
    Instances = {i1}
    PostOf <- OneAuthorization
    Readers = {r1}
    Daemon = Daemon
    Booters = {Daemon}
    Nobody = Nobody
    NoInstance = NoInstance
    FileStates = {"ok", "changed", "missing"}
SPECIFICATION Spec
INVARIANTS ReceiptMatches TruthfulStates LedgerIsTrue
PROPERTIES DeadStaysDead PutIsAuthorized
\* After a crash between the creation and the write of a receipt no daemon ever
\* starts again: the system really stops there.
CHECK_DEADLOCK FALSE
