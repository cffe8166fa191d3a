\* A crash between the creation and the write of a receipt.
CONSTANTS
    a = a  b = b  i1 = i1  i2 = i2
    Posts = {a}
    StoryPosts = {a}
    Instances = {i1}
    PostOf <- OneAuthorization
    Readers = {}
    Daemon = Daemon
    Booters = {Daemon}
    Nobody = Nobody
    NoInstance = NoInstance
    FileStates = {"ok", "changed"}
SPECIFICATION Spec
INVARIANT NoTornReceipt
CHECK_DEADLOCK FALSE
