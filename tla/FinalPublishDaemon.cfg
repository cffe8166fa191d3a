\* One post, two second-stage messages for it, the daemon crashing anywhere.
CONSTANTS
    a = a  b = b  i1 = i1  i2 = i2
    Posts = {a}
    StoryPosts = {}
    Instances = {i1, i2}
    PostOf <- OnePost
    Readers = {}
    Daemon = Daemon
    Booters = {Daemon}
    Nobody = Nobody
    NoInstance = NoInstance
    FileStates = {"ok"}
SPECIFICATION Spec
SYMMETRY InstanceSymmetry
INVARIANTS AtMostOnePut NoticeOnce AnsweredIsSettled
PROPERTIES ImplementsPromise
\* After a crash between the creation and the write of a receipt no daemon ever
\* starts again: the system really stops there.
CHECK_DEADLOCK FALSE
