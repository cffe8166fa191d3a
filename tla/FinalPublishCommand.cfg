\* One post and one authorization for it, with a reconciliation command and the
\* boot-reconcile command run beside the live daemon; every process that runs keeps going.
CONSTANTS
    a = a  b = b  i1 = i1  i2 = i2
    Posts = {a}
    StoryPosts = {}
    Instances = {i1}
    PostOf <- OneAuthorization
    Readers = {r1}
    Daemon = Daemon
    Booters = {Daemon, Command}
    Nobody = Nobody
    NoInstance = NoInstance
    FileStates = {"ok"}
SPECIFICATION FairSpec
INVARIANTS OutcomeInv
PROPERTIES LocksAreReleased
\* After a crash between the creation and the write of a receipt no daemon ever
\* starts again: the system really stops there.
CHECK_DEADLOCK FALSE
