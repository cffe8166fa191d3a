\* Two posts: the daemon publishes one while a reconciliation settles the other.
CONSTANTS
    a = a  b = b  i1 = i1  i2 = i2
    Posts = {a, b}
    StoryPosts = {}
    Instances = {i1, i2}
    PostOf <- TwoPosts
    Readers = {r1}
    Daemon = Daemon
    Booters = {Daemon}
    Nobody = Nobody
    NoInstance = NoInstance
    FileStates = {"ok"}
SPECIFICATION Spec
SYMMETRY PostSymmetry
VIEW WithoutHistory
PROPERTY QueueKeepsPublished
CHECK_DEADLOCK FALSE
