\* The approved files change on disk while the attempt is under way.
CONSTANTS
    a = a  b = b  i1 = i1  i2 = i2
    Posts = {a}
    StoryPosts = {a}
    Instances = {i1}
    PostOf <- OneAuthorization
    Readers = {}
    Daemon = Daemon
    Booters = {Daemon}
    Nobody = Nobody
    NoInstance = NoInstance
    FileStates = {"ok", "changed"}
SPECIFICATION Spec
PROPERTY Code2MeansNoAttempt
CHECK_DEADLOCK FALSE
