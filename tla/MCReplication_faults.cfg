SPECIFICATION FairSpec
CONSTANTS
    Nodes = {s1, s2}
    f1 = f1
    f2 = f2
    c1 = c1
    Files = {f1}
    Deletes = {d1}
    Contents = {c1, Empty}
    ContentOf <- OneContent
    Empty = Empty
    Torn = Torn
    ErrorPage = ErrorPage
    Absent = Absent
    NoFile = NoFile
    NoHash = NoHash
    NoNode = NoNode
    CrashNodes = {s1, s2}
    Unreadable = {}
    TrackerEnds = {"kill", "repair"}
CHECK_DEADLOCK FALSE
INVARIANTS
    TypeOK
    IndexSound
    SyncAccounted
    DeleteSticks
    AckedFileKept
PROPERTIES
    GoroutinesSettle
    KeepsPromises
