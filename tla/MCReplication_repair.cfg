SPECIFICATION RepairSpec
CONSTANTS
    Nodes = {s1, s2}
    f1 = f1
    f2 = f2
    c1 = c1
    Files = {f1}
    Deletes = {}
    Contents = {c1}
    ContentOf <- OneContent
    Empty = Empty
    Torn = Torn
    ErrorPage = ErrorPage
    Absent = Absent
    NoFile = NoFile
    NoHash = NoHash
    NoNode = NoNode
    CrashNodes = {}
    Unreadable = {}
    TrackerEnds = {"repair"}
CHECK_DEADLOCK FALSE
PROPERTIES
    RepairHeals
