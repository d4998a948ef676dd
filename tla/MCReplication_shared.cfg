SPECIFICATION Spec
CONSTANTS
    Nodes = {s1, s2}
    f1 = f1
    f2 = f2
    c1 = c1
    Files = {f1, f2}
    Deletes = {d1}
    Contents = {c1}
    ContentOf <- SameContent
    Empty = Empty
    Torn = Torn
    ErrorPage = ErrorPage
    Absent = Absent
    NoFile = NoFile
    NoHash = NoHash
    NoNode = NoNode
    CrashNodes = {}
    Unreadable = {f1}
    TrackerEnds = {}
CONSTRAINT OneClient
SYMMETRY Symmetry
VIEW NoRecords
CHECK_DEADLOCK FALSE
INVARIANTS
    IndexSound
    AckedFileKept
