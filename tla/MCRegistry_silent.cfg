SPECIFICATION FairSpec
CONSTANTS
    s1 = s1
    s2 = s2
    g1 = g1
    g2 = g2
    r1 = r1
    r2 = r2
    r3 = r3
    Nodes = {s1, s2}
    Groups = {g1}
    Reports = {r1, r2}
    Requests = {}
    Frees = {1, 2}
    MinStorageSpace = 1
    Patience = 1
    GroupOf <- OneGroup
    Sender <- OneEach
    NoReport = NoReport
    NoGroup = NoGroup
    NoNode = NoNode
PROPERTIES
    SilentGoesOffline
