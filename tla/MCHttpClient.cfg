SPECIFICATION FairSpec
CONSTANTS
    status1 = status1
    status2 = status2
    errlog = errlog
    get = get
    Calls = {status1, status2, errlog, get}
    Asked <- AskedOf
    Requests <- RequestsOf
INVARIANTS
    TypeOK
    OwnUnlessOvertaken
PROPERTIES
    CallsEnd
