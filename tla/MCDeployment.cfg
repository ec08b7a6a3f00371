\* Five acts in any order, two threads, two operators, two demo rows.
CONSTANTS
    Settings = {hex}
    FernetKeys = {hex}
    Unset = Unset
    MaxId = 3
    SeedRows = 2
    SeedClosed = 1
    Threads = {request, kafka}
    NoAlert = NoAlert
    Operators = {ann, ben}
    NoAccount = NoAccount
    MaxActs = 5
SPECIFICATION Spec
SYMMETRY Symmetric
INVARIANTS
    TypeOK
    
    
    LoadsAreBounded
    ZeroMeansCreated
