\* Three acts: a writer, a row, a reader.
CONSTANTS
    Settings = {hex}
    FernetKeys = {hex}
    Unset = Unset
    MaxId = 3
    SeedRows = 2
    SeedClosed = 1
    Threads = {request, kafka}
    NoAlert = NoAlert
    Operators = {ann, ben}
    NoAccount = NoAccount
    MaxActs = 3
SPECIFICATION Spec
INVARIANTS
    FieldsAreReadable
