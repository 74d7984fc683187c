SPECIFICATION Spec
CHECK_DEADLOCK FALSE
CONSTANTS
    m1 = m1
    m2 = m2
    Mails = {m1, m2}
    DateOf <- Dates
    MaxReq <- TwoAndOne
    StartFolders = {"/", "Trash"}
    Patient = FALSE
    UidPlus = TRUE
    Faults = {"auth", "select", "copy", "store", "drop", "expunge"}
INVARIANTS
    TypeOK
    NoMailLost
    RightMail
    TreeMatchesFolder
PROPERTIES
    OnlyServedMail
