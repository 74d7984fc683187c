SPECIFICATION Spec
CHECK_DEADLOCK FALSE
CONSTANTS
    m1 = m1
    m2 = m2
    Mails = {m1}
    DateOf <- Dates
    MaxReq <- Two
    StartFolders = {"/", "Sent", "Trash", "Spam"}
    Patient = FALSE
    UidPlus = TRUE
    Faults = {}
INVARIANTS
    ServerFollowsClient
