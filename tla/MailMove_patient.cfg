SPECIFICATION FairSpec
CHECK_DEADLOCK FALSE
CONSTANTS
    m1 = m1
    m2 = m2
    Mails = {m1, m2}
    DateOf <- Dates
    MaxReq <- TwoAndOne
    StartFolders = {"Trash", "Spam"}
    Patient = TRUE
    UidPlus = TRUE
    Faults = {"auth", "select", "copy", "store", "expunge"}
INVARIANTS
    SettledAgreement
    OneLiveCopy
PROPERTIES
    FailedMoveReverts
    MovesAreSafe
    EveryRequestAnswered
