CONSTANTS
  Mails = {1, 2, 3}
  Requests = {"r1", "r2"}
  Folders = {"INBOX", "Sent"}
  INBOX = "INBOX"
  NoFolder = "none"
  KEEPER = KEEPER
  NoOne = NoOne
  Ops <- SessionOps
  Faults = TRUE
  OldBox = {1, 2}
  Fresh = {2}
  Purged = {1}
SPECIFICATION LiveSpec
INVARIANTS TypeOK
INVARIANTS OwnFolder
INVARIANTS PollFindsItsMails
INVARIANTS PollOnlyRecent
PROPERTIES RequestsReturn
PROPERTIES KeepAliveEnds
