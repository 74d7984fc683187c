CONSTANTS
  Mails = {1, 2, 3}
  Requests = {"r1", "r2"}
  Folders = {"INBOX", "Sent"}
  INBOX = "INBOX"
  NoFolder = "none"
  KEEPER = KEEPER
  NoOne = NoOne
  Ops <- PollOps
  Faults = FALSE
  OldBox = {1}
  Fresh = {}
  Purged = {}
SPECIFICATION LiveSpec
PROPERTIES ArrivalsShown
