CONSTANTS
  Mails = {1}
  Folders = {"/", "Sent", "Trash"}
  Types <- Bodies
  Start <- Homes
  NewMails = {}
  Matches <- Words
  MaxLoads = 2
  MaxMoves = 2
  None = None
SPECIFICATION Spec
PROPERTY OnlyTrashDeletes
