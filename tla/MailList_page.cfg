CONSTANTS
  Mails = {1, 2}
  Folders = {"/", "Sent", "Trash"}
  Types <- Bodies
  Start <- Homes
  NewMails = {2}
  Matches <- Words
  MaxLoads = 2
  MaxMoves = 2
  None = None
SPECIFICATION Spec
INVARIANT TypeOK
INVARIANT WarningServesPanel
INVARIANT ActsOnPanel
INVARIANT AllRowsThere
INVARIANT NoGhostRow
INVARIANT ShownIsLit
