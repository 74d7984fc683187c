CONSTANTS
  Mails = {2, 3, 4}
  ServerFolder <- Homes
  SpamMails = {3}
  NewMails = {4}
  ReadMails = {2}
  MaxLoads = 2
  MaxAsks = 1
  None = None
SPECIFICATION Spec
INVARIANT TypeOK
INVARIANT ListShowsFolder
INVARIANT DetailsAreActive
 
INVARIANT LabelsExact
