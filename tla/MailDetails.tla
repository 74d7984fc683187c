----------------------------- MODULE MailDetails -----------------------------
(***************************************************************************)
(* The details panel of the mailbox page (maildetails.js) and the choice   *)
(* of a body from a mail's contents (mailmodel.js).                        *)
(*                                                                         *)
(* Every folder object has a MailDetails of its own, and with it a warning *)
(* of its own about the pictures of a mail, but all of them write to the   *)
(* same DOM elements: the panel and the notification above it.             *)
(***************************************************************************)
CONSTANTS Mails,
          Folders,  \* folder objects
          Types,    \* the content types each mail has a body for
          None

ContentTypes == {"text/plain", "text/html", "image/png"}
Panels == [by : Folders, mail : Mails, images : BOOLEAN, body : ContentTypes \cup {"sorry"}]
Warnings == [by : Folders, mail : Mails, open : BOOLEAN]

\* "It is thus always assumed, that the Content map has at least 1 entry."
ASSUME MailDetailsAssumption ==
  /\ None \notin Mails /\ None \notin Folders /\ None \notin Panels /\ None \notin Warnings
  /\ Types \in [Mails -> SUBSET ContentTypes \ {{}}]

VARIABLES
  details,  \* the panel; the notification; the folder objects with an imgWarning_
  images    \* mails with LoadContentImages

\* getContent: the body of the type asked for, else the plain one, else an excuse.
GetContent(m, type) ==
  IF type \in Types[m] THEN type
  ELSE IF "text/plain" \in Types[m] THEN "text/plain" ELSE "sorry"

NoDetails == [panel |-> None, warning |-> None, warners |-> {}]

\* clean() by folder object f: the panel and the notification are emptied, but
\* only the imgWarning_ of f itself is disposed of.
FaultyClean(d, f) == [d EXCEPT !.panel = None, !.warners = @ \ {f}]
Clean(d, f) == [panel |-> None, warning |-> None, warners |-> d.warners \ {f}]

\* render(mail, withImg) by folder object f, into a panel that was cleaned.
Render(d, f, m, withImg) ==
  LET html == "text/html" \in Types[m]
      warn == html /\ ~withImg IN
  [panel |-> [by |-> f, mail |-> m, images |-> html /\ withImg,
              body |-> GetContent(m, IF html THEN "text/html" ELSE "text/plain")],
   warning |-> IF warn THEN [by |-> f, mail |-> m, open |-> TRUE] ELSE d.warning,
   warners |-> IF warn THEN d.warners \cup {f} ELSE d.warners]

\* The Load button of the warning: the decision is remembered, and the mail is
\* rendered again with its pictures.
LoadPictures ==
  /\ details.warning # None /\ details.warning.open
  /\ LET f == details.warning.by
         m == details.warning.mail IN
     /\ images' = images \cup {m}
     /\ details' = Render(Clean(details, f), f, m, TRUE)

\* The Cancel button folds away the imgWarning_ that the folder object has by then,
\* and the buttons with it.
CancelWarning ==
  /\ details.warning # None /\ details.warning.open
  /\ details.warning.by \in details.warners
  /\ details' = [details EXCEPT !.warning.open = FALSE]
  /\ images' = images

DetailsTypeOK ==
  /\ details \in [panel : Panels \cup {None}, warning : Warnings \cup {None},
                  warners : SUBSET Folders]
  /\ images \subseteq Mails

\* The warning above the panel is about the mail in the panel, made by the folder
\* object that rendered it, and that object still has it: its buttons act on what
\* the user sees, whichever folder's answers came last.  Pictures are never shown
\* unless the user allowed those of this mail.
WarningServesPanel ==
  /\ details.warning # None =>
       /\ details.panel # None /\ ~details.panel.images
       /\ details.panel.by = details.warning.by /\ details.panel.mail = details.warning.mail
       /\ details.warning.by \in details.warners
  /\ details.panel # None /\ details.panel.images => details.panel.mail \in images
=============================================================================
