------------------------------ MODULE MailList ------------------------------
(***************************************************************************)
(* The overview list of the mailbox page and everything the user does with *)
(* it: clicks and arrow keys, the quick search, the buttons of the control *)
(* bar, the Delete key, and the rows that polls put on top                 *)
(* (mailboxfolder.js, mailfilter.js, app.js).                              *)
(*                                                                         *)
(* Four folder objects share one list, one control bar and one details     *)
(* panel.  Each has its own mails, active mail and search filter.  All     *)
(* folders are loaded here (FolderView has the loads); contents are loaded *)
(* when a mail is first shown, and their answers come in any order.        *)
(*                                                                         *)
(* A mail is its date, so a larger one is newer, and no two are equal      *)
(* (MailMove has equal dates).  Of the flags Deleted is a variable; whether *)
(* a mail was unread is chosen when its content first comes, and matters    *)
(* then only (FolderView has the flag and what counts by it).               *)
(***************************************************************************)
EXTENDS MailDetails, Integers, FiniteSets, FiniteSetsExt

CONSTANTS Start,     \* the folder of each mail
          NewMails,  \* mails that arrive and come by polls
          Matches,   \* the mails each search term matches
          MaxLoads,  \* bound: content loads in flight
          MaxMoves   \* bound: moves that are sent

INBOX == "/"
SENT == "Sent"
TRASH == "Trash"
SPAM == "Spam"

ASSUME MailListAssumption ==
  /\ Mails \subseteq Nat /\ IsFiniteSet(Mails)
  /\ {INBOX, TRASH} \subseteq Folders /\ Folders \subseteq {INBOX, SENT, TRASH, SPAM}
  /\ Start \in [Mails -> Folders] /\ {MaxLoads, MaxMoves} \subseteq Nat
  /\ NewMails \subseteq {m \in Mails : Start[m] \in {INBOX, SPAM}}
  /\ \A n \in NewMails, m \in Mails \ NewMails : m < n
  /\ "" \in DOMAIN Matches /\ Matches[""] = Mails
  /\ \A t \in DOMAIN Matches : Matches[t] \subseteq Mails

VARIABLES
  selected,  \* MailHandler.SelectedMailbox
  folder,    \* MailItem.Folder, and with it mails_ of each folder
  prev,      \* MailItem.Previous_Folder
  deleted,   \* mails with Flags.Deleted
  arrived,   \* new mails that polls brought
  loaded,    \* mails with HasContentBeenLoaded
  asking,    \* content loads in flight: the folder object that asked, the mail
  moving,    \* moves in flight: the mail, its Previous_Folder before, a number
  moves,     \* how many were sent
  active,    \* lastActiveMailItem_ of each folder
  term,      \* the quick search filter of each folder
  typed,     \* prevSearchVal: what the search bar was last asked
  canSearch, \* the search bar is enabled
  rows,      \* the list: the folder object whose callback a row has, the mail
  lit,       \* mails whose row is highlighted
  bound,     \* the control bar: folder object and mail of its clicks, what is enabled
  strays     \* history, until the list is rendered again (see below)

mailVars == <<folder, prev, deleted, arrived, moving, moves>>
pageVars == <<active, asking, details, bound>>
barVars == <<term, typed, canSearch>>
vars == <<selected, loaded, images, rows, lit, strays, mailVars, pageVars, barVars>>

-----------------------------------------------------------------------------
(* The mails of a folder, and the neighbours of one.                       *)

Tree(f) == {m \in (Mails \ NewMails) \cup arrived : folder[m] = f}
NotDeleted(f) == Tree(f) \ deleted

\* getFilteredMails: the filter chain.
Filtered(f) == NotDeleted(f) \cap Matches[term[f]]

\* getNextItem.  A mail that is filtered out is taken for one above the list.
NextItem(f, m, before) ==
  LET list == Filtered(f)
      found == IF before THEN (IF m \in list THEN {n \in list : n < m} ELSE list)
               ELSE (IF m \in list THEN {n \in list : n > m} ELSE {}) IN
  IF m \notin Tree(f) \/ Cardinality(list) <= 1 \/ found = {} THEN None
  ELSE IF before THEN Max(found) ELSE Min(found)

\* getOtherItem asks for the sibling of null, which throws, when the folder has
\* other mails but none follows m in the list: a handler then does nothing.
OtherItem(f, m) == IF Cardinality(Tree(f)) <= 1 THEN None ELSE NextItem(f, m, TRUE)
OtherItemThrows(f, m) == m \in Tree(f) /\ Cardinality(Tree(f)) > 1 /\ NextItem(f, m, TRUE) = None

-----------------------------------------------------------------------------
(* Rows.  They are looked up by the mail's DOM id, which is its own here.  *)

Row(m) == {m} \cap {r[2] : r \in rows}

\* Highlighting when folder object f shows m, given the highlighted rows before.
LitBy(f, m, before) ==
  IF m \in loaded
  THEN (before \ (IF active[f] = None THEN {} ELSE Row(active[f]))) \cup Row(m)
  ELSE before

-----------------------------------------------------------------------------
(* The control bar holds the buttons of the selected folder.               *)

Buttons(f) == CASE f = INBOX -> {"reply", "delete"}
                [] f = TRASH -> {"restore", "empty"}
                [] OTHER -> {"delete"}
BarServes(f) == Buttons(f) \subseteq Buttons(selected')

\* updateCtrlBtns_ for a mail: which buttons DisableIf leaves enabled.
Enabled(f, m) ==
  Buttons(f) \ ((IF prev[m] = folder[m] THEN {"restore"} ELSE {})
                \cup (IF Tree(TRASH) = {} THEN {"empty"} ELSE {}))
Bind(f, m) == [by |-> f, mail |-> m, on |-> Enabled(f, m)]

-----------------------------------------------------------------------------
(* showMail, by folder object f; bar is what the buttons are bound to before. *)

\* The content is at hand.  updateCtrlBtns_ throws if the bar lacks a button of
\* f, before m becomes the active mail.
FaultyPresent(f, m, bar) ==
  /\ details' = Render(Clean(details, f), f, m, m \in images)
  /\ bound' = IF bar = None THEN Bind(f, m) ELSE bar
  /\ active' = [active EXCEPT ![f] = m]
Present(f, m, bar) ==
  /\ details' = Render(Clean(details, f), f, m, m \in images)
  /\ IF BarServes(f) THEN bound' = Bind(f, m) /\ active' = [active EXCEPT ![f] = m]
                     ELSE bound' = bar /\ active' = active

\* setSeen throws for an unread mail that has no row in the list, after the panel
\* was emptied: nothing is rendered, highlighted or bound, and f keeps its active
\* mail.  The mail counts as read from then on.
SetSeenThrows(m) == m \notin loaded /\ Row(m) = {}
PresentThrows(f) ==
  details' = Clean(details, f) /\ UNCHANGED <<bound, active, lit>>

\* A mail without content becomes the active one at once.
ShowMail(f, m, bar) ==
  IF m \in loaded THEN Present(f, m, bar) /\ asking' = asking
  ELSE /\ <<f, m>> \notin asking   \* bound: one load of a content by each folder object
       /\ Cardinality(asking) < MaxLoads
       /\ asking' = asking \cup {<<f, m>>}
       /\ details' = Clean(details, f)
       /\ active' = [active EXCEPT ![f] = m] /\ bound' = bar

\* showEmptyFolderMsg(true): no rows, no buttons, an empty panel.
ShowEmptyFolderMsg(f) ==
  /\ rows' = {} /\ lit' = {} /\ bound' = None
  /\ details' = Clean(details, f)

\* renderMailboxContent_, given the mails to show.
RenderContent(f, mails, bar) ==
  /\ strays' = {}
  /\ IF mails = {} THEN ShowEmptyFolderMsg(f) /\ UNCHANGED <<active, asking>>
     ELSE LET m == Max(mails) IN
          /\ rows' = {<<f, n>> : n \in mails}
          /\ ShowMail(f, m, bar)
          /\ lit' = IF m \in loaded THEN {m} ELSE {}

-----------------------------------------------------------------------------
(* The user goes through the mails.                                        *)

\* A click on a row needs an active mail of its folder object, to unlight it.
Click(f, m) ==
  /\ <<f, m>> \in rows /\ active[f] # None
  /\ UNCHANGED <<selected, loaded, images, rows, strays, mailVars, barVars>>
  /\ ShowMail(f, m, bound)
  /\ lit' = LitBy(f, m, lit \ Row(active[f]))

\* switchToSibling, by the arrow keys.
FaultyArrowKey(before) ==
  LET f == selected
      next == NextItem(f, active[f], before) IN
  /\ active[f] # None
  /\ UNCHANGED <<selected, loaded, images, rows, strays, mailVars, barVars>>
  /\ ShowMail(f, next, bound)
  /\ lit' = LitBy(f, next, lit \ Row(active[f]))
ArrowKey(before) ==
  LET f == selected
      next == NextItem(f, active[f], before) IN
  /\ active[f] # None /\ next # None
  /\ UNCHANGED <<selected, loaded, images, rows, strays, mailVars, barVars>>
  /\ ShowMail(f, next, bound)
  /\ lit' = LitBy(f, next, lit \ Row(active[f]))

\* deactivate and activate: the list is emptied, the bar and the search bar are
\* made anew; the filter of the folder stays what it was.
SwitchTo(f) ==
  /\ f # selected /\ selected' = f
  /\ typed' = "" /\ canSearch' = TRUE /\ term' = term
  /\ UNCHANGED <<loaded, images, mailVars>>
  /\ RenderContent(f, Filtered(f), None)

\* The quick search.
Search(t) ==
  /\ canSearch /\ t # typed /\ typed' = t
  /\ term' = [term EXCEPT ![selected] = t]
  /\ UNCHANGED <<selected, loaded, images, mailVars, canSearch>>
  /\ RenderContent(selected, NotDeleted(selected) \cap Matches[t], bound)

-----------------------------------------------------------------------------
(* The user removes mails.                                                 *)

\* switchAndRemoveNode: another mail is shown, then the row of m is removed.
\* A folder object that is not selected, or that no longer has the mail (the button
\* moved it already), empties the list; and a stale button may restore a mail to the
\* folder it is in, which takes only the row away.  Both are what strays remembers:
\* kept holds m if it stays where it is.
FaultySwitchAndRemove(f, m, kept) ==
  LET other == OtherItem(f, m) IN
  IF other = None THEN ShowEmptyFolderMsg(f) /\ UNCHANGED <<active, asking, strays>>
  ELSE /\ ShowMail(f, other, bound)
       /\ rows' = {r \in rows : r[2] # other}
       /\ lit' = LitBy(f, other, lit) \ Row(other)
       /\ strays' = strays \cup kept
FaultyKeepRow(f, m, kept) ==
  LET other == OtherItem(f, m) IN
  /\ strays' = strays \cup kept
  /\ IF other = None THEN ShowEmptyFolderMsg(f) /\ UNCHANGED <<active, asking>>
     ELSE ShowMail(f, other, bound) /\ rows' = rows /\ lit' = LitBy(f, other, lit)
SwitchAndRemove(f, m, kept) ==
  LET other == OtherItem(f, m) IN
  /\ ~OtherItemThrows(f, m)
  /\ IF other = None
     THEN /\ ShowEmptyFolderMsg(f) /\ UNCHANGED <<active, asking>>
          /\ strays' = IF f = selected /\ m \in Tree(f) THEN strays \cup kept ELSE Mails
     ELSE /\ ShowMail(f, other, bound)
          /\ rows' = {r \in rows : r[2] # m}
          /\ lit' = LitBy(f, other, lit) \ Row(m)
          /\ strays' = strays \cup kept

\* moveMail: the mail changes folders here, and a request is sent.  (It is not
\* sent when the server-side folder stays the same; then it does not fail.)
MoveMail(m, into) ==
  IF folder[m] = into THEN UNCHANGED <<folder, prev, moving, moves>>
  ELSE /\ folder' = [folder EXCEPT ![m] = into]
       /\ prev' = [prev EXCEPT ![m] = folder[m]]
       /\ moving' = moving \cup {<<m, prev[m], moves>>}
       /\ moves < MaxMoves /\ moves' = moves + 1

DeleteButton ==
  /\ bound # None /\ "delete" \in bound.on
  /\ UNCHANGED <<selected, loaded, images, deleted, arrived, barVars>>
  /\ SwitchAndRemove(bound.by, bound.mail, {})
  /\ MoveMail(bound.mail, TRASH)

RestoreButton ==
  /\ bound # None /\ "restore" \in bound.on
  /\ UNCHANGED <<selected, loaded, images, deleted, arrived, barVars>>
  /\ LET m == bound.mail IN
     /\ SwitchAndRemove(bound.by, m, IF prev[m] = folder[m] THEN {m} ELSE {})
     /\ MoveMail(m, prev[m])

\* deleteActiveMail, by the Delete key, with its special case for the Trash.
DeleteKey ==
  LET f == selected
      m == active[f] IN
  /\ m # None
  /\ UNCHANGED <<selected, loaded, images, arrived, term, typed>>
  /\ SwitchAndRemove(f, m, {})
  /\ IF f = TRASH THEN deleted' = deleted \cup {m} /\ UNCHANGED <<folder, prev, moving, moves>>
                  ELSE deleted' = deleted /\ MoveMail(m, TRASH)
  /\ canSearch' = (canSearch /\ IF f = TRASH THEN NotDeleted(f) \ {m} # {} ELSE Tree(f) \ {m} # {})

\* The button to empty the Trash, confirmed in its modal dialog.
EmptyTrash ==
  /\ bound # None /\ "empty" \in bound.on
  /\ ShowEmptyFolderMsg(TRASH)
  /\ deleted' = deleted \cup Tree(TRASH)
  /\ active' = [active EXCEPT ![TRASH] = None]
  /\ UNCHANGED <<selected, loaded, images, folder, prev, moving, moves, arrived, asking, strays, barVars>>

-----------------------------------------------------------------------------
(* Answers.                                                                *)

\* The content of a mail: the folder object that asked for it shows it.  Only the
\* first answer can find the mail unread.
FaultyContentReply(f, m) ==
  /\ <<f, m>> \in asking /\ asking' = asking \ {<<f, m>>}
  /\ loaded' = loaded \cup {m}
  /\ UNCHANGED <<selected, images, rows, strays, mailVars, barVars>>
  /\ Present(f, m, bound)
  /\ lit' = (lit \cup Row(m)) \ (IF active[f] = None THEN {} ELSE Row(active[f]))
ContentReply(f, m) ==
  /\ <<f, m>> \in asking /\ asking' = asking \ {<<f, m>>}
  /\ loaded' = loaded \cup {m}
  /\ UNCHANGED <<selected, images, rows, strays, mailVars, barVars>>
  /\ \/ /\ Present(f, m, bound)
        /\ lit' = (lit \ (IF active[f] = None THEN {} ELSE Row(active[f]))) \cup Row(m)
     \/ SetSeenThrows(m) /\ PresentThrows(f)

ContentFails(f, m) ==
  /\ <<f, m>> \in asking /\ asking' = asking \ {<<f, m>>}
  /\ UNCHANGED <<selected, loaded, images, rows, lit, strays, mailVars, barVars,
                 active, details, bound>>

\* A poll brings a mail: it gets a row on top whichever folder is selected, and
\* also if it is spam.
PollReply(m) ==
  /\ m \in NewMails \ arrived /\ arrived' = arrived \cup {m}
  /\ rows' = rows \cup {<<INBOX, m>>}
  /\ UNCHANGED <<selected, loaded, images, lit, strays, folder, prev, deleted, moving, moves,
                 pageVars, barVars>>

MoveDone(move) ==
  /\ move \in moving /\ moving' = moving \ {move} /\ moves' = moves
  /\ UNCHANGED <<selected, loaded, images, rows, lit, strays, folder, prev, deleted, arrived,
                 pageVars, barVars>>

\* A failed move is undone; the list is not rendered.
MoveFails(move) ==
  LET m == move[1] IN
  /\ move \in moving /\ moving' = moving \ {move} /\ moves' = moves
  /\ folder' = [folder EXCEPT ![m] = prev[m]]
  /\ prev' = [prev EXCEPT ![m] = move[2]]
  /\ strays' = strays \cup {m}
  /\ UNCHANGED <<selected, loaded, images, rows, lit, deleted, arrived, pageVars, barVars>>

-----------------------------------------------------------------------------
\* The Inbox was loaded and is shown, its newest mail being asked for.
Init ==
  LET inbox == {m \in Mails \ NewMails : Start[m] = INBOX} IN
  /\ selected = INBOX /\ folder = Start
  /\ prev = [m \in Mails |-> IF Start[m] = SPAM THEN INBOX ELSE Start[m]]
  /\ deleted = {} /\ arrived = {} /\ loaded = {} /\ moving = {} /\ moves = 0 /\ images = {}
  /\ active = [f \in Folders |-> IF f = INBOX /\ inbox # {} THEN Max(inbox) ELSE None]
  /\ asking = IF inbox = {} THEN {} ELSE {<<INBOX, Max(inbox)>>}
  /\ term = [f \in Folders |-> ""] /\ typed = "" /\ canSearch = (inbox # {})
  /\ rows = {<<INBOX, m>> : m \in inbox} /\ lit = {}
  /\ details = NoDetails /\ bound = None /\ strays = {}

Walk ==
  \/ \E f \in Folders : SwitchTo(f) \/ (\E m \in Mails : Click(f, m))
  \/ \E before \in BOOLEAN : ArrowKey(before)
  \/ \E t \in DOMAIN Matches : Search(t)
Remove == DeleteButton \/ RestoreButton \/ DeleteKey \/ EmptyTrash
Pictures ==
  /\ LoadPictures \/ CancelWarning
  /\ UNCHANGED <<selected, loaded, rows, lit, strays, mailVars, barVars, active, asking, bound>>
Answer ==
  \/ \E f \in Folders, m \in Mails : ContentReply(f, m) \/ ContentFails(f, m)
  \/ \E m \in Mails : PollReply(m)
  \/ \E move \in moving : MoveDone(move) \/ MoveFails(move)

Next == Walk \/ Remove \/ Pictures \/ Answer

Spec == Init /\ [][Next]_vars

-----------------------------------------------------------------------------
TypeOK ==
  /\ DetailsTypeOK
  /\ selected \in Folders
  /\ folder \in [Mails -> Folders] /\ prev \in [Mails -> Folders]
  /\ deleted \subseteq Mails /\ arrived \subseteq NewMails /\ loaded \subseteq Mails
  /\ asking \subseteq Folders \X Mails /\ moving \subseteq Mails \X Folders \X Nat /\ moves \in 0 .. MaxMoves
  /\ active \in [Folders -> Mails \cup {None}]
  /\ term \in [Folders -> DOMAIN Matches] /\ typed \in DOMAIN Matches /\ canSearch \in BOOLEAN
  /\ rows \subseteq Folders \X Mails /\ lit \subseteq Mails /\ strays \subseteq Mails
  /\ bound = None \/ (bound.by \in Folders /\ bound.mail \in Mails)

\* When the panel shows a mail of the selected folder, that mail is the one the
\* Delete key and the arrow keys start from and the one the enabled buttons act
\* on, whatever contents arrived in between and in whatever order.
ActsOnPanel ==
  details.panel # None /\ details.panel.by = selected =>
    /\ active[selected] = details.panel.mail
    /\ bound # None => bound.by = selected /\ bound.mail = details.panel.mail

\* The list has a row for every mail of the selected folder that its filters
\* leave, whatever was deleted, restored or searched for; except for mails a failed
\* move brought back or a button restored to where they were, and after an action on a
\* mail the folder no longer had.
AllRowsThere ==
  Filtered(selected) \ strays \subseteq {r[2] : r \in rows}

\* No row stays in the list of a mail that was deleted or that has left the folder
\* of its row, so that nobody acts on it again; with the same exceptions, and that
\* of spam a poll brought.
NoGhostRow ==
  \A r \in rows :
    \/ r[2] \in strays \cup {m \in arrived : Start[m] = SPAM}
    \/ r[2] \in NotDeleted(r[1])

\* When the panel shows a mail of the selected folder that has a row, the row is
\* highlighted, whichever callbacks of other folders took highlights away before.
ShownIsLit ==
  /\ details.panel # None /\ details.panel.by = selected
  /\ <<selected, details.panel.mail>> \in rows
  => details.panel.mail \in lit

\* The comment at mailboxfolder.js:863 makes setting \Deleted the special case of
\* the Trash: a mail that is in another folder is never flagged as deleted.
OnlyTrashDeletes == [][\A m \in deleted' \ deleted : folder[m] = TRASH]_vars
=============================================================================
