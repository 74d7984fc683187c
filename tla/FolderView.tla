----------------------------- MODULE FolderView -----------------------------
(***************************************************************************)
(* The mailbox page of the browser (mailhandler.js, mailboxfolder.js,      *)
(* mailitem.js): one overview list and one details panel, shared by four   *)
(* folder objects, each with its own mails and its own active mail.        *)
(*                                                                         *)
(* Loads of folders, loads of contents and polls are asynchronous: their   *)
(* answers run callbacks of the folder object that asked, in any order,    *)
(* whatever folder is selected by then.  The user is not assumed to wait.  *)
(* Moving and deleting mails is the matter of MailMove and MailList.        *)
(***************************************************************************)
EXTENDS Integers, FiniteSets, FiniteSetsExt

CONSTANTS Mails,       \* mails, as dates: a larger one is newer
          ServerFolder,\* the server's folder of each mail
          SpamMails,   \* mails of the INBOX with a SpamIndicator
          NewMails,    \* mails of the INBOX that arrive and come by polls
          ReadMails,   \* mails that may have been read before
          MaxLoads,    \* bound: loads of a folder in flight
          MaxAsks,     \* bound: content loads of a mail by a folder in flight
          None

INBOX == "/"
SENT == "Sent"
TRASH == "Trash"
SPAM == "Spam"
Folders == {INBOX, SENT, TRASH, SPAM}

ASSUME FolderViewAssumption ==
  /\ Mails \subseteq Nat /\ IsFiniteSet(Mails) /\ None \notin Mails
  /\ ServerFolder \in [Mails -> Folders \ {SPAM}]
  /\ \A m \in SpamMails \cup NewMails : m \in Mails /\ ServerFolder[m] = INBOX
  /\ ReadMails \subseteq Mails \ NewMails /\ MaxLoads \in Nat \ {0} /\ MaxAsks \in Nat

VARIABLES
  selected,   \* MailHandler.SelectedMailbox
  retrieved,  \* folders whose mails were retrieved
  tree,       \* mails_ of each folder
  active,     \* lastActiveMailItem_ of each folder
  list,       \* the rows of the overview: the folder object that made it, its mail
  details,    \* the details panel: the folder object that rendered it, the mail
  loaded,     \* mails with HasContentBeenLoaded
  seen,       \* mails with Flags.Seen
  rowless,    \* history: mails that were read while no row of them was listed
  unread,     \* MailHandler.unreadMails_
  label,      \* the number in the navigation button of each folder
  loading,    \* folder loads in flight
  asking,     \* content loads in flight, by folder object and mail
  poll,       \* the polling: the timer runs, a request is sent, or it has ended
  arrived,    \* new mails that polls brought
  cameRead,   \* history: those of them that were read already, elsewhere, and no spam
  slips       \* history: what happened that breaks the bookkeeping (see below)

vars == <<selected, retrieved, tree, active, list, details, loaded, seen, rowless, unread,
          label, loading, asking, poll, arrived, cameRead, slips>>

\* MailItem.Folder
Folder(m) == IF m \in SpamMails THEN SPAM ELSE ServerFolder[m]
Unread(t, s) == Cardinality(t \ s)

-----------------------------------------------------------------------------
(* showMail: f is the folder object it is called on, n and lab the unread  *)
(* counter and the labels before.                                          *)

\* setSeen flags the mail, then throws when the overview has no row of it: neither
\* counter nor label nor the server is told.
SetSeenThrows(m) == m \notin seen /\ \A r \in list' : r[2] # m
Notice(m, n, lab) ==
  /\ unread' = IF n <= 1 THEN 0 ELSE n - 1
  /\ label' = [lab EXCEPT ![Folder(m)] = Unread(tree'[Folder(m)], seen')]
NoNotice(n, lab) == unread' = n /\ label' = lab

FaultySetSeen(m, n, lab) ==
  /\ seen' = seen \cup {m}
  /\ rowless' = IF SetSeenThrows(m) THEN rowless \cup {m} ELSE rowless
  /\ IF SetSeenThrows(m) THEN NoNotice(n, lab) ELSE Notice(m, n, lab)
FaultySetSeenLabel(m, n, lab) ==
  /\ seen' = seen \cup {m}
  /\ rowless' = IF SetSeenThrows(m) THEN rowless \cup {m} ELSE rowless
  /\ IF m \in seen \/ SetSeenThrows(m) THEN NoNotice(n, lab)
     ELSE /\ unread' = IF n <= 1 THEN 0 ELSE n - 1
          /\ label' = [lab EXCEPT ![selected'] = Unread(tree'[selected'], seen')]
SetSeen(m, n, lab) ==
  /\ seen' = seen \cup {m}
  /\ rowless' = IF SetSeenThrows(m) THEN rowless \cup {m} ELSE rowless
  /\ IF m \in seen \/ SetSeenThrows(m) THEN NoNotice(n, lab) ELSE Notice(m, n, lab)

\* The buttons of each folder.  The control bar holds those of the selected one.
Buttons(f) == CASE f = INBOX -> {"reply", "delete"}
                [] f = TRASH -> {"restore", "empty"}
                [] OTHER -> {"delete"}
BarServes(f) == Buttons(f) \subseteq Buttons(selected')

\* The content is at hand, the panel was emptied: the mail is seen and rendered.
\* When setSeen throws, nothing of that happens.  updateCtrlBtns_ throws when the
\* bar lacks a button of f, before the mail becomes the active one.
FaultyPresent(f, m, n, lab) ==
  /\ SetSeen(m, n, lab) /\ active' = active
  /\ details' = IF SetSeenThrows(m) THEN None ELSE <<f, m>>
Present(f, m, n, lab) ==
  /\ SetSeen(m, n, lab)
  /\ details' = IF SetSeenThrows(m) THEN None ELSE <<f, m>>
  /\ active' = IF ~SetSeenThrows(m) /\ BarServes(f) THEN [active EXCEPT ![f] = m] ELSE active

\* A mail without content is asked for and shown when the answer comes.
ShowMail(f, m, n, lab) ==
  IF m \in loaded THEN Present(f, m, n, lab) /\ asking' = asking
  ELSE /\ asking[f][m] < MaxAsks
       /\ active' = [active EXCEPT ![f] = m]
       /\ details' = None /\ asking' = [asking EXCEPT ![f][m] = @ + 1]
       /\ NoNotice(n, lab) /\ UNCHANGED <<seen, rowless>>

\* renderMailboxContent_: all rows anew, the newest mail shown; or the message
\* that there is none, where the same exception leaves the details as they are.
RenderContent(f, n, lab) ==
  /\ list' = {<<f, m>> : m \in tree'[f]}
  /\ IF tree'[f] # {} THEN ShowMail(f, Max(tree'[f]), n, lab)
     ELSE /\ details' = IF BarServes(f) THEN None ELSE details
          /\ NoNotice(n, lab) /\ UNCHANGED <<seen, rowless, active, asking>>
RenderThrows(f) == ~BarServes(f) /\ (tree'[f] # {} => Max(tree'[f]) \in loaded)

-----------------------------------------------------------------------------
(* The user.                                                               *)

\* switchMailboxFolder: deactivate empties the list; activate renders the
\* folder or asks for its mails.
FaultySwitchTo(f) ==
  /\ f # selected /\ selected' = f /\ tree' = tree
  /\ IF f \in retrieved THEN list' = list \cup {<<f, m>> : m \in tree[f]}
                       ELSE list' = {}
  /\ UNCHANGED <<retrieved, active, details, loaded, seen, rowless, unread, label, loading, asking, poll, arrived, cameRead>>
  /\ slips' = slips \ {"late"}
SwitchTo(f) ==
  /\ f # selected /\ selected' = f /\ tree' = tree
  /\ IF f \in retrieved
     THEN RenderContent(f, unread, label) /\ loading' = loading
     ELSE /\ loading[f] < MaxLoads /\ loading' = [loading EXCEPT ![f] = @ + 1]
          /\ list' = {}
          /\ UNCHANGED <<active, details, seen, rowless, unread, label, asking>>
  /\ slips' = (slips \ {"late"}) \cup (IF f \notin retrieved /\ loading[f] > 0 THEN {"reload"} ELSE {})
  /\ UNCHANGED <<retrieved, loaded, poll, arrived, cameRead>>

\* A click on a row; the callback needs the active mail of its folder object.
Click(f, m) ==
  /\ <<f, m>> \in list /\ active[f] # None
  /\ UNCHANGED <<selected, retrieved, tree, list, loaded, loading, poll, arrived, cameRead, slips>>
  /\ ShowMail(f, m, unread, label)

\* switchToSibling, by the arrow keys: the next older or newer mail.
Siblings(f, m) ==
  LET older == {o \in tree[f] : o < m}
      newer == {o \in tree[f] : o > m} IN
  (IF older = {} THEN {} ELSE {Max(older)}) \cup (IF newer = {} THEN {} ELSE {Min(newer)})

FaultyArrowKey ==
  /\ active[selected] \in tree[selected]
  /\ active' = [active EXCEPT ![selected] = @ - 1]
  /\ UNCHANGED <<selected, retrieved, tree, list, details, loaded, seen, rowless, unread, label,
                 loading, asking, poll, arrived, cameRead, slips>>
ArrowKey ==
  /\ active[selected] \in tree[selected]
  /\ UNCHANGED <<selected, retrieved, tree, list, loaded, loading, poll, arrived, cameRead, slips>>
  /\ \E m \in Siblings(selected, active[selected]) : ShowMail(selected, m, unread, label)

-----------------------------------------------------------------------------
(* Answers.                                                                *)

\* addMailsToSpamFolder notifies about all unread mails of the Spam folder.
AddedSpam(spam, s) == IF spam = {} THEN 0 ELSE Unread(tree[SPAM] \cup spam, s)
SpamSlip(spam) == IF spam # {} /\ Unread(tree[SPAM], seen) > 0 THEN {"spam"} ELSE {}

\* The mails of folder f: spam goes to the Spam folder, the others to f, and f
\* is rendered, be it selected or not; then the unread ones are counted.
LoadReply(f) ==
  LET mails == {m \in Mails \ NewMails : ServerFolder[m] = f}
      spam == mails \cap SpamMails
      rest == mails \ spam IN
  /\ loading[f] > 0 /\ loading' = [loading EXCEPT ![f] = @ - 1]
  /\ retrieved' = retrieved \cup {f}
  /\ tree' = [tree EXCEPT ![f] = @ \cup rest, ![SPAM] = @ \cup spam]
  /\ UNCHANGED <<selected, loaded, poll, arrived, cameRead>>
  /\ RenderContent(f, unread + AddedSpam(spam, seen) + (IF RenderThrows(f) THEN 0 ELSE Unread(rest, seen)),
                   [label EXCEPT ![f] = Unread(tree'[f], seen), ![SPAM] = Unread(tree'[SPAM], seen)])
  /\ slips' = (IF f = selected THEN slips \ {"late"} ELSE slips \cup {"late"}) \cup SpamSlip(spam)

LoadFails(f) ==
  /\ loading[f] > 0 /\ loading' = [loading EXCEPT ![f] = @ - 1]
  /\ UNCHANGED <<selected, retrieved, tree, active, list, details, loaded, seen, rowless, unread,
                 label, asking, poll, arrived, cameRead, slips>>

\* The content of a mail: the folder object that asked for it shows it.
ContentReply(f, m) ==
  /\ asking[f][m] > 0 /\ asking' = [asking EXCEPT ![f][m] = @ - 1]
  /\ loaded' = loaded \cup {m}
  /\ UNCHANGED <<selected, retrieved, tree, list, loading, poll, arrived, cameRead, slips>>
  /\ Present(f, m, unread, label)

ContentFails(f, m) ==
  /\ asking[f][m] > 0 /\ asking' = [asking EXCEPT ![f][m] = @ - 1]
  /\ UNCHANGED <<selected, retrieved, tree, active, list, details, loaded, seen, rowless, unread,
                 label, loading, poll, arrived, cameRead, slips>>

PollTick ==
  /\ poll = "timer" /\ poll' = "sent"
  /\ UNCHANGED <<selected, retrieved, tree, active, list, details, loaded, seen, rowless, unread,
                 label, loading, asking, arrived, cameRead, slips>>

\* synchFolder: new mails get a row on top of the list, be the Inbox selected or
\* not, before spam is told apart; the rest is counted, read or not, and the timer
\* is set again.
PollReply(new, read) ==
  LET spam == new \cap SpamMails
      rest == new \ spam IN
  /\ poll = "sent" /\ poll' = "timer"
  /\ new \subseteq NewMails \ arrived /\ arrived' = arrived \cup new
  /\ seen' = seen \cup read /\ cameRead' = cameRead \cup (read \cap rest)
  /\ list' = list \cup {<<INBOX, m>> : m \in new}
  /\ tree' = [tree EXCEPT ![INBOX] = @ \cup rest, ![SPAM] = @ \cup spam]
  /\ unread' = unread + AddedSpam(spam, seen') + Cardinality(rest)
  /\ label' = [label EXCEPT ![INBOX] = Unread(tree'[INBOX], seen'), ![SPAM] = Unread(tree'[SPAM], seen')]
  /\ slips' = slips \cup SpamSlip(spam)
  /\ UNCHANGED <<selected, retrieved, active, details, loaded, rowless, loading, asking>>

\* Any other answer than success ends the polling.
PollFails ==
  /\ poll = "sent" /\ poll' = "stopped"
  /\ UNCHANGED <<selected, retrieved, tree, active, list, details, loaded, seen, rowless, unread,
                 label, loading, asking, arrived, cameRead, slips>>

-----------------------------------------------------------------------------
\* wat.app.start: the Inbox is selected and asked for, and the timer set.
Init ==
  /\ selected = INBOX /\ retrieved = {SPAM}
  /\ tree = [f \in Folders |-> {}] /\ active = [f \in Folders |-> None]
  /\ list = {} /\ details = None /\ loaded = {} /\ seen \in SUBSET ReadMails /\ rowless = {}
  /\ unread = 0 /\ label = [f \in Folders |-> 0]
  /\ loading = [f \in Folders |-> IF f = INBOX THEN 1 ELSE 0]
  /\ asking = [f \in Folders |-> [m \in Mails |-> 0]]
  /\ poll = "timer" /\ arrived = {} /\ cameRead = {} /\ slips = {}

Next ==
  \/ \E f \in Folders : SwitchTo(f) \/ LoadReply(f) \/ LoadFails(f)
  \/ \E f \in Folders, m \in Mails : Click(f, m) \/ ContentReply(f, m) \/ ContentFails(f, m)
  \/ ArrowKey \/ PollTick \/ PollFails
  \/ \E new \in SUBSET NewMails : \E read \in SUBSET new : PollReply(new, read)

Spec == Init /\ [][Next]_vars

-----------------------------------------------------------------------------
TypeOK ==
  /\ selected \in Folders /\ retrieved \subseteq Folders
  /\ tree \in [Folders -> SUBSET Mails]
  /\ active \in [Folders -> Mails \cup {None}]
  /\ list \subseteq Folders \X Mails
  /\ details \in (Folders \X Mails) \cup {None}
  /\ loaded \subseteq Mails /\ seen \subseteq Mails /\ rowless \subseteq Mails
  /\ unread \in Nat /\ label \in [Folders -> Nat]
  /\ loading \in [Folders -> 0..MaxLoads]
  /\ asking \in [Folders -> [Mails -> 0..MaxAsks]]
  /\ poll \in {"timer", "sent", "stopped"} /\ arrived \subseteq NewMails /\ cameRead \subseteq arrived
  /\ slips \subseteq {"late", "reload", "spam"}

\* The overview lists the mails of the selected folder: all of them, and besides
\* them only mails a poll put on top; except after a load was answered when its
\* folder was no longer selected ("late"), until the next switch.
ListShowsFolder ==
  "late" \notin slips /\ selected \in retrieved =>
    LET rows == {r[2] : r \in list} IN
    tree[selected] \subseteq rows /\ rows \subseteq tree[selected] \cup arrived

\* Whatever answers arrive in whatever order, when the details panel shows a mail
\* of the selected folder, it is the active one, from which the next deletion or
\* arrow key starts.  (A mail another folder object shows late may not be: the
\* buttons of that folder are missing, and showMail ends with an exception.)
DetailsAreActive ==
  details # None /\ details[1] = selected => active[selected] = details[2]

\* The counter in the title is the number of unread mails the page knows and,
\* for good, of the mails read while no row of them was listed and of those a poll
\* brought already read: these and no others, whatever answers come in whatever
\* order; except after a folder was asked for again while its load was in flight
\* ("reload") or new spam came while older spam was unread ("spam"), which count
\* mails again.
CountedForGood == rowless \cup cameRead
UnreadExact ==
  slips \cap {"reload", "spam"} = {} =>
    unread = Unread(UNION {tree[f] : f \in Folders}, seen \ CountedForGood)

\* The number in each navigation button is never less than the unread mails of its
\* folder, and more by those at most that were read while no row of them was
\* listed; so it is exact for a folder that has none of these, whatever folder is
\* selected when mails arrive or are read.
LabelsExact ==
  \A f \in Folders : /\ label[f] >= Unread(tree[f], seen)
                     /\ label[f] <= Unread(tree[f], seen \ rowless)
=============================================================================
