# Watney: models and proofs

Watney is a web mail client: a Go server (`watney.go`, `web/`, `mail/`, `auth/`,
`conf/`) that keeps one IMAP connection per logged-in user, and a single-page
client in JavaScript (`static/resources/js`). This directory holds TLA+ models of
the parts in which steps of several actors interleave, the TLC configurations that
check them on small instances, and proofs for instances of any size. Paths below
are relative to the repository's root.

## 1. The system

| Component | State | Operations | Talks to |
|---|---|---|---|
| Mail items and folders in the browser (`mailitem.js`, `mailboxfolder.js`, `mailhandler.js`) | per item: `Folder`, `Previous_Folder`, server-side folder, UID, flags; per folder: a tree of items ordered by date, the active item | delete, restore, delete for good, empty trash, mark as seen; reply callbacks | handlers `moveMail`, `updateFlags` by XHR |
| Mailbox page (same files, `maildetails.js`, `app.js`) | selected folder, one overview list, one details panel, unread counter, labels, the poll timer | switch folder, click, arrow key, answers of loads, contents and polls | handlers `mails`, `mailContent`, `poll` |
| Composer (`newmail.js`) | windows and their bar items, hover listeners, the last active window | new, show, hide, preview, minimize, close, send | handler `sendMail` |
| Web handlers (`web/web.go`) | none of their own; the session cookie | one goroutine per request | the user's `WatneyUser` and its `MailCon` |
| Users (`auth/user.go`, `auth/cmap_int_user.go`) | `usermap`: id to `WatneyUser` (connection, `lastSeen`) | `GetById`, `Login`, `Logout`, `CleanUsermap` | session middleware on every request; a ticker every 30 s |
| IMAP connection (`mail/mail.go`) | mutex, selected folder, `client.Data`, `QuitChan` | load, check new mails, flags, move, send, close, keepAlive | IMAP and SMTP server |
| Parser (`mail/mail_parse.go`) | none | header and content parsing, serialisers | pure functions |
| Configuration, `main` | none that changes | read file, start, stop on a signal | |

What is hard here: the client changes its own state first and sends the request
after, so answers meet a state that has moved on; all requests of a user share one
IMAP connection and its *selected folder*, protected by a mutex that is released
between the two halves of a poll; a move is several IMAP commands, each of which can
fail; every request writes its own copy of the user back into `usermap` while a
cleaner iterates over it; and callbacks of four folder objects write to one list and
one details panel. `PROJECT.json` lists the hazards with the lines where they bite.

What makes the components correct:

* *Moves*: no mail is lost, whatever fails; no handler touches another mail; client
  and server agree on where a mail is once its requests are answered.
* *Connection*: a command runs in the folder its own operation selected; what a poll
  names exists and is no mail from before the session; everybody gets the mutex. (That
  nothing new is left out, and that what was `\Recent` at the login is not new, should hold and
  does not: section 5.)
* *Users*: an entry is a user with a connection of his own; a connection is never left
  without an entry; the cleaner removes exactly those who have left.
* *Page*: list and details agree with the folders' mails, and counter and labels with what is
  unread, up to the cases section 5 lists.
* *Composer*: the window the page hides is the one that is shown; text is not lost.

## 2. The modules

| Module | Models | MC module, configurations |
|---|---|---|
| `MailMove` | moves and flags, browser to IMAP folders | `MCMailMove`: `_two`, `_patient`, `_overlap` |
| `SafeMove` | what a move promises: an abstract specification that `MailMove` implements | checked in `MailMove_patient` |
| `MailMove_proofs` | theorems about `MailMove` for any user | |
| `MailMove_patient_proofs` | theorems about `MailMove` for a patient user, and the refinement of `SafeMove` | |
| `MailCon` | the shared IMAP connection, keepAlive, poll | `MCMailCon`: `_session`, `_burst` |
| `MailCon_proofs` | theorems about `MailCon` | |
| `UserSessions` | `usermap`, session middleware, login, logout, cleaner | `MCUserSessions`: `_shared`, `_again` |
| `UserSessions_proofs` | theorems about `UserSessions` | |
| `UserMap` | the map itself: shards, their locks, the iterator and its channel, the cleaner | `MCUserMap`: `_cleaning` |
| `UserMap_proofs` | theorems about `UserMap` | |
| `FolderView` | the mailbox page: loads, contents and polls; counter, labels, seen flags | `MCFolderView`: `_page` |
| `FolderView_proofs` | theorems about `FolderView` | |
| `MailDetails` | the details panel and its picture warning | extended by `MailList` |
| `MailList` | the overview list with everything that removes mails from it, search, control bar | `MCMailList`: `_page`, `_restored` |
| `MailList_proofs` | theorems about `MailList` and `MailDetails` | |
| `Composer` | composer windows and sending | `MCComposer`: `_windows` |
| `Composer_proofs` | theorems about `Composer` | |

Each action stands for one atomic step of the code: a whole callback in the browser
(JavaScript runs a callback to its end), and in a Go handler the stretch between two
points where another goroutine can interfere (a mutex, an IMAP command, a shared
variable). `PROJECT.json` maps every definition to its lines. Operators whose name
begins with `Faulty` or whose comment begins with *Faulty* are plausible mistakes in
the definition after them; no specification uses them. They document which
mistake each property catches.

### MailMove

State: of each item `Folder`, `Previous_Folder`, `Header.Folder`, UID and flags; the
trees; `req`, all requests ever sent about a mail with their answers; `srv`, the
handler that holds the mutex; the messages in the IMAP folders. User actions
(`Delete`, `Restore`, `DeleteForever`, `EmptyTrash`, `ContentShown`) change the client
and append a request in one step. A handler takes the mutex (`Lock`), then
`SelectFolder`, `CopyMail`, `StoreFlags`, each of which may fail. Answers run
`MoveReplyOk`, `MoveReplyFail`, `FlagsReply` in any order, or are dropped
(`ReplyDropped`: `getResponseJson` throws before the error callback). Spam is a folder
of the client only, so moving between Spam and Inbox sends nothing.

The IMAP server is external: `Named`, `CopyMail` and `StoreFlags` follow the commands'
meaning (a UID names one message for good, STORE on a missing UID succeeds), and
`Expunge` is another mail program, as Watney never expunges.

`OtherItemThrows` is a real early exit: `getOtherItem` (mailboxfolder.js:403) calls
`getNextItem` with null when the active mail is the oldest shown one, and the delete
callback ends there. `Restore` and `DeleteForever` act on the mail the Trash's buttons are bound to
and on its active mail, which may have left the Trash since: their guard is `BeenInTrash`, not
the mail's folder. `MayAct` is an assumption about the user, not a check of the program:
nothing more is done to a mail that was deleted for good, and a patient user
waits for the end of a move of it.

### MailCon

State: the messages of the IMAP folders by their UIDs and which of them no session was told of, the
selected folder and its messages as the session was told of them (`view`, `recent`), the
last EXISTS and RECENT in `client.Data`, the mutex, the requests, keepAlive, and what
the browser shows. An operation is `Lock`, `SelectFolder`, one or two commands and
`Return`; `poll` is `Check`, which releases the mutex, then a load. EXISTS and RECENT
are of the selected folder (RFC 3501), and RECENT counts the messages this session is the first
to be told of, those of the answer to SELECT included, which Watney drops. A command may carry the
news (`MayTell`), a NOOP does. Messages arrive, and another program expunges some
(`Expunge`): a sequence number is the rank of a message in `view` (`Numbered`), so an announced number
may name another message later, or none. The session begins with the browser's first load of
the Inbox done; `Fresh` are the messages that were `\Recent` then. That no other session
takes `\Recent` from what arrives is an assumption, and so is that the browser polls again after a
failed poll (mailboxfolder.js:753 stops then, which `FolderView` has).

### UserSessions

A request is `Send`, `Get`, `Copy`, `Put` (the middleware: look up, copy, and `Login` of
the copy, which writes it back) and its handler. `Connect`/`Enter` is a login,
`CheckCon`/`CloseCon`/`RemoveUser` a logout, and the cleaner takes the same three steps
on entries its iterator read ahead. The iterator keeps the read lock of a shard from `IterLock` to
`IterUnlock` and waits in `ReadEntry` for `Room` in its channel, which was made for the entries
counted at `StartCleaning`; meanwhile nobody writes to the shard (`ReadLocked`), and nobody new reads it if
the cleaner waits to write (`Barred`). Other critical sections are one step; `UserMap` has the whole
of it, with every writer that waits and the count shard by shard. `lastSeen` is abstracted to `fresh`: within the
timeout of a day or not. `DayPasses` needs a quiet server: no request takes a day.

### SafeMove

The server cannot move a mail: it copies it and flags the original. So a move is not atomic, and
`SafeMove` says what it is instead. It knows of a mail the `place` it is in, the folders with a `spare`
message of it, the folder the user sees it in (`shown`), where a pending move is to take it
(`wanted`), and whether the user has deleted it for good (`doomed`). A move is asked for; a copy appears in the
wanted folder (`Copy`), takes the place of the original at one moment (`Move`), and the move is
then confirmed; or it never happens and is taken back, which leaves the copy, if there is one, as a
duplicate. `MailMove` maps its messages to these, all live ones (`Stands`, `Duplicates`), and `MovesAreSafe`
says that for a patient user every behaviour of the model is one of `SafeMove`: a mail is never
nowhere, a move is confirmed only if it happened, and a duplicate comes only of a move that was
taken back.

### UserMap

The keys of the map, of each shard the writer that has announced itself, the call each request is
in, and CleanUsermap: `Count` shard by shard, the channel made with that capacity, the iterator
goroutine (`IterLock`, `IterSend`, `IterUnlock`), the loop that receives and logs out
(`Receive`, then `Lock` and `Remove`), and the second loop (`Sweep`). A critical section that
cannot wait inside is one step; only the iterator waits, for room, with a read lock held.
`RWMutex` and channels are external, by the documented meaning: an announced writer keeps new
readers out; a waiting receiver is room for one. Who is outdated is chosen freely.

### FolderView

One action per callback: `SwitchTo`, `Click`, `ArrowKey`, `LoadReply`, `LoadFails`,
`ContentReply`, `ContentFails`, `PollTick`, `PollReply`, `PollFails`. Mails are their
dates. A row of the list and the details panel carry the folder object whose callback
made them, as these callbacks differ in the object they change. Rendering for a folder whose
buttons the control bar lacks throws in `updateCtrlBtns_` before the active mail is set (`Present`,
`RenderThrows`). `setSeen` throws when no row of the mail is listed (`SetSeenThrows`, mailitem.js:169), as for
a content that arrives after its folder was left: the mail is flagged as seen by then, but
counter, label, request and the rest of `showMail` are left out. Three history variables make the
properties say exactly when the bookkeeping is right: `slips` records the events after which it
is off altogether, `rowless` the mails for which `setSeen` threw, `cameRead` those a poll brought
although they were read elsewhere, which are counted as new (section 5).

### MailList and MailDetails

The other half of the page, with the folders loaded: what the user sees and does while mails
leave and enter them. `Filtered` is the filter chain, `NextItem` and `OtherItem` are the two neighbour
functions, the row of a mail and its highlight are looked up as `highlightOverviewItem` does, and
`bound` is what the clicks of the control bar are bound to. `SwitchAndRemove` is
`switchAndRemoveNode`, used by `DeleteButton`, `RestoreButton` and `DeleteKey` together with
`MoveMail`; a move is answered by `MoveDone` or undone by `MoveFails`. `MailDetails` is the panel:
`Render` and `Clean` by a folder object, the choice of a body (`GetContent`), and the warning
with its two buttons. A content whose mail has no row ends in
`setSeen`'s exception, with the panel empty and buttons, highlight and active mail as they were
(`SetSeenThrows`, `PresentThrows`). A search term is the set of mails it matches. A button that has the class
`disabled` cannot be clicked (Bootstrap 3.3.4, external). A move in flight carries a number, as two
of one mail with the same former `Previous_Folder` are two requests. `strays` is a history variable:
mails that a failed move brought back without a row, mails that a button restored to the folder
they were in, and all mails after the list was emptied by a folder object that is not selected or no
longer had the mail; until the list is rendered again.

`MailList` and `FolderView` overlap in switching and showing; they stay two modules because their
product is out of TLC's reach, and because each leaves out what the other is about: `FolderView`
never removes a mail, `MailList` never loads a folder.

### Composer

`stage`, `Visible`, `PreviewActive`, the hover listeners, `LAST_ACTIVE_NEW_MAIL_ITEM`, the
bar item under the mouse, and requests and answers per window. `Rendered` is the timer
of 100 ms in `renderNewMail`; `MailShown` the call of `hideActiveNewMail(null)` from
`showMail`. The server keeps only two facts of a send: whether SMTP took the mail, and
which answer the browser gets.

## 3. What is checked

| Run | Instance | Shows |
|---|---|---|
| `MailMove_two` | two mails starting in Inbox or Trash with UIDs that may be equal, two requests about one and one about the other, every fault, a server with UIDPLUS | `TypeOK`, `NoMailLost`, `RightMail`, `TreeMatchesFolder`, `OnlyServedMail` |
| `MailMove_patient` | a user who leaves a mail alone while a move of it is pending; IMAP commands fail, no answer is dropped; fairness | `SettledAgreement`, `OneLiveCopy`, `FailedMoveReverts`, `EveryRequestAnswered`, and the refinement `MovesAreSafe` |
| `MailMove_overlap` | one mail, no faults, an impatient user | `ServerFollowsClient` is violated |
| `MailCon_session` | two handlers for polls, loads, flags, moves, sending and logout, failures; two mails at the login, one of them `\Recent` and the other expunged at any time, and one that arrives, is copied or sent; fairness | `TypeOK`, `OwnFolder`, `PollFindsItsMails`, `PollOnlyRecent`, `RequestsReturn`, `KeepAliveEnds` |
| `MailCon_burst` | two new mails, a browser that only polls, no failures, fairness | `ArrivalsShown` is violated |
| `UserSessions_shared` | two users of a browser, in one shard, three overlapping requests of every kind, cleaner and iterator, fairness | `TypeOK`, `NoConnectionLeft`, `CleanerSparesSeen`, `StoredUsers`, `AbandonedLeave` |
| `UserSessions_again` | a user logs in twice, one request at a time | `NoConnectionLeft` is violated |
| `UserMap_cleaning` | three users in two shards, a stream of look-ups, logins and logouts next to a cleaning, fairness | `TypeOK`, `NothingMissed`, `StuckOnlyIfGrown`, `EverybodyGetsOn` |
| `FolderView_page` | three mails (one of the Inbox, read before or not, spam, one that arrives, read or not), two loads of a folder and one of each content in flight | `TypeOK`, `ListShowsFolder`, `DetailsAreActive`, `UnreadExact`, `LabelsExact` |
| `MailList_page` | Inbox, Sent and Trash, an HTML mail and one that a poll brings, two contents in flight, two moves, each of which may fail | `TypeOK`, `WarningServesPanel`, `ActsOnPanel`, `AllRowsThere`, `NoGhostRow`, `ShownIsLit` |
| `MailList_restored` | one mail of Sent | `OnlyTrashDeletes` is violated |
| `Composer_windows` | three windows, two requests | `TypeOK`, `LastExists`, `ShownIsLast`, `UnsentStays` |

**Bounds.** Moves of different mails meet in three places: the mutex, a folder's tree
and its UIDs. Two mails reach all of them; two requests about one mail are what it takes for an
answer to meet a state that has moved on, and a move and its undoing, with the third request
a queue behind a running handler. In `MailCon` the hazards are pairwise (two handlers, or a handler and
keepAlive, between two commands), so two requests suffice; each is reused any
number of times. Between them (`SessionOps`) they poll, load the Inbox, set flags, move, send and log out;
loading one content is `Fetch` like loading a folder and is not asked for in the run. One
message before the session that is expunged, one that is `\Recent` and one that comes are what
it takes to shift the numbers of a poll. What holds only while
nothing but the INBOX is selected is stated with `strayed`, a history variable. In `UserSessions` a
race needs a login, a logout and a request looked up between, next to a cleaning: three
requests; the two users share the shard, so that two logins during a cleaning do stop the
cleaner. In `UserMap` two users of one shard are needed for an iterator that holds a lock
and waits for room, and a third in the shard before for what the cleaner does meanwhile; one
goroutine of requests, which calls without end, meets the cleaner and the iterator at each of their steps. In `FolderView` two
loads of one folder are needed for the double count; content loads of different mails and
folders are in flight together. In `MailList` (`MaxLoads`, `MaxMoves`) two contents are what
overtakes another, and two moves are a deletion and its restoring, or two mails in the Trash,
where one has a neighbour and the other is the oldest. In `Composer` the last window, the one shown and a new
one are three; two requests are the double press. All other counters follow from these.

**Deadlock** is not checked where the system may stop: in `MailMove`, `UserSessions` and
`Composer` the bounds exhaust the user's requests, and in `UserMap` and `UserSessions` (`Stuck`) the
cleaner, the iterator and the requests really can wait for each other, which `StuckOnlyIfGrown` and `EverybodyGetsOn`
say more about. It is checked in `MailCon`, where a
state without successor would be goroutines waiting for each other, in `FolderView` and in `MailList`.

**Fairness.** Goroutines that can go on do (WF on their steps). Go's mutex hands over to a
waiter that starves for a millisecond, so acquiring it in `MailCon` is strongly fair, as
is the choice of keepAlive's `select`; in `MailMove` a handler holds it for finitely many
requests only, and WF is enough. Go's read-write mutex lets the readers that waited for a writer in
before the next writer, and its writers in their order, so waiting for a shard in `UserMap` is
strongly fair, and so are the requests of `UserSessions`, which wait for the iterator. Tickers
tick; in `UserMap` not even that is needed. The browser sends its next poll after an
answer; the user owes nothing. The passing of a day is strongly fair, as the moments at
which nothing is under way recur.

## 4. What is proved

`tlapm` proves that every invariant and every action property the passing runs check, and
the refinement, holds for all values of the constants that the named assumptions allow; a
hypothesis beyond these is part of the theorem's statement and is listed here. Each module of
proofs has one inductive invariant (`MailMove_patient_proofs` adds one to that of `MailMove_proofs`,
`MailList_proofs` proves `AllRowsThere` on top of it), one lemma per action, or per action and
conjunct, and a temporal step that is PTL. TLC checked each inductive invariant on a small instance
before it was proved.

**`MailMove_proofs`**, for any finite set of mails, any dates and bounds, any subset of the faults and
with or without UIDPLUS (`MailsAssumption`, `BoundAssumption`, `SwitchAssumption`): `TypeCorrect`,
`NoMailIsLost`, `NamesAreRight`, the action property `OnlyServedMailChanges`, and `TreesMatchFolders`.
`NoMailLost` alone is not inductive: that a store of `\Deleted` leaves a copy depends on what
the running handler copied before. `IInv` adds `Fresh` (UIDs are below `UIDNEXT`, so a new message
collides with none), `Unique` (a UID names one message), `ClientOk` and `RequestsOk` (what items,
requests and answers name is a message of that mail, or of none), and `HandlerOk` with `StoreSafe`:
when a handler is about to flag the original of a move, the mail has another undeleted message, or
the named message was already gone or deleted. `TreesMatchFolders` assumes that no two mails
have the same date: otherwise `AvlTree.add` refuses one of them.

**`MailMove_patient_proofs`**: `FailedMovesAreTakenBack` for a user who is `Patient` and answers that
arrive (`Attentive`), and `ClientAndServerAgree`, `NoCopyIsLeft` and the refinement
`MovesImplementSafeMove` if the server has UIDPLUS besides (`Favourable`). None of the three can
be left out. `MailMove_overlap` shows what an impatient user does; after a lost answer nothing is
taken back; without COPYUID a move that has happened is reported as failed. The invariant of a mail has
two halves. `ClientHalf`: at most one move is pending, from `Previous_Folder` to `Folder`, and it
names the mail as the item does. `ServerHalf`: the message the item names is alive until the server
has done the move, the copy is alive from then on, and if nothing failed no other message of the mail
is. In the refinement the handler's COPY is the abstract `Copy`, its store of `\Deleted` the `Move` (or
the disappearing of a mail deleted for good), a refused COPY or STORE no step until the client takes the
move back; an expunge of flagged messages is no step.

**`MailCon_proofs`**, for any handlers, folders and operations and with or without failures
(`MailConAssumption`: UIDs are numbers, and what is `\Recent` has larger ones than what is not):
`TypeCorrect`, `CommandsInOwnFolder`, `PollNamesMessages` and
`PollsBringRecent`. `MutexOk` says that whoever is past the lock holds the mutex, `CountsOk` that
RECENT counts no more than EXISTS. `InboxOk` is about sessions in which nothing
but the INBOX was selected. With `Older` the messages that were not `\Recent` at the login: what the
session was told the INBOX holds has all of `Older` but what was expunged, in front (`Basis`); the numbers
counted (`Counted`) and those a poll carries (`Named`) are the ranks behind it. An expunge only lowers the rank of a
message, and a new message comes last, so a number that was behind `Older` stays behind it
(`PollsBringRecent`); and if nothing of the announced INBOX was expunged, it names what it did
(`PollNamesMessages`). The last two properties say nothing once `strayed` holds;
section 5 has what happens then.

**`UserSessions_proofs`**, for any browsers, users and requests (`UserSessionsAssumption`):
`TypeCorrect` and `UsersAreFilled`; and `ConnectionsBelongToUsers` and the action property
`CleanerSparesWhoIsSeen` under `~LogsInAgain`, which run `UserSessions_again` shows to be
needed for the first. The invariant follows every entry that somebody may still act on (`Refs`): those
of `usermap`, those CleanUsermap has read, those requests have found, and those of their copies.
All are filled by a login of their id (`RefsFilled`), of a login that is through (`Entered`), and who removes
one has seen its connection closed (`ClosedFirst`). With one login of each user
(`OnceOk`), entries of one id are all fresh after a request of it came, and one object before.

**`UserMap_proofs`**, for any finite set of users, any number of shards and any requests
(`UserMapAssumption`): `TypeCorrect`, `NobodyMissed` and `StuckNeedsGrowth`. `IInv` says where each key
of the map is. `SteadyOk`: a key that stayed since the cleaning began has been received, or is in
the channel, in what the iterator read of its shard, or in a shard it has yet to lock; at the end
only the first is left. `CountOk`: as long as at most one user logged in, the counted shards hold
at most one entry more than was counted. `RangeOk` carries that through the iteration: the keys
received, in the channel, read and ahead are together at most the count and the logins. For the
cleaner and the iterator to stop each other one key must be received, the channel full and
one key left, which is two more than the count. `PcOk` ties the variables of the cleaning to where
it is.

**`FolderView_proofs`**, for any finite set of mails, anywhere on the server, and any number of loads
in flight (`FolderViewAssumption`): `TypeCorrect`, `ListIsOfFolder`, `PanelShowsActive`,
`CounterIsExact` and `LabelsAreExact`. The first says by which mails the counter is too high
(`rowless`, `cameRead`) unless `slips` has a double count, the second bounds each label by the mails of
`rowless`; both are exact where there are none. The counter is right after a load only if that load brings
what was not counted: so `IInv` says that folder objects have their own mails only, and before
their load was answered those of polls only (`TreesOk`); that what is shown, asked for and seen came
from somewhere (`ShownOk`), and not before its folder was retrieved (`RetrievedOk`); and that
a folder is loaded once unless `slips` says otherwise (`LoadsOk`).

**`MailList_proofs`**, for any finite set of mails, any folders, search terms and bodies, and any number
of contents and moves in flight (`MailListAssumption`, `MailDetailsAssumption`): `TypeCorrect`,
`WarningIsOfPanel`, `ButtonsActOnPanel`, `NoRowIsLeft`, `ShownRowIsLit` and `NoRowIsMissing`. A row on
top by a poll is sound only because a mail that no poll has brought is in no part of the page
(`NotInPage`) and was neither moved nor deleted (`NotHandled`). `BoundOk` says that the control bar
holds buttons of the folder object it is bound to, and that these are buttons of the selected folder:
a Delete click never comes while the Trash is selected, nor a Restore click elsewhere, so a mail whose
row goes leaves the selected folder. Where it does not is the exception of `strays` for mails restored to
the Trash, which was found in this proof: it takes four moves of a mail in flight among three mails,
more than `MailList_page` has.

**`Composer_proofs`**, for any set of windows and any bound on requests (`ComposerAssumption`):
`TypeCorrect`, `LastOneExists`, `OnlyLastIsShown` and `UnsentIsKept`. The inductive invariant is the
conjunction of the four properties and `OkMeansMailed`: an answer that closes a window is on its way
only if the mail was taken.

Only model-checked are the liveness properties: `EveryRequestAnswered`, `RequestsReturn`,
`KeepAliveEnds`, `AbandonedLeave` and `EverybodyGetsOn`. Liveness under fairness is out of the prover's reach. The
runs that expect a violation are TLC's alone. A recursive definition is not used in a module with
theorems.

## 5. Where code and comments disagree

Shown by a run:

* `MailMove_overlap`: a Restore right after a Delete sends nothing (mailitem.js:225 compares
  with a header that is stale while the move is pending). The pending move then completes:
  Inbox in the client, Trash on the server. mailhandler.js:190 promises otherwise.
* `MailList_restored`: the Trash's active mail outlives its stay there. After it was restored, or
  the move to the Trash failed, the list is empty, but the Delete key still flags that mail `\Deleted`
  in the folder it is in now (mailboxfolder.js:876).
* `MailCon_burst`: `poll` checks and loads in two calls; a mail that arrives in between is announced in
  the answer to the load's SELECT, which mail.go:700 drops. If no other mail comes before the next
  SELECT, no poll names it, and it is not shown until a reload (web.go:245, mail.go:433).
* `UserSessions_again`: a second login overwrites the entry without closing its connection
  (user.go:41); nothing closes it later, and its keepAlive runs on.

Met while modelling, in the models but without a run of their own:

* Without UIDPLUS a successful move is reported as failed (mail.go:659), and the client undoes
  it although the mail has moved.
* A mail moved next to one with the same date is in no folder (mailitem.js:293; TODO
  watney-26).
* `setSeen` during a pending move flags the message that is left behind (mailitem.js:182).
* Mails that are `\Recent` at the login are counted by the SELECT of the first load, whose answer is
  dropped; with the next arrival RECENT counts them again, and the poll answers with them as new
  (mail.go:478).
* A mail that is expunged between the check and the load of a poll shifts the numbers: the poll
  fails, or brings a newer mail for the expunged one (web.go:245-254).
* The content of an unread mail that arrives after its folder was left: `setSeen` throws for the missing
  row after it has set the flag, so counter and label stay too high, the server is not told, and
  the panel stays empty (mailitem.js:169).
* A poll counts all mails it brings, also those read elsewhere (mailboxfolder.js:752).
* After an operation on another folder, NOOPs bring no news of the INBOX, and after a send with
  Sent selected the next poll answers with an old mail (mail.go:696, web.go:245).
* A user is taken for outdated right after his login, as `lastSeen` is still zero; a logout
  that overtakes a request of the same user leaves him in `usermap` with a closed
  connection; a logout and the cleaner may close the same channel twice, which panics in
  the cleaner and ends the process (user.go:41, 48, 98).
* The answer to a load is rendered over whatever folder is selected (`"late"`); a folder asked
  for twice is counted twice (`"reload"`); new spam counts all unread spam again (`"spam"`).
* `IterBuffered` makes its channel for as many entries as `Count` found. If two users log in
  after that, into the shard of an outdated one, the iterator waits for room with the shard's
  read lock, and the cleaner waits in `Remove` for its write lock: the shard is locked for good
  (cmap_int_user.go:131).
* A second press of Delete or Restore while the next content loads acts on a mail that has left the
  folder: the list is emptied though the folder has mails, and the second Restore moves the mail
  back to the Trash (mailboxfolder.js:345, 653).
* A mail can be moved from the Trash to the Trash: if it is deleted, restored, deleted and restored
  before the answers come and the second delete fails, `Previous_Folder` is the Trash as well. A
  Restore button bound before then only takes its row away (mailboxfolder.js:653, 846).
* With one mail left in the list, or the oldest one active, Delete and Restore do nothing if the folder has
  other mails, hidden by a search or flagged as deleted: `getOtherItem` asks for the sibling of null
  (mailboxfolder.js:403), where its comment promises the next newer mail.
* A folder keeps its quick search filter when it is left, and is shown filtered under an empty
  search bar later (mailboxfolder.js:683).
* `getContent` answers with an excuse if a mail has neither the body asked for nor a plain one,
  where its comment says "any remaining existing body will be returned" (mailmodel.js:115, 136).
* A new mail window does not hide the one that is shown, as `createNewMail` passes the last
  active window itself to `hideActiveNewMail` (mailhandler.js:255), whose comment says
  "Check if another new mail item is currently active and hide it".
* A window minimized and shown again by two clicks keeps its hover events, and vanishes when
  the mouse leaves the bar; newmail.js:101 says "we don't want hover events".

## 6. Not modelled

* The parser (`mail_parse.go`): pure functions over text, whose hard part is character sets and
  malformed input; nothing in it interleaves with anything.
* Configuration and `main`: a file read once; a process that ends on a signal.
* The SMTP dialogue: a straight sequence of blocking calls, of which `Composer` keeps the outcome.
* Templates, styles and vendored code.

Within modelled parts: DOM ids that coincide (they are made of UIDs, which are unique in one folder
only); mails that a load and a poll both answer with (a load empties the queue a poll reads); the
library's other responses in `client.Data`; the unsynchronised access to `lastSeen`; dialling and
logging in, which are one step of a login; spinners; the sanitising of HTML; the cursor in the search
bar and which keys it swallows.

## 7. Possible extensions

1. `MailParse`: multipart splitting and the flag and header serialisers over abstract parts.
2. Properties for the hazards that have none yet: flags set while a move is pending, an answer
   without COPYUID, and the responses that make a poll or a send fail.

Runs stay few: instances of one module that ask related questions share a run.
