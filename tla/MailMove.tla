------------------------------ MODULE MailMove ------------------------------
(***************************************************************************)
(* Moving, deleting, restoring and flagging mails: the mail items of the   *)
(* browser client (static/resources/js/mail), the requests they send, the  *)
(* Go handlers that serve them under the connection's mutex (web/web.go,   *)
(* mail/mail.go), and the copies of the mails in the IMAP folders.         *)
(*                                                                         *)
(* The client changes its own state first and sends the request after; the *)
(* replies come back in any order.  A server-side move is three IMAP       *)
(* commands, SELECT, UID COPY and UID STORE +FLAGS (\Deleted), each of     *)
(* which may fail.  Nothing is ever expunged by this program.              *)
(***************************************************************************)
EXTENDS Naturals, Sequences, FiniteSets

CONSTANTS
    Mails,      \* the mail items the client has loaded
    DateOf,     \* their Date, the only key of a folder's AVL tree
    MaxReq,     \* bound: how many requests the client sends about each mail
    StartFolders, \* bound: the folders the loaded mails start in
    Patient,    \* the user leaves a mail alone while a move of it is pending
    UidPlus,    \* the IMAP server answers a copy with a COPYUID
    Faults      \* which of FaultKinds may happen

FaultKinds == {"auth", "select", "copy", "store", "drop", "expunge"}

ASSUME MailsAssumption == IsFiniteSet(Mails) /\ DateOf \in [Mails -> Nat]
ASSUME BoundAssumption == MaxReq \in [Mails -> Nat] /\ StartFolders \subseteq {"/", "Sent", "Trash", "Spam"}
ASSUME SwitchAssumption ==
    Patient \in BOOLEAN /\ UidPlus \in BOOLEAN /\ Faults \subseteq FaultKinds

INBOX == "/"
SENT  == "Sent"
TRASH == "Trash"
SPAM  == "Spam"
ServerFolders == {INBOX, SENT, TRASH}
Folders == ServerFolders \union {SPAM}

\* Spam exists in the client only; its mails live in the INBOX.
AssocServerFolder(f) == IF f = SPAM THEN INBOX ELSE f

Copies == [folder : ServerFolders, uid : Nat, mail : Mails,
           seen : BOOLEAN, deleted : BOOLEAN]

Requests == [kind : {"move", "seen", "deleted"}, folder : ServerFolders, uid : Nat,
             target : ServerFolders, origPrev : Folders,
             state : {"sent", "ok", "fail"}, newUid : Nat, waiting : BOOLEAN]

Idle == [pc |-> "idle"]
Running == [pc : {"select", "copy", "store"}, mail : Mails, idx : Nat, newUid : Nat]

VARIABLES
    folder,     \* MailItem.Folder: where the client shows the mail
    prev,       \* MailItem.Previous_Folder
    hfolder,    \* MailItem.Mail.Header.Folder: the server-side folder
    uid,        \* MailItem.Mail.UID
    seen,       \* MailItem.Mail.Flags.Seen
    deleted,    \* MailItem.Mail.Flags.Deleted
    tree,       \* MailboxFolder.mails_, per folder
    req,        \* requests sent about a mail, and their answers
    srv,        \* the handler that holds MailCon.mutex, if any
    copies,     \* the messages in the IMAP folders
    uidNext     \* UIDNEXT of every IMAP folder

client == <<folder, prev, hfolder, uid, seen, deleted, tree>>
server == <<srv, copies, uidNext>>
vars == <<client, req, server>>

TypeOK ==
    /\ folder \in [Mails -> Folders]
    /\ prev \in [Mails -> Folders]
    /\ hfolder \in [Mails -> ServerFolders]
    /\ uid \in [Mails -> Nat]
    /\ seen \in [Mails -> BOOLEAN]
    /\ deleted \in [Mails -> BOOLEAN]
    /\ tree \in [Folders -> SUBSET Mails]
    /\ req \in [Mails -> Seq(Requests)]
    /\ srv \in {Idle} \union Running
    /\ copies \subseteq Copies
    /\ uidNext \in [ServerFolders -> Nat]

(***************************************************************************)
(* Initially the client has loaded all folders: one item per message, also *)
(* for the messages with the \Deleted flag that earlier moves left behind; *)
(* those are in the tree but never shown.  An INBOX mail with a spam       *)
(* indicator is shown in Spam; its Previous_Folder stays the INBOX.        *)
(***************************************************************************)
Init ==
    /\ folder \in [Mails -> StartFolders]
    /\ \A m, n \in Mails : m # n /\ DateOf[m] = DateOf[n] => folder[m] # folder[n]
    /\ hfolder = [m \in Mails |-> AssocServerFolder(folder[m])]
    /\ uid \in [Mails -> 1 .. Cardinality(Mails)]
    /\ \A m, n \in Mails : <<hfolder[m], uid[m]>> = <<hfolder[n], uid[n]>> => m = n
    /\ prev = hfolder
    /\ seen \in [Mails -> BOOLEAN]
    /\ deleted \in [Mails -> BOOLEAN]
    /\ tree = [f \in Folders |-> {m \in Mails : folder[m] = f}]
    /\ req = [m \in Mails |-> <<>>]
    /\ srv = Idle
    /\ copies = {[folder |-> hfolder[m], uid |-> uid[m], mail |-> m,
                  seen |-> seen[m], deleted |-> deleted[m]] : m \in Mails}
    /\ uidNext = [f \in ServerFolders |-> Cardinality(Mails) + 1]

-----------------------------------------------------------------------------
(* The client *)

\* The tree compares dates only: a mail of the same date is removed in m's
\* place, and m is not added next to one.
SameDate(m) == {n \in Mails : DateOf[n] = DateOf[m]}
TreeRemove(S, m) == S \ SameDate(m)
TreeAdd(S, m) == IF S \intersect SameDate(m) = {} THEN S \union {m} ELSE S

\* The mails the overview list of folder f shows (no search term given).
FilteredMails(f) == {n \in tree[f] : ~deleted[n]}

\* getOtherItem() of folder object f looks for the sibling of null, and throws,
\* when f holds other mails but no older one is shown; the click handler is then
\* left before it has done anything.  A mail f does not hold throws nothing.
OtherItemThrows(f, m) ==
    /\ tree[f] \intersect SameDate(m) # {}
    /\ Cardinality(tree[f]) > 1
    /\ \/ Cardinality(FilteredMails(f)) <= 1
       \/ m \in FilteredMails(f) /\ \A n \in FilteredMails(f) : DateOf[n] >= DateOf[m]

\* Faulty: the item stays in the tree of its old folder.
MoveInClientKeepingOld(m, into) ==
    /\ tree' = [tree EXCEPT ![into] = TreeAdd(@, m)]
    /\ folder' = [folder EXCEPT ![m] = into]

\* The client-side half of moveMail().
MoveInClient(m, into) ==
    /\ tree' = [f \in Folders |-> CASE f = folder[m] -> TreeRemove(tree[f], m)
                                    [] f = into -> TreeAdd(tree[f], m)
                                    [] OTHER -> tree[f]]
    /\ folder' = [folder EXCEPT ![m] = into]

\* A request names the mail by the folder and UID the client knows now.
NewRequest(m, kind, target) ==
    [kind |-> kind, folder |-> hfolder[m], uid |-> uid[m], target |-> target,
     origPrev |-> prev[m], state |-> "sent", newUid |-> 0, waiting |-> TRUE]
Send(m, r) == Len(req[m]) < MaxReq[m] /\ req' = [req EXCEPT ![m] = Append(@, r)]

\* moveMail(mail, into) with its server-side half; moveMailOnServer() sends
\* nothing when the header already names the target folder.
MoveMail(m, into) ==
    /\ folder[m] # into
    /\ MoveInClient(m, into)
    /\ prev' = [prev EXCEPT ![m] = folder[m]]
    /\ LET target == AssocServerFolder(into) IN
       IF hfolder[m] = target
       THEN UNCHANGED req
       ELSE Send(m, NewRequest(m, "move", target))
    /\ UNCHANGED <<hfolder, uid, seen, deleted>>

MovePending(m) == \E i \in DOMAIN req[m] : req[m][i].kind = "move" /\ req[m][i].waiting

\* An assumption about the user, no check of the program: nothing more is done to
\* a mail once it is deleted for good, and a patient user waits for a move's end.
MayAct(m) == ~deleted[m] /\ (Patient => ~MovePending(m))

\* The Delete button, or the delete key, in INBOX, Sent and Spam.
Delete(m) ==
    /\ MayAct(m)
    /\ folder[m] # TRASH
    /\ ~OtherItemThrows(folder[m], m)
    /\ MoveMail(m, TRASH)
    /\ UNCHANGED server

\* The Trash's active mail, and the one its buttons are bound to, is a mail its
\* list has shown; it may have left the folder since, nobody looks.
BeenInTrash(m) ==
    \/ folder[m] = TRASH
    \/ \E i \in DOMAIN req[m] : req[m][i].kind = "move" /\ req[m][i].target = TRASH

\* The Restore button of the Trash.
Restore(m) ==
    /\ MayAct(m)
    /\ BeenInTrash(m)
    /\ prev[m] # folder[m]
    /\ ~OtherItemThrows(TRASH, m)
    /\ MoveMail(m, prev[m])
    /\ UNCHANGED server

\* The delete key in the Trash: set the Deleted flag of its active mail, here and
\* on the server, in whichever folder the mail is by then.
DeleteForever(m) ==
    /\ MayAct(m)
    /\ BeenInTrash(m)
    /\ ~OtherItemThrows(TRASH, m)
    /\ deleted' = [deleted EXCEPT ![m] = TRUE]
    /\ Send(m, NewRequest(m, "deleted", hfolder[m]))
    /\ UNCHANGED <<folder, prev, hfolder, uid, seen, tree, server>>

\* The Empty Trash button: setDeleted(true) on every mail of the Trash's tree.
EmptyTrash ==
    LET doomed == FilteredMails(TRASH) IN
    /\ doomed # {}
    /\ \A m \in doomed : MayAct(m) /\ Len(req[m]) < MaxReq[m]
    /\ deleted' = [m \in Mails |-> deleted[m] \/ m \in doomed]
    /\ req' = [m \in Mails |-> IF m \in doomed
                               THEN Append(req[m], NewRequest(m, "deleted", hfolder[m]))
                               ELSE req[m]]
    /\ UNCHANGED <<folder, prev, hfolder, uid, seen, tree, server>>

\* The content of m has arrived and m is shown: setSeen(true).  The reply may
\* come at any time, also after the user has moved the mail on.
ContentShown(m) ==
    /\ ~seen[m]
    /\ seen' = [seen EXCEPT ![m] = TRUE]
    /\ Send(m, NewRequest(m, "seen", hfolder[m]))
    /\ UNCHANGED <<folder, prev, hfolder, uid, deleted, tree, server>>

Answered(m, i) == i \in DOMAIN req[m] /\ req[m][i].waiting /\ req[m][i].state # "sent"
Forget(m, i) == req' = [req EXCEPT ![m][i].waiting = FALSE]

\* Faulty: the item keeps the UID it had in the old folder.
MoveReplyOkKeepingUid(m, i) ==
    /\ Answered(m, i)
    /\ req[m][i].kind = "move" /\ req[m][i].state = "ok"
    /\ hfolder' = [hfolder EXCEPT ![m] = req[m][i].target]
    /\ Forget(m, i)
    /\ UNCHANGED <<folder, prev, uid, seen, deleted, tree, server>>

\* A move succeeded: the item takes the new server-side folder and UID.
MoveReplyOk(m, i) ==
    /\ Answered(m, i)
    /\ req[m][i].kind = "move" /\ req[m][i].state = "ok"
    /\ hfolder' = [hfolder EXCEPT ![m] = req[m][i].target]
    /\ uid' = [uid EXCEPT ![m] = req[m][i].newUid]
    /\ Forget(m, i)
    /\ UNCHANGED <<folder, prev, seen, deleted, tree, server>>

\* Faulty: only Previous_Folder is put back, the item is not moved.
MoveReplyFailNotMoving(m, i) ==
    /\ Answered(m, i)
    /\ req[m][i].kind = "move" /\ req[m][i].state = "fail"
    /\ prev' = [prev EXCEPT ![m] = req[m][i].origPrev]
    /\ Forget(m, i)
    /\ UNCHANGED <<folder, hfolder, uid, seen, deleted, tree, server>>

\* Faulty: the item is moved to the folder it was in before its last one.
MoveReplyFailTooFar(m, i) ==
    /\ Answered(m, i)
    /\ req[m][i].kind = "move" /\ req[m][i].state = "fail"
    /\ LET back == req[m][i].origPrev IN
       IF folder[m] = back THEN UNCHANGED <<folder, tree>> ELSE MoveInClient(m, back)
    /\ prev' = [prev EXCEPT ![m] = req[m][i].origPrev]
    /\ Forget(m, i)
    /\ UNCHANGED <<hfolder, uid, seen, deleted, server>>

\* A move failed: moveMail(mail, Previous_Folder, false), and Previous_Folder
\* becomes what it was when the request was made.
MoveReplyFail(m, i) ==
    /\ Answered(m, i)
    /\ req[m][i].kind = "move" /\ req[m][i].state = "fail"
    /\ IF folder[m] = prev[m] THEN UNCHANGED <<folder, tree>> ELSE MoveInClient(m, prev[m])
    /\ prev' = [prev EXCEPT ![m] = req[m][i].origPrev]
    /\ Forget(m, i)
    /\ UNCHANGED <<hfolder, uid, seen, deleted, server>>

\* The answer to a flag update changes nothing, an error included.
FlagsReply(m, i) ==
    /\ Answered(m, i)
    /\ req[m][i].kind # "move"
    /\ Forget(m, i)
    /\ UNCHANGED <<client, server>>

\* The connection breaks, or the error's body is no JSON: getResponseJson()
\* throws before the error callback runs, and nothing is reverted.
ReplyDropped(m, i) ==
    /\ "drop" \in Faults
    /\ i \in DOMAIN req[m] /\ req[m][i].waiting
    /\ Forget(m, i)
    /\ UNCHANGED <<client, server>>

-----------------------------------------------------------------------------
(* The server *)

\* Faulty: no folder was selected, any message with the UID is meant.
NamedAnywhere(f, u) == {c \in copies : c.uid = u}

Named(f, u) == {c \in copies : c.folder = f /\ c.uid = u}
Current == req[srv.mail][srv.idx]

Answer(m, i, state, newUid) ==
    req' = [req EXCEPT ![m][i].state = state, ![m][i].newUid = newUid]
\* Faulty: the error path returns without releasing the mutex.
ReturnHoldingMutex(state, newUid) ==
    /\ Answer(srv.mail, srv.idx, state, newUid)
    /\ srv' = IF state = "fail" THEN [srv EXCEPT !.pc = "returned"] ELSE Idle

\* Every return of a handler releases the mutex (deferred Unlock).
Return(state, newUid) == Answer(srv.mail, srv.idx, state, newUid) /\ srv' = Idle

Arrived(m, i) ==
    /\ i \in DOMAIN req[m]
    /\ req[m][i].state = "sent"
    /\ srv # Idle => <<srv.mail, srv.idx>> # <<m, i>>

\* moveMail, updateFlags: IsAuthenticated() is false, which answers 419.
Reject(m, i) ==
    /\ "auth" \in Faults
    /\ Arrived(m, i)
    /\ Answer(m, i, "fail", 0)
    /\ UNCHANGED <<client, server>>

\* MoveMail, UpdateMailFlags: take the mutex.  Requests that wait for it are
\* goroutines, served in any order.
Lock(m, i) ==
    /\ srv = Idle
    /\ Arrived(m, i)
    /\ srv' = [pc |-> "select", mail |-> m, idx |-> i, newUid |-> 0]
    /\ UNCHANGED <<client, req, copies, uidNext>>

\* selectFolder(): SELECT the folder the request names.
SelectFolder ==
    /\ srv.pc = "select"
    /\ \/ /\ srv' = [srv EXCEPT !.pc = IF Current.kind = "move" THEN "copy" ELSE "store"]
          /\ UNCHANGED req
       \/ "select" \in Faults /\ Return("fail", 0)
    /\ UNCHANGED <<client, copies, uidNext>>

\* UID COPY: a new message, with the flags of the original, in the target
\* folder.  The answer carries a COPYUID only if the server has UIDPLUS and
\* there was a message to copy.
CopyOf(c, f, u) ==
    [folder |-> f, uid |-> u, mail |-> c.mail, seen |-> c.seen, deleted |-> c.deleted]
CopyMail ==
    LET originals == Named(Current.folder, Current.uid)
        t == Current.target
        new == uidNext[t] IN
    /\ srv.pc = "copy"
    /\ \/ /\ originals = {}
          /\ srv' = [srv EXCEPT !.pc = "store"]
          /\ UNCHANGED <<copies, uidNext>>
       \/ /\ originals # {}
          /\ copies' = copies \union {CopyOf(c, t, new) : c \in originals}
          /\ uidNext' = [uidNext EXCEPT ![t] = new + 1]
          /\ srv' = [pc |-> "store", mail |-> srv.mail, idx |-> srv.idx,
                     newUid |-> IF UidPlus THEN new ELSE 0]
    /\ UNCHANGED <<client, req>>

\* Faulty: the error of the copy is not looked at before the original is
\* flagged.
CopyFailsUnnoticed ==
    /\ "copy" \in Faults
    /\ srv.pc = "copy"
    /\ srv' = [srv EXCEPT !.pc = "store"]
    /\ UNCHANGED <<client, req, copies, uidNext>>

CopyFails ==
    /\ "copy" \in Faults
    /\ srv.pc = "copy"
    /\ Return("fail", 0)
    /\ UNCHANGED <<client, copies, uidNext>>

\* Faulty: a move flags the original as seen instead of deleted.
WithSeenFlag(c) == [c EXCEPT !.seen = TRUE]

\* UID STORE +FLAGS on the message the request names, if it is still there.
WithFlag(c) ==
    IF Current.kind = "seen" THEN [c EXCEPT !.seen = TRUE] ELSE [c EXCEPT !.deleted = TRUE]
StoreFlags ==
    /\ srv.pc = "store"
    /\ copies' = {IF c \in Named(Current.folder, Current.uid) THEN WithFlag(c) ELSE c
                  : c \in copies}
    /\ IF Current.kind = "move" /\ srv.newUid = 0
       THEN Return("fail", 0)   \* "Copy completed without doing anyting"
       ELSE Return("ok", srv.newUid)
    /\ UNCHANGED <<client, uidNext>>

StoreFails ==
    /\ "store" \in Faults
    /\ srv.pc = "store"
    /\ Return("fail", 0)
    /\ UNCHANGED <<client, copies, uidNext>>

\* Another mail program expunges a folder.
Expunge(f) ==
    /\ "expunge" \in Faults
    /\ \E c \in copies : c.folder = f /\ c.deleted
    /\ copies' = {c \in copies : ~(c.folder = f /\ c.deleted)}
    /\ UNCHANGED <<client, req, srv, uidNext>>

-----------------------------------------------------------------------------
UserStep(m) == Delete(m) \/ Restore(m) \/ DeleteForever(m) \/ ContentShown(m)
Reply(m, i) == MoveReplyOk(m, i) \/ MoveReplyFail(m, i) \/ FlagsReply(m, i)
HandlerStep == SelectFolder \/ CopyMail \/ CopyFails \/ StoreFlags \/ StoreFails

Next ==
    \/ EmptyTrash
    \/ HandlerStep
    \/ \E f \in ServerFolders : Expunge(f)
    \/ \E m \in Mails :
         \/ UserStep(m)
         \/ \E i \in DOMAIN req[m] :
              Reply(m, i) \/ ReplyDropped(m, i) \/ Reject(m, i) \/ Lock(m, i)

Spec == Init /\ [][Next]_vars

\* A handler that runs goes on, a waiting one gets the mutex when it is free,
\* and the browser delivers answers; the user owes nothing.
Fairness ==
    /\ WF_vars(HandlerStep)
    /\ \A m \in Mails : \A i \in 1 .. MaxReq[m] : WF_vars(Lock(m, i)) /\ WF_vars(Reply(m, i))

FairSpec == Spec /\ Fairness

-----------------------------------------------------------------------------
(* Properties *)

Live(m) == {c \in copies : c.mail = m /\ ~c.deleted}

\* No mail is lost: whatever fails, whatever order requests are served in and
\* whoever expunges, a mail the user has not deleted for good has an undeleted
\* copy on the server, at every step of every handler.
NoMailLost == \A m \in Mails : deleted[m] \/ Live(m) # {}

\* A UID names one message: no two messages of a folder share it, and what
\* the client, a request or a reply names is never a copy of another mail.
RightMail ==
    /\ \A c, d \in copies : c.folder = d.folder /\ c.uid = d.uid => c = d
    /\ \A m \in Mails :
         /\ \A c \in Named(hfolder[m], uid[m]) : c.mail = m
         /\ \A i \in DOMAIN req[m] :
              /\ \A c \in Named(req[m][i].folder, req[m][i].uid) : c.mail = m
              /\ req[m][i].kind = "move" /\ req[m][i].state = "ok" =>
                   \A c \in Named(req[m][i].target, req[m][i].newUid) : c.mail = m

\* A mail item is in the tree of the folder it says it is in, and in no other.
TreeMatchesFolder ==
    \A m \in Mails, f \in Folders : m \in tree[f] <=> folder[m] = f

AtRest(m) == srv = Idle /\ \A i \in DOMAIN req[m] : req[m][i].state # "sent" /\ ~req[m][i].waiting

\* Once all requests about a mail are answered, the folder and UID the client
\* would send next name an undeleted copy of it, in the server-side folder
\* that belongs to the folder the client shows it in.
SettledAgreement ==
    \A m \in Mails : AtRest(m) /\ ~deleted[m] =>
        /\ hfolder[m] = AssocServerFolder(folder[m])
        /\ \E c \in Live(m) : c.folder = hfolder[m] /\ c.uid = uid[m]

\* Once all requests about a mail are answered, none as failed, it has exactly
\* one undeleted copy, or none if the user deleted it for good: moves leave no
\* duplicate behind, and a mail that was deleted does not come back.
OneLiveCopy ==
    \A m \in Mails : AtRest(m) /\ (\A i \in DOMAIN req[m] : req[m][i].state = "ok")
        => Cardinality(Live(m)) = IF deleted[m] THEN 0 ELSE 1

\* A handler never touches a message of another mail than the one it serves:
\* every message added, changed or removed is one of that mail, or is a
\* deleted one that was expunged.
OnlyServedMail ==
    [][\A c \in (copies \ copies') \union (copies' \ copies) :
          (c \in copies /\ c.deleted) \/ (srv # Idle /\ c.mail = srv.mail)]_vars

\* A failed move puts the mail back into the folder it was taken from: after
\* the reply it is shown where the server-side folder the client knows says.
FailedMoveReverts ==
    [][\A m \in Mails : \A i \in 1 .. MaxReq[m] :
          MoveReplyFail(m, i) => hfolder'[m] = AssocServerFolder(folder'[m])]_vars

\* Every request the browser waits for is answered: no handler, on any of its
\* error paths, keeps the mutex from the others.
EveryRequestAnswered ==
    \A m \in Mails : \A i \in 1 .. MaxReq[m] :
        (i \in DOMAIN req[m]) ~> (i \in DOMAIN req[m] /\ ~req[m][i].waiting)

\* mailhandler.js:192-195: a move into a folder that exists on the server is
\* performed on the server too.  Once the mail is at rest and nothing failed,
\* it has an undeleted copy in the folder it was moved into.
ServerFollowsClient ==
    \A m \in Mails : AtRest(m) /\ ~deleted[m] =>
        \E c \in Live(m) : c.folder = AssocServerFolder(folder[m])

-----------------------------------------------------------------------------
(* The abstract specification *)

Pending(m) == {i \in DOMAIN req[m] : req[m][i].kind = "move" /\ req[m][i].waiting}
Asked(m) == req[m][CHOOSE i \in Pending(m) : TRUE]

\* The names of the undeleted messages of m, and the item's name for m.
LiveAt(m) == {<<c.folder, c.uid>> : c \in Live(m)}
Here(m) == <<hfolder[m], uid[m]>>

\* The message that stands for m: the one the client names; once the original of
\* a move is flagged, the copy.  Every further one is a duplicate.
Stands(m) ==
    IF Here(m) \in LiveAt(m) THEN Here(m)
    ELSE IF Pending(m) # {} THEN <<Asked(m).target, Asked(m).newUid>> ELSE <<"none", 0>>
Duplicates(m) == LiveAt(m) \ {Stands(m)}

Abstract == INSTANCE SafeMove WITH
    Folders <- ServerFolders, None <- "none",
    place <- [m \in Mails |-> Stands(m)[1]],
    spare <- [m \in Mails |-> {p[1] : p \in Duplicates(m)}],
    shown <- [m \in Mails |-> AssocServerFolder(folder[m])],
    wanted <- [m \in Mails |-> IF Pending(m) = {} THEN "none" ELSE Asked(m).target],
    doomed <- deleted

\* For a user who leaves a mail alone while it is moved, whichever command fails:
\* the copy in the target folder is there before the original is given up, the
\* move is confirmed only if it happened and taken back only if it did not, and a
\* second message of a mail is left only by a move that was taken back.
MovesAreSafe == Abstract!Spec
=============================================================================
