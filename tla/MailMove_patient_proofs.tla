------------------------ MODULE MailMove_patient_proofs ------------------------
(***************************************************************************)
(* Proofs about MailMove for a user who leaves a mail alone while a move   *)
(* of it is pending: failed moves are taken back, client and server agree  *)
(* at rest, moves leave no duplicate, and they implement SafeMove.         *)
(***************************************************************************)
EXTENDS MailMove_proofs

(***************************************************************************)
(* The invariant of one mail m has two halves.  ClientHalf says that the   *)
(* item remembers where a pending move came from and goes to: it needs a   *)
(* patient user and answers that arrive.  ServerHalf says which messages   *)
(* of m are alive, and needs the COPYUID as well: without it a move that   *)
(* has happened is reported as failed.                                     *)
(***************************************************************************)
Attentive == Patient /\ "drop" \notin Faults
Favourable == Attentive /\ UidPlus

\* At most one move of m is pending; it leads from Previous_Folder to Folder,
\* and names the mail as the item does.  Without one, header and item agree.
MoveAsked(m) ==
    /\ \A i, j \in Pending(m) : i = j
    /\ \A i \in Pending(m) :
         /\ hfolder[m] = AssocServerFolder(prev[m])
         /\ req[m][i].folder = hfolder[m] /\ req[m][i].uid = uid[m]
         /\ req[m][i].target = AssocServerFolder(folder[m])
         /\ req[m][i].target # hfolder[m]
         /\ ~deleted[m]
    /\ Pending(m) = {} => hfolder[m] = AssocServerFolder(folder[m])

SentWaits(m) == \A i \in DOMAIN req[m] : req[m][i].state = "sent" => req[m][i].waiting

ClientHalf(m) == MoveAsked(m) /\ SentWaits(m)

\* The handler is about to set the flag request i about m asks for.
Storing(m, i) == srv.pc = "store" /\ srv.mail = m /\ srv.idx = i

\* The message the item names is alive until the server has done the move, and
\* the copy the move made is alive from then on; without a move the message the
\* item names is alive, unless the user deleted the mail.
MovePlaced(m) ==
    /\ Pending(m) = {} => deleted[m] \/ Here(m) \in LiveAt(m)
    /\ \A i \in Pending(m) :
         /\ req[m][i].state # "ok" => Here(m) \in LiveAt(m)
         /\ req[m][i].state = "ok" => /\ <<req[m][i].target, req[m][i].newUid>> \in LiveAt(m)
                                     /\ Here(m) \notin LiveAt(m)
         /\ Storing(m, i) => srv.newUid # 0 /\ <<req[m][i].target, srv.newUid>> \in LiveAt(m)

DeleteSent(m, i) ==
    i \in DOMAIN req[m] /\ req[m][i].kind = "deleted" /\ req[m][i].state = "sent"
DeletesHere(m) ==
    \A i \in DOMAIN req[m] : DeleteSent(m, i) =>
        /\ deleted[m]
        /\ req[m][i].folder = hfolder[m] /\ req[m][i].uid = uid[m]

\* Unless a request about m failed, no other message of m is alive, and none at
\* all once the request to delete m is served.
Unfailed(m) == \A i \in DOMAIN req[m] : req[m][i].state # "fail"
NoDuplicate(m) ==
    Unfailed(m) =>
        /\ \A p \in LiveAt(m) :
             \/ p = Here(m)
             \/ \E i \in Pending(m) :
                  \/ req[m][i].state = "ok" /\ p = <<req[m][i].target, req[m][i].newUid>>
                  \/ Storing(m, i) /\ p = <<req[m][i].target, srv.newUid>>
        /\ deleted[m] => LiveAt(m) = {} \/ \E i \in DOMAIN req[m] : DeleteSent(m, i)

ServerHalf(m) == MovePlaced(m) /\ DeletesHere(m) /\ NoDuplicate(m)

-----------------------------------------------------------------------------
(* How a step changes the log and the pending moves of a mail *)

Same(n) == UNCHANGED <<folder[n], prev[n], hfolder[n], uid[n], deleted[n], req[n]>>

LEMMA SameClientHalf ==
    ASSUME NEW n \in Mails, Same(n), ClientHalf(n)
    PROVE  ClientHalf(n)'
<1>1. Pending(n)' = Pending(n)
  BY DEF Same, Pending
<1> QED
  BY <1>1 DEF Same, ClientHalf, MoveAsked, SentWaits

\* A request that is sent takes the next place in the log.
LEMMA OneSent ==
    ASSUME TypeOK, NEW m \in Mails, NEW r \in Requests, Send(m, r)
    PROVE  /\ \A n \in Mails \ {m} : req'[n] = req[n]
           /\ \E k : /\ k \notin DOMAIN req[m] /\ DOMAIN req'[m] = DOMAIN req[m] \union {k}
                     /\ req'[m][k] = r
                     /\ \A j \in DOMAIN req[m] : req'[m][j] = req[m][j]
<1>1. req[m] \in Seq(Requests)
  BY DEF TypeOK
<1>2. req'[m] = Append(req[m], r) /\ \A n \in Mails \ {m} : req'[n] = req[n]
  BY DEF Send, TypeOK
<1>3. /\ Append(req[m], r) \in Seq(Requests)
      /\ Len(Append(req[m], r)) = Len(req[m]) + 1
      /\ \A j \in 1 .. Len(req[m]) : Append(req[m], r)[j] = req[m][j]
      /\ Append(req[m], r)[Len(req[m]) + 1] = r
  BY <1>1, AppendProperties
<1>4. /\ DOMAIN req[m] = 1 .. Len(req[m]) /\ Len(req[m]) \in Nat
      /\ DOMAIN Append(req[m], r) = 1 .. Len(Append(req[m], r))
  BY <1>1, <1>3, LenProperties
<1> DEFINE k == Len(req[m]) + 1
<1>5. /\ k \notin DOMAIN req[m] /\ DOMAIN Append(req[m], r) = DOMAIN req[m] \union {k}
  BY <1>3, <1>4
<1>6. \A j \in DOMAIN req[m] : Append(req[m], r)[j] = req[m][j]
  BY <1>3, <1>4
<1> QED
  BY <1>2, <1>3, <1>5, <1>6

LEMMA PendingFlagSent ==
    ASSUME TypeOK, NEW m \in Mails, NEW r \in Requests, r.kind # "move", Send(m, r)
    PROVE  Pending(m)' = Pending(m)
<1>1. PICK k : /\ k \notin DOMAIN req[m] /\ DOMAIN req'[m] = DOMAIN req[m] \union {k}
               /\ req'[m][k] = r
               /\ \A j \in DOMAIN req[m] : req'[m][j] = req[m][j]
  BY OneSent
<1> QED
  BY <1>1 DEF Pending

LEMMA PendingForgotten ==
    ASSUME TypeOK, NEW m \in Mails, NEW i \in DOMAIN req[m], Forget(m, i)
    PROVE  Pending(m)' = Pending(m) \ {i} /\ \A n \in Mails \ {m} : req'[n] = req[n]
<1>1. /\ DOMAIN req'[m] = DOMAIN req[m]
      /\ \A j \in DOMAIN req[m] :
           req'[m][j] = IF j = i THEN [req[m][i] EXCEPT !.waiting = FALSE] ELSE req[m][j]
  BY ForgetEffect
<1>2. req[m][i] \in Requests
  BY RequestType
<1>3. /\ [req[m][i] EXCEPT !.waiting = FALSE].waiting = FALSE
  BY <1>2 DEF Requests
<1>4. /\ req'[m][i].waiting = FALSE
      /\ \A j \in DOMAIN req[m] \ {i} : req'[m][j] = req[m][j]
  BY <1>1, <1>3
<1>5. Pending(m)' = Pending(m) \ {i}
  BY <1>1, <1>4 DEF Pending
<1>6. \A n \in Mails \ {m} : req'[n] = req[n]
  BY DEF Forget, TypeOK
<1> QED
  BY <1>5, <1>6

\* What a request asks for, and whether the browser waits, is not the server's.
LEMMA PendingAnswered ==
    ASSUME TypeOK, NEW m \in Mails, NEW i \in DOMAIN req[m],
           NEW state \in {"ok", "fail"}, NEW newUid \in Nat, Answer(m, i, state, newUid)
    PROVE  /\ \A n \in Mails \ {m} : req'[n] = req[n]
           /\ DOMAIN req'[m] = DOMAIN req[m] /\ Pending(m)' = Pending(m)
           /\ \A j \in DOMAIN req[m] :
                /\ j # i => req'[m][j] = req[m][j]
                /\ req'[m][j].kind = req[m][j].kind /\ req'[m][j].folder = req[m][j].folder
                /\ req'[m][j].uid = req[m][j].uid /\ req'[m][j].target = req[m][j].target
                /\ req'[m][j].waiting = req[m][j].waiting
           /\ req'[m][i].state = state /\ req'[m][i].newUid = newUid
<1> DEFINE e == WithAnswer(req[m][i], state, newUid)
<1>1. /\ DOMAIN req'[m] = DOMAIN req[m]
      /\ \A j \in DOMAIN req[m] : req'[m][j] = IF j = i THEN e ELSE req[m][j]
  BY AnswerEffect
<1>2. req[m][i] \in Requests
  BY RequestType
<1>3. /\ e.kind = req[m][i].kind /\ e.folder = req[m][i].folder /\ e.uid = req[m][i].uid
      /\ e.target = req[m][i].target /\ e.waiting = req[m][i].waiting
      /\ e.state = state /\ e.newUid = newUid
  BY <1>2 DEF Requests, WithAnswer
<1> HIDE DEF e
<1>4. \A j \in DOMAIN req[m] :
        /\ j # i => req'[m][j] = req[m][j]
        /\ req'[m][j].kind = req[m][j].kind /\ req'[m][j].folder = req[m][j].folder
        /\ req'[m][j].uid = req[m][j].uid /\ req'[m][j].target = req[m][j].target
        /\ req'[m][j].waiting = req[m][j].waiting
  BY <1>1, <1>3
<1>5. Pending(m)' = Pending(m)
  BY <1>1, <1>4 DEF Pending
<1>6. \A n \in Mails \ {m} : req'[n] = req[n]
  BY DEF Answer, TypeOK
<1> QED
  BY <1>1, <1>3, <1>4, <1>5, <1>6

-----------------------------------------------------------------------------
(* The client's half *)

\* A mail the user may act on has no pending move.
LEMMA AloneWhenActed ==
    ASSUME Attentive, NEW m \in Mails, MayAct(m)
    PROVE  Pending(m) = {} /\ ~deleted[m]
BY DEF Attentive, MayAct, MovePending, Pending

\* Moving an item: either no request is needed, or one is pending now.
LEMMA MoveMailHalf ==
    ASSUME TypeOK, NEW m \in Mails, NEW into \in Folders, MoveMail(m, into),
           Pending(m) = {}, ~deleted[m], ClientHalf(m)
    PROVE  /\ ClientHalf(m)' /\ \A n \in Mails \ {m} : Same(n)
           /\ folder'[m] = into /\ hfolder'[m] = hfolder[m] /\ uid'[m] = uid[m]
           /\ \/ hfolder[m] = AssocServerFolder(into) /\ UNCHANGED req
              \/ /\ hfolder[m] # AssocServerFolder(into)
                 /\ \E k : /\ Pending(m)' = {k} /\ k \notin DOMAIN req[m]
                           /\ DOMAIN req'[m] = DOMAIN req[m] \union {k}
                           /\ req'[m][k] = NewRequest(m, "move", AssocServerFolder(into))
                           /\ \A j \in DOMAIN req[m] : req'[m][j] = req[m][j]
<1> DEFINE target == AssocServerFolder(into)
           r == NewRequest(m, "move", target)
<1>1. /\ folder' = [folder EXCEPT ![m] = into] /\ prev' = [prev EXCEPT ![m] = folder[m]]
      /\ UNCHANGED <<hfolder, uid, deleted>>
  BY DEF MoveMail, MoveInClient
<1>2. /\ folder'[m] = into /\ prev'[m] = folder[m] /\ hfolder[m] = AssocServerFolder(folder[m])
      /\ \A n \in Mails \ {m} : folder'[n] = folder[n] /\ prev'[n] = prev[n]
  BY <1>1 DEF TypeOK, ClientHalf, MoveAsked
<1>3. CASE hfolder[m] = target
  <2>1. UNCHANGED req
    BY <1>3 DEF MoveMail
  <2>2. Pending(m)' = {}
    BY <2>1 DEF Pending
  <2>3. ClientHalf(m)'
    BY <1>1, <1>2, <1>3, <2>1, <2>2 DEF ClientHalf, MoveAsked, SentWaits
  <2> QED
    BY <1>1, <1>2, <1>3, <2>1, <2>3 DEF Same
<1>4. CASE hfolder[m] # target
  <2>1. Send(m, r)
    BY <1>4 DEF MoveMail
  <2>2. r \in Requests
    BY AssocType, NewRequestType
  <2>3. /\ r.kind = "move" /\ r.folder = hfolder[m] /\ r.uid = uid[m] /\ r.target = target
        /\ r.state = "sent" /\ r.waiting = TRUE
    BY DEF NewRequest
  <2> HIDE DEF r, target
  <2>4. PICK k : /\ k \notin DOMAIN req[m] /\ DOMAIN req'[m] = DOMAIN req[m] \union {k}
                 /\ req'[m][k] = r
                 /\ \A j \in DOMAIN req[m] : req'[m][j] = req[m][j]
    BY <2>1, <2>2, OneSent
  <2>5. Pending(m)' = {k}
    BY <2>3, <2>4 DEF Pending
  <2>6. MoveAsked(m)'
    BY <1>1, <1>2, <1>4, <2>3, <2>4, <2>5 DEF MoveAsked, target
  <2>7. SentWaits(m)'
    BY <2>3, <2>4 DEF ClientHalf, SentWaits
  <2>8. \A n \in Mails \ {m} : Same(n)
    BY <1>1, <1>2, <2>1, <2>2, OneSent DEF Same
  <2> QED
    BY <1>1, <1>2, <1>4, <2>4, <2>5, <2>6, <2>7, <2>8 DEF ClientHalf, r, target
<1> QED
  BY <1>3, <1>4

\* Sending one more request that is no move, without moving the item.
LEMMA FlagSentHalf ==
    ASSUME TypeOK, NEW m \in Mails, NEW r \in Requests, r.kind # "move", r.waiting,
           Send(m, r), UNCHANGED <<folder, prev, hfolder, uid>>,
           deleted'[m] = deleted[m] \/ Pending(m) = {}, ClientHalf(m)
    PROVE  ClientHalf(m)'
<1>1. PICK k : /\ k \notin DOMAIN req[m] /\ DOMAIN req'[m] = DOMAIN req[m] \union {k}
               /\ req'[m][k] = r
               /\ \A j \in DOMAIN req[m] : req'[m][j] = req[m][j]
  BY OneSent
<1>2. Pending(m)' = Pending(m)
  BY PendingFlagSent
<1>3. \A i \in Pending(m) : req'[m][i] = req[m][i]
  BY <1>1 DEF Pending
<1>4. MoveAsked(m)'
  BY <1>2, <1>3 DEF ClientHalf, MoveAsked
<1>5. SentWaits(m)'
  BY <1>1 DEF ClientHalf, SentWaits
<1> QED
  BY <1>4, <1>5 DEF ClientHalf

LEMMA UserHalf ==
    ASSUME TypeOK, Attentive, NEW m \in Mails, UserStep(m), ClientHalf(m)
    PROVE  ClientHalf(m)' /\ \A n \in Mails \ {m} : Same(n)
<1>1. CASE Delete(m)
  BY <1>1, AloneWhenActed, MoveMailHalf DEF Delete, Folders, ServerFolders
<1>2. CASE Restore(m)
  BY <1>2, AloneWhenActed, MoveMailHalf DEF Restore, TypeOK
<1>3. hfolder[m] \in ServerFolders
  BY DEF TypeOK
<1>4. CASE DeleteForever(m)
  <2>1. Pending(m) = {}
    BY <1>4, AloneWhenActed DEF DeleteForever
  <2>2. /\ NewRequest(m, "deleted", hfolder[m]) \in Requests
        /\ NewRequest(m, "deleted", hfolder[m]).kind # "move"
        /\ NewRequest(m, "deleted", hfolder[m]).waiting
    BY <1>3, NewRequestType DEF NewRequest
  <2>3. ClientHalf(m)'
    BY <1>4, <2>1, <2>2, FlagSentHalf DEF DeleteForever
  <2>4. \A n \in Mails \ {m} : deleted'[n] = deleted[n]
    BY <1>4 DEF DeleteForever, TypeOK
  <2> QED
    BY <1>4, <2>2, <2>3, <2>4, OneSent DEF DeleteForever, Same
<1>5. CASE ContentShown(m)
  <2>1. /\ NewRequest(m, "seen", hfolder[m]) \in Requests
        /\ NewRequest(m, "seen", hfolder[m]).kind # "move"
        /\ NewRequest(m, "seen", hfolder[m]).waiting
    BY <1>3, NewRequestType DEF NewRequest
  <2> QED
    BY <1>5, <2>1, FlagSentHalf, OneSent DEF ContentShown, Same
<1> QED
  BY <1>1, <1>2, <1>4, <1>5 DEF UserStep

\* The Trash is emptied of mails without a pending move only.
LEMMA DoomedAlone ==
    ASSUME Attentive, EmptyTrash
    PROVE  \A m \in FilteredMails(TRASH) : Pending(m) = {} /\ ~deleted[m]
BY DEF Attentive, EmptyTrash, MayAct, MovePending, Pending

LEMMA EmptyTrashHalf ==
    ASSUME TypeOK, Attentive, EmptyTrash, NEW m \in Mails, ClientHalf(m)
    PROVE  ClientHalf(m)' /\ Pending(m)' = Pending(m)
<1>1. /\ DOMAIN req[m] \subseteq DOMAIN req'[m]
      /\ \A j \in DOMAIN req[m] : req'[m][j] = req[m][j]
      /\ \A j \in DOMAIN req'[m] \ DOMAIN req[m] : req'[m][j] = NewRequest(m, "deleted", hfolder[m])
  BY EmptyTrashEffect
<1>2. /\ NewRequest(m, "deleted", hfolder[m]).kind # "move"
      /\ NewRequest(m, "deleted", hfolder[m]).waiting
  BY DEF NewRequest
<1>3. Pending(m)' = Pending(m)
  BY <1>1, <1>2 DEF Pending
<1>4. UNCHANGED <<folder, prev, hfolder, uid>>
  BY DEF EmptyTrash
<1>5. deleted'[m] = deleted[m] \/ Pending(m) = {}
  <2>1. CASE m \in FilteredMails(TRASH)
    BY <2>1, DoomedAlone
  <2>2. CASE m \notin FilteredMails(TRASH)
    BY <2>2 DEF EmptyTrash, TypeOK
  <2> QED
    BY <2>1, <2>2
<1>6. MoveAsked(m)'
  BY <1>1, <1>3, <1>4, <1>5 DEF ClientHalf, MoveAsked, Pending
<1>7. SentWaits(m)'
  BY <1>1, <1>2 DEF ClientHalf, SentWaits
<1> QED
  BY <1>3, <1>6, <1>7 DEF ClientHalf

\* The answer to a move ends it: the header takes the target, or the item goes
\* back to where the header says it is.
LEMMA ReplyHalf ==
    ASSUME TypeOK, NEW m \in Mails, NEW i \in DOMAIN req[m], Reply(m, i), ClientHalf(m)
    PROVE  /\ ClientHalf(m)' /\ \A n \in Mails \ {m} : Same(n)
           /\ UNCHANGED deleted /\ Pending(m)' = Pending(m) \ {i}
           /\ MoveReplyFail(m, i) => /\ UNCHANGED <<hfolder, uid>>
                                     /\ hfolder'[m] = AssocServerFolder(folder'[m])
<1>1. Forget(m, i) /\ UNCHANGED deleted
  BY DEF Reply, MoveReplyOk, MoveReplyFail, FlagsReply, client
<1>2. Pending(m)' = Pending(m) \ {i} /\ \A n \in Mails \ {m} : req'[n] = req[n]
  BY <1>1, PendingForgotten
<1>3. SentWaits(m)'
  <2>1. req[m][i].state # "sent"
    BY DEF Reply, MoveReplyOk, MoveReplyFail, FlagsReply, Answered
  <2>2. req[m][i] \in Requests
    BY RequestType
  <2>3. /\ DOMAIN req'[m] = DOMAIN req[m]
        /\ \A j \in DOMAIN req[m] :
             req'[m][j] = IF j = i THEN [req[m][i] EXCEPT !.waiting = FALSE] ELSE req[m][j]
    BY <1>1, ForgetEffect
  <2>4. [req[m][i] EXCEPT !.waiting = FALSE].state = req[m][i].state
    BY <2>2 DEF Requests
  <2> QED
    BY <2>1, <2>3, <2>4 DEF ClientHalf, SentWaits
<1>4. \A j \in Pending(m) \ {i} : req'[m][j] = req[m][j]
  <2>1. \A j \in DOMAIN req[m] :
           req'[m][j] = IF j = i THEN [req[m][i] EXCEPT !.waiting = FALSE] ELSE req[m][j]
    BY <1>1, ForgetEffect
  <2> QED
    BY <2>1 DEF Pending
<1>5. CASE MoveReplyOk(m, i)
  <2>1. i \in Pending(m)
    BY <1>5 DEF MoveReplyOk, Answered, Pending
  <2>2. Pending(m)' = {}
    BY <1>2, <2>1 DEF ClientHalf, MoveAsked
  <2>3. /\ hfolder'[m] = req[m][i].target /\ UNCHANGED <<folder, prev>>
        /\ \A n \in Mails \ {m} : hfolder'[n] = hfolder[n] /\ uid'[n] = uid[n]
    BY <1>5 DEF MoveReplyOk, TypeOK
  <2>4. MoveAsked(m)'
    BY <2>1, <2>2, <2>3 DEF ClientHalf, MoveAsked
  <2>5. ~MoveReplyFail(m, i)
    BY <1>5 DEF MoveReplyOk, MoveReplyFail
  <2> QED
    BY <1>1, <1>2, <1>3, <2>3, <2>4, <2>5 DEF ClientHalf, Same
<1>6. CASE MoveReplyFail(m, i)
  <2>1. i \in Pending(m)
    BY <1>6 DEF MoveReplyFail, Answered, Pending
  <2>2. Pending(m)' = {}
    BY <1>2, <2>1 DEF ClientHalf, MoveAsked
  <2>3. UNCHANGED <<hfolder, uid>> /\ hfolder[m] = AssocServerFolder(prev[m])
    BY <1>6, <2>1 DEF MoveReplyFail, ClientHalf, MoveAsked
  <2>4. folder'[m] = prev[m] /\ \A n \in Mails \ {m} : folder'[n] = folder[n] /\ prev'[n] = prev[n]
    BY <1>6 DEF MoveReplyFail, MoveInClient, TypeOK
  <2>5. MoveAsked(m)'
    BY <2>2, <2>3, <2>4 DEF MoveAsked
  <2> QED
    BY <1>1, <1>2, <1>3, <2>3, <2>4, <2>5 DEF ClientHalf, Same
<1>7. CASE FlagsReply(m, i)
  <2>1. UNCHANGED <<folder, prev, hfolder, uid, deleted>> /\ i \notin Pending(m)
    BY <1>7 DEF FlagsReply, client, Pending
  <2>2. Pending(m)' = Pending(m) /\ \A j \in Pending(m) : req'[m][j] = req[m][j]
    BY <1>2, <1>4, <2>1
  <2>3. MoveAsked(m)'
    BY <2>1, <2>2 DEF ClientHalf, MoveAsked
  <2>4. ~MoveReplyFail(m, i)
    BY <1>7 DEF FlagsReply, MoveReplyFail
  <2> QED
    BY <1>1, <1>2, <1>3, <2>1, <2>3, <2>4 DEF ClientHalf, Same
<1> QED
  BY <1>5, <1>6, <1>7 DEF Reply

OneAnswer ==
    \/ UNCHANGED req
    \/ \E m \in Mails : \E i \in DOMAIN req[m] : \E state \in {"ok", "fail"}, u \in Nat :
         req[m][i].state = "sent" /\ Answer(m, i, state, u)

\* The server's steps: the items stay, and at most one request is answered.
LEMMA ServerStepEffect ==
    ASSUME TypeOK, HandlerOk,
           \/ HandlerStep
           \/ \E f \in ServerFolders : Expunge(f)
           \/ \E m \in Mails : \E i \in DOMAIN req[m] : Reject(m, i) \/ Lock(m, i)
    PROVE  UNCHANGED client /\ OneAnswer
<1>1. CASE \/ \E f \in ServerFolders : Expunge(f)
           \/ \E m \in Mails : \E i \in DOMAIN req[m] : Reject(m, i) \/ Lock(m, i)
  BY <1>1 DEF Expunge, Reject, Lock, Arrived, OneAnswer
<1>2. CASE HandlerStep
  <2>1. srv.pc # "idle" /\ UNCHANGED client
    BY <1>2 DEF HandlerStep, SelectFolder, CopyMail, CopyFails, StoreFlags, StoreFails
  <2>2. /\ srv.mail \in Mails /\ srv.idx \in DOMAIN req[srv.mail] /\ srv.newUid \in Nat
        /\ req[srv.mail][srv.idx].state = "sent"
    BY <2>1, CurrentType DEF Current
  <2>3. \/ UNCHANGED req
        \/ \E state \in {"ok", "fail"}, u \in Nat : Answer(srv.mail, srv.idx, state, u)
    BY <1>2, <2>2 DEF HandlerStep, SelectFolder, CopyMail, CopyFails, StoreFlags, StoreFails, Return
  <2> QED
    BY <2>1, <2>2, <2>3 DEF OneAnswer
<1> QED
  BY <1>1, <1>2

LEMMA AnswerHalf ==
    ASSUME TypeOK, UNCHANGED client,
           OneAnswer,
           NEW n \in Mails, ClientHalf(n)
    PROVE  ClientHalf(n)'
<1> USE DEF OneAnswer
<1>1. CASE req'[n] = req[n]
  BY <1>1, SameClientHalf DEF Same, client
<1>2. CASE \E i \in DOMAIN req[n] : \E state \in {"ok", "fail"}, u \in Nat : Answer(n, i, state, u)
  <2>1. PICK i \in DOMAIN req[n], state \in {"ok", "fail"}, u \in Nat : Answer(n, i, state, u)
    BY <1>2
  <2>2. /\ DOMAIN req'[n] = DOMAIN req[n] /\ Pending(n)' = Pending(n)
        /\ \A j \in DOMAIN req[n] :
              /\ j # i => req'[n][j] = req[n][j]
              /\ req'[n][j].folder = req[n][j].folder /\ req'[n][j].uid = req[n][j].uid
              /\ req'[n][j].target = req[n][j].target
        /\ req'[n][i].state = state
    BY <2>1, PendingAnswered
  <2>3. MoveAsked(n)'
    BY <2>2 DEF ClientHalf, MoveAsked, Pending, client
  <2>4. SentWaits(n)'
    BY <2>2 DEF ClientHalf, SentWaits
  <2> QED
    BY <2>3, <2>4 DEF ClientHalf
<1> QED
  BY <1>1, <1>2, PendingAnswered

ClientHalves == \A m \in Mails : ClientHalf(m)

LEMMA InitHalves == Init => ClientHalves
<1> SUFFICES ASSUME Init, NEW m \in Mails PROVE ClientHalf(m)
  BY DEF ClientHalves
<1>1. req[m] = <<>> /\ hfolder[m] = AssocServerFolder(folder[m])
  BY DEF Init
<1>2. DOMAIN req[m] = {}
  BY <1>1
<1>3. Pending(m) = {}
  BY <1>2 DEF Pending
<1> QED
  BY <1>1, <1>2, <1>3 DEF ClientHalf, MoveAsked, SentWaits

LEMMA StepHalves == Attentive /\ IInv /\ ClientHalves /\ [Next]_vars => ClientHalves'
<1> SUFFICES ASSUME Attentive, IInv, ClientHalves, [Next]_vars, NEW n \in Mails
             PROVE  ClientHalf(n)'
  BY DEF ClientHalves
<1>1. TypeOK /\ HandlerOk /\ ClientHalf(n)
  BY DEF IInv, ClientHalves
<1>2. CASE EmptyTrash
  BY <1>1, <1>2, EmptyTrashHalf
<1>3. CASE \/ HandlerStep
           \/ \E f \in ServerFolders : Expunge(f)
           \/ \E m \in Mails : \E i \in DOMAIN req[m] : Reject(m, i) \/ Lock(m, i)
  BY <1>1, <1>3, ServerStepEffect, AnswerHalf
<1>4. ASSUME NEW m \in Mails, UserStep(m) PROVE ClientHalf(n)'
  <2>1. ClientHalf(m)
    BY DEF ClientHalves
  <2>2. ClientHalf(m)' /\ \A k \in Mails \ {m} : Same(k)
    BY <1>1, <1>4, <2>1, UserHalf
  <2> QED
    BY <1>1, <2>2, SameClientHalf
<1>5. ASSUME NEW m \in Mails, NEW i \in DOMAIN req[m], Reply(m, i) PROVE ClientHalf(n)'
  <2>1. ClientHalf(m)
    BY DEF ClientHalves
  <2>2. ClientHalf(m)' /\ \A k \in Mails \ {m} : Same(k)
    BY <1>1, <1>5, <2>1, ReplyHalf
  <2> QED
    BY <1>1, <2>2, SameClientHalf
<1>6. \A m \in Mails : \A i \in DOMAIN req[m] : ~ReplyDropped(m, i)
  BY DEF Attentive, ReplyDropped
<1>7. CASE UNCHANGED vars
  BY <1>1, <1>7, SameClientHalf DEF vars, client, Same
<1> QED
  BY <1>2, <1>3, <1>4, <1>5, <1>6, <1>7 DEF Next

LEMMA HalvesInvariance == ASSUME Attentive PROVE Spec => []ClientHalves
BY InitHalves, StepHalves, Invariance, PTL DEF Spec

\* A failed move puts the mail back where the header says it is
\* (mailhandler.js, the error callback of moveMail), when the user waited for
\* the answer and the answer arrives; a server without UIDPLUS does no harm.
THEOREM FailedMovesAreTakenBack == ASSUME Attentive PROVE Spec => FailedMoveReverts
<1> DEFINE Back == \A m \in Mails : \A i \in 1 .. MaxReq[m] :
                      MoveReplyFail(m, i) => hfolder'[m] = AssocServerFolder(folder'[m])
<1>1. IInv /\ ClientHalves => Back
  <2> SUFFICES ASSUME IInv, ClientHalves, NEW m \in Mails, NEW i \in 1 .. MaxReq[m],
                      MoveReplyFail(m, i)
               PROVE  hfolder'[m] = AssocServerFolder(folder'[m])
    OBVIOUS
  <2>1. i \in DOMAIN req[m] /\ Reply(m, i)
    BY DEF MoveReplyFail, Answered, Reply
  <2>2. TypeOK /\ ClientHalf(m)
    BY DEF IInv, ClientHalves
  <2> QED
    BY <2>1, <2>2, ReplyHalf
<1> QED
  BY <1>1, Invariance, HalvesInvariance, PTL DEF Spec, FailedMoveReverts

-----------------------------------------------------------------------------
(* How a step changes the undeleted messages of a mail *)

LEMMA LiveKept == UNCHANGED copies => \A n \in Mails : LiveAt(n)' = LiveAt(n)
BY DEF LiveAt, Live

LEMMA LiveExpunged ==
    ASSUME NEW f \in ServerFolders, Expunge(f)
    PROVE  \A n \in Mails : LiveAt(n)' = LiveAt(n)
<1>1. copies' = {c \in copies : ~(c.folder = f /\ c.deleted)}
  BY DEF Expunge
<1>2. \A n \in Mails : Live(n)' = Live(n)
  BY <1>1 DEF Live
<1> QED
  BY <1>2 DEF LiveAt

\* What a handler names is what its mail is called.
LEMMA NamedServed ==
    ASSUME IInv, srv.pc # "idle"
    PROVE  /\ srv.mail \in Mails /\ srv.idx \in DOMAIN req[srv.mail]
           /\ \A c \in Named(Current.folder, Current.uid) :
                c \in copies /\ c.mail = srv.mail
                /\ c.folder = Current.folder /\ c.uid = Current.uid
<1>1. srv.mail \in Mails /\ srv.idx \in DOMAIN req[srv.mail]
  BY CurrentType DEF IInv
<1>2. RequestOk(srv.mail, Current)
  BY <1>1 DEF IInv, RequestsOk, Current
<1> QED
  BY <1>1, <1>2 DEF RequestOk, Ref, RefIn, Named

\* The copy of an undeleted message is undeleted.
LEMMA LiveCopied ==
    ASSUME IInv, CopyMail, NEW m \in Mails, m = srv.mail
    PROVE  /\ \A n \in Mails \ {m} : LiveAt(n)' = LiveAt(n)
           /\ <<Current.folder, Current.uid>> \in LiveAt(m) =>
                /\ LiveAt(m)' = LiveAt(m) \union {<<Current.target, uidNext[Current.target]>>}
                /\ srv' = [pc |-> "store", mail |-> srv.mail, idx |-> srv.idx,
                           newUid |-> IF UidPlus THEN uidNext[Current.target] ELSE 0]
<1> DEFINE t == Current.target
           new == uidNext[t]
           originals == Named(Current.folder, Current.uid)
           Copy(c) == CopyOf(c, t, new)
<1>1. srv.pc # "idle"
  BY DEF CopyMail
<1>2. /\ srv.mail \in Mails
      /\ \A c \in originals : c \in copies /\ c.mail = srv.mail
                              /\ c.folder = Current.folder /\ c.uid = Current.uid
  BY <1>1, NamedServed
<1>3. copies' = copies \union {Copy(c) : c \in originals}
  BY DEF CopyMail
<1>4. \A c \in originals : /\ Copy(c).folder = t /\ Copy(c).uid = new
                           /\ Copy(c).mail = srv.mail /\ Copy(c).deleted = c.deleted
  BY <1>2 DEF CopyOf
<1> HIDE DEF Copy, t, new, originals
<1>5. \A n \in Mails \ {m} : Live(n)' = Live(n)
  BY <1>2, <1>3, <1>4 DEF Live
<1>6. ASSUME <<Current.folder, Current.uid>> \in LiveAt(m)
      PROVE  LiveAt(m)' = LiveAt(m) \union {<<t, new>>} /\ originals # {}
  <2>1. PICK c \in Live(m) : <<c.folder, c.uid>> = <<Current.folder, Current.uid>>
    BY <1>6 DEF LiveAt
  <2>2. c \in originals /\ ~c.deleted
    BY <2>1 DEF Live, Named, originals
  <2>3. Live(m)' = Live(m) \union {Copy(d) : d \in {e \in originals : ~e.deleted}}
    BY <1>3, <1>4 DEF Live
  <2>4. \A p : p \in LiveAt(m)' <=> p \in LiveAt(m) \/ p = <<t, new>>
    BY <1>4, <2>2, <2>3 DEF LiveAt
  <2> QED
    BY <2>2, <2>4
<1>7. \A n \in Mails \ {m} : LiveAt(n)' = LiveAt(n)
  BY <1>5 DEF LiveAt
<1> QED
  BY <1>6, <1>7 DEF CopyMail, t, new, originals

\* Setting the Deleted flag takes the message out, the Seen flag does not.
LEMMA LiveStored ==
    ASSUME IInv, StoreFlags
    PROVE  \A n \in Mails :
              LiveAt(n)' = IF n = srv.mail /\ Current.kind # "seen"
                           THEN LiveAt(n) \ {<<Current.folder, Current.uid>>}
                           ELSE LiveAt(n)
<1> DEFINE originals == Named(Current.folder, Current.uid)
           After(c) == IF c \in originals THEN WithFlag(c) ELSE c
<1>1. srv.pc # "idle"
  BY DEF StoreFlags
<1>2. \A c \in originals : c \in copies /\ c.mail = srv.mail
                           /\ c.folder = Current.folder /\ c.uid = Current.uid
  BY <1>1, NamedServed
<1>3. copies' = {After(c) : c \in copies}
  BY DEF StoreFlags
<1>4. \A c \in copies : /\ After(c).folder = c.folder /\ After(c).uid = c.uid
                        /\ After(c).mail = c.mail
                        /\ c \notin originals => After(c) = c
  BY DEF WithFlag, IInv, TypeOK, Copies
<1>5. \A c \in copies : c \in originals =>
         After(c).deleted = (c.deleted \/ Current.kind # "seen")
  <2>1. CASE Current.kind = "seen"
    BY <2>1 DEF WithFlag, IInv, TypeOK, Copies
  <2>2. CASE Current.kind # "seen"
    BY <2>2 DEF WithFlag, IInv, TypeOK, Copies
  <2> QED
    BY <2>1, <2>2
<1>6. \A c \in copies : c \in originals <=> c.folder = Current.folder /\ c.uid = Current.uid
  BY DEF Named
<1> HIDE DEF originals, After
<1> SUFFICES ASSUME NEW n \in Mails
             PROVE  LiveAt(n)' = IF n = srv.mail /\ Current.kind # "seen"
                                 THEN LiveAt(n) \ {<<Current.folder, Current.uid>>}
                                 ELSE LiveAt(n)
  OBVIOUS
<1>7. Live(n)' = {After(c) : c \in {d \in Live(n) : ~After(d).deleted}}
  <2>1. \A c \in copies : ~After(c).deleted => ~c.deleted
    BY <1>4, <1>5
  <2> QED
    BY <1>3, <1>4, <2>1 DEF Live
<1>8. \A p : p \in LiveAt(n)' <=> \E c \in Live(n) : ~After(c).deleted /\ p = <<c.folder, c.uid>>
  BY <1>4, <1>7 DEF LiveAt, Live
<1>9. \A c \in Live(n) : c \in copies /\ ~c.deleted /\ c.mail = n
  BY DEF Live
<1>10. CASE n = srv.mail /\ Current.kind # "seen"
  <2>1. \A c \in Live(n) : After(c).deleted <=> <<c.folder, c.uid>> = <<Current.folder, Current.uid>>
    BY <1>4, <1>5, <1>6, <1>9, <1>10
  <2>2. \A p : p \in LiveAt(n)' <=> p \in LiveAt(n) /\ p # <<Current.folder, Current.uid>>
    BY <1>8, <2>1 DEF LiveAt
  <2> QED
    BY <1>10, <2>2
<1>11. CASE ~(n = srv.mail /\ Current.kind # "seen")
  <2>1. \A c \in Live(n) : ~After(c).deleted
    BY <1>2, <1>4, <1>5, <1>9, <1>11
  <2>2. \A p : p \in LiveAt(n)' <=> p \in LiveAt(n)
    BY <1>8, <2>1 DEF LiveAt
  <2> QED
    BY <1>11, <2>2
<1> QED
  BY <1>10, <1>11

-----------------------------------------------------------------------------
(* The server's half: mails a step does not act on, and steps of the client *)

SameStoring(n) ==
    \A i : /\ Storing(n, i)' <=> Storing(n, i)
           /\ Storing(n, i) => srv'.newUid = srv.newUid

LEMMA SameServerHalf ==
    ASSUME NEW n \in Mails, UNCHANGED <<hfolder[n], uid[n], deleted[n], req[n]>>,
           LiveAt(n)' = LiveAt(n), SameStoring(n), ServerHalf(n)
    PROVE  ServerHalf(n)'
<1>1. Pending(n)' = Pending(n) /\ Here(n)' = Here(n) /\ (Unfailed(n)' <=> Unfailed(n))
  BY DEF Pending, Here, Unfailed
<1>2. \A i : DeleteSent(n, i)' <=> DeleteSent(n, i)
  BY DEF DeleteSent
<1>3. MovePlaced(n)'
  <2>1. Pending(n)' = {} => deleted'[n] \/ Here(n)' \in LiveAt(n)'
    BY <1>1 DEF ServerHalf, MovePlaced
  <2>2. ASSUME NEW i \in Pending(n)'
        PROVE  /\ req'[n][i].state # "ok" => Here(n)' \in LiveAt(n)'
               /\ req'[n][i].state = "ok" =>
                    /\ <<req'[n][i].target, req'[n][i].newUid>> \in LiveAt(n)'
                    /\ Here(n)' \notin LiveAt(n)'
               /\ Storing(n, i)' =>
                    srv'.newUid # 0 /\ <<req'[n][i].target, srv'.newUid>> \in LiveAt(n)'
    <3>1. i \in Pending(n) /\ req'[n][i] = req[n][i]
      BY <1>1
    <3>2. Storing(n, i)' => Storing(n, i) /\ srv'.newUid = srv.newUid
      BY <1>1 DEF SameStoring
    <3> QED
      BY <1>1, <3>1, <3>2 DEF ServerHalf, MovePlaced
  <2> QED
    BY <2>1, <2>2 DEF MovePlaced
<1>4. DeletesHere(n)'
  BY <1>2 DEF ServerHalf, DeletesHere
<1>5. NoDuplicate(n)'
  BY <1>1, <1>2 DEF ServerHalf, NoDuplicate, SameStoring
<1> QED
  BY <1>3, <1>4, <1>5 DEF ServerHalf

LEMMA ClientStoring == UNCHANGED server => \A n \in Mails : SameStoring(n) /\ LiveAt(n)' = LiveAt(n)
BY LiveKept DEF server, SameStoring, Storing

\* The handler stores for a request that is in the log, and not answered.
LEMMA StoringSent ==
    ASSUME TypeOK, HandlerOk, NEW m \in Mails, NEW i, Storing(m, i)
    PROVE  i \in DOMAIN req[m] /\ req[m][i].state = "sent" /\ i = srv.idx /\ m = srv.mail
BY CurrentType DEF Storing, Current

\* A move of m is sent while no other is pending.
LEMMA MoveSentHalf ==
    ASSUME IInv, NEW m \in Mails, MovePlaced(m), DeletesHere(m), NoDuplicate(m),
           Pending(m) = {}, ~deleted[m],
           UNCHANGED <<hfolder[m], uid[m], deleted[m], server>>,
           NEW k, k \notin DOMAIN req[m], DOMAIN req'[m] = DOMAIN req[m] \union {k},
           Pending(m)' = {k}, req'[m][k].kind = "move", req'[m][k].state = "sent",
           \A j \in DOMAIN req[m] : req'[m][j] = req[m][j]
    PROVE  ServerHalf(m)'
<1>1. Here(m)' = Here(m) /\ Here(m) \in LiveAt(m) /\ LiveAt(m)' = LiveAt(m)
  BY ClientStoring DEF MovePlaced, Here
<1>2. \A i : ~Storing(m, i)' \/ i \in DOMAIN req[m]
  BY StoringSent DEF IInv, Storing, server
<1>3. MovePlaced(m)'
  BY <1>1, <1>2 DEF MovePlaced
<1>4. DeletesHere(m)'
  BY DEF DeletesHere, DeleteSent
<1>5. Unfailed(m)' => Unfailed(m)
  BY DEF Unfailed
<1>6. NoDuplicate(m)'
  BY <1>1, <1>5 DEF NoDuplicate
<1> QED
  BY <1>3, <1>4, <1>6 DEF ServerHalf

\* A request to set a flag is sent; if it is the Deleted flag, no move of m is
\* pending.
LEMMA FlagSentServerHalf ==
    ASSUME IInv, NEW m \in Mails, ServerHalf(m),
           UNCHANGED <<hfolder[m], uid[m], server>>, Pending(m)' = Pending(m),
           NEW k, k \notin DOMAIN req[m], DOMAIN req'[m] = DOMAIN req[m] \union {k},
           \A j \in DOMAIN req[m] : req'[m][j] = req[m][j],
           req'[m][k].state = "sent",
           \/ req'[m][k].kind = "seen" /\ UNCHANGED deleted[m]
           \/ /\ req'[m][k].kind = "deleted" /\ deleted'[m]
              /\ req'[m][k].folder = hfolder[m] /\ req'[m][k].uid = uid[m]
    PROVE  ServerHalf(m)'
<1>1. Here(m)' = Here(m) /\ LiveAt(m)' = LiveAt(m) /\ SameStoring(m)
  BY ClientStoring DEF Here
<1>2. \A j \in Pending(m) : req'[m][j] = req[m][j]
  BY DEF Pending
<1>3. deleted[m] => deleted'[m]
  OBVIOUS
<1>4. MovePlaced(m)'
  <2>1. Pending(m)' = {} => deleted'[m] \/ Here(m)' \in LiveAt(m)'
    BY <1>1, <1>3 DEF ServerHalf, MovePlaced
  <2>2. ASSUME NEW i \in Pending(m)'
        PROVE  /\ req'[m][i].state # "ok" => Here(m)' \in LiveAt(m)'
               /\ req'[m][i].state = "ok" =>
                    /\ <<req'[m][i].target, req'[m][i].newUid>> \in LiveAt(m)'
                    /\ Here(m)' \notin LiveAt(m)'
               /\ Storing(m, i)' =>
                    srv'.newUid # 0 /\ <<req'[m][i].target, srv'.newUid>> \in LiveAt(m)'
    <3>1. i \in Pending(m) /\ req'[m][i] = req[m][i]
      BY <1>1, <1>2
    <3>2. Storing(m, i)' => Storing(m, i) /\ srv'.newUid = srv.newUid
      BY <1>1 DEF SameStoring
    <3> QED
      BY <1>1, <3>1, <3>2 DEF ServerHalf, MovePlaced
  <2> QED
    BY <2>1, <2>2 DEF MovePlaced
<1>5. DeletesHere(m)'
  <2> SUFFICES ASSUME NEW i \in DOMAIN req'[m], DeleteSent(m, i)'
               PROVE  deleted'[m] /\ req'[m][i].folder = hfolder'[m] /\ req'[m][i].uid = uid'[m]
    BY DEF DeletesHere
  <2>1. CASE i = k
    BY <2>1 DEF DeleteSent
  <2>2. CASE i \in DOMAIN req[m]
    <3>1. DeleteSent(m, i)
      BY <2>2 DEF DeleteSent
    <3> QED
      BY <1>3, <2>2, <3>1 DEF ServerHalf, DeletesHere
  <2> QED
    BY <2>1, <2>2
<1>6. Unfailed(m)' => Unfailed(m)
  BY DEF Unfailed
<1>7. \A i : DeleteSent(m, i) => DeleteSent(m, i)'
  BY DEF DeleteSent
<1>8. deleted'[m] => deleted[m] \/ DeleteSent(m, k)'
  BY DEF DeleteSent
<1>9. NoDuplicate(m)'
  <2> SUFFICES ASSUME Unfailed(m)'
               PROVE  /\ \A p \in LiveAt(m)' :
                          \/ p = Here(m)'
                          \/ \E i \in Pending(m)' :
                               \/ req'[m][i].state = "ok" /\ p = <<req'[m][i].target, req'[m][i].newUid>>
                               \/ Storing(m, i)' /\ p = <<req'[m][i].target, srv'.newUid>>
                      /\ deleted'[m] => LiveAt(m)' = {} \/ \E i \in DOMAIN req'[m] : DeleteSent(m, i)'
    BY DEF NoDuplicate
  <2>1. ASSUME NEW p \in LiveAt(m)', p # Here(m)'
        PROVE  \E i \in Pending(m)' :
                  \/ req'[m][i].state = "ok" /\ p = <<req'[m][i].target, req'[m][i].newUid>>
                  \/ Storing(m, i)' /\ p = <<req'[m][i].target, srv'.newUid>>
    <3>1. PICK i \in Pending(m) :
                  \/ req[m][i].state = "ok" /\ p = <<req[m][i].target, req[m][i].newUid>>
                  \/ Storing(m, i) /\ p = <<req[m][i].target, srv.newUid>>
      BY <1>1, <1>6, <2>1 DEF ServerHalf, NoDuplicate
    <3>2. i \in Pending(m)' /\ req'[m][i] = req[m][i]
      BY <1>2
    <3> QED
      BY <1>1, <3>1, <3>2 DEF SameStoring
  <2>2. deleted'[m] => LiveAt(m)' = {} \/ \E i \in DOMAIN req'[m] : DeleteSent(m, i)'
    BY <1>1, <1>6, <1>7, <1>8 DEF ServerHalf, NoDuplicate
  <2> QED
    BY <2>1, <2>2
<1> QED
  BY <1>4, <1>5, <1>9 DEF ServerHalf

\* An answer arrives.
LEMMA ReplyServerHalf ==
    ASSUME IInv, NEW m \in Mails, NEW i \in DOMAIN req[m], Reply(m, i),
           ClientHalf(m), ServerHalf(m)
    PROVE  ServerHalf(m)'
<1>1. Forget(m, i) /\ UNCHANGED <<deleted, server>>
  BY DEF Reply, MoveReplyOk, MoveReplyFail, FlagsReply, client
<1>2. Pending(m)' = Pending(m) \ {i}
  BY <1>1, PendingForgotten DEF IInv
<1>3. LiveAt(m)' = LiveAt(m) /\ SameStoring(m)
  BY <1>1, ClientStoring
<1>4. req[m][i] \in Requests
  BY RequestType DEF IInv
<1>5. /\ DOMAIN req'[m] = DOMAIN req[m]
      /\ \A j \in DOMAIN req[m] :
           req'[m][j] = IF j = i THEN [req[m][i] EXCEPT !.waiting = FALSE] ELSE req[m][j]
  BY <1>1, ForgetEffect DEF IInv
<1>6. \A j \in DOMAIN req[m] :
         /\ req'[m][j].kind = req[m][j].kind /\ req'[m][j].folder = req[m][j].folder
         /\ req'[m][j].uid = req[m][j].uid /\ req'[m][j].target = req[m][j].target
         /\ req'[m][j].state = req[m][j].state /\ req'[m][j].newUid = req[m][j].newUid
  BY <1>4, <1>5 DEF Requests
<1>7. \A j : DeleteSent(m, j)' <=> DeleteSent(m, j)
  BY <1>5, <1>6 DEF DeleteSent
<1>8. Unfailed(m)' <=> Unfailed(m)
  BY <1>5, <1>6 DEF Unfailed
<1>9. CASE req[m][i].kind = "move"
  <2>1. i \in Pending(m) /\ req[m][i].state \in {"ok", "fail"}
    BY <1>9, <1>4 DEF Reply, MoveReplyOk, MoveReplyFail, FlagsReply, Answered, Pending
  <2>2. Pending(m)' = {} /\ Pending(m) = {i} /\ ~deleted[m] /\ ~deleted'[m]
    BY <1>1, <1>2, <2>1 DEF ClientHalf, MoveAsked
  <2>3. DeletesHere(m)'
    BY <1>5, <1>7, <2>2 DEF ServerHalf, DeletesHere
  <2>4. CASE req[m][i].state = "ok"
    <3>1. Here(m)' = <<req[m][i].target, req[m][i].newUid>>
      BY <1>9, <2>4 DEF Reply, MoveReplyOk, MoveReplyFail, FlagsReply, Here, IInv, TypeOK
    <3>2. Here(m)' \in LiveAt(m) /\ Here(m) \notin LiveAt(m)
      BY <2>1, <2>4, <3>1 DEF ServerHalf, MovePlaced
    <3>3. ~Storing(m, i)
      BY <2>4, StoringSent DEF IInv
    <3>4. MovePlaced(m)'
      BY <1>3, <2>2, <3>2 DEF MovePlaced
    <3>5. NoDuplicate(m)'
      BY <1>3, <1>8, <2>2, <3>1, <3>2, <3>3 DEF ServerHalf, NoDuplicate
    <3> QED
      BY <2>3, <3>4, <3>5 DEF ServerHalf
  <2>5. CASE req[m][i].state = "fail"
    <3>1. Here(m)' = Here(m) /\ Here(m) \in LiveAt(m)
      BY <1>9, <2>1, <2>5
         DEF Reply, MoveReplyOk, MoveReplyFail, FlagsReply, Here, ServerHalf, MovePlaced
    <3>2. MovePlaced(m)'
      BY <1>3, <2>2, <3>1 DEF MovePlaced
    <3>3. ~Unfailed(m)'
      BY <1>8, <2>5 DEF Unfailed
    <3> QED
      BY <2>3, <3>2, <3>3 DEF ServerHalf, NoDuplicate
  <2> QED
    BY <2>1, <2>4, <2>5
<1>10. CASE req[m][i].kind # "move"
  <2>1. Pending(m)' = Pending(m) /\ UNCHANGED <<hfolder, uid>>
    BY <1>2, <1>10 DEF Pending, Reply, MoveReplyOk, MoveReplyFail, FlagsReply, client
  <2>2. Here(m)' = Here(m)
    BY <2>1 DEF Here
  <2>3. \A j \in Pending(m) : j \in DOMAIN req[m]
    BY DEF Pending
  <2>4. MovePlaced(m)'
    BY <1>1, <1>3, <1>6, <2>1, <2>2, <2>3 DEF ServerHalf, MovePlaced, SameStoring
  <2>5. DeletesHere(m)'
    BY <1>1, <1>5, <1>6, <1>7, <2>1 DEF ServerHalf, DeletesHere
  <2>6. NoDuplicate(m)'
    <3>1. ASSUME Unfailed(m), NEW p \in LiveAt(m), p # Here(m)
          PROVE  \E j \in Pending(m) :
                    \/ req'[m][j].state = "ok" /\ p = <<req'[m][j].target, req'[m][j].newUid>>
                    \/ Storing(m, j)' /\ p = <<req'[m][j].target, srv'.newUid>>
      <4>1. PICK j \in Pending(m) :
                    \/ req[m][j].state = "ok" /\ p = <<req[m][j].target, req[m][j].newUid>>
                    \/ Storing(m, j) /\ p = <<req[m][j].target, srv.newUid>>
        BY <3>1 DEF ServerHalf, NoDuplicate
      <4> QED
        BY <1>3, <1>6, <2>3, <4>1 DEF SameStoring
    <3>2. Unfailed(m) /\ deleted[m] => LiveAt(m) = {} \/ \E j \in DOMAIN req'[m] : DeleteSent(m, j)'
      BY <1>5, <1>7 DEF ServerHalf, NoDuplicate
    <3> QED
      BY <1>1, <1>3, <1>8, <2>1, <2>2, <3>1, <3>2 DEF NoDuplicate
  <2> QED
    BY <2>4, <2>5, <2>6 DEF ServerHalf
<1> QED
  BY <1>9, <1>10

-----------------------------------------------------------------------------
(* The server's half: steps of the server *)

\* A request about m fails: nothing has happened to the mail, or nothing is
\* known to have.
LEMMA FailedHalf ==
    ASSUME IInv, NEW m \in Mails, NEW i \in DOMAIN req[m], Answer(m, i, "fail", 0),
           req[m][i].state = "sent", UNCHANGED <<client, copies>>,
           \A j : Storing(m, j)' => Storing(m, j) /\ srv'.newUid = srv.newUid,
           ServerHalf(m)
    PROVE  ServerHalf(m)'
<1>1. /\ DOMAIN req'[m] = DOMAIN req[m] /\ Pending(m)' = Pending(m)
      /\ \A j \in DOMAIN req[m] :
           /\ j # i => req'[m][j] = req[m][j]
           /\ req'[m][j].kind = req[m][j].kind /\ req'[m][j].folder = req[m][j].folder
           /\ req'[m][j].uid = req[m][j].uid /\ req'[m][j].target = req[m][j].target
      /\ req'[m][i].state = "fail"
  BY PendingAnswered DEF IInv
<1>2. Here(m)' = Here(m) /\ LiveAt(m)' = LiveAt(m)
  BY LiveKept DEF Here, client
<1>3. MovePlaced(m)'
  <2>1. Pending(m)' = {} => deleted'[m] \/ Here(m)' \in LiveAt(m)'
    BY <1>1, <1>2 DEF ServerHalf, MovePlaced, client
  <2>2. ASSUME NEW j \in Pending(m)'
        PROVE  /\ req'[m][j].state # "ok" => Here(m)' \in LiveAt(m)'
               /\ req'[m][j].state = "ok" =>
                    /\ <<req'[m][j].target, req'[m][j].newUid>> \in LiveAt(m)'
                    /\ Here(m)' \notin LiveAt(m)'
               /\ Storing(m, j)' =>
                    srv'.newUid # 0 /\ <<req'[m][j].target, srv'.newUid>> \in LiveAt(m)'
    <3>1. j \in Pending(m) /\ j \in DOMAIN req[m]
      BY <1>1, <2>2 DEF Pending
    <3>2. /\ req[m][j].state # "ok" => Here(m) \in LiveAt(m)
          /\ req[m][j].state = "ok" => /\ <<req[m][j].target, req[m][j].newUid>> \in LiveAt(m)
                                     /\ Here(m) \notin LiveAt(m)
          /\ Storing(m, j) => srv.newUid # 0 /\ <<req[m][j].target, srv.newUid>> \in LiveAt(m)
      BY <3>1 DEF ServerHalf, MovePlaced
    <3>3. CASE j = i
      BY <1>1, <1>2, <3>1, <3>2, <3>3
    <3>4. CASE j # i
      BY <1>1, <1>2, <3>1, <3>2, <3>4
    <3> QED
      BY <3>3, <3>4
  <2> QED
    BY <2>1, <2>2 DEF MovePlaced
<1>4. DeletesHere(m)'
  <2>1. \A j : DeleteSent(m, j)' => DeleteSent(m, j)
    BY <1>1 DEF DeleteSent
  <2> QED
    BY <1>1, <2>1 DEF ServerHalf, DeletesHere, client
<1>5. ~Unfailed(m)'
  BY <1>1 DEF Unfailed
<1> QED
  BY <1>3, <1>4, <1>5 DEF ServerHalf, NoDuplicate

ServerHalves == \A m \in Mails : ServerHalf(m)
UidsPositive == \A f \in ServerFolders : uidNext[f] > 0

\* An answer changes the log of one mail only.
LEMMA OthersServerHalf ==
    ASSUME NEW m \in Mails, UNCHANGED client, \A n \in Mails \ {m} : req'[n] = req[n],
           \A n \in Mails \ {m} : LiveAt(n)' = LiveAt(n) /\ SameStoring(n),
           ServerHalves, ServerHalf(m)'
    PROVE  ServerHalves'
<1> SUFFICES ASSUME NEW n \in Mails, n # m PROVE ServerHalf(n)'
  BY DEF ServerHalves
<1>1. ServerHalf(n)
  BY DEF ServerHalves
<1>2. UNCHANGED <<hfolder[n], uid[n], deleted[n], req[n]>> /\ LiveAt(n)' = LiveAt(n) /\ SameStoring(n)
  BY DEF client
<1> QED
  BY <1>1, <1>2, SameServerHalf

LEMMA IdleStoring ==
    /\ srv = Idle => \A n, i : ~Storing(n, i)
    /\ srv' = Idle => \A n, i : ~Storing(n, i)'
BY DEF Idle, Storing

\* A handler that returns with an error before the flag is set.
LEMMA ReturnFailHalf ==
    ASSUME IInv, ServerHalves, srv.pc # "idle", Return("fail", 0), UNCHANGED <<client, copies>>
    PROVE  ServerHalves'
<1>1. /\ srv.mail \in Mails /\ srv.idx \in DOMAIN req[srv.mail] /\ Current.state = "sent"
  BY CurrentType DEF IInv
<1> DEFINE m == srv.mail
<1>2. Answer(m, srv.idx, "fail", 0) /\ srv' = Idle
  BY DEF Return
<1>3. \A n, i : ~Storing(n, i)'
  BY <1>2, IdleStoring
<1>4. \A n \in Mails \ {m} : SameStoring(n) /\ LiveAt(n)' = LiveAt(n)
  BY <1>3, LiveKept DEF SameStoring, Storing
<1>5. PICK k \in Mails : k = srv.mail
  BY <1>1
<1>6. ServerHalf(k)'
  BY <1>1, <1>2, <1>3, <1>5, FailedHalf DEF ServerHalves, Current
<1>7. \A n \in Mails \ {k} : req'[n] = req[n]
  BY <1>1, <1>2, <1>5, PendingAnswered DEF IInv
<1> QED
  BY <1>4, <1>5, <1>6, <1>7, OthersServerHalf

LEMMA ArrivalServerHalf ==
    ASSUME IInv, ServerHalves, NEW m \in Mails, NEW i \in DOMAIN req[m],
           Reject(m, i) \/ Lock(m, i)
    PROVE  ServerHalves'
<1>1. CASE Reject(m, i)
  <2>1. /\ Answer(m, i, "fail", 0) /\ req[m][i].state = "sent" /\ UNCHANGED <<client, server>>
    BY <1>1 DEF Reject, Arrived
  <2>2. \A n \in Mails : SameStoring(n) /\ LiveAt(n)' = LiveAt(n)
    BY <2>1, ClientStoring
  <2>3. ServerHalf(m)'
    BY <2>1, <2>2, FailedHalf DEF ServerHalves, SameStoring, server
  <2>4. \A n \in Mails \ {m} : req'[n] = req[n]
    BY <2>1, PendingAnswered DEF IInv
  <2> QED
    BY <2>1, <2>2, <2>3, <2>4, OthersServerHalf
<1>2. CASE Lock(m, i)
  <2>1. /\ srv = Idle /\ srv'.pc = "select" /\ UNCHANGED <<client, req, copies>>
    BY <1>2 DEF Lock
  <2>2. \A n \in Mails : SameStoring(n) /\ LiveAt(n)' = LiveAt(n)
    BY <2>1, IdleStoring, LiveKept DEF SameStoring, Storing
  <2> QED
    BY <2>1, <2>2, SameServerHalf DEF ServerHalves, client
<1> QED
  BY <1>1, <1>2

LEMMA ExpungeServerHalf ==
    ASSUME ServerHalves, NEW f \in ServerFolders, Expunge(f)
    PROVE  ServerHalves'
<1>1. UNCHANGED <<client, req, srv>>
  BY DEF Expunge
<1>2. \A n \in Mails : SameStoring(n) /\ LiveAt(n)' = LiveAt(n)
  BY <1>1, LiveExpunged DEF SameStoring, Storing
<1> QED
  BY <1>1, <1>2, SameServerHalf DEF ServerHalves, client

\* A move goes on to the copy, a flag update to the flag.
LEMMA SelectServerHalf ==
    ASSUME IInv, ServerHalves, SelectFolder
    PROVE  ServerHalves'
<1>1. srv.pc = "select" /\ UNCHANGED <<client, copies, uidNext>>
  BY DEF SelectFolder
<1>2. CASE Return("fail", 0)
  BY <1>1, <1>2, ReturnFailHalf
<1>3. CASE ~Return("fail", 0)
  <2>1. /\ srv' = [srv EXCEPT !.pc = IF Current.kind = "move" THEN "copy" ELSE "store"]
        /\ UNCHANGED req
    BY <1>3 DEF SelectFolder
  <2>2. srv \in Running
    BY <1>1, CurrentType DEF IInv
  <2>3. /\ srv'.mail = srv.mail /\ srv'.idx = srv.idx
        /\ srv'.pc = IF Current.kind = "move" THEN "copy" ELSE "store"
    BY <2>1, <2>2 DEF Running
  <2>4. \A n, i : ~Storing(n, i)
    BY <1>1 DEF Storing
  <2>5. \A n \in Mails : \A i \in Pending(n) : ~Storing(n, i)'
    BY <2>3 DEF Storing, Pending, Current
  <2> SUFFICES ASSUME NEW n \in Mails PROVE ServerHalf(n)'
    BY DEF ServerHalves
  <2>6. /\ Pending(n)' = Pending(n) /\ Here(n)' = Here(n) /\ LiveAt(n)' = LiveAt(n)
        /\ Unfailed(n)' <=> Unfailed(n)
    BY <1>1, <2>1, LiveKept DEF Pending, Here, client, Unfailed
  <2>7. \A i : DeleteSent(n, i)' <=> DeleteSent(n, i)
    BY <2>1 DEF DeleteSent
  <2>8. ServerHalf(n)
    BY DEF ServerHalves
  <2>9. MovePlaced(n)'
    BY <1>1, <2>1, <2>5, <2>6, <2>8 DEF ServerHalf, MovePlaced, client
  <2>10. DeletesHere(n)'
    BY <1>1, <2>1, <2>7, <2>8 DEF ServerHalf, DeletesHere, client
  <2>11. NoDuplicate(n)'
    BY <1>1, <2>1, <2>4, <2>6, <2>7, <2>8 DEF ServerHalf, NoDuplicate, client
  <2> QED
    BY <2>9, <2>10, <2>11 DEF ServerHalf
<1> QED
  BY <1>2, <1>3

\* The request a handler has served up to the copy is the pending move.
LEMMA ServedMove ==
    ASSUME IInv, ClientHalves, srv.pc # "idle", Current.kind = "move",
           NEW m \in Mails, m = srv.mail
    PROVE  /\ srv.idx \in Pending(m) /\ Pending(m) = {srv.idx}
           /\ Current = req[m][srv.idx] /\ ~deleted[m]
           /\ <<Current.folder, Current.uid>> = Here(m)
           /\ Current.target # hfolder[m]
<1>1. srv.idx \in DOMAIN req[m] /\ Current.state = "sent" /\ Current = req[m][srv.idx]
  BY CurrentType DEF IInv, Current
<1>2. ClientHalf(m)
  BY DEF ClientHalves
<1>3. srv.idx \in Pending(m)
  BY <1>1, <1>2 DEF ClientHalf, SentWaits, Pending
<1> QED
  BY <1>1, <1>2, <1>3 DEF ClientHalf, MoveAsked, Here

LEMMA CopyServerHalf ==
    ASSUME IInv, UidPlus, UidsPositive, ClientHalves, ServerHalves, CopyMail
    PROVE  ServerHalves'
<1>1. srv.pc = "copy" /\ UNCHANGED <<client, req>>
  BY DEF CopyMail
<1>2. /\ srv.mail \in Mails /\ srv.idx \in DOMAIN req[srv.mail]
      /\ Current \in Requests /\ Current.state = "sent" /\ srv \in Running
  BY <1>1, CurrentType DEF IInv
<1>3. PICK m \in Mails : m = srv.mail
  BY <1>2
<1>4. Current.kind = "move"
  BY <1>1, <1>2, IdleNotRunning DEF IInv, HandlerOk
<1>5. /\ Pending(m) = {srv.idx} /\ Current = req[m][srv.idx] /\ ~deleted[m]
      /\ <<Current.folder, Current.uid>> = Here(m)
  BY <1>1, <1>3, <1>4, ServedMove
<1>6. ServerHalf(m)
  BY DEF ServerHalves
<1>7. Here(m) \in LiveAt(m)
  BY <1>2, <1>5, <1>6 DEF ServerHalf, MovePlaced
<1> DEFINE t == Current.target
           new == uidNext[t]
<1>8. /\ LiveAt(m)' = LiveAt(m) \union {<<t, new>>}
      /\ srv' = [pc |-> "store", mail |-> srv.mail, idx |-> srv.idx,
                 newUid |-> IF UidPlus THEN new ELSE 0]
      /\ \A n \in Mails \ {m} : LiveAt(n)' = LiveAt(n)
  BY <1>3, <1>5, <1>7, LiveCopied
<1>9. srv'.pc = "store" /\ srv'.mail = m /\ srv'.idx = srv.idx /\ srv'.newUid = new
  BY <1>3, <1>8
<1>10. new # 0
  BY <1>2 DEF UidsPositive, Requests
<1> HIDE DEF t, new
<1>11. /\ Pending(m)' = Pending(m) /\ Here(m)' = Here(m) /\ (Unfailed(m)' <=> Unfailed(m))
  BY <1>1 DEF Pending, Here, client, Unfailed
<1>12. Storing(m, srv.idx)' /\ \A i : ~Storing(m, i)
  BY <1>1, <1>9 DEF Storing
<1>13. MovePlaced(m)'
  <2>1. req'[m][srv.idx].state = "sent" /\ req'[m][srv.idx].target = t
    BY <1>1, <1>2, <1>5 DEF t
  <2> QED
    BY <1>5, <1>7, <1>8, <1>9, <1>10, <1>11, <2>1 DEF MovePlaced
<1>14. DeletesHere(m)'
  BY <1>1, <1>6 DEF ServerHalf, DeletesHere, DeleteSent, client
<1>15. NoDuplicate(m)'
  <2>1. req[m][srv.idx].state = "sent" /\ req'[m] = req[m] /\ req[m][srv.idx].target = t
    BY <1>1, <1>2, <1>5 DEF t
  <2>2. ASSUME Unfailed(m), NEW p \in LiveAt(m) PROVE p = Here(m)
    BY <1>5, <1>6, <1>12, <2>1, <2>2 DEF ServerHalf, NoDuplicate
  <2>3. ~deleted'[m]
    BY <1>1, <1>5 DEF client
  <2> QED
    BY <1>5, <1>8, <1>9, <1>11, <1>12, <2>1, <2>2, <2>3 DEF NoDuplicate
<1>16. \A n \in Mails \ {m} : SameStoring(n)
  BY <1>1, <1>9 DEF SameStoring, Storing
<1>17. ServerHalf(m)'
  BY <1>13, <1>14, <1>15 DEF ServerHalf
<1> QED
  BY <1>1, <1>8, <1>16, <1>17, OthersServerHalf

\* Setting the flag: the answer to a move is the UID of the copy.
LEMMA StoreEffect ==
    ASSUME IInv, StoreFlags
    PROVE  /\ UNCHANGED <<client, uidNext>> /\ srv' = Idle
           /\ srv.mail \in Mails /\ srv.idx \in DOMAIN req[srv.mail]
           /\ Current \in Requests /\ Current.state = "sent"
           /\ \E state \in {"ok", "fail"}, u \in Nat :
                /\ Answer(srv.mail, srv.idx, state, u)
                /\ Current.kind # "move" \/ srv.newUid # 0 => state = "ok" /\ u = srv.newUid
<1>1. srv.pc # "idle" /\ UNCHANGED <<client, uidNext>>
  BY DEF StoreFlags
<1>2. /\ srv.mail \in Mails /\ srv.idx \in DOMAIN req[srv.mail] /\ srv.newUid \in Nat
      /\ Current \in Requests /\ Current.state = "sent"
  BY <1>1, CurrentType DEF IInv
<1>3. CASE Current.kind = "move" /\ srv.newUid = 0
  BY <1>1, <1>2, <1>3 DEF StoreFlags, Return
<1>4. CASE ~(Current.kind = "move" /\ srv.newUid = 0)
  BY <1>1, <1>2, <1>4 DEF StoreFlags, Return
<1> QED
  BY <1>3, <1>4

LEMMA StoreServerHalf ==
    ASSUME IInv, UidPlus, ClientHalves, ServerHalves, StoreFlags
    PROVE  ServerHalves'
<1>1. /\ UNCHANGED client /\ srv' = Idle /\ srv.pc = "store"
      /\ Current \in Requests /\ Current.state = "sent"
  BY StoreEffect DEF StoreFlags
<1>2. PICK m \in Mails : m = srv.mail
  BY StoreEffect
<1>3. PICK i \in DOMAIN req[m] : i = srv.idx
  BY <1>2, StoreEffect
<1>4. PICK state \in {"ok", "fail"}, u \in Nat :
         /\ Answer(m, i, state, u)
         /\ Current.kind # "move" \/ srv.newUid # 0 => state = "ok" /\ u = srv.newUid
  BY <1>2, <1>3, StoreEffect
<1>5. Current = req[m][i] /\ req[m][i].state = "sent" /\ req[m][i] \in Requests
  BY <1>1, <1>2, <1>3 DEF Current
<1>6. /\ \A n \in Mails \ {m} : req'[n] = req[n]
      /\ DOMAIN req'[m] = DOMAIN req[m] /\ Pending(m)' = Pending(m)
      /\ \A j \in DOMAIN req[m] :
           /\ j # i => req'[m][j] = req[m][j]
           /\ req'[m][j].kind = req[m][j].kind /\ req'[m][j].folder = req[m][j].folder
           /\ req'[m][j].uid = req[m][j].uid /\ req'[m][j].target = req[m][j].target
      /\ req'[m][i].state = state /\ req'[m][i].newUid = u
  BY <1>4, PendingAnswered DEF IInv
<1>7. \A n \in Mails :
         LiveAt(n)' = IF n = m /\ req[m][i].kind # "seen"
                      THEN LiveAt(n) \ {<<req[m][i].folder, req[m][i].uid>>}
                      ELSE LiveAt(n)
  BY <1>2, <1>5, LiveStored
<1>8. /\ \A n, j : ~Storing(n, j)'
      /\ \A j : Storing(m, j) <=> j = i
      /\ \A n \in Mails \ {m} : \A j : ~Storing(n, j)
  BY <1>1, <1>2, <1>3, IdleStoring DEF Storing
<1>9. \A n \in Mails \ {m} : LiveAt(n)' = LiveAt(n) /\ SameStoring(n)
  BY <1>7, <1>8 DEF SameStoring
<1>10. ServerHalf(m) /\ ClientHalf(m) /\ RequestOk(m, req[m][i])
  BY DEF ServerHalves, ClientHalves, IInv, RequestsOk
<1>11. Here(m)' = Here(m) /\ deleted'[m] = deleted[m]
  BY <1>1 DEF Here, client
<1>12. state = "ok" => (Unfailed(m)' => Unfailed(m))
  BY <1>5, <1>6 DEF Unfailed
<1>13. \A j : DeleteSent(m, j)' => DeleteSent(m, j)
  BY <1>5, <1>6 DEF DeleteSent
<1>14. DeletesHere(m)'
  BY <1>1, <1>6, <1>10, <1>13 DEF ServerHalf, DeletesHere, client
<1>15. \A j \in Pending(m) : j \in DOMAIN req[m]
  BY DEF Pending
<1>16. CASE req[m][i].kind = "seen"
  <2>1. i \notin Pending(m) /\ state = "ok" /\ LiveAt(m)' = LiveAt(m)
    BY <1>4, <1>5, <1>7, <1>16 DEF Pending
  <2>2. \A j \in Pending(m) : req'[m][j] = req[m][j] /\ ~Storing(m, j)
    BY <1>6, <1>8, <1>15, <2>1
  <2>3. \A j : DeleteSent(m, j) => DeleteSent(m, j)'
    BY <1>6, <1>16 DEF DeleteSent
  <2>4. MovePlaced(m)'
    <3>1. ASSUME Pending(m)' = {} PROVE deleted'[m] \/ Here(m)' \in LiveAt(m)'
      BY <1>6, <1>10, <1>11, <2>1, <3>1 DEF ServerHalf, MovePlaced
    <3>2. ASSUME NEW j \in Pending(m)'
          PROVE  /\ req'[m][j].state # "ok" => Here(m)' \in LiveAt(m)'
                 /\ req'[m][j].state = "ok" => /\ <<req'[m][j].target, req'[m][j].newUid>> \in LiveAt(m)'
                                              /\ Here(m)' \notin LiveAt(m)'
                 /\ ~Storing(m, j)'
      <4>1. j \in Pending(m) /\ req'[m][j] = req[m][j]
        BY <1>6, <2>2
      <4>2. ~Storing(m, j)'
        BY <1>8
      <4>3. /\ req[m][j].state # "ok" => Here(m) \in LiveAt(m)
            /\ req[m][j].state = "ok" => /\ <<req[m][j].target, req[m][j].newUid>> \in LiveAt(m)
                                        /\ Here(m) \notin LiveAt(m)
        BY <1>10, <4>1 DEF ServerHalf, MovePlaced
      <4>4. Here(m)' = Here(m) /\ LiveAt(m)' = LiveAt(m)
        BY <1>11, <2>1
      <4> QED
        BY <4>1, <4>2, <4>3, <4>4
    <3> QED
      BY <3>1, <3>2 DEF MovePlaced
  <2>5. NoDuplicate(m)'
    BY <1>6, <1>8, <1>10, <1>11, <1>12, <2>1, <2>2, <2>3 DEF ServerHalf, NoDuplicate
  <2>6. ServerHalf(m)'
    BY <1>14, <2>4, <2>5 DEF ServerHalf
  <2> QED
    BY <1>1, <1>6, <1>9, <2>6, OthersServerHalf
<1>17. CASE req[m][i].kind = "deleted"
  <2>1. DeleteSent(m, i) /\ state = "ok"
    BY <1>4, <1>5, <1>17 DEF DeleteSent
  <2>2. deleted[m] /\ <<req[m][i].folder, req[m][i].uid>> = Here(m)
    BY <1>10, <2>1 DEF ServerHalf, DeletesHere, Here
  <2>3. Pending(m) = {}
    BY <1>10, <2>2 DEF ClientHalf, MoveAsked
  <2>4. MovePlaced(m)'
    BY <1>6, <1>11, <2>2, <2>3 DEF MovePlaced
  <2>5. LiveAt(m)' = LiveAt(m) \ {Here(m)}
    BY <1>7, <1>17, <2>2
  <2>6. NoDuplicate(m)'
    BY <1>6, <1>10, <1>11, <1>12, <2>1, <2>3, <2>5 DEF ServerHalf, NoDuplicate
  <2>7. ServerHalf(m)'
    BY <1>14, <2>4, <2>6 DEF ServerHalf
  <2> QED
    BY <1>1, <1>6, <1>9, <2>7, OthersServerHalf
<1>18. CASE req[m][i].kind = "move"
  <2> DEFINE t == req[m][i].target
  <2>1. /\ Pending(m) = {i} /\ ~deleted[m] /\ t # hfolder[m]
        /\ <<req[m][i].folder, req[m][i].uid>> = Here(m)
    BY <1>1, <1>2, <1>3, <1>5, <1>18, ServedMove
  <2>2. srv.newUid # 0 /\ <<t, srv.newUid>> \in LiveAt(m)
    BY <1>8, <1>10, <2>1 DEF ServerHalf, MovePlaced
  <2>3. state = "ok" /\ u = srv.newUid
    BY <1>4, <2>2
  <2>4. <<t, srv.newUid>> # Here(m)
    BY <2>1 DEF Here
  <2>5. LiveAt(m)' = LiveAt(m) \ {Here(m)}
    BY <1>7, <1>18, <2>1
  <2>6. req'[m][i].state = "ok" /\ <<req'[m][i].target, req'[m][i].newUid>> = <<t, srv.newUid>>
    BY <1>6, <2>3
  <2> HIDE DEF t
  <2>7. MovePlaced(m)'
    BY <1>6, <1>8, <1>11, <2>1, <2>2, <2>4, <2>5, <2>6 DEF MovePlaced
  <2>8. NoDuplicate(m)'
    <3>1. ASSUME Unfailed(m), NEW p \in LiveAt(m), p # Here(m) PROVE p = <<t, srv.newUid>>
      <4>1. PICK j \in Pending(m) :
              \/ req[m][j].state = "ok" /\ p = <<req[m][j].target, req[m][j].newUid>>
              \/ Storing(m, j) /\ p = <<req[m][j].target, srv.newUid>>
        BY <1>10, <3>1 DEF ServerHalf, NoDuplicate
      <4> QED
        BY <1>5, <2>1, <4>1 DEF t
    <3> QED
      BY <1>6, <1>11, <1>12, <2>1, <2>3, <2>5, <2>6, <3>1 DEF NoDuplicate
  <2>9. ServerHalf(m)'
    BY <1>14, <2>7, <2>8 DEF ServerHalf
  <2> QED
    BY <1>1, <1>6, <1>9, <2>9, OthersServerHalf
<1> QED
  BY <1>5, <1>16, <1>17, <1>18 DEF Requests

-----------------------------------------------------------------------------
(* Both halves hold in every reachable state *)

\* A step of the client acts on one mail.
LEMMA OthersClientHalf ==
    ASSUME NEW m \in Mails, UNCHANGED server,
           \A n \in Mails \ {m} : UNCHANGED <<hfolder[n], uid[n], deleted[n], req[n]>>,
           ServerHalves, ServerHalf(m)'
    PROVE  ServerHalves'
<1> SUFFICES ASSUME NEW n \in Mails, n # m PROVE ServerHalf(n)'
  BY DEF ServerHalves
<1>1. ServerHalf(n) /\ UNCHANGED <<hfolder[n], uid[n], deleted[n], req[n]>>
  BY DEF ServerHalves
<1>2. LiveAt(n)' = LiveAt(n) /\ SameStoring(n)
  BY ClientStoring
<1> QED
  BY <1>1, <1>2, SameServerHalf

\* moveMail() of an item without a pending move.
LEMMA MoveMailServerHalf ==
    ASSUME IInv, NEW m \in Mails, NEW into \in Folders, MoveMail(m, into), UNCHANGED server,
           Pending(m) = {}, ~deleted[m], ClientHalf(m), ServerHalf(m)
    PROVE  ServerHalf(m)'
<1>1. /\ UNCHANGED <<hfolder, uid, deleted>>
      /\ \/ UNCHANGED req
         \/ \E k : /\ Pending(m)' = {k} /\ k \notin DOMAIN req[m]
                   /\ DOMAIN req'[m] = DOMAIN req[m] \union {k}
                   /\ req'[m][k] = NewRequest(m, "move", AssocServerFolder(into))
                   /\ \A j \in DOMAIN req[m] : req'[m][j] = req[m][j]
  BY MoveMailHalf DEF IInv, MoveMail
<1>2. CASE UNCHANGED req
  BY <1>1, <1>2, ClientStoring, SameServerHalf
<1>3. CASE ~UNCHANGED req
  <2>1. PICK k : /\ Pending(m)' = {k} /\ k \notin DOMAIN req[m]
                 /\ DOMAIN req'[m] = DOMAIN req[m] \union {k}
                 /\ req'[m][k] = NewRequest(m, "move", AssocServerFolder(into))
                 /\ \A j \in DOMAIN req[m] : req'[m][j] = req[m][j]
    BY <1>1, <1>3
  <2>2. req'[m][k].kind = "move" /\ req'[m][k].state = "sent"
    BY <2>1 DEF NewRequest
  <2>3. MovePlaced(m) /\ DeletesHere(m) /\ NoDuplicate(m)
    BY DEF ServerHalf
  <2> QED
    BY <1>1, <2>1, <2>2, <2>3, MoveSentHalf
<1> QED
  BY <1>2, <1>3

LEMMA UserServerHalf ==
    ASSUME IInv, Attentive, ClientHalves, ServerHalves, NEW m \in Mails, UserStep(m)
    PROVE  ServerHalves'
<1>1. ClientHalf(m) /\ ServerHalf(m) /\ TypeOK /\ hfolder[m] \in ServerFolders
  BY DEF ClientHalves, ServerHalves, IInv, TypeOK
<1>2. /\ UNCHANGED server
      /\ \A n \in Mails \ {m} : UNCHANGED <<hfolder[n], uid[n], deleted[n], req[n]>>
  BY <1>1, UserHalf DEF Same, UserStep, Delete, Restore, DeleteForever, ContentShown
<1>3. CASE Delete(m) \/ Restore(m)
  <2>1. Pending(m) = {} /\ ~deleted[m]
    BY <1>3, AloneWhenActed DEF Delete, Restore
  <2>2. PICK into \in Folders : MoveMail(m, into)
    BY <1>1, <1>3 DEF Delete, Restore, TypeOK, Folders, ServerFolders
  <2>3. ServerHalf(m)'
    BY <1>1, <1>2, <2>1, <2>2, MoveMailServerHalf
  <2> QED
    BY <1>2, <2>3, OthersClientHalf
<1>4. ASSUME NEW kind \in {"seen", "deleted"}, Send(m, NewRequest(m, kind, hfolder[m])),
             UNCHANGED <<hfolder, uid>>,
             \/ kind = "seen" /\ UNCHANGED deleted[m]
             \/ kind = "deleted" /\ deleted'[m]
      PROVE  ServerHalves'
  <2> DEFINE r == NewRequest(m, kind, hfolder[m])
  <2>1. r \in Requests
    BY <1>1, NewRequestType
  <2>2. /\ r.kind = kind /\ r.kind # "move" /\ r.folder = hfolder[m] /\ r.uid = uid[m]
        /\ r.state = "sent"
    BY DEF NewRequest
  <2> HIDE DEF r
  <2>3. Pending(m)' = Pending(m)
    BY <1>1, <1>4, <2>1, <2>2, PendingFlagSent DEF r
  <2>4. PICK k : /\ k \notin DOMAIN req[m] /\ DOMAIN req'[m] = DOMAIN req[m] \union {k}
                 /\ req'[m][k] = r
                 /\ \A j \in DOMAIN req[m] : req'[m][j] = req[m][j]
    BY <1>1, <1>4, <2>1, OneSent DEF r
  <2>5. ServerHalf(m)'
    BY <1>1, <1>2, <1>4, <2>2, <2>3, <2>4, FlagSentServerHalf
  <2> QED
    BY <1>2, <2>5, OthersClientHalf
<1>5. CASE DeleteForever(m)
  BY <1>4, <1>5 DEF DeleteForever, IInv, TypeOK
<1>6. CASE ContentShown(m)
  BY <1>4, <1>6 DEF ContentShown
<1> QED
  BY <1>3, <1>5, <1>6 DEF UserStep

LEMMA EmptyTrashServerHalf ==
    ASSUME IInv, Attentive, ClientHalves, ServerHalves, EmptyTrash
    PROVE  ServerHalves'
<1> SUFFICES ASSUME NEW m \in Mails PROVE ServerHalf(m)'
  BY DEF ServerHalves
<1>1. ClientHalf(m) /\ ServerHalf(m) /\ TypeOK
  BY DEF ClientHalves, ServerHalves, IInv
<1>2. UNCHANGED <<hfolder, uid, server>> /\ Pending(m)' = Pending(m)
  BY <1>1, EmptyTrashHalf DEF EmptyTrash
<1>3. CASE m \notin FilteredMails(TRASH)
  <2>1. deleted'[m] = deleted[m] /\ req'[m] = req[m]
    BY <1>3 DEF EmptyTrash, IInv, TypeOK
  <2> QED
    BY <1>1, <1>2, <2>1, ClientStoring, SameServerHalf
<1>4. CASE m \in FilteredMails(TRASH)
  <2> DEFINE r == NewRequest(m, "deleted", hfolder[m])
  <2>1. r \in Requests /\ req[m] \in Seq(Requests)
    BY <1>1, NewRequestType DEF TypeOK
  <2>2. deleted'[m] /\ req'[m] = Append(req[m], r)
    BY <1>4 DEF EmptyTrash
  <2>3. r.kind = "deleted" /\ r.folder = hfolder[m] /\ r.uid = uid[m] /\ r.state = "sent"
    BY DEF NewRequest
  <2> HIDE DEF r
  <2> DEFINE k == Len(req[m]) + 1
  <2>4. /\ Len(req'[m]) = k /\ req'[m] \in Seq(Requests) /\ req'[m][k] = r
        /\ \A j \in 1 .. Len(req[m]) : req'[m][j] = req[m][j]
    BY <2>1, <2>2, AppendProperties
  <2>5. /\ DOMAIN req[m] = 1 .. Len(req[m]) /\ Len(req[m]) \in Nat
        /\ DOMAIN req'[m] = 1 .. Len(req'[m])
    BY <2>1, <2>4, LenProperties
  <2>6. k \notin DOMAIN req[m] /\ DOMAIN req'[m] = DOMAIN req[m] \union {k}
    BY <2>4, <2>5
  <2>7. \A j \in DOMAIN req[m] : req'[m][j] = req[m][j]
    BY <2>4, <2>5
  <2> QED
    BY <1>1, <1>2, <2>2, <2>3, <2>4, <2>6, <2>7, FlagSentServerHalf
<1> QED
  BY <1>3, <1>4

PatientInv == IInv /\ ClientHalves /\ ServerHalves /\ UidsPositive

LEMMA InitPatient == Init => PatientInv
<1> SUFFICES ASSUME Init PROVE ServerHalves /\ UidsPositive
  BY InitInv, InitHalves DEF PatientInv
<1>1. UidsPositive
  <2>1. Cardinality(Mails) \in Nat
    BY MailsAssumption, FS_CardinalityType
  <2> QED
    BY <2>1 DEF Init, UidsPositive
<1> SUFFICES ASSUME NEW m \in Mails PROVE ServerHalf(m)
  BY <1>1 DEF ServerHalves
<1>2. req[m] = <<>> /\ DOMAIN req[m] = {}
  BY DEF Init
<1>3. Pending(m) = {} /\ DeletesHere(m)
  BY <1>2 DEF Pending, DeletesHere
<1> DEFINE c == [folder |-> hfolder[m], uid |-> uid[m], mail |-> m,
                 seen |-> seen[m], deleted |-> deleted[m]]
<1>4. c \in copies /\ \A d \in copies : d.mail = m => d = c
  BY DEF Init
<1>5. c.folder = hfolder[m] /\ c.uid = uid[m] /\ c.mail = m /\ c.deleted = deleted[m]
  OBVIOUS
<1> HIDE DEF c
<1>6. LiveAt(m) = IF deleted[m] THEN {} ELSE {Here(m)}
  <2>1. Live(m) = IF deleted[m] THEN {} ELSE {c}
    BY <1>4, <1>5 DEF Live
  <2> QED
    BY <1>5, <2>1 DEF LiveAt, Here
<1>7. MovePlaced(m) /\ NoDuplicate(m)
  BY <1>3, <1>6 DEF MovePlaced, NoDuplicate
<1> QED
  BY <1>3, <1>7 DEF ServerHalf

LEMMA UidsStep == IInv /\ UidsPositive /\ [Next]_vars => UidsPositive'
<1> SUFFICES ASSUME IInv, UidsPositive, [Next]_vars PROVE UidsPositive'
  OBVIOUS
<1>1. CASE CopyMail
  <2>1. Current \in Requests
    BY <1>1, CurrentType DEF IInv, CopyMail
  <2> QED
    BY <1>1, <2>1 DEF CopyMail, UidsPositive, IInv, TypeOK, Requests
<1>2. CASE UNCHANGED uidNext
  BY <1>2 DEF UidsPositive
<1>3. \/ CopyMail
      \/ UNCHANGED uidNext
  BY DEF Next, HandlerStep, SelectFolder, CopyFails, StoreFlags, StoreFails, EmptyTrash, Expunge,
         UserStep, Delete, Restore, DeleteForever, ContentShown,
         Reply, MoveReplyOk, MoveReplyFail, FlagsReply, ReplyDropped, Reject, Lock, vars, server
<1> QED
  BY <1>1, <1>2, <1>3

LEMMA StepPatient == Favourable /\ PatientInv /\ [Next]_vars => PatientInv'
<1> SUFFICES ASSUME Favourable, PatientInv, [Next]_vars PROVE ServerHalves'
  BY StepInv, StepHalves, UidsStep DEF PatientInv, Favourable
<1>1. Attentive /\ UidPlus /\ IInv /\ ClientHalves /\ ServerHalves /\ UidsPositive
  BY DEF Favourable, PatientInv
<1>2. CASE EmptyTrash
  BY <1>1, <1>2, EmptyTrashServerHalf
<1>3. CASE HandlerStep
  <2>1. CASE CopyFails \/ StoreFails
    BY <1>1, <2>1, ReturnFailHalf DEF CopyFails, StoreFails
  <2> QED
    BY <1>1, <1>3, <2>1, SelectServerHalf, CopyServerHalf, StoreServerHalf DEF HandlerStep
<1>4. ASSUME NEW f \in ServerFolders, Expunge(f) PROVE ServerHalves'
  BY <1>1, <1>4, ExpungeServerHalf
<1>5. ASSUME NEW m \in Mails, UserStep(m) PROVE ServerHalves'
  BY <1>1, <1>5, UserServerHalf
<1>6. ASSUME NEW m \in Mails, NEW i \in DOMAIN req[m], Reply(m, i) PROVE ServerHalves'
  <2>1. ClientHalf(m) /\ ServerHalf(m) /\ TypeOK
    BY <1>1 DEF ClientHalves, ServerHalves, IInv
  <2>2. ServerHalf(m)'
    BY <1>1, <1>6, <2>1, ReplyServerHalf
  <2>3. UNCHANGED server /\ \A n \in Mails \ {m} : Same(n)
    BY <1>6, <2>1, ReplyHalf DEF Reply, MoveReplyOk, MoveReplyFail, FlagsReply
  <2> QED
    BY <1>1, <2>2, <2>3, OthersClientHalf DEF Same
<1>7. ASSUME NEW m \in Mails, NEW i \in DOMAIN req[m], Reject(m, i) \/ Lock(m, i)
      PROVE  ServerHalves'
  BY <1>1, <1>7, ArrivalServerHalf
<1>8. \A m \in Mails : \A i \in DOMAIN req[m] : ~ReplyDropped(m, i)
  BY <1>1 DEF Attentive, ReplyDropped
<1>9. CASE UNCHANGED vars
  <2>1. UNCHANGED <<client, req, server>>
    BY <1>9 DEF vars, client, server
  <2>2. \A n \in Mails : SameStoring(n) /\ LiveAt(n)' = LiveAt(n)
    BY <2>1, ClientStoring
  <2> QED
    BY <1>1, <2>1, <2>2, SameServerHalf DEF ServerHalves, client
<1> QED
  BY <1>2, <1>3, <1>4, <1>5, <1>6, <1>7, <1>8, <1>9 DEF Next

LEMMA PatientInvariance == ASSUME Favourable PROVE Spec => []PatientInv
BY InitPatient, StepPatient, PTL DEF Spec

-----------------------------------------------------------------------------
(* What holds at rest *)

LEMMA RestsAlone == ASSUME NEW m \in Mails, AtRest(m) PROVE Pending(m) = {}
BY DEF AtRest, Pending

\* When all answers about a mail have arrived, what the client would send next
\* names an undeleted message of it (moveMail_internal and the success callback
\* of mailitem.js moveMailOnServer), in the folder the mail is shown in.
THEOREM ClientAndServerAgree == ASSUME Favourable PROVE Spec => []SettledAgreement
<1>1. PatientInv => SettledAgreement
  <2> SUFFICES ASSUME PatientInv, NEW m \in Mails, AtRest(m), ~deleted[m]
               PROVE  /\ hfolder[m] = AssocServerFolder(folder[m])
                      /\ \E c \in Live(m) : c.folder = hfolder[m] /\ c.uid = uid[m]
    BY DEF SettledAgreement
  <2>1. ClientHalf(m) /\ ServerHalf(m) /\ Pending(m) = {}
    BY RestsAlone DEF PatientInv, ClientHalves, ServerHalves
  <2>2. hfolder[m] = AssocServerFolder(folder[m]) /\ Here(m) \in LiveAt(m)
    BY <2>1 DEF ClientHalf, MoveAsked, ServerHalf, MovePlaced
  <2>3. PICK c \in Live(m) : Here(m) = <<c.folder, c.uid>>
    BY <2>2 DEF LiveAt
  <2>4. c.folder = hfolder[m] /\ c.uid = uid[m]
    BY <2>3 DEF Here
  <2> QED
    BY <2>2, <2>4
<1> QED
  BY <1>1, PatientInvariance, PTL

\* When all requests about a mail were answered and none failed, one undeleted
\* message of it is left, or none if the user deleted it for good: the original
\* of every move is flagged (moveMail_internal), and updateFlags reaches the
\* message that is there.
THEOREM NoCopyIsLeft == ASSUME Favourable PROVE Spec => []OneLiveCopy
<1>1. PatientInv => OneLiveCopy
  <2> SUFFICES ASSUME PatientInv, NEW m \in Mails, AtRest(m),
                      \A i \in DOMAIN req[m] : req[m][i].state = "ok"
               PROVE  Cardinality(Live(m)) = IF deleted[m] THEN 0 ELSE 1
    BY DEF OneLiveCopy
  <2>1. ServerHalf(m) /\ Pending(m) = {}
    BY RestsAlone DEF PatientInv, ServerHalves
  <2>2. Unfailed(m) /\ \A i : ~DeleteSent(m, i)
    BY DEF Unfailed, DeleteSent
  <2>3. \A c \in Live(m) : <<c.folder, c.uid>> = Here(m)
    BY <2>1, <2>2 DEF ServerHalf, NoDuplicate, LiveAt
  <2>4. CASE deleted[m]
    <3>1. Live(m) = {}
      BY <2>1, <2>2, <2>4 DEF ServerHalf, NoDuplicate, LiveAt
    <3> QED
      BY <2>4, <3>1, FS_EmptySet
  <2>5. CASE ~deleted[m]
    <3>1. Here(m) \in LiveAt(m)
      BY <2>1, <2>5 DEF ServerHalf, MovePlaced
    <3>2. PICK c \in Live(m) : Here(m) = <<c.folder, c.uid>>
      BY <3>1 DEF LiveAt
    <3>3. \A d \in Live(m) : d.folder = c.folder /\ d.uid = c.uid
      BY <2>3, <3>2
    <3>4. \A d \in Live(m) : d = c
      BY <3>2, <3>3 DEF PatientInv, IInv, Unique, Live
    <3>5. Live(m) = {c}
      BY <3>2, <3>4
    <3> QED
      BY <2>5, <3>5, FS_Singleton
  <2> QED
    BY <2>4, <2>5
<1> QED
  BY <1>1, PatientInvariance, PTL

-----------------------------------------------------------------------------
(* A move is safe: what the abstract variables are *)

placeOf == [m \in Mails |-> Stands(m)[1]]
spareOf == [m \in Mails |-> {p[1] : p \in Duplicates(m)}]
shownIn == [m \in Mails |-> AssocServerFolder(folder[m])]
wantedIn == [m \in Mails |-> IF Pending(m) = {} THEN "none" ELSE Asked(m).target]

\* A mail without a pending move is where the header says, or nowhere.
AloneFact(m) ==
    Pending(m) = {} =>
        /\ wantedIn[m] = "none"
        /\ Here(m) \in LiveAt(m) => Stands(m) = Here(m) /\ placeOf[m] = hfolder[m]
        /\ Here(m) \notin LiveAt(m) => Stands(m) = <<"none", 0>> /\ placeOf[m] = "none"
        /\ ~deleted[m] => Here(m) \in LiveAt(m)
        /\ shownIn[m] = hfolder[m]

\* A mail with a pending move is where it was until the server has answered.
PendingFact(m) ==
    \A i \in Pending(m) :
        /\ wantedIn[m] = req[m][i].target /\ shownIn[m] = req[m][i].target
        /\ req[m][i].state # "ok" => /\ Here(m) \in LiveAt(m) /\ Stands(m) = Here(m)
                                    /\ placeOf[m] = hfolder[m]
        /\ req[m][i].state = "ok" => /\ Stands(m) = <<req[m][i].target, req[m][i].newUid>>
                                    /\ placeOf[m] = req[m][i].target
        /\ req[m][i].target # hfolder[m] /\ req[m][i].target # "none"
        /\ Pending(m) = {i}

LEMMA PlaceAlone == ASSUME PatientInv, NEW m \in Mails PROVE AloneFact(m)
<1> SUFFICES ASSUME Pending(m) = {}
             PROVE  /\ wantedIn[m] = "none"
                    /\ Here(m) \in LiveAt(m) => Stands(m) = Here(m) /\ placeOf[m] = hfolder[m]
                    /\ Here(m) \notin LiveAt(m) => Stands(m) = <<"none", 0>> /\ placeOf[m] = "none"
                    /\ ~deleted[m] => Here(m) \in LiveAt(m)
                    /\ shownIn[m] = hfolder[m]
  BY DEF AloneFact
<1>1. MoveAsked(m) /\ MovePlaced(m)
  BY DEF PatientInv, ClientHalves, ClientHalf, ServerHalves, ServerHalf
<1>2. Stands(m) = IF Here(m) \in LiveAt(m) THEN Here(m) ELSE <<"none", 0>>
  BY DEF Stands
<1>3. wantedIn[m] = "none" /\ shownIn[m] = hfolder[m]
  BY <1>1 DEF wantedIn, shownIn, MoveAsked
<1>4. placeOf[m] = Stands(m)[1] /\ Here(m)[1] = hfolder[m]
  BY DEF placeOf, Here
<1>5. ~deleted[m] => Here(m) \in LiveAt(m)
  BY <1>1 DEF MovePlaced
<1> QED
  BY <1>2, <1>3, <1>4, <1>5

LEMMA PlacePending == ASSUME PatientInv, NEW m \in Mails PROVE PendingFact(m)
<1> SUFFICES ASSUME NEW i \in Pending(m)
             PROVE  /\ wantedIn[m] = req[m][i].target /\ shownIn[m] = req[m][i].target
                    /\ req[m][i].state # "ok" => /\ Here(m) \in LiveAt(m) /\ Stands(m) = Here(m)
                                                /\ placeOf[m] = hfolder[m]
                    /\ req[m][i].state = "ok" =>
                         /\ Stands(m) = <<req[m][i].target, req[m][i].newUid>>
                         /\ placeOf[m] = req[m][i].target
                    /\ req[m][i].target # hfolder[m] /\ req[m][i].target # "none"
                    /\ Pending(m) = {i}
  BY DEF PendingFact
<1>1. IInv /\ MoveAsked(m) /\ MovePlaced(m)
  BY DEF PatientInv, ClientHalves, ClientHalf, ServerHalves, ServerHalf
<1>2. Asked(m) = req[m][i]
  <2>1. (CHOOSE j \in Pending(m) : TRUE) \in Pending(m)
    OBVIOUS
  <2>2. (CHOOSE j \in Pending(m) : TRUE) = i
    BY <1>1, <2>1 DEF MoveAsked
  <2> QED
    BY <2>2 DEF Asked
<1>3. Stands(m) = IF Here(m) \in LiveAt(m) THEN Here(m)
                  ELSE <<req[m][i].target, req[m][i].newUid>>
  BY <1>2 DEF Stands
<1>4. req[m][i].target \in ServerFolders
  BY <1>1, RequestType DEF IInv, Pending, Requests
<1>5. req[m][i].target # "none"
  BY <1>4 DEF ServerFolders, INBOX, SENT, TRASH
<1>6. placeOf[m] = Stands(m)[1] /\ Here(m)[1] = hfolder[m]
  BY DEF placeOf, Here
<1>7. /\ req[m][i].state # "ok" => Here(m) \in LiveAt(m)
      /\ req[m][i].state = "ok" => Here(m) \notin LiveAt(m)
  BY <1>1 DEF MovePlaced
<1>8. wantedIn[m] = req[m][i].target /\ shownIn[m] = req[m][i].target
  BY <1>1, <1>2 DEF wantedIn, shownIn, MoveAsked
<1>9. req[m][i].target # hfolder[m] /\ Pending(m) = {i}
  BY <1>1 DEF MoveAsked
<1>10. CASE req[m][i].state = "ok"
  BY <1>3, <1>5, <1>6, <1>7, <1>8, <1>9, <1>10
<1>11. CASE req[m][i].state # "ok"
  BY <1>3, <1>5, <1>6, <1>7, <1>8, <1>9, <1>11
<1> QED
  BY <1>10, <1>11

\* No folder of the mail server is called none.
LEMMA NoneIsNowhere == ASSUME IInv, NEW m \in Mails PROVE <<"none", 0>> \notin LiveAt(m)
<1>1. \A c \in copies : c.folder # "none"
  BY DEF IInv, TypeOK, Copies, ServerFolders, INBOX, SENT, TRASH
<1> QED
  BY <1>1 DEF LiveAt, Live

\* The same after a step.
AbstractFacts == PatientInv => \A m \in Mails : AloneFact(m) /\ PendingFact(m)

LEMMA FactsNow == AbstractFacts
BY PlaceAlone, PlacePending DEF AbstractFacts

LEMMA FactsNext == AbstractFacts'
BY FactsNow, PTL

AbsSame(n) == /\ placeOf'[n] = placeOf[n] /\ spareOf'[n] = spareOf[n]
              /\ shownIn'[n] = shownIn[n] /\ wantedIn'[n] = wantedIn[n]

\* What the abstract variables depend on.
LEMMA SpareKept ==
    ASSUME NEW n \in Mails, LiveAt(n)' = LiveAt(n), Stands(n)' = Stands(n)
    PROVE  placeOf'[n] = placeOf[n] /\ spareOf'[n] = spareOf[n]
BY DEF placeOf, spareOf, Duplicates

LEMMA AbsKept ==
    ASSUME PatientInv, PatientInv', NEW n \in Mails,
           AssocServerFolder(folder'[n]) = AssocServerFolder(folder[n]),
           UNCHANGED <<hfolder[n], uid[n]>>,
           Pending(n)' = Pending(n),
           \A i \in Pending(n) :
             /\ req'[n][i].target = req[n][i].target
             /\ req[n][i].state = "ok" => /\ req'[n][i].state = "ok"
                                         /\ req'[n][i].newUid = req[n][i].newUid,
           LiveAt(n)' = LiveAt(n)
    PROVE  AbsSame(n)
<1>1. AloneFact(n) /\ AloneFact(n)' /\ PendingFact(n) /\ PendingFact(n)'
  BY FactsNow, FactsNext DEF AbstractFacts
<1>2. Here(n)' = Here(n) /\ shownIn'[n] = shownIn[n]
  BY DEF Here, shownIn
<1>3. CASE Pending(n) = {}
  <2>1. Stands(n)' = Stands(n) /\ wantedIn'[n] = wantedIn[n]
    BY <1>1, <1>2, <1>3 DEF AloneFact
  <2> QED
    BY <1>2, <2>1, SpareKept DEF AbsSame
<1>4. ASSUME NEW i \in Pending(n) PROVE AbsSame(n)
  <2>1. wantedIn'[n] = wantedIn[n]
    BY <1>1, <1>4 DEF PendingFact
  <2>2. CASE req[n][i].state = "ok"
    <3>1. Stands(n)' = Stands(n)
      BY <1>1, <1>4, <2>2 DEF PendingFact
    <3> QED
      BY <1>2, <2>1, <3>1, SpareKept DEF AbsSame
  <2>3. CASE req[n][i].state # "ok"
    <3>1. Here(n)' \in LiveAt(n)' /\ Stands(n) = Here(n)
      BY <1>1, <1>2, <1>4, <2>3 DEF PendingFact
    <3>2. Stands(n)' = Here(n)'
      BY <3>1 DEF Stands
    <3> QED
      BY <1>2, <2>1, <3>1, <3>2, SpareKept DEF AbsSame
  <2> QED
    BY <2>2, <2>3
<1> QED
  BY <1>3, <1>4

-----------------------------------------------------------------------------
(* A move is safe: every step is an abstract one, or none *)

LEMMA AbsOthers ==
    ASSUME NEW m \in Mails, \A n \in Mails \ {m} : AbsSame(n)
    PROVE  /\ placeOf' = [placeOf EXCEPT ![m] = placeOf'[m]]
           /\ spareOf' = [spareOf EXCEPT ![m] = spareOf'[m]]
           /\ shownIn' = [shownIn EXCEPT ![m] = shownIn'[m]]
           /\ wantedIn' = [wantedIn EXCEPT ![m] = wantedIn'[m]]
<1>1. /\ placeOf = [n \in Mails |-> placeOf[n]] /\ placeOf' = [n \in Mails |-> placeOf'[n]]
      /\ spareOf = [n \in Mails |-> spareOf[n]] /\ spareOf' = [n \in Mails |-> spareOf'[n]]
      /\ shownIn = [n \in Mails |-> shownIn[n]] /\ shownIn' = [n \in Mails |-> shownIn'[n]]
      /\ wantedIn = [n \in Mails |-> wantedIn[n]] /\ wantedIn' = [n \in Mails |-> wantedIn'[n]]
  BY DEF placeOf, spareOf, shownIn, wantedIn
<1>2. \A n \in Mails \ {m} : /\ placeOf'[n] = placeOf[n] /\ spareOf'[n] = spareOf[n]
                             /\ shownIn'[n] = shownIn[n] /\ wantedIn'[n] = wantedIn[n]
  BY DEF AbsSame
<1> QED
  BY <1>1, <1>2

\* Where an abstract variable keeps its value for m too, it is unchanged.
LEMMA AbsUnchanged ==
    ASSUME NEW m \in Mails, \A n \in Mails \ {m} : AbsSame(n)
    PROVE  /\ placeOf'[m] = placeOf[m] => placeOf' = placeOf
           /\ spareOf'[m] = spareOf[m] => spareOf' = spareOf
           /\ shownIn'[m] = shownIn[m] => shownIn' = shownIn
           /\ wantedIn'[m] = wantedIn[m] => wantedIn' = wantedIn
<1>1. \A n \in Mails \ {m} : /\ placeOf'[n] = placeOf[n] /\ spareOf'[n] = spareOf[n]
                             /\ shownIn'[n] = shownIn[n] /\ wantedIn'[n] = wantedIn[n]
  BY DEF AbsSame
<1>2. /\ placeOf = [n \in Mails |-> placeOf[n]] /\ placeOf' = [n \in Mails |-> placeOf'[n]]
      /\ spareOf = [n \in Mails |-> spareOf[n]] /\ spareOf' = [n \in Mails |-> spareOf'[n]]
      /\ shownIn = [n \in Mails |-> shownIn[n]] /\ shownIn' = [n \in Mails |-> shownIn'[n]]
      /\ wantedIn = [n \in Mails |-> wantedIn[n]] /\ wantedIn' = [n \in Mails |-> wantedIn'[n]]
  BY DEF placeOf, spareOf, shownIn, wantedIn
<1>3. placeOf'[m] = placeOf[m] => placeOf' = placeOf
  BY <1>1, <1>2
<1>4. spareOf'[m] = spareOf[m] => spareOf' = spareOf
  BY <1>1, <1>2
<1>5. shownIn'[m] = shownIn[m] => shownIn' = shownIn
  BY <1>1, <1>2
<1>6. wantedIn'[m] = wantedIn[m] => wantedIn' = wantedIn
  BY <1>1, <1>2
<1> QED
  BY <1>3, <1>4, <1>5, <1>6

LEMMA AbsStutter ==
    ASSUME \A n \in Mails : AbsSame(n), UNCHANGED deleted
    PROVE  UNCHANGED Abstract!vars
<1>1. placeOf' = placeOf /\ spareOf' = spareOf /\ shownIn' = shownIn /\ wantedIn' = wantedIn
  BY DEF AbsSame, placeOf, spareOf, shownIn, wantedIn
<1> QED
  BY <1>1 DEF Abstract!vars, placeOf, spareOf, shownIn, wantedIn

LEMMA AbsAsk ==
    ASSUME NEW m \in Mails, NEW into \in ServerFolders,
           \A n \in Mails \ {m} : AbsSame(n), UNCHANGED deleted,
           wantedIn[m] = "none", ~deleted[m], into # placeOf[m],
           wantedIn'[m] = into, shownIn'[m] = into,
           placeOf'[m] = placeOf[m], spareOf'[m] = spareOf[m]
    PROVE  Abstract!Next
<1>1. /\ wantedIn' = [wantedIn EXCEPT ![m] = into] /\ shownIn' = [shownIn EXCEPT ![m] = into]
      /\ placeOf' = placeOf /\ spareOf' = spareOf
  BY AbsOthers, AbsUnchanged
<1>2. Abstract!Ask(m, into)
  BY <1>1 DEF Abstract!Ask, placeOf, spareOf, shownIn, wantedIn
<1> QED
  BY <1>2 DEF Abstract!Next

LEMMA AbsCopy ==
    ASSUME NEW m \in Mails, \A n \in Mails \ {m} : AbsSame(n), UNCHANGED deleted,
           wantedIn[m] \notin {"none", placeOf[m]},
           spareOf'[m] = spareOf[m] \union {wantedIn[m]},
           placeOf'[m] = placeOf[m], wantedIn'[m] = wantedIn[m], shownIn'[m] = shownIn[m]
    PROVE  Abstract!Next
<1>1. /\ spareOf' = [spareOf EXCEPT ![m] = spareOf[m] \union {wantedIn[m]}]
      /\ placeOf' = placeOf /\ wantedIn' = wantedIn /\ shownIn' = shownIn
  BY AbsOthers, AbsUnchanged
<1>2. spareOf' = [spareOf EXCEPT ![m] = @ \union {wantedIn[m]}]
  BY <1>1
<1>3. Abstract!Copy(m)
  BY <1>1, <1>2 DEF Abstract!Copy, Abstract!UnderWay, placeOf, spareOf, shownIn, wantedIn
<1> QED
  BY <1>3 DEF Abstract!Next

LEMMA AbsMove ==
    ASSUME NEW m \in Mails, \A n \in Mails \ {m} : AbsSame(n), UNCHANGED deleted,
           wantedIn[m] \notin {"none", placeOf[m]}, wantedIn[m] \in spareOf[m],
           placeOf'[m] = wantedIn[m], wantedIn'[m] = wantedIn[m], shownIn'[m] = shownIn[m],
           spareOf'[m] \in {spareOf[m], spareOf[m] \ {wantedIn[m]}}
    PROVE  Abstract!Next
<1>1. /\ placeOf' = [placeOf EXCEPT ![m] = wantedIn[m]]
      /\ wantedIn' = wantedIn /\ shownIn' = shownIn
  BY AbsOthers, AbsUnchanged
<1>2. \/ spareOf' = spareOf
      \/ spareOf' = [spareOf EXCEPT ![m] = @ \ {wantedIn[m]}]
  BY AbsOthers, AbsUnchanged
<1>3. Abstract!Move(m)
  BY <1>1, <1>2 DEF Abstract!Move, Abstract!UnderWay, placeOf, spareOf, shownIn, wantedIn
<1> QED
  BY <1>3 DEF Abstract!Next

LEMMA AbsConfirm ==
    ASSUME NEW m \in Mails, \A n \in Mails \ {m} : AbsSame(n), UNCHANGED deleted,
           wantedIn[m] # "none", placeOf[m] = wantedIn[m], wantedIn'[m] = "none",
           placeOf'[m] = placeOf[m], spareOf'[m] = spareOf[m], shownIn'[m] = shownIn[m]
    PROVE  Abstract!Next
<1>1. /\ wantedIn' = [wantedIn EXCEPT ![m] = "none"]
      /\ placeOf' = placeOf /\ spareOf' = spareOf /\ shownIn' = shownIn
  BY AbsOthers, AbsUnchanged
<1>2. Abstract!Confirm(m)
  BY <1>1 DEF Abstract!Confirm, placeOf, spareOf, shownIn, wantedIn
<1> QED
  BY <1>2 DEF Abstract!Next

LEMMA AbsTakeBack ==
    ASSUME NEW m \in Mails, \A n \in Mails \ {m} : AbsSame(n), UNCHANGED deleted,
           wantedIn[m] \notin {"none", placeOf[m]}, wantedIn'[m] = "none",
           placeOf'[m] = placeOf[m], spareOf'[m] = spareOf[m], shownIn'[m] = placeOf[m]
    PROVE  Abstract!Next
<1>1. /\ wantedIn' = [wantedIn EXCEPT ![m] = "none"]
      /\ shownIn' = [shownIn EXCEPT ![m] = placeOf[m]]
      /\ placeOf' = placeOf /\ spareOf' = spareOf
  BY AbsOthers, AbsUnchanged
<1>2. Abstract!TakeBack(m)
  BY <1>1 DEF Abstract!TakeBack, Abstract!UnderWay, placeOf, spareOf, shownIn, wantedIn
<1> QED
  BY <1>2 DEF Abstract!Next

LEMMA AbsDisappear ==
    ASSUME NEW m \in Mails, \A n \in Mails \ {m} : AbsSame(n), UNCHANGED deleted,
           deleted[m], wantedIn[m] = "none", placeOf'[m] = "none", spareOf'[m] = spareOf[m],
           shownIn'[m] = shownIn[m], wantedIn'[m] = wantedIn[m]
    PROVE  Abstract!Next
<1>1. /\ placeOf' = [placeOf EXCEPT ![m] = "none"]
      /\ spareOf' = spareOf /\ shownIn' = shownIn /\ wantedIn' = wantedIn
  BY AbsOthers, AbsUnchanged
<1>2. Abstract!Disappear(m)
  BY <1>1 DEF Abstract!Disappear, placeOf, spareOf, shownIn, wantedIn
<1> QED
  BY <1>2 DEF Abstract!Next

LEMMA AbsDoom ==
    ASSUME NEW S \in SUBSET Mails, \A n \in Mails : AbsSame(n),
           deleted' = [m \in Mails |-> deleted[m] \/ m \in S],
           \A m \in S : ~deleted[m] /\ wantedIn[m] = "none"
    PROVE  Abstract!Next
<1>1. placeOf' = placeOf /\ spareOf' = spareOf /\ shownIn' = shownIn /\ wantedIn' = wantedIn
  BY DEF AbsSame, placeOf, spareOf, shownIn, wantedIn
<1>2. Abstract!Doom(S)
  BY <1>1 DEF Abstract!Doom, placeOf, spareOf, shownIn, wantedIn
<1> QED
  BY <1>2 DEF Abstract!Next

\* The user.
LEMMA UserIsAbstract ==
    ASSUME Attentive, PatientInv, PatientInv', NEW m \in Mails, UserStep(m)
    PROVE  Abstract!Next \/ UNCHANGED Abstract!vars
<1>1. /\ TypeOK /\ ClientHalf(m) /\ hfolder[m] \in ServerFolders /\ folder[m] \in Folders
      /\ AloneFact(m) /\ AloneFact(m)' /\ PendingFact(m)'
  BY FactsNow, FactsNext DEF PatientInv, ClientHalves, IInv, TypeOK, AbstractFacts
<1>2. UNCHANGED <<hfolder, uid, server>> /\ \A n \in Mails \ {m} : Same(n)
  BY <1>1, UserHalf DEF UserStep, Delete, Restore, DeleteForever, ContentShown, MoveMail
<1>3. \A n \in Mails : LiveAt(n)' = LiveAt(n) /\ Here(n)' = Here(n)
  BY <1>2, ClientStoring DEF Here
<1>4. \A n \in Mails \ {m} : AbsSame(n)
  <2> SUFFICES ASSUME NEW n \in Mails, n # m PROVE AbsSame(n)
    OBVIOUS
  <2>1. Same(n)
    BY <1>2
  <2>2. Pending(n)' = Pending(n)
    BY <2>1 DEF Same, Pending
  <2> QED
    BY <1>3, <2>1, <2>2, AbsKept DEF Same
<1>5. CASE Delete(m) \/ Restore(m)
  <2>1. Pending(m) = {} /\ ~deleted[m] /\ UNCHANGED deleted
    BY <1>5, AloneWhenActed DEF Delete, Restore, MoveMail
  <2>2. PICK into \in Folders : MoveMail(m, into)
    BY <1>1, <1>5 DEF Delete, Restore, TypeOK, Folders, ServerFolders
  <2>3. /\ folder'[m] = into
        /\ \/ hfolder[m] = AssocServerFolder(into) /\ UNCHANGED req
           \/ /\ hfolder[m] # AssocServerFolder(into)
              /\ \E k : /\ Pending(m)' = {k} /\ k \notin DOMAIN req[m]
                        /\ DOMAIN req'[m] = DOMAIN req[m] \union {k}
                        /\ req'[m][k] = NewRequest(m, "move", AssocServerFolder(into))
                        /\ \A j \in DOMAIN req[m] : req'[m][j] = req[m][j]
    BY <1>1, <2>1, <2>2, MoveMailHalf
  <2>4. /\ wantedIn[m] = "none" /\ placeOf[m] = hfolder[m] /\ shownIn[m] = hfolder[m]
        /\ Stands(m) = Here(m)
    BY <1>1, <2>1 DEF AloneFact
  <2>5. CASE hfolder[m] = AssocServerFolder(into) /\ UNCHANGED req
    <3>1. AssocServerFolder(folder'[m]) = AssocServerFolder(folder[m])
      BY <1>1, <2>1, <2>3, <2>5 DEF ClientHalf, MoveAsked
    <3>2. Pending(m)' = Pending(m)
      BY <2>5 DEF Pending
    <3>3. AbsSame(m)
      BY <1>2, <1>3, <2>1, <3>1, <3>2, AbsKept
    <3> QED
      BY <1>4, <2>1, <3>3, AbsStutter
  <2>6. CASE hfolder[m] # AssocServerFolder(into)
    <3>1. PICK k : /\ Pending(m)' = {k}
                   /\ req'[m][k] = NewRequest(m, "move", AssocServerFolder(into))
      BY <2>3, <2>6
    <3>2. req'[m][k].target = AssocServerFolder(into) /\ req'[m][k].state = "sent"
      BY <3>1 DEF NewRequest
    <3>3. /\ wantedIn'[m] = AssocServerFolder(into) /\ shownIn'[m] = AssocServerFolder(into)
          /\ Stands(m)' = Here(m)'
      BY <1>1, <3>1, <3>2 DEF PendingFact
    <3>5. placeOf'[m] = placeOf[m] /\ spareOf'[m] = spareOf[m]
      BY <1>3, <2>4, <3>3, SpareKept
    <3>4. AssocServerFolder(into) \in ServerFolders
      BY AssocType
    <3> QED
      BY <1>2, <1>4, <2>1, <2>4, <2>6, <3>3, <3>4, <3>5, AbsAsk
  <2> QED
    BY <2>3, <2>5, <2>6
<1>6. ASSUME NEW kind \in {"seen", "deleted"}, Send(m, NewRequest(m, kind, hfolder[m])),
             UNCHANGED folder
      PROVE  AbsSame(m)
  <2> DEFINE r == NewRequest(m, kind, hfolder[m])
  <2>1. r \in Requests
    BY <1>1, NewRequestType
  <2>2. r.kind # "move"
    BY DEF NewRequest
  <2> HIDE DEF r
  <2>3. Pending(m)' = Pending(m)
    BY <1>1, <1>6, <2>1, <2>2, PendingFlagSent DEF r
  <2>4. \A j \in DOMAIN req[m] : req'[m][j] = req[m][j]
    BY <1>1, <1>6, <2>1, OneSent DEF r
  <2>5. \A j \in Pending(m) : req'[m][j] = req[m][j]
    BY <2>4 DEF Pending
  <2> QED
    BY <1>2, <1>3, <1>6, <2>3, <2>5, AbsKept
<1>7. CASE DeleteForever(m)
  <2>1. Pending(m) = {} /\ ~deleted[m]
    BY <1>7, AloneWhenActed DEF DeleteForever
  <2>2. AbsSame(m)
    BY <1>6, <1>7 DEF DeleteForever
  <2>3. deleted' = [n \in Mails |-> deleted[n] \/ n \in {m}]
    <3>1. \A n \in Mails : deleted'[n] = IF n = m THEN TRUE ELSE deleted[n]
      BY <1>7 DEF DeleteForever, IInv, TypeOK, PatientInv
    <3>2. \A n \in Mails : deleted[n] \in BOOLEAN
      BY <1>1 DEF TypeOK
    <3>3. \A n \in Mails : deleted'[n] = (deleted[n] \/ n \in {m})
      BY <3>1, <3>2
    <3>4. deleted' = [n \in Mails |-> deleted'[n]]
      BY <1>1, <1>7 DEF DeleteForever, TypeOK
    <3> QED
      BY <3>3, <3>4
  <2>4. wantedIn[m] = "none"
    BY <1>1, <2>1 DEF AloneFact
  <2> DEFINE S == {m}
  <2>5. S \in SUBSET Mails /\ deleted' = [n \in Mails |-> deleted[n] \/ n \in S]
    BY <2>3
  <2>6. \A n \in S : ~deleted[n] /\ wantedIn[n] = "none"
    BY <2>1, <2>4
  <2>7. \A n \in Mails : AbsSame(n)
    BY <1>4, <2>2
  <2> HIDE DEF S
  <2> QED
    BY <2>5, <2>6, <2>7, AbsDoom
<1>8. CASE ContentShown(m)
  BY <1>4, <1>6, <1>8, AbsStutter DEF ContentShown
<1> QED
  BY <1>5, <1>7, <1>8 DEF UserStep

LEMMA EmptyTrashIsAbstract ==
    ASSUME Attentive, PatientInv, PatientInv', EmptyTrash
    PROVE  Abstract!Next
<1> DEFINE S == FilteredMails(TRASH)
<1>1. TypeOK
  BY DEF PatientInv, IInv
<1>2. TRASH \in Folders /\ S \in SUBSET Mails
  BY <1>1 DEF Folders, ServerFolders, FilteredMails, TypeOK
<1>3. ASSUME NEW n \in Mails PROVE AbsSame(n)
  <2>1. ClientHalf(n)
    BY DEF PatientInv, ClientHalves
  <2>2. Pending(n)' = Pending(n) /\ UNCHANGED <<folder, hfolder, uid, server>>
    BY <1>1, <2>1, EmptyTrashHalf DEF EmptyTrash
  <2>3. LiveAt(n)' = LiveAt(n) /\ Here(n)' = Here(n)
    BY <2>2, ClientStoring DEF Here
  <2>4. \A j \in Pending(n) : req'[n][j] = req[n][j]
    BY <1>1, EmptyTrashEffect DEF Pending
  <2> QED
    BY <2>2, <2>3, <2>4, AbsKept
<1>4. deleted' = [m \in Mails |-> deleted[m] \/ m \in S]
  BY DEF EmptyTrash
<1>5. ASSUME NEW m \in S PROVE ~deleted[m] /\ wantedIn[m] = "none"
  <2>1. m \in Mails /\ Pending(m) = {} /\ ~deleted[m]
    BY <1>2, DoomedAlone
  <2>2. AloneFact(m)
    BY <2>1, FactsNow DEF AbstractFacts
  <2> QED
    BY <2>1, <2>2 DEF AloneFact
<1> HIDE DEF S
<1> QED
  BY <1>2, <1>3, <1>4, <1>5, AbsDoom

\* The answers.
LEMMA ReplyIsAbstract ==
    ASSUME PatientInv, PatientInv', NEW m \in Mails, NEW i \in DOMAIN req[m], Reply(m, i)
    PROVE  Abstract!Next \/ UNCHANGED Abstract!vars
<1>1. /\ TypeOK /\ ClientHalf(m)
      /\ PendingFact(m) /\ AloneFact(m)' /\ MovePlaced(m)
  BY FactsNow, FactsNext DEF PatientInv, ClientHalves, ServerHalves, ServerHalf, IInv, AbstractFacts
<1>2. /\ \A n \in Mails \ {m} : Same(n)
      /\ UNCHANGED <<deleted, server>> /\ Pending(m)' = Pending(m) \ {i}
      /\ MoveReplyFail(m, i) => hfolder' = hfolder /\ uid' = uid
  BY <1>1, ReplyHalf DEF Reply, MoveReplyOk, MoveReplyFail, FlagsReply
<1>3. \A n \in Mails : LiveAt(n)' = LiveAt(n)
  BY <1>2, ClientStoring
<1>4. \A n \in Mails \ {m} : AbsSame(n)
  <2> SUFFICES ASSUME NEW n \in Mails, n # m PROVE AbsSame(n)
    OBVIOUS
  <2>1. Same(n)
    BY <1>2
  <2>2. Pending(n)' = Pending(n) /\ Here(n)' = Here(n)
    BY <2>1 DEF Same, Pending, Here
  <2> QED
    BY <1>3, <2>1, <2>2, AbsKept DEF Same
<1>5. CASE MoveReplyOk(m, i)
  <2>1. i \in Pending(m) /\ req[m][i].state = "ok"
    BY <1>5 DEF MoveReplyOk, Answered, Pending
  <2>2. /\ wantedIn[m] = req[m][i].target /\ placeOf[m] = req[m][i].target
        /\ shownIn[m] = req[m][i].target /\ req[m][i].target # "none" /\ Pending(m)' = {}
        /\ Stands(m) = <<req[m][i].target, req[m][i].newUid>>
    BY <1>1, <1>2, <2>1 DEF PendingFact
  <2>3. hfolder'[m] = req[m][i].target /\ uid'[m] = req[m][i].newUid
    BY <1>1, <1>5 DEF MoveReplyOk, TypeOK
  <2>4. Here(m)' \in LiveAt(m)'
    BY <1>1, <1>3, <2>1, <2>3 DEF MovePlaced, Here
  <2>5. wantedIn'[m] = "none" /\ Stands(m)' = Here(m)' /\ shownIn'[m] = hfolder'[m]
    BY <1>1, <2>2, <2>4 DEF AloneFact
  <2>6. placeOf'[m] = placeOf[m] /\ spareOf'[m] = spareOf[m]
    BY <1>3, <2>2, <2>3, <2>5, SpareKept DEF Here
  <2> QED
    BY <1>2, <1>4, <2>2, <2>3, <2>5, <2>6, AbsConfirm
<1>6. CASE MoveReplyFail(m, i)
  <2>1. i \in Pending(m) /\ req[m][i].state = "fail"
    BY <1>6 DEF MoveReplyFail, Answered, Pending
  <2>2. /\ wantedIn[m] = req[m][i].target /\ placeOf[m] = hfolder[m]
        /\ req[m][i].target # "none" /\ req[m][i].target # hfolder[m] /\ Pending(m)' = {}
        /\ Stands(m) = Here(m)
    BY <1>1, <1>2, <2>1 DEF PendingFact
  <2>3. Here(m)' = Here(m) /\ Here(m) \in LiveAt(m)
    BY <1>1, <1>2, <1>6, <2>1 DEF MovePlaced, Here
  <2>4. wantedIn'[m] = "none" /\ Stands(m)' = Here(m)' /\ shownIn'[m] = hfolder'[m]
    BY <1>1, <1>3, <2>2, <2>3 DEF AloneFact
  <2>6. placeOf'[m] = placeOf[m] /\ spareOf'[m] = spareOf[m]
    BY <1>3, <2>2, <2>3, <2>4, SpareKept
  <2>5. hfolder'[m] = hfolder[m]
    BY <1>2, <1>6
  <2> QED
    BY <1>2, <1>4, <2>2, <2>4, <2>5, <2>6, AbsTakeBack
<1>7. CASE FlagsReply(m, i)
  <2>1. UNCHANGED <<folder, hfolder, uid>> /\ i \notin Pending(m) /\ Forget(m, i)
    BY <1>7 DEF FlagsReply, client, Pending
  <2>2. Pending(m)' = Pending(m) /\ Here(m)' = Here(m)
    BY <1>2, <2>1 DEF Here
  <2>3. \A j \in DOMAIN req[m] :
           req'[m][j] = IF j = i THEN [req[m][i] EXCEPT !.waiting = FALSE] ELSE req[m][j]
    BY <1>1, <2>1, ForgetEffect
  <2>4. \A j \in Pending(m) : req'[m][j] = req[m][j]
    BY <2>1, <2>3 DEF Pending
  <2>5. AbsSame(m)
    BY <1>3, <2>1, <2>2, <2>4, AbsKept
  <2> QED
    BY <1>2, <1>4, <2>5, AbsStutter
<1> QED
  BY <1>5, <1>6, <1>7 DEF Reply

\* Steps of the server that leave the undeleted messages of a mail as they are.
LEMMA ServerKept ==
    ASSUME PatientInv, PatientInv', UNCHANGED client, OneAnswer,
           NEW n \in Mails, LiveAt(n)' = LiveAt(n)
    PROVE  AbsSame(n)
<1>1. TypeOK
  BY DEF PatientInv, IInv
<1> DEFINE Kept(j) == /\ req'[n][j].target = req[n][j].target
                      /\ req[n][j].state = "ok" => /\ req'[n][j].state = "ok"
                                                  /\ req'[n][j].newUid = req[n][j].newUid
<1>2. Pending(n)' = Pending(n) /\ \A j \in Pending(n) : Kept(j)
  <2>1. CASE req'[n] = req[n]
    BY <2>1 DEF Pending
  <2>2. ASSUME NEW i \in DOMAIN req[n], NEW state \in {"ok", "fail"}, NEW u \in Nat,
               req[n][i].state = "sent", Answer(n, i, state, u)
        PROVE  Pending(n)' = Pending(n) /\ \A j \in Pending(n) : Kept(j)
    <3>1. /\ Pending(n)' = Pending(n)
          /\ \A j \in DOMAIN req[n] : /\ j # i => req'[n][j] = req[n][j]
                                      /\ req'[n][j].target = req[n][j].target
      BY <1>1, <2>2, PendingAnswered
    <3> QED
      BY <2>2, <3>1 DEF Pending
  <2>3. \A m \in Mails \ {n} : \A i \in DOMAIN req[m] :
          \A state \in {"ok", "fail"}, u \in Nat : Answer(m, i, state, u) => req'[n] = req[n]
    BY <1>1, PendingAnswered
  <2> HIDE DEF Kept
  <2> QED
    BY <2>1, <2>2, <2>3 DEF OneAnswer
<1> QED
  BY <1>2, AbsKept DEF client

LEMMA StoreIsAbstract ==
    ASSUME PatientInv, PatientInv', StoreFlags
    PROVE  Abstract!Next \/ UNCHANGED Abstract!vars
<1>1. IInv /\ HandlerOk /\ TypeOK /\ HandlerStep
  BY DEF PatientInv, IInv, HandlerStep
<1>2. UNCHANGED client /\ OneAnswer
  BY <1>1, ServerStepEffect
<1>3. PICK m \in Mails : m = srv.mail
  BY <1>1, StoreEffect
<1>4. PICK i \in DOMAIN req[m] : i = srv.idx
  BY <1>1, <1>3, StoreEffect
<1>5. Current = req[m][i] /\ Current \in Requests /\ Current.state = "sent" /\ UNCHANGED deleted
  BY <1>1, <1>2, <1>3, <1>4, StoreEffect DEF Current, client
<1>6. \A n \in Mails :
         LiveAt(n)' = IF n = m /\ req[m][i].kind # "seen"
                      THEN LiveAt(n) \ {<<req[m][i].folder, req[m][i].uid>>}
                      ELSE LiveAt(n)
  BY <1>1, <1>3, <1>5, LiveStored
<1>7. \A n \in Mails \ {m} : AbsSame(n)
  BY <1>2, <1>6, ServerKept
<1>8. /\ ServerHalf(m) /\ ClientHalf(m) /\ PendingFact(m) /\ AloneFact(m)
      /\ PendingFact(m)' /\ AloneFact(m)'
  BY FactsNow, FactsNext DEF PatientInv, ClientHalves, ServerHalves, AbstractFacts
<1>9. Here(m)' = Here(m) /\ hfolder'[m] = hfolder[m]
  BY <1>2 DEF Here, client
<1>10. PICK state \in {"ok", "fail"}, u \in Nat :
         /\ Answer(m, i, state, u)
         /\ Current.kind # "move" \/ srv.newUid # 0 => state = "ok" /\ u = srv.newUid
  BY <1>1, <1>3, <1>4, StoreEffect
<1>11. /\ Pending(m)' = Pending(m) /\ req'[m][i].target = req[m][i].target
       /\ req'[m][i].state = state
  BY <1>1, <1>10, PendingAnswered
<1>12. CASE req[m][i].kind = "seen"
  <2>1. AbsSame(m)
    BY <1>2, <1>6, <1>12, ServerKept
  <2> QED
    BY <1>5, <1>7, <2>1, AbsStutter
<1>13. CASE req[m][i].kind = "deleted"
  <2>1. DeleteSent(m, i)
    BY <1>5, <1>13 DEF DeleteSent
  <2>2. deleted[m] /\ <<req[m][i].folder, req[m][i].uid>> = Here(m)
    BY <1>8, <2>1 DEF ServerHalf, DeletesHere, Here
  <2>3. Pending(m) = {} /\ Here(m)' \notin LiveAt(m)'
    BY <1>6, <1>8, <1>9, <1>13, <2>2 DEF ClientHalf, MoveAsked
  <2>4. /\ placeOf'[m] = "none" /\ shownIn'[m] = shownIn[m]
        /\ wantedIn[m] = "none" /\ wantedIn'[m] = "none" /\ Stands(m)' = <<"none", 0>>
    BY <1>8, <1>9, <1>11, <2>3 DEF AloneFact
  <2>5. Stands(m) \in {Here(m), <<"none", 0>>} /\ (Here(m) \in LiveAt(m) => Stands(m) = Here(m))
    BY <1>8, <2>3 DEF AloneFact
  <2>6. <<"none", 0>> \notin LiveAt(m) /\ LiveAt(m)' = LiveAt(m) \ {Here(m)}
    BY <1>1, <1>6, <1>13, <2>2, NoneIsNowhere
  <2>7. Duplicates(m)' = Duplicates(m)
    BY <2>4, <2>5, <2>6 DEF Duplicates
  <2>8. spareOf'[m] = spareOf[m]
    BY <2>7 DEF spareOf
  <2> QED
    BY <1>5, <1>7, <2>2, <2>4, <2>8, AbsDisappear
<1>14. CASE req[m][i].kind = "move"
  <2>1. Pending(m) = {i} /\ i \in Pending(m)
    BY <1>1, <1>3, <1>4, <1>5, <1>14, ServedMove DEF StoreFlags, PatientInv
  <2> DEFINE p == <<req[m][i].target, srv.newUid>>
  <2>2. srv.newUid # 0 /\ p \in LiveAt(m)
    BY <1>3, <1>4, <1>8, <2>1 DEF ServerHalf, MovePlaced, Storing, StoreFlags
  <2>3. req'[m][i].state = "ok" /\ req'[m][i].newUid = srv.newUid
    BY <1>1, <1>5, <1>10, <1>11, <2>2, PendingAnswered
  <2>4. /\ wantedIn[m] = req[m][i].target /\ shownIn[m] = req[m][i].target
        /\ placeOf[m] = hfolder[m] /\ wantedIn[m] \notin {"none", placeOf[m]}
        /\ Stands(m) = Here(m)
    BY <1>5, <1>8, <2>1 DEF PendingFact
  <2>5. /\ wantedIn'[m] = req[m][i].target /\ shownIn'[m] = req[m][i].target
        /\ placeOf'[m] = req[m][i].target /\ Stands(m)' = p
    BY <1>8, <1>11, <2>1, <2>3 DEF PendingFact
  <2>6. <<req[m][i].folder, req[m][i].uid>> = Here(m) /\ LiveAt(m)' = LiveAt(m) \ {Here(m)}
    BY <1>1, <1>3, <1>4, <1>5, <1>6, <1>14, ServedMove DEF StoreFlags, PatientInv
  <2>7. p # Here(m) /\ p[1] = wantedIn[m]
    BY <1>8, <2>1, <2>4 DEF PendingFact, Here
  <2> HIDE DEF p
  <2>8. p \in Duplicates(m) /\ Duplicates(m)' = Duplicates(m) \ {p}
    BY <2>2, <2>4, <2>5, <2>6, <2>7 DEF Duplicates
  <2>9. /\ spareOf[m] = {q[1] : q \in Duplicates(m)}
        /\ spareOf'[m] = {q[1] : q \in Duplicates(m) \ {p}}
    BY <2>8 DEF spareOf
  <2>10. wantedIn[m] \in spareOf[m]
    BY <2>7, <2>8, <2>9
  <2>11. spareOf'[m] \in {spareOf[m], spareOf[m] \ {wantedIn[m]}}
    <3>1. CASE \E q \in Duplicates(m) \ {p} : q[1] = p[1]
      BY <2>9, <3>1
    <3>2. CASE \A q \in Duplicates(m) \ {p} : q[1] # p[1]
      BY <2>7, <2>9, <3>2
    <3> QED
      BY <3>1, <3>2
  <2> QED
    BY <1>5, <1>7, <2>4, <2>5, <2>10, <2>11, AbsMove
<1> QED
  BY <1>5, <1>12, <1>13, <1>14 DEF Requests

LEMMA ServerIsAbstract ==
    ASSUME Favourable, PatientInv, PatientInv',
           \/ HandlerStep
           \/ \E f \in ServerFolders : Expunge(f)
           \/ \E m \in Mails : \E i \in DOMAIN req[m] : Reject(m, i) \/ Lock(m, i)
    PROVE  Abstract!Next \/ UNCHANGED Abstract!vars
<1>1. IInv /\ HandlerOk /\ TypeOK /\ ClientHalves /\ ServerHalves
  BY DEF PatientInv, IInv
<1>2. UNCHANGED client /\ OneAnswer
  BY <1>1, ServerStepEffect
<1>3. UNCHANGED deleted
  BY <1>2 DEF client
<1>4. ASSUME \A n \in Mails : LiveAt(n)' = LiveAt(n)
      PROVE  UNCHANGED Abstract!vars
  <2>1. \A n \in Mails : AbsSame(n)
    BY <1>2, <1>4, ServerKept
  <2> QED
    BY <1>3, <2>1, AbsStutter
<1>5. CASE UNCHANGED copies \/ \E f \in ServerFolders : Expunge(f)
  BY <1>4, <1>5, LiveKept, LiveExpunged
<1>6. CASE CopyMail
  <2>1. srv.pc = "copy" /\ srv.pc # "idle"
    BY <1>6 DEF CopyMail
  <2>2. PICK m \in Mails : m = srv.mail
    BY <1>1, <2>1, CurrentType
  <2>3. Current.kind = "move" /\ Current.state = "sent"
    BY <1>1, <2>1, CurrentType, IdleNotRunning DEF HandlerOk
  <2>4. /\ Pending(m) = {srv.idx} /\ Current = req[m][srv.idx]
        /\ <<Current.folder, Current.uid>> = Here(m) /\ Current.target # hfolder[m]
    BY <1>1, <2>1, <2>2, <2>3, ServedMove
  <2>5. Here(m) \in LiveAt(m)
    BY <1>1, <2>3, <2>4 DEF ServerHalves, ServerHalf, MovePlaced
  <2>6. /\ \A n \in Mails \ {m} : LiveAt(n)' = LiveAt(n)
        /\ LiveAt(m)' = LiveAt(m) \union {<<Current.target, uidNext[Current.target]>>}
    BY <1>1, <1>6, <2>2, <2>4, <2>5, LiveCopied
  <2>7. \A n \in Mails \ {m} : AbsSame(n)
    BY <1>2, <2>6, ServerKept
  <2>8. /\ Pending(m)' = Pending(m) /\ req' = req /\ Here(m)' = Here(m)
        /\ srv.idx \in Pending(m) /\ PendingFact(m) /\ PendingFact(m)'
    BY <1>2, <1>6, <2>4, FactsNow, FactsNext DEF CopyMail, Pending, Here, client, AbstractFacts
  <2>9. /\ wantedIn[m] = Current.target /\ wantedIn'[m] = wantedIn[m] /\ shownIn'[m] = shownIn[m]
        /\ Stands(m) = Here(m) /\ Stands(m)' = Here(m) /\ placeOf[m] = hfolder[m]
        /\ placeOf'[m] = placeOf[m] /\ wantedIn[m] \notin {"none", placeOf[m]}
    BY <1>2, <2>3, <2>4, <2>8 DEF PendingFact, client
  <2> DEFINE p == <<Current.target, uidNext[Current.target]>>
  <2>10. p # Here(m) /\ p[1] = wantedIn[m]
    BY <2>4, <2>9 DEF Here
  <2> HIDE DEF p
  <2>11. Duplicates(m)' = Duplicates(m) \union {p}
    BY <2>6, <2>9, <2>10 DEF Duplicates, p
  <2>12. spareOf'[m] = spareOf[m] \union {wantedIn[m]}
    BY <2>10, <2>11 DEF spareOf
  <2> QED
    BY <1>3, <2>7, <2>9, <2>12, AbsCopy
<1>7. CASE StoreFlags
  BY <1>7, StoreIsAbstract
<1>8. \/ UNCHANGED copies \/ \E f \in ServerFolders : Expunge(f)
      \/ CopyMail \/ StoreFlags
  BY DEF HandlerStep, SelectFolder, CopyFails, StoreFails, Reject, Lock, server
<1> QED
  BY <1>5, <1>6, <1>7, <1>8

LEMMA InitIsAbstract == Init => Abstract!Init
<1> SUFFICES ASSUME Init PROVE Abstract!Init
  OBVIOUS
<1>1. PatientInv /\ TypeOK
  BY InitPatient DEF PatientInv, IInv
<1>2. ASSUME NEW m \in Mails
      PROVE  /\ shownIn[m] \in ServerFolders /\ wantedIn[m] = "none"
             /\ placeOf[m] = IF deleted[m] THEN "none" ELSE shownIn[m]
             /\ spareOf[m] = {}
  <2>1. req[m] = <<>> /\ DOMAIN req[m] = {}
    BY DEF Init
  <2>2. Pending(m) = {} /\ Unfailed(m) /\ \A i : ~DeleteSent(m, i)
    BY <2>1 DEF Pending, Unfailed, DeleteSent
  <2>3. AloneFact(m) /\ NoDuplicate(m) /\ hfolder[m] \in ServerFolders
    BY <1>1, FactsNow DEF AbstractFacts, PatientInv, ServerHalves, ServerHalf, TypeOK
  <2>4. deleted[m] => LiveAt(m) = {}
    BY <2>2, <2>3 DEF NoDuplicate
  <2>5. LiveAt(m) \subseteq {Here(m)}
    BY <2>2, <2>3 DEF NoDuplicate
  <2>6. Duplicates(m) = {}
    BY <2>2, <2>3, <2>5 DEF AloneFact, Duplicates
  <2>7. spareOf[m] = {}
    BY <2>6 DEF spareOf
  <2> QED
    BY <2>2, <2>3, <2>4, <2>7 DEF AloneFact
<1>3. /\ shownIn \in [Mails -> ServerFolders]
      /\ placeOf = [m \in Mails |-> IF deleted[m] THEN "none" ELSE shownIn[m]]
      /\ wantedIn = [m \in Mails |-> "none"] /\ spareOf = [m \in Mails |-> {}]
  BY <1>2 DEF shownIn, placeOf, spareOf, wantedIn
<1> QED
  BY <1>1, <1>3 DEF Abstract!Init, shownIn, placeOf, spareOf, wantedIn, TypeOK

\* For a user who leaves a mail alone while it is moved, and answers that arrive,
\* the steps of browser, handler and mail server (mailhandler.js moveMail,
\* mailitem.js, mail.go moveMail_internal) are the steps of a safe move, or none:
\* the copy comes before the original goes, and a duplicate only with a move that
\* is taken back.
THEOREM MovesImplementSafeMove == ASSUME Favourable PROVE Spec => MovesAreSafe
<1>1. Attentive
  BY DEF Favourable
<1>2. PatientInv /\ PatientInv' /\ [Next]_vars => [Abstract!Next]_(Abstract!vars)
  <2> SUFFICES ASSUME PatientInv, PatientInv', [Next]_vars
               PROVE  Abstract!Next \/ UNCHANGED Abstract!vars
    OBVIOUS
  <2>1. CASE EmptyTrash
    BY <1>1, <2>1, EmptyTrashIsAbstract
  <2>2. CASE \/ HandlerStep
             \/ \E f \in ServerFolders : Expunge(f)
             \/ \E m \in Mails : \E i \in DOMAIN req[m] : Reject(m, i) \/ Lock(m, i)
    BY <2>2, ServerIsAbstract
  <2>3. ASSUME NEW m \in Mails, UserStep(m) PROVE Abstract!Next \/ UNCHANGED Abstract!vars
    BY <1>1, <2>3, UserIsAbstract
  <2>4. ASSUME NEW m \in Mails, NEW i \in DOMAIN req[m], Reply(m, i)
        PROVE  Abstract!Next \/ UNCHANGED Abstract!vars
    BY <2>4, ReplyIsAbstract
  <2>5. \A m \in Mails : \A i \in DOMAIN req[m] : ~ReplyDropped(m, i)
    BY <1>1 DEF Attentive, ReplyDropped
  <2>6. CASE UNCHANGED vars
    <3>1. \A m \in Mails : /\ Pending(m)' = Pending(m) /\ Asked(m)' = Asked(m)
                           /\ LiveAt(m)' = LiveAt(m) /\ Here(m)' = Here(m)
      BY <2>6 DEF vars, client, server, Pending, Asked, LiveAt, Live, Here
    <3>2. \A m \in Mails : Stands(m)' = Stands(m) /\ Duplicates(m)' = Duplicates(m)
      BY <3>1 DEF Stands, Duplicates
    <3> QED
      BY <2>6, <3>1, <3>2 DEF vars, client, Abstract!vars
  <2> QED
    BY <2>1, <2>2, <2>3, <2>4, <2>5, <2>6 DEF Next
<1> QED
  BY <1>2, InitIsAbstract, PatientInvariance, PTL DEF Spec, MovesAreSafe, Abstract!Spec
=============================================================================
