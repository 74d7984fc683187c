--------------------------- MODULE MailMove_proofs ---------------------------
(***************************************************************************)
(* Proofs about MailMove: type correctness, that no mail is lost, and that *)
(* the trees of the page match its folders (if no two dates are equal),    *)
(* for any number of mails and requests, any combination of faults, with   *)
(* or without UIDPLUS and whether or not the user waits for answers.       *)
(***************************************************************************)
EXTENDS MailMove, SequenceTheorems, FiniteSetTheorems, TLAPS

(***************************************************************************)
(* The inductive invariant.  A reference <<f, u>> to a mail m is sound if  *)
(* it cannot come to name another mail: the UID has been given out and the *)
(* messages that have it, if any is left, are copies of m.                 *)
(***************************************************************************)
RefIn(C, next, m, f, u) ==
    /\ u < next[f]
    /\ \A c \in C : c.folder = f /\ c.uid = u => c.mail = m
Ref(m, f, u) == RefIn(copies, uidNext, m, f, u)

RequestOk(m, r) ==
    /\ Ref(m, r.folder, r.uid)
    /\ r.kind = "move" /\ r.state = "ok" => Ref(m, r.target, r.newUid)
    /\ r.kind = "deleted" => deleted[m]

\* What the handler is about to flag is safe to flag: another undeleted copy
\* exists of every undeleted message it names.
StoreSafe ==
    \A c \in Named(Current.folder, Current.uid) :
        ~c.deleted => \E d \in copies :
            /\ d.mail = c.mail /\ ~d.deleted
            /\ d \notin Named(Current.folder, Current.uid)

HandlerOk ==
    srv # Idle =>
        /\ srv.idx \in DOMAIN req[srv.mail]
        /\ Current.state = "sent"
        /\ srv.pc = "copy" => Current.kind = "move"
        /\ srv.newUid # 0 => Ref(srv.mail, Current.target, srv.newUid)
        /\ srv.pc = "store" /\ Current.kind = "move" => StoreSafe

Fresh == \A c \in copies : c.uid < uidNext[c.folder]
Unique == \A c, d \in copies : c.folder = d.folder /\ c.uid = d.uid => c = d
ClientOk == \A m \in Mails : Ref(m, hfolder[m], uid[m])
RequestsOk == \A m \in Mails : \A i \in DOMAIN req[m] : RequestOk(m, req[m][i])

IInv ==
    /\ TypeOK
    /\ Fresh
    /\ Unique
    /\ ClientOk
    /\ RequestsOk
    /\ HandlerOk
    /\ NoMailLost

-----------------------------------------------------------------------------
(* How a step changes the requests *)

\* A request keeps what it asks for once it is sent.
LEMMA ForgetEffect ==
    ASSUME TypeOK, NEW m \in Mails, NEW i \in DOMAIN req[m], Forget(m, i)
    PROVE  /\ req' \in [Mails -> Seq(Requests)]
           /\ \A n \in Mails : DOMAIN req'[n] = DOMAIN req[n]
           /\ \A n \in Mails : \A j \in DOMAIN req[n] :
                req'[n][j] = IF n = m /\ j = i THEN [req[m][i] EXCEPT !.waiting = FALSE]
                             ELSE req[n][j]
<1> DEFINE e == [req[m][i] EXCEPT !.waiting = FALSE]
<1>1. req[m] \in Seq(Requests) /\ i \in 1 .. Len(req[m])
  BY LenProperties DEF TypeOK
<1>2. req[m][i] \in Requests
  BY <1>1, ElementOfSeq
<1>3. e \in Requests
  BY <1>2 DEF Requests
<1> HIDE DEF e
<1>4. /\ [req[m] EXCEPT ![i] = e] \in Seq(Requests)
      /\ Len([req[m] EXCEPT ![i] = e]) = Len(req[m])
      /\ \A j \in 1 .. Len(req[m]) : [req[m] EXCEPT ![i] = e][j] = IF j = i THEN e ELSE req[m][j]
  BY <1>1, <1>3, ExceptSeq
<1>5. req' = [req EXCEPT ![m] = [req[m] EXCEPT ![i] = e]]
  BY DEF Forget, e
<1>6. req' \in [Mails -> Seq(Requests)]
  BY <1>4, <1>5 DEF TypeOK
<1>7. req'[m] = [req[m] EXCEPT ![i] = e] /\ \A n \in Mails : n # m => req'[n] = req[n]
  BY <1>5 DEF TypeOK
<1>8. DOMAIN req'[m] = DOMAIN req[m]
  BY <1>7
<1>9. \A j \in DOMAIN req[m] : req'[m][j] = IF j = i THEN e ELSE req[m][j]
  BY <1>7
<1> QED
  BY <1>6, <1>7, <1>8, <1>9 DEF e

WithAnswer(r, state, newUid) == [r EXCEPT !.state = state, !.newUid = newUid]

LEMMA AnswerEffect ==
    ASSUME TypeOK, NEW m \in Mails, NEW i \in DOMAIN req[m],
           NEW state \in {"ok", "fail"}, NEW newUid \in Nat, Answer(m, i, state, newUid)
    PROVE  /\ req' \in [Mails -> Seq(Requests)]
           /\ \A n \in Mails : DOMAIN req'[n] = DOMAIN req[n]
           /\ \A n \in Mails : \A j \in DOMAIN req[n] :
                req'[n][j] = IF n = m /\ j = i
                             THEN WithAnswer(req[m][i], state, newUid)
                             ELSE req[n][j]
<1> DEFINE e == WithAnswer(req[m][i], state, newUid)
<1>1. req[m] \in Seq(Requests) /\ i \in 1 .. Len(req[m])
  BY LenProperties DEF TypeOK
<1>2. req[m][i] \in Requests
  BY <1>1, ElementOfSeq
<1>3. e \in Requests
  BY <1>2 DEF Requests, WithAnswer
<1>5. req' = [req EXCEPT ![m] = [req[m] EXCEPT ![i] = e]]
  BY <1>1, <1>2 DEF Answer, WithAnswer, TypeOK, Requests
<1> HIDE DEF e
<1>4. [req[m] EXCEPT ![i] = e] \in Seq(Requests)
  BY <1>1, <1>3, ExceptSeq
<1>6. req' \in [Mails -> Seq(Requests)]
  BY <1>4, <1>5 DEF TypeOK
<1>7. req'[m] = [req[m] EXCEPT ![i] = e] /\ \A n \in Mails : n # m => req'[n] = req[n]
  BY <1>5 DEF TypeOK
<1>8. DOMAIN req'[m] = DOMAIN req[m]
  BY <1>7
<1>9. \A j \in DOMAIN req[m] : req'[m][j] = IF j = i THEN e ELSE req[m][j]
  BY <1>7
<1> QED
  BY <1>6, <1>7, <1>8, <1>9 DEF e

\* Appending a request to the log of a mail.
LEMMA AppendEffect ==
    ASSUME NEW s \in Seq(Requests), NEW r \in Requests
    PROVE  /\ Append(s, r) \in Seq(Requests)
           /\ DOMAIN s \subseteq DOMAIN Append(s, r)
           /\ \A j \in DOMAIN s : Append(s, r)[j] = s[j]
           /\ \A j \in DOMAIN Append(s, r) \ DOMAIN s : Append(s, r)[j] = r
<1>1. /\ Append(s, r) \in Seq(Requests)
      /\ Len(Append(s, r)) = Len(s) + 1
      /\ \A j \in 1 .. Len(s) : Append(s, r)[j] = s[j]
      /\ Append(s, r)[Len(s) + 1] = r
  BY AppendProperties
<1>2. DOMAIN s = 1 .. Len(s) /\ DOMAIN Append(s, r) = 1 .. Len(Append(s, r)) /\ Len(s) \in Nat
  BY <1>1, LenProperties
<1> QED
  BY <1>1, <1>2

LEMMA NewRequestType ==
    ASSUME TypeOK, NEW m \in Mails, NEW kind \in {"move", "seen", "deleted"},
           NEW target \in ServerFolders
    PROVE  NewRequest(m, kind, target) \in Requests
BY DEF TypeOK, NewRequest, Requests

LEMMA SendEffect ==
    ASSUME TypeOK, NEW m \in Mails, NEW r \in Requests, Send(m, r)
    PROVE  /\ req' \in [Mails -> Seq(Requests)]
           /\ \A n \in Mails : DOMAIN req[n] \subseteq DOMAIN req'[n]
           /\ \A n \in Mails : \A j \in DOMAIN req[n] : req'[n][j] = req[n][j]
           /\ \A n \in Mails : \A j \in DOMAIN req'[n] \ DOMAIN req[n] : n = m /\ req'[n][j] = r
<1>1. req[m] \in Seq(Requests)
  BY DEF TypeOK
<1>2. req'[m] = Append(req[m], r) /\ \A n \in Mails : n # m => req'[n] = req[n]
  BY DEF Send, TypeOK
<1>3. /\ Append(req[m], r) \in Seq(Requests)
      /\ DOMAIN req[m] \subseteq DOMAIN Append(req[m], r)
      /\ \A j \in DOMAIN req[m] : Append(req[m], r)[j] = req[m][j]
      /\ \A j \in DOMAIN Append(req[m], r) \ DOMAIN req[m] : Append(req[m], r)[j] = r
  BY <1>1, AppendEffect
<1>4. req' \in [Mails -> Seq(Requests)]
  BY <1>3 DEF Send, TypeOK
<1> QED
  BY <1>2, <1>3, <1>4

-----------------------------------------------------------------------------
(* Type correctness *)

ServerTypeOK ==
    /\ srv \in {Idle} \union Running
    /\ copies \subseteq Copies
    /\ uidNext \in [ServerFolders -> Nat]

LEMMA MoveInClientType ==
    ASSUME TypeOK, NEW m \in Mails, NEW into \in Folders, MoveInClient(m, into)
    PROVE  folder' \in [Mails -> Folders] /\ tree' \in [Folders -> SUBSET Mails]
<1>1. \A S \in SUBSET Mails : TreeRemove(S, m) \in SUBSET Mails /\ TreeAdd(S, m) \in SUBSET Mails
  BY DEF TreeRemove, TreeAdd
<1>2. folder' \in [Mails -> Folders]
  BY DEF MoveInClient, TypeOK
<1>3. \A f \in Folders : tree'[f] \in SUBSET Mails
  BY <1>1 DEF MoveInClient, TypeOK
<1>4. tree' = [f \in Folders |-> tree'[f]]
  BY DEF MoveInClient
<1> QED
  BY <1>2, <1>3, <1>4

LEMMA AssocType == \A f \in Folders : AssocServerFolder(f) \in ServerFolders
BY DEF Folders, AssocServerFolder, ServerFolders, SPAM, INBOX

LEMMA MoveMailType ==
    ASSUME TypeOK, NEW m \in Mails, NEW into \in Folders, MoveMail(m, into)
    PROVE  /\ folder' \in [Mails -> Folders] /\ tree' \in [Folders -> SUBSET Mails]
           /\ prev' \in [Mails -> Folders]
           /\ req' \in [Mails -> Seq(Requests)]
<1>1. folder' \in [Mails -> Folders] /\ tree' \in [Folders -> SUBSET Mails]
  BY MoveInClientType DEF MoveMail
<1>2. prev' \in [Mails -> Folders]
  BY DEF MoveMail, TypeOK
<1>3. AssocServerFolder(into) \in ServerFolders
  BY AssocType
<1>4. CASE hfolder[m] = AssocServerFolder(into)
  BY <1>1, <1>2, <1>4 DEF MoveMail, TypeOK
<1>5. CASE hfolder[m] # AssocServerFolder(into)
  <2>1. Send(m, NewRequest(m, "move", AssocServerFolder(into)))
    BY <1>5 DEF MoveMail
  <2>2. req' \in [Mails -> Seq(Requests)]
    BY <2>1, <1>3, NewRequestType, SendEffect
  <2> QED
    BY <1>1, <1>2, <2>2
<1> QED
  BY <1>4, <1>5

\* Emptying the Trash appends at most one request to every log.
LEMMA EmptyTrashEffect ==
    ASSUME TypeOK, EmptyTrash
    PROVE  /\ req' \in [Mails -> Seq(Requests)]
           /\ \A n \in Mails : DOMAIN req[n] \subseteq DOMAIN req'[n]
           /\ \A n \in Mails : \A j \in DOMAIN req[n] : req'[n][j] = req[n][j]
           /\ \A n \in Mails : \A j \in DOMAIN req'[n] \ DOMAIN req[n] :
                deleted'[n] /\ req'[n][j] = NewRequest(n, "deleted", hfolder[n])
<1>1. \A n \in Mails : req'[n] = req[n]
                    \/ (deleted'[n] /\ req'[n] = Append(req[n], NewRequest(n, "deleted", hfolder[n])))
  BY DEF EmptyTrash
<1>2. ASSUME NEW n \in Mails
      PROVE  LET r == NewRequest(n, "deleted", hfolder[n]) IN
             /\ req[n] \in Seq(Requests)
             /\ Append(req[n], r) \in Seq(Requests)
             /\ DOMAIN req[n] \subseteq DOMAIN Append(req[n], r)
             /\ \A j \in DOMAIN req[n] : Append(req[n], r)[j] = req[n][j]
             /\ \A j \in DOMAIN Append(req[n], r) \ DOMAIN req[n] : Append(req[n], r)[j] = r
  <2>1. req[n] \in Seq(Requests) /\ hfolder[n] \in ServerFolders
    BY DEF TypeOK
  <2>2. NewRequest(n, "deleted", hfolder[n]) \in Requests
    BY <2>1, NewRequestType
  <2> QED
    BY <2>1, <2>2, AppendEffect
<1>3. req' \in [Mails -> Seq(Requests)]
  <2>1. \A n \in Mails : req'[n] \in Seq(Requests)
    BY <1>1, <1>2
  <2>2. DOMAIN req' = Mails /\ req' = [n \in Mails |-> req'[n]]
    BY DEF EmptyTrash
  <2> QED
    BY <2>1, <2>2
<1>4. ASSUME NEW n \in Mails
      PROVE  /\ DOMAIN req[n] \subseteq DOMAIN req'[n]
             /\ \A j \in DOMAIN req[n] : req'[n][j] = req[n][j]
             /\ \A j \in DOMAIN req'[n] \ DOMAIN req[n] :
                  deleted'[n] /\ req'[n][j] = NewRequest(n, "deleted", hfolder[n])
  <2>1. CASE req'[n] = req[n]
    BY <2>1
  <2>2. CASE deleted'[n] /\ req'[n] = Append(req[n], NewRequest(n, "deleted", hfolder[n]))
    BY <1>2, <2>2
  <2> QED
    BY <1>1, <2>1, <2>2
<1> QED
  BY <1>3, <1>4

LEMMA ClientType ==
    ASSUME TypeOK, NEW m \in Mails, UserStep(m)
    PROVE  TypeOK'
<1> USE DEF TypeOK
<1> TRASH \in Folders
  BY DEF Folders, ServerFolders
<1>1. CASE Delete(m)
  <2>1. /\ folder' \in [Mails -> Folders] /\ tree' \in [Folders -> SUBSET Mails]
        /\ prev' \in [Mails -> Folders] /\ req' \in [Mails -> Seq(Requests)]
    BY <1>1, MoveMailType DEF Delete
  <2> QED
    BY <1>1, <2>1 DEF Delete, MoveMail, server
<1>2. CASE Restore(m)
  <2>1. /\ folder' \in [Mails -> Folders] /\ tree' \in [Folders -> SUBSET Mails]
        /\ prev' \in [Mails -> Folders] /\ req' \in [Mails -> Seq(Requests)]
    BY <1>2, MoveMailType DEF Restore
  <2> QED
    BY <1>2, <2>1 DEF Restore, MoveMail, server
<1>3. CASE DeleteForever(m)
  <2>1. req' \in [Mails -> Seq(Requests)]
    BY <1>3, NewRequestType, SendEffect DEF DeleteForever
  <2> QED
    BY <1>3, <2>1 DEF DeleteForever, server
<1>4. CASE ContentShown(m)
  <2>1. req' \in [Mails -> Seq(Requests)]
    BY <1>4, NewRequestType, SendEffect DEF ContentShown
  <2> QED
    BY <1>4, <2>1 DEF ContentShown, server
<1> QED
  BY <1>1, <1>2, <1>3, <1>4 DEF UserStep

LEMMA ReplyType ==
    ASSUME TypeOK, NEW m \in Mails, NEW i \in DOMAIN req[m],
           Reply(m, i) \/ ReplyDropped(m, i)
    PROVE  TypeOK'
<1>1. Forget(m, i) /\ UNCHANGED <<seen, deleted, server>>
  BY DEF Reply, MoveReplyOk, MoveReplyFail, FlagsReply, ReplyDropped, client
<1>2. req' \in [Mails -> Seq(Requests)]
  BY <1>1, ForgetEffect
<1>3. req[m][i] \in Requests
  BY ElementOfSeq, LenProperties DEF TypeOK
<1>4. CASE MoveReplyOk(m, i)
  <2>1. hfolder' \in [Mails -> ServerFolders] /\ uid' \in [Mails -> Nat]
    BY <1>3, <1>4 DEF MoveReplyOk, TypeOK, Requests
  <2> QED
    BY <1>1, <1>2, <1>4, <2>1 DEF MoveReplyOk, TypeOK, server
<1>5. CASE MoveReplyFail(m, i)
  <2>1. prev[m] \in Folders
    BY DEF TypeOK
  <2>2. folder' \in [Mails -> Folders] /\ tree' \in [Folders -> SUBSET Mails]
    BY <1>5, <2>1, MoveInClientType DEF MoveReplyFail, TypeOK
  <2>3. prev' \in [Mails -> Folders]
    BY <1>3, <1>5 DEF MoveReplyFail, TypeOK, Requests
  <2> QED
    BY <1>1, <1>2, <1>5, <2>2, <2>3 DEF MoveReplyFail, TypeOK, server
<1>6. CASE FlagsReply(m, i) \/ ReplyDropped(m, i)
  BY <1>1, <1>2, <1>6 DEF FlagsReply, ReplyDropped, TypeOK, client, server
<1> QED
  BY <1>4, <1>5, <1>6 DEF Reply

LEMMA IdleNotRunning == srv \in Running => srv # Idle
BY DEF Running, Idle

\* A handler that runs serves a request the log holds.
LEMMA CurrentType ==
    ASSUME TypeOK, HandlerOk, srv.pc # "idle"
    PROVE  /\ srv \in Running /\ srv.mail \in Mails /\ srv.newUid \in Nat
           /\ srv.idx \in DOMAIN req[srv.mail]
           /\ Current \in Requests /\ Current.state = "sent"
<1>1. srv \in Running
  BY DEF TypeOK, Idle
<1>2. srv.mail \in Mails /\ srv.newUid \in Nat /\ srv.idx \in DOMAIN req[srv.mail]
      /\ Current.state = "sent"
  BY <1>1, IdleNotRunning DEF HandlerOk, Running
<1>3. req[srv.mail] \in Seq(Requests)
  BY <1>2 DEF TypeOK
<1>4. Current \in Requests
  BY <1>2, <1>3, ElementOfSeq, LenProperties DEF Current
<1> QED
  BY <1>1, <1>2, <1>4

LEMMA HandlerType ==
    ASSUME TypeOK, HandlerOk, HandlerStep
    PROVE  TypeOK'
<1>1. srv.pc # "idle"
  BY DEF HandlerStep, SelectFolder, CopyMail, CopyFails, StoreFlags, StoreFails
<1>2. /\ srv \in Running /\ srv.mail \in Mails /\ srv.newUid \in Nat
      /\ srv.idx \in DOMAIN req[srv.mail] /\ Current \in Requests
  BY <1>1, CurrentType
<1>3. ASSUME NEW state \in {"ok", "fail"}, NEW newUid \in Nat, Return(state, newUid)
      PROVE  req' \in [Mails -> Seq(Requests)] /\ srv' \in {Idle} \union Running
  <2>1. Answer(srv.mail, srv.idx, state, newUid) /\ srv' = Idle
    BY <1>3 DEF Return
  <2> QED
    BY <1>2, <2>1, AnswerEffect
<1>4. UNCHANGED client
  BY DEF HandlerStep, SelectFolder, CopyMail, CopyFails, StoreFlags, StoreFails
<1>5. CASE SelectFolder
  <2>1. CASE Return("fail", 0)
    BY <1>3, <1>4, <1>5, <2>1 DEF SelectFolder, TypeOK, client
  <2>2. CASE ~Return("fail", 0)
    <3>1. srv' \in Running
      BY <1>2, <1>5, <2>2 DEF SelectFolder, Running
    <3> QED
      BY <1>4, <1>5, <2>2, <3>1 DEF SelectFolder, TypeOK, client
  <2> QED
    BY <2>1, <2>2
<1>6. CASE CopyMail
  <2>1. Current.target \in ServerFolders
    BY <1>2 DEF Requests
  <2>2. uidNext[Current.target] \in Nat
    BY <2>1 DEF TypeOK
  <2>3. srv' \in Running
    <3>1. CASE srv' = [srv EXCEPT !.pc = "store"]
      BY <1>2, <3>1 DEF Running
    <3>2. CASE srv' = [pc |-> "store", mail |-> srv.mail, idx |-> srv.idx,
                       newUid |-> IF UidPlus THEN uidNext[Current.target] ELSE 0]
      BY <1>2, <2>2, <3>2 DEF Running
    <3> QED
      BY <1>6, <3>1, <3>2 DEF CopyMail
  <2>4. copies' \subseteq Copies
    <3>1. \A c \in Copies : CopyOf(c, Current.target, uidNext[Current.target]) \in Copies
      BY <2>1, <2>2 DEF CopyOf, Copies
    <3>2. Named(Current.folder, Current.uid) \subseteq Copies
      BY DEF Named, TypeOK
    <3> QED
      BY <1>6, <3>1, <3>2 DEF CopyMail, TypeOK
  <2>5. uidNext' \in [ServerFolders -> Nat]
    BY <1>6, <2>1, <2>2 DEF CopyMail, TypeOK
  <2> QED
    BY <1>4, <1>6, <2>3, <2>4, <2>5 DEF CopyMail, TypeOK, client
<1>7. CASE CopyFails \/ StoreFails
  BY <1>3, <1>4, <1>7 DEF CopyFails, StoreFails, TypeOK, client
<1>8. CASE StoreFlags
  <2>1. req' \in [Mails -> Seq(Requests)] /\ srv' \in {Idle} \union Running
    BY <1>2, <1>3, <1>8 DEF StoreFlags
  <2>2. \A c \in Copies : WithFlag(c) \in Copies
    BY DEF WithFlag, Copies
  <2>3. copies' \subseteq Copies
    BY <1>8, <2>2 DEF StoreFlags, TypeOK
  <2> QED
    BY <1>4, <1>8, <2>1, <2>3 DEF StoreFlags, TypeOK, client
<1> QED
  BY <1>5, <1>6, <1>7, <1>8 DEF HandlerStep

LEMMA ArrivalType ==
    ASSUME TypeOK, NEW m \in Mails, NEW i \in DOMAIN req[m], Reject(m, i) \/ Lock(m, i)
    PROVE  TypeOK'
<1>1. CASE Reject(m, i)
  <2>1. req' \in [Mails -> Seq(Requests)]
    BY <1>1, AnswerEffect DEF Reject
  <2> QED
    BY <1>1, <2>1 DEF Reject, TypeOK, client, server
<1>2. CASE Lock(m, i)
  <2>1. req[m] \in Seq(Requests)
    BY DEF TypeOK
  <2>2. i \in Nat
    BY <2>1, LenProperties
  <2>3. srv' \in Running
    BY <1>2, <2>2 DEF Lock, Running
  <2> QED
    BY <1>2, <2>3 DEF Lock, TypeOK, client
<1> QED
  BY <1>1, <1>2

\* Every step keeps the types; a handler's steps need to know that the
\* request it serves exists.
LEMMA TypeStep ==
    ASSUME TypeOK, HandlerOk, [Next]_vars
    PROVE  TypeOK'
<1>1. CASE EmptyTrash
  <2>1. req' \in [Mails -> Seq(Requests)]
    BY <1>1, EmptyTrashEffect
  <2>2. deleted' \in [Mails -> BOOLEAN]
    BY <1>1 DEF EmptyTrash, TypeOK
  <2> QED
    BY <1>1, <2>1, <2>2 DEF EmptyTrash, TypeOK, server
<1>2. CASE HandlerStep
  BY <1>2, HandlerType
<1>3. ASSUME NEW f \in ServerFolders, Expunge(f) PROVE TypeOK'
  BY <1>3 DEF Expunge, TypeOK, client
<1>4. ASSUME NEW m \in Mails, UserStep(m) PROVE TypeOK'
  BY <1>4, ClientType
<1>5. ASSUME NEW m \in Mails, NEW i \in DOMAIN req[m],
             Reply(m, i) \/ ReplyDropped(m, i) \/ Reject(m, i) \/ Lock(m, i)
      PROVE  TypeOK'
  BY <1>5, ReplyType, ArrivalType
<1>6. CASE UNCHANGED vars
  BY <1>6 DEF TypeOK, vars, client, server
<1> QED
  BY <1>1, <1>2, <1>3, <1>4, <1>5, <1>6 DEF Next

-----------------------------------------------------------------------------
(* The inductive invariant: steps of the client *)

LEMMA RequestType == ASSUME TypeOK, NEW m \in Mails, NEW i \in DOMAIN req[m]
                     PROVE  req[m][i] \in Requests
BY ElementOfSeq, LenProperties DEF TypeOK

\* A step of the client that leaves sent requests as they are, sends only
\* requests that name the mail as the item does, and keeps the item's
\* reference sound, keeps the invariant.
LEMMA ClientFrame ==
    ASSUME IInv, TypeOK', UNCHANGED server,
           \A n \in Mails : deleted[n] => deleted'[n],
           \A n \in Mails : DOMAIN req[n] \subseteq DOMAIN req'[n],
           \A n \in Mails : \A j \in DOMAIN req[n] :
              /\ req'[n][j].kind = req[n][j].kind /\ req'[n][j].folder = req[n][j].folder
              /\ req'[n][j].uid = req[n][j].uid /\ req'[n][j].target = req[n][j].target
              /\ req'[n][j].state = req[n][j].state /\ req'[n][j].newUid = req[n][j].newUid,
           \A n \in Mails : \A j \in DOMAIN req'[n] \ DOMAIN req[n] :
              /\ req'[n][j].folder = hfolder[n] /\ req'[n][j].uid = uid[n]
              /\ req'[n][j].state = "sent"
              /\ req'[n][j].kind = "deleted" => deleted'[n],
           \A n \in Mails : Ref(n, hfolder'[n], uid'[n])
    PROVE  IInv'
<1>1. UNCHANGED <<srv, copies, uidNext>>
  BY DEF server
<1>2. Fresh' /\ Unique'
  BY <1>1 DEF IInv, Fresh, Unique
<1>3. ClientOk'
  BY <1>1 DEF ClientOk, Ref
<1>4. RequestsOk'
  <2>1. ASSUME NEW n \in Mails, NEW j \in DOMAIN req[n] PROVE RequestOk(n, req[n][j])'
    <3>1. RequestOk(n, req[n][j])
      BY <2>1 DEF IInv, RequestsOk
    <3> QED
      BY <1>1, <2>1, <3>1 DEF RequestOk, Ref
  <2>2. ASSUME NEW n \in Mails, NEW j \in DOMAIN req'[n] \ DOMAIN req[n]
        PROVE  RequestOk(n, req[n][j])'
    <3>1. Ref(n, hfolder[n], uid[n])
      BY DEF IInv, ClientOk
    <3> QED
      BY <1>1, <2>2, <3>1 DEF RequestOk, Ref
  <2> QED
    BY <2>1, <2>2 DEF RequestsOk
<1>5. HandlerOk'
  <2>1. CASE srv = Idle
    BY <1>1, <2>1 DEF HandlerOk
  <2>2. CASE srv # Idle
    <3>1. srv \in Running /\ srv.mail \in Mails
      BY <2>2 DEF IInv, TypeOK, Running
    <3>2. srv.idx \in DOMAIN req[srv.mail]
      BY <2>2 DEF IInv, HandlerOk
    <3>3. /\ Current'.kind = Current.kind /\ Current'.folder = Current.folder
          /\ Current'.uid = Current.uid /\ Current'.target = Current.target
          /\ Current'.state = Current.state
      BY <1>1, <3>1, <3>2 DEF Current
    <3>4. srv.idx \in DOMAIN req'[srv.mail]
      BY <3>1, <3>2
    <3>5. StoreSafe => StoreSafe'
      BY <1>1, <3>3 DEF StoreSafe, Named
    <3> QED
      BY <1>1, <2>2, <3>3, <3>4, <3>5 DEF IInv, HandlerOk, Ref
  <2> QED
    BY <2>1, <2>2
<1>6. NoMailLost'
  BY <1>1 DEF IInv, NoMailLost, Live
<1> QED
  BY <1>2, <1>3, <1>4, <1>5, <1>6 DEF IInv

\* The items of a step that sends one request, or none.
LEMMA SendFrame ==
    ASSUME IInv, TypeOK', UNCHANGED <<hfolder, uid, server>>,
           NEW m \in Mails, NEW kind \in {"move", "seen", "deleted"}, NEW target \in ServerFolders,
           UNCHANGED req \/ Send(m, NewRequest(m, kind, target)),
           \A n \in Mails : deleted[n] => deleted'[n],
           kind = "deleted" => deleted'[m]
    PROVE  IInv'
<1>1. \A n \in Mails : Ref(n, hfolder'[n], uid'[n])
  BY DEF IInv, ClientOk
<1>2. CASE UNCHANGED req
  BY <1>1, <1>2, ClientFrame
<1>3. CASE Send(m, NewRequest(m, kind, target))
  <2> DEFINE r == NewRequest(m, kind, target)
  <2>1. r \in Requests
    BY NewRequestType DEF IInv
  <2>2. r.folder = hfolder[m] /\ r.uid = uid[m] /\ r.state = "sent" /\ r.kind = kind
    BY DEF NewRequest
  <2> HIDE DEF r
  <2>3. /\ \A n \in Mails : DOMAIN req[n] \subseteq DOMAIN req'[n]
        /\ \A n \in Mails : \A j \in DOMAIN req[n] : req'[n][j] = req[n][j]
        /\ \A n \in Mails : \A j \in DOMAIN req'[n] \ DOMAIN req[n] : n = m /\ req'[n][j] = r
    BY <1>3, <2>1, SendEffect DEF IInv, r
  <2> QED
    BY <1>1, <2>2, <2>3, ClientFrame
<1> QED
  BY <1>2, <1>3

LEMMA UserInv ==
    ASSUME IInv, TypeOK', NEW m \in Mails, UserStep(m)
    PROVE  IInv'
<1>1. ASSUME NEW into \in Folders, MoveMail(m, into), UNCHANGED server PROVE IInv'
  <2>1. AssocServerFolder(into) \in ServerFolders
    BY AssocType
  <2>2. UNCHANGED req \/ Send(m, NewRequest(m, "move", AssocServerFolder(into)))
    BY <1>1 DEF MoveMail
  <2>3. UNCHANGED <<hfolder, uid, server>> /\ \A n \in Mails : deleted[n] => deleted'[n]
    BY <1>1 DEF MoveMail
  <2> QED
    BY <2>1, <2>2, <2>3, SendFrame
<1>2. CASE Delete(m)
  BY <1>1, <1>2 DEF Delete, Folders, ServerFolders
<1>3. CASE Restore(m)
  BY <1>1, <1>3 DEF Restore, IInv, TypeOK
<1>4. hfolder[m] \in ServerFolders
  BY DEF IInv, TypeOK
<1>5. CASE DeleteForever(m)
  <2>1. deleted'[m] /\ \A n \in Mails : deleted[n] => deleted'[n]
    BY <1>5 DEF DeleteForever, IInv, TypeOK
  <2> QED
    BY <1>4, <1>5, <2>1, SendFrame DEF DeleteForever
<1>6. CASE ContentShown(m)
  BY <1>4, <1>6, SendFrame DEF ContentShown
<1> QED
  BY <1>2, <1>3, <1>5, <1>6 DEF UserStep

LEMMA EmptyTrashInv ==
    ASSUME IInv, TypeOK', EmptyTrash
    PROVE  IInv'
<1>1. \A n \in Mails : deleted[n] => deleted'[n]
  BY DEF EmptyTrash
<1>2. /\ \A n \in Mails : DOMAIN req[n] \subseteq DOMAIN req'[n]
      /\ \A n \in Mails : \A j \in DOMAIN req[n] : req'[n][j] = req[n][j]
      /\ \A n \in Mails : \A j \in DOMAIN req'[n] \ DOMAIN req[n] :
           deleted'[n] /\ req'[n][j] = NewRequest(n, "deleted", hfolder[n])
  BY EmptyTrashEffect DEF IInv
<1>3. \A n \in Mails : LET r == NewRequest(n, "deleted", hfolder[n]) IN
         r.folder = hfolder[n] /\ r.uid = uid[n] /\ r.state = "sent"
  BY DEF NewRequest
<1>4. UNCHANGED <<hfolder, uid, server>>
  BY DEF EmptyTrash
<1>5. \A n \in Mails : Ref(n, hfolder'[n], uid'[n])
  BY <1>4 DEF IInv, ClientOk
<1> QED
  BY <1>1, <1>2, <1>3, <1>4, <1>5, ClientFrame

LEMMA ReplyInv ==
    ASSUME IInv, TypeOK', NEW m \in Mails, NEW i \in DOMAIN req[m],
           Reply(m, i) \/ ReplyDropped(m, i)
    PROVE  IInv'
<1>1. Forget(m, i) /\ UNCHANGED <<deleted, server>>
  BY DEF Reply, MoveReplyOk, MoveReplyFail, FlagsReply, ReplyDropped, client
<1>2. req[m][i] \in Requests
  BY RequestType DEF IInv
<1>3. /\ \A n \in Mails : DOMAIN req'[n] = DOMAIN req[n]
      /\ \A n \in Mails : \A j \in DOMAIN req[n] :
           req'[n][j] = IF n = m /\ j = i THEN [req[m][i] EXCEPT !.waiting = FALSE]
                        ELSE req[n][j]
  BY <1>1, ForgetEffect DEF IInv
<1>4. \A n \in Mails : \A j \in DOMAIN req[n] :
         /\ req'[n][j].kind = req[n][j].kind /\ req'[n][j].folder = req[n][j].folder
         /\ req'[n][j].uid = req[n][j].uid /\ req'[n][j].target = req[n][j].target
         /\ req'[n][j].state = req[n][j].state /\ req'[n][j].newUid = req[n][j].newUid
  BY <1>2, <1>3 DEF Requests
<1>5. \A n \in Mails : Ref(n, hfolder'[n], uid'[n])
  <2>1. CASE MoveReplyOk(m, i)
    <3>1. RequestOk(m, req[m][i])
      BY DEF IInv, RequestsOk
    <3>2. hfolder'[m] = req[m][i].target /\ uid'[m] = req[m][i].newUid
      BY <2>1 DEF MoveReplyOk, IInv, TypeOK
    <3>3. \A n \in Mails : n # m => hfolder'[n] = hfolder[n] /\ uid'[n] = uid[n]
      BY <2>1 DEF MoveReplyOk, IInv, TypeOK
    <3>4. Ref(m, hfolder'[m], uid'[m])
      BY <2>1, <3>1, <3>2 DEF MoveReplyOk, RequestOk
    <3> QED
      BY <3>3, <3>4 DEF IInv, ClientOk
  <2>2. CASE UNCHANGED <<hfolder, uid>>
    BY <2>2 DEF IInv, ClientOk
  <2> QED
    BY <2>1, <2>2 DEF Reply, MoveReplyFail, FlagsReply, ReplyDropped, client
<1> QED
  BY <1>1, <1>3, <1>4, <1>5, ClientFrame

-----------------------------------------------------------------------------
(* The inductive invariant: steps of the server *)

\* References stay sound if every message was there under its name, or has a
\* name that had not been given out.
LEMMA RefKept ==
    ASSUME TypeOK, TypeOK',
           \A g \in ServerFolders : uidNext[g] <= uidNext'[g],
           \A c \in copies' :
              \/ c.uid >= uidNext[c.folder]
              \/ \E d \in copies : d.folder = c.folder /\ d.uid = c.uid /\ d.mail = c.mail
    PROVE  \A m \in Mails, f \in ServerFolders, u \in Nat :
              Ref(m, f, u) => RefIn(copies', uidNext', m, f, u)
<1> SUFFICES ASSUME NEW m \in Mails, NEW f \in ServerFolders, NEW u \in Nat, Ref(m, f, u)
             PROVE  RefIn(copies', uidNext', m, f, u)
  OBVIOUS
<1>1. uidNext[f] \in Nat /\ uidNext'[f] \in Nat
  BY DEF TypeOK
<1>2. u < uidNext'[f]
  BY <1>1 DEF Ref, RefIn
<1>3. ASSUME NEW c \in copies', c.folder = f, c.uid = u PROVE c.mail = m
  <2>1. ~(c.uid >= uidNext[c.folder])
    BY <1>1, <1>3 DEF Ref, RefIn
  <2>2. PICK d \in copies : d.folder = c.folder /\ d.uid = c.uid /\ d.mail = c.mail
    BY <2>1
  <2> QED
    BY <1>3, <2>2 DEF Ref, RefIn
<1> QED
  BY <1>2, <1>3 DEF RefIn

\* What the server's steps have in common: the client's items and what its
\* requests ask for are unchanged, and a move that is answered with a new UID
\* is answered with one that is sound.
LEMMA ServerFrame ==
    ASSUME IInv, TypeOK', UNCHANGED client,
           \A g \in ServerFolders : uidNext[g] <= uidNext'[g],
           \A c \in copies' :
              \/ c.uid >= uidNext[c.folder]
              \/ \E d \in copies : d.folder = c.folder /\ d.uid = c.uid /\ d.mail = c.mail,
           \A n \in Mails : DOMAIN req'[n] = DOMAIN req[n],
           \A n \in Mails : \A j \in DOMAIN req[n] :
              /\ req'[n][j].kind = req[n][j].kind /\ req'[n][j].folder = req[n][j].folder
              /\ req'[n][j].uid = req[n][j].uid /\ req'[n][j].target = req[n][j].target
              /\ req'[n][j].kind = "move" /\ req'[n][j].state = "ok" =>
                   Ref(n, req[n][j].target, req'[n][j].newUid)
    PROVE  ClientOk' /\ RequestsOk'
<1>1. \A m \in Mails, f \in ServerFolders, u \in Nat :
         Ref(m, f, u) => RefIn(copies', uidNext', m, f, u)
  BY RefKept DEF IInv
<1>2. ClientOk'
  BY <1>1 DEF IInv, ClientOk, TypeOK, client, Ref
<1>3. ASSUME NEW n \in Mails, NEW j \in DOMAIN req'[n] PROVE RequestOk(n, req[n][j])'
  <2>1. j \in DOMAIN req[n] /\ req[n][j] \in Requests
    BY <1>3, RequestType DEF IInv
  <2>2. RequestOk(n, req[n][j])
    BY <1>3, <2>1 DEF IInv, RequestsOk
  <2>3. req'[n] \in Seq(Requests)
    BY DEF TypeOK
  <2>4. req'[n][j] \in Requests
    BY <1>3, <2>3, ElementOfSeq, LenProperties
  <2>5. RefIn(copies', uidNext', n, req'[n][j].folder, req'[n][j].uid)
    BY <1>1, <2>1, <2>2 DEF RequestOk, Requests
  <2>6. req'[n][j].kind = "move" /\ req'[n][j].state = "ok" =>
           RefIn(copies', uidNext', n, req'[n][j].target, req'[n][j].newUid)
    BY <1>1, <2>1, <2>4 DEF Requests
  <2>7. req'[n][j].kind = "deleted" => deleted'[n]
    BY <2>1, <2>2 DEF RequestOk, client
  <2> QED
    BY <2>5, <2>6, <2>7 DEF RequestOk, Ref
<1> QED
  BY <1>2, <1>3 DEF RequestsOk

\* Answering a request: what it asks for stays, and the handler is done.
LEMMA AnswerFrame ==
    ASSUME IInv, NEW m \in Mails, NEW i \in DOMAIN req[m],
           NEW state \in {"ok", "fail"}, NEW newUid \in Nat, Answer(m, i, state, newUid),
           req[m][i].kind = "move" /\ state = "ok" => Ref(m, req[m][i].target, newUid)
    PROVE  /\ \A n \in Mails : DOMAIN req'[n] = DOMAIN req[n]
           /\ \A n \in Mails : \A j \in DOMAIN req[n] :
              /\ req'[n][j].kind = req[n][j].kind /\ req'[n][j].folder = req[n][j].folder
              /\ req'[n][j].uid = req[n][j].uid /\ req'[n][j].target = req[n][j].target
              /\ req'[n][j].kind = "move" /\ req'[n][j].state = "ok" =>
                   Ref(n, req[n][j].target, req'[n][j].newUid)
<1>1. /\ \A n \in Mails : DOMAIN req'[n] = DOMAIN req[n]
      /\ \A n \in Mails : \A j \in DOMAIN req[n] :
           req'[n][j] = IF n = m /\ j = i
                        THEN WithAnswer(req[m][i], state, newUid)
                        ELSE req[n][j]
  BY AnswerEffect DEF IInv
<1>2. \A n \in Mails : \A j \in DOMAIN req[n] :
         req[n][j].kind = "move" /\ req[n][j].state = "ok" =>
            Ref(n, req[n][j].target, req[n][j].newUid)
  BY DEF IInv, RequestsOk, RequestOk
<1>3. req[m][i] \in Requests
  BY RequestType DEF IInv
<1> DEFINE e == WithAnswer(req[m][i], state, newUid)
<1>4. /\ e.kind = req[m][i].kind /\ e.folder = req[m][i].folder /\ e.uid = req[m][i].uid
      /\ e.target = req[m][i].target /\ e.state = state /\ e.newUid = newUid
  BY <1>3 DEF Requests, WithAnswer
<1> HIDE DEF e
<1>5. \A n \in Mails : \A j \in DOMAIN req[n] : req'[n][j] = IF n = m /\ j = i THEN e ELSE req[n][j]
  BY <1>1 DEF e
<1> QED
  BY <1>1, <1>2, <1>4, <1>5

\* Steps that leave the mailbox alone only have to keep the handler's part.
LEMMA QuietFrame ==
    ASSUME IInv, TypeOK', UNCHANGED <<client, copies, uidNext>>, HandlerOk',
           \A n \in Mails : DOMAIN req'[n] = DOMAIN req[n],
           \A n \in Mails : \A j \in DOMAIN req[n] :
              /\ req'[n][j].kind = req[n][j].kind /\ req'[n][j].folder = req[n][j].folder
              /\ req'[n][j].uid = req[n][j].uid /\ req'[n][j].target = req[n][j].target
              /\ req'[n][j].kind = "move" /\ req'[n][j].state = "ok" =>
                   Ref(n, req[n][j].target, req'[n][j].newUid)
    PROVE  IInv'
<1>1. \A g \in ServerFolders : uidNext[g] <= uidNext'[g]
  BY DEF IInv, TypeOK
<1>2. \A c \in copies' :
         \/ c.uid >= uidNext[c.folder]
         \/ \E d \in copies : d.folder = c.folder /\ d.uid = c.uid /\ d.mail = c.mail
  OBVIOUS
<1>3. ClientOk' /\ RequestsOk'
  BY <1>1, <1>2, ServerFrame
<1>4. Fresh' /\ Unique' /\ NoMailLost'
  BY DEF IInv, Fresh, Unique, NoMailLost, Live, client
<1> QED
  BY <1>3, <1>4 DEF IInv

LEMMA IdleOk == srv' = Idle => HandlerOk'
BY DEF HandlerOk

\* A handler that returns without having touched the mailbox.
LEMMA ReturnFrame ==
    ASSUME IInv, TypeOK', UNCHANGED <<client, copies, uidNext>>, srv.pc # "idle",
           Return("fail", 0)
    PROVE  IInv'
<1>1. srv.mail \in Mails /\ srv.idx \in DOMAIN req[srv.mail]
  BY CurrentType DEF IInv
<1>2. Answer(srv.mail, srv.idx, "fail", 0) /\ srv' = Idle
  BY DEF Return
<1>3. /\ \A n \in Mails : DOMAIN req'[n] = DOMAIN req[n]
      /\ \A n \in Mails : \A j \in DOMAIN req[n] :
         /\ req'[n][j].kind = req[n][j].kind /\ req'[n][j].folder = req[n][j].folder
         /\ req'[n][j].uid = req[n][j].uid /\ req'[n][j].target = req[n][j].target
         /\ req'[n][j].kind = "move" /\ req'[n][j].state = "ok" =>
              Ref(n, req[n][j].target, req'[n][j].newUid)
  BY <1>1, <1>2, AnswerFrame
<1> QED
  BY <1>2, <1>3, IdleOk, QuietFrame

LEMMA OldAnswersOk ==
    ASSUME IInv
    PROVE  \A n \in Mails : \A j \in DOMAIN req[n] :
              req[n][j].kind = "move" /\ req[n][j].state = "ok" =>
                 Ref(n, req[n][j].target, req[n][j].newUid)
BY DEF IInv, RequestsOk, RequestOk

LEMMA ArrivalInv ==
    ASSUME IInv, TypeOK', NEW m \in Mails, NEW i \in DOMAIN req[m], Reject(m, i) \/ Lock(m, i)
    PROVE  IInv'
<1>1. CASE Reject(m, i)
  <2>1. /\ \A n \in Mails : DOMAIN req'[n] = DOMAIN req[n]
        /\ \A n \in Mails : \A j \in DOMAIN req[n] :
           /\ req'[n][j].kind = req[n][j].kind /\ req'[n][j].folder = req[n][j].folder
           /\ req'[n][j].uid = req[n][j].uid /\ req'[n][j].target = req[n][j].target
           /\ req'[n][j].kind = "move" /\ req'[n][j].state = "ok" =>
                Ref(n, req[n][j].target, req'[n][j].newUid)
    BY <1>1, AnswerFrame DEF Reject
  <2>2. \A n \in Mails : \A j \in DOMAIN req[n] : <<n, j>> # <<m, i>> => req'[n][j] = req[n][j]
    <3>1. TypeOK
      BY DEF IInv
    <3>2. Answer(m, i, "fail", 0)
      BY <1>1 DEF Reject
    <3> QED
      BY <3>1, <3>2, AnswerEffect
  <2>3. HandlerOk'
    <3>1. UNCHANGED <<srv, copies, uidNext>>
      BY <1>1 DEF Reject, server
    <3>2. CASE srv = Idle
      BY <3>1, <3>2 DEF HandlerOk
    <3>3. CASE srv # Idle
      <4>1. srv.mail \in Mails /\ srv.idx \in DOMAIN req[srv.mail]
        BY <3>3 DEF IInv, TypeOK, HandlerOk, Running
      <4>2. <<srv.mail, srv.idx>> # <<m, i>>
        BY <1>1, <3>3 DEF Reject, Arrived
      <4>3. Current' = Current
        BY <2>2, <3>1, <4>1, <4>2 DEF Current
      <4>4. StoreSafe => StoreSafe'
        BY <3>1, <4>3 DEF StoreSafe, Named
      <4> QED
        BY <2>1, <3>1, <3>3, <4>1, <4>3, <4>4 DEF IInv, HandlerOk, Ref
    <3> QED
      BY <3>2, <3>3
  <2> QED
    BY <1>1, <2>1, <2>3, QuietFrame DEF Reject, server
<1>2. CASE Lock(m, i)
  <2>1. /\ srv'.pc = "select" /\ srv'.mail = m /\ srv'.idx = i /\ srv'.newUid = 0
        /\ UNCHANGED <<client, req, copies, uidNext>>
    BY <1>2 DEF Lock
  <2>2. Current' = req[m][i] /\ req[m][i].state = "sent"
    BY <1>2, <2>1 DEF Lock, Arrived, Current
  <2>3. HandlerOk'
    BY <2>1, <2>2 DEF HandlerOk
  <2> QED
    BY <2>1, <2>3, OldAnswersOk, QuietFrame
<1> QED
  BY <1>1, <1>2

LEMMA SelectInv ==
    ASSUME IInv, TypeOK', SelectFolder
    PROVE  IInv'
<1>1. srv.pc = "select" /\ UNCHANGED <<client, copies, uidNext>>
  BY DEF SelectFolder
<1>2. CASE Return("fail", 0)
  BY <1>1, <1>2, ReturnFrame
<1>3. CASE ~Return("fail", 0)
  <2>1. /\ srv' = [srv EXCEPT !.pc = IF Current.kind = "move" THEN "copy" ELSE "store"]
        /\ UNCHANGED req
    BY <1>3 DEF SelectFolder
  <2>2. srv \in Running /\ srv # Idle
    BY <1>1, IdleNotRunning DEF IInv, TypeOK, Idle
  <2>3. /\ srv'.mail = srv.mail /\ srv'.idx = srv.idx /\ srv'.newUid = srv.newUid
        /\ srv'.pc = IF Current.kind = "move" THEN "copy" ELSE "store"
    BY <2>1, <2>2 DEF Running
  <2>4. Current' = Current
    BY <2>1, <2>3 DEF Current
  <2>5. HandlerOk'
    BY <1>1, <2>1, <2>2, <2>3, <2>4 DEF IInv, HandlerOk, Ref
  <2> QED
    BY <1>1, <2>1, <2>5, OldAnswersOk, QuietFrame
<1> QED
  BY <1>2, <1>3

\* The copy: its name is new, and it is what makes flagging the original safe.
LEMMA CopyInv ==
    ASSUME IInv, TypeOK', CopyMail
    PROVE  IInv'
<1> DEFINE t == Current.target
           new == uidNext[t]
           originals == Named(Current.folder, Current.uid)
<1>1. srv.pc = "copy" /\ UNCHANGED <<client, req>>
  BY DEF CopyMail
<1>2. /\ srv \in Running /\ srv.mail \in Mails /\ srv.idx \in DOMAIN req[srv.mail]
      /\ Current \in Requests /\ Current.state = "sent"
  BY <1>1, CurrentType DEF IInv
<1>3. Current.kind = "move"
  BY <1>1, <1>2, IdleNotRunning DEF IInv, HandlerOk
<1>4. t \in ServerFolders /\ Current.folder \in ServerFolders /\ new \in Nat
  BY <1>2 DEF IInv, TypeOK, Requests
<1>5. srv'.pc = "store" /\ srv'.mail = srv.mail /\ srv'.idx = srv.idx
  BY <1>1, <1>2 DEF CopyMail, Running
<1>6. Current' = Current
  BY <1>1, <1>5 DEF Current
<1>7. RequestOk(srv.mail, Current)
  BY <1>2 DEF IInv, RequestsOk, Current
<1>8. \A c \in originals : c \in copies /\ c.mail = srv.mail
                           /\ c.folder = Current.folder /\ c.uid = Current.uid
  BY <1>7 DEF RequestOk, Ref, RefIn, Named
<1>9. CASE originals = {}
  <2>1. UNCHANGED <<copies, uidNext>> /\ srv' = [srv EXCEPT !.pc = "store"]
    BY <1>9 DEF CopyMail
  <2>2. srv'.newUid = srv.newUid
    BY <1>2, <2>1 DEF Running
  <2>3. StoreSafe'
    BY <1>6, <1>9, <2>1 DEF StoreSafe, Named
  <2>4. srv.newUid # 0 => Ref(srv.mail, Current.target, srv.newUid)
    BY <1>2, IdleNotRunning DEF IInv, HandlerOk
  <2>5. HandlerOk'
    BY <1>1, <1>2, <1>5, <1>6, <2>1, <2>2, <2>3, <2>4 DEF HandlerOk, Ref
  <2> QED
    BY <1>1, <2>1, <2>5, OldAnswersOk, QuietFrame
<1>10. CASE originals # {}
  <2>1. /\ copies' = copies \union {CopyOf(c, t, new) : c \in originals}
        /\ uidNext' = [uidNext EXCEPT ![t] = new + 1]
        /\ srv'.newUid = IF UidPlus THEN new ELSE 0
    BY <1>10 DEF CopyMail
  <2>2. uidNext'[t] = new + 1 /\ \A g \in ServerFolders : uidNext[g] <= uidNext'[g]
    BY <1>4, <2>1 DEF IInv, TypeOK
  <2>3. \A c \in originals : LET k == CopyOf(c, t, new) IN
           /\ k.folder = t /\ k.uid = new /\ k.mail = srv.mail /\ k.deleted = c.deleted
    BY <1>8 DEF CopyOf
  <2>4. \A c \in copies : c.uid < uidNext[c.folder] /\ c.folder \in ServerFolders
                          /\ c.uid \in Nat
    BY DEF IInv, Fresh, TypeOK, Copies
  <2>5. \A c \in copies' : \/ c \in copies
                           \/ \E d \in originals : c = CopyOf(d, t, new)
    BY <2>1
  <2>6. \A c \in copies' : \/ c \in copies
                           \/ c.folder = t /\ c.uid = new /\ c.mail = srv.mail
    BY <2>3, <2>5
  <2>7. Fresh'
    <3> SUFFICES ASSUME NEW c \in copies' PROVE c.uid < uidNext'[c.folder]
      BY DEF Fresh
    <3>1. CASE c \in copies
      <4>1. uidNext[c.folder] \in Nat /\ uidNext'[c.folder] \in Nat
        BY <2>4, <3>1 DEF IInv, TypeOK
      <4> QED
        BY <2>2, <2>4, <3>1, <4>1
    <3>2. CASE c.folder = t /\ c.uid = new
      BY <1>4, <2>2, <3>2
    <3> QED
      BY <2>6, <3>1, <3>2
  <2>8. \A d, e \in originals : d = e
    BY <1>8 DEF IInv, Unique
  <2>9. Unique'
    <3> SUFFICES ASSUME NEW c \in copies', NEW d \in copies', c.folder = d.folder, c.uid = d.uid
                 PROVE  c = d
      BY DEF Unique
    <3>1. CASE c \in copies /\ d \in copies
      BY <3>1 DEF IInv, Unique
    <3>2. CASE c \notin copies /\ d \notin copies
      BY <2>5, <2>8, <3>2
    <3>3. \A e \in copies : ~(e.folder = t /\ e.uid = new)
      BY <1>4, <2>4
    <3>4. CASE c \in copies /\ d \notin copies
      BY <2>6, <3>3, <3>4
    <3>5. CASE c \notin copies /\ d \in copies
      BY <2>6, <3>3, <3>5
    <3> QED
      BY <3>1, <3>2, <3>4, <3>5
  <2>10. \A c \in copies' :
            \/ c.uid >= uidNext[c.folder]
            \/ \E d \in copies : d.folder = c.folder /\ d.uid = c.uid /\ d.mail = c.mail
    BY <1>4, <2>6
  <2>11. ClientOk' /\ RequestsOk'
    BY <1>1, <2>2, <2>10, OldAnswersOk, ServerFrame
  <2>12. RefIn(copies', uidNext', srv.mail, t, new)
    BY <1>4, <2>2, <2>4, <2>6 DEF RefIn
  <2>13. StoreSafe'
    <3> SUFFICES ASSUME NEW c \in Named(Current.folder, Current.uid)', ~c.deleted
                 PROVE  \E d \in copies' : /\ d.mail = c.mail /\ ~d.deleted
                                           /\ d \notin Named(Current.folder, Current.uid)'
      BY <1>6 DEF StoreSafe
    <3>1. c \in copies' /\ c.folder = Current.folder /\ c.uid = Current.uid
      BY <1>6 DEF Named
    <3>2. Current.uid < uidNext[Current.folder] /\ Current.uid \in Nat
      BY <1>2, <1>7 DEF RequestOk, Ref, RefIn, Requests
    <3>3. ~(Current.folder = t /\ Current.uid = new)
      BY <1>4, <3>2
    <3>4. c \in originals
      BY <2>6, <3>1, <3>3 DEF Named
    <3>5. CopyOf(c, t, new) \in copies'
      BY <2>1, <3>4
    <3>6. CopyOf(c, t, new) \notin Named(Current.folder, Current.uid)'
      BY <1>6, <2>3, <3>3, <3>4 DEF Named
    <3> QED
      BY <1>8, <2>3, <3>4, <3>5, <3>6
  <2>14. HandlerOk'
    BY <1>1, <1>2, <1>5, <1>6, <2>1, <2>12, <2>13 DEF HandlerOk, Ref
  <2>15. NoMailLost'
    BY <1>1, <2>1 DEF IInv, NoMailLost, Live, client
  <2> QED
    BY <2>7, <2>9, <2>11, <2>14, <2>15 DEF IInv
<1> QED
  BY <1>9, <1>10

\* Flagging: of an undeleted mail that loses a copy, another copy is left,
\* unless the user has deleted it.
LEMMA StoreInv ==
    ASSUME IInv, TypeOK', StoreFlags
    PROVE  IInv'
<1>1. srv.pc = "store" /\ UNCHANGED <<client, uidNext>>
  BY DEF StoreFlags
<1>2. /\ srv \in Running /\ srv.mail \in Mails /\ srv.newUid \in Nat
      /\ srv.idx \in DOMAIN req[srv.mail] /\ Current \in Requests
  BY <1>1, CurrentType DEF IInv
<1>3. PICK state \in {"ok", "fail"} : \E u \in Nat :
         /\ Return(state, u)
         /\ Current.kind = "move" /\ state = "ok" => u = srv.newUid /\ u # 0
  BY <1>2 DEF StoreFlags
<1>4. PICK u \in Nat :
         /\ Return(state, u)
         /\ Current.kind = "move" /\ state = "ok" => u = srv.newUid /\ u # 0
  BY <1>3
<1>5. RequestOk(srv.mail, Current) /\ srv # Idle
  BY <1>2, IdleNotRunning DEF IInv, RequestsOk, Current
<1>6. Current.kind = "move" /\ state = "ok" => Ref(srv.mail, Current.target, u)
  BY <1>4, <1>5 DEF IInv, HandlerOk
<1>7. /\ \A n \in Mails : DOMAIN req'[n] = DOMAIN req[n]
      /\ \A n \in Mails : \A j \in DOMAIN req[n] :
         /\ req'[n][j].kind = req[n][j].kind /\ req'[n][j].folder = req[n][j].folder
         /\ req'[n][j].uid = req[n][j].uid /\ req'[n][j].target = req[n][j].target
         /\ req'[n][j].kind = "move" /\ req'[n][j].state = "ok" =>
              Ref(n, req[n][j].target, req'[n][j].newUid)
  BY <1>2, <1>4, <1>6, AnswerFrame DEF Return, Current
<1>8. HandlerOk'
  BY <1>4, IdleOk DEF Return
<1> DEFINE After(c) == IF c \in Named(Current.folder, Current.uid) THEN WithFlag(c) ELSE c
<1>9. copies' = {After(c) : c \in copies}
  BY DEF StoreFlags
<1>10. \A c \in copies : /\ After(c).folder = c.folder /\ After(c).uid = c.uid
                         /\ After(c).mail = c.mail
  BY DEF WithFlag, IInv, TypeOK, Copies
<1>11. \A c \in copies : ~c.deleted /\ After(c).deleted =>
          c \in Named(Current.folder, Current.uid) /\ Current.kind # "seen"
  BY DEF WithFlag, IInv, TypeOK, Copies
<1> HIDE DEF After
<1>12. Fresh'
  BY <1>1, <1>9, <1>10 DEF IInv, Fresh
<1>13. Unique'
  BY <1>9, <1>10 DEF IInv, Unique
<1>14. ClientOk' /\ RequestsOk'
  <2>1. \A g \in ServerFolders : uidNext[g] <= uidNext'[g]
    BY <1>1 DEF IInv, TypeOK
  <2>2. \A c \in copies' :
           \/ c.uid >= uidNext[c.folder]
           \/ \E d \in copies : d.folder = c.folder /\ d.uid = c.uid /\ d.mail = c.mail
    BY <1>9, <1>10
  <2> QED
    BY <1>1, <1>7, <2>1, <2>2, ServerFrame
<1>15. NoMailLost'
  <2> SUFFICES ASSUME NEW m \in Mails, ~deleted[m]
               PROVE  \E c \in copies' : c.mail = m /\ ~c.deleted
    BY <1>1 DEF NoMailLost, Live, client
  <2>1. PICK c \in copies : c.mail = m /\ ~c.deleted
    BY DEF IInv, NoMailLost, Live
  <2>2. CASE ~After(c).deleted
    BY <1>9, <1>10, <2>1, <2>2
  <2>3. CASE After(c).deleted
    <3>1. c \in Named(Current.folder, Current.uid) /\ Current.kind # "seen"
      BY <1>11, <2>1, <2>3
    <3>2. c.mail = srv.mail
      BY <1>5, <3>1 DEF RequestOk, Ref, RefIn, Named
    <3>3. Current.kind = "move"
      BY <1>2, <1>5, <2>1, <3>1, <3>2 DEF RequestOk, Requests
    <3>4. StoreSafe
      BY <1>1, <1>5, <3>3 DEF IInv, HandlerOk
    <3>5. PICK d \in copies : /\ d.mail = c.mail /\ ~d.deleted
                              /\ d \notin Named(Current.folder, Current.uid)
      BY <2>1, <3>1, <3>4 DEF StoreSafe
    <3>6. After(d) = d
      BY <3>5 DEF After
    <3> QED
      BY <1>9, <2>1, <3>5, <3>6
  <2> QED
    BY <2>2, <2>3
<1> QED
  BY <1>8, <1>12, <1>13, <1>14, <1>15 DEF IInv

LEMMA ExpungeInv ==
    ASSUME IInv, TypeOK', NEW f \in ServerFolders, Expunge(f)
    PROVE  IInv'
<1>1. /\ copies' = {c \in copies : ~(c.folder = f /\ c.deleted)}
      /\ UNCHANGED <<client, req, srv, uidNext>>
  BY DEF Expunge
<1>2. Fresh' /\ Unique'
  BY <1>1 DEF IInv, Fresh, Unique
<1>3. ClientOk' /\ RequestsOk'
  <2>1. \A g \in ServerFolders : uidNext[g] <= uidNext'[g]
    BY <1>1 DEF IInv, TypeOK
  <2>2. \A c \in copies' :
           \/ c.uid >= uidNext[c.folder]
           \/ \E d \in copies : d.folder = c.folder /\ d.uid = c.uid /\ d.mail = c.mail
    BY <1>1
  <2> QED
    BY <1>1, <2>1, <2>2, OldAnswersOk, ServerFrame
<1>4. HandlerOk'
  <2>1. CASE srv = Idle
    BY <1>1, <2>1 DEF HandlerOk
  <2>2. CASE srv # Idle
    <3>1. srv \in Running
      BY <2>2 DEF IInv, TypeOK
    <3>2. Current' = Current
      BY <1>1 DEF Current
    <3>3. srv.newUid # 0 => Ref(srv.mail, Current.target, srv.newUid)'
      BY <1>1, <2>2, <3>2 DEF IInv, HandlerOk, Ref, RefIn
    <3>4. StoreSafe => StoreSafe'
      BY <1>1, <3>2 DEF StoreSafe, Named
    <3> QED
      BY <1>1, <2>2, <3>1, <3>2, <3>3, <3>4 DEF IInv, HandlerOk
  <2> QED
    BY <2>1, <2>2
<1>5. NoMailLost'
  BY <1>1 DEF IInv, NoMailLost, Live, client
<1> QED
  BY <1>2, <1>3, <1>4, <1>5 DEF IInv

-----------------------------------------------------------------------------
(* The theorems *)

LEMMA InitInv == Init => IInv
<1> SUFFICES ASSUME Init PROVE IInv
  OBVIOUS
<1>1. Cardinality(Mails) \in Nat
  BY MailsAssumption, FS_CardinalityType
<1>2. folder \in [Mails -> Folders]
  BY BoundAssumption DEF Init, Folders, ServerFolders, INBOX, SENT, TRASH, SPAM
<1>3. hfolder \in [Mails -> ServerFolders]
  BY <1>2, AssocType DEF Init
<1>4. uid \in [Mails -> Nat] /\ \A m \in Mails : uid[m] \in 1 .. Cardinality(Mails)
  BY <1>1 DEF Init
<1>5. TypeOK
  <2>1. req \in [Mails -> Seq(Requests)]
    BY EmptySeq DEF Init
  <2>2. prev \in [Mails -> Folders]
    BY <1>3 DEF Init, Folders
  <2>3. copies \subseteq Copies
    BY <1>3, <1>4 DEF Init, Copies
  <2>4. uidNext \in [ServerFolders -> Nat]
    BY <1>1 DEF Init
  <2>5. tree \in [Folders -> SUBSET Mails] /\ srv \in {Idle} \union Running
    BY DEF Init
  <2> QED
    BY <1>2, <1>3, <1>4, <2>1, <2>2, <2>3, <2>4, <2>5 DEF TypeOK, Init
<1>6. \A c \in copies : \E m \in Mails :
         c.folder = hfolder[m] /\ c.uid = uid[m] /\ c.mail = m /\ c.deleted = deleted[m]
         /\ c = [folder |-> hfolder[m], uid |-> uid[m], mail |-> m,
                 seen |-> seen[m], deleted |-> deleted[m]]
  BY DEF Init
<1>7. \A m, n \in Mails : hfolder[m] = hfolder[n] /\ uid[m] = uid[n] => m = n
  BY DEF Init
<1>8. \A f \in ServerFolders : uidNext[f] = Cardinality(Mails) + 1
  BY DEF Init
<1>9. \A m \in Mails : uid[m] < uidNext[hfolder[m]]
  BY <1>1, <1>3, <1>4, <1>8
<1>10. Fresh
  BY <1>6, <1>9 DEF Fresh
<1>11. Unique
  BY <1>6, <1>7 DEF Unique
<1>12. ClientOk
  BY <1>6, <1>7, <1>9 DEF ClientOk, Ref, RefIn
<1>13. RequestsOk /\ HandlerOk
  BY DEF Init, RequestsOk, HandlerOk
<1>14. NoMailLost
  <2> SUFFICES ASSUME NEW m \in Mails, ~deleted[m] PROVE \E c \in copies : c.mail = m /\ ~c.deleted
    BY DEF NoMailLost, Live
  <2>1. [folder |-> hfolder[m], uid |-> uid[m], mail |-> m,
         seen |-> seen[m], deleted |-> deleted[m]] \in copies
    BY DEF Init
  <2> QED
    BY <2>1
<1> QED
  BY <1>5, <1>10, <1>11, <1>12, <1>13, <1>14 DEF IInv

LEMMA StepInv == IInv /\ [Next]_vars => IInv'
<1> SUFFICES ASSUME IInv, [Next]_vars PROVE IInv'
  OBVIOUS
<1>1. TypeOK'
  BY TypeStep DEF IInv
<1>2. CASE EmptyTrash
  BY <1>1, <1>2, EmptyTrashInv
<1>3. CASE HandlerStep
  <2>1. CASE CopyFails \/ StoreFails
    BY <1>1, <2>1, ReturnFrame DEF CopyFails, StoreFails
  <2> QED
    BY <1>1, <1>3, <2>1, SelectInv, CopyInv, StoreInv DEF HandlerStep
<1>4. ASSUME NEW f \in ServerFolders, Expunge(f) PROVE IInv'
  BY <1>1, <1>4, ExpungeInv
<1>5. ASSUME NEW m \in Mails, UserStep(m) PROVE IInv'
  BY <1>1, <1>5, UserInv
<1>6. ASSUME NEW m \in Mails, NEW i \in DOMAIN req[m],
             Reply(m, i) \/ ReplyDropped(m, i) \/ Reject(m, i) \/ Lock(m, i)
      PROVE  IInv'
  BY <1>1, <1>6, ReplyInv, ArrivalInv
<1>7. CASE UNCHANGED vars
  <2>1. UNCHANGED <<hfolder, uid, req, deleted, server>>
    BY <1>7 DEF vars, client
  <2>2. \A n \in Mails : Ref(n, hfolder'[n], uid'[n])
    BY <2>1 DEF IInv, ClientOk
  <2> QED
    BY <1>1, <2>1, <2>2, ClientFrame
<1> QED
  BY <1>2, <1>3, <1>4, <1>5, <1>6, <1>7 DEF Next

\* The inductive invariant holds in every reachable state.
THEOREM Invariance == Spec => []IInv
BY InitInv, StepInv, PTL DEF Spec

\* The variables of client, handler and mailbox keep their types, for any
\* number of mails and requests.
THEOREM TypeCorrect == Spec => []TypeOK
<1>1. IInv => TypeOK
  BY DEF IInv
<1> QED
  BY <1>1, Invariance, PTL

\* A mail the user has not deleted for good has an undeleted copy on the
\* server at every step of every handler (mail.go moveMail_internal), however
\* many moves of it overlap, whatever fails and whoever expunges.
THEOREM NoMailIsLost == Spec => []NoMailLost
<1>1. IInv => NoMailLost
  BY DEF IInv
<1> QED
  BY <1>1, Invariance, PTL

\* What the client and its requests call a mail is never another mail, with
\* the folder and UID of mailitem.js moveMailOnServer and updateFlagsRequest_.
THEOREM NamesAreRight == Spec => []RightMail
<1>1. IInv => RightMail
  BY DEF IInv, RightMail, Unique, ClientOk, RequestsOk, RequestOk, Ref, RefIn, Named
<1> QED
  BY <1>1, Invariance, PTL

\* A handler changes copies of the mail it serves only (UpdateMailFlags and
\* moveMail_internal act on the folder they have selected).
THEOREM OnlyServedMailChanges == Spec => OnlyServedMail
<1> DEFINE Right == \A c \in (copies \ copies') \union (copies' \ copies) :
                       (c \in copies /\ c.deleted) \/ (srv # Idle /\ c.mail = srv.mail)
<1>1. IInv /\ [Next]_vars => Right \/ UNCHANGED vars
  <2> SUFFICES ASSUME IInv, [Next]_vars PROVE Right \/ UNCHANGED vars
    OBVIOUS
  <2>1. CASE UNCHANGED copies
    BY <2>1
  <2>2. CASE CopyMail \/ StoreFlags
    <3>1. /\ srv \in Running /\ srv # Idle /\ srv.mail \in Mails
          /\ srv.idx \in DOMAIN req[srv.mail]
      BY <2>2, CurrentType, IdleNotRunning DEF IInv, CopyMail, StoreFlags
    <3>2. \A c \in Named(Current.folder, Current.uid) : c.mail = srv.mail /\ c \in copies
      BY <3>1 DEF IInv, RequestsOk, RequestOk, Ref, RefIn, Named, Current
    <3>3. \A c \in Named(Current.folder, Current.uid) : WithFlag(c).mail = c.mail
      BY DEF WithFlag, Named, IInv, TypeOK, Copies
    <3>4. CASE CopyMail
      BY <3>1, <3>2, <3>4 DEF CopyMail, CopyOf
    <3>5. CASE StoreFlags
      BY <3>1, <3>2, <3>3, <3>5 DEF StoreFlags
    <3> QED
      BY <2>2, <3>4, <3>5
  <2>3. CASE \E f \in ServerFolders : Expunge(f)
    BY <2>3 DEF Expunge
  <2>4. CASE HandlerStep /\ ~CopyMail /\ ~StoreFlags
    BY <2>1, <2>4 DEF HandlerStep, SelectFolder, CopyFails, StoreFails
  <2>5. CASE EmptyTrash
    BY <2>1, <2>5 DEF EmptyTrash, server
  <2>6. ASSUME NEW m \in Mails, UserStep(m) PROVE UNCHANGED copies
    BY <2>6 DEF UserStep, Delete, Restore, DeleteForever, ContentShown, server
  <2>7. ASSUME NEW m \in Mails, NEW i \in DOMAIN req[m],
               Reply(m, i) \/ ReplyDropped(m, i) \/ Reject(m, i) \/ Lock(m, i)
        PROVE  UNCHANGED copies
    BY <2>7 DEF Reply, MoveReplyOk, MoveReplyFail, FlagsReply, ReplyDropped, Reject, Lock, server
  <2> QED
    BY <2>1, <2>2, <2>3, <2>4, <2>5, <2>6, <2>7 DEF Next, vars
<1> QED
  BY <1>1, Invariance, PTL DEF Spec, OnlyServedMail

-----------------------------------------------------------------------------
(* The trees of the folders *)

\* How a step changes trees and folders: not at all, or as moveMail does.
LEMMA TreeStep ==
    ASSUME TypeOK, [Next]_vars
    PROVE  \/ UNCHANGED <<folder, tree>>
           \/ \E m \in Mails, into \in Folders : folder[m] # into /\ MoveInClient(m, into)
<1>1. CASE HandlerStep \/ EmptyTrash
  BY <1>1 DEF HandlerStep, SelectFolder, CopyMail, CopyFails, StoreFlags, StoreFails, EmptyTrash, client
<1>2. ASSUME NEW f \in ServerFolders, Expunge(f) PROVE UNCHANGED <<folder, tree>>
  BY <1>2 DEF Expunge, client
<1>3. ASSUME NEW m \in Mails, UserStep(m)
      PROVE  \/ UNCHANGED <<folder, tree>>
             \/ \E into \in Folders : folder[m] # into /\ MoveInClient(m, into)
  <2>1. CASE Delete(m)
    BY <2>1 DEF Delete, MoveMail, Folders, ServerFolders
  <2>2. CASE Restore(m)
    BY <2>2 DEF Restore, MoveMail, TypeOK
  <2>3. CASE DeleteForever(m) \/ ContentShown(m)
    BY <2>3 DEF DeleteForever, ContentShown
  <2> QED
    BY <1>3, <2>1, <2>2, <2>3 DEF UserStep
<1>4. ASSUME NEW m \in Mails, NEW i \in DOMAIN req[m],
             Reply(m, i) \/ ReplyDropped(m, i) \/ Reject(m, i) \/ Lock(m, i)
      PROVE  \/ UNCHANGED <<folder, tree>>
             \/ \E into \in Folders : folder[m] # into /\ MoveInClient(m, into)
  <2>1. CASE MoveReplyFail(m, i)
    BY <2>1 DEF MoveReplyFail, TypeOK
  <2> QED
    BY <1>4, <2>1 DEF Reply, MoveReplyOk, FlagsReply, ReplyDropped, Reject, Lock, client
<1>5. CASE UNCHANGED vars
  BY <1>5 DEF vars, client
<1> QED
  BY <1>1, <1>2, <1>3, <1>4, <1>5 DEF Next

\* Whatever their dates, a folder's tree holds no mail shown elsewhere.
InOwnTree == \A m \in Mails, f \in Folders : m \in tree[f] => folder[m] = f

LEMMA OwnTreeStep == TypeOK /\ InOwnTree /\ [Next]_vars => InOwnTree'
<1> SUFFICES ASSUME TypeOK, InOwnTree, [Next]_vars,
                    NEW n \in Mails, NEW f \in Folders, n \in tree'[f]
             PROVE  folder'[n] = f
  BY DEF InOwnTree
<1>1. CASE UNCHANGED <<folder, tree>>
  BY <1>1 DEF InOwnTree
<1>2. ASSUME NEW m \in Mails, NEW into \in Folders, folder[m] # into, MoveInClient(m, into)
      PROVE  folder'[n] = f
  <2>1. folder'[m] = into /\ (n # m => folder'[n] = folder[n])
    BY <1>2 DEF MoveInClient, TypeOK
  <2>2. /\ f = folder[m] => tree'[f] = TreeRemove(tree[f], m)
        /\ f = into => tree'[f] = TreeAdd(tree[f], m)
        /\ f # folder[m] /\ f # into => tree'[f] = tree[f]
    BY <1>2 DEF MoveInClient
  <2>3. CASE f = folder[m]
    <3>1. n \in TreeRemove(tree[f], m)
      BY <2>2, <2>3
    <3>2. n \in tree[f] /\ n # m
      BY <3>1 DEF TreeRemove, SameDate
    <3> QED
      BY <2>1, <3>2 DEF InOwnTree
  <2>4. CASE f = into
    <3>1. n \in TreeAdd(tree[f], m)
      BY <2>2, <2>4
    <3>2. n \in tree[f] \/ n = m
      BY <3>1 DEF TreeAdd
    <3> QED
      BY <2>1, <2>4, <3>2 DEF InOwnTree
  <2>5. CASE f # folder[m] /\ f # into
    BY <2>1, <2>2, <2>5 DEF InOwnTree
  <2> QED
    BY <2>3, <2>4, <2>5
<1> QED
  BY <1>1, <1>2, TreeStep

\* When no two mails have the same date, a mail is in the tree of the folder it
\* says it is in (mailhandler.js moveMail adds and removes by date only), and
\* in no other; with equal dates AvlTree.add() refuses the second one.
THEOREM TreesMatchFolders ==
    ASSUME \A m, n \in Mails : DateOf[m] = DateOf[n] => m = n
    PROVE  Spec => []TreeMatchesFolder
<1>1. \A m \in Mails : SameDate(m) = {m}
  BY DEF SameDate
<1>2. Init => TreeMatchesFolder
  BY DEF Init, TreeMatchesFolder
<1>3. TypeOK /\ TreeMatchesFolder /\ [Next]_vars => TreeMatchesFolder'
  <2> SUFFICES ASSUME TypeOK, TreeMatchesFolder, [Next]_vars,
                      NEW n \in Mails, NEW f \in Folders
               PROVE  n \in tree'[f] <=> folder'[n] = f
    BY DEF TreeMatchesFolder
  <2>1. CASE UNCHANGED <<folder, tree>>
    BY <2>1 DEF TreeMatchesFolder
  <2>2. ASSUME NEW m \in Mails, NEW into \in Folders, folder[m] # into, MoveInClient(m, into)
        PROVE  n \in tree'[f] <=> folder'[n] = f
    <3>1. folder'[m] = into /\ (n # m => folder'[n] = folder[n])
      BY <2>2 DEF MoveInClient, TypeOK
    <3>2. tree'[f] = CASE f = folder[m] -> tree[f] \ {m}
                       [] f = into -> IF m \in tree[f] THEN tree[f] ELSE tree[f] \union {m}
                       [] OTHER -> tree[f]
      BY <1>1, <2>2 DEF MoveInClient, TreeRemove, TreeAdd
    <3>3. \A k \in Mails, g \in Folders : k \in tree[g] <=> folder[k] = g
      BY DEF TreeMatchesFolder
    <3> QED
      BY <2>2, <3>1, <3>2, <3>3
  <2> QED
    BY <2>1, <2>2, TreeStep
<1> QED
  BY <1>2, <1>3, TypeCorrect, PTL DEF Spec
=============================================================================
