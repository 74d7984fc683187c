--------------------------- MODULE MailCon_proofs ---------------------------
(***************************************************************************)
(* Proofs about MailCon for any number of handlers, any operations they    *)
(* may be asked for, any folders, any messages that come and go, and with  *)
(* or without failing commands.                                            *)
(***************************************************************************)
EXTENDS MailCon, FiniteSetTheorems, TLAPS

\* Whoever has passed the lock holds the mutex.
Inside(r) == req[r].pc \in {"check", "select", "command", "store"}
MutexOk == \A r \in Requests : Inside(r) => mutex = r

\* The messages of the INBOX that were not \Recent when the session began.
Older == OldBox \ Fresh

\* T is what the INBOX held at some moment since: whatever has come is behind T, and
\* no older message is outside of it.
Basis(T) ==
  /\ Older \cap (box[INBOX] \cup view) \subseteq T /\ T \subseteq Used
  /\ \A m \in box[INBOX] \ T, n \in T : n < m

\* The numbers counted from the end of T reach no older message.
Counted(T, exists, new) ==
  Basis(T) /\ exists = Cardinality(T) /\ new + Cardinality(Older \cap T) <= Cardinality(T)
Named(T, nums) ==
  Basis(T) /\ \A i \in nums : Cardinality(Older \cap T) < i /\ i <= Cardinality(T)

OnlyInbox ==
  /\ sel \in {INBOX, NoFolder}
  /\ (recent \cup unclaimed[INBOX]) \cap Older = {}
  /\ data.recent > 0 => Counted(told, data.exists, data.recent)
  /\ \A r \in Requests : req[r].nums # {} => Named(req[r].told, req[r].nums)
  /\ polled \cap Older = {}
InboxOk ==
  /\ Older \subseteq gone \cup box[INBOX]
  /\ ~strayed => OnlyInbox

CountsOk == data.recent <= data.exists

IInv == TypeOK /\ MutexOk /\ CountsOk /\ OwnFolder /\ InboxOk

-----------------------------------------------------------------------------
\* What a step may do: messages come with new UIDs and go for good,
Keeps ==
  /\ gone \subseteq gone'
  /\ \A f \in Folders : box'[f] \subseteq box[f] \cup Unused /\ box[f] \subseteq box'[f] \cup gone'
\* the session is told of the selected folder, and counts as \Recent what nobody knew,
Sees ==
  /\ view' \subseteq view \/ (sel' \in Folders /\ view' = box'[sel'])
  /\ recent' \subseteq recent \/ (sel' \in Folders /\ recent' \subseteq recent \cup unclaimed[sel'] \cup Unused)
  /\ \A f \in Folders : unclaimed'[f] \subseteq unclaimed[f] \cup Unused
\* the queue is left alone, emptied, or has the counts of what the session was told.
Queues ==
  \/ data' = data /\ told' = told
  \/ data' = NoData
  \/ /\ sel' \in Folders /\ told' = box'[sel'] /\ view' = told' /\ recent' \subseteq told'
     /\ data' = [exists |-> Cardinality(told'), recent |-> Cardinality(recent')]
Selects == (strayed => strayed') /\ (strayed' \/ sel' \in {sel, NoFolder, INBOX})

\* The part of TypeOK that is about the server and the session.
TypeServer ==
  /\ box \in [Folders -> SUBSET Mails] /\ gone \subseteq Mails
  /\ unclaimed \in [Folders -> SUBSET Mails]
  /\ sel \in Folders \cup {NoFolder} /\ view \subseteq Mails /\ recent \subseteq Mails
  /\ told \subseteq Mails /\ data \in [exists : Nat, recent : Nat]

LEMMA CardType ==
  ASSUME NEW S, S \subseteq Mails
  PROVE  IsFiniteSet(S) /\ Cardinality(S) \in Nat
<1>1. IsFiniteSet(Mails)
  BY MailConAssumption
<1>2. IsFiniteSet(S)
  BY <1>1, FS_Subset
<1> QED
  BY <1>2, FS_CardinalityType

LEMMA CardMono ==
  ASSUME NEW T, T \subseteq Mails, NEW S, S \subseteq T
  PROVE  Cardinality(S) <= Cardinality(T)
  BY CardType, FS_Subset

LEMMA CardSum ==
  ASSUME NEW T, T \subseteq Mails, NEW S, S \subseteq T, NEW R, R \subseteq T, S \cap R = {}
  PROVE  Cardinality(S) + Cardinality(R) <= Cardinality(T)
<1>1. IsFiniteSet(S) /\ IsFiniteSet(R) /\ S \subseteq Mails /\ R \subseteq Mails /\ S \cup R \subseteq T
  BY CardType
<1>2. Cardinality(S \cup R) = Cardinality(S) + Cardinality(R) - Cardinality(S \cap R)
  BY <1>1, FS_Union
<1>3. Cardinality(S \cap R) = 0
  BY FS_EmptySet
<1>4. Cardinality(S \cup R) <= Cardinality(T)
  BY <1>1, CardMono
<1> QED
  BY <1>1, <1>2, <1>3, <1>4, CardType
-----------------------------------------------------------------------------
\* What the assumptions say of the operations of requests.
LEMMA AllOpsFacts ==
  /\ NoOp \in AllOps
  /\ \A o \in AllOps : o.folder \in Folders /\ o.into \in Folders /\ (o.kind = "poll" => o.folder = INBOX)
<1>1. NoOp \in AllOps
  BY DEF AllOps
<1>2. NoOp.folder = INBOX /\ NoOp.into = INBOX /\ INBOX \in Folders
  BY MailConAssumption DEF NoOp
<1>3. ASSUME NEW q \in Requests, NEW o \in Ops[q]
      PROVE  o.folder \in Folders /\ o.into \in Folders /\ (o.kind = "poll" => o.folder = INBOX)
  BY MailConAssumption
<1>4. ASSUME NEW o \in AllOps PROVE o = NoOp \/ \E q \in Requests : o \in Ops[q]
  BY DEF AllOps
<1> QED
  BY <1>1, <1>2, <1>3, <1>4

LEMMA IdleState == Idle \in RequestStates
  BY AllOpsFacts DEF RequestStates, Idle

LEMMA OpFacts ==
  ASSUME TypeOK, NEW r \in Requests
  PROVE  /\ req[r].op.folder \in Folders /\ req[r].op.into \in Folders
         /\ req[r].op.kind = "poll" => req[r].op.folder = INBOX
         /\ req[r].nums \in SUBSET (Nat \ {0})
         /\ req[r].pc \in {"idle", "lock", "check", "select", "command", "store"}
<1>1. req[r] \in RequestStates
  BY DEF TypeOK
<1>2. /\ req[r].op \in AllOps /\ req[r].nums \in SUBSET (Nat \ {0})
      /\ req[r].pc \in {"idle", "lock", "check", "select", "command", "store"}
  BY <1>1 DEF RequestStates
<1> QED
  BY <1>2, AllOpsFacts

\* A request goes to another step, or is over.
LEMMA GotoEffect ==
  ASSUME TypeOK, NEW r \in Requests,
         NEW pc \in {"idle", "lock", "check", "select", "command", "store"}, Goto(r, pc)
  PROVE  /\ req' \in [Requests -> RequestStates]
         /\ req'[r].pc = pc /\ req'[r].op = req[r].op
         /\ req'[r].nums = req[r].nums /\ req'[r].told = req[r].told
         /\ \A q \in Requests : q # r => req'[q] = req[q]
<1>1. req \in [Requests -> RequestStates]
  BY DEF TypeOK
<1>2. [req[r] EXCEPT !.pc = pc] \in RequestStates
  BY <1>1 DEF RequestStates
<1>3. req' = [req EXCEPT ![r] = [req[r] EXCEPT !.pc = pc]]
  BY DEF Goto
<1>4. req'[r] = [req[r] EXCEPT !.pc = pc]
  BY <1>1, <1>3
<1>5. /\ req'[r].pc = pc /\ req'[r].op = req[r].op
      /\ req'[r].nums = req[r].nums /\ req'[r].told = req[r].told
  BY <1>1, <1>4 DEF RequestStates
<1> QED
  BY <1>1, <1>2, <1>3, <1>5

LEMMA ReturnEffect ==
  ASSUME TypeOK, NEW r \in Requests, Return(r)
  PROVE  /\ req' \in [Requests -> RequestStates]
         /\ req'[r] = Idle /\ req'[r].pc = "idle" /\ req'[r].nums = {}
         /\ \A q \in Requests : q # r => req'[q] = req[q]
         /\ mutex' = NoOne
<1>1. req \in [Requests -> RequestStates] /\ Idle \in RequestStates
  BY IdleState DEF TypeOK
<1> QED
  BY <1>1 DEF Return, Idle
-----------------------------------------------------------------------------
\* A step that leaves the server and the session alone.
LEMMA NothingMoves ==
  ASSUME TypeOK, UNCHANGED <<box, gone, session, strayed>>,
         UNCHANGED client \/ (data' = NoData /\ told' = {})
  PROVE  TypeServer' /\ Keeps /\ Sees /\ Queues /\ Selects
<1>1. TypeServer'
  BY DEF TypeOK, TypeServer, session, client, NoData
<1>2. Keeps /\ Sees
  BY DEF Keeps, Sees, session
<1>3. Queues
  BY DEF Queues, client
<1>4. strayed' = strayed /\ sel' = sel
  BY DEF session
<1> QED
  BY <1>1, <1>2, <1>3, <1>4 DEF Selects

\* The delivery of a message.
LEMMA DeliverEffect ==
  ASSUME TypeOK, NEW m \in Unused, NEW f \in Folders, Deliver(m, f)
  PROVE  /\ box' \in [Folders -> SUBSET Mails] /\ gone' \subseteq Mails /\ Keeps
         /\ Delivered(m, f) \in [Folders -> SUBSET Mails]
         /\ \A g \in Folders : Delivered(m, f)[g] \subseteq unclaimed[g] \cup Unused
<1>1. m \in Mails
  BY DEF Unused
<1>2. /\ box \in [Folders -> SUBSET Mails] /\ unclaimed \in [Folders -> SUBSET Mails]
      /\ gone \subseteq Mails
  BY DEF TypeOK
<1>3. box' = [box EXCEPT ![f] = box[f] \cup {m}] /\ gone' = gone
  BY DEF Deliver
<1>4. /\ box' \in [Folders -> SUBSET Mails] /\ gone' \subseteq Mails
      /\ \A g \in Folders : box'[g] \subseteq box[g] \cup {m} /\ box[g] \subseteq box'[g]
  BY <1>1, <1>2, <1>3
<1>5. Keeps
  BY <1>3, <1>4 DEF Keeps
<1> QED
  BY <1>1, <1>2, <1>4, <1>5 DEF Delivered

\* What the session is told with a command, or not.
LEMMA ClaimEffect ==
  ASSUME TypeOK, box' \in [Folders -> SUBSET Mails], sel' = sel,
         NEW u \in [Folders -> SUBSET Mails],
         \A f \in Folders : u[f] \subseteq unclaimed[f] \cup Unused,
         Quiet(u) \/ (sel \in Folders /\ Claim(u))
  PROVE  /\ view' \subseteq Mails /\ recent' \subseteq Mails
         /\ unclaimed' \in [Folders -> SUBSET Mails] /\ Sees
<1>1. view \subseteq Mails /\ recent \subseteq Mails
  BY DEF TypeOK
<1>2. CASE Quiet(u)
  <2>1. view' = view /\ recent' = recent /\ unclaimed' = u
    BY <1>2 DEF Quiet
  <2> QED
    BY <1>1, <2>1 DEF Sees
<1>3. CASE sel \in Folders /\ Claim(u)
  <2>1. /\ view' = box'[sel] /\ recent' = (recent \cup u[sel]) \cap box'[sel]
        /\ unclaimed' = [u EXCEPT ![sel] = {}]
    BY <1>3 DEF Claim
  <2>2. /\ unclaimed' \in [Folders -> SUBSET Mails]
        /\ \A f \in Folders : unclaimed'[f] \subseteq u[f]
    BY <1>3, <2>1
  <2>3. recent' \subseteq recent \cup unclaimed[sel] \cup Unused
    BY <1>3, <2>1
  <2>4. Sees
    BY <1>3, <2>1, <2>2, <2>3 DEF Sees
  <2> QED
    BY <1>1, <1>3, <2>1, <2>2, <2>4
<1> QED
  BY <1>2, <1>3

LEMMA NewsEffect ==
  ASSUME TypeOK, box' \in [Folders -> SUBSET Mails], sel' = sel, recent' \subseteq Mails,
         NEW u, UNCHANGED client \/ (sel \in Folders /\ Claim(u) /\ News)
  PROVE  told' \subseteq Mails /\ data' \in [exists : Nat, recent : Nat] /\ Queues
<1>1. told \subseteq Mails /\ data \in [exists : Nat, recent : Nat]
  BY DEF TypeOK
<1>2. CASE UNCHANGED client
  BY <1>1, <1>2 DEF client, Queues
<1>3. CASE sel \in Folders /\ Claim(u) /\ News /\ ~ UNCHANGED client
  <2>1. /\ data' = [exists |-> Cardinality(box'[sel]), recent |-> Cardinality(recent')]
        /\ told' = box'[sel]
    BY <1>3 DEF News
  <2>2. view' = box'[sel] /\ recent' \subseteq box'[sel]
    BY <1>3 DEF Claim
  <2>3. Cardinality(box'[sel]) \in Nat /\ Cardinality(recent') \in Nat
    BY <1>3, CardType
  <2> QED
    BY <1>3, <2>1, <2>2, <2>3 DEF Queues
<1> QED
  BY <1>2, <1>3

LEMMA TellEffect ==
  ASSUME TypeOK, box' \in [Folders -> SUBSET Mails], gone' \subseteq Mails, UNCHANGED <<sel, strayed>>,
         NEW u \in [Folders -> SUBSET Mails],
         \A f \in Folders : u[f] \subseteq unclaimed[f] \cup Unused,
         MayTell(u)
  PROVE  TypeServer' /\ Sees /\ Queues /\ Selects
<1>1. /\ view' \subseteq Mails /\ recent' \subseteq Mails
      /\ unclaimed' \in [Folders -> SUBSET Mails] /\ Sees
  BY ClaimEffect, Zenon DEF MayTell
<1>2. told' \subseteq Mails /\ data' \in [exists : Nat, recent : Nat] /\ Queues
  <2>1. CASE UNCHANGED client
    BY <1>1, <2>1, NewsEffect
  <2>2. CASE sel \in Folders /\ Claim(u) /\ News
    BY <1>1, <2>2, NewsEffect
  <2> QED
    BY <2>1, <2>2, Zenon DEF MayTell
<1>3. sel \in Folders \cup {NoFolder}
  BY DEF TypeOK
<1> QED
  BY <1>1, <1>2, <1>3 DEF TypeServer, Selects

\* What commands in the selected folder rely on.
LEMMA SelectedIsOwn ==
  ASSUME OwnFolder, NEW r \in Requests, TypeOK,
         Holds(r, "command", {"mails", "content", "poll", "flags", "move"}) \/ Holds(r, "store", {"move"})
  PROVE  sel = req[r].op.folder /\ sel \in Folders /\ open
<1>1. sel = req[r].op.folder /\ open
  BY DEF OwnFolder, Holds, At
<1> QED
  BY <1>1, OpFacts

LEMMA StepEffect ==
  TypeOK /\ OwnFolder /\ [Next]_vars => TypeServer' /\ Keeps /\ Sees /\ Queues /\ Selects
<1> DEFINE Effect == TypeServer' /\ Keeps /\ Sees /\ Queues /\ Selects
<1> SUFFICES ASSUME TypeOK, OwnFolder, [Next]_vars PROVE Effect
  OBVIOUS
<1> USE MailConAssumption
<1>0. /\ box \in [Folders -> SUBSET Mails] /\ unclaimed \in [Folders -> SUBSET Mails] /\ gone \subseteq Mails
      /\ sel \in Folders \cup {NoFolder} /\ view \subseteq Mails /\ recent \subseteq Mails
      /\ told \subseteq Mails /\ data \in [exists : Nat, recent : Nat]
  BY DEF TypeOK
<1>1. ASSUME Arrive PROVE Effect
  <2>1. PICK m \in Unused : Deliver(m, INBOX) /\ unclaimed' = Delivered(m, INBOX)
    BY <1>1 DEF Arrive
  <2>2. UNCHANGED <<sel, view, recent, client, strayed>>
    BY <1>1 DEF Arrive
  <2>3. box' \in [Folders -> SUBSET Mails] /\ gone' \subseteq Mails /\ Keeps
    BY <2>1, DeliverEffect
  <2>4. Quiet(Delivered(m, INBOX))
    BY <2>1, <2>2 DEF Quiet
  <2>5. TypeServer' /\ Sees /\ Queues /\ Selects
    BY <2>1, <2>2, <2>3, <2>4, DeliverEffect, TellEffect DEF MayTell
  <2> QED
    BY <2>3, <2>5
<1>2. ASSUME Expunge PROVE Effect
  <2>1. PICK f \in Folders, m \in Mails :
          /\ m \in box[f]
          /\ box' = [box EXCEPT ![f] = box[f] \ {m}] /\ gone' = gone \cup {m}
          /\ unclaimed' = [unclaimed EXCEPT ![f] = unclaimed[f] \ {m}]
    BY <1>0, <1>2 DEF Expunge
  <2>2. UNCHANGED <<sel, view, recent, client, strayed>>
    BY <1>2 DEF Expunge
  <2>3. /\ box' \in [Folders -> SUBSET Mails] /\ gone' \subseteq Mails
        /\ unclaimed' \in [Folders -> SUBSET Mails]
        /\ \A g \in Folders : unclaimed'[g] \subseteq unclaimed[g] /\ box'[g] \subseteq box[g]
                              /\ box[g] \subseteq box'[g] \cup {m}
    BY <1>0, <2>1
  <2>4. Keeps /\ Sees
    BY <2>1, <2>2, <2>3 DEF Keeps, Sees
  <2>5. TypeServer' /\ Queues /\ Selects
    BY <1>0, <2>2, <2>3 DEF TypeServer, Queues, Selects, client
  <2> QED
    BY <2>4, <2>5
<1>3. ASSUME NEW r \in Requests, CommandFails(r) PROVE Effect
  <2>1. \/ sel' = NoFolder /\ view' = {} /\ recent' = {}
        \/ UNCHANGED <<sel, view, recent>>
    BY <1>3, Zenon DEF CommandFails
  <2>2. UNCHANGED <<box, gone, unclaimed, client, strayed>>
    BY <1>3 DEF CommandFails
  <2>3. Keeps /\ Sees
    BY <2>1, <2>2 DEF Keeps, Sees
  <2>4. TypeServer' /\ Queues /\ Selects
    BY <1>0, <2>1, <2>2 DEF TypeServer, Queues, Selects, client
  <2> QED
    BY <2>3, <2>4
<1>4. ASSUME NEW r \in Requests, SelectFolder(r) PROVE Effect
  <2>1. req[r].op.folder \in Folders
    BY OpFacts
  <2>2. /\ sel' = req[r].op.folder /\ view' = box[sel'] /\ recent' = unclaimed[sel']
        /\ unclaimed' = [unclaimed EXCEPT ![sel'] = {}] /\ UNCHANGED <<box, gone>>
        /\ data' = NoData /\ told' = {} /\ strayed' = (strayed \/ sel' # INBOX)
    BY <1>4 DEF SelectFolder
  <2>3. Keeps /\ Sees
    BY <1>0, <2>1, <2>2 DEF Keeps, Sees
  <2>4. TypeServer'
    BY <1>0, <2>1, <2>2 DEF TypeServer, NoData
  <2>5. Queues
    BY <2>2 DEF Queues
  <2>6. Selects
    BY <2>2, Zenon DEF Selects
  <2> QED
    BY <2>3, <2>4, <2>5, <2>6
<1>5. ASSUME NEW r \in Requests, Fetch(r) PROVE Effect
  <2>1. sel \in Folders
    BY <1>5, SelectedIsOwn DEF Fetch, Holds
  <2>2. UNCHANGED <<box, gone, sel, strayed>> /\ (Quiet(unclaimed) \/ Claim(unclaimed))
        /\ data' = NoData /\ told' = {}
    BY <1>5 DEF Fetch
  <2>3. /\ view' \subseteq Mails /\ recent' \subseteq Mails
        /\ unclaimed' \in [Folders -> SUBSET Mails] /\ Sees
    BY <1>0, <2>1, <2>2, ClaimEffect
  <2>4. TypeServer' /\ Keeps
    BY <1>0, <2>2, <2>3 DEF TypeServer, Keeps, NoData
  <2>5. Queues /\ Selects
    BY <2>2 DEF Queues, Selects
  <2> QED
    BY <2>3, <2>4, <2>5
<1>6. ASSUME NEW r \in Requests, StoreFlags(r) \/ CopyNothing(r) PROVE Effect
  <2>1. UNCHANGED <<box, gone, sel, strayed>> /\ MayTell(unclaimed)
    BY <1>6 DEF StoreFlags, CopyNothing
  <2>2. TypeServer' /\ Sees /\ Queues /\ Selects
    BY <1>0, <2>1, TellEffect
  <2>3. Keeps
    BY <2>1 DEF Keeps
  <2> QED
    BY <2>2, <2>3
<1>7. ASSUME NEW r \in Requests, CopyMail(r) \/ (AppendMail(r) /\ Unused # {}) PROVE Effect
  <2>1. PICK m \in Unused : Deliver(m, req[r].op.into) /\ MayTell(Delivered(m, req[r].op.into))
    BY <1>7 DEF CopyMail, AppendMail
  <2>2. req[r].op.into \in Folders
    BY OpFacts
  <2>3. UNCHANGED <<sel, strayed>>
    BY <1>7 DEF CopyMail, AppendMail
  <2>4. box' \in [Folders -> SUBSET Mails] /\ gone' \subseteq Mails /\ Keeps
    BY <2>1, <2>2, DeliverEffect
  <2>5. TypeServer' /\ Sees /\ Queues /\ Selects
    BY <2>1, <2>2, <2>3, <2>4, DeliverEffect, TellEffect
  <2> QED
    BY <2>4, <2>5
<1>8. ASSUME NEW r \in Requests, AppendMail(r), Unused = {} PROVE Effect
  <2>1. UNCHANGED <<box, gone, session, strayed, client>>
    BY <1>8 DEF AppendMail, session
  <2> QED
    BY <2>1, NothingMoves
<1>9. ASSUME Noop PROVE Effect
  <2>1. CASE open /\ sel \in Folders
    <3>1. UNCHANGED <<box, gone, sel, strayed>> /\ Claim(unclaimed) /\ News
      BY <1>9, <2>1 DEF Noop
    <3>2. TypeServer' /\ Sees /\ Queues /\ Selects
      BY <1>0, <2>1, <3>1, TellEffect DEF MayTell
    <3>3. Keeps
      BY <3>1 DEF Keeps
    <3> QED
      BY <3>2, <3>3
  <2>2. CASE ~(open /\ sel \in Folders)
    <3>1. UNCHANGED <<box, gone, session, strayed, client>>
      BY <1>9, <2>2, Zenon DEF Noop, session
    <3> QED
      BY <3>1, NothingMoves
  <2> QED
    BY <2>1, <2>2
<1>10. ASSUME NEW r \in Requests, Check(r) PROVE Effect
  <2>1. UNCHANGED <<box, gone, session, strayed>> /\ data' = NoData /\ told' = {}
    BY <1>10 DEF Check
  <2> QED
    BY <2>1, NothingMoves
<1>11. ASSUME \/ \E r \in Requests : (\E o \in Ops[r] : Call(r, o)) \/ Lock(r) \/ Close(r)
              \/ Tick \/ KeeperLock \/ Quit \/ UNCHANGED vars
       PROVE  Effect
  <2>1. UNCHANGED <<box, gone, session, strayed, client>>
    BY <1>11 DEF Call, Lock, Close, Tick, KeeperLock, Quit, vars
  <2> QED
    BY <2>1, NothingMoves
<1> QED
  BY <1>1, <1>2, <1>3, <1>4, <1>5, <1>6, <1>7, <1>8, <1>9, <1>10, <1>11 DEF Next, Step

-----------------------------------------------------------------------------
\* The numbers CheckNewMails makes of the queue.
LEMMA NumbersEffect ==
  ASSUME TypeOK, CountsOk
  PROVE  /\ NewNumbers \in SUBSET (Nat \ {0})
         /\ \A n \in NewNumbers : data.exists - data.recent < n /\ n <= data.exists /\ data.recent > 0
<1>1. data.exists \in Nat /\ data.recent \in Nat /\ data.recent <= data.exists
  BY DEF TypeOK, CountsOk
<1> QED
  BY <1>1 DEF NewNumbers

\* What the answer to a FETCH does to the browser.
LEMMA FetchEffect ==
  ASSUME TypeOK, OwnFolder, NEW r \in Requests, Fetch(r)
  PROVE  /\ shown' \subseteq Mails /\ polled' \subseteq Mails
         /\ \/ polled' = polled
            \/ /\ req[r].op.kind = "poll" /\ sel = INBOX
               /\ polled' = polled \cup (box[sel] \cap Numbered(view, req[r].nums))
<1> DEFINE found == box[sel] \cap IF req[r].op.kind = "poll" THEN Numbered(view, req[r].nums) ELSE view
<1>1. sel = req[r].op.folder /\ sel \in Folders
  BY SelectedIsOwn DEF Fetch, Holds
<1>2. found \subseteq Mails
  BY <1>1 DEF TypeOK
<1>3. /\ shown' = found \/ shown' = shown \cup found \/ shown' = shown
      /\ polled' = polled \/ (req[r].op.kind = "poll" /\ polled' = polled \cup found)
  BY DEF Fetch
<1> HIDE DEF found
<1>4. shown' \subseteq Mails /\ polled' \subseteq Mails
  BY <1>2, <1>3 DEF TypeOK
<1>5. req[r].op.kind = "poll" => sel = INBOX /\ found = box[sel] \cap Numbered(view, req[r].nums)
  BY <1>1, OpFacts DEF found
<1> QED
  BY <1>3, <1>4, <1>5

\* The requests and the browser keep their types.
LEMMA TypeStep == TypeOK /\ CountsOk /\ OwnFolder /\ [Next]_vars => TypeOK'
<1> SUFFICES ASSUME TypeOK, CountsOk, OwnFolder, [Next]_vars PROVE TypeOK'
  OBVIOUS
<1> USE MailConAssumption
<1> DEFINE Rest == /\ open' \in BOOLEAN /\ mutex' \in Requests \cup {KEEPER, NoOne}
                   /\ req' \in [Requests -> RequestStates]
                   /\ ka' \in {"wait", "lock", "noop", "ended"}
                   /\ shown' \subseteq Mails /\ polled' \subseteq Mails /\ strayed' \in BOOLEAN
<1>0. /\ open \in BOOLEAN /\ mutex \in Requests \cup {KEEPER, NoOne}
      /\ req \in [Requests -> RequestStates] /\ ka \in {"wait", "lock", "noop", "ended"}
      /\ shown \subseteq Mails /\ polled \subseteq Mails /\ strayed \in BOOLEAN /\ told \subseteq Mails
  BY DEF TypeOK
<1>1. ASSUME Arrive \/ Expunge \/ Tick \/ KeeperLock \/ Noop \/ Quit \/ UNCHANGED vars PROVE Rest
  BY <1>0, <1>1 DEF Arrive, Expunge, Tick, KeeperLock, Noop, Quit, vars
<1>2. ASSUME NEW r \in Requests, NEW o \in Ops[r], Call(r, o) PROVE Rest
  <2>1. o \in AllOps
    BY DEF AllOps
  <2>2. req' \in [Requests -> RequestStates]
    BY <1>0, <1>2, <2>1 DEF Call, RequestStates
  <2> QED
    BY <1>0, <1>2, <2>2 DEF Call
<1>3. ASSUME NEW r \in Requests, Lock(r) PROVE Rest
  <2>1. EntryStep(r) \in {"idle", "lock", "check", "select", "command", "store"}
    BY DEF EntryStep
  <2>2. req' \in [Requests -> RequestStates]
    BY <1>3, <2>1, GotoEffect DEF Lock
  <2> QED
    BY <1>0, <1>3, <2>2 DEF Lock
<1>4. ASSUME NEW r \in Requests, CommandFails(r) \/ StoreFlags(r) \/ AppendMail(r) \/ Close(r) PROVE Rest
  <2>1. req' \in [Requests -> RequestStates] /\ mutex' = NoOne
    BY <1>4, ReturnEffect DEF CommandFails, StoreFlags, AppendMail, Close
  <2>2. UNCHANGED <<ka, shown, polled, strayed>> /\ open' \in {open, FALSE}
    BY <1>4 DEF CommandFails, StoreFlags, AppendMail, Close
  <2> QED
    BY <1>0, <2>1, <2>2
<1>5. ASSUME NEW r \in Requests, SelectFolder(r) \/ CopyMail(r) \/ CopyNothing(r) PROVE Rest
  <2>1. req' \in [Requests -> RequestStates]
    BY <1>5, GotoEffect DEF SelectFolder, CopyMail, CopyNothing
  <2>2. UNCHANGED <<open, mutex, ka, shown, polled>>
    BY <1>5 DEF SelectFolder, CopyMail, CopyNothing
  <2>3. strayed' \in BOOLEAN
    BY <1>0, <1>5 DEF SelectFolder, CopyMail, CopyNothing
  <2> QED
    BY <1>0, <2>1, <2>2, <2>3
<1>6. ASSUME NEW r \in Requests, Fetch(r) PROVE Rest
  <2>1. req' \in [Requests -> RequestStates] /\ mutex' = NoOne
    BY <1>6, ReturnEffect DEF Fetch
  <2>2. UNCHANGED <<open, ka, strayed>>
    BY <1>6 DEF Fetch
  <2> QED
    BY <1>0, <1>6, <2>1, <2>2, FetchEffect
<1>7. ASSUME NEW r \in Requests, Check(r) PROVE Rest
  <2>1. [req[r] EXCEPT !.pc = "lock", !.nums = NewNumbers, !.told = told] \in RequestStates
    BY <1>0, NumbersEffect DEF RequestStates
  <2>2. req' \in [Requests -> RequestStates]
    BY <1>0, <1>7, <2>1, IdleState DEF Check
  <2> QED
    BY <1>0, <1>7, <2>2 DEF Check
<1>8. Rest
  BY <1>1, <1>2, <1>3, <1>4, <1>5, <1>6, <1>7 DEF Next, Step
<1> QED
  BY <1>8, StepEffect DEF TypeOK, TypeServer

\* The server tells no more \Recent messages than messages.
LEMMA CountsStep == TypeOK /\ CountsOk /\ OwnFolder /\ [Next]_vars => CountsOk'
<1> SUFFICES ASSUME TypeOK, CountsOk, OwnFolder, [Next]_vars PROVE CountsOk'
  OBVIOUS
<1>1. TypeServer' /\ Queues
  BY StepEffect
<1>2. CASE data' = data
  BY <1>2 DEF CountsOk
<1>3. CASE data' = NoData
  BY <1>3 DEF CountsOk, NoData
<1>4. CASE /\ recent' \subseteq told'
           /\ data' = [exists |-> Cardinality(told'), recent |-> Cardinality(recent')]
  BY <1>1, <1>4, CardMono DEF CountsOk, TypeServer
<1> QED
  BY <1>1, <1>2, <1>3, <1>4, Zenon DEF Queues

\* A request comes in only when the mutex is free, and gives it back when it leaves.
LEMMA MutexStep == TypeOK /\ MutexOk /\ [Next]_vars => MutexOk'
<1> SUFFICES ASSUME TypeOK, MutexOk, [Next]_vars PROVE MutexOk'
  OBVIOUS
<1> USE MailConAssumption
<1>0. \A r \in Requests : r # KEEPER /\ r # NoOne
  OBVIOUS
<1>1. ASSUME UNCHANGED <<req, mutex>> PROVE MutexOk'
  BY <1>1 DEF MutexOk, Inside
<1>2. ASSUME NEW r \in Requests, NEW o \in Ops[r], Call(r, o) PROVE MutexOk'
  BY <1>2 DEF MutexOk, Inside, Call, TypeOK
<1>3. ASSUME NEW r \in Requests, Lock(r) PROVE MutexOk'
  BY <1>0, <1>3 DEF MutexOk, Inside, Lock, Goto, TypeOK
<1>4. ASSUME NEW r \in Requests, mutex = r, Return(r) PROVE MutexOk'
  BY <1>0, <1>4, ReturnEffect DEF MutexOk, Inside
<1>5. ASSUME NEW r \in Requests, mutex = r, UNCHANGED mutex,
             NEW pc \in {"idle", "lock", "check", "select", "command", "store"}, Goto(r, pc)
      PROVE  MutexOk'
  BY <1>0, <1>5, GotoEffect DEF MutexOk, Inside
<1>6. ASSUME NEW r \in Requests, Check(r) PROVE MutexOk'
  <2>1. mutex = r /\ \A q \in Requests : q # r => req'[q] = req[q]
    BY <1>6 DEF Check, Holds, TypeOK
  <2>2. req'[r].pc \in {"idle", "lock"}
    BY <1>6 DEF Check, TypeOK, Idle, RequestStates
  <2> QED
    BY <2>1, <2>2, <1>6 DEF MutexOk, Inside
<1>7. ASSUME NEW r \in Requests, Step(r) PROVE MutexOk'
  <2>1. mutex = r
    BY <1>7 DEF Step, CommandFails, SelectFolder, Fetch, StoreFlags, CopyMail, CopyNothing, AppendMail,
                Check, Close, Holds
  <2>2. CASE SelectFolder(r)
    BY <1>5, <2>1, <2>2 DEF SelectFolder
  <2>3. CASE CopyMail(r) \/ CopyNothing(r)
    BY <1>5, <2>1, <2>3 DEF CopyMail, CopyNothing
  <2>4. CASE Check(r)
    BY <1>6, <2>4
  <2> QED
    BY <1>4, <1>7, <2>1, <2>2, <2>3, <2>4
       DEF Step, CommandFails, Fetch, StoreFlags, AppendMail, Close
<1>8. ASSUME KeeperLock \/ Noop PROVE MutexOk'
  BY <1>0, <1>8 DEF MutexOk, Inside, KeeperLock, Noop
<1> QED
  BY <1>1, <1>2, <1>3, <1>7, <1>8 DEF Next, Arrive, Expunge, Tick, Quit, vars

\* A request that is in its folder is alone past the lock, so nobody takes the folder
\* or the connection from it.
LEMMA OwnStep == TypeOK /\ MutexOk /\ OwnFolder /\ [Next]_vars => OwnFolder'
<1> DEFINE In(r) == At(r, "store") \/ (At(r, "command") /\ req[r].op.kind \notin {"send", "close"})
<1> SUFFICES ASSUME TypeOK, MutexOk, OwnFolder, [Next]_vars, NEW q \in Requests, In(q)'
             PROVE  sel' = req'[q].op.folder /\ open'
  BY Zenon DEF OwnFolder, At
<1> USE MailConAssumption
<1>a. req'[q].pc = "store" \/ (req'[q].pc = "command" /\ req'[q].op.kind \notin {"send", "close"})
  BY DEF At
<1>b. mutex \notin {KEEPER, NoOne} \/ mutex \notin Requests
  OBVIOUS
<1>1. ASSUME req'[q] = req[q], UNCHANGED <<sel, open>> PROVE sel' = req'[q].op.folder /\ open'
  BY <1>a, <1>1 DEF OwnFolder, At
\* Steps of the holder of the mutex, while q is in its folder.
<1>2. ASSUME NEW r \in Requests, Step(r), r # q PROVE FALSE
  <2>1. mutex = r
    BY <1>2 DEF Step, CommandFails, SelectFolder, Fetch, StoreFlags, CopyMail, CopyNothing, AppendMail,
                Check, Close, Holds
  <2>3. Return(r) \/ Goto(r, "command") \/ Goto(r, "store") \/ Check(r)
    BY <1>2 DEF Step, CommandFails, SelectFolder, Fetch, StoreFlags, CopyMail, CopyNothing, AppendMail, Close
  <2>4. req'[q] = req[q]
    BY <1>2, <2>3, ReturnEffect, GotoEffect DEF Check, TypeOK
  <2>2. Inside(q)
    BY <1>a, <2>4 DEF Inside
  <2> QED
    BY <1>2, <2>1, <2>2 DEF MutexOk
<1>3. ASSUME Step(q) PROVE sel' = req'[q].op.folder /\ open'
  <2>1. CASE SelectFolder(q)
    <3>1. req'[q].op = req[q].op
      BY <2>1, GotoEffect DEF SelectFolder
    <3> QED
      BY <2>1, <3>1 DEF SelectFolder
  <2>2. CASE CopyMail(q) \/ CopyNothing(q)
    <3>1. req'[q].op = req[q].op /\ sel' = sel /\ open' = open
      BY <2>2, GotoEffect DEF CopyMail, CopyNothing
    <3>2. sel = req[q].op.folder /\ open
      BY <2>2, SelectedIsOwn DEF CopyMail, CopyNothing, Holds
    <3> QED
      BY <3>1, <3>2
  <2>3. CASE Check(q)
    <3>1. req'[q].pc \in {"idle", "lock"}
      BY <2>3 DEF Check, TypeOK, Idle, RequestStates
    <3> QED
      BY <3>1, <1>a
  <2>4. CASE Return(q)
    BY <2>4, <1>a, ReturnEffect
  <2> QED
    BY <1>3, <2>1, <2>2, <2>3, <2>4
       DEF Step, CommandFails, Fetch, StoreFlags, AppendMail, Close
<1>4. ASSUME NEW r \in Requests, NEW o \in Ops[r], Call(r, o)
      PROVE  sel' = req'[q].op.folder /\ open'
  <2>1. req'[r].pc = "lock" /\ \A p \in Requests : p # r => req'[p] = req[p]
    BY <1>4 DEF Call, TypeOK
  <2>2. UNCHANGED <<sel, open>>
    BY <1>4 DEF Call, session
  <2> QED
    BY <1>a, <1>1, <2>1, <2>2
<1>5. ASSUME NEW r \in Requests, Lock(r) PROVE sel' = req'[q].op.folder /\ open'
  <2>1. EntryStep(r) \in {"check", "command", "select"}
        /\ (EntryStep(r) = "command" => req[r].op.kind \in {"send", "close"})
    BY DEF EntryStep
  <2>2. /\ req'[r].pc = EntryStep(r) /\ req'[r].op = req[r].op
        /\ \A p \in Requests : p # r => req'[p] = req[p]
    BY <1>5, <2>1, GotoEffect DEF Lock
  <2>3. UNCHANGED <<sel, open>>
    BY <1>5 DEF Lock, session
  <2> QED
    BY <1>a, <1>1, <2>1, <2>2, <2>3
<1>6. ASSUME Arrive \/ Expunge \/ Tick \/ KeeperLock \/ Noop \/ Quit \/ UNCHANGED vars
      PROVE  sel' = req'[q].op.folder /\ open'
  BY <1>1, <1>6 DEF Arrive, Expunge, Tick, KeeperLock, Noop, Quit, vars, session
<1> QED
  BY <1>2, <1>3, <1>4, <1>5, <1>6 DEF Next

-----------------------------------------------------------------------------
\* What the assumptions say of the older messages.
LEMMA OlderFacts ==
  /\ Older \subseteq Mails /\ Mails \subseteq Nat /\ INBOX \in Folders
  /\ \A n \in Older, m \in Mails \ Older : n < m
<1>1. \A m \in Mails \ Older : m \in Fresh \cup (Mails \ OldBox)
  BY DEF Older
<1> QED
  BY <1>1, MailConAssumption DEF Older

\* Whatever comes is behind all that was there, and none of the older messages.
LEMMA UnusedIsNew ==
  ASSUME NEW m \in Unused, NEW n \in Used
  PROVE  n < m /\ m # n
<1>1. n < m /\ m \in Nat
  BY OlderFacts DEF Unused
<1> QED
  BY <1>1

\* T is a Basis of the INBOX in the next state.
BasisNext(T) ==
  /\ Older \cap (box'[INBOX] \cup view') \subseteq T /\ T \subseteq Used'
  /\ \A m \in box'[INBOX] \ T, n \in T : n < m

LEMMA BasisKept ==
  ASSUME Keeps, Sees, Older \subseteq gone \cup box[INBOX], sel' \in {INBOX, NoFolder},
         NEW T, Basis(T)
  PROVE  BasisNext(T)
<1> USE OlderFacts, MailConAssumption
<1>1. Older \subseteq Used
  BY DEF Used
<1>2. box'[INBOX] \subseteq box[INBOX] \cup Unused
  BY DEF Keeps
<1>3. view' \subseteq view \/ view' = box'[INBOX]
  BY DEF Sees
<1>4. Older \cap Unused = {}
  BY <1>1, UnusedIsNew
<1>5. Older \cap (box'[INBOX] \cup view') \subseteq T
  BY <1>2, <1>3, <1>4 DEF Basis
<1>6. ASSUME NEW m \in Used PROVE m \in Used'
  <2>1. CASE m \in gone
    BY <2>1 DEF Keeps, Used
  <2>2. CASE \E f \in Folders : m \in box[f]
    <3>1. PICK f \in Folders : m \in box[f]
      BY <2>2
    <3>2. m \in box'[f] \cup gone'
      BY <3>1 DEF Keeps
    <3> QED
      BY <3>1, <3>2 DEF Used
  <2> QED
    BY <2>1, <2>2 DEF Used
<1>7. \A m \in box'[INBOX] \ T, n \in T : n < m
  BY <1>2, UnusedIsNew DEF Basis
<1> QED
  BY <1>5, <1>6, <1>7 DEF Basis, BasisNext

\* What a step does to the numbers that polls have found.
LEMMA NumsEffect ==
  ASSUME TypeOK, [Next]_vars, NEW q \in Requests
  PROVE  \/ req'[q].nums = {}
         \/ req'[q].nums = req[q].nums /\ req'[q].told = req[q].told
         \/ req'[q].nums = NewNumbers /\ req'[q].told = told
<1> DEFINE Effect == \/ req'[q].nums = {}
                     \/ req'[q].nums = req[q].nums /\ req'[q].told = req[q].told
                     \/ req'[q].nums = NewNumbers /\ req'[q].told = told
<1>0. req \in [Requests -> RequestStates]
  BY DEF TypeOK
<1>1. ASSUME Arrive \/ Expunge \/ Tick \/ KeeperLock \/ Noop \/ Quit \/ UNCHANGED vars PROVE Effect
  BY <1>1 DEF Arrive, Expunge, Tick, KeeperLock, Noop, Quit, vars
<1>2. ASSUME NEW r \in Requests, NEW o \in Ops[r], Call(r, o) PROVE Effect
  BY <1>0, <1>2 DEF Call
<1>3. ASSUME NEW r \in Requests, Return(r) PROVE Effect
  BY <1>3, ReturnEffect
<1>4. ASSUME NEW r \in Requests,
             NEW pc \in {"idle", "lock", "check", "select", "command", "store"}, Goto(r, pc)
      PROVE  Effect
  BY <1>4, GotoEffect
<1>5. ASSUME NEW r \in Requests, Check(r) PROVE Effect
  <2>1. CASE q # r
    BY <1>0, <1>5, <2>1 DEF Check
  <2>2. CASE q = r
    <3>1. req'[q] = Idle \/ req'[q] = [req[q] EXCEPT !.pc = "lock", !.nums = NewNumbers, !.told = told]
      BY <1>0, <1>5, <2>2 DEF Check
    <3>2. req[q] = [pc |-> req[q].pc, op |-> req[q].op, nums |-> req[q].nums, told |-> req[q].told]
      BY <1>0 DEF RequestStates
    <3>3. CASE req'[q] = Idle
      BY <3>3 DEF Idle
    <3>4. CASE req'[q] = [req[q] EXCEPT !.pc = "lock", !.nums = NewNumbers, !.told = told]
      <4>1. req'[q] = [pc |-> "lock", op |-> req[q].op, nums |-> NewNumbers, told |-> told]
        BY <3>2, <3>4
      <4> QED
        BY <4>1
    <3> QED
      BY <3>1, <3>3, <3>4
  <2> QED
    BY <2>1, <2>2
<1>6. ASSUME NEW r \in Requests, Lock(r) PROVE Effect
  <2>1. EntryStep(r) \in {"check", "command", "select"}
    BY DEF EntryStep
  <2> QED
    BY <1>4, <1>6, <2>1 DEF Lock
<1> QED
  BY <1>1, <1>2, <1>3, <1>4, <1>5, <1>6
     DEF Next, Step, CommandFails, SelectFolder, Fetch, StoreFlags, CopyMail, CopyNothing, AppendMail, Close

\* Numbers counted from the end of a basis name none of the older messages that the
\* session still sees: each of them has no others than older ones before it.
LEMMA NamedAreNew ==
  ASSUME TypeOK, NEW T, T \subseteq Mails, NEW nums, Named(T, nums)
  PROVE  Numbered(view, nums) \cap Older = {}
<1> SUFFICES ASSUME NEW m \in Numbered(view, nums), m \in Older PROVE FALSE
  OBVIOUS
<1>1. m \in view /\ view \subseteq Mails
  BY DEF Numbered, TypeOK
<1> DEFINE before == {n \in view : n <= m}
<1>2. Cardinality(before) \in nums
  BY DEF Numbered
<1>3. before \subseteq Older \cap T
  <2> SUFFICES ASSUME NEW n \in view, n <= m PROVE n \in Older \cap T
    OBVIOUS
  <2>1. n \in Older
    <3> SUFFICES ASSUME n \notin Older PROVE FALSE
      OBVIOUS
    <3>1. m < n /\ m \in Nat /\ n \in Nat
      BY <1>1, OlderFacts
    <3> QED
      BY <3>1
  <2> QED
    BY <2>1 DEF Named, Basis
<1>4. Cardinality(before) <= Cardinality(Older \cap T)
  BY <1>3, CardMono
<1>5. Cardinality(Older \cap T) < Cardinality(before)
  BY <1>2 DEF Named
<1>6. Cardinality(before) \in Nat /\ Cardinality(Older \cap T) \in Nat
  BY <1>1, CardType
<1> QED
  BY <1>4, <1>5, <1>6

LEMMA InboxStep == TypeOK /\ CountsOk /\ OwnFolder /\ InboxOk /\ [Next]_vars => InboxOk'
<1> SUFFICES ASSUME TypeOK, CountsOk, OwnFolder, InboxOk, [Next]_vars PROVE InboxOk'
  OBVIOUS
<1> USE MailConAssumption
<1>1. TypeServer' /\ Keeps /\ Sees /\ Queues /\ Selects
  BY StepEffect
<1>2. Older \subseteq gone \cup box[INBOX]
  BY DEF InboxOk
<1>3. Older \subseteq gone' \cup box'[INBOX]
  BY <1>1, <1>2 DEF Keeps
<1> SUFFICES ASSUME ~strayed' PROVE OnlyInbox'
  BY <1>3 DEF InboxOk
<1>4. OnlyInbox
  <2>1. ~strayed
    BY <1>1, Zenon DEF Selects
  <2> QED
    BY <2>1 DEF InboxOk
<1>5. sel' \in {INBOX, NoFolder}
  <2>1. sel' \in {sel, NoFolder, INBOX}
    BY <1>1, Zenon DEF Selects
  <2> QED
    BY <1>4, <2>1 DEF OnlyInbox
<1>6. (recent' \cup unclaimed'[INBOX]) \cap Older = {}
  <2>1. Older \cap Unused = {}
    <3>1. Older \subseteq Used
      BY <1>2 DEF Used
    <3> QED
      BY <3>1, UnusedIsNew
  <2>2. recent' \subseteq recent \cup unclaimed[INBOX] \cup Unused
    BY <1>1, <1>5 DEF Sees
  <2>3. unclaimed'[INBOX] \subseteq unclaimed[INBOX] \cup Unused
    BY <1>1 DEF Sees
  <2> QED
    BY <1>4, <2>1, <2>2, <2>3 DEF OnlyInbox
<1>7. ASSUME NEW T, Basis(T) PROVE BasisNext(T)
  BY <1>1, <1>2, <1>5, <1>7, BasisKept
<1>8. ASSUME data'.recent > 0 PROVE Counted(told, data.exists, data.recent)'
  <2>1. CASE data' = data /\ told' = told
    <3>1. Counted(told, data.exists, data.recent)
      BY <1>4, <1>8, <2>1 DEF OnlyInbox
    <3> QED
      BY <1>7, <2>1, <3>1 DEF Counted, Basis, BasisNext
  <2>2. CASE data' = NoData
    BY <1>8, <2>2 DEF NoData
  <2>3. CASE /\ sel' \in Folders /\ told' = box'[sel'] /\ view' = told' /\ recent' \subseteq told'
             /\ data' = [exists |-> Cardinality(told'), recent |-> Cardinality(recent')]
    <3>1. told' = box'[INBOX] /\ view' = box'[INBOX] /\ told' \subseteq Mails
      BY <1>1, <1>5, <2>3 DEF TypeServer
    <3>2. Basis(told)'
      BY <3>1 DEF Basis, Used
    <3>3. Cardinality(recent') + Cardinality(Older \cap told') <= Cardinality(told')
      BY <1>6, <2>3, <3>1, CardSum
    <3> QED
      BY <2>3, <3>2, <3>3 DEF Counted
  <2> QED
    BY <1>1, <2>1, <2>2, <2>3, Zenon DEF Queues
<1>9. ASSUME NEW q \in Requests, req'[q].nums # {} PROVE Named(req[q].told, req[q].nums)'
  <2>1. CASE req'[q].nums = req[q].nums /\ req'[q].told = req[q].told
    <3>1. Named(req[q].told, req[q].nums)
      BY <1>4, <1>9, <2>1 DEF OnlyInbox
    <3> QED
      BY <1>7, <2>1, <3>1 DEF Named, Basis, BasisNext
  <2>2. CASE req'[q].nums = NewNumbers /\ req'[q].told = told
    <3>1. \A n \in NewNumbers : data.exists - data.recent < n /\ n <= data.exists /\ data.recent > 0
      BY NumbersEffect
    <3>2. Counted(told, data.exists, data.recent)
      BY <1>4, <1>9, <2>2, <3>1 DEF OnlyInbox
    <3>3. Cardinality(told) \in Nat /\ Cardinality(Older \cap told) \in Nat /\ data.recent \in Nat
          /\ NewNumbers \subseteq Nat
      BY CardType, NumbersEffect DEF TypeOK
    <3>4. \A n \in NewNumbers : Cardinality(Older \cap told) < n /\ n <= Cardinality(told)
      BY <3>1, <3>2, <3>3 DEF Counted
    <3> QED
      BY <1>7, <2>2, <3>2, <3>4 DEF Counted, Named, Basis, BasisNext
  <2> QED
    BY <1>9, <2>1, <2>2, NumsEffect
<1>10. polled' \cap Older = {}
  <2>1. CASE polled' = polled
    BY <1>4, <2>1 DEF OnlyInbox
  <2>2. ASSUME NEW r \in Requests, Fetch(r), polled' # polled PROVE polled' \cap Older = {}
    <3>1. polled' = polled \cup (box[sel] \cap Numbered(view, req[r].nums))
      BY <2>2, FetchEffect
    <3>2. Numbered(view, req[r].nums) \cap Older = {}
      <4>1. CASE req[r].nums = {}
        BY <4>1 DEF Numbered
      <4>2. CASE req[r].nums # {}
        <5>1. Named(req[r].told, req[r].nums) /\ req[r].told \subseteq Mails
          BY <1>4, <4>2 DEF OnlyInbox, TypeOK, RequestStates
        <5> QED
          BY <5>1, NamedAreNew
      <4> QED
        BY <4>1, <4>2
    <3> QED
      BY <1>4, <3>1, <3>2 DEF OnlyInbox
  <2>3. polled' = polled \/ \E r \in Requests : Fetch(r)
    BY DEF Next, Arrive, Expunge, Call, Lock, Step, CommandFails, SelectFolder, StoreFlags, CopyMail,
           CopyNothing, AppendMail, Check, Close, Tick, KeeperLock, Noop, Quit, vars
  <2> QED
    BY <2>1, <2>2, <2>3
<1> QED
  BY <1>5, <1>6, <1>8, <1>9, <1>10 DEF OnlyInbox

-----------------------------------------------------------------------------
LEMMA InitInv == Init => IInv
<1> SUFFICES ASSUME Init PROVE IInv
  OBVIOUS
<1> USE MailConAssumption
<1>1. /\ box \in [Folders -> SUBSET Mails] /\ unclaimed \in [Folders -> SUBSET Mails]
      /\ box[INBOX] = OldBox /\ unclaimed[INBOX] = {}
  BY DEF Init
<1>2. TypeOK
  <2>1. req \in [Requests -> RequestStates] /\ data \in [exists : Nat, recent : Nat]
    BY IdleState DEF Init, NoData
  <2>2. /\ gone \subseteq Mails /\ view \subseteq Mails /\ recent \subseteq Mails /\ told \subseteq Mails
        /\ shown \subseteq Mails /\ polled \subseteq Mails /\ sel \in Folders \cup {NoFolder}
    BY DEF Init
  <2>3. /\ open \in BOOLEAN /\ mutex \in Requests \cup {KEEPER, NoOne}
        /\ ka \in {"wait", "lock", "noop", "ended"} /\ strayed \in BOOLEAN
    BY DEF Init
  <2> QED
    BY <1>1, <2>1, <2>2, <2>3 DEF TypeOK
<1>3. MutexOk /\ OwnFolder
  BY DEF Init, MutexOk, Inside, OwnFolder, At, Idle
<1>4. CountsOk
  BY DEF Init, CountsOk, NoData
<1>5. InboxOk
  BY <1>1 DEF Init, InboxOk, OnlyInbox, Older, Idle, NoData
<1> QED
  BY <1>2, <1>3, <1>4, <1>5 DEF IInv

LEMMA Invariant == Spec => []IInv
<1>1. IInv /\ [Next]_vars => IInv'
  BY TypeStep, MutexStep, CountsStep, OwnStep, InboxStep DEF IInv
<1> QED
  BY <1>1, InitInv, PTL DEF Spec

\* The folders, the queue of unasked responses and the requests keep their types; no
\* sequence number that a poll makes of the queue is zero or negative.
THEOREM TypeCorrect == Spec => []TypeOK
<1>1. IInv => TypeOK
  BY DEF IInv
<1> QED
  BY <1>1, Invariant, PTL

\* Whatever the other goroutines do, a command that follows a SELECT is sent over an
\* open connection in the folder its own operation selected.
THEOREM CommandsInOwnFolder == Spec => []OwnFolder
<1>1. IInv => OwnFolder
  BY DEF IInv
<1> QED
  BY <1>1, Invariant, PTL

\* Messages behind all those of T leave the numbers of those as they were.
LEMMA NumbersStand ==
  ASSUME NEW B, B \subseteq Mails, NEW T, T \subseteq B,
         \A m \in B \ T, n \in T : n < m,
         NEW nums, \A i \in nums : i <= Cardinality(T)
  PROVE  Numbered(B, nums) = Numbered(T, nums)
<1> USE OlderFacts
<1>1. ASSUME NEW m \in T PROVE {n \in B : n <= m} = {n \in T : n <= m}
  <2> SUFFICES ASSUME NEW n \in B, n <= m, n \notin T PROVE FALSE
    OBVIOUS
  <2>1. m < n /\ m \in Nat /\ n \in Nat
    OBVIOUS
  <2> QED
    BY <2>1
<1>2. ASSUME NEW m \in B, m \notin T PROVE Cardinality({n \in B : n <= m}) \notin nums
  <2> DEFINE before == {n \in B : n <= m}
  <2>1. m \in Nat /\ \A n \in T : n \in Nat /\ n < m
    BY <1>2
  <2>2. T \subseteq before \ {m} /\ m \in before /\ before \subseteq Mails
    <3>0. m <= m
      BY <2>1
    <3>1. before \subseteq Mails /\ m \in before
      BY <3>0
    <3>2. ASSUME NEW n \in T PROVE n \in before /\ n # m
      <4>1. n < m /\ n \in Nat /\ m \in Nat
        BY <2>1
      <4> QED
        BY <4>1
    <3> QED
      BY <3>1, <3>2
  <2> HIDE DEF before
  <2>3. IsFiniteSet(before) /\ before \ {m} \subseteq Mails /\ Cardinality(before) \in Nat
    BY <2>2, CardType
  <2>4. Cardinality(before \ {m}) = Cardinality(before) - 1
    BY <2>2, <2>3, FS_RemoveElement
  <2>5. Cardinality(T) <= Cardinality(before \ {m}) /\ Cardinality(T) \in Nat
    BY <2>2, <2>3, CardMono, CardType
  <2>6. ~(Cardinality(before) <= Cardinality(T))
    BY <2>3, <2>4, <2>5
  <2>7. Cardinality(before) \notin nums
    BY <2>6
  <2> QED
    BY <2>7 DEF before
<1> QED
  BY <1>1, <1>2 DEF Numbered

\* While only the INBOX is selected, the numbers CheckNewMails gives to the load that
\* follows name the messages that were announced, although the mutex is free between
\* the two and messages arrive, unless one of those the INBOX had was expunged.
THEOREM PollNamesMessages == Spec => []PollFindsItsMails
<1>1. IInv => PollFindsItsMails
  <2> SUFFICES ASSUME IInv, ~strayed, NEW r \in Requests
               PROVE  /\ req[r].nums \subseteq 1 .. Cardinality(req[r].told)
                      /\ req[r].told \subseteq box[INBOX] =>
                           Numbered(box[INBOX], req[r].nums) = Numbered(req[r].told, req[r].nums)
    BY DEF PollFindsItsMails
  <2> DEFINE T == req[r].told
             nums == req[r].nums
             B == box[INBOX]
  <2>1. CASE nums = {}
    BY <2>1 DEF Numbered
  <2>2. CASE nums # {}
    <3>1. Named(T, nums)
      BY <2>2 DEF IInv, InboxOk, OnlyInbox
    <3>2. nums \subseteq Nat \ {0} /\ T \subseteq Mails /\ B \subseteq Mails
      BY OpFacts, OlderFacts DEF IInv, TypeOK, RequestStates
    <3>3. /\ \A i \in nums : i <= Cardinality(T)
          /\ \A m \in B \ T, n \in T : n < m
      BY <3>1 DEF Named, Basis
    <3> HIDE DEF T, nums, B
    <3>4. nums \subseteq 1 .. Cardinality(T)
      BY <3>2, <3>3, CardType
    <3>5. ASSUME T \subseteq B PROVE Numbered(B, nums) = Numbered(T, nums)
      <4>1. \A i \in nums : i <= Cardinality(T)
        BY <3>3
      <4>2. \A m \in B \ T, n \in T : n < m
        BY <3>3
      <4>3. B \subseteq Mails
        BY <3>2
      <4> QED
        BY <3>5, <4>1, <4>2, <4>3, NumbersStand
    <3> QED
      BY <3>4, <3>5 DEF T, nums, B
  <2> QED
    BY <2>1, <2>2
<1> QED
  BY <1>1, Invariant, PTL

\* While only the INBOX is selected, polls answer with mails of the session or \Recent
\* when it began, and never with older ones, also when messages were expunged meanwhile.
THEOREM PollsBringRecent == Spec => []PollOnlyRecent
<1>1. IInv => PollOnlyRecent
  BY DEF IInv, InboxOk, OnlyInbox, PollOnlyRecent, Older
<1> QED
  BY <1>1, Invariant, PTL
=============================================================================
