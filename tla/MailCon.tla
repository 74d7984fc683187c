------------------------------ MODULE MailCon ------------------------------
(***************************************************************************)
(* One connection of watney to the IMAP server (mail.go, MailCon) and the  *)
(* poll for new mails (web.go, poll) that runs over it.                    *)
(*                                                                         *)
(* Every handler goroutine of the user and the keepAlive goroutine share   *)
(* the connection, its mutex, the folder the server has selected, and      *)
(* client.Data, the queue in which the IMAP library leaves the responses   *)
(* nobody asked for: "n EXISTS" and "n RECENT".  Of that queue CheckNewMails *)
(* uses the last number of each kind, so the model keeps just these two.   *)
(*                                                                         *)
(* The server follows RFC 3501.  A message is its UID: later ones have      *)
(* larger UIDs, and the sequence number of a message is its rank in what    *)
(* the session was told the selected folder holds.  A message is \Recent to *)
(* the session if no session was told of it before; RECENT counts those it  *)
(* was told of since the folder was selected, those of the answer to SELECT *)
(* included.  A command may carry the news, a NOOP does: EXPUNGE for each   *)
(* message that went, EXISTS and RECENT if messages came.  Another program  *)
(* expunges messages, but is told of none before this session.              *)
(***************************************************************************)
EXTENDS Integers, FiniteSets

CONSTANTS Mails,      \* messages, by UID: a bound of what can arrive, be copied or sent
          Requests,   \* handler goroutines
          Folders, INBOX, NoFolder,
          KEEPER,     \* the keepAlive goroutine
          NoOne,      \* nobody holds the mutex
          Ops,        \* bound: the operations each request may ask for
          Faults,     \* whether the server may refuse a command
          OldBox,     \* the INBOX before the session
          Fresh,      \* its messages that were \Recent when the session began
          Purged      \* bound: messages that another program may expunge

Kinds == {"mails", "content", "flags", "move", "send", "poll", "close"}

ASSUME MailConAssumption ==
  /\ INBOX \in Folders /\ NoFolder \notin Folders
  /\ KEEPER \notin Requests /\ NoOne \notin Requests \cup {KEEPER}
  /\ Ops \in [Requests -> SUBSET [kind : Kinds, folder : Folders, into : Folders]]
  /\ \A r \in Requests : \A o \in Ops[r] : o.kind = "poll" => o.folder = INBOX
  /\ Faults \in BOOLEAN
  /\ Mails \subseteq Nat /\ IsFiniteSet(Mails)
  /\ OldBox \subseteq Mails /\ Fresh \subseteq OldBox
  /\ \A n \in OldBox \ Fresh, m \in Fresh \cup (Mails \ OldBox) : n < m

VARIABLES
  box,        \* server: the messages of each folder
  gone,       \* server: messages that were expunged
  unclaimed,  \* server: messages of each folder that no session was told of
  sel,        \* server: the selected folder
  view,       \* server: its messages as the session was told of them
  recent,     \* server: the \Recent ones that RECENT counts
  open,       \* client.State() is Auth or Selected
  data,       \* client.Data: the last EXISTS and RECENT in it, 0 for none
  told,       \* history: the messages that EXISTS counts
  mutex,      \* the goroutine that holds mc.mutex
  req,        \* each request: where it is, its operation, the numbers a poll found
              \* and, as history, the messages that were told then
  ka,         \* where keepAlive is
  shown,      \* browser: the mails of its Inbox
  polled,     \* the mails polls have answered with
  strayed     \* history: another folder than the INBOX was selected

session == <<sel, view, recent, unclaimed>>
client == <<data, told>>
vars == <<box, gone, session, open, client, mutex, req, ka, shown, polled, strayed>>

NoOp == [kind |-> "none", folder |-> INBOX, into |-> INBOX]
Idle == [pc |-> "idle", op |-> NoOp, nums |-> {}, told |-> {}]
NoData == [exists |-> 0, recent |-> 0]
Used == gone \cup UNION {box[f] : f \in Folders}
Unused == {m \in Mails : \A n \in Used : n < m}

\* The messages of S that have the sequence numbers.
Numbered(S, nums) == {m \in S : Cardinality({n \in S : n <= m}) \in nums}

-----------------------------------------------------------------------------
(* The server.                                                             *)

\* A message reaches folder f.
Deliver(m, f) == box' = [box EXCEPT ![f] = @ \cup {m}] /\ gone' = gone
Delivered(m, f) == [unclaimed EXCEPT ![f] = @ \cup {m}]

Arrive ==
  /\ \E m \in Unused : Deliver(m, INBOX) /\ unclaimed' = Delivered(m, INBOX)
  /\ UNCHANGED <<sel, view, recent, open, client, mutex, req, ka, shown, polled, strayed>>

\* Another program expunges a message.
Expunge ==
  /\ \E f \in Folders : \E m \in box[f] \cap Purged :
       /\ box' = [box EXCEPT ![f] = @ \ {m}] /\ gone' = gone \cup {m}
       /\ unclaimed' = [unclaimed EXCEPT ![f] = @ \ {m}]
  /\ UNCHANGED <<sel, view, recent, open, client, mutex, req, ka, shown, polled, strayed>>

\* The session is told of the selected folder, or not yet; u is unclaimed with
\* what the command has delivered.
Claim(u) ==
  /\ view' = box'[sel] /\ recent' = (recent \cup u[sel]) \cap box'[sel]
  /\ unclaimed' = [u EXCEPT ![sel] = {}]
Quiet(u) == view' = view /\ recent' = recent /\ unclaimed' = u

\* What the news leaves in client.Data, where CheckNewMails skips EXPUNGE.
News ==
  IF box'[sel] \subseteq view THEN UNCHANGED client
  ELSE /\ data' = [exists |-> Cardinality(box'[sel]), recent |-> Cardinality(recent')]
       /\ told' = box'[sel]
MayTell(u) ==
  \/ Quiet(u) /\ UNCHANGED client
  \/ sel \in Folders /\ Claim(u) /\ News

-----------------------------------------------------------------------------
(* The mutex, and how a request starts and ends.                           *)

At(r, pc) == req[r].pc = pc
Holds(r, pc, kinds) == At(r, pc) /\ mutex = r /\ req[r].op.kind \in kinds

Goto(r, pc) == req' = [req EXCEPT ![r].pc = pc]
Return(r) == req' = [req EXCEPT ![r] = Idle] /\ mutex' = NoOne

\* The browser sends a request.  It polls again only after an answer, and a
\* logout closes only a connection that is authenticated.
Call(r, o) ==
  /\ At(r, "idle")
  /\ o.kind = "poll" => \A q \in Requests : req[q].op.kind # "poll"
  /\ o.kind = "close" => open
  /\ req' = [req EXCEPT ![r] = [pc |-> "lock", op |-> o, nums |-> {}, told |-> {}]]
  /\ UNCHANGED <<box, gone, session, open, client, mutex, ka, shown, polled, strayed>>

EntryStep(r) ==
  IF req[r].op.kind = "poll" /\ req[r].nums = {} THEN "check"
  ELSE IF req[r].op.kind \in {"send", "close"} THEN "command" ELSE "select"
FaultyLock(r) ==
  /\ At(r, "lock") /\ mutex' = r /\ Goto(r, EntryStep(r))
  /\ UNCHANGED <<box, gone, session, open, client, ka, shown, polled, strayed>>
Lock(r) ==
  /\ At(r, "lock") /\ mutex = NoOne
  /\ mutex' = r
  /\ Goto(r, EntryStep(r))
  /\ UNCHANGED <<box, gone, session, open, client, ka, shown, polled, strayed>>

\* A command is refused, or fails because the connection is closed.
FaultyCommandFails(r) ==
  /\ Holds(r, "select", Kinds) \/ Holds(r, "store", Kinds) \/ Holds(r, "command", Kinds \ {"close"})
  /\ Faults \/ ~open
  /\ Goto(r, "lock") /\ mutex' = NoOne
  /\ UNCHANGED <<box, gone, session, open, client, ka, shown, polled, strayed>>
CommandFails(r) ==
  /\ \/ Holds(r, "select", Kinds) \/ Holds(r, "store", Kinds)
     \/ Holds(r, "command", Kinds \ {"close"})
  /\ Faults \/ ~open
  /\ Return(r)
  /\ IF At(r, "select") /\ open THEN sel' = NoFolder /\ view' = {} /\ recent' = {}
                                ELSE UNCHANGED <<sel, view, recent>>
  /\ UNCHANGED <<box, gone, unclaimed, open, client, ka, shown, polled, strayed>>

-----------------------------------------------------------------------------
(* The operations.                                                         *)

SelectFolder(r) ==
  LET f == req[r].op.folder IN
  /\ Holds(r, "select", Kinds) /\ open
  /\ sel' = f /\ view' = box[f]
  /\ recent' = unclaimed[f] /\ unclaimed' = [unclaimed EXCEPT ![f] = {}]
  /\ data' = NoData /\ told' = {}
  /\ strayed' = (strayed \/ f # INBOX)
  /\ Goto(r, "command")
  /\ UNCHANGED <<box, gone, open, mutex, ka, shown, polled>>

\* loadMails, once its folder is selected, of "1:*" or of the numbers a poll has
\* found: the queue is emptied although the answer to FETCH may have brought news.
\* The browser shows a whole Inbox it loads and adds the mails of a poll; a poll
\* that finds fewer mails than numbers is answered as failed.
Fetch(r) ==
  LET found == box[sel] \cap IF req[r].op.kind = "poll" THEN Numbered(view, req[r].nums) ELSE view
      complete == Cardinality(found) = Cardinality(req[r].nums) IN
  /\ Holds(r, "command", {"mails", "content", "poll"}) /\ open
  /\ UNCHANGED <<box, gone, sel, open, ka, strayed>>
  /\ Quiet(unclaimed) \/ Claim(unclaimed)
  /\ data' = NoData /\ told' = {}
  /\ CASE req[r].op.kind = "mails" /\ sel = INBOX -> shown' = found /\ polled' = polled
       [] req[r].op.kind = "poll" /\ complete -> shown' = shown \cup found /\ polled' = polled \cup found
       [] OTHER -> UNCHANGED <<shown, polled>>
  /\ Return(r)

\* UpdateMailFlags, and the end of a move.
StoreFlags(r) ==
  /\ Holds(r, "command", {"flags"}) \/ Holds(r, "store", {"move"})
  /\ open
  /\ UNCHANGED <<box, gone, sel, open, ka, shown, polled, strayed>>
  /\ MayTell(unclaimed)
  /\ Return(r)

\* The COPY of moveMail_internal.  One that finds nothing under the UID succeeds
\* as well, and the STORE follows.
CopyMail(r) ==
  /\ Holds(r, "command", {"move"}) /\ open
  /\ UNCHANGED <<sel, open, mutex, ka, shown, polled, strayed>>
  /\ \E m \in Unused : Deliver(m, req[r].op.into) /\ MayTell(Delivered(m, req[r].op.into))
  /\ Goto(r, "store")

CopyNothing(r) ==
  /\ Holds(r, "command", {"move"}) /\ open
  /\ UNCHANGED <<box, gone, sel, open, mutex, ka, shown, polled, strayed>>
  /\ MayTell(unclaimed)
  /\ Goto(r, "store")

\* SendMail appends the mail to the folder Sent without selecting it.
AppendMail(r) ==
  /\ Holds(r, "command", {"send"}) /\ open
  /\ UNCHANGED <<sel, open, ka, shown, polled, strayed>>
  /\ IF Unused = {} THEN UNCHANGED <<box, gone, view, recent, unclaimed, client>>
     ELSE \E m \in Unused : Deliver(m, req[r].op.into) /\ MayTell(Delivered(m, req[r].op.into))
  /\ Return(r)

\* CheckNewMails.  The handler gives the mutex back before it loads the mails.
FaultyOneMore == {data.exists - i : i \in 0..data.recent}
FaultyOneHigher == {data.exists - i + 1 : i \in 0..(data.recent - 1)}
NewNumbers == {data.exists - i : i \in 0..(data.recent - 1)}

Check(r) ==
  /\ Holds(r, "check", {"poll"})
  /\ data' = NoData /\ told' = {} /\ mutex' = NoOne
  /\ req' = [req EXCEPT ![r] = IF NewNumbers = {} THEN Idle
                             ELSE [@ EXCEPT !.pc = "lock", !.nums = NewNumbers, !.told = told]]
  /\ UNCHANGED <<box, gone, session, open, ka, shown, polled, strayed>>

\* Close: QuitChan is closed and LOGOUT sent, under the mutex.  A second Close
\* panics at the closed channel, which gives the mutex back and changes nothing.
Close(r) ==
  /\ Holds(r, "command", {"close"})
  /\ open' = FALSE
  /\ Return(r)
  /\ UNCHANGED <<box, gone, session, client, ka, shown, polled, strayed>>

-----------------------------------------------------------------------------
(* keepAlive: a NOOP every ten seconds until QuitChan is closed.           *)

Tick ==
  /\ ka = "wait" /\ ka' = "lock"
  /\ UNCHANGED <<box, gone, session, open, client, mutex, req, shown, polled, strayed>>

KeeperLock ==
  /\ ka = "lock" /\ mutex = NoOne
  /\ mutex' = KEEPER /\ ka' = "noop"
  /\ UNCHANGED <<box, gone, session, open, client, req, shown, polled, strayed>>

FaultyNoop ==
  /\ ka = "noop" /\ mutex = KEEPER
  /\ mutex' = NoOne /\ ka' = IF open THEN "wait" ELSE "lock"
  /\ UNCHANGED <<box, gone, session, open, client, req, shown, polled, strayed>>
Noop ==
  /\ ka = "noop" /\ mutex = KEEPER
  /\ mutex' = NoOne /\ ka' = "wait"
  /\ UNCHANGED <<box, gone, sel, open, req, shown, polled, strayed>>
  /\ IF open /\ sel \in Folders THEN Claim(unclaimed) /\ News
     ELSE UNCHANGED <<view, recent, unclaimed, client>>

Quit ==
  /\ ka = "wait" /\ ~open
  /\ ka' = "ended"
  /\ UNCHANGED <<box, gone, session, open, client, mutex, req, shown, polled, strayed>>

-----------------------------------------------------------------------------
\* The session right after the browser's first load of the Inbox, which dropped the
\* RECENT of its SELECT.
Init ==
  /\ box = [f \in Folders |-> IF f = INBOX THEN OldBox ELSE {}] /\ gone = {}
  /\ unclaimed = [f \in Folders |-> {}]
  /\ sel = INBOX /\ view = OldBox /\ recent = Fresh /\ told = {}
  /\ open = TRUE /\ data = NoData /\ mutex = NoOne
  /\ req = [r \in Requests |-> Idle]
  /\ ka = "wait" /\ shown = OldBox /\ polled = {} /\ strayed = FALSE

Step(r) ==
  \/ CommandFails(r) \/ SelectFolder(r) \/ Fetch(r) \/ StoreFlags(r)
  \/ CopyMail(r) \/ CopyNothing(r) \/ AppendMail(r) \/ Check(r) \/ Close(r)

Next ==
  \/ Arrive \/ Expunge
  \/ \E r \in Requests : (\E o \in Ops[r] : Call(r, o)) \/ Lock(r) \/ Step(r)
  \/ Tick \/ KeeperLock \/ Noop \/ Quit

\* A goroutine that can go on does; Go's mutex and select starve nobody; the
\* ticker ticks, and the browser polls again after each answer.
Fairness ==
  /\ \A r \in Requests : WF_vars(Step(r)) /\ SF_vars(Lock(r))
  /\ WF_vars(Tick) /\ SF_vars(KeeperLock) /\ WF_vars(Noop) /\ SF_vars(Quit)
  /\ WF_vars(\E r \in Requests : \E o \in {p \in Ops[r] : p.kind = "poll"} : Call(r, o))

Spec == Init /\ [][Next]_vars
LiveSpec == Spec /\ Fairness

-----------------------------------------------------------------------------
AllOps == {NoOp} \cup UNION {Ops[r] : r \in Requests}
RequestStates == [pc : {"idle", "lock", "check", "select", "command", "store"},
                  op : AllOps, nums : SUBSET (Nat \ {0}), told : SUBSET Mails]
TypeOK ==
  /\ box \in [Folders -> SUBSET Mails] /\ gone \subseteq Mails
  /\ unclaimed \in [Folders -> SUBSET Mails]
  /\ sel \in Folders \cup {NoFolder} /\ view \subseteq Mails /\ recent \subseteq Mails
  /\ open \in BOOLEAN /\ told \subseteq Mails
  /\ data \in [exists : Nat, recent : Nat]
  /\ mutex \in Requests \cup {KEEPER, NoOne}
  /\ req \in [Requests -> RequestStates]
  /\ ka \in {"wait", "lock", "noop", "ended"}
  /\ shown \subseteq Mails /\ polled \subseteq Mails /\ strayed \in BOOLEAN

\* Whatever the other goroutines do, a command that follows a SELECT is sent
\* over an open connection in the folder its own operation selected: a flag is
\* never stored and a mail never copied in a folder another request opened, and
\* a logout does not cut an operation in two.
OwnFolder ==
  \A r \in Requests :
    (At(r, "store") \/ (At(r, "command") /\ req[r].op.kind \notin {"send", "close"}))
      => sel = req[r].op.folder /\ open

\* While only the INBOX is ever selected, the sequence numbers CheckNewMails
\* hands to the load that follows name the messages that were announced, although
\* the mutex is free between the two and any command may have brought the news:
\* unless one of the messages the INBOX had then was expunged since, the load
\* finds them all, and no others.
PollFindsItsMails ==
  ~strayed => \A r \in Requests :
    /\ req[r].nums \subseteq 1..Cardinality(req[r].told)
    /\ req[r].told \subseteq box[INBOX] =>
         Numbered(box[INBOX], req[r].nums) = Numbered(req[r].told, req[r].nums)

\* While only the INBOX is ever selected, polls answer with mails that arrived
\* during the session or were \Recent when it began, and with no older ones,
\* also when messages were expunged between the news, the check and the load.
PollOnlyRecent == ~strayed => polled \cap (OldBox \ Fresh) = {}

\* Every request is answered, whatever the other goroutines do, also when the
\* server refuses commands or the connection is closed meanwhile.
RequestsReturn == \A r \in Requests : At(r, "lock") ~> At(r, "idle")

\* Close ends the keepAlive goroutine.
KeepAliveEnds == ~open ~> ka = "ended"

\* Every mail that arrives in the INBOX comes to be shown by the browser, which
\* keeps polling.
ArrivalsShown == \A m \in Mails : (open /\ m \in box[INBOX]) ~> (m \in shown \/ ~open)
=============================================================================
