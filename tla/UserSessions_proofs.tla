------------------------ MODULE UserSessions_proofs ------------------------
(***************************************************************************)
(* Proofs about UserSessions for any number of browsers, users and         *)
(* requests, overlapping or not.                                           *)
(***************************************************************************)
EXTENDS UserSessions, FiniteSetTheorems, TLAPS

Entry(id, o) == [key |-> id, val |-> o]

\* The entries "this object is the user of that id" that somebody may still act on:
\* those of usermap, those CleanUsermap has read and not done with, those a request has
\* found by GetById, and those of the copies that requests made.
StoredEntries == {Entry(id, usermap[id]) : id \in {i \in Ids : Stored(i)}}
Current == IF cl.pc \in {"check", "close", "remove"} THEN {cl.cur} ELSE {}
Found == {Entry(req[r].id, req[r].from) : r \in {q \in Requests : req[q].pc = "copy"}}
Copies == {Entry(req[r].id, Session(r)) :
             r \in {q \in Requests : req[q].pc \in {"put", "check", "close", "remove"}}}
Refs == StoredEntries \cup cl.queue \cup Current \cup Found \cup Copies

\* Object o is a user of id over a connection that a login of id has opened.
Filled(id, o) ==
  /\ obj[o].id = id /\ obj[o].con \in Requests
  /\ req[obj[o].con].login = id /\ con[obj[o].con] # "none"
RefsFilled == Refs \subseteq Entries /\ \A e \in Refs : Filled(e.key, e.val)

\* How far a request has come tells which of its objects are filled, and its connection.
Progress ==
  \A r \in Requests :
    /\ req[r].kind = "login" <=> req[r].login \in Ids
    /\ req[r].pc \in {"unsent", "get", "copy"} => obj[Session(r)].id = None
    /\ req[r].pc \in {"unsent", "get", "copy", "put", "connect"} => obj[Posted(r)].id = None /\ con[r] = "none"
    /\ req[r].pc \in {"connect", "enter"} => req[r].kind = "login"
    /\ req[r].pc = "enter" => Filled(req[r].login, Posted(r))
    /\ con[r] # "none" => req[r].pc \in {"enter", "done"} /\ req[r].kind = "login"

CleanerOk == cl.pc \in {"idle", "sweep"} => cl.unread = {} /\ cl.queue = {}

\* Nobody speaks of an id before a login of it is through.
EnteredIds == {req[r].login : r \in {q \in Requests : req[q].pc = "done"}}
Entered ==
  /\ \A b \in Browsers : cookie[b] \in EnteredIds \cup {None}
  /\ \A r \in Requests : req[r].id \in EnteredIds \cup {None}
  /\ \A e \in Refs : e.key \in EnteredIds
  /\ seen \subseteq EnteredIds

\* Whoever removes a user has seen his connection closed.
ClosedIds == {req[r].login : r \in {q \in Requests : con[q] = "closed"}}
ClosedFirst ==
  /\ \A r \in Requests : req[r].pc = "remove" => req[r].id \in ClosedIds
  /\ cl.pc = "remove" => cl.cur.key \in ClosedIds
  /\ cl.outdated \subseteq ClosedIds

\* When every user logs in once: his login is unique, his open connection is in usermap,
\* and the objects that stand for him are all fresh once a request of his came, and one
\* and the same before.
OneLogin ==
  \A q, r \in Requests : req[q].login = req[r].login /\ req[r].login \in Ids => q = r
OpenStored == \A r \in Requests : con[r] = "open" /\ req[r].pc = "done" => Stored(req[r].login)
Freshness ==
  /\ \A e \in Refs : e.key \in seen => obj[e.val].fresh
  /\ \A e, f \in Refs : e.key = f.key /\ e.key \notin seen => e.val = f.val
OnceOk == OneLogin /\ OpenStored /\ Freshness

BaseInv == TypeOK /\ RefsFilled /\ Progress /\ CleanerOk /\ Entered /\ ClosedFirst
IInv == BaseInv /\ (~LogsInAgain => OnceOk)
-----------------------------------------------------------------------------
(* What the steps do to requests and objects.                              *)

States == {"unsent", "get", "copy", "put", "connect", "enter", "handle", "check", "close", "remove", "done"}

\* Every request has two objects of its own.
LEMMA ObjectFacts ==
  /\ \A r \in Requests : Session(r) \in Objects /\ Posted(r) \in Objects
  /\ \A q, r \in Requests : Session(q) # Posted(r) /\ (Session(q) = Session(r) => q = r)
                            /\ (Posted(q) = Posted(r) => q = r)
BY DEF Session, Posted, Objects

\* A request goes to another step.
LEMMA GotoEffect ==
  ASSUME TypeOK, NEW r \in Requests, NEW pc \in States, Goto(r, pc)
  PROVE  /\ req' \in [Requests -> RequestStates]
         /\ req'[r].pc = pc /\ req'[r].kind = req[r].kind /\ req'[r].browser = req[r].browser
         /\ req'[r].id = req[r].id /\ req'[r].login = req[r].login /\ req'[r].from = req[r].from
         /\ \A q \in Requests : q # r => req'[q] = req[q]
<1>1. req \in [Requests -> RequestStates]
  BY DEF TypeOK
<1>2. [req[r] EXCEPT !.pc = pc] \in RequestStates
  BY <1>1 DEF RequestStates, States
<1>3. req' = [req EXCEPT ![r] = [req[r] EXCEPT !.pc = pc]]
  BY DEF Goto
<1>4. req'[r] = [req[r] EXCEPT !.pc = pc]
  BY <1>1, <1>3
<1>5. /\ req'[r].pc = pc /\ req'[r].kind = req[r].kind /\ req'[r].browser = req[r].browser
      /\ req'[r].id = req[r].id /\ req'[r].login = req[r].login /\ req'[r].from = req[r].from
  BY <1>1, <1>4 DEF RequestStates
<1> QED
  BY <1>1, <1>2, <1>3, <1>5

\* A handler begins in one of three states.
LEMMA HandlerState == \A r \in Requests : Handler(r) \in {"connect", "check", "handle"}
BY DEF Handler

\* GetById, and what it found.
LEMMA GetEffect ==
  ASSUME TypeOK, NEW r \in Requests, Get(r)
  PROVE  /\ req' \in [Requests -> RequestStates]
         /\ req'[r].kind = req[r].kind /\ req'[r].browser = req[r].browser
         /\ req'[r].id = req[r].id /\ req'[r].login = req[r].login
         /\ \/ /\ req'[r].pc = "copy" /\ req[r].id \in Ids /\ Stored(req[r].id)
               /\ req'[r].from = usermap[req[r].id]
            \/ req[r].kind = "login" /\ req'[r].pc = "connect"
            \/ req[r].kind = "welcome" /\ req'[r].pc = "handle"
            \/ req'[r].pc = "done"
         /\ \A q \in Requests : q # r => req'[q] = req[q]
<1> DEFINE id == req[r].id
           found == id # None /\ usermap[id] # None
           from == IF found THEN usermap[id] ELSE None
           pc == IF found THEN "copy" ELSE IF req[r].kind \in {"login", "welcome"} THEN Handler(r) ELSE "done"
<1>1. /\ req \in [Requests -> RequestStates] /\ req[r] \in RequestStates /\ id \in Ids \cup {None}
      /\ usermap \in [Ids -> Objects \cup {None}]
  BY DEF TypeOK, RequestStates
<1>2. req[r].kind = "login" => Handler(r) = "connect"
  BY DEF Handler
<1>3. req[r].kind = "welcome" => Handler(r) = "handle"
  BY DEF Handler
<1>4. from \in Objects \cup {None}
  BY <1>1
<1>5. /\ pc \in States
      /\ \/ pc = "copy" /\ found
         \/ req[r].kind = "login" /\ pc = "connect"
         \/ req[r].kind = "welcome" /\ pc = "handle"
         \/ pc = "done"
  BY <1>2, <1>3 DEF States
<1>6. req' = [req EXCEPT ![r].from = from, ![r].pc = pc]
  BY DEF Get
<1> HIDE DEF from, pc
<1>7. [[req[r] EXCEPT !.from = from] EXCEPT !.pc = pc] \in RequestStates
  BY <1>1, <1>4, <1>5 DEF RequestStates, States
<1>8. req'[r] = [[req[r] EXCEPT !.from = from] EXCEPT !.pc = pc]
  BY <1>1, <1>6
<1>9. /\ req'[r].kind = req[r].kind /\ req'[r].browser = req[r].browser /\ req'[r].id = req[r].id
      /\ req'[r].login = req[r].login /\ req'[r].pc = pc /\ req'[r].from = from
  BY <1>1, <1>8 DEF RequestStates
<1>10. req' \in [Requests -> RequestStates] /\ \A q \in Requests : q # r => req'[q] = req[q]
  BY <1>1, <1>6, <1>7
<1>11. found => id \in Ids /\ Stored(id) /\ from = usermap[id]
  BY <1>1 DEF Stored, from
<1> QED
  BY <1>5, <1>9, <1>10, <1>11

\* A request is sent.
LEMMA SendEffect ==
  ASSUME TypeOK, NEW r \in Requests, NEW b \in Browsers, NEW k \in RequestKinds, NEW i \in Ids, Send(r, b, k, i)
  PROVE  /\ req' \in [Requests -> RequestStates] /\ req[r].pc = "unsent"
         /\ req'[r].pc = "get" /\ req'[r].kind = k /\ req'[r].id = cookie[b]
         /\ req'[r].login = IF k = "login" THEN i ELSE None
         /\ \A q \in Requests : q # r => req'[q] = req[q]
<1> DEFINE new == [pc |-> "get", kind |-> k, browser |-> b, id |-> cookie[b],
                   login |-> IF k = "login" THEN i ELSE None, from |-> None]
<1>1. req \in [Requests -> RequestStates] /\ cookie[b] \in Ids \cup {None}
  BY DEF TypeOK
<1>2. new \in RequestStates
  BY <1>1 DEF RequestStates
<1>3. req' = [req EXCEPT ![r] = new] /\ req[r].pc = "unsent"
  BY DEF Send, At
<1> QED
  BY <1>1, <1>2, <1>3

-----------------------------------------------------------------------------
(* Types.  What they leave out of TypeOK follows from RefsFilled.          *)

Types ==
  /\ cookie \in [Browsers -> Ids \cup {None}]
  /\ usermap \in [Ids -> Objects \cup {None}]
  /\ obj \in [Objects -> [id : Ids \cup {None}, con : Requests \cup {None}, fresh : BOOLEAN]]
  /\ con \in [Requests -> {"none", "open", "closed"}]
  /\ req \in [Requests -> RequestStates] /\ cl \in CleanerStates
  /\ alive \in BOOLEAN /\ seen \subseteq Ids

\* What somebody may act on has an id and an object.
LEMMA RefFacts ==
  ASSUME TypeOK, RefsFilled
  PROVE  /\ \A r \in Requests : req[r].pc = "copy" =>
              /\ req[r].id \in Ids /\ req[r].from \in Objects /\ Entry(req[r].id, req[r].from) \in Refs
              /\ Filled(req[r].id, req[r].from)
         /\ \A r \in Requests : req[r].pc \in {"put", "check", "close", "remove"} =>
              /\ req[r].id \in Ids /\ Entry(req[r].id, Session(r)) \in Refs /\ Filled(req[r].id, Session(r))
         /\ cl.pc \in {"check", "close", "remove"} =>
              cl.cur \in Entries /\ cl.cur \in Refs /\ Filled(cl.cur.key, cl.cur.val)
         /\ \A id \in Ids : Stored(id) =>
              usermap[id] \in Objects /\ Entry(id, usermap[id]) \in Refs /\ Filled(id, usermap[id])
<1>1. ASSUME NEW i, NEW o, Entry(i, o) \in Refs PROVE i \in Ids /\ o \in Objects /\ Filled(i, o)
  <2>1. Entry(i, o) \in Entries /\ Filled(Entry(i, o).key, Entry(i, o).val)
    BY <1>1 DEF RefsFilled
  <2>2. Entry(i, o).key = i /\ Entry(i, o).val = o
    BY DEF Entry
  <2> QED
    BY <2>1, <2>2 DEF Entries
<1>2. ASSUME NEW r \in Requests, req[r].pc = "copy" PROVE Entry(req[r].id, req[r].from) \in Refs
  BY <1>2 DEF Refs, Found
<1>3. ASSUME NEW r \in Requests, req[r].pc \in {"put", "check", "close", "remove"}
      PROVE  Entry(req[r].id, Session(r)) \in Refs
  BY <1>3 DEF Refs, Copies
<1>4. cl.pc \in {"check", "close", "remove"} => cl.cur \in Refs
  BY DEF Refs, Current
<1>5. ASSUME NEW i \in Ids, Stored(i) PROVE Entry(i, usermap[i]) \in Refs
  BY <1>5 DEF Refs, StoredEntries
<1> QED
  BY <1>1, <1>2, <1>3, <1>4, <1>5 DEF RefsFilled

\* lastSeen is set or runs out.
Users == [id : Ids \cup {None}, con : Requests \cup {None}, fresh : BOOLEAN]
LEMMA FreshFacts ==
  ASSUME NEW u \in Users, NEW b \in BOOLEAN
  PROVE  LET v == [u EXCEPT !.fresh = b] IN v \in Users /\ v.id = u.id /\ v.con = u.con /\ v.fresh = b
<1>1. DOMAIN u = {"id", "con", "fresh"}
  BY DEF Users
<1>2. u.id \in Ids \cup {None} /\ u.con \in Requests \cup {None}
  BY DEF Users
<1> DEFINE v == [u EXCEPT !.fresh = b]
<1>3. v = [id |-> u.id, con |-> u.con, fresh |-> b]
  BY <1>1
<1> HIDE DEF v
<1>4. v.id = u.id /\ v.con = u.con /\ v.fresh = b
  BY <1>3
<1>5. v \in Users
  BY <1>2, <1>3 DEF Users
<1> QED
  BY <1>4, <1>5 DEF v

\* Copy sets lastSeen of the object it has found, and fills another with it.
LEMMA CopyEffect ==
  ASSUME TypeOK, RefsFilled, NEW r \in Requests, Copy(r)
  PROVE  /\ obj' \in [Objects -> Users]
         /\ \A o \in {req[r].from, Session(r)} :
              obj'[o].id = obj[req[r].from].id /\ obj'[o].con = obj[req[r].from].con /\ obj'[o].fresh = TRUE
         /\ \A o \in Objects : o \notin {req[r].from, Session(r)} => obj'[o] = obj[o]
<1> DEFINE v == [obj[req[r].from] EXCEPT !.fresh = TRUE]
<1>1. req[r].id \in Ids /\ req[r].from \in Objects /\ Session(r) \in Objects
  BY RefFacts, ObjectFacts DEF Copy, At
<1>2. obj \in [Objects -> Users]
  BY DEF TypeOK, Users
<1>3. obj' = [o \in Objects |-> IF o \in {req[r].from, Session(r)} THEN v ELSE obj[o]]
  BY DEF Copy
<1>4. /\ v \in Users /\ v.id = obj[req[r].from].id /\ v.con = obj[req[r].from].con
      /\ v.fresh = TRUE
  BY <1>1, <1>2, FreshFacts
<1> HIDE DEF v
<1>5. \A o \in {req[r].from, Session(r)} : obj'[o] = v
  BY <1>1, <1>3
<1> QED
  BY <1>1, <1>2, <1>3, <1>4, <1>5

\* When a day passes, every lastSeen has run out.
LEMMA DayEffect ==
  ASSUME TypeOK, DayPasses
  PROVE  /\ obj' \in [Objects -> Users]
         /\ \A o \in Objects : obj'[o].id = obj[o].id /\ obj'[o].con = obj[o].con
<1>1. obj \in [Objects -> Users]
  BY DEF TypeOK, Users
<1>2. \A o \in Objects : obj'[o] = [obj[o] EXCEPT !.fresh = FALSE]
  BY DEF DayPasses
<1>3. obj' = [o \in Objects |-> [obj[o] EXCEPT !.fresh = FALSE]]
  BY DEF DayPasses
<1>4. ASSUME NEW o \in Objects
      PROVE  [obj[o] EXCEPT !.fresh = FALSE] \in Users /\ obj'[o].id = obj[o].id /\ obj'[o].con = obj[o].con
  BY <1>1, <1>2, FreshFacts
<1> QED
  BY <1>3, <1>4

LEMMA TypesStep ==
  ASSUME TypeOK, RefsFilled, [Next]_vars
  PROVE  Types'
<1> USE UserSessionsAssumption
<1>0. Types
  BY DEF TypeOK, Types
<1>c. /\ cl.pc \in {"idle", "loop", "check", "close", "remove", "sweep"} /\ cl.unread \subseteq Ids
      /\ cl.queue \subseteq Entries /\ cl.cur \in Entries \cup {None} /\ cl.outdated \subseteq Ids
      /\ cl.shard \in Shards \cup {None} /\ cl.room \in Nat
  BY <1>0 DEF Types, CleanerStates
\* The requests.
<1>1. ASSUME NEW r \in Requests, NEW b \in Browsers, NEW k \in RequestKinds, NEW i \in Ids, Send(r, b, k, i)
      PROVE  Types'
  BY <1>0, <1>1, SendEffect DEF Types, Send
<1>2. ASSUME NEW r \in Requests, Get(r) PROVE Types'
  BY <1>0, <1>2, GetEffect DEF Types, Get
<1>3. ASSUME NEW r \in Requests, Copy(r) PROVE Types'
  <2>1. req[r].id \in Ids /\ req[r].from \in Objects
    BY <1>3, RefFacts DEF Copy, At
  <2>2. obj' \in [Objects -> [id : Ids \cup {None}, con : Requests \cup {None}, fresh : BOOLEAN]]
    BY <1>3, CopyEffect DEF Users
  <2>3. req' \in [Requests -> RequestStates]
    BY <1>3, GotoEffect DEF Copy, States
  <2> QED
    BY <1>0, <1>3, <2>1, <2>2, <2>3 DEF Copy, Types
<1>4. ASSUME NEW r \in Requests, Put(r) PROVE Types'
  <2>1. req' \in [Requests -> RequestStates]
    BY <1>4, GotoEffect, HandlerState DEF Put, States
  <2> QED
    BY <1>0, <1>4, <2>1, ObjectFacts DEF Put, Types
<1>5. ASSUME NEW r \in Requests, Connect(r) PROVE Types'
  <2>1. req' \in [Requests -> RequestStates]
    BY <1>5, GotoEffect DEF Connect, States
  <2>2. req[r].login \in Ids \cup {None}
    BY <1>0 DEF Types, RequestStates
  <2> QED
    BY <1>0, <1>5, <2>1, <2>2 DEF Connect, Types
<1>6. ASSUME NEW r \in Requests, Refused(r) \/ Handle(r) \/ CheckCon(r) \/ CloseCon(r) \/ RemoveUser(r)
      PROVE  Types'
  <2>1. \E pc \in States : Goto(r, pc)
    BY <1>6 DEF Refused, Handle, CheckCon, CloseCon, RemoveUser, States
  <2>2. req' \in [Requests -> RequestStates]
    BY <2>1, GotoEffect
  <2>3. cookie' \in [Browsers -> Ids \cup {None}] /\ usermap' \in [Ids -> Objects \cup {None}]
    BY <1>0, <1>6 DEF Types, Refused, Handle, CheckCon, CloseCon, RemoveUser
  <2>4. con' \in [Requests -> {"none", "open", "closed"}] /\ UNCHANGED <<obj, cl, alive, seen>>
    BY <1>0, <1>6 DEF Types, Refused, Handle, CheckCon, CloseCon, RemoveUser
  <2> QED
    BY <1>0, <2>2, <2>3, <2>4 DEF Types
<1>7. ASSUME NEW r \in Requests, Enter(r) PROVE Types'
  <2>1. req' \in [Requests -> RequestStates]
    BY <1>7, GotoEffect DEF Enter, States
  <2>2. req[r].login \in Ids \cup {None}
    BY <1>0 DEF Types, RequestStates
  <2> QED
    BY <1>0, <1>7, <2>1, <2>2, ObjectFacts DEF Enter, Types
\* The cleaner.
<1>8. ASSUME ReadEntry PROVE Types'
  <2>1. PICK i \in cl.unread :
          cl' = [cl EXCEPT !.unread = @ \ {i},
                           !.queue = IF Stored(i) THEN @ \cup {[key |-> i, val |-> usermap[i]]} ELSE @]
    BY <1>8 DEF ReadEntry, InShard
  <2>2. Stored(i) => [key |-> i, val |-> usermap[i]] \in Entries
    BY <1>0, <1>c DEF Stored, Types, Entries
  <2>3. cl' \in CleanerStates
    BY <1>0, <1>c, <2>1, <2>2 DEF CleanerStates, Types
  <2> QED
    BY <1>0, <1>8, <2>3 DEF ReadEntry, Types
<1>9. ASSUME LookAt PROVE Types'
  <2>1. PICK e \in cl.queue :
          cl' = [cl EXCEPT !.queue = @ \ {e}, !.cur = IF Outdated(e.val) THEN e ELSE None,
                           !.pc = IF Outdated(e.val) THEN "check" ELSE "loop"]
    BY <1>9 DEF LookAt
  <2>2. cl' \in CleanerStates
    BY <1>0, <1>c, <2>1 DEF CleanerStates, Types
  <2> QED
    BY <1>0, <1>9, <2>2 DEF LookAt, Types
<1>10. ASSUME CleanerCheckCon \/ CleanerCloseCon PROVE Types'
  <2>1. \E pc \in {"remove", "close"} : cl' = [cl EXCEPT !.pc = pc]
    BY <1>10 DEF CleanerCheckCon, CleanerCloseCon
  <2>2. cl' \in CleanerStates
    BY <1>0, <1>c, <2>1 DEF CleanerStates, Types
  <2>3. con' \in [Requests -> {"none", "open", "closed"}] /\ alive' \in BOOLEAN
    BY <1>0, <1>10 DEF CleanerCheckCon, CleanerCloseCon, Types
  <2> QED
    BY <1>0, <1>10, <2>2, <2>3 DEF CleanerCheckCon, CleanerCloseCon, Types
<1>11. ASSUME CleanerRemoveUser PROVE Types'
  <2>1. cl.cur.key \in Ids
    BY <1>11, RefFacts DEF CleanerRemoveUser, CleanerAt, Entries
  <2>2. cl' \in CleanerStates
    BY <1>0, <1>c, <1>11, <2>1 DEF CleanerRemoveUser, CleanerStates, Types
  <2>3. usermap' \in [Ids -> Objects \cup {None}]
    BY <1>0, <1>11 DEF CleanerRemoveUser, Types
  <2> QED
    BY <1>0, <1>11, <2>2, <2>3 DEF CleanerRemoveUser, Types
<1>12. ASSUME StartCleaning \/ EndLoop \/ IterLock \/ IterUnlock PROVE Types'
  <2>1. CASE StartCleaning
    <3>1. Cardinality({i \in Ids : Stored(i)}) \in Nat
      BY FS_Subset, FS_CardinalityType
    <3>2. cl' \in CleanerStates
      BY <2>1, <3>1 DEF StartCleaning, NotCleaning, CleanerStates
    <3> QED
      BY <1>0, <2>1, <3>2 DEF StartCleaning, Types
  <2>2. CASE EndLoop
    <3>1. cl' \in CleanerStates
      BY <1>0, <1>c, <2>2 DEF EndLoop, CleanerStates, Types
    <3> QED
      BY <1>0, <2>2, <3>1 DEF EndLoop, Types
  <2>3. CASE IterLock \/ IterUnlock
    <3>1. PICK s \in Shards \cup {None} : cl' = [cl EXCEPT !.shard = s]
      BY <2>3 DEF IterLock, IterUnlock
    <3>2. cl' \in CleanerStates
      BY <1>0, <1>c, <3>1 DEF CleanerStates, Types
    <3> QED
      BY <1>0, <2>3, <3>2 DEF IterLock, IterUnlock, Types
  <2> QED
    BY <1>12, <2>1, <2>2, <2>3
<1>13. ASSUME Sweep PROVE Types'
  <2>1. cl' \in CleanerStates
    BY <1>0, <1>c, <1>13 DEF Sweep, NotCleaning, CleanerStates, Types
  <2>2. usermap' \in [Ids -> Objects \cup {None}]
    BY <1>0, <1>13 DEF Sweep, Types
  <2> QED
    BY <1>0, <1>13, <2>1, <2>2 DEF Sweep, Types
<1>14. ASSUME DayPasses PROVE Types'
  <2>1. obj' \in [Objects -> [id : Ids \cup {None}, con : Requests \cup {None}, fresh : BOOLEAN]]
    BY <1>14, DayEffect DEF Users
  <2> QED
    BY <1>0, <1>14, <2>1 DEF DayPasses, Types
<1>15. ASSUME UNCHANGED vars PROVE Types'
  BY <1>0, <1>15 DEF vars, Types
<1> QED
  BY <1>1, <1>2, <1>3, <1>4, <1>5, <1>6, <1>7, <1>8, <1>9, <1>10, <1>11, <1>12, <1>13, <1>14, <1>15
     DEF Next, Step, Clean

-----------------------------------------------------------------------------
(* What no step takes back.                                                *)

\* How requests go on.
LEMMA Moves ==
  ASSUME TypeOK, [Next]_vars
  PROVE  \/ req' = req
         \/ \E r \in Requests : \E b \in Browsers, k \in RequestKinds, i \in Ids : Send(r, b, k, i)
         \/ \E r \in Requests : Get(r) /\ req[r].pc = "get"
         \/ \E r \in Requests, pc \in States \ {"unsent", "get", "copy"} :
              /\ req[r].pc \notin {"unsent", "get", "done"} /\ Goto(r, pc)
              /\ pc = "put" => Copy(r)
              /\ pc \in {"check", "close", "remove"} => req[r].pc \in {"put", "check", "close"}
<1>1. ASSUME NEW r \in Requests, Step(r), ~Get(r)
      PROVE  \E pc \in States \ {"unsent", "get", "copy"} :
               /\ req[r].pc \notin {"unsent", "get", "done"} /\ Goto(r, pc)
               /\ pc = "put" => Copy(r)
               /\ pc \in {"check", "close", "remove"} => req[r].pc \in {"put", "check", "close"}
  <2>1. CASE Copy(r)
    BY <2>1 DEF Copy, At, States
  <2>2. CASE Put(r)
    BY <2>2, HandlerState DEF Put, At, States
  <2>3. CASE ~Copy(r) /\ ~Put(r)
    BY <1>1, <2>3 DEF Step, Connect, Refused, Enter, Handle, CheckCon, CloseCon, RemoveUser, At, States
  <2> QED
    BY <2>1, <2>2, <2>3
<1>2. ASSUME StartCleaning \/ Clean \/ DayPasses \/ UNCHANGED vars PROVE req' = req
  BY <1>2 DEF StartCleaning, Clean, IterLock, ReadEntry, IterUnlock, LookAt, CleanerCheckCon, CleanerCloseCon,
              CleanerRemoveUser, EndLoop, Sweep, DayPasses, vars
<1>3. ASSUME NEW r \in Requests, Get(r) PROVE req[r].pc = "get"
  BY <1>3 DEF Get, At
<1> QED
  BY <1>1, <1>2, <1>3 DEF Next

LEMMA RequestsKept ==
  ASSUME TypeOK, [Next]_vars, NEW r \in Requests
  PROVE  /\ req[r].pc # "unsent" => /\ req'[r].kind = req[r].kind /\ req'[r].id = req[r].id
                                    /\ req'[r].login = req[r].login /\ req'[r].pc # "unsent"
         /\ req[r].pc = "done" => req'[r].pc = "done"
<1>1. ASSUME NEW q \in Requests, Get(q), req[q].pc = "get"
      PROVE  req[r].pc # "unsent" => /\ req'[r].kind = req[r].kind /\ req'[r].id = req[r].id
                                     /\ req'[r].login = req[r].login /\ req'[r].pc # "unsent"
  BY <1>1, GetEffect
<1>2. ASSUME NEW q \in Requests, Get(q), req[q].pc = "get", req[r].pc = "done" PROVE req'[r].pc = "done"
  BY <1>2, GetEffect
<1>3. ASSUME NEW q \in Requests, NEW b \in Browsers, NEW k \in RequestKinds, NEW i \in Ids, Send(q, b, k, i),
             req[r].pc # "unsent"
      PROVE  req'[r] = req[r]
  BY <1>3, SendEffect
<1>4. ASSUME NEW q \in Requests, NEW pc \in States \ {"unsent"}, req[q].pc \notin {"unsent", "get", "done"}, Goto(q, pc)
      PROVE  /\ req'[r].kind = req[r].kind /\ req'[r].id = req[r].id /\ req'[r].login = req[r].login
             /\ req[r].pc # "unsent" => req'[r].pc # "unsent"
             /\ req[r].pc = "done" => req'[r].pc = "done"
  BY <1>4, GotoEffect
<1> QED
  BY <1>1, <1>2, <1>3, <1>4, Moves

\* A connection that is opened is not forgotten, and one that is closed stays closed.
LEMMA ConsKept ==
  ASSUME TypeOK, Progress, [Next]_vars, NEW r \in Requests
  PROVE  /\ con[r] # "none" => con'[r] # "none"
         /\ con[r] = "closed" => con'[r] = "closed"
<1>1. con \in [Requests -> {"none", "open", "closed"}]
  BY DEF TypeOK
<1>2. ASSUME NEW q \in Requests, Connect(q) \/ Refused(q) PROVE con[q] = "none"
  BY <1>2 DEF Connect, Refused, At, Progress
<1>3. ASSUME NEW q \in Requests, Connect(q) \/ Refused(q)
      PROVE  \E c \in {"open", "closed"} : con' = [con EXCEPT ![q] = c]
  BY <1>3 DEF Connect, Refused
<1>4. ASSUME CleanerCloseCon \/ \E q \in Requests : CloseCon(q)
      PROVE  \E c : con' = [con EXCEPT ![c] = "closed"]
  BY <1>4 DEF CloseCon, CleanerCloseCon
<1>5. ASSUME ~CleanerCloseCon, \A q \in Requests : ~CloseCon(q) /\ ~Connect(q) /\ ~Refused(q) PROVE con' = con
  BY <1>5 DEF Next, Step, Clean, Send, Get, Copy, Put, Enter, Handle, CheckCon, RemoveUser, StartCleaning,
              IterLock, ReadEntry, IterUnlock, LookAt, CleanerCheckCon, CleanerRemoveUser, EndLoop, Sweep,
              DayPasses, vars
<1> QED
  BY <1>1, <1>2, <1>3, <1>4, <1>5

\* Who has logged in has, and who has left has.
LEMMA IdsKept ==
  ASSUME TypeOK, Progress, [Next]_vars
  PROVE  EnteredIds \subseteq EnteredIds' /\ ClosedIds \subseteq ClosedIds'
<1>1. ASSUME NEW r \in Requests, req[r].pc = "done" PROVE req[r].login \in EnteredIds'
  BY <1>1, RequestsKept DEF EnteredIds
<1>2. ASSUME NEW r \in Requests, con[r] = "closed" PROVE req[r].login \in ClosedIds'
  <2>1. req[r].pc # "unsent" /\ con'[r] = "closed"
    BY <1>2, ConsKept DEF Progress
  <2> QED
    BY <2>1, RequestsKept DEF ClosedIds
<1> QED
  BY <1>1, <1>2 DEF EnteredIds, ClosedIds

\* A filled object stays the user it is.
LEMMA FilledKept ==
  ASSUME TypeOK, RefsFilled, Progress, [Next]_vars, NEW i \in Ids, NEW o \in Objects, Filled(i, o)
  PROVE  Filled(i, o)' /\ obj'[o].id = obj[o].id /\ obj'[o].con = obj[o].con
<1> USE UserSessionsAssumption
<1>0. i # None /\ obj[o].id = i
  BY DEF Filled
<1>1. obj'[o].id = obj[o].id /\ obj'[o].con = obj[o].con
  <2>1. ASSUME NEW r \in Requests, Copy(r) PROVE obj'[o].id = obj[o].id /\ obj'[o].con = obj[o].con
    <3>1. o # Session(r)
      BY <1>0, <2>1 DEF Copy, At, Progress
    <3> QED
      BY <2>1, <3>1, CopyEffect
  <2>2. ASSUME NEW r \in Requests, Connect(r) PROVE obj'[o] = obj[o]
    <3>1. o # Posted(r)
      BY <1>0, <2>2 DEF Connect, At, Progress
    <3> QED
      BY <2>2, <3>1 DEF Connect, TypeOK
  <2>3. ASSUME \A q \in Requests : ~Copy(q) /\ ~Connect(q), ~DayPasses PROVE obj' = obj
    BY <2>3 DEF Next, Step, Clean, Send, Get, Put, Refused, Enter, Handle, CheckCon, CloseCon, RemoveUser,
                StartCleaning, IterLock, ReadEntry, IterUnlock, LookAt, CleanerCheckCon, CleanerCloseCon,
                CleanerRemoveUser, EndLoop, Sweep, vars
  <2> QED
    BY <2>1, <2>2, <2>3, DayEffect
<1>2. /\ obj[o].con \in Requests /\ req[obj[o].con].login = i /\ con[obj[o].con] # "none"
  BY DEF Filled
<1>3. req[obj[o].con].pc # "unsent"
  BY <1>2 DEF Progress
<1>4. req'[obj[o].con].login = i /\ con'[obj[o].con] # "none"
  BY <1>2, <1>3, RequestsKept, ConsKept
<1> QED
  BY <1>0, <1>1, <1>2, <1>4 DEF Filled

-----------------------------------------------------------------------------
(* What somebody may act on after a step.                                  *)

\* What the steps of CleanUsermap do to its variables.
LEMMA CleanerEffect ==
  ASSUME TypeOK
  PROVE  /\ StartCleaning => cl'.pc = "loop" /\ cl'.queue = {} /\ cl'.outdated = {}
         /\ ReadEntry =>
              /\ cl'.pc = cl.pc /\ cl'.cur = cl.cur /\ cl'.outdated = cl.outdated /\ cl.unread # {}
              /\ \E i \in cl.unread :
                   cl'.queue = IF Stored(i) THEN cl.queue \cup {[key |-> i, val |-> usermap[i]]} ELSE cl.queue
         /\ IterLock \/ IterUnlock =>
              /\ cl'.pc = cl.pc /\ cl'.cur = cl.cur /\ cl'.outdated = cl.outdated /\ cl'.unread = cl.unread
              /\ cl'.queue = cl.queue
         /\ LookAt =>
              /\ cl.pc = "loop" /\ cl'.unread = cl.unread /\ cl'.outdated = cl.outdated
              /\ \E e \in cl.queue :
                   /\ cl'.queue = cl.queue \ {e}
                   /\ cl'.pc = "loop" \/ (cl'.pc = "check" /\ cl'.cur = e /\ Outdated(e.val))
         /\ CleanerCheckCon \/ CleanerCloseCon =>
              /\ cl'.pc \in {"close", "remove"} /\ cl'.cur = cl.cur /\ cl.pc \in {"check", "close"}
              /\ cl'.queue = cl.queue /\ cl'.outdated = cl.outdated
         /\ CleanerRemoveUser =>
              /\ cl.pc = "remove" /\ cl'.pc = "loop" /\ cl'.queue = cl.queue
              /\ cl'.outdated = cl.outdated \cup {cl.cur.key}
         /\ EndLoop =>
              /\ cl.pc = "loop" /\ cl.unread = {} /\ cl.queue = {} /\ cl'.pc = "sweep"
              /\ cl'.unread = {} /\ cl'.queue = {} /\ cl'.outdated = cl.outdated
         /\ Sweep =>
              /\ cl.pc = "sweep"
              /\ \/ cl'.pc = "idle" /\ cl'.unread = {} /\ cl'.queue = {} /\ cl'.outdated = {}
                 \/ /\ cl'.pc = "sweep" /\ cl'.unread = cl.unread /\ cl'.queue = cl.queue
                    /\ cl'.outdated \subseteq cl.outdated
<1>1. DOMAIN cl = {"pc", "unread", "shard", "queue", "room", "cur", "outdated"} /\ cl \in CleanerStates
  BY DEF TypeOK, CleanerStates
<1>2. StartCleaning => cl'.pc = "loop" /\ cl'.queue = {} /\ cl'.outdated = {}
  BY DEF StartCleaning, NotCleaning
<1>3. ASSUME ReadEntry
      PROVE  /\ cl'.pc = cl.pc /\ cl'.cur = cl.cur /\ cl'.outdated = cl.outdated /\ cl.unread # {}
             /\ \E i \in cl.unread :
                  cl'.queue = IF Stored(i) THEN cl.queue \cup {[key |-> i, val |-> usermap[i]]} ELSE cl.queue
  <2>1. PICK i \in InShard(cl.shard) :
          cl' = [cl EXCEPT !.unread = @ \ {i},
                           !.queue = IF Stored(i) THEN @ \cup {[key |-> i, val |-> usermap[i]]} ELSE @]
    BY <1>3 DEF ReadEntry
  <2>2. i \in cl.unread
    BY DEF InShard
  <2> QED
    BY <1>1, <2>1, <2>2
<1>9. ASSUME IterLock \/ IterUnlock
      PROVE  /\ cl'.pc = cl.pc /\ cl'.cur = cl.cur /\ cl'.outdated = cl.outdated /\ cl'.unread = cl.unread
             /\ cl'.queue = cl.queue
  <2>1. \E s : cl' = [cl EXCEPT !.shard = s]
    BY <1>9 DEF IterLock, IterUnlock
  <2> QED
    BY <1>1, <2>1
<1>4. ASSUME LookAt
      PROVE  /\ cl.pc = "loop" /\ cl'.unread = cl.unread /\ cl'.outdated = cl.outdated
             /\ \E e \in cl.queue :
                  /\ cl'.queue = cl.queue \ {e}
                  /\ cl'.pc = "loop" \/ (cl'.pc = "check" /\ cl'.cur = e /\ Outdated(e.val))
  BY <1>1, <1>4 DEF LookAt, CleanerAt
<1>5. ASSUME CleanerCheckCon \/ CleanerCloseCon
      PROVE  /\ cl'.pc \in {"close", "remove"} /\ cl'.cur = cl.cur /\ cl.pc \in {"check", "close"}
             /\ cl'.queue = cl.queue /\ cl'.outdated = cl.outdated
  <2>1. \E pc \in {"remove", "close"} : cl' = [cl EXCEPT !.pc = pc]
    BY <1>5 DEF CleanerCheckCon, CleanerCloseCon
  <2> QED
    BY <1>1, <1>5, <2>1 DEF CleanerCheckCon, CleanerCloseCon, CleanerAt
<1>6. ASSUME CleanerRemoveUser
      PROVE  /\ cl.pc = "remove" /\ cl'.pc = "loop" /\ cl'.queue = cl.queue
             /\ cl'.outdated = cl.outdated \cup {cl.cur.key}
  BY <1>1, <1>6 DEF CleanerRemoveUser, CleanerAt
<1>7. ASSUME EndLoop
      PROVE  /\ cl.pc = "loop" /\ cl.unread = {} /\ cl.queue = {} /\ cl'.pc = "sweep"
             /\ cl'.unread = {} /\ cl'.queue = {} /\ cl'.outdated = cl.outdated
  BY <1>1, <1>7 DEF EndLoop, CleanerAt
<1>8. ASSUME Sweep
      PROVE  /\ cl.pc = "sweep"
             /\ \/ cl'.pc = "idle" /\ cl'.unread = {} /\ cl'.queue = {} /\ cl'.outdated = {}
                \/ /\ cl'.pc = "sweep" /\ cl'.unread = cl.unread /\ cl'.queue = cl.queue
                   /\ cl'.outdated \subseteq cl.outdated
  BY <1>1, <1>8 DEF Sweep, CleanerAt, NotCleaning
<1> QED
  BY <1>2, <1>3, <1>4, <1>5, <1>6, <1>7, <1>8, <1>9

\* Who does not clean leaves the variables of CleanUsermap alone.
LEMMA CleanerKept == [Next]_vars => cl' = cl \/ StartCleaning \/ Clean
BY DEF Next, Step, Send, Get, Copy, Put, Connect, Refused, Enter, Handle, CheckCon, CloseCon, RemoveUser,
       DayPasses, vars

LEMMA RefsKept ==
  ASSUME TypeOK, RefsFilled, [Next]_vars, NEW e \in Refs'
  PROVE  \/ e \in Refs
         \/ \E r \in Requests : Copy(r) /\ e = Entry(req[r].id, Session(r))
         \/ \E r \in Requests : Enter(r) /\ e = Entry(req[r].login, Posted(r))
<1> USE UserSessionsAssumption
<1>1. ASSUME NEW i \in Ids, usermap'[i] # None, e = Entry(i, usermap'[i])
      PROVE  e \in Refs \/ \E r \in Requests : Enter(r) /\ e = Entry(req[r].login, Posted(r))
  <2>1. CASE usermap'[i] = usermap[i]
    BY <1>1, <2>1 DEF Stored, Refs, StoredEntries
  <2>2. CASE usermap'[i] # usermap[i]
    <3>1. (\E r \in Requests : Put(r) \/ Enter(r) \/ RemoveUser(r)) \/ CleanerRemoveUser \/ Sweep
      BY <2>2 DEF Next, Step, Clean, Send, Get, Copy, Connect, Refused, Handle, CheckCon, CloseCon,
                  StartCleaning, IterLock, ReadEntry, IterUnlock, LookAt, CleanerCheckCon, CleanerCloseCon,
                  EndLoop, DayPasses, vars
    <3>2. ASSUME NEW r \in Requests, Put(r) PROVE e \in Refs
      <4>1. Entry(req[r].id, Session(r)) \in Refs /\ obj[Session(r)].id = req[r].id
        BY <3>2, RefFacts DEF Put, At, Filled
      <4> QED
        BY <1>1, <2>2, <3>2, <4>1 DEF Put, TypeOK
    <3>3. ASSUME NEW r \in Requests, Enter(r) PROVE e = Entry(req[r].login, Posted(r))
      BY <1>1, <2>2, <3>3 DEF Enter, TypeOK
    <3>4. ~CleanerRemoveUser /\ ~Sweep /\ \A r \in Requests : ~RemoveUser(r)
      BY <1>1, <2>2 DEF CleanerRemoveUser, Sweep, RemoveUser, TypeOK
    <3> QED
      BY <3>1, <3>2, <3>3, <3>4
  <2> QED
    BY <2>1, <2>2
<1>2. ASSUME e \in cl.queue' PROVE e \in Refs
  <2>1. CASE cl' = cl
    BY <1>2, <2>1 DEF Refs
  <2>2. CASE StartCleaning \/ Clean
    <3>1. CASE ReadEntry
      <4>1. PICK i \in cl.unread :
              cl'.queue = IF Stored(i) THEN cl.queue \cup {[key |-> i, val |-> usermap[i]]} ELSE cl.queue
        BY <3>1, CleanerEffect
      <4>2. i \in Ids
        BY DEF TypeOK, CleanerStates
      <4>3. e \in cl.queue \/ (Stored(i) /\ e = Entry(i, usermap[i]))
        BY <1>2, <4>1 DEF Entry
      <4> QED
        BY <4>2, <4>3 DEF Refs, StoredEntries
    <3>2. CASE ~ReadEntry
      <4>1. e \in cl.queue
        BY <1>2, <2>2, <3>2, CleanerEffect DEF Clean
      <4> QED
        BY <4>1 DEF Refs
    <3> QED
      BY <3>1, <3>2
  <2> QED
    BY <2>1, <2>2, CleanerKept
<1>3. ASSUME cl.pc' \in {"check", "close", "remove"}, e = cl.cur' PROVE e \in Refs
  <2>1. CASE cl' = cl
    BY <1>3, <2>1 DEF Refs, Current
  <2>2. CASE StartCleaning \/ Clean
    <3>1. CASE LookAt
      BY <1>3, <3>1, CleanerEffect DEF Refs
    <3>2. CASE CleanerCheckCon \/ CleanerCloseCon \/ ReadEntry \/ IterLock \/ IterUnlock
      BY <1>3, <3>2, CleanerEffect DEF Refs, Current
    <3>3. CASE StartCleaning \/ CleanerRemoveUser \/ EndLoop \/ Sweep
      BY <1>3, <3>3, CleanerEffect
    <3> QED
      BY <2>2, <3>1, <3>2, <3>3 DEF Clean
  <2> QED
    BY <2>1, <2>2, CleanerKept
<1>4. ASSUME NEW q \in Requests, req'[q].pc = "copy", e = Entry(req'[q].id, req'[q].from) PROVE e \in Refs
  <2>1. CASE req'[q] = req[q]
    BY <1>4, <2>1 DEF Refs, Found
  <2>2. ASSUME Get(q) PROVE e \in Refs
    <3>1. req[q].id \in Ids /\ Stored(req[q].id) /\ e = Entry(req[q].id, usermap[req[q].id])
      BY <1>4, <2>2, GetEffect
    <3> QED
      BY <3>1 DEF Refs, StoredEntries
  <2>3. ASSUME NEW r \in Requests, NEW pc \in States \ {"unsent", "get", "copy"}, Goto(r, pc) PROVE req'[q] = req[q]
    BY <1>4, <2>3, GotoEffect
  <2> QED
    BY <1>4, <2>1, <2>2, <2>3, Moves, SendEffect, GetEffect
<1>5. ASSUME NEW q \in Requests, req'[q].pc \in {"put", "check", "close", "remove"},
             e = Entry(req'[q].id, Session(q))
      PROVE  e \in Refs \/ \E r \in Requests : Copy(r) /\ e = Entry(req[r].id, Session(r))
  <2>1. CASE req'[q] = req[q]
    BY <1>5, <2>1 DEF Refs, Copies
  <2>2. ASSUME NEW r \in Requests, Get(r) PROVE req'[q] = req[q]
    BY <1>5, <2>2, GetEffect
  <2>3. ASSUME NEW r \in Requests, NEW b \in Browsers, NEW k \in RequestKinds, NEW i \in Ids, Send(r, b, k, i)
        PROVE  req'[q] = req[q]
    BY <1>5, <2>3, SendEffect
  <2>4. ASSUME NEW pc \in States \ {"unsent", "get", "copy"}, Goto(q, pc), pc = "put" => Copy(q),
               pc \in {"check", "close", "remove"} => req[q].pc \in {"put", "check", "close"}
        PROVE  e \in Refs \/ (Copy(q) /\ e = Entry(req[q].id, Session(q)))
    <3>1. req'[q].pc = pc /\ e = Entry(req[q].id, Session(q))
      BY <1>5, <2>4, GotoEffect
    <3>2. CASE pc = "put"
      BY <2>4, <3>1, <3>2
    <3>3. CASE pc # "put"
      BY <1>5, <2>4, <3>1, <3>3 DEF Refs, Copies
    <3> QED
      BY <3>2, <3>3
  <2>5. ASSUME NEW r \in Requests, r # q, NEW pc \in States \ {"unsent", "get", "copy"}, Goto(r, pc)
        PROVE  req'[q] = req[q]
    BY <2>5, GotoEffect
  <2> QED
    BY <2>1, <2>2, <2>3, <2>4, <2>5, Moves
<1>6. \/ \E i \in Ids : usermap'[i] # None /\ e = Entry(i, usermap'[i])
      \/ e \in cl.queue'
      \/ cl.pc' \in {"check", "close", "remove"} /\ e = cl.cur'
      \/ \E q \in Requests : req'[q].pc = "copy" /\ e = Entry(req'[q].id, req'[q].from)
      \/ \E q \in Requests : req'[q].pc \in {"put", "check", "close", "remove"} /\ e = Entry(req'[q].id, Session(q))
  <2>1. e \in StoredEntries' \/ e \in cl.queue' \/ e \in Current' \/ e \in Found' \/ e \in Copies'
    BY DEF Refs
  <2>2. e \in StoredEntries' => \E i \in Ids : usermap'[i] # None /\ e = Entry(i, usermap'[i])
    BY DEF StoredEntries, Stored, Entry
  <2>3. e \in Current' => cl.pc' \in {"check", "close", "remove"} /\ e = cl.cur'
    BY DEF Current
  <2>4. e \in Found' => \E q \in Requests : req'[q].pc = "copy" /\ e = Entry(req'[q].id, req'[q].from)
    BY DEF Found, Entry
  <2>5. e \in Copies' =>
          \E q \in Requests : /\ req'[q].pc \in {"put", "check", "close", "remove"}
                              /\ e = Entry(req'[q].id, Session(q))
    BY DEF Copies, Entry, Session
  <2> QED
    BY <2>1, <2>2, <2>3, <2>4, <2>5
<1> QED
  BY <1>1, <1>2, <1>3, <1>4, <1>5, <1>6

LEMMA RefsFilledStep ==
  ASSUME TypeOK, RefsFilled, Progress, [Next]_vars
  PROVE  RefsFilled'
<1>1. ASSUME NEW e \in Refs' PROVE e \in Entries /\ Filled(e.key, e.val)'
  <2>1. ASSUME e \in Refs PROVE e \in Entries /\ Filled(e.key, e.val)'
    <3>1. e \in Entries /\ e.key \in Ids /\ e.val \in Objects /\ Filled(e.key, e.val)
      BY <2>1 DEF RefsFilled, Entries
    <3> QED
      BY <3>1, FilledKept
  <2>2. ASSUME NEW r \in Requests, Copy(r), e = Entry(req[r].id, Session(r))
        PROVE  e \in Entries /\ Filled(e.key, e.val)'
    <3>1. /\ req[r].id \in Ids /\ req[r].from \in Objects /\ Session(r) \in Objects
          /\ Filled(req[r].id, req[r].from)
      BY <2>2, RefFacts, ObjectFacts DEF Copy, At
    <3>2. Filled(req[r].id, req[r].from)'
      <4> DEFINE i == req[r].id
                 o == req[r].from
      <4>1. i \in Ids /\ o \in Objects /\ Filled(i, o)
        BY <3>1
      <4>2. /\ obj'[o].id = i /\ obj'[o].con \in Requests
            /\ req'[obj'[o].con].login = i /\ con'[obj'[o].con] # "none"
        <5> HIDE DEF i, o
        <5> QED
          BY <4>1, FilledKept DEF Filled
      <4>3. req'[r].id = i /\ req'[r].from = o
        BY <2>2, GotoEffect DEF Copy, States
      <4> QED
        BY <4>2, <4>3 DEF Filled
    <3>3. req'[r].id = req[r].id /\ req'[r].from = req[r].from
      BY <2>2, GotoEffect DEF Copy, States
    <3>4. obj'[Session(r)].id = obj'[req[r].from].id /\ obj'[Session(r)].con = obj'[req[r].from].con
      BY <2>2, CopyEffect
    <3>5. e.key = req[r].id /\ e.val = Session(r) /\ e \in Entries
      BY <2>2, <3>1 DEF Entry, Entries
    <3> QED
      BY <3>2, <3>3, <3>4, <3>5 DEF Filled
  <2>3. ASSUME NEW r \in Requests, Enter(r), e = Entry(req[r].login, Posted(r))
        PROVE  e \in Entries /\ Filled(e.key, e.val)'
    <3>1. e.key = req[r].login /\ e.val = Posted(r) /\ Posted(r) \in Objects
      BY <2>3, ObjectFacts DEF Entry
    <3>2. req[r].login \in Ids /\ Filled(e.key, e.val)
      BY <2>3, <3>1 DEF Enter, At, Progress
    <3>3. e \in Entries
      BY <2>3, <3>1, <3>2 DEF Entry, Entries
    <3> QED
      BY <3>1, <3>2, <3>3, FilledKept
  <2> QED
    BY <2>1, <2>2, <2>3, RefsKept
<1> QED
  BY <1>1 DEF RefsFilled

\* What is not filled stays so until its own request fills it.
LEMMA EmptyKept ==
  ASSUME TypeOK, RefsFilled, [Next]_vars, NEW r \in Requests
  PROVE  /\ ~Copy(r) /\ obj[Session(r)].id = None => obj'[Session(r)].id = None
         /\ ~Connect(r) /\ obj[Posted(r)].id = None => obj'[Posted(r)].id = None
         /\ ~Connect(r) /\ ~Refused(r) /\ con[r] = "none" => con'[r] = "none"
<1> USE UserSessionsAssumption
<1>1. ASSUME NEW o \in Objects, obj[o].id = None, o = Session(r) => ~Copy(r), o = Posted(r) => ~Connect(r),
             o \in {Session(r), Posted(r)}
      PROVE  obj'[o].id = None
  <2>1. ASSUME NEW q \in Requests, Copy(q) PROVE obj'[o].id = None
    <3>1. req[q].from # o
      BY <1>1, <2>1, RefFacts DEF Copy, At, Filled
    <3>2. o # Session(q)
      BY <1>1, <2>1, ObjectFacts
    <3> QED
      BY <1>1, <2>1, <3>1, <3>2, CopyEffect
  <2>2. ASSUME NEW q \in Requests, Connect(q) PROVE obj'[o].id = None
    <3>1. o # Posted(q)
      BY <1>1, <2>2, ObjectFacts
    <3> QED
      BY <1>1, <2>2, <3>1 DEF Connect, TypeOK
  <2>3. ASSUME \A q \in Requests : ~Copy(q) /\ ~Connect(q), ~DayPasses PROVE obj' = obj
    BY <2>3 DEF Next, Step, Clean, Send, Get, Put, Refused, Enter, Handle, CheckCon, CloseCon, RemoveUser,
                StartCleaning, IterLock, ReadEntry, IterUnlock, LookAt, CleanerCheckCon, CleanerCloseCon,
                CleanerRemoveUser, EndLoop, Sweep, vars
  <2> QED
    BY <1>1, <2>1, <2>2, <2>3, DayEffect
<1>2. ASSUME ~Connect(r), ~Refused(r), con[r] = "none" PROVE con'[r] = "none"
  <2>0. con \in [Requests -> {"none", "open", "closed"}]
    BY DEF TypeOK
  <2>1. ASSUME NEW q \in Requests, Connect(q) \/ Refused(q) PROVE con'[r] = "none"
    <3>1. q # r /\ \E c \in {"open", "closed"} : con' = [con EXCEPT ![q] = c]
      BY <1>2, <2>1 DEF Connect, Refused
    <3> QED
      BY <1>2, <2>0, <3>1
  <2>2. ASSUME NEW q \in Requests, CloseCon(q) PROVE con'[r] = "none"
    <3>1. con[ConOf(Session(q))] # "none"
      BY <2>2, RefFacts DEF CloseCon, At, Filled, ConOf
    <3> QED
      BY <1>2, <2>0, <2>2, <3>1 DEF CloseCon
  <2>3. ASSUME CleanerCloseCon PROVE con'[r] = "none"
    <3>1. con[ConOf(cl.cur.val)] # "none"
      BY <2>3, RefFacts DEF CleanerCloseCon, CleanerAt, Filled, ConOf
    <3> QED
      BY <1>2, <2>0, <2>3, <3>1 DEF CleanerCloseCon
  <2>4. ASSUME ~CleanerCloseCon, \A q \in Requests : ~CloseCon(q) /\ ~Connect(q) /\ ~Refused(q) PROVE con' = con
    BY <2>4 DEF Next, Step, Clean, Send, Get, Copy, Put, Enter, Handle, CheckCon, RemoveUser, StartCleaning,
                IterLock, ReadEntry, IterUnlock, LookAt, CleanerCheckCon, CleanerRemoveUser, EndLoop, Sweep,
                DayPasses, vars
  <2> QED
    BY <1>2, <2>1, <2>2, <2>3, <2>4
<1> QED
  BY <1>1, <1>2, ObjectFacts

\* A request goes on by its own steps only.
LEMMA OwnStep ==
  ASSUME TypeOK, [Next]_vars, NEW r \in Requests, ~Step(r),
         \A b \in Browsers, k \in RequestKinds, i \in Ids : ~Send(r, b, k, i)
  PROVE  req'[r] = req[r]
<1>1. ASSUME NEW q \in Requests, q # r, Step(q) PROVE req'[r] = req[r]
  <2>1. Get(q) \/ \E pc \in States : Goto(q, pc)
    BY <1>1, HandlerState
       DEF Step, Copy, Put, Connect, Refused, Enter, Handle, CheckCon, CloseCon, RemoveUser, States
  <2> QED
    BY <1>1, <2>1, GetEffect, GotoEffect
<1>2. ASSUME NEW q \in Requests, q # r, NEW b \in Browsers, NEW k \in RequestKinds, NEW i \in Ids, Send(q, b, k, i)
      PROVE  req'[r] = req[r]
  BY <1>2, SendEffect
<1>3. ASSUME StartCleaning \/ Clean \/ DayPasses \/ UNCHANGED vars PROVE req' = req
  BY <1>3 DEF StartCleaning, Clean, IterLock, ReadEntry, IterUnlock, LookAt, CleanerCheckCon, CleanerCloseCon,
              CleanerRemoveUser, EndLoop, Sweep, DayPasses, vars
<1> QED
  BY <1>1, <1>2, <1>3 DEF Next

LEMMA ProgressStep ==
  ASSUME TypeOK, RefsFilled, Progress, [Next]_vars
  PROVE  Progress'
<1> USE UserSessionsAssumption
<1> SUFFICES ASSUME NEW r \in Requests
             PROVE  /\ req'[r].kind = "login" <=> req'[r].login \in Ids
                    /\ req'[r].pc \in {"unsent", "get", "copy"} => obj'[Session(r)].id = None
                    /\ req'[r].pc \in {"unsent", "get", "copy", "put", "connect"} =>
                         obj'[Posted(r)].id = None /\ con'[r] = "none"
                    /\ req'[r].pc \in {"connect", "enter"} => req'[r].kind = "login"
                    /\ req'[r].pc = "enter" =>
                         /\ obj'[Posted(r)].id = req'[r].login /\ obj'[Posted(r)].con \in Requests
                         /\ req'[obj'[Posted(r)].con].login = req'[r].login
                         /\ con'[obj'[Posted(r)].con] # "none"
                    /\ con'[r] # "none" => req'[r].pc \in {"enter", "done"} /\ req'[r].kind = "login"
  BY DEF Progress, Filled, Session, Posted
<1>0. /\ req[r].kind = "login" <=> req[r].login \in Ids
      /\ req[r].pc \in {"unsent", "get", "copy"} => obj[Session(r)].id = None
      /\ req[r].pc \in {"unsent", "get", "copy", "put", "connect"} => obj[Posted(r)].id = None /\ con[r] = "none"
      /\ req[r].pc \in {"connect", "enter"} => req[r].kind = "login"
      /\ req[r].pc = "enter" => Filled(req[r].login, Posted(r))
      /\ con[r] # "none" => req[r].pc \in {"enter", "done"} /\ req[r].kind = "login"
  BY DEF Progress
<1>1. CASE req'[r] = req[r] /\ ~Step(r)
  <2>1. ~Copy(r) /\ ~Connect(r) /\ ~Refused(r)
    BY <1>1 DEF Step
  <2>2. req[r].pc = "enter" =>
          /\ obj'[Posted(r)].id = req[r].login /\ obj'[Posted(r)].con \in Requests
          /\ req'[obj'[Posted(r)].con].login = req[r].login /\ con'[obj'[Posted(r)].con] # "none"
    <3> DEFINE i == req[r].login
    <3> SUFFICES ASSUME req[r].pc = "enter"
                 PROVE  /\ obj'[Posted(r)].id = i /\ obj'[Posted(r)].con \in Requests
                        /\ req'[obj'[Posted(r)].con].login = i /\ con'[obj'[Posted(r)].con] # "none"
      OBVIOUS
    <3>1. i \in Ids /\ Posted(r) \in Objects /\ Filled(i, Posted(r))
      BY <1>0, ObjectFacts
    <3> HIDE DEF i
    <3> QED
      BY <3>1, FilledKept DEF Filled, Posted
  <2> QED
    BY <1>0, <1>1, <2>1, <2>2, EmptyKept
<1>2. ASSUME NEW b \in Browsers, NEW k \in RequestKinds, NEW i \in Ids, Send(r, b, k, i)
      PROVE  /\ req'[r].kind = "login" <=> req'[r].login \in Ids
             /\ req'[r].pc = "get" /\ obj'[Session(r)].id = None /\ obj'[Posted(r)].id = None /\ con'[r] = "none"
  <2>1. /\ req[r].pc = "unsent" /\ req'[r].pc = "get" /\ req'[r].kind = k
        /\ req'[r].login = IF k = "login" THEN i ELSE None
    BY <1>2, SendEffect
  <2>2. UNCHANGED <<obj, con>>
    BY <1>2 DEF Send
  <2> QED
    BY <1>0, <2>1, <2>2
<1>3. CASE Get(r)
  <2>1. UNCHANGED <<obj, con>> /\ req[r].pc = "get"
    BY <1>3 DEF Get, At
  <2> QED
    BY <1>0, <1>3, <2>1, GetEffect
<1>4. CASE Copy(r)
  <2>1. req[r].pc = "copy" /\ req'[r].pc = "put" /\ req'[r].kind = req[r].kind /\ req'[r].login = req[r].login
    BY <1>4, GotoEffect DEF Copy, At, States
  <2>2. ~Connect(r) /\ ~Refused(r)
    BY <2>1 DEF Connect, Refused, At
  <2> QED
    BY <1>0, <2>1, <2>2, EmptyKept
<1>5. CASE Put(r)
  <2>1. /\ req[r].pc = "put" /\ req'[r].pc = Handler(r) /\ req'[r].kind = req[r].kind /\ req'[r].login = req[r].login
    BY <1>5, GotoEffect, HandlerState DEF Put, At, States
  <2>2. Handler(r) = "connect" => req[r].kind = "login"
    BY DEF Handler
  <2>3. UNCHANGED <<obj, con>>
    BY <1>5 DEF Put
  <2> QED
    BY <1>0, <2>1, <2>2, <2>3, HandlerState
<1>6. CASE Connect(r)
  <2>1. /\ req[r].pc = "connect" /\ req'[r].pc = "enter" /\ req'[r].kind = req[r].kind /\ req'[r].login = req[r].login
    BY <1>6, GotoEffect DEF Connect, At, States
  <2>2. obj'[Posted(r)] = [id |-> req[r].login, con |-> r, fresh |-> FALSE] /\ con'[r] = "open"
    BY <1>6, ObjectFacts DEF Connect, TypeOK
  <2>3. obj'[Posted(r)].id = req[r].login /\ obj'[Posted(r)].con = r
    BY <2>2
  <2> QED
    BY <1>0, <2>1, <2>2, <2>3
<1>7. CASE Refused(r) \/ Enter(r)
  <2>1. /\ req[r].pc \in {"connect", "enter"} /\ req'[r].pc = "done" /\ req'[r].kind = req[r].kind
        /\ req'[r].login = req[r].login
    BY <1>7, GotoEffect DEF Refused, Enter, At, States
  <2> QED
    BY <1>0, <2>1
<1>8. CASE Handle(r) \/ CheckCon(r) \/ CloseCon(r) \/ RemoveUser(r)
  <2>1. /\ req[r].pc \in {"handle", "check", "close", "remove"} /\ req'[r].pc \in {"close", "remove", "done"}
        /\ req'[r].kind = req[r].kind /\ req'[r].login = req[r].login
    BY <1>8, GotoEffect DEF Handle, CheckCon, CloseCon, RemoveUser, At, States
  <2>2. ~Connect(r) /\ ~Refused(r)
    BY <2>1 DEF Connect, Refused, At
  <2> QED
    BY <1>0, <2>1, <2>2, EmptyKept
<1> QED
  BY <1>0, <1>1, <1>2, <1>3, <1>4, <1>5, <1>6, <1>7, <1>8, OwnStep DEF Step

LEMMA CleanerStep ==
  ASSUME TypeOK, CleanerOk, [Next]_vars
  PROVE  CleanerOk'
<1>1. cl.unread = {} => ~ReadEntry
  BY DEF ReadEntry, InShard
<1>2. CASE cl' = cl
  BY <1>2 DEF CleanerOk
<1>3. CASE StartCleaning \/ Clean
  BY <1>1, <1>3, CleanerEffect DEF Clean, CleanerOk
<1> QED
  BY <1>2, <1>3, CleanerKept

LEMMA EnteredStep ==
  ASSUME TypeOK, RefsFilled, Progress, Entered, [Next]_vars
  PROVE  Entered'
<1> USE UserSessionsAssumption
<1>1. EnteredIds \subseteq EnteredIds'
  BY IdsKept
<1>2. ASSUME NEW r \in Requests, Enter(r) PROVE req[r].login \in EnteredIds'
  BY <1>2, GotoEffect DEF Enter, States, EnteredIds
<1>3. ASSUME NEW b \in Browsers PROVE cookie'[b] \in EnteredIds' \cup {None}
  <2>1. cookie[b] \in EnteredIds \cup {None} /\ cookie \in [Browsers -> Ids \cup {None}]
    BY DEF Entered, TypeOK
  <2>2. ASSUME NEW r \in Requests, Enter(r) PROVE cookie'[b] \in {cookie[b], req[r].login}
    BY <2>1, <2>2 DEF Enter
  <2>3. ASSUME NEW r \in Requests, Handle(r) \/ RemoveUser(r) PROVE cookie'[b] \in {cookie[b], None}
    BY <2>1, <2>3 DEF Handle, RemoveUser
  <2>4. ASSUME \A r \in Requests : ~Enter(r) /\ ~Handle(r) /\ ~RemoveUser(r) PROVE cookie' = cookie
    BY <2>4 DEF Next, Step, Clean, Send, Get, Copy, Put, Connect, Refused, CheckCon, CloseCon,
                StartCleaning, IterLock, ReadEntry, IterUnlock, LookAt, CleanerCheckCon, CleanerCloseCon,
                CleanerRemoveUser, EndLoop, Sweep, DayPasses, vars
  <2> QED
    BY <1>1, <1>2, <2>1, <2>2, <2>3, <2>4
<1>4. ASSUME NEW r \in Requests PROVE req'[r].id \in EnteredIds' \cup {None}
  <2>1. req[r].id \in EnteredIds \cup {None}
    BY DEF Entered
  <2>2. ASSUME NEW q \in Requests, NEW b \in Browsers, NEW k \in RequestKinds, NEW i \in Ids, Send(q, b, k, i)
        PROVE  req'[r].id \in EnteredIds \cup {None}
    BY <2>1, <2>2, SendEffect DEF Entered
  <2> QED
    BY <1>1, <2>1, <2>2, Moves, GetEffect, GotoEffect
<1>5. ASSUME NEW e \in Refs' PROVE e.key \in EnteredIds'
  <2>1. CASE e \in Refs
    BY <1>1, <2>1 DEF Entered
  <2>2. ASSUME NEW r \in Requests, Copy(r), e = Entry(req[r].id, Session(r)) PROVE e.key \in EnteredIds
    <3>1. req[r].id \in Ids
      BY <2>2, RefFacts DEF Copy, At
    <3> QED
      BY <2>2, <3>1 DEF Entry, Entered
  <2>3. ASSUME NEW r \in Requests, Enter(r), e = Entry(req[r].login, Posted(r)) PROVE e.key \in EnteredIds'
    BY <1>2, <2>3 DEF Entry
  <2> QED
    BY <1>1, <2>1, <2>2, <2>3, RefsKept
<1>6. seen' \subseteq EnteredIds'
  <2>1. ASSUME NEW r \in Requests, Copy(r) PROVE seen' \subseteq EnteredIds
    <3>1. req[r].id \in Ids
      BY <2>1, RefFacts DEF Copy, At
    <3> QED
      BY <2>1, <3>1 DEF Copy, Entered
  <2>2. ASSUME \A r \in Requests : ~Copy(r) PROVE seen' \subseteq seen
    BY <2>2 DEF Next, Step, Clean, Send, Get, Put, Connect, Refused, Enter, Handle, CheckCon, CloseCon, RemoveUser,
                StartCleaning, IterLock, ReadEntry, IterUnlock, LookAt, CleanerCheckCon, CleanerCloseCon,
                CleanerRemoveUser, EndLoop, Sweep, DayPasses, vars
  <2> QED
    BY <1>1, <2>1, <2>2 DEF Entered
<1> QED
  BY <1>3, <1>4, <1>5, <1>6 DEF Entered

LEMMA ClosedFirstStep ==
  ASSUME TypeOK, RefsFilled, Progress, ClosedFirst, [Next]_vars
  PROVE  ClosedFirst'
<1>1. ClosedIds \subseteq ClosedIds'
  BY IdsKept
\* A filled object whose connection is closed speaks of a user that is out.
<1>2. ASSUME NEW i \in Ids, NEW o \in Objects, Filled(i, o), con[obj[o].con] # "open" \/ con'[obj[o].con] = "closed"
      PROVE  i \in ClosedIds'
  <2>1. obj[o].con \in Requests /\ req[obj[o].con].login = i /\ con[obj[o].con] # "none"
    BY <1>2 DEF Filled
  <2>2. con'[obj[o].con] = "closed"
    BY <1>2, <2>1, ConsKept DEF TypeOK
  <2>3. req'[obj[o].con].login = i
    BY <2>1, RequestsKept DEF Progress
  <2> QED
    BY <2>1, <2>2, <2>3 DEF ClosedIds
<1>3. ASSUME NEW r \in Requests, req'[r].pc = "remove" PROVE req'[r].id \in ClosedIds'
  <2>1. CASE req'[r] = req[r]
    BY <1>1, <1>3, <2>1 DEF ClosedFirst
  <2>2. CASE CheckCon(r) \/ CloseCon(r)
    <3>1. req[r].id \in Ids /\ Session(r) \in Objects /\ Filled(req[r].id, Session(r))
      BY <2>2, RefFacts, ObjectFacts DEF CheckCon, CloseCon, At
    <3>2. req'[r].id = req[r].id
      BY <2>2, GotoEffect DEF CheckCon, CloseCon, States
    <3>3. CASE CheckCon(r)
      <4>1. con[obj[Session(r)].con] # "open"
        BY <1>3, <3>3, GotoEffect DEF CheckCon, ConOf, States
      <4> QED
        BY <1>2, <3>1, <3>2, <4>1
    <3>4. CASE CloseCon(r)
      <4>1. con'[obj[Session(r)].con] = "closed"
        BY <3>1, <3>4 DEF CloseCon, ConOf, Filled, TypeOK
      <4> QED
        BY <1>2, <3>1, <3>2, <4>1
    <3> QED
      BY <2>2, <3>3, <3>4
  <2>3. CASE Step(r) /\ ~CheckCon(r) /\ ~CloseCon(r)
    <3>1. Get(r) \/ \E pc \in States \ {"remove"} : Goto(r, pc)
      BY <2>3, HandlerState DEF Step, Copy, Put, Connect, Refused, Enter, Handle, RemoveUser, States
    <3> QED
      BY <1>3, <3>1, GetEffect, GotoEffect
  <2>4. ASSUME NEW b \in Browsers, NEW k \in RequestKinds, NEW i \in Ids, Send(r, b, k, i) PROVE FALSE
    BY <1>3, <2>4, SendEffect
  <2> QED
    BY <2>1, <2>2, <2>3, <2>4, OwnStep
<1>4. ASSUME cl'.pc = "remove" PROVE cl'.cur.key \in ClosedIds'
  <2>1. CASE cl' = cl
    BY <1>1, <1>4, <2>1 DEF ClosedFirst
  <2>2. CASE ReadEntry \/ IterLock \/ IterUnlock
    BY <1>1, <1>4, <2>2, CleanerEffect DEF ClosedFirst
  <2>3. CASE CleanerCheckCon \/ CleanerCloseCon
    <3>1. cl.cur \in Entries /\ Filled(cl.cur.key, cl.cur.val) /\ cl'.cur = cl.cur
      BY <2>3, RefFacts, CleanerEffect
    <3>2. cl.cur.key \in Ids /\ cl.cur.val \in Objects
      BY <3>1 DEF Entries
    <3>3. con[obj[cl.cur.val].con] # "open" \/ con'[obj[cl.cur.val].con] = "closed"
      <4>1. CASE CleanerCheckCon
        <5>1. con[obj[cl.cur.val].con] = "open" => cl'.pc = "close"
          BY <4>1 DEF CleanerCheckCon, ConOf, TypeOK, CleanerStates
        <5> QED
          BY <1>4, <5>1
      <4>2. CASE CleanerCloseCon
        BY <3>1, <4>2 DEF CleanerCloseCon, ConOf, Filled, TypeOK
      <4> QED
        BY <2>3, <4>1, <4>2
    <3> QED
      BY <1>2, <3>1, <3>2, <3>3
  <2>4. CASE LookAt \/ StartCleaning \/ CleanerRemoveUser \/ EndLoop \/ Sweep
    BY <1>4, <2>4, CleanerEffect
  <2> QED
    BY <2>1, <2>2, <2>3, <2>4, CleanerKept DEF Clean
<1>5. cl'.outdated \subseteq ClosedIds'
  <2>1. cl'.outdated \subseteq cl.outdated \/ (cl.pc = "remove" /\ cl'.outdated = cl.outdated \cup {cl.cur.key})
    BY CleanerEffect, CleanerKept DEF Clean
  <2> QED
    BY <1>1, <2>1 DEF ClosedFirst
<1> QED
  BY <1>3, <1>4, <1>5 DEF ClosedFirst

-----------------------------------------------------------------------------
LEMMA BaseStep == BaseInv /\ [Next]_vars => BaseInv'
<1> SUFFICES ASSUME BaseInv, [Next]_vars PROVE BaseInv'
  OBVIOUS
<1>1. TypeOK /\ RefsFilled /\ Progress /\ CleanerOk /\ Entered /\ ClosedFirst
  BY DEF BaseInv
<1>2. RefsFilled' /\ Progress' /\ CleanerOk' /\ Entered' /\ ClosedFirst'
  BY <1>1, RefsFilledStep, ProgressStep, CleanerStep, EnteredStep, ClosedFirstStep
<1>3. TypeOK'
  <2>1. Types'
    BY <1>1, TypesStep
  <2>2. ASSUME NEW i \in Ids, usermap'[i] # None PROVE obj'[usermap'[i]].con \in Requests
    <3>1. Entry(i, usermap'[i]) \in Refs'
      BY <2>2 DEF Refs, StoredEntries, Stored, Entry
    <3>2. obj'[Entry(i, usermap'[i]).val].con \in Requests
      BY <1>2, <3>1 DEF RefsFilled, Filled, Requests
    <3> QED
      BY <3>2 DEF Entry
  <2> QED
    BY <2>1, <2>2 DEF Types, TypeOK, Stored, ConOf
<1> QED
  BY <1>2, <1>3 DEF BaseInv

LEMMA InitInv == Init => IInv
<1> SUFFICES ASSUME Init PROVE IInv
  OBVIOUS
<1> USE UserSessionsAssumption
<1>1. Refs = {}
  BY DEF Init, Refs, StoredEntries, Stored, Current, Found, Copies, NotCleaning, Unsent
<1>2. TypeOK
  <2>1. Unsent \in RequestStates /\ NotCleaning \in CleanerStates
    BY DEF Unsent, NotCleaning, RequestStates, CleanerStates
  <2>2. NoUser \in [id : Ids \cup {None}, con : Requests \cup {None}, fresh : BOOLEAN]
    BY DEF NoUser
  <2> QED
    BY <2>1, <2>2 DEF Init, TypeOK, Stored
<1>3. RefsFilled /\ CleanerOk
  BY <1>1 DEF RefsFilled, CleanerOk, Init, NotCleaning
<1>4. Progress
  BY ObjectFacts DEF Init, Progress, Unsent, NoUser
<1>5. Entered
  BY <1>1 DEF Init, Entered, Unsent
<1>6. ClosedFirst
  BY DEF Init, ClosedFirst, Unsent, NotCleaning
<1>7. OnceOk
  BY <1>1 DEF Init, OnceOk, OneLogin, OpenStored, Freshness, Unsent
<1> QED
  BY <1>2, <1>3, <1>4, <1>5, <1>6, <1>7 DEF IInv, BaseInv

-----------------------------------------------------------------------------
(* When every user logs in once.                                           *)

\* Only a sent request gets another login.
LEMMA LoginKept ==
  ASSUME TypeOK, [Next]_vars, NEW r \in Requests
  PROVE  \/ req'[r].login = req[r].login
         \/ \E b \in Browsers, k \in RequestKinds, i \in Ids : Send(r, b, k, i)
BY Moves, SendEffect, GetEffect, GotoEffect

LEMMA OneLoginStep ==
  ASSUME TypeOK, Progress, ~LogsInAgain, OneLogin, [Next]_vars
  PROVE  OneLogin'
<1> USE UserSessionsAssumption
<1>1. ASSUME NEW r \in Requests, NEW b \in Browsers, NEW k \in RequestKinds, NEW i \in Ids, Send(r, b, k, i),
             NEW q \in Requests, q # r, req'[q].login = req'[r].login, req'[r].login \in Ids
      PROVE  FALSE
  <2>1. k = "login" /\ req'[r].login = i /\ req'[q] = req[q]
    BY <1>1, SendEffect
  <2>2. req[q].login = i /\ req[q].kind = "login"
    BY <1>1, <2>1 DEF Progress
  <2> QED
    BY <1>1, <2>1, <2>2 DEF Send
<1>2. ASSUME NEW q \in Requests, NEW r \in Requests, req'[q].login = req'[r].login, req'[r].login \in Ids
      PROVE  q = r
  <2>1. CASE req'[q].login = req[q].login /\ req'[r].login = req[r].login
    BY <1>2, <2>1 DEF OneLogin
  <2> QED
    BY <1>1, <1>2, <2>1, LoginKept
<1> QED
  BY <1>2 DEF OneLogin

\* Nobody removes a user whose connection is open.
LEMMA OpenStoredStep ==
  ASSUME BaseInv, OneLogin, OpenStored, [Next]_vars
  PROVE  OpenStored'
<1> USE UserSessionsAssumption
<1>1. TypeOK /\ RefsFilled /\ Progress /\ ClosedFirst
  BY DEF BaseInv
<1> SUFFICES ASSUME NEW r \in Requests, con'[r] = "open", req'[r].pc = "done"
             PROVE  usermap'[req'[r].login] # None
  BY DEF OpenStored, Stored
<1>2. con[r] = "open"
  <2>1. ~Connect(r) /\ ~Refused(r)
    BY <1>1, GotoEffect DEF Connect, Refused, States, TypeOK
  <2> QED
    BY <1>1, <2>1, EmptyKept, ConsKept DEF TypeOK
<1>3. req[r].pc \in {"enter", "done"} /\ req[r].login \in Ids /\ req'[r].login = req[r].login
  BY <1>1, <1>2, RequestsKept DEF Progress
<1>4. CASE req[r].pc = "enter"
  <2>1. Enter(r)
    <3>1. req'[r] # req[r]
      BY <1>4
    <3>2. \A b \in Browsers, k \in RequestKinds, i \in Ids : ~Send(r, b, k, i)
      BY <1>1, <1>4, SendEffect
    <3>3. Step(r)
      BY <1>1, <3>1, <3>2, OwnStep
    <3> QED
      BY <1>4, <3>3 DEF Step, Get, Copy, Put, Connect, Refused, Handle, CheckCon, CloseCon, RemoveUser, At
  <2> QED
    BY <1>1, <1>3, <2>1, ObjectFacts DEF Enter, TypeOK
<1>5. CASE req[r].pc = "done"
  <2>1. usermap[req[r].login] # None
    BY <1>2, <1>5 DEF OpenStored, Stored
  <2>2. req[r].login \notin ClosedIds
    BY <1>2, <1>3 DEF ClosedIds, OneLogin
  <2>3. ASSUME NEW q \in Requests, Put(q) \/ Enter(q) PROVE usermap'[req[r].login] # None
    BY <1>1, <1>3, <2>1, <2>3, ObjectFacts DEF Put, Enter, TypeOK
  <2>4. ASSUME NEW q \in Requests, RemoveUser(q) PROVE usermap'[req[r].login] # None
    <3>1. req[q].id \in ClosedIds
      BY <1>1, <2>4 DEF RemoveUser, At, ClosedFirst
    <3> QED
      BY <1>1, <1>3, <2>1, <2>2, <2>4, <3>1 DEF RemoveUser, TypeOK
  <2>5. ASSUME CleanerRemoveUser PROVE usermap'[req[r].login] # None
    <3>1. cl.cur.key \in ClosedIds
      BY <1>1, <2>5 DEF CleanerRemoveUser, CleanerAt, ClosedFirst
    <3> QED
      BY <1>1, <1>3, <2>1, <2>2, <2>5, <3>1 DEF CleanerRemoveUser, TypeOK
  <2>6. ASSUME Sweep PROVE usermap'[req[r].login] # None
    <3>1. usermap' = usermap \/ \E i \in cl.outdated : usermap' = [usermap EXCEPT ![i] = None]
      BY <2>6 DEF Sweep
    <3> QED
      BY <1>1, <1>3, <2>1, <2>2, <3>1 DEF ClosedFirst, TypeOK
  <2>7. ASSUME ~CleanerRemoveUser, ~Sweep, \A q \in Requests : ~Put(q) /\ ~Enter(q) /\ ~RemoveUser(q)
        PROVE  usermap' = usermap
    BY <2>7 DEF Next, Step, Clean, Send, Get, Copy, Connect, Refused, Handle, CheckCon, CloseCon, StartCleaning,
                IterLock, ReadEntry, IterUnlock, LookAt, CleanerCheckCon, CleanerCloseCon, EndLoop, DayPasses,
                vars
  <2> QED
    BY <1>3, <2>1, <2>3, <2>4, <2>5, <2>6, <2>7
<1> QED
  BY <1>3, <1>4, <1>5

LEMMA FreshnessStep ==
  ASSUME BaseInv, OneLogin, Freshness, [Next]_vars
  PROVE  Freshness'
<1> USE UserSessionsAssumption
<1>1. TypeOK /\ RefsFilled /\ Progress /\ CleanerOk /\ Entered
  BY DEF BaseInv
<1>2. ASSUME NEW r \in Requests, Copy(r) PROVE Freshness'
  <2> DEFINE i == req[r].id
             x == req[r].from
  <2>1. i \in Ids /\ x \in Objects /\ Entry(i, x) \in Refs /\ seen' = seen \cup {i}
    BY <1>1, <1>2, RefFacts DEF Copy, At
  <2>2. /\ obj'[x].fresh = TRUE /\ obj'[Session(r)].fresh = TRUE
        /\ \A o \in Objects : o \notin {x, Session(r)} => obj'[o] = obj[o]
    BY <1>1, <1>2, CopyEffect
  <2>3. Entry(i, x).key = i /\ Entry(i, x).val = x /\ Entry(i, Session(r)).key = i /\ Entry(i, Session(r)).val = Session(r)
    BY DEF Entry
  <2>4. \A e \in Refs' : e \in Refs \/ e = Entry(i, Session(r))
    <3>1. ASSUME NEW q \in Requests, Copy(q) \/ Enter(q) PROVE q = r /\ ~Enter(q)
      BY <1>1, <1>2, <3>1, GotoEffect DEF Copy, Enter, At, States
    <3>2. ASSUME NEW e \in Refs' PROVE e \in Refs \/ e = Entry(i, Session(r))
      <4>1. \/ e \in Refs
            \/ \E q \in Requests : Copy(q) /\ e = Entry(req[q].id, Session(q))
            \/ \E q \in Requests : Enter(q) /\ e = Entry(req[q].login, Posted(q))
        BY <1>1, RefsKept
      <4>2. ASSUME NEW q \in Requests, Copy(q), e = Entry(req[q].id, Session(q)) PROVE e = Entry(i, Session(r))
        BY <3>1, <4>2
      <4>3. ASSUME NEW q \in Requests, Enter(q), e = Entry(req[q].login, Posted(q)) PROVE FALSE
        BY <3>1, <4>3
      <4> QED
        BY <4>1, <4>2, <4>3
    <3> QED
      BY <3>2
  <2> HIDE DEF i, x
  <2>5. ASSUME NEW e \in Refs', e.key \in seen' PROVE obj'[e.val].fresh
    <3>1. CASE e = Entry(i, Session(r))
      BY <2>2, <2>3, <3>1
    <3>2. CASE e \in Refs
      <4>1. e.val \in Objects
        BY <1>1, <3>2 DEF RefsFilled, Entries
      <4>2. CASE e.key \in seen
        <5>1. obj[e.val].fresh
          BY <3>2, <4>2 DEF Freshness
        <5>2. CASE e.val \in {x, Session(r)}
          BY <2>2, <5>2
        <5>3. CASE e.val \notin {x, Session(r)}
          BY <2>2, <4>1, <5>1, <5>3
        <5> QED
          BY <5>2, <5>3
      <4>3. CASE e.key \notin seen
        <5>1. e.key = i
          BY <2>1, <2>5, <4>3
        <5>2. e.val = x
          BY <2>1, <2>3, <3>2, <4>3, <5>1 DEF Freshness
        <5> QED
          BY <2>2, <5>2
      <4> QED
        BY <4>2, <4>3
    <3> QED
      BY <2>4, <3>1, <3>2
  <2>6. ASSUME NEW e \in Refs', NEW f \in Refs', e.key = f.key, e.key \notin seen' PROVE e.val = f.val
    <3>1. e.key # i /\ e.key \notin seen
      BY <2>1, <2>6
    <3>2. e \in Refs /\ f \in Refs
      BY <2>3, <2>4, <2>6, <3>1
    <3> QED
      BY <2>6, <3>1, <3>2 DEF Freshness
  <2> QED
    BY <2>5, <2>6 DEF Freshness
<1>3. ASSUME NEW r \in Requests, Enter(r) PROVE Freshness'
  <2> DEFINE i == req[r].login
  <2>1. i \in Ids /\ i \notin EnteredIds
    BY <1>1, <1>3 DEF Enter, At, Progress, EnteredIds, OneLogin
  <2>2. i \notin seen /\ \A e \in Refs : e.key # i
    BY <1>1, <2>1 DEF Entered
  <2>3. \A e \in Refs' : e \in Refs \/ e = Entry(i, Posted(r))
    <3>1. ASSUME NEW q \in Requests, Copy(q) \/ Enter(q) PROVE q = r /\ ~Copy(q)
      BY <1>1, <1>3, <3>1, GotoEffect DEF Copy, Enter, At, States
    <3>2. ASSUME NEW e \in Refs' PROVE e \in Refs \/ e = Entry(i, Posted(r))
      <4>1. \/ e \in Refs
            \/ \E q \in Requests : Copy(q) /\ e = Entry(req[q].id, Session(q))
            \/ \E q \in Requests : Enter(q) /\ e = Entry(req[q].login, Posted(q))
        BY <1>1, RefsKept
      <4>2. ASSUME NEW q \in Requests, Copy(q), e = Entry(req[q].id, Session(q)) PROVE FALSE
        BY <3>1, <4>2
      <4>3. ASSUME NEW q \in Requests, Enter(q), e = Entry(req[q].login, Posted(q)) PROVE e = Entry(i, Posted(r))
        BY <3>1, <4>3
      <4> QED
        BY <4>1, <4>2, <4>3
    <3> QED
      BY <3>2
  <2>4. Entry(i, Posted(r)).key = i /\ UNCHANGED <<obj, seen>>
    BY <1>3 DEF Entry, Enter
  <2> HIDE DEF i
  <2>5. ASSUME NEW e \in Refs', e.key \in seen' PROVE obj'[e.val].fresh
    BY <2>2, <2>3, <2>4, <2>5 DEF Freshness
  <2>6. ASSUME NEW e \in Refs', NEW f \in Refs', e.key = f.key, e.key \notin seen' PROVE e.val = f.val
    BY <2>2, <2>3, <2>4, <2>6 DEF Freshness
  <2> QED
    BY <2>5, <2>6 DEF Freshness
<1>4. ASSUME DayPasses PROVE Freshness'
  <2>1. seen' = {} /\ UNCHANGED <<usermap, req, cl>> /\ cl.pc = "idle" /\ \A r \in Requests : req[r].pc \in {"unsent", "done"}
    BY <1>4 DEF DayPasses, Quiet, Idle
  <2>2. cl.queue = {}
    BY <1>1, <2>1 DEF CleanerOk
  <2>3. \A e \in Refs' : e \in StoredEntries'
    BY <2>1, <2>2 DEF Refs, Current, Found, Copies
  <2>4. \A e \in StoredEntries' : e.val = usermap'[e.key]
    BY DEF StoredEntries, Entry
  <2>5. \A e \in Refs' : e.key \notin seen'
    BY <2>1
  <2> QED
    BY <2>3, <2>4, <2>5 DEF Freshness
<1>5. ASSUME ~DayPasses, \A r \in Requests : ~Copy(r) /\ ~Enter(r) PROVE Freshness'
  <2>1. Refs' \subseteq Refs
    BY <1>1, <1>5, RefsKept
  <2>2. seen' = seen
    BY <1>5 DEF Next, Step, Clean, Send, Get, Put, Connect, Refused, Handle, CheckCon, CloseCon, RemoveUser,
                StartCleaning, IterLock, ReadEntry, IterUnlock, LookAt, CleanerCheckCon, CleanerCloseCon,
                CleanerRemoveUser, EndLoop, Sweep, vars
  <2>3. ASSUME NEW e \in Refs PROVE obj'[e.val] = obj[e.val]
    <3>1. e.val \in Objects /\ obj[e.val].id # None
      BY <1>1, <2>3 DEF RefsFilled, Entries, Filled
    <3>2. ASSUME NEW r \in Requests, Connect(r) PROVE obj'[e.val] = obj[e.val]
      <4>1. obj[Posted(r)].id = None
        BY <1>1, <3>2 DEF Connect, At, Progress
      <4> QED
        BY <1>1, <3>1, <3>2, <4>1 DEF Connect, TypeOK
    <3>3. ASSUME \A r \in Requests : ~Connect(r) PROVE obj' = obj
      BY <1>5, <3>3 DEF Next, Step, Clean, Send, Get, Put, Refused, Handle, CheckCon, CloseCon, RemoveUser,
                StartCleaning, IterLock, ReadEntry, IterUnlock, LookAt, CleanerCheckCon, CleanerCloseCon,
                CleanerRemoveUser, EndLoop, Sweep, vars
    <3> QED
      BY <3>2, <3>3
  <2>4. ASSUME NEW e \in Refs', e.key \in seen' PROVE obj'[e.val].fresh
    BY <2>1, <2>2, <2>3, <2>4 DEF Freshness
  <2>5. ASSUME NEW e \in Refs', NEW f \in Refs', e.key = f.key, e.key \notin seen' PROVE e.val = f.val
    BY <2>1, <2>2, <2>5 DEF Freshness
  <2> QED
    BY <2>4, <2>5 DEF Freshness
<1> QED
  BY <1>2, <1>3, <1>4, <1>5

-----------------------------------------------------------------------------
LEMMA Invariant == Spec => []IInv
<1>1. IInv /\ [Next]_vars => IInv'
  <2> SUFFICES ASSUME IInv, [Next]_vars PROVE IInv'
    OBVIOUS
  <2>1. BaseInv /\ BaseInv'
    BY BaseStep DEF IInv
  <2>2. ASSUME ~LogsInAgain PROVE OnceOk'
    <3>1. OneLogin /\ OpenStored /\ Freshness /\ TypeOK /\ Progress
      BY <2>1, <2>2 DEF IInv, OnceOk, BaseInv
    <3> QED
      BY <2>1, <2>2, <3>1, OneLoginStep, OpenStoredStep, FreshnessStep DEF OnceOk
  <2> QED
    BY <2>1, <2>2 DEF IInv
<1> QED
  BY <1>1, InitInv, PTL DEF Spec

\* usermap, the objects that requests make, their connections and the variables of
\* CleanUsermap keep their types: every stored user has a connection.
THEOREM TypeCorrect == Spec => []TypeOK
<1>1. IInv => TypeOK
  BY DEF IInv, BaseInv
<1> QED
  BY <1>1, Invariant, PTL

\* However the requests of a user overlap, and also when he logs in again, what usermap
\* stores under an id is a user of that id over a connection that a login of it opened.
THEOREM UsersAreFilled == Spec => []StoredUsers
<1>1. IInv => StoredUsers
  <2> SUFFICES ASSUME IInv, NEW i \in Ids, Stored(i) PROVE Filled(i, usermap[i])
    BY DEF StoredUsers, Filled
  <2> QED
    BY RefFacts DEF IInv, BaseInv
<1> QED
  BY <1>1, Invariant, PTL

\* If nobody logs in twice, every open connection belongs to a user of usermap when
\* nothing is under way, so that a logout or the cleaner will close it.
THEOREM ConnectionsBelongToUsers == ASSUME ~LogsInAgain PROVE Spec => []NoConnectionLeft
<1>1. IInv => NoConnectionLeft
  <2> SUFFICES ASSUME IInv, Quiet, NEW r \in Requests, con[r] = "open"
               PROVE  \E i \in Ids : Stored(i) /\ ConOf(usermap[i]) = r
    BY DEF NoConnectionLeft
  <2>1. TypeOK /\ RefsFilled /\ Progress /\ OneLogin /\ OpenStored
    BY DEF IInv, BaseInv, OnceOk
  <2>2. req[r].pc = "done" /\ req[r].login \in Ids
    BY <2>1 DEF Quiet, Idle, Progress
  <2>3. Stored(req[r].login)
    BY <2>1, <2>2 DEF OpenStored
  <2>4. Filled(req[r].login, usermap[req[r].login])
    BY <2>1, <2>2, <2>3, RefFacts
  <2>5. ConOf(usermap[req[r].login]) = r
    BY <2>1, <2>2, <2>4 DEF Filled, OneLogin, ConOf
  <2> QED
    BY <2>2, <2>3, <2>5
<1> QED
  BY <1>1, Invariant, PTL

\* If nobody logs in twice, the cleaner takes no user for outdated of whom a request came
\* within the timeout, although requests replace entries while it iterates over copies.
THEOREM CleanerSparesWhoIsSeen == ASSUME ~LogsInAgain PROVE Spec => CleanerSparesSeen
<1>1. IInv /\ [Next]_vars => [cl.pc = "loop" /\ cl'.pc = "check" => cl'.cur.key \notin seen]_vars
  <2> SUFFICES ASSUME IInv, [Next]_vars, cl.pc = "loop", cl'.pc = "check" PROVE cl'.cur.key \notin seen
    OBVIOUS
  <2>1. TypeOK /\ Freshness
    BY DEF IInv, BaseInv, OnceOk
  <2>2. LookAt
    BY <2>1, CleanerEffect, CleanerKept DEF Clean
  <2>3. PICK e \in cl.queue : cl'.cur = e /\ ~obj[e.val].fresh
    BY <2>1, <2>2, CleanerEffect DEF Outdated
  <2>4. e \in Refs
    BY DEF Refs
  <2> QED
    BY <2>1, <2>3, <2>4 DEF Freshness
<1> QED
  BY <1>1, Invariant, PTL DEF Spec, CleanerSparesSeen
=============================================================================
