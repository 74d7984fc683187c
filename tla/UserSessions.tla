---------------------------- MODULE UserSessions ----------------------------
(***************************************************************************)
(* The users that are logged in: usermap (user.go), the goroutine that     *)
(* cleans it (web.go, registerUserCleanup), and the requests of browsers,  *)
(* each of which the session middleware turns into a WatneyUser before its *)
(* handler runs.                                                           *)
(*                                                                         *)
(* The middleware (martini-contrib/sessionauth) fills a new WatneyUser by  *)
(* GetById and then calls its Login, so every request puts ITS copy of the *)
(* user into usermap.  Copies share the connection to the IMAP server.     *)
(* A request is modelled once, from its arrival to its answer; the objects *)
(* it makes stay afterwards, as usermap or the cleaner may point to them.  *)
(*                                                                         *)
(* usermap is a sharded map (cmap_int_user.go).  While the cleaner's       *)
(* iterator waits for room in its channel it keeps the read lock of a      *)
(* shard; every other lock is held for a single step.  UserMap has locks,  *)
(* Count and channel in full.                                              *)
(***************************************************************************)
EXTENDS Integers, FiniteSets

CONSTANTS Browsers, Ids,
          Shards, GetShard,   \* the shards of usermap, and that of each id
          MaxRequests,    \* bound: the requests of a behaviour
          RequestKinds,   \* what browsers ask for
          Overlap,        \* a browser sends requests while others are unanswered
          LogsInAgain,    \* a user logs in although he is or was logged in
          None

Requests == 1..MaxRequests
Objects == Requests \X {"session", "login"}   \* made by the middleware, by authenticate
Session(r) == <<r, "session">>
Posted(r) == <<r, "login">>

ASSUME UserSessionsAssumption ==
  /\ MaxRequests \in Nat /\ None \notin Ids \cup Objects \cup Shards
  /\ IsFiniteSet(Ids) /\ GetShard \in [Ids -> Shards]
  /\ RequestKinds \subseteq {"login", "welcome", "call", "logout"}
  /\ Overlap \in BOOLEAN /\ LogsInAgain \in BOOLEAN

VARIABLES
  cookie,   \* browser: the user id in its session cookie
  usermap,  \* usermap: the WatneyUser object stored under an id
  obj,      \* each WatneyUser: Id, ImapCon, and whether lastSeen is within the timeout
  con,      \* the connection a login opened: "none", "open" or "closed"
  req,      \* each request: where it is, kind, browser, id, the object GetById found
  cl,       \* CleanUsermap: where it is and its local variables, and its iterator: the
            \* ids still to read, the shard it has locked, the channel and its capacity
  alive,    \* the process runs
  seen      \* ids of which a request came within the timeout

vars == <<cookie, usermap, obj, con, req, cl, alive, seen>>

Stored(id) == usermap[id] # None
ConOf(o) == obj[o].con
Idle(r) == req[r].pc \in {"unsent", "done"}
Quiet == (\A r \in Requests : Idle(r)) /\ cl.pc = "idle"
Goto(r, pc) == req' = [req EXCEPT ![r].pc = pc]
At(r, pc) == alive /\ req[r].pc = pc

\* The iterator keeps writers out of a shard, and the cleaner, when it is the writer
\* that waits for that shard, keeps new readers out.
ReadLocked(id) == cl.shard = GetShard[id]
Barred(id) == ReadLocked(id) /\ cl.pc = "remove" /\ GetShard[cl.cur.key] = GetShard[id]

-----------------------------------------------------------------------------
(* A request and the session middleware.                                   *)

\* A request leaves browser b with the cookie b has then; a login names an id.
Send(r, b, kind, id) ==
  /\ At(r, "unsent") /\ \A q \in 1..(r - 1) : req[q].pc # "unsent"
  /\ Overlap \/ \A q \in Requests : Idle(q) \/ req[q].browser # b
  /\ kind = "login" /\ ~LogsInAgain => \A q \in Requests : req[q].kind # "login" \/ req[q].login # id
  /\ req' = [req EXCEPT ![r] = [pc |-> "get", kind |-> kind, browser |-> b, id |-> cookie[b],
                                login |-> IF kind = "login" THEN id ELSE None, from |-> None]]
  /\ UNCHANGED <<cookie, usermap, obj, con, cl, alive, seen>>

Handler(r) == CASE req[r].kind = "login" -> "connect"
                [] req[r].kind = "logout" -> "check"
                [] OTHER -> "handle"

\* GetById looks the id up.  Without a user, only the public pages go on.
Get(r) ==
  LET id == req[r].id
      found == id # None /\ usermap[id] # None IN
  /\ At(r, "get") /\ (id # None => ~Barred(id))
  /\ req' = [req EXCEPT ![r].from = IF found THEN usermap[id] ELSE None,
                        ![r].pc = IF found THEN "copy"
                                  ELSE IF req[r].kind \in {"login", "welcome"} THEN Handler(r) ELSE "done"]
  /\ UNCHANGED <<cookie, usermap, obj, con, cl, alive, seen>>

\* ... resets lastSeen of the object it found, and copies that object.
FaultyCopy(r) ==
  /\ At(r, "copy")
  /\ obj' = [obj EXCEPT ![Session(r)] = [obj[req[r].from] EXCEPT !.fresh = TRUE]]
  /\ seen' = seen \cup {req[r].id}
  /\ Goto(r, "put")
  /\ UNCHANGED <<cookie, usermap, con, cl, alive>>
Copy(r) ==
  /\ At(r, "copy")
  /\ obj' = [o \in Objects |-> IF o \in {req[r].from, Session(r)}
                               THEN [obj[req[r].from] EXCEPT !.fresh = TRUE] ELSE obj[o]]
  /\ seen' = seen \cup {req[r].id}
  /\ Goto(r, "put")
  /\ UNCHANGED <<cookie, usermap, con, cl, alive>>

\* The middleware calls Login of the copy.
Put(r) ==
  /\ At(r, "put") /\ ~ReadLocked(obj[Session(r)].id)
  /\ usermap' = [usermap EXCEPT ![obj[Session(r)].id] = Session(r)]
  /\ Goto(r, Handler(r))
  /\ UNCHANGED <<cookie, obj, con, cl, alive, seen>>

-----------------------------------------------------------------------------
(* The handlers.                                                           *)

\* authenticate: a connection of its own, the new user put into usermap with
\* lastSeen zero, and the id into the cookie.  A refused login closes it.
FaultyConnect(r) ==
  /\ At(r, "connect")
  /\ con' = [con EXCEPT ![r] = "open"]
  /\ obj' = [obj EXCEPT ![Posted(r)] = [id |-> req[r].id, con |-> r, fresh |-> FALSE]]
  /\ Goto(r, "enter")
  /\ UNCHANGED <<cookie, usermap, cl, alive, seen>>
Connect(r) ==
  /\ At(r, "connect")
  /\ con' = [con EXCEPT ![r] = "open"]
  /\ obj' = [obj EXCEPT ![Posted(r)] = [id |-> req[r].login, con |-> r, fresh |-> FALSE]]
  /\ Goto(r, "enter")
  /\ UNCHANGED <<cookie, usermap, cl, alive, seen>>

Refused(r) ==
  /\ At(r, "connect")
  /\ con' = [con EXCEPT ![r] = "closed"]
  /\ Goto(r, "done")
  /\ UNCHANGED <<cookie, usermap, obj, cl, alive, seen>>

FaultyEnter(r) ==
  /\ At(r, "enter") /\ ~ReadLocked(req[r].login)
  /\ usermap' = [usermap EXCEPT ![req[r].login] = Session(r)]
  /\ cookie' = [cookie EXCEPT ![req[r].browser] = req[r].login]
  /\ Goto(r, "done")
  /\ UNCHANGED <<obj, con, cl, alive, seen>>
Enter(r) ==
  /\ At(r, "enter") /\ ~ReadLocked(req[r].login)
  /\ usermap' = [usermap EXCEPT ![req[r].login] = Posted(r)]
  /\ cookie' = [cookie EXCEPT ![req[r].browser] = req[r].login]
  /\ Goto(r, "done")
  /\ UNCHANGED <<obj, con, cl, alive, seen>>

\* Every handler behind the login only uses the connection, in an IMAP command
\* that fails once it is closed; welcome clears the session of the browser.
Handle(r) ==
  /\ At(r, "handle")
  /\ cookie' = IF req[r].kind = "welcome" THEN [cookie EXCEPT ![req[r].browser] = None] ELSE cookie
  /\ Goto(r, "done")
  /\ UNCHANGED <<usermap, obj, con, cl, alive, seen>>

\* Logout: closes the connection if it is authenticated, ...
FaultyCheckCon(r) ==
  /\ At(r, "check") /\ Goto(r, "remove")
  /\ UNCHANGED <<cookie, usermap, obj, con, cl, alive, seen>>
CheckCon(r) ==
  /\ At(r, "check")
  /\ Goto(r, IF con[ConOf(Session(r))] = "open" THEN "close" ELSE "remove")
  /\ UNCHANGED <<cookie, usermap, obj, con, cl, alive, seen>>

\* ... which panics at QuitChan if someone else has closed it meanwhile (the
\* recovery of the web framework then answers, and the rest is not done) ...
CloseCon(r) ==
  LET c == ConOf(Session(r)) IN
  /\ At(r, "close")
  /\ con' = [con EXCEPT ![c] = "closed"]
  /\ Goto(r, IF con[c] = "open" THEN "remove" ELSE "done")
  /\ UNCHANGED <<cookie, usermap, obj, cl, alive, seen>>

\* ... and removes the user; the session forgets the id.
RemoveUser(r) ==
  /\ At(r, "remove") /\ ~ReadLocked(req[r].id)
  /\ usermap' = [usermap EXCEPT ![req[r].id] = None]
  /\ cookie' = [cookie EXCEPT ![req[r].browser] = None]
  /\ Goto(r, "done")
  /\ UNCHANGED <<obj, con, cl, alive, seen>>

-----------------------------------------------------------------------------
(* CleanUsermap.  The iterator of the map reads the entries one by one,    *)
(* ahead of the loop that looks at them.                                   *)

NotCleaning == [pc |-> "idle", unread |-> {}, shard |-> None, queue |-> {}, room |-> 0,
                cur |-> None, outdated |-> {}]
CleanerAt(pc) == alive /\ cl.pc = pc
InShard(s) == {id \in cl.unread : GetShard[id] = s}

\* The channel has room for as many entries as Count finds.
StartCleaning ==
  /\ CleanerAt("idle")
  /\ cl' = [NotCleaning EXCEPT !.pc = "loop", !.unread = Ids, !.room = Cardinality({id \in Ids : Stored(id)})]
  /\ UNCHANGED <<cookie, usermap, obj, con, req, alive, seen>>

IterLock ==
  /\ alive /\ cl.shard = None
  /\ \E s \in Shards : InShard(s) # {} /\ cl' = [cl EXCEPT !.shard = s]
  /\ UNCHANGED <<cookie, usermap, obj, con, req, alive, seen>>

\* A receiver that waits is room for one.
Room == Cardinality(cl.queue) < cl.room \/ (cl.queue = {} /\ cl.pc = "loop")
ReadEntry ==
  /\ alive
  /\ \E id \in InShard(cl.shard) :
       /\ Stored(id) => Room
       /\ cl' = [cl EXCEPT !.unread = @ \ {id},
                           !.queue = IF Stored(id) THEN @ \cup {[key |-> id, val |-> usermap[id]]} ELSE @]
  /\ UNCHANGED <<cookie, usermap, obj, con, req, alive, seen>>

IterUnlock ==
  /\ alive /\ cl.shard # None /\ InShard(cl.shard) = {}
  /\ cl' = [cl EXCEPT !.shard = None]
  /\ UNCHANGED <<cookie, usermap, obj, con, req, alive, seen>>

\* time.Since(lastSeen) > timeout
Outdated(o) == ~obj[o].fresh

LookAt ==
  /\ CleanerAt("loop")
  /\ \E e \in cl.queue :
       cl' = [cl EXCEPT !.queue = @ \ {e}, !.cur = IF Outdated(e.val) THEN e ELSE None,
                        !.pc = IF Outdated(e.val) THEN "check" ELSE "loop"]
  /\ UNCHANGED <<cookie, usermap, obj, con, req, alive, seen>>

FaultyCleanerCheckCon ==
  /\ CleanerAt("check")
  /\ cl' = [cl EXCEPT !.pc = IF con[ConOf(cl.cur.val)] = "open" THEN "close" ELSE "loop"]
  /\ UNCHANGED <<cookie, usermap, obj, con, req, alive, seen>>
CleanerCheckCon ==
  /\ CleanerAt("check")
  /\ cl' = [cl EXCEPT !.pc = IF con[ConOf(cl.cur.val)] = "open" THEN "close" ELSE "remove"]
  /\ UNCHANGED <<cookie, usermap, obj, con, req, alive, seen>>

\* A panic here is recovered by nobody and ends the process.
CleanerCloseCon ==
  LET c == ConOf(cl.cur.val) IN
  /\ CleanerAt("close")
  /\ con' = [con EXCEPT ![c] = "closed"]
  /\ alive' = (con[c] = "open")
  /\ cl' = [cl EXCEPT !.pc = "remove"]
  /\ UNCHANGED <<cookie, usermap, obj, req, seen>>

CleanerRemoveUser ==
  /\ CleanerAt("remove") /\ ~ReadLocked(cl.cur.key)
  /\ usermap' = [usermap EXCEPT ![cl.cur.key] = None]
  /\ cl' = [cl EXCEPT !.pc = "loop", !.cur = None, !.outdated = @ \cup {cl.cur.key}]
  /\ UNCHANGED <<cookie, obj, con, req, alive, seen>>

EndLoop ==
  /\ CleanerAt("loop") /\ cl.unread = {} /\ cl.shard = None /\ cl.queue = {}
  /\ cl' = [cl EXCEPT !.pc = "sweep"]
  /\ UNCHANGED <<cookie, usermap, obj, con, req, alive, seen>>

\* The second loop removes the keys again.
Sweep ==
  /\ CleanerAt("sweep")
  /\ IF cl.outdated = {} THEN cl' = NotCleaning /\ usermap' = usermap
     ELSE \E id \in cl.outdated :
            /\ cl' = [cl EXCEPT !.outdated = @ \ {id}]
            /\ usermap' = [usermap EXCEPT ![id] = None]
  /\ UNCHANGED <<cookie, obj, con, req, alive, seen>>

\* The timeout, a day, passes.  No request and no cleaning takes that long.
DayPasses ==
  /\ alive /\ Quiet /\ (seen # {} \/ \E o \in Objects : obj[o].fresh)
  /\ obj' = [o \in Objects |-> [obj[o] EXCEPT !.fresh = FALSE]]
  /\ seen' = {}
  /\ UNCHANGED <<cookie, usermap, con, req, cl, alive>>

-----------------------------------------------------------------------------
NoUser == [id |-> None, con |-> None, fresh |-> FALSE]
Unsent == [pc |-> "unsent", kind |-> "none", browser |-> None, id |-> None, login |-> None, from |-> None]

Init ==
  /\ cookie = [b \in Browsers |-> None]
  /\ usermap = [id \in Ids |-> None]
  /\ obj = [o \in Objects |-> NoUser]
  /\ con = [r \in Requests |-> "none"]
  /\ req = [r \in Requests |-> Unsent]
  /\ cl = NotCleaning /\ alive = TRUE /\ seen = {}

Step(r) ==
  \/ Get(r) \/ Copy(r) \/ Put(r) \/ Connect(r) \/ Refused(r) \/ Enter(r) \/ Handle(r)
  \/ CheckCon(r) \/ CloseCon(r) \/ RemoveUser(r)
Clean ==
  \/ IterLock \/ ReadEntry \/ IterUnlock \/ LookAt \/ CleanerCheckCon \/ CleanerCloseCon \/ CleanerRemoveUser
  \/ EndLoop \/ Sweep

Next ==
  \/ \E r \in Requests : \/ \E b \in Browsers, k \in RequestKinds, id \in Ids : Send(r, b, k, id)
                         \/ Step(r)
  \/ StartCleaning \/ Clean \/ DayPasses

\* Goroutines go on and get the locks of usermap that become free again and again; the
\* ticker ticks and time passes; nobody has to send anything.
Fairness ==
  /\ \A r \in Requests : SF_vars(Step(r))
  /\ WF_vars(StartCleaning) /\ WF_vars(Clean) /\ SF_vars(DayPasses)

Spec == Init /\ [][Next]_vars
LiveSpec == Spec /\ Fairness

-----------------------------------------------------------------------------
Entries == [key : Ids, val : Objects]
RequestStates ==
  [pc : {"unsent", "get", "copy", "put", "connect", "enter", "handle", "check", "close", "remove", "done"},
   kind : RequestKinds \cup {"none"}, browser : Browsers \cup {None},
   id : Ids \cup {None}, login : Ids \cup {None}, from : Objects \cup {None}]
CleanerStates ==
  [pc : {"idle", "loop", "check", "close", "remove", "sweep"}, unread : SUBSET Ids,
   shard : Shards \cup {None}, queue : SUBSET Entries, room : Nat, cur : Entries \cup {None}, outdated : SUBSET Ids]

TypeOK ==
  /\ cookie \in [Browsers -> Ids \cup {None}]
  /\ usermap \in [Ids -> Objects \cup {None}]
  /\ obj \in [Objects -> [id : Ids \cup {None}, con : Requests \cup {None}, fresh : BOOLEAN]]
  /\ con \in [Requests -> {"none", "open", "closed"}]
  /\ \A id \in Ids : Stored(id) => ConOf(usermap[id]) \in Requests
  /\ req \in [Requests -> RequestStates] /\ cl \in CleanerStates
  /\ alive \in BOOLEAN /\ seen \subseteq Ids

\* What usermap stores under an id is a user of that id whose connection was
\* opened by a login of that id: requests overwrite each other's entries, but
\* never with a user that was not filled yet.
StoredUsers ==
  \A id \in Ids : Stored(id) =>
    LET u == obj[usermap[id]] IN
    u.id = id /\ u.con \in Requests /\ req[u.con].login = id /\ con[u.con] # "none"

\* When nothing is under way, every open connection to the IMAP server belongs
\* to a user of usermap, so that a logout or the cleaner will close it.
NoConnectionLeft ==
  Quiet => \A r \in Requests : con[r] = "open" =>
             \E id \in Ids : Stored(id) /\ ConOf(usermap[id]) = r

\* The cleaner takes no user for outdated of whom a request came within the
\* timeout, although requests replace the entry while it iterates over copies.
CleanerSparesSeen == [][cl.pc = "loop" /\ cl'.pc = "check" => cl'.cur.key \notin seen]_vars

\* The iterator waits for room while it has the shard locked that the cleaner waits
\* for: that is for good (UserMap's StuckOnlyIfGrown says what it takes).
Stuck ==
  /\ cl.pc = "remove" /\ ReadLocked(cl.cur.key)
  /\ ~Room /\ InShard(cl.shard) # {} /\ \A id \in InShard(cl.shard) : Stored(id)

\* Users that leave without logging out are removed, and their connections closed, in
\* the end: unless a connection that is closed twice ends the process, or the cleaner
\* and its iterator stop each other.
AbandonedLeave ==
  <>[](alive /\ ~Stuck => (\A id \in Ids : ~Stored(id)) /\ \A r \in Requests : con[r] # "open")
=============================================================================
