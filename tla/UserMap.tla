------------------------------- MODULE UserMap -------------------------------
(***************************************************************************)
(* The map of logged-in users (cmap_int_user.go): shards with a read-write *)
(* lock each, and an iterator that sends the entries through a channel,    *)
(* next to the requests that use the map and CleanUsermap (user.go), which *)
(* iterates and removes.  UserSessions has what the entries are; here they *)
(* are their keys.                                                         *)
(*                                                                         *)
(* RWMutex (external): a writer announces itself, which keeps new readers  *)
(* out, and goes on when the readers before it have left.  A critical      *)
(* section that does not wait inside is one step; only the iterator keeps  *)
(* a lock while it waits, for room in the channel.                         *)
(***************************************************************************)
EXTENDS Integers, Sequences, FiniteSets

CONSTANTS Users,       \* keys
          SHARD_COUNT,
          GetShard,    \* the shard of each key
          Clients,     \* goroutines of requests
          None

ASSUME UserMapAssumption ==
  /\ SHARD_COUNT \in Nat \ {0} /\ IsFiniteSet(Users)
  /\ GetShard \in [Users -> 1 .. SHARD_COUNT]
  /\ None \notin Users /\ None \notin Clients /\ "cleaner" \notin Clients

VARIABLES
  items,    \* the keys of the map
  writer,   \* of each shard: who waits for or holds the write lock
  job,      \* of each request and the cleaner: the call of the map it is in
  cleaner,  \* CleanUsermap: where it is, and its outdated
  count,    \* Count: the shard it is at, what it has counted
  iter,     \* the goroutine of IterBuffered; it has the read lock while it sends
  ch,       \* its channel, of capacity count.n
  steady,   \* history: keys that stayed in the map since the cleaning began
  got,      \* history: keys the cleaner received
  grown     \* history: keys added since the cleaning began, 2 for more

vars == <<items, writer, job, cleaner, count, iter, ch, steady, got, grown>>
cleanVars == <<cleaner, count, iter, ch, got>>

Procs == Clients \cup {"cleaner"}
Idle == [op |-> "none", key |-> None]
InShard(s) == {k \in items : GetShard[k] = s}
Reading(s) == iter.pc = "send" /\ iter.shard = s

-----------------------------------------------------------------------------
(* Get, Set and Remove.                                                    *)

\* Login sets and Logout removes; every request looks its user up.
Call(c, op, k) ==
  /\ job[c] = Idle
  /\ job' = [job EXCEPT ![c] = [op |-> op, key |-> k]]
  /\ UNCHANGED <<items, writer, cleanVars, steady, grown>>

Get(p) ==
  /\ job[p].op = "get" /\ writer[GetShard[job[p].key]] = None
  /\ job' = [job EXCEPT ![p] = Idle]
  /\ UNCHANGED <<items, writer, cleanVars, steady, grown>>

\* Lock() has announced a writer.
Lock(p) ==
  LET s == GetShard[job[p].key] IN
  /\ job[p].op \in {"set", "remove"} /\ writer[s] = None
  /\ writer' = [writer EXCEPT ![s] = p]
  /\ UNCHANGED <<items, job, cleanVars, steady, grown>>

Set(p) ==
  LET k == job[p].key IN
  /\ job[p].op = "set" /\ writer[GetShard[k]] = p /\ ~Reading(GetShard[k])
  /\ items' = items \cup {k}
  /\ grown' = IF cleaner.pc = "idle" \/ k \in items \/ grown = 2 THEN grown ELSE grown + 1
  /\ writer' = [writer EXCEPT ![GetShard[k]] = None]
  /\ job' = [job EXCEPT ![p] = Idle]
  /\ UNCHANGED <<cleanVars, steady>>

FaultyRemove(p) ==
  LET k == job[p].key IN
  /\ job[p].op = "remove" /\ writer[GetShard[k]] = p /\ ~Reading(GetShard[k])
  /\ items' = items \ {k} /\ steady' = steady \ {k}
  /\ writer' = IF k \in items THEN [writer EXCEPT ![GetShard[k]] = None] ELSE writer
  /\ job' = [job EXCEPT ![p] = Idle]
  /\ UNCHANGED <<cleanVars, grown>>
Remove(p) ==
  LET k == job[p].key IN
  /\ job[p].op = "remove" /\ writer[GetShard[k]] = p /\ ~Reading(GetShard[k])
  /\ items' = items \ {k} /\ steady' = steady \ {k}
  /\ writer' = [writer EXCEPT ![GetShard[k]] = None]
  /\ job' = [job EXCEPT ![p] = Idle]
  /\ UNCHANGED <<cleanVars, grown>>

-----------------------------------------------------------------------------
(* CleanUsermap, and the iterator it ranges over.                          *)

NotCleaning == [pc |-> "idle", outdated |-> {}]
NoCount == [shard |-> 1, n |-> 0]
NoIter == [pc |-> "off", shard |-> 1, left |-> {}]

StartCleaning ==
  /\ cleaner = NotCleaning
  /\ cleaner' = [cleaner EXCEPT !.pc = "count"]
  /\ steady' = items
  /\ UNCHANGED <<items, writer, job, count, iter, ch, got, grown>>

\* Count, a shard at a time; then the channel is made and the iterator started.
CountUpTo(last) ==
  /\ cleaner.pc = "count" /\ writer[count.shard] = None
  /\ count' = [shard |-> count.shard + 1, n |-> count.n + Cardinality(InShard(count.shard))]
  /\ IF count.shard < last THEN UNCHANGED <<cleaner, iter>>
     ELSE /\ cleaner' = [cleaner EXCEPT !.pc = "range"]
          /\ iter' = [pc |-> "lock", shard |-> 1, left |-> {}]
  /\ UNCHANGED <<items, writer, job, ch, steady, got, grown>>
FaultyCount == CountUpTo(1)
Count == CountUpTo(SHARD_COUNT)

IterLock ==
  /\ iter.pc = "lock" /\ writer[iter.shard] = None
  /\ iter' = [iter EXCEPT !.pc = "send", !.left = InShard(iter.shard)]
  /\ UNCHANGED <<items, writer, job, cleaner, count, ch, steady, got, grown>>

\* A receiver that waits is room for one.
Receiving == cleaner.pc = "range" /\ job["cleaner"] = Idle
Room == Len(ch) < count.n \/ (ch = <<>> /\ Receiving)

IterSend(k) ==
  /\ iter.pc = "send" /\ k \in iter.left /\ Room
  /\ ch' = Append(ch, k)
  /\ iter' = [iter EXCEPT !.left = @ \ {k}]
  /\ UNCHANGED <<items, writer, job, cleaner, count, steady, got, grown>>

\* The read lock is released; after the last shard the channel is closed.
FaultyIterUnlock ==
  /\ iter.pc = "send" /\ iter.left = {}
  /\ iter' = IF iter.shard + 1 >= SHARD_COUNT THEN [iter EXCEPT !.pc = "closed"]
             ELSE [iter EXCEPT !.pc = "lock", !.shard = @ + 1]
  /\ UNCHANGED <<items, writer, job, cleaner, count, ch, steady, got, grown>>
IterUnlock ==
  /\ iter.pc = "send" /\ iter.left = {}
  /\ iter' = IF iter.shard = SHARD_COUNT THEN [iter EXCEPT !.pc = "closed"]
             ELSE [iter EXCEPT !.pc = "lock", !.shard = @ + 1]
  /\ UNCHANGED <<items, writer, job, cleaner, count, ch, steady, got, grown>>

\* The first loop takes an entry, and logs its user out if he is outdated.
Take(k, outdated) ==
  /\ got' = got \cup {k}
  /\ IF outdated
     THEN /\ job' = [job EXCEPT !["cleaner"] = [op |-> "remove", key |-> k]]
          /\ cleaner' = [cleaner EXCEPT !.outdated = @ \cup {k}]
     ELSE UNCHANGED <<job, cleaner>>
  /\ UNCHANGED <<items, writer, count, iter, steady, grown>>
FaultyReceive(outdated) ==
  /\ Receiving
  /\ \/ ch # <<>> /\ ch' = Tail(ch) /\ Take(Head(ch), outdated)
     \/ ch = <<>> /\ iter.pc = "closed" /\ ch' = ch /\ Take(None, outdated)
Receive(outdated) ==
  /\ Receiving /\ ch # <<>>
  /\ ch' = Tail(ch) /\ Take(Head(ch), outdated)

EndRange ==
  /\ Receiving /\ ch = <<>> /\ iter.pc = "closed"
  /\ cleaner' = [cleaner EXCEPT !.pc = "sweep"]
  /\ UNCHANGED <<items, writer, job, count, iter, ch, steady, got, grown>>

\* The second loop removes the outdated keys again.
Sweep ==
  /\ cleaner.pc = "sweep" /\ job["cleaner"] = Idle /\ cleaner.outdated # {}
  /\ \E k \in cleaner.outdated :
       /\ cleaner' = [cleaner EXCEPT !.outdated = @ \ {k}]
       /\ job' = [job EXCEPT !["cleaner"] = [op |-> "remove", key |-> k]]
  /\ UNCHANGED <<items, writer, count, iter, ch, steady, got, grown>>

\* CleanUsermap returns, and its variables are gone.
Return ==
  /\ cleaner.pc = "sweep" /\ job["cleaner"] = Idle /\ cleaner.outdated = {}
  /\ cleaner' = NotCleaning /\ count' = NoCount /\ iter' = NoIter
  /\ steady' = {} /\ got' = {} /\ grown' = 0
  /\ UNCHANGED <<items, writer, job, ch>>

-----------------------------------------------------------------------------
Init ==
  /\ items = {} /\ writer = [s \in 1 .. SHARD_COUNT |-> None]
  /\ job = [p \in Procs |-> Idle]
  /\ cleaner = NotCleaning /\ count = NoCount /\ iter = NoIter /\ ch = <<>>
  /\ steady = {} /\ got = {} /\ grown = 0

Access(p) == Get(p) \/ Lock(p) \/ Set(p) \/ Remove(p)
Iterate == IterLock \/ IterUnlock \/ \E k \in Users : IterSend(k)
Clean == Count \/ EndRange \/ Sweep \/ Return \/ \E o \in BOOLEAN : Receive(o)

Next ==
  \/ \E c \in Clients, op \in {"get", "set", "remove"}, k \in Users : Call(c, op, k)
  \/ \E p \in Procs : Access(p)
  \/ StartCleaning \/ Clean \/ Iterate

Spec == Init /\ [][Next]_vars

\* Nobody has to call anything, and the ticker may be late.  Go's RWMutex lets the
\* readers that waited for a writer in before the next writer, and its writers in
\* the order they came: who waits for a lock that becomes free again and again gets it.
LiveSpec ==
  /\ Spec
  /\ \A c \in Clients : SF_vars(Access(c))
  /\ SF_vars(Access("cleaner") \/ Clean) /\ SF_vars(Iterate)

-----------------------------------------------------------------------------
TypeOK ==
  /\ items \subseteq Users /\ steady \subseteq items /\ got \subseteq Users
  /\ writer \in [1 .. SHARD_COUNT -> Procs \cup {None}]
  /\ job \in [Procs -> {Idle} \cup [op : {"get", "set", "remove"}, key : Users]]
  /\ cleaner \in [pc : {"idle", "count", "range", "sweep"}, outdated : SUBSET Users]
  /\ count \in [shard : 1 .. SHARD_COUNT + 1, n : Nat]
  /\ iter \in [pc : {"off", "lock", "send", "closed"}, shard : 1 .. SHARD_COUNT, left : SUBSET Users]
  /\ ch \in Seq(Users) /\ grown \in 0 .. 2

\* A cleaning misses nobody: a user who stayed in the map from before it counted
\* until after it read the last entry has been looked at, whatever was set and
\* removed in the shards before and after the iterator was in them.
NothingMissed == cleaner.pc = "sweep" => steady \subseteq got

\* The cleaner waits for the write lock of a shard while the iterator holds its read
\* lock and waits for room in the channel: neither goes on, and the shard is locked
\* for good.
Stuck ==
  /\ job["cleaner"].op = "remove" /\ iter.pc = "send"
  /\ iter.shard = GetShard[job["cleaner"].key] /\ iter.left # {} /\ ~Room

\* That takes two users who logged in after the cleaning began to count; one login,
\* and any number of logouts, do no harm, as the channel has room for the others.
StuckOnlyIfGrown == Stuck => grown >= 2

\* Every call of the map returns and every cleaning ends, unless the map grew by two
\* users during a cleaning.
EverybodyGetsOn ==
  /\ \A c \in Clients : job[c] # Idle ~> job[c] = Idle \/ grown >= 2
  /\ cleaner.pc # "idle" ~> cleaner.pc = "idle" \/ grown >= 2
=============================================================================
