--------------------------- MODULE UserMap_proofs ---------------------------
(***************************************************************************)
(* Proofs about UserMap for any number of users, shards and requests.      *)
(***************************************************************************)
EXTENDS UserMap, FiniteSetTheorems, TLAPS

\* Where the cleaner is says what its variables may be.
PcOk ==
  /\ cleaner.pc = "idle" => count = NoCount /\ grown = 0
  /\ cleaner.pc = "count" => count.shard <= SHARD_COUNT
  /\ cleaner.pc \in {"idle", "count"} => got = {} /\ iter = NoIter /\ job["cleaner"] = Idle
  /\ cleaner.pc # "range" => ch = <<>>
  /\ iter.pc \in {"lock", "send"} => cleaner.pc = "range"
  /\ iter.pc # "send" => iter.left = {}
  /\ cleaner.pc = "range" /\ job["cleaner"] # Idle => job["cleaner"].key \in got

\* The keys in the shards that were counted, and in those the iterator has yet to lock.
Counted == {k \in items : GetShard[k] < count.shard}
Ahead == {k \in items : \/ iter.pc = "lock" /\ GetShard[k] >= iter.shard
                        \/ iter.pc = "send" /\ GetShard[k] > iter.shard}

\* A key that stayed has been received, or is in the channel, in what the iterator
\* has read of its shard, or in a shard it has yet to lock.
InChannel(k) == \E i \in 1 .. Len(ch) : ch[i] = k
Coming(k) == k \in got \/ InChannel(k) \/ k \in iter.left \/ k \in Ahead
SteadyOk ==
  /\ cleaner.pc = "range" => \A k \in steady : Coming(k)
  /\ NothingMissed

\* As long as one user logged in, the shards that were counted hold one entry more
\* than was counted, and so do the channel and what is before and behind it.
CountOk == cleaner.pc = "count" /\ grown < 2 => Cardinality(Counted) <= count.n + grown
RangeOk == cleaner.pc = "range" /\ grown < 2 =>
  Cardinality(got) + Len(ch) + Cardinality(iter.left) + Cardinality(Ahead) <= count.n + grown

IInv == TypeOK /\ PcOk /\ SteadyOk /\ CountOk /\ RangeOk

-----------------------------------------------------------------------------
\* Cardinalities of sets of users.
LEMMA CardType ==
  ASSUME NEW S \in SUBSET Users
  PROVE  IsFiniteSet(S) /\ Cardinality(S) \in Nat
<1>1. IsFiniteSet(S)
  BY UserMapAssumption, FS_Subset
<1> QED
  BY <1>1, FS_CardinalityType

LEMMA CardMono ==
  ASSUME NEW T \in SUBSET Users, NEW S \in SUBSET T
  PROVE  Cardinality(S) <= Cardinality(T)
BY CardType, FS_Subset

LEMMA CardAdd ==
  ASSUME NEW S \in SUBSET Users, NEW k \in Users
  PROVE  Cardinality(S \cup {k}) <= Cardinality(S) + 1
<1>1. IsFiniteSet(S) /\ Cardinality(S) \in Nat
  BY CardType
<1>2. Cardinality(S \cup {k}) = IF k \in S THEN Cardinality(S) ELSE Cardinality(S) + 1
  BY <1>1, FS_AddElement
<1> QED
  BY <1>1, <1>2

LEMMA CardTake ==
  ASSUME NEW S \in SUBSET Users, NEW k \in S
  PROVE  Cardinality(S \ {k}) = Cardinality(S) - 1
<1>1. IsFiniteSet(S)
  BY CardType
<1> QED
  BY <1>1, FS_RemoveElement

LEMMA CardDisjoint ==
  ASSUME NEW S \in SUBSET Users, NEW T \in SUBSET Users, S \cap T = {}
  PROVE  Cardinality(S \cup T) = Cardinality(S) + Cardinality(T)
<1>1. /\ IsFiniteSet(S) /\ Cardinality(S) \in Nat
      /\ IsFiniteSet(T) /\ Cardinality(T) \in Nat
  BY CardType
<1>2. Cardinality(S \cup T) = Cardinality(S) + Cardinality(T) - Cardinality(S \cap T)
  BY <1>1, FS_Union
<1>3. Cardinality(S \cap T) = 0
  BY FS_EmptySet
<1> QED
  BY <1>1, <1>2, <1>3

LEMMA CardEmpty == Cardinality({}) = 0
BY FS_EmptySet

LEMMA CardSome ==
  ASSUME NEW S \in SUBSET Users, S # {}
  PROVE  Cardinality(S) >= 1
<1>1. IsFiniteSet(S) /\ Cardinality(S) \in Nat
  BY CardType
<1>2. Cardinality(S) # 0
  BY <1>1, FS_EmptySet
<1> QED
  BY <1>1, <1>2

-----------------------------------------------------------------------------
\* Every key has a shard, and a call that is not over has its key.
LEMMA Shards ==
  ASSUME TypeOK
  PROVE  /\ \A k \in Users : GetShard[k] \in 1 .. SHARD_COUNT
         /\ SHARD_COUNT \in Nat \ {0} /\ None \notin Users
         /\ \A p \in Procs : job[p].op # "none" => job[p].key \in Users
         /\ Idle.op = "none"
<1>1. \A k \in Users : GetShard[k] \in 1 .. SHARD_COUNT
  BY UserMapAssumption
<1>2. \A p \in Procs : job[p].op # "none" => job[p].key \in Users
  BY DEF TypeOK, Idle
<1> QED
  BY <1>1, <1>2, UserMapAssumption DEF Idle

LEMMA InitInv == Init => IInv
<1> SUFFICES ASSUME Init PROVE IInv
  OBVIOUS
<1>1. TypeOK
  BY UserMapAssumption DEF Init, TypeOK, NotCleaning, NoCount, NoIter, Idle
<1>2. PcOk
  BY DEF Init, PcOk, NotCleaning, NoIter, Procs
<1>3. SteadyOk /\ CountOk /\ RangeOk
  BY DEF Init, SteadyOk, NothingMissed, CountOk, RangeOk, NotCleaning
<1> QED
  BY <1>1, <1>2, <1>3 DEF IInv

\* Every action keeps the types; counting past the last shard is excluded by PcOk.
LEMMA TypeStep == TypeOK /\ PcOk /\ [Next]_vars => TypeOK'
<1> SUFFICES ASSUME TypeOK, PcOk, [Next]_vars PROVE TypeOK'
  OBVIOUS
<1> USE Shards
<1>1. ASSUME NEW c \in Clients, NEW op \in {"get", "set", "remove"}, NEW k \in Users, Call(c, op, k)
      PROVE  TypeOK'
  BY <1>1 DEF TypeOK, Call, cleanVars, Procs
<1>2. ASSUME NEW p \in Procs, Get(p) PROVE TypeOK'
  BY <1>2 DEF TypeOK, Get, cleanVars
<1>3. ASSUME NEW p \in Procs, Lock(p) PROVE TypeOK'
  BY <1>3 DEF TypeOK, Lock, cleanVars
<1>4. ASSUME NEW p \in Procs, Set(p) PROVE TypeOK'
  <2>1. job[p].key \in Users
    BY <1>4 DEF Set
  <2>2. grown' \in 0 .. 2
    BY <1>4 DEF Set, TypeOK
  <2> QED
    BY <1>4, <2>1, <2>2 DEF TypeOK, Set, cleanVars
<1>5. ASSUME NEW p \in Procs, Remove(p) PROVE TypeOK'
  BY <1>5 DEF TypeOK, Remove, cleanVars
<1>6. ASSUME StartCleaning PROVE TypeOK'
  BY <1>6 DEF TypeOK, StartCleaning
<1>7. ASSUME Count PROVE TypeOK'
  <2>1. count.shard \in 1 .. SHARD_COUNT /\ count.n \in Nat
    BY <1>7 DEF Count, CountUpTo, TypeOK, PcOk
  <2>2. Cardinality(InShard(count.shard)) \in Nat
    BY CardType DEF InShard, TypeOK
  <2>3. count' \in [shard : 1 .. SHARD_COUNT + 1, n : Nat]
    BY <1>7, <2>1, <2>2 DEF Count, CountUpTo
  <2>4. /\ cleaner' \in [pc : {"idle", "count", "range", "sweep"}, outdated : SUBSET Users]
        /\ iter' \in [pc : {"off", "lock", "send", "closed"}, shard : 1 .. SHARD_COUNT, left : SUBSET Users]
    BY <1>7 DEF Count, CountUpTo, TypeOK
  <2> QED
    BY <1>7, <2>3, <2>4 DEF TypeOK, Count, CountUpTo
<1>8. ASSUME IterLock PROVE TypeOK'
  BY <1>8 DEF TypeOK, IterLock, InShard
<1>9. ASSUME NEW k \in Users, IterSend(k) PROVE TypeOK'
  <2>1. Append(ch, k) \in Seq(Users)
    BY <1>9 DEF TypeOK
  <2>2. iter' \in [pc : {"off", "lock", "send", "closed"}, shard : 1 .. SHARD_COUNT, left : SUBSET Users]
    BY <1>9 DEF TypeOK, IterSend
  <2> QED
    BY <1>9, <2>1, <2>2 DEF TypeOK, IterSend
<1>10. ASSUME IterUnlock PROVE TypeOK'
  <2>1. /\ iter \in [pc : {"off", "lock", "send", "closed"}, shard : 1 .. SHARD_COUNT, left : SUBSET Users]
        /\ SHARD_COUNT \in Nat
    BY UserMapAssumption DEF TypeOK
  <2>2. CASE iter.shard = SHARD_COUNT
    BY <1>10, <2>1, <2>2 DEF TypeOK, IterUnlock
  <2>3. CASE iter.shard # SHARD_COUNT
    <3>1. iter.shard + 1 \in 1 .. SHARD_COUNT
      BY <2>1, <2>3
    <3>2. iter' = [iter EXCEPT !.pc = "lock", !.shard = @ + 1]
      BY <1>10, <2>3 DEF IterUnlock
    <3>3. iter' \in [pc : {"off", "lock", "send", "closed"}, shard : 1 .. SHARD_COUNT, left : SUBSET Users]
      BY <2>1, <3>1, <3>2
    <3> QED
      BY <1>10, <3>3 DEF TypeOK, IterUnlock
  <2> QED
    BY <2>2, <2>3
<1>11. ASSUME NEW o \in BOOLEAN, Receive(o) PROVE TypeOK'
  <2>1. ch # <<>> /\ Head(ch) \in Users /\ ch' \in Seq(Users)
    BY <1>11 DEF TypeOK, Receive
  <2> QED
    BY <1>11, <2>1 DEF TypeOK, Receive, Take, Procs
<1>12. ASSUME EndRange PROVE TypeOK'
  BY <1>12 DEF TypeOK, EndRange
<1>13. ASSUME Sweep PROVE TypeOK'
  BY <1>13 DEF TypeOK, Sweep, Procs
<1>14. ASSUME Return PROVE TypeOK'
  BY <1>14 DEF TypeOK, Return, NotCleaning, NoCount, NoIter
<1>15. ASSUME UNCHANGED vars PROVE TypeOK'
  BY <1>15 DEF TypeOK, vars
<1> QED
  BY <1>1, <1>2, <1>3, <1>4, <1>5, <1>6, <1>7, <1>8, <1>9, <1>10, <1>11, <1>12, <1>13,
     <1>14, <1>15 DEF Next, Access, Iterate, Clean

\* The calls of the cleaner are over when a client's call begins or ends; only
\* Receive begins one while it ranges.
LEMMA PcStep == TypeOK /\ PcOk /\ [Next]_vars => PcOk'
<1> SUFFICES ASSUME TypeOK, PcOk, [Next]_vars PROVE PcOk'
  OBVIOUS
<1> USE Shards
<1>0. "cleaner" \notin Clients
  BY UserMapAssumption
<1>1. ASSUME NEW c \in Clients, NEW op \in {"get", "set", "remove"}, NEW k \in Users, Call(c, op, k)
      PROVE  PcOk'
  BY <1>0, <1>1 DEF TypeOK, PcOk, Call, cleanVars, Procs
<1>2. ASSUME NEW p \in Procs, Get(p) PROVE PcOk'
  BY <1>2 DEF TypeOK, PcOk, Get, cleanVars, Procs
<1>3. ASSUME NEW p \in Procs, Lock(p) PROVE PcOk'
  BY <1>3 DEF PcOk, Lock, cleanVars
<1>4. ASSUME NEW p \in Procs, Set(p) PROVE PcOk'
  BY <1>4 DEF TypeOK, PcOk, Set, cleanVars, Procs
<1>5. ASSUME NEW p \in Procs, Remove(p) PROVE PcOk'
  BY <1>5 DEF TypeOK, PcOk, Remove, cleanVars, Procs
<1>6. ASSUME StartCleaning PROVE PcOk'
  BY <1>6 DEF TypeOK, PcOk, StartCleaning, NotCleaning, NoCount
<1>7. ASSUME Count PROVE PcOk'
  BY <1>7 DEF TypeOK, PcOk, Count, CountUpTo, NoIter
<1>8. ASSUME IterLock PROVE PcOk'
  BY <1>8 DEF TypeOK, PcOk, IterLock
<1>9. ASSUME NEW k \in Users, IterSend(k) PROVE PcOk'
  BY <1>9 DEF TypeOK, PcOk, IterSend
<1>10. ASSUME IterUnlock PROVE PcOk'
  BY <1>10 DEF TypeOK, PcOk, IterUnlock
<1>11. ASSUME NEW o \in BOOLEAN, Receive(o) PROVE PcOk'
  BY <1>11 DEF TypeOK, PcOk, Receive, Receiving, Take, Procs
<1>12. ASSUME EndRange PROVE PcOk'
  BY <1>12 DEF TypeOK, PcOk, EndRange, Receiving
<1>13. ASSUME Sweep PROVE PcOk'
  BY <1>13 DEF TypeOK, PcOk, Sweep
<1>14. ASSUME Return PROVE PcOk'
  BY <1>14 DEF TypeOK, PcOk, Return, NotCleaning, NoCount, NoIter
<1>15. ASSUME UNCHANGED vars PROVE PcOk'
  BY <1>15 DEF PcOk, vars
<1> QED
  BY <1>1, <1>2, <1>3, <1>4, <1>5, <1>6, <1>7, <1>8, <1>9, <1>10, <1>11, <1>12, <1>13,
     <1>14, <1>15 DEF Next, Access, Iterate, Clean

-----------------------------------------------------------------------------
\* Until it has locked the last shard the iterator has every key that stayed before
\* it, and what it has read reaches the cleaner through the channel.
LEMMA SteadyStep == TypeOK /\ PcOk /\ SteadyOk /\ [Next]_vars => SteadyOk'
<1> SUFFICES ASSUME TypeOK, PcOk, SteadyOk, [Next]_vars PROVE SteadyOk'
  OBVIOUS
<1> USE Shards
\* Steps that leave the cleaning alone, and of the map at most take keys away.
<1>1. ASSUME /\ UNCHANGED <<cleaner, iter, ch, got>>
             /\ steady' \subseteq steady
             /\ \A k \in steady' : k \in items => k \in items'
      PROVE  SteadyOk'
  <2>1. ASSUME NEW k \in steady', Coming(k) PROVE Coming(k)'
    <3>1. k \in items
      BY <1>1 DEF TypeOK
    <3> QED
      BY <1>1, <2>1, <3>1 DEF Coming, InChannel, Ahead
  <2>2. cleaner.pc = "range" => \A k \in steady' : Coming(k)'
    BY <1>1, <2>1 DEF SteadyOk
  <2> QED
    BY <1>1, <2>2 DEF SteadyOk, NothingMissed
<1>2. ASSUME NEW c \in Clients, NEW op \in {"get", "set", "remove"}, NEW k \in Users, Call(c, op, k)
      PROVE  SteadyOk'
  BY <1>1, <1>2 DEF Call, cleanVars
<1>3. ASSUME NEW p \in Procs, Access(p) PROVE SteadyOk'
  <2>1. CASE Get(p) \/ Lock(p)
    BY <1>1, <2>1 DEF Get, Lock, cleanVars
  <2>2. CASE Set(p)
    BY <1>1, <2>2 DEF Set, cleanVars
  <2>3. CASE Remove(p)
    BY <1>1, <2>3 DEF Remove, cleanVars
  <2> QED
    BY <1>3, <2>1, <2>2, <2>3 DEF Access
<1>4. ASSUME StartCleaning PROVE SteadyOk'
  BY <1>4 DEF StartCleaning, SteadyOk, NothingMissed, NotCleaning
<1>5. ASSUME Count PROVE SteadyOk'
  <2>1. CASE count.shard < SHARD_COUNT
    BY <1>5, <2>1 DEF Count, CountUpTo, SteadyOk, NothingMissed
  <2>2. CASE ~(count.shard < SHARD_COUNT)
    <3>1. /\ cleaner' = [cleaner EXCEPT !.pc = "range"] /\ UNCHANGED <<items, steady>>
          /\ iter'.pc = "lock" /\ iter'.shard = 1
      BY <1>5, <2>2 DEF Count, CountUpTo
    <3>2. ASSUME NEW k \in steady' PROVE Coming(k)'
      BY <3>1, <3>2 DEF TypeOK, Coming, Ahead
    <3> QED
      BY <3>1, <3>2 DEF SteadyOk, NothingMissed, TypeOK
  <2> QED
    BY <2>1, <2>2
<1>6. ASSUME IterLock PROVE SteadyOk'
  <2>1. ASSUME NEW k, Coming(k) PROVE Coming(k)'
    <3>1. PcOk /\ iter.left = {}
      BY <1>6 DEF IterLock, PcOk
    <3>2. k \in Ahead => k \in InShard(iter.shard) \/ k \in Ahead'
      BY <1>6 DEF IterLock, Ahead, InShard, TypeOK
    <3> QED
      BY <1>6, <2>1, <3>1, <3>2 DEF IterLock, Coming, InChannel
  <2> QED
    BY <1>6, <2>1 DEF IterLock, SteadyOk, NothingMissed
<1>7. ASSUME NEW u \in Users, IterSend(u) PROVE SteadyOk'
  <2>1. /\ ch \in Seq(Users) /\ ch' = Append(ch, u) /\ iter' = [iter EXCEPT !.left = @ \ {u}]
        /\ UNCHANGED <<items, cleaner, steady, got>>
        /\ iter'.pc = iter.pc /\ iter'.shard = iter.shard /\ iter'.left = iter.left \ {u}
    BY <1>7 DEF IterSend, TypeOK
  <2>2. InChannel(u)'
    BY <2>1 DEF InChannel
  <2>3. ASSUME NEW k, InChannel(k) PROVE InChannel(k)'
    BY <2>1, <2>3 DEF InChannel
  <2>4. Ahead' = Ahead
    BY <2>1 DEF Ahead
  <2>5. ASSUME NEW k, Coming(k) PROVE Coming(k)'
    BY <2>1, <2>2, <2>3, <2>4, <2>5 DEF Coming
  <2> QED
    BY <2>1, <2>5 DEF SteadyOk, NothingMissed
<1>8. ASSUME IterUnlock PROVE SteadyOk'
  <2>1. UNCHANGED <<items, cleaner, ch, steady, got>> /\ iter'.left = iter.left
    BY <1>8 DEF IterUnlock, TypeOK
  <2>2. ASSUME NEW k, k \in Ahead PROVE k \in Ahead'
    BY <1>8, <2>1, <2>2 DEF IterUnlock, Ahead, TypeOK
  <2>3. ASSUME NEW k, Coming(k) PROVE Coming(k)'
    BY <2>1, <2>2, <2>3 DEF Coming, InChannel
  <2> QED
    BY <2>1, <2>3 DEF SteadyOk, NothingMissed
<1>9. ASSUME NEW o \in BOOLEAN, Receive(o) PROVE SteadyOk'
  <2>1. /\ ch \in Seq(Users) /\ ch # <<>> /\ ch' = Tail(ch) /\ got' = got \cup {Head(ch)}
        /\ UNCHANGED <<items, iter, steady>> /\ cleaner'.pc = cleaner.pc
    BY <1>9 DEF Receive, Take, TypeOK
  <2>2. ASSUME NEW k, InChannel(k) PROVE k \in got' \/ InChannel(k)'
    <3>1. PICK i \in 1 .. Len(ch) : ch[i] = k
      BY <2>2 DEF InChannel
    <3>2. CASE i = 1
      BY <2>1, <3>1, <3>2
    <3>3. CASE i # 1
      <4>1. i - 1 \in 1 .. Len(Tail(ch)) /\ Tail(ch)[i - 1] = k
        BY <2>1, <3>1, <3>3
      <4> QED
        BY <2>1, <4>1 DEF InChannel
    <3> QED
      BY <3>2, <3>3
  <2>3. Ahead' = Ahead
    BY <2>1 DEF Ahead
  <2>4. ASSUME NEW k, Coming(k) PROVE Coming(k)'
    BY <2>1, <2>2, <2>3, <2>4 DEF Coming
  <2>5. cleaner.pc = "range"
    BY <1>9 DEF Receive, Receiving
  <2> QED
    BY <2>1, <2>4, <2>5 DEF SteadyOk, NothingMissed
<1>10. ASSUME EndRange PROVE SteadyOk'
  <2>1. cleaner.pc = "range" /\ ch = <<>> /\ iter.pc = "closed"
    BY <1>10 DEF EndRange, Receiving
  <2>2. iter.left = {} /\ Ahead = {}
    BY <2>1 DEF PcOk, Ahead
  <2>3. \A k : ~InChannel(k)
    BY <2>1 DEF InChannel
  <2>4. steady \subseteq got
    BY <2>1, <2>2, <2>3 DEF SteadyOk, Coming
  <2>5. cleaner'.pc = "sweep" /\ UNCHANGED <<steady, got>>
    BY <1>10 DEF EndRange, TypeOK
  <2> QED
    BY <2>4, <2>5 DEF SteadyOk, NothingMissed
<1>11. ASSUME Sweep PROVE SteadyOk'
  BY <1>11 DEF Sweep, SteadyOk, NothingMissed, TypeOK
<1>12. ASSUME Return PROVE SteadyOk'
  BY <1>12 DEF Return, SteadyOk, NothingMissed, NotCleaning
<1>13. ASSUME UNCHANGED vars PROVE SteadyOk'
  BY <1>1, <1>13 DEF vars
<1> QED
  BY <1>2, <1>3, <1>4, <1>5, <1>6, <1>7, <1>8, <1>9, <1>10, <1>11, <1>12, <1>13
     DEF Next, Iterate, Clean

-----------------------------------------------------------------------------
\* While the shards are counted: one login can be in a shard that was counted before.
LEMMA CountStep == TypeOK /\ PcOk /\ CountOk /\ [Next]_vars => CountOk'
<1> SUFFICES ASSUME TypeOK, PcOk, CountOk, [Next]_vars, cleaner'.pc = "count", grown' < 2
             PROVE  Cardinality(Counted') <= count'.n + grown'
  BY DEF CountOk
<1> USE Shards
<1>t. TypeOK'
  BY TypeStep
<1>c. Counted \in SUBSET Users /\ Counted' \in SUBSET Users
  BY <1>t DEF Counted, TypeOK
<1>n. /\ Cardinality(Counted) \in Nat /\ Cardinality(Counted') \in Nat
      /\ count.n \in Nat /\ grown \in 0 .. 2
  BY <1>c, CardType DEF TypeOK
\* Steps that add no key.
<1>1. ASSUME items' \subseteq items, UNCHANGED <<cleaner, count, grown>>
      PROVE  Cardinality(Counted') <= count'.n + grown'
  <2>1. Counted' \subseteq Counted
    BY <1>1 DEF Counted
  <2>2. Cardinality(Counted') <= Cardinality(Counted)
    BY <1>c, <2>1, CardMono
  <2>3. Cardinality(Counted) <= count.n + grown
    BY <1>1 DEF CountOk
  <2> QED
    BY <1>1, <1>n, <2>2, <2>3
<1>2. ASSUME NEW p \in Procs, Set(p)
      PROVE  Cardinality(Counted') <= count'.n + grown'
  <2> DEFINE k == job[p].key
  <2>1. /\ k \in Users /\ items' = items \cup {k} /\ UNCHANGED <<cleaner, count>>
        /\ cleaner.pc = "count"
    BY <1>2 DEF Set, cleanVars
  <2>2. CASE k \in items
    BY <1>1, <1>2, <2>1, <2>2 DEF Set
  <2>3. CASE k \notin items
    <3>1. grown' = grown + 1 /\ grown < 2
      BY <1>2, <2>1, <2>3, <1>n DEF Set
    <3>2. Counted' \subseteq Counted \cup {k}
      BY <2>1 DEF Counted
    <3>3. Counted \cup {k} \in SUBSET Users
      BY <1>c, <2>1
    <3>4. Cardinality(Counted') <= Cardinality(Counted \cup {k})
      BY <3>2, <3>3, CardMono
    <3>5. Cardinality(Counted \cup {k}) <= Cardinality(Counted) + 1
      BY <1>c, <2>1, CardAdd
    <3>6. Cardinality(Counted \cup {k}) \in Nat
      BY <3>3, CardType
    <3>7. Cardinality(Counted) <= count.n + grown
      BY <2>1, <3>1 DEF CountOk
    <3> QED
      BY <1>n, <2>1, <3>1, <3>4, <3>5, <3>6, <3>7
  <2> QED
    BY <2>2, <2>3
<1>3. ASSUME StartCleaning PROVE Cardinality(Counted') <= count'.n + grown'
  <2>1. count = NoCount /\ grown = 0 /\ count' = count /\ grown' = grown
    BY <1>3 DEF StartCleaning, PcOk, NotCleaning
  <2>2. Counted' = {}
    BY <2>1, <1>t DEF Counted, NoCount, TypeOK
  <2> QED
    BY <2>1, <2>2, CardEmpty DEF NoCount
<1>4. ASSUME Count PROVE Cardinality(Counted') <= count'.n + grown'
  <2> DEFINE S == InShard(count.shard)
  <2>1. /\ cleaner.pc = "count" /\ UNCHANGED <<items, grown>> /\ count.shard \in 1 .. SHARD_COUNT
        /\ count'.shard = count.shard + 1 /\ count'.n = count.n + Cardinality(S)
    BY <1>4 DEF Count, CountUpTo, TypeOK, PcOk
  <2>2. Counted' = Counted \cup S
    BY <2>1 DEF Counted, InShard, TypeOK
  <2>3. S \in SUBSET Users /\ Counted \cap S = {}
    BY <2>1 DEF Counted, InShard, TypeOK
  <2>4. Cardinality(Counted \cup S) = Cardinality(Counted) + Cardinality(S)
    BY <1>c, <2>3, CardDisjoint
  <2>5. Cardinality(Counted) <= count.n + grown
    BY <2>1 DEF CountOk
  <2>6. Cardinality(S) \in Nat
    BY <2>3, CardType
  <2> QED
    BY <1>n, <2>1, <2>2, <2>4, <2>5, <2>6
<1>5. ASSUME NEW c \in Clients, NEW op \in {"get", "set", "remove"}, NEW k \in Users, Call(c, op, k)
      PROVE  Cardinality(Counted') <= count'.n + grown'
  BY <1>1, <1>5 DEF Call, cleanVars
<1>6. ASSUME NEW p \in Procs, Get(p) \/ Lock(p) \/ Remove(p)
      PROVE  Cardinality(Counted') <= count'.n + grown'
  BY <1>1, <1>6 DEF Get, Lock, Remove, cleanVars
<1>7. ASSUME Iterate PROVE Cardinality(Counted') <= count'.n + grown'
  BY <1>1, <1>7 DEF Iterate, IterLock, IterUnlock, IterSend
<1>8. ASSUME NEW o \in BOOLEAN, Receive(o) \/ EndRange \/ Sweep \/ Return PROVE FALSE
  <2>1. cleaner'.pc # "count"
    BY <1>8 DEF Receive, Receiving, Take, EndRange, Sweep, Return, NotCleaning, TypeOK
  <2> QED
    BY <2>1
<1>9. CASE UNCHANGED vars
  BY <1>1, <1>9 DEF vars
<1> QED
  BY <1>2, <1>3, <1>4, <1>5, <1>6, <1>7, <1>8, <1>9 DEF Next, Access, Clean

\* While the entries are sent: what the channel holds, what went before and what is to
\* come are together no more than the count and the users who logged in.
LEMMA RangeStep == TypeOK /\ PcOk /\ CountOk /\ RangeOk /\ [Next]_vars => RangeOk'
<1> DEFINE Sum == Cardinality(got) + Len(ch) + Cardinality(iter.left) + Cardinality(Ahead)
<1> SUFFICES ASSUME TypeOK, PcOk, CountOk, RangeOk, [Next]_vars, cleaner'.pc = "range", grown' < 2
             PROVE  Sum' <= count'.n + grown'
  BY DEF RangeOk
<1> USE Shards
<1>t. TypeOK'
  BY TypeStep
<1>c. /\ Ahead \in SUBSET Users /\ Ahead' \in SUBSET Users
      /\ got \in SUBSET Users /\ got' \in SUBSET Users
      /\ iter.left \in SUBSET Users /\ iter'.left \in SUBSET Users
  BY <1>t DEF Ahead, TypeOK
<1>n. /\ Cardinality(Ahead) \in Nat /\ Cardinality(Ahead') \in Nat
      /\ Cardinality(got) \in Nat /\ Cardinality(got') \in Nat
      /\ Cardinality(iter.left) \in Nat /\ Cardinality(iter'.left) \in Nat
      /\ Len(ch) \in Nat /\ Len(ch') \in Nat /\ count.n \in Nat /\ grown \in 0 .. 2
  BY <1>t, <1>c, CardType DEF TypeOK
<1>r. cleaner.pc = "range" /\ grown < 2 => Sum <= count.n + grown
  BY DEF RangeOk
\* Steps that add no key, next to the iterator.
<1>1. ASSUME items' \subseteq items, UNCHANGED <<cleaner, count, iter, ch, got, grown>>
      PROVE  Sum' <= count'.n + grown'
  <2>1. Ahead' \subseteq Ahead
    BY <1>1 DEF Ahead
  <2>2. Cardinality(Ahead') <= Cardinality(Ahead)
    BY <1>c, <2>1, CardMono
  <2> QED
    BY <1>1, <1>n, <1>r, <2>2
<1>2. ASSUME NEW p \in Procs, Set(p) PROVE Sum' <= count'.n + grown'
  <2> DEFINE k == job[p].key
  <2>1. /\ k \in Users /\ items' = items \cup {k} /\ UNCHANGED <<cleaner, count, iter, ch, got>>
        /\ cleaner.pc = "range"
    BY <1>2 DEF Set, cleanVars
  <2>2. CASE k \in items
    BY <1>1, <1>2, <2>1, <2>2 DEF Set
  <2>3. CASE k \notin items
    <3>1. grown' = grown + 1 /\ grown < 2
      BY <1>2, <2>1, <2>3, <1>n DEF Set
    <3>2. Ahead' \subseteq Ahead \cup {k} /\ Ahead \cup {k} \in SUBSET Users
      BY <1>c, <2>1 DEF Ahead
    <3>3. Cardinality(Ahead') <= Cardinality(Ahead \cup {k})
      BY <3>2, CardMono
    <3>4. Cardinality(Ahead \cup {k}) <= Cardinality(Ahead) + 1
      BY <1>c, <2>1, CardAdd
    <3>5. Cardinality(Ahead \cup {k}) \in Nat
      BY <3>2, CardType
    <3> QED
      BY <1>n, <1>r, <2>1, <3>1, <3>3, <3>4, <3>5
  <2> QED
    BY <2>2, <2>3
<1>3. ASSUME Count PROVE Sum' <= count'.n + grown'
  <2> DEFINE S == InShard(count.shard)
  <2>1. /\ cleaner.pc = "count" /\ UNCHANGED <<items, grown, ch, got>> /\ count.shard = SHARD_COUNT
        /\ count'.n = count.n + Cardinality(S) /\ iter'.left = {} /\ got = {} /\ ch = <<>>
    BY <1>3 DEF Count, CountUpTo, TypeOK, PcOk
  <2>2. /\ S \in SUBSET Users /\ Counted \in SUBSET Users
        /\ Counted \cap S = {} /\ items = Counted \cup S
    BY <2>1 DEF Counted, InShard, TypeOK
  <2>3. Cardinality(items) = Cardinality(Counted) + Cardinality(S)
    BY <2>2, CardDisjoint
  <2>4. Ahead' \subseteq items /\ items \in SUBSET Users
    BY <2>1 DEF Ahead, TypeOK
  <2>5. Cardinality(Ahead') <= Cardinality(items)
    BY <2>4, CardMono
  <2>6. Cardinality(Counted) <= count.n + grown
    BY <2>1 DEF CountOk
  <2>7. Cardinality(S) \in Nat /\ Cardinality(Counted) \in Nat /\ Cardinality({}) = 0
    BY <2>2, CardType, CardEmpty
  <2>8. Cardinality(items) <= count'.n + grown'
    BY <1>n, <2>1, <2>3, <2>6, <2>7
  <2>9. Cardinality(got') = 0 /\ Len(ch') = 0 /\ Cardinality(iter'.left) = 0
    BY <2>1, <2>7
  <2>10. Cardinality(items) \in Nat /\ count'.n \in Nat /\ grown' \in Nat
    BY <1>t, <2>4, CardType DEF TypeOK
  <2> QED
    BY <1>n, <2>5, <2>8, <2>9, <2>10
<1>4. ASSUME IterLock PROVE Sum' <= count'.n + grown'
  <2>1. /\ UNCHANGED <<items, cleaner, count, ch, got, grown>> /\ iter.pc = "lock"
        /\ iter' = [iter EXCEPT !.pc = "send", !.left = InShard(iter.shard)]
    BY <1>4 DEF IterLock
  <2>2. iter'.pc = "send" /\ iter'.shard = iter.shard /\ iter'.left = InShard(iter.shard)
    BY <2>1 DEF TypeOK
  <2>3. iter'.left \cap Ahead' = {} /\ iter'.left \cup Ahead' \subseteq Ahead
    BY <2>1, <2>2 DEF Ahead, InShard, TypeOK
  <2>4. Cardinality(iter'.left \cup Ahead') = Cardinality(iter'.left) + Cardinality(Ahead')
    BY <1>c, <2>3, CardDisjoint
  <2>5. Cardinality(iter'.left \cup Ahead') <= Cardinality(Ahead)
    BY <1>c, <2>3, CardMono
  <2> QED
    BY <1>n, <1>r, <2>1, <2>4, <2>5, SMTT(30)
<1>5. ASSUME NEW u \in Users, IterSend(u) PROVE Sum' <= count'.n + grown'
  <2>1. /\ UNCHANGED <<items, cleaner, count, got, grown>> /\ u \in iter.left
        /\ iter'.pc = iter.pc /\ iter'.shard = iter.shard /\ iter'.left = iter.left \ {u}
        /\ ch' = Append(ch, u) /\ ch \in Seq(Users)
    BY <1>5 DEF IterSend, TypeOK
  <2>2. Ahead' = Ahead
    BY <2>1 DEF Ahead
  <2>3. Cardinality(iter'.left) = Cardinality(iter.left) - 1
    BY <1>c, <2>1, CardTake
  <2>4. Len(ch') = Len(ch) + 1
    BY <2>1
  <2> QED
    BY <1>n, <1>r, <2>1, <2>2, <2>3, <2>4
<1>6. ASSUME IterUnlock PROVE Sum' <= count'.n + grown'
  <2>1. /\ UNCHANGED <<items, cleaner, count, ch, got, grown>> /\ iter'.left = iter.left
    BY <1>6 DEF IterUnlock, TypeOK
  <2>2. Ahead' \subseteq Ahead
    BY <1>6, <2>1 DEF IterUnlock, Ahead, TypeOK
  <2>3. Cardinality(Ahead') <= Cardinality(Ahead)
    BY <1>c, <2>2, CardMono
  <2> QED
    BY <1>n, <1>r, <2>1, <2>3
<1>7. ASSUME NEW o \in BOOLEAN, Receive(o) PROVE Sum' <= count'.n + grown'
  <2>1. /\ ch \in Seq(Users) /\ ch # <<>> /\ ch' = Tail(ch) /\ got' = got \cup {Head(ch)}
        /\ UNCHANGED <<items, iter, count, grown>> /\ cleaner.pc = "range"
    BY <1>7 DEF Receive, Receiving, Take, TypeOK
  <2>2. Ahead' = Ahead
    BY <2>1 DEF Ahead
  <2>3. Len(ch') = Len(ch) - 1 /\ Head(ch) \in Users
    BY <2>1
  <2>4. Cardinality(got') <= Cardinality(got) + 1
    BY <1>c, <2>1, <2>3, CardAdd
  <2> QED
    BY <1>n, <1>r, <2>1, <2>2, <2>3, <2>4, SMTT(30)
<1>8. ASSUME NEW c \in Clients, NEW op \in {"get", "set", "remove"}, NEW k \in Users, Call(c, op, k)
      PROVE  Sum' <= count'.n + grown'
  BY <1>1, <1>8 DEF Call, cleanVars
<1>9. ASSUME NEW p \in Procs, Get(p) \/ Lock(p) \/ Remove(p) PROVE Sum' <= count'.n + grown'
  BY <1>1, <1>9 DEF Get, Lock, Remove, cleanVars
<1>10. ASSUME StartCleaning \/ EndRange \/ Sweep \/ Return PROVE FALSE
  <2>1. cleaner'.pc # "range"
    BY <1>10 DEF StartCleaning, EndRange, Sweep, Return, NotCleaning, TypeOK
  <2> QED
    BY <2>1
<1>11. CASE UNCHANGED vars
  BY <1>1, <1>11 DEF vars
<1> QED
  BY <1>2, <1>3, <1>4, <1>5, <1>6, <1>7, <1>8, <1>9, <1>10, <1>11 DEF Next, Access, Iterate, Clean

-----------------------------------------------------------------------------
LEMMA Invariant == Spec => []IInv
<1>1. IInv /\ [Next]_vars => IInv'
  BY TypeStep, PcStep, SteadyStep, CountStep, RangeStep DEF IInv
<1> QED
  BY <1>1, InitInv, PTL DEF Spec

\* The map, the calls, the count and the channel keep their types; the keys in the
\* channel are keys of users, whoever logs in or out meanwhile.
THEOREM TypeCorrect == Spec => []TypeOK
<1>1. IInv => TypeOK
  BY DEF IInv
<1> QED
  BY <1>1, Invariant, PTL

\* CleanUsermap looks at every user who stays in the map while it runs, whatever is
\* set and removed behind and before the iterator.
THEOREM NobodyMissed == Spec => []NothingMissed
<1>1. IInv => NothingMissed
  BY DEF IInv, SteadyOk
<1> QED
  BY <1>1, Invariant, PTL

\* The cleaner and the iterator stop each other only if two users logged in since the
\* cleaning began to count: the channel has room for what was counted.
THEOREM StuckNeedsGrowth == Spec => []StuckOnlyIfGrown
<1>1. IInv => StuckOnlyIfGrown
  <2> SUFFICES ASSUME IInv, Stuck, ~(grown >= 2) PROVE FALSE
    BY DEF StuckOnlyIfGrown
  <2>1. /\ cleaner.pc = "range" /\ job["cleaner"].key \in got
        /\ got \in SUBSET Users /\ iter.left \in SUBSET Users /\ Ahead \in SUBSET Users
        /\ iter.left # {} /\ ~(Len(ch) < count.n)
        /\ Len(ch) \in Nat /\ count.n \in Nat /\ grown \in 0 .. 2
    BY DEF IInv, TypeOK, PcOk, Stuck, Room, Ahead, Idle
  <2>2. Cardinality(got) >= 1 /\ Cardinality(iter.left) >= 1
    BY <2>1, CardSome
  <2>3. Cardinality(got) \in Nat /\ Cardinality(iter.left) \in Nat /\ Cardinality(Ahead) \in Nat
    BY <2>1, CardType
  <2>4. Cardinality(got) + Len(ch) + Cardinality(iter.left) + Cardinality(Ahead) <= count.n + grown
    BY <2>1 DEF IInv, RangeOk
  <2> QED
    BY <2>1, <2>2, <2>3, <2>4
<1> QED
  BY <1>1, Invariant, PTL
=============================================================================
