----------------------------- MODULE MCUserMap -----------------------------
(* The instance of UserMap that TLC checks. *)
EXTENDS UserMap

\* The first user has the first shard to himself.
Hashed == [u \in Users |-> IF u = 1 THEN 1 ELSE 2]
=============================================================================
