--------------------------- MODULE MCUserSessions ---------------------------
(* The instances of UserSessions that TLC checks. *)
EXTENDS UserSessions, TLC

\* Users of one shard are those who can stop a cleaning.
OneShard == [id \in Ids |-> "s"]

MainKinds == {"login", "call", "logout"}
AllKinds == MainKinds \cup {"welcome"}
=============================================================================
