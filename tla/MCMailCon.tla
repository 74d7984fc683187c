----------------------------- MODULE MCMailCon -----------------------------
(* The instances of MailCon that TLC checks. *)
EXTENDS MailCon, TLC

Op(k, f, i) == [kind |-> k, folder |-> f, into |-> i]
Load == Op("mails", INBOX, INBOX)
Poll == Op("poll", INBOX, INBOX)
Logout == Op("close", INBOX, INBOX)

Move == Op("move", INBOX, "Sent")

\* One goroutine polls and moves; the other does everything else, and moves.
SessionOps ==
  ("r1" :> {Poll, Move} @@
   "r2" :> {Load, Logout, Op("send", INBOX, "Sent"), Op("flags", "Sent", "Sent"), Move})
PollOps == [r \in Requests |-> {Poll}]
=============================================================================
