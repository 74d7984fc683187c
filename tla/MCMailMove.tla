---------------------------- MODULE MCMailMove ----------------------------
(***************************************************************************)
(* Instances of MailMove for TLC.                                          *)
(***************************************************************************)
EXTENDS MailMove, TLC

CONSTANTS m1, m2

\* m2 is the newer mail.
Dates == [m \in Mails |-> IF m = m1 THEN 1 ELSE 2]

\* How many requests are sent about each mail.
One == [m \in Mails |-> 1]
Two == [m \in Mails |-> 2]
TwoAndOne == [m \in Mails |-> IF m = m1 THEN 1 ELSE 2]
=============================================================================
