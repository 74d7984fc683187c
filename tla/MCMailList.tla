----------------------------- MODULE MCMailList -----------------------------
(* The instances of MailList that TLC checks. *)
EXTENDS MailList, TLC

\* Mail 1 is in HTML and starts in Sent.
Homes == [m \in Mails |-> IF m = 1 THEN SENT ELSE INBOX]
Bodies == [m \in Mails |-> IF m = 1 THEN {"text/plain", "text/html"} ELSE {"image/png"}]
Words == ("" :> Mails @@ "x" :> {1})
=============================================================================
