---------------------------- MODULE MCFolderView ----------------------------
(* The instance of FolderView that TLC checks: an old mail in the Inbox, read
   before or not, one spam mail, and one that arrives by a poll, read or not. *)
EXTENDS FolderView, TLC

Homes == [m \in Mails |-> INBOX]
=============================================================================
