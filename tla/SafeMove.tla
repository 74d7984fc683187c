------------------------------ MODULE SafeMove ------------------------------
(***************************************************************************)
(* What moving mails promises to a user.  The mail server cannot move, it  *)
(* copies and flags the original as deleted; so a move is not atomic, but  *)
(* safe: a mail is never nowhere, it changes its place at one moment, to a *)
(* copy that is there already, and the client learns which of the two      *)
(* happened.  The price is a duplicate when a move is taken back after its *)
(* copy was made.  MailMove is shown to implement this specification for a *)
(* user who waits for the end of a move before the next one of the mail.   *)
(***************************************************************************)
CONSTANTS Mails,
          Folders,  \* the folders of the mail server
          None

VARIABLES
  place,   \* the folder a mail is in; None once it was deleted for good
  spare,   \* the folders with a further message of it, which the client ignores
  shown,   \* the folder the user sees it in
  wanted,  \* the folder it is to be moved to, while that is under way
  doomed   \* the user has deleted it for good

vars == <<place, spare, shown, wanted, doomed>>

Init ==
  /\ shown \in [Mails -> Folders]
  /\ doomed \in [Mails -> BOOLEAN]
  /\ place = [m \in Mails |-> IF doomed[m] THEN None ELSE shown[m]]
  /\ spare = [m \in Mails |-> {}]
  /\ wanted = [m \in Mails |-> None]

\* The user moves a mail, and sees it there at once.
Ask(m, into) ==
  /\ wanted[m] = None /\ ~doomed[m] /\ into # place[m]
  /\ wanted' = [wanted EXCEPT ![m] = into]
  /\ shown' = [shown EXCEPT ![m] = into]
  /\ UNCHANGED <<place, spare, doomed>>

UnderWay(m) == wanted[m] \notin {None, place[m]}

\* A second message of the mail appears, only where it is to be moved to ...
Copy(m) ==
  /\ UnderWay(m)
  /\ spare' = [spare EXCEPT ![m] = @ \union {wanted[m]}]
  /\ UNCHANGED <<place, shown, wanted, doomed>>

\* ... and takes the place of the first.  An older duplicate may stay there.
Move(m) ==
  /\ UnderWay(m) /\ wanted[m] \in spare[m]
  /\ place' = [place EXCEPT ![m] = wanted[m]]
  /\ \/ spare' = spare
     \/ spare' = [spare EXCEPT ![m] = @ \ {wanted[m]}]
  /\ UNCHANGED <<shown, wanted, doomed>>

\* The move is known to have happened; or it never will, and is taken back.
Confirm(m) ==
  /\ wanted[m] # None /\ place[m] = wanted[m]
  /\ wanted' = [wanted EXCEPT ![m] = None]
  /\ UNCHANGED <<place, spare, shown, doomed>>
TakeBack(m) ==
  /\ UnderWay(m)
  /\ wanted' = [wanted EXCEPT ![m] = None]
  /\ shown' = [shown EXCEPT ![m] = place[m]]
  /\ UNCHANGED <<place, spare, doomed>>

\* The user deletes mails for good, none while it is moved; each disappears later,
\* or never if that fails.  Duplicates stay.
Doom(S) ==
  /\ \A m \in S : ~doomed[m] /\ wanted[m] = None
  /\ doomed' = [m \in Mails |-> doomed[m] \/ m \in S]
  /\ UNCHANGED <<place, spare, shown, wanted>>
Disappear(m) ==
  /\ doomed[m] /\ wanted[m] = None /\ place' = [place EXCEPT ![m] = None]
  /\ UNCHANGED <<spare, shown, wanted, doomed>>

Next ==
  \/ \E m \in Mails : \/ \E f \in Folders : Ask(m, f)
                      \/ Copy(m) \/ Move(m) \/ Confirm(m) \/ TakeBack(m) \/ Disappear(m)
  \/ \E S \in SUBSET Mails : Doom(S)

Spec == Init /\ [][Next]_vars
=============================================================================
