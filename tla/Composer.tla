------------------------------ MODULE Composer ------------------------------
(***************************************************************************)
(* The windows in which mails are written (newmail.js), the bar with one   *)
(* item per window, and the requests that send the mails (web.go, sendMail; *)
(* mail.go, SendMail).                                                     *)
(*                                                                         *)
(* LAST_ACTIVE_NEW_MAIL_ITEM is the one window that hideActiveNewMail      *)
(* hides, whenever another window or a mail is shown.  A window is shown   *)
(* by a click on its bar item, or as a preview while the mouse is over the *)
(* item and the hover events are registered.                               *)
(***************************************************************************)
EXTENDS Naturals

CONSTANTS Windows,   \* the NewMail objects, bounding how many are made
          MaxSends,  \* bound: the requests of a behaviour
          None

ASSUME ComposerAssumption == MaxSends \in Nat /\ None \notin Windows

VARIABLES
  stage,    \* of each window: not made, made but the timer of 100 ms runs, open, removed
  shown,    \* windows with Visible, the ones the page shows
  preview,  \* windows with PreviewActive
  hover,    \* windows whose hover events are registered
  last,     \* LAST_ACTIVE_NEW_MAIL_ITEM
  mouse,    \* the bar item the mouse is over
  wire,     \* per window: requests on their way, and answers by kind
  sends,    \* the requests sent so far
  mailed,   \* history: windows whose mail the SMTP server has taken
  aside,    \* history: windows the user closed
  stacked   \* history: a new window was asked for while one was shown

vars == <<stage, shown, preview, hover, last, mouse, wire, sends, mailed, aside, stacked>>
view == <<shown, preview, hover, last>>
post == <<wire, sends, mailed>>

Exists(w) == stage[w] \in {"pending", "open"}
Answers == {"ok", "error", "broken"}

-----------------------------------------------------------------------------
(* Showing and hiding.                                                     *)

\* Faulty: LAST_ACTIVE_NEW_MAIL_ITEM is not compared with null.
FaultyHidden(w) == {last} \ {w}

\* hideActiveNewMail(w): the last window, unless it is w, is hidden and gets
\* hover events.
Hidden(w) == IF last \in {None, w} THEN {} ELSE {last}

\* Faulty: the last active window is not hidden.
FaultyShow(w) ==
  /\ shown' = shown \cup {w}
  /\ hover' = hover
  /\ last' = w

Show(w) ==
  /\ shown' = (shown \ Hidden(w)) \cup {w}
  /\ hover' = hover \cup Hidden(w)
  /\ last' = w

HideAndHoverEvents(w) ==
  /\ shown' = shown \ {w}
  /\ hover' = hover \cup {w}
  /\ UNCHANGED <<preview, last>>

-----------------------------------------------------------------------------
(* The user.                                                               *)

\* createNewMail, by the New Email or the Reply button.  It asks to hide every
\* window but the last active one, which hides none, and makes w the last one.
New(w) ==
  /\ stage[w] = "none" /\ mouse = None
  /\ stage' = [stage EXCEPT ![w] = "pending"]
  /\ last' = w
  /\ stacked' = (stacked \/ shown # {})
  /\ UNCHANGED <<shown, preview, hover, mouse, post, aside>>

\* The timer of renderNewMail: the window is shown, its buttons work.
Rendered(w) ==
  /\ stage[w] = "pending"
  /\ stage' = [stage EXCEPT ![w] = "open"]
  /\ Show(w)
  /\ UNCHANGED <<preview, mouse, post, aside, stacked>>

\* toggleVisible: a click on the bar item.
Toggle(w) ==
  /\ Exists(w) /\ mouse = w
  /\ \/ /\ w \in preview
        /\ hover' = hover \ {w} /\ preview' = preview \ {w}
        /\ UNCHANGED <<shown, last>>
     \/ /\ w \notin preview /\ w \in shown
        /\ HideAndHoverEvents(w)
     \/ /\ w \notin preview /\ w \notin shown
        /\ Show(w) /\ UNCHANGED preview
  /\ UNCHANGED <<stage, mouse, post, aside, stacked>>

MouseOver(w) ==
  /\ Exists(w) /\ mouse = None /\ mouse' = w
  /\ IF w \in hover THEN Show(w) /\ preview' = preview \cup {w}
                    ELSE UNCHANGED view
  /\ UNCHANGED <<stage, post, aside, stacked>>

MouseOut ==
  /\ mouse # None /\ mouse' = None
  /\ IF mouse \in hover THEN shown' = shown \ {mouse} /\ preview' = preview \ {mouse}
                        ELSE UNCHANGED <<shown, preview>>
  /\ UNCHANGED <<stage, hover, last, post, aside, stacked>>

\* A mail is shown, by the mouse, a key or the answer to a load of its content:
\* showMail calls hideActiveNewMail(null).
MailShown ==
  /\ last # None
  /\ HideAndHoverEvents(last)
  /\ UNCHANGED <<stage, mouse, post, aside, stacked>>

\* The buttons of a window can be reached while it is shown, off the bar.
Reachable(w) == stage[w] = "open" /\ w \in shown /\ mouse = None

Minimize(w) ==
  /\ Reachable(w) /\ HideAndHoverEvents(w)
  /\ UNCHANGED <<stage, mouse, post, aside, stacked>>

\* Faulty: the last active window is not forgotten.
FaultyRemove(w) ==
  /\ stage' = [stage EXCEPT ![w] = "closed"]
  /\ hover' = hover \ {w} /\ shown' = shown \ {w} /\ preview' = preview \ {w}
  /\ mouse' = IF mouse = w THEN None ELSE mouse
  /\ last' = last

\* close_(): the window and its bar item are removed.
Remove(w) ==
  /\ stage' = [stage EXCEPT ![w] = "closed"]
  /\ hover' = hover \ {w} /\ shown' = shown \ {w} /\ preview' = preview \ {w}
  /\ mouse' = IF mouse = w THEN None ELSE mouse
  /\ last' = IF last = w THEN None ELSE last

Close(w) ==
  /\ Reachable(w) /\ Remove(w)
  /\ aside' = aside \cup {w}
  /\ UNCHANGED <<post, stacked>>

\* sendMail_(): nothing keeps the button from being pressed again.
Send(w) ==
  /\ Reachable(w) /\ sends < MaxSends
  /\ sends' = sends + 1
  /\ wire' = [wire EXCEPT ![w].sent = @ + 1]
  /\ UNCHANGED <<stage, view, mouse, mailed, aside, stacked>>

-----------------------------------------------------------------------------
(* The server and its answers.                                             *)

\* The handler ends with an answer.  A mail is reported as sent if the SMTP
\* server took it and the IMAP server stored it in Sent.  If only the second
\* failed the answer is the same error as for a mail that was not sent, or the
\* handler panics.
Served(w, answer, taken) ==
  /\ wire[w].sent > 0
  /\ wire' = [wire EXCEPT ![w].sent = @ - 1, ![w][answer] = @ + 1]
  /\ mailed' = IF taken THEN mailed \cup {w} ELSE mailed
  /\ UNCHANGED <<stage, view, mouse, sends, aside, stacked>>
SendMail(w) ==
  \/ Served(w, "ok", TRUE)
  \/ \E taken \in BOOLEAN : Served(w, "error", taken) \/ Served(w, "broken", taken)

\* Faulty: every answer of status 200 closes the window.
FaultyClosing == {"ok", "error"}

\* The answers a window is closed upon: not those with an error, although
\* their status is 200 as well.
Closing == {"ok"}

\* An answer may come when the window has been removed; close_ does no harm then.
Reply(w, answer) ==
  /\ wire[w][answer] > 0
  /\ wire' = [wire EXCEPT ![w][answer] = @ - 1]
  /\ IF answer \in Closing THEN Remove(w) ELSE UNCHANGED <<stage, view, mouse>>
  /\ UNCHANGED <<sends, mailed, aside, stacked>>

-----------------------------------------------------------------------------
Init ==
  /\ stage = [w \in Windows |-> "none"]
  /\ shown = {} /\ preview = {} /\ hover = {} /\ last = None /\ mouse = None
  /\ wire = [w \in Windows |-> [sent |-> 0, ok |-> 0, error |-> 0, broken |-> 0]]
  /\ sends = 0
  /\ mailed = {} /\ aside = {} /\ stacked = FALSE

Next ==
  \/ \E w \in Windows :
       \/ New(w) \/ Rendered(w) \/ Toggle(w) \/ MouseOver(w)
       \/ Minimize(w) \/ Close(w) \/ Send(w) \/ SendMail(w)
       \/ \E a \in Answers : Reply(w, a)
  \/ MouseOut \/ MailShown

Spec == Init /\ [][Next]_vars

-----------------------------------------------------------------------------
TypeOK ==
  /\ stage \in [Windows -> {"none", "pending", "open", "closed"}]
  /\ shown \subseteq Windows /\ preview \subseteq Windows /\ hover \subseteq Windows
  /\ last \in Windows \cup {None} /\ mouse \in Windows \cup {None}
  /\ wire \in [Windows -> [sent : Nat, ok : Nat, error : Nat, broken : Nat]]
  /\ sends \in 0..MaxSends
  /\ mailed \subseteq Windows /\ aside \subseteq Windows /\ stacked \in BOOLEAN

\* hideActiveNewMail, which every mail that is shown calls, never meets a window
\* that was removed, whatever order clicks, timers and late answers come in: it
\* would throw there and the mail would not be shown.
LastExists == last # None => Exists(last)

\* A window that is shown is the one hideActiveNewMail hides next, so that no
\* two cover each other and a mail that is shown is not covered; except after
\* a new window was asked for while one was shown.
ShownIsLast == ~stacked => \A w \in shown : w = last

\* A window the user has not closed goes away only when its mail was taken by
\* the SMTP server: a failure never takes the text with it.
UnsentStays == \A w \in Windows : stage[w] = "closed" => w \in aside \cup mailed
=============================================================================
