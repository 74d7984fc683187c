--------------------------- MODULE Composer_proofs ---------------------------
(***************************************************************************)
(* Proofs about Composer for any number of windows and requests.           *)
(***************************************************************************)
EXTENDS Composer, TLAPS

\* An answer that closes a window is on its way only when the mail was taken.
OkMeansMailed == \A w \in Windows : wire[w].ok > 0 => w \in mailed

IInv == TypeOK /\ LastExists /\ ShownIsLast /\ OkMeansMailed /\ UnsentStays

-----------------------------------------------------------------------------
\* What the helpers of the actions do to the windows that are shown and to the
\* last one.
LEMMA ShowKeeps ==
  ASSUME TypeOK, NEW w \in Windows, Show(w), ShownIsLast, UNCHANGED stacked
  PROVE  /\ shown' \subseteq Windows /\ hover' \subseteq Windows /\ last' = w
         /\ ShownIsLast'
<1>1. Hidden(w) \subseteq Windows
  BY DEF Hidden, TypeOK
<1>2. shown' \subseteq Windows /\ hover' \subseteq Windows /\ last' = w
  BY <1>1 DEF TypeOK, Show
<1>3. ASSUME ~stacked', NEW v \in shown' PROVE v = last'
  <2>1. ~stacked
    BY <1>3, Zenon
  <2>2. v = w \/ (v = last /\ v \notin Hidden(w) /\ last \in Windows)
    BY <1>3, <2>1 DEF Show, ShownIsLast, TypeOK
  <2> QED
    BY <2>2, <1>2, ComposerAssumption DEF Hidden
<1> QED
  BY <1>2, <1>3 DEF ShownIsLast

LEMMA HideKeeps ==
  ASSUME TypeOK, NEW w \in Windows, HideAndHoverEvents(w), ShownIsLast, UNCHANGED stacked
  PROVE  /\ shown' \subseteq Windows /\ hover' \subseteq Windows
         /\ preview' = preview /\ last' = last /\ ShownIsLast'
  BY DEF TypeOK, HideAndHoverEvents, ShownIsLast

LEMMA RemoveKeeps ==
  ASSUME TypeOK, LastExists, ShownIsLast, NEW w \in Windows, Remove(w), UNCHANGED stacked
  PROVE  /\ stage' \in [Windows -> {"none", "pending", "open", "closed"}]
         /\ \A v \in Windows : stage'[v] = "closed" => stage[v] = "closed" \/ v = w
         /\ shown' \subseteq Windows /\ hover' \subseteq Windows /\ preview' \subseteq Windows
         /\ last' \in Windows \cup {None} /\ mouse' \in Windows \cup {None}
         /\ LastExists' /\ ShownIsLast'
  BY DEF TypeOK, LastExists, Exists, ShownIsLast, Remove

-----------------------------------------------------------------------------
LEMMA InitInv == Init => IInv
<1> SUFFICES ASSUME Init PROVE IInv
  OBVIOUS
<1>1. TypeOK
  <2>1. sends \in 0..MaxSends
    BY ComposerAssumption DEF Init
  <2>2. stage \in [Windows -> {"none", "pending", "open", "closed"}]
    BY DEF Init
  <2>3. wire \in [Windows -> [sent : Nat, ok : Nat, error : Nat, broken : Nat]]
    BY DEF Init
  <2>4. stacked \in BOOLEAN
    BY DEF Init
  <2>5. shown = {} /\ preview = {} /\ hover = {} /\ last = None /\ mouse = None /\ mailed = {} /\ aside = {}
    BY DEF Init
  <2> QED
    BY <2>1, <2>2, <2>3, <2>4, <2>5 DEF TypeOK
<1>2. LastExists /\ ShownIsLast /\ OkMeansMailed /\ UnsentStays
  BY DEF Init, LastExists, ShownIsLast, OkMeansMailed, UnsentStays
<1> QED
  BY <1>1, <1>2 DEF IInv

LEMMA StepInv == IInv /\ [Next]_vars => IInv'
<1> SUFFICES ASSUME IInv, [Next]_vars PROVE IInv'
  OBVIOUS
<1> USE DEF IInv
<1>1. ASSUME NEW w \in Windows, New(w) PROVE IInv'
  BY <1>1 DEF New, post, TypeOK, LastExists, Exists, ShownIsLast, OkMeansMailed, UnsentStays
<1>2. ASSUME NEW w \in Windows, Rendered(w) PROVE IInv'
  <2>1. UNCHANGED <<preview, mouse, wire, sends, mailed, aside, stacked>> /\ Show(w)
    BY <1>2 DEF Rendered, post
  <2>2. stage' = [stage EXCEPT ![w] = "open"]
    BY <1>2 DEF Rendered
  <2> QED
    BY <2>1, <2>2, ShowKeeps DEF TypeOK, LastExists, Exists, OkMeansMailed, UnsentStays
<1>3. ASSUME NEW w \in Windows, Toggle(w) PROVE IInv'
  <2>1. Exists(w) /\ UNCHANGED <<stage, mouse, wire, sends, mailed, aside, stacked>>
    BY <1>3 DEF Toggle, post
  <2>2. CASE w \in preview /\ hover' = hover \ {w} /\ preview' = preview \ {w}
             /\ UNCHANGED <<shown, last>>
    BY <2>1, <2>2 DEF TypeOK, LastExists, Exists, ShownIsLast, OkMeansMailed, UnsentStays
  <2>3. CASE HideAndHoverEvents(w)
    BY <2>1, <2>3, HideKeeps DEF TypeOK, LastExists, Exists, OkMeansMailed, UnsentStays
  <2>4. CASE Show(w) /\ UNCHANGED preview
    BY <2>1, <2>4, ShowKeeps DEF TypeOK, LastExists, Exists, OkMeansMailed, UnsentStays
  <2> QED
    BY <1>3, <2>2, <2>3, <2>4 DEF Toggle
<1>4. ASSUME NEW w \in Windows, MouseOver(w) PROVE IInv'
  <2>1. /\ Exists(w) /\ mouse' = w
        /\ UNCHANGED <<stage, wire, sends, mailed, aside, stacked>>
    BY <1>4 DEF MouseOver, post
  <2>2. CASE Show(w) /\ preview' = preview \cup {w}
    BY <2>1, <2>2, ShowKeeps DEF TypeOK, LastExists, Exists, OkMeansMailed, UnsentStays
  <2>3. CASE UNCHANGED view
    BY <2>1, <2>3 DEF view, TypeOK, LastExists, Exists, ShownIsLast, OkMeansMailed, UnsentStays
  <2> QED
    BY <1>4, <2>2, <2>3 DEF MouseOver
<1>5. ASSUME MouseOut PROVE IInv'
  BY <1>5 DEF MouseOut, post, TypeOK, LastExists, Exists, ShownIsLast, OkMeansMailed, UnsentStays
<1>6. ASSUME MailShown PROVE IInv'
  <2>1. /\ last \in Windows /\ HideAndHoverEvents(last)
        /\ UNCHANGED <<stage, mouse, wire, sends, mailed, aside, stacked>>
    BY <1>6 DEF MailShown, post, TypeOK
  <2> QED
    BY <2>1, HideKeeps DEF TypeOK, LastExists, Exists, OkMeansMailed, UnsentStays
<1>7. ASSUME NEW w \in Windows, Minimize(w) PROVE IInv'
  <2>1. HideAndHoverEvents(w) /\ UNCHANGED <<stage, mouse, wire, sends, mailed, aside, stacked>>
    BY <1>7 DEF Minimize, post
  <2> QED
    BY <2>1, HideKeeps DEF TypeOK, LastExists, Exists, OkMeansMailed, UnsentStays
<1>8. ASSUME NEW w \in Windows, Close(w) PROVE IInv'
  <2>1. Remove(w) /\ aside' = aside \cup {w} /\ UNCHANGED <<wire, sends, mailed, stacked>>
    BY <1>8 DEF Close, post
  <2> QED
    BY <2>1, RemoveKeeps DEF TypeOK, OkMeansMailed, UnsentStays
<1>9. ASSUME NEW w \in Windows, Send(w) PROVE IInv'
  <2>1. /\ sends < MaxSends /\ sends' = sends + 1
        /\ wire' = [wire EXCEPT ![w].sent = @ + 1]
        /\ UNCHANGED <<stage, shown, preview, hover, last, mouse, mailed, aside, stacked>>
    BY <1>9 DEF Send, view
  <2>2. sends' \in 0..MaxSends
    BY <2>1, ComposerAssumption DEF TypeOK
  <2>3. /\ wire' \in [Windows -> [sent : Nat, ok : Nat, error : Nat, broken : Nat]]
        /\ \A v \in Windows : wire'[v].ok = wire[v].ok
    BY <2>1 DEF TypeOK
  <2> QED
    BY <2>1, <2>2, <2>3 DEF TypeOK, LastExists, Exists, ShownIsLast, OkMeansMailed, UnsentStays
<1>10. ASSUME NEW w \in Windows, SendMail(w) PROVE IInv'
  <2>1. ASSUME NEW a \in Answers, NEW taken \in BOOLEAN, Served(w, a, taken), a = "ok" => taken
        PROVE  IInv'
    <3>1. /\ wire[w].sent > 0
          /\ wire' = [wire EXCEPT ![w].sent = @ - 1, ![w][a] = @ + 1]
          /\ mailed' = IF taken THEN mailed \cup {w} ELSE mailed
          /\ UNCHANGED <<stage, shown, preview, hover, last, mouse, sends, aside, stacked>>
      BY <2>1 DEF Served, view
    <3>2. /\ wire' \in [Windows -> [sent : Nat, ok : Nat, error : Nat, broken : Nat]]
          /\ \A v \in Windows : wire'[v].ok = wire[v].ok \/ (v = w /\ a = "ok")
      BY <3>1 DEF TypeOK, Answers
    <3>3. OkMeansMailed'
      BY <3>1, <3>2, <2>1 DEF OkMeansMailed
    <3> QED
      BY <3>1, <3>2, <3>3 DEF TypeOK, LastExists, Exists, ShownIsLast, UnsentStays
  <2> QED
    BY <1>10, <2>1 DEF SendMail, Answers
<1>11. ASSUME NEW w \in Windows, NEW a \in Answers, Reply(w, a) PROVE IInv'
  <2>1. /\ wire[w][a] > 0 /\ wire' = [wire EXCEPT ![w][a] = @ - 1]
        /\ UNCHANGED <<sends, mailed, aside, stacked>>
    BY <1>11 DEF Reply
  <2>2. /\ wire' \in [Windows -> [sent : Nat, ok : Nat, error : Nat, broken : Nat]]
        /\ \A v \in Windows : wire'[v].ok > 0 => wire[v].ok > 0
    BY <2>1 DEF TypeOK, Answers
  <2>3. CASE a = "ok" /\ Remove(w)
    <3>1. w \in mailed
      BY <2>1, <2>3 DEF OkMeansMailed
    <3> QED
      BY <2>1, <2>2, <2>3, <3>1, RemoveKeeps DEF TypeOK, OkMeansMailed, UnsentStays
  <2>4. CASE UNCHANGED <<stage, view, mouse>>
    BY <2>1, <2>2, <2>4
       DEF view, TypeOK, LastExists, Exists, ShownIsLast, OkMeansMailed, UnsentStays
  <2> QED
    BY <1>11, <2>3, <2>4 DEF Reply, Closing
<1>12. CASE UNCHANGED vars
  BY <1>12 DEF vars, TypeOK, LastExists, Exists, ShownIsLast, OkMeansMailed, UnsentStays
<1> QED
  BY <1>1, <1>2, <1>3, <1>4, <1>5, <1>6, <1>7, <1>8, <1>9, <1>10, <1>11, <1>12 DEF Next

-----------------------------------------------------------------------------
\* The inductive invariant holds in every reachable state.
THEOREM Invariance == Spec => []IInv
  BY InitInv, StepInv, PTL DEF Spec

\* Every variable of the composer has its type.
THEOREM TypeCorrect == Spec => []TypeOK
  BY Invariance, PTL DEF IInv

\* hideActiveNewMail never meets a window that was removed.
THEOREM LastOneExists == Spec => []LastExists
  BY Invariance, PTL DEF IInv

\* Only the last active window is shown, unless windows were stacked.
THEOREM OnlyLastIsShown == Spec => []ShownIsLast
  BY Invariance, PTL DEF IInv

\* A window goes away only by its close button or when its mail was taken.
THEOREM UnsentIsKept == Spec => []UnsentStays
  BY Invariance, PTL DEF IInv
=============================================================================
