--------------------------- MODULE MailList_proofs ---------------------------
(***************************************************************************)
(* Proofs about MailList and the details panel it extends, for any mails,  *)
(* folders, search terms and numbers of loads and moves in flight: rows,   *)
(* panel, warning, highlight and buttons speak of the same mails.          *)
(***************************************************************************)
EXTENDS MailList, FiniteSetTheorems, WellFoundedInduction, TLAPS

\* The mails the browser knows.  A mail that no poll has brought is in no part of
\* the page, and nobody has moved or deleted it.
Known == (Mails \ NewMails) \cup arrived
InPage(m) ==
  \/ \E f \in Folders : active[f] = m \/ <<f, m>> \in rows \/ <<f, m>> \in asking
  \/ bound # None /\ bound.mail = m
  \/ details.panel # None /\ details.panel.mail = m
Handled(m) == m \in deleted \/ \E move \in moving : move[1] = m
NotInPage == \A m \in Mails \ Known : ~InPage(m)
NotHandled == \A m \in Mails \ Known : ~Handled(m) /\ folder[m] = Start[m]

\* The control bar holds buttons of the folder object it is bound to, and those
\* are buttons of the selected folder.
BoundOk ==
  bound # None =>
    bound.on \subseteq Buttons(bound.by) /\ Buttons(bound.by) \subseteq Buttons(selected)

IInv ==
  /\ TypeOK /\ NotInPage /\ NotHandled /\ BoundOk
  /\ WarningServesPanel /\ ActsOnPanel /\ NoGhostRow /\ ShownIsLit

-----------------------------------------------------------------------------
(* Sets of mails, and the neighbours of a mail in its folder.              *)

LEMMA CardType ==
  ASSUME NEW S \in SUBSET Mails
  PROVE  IsFiniteSet(S) /\ Cardinality(S) \in Nat
<1>1. IsFiniteSet(S)
  BY MailListAssumption, FS_Subset
<1> QED
  BY <1>1, FS_CardinalityType

LEMMA CardStrict ==
  ASSUME NEW T \in SUBSET Mails, NEW S \in SUBSET T, S # T
  PROVE  Cardinality(S) < Cardinality(T)
<1>1. Cardinality(S) \in Nat /\ Cardinality(T) \in Nat /\ IsFiniteSet(T)
  BY CardType
<1>2. Cardinality(S) <= Cardinality(T) /\ Cardinality(S) # Cardinality(T)
  BY <1>1, FS_Subset
<1> QED
  BY <1>1, <1>2

\* A set of naturals has a least one.
LEMMA LeastNatural ==
  ASSUME NEW T \in SUBSET Nat, T # {}
  PROVE  \E x \in T : \A y \in T : x <= y
<1>1. PICK x \in T : \A y \in T : ~ <<y, x>> \in OpToRel(<, Nat)
  BY NatLessThanWellFounded, WFMin
<1>2. \A y \in T : ~ y < x
  BY <1>1 DEF OpToRel
<1> QED
  BY <1>2

\* Max and Min of some mails are mails among them: the one that has fewest above
\* it has none, and one is least.
LEMMA MaxIsIn ==
  ASSUME NEW S \in SUBSET Mails, S # {}
  PROVE  Max(S) \in S
<1> DEFINE Above(x) == {y \in S : y > x}
           T == {Cardinality(Above(x)) : x \in S}
<1>1. S \subseteq Nat
  BY MailListAssumption
<1>2. \A x \in S : Above(x) \in SUBSET Mails /\ Cardinality(Above(x)) \in Nat
  BY CardType
<1>3. PICK n \in T : \A k \in T : n <= k
  <2>1. T \in SUBSET Nat /\ T # {}
    BY <1>2
  <2> HIDE DEF T
  <2> QED
    BY <2>1, LeastNatural
<1>4. PICK x \in S : n = Cardinality(Above(x))
  BY <1>3
<1>5. \A y \in S : x >= y
  <2> SUFFICES ASSUME NEW y \in S, ~ x >= y PROVE FALSE
    OBVIOUS
  <2>1. y > x
    BY <1>1
  <2>2. Above(y) \subseteq Above(x) /\ y \in Above(x) /\ y \notin Above(y)
    <3>1. x \in Nat /\ y \in Nat /\ ~ y > y
      BY <1>1
    <3>2. ASSUME NEW z \in S, z > y PROVE z > x
      <4>1. z \in Nat
        BY <1>1
      <4> QED
        BY <2>1, <3>1, <3>2, <4>1
    <3> QED
      BY <2>1, <3>1, <3>2
  <2>3. Above(x) \in SUBSET Mails /\ Above(y) \in SUBSET Above(x) /\ Above(y) # Above(x)
    BY <1>2, <2>2
  <2>4. Cardinality(Above(y)) \in T /\ Cardinality(Above(y)) \in Nat /\ n \in Nat
    BY <1>2, <1>4
  <2> HIDE DEF Above
  <2>5. Cardinality(Above(y)) < Cardinality(Above(x))
    BY <2>3, CardStrict
  <2> QED
    BY <1>3, <1>4, <2>4, <2>5
<1> QED
  BY <1>5 DEF Max

LEMMA MinIsIn ==
  ASSUME NEW S \in SUBSET Mails, S # {}
  PROVE  Min(S) \in S
<1>1. \E x \in S : \A y \in S : x <= y
  BY LeastNatural, MailListAssumption
<1> QED
  BY <1>1 DEF Min

LEMMA KnownType == TypeOK => Known \in SUBSET Mails /\ \A f \in Folders : Tree(f) \subseteq Known
BY MailListAssumption DEF TypeOK, Known, Tree

\* getNextItem finds a mail of the filtered list, never the one it starts from.
LEMMA NextItemIsListed ==
  ASSUME TypeOK, NEW f \in Folders, NEW m, NEW before \in BOOLEAN, NextItem(f, m, before) # None
  PROVE  /\ NextItem(f, m, before) \in Filtered(f) /\ NextItem(f, m, before) # m
         /\ NextItem(f, m, before) \in Known /\ m \in Tree(f)
<1> DEFINE list == Filtered(f)
           found == IF before THEN (IF m \in list THEN {n \in list : n < m} ELSE list)
                    ELSE (IF m \in list THEN {n \in list : n > m} ELSE {})
<1>1. list \in SUBSET Mails /\ list \subseteq Known
  BY KnownType DEF Filtered, NotDeleted
<1>2. found \in SUBSET Mails /\ found \subseteq list
  BY <1>1
<1>3. m \notin found
  <2>1. CASE m \in list
    <3>1. m \in Nat
      BY <1>1, <2>1, MailListAssumption
    <3>2. ~(m < m) /\ ~(m > m)
      BY <3>1
    <3> QED
      BY <2>1, <3>2
  <2>2. CASE m \notin list
    BY <1>2, <2>2
  <2> QED
    BY <2>1, <2>2
<1>4. /\ m \in Tree(f) /\ found # {}
      /\ NextItem(f, m, before) = IF before THEN Max(found) ELSE Min(found)
  BY DEF NextItem
<1> HIDE DEF found, list
<1>5. Max(found) \in found /\ Min(found) \in found
  BY <1>2, <1>4, MaxIsIn, MinIsIn
<1>6. NextItem(f, m, before) \in found
  BY <1>4, <1>5
<1> QED
  BY <1>1, <1>2, <1>3, <1>4, <1>6 DEF list

LEMMA OtherItemIsListed ==
  ASSUME TypeOK, NEW f \in Folders, NEW m, OtherItem(f, m) # None
  PROVE  /\ OtherItem(f, m) \in Filtered(f) /\ OtherItem(f, m) # m
         /\ OtherItem(f, m) \in Known /\ m \in Tree(f)
<1>1. OtherItem(f, m) = NextItem(f, m, TRUE)
  BY DEF OtherItem
<1> QED
  BY <1>1, NextItemIsListed
-----------------------------------------------------------------------------
(* The details panel. *)
DetailsType == [panel : Panels \cup {None}, warning : Warnings \cup {None}, warners : SUBSET Folders]

LEMMA CleanType ==
  ASSUME NEW d \in DetailsType, NEW f \in Folders
  PROVE  Clean(d, f) \in DetailsType /\ Clean(d, f).panel = None /\ Clean(d, f).warning = None
BY DEF DetailsType, Clean

\* What is rendered into a panel that was cleaned: the mail, with a warning of its
\* own if its pictures are not shown.
LEMMA RenderType ==
  ASSUME NEW d \in DetailsType, d.warning = None,
         NEW f \in Folders, NEW m \in Mails, NEW withImg \in BOOLEAN,
         NEW e, e = Render(d, f, m, withImg)
  PROVE  /\ e \in DetailsType
         /\ e.panel # None /\ e.panel.by = f /\ e.panel.mail = m
         /\ e.panel.images => withImg
         /\ e.warning # None =>
              ~e.panel.images /\ e.warning.by = f /\ e.warning.mail = m /\ f \in e.warners
<1> DEFINE html == "text/html" \in Types[m]
           body == GetContent(m, IF html THEN "text/html" ELSE "text/plain")
           shown == html /\ withImg
           warn == html /\ ~withImg
           panel == [by |-> f, mail |-> m, images |-> shown, body |-> body]
           warning == [by |-> f, mail |-> m, open |-> TRUE]
<1>1. Types[m] \subseteq ContentTypes
  BY MailDetailsAssumption
<1>2. body \in ContentTypes \cup {"sorry"}
  BY <1>1 DEF GetContent, ContentTypes
<1>3. shown \in BOOLEAN /\ warn \in BOOLEAN /\ (shown => withImg) /\ (warn => ~shown)
  OBVIOUS
<1>4. e = [panel |-> panel, warning |-> IF warn THEN warning ELSE d.warning,
           warners |-> IF warn THEN d.warners \cup {f} ELSE d.warners]
  BY DEF Render
<1> HIDE DEF html, body, shown, warn
<1>5. panel \in Panels /\ panel.by = f /\ panel.mail = m /\ panel.images = shown
  BY <1>2, <1>3 DEF Panels
<1>6. panel # None
  BY <1>5, MailDetailsAssumption
<1>7. warning \in Warnings /\ warning.by = f /\ warning.mail = m
  BY DEF Warnings
<1>8. e.panel = panel /\ e.warning = (IF warn THEN warning ELSE d.warning)
      /\ e.warners = (IF warn THEN d.warners \cup {f} ELSE d.warners)
  BY <1>4
<1> HIDE DEF panel, warning
<1>9. d.warners \in SUBSET Folders
  BY DEF DetailsType
<1>10. e \in DetailsType
  BY <1>4, <1>5, <1>7, <1>9 DEF DetailsType
<1>11. e.panel.images => withImg
  BY <1>3, <1>5, <1>8
<1>12. ASSUME e.warning # None
       PROVE  ~e.panel.images /\ e.warning.by = f /\ e.warning.mail = m /\ f \in e.warners
  <2>1. CASE warn
    BY <1>3, <1>5, <1>7, <1>8, <2>1
  <2>2. CASE ~warn
    BY <1>8, <1>12, <2>2
  <2> QED
    BY <2>1, <2>2
<1> QED
  BY <1>5, <1>6, <1>8, <1>10, <1>11, <1>12

\* The panel after a step: empty, or the mail that folder object f renders.
PanelShows(f, m) ==
  /\ details \in DetailsType /\ WarningServesPanel
  /\ details.panel # None /\ details.panel.by = f /\ details.panel.mail = m
PanelEmpty == details \in DetailsType /\ details.panel = None /\ WarningServesPanel

LEMMA CleanEmpties ==
  ASSUME details \in DetailsType, NEW f \in Folders, details' = Clean(details, f)
  PROVE  PanelEmpty'
BY CleanType DEF PanelEmpty, WarningServesPanel

LEMMA RenderServes ==
  ASSUME details \in DetailsType, NEW f \in Folders, NEW m \in Mails, NEW withImg \in BOOLEAN,
         details' = Render(Clean(details, f), f, m, withImg), withImg => m \in images'
  PROVE  PanelShows(f, m)'
<1>1. Clean(details, f) \in DetailsType /\ Clean(details, f).warning = None
  BY CleanType
<1>2. /\ details' \in DetailsType
      /\ details'.panel # None /\ details'.panel.by = f /\ details'.panel.mail = m
      /\ details'.panel.images => withImg
      /\ details'.warning # None =>
           /\ ~details'.panel.images /\ details'.warning.by = f
           /\ details'.warning.mail = m /\ f \in details'.warners
  BY <1>1, RenderType
<1> QED
  BY <1>2 DEF PanelShows, WarningServesPanel
-----------------------------------------------------------------------------
(* What showing a mail m does to the page, by folder object f; bar is what *)
(* the buttons were bound to before.                                       *)
PageType ==
  /\ active \in [Folders -> Mails \cup {None}] /\ details \in DetailsType
  /\ asking \subseteq Folders \X Mails /\ rows \subseteq Folders \X Mails
  /\ lit \subseteq Mails /\ strays \subseteq Mails
  /\ bound = None \/ (bound.by \in Folders /\ bound.mail \in Mails)
PageOk == PageType /\ BoundOk /\ WarningServesPanel /\ ActsOnPanel /\ ShownIsLit /\ NotInPage

LEMMA PageNow == IInv => PageOk
BY DEF IInv, PageOk, PageType, TypeOK, DetailsTypeOK, DetailsType

Shown(f, m, bar) ==
  /\ active' \in [Folders -> Mails \cup {None}]
  /\ \A g \in Folders : active'[g] = active[g] \/ active'[g] = m
  /\ bound' = bar \/ (bound' = Bind(f, m) /\ BarServes(f))
  /\ \/ PanelEmpty'
     \/ PanelShows(f, m)' /\ (f = selected' => active'[f] = m /\ bound' = Bind(f, m))

LEMMA PresentShown ==
  ASSUME PageType, NEW f \in Folders, NEW m \in Mails, NEW bar, Present(f, m, bar), images' = images
  PROVE  Shown(f, m, bar) /\ PanelShows(f, m)'
<1>1. PanelShows(f, m)'
  <2>1. (m \in images) \in BOOLEAN /\ ((m \in images) => m \in images')
    OBVIOUS
  <2>2. details' = Render(Clean(details, f), f, m, m \in images)
    BY DEF Present
  <2> DEFINE img == m \in images
  <2>3. img \in BOOLEAN /\ (img => m \in images') /\ details' = Render(Clean(details, f), f, m, img)
    BY <2>1, <2>2
  <2> HIDE DEF img
  <2> QED
    BY <2>3, RenderServes DEF PageType
<1>2. f = selected' => BarServes(f)
  BY DEF BarServes
<1>3. CASE BarServes(f)
  <2>1. bound' = Bind(f, m) /\ active' = [active EXCEPT ![f] = m]
    BY <1>3 DEF Present
  <2> QED
    BY <1>1, <1>3, <2>1 DEF Shown, PageType
<1>4. CASE ~BarServes(f)
  <2>1. bound' = bar /\ active' = active
    BY <1>4 DEF Present
  <2> QED
    BY <1>1, <1>2, <1>4, <2>1 DEF Shown, PageType
<1> QED
  BY <1>3, <1>4

LEMMA ShowMailShown ==
  ASSUME PageType, NEW f \in Folders, NEW m \in Mails, NEW bar, ShowMail(f, m, bar), images' = images
  PROVE  /\ Shown(f, m, bar) /\ (PanelEmpty' \/ m \in loaded)
         /\ asking' \subseteq asking \cup {<<f, m>>}
<1>1. CASE m \in loaded
  <2>1. Present(f, m, bar) /\ asking' = asking
    BY <1>1 DEF ShowMail
  <2> QED
    BY <1>1, <2>1, PresentShown
<1>2. CASE m \notin loaded
  <2>1. /\ asking' = asking \cup {<<f, m>>} /\ details' = Clean(details, f)
        /\ active' = [active EXCEPT ![f] = m] /\ bound' = bar
    BY <1>2 DEF ShowMail
  <2>2. PanelEmpty'
    BY <2>1, CleanEmpties DEF PageType
  <2> QED
    BY <2>1, <2>2 DEF Shown, PageType
<1> QED
  BY <1>1, <1>2

\* A known mail, or none, is all that a step may bring into the page.
LEMMA KnownAlready ==
  ASSUME TypeOK, NotInPage
  PROVE  /\ \A f \in Folders : active[f] # None => active[f] \in Known
         /\ \A f \in Folders, m \in Mails : <<f, m>> \in rows \cup asking => m \in Known
         /\ bound # None => bound.mail \in Known /\ bound.by \in Folders
         /\ details.panel # None => details.panel.mail \in Known
<1>1. \A m \in Mails : InPage(m) => m \in Known
  BY DEF NotInPage
<1>2. \A f \in Folders : active[f] # None => active[f] \in Mails
  BY DEF TypeOK
<1>3. bound # None => bound.mail \in Mails /\ bound.by \in Folders
  BY DEF TypeOK
<1>4. details.panel # None => details.panel.mail \in Mails
  BY DEF TypeOK, DetailsTypeOK, Panels
<1> QED
  BY <1>1, <1>2, <1>3, <1>4 DEF InPage

LEMMA StaysOutOfPage ==
  ASSUME TypeOK, NotInPage, arrived' = arrived,
         \A f \in Folders : active'[f] = active[f] \/ active'[f] = None \/ active'[f] \in Known,
         \A f \in Folders, m \in Mails : <<f, m>> \in rows' => <<f, m>> \in rows \/ m \in Known,
         \A f \in Folders, m \in Mails : <<f, m>> \in asking' => <<f, m>> \in asking \/ m \in Known,
         bound' = None \/ bound' = bound \/ bound'.mail \in Known,
         details'.panel = None \/ details'.panel = details.panel \/ details'.panel.mail \in Known
  PROVE  NotInPage'
<1> SUFFICES ASSUME NEW m \in Mails, m \notin Known PROVE ~InPage(m)'
  BY DEF NotInPage, Known
<1>1. ~InPage(m)
  BY DEF NotInPage
<1>2. m # None
  BY MailDetailsAssumption
<1>3. \A f \in Folders : active'[f] # m
  BY <1>1, <1>2 DEF InPage
<1>4. \A f \in Folders : <<f, m>> \notin rows' /\ <<f, m>> \notin asking'
  BY <1>1 DEF InPage
<1>5. ~(bound' # None /\ bound'.mail = m)
  BY <1>1 DEF InPage
<1>6. ~(details'.panel # None /\ details'.panel.mail = m)
  BY <1>1 DEF InPage
<1> QED
  BY <1>3, <1>4, <1>5, <1>6 DEF InPage

LEMMA ShownPage ==
  ASSUME IInv, NEW f \in Folders, NEW m \in Known, NEW bar \in {None, bound}, Shown(f, m, bar),
         bar = None \/ selected' = selected, arrived' = arrived,
         asking' \subseteq asking \cup {<<f, m>>},
         rows' \subseteq Folders \X Mails,
         \A g \in Folders, n \in Mails : <<g, n>> \in rows' => <<g, n>> \in rows \/ n \in Known,
         lit' \subseteq Mails, strays' \subseteq Mails,
         ~PanelEmpty' /\ f = selected' /\ <<f, m>> \in rows' => m \in lit'
  PROVE  PageOk'
<1>1. TypeOK /\ PageType /\ BoundOk /\ NotInPage /\ m \in Mails
  BY PageNow, KnownType DEF IInv, PageOk
<1>2. Bind(f, m).by = f /\ Bind(f, m).mail = m /\ Bind(f, m).on \subseteq Buttons(f)
  BY DEF Bind, Enabled
<1>3. details' \in DetailsType /\ WarningServesPanel'
  BY DEF Shown, PanelEmpty, PanelShows
<1>4. PageType'
  <2>1. bound' = None \/ (bound'.by \in Folders /\ bound'.mail \in Mails)
    BY <1>1, <1>2 DEF Shown, PageType
  <2>2. asking' \subseteq Folders \X Mails
    BY <1>1 DEF PageType
  <2> QED
    BY <1>3, <2>1, <2>2 DEF PageType, Shown
<1>5. BoundOk'
  <2>1. CASE bound' = bar
    BY <1>1, <2>1 DEF BoundOk
  <2>2. CASE bound' = Bind(f, m) /\ BarServes(f)
    BY <1>2, <2>2 DEF BoundOk, BarServes
  <2> QED
    BY <2>1, <2>2 DEF Shown
<1>6. ActsOnPanel'
  <2>1. CASE PanelEmpty'
    BY <2>1 DEF PanelEmpty, ActsOnPanel
  <2>2. CASE PanelShows(f, m)' /\ (f = selected' => active'[f] = m /\ bound' = Bind(f, m))
    BY <1>2, <2>2 DEF PanelShows, ActsOnPanel
  <2> QED
    BY <2>1, <2>2 DEF Shown
<1>7. ShownIsLit'
  <2>1. CASE PanelEmpty'
    BY <2>1 DEF PanelEmpty, ShownIsLit
  <2>2. CASE PanelShows(f, m)' /\ ~PanelEmpty'
    BY <2>2 DEF PanelShows, ShownIsLit
  <2> QED
    BY <2>1, <2>2 DEF Shown
<1>8. NotInPage'
  <2>1. \A g \in Folders : active'[g] = active[g] \/ active'[g] = None \/ active'[g] \in Known
    BY DEF Shown
  <2>2. \A g \in Folders, n \in Mails : <<g, n>> \in asking' => <<g, n>> \in asking \/ n \in Known
    OBVIOUS
  <2>3. bound' = None \/ bound' = bound \/ bound'.mail \in Known
    BY <1>2 DEF Shown
  <2>4. details'.panel = None \/ details'.panel.mail \in Known
    BY DEF Shown, PanelEmpty, PanelShows
  <2> QED
    BY <1>1, <2>1, <2>2, <2>3, <2>4, StaysOutOfPage
<1> QED
  BY <1>3, <1>4, <1>5, <1>6, <1>7, <1>8 DEF PageOk
\* The message that there are no mails.
LEMMA EmptyPage ==
  ASSUME IInv, NEW f \in Folders, ShowEmptyFolderMsg(f), arrived' = arrived,
         active' \in [Folders -> Mails \cup {None}],
         \A g \in Folders : active'[g] = active[g] \/ active'[g] = None,
         asking' = asking, strays' \subseteq Mails
  PROVE  PageOk'
<1>1. TypeOK /\ PageType /\ NotInPage
  BY PageNow DEF IInv, PageOk
<1>2. rows' = {} /\ lit' = {} /\ bound' = None
  BY DEF ShowEmptyFolderMsg
<1>3. PanelEmpty'
  BY <1>1, CleanEmpties DEF ShowEmptyFolderMsg, PageType
<1>4. PageType'
  BY <1>1, <1>2, <1>3 DEF PageType, PanelEmpty
<1>5. BoundOk' /\ WarningServesPanel' /\ ActsOnPanel' /\ ShownIsLit'
  BY <1>2, <1>3 DEF BoundOk, PanelEmpty, ActsOnPanel, ShownIsLit
<1>6. NotInPage'
  BY <1>1, <1>2, <1>3, StaysOutOfPage DEF PanelEmpty
<1> QED
  BY <1>4, <1>5, <1>6 DEF PageOk

\* The selected folder is rendered, with some of its mails.
LEMMA RenderPage ==
  ASSUME IInv, NEW f \in Folders, f = selected', NEW mails \in SUBSET Tree(f),
         NEW bar \in {None, bound}, bar = None \/ selected' = selected,
         RenderContent(f, mails, bar), UNCHANGED <<loaded, images, arrived>>
  PROVE  PageOk' /\ rows' = {<<f, n>> : n \in mails} /\ strays' = {}
<1>1. TypeOK /\ PageType /\ NotInPage /\ mails \subseteq Known /\ mails \in SUBSET Mails
  BY PageNow, KnownType DEF IInv, PageOk
<1>2. strays' = {}
  BY DEF RenderContent
<1>3. CASE mails = {}
  <2>1. ShowEmptyFolderMsg(f) /\ active' = active /\ asking' = asking
    BY <1>3 DEF RenderContent
  <2>2. PageOk'
    BY <1>1, <1>2, <2>1, EmptyPage DEF PageType
  <2> QED
    BY <1>2, <1>3, <2>1, <2>2 DEF ShowEmptyFolderMsg
<1>4. CASE mails # {}
  <2>1. Max(mails) \in mails
    BY <1>1, <1>4, MaxIsIn
  <2>2. PICK m \in mails : m = Max(mails)
    BY <2>1
  <2>3. /\ rows' = {<<f, n>> : n \in mails} /\ ShowMail(f, m, bar)
        /\ lit' = IF m \in loaded THEN {m} ELSE {}
    BY <1>4, <2>2 DEF RenderContent
  <2>4. /\ Shown(f, m, bar) /\ (PanelEmpty' \/ m \in loaded)
        /\ asking' \subseteq asking \cup {<<f, m>>}
    BY <1>1, <2>3, ShowMailShown
  <2>5. rows' \subseteq Folders \X Mails
    BY <1>1, <2>3
  <2>6. \A g \in Folders, n \in Mails : <<g, n>> \in rows' => <<g, n>> \in rows \/ n \in Known
    BY <1>1, <2>3
  <2>7. lit' \subseteq Mails /\ (~PanelEmpty' => m \in lit')
    BY <1>1, <2>3, <2>4
  <2>8. m \in Known
    BY <1>1
  <2>9. PageOk'
    BY <1>2, <2>4, <2>5, <2>6, <2>7, <2>8, ShownPage
  <2> QED
    BY <1>2, <2>3, <2>9
<1> QED
  BY <1>3, <1>4

\* A mail is removed from the list, and the next one shown; or the list is emptied.
LEMMA RemovePage ==
  ASSUME IInv, NEW f \in Folders, NEW m \in Mails, NEW kept \in SUBSET Mails,
         SwitchAndRemove(f, m, kept), UNCHANGED <<selected, loaded, images, arrived>>
  PROVE  /\ PageOk' /\ rows' \subseteq {r \in rows : r[2] # m} /\ strays \cup kept \subseteq strays'
         /\ \/ m \in Tree(f) /\ rows' = {r \in rows : r[2] # m}
            \/ f = selected /\ m \in Tree(f) /\ Cardinality(Tree(f)) <= 1
            \/ strays' = Mails
<1> DEFINE other == OtherItem(f, m)
<1>1. TypeOK /\ PageType /\ NotInPage /\ ~OtherItemThrows(f, m)
  BY PageNow DEF IInv, PageOk, SwitchAndRemove
<1>2. CASE other = None
  <2>1. /\ ShowEmptyFolderMsg(f) /\ active' = active /\ asking' = asking
        /\ strays' = IF f = selected /\ m \in Tree(f) THEN strays \cup kept ELSE Mails
    BY <1>2 DEF SwitchAndRemove
  <2>2. strays' \subseteq Mails /\ strays \cup kept \subseteq strays'
    BY <1>1, <2>1 DEF PageType
  <2>3. PageOk'
    BY <1>1, <2>1, <2>2, EmptyPage DEF PageType
  <2>4. rows' = {}
    BY <2>1 DEF ShowEmptyFolderMsg
  <2>5. ASSUME f = selected, m \in Tree(f) PROVE Cardinality(Tree(f)) <= 1
    <3>1. Cardinality(Tree(f)) \in Nat
      BY <1>1, KnownType, CardType
    <3>2. ~(Cardinality(Tree(f)) > 1 /\ NextItem(f, m, TRUE) = None)
      BY <1>1, <2>5 DEF OtherItemThrows
    <3>3. Cardinality(Tree(f)) <= 1 \/ NextItem(f, m, TRUE) = None
      BY <1>2 DEF OtherItem
    <3>4. CASE NextItem(f, m, TRUE) = None
      <4> DEFINE size == Cardinality(Tree(f))
      <4>1. ~(size > 1) /\ size \in Nat
        BY <3>1, <3>2, <3>4
      <4> HIDE DEF size
      <4>2. size <= 1
        BY <4>1
      <4> QED
        BY <4>2 DEF size
    <3> QED
      BY <3>3, <3>4
  <2> QED
    BY <2>1, <2>2, <2>3, <2>4, <2>5
<1>3. CASE other # None
  <2>1. /\ other \in Known /\ other # m /\ m \in Tree(f)
    BY <1>1, <1>3, OtherItemIsListed
  <2>2. /\ ShowMail(f, other, bound) /\ rows' = {r \in rows : r[2] # m}
        /\ lit' = LitBy(f, other, lit) \ Row(m) /\ strays' = strays \cup kept
    BY <1>3 DEF SwitchAndRemove
  <2> HIDE DEF other
  <2>3. other \in Mails
    BY <1>1, <2>1, KnownType
  <2>4. /\ Shown(f, other, bound) /\ (PanelEmpty' \/ other \in loaded)
        /\ asking' \subseteq asking \cup {<<f, other>>}
    BY <1>1, <2>2, <2>3, ShowMailShown
  <2>5. lit' \subseteq Mails
    BY <1>1, <2>2, <2>3 DEF LitBy, Row, PageType
  <2>6. ASSUME ~PanelEmpty', <<f, other>> \in rows' PROVE other \in lit'
    <3>1. other \in loaded /\ <<f, other>> \in rows
      BY <2>2, <2>4, <2>6
    <3>2. other \in {r[2] : r \in rows}
      <4>1. <<f, other>>[2] = other
        OBVIOUS
      <4> QED
        BY <3>1, <4>1
    <3>3. other \in LitBy(f, other, lit)
      BY <3>1, <3>2 DEF LitBy, Row
    <3> QED
      BY <2>1, <2>2, <3>3 DEF Row
  <2>7. rows' \subseteq rows /\ rows' \subseteq Folders \X Mails /\ strays' \subseteq Mails
    BY <1>1, <2>2 DEF PageType
  <2>8. PageOk'
    BY <2>1, <2>4, <2>5, <2>6, <2>7, ShownPage
  <2> QED
    BY <2>1, <2>2, <2>8
<1> QED
  BY <1>2, <1>3
-----------------------------------------------------------------------------
(* The mails, and the parts of the invariant put together. *)
MailsType ==
  /\ folder \in [Mails -> Folders] /\ prev \in [Mails -> Folders]
  /\ deleted \subseteq Mails /\ arrived \subseteq NewMails
  /\ moving \subseteq Mails \X Folders \X Nat /\ moves \in 0 .. MaxMoves
BarsType ==
  /\ selected \in Folders /\ loaded \subseteq Mails /\ images \subseteq Mails
  /\ term \in [Folders -> DOMAIN Matches] /\ typed \in DOMAIN Matches /\ canSearch \in BOOLEAN

LEMMA PartsNow == IInv => PageOk /\ MailsType /\ BarsType /\ NotHandled /\ NoGhostRow
BY PageNow DEF IInv, TypeOK, DetailsTypeOK, MailsType, BarsType

LEMMA PartsThen ==
  ASSUME PageOk', MailsType', BarsType', NotHandled', NoGhostRow'
  PROVE  IInv'
<1>1. TypeOK'
  BY DEF PageOk, PageType, MailsType, BarsType, TypeOK, DetailsTypeOK, DetailsType
<1> QED
  BY <1>1 DEF IInv, PageOk

\* A mail is moved by the client.
LEMMA MoveMailMoves ==
  ASSUME IInv, NEW m \in Known, NEW into \in Folders, MoveMail(m, into), arrived' = arrived,
         deleted' = deleted
  PROVE  /\ MailsType' /\ NotHandled' /\ folder'[m] = into
         /\ \A x \in Mails : x # m => folder'[x] = folder[x]
<1>1. MailsType /\ NotHandled /\ m \in Mails
  BY PartsNow, KnownType DEF IInv
<1>2. CASE folder[m] = into
  <2>1. UNCHANGED <<folder, prev, moving, moves>>
    BY <1>2 DEF MoveMail
  <2> QED
    BY <1>1, <1>2, <2>1 DEF MailsType, NotHandled, Handled, Known
<1>3. CASE folder[m] # into
  <2>1. /\ folder' = [folder EXCEPT ![m] = into] /\ prev' = [prev EXCEPT ![m] = folder[m]]
        /\ moving' = moving \cup {<<m, prev[m], moves>>}
        /\ moves < MaxMoves /\ moves' = moves + 1
    BY <1>3 DEF MoveMail
  <2>2. moves' \in 0 .. MaxMoves /\ moves \in Nat
    <3>1. MaxMoves \in Nat
      BY MailListAssumption
    <3>2. moves \in 0 .. MaxMoves
      BY <1>1 DEF MailsType
    <3> QED
      BY <2>1, <3>1, <3>2
  <2>3. prev[m] \in Folders /\ folder[m] \in Folders
    BY <1>1 DEF MailsType
  <2>4. <<m, prev[m], moves>> \in Mails \X Folders \X Nat
    BY <1>1, <2>2, <2>3
  <2>5. MailsType'
    BY <1>1, <2>1, <2>2, <2>3, <2>4 DEF MailsType
  <2>6. folder'[m] = into /\ \A x \in Mails : x # m => folder'[x] = folder[x]
    BY <1>1, <2>1 DEF MailsType
  <2>7. NotHandled'
    <3> SUFFICES ASSUME NEW x \in Mails, x \notin Known
                 PROVE  ~Handled(x)' /\ folder'[x] = Start[x]
      BY DEF NotHandled, Known
    <3>1. ~Handled(x) /\ folder[x] = Start[x] /\ x # m
      BY <1>1 DEF NotHandled
    <3>2. \A move \in moving' : move \in moving \/ move[1] = m
      BY <2>1
    <3> QED
      BY <2>6, <3>1, <3>2 DEF Handled
  <2> QED
    BY <2>5, <2>6, <2>7
<1> QED
  BY <1>2, <1>3

\* The row of a mail that leaves its folder is gone, and the others are of mails
\* that nothing happened to.
LEMMA NoGhostLeft ==
  ASSUME IInv, NEW m \in Mails, rows' \subseteq {r \in rows : r[2] # m}, strays \subseteq strays',
         arrived' = arrived, \A x \in Mails : x # m => folder'[x] = folder[x],
         deleted' \subseteq deleted \cup {m}
  PROVE  NoGhostRow'
<1> SUFFICES ASSUME NEW r \in rows'
             PROVE  \/ r[2] \in strays' \cup {x \in arrived' : Start[x] = SPAM}
                    \/ r[2] \in NotDeleted(r[1])'
  BY DEF NoGhostRow
<1>1. r \in rows /\ r[2] # m
  OBVIOUS
<1>2. \/ r[2] \in strays \cup {x \in arrived : Start[x] = SPAM}
      \/ r[2] \in NotDeleted(r[1])
  BY <1>1 DEF IInv, NoGhostRow
<1>3. ASSUME r[2] \in NotDeleted(r[1]) PROVE r[2] \in NotDeleted(r[1])'
  <2>1. TypeOK
    BY DEF IInv
  <2>2. r[2] \in Mails
    BY <1>1, <2>1 DEF TypeOK
  <2> QED
    BY <1>1, <1>3, <2>2 DEF NotDeleted, Tree
<1> QED
  BY <1>2, <1>3

\* What happens to the page, not to the rows or the mails.
LEMMA MailsStay ==
  ASSUME IInv, UNCHANGED <<selected, loaded, images, mailVars, barVars>>
  PROVE  MailsType' /\ BarsType' /\ NotHandled'
<1>1. MailsType /\ BarsType /\ NotHandled
  BY PartsNow
<1> QED
  BY <1>1 DEF MailsType, BarsType, NotHandled, Handled, Known, mailVars, barVars

LEMMA RowsStay ==
  ASSUME IInv, UNCHANGED <<rows, folder, deleted, arrived>>, strays \subseteq strays'
  PROVE  NoGhostRow'
BY DEF IInv, NoGhostRow, NotDeleted, Tree

-----------------------------------------------------------------------------
LEMMA InitIInv == Init => IInv
<1> SUFFICES ASSUME Init PROVE IInv
  OBVIOUS
<1> DEFINE inbox == {m \in Mails \ NewMails : Start[m] = INBOX}
<1>1. inbox \in SUBSET Mails /\ inbox \subseteq Known
  BY DEF Known
<1>2. /\ selected = INBOX /\ folder = Start
      /\ prev = [m \in Mails |-> IF Start[m] = SPAM THEN INBOX ELSE Start[m]]
      /\ deleted = {} /\ arrived = {} /\ loaded = {} /\ moving = {} /\ moves = 0 /\ images = {}
      /\ active = [f \in Folders |-> IF f = INBOX /\ inbox # {} THEN Max(inbox) ELSE None]
      /\ asking = IF inbox = {} THEN {} ELSE {<<INBOX, Max(inbox)>>}
      /\ term = [f \in Folders |-> ""] /\ typed = "" /\ canSearch = (inbox # {})
      /\ rows = {<<INBOX, m>> : m \in inbox} /\ lit = {}
      /\ details = NoDetails /\ bound = None /\ strays = {}
  BY DEF Init
<1>3. \A m \in inbox : Start[m] = INBOX /\ m \in Mails /\ m \in Known
  BY <1>1
<1> HIDE DEF inbox
<1>4. inbox # {} => Max(inbox) \in inbox
  BY <1>1, MaxIsIn
<1>5. INBOX \in Folders
  BY MailListAssumption
<1>6. details \in DetailsType /\ details.panel = None /\ details.warning = None
  BY <1>2 DEF NoDetails, DetailsType
<1>7. PageType
  <2>1. active \in [Folders -> Mails \cup {None}]
    BY <1>2, <1>3, <1>4
  <2>2. asking \subseteq Folders \X Mails
    <3>1. CASE inbox = {}
      BY <1>2, <3>1
    <3>2. CASE inbox # {}
      <4>1. Max(inbox) \in Mails
        BY <1>3, <1>4, <3>2
      <4>2. asking = {<<INBOX, Max(inbox)>>}
        BY <1>2, <3>2
      <4> QED
        BY <1>5, <4>1, <4>2
    <3> QED
      BY <3>1, <3>2
  <2>3. rows \subseteq Folders \X Mails
    <3>1. rows = {<<INBOX, m>> : m \in inbox}
      BY <1>2
    <3>2. \A m \in inbox : <<INBOX, m>> \in Folders \X Mails
      BY <1>3, <1>5
    <3> QED
      BY <3>1, <3>2
  <2> QED
    BY <1>2, <1>6, <2>1, <2>2, <2>3 DEF PageType
<1>8. NotInPage
  <2> SUFFICES ASSUME NEW m \in Mails, m \notin Known PROVE ~InPage(m)
    BY DEF NotInPage
  <2>1. m # None
    BY MailDetailsAssumption
  <2>2. \A f \in Folders : active[f] # m
    BY <1>2, <1>3, <1>4, <2>1
  <2>3. \A f \in Folders : <<f, m>> \notin rows /\ <<f, m>> \notin asking
    BY <1>2, <1>3, <1>4
  <2> QED
    BY <1>2, <1>6, <2>2, <2>3 DEF InPage
<1>9. BoundOk /\ WarningServesPanel /\ ActsOnPanel /\ ShownIsLit
  BY <1>2, <1>6 DEF BoundOk, WarningServesPanel, ActsOnPanel, ShownIsLit
<1>10. MailsType
  <2>1. Start \in [Mails -> Folders] /\ 0 \in 0 .. MaxMoves
    <3>1. MaxMoves \in Nat
      BY MailListAssumption
    <3>2. 0 \in 0 .. MaxMoves
      BY <3>1
    <3> QED
      BY <3>2, MailListAssumption
  <2>2. prev \in [Mails -> Folders]
    <3>1. prev = [m \in Mails |-> IF Start[m] = SPAM THEN INBOX ELSE Start[m]]
      BY <1>2
    <3> QED
      BY <1>5, <2>1, <3>1
  <2> QED
    BY <1>2, <2>1, <2>2 DEF MailsType
<1>11. canSearch \in BOOLEAN
  BY <1>2
<1>12. BarsType
  BY <1>2, <1>5, <1>11, MailListAssumption DEF BarsType
<1>13. NotHandled
  BY <1>2 DEF NotHandled, Handled
<1>14. NoGhostRow
  <2> SUFFICES ASSUME NEW m \in inbox
               PROVE  <<INBOX, m>>[2] \in NotDeleted(<<INBOX, m>>[1])
    BY <1>2 DEF NoGhostRow
  <2>1. <<INBOX, m>>[2] = m /\ <<INBOX, m>>[1] = INBOX
    OBVIOUS
  <2>2. m \in NotDeleted(INBOX)
    BY <1>2, <1>3 DEF NotDeleted, Tree, Known
  <2> QED
    BY <2>1, <2>2
<1>15. TypeOK
  BY <1>7, <1>10, <1>12 DEF PageType, MailsType, BarsType, TypeOK, DetailsTypeOK, DetailsType
<1> QED
  BY <1>8, <1>9, <1>13, <1>14, <1>15 DEF IInv
-----------------------------------------------------------------------------
(* The user goes through the mails.                                        *)

\* Showing a mail that has a row lights the row.
LEMMA LightsRow ==
  ASSUME NEW f, NEW m, NEW before, m \in loaded, <<f, m>> \in rows
  PROVE  m \in LitBy(f, m, before)
<1>1. <<f, m>>[2] = m
  OBVIOUS
<1>2. m \in {r[2] : r \in rows}
  BY <1>1
<1> QED
  BY <1>2 DEF LitBy, Row

LEMMA LitType ==
  ASSUME NEW f, NEW m \in Mails, NEW before \in SUBSET Mails
  PROVE  LitBy(f, m, before) \in SUBSET Mails
BY DEF LitBy, Row

\* A click, or an arrow key: a known mail is shown, and the list is as it was.
LEMMA WalkStep ==
  ASSUME IInv, NEW f \in Folders, NEW m \in Known, NEW before \in SUBSET Mails,
         UNCHANGED <<selected, loaded, images, rows, strays, mailVars, barVars>>,
         ShowMail(f, m, bound), lit' = LitBy(f, m, before)
  PROVE  IInv'
<1>1. PageType /\ MailsType' /\ BarsType' /\ NotHandled' /\ NoGhostRow' /\ m \in Mails
  BY PageNow, MailsStay, RowsStay, KnownType DEF IInv, PageOk, mailVars
<1>2. /\ Shown(f, m, bound) /\ (PanelEmpty' \/ m \in loaded)
      /\ asking' \subseteq asking \cup {<<f, m>>}
  BY <1>1, ShowMailShown
<1>3. lit' \subseteq Mails
  BY <1>1, LitType
<1>4. ~PanelEmpty' /\ <<f, m>> \in rows' => m \in lit'
  BY <1>2, LightsRow
<1>5. rows' \subseteq Folders \X Mails /\ strays' \subseteq Mails /\ arrived' = arrived
  BY <1>1 DEF PageType, mailVars
<1>6. PageOk'
  BY <1>2, <1>3, <1>4, <1>5, ShownPage
<1> QED
  BY <1>1, <1>6, PartsThen

LEMMA ClickStep == ASSUME IInv, NEW f \in Folders, NEW m \in Mails, Click(f, m) PROVE IInv'
<1>1. /\ <<f, m>> \in rows
      /\ UNCHANGED <<selected, loaded, images, rows, strays, mailVars, barVars>>
      /\ ShowMail(f, m, bound)
      /\ lit' = LitBy(f, m, lit \ Row(active[f]))
  BY DEF Click
<1>2. m \in Known
  BY <1>1, KnownAlready DEF IInv
<1>3. lit \ Row(active[f]) \in SUBSET Mails
  BY DEF IInv, TypeOK
<1> QED
  BY <1>1, <1>2, <1>3, WalkStep

LEMMA ArrowKeyStep == ASSUME IInv, NEW before \in BOOLEAN, ArrowKey(before) PROVE IInv'
<1> DEFINE next == NextItem(selected, active[selected], before)
<1>1. /\ next # None
      /\ UNCHANGED <<selected, loaded, images, rows, strays, mailVars, barVars>>
      /\ ShowMail(selected, next, bound)
      /\ lit' = LitBy(selected, next, lit \ Row(active[selected]))
  BY DEF ArrowKey
<1>2. selected \in Folders /\ TypeOK
  BY DEF IInv, TypeOK
<1>3. next \in Known
  BY <1>1, <1>2, NextItemIsListed
<1>4. lit \ Row(active[selected]) \in SUBSET Mails
  BY DEF IInv, TypeOK
<1> HIDE DEF next
<1> QED
  BY <1>1, <1>2, <1>3, <1>4, WalkStep

\* The selected folder is rendered with mails that are not deleted.
LEMMA RenderedRows ==
  ASSUME IInv, NEW f, NEW mails \in SUBSET NotDeleted(f), rows' = {<<f, n>> : n \in mails},
         UNCHANGED <<folder, deleted, arrived>>
  PROVE  NoGhostRow'
<1> SUFFICES ASSUME NEW n \in mails
             PROVE  <<f, n>>[2] \in NotDeleted(<<f, n>>[1])'
  BY DEF NoGhostRow
<1>1. <<f, n>>[2] = n /\ <<f, n>>[1] = f
  OBVIOUS
<1>2. n \in NotDeleted(f)'
  BY DEF NotDeleted, Tree
<1> QED
  BY <1>1, <1>2

LEMMA SwitchStep == ASSUME IInv, NEW f \in Folders, SwitchTo(f) PROVE IInv'
<1>1. /\ f # selected /\ selected' = f
      /\ typed' = "" /\ canSearch' = TRUE /\ term' = term
      /\ UNCHANGED <<loaded, images, mailVars>>
      /\ RenderContent(f, Filtered(f), None)
  BY DEF SwitchTo
<1>2. Filtered(f) \in SUBSET NotDeleted(f) /\ Filtered(f) \in SUBSET Tree(f)
  BY DEF Filtered, NotDeleted
<1>3. UNCHANGED <<loaded, images, arrived, folder, deleted>>
  BY <1>1 DEF mailVars
<1>4. PageOk' /\ rows' = {<<f, n>> : n \in Filtered(f)}
  BY <1>1, <1>2, <1>3, RenderPage
<1>5. MailsType' /\ NotHandled'
  BY <1>1, PartsNow DEF MailsType, NotHandled, Handled, Known, mailVars
<1>6. BarsType'
  BY <1>1, PartsNow, MailListAssumption DEF BarsType
<1>7. NoGhostRow'
  BY <1>2, <1>3, <1>4, RenderedRows
<1> QED
  BY <1>4, <1>5, <1>6, <1>7, PartsThen

LEMMA SearchStep == ASSUME IInv, NEW t \in DOMAIN Matches, Search(t) PROVE IInv'
<1> DEFINE mails == NotDeleted(selected) \cap Matches[t]
<1>1. /\ typed' = t /\ term' = [term EXCEPT ![selected] = t]
      /\ UNCHANGED <<selected, loaded, images, mailVars, canSearch>>
      /\ RenderContent(selected, mails, bound)
  BY DEF Search
<1>2. mails \in SUBSET NotDeleted(selected) /\ mails \in SUBSET Tree(selected)
  BY DEF NotDeleted
<1>3. UNCHANGED <<loaded, images, arrived, folder, deleted>> /\ selected \in Folders
  BY <1>1 DEF mailVars, IInv, TypeOK
<1> HIDE DEF mails
<1>4. PageOk' /\ rows' = {<<selected, n>> : n \in mails}
  BY <1>1, <1>2, <1>3, RenderPage
<1>5. MailsType' /\ NotHandled'
  BY <1>1, PartsNow DEF MailsType, NotHandled, Handled, Known, mailVars
<1>6. BarsType'
  BY <1>1, PartsNow DEF BarsType
<1>7. NoGhostRow'
  BY <1>2, <1>3, <1>4, RenderedRows
<1> QED
  BY <1>4, <1>5, <1>6, <1>7, PartsThen
-----------------------------------------------------------------------------
(* The user removes mails.                                                 *)

LEMMA TrashIsFolder == TRASH \in Folders /\ INBOX \in Folders
BY MailListAssumption

LEMMA SameBars ==
  ASSUME IInv, UNCHANGED <<selected, loaded, images, term, typed>>, canSearch' \in BOOLEAN
  PROVE  BarsType'
BY PartsNow DEF BarsType

\* Both buttons act on what the control bar is bound to.
LEMMA ButtonStep ==
  ASSUME IInv, bound # None, NEW into \in Folders, NEW kept \in SUBSET Mails,
         UNCHANGED <<selected, loaded, images, deleted, arrived, barVars>>,
         SwitchAndRemove(bound.by, bound.mail, kept), MoveMail(bound.mail, into)
  PROVE  IInv'
<1>1. bound.by \in Folders /\ bound.mail \in Known
  BY KnownAlready DEF IInv
<1>2. PICK f \in Folders, m \in Known : f = bound.by /\ m = bound.mail
  BY <1>1
<1>3. SwitchAndRemove(f, m, kept) /\ MoveMail(m, into) /\ m \in Mails
  BY <1>2, KnownType DEF IInv
<1>4. PageOk' /\ rows' \subseteq {r \in rows : r[2] # m} /\ strays \subseteq strays'
  BY <1>3, RemovePage
<1>5. MailsType' /\ NotHandled' /\ \A x \in Mails : x # m => folder'[x] = folder[x]
  BY <1>3, MoveMailMoves
<1>6. NoGhostRow'
  BY <1>3, <1>4, <1>5, NoGhostLeft
<1>7. canSearch' \in BOOLEAN /\ UNCHANGED <<term, typed>>
  BY DEF barVars, IInv, TypeOK
<1>8. BarsType'
  BY <1>7, SameBars
<1> QED
  BY <1>4, <1>5, <1>6, <1>8, PartsThen

LEMMA DeleteButtonStep == ASSUME IInv, DeleteButton PROVE IInv'
<1>1. {} \in SUBSET Mails
  OBVIOUS
<1> QED
  BY <1>1, ButtonStep, TrashIsFolder DEF DeleteButton

LEMMA RestoreButtonStep == ASSUME IInv, RestoreButton PROVE IInv'
<1>1. bound # None
  BY DEF RestoreButton
<1>2. prev[bound.mail] \in Folders /\ bound.mail \in Mails
  BY <1>1 DEF IInv, TypeOK
<1>3. (IF prev[bound.mail] = folder[bound.mail] THEN {bound.mail} ELSE {}) \in SUBSET Mails
  BY <1>2
<1> QED
  BY <1>1, <1>2, <1>3, ButtonStep DEF RestoreButton

LEMMA DeleteKeyStep == ASSUME IInv, DeleteKey PROVE IInv'
<1> DEFINE f == selected
           m == active[f]
<1>1. /\ m # None
      /\ UNCHANGED <<selected, loaded, images, arrived, term, typed>>
      /\ SwitchAndRemove(f, m, {})
      /\ IF f = TRASH THEN deleted' = deleted \cup {m} /\ UNCHANGED <<folder, prev, moving, moves>>
                      ELSE deleted' = deleted /\ MoveMail(m, TRASH)
  BY DEF DeleteKey
<1>2. f \in Folders /\ m \in Known /\ m \in Mails
  <2>1. f \in Folders
    BY DEF IInv, TypeOK
  <2>2. m \in Known
    BY <1>1, <2>1, KnownAlready DEF IInv
  <2> QED
    BY <2>1, <2>2, KnownType DEF IInv
<1>3. canSearch' \in BOOLEAN
  BY DEF DeleteKey
<1> HIDE DEF f, m
<1>4. PageOk' /\ rows' \subseteq {r \in rows : r[2] # m} /\ strays \subseteq strays'
  BY <1>1, <1>2, RemovePage
<1>5. MailsType' /\ NotHandled' /\ (\A x \in Mails : x # m => folder'[x] = folder[x])
      /\ deleted' \subseteq deleted \cup {m}
  <2>1. CASE f = TRASH
    <3>1. deleted' = deleted \cup {m} /\ UNCHANGED <<folder, prev, moving, moves, arrived>>
      BY <1>1, <2>1
    <3> QED
      BY <1>2, <3>1, PartsNow DEF MailsType, NotHandled, Handled, Known
  <2>2. CASE f # TRASH
    <3>1. deleted' = deleted /\ MoveMail(m, TRASH) /\ arrived' = arrived
      BY <1>1, <2>2
    <3> QED
      BY <1>2, <3>1, MoveMailMoves, TrashIsFolder
  <2> QED
    BY <2>1, <2>2
<1>6. NoGhostRow'
  BY <1>1, <1>2, <1>4, <1>5, NoGhostLeft
<1>7. BarsType'
  BY <1>1, <1>3, SameBars
<1> QED
  BY <1>4, <1>5, <1>6, <1>7, PartsThen

LEMMA EmptyTrashStep == ASSUME IInv, EmptyTrash PROVE IInv'
<1>1. /\ ShowEmptyFolderMsg(TRASH)
      /\ deleted' = deleted \cup Tree(TRASH)
      /\ active' = [active EXCEPT ![TRASH] = None]
      /\ UNCHANGED <<selected, loaded, images, folder, prev, moving, moves, arrived, asking,
                     strays, barVars>>
  BY DEF EmptyTrash
<1>2. Tree(TRASH) \subseteq Known /\ Known \in SUBSET Mails
  BY KnownType, TrashIsFolder DEF IInv
<1>3. PageOk'
  <2>1. active \in [Folders -> Mails \cup {None}] /\ strays \subseteq Mails
    BY DEF IInv, TypeOK
  <2>2. active' \in [Folders -> Mails \cup {None}]
        /\ \A g \in Folders : active'[g] = active[g] \/ active'[g] = None
    BY <1>1, <2>1
  <2> QED
    BY <1>1, <2>1, <2>2, EmptyPage, TrashIsFolder
<1>4. MailsType' /\ NotHandled'
  BY <1>1, <1>2, PartsNow DEF MailsType, NotHandled, Handled, Known
<1>5. canSearch' \in BOOLEAN /\ UNCHANGED <<term, typed>>
  BY <1>1 DEF barVars, IInv, TypeOK
<1>6. BarsType'
  BY <1>1, <1>5, SameBars
<1>7. NoGhostRow'
  BY <1>1 DEF NoGhostRow, ShowEmptyFolderMsg
<1> QED
  BY <1>3, <1>4, <1>6, <1>7, PartsThen

-----------------------------------------------------------------------------
(* The buttons of the warning. *)
LEMMA PicturesStep == ASSUME IInv, Pictures PROVE IInv'
<1>1. /\ LoadPictures \/ CancelWarning
      /\ UNCHANGED <<selected, loaded, rows, lit, strays, mailVars, barVars, active, asking, bound>>
  BY DEF Pictures
<1>2. TypeOK /\ PageOk /\ details \in DetailsType /\ NotInPage
  BY PageNow DEF IInv, PageOk, PageType
<1>3. /\ details.panel # None /\ details.warning # None
      /\ details.warning.by = details.panel.by /\ details.warning.mail = details.panel.mail
      /\ details.warning.by \in details.warners /\ ~details.panel.images
  BY <1>1 DEF LoadPictures, CancelWarning, IInv, WarningServesPanel
<1>4. PICK f \in Folders, m \in Mails : f = details.warning.by /\ m = details.warning.mail
  BY <1>2, <1>3 DEF DetailsType, Warnings
<1>5. /\ PanelShows(f, m)' /\ images' \subseteq Mails
  <2>1. CASE LoadPictures
    <3>1. images' = images \cup {m} /\ details' = Render(Clean(details, f), f, m, TRUE)
      BY <1>4, <2>1 DEF LoadPictures
    <3>2. PanelShows(f, m)'
      BY <1>2, <3>1, RenderServes
    <3> QED
      BY <1>2, <3>1, <3>2 DEF TypeOK, DetailsTypeOK
  <2>2. CASE CancelWarning
    <3>1. details' = [details EXCEPT !.warning.open = FALSE] /\ images' = images
      BY <2>2 DEF CancelWarning
    <3>2. details.warning \in Warnings
      BY <1>2, <1>3 DEF DetailsType
    <3>3. /\ details'.panel = details.panel /\ details'.warners = details.warners
          /\ details'.warning = [details.warning EXCEPT !.open = FALSE]
          /\ details' = [details EXCEPT !.warning = details'.warning]
      BY <1>2, <3>1 DEF DetailsType
    <3>4. /\ details'.warning \in Warnings
          /\ details'.warning.by = details.warning.by /\ details'.warning.mail = details.warning.mail
      BY <3>2, <3>3 DEF Warnings
    <3>5. details' \in DetailsType
      BY <1>2, <3>3, <3>4 DEF DetailsType
    <3>6. WarningServesPanel'
      BY <1>3, <3>3, <3>4 DEF WarningServesPanel
    <3> QED
      BY <1>2, <1>3, <1>4, <3>1, <3>3, <3>5, <3>6 DEF PanelShows, TypeOK, DetailsTypeOK
  <2> QED
    BY <1>1, <2>1, <2>2
<1>6. /\ details' \in DetailsType /\ WarningServesPanel'
      /\ details'.panel # None /\ details'.panel.by = details.panel.by
      /\ details'.panel.mail = details.panel.mail
  BY <1>3, <1>4, <1>5 DEF PanelShows
<1>7. PageType' /\ BoundOk'
  BY <1>1, <1>2, <1>6 DEF PageOk, PageType, BoundOk
<1>8. ActsOnPanel' /\ ShownIsLit'
  BY <1>1, <1>2, <1>3, <1>6 DEF PageOk, ActsOnPanel, ShownIsLit
<1>9. NotInPage'
  <2>1. details.panel.mail \in Known
    BY <1>2, <1>3, KnownAlready
  <2> QED
    BY <1>1, <1>2, <1>6, <2>1, StaysOutOfPage DEF mailVars
<1>10. PageOk'
  BY <1>6, <1>7, <1>8, <1>9 DEF PageOk
<1>11. MailsType' /\ NotHandled' /\ NoGhostRow'
  BY <1>1, PartsNow, RowsStay DEF MailsType, NotHandled, Handled, Known, mailVars
<1>12. BarsType'
  BY <1>1, <1>5, PartsNow DEF BarsType, barVars
<1> QED
  BY <1>10, <1>11, <1>12, PartsThen
-----------------------------------------------------------------------------
(* Answers.                                                                *)

LEMMA ContentReplyStep ==
  ASSUME IInv, NEW f \in Folders, NEW m \in Mails, ContentReply(f, m)
  PROVE  IInv'
<1>1. /\ <<f, m>> \in asking /\ asking' = asking \ {<<f, m>>}
      /\ loaded' = loaded \cup {m}
      /\ UNCHANGED <<selected, images, rows, strays, mailVars, barVars>>
  BY DEF ContentReply
<1>2. PageType /\ m \in Known
  BY <1>1, PageNow, KnownAlready DEF IInv, PageOk
<1>3. /\ Shown(f, m, bound) /\ lit' \subseteq Mails
      /\ <<f, m>> \in rows' => m \in lit'
  <2>1. <<f, m>> \in rows => m \in Row(m)
    <3>1. <<f, m>>[2] = m
      OBVIOUS
    <3> QED
      BY <3>1 DEF Row
  <2>2. CASE /\ Present(f, m, bound)
             /\ lit' = (lit \ (IF active[f] = None THEN {} ELSE Row(active[f]))) \cup Row(m)
    <3>1. Shown(f, m, bound)
      BY <1>1, <1>2, <2>2, PresentShown
    <3>2. lit' \subseteq Mails
      BY <1>2, <2>2 DEF PageType, Row
    <3> QED
      BY <1>1, <2>1, <2>2, <3>1, <3>2
  <2>3. CASE SetSeenThrows(m) /\ PresentThrows(f)
    <3>1. /\ details' = Clean(details, f) /\ bound' = bound /\ active' = active /\ lit' = lit
          /\ Row(m) = {}
      BY <2>3 DEF SetSeenThrows, PresentThrows
    <3>2. PanelEmpty'
      BY <1>2, <3>1, CleanEmpties DEF PageType
    <3>3. Shown(f, m, bound)
      BY <1>2, <3>1, <3>2 DEF Shown, PageType
    <3>4. <<f, m>> \notin rows /\ lit' \subseteq Mails
      BY <1>2, <2>1, <3>1 DEF PageType
    <3> QED
      BY <1>1, <3>3, <3>4
  <2> QED
    BY <2>2, <2>3 DEF ContentReply
<1>4. asking' \subseteq asking \cup {<<f, m>>}
  BY <1>1
<1>5. rows' \subseteq Folders \X Mails /\ strays' \subseteq Mails /\ arrived' = arrived
  BY <1>1, <1>2 DEF PageType, mailVars
<1>6. PageOk'
  BY <1>1, <1>2, <1>3, <1>4, <1>5, ShownPage
<1>7. MailsType' /\ NotHandled' /\ NoGhostRow'
  BY <1>1, PartsNow, RowsStay DEF MailsType, NotHandled, Handled, Known, mailVars
<1>8. BarsType'
  BY <1>1, PartsNow DEF BarsType, barVars
<1> QED
  BY <1>6, <1>7, <1>8, PartsThen

\* Steps that show nothing else in the panel.
LEMMA SamePage ==
  ASSUME IInv, UNCHANGED <<selected, images, arrived, active, details, bound, rows, lit>>,
         asking' \subseteq asking, strays' \subseteq Mails
  PROVE  PageOk'
<1>1. PageOk /\ TypeOK
  BY PageNow DEF IInv
<1>2. PageType' /\ BoundOk' /\ WarningServesPanel' /\ ActsOnPanel' /\ ShownIsLit'
  BY <1>1 DEF PageOk, PageType, BoundOk, WarningServesPanel, ActsOnPanel, ShownIsLit
<1>3. NotInPage'
  BY <1>1, StaysOutOfPage DEF PageOk
<1> QED
  BY <1>2, <1>3 DEF PageOk

LEMMA ContentFailsStep ==
  ASSUME IInv, NEW f \in Folders, NEW m \in Mails, ContentFails(f, m)
  PROVE  IInv'
<1>1. /\ asking' \subseteq asking
      /\ UNCHANGED <<selected, loaded, images, rows, lit, strays, mailVars, barVars,
                     active, details, bound>>
  BY DEF ContentFails
<1>2. strays' \subseteq Mails /\ UNCHANGED <<arrived, folder, deleted>>
  BY <1>1 DEF IInv, TypeOK, mailVars
<1>3. PageOk'
  BY <1>1, <1>2, SamePage
<1>4. MailsType' /\ BarsType' /\ NotHandled' /\ NoGhostRow'
  BY <1>1, <1>2, MailsStay, RowsStay
<1> QED
  BY <1>3, <1>4, PartsThen

\* The mail of a poll is in no part of the page, and where it started.
LEMMA PollReplyStep == ASSUME IInv, NEW m \in Mails, PollReply(m) PROVE IInv'
<1>1. /\ m \in NewMails \ arrived /\ arrived' = arrived \cup {m}
      /\ rows' = rows \cup {<<INBOX, m>>}
      /\ UNCHANGED <<selected, loaded, images, lit, strays, folder, prev, deleted, moving, moves,
                     active, asking, details, bound, term, typed, canSearch>>
  BY DEF PollReply, pageVars, barVars
<1>2. /\ PageOk /\ TypeOK /\ MailsType /\ BarsType /\ NotHandled /\ NoGhostRow
      /\ m \notin Known /\ Known' = Known \cup {m}
  BY <1>1, PartsNow DEF IInv, Known
<1>3. ~InPage(m) /\ ~Handled(m) /\ folder[m] = Start[m] /\ Start[m] \in {INBOX, SPAM}
  BY <1>1, <1>2, MailListAssumption DEF PageOk, NotInPage, NotHandled
<1>4. PageType' /\ BoundOk' /\ WarningServesPanel' /\ ActsOnPanel'
  BY <1>1, <1>2, TrashIsFolder
  DEF PageOk, PageType, BoundOk, WarningServesPanel, ActsOnPanel
<1>5. ShownIsLit'
  <2> SUFFICES ASSUME details.panel # None, details.panel.by = selected,
                      <<selected, details.panel.mail>> \in rows \cup {<<INBOX, m>>}
               PROVE  details.panel.mail \in lit
    BY <1>1 DEF ShownIsLit
  <2>1. details.panel.mail # m
    BY <1>3 DEF InPage
  <2>2. <<selected, details.panel.mail>> \in rows
    BY <2>1
  <2> QED
    BY <1>2, <2>2 DEF PageOk, ShownIsLit
<1>6. NotInPage'
  <2> SUFFICES ASSUME NEW n \in Mails, n \notin Known, n # m PROVE ~InPage(n)'
    BY <1>2 DEF NotInPage
  <2>1. ~InPage(n)
    BY <1>2 DEF PageOk, NotInPage
  <2>2. \A f \in Folders : <<f, n>> \notin rows'
    BY <1>1, <2>1 DEF InPage
  <2> QED
    BY <1>1, <2>1, <2>2 DEF InPage
<1>7. NotHandled'
  BY <1>1, <1>2 DEF NotHandled, Handled
<1>8. NoGhostRow'
  <2> SUFFICES ASSUME NEW r \in rows'
               PROVE  \/ r[2] \in strays' \cup {x \in arrived' : Start[x] = SPAM}
                      \/ r[2] \in NotDeleted(r[1])'
    BY DEF NoGhostRow
  <2>1. CASE r \in rows
    <3>1. \/ r[2] \in strays \cup {x \in arrived : Start[x] = SPAM}
          \/ r[2] \in NotDeleted(r[1])
      BY <1>2, <2>1 DEF NoGhostRow
    <3>2. r[2] \in NotDeleted(r[1]) => r[2] \in NotDeleted(r[1])'
      BY <1>1 DEF NotDeleted, Tree
    <3> QED
      BY <1>1, <3>1, <3>2
  <2>2. CASE r = <<INBOX, m>>
    <3>1. r[1] = INBOX /\ r[2] = m
      BY <2>2
    <3>2. Start[m] = INBOX => m \in NotDeleted(INBOX)'
      BY <1>1, <1>3 DEF NotDeleted, Tree, Handled
    <3>3. Start[m] = SPAM => m \in {x \in arrived' : Start[x] = SPAM}
      BY <1>1
    <3> QED
      BY <1>3, <3>1, <3>2, <3>3
  <2> QED
    BY <1>1, <2>1, <2>2
<1>9. MailsType' /\ BarsType'
  BY <1>1, <1>2 DEF MailsType, BarsType
<1>10. PageOk'
  BY <1>4, <1>5, <1>6 DEF PageOk
<1> QED
  BY <1>7, <1>8, <1>9, <1>10, PartsThen

LEMMA MoveDoneStep == ASSUME IInv, NEW move \in moving, MoveDone(move) PROVE IInv'
<1>1. /\ moving' \subseteq moving
      /\ UNCHANGED <<selected, loaded, images, rows, lit, strays, folder, prev, deleted, arrived,
                     moves, active, asking, details, bound, term, typed, canSearch>>
  BY DEF MoveDone, pageVars, barVars
<1>2. strays' \subseteq Mails
  BY <1>1 DEF IInv, TypeOK
<1>3. PageOk'
  BY <1>1, <1>2, SamePage
<1>4. MailsType' /\ BarsType' /\ NotHandled'
  BY <1>1, PartsNow DEF MailsType, BarsType, NotHandled, Handled, Known
<1>5. NoGhostRow'
  BY <1>1, RowsStay
<1> QED
  BY <1>3, <1>4, <1>5, PartsThen

\* A failed move changes the folder of a mail, which is a stray from then on.
LEMMA MoveFailsStep == ASSUME IInv, NEW move \in moving, MoveFails(move) PROVE IInv'
<1> DEFINE m == move[1]
<1>1. /\ moving' \subseteq moving
      /\ folder' = [folder EXCEPT ![m] = prev[m]] /\ prev' = [prev EXCEPT ![m] = move[2]]
      /\ strays' = strays \cup {m}
      /\ UNCHANGED <<selected, loaded, images, rows, lit, deleted, arrived, moves,
                     active, asking, details, bound, term, typed, canSearch>>
  BY DEF MoveFails, pageVars, barVars
<1>2. MailsType /\ BarsType /\ NotHandled /\ NoGhostRow
  BY PartsNow
<1>3. m \in Mails /\ move[2] \in Folders /\ Handled(m)
  BY <1>2 DEF MailsType, Handled
<1> HIDE DEF m
<1>4. strays' \subseteq Mails
  BY <1>1, <1>3 DEF IInv, TypeOK
<1>5. PageOk'
  BY <1>1, <1>4, SamePage
<1>6. MailsType' /\ BarsType'
  BY <1>1, <1>2, <1>3 DEF MailsType, BarsType
<1>7. \A x \in Mails : x # m => folder'[x] = folder[x]
  BY <1>1, <1>2 DEF MailsType
<1>8. NotHandled'
  <2> SUFFICES ASSUME NEW x \in Mails, x \notin Known
               PROVE  ~Handled(x)' /\ folder'[x] = Start[x]
    BY <1>1 DEF NotHandled, Known
  <2>1. ~Handled(x) /\ folder[x] = Start[x]
    BY <1>2 DEF NotHandled
  <2> QED
    BY <1>1, <1>3, <1>7, <2>1 DEF Handled
<1>9. NoGhostRow'
  <2> SUFFICES ASSUME NEW r \in rows, r[2] # m
               PROVE  \/ r[2] \in strays' \cup {x \in arrived' : Start[x] = SPAM}
                      \/ r[2] \in NotDeleted(r[1])'
    BY <1>1 DEF NoGhostRow
  <2>1. \/ r[2] \in strays \cup {x \in arrived : Start[x] = SPAM}
        \/ r[2] \in NotDeleted(r[1])
    BY <1>2 DEF NoGhostRow
  <2>2. r[2] \in Mails
    BY DEF IInv, TypeOK
  <2>3. r[2] \in NotDeleted(r[1]) => r[2] \in NotDeleted(r[1])'
    BY <1>1, <1>7, <2>2 DEF NotDeleted, Tree
  <2> QED
    BY <1>1, <2>1, <2>3
<1> QED
  BY <1>5, <1>6, <1>8, <1>9, PartsThen

LEMMA StutterStep == ASSUME IInv, UNCHANGED vars PROVE IInv'
<1>1. /\ UNCHANGED <<selected, loaded, images, rows, lit, strays, mailVars, barVars>>
      /\ UNCHANGED <<active, asking, details, bound, folder, deleted, arrived>>
  BY DEF vars, pageVars, mailVars
<1>2. strays' \subseteq Mails
  BY <1>1 DEF IInv, TypeOK
<1>3. PageOk'
  BY <1>1, <1>2, SamePage
<1>4. MailsType' /\ BarsType' /\ NotHandled' /\ NoGhostRow'
  BY <1>1, MailsStay, RowsStay
<1> QED
  BY <1>3, <1>4, PartsThen

-----------------------------------------------------------------------------
LEMMA NextIInv == IInv /\ [Next]_vars => IInv'
<1> SUFFICES ASSUME IInv, [Next]_vars PROVE IInv'
  OBVIOUS
<1>1. CASE Walk
  BY <1>1, SwitchStep, ClickStep, ArrowKeyStep, SearchStep DEF Walk
<1>2. CASE Remove
  BY <1>2, DeleteButtonStep, RestoreButtonStep, DeleteKeyStep, EmptyTrashStep DEF Remove
<1>3. CASE Pictures
  BY <1>3, PicturesStep
<1>4. CASE Answer
  BY <1>4, ContentReplyStep, ContentFailsStep, PollReplyStep, MoveDoneStep, MoveFailsStep
  DEF Answer
<1>5. CASE UNCHANGED vars
  BY <1>5, StutterStep
<1> QED
  BY <1>1, <1>2, <1>3, <1>4, <1>5 DEF Next

LEMMA Invariance == Spec => []IInv
<1> QED
  BY InitIInv, NextIInv, PTL DEF Spec

\* The page is in states of the types that the code gives its parts.
THEOREM TypeCorrect == Spec => []TypeOK
<1>1. IInv => TypeOK
  BY DEF IInv
<1> QED
  BY <1>1, Invariance, PTL

\* The buttons of the warning above the panel act on the mail in the panel, whichever
\* folder object's answers came last, and pictures are only shown where the user
\* allowed them.
THEOREM WarningIsOfPanel == Spec => []WarningServesPanel
<1>1. IInv => WarningServesPanel
  BY DEF IInv
<1> QED
  BY <1>1, Invariance, PTL

\* The Delete key, the arrow keys and the buttons act on the mail the user reads,
\* although contents arrive in any order and for folders that are not selected.
THEOREM ButtonsActOnPanel == Spec => []ActsOnPanel
<1>1. IInv => ActsOnPanel
  BY DEF IInv
<1> QED
  BY <1>1, Invariance, PTL

\* A mail that was deleted or that left its folder has no row of that folder, whatever
\* was switched, searched and polled since, up to the exceptions NoGhostRow names.
THEOREM NoRowIsLeft == Spec => []NoGhostRow
<1>1. IInv => NoGhostRow
  BY DEF IInv
<1> QED
  BY <1>1, Invariance, PTL

\* The row of the mail in the panel is highlighted, although every folder object
\* takes highlights away by the mails that were active in it.
THEOREM ShownRowIsLit == Spec => []ShownIsLit
<1>1. IInv => ShownIsLit
  BY DEF IInv
<1> QED
  BY <1>1, Invariance, PTL
-----------------------------------------------------------------------------
(* No row is missing.                                                      *)

\* Steps that change neither the rows nor the mails they are of.
LEMMA RowsKept ==
  ASSUME AllRowsThere, UNCHANGED <<selected, folder, deleted, arrived, term, rows>>,
         strays \subseteq strays'
  PROVE  AllRowsThere'
BY DEF AllRowsThere, Filtered, NotDeleted, Tree

\* A mail is removed from the list: it leaves the selected folder, if it was in the
\* folder whose object removes it, or stays there as a stray.
LEMMA RowsRemoved ==
  ASSUME IInv, AllRowsThere, NEW f \in Folders, NEW m \in Mails, NEW kept \in SUBSET Mails,
         SwitchAndRemove(f, m, kept), UNCHANGED <<selected, loaded, images, arrived, term>>,
         \A x \in Mails : x # m => folder'[x] = folder[x], deleted \subseteq deleted',
         m \in Tree(f) => m \notin NotDeleted(selected)' \/ m \in kept
  PROVE  AllRowsThere'
<1>1. /\ strays \cup kept \subseteq strays' /\ TypeOK
      /\ \/ m \in Tree(f) /\ rows' = {r \in rows : r[2] # m}
         \/ f = selected /\ m \in Tree(f) /\ Cardinality(Tree(f)) <= 1
         \/ strays' = Mails
  BY RemovePage DEF IInv
<1> SUFFICES ASSUME NEW x \in Filtered(selected)', x \notin strays'
             PROVE  x \in {r[2] : r \in rows'}
  BY DEF AllRowsThere
<1>2. x \in Known /\ x \in Mails
  <2>1. x \in Known
    BY DEF Filtered, NotDeleted, Tree, Known
  <2> QED
    BY <1>1, <2>1, KnownType
<1>3. m \in Tree(f) /\ x # m
  BY <1>1, <1>2 DEF Filtered
<1>4. x \in Filtered(selected) /\ x \in Tree(selected)
  BY <1>2, <1>3 DEF Filtered, NotDeleted, Tree
<1>5. PICK r \in rows : r[2] = x
  BY <1>1, <1>4 DEF AllRowsThere
<1>6. CASE rows' = {s \in rows : s[2] # m}
  BY <1>3, <1>5, <1>6
<1>7. CASE f = selected /\ Cardinality(Tree(f)) <= 1
  <2>1. Tree(f) \in SUBSET Mails /\ {m} \in SUBSET Tree(f) /\ {m} # Tree(f)
    BY <1>1, <1>3, <1>4, <1>7, KnownType
  <2>2. Cardinality({m}) < Cardinality(Tree(f)) /\ Cardinality({m}) = 1
    BY <2>1, CardStrict, FS_Singleton
  <2>3. Cardinality(Tree(f)) \in Nat
    BY <2>1, CardType
  <2> QED
    BY <1>7, <2>2, <2>3
<1> QED
  BY <1>1, <1>2, <1>6, <1>7

\* What the buttons of the bound control bar say about the selected folder.
LEMMA ButtonsServe ==
  ASSUME BoundOk, bound # None
  PROVE  /\ "delete" \in bound.on => selected # TRASH
         /\ "restore" \in bound.on \/ "empty" \in bound.on => selected = TRASH /\ bound.by = TRASH
<1>1. bound.on \subseteq Buttons(bound.by) /\ Buttons(bound.by) \subseteq Buttons(selected)
  BY DEF BoundOk
<1>2. \A f : f = TRASH => "delete" \notin Buttons(f)
  BY DEF Buttons, INBOX, TRASH
<1>3. \A f : f # TRASH => "restore" \notin Buttons(f) /\ "empty" \notin Buttons(f)
  BY DEF Buttons
<1> QED
  BY <1>1, <1>2, <1>3

\* Rendering gives every mail it is given a row.
LEMMA RenderRows ==
  ASSUME NEW f, NEW mails, NEW bar, RenderContent(f, mails, bar), f = selected', Filtered(f)' = mails
  PROVE  AllRowsThere'
<1>1. CASE mails = {}
  BY <1>1 DEF AllRowsThere
<1>2. CASE mails # {}
  <2>1. rows' = {<<f, n>> : n \in mails}
    BY <1>2 DEF RenderContent
  <2>2. \A n \in mails : <<f, n>> \in rows' /\ <<f, n>>[2] = n
    BY <2>1
  <2> QED
    BY <2>2 DEF AllRowsThere
<1> QED
  BY <1>1, <1>2

LEMMA WalkRows == ASSUME IInv, AllRowsThere, Walk PROVE AllRowsThere'
<1>1. ASSUME NEW f \in Folders, SwitchTo(f) PROVE AllRowsThere'
  <2>1. selected' = f /\ term' = term /\ UNCHANGED mailVars /\ RenderContent(f, Filtered(f), None)
    BY <1>1 DEF SwitchTo
  <2>2. Filtered(f)' = Filtered(f)
    BY <2>1 DEF Filtered, NotDeleted, Tree, mailVars
  <2> QED
    BY <2>1, <2>2, RenderRows
<1>2. ASSUME NEW f \in Folders, NEW m \in Mails, Click(f, m) PROVE AllRowsThere'
  BY <1>2, RowsKept DEF Click, mailVars, barVars
<1>3. ASSUME NEW before \in BOOLEAN, ArrowKey(before) PROVE AllRowsThere'
  BY <1>3, RowsKept DEF ArrowKey, mailVars, barVars
<1>4. ASSUME NEW t \in DOMAIN Matches, Search(t) PROVE AllRowsThere'
  <2> DEFINE mails == NotDeleted(selected) \cap Matches[t]
  <2>1. /\ selected' = selected /\ term' = [term EXCEPT ![selected] = t]
        /\ UNCHANGED mailVars /\ RenderContent(selected, mails, bound)
    BY <1>4 DEF Search
  <2>2. term'[selected] = t
    BY <2>1 DEF IInv, TypeOK
  <2>3. Filtered(selected)' = mails
    BY <2>1, <2>2 DEF Filtered, NotDeleted, Tree, mailVars
  <2> HIDE DEF mails
  <2> QED
    BY <2>1, <2>3, RenderRows
<1> QED
  BY <1>1, <1>2, <1>3, <1>4 DEF Walk

\* A deleted mail leaves for the Trash, which is not selected then; a restored one
\* leaves the Trash, or is a stray.
LEMMA ButtonRows == ASSUME IInv, AllRowsThere, DeleteButton \/ RestoreButton PROVE AllRowsThere'
<1> DEFINE f == bound.by
           m == bound.mail
<1>1. /\ TypeOK /\ BoundOk /\ bound # None
      /\ UNCHANGED <<selected, loaded, images, deleted, arrived, term>>
  BY DEF IInv, DeleteButton, RestoreButton, barVars
<1>2. f \in Folders /\ m \in Known /\ m \in Mails
  BY <1>1, KnownAlready, KnownType DEF IInv
<1>3. PICK into \in Folders, kept \in SUBSET Mails :
        /\ SwitchAndRemove(f, m, kept) /\ MoveMail(m, into)
        /\ m \in Tree(f) => into # selected \/ m \in kept
  <2>1. CASE DeleteButton
    <3>1. SwitchAndRemove(f, m, {}) /\ MoveMail(m, TRASH) /\ TRASH # selected
      BY <1>1, <2>1, ButtonsServe DEF DeleteButton
    <3>2. {} \in SUBSET Mails
      OBVIOUS
    <3> QED
      BY <3>1, <3>2, TrashIsFolder
  <2>2. CASE RestoreButton
    <3> DEFINE kept == IF prev[m] = folder[m] THEN {m} ELSE {}
    <3>1. SwitchAndRemove(f, m, kept) /\ MoveMail(m, prev[m]) /\ "restore" \in bound.on
      BY <2>2 DEF RestoreButton
    <3>2. selected = TRASH /\ f = TRASH
      BY <1>1, <3>1, ButtonsServe
    <3>3. m \in Tree(f) => folder[m] = selected
      BY <3>2 DEF Tree
    <3>4. prev[m] \in Folders /\ kept \in SUBSET Mails
      BY <1>1, <1>2 DEF TypeOK
    <3>5. m \in Tree(f) => prev[m] # selected \/ m \in kept
      BY <3>3
    <3> HIDE DEF kept
    <3> QED
      BY <3>1, <3>4, <3>5
  <2> QED
    BY <2>1, <2>2
<1> HIDE DEF f, m
<1>4. folder'[m] = into /\ \A x \in Mails : x # m => folder'[x] = folder[x]
  BY <1>1, <1>2, <1>3, MoveMailMoves
<1>5. m \in Tree(f) => m \notin NotDeleted(selected)' \/ m \in kept
  BY <1>1, <1>3, <1>4 DEF NotDeleted, Tree
<1> QED
  BY <1>1, <1>2, <1>3, <1>4, <1>5, RowsRemoved

LEMMA DeleteKeyRows == ASSUME IInv, AllRowsThere, DeleteKey PROVE AllRowsThere'
<1> DEFINE f == selected
           m == active[f]
<1>1. /\ m # None /\ UNCHANGED <<selected, loaded, images, arrived, term>>
      /\ SwitchAndRemove(f, m, {})
      /\ IF f = TRASH THEN deleted' = deleted \cup {m} /\ UNCHANGED <<folder, prev, moving, moves>>
                      ELSE deleted' = deleted /\ MoveMail(m, TRASH)
  BY DEF DeleteKey
<1>2. f \in Folders /\ m \in Known /\ m \in Mails
  <2>1. f \in Folders
    BY DEF IInv, TypeOK
  <2> QED
    BY <1>1, <2>1, KnownAlready, KnownType DEF IInv
<1>3. f = selected /\ {} \in SUBSET Mails
  OBVIOUS
<1> HIDE DEF f, m
<1>4. CASE f = TRASH
  <2>1. deleted' = deleted \cup {m} /\ folder' = folder
    BY <1>1, <1>4
  <2>2. m \notin NotDeleted(selected)'
    BY <2>1 DEF NotDeleted
  <2> QED
    BY <1>1, <1>2, <1>3, <2>1, <2>2, RowsRemoved
<1>5. CASE f # TRASH
  <2>1. deleted' = deleted /\ MoveMail(m, TRASH)
    BY <1>1, <1>5
  <2>2. folder'[m] = TRASH /\ \A x \in Mails : x # m => folder'[x] = folder[x]
    BY <1>1, <1>2, <2>1, MoveMailMoves, TrashIsFolder
  <2>3. m \notin NotDeleted(selected)'
    BY <1>1, <1>3, <1>5, <2>2 DEF NotDeleted, Tree
  <2> QED
    BY <1>1, <1>2, <1>3, <2>1, <2>2, <2>3, RowsRemoved
<1> QED
  BY <1>4, <1>5

LEMMA EmptyTrashRows == ASSUME IInv, AllRowsThere, EmptyTrash PROVE AllRowsThere'
<1>1. /\ BoundOk /\ bound # None /\ "empty" \in bound.on
      /\ deleted' = deleted \cup Tree(TRASH) /\ UNCHANGED <<selected, folder, arrived>>
  BY DEF IInv, EmptyTrash
<1>2. selected = TRASH
  BY <1>1, ButtonsServe
<1>3. NotDeleted(selected)' = {}
  BY <1>1, <1>2 DEF NotDeleted, Tree
<1> QED
  BY <1>3 DEF AllRowsThere, Filtered

LEMMA AnswerRows == ASSUME IInv, AllRowsThere, Answer PROVE AllRowsThere'
<1>1. ASSUME NEW f \in Folders, NEW m \in Mails, ContentReply(f, m) \/ ContentFails(f, m)
      PROVE  AllRowsThere'
  BY <1>1, RowsKept DEF ContentReply, ContentFails, mailVars, barVars
<1>2. ASSUME NEW m \in Mails, PollReply(m) PROVE AllRowsThere'
  <2>1. /\ arrived' = arrived \cup {m} /\ rows' = rows \cup {<<INBOX, m>>}
        /\ UNCHANGED <<selected, strays, folder, deleted, term>>
    BY <1>2 DEF PollReply, barVars
  <2>2. Filtered(selected)' \subseteq Filtered(selected) \cup {m}
    BY <2>1 DEF Filtered, NotDeleted, Tree
  <2>3. <<INBOX, m>>[2] = m /\ <<INBOX, m>> \in rows'
    BY <2>1
  <2>4. m \in {r[2] : r \in rows'}
    BY <2>3
  <2> QED
    BY <2>1, <2>2, <2>4 DEF AllRowsThere
<1>3. ASSUME NEW move \in moving, MoveDone(move) PROVE AllRowsThere'
  BY <1>3, RowsKept DEF MoveDone, barVars
<1>4. ASSUME NEW move \in moving, MoveFails(move) PROVE AllRowsThere'
  <2> DEFINE m == move[1]
  <2>1. /\ folder' = [folder EXCEPT ![m] = prev[m]] /\ strays' = strays \cup {m}
        /\ UNCHANGED <<selected, rows, deleted, arrived, term>>
    BY <1>4 DEF MoveFails, barVars
  <2>2. \A x \in Mails : x # m => folder'[x] = folder[x]
    BY <2>1 DEF IInv, TypeOK
  <2> HIDE DEF m
  <2>3. Filtered(selected)' \subseteq Filtered(selected) \cup {m}
    <3> SUFFICES ASSUME NEW x \in Filtered(selected)', x # m PROVE x \in Filtered(selected)
      OBVIOUS
    <3>1. x \in Mails
      BY <2>1, KnownType DEF Filtered, NotDeleted, Tree, Known, IInv
    <3> QED
      BY <2>1, <2>2, <3>1 DEF Filtered, NotDeleted, Tree
  <2> QED
    BY <2>1, <2>3 DEF AllRowsThere
<1> QED
  BY <1>1, <1>2, <1>3, <1>4 DEF Answer

LEMMA NextRows == IInv /\ AllRowsThere /\ [Next]_vars => AllRowsThere'
<1> SUFFICES ASSUME IInv, AllRowsThere, [Next]_vars PROVE AllRowsThere'
  OBVIOUS
<1>1. CASE Remove
  BY <1>1, ButtonRows, DeleteKeyRows, EmptyTrashRows DEF Remove
<1>2. CASE Pictures \/ UNCHANGED vars
  BY <1>2, RowsKept DEF Pictures, vars, mailVars, barVars
<1> QED
  BY <1>1, <1>2, WalkRows, AnswerRows DEF Next

LEMMA InitRows == Init => AllRowsThere
<1> SUFFICES ASSUME Init, NEW m \in Filtered(INBOX) PROVE m \in {r[2] : r \in rows}
  BY DEF AllRowsThere, Init
<1>1. m \in Mails \ NewMails /\ Start[m] = INBOX
  BY DEF Init, Filtered, NotDeleted, Tree
<1>2. <<INBOX, m>> \in rows /\ <<INBOX, m>>[2] = m
  BY <1>1 DEF Init
<1> QED
  BY <1>2

\* Every mail of the selected folder that its filters leave has a row, whatever was
\* deleted, restored, searched for and polled, up to the exceptions AllRowsThere names.
THEOREM NoRowIsMissing == Spec => []AllRowsThere
BY InitRows, NextRows, Invariance, PTL DEF Spec
=============================================================================
