-------------------------- MODULE FolderView_proofs --------------------------
(***************************************************************************)
(* Proofs about FolderView for any mails, any placement of them on the     *)
(* server, and any number of loads in flight: what list, details panel,    *)
(* unread counter and labels show, in whatever order answers come.         *)
(***************************************************************************)
EXTENDS FolderView, FiniteSetTheorems, WellFoundedInduction, TLAPS

\* The mails that some folder object has.
Known == UNION {tree[f] : f \in Folders}

\* Every folder object has only its own mails, and what polls did not bring came
\* with the load of its folder on the server.
TreesOk ==
  /\ \A f \in Folders : \A m \in tree[f] : Folder(m) = f
  /\ \A m \in Known \ NewMails : ServerFolder[m] \in retrieved
  /\ SPAM \in retrieved

\* Only mails that came are shown, asked for or seen.  A row belongs to the folder
\* of its mail, but for spam that a poll brought as mail of the INBOX.
RowOk(f, m) == m \in Known /\ (f = Folder(m) \/ Folder(m) = SPAM)
ShownOk ==
  /\ Known \cap NewMails \subseteq arrived /\ seen \subseteq ReadMails \cup Known
  /\ rowless \subseteq seen \cap Known /\ cameRead \subseteq seen
  /\ \A r \in list : RowOk(r[1], r[2])
  /\ \A f \in Folders, m \in Mails : asking[f][m] > 0 => RowOk(f, m)

\* Nothing of a folder is shown before its load was answered, so that an answer
\* finds no mail of the folder that has its content.
RetrievedOk ==
  /\ \A f \in Folders : active[f] # None => f \in retrieved
  /\ \A f \in Folders, m \in Mails : asking[f][m] > 0 => f \in retrieved
  /\ details # None => details[1] \in retrieved
  /\ \A m \in loaded : Folder(m) \in retrieved

\* A folder is asked for once, until the user comes back before the answer does.
LoadsOk ==
  "reload" \notin slips =>
    \A f \in Folders : loading[f] > 0 => loading[f] = 1 /\ f \notin retrieved

IInv ==
  /\ TypeOK /\ TreesOk /\ ShownOk /\ RetrievedOk /\ LoadsOk
  /\ ListShowsFolder /\ DetailsAreActive /\ UnreadExact /\ LabelsExact

-----------------------------------------------------------------------------
(* Sets of mails. *)

LEMMA CardType ==
  ASSUME NEW S \in SUBSET Mails
  PROVE  IsFiniteSet(S) /\ Cardinality(S) \in Nat
<1>1. IsFiniteSet(S)
  BY FolderViewAssumption, FS_Subset
<1> QED
  BY <1>1, FS_CardinalityType

LEMMA CardStrict ==
  ASSUME NEW T \in SUBSET Mails, NEW S \in SUBSET T, S # T
  PROVE  Cardinality(S) < Cardinality(T)
<1>1. Cardinality(S) \in Nat /\ Cardinality(T) \in Nat /\ IsFiniteSet(T)
  BY CardType
<1>2. Cardinality(S) <= Cardinality(T) /\ Cardinality(S) # Cardinality(T)
  BY <1>1, FS_Subset
<1> QED
  BY <1>1, <1>2

\* A set of naturals has a least one.
LEMMA LeastNatural ==
  ASSUME NEW T \in SUBSET Nat, T # {}
  PROVE  \E x \in T : \A y \in T : x <= y
<1>1. PICK x \in T : \A y \in T : ~ <<y, x>> \in OpToRel(<, Nat)
  BY NatLessThanWellFounded, WFMin
<1>2. \A y \in T : ~ y < x
  BY <1>1 DEF OpToRel
<1> QED
  BY <1>2

\* Max and Min of some mails are mails among them: the one that has fewest above
\* it has none, and one is least.
LEMMA MaxIsIn ==
  ASSUME NEW S \in SUBSET Mails, S # {}
  PROVE  Max(S) \in S
<1> DEFINE Above(x) == {y \in S : y > x}
           T == {Cardinality(Above(x)) : x \in S}
<1>1. S \subseteq Nat
  BY FolderViewAssumption
<1>2. \A x \in S : Above(x) \in SUBSET Mails /\ Cardinality(Above(x)) \in Nat
  BY CardType
<1>3. PICK n \in T : \A k \in T : n <= k
  <2>1. T \in SUBSET Nat /\ T # {}
    BY <1>2
  <2> HIDE DEF T
  <2> QED
    BY <2>1, LeastNatural
<1>4. PICK x \in S : n = Cardinality(Above(x))
  BY <1>3
<1>5. \A y \in S : x >= y
  <2> SUFFICES ASSUME NEW y \in S, ~ x >= y PROVE FALSE
    OBVIOUS
  <2>1. y > x
    BY <1>1
  <2>2. Above(y) \subseteq Above(x) /\ y \in Above(x) /\ y \notin Above(y)
    <3>1. x \in Nat /\ y \in Nat /\ ~ y > y
      BY <1>1
    <3>2. ASSUME NEW z \in S, z > y PROVE z > x
      <4>1. z \in Nat
        BY <1>1
      <4> QED
        BY <2>1, <3>1, <3>2, <4>1
    <3> QED
      BY <2>1, <3>1, <3>2
  <2>3. Above(x) \in SUBSET Mails /\ Above(y) \in SUBSET Above(x) /\ Above(y) # Above(x)
    BY <1>2, <2>2
  <2>4. Cardinality(Above(y)) \in T /\ Cardinality(Above(y)) \in Nat /\ n \in Nat
    BY <1>2, <1>4
  <2> HIDE DEF Above
  <2>5. Cardinality(Above(y)) < Cardinality(Above(x))
    BY <2>3, CardStrict
  <2> QED
    BY <1>3, <1>4, <2>4, <2>5
<1> QED
  BY <1>5 DEF Max

LEMMA MinIsIn ==
  ASSUME NEW S \in SUBSET Mails, S # {}
  PROVE  Min(S) \in S
<1>1. \E x \in S : \A y \in S : x <= y
  BY LeastNatural, FolderViewAssumption
<1> QED
  BY <1>1 DEF Min

LEMMA UnreadType ==
  ASSUME NEW S \in SUBSET Mails, NEW s
  PROVE  Unread(S, s) \in Nat
BY CardType DEF Unread

\* Reading a mail takes one off what is unread in a set it belongs to.
LEMMA UnreadRead ==
  ASSUME NEW S \in SUBSET Mails, NEW s, NEW m \in S, m \notin s
  PROVE  Unread(S, s) >= 1 /\ Unread(S, s \cup {m}) = Unread(S, s) - 1
<1>1. IsFiniteSet(S \ s) /\ Cardinality(S \ s) \in Nat
  BY CardType
<1>2. S \ (s \cup {m}) = (S \ s) \ {m} /\ m \in S \ s
  OBVIOUS
<1>3. Cardinality((S \ s) \ {m}) = Cardinality(S \ s) - 1
  BY <1>1, <1>2, FS_RemoveElement
<1>4. Cardinality((S \ s) \ {m}) \in Nat
  BY CardType
<1> QED
  BY <1>1, <1>2, <1>3, <1>4 DEF Unread

\* Mails that come are counted apart from those that were there.
LEMMA UnreadUnion ==
  ASSUME NEW S \in SUBSET Mails, NEW T \in SUBSET Mails, NEW s, (S \cap T) \subseteq s
  PROVE  Unread(S \cup T, s) = Unread(S, s) + Unread(T, s)
<1>1. (S \cup T) \ s = (S \ s) \cup (T \ s) /\ (S \ s) \cap (T \ s) = {}
  OBVIOUS
<1>2. /\ IsFiniteSet(S \ s) /\ IsFiniteSet(T \ s)
      /\ Cardinality(S \ s) \in Nat /\ Cardinality(T \ s) \in Nat
  BY CardType
<1>3. Cardinality((S \ s) \cup (T \ s)) =
        Cardinality(S \ s) + Cardinality(T \ s) - Cardinality((S \ s) \cap (T \ s))
  BY <1>2, FS_Union
<1>4. Cardinality((S \ s) \cup (T \ s)) = Cardinality(S \ s) + Cardinality(T \ s)
  BY <1>1, <1>2, <1>3, FS_EmptySet
<1>5. Cardinality((S \cup T) \ s) = Cardinality((S \ s) \cup (T \ s))
  BY <1>1
<1> QED
  BY <1>4, <1>5 DEF Unread
-----------------------------------------------------------------------------
(* What showing mails does: folder object f shows one of S, or nothing; n  *)
(* and lab are the unread counter and the labels before.                   *)

Asks(f, S) ==
  /\ asking' \in [Folders -> [Mails -> 0..MaxAsks]]
  /\ \A g \in Folders, m \in Mails : asking'[g][m] > 0 => asking[g][m] > 0 \/ (g = f /\ m \in S)
Activates(f, S) ==
  /\ active' \in [Folders -> Mails \cup {None}]
  /\ \A g \in Folders : active'[g] # active[g] => g = f
  /\ \/ details' = None
     \/ \E m \in S : details' = <<f, m>> /\ (f = selected' => active'[f] = m)
     \/ details' = details /\ active' = active /\ f # selected'
\* What LabelsExact says of one number.
Fits(l, T, s, r) == l >= Unread(T, s) /\ l <= Unread(T, s \ r)
Counts(S, n, lab) ==
  /\ seen \subseteq seen' /\ seen' \subseteq seen \cup S
  /\ rowless' \subseteq rowless \cup (S \cap seen')
  /\ unread' \in Nat /\ label' \in [Folders -> Nat]
  /\ \A K \in SUBSET Mails :
        S \subseteq K /\ n = Unread(K, seen \ CountedForGood)
        => unread' = Unread(K, seen' \ (rowless' \cup cameRead))
  /\ (\A g \in Folders : \A m \in S \cap tree'[g] : Folder(m) = g)
     /\ (\A g \in Folders : Fits(lab[g], tree'[g], seen, rowless))
     => \A g \in Folders : Fits(label'[g], tree'[g], seen', rowless')

LEMMA FolderType == ASSUME NEW m \in Mails PROVE Folder(m) \in Folders
BY FolderViewAssumption DEF Folder, Folders

LEMMA UnreadLess ==
  ASSUME NEW T \in SUBSET Mails, NEW s, NEW z, z \subseteq s
  PROVE  Unread(T, s) <= Unread(T, z)
<1>1. IsFiniteSet(T \ z) /\ T \ s \in SUBSET (T \ z)
  BY CardType
<1> QED
  BY <1>1, FS_Subset DEF Unread

LEMMA ExactFits ==
  ASSUME NEW T \in SUBSET Mails, NEW s, NEW r PROVE Fits(Unread(T, s), T, s, r)
<1>1. s \ r \subseteq s
  OBVIOUS
<1>2. Unread(T, s) <= Unread(T, s \ r) /\ Unread(T, s) \in Nat
  BY <1>1, UnreadLess, UnreadType
<1> QED
  BY <1>2 DEF Fits

\* A mail is flagged; with a row of it the counter and its label follow.
LEMMA SetSeenCounts ==
  ASSUME NEW m \in Mails, NEW n \in Nat, NEW lab \in [Folders -> Nat],
         rowless \subseteq seen, cameRead \subseteq seen,
         tree' \in [Folders -> SUBSET Mails], SetSeen(m, n, lab)
  PROVE  Counts({m}, n, lab)
<1>1. CASE m \in seen
  <2>1. seen' = seen /\ rowless' = rowless /\ unread' = n /\ label' = lab
    BY <1>1 DEF SetSeen, SetSeenThrows, NoNotice
  <2> QED
    BY <2>1 DEF Counts, CountedForGood
<1>2. CASE m \notin seen /\ SetSeenThrows(m)
  <2>1. seen' = seen \cup {m} /\ rowless' = rowless \cup {m} /\ unread' = n /\ label' = lab
    BY <1>2 DEF SetSeen, NoNotice
  <2>2. seen' \ (rowless' \cup cameRead) = seen \ CountedForGood
        /\ seen' \ rowless' = seen \ rowless
    BY <1>2, <2>1 DEF CountedForGood
  <2>3. ASSUME NEW g \in Folders, Fits(lab[g], tree'[g], seen, rowless)
        PROVE  Fits(label'[g], tree'[g], seen', rowless')
    <3>1. tree'[g] \in SUBSET Mails /\ seen \subseteq seen' /\ label'[g] = lab[g] /\ lab[g] \in Nat
      BY <2>1
    <3>2. Unread(tree'[g], seen') <= Unread(tree'[g], seen)
          /\ Unread(tree'[g], seen') \in Nat /\ Unread(tree'[g], seen) \in Nat
      BY <3>1, UnreadLess, UnreadType
    <3>3. lab[g] >= Unread(tree'[g], seen) /\ lab[g] <= Unread(tree'[g], seen' \ rowless')
      BY <2>2, <2>3 DEF Fits
    <3> QED
      BY <3>1, <3>2, <3>3 DEF Fits
  <2>4. \A K \in SUBSET Mails :
          {m} \subseteq K /\ n = Unread(K, seen \ CountedForGood)
          => unread' = Unread(K, seen' \ (rowless' \cup cameRead))
    BY <2>1, <2>2
  <2> QED
    BY <2>1, <2>3, <2>4 DEF Counts
<1>3. CASE m \notin seen /\ ~SetSeenThrows(m)
  <2>1. /\ seen' = seen \cup {m} /\ rowless' = rowless /\ unread' = IF n <= 1 THEN 0 ELSE n - 1
        /\ label' = [lab EXCEPT ![Folder(m)] = Unread(tree'[Folder(m)], seen')]
    BY <1>3 DEF SetSeen, Notice
  <2>2. Folder(m) \in Folders
    BY FolderType
  <2>3. \A g \in Folders : Unread(tree'[g], seen') \in Nat
    BY UnreadType
  <2>4. unread' \in Nat /\ label' \in [Folders -> Nat]
    <3>1. unread' \in Nat
      BY <2>1
    <3>2. PICK c \in Nat : c = Unread(tree'[Folder(m)], seen')
      BY <2>2, <2>3
    <3>3. label' = [lab EXCEPT ![Folder(m)] = c]
      BY <2>1, <3>2
    <3> QED
      BY <3>1, <3>3
  <2>5. ASSUME NEW K \in SUBSET Mails, {m} \subseteq K, n = Unread(K, seen \ CountedForGood)
        PROVE  unread' = Unread(K, seen' \ (rowless' \cup cameRead))
    <3>1. m \notin seen \ CountedForGood
          /\ seen' \ (rowless' \cup cameRead) = (seen \ CountedForGood) \cup {m}
      BY <1>3, <2>1 DEF CountedForGood
    <3>2. m \in K
      BY <2>5
    <3>3. Unread(K, seen \ CountedForGood) >= 1
          /\ Unread(K, (seen \ CountedForGood) \cup {m}) = Unread(K, seen \ CountedForGood) - 1
      BY <3>1, <3>2, UnreadRead
    <3>4. Unread(K, seen' \ (rowless' \cup cameRead)) = n - 1 /\ n >= 1
      BY <2>5, <3>1, <3>3
    <3> QED
      BY <2>1, <3>4
  <2>6. ASSUME \A g \in Folders : \A x \in {m} \cap tree'[g] : Folder(x) = g,
               \A g \in Folders : Fits(lab[g], tree'[g], seen, rowless),
               NEW g \in Folders
        PROVE  Fits(label'[g], tree'[g], seen', rowless')
    <3>1. CASE g = Folder(m)
      <4>1. label'[g] = Unread(tree'[g], seen') /\ tree'[g] \in SUBSET Mails
        BY <2>1, <2>2, <3>1
      <4> QED
        BY <4>1, ExactFits
    <3>2. CASE g # Folder(m)
      <4>1. m \notin tree'[g]
        BY <2>6, <3>2
      <4>2. tree'[g] \ seen' = tree'[g] \ seen
            /\ tree'[g] \ (seen' \ rowless') = tree'[g] \ (seen \ rowless)
        BY <2>1, <4>1
      <4>3. label'[g] = lab[g]
        BY <2>1, <2>2, <3>2
      <4> QED
        BY <2>6, <4>2, <4>3 DEF Fits, Unread
    <3> QED
      BY <3>1, <3>2
  <2> QED
    BY <2>1, <2>4, <2>5, <2>6 DEF Counts
<1> QED
  BY <1>1, <1>2, <1>3

LEMMA NothingCounts ==
  ASSUME NEW S, NEW n \in Nat, NEW lab \in [Folders -> Nat],
         seen' = seen, rowless' = rowless, unread' = n, label' = lab
  PROVE  Counts(S, n, lab)
BY DEF Counts, CountedForGood

LEMMA PresentShows ==
  ASSUME TypeOK, ShownOk, NEW f \in Folders, NEW m \in Mails, NEW n \in Nat,
         NEW lab \in [Folders -> Nat], tree' \in [Folders -> SUBSET Mails], Present(f, m, n, lab)
  PROVE  Activates(f, {m}) /\ Counts({m}, n, lab)
<1>1. Counts({m}, n, lab)
  BY SetSeenCounts DEF Present, ShownOk
<1>2. f = selected' => BarServes(f)
  BY DEF BarServes
<1>3. CASE SetSeenThrows(m)
  <2>1. details' = None /\ active' = active
    BY <1>3 DEF Present
  <2> QED
    BY <1>1, <2>1 DEF Activates, TypeOK
<1>4. CASE ~SetSeenThrows(m)
  <2>1. details' = <<f, m>> /\ active' = IF BarServes(f) THEN [active EXCEPT ![f] = m] ELSE active
    BY <1>4 DEF Present
  <2>2. active' \in [Folders -> Mails \cup {None}] /\ \A g \in Folders : active'[g] # active[g] => g = f
    BY <2>1 DEF TypeOK
  <2>3. f = selected' => active'[f] = m
    BY <1>2, <2>1 DEF TypeOK
  <2> QED
    BY <1>1, <2>1, <2>2, <2>3 DEF Activates
<1> QED
  BY <1>3, <1>4

LEMMA ShowMailShows ==
  ASSUME TypeOK, ShownOk, NEW f \in Folders, NEW m \in Mails, NEW n \in Nat, NEW lab \in [Folders -> Nat],
         tree' \in [Folders -> SUBSET Mails], ShowMail(f, m, n, lab)
  PROVE  Asks(f, {m}) /\ Activates(f, {m}) /\ Counts({m}, n, lab)
<1>1. CASE m \in loaded
  <2>1. Present(f, m, n, lab) /\ asking' = asking
    BY <1>1 DEF ShowMail
  <2>2. Asks(f, {m})
    BY <2>1 DEF Asks, TypeOK
  <2> QED
    BY <2>1, <2>2, PresentShows
<1>2. CASE m \notin loaded
  <2>1. /\ asking[f][m] < MaxAsks
        /\ active' = [active EXCEPT ![f] = m]
        /\ details' = None /\ asking' = [asking EXCEPT ![f][m] = @ + 1]
        /\ seen' = seen /\ rowless' = rowless /\ unread' = n /\ label' = lab
    BY <1>2 DEF ShowMail, NoNotice
  <2>2. asking[f][m] \in 0..MaxAsks /\ MaxAsks \in Nat
    BY FolderViewAssumption DEF TypeOK
  <2>3. asking[f][m] + 1 \in 0..MaxAsks
    BY <2>1, <2>2
  <2>4. asking' \in [Folders -> [Mails -> 0..MaxAsks]]
    BY <2>1, <2>3 DEF TypeOK
  <2>5. \A g \in Folders, x \in Mails : ~(g = f /\ x = m) => asking'[g][x] = asking[g][x]
    BY <2>1 DEF TypeOK
  <2>6. Asks(f, {m})
    BY <2>4, <2>5 DEF Asks
  <2>7. Activates(f, {m})
    BY <2>1 DEF Activates, TypeOK
  <2>8. Counts({m}, n, lab)
    BY <2>1, NothingCounts
  <2> QED
    BY <2>6, <2>7, <2>8
<1> QED
  BY <1>1, <1>2

\* What renderMailboxContent_ shows is a mail of the folder, or nothing.
LEMMA RenderShows ==
  ASSUME TypeOK, ShownOk, NEW f \in Folders, NEW n \in Nat, NEW lab \in [Folders -> Nat],
         tree' \in [Folders -> SUBSET Mails], RenderContent(f, n, lab)
  PROVE  \E S \in SUBSET tree'[f] : Asks(f, S) /\ Activates(f, S) /\ Counts(S, n, lab)
<1>1. CASE tree'[f] # {}
  <2>1. tree'[f] \in SUBSET Mails
    OBVIOUS
  <2>2. Max(tree'[f]) \in tree'[f]
    BY <1>1, <2>1, MaxIsIn
  <2>3. PICK m \in tree'[f] : m = Max(tree'[f])
    BY <2>2
  <2>4. m \in Mails /\ ShowMail(f, m, n, lab)
    BY <1>1, <2>1, <2>3 DEF RenderContent
  <2>5. Asks(f, {m}) /\ Activates(f, {m}) /\ Counts({m}, n, lab)
    BY <2>4, ShowMailShows
  <2> QED
    BY <2>5
<1>2. CASE tree'[f] = {}
  <2>1. /\ details' = IF BarServes(f) THEN None ELSE details
        /\ seen' = seen /\ rowless' = rowless /\ unread' = n /\ label' = lab
        /\ active' = active /\ asking' = asking
    BY <1>2 DEF RenderContent, NoNotice
  <2>2. f = selected' => BarServes(f)
    BY DEF BarServes
  <2>3. Activates(f, {}) /\ Asks(f, {})
    BY <2>1, <2>2 DEF Activates, Asks, TypeOK
  <2>4. Counts({}, n, lab)
    BY <2>1, NothingCounts
  <2> QED
    BY <2>3, <2>4
<1> QED
  BY <1>1, <1>2
LEMMA KnownType == TypeOK => Known \in SUBSET Mails
BY DEF TypeOK, Known

LEMMA KnownMails == ASSUME TypeOK, NEW f \in Folders PROVE tree[f] \subseteq Known /\ tree[f] \in SUBSET Mails
BY DEF TypeOK, Known

-----------------------------------------------------------------------------
(* A step that shows a mail of S by folder object f, after some came, or   *)
(* none, keeps what panel, counter and labels promise.                     *)
MailsType == tree \in [Folders -> SUBSET Mails]
RowsOk == list \subseteq Folders \X Mails /\ \A r \in list : RowOk(r[1], r[2])
LoadedOk == loaded \subseteq Mails /\ \A m \in loaded : Folder(m) \in retrieved
ShownType ==
  /\ active \in [Folders -> Mails \cup {None}]
  /\ details \in (Folders \X Mails) \cup {None}
  /\ seen \subseteq Mails /\ rowless \subseteq Mails /\ unread \in Nat /\ label \in [Folders -> Nat]
  /\ asking \in [Folders -> [Mails -> 0..MaxAsks]]
  /\ list \subseteq Folders \X Mails /\ loaded \subseteq Mails

LEMMA ShowsKeep ==
  ASSUME IInv, MailsType', TreesOk', RowsOk', LoadedOk',
         retrieved \subseteq retrieved', retrieved' \subseteq Folders,
         Known \subseteq Known', Known' \cap NewMails \subseteq arrived,
         arrived' = arrived, cameRead' = cameRead, slips \cap {"reload", "spam"} \subseteq slips',
         NEW f \in retrieved', selected' \in {selected, f},
         NEW S \in SUBSET Known', \A m \in S : f = Folder(m) \/ Folder(m) = SPAM,
         NEW n \in Nat, NEW lab \in [Folders -> Nat],
         Asks(f, S), Activates(f, S), Counts(S, n, lab),
         slips' \cap {"reload", "spam"} = {} => n = Unread(Known', seen \ CountedForGood),
         \A g \in Folders : Fits(lab[g], tree'[g], seen, rowless)
  PROVE  /\ ShownType' /\ ShownOk' /\ RetrievedOk'
         /\ DetailsAreActive' /\ UnreadExact' /\ LabelsExact'
<1>1. Known' \in SUBSET Mails /\ f \in Folders /\ S \in SUBSET Mails
  BY DEF MailsType, Known
<1>2. ShownType'
  <2>1. active' \in [Folders -> Mails \cup {None}]
    BY DEF Activates
  <2>2. details' \in (Folders \X Mails) \cup {None}
    <3>1. details \in (Folders \X Mails) \cup {None}
      BY DEF IInv, TypeOK
    <3> QED
      BY <3>1, <1>1 DEF Activates
  <2>3. seen' \subseteq Mails /\ rowless' \subseteq Mails /\ unread' \in Nat /\ label' \in [Folders -> Nat]
    BY <1>1 DEF Counts, IInv, TypeOK
  <2> QED
    BY <2>1, <2>2, <2>3 DEF ShownType, Asks, RowsOk, LoadedOk
<1>3. ShownOk'
  <2>1. /\ Known' \cap NewMails \subseteq arrived' /\ seen' \subseteq ReadMails \cup Known'
        /\ rowless' \subseteq seen' \cap Known' /\ cameRead' \subseteq seen'
    BY DEF Counts, IInv, ShownOk
  <2>2. \A r \in list' : RowOk(r[1], r[2])'
    BY DEF RowsOk
  <2>3. ASSUME NEW g \in Folders, NEW m \in Mails, asking'[g][m] > 0 PROVE RowOk(g, m)'
    <3>1. CASE asking[g][m] > 0
      BY <3>1 DEF IInv, ShownOk, RowOk
    <3>2. CASE g = f /\ m \in S
      BY <3>2 DEF RowOk
    <3> QED
      BY <2>3, <3>1, <3>2 DEF Asks
  <2> QED
    BY <2>1, <2>2, <2>3 DEF ShownOk
<1>4. RetrievedOk'
  <2>1. ASSUME NEW g \in Folders, active'[g] # None PROVE g \in retrieved'
    <3>1. CASE active'[g] = active[g]
      BY <2>1, <3>1 DEF IInv, RetrievedOk
    <3> QED
      BY <3>1 DEF Activates
  <2>2. ASSUME NEW g \in Folders, NEW m \in Mails, asking'[g][m] > 0 PROVE g \in retrieved'
    <3>1. CASE asking[g][m] > 0
      BY <3>1 DEF IInv, RetrievedOk
    <3> QED
      BY <2>2, <3>1 DEF Asks
  <2>3. details' # None => details'[1] \in retrieved'
    BY DEF Activates, IInv, RetrievedOk
  <2> QED
    BY <2>1, <2>2, <2>3 DEF RetrievedOk, LoadedOk
<1>5. DetailsAreActive'
  <2> SUFFICES ASSUME details' # None, details'[1] = selected'
               PROVE  active'[selected'] = details'[2]
    BY DEF DetailsAreActive
  <2>1. CASE \E m \in S : details' = <<f, m>> /\ (f = selected' => active'[f] = m)
    BY <2>1
  <2>2. CASE details' = details /\ active' = active /\ f # selected'
    BY <2>2 DEF IInv, DetailsAreActive
  <2> QED
    BY <2>1, <2>2 DEF Activates
<1>6. UnreadExact'
  <2>1. slips' \cap {"reload", "spam"} = {} => unread' = Unread(Known', seen' \ CountedForGood')
    BY <1>1 DEF Counts, CountedForGood
  <2> QED
    BY <2>1 DEF UnreadExact, Known
<1>7. LabelsExact'
  <2>1. \A g \in Folders : \A m \in S \cap tree'[g] : Folder(m) = g
    BY DEF TreesOk
  <2>2. \A g \in Folders : Fits(label'[g], tree'[g], seen', rowless')
    BY <2>1 DEF Counts
  <2> QED
    BY <2>2 DEF LabelsExact, Fits
<1> QED
  BY <1>2, <1>3, <1>4, <1>5, <1>6, <1>7
-----------------------------------------------------------------------------
LEMMA InitIInv == Init => IInv
<1> SUFFICES ASSUME Init PROVE IInv
  OBVIOUS
<1>1. /\ Known = {} /\ \A f \in Folders : \A s : Unread(tree[f], s) = 0
      /\ \A s : Unread(UNION {tree[f] : f \in Folders}, s) = 0
  BY FS_EmptySet DEF Init, Known, Unread
<1>2. TypeOK
  BY FolderViewAssumption DEF Init, TypeOK, Folders
<1>3. TreesOk /\ ShownOk /\ RetrievedOk /\ LoadsOk
  BY <1>1 DEF Init, TreesOk, ShownOk, RetrievedOk, LoadsOk, Folders, INBOX, SPAM
<1>4. ListShowsFolder /\ DetailsAreActive
  BY DEF Init, ListShowsFolder, DetailsAreActive, Folders, INBOX, SPAM
<1>5. UnreadExact
  BY <1>1 DEF Init, UnreadExact
<1>6. LabelsExact
  BY <1>1 DEF Init, LabelsExact
<1> QED
  BY <1>2, <1>3, <1>4, <1>5, <1>6 DEF IInv

\* What an answer that fails, or the timer, leaves alone.
LEMMA Still ==
  ASSUME IInv, TypeOK',
         UNCHANGED <<selected, retrieved, tree, active, list, details, loaded, seen, rowless, unread,
                     label, arrived, cameRead, slips>>,
         \A f \in Folders : loading'[f] <= loading[f],
         \A f \in Folders, m \in Mails : asking'[f][m] <= asking[f][m]
  PROVE  IInv'
<1>1. TreesOk' /\ ListShowsFolder' /\ DetailsAreActive' /\ UnreadExact' /\ LabelsExact'
  <2>1. TreesOk'
    BY DEF IInv, TreesOk, Known
  <2>2. ListShowsFolder'
    BY DEF IInv, ListShowsFolder
  <2>3. DetailsAreActive'
    BY DEF IInv, DetailsAreActive
  <2>4. UnreadExact'
    BY DEF IInv, UnreadExact, CountedForGood
  <2>5. LabelsExact'
    BY DEF IInv, LabelsExact
  <2> QED
    BY <2>1, <2>2, <2>3, <2>4, <2>5
<1>2. \A f \in Folders, m \in Mails : asking'[f][m] > 0 => asking[f][m] > 0
  BY DEF IInv, TypeOK
<1>3. ShownOk' /\ RetrievedOk'
  BY <1>2 DEF IInv, ShownOk, RowOk, Known, RetrievedOk
<1>4. LoadsOk'
  <2>1. \A f \in Folders : loading'[f] \in Nat /\ loading[f] \in Nat
    BY FolderViewAssumption DEF IInv, TypeOK
  <2> QED
    BY <2>1 DEF IInv, LoadsOk
<1> QED
  BY <1>1, <1>3, <1>4 DEF IInv

LEMMA LoadType == ASSUME TypeOK, NEW f \in Folders PROVE loading[f] \in 0..MaxLoads /\ MaxLoads \in Nat
BY FolderViewAssumption DEF TypeOK
LEMMA AskType ==
  ASSUME TypeOK, NEW f \in Folders, NEW m \in Mails PROVE asking[f][m] \in 0..MaxAsks /\ MaxAsks \in Nat
BY FolderViewAssumption DEF TypeOK

LEMMA LoadFailsStep == ASSUME IInv, NEW f \in Folders, LoadFails(f) PROVE IInv'
<1>1. /\ loading[f] > 0 /\ loading' = [loading EXCEPT ![f] = loading[f] - 1]
      /\ UNCHANGED <<selected, retrieved, tree, active, list, details, loaded, seen, rowless, unread,
                     label, asking, poll, arrived, cameRead, slips>>
  BY DEF LoadFails
<1>2. TypeOK
  BY DEF IInv
<1>3. loading[f] - 1 \in 0..MaxLoads
  BY <1>1, <1>2, LoadType
<1>4. loading' \in [Folders -> 0..MaxLoads]
  BY <1>1, <1>2, <1>3 DEF TypeOK
<1>5. TypeOK'
  BY <1>1, <1>2, <1>4 DEF TypeOK
<1>6. \A g \in Folders : loading'[g] <= loading[g]
  BY <1>1, <1>2, LoadType DEF TypeOK
<1>7. \A g \in Folders, m \in Mails : asking'[g][m] <= asking[g][m]
  BY <1>1, <1>2, AskType
<1> QED
  BY <1>1, <1>5, <1>6, <1>7, Still

\* One content load less is in flight.
LEMMA OneAskLess ==
  ASSUME TypeOK, NEW f \in Folders, NEW m \in Mails, asking[f][m] > 0,
         asking' = [asking EXCEPT ![f][m] = @ - 1]
  PROVE  /\ asking' \in [Folders -> [Mails -> 0..MaxAsks]]
         /\ \A g \in Folders, x \in Mails : asking'[g][x] <= asking[g][x]
         /\ \A S : Asks(f, S)
<1>1. asking[f][m] - 1 \in 0..MaxAsks
  BY AskType
<1>2. asking' \in [Folders -> [Mails -> 0..MaxAsks]]
  BY <1>1 DEF TypeOK
<1>3. ASSUME NEW g \in Folders, NEW x \in Mails PROVE asking'[g][x] <= asking[g][x]
  <2>1. asking[g][x] \in 0..MaxAsks /\ asking[f][m] \in 0..MaxAsks /\ MaxAsks \in Nat
    BY AskType
  <2>2. asking'[g][x] = IF g = f /\ x = m THEN asking[f][m] - 1 ELSE asking[g][x]
    BY DEF TypeOK
  <2> QED
    BY <2>1, <2>2
<1>4. \A g \in Folders, x \in Mails : asking'[g][x] > 0 => asking[g][x] > 0
  <2> SUFFICES ASSUME NEW g \in Folders, NEW x \in Mails, asking'[g][x] > 0 PROVE asking[g][x] > 0
    OBVIOUS
  <2>1. asking[g][x] \in 0..MaxAsks /\ asking'[g][x] \in 0..MaxAsks /\ MaxAsks \in Nat
    BY <1>2, AskType
  <2> QED
    BY <2>1, <1>3
<1> QED
  BY <1>2, <1>3, <1>4 DEF Asks

LEMMA ContentFailsStep ==
  ASSUME IInv, NEW f \in Folders, NEW m \in Mails, ContentFails(f, m) PROVE IInv'
<1>1. /\ asking[f][m] > 0 /\ asking' = [asking EXCEPT ![f][m] = @ - 1]
      /\ UNCHANGED <<selected, retrieved, tree, active, list, details, loaded, seen, rowless, unread,
                     label, loading, poll, arrived, cameRead, slips>>
  BY DEF ContentFails
<1>2. TypeOK
  BY DEF IInv
<1>3. /\ asking' \in [Folders -> [Mails -> 0..MaxAsks]]
      /\ \A g \in Folders, x \in Mails : asking'[g][x] <= asking[g][x]
  BY <1>1, <1>2, OneAskLess
<1>4. TypeOK'
  BY <1>1, <1>2, <1>3 DEF TypeOK
<1>5. \A g \in Folders : loading'[g] <= loading[g]
  BY <1>1, <1>2, LoadType
<1> QED
  BY <1>1, <1>3, <1>4, <1>5, Still

LEMMA PollStep == ASSUME IInv, PollTick \/ PollFails \/ UNCHANGED vars PROVE IInv'
<1>1. /\ UNCHANGED <<selected, retrieved, tree, active, list, details, loaded, seen, rowless, unread,
                     label, loading, asking, arrived, cameRead, slips>>
      /\ poll' \in {"timer", "sent", "stopped"}
  BY DEF PollTick, PollFails, vars, IInv, TypeOK
<1>2. TypeOK /\ TypeOK'
  BY <1>1 DEF IInv, TypeOK
<1>3. \A g \in Folders : loading'[g] <= loading[g]
  BY <1>1, <1>2, LoadType
<1>4. \A g \in Folders, m \in Mails : asking'[g][m] <= asking[g][m]
  BY <1>1, <1>2, AskType
<1> QED
  BY <1>1, <1>2, <1>3, <1>4, Still
-----------------------------------------------------------------------------
(* Steps that show a mail the page has: it brings none, so that the        *)
(* counters before are exact.                                              *)
LEMMA ShowsKnown ==
  ASSUME IInv, UNCHANGED <<selected, retrieved, tree, list, loading, arrived, cameRead, slips>>,
         loaded' \subseteq Mails, \A m \in loaded' : Folder(m) \in retrieved,
         poll' = poll,
         NEW f \in retrieved, NEW m \in Mails, RowOk(f, m),
         Asks(f, {m}), Activates(f, {m}), Counts({m}, unread, label)
  PROVE  IInv'
<1>1. TypeOK /\ f \in Folders
  BY DEF IInv, TypeOK
<1>2. MailsType' /\ TreesOk' /\ RowsOk' /\ LoadedOk'
  BY DEF IInv, TypeOK, MailsType, TreesOk, RowsOk, RowOk, Known, ShownOk, LoadedOk
<1>3. Known' = Known /\ Known \cap NewMails \subseteq arrived
  BY DEF Known, IInv, ShownOk
<1>4. unread \in Nat /\ label \in [Folders -> Nat]
  BY <1>1 DEF TypeOK
<1>5. slips' \cap {"reload", "spam"} = {} => unread = Unread(Known', seen \ CountedForGood)
  BY <1>3 DEF IInv, UnreadExact, Known
<1>6. \A g \in Folders : Fits(label[g], tree'[g], seen, rowless)
  BY DEF IInv, LabelsExact, Fits
<1>7. \A x \in {m} : f = Folder(x) \/ Folder(x) = SPAM
  BY DEF RowOk
<1>8. {m} \in SUBSET Known' /\ f \in retrieved' /\ selected' \in {selected, f}
      /\ retrieved \subseteq retrieved' /\ retrieved' \subseteq Folders
  BY <1>1, <1>3 DEF RowOk, TypeOK
<1>9. /\ ShownType' /\ ShownOk' /\ RetrievedOk'
      /\ DetailsAreActive' /\ UnreadExact' /\ LabelsExact'
  BY <1>2, <1>3, <1>4, <1>5, <1>6, <1>7, <1>8, ShowsKeep
<1>10. TypeOK'
  BY <1>1, <1>9 DEF TypeOK, ShownType
<1>11. LoadsOk' /\ ListShowsFolder'
  BY DEF IInv, LoadsOk, ListShowsFolder
<1> QED
  BY <1>2, <1>9, <1>10, <1>11 DEF IInv

\* A row that can be clicked belongs to a folder that was retrieved.
LEMMA ClickStep == ASSUME IInv, NEW f \in Folders, NEW m \in Mails, Click(f, m) PROVE IInv'
<1>1. /\ <<f, m>> \in list /\ active[f] # None
      /\ UNCHANGED <<selected, retrieved, tree, list, loaded, loading, poll, arrived, cameRead, slips>>
      /\ ShowMail(f, m, unread, label)
  BY DEF Click
<1>2. f \in retrieved /\ RowOk(f, m)
  BY <1>1 DEF IInv, RetrievedOk, ShownOk
<1>3. TypeOK /\ ShownOk /\ unread \in Nat /\ label \in [Folders -> Nat]
      /\ tree' \in [Folders -> SUBSET Mails]
  BY <1>1 DEF IInv, TypeOK
<1>4. Asks(f, {m}) /\ Activates(f, {m}) /\ Counts({m}, unread, label)
  BY <1>1, <1>3, ShowMailShows
<1>5. loaded' \subseteq Mails /\ \A x \in loaded' : Folder(x) \in retrieved
  BY <1>1 DEF IInv, TypeOK, RetrievedOk
<1> QED
  BY <1>1, <1>2, <1>4, <1>5, ShowsKnown

LEMMA ArrowKeyStep == ASSUME IInv, ArrowKey PROVE IInv'
<1>1. /\ active[selected] \in tree[selected]
      /\ UNCHANGED <<selected, retrieved, tree, list, loaded, loading, poll, arrived, cameRead, slips>>
  BY DEF ArrowKey
<1>2. PICK m \in Siblings(selected, active[selected]) : ShowMail(selected, m, unread, label)
  BY DEF ArrowKey
<1>3. TypeOK /\ ShownOk /\ selected \in Folders /\ unread \in Nat /\ label \in [Folders -> Nat]
      /\ tree' \in [Folders -> SUBSET Mails] /\ tree[selected] \in SUBSET Mails
  BY <1>1 DEF IInv, TypeOK
<1>4. m \in tree[selected]
  <2> DEFINE Older == {o \in tree[selected] : o < active[selected]}
             Newer == {o \in tree[selected] : o > active[selected]}
  <2>1. Older \in SUBSET Mails /\ Newer \in SUBSET Mails
        /\ Older \subseteq tree[selected] /\ Newer \subseteq tree[selected]
    BY <1>3
  <2>2. m \in (IF Older = {} THEN {} ELSE {Max(Older)}) \cup (IF Newer = {} THEN {} ELSE {Min(Newer)})
    BY <1>2 DEF Siblings
  <2> HIDE DEF Older, Newer
  <2>3. Older # {} => Max(Older) \in Older
    BY <2>1, MaxIsIn
  <2>4. Newer # {} => Min(Newer) \in Newer
    BY <2>1, MinIsIn
  <2> QED
    BY <2>1, <2>2, <2>3, <2>4
<1>5. m \in Mails /\ RowOk(selected, m)
  BY <1>3, <1>4 DEF RowOk, Known, IInv, TreesOk
<1>6. selected \in retrieved
  BY <1>1, <1>3, FolderViewAssumption DEF IInv, RetrievedOk
<1>7. Asks(selected, {m}) /\ Activates(selected, {m}) /\ Counts({m}, unread, label)
  BY <1>2, <1>3, <1>5, ShowMailShows
<1>8. loaded' \subseteq Mails /\ \A x \in loaded' : Folder(x) \in retrieved
  BY <1>1 DEF IInv, TypeOK, RetrievedOk
<1> QED
  BY <1>1, <1>5, <1>6, <1>7, <1>8, ShowsKnown

LEMMA ContentReplyStep ==
  ASSUME IInv, NEW f \in Folders, NEW m \in Mails, ContentReply(f, m) PROVE IInv'
<1>1. /\ asking[f][m] > 0 /\ asking' = [asking EXCEPT ![f][m] = @ - 1]
      /\ loaded' = loaded \cup {m}
      /\ UNCHANGED <<selected, retrieved, tree, list, loading, poll, arrived, cameRead, slips>>
      /\ Present(f, m, unread, label)
  BY DEF ContentReply
<1>2. f \in retrieved /\ RowOk(f, m)
  BY <1>1 DEF IInv, RetrievedOk, ShownOk
<1>3. TypeOK /\ ShownOk /\ unread \in Nat /\ label \in [Folders -> Nat]
      /\ tree' \in [Folders -> SUBSET Mails]
  BY <1>1 DEF IInv, TypeOK
<1>4. Activates(f, {m}) /\ Counts({m}, unread, label)
  BY <1>1, <1>3, PresentShows
<1>5. Asks(f, {m})
  BY <1>1, <1>3, OneAskLess
<1>6. loaded' \subseteq Mails /\ \A x \in loaded' : Folder(x) \in retrieved
  BY <1>1, <1>2 DEF IInv, TypeOK, RetrievedOk, TreesOk, RowOk
<1> QED
  BY <1>1, <1>2, <1>4, <1>5, <1>6, ShowsKnown

-----------------------------------------------------------------------------
LEMMA RowsOfFolder ==
  ASSUME list' = {<<selected', m>> : m \in tree'[selected']}
  PROVE  ListShowsFolder'
<1>1. \A m \in tree'[selected'] : <<selected', m>> \in list' /\ <<selected', m>>[2] = m
  OBVIOUS
<1>2. \A r \in list' : r[2] \in tree'[selected']
  OBVIOUS
<1>3. ASSUME NEW m \in tree'[selected'] PROVE m \in {r[2] : r \in list'}
  <2>1. PICK r \in list' : r[2] = m
    BY <1>1
  <2> QED
    BY <2>1
<1> QED
  BY <1>2, <1>3 DEF ListShowsFolder

LEMMA SwitchStep == ASSUME IInv, NEW f \in Folders, SwitchTo(f) PROVE IInv'
<1>1. /\ f # selected /\ selected' = f /\ tree' = tree
      /\ UNCHANGED <<retrieved, loaded, poll, arrived, cameRead>>
      /\ slips' = (slips \ {"late"})
                   \cup (IF f \notin retrieved /\ loading[f] > 0 THEN {"reload"} ELSE {})
  BY DEF SwitchTo
<1>2. TypeOK /\ ShownOk /\ unread \in Nat /\ label \in [Folders -> Nat]
      /\ tree' \in [Folders -> SUBSET Mails]
  BY <1>1 DEF IInv, TypeOK
<1>3. slips' \subseteq {"late", "reload", "spam"} /\ slips \cap {"reload", "spam"} \subseteq slips'
  BY <1>1, <1>2 DEF TypeOK
<1>4. MailsType' /\ TreesOk' /\ LoadedOk'
  BY <1>1 DEF IInv, TypeOK, MailsType, TreesOk, Known, RetrievedOk, LoadedOk
<1>5. Known' = Known /\ Known \cap NewMails \subseteq arrived
  BY <1>1 DEF Known, IInv, ShownOk
<1>6. CASE f \in retrieved
  <2>1. RenderContent(f, unread, label) /\ loading' = loading
    BY <1>6 DEF SwitchTo
  <2>2. list' = {<<f, m>> : m \in tree[f]}
    BY <1>1, <2>1 DEF RenderContent
  <2>3. PICK S \in SUBSET tree'[f] : Asks(f, S) /\ Activates(f, S) /\ Counts(S, unread, label)
    BY <1>2, <2>1, RenderShows
  <2>4. \A m \in tree[f] : RowOk(f, m)
    BY DEF IInv, TreesOk, RowOk, Known
  <2>5. RowsOk'
    BY <1>1, <1>2, <2>2, <2>4 DEF RowsOk, RowOk, Known
  <2>6. S \in SUBSET Known' /\ \A m \in S : f = Folder(m) \/ Folder(m) = SPAM
    BY <1>1, <1>5, <2>4 DEF RowOk
  <2>7. slips' \cap {"reload", "spam"} = {} => unread = Unread(Known', seen \ CountedForGood)
    BY <1>3, <1>5 DEF IInv, UnreadExact, Known
  <2>8. \A g \in Folders : Fits(label[g], tree'[g], seen, rowless)
    BY <1>1 DEF IInv, LabelsExact, Fits
  <2>9. f \in retrieved' /\ selected' \in {selected, f}
        /\ retrieved \subseteq retrieved' /\ retrieved' \subseteq Folders
    BY <1>1, <1>2, <1>6 DEF TypeOK
  <2>10. /\ ShownType' /\ ShownOk' /\ RetrievedOk'
         /\ DetailsAreActive' /\ UnreadExact' /\ LabelsExact'
    BY <1>1, <1>2, <1>3, <1>4, <1>5, <2>3, <2>5, <2>6, <2>7, <2>8, <2>9, ShowsKeep
  <2>11. TypeOK'
    BY <1>1, <1>2, <1>3, <2>1, <2>10 DEF TypeOK, ShownType
  <2>12. LoadsOk'
    BY <1>1, <2>1 DEF IInv, LoadsOk
  <2>13. ListShowsFolder'
    <3>1. list' = {<<selected', m>> : m \in tree'[selected']}
      BY <1>1, <2>2
    <3> QED
      BY <3>1, RowsOfFolder
  <2> QED
    BY <1>4, <2>10, <2>11, <2>12, <2>13 DEF IInv
<1>7. CASE f \notin retrieved
  <2>1. /\ loading[f] < MaxLoads /\ loading' = [loading EXCEPT ![f] = @ + 1]
        /\ list' = {}
        /\ UNCHANGED <<active, details, seen, rowless, unread, label, asking>>
    BY <1>7 DEF SwitchTo
  <2>2. loading[f] + 1 \in 0..MaxLoads
    BY <1>2, <2>1, LoadType
  <2>3. TypeOK'
    BY <1>1, <1>2, <1>3, <2>1, <2>2 DEF TypeOK
  <2>4. ShownOk' /\ RetrievedOk'
    BY <1>1, <1>5, <2>1 DEF IInv, ShownOk, RowOk, RetrievedOk
  <2>5. LoadsOk'
    <3> SUFFICES ASSUME "reload" \notin slips', NEW g \in Folders, loading'[g] > 0
                 PROVE  loading'[g] = 1 /\ g \notin retrieved'
      BY DEF LoadsOk
    <3>1. ~(loading[f] > 0) /\ "reload" \notin slips
      BY <1>1, <1>7
    <3>2. loading[f] \in 0..MaxLoads /\ MaxLoads \in Nat
      BY <1>2, LoadType
    <3>3. CASE g = f
      <4>1. loading'[f] = loading[f] + 1
        BY <1>2, <2>1 DEF TypeOK
      <4> QED
        BY <1>1, <1>7, <3>1, <3>2, <3>3, <4>1
    <3>4. CASE g # f
      <4>1. loading'[g] = loading[g]
        BY <1>2, <2>1, <3>4 DEF TypeOK
      <4> QED
        BY <1>1, <3>1, <4>1 DEF IInv, LoadsOk
    <3> QED
      BY <3>3, <3>4
  <2>6. ListShowsFolder'
    BY <1>1, <1>7 DEF ListShowsFolder
  <2>7. DetailsAreActive'
    BY <1>1, <1>7, <2>1 DEF DetailsAreActive, IInv, RetrievedOk
  <2>8. UnreadExact' /\ LabelsExact'
    BY <1>1, <1>3, <2>1 DEF UnreadExact, CountedForGood, LabelsExact, IInv
  <2> QED
    BY <1>4, <2>3, <2>4, <2>5, <2>6, <2>7, <2>8 DEF IInv
<1> QED
  BY <1>6, <1>7
-----------------------------------------------------------------------------
(* Steps that bring mails.                                                 *)

LEMMA UnreadEmpty == ASSUME NEW s PROVE Unread({}, s) = 0
<1>1. {} \ s = {}
  OBVIOUS
<1> QED
  BY <1>1, FS_EmptySet DEF Unread

\* Spam is counted once, unless older spam is unread.  s is what is seen with it.
LEMMA SpamCounts ==
  ASSUME IInv, NEW spam \in SUBSET Mails, NEW s, seen \subseteq s
  PROVE  /\ AddedSpam(spam, s) \in Nat
         /\ SpamSlip(spam) \subseteq {"spam"}
         /\ "spam" \notin SpamSlip(spam) => AddedSpam(spam, s) = Unread(spam, s)
<1>1. TypeOK /\ SPAM \in Folders /\ tree[SPAM] \in SUBSET Mails
  BY DEF IInv, TypeOK, Folders
<1>2. tree[SPAM] \cup spam \in SUBSET Mails
  BY <1>1
<1>3. AddedSpam(spam, s) \in Nat
  BY <1>2, UnreadType DEF AddedSpam
<1>4. ASSUME "spam" \notin SpamSlip(spam) PROVE AddedSpam(spam, s) = Unread(spam, s)
  <2>1. CASE spam = {}
    BY <2>1, UnreadEmpty DEF AddedSpam
  <2>2. CASE spam # {}
    <3>1. ~(Unread(tree[SPAM], seen) > 0)
      BY <1>4, <2>2 DEF SpamSlip
    <3>2. Unread(tree[SPAM], seen) = 0
      BY <1>1, <3>1, UnreadType
    <3>3. tree[SPAM] \ seen \in SUBSET Mails /\ Cardinality(tree[SPAM] \ seen) = 0
      BY <1>1, <3>2 DEF Unread
    <3>4. IsFiniteSet(tree[SPAM] \ seen)
      BY <3>3, CardType
    <3>5. tree[SPAM] \ seen = {}
      BY <3>3, <3>4, FS_EmptySet
    <3>6. (tree[SPAM] \cup spam) \ s = spam \ s
      BY <3>5
    <3> QED
      BY <2>2, <3>6 DEF AddedSpam, Unread
  <2> QED
    BY <2>1, <2>2
<1> QED
  BY <1>3, <1>4 DEF SpamSlip

\* Mails that come: rest for folder f, and spam.
Come(f, rest, spam) ==
  /\ f \in Folders /\ rest \in SUBSET Mails /\ spam \in SUBSET Mails
  /\ \A m \in rest : Folder(m) = f
  /\ \A m \in spam : Folder(m) = SPAM
  /\ tree' = [tree EXCEPT ![f] = @ \cup rest, ![SPAM] = @ \cup spam]

LEMMA ComingMails ==
  ASSUME IInv, NEW f, NEW rest, NEW spam, Come(f, rest, spam)
  PROVE  /\ MailsType' /\ Known' = Known \cup rest \cup spam
         /\ \A g \in Folders : \A m \in tree'[g] : Folder(m) = g
         /\ \A g \in Folders : g # f /\ g # SPAM => tree'[g] = tree[g]
         /\ tree[f] \cup rest \subseteq tree'[f] /\ tree[SPAM] \cup spam \subseteq tree'[SPAM]
         /\ f # SPAM => tree'[f] = tree[f] \cup rest /\ tree'[SPAM] = tree[SPAM] \cup spam
<1> USE DEF Come
<1>1. TypeOK /\ SPAM \in Folders
  BY DEF IInv, TypeOK, Folders
<1>2. \A g \in Folders : tree'[g] = tree[g] \cup (IF g = f THEN rest ELSE {})
                                            \cup (IF g = SPAM THEN spam ELSE {})
  BY <1>1 DEF TypeOK
<1>3. tree' \in [Folders -> SUBSET Mails]
  BY <1>1 DEF TypeOK
<1>4. UNION {tree'[g] : g \in Folders} = Known \cup rest \cup spam
  <2>1. ASSUME NEW g \in Folders
        PROVE  tree'[g] \subseteq Known \cup rest \cup spam /\ tree[g] \subseteq tree'[g]
    <3>1. tree[g] \subseteq Known
      BY <1>1, KnownMails
    <3>2. tree'[g] = tree[g] \cup (IF g = f THEN rest ELSE {}) \cup (IF g = SPAM THEN spam ELSE {})
      BY <1>2
    <3> QED
      BY <3>1, <3>2
  <2>2. rest \subseteq tree'[f] /\ spam \subseteq tree'[SPAM]
    BY <1>1, <1>2
  <2> QED
    BY <1>1, <2>1, <2>2 DEF Known
<1>5. \A g \in Folders : \A m \in tree'[g] : Folder(m) = g
  BY <1>2 DEF IInv, TreesOk
<1> QED
  BY <1>1, <1>2, <1>3, <1>4, <1>5 DEF MailsType, Known

\* Labels of folders no mail came to are left alone; s is what is seen with them.
Relabelled(f, lab, s) ==
  lab = [label EXCEPT ![f] = Unread(tree'[f], s), ![SPAM] = Unread(tree'[SPAM], s)]

LEMMA ComingLabels ==
  ASSUME IInv, NEW f \in Folders, NEW lab, MailsType',
         \A g \in Folders : g # f /\ g # SPAM => tree'[g] = tree[g],
         NEW s, seen \subseteq s, s \cap Known \subseteq seen, Relabelled(f, lab, s)
  PROVE  lab \in [Folders -> Nat] /\ \A g \in Folders : Fits(lab[g], tree'[g], s, rowless)
<1>1. SPAM \in Folders /\ label \in [Folders -> Nat]
  BY DEF IInv, TypeOK, Folders
<1>2. \A g \in Folders : tree'[g] \in SUBSET Mails /\ Unread(tree'[g], s) \in Nat
  BY UnreadType DEF MailsType
<1>3. PICK c \in Nat, e \in Nat : c = Unread(tree'[f], s) /\ e = Unread(tree'[SPAM], s)
  BY <1>1, <1>2
<1>4. lab = [label EXCEPT ![f] = c, ![SPAM] = e]
  BY <1>3 DEF Relabelled
<1>5. lab \in [Folders -> Nat] /\ lab[SPAM] = e /\ (f # SPAM => lab[f] = c)
      /\ \A g \in Folders : g # f /\ g # SPAM => lab[g] = label[g]
  BY <1>1, <1>4
<1>6. ASSUME NEW g \in Folders, g # f, g # SPAM PROVE Fits(lab[g], tree'[g], s, rowless)
  <2>1. tree'[g] = tree[g] /\ tree[g] \subseteq Known
    BY <1>6 DEF Known
  <2>2. tree[g] \ s = tree[g] \ seen /\ tree[g] \ (s \ rowless) = tree[g] \ (seen \ rowless)
    BY <2>1
  <2>3. Fits(label[g], tree[g], seen, rowless)
    BY DEF IInv, LabelsExact, Fits
  <2> QED
    BY <1>5, <1>6, <2>1, <2>2, <2>3 DEF Fits, Unread
<1>7. Fits(c, tree'[f], s, rowless) /\ Fits(e, tree'[SPAM], s, rowless)
  BY <1>1, <1>2, <1>3, ExactFits
<1> QED
  BY <1>5, <1>6, <1>7
\* The answer with the mails of a folder.  Unless it was asked for twice, none of
\* them is known yet, and an exception keeps none from being counted.
LEMMA LoadReplyStep == ASSUME IInv, NEW f \in Folders, LoadReply(f) PROVE IInv'
<1> DEFINE mails == {m \in Mails \ NewMails : ServerFolder[m] = f}
           spam == mails \cap SpamMails
           rest == mails \ spam
           thrown == IF RenderThrows(f) THEN 0 ELSE Unread(rest, seen)
           n == unread + AddedSpam(spam, seen) + thrown
           lab == [label EXCEPT ![f] = Unread(tree'[f], seen), ![SPAM] = Unread(tree'[SPAM], seen)]
<1>1. /\ loading[f] > 0 /\ loading' = [loading EXCEPT ![f] = @ - 1]
      /\ retrieved' = retrieved \cup {f}
      /\ tree' = [tree EXCEPT ![f] = @ \cup rest, ![SPAM] = @ \cup spam]
      /\ UNCHANGED <<selected, loaded, poll, arrived, cameRead>>
      /\ RenderContent(f, n, lab)
      /\ slips' = (IF f = selected THEN slips \ {"late"} ELSE slips \cup {"late"}) \cup SpamSlip(spam)
  BY DEF LoadReply
<1>2. TypeOK /\ unread \in Nat /\ SPAM \in Folders
  BY DEF IInv, TypeOK, Folders
<1>3. /\ rest \in SUBSET Mails /\ spam \in SUBSET Mails
      /\ \A m \in rest : Folder(m) = f
      /\ \A m \in spam : Folder(m) = SPAM
      /\ (rest \cup spam) \cap NewMails = {}
      /\ \A m \in rest \cup spam : ServerFolder[m] = f
  BY DEF Folder
<1> HIDE DEF spam, rest
<1>4. /\ AddedSpam(spam, seen) \in Nat
      /\ SpamSlip(spam) \subseteq {"spam"}
      /\ "spam" \notin SpamSlip(spam) => AddedSpam(spam, seen) = Unread(spam, seen)
  BY <1>3, SpamCounts
<1>5. /\ MailsType' /\ Known' = Known \cup rest \cup spam
      /\ \A g \in Folders : \A m \in tree'[g] : Folder(m) = g
      /\ \A g \in Folders : g # f /\ g # SPAM => tree'[g] = tree[g]
      /\ tree[f] \cup rest \subseteq tree'[f]
      /\ f # SPAM => tree'[f] = tree[f] \cup rest
  <2>1. Come(f, rest, spam)
    BY <1>1, <1>3 DEF Come
  <2> QED
    BY <2>1, ComingMails
<1>6. lab \in [Folders -> Nat] /\ \A g \in Folders : Fits(lab[g], tree'[g], seen, rowless)
  <2>1. Relabelled(f, lab, seen)
    BY DEF Relabelled
  <2> HIDE DEF lab
  <2> QED
    BY <1>5, <2>1, ComingLabels
<1>7. thrown \in Nat /\ n \in Nat
  <2>1. Unread(rest, seen) \in Nat
    BY <1>3, UnreadType
  <2> QED
    BY <1>2, <1>4, <2>1
<1>8. slips' \subseteq {"late", "reload", "spam"} /\ slips \cap {"reload", "spam"} \subseteq slips'
      /\ SpamSlip(spam) \subseteq slips'
  BY <1>1, <1>2, <1>4 DEF TypeOK
<1>9. TreesOk'
  <2>1. \A m \in Known' \ NewMails : ServerFolder[m] \in retrieved'
    BY <1>1, <1>3, <1>5 DEF IInv, TreesOk
  <2>2. SPAM \in retrieved'
    BY <1>1 DEF IInv, TreesOk
  <2> QED
    BY <1>5, <2>1, <2>2 DEF TreesOk
<1>10. RowsOk' /\ list' = {<<f, m>> : m \in tree'[f]}
  <2>1. list' = {<<f, m>> : m \in tree'[f]}
    BY <1>1 DEF RenderContent
  <2>2. \A m \in tree'[f] : m \in Mails /\ m \in Known' /\ Folder(m) = f
    BY <1>5 DEF MailsType, Known
  <2>3. \A r \in list' : r \in Folders \X Mails /\ RowOk(r[1], r[2])'
    BY <2>1, <2>2 DEF RowOk
  <2> QED
    BY <2>1, <2>3 DEF RowsOk
<1>11. LoadedOk'
  BY <1>1 DEF IInv, TypeOK, RetrievedOk, LoadedOk
<1>12. PICK S \in SUBSET tree'[f] : Asks(f, S) /\ Activates(f, S) /\ Counts(S, n, lab)
  <2>1. tree' \in [Folders -> SUBSET Mails] /\ ShownOk
    BY <1>5 DEF MailsType, IInv
  <2> HIDE DEF n, lab
  <2> QED
    BY <1>1, <1>2, <1>6, <1>7, <2>1, RenderShows
<1>13. S \in SUBSET Known' /\ \A m \in S : f = Folder(m) \/ Folder(m) = SPAM
  BY <1>5 DEF Known
<1>14. Known \subseteq Known' /\ Known' \cap NewMails \subseteq arrived
  BY <1>3, <1>5 DEF IInv, ShownOk
<1>15. ASSUME slips' \cap {"reload", "spam"} = {} PROVE n = Unread(Known', seen \ CountedForGood)
  <2>1. /\ "reload" \notin slips /\ "spam" \notin slips /\ "spam" \notin SpamSlip(spam)
    BY <1>8, <1>15
  <2>2. f \notin retrieved
    BY <1>1, <2>1 DEF IInv, LoadsOk
  <2>3. f # SPAM
    BY <2>2 DEF IInv, TreesOk
  <2>4. tree'[f] = tree[f] \cup rest
    BY <1>5, <2>3
  <2>5. thrown = Unread(rest, seen)
    <3> SUFFICES ASSUME RenderThrows(f) PROVE Unread(rest, seen) = 0
      BY DEF thrown
    <3>1. CASE tree'[f] = {}
      <4>1. rest = {}
        BY <2>4, <3>1
      <4> QED
        BY <4>1, UnreadEmpty
    <3>2. CASE tree'[f] # {}
      <4>1. Max(tree'[f]) \in loaded
        BY <3>2 DEF RenderThrows
      <4>2. tree'[f] \in SUBSET Mails
        BY <1>5 DEF MailsType
      <4>3. Max(tree'[f]) \in tree'[f]
        BY <3>2, <4>2, MaxIsIn
      <4>4. Folder(Max(tree'[f])) = f
        BY <1>5, <4>3
      <4> QED
        BY <2>2, <4>1, <4>4 DEF IInv, RetrievedOk
    <3> QED
      BY <3>1, <3>2
  <2>6. Known \cap (rest \cup spam) = {} /\ rest \cap spam = {}
    <3>1. \A m \in Known \ NewMails : ServerFolder[m] # f
      BY <2>2 DEF IInv, TreesOk
    <3> QED
      BY <1>3, <3>1 DEF rest
  <2>7. (rest \cup spam) \cap CountedForGood = {}
    <3>1. rowless \subseteq Known /\ cameRead \subseteq NewMails
      BY DEF IInv, ShownOk, TypeOK
    <3> QED
      BY <1>3, <2>6, <3>1 DEF CountedForGood
  <2> DEFINE counted == seen \ CountedForGood
  <2>8. Unread(rest, counted) = Unread(rest, seen) /\ Unread(spam, counted) = Unread(spam, seen)
    <3>1. rest \ counted = rest \ seen /\ spam \ counted = spam \ seen
      BY <2>7
    <3> QED
      BY <3>1 DEF Unread
  <2>9. unread = Unread(Known, counted)
    BY <2>1 DEF IInv, UnreadExact, Known
  <2> HIDE DEF counted
  <2>10. Known \in SUBSET Mails /\ Known \cup rest \in SUBSET Mails
    BY <1>2, <1>3, KnownType
  <2>11. Unread(Known \cup rest, counted) = Unread(Known, counted) + Unread(rest, counted)
    BY <1>3, <2>6, <2>10, UnreadUnion
  <2>12. Unread(Known', counted) = Unread(Known \cup rest, counted) + Unread(spam, counted)
    <3>1. (Known \cup rest) \cap spam \subseteq counted
      BY <2>6
    <3> QED
      BY <1>3, <1>5, <2>10, <3>1, UnreadUnion
  <2>13. Unread(Known, counted) \in Nat /\ Unread(rest, counted) \in Nat /\ Unread(spam, counted) \in Nat
    BY <1>3, <2>10, UnreadType
  <2>14. AddedSpam(spam, seen) = Unread(spam, seen)
    BY <1>4, <2>1
  <2>15. n = Unread(Known', counted)
    <3> HIDE DEF thrown
    <3> QED
      BY <2>5, <2>8, <2>9, <2>11, <2>12, <2>13, <2>14 DEF n
  <2> QED
    BY <2>15 DEF counted
<1>16. /\ ShownType' /\ ShownOk' /\ RetrievedOk'
       /\ DetailsAreActive' /\ UnreadExact' /\ LabelsExact'
  <2>1. f \in retrieved' /\ selected' \in {selected, f}
        /\ retrieved \subseteq retrieved' /\ retrieved' \subseteq Folders
        /\ arrived' = arrived /\ cameRead' = cameRead
    BY <1>1, <1>2 DEF TypeOK
  <2> HIDE DEF n, lab
  <2> QED
    BY <1>5, <1>6, <1>7, <1>8, <1>9, <1>10, <1>11, <1>12, <1>13, <1>14, <1>15, <2>1, ShowsKeep
<1>17. TypeOK'
  <2>1. loading[f] - 1 \in 0..MaxLoads
    BY <1>1, <1>2, LoadType
  <2>2. loading' \in [Folders -> 0..MaxLoads]
    BY <1>1, <1>2, <2>1 DEF TypeOK
  <2> QED
    BY <1>1, <1>2, <1>5, <1>8, <1>16, <2>2 DEF TypeOK, MailsType, ShownType
<1>18. LoadsOk'
  <2> SUFFICES ASSUME "reload" \notin slips', NEW g \in Folders, loading'[g] > 0
               PROVE  loading'[g] = 1 /\ g \notin retrieved'
    BY DEF LoadsOk
  <2>1. "reload" \notin slips
    BY <1>8
  <2>2. loading[f] = 1
    BY <1>1, <2>1 DEF IInv, LoadsOk
  <2>3. loading'[f] = 0
    BY <1>1, <1>2, <2>2 DEF TypeOK
  <2>4. g # f
    BY <2>3
  <2>5. loading'[g] = loading[g]
    BY <1>1, <1>2, <2>4 DEF TypeOK
  <2> QED
    BY <1>1, <2>1, <2>4, <2>5 DEF IInv, LoadsOk
<1>19. ListShowsFolder'
  <2>1. CASE f = selected
    <3>1. list' = {<<selected', m>> : m \in tree'[selected']}
      BY <1>1, <1>10, <2>1
    <3> QED
      BY <3>1, RowsOfFolder
  <2>2. CASE f # selected
    BY <1>1, <2>2 DEF ListShowsFolder
  <2> QED
    BY <2>1, <2>2
<1> QED
  BY <1>9, <1>16, <1>17, <1>18, <1>19 DEF IInv
\* The answer with new mails: none of them is known, read ones are counted too.
LEMMA PollReplyStep ==
  ASSUME IInv, NEW new \in SUBSET NewMails, NEW read \in SUBSET new, PollReply(new, read)
  PROVE  IInv'
<1> DEFINE spam == new \cap SpamMails
           rest == new \ spam
<1>1. /\ poll' = "timer" /\ new \subseteq NewMails \ arrived /\ arrived' = arrived \cup new
      /\ seen' = seen \cup read /\ cameRead' = cameRead \cup (read \cap rest)
      /\ list' = list \cup {<<INBOX, m>> : m \in new}
      /\ tree' = [tree EXCEPT ![INBOX] = @ \cup rest, ![SPAM] = @ \cup spam]
      /\ unread' = unread + AddedSpam(spam, seen') + Cardinality(rest)
      /\ label' = [label EXCEPT ![INBOX] = Unread(tree'[INBOX], seen'), ![SPAM] = Unread(tree'[SPAM], seen')]
      /\ slips' = slips \cup SpamSlip(spam)
      /\ UNCHANGED <<selected, retrieved, active, details, loaded, rowless, loading, asking>>
  BY DEF PollReply
<1>2. TypeOK /\ INBOX \in Folders /\ SPAM \in Folders /\ INBOX # SPAM /\ unread \in Nat
  BY DEF IInv, TypeOK, Folders, INBOX, SPAM
<1>3. /\ rest \in SUBSET Mails /\ spam \in SUBSET Mails
      /\ \A m \in rest : Folder(m) = INBOX
      /\ \A m \in spam : Folder(m) = SPAM
      /\ new = rest \cup spam /\ rest \cap spam = {} /\ new \subseteq Mails
  BY FolderViewAssumption DEF Folder
<1> HIDE DEF spam, rest
<1>4. /\ AddedSpam(spam, seen') \in Nat
      /\ SpamSlip(spam) \subseteq {"spam"}
      /\ "spam" \notin SpamSlip(spam) => AddedSpam(spam, seen') = Unread(spam, seen')
  BY <1>1, <1>3, SpamCounts
<1>5. /\ MailsType' /\ Known' = Known \cup rest \cup spam
      /\ \A g \in Folders : \A m \in tree'[g] : Folder(m) = g
      /\ \A g \in Folders : g # INBOX /\ g # SPAM => tree'[g] = tree[g]
      /\ tree'[INBOX] = tree[INBOX] \cup rest /\ tree'[SPAM] = tree[SPAM] \cup spam
  <2>1. Come(INBOX, rest, spam)
    BY <1>1, <1>2, <1>3 DEF Come
  <2> QED
    BY <1>2, <2>1, ComingMails
<1>6. Known' = Known \cup new /\ Known \cap new = {} /\ Known \in SUBSET Mails
  <2>1. Known \cap new = {}
    BY <1>1 DEF IInv, ShownOk
  <2> QED
    BY <1>2, <1>3, <1>5, <2>1, KnownType
<1>7. label' \in [Folders -> Nat] /\ \A g \in Folders : Fits(label'[g], tree'[g], seen', rowless)
  <2>1. Relabelled(INBOX, label', seen')
    BY <1>1 DEF Relabelled
  <2>2. seen \subseteq seen' /\ seen' \cap Known \subseteq seen
    BY <1>1, <1>6
  <2> QED
    BY <1>2, <1>5, <2>1, <2>2, ComingLabels
<1>8. TypeOK'
  <2>1. unread' \in Nat
    <3>1. Cardinality(rest) \in Nat
      BY <1>3, CardType
    <3> QED
      BY <1>1, <1>2, <1>4, <3>1
  <2>2. list' \subseteq Folders \X Mails /\ arrived' \subseteq NewMails /\ cameRead' \subseteq arrived'
        /\ seen' \subseteq Mails /\ slips' \subseteq {"late", "reload", "spam"}
    <3>1. \A m \in new : <<INBOX, m>> \in Folders \X Mails
      BY <1>2, <1>3
    <3>2. list' \subseteq Folders \X Mails
      BY <1>1, <1>2, <3>1 DEF TypeOK
    <3>3. arrived' \subseteq NewMails /\ cameRead' \subseteq arrived'
          /\ seen' \subseteq Mails /\ slips' \subseteq {"late", "reload", "spam"}
      BY <1>1, <1>2, <1>3, <1>4 DEF TypeOK
    <3> QED
      BY <3>2, <3>3
  <2> QED
    BY <1>1, <1>2, <1>5, <1>7, <2>1, <2>2 DEF TypeOK, MailsType
<1>9. TreesOk'
  <2>1. \A m \in Known' \ NewMails : ServerFolder[m] \in retrieved'
    BY <1>1, <1>6 DEF IInv, TreesOk
  <2> QED
    BY <1>1, <1>5, <2>1 DEF IInv, TreesOk
<1>10. ShownOk'
  <2>1. /\ Known' \cap NewMails \subseteq arrived' /\ seen' \subseteq ReadMails \cup Known'
        /\ rowless' \subseteq seen' \cap Known' /\ cameRead' \subseteq seen'
    BY <1>1, <1>6 DEF IInv, ShownOk
  <2>2. ASSUME NEW r \in list' PROVE RowOk(r[1], r[2])'
    <3>1. CASE r \in list
      BY <1>6, <3>1 DEF IInv, ShownOk, RowOk
    <3>2. CASE \E m \in new : r = <<INBOX, m>>
      BY <1>3, <1>6, <3>2 DEF RowOk
    <3> QED
      BY <1>1, <3>1, <3>2
  <2>3. ASSUME NEW g \in Folders, NEW m \in Mails, asking'[g][m] > 0 PROVE RowOk(g, m)'
    BY <1>1, <1>6, <2>3 DEF IInv, ShownOk, RowOk
  <2> QED
    BY <2>1, <2>2, <2>3 DEF ShownOk
<1>11. RetrievedOk' /\ LoadsOk' /\ DetailsAreActive'
  <2>1. "reload" \notin slips' => "reload" \notin slips
    BY <1>1
  <2> QED
    BY <1>1, <2>1 DEF IInv, RetrievedOk, LoadsOk, DetailsAreActive
<1>12. ListShowsFolder'
  <2> DEFINE shown == {r[2] : r \in list}
             shownThen == {r[2] : r \in list'}
  <2> SUFFICES ASSUME "late" \notin slips', selected' \in retrieved'
               PROVE  tree'[selected'] \subseteq shownThen
                      /\ shownThen \subseteq tree'[selected'] \cup arrived'
    BY DEF ListShowsFolder
  <2>1. tree[selected] \subseteq shown /\ shown \subseteq tree[selected] \cup arrived
    BY <1>1 DEF IInv, ListShowsFolder
  <2>2. shownThen = shown \cup new
    <3>1. \A m \in new : <<INBOX, m>> \in list' /\ <<INBOX, m>>[2] = m
      BY <1>1
    <3>2. ASSUME NEW m \in new PROVE m \in shownThen
      <4>1. PICK r \in list' : r[2] = m
        BY <3>1
      <4> QED
        BY <4>1
    <3>3. shown \subseteq shownThen
      BY <1>1
    <3>4. \A r \in list' : r \in list \/ r[2] \in new
      BY <1>1
    <3> QED
      BY <3>2, <3>3, <3>4
  <2> HIDE DEF shown, shownThen
  <2>3. tree[selected] \subseteq tree'[selected] /\ tree'[selected] \subseteq tree[selected] \cup new
    <3>1. selected \in Folders
      BY <1>2 DEF TypeOK
    <3> QED
      BY <1>3, <1>5, <3>1
  <2> QED
    BY <1>1, <2>1, <2>2, <2>3
<1>13. UnreadExact'
  <2> DEFINE counted == seen \ CountedForGood
             then == seen' \ CountedForGood'
  <2> SUFFICES ASSUME slips' \cap {"reload", "spam"} = {} PROVE unread' = Unread(Known', then)
    BY DEF UnreadExact, Known
  <2>1. slips \cap {"reload", "spam"} = {} /\ "spam" \notin SpamSlip(spam)
    BY <1>1
  <2>2. unread = Unread(Known, counted)
    BY <2>1 DEF IInv, UnreadExact, Known
  <2>3. /\ Known \ then = Known \ counted
        /\ rest \ then = rest
        /\ spam \ then = spam \ seen'
    <3>1. rowless \subseteq Known /\ cameRead \subseteq arrived /\ rowless' = rowless
      BY <1>1 DEF IInv, ShownOk, TypeOK
    <3>2. CountedForGood' = CountedForGood \cup (read \cap rest)
      BY <1>1 DEF CountedForGood
    <3>3. CountedForGood \cap new = {} /\ new = rest \cup spam /\ rest \cap spam = {}
      BY <1>1, <1>3, <1>6, <3>1 DEF CountedForGood
    <3>4. Known \ then = Known \ counted
      BY <1>1, <1>6, <3>2
    <3>5. rest \cap seen' \subseteq read
      <4>1. seen \cap new = {}
        BY <1>1, <1>6, FolderViewAssumption DEF IInv, ShownOk
      <4> QED
        BY <1>1, <1>3, <4>1
    <3>6. rest \ then = rest /\ spam \ then = spam \ seen'
      BY <1>1, <3>2, <3>3, <3>5
    <3> QED
      BY <3>4, <3>6
  <2> HIDE DEF counted, then
  <2>4. /\ Unread(Known, then) = Unread(Known, counted)
        /\ Unread(rest, then) = Cardinality(rest)
        /\ Unread(spam, then) = Unread(spam, seen')
    BY <2>3 DEF Unread
  <2>5. Known \cup rest \in SUBSET Mails
    BY <1>3, <1>6
  <2>6. Unread(Known \cup rest, then) = Unread(Known, then) + Unread(rest, then)
    BY <1>3, <1>6, UnreadUnion
  <2>7. Unread((Known \cup rest) \cup spam, then) = Unread(Known \cup rest, then) + Unread(spam, then)
    <3>1. (Known \cup rest) \cap spam \subseteq then
      BY <1>3, <1>6
    <3> QED
      BY <1>3, <2>5, <3>1, UnreadUnion
  <2>8. Unread(Known, then) \in Nat /\ Unread(rest, then) \in Nat /\ Unread(spam, then) \in Nat
    BY <1>3, <1>6, UnreadType
  <2>9. unread' = Unread(Known, then) + Unread(spam, then) + Unread(rest, then)
    BY <1>1, <1>4, <2>1, <2>2, <2>4
  <2>10. Unread(Known', then) = Unread((Known \cup rest) \cup spam, then)
    BY <1>5
  <2> QED
    BY <2>6, <2>7, <2>8, <2>9, <2>10
<1>14. LabelsExact'
  BY <1>1, <1>7 DEF LabelsExact, Fits
<1> QED
  BY <1>8, <1>9, <1>10, <1>11, <1>12, <1>13, <1>14 DEF IInv

-----------------------------------------------------------------------------
LEMMA NextIInv == IInv /\ [Next]_vars => IInv'
<1> SUFFICES ASSUME IInv, [Next]_vars PROVE IInv'
  OBVIOUS
<1>1. CASE \E f \in Folders : SwitchTo(f) \/ LoadReply(f) \/ LoadFails(f)
  BY <1>1, SwitchStep, LoadReplyStep, LoadFailsStep
<1>2. CASE \E f \in Folders, m \in Mails : Click(f, m) \/ ContentReply(f, m) \/ ContentFails(f, m)
  BY <1>2, ClickStep, ContentReplyStep, ContentFailsStep
<1>3. CASE ArrowKey
  BY <1>3, ArrowKeyStep
<1>4. CASE PollTick \/ PollFails \/ UNCHANGED vars
  BY <1>4, PollStep
<1>5. CASE \E new \in SUBSET NewMails : \E read \in SUBSET new : PollReply(new, read)
  BY <1>5, PollReplyStep
<1> QED
  BY <1>1, <1>2, <1>3, <1>4, <1>5 DEF Next

LEMMA Invariance == Spec => []IInv
BY InitIInv, NextIInv, PTL DEF Spec

\* Every variable of the page stays in its type.
THEOREM TypeCorrect == Spec => []TypeOK
<1>1. IInv => TypeOK
  BY DEF IInv
<1> QED
  BY <1>1, Invariance, PTL

\* The overview shows the selected folder (mailboxfolder.js renderMailboxContent_,
\* synchFolder), unless a load was answered after its folder was left.
THEOREM ListIsOfFolder == Spec => []ListShowsFolder
<1>1. IInv => ListShowsFolder
  BY DEF IInv
<1> QED
  BY <1>1, Invariance, PTL

\* What the panel shows of the selected folder is its active mail (showMail), in
\* whatever order contents and folders arrive: nothing of a folder is shown before
\* it was retrieved, and an exception hits only folders that are not selected.
THEOREM PanelShowsActive == Spec => []DetailsAreActive
<1>1. IInv => DetailsAreActive
  BY DEF IInv
<1> QED
  BY <1>1, Invariance, PTL

\* The unread counter (mailhandler.js notifyAboutMails), unless a load or unread
\* spam was counted twice, is too high by the mails whose reading threw in setSeen
\* and those a poll brought read, and by no others.
THEOREM CounterIsExact == Spec => []UnreadExact
<1>1. IInv => UnreadExact
  BY DEF IInv
<1> QED
  BY <1>1, Invariance, PTL

\* The numbers in the navigation (updateNavigationBar): a folder object has only
\* mails of its folder, and reading one refreshes the label of that folder,
\* whichever is selected, unless setSeen throws, which leaves it too high.
THEOREM LabelsAreExact == Spec => []LabelsExact
<1>1. IInv => LabelsExact
  BY DEF IInv
<1> QED
  BY <1>1, Invariance, PTL
=============================================================================
