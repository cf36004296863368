--------------------------- MODULE SharedStoreProofs ---------------------------
(***************************************************************************)
(* Theorems about SharedStore for any writers, readers, contents and page  *)
(* sizes.                                                                  *)
(***************************************************************************)
EXTENDS SharedStore, FiniteSetTheorems, TLAPS

-------------------------------------------------------------------------------
(* Type correctness.                                                        *)

LEMMA LearnType ==
  ASSUME StoreTypeOK, NEW c \in Writers, NEW d \in Contents,
         NEW s \in Stored, NEW v \in Nat, Learn(c, d, s, v)
  PROVE  /\ seen' \in [Writers -> [Contents -> [status : Stored, version : Nat]]]
         /\ seen'[c][d].status = s /\ seen'[c][d].version = v
         /\ \A b \in Writers, e \in Contents :
              b # c \/ e # d => seen'[b][e] = seen[b][e]
<1> DEFINE row == [seen[c] EXCEPT ![d] = [status |-> s, version |-> v]]
<1>1. row \in [Contents -> [status : Stored, version : Nat]]
  BY DEF StoreTypeOK
<1>2. /\ row[d].status = s /\ row[d].version = v
      /\ \A e \in Contents : e # d => row[e] = seen[c][e]
  BY DEF StoreTypeOK
<1>3. seen' = [seen EXCEPT ![c] = row]
  BY DEF Learn, StoreTypeOK
<1> HIDE DEF row
<1>4. seen \in [Writers -> [Contents -> [status : Stored, version : Nat]]]
  BY DEF StoreTypeOK
<1>5. seen' \in [Writers -> [Contents -> [status : Stored, version : Nat]]]
  BY <1>1, <1>3, <1>4
<1>6. seen'[c] = row /\ \A b \in Writers : b # c => seen'[b] = seen[b]
  BY <1>3, <1>4
<1>7. QED BY <1>2, <1>5, <1>6

LEMMA MovesType ==
  ASSUME StoreTypeOK, NEW from, NEW to, Moves(from, to)
  PROVE  walk' \in [Readers -> Walk]
<1>1. ASSUME NEW r \in Readers
      PROVE  [walk[r] EXCEPT !.left = @ \/ walk[r].status = from,
                             !.came = @ \/ walk[r].status = to] \in Walk
  <2> DEFINE l == walk[r].left \/ walk[r].status = from
             c == walk[r].came \/ walk[r].status = to
  <2>1. walk[r] \in Walk
    BY DEF StoreTypeOK
  <2>2. l \in BOOLEAN /\ c \in BOOLEAN
    OBVIOUS
  <2> HIDE DEF l, c
  <2>3. [walk[r] EXCEPT !.left = l, !.came = c] \in Walk
    BY <2>1, <2>2 DEF Walk
  <2>4. QED BY <2>3 DEF l, c
<1>2. QED BY <1>1 DEF Moves, StoreTypeOK

LEMMA NormalLimit ==
  ASSUME NEW limit \in Nat
  PROVE  Normalize(limit) \in Nat \ {0}
BY StoreAssumption DEF Normalize

LEMMA WalkType ==
  ASSUME StoreTypeOK, NEW r \in Readers, Reader(r)
  PROVE  walk' \in [Readers -> Walk] /\ UNCHANGED contentVars
<1>1. ASSUME NEW s \in Targets, NEW l \in Limits, StartWalk(r, s, l)
      PROVE  walk' \in [Readers -> Walk] /\ UNCHANGED contentVars
  <2>1. s \in Stored /\ l \in Nat /\ InStatus(s) \in SUBSET Contents
    BY StoreAssumption DEF Stored, InStatus
  <2>2. [NoWalk EXCEPT !.pc = "walking", !.status = s, !.limit = l,
                       !.first = InStatus(s)] \in Walk
    BY <2>1 DEF NoWalk, Walk
  <2>3. QED BY <1>1, <2>2 DEF StartWalk, StoreTypeOK
<1>2. CASE ListContent(r)
  <2> DEFINE w == walk[r]
             limit == Normalize(w.limit)
             Read(page) ==
               [w EXCEPT !.got = @ \union page,
                         !.twice = @ \/ page \intersect w.got # {},
                         !.offset = @ + limit,
                         !.pc = IF w.offset + limit >= Cardinality(InStatus(w.status))
                                THEN "done" ELSE "walking"]
  <2>1. w \in Walk /\ limit \in Nat
    BY NormalLimit DEF StoreTypeOK, Walk
  <2>2. PICK page \in Page(w.status, w.offset, limit) : walk' = [walk EXCEPT ![r] = Read(page)]
    BY <1>2, Zenon DEF ListContent
  <2>3. page \in SUBSET Contents
    BY <2>2 DEF Page, InStatus
  <2>4. Read(page) \in Walk
    <3> HIDE DEF w, limit
    <3>1. w.offset + limit \in Nat /\ w.got \union page \in SUBSET Contents
      BY <2>1, <2>3 DEF Walk
    <3>2. QED BY <2>1, <3>1 DEF Walk
  <2>5. walk' \in [Readers -> Walk]
    BY <2>2, <2>4 DEF StoreTypeOK
  <2>6. QED BY <1>2, <2>5 DEF ListContent
<1>3. QED BY <1>1, <1>2 DEF Reader

LEMMA StoreTypeStep ==
  ASSUME StoreTypeOK, [StoreNext]_vars
  PROVE  StoreTypeOK'
<1>1. CASE UNCHANGED vars
  BY <1>1 DEF vars, contentVars, StoreTypeOK
<1>2. ASSUME NEW c \in Writers, NEW d \in Contents, CreateContent(c, d)
      PROVE  StoreTypeOK'
  <2>1. "draft" \in Stored /\ "draft" # "none"
    BY DEF Stored, ContentStatuses
  <2>2. QED BY <1>2, <2>1, LearnType, MovesType DEF CreateContent, StoreTypeOK
<1>3. ASSUME NEW c \in Writers, NEW d \in Contents, GetContentVersioned(c, d)
      PROVE  StoreTypeOK'
  <2>1. status[d] \in Stored /\ version[d] \in Nat
    BY DEF StoreTypeOK
  <2>2. QED BY <1>3, <2>1, LearnType DEF GetContentVersioned, StoreTypeOK
<1>4. ASSUME NEW c \in Writers, NEW d \in Contents, NEW to \in Targets,
             UpdateContent(c, d, to)
      PROVE  StoreTypeOK'
  <2>1. to \in Stored /\ to # "none" /\ version[d] + 1 \in Nat \ {0}
    BY StoreAssumption DEF Stored, ContentStatuses, StoreTypeOK
  <2>2. QED BY <1>4, <2>1, LearnType, MovesType DEF UpdateContent, StoreTypeOK
<1>5. ASSUME NEW r \in Readers, Reader(r)
      PROVE  StoreTypeOK'
  BY <1>5, WalkType DEF contentVars, StoreTypeOK
<1>6. QED
  BY <1>1, <1>2, <1>3, <1>4, <1>5 DEF StoreNext, Writer

\* Every variable keeps its type, and a content has a version exactly when it
\* exists.
THEOREM StoreTypeCorrect == StoreSpec => []StoreTypeOK
<1>1. StoreInit => StoreTypeOK
  BY DEF StoreInit, StoreTypeOK, Stored, NoWalk, Walk
<1>2. QED BY <1>1, StoreTypeStep, PTL DEF StoreSpec

-------------------------------------------------------------------------------
(* Versions.                                                                *)

\* Nobody knows a version that is still to come.
VersionsAreKnownLate ==
  \A c \in Writers, d \in Contents : seen[c][d].version <= version[d]

VersionInvariant == VersionsAreKnownLate /\ KnownVersionIsCurrent

\* Client c learns the record of d as it is after the step.
Learns(c, d) ==
  /\ Learn(c, d, status'[d], version'[d])
  /\ \A e \in Contents \ {d} : version'[e] = version[e] /\ status'[e] = status[e]
  /\ version'[d] \in Nat
  /\ \/ version'[d] > version[d]
     \/ version'[d] = version[d] /\ status'[d] = status[d]

LEMMA LearningIsSafe ==
  ASSUME StoreTypeOK, VersionInvariant, NEW c \in Writers, NEW d \in Contents,
         Learns(c, d)
  PROVE  VersionInvariant'
<1>1. ASSUME NEW b \in Writers, NEW e \in Contents
      PROVE  /\ seen'[b][e].version <= version'[e]
             /\ seen'[b][e].version = version'[e] => seen'[b][e].status = status'[e]
  <2>1. /\ seen[b][e].version \in Nat /\ version[e] \in Nat
        /\ seen[b][e].version <= version[e]
        /\ seen[b][e].version = version[e] => seen[b][e].status = status[e]
    BY DEF StoreTypeOK, VersionInvariant, VersionsAreKnownLate, KnownVersionIsCurrent
  <2>2. CASE b = c /\ e = d
    BY <2>2 DEF Learns, Learn, StoreTypeOK
  <2>3. CASE b # c \/ e # d
    <3>1. seen'[b][e] = seen[b][e]
      BY <2>3 DEF Learns, Learn, StoreTypeOK
    <3>2. CASE e = d
      BY <2>1, <3>1, <3>2 DEF Learns
    <3>3. CASE e # d
      BY <2>1, <3>1, <3>3 DEF Learns
    <3>4. QED BY <3>2, <3>3
  <2>4. QED BY <2>2, <2>3
<1>2. QED
  BY <1>1 DEF VersionInvariant, VersionsAreKnownLate, KnownVersionIsCurrent

LEMMA VersionStep ==
  ASSUME StoreTypeOK, VersionInvariant, [StoreNext]_vars
  PROVE  VersionInvariant'
<1>1. CASE UNCHANGED contentVars
  BY <1>1 DEF contentVars, VersionInvariant, VersionsAreKnownLate, KnownVersionIsCurrent
<1>2. ASSUME NEW c \in Writers, NEW d \in Contents, CreateContent(c, d)
      PROVE  VersionInvariant'
  <2>1. version[d] = 0 /\ version'[d] = 1 /\ status'[d] = "draft"
    BY <1>2 DEF CreateContent, StoreTypeOK
  <2>2. version'[d] \in Nat /\ version'[d] > version[d]
    BY <2>1
  <2>3. \A e \in Contents \ {d} : version'[e] = version[e] /\ status'[e] = status[e]
    BY <1>2 DEF CreateContent, StoreTypeOK
  <2>4. Learn(c, d, status'[d], version'[d])
    BY <1>2, <2>1 DEF CreateContent, Learn
  <2>5. QED BY <2>2, <2>3, <2>4, LearningIsSafe DEF Learns
<1>3. ASSUME NEW c \in Writers, NEW d \in Contents, GetContentVersioned(c, d)
      PROVE  VersionInvariant'
  <2>1. Learns(c, d)
    BY <1>3 DEF GetContentVersioned, StoreTypeOK, Learns, Learn
  <2>2. QED BY <2>1, LearningIsSafe
<1>4. ASSUME NEW c \in Writers, NEW d \in Contents, NEW to \in Targets,
             UpdateContent(c, d, to)
      PROVE  VersionInvariant'
  <2>1. version[d] \in Nat /\ version'[d] = version[d] + 1 /\ status'[d] = to
    BY <1>4 DEF UpdateContent, StoreTypeOK
  <2>2. version'[d] \in Nat /\ version'[d] > version[d]
    BY <2>1
  <2>3. \A e \in Contents \ {d} : version'[e] = version[e] /\ status'[e] = status[e]
    BY <1>4 DEF UpdateContent, StoreTypeOK
  <2>4. Learn(c, d, status'[d], version'[d])
    BY <1>4, <2>1 DEF UpdateContent, Learn
  <2>5. QED BY <2>2, <2>3, <2>4, LearningIsSafe DEF Learns
<1>5. QED
  BY <1>1, <1>2, <1>3, <1>4, WalkType DEF StoreNext, Writer, contentVars, vars

\* Optimistic locking works for any number of clients: whoever knows the stored
\* version knows the stored status (memory.go:136-163).
THEOREM NoLostUpdate == StoreSpec => []KnownVersionIsCurrent
<1>1. StoreInit => VersionInvariant
  BY DEF StoreInit, VersionInvariant, VersionsAreKnownLate, KnownVersionIsCurrent
<1>2. VersionInvariant => KnownVersionIsCurrent
  BY DEF VersionInvariant
<1>3. QED BY <1>1, <1>2, VersionStep, StoreTypeCorrect, PTL DEF StoreSpec

-------------------------------------------------------------------------------
(* Listings.                                                                *)

\* The newer ones among A: the place of d in a listing of A.
Above(d, A) == Cardinality({ e \in A : e > d })

LEMMA AboveType ==
  ASSUME NEW A \in SUBSET Contents, NEW d \in Contents
  PROVE  Above(d, A) \in Nat
<1>1. IsFiniteSet({ e \in A : e > d })
  BY StoreAssumption, FS_Subset, { e \in A : e > d } \in SUBSET Contents
<1>2. QED BY <1>1, FS_CardinalityType DEF Above

LEMMA AboveGrows ==
  ASSUME NEW A \in SUBSET Contents, NEW B \in SUBSET Contents, A \subseteq B,
         NEW d \in Contents
  PROVE  Above(d, A) <= Above(d, B)
<1>1. IsFiniteSet({ e \in B : e > d })
  BY StoreAssumption, FS_Subset, { e \in B : e > d } \in SUBSET Contents
<1>2. { e \in A : e > d } \in SUBSET { e \in B : e > d }
  OBVIOUS
<1>3. QED BY <1>1, <1>2, FS_Subset DEF Above

\* A content comes before the end of its listing.
LEMMA AboveIsInside ==
  ASSUME NEW A \in SUBSET Contents, NEW d \in A
  PROVE  Above(d, A) < Cardinality(A)
<1>1. IsFiniteSet(A) /\ Cardinality(A) \in Nat
  BY StoreAssumption, FS_Subset, FS_CardinalityType
<1>2. { e \in A : e > d } \in SUBSET A /\ d \notin { e \in A : e > d }
  BY StoreAssumption
<1>3. Cardinality({ e \in A : e > d }) # Cardinality(A)
  BY <1>1, <1>2, FS_Subset
<1>4. Cardinality({ e \in A : e > d }) <= Cardinality(A)
  BY <1>1, <1>2, FS_Subset
<1>5. QED BY <1>1, <1>3, <1>4, AboveType DEF Above

\* What a walk that nothing left still owes lies on a page to come.
Owed(r) ==
  ~walk[r].left =>
    /\ walk[r].pc = "walking" =>
         \A d \in walk[r].first :
           /\ status[d] = walk[r].status
           /\ d \in walk[r].got \/ Above(d, InStatus(walk[r].status)) >= walk[r].offset
    /\ walk[r].pc = "done" => walk[r].first \subseteq walk[r].got

\* What a walk to which nothing came has shown lies on a page it has read.
Shown(r) ==
  ~walk[r].came =>
    /\ ~walk[r].twice
    /\ walk[r].pc = "walking" =>
         \A d \in walk[r].got :
           status[d] = walk[r].status =>
             Above(d, InStatus(walk[r].status)) < walk[r].offset

WalkInvariant == \A r \in Readers : Owed(r) /\ Shown(r)

\* One content goes from one status to another.
Change(d, from, to) ==
  /\ status[d] = from
  /\ status' = [status EXCEPT ![d] = to]
  /\ Moves(from, to)

LEMMA ChangeIsNoticed ==
  ASSUME StoreTypeOK, NEW d \in Contents, NEW from, NEW to, Change(d, from, to),
         NEW r \in Readers, Owed(r), Shown(r)
  PROVE  Owed(r)' /\ Shown(r)'
<1> DEFINE w == walk[r]
           A == InStatus(w.status)
           B == { e \in Contents : status'[e] = w.status }
<1>1. w \in Walk /\ w.first \subseteq Contents /\ w.got \subseteq Contents /\ w.offset \in Nat
  BY DEF StoreTypeOK, Walk
<1>2. CASE w.pc # "walking" \/ from = to
  <2>1. walk'[r] = w
    BY <1>2 DEF Change, Moves
  <2>2. w.pc = "walking" => status' = status
    BY <1>2 DEF Change, StoreTypeOK
  <2>3. QED BY <2>1, <2>2 DEF Owed, Shown, InStatus
<1>3. CASE w.pc = "walking" /\ from # to
  <2>1. walk'[r] = [w EXCEPT !.left = @ \/ w.status = from, !.came = @ \/ w.status = to]
    BY <1>3 DEF Change, Moves
  <2>2. /\ walk'[r].pc = w.pc /\ walk'[r].first = w.first /\ walk'[r].got = w.got
        /\ walk'[r].offset = w.offset /\ walk'[r].status = w.status
        /\ walk'[r].twice = w.twice
        /\ walk'[r].left = (w.left \/ w.status = from)
        /\ walk'[r].came = (w.came \/ w.status = to)
    BY <1>1, <2>1 DEF Walk
  <2>3. InStatus(walk[r].status)' = B /\ A \in SUBSET Contents /\ B \in SUBSET Contents
    BY <2>2 DEF InStatus
  <2>4. ASSUME ~walk'[r].left
        PROVE  Owed(r)'
    <3>1. ~w.left /\ w.status # from
      BY <2>2, <2>4
    <3>2. A \subseteq B
      BY <3>1 DEF Change, InStatus, StoreTypeOK
    <3>3. ASSUME NEW e \in w.first
          PROVE  /\ status'[e] = w.status
                 /\ e \in w.got \/ Above(e, B) >= w.offset
      <4>1. status[e] = w.status /\ (e \in w.got \/ Above(e, A) >= w.offset)
        BY <1>3, <3>1, <3>3 DEF Owed
      <4>2. status'[e] = w.status
        BY <1>1, <3>1, <3>3, <4>1 DEF Change, StoreTypeOK
      <4>3. Above(e, A) <= Above(e, B) /\ Above(e, A) \in Nat /\ Above(e, B) \in Nat
        BY <1>1, <2>3, <3>2, AboveGrows, AboveType
      <4>4. QED BY <1>1, <4>1, <4>2, <4>3
    <3>4. QED BY <1>3, <2>2, <2>3, <3>3 DEF Owed
  <2>5. ASSUME ~walk'[r].came
        PROVE  Shown(r)'
    <3>1. ~w.came /\ w.status # to
      BY <2>2, <2>5
    <3>2. B \subseteq A
      BY <3>1 DEF Change, InStatus, StoreTypeOK
    <3>3. ASSUME NEW e \in w.got, status'[e] = w.status
          PROVE  Above(e, B) < w.offset
      <4>1. e \in A
        BY <1>1, <3>2, <3>3
      <4>2. Above(e, A) < w.offset
        BY <1>3, <3>1, <3>3, <4>1 DEF Shown, InStatus
      <4>3. Above(e, B) <= Above(e, A) /\ Above(e, A) \in Nat /\ Above(e, B) \in Nat
        BY <1>1, <2>3, <3>2, <3>3, AboveGrows, AboveType
      <4>4. QED BY <1>1, <4>2, <4>3
    <3>4. QED BY <1>3, <2>2, <2>3, <3>1, <3>3 DEF Shown
  <2>6. QED BY <2>4, <2>5 DEF Owed, Shown
<1>4. QED BY <1>2, <1>3

\* A page brings what lies on it, and the last page ends the listing.
LEMMA PageIsRead ==
  ASSUME StoreTypeOK, NEW r \in Readers, Owed(r), Shown(r), ListContent(r)
  PROVE  Owed(r)' /\ Shown(r)'
<1> DEFINE w == walk[r]
           A == InStatus(w.status)
           limit == Normalize(w.limit)
           next == walk'[r]
<1>1. /\ w \in Walk /\ w.first \subseteq Contents /\ w.got \subseteq Contents
      /\ w.offset \in Nat /\ limit \in Nat \ {0} /\ w.pc = "walking"
  <2>1. w \in Walk
    BY DEF StoreTypeOK
  <2>2. /\ w.first \subseteq Contents /\ w.got \subseteq Contents
        /\ w.offset \in Nat /\ w.limit \in Nat
    BY <2>1 DEF Walk
  <2>3. w.pc = "walking"
    BY DEF ListContent
  <2>4. QED BY <2>1, <2>2, <2>3, NormalLimit
<1>2. PICK page \in Page(w.status, w.offset, limit) :
        next = [w EXCEPT !.got = @ \union page,
                         !.twice = @ \/ page \intersect w.got # {},
                         !.offset = @ + limit,
                         !.pc = IF w.offset + limit >= Cardinality(A)
                                THEN "done" ELSE "walking"]
  BY DEF ListContent, StoreTypeOK
<1>3. page = { d \in A : Above(d, A) \in w.offset .. w.offset + limit - 1 }
  BY <1>2 DEF Page, Above
<1>4. /\ next.first = w.first /\ next.got = w.got \union page /\ next.status = w.status
      /\ next.offset = w.offset + limit
      /\ next.pc = IF w.offset + limit >= Cardinality(A) THEN "done" ELSE "walking"
      /\ next.twice = (w.twice \/ page \intersect w.got # {})
      /\ next.left = w.left /\ next.came = w.came
  BY <1>1, <1>2 DEF Walk
<1>5. InStatus(walk[r].status)' = A /\ status' = status /\ A \in SUBSET Contents
  BY <1>4 DEF InStatus, ListContent, contentVars
<1>6. \A d \in A : Above(d, A) \in Nat /\ Above(d, A) < Cardinality(A)
  BY <1>5, AboveType, AboveIsInside
<1>7. Cardinality(A) \in Nat
  BY <1>5, StoreAssumption, FS_Subset, FS_CardinalityType
<1>8. ASSUME ~w.left
      PROVE  Owed(r)'
  <2>1. ASSUME NEW d \in w.first
        PROVE  /\ status[d] = w.status /\ d \in A
               /\ d \in next.got \/ Above(d, A) >= w.offset + limit
    <3>1. status[d] = w.status /\ (d \in w.got \/ Above(d, A) >= w.offset)
      BY <1>1, <1>8, <2>1 DEF Owed
    <3>2. d \in A
      BY <1>1, <2>1, <3>1 DEF InStatus
    <3>3. Above(d, A) >= w.offset /\ Above(d, A) < w.offset + limit => d \in page
      BY <1>1, <1>3, <1>6, <3>2
    <3>4. QED BY <1>1, <1>4, <1>6, <3>1, <3>2, <3>3
  <2>2. next.pc = "done" => w.first \subseteq next.got
    BY <1>1, <1>4, <1>6, <1>7, <2>1
  <2>3. QED BY <1>4, <1>5, <2>1, <2>2 DEF Owed
<1>9. ASSUME ~w.came
      PROVE  Shown(r)'
  <2>1. ~w.twice /\ \A d \in w.got : status[d] = w.status => Above(d, A) < w.offset
    BY <1>1, <1>9 DEF Shown
  <2>2. page \intersect w.got = {}
    BY <1>1, <1>3, <1>6, <2>1 DEF InStatus
  <2>3. \A d \in next.got : status[d] = w.status => Above(d, A) < w.offset + limit
    <3>1. ASSUME NEW d \in next.got, status[d] = w.status
          PROVE  Above(d, A) < w.offset + limit
      <4>1. CASE d \in page
        BY <1>1, <1>3, <1>6, <4>1
      <4>2. CASE d \in w.got
        <5>1. d \in A
          BY <1>1, <3>1, <4>2 DEF InStatus
        <5>2. QED BY <1>1, <1>6, <2>1, <3>1, <4>2, <5>1
      <4>3. QED BY <1>4, <4>1, <4>2
    <3>2. QED BY <3>1
  <2>4. QED BY <1>4, <1>5, <2>1, <2>2, <2>3 DEF Shown
<1>10. QED BY <1>4, <1>8, <1>9 DEF Owed, Shown

LEMMA WalkStep ==
  ASSUME StoreTypeOK, WalkInvariant, [StoreNext]_vars, NEW r \in Readers
  PROVE  Owed(r)' /\ Shown(r)'
<1>1. Owed(r) /\ Shown(r)
  BY DEF WalkInvariant
<1>2. CASE UNCHANGED << status, walk >>
  BY <1>1, <1>2 DEF Owed, Shown, InStatus
<1>3. ASSUME NEW c \in Writers, NEW d \in Contents, CreateContent(c, d)
      PROVE  Owed(r)' /\ Shown(r)'
  <2>1. Change(d, "none", "draft")
    BY <1>3 DEF CreateContent, Change, StoreTypeOK
  <2>2. QED BY <1>1, <2>1, ChangeIsNoticed
<1>4. ASSUME NEW c \in Writers, NEW d \in Contents, NEW to \in Targets,
             UpdateContent(c, d, to)
      PROVE  Owed(r)' /\ Shown(r)'
  <2>1. Change(d, status[d], to)
    BY <1>4 DEF UpdateContent, Change
  <2>2. QED BY <1>1, <2>1, ChangeIsNoticed
<1>5. ASSUME NEW q \in Readers, NEW s \in Targets, NEW l \in Limits, StartWalk(q, s, l)
      PROVE  Owed(r)' /\ Shown(r)'
  <2>1. CASE q # r
    <3>1. walk'[r] = walk[r] /\ status' = status
      BY <1>5, <2>1 DEF StartWalk, StoreTypeOK, contentVars
    <3>2. QED BY <1>1, <3>1 DEF Owed, Shown, InStatus
  <2>2. CASE q = r
    <3>1. walk'[r] = [NoWalk EXCEPT !.pc = "walking", !.status = s, !.limit = l,
                                    !.first = InStatus(s)]
      BY <1>5, <2>2 DEF StartWalk, StoreTypeOK
    <3>2. /\ walk'[r].first = InStatus(s) /\ walk'[r].status = s /\ walk'[r].got = {}
          /\ walk'[r].offset = 0 /\ walk'[r].pc = "walking" /\ ~walk'[r].twice
      BY <3>1 DEF NoWalk
    <3>3. status' = status /\ InStatus(walk[r].status)' = InStatus(s)
      BY <1>5, <3>2 DEF StartWalk, contentVars, InStatus
    <3>4. \A d \in InStatus(s) : status[d] = s /\ Above(d, InStatus(s)) \in Nat
      BY AboveType DEF InStatus
    <3>5. QED BY <3>2, <3>3, <3>4 DEF Owed, Shown
  <2>3. QED BY <2>1, <2>2
<1>6. ASSUME NEW q \in Readers, ListContent(q)
      PROVE  Owed(r)' /\ Shown(r)'
  <2>1. CASE q # r
    <3>1. walk'[r] = walk[r] /\ status' = status
      BY <1>6, <2>1 DEF ListContent, StoreTypeOK, contentVars
    <3>2. QED BY <1>1, <3>1 DEF Owed, Shown, InStatus
  <2>2. CASE q = r
    BY <1>1, <1>6, <2>2, PageIsRead
  <2>3. QED BY <2>1, <2>2
<1>7. ASSUME NEW c \in Writers, NEW d \in Contents, GetContentVersioned(c, d)
      PROVE  UNCHANGED << status, walk >>
  BY <1>7 DEF GetContentVersioned
<1>8. QED
  BY <1>2, <1>3, <1>4, <1>5, <1>6, <1>7
  DEF StoreNext, Writer, Reader, vars, contentVars

LEMMA WalkIsInductive == StoreSpec => []WalkInvariant
<1>1. StoreInit => WalkInvariant
  BY DEF StoreInit, WalkInvariant, Owed, Shown, NoWalk
<1>2. StoreTypeOK /\ WalkInvariant /\ [StoreNext]_vars => WalkInvariant'
  BY WalkStep DEF WalkInvariant
<1>3. QED BY <1>1, <1>2, StoreTypeCorrect, PTL DEF StoreSpec

\* A listing that nothing leaves while it is read shows everything that was there
\* when it began, for any page size and any number of contents that come
\* meanwhile (memory.go:99-134).
THEOREM ListingIsComplete == StoreSpec => []WalkMissesNothing
<1>1. WalkInvariant => WalkMissesNothing
  BY DEF WalkInvariant, WalkMissesNothing, Owed
<1>2. QED BY <1>1, WalkIsInductive, PTL

\* A listing to which nothing comes while it is read shows nothing twice.
THEOREM ListingIsOnce == StoreSpec => []WalkRepeatsNothing
<1>1. WalkInvariant => WalkRepeatsNothing
  BY DEF WalkInvariant, WalkRepeatsNothing, Shown
<1>2. QED BY <1>1, WalkIsInductive, PTL

===============================================================================
