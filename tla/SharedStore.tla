------------------------------ MODULE SharedStore ------------------------------
(***************************************************************************)
(* The contents of storage.MemoryStorage, as callers see them that share   *)
(* it: versions that keep concurrent writers of a content apart, and       *)
(* listings that are read page by page while the writers go on.            *)
(*                                                                         *)
(* Every method holds the one mutex from start to end and is one step.     *)
(* MemoryTx.Run hands the same methods to its function and neither locks   *)
(* nor undoes anything: a transaction is a client that makes some calls.   *)
(* What a client does between two calls rests on what the store told it.   *)
(* A call that is refused changes nothing and is no step.                  *)
(***************************************************************************)
EXTENDS PublishContracts, FiniteSets

CONSTANTS
  Writers,       \* callers that create and update
  Readers,       \* callers that list
  Contents,      \* contents, numbered in the order they are created
  Targets,       \* statuses writers ask for
  Limits,        \* page sizes readers ask for
  DefaultLimit,  \* page size without one, 20 in the code
  MaxLimit,      \* largest page, 100 in the code
  MaxVersion     \* bound: updates of a content

ASSUME StoreAssumption ==
  /\ Contents \subseteq Nat /\ IsFiniteSet(Contents)
  /\ Targets \subseteq ContentStatuses
  /\ Limits \subseteq Nat
  /\ DefaultLimit \in Nat \ {0}
  /\ MaxLimit \in Nat \ {0}
  /\ MaxVersion \in Nat

VARIABLES
  status,   \* content -> status, "none" before it exists
  version,  \* content -> version of its record
  seen,     \* writer -> content -> what it last learnt of it
  walk      \* reader -> the listing it goes through

contentVars == << status, version, seen >>
vars == << contentVars, walk >>

Stored == ContentStatuses \union {"none"}

\* twice, left and came keep what happened since the first page: a content was
\* listed twice, a content left the status that is listed, a content came to it.
Walk ==
  [ pc     : {"idle", "walking", "done"},
    status : Stored,
    limit  : Nat,
    offset : Nat,
    first  : SUBSET Contents,   \* what there was when the walk began
    got    : SUBSET Contents,   \* what the pages have shown
    twice  : BOOLEAN,
    left   : BOOLEAN,
    came   : BOOLEAN ]

NoWalk ==
  [ pc |-> "idle", status |-> "none", limit |-> 0, offset |-> 0, first |-> {},
    got |-> {}, twice |-> FALSE, left |-> FALSE, came |-> FALSE ]

StoreTypeOK ==
  /\ status \in [Contents -> Stored]
  /\ version \in [Contents -> Nat]
  /\ seen \in [Writers -> [Contents -> [status : Stored, version : Nat]]]
  /\ walk \in [Readers -> Walk]
  /\ \A d \in Contents : version[d] = 0 <=> status[d] = "none"

StoreInit ==
  /\ status = [d \in Contents |-> "none"]
  /\ version = [d \in Contents |-> 0]
  /\ seen = [c \in Writers |-> [d \in Contents |-> [status |-> "none", version |-> 0]]]
  /\ walk = [r \in Readers |-> NoWalk]

-------------------------------------------------------------------------------
(* Writers.                                                                 *)

Learn(c, d, s, v) == seen' = [seen EXCEPT ![c][d] = [status |-> s, version |-> v]]

\* A reader under way does not notice; the model does, for its properties.
Moves(from, to) ==
  walk' = [r \in Readers |->
    IF walk[r].pc # "walking" \/ from = to THEN walk[r]
    ELSE [walk[r] EXCEPT !.left = @ \/ walk[r].status = from,
                         !.came = @ \/ walk[r].status = to]]

\* Variant: the record starts without a version.
CreateContentUnversioned(c, d) ==
  /\ status[d] = "none"
  /\ status' = [status EXCEPT ![d] = "draft"]
  /\ Learn(c, d, "draft", 0)
  /\ Moves("none", "draft")
  /\ UNCHANGED version

\* The caller gets a copy; that its version is 1 is what handlers.go:85 relies on.
CreateContent(c, d) ==
  /\ version[d] = 0
  /\ \A e \in Contents : e < d => version[e] > 0
  /\ status' = [status EXCEPT ![d] = "draft"]
  /\ version' = [version EXCEPT ![d] = 1]
  /\ Learn(c, d, "draft", 1)
  /\ Moves("none", "draft")

GetContentVersioned(c, d) ==
  /\ version[d] > 0
  /\ Learn(c, d, status[d], version[d])
  /\ UNCHANGED << status, version, walk >>

\* Variant: the version is compared and not moved on.
UpdateContentKeepsVersion(c, d, to) ==
  /\ version[d] \in 1 .. MaxVersion
  /\ seen[c][d].version = version[d]
  /\ status' = [status EXCEPT ![d] = to]
  /\ Learn(c, d, to, version[d])
  /\ Moves(status[d], to)
  /\ UNCHANGED version

\* The writer passes the version it knows; a success tells it the next one, which
\* handlers.go:90 passes on without reading.  The status edge is not checked.
UpdateContent(c, d, to) ==
  /\ version[d] \in 1 .. MaxVersion
  /\ seen[c][d].version = version[d]
  /\ status' = [status EXCEPT ![d] = to]
  /\ version' = [version EXCEPT ![d] = @ + 1]
  /\ Learn(c, d, to, version[d] + 1)
  /\ Moves(status[d], to)

-------------------------------------------------------------------------------
(* Readers.                                                                 *)

\* Pagination.Normalize; an offset is never negative here.
Normalize(limit) ==
  LET l == IF limit = 0 THEN DefaultLimit ELSE limit
  IN  IF l > MaxLimit THEN MaxLimit ELSE l

InStatus(s) == { d \in Contents : status[d] = s }

\* Variant: the order of a map, another one in every call, as in
\* publish/storage.go:72.
PageInMapOrder(s, offset, limit) ==
  { p \in SUBSET InStatus(s) :
      LET rest == IF Cardinality(InStatus(s)) > offset
                  THEN Cardinality(InStatus(s)) - offset ELSE 0
      IN  Cardinality(p) = (IF rest > limit THEN limit ELSE rest) }

\* Variant: a page ends with the first content of the next one.
PageTooLong(s, offset, limit) ==
  { { d \in InStatus(s) :
        Cardinality({ e \in InStatus(s) : e > d }) \in offset .. offset + limit } }

\* What ListContent may answer: newest first, so that the place of a content is
\* the number of newer ones.  Creation times are taken to differ.
Page(s, offset, limit) ==
  { { d \in InStatus(s) :
        Cardinality({ e \in InStatus(s) : e > d }) \in offset .. offset + limit - 1 } }

StartWalk(r, s, limit) ==
  /\ walk[r].pc = "idle"
  /\ walk' = [walk EXCEPT ![r] =
       [NoWalk EXCEPT !.pc = "walking", !.status = s, !.limit = limit,
                      !.first = InStatus(s)]]
  /\ UNCHANGED contentVars

\* The next page.  The answer carries the limit that was applied and the total:
\* the reader goes on by the one until it reaches the other.
ListContent(r) ==
  LET w == walk[r]
      limit == Normalize(w.limit)
  IN  /\ w.pc = "walking"
      /\ \E page \in Page(w.status, w.offset, limit) :
           walk' = [walk EXCEPT ![r] =
             [w EXCEPT !.got = @ \union page,
                       !.twice = @ \/ page \intersect w.got # {},
                       !.offset = @ + limit,
                       !.pc = IF w.offset + limit >= Cardinality(InStatus(w.status))
                              THEN "done" ELSE "walking"]]
      /\ UNCHANGED contentVars

-------------------------------------------------------------------------------
Writer(c) ==
  \E d \in Contents :
    \/ CreateContent(c, d)
    \/ GetContentVersioned(c, d)
    \/ \E to \in Targets : UpdateContent(c, d, to)

Reader(r) ==
  \/ \E s \in Targets, l \in Limits : StartWalk(r, s, l)
  \/ ListContent(r)

StoreNext == (\E c \in Writers : Writer(c)) \/ (\E r \in Readers : Reader(r))

StoreSpec == StoreInit /\ [][StoreNext]_vars

-------------------------------------------------------------------------------
(* Properties.                                                              *)

\* No update is lost: who knows the version that is stored knows the status that
\* is stored, so that an update which passes the check of memory.go:144 was
\* decided on what it replaces, whatever others wrote between read and write.
KnownVersionIsCurrent ==
  \A c \in Writers, d \in Contents :
    seen[c][d].version = version[d] => seen[c][d].status = status[d]

\* A listing read to its end shows everything that was there when it began, also
\* what stands behind contents created or moved in between, as long as nothing
\* leaves the status: a content that comes shifts the others to later pages only
\* (memory.go:112-131).
WalkMissesNothing ==
  \A r \in Readers :
    walk[r].pc = "done" /\ ~walk[r].left => walk[r].first \subseteq walk[r].got

\* And as long as nothing comes it shows nothing twice, whatever leaves.
WalkRepeatsNothing ==
  \A r \in Readers : walk[r].twice => walk[r].came

===============================================================================
