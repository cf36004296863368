---------------------------- MODULE PublishPromise ----------------------------
(***************************************************************************)
(* What publishing promises the author of a content, with no calls, tasks, *)
(* attempts or keys: a platform shows the content at most once, it appears *)
(* there only while the content is publishing, and a content that reports  *)
(* a (partial) publication is visible somewhere.                           *)
(***************************************************************************)
EXTENDS PublishContracts

CONSTANT Platforms

VARIABLES status,   \* status of the content
          shown     \* platform -> times the content is visible there

promiseVars == << status, shown >>

Init == status = "draft" /\ shown = [p \in Platforms |-> 0]

\* The author finalises, resets or archives.
AuthorMoves(to) ==
  /\ to \in { "ready", "draft", "archived" }
  /\ ContentCanTransition(status, to)
  /\ status' = to
  /\ UNCHANGED shown

Begin ==
  /\ status \in { "ready", "partially_published" }
  /\ status' = "publishing"
  /\ UNCHANGED shown

Show(p) ==
  /\ status = "publishing"
  /\ shown[p] = 0
  /\ shown' = [shown EXCEPT ![p] = 1]
  /\ UNCHANGED status

End(to) ==
  /\ status = "publishing"
  /\ to \in { "published", "partially_published", "failed" }
  /\ to # "failed" => \E p \in Platforms : shown[p] > 0
  /\ status' = to
  /\ UNCHANGED shown

Next ==
  \/ \E to \in ContentStatuses : AuthorMoves(to) \/ End(to)
  \/ Begin
  \/ \E p \in Platforms : Show(p)

Spec == Init /\ [][Next]_promiseVars
===============================================================================
