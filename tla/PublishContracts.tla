--------------------------- MODULE PublishContracts ---------------------------
(***************************************************************************)
(* The two status machines of internal/contracts, shared by every other    *)
(* module: the lifecycle of a content and the lifecycle of the publish     *)
(* task of one platform.  A status is a string, an edge is a pair.         *)
(***************************************************************************)
EXTENDS Naturals, Sequences

ContentStatuses ==
  { "draft", "ready", "publishing", "published", "partially_published",
    "failed", "archived" }

\* contracts.ContentStatus.ValidTransitions, as a set of pairs.
ContentEdges ==
  { <<"draft", "ready">>,
    <<"ready", "publishing">>,
    <<"publishing", "published">>,
    <<"publishing", "partially_published">>,
    <<"publishing", "failed">>,
    <<"partially_published", "publishing">>,
    <<"partially_published", "archived">>,
    <<"published", "archived">>,
    <<"failed", "draft">> }

ContentCanTransition(from, to) == <<from, to>> \in ContentEdges

TaskStatuses ==
  { "pending", "processing", "succeeded", "failed", "retrying", "dead",
    "cancelled" }

\* contracts.PublishTaskStatus.ValidTransitions.
TaskEdges ==
  { <<"pending", "processing">>,
    <<"pending", "cancelled">>,
    <<"processing", "succeeded">>,
    <<"processing", "failed">>,
    <<"processing", "retrying">>,
    <<"retrying", "processing">>,
    <<"retrying", "dead">> }

TaskCanTransition(from, to) == <<from, to>> \in TaskEdges

TerminalTaskStatuses == { "succeeded", "failed", "dead", "cancelled" }

ActiveTaskStatuses == { "pending", "processing", "retrying" }

(***************************************************************************)
(* How an adapter's error looks to errors.As: a PlatformError flagged      *)
(* Retryable, a PlatformError that is not, or any other error, such as a   *)
(* RateLimitError or an expired context.                                   *)
(***************************************************************************)
FailureKinds == { "retryable", "permanent", "unclassified" }

-------------------------------------------------------------------------------
(* Variants of the definitions above and below, used to check that the      *)
(* properties depend on them.                                               *)

\* An empty intent is a vacuous success: the len(tasks) == 0 case is missing.
AggregateWithoutEmptyCase(statuses) ==
  IF \A i \in DOMAIN statuses : statuses[i] = "succeeded"
  THEN "published"
  ELSE IF \E i \in DOMAIN statuses : statuses[i] = "succeeded"
       THEN "partially_published"
       ELSE "failed"

\* A task that is still active keeps the content publishing.
AggregateWaitsForActive(statuses) ==
  IF \E i \in DOMAIN statuses : statuses[i] \in ActiveTaskStatuses
  THEN "publishing"
  ELSE AggregateWithoutEmptyCase(statuses)

-------------------------------------------------------------------------------
\* service.go aggregateStatus: the content status for a list of task statuses.
\* An active status (pending, processing, retrying) counts as neither success
\* nor failure, and an empty list is a failure.
AggregateStatus(statuses) ==
  LET succeeded == { i \in DOMAIN statuses : statuses[i] = "succeeded" }
  IN  IF succeeded = {} THEN "failed"
      ELSE IF succeeded = DOMAIN statuses THEN "published"
      ELSE "partially_published"
===============================================================================
