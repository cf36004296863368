--------------------------- MODULE MCPublishService ---------------------------
(* Small instances of PublishService for TLC.                               *)
EXTENDS PublishService

CONSTANTS a, b, x   \* platforms; x has no adapter

\* One call may name both platforms, only one of them, none, one twice, or an
\* unknown one first.
MCIntents == { << >>, <<a>>, <<a, b>> }
MCEdgeIntents == { << >>, <<a, a>>, <<x, a>> }
===============================================================================
