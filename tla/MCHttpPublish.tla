---------------------------- MODULE MCHttpPublish ----------------------------
(* Small instances of HttpPublish for TLC.                                  *)
EXTENDS HttpPublish

CONSTANTS q1, q2, a, b

MCTasks == Requests \X Platforms

\* An empty request, two platforms, one platform named twice; and the form.
MCSubmissions ==
  { [form |-> FALSE, platforms |-> l] : l \in { << >>, <<a, b>>, <<a, a>> } }
    \union { [form |-> TRUE, platforms |-> <<a>>] }

\* One platform, named twice through the API or once through the form.
MCOnePlatform ==
  { [form |-> FALSE, platforms |-> <<a, a>>], [form |-> TRUE, platforms |-> <<a>>] }
===============================================================================
