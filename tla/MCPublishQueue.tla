---------------------------- MODULE MCPublishQueue ----------------------------
(* Small instances of PublishQueue for TLC.                                 *)
EXTENDS PublishQueue, TLC

\* Runs are interchangeable goroutines; used by the safety runs only.
RunSymmetry == Permutations(Runs)
===============================================================================
