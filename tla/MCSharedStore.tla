----------------------------- MODULE MCSharedStore -----------------------------
(* Small instances of SharedStore. *)
EXTENDS SharedStore, TLC

WriterSymmetry == Permutations(Writers)

===============================================================================
