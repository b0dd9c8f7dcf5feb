----------------------------- MODULE MCJournal -----------------------------
(***************************************************************************)
(* Journal for TLC: two processes share the file.                          *)
(***************************************************************************)
EXTENDS Journal, TLC

\* Neither an id nor a writer is named by an action or a property.
Interchangeable == Permutations(Ids) \cup Permutations(Writers)
=============================================================================
