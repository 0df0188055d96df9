----------------------------- MODULE MCEditMemo -----------------------------
(***************************************************************************)
(* A small instance of EditMemo: saves of one field of one building.       *)
(***************************************************************************)
EXTENDS EditMemo, TLC

Symmetry == Permutations(Requests) \cup Permutations(Readers)
=============================================================================
