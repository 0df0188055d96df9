---------------------------- MODULE MCEditStore -----------------------------
(***************************************************************************)
(* Small instances of EditStore: two or three requests and one or two      *)
(* readers on one building with two fields.                                *)
(***************************************************************************)
EXTENDS EditStore, TLC

\* Requests, readers and fields are interchangeable; used by the runs that check
\* no liveness property.
Symmetry ==
  Permutations(Requests) \cup Permutations(Readers) \cup Permutations(Fields)
=============================================================================
