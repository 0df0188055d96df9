------------------------------- MODULE MCWire -------------------------------
(* Bodies grow with the saves but for the last one, which keeps the length  *)
(* and the samples; br halves them.                                         *)
EXTENDS Wire, TLC

MCSymmetry == Permutations(Requests)

MCLength ==
  [c \in Callers |-> [enc \in Encodings |-> [n \in Saves |->
     IF enc = Preferred THEN 1 + n ELSE 2 + n]]]

MCDigest ==
  [c \in Callers |-> [n \in Saves |->
     10 * (IF c = "anon" THEN 0 ELSE 1) + (IF n = MaxSaves THEN MaxSaves - 1 ELSE n)]]
=============================================================================
