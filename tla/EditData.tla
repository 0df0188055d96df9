------------------------------ MODULE EditData ------------------------------
(***************************************************************************)
(* The data of the manual-edit store (src/lib/data/edits.ts), shared by    *)
(* the promise (EditRegister) and the mechanism (EditStore).               *)
(*                                                                         *)
(* A value of a field is the request that wrote it, so two writes of the   *)
(* same field never look alike.  A building with no record has NoRecord;   *)
(* every record the code writes has rev >= 1.                              *)
(***************************************************************************)
EXTENDS Naturals

CONSTANTS Requests,   \* calls of applyEdit / clearEdit
          Buildings,  \* building ids of one project
          Fields,     \* the editable fields of BuildingEdit
          Unset,      \* a field the record does not hold
          Imported    \* the value of a field written before this run

ASSUME DataAssumption ==
  /\ Unset \notin Requests
  /\ Imported \notin Requests
  /\ Unset # Imported

ASSUME BuildingAssumption == Buildings # {}

Values == Requests \cup {Unset, Imported}

EditRecord == [fields : [Fields -> Values], rev : Nat]

Stores == [Buildings -> EditRecord]

Ops == [kind : {"apply"}, building : Buildings, fields : SUBSET Fields]
         \cup [kind : {"clear"}, building : Buildings, fields : {{}}]

NoRecord == [fields |-> [f \in Fields |-> Unset], rev |-> 0]

EmptyStore == [b \in Buildings |-> NoRecord]

\* What an earlier run of the program left behind: every building edited once.
EarlierStore ==
  [b \in Buildings |-> [fields |-> [f \in Fields |-> Imported], rev |-> 1]]

\* Mutant of Merged: the patch replaces the record instead of merging into it.
Replaced(rec, r, fields) ==
  [fields |-> [f \in Fields |-> IF f \in fields THEN r ELSE Unset],
   rev    |-> rec.rev + 1]

\* The record request r leaves when it merges its fields into rec.
Merged(rec, r, fields) ==
  [fields |-> [f \in Fields |-> IF f \in fields THEN r ELSE rec.fields[f]],
   rev    |-> rec.rev + 1]

\* The store after request r with operation o: applyEdit merges field by
\* field, clearEdit drops the building's record.
Applied(store, r, o) ==
  [store EXCEPT ![o.building] =
     IF o.kind = "apply" THEN Merged(@, r, o.fields) ELSE NoRecord]

\* The fields operation o decides, and the value request r gives them.
Touched(o) == IF o.kind = "apply" THEN o.fields ELSE Fields

Written(r, o) == IF o.kind = "apply" THEN r ELSE Unset
=============================================================================
