---------------------------- MODULE EditRegister ----------------------------
(***************************************************************************)
(* What the edit store of one project promises its callers, with no file,  *)
(* no cache and no queue: mutations take effect one at a time, an          *)
(* acknowledged mutation is stored, a restart falls back to what is        *)
(* stored, and the revision counts the acknowledged mutations of the       *)
(* running process.                                                        *)
(***************************************************************************)
EXTENDS EditData

VARIABLES visible,  \* what a read returns
          stored,   \* what a restart would find
          rev,      \* editsRev
          status,   \* where each request is
          asked     \* the operation each request carries

vars == <<visible, stored, rev, status, asked>>

Status == {"new", "waiting", "taken", "stored", "ok", "failed", "lost"}

NoOp == [kind |-> "apply", building |-> CHOOSE b \in Buildings : TRUE, fields |-> {}]

TypeOK ==
  /\ visible \in Stores
  /\ stored \in Stores
  /\ rev \in Nat
  /\ status \in [Requests -> Status]
  /\ asked \in [Requests -> Ops]

Init ==
  /\ stored \in {EmptyStore, EarlierStore}
  /\ visible = stored
  /\ rev = 0
  /\ status = [r \in Requests |-> "new"]
  /\ asked = [r \in Requests |-> NoOp]

Busy == \E r \in Requests : status[r] \in {"taken", "stored"}

\* The edits recorded before the multi-project layout are adopted, at most while
\* the project has none of its own.
Import ==
  /\ stored = EmptyStore
  /\ visible = EmptyStore
  /\ ~Busy
  /\ stored' = EarlierStore
  /\ visible' = EarlierStore
  /\ UNCHANGED <<rev, status, asked>>

Submit(r, o) ==
  /\ status[r] = "new"
  /\ status' = [status EXCEPT ![r] = "waiting"]
  /\ asked' = [asked EXCEPT ![r] = o]
  /\ UNCHANGED <<visible, stored, rev>>

TakeEffect(r) ==
  /\ status[r] = "waiting"
  /\ ~Busy
  /\ visible' = Applied(visible, r, asked[r])
  /\ status' = [status EXCEPT ![r] = "taken"]
  /\ UNCHANGED <<stored, rev, asked>>

Store(r) ==
  /\ status[r] = "taken"
  /\ stored' = visible
  /\ status' = [status EXCEPT ![r] = "stored"]
  /\ UNCHANGED <<visible, rev, asked>>

\* Mutant of Acknowledge: the revision is not raised.
AcknowledgeQuiet(r) ==
  /\ status[r] = "stored"
  /\ status' = [status EXCEPT ![r] = "ok"]
  /\ UNCHANGED <<visible, stored, rev, asked>>

Acknowledge(r) ==
  /\ status[r] = "stored"
  /\ rev' = rev + 1
  /\ status' = [status EXCEPT ![r] = "ok"]
  /\ UNCHANGED <<visible, stored, asked>>

\* The write failed: the effect stays visible, nothing was stored.
Reject(r) ==
  /\ status[r] = "taken"
  /\ status' = [status EXCEPT ![r] = "failed"]
  /\ UNCHANGED <<visible, stored, rev, asked>>

Restart ==
  /\ visible' = stored
  /\ rev' = 0
  /\ status' = [r \in Requests |->
                  IF status[r] \in {"waiting", "taken", "stored"} THEN "lost" ELSE status[r]]
  /\ UNCHANGED <<stored, asked>>

Next ==
  \/ \E r \in Requests :
       \/ \E o \in Ops : Submit(r, o)
       \/ TakeEffect(r)
       \/ Store(r)
       \/ Acknowledge(r)
       \/ Reject(r)
  \/ Import
  \/ Restart

Spec == Init /\ [][Next]_vars
=============================================================================
