-------------------------- MODULE EditStoreProofs ---------------------------
(***************************************************************************)
(* Theorems about EditStore, for every set of requests, readers, buildings *)
(* and fields and every number of crashes; and, in the last part, that it  *)
(* keeps the promise EditRegister while cold loads do not overlap, renames *)
(* are atomic and a file that is there can be read (Benign).               *)
(***************************************************************************)
EXTENDS EditStore, SequenceTheorems, TLAPS

\* What an update of the store returns is a store.
LEMMA AppliedType ==
  ASSUME NEW store \in Stores, NEW r \in Requests, NEW o \in Ops
  PROVE  Applied(store, r, o) \in Stores
<1>1. o.building \in Buildings /\ o.kind \in {"apply", "clear"}
  BY DEF Ops
<1>2. store[o.building] \in EditRecord
  BY <1>1 DEF Stores
<1>3. Merged(store[o.building], r, o.fields) \in EditRecord
  BY <1>2 DEF Merged, EditRecord, Values
<1>4. NoRecord \in EditRecord
  BY DEF NoRecord, EditRecord, Values
<1>5. QED
  BY <1>1, <1>3, <1>4 DEF Applied, Stores

\* The stores and files the model names are well formed.
LEMMA ConstantTypes ==
  /\ EmptyStore \in Stores
  /\ EarlierStore \in Stores
  /\ Absent \in Files
  /\ Torn \in Files
  /\ \A store \in Stores : Whole(store) \in Files
  /\ NoOp \in Ops
<1>1. EmptyStore \in Stores
  BY DEF EmptyStore, Stores, NoRecord, EditRecord, Values
<1>2. EarlierStore \in Stores
  BY DEF EarlierStore, Stores, EditRecord, Values
<1>3. Absent \in Files /\ Torn \in Files /\ \A store \in Stores : Whole(store) \in Files
  BY <1>1 DEF Absent, Torn, Whole, Files
<1>4. NoOp \in Ops
  BY BuildingAssumption DEF NoOp, Ops
<1>5. QED
  BY <1>1, <1>2, <1>3, <1>4

-----------------------------------------------------------------------------
LEMMA LoadStepType ==
  ASSUME TypeOK, NEW p \in Processes, LoadStep(p)
  PROVE  TypeOK'
<1> USE ConstantTypes DEF TypeOK, Goto, history, Release
<1>1. CASE StartLoad(p)
  BY <1>1 DEF StartLoad, Phases, Loading
<1>2. CASE Access(p)
  BY <1>2 DEF Access, Unread, Phases, Loading
<1>3. CASE BeginAdopt(p)
  BY <1>3 DEF BeginAdopt, Phases, Loading
<1>4. CASE EndAdopt(p)
  BY <1>4 DEF EndAdopt, Phases, Loading, LegacyStore
<1>5. CASE AdoptFails(p)
  BY <1>5 DEF AdoptFails, Phases, Loading
<1>6. CASE ReadFile(p)
  <2>1. disk.edits \in Stores
    BY DEF Files
  <2>2. got' \in [Processes -> Stores]
    BY <1>6, <2>1 DEF ReadFile
  <2>3. misread' \in BOOLEAN
    BY <1>6 DEF ReadFile, Unread
  <2>4. pc' \in [Processes -> Phases]
    BY <1>6 DEF ReadFile, Phases, Loading
  <2> QED BY <1>6, <2>2, <2>3, <2>4 DEF ReadFile
<1>7. CASE FinishRead(p)
  BY <1>7 DEF FinishRead, Phases, Loading
<1>8. QED
  BY <1>1, <1>2, <1>3, <1>4, <1>5, <1>6, <1>7 DEF LoadStep

LEMMA TakeEffectType ==
  ASSUME TypeOK, NEW r \in Requests, NEW store \in Stores, TakeEffect(r, store)
  PROVE  TypeOK'
<1>1. Applied(store, r, asked[r]) \in Stores
  BY AppliedType DEF TypeOK
<1>2. QED
  BY <1>1, ConstantTypes
     DEF TypeOK, TakeEffect, Goto, Release, Phases, Mutating, Processes

\* Only the head of the queue is under way, whatever the environment does.
HeadRuns == \A r \in Requests : pc[r] \in Loading \cup Mutating => AtHead(r)

LEMMA MutationStepType ==
  ASSUME TypeOK, HeadRuns, NEW r \in Requests, MutationStep(r)
  PROVE  TypeOK'
<1> USE ConstantTypes DEF TypeOK, Goto, history, Processes
<1>1. CASE MutateHit(r)
  BY <1>1, TakeEffectType DEF MutateHit
<1>2. CASE MutateLoaded(r)
  BY <1>2, TakeEffectType DEF MutateLoaded
<1>3. CASE WriteTmp(r)
  BY <1>3 DEF WriteTmp, Phases, Mutating
<1>4. CASE Rename(r)
  BY <1>4 DEF Rename, Phases, Mutating
<1>5. CASE BeginCopy(r)
  BY <1>5 DEF BeginCopy, Phases, Mutating
<1>6. CASE EndCopy(r)
  BY <1>6 DEF EndCopy, Phases, Mutating
<1>7. ASSUME pc[r] \in Mutating PROVE Tail(queue) \in Seq(Requests)
  <2>1. queue # <<>>
    BY <1>7 DEF HeadRuns, AtHead
  <2>2. QED
    BY <2>1, HeadTailProperties
<1>8. CASE PersistFails(r)
  BY <1>7, <1>8 DEF PersistFails, Phases, Mutating
<1>9. CASE Acknowledge(r)
  BY <1>7, <1>9 DEF Acknowledge, Phases, Mutating
<1>10. QED
  BY <1>1, <1>2, <1>3, <1>4, <1>5, <1>6, <1>8, <1>9 DEF MutationStep

LEMMA TypeStep ==
  ASSUME TypeOK, HeadRuns, [Next]_vars
  PROVE  TypeOK'
<1>1. ASSUME NEW p \in Processes, LoadStep(p) PROVE TypeOK'
  BY <1>1, LoadStepType
<1>2. ASSUME NEW r \in Requests, MutationStep(r) PROVE TypeOK'
  BY <1>2, MutationStepType
<1>3. ASSUME NEW r \in Requests, NEW o \in Ops, Submit(r, o) PROVE TypeOK'
  <2>1. queue' \in Seq(Requests)
    BY <1>3, AppendProperties DEF Submit, TypeOK
  <2>2. pc' \in [Processes -> Phases]
    BY <1>3 DEF Submit, TypeOK, Goto, Phases, Processes
  <2>3. QED
    BY <1>3, <2>1, <2>2 DEF Submit, TypeOK, history
<1>4. CASE Crash
  <2>1. <<>> \in Seq(Requests)
    BY EmptySeq
  <2>2. pc' \in [Processes -> Phases]
    BY <1>4 DEF Crash, TypeOK, Phases
  <2>3. EmptyStore \in Stores /\ got' \in [Processes -> Stores]
    BY <1>4, ConstantTypes DEF Crash
  <2>4. warm' \in BOOLEAN /\ migrated' \in BOOLEAN /\ memory' \in Stores /\ held' \in Stores
    BY <1>4, <2>3 DEF Crash
  <2>5. rev' \in Nat /\ crashes' \in Nat /\ queue' \in Seq(Requests)
    BY <1>4, <2>1 DEF Crash, TypeOK
  <2>6. QED
    BY <1>4, <2>2, <2>3, <2>4, <2>5 DEF Crash, TypeOK
<1>5. CASE UNCHANGED vars
  BY <1>5 DEF vars, TypeOK
<1>6. QED
  BY <1>1, <1>2, <1>3, <1>4, <1>5 DEF Next

LEMMA HeadRunsStep ==
  ASSUME TypeOK, HeadRuns, [Next]_vars
  PROVE  HeadRuns'
<1> USE DEF HeadRuns, TypeOK, AtHead, Goto, Processes
<1>1. ASSUME NEW p \in Processes, LoadStep(p) PROVE HeadRuns'
  BY <1>1, ProcessAssumption
     DEF LoadStep, StartLoad, Wants, Access, BeginAdopt, EndAdopt, AdoptFails,
         ReadFile, FinishRead, Loading, Mutating
<1>2. ASSUME NEW r \in Requests, MutationStep(r) PROVE HeadRuns'
  <2>1. CASE MutateHit(r) \/ MutateLoaded(r) \/ WriteTmp(r) \/ Rename(r)
             \/ BeginCopy(r) \/ EndCopy(r)
    BY <2>1, ProcessAssumption
       DEF MutateHit, MutateLoaded, TakeEffect, Wants, WriteTmp, Rename,
           BeginCopy, EndCopy, Loading, Mutating
  <2>2. CASE PersistFails(r) \/ Acknowledge(r)
    <3>1. AtHead(r) /\ \A s \in Requests \ {r} : pc[s] \notin Loading \cup Mutating
      BY <2>2 DEF PersistFails, Acknowledge, Mutating
    <3>2. pc'[r] \in {"ok", "failed"} /\ \A s \in Requests \ {r} : pc'[s] = pc[s]
      BY <2>2 DEF PersistFails, Acknowledge
    <3>3. QED
      BY <3>1, <3>2 DEF Loading, Mutating
  <2>3. QED
    BY <1>2, <2>1, <2>2 DEF MutationStep
<1>3. ASSUME NEW r \in Requests, NEW o \in Ops, Submit(r, o) PROVE HeadRuns'
  <2>1. queue # <<>> => queue' # <<>> /\ Head(queue') = Head(queue)
    BY <1>3, AppendProperties DEF Submit
  <2>2. pc'[r] = "queued" /\ \A s \in Requests \ {r} : pc'[s] = pc[s]
    BY <1>3 DEF Submit
  <2>3. QED
    BY <2>1, <2>2 DEF Loading, Mutating
<1>4. CASE Crash
  <2>1. \A r \in Requests : pc'[r] \notin Loading \cup Mutating
    BY <1>4, ProcessAssumption DEF Crash, Loading, Mutating
  <2>2. QED
    BY <2>1
<1>5. CASE UNCHANGED vars
  BY <1>5 DEF vars
<1>6. QED
  BY <1>1, <1>2, <1>3, <1>4, <1>5 DEF Next

LEMMA TypeInit ==
  ASSUME Init
  PROVE  TypeOK /\ HeadRuns
<1>1. disk \in Files
  BY ConstantTypes DEF Init
<1>2. pc \in [Processes -> Phases]
  BY DEF Init, Phases
<1>3. got \in [Processes -> Stores] /\ memory \in Stores /\ held \in Stores
  BY ConstantTypes DEF Init
<1>4. asked \in [Requests -> Ops] /\ order \in [Requests -> Nat]
  BY ConstantTypes DEF Init
<1>5. queue \in Seq(Requests)
  BY EmptySeq DEF Init
<1>6. TypeOK
  BY <1>1, <1>2, <1>3, <1>4, <1>5 DEF Init, TypeOK
<1>7. HeadRuns
  BY ProcessAssumption DEF Init, HeadRuns, Processes, Loading, Mutating
<1>8. QED
  BY <1>6, <1>7

\* Every variable of the edit store keeps its type in every behaviour, and only
\* the head of the queue of edits.ts:218 is ever under way: whatever fails,
\* whoever overlaps, and however often the process crashes.
THEOREM TypeCorrect == Spec => [](TypeOK /\ HeadRuns)
<1>1. Init => TypeOK /\ HeadRuns
  BY TypeInit
<1>2. TypeOK /\ HeadRuns /\ [Next]_vars => (TypeOK /\ HeadRuns)'
  BY TypeStep, HeadRunsStep
<1>3. QED
  BY <1>1, <1>2, PTL DEF Spec

-----------------------------------------------------------------------------
(* Safety while cold loads do not overlap and renames are not refused.  The  *)
(* runs with either flag raised show that both conditions are needed.        *)

\* One load at a time, and only while nothing is cached.
LoadsAlone ==
  \A p \in Processes : pc[p] \in Loading =>
    /\ ~warm
    /\ \A q \in Processes : pc[q] \in Loading => q = p

\* A mutation under way works on the cached store, and has put on disk what
\* that store holds once it is saved.
MutationHolds ==
  \A r \in Requests :
    /\ pc[r] # "copy"
    /\ pc[r] \in Mutating => warm
    /\ pc[r] \in {"write", "rename"} => held = memory
    /\ pc[r] = "saved" => disk.edits = memory

\* What a load has read is still what the file holds.
LoadFresh == \A p \in Processes : pc[p] = "parsed" => got[p] = disk.edits

\* The history variables: a request that took effect has a place in the order.
OrderInv ==
  \A r \in Requests :
    /\ order[r] <= clock
    /\ pc[r] \in Loading \cup {"new", "queued"} => order[r] = 0
    /\ pc[r] \in Mutating \cup {"ok"} => order[r] > 0

\* Adoption only ever writes over a file that nothing was saved to.
AdoptsNothing ==
  /\ Stored # {} => disk.state = "whole"
  /\ \A p \in Processes : pc[p] \in {"adopt", "adopting"} => Stored = {}

SafeInv ==
  /\ TypeOK
  /\ HeadRuns
  /\ LoadsAlone
  /\ MutationHolds
  /\ LoadFresh
  /\ OrderInv
  /\ AdoptsNothing
  /\ ReadsKeepEveryEdit
  /\ AckedEditsDurable

Benign == ~ColdOverlap /\ ~RenameFails /\ ~ReadFails

\* The steps of one process that leave the file, the cache and the order alone
\* need no argument about stores; the others get a step of their own below.
LEMMA LoadsAloneStep ==
  ASSUME SafeInv, Benign, [Next]_vars
  PROVE  LoadsAlone'
<1> USE DEF SafeInv, TypeOK, LoadsAlone, Goto, Processes, Loading
<1>1. ASSUME NEW p \in Processes, LoadStep(p) PROVE LoadsAlone'
  <2>1. CASE StartLoad(p)
    BY <2>1 DEF StartLoad, Benign, Wants
  <2>2. CASE FinishRead(p)
    BY <2>2 DEF FinishRead
  <2>3. CASE ~StartLoad(p) /\ ~FinishRead(p)
    <3>1. pc[p] \in Loading /\ warm' = warm
      BY <1>1, <2>3 DEF LoadStep, Access, BeginAdopt, EndAdopt, AdoptFails, ReadFile
    <3>2. \A q \in Processes \ {p} : pc'[q] = pc[q]
      BY <1>1, <2>3 DEF LoadStep, Access, BeginAdopt, EndAdopt, AdoptFails, ReadFile
    <3>3. QED
      BY <3>1, <3>2
  <2>4. QED
    BY <2>1, <2>2, <2>3
<1>2. ASSUME NEW r \in Requests, MutationStep(r) PROVE LoadsAlone'
  <2>1. CASE MutateHit(r)
    BY <2>1 DEF MutateHit, TakeEffect
  <2>2. CASE MutateLoaded(r)
    BY <2>2 DEF MutateLoaded, TakeEffect
  <2>3. CASE ~MutateHit(r) /\ ~MutateLoaded(r)
    <3>1. pc'[r] \notin Loading /\ warm' = warm
      BY <1>2, <2>3 DEF MutationStep, WriteTmp, Rename, BeginCopy, EndCopy, PersistFails,
                        Acknowledge
    <3>2. \A q \in Processes \ {r} : pc'[q] = pc[q]
      BY <1>2, <2>3 DEF MutationStep, WriteTmp, Rename, BeginCopy, EndCopy, PersistFails,
                        Acknowledge
    <3>3. QED
      BY <3>1, <3>2
  <2>4. QED
    BY <2>1, <2>2, <2>3
<1>3. ASSUME NEW r \in Requests, NEW o \in Ops, Submit(r, o) PROVE LoadsAlone'
  BY <1>3 DEF Submit
<1>4. CASE Crash
  BY <1>4 DEF Crash, Phases, Mutating
<1>5. CASE UNCHANGED vars
  BY <1>5 DEF vars
<1>6. QED
  BY <1>1, <1>2, <1>3, <1>4, <1>5 DEF Next

LEMMA MutationHoldsStep ==
  ASSUME SafeInv, Benign, [Next]_vars
  PROVE  MutationHolds'
<1> USE ProcessAssumption DEF SafeInv, TypeOK, MutationHolds, Goto, Processes, Mutating
\* Only the head of the queue is loading or mutating.
<1>0. ASSUME NEW r \in Requests, pc[r] \in Loading \cup Mutating,
             NEW s \in Requests \ {r}
      PROVE  pc[s] \notin Mutating
  BY <1>0 DEF HeadRuns, AtHead
<1>1. ASSUME NEW p \in Processes, LoadStep(p) PROVE MutationHolds'
  <2>1. CASE StartLoad(p)
    BY <2>1 DEF StartLoad, Loading
  <2>2. CASE FinishRead(p)
    BY <2>2 DEF FinishRead, LoadsAlone, Loading
  <2>3. CASE ~StartLoad(p) /\ ~FinishRead(p)
    <3>1. pc[p] \in Loading /\ ~warm
      BY <1>1, <2>3 DEF LoadStep, Access, BeginAdopt, EndAdopt, AdoptFails, ReadFile,
                        LoadsAlone, Loading
    <3>2. \A r \in Requests : pc[r] \notin Mutating
      BY <3>1
    <3>3. \A r \in Requests : pc'[r] \notin Mutating
      BY <1>1, <2>3, <3>2 DEF LoadStep, Access, BeginAdopt, EndAdopt, AdoptFails, ReadFile
    <3>4. QED
      BY <3>3
  <2>4. QED
    BY <2>1, <2>2, <2>3
<1>2. ASSUME NEW r \in Requests, MutationStep(r) PROVE MutationHolds'
  <2>1. CASE MutateHit(r)
    <3>1. \A s \in Requests \ {r} : pc[s] \notin Mutating
      BY <2>1 DEF MutateHit, Wants, HeadRuns, AtHead
    <3>2. QED
      BY <2>1, <3>1 DEF MutateHit, TakeEffect
  <2>2. CASE MutateLoaded(r)
    BY <2>2, <1>0 DEF MutateLoaded, TakeEffect, Loading
  <2>3. CASE WriteTmp(r)
    BY <2>3, <1>0 DEF WriteTmp
  <2>4. CASE Rename(r)
    BY <2>4, <1>0 DEF Rename, Whole
  <2>5. CASE BeginCopy(r) \/ EndCopy(r)
    BY <2>5 DEF BeginCopy, EndCopy, Benign
  <2>6. CASE PersistFails(r) \/ Acknowledge(r)
    BY <2>6, <1>0 DEF PersistFails, Acknowledge
  <2>7. QED
    BY <1>2, <2>1, <2>2, <2>3, <2>4, <2>5, <2>6 DEF MutationStep
<1>3. ASSUME NEW r \in Requests, NEW o \in Ops, Submit(r, o) PROVE MutationHolds'
  BY <1>3 DEF Submit
<1>4. CASE Crash
  BY <1>4 DEF Crash, Phases
<1>5. CASE UNCHANGED vars
  BY <1>5 DEF vars
<1>6. QED
  BY <1>1, <1>2, <1>3, <1>4, <1>5 DEF Next

LEMMA LoadFreshStep ==
  ASSUME SafeInv, Benign, [Next]_vars
  PROVE  LoadFresh'
<1> USE ProcessAssumption DEF SafeInv, TypeOK, LoadFresh, Goto, Processes, Loading
<1>1. ASSUME NEW p \in Processes, LoadStep(p) PROVE LoadFresh'
  <2>1. CASE StartLoad(p) \/ Access(p) \/ AdoptFails(p)
    BY <2>1 DEF StartLoad, Access, AdoptFails
  <2>2. CASE BeginAdopt(p) \/ EndAdopt(p)
    <3>1. \A q \in Processes : pc'[q] # "parsed"
      BY <2>2 DEF BeginAdopt, EndAdopt, LoadsAlone
    <3>2. QED
      BY <3>1
  <2>3. CASE ReadFile(p) \/ FinishRead(p)
    BY <2>3 DEF ReadFile, FinishRead, Release, Benign
  <2>4. QED
    BY <1>1, <2>1, <2>2, <2>3 DEF LoadStep
<1>2. ASSUME NEW r \in Requests, MutationStep(r) PROVE LoadFresh'
  <2>1. CASE MutateHit(r) \/ MutateLoaded(r)
    BY <2>1 DEF MutateHit, MutateLoaded, TakeEffect, Release
  <2>2. CASE Rename(r)
    <3>1. warm
      BY <2>2 DEF Rename, MutationHolds, Mutating
    <3>2. \A q \in Processes : pc'[q] # "parsed"
      BY <2>2, <3>1 DEF Rename, LoadsAlone
    <3>3. QED
      BY <3>2
  <2>3. CASE BeginCopy(r) \/ EndCopy(r)
    BY <2>3 DEF BeginCopy, EndCopy, Benign, MutationHolds
  <2>4. CASE WriteTmp(r) \/ PersistFails(r) \/ Acknowledge(r)
    BY <2>4 DEF WriteTmp, PersistFails, Acknowledge
  <2>5. QED
    BY <1>2, <2>1, <2>2, <2>3, <2>4 DEF MutationStep
<1>3. ASSUME NEW r \in Requests, NEW o \in Ops, Submit(r, o) PROVE LoadFresh'
  BY <1>3 DEF Submit
<1>4. CASE Crash
  BY <1>4 DEF Crash, Mutating
<1>5. CASE UNCHANGED vars
  BY <1>5 DEF vars
<1>6. QED
  BY <1>1, <1>2, <1>3, <1>4, <1>5 DEF Next

LEMMA OrderStep ==
  ASSUME SafeInv, [Next]_vars
  PROVE  OrderInv'
<1> USE ProcessAssumption
    DEF SafeInv, TypeOK, OrderInv, Goto, Processes, Loading, Mutating, history
<1>1. ASSUME NEW p \in Processes, LoadStep(p) PROVE OrderInv'
  BY <1>1 DEF LoadStep, StartLoad, Wants, Access, BeginAdopt, EndAdopt, AdoptFails,
              ReadFile, FinishRead
<1>2. ASSUME NEW r \in Requests, MutationStep(r) PROVE OrderInv'
  <2>1. CASE MutateHit(r) \/ MutateLoaded(r)
    <3>1. /\ pc[r] \in {"queued", "parsed"} /\ pc'[r] = "write"
          /\ \A q \in Processes \ {r} : pc'[q] = pc[q]
      BY <2>1 DEF MutateHit, MutateLoaded, TakeEffect, Wants
    <3>2. clock' = clock + 1 /\ order' = [order EXCEPT ![r] = clock + 1]
      BY <2>1 DEF MutateHit, MutateLoaded, TakeEffect
    <3>3. QED
      BY <3>1, <3>2
  <2>2. CASE ~MutateHit(r) /\ ~MutateLoaded(r)
    BY <1>2, <2>2 DEF MutationStep, WriteTmp, Rename, BeginCopy, EndCopy, PersistFails,
                      Acknowledge
  <2>3. QED
    BY <2>1, <2>2
<1>3. ASSUME NEW r \in Requests, NEW o \in Ops, Submit(r, o) PROVE OrderInv'
  BY <1>3 DEF Submit
<1>4. CASE Crash
  BY <1>4 DEF Crash
<1>5. CASE UNCHANGED vars
  BY <1>5 DEF vars
<1>6. QED
  BY <1>1, <1>2, <1>3, <1>4, <1>5 DEF Next

LEMMA AdoptsNothingStep ==
  ASSUME SafeInv, Benign, [Next]_vars
  PROVE  AdoptsNothing'
<1> USE ProcessAssumption
    DEF SafeInv, TypeOK, AdoptsNothing, Stored, Goto, Processes, Loading
<1>1. ASSUME NEW p \in Processes, LoadStep(p) PROVE AdoptsNothing'
  <2>1. Stored' = Stored
    BY <1>1 DEF LoadStep, StartLoad, Wants, Access, BeginAdopt, EndAdopt, AdoptFails,
                ReadFile, FinishRead
  <2>2. CASE BeginAdopt(p) \/ EndAdopt(p)
    BY <2>1, <2>2 DEF BeginAdopt, EndAdopt, Whole
  <2>3. CASE Access(p)
    BY <2>1, <2>3 DEF Access, Unread, Benign
  <2>4. CASE StartLoad(p) \/ AdoptFails(p) \/ ReadFile(p) \/ FinishRead(p)
    BY <2>1, <2>4 DEF StartLoad, AdoptFails, ReadFile, FinishRead
  <2>5. QED
    BY <1>1, <2>2, <2>3, <2>4 DEF LoadStep
<1>2. ASSUME NEW r \in Requests, MutationStep(r) PROVE AdoptsNothing'
  <2>1. CASE MutateHit(r) \/ MutateLoaded(r) \/ WriteTmp(r) \/ PersistFails(r)
    BY <2>1 DEF MutateHit, MutateLoaded, TakeEffect, Wants, WriteTmp, PersistFails
  <2>2. CASE Acknowledge(r)
    BY <2>2 DEF Acknowledge
  <2>3. CASE Rename(r)
    <3>1. \A p \in Processes : pc[p] \notin Loading
      BY <2>3 DEF Rename, MutationHolds, Mutating, LoadsAlone
    <3>2. QED
      BY <2>3, <3>1 DEF Rename, Whole
  <2>4. CASE BeginCopy(r) \/ EndCopy(r)
    BY <2>4 DEF BeginCopy, EndCopy, Benign, MutationHolds
  <2>5. QED
    BY <1>2, <2>1, <2>2, <2>3, <2>4 DEF MutationStep
<1>3. ASSUME NEW r \in Requests, NEW o \in Ops, Submit(r, o) PROVE AdoptsNothing'
  BY <1>3 DEF Submit
<1>4. CASE Crash
  BY <1>4 DEF Crash, Mutating
<1>5. CASE UNCHANGED vars
  BY <1>5 DEF vars
<1>6. QED
  BY <1>1, <1>2, <1>3, <1>4, <1>5 DEF Next

-----------------------------------------------------------------------------
\* A new mutation decides the fields it touches and leaves the others as they
\* were, so what survived before it survives after it, and so does the mutation.
LEMMA TakeEffectKeeps ==
  ASSUME SafeInv, NEW r \in Requests, NEW store \in Stores,
         TakeEffect(r, store), order[r] = 0,
         NEW s \in Requests, s = r \/ (order[s] > 0 /\ Survives(store, s))
  PROVE  Survives(memory, s)'
<1> DEFINE b == asked[s].building
<1>1. asked' = asked /\ asked[r] \in Ops /\ asked[s] \in Ops /\ b \in Buildings
  BY DEF SafeInv, TypeOK, TakeEffect, Ops
<1>2. /\ order'[r] = clock + 1
      /\ \A q \in Requests \ {r} : order'[q] = order[q] /\ order[q] <= clock
      /\ order[s] <= clock
      /\ clock \in Nat /\ order \in [Requests -> Nat]
  BY DEF SafeInv, TypeOK, TakeEffect, OrderInv
<1>3. memory' = Applied(store, r, asked[r])
  BY DEF TakeEffect
<1>4. ASSUME NEW f \in Touched(asked[s]) PROVE Decided(memory, s, f)'
  <2>1. f \in Fields
    BY <1>1 DEF Touched, Ops
  <2>2. CASE asked[r].building = b /\ f \in Touched(asked[r])
    <3>1. memory'[b].fields[f] = Written(r, asked[r])
      BY <1>1, <1>3, <2>1, <2>2
         DEF Applied, Merged, NoRecord, Written, Touched, Stores, EditRecord, Ops
    <3>2. order'[r] >= order'[s]
      BY <1>2
    <3>3. QED
      BY <1>1, <2>2, <3>1, <3>2 DEF Decided
  <2>3. CASE ~(asked[r].building = b /\ f \in Touched(asked[r]))
    <3>1. s # r
      BY <2>3
    <3>2. PICK w \in Requests : /\ order[w] >= order[s]
                                /\ asked[w].building = b
                                /\ f \in Touched(asked[w])
                                /\ store[b].fields[f] = Written(w, asked[w])
      BY <3>1 DEF Survives, Decided
    <3>3. w # r /\ order'[w] = order[w] /\ order'[s] = order[s]
      BY <1>2, <3>1, <3>2
    <3>4. memory'[b].fields[f] = store[b].fields[f]
      BY <1>1, <1>3, <2>1, <2>3
         DEF Applied, Merged, NoRecord, Touched, Stores, EditRecord, Ops
    <3>5. QED
      BY <1>1, <3>2, <3>3, <3>4 DEF Decided
  <2>4. QED
    BY <2>2, <2>3
<1>5. QED
  BY <1>1, <1>4 DEF Survives

\* Survival depends on the store, the order and the operations asked for, and on
\* the operation of no request that has not taken effect.
LEMMA SurvivesUnchanged ==
  ASSUME SafeInv, NEW store, NEW s \in Requests, order[s] > 0, order' = order,
         \A q \in Requests : order[q] > 0 => asked'[q] = asked[q],
         Survives(store, s)
  PROVE  \A f \in Touched(asked'[s]) :
           \E w \in Requests :
             /\ order'[w] >= order'[s]
             /\ asked'[w].building = asked'[s].building
             /\ f \in Touched(asked'[w])
             /\ store[asked'[s].building].fields[f] = Written(w, asked'[w])
<1>1. order \in [Requests -> Nat]
  BY DEF SafeInv, TypeOK
<1>2. \A w \in Requests : order[w] >= order[s] => asked'[w] = asked[w]
  BY <1>1
<1>3. QED
  BY <1>1, <1>2 DEF Survives, Decided

\* The two promises move together: a load turns what is durable into what is
\* read, a rename turns what is read into what is durable.
Kept == ReadsKeepEveryEdit /\ AckedEditsDurable

LEMMA KeptUnchanged ==
  ASSUME SafeInv, order' = order,
         \A q \in Requests : order[q] > 0 => asked'[q] = asked[q],
         TookEffect' \subseteq TookEffect, Stored' \subseteq Stored,
         warm' => warm /\ memory' = memory,
         disk'.edits = disk.edits \/ Stored' = {}
  PROVE  Kept'
<1>1. \A s \in TookEffect \cup Stored : order[s] > 0
  BY DEF SafeInv, OrderInv, TookEffect, Stored, Mutating
<1>2. ASSUME warm', NEW s \in TookEffect' PROVE Survives(memory, s)'
  <2>1. Survives(memory, s) /\ s \in Requests /\ order[s] > 0 /\ memory' = memory
    BY <1>1, <1>2 DEF SafeInv, ReadsKeepEveryEdit, TookEffect
  <2>2. \A f \in Touched(asked'[s]) :
          \E w \in Requests :
            /\ order'[w] >= order'[s]
            /\ asked'[w].building = asked'[s].building
            /\ f \in Touched(asked'[w])
            /\ memory[asked'[s].building].fields[f] = Written(w, asked'[w])
    BY <2>1, SurvivesUnchanged
  <2>3. QED
    BY <2>1, <2>2 DEF Survives, Decided
<1>3. ASSUME NEW s \in Stored' PROVE Survives(disk.edits, s)'
  <2>1. Survives(disk.edits, s) /\ s \in Requests /\ order[s] > 0
    BY <1>1, <1>3 DEF SafeInv, AckedEditsDurable, Stored
  <2>2. disk'.edits = disk.edits
    BY <1>3
  <2>3. QED
    BY <2>1, <2>2, SurvivesUnchanged DEF Survives, Decided
<1>4. QED
  BY <1>2, <1>3 DEF Kept, ReadsKeepEveryEdit, AckedEditsDurable

\* A cold cache means that every request that took effect has been stored.
LEMMA ColdMeansStored ==
  ASSUME SafeInv, ~warm
  PROVE  TookEffect \subseteq Stored
BY DEF SafeInv, MutationHolds, TookEffect, Stored

LEMMA KeptByLoad ==
  ASSUME SafeInv, NEW p \in Processes, LoadStep(p)
  PROVE  Kept'
<1> USE ProcessAssumption DEF SafeInv, TypeOK, Goto, Processes, Loading, Mutating, history
<1>1. TookEffect' = TookEffect /\ Stored' = Stored
  BY DEF LoadStep, StartLoad, Wants, Access, BeginAdopt, EndAdopt, AdoptFails,
         ReadFile, FinishRead, TookEffect, Stored
<1>2. order' = order /\ asked' = asked
  BY DEF LoadStep, StartLoad, Access, BeginAdopt, EndAdopt, AdoptFails, ReadFile,
         FinishRead
<1>3. CASE FinishRead(p)
  <2>1. ~warm /\ memory' = disk.edits /\ disk' = disk
    BY <1>3 DEF FinishRead, LoadsAlone, LoadFresh
  <2>2. \A s \in Stored : order[s] > 0 /\ Survives(disk.edits, s)
    BY DEF OrderInv, AckedEditsDurable, Stored
  <2>3. \A s \in Stored : Survives(disk.edits, s)' /\ Survives(memory, s)'
    BY <1>2, <2>1, <2>2, SurvivesUnchanged DEF Survives, Decided, Stored
  <2>4. QED
    BY <1>1, <2>1, <2>3, ColdMeansStored DEF Kept, ReadsKeepEveryEdit, AckedEditsDurable
<1>4. CASE BeginAdopt(p) \/ EndAdopt(p)
  <2>1. Stored = {} /\ warm' = warm /\ memory' = memory
    BY <1>4 DEF BeginAdopt, EndAdopt, AdoptsNothing
  <2>2. QED
    BY <1>1, <1>2, <2>1, KeptUnchanged
<1>5. CASE StartLoad(p) \/ Access(p) \/ AdoptFails(p) \/ ReadFile(p)
  <2>1. warm' = warm /\ memory' = memory /\ disk' = disk
    BY <1>5 DEF StartLoad, Access, AdoptFails, ReadFile
  <2>2. QED
    BY <1>1, <1>2, <2>1, KeptUnchanged
<1>6. QED
  BY <1>3, <1>4, <1>5 DEF LoadStep

LEMMA KeptByTakingEffect ==
  ASSUME SafeInv, NEW r \in Requests, NEW store \in Stores, TakeEffect(r, store),
         order[r] = 0, \A s \in TookEffect : Survives(store, s)
  PROVE  Kept'
<1> USE DEF SafeInv, TypeOK, Goto, Processes, Mutating
<1>1. /\ TookEffect' = TookEffect \cup {r}
      /\ Stored' = Stored
      /\ disk' = disk
      /\ asked' = asked
  BY DEF TakeEffect, TookEffect, Stored, OrderInv
<1>2. \A s \in TookEffect \cup Stored : order[s] > 0
  BY DEF OrderInv, TookEffect, Stored
<1>3. \A s \in TookEffect' : Survives(memory, s)'
  BY <1>1, <1>2, TakeEffectKeeps DEF TookEffect
<1>4. ASSUME NEW s \in Stored PROVE Survives(disk.edits, s)'
  <2>1. \A w \in Requests : order[w] >= order[s] => order'[w] >= order'[s]
    BY <1>2, <1>4 DEF TakeEffect, Stored, OrderInv
  <2>2. QED
    BY <1>1, <1>4, <2>1 DEF AckedEditsDurable, Survives, Decided, Stored
<1>5. QED
  BY <1>1, <1>3, <1>4 DEF Kept, ReadsKeepEveryEdit, AckedEditsDurable

LEMMA KeptByMutation ==
  ASSUME SafeInv, Benign, NEW r \in Requests, MutationStep(r)
  PROVE  Kept'
<1> USE DEF SafeInv, TypeOK, Goto, Processes, Mutating, history
<1>1. CASE MutateHit(r)
  <2>1. order[r] = 0 /\ warm /\ \A s \in TookEffect : Survives(memory, s)
    BY <1>1, ProcessAssumption
       DEF MutateHit, Wants, OrderInv, ReadsKeepEveryEdit
  <2>2. QED
    BY <1>1, <2>1, KeptByTakingEffect DEF MutateHit
<1>2. CASE MutateLoaded(r)
  <2>1. order[r] = 0 /\ ~warm /\ got[r] = disk.edits
    BY <1>2 DEF MutateLoaded, OrderInv, LoadsAlone, LoadFresh, Loading
  <2>2. \A s \in TookEffect : Survives(got[r], s)
    BY <2>1, ColdMeansStored DEF AckedEditsDurable
  <2>3. QED
    BY <1>2, <2>1, <2>2, KeptByTakingEffect DEF MutateLoaded
<1>3. CASE Rename(r)
  <2>1. /\ disk'.edits = memory
        /\ memory' = memory
        /\ warm /\ warm'
        /\ order' = order
        /\ asked' = asked
    BY <1>3 DEF Rename, MutationHolds, Whole
  <2>2. TookEffect' = TookEffect /\ Stored' \subseteq TookEffect
    BY <1>3 DEF Rename, TookEffect, Stored
  <2>3. \A s \in TookEffect : order[s] > 0 /\ Survives(memory, s)
    BY <2>1 DEF OrderInv, ReadsKeepEveryEdit, TookEffect
  <2>4. \A s \in TookEffect : Survives(memory, s)' /\ Survives(disk.edits, s)'
    BY <2>1, <2>3, SurvivesUnchanged DEF Survives, Decided, TookEffect
  <2>5. QED
    BY <2>2, <2>4 DEF Kept, ReadsKeepEveryEdit, AckedEditsDurable
<1>4. CASE WriteTmp(r) \/ PersistFails(r) \/ Acknowledge(r)
  <2>1. TookEffect' \subseteq TookEffect /\ Stored' \subseteq Stored
    BY <1>4 DEF WriteTmp, PersistFails, Acknowledge, TookEffect, Stored
  <2>2. /\ order' = order
        /\ asked' = asked
        /\ warm' = warm
        /\ memory' = memory
        /\ disk' = disk
    BY <1>4 DEF WriteTmp, PersistFails, Acknowledge
  <2>3. QED
    BY <2>1, <2>2, KeptUnchanged
<1>5. CASE BeginCopy(r) \/ EndCopy(r)
  BY <1>5 DEF BeginCopy, EndCopy, Benign, MutationHolds
<1>6. QED
  BY <1>1, <1>2, <1>3, <1>4, <1>5 DEF MutationStep

LEMMA KeptStep ==
  ASSUME SafeInv, Benign, [Next]_vars
  PROVE  Kept'
<1> USE DEF SafeInv, TypeOK, Goto, Processes, Mutating, history
<1>1. ASSUME NEW p \in Processes, LoadStep(p) PROVE Kept'
  BY <1>1, KeptByLoad
<1>2. ASSUME NEW r \in Requests, MutationStep(r) PROVE Kept'
  BY <1>2, KeptByMutation
<1>3. ASSUME NEW r \in Requests, NEW o \in Ops, Submit(r, o) PROVE Kept'
  <2>1. TookEffect' = TookEffect /\ Stored' = Stored
    BY <1>3 DEF Submit, TookEffect, Stored
  <2>2. \A q \in Requests : order[q] > 0 => asked'[q] = asked[q]
    BY <1>3 DEF Submit, OrderInv
  <2>3. QED
    BY <1>3, <2>1, <2>2, KeptUnchanged DEF Submit
<1>4. CASE Crash
  <2>1. TookEffect' \subseteq TookEffect /\ Stored' \subseteq Stored
    BY <1>4 DEF Crash, TookEffect, Stored
  <2>2. QED
    BY <1>4, <2>1, KeptUnchanged DEF Crash
<1>5. CASE UNCHANGED vars
  <2>1. TookEffect' = TookEffect /\ Stored' = Stored
    BY <1>5 DEF vars, TookEffect, Stored
  <2>2. QED
    BY <1>5, <2>1, KeptUnchanged DEF vars
<1>6. QED
  BY <1>1, <1>2, <1>3, <1>4, <1>5 DEF Next

\* With atomic renames, and cold loads that do not overlap, the strengthening
\* holds in every behaviour of the store in edits.ts.
LEMMA SafeInvHolds ==
  ASSUME Benign
  PROVE  Spec => []SafeInv
<1>1. Init => SafeInv
  <2> SUFFICES ASSUME Init PROVE SafeInv
    OBVIOUS
  <2>1. TypeOK /\ HeadRuns
    BY ConstantTypes, TypeInit
  <2>2. \A p \in Processes : pc[p] \notin Loading \cup Mutating \cup {"ok", "copy"}
    BY DEF Init, Loading, Mutating
  <2>3. TookEffect = {} /\ Stored = {}
    BY <2>2 DEF TookEffect, Stored, Mutating, Processes
  <2>4. LoadsAlone /\ MutationHolds /\ LoadFresh
    BY <2>2 DEF LoadsAlone, MutationHolds, LoadFresh, Loading, Mutating, Processes
  <2>5. OrderInv
    <3>1. \A r \in Requests : r \in Processes /\ order[r] = 0 /\ clock = 0
      BY DEF Init, Processes
    <3>2. \A r \in Requests : order[r] <= clock
      <4>1. ASSUME NEW r \in Requests PROVE order[r] <= clock
        <5>1. order[r] = 0 /\ clock = 0
          BY <3>1
        <5>2. 0 <= 0
          OBVIOUS
        <5>3. QED
          BY <5>1, <5>2
      <4>2. QED
        BY <4>1
    <3>3. \A r \in Requests : pc[r] \notin Mutating \cup {"ok"}
      BY <2>2, <3>1
    <3>4. QED
      BY <3>1, <3>2, <3>3 DEF OrderInv
  <2>6. QED
    BY <2>1, <2>2, <2>3, <2>4, <2>5
       DEF SafeInv, AdoptsNothing, ReadsKeepEveryEdit, AckedEditsDurable, Loading
<1>2. SafeInv /\ [Next]_vars => SafeInv'
  <2> SUFFICES ASSUME SafeInv, [Next]_vars PROVE SafeInv'
    OBVIOUS
  <2>1. TypeOK' /\ HeadRuns'
    BY TypeStep, HeadRunsStep DEF SafeInv
  <2>2. LoadsAlone' /\ MutationHolds' /\ LoadFresh'
    BY LoadsAloneStep, MutationHoldsStep, LoadFreshStep
  <2>3. OrderInv' /\ AdoptsNothing' /\ Kept'
    BY OrderStep, AdoptsNothingStep, KeptStep
  <2>4. QED
    BY <2>1, <2>2, <2>3 DEF SafeInv, Kept
<1>3. QED
  BY <1>1, <1>2, PTL DEF Spec

\* No read of the edit store misses an edit that is being saved or was
\* acknowledged (the claim of edits.ts:94-97), for every number of requests,
\* readers and crashes, as long as cold loads do not overlap, renames are atomic and a file
\* that is there can be read.
THEOREM ReadsKeep ==
  ASSUME Benign
  PROVE  Spec => []ReadsKeepEveryEdit
<1>1. SafeInv => ReadsKeepEveryEdit
  BY DEF SafeInv
<1>2. QED
  BY <1>1, SafeInvHolds, PTL

\* An edit that applyEdit acknowledged is in the file, and a crash between any
\* two steps leaves it there (edits.ts:202-203), while renames are atomic,
\* cold loads do not overlap and a file that is there can be read.
THEOREM AckedIsDurable ==
  ASSUME Benign
  PROVE  Spec => []AckedEditsDurable
<1>1. SafeInv => AckedEditsDurable
  BY DEF SafeInv
<1>2. QED
  BY <1>1, SafeInvHolds, PTL

\* editsRev moves only while what is read is what is stored (edits.ts:228-229), under the
\* same conditions.
THEOREM RevNamesStored ==
  ASSUME Benign
  PROVE  Spec => RevNamesStoredEdits
<1>1. SafeInv /\ [Next]_vars
        => [rev' > rev => disk.edits = memory /\ memory' = memory]_vars
  <2> SUFFICES ASSUME SafeInv, Next, rev' > rev
               PROVE  disk.edits = memory /\ memory' = memory
    OBVIOUS
  <2>1. rev \in Nat /\ ~(0 > rev) /\ ~(rev > rev)
    BY DEF SafeInv, TypeOK
  <2>2. PICK r \in Requests : Acknowledge(r)
    BY <2>1 DEF Next, LoadStep, StartLoad, Access, BeginAdopt, EndAdopt, AdoptFails,
                ReadFile, FinishRead, MutationStep, MutateHit, MutateLoaded, TakeEffect,
                WriteTmp, Rename, BeginCopy, EndCopy, PersistFails, Submit, Crash
  <2>3. QED
    BY <2>2 DEF Acknowledge, SafeInv, MutationHolds
<1>2. QED
  BY <1>1, SafeInvHolds, PTL DEF Spec, RevNamesStoredEdits

-----------------------------------------------------------------------------
(* The legacy edits.  What loses them is known: a crash or a failing write   *)
(* inside the adoption, which writes the target in place, a second load that *)
(* overtakes it, and a file that cannot be read.  Without these they are     *)
(* kept, refused renames or not.                                             *)

Undisturbed == ~ColdOverlap /\ ~ReadFails /\ ~InPlaceFails /\ MaxCrashes = 0

Settled(b, f) ==
  \E r \in Requests : order[r] > 0 /\ asked[r].building = b /\ f \in Touched(asked[r])

Legacy(store) ==
  \A b \in Buildings, f \in Fields : store[b].fields[f] = Imported \/ Settled(b, f)

\* Until there is a cached store, the file is the legacy one, or is about to be: a load
\* that comes as far as reading it finds it whole.
LegacyInv ==
  /\ LoadsAlone
  /\ \A r \in Requests : pc[r] = "new" => order[r] = 0
  /\ warm => Legacy(memory)
  /\ ~warm =>
       /\ \A r \in Requests : pc[r] \notin Mutating
       /\ \A p \in Processes :
            /\ pc[p] = "access" => disk \in {Absent, Whole(EarlierStore)}
            /\ pc[p] = "adopt" => disk = Absent
            /\ pc[p] = "open" => disk = Whole(EarlierStore)
            /\ pc[p] = "parsed" => got[p] = EarlierStore
       /\ (\A p \in Processes : pc[p] \notin Loading) =>
            ~migrated /\ disk \in {Absent, Whole(EarlierStore)}

LEMMA LegacyTakesEffect ==
  ASSUME TypeOK, NEW r \in Requests, NEW store \in Stores, Legacy(store), TakeEffect(r, store)
  PROVE  Legacy(memory)'
<1> SUFFICES ASSUME NEW b \in Buildings, NEW f \in Fields
             PROVE  memory'[b].fields[f] = Imported \/ Settled(b, f)'
  BY DEF Legacy
<1> DEFINE o == asked[r]
<1>1. /\ memory' = Applied(store, r, o) /\ asked' = asked
      /\ order' = [order EXCEPT ![r] = clock + 1]
  BY DEF TakeEffect
<1>2. order \in [Requests -> Nat] /\ clock \in Nat /\ o \in Ops BY DEF TypeOK
<1>3. order'[r] > 0 /\ \A s \in Requests : order[s] > 0 => order'[s] > 0 BY <1>1, <1>2
<1>4. CASE o.building = b /\ f \in Touched(o) BY <1>1, <1>3, <1>4 DEF Settled
<1>5. CASE ~(o.building = b /\ f \in Touched(o))
  <2>1. store[b] \in EditRecord /\ o.kind \in {"apply", "clear"} BY <1>2 DEF Stores, Ops
  <2>2. memory'[b].fields[f] = store[b].fields[f]
    <3>1. CASE o.building # b
      <4>1. memory'[b] = store[b] BY <1>1, <3>1 DEF Applied, Stores
      <4> QED BY <4>1
    <3>2. CASE o.building = b /\ f \notin Touched(o)
      <4>1. o.kind = "apply" /\ f \notin o.fields BY <3>2 DEF Touched
      <4>2. memory'[b] = Merged(store[b], r, o.fields) BY <1>1, <3>2, <4>1 DEF Applied, Stores
      <4> QED BY <4>1, <4>2 DEF Merged
    <3> QED BY <1>5, <3>1, <3>2
  <2>3. Settled(b, f) => Settled(b, f)' BY <1>1, <1>3 DEF Settled
  <2> QED BY <2>2, <2>3 DEF Legacy
<1> QED BY <1>4, <1>5

\* A step that takes no request into effect changes nothing of what is settled.
LEMMA LegacyUnchanged ==
  ASSUME TypeOK, LegacyInv, UNCHANGED <<memory, order>>,
         \A r \in Requests : asked'[r] = asked[r] \/ pc[r] = "new"
  PROVE  Legacy(memory) => Legacy(memory)'
<1>1. \A b \in Buildings, f \in Fields : Settled(b, f) => Settled(b, f)'
  BY DEF LegacyInv, Settled
<1>2. QED
  BY <1>1 DEF Legacy

LEMMA LegacyInvStep ==
  ASSUME TypeOK, HeadRuns, LegacyInv, Undisturbed, Adopts, HasLegacy, [Next]_vars
  PROVE  LegacyInv'
<1> USE ProcessAssumption DEF TypeOK, Goto, Processes
<1>1. ASSUME NEW p \in Processes, LoadStep(p) PROVE LegacyInv'
  <2>1. ~warm /\ UNCHANGED <<asked, order>> /\ ~(\E r \in Requests : pc[r] \in Mutating)
    BY <1>1 DEF LoadStep, StartLoad, Access, BeginAdopt, EndAdopt, AdoptFails, ReadFile,
                FinishRead, LegacyInv, LoadsAlone, Loading, history
  <2>2. \A q \in Processes \ {p} : pc'[q] = pc[q] /\ pc[q] \notin Loading
    BY <1>1 DEF LoadStep, StartLoad, Access, BeginAdopt, EndAdopt, AdoptFails, ReadFile,
                FinishRead, LegacyInv, LoadsAlone, Loading, Undisturbed
  <2>3. (\A r \in Requests : pc'[r] = "new" => order'[r] = 0)
        /\ (\A r \in Requests : pc'[r] \notin Mutating)
    BY <1>1, <2>1, <2>2
       DEF LoadStep, StartLoad, Wants, Access, BeginAdopt, EndAdopt, AdoptFails, ReadFile,
           FinishRead, LegacyInv, Loading, Mutating
  <2>4. CASE FinishRead(p)
    <3>1. warm' /\ memory' = EarlierStore /\ pc'[p] = "idle"
      BY <2>1, <2>4 DEF FinishRead, LegacyInv
    <3>2. Legacy(memory)' BY <3>1 DEF Legacy, EarlierStore
    <3>3. LoadsAlone' BY <2>2, <3>1 DEF LoadsAlone, Loading
    <3> QED BY <2>3, <3>1, <3>2, <3>3 DEF LegacyInv
  <2>5. CASE ~FinishRead(p)
    <3>1. ~warm' /\ pc'[p] \in Loading
      BY <1>1, <2>1, <2>5 DEF LoadStep, StartLoad, Access, BeginAdopt, EndAdopt, AdoptFails,
                              ReadFile, Loading
    <3>2. LoadsAlone' BY <2>2, <3>1 DEF LoadsAlone
    <3>3. /\ pc'[p] = "access" => disk' \in {Absent, Whole(EarlierStore)}
          /\ pc'[p] = "adopt" => disk' = Absent
          /\ pc'[p] = "open" => disk' = Whole(EarlierStore)
          /\ pc'[p] = "parsed" => got'[p] = EarlierStore
      <4>1. CASE StartLoad(p)
        <5>1. \A q \in Processes : pc[q] \notin Loading
          BY <4>1 DEF StartLoad, Undisturbed
        <5> QED BY <2>1, <4>1, <5>1 DEF StartLoad, LegacyInv
      <4>2. CASE Access(p)
        BY <2>1, <4>2 DEF Access, Unread, Undisturbed, LegacyInv, Absent, Whole
      <4>3. CASE BeginAdopt(p) BY <4>3 DEF BeginAdopt
      <4>4. CASE EndAdopt(p) BY <4>4 DEF EndAdopt, LegacyStore
      <4>5. CASE AdoptFails(p) BY <4>5 DEF AdoptFails, Undisturbed
      <4>6. CASE ReadFile(p)
        <5>1. disk = Whole(EarlierStore) BY <2>1, <4>6 DEF ReadFile, LegacyInv
        <5> QED BY <4>6, <5>1 DEF ReadFile, Undisturbed, Whole
      <4> QED BY <1>1, <2>5, <4>1, <4>2, <4>3, <4>4, <4>5, <4>6 DEF LoadStep
    <3>4. \A q \in Processes \ {p} : pc'[q] \notin Loading BY <2>2
    <3>5. \A q \in Processes :
            /\ pc'[q] = "access" => disk' \in {Absent, Whole(EarlierStore)}
            /\ pc'[q] = "adopt" => disk' = Absent
            /\ pc'[q] = "open" => disk' = Whole(EarlierStore)
            /\ pc'[q] = "parsed" => got'[q] = EarlierStore
      BY <3>3, <3>4 DEF Loading
    <3> QED BY <2>3, <3>1, <3>2, <3>5 DEF LegacyInv, Absent, Whole, EarlierStore
  <2>6. QED
    BY <2>4, <2>5
<1>2. ASSUME NEW r \in Requests, MutationStep(r) PROVE LegacyInv'
  <2>1. (\A q \in Processes \ {r} : pc'[q] = pc[q]) /\ pc'[r] \notin Loading \cup {"new"}
    BY <1>2 DEF MutationStep, MutateHit, MutateLoaded, TakeEffect, WriteTmp, Rename, BeginCopy,
                EndCopy, PersistFails, Acknowledge, Loading
  <2>2. CASE MutateHit(r) \/ MutateLoaded(r)
    <3>1. \E store \in Stores : Legacy(store) /\ TakeEffect(r, store)
      <4>1. CASE MutateHit(r) BY <4>1 DEF MutateHit, LegacyInv
      <4>2. CASE MutateLoaded(r)
        <5>1. pc[r] = "parsed" /\ ~warm BY <4>2 DEF MutateLoaded, LegacyInv, LoadsAlone, Loading
        <5>2. got[r] = EarlierStore /\ got[r] \in Stores BY <5>1 DEF LegacyInv
        <5>3. Legacy(got[r]) BY <5>2 DEF Legacy, EarlierStore
        <5> QED BY <4>2, <5>2, <5>3 DEF MutateLoaded
      <4> QED BY <2>2, <4>1, <4>2
    <3>2. Legacy(memory)' BY <3>1, LegacyTakesEffect
    <3>3. warm' /\ \A s \in Requests \ {r} : order'[s] = order[s]
      BY <3>1 DEF TakeEffect
    <3>4. \A q \in Processes : pc'[q] \notin Loading
      <4>1. CASE MutateHit(r) BY <2>1, <4>1 DEF MutateHit, LegacyInv, LoadsAlone
      <4>2. CASE MutateLoaded(r)
        BY <2>1, <4>2 DEF MutateLoaded, LegacyInv, LoadsAlone, Loading
      <4> QED BY <2>2, <4>1, <4>2
    <3> QED BY <2>1, <3>2, <3>3, <3>4 DEF LegacyInv, LoadsAlone
  <2>3. CASE ~(MutateHit(r) \/ MutateLoaded(r))
    <3>1. pc[r] \in Mutating /\ UNCHANGED <<warm, memory, asked, order>>
      BY <1>2, <2>3 DEF MutationStep, WriteTmp, Rename, BeginCopy, EndCopy, PersistFails,
                        Acknowledge, Mutating, history
    <3>2. warm /\ Legacy(memory) BY <3>1 DEF LegacyInv
    <3>3. Legacy(memory)' BY <3>1, <3>2, LegacyUnchanged
    <3>4. LoadsAlone' BY <2>1, <3>1 DEF LegacyInv, LoadsAlone
    <3> QED BY <2>1, <3>1, <3>2, <3>3, <3>4 DEF LegacyInv
  <2>4. QED
    BY <2>2, <2>3
<1>3. ASSUME NEW r \in Requests, NEW o \in Ops, Submit(r, o) PROVE LegacyInv'
  <2>1. /\ pc[r] = "new" /\ pc'[r] = "queued" /\ \A q \in Processes \ {r} : pc'[q] = pc[q]
        /\ \A s \in Requests \ {r} : asked'[s] = asked[s]
        /\ UNCHANGED <<disk, warm, memory, migrated, got, order>>
    BY <1>3 DEF Submit, history
  <2>2. Legacy(memory) => Legacy(memory)' BY <2>1, LegacyUnchanged
  <2>3. \A q \in Processes : pc'[q] = pc[q] \/ (pc[q] \notin Loading /\ pc'[q] \notin Loading)
    BY <2>1 DEF Loading
  <2>4. LoadsAlone' BY <2>1, <2>3 DEF LegacyInv, LoadsAlone
  <2>5. \A s \in Requests : pc'[s] = "new" => order'[s] = 0 BY <2>1 DEF LegacyInv
  <2>6. ~warm' => \A s \in Requests : pc'[s] \notin Mutating
    BY <2>1 DEF LegacyInv, Mutating
  <2>7. \A q \in Processes : pc'[q] \in Loading => pc'[q] = pc[q] BY <2>3
  <2>8. (\A q \in Processes : pc'[q] \notin Loading) => \A q \in Processes : pc[q] \notin Loading
    BY <2>3
  <2>9. ~warm' => \A q \in Processes :
            /\ pc'[q] = "access" => disk' \in {Absent, Whole(EarlierStore)}
            /\ pc'[q] = "adopt" => disk' = Absent
            /\ pc'[q] = "open" => disk' = Whole(EarlierStore)
            /\ pc'[q] = "parsed" => got'[q] = EarlierStore
    BY <2>1, <2>7 DEF LegacyInv, Loading, Absent, Whole, EarlierStore
  <2>10. ~warm' /\ (\A q \in Processes : pc'[q] \notin Loading)
           => ~migrated' /\ disk' \in {Absent, Whole(EarlierStore)}
    BY <2>1, <2>8 DEF LegacyInv, Absent, Whole, EarlierStore
  <2> QED BY <2>1, <2>2, <2>4, <2>5, <2>6, <2>9, <2>10
             DEF LegacyInv, Absent, Whole, EarlierStore
<1>4. CASE Crash
  BY <1>4 DEF Crash, Undisturbed
<1>5. CASE UNCHANGED vars
  <2>1. Legacy(memory) => Legacy(memory)' BY <1>5, LegacyUnchanged DEF vars, history
  <2> QED BY <1>5, <2>1 DEF vars, history, LegacyInv, LoadsAlone, Absent, Whole, EarlierStore
<1>6. QED
  BY <1>1, <1>2, <1>3, <1>4, <1>5 DEF Next

\* Edits recorded before the multi-project layout are kept by whatever a read returns
\* (edits.ts:106-108), field by field, until a request decides the field: for every number
\* of requests and readers, and whether renames are refused or not.
THEOREM LegacyIsKept ==
  ASSUME Undisturbed
  PROVE  Spec => []LegacyKept
<1>1. CASE Adopts /\ HasLegacy
  <2>1. Init => LegacyInv
    BY ProcessAssumption
       DEF Init, LegacyInv, LoadsAlone, Processes, Loading, Mutating
  <2>2. TypeOK /\ HeadRuns /\ LegacyInv /\ [Next]_vars => LegacyInv'
    BY <1>1, LegacyInvStep
  <2>3. LegacyInv => LegacyKept
    BY DEF LegacyInv, Legacy, Settled, LegacyKept
  <2>4. QED
    BY <2>1, <2>2, <2>3, TypeCorrect, PTL DEF Spec
<1>2. CASE ~(Adopts /\ HasLegacy)
  <2>1. LegacyKept
    BY <1>2 DEF LegacyKept
  <2>2. QED
    BY <2>1, PTL
<1>3. QED
  BY <1>1, <1>2

-----------------------------------------------------------------------------
(* The refinement of EditRegister *)


\* The abstract variables.
Visible == IF warm THEN memory ELSE disk.edits
Statuses == [r \in Requests |-> StatusOf(r)]

\* What the refinement needs beyond SafeInv: a file that is not whole reads as
\* an empty store, and an adoption under way has such a file before it.
AdoptInv ==
  /\ disk.state # "whole" => disk.edits = EmptyStore
  /\ \A p \in Processes : pc[p] = "adopt" => disk.state = "absent"
  /\ \A p \in Processes : pc[p] = "adopting" => disk.state = "torn"

LEMMA AdoptInvStep ==
  ASSUME SafeInv, Benign, AdoptInv, [Next]_vars
  PROVE  AdoptInv'
<1> USE ProcessAssumption DEF SafeInv, TypeOK, AdoptInv, Goto, Processes
<1>1. ASSUME NEW p \in Processes, LoadStep(p) PROVE AdoptInv'
  <2>1. CASE StartLoad(p) \/ Access(p) \/ AdoptFails(p) \/ ReadFile(p) \/ FinishRead(p)
    BY <2>1 DEF StartLoad, Access, Unread, Benign, AdoptFails, ReadFile, FinishRead
  <2>2. CASE BeginAdopt(p) \/ EndAdopt(p)
    <3>1. \A q \in Processes \ {p} : pc[q] \notin Loading /\ pc'[q] = pc[q]
      BY <2>2 DEF BeginAdopt, EndAdopt, LoadsAlone, Loading
    <3>2. pc'[p] # "adopt" /\ (pc'[p] = "adopting" => disk' = Torn)
      BY <2>2 DEF BeginAdopt, EndAdopt
    <3>3. \A q \in Processes \ {p} : pc'[q] # "adopt" /\ pc'[q] # "adopting"
      BY <3>1 DEF Loading
    <3>4. disk'.state # "whole" => disk'.edits = EmptyStore
      BY <2>2 DEF BeginAdopt, EndAdopt, Torn, Whole
    <3>5. QED
      BY <3>2, <3>3, <3>4 DEF Torn
  <2>3. QED
    BY <1>1, <2>1, <2>2 DEF LoadStep
<1>2. ASSUME NEW r \in Requests, MutationStep(r) PROVE AdoptInv'
  <2>1. CASE Rename(r)
    <3>1. \A q \in Processes : pc[q] \notin Loading
      BY <2>1 DEF Rename, MutationHolds, Mutating, LoadsAlone
    <3>2. QED
      BY <2>1, <3>1 DEF Rename, Whole, Loading
  <2>2. CASE BeginCopy(r) \/ EndCopy(r)
    BY <2>2 DEF BeginCopy, EndCopy, Benign, MutationHolds
  <2>3. CASE ~(Rename(r) \/ BeginCopy(r) \/ EndCopy(r))
    BY <1>2, <2>3 DEF MutationStep, MutateHit, MutateLoaded, TakeEffect, WriteTmp,
                      PersistFails, Acknowledge
  <2>4. QED
    BY <2>1, <2>2, <2>3
<1>3. ASSUME NEW r \in Requests, NEW o \in Ops, Submit(r, o) PROVE AdoptInv'
  BY <1>3 DEF Submit
<1>4. CASE Crash
  BY <1>4 DEF Crash, Loading
<1>5. CASE UNCHANGED vars
  BY <1>5 DEF vars
<1>6. QED
  BY <1>1, <1>2, <1>3, <1>4, <1>5 DEF Next

LEMMA AdoptInvHolds ==
  ASSUME Benign
  PROVE  Spec => []AdoptInv
<1>1. Init => AdoptInv
  <2> SUFFICES ASSUME Init PROVE AdoptInv
    OBVIOUS
  <2>1. \A p \in Processes : pc[p] \in {"idle", "new"}
    BY DEF Init
  <2>2. disk.state # "whole" => disk.edits = EmptyStore
    BY DEF Init, Absent, Whole
  <2>3. QED
    BY <2>1, <2>2 DEF AdoptInv
<1>2. SafeInv /\ AdoptInv /\ [Next]_vars => AdoptInv'
  BY AdoptInvStep
<1>3. QED
  BY <1>1, <1>2, SafeInvHolds, PTL DEF Spec

-----------------------------------------------------------------------------
\* EditRegister is instantiated with the very data of EditStore.
LEMMA SameData ==
  /\ Register!EmptyStore = EmptyStore
  /\ Register!EarlierStore = EarlierStore
  /\ Register!Ops = Ops
  /\ Register!NoOp = NoOp
  /\ \A store, r, o : Register!Applied(store, r, o) = Applied(store, r, o)
<1>1. Register!NoRecord = NoRecord
  BY DEF Register!NoRecord, NoRecord
<1>2. Register!EmptyStore = EmptyStore /\ Register!EarlierStore = EarlierStore
  BY <1>1 DEF Register!EmptyStore, EmptyStore, Register!EarlierStore, EarlierStore
<1>3. Register!Ops = Ops /\ Register!NoOp = NoOp
  BY DEF Register!Ops, Ops, Register!NoOp, NoOp
<1>4. \A rec, r, fields : Register!Merged(rec, r, fields) = Merged(rec, r, fields)
  BY DEF Register!Merged, Merged
<1>5. \A store, r, o : Register!Applied(store, r, o) = Applied(store, r, o)
  BY <1>1, <1>4 DEF Register!Applied, Applied
<1>6. QED
  BY <1>2, <1>3, <1>5

\* A request that is not being saved has neither of the statuses of one that is.
LEMMA QuietStatus ==
  ASSUME SafeInv, \A r \in Requests : pc[r] \notin Mutating
  PROVE  \A r \in Requests : Statuses[r] \notin {"taken", "stored"}
<1>1. \A r \in Requests : pc[r] \in Phases \ Mutating
  BY DEF SafeInv, TypeOK, Processes
<1>2. \A r \in Requests : StatusOf(r) \notin {"taken", "stored"}
  BY <1>1 DEF StatusOf, Phases, Loading, Mutating
<1>3. QED
  BY <1>2 DEF Statuses

\* While a store is being loaded nothing is being saved.
LEMMA ColdIsQuiet ==
  ASSUME SafeInv, ~warm
  PROVE  \A r \in Requests : Statuses[r] \notin {"taken", "stored"}
<1>1. \A r \in Requests : pc[r] \notin Mutating
  BY DEF SafeInv, MutationHolds
<1>2. QED
  BY <1>1, QuietStatus

\* A step that moves one process moves at most its status.
LEMMA OneStatus ==
  ASSUME SafeInv, NEW p \in Processes, \A q \in Processes \ {p} : pc'[q] = pc[q]
  PROVE  /\ \A r \in Requests \ {p} : Statuses'[r] = Statuses[r]
         /\ p \in Requests => Statuses' = [Statuses EXCEPT ![p] = Statuses'[p]]
         /\ p \in Readers => Statuses' = Statuses
<1>1. \A r \in Requests \ {p} : StatusOf(r)' = StatusOf(r)
  BY DEF StatusOf, Processes
<1>2. p \in Readers => p \notin Requests
  BY ProcessAssumption
<1>3. QED
  BY <1>1, <1>2 DEF Statuses

LEMMA LoadMaps ==
  ASSUME SafeInv, AdoptInv, NEW p \in Processes, LoadStep(p)
  PROVE  [Register!Next]_(Register!vars)
<1> USE DEF SafeInv, TypeOK, Goto, history
<1>1. /\ \A q \in Processes \ {p} : pc'[q] = pc[q]
      /\ rev' = rev /\ asked' = asked
  BY DEF LoadStep, StartLoad, Access, BeginAdopt, EndAdopt, AdoptFails, ReadFile,
         FinishRead
<1>2. p \in Requests => StatusOf(p) = "waiting" /\ StatusOf(p)' = "waiting"
  BY ProcessAssumption
     DEF LoadStep, StartLoad, Wants, Access, BeginAdopt, EndAdopt, AdoptFails, ReadFile,
         FinishRead, StatusOf, Loading, Processes
<1>3. Statuses' = Statuses
  BY <1>1, <1>2, OneStatus DEF Statuses, Processes
<1>4. CASE EndAdopt(p)
  <2>1. ~warm /\ ~warm' /\ disk.edits = EmptyStore /\ disk'.edits = EarlierStore
    BY <1>4 DEF EndAdopt, AdoptInv, LoadsAlone, Loading, Whole, LegacyStore
  <2>2. Register!Import
    BY <1>1, <1>3, <2>1, ColdIsQuiet, SameData DEF Register!Import, Register!Busy, Statuses
  <2>3. QED
    BY <2>2 DEF Register!Next
<1>5. CASE ~EndAdopt(p)
  <2>1. disk'.edits = disk.edits
    BY <1>5 DEF LoadStep, StartLoad, Access, BeginAdopt, AdoptFails, ReadFile, FinishRead,
                AdoptInv, Torn
  <2>2. Visible' = Visible
    <3>1. CASE FinishRead(p)
      BY <2>1, <3>1 DEF FinishRead, LoadFresh, LoadsAlone, Loading, Visible
    <3>2. CASE ~FinishRead(p)
      BY <1>5, <2>1, <3>2 DEF LoadStep, StartLoad, Access, BeginAdopt, AdoptFails, ReadFile,
                              Visible
    <3>3. QED
      BY <3>1, <3>2
  <2>3. QED
    BY <1>1, <1>3, <2>1, <2>2 DEF Register!vars, Visible, Statuses
<1>6. QED
  BY <1>4, <1>5

\* The mutation at the head of the queue is the only one that is being saved.
LEMMA HeadAlone ==
  ASSUME SafeInv, NEW r \in Requests, AtHead(r), pc[r] \notin Mutating
  PROVE  \A s \in Requests : Statuses[s] \notin {"taken", "stored"}
<1>1. \A s \in Requests : pc[s] \notin Mutating
  BY DEF SafeInv, HeadRuns, AtHead
<1>2. QED
  BY <1>1, QuietStatus

LEMMA TakeEffectMaps ==
  ASSUME SafeInv, NEW r \in Requests, TakeEffect(r, Visible), AtHead(r),
         Statuses[r] = "waiting", pc[r] \notin Mutating
  PROVE  Register!TakeEffect(r)
<1>1. /\ Visible' = Applied(Visible, r, asked[r])
      /\ UNCHANGED <<disk, rev, asked>>
  BY DEF TakeEffect, Visible
<1>2. (\A q \in Processes \ {r} : pc'[q] = pc[q]) /\ r \in Processes /\ pc'[r] = "write"
  BY DEF SafeInv, TypeOK, TakeEffect, Goto, Processes
<1>3. Statuses'[r] = "taken"
  BY <1>2 DEF Statuses, StatusOf, Loading
<1>4. Statuses' = [Statuses EXCEPT ![r] = "taken"]
  BY <1>2, <1>3, OneStatus
<1>5. \A s \in Requests : Statuses[s] \notin {"taken", "stored"}
  BY HeadAlone
<1>6. QED
  BY <1>1, <1>4, <1>5, SameData DEF Register!TakeEffect, Register!Busy, Visible, Statuses

LEMMA MutationMaps ==
  ASSUME SafeInv, Benign, NEW r \in Requests, MutationStep(r)
  PROVE  [Register!Next]_(Register!vars)
<1> USE DEF SafeInv, TypeOK, Goto, history
<1>0. r \in Processes /\ \A q \in Processes \ {r} : pc'[q] = pc[q]
  BY DEF MutationStep, MutateHit, MutateLoaded, TakeEffect, WriteTmp, Rename, BeginCopy,
         EndCopy, PersistFails, Acknowledge, Processes
<1>1. CASE MutateHit(r)
  <2>1. Wants(r) /\ pc[r] = "queued" /\ AtHead(r) /\ Visible = memory
    BY <1>1, ProcessAssumption DEF MutateHit, Wants, Visible
  <2>2. Statuses[r] = "waiting" /\ pc[r] \notin Mutating
    BY <2>1 DEF Statuses, StatusOf, Mutating
  <2>3. Register!TakeEffect(r)
    BY <1>1, <2>1, <2>2, TakeEffectMaps DEF MutateHit
  <2>4. QED
    BY <2>3 DEF Register!Next
<1>2. CASE MutateLoaded(r)
  <2>1. pc[r] = "parsed" /\ AtHead(r) /\ Visible = got[r]
    BY <1>0, <1>2 DEF MutateLoaded, Visible, LoadsAlone, LoadFresh, HeadRuns, Loading
  <2>2. Statuses[r] = "waiting" /\ pc[r] \notin Mutating
    BY <2>1 DEF Statuses, StatusOf, Mutating, Loading
  <2>3. Register!TakeEffect(r)
    BY <1>2, <2>1, <2>2, TakeEffectMaps DEF MutateLoaded
  <2>4. QED
    BY <2>3 DEF Register!Next
<1>3. CASE WriteTmp(r)
  <2>1. pc[r] = "write" /\ pc'[r] = "rename" /\ UNCHANGED <<disk, warm, memory, rev, asked>>
    BY <1>0, <1>3 DEF WriteTmp
  <2>2. Statuses[r] = "taken" /\ Statuses'[r] = "taken"
    BY <2>1 DEF Statuses, StatusOf, Loading
  <2>3. \A s \in Requests : Statuses'[s] = Statuses[s]
    BY <1>0, <2>2, OneStatus
  <2>4. Statuses' = Statuses
    BY <2>3 DEF Statuses
  <2>5. QED
    BY <2>1, <2>4 DEF Register!vars, Statuses
<1>4. CASE Rename(r)
  <2>1. /\ pc[r] = "rename" /\ pc'[r] = "saved"
        /\ warm /\ held = memory /\ disk'.edits = memory
        /\ UNCHANGED <<warm, memory, rev, asked>>
    BY <1>0, <1>4 DEF Rename, MutationHolds, Mutating, Whole
  <2>2. Statuses[r] = "taken" /\ Statuses'[r] = "stored"
    BY <2>1 DEF Statuses, StatusOf, Loading
  <2>3. Statuses' = [Statuses EXCEPT ![r] = "stored"]
    BY <1>0, <2>2, OneStatus
  <2>4. Register!Store(r)
    BY <2>1, <2>2, <2>3 DEF Register!Store, Statuses
  <2>5. QED
    BY <2>4 DEF Register!Next
<1>5. CASE BeginCopy(r) \/ EndCopy(r)
  BY <1>5 DEF BeginCopy, EndCopy, Benign, MutationHolds
<1>6. CASE PersistFails(r)
  <2>1. /\ pc[r] = "write" /\ pc'[r] = "failed"
        /\ UNCHANGED <<disk, warm, memory, rev, asked>>
    BY <1>0, <1>6 DEF PersistFails, MutationHolds
  <2>2. Statuses[r] = "taken" /\ Statuses'[r] = "failed"
    BY <2>1 DEF Statuses, StatusOf, Loading
  <2>3. Statuses' = [Statuses EXCEPT ![r] = "failed"]
    BY <1>0, <2>2, OneStatus
  <2>4. Register!Reject(r)
    BY <2>1, <2>2, <2>3 DEF Register!Reject, Statuses
  <2>5. QED
    BY <2>4 DEF Register!Next
<1>7. CASE Acknowledge(r)
  <2>1. /\ pc[r] = "saved" /\ pc'[r] = "ok" /\ rev' = rev + 1
        /\ UNCHANGED <<disk, warm, memory, asked>>
    BY <1>0, <1>7 DEF Acknowledge
  <2>2. Statuses[r] = "stored" /\ Statuses'[r] = "ok"
    BY <2>1 DEF Statuses, StatusOf, Loading
  <2>3. Statuses' = [Statuses EXCEPT ![r] = "ok"]
    BY <1>0, <2>2, OneStatus
  <2>4. Register!Acknowledge(r)
    BY <2>1, <2>2, <2>3 DEF Register!Acknowledge, Statuses
  <2>5. QED
    BY <2>4 DEF Register!Next
<1>8. QED
  BY <1>1, <1>2, <1>3, <1>4, <1>5, <1>6, <1>7 DEF MutationStep

LEMMA CrashMaps ==
  ASSUME SafeInv, Crash
  PROVE  Register!Restart
<1>1. ASSUME NEW r \in Requests
      PROVE  Statuses'[r] = IF Statuses[r] \in {"waiting", "taken", "stored"}
                            THEN "lost" ELSE Statuses[r]
  <2>1. pc[r] \in Phases /\ pc[r] # "copy" /\ r \in Processes /\ r \notin Readers
    BY ProcessAssumption DEF SafeInv, TypeOK, MutationHolds, Processes
  <2>2. pc'[r] = IF pc[r] \in Loading \cup Mutating \cup {"queued"} THEN "lost" ELSE pc[r]
    BY <2>1 DEF Crash
  <2>3. QED
    BY <2>1, <2>2 DEF Statuses, StatusOf, Phases, Loading, Mutating
<1>2. Statuses' = [r \in Requests |-> IF Statuses[r] \in {"waiting", "taken", "stored"}
                                      THEN "lost" ELSE Statuses[r]]
  BY <1>1 DEF Statuses
<1>3. ~warm' /\ rev' = 0 /\ UNCHANGED <<disk, asked>>
  BY DEF Crash
<1>4. QED
  BY <1>2, <1>3 DEF Register!Restart, Statuses

\* Every step of the mechanism is a step of the promise, or none.
LEMMA StepMaps ==
  ASSUME SafeInv, AdoptInv, Benign, [Next]_vars
  PROVE  [Register!Next]_(Register!vars)
<1>1. ASSUME NEW p \in Processes, LoadStep(p) PROVE [Register!Next]_(Register!vars)
  BY <1>1, LoadMaps
<1>2. ASSUME NEW r \in Requests, MutationStep(r) PROVE [Register!Next]_(Register!vars)
  BY <1>2, MutationMaps
<1>3. ASSUME NEW r \in Requests, NEW o \in Ops, Submit(r, o)
      PROVE  [Register!Next]_(Register!vars)
  <2>1. r \in Processes /\ \A q \in Processes \ {r} : pc'[q] = pc[q]
    BY <1>3 DEF Submit, SafeInv, TypeOK, Goto, Processes
  <2>2. pc[r] = "new" /\ pc'[r] = "queued" /\ UNCHANGED <<disk, warm, memory, rev>>
    BY <1>3, <2>1 DEF Submit, SafeInv, TypeOK, Goto
  <2>3. Statuses[r] = "new" /\ Statuses'[r] = "waiting"
    BY <2>2 DEF Statuses, StatusOf, Loading
  <2>4. Statuses' = [Statuses EXCEPT ![r] = "waiting"]
    BY <2>1, <2>3, OneStatus
  <2>5. Register!Submit(r, o)
    BY <1>3, <2>2, <2>3, <2>4 DEF Submit, Register!Submit, Statuses
  <2>6. QED
    BY <2>5, SameData DEF Register!Next
<1>4. CASE Crash
  BY <1>4, CrashMaps DEF Register!Next
<1>5. CASE UNCHANGED vars
  <2>1. Statuses' = Statuses
    BY <1>5 DEF vars, Statuses, StatusOf
  <2>2. QED
    BY <1>5, <2>1 DEF vars, Register!vars, Statuses
<1>6. QED
  BY <1>1, <1>2, <1>3, <1>4, <1>5 DEF Next

LEMMA InitMaps ==
  ASSUME Init
  PROVE  Register!Init
<1>1. Statuses = [r \in Requests |-> "new"]
  BY ProcessAssumption DEF Init, Statuses, StatusOf, Loading, Processes
<1>2. disk.edits \in {EmptyStore, EarlierStore} /\ ~warm /\ rev = 0
  BY DEF Init, Absent, Whole
<1>3. asked = [r \in Requests |-> Register!NoOp]
  BY SameData DEF Init
<1>4. QED
  BY <1>1, <1>2, <1>3, SameData DEF Register!Init, Statuses

\* The store of edits.ts, with its cold loads, temporary files, adoption, failing
\* writes and crashes, is a register in which mutations take effect one at a time,
\* what was acknowledged is stored, and a restart falls back to what is stored.
THEOREM StoreImplementsRegister ==
  ASSUME Benign
  PROVE  Spec => ImplementsRegister
<1>1. Init => Register!Init
  BY InitMaps
<1>2. SafeInv /\ AdoptInv /\ [Next]_vars => [Register!Next]_(Register!vars)
  BY StepMaps
<1>3. QED
  BY <1>1, <1>2, SafeInvHolds, AdoptInvHolds, PTL
     DEF Spec, ImplementsRegister, Register!Spec
=============================================================================
