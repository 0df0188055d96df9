----------------------------- MODULE EditStore ------------------------------
(***************************************************************************)
(* The manual-edit store of one project: src/lib/data/edits.ts.            *)
(*                                                                         *)
(* One Node process.  A step is one stretch of JavaScript between two      *)
(* awaits, or one effect of a file operation on the disk.  Everything in   *)
(* memory is lost in a crash; the disk is kept, a half-written target      *)
(* included.  A file that is half written does not parse, and a file that  *)
(* cannot be read is taken for an absent one: a load makes an empty store  *)
(* of either.                                                              *)
(*                                                                         *)
(* A process p is a reader (editsFor, allEdits) or a mutation request      *)
(* (applyEdit, clearEdit).  Both begin with loadEdits, which on a cold     *)
(* cache goes access -> adopt -> adopting -> open -> parsed; a mutation    *)
(* then goes write -> rename (-> copy) -> saved -> ok.                     *)
(***************************************************************************)
EXTENDS EditData, Sequences

CONSTANTS Readers,      \* concurrent reads of this project's edits
          Adopts,       \* this is DEFAULT_SLUG and ULPIN_EDITS_PATH is unset
          HasLegacy,    \* data/edits.json exists
          RenameFails,  \* the platform may refuse a rename over an open file
          InPlaceFails, \* a write to the target itself may fail, even half way
          ReadFails,    \* access and readFile may fail on a file that is there
          ColdOverlap,  \* requests may arrive while another's cold load runs
          MaxCrashes    \* bound on crashes of the process

ASSUME FlagAssumption ==
  /\ Adopts \in BOOLEAN
  /\ HasLegacy \in BOOLEAN
  /\ RenameFails \in BOOLEAN
  /\ InPlaceFails \in BOOLEAN
  /\ ReadFails \in BOOLEAN
  /\ ColdOverlap \in BOOLEAN
  /\ MaxCrashes \in Nat

ASSUME ProcessAssumption == Readers \cap Requests = {}

VARIABLES disk,      \* edits.json of the project
          warm,      \* the module's cache holds a store
          memory,    \* that store (meaningful while warm)
          rev,       \* revs.get(slug)
          migrated,  \* migrationDone
          pc,        \* where each process is
          got,       \* what each load read from the file
          asked,     \* the operation each request carries
          queue,     \* queues.get(slug): requests in order, the head running
          held,      \* the store object the running mutation will write
          crashes,   \* history: crashes so far
          misread,   \* history: a whole file was taken for an absent one
          order,     \* history: when each request took effect, 0 = not yet
          clock      \* history: how many requests took effect

vars == <<disk, warm, memory, rev, migrated, pc, got, asked, queue, held,
          crashes, misread, order, clock>>

history == <<crashes, misread, order, clock>>

Processes == Readers \cup Requests

Loading == {"access", "adopt", "adopting", "open", "parsed"}

Mutating == {"write", "rename", "copy", "saved"}

Phases == Loading \cup Mutating
            \cup {"idle", "new", "queued", "ok", "failed", "lost"}

\* `edits` is what a load of the file would return.
Files == [state : {"absent", "torn", "whole"}, edits : Stores]

Absent == [state |-> "absent", edits |-> EmptyStore]
Torn == [state |-> "torn", edits |-> EmptyStore]
Whole(store) == [state |-> "whole", edits |-> store]

\* The content of data/edits.json.
LegacyStore == EarlierStore

TypeOK ==
  /\ disk \in Files
  /\ warm \in BOOLEAN
  /\ memory \in Stores
  /\ rev \in Nat
  /\ migrated \in BOOLEAN
  /\ pc \in [Processes -> Phases]
  /\ got \in [Processes -> Stores]
  /\ asked \in [Requests -> Ops]
  /\ queue \in Seq(Requests)
  /\ held \in Stores
  /\ crashes \in Nat
  /\ misread \in BOOLEAN
  /\ order \in [Requests -> Nat]
  /\ clock \in Nat

NoOp == [kind |-> "apply", building |-> CHOOSE b \in Buildings : TRUE, fields |-> {}]

Init ==
  /\ disk \in {Absent, Whole(EarlierStore)}
  /\ warm = FALSE
  /\ memory = EmptyStore
  /\ rev = 0
  /\ migrated = FALSE
  /\ pc = [p \in Processes |-> IF p \in Readers THEN "idle" ELSE "new"]
  /\ got = [p \in Processes |-> EmptyStore]
  /\ asked = [r \in Requests |-> NoOp]
  /\ queue = <<>>
  /\ held = EmptyStore
  /\ crashes = 0
  /\ misread = FALSE
  /\ order = [r \in Requests |-> 0]
  /\ clock = 0

Goto(p, phase) == pc' = [pc EXCEPT ![p] = phase]

\* A local variable that goes out of scope.
Release(p) == got' = [got EXCEPT ![p] = EmptyStore]

AtHead(r) == queue # <<>> /\ Head(queue) = r

-----------------------------------------------------------------------------
(* loadEdits and adoptLegacyStore *)

\* Mutant of Wants: a mutation does not wait for the one before it.
WantsUnqueued(p) == \/ p \in Readers /\ pc[p] = "idle"
                    \/ p \in Requests /\ pc[p] = "queued"

\* p has asked for the store and holds nothing yet.
Wants(p) == \/ p \in Readers /\ pc[p] = "idle"
            \/ p \in Requests /\ pc[p] = "queued" /\ AtHead(p)

\* A cache miss.  migrationDone is read and set before the first await, so of
\* two overlapping loads only the first adopts; the second goes on to the file.
StartLoad(p) ==
  /\ Wants(p)
  /\ ~warm
  /\ ColdOverlap \/ \A q \in Processes : pc[q] \notin Loading
  /\ IF Adopts /\ ~migrated
       THEN migrated' = TRUE /\ Goto(p, "access")
       ELSE Goto(p, "open") /\ UNCHANGED migrated
  /\ UNCHANGED <<disk, warm, memory, rev, got, asked, queue, held, history>>

\* Mutant of Access: the catch block returns instead of falling through.
AccessReturns(p) ==
  /\ pc[p] = "access"
  /\ Goto(p, "open")
  /\ UNCHANGED <<disk, warm, memory, rev, migrated, got, asked, queue, held, history>>

\* access or readFile throws: the file is absent, or it is there and taken for absent.
Unread(absent) ==
  /\ absent \/ ReadFails
  /\ misread' = (misread \/ ~absent)

\* fs.access(target), then fs.readFile(legacy): either may end the adoption.
Access(p) ==
  /\ pc[p] = "access"
  /\ \/ disk.state # "absent" /\ Goto(p, "open") /\ UNCHANGED misread
     \/ HasLegacy /\ Unread(disk.state = "absent") /\ Goto(p, "adopt")
     \/ disk.state = "absent" /\ Unread(~HasLegacy) /\ Goto(p, "open")
  /\ UNCHANGED <<disk, warm, memory, rev, migrated, got, asked, queue, held, crashes,
                 order, clock>>

\* fs.writeFile(target, raw) truncates the target first ...
BeginAdopt(p) ==
  /\ pc[p] = "adopt"
  /\ disk' = Torn
  /\ Goto(p, "adopting")
  /\ UNCHANGED <<warm, memory, rev, migrated, got, asked, queue, held, history>>

\* ... and has written all of it some time later.
EndAdopt(p) ==
  /\ pc[p] = "adopting"
  /\ disk' = Whole(LegacyStore)
  /\ Goto(p, "open")
  /\ UNCHANGED <<warm, memory, rev, migrated, got, asked, queue, held, history>>

\* A failing mkdir or writeFile is swallowed; the target stays as it is.
AdoptFails(p) ==
  /\ InPlaceFails
  /\ pc[p] \in {"adopt", "adopting"}
  /\ Goto(p, "open")
  /\ UNCHANGED <<disk, warm, memory, rev, migrated, got, asked, queue, held, history>>

ReadFile(p) ==
  /\ pc[p] = "open"
  /\ \/ got' = [got EXCEPT ![p] = disk.edits] /\ UNCHANGED misread
     \/ ReadFails /\ Unread(disk.state # "whole") /\ Release(p)
  /\ Goto(p, "parsed")
  /\ UNCHANGED <<disk, warm, memory, rev, migrated, asked, queue, held, crashes, order,
                 clock>>

\* cache.set(slug, store) is unconditional: it replaces whatever another load,
\* or a mutation since, has put there.
FinishRead(p) ==
  /\ p \in Readers
  /\ pc[p] = "parsed"
  /\ warm' = TRUE
  /\ memory' = got[p]
  /\ Goto(p, "idle")
  /\ Release(p)
  /\ UNCHANGED <<disk, rev, migrated, asked, queue, held, history>>

-----------------------------------------------------------------------------
(* applyEdit and clearEdit *)

Submit(r, o) ==
  /\ pc[r] = "new"
  /\ asked' = [asked EXCEPT ![r] = o]
  /\ queue' = Append(queue, r)
  /\ Goto(r, "queued")
  /\ UNCHANGED <<disk, warm, memory, rev, migrated, got, held, history>>

TakeEffect(r, store) ==
  /\ memory' = Applied(store, r, asked[r])
  /\ held' = memory'
  /\ warm' = TRUE
  /\ clock' = clock + 1
  /\ order' = [order EXCEPT ![r] = clock + 1]
  /\ Goto(r, "write")
  /\ Release(r)
  /\ UNCHANGED <<disk, rev, migrated, asked, queue, crashes, misread>>

MutateHit(r) ==
  /\ Wants(r)
  /\ warm
  /\ TakeEffect(r, memory)

\* The end of a mutation's own load: cache.set, then the mutation.
MutateLoaded(r) ==
  /\ pc[r] = "parsed"
  /\ TakeEffect(r, got[r])

\* Mutant of WriteTmp: the target is written in place, with no temporary file.
WriteTarget(r) ==
  /\ pc[r] = "write"
  /\ disk' = Torn
  /\ Goto(r, "rename")
  /\ UNCHANGED <<warm, memory, rev, migrated, got, asked, queue, held, history>>

\* mkdir and writeFile of the temporary file.
WriteTmp(r) ==
  /\ pc[r] = "write"
  /\ Goto(r, "rename")
  /\ UNCHANGED <<disk, warm, memory, rev, migrated, got, asked, queue, held, history>>

Rename(r) ==
  /\ pc[r] = "rename"
  /\ disk' = Whole(held)
  /\ Goto(r, "saved")
  /\ UNCHANGED <<warm, memory, rev, migrated, got, asked, queue, held, history>>

\* The rename throws; copyFile writes the target in place.
BeginCopy(r) ==
  /\ RenameFails
  /\ pc[r] = "rename"
  /\ disk' = Torn
  /\ Goto(r, "copy")
  /\ UNCHANGED <<warm, memory, rev, migrated, got, asked, queue, held, history>>

EndCopy(r) ==
  /\ pc[r] = "copy"
  /\ disk' = Whole(held)
  /\ Goto(r, "saved")
  /\ UNCHANGED <<warm, memory, rev, migrated, got, asked, queue, held, history>>

\* Mutant of PersistFails: the rejected promise stays at the head of the queue.
PersistWedges(r) ==
  /\ pc[r] = "write" \/ (pc[r] = "copy" /\ InPlaceFails)
  /\ held' = EmptyStore
  /\ Goto(r, "failed")
  /\ UNCHANGED <<disk, warm, memory, rev, migrated, got, asked, queue, history>>

\* persist throws: the promise rejects, the queue goes on, the object that was
\* changed in place stays changed and the revision stays where it was.
PersistFails(r) ==
  /\ pc[r] = "write" \/ (pc[r] = "copy" /\ InPlaceFails)
  /\ queue' = Tail(queue)
  /\ held' = EmptyStore
  /\ Goto(r, "failed")
  /\ UNCHANGED <<disk, warm, memory, rev, migrated, got, asked, history>>

Acknowledge(r) ==
  /\ pc[r] = "saved"
  /\ rev' = rev + 1
  /\ queue' = Tail(queue)
  /\ held' = EmptyStore
  /\ Goto(r, "ok")
  /\ UNCHANGED <<disk, warm, memory, migrated, got, asked, history>>

-----------------------------------------------------------------------------
\* The process ends at any point and a new one starts on the same disk.
Crash ==
  /\ crashes < MaxCrashes
  /\ crashes' = crashes + 1
  /\ warm' = FALSE
  /\ memory' = EmptyStore
  /\ rev' = 0
  /\ migrated' = FALSE
  /\ pc' = [p \in Processes |->
              IF p \in Readers THEN "idle"
              ELSE IF pc[p] \in Loading \cup Mutating \cup {"queued"} THEN "lost"
              ELSE pc[p]]
  /\ queue' = <<>>
  /\ got' = [p \in Processes |-> EmptyStore]
  /\ held' = EmptyStore
  /\ UNCHANGED <<disk, asked, misread, order, clock>>

LoadStep(p) ==
  \/ StartLoad(p)
  \/ Access(p)
  \/ BeginAdopt(p)
  \/ EndAdopt(p)
  \/ AdoptFails(p)
  \/ ReadFile(p)
  \/ FinishRead(p)

MutationStep(r) ==
  \/ MutateHit(r)
  \/ MutateLoaded(r)
  \/ WriteTmp(r)
  \/ Rename(r)
  \/ BeginCopy(r)
  \/ EndCopy(r)
  \/ PersistFails(r)
  \/ Acknowledge(r)

Next ==
  \/ \E p \in Processes : LoadStep(p)
  \/ \E r \in Requests : MutationStep(r)
  \/ \E r \in Requests, o \in Ops : Submit(r, o)
  \/ Crash

Spec == Init /\ [][Next]_vars

\* The event loop runs every continuation and every file operation ends; that
\* a reader or a request arrives is nobody's duty, nor is a crash.
Fairness ==
  \A r \in Requests : WF_vars(LoadStep(r)) /\ WF_vars(MutationStep(r))

FairReaders == \A p \in Readers : WF_vars(pc[p] # "idle" /\ LoadStep(p))

FairSpec == Spec /\ Fairness /\ FairReaders

-----------------------------------------------------------------------------
(* What must hold *)

\* Requests that took effect and whose effect is not merely a rejected one.
TookEffect == {r \in Requests : pc[r] \in Mutating \cup {"ok"}}

Stored == {r \in Requests : pc[r] \in {"saved", "ok"}}

\* Field f of r's building is decided in `store` by r, or by a request that
\* took effect after r.
Decided(store, r, f) ==
  \E s \in Requests :
    /\ order[s] >= order[r]
    /\ asked[s].building = asked[r].building
    /\ f \in Touched(asked[s])
    /\ store[asked[r].building].fields[f] = Written(s, asked[s])

Survives(store, r) == \A f \in Touched(asked[r]) : Decided(store, r, f)

\* No lost update (edits.ts:94-97): what a read returns has, field by field,
\* every edit that is being saved or was acknowledged, unless a later one
\* decided the same field.
ReadsKeepEveryEdit == warm => \A r \in TookEffect : Survives(memory, r)

\* A save that was acknowledged is on the disk, and a crash at any point leaves
\* it there (edits.ts:202-203: a crash cannot leave a truncated store behind).
AckedEditsDurable == \A r \in Stored : Survives(disk.edits, r)

\* The revision moves only when the edits a reader sees are the edits on disk
\* (edits.ts:228-229: the revision is raised after persist).
RevNamesStoredEdits == [][rev' > rev => disk.edits = memory /\ memory' = memory]_vars

\* Edits recorded before the multi-project layout are kept (edits.ts:106-108)
\* by whatever a read returns, field by field, until a request decides the field; as long
\* as no file that is there was taken for an absent one (edits.ts:157-161).
LegacyKept ==
  (Adopts /\ HasLegacy /\ warm /\ ~misread) =>
    \A b \in Buildings, f \in Fields :
      \/ memory[b].fields[f] = Imported
      \/ \E r \in Requests : /\ order[r] > 0
                              /\ asked[r].building = b
                              /\ f \in Touched(asked[r])

\* One failing write never wedges the saves behind it (edits.ts:232-233): every
\* submitted mutation is answered, or lost to a crash.
EveryMutationAnswered ==
  \A r \in Requests : pc[r] = "queued" ~> pc[r] \in {"ok", "failed", "lost"}

\* The store implements its promise.  A request that is still loading waits; the
\* edits are visible in memory or, before the first load, on the disk.
StatusOf(r) ==
  CASE pc[r] \in Loading \cup {"queued"} -> "waiting"
    [] pc[r] \in {"write", "rename"} -> "taken"
    [] pc[r] = "saved" -> "stored"
    [] OTHER -> pc[r]

Register ==
  INSTANCE EditRegister WITH
    visible <- IF warm THEN memory ELSE disk.edits,
    stored  <- disk.edits,
    status  <- [r \in Requests |-> StatusOf(r)]

ImplementsRegister == Register!Spec
=============================================================================
