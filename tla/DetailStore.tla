---------------------------- MODULE DetailStore ----------------------------
(***************************************************************************)
(* The building documents of the viewer: useEnsureDetail and its cache     *)
(* (lib/store.ts), the components that call it, and the saves of           *)
(* BuildingEditForm.                                                       *)
(*                                                                         *)
(* A step is one event: a click, an answer, a mount.  What React does      *)
(* because of it is part of the step: the effects whose dependencies have  *)
(* changed are cleaned up, all of them before the first runs again, and    *)
(* then run in the order of the tree.  So is the rejection of an aborted   *)
(* fetch, which is a microtask and precedes the next event.  The stores    *)
(* are modules of the page and outlive the viewer of one project.          *)
(***************************************************************************)
EXTENDS Integers, Sequences, FiniteSets

CONSTANTS Projects,
          Buildings,  \* ids, which restart in every project
          Limit,      \* DETAIL_CACHE_LIMIT
          None,
          MaxSaves    \* bound on the saves

VARIABLES view,     \* the view store and what is mounted
          deps,     \* the dependencies each caller's effect last ran with
          detail,   \* detail
          order,    \* detailOrder
          pending,  \* pendingDetail
          fetches,  \* fetches in the air
          editing,  \* editingId
          saving,   \* the save in the air
          server,   \* the revision of each project: the saves the server has taken
          acked,    \* history: the newest save of a building answered to the form
          failed,   \* history: wanted buildings whose last fetch failed
          dropped,  \* history: those whose last fetch was aborted while still wanted
          overtaken \* history: buildings with a fetch in the air when a save was answered

vars == <<view, deps, detail, order, pending, fetches, editing, saving, server,
          acked, failed, dropped, overtaken>>

session == <<editing, saving, server, acked>>

\* The callers in the order of the tree: the first two are layers of the scene.
\* "stack" is FloorStackLayer, UnitsLayer and ElevationRuler.
Callers == <<"model", "stack", "ladder", "panel">>

CallerSet == {Callers[i] : i \in DOMAIN Callers}

Layers == {"model", "stack"}

\* No effect has run.
Unmounted == [id |-> None, project |-> None, cached |-> FALSE]

Choices == Buildings \cup {None}

\* Modes "floor" and "unit" are one here.
Modes == {"city", "building", "floor"}

Views == [project : Projects \cup {None}, ready : BOOLEAN, active : Choices, mode : Modes,
          gis2d : BOOLEAN, preMode : Modes, preActive : Choices]

Fetches == [by : CallerSet, id : Buildings, of : Projects, rev : -1..MaxSaves,
            held : BOOLEAN]

Docs == [of : Projects, rev : 0..MaxSaves]

ClientTypeOK ==
  /\ view \in Views
  /\ deps \in [CallerSet -> [id : Choices, project : Projects \cup {None}, cached : BOOLEAN]]
  /\ detail \in [Buildings -> Docs \cup {None}]
  /\ \A i \in DOMAIN order : order[i] \in Buildings
  /\ pending \subseteq Buildings
  /\ fetches \subseteq Fetches
  /\ editing \in Choices
  /\ saving = None \/ saving \in [id : Buildings, of : Projects, rev : 1..MaxSaves]
  /\ server \in [Projects -> 0..MaxSaves]

Init ==
  /\ view = [project |-> None, ready |-> FALSE, active |-> None, mode |-> "city",
             gis2d |-> FALSE, preMode |-> "city", preActive |-> None]
  /\ deps = [c \in CallerSet |-> Unmounted]
  /\ detail = [b \in Buildings |-> None]
  /\ order = <<>>
  /\ pending = {}
  /\ fetches = {}
  /\ editing = None
  /\ saving = None
  /\ server = [p \in Projects |-> 0]
  /\ acked = [p \in Projects |-> [b \in Buildings |-> 0]]
  /\ failed = {}
  /\ dropped = {}
  /\ overtaken = {}

-----------------------------------------------------------------------------
(* useEnsureDetail *)

\* The mode in which a caller asks for the active building.
Wants(c, v) ==
  CASE c = "panel" -> TRUE
    [] c = "model" -> v.mode = "building"
    [] OTHER -> v.mode # "city"

Mounted(c, v) == v.project # None /\ (c \in Layers => v.ready)

\* Mutant of Deps: the effect does not depend on isCached.
DepsUncached(c, v, docs) ==
  IF Mounted(c, v)
    THEN [id |-> IF Wants(c, v) THEN v.active ELSE None, project |-> v.project,
          cached |-> FALSE]
    ELSE Unmounted

Deps(c, v, docs) ==
  LET id == IF Wants(c, v) THEN v.active ELSE None
  IN  IF Mounted(c, v)
        THEN [id |-> id, project |-> v.project,
              cached |-> id \in Buildings /\ docs[id] # None]
        ELSE Unmounted

\* detailOrder.filter: the kept of the first i, up to the last.
Without(seq, b) ==
  LET kept[i \in 0..Len(seq)] ==
        IF i = 0 THEN <<>>
        ELSE IF seq[i] = b THEN kept[i - 1] ELSE Append(kept[i - 1], seq[i])
  IN kept[Len(seq)]

\* touchDetail: the most recently used is the last.
Touched(seq, b) == Append(Without(seq, b), b)

Free(b, pend) == b \notin pend

\* Mutant of Abandons: no cleanup.
AbandonsNever(f, docs) == FALSE

\* The cleanup leaves a fetch alone whose document is there.
Abandons(f, docs) == docs[f.id] = None

First(callers) ==
  Callers[CHOOSE i \in DOMAIN Callers :
            Callers[i] \in callers /\ \A j \in 1..(i - 1) : Callers[j] \notin callers]

\* An event leaves the view v, the documents docs with their order seq, the ids
\* pend pending and flying in the air, and mounts the callers in `again` anew.
React(v, docs, seq, pend, flying, again) ==
  LET new == [c \in CallerSet |-> Deps(c, v, docs)]
      rerun == {c \in CallerSet : new[c] # deps[c] \/ c \in again}
      asking == {c \in rerun : new[c].id # None}
      cached == v.active \in Buildings /\ docs[v.active] # None
      aborted == {f \in flying : f.held /\ f.by \in rerun /\ Abandons(f, docs)}
      begun == IF asking # {} /\ ~cached /\ Free(v.active, pend)
                 THEN {[by |-> First(asking), id |-> v.active, of |-> v.project,
                        rev |-> -1, held |-> TRUE]}
                 ELSE {}
      Named(set) == {f.id : f \in set}
      wanted == {b \in Buildings : \E c \in CallerSet : new[c].id = b}
  IN
  /\ view' = v
  /\ detail' = docs
  /\ deps' = new
  /\ order' = IF asking # {} /\ cached THEN Touched(seq, v.active) ELSE seq
  /\ fetches' = begun \cup {IF f.by \in rerun THEN [f EXCEPT !.held = FALSE] ELSE f :
                              f \in flying \ aborted}
  /\ pending' = (pend \cup Named(begun)) \ Named(aborted)
  /\ dropped' = ((dropped \ Named(begun)) \cup Named(aborted)) \cap wanted
  /\ failed' = (failed \ Named(begun)) \cap wanted

\* Only the view has changed.
See(v) == React(v, detail, order, pending, fetches, {})

\* The buildings a caller has no document of.
Waiting == {b \in Buildings : detail[b] = None /\ \E c \in CallerSet : deps[c].id = b}

-----------------------------------------------------------------------------
(* The view store *)

\* selectBuilding.
Select(id) ==
  /\ view.project # None
  /\ See([view EXCEPT !.active = id,
                      !.mode = IF id = None THEN "city"
                               ELSE IF view.gis2d THEN @ ELSE "building"])
  /\ UNCHANGED <<session, overtaken>>

\* isolateFloor, from a ladder or a panel that shows a building.
Isolate(on) ==
  /\ view.project # None
  /\ view.active # None
  /\ ~view.gis2d
  /\ See([view EXCEPT !.mode = IF on THEN "floor" ELSE "building"])
  /\ UNCHANGED <<session, overtaken>>

\* leaveGis2d.
Left2d(v) ==
  [v EXCEPT !.gis2d = FALSE, !.preMode = "city", !.preActive = None,
            !.mode = IF v.active = None THEN "city"
                     ELSE IF v.active # v.preActive THEN "building" ELSE v.preMode]

\* setGis2d; setExplode and setSlice leave the same way.
Toggle2d ==
  /\ view.project # None
  /\ See(IF view.gis2d THEN Left2d(view)
         ELSE [view EXCEPT !.gis2d = TRUE, !.mode = "city",
                           !.preMode = view.mode, !.preActive = view.active])
  /\ UNCHANGED <<session, overtaken>>

ResetView ==
  /\ view.project # None
  /\ See([Left2d(view) EXCEPT !.mode = "city", !.active = None])
  /\ UNCHANGED <<session, overtaken>>

\* OverlayRoot changes its regime and mounts the ladder and the panel anew.
Relayout ==
  /\ view.project # None
  /\ React(view, detail, order, pending, fetches, CallerSet \ Layers)
  /\ UNCHANGED <<session, overtaken>>

-----------------------------------------------------------------------------
(* One project and the next *)

Open(p) ==
  /\ view.project = None
  /\ See([view EXCEPT !.project = p])
  /\ UNCHANGED <<session, overtaken>>

\* CesiumRoot mounts the layers when the viewer and the collections are ready.
SceneReady ==
  /\ view.project # None
  /\ ~view.ready
  /\ See([view EXCEPT !.ready = TRUE])
  /\ UNCHANGED <<session, overtaken>>

\* To the list of projects, with the history of the browser.
Leave ==
  /\ view.project # None
  /\ See([view EXCEPT !.project = None, !.ready = FALSE])
  /\ UNCHANGED <<session, overtaken>>

-----------------------------------------------------------------------------
(* Answers *)

\* The server reads the document.
FetchServed(f) ==
  /\ f.rev = -1
  /\ fetches' = (fetches \ {f}) \cup {[f EXCEPT !.rev = server[f.of]]}
  /\ UNCHANGED <<view, deps, detail, order, pending, session, failed, dropped, overtaken>>

Fits(seq) == Len(seq) <= Limit

\* putDetail, and the effects it causes.
Put(b, doc, pend, flying) ==
  LET seq == Touched(order, b)
      all == [detail EXCEPT ![b] = doc]
  IN IF Fits(seq) THEN React(view, all, seq, pend, flying, {})
     ELSE React(view, [all EXCEPT ![Head(seq)] = None], Tail(seq), pend, flying, {})

FetchLands(f) ==
  /\ f.rev # -1
  /\ Put(f.id, [of |-> f.of, rev |-> f.rev], pending \ {f.id}, fetches \ {f})
  /\ UNCHANGED <<session, overtaken>>

\* An answer that is not ok, or none: endDetail only.
FetchFails(f) ==
  /\ fetches' = fetches \ {f}
  /\ pending' = pending \ {f.id}
  /\ failed' = failed \cup ({f.id} \cap Waiting)
  /\ UNCHANGED <<view, deps, detail, order, session, dropped, overtaken>>

-----------------------------------------------------------------------------
(* Edits *)

still == <<view, deps, detail, order, pending, fetches, failed, dropped>>

\* The button waits for the record to load.
BeginEdit ==
  /\ view.project # None
  /\ view.active # None
  /\ view.active \notin pending
  /\ editing' = view.active
  /\ UNCHANGED <<still, saving, server, acked, overtaken>>

CancelEdit ==
  /\ view.project # None
  /\ editing # None
  /\ editing = view.active
  /\ saving = None
  /\ editing' = None
  /\ UNCHANGED <<still, saving, server, acked, overtaken>>

\* The form is on the screen while its building is.  When exactly the server takes
\* the save matters to no one but the fetches, which may come before or after; one
\* it refuses leaves no trace.
Save ==
  /\ view.project # None
  /\ editing # None
  /\ editing = view.active
  /\ saving = None
  /\ Cardinality({s \in Projects \X (1..MaxSaves) : s[2] <= server[s[1]]}) < MaxSaves
  /\ server' = [server EXCEPT ![view.project] = @ + 1]
  /\ saving' = [id |-> editing, of |-> view.project, rev |-> server'[view.project]]
  /\ UNCHANGED <<still, editing, acked, overtaken>>

\* Mutant of SaveLands: the form is closed, the document not replaced.
SaveLandsAside ==
  /\ saving # None
  /\ acked' = [acked EXCEPT ![saving.of][saving.id] = saving.rev]
  /\ saving' = None
  /\ editing' = None
  /\ UNCHANGED <<still, server, overtaken>>

\* putDetail and finishSave, wherever the user is by now.
SaveLands ==
  /\ saving # None
  /\ Put(saving.id, [of |-> saving.of, rev |-> saving.rev], pending, fetches)
  /\ acked' = [acked EXCEPT ![saving.of][saving.id] = saving.rev]
  /\ overtaken' = IF saving.id \in pending THEN overtaken \cup {saving.id}
                  ELSE overtaken
  /\ saving' = None
  /\ editing' = None
  /\ UNCHANGED server

\* The answer is lost.
SaveFails ==
  /\ saving # None
  /\ saving' = None
  /\ UNCHANGED <<still, editing, server, acked, overtaken>>

Next ==
  \/ \E id \in Choices : Select(id)
  \/ \E on \in BOOLEAN : Isolate(on)
  \/ Toggle2d
  \/ ResetView
  \/ Relayout
  \/ \E p \in Projects : Open(p)
  \/ SceneReady
  \/ Leave
  \/ \E f \in fetches : FetchServed(f) \/ FetchLands(f) \/ FetchFails(f)
  \/ BeginEdit
  \/ CancelEdit
  \/ Save
  \/ SaveLands
  \/ SaveFails

Spec == Init /\ [][Next]_vars

-----------------------------------------------------------------------------
(* Properties *)

\* A caller that waits for a document waits for a fetch in the air, unless the last
\* one failed, or belonged to a caller that went away while others waited.
WaitsOnlyIfDropped == Waiting \subseteq pending \cup failed \cup dropped

\* "A cleanup can only mean the id changed, the doc arrived, or we unmounted, all
\* three of which are safe to abort on": nobody waits for a fetch that nobody makes.
NobodyWaitsInVain == Waiting \subseteq pending \cup failed

\* "The cache is replaced rather than invalidated": a document never falls back
\* behind a save the user has seen, unless a fetch made before was still in the air.
SavedStays ==
  \A b \in Buildings :
    detail[b] # None /\ b \notin overtaken => detail[b].rev >= acked[detail[b].of][b]

\* "A wrong document rendered as if it were right, which is worse than an error."
ShownIsOwn ==
  view.project # None /\ view.active # None /\ detail[view.active] # None
    => detail[view.active].of = view.project

\* What a fetch puts in the cache belongs to the project on the screen.
KeptForView ==
  \A b \in Buildings :
    detail'[b] # detail[b] /\ detail'[b] # None /\ acked' = acked /\ b \notin overtaken
      => detail'[b].of = view.project
=============================================================================
