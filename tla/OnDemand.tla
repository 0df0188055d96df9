------------------------------ MODULE OnDemand ------------------------------
(***************************************************************************)
(* What the viewer fetches when it is first wanted (lib/store.ts): the     *)
(* survey parcels, the Section 22A register, the document of one plot, the *)
(* specification of a site, the index of the sites, the LULC class of a    *)
(* building, the LADM document of a volume, and the topology run of the    *)
(* layer panel.  The building documents have a module of their own,        *)
(* DetailStore.                                                            *)
(*                                                                         *)
(* The hooks share nothing but the page, so a behaviour follows one, and   *)
(* what distinguishes the hooks is said where they differ.  A step is one  *)
(* event; what React does because of it is part of the step: the effects   *)
(* whose dependencies changed are cleaned up, then run, and then the       *)
(* aborted fetches reject, which is a microtask.                           *)
(***************************************************************************)
EXTENDS Integers, Sequences, FiniteSets

CONSTANTS Projects,
          Ids,     \* plots, sites, buildings or volumes
          Only,    \* the one of them a hook without an id asks for
          Limit,   \* LADM_CACHE_LIMIT
          None,
          MaxAsks  \* bound on the topology runs

ASSUME OnDemandAssumption ==
  /\ Only \in Ids /\ Limit \in Nat \ {0} /\ MaxAsks \in Nat
  /\ None \notin Ids \cup Projects

VARIABLES hook,    \* the hook this behaviour follows
          page,    \* what is open, mounted and wanted
          deps,    \* the dependencies each caller's effect last ran with
          own,     \* the id each caller's effect has begun a fetch for
          cache,   \* what useDataStore keeps for the hook
          order,   \* ladmOrder
          pending, \* the ids flagged as being fetched
          air,     \* fetches in the air
          asked,   \* topology runs asked for
          failed,  \* history: ids whose last fetch failed and left nothing
          dropped, \* history: ids whose last fetch was aborted while still wanted
          cleared  \* history: Clear was pressed during a topology run

vars == <<hook, page, deps, own, cache, order, pending, air, asked, failed, dropped, cleared>>

Hooks == {"parcels", "register", "plot", "site", "index", "lulc", "ladm", "topology"}

\* Hooks without an id, and those that keep one document at a time.
Unkeyed == {"parcels", "register", "index", "topology"}

Wantable == IF hook \in Unkeyed THEN {Only} ELSE Ids

\* A layer of the scene, a panel, or both.
Callers ==
  CASE hook \in {"parcels", "register"} -> {"layer"}
    [] hook \in {"site", "index"} -> {"layer", "panel"}
    [] hook = "topology" -> {}
    [] OTHER -> {"panel"}

\* void: the project has none, or the answer was read as that.
Docs == [of : Projects, void : BOOLEAN, ask : 0..MaxAsks]

ASSUME DocsAssumption == None \notin Docs

Fetches == [by : {"layer", "panel"}, id : Ids, of : Projects, ask : 0..MaxAsks]

\* epoch is buildingsEpoch, of which only a change matters; loaded: buildings
\* is not null.
Pages == [project : Projects \cup {None}, ready : BOOLEAN, want : Ids \cup {None},
          epoch : BOOLEAN, loaded : BOOLEAN]

Resting == [id |-> None, project |-> None, cached |-> FALSE, epoch |-> FALSE]

OnDemandTypeOK ==
  /\ hook \in Hooks /\ page \in Pages
  /\ own \in [Callers -> Ids \cup {None}]
  /\ cache \in [Ids -> Docs \cup {None}]
  /\ order \in Seq(Ids) /\ pending \subseteq Ids /\ air \subseteq Fetches
  /\ asked \in 0..MaxAsks /\ failed \subseteq Ids /\ dropped \subseteq Ids
  /\ cleared \in BOOLEAN

Init ==
  /\ hook \in Hooks
  /\ page = [project |-> None, ready |-> FALSE, want |-> None, epoch |-> FALSE,
             loaded |-> FALSE]
  /\ deps = [c \in Callers |-> Resting] /\ own = [c \in Callers |-> None]
  /\ cache = [i \in Ids |-> None] /\ order = <<>> /\ pending = {} /\ air = {}
  /\ asked = 0 /\ failed = {} /\ dropped = {} /\ cleared = FALSE

-----------------------------------------------------------------------------
(* The effect *)

Mounted(c, p) == p.project # None /\ (c = "layer" => p.ready)

\* The slug is a dependency of all but LULC, whose layer comes with the project;
\* whether the document is there, of those that select it.
Deps(c, p, docs) ==
  IF ~Mounted(c, p) THEN Resting
  ELSE [id |-> p.want, project |-> p.project,
        cached |-> /\ hook \in {"site", "index", "lulc", "ladm"}
                   /\ p.want # None /\ docs[p.want] # None,
        epoch |-> hook = "lulc" /\ p.epoch]

\* Mutant of Aborts: no cleanup.
AbortsNever(f, docs) == FALSE

\* Does the cleanup of a fetch abort it?  Two hooks leave it alone once there is
\* something to show.
Aborts(f, docs) == hook \in {"lulc", "ladm"} => docs[f.id] = None

\* The flags the cleanup itself clears: those of a request that has not landed, of
\* the plot and the site whether it has or not, and none where the rejection does.
Cleared(rerun, aborted) ==
  CASE hook \in {"parcels", "register"} -> {f.id : f \in aborted}
    [] hook \in {"plot", "site"} -> {own[c] : c \in rerun}
    [] OTHER -> {}

\* Mutant of Free: one flag for all the ids.
FreeOfAny(i, pend) == pend = {}

\* The index has no flag, and LULC needs the point of the building.
Free(i, pend) == hook = "index" \/ i \notin pend

\* The callers that begin a fetch: all of those of the index, else the first, which
\* flags it for the other.
Begin(asking) ==
  IF hook = "index" \/ Cardinality(asking) <= 1 THEN asking ELSE {"layer"}

\* An event leaves the page p, the documents docs, the flags pend and the fetches
\* flying, and mounts the callers in `again` anew.
React(p, docs, pend, flying, again) ==
  LET new == [c \in Callers |-> Deps(c, p, docs)]
      rerun == {c \in Callers : new[c] # deps[c] \/ c \in again}
      aborted == {f \in flying : f.by \in rerun /\ Aborts(f, docs)}
      kept == pend \ Cleared(rerun, aborted)
      asking == {c \in rerun : /\ Mounted(c, p) /\ p.want # None
                               /\ docs[p.want] = None /\ Free(p.want, kept)
                               /\ hook = "lulc" => p.loaded}
      begun == {[by |-> c, id |-> p.want, of |-> p.project, ask |-> 0] : c \in Begin(asking)}
      Named(set) == {f.id : f \in set}
      rejected == IF hook \in {"lulc", "ladm"} THEN Named(aborted) ELSE {}
  IN
  /\ page' = p /\ cache' = docs /\ deps' = new
  /\ own' = [c \in Callers |-> IF c \in Begin(asking) THEN p.want
                               ELSE IF c \in rerun THEN None ELSE own[c]]
  /\ pending' = ((IF hook = "index" THEN {}
                  ELSE IF hook = "plot" /\ begun # {} THEN Named(begun)
                  ELSE kept \cup Named(begun)) \ rejected)
  /\ air' = (flying \ aborted) \cup begun
  /\ failed' = failed \ Named(begun)
  /\ dropped' = IF p.want = None THEN {}
                ELSE ((dropped \cup Named(aborted)) \ Named(begun)) \cap {p.want}

See(p) == /\ React(p, cache, pending, air, {})
          /\ UNCHANGED <<hook, order, asked, cleared>>

-----------------------------------------------------------------------------
(* The page *)

Open(p) == page.project = None /\ See([page EXCEPT !.project = p])

\* What was wanted stays in the view store, and the documents in the data store.
Leave == page.project # None /\ See([page EXCEPT !.project = None, !.ready = FALSE])

SceneReady == /\ page.project # None /\ ~page.ready
              /\ See([page EXCEPT !.ready = TRUE])

\* A click, a toggle, a tab.
Want(i) == /\ page.project # None /\ hook # "topology" /\ i # page.want
           /\ See([page EXCEPT !.want = i])

\* setBuildings: the boot, or a retry.
Reload == /\ hook = "lulc" /\ page.project # None
          /\ See([page EXCEPT !.epoch = ~@, !.loaded = TRUE])

\* OverlayRoot changes its regime and mounts its panels anew.
Relayout == /\ page.project # None
            /\ React(page, cache, pending, air, Callers \ {"layer"})
            /\ UNCHANGED <<hook, order, asked, cleared>>

-----------------------------------------------------------------------------
(* The answers *)

Touched(i) == Append(SelectSeq(order, LAMBDA x : x # i), i)

\* setSurveyParcelDetail keeps one; putLadm evicts the oldest beyond its limit.
Put(f, doc) ==
  LET seq == IF hook = "ladm" THEN Touched(f.id) ELSE order
      over == Len(seq) > Limit
  IN /\ order' = IF over THEN Tail(seq) ELSE seq
     /\ React(page,
              [j \in Ids |-> IF j = f.id THEN doc
                             ELSE IF hook = "plot" \/ (over /\ j = Head(seq)) THEN None
                             ELSE cache[j]],
              pending \ {f.id}, air \ {f}, {})

\* The document, or something read as an empty one: a refusal, for the parcels; any
\* failure, for the index; no polygon, for LULC; 404, for LADM.
Lands(f, void) ==
  /\ f \in air /\ hook # "topology"
  /\ void => hook \in {"parcels", "index", "lulc", "ladm"}
  /\ LET doc == [of |-> f.of, void |-> void, ask |-> 0]
     IN Put(f, doc)
  /\ UNCHANGED <<hook, asked, cleared>>

\* A refusal or no answer, which the plot stores as no document at all; LULC gives
\* up after 8 s.
Fails(f) ==
  /\ f \in air /\ hook \notin {"index", "topology"}
  /\ air' = air \ {f} /\ pending' = pending \ {f.id}
  /\ cache' = IF hook = "plot" THEN [i \in Ids |-> None] ELSE cache
  /\ failed' = failed \cup {f.id}
  /\ UNCHANGED <<hook, page, deps, own, order, asked, dropped, cleared>>

-----------------------------------------------------------------------------
(* runTopology and clearTopology of the view store *)

rest == <<hook, page, deps, own, order, dropped>>

Question == [by |-> "panel", id |-> Only, of |-> page.project, ask |-> asked + 1]

\* Mutant of Ask: the button is not disabled by a run.
AskAgain ==
  /\ hook = "topology" /\ page.project # None /\ asked < MaxAsks
  /\ pending' = {Only} /\ asked' = asked + 1 /\ air' = air \cup {Question}
  /\ failed' = {}
  /\ UNCHANGED <<rest, cache, cleared>>

Ask ==
  /\ hook = "topology" /\ page.project # None /\ asked < MaxAsks
  /\ pending = {}
  /\ pending' = {Only} /\ asked' = asked + 1 /\ air' = air \cup {Question}
  /\ failed' = {}
  /\ UNCHANGED <<rest, cache, cleared>>

\* An answer is taken whatever project is open by now.
Found(f) ==
  /\ f \in air /\ hook = "topology"
  /\ air' = air \ {f} /\ pending' = {}
  /\ cache' = [cache EXCEPT ![Only] = [of |-> f.of, void |-> FALSE, ask |-> f.ask]]
  /\ failed' = {}
  /\ UNCHANGED <<rest, asked, cleared>>

NotFound(f) ==
  /\ f \in air /\ hook = "topology"
  /\ air' = air \ {f} /\ pending' = {} /\ failed' = {Only}
  /\ UNCHANGED <<rest, cache, asked, cleared>>

\* The button stands beside the findings, and is not disabled by a run.
Clear ==
  /\ hook = "topology" /\ page.project # None
  /\ cache[Only] # None /\ failed = {}
  /\ cache' = [cache EXCEPT ![Only] = None] /\ pending' = {}
  /\ cleared' = (cleared \/ air # {})
  /\ UNCHANGED <<rest, air, asked, failed>>

-----------------------------------------------------------------------------

Next ==
  \/ Leave \/ SceneReady \/ Reload \/ Relayout \/ Ask \/ Clear
  \/ \E p \in Projects : Open(p)
  \/ \E i \in Wantable \cup {None} : Want(i)
  \/ \E f \in air : Lands(f, TRUE) \/ Lands(f, FALSE) \/ Fails(f) \/ Found(f) \/ NotFound(f)

Spec == Init /\ [][Next]_vars

-----------------------------------------------------------------------------
(* Properties *)

\* What a mounted caller wants and does not have is being fetched, unless the last
\* fetch failed, LULC has no city to find the building in, or an LULC or LADM fetch
\* was in the air when its effect was re-run for the same id, by a reload of the
\* collection or a change of layout: the cleanup aborts, the effect still sees the
\* flag and begins nothing, and the rejection lowers it when nobody looks any more.
IdleOnlyIfFailedOrDropped ==
  (\E c \in Callers : Mounted(c, page)) /\ page.want # None =>
    \/ cache[page.want] # None \/ page.want \in failed
    \/ \E f \in air : f.id = page.want
    \/ hook = "lulc" /\ ~page.loaded
    \/ hook \in {"lulc", "ladm"} /\ page.want \in dropped

\* An answer that is kept belongs to the project that is open when it lands.
KeptForPage ==
  \A i \in Ids : hook # "topology" /\ cache'[i] # cache[i] /\ cache'[i] # None =>
    cache'[i].of = page.project

\* When no run is in the air, the findings are those of the last run asked for,
\* unless it failed, or Clear was pressed during a run, which lets a second begin
\* beside the first and the first put its findings back.
FindingsOfLastRun ==
  hook = "topology" /\ air = {} /\ cache[Only] # None =>
    cache[Only].ask = asked \/ failed # {} \/ cleared
=============================================================================
