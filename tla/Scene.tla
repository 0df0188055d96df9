------------------------------- MODULE Scene -------------------------------
(***************************************************************************)
(* How the buildings of a project get into the scene and stay true to the  *)
(* store: the boot of the globe (globe/CesiumRoot.tsx), the retry of       *)
(* DataErrorNotice, the part of useDataStore they write, and the two tiers *)
(* that draw the collection across frames (layers/BuildingsLayer.tsx,      *)
(* layers/BuildingsFarLayer.tsx over lib/cesium/build-queue.ts).           *)
(*                                                                         *)
(* A step is one task of the browser: an answer, a slice of a build, a     *)
(* click.  The effects React runs because of it are part of the step.  A   *)
(* boot and a retry are closures and outlive the page that started them;   *)
(* so does the store.                                                      *)
(***************************************************************************)
EXTENDS Integers, Sequences, FiniteSets

CONSTANTS Projects,
          Count,      \* how many buildings a project has; their ids are 1..Count
          First,      \* how many of them the first slice draws
          Heights,    \* what an edit may make of a height
          None,
          MaxVisits   \* bound on the viewers opened

Positions == 1..Count

VARIABLES visits,  \* the boots, one a visit; the last one is of the viewer open
          open,    \* whether a viewer is open
          retries, \* the visits whose Retry is in the air
          store,   \* useDataStore: collection, loading, error
          server,  \* the heights the server would answer
          near,    \* BuildingsLayer
          far,     \* BuildingsFarLayer
          visible  \* showBuildings && !gis2d && buildingStyle !== 'photoreal'

vars == <<visits, open, retries, store, server, near, far, visible>>

Visits == 1..MaxVisits

Drawing == [Positions -> Heights]

Collection == [of : Projects, height : Drawing]

SceneConstants ==
  /\ Count \in Nat \ {0} /\ First \in 1..Count /\ MaxVisits \in Nat
  /\ Heights # {} /\ None \notin Heights \cup Positions \cup Collection

\* What a tier knows of one mount.  alive is aliveRef; next is the building the
\* next slice begins with, None when nothing is being built; drawn holds the
\* height each building was last given, None when it is not in the scene.  runs
\* counts the runs of the build effect up to two; missed (history) holds the
\* buildings edited before this build had drawn them.
Tier == [mounted : BOOLEAN, alive : BOOLEAN, runs : 0..2, from : Collection \cup {None},
         next : Positions \cup {None}, drawn : [Positions -> Heights \cup {None}],
         missed : SUBSET Positions]

\* The far tier has one primitive, added at the end of its build: shown, hidden
\* or None.  wanted is the visibility its build was started with, turned
\* (history) says that the user has changed it since.
FarTier == [alive : BOOLEAN, ran : BOOLEAN, building : BOOLEAN, wanted : BOOLEAN,
            primitive : {"shown", "hidden", None}, turned : BOOLEAN]

Unmounted == [mounted |-> FALSE, alive |-> TRUE, runs |-> 0, from |-> None,
              next |-> None, drawn |-> [b \in Positions |-> None], missed |-> {}]

FarUnmounted == [alive |-> TRUE, ran |-> FALSE, building |-> FALSE, wanted |-> FALSE,
                 primitive |-> None, turned |-> FALSE]

SceneTypeOK ==
  /\ visits \in Seq([of : Projects, at : {"terrain", "data", "ground", "over"},
                     failed : BOOLEAN, strayed : BOOLEAN])
  /\ Len(visits) <= MaxVisits /\ open \in BOOLEAN /\ retries \subseteq DOMAIN visits
  /\ store \in [collection : Collection \cup {None}, loading : BOOLEAN, error : BOOLEAN]
  /\ server \in [Projects -> Drawing]
  /\ near \in Tier /\ far \in FarTier /\ visible \in BOOLEAN

Init ==
  /\ visits = <<>> /\ open = FALSE /\ retries = {}
  /\ store = [collection |-> None, loading |-> FALSE, error |-> FALSE]
  /\ server \in [Projects -> {[b \in Positions |-> CHOOSE h \in Heights : TRUE]}]
  /\ near = Unmounted /\ far = FarUnmounted /\ visible = TRUE

Current == Len(visits)

Disposed(i) == ~open \/ i # Current

-----------------------------------------------------------------------------
(* The two tiers *)

\* One slice draws the buildings from..to of the collection the effect captured;
\* addFootprint draws nothing once the tier is not alive.
Slice(t, to) ==
  [t EXCEPT !.next = IF to = Count THEN None ELSE to + 1,
            !.drawn = [b \in Positions |-> IF t.alive /\ b \in t.next..to
                                           THEN t.from.height[b] ELSE t.drawn[b]]]

\* The build effect: the cleanup of an earlier run clears aliveRef, cancels the
\* build and empties the scene, and nothing sets aliveRef again.
Rebuilt(t, c) ==
  IF c = None THEN t
  ELSE Slice([t EXCEPT !.alive = t.alive /\ t.runs = 0,
                       !.runs = IF t.runs = 0 THEN 1 ELSE 2, !.from = c,
                       !.next = 1, !.missed = {}, !.drawn = [b \in Positions |-> None]],
             First)

FarRebuilt(t, c) ==
  IF c = None THEN t
  ELSE [t EXCEPT !.alive = t.alive /\ ~t.ran, !.ran = TRUE, !.building = TRUE,
                 !.wanted = visible, !.primitive = None, !.turned = FALSE]

\* The layers are mounted when the context is ready, and build what the store has.
Mounted(c) == /\ near' = Rebuilt([Unmounted EXCEPT !.mounted = TRUE], c)
              /\ far' = FarRebuilt(FarUnmounted, c)

\* setBuildings raises the epoch, which the layers depend on.
Replaced(c) ==
  IF near.mounted THEN near' = Rebuilt(near, c) /\ far' = FarRebuilt(far, c)
  ELSE UNCHANGED <<near, far>>

NextSlice == /\ near.next # None
             /\ \E to \in near.next..Count : near' = Slice(near, to)
             /\ UNCHANGED <<visits, open, retries, store, server, far, visible>>

Shown(w) == IF w THEN "shown" ELSE "hidden"

\* onDone: the primitive gets the visibility the effect captured.
FarDone == /\ far.building
           /\ far' = [far EXCEPT !.building = FALSE,
                                 !.primitive = IF far.alive THEN Shown(far.wanted) ELSE None]
           /\ UNCHANGED <<visits, open, retries, store, server, near, visible>>

\* The layer toggle, the 2D view or the photoreal style.
Toggle ==
  /\ open /\ visible' = ~visible
  /\ far' = IF far.primitive # None THEN [far EXCEPT !.primitive = Shown(visible'), !.turned = FALSE]
            ELSE [far EXCEPT !.turned = far.building]
  /\ UNCHANGED <<visits, open, retries, store, server, near>>

\* Mutant of Reshaped: an edit is shown in the panel only.
ReshapedNever(b) == IF near.drawn[b] = None THEN [near EXCEPT !.missed = @ \cup {b}]
                    ELSE near

\* The subscriber re-shapes the building if this build has drawn it.
Reshaped(b) ==
  IF near.drawn[b] = None THEN [near EXCEPT !.missed = @ \cup {b}]
  ELSE [near EXCEPT !.drawn[b] = server'[visits[Current].of][b]]

\* A save of the open project is answered: patchBuilding writes the building of
\* that id in whatever collection the store has.
Edit(b, h) ==
  /\ near.mounted /\ store.collection # None
  /\ server[visits[Current].of][b] # h
  /\ server' = [server EXCEPT ![visits[Current].of][b] = h]
  /\ store' = [store EXCEPT !.collection.height[b] = h]
  /\ near' = IF store.collection.height[b] = h THEN near ELSE Reshaped(b)
  /\ UNCHANGED <<visits, open, retries, far, visible>>

-----------------------------------------------------------------------------
(* The boot *)

\* The page of a project: the boot raises the overlay and asks for terrain and
\* data at once.
Open(p) ==
  /\ ~open /\ Len(visits) < MaxVisits
  /\ open' = TRUE
  /\ visits' = Append(visits, [of |-> p, at |-> "terrain", failed |-> FALSE, strayed |-> FALSE])
  /\ store' = [store EXCEPT !.loading = TRUE]
  /\ UNCHANGED <<retries, server, near, far, visible>>

Leave == /\ open /\ open' = FALSE
         /\ near' = Unmounted /\ far' = FarUnmounted
         /\ UNCHANGED <<visits, retries, store, server, visible>>

At(i, stage) == i \in DOMAIN visits /\ visits[i].at = stage

\* A disposed boot returns here without lowering the overlay.
TerrainArrives(i) ==
  /\ At(i, "terrain")
  /\ visits' = [visits EXCEPT ![i].at = IF Disposed(i) THEN "over" ELSE "data"]
  /\ UNCHANGED <<open, retries, store, server, near, far, visible>>

Answered(p) == [of |-> p, height |-> server[p]]

\* Mutant of DataArrives: it does not look whether it was disposed.
DataArrivesAnyway(i) ==
  /\ At(i, "data")
  /\ visits' = [visits EXCEPT ![i].at = "ground"]
  /\ store' = [store EXCEPT !.collection = Answered(visits[i].of)]
  /\ Replaced(Answered(visits[i].of))
  /\ UNCHANGED <<open, retries, server, visible>>

\* The finally lowers the overlay, of the page after it too.
DataArrives(i) ==
  /\ At(i, "data")
  /\ IF Disposed(i)
     THEN /\ visits' = [visits EXCEPT ![i].at = "over"]
          /\ store' = [store EXCEPT !.loading = FALSE]
          /\ UNCHANGED <<near, far>>
     ELSE /\ visits' = [visits EXCEPT ![i].at = "ground"]
          /\ store' = [store EXCEPT !.collection = Answered(visits[i].of)]
          /\ Replaced(Answered(visits[i].of))
  /\ UNCHANGED <<open, retries, server, visible>>

\* Mutant of DataFails: the overlay is lowered only by a boot that succeeds.
DataFailsLoading(i) ==
  /\ At(i, "data")
  /\ visits' = [visits EXCEPT ![i].at = "over", ![i].failed = TRUE]
  /\ store' = [store EXCEPT !.error = TRUE]
  /\ IF Disposed(i) THEN UNCHANGED <<near, far>> ELSE Mounted(store.collection)
  /\ UNCHANGED <<open, retries, server, visible>>

\* The catch: the layers are mounted over what the store had before.
DataFails(i) ==
  /\ At(i, "data")
  /\ visits' = [visits EXCEPT ![i].at = "over", ![i].failed = TRUE]
  /\ store' = [store EXCEPT !.error = TRUE, !.loading = FALSE]
  /\ IF Disposed(i) THEN UNCHANGED <<near, far>> ELSE Mounted(store.collection)
  /\ UNCHANGED <<open, retries, server, visible>>

\* sampleGroundUnder answers in every case.  A success does not clear an error.
GroundSampled(i) ==
  /\ At(i, "ground")
  /\ visits' = [visits EXCEPT ![i].at = "over"]
  /\ store' = [store EXCEPT !.loading = FALSE]
  /\ IF Disposed(i) THEN UNCHANGED <<near, far>> ELSE Mounted(store.collection)
  /\ UNCHANGED <<open, retries, server, visible>>

-----------------------------------------------------------------------------
(* Retry *)

Retry == /\ open /\ store.error /\ Current \notin retries
         /\ retries' = retries \cup {Current}
         /\ store' = [store EXCEPT !.loading = TRUE]
         /\ UNCHANGED <<visits, open, server, near, far, visible>>

\* The closure of a notice that has gone writes the store all the same.
RetryArrives(i) ==
  /\ i \in retries /\ retries' = retries \ {i}
  /\ store' = [collection |-> Answered(visits[i].of), loading |-> FALSE, error |-> FALSE]
  /\ Replaced(Answered(visits[i].of))
  /\ visits' = IF Disposed(i) THEN [visits EXCEPT ![Current].strayed = TRUE]
               ELSE [visits EXCEPT ![i].failed = FALSE, ![i].strayed = FALSE]
  /\ UNCHANGED <<open, server, visible>>

RetryFails(i) ==
  /\ i \in retries /\ retries' = retries \ {i}
  /\ store' = [store EXCEPT !.error = TRUE, !.loading = FALSE]
  /\ UNCHANGED <<visits, open, server, near, far, visible>>

-----------------------------------------------------------------------------

Boot(i) == \/ TerrainArrives(i) \/ DataArrives(i) \/ DataFails(i) \/ GroundSampled(i)

RetryEnds(i) == RetryArrives(i) \/ RetryFails(i)

Next ==
  \/ Leave \/ Retry \/ NextSlice \/ FarDone \/ Toggle
  \/ \E p \in Projects : Open(p)
  \/ \E i \in Visits : Boot(i) \/ RetryEnds(i)
  \/ \E b \in Positions, h \in Heights : Edit(b, h)

\* A request is answered or rejected in the end; the browser runs its tasks.
Fairness == /\ \A i \in Visits : WF_vars(Boot(i)) /\ WF_vars(RetryEnds(i))
            /\ WF_vars(NextSlice) /\ WF_vars(FarDone)

Spec == Init /\ [][Next]_vars /\ Fairness

-----------------------------------------------------------------------------
(* Properties *)

\* When the near tier has nothing left to build, every building of the store is in
\* the scene at the height the store has, unless the building was edited while this
\* build had not reached it: the slice draws the collection it captured, and the
\* subscriber that re-shapes an edited building found no record of it.  This is of
\* the first build of a mount; after a re-run see AllDrawn.
NearAsStored ==
  near.runs = 1 /\ near.next = None =>
    \A b \in Positions : \/ near.drawn[b] = store.collection.height[b]
                         \/ b \in near.missed /\ near.drawn[b] # None

\* The scene of a ready viewer is built from its own project, unless its own fetch
\* has failed and the store still had another's, or the Retry of a page left
\* before was answered in it.
ForeignOnlyAfterFailure ==
  near.mounted /\ store.collection # None =>
    \/ store.collection.of = visits[Current].of
    \/ visits[Current].failed \/ visits[Current].strayed

\* "The two never show one without the other" (BuildingsFarLayer.tsx): the far
\* tier is shown exactly when the near one is, unless the user turned the
\* buildings off or on during its build.
FarFollowsUnlessTurned ==
  far.primitive # None => far.turned \/ far.primitive = Shown(visible)

\* What is drawn is what the store holds, in the near tier and in the far one.
DrawnAsStored == NearAsStored /\ FarFollowsUnlessTurned

\* The overlay "Loading cadastre" never stays: whatever fails, the viewer that is
\* open lowers it, or is left.
OverlayEnds == store.loading ~> (~store.loading \/ ~open)

\* A finished build shows every building: "The next effect run (if any) will
\* rebuild from scratch" (BuildingsLayer.tsx).  It does not.
AllDrawn ==
  near.mounted /\ near.next = None /\ store.collection # None =>
    \A b \in Positions : near.drawn[b] # None
=============================================================================
