-------------------------------- MODULE Globe -------------------------------
(***************************************************************************)
(* The store of ViewStore with the camera that follows it.  One effect of  *)
(* components/globe/CameraDirector.tsx chooses the flight from the view    *)
(* and from what has arrived so far of the collection of buildings, the    *)
(* index of sites and the documents of buildings (useDataStore), each in   *)
(* its own time; it keeps the pose the plan of the 2D view was entered     *)
(* from, and gives it back on the way out.  A pose stands for what it was  *)
(* flown to; the user's own turns of the camera are left out.              *)
(***************************************************************************)
EXTENDS ViewStore

CONSTANT Unposable  \* the poses that are not finite, which are refused

VARIABLES data,      \* useDataStore: buildings (by id), sites (by id), detail (its keys)
          ready,     \* the scene has its ground, and the director runs
          camera,    \* what the camera last flew to
          gis2dPose, \* gis2dReturnRef: the pose and the building on entering the 2D view
          given      \* history: the last run gave a kept pose back

globeVars == <<view, role, session, frame, chosen, data, ready, camera, gis2dPose, given>>

\* No collection is the empty one, and so for the sites.
NoData == [buildings |-> {}, sites |-> {}, detail |-> {}]

City == <<"city", None>>
Plan == <<"plan", None>>

Poses == {"city", "plan", "under", "site", "unit", "floor", "building"}
           \X (Buildings \cup Sites \cup Flats \cup {None})

GlobeTypeOK ==
  /\ ViewTypeOK
  /\ data \in [buildings : SUBSET Buildings, sites : SUBSET Sites, detail : SUBSET Buildings]
  /\ ready \in BOOLEAN /\ given \in BOOLEAN /\ camera \in Poses
  /\ gis2dPose \in [pose : Poses, building : Buildings \cup {None}] \cup {None}

GlobeInit ==
  /\ Init
  /\ data = NoData /\ ready = FALSE
  /\ camera = City /\ gis2dPose = None /\ given = FALSE

-----------------------------------------------------------------------------
(* The flight *)

\* The active site, from the index.
Indexed(v, d) == IF v.site \in d.sites THEN v.site ELSE None

\* The pose for a view outside the 2D one, by priority; None where the building is not
\* in the collection.  Without its document a flat or a level is framed as its building.
Framing(v, d) ==
  IF v.underground
    THEN <<"under", IF Indexed(v, d) # None THEN Indexed(v, d)
                    ELSE IF v.building \in d.buildings THEN v.building ELSE None>>
  ELSE IF Indexed(v, d) # None /\ v.building = None THEN <<"site", Indexed(v, d)>>
  ELSE IF v.mode = "city" \/ v.building = None THEN City
  ELSE IF v.building \notin d.buildings THEN None
  ELSE IF v.building \in d.detail /\ v.mode = "unit" /\ v.unit # None
            /\ v.unit[1] = v.building
    THEN <<"unit", v.unit>>
  ELSE IF v.building \in d.detail /\ v.mode = "floor" /\ v.level # None
    THEN <<"floor", <<v.building, v.level>> >>
  ELSE <<"building", v.building>>

\* Where the camera flies, None for no flight.
Subject(v, d) == IF Framing(v, d) \in Unposable THEN None ELSE Framing(v, d)

\* One run of the effect.
Fly(v, d) ==
  IF v.gis2d
    THEN /\ camera' = IF gis2dPose = None THEN Plan ELSE camera
         /\ gis2dPose' = IF gis2dPose = None
                           THEN [pose |-> camera, building |-> v.building] ELSE gis2dPose
         /\ given' = FALSE
    ELSE LET back == gis2dPose # None /\ gis2dPose.building = v.building
         IN  /\ camera' = IF back THEN gis2dPose.pose
                           ELSE IF Subject(v, d) = None THEN camera ELSE Subject(v, d)
             /\ gis2dPose' = None
             /\ given' = back

Still == UNCHANGED <<camera, gis2dPose, given>>

\* What of the view the effect depends on; a component, a pipe or a street is not among it.
Watched(v, d) ==
  <<v.mode, v.building, v.level, v.unit, v.underground, v.gis2d, Indexed(v, d)>>

Follow ==
  IF ready /\ Watched(view', data') # Watched(view, data) THEN Fly(view', data') ELSE Still

\* A director that mounts, on a scene that opens on the city, knows no earlier pose.
Mount ==
  ready' = FALSE /\ camera' = City /\ gis2dPose' = None /\ given' = FALSE

-----------------------------------------------------------------------------
(* What arrives *)

\* setBuildings, of the boot before it is ready or of the retry of a failed one: the
\* epoch moves, so the effect runs.
Collect ==
  /\ frame # "closed"
  /\ \E all \in SUBSET Buildings : data' = [data EXCEPT !.buildings = all]
  /\ IF ready THEN Fly(view, data') ELSE Still
  /\ UNCHANGED <<vars, ready>>

\* The terrain is sampled, or the boot failed and what there is has to do.
Settle ==
  /\ frame # "closed" /\ ~ready
  /\ ready' = TRUE
  /\ Fly(view, data)
  /\ UNCHANGED <<vars, data>>

\* Asked for once a page; a failure is an empty index.
SitesArrive ==
  /\ data.sites = {}
  /\ \E all \in SUBSET Sites : data' = [data EXCEPT !.sites = all]
  /\ UNCHANGED <<vars, ready>>
  /\ Follow

Cached(b, out) == data' = [data EXCEPT !.detail = (@ \ out) \cup {b}]

\* Mutant of DocumentArrives: the effect does not depend on the document.
DocumentUnwatched(b) ==
  /\ \E out \in {{}} \cup {{c} : c \in data.detail \ {b}} : Cached(b, out)
  /\ Still
  /\ UNCHANGED <<vars, ready>>

\* putDetail, of a fetch or of a save, which may turn another document out of the cache.
DocumentArrives(b) ==
  \E out \in {{}} \cup {{c} : c \in data.detail \ {b}} :
    /\ Cached(b, out)
    /\ IF ready /\ view.building \in {b} \cup out THEN Fly(view, data') ELSE Still
    /\ UNCHANGED <<vars, ready>>

GlobeNext ==
  \/ (Open \/ Leave) /\ Mount /\ UNCHANGED data
  \/ Reload /\ Mount /\ data' = NoData
  \/ (Me \/ Frame \/ Clicks \/ Controls) /\ UNCHANGED <<data, ready>> /\ Follow
  \/ Collect \/ Settle \/ SitesArrive
  \/ \E b \in Buildings : DocumentArrives(b)

GlobeSpec == GlobeInit /\ [][GlobeNext]_globeVars

-----------------------------------------------------------------------------
(* Properties *)

\* Which layers draw the part of the active building at level l as a solid.
SolidAt(v, l) ==
  {x \in {"prism", "model", "stack"} :
     CASE x = "prism" -> CapShown(v, All, v.building)
       [] x = "model" -> ModelShown(v)
       [] OTHER -> SlabShown(v, All, l)}

\* The prism, the model and the stack are conditions of three components
\* (BuildingsLayer.tsx:420, BuildingModelLayer.tsx:129, FloorStackLayer.tsx:115):
\* whatever is clicked, no storey of the active building is drawn by two of them, and
\* outside the 2D and underground views, with the layers on, one draws it unless another
\* level is isolated.
DrawnOnce ==
  view.building # None =>
    \A l \in Levels :
      LET by == SolidAt(view, l)
      IN  /\ \A x, y \in by : x = y
          /\ by = {} => view.gis2d \/ view.underground \/ view.level \notin {None, l}

\* Something is drawn above the ground, or a second kind of plots.
Upright(v, citizen) ==
  \/ ModelShown(v) \/ PipesShown(v) \/ FoundationsShown(v) \/ SiteShown(v)
  \/ FindingsShown(v)
  \/ StreetsShown(v, All) \/ ParcelsShown(v, All)
  \/ \E b \in Buildings : WallShown(v, All, b, citizen)
  \/ \E l \in Levels : SlabShown(v, All, l) \/ FlatShown(v, All, l)

\* "Anything drawn above the ground stands down" in the 2D view (Scene.tsx:41), and the
\* stack and the flats "need no gate of their own" (:64) because the mode stays city:
\* so it does whatever is chosen from the plan's lists, until a link opened on a store
\* that was left in the 2D view or a citizen framed in it has set another mode.  Only the highlight of a
\* selected run is drawn without asking.
FlatIn2D ==
  [][view'.gis2d /\ Upright(view', session' = "citizen") =>
       \/ view.gis2d /\ view.mode # "city"
       \/ Open \/ Frame]_globeVars

\* Where the store is coherent, what the card is about is on the globe when the layers
\* are on: the flat, the level, the building, the component, the plot, the entry
\* (DetailPanel.tsx:655, UnitsLayer.tsx:386, FloorStackLayer.tsx:277).  Not so under the
\* underground view, which takes away what is above the ground, and for what was chosen
\* before the 2D view; a run keeps its card when its layer is switched off by hand, and an
\* entry when a link that names the layers is opened on the store (lib/store.ts:776).
CardIsDrawn ==
  LET card == Card(view)
      drawn == CASE card = "unit" -> FlatShown(view, All, view.level)
                 [] card = "floor" -> SlabShown(view, All, view.level)
                 [] card = "building" ->
                      ModelShown(view) \/ \E l \in Levels : SlabShown(view, All, l)
                 [] card = "component" -> SiteShown(view)
                 [] card = "plot" -> PlotsShown(view)
                 [] card = "entry" -> EntriesShown(view)
                 [] OTHER -> TRUE
  IN  frame # "closed" /\ Coherent(view) =>
        \/ drawn
        \/ view.gis2d
        \/ card = "entry" /\ chosen # "entry"
        \/ view.underground /\ card \in {"unit", "floor"} /\ view.level >= 0

\* What the layers draw is what was chosen: each storey once, and what the card is about.
DrawnAsChosen == DrawnOnce /\ CardIsDrawn

\* Whatever is chosen before or after the buildings, the sites and the documents have
\* arrived, the camera of a running director is outside the 2D view where the store and
\* the data now point, never where they pointed before: unless there is no flight to be
\* made, or the last run gave back the pose the 2D view was entered from.
CameraOnSubject ==
  frame # "closed" /\ ready /\ ~view.gis2d =>
    \/ Subject(view, data) \in {camera, None}
    \/ given
=============================================================================
