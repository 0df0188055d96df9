----------------------------- MODULE ViewStore -----------------------------
(***************************************************************************)
(* The view store of the viewer (useViewStore, lib/store.ts), everything   *)
(* that writes its selection, its modes and its basemap, the address bar   *)
(* that is made from it and restores it (lib/url-state.ts), and the card   *)
(* DetailPanel shows for it.                                               *)
(*                                                                         *)
(* A setter is an operator from the old state of the store to the new one; *)
(* an action is one event: a click in the scene, a control, an answer of   *)
(* the server, the opening, leaving or reloading of a page.  A flat is     *)
(* <<building, level>> and a component has the name of its site.  The      *)
(* store is a module of the page: leaving a project does not clear it.     *)
(***************************************************************************)
EXTENDS Layers

CONSTANTS Buildings, Levels, Pipes, Roads, Sites, Plots, Entries,
          Home,   \* the flat of the citizen who may be signed in
          Links   \* what the address bar holds when a viewer is opened

VARIABLES view,    \* useViewStore
          role,    \* what /api/me will answer
          session, \* session.role
          frame,   \* CitizenAutoFrame; "closed" when no viewer is open
          chosen   \* history: what the user chose last, "any" when a card need not follow

vars == <<view, role, session, frame, chosen>>

Modes == {"city", "building", "floor", "unit"}

Basemaps == {"imagery", "street"}

Flats == Buildings \X Levels

Saved == [mode : Modes, basemap : Basemaps, building : Buildings \cup {None}]

Views ==
  [mode : Modes, building : Buildings \cup {None}, level : Levels \cup {None},
   unit : Flats \cup {None}, pipe : Pipes \cup {None}, road : Roads \cup {None},
   site : Sites \cup {None}, component : Sites \cup {None}, plot : Plots \cup {None},
   entry : Entries \cup {None}, gis2d : BOOLEAN, pre : Saved \cup {None},
   basemap : Basemaps, explode : BOOLEAN, slice : BOOLEAN, underground : BOOLEAN,
   services : BOOLEAN, overlay : BOOLEAN, stratum : BOOLEAN]

\* services and overlay are the layers utilities and section22a; stratum is the
\* underground category the pipes belong to.
Fresh ==
  [mode |-> "city", building |-> None, level |-> None, unit |-> None, pipe |-> None,
   road |-> None, site |-> None, component |-> None, plot |-> None, entry |-> None,
   gis2d |-> FALSE, pre |-> None, basemap |-> "imagery", explode |-> FALSE,
   slice |-> FALSE, underground |-> FALSE, services |-> FALSE, overlay |-> FALSE,
   stratum |-> TRUE]

ViewTypeOK ==
  /\ view \in Views /\ (view.gis2d <=> view.pre # None)
  /\ role \in {"gov", "citizen"} /\ session \in {"none", "citizen"}
  /\ frame \in {"closed", "asking", "loading", "framed", "idle"}
  /\ chosen \in {"any", "reset", "up", "building", "floor", "unit", "pipe", "road",
                 "component", "entry", "plot"}

-----------------------------------------------------------------------------
(* The setters *)

LeaveGis2d(v) ==
  IF ~v.gis2d THEN v
  ELSE [v EXCEPT !.gis2d = FALSE, !.pre = None, !.plot = None, !.entry = None,
                 !.mode = IF v.building = None THEN "city"
                          ELSE IF v.building # v.pre.building THEN "building"
                          ELSE v.pre.mode,
                 !.basemap = v.pre.basemap]

\* Mutant of SelectBuilding: the entry of the register stays.
SelectBuildingKeepingEntry(v, b) ==
  [v EXCEPT !.building = b, !.level = None, !.unit = None, !.pipe = None,
            !.road = None, !.slice = FALSE,
            !.mode = IF b = None THEN "city" ELSE IF v.gis2d THEN v.mode ELSE "building",
            !.explode = IF b = None THEN FALSE ELSE v.explode]

SelectBuilding(v, b) ==
  [v EXCEPT !.building = b, !.level = None, !.unit = None, !.pipe = None,
            !.road = None, !.entry = None, !.slice = FALSE,
            !.mode = IF b = None THEN "city" ELSE IF v.gis2d THEN v.mode ELSE "building",
            !.explode = IF b = None THEN FALSE ELSE v.explode]

IsolateFloor(v, l) ==
  [v EXCEPT !.level = l, !.unit = None, !.road = None, !.entry = None,
            !.mode = IF l # None THEN "floor"
                     ELSE IF v.building = None THEN "city" ELSE "building"]

\* selectUnit(null); no caller names a flat without its level.
DropUnit(v) ==
  [v EXCEPT !.unit = None, !.entry = None,
            !.mode = IF v.level # None THEN "floor" ELSE "building"]

OpenUnit(v, l, u) ==
  [v EXCEPT !.mode = "unit", !.level = l, !.unit = u, !.pipe = None, !.road = None,
            !.entry = None]

SelectUtility(v, p) ==
  [v EXCEPT !.pipe = p, !.road = None, !.component = None, !.entry = None]

SelectRoad(v, r) ==
  [v EXCEPT !.road = r, !.pipe = None, !.component = None, !.entry = None]

SelectSite(v, s) ==
  [v EXCEPT !.site = s, !.component = IF s = v.site THEN v.component ELSE None]

SelectComponent(v, s) ==
  [v EXCEPT !.component = s, !.pipe = None, !.road = None, !.entry = None]

ClearAmbient(v) ==
  [v EXCEPT !.road = None, !.pipe = None, !.component = None, !.entry = None]

SetPlot(v, p) == [v EXCEPT !.plot = p, !.entry = None]

SelectEntry(v, e) == [v EXCEPT !.entry = e, !.plot = None]

ToggleOverlay(v) ==
  [v EXCEPT !.overlay = ~v.overlay, !.entry = IF v.overlay THEN None ELSE v.entry]

\* Mutant of SetExplode: the section stays on.
SetExplodeBesideSlice(v, on) ==
  IF ~on THEN [v EXCEPT !.explode = FALSE]
  ELSE LeaveGis2d([v EXCEPT !.explode = TRUE])

SetExplode(v, on) ==
  IF ~on THEN [v EXCEPT !.explode = FALSE]
  ELSE LeaveGis2d([v EXCEPT !.explode = TRUE, !.slice = FALSE])

SetSlice(v, on) ==
  IF ~on THEN [v EXCEPT !.slice = FALSE]
  ELSE LeaveGis2d([v EXCEPT !.slice = TRUE, !.explode = FALSE])

SetGis2d(v, on) ==
  IF on <=> v.gis2d THEN v
  ELSE IF ~on THEN LeaveGis2d(v)
  ELSE [v EXCEPT !.gis2d = TRUE,
                 !.pre = [mode |-> v.mode, basemap |-> v.basemap, building |-> v.building],
                 !.mode = "city", !.basemap = "street", !.explode = FALSE,
                 !.slice = FALSE, !.plot = None]

SetUnderground(v, on) ==
  [v EXCEPT !.underground = on, !.pipe = IF on THEN v.pipe ELSE None,
            !.services = on \/ v.services]

ToggleStratum(v) ==
  [v EXCEPT !.stratum = ~v.stratum, !.services = v.services \/ ~v.stratum,
            !.pipe = IF v.stratum THEN None ELSE v.pipe]

\* The findings of runTopology, when there are any.
ShowFindings(v) == [v EXCEPT !.underground = TRUE, !.services = TRUE]

ResetView(v) ==
  [LeaveGis2d(v) EXCEPT
     !.mode = "city", !.building = None, !.level = None, !.unit = None, !.pipe = None,
     !.road = None, !.explode = FALSE, !.underground = FALSE, !.site = None,
     !.component = None, !.stratum = TRUE, !.slice = FALSE]

-----------------------------------------------------------------------------
(* The address bar *)

LayerKeys == {"services", "overlay"}

\* What a link can carry; defaults are left out, the layers go together.
Deliberate == {"building", "level", "unit", "pipe", "site", "component", "basemap",
               "explode", "underground", "stratum"}

Serialise(v) ==
  [k \in {d \in Deliberate : v[d] # Fresh[d]}
           \cup IF \E d \in LayerKeys : v[d] # Fresh[d] THEN LayerKeys ELSE {} |-> v[k]]

\* What the fields a link can carry may hold.
LinkValues ==
  [building |-> Buildings, level |-> Levels, unit |-> Flats, pipe |-> Pipes,
   site |-> Sites, component |-> Sites, basemap |-> Basemaps, explode |-> BOOLEAN,
   underground |-> BOOLEAN, stratum |-> BOOLEAN, services |-> BOOLEAN, overlay |-> BOOLEAN]

\* A link written by hand may name a level or a flat without the building.
ASSUME ViewAssumption ==
  /\ None \notin Buildings \cup Levels \cup Pipes \cup Roads \cup Sites \cup Plots
                   \cup Entries \cup Flats \cup Saved
  /\ Levels \subseteq Int /\ Home \in Flats
  /\ \A link \in Links :
       /\ DOMAIN link \subseteq DOMAIN LinkValues
       /\ \A k \in DOMAIN link : link[k] \in LinkValues[k]

\* Mutant of ImpliedMode: a floor wins over the flat on it.
ImpliedModeFloorFirst(given) ==
  IF "level" \in given THEN {"floor"}
  ELSE IF "unit" \in given THEN {"unit"}
  ELSE IF "building" \in given THEN {"building"} ELSE {}

\* The deepest selection present decides.
ImpliedMode(given) ==
  IF "unit" \in given THEN {"unit"}
  ELSE IF "level" \in given THEN {"floor"}
  ELSE IF "building" \in given THEN {"building"} ELSE {}

Parse(link) ==
  LET given == DOMAIN link
      kept == IF "site" \in given THEN given ELSE given \ {"component"}
      mode == ImpliedMode(given)
  IN  [k \in kept \cup (IF mode = {} THEN {} ELSE {"mode"}) |->
         IF k = "mode" THEN CHOOSE m \in mode : TRUE ELSE link[k]]

Hydrate(v, patch) ==
  LET set == [k \in DOMAIN v |-> IF k \in DOMAIN patch THEN patch[k] ELSE v[k]]
  IN  IF set.underground /\ "services" \notin DOMAIN patch
        THEN [set EXCEPT !.services = TRUE]
        ELSE set

\* What a reload of the page makes of the store.
Reopened(v) == Hydrate(Fresh, Parse(Serialise(v)))

-----------------------------------------------------------------------------
(* The card *)

Card(v) ==
  CASE v.entry # None -> "entry"
    [] v.entry = None /\ v.gis2d /\ v.plot # None -> "plot"
    [] OTHER ->
         IF v.road # None THEN "road"
         ELSE IF v.pipe # None THEN "pipe"
         ELSE IF v.component # None /\ v.component = v.site THEN "component"
         ELSE IF v.site # None /\ v.building = None THEN "site"
         ELSE IF v.building = None \/ v.mode = "city" \/ (v.underground /\ v.unit = None)
                THEN "area"
         ELSE IF v.unit # None THEN "unit"
         ELSE IF v.level # None THEN "floor" ELSE "building"

-----------------------------------------------------------------------------
(* Opening, leaving, framing *)

Init ==
  /\ view = Fresh
  /\ role \in {"gov", "citizen"}
  /\ session = "none"
  /\ frame = "closed"
  /\ chosen = "any"

\* Only a citizen's answer to /api/me changes what the model tells apart.
Mounted == IF role = "citizen" THEN "asking" ELSE "idle"

OpenWith(link) ==
  /\ frame = "closed"
  /\ view' = Hydrate(view, Parse(link))
  /\ frame' = Mounted
  /\ UNCHANGED <<role, session, chosen>>

Open == \E link \in Links : OpenWith(link)

Leave ==
  /\ frame # "closed"
  /\ frame' = "closed"
  /\ chosen' = "any"
  /\ UNCHANGED <<view, role, session>>

Reload ==
  /\ frame # "closed"
  /\ view' = Reopened(view)
  /\ session' = "none"
  /\ frame' = Mounted
  /\ chosen' = "any"
  /\ UNCHANGED <<role>>

Me ==
  /\ frame = "asking"
  /\ \/ session' = "citizen" /\ frame' = "loading"
     \/ session' = session /\ frame' = "idle"
  /\ UNCHANGED <<view, role, chosen>>

\* selectBuilding and openUnit, one after the other; isolateFloor where the document does
\* not hold the flat.  Nothing when there is no document.
Frame ==
  /\ frame = "loading"
  /\ \/ /\ view' = OpenUnit(SelectBuilding(view, Home[1]), Home[2], Home)
        /\ frame' = "framed"
        /\ chosen' = IF view.gis2d THEN "any" ELSE "unit"
     \/ /\ view' = IsolateFloor(SelectBuilding(view, Home[1]), Home[2])
        /\ frame' = "framed"
        /\ chosen' = IF view.gis2d THEN "any" ELSE "floor"
     \/ UNCHANGED <<view, chosen>> /\ frame' = "idle"
  /\ UNCHANGED <<role, session>>

\* The building of a framed citizen is pinned.
Pinned(v) ==
  IF session = "citizen" /\ frame = "framed" /\ v.building # Home[1]
    THEN SelectBuilding(v, Home[1]) ELSE v

Does(next, choice) ==
  /\ frame # "closed"
  /\ view' = Pinned(next)
  /\ chosen' = choice
  /\ UNCHANGED <<role, session, frame>>

Panels == session # "citizen"  \* the chrome a citizen does not get

Served == IF role = "citizen" THEN {Home[1]} ELSE Buildings

-----------------------------------------------------------------------------
(* Clicks in the scene *)

\* A thing answers to a click when it is drawn and carries a tag; the other switches of
\* the Layers panel only take things away.
ClickBuilding(b) ==
  /\ WallShown(view, All, b, session = "citizen") \/ FoundationsShown(view)
  /\ Does(SelectBuilding(view, b), "building")

ClickFloor(l) ==
  SlabShown(view, All, l) /\ Does(IsolateFloor(view, l), "floor")

ClickUnit(l) ==
  FlatShown(view, All, l) /\ Does(OpenUnit(view, l, <<view.building, l>>), "unit")

ClickPipe(p) == PipesShown(view) /\ Does(SelectUtility(view, p), "pipe")

ClickRoad(r) == StreetsShown(view, All) /\ Does(SelectRoad(view, r), "road")

ClickComponent == SiteShown(view) /\ Does(SelectComponent(view, view.site), "component")

ClickEntry(e) == EntriesShown(view) /\ Does(SelectEntry(view, e), "entry")

ClickPlot(p) == PlotsShown(view) /\ Does(SetPlot(view, p), "plot")

ClickNothing ==
  Does(IF view.gis2d THEN SetPlot(view, None) ELSE ClearAmbient(view), "any")

-----------------------------------------------------------------------------
(* Controls *)

\* The search box, the tree on the card of a plot, the neighbours on the card of a
\* building.
PickFromList(b) ==
  /\ \/ Panels
     \/ Card(view) = "plot"
  /\ Does(SelectBuilding(view, b),
          IF ~view.gis2d THEN "building" ELSE IF chosen = "plot" THEN "plot" ELSE "any")

\* "Open cadastral parcel" on the card of an entry.
OpenPlot(p) == view.gis2d /\ view.entry # None /\ Does(SetPlot(view, p), "plot")

Back ==
  /\ view.mode # "city"
  /\ IF view.unit # None THEN Does(DropUnit(view), "up")
     ELSE IF view.level # None THEN Does(IsolateFloor(view, None), "up")
     ELSE Does(SelectBuilding(view, None), "any")

Ladder(l) ==
  /\ view.mode # "city" /\ view.building # None
  /\ IF view.level = l THEN Does(IsolateFloor(view, None), "up")
     ELSE Does(IsolateFloor(view, l), "floor")

ToggleSite(s) ==
  Panels /\ Does(SelectSite(view, IF view.site = s THEN None ELSE s), "any")

ToggleGis2d == Does(SetGis2d(view, ~view.gis2d), "any")

ToggleUnderground == Panels /\ Does(SetUnderground(view, ~view.underground), "any")

Strata ==
  /\ Panels
  /\ \/ Does(ToggleStratum(view), "any")
     \/ \E on \in BOOLEAN : Does([view EXCEPT !.stratum = on], chosen)

ToggleServices == Panels /\ Does([view EXCEPT !.services = ~view.services], chosen)

Toggle22A == Panels /\ Does(ToggleOverlay(view), IF chosen = "entry" THEN "any" ELSE chosen)

Explode(on) ==
  Panels /\ view.mode # "city" /\ ~view.gis2d /\ Does(SetExplode(view, on), chosen)

Slice(on) ==
  Panels /\ view.building # None /\ ~view.gis2d /\ Does(SetSlice(view, on), chosen)

ChooseBasemap(m) ==
  /\ frame # "closed" /\ Panels
  /\ view' = [view EXCEPT !.basemap = m]
  /\ UNCHANGED <<role, session, frame, chosen>>

Findings == Panels /\ Does(ShowFindings(view), "any")

Reset == Does(ResetView(view), "reset")

Clicks ==
  \/ \E b \in Served : ClickBuilding(b)
  \/ \E l \in Levels : ClickFloor(l) \/ ClickUnit(l)
  \/ \E p \in Pipes : ClickPipe(p)
  \/ \E r \in Roads : ClickRoad(r)
  \/ ClickComponent
  \/ \E e \in Entries : ClickEntry(e)
  \/ \E p \in Plots : ClickPlot(p)
  \/ ClickNothing

Controls ==
  \/ \E b \in Served : PickFromList(b)
  \/ \E p \in Plots : OpenPlot(p)
  \/ Back \/ ToggleGis2d \/ ToggleUnderground \/ Strata \/ ToggleServices \/ Toggle22A
  \/ \E l \in Levels : Ladder(l)
  \/ \E s \in Sites : ToggleSite(s)
  \/ \E on \in BOOLEAN : Explode(on) \/ Slice(on)
  \/ \E m \in Basemaps : ChooseBasemap(m)
  \/ Findings \/ Reset

Next == Open \/ Leave \/ Reload \/ Me \/ Frame \/ Clicks \/ Controls

Spec == Init /\ [][Next]_vars

-----------------------------------------------------------------------------
(* Properties *)

Deepest(v) ==
  IF v.unit # None THEN "unit" ELSE IF v.level # None THEN "floor"
  ELSE IF v.building # None THEN "building" ELSE "city"

\* "The store never holds a mode inconsistent with its selection"; explode, section
\* and 2D exclude one another; a cut has its building, a flat its building and level,
\* a component its open site; underground shows its services.
Coherent(v) ==
  /\ v.mode = IF v.gis2d THEN "city" ELSE Deepest(v)
  /\ v.unit # None => v.unit = <<v.building, v.level>>
  /\ v.level # None => v.building # None
  /\ v.component # None => v.component = v.site
  /\ ~(v.explode /\ v.slice) /\ ~(v.gis2d /\ (v.explode \/ v.slice))
  /\ v.explode \/ v.slice => v.building # None
  /\ v.underground => v.services

\* No setter and no sequence of clicks makes the store of url-state.ts:181
\* incoherent, but for four causes: a link opened on the store another viewer left,
\* a citizen framed while the 2D view is on, the 2D view left after its tree chose
\* the building it was entered with, and the layer switched off under the
\* underground view by hand.  No link leaves the underground view without its services
\* (store.ts:768, "an invariant stops being one") but one that names the layers itself.
CoherenceLostOnlyBy ==
  [][~Coherent(view') /\ Coherent(view) =>
       \/ \E link \in Links :
            OpenWith(link) /\ (view'.underground /\ ~view'.services => "services" \in DOMAIN link)
       \/ Frame /\ view.gis2d
       \/ view.gis2d /\ ~view'.gis2d /\ view'.building = view.pre.building
       \/ ToggleServices]_vars

Stack == {"building", "floor", "unit"}

\* The card is the one of the last choice (DetailPanel.tsx:662, :812): the card of a
\* 22A entry or a plot never masks what was chosen after it.  A component masks the
\* stack, which does not clear it; a pipe or a street masks only a change of level
\* or a step back; the underground view has the card of the area, and so has a step back
\* that ends without a building, from a link that named a level or a flat alone.
CardIsLastChoice ==
  \/ chosen \in {"any", "reset"} \/ (view.gis2d /\ chosen \notin {"plot", "entry"})
  \/ Card(view) = IF chosen = "up" THEN Deepest(view) ELSE chosen
  \/ chosen \in Stack \cup {"up"} /\ Card(view) = "component"
  \/ chosen \in {"floor", "up"} /\ Card(view) \in {"pipe", "road"}
  \/ chosen \in Stack \cup {"up"} /\ Card(view) = "area" /\ view.underground
  \/ chosen = "up" /\ view.building = None

\* "Reset has always meant city view and nothing selected" (lib/store.ts:788).
ResetShowsArea == chosen = "reset" => Card(view) = "area"

\* Outside the 2D view a reload restores what the address bar is meant to record, but
\* for services switched off under the underground view.
ReopenedSame ==
  ~view.gis2d =>
    LET r == Reopened(view)
    IN  /\ \A k \in Deliberate \cup {"overlay"} : r[k] = view[k]
        /\ Coherent(view) => r.mode = view.mode
        /\ r.services # view.services => view.underground
=============================================================================
