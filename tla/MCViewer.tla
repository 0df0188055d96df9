------------------------------ MODULE MCViewer ------------------------------
(***************************************************************************)
(* Three parts of an open viewer that share nothing the model tells apart: *)
(* the view with its camera (Globe), the form of a building (EditSession)  *)
(* and the buildings in the scene (Scene).  A run follows one of them, and *)
(* the others stay as they began.                                          *)
(*                                                                         *)
(* Two buildings of a storey and a basement with one flat on each level,   *)
(* one of everything else; two projects.                                   *)
(***************************************************************************)
EXTENDS Globe, FiniteSets

CONSTANTS Projects,
          Fields, MaxTouched,               \* of EditSession
          Count, First, Heights, MaxVisits  \* of Scene

VARIABLES page, shown, edit, request, about,
          visits, open, retries, store, server, near, far, visible

Form == INSTANCE EditSession

World == INSTANCE Scene

ASSUME FormAssumption == Form!SessionConstants

ASSUME SceneAssumption == World!SceneConstants

formVars == <<page, shown, edit, request, about>>
sceneVars == <<visits, open, retries, store, server, near, far, visible>>
viewerVars == <<globeVars, formVars, sceneVars>>

ViewOnly ==
  /\ Form!Init /\ World!Init /\ GlobeInit
  /\ [][GlobeNext /\ UNCHANGED <<formVars, sceneVars>>]_viewerVars

FormOnly ==
  /\ GlobeInit /\ role = "gov" /\ World!Init /\ Form!Init
  /\ [][Form!Next /\ UNCHANGED <<globeVars, sceneVars>>]_viewerVars

SceneOnly ==
  /\ GlobeInit /\ role = "gov" /\ Form!Init /\ World!Init
  /\ [][World!Next /\ UNCHANGED <<globeVars, formVars>>]_viewerVars
  /\ World!Fairness

-----------------------------------------------------------------------------
(* The properties of the form and of the scene *)

\* What was typed into the form is there until the user cancels, discards or reloads, or
\* until the server has recorded that very value.
DraftLostOnlyBy == Form!DraftLostOnlyBy

\* "Your changes have been kept" is true while it is shown.
KeptAsSaid == Form!KeptAsSaid

\* What is drawn is what the store holds, in the near tier and in the far one.
DrawnAsStored == World!DrawnAsStored

\* The scene of a ready viewer is built from its own project, but for the causes named.
ForeignOnlyAfterFailure == World!ForeignOnlyAfterFailure

\* The overlay "Loading cadastre" never stays.
OverlayEnds == World!OverlayEnds

-----------------------------------------------------------------------------
(* The view: its bounds *)

CONSTANTS b1, b2

MCLevels == {-1, 1}

MCHome == <<b1, 1>>

\* A building without a height.
MCUnposable == {<<"building", b2>>}

\* The bare path of a gallery link, the underground view, with the layers named and
\* without, a link to a building and to a flat, and to a level and a flat of none.
MCLinks == {[k \in {} |-> None], [k \in {"building"} |-> b2],
            [k \in {"level"} |-> 1], [k \in {"unit"} |-> <<b1, 1>>],
            [k \in {"underground"} |-> TRUE],
            [k \in {"underground", "services", "overlay"} |-> k = "underground"],
            [k \in {"building", "level", "unit"} |->
               IF k = "building" THEN b1 ELSE IF k = "level" THEN 1 ELSE <<b1, 1>>]}

\* At most one of these away from its default at a time, beside the 2D view; a site and
\* a cut (the explosion or the section) also under the underground view.  Levels are
\* opened in one of the two buildings only, and the cache holds one document.
Settings ==
  {k \in {"services", "overlay", "stratum", "site", "basemap", "underground", "cut"} :
     CASE k = "services" -> view.services /\ ~view.underground
       [] k = "stratum" -> ~view.stratum
       [] k = "site" -> view.site # None
       [] k = "basemap" -> (IF view.gis2d THEN view.pre.basemap ELSE view.basemap) = "street"
       [] k = "cut" -> view.explode \/ view.slice
       [] OTHER -> view[k]}

\* While data is still to arrive only the ladder, the site, the underground view and the
\* 2D view are followed.
Plain ==
  /\ Settings \subseteq {"site", "underground"}
  /\ \A k \in {"pipe", "road", "component", "plot", "entry"} : view[k] = None
  /\ role = "citizen" => Settings = {} /\ ~view.gis2d

Arrived == data = [buildings |-> Buildings, sites |-> Sites, detail |-> {b1}]

\* A link has left a level or a flat without its building, or a flat without its level.
Alone ==
  \/ view.building = None /\ (view.mode # "city" \/ view.level # None \/ view.unit # None)
  \/ view.level = None /\ view.unit # None

\* The index of sites comes before the documents; before a citizen's session is known, or
\* when it has failed, less is followed, and after such a link no setting is.
FewSettings ==
  /\ data.buildings \in {{}, Buildings} /\ data.detail # Buildings
  /\ data.sites = {} => data.detail = {}
  /\ view.building = b2 => view.level = None /\ view.unit = None
  /\ Plain \/ (Arrived /\ (ready \/ chosen = "any"))
  /\ role = "citizen" /\ frame = "idle" => Plain
  /\ role = "citizen" /\ frame = "asking" => Settings \subseteq {"overlay", "services"}
  /\ Alone => role = "gov" /\ Arrived /\ Plain /\ Settings = {}
  /\ \/ Cardinality(Settings) <= 1
     \/ \E k \in {"site", "cut"} : Settings = {k, "underground"}

-----------------------------------------------------------------------------
(* The choice along a ray, over every ray of up to four things *)

Rays == UNION {[1..n -> {"building", "unit", "road", "entry", "parcel", "mesh"}] : n \in 0..4}

\* Where no flat can be under the cursor, the hover that stops at a tagged solid in
\* front (Picker.tsx:229) answers as the click that drills.
ASSUME FastPathAgrees ==
  \A ray \in Rays :
    "unit" \notin Range(ray) => PickTag(ray, FALSE, FALSE) = PickTag(ray, TRUE, FALSE)

\* What is draped answers only when nothing solid is under the cursor, and a flat is
\* never hidden by what is in front of it.
ASSUME DrapedLast ==
  \A ray \in Rays :
    LET hit == PickTag(ray, TRUE, FALSE)
    IN  /\ hit \in {"road", "entry", "parcel"} => Range(ray) \cap {"unit", "building"} = {}
        /\ "unit" \in Range(ray) => hit = "unit"
        /\ hit = None <=> Range(ray) \subseteq {"mesh"}

\* Behind six other things even a flat is out of reach (DRILL_LIMIT).
ASSUME DrillEnds ==
  PickTag([i \in 1..7 |-> IF i = 7 THEN "unit" ELSE "floor"], TRUE, FALSE) = "floor"
=============================================================================
