------------------------------- MODULE Layers -------------------------------
(***************************************************************************)
(* What the globe draws for a state of the view store, and what a click on *)
(* it means: the show conditions of the layers under components/layers,    *)
(* which are written apart from one another and have to fit together, and  *)
(* the choice between the things one ray passes through in                 *)
(* components/globe/Picker.tsx.                                            *)
(*                                                                         *)
(* v is the view store (see ViewStore) and on the layers of the Layers     *)
(* panel that no other setter writes.  The documents are taken as fetched  *)
(* and the fades as settled; a section plane is taken as leaving something *)
(* of every level.                                                         *)
(***************************************************************************)
EXTENDS Integers, SequencesExt

CONSTANT None

\* layers.buildings, floors, roads and parcels, all on; switching one off only takes
\* things away.
All == [k \in {"buildings", "floors", "roads", "parcels"} |-> TRUE]

-----------------------------------------------------------------------------
(* The building: prism, model, stack *)

\* The prism of the active building gives way to its model or its stack; a citizen
\* keeps it as a translucent shell.
ActiveHidden(v, b) == v.mode # "city" /\ v.building = b

WallShown(v, on, b, citizen) ==
  on.buildings /\ ~v.gis2d /\ (ActiveHidden(v, b) => citizen)

CapShown(v, on, b) == on.buildings /\ ~v.gis2d /\ ~ActiveHidden(v, b)

ModelShown(v) == v.building # None /\ v.mode = "building" /\ ~v.slice

\* The document of the building is asked for outside the city mode only.
Built(v) == v.building # None /\ v.mode # "city"

StackShown(v, on) ==
  /\ Built(v) /\ on.floors
  /\ v.mode \in {"floor", "unit"} \/ (v.mode = "building" /\ v.slice)

SlabShown(v, on, l) ==
  StackShown(v, on) /\ ~(v.underground /\ l >= 0) /\ v.level \in {None, l}

\* A basement that is isolated is drawn above the ground.
Lifted(v, l) == l < 0 /\ v.level = l /\ ~v.underground

Isolated(v, l) == v.level = l /\ (l < 0 => Lifted(v, l))

ShellShown(v, on, l) == StackShown(v, on) /\ ~v.underground /\ Isolated(v, l)

GroundRingShown(v, on) ==
  StackShown(v, on) /\ ~v.underground /\ v.level # None /\ v.level < 0

\* The rim, and the tie-line with its caption, do not ask for layers.floors.
RimShown(v, l) == Built(v) /\ Isolated(v, l)
TieShown(v, l) == Built(v) /\ Lifted(v, l)

-----------------------------------------------------------------------------
(* The flats *)

\* Mutant of FlatsUp: the flats fade when one of them is chosen.
FlatsUpUntilChosen(v, on) ==
  /\ on.floors
  /\ \/ v.underground
     \/ v.slice /\ v.mode # "city"
     \/ v.mode = "floor" /\ v.level # None
     \/ v.mode = "building" /\ v.explode

\* opacityFor, settled; exploded stands for a slider past EXPLODE_UNITS_IN.
FlatsUp(v, on) ==
  /\ on.floors
  /\ \/ v.underground
     \/ v.slice /\ v.mode # "city"
     \/ v.mode \in {"floor", "unit"} /\ v.level # None
     \/ v.mode = "building" /\ v.explode

FlatShown(v, on, l) ==
  /\ Built(v) /\ FlatsUp(v, on)
  /\ IF v.underground THEN l < 0
     ELSE IF v.mode = "building" \/ (v.slice /\ v.level = None) THEN l >= 0
     ELSE v.level = l

-----------------------------------------------------------------------------
(* Services, streets, plots, the site, the findings *)

\* Mutant of PipesShown: drawn in the 2D view.
PipesShownOnPlan(v) == v.services /\ v.stratum

PipesShown(v) == v.services /\ v.stratum /\ ~v.gis2d

\* The basements of the foundations category, tagged as their building.
FoundationsShown(v) == v.services /\ ~v.gis2d

\* The selected run is drawn by a component of its own, which does not ask for gis2d.
HighlightShown(v) == v.pipe # None /\ v.services /\ v.stratum

StreetsShown(v, on) == on.roads /\ ~v.gis2d

ParcelsShown(v, on) == on.parcels /\ ~v.gis2d

PlotsShown(v) == v.gis2d

EntriesShown(v) == v.overlay

SiteShown(v) == v.site # None /\ ~v.gis2d

FindingsShown(v) == ~v.gis2d

-----------------------------------------------------------------------------
(* The ray under the cursor *)

\* Kinds of tag; "mesh" is what carries none, as Google's tiles.
Solids == {"building", "floor", "pipe", "component"}
Kinds == Solids \cup {"unit", "road", "entry", "parcel", "plot", "mesh"}

DRILL_LIMIT == 6

Drilled(ray) == SubSeq(ray, 1, IF Len(ray) < DRILL_LIMIT THEN Len(ray) ELSE DRILL_LIMIT)

\* The first of a tier along the ray.
Shallowest(ray, tier) ==
  LET hits == SelectSeq(Drilled(ray), LAMBDA k : k \in tier)
  IN  IF hits = << >> THEN None ELSE Head(hits)

\* A plan answers with the register that put a marking there, else with the plot.
PickOnPlan(ray) ==
  IF Shallowest(ray, {"entry"}) # None THEN "entry" ELSE Shallowest(ray, {"plot"})

\* A unit wins over what is in front of it, a solid over what is draped, and in the
\* city mode a tagged solid in front is the answer at once.
PickInScene(ray, unitsPossible) ==
  IF ray = << >> THEN None
  ELSE IF Head(ray) = "unit" \/ (~unitsPossible /\ Head(ray) \in Solids \cup {"plot"})
    THEN Head(ray)
  ELSE LET tiers == <<{"unit"}, Solids \cup {"plot"}, {"road"}, {"entry"}, {"parcel"}>>
           answers == SelectSeq([i \in 1..5 |-> Shallowest(ray, tiers[i])],
                                LAMBDA k : k # None)
       IN  IF answers = << >> THEN None ELSE Head(answers)

PickTag(ray, unitsPossible, gis2d) ==
  IF gis2d THEN PickOnPlan(ray) ELSE PickInScene(ray, unitsPossible)
=============================================================================
