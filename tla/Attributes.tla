----------------------------- MODULE Attributes -----------------------------
(***************************************************************************)
(* What the first stages of a seed make of the mapped world: the rings of   *)
(* 01_fetch_osm.py, the ground of dem.py, the storeys and heights of        *)
(* 02_heights.py and the exposure of hazard.py.                             *)
(*                                                                         *)
(* Heights are in centimetres, the scripts' hash of an OSM id is a number   *)
(* r of hundredths, and a share or score is in thousandths.                 *)
(***************************************************************************)
EXTENDS Integers, Sequences, FiniteSets, FiniteSetsExt, SequencesExt

CONSTANT None   \* no tag, no cell, no answer

-----------------------------------------------------------------------------
(* 01_fetch_osm.py *)

\* overpass: mirrors in turn, both transports at each, until one has elements.
Asked(answers, mirrors, rounds) ==
  LET good == {k \in 1..Min({Len(answers), 2 * mirrors * rounds}) : answers[k] \notin {None, {}}}
  IN IF good = {} THEN None ELSE answers[Min(good)]

\* ring_from_geometry: closed, whether the line was or not.
Ring(line) ==
  LET ring == SelectSeq(line, LAMBDA p : p # None)
      closed == IF Len(ring) < 3 \/ Head(ring) = Last(ring) THEN ring ELSE Append(ring, Head(ring))
  IN IF Len(ring) < 3 \/ Len(closed) < 4 THEN None ELSE closed

\* polygons_to_geojson: of a relation the outer member of most points, the first of them.
Polygon(element) ==
  IF element.type = "way" THEN Ring(element.line)
  ELSE IF element.type # "relation" THEN None
  ELSE LET rings == [k \in DOMAIN element.members |->
                       IF element.members[k].role = "outer" THEN Ring(element.members[k].line) ELSE None]
           some == {k \in DOMAIN rings : rings[k] # None}
           most == {k \in some : \A l \in some : Len(rings[l]) <= Len(rings[k])}
       IN IF most = {} THEN None ELSE rings[Min(most)]

-----------------------------------------------------------------------------
(* dem.py.  A raster is a function from places to heights above the ellipsoid. *)

Void == -3276800   \* CartoDEM's nodata
Lowest == -100000  \* "nothing on Earth is < -1000"

\* Sampler.__init__: the project's raster, else the shared one, if a tool can read it.
Opened(own, shared, tools) ==
  LET file == IF own # None THEN own ELSE shared
  IN IF file = None \/ tools \cap {"rasterio", "gdallocationinfo"} = {} THEN None ELSE file

\* Sampler.sample: above the sea, or nothing off the raster and in a void.
Sample(raster, separation, place) ==
  IF raster = None \/ place \notin DOMAIN raster THEN None
  ELSE IF raster[place] = Void \/ raster[place] <= Lowest THEN None
  ELSE raster[place] - separation

-----------------------------------------------------------------------------
(* 02_heights.py *)

FloorHeight == 320
DefaultGround == 1200

Uses == {"residential", "commercial", "institutional", "industrial"}

\* classify: the building's own tag, else the four others in their order; any shop and
\* any office is commercial.
Classified(tags, useMap) ==
  LET keys == <<"building", "amenity", "shop", "office", "tourism">>
      use(k) == IF tags[k] \in DOMAIN useMap THEN useMap[tags[k]]
                ELSE IF k \in {"shop", "office"} /\ tags[k] # None THEN "commercial" ELSE None
      hits == SelectSeq([i \in 1..5 |-> use(keys[i])], LAMBDA u : u # None)
  IN IF hits = <<>> THEN "residential" ELSE Head(hits)

\* The ceilings of area of each use, and the storeys under them and above the last.
Bands ==
  [residential   |-> <<<<60, 120, 260, 600, 1200>>, <<1, 2, 3, 5, 7, 9>>>>,
   commercial    |-> <<<<150, 400, 1000, 2500>>, <<2, 3, 5, 8, 11>>>>,
   institutional |-> <<<<300, 900, 2500>>, <<2, 3, 4, 6>>>>,
   industrial    |-> <<<<400, 1500>>, <<1, 2, 3>>>>]

EstimateStoreys(use, area, r) ==
  LET ceilings == Bands[use][1]
      above == Cardinality({k \in DOMAIN ceilings : area >= ceilings[k]})
      swing == IF r < 22 THEN -1 ELSE IF r > 78 THEN 1 ELSE 0
  IN Max({1, Bands[use][2][above + 1] + swing})

BasementCount(use, floors, r) ==
  CASE use = "commercial" /\ floors >= 3    -> IF r > 60 THEN 2 ELSE 1
    [] use = "residential" /\ floors >= 6   -> IF r > 45 THEN 1 ELSE 0
    [] use = "institutional" /\ floors >= 3 -> IF r > 70 THEN 1 ELSE 0
    [] OTHER                                -> 0

\* round(h / FLOOR_HEIGHT), a half to the even neighbour.
Rounded(h) ==
  LET q == h \div FloorHeight rest == 2 * (h % FloorHeight)
  IN IF rest > FloorHeight \/ (rest = FloorHeight /\ q % 2 = 1) THEN q + 1 ELSE q

\* The storeys, the height and their source: the register, the levels, the height, a guess.
Storeys(b, survey) ==
  IF b.osm_id \in DOMAIN survey
  THEN [floors |-> survey[b.osm_id], height |-> survey[b.osm_id] * FloorHeight, source |-> "surveyed_plan"]
  ELSE IF b.levels # None /\ b.levels \in 1..100
  THEN [floors |-> b.levels, source |-> "osm_tag",
        height |-> IF b.height # None /\ b.height > 200 THEN b.height ELSE b.levels * FloorHeight]
  ELSE IF b.height # None /\ b.height \in 200..40000
  THEN [floors |-> Max({1, Rounded(b.height)}), height |-> b.height, source |-> "osm_tag"]
  ELSE LET n == EstimateStoreys(b.use, b.area, b.storey)
       IN [floors |-> n, height |-> n * FloorHeight, source |-> "estimated"]

Attributed(b, survey, sampled) ==
  LET s == Storeys(b, survey)
  IN [osm_id |-> b.osm_id, use |-> b.use, area |-> b.area, floors |-> s.floors, height |-> s.height,
      source |-> s.source, basements |-> BasementCount(b.use, s.floors, b.base),
      ground |-> IF sampled = None THEN DefaultGround ELSE sampled,
      groundSource |-> IF sampled = None THEN "placeholder" ELSE "dsm_dem"]

\* The project's provenance: one sampled building is enough.
ElevSource(buildings) ==
  IF \E b \in buildings : b.groundSource = "dsm_dem" THEN "cartodem_v3" ELSE "placeholder"

-----------------------------------------------------------------------------
(* hazard.py *)

Risks == <<"low", "moderate", "high", "severe">>

RiskOf(score) ==
  Risks[1 + Cardinality({k \in 1..3 : score >= <<350, 500, 650>>[k]})]

Norm(v, lo, hi) == Min({1000, Max({0, ((v - lo) * 1000) \div (hi - lo)})})

\* numpy's percentile 20, between the two neighbours in rank.
LocalFloor(grounds) ==
  LET s == SortSeq(grounds, <) k == 2 * (Len(s) - 1)
  IN s[k \div 10 + 1] + (IF k % 10 = 0 THEN 0 ELSE ((s[k \div 10 + 2] - s[k \div 10 + 1]) * (k % 10)) \div 10)

\* sea_points: every cell below the sea, "a void in the ocean is still ocean".
SeaCells(raw, separation) ==
  {q \in DOMAIN raw : raw[q] < separation - 100 \/ raw[q] = Void}

\* ground, relief and height in centimetres; coast in metres, None with no sea in range.
FloodScore(ground, relief, coast) ==
  LET low == 1000 - Norm(ground, 1000, 7000)
      hollow == 1000 - Norm(relief, 0, 1200)
  IN IF coast = None THEN (53 * low + 47 * hollow) \div 100
     ELSE (45 * low + 40 * hollow + 15 * (1000 - Norm(coast, 350, 1900))) \div 100

CycloneScore(relief, height, coast) ==
  LET exposure == Norm(relief, -200, 1200)
      tall == Norm(height, 300, 3000)
  IN IF coast = None THEN (60 * exposure + 40 * tall) \div 100
     ELSE (50 * (1000 - Norm(coast, 350, 1900)) + 30 * exposure + 20 * tall) \div 100

\* main and compute: nothing without a DEM, and every building with one.
Exposure(buildings, near, coast) ==
  IF ElevSource(buildings) = "placeholder" THEN <<>>
  ELSE [b \in buildings |->
         LET relief == b.ground - LocalFloor(near[b])
         IN [flood |-> RiskOf(FloodScore(b.ground, relief, coast[b])),
             cyclone |-> RiskOf(CycloneScore(relief, b.height, coast[b]))]]
=============================================================================
