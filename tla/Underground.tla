----------------------------- MODULE Underground ----------------------------
(***************************************************************************)
(* Where what is below and above the ground is drawn: the display taxonomy *)
(* and the layout of buried runs (lib/underground), the field of terrain   *)
(* heights under them, and the placing of stations and flyovers            *)
(* (lib/infra/build.ts).  Lengths and heights are in decimetres.           *)
(***************************************************************************)
EXTENDS Rings

CONSTANTS None

-----------------------------------------------------------------------------
(* categories.ts *)

Layer(low, high, nominal, lane, clearance) ==
  [low |-> low, high |-> high, nominal |-> nominal, lane |-> lane, clearance |-> clearance]

UndergroundLayers ==
  [telecom     |-> Layer(-9, -5, -7, 80, 3),
   electrical  |-> Layer(-14, -10, -12, 55, 3),
   water       |-> Layer(-20, -15, -18, -30, 4),
   drainage    |-> Layer(-28, -22, -24, 25, 4),
   sewer       |-> Layer(-44, -30, -34, -90, 25),
   foundations |-> Layer(-120, -45, -60, 0, 8)]

UndergroundOrder == <<"telecom", "electrical", "water", "drainage", "sewer", "foundations">>

\* None for metro, and for what this build does not know.
CategoryOfAssetType(asset) ==
  CASE asset = "power"      -> "electrical"
    [] asset = "foundation" -> "foundations"
    [] asset \in DOMAIN UndergroundLayers -> asset
    [] OTHER -> None

-----------------------------------------------------------------------------
(* layout.ts *)

DepthsOf(features, key) ==
  LET runs == SelectSeq(features, LAMBDA f : CategoryOfAssetType(f.asset) = key /\ f.depth # None)
  IN SortSeq([i \in DOMAIN runs |-> runs[i].depth], <)

Median(s) == s[Len(s) \div 2 + 1]

\* Down to clear the ceiling, not past the floor of the band, unless the data is deeper.
Resolved(key, want, ceiling) ==
  LET layer == UndergroundLayers[key]
  IN Max({Min({layer.low, want}), Min({want, ceiling - layer.clearance})})

\* resolveCategoryDepths: shallowest first, each the ceiling of the next that has runs.
ResolveCategoryDepths(features) ==
  LET step(acc, key) ==
        LET depths == DepthsOf(features, key)
            want == Median(depths)
            at == Resolved(key, want, acc.ceiling)
        IN IF depths = <<>> THEN [acc EXCEPT !.out = @ @@ (key :> 0)]
           ELSE [out |-> acc.out @@ (key :> at - want), ceiling |-> at]
  IN FoldLeft(step, [out |-> <<>>, ceiling |-> 0], UndergroundOrder).out

\* offsetPolyline, of a line along an axis: every vertex to the right of the way there,
\* a riser's vertices with the last way taken.
Direction(coords, i) ==
  LET prev == coords[Max({1, i - 1})] next == coords[Min({Len(coords), i + 1})]
  IN <<Sign(next[1] - prev[1]), Sign(next[2] - prev[2])>>

OffsetPolyline(coords, metres) ==
  LET turned(i) == {j \in 1..i : Direction(coords, j) # <<0, 0>>}
      way(i) == IF turned(i) = {} THEN <<1, 0>> ELSE Direction(coords, Max(turned(i)))
  IN [i \in DOMAIN coords |->
       <<coords[i][1] + way(i)[2] * metres, coords[i][2] - way(i)[1] * metres>>]

\* layoutRun: the run hung off the ground under it, or off its building's.
LayoutRun(run, field, adjust, buildingGround) ==
  LET category == CategoryOfAssetType(run.asset)
      layer == UndergroundLayers[category]
      recorded == IF run.depth # None THEN run.depth ELSE layer.nominal
      depth == Min({0, recorded})
      own == IF run.building # None THEN buildingGround[run.building] ELSE None
      hasZ == run.coordinates[1][3] # None
      stored == IF own # None THEN own.stored
                ELSE IF hasZ THEN run.coordinates[1][3] - depth ELSE 0
      offset == OffsetPolyline(run.coordinates, layer.lane)
      z(c) == IF hasZ /\ c[3] # None THEN c[3] ELSE stored + depth
      display == [i \in DOMAIN run.coordinates |->
                   offset[i] \o <<(IF own # None THEN own.terrain ELSE field[offset[i]])
                                    + (z(run.coordinates[i]) - stored) + adjust[category]>>]
  IN IF category = None \/ run.coordinates = <<>> THEN None
     ELSE [category |-> category, geometry |-> PlanRun(display),
           trueDepth |-> recorded, displayDepth |-> recorded + adjust[category],
           lateral |-> layer.lane, displaced |-> adjust[category] # 0]

-----------------------------------------------------------------------------
(* ground-field.ts, use-ground-field.ts, terrain.ts: heights at the nodes of a grid n wide. *)
(* A place is given in parts of a step, Part to each, and a height comes back in square     *)
(* parts of a decimetre. *)

Part == 4

Pad == 1100

\* gridNFor: a node to every 25 metres, within bounds; the fewest if there is no span.
GridN(span) == IF span <= 0 THEN 16 ELSE Min({64, Max({16, (2 * span + 25) \div 50 + 1})})

\* sampleGroundHeights: zero everywhere on an ellipsoid and wherever a sample is no number;
\* nothing once both ways of sampling have failed.
GroundHeights(places, provider) ==
  CASE provider.ellipsoid -> [q \in places |-> 0]
    [] provider.fails     -> <<>>
    [] OTHER -> [q \in places |-> IF provider.heights[q] = None THEN 0 ELSE provider.heights[q]]

\* sampleGroundField: one height everywhere if there are no samples.
Sampled(n, provider, fallback) ==
  LET nodes == (0..(n - 1)) \X (0..(n - 1))
      map == GroundHeights(nodes, provider)
  IN IF map = <<>> THEN [q \in nodes |-> fallback] ELSE map

\* groundFieldFor: one field for a viewer, a box and a fallback, sampled when it is first
\* asked for; sampling never rejects, so it is kept whatever came of it.
FieldFor(cache, key, field) == IF key \in DOMAIN cache THEN cache ELSE cache @@ (key :> field)

\* toSceneZ, datumShift and the height TopologyLayer marks a finding at.
SceneZ(z, stored, terrain) == IF terrain = None THEN z ELSE terrain + (z - stored)

DatumShift(grounds, samples) ==
  LET mean(s) == Total(s) \div Len(s)
  IN IF grounds = <<>> \/ samples = <<>> THEN 0 ELSE mean(samples) - mean(grounds)

MarkZ(finding, grounds, samples) == finding.z + DatumShift(grounds, samples)

\* fieldBboxFor: the box about the project and everything drawn, with a margin.
FieldBbox(bbox, places) ==
  LET seen == places \cup (IF bbox = None THEN {} ELSE {<<bbox.west, bbox.south>>, <<bbox.east, bbox.north>>})
      b == Box(SetToSeq(seen))
  IN IF seen = {} \/ b.east <= b.west \/ b.north <= b.south THEN None
     ELSE [west |-> b.west - Pad, south |-> b.south - Pad, east |-> b.east + Pad, north |-> b.north + Pad]

UnionBbox(a, b) ==
  CASE a = None -> b
    [] b = None -> a
    [] OTHER -> [west |-> Min({a.west, b.west}), south |-> Min({a.south, b.south}),
                 east |-> Max({a.east, b.east}), north |-> Max({a.north, b.north})]

\* Clamped to the box, and between the four nodes about it.
HeightAt(h, n, p) ==
  LET f(k) == Min({(n - 1) * Part, Max({0, p[k]})})
      low(k) == f(k) \div Part
      high(k) == Min({n - 1, low(k) + 1})
      t(k) == f(k) % Part
      along(row) == h[<<low(1), row>>] * Part + (h[<<high(1), row>>] - h[<<low(1), row>>]) * t(1)
  IN along(low(2)) * Part + (along(high(2)) - along(low(2))) * t(2)

-----------------------------------------------------------------------------
(* infra/build.ts: a component has a kind, a shape, a base and a height, and a half width *)
(* if it is a strip; ground is a datum and the heights of all places *)

SurfaceKinds == {"road", "parking", "junction"}
GroundedKinds == {"pillar"}
PlinthKinds == {"platform", "track", "station_building", "concourse", "entrance"}
PlinthEmbed == 4

GroundUnder(ring, ground) ==
  LET hs == {ground.heights[p] : p \in ToSet(ring)} IN [lo |-> Min(hs), hi |-> Max(hs)]

BoxRing(at, w, d) ==
  Close(<<<<at[1] - w, at[2] - d>>, <<at[1] + w, at[2] - d>>, <<at[1] + w, at[2] + d>>, <<at[1] - w, at[2] + d>>>>)

\* stripQuad, of a segment along an axis.
StripQuad(a, b, half) ==
  LET nx == Sign(b[2] - a[2]) * half ny == -Sign(b[1] - a[1]) * half
  IN Close(<<<<a[1] + nx, a[2] + ny>>, <<b[1] + nx, b[2] + ny>>, <<b[1] - nx, b[2] - ny>>, <<a[1] - nx, a[2] - ny>>>>)

Shifted(p, by) == <<p[1] + by[1], p[2] + by[2]>>

\* A solid of a component: its ring, and the levels of its bottom and top.
Solid(ring, low, high) == [ring |-> ring, low |-> low, high |-> high]

PlacedBox(c, by, base, ground) ==
  LET ring == BoxRing(Shifted(c.at, by), c.w, c.d)
      g == GroundUnder(ring, ground)
      bottom == ground.datum + base
  IN CASE c.kind \in SurfaceKinds -> Solid(ring, g.lo + base - PlinthEmbed, g.hi + base + c.height)
       [] c.kind \in PlinthKinds -> Solid(ring, Min({bottom, g.lo - PlinthEmbed}), bottom + c.height)
       [] OTHER -> Solid(ring, bottom, bottom + c.height)

\* Segment i of a strip, at the mean of the grades at its ends.
PlacedStrip(c, by, base, ground, i) ==
  LET a == Shifted(c.points[i], by) b == Shifted(c.points[i + 1], by)
      ring == StripQuad(a, b, c.half)
      mid == IF c.grade = None THEN 0 ELSE (c.grade[i] + c.grade[i + 1]) \div 2
      at == <<(a[1] + b[1]) \div 2, (a[2] + b[2]) \div 2>>
      z == IF c.kind \in SurfaceKinds THEN ground.heights[at] ELSE ground.datum
      bottom == z + base + mid
  IN Solid(ring, IF c.kind \in PlinthKinds THEN Min({bottom, GroundUnder(ring, ground).lo - PlinthEmbed}) ELSE bottom,
           bottom + c.height)

\* From what it carries down to the lower of its level and the ground.
PlacedColumn(c, by, base, ground) ==
  LET at == Shifted(c.at, by)
      foot == IF c.kind \in GroundedKinds THEN Min({ground.datum + base, ground.heights[at] + base})
              ELSE ground.datum + base
  IN [at |-> at, low |-> foot, tall |-> Max({5, ground.datum + base + c.height - foot})]

\* placeOne; <<>> for a strip with no segment.
PlaceOne(c, by, ground, pickId) ==
  LET base == c.base + by[3]
      placed(solids, columns) == <<[kind |-> c.kind, pickId |-> pickId, solids |-> solids, columns |-> columns]>>
  IN CASE c.shape = "cylinder" -> placed(<<>>, <<PlacedColumn(c, by, base, ground)>>)
       [] c.shape = "box"      -> placed(<<PlacedBox(c, by, base, ground)>>, <<>>)
       [] Len(c.points) < 2    -> <<>>
       [] OTHER -> placed([i \in 1..(Len(c.points) - 1) |-> PlacedStrip(c, by, base, ground, i)], <<>>)

\* placeSite: every component as often as it repeats, each with the next handle.
PlaceSite(spec, ground, startPickId) ==
  LET all == FlattenSeq([k \in DOMAIN spec |->
               [i \in 1..Max({1, spec[k].count}) |->
                 [c |-> spec[k], by |-> [d \in 1..3 |-> spec[k].step[d] * (i - 1)]]]])
  IN FoldLeft(LAMBDA out, r : out \o PlaceOne(r.c, r.by, ground, startPickId + Len(out)), <<>>, all)

\* structuralDatum: the highest ground under a corner of what must share one level.
StructuralDatum(spec, heights, anchor) ==
  LET probe == PlaceSite(spec, [datum |-> 0, heights |-> heights], 1)
      structure == {c \in ToSet(probe) : c.kind \notin SurfaceKinds \cup GroundedKinds}
      under == UNION {UNION {ToSet(s.ring) : s \in ToSet(c.solids)} \cup {p.at : p \in ToSet(c.columns)} :
                        c \in structure}
  IN IF under = {} THEN heights[anchor] ELSE Max({heights[p] : p \in under})
=============================================================================
