------------------------------ MODULE Topology ------------------------------
(***************************************************************************)
(* Which volumes of a project meet, and which come too close: the prism    *)
(* arithmetic of lib/topology.ts, the two backends of getTopology and the  *)
(* two of queryPoint in lib/db.ts.                                         *)
(*                                                                         *)
(* A position is <<lon, lat>> in steps of one grid, LonM metres long in    *)
(* longitude and LatM in latitude; heights are whole metres.  Distances    *)
(* are roots, so they are kept squared, as fractions <<n, d>>.             *)
(***************************************************************************)
EXTENDS Rings

CONSTANTS None, LonM, LatM

-----------------------------------------------------------------------------
(* lib/topology.ts: rings and prisms *)

\* toMetric: the corners in metres, without the one that closes the ring.
ToMetric(ring) ==
  LET open == IF Len(ring) > 1 /\ ring[1] = Last(ring) THEN Front(ring) ELSE ring
  IN [i \in DOMAIN open |-> <<open[i][1] * LonM, open[i][2] * LatM>>]

RingGap2(ringA, ringB) ==
  LET A == ToMetric(ringA) B == ToMetric(ringB)
  IN CASE Len(A) < 2 \/ Len(B) < 2 -> Infinity
       [] \E e \in Edges(A), f \in Edges(B) : SegmentsCross(e, f) -> <<0, 1>>
       [] Encloses(B, A[1]) \/ Encloses(A, B[1]) -> <<0, 1>>
       [] OTHER -> Least({Nearest(ToSet(A), Edges(B)), Nearest(ToSet(B), Edges(A))})

PolylineGap2(line, ring) ==
  LET L == ToMetric(line) R == ToMetric(ring)
  IN CASE L = <<>> \/ Len(R) < 3 -> Infinity
       [] \E p \in ToSet(L) : Encloses(R, p) -> <<0, 1>>
       [] \E e \in Segments(L), f \in Edges(R) : SegmentsCross(e, f) -> <<0, 1>>
       [] OTHER -> Least({Nearest(ToSet(L), Edges(R)), Nearest(ToSet(R), Segments(L))})

ZGap(a, b) ==
  IF a.low <= b.high /\ b.low <= a.high THEN 0
  ELSE IF a.low > b.high THEN a.low - b.high ELSE b.low - a.high

PrismsIntersect(a, b) == ZGap(a, b) = 0 /\ RingGap2(a.ring, b.ring)[1] = 0

RingBbox(ring) ==
  LET xs == {p[1] : p \in ToSet(ring)} ys == {p[2] : p \in ToSet(ring)}
  IN <<Min(xs), Min(ys), Max(xs), Max(ys)>>

\* The pad is metres, turned into degrees by the length of one of latitude.
BboxNear(a, b, pad) ==
  /\ a[3] * LatM + pad >= b[1] * LatM /\ b[3] * LatM + pad >= a[1] * LatM
  /\ a[4] * LatM + pad >= b[2] * LatM /\ b[4] * LatM + pad >= a[2] * LatM

-----------------------------------------------------------------------------
(* lib/topology.ts: detection *)

\* A run's own heights where its line has them, its depth under a datum where not.
RunZRange(run, ground) ==
  LET zs == {IF c[3] # None THEN c[3] ELSE ground + run.depth : c \in ToSet(run.line)}
  IN [low |-> Min(zs) - run.radius, high |-> Max(zs) + run.radius]

\* sqrt(h^2 + v^2) < c, where h is max(0, g - r) and g2 the square of g.
Closer(g2, r, v, c) ==
  LET k == Square(r) + Square(v) - Square(c)
      lhs == g2[1] + k * g2[2]
  IN IF g2[1] <= Square(r) * g2[2] THEN v < c
     ELSE lhs < 0 \/ Square(lhs) < 4 * Square(r) * g2[1] * g2[2]

Through(vol) == IF vol.kind = "parking" THEN "utility_through_parking" ELSE "utility_through_basement"

Finding(kind, a, b) == [kind |-> kind, a |-> a, b |-> b]

\* What a pair comes to, given its gaps.
Graded(run, vol, g2, v, clearance) ==
  CASE g2[1] <= Square(run.radius) * g2[2] /\ v = 0 -> {Finding(Through(vol), run.id, vol.id)}
    [] clearance # None /\ Closer(g2, run.radius, v, clearance) ->
         {Finding("clearance_breach", run.id, vol.id)}
    [] OTHER -> {}

Own(run, vol) == run.building # None /\ run.building = vol.building

AirRights(decks, envelopes) ==
  {Finding("airspace_encroachment", pair[1].id, pair[2].id) :
     pair \in {q \in decks \X envelopes :
       /\ BboxNear(RingBbox(q[1].ring), RingBbox(q[2].ring), 2)
       /\ PrismsIntersect(q[1], q[2])}}

\* detectClashes, its air rights apart.
Detected(runs, volumes, ground, clearanceOf) ==
  UNION {LET range == RunZRange(run, ground)
             clearance == clearanceOf[run.asset]
             pad == run.radius + (IF clearance = None THEN 0 ELSE clearance) + 1
         IN UNION {Graded(run, vol, PolylineGap2(run.line, vol.ring), ZGap(range, vol), clearance) :
                     vol \in {v \in volumes : /\ ~Own(run, v)
                                              /\ BboxNear(RingBbox(run.line), RingBbox(v.ring), pad)}} :
           run \in {r \in runs : r.line # <<>>}}

-----------------------------------------------------------------------------
(* lib/db.ts: getTopology *)

Mean(S, of) == MapThenSumSet(LAMBDA b : of[b], S) \div Cardinality(S)

\* The datum the snapshot gives runs without heights, 12 m if no building has a ground.
Datum(buildings) ==
  IF buildings = {} THEN 12 ELSE Mean(buildings, [b \in buildings |-> b.ground])

\* The bays and basements of the buildings that have any and whose document answers.
Volumes(buildings, documents) ==
  UNION {LET doc == documents[b.id]
         IN {[v EXCEPT !.building = b.id] : v \in doc} :
           b \in {c \in buildings : c.basements > 0 /\ documents[c.id] # None}}

SnapshotTopology(runs, buildings, documents, clearanceOf) ==
  Detected(runs, Volumes(buildings, documents), Datum(buildings), clearanceOf)

\* TOPOLOGY_PAD_DEG, 0.00006 degrees, in metres of latitude.
TopologyPad == 6

\* utility.envelope_3d, flat about the datum of the seed.
Envelope(run, datum) ==
  [low |-> datum + run.depth - run.radius, high |-> datum + run.depth + run.radius]

\* topologySql.  ST_3DDistance measures in the units of the coordinates, so a gap in plan
\* is a few millionths of a degree beside the metres between the heights.
DbTopology(runs, volumes, datum, clearanceOf) ==
  UNION {LET clearance == clearanceOf[run.asset]
         IN UNION {LET g2 == PolylineGap2(run.line, vol.ring)
                       v == ZGap(Envelope(run, datum), vol)
                   IN IF g2[1] <= Square(run.radius) * g2[2] /\ v = 0
                      THEN {Finding(Through(vol), run.id, vol.id)}
                      ELSE IF clearance # None /\ v < clearance
                      THEN {Finding("clearance_breach", run.id, vol.id)} ELSE {} :
                     vol \in {w \in volumes :
                       /\ ~Own(run, w)
                       /\ BboxNear(RingBbox(run.line), RingBbox(w.ring), TopologyPad + run.radius)}} :
           run \in runs}

\* airRightsFor: a building swept from its ground, and decks placed on a bare datum.
Envelopes(buildings) ==
  {[id |-> b.id, ring |-> b.ring, low |-> b.ground, high |-> b.ground + Max({2, b.height})] :
     b \in {c \in buildings : Len(c.ring) >= 4}}

AirRightsFor(decks, buildings) ==
  AirRights({[d EXCEPT !.low = @ - d.datum, !.high = @ - d.datum] : d \in decks}, Envelopes(buildings))

-----------------------------------------------------------------------------
(* lib/db.ts: queryPoint.  Here a plan is a set of places, a hit a level and an id. *)

StoreyHeight == 32

ParcelsAt(parcels, q) == {<<"parcel", p.id>> : p \in {x \in parcels : q \in x.plan}}

BuildingsAt(buildings, q, z) ==
  {b \in buildings : /\ q \in b.plan
                     /\ b.ground - b.basements * StoreyHeight <= z
                     /\ z <= b.ground + b.height}

WithinZ(r, z) == r.low <= z /\ z <= r.high

\* querySql: parcels, buildings, floors and units each by themselves.
DbStack(parcels, buildings, floors, units, q, z) ==
  ParcelsAt(parcels, q)
    \cup {<<"building", b.id>> : b \in BuildingsAt(buildings, q, z)}
    \cup {<<"floor", f.id>> : f \in {x \in floors : q \in x.plan /\ WithinZ(x, z)}}
    \cup {<<"unit", u.id>> : u \in {x \in units : q \in x.plan /\ WithinZ(x, z)}}

\* queryPointFromSnapshot: floors and units through the buildings that were hit, the
\* floors by their heights alone.
SnapshotStack(parcels, buildings, floors, units, q, z) ==
  LET hit == BuildingsAt(buildings, q, z)
      of(S) == {x \in S : \E b \in hit : b.id = x.building}
  IN ParcelsAt(parcels, q)
       \cup {<<"building", b.id>> : b \in hit}
       \cup {<<"floor", f.id>> : f \in {x \in of(floors) : WithinZ(x, z)}}
       \cup {<<"unit", u.id>> : u \in {x \in of(units) : WithinZ(x, z) /\ q \in x.plan}}
=============================================================================
