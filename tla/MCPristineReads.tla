--------------------------- MODULE MCPristineReads ---------------------------
(***************************************************************************)
(* The demo project, which both backends hold, and one generated straight  *)
(* into PostGIS; and what the read side computes, checked over small       *)
(* inputs: which volumes meet (Topology), seams, sections and labels       *)
(* (Rings), where buried runs and built sites are drawn (Underground),     *)
(* what a caller is answered (Api), what the legal document of a volume    *)
(* says (Ladm), where a prohibition is drawn (Section22A), what the cards  *)
(* print (Panel) and what a certificate says (Deed).                       *)
(***************************************************************************)
EXTENDS PristineReads, Integers, FiniteSets, FiniteSetsExt, Functions, SequencesExt, TLC

CONSTANT NoValue

-----------------------------------------------------------------------------
(* Topology: a plan whose steps are a metre both ways, and one far to the north *)

Here == INSTANCE Topology WITH None <- NoValue, LonM <- 1, LatM <- 1
North == INSTANCE Topology WITH None <- NoValue, LonM <- 1, LatM <- 2

Rectangle(x0, y0, x1, y1) == <<<<x0, y0>>, <<x1, y0>>, <<x1, y1>>, <<x0, y1>>, <<x0, y0>>>>
Corner == <<<<0, 0>>, <<6, 0>>, <<6, 2>>, <<2, 2>>, <<2, 6>>, <<0, 6>>, <<0, 0>>>>
Boxes == {Rectangle(x, y, x + w, y + h) : x \in {0, 3, 4}, y \in {0, 2, 5}, w, h \in {1, 3}}

Beyond(lo, hi, low, high) == IF high < lo THEN lo - high ELSE IF hi < low THEN low - hi ELSE 0

\* The squared distance of two boxes is that of their sides, and of a box and a notched
\* plot the least of its two arms'.
ASSUME GapOfBoxes ==
  LET apart(b, x0, y0, x1, y1) ==
        Beyond(x0, x1, b[1][1], b[3][1]) * Beyond(x0, x1, b[1][1], b[3][1])
          + Beyond(y0, y1, b[1][2], b[3][2]) * Beyond(y0, y1, b[1][2], b[3][2])
      same(f, n) == f[1] = n * f[2]
  IN \A b \in Boxes :
       /\ \A c \in Boxes : same(Here!RingGap2(b, c), apart(b, c[1][1], c[1][2], c[3][1], c[3][2]))
       /\ same(Here!RingGap2(b, Corner), Min({apart(b, 0, 0, 6, 2), apart(b, 0, 0, 2, 6)}))
       /\ Here!RingGap2(b, Corner) = Here!RingGap2(Corner, b)

\* The comparison of distances is one: against every clearance, of roots that are whole.
ASSUME CloserIsDistance ==
  \A g, v \in 0..6, r \in 0..3, c \in 1..6 :
    LET h == Max({0, g - r}) IN Here!Closer(<<g * g, 1>>, r, v, c) <=> h * h + v * v < c * c

Bay(id, b, ring, low) == [id |-> id, building |-> b, kind |-> "parking", ring |-> ring, low |-> low, high |-> low + 3]
Slab(id, b, ring, low) == [Bay(id, b, ring, low) EXCEPT !.kind = "floor"]
Pipe(id, b, asset, depth, line) ==
  [id |-> id, building |-> b, asset |-> asset, radius |-> 1, depth |-> depth, line |-> line]

Clearances == [sewer |-> 3, water |-> 1, metro |-> NoValue]
East(y, z) == <<<<0, y, z>>, <<12, y, z>>>>
Tower == [id |-> 1, basements |-> 1, ground |-> 20, height |-> 30, ring |-> Rectangle(4, 4, 8, 8)]
Hut == [Tower EXCEPT !.id = 2, !.ground = 40, !.height = 0, !.ring = Rectangle(20, 4, 22, 6)]
Vols(g) == {Bay(11, NoValue, Rectangle(4, 4, 6, 8), g - 3), Slab(12, NoValue, Rectangle(4, 4, 8, 8), g - 3)}
Documents(g) == (1 :> Vols(g)) @@ (2 :> NoValue)
RunsAt(z) == {Pipe(<<a, y, d>>, NoValue, a, d, East(y, IF z = NoValue THEN z ELSE z + d)) :
                a \in {"sewer", "water", "metro"}, y \in {0, 2, 6, 11}, d \in {-9, -6, -5, -2}}

OfKind(findings, kind) == {f \in findings : f.kind = kind}
BothWays(buildings, documents, runs, datum) ==
  <<Here!SnapshotTopology(runs, buildings, documents, Clearances),
    Here!DbTopology(runs, Here!Volumes(buildings, documents), datum, Clearances)>>

\* Where all stand on one level, both backends find the same encroachments, and what the
\* snapshot warns of the database warns of too.
ASSUME SameEncroachments ==
  \A z \in {NoValue, 20} :
    LET both == BothWays({Tower}, Documents(20), RunsAt(z), 20)
        through(S) == S \ OfKind(S, "clearance_breach")
    IN /\ through(both[1]) = through(both[2]) /\ through(both[1]) # {}
       /\ OfKind(both[1], "clearance_breach") # {}
       /\ OfKind(both[1], "clearance_breach") \subseteq OfKind(both[2], "clearance_breach")

\* "They answer the SAME question": the database warns as well of a run two metres to the
\* side of a basement which needs one, because it measures that gap in degrees.
ASSUME WarnedBeside ==
  LET both == BothWays({Tower}, Documents(20), {Pipe(1, NoValue, "water", -2, East(1, 18))}, 20)
  IN both[1] = {} /\ {f.kind : f \in both[2]} = {"clearance_breach"}

\* On a slope the sewer laid through a basement at that building's own ground is found by
\* the snapshot, which reads its line, and not by the database, whose corridor is at the mean.
ASSUME MissedByEnvelope ==
  LET both == BothWays({Tower, Hut}, Documents(20), {Pipe(1, NoValue, "sewer", -2, East(6, 18))}, 30)
  IN Cardinality(both[1]) = 2 /\ both[2] = {}

\* An encroachment is never a breach as well; a building's own plumbing is neither, and
\* the same pipe of another's is; a building whose document fails has none.
ASSUME OnceAndNotItsOwn ==
  LET found(b, doc) == Here!SnapshotTopology({Pipe(1, b, "sewer", -2, East(6, 18))}, {Tower}, doc, Clearances)
  IN /\ \A run \in RunsAt(20) :
          LET all == Here!SnapshotTopology({run}, {Tower}, Documents(20), Clearances)
          IN \A f, g \in all : f.b = g.b => f = g
     /\ found(1, Documents(20)) = {} /\ Cardinality(found(2, Documents(20))) = 2
     /\ {f.kind : f \in found(2, Documents(20))} = {"utility_through_parking", "utility_through_basement"}
     /\ found(2, 1 :> NoValue) = {}

\* The prefilter drops nothing while a degree of longitude is about one of latitude; where
\* it is half of one, it drops a run that breaches its clearance.
ASSUME PrefilterExact ==
  LET near(y) == Here!SnapshotTopology({Pipe(1, NoValue, "sewer", -2, East(y, 18))}, {Tower}, Documents(20), Clearances)
      column(x) == <<<<x, 0, 18>>, <<x, 12, 18>>>>
      far(x) == {Pipe(1, NoValue, "sewer", -2, column(x))}
      vol == Vols(20)
      exact(x) == UNION {North!Graded(run, v, North!PolylineGap2(run.line, v.ring), 0, 3) : run \in far(x), v \in vol}
  IN /\ \A y \in 0..12 : (near(y) # {}) <=> (Max({0, y - 8, 4 - y}) - 1 < 3)
     /\ \E x \in 8..16 : exact(x) # {} /\ North!Detected(far(x), {[v EXCEPT !.building = 1] : v \in vol}, 20, Clearances) = {}

Deck(low, datum) == [id |-> "deck", ring |-> Rectangle(5, 0, 7, 12), low |-> low, high |-> low + 1, datum |-> datum]

\* A deck through a building's airspace is found where the site stands at zero, one above
\* the roof is not; and over ground of twenty metres the first is lost, since the deck is
\* placed on a bare datum and the building on its ground.
ASSUME DeckGroundLost ==
  /\ Here!AirRightsFor({Deck(10, 0)}, {[Tower EXCEPT !.ground = 0]}) # {}
  /\ Here!AirRightsFor({Deck(31, 0)}, {[Tower EXCEPT !.ground = 0]}) = {}
  /\ Here!AirRightsFor({Deck(30, 20)}, {Tower}) = {}
  /\ Here!AirRights({Deck(30, 20)}, Here!Envelopes({Tower})) # {}

Floor(id, plan, low) == [id |-> id, building |-> 1, plan |-> plan, low |-> low, high |-> low + 32]
House(height) == [id |-> 1, basements |-> 1, ground |-> 0, height |-> height, plan |-> 1..3]
Storeys == {Floor(k, 1..3, 32 * (k - 1)) : k \in 0..2}
Flats == {Floor(10 + k, 1..k, 0) : k \in 1..2}
Lot == {[id |-> 1, plan |-> 1..4]}

\* A point's stack is the same from both backends while the storeys fill the building, and
\* not where its surveyed height says it is lower than they are.
ASSUME SameStack ==
  LET stacks(h, q, z) == <<Here!DbStack(Lot, {House(h)}, Storeys, Flats, q, z),
                           Here!SnapshotStack(Lot, {House(h)}, Storeys, Flats, q, z)>>
  IN /\ \A q \in 0..5, z \in {-40, -32, -1, 0, 31, 32, 64, 65} : stacks(64, q, z)[1] = stacks(64, q, z)[2]
     /\ stacks(50, 1, 60)[1] \ stacks(50, 1, 60)[2] = {<<"floor", 2>>}
-----------------------------------------------------------------------------
(* Rings: rectangles, an L, a U and a stair, both ways round *)

Plane == INSTANCE Rings

Loop(s) == s \o <<s[1]>>
Ells == {Corner, Loop(<<<<0, 0>>, <<9, 0>>, <<9, 9>>, <<6, 9>>, <<6, 3>>, <<3, 3>>, <<3, 9>>, <<0, 9>>>>),
         Loop(<<<<0, 0>>, <<6, 0>>, <<6, 2>>, <<4, 2>>, <<4, 4>>, <<2, 4>>, <<2, 6>>, <<0, 6>>>>)}
Shapes == UNION {{r, Reverse(r)} : r \in Ells \cup {Rectangle(1, 1, 1 + w, 1 + h) : w, h \in {1, 2, 4, 7}}}

Cells(ring) == {c \in (0..9) \X (0..9) : Plane!Encloses(Plane!Scaled(Plane!Open(ring), 2), <<2 * c[1] + 1, 2 * c[2] + 1>>)}

\* Every side of a rectangle that is wide enough moves in by exactly the inset, so that two
\* flats with a wall between them are twice as far apart, all along it.
ASSUME InsetExact ==
  \A w, h \in 4..7, reversed \in BOOLEAN :
    LET ring == LET r == Rectangle(1, 1, 1 + w, 1 + h) IN IF reversed THEN Reverse(r) ELSE r
        inner == Plane!InsetRing(ring, 1)
        corners == {<<x, y>> : x \in {2, w}, y \in {2, h}}
    IN /\ ToSet(inner) = ToSet(Plane!Scaled(SetToSeq(corners), 80))
       /\ inner[1] = inner[5]
       /\ Plane!Sign(Plane!SignedArea2(inner)) = Plane!Sign(Plane!SignedArea2(ring))

\* What an inset leaves is smaller, wound the same way and closed as the ring was; while
\* the inset is less than half of every side it is within the ring, and a ring of narrower
\* arms is drawn toward a centroid outside it, over what lies in its notch.
ASSUME InsetShrinks ==
  /\ \A ring \in Shapes, metres \in 1..3 :
       LET inner == Plane!InsetRing(ring, metres)
           R == Plane!Scaled(Plane!Open(ring), Plane!Fine(Plane!Open(ring)))
           turn == Plane!Sign(Plane!SignedArea2(R))
           sides == {Plane!Magnitude(e[2][1] - e[1][1]) + Plane!Magnitude(e[2][2] - e[1][2]) :
                       e \in Plane!Edges(Plane!Open(ring))}
       IN /\ inner[1] = Last(inner) /\ Len(inner) = Len(ring)
          /\ 0 < turn * Plane!SignedArea2(inner)
          /\ turn * Plane!SignedArea2(inner) < turn * Plane!SignedArea2(R)
          /\ 2 * metres < Min(sides) => \A p \in ToSet(inner) : Plane!Encloses(R, p)
  /\ \E p \in ToSet(Plane!InsetRing(Corner, 1)) : ~Plane!Encloses(Plane!Scaled(Corner, 120), p)

\* "A flat narrower than twice the inset folds through its own centre, which a sign test
\* alone would miss": so does the test of the area, if the flat is square and wider than
\* the inset by less than half of it.
ASSUME InsetFolds ==
  LET R == <<<<0, 0>>, <<4, 0>>, <<4, 4>>, <<0, 4>>>>
  IN /\ Plane!Offset(R, 3) = <<<<3, 3>>, <<1, 3>>, <<1, 1>>, <<3, 1>>>>
     /\ Plane!Shrank(R, Plane!Offset(R, 3)) /\ ~Plane!Shrank(R, Plane!Offset(R, 2))

\* A section keeps exactly what lies before its plane, of any shape; the whole of the
\* offsets spans it, from nothing to all of it, and never shows more for less.
ASSUME SectionKeeps ==
  \A ring \in Shapes, axis \in 1..2 :
    /\ \A at \in -1..10 :
         LET cut == Plane!ClipRing(ring, axis, at)
             before == {c \in Cells(ring) : c[axis] < at}
         IN IF before = {} THEN cut = <<>>
            ELSE /\ Plane!Magnitude(Plane!SignedArea2(Plane!Open(cut))) = 2 * Cardinality(before)
                 /\ Cells(cut) = before /\ cut[1] = Last(cut)
    /\ LET n == 100 * (Len(ring) - 1)
           at(percent) == Plane!SliceAt(ring, axis, percent)
           left(percent) == Plane!ClipRing(Plane!Scaled(ring, n), axis, at(percent))
       IN /\ left(-100) = <<>> /\ left(-140) = <<>>
          /\ Plane!SignedArea2(left(100)) = Plane!SignedArea2(Plane!Scaled(ring, n))
          /\ at(0) = 100 * Plane!Centroid(Front(ring))[axis]
          /\ \A p, q \in {-100, -30, 0, 30, 100} : p <= q => at(p) <= at(q)

\* "A label INSIDE a ring": every shape has one, where the mean of the corners of three of
\* them is outside.
ASSUME PoleInside ==
  /\ \A ring \in Ells \cup {Rectangle(0, 0, 9, 1)} :
       LET at == Plane!Pole(ring)
       IN at # <<>> /\ Plane!Encloses(Plane!Scaled(Plane!Open(ring), 48), at)
  /\ \E ring \in Ells :
       ~Plane!Encloses(Plane!Scaled(Plane!Open(ring), Len(ring) - 1), Plane!Centroid(Front(ring)))

Vertices == {<<x, 0, z>> : x \in 0..2, z \in {-3, 0}}
Lines == UNION {[1..n -> Vertices] : n \in 1..4}

\* No two vertices of a tube stand over one another in turn, every riser spans the heights
\* the line has there, and of a line that goes anywhere every place is drawn.
ASSUME RisersApart ==
  \A line \in Lines :
    LET run == Plane!PlanRun(line)
        drawn == {Plane!Plan(c) : c \in ToSet(run.tube)} \cup {r.at : r \in run.risers}
    IN /\ \A e \in Plane!Segments(run.tube) : Plane!Plan(e[1]) # Plane!Plan(e[2])
       /\ \A r \in run.risers : r.z0 < r.z1
       /\ \A e \in Plane!Segments(line) :
            Plane!Plan(e[1]) = Plane!Plan(e[2]) /\ e[1][3] # e[2][3]
              => \E r \in run.risers : r.at = Plane!Plan(e[1]) /\ r.z0 <= e[1][3] /\ e[1][3] <= r.z1
       /\ Cardinality({Plane!Plan(c) : c \in ToSet(line)}) > 1 => drawn = {Plane!Plan(c) : c \in ToSet(line)}

\* "At its true position and depth": a level main that ends in a drop is drawn sloping all
\* the way to the foot of it.
ASSUME BendBeforeRiser ==
  LET run == Plane!PlanRun(<<<<0, 0, 0>>, <<2, 0, 0>>, <<2, 0, -3>>>>)
  IN run.tube = <<<<0, 0, 0>>, <<2, 0, -3>>>> /\ run.risers = {[at |-> <<2, 0>>, z0 |-> -3, z1 |-> 0]}

-----------------------------------------------------------------------------
(* Underground: strata *)

Below == INSTANCE Underground WITH None <- NoValue

Recorded(asset, depth) == [asset |-> asset, depth |-> depth]
Street == <<"telecom", "power", "water", "drainage", "sewer">>
Resolve(depths) ==
  LET features == [i \in DOMAIN depths |-> Recorded(Street[i], depths[i])]
      out == Below!ResolveCategoryDepths(features)
  IN [i \in DOMAIN depths |-> out[Below!CategoryOfAssetType(Street[i])]]

LayerOf(i) == Below!UndergroundLayers[Below!CategoryOfAssetType(Street[i])]
InBand == [1..5 -> {NoValue, 0, 1, 2}]
Depth(i, choice) == CASE choice = 0 -> LayerOf(i).low [] choice = 1 -> LayerOf(i).nominal [] OTHER -> LayerOf(i).high

\* Depths within their bands end in the order of the strata, moved down if at all, never
\* past a floor, and clear of the one above by what is required unless a floor prevents it;
\* a category with no runs takes no part.
ASSUME StrataOrdered ==
  \A d \in InBand :
    LET depths == [i \in 1..5 |-> IF d[i] = NoValue THEN NoValue ELSE Depth(i, d[i])]
        moved == Resolve(depths)
        at(i) == depths[i] + moved[i]
        has == {i \in 1..5 : depths[i] # NoValue}
    IN \A i \in 1..5 :
         IF i \notin has THEN moved[i] = 0
         ELSE /\ moved[i] <= 0 /\ at(i) >= LayerOf(i).low
              /\ \A j \in has : j < i => at(i) < at(j)
              /\ LET above == {j \in has : j < i} ceiling == IF above = {} THEN 0 ELSE at(Max(above))
                 IN \/ at(i) = LayerOf(i).low
                    \/ ceiling - at(i) >= LayerOf(i).clearance
                         /\ (moved[i] < 0 => ceiling - at(i) = LayerOf(i).clearance)

\* "Two categories cannot occupy the same space no matter what depths the data carries":
\* telecom ducts recorded at five metres lie half a metre under a sewer that asks for two and a
\* half, and nothing below them is moved for their sake.
ASSUME DeepDataMixes ==
  LET at == [i \in 1..5 |-> <<-50, -12, -18, -24, -45>>[i] + Resolve(<<-50, -12, -18, -24, -45>>)[i]]
  IN at = <<-50, -14, -18, -24, -45>> /\ at[5] - at[1] < LayerOf(5).clearance

\* A category stands where most of its runs are: one deep outlier does not move it, and
\* metro, which is not drawn, moves nothing.
ASSUME OutlierHeld ==
  LET runs(extra) == <<Recorded("water", -15), Recorded("water", -15), Recorded("water", extra),
                       Recorded("sewer", -30), Recorded("metro", -2)>>
  IN \A extra \in {-105, -15, NoValue} :
       Below!ResolveCategoryDepths(runs(extra))["sewer"] = -10

Slope == [p \in (-120..120) \X (-100..100) |-> 200 + p[1] \div 10 + 3 * p[2]]
Unmoved == [k \in DOMAIN Below!UndergroundLayers |-> IF k = "sewer" THEN -10 ELSE 0]
Laid(asset, depth, building, line) ==
  Below!LayoutRun([asset |-> asset, depth |-> depth, building |-> building, coordinates |-> line],
                  Slope, Unmoved, <<[stored |-> 120, terrain |-> 300], NoValue>>)

\* Whatever datum its heights were recorded against, a street run lies everywhere at its
\* depth under the ground it is drawn over; a building's own run moves with the building,
\* one of a building nobody knows is a street's, and a riser stays upright.
ASSUME DepthHeld ==
  \A asset \in {"water", "sewer", "power"}, depth \in {-30, -15, 0}, datum \in {NoValue, 0, 120} :
    LET z == IF datum = NoValue THEN NoValue ELSE datum + depth
        line == <<<<-20, 0, z>>, <<0, 0, z>>, <<20, 0, z>>>>
        drop == <<<<0, 0, 120>>, <<0, 0, 80>>, <<20, 0, 80>>>>
        out(b) == Laid(asset, depth, b, line)
        delta == Unmoved[out(NoValue).category]
    IN /\ \A b \in {NoValue, 2} : \A c \in ToSet(out(b).geometry.tube) :
            c[3] = Slope[<<c[1], c[2]>>] + depth + delta
       /\ datum = 120 => \A c \in ToSet(out(1).geometry.tube) : c[3] = 300 + depth + delta
       /\ out(NoValue).displayDepth = depth + delta /\ out(NoValue).displaced = (delta # 0)
       /\ LET risers == Laid(asset, 0, 1, drop).geometry.risers
          IN Cardinality(risers) = 1 /\ \A r \in risers : r.z1 - r.z0 = 40

\* "The depth actually drawn": one recorded above the ground is drawn at grade, and the
\* panel is told it is drawn where it was recorded.
ASSUME DrawnAtGrade ==
  LET out == Laid("water", 10, NoValue, <<<<0, 0, NoValue>>, <<20, 0, NoValue>>>>)
  IN out.displayDepth = 10 /\ \A c \in ToSet(out.geometry.tube) : c[3] = Slope[<<c[1], c[2]>>]

Nodes == [((0..2) \X (0..2)) -> {0, 7}]
Places == (-2..10) \X {-2, 0, 3, 5, 8, 9}

\* The field passes through its nodes, keeps between them, is the edge's outside the box,
\* and takes no step that its cell does not.
ASSUME FieldBetweenNodes ==
  /\ \A h \in {g \in Nodes : Cardinality({q \in DOMAIN g : g[q] = 7}) \in {1, 4}} :
       /\ \A q \in DOMAIN h : Below!HeightAt(h, 3, <<4 * q[1], 4 * q[2]>>) = 16 * h[q]
       /\ \A p \in Places :
            LET at == Below!HeightAt(h, 3, p)
            IN /\ 0 <= at /\ at <= 16 * 7
               /\ at = Below!HeightAt(h, 3, <<Max({0, Min({8, p[1]})}), Max({0, Min({8, p[2]})})>>)
               /\ Below!Magnitude(at - Below!HeightAt(h, 3, <<p[1] + 1, p[2]>>)) <= 4 * 7
  /\ \A span \in {-5, 0, 1, 400, 1500, 1575, 1601, 9000} : Below!GridN(span) \in 16..64

Provider(fails, heights) == [ellipsoid |-> FALSE, fails |-> fails, heights |-> heights]
Hilly == [q \in (0..2) \X (0..2) |-> IF q = <<1, 1>> THEN NoValue ELSE 500]

\* "The failed promise is not cached, so a transient problem does not poison the mode for
\* the rest of the session": a failure to sample is an answer like another, and the flat
\* field it gives is what every later asker gets. And a node without a sample is at zero,
\* five hundred decimetres under its neighbours, not at the fallback.
ASSUME FailureKept ==
  LET asked == Below!FieldFor(<<>>, "aoi", Below!Sampled(3, Provider(TRUE, Hilly), 480))
      again == Below!FieldFor(asked, "aoi", Below!Sampled(3, Provider(FALSE, Hilly), 480))
  IN /\ \A q \in DOMAIN Hilly : again["aoi"][q] = 480
     /\ Below!Sampled(3, Provider(FALSE, Hilly), 480)[<<1, 1>>] = 0

\* The field's box holds the project's and every place drawn, a margin in from its edge,
\* and with a site's box both.
ASSUME FieldCovers ==
  LET aoi == [west |-> 0, south |-> 0, east |-> 900, north |-> 900]
      site == [west |-> -9000, south |-> 100, east |-> -8000, north |-> 5000]
      holds(b, q) == b.west <= q[1] /\ q[1] <= b.east /\ b.south <= q[2] /\ q[2] <= b.north
      out == Below!FieldBbox(aoi, {<<-40, 30>>, <<500, 2000>>})
  IN /\ \A q \in {<<-40, 30>>, <<500, 2000>>, <<0, 0>>, <<900, 900>>}, dx, dy \in {-1100, 1100} :
          holds(out, <<q[1] + dx, q[2] + dy>>)
     /\ \A q \in {<<-9000, 100>>, <<900, 900>>} : holds(Below!UnionBbox(out, site), q)
     /\ Below!FieldBbox(NoValue, {}) = NoValue /\ Below!FieldBbox(NoValue, {<<1, 5>>, <<1, 9>>}) = NoValue
     /\ Below!UnionBbox(NoValue, site) = site

\* Storeys keep their distances on whatever ground their building is drawn; a finding is
\* marked by one shift for the project, "the same reconciliation the utilities use", and
\* where the terrain leaves the stored grounds the mark of a basement is above its roof.
ASSUME MarkApart ==
  /\ \A z \in {0, 30}, h \in {NoValue, 0, 90} :
       Below!SceneZ(z + 30, 12, h) - Below!SceneZ(z, 12, h) = 30
  /\ LET marked == Below!MarkZ([z |-> 500 - 30], <<500, 500>>, <<200, 800>>)
     IN marked > Below!SceneZ(500 + 200, 500, 200) /\ Below!MarkZ([z |-> 470], <<500>>, <<>>) = 470

-----------------------------------------------------------------------------
(* Underground: sites *)

Land == (-12..12) \X (-12..12)
Terrains == {[p \in Land |-> 50 + p[1]], [p \in Land |-> 50 - 2 * p[2]],
             [p \in Land |-> IF p[1] \in -1..1 /\ p[2] \in -1..1 THEN 90 ELSE 50]}

Piece(kind, shape, base) ==
  [kind |-> kind, shape |-> shape, base |-> base, height |-> 20, at |-> <<0, 0>>, w |-> 4, d |-> 2,
   points |-> <<<<-6, 4>>, <<0, 4>>, <<6, 4>>>>, grade |-> NoValue, half |-> 1,
   count |-> 1, step |-> <<0, 0, 0>>]
Viaduct == <<Piece("deck_span", "strip", 60), [Piece("pillar", "cylinder", 0) EXCEPT !.count = 3, !.step = <<3, 0, 0>>, !.height = 60],
             Piece("platform", "box", 0), Piece("parking", "box", 0), Piece("road", "strip", 0),
             [Piece("ramp", "strip", 0) EXCEPT !.grade = <<0, 20, 60>>],
             [Piece("track", "strip", 0) EXCEPT !.points = <<<<0, 0>>>>]>>

Site(heights) == Below!PlaceSite(Viaduct, [datum |-> Below!StructuralDatum(Viaduct, heights, <<0, 0>>), heights |-> heights], 5)
Of(site, kind) == UNION {ToSet(c.solids) : c \in {x \in ToSet(site) : x.kind = kind}}

\* Whatever the land, a platform reaches into the ground at its corners and a pad covers it
\* there; a pier stands no higher than the ground and carries to its own level; a deck is
\* level; nothing of the structure is under the land at a corner of its own; and handles
\* run on with none for what is not placed.
ASSUME SiteStands ==
  \A heights \in Terrains :
    LET site == Site(heights) datum == Below!StructuralDatum(Viaduct, heights, <<0, 0>>)
    IN /\ \A s \in Of(site, "platform") : \A p \in ToSet(s.ring) : s.low < heights[p] /\ s.high = datum + 20
       /\ \A s \in Of(site, "parking") : \A p \in ToSet(s.ring) : s.low < heights[p] /\ heights[p] < s.high
       /\ \A c \in {x \in ToSet(site) : x.kind = "pillar"} : \A k \in ToSet(c.columns) :
            k.low <= heights[k.at] /\ k.low + k.tall = datum + 60
       /\ Cardinality({s.low : s \in Of(site, "deck_span")}) = 1
       /\ \A kind \in {"deck_span", "ramp", "platform"} : \A s \in Of(site, kind) :
            \A p \in ToSet(s.ring) : s.high > heights[p]
       /\ [i \in DOMAIN site |-> site[i].pickId] = [i \in 1..8 |-> 4 + i]
       /\ Below!StructuralDatum(<<Piece("road", "box", 0)>>, heights, <<0, 0>>) = heights[<<0, 0>>]

\* "Highest terrain under the components that must share one level": under their corners.
\* A rise in the middle of a platform comes through it.
ASSUME RiseThroughPlatform ==
  \E heights \in Terrains : \A s \in Of(Site(heights), "platform") : s.high < heights[<<0, 0>>]
-----------------------------------------------------------------------------
(* Api: what a caller is answered *)

Door == INSTANCE Api WITH None <- NoValue

Ravi == Door!Citizen("s", 9, 2, "201")
Priya == Door!Citizen("s", 9, 5, "502")
Away == Door!Citizen("t", 7, 2, "201")
Citizens == {Ravi, Priya, Away}
Callers == Citizens \cup {Door!Gov, Door!Anon}

Worlds ==
  [project : {("s" :> a) @@ ("t" :> b) : a, b \in {"ok", "not-found", "unavailable"}},
   throws : BOOLEAN, found : BOOLEAN, writeFails : {FALSE}, vanished : {FALSE}, noDb : BOOLEAN]
Request(c, slug, id) == [caller |-> c, slug |-> slug, id |-> 2 * id, level |-> <<>>, body |-> "valid"]

\* A resident who asks for a building that is not theirs gets one answer, whatever there is
\* behind it: no project, no database, no such building, or a document.
ASSUME ForeignAlike ==
  \A w \in Worlds, c \in Citizens, slug \in {"s", "t"}, id \in {7, 9} :
    (c.slug # slug \/ c.building # id) =>
      /\ Door!Status(Door!BuildingRoute(w, Request(c, slug, id)), 200) = 404
      /\ Door!Status(Door!BuildingUnits(w, Request(c, slug, id)), 200) = 404

\* Nobody but the government writes, and what it is told apart from a success was not written:
\* the one exception is a document gone between the save and the reading back.
ASSUME WritesOfOne ==
  \A w \in Worlds, c \in Callers, b \in {"valid", "invalid", "uneditable", "null", "malformed"}, gone \in BOOLEAN :
    LET r == [Request(c, "s", 9) EXCEPT !.body = b]
        end == Door!Status(Door!BuildingPatch([w EXCEPT !.vanished = gone], r), 200)
    IN /\ end = 200 => c = Door!Gov /\ b = "valid" /\ w.found /\ w.project["s"] = "ok"
       /\ Door!Status(Door!UnitSplit(w, r), 201) = 201 => c = Door!Gov /\ ~w.noDb
       /\ (end = 500 /\ ~w.throws) => gone

\* A body of nulls is the point where the meridian meets the equator; the body null is
\* answered by no branch of the route.
ASSUME NullPoint ==
  LET world == [CHOOSE w \in Worlds : w.project["s"] = "ok" /\ ~w.throws EXCEPT !.found = TRUE]
      none == [lon |-> <<"null">>, lat |-> <<"null">>, z |-> <<"empty">>]
      asked(kind) == [caller |-> Door!Gov, slug |-> "s", body |-> kind, point |-> none]
  IN /\ Door!Status(Door!Query(world, asked("point")), 200) = 200
     /\ Door!Status(Door!Query(world, asked("null")), 200) = Door!Raised
     /\ Door!Status(Door!Query(world, [asked("point") EXCEPT !.point.lat = <<"number", 181>>]), 200) = 400

Flat(level, code, bay) ==
  ("level_no" :> level) @@ ("unit_no" :> code) @@ ("ulpin" :> <<level, code>>) @@ ("owner" :> code)
    @@ (IF bay = <<>> THEN <<>> ELSE ("parking_ulpin" :> bay))
Volume(level, code, kind) == Flat(level, code, <<>>) @@ ("kind" :> kind) @@ ("label" :> code)
House2 == [building |-> ("id" :> 9) @@ ("name" :> "tower") @@ ("ulpin" :> "b") @@ ("owner" :> "o"), parcel |-> "plot",
           floors |-> [i \in 1..3 |-> ("level_no" :> i) @@ ("ulpin" :> <<i>>)],
           units |-> <<>>]
UnitSets ==
  {<<Flat(2, "201", <<-1, "P1">>), Flat(2, "202", <<>>), Flat(5, "502", <<>>), Volume(-1, "P1", "parking"),
     Volume(-1, "P2", "parking"), Volume(2, "L1", "elevator")>>,
   <<Volume(2, "201", "retail"), Flat(5, "502", <<-1, "P2">>), Volume(-1, "P2", "parking")>>,
   <<Volume(1, "S1", "stair"), Flat(2, "203", <<-1, "P3">>)>>}
Towers == {[House2 EXCEPT !.units = us] : us \in UnitSets}

\* A document narrowed twice is the one narrowed once; in it a resident reads an owner on no
\* volume but their own flat and the bay on its title, and nobody reads one on the fabric.
ASSUME DetailsOfOneFlat ==
  \A c \in Callers, d \in Towers :
    LET v == Door!NarrowDetail(c, d)
    IN /\ Door!NarrowDetail(c, v) = v
       /\ \A i \in DOMAIN v.units :
            "owner" \in DOMAIN v.units[i] =>
              /\ ~Door!IsFabric(d.units[i])
              /\ Door!IsCitizen(c) =>
                   \E j \in DOMAIN d.units :
                     /\ d.units[j]["level_no"] = c.floor
                     /\ d.units[j]["unit_no"] = c.unit
                     /\ i = j \/ Door!Field(d.units[j], "parking_ulpin") = d.units[i]["ulpin"]

RECURSIVE Walk(_, _, _, _)
Walk(c, d, limit, from) ==
  LET page == Door!UnitsPage(c, d, <<>>, limit, 2 * from)
  IN IF page.units = <<>> THEN <<>> ELSE page.units \o Walk(c, d, limit, from + page.limit)

\* A reader who goes on by the limit the answer names meets every volume once, for every
\* limit but one below one: that is answered with a limit of nought and an empty page.
ASSUME PagesReachAll ==
  \A c \in Callers, d \in Towers :
    /\ \A limit \in 2..15 \cup {NoValue, -3, 0} : Walk(c, d, limit, 0) = Door!NarrowDetail(c, d).units
    /\ Door!UnitsPage(c, d, <<>>, 1, 0).limit = 0
    /\ Walk(c, d, 1, 0) = <<>>

\* The summary of a resident counts the tower's floors and volumes, not their own.
ASSUME SummaryCountsTower ==
  \A c \in Citizens, d \in Towers :
    Door!Summary(c, d).unit_count = Len(d.units) /\ Door!Summary(c, d).floor_count = Len(d.floors)

\* Through the plot it stands on, a document comes as it is: the building's own door narrows it.
ASSUME PlotIsNotNarrowed ==
  \A d \in Towers : Door!SurveyParcelBuildings(Ravi, <<d>>) = <<d>> /\ Door!NarrowDetail(Ravi, d) # d

\* A resident's stack never begins at the plot, which is of no building.
ASSUME StackWithoutPlot ==
  LET stack == <<("level" :> "parcel") @@ ("building_id" :> NoValue), ("level" :> "building") @@ ("building_id" :> 9)>>
  IN Door!OfBuilding(Ravi, stack) = Tail(stack) /\ Door!OfBuilding(Door!Gov, stack) = stack

Legacy(b, floor, slot) == [grammar |-> "legacy", building |-> b, floor |-> floor, slot |-> slot]
ThreeD(b, floor, n) == [grammar |-> "3d", building |-> b, level |-> [kind |-> "floor", n |-> floor], unit |-> n]

\* A resident's flat is theirs by the code on its door.  The new identifier carries the flat's
\* place on its storey instead, and neither comparison looks at the building.
ASSUME OwnedByDoorCode ==
  /\ Door!OwnsSpatialUnit(Ravi, Legacy(9, 2, "201"))
  /\ ~Door!OwnsSpatialUnit(Ravi, ThreeD(9, 2, 1))
  /\ \A b \in 1..9 : Door!OwnsSpatialUnit(Ravi, Legacy(b, 2, "201"))
  /\ \A c \in Citizens, floor \in 1..5, n \in 1..4 : ~Door!OwnsSpatialUnit(c, ThreeD(c.building, floor, n))

LegalDocument ==
  ("su" :> ("su_id" :> "x") @@ ("ring" :> "r") @@ ("volume_m3" :> 3)) @@ ("ba_unit" :> "b") @@ ("rrrs" :> <<1>>)
    @@ ("parties" :> <<1>>) @@ ("easements" :> <<2>>) @@ ("project" :> "s") @@ ("disclaimer" :> "d") @@ ("issued_at" :> "t")

\* A narrowed document says so and keeps the volume and its easements; it has lost the
\* disclaimer, the project and the date the whole one is issued with.
ASSUME FrameLost ==
  \A c \in Callers, owns \in BOOLEAN :
    LET v == Door!FilterLadm(c, LegalDocument, owns)
        out == Door!GeoJsonOf(v)["properties"]
    IN \/ v = LegalDocument
       \/ /\ v.restricted /\ v.su = LegalDocument["su"] /\ v.easements = LegalDocument["easements"]
          /\ {"ba_unit", "disclaimer", "project", "issued_at"} \cap DOMAIN out = {}

Siripuram == [slug |-> "s", state |-> "AP", district |-> "VSP", district2 |-> "VS", scheme |-> "3D26"]
Bheemili == [Siripuram EXCEPT !.slug = "t", !.scheme = "3D27"]

\* An identifier of the second project of a district is asked of the first; the form with a
\* scheme in it is asked of its own.
ASSUME FirstOfDistrict ==
  LET new == [grammar |-> "3d", state |-> "AP", district |-> "VS"]
      old == [grammar |-> "legacy", state |-> "AP", district |-> "VSP", scheme |-> "3D27"]
  IN /\ Door!Matching(<<Siripuram, Bheemili>>, new)[1] = Siripuram
     /\ Door!Matching(<<Siripuram, Bheemili>>, old) = <<Bheemili>>
     /\ \A w \in Worlds :
          LET r == [caller |-> Door!Gov, slug |-> NoValue, id |-> 2, su |-> new]
          IN w.project["s"] = "not-found" =>
               Door!Status(Door!LadmByIdentifier(w, <<Siripuram, Bheemili>>, r), 200) = 404

\* Who holds two flats signs in to the first of them; an address kept with a capital in the
\* roster signs nobody in.
ASSUME FirstFlatOnly ==
  LET entry(floor, unit) == [aadhar |-> 1, phone |-> 2, building |-> 9, floor |-> floor, unit |-> unit]
      world == [listed |-> {"s"}, residents |-> ("s" :> <<entry(2, "201"), entry(5, "502")>>)]
      sent == [wellFormed |-> TRUE, slug |-> "s", aadhar |-> 1, phone |-> 2]
      address(upper) == [name |-> "admin", upper |-> upper]
      gov(upper) == [wellFormed |-> TRUE, email |-> address(upper), password |-> "p"]
  IN /\ Door!Status(Door!CitizenLogin(world, sent), 200) = 200
     /\ Door!CallerContext(Door!CitizenClaims(world, sent)) = Ravi
     /\ \A phone \in 1..3 : Door!Status(Door!CitizenLogin(world, [sent EXCEPT !.phone = phone]), 200) = (IF phone = 2 THEN 200 ELSE 401)
     /\ \A kept, typed \in BOOLEAN :
          Door!Status(Door!GovLogin(address(kept) :> "p", gov(typed)), 200) = (IF kept THEN 401 ELSE 200)

-----------------------------------------------------------------------------
(* Ladm: a tower of two flats and a bay on one plot, a run under it, the air above *)

Legal == INSTANCE Ladm WITH None <- NoValue

Charge(kind, bank) == [kind |-> kind, bank |-> bank]
Uncharged == Charge("none", NoValue)
Space(id, kind, owner, charge, minted) ==
  [id |-> id, old |-> "u" \o ToString(id), new |-> IF minted THEN "n" \o ToString(id) ELSE NoValue, kind |-> kind,
   no |-> ToString(id), label |-> NoValue, owner |-> owner, tenure |-> "freehold", charge |-> charge,
   building |-> 1, source |-> "osm_tag", low |-> 3, high |-> 6]
Ground(owner) == [id |-> 1, old |-> "p", new |-> NoValue, owner |-> owner, bhu |-> "b1"]
Corridor(id) == [id |-> id, infra |-> "i" \o ToString(id), authority |-> "GVMC", asset |-> "Water", source |-> "surveyed",
                 low |-> 2, high |-> 3, radius |-> 1]
Above == [id |-> 1, new |-> "x", low |-> 12, high |-> 18, source |-> "estimated"]
Survey(id, official, bhu) == [id |-> id, official |-> official, bhu |-> bhu]

Register(units, owner, surveys, air, crosses) ==
  [parcels |-> {Ground(owner)}, surveys |-> surveys, units |-> units, runs |-> {Corridor(1)}, air |-> air,
   links |-> {[bhu |-> "b1", infra |-> "i1", type |-> "easement"]}, plot |-> (1 :> 1), crosses |-> crosses]
Holders == {NoValue, "", "A", "B"}
TowerOf(first, second, bay, charge, minted) ==
  {Space(101, "flat", first, charge, minted), Space(102, "flat", second, Uncharged, minted),
   Space(1, "parking", bay, Uncharged, minted)}
Plain(units) == Register(units, "A", {}, {}, {})

\* ladm_utility_su_id and suIdForUtility name a run alike, and no two runs alike, past the five
\* digits where lpad alone would cut two to one.
ASSUME UtilityIdsAgree ==
  LET ids == {1, 10, 999, 12345, 99999, 100000, 100001, 999999}
  IN /\ \A n \in ids : Legal!SuIdForUtility(n) = Legal!LadmUtilitySuId(n)
     /\ \A n, k \in ids : Legal!LadmUtilitySuId(n) = Legal!LadmUtilitySuId(k) => n = k
     /\ Legal!Lpad(100000, 5) = Legal!Lpad(100001, 5)

\* The undivided shares of a building's titled flats make one whole plot, however many of its
\* flats name a holder.
ASSUME SharesAreWhole ==
  \A first, second \in Holders, minted \in BOOLEAN :
    LET R == Plain(TowerOf(first, second, NoValue, Uncharged, minted))
        shares == {m \in Legal!Members(R) : m.role = "undivided_share"}
    IN \A m \in shares : m.su = "p" /\ m.den = Cardinality(shares) /\ m.num = 1

\* A bay goes to the one flat of its owner's name; two owners of one name are one party and the
\* bay is in both titles.
ASSUME SameNameBothBays ==
  \A first, second, bay \in Holders :
    LET R == Plain(TowerOf(first, second, bay, Uncharged, FALSE))
        titles == {m.ba : m \in {x \in Legal!Members(R) : x.su = "u1"}}
        named == {f \in {first, second} : f = bay /\ f \notin {NoValue, ""}}
    IN /\ (Cardinality(titles) = 2) <=> (first = second /\ named # {})
       /\ titles = {} <=> named = {}
       /\ first = second /\ named # {} => Cardinality({p \in Legal!Parties(R) : p.name = first /\ p.role = "owner"}) = 1

\* A charge on a titled flat is one restriction on its bundle; on a flat of no holder it is
\* none, though the bank is still a party.
ASSUME EachChargeOnce ==
  \A first \in Holders, kind \in {"none", "mortgage", "lien"}, bank \in {NoValue, "S"} :
    LET flat == Space(101, "flat", first, Charge(kind, bank), TRUE)
        R == Plain({flat})
        charges == {r \in Legal!Rights(R) : r.ba = "n101-BA" /\ r.class = "restriction"}
        titled == first \notin {NoValue, ""}
    IN /\ Cardinality(charges) = (IF titled /\ kind # "none" THEN 1 ELSE 0)
       /\ (Legal!Bank("S") \in Legal!Parties(R)) <=> (kind = "mortgage" /\ bank = "S")
       /\ (\E r \in charges : r.party = Legal!Bank("S")) <=> (titled /\ kind = "mortgage" /\ bank = "S")

\* A run's own document lists the run among what burdens it, and calls it a plot.
ASSUME CorridorBurdensItself ==
  \A crosses \in SUBSET {<<"unit", 101, 1>>, <<"parcel", 1, 1>>} :
    LET R == Register(TowerOf("A", "B", NoValue, Uncharged, TRUE), "A", {}, {}, crosses)
        told(su) == {e.su : e \in Legal!LadmSql(R, Legal!SchemaKinds, su).easements}
    IN /\ told("UTL-00001") = {"UTL-00001"}
       /\ Legal!LadmSql(R, Legal!SchemaKinds, "UTL-00001").su.label = "Plot UTL-00001"
       /\ (told("n101") # {}) <=> <<"unit", 101, 1>> \in crosses
       /\ (told("p") # {}) <=> <<"parcel", 1, 1>> \in crosses

\* What the backfill registers satisfies the keys and the CHECK of the schema, two surveys of
\* one Bhu-Aadhaar included; where migration 007 made the table it raises on the first air-rights
\* volume, and the seeder's transaction that ran it keeps nothing and says it did.
ASSUME BackfillRegisters ==
  \A surveys \in SUBSET {Survey(1, TRUE, "b1"), Survey(2, TRUE, "b1"), Survey(3, FALSE, "b2"), Survey(4, TRUE, NoValue)},
     air \in SUBSET {Above} :
    LET R == Register(TowerOf("A", "B", "A", Uncharged, TRUE), "A", surveys, air, {})
        kept == Legal!SeedTransaction(Legal!Registrable(Legal!SpatialUnits(R), Legal!MigrationKinds))
    IN /\ Legal!Registrable(Legal!SpatialUnits(R), Legal!SchemaKinds)
       /\ kept.rows <=> air = {}
       /\ air # {} => kept.said = "upserted, backfill skipped"

\* A view made again by migration 007 has no geometry for air rights: the run through them is
\* no longer told.
ASSUME AirLosesItsGeometry ==
  LET high == [Corridor(1) EXCEPT !.low = 13, !.high = 14]
      R == [Register({}, "A", {}, {Above}, {<<"air_rights", 1, 1>>}) EXCEPT !.runs = {high}]
  IN /\ Legal!LadmSql(R, Legal!SchemaKinds, "x").easements # {}
     /\ Legal!LadmSql(R, Legal!MigrationKinds, "x").easements = {}
     /\ Legal!LadmSql(R, Legal!MigrationKinds, "x").su.label = "Plot x"

DeedEntry == [deed |-> "d", registered |-> NoValue, bank |-> "S", loan |-> "l", tax |-> "GVMC", assessment |-> "a", bay |-> "u1"]
Entries == {DeedEntry, [DeedEntry EXCEPT !.bank = NoValue], [DeedEntry EXCEPT !.deed = NoValue, !.tax = NoValue]}
Charged == TowerOf("A", "B", NoValue, Charge("mortgage", "S"), TRUE)

\* A document lists every stakeholder its rights name, once for a name and a role, a bank of
\* both the encumbrance and the register included.
ASSUME PartiesOnce ==
  \A e \in Entries, sep \in {NoValue, -73} :
    LET d == Legal!GetLadmDoc(Legal!LadmSql(Plain(Charged), Legal!SchemaKinds, "n101"), "n101" :> e, sep)
        key(p) == <<p.name, p.role>>
    IN /\ \A p, q \in d.parties : key(p) = key(q) => p = q
       /\ \A r \in d.rrrs : r.party # NoValue => \E p \in d.parties : key(p) = key(r.party)
       /\ (e.bank = "S") => Cardinality({r \in d.rrrs : r.type = "mortgage"}) = 2

\* The ellipsoidal heights are told exactly where the separation is known, a volume as thick
\* in either.
ASSUME HeightsKeepThickness ==
  \A low, high \in -2..3, sep \in {NoValue} \cup -74..-72 :
    LET h == Legal!HeightRange(low, high, sep)
    IN /\ (h.ellipsoidal = NoValue) <=> (sep = NoValue)
       /\ sep # NoValue => h.ellipsoidal[2] - h.ellipsoidal[1] = h.msl[2] - h.msl[1]

\* The tower's document from the database and from the snapshot: the same rights of the register
\* and the same bay while the volumes have only their old identifiers; once new ones are minted
\* the snapshot answers under both, the database under the new one alone and without what the
\* register, kept by the old, says.
ASSUME BackendsDiffer ==
  \A minted \in BOOLEAN, e \in Entries :
    LET tower == TowerOf("A", "B", NoValue, Uncharged, minted)
        register == "u101" :> e
        current == IF minted THEN "n101" ELSE "u101"
        fromDb(su) == Legal!GetLadmDoc(Legal!LadmSql(Plain(tower), Legal!SchemaKinds, su), register, NoValue)
        fromFile(su) == Legal!GetLadmDoc(Legal!Snapshot(tower, Ground("A"), su), register, NoValue)
        entered(d) == {r \in d.rrrs : r.register}
        bays(d) == {m.su : m \in {x \in d.ba.members : x.role = "appurtenant"}}
    IN /\ fromFile("u101") = fromFile(current)
       /\ (fromDb("u101") = NoValue) <=> minted
       /\ (entered(fromDb(current)) = entered(fromFile(current))) <=> ~minted
       /\ (bays(fromDb(current)) = bays(fromFile(current))) <=> ~minted
       /\ fromDb(current).su.provenance # fromFile(current).su.provenance

\* A narrowed document and one of a volume nothing is registered on: the tab tells them apart,
\* the JSON-LD does not, and says nothing of the easements either.
ASSUME LdHidesNarrowing ==
  \A sep \in {NoValue, -73}, crosses \in SUBSET {<<"unit", 101, 1>>} :
    LET doc(owner) == Legal!GetLadmDoc(Legal!LadmSql(Register({Space(101, "flat", owner, Uncharged, TRUE)}, "A", {}, {}, crosses),
                                                     Legal!SchemaKinds, "n101"), "u101" :> DeedEntry, sep)
        held == Legal!Narrowed(doc("A"))
        bare == doc("")
    IN /\ Legal!LadmTab("n101", FALSE, held) # Legal!LadmTab("n101", FALSE, bare)
       /\ Legal!JsonLd(held) = Legal!JsonLd([bare EXCEPT !.disclaimer = NoValue])
       /\ Legal!JsonLd(held) = Legal!JsonLd([held EXCEPT !.easements = {}])
       /\ ("easements" \in Legal!LadmTab("n101", FALSE, held)) <=> crosses # {}

\* The tab says of a request that failed what it says of an identifier nobody registered.
ASSUME FailureReadsUnregistered ==
  \A status \in {404, 429, 500, 503}, d \in {Legal!GetLadmDoc(Legal!LadmSql(Plain(Charged), Legal!SchemaKinds, "n101"), <<>>, NoValue)} :
    Legal!LadmTab("n101", FALSE, Legal!Kept(status, d)) = {"not in the registry"}

-----------------------------------------------------------------------------
(* Section 22-A: two plots, the rows a file may have, what is drawn and said of them *)

Listed == INSTANCE Section22A WITH None <- NoValue

Polygon(ring) == [type |-> "Polygon", coordinates |-> <<ring>>]
Listing(id, no, status, ref, geometry) ==
  [id |-> id, survey_no |-> no, status |-> status, category |-> "WAKF", clause |-> "", authority |-> "collector", reference |-> NoValue,
   listed_on |-> NoValue, remarks |-> "", extent |-> 20, parcel_ref |-> ref, geometry |-> geometry]
Square == Rectangle(0, 0, 4, 5)
Listings ==
  {NoValue}
    \cup {Listing(id, no, status, ref, g) :
            id \in {"r1", "", NoValue}, no \in {"12/3", ""}, status \in {NoValue, "22A_RESTRICTED", "cleared"},
            ref \in {NoValue, [kind |-> "survey_parcel", id |-> 2], [kind |-> "parcel", id |-> 2]},
            g \in {NoValue, Polygon(Square), Polygon(<<<<0, 0>>, <<1, 1>>, <<0, 0>>>>), [type |-> "Point", coordinates |-> <<>>]}}
SurveyPlots ==
  <<[id |-> 1, label |-> "12/1", geometry |-> <<Rectangle(10, 0, 14, 4)>>, building_ids |-> {9}, ulpin3d |-> NoValue],
    [id |-> 2, label |-> "12/3", geometry |-> <<Rectangle(20, 0, 24, 5)>>, building_ids |-> {}, ulpin3d |-> NoValue],
    [id |-> 3, label |-> "12/4", geometry |-> <<>>, building_ids |-> {9}, ulpin3d |-> NoValue]>>
AnswerOf(rows, parcels) ==
  Listed!GetSection22A(Listed!Section22ASourceFor("s"), Listed!List(TRUE, [records |-> rows, retrieved_on |-> "d"]), parcels)

\* A row of the file is a record or is left out, and what is left out names no entry, no
\* survey number, or another status; what is kept keeps every promise of the type.
ASSUME RowsBecomeRecords ==
  \A row \in Listings :
    LET r == Listed!CoerceRecord(row)
    IN IF r = NoValue THEN row = NoValue \/ row.id \in {"", NoValue} \/ row.survey_no = "" \/ row.status = "cleared"
       ELSE Listed!IsRecord(r) /\ r.category = "OTHER" /\ r.id = row.id

\* Of any two rows, each that is a record is drawn once or counted among those that could not
\* be, and its boundary is the register's own or that of the plot it names, untouched.
ASSUME EveryRecordAccounted ==
  \A a, b \in {l \in Listings : l # NoValue /\ l.survey_no # ""} :
    LET answer == AnswerOf(<<a, b>>, SurveyPlots)
        own(f) == f.geometry_source = "register"
    IN /\ Len(answer.features) + answer.register.unlocated_count = answer.register.record_count
       /\ answer.register.record_count = Cardinality({i \in 1..2 : Listed!CoerceRecord(<<a, b>>[i]) # NoValue})
       /\ \A i \in DOMAIN answer.features :
            LET f == answer.features[i] IN
            IF own(f) THEN f.geometry = f.record.geometry
            ELSE f.record.parcel_ref = 2 /\ f.geometry = SurveyPlots[2].geometry /\ f.parcel_label = "12/3"

RecordOf(id, ref, geometry) == Listing(id, "12/3", NoValue, IF ref = NoValue THEN ref ELSE [kind |-> "survey_parcel", id |-> ref], geometry)
Registers == {<<RecordOf("r1", 1, NoValue), RecordOf(second, ref, g)>> :
                second \in {"r1", "r2"}, ref \in {NoValue, 1, 2}, g \in {NoValue, Polygon(Square)}}

\* A face on the map opens its own entry unless an earlier one has its number: then the second
\* can be drawn but neither opened nor outlined.  A plot's own card names the first of its entries.
ASSUME SecondEntryUnreachable ==
  \A rows \in Registers :
    LET fs == AnswerOf(rows, SurveyPlots).features
        faces == Listed!Faces(fs)
        repeated == Len(fs) = 2 /\ fs[1] # fs[2] /\ rows[1].id = rows[2].id
    IN /\ \A i \in DOMAIN faces : (Listed!FirstOf(fs, faces[i].ref) = fs[i]) <=> ~(repeated /\ i = 2)
       /\ \A i \in DOMAIN faces : (Listed!Halo(fs, TRUE, faces[i].ref) = faces[i].ring) <=> ~(repeated /\ i = 2)
       /\ Listed!Halo(fs, FALSE, "r1") = NoValue

\* A resident is shown the entries whose plot their building stands on: not one that is drawn
\* by the register's own boundary round that very plot, for it names no plot.
ASSUME EntryWithoutPlotHidden ==
  LET around == RecordOf("r2", NoValue, Polygon(Rectangle(10, 0, 14, 4)))
      fs == AnswerOf(<<RecordOf("r1", 1, NoValue), around, RecordOf("r3", 2, NoValue)>>, SurveyPlots).features
      shown(c) == {f.record.id : f \in ToSet(Door!Section22A(c, SurveyPlots, fs))}
  IN fs[2].geometry = fs[1].geometry /\ shown(Ravi) = {"r1"} /\ shown(Door!Gov) = {"r1", "r2", "r3"}

\* That the stated and the mapped extent disagree is told from the twentieth of the stated one:
\* of two numbers the card may accept one against the other and not the other against it.
ASSUME ExtentTold ==
  /\ \A stated, mapped \in 1..60 : Listed!ExtentsDisagree(stated, mapped) <=> mapped \notin {m \in 0..70 : 20 * m >= 19 * stated /\ 20 * m <= 21 * stated}
  /\ Listed!ExtentsDisagree(19, 20) /\ ~Listed!ExtentsDisagree(20, 19)
  /\ \A v \in {NoValue, 0, 5} : ~Listed!ExtentsDisagree(v, NoValue) /\ ~Listed!ExtentsDisagree(NoValue, v)

-----------------------------------------------------------------------------
(* The panel: a building of three levels, a resident, their bay and their neighbour *)

Pane == INSTANCE Deed WITH None <- NoValue

Room(id, level, code, more) ==
  more @@ ("id" :> id) @@ ("floor_id" :> level) @@ ("level_no" :> level) @@ ("unit_no" :> code) @@ ("z_min" :> 3 * level)
    @@ ("z_max" :> 3 * level + 3) @@ ("ulpin" :> <<level, code>>) @@ ("ring" :> Rectangle(id, 0, id + 2, 3))
Parked(bay) == IF bay = NoValue THEN <<>> ELSE ("parking_ulpin" :> bay)
Home(units) ==
  [building |-> ("id" :> 9) @@ ("name" :> "tower") @@ ("ulpin" :> "b") @@ ("floors" :> 6) @@ ("basements" :> 1) @@ ("address" :> "road")
                  @@ ("survey_synthetic" :> FALSE) @@ ("height_source" :> "osm_tag") @@ ("ground_elev" :> 0) @@ ("use_type" :> "flats"),
   parcel |-> ("ulpin" :> "p") @@ ("owner" :> "o") @@ ("ulpin3d" :> "p3"),
   floors |-> <<("id" :> -1) @@ ("level_no" :> -1) @@ ("z_min" :> -3) @@ ("z_max" :> 0) @@ ("ulpin" :> "f") @@ ("detect_source" :> "estimated"),
                ("id" :> 2) @@ ("level_no" :> 2) @@ ("z_min" :> 6) @@ ("z_max" :> 9) @@ ("ulpin" :> "g") @@ ("detect_source" :> "surveyed_plan")>>,
   units |-> units]
Mine == ("owner" :> "ravi") @@ ("tenure" :> "freehold") @@ ("built_m2" :> 50) @@ ("carpet_m2" :> 40) @@ ("encumbrance" :> "None")
Spot(id, code) == Room(id, -1, code, ("kind" :> "parking") @@ ("label" :> code) @@ ("ulpin3d" :> <<99, code>>) @@ ("built_m2" :> 12))
Hall == Room(7, 2, "C2", ("kind" :> "circulation") @@ ("label" :> "lobby") @@ ("built_m2" :> 9))
Shaft == Room(8, 2, "L1", ("kind" :> "elevator") @@ ("core_ref" :> "x"))
HomeWith(mine, theirs) ==
  Home(<<Room(1, 2, "201", mine @@ Mine), Room(2, 2, "202", theirs), Spot(3, "P1"), Spot(4, "P2"), Hall, Shaft>>)

Tenant == [role |-> "citizen", floor |-> 2, unit |-> "201"]
Officer == [role |-> "gov", floor |-> NoValue, unit |-> NoValue]
Cards(d, s, tab, hour) ==
  <<[i \in DOMAIN d.units |-> Pane!UnitCard(d.units[i], d.building, d, s, tab, hour)],
    [i \in DOMAIN d.floors |-> Pane!FloorCard(d.floors[i], d.building, d, FALSE)],
    Pane!AreaBreakdown(d), Pane!EncumbranceBreakdown(d), Pane!CitizenCard(d.building, d, s)>>
Taxed(demand, paid) == [demand |-> demand, paid |-> paid, due |-> 10]
Private ==
  {("owner" :> o) @@ ("tax" :> Taxed(t, 5)) @@ ("encumbrance" :> e) @@ ("built_m2" :> b) @@ ("bills" :> <<>>) @@ Parked(p) :
     o \in {"A", "B"}, t \in {5, 9}, e \in {"None", "Lien"}, b \in {30, 60}, p \in {NoValue, <<-1, "P2">>, <<-1, "P1">>}}
Bays == {NoValue, <<-1, "P1">>, <<-1, "P9">>}

\* No card of the panel tells two registers apart that differ only in the neighbour's entry:
\* neither a volume's nor a floor's total, nor the bay's "reserved for".
ASSUME NothingOfAnother ==
  \A bay \in Bays, tab \in {"details", "ladm"} :
    LET shown(theirs) == Cards(Door!NarrowDetail(Ravi, HomeWith(Parked(bay), theirs)), Tenant, tab, 240)
    IN \A theirs \in Private : shown(theirs) = shown(<<>>)

Dues == {t @@ b : t \in {<<>>} \cup {("tax" :> Taxed(demand, paid)) : demand, paid \in {0, 4, 7}},
                 b \in {<<>>} \cup {("bills" :> s) : s \in UNION {[1..n -> [kind : {"water"}, amount : {3}, due : {10}, paid : BOOLEAN]] : n \in 0..2}}}

\* A chip at the head is red exactly when a row below it still asks for something, and what
\* is overdue is unpaid and at least at the midnight its day begins with.
ASSUME RedIsDue ==
  \A dues \in Dues, hour \in {239, 240, 241} :
    LET u == Room(1, 2, "201", dues @@ Mine)
        card == Pane!UnitCard(u, Home(<<u>>).building, Home(<<u>>), Officer, "details", hour)
        red == {c \in card.chips : c[3]}
        bills == {r[3] : r \in card.rows.bills}
    IN /\ (\E c \in red : c[1] \in {"tax due", "tax part-paid"}) <=> \E r \in card.rows.tax : r[1] = "Outstanding"
       /\ (\E c \in red : c[1] = "bills unpaid") <=> bills \cap {"Due", "Overdue"} # {}
       /\ hour <= 240 => "Overdue" \notin bills
       /\ \A c \in red : c[2] > 0

Reads(rows, label) == {r[2] : r \in {x \in rows : x[1] = label}}
Gives(rows, label) == {rows[i][2] : i \in {j \in DOMAIN rows : rows[j][1] = label}}
Issue(u, d, ladm) == Pane!BuildDeed(u, d, "s", Pane!UnitKindOf(u).titled, <<"note">>, ladm)

\* The flat's card and its certificate print one identifier of the bay, and not the one the
\* bay's own card prints, once the bay has the new one.
ASSUME BayPrintedByOldName ==
  LET d == HomeWith(Parked(<<-1, "P1">>), <<>>)
      card(i) == Pane!UnitCard(d.units[i], d.building, d, Officer, "details", 0)
  IN /\ Reads(card(1).rows.parking, "Bay 3D ULPIN") = Gives(Pane!DeedParkingRows(Issue(d.units[1], d, NoValue)), "Bay 3D ULPIN")
     /\ card(3).card[1] \notin Reads(card(1).rows.parking, "Bay 3D ULPIN")
     /\ Reads(card(3).rows.title, "Reserved for") = {<<"201", "ravi">>}

\* Of two flats whose registers name one bay, both cards carry it; the bay names the first.
ASSUME BayNamedTwice ==
  LET d == HomeWith(Parked(<<-1, "P1">>), Parked(<<-1, "P1">>) @@ ("owner" :> "B"))
      card(i) == Pane!UnitCard(d.units[i], d.building, d, Officer, "details", 0)
  IN card(1).rows.parking = card(2).rows.parking /\ Reads(card(3).rows.title, "Reserved for") = {<<"201", "ravi">>}

\* The building's totals are those of the volumes whose areas were served, above and below
\* ground together; the lobby, whose area is of nobody, is in neither.
ASSUME TotalsAddUp ==
  \A theirs \in Private :
    LET d == Door!NarrowDetail(Door!Gov, HomeWith(<<>>, theirs))
        area == Pane!AreaBreakdown(d)
    IN /\ area.total = area.above + area.below /\ area.below = 24 /\ area.above = 50 + theirs["built_m2"]
       /\ area.aboveCount + area.belowCount = 4
       /\ Pane!EncumbranceBreakdown(d)["None"] + Pane!EncumbranceBreakdown(d)["Lien"] = 2
       /\ Reads(Pane!FloorCard(d.floors[2], d.building, d, FALSE).rows, "Total built-up") = {area.above}

Recorded2 == ("id" :> 9) @@ ("name" :> "tower") @@ ("parcel_id" :> 1) @@ ("centre" :> <<0, 0>>) @@ ("height_m" :> 3)
               @@ ("ground_source" :> "dsm_dem") @@ Home(<<>>).building
Card(d, pending, editing) ==
  Pane!BuildingCard(Recorded2, d, pending, Officer, editing, NoValue, [ranAt |-> NoValue, findings |-> <<>>], <<Recorded2>>,
                    [layer |-> "lulc", pending |-> pending, class |-> "none"])

\* While the document is on its way the card keeps every row the collection already has and
\* offers no edit; that storeys were edited is said only against the floors of a document.
ASSUME CardWhileLoading ==
  \A d \in {Home(<<>>), HomeWith(<<>>, <<>>)}, editing \in BOOLEAN :
    LET before == Card(NoValue, TRUE, editing)
        after == Card(d, FALSE, editing)
        labels(card) == {r[1] : r \in card.rows}
    IN /\ labels(after) = labels(before)
       /\ before.edit = (IF editing THEN "editing" ELSE "waiting") /\ after.edit = (IF editing THEN "editing" ELSE "offered")
       /\ ~before.edited /\ before.areas = {} /\ (after.areas = {} <=> d.units = <<>>)
       /\ after.edited /\ after.siblings = {} /\ after.encroachments = "not checked"

\* That a building meets nothing is said only after a run, and of the last run that answered:
\* a later one that failed does not take it back, though the project's summary says it failed.
ASSUME EncroachmentsOfLastRun ==
  LET touching == [kind |-> "k", severity |-> "critical", a |-> [building |-> 9], b |-> [building |-> NoValue]]
      run(ranAt, error, fs) == [running |-> FALSE, error |-> error, ranAt |-> ranAt, findings |-> fs, selected |-> NoValue]
  IN /\ \A error \in {NoValue, "e"} :
          /\ Pane!Encroachments(run(NoValue, error, <<>>), 9) = "not checked"
          /\ Pane!Encroachments(run("t", error, <<touching>>), 8) = "none"
          /\ Pane!Encroachments(run("t", error, <<touching>>), 9) = "listed"
     /\ Pane!TopologyFindings(run("t", "e", <<>>))[1] = "error" /\ Pane!TopologyFindings(run(NoValue, NoValue, <<>>)) = <<>>
     /\ LET t == run("t", NoValue, <<touching>>) IN Pane!FindingPressed(Pane!FindingPressed(t, 1), 1) = t

\* A run of no category is shown at water's drawn depth, and one that was surveyed says it was
\* generated from road centrelines.
ASSUME MetroBorrowsWater ==
  LET run(source) == [id |-> 1, asset_type |-> "metro", depth |-> -9, status |-> "s", provenance |-> source]
      card(source) == Pane!UtilityCard(run(source), NoValue, 0, "water" :> 3, <<>>)
  IN /\ Reads(card("surveyed").drawn, "depth") = {-6}
     /\ card("surveyed").provenance = [badge |-> [source |-> "surveyed_plan", demo |-> FALSE, solid |-> TRUE],
                                       caveat |-> "generated from road centrelines"]

Footings == {<<[id |-> 1, centre |-> <<0, 0>>, parcel_id |-> 1]>> \o [i \in 1..6 |-> [id |-> i + 1, centre |-> <<x[i], 0>>, parcel_id |-> i % 2]] :
               x \in [1..6 -> {3, 40, 60}]}

\* No building beyond the five that are listed is nearer than one that is, and none is as far
\* as the radius; a building is never its own neighbour or sibling.
ASSUME NearestFive ==
  \A bs \in Footings :
    LET near == Pane!NeighboursOf(bs, bs[1], 50)
        left == {b \in ToSet(Tail(bs)) : b.centre[1] <= 50} \ ToSet(near)
    IN /\ Len(near) = Min({5, Cardinality({b \in ToSet(Tail(bs)) : b.centre[1] <= 50})})
       /\ \A n \in ToSet(near) : n.id # 1 /\ n.centre[1] <= 50 /\ \A b \in left : n.centre[1] <= b.centre[1]
       /\ \A n \in ToSet(Pane!Siblings(bs, bs[1])) : n.parcel_id = 1 /\ n.id # 1

\* The same plot has two identifiers: its own card mints one of its number, and the card of a
\* prohibited entry on it prints that of the surface parcel which happens to have its number.
ASSUME CardNamesAnotherPlot ==
  \A surface \in {<<>>, <<[id |-> 7, ulpin3d |-> "other"]>>, <<[id |-> 2, ulpin3d |-> NoValue]>>, <<[id |-> 2, ulpin3d |-> "other"]>>} :
    LET fs == AnswerOf(<<RecordOf("r1", 2, NoValue)>>, SurveyPlots).features
        plot == SurveyPlots[2] @@ [provenance |-> "derived", extent_sqm |-> 20, building_count |-> 0]
        mine == Pane!PlotCard(plot, "TS-HYD", fs, FALSE, NoValue).identifier
        theirs == Listed!Section22ACard(fs[1], NoValue, surface, "TS-HYD", TRUE)
        borrowed == \E p \in ToSet(surface) : p.id = 2 /\ p.ulpin3d # NoValue
    IN theirs.identifier = (IF borrowed THEN "other" ELSE mine) /\ "mock" \in theirs.notes

-----------------------------------------------------------------------------
(* The certificate *)

\* A resident can take away a certificate of their own flat and of its bay and of nothing
\* else, and every line of it is one the officer's would have, but for the building's: the
\* identifier they are not given is printed as undefined.
ASSUME DeedOfOwn ==
  \A bay \in Bays, theirs \in {<<>>, Parked(<<-1, "P1">>)} :
    LET d == HomeWith(Parked(bay), theirs)
        v == Door!NarrowDetail(Ravi, d)
        o == Door!NarrowDetail(Door!Gov, d)
    IN /\ \A i \in DOMAIN v.units : Issue(v.units[i], v, NoValue) # NoValue <=> i = 1 \/ (i = 3 /\ bay = <<-1, "P1">>)
       /\ LET mine == ToSet(Pane!DeedRows(Issue(v.units[1], v, NoValue)))
              whole == ToSet(Pane!DeedRows(Issue(o.units[1], o, NoValue)))
          IN mine \ whole = {<<"Building", <<"tower", NoValue>>>>} /\ {r[1] : r \in whole \ mine} = {"Building", "Parcel"}

\* The panel and the certificate of one volume: the same areas where there are any, and where
\* there are none the panel's are zero and the certificate's absent; of a parcel with the new
\* identifier one prints the old and the other the new.
ASSUME PanelAndDeedApart ==
  LET d == HomeWith(<<>>, <<>>)
      card(i) == Pane!UnitCard(d.units[i], d.building, d, Officer, "details", 0).rows
      rows(i) == Pane!DeedRows(Issue(d.units[i], d, NoValue))
  IN /\ Reads(card(1).space, "Carpet area") = Gives(rows(1), "Carpet area")
     /\ Reads(card(2).space, "Volume") = {0} /\ Gives(rows(2), "Volumetric extent") = {}
     /\ Reads(card(2).title, "Held by") = {"Not on record"} /\ Gives(rows(2), "Held by") = {}
     /\ Reads(card(1).where, "Parent parcel") = {<<"parcel", "p">>} /\ Gives(rows(1), "Parcel") = {"p3"}

\* "Absent only on a redacted unit": a lobby's identity is served to nobody, and its certificate
\* is issued without one and resolves to the building.
ASSUME FabricIsIssued ==
  LET o == Door!NarrowDetail(Door!Gov, HomeWith(<<>>, <<>>))
      deed == Issue(o.units[5], o, NoValue)
  IN Pane!Offered(o.units[5], "project") /\ deed.ulpin = NoValue /\ deed.api_url = <<"s", 9>> /\ Gives(Pane!DeedRows(deed), "3D ULPIN") = {}

\* Every certificate anyone can take away keeps the promises of its type.
ASSUME DeedKeepsItsType ==
  \A bay \in Bays, theirs \in {<<>>, Mine, Parked(<<-1, "P1">>)}, caller \in {Ravi, Door!Gov} :
    LET d == Door!NarrowDetail(caller, HomeWith(Parked(bay), theirs))
    IN \A i \in DOMAIN d.units : Issue(d.units[i], d, NoValue) = NoValue \/ Pane!IsDeed(Issue(d.units[i], d, NoValue))

LegalOf(restricted) ==
  [su |-> [su |-> "x", dimension |-> "3D", provenance |-> "surveyed", height |-> [msl |-> <<6, 9>>, ellipsoidal |-> NoValue]],
   ba |-> NoValue, rrrs |-> IF restricted THEN <<>> ELSE <<[type |-> "ownership", class |-> "right", party |-> "ravi", reference |-> "d"]>>,
   parties |-> <<>>, easements |-> <<>>, restricted |-> restricted]
Answers == {NoValue} \cup [status : {200, 404, 500}, doc : {NoValue, LegalOf(TRUE), LegalOf(FALSE)}]

\* Whatever becomes of the request, the certificate is issued; it has a legal section exactly
\* when a whole record was read, and a press while one is being made is not another.
ASSUME IssuedWithoutRegistry ==
  \A answer \in Answers, rendered \in BOOLEAN :
    LET d == HomeWith(<<>>, <<>>)
        u == d.units[1]
        project == [slug |-> "s", geoid_sep_m |-> -65]
        busy == Pane!Press(Pane!Idle, u, project)
        end == Pane!Finish(busy, u, d, project, TRUE, answer, rendered)
    IN /\ busy.busy /\ Pane!Press(busy, u, project) = busy /\ ~end.busy
       /\ rendered = (end.saved # NoValue) /\ rendered = (end.error = NoValue)
       /\ rendered => (Pane!LadmRows(end.saved) # <<>> <=> answer # NoValue /\ answer.status = 200 /\ answer.doc = LegalOf(FALSE))

RecordLines == {[i \in 1..n |-> IF i \in long THEN 2 ELSE 1] : n \in {6, 11, 16}, long \in {{}, {2, 4}}}
Registries == {<<>>} \cup {[i \in 1..n |-> w] : n \in {5, 24, 33, 60}, w \in {1, 2}}

\* However long the tables, nothing is laid beneath the foot of a sheet or over what was laid
\* before it, no sheet is skipped, and each says that it is no instrument of title.
ASSUME NothingOffTheSheet ==
  \A record \in RecordLines, parking \in {<<>>, <<1, 1, 1, 1, 1>>}, registry \in Registries, named \in BOOLEAN :
    LET out == Pane!RenderDeed(named, 2, record, parking, [i \in 1..8 |-> 1], registry, 1, 2)
        before(p, q) == p.page < q.page \/ (p.page = q.page /\ p.to <= q.from)
    IN /\ \A i \in DOMAIN out.laid : out.laid[i].from >= Pane!Top /\ out.laid[i].to <= Pane!Foot /\ Pane!Foot < Pane!Stamp
       /\ \A i \in 1..(Len(out.laid) - 1) : before(out.laid[i], out.laid[i + 1])
       /\ {b.page : b \in ToSet(out.laid)} = 1..out.pages /\ out.stamped = 1..out.pages

\* "Past the QR block": the section after a record of six lines begins beside it.
ASSUME ShortRecordBesideCode ==
  LET first(named, record) ==
        LET out == Pane!RenderDeed(named, 2, record, <<>>, [i \in 1..8 |-> 1], <<>>, 1, 2)
        IN out.laid[Len(out.record) + 1].from >= out.qr.to
  IN ~first(FALSE, [i \in 1..6 |-> 1]) /\ first(FALSE, [i \in 1..8 |-> 1]) /\ \A record \in RecordLines : Len(record) > 6 => first(TRUE, record)

-----------------------------------------------------------------------------

Symmetry == Permutations(Requests)
=============================================================================
