-------------------------------- MODULE Rings -------------------------------
(***************************************************************************)
(* The plane geometry of lib/geo.ts and lib/topology.ts.  A corner is a    *)
(* pair of whole numbers of one metric frame; a ring is the sequence of    *)
(* its corners, closed by repeating the first.  Distances are kept squared *)
(* and, like the points of a search, as fractions <<n, d>>.  An inset or a *)
(* cut is of a ring whose edges run along the axes, so that it has whole   *)
(* corners too.                                                            *)
(***************************************************************************)
EXTENDS Integers, FiniteSets, FiniteSetsExt, SequencesExt

Square(n) == n * n
Sign(n) == IF n > 0 THEN 1 ELSE IF n = 0 THEN 0 ELSE -1

Infinity == <<1, 0>>
Less(f, g) == f[1] * g[2] < g[1] * f[2]
Least(S) == CHOOSE f \in S \cup {Infinity} : \A g \in S : ~Less(g, f)

Closed(ring) == Len(ring) > 2 /\ ring[1] = Last(ring)
Open(ring) == IF Closed(ring) THEN Front(ring) ELSE ring
Close(R) == Append(R, R[1])
Next(R, i) == R[(i % Len(R)) + 1]

Edges(R) == {<<R[i], Next(R, i)>> : i \in DOMAIN R}
Segments(L) == {<<L[i], L[i + 1]>> : i \in 1..(Len(L) - 1)}

Total(s) == FoldLeft(LAMBDA t, n : t + n, 0, s)

\* signedArea2: positive if the corners run counter-clockwise.
SignedArea2(R) == Total([i \in DOMAIN R |-> R[i][1] * Next(R, i)[2] - Next(R, i)[1] * R[i][2]])

\* The centroid, times the number of corners.
Centroid(R) == <<Total([i \in DOMAIN R |-> R[i][1]]), Total([i \in DOMAIN R |-> R[i][2]])>>

-----------------------------------------------------------------------------
(* Distances *)

\* segDist2: to an end, or to the foot of the perpendicular.
SegDist2(p, e) ==
  LET a == e[1] b == e[2]
      len2 == Square(b[1] - a[1]) + Square(b[2] - a[2])
      along == (p[1] - a[1]) * (b[1] - a[1]) + (p[2] - a[2]) * (b[2] - a[2])
      to(q) == <<Square(p[1] - q[1]) + Square(p[2] - q[2]), 1>>
  IN CASE along <= 0    -> to(a)
       [] along >= len2 -> to(b)
       [] OTHER -> <<Square((p[1] - a[1]) * (b[2] - a[2]) - (p[2] - a[2]) * (b[1] - a[1])), len2>>

\* Even-odd containment.
Encloses(R, p) ==
  LET crossed == {e \in Edges(R) :
        /\ (e[2][2] > p[2]) # (e[1][2] > p[2])
        /\ LET rise == e[1][2] - e[2][2]
           IN Sign(rise) * (p[1] - e[2][1]) * rise
                < Sign(rise) * (p[2] - e[2][2]) * (e[1][1] - e[2][1])}
  IN Cardinality(crossed) % 2 = 1

SegmentsCross(e, f) ==
  LET side(p, q, r) == Sign((q[2] - p[2]) * (r[1] - q[1]) - (q[1] - p[1]) * (r[2] - q[2]))
  IN /\ side(e[1], e[2], f[1]) # side(e[1], e[2], f[2])
     /\ side(f[1], f[2], e[1]) # side(f[1], f[2], e[2])

Nearest(points, edges) == Least({SegDist2(p, e) : p \in points, e \in edges})

-----------------------------------------------------------------------------
(* The place of a label *)

Scaled(R, k) == [i \in DOMAIN R |-> <<R[i][1] * k, R[i][2] * k>>]

Box(R) ==
  LET xs == {p[1] : p \in ToSet(R)} ys == {p[2] : p \in ToSet(R)}
  IN [west |-> Min(xs), south |-> Min(ys), east |-> Max(xs), north |-> Max(ys)]

\* distanceToRing, squared, of edges along the axes.
DistanceToRing(R, p) ==
  LET beyond(e, k) == Max({0, Min({e[1][k], e[2][k]}) - p[k], p[k] - Max({e[1][k], e[2][k]})})
  IN Min({Square(beyond(e, 1)) + Square(beyond(e, 2)) : e \in Edges(R)})

\* search: of the samples of a grid, the enclosed one farthest from the ring, the first
\* of them in its order; <<>> with none.
Search(R, x0, y0, dx, dy, steps) ==
  LET samples == [k \in 1..((steps + 1) * (steps + 1)) |->
                   LET i == (k - 1) \div (steps + 1) j == (k - 1) % (steps + 1)
                       p == <<x0 + dx * i, y0 + dy * j>>
                   IN [at |-> p, d |-> DistanceToRing(R, p)]]
      better(best, s) == IF ~Encloses(R, s.at) THEN best
                         ELSE IF best = <<>> THEN <<s>>
                         ELSE IF best[1].d < s.d THEN <<s>> ELSE best
  IN FoldLeft(better, <<>>, samples)

\* ringPoleOfInaccessibility, in forty-eighths: twelve steps to the box, then eight
\* to the square about the winner.  <<>> is the centroid.
Pole(ring) ==
  LET R == Scaled(Open(ring), 48) b == Box(Open(ring))
      w == b.east - b.west h == b.north - b.south
      coarse == Search(R, 48 * b.west, 48 * b.south, 4 * w, 4 * h, 12)
      at == coarse[1].at
      fine == Search(R, at[1] - 4 * w, at[2] - 4 * h, w, h, 8)
  IN IF w = 0 \/ h = 0 \/ coarse = <<>> THEN <<>>
     ELSE IF fine # <<>> /\ coarse[1].d < fine[1].d THEN fine[1].at ELSE at

-----------------------------------------------------------------------------
(* Seams and sections of the floor view *)

\* radialShrink: fifteen per cent toward the centroid, in twentieths of a corner count.
Fine(R) == 20 * Len(R)
RadialShrink(R) ==
  [i \in DOMAIN R |-> [k \in 1..2 |-> 17 * Len(R) * R[i][k] + 3 * Centroid(R)[k]]]

\* The lines of the edges, each moved inward.
Moved(R, metres) ==
  LET inward == IF SignedArea2(R) > 0 THEN 1 ELSE -1
  IN [i \in DOMAIN R |->
       LET dx == Sign(Next(R, i)[1] - R[i][1]) dy == Sign(Next(R, i)[2] - R[i][2])
       IN [p |-> <<R[i][1] - dy * inward * metres, R[i][2] + dx * inward * metres>>, d |-> <<dx, dy>>]]

\* Where two of them meet; the start of the second if they are one line.
Meet(a, b) ==
  CASE a.d[1] # 0 /\ b.d[2] # 0 -> <<b.p[1], a.p[2]>>
    [] a.d[2] # 0 /\ b.d[1] # 0 -> <<a.p[1], b.p[2]>>
    [] OTHER -> b.p

Offset(R, metres) ==
  LET lines == Moved(R, metres)
  IN [i \in DOMAIN R |-> Meet(lines[IF i = 1 THEN Len(R) ELSE i - 1], lines[i])]

Magnitude(n) == IF n < 0 THEN -n ELSE n

\* Smaller, wound the same way, and not a sliver.
Shrank(R, S) ==
  LET old == SignedArea2(R) new == SignedArea2(S)
  IN /\ Sign(new) = Sign(old)
     /\ Magnitude(new) < Magnitude(old)
     /\ 100 * Magnitude(new) >= 15 * Magnitude(old)

\* insetRing, in the units of Fine.
InsetRing(ring, metres) ==
  LET R == Open(ring)
      closed(S) == IF Closed(ring) THEN Close(S) ELSE S
      flat == \E e \in Edges(R) : e[1] = e[2]
  IN IF metres <= 0 \/ Len(R) < 3 \/ SignedArea2(R) = 0 THEN Scaled(ring, Fine(R))
     ELSE IF ~flat /\ Shrank(R, Offset(R, metres))
     THEN closed(Scaled(Offset(R, metres), Fine(R)))
     ELSE closed(RadialShrink(R))

\* slicePlane: how far along its axis, in hundredths of a corner's share, a percentage
\* of the half extent lies from the centroid.
SliceAt(ring, axis, percent) ==
  LET R == Front(ring) n == Len(R)
      reach == Max({n} \cup {Magnitude(n * p[axis] - Centroid(R)[axis]) : p \in ToSet(R)})
  IN 100 * Centroid(R)[axis] + Max({-100, Min({100, percent})}) * reach

\* clipRingToHalfPlane: what lies before the plane, <<>> if that is nothing or a sliver.
ClipRing(ring, axis, at) ==
  LET R == Open(ring)
      kept(i) == R[i][axis] <= at
      cut(i) == [R[i] EXCEPT ![axis] = at]
      out == FlattenSeq([i \in DOMAIN R |->
               (IF kept(i) THEN <<R[i]>> ELSE <<>>)
                 \o (IF kept(i) # (Next(R, i)[axis] <= at) THEN <<cut(i)>> ELSE <<>>)])
  IN IF Len(R) < 3 \/ Len(out) < 3 \/ SignedArea2(out) = 0 THEN <<>>
     ELSE IF Closed(ring) THEN Close(out) ELSE out

-----------------------------------------------------------------------------
(* Runs: a vertex is <<x, y, z>> *)

Plan(c) == <<c[1], c[2]>>

\* planRunGeometry: vertices that stand over one another are a riser if their heights
\* differ, and leave one vertex in the tube, at the height the line goes on from.
PlanRun(coords) ==
  LET take(run, c) ==
        IF run.tube # <<>> /\ Plan(run.first) = Plan(c)
        THEN [run EXCEPT !.tube = Append(Front(@), c), !.over = Append(Front(@), Last(@) \cup {c[3]})]
        ELSE [tube |-> Append(run.tube, c), over |-> Append(run.over, {c[3]}), first |-> c]
      all == FoldLeft(take, [tube |-> <<>>, over |-> <<>>, first |-> <<>>], coords)
  IN [tube |-> IF Len(all.tube) < 2 THEN <<>> ELSE all.tube,
      risers |-> {[at |-> Plan(all.tube[i]), z0 |-> Min(all.over[i]), z1 |-> Max(all.over[i])] :
                    i \in {k \in DOMAIN all.tube : Cardinality(all.over[k]) > 1}}]
=============================================================================
