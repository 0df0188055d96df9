------------------------------- MODULE Plots --------------------------------
(***************************************************************************)
(* The plane geometry of the seeding scripts: footprints become parcels    *)
(* (build_geometry.sql), parcels become survey parcels (survey_parcels.sql) *)
(* and buildings are joined to these (survey_parcel_join.sql).             *)
(*                                                                         *)
(* A region is a set of squares <<x, y>> of a grid; the thresholds of the  *)
(* scripts, in square metres and metres, are counted in squares.           *)
(***************************************************************************)
EXTENDS Integers, FiniteSets, FiniteSetsExt, Functions, SequencesExt

CONSTANTS Sheet,     \* the squares of the project's bounding box
          MinHouse,  \* 12 m2: a smaller footprint is not a building
          Reach,     \* 18 m: nearer buildings share a parcel
          Trim,      \* 7 m: a parcel goes no further from what is built on it
          MinCell,   \* 4 m2: a smaller piece of a footprint is not a unit
          MinLanduse,\* 400 m2
          Sliver     \* 25 m2

-----------------------------------------------------------------------------
(* What PostGIS answers *)

Area(S) == Cardinality(S)

Square(n) == n * n
Apart(p, q) == Square(p[1] - q[1]) + Square(p[2] - q[2])

\* The classes of S whose members hang together, one near another: beside[p] is what is near p.
Groups(S, beside) ==
  LET join(p, P) == LET Q == {G \in P : beside[p] \cap G # {}} IN (P \ Q) \cup {UNION Q \cup {p}}
  IN FoldSet(join, {}, S)

\* ST_Dump: the pieces that hang together along edges.
Pieces(S) == Groups(S, [p \in S |-> {q \in S : Apart(p, q) <= 1}])

\* ORDER BY ST_Area(d.geom) DESC LIMIT 1, one of the largest if there are several.
Largest(S) ==
  IF S = {} THEN {} ELSE CHOOSE P \in Pieces(S) : \A Q \in Pieces(S) : Area(P) >= Area(Q)

Centroid(S) ==
  <<SumFunction([p \in S |-> p[1]]) \div Area(S), SumFunction([p \in S |-> p[2]]) \div Area(S)>>

Buffer(S, d) == {q \in Sheet : \E p \in S : Apart(p, q) <= Square(d)}

\* ST_Intersects of two plots: they share a corner at least.
Meets(S, T) == \E p \in S, q \in T : Apart(p, q) <= 2

\* The length of the common boundary.
Border(S, T) == Cardinality({e \in S \X T : Apart(e[1], e[2]) = 1})

\* ST_VoronoiPolygons; a square on a border goes to the seed before.
Cell(seeds, i) ==
  {q \in Sheet : \A j \in DOMAIN seeds :
     Apart(q, seeds[i]) < Apart(q, seeds[j]) + (IF i <= j THEN 1 ELSE 0)}

-----------------------------------------------------------------------------
(* build_geometry.sql *)

\* b_norm: the largest polygon of each footprint, unless it is too small.
Normal(footprints) == {S \in {Largest(F) : F \in footprints} : Area(S) >= MinHouse}

\* ST_ClusterDBSCAN with one point to a cluster.
Clusters(houses) ==
  Groups(houses, [S \in houses |-> {T \in houses : Apart(Centroid(S), Centroid(T)) <= Square(Reach)}])

North(S) == Max({p[2] : p \in S})

\* p_norm and parcel_seq: a parcel is the trimmed cell of a cluster's centre; what is
\* left with nothing goes, and the rest is numbered from the north.
Parcels(footprints) ==
  LET clusters == SetToSeq(Clusters(Normal(footprints)))
      built == [i \in DOMAIN clusters |-> UNION clusters[i]]
      seeds == [i \in DOMAIN clusters |-> Centroid(built[i])]
      curtilage(i) == Largest(Cell(seeds, i) \cap Buffer(built[i], Trim))
      all == {[land |-> curtilage(i), built |-> built[i], houses |-> clusters[i]] :
                i \in DOMAIN clusters}
  IN SetToSortSeq({p \in all : p.land # {}}, LAMBDA p, q : North(p.land) > North(q.land))

\* unit_cells: a footprint cut in nx by ny, from the west and the south; of each part
\* the largest piece, unless the part is too small.
UnitCells(S, nx, ny) ==
  LET x0 == Min({p[1] : p \in S}) x1 == Max({p[1] : p \in S}) + 1
      y0 == Min({p[2] : p \in S}) y1 == Max({p[2] : p \in S}) + 1
      part(i, j) == {p \in S : /\ ((p[1] - x0) * nx) \div (x1 - x0) = i
                               /\ ((p[2] - y0) * ny) \div (y1 - y0) = j}
      parts == [k \in 1..(nx * ny) |-> part((k - 1) \div ny, (k - 1) % ny)]
      kept == SelectSeq(parts, LAMBDA T : Area(T) >= MinCell)
  IN [k \in DOMAIN kept |-> Largest(kept[k])]

-----------------------------------------------------------------------------
(* survey_parcels.sql.  A plot is a function of the number of its parcel. *)

Seeds(parcels) == [i \in DOMAIN parcels |-> Centroid(parcels[i].built)]

\* The smallest land use the seed stands in, if it is large enough.
Bounds(landuse, seed) ==
  LET around == {L \in landuse : Area(L) >= MinLanduse /\ seed \in L}
  IN IF around = {} THEN Sheet
     ELSE CHOOSE L \in around : \A K \in around : Area(L) <= Area(K)

Cut(parcels, landuse, corridor) ==
  LET seeds == Seeds(parcels)
      plot(i) == Cell(seeds, i) \cap Bounds(landuse, seeds[i])
      kept(i) == IF seeds[i] \in plot(i) THEN plot(i) ELSE Cell(seeds, i)
      cut == [i \in DOMAIN parcels |-> Largest(kept(i) \ corridor)]
  IN [i \in {k \in DOMAIN cut : cut[k] # {}} |-> cut[i]]

Slivers(plots) == {i \in DOMAIN plots : Area(plots[i]) < Sliver}

Into(plots, s) ==
  LET better(c, d) ==
        LET bc == Border(plots[c], plots[s]) bd == Border(plots[d], plots[s])
        IN \/ bc > bd
           \/ bc = bd /\ Area(plots[c]) > Area(plots[d])
           \/ bc = bd /\ Area(plots[c]) = Area(plots[d]) /\ c <= d
      whole == {c \in DOMAIN plots \ Slivers(plots) : Meets(plots[c], plots[s])}
  IN {c \in whole : \A d \in whole : better(c, d)}

\* One pass: every sliver goes to a neighbour that is none, if it has one.
Dissolved(plots) ==
  LET gone == {s \in Slivers(plots) : Into(plots, s) # {}}
      added(c) == UNION {plots[s] : s \in {g \in gone : c \in Into(plots, g)}}
  IN [c \in DOMAIN plots \ gone |-> IF added(c) = {} THEN plots[c]
                                    ELSE Largest(plots[c] \cup added(c))]

Plots(parcels, landuse, corridor) ==
  Dissolved(Dissolved(Dissolved(Cut(parcels, landuse, corridor))))

-----------------------------------------------------------------------------
(* survey_parcel_join.sql *)

\* The plot that shares most with the footprint, the first if several do; one of the
\* nearest if it meets none.
JoinedTo(plots, house) ==
  LET shared(i) == Area(plots[i] \cap house)
      met == {i \in DOMAIN plots : Meets(plots[i], house)}
      far(i) == Min({Apart(p, q) : p \in plots[i], q \in house})
  IN IF met # {}
     THEN {i \in met : \A j \in met : shared(i) > shared(j) \/ (shared(i) = shared(j) /\ i <= j)}
     ELSE {i \in DOMAIN plots : \A j \in DOMAIN plots : far(i) <= far(j)}
=============================================================================
