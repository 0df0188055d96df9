------------------------------ MODULE Cadastre ------------------------------
(***************************************************************************)
(* The rows that build_geometry.sql and utilities.sql make of a project's  *)
(* parcels: what each row is numbered and named, and how high it reaches.  *)
(*                                                                         *)
(* A parcel is the sequence of its buildings, the largest first; parcels   *)
(* come from the north (Plots).  Heights are in centimetres.               *)
(***************************************************************************)
EXTENDS Ulpin, SequencesExt, FiniteSetsExt

Storey == 320

Tables == {"parcel", "building", "floor", "unit"}

Empty == [t \in Tables |-> {}]

\* row_number() OVER (...) + offset.
Numbered(rows, offset) == {rows[i] @@ [id |-> offset + i] : i \in DOMAIN rows}

Offset(rows) == IF rows = {} THEN 0 ELSE Max({r.id : r \in rows})

-----------------------------------------------------------------------------
(* Rows *)

\* generate_series(-basements, floors - 1).
LevelsOf(b) == [k \in 1..(b.basements + b.floors) |-> k - 1 - b.basements]

Bottom(b, level) == b.ground + level * Storey
Top(b, level) == Bottom(b, level) + Storey

ParcelRows(p, parcels) ==
  [i \in DOMAIN parcels |-> [of |-> p, pno |-> i, key |-> <<i, None, None, None>>]]

BuildingRows(p, parcels) ==
  FlattenSeq([i \in DOMAIN parcels |->
    [j \in DOMAIN parcels[i] |->
      parcels[i][j] @@ [of |-> p, pno |-> i, bno |-> j, key |-> <<i, j, None, None>>]]])

FloorRows(buildings) ==
  FlattenSeq([k \in DOMAIN buildings |->
    LET b == buildings[k] IN
    [l \in DOMAIN LevelsOf(b) |->
      LET level == LevelsOf(b)[l] IN
      [of |-> b.of, b |-> b, level |-> level, low |-> Bottom(b, level), high |-> Top(b, level),
       key |-> <<b.pno, b.bno, level, None>>]]])

\* "Above-ground levels only": one unit for each cell of the footprint.
UnitRows(floors) ==
  FlattenSeq([k \in DOMAIN floors |->
    LET f == floors[k] IN
    [n \in 1..(IF f.level < 0 THEN 0 ELSE f.b.cells) |->
      [of |-> f.of, floor |-> f, n |-> n, low |-> f.low + 15, high |-> f.high - 35,
       key |-> <<f.b.pno, f.b.bno, f.level, n>>]]])

\* The project's rows are replaced; ids go on after the highest that is left.
Rebuilt(tables, p, parcels) ==
  LET kept == [t \in Tables |-> {r \in tables[t] : r.of # p}]
      buildings == BuildingRows(p, parcels)
      floors == FloorRows(buildings)
      new == [parcel |-> ParcelRows(p, parcels), building |-> buildings, floor |-> floors,
              unit |-> UnitRows(floors)]
  IN [t \in Tables |-> kept[t] \cup Numbered(new[t], Offset(kept[t]))]

\* ulpin_fmt with the codes of the project.
Ulpin7(codes, row) == UlpinFmt(codes[row.of], row.key[1], row.key[2], row.key[3], row.key[4])

\* ulpin is UNIQUE in the whole table: an insert that repeats one fails, and with it the run.
Inserted(tables, codes) ==
  \A t \in Tables : \A r, s \in tables[t] : r # s => Ulpin7(codes, r) # Ulpin7(codes, s)

\* chr(65 + level % 26) || lpad(idx, 2, '0').
UnitNo(unit) == <<10 + (unit.floor.level % 26)>> \o Lpad(unit.n, 2)

\* The illustrative buffer over the tallest building.
AirRights(tables, p) ==
  LET own == {b \in tables["building"] : b.of = p}
  IN {[over |-> b, low |-> b.ground + b.height, high |-> b.ground + b.height + 2000] :
        b \in {c \in own : \A d \in own : c.height >= d.height}}

-----------------------------------------------------------------------------
(* utilities.sql.  A road is a class and the parcels its corridors pass. *)

Assets == {"water", "sewer", "power", "metro"}

Depth == [water |-> -150, sewer |-> -300, power |-> -100, metro |-> -1400]
Radius == [water |-> 25, sewer |-> 40, power |-> 20, metro |-> 320]

Arterial == {"motorway", "trunk", "primary", "secondary"}
Serviced == Arterial \cup {"tertiary", "residential", "unclassified", "living_street"}

\* avg(ground_elev).
Datum(buildings) ==
  SumFunction([b \in buildings |-> b.ground]) \div Cardinality(buildings)

\* One run for each road that is long enough and each asset; the metro under arterials.
Runs(roads) ==
  {[asset |-> a, road |-> r] :
     a \in Assets, r \in {s \in DOMAIN roads : roads[s].class \in Serviced /\ roads[s].length >= 40}}
    \ {[asset |-> "metro", road |-> r] : r \in {s \in DOMAIN roads : roads[s].class \notin Arterial}}

\* The sewer laid through the largest building with a basement, at that one's ground.
Victims(buildings) ==
  LET deep == {b \in buildings : b.basements >= 1}
  IN {b \in deep : \A c \in deep : b.area >= c.area}

\* The solid the conflict test uses: around the datum, whatever the line's own height.
Envelope(buildings, asset) ==
  [low |-> Datum(buildings) + Depth[asset] - Radius[asset],
   high |-> Datum(buildings) + Depth[asset] + Radius[asset]]

\* ST_3DIntersects of two prisms that meet in the plan.
Through(envelope, floor) == envelope.low <= floor.high /\ floor.low <= envelope.high

\* What the gate of 04_utilities.py counts, of the deliberate sewer.
DeliberateConflicts(buildings) ==
  {<<b, l>> \in UNION {{b} \X (-b.basements..-1) : b \in Victims(buildings)} :
     Through(Envelope(buildings, "sewer"), [low |-> Bottom(b, l), high |-> Top(b, l)])}

\* infra_id: one series for each asset, in the order of the ids, which is that of the
\* asset and the road, the deliberate sewer last.
Serials(asset, roads, deliberate) ==
  1..(Cardinality({r \in Runs(roads) : r.asset = asset})
       + (IF asset = "sewer" /\ deliberate THEN 1 ELSE 0))

\* infra_parcel_link: no row goes with its utility; those of the serials in use are
\* replaced.
Linked(links, p, serials, new) ==
  {l \in links : l.of # p \/ l.serial \notin serials} \cup new
=============================================================================
