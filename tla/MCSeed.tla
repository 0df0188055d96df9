------------------------------- MODULE MCSeed --------------------------------
(***************************************************************************)
(* Two projects and three runs; and what the seeding scripts compute,      *)
(* checked over small inputs: the plane (Plots), the rows (Cadastre), what *)
(* a building is (Attributes), the names of streets (Streets).             *)
(***************************************************************************)
EXTENDS Seed, FiniteSetsExt, Functions, SequencesExt, TLC

CONSTANT NoNumber

-----------------------------------------------------------------------------
(* Plots: a sheet of 30 squares, four houses, streets and two land uses *)

Sheet == (0..5) \X (0..4)

Ground == INSTANCE Plots WITH MinHouse <- 1, Reach <- 1, Trim <- 1, MinCell <- 2,
                              MinLanduse <- 6, Sliver <- 3

Box(x0, y0, x1, y1) == (x0..x1) \X (y0..y1)

Houses == {Box(0, 0, 0, 0), Box(1, 4, 2, 4), Box(4, 1, 4, 2), Box(5, 4, 5, 4)}
Streets == {{}, Box(3, 0, 3, 4), Box(0, 3, 5, 3), Box(2, 0, 2, 4) \cup Box(0, 1, 5, 1),
            {q \in Sheet : q[1] = q[2]}, {q \in Sheet : q[1] + q[2] \in 5..6}}
Uses == {{}, {Box(0, 0, 3, 2)}, {Box(0, 0, 3, 2), Box(0, 0, 1, 2), Box(3, 0, 5, 4)}}

Sites == {h \in SUBSET Houses : Cardinality(h) \in {1, 3, 4}}

\* Parcels never overlap, keep near what is built on them, and every house is on one.
ASSUME ParcelsApart ==
  \A h \in SUBSET Houses :
    LET parcels == Ground!Parcels(h)
    IN /\ \A i, j \in DOMAIN parcels : i # j => parcels[i].land \cap parcels[j].land = {}
       /\ \A i \in DOMAIN parcels : parcels[i].land \subseteq Ground!Buffer(parcels[i].built, 1)
       /\ UNION {parcels[i].houses : i \in DOMAIN parcels} = h

\* "No parcel polygon intersects a road corridor": neither does a plot, nor two plots
\* each other, and each is in one piece; a sliver is left only where it has no larger
\* neighbour; and every house is joined to a plot if there is one.
ASSUME PlotsTile ==
  \A h \in Sites, street \in Streets, landuse \in Uses :
    LET lots == Ground!Plots(Ground!Parcels(h), landuse, street)
        small(i) == Ground!Area(lots[i]) < 3
    IN /\ \A i \in DOMAIN lots :
            /\ lots[i] \cap street = {}
            /\ Cardinality(Ground!Pieces(lots[i])) = 1
            /\ \A j \in DOMAIN lots \ {i} :
                 /\ lots[i] \cap lots[j] = {}
                 /\ small(i) /\ Ground!Meets(lots[i], lots[j]) => small(j)
       /\ DOMAIN lots # {} => \A house \in h : Ground!JoinedTo(lots, house) # {}

\* A plot that "no longer holds its own buildings" was to fall back to its cell; what
\* is tested is the centre, which a land use that was chosen for it always holds.
ASSUME LanduseCutsHouse ==
  LET house == Box(1, 1, 3, 1)
      lots == Ground!Plots(Ground!Parcels({house}), {Box(0, 0, 2, 2)}, {})
  IN ~(house \subseteq lots[1])

\* A sliver is merged, "because deleting it would lose land", and lost all the same
\* where it meets its neighbour in a corner only.
ASSUME CornerLost ==
  LET lots == Ground!Dissolved(<<Box(0, 0, 1, 1), Box(2, 2, 2, 3)>>)
  IN DOMAIN lots = {1} /\ lots[1] = Box(0, 0, 1, 1)

\* The cells of a footprint are apart, in one piece, and miss no more of it than parts
\* that are too small; and a plain rectangle is cut without loss.
ASSUME CellsApart ==
  \A S \in {Box(0, 0, 5, 1), Box(0, 0, 3, 3), Box(0, 0, 4, 0) \cup Box(4, 0, 4, 4)},
     nx \in 1..3, ny \in 1..2 :
    LET cells == Ground!UnitCells(S, nx, ny)
    IN /\ \A i, j \in DOMAIN cells : i # j => cells[i] \cap cells[j] = {}
       /\ \A i \in DOMAIN cells : cells[i] \subseteq S /\ Cardinality(Ground!Pieces(cells[i])) = 1
       /\ S = Box(0, 0, 5, 1) => UNION Range(cells) = S /\ Len(cells) = nx * ny

-----------------------------------------------------------------------------
(* Cadastre: a house, and a block with basements; two projects *)

Rows == INSTANCE Cadastre WITH None <- NoNumber


\* A house of two flats' cells and a block with a basement.
House == [area |-> 80, floors |-> 2, basements |-> 0, ground |-> 1200, height |-> 640, cells |-> 2]
Block == [area |-> 300, floors |-> 3, basements |-> 2, ground |-> 1500, height |-> 700, cells |-> 3]

Builds == {<<<<House>>>>, <<<<Block>>>>, <<<<Block, House>>, <<House>>>>}

\* What up to three seeds leave, of two projects in two districts or in one.
Codes(apart) ==
  [p \in {"one", "two"} |-> IF p = "one" \/ ~apart THEN Rows!DemoCodes
                            ELSE <<<<29, 28>>, <<17, 34, 13>>, <<3, 13, 2, 6>>>>]

After(seeds) == FoldLeft(LAMBDA t, s : Rows!Rebuilt(t, s[1], s[2]), Rows!Empty, seeds)

Histories == UNION {[1..n -> {"one", "two"} \X Builds] : n \in 1..3}

Own(tables, t, p) == {r \in tables[t] : r.of = p}

Least(listed) == CHOOSE n \in {r.id : r \in listed} : \A r \in listed : n <= r.id

\* Ids stay unique whatever is re-seeded, and a re-seed "only ever moves ids forward".
ASSUME IdsApart ==
  \A h \in Histories :
    LET before == After(Front(h)) now == After(h) p == Last(h)[1]
    IN \A t \in Rows!Tables :
         /\ \A r, s \in now[t] : r.id = s.id => r = s
         /\ Own(before, t, p) # {} => Least(Own(now, t, p)) >= Least(Own(before, t, p))
         /\ \A q \in {"one", "two"} \ {p} : Own(now, t, q) = Own(before, t, q)

\* "The state/district prefix is what tells them apart": where they have different ones.
ASSUME UlpinsApart ==
  \A h \in Histories :
    /\ Rows!Inserted(After(h), Codes(TRUE))
    /\ Rows!Inserted(After(h), Codes(FALSE))
         <=> \E p \in {"one", "two"} : \A i \in DOMAIN h : h[i][1] = p

Built == {After(h) : h \in {g \in Histories : Len(g) = 1}}

\* The storeys of a building follow one another from its lowest basement to its top, and
\* the flats of a storey keep within it.
ASSUME StoreysStack ==
  \A t \in Built :
    /\ \A f, g \in t["floor"] : f.b = g.b =>
         /\ g.level = f.level + 1 => g.low = f.high
         /\ g.level > f.level => g.low >= f.high
    /\ \A b \in t["building"] : \E f, g \in t["floor"] :
         f.low = b.ground - 320 * b.basements /\ g.high = b.ground + 320 * b.floors
    /\ \A u \in t["unit"] :
         /\ u.floor.low < u.low /\ u.low < u.high /\ u.high < u.floor.high
         /\ u.low >= u.floor.b.ground
    /\ \A u, v \in t["unit"] : u.floor.b = v.floor.b /\ Rows!UnitNo(u) = Rows!UnitNo(v) => u = v

\* Flats of levels 0 and 26 have one number.
ASSUME NumbersRepeat ==
  \E u, v \in After(<<<<"one", <<<<[House EXCEPT !.floors = 27]>>>>>>>>)["unit"] :
    u # v /\ Rows!UnitNo(u) = Rows!UnitNo(v)

\* The volume "above the roof" begins within the storeys where the levels and the height
\* of a building were both mapped and disagree.
ASSUME AirWithin ==
  \E t \in Built : \E a \in Rows!AirRights(t, "one") : a.low < a.over.ground + 320 * a.over.floors

Roads == [r1 |-> [class |-> "primary", length |-> 100], r2 |-> [class |-> "residential", length |-> 40],
          r3 |-> [class |-> "residential", length |-> 39], r4 |-> [class |-> "footway", length |-> 90]]

\* A road in service class carries every asset but the metro, which keeps to the
\* primary ones; too short a road and a path carry none.
ASSUME Corridors ==
  Rows!Runs(Roads) = {[asset |-> a, road |-> "r1"] : a \in Rows!Assets}
                       \cup {[asset |-> a, road |-> "r2"] : a \in Rows!Assets \ {"metro"}}

\* With one ground for all, the deliberate sewer is always found in the first basement.
ASSUME FoundOnLevelGround ==
  \A t \in Built :
    LET level == {[b EXCEPT !.ground = 1200] : b \in t["building"]}
    IN {<<b, -1>> : b \in Rows!Victims(level)} \subseteq Rows!DeliberateConflicts(level)

\* "Averaging keeps this correct if one is added": on a slope it is not found, and the
\* stage fails its own gate unless some other run meets a basement.
ASSUME MissedOnSlope ==
  LET slope == {Block @@ [id |-> 1], [House EXCEPT !.ground = 500] @@ [id |-> 2]}
  IN Rows!Victims(slope) # {} /\ Rows!DeliberateConflicts(slope) = {}

\* A serial that a re-seed no longer has keeps its links.
ASSUME LinksLeft ==
  LET links == {[of |-> "one", serial |-> s] : s \in 1..3}
  IN Rows!Linked(links, "one", 1..2, {[of |-> "one", serial |-> s] : s \in 1..2}) = links

-----------------------------------------------------------------------------
(* Attributes *)

World == INSTANCE Attributes WITH None <- NoNumber

\* A larger building of one use and hash is never lower; nobody gets none, and a
\* basement only under three storeys or more.
ASSUME StoreysByArea ==
  \A use \in World!Uses, r \in {0, 21, 22, 50, 78, 79, 99} :
    LET storeys(area) == World!EstimateStoreys(use, area, r)
    IN \A area \in {12, 59, 60, 149, 150, 400, 1199, 1200, 3000} :
         /\ storeys(area) \in 1..12
         /\ \A more \in {60, 300, 1000, 2500} : area <= more => storeys(area) <= storeys(more)
         /\ \A b \in {0, 50, 99} : World!BasementCount(use, storeys(area), b) > 0 => storeys(area) >= 3

Mapped(levels, height) ==
  [osm_id |-> 7, use |-> "residential", area |-> 200, levels |-> levels, height |-> height,
   storey |-> 50, base |-> 50]

MappedHeights == {NoNumber, 100, 200, 201, 479, 480, 481, 800, 801, 40000, 40001}

\* Storeys and height agree to half a storey unless both were mapped.
ASSUME StoreysAgree ==
  \A levels \in {NoNumber, 0, 1, 2, 100, 101}, height \in MappedHeights :
    LET b == World!Attributed(Mapped(levels, height), <<>>, NoNumber)
    IN /\ b.floors \in 1..125
       /\ \/ b.floors = 1 \/ (levels # NoNumber /\ height # NoNumber)
          \/ 2 * (b.height - 320 * b.floors) \in -320..320

\* The bounds on a height are not asked of one that is mapped beside levels, and none
\* on the register's storeys.
ASSUME BoundsNotAsked ==
  /\ World!Attributed(Mapped(2, 40001), <<>>, NoNumber).height = 40001
  /\ World!Attributed(Mapped(NoNumber, 40001), <<>>, NoNumber).height < 40001
  /\ World!Attributed(Mapped(2, 640), (7 :> 0), NoNumber).floors = 0

\* Scores keep within their scale; higher ground, a local height and a far coast flood
\* less, and a coast and a height are exposed more.
ASSUME ExposureOrdered ==
  LET grounds == {-100, 1000, 3000, 7000, 9000} coasts == {NoNumber, 0, 350, 1000, 5000}
  IN \A g \in grounds, r \in {-300, 0, 600, 1500}, c \in coasts :
       /\ World!FloodScore(g, r, c) \in 0..1000
       /\ World!CycloneScore(r, g, c) \in 0..1000
       /\ \A h \in {k \in grounds : k >= g} :
            /\ World!FloodScore(h, r, c) <= World!FloodScore(g, r, c)
            /\ World!FloodScore(g, r + 100, c) <= World!FloodScore(g, r, c)
            /\ World!CycloneScore(r, h, c) >= World!CycloneScore(r, g, c)

\* "Rather than scoring a landlocked AOI as if it were dry": a sea cell five kilometres
\* off does just that to the same ground.
ASSUME FarSeaDries ==
  \E g \in {1000, 2000, 3000}, r \in {0, 300} :
    World!FloodScore(g, r, 5000) < World!FloodScore(g, r, NoNumber)
      /\ World!RiskOf(World!FloodScore(g, r, 5000)) # World!RiskOf(World!FloodScore(g, r, NoNumber))

\* "A void in the ocean is still ocean", and one on a hill too.
ASSUME VoidIsSea == World!SeaCells([q \in 1..3 |-> IF q = 2 THEN World!Void ELSE 6000], -6500) = {2}

\* A building in a void has the placeholder for its ground, is graded on it all the same,
\* and regrades its neighbours.
ASSUME PlaceholderGraded ==
  LET hill == {World!Attributed(Mapped(n, NoNumber), <<>>, 5000) : n \in 1..3}
      low == World!Attributed(Mapped(4, NoNumber), <<>>, NoNumber)
      near(all) == LET s == SetToSeq(all) IN [i \in DOMAIN s |-> s[i].ground]
      exposed(all) == World!Exposure(all, [b \in all |-> near(all)], [b \in all |-> NoNumber])
  IN /\ exposed(hill \cup {low})[low].flood = "severe"
     /\ \E b \in hill : exposed(hill \cup {low})[b].flood # exposed(hill)[b].flood

Shoelace(ring) ==
  FoldLeft(LAMBDA t, i : t + ring[i][1] * ring[i + 1][2] - ring[i + 1][1] * ring[i][2], 0,
           [k \in 1..(Len(ring) - 1) |-> k])

\* "A multipolygon relation becomes its largest closed outer member": the one of most
\* points, though another holds it; and an open one is closed first.
ASSUME MostPointsWin ==
  LET large == <<<<0, 0>>, <<9, 0>>, <<9, 9>>, <<0, 9>>>>
      small == <<<<1, 1>>, <<2, 1>>, <<2, 2>>, <<1, 2>>, <<1, 1>>>>
      fine == <<<<1, 1>>, <<2, 1>>, <<3, 1>>, <<3, 2>>, <<2, 2>>, <<1, 2>>>>
      of(lines) == World!Polygon([type |-> "relation",
                                  members |-> [k \in DOMAIN lines |-> [role |-> "outer", line |-> lines[k]]]])
  IN /\ Head(of(<<large>>)) = Last(of(<<large>>))
     /\ of(<<small, large>>) = World!Ring(small)
     /\ Shoelace(of(<<large, fine>>)) < Shoelace(World!Ring(large))

\* Empty answers are asked again, of every mirror and by both transports, and no partial
\* one is passed on.
ASSUME AskedOn ==
  \A n \in 0..4 : \A answers \in [1..n -> {NoNumber, {}, {"a"}}] :
    World!Asked(answers, 1, 2) = IF {"a"} \in Range(answers) THEN {"a"} ELSE NoNumber

-----------------------------------------------------------------------------
(* Streets *)

Town == INSTANCE Streets WITH MinLength <- 4, AnchorMax <- 3, Default <- "Siripuram"

Way(id, highway, name, line) == [id |-> id, highway |-> highway, name |-> name, line |-> line]

Lanes ==
  {Way(5, "residential", <<>>, <<<<0, 0>>, <<2, 0>>>>), Way(3, "residential", <<>>, <<<<4, 0>>, <<2, 0>>>>),
   Way(9, "service", <<>>, <<<<4, 0>>, <<4, 3>>>>), Way(8, "services", <<>>, <<<<4, 3>>, <<8, 3>>>>),
   Way(2, "primary", <<"Beach", <<"Main", "Road">>>>, <<<<0, 2>>, <<6, 2>>>>),
   Way(7, "residential", <<>>, <<<<9, 0>>, <<4, 0>>>>)}

Orders(n) == {s \in [1..n -> Lanes] : IsInjective(s)}

Extracts == Orders(2) \cup Orders(3) \cup {s \in Orders(4) : s[1].id \in {5, 7}}

\* Unnamed ways are one street just when a chain of ways of their class joins them.
ASSUME UnitedIfJoined ==
  \A raw \in Extracts :
    LET ways == Town!Ways(raw)
        ends(i) == {Head(ways[i].line), Last(ways[i].line)}
        unnamed == {i \in DOMAIN ways : ways[i].name = <<>>}
        meet(i, j) == ways[i].cls = ways[j].cls /\ ends(i) \cap ends(j) # {}
        closed == {S \in SUBSET unnamed : \A i \in S, j \in unnamed : meet(i, j) => j \in S}
        parents == Town!Parents(ways)
    IN \A i, j \in unnamed :
         Town!Find(parents, i) = Town!Find(parents, j) <=> \A S \in closed : i \in S => j \in S

\* "The numbering depends only on the source data and not on any ordering": nor on the
\* order of the file.
ASSUME NumberedByOsm ==
  \A raw \in {s \in Extracts : Len(s) = 4} :
    LET ids(file) == LET streets == Town!Streets(file) IN [k \in DOMAIN streets |-> streets[k].ids]
    IN ids(raw) = ids(Reverse(raw)) /\ ids(raw) = ids(Tail(raw) \o <<raw[1]>>)

\* Every ordinal is written as it is said: 11th to 13th, 111th to 113th too.
ASSUME OrdinalsRead ==
  \A n \in 1..130 :
    Town!Ordinal(n) =
      IF n % 100 \in 11..13 \/ n % 10 \notin 1..3 THEN "th" ELSE <<"st", "nd", "rd">>[n % 10]

\* Two streets may get one name: their anchors differ in the words that go.
ASSUME StreetNamesRepeat ==
  LET streets == Town!Streets(<<
        Way(1, "primary", <<"Beach", <<"Main", "Road">>>>, <<<<0, 0>>, <<5, 0>>>>),
        Way(2, "primary", <<"Beach", <<"Road">>>>, <<<<0, 20>>, <<5, 20>>>>),
        Way(3, "tertiary", <<>>, <<<<0, 1>>, <<0, 6>>>>), Way(4, "tertiary", <<>>, <<<<0, 21>>, <<0, 26>>>>)>>)
  IN streets[3].said = streets[4].said

-----------------------------------------------------------------------------

\* Of the runs only the second begins beside another, none begins or is stopped by a
\* fault once two have met, none begins beside another after a fault, and the second
\* alone is a stage by itself.
FewMeetings ==
  /\ \A r \in Runs : job[r] = Idle /\ job'[r] # Idle =>
       /\ ~Met /\ (r # 2 \/ faults > 0 => \A s \in Runs : ~Active(s))
       /\ job'[r].kind \in Alone => r = 2
  /\ Met => faults' = faults

Symmetry == Permutations(Projects)
=============================================================================
