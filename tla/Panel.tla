-------------------------------- MODULE Panel -------------------------------
(***************************************************************************)
(* What the detail panel says (components/ui/DetailPanel.tsx): for each of *)
(* its cards the rows, the chips and the notes, from what the stores hold. *)
(* Which card is up is ViewStore's; how a row is worded is left out.       *)
(* A document's volumes have the fields they were served with: a field     *)
(* outside the domain is undefined.  A row is <<label, value, source>>,    *)
(* its source the chip beside it or None; lengths are whole units.         *)
(***************************************************************************)
EXTENDS Integers, FiniteSets, FiniteSetsExt, Functions, SequencesExt

CONSTANTS None

Of(f, k) == IF k \in DOMAIN f THEN f[k] ELSE None
Else(v, w) == IF v # None THEN v ELSE w
When(shown, rows) == IF shown THEN rows ELSE {}

Chipped(label, value, source) == {<<label, value, source>>}
Row(label, value) == Chipped(label, value, None)
Known(label, value) == When(value # None, Row(label, value))
Stated(f, ks) == UNION {Known(k, Of(f, k)) : k \in ks}

FirstWith(s, k, v) ==
  LET at == {i \in DOMAIN s : Of(s[i], k) = v} IN IF v = None \/ at = {} THEN None ELSE s[Min(at)]
Counted(s, k, v) == Cardinality({i \in DOMAIN s : Of(s[i], k) = v})
Summed(s, k) == FoldLeft(LAMBDA t, u : t + (IF Of(u, k) = None THEN 0 ELSE u[k]), 0, s)

LevelLabel(level, top) ==
  IF level < 0 THEN <<"B", -level>> ELSE IF level = 0 THEN <<"G", 0>> ELSE IF level = top THEN <<"R", 0>> ELSE <<"", level>>

-----------------------------------------------------------------------------
(* Provenance.tsx *)

Authoritative == {"osm_tag", "surveyed_plan"}
Badge(source, synthetic) == [source |-> source, demo |-> synthetic, solid |-> source \in Authoritative /\ ~synthetic]
Caveat(source, synthetic, note) == IF note # None THEN note ELSE IF synthetic THEN "synthetic register" ELSE source
Provenance(source, synthetic, note) == [badge |-> Badge(source, synthetic), caveat |-> Caveat(source, synthetic, note)]

-----------------------------------------------------------------------------
(* The survey parcel and the tree beneath it *)

Flip(open, id) == IF id \in open THEN open \ {id} ELSE open \cup {id}

\* ParcelTree: what can be read of it with these of its buildings and floors opened.
UnitRows(units) == IF units = <<>> THEN <<"no units">> ELSE [i \in DOMAIN units |-> Else(Of(units[i], "unit_no"), "not your flat")]
FloorRows(floors, openF) ==
  FlattenSeq([i \in DOMAIN floors |-> <<floors[i].ulpin>> \o (IF floors[i].id \in openF THEN UnitRows(floors[i].units) ELSE <<>>)])
TreeRows(buildings, openB, openF) ==
  IF buildings = <<>> THEN <<"no buildings">>
  ELSE FlattenSeq([i \in DOMAIN buildings |->
         <<buildings[i].building.ulpin>> \o (IF buildings[i].building.id \in openB THEN FloorRows(buildings[i].floors, openF) ELSE <<>>)])

\* generate of the plot's ordinal, under the codes of the first building's identifier.
Generated(label, codes) == <<Else(codes, "AP-VSP"), label>>

PlotCard(sp, codes, listings, pending, document) ==
  LET surveyed == sp.provenance = "survey_dept"
  IN [title      |-> sp.label,
      surveyed   |-> surveyed,
      listed     |-> LET l == FirstWith(listings, "parcel_id", sp.id) IN IF l = None THEN None ELSE l.record.id,
      identifier |-> Else(sp.ulpin3d, Generated(sp.label, codes)),
      rows       |-> Chipped("Extent", sp.extent_sqm, IF surveyed THEN None ELSE "derived") \cup Row("Buildings", sp.building_count)
                       \cup When(surveyed, Stated(sp, {"ts_no", "lpm_no", "ulpin_14", "classification", "source_date"})),
      tree       |-> IF document # None THEN "tree" ELSE IF pending THEN "loading" ELSE "could not be read",
      note       |-> IF surveyed THEN "numbers of the department, floors of ours" ELSE "derived, no survey number"]

-----------------------------------------------------------------------------
(* Ambient selections: a street, a buried run, a component, a site *)

StreetCard(r) ==
  LET derived == r.name_source = "derived"
      cited == r.name_source = "reference"
  IN [title      |-> r.name,
      rows       |-> Row("ref", r.ref) \cup Row("cls", r.cls) \cup Row("length_m", r.length_m) \cup Row("oneway", r.oneway)
                       \cup Stated(r, {"alt_name", "lanes", "surface"})
                       \cup (IF r.osm_ids # <<>> THEN Row("segments", r.segments) \cup Row("osm_ids", <<Min({3, Len(r.osm_ids)}), Max({0, Len(r.osm_ids) - 3})>>)
                             ELSE Chipped("segments", r.segments, "derived")),
      provenance |-> Provenance(IF derived \/ cited THEN "estimated" ELSE "osm_tag", FALSE,
                                IF derived THEN "our label" ELSE IF cited THEN "cited name, derived line" ELSE "mapped")]

\* adjust is resolveCategoryDepths of the runs, category and lane the layer's of the asset type;
\* what has no category is shown with water's offset.
UtilityCard(u, category, lane, adjust, findings) ==
  LET shift == IF category = None THEN Of(adjust, "water") ELSE Of(adjust, category)
      moved == shift # None /\ shift # 0
  IN [title      |-> u.asset_type,
      rows       |-> Row("ref", Else(Of(u, "ref"), u.id)) \cup Row("type", Else(category, u.asset_type))
                       \cup Stated(u, {"depth", "diameter", "material", "radius", "authority", "connected_area", "installed_on", "status"}),
      drawn      |-> When(moved, Row("depth", u.depth + shift)) \cup When(category # None /\ lane # 0, Row("lane", lane)),
      related    |-> SelectSeq(findings, LAMBDA f : f.a.type = "utility" /\ f.a.id = u.id),
      provenance |-> Provenance(IF u.provenance = "surveyed" THEN "surveyed_plan" ELSE "estimated", u.provenance = "demonstration",
                                IF u.provenance = "demonstration" THEN "no survey consulted" ELSE "generated from road centrelines")]

\* The placed part of that very ref, or else the first of the specification named so or whose
\* repeated parts are named from the ref's beginning; nothing with neither.  begins tells of a
\* pattern's prefix whether the ref starts with it.
ComponentCard(site, placed, ref, begins) ==
  LET candidates == SelectSeq(site.components, LAMBDA c : c.ref = ref \/ (Of(c, "prefix") # None /\ c.prefix \in begins))
      spec == IF candidates = <<>> THEN None ELSE candidates[1]
      part == IF placed # None /\ placed.ref = ref THEN placed ELSE spec
  IN IF part = None THEN None
     ELSE [title |-> part.label, site |-> site.name, rows |-> Chipped("id", ref, "derived") \cup {<<m[1], m[2], "derived">> : m \in part.meta},
           provenance |-> Provenance("estimated", TRUE, site.note)]

SiteCard(site) ==
  [title |-> site.name,
   rows  |-> Row("type", IF site.kind = "railway_station" THEN "railway" ELSE "road")
               \cup {<<f.label, f.value, IF f.source = "osm_tag" THEN "osm_tag" ELSE "reference">> : f \in site.facts}
               \cup Chipped("parts", Len(site.components), "derived"),
   provenance |-> Provenance("estimated", TRUE, site.note)]

-----------------------------------------------------------------------------
(* Nothing selected *)

\* TopologyFindings: what the section says, nothing before the first run.
TopologyFindings(t) ==
  IF t.running THEN <<"testing">>
  ELSE IF t.error # None THEN <<"error", t.error>>
  ELSE IF t.ranAt = None THEN <<>>
  ELSE IF t.findings = <<>> THEN <<"clear">>
  ELSE <<"found", Counted(t.findings, "severity", "critical"), Len(t.findings) - Counted(t.findings, "severity", "critical")>>
FindingPressed(t, i) == [t EXCEPT !.selected = IF t.selected = i THEN None ELSE i]

AreaCard(buildings, utilities, loading, underground, t) ==
  LET ready == ~loading /\ buildings # None
  IN [title |-> IF buildings = None THEN "area" ELSE Else(buildings.aoi, "area"),
      rows  |-> Row("Buildings", IF ready THEN Len(buildings.features) ELSE None)
                  \cup Row("Utility runs", IF ready THEN (IF utilities = None THEN 0 ELSE Len(utilities)) ELSE None),
      hint  |-> IF underground THEN "a corridor" ELSE "a building",
      topology |-> TopologyFindings(t)]

-----------------------------------------------------------------------------
(* A volume *)

Kind(noun, titled) == [noun |-> noun, titled |-> titled]
UnitKinds ==
  [flat |-> Kind("Flat", TRUE), retail |-> Kind("Shop", TRUE), anchor |-> Kind("", TRUE), parking |-> Kind("Parking slot", FALSE),
   circulation |-> Kind("", FALSE), atrium |-> Kind("", FALSE), elevator |-> Kind("Lift", FALSE), stair |-> Kind("Staircase", FALSE),
   plant |-> Kind("", FALSE)]
UnitKindOf(u) == LET k == Of(u, "kind") IN UnitKinds[IF k \in DOMAIN UnitKinds THEN k ELSE "flat"]
UnitTitle(u) ==
  LET noun == UnitKindOf(u).noun IN
  IF Of(u, "label") # None THEN <<"", u.label>>
  ELSE IF Of(u, "unit_no") = None THEN <<IF noun = "" THEN "Unit" ELSE noun, "">>
  ELSE <<noun, u.unit_no>>

Segments(units, ref) == SelectSeq(units, LAMBDA u : ref # None /\ Of(u, "core_ref") = ref)
CoreSpan(units, ref) ==
  LET segs == Segments(units, ref)
      over(k) == {segs[i][k] : i \in DOMAIN segs}
  IN IF segs = <<>> THEN None
     ELSE [kind |-> Else(Of(segs[1], "kind"), "elevator"), label |-> Of(segs[1], "label"), lowest |-> Min(over("level_no")),
           highest |-> Max(over("level_no")), levels |-> Len(segs), low |-> Min(over("z_min")), high |-> Max(over("z_max"))]
CoreOf(units, id) == LET u == FirstWith(units, "id", id) IN IF u = None THEN None ELSE CoreSpan(units, Of(u, "core_ref"))
CoreNoun(kind) == IF kind = "stair" THEN "Staircase" ELSE "Lift"

\* A date is a day; it is past from the midnight it begins with.
IsPast(day, hour) == day * 24 < hour

Bills(u) == Else(Of(u, "bills"), <<>>)
Unpaid(u) == SelectSeq(Bills(u), LAMBDA b : ~b.paid)
TaxDue(u) == IF Of(u, "tax") = None THEN 0 ELSE Max({0, u.tax.demand - u.tax.paid})

\* The chips at the head: what is said, how much, and whether in red.
StateChips(u) ==
  When(Of(u, "ownership") # None, {<<IF Of(u, "ownership") = "mortgaged" THEN "mortgaged" ELSE "owned outright", 0, FALSE>>})
    \cup When(Of(u, "tax") # None,
              {<<IF TaxDue(u) = 0 THEN "tax paid" ELSE IF u.tax.paid > 0 THEN "tax part-paid" ELSE "tax due", TaxDue(u), TaxDue(u) > 0>>})
    \cup When(Bills(u) # <<>>,
              {<<IF Unpaid(u) = <<>> THEN "bills clear" ELSE "bills unpaid", Len(Unpaid(u)), Unpaid(u) # <<>>>>})

WhereItIs(u, b, parcel) ==
  Stated(u, {"address", "facing"}) \cup Row("Level", LevelLabel(u.level_no, b.floors - 1))
    \cup When(Of(u, "ring") # None, Chipped("Coordinates", Of(u, "ring"), "derived"))
    \cup Row("Z extent", <<u.z_min, u.z_max>>)
    \cup Known("Parent building", Of(b, "ulpin"))
    \cup When(parcel # None \/ Of(b, "ulpin") # None, Row("Parent parcel", IF parcel # None THEN <<"parcel", parcel.ulpin>> ELSE <<"parent of", Of(u, "ulpin")>>))

\* The bay a title carries, by the identifier the register names it with.
BayOf(u, units) == IF UnitKindOf(u).titled THEN FirstWith(units, "ulpin", Of(u, "parking_ulpin")) ELSE None
ParkingSection(u, b, units) ==
  LET bay == BayOf(u, units)
      from(k) == IF bay = None THEN None ELSE Of(bay, k)
      level == Else(from("level_no"), Of(u, "parking_level"))
  IN When(UnitKindOf(u).titled /\ Of(u, "parking_ulpin") # None,
       Row("Bay", Else(Of(u, "parking_label"), Else(from("label"), Of(u, "parking_ulpin"))))
         \cup Row("Bay 3D ULPIN", Of(u, "parking_ulpin"))
         \cup Row("Bay level", IF level = None THEN None ELSE LevelLabel(level, b.floors - 1))
         \cup Known("Bay area", from("built_m2")))

SpaceSection(u) ==
  LET built == Else(Of(u, "built_m2"), 0)
  IN Row("Carpet area", Else(Of(u, "carpet_m2"), 0)) \cup Row("Built-up area", built) \cup Row("Clear height", u.z_max - u.z_min)
       \cup Row("Volume", built * (u.z_max - u.z_min))

ReservedFor(u, units) == IF Of(u, "kind") = "parking" THEN FirstWith(units, "parking_ulpin", Of(u, "ulpin")) ELSE None
TenureSection(u, units) ==
  LET flat == ReservedFor(u, units)
  IN Row("Held as", Of(u, "tenure"))
       \cup When(Of(u, "kind") = "parking",
              Row("Reserved for", IF flat = None THEN <<"not allocated", None>> ELSE <<Of(flat, "unit_no"), Of(flat, "owner")>>))
TitleSection(u, parcel) ==
  Row("Held by", Else(Of(u, "owner"), "Not on record")) \cup Row("Tenure", Of(u, "tenure"))
    \cup When(Of(u, "ownership") # None, Row("Held as", IF Of(u, "ownership") = "mortgaged" THEN "with a charge" ELSE "outright"))
    \cup Stated(u, {"registered_on", "title_deed"}) \cup Row("Encumbrance", Of(u, "encumbrance"))
    \cup Row("Parcel owner", IF parcel = None THEN None ELSE Of(parcel, "owner"))

MortgageSection(u) ==
  IF Of(u, "mortgage") = None THEN {}
  ELSE {<<k, u.mortgage[k], None>> : k \in {"bank", "branch", "loan_no", "sanctioned", "outstanding", "emi", "charge_from", "closes_on"}}

TaxSection(u, hour) ==
  IF Of(u, "tax") = None THEN {}
  ELSE Row("Demand", u.tax.demand) \cup Row("Paid", u.tax.paid) \cup When(TaxDue(u) > 0, Row("Outstanding", TaxDue(u)))
         \cup Row("Due", <<u.tax.due, TaxDue(u) > 0 /\ IsPast(u.tax.due, hour)>>)
BillState(b, hour) == IF b.paid THEN "Paid" ELSE IF IsPast(b.due, hour) THEN "Overdue" ELSE "Due"
BillRows(u, hour) == {<<Bills(u)[i].kind, Bills(u)[i].amount, BillState(Bills(u)[i], hour)>> : i \in DOMAIN Bills(u)}

IsOwn(s, u) == s.role = "citizen" /\ s.floor = u.level_no /\ s.unit = Of(u, "unit_no")
SourceOf(d, u, b) == LET f == FirstWith(d.floors, "id", u.floor_id) IN IF f = None THEN b.height_source ELSE f.detect_source

RestrictedCard(u) == [title |-> UnitTitle(u), kicker |-> IF Of(u, "kind") = "parking" THEN "Not your bay" ELSE "Not your flat", rows |-> {}]

CoreCard(core, u, b, d) ==
  [title |-> <<CoreNoun(core.kind), "">>, kicker |-> "common property",
   rows  |-> Chipped("Serves", <<LevelLabel(core.lowest, b.floors - 1), LevelLabel(core.highest, b.floors - 1), core.levels>>, "derived")
               \cup Chipped("Shaft height", core.high - core.low, "derived")
               \cup When(Of(u, "ring") # None, Chipped("Footprint", Of(u, "ring"), "derived"))
               \cup Row("Z extent", <<core.low, core.high>>) \cup Row("Selected at", LevelLabel(u.level_no, b.floors - 1)),
   provenance |-> Provenance(SourceOf(d, u, b), b.survey_synthetic, "one shaft of its segments")]

VolumeCard(u, b, d, s, tab, hour) ==
  [title  |-> UnitTitle(u),
   kicker |-> IF IsOwn(s, u) THEN "Your flat" ELSE Else(Of(u, "kind"), "flat"),
   card   |-> IF Of(u, "ulpin") = None THEN None ELSE <<Else(Of(u, "ulpin3d"), u.ulpin), Of(u, "legacy_id")>>,
   chips  |-> StateChips(u),
   rows   |-> [where |-> WhereItIs(u, b, d.parcel), parking |-> ParkingSection(u, b, d.units), space |-> SpaceSection(u),
               title |-> IF UnitKindOf(u).titled THEN TitleSection(u, d.parcel) ELSE TenureSection(u, d.units),
               mortgage |-> MortgageSection(u), tax |-> TaxSection(u, hour), bills |-> BillRows(u, hour)],
   provenance |-> Provenance(SourceOf(d, u, b), b.survey_synthetic, "demonstration register"),
   ladm   |-> IF tab = "ladm" THEN Of(u, "ulpin") ELSE None]

UnitCard(u, b, d, s, tab, hour) ==
  LET core == CoreSpan(d.units, Of(u, "core_ref"))
  IN IF Of(u, "restricted") = TRUE THEN RestrictedCard(u)
     ELSE IF core # None THEN CoreCard(core, u, b, d)
     ELSE VolumeCard(u, b, d, s, tab, hour)

-----------------------------------------------------------------------------
(* A floor *)

KindCount(units, k) == Cardinality({i \in DOMAIN units : Else(Of(units[i], "kind"), "flat") = k})
OnLevel(units, level) ==
  {c \in {<<"flat", KindCount(units, "flat")>>, <<"parking", KindCount(units, "parking")>>,
          <<"shops", KindCount(units, "retail") + KindCount(units, "anchor")>>,
          <<IF level < 0 THEN "aisles" ELSE "lobby", Min({1, KindCount(units, "circulation")})>>,
          <<"plant", Min({1, KindCount(units, "plant")})>>, <<"lift", Min({1, KindCount(units, "elevator")})>>,
          <<"stairs", Min({1, KindCount(units, "stair")})>>} : c[2] > 0}

FloorCard(f, b, d, underground) ==
  LET units == SelectSeq(d.units, LAMBDA u : u.level_no = f.level_no)
      gross == Summed(units, "built_m2")
  IN [title  |-> LevelLabel(f.level_no, b.floors - 1),
      card   |-> IF Of(f, "ulpin") = None THEN None ELSE <<Else(Of(f, "ulpin3d"), f.ulpin), Of(f, "legacy_id")>>,
      lifted |-> f.level_no < 0 /\ ~underground,
      rows   |-> Row("Level number", f.level_no)
                   \cup When(f.level_no < 0, Row("Depth below ground", b.ground_elev - f.z_min))
                   \cup Row("Z extent", <<f.z_min, f.z_max>>) \cup Row("Slab height", f.z_max - f.z_min)
                   \cup Row("On this level", OnLevel(units, f.level_no)) \cup When(gross > 0, Row("Total built-up", gross))
                   \cup Known("Parent building", Of(b, "ulpin")),
      provenance |-> Provenance(f.detect_source, b.survey_synthetic, None)]

-----------------------------------------------------------------------------
(* A building *)

\* What a citizen is told of the building.
CitizenCard(b, d, s) ==
  LET mine == IF d = None THEN {} ELSE {i \in DOMAIN d.units : IsOwn(s, d.units[i])}
  IN [title |-> Else(Of(b, "name"), b.use_type), kicker |-> "Your building",
      rows  |-> Known("address", Of(b, "address")) \cup Row("Storeys", b.floors) \cup Row("Basements", b.basements)
                  \cup Row("Your flat", IF s.unit = None THEN <<None, None>> ELSE <<s.unit, LevelLabel(Else(s.floor, 0), b.floors - 1)>>),
      found |-> mine # {}]

Composition(d, b) ==
  LET n(k) == KindCount(d.units, k)
  IN {c \in {<<"storeys", b.floors>>, <<"basements", b.basements>>, <<"flats", n("flat")>>, <<"shops", n("retail") + n("anchor")>>,
             <<"bays", n("parking")>>, <<"lift", Min({1, n("elevator")})>>, <<"stairs", Min({1, n("stair")})>>} : c[1] = "storeys" \/ c[2] > 0}

\* Areas and encumbrances of the volumes they are served for, and how many those are.
AreaBreakdown(d) ==
  LET measured == SelectSeq(d.units, LAMBDA u : Of(u, "built_m2") # None)
      above == SelectSeq(measured, LAMBDA u : u.level_no >= 0)
      below == SelectSeq(measured, LAMBDA u : u.level_no < 0)
  IN [total |-> Summed(measured, "built_m2"), above |-> Summed(above, "built_m2"), below |-> Summed(below, "built_m2"),
      aboveCount |-> Len(above), belowCount |-> Len(below)]
EncumbranceBreakdown(d) == [e \in {"None", "Mortgage", "Lien", "Disputed"} |-> Counted(d.units, "encumbrance", e)]

AreaRows(a) ==
  Row("Total built-up", a.total) \cup Row("Above ground", <<a.above, a.aboveCount>>)
    \cup When(a.below > 0, Row("Basement", <<a.below, a.belowCount>>))
EncumbranceRows(e) == {<<k, e[k], None>> : k \in DOMAIN e}
FootprintSection(d, pending) ==
  IF pending THEN "loading" ELSE IF d = None THEN None ELSE Of(d.building, "footprint")

Siblings(buildings, me) == SelectSeq(buildings, LAMBDA p : p.parcel_id = me.parcel_id /\ p.id # me.id)

\* The five nearest of the centroids within the radius, the nearest first.
Squared(p, q) == (p[1] - q[1]) * (p[1] - q[1]) + (p[2] - q[2]) * (p[2] - q[2])
NeighboursOf(buildings, me, radius) ==
  LET near == SelectSeq(buildings, LAMBDA p : p.id # me.id /\ Squared(p.centre, me.centre) <= radius * radius)
      sorted == SortSeq(near, LAMBDA p, q : Squared(p.centre, me.centre) < Squared(q.centre, me.centre))
  IN SubSeq(sorted, 1, Min({5, Len(sorted)}))

\* A row for each of them; one pressed is the building that is selected.
SiblingRows(siblings) == {<<b.id, Of(b, "ulpin")>> : b \in ToSet(siblings)}
NeighbourRows(neighbours, me) == {<<Of(b, "ulpin"), Of(b, "use_type"), Squared(b.centre, me.centre)>> : b \in ToSet(neighbours)}

Encroachments(t, id) ==
  IF t.ranAt = None THEN "not checked"
  ELSE LET mine == {i \in DOMAIN t.findings : id \in {t.findings[i].a.building, t.findings[i].b.building}}
       IN IF mine = {} THEN "none" ELSE "listed"

\* The row of the land-use class, None where the project has no such layer.
LulcRow(layer, pending, class) ==
  IF layer = None THEN {}
  ELSE IF pending THEN Row("LULC", "loading")
  ELSE Chipped("LULC", IF class = None THEN "unavailable" ELSE IF class = "none" THEN "no class" ELSE class, "bhuvan")

RegisterRows(b) ==
  When(Of(b, "building_ref") # None, Chipped("Building ID", Of(b, "building_ref"), "derived")) \cup Row("Use type", b.use_type)
    \cup When(Of(b, "building_type") # None, Chipped("Building type", Of(b, "building_type"), "generated"))
    \cup When(Of(b, "address") # None, Chipped("Address", Of(b, "address"), IF Of(b, "address_source") = "osm_tag" THEN "osm_tag" ELSE "generated"))
    \cup Row("Height", b.height_m) \cup Row("Storeys", b.floors) \cup Row("Basements", b.basements)
    \cup Row("Ground elevation", <<b.ground_elev, IF Of(b, "ground_source") = "dsm_dem" THEN "CartoDEM" ELSE "placeholder">>)
    \cup UNION {When(Of(b, k) # None, Chipped(k, Of(b, k), "derived")) : k \in {"flood_risk", "cyclone_risk", "built_up_m2"}}
    \cup When({Of(b, "flood_risk"), Of(b, "cyclone_risk")} # {None} /\ Of(b, "coast_dist_m") # None,
              Chipped("coast_dist_m", Of(b, "coast_dist_m"), "derived"))
    \cup UNION {When(Of(b, k) # None, Chipped(k, Of(b, k), "generated")) : k \in {"occupancy_units", "owner_org", "status"}}
    \cup Known("Coordinates", Of(b, "lat"))

\* The rows that wait for the document.
DocumentRows(d, pending) ==
  LET parcel == IF d = None THEN None ELSE d.parcel
      of(k) == IF pending THEN "loading" ELSE IF parcel = None THEN None ELSE Of(parcel, k)
  IN Row("Units", IF pending \/ d = None \/ d.units = <<>> THEN None ELSE Len(d.units))
       \cup Row("Parent parcel", of("ulpin")) \cup Row("Registered owner", of("owner"))
       \cup When(pending \/ parcel # None, Row("Parcel area", of("area")))

\* The storeys of the record are not those of its floors.
StoreysDiffer(d, b) == d.floors # <<>> /\ Cardinality({i \in DOMAIN d.floors : d.floors[i].level_no >= 0}) # b.floors

BuildingCard(b, d, pending, s, editing, saved, t, buildings, lulc) ==
  LET has == d # None /\ d.units # <<>>
  IN IF s.role = "citizen" THEN CitizenCard(b, d, s)
     ELSE [title |-> Else(Of(b, "name"), b.use_type), kicker |-> "Building",
           edit  |-> IF editing THEN "editing" ELSE IF pending THEN "waiting" ELSE "offered",
           saved |-> saved,
           card  |-> IF Of(b, "ulpin") = None THEN None ELSE <<Else(Of(b, "ulpin3d"), b.ulpin), Of(b, "legacy_id")>>,
           composition |-> IF d = None THEN {} ELSE Composition(d, b),
           rows  |-> RegisterRows(b) \cup LulcRow(lulc.layer, lulc.pending, lulc.class) \cup DocumentRows(d, pending),
           edited |-> d # None /\ StoreysDiffer(d, b),
           footprint |-> FootprintSection(d, pending),
           areas |-> IF has THEN AreaRows(AreaBreakdown(d)) ELSE {},
           encumbrances |-> IF has THEN EncumbranceRows(EncumbranceBreakdown(d)) ELSE {},
           siblings |-> SiblingRows(Siblings(buildings, b)),
           neighbours |-> NeighbourRows(NeighboursOf(buildings, b, 50), b),
           encroachments |-> Encroachments(t, b.id),
           provenance |-> Provenance(b.height_source, b.survey_synthetic, None)]
=============================================================================
