-------------------------------- MODULE Ladm --------------------------------
(***************************************************************************)
(* The ISO 19152 side of the cadastre: ladm_backfill() of                  *)
(* db/02_functions.sql as relations over the rows it reads, the document   *)
(* lib/db.ts assembles from them and from the flat register, the mappers   *)
(* and the JSON-LD framing of lib/ladm.ts, and the cards of LadmTab.tsx.   *)
(* What SQL and the document keep in order is a set here.  The register R  *)
(* of a project is a record of its parcels, surveys, units, runs, air,     *)
(* links, its plot of each building and which run crosses what in plan.    *)
(***************************************************************************)
EXTENDS Integers, FiniteSets, Sequences, TLC

CONSTANT None

Set(v) == v \notin {None, ""}
One(S) == IF S = {} THEN None ELSE CHOOSE x \in S : TRUE
First(v, w) == IF v = None THEN w ELSE v

-----------------------------------------------------------------------------
(* Identifiers *)

Id3(r) == First(r.new, r.old)
BaUlpinFor(su) == su \o "-BA"

Digits(n) == CHOOSE k \in 1..9 : n < 10^k /\ (k = 1 \/ n >= 10^(k - 1))
Zeros == <<"", "0", "00", "000", "0000">>
\* padStart only pads up; lpad cuts what is longer.
PadStart(n, w) == IF Digits(n) < w THEN Zeros[w - Digits(n) + 1] \o ToString(n) ELSE ToString(n)
Lpad(n, w) == IF Digits(n) > w THEN ToString(n \div 10^(Digits(n) - w)) ELSE PadStart(n, w)

SuIdForUtility(n) == "UTL-" \o (IF n < 100000 THEN PadStart(n, 5) ELSE ToString(n))
LadmUtilitySuId(n) == "UTL-" \o (IF n < 100000 THEN Lpad(n, 5) ELSE ToString(n))

-----------------------------------------------------------------------------
(* ladm_backfill: parties and spatial units *)

Party(name, type, role) == [name |-> name, type |-> type, role |-> role]
Owner(name) == Party(name, "natural_person", "owner")
Operator(name) == Party(name, "non_natural_person", "utility_operator")
Bank(name) == Party(name, "non_natural_person", "bank")

NamesBank(u) == u.charge.kind = "mortgage" /\ u.charge.bank # None
Parties(R) ==
  {Owner(r.owner) : r \in {x \in R.parcels \cup R.units : Set(x.owner)}}
    \cup {Operator(r.authority) : r \in {x \in R.runs : Set(x.authority)}}
    \cup {Bank(u.charge.bank) : u \in {x \in R.units : NamesBank(x)}}

Row(su, kind, id, type, low, high, provenance) ==
  [su |-> su, kind |-> kind, id |-> id, type |-> type, low |-> low, high |-> high,
   dimension |-> IF low = None THEN "2D" ELSE "3D", provenance |-> provenance]

UnitProvenance(source) ==
  CASE source = "surveyed_plan" -> "surveyed"
    [] source = "osm_tag" -> "derived"
    [] OTHER -> "estimated"
RunProvenance(source) ==
  CASE source = "surveyed" -> "surveyed"
    [] source = "demonstration" -> "derived"
    [] OTHER -> "estimated"

Official(R) ==
  {s \in R.surveys : /\ s.official
                     /\ s.bhu # None
                     /\ \A p \in R.parcels : Id3(p) # s.bhu
                     /\ \A t \in R.surveys : t.official /\ t.bhu = s.bhu => s.id <= t.id}

SpatialUnits(R) ==
  {Row(Id3(p), "parcel", p.id, "surface", None, None, "derived") : p \in R.parcels}
    \cup {Row(s.bhu, "survey_parcel", s.id, "surface", None, None, "surveyed") : s \in Official(R)}
    \cup {Row(Id3(u), "unit", u.id, "multi_storey", u.low, u.high, UnitProvenance(u.source)) : u \in R.units}
    \cup {Row(LadmUtilitySuId(r.id), "utility", r.id, "subterranean", r.low - r.radius, r.high + r.radius,
              RunProvenance(r.source)) : r \in R.runs}
    \cup {Row(a.new, "air_rights", a.id, "air_rights", a.low, a.high, a.source) : a \in R.air}

\* The kinds of source the schema admits, and those migration 007 does: the CHECK has the
\* ones of the file that made the table, the view those of the file that was run last.
SchemaKinds == {"parcel", "survey_parcel", "unit", "utility", "air_rights"}
MigrationKinds == SchemaKinds \ {"air_rights"}
Registrable(rows, kinds) ==
  /\ \A r, s \in rows : r.su = s.su \/ (r.kind = s.kind /\ r.id = s.id) => r = s
  /\ \A r \in rows : r.kind \in kinds /\ (r.low = None <=> r.high = None)
HasGeometry(row, kinds) == row.kind \in kinds

-----------------------------------------------------------------------------
(* ladm_backfill: bundles and rights *)

TitledKinds == {"flat", "retail", "anchor"}
Titled(R) == {u \in R.units : u.kind \in TitledKinds /\ Set(u.owner)}
Held(R) == {p \in R.parcels : Set(p.owner)}

Bundle(su, name, type) == [ba |-> BaUlpinFor(su), name |-> name, type |-> type]
BaUnits(R) ==
  {Bundle(Id3(u), First(u.label, u.kind \o " " \o u.no), "condominium_unit") : u \in Titled(R)}
    \cup {Bundle(Id3(p), "Plot " \o Id3(p), "basic_administrative_unit") : p \in Held(R)}
    \cup {Bundle(LadmUtilitySuId(r.id), r.asset \o " corridor", "basic_administrative_unit") : r \in R.runs}

Member(of, su, role, den) == [ba |-> BaUlpinFor(of), su |-> su, role |-> role, num |-> 1, den |-> den]
Principals(R) ==
  {Member(su, su, "principal", 1) :
     su \in {Id3(r) : r \in Titled(R) \cup Held(R)} \cup {LadmUtilitySuId(r.id) : r \in R.runs}}
\* The bays of the building whose owner has the same name.
Bays(R, u) == {b \in R.units : b.kind = "parking" /\ b.owner = u.owner /\ b.building = u.building}
Appurtenant(R) == UNION {{Member(Id3(u), Id3(b), "appurtenant", 1) : b \in Bays(R, u)} : u \in Titled(R)}
Storeys(R, b) == {u \in Titled(R) : u.building = b}
Undivided(R) ==
  {Member(Id3(x[1]), Id3(x[2]), "undivided_share", Cardinality(Storeys(R, x[1].building))) :
     x \in {y \in Titled(R) \X R.parcels : R.plot[y[1].building] = y[2].id}}
Members(R) == Principals(R) \cup Appurtenant(R) \cup Undivided(R)

Right(of, class, type, party, about) ==
  [ba |-> BaUlpinFor(of), class |-> class, type |-> type, party |-> party, about |-> about, register |-> FALSE]
OperatorOf(r) == IF Set(r.authority) THEN Operator(r.authority) ELSE None

Ownerships(R) ==
  {Right(Id3(u), "right", "ownership", Owner(u.owner), u.tenure) : u \in Titled(R)}
    \cup {Right(Id3(p), "right", "ownership", Owner(p.owner), None) : p \in Held(R)}
OperatorEasements(R) ==
  {Right(LadmUtilitySuId(r.id), "right", "easement", OperatorOf(r), r.asset) : r \in R.runs}
Charges(R) ==
  {Right(Id3(u), "restriction", "mortgage", IF NamesBank(u) THEN Bank(u.charge.bank) ELSE None, u.charge.kind) :
     u \in {x \in Titled(R) : x.charge.kind = "mortgage"}}
    \cup {Right(Id3(u), "restriction", "structural_restriction", None, u.charge.kind) :
            u \in {x \in Titled(R) : x.charge.kind \notin {None, "none", "mortgage"}}}
Burdens(R) ==
  {Right(Id3(x[2]), "restriction", IF x[1].type = "easement" THEN "easement" ELSE "height_restriction",
         One({OperatorOf(r) : r \in {q \in R.runs : q.infra = x[1].infra}}), x[1].infra) :
     x \in {y \in R.links \X Held(R) : y[1].bhu = y[2].bhu}}
Rights(R) == Ownerships(R) \cup OperatorEasements(R) \cup Charges(R) \cup Burdens(R)

-----------------------------------------------------------------------------
(* The document of one spatial unit, before the register *)

RawOf(su, ba, rrrs, easements) == [su |-> su, ba |-> ba, rrrs |-> rrrs, easements |-> easements]
Empty == RawOf(None, None, {}, {})

Crosses(R, row, run) == (row.kind = "utility" /\ row.id = run.id) \/ <<row.kind, row.id, run.id>> \in R.crosses
Level(row, run) == row.low = None \/ (run.low - run.radius <= row.high /\ row.low <= run.high + run.radius)
Easements(R, row, kinds) ==
  {[su |-> LadmUtilitySuId(r.id), authority |-> r.authority, low |-> r.low - r.radius, high |-> r.high + r.radius] :
     r \in {q \in R.runs : HasGeometry(row, kinds) /\ Crosses(R, row, q) /\ Level(row, q)}}

LabelOf(R, row) ==
  First(One({First(u.label, u.no) : u \in {x \in R.units : row.kind = "unit" /\ x.id = row.id}}), "Plot " \o row.su)
MembersOf(R, ba) ==
  {[su |-> m.su, role |-> m.role, num |-> m.num, den |-> m.den] : m \in {x \in Members(R) : x.ba = ba}}

LadmSql(R, kinds, su) ==
  LET row == One({r \in SpatialUnits(R) : r.su = su})
      ba == One({b \in BaUnits(R) : Member(su, su, "principal", 1) \in Members(R) /\ b.ba = BaUlpinFor(su)})
  IN IF row = None THEN Empty
     ELSE RawOf([su |-> su, kind |-> row.kind, type |-> row.type, dimension |-> row.dimension, low |-> row.low,
                 high |-> row.high, provenance |-> row.provenance, label |-> LabelOf(R, row)],
                IF ba = None THEN None
                ELSE [ba |-> ba.ba, name |-> ba.name, type |-> ba.type, members |-> MembersOf(R, ba.ba)],
                {r \in Rights(R) : ba # None /\ r.ba = ba.ba}, Easements(R, row, kinds))

\* What scripts/seed_demo_building.mjs writes of its tower, under both identifiers of a volume.
HasIdentity(u) == u.kind \in {"flat", "parking"}
SeedEntry(tower, plot, u) ==
  LET flats == {f \in tower : f.kind = "flat"}
      member(su, role, den) == [su |-> su, role |-> role, num |-> 1, den |-> den]
  IN RawOf([su |-> u.old, kind |-> "unit", type |-> "multi_storey", dimension |-> "3D", low |-> u.low, high |-> u.high,
            provenance |-> "surveyed", label |-> First(u.label, u.no)],
           IF u.kind # "flat" THEN None
           ELSE [ba |-> BaUlpinFor(u.old), name |-> "Flat " \o u.no, type |-> "condominium_unit",
                 members |-> {member(u.old, "principal", 1), member(Id3(plot), "undivided_share", Cardinality(flats))}],
           IF u.kind # "flat" THEN {} ELSE {Right(u.old, "right", "ownership", Owner(u.owner), u.tenure)}, {})
Snapshot(tower, plot, su) ==
  LET named == {u \in tower : HasIdentity(u) /\ su \in {u.old, u.new}}
  IN IF named = {} THEN Empty ELSE SeedEntry(tower, plot, One(named))

\* The transaction that writes the tower: a statement that raises inside it aborts it, caught or
\* not, and its COMMIT keeps nothing.
SeedTransaction(backfills) ==
  [rows |-> backfills, said |-> IF backfills THEN "upserted, backfilled" ELSE "upserted, backfill skipped"]

-----------------------------------------------------------------------------
(* The register, and the document that is served *)

Entered(class, type, party, about) ==
  [class |-> class, type |-> type, party |-> party, about |-> about, register |-> TRUE]
RrrFromRegister(e) ==
  {x \in {Entered("right", "ownership", None, e.deed)} : e.deed # None \/ e.registered # None}
    \cup {Entered("restriction", "mortgage", Bank(b), e.loan) : b \in {e.bank} \ {None}}
    \cup {Entered("responsibility", "tax_demand", Party(t, "non_natural_person", "municipal_body"), e.assessment) :
            t \in {e.tax} \ {None}}

HeightRange(low, high, sep) ==
  [msl |-> <<low, high>>, ellipsoidal |-> IF sep = None THEN None ELSE <<low + sep, high + sep>>]

WithBay(ba, e) ==
  IF ba = None \/ e.bay = None \/ (\E m \in ba.members : m.su = e.bay) THEN ba
  ELSE [ba EXCEPT !.members = @ \cup {[su |-> e.bay, role |-> "appurtenant", num |-> 1, den |-> 1]}]

\* One of each name and role.
Named(rrrs) ==
  LET all == {r.party : r \in rrrs} \ {None}
  IN {CHOOSE p \in all : p.name = k[1] /\ p.role = k[2] : k \in {<<p.name, p.role>> : p \in all}}

\* register is a function from the identifiers it has entries for.
GetLadmDoc(raw, register, sep) ==
  LET entered == raw.su # None /\ raw.su.kind = "unit" /\ raw.su.su \in DOMAIN register
      rrrs == raw.rrrs \cup (IF entered THEN RrrFromRegister(register[raw.su.su]) ELSE {})
  IN IF raw.su = None THEN None
     ELSE [su |-> [su |-> raw.su.su, label |-> raw.su.label, dimension |-> raw.su.dimension,
                   provenance |-> raw.su.provenance, height |-> IF raw.su.low = None THEN None ELSE HeightRange(raw.su.low, raw.su.high, sep)],
           ba |-> IF entered THEN WithBay(raw.ba, register[raw.su.su]) ELSE raw.ba,
           rrrs |-> rrrs, parties |-> Named(rrrs), easements |-> raw.easements, disclaimer |-> "d", restricted |-> FALSE]

\* filterLadmForCaller, of a caller who may not read the whole.
Narrowed(doc) ==
  [doc EXCEPT !.ba = None, !.rrrs = {}, !.parties = {}, !.disclaimer = None, !.restricted = TRUE]

-----------------------------------------------------------------------------
(* How it is told *)

FormatShare(num, den) == IF den = 1 THEN <<num>> ELSE <<num, den>>

JsonLd(doc) ==
  [su |-> [suID |-> doc.su.su, dimension |-> doc.su.dimension, height |-> doc.su.height,
           provenance |-> doc.su.provenance],
   ba |-> IF doc.ba = None THEN None
          ELSE [ba |-> doc.ba.ba, name |-> doc.ba.name,
                members |-> {[su |-> m.su, role |-> m.role, share |-> FormatShare(m.num, m.den)] : m \in doc.ba.members}],
   rrr |-> {[class |-> r.class, type |-> r.type, party |-> IF r.party = None THEN None ELSE r.party.name] : r \in doc.rrrs},
   party |-> doc.parties, disclaimer |-> doc.disclaimer]

\* What the tab has of an answer: a 404 and every other refusal leave it no document.
Kept(status, doc) == IF status = 200 THEN doc ELSE None

SpatialUnitCard(su) ==
  {"identifier"} \cup (IF su.height # None THEN {"msl"} ELSE IF su.dimension = "2D" THEN {"in plan only"} ELSE {})
    \cup (IF su.height # None /\ su.height.ellipsoidal # None THEN {"ellipsoidal"} ELSE {})
LegalCards(doc) ==
  {IF doc.ba = None THEN "no administrative record" ELSE "bundle",
   IF doc.rrrs = {} THEN "no rights recorded" ELSE "rights",
   IF doc.parties = {} THEN "no party on record" ELSE "parties"}
    \cup (IF doc.ba # None /\ (\E m \in doc.ba.members : m.role = "undivided_share") THEN {"the share is derived"} ELSE {})
    \cup (IF \E r \in doc.rrrs : r.register THEN {"from the flat register"} ELSE {})

LadmTab(su, pending, doc) ==
  IF su = None THEN {"no identifier"}
  ELSE IF doc = None THEN {IF pending THEN "skeleton" ELSE "not in the registry"}
       ELSE SpatialUnitCard(doc.su) \cup (IF doc.restricted THEN {"rights withheld"} ELSE LegalCards(doc))
              \cup (IF doc.easements = {} THEN {} ELSE {"easements"})
              \cup (IF doc.disclaimer = None THEN {} ELSE {"disclaimer"})
=============================================================================
