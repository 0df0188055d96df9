--------------------------------- MODULE Api --------------------------------
(***************************************************************************)
(* The answers of lib/api/handlers.ts and of the sign-in routes.  A route  *)
(* is the sequence of its refusals in the order the handler meets them;    *)
(* the first is the answer.  What is served after them is narrowed to the  *)
(* caller as lib/auth/access-pure.ts narrows it.  A document, a unit or a  *)
(* feature is a function from its fields; a number of a query string is    *)
(* counted in halves, None where it is not finite.                         *)
(***************************************************************************)
EXTENDS Integers, Functions, SequencesExt, TLC

CONSTANT None

-----------------------------------------------------------------------------
(* Callers *)

Gov == [kind |-> "gov"]
Anon == [kind |-> "anon"]
Citizen(slug, building, floor, unit) ==
  [kind |-> "citizen", slug |-> slug, building |-> building, floor |-> floor, unit |-> unit]

IsCitizen(c) == c.kind = "citizen"
CallerContext(session) ==
  IF session = None THEN Anon
  ELSE IF session.role = "gov" THEN Gov
       ELSE Citizen(session.slug, session.building, session.floor, session.unit)

-----------------------------------------------------------------------------
(* Refusals *)

If(refused, status) == IF refused THEN <<status>> ELSE <<>>
Status(refusals, ok) == IF refusals = <<>> THEN ok ELSE Head(refusals)

IsInteger(n) == n # None /\ n % 2 = 0
EntityId(n) == If(~IsInteger(n), 400)

\* A world: what each slug resolves to, and how the load and the write behind the route end.
GateProject(w, slug) == If(w.project[slug] = "not-found", 404) \o If(w.project[slug] = "unavailable", 503)
BuildingAccess(c, slug, id) == If(IsCitizen(c) /\ (c.slug # slug \/ 2 * c.building # id), 404)
ProjectAccess(c, slug) == If(IsCitizen(c) /\ c.slug # slug, 404)
Mutation(c) == If(IsCitizen(c), 403) \o If(c.kind = "anon", 401)
Loaded(w) == If(w.throws, 500) \o If(~w.found, 404)

Serve(w, r) == GateProject(w, r.slug) \o ProjectAccess(r.caller, r.slug) \o If(w.throws, 500)
SiteSpec(w, r) == Serve(w, r) \o If(~w.found, 404)
SurveyParcel(w, r) == EntityId(r.id) \o SiteSpec(w, r)
BuildingRoute(w, r) ==
  EntityId(r.id) \o BuildingAccess(r.caller, r.slug, r.id) \o GateProject(w, r.slug) \o Loaded(w)
BuildingUnits(w, r) == EntityId(r.id) \o If(r.level # <<>> /\ ~IsInteger(r.level[1]), 400) \o BuildingRoute(w, r)
BuildingPatch(w, r) ==
  EntityId(r.id) \o If(r.body = "malformed", 400) \o Mutation(r.caller)
    \o BuildingAccess(r.caller, r.slug, r.id) \o If(r.body \in {"null", "uneditable"}, 400)
    \o GateProject(w, r.slug) \o Loaded(w) \o If(r.body = "invalid", 422) \o If(w.writeFails \/ w.vanished, 500)
UnitSplit(w, r) ==
  EntityId(r.id) \o Mutation(r.caller) \o ProjectAccess(r.caller, r.slug) \o GateProject(w, r.slug)
    \o If(w.noDb, 503) \o If(~w.found, 404) \o If(w.writeFails, 500)

\* Number() of a JSON value <<type, number>>: null, false and an empty text are nought.
NumberOf(value) ==
  CASE value[1] = "number" -> value[2]
    [] value[1] \in {"null", "false", "empty"} -> 0
    [] value[1] = "true" -> 2
    [] OTHER -> None
Beyond(n, bound) == n # None /\ (n < -bound \/ n > bound)
\* The handler throws outside its try, and the framework answers.
Raised == -1
Query(w, r) ==
  IF r.body = "malformed" THEN <<400>>
  ELSE IF r.body = "null" THEN <<Raised>>
  ELSE LET lon == NumberOf(r.point.lon)
           lat == NumberOf(r.point.lat)
       IN If(None \in {lon, lat, NumberOf(r.point.z)} \/ Beyond(lat, 180) \/ Beyond(lon, 360), 400) \o Serve(w, r)

\* An identifier is what the two grammars read of it, or None.
LadmSpatialUnit(w, r) == If(r.su = None, 400) \o SiteSpec(w, r)
Issues(p, su) ==
  /\ p.state = su.state
  /\ IF su.grammar = "3d" THEN p.district2 = su.district ELSE p.district = su.district /\ p.scheme = su.scheme
Matching(projects, su) == SelectSeq(projects, LAMBDA p : Issues(p, su))
LadmByIdentifier(w, projects, r) ==
  IF r.su = None THEN <<400>>
  ELSE IF Matching(projects, r.su) = <<>> THEN <<404>>
       ELSE LadmSpatialUnit(w, [r EXCEPT !.slug = Head(Matching(projects, r.su)).slug])
ProjectRoute(w, slug) == GateProject(w, slug) \o If(w.throws, 500)

-----------------------------------------------------------------------------
(* Narrowing: a building document *)

Only(f, fields) == Restrict(f, DOMAIN f \cap fields)
Without(f, fields) == Restrict(f, DOMAIN f \ fields)
Field(f, k) == IF k \in DOMAIN f THEN f[k] ELSE None

FabricKinds == {"elevator", "stair", "circulation", "atrium", "plant"}
IdentityFields == {"ulpin", "carpet_m2", "built_m2", "tenure", "encumbrance", "owner", "address", "facing"}
CitizenBuildingFields ==
  {"id", "name", "address", "footprint", "height_m", "floors", "basements", "ground_elev", "ground_source",
   "use_type", "height_source", "parcel_id", "survey_synthetic", "osm_id"}
PublicUnitFields == {"id", "floor_id", "level_no", "z_min", "z_max", "ring", "kind", "core_ref"}

IsFabric(u) == Field(u, "kind") \in FabricKinds
StripCoreIdentity(d) ==
  [d EXCEPT !.units = [i \in DOMAIN d.units |->
     IF IsFabric(d.units[i]) THEN Without(d.units[i], IdentityFields) ELSE d.units[i]]]

OwnsUnit(c, u) == IsCitizen(c) => u.level_no = c.floor /\ Field(u, "unit_no") = c.unit

Redacted(u) ==
  LET kept == PublicUnitFields \cup (IF IsFabric(u) THEN {"unit_no", "label"} ELSE {})
  IN [k \in (DOMAIN u \cap kept) \cup {"restricted"} |-> IF k = "restricted" THEN TRUE ELSE u[k]]

FilterDetail(c, d) ==
  LET own == {i \in DOMAIN d.units : OwnsUnit(c, d.units[i])}
      bay == IF own = {} THEN None ELSE Field(d.units[Min(own)], "parking_ulpin")
      whole(u) == OwnsUnit(c, u) \/ (bay # None /\ Field(u, "ulpin") = bay)
  IN IF ~IsCitizen(c) THEN d
     ELSE [building |-> Only(d.building, CitizenBuildingFields),
           parcel |-> None,
           floors |-> [i \in DOMAIN d.floors |-> Without(d.floors[i], {"ulpin"})],
           units |-> [i \in DOMAIN d.units |-> IF whole(d.units[i]) THEN d.units[i] ELSE Redacted(d.units[i])]]

NarrowDetail(c, d) == FilterDetail(c, StripCoreIdentity(d))

Summary(c, d) ==
  LET v == NarrowDetail(c, d)
  IN [building |-> v.building, parcel |-> v.parcel, floor_count |-> Len(v.floors), unit_count |-> Len(v.units)]

UnitsDefaultLimit == 200
UnitsMaxLimit == 1000
Limit(raw) ==
  IF raw # None /\ raw > 0 THEN (IF raw \div 2 < UnitsMaxLimit THEN raw \div 2 ELSE UnitsMaxLimit) ELSE UnitsDefaultLimit
Offset(raw) == IF raw # None /\ raw > 0 THEN raw \div 2 ELSE 0
UnitsPage(c, d, level, limit, offset) ==
  LET visible == NarrowDetail(c, d).units
      matching == IF level = <<>> THEN visible ELSE SelectSeq(visible, LAMBDA u : 2 * u.level_no = level[1])
  IN [total |-> Len(matching), offset |-> Offset(offset), limit |-> Limit(limit),
      units |-> SubSeq(matching, Offset(offset) + 1,
                       IF Offset(offset) + Limit(limit) < Len(matching) THEN Offset(offset) + Limit(limit) ELSE Len(matching))]

-----------------------------------------------------------------------------
(* Narrowing: collections *)

CitizenFeatureStrip == {"ulpin", "owner", "ulpin_14", "owner_name"}
StripAll(fs) == [i \in DOMAIN fs |-> Without(fs[i], CitizenFeatureStrip)]
ForCitizen(c, fs, narrowed) == IF IsCitizen(c) THEN narrowed ELSE fs

Buildings(c, fs) == ForCitizen(c, fs, StripAll(SelectSeq(fs, LAMBDA f : f.id = c.building)))
Parcels(c, fs) == ForCitizen(c, fs, StripAll(fs))
StandsOn(c, f) == c.building \in f.building_ids
SurveyParcels(c, fs) == ForCitizen(c, fs, SelectSeq(fs, LAMBDA f : StandsOn(c, f)))
Section22A(c, parcels, listings) ==
  LET mine == {parcels[i].id : i \in {j \in DOMAIN parcels : StandsOn(c, parcels[j])}}
  IN ForCitizen(c, listings, SelectSeq(listings, LAMBDA l : l.parcel_id \in mine))
OfBuilding(c, fs) == ForCitizen(c, fs, SelectSeq(fs, LAMBDA f : Field(f, "building_id") = c.building))
Topology(c, findings) ==
  ForCitizen(c, findings, SelectSeq(findings, LAMBDA f : c.building \in {f.a.building_id, f.b.building_id}))
SurveyParcelBuildings(c, documents) ==
  ForCitizen(c, documents, SelectSeq(documents, LAMBDA d : d.building["id"] = c.building))

-----------------------------------------------------------------------------
(* Narrowing: a LADM document *)

Bare(n) == ToString(n)
Padded(n) == IF n < 10 THEN "00" \o ToString(n) ELSE IF n < 100 THEN "0" \o ToString(n) ELSE ToString(n)
FloorNo(level) ==
  CASE level.kind = "ground" -> 0
    [] level.kind = "floor" -> level.n
    [] level.kind = "basement" -> -level.n
    [] OTHER -> None

OwnsSpatialUnit(c, su) ==
  IsCitizen(c) =>
    IF su.grammar = "3d"
    THEN /\ su.level # None
         /\ su.unit # None
         /\ FloorNo(su.level) # None
         /\ FloorNo(su.level) = c.floor
         /\ c.unit \in {Bare(su.unit), Padded(su.unit)}
    ELSE /\ su.floor # None
         /\ su.slot # None
         /\ su.floor = c.floor
         /\ su.slot = c.unit

FilterLadm(c, doc, owns) ==
  IF c.kind = "gov" \/ (IsCitizen(c) /\ owns) THEN doc
  ELSE [su |-> doc.su, rrrs |-> <<>>, parties |-> <<>>, easements |-> doc.easements, restricted |-> TRUE,
        redaction_note |-> IF c.kind = "anon" THEN "not to the unauthenticated" ELSE "not yours to read"]

\* The feature of the route: the volume's ring is its geometry, the rest its properties.
GeoJsonOf(doc) ==
  ("id" :> doc.su["su_id"]) @@ ("geometry" :> Field(doc.su, "ring"))
    @@ ("properties" :> ("spatial_unit" :> Without(doc.su, {"ring"})) @@ Without(doc, {"su"}))

-----------------------------------------------------------------------------
(* Signing in *)

Residents(world, slug) == IF slug \in DOMAIN world.residents THEN world.residents[slug] ELSE <<>>
Found(world, r) == SelectSeq(Residents(world, r.slug), LAMBDA p : p.aadhar = r.aadhar /\ p.phone = r.phone)
CitizenLogin(world, r) ==
  If(~r.wellFormed, 400) \o If(r.slug \notin world.listed, 404) \o If(Found(world, r) = <<>>, 401)
CitizenClaims(world, r) ==
  LET p == Head(Found(world, r)) IN [role |-> "citizen", slug |-> r.slug, building |-> p.building, floor |-> p.floor, unit |-> p.unit]

\* The address is folded to lower case, the keys of the roster are not.
Folded(address) == [address EXCEPT !.upper = FALSE]
GovLogin(roster, r) ==
  If(~r.wellFormed, 400)
    \o If(Folded(r.email) \notin DOMAIN roster \/ roster[Folded(r.email)] # r.password, 401)

\* The session of a request, and what a route for one role alone would answer.
Guard(session, role) == If(session = None, 401) \o If(session # None /\ session.role # role, 403)
Me(session) == IF session = None THEN [role |-> None] ELSE session
=============================================================================
