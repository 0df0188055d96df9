----------------------------- MODULE Section22A -----------------------------
(***************************************************************************)
(* The prohibited-property register (lib/section22a): which rows of its    *)
(* file are records, where a record is drawn, what the endpoint answers,   *)
(* what the layer puts on the map and what the card says.  A text is its   *)
(* value, "" the empty one and None an absent or a wrongly typed one; a    *)
(* ring is a sequence of corners in whole units.  A record's location and  *)
(* its Bhu-Aadhaar, which are printed and nothing else, are left out.      *)
(***************************************************************************)
EXTENDS Rings

CONSTANTS None

-----------------------------------------------------------------------------
(* types.ts *)

Restricted == "22A_RESTRICTED"
Categories ==
  {"GOVERNMENT_LAND", "ASSIGNED_LAND", "ENDOWMENT_LAND", "WAKF_LAND", "BHOODAN_LAND", "CEILING_SURPLUS", "COURT_ORDER", "OTHER"}

\* What a source promises: every field a register may lack is nullable, id and survey_no are not.
IsRecord(r) ==
  /\ {r.id, r.survey_no} \cap {None, ""} = {}
  /\ r.status = Restricted
  /\ r.category \in Categories
  /\ "" \notin {r.clause, r.authority, r.reference, r.listed_on, r.remarks}
  /\ r.extent = None \/ r.extent > 0
  /\ r.parcel_ref = None \/ r.parcel_ref \in Int
  /\ r.geometry = None \/ r.geometry \in Seq(Seq(Int \X Int))

\* extentsDisagree: by more than the twentieth of what the register states.
ExtentsDisagree(stated, mapped) ==
  /\ None \notin {stated, mapped}
  /\ stated > 0 /\ mapped > 0
  /\ 20 * (IF stated > mapped THEN stated - mapped ELSE mapped - stated) > stated

-----------------------------------------------------------------------------
(* source.ts: the file of a project *)

Str(v) == IF v = "" THEN None ELSE v

\* Only a polygon with coordinates is a geometry, only a numbered survey parcel a reference.
Geometry(g) == IF g # None /\ g.type = "Polygon" THEN g.coordinates ELSE None
ParcelRef(ref) == IF ref # None /\ ref.kind = "survey_parcel" THEN ref.id ELSE None

CoerceRecord(row) ==
  IF row = None \/ None \in {Str(row.id), Str(row.survey_no)} \/ row.status \notin {None, Restricted} THEN None
  ELSE [id         |-> row.id,
        survey_no  |-> row.survey_no,
        status     |-> Restricted,
        category   |-> IF row.category \in Categories THEN row.category ELSE "OTHER",
        clause     |-> Str(row.clause),
        authority  |-> Str(row.authority),
        reference  |-> Str(row.reference),
        listed_on  |-> Str(row.listed_on),
        remarks    |-> Str(row.remarks),
        extent     |-> IF row.extent # None /\ row.extent > 0 THEN row.extent ELSE None,
        parcel_ref |-> ParcelRef(row.parcel_ref),
        geometry   |-> Geometry(row.geometry)]

\* A file is None if it cannot be read or parsed; its records may be anything but a list.
Nothing == [records |-> <<>>, retrieved_on |-> None]
List(validSlug, file) ==
  IF ~validSlug \/ file = None THEN Nothing
  ELSE LET rows == IF file.records = None THEN <<>> ELSE file.records
           coerced == [i \in DOMAIN rows |-> CoerceRecord(rows[i])]
       IN [records |-> SelectSeq(coerced, LAMBDA r : r # None), retrieved_on |-> file.retrieved_on]

FileSource == [id |-> "mock-file", authoritative |-> FALSE]
Section22ASourceFor(slug) == FileSource

-----------------------------------------------------------------------------
(* resolve.ts: what is drawn for a record *)

\* The area, or None where there is none to measure.
RingArea(ring) ==
  LET doubled == SignedArea2(ring)
  IN IF Len(ring) < 4 \/ doubled = 0 THEN None ELSE (IF doubled > 0 THEN doubled ELSE -doubled) \div 2

OuterRing(geometry) ==
  IF geometry = None \/ geometry = <<>> \/ Len(geometry[1]) < 4 THEN None ELSE geometry[1]

\* The last of the parcels that bear an id.
ById(parcels, id) ==
  LET bearing == {i \in DOMAIN parcels : parcels[i].id = id}
  IN IF id = None \/ bearing = {} THEN None ELSE parcels[Max(bearing)]

Feature(record, geometry, source, id, label) ==
  [record |-> record, geometry |-> geometry, geometry_source |-> source, parcel_id |-> id, parcel_label |-> label,
   mapped_extent |-> RingArea(OuterRing(geometry))]

\* The register's own boundary, or else that of the parcel it names; None with neither.
Located(record, parcels) ==
  LET parcel == ById(parcels, record.parcel_ref)
  IN IF OuterRing(record.geometry) # None
     THEN Feature(record, record.geometry, "register", record.parcel_ref, None)
     ELSE IF parcel = None \/ OuterRing(parcel.geometry) = None THEN None
          ELSE Feature(record, parcel.geometry, "cadastre_match", parcel.id, parcel.label)

ResolveSection22A(records, parcels) ==
  LET all == [i \in DOMAIN records |-> Located(records[i], parcels)]
  IN [features |-> SelectSeq(all, LAMBDA f : f # None),
      unlocated |-> SelectSeq(records, LAMBDA r : Located(r, parcels) = None)]

\* getSection22A: a source that throws is an empty register.
GetSection22A(source, listing, parcels) ==
  LET known == IF listing = None THEN Nothing ELSE listing
      resolved == ResolveSection22A(known.records, parcels)
  IN [features |-> resolved.features,
      register |-> [source |-> source.id, authoritative |-> source.authoritative,
                    retrieved_on |-> known.retrieved_on,
                    record_count |-> Len(known.records),
                    unlocated_count |-> Len(resolved.unlocated)],
      disclaimers |-> (IF source.authoritative THEN {} ELSE {"mock"}) \cup {"verify"}]

-----------------------------------------------------------------------------
(* Section22ALayer *)

\* What is put on the map of the features, each with the handle it is picked by and the
\* entry the pick opens: a face and hatch, an outline and the mark at its pole.
Drawable(f) == f.geometry # <<>> /\ Len(f.geometry[1]) >= 4
Faces(features) ==
  LET drawn == SelectSeq(features, Drawable)
  IN [i \in DOMAIN drawn |-> [handle |-> i, ref |-> drawn[i].record.id, ring |-> drawn[i].geometry[1]]]

FirstOf(features, id) ==
  LET named == {i \in DOMAIN features : features[i].record.id = id}
  IN IF named = {} THEN None ELSE features[Min(named)]

\* The heavier boundary of the selected entry.
Halo(features, show, active) ==
  LET f == FirstOf(features, active)
  IN IF show /\ active # None /\ f # None /\ Drawable(f) THEN f.geometry[1] ELSE None

-----------------------------------------------------------------------------
(* Section22ACard *)

\* The identifier the card mints or reads: the parcel row is looked up, by the number of a
\* survey parcel, among the parcels of the surface.
CardIdentifier(f, parcels, codes) ==
  LET rows == SelectSeq(parcels, LAMBDA p : p.id = f.parcel_id)
  IN IF f.parcel_label = None THEN None
     ELSE IF rows # <<>> /\ rows[1].ulpin3d # None THEN rows[1].ulpin3d
          ELSE <<IF codes = None THEN "AP-VSP" ELSE codes, f.parcel_label>>

Stated(r, field) == IF r[field] = None THEN {} ELSE {<<field, r[field]>>}

Section22ACard(f, register, parcels, codes, gis2d) ==
  LET known == register # None
      r == f.record
      disagree == ExtentsDisagree(r.extent, f.mapped_extent)
  IN [status     |-> r.status,
      official   |-> known /\ register.authoritative,
      source     |-> IF known THEN register.source ELSE None,
      identifier |-> CardIdentifier(f, parcels, codes),
      rows       |-> {<<"survey_no", r.survey_no>>, <<"category", r.category>>, <<"id", r.id>>, <<"boundary", f.geometry_source>>}
                       \cup UNION {Stated(r, field) : field \in {"clause", "extent", "authority", "reference", "listed_on", "remarks"}}
                       \cup (IF disagree THEN {<<"mapped_extent", f.mapped_extent>>} ELSE {}),
      opens      |-> IF gis2d THEN f.parcel_id ELSE None,
      notes      |-> (IF known /\ register.authoritative THEN {} ELSE {"mock"}) \cup {"verify"}]
=============================================================================
