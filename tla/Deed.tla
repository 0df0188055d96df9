--------------------------------- MODULE Deed --------------------------------
(***************************************************************************)
(* The certificate of one volume: what it says (lib/deed/certificate.ts),  *)
(* where its rows come to lie on the sheets (lib/deed/pdf.ts) and the      *)
(* button that asks for it (DeedButton.tsx).  The datum is lib/datum.ts.   *)
(* A ring is a closed sequence of corners in whole units, a text its       *)
(* value, and what wraps is the number of lines it takes.                  *)
(***************************************************************************)
EXTENDS Panel

-----------------------------------------------------------------------------
(* datum.ts *)

HasDatum(sep) == sep # None
OrthometricToEllipsoidal(h, sep) == IF HasDatum(sep) THEN h + sep ELSE h
EllipsoidalToOrthometric(h, sep) == IF HasDatum(sep) THEN h - sep ELSE h
DatumNote(sep) == IF HasDatum(sep) THEN <<"orthometric, against the ellipsoid by", sep>> ELSE <<"orthometric, no separation recorded">>

-----------------------------------------------------------------------------
(* certificate.ts: what is said *)

Corners(ring) == IF Len(ring) > 1 /\ ring[1] = ring[Len(ring)] THEN Front(ring) ELSE ring
Along(ring, k) == {ring[i][k] : i \in DOMAIN ring}

\* The extent in plan; of a volume without a ring, all zero.
RingBounds(ring) ==
  [lon_min |-> Min(Along(ring, 1)), lon_max |-> Max(Along(ring, 1)), lat_min |-> Min(Along(ring, 2)), lat_max |-> Max(Along(ring, 2))]
Unplaced == [lon_min |-> 0, lon_max |-> 0, lat_min |-> 0, lat_max |-> 0]
Centre(ring) ==
  LET mean(k) == FoldLeft(LAMBDA t, c : t + c[k], 0, Corners(ring)) \div Len(Corners(ring))
  IN IF ring = <<>> THEN <<0, 0>> ELSE <<mean(1), mean(2)>>

\* Where the geometry came from, in one sentence.
ProvenanceLine(source, synthetic) ==
  CASE source = "surveyed_plan" -> IF synthetic THEN "a plan declared synthetic" ELSE "a surveyed plan"
    [] source = "dsm_dem" -> "a surface model, no survey"
    [] source = "osm_tag" -> "the map, no survey"
    [] OTHER -> "estimated, no survey"

\* The bay the flat's own record names, whether or not its row is among the units.
DeedParking(u, b, units) ==
  LET bay == FirstWith(units, "ulpin", u.parking_ulpin)
      from(k) == IF bay = None THEN None ELSE Of(bay, k)
      level == Else(from("level_no"), Of(u, "parking_level"))
  IN [ulpin |-> u.parking_ulpin,
      label |-> Else(Of(u, "parking_label"), Else(from("label"), Else(from("unit_no"), u.parking_ulpin))),
      level |-> IF level = None THEN None ELSE LevelLabel(level, b.floors - 1),
      area  |-> from("built_m2")]

\* A redacted document, and none, have nothing to say.
DeedLadmOf(doc) ==
  IF doc = None \/ doc.restricted THEN None
  ELSE [su |-> doc.su, ba |-> doc.ba,
        members  |-> IF doc.ba = None THEN <<>> ELSE [i \in DOMAIN doc.ba.members |->
                       LET m == doc.ba.members[i] IN <<Else(Of(m, "label"), m.su), m.role, m.share>>],
        rrrs     |-> [i \in DOMAIN doc.rrrs |-> LET r == doc.rrrs[i] IN <<r.type, r.class, r.party, r.reference>>],
        parties  |-> [i \in DOMAIN doc.parties |-> LET p == doc.parties[i] IN <<p.role, p.name>>],
        easements |-> [i \in DOMAIN doc.easements |-> Else(Of(doc.easements[i], "label"), doc.easements[i].su)]]

\* buildDeed: None for a volume of another.  titled is the kind's.
BuildDeed(u, d, slug, titled, note, ladm) ==
  LET b == d.building
      ring == Else(Of(u, "ring"), <<>>)
      height == u.z_max - u.z_min
      own(k) == IF titled THEN Of(u, k) ELSE None
      id == Else(Of(u, "ulpin3d"), Of(u, "ulpin"))
  IN IF Of(u, "restricted") = TRUE THEN None
     ELSE [ulpin        |-> id,
           legacy_id    |-> IF Of(u, "ulpin3d") # None THEN Of(u, "ulpin") ELSE None,
           title        |-> UnitTitle(u), kind |-> Else(Of(u, "kind"), "flat"), titled |-> titled,
           building     |-> <<Else(Of(b, "name"), b.id), Else(Of(b, "ulpin3d"), Of(b, "ulpin"))>>,
           parcel_ulpin |-> IF d.parcel = None THEN None ELSE Else(Of(d.parcel, "ulpin3d"), d.parcel.ulpin),
           address      |-> Else(Of(u, "address"), Of(b, "address")),
           level        |-> LevelLabel(u.level_no, b.floors - 1),
           owner |-> own("owner"), tenure |-> Of(u, "tenure"), encumbrance |-> own("encumbrance"),
           title_deed |-> own("title_deed"), registered_on |-> own("registered_on"),
           carpet_m2 |-> Of(u, "carpet_m2"), built_m2 |-> Of(u, "built_m2"),
           parking   |-> IF titled /\ Of(u, "parking_ulpin") # None THEN DeedParking(u, b, d.units) ELSE None,
           height_m  |-> height,
           volume_m3 |-> IF Of(u, "built_m2") = None THEN None ELSE u.built_m2 * height,
           bounds    |-> IF ring = <<>> THEN Unplaced ELSE RingBounds(ring), z |-> <<u.z_min, u.z_max>>,
           centre    |-> Centre(ring),
           ladm      |-> DeedLadmOf(ladm),
           api_url   |-> IF Of(u, "ulpin") # None THEN <<"ladm", id>> ELSE <<slug, b.id>>,
           datum     |-> note,
           provenance |-> LET f == FirstWith(d.floors, "id", u.floor_id) IN
                          ProvenanceLine(IF f = None THEN None ELSE f.detect_source, b.survey_synthetic),
           disclaimer |-> "demonstration identifiers"]

\* What a certificate promises: what the volume is not is absent and not empty, and its one
\* coordinate lies within the extent it states.
IsDeed(d) ==
  /\ ~d.titled => {d.owner, d.encumbrance, d.title_deed, d.registered_on} = {None} /\ d.parking = None
  /\ d.legacy_id # None => d.ulpin \notin {None, d.legacy_id}
  /\ (d.volume_m3 = None) = (d.built_m2 = None)
  /\ d.parking # None => None \notin {d.parking.ulpin, d.parking.label}
  /\ d.centre[1] \in d.bounds.lon_min..d.bounds.lon_max /\ d.centre[2] \in d.bounds.lat_min..d.bounds.lat_max
  /\ d.z[2] - d.z[1] = d.height_m

\* The rows in their order, without what is absent or empty.
Text(v) == IF v = "" THEN None ELSE v
Printed(rows) == SelectSeq(rows, LAMBDA r : r[2] # None)
DeedRows(d) ==
  Printed(<<<<"3D ULPIN", d.ulpin>>, <<"Formerly", d.legacy_id>>, <<"Description", d.title>>, <<"Building", d.building>>,
            <<"Parcel", d.parcel_ulpin>>, <<"Level", d.level>>, <<"Address", Text(d.address)>>, <<"Held by", Text(d.owner)>>,
            <<"Tenure", Text(d.tenure)>>, <<"Encumbrance", Text(d.encumbrance)>>, <<"Title deed", Text(d.title_deed)>>,
            <<"Registered on", Text(d.registered_on)>>, <<"Carpet area", d.carpet_m2>>, <<"Built-up area", d.built_m2>>,
            <<"Clear height", d.height_m>>, <<"Volumetric extent", d.volume_m3>>>>)

DeedParkingRows(d) ==
  IF d.parking = None THEN <<>>
  ELSE Printed(<<<<"Bay", d.parking.label>>, <<"Bay 3D ULPIN", d.parking.ulpin>>, <<"Bay level", <<d.parking.level>>>>,
                 <<"Bay area", d.parking.area>>, <<"Held as", "appurtenant">>>>)

DeedBoundsRows(d) ==
  <<<<"X min", d.bounds.lon_min>>, <<"X max", d.bounds.lon_max>>, <<"Y min", d.bounds.lat_min>>, <<"Y max", d.bounds.lat_max>>,
    <<"Z min", d.z[1]>>, <<"Z max", d.z[2]>>, <<"Centroid", d.centre>>, <<"CRS", "EPSG:4326">>>>

LadmRows(d) ==
  LET l == d.ladm
      named(label, s) == [i \in DOMAIN s |-> <<IF i = 1 THEN label ELSE "", s[i]>>]
      headed(class, label, s) == IF s = <<>> THEN <<>> ELSE <<<<"class", class>>>> \o named(label, s)
      height == Of(l.su, "height")
  IN IF l = None THEN <<>>
     ELSE <<<<"class", "LA_SpatialUnit">>, <<"id", l.su.su>>, <<"type", l.su.dimension>>, <<"provenance", l.su.provenance>>>>
            \o (IF height = None THEN <<>> ELSE <<<<"msl", height.msl>>>>)
            \o (IF height = None \/ height.ellipsoidal = None THEN <<>> ELSE <<<<"ellipsoidal", height.ellipsoidal>>>>)
            \o (IF l.ba = None THEN <<>> ELSE <<<<"class", "LA_BAUnit">>, <<"legal unit", l.ba.name>>, <<"legal unit id", l.ba.ba>>>>)
            \o named("Bundled assets", l.members)
            \o headed("LA_RRR", "Rights", l.rrrs) \o headed("LA_Party", "Stakeholders", l.parties)
            \o named("Easements", l.easements)

-----------------------------------------------------------------------------
(* pdf.ts: where it is laid, in tenths of a millimetre from the top of a sheet *)

Top == 180
Foot == 2970 - 200
Stamp == 2970 - 120
On(page, y) == [page |-> page, y |-> y]
Laid(at, h) == [page |-> at.page, from |-> at.y, to |-> at.y + h]

BreakIfNeeded(at, need) == IF at.y + need <= Foot THEN at ELSE On(at.page + 1, Top)

\* A table of rows of so many lines each under its heading: where each row is laid, where the
\* heading is said again, for a row that does not fit begins the next sheet, and where it ends.
Heading(at) == Laid(at, 40)
Below(b) == On(b.page, b.to)
Table(at, rows) ==
  LET row[i \in 0..Len(rows)] ==
        IF i = 0 THEN Heading(at)
        ELSE LET h == 42 * Max({1, rows[i]})
                 end == Below(row[i - 1])
             IN Laid(IF end.y + h > Foot THEN Below(Heading(On(end.page + 1, Top))) ELSE end, h)
      again(i) == IF i > 0 /\ row[i].page > row[i - 1].page THEN <<Heading(On(row[i].page, Top))>> ELSE <<>>
  IN [at |-> Below(row[Len(rows)]), laid |-> FlattenSeq([i \in 1..Len(rows) + 1 |-> again(i - 1) \o <<row[i - 1]>>])]

Paragraph(at, lines, h) == On(at.page, at.y + lines * h)

\* renderDeed: the deed's tables as the lines of their rows, its paragraphs as their lines.
RenderDeed(identified, disclaimer, record, parking, bounds, ladm, provenance, datum) ==
  LET under == On(1, Top + 130 + (IF identified THEN 110 ELSE 0) + 10 + disclaimer * 36 + 30)
      recorded == Table(under, record)
      beside == On(recorded.at.page, Max({recorded.at.y, Top + 300 + 240}))
      section(s, rows, need) ==
        LET t == Table(BreakIfNeeded(On(s.at.page, s.at.y + 20), need), rows)
        IN IF rows = <<>> THEN s ELSE [at |-> t.at, laid |-> s.laid \o t.laid]
      parked == section([at |-> beside, laid |-> recorded.laid], parking, 240)
      bounded == section(parked, bounds, 300)
      told == section(bounded, ladm, 240)
      last == BreakIfNeeded(told.at, 260)
      said == On(last.page, last.y + 70)
      source == Paragraph(said, provenance, 38)
      vertical == Paragraph(On(source.page, source.y + 10), datum, 38)
  IN [qr |-> Laid(under, 330), record |-> recorded.laid,
      laid |-> told.laid \o <<Laid(On(last.page, last.y + 30), vertical.y - last.y - 30)>>,
      pages |-> vertical.page, stamped |-> 1..vertical.page]

DeedFilename(deed) == IF deed.ulpin # None THEN <<deed.ulpin>> ELSE deed.title

-----------------------------------------------------------------------------
(* The button *)

Idle == [busy |-> FALSE, error |-> None, saved |-> None]
Offered(u, project) == Of(u, "restricted") # TRUE /\ project # None

\* The answer about the volume's legal record: its status and its document, or None if the
\* request failed.  Only what states a spatial unit is taken.
FetchedLadm(u, answer) ==
  IF Of(u, "ulpin") = None \/ answer = None \/ answer.status # 200 \/ answer.doc = None \/ answer.doc.su = None THEN None
  ELSE answer.doc

Press(s, u, project) == IF s.busy \/ ~Offered(u, project) THEN s ELSE [s EXCEPT !.busy = TRUE, !.error = None]
\* rendered tells whether the sheets could be made.
Finish(s, u, d, project, titled, answer, rendered) ==
  LET deed == BuildDeed(u, d, project.slug, titled, DatumNote(project.geoid_sep_m), FetchedLadm(u, answer))
  IN IF deed = None THEN [s EXCEPT !.busy = FALSE, !.error = "no record to print"]
     ELSE IF ~rendered THEN [s EXCEPT !.busy = FALSE, !.error = "could not generate"]
     ELSE [s EXCEPT !.busy = FALSE, !.saved = deed]
ErrorFades(s) == [s EXCEPT !.error = None]
=============================================================================
