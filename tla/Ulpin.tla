------------------------------- MODULE Ulpin ---------------------------------
(***************************************************************************)
(* The older identifier of lib/ulpin.ts,                                   *)
(*     <state>-<district>-<scheme>-<parcel>-<building>-<floor>-<slot>,     *)
(* and its twins ulpin_fmt, ulpin_fmt_slot and unit_slot in                *)
(* db/02_functions.sql.  It has no check character: what holds it together *)
(* is that its reader and its two writers keep one grammar.                *)
(*                                                                         *)
(* Texts are sequences of groups of characters, as in Ulpin3D.             *)
(***************************************************************************)
EXTENDS Ulpin3D

(* The unit slot *)

SlotKinds == {"flat", "retail", "anchor", "parking", "circulation", "atrium",
              "elevator", "stair", "plant"}

\* Two pairs of kinds share a letter.
SlotPrefix == [flat |-> <<>>, retail |-> <<27>>, anchor |-> <<27>>, parking |-> <<25>>,
               circulation |-> <<12>>, atrium |-> <<12>>,
               elevator |-> <<14, 31>>, stair |-> <<28, 29>>, plant |-> <<25, 21>>]

\* So a slot reads back as the first kind of its prefix.
BaseKinds == SlotKinds \ {"anchor", "atrium"}
BaseKind(kind) == CHOOSE k \in BaseKinds : SlotPrefix[k] = SlotPrefix[kind]

\* There is one lift shaft, one staircase and one plant room of a level.
BareKinds == {"elevator", "stair", "plant"}

\* Throws for a flat without a number.
UnitSlot(kind, n) == IF n = None THEN SlotPrefix[kind] ELSE SlotPrefix[kind] \o Pad(n, 2)

SlotNumber(d) == d \in Seq(Digit) /\ Len(d) \in 2..4

Rest(s, prefix) == SubSeq(s, Len(prefix) + 1, Len(s))

\* What parseUnitSlot finds: none or one.
SlotRead(s) ==
  {r \in [kind : BareKinds, unit : {None}] : s = SlotPrefix[r.kind]}
    \cup {[kind |-> k, unit |-> Value(Rest(s, SlotPrefix[k]))] :
            k \in {b \in BaseKinds \ BareKinds : /\ SubSeq(s, 1, Len(SlotPrefix[b])) = SlotPrefix[b]
                                                 /\ SlotNumber(Rest(s, SlotPrefix[b]))}}

-----------------------------------------------------------------------------
(* Writing *)

Decimal(n) == Digits(n, Width(n))

FloorCode(level) == IF level < 0 THEN <<11>> \o Decimal(-level) ELSE Pad(level, 2)

\* The codes of a project: state, district and the series of this application.
DemoCodes == <<<<10, 25>>, <<31, 28, 25>>, <<3, 13, 2, 6>>>>      \* AP-VSP-3D26

\* Cut at the first part that is omitted.  A slot is a text; the number n of a flat
\* is written as UnitSlot("flat", n).
Generate(codes, parcel, building, floor, slot) ==
  codes \o
    (IF building = None THEN <<Pad(parcel, 4)>>
     ELSE IF floor = None THEN <<Pad(parcel, 4), Pad(building, 3)>>
     ELSE IF slot = None THEN <<Pad(parcel, 4), Pad(building, 3), FloorCode(floor)>>
     ELSE <<Pad(parcel, 4), Pad(building, 3), FloorCode(floor), slot>>)

\* ulpin_fmt_slot: lpad cuts what is too long.
SqlFloor(level) == IF level < 0 THEN <<11>> \o Decimal(-level) ELSE Lpad(level, 2)

UlpinFmtSlot(codes, parcel, building, floor, slot) ==
  codes \o
    (IF building = None THEN <<Lpad(parcel, 4)>>
     ELSE IF floor = None THEN <<Lpad(parcel, 4), Lpad(building, 3)>>
     ELSE IF slot = None THEN <<Lpad(parcel, 4), Lpad(building, 3), SqlFloor(floor)>>
     ELSE <<Lpad(parcel, 4), Lpad(building, 3), SqlFloor(floor), slot>>)

\* ulpin_fmt knows flats only, and cuts their number too.
UlpinFmt(codes, parcel, building, floor, unit) ==
  UlpinFmtSlot(codes, parcel, building, floor, IF unit = None THEN None ELSE Lpad(unit, 2))

\* unit_slot; a flat without a number is the empty slot here.
SqlUnitSlot(kind, n) ==
  SlotPrefix[kind] \o (IF n = None THEN <<>> ELSE IF n < 100 THEN Lpad(n, 2) ELSE Decimal(n))

-----------------------------------------------------------------------------
(* Reading *)

\* Two letters, two to four letters, four letters or digits.
AnyCodes(c) ==
  /\ Len(c) = 3
  /\ c[1] \in Seq(Letter) /\ Len(c[1]) = 2
  /\ c[2] \in Seq(Letter) /\ Len(c[2]) \in 2..4
  /\ c[3] \in Seq(Body) /\ Len(c[3]) = 4

FloorGroup(g) == Number(g, 2) \/ (Len(g) = 2 /\ g[1] = 11 /\ g[2] \in Digit)

ParseFloorCode(g) == IF g[1] = 11 THEN -g[2] ELSE Value(g)

\* patternFor: the codes of one project, or None for any that are well formed.
Matches(id, codes) ==
  /\ Len(id) \in 4..7
  /\ IF codes = None THEN AnyCodes(SubSeq(id, 1, 3)) ELSE codes = SubSeq(id, 1, 3)
  /\ Number(id[4], 4)
  /\ Len(id) > 4 => Number(id[5], 3)
  /\ Len(id) > 5 => FloorGroup(id[6])
  /\ Len(id) > 6 => SlotRead(id[7]) # {}

\* parse: the parts, or none.
Parse(id, codes) ==
  IF ~Matches(id, codes) THEN {}
  ELSE [parcel : {Value(id[4])},
        building : {IF Len(id) > 4 THEN Value(id[5]) ELSE None},
        floor : {IF Len(id) > 5 THEN ParseFloorCode(id[6]) ELSE None},
        slot : {IF Len(id) > 6 THEN id[7] ELSE None},
        read : IF Len(id) > 6 THEN SlotRead(id[7]) ELSE {None}]

\* The codes an identifier carries; the demo's, where it carries none.
CodesOf(id) == IF Matches(id, None) THEN SubSeq(id, 1, 3) ELSE DemoCodes

\* A lift shaft has a slot and no number: the slot decides.
LevelOf(id, codes) ==
  {IF p.slot # None THEN "unit"
   ELSE IF p.floor # None THEN "floor"
   ELSE IF p.building # None THEN "building"
   ELSE "parcel" : p \in Parse(id, codes)}

\* The parent keeps the codes it is found under; the parcel has none.
ParentOf(id, codes) ==
  {Generate(CodesOf(id), p.parcel, IF p.floor # None THEN p.building ELSE None,
            IF p.slot # None THEN p.floor ELSE None, None) :
     p \in {q \in Parse(id, codes) : q.building # None}}

-----------------------------------------------------------------------------
(* From the older identifier to the 3D one: the backfill of a snapshot *)

Level3DOf(floor) == CASE floor = 0 -> [kind |-> "ground", n |-> 0]
                      [] floor > 0 -> [kind |-> "floor", n |-> floor]
                      [] floor < 0 -> [kind |-> "basement", n |-> -floor]

Unit3DKindOf(kind) == CASE kind = "parking" -> "parking"
                        [] kind \in {"flat", "retail", "anchor"} -> "unit"
                        [] OTHER -> "common"

\* The kind is that of the row.  A slot without a number, or with one of four digits,
\* is skipped.
BackfilledUnit(ulpin14, id, kind) ==
  {Encode3D([ulpin14 |-> ulpin14, building |-> p.building, level |-> Level3DOf(p.floor),
             unit |-> [kind |-> Unit3DKindOf(kind), n |-> p.read.unit]]) :
     p \in {q \in Parse(id, None) : /\ q.slot # None
                                    /\ q.read.unit # None /\ q.read.unit \in 1..999}}
=============================================================================
