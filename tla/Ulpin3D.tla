------------------------------ MODULE Ulpin3D -------------------------------
(***************************************************************************)
(* The 3D ULPIN and the infrastructure identifier of lib/ulpin.ts, and     *)
(* their twins in db/02_functions.sql: how an identifier is put together,  *)
(* read back, and refused when a character of it is wrong.                 *)
(*                                                                         *)
(* A character is its value in the alphabet of the check character: a      *)
(* digit is itself, A is 10, Z is 35 and the star 36.  A text is a         *)
(* sequence of groups, what stands between two hyphens; white space and    *)
(* small letters, which every function drops first, are left out.          *)
(***************************************************************************)
EXTENDS Integers, Sequences

CONSTANT None   \* a part that is omitted

Digit    == 0..9
Letter   == 10..35
Body     == 0..35          \* what may stand before the check character
Symbol   == 0..36          \* and what may be one

-----------------------------------------------------------------------------
(* The check character: ISO 7064 MOD 37,36 *)

Lift(x) == IF x = 0 THEN 37 ELSE x

\* One character: add, then multiply by the radix.
Taken(p, v) == Lift((Lift((p + v) % 37) * 36) % 37)

\* The sums after each character of the body.
Sums(body) ==
  LET p[i \in 0..Len(body)] == IF i = 0 THEN 37 ELSE Taken(p[i - 1], body[i]) IN p

CheckChar(body) == Lift((38 - Sums(body)[Len(body)]) % 37) - 1

-----------------------------------------------------------------------------
(* Numbers *)

Powers == <<10, 100, 1000, 10000, 100000>>

\* The n of the model are below 100000.
Width(n) == CHOOSE w \in 1..5 : n < Powers[w] /\ \A v \in 1..5 : v < w => n >= Powers[v]

\* The last w digits of n.
Digits(n, w) == [i \in 1..w |-> IF i = w THEN n % 10 ELSE (n \div Powers[w - i]) % 10]

\* padStart only lengthens.
Pad(n, w) == IF n < Powers[w] THEN Digits(n, w) ELSE Digits(n, Width(n))

\* lpad also cuts, and keeps the first w digits.
Lpad(n, w) == IF n < Powers[w] THEN Digits(n, w)
                               ELSE SubSeq(Digits(n, Width(n)), 1, w)

Value(d) == CASE Len(d) = 2 -> 10 * d[1] + d[2]
              [] Len(d) = 3 -> 100 * d[1] + 10 * d[2] + d[3]
              [] Len(d) = 4 -> 1000 * d[1] + 100 * d[2] + 10 * d[3] + d[4]

Number(d, w) == d \in Seq(Digit) /\ Len(d) = w

-----------------------------------------------------------------------------
(* The parts of an identifier *)

Parcel14 == {u \in Seq(Body) : Len(u) = 14 /\ \A i \in 1..4 : u[i] \in Letter}

LevelKinds == {"ground", "floor", "basement", "airRights"}
LevelLetter == [ground |-> 16, floor |-> 15, basement |-> 13, airRights |-> 33]

Levels == [kind : {"ground"}, n : {0}] \cup [kind : {"floor"}, n : 1..99]
            \cup [kind : {"basement", "airRights"}, n : 1..9]

UnitKinds == {"unit", "parking", "common"}
UnitPrefix == [unit |-> <<>>, parking |-> <<25, 20>>, common |-> <<12, 10>>]

Units == [kind : UnitKinds, n : 1..999]

ASSUME NoneAssumption == None \notin 0..999 \cup Levels \cup Units

\* What encode3D is meant for: an air-rights volume hangs on the parcel, everything
\* else on a building.
Entities ==
  [ulpin14 : Parcel14, building : {None}, level : {None}, unit : {None}]
    \cup [ulpin14 : Parcel14, building : {None},
          level : {l \in Levels : l.kind = "airRights"}, unit : {None}]
    \cup [ulpin14 : Parcel14, building : 0..99, level : {None}, unit : {None}]
    \cup [ulpin14 : Parcel14, building : 0..99,
          level : {l \in Levels : l.kind # "airRights"}, unit : Units \cup {None}]

IsAir(p) == p.level # None /\ p.level.kind = "airRights"

-----------------------------------------------------------------------------
(* Encoding *)

LevelCode3D(l) == <<LevelLetter[l.kind]>> \o Pad(l.n, 2)

Unit3DSlot(u) == UnitPrefix[u.kind] \o Pad(u.n, 3)

Body3D(p) ==
  IF IsAir(p) THEN <<p.ulpin14, LevelCode3D(p.level)>>
  ELSE IF p.building = None THEN <<p.ulpin14>>
  ELSE IF p.level = None THEN <<p.ulpin14, <<11>> \o Pad(p.building, 2)>>
  ELSE IF p.unit = None
    THEN <<p.ulpin14, <<11>> \o Pad(p.building, 2), LevelCode3D(p.level)>>
    ELSE <<p.ulpin14, <<11>> \o Pad(p.building, 2), LevelCode3D(p.level), Unit3DSlot(p.unit)>>

\* No identifier has more than five groups before the check character.
NoSeparators(groups) ==
  LET At(i) == IF i <= Len(groups) THEN groups[i] ELSE <<>> IN
    At(1) \o At(2) \o At(3) \o At(4) \o At(5)

Checked(groups) == Append(groups, <<CheckChar(NoSeparators(groups))>>)

\* unit3DSlot throws when the ordinal is out of range, nothing else does.
Encode3D(p) == Checked(Body3D(p))

-----------------------------------------------------------------------------
(* The same in SQL *)

SqlLevelCode(l) == IF l.kind = "ground" THEN <<16, 0, 0>>
                                        ELSE <<LevelLetter[l.kind]>> \o Lpad(l.n, 2)

\* The level of an air-rights volume is written before the building is looked at,
\* and nothing is refused.
Ulpin3dFmt(p) ==
  LET b == <<11>> \o Lpad(p.building, 2) IN
  Checked(
    IF IsAir(p) THEN <<p.ulpin14, SqlLevelCode(p.level)>>
    ELSE IF p.building = None THEN <<p.ulpin14>>
    ELSE IF p.level = None THEN <<p.ulpin14, b>>
    ELSE IF p.unit = None THEN <<p.ulpin14, b, SqlLevelCode(p.level)>>
    ELSE <<p.ulpin14, b, SqlLevelCode(p.level), UnitPrefix[p.unit.kind] \o Lpad(p.unit.n, 3)>>)

-----------------------------------------------------------------------------
(* Reading *)

CheckPart(id) == id[Len(id)]
BodyPart(id)  == SubSeq(id, 1, Len(id) - 1)

CheckGroup(g) == Len(g) = 1 /\ g[1] \in Symbol

CheckMatches(id) == CheckPart(id)[1] = CheckChar(NoSeparators(BodyPart(id)))

BuildingGroup(g) == Len(g) = 3 /\ g[1] = 11 /\ Number(Tail(g), 2)
LevelGroup(g)    == Len(g) = 3 /\ g[1] \in Letter /\ Number(Tail(g), 2)
UnitGroup(g)     == \E k \in UnitKinds : LET w == Len(UnitPrefix[k]) IN
                      /\ Len(g) = w + 3
                      /\ SubSeq(g, 1, w) = UnitPrefix[k]
                      /\ Number(SubSeq(g, w + 1, w + 3), 3)

\* ULPIN3D_AIR_RE and ULPIN3D_RE.
AirShape(id) ==
  /\ Len(id) = 3 /\ CheckGroup(id[3]) /\ id[1] \in Parcel14
  /\ LevelGroup(id[2]) /\ id[2][1] = 33

Shape3D(id) ==
  /\ Len(id) \in 2..5 /\ CheckGroup(CheckPart(id)) /\ id[1] \in Parcel14
  /\ Len(id) > 2 => BuildingGroup(id[2])
  /\ Len(id) > 3 => LevelGroup(id[3])
  /\ Len(id) > 4 => UnitGroup(id[4])

\* parseLevelCode3D; a level it refuses is no element of Levels.
Parsed(g) == {l \in Levels : LevelLetter[l.kind] = g[1] /\ l.n = Value(Tail(g))}

ParsedUnit(g) ==
  {u \in Units : /\ UnitPrefix[u.kind] = SubSeq(g, 1, Len(g) - 3)
                 /\ u.n = Value(SubSeq(g, Len(g) - 2, Len(g)))}

\* What decode3D finds in a text of the right shape: none or one.
Read(id) ==
  IF AirShape(id)
    THEN [ulpin14 : {id[1]}, building : {None}, level : Parsed(id[2]), unit : {None}]
    ELSE [ulpin14 : {id[1]},
          building : IF Len(id) > 2 THEN {Value(Tail(id[2]))} ELSE {None},
          level : IF Len(id) > 3 THEN {l \in Parsed(id[3]) : l.kind # "airRights"} ELSE {None},
          unit : IF Len(id) > 4 THEN ParsedUnit(id[4]) ELSE {None}]

\* decode3D: the parts, or none.  The check character it returns beside them is
\* the last group.
Decode3D(id) ==
  IF (AirShape(id) \/ Shape3D(id)) /\ CheckMatches(id) THEN Read(id) ELSE {}

Validate3D(id) == Decode3D(id) # {}

\* The identifier of the containing entity; the parcel has none.
Contained(p) == IF p.unit # None THEN {[p EXCEPT !.unit = None]}
                ELSE IF p.level # None THEN {[p EXCEPT !.level = None]}
                ELSE IF p.building # None THEN {[p EXCEPT !.building = None]}
                ELSE {}

Parent3D(id) == {Encode3D(q) : q \in UNION {Contained(p) : p \in Decode3D(id)}}

\* ulpin3d_valid asks for less than decode3D.
Ulpin3dValid(id) ==
  /\ Len(id) >= 2 /\ CheckGroup(CheckPart(id))
  /\ \A i \in 1..(Len(id) - 1) : id[i] \in Seq(Body) /\ Len(id[i]) >= 1
  /\ Len(id[1]) >= 4
  /\ CheckMatches(id)

-----------------------------------------------------------------------------
(* Infrastructure: INF-<state>-<district>-<type><serial>[-S<segment>]-<check> *)

InfraTypes == {<<28, 32, 27>>, <<32, 29, 27>>, <<16, 10, 28>>, <<14, 21, 12>>,
               <<29, 14, 21>>, <<22, 29, 27>>, <<14, 21, 31>>}
                 \* SWR, WTR, GAS, ELC, TEL, MTR, ELV

Infras == [state : {s \in Seq(Letter) : Len(s) = 2}, district : {d \in Seq(Letter) : Len(d) = 2},
           type : InfraTypes, serial : 0..9999, segment : 0..999 \cup {None}]

\* district2 keeps two letters of the code of a project.
District2(code) == SubSeq(code, 1, 2)

EncodeInfra(p) ==
  LET line == <<<<18, 23, 15>>, p.state, District2(p.district), p.type \o Pad(p.serial, 4)>> IN
    Checked(IF p.segment = None THEN line ELSE Append(line, <<28>> \o Pad(p.segment, 3)))

InfraShape(id) ==
  /\ Len(id) \in 5..6 /\ CheckGroup(CheckPart(id))
  /\ id[1] = <<18, 23, 15>>
  /\ \A i \in 2..3 : id[i] \in Seq(Letter) /\ Len(id[i]) = 2
  /\ Len(id[4]) = 7 /\ SubSeq(id[4], 1, 3) \in InfraTypes /\ Number(SubSeq(id[4], 4, 7), 4)
  /\ Len(id) = 6 => Len(id[5]) = 4 /\ id[5][1] = 28 /\ Number(Tail(id[5]), 3)

DecodeInfra(id) ==
  IF ~(InfraShape(id) /\ CheckMatches(id)) THEN {}
  ELSE [state : {id[2]}, district : {id[3]}, type : {SubSeq(id[4], 1, 3)},
        serial : {Value(SubSeq(id[4], 4, 7))},
        segment : {IF Len(id) = 6 THEN Value(Tail(id[5])) ELSE None}]

-----------------------------------------------------------------------------
(* What a hand does to a text *)

\* One character is wrong.
WrongOnce(s, t) ==
  /\ Len(s) = Len(t)
  /\ \E k \in 1..Len(s) : s[k] # t[k] /\ \A i \in 1..Len(s) : i # k => s[i] = t[i]

\* One character of an identifier is wrong; the hyphens stay.
Misread(id, other) ==
  /\ Len(id) = Len(other)
  /\ \E i \in 1..Len(id) : /\ WrongOnce(id[i], other[i])
                           /\ \A j \in 1..Len(id) : j # i => id[j] = other[j]
=============================================================================
