--------------------------- MODULE MCUnitRegister ---------------------------
(***************************************************************************)
(* Two flats, on one floor or on two, and a printed slot of one digit;     *)
(* beside them the identifiers, which have no behaviour: TLC evaluates     *)
(* what UnitRegisterProofs proves on the examples of lib/ulpin.test.ts.    *)
(***************************************************************************)
EXTENDS UnitRegister, Ulpin

MCSameFloor == [u \in 1..FlatCount |-> "first"]

MCNextSlots == [u \in 1..FlatCount |-> u]

\* The first flat leaves slivers, and so does a piece of the second; of each one piece
\* cannot be cut in two.
MCSlivered == {[home |-> 1, path |-> <<>>], [home |-> 2, path |-> <<1>>]}

MCUncut == {[home |-> 1, path |-> <<1>>], [home |-> 2, path |-> <<2>>]}

-----------------------------------------------------------------------------
\* TSHY4K7Q2M9RXP, with a building, a level and a unit.
Example(b, l, u) ==
  [ulpin14 |-> <<29, 28, 17, 34, 4, 20, 7, 26, 2, 22, 9, 27, 33, 25>>,
   building |-> b, level |-> l, unit |-> u]

Examples ==
  {Example(None, None, None), Example(1, None, None), Example(0, None, None),
   Example(None, [kind |-> "airRights", n |-> 1], None),
   Example(99, [kind |-> "floor", n |-> 5], None),
   Example(10, [kind |-> "ground", n |-> 0], [kind |-> "unit", n |-> 12]),
   Example(7, [kind |-> "basement", n |-> 9], [kind |-> "parking", n |-> 999]),
   Example(7, [kind |-> "floor", n |-> 99], [kind |-> "common", n |-> 1])}

Lines ==
  {[state |-> <<29, 28>>, district |-> <<17, 34>>, type |-> <<28, 32, 27>>,
    serial |-> serial, segment |-> segment] : serial \in {1, 9999}, segment \in {None, 1, 999}}

\* One character of an identifier is wrong.
Misreadings(id) ==
  UNION {{[id EXCEPT ![i] = [@ EXCEPT ![j] = c]] : j \in DOMAIN id[i], c \in Symbol} :
           i \in DOMAIN id} \ {id}

\* What is written is read back, by both readers.
ASSUME ExamplesReadBack ==
  \A p \in Examples : /\ p \in Entities
                      /\ Decode3D(Encode3D(p)) = {p}
                      /\ Ulpin3dValid(Encode3D(p))

ASSUME LinesReadBack == \A p \in Lines : DecodeInfra(EncodeInfra(p)) = {p}

\* The database writes the same text.
ASSUME ExamplesAgree == \A p \in Examples : Ulpin3dFmt(p) = Encode3D(p)

\* A misread identifier is refused.
ASSUME ExamplesMisread ==
  \A p \in Examples : \A other \in Misreadings(Encode3D(p)) :
    Misread(Encode3D(p), other) /\ ~Validate3D(other)

\* The container of a unit is its level, of a level its building, of a building its parcel.
ASSUME ExamplesContained ==
  \A p \in Examples : Parent3D(Encode3D(p)) = {Encode3D(q) : q \in Contained(p)}

-----------------------------------------------------------------------------
(* The older identifiers: every kind, the numbers around a width *)

SlotNumbers == {1, 9, 10, 99, 100, 101, 2004, 9999}
SlotFloors  == {-9, -1, 0, 1, 9, 10, 99}

Slots == {UnitSlot(k, None) : k \in BareKinds}
           \cup {UnitSlot(k, n) : k \in SlotKinds \ BareKinds, n \in SlotNumbers}

\* A slot reads back as the first kind of its letter, with its number.
ASSUME SlotsReadBack ==
  /\ \A k \in SlotKinds \ BareKinds, n \in SlotNumbers :
       SlotRead(UnitSlot(k, n)) = {[kind |-> BaseKind(k), unit |-> n]}
  /\ \A k \in BareKinds : SlotRead(UnitSlot(k, None)) = {[kind |-> k, unit |-> None]}

\* What is written is read back, and stands below what is written for its container.
ASSUME OldReadBack ==
  \A f \in SlotFloors, s \in Slots, b \in {1, 999}, c \in {DemoCodes} :
    LET id == Generate(c, 42, b, f, s) IN
      /\ Parse(id, c) = [parcel : {42}, building : {b}, floor : {f}, slot : {s},
                         read : SlotRead(s)]
      /\ Parse(id, None) = Parse(id, c) /\ LevelOf(id, None) = {"unit"}
      /\ ParentOf(id, None) = {Generate(c, 42, b, f, None)}
      /\ ParentOf(Generate(c, 42, b, f, None), None) = {Generate(c, 42, b, None, None)}
      /\ UlpinFmtSlot(c, 42, b, f, s) = id

ASSUME SlotWritersAgree ==
  \A k \in SlotKinds, n \in SlotNumbers \cup {None} : UnitSlot(k, n) = SqlUnitSlot(k, n)

\* The widths end: beyond them the two writers part, the reader refuses what one
\* writes, and what the other cuts is the identifier of another parcel or flat.
ASSUME BeyondTheWidths ==
  /\ Parse(Generate(DemoCodes, 10000, None, None, None), None) = {}
  /\ UlpinFmt(DemoCodes, 10000, None, None, None) = Generate(DemoCodes, 1000, None, None, None)
  /\ UlpinFmt(DemoCodes, 42, 1, 1, 101) = Generate(DemoCodes, 42, 1, 1, UnitSlot("flat", 10))
  /\ SlotRead(UnitSlot("elevator", 1)) = {} /\ SlotRead(UnitSlot("retail", None)) = {}
  /\ Parse(Generate(DemoCodes, 42, 1, -10, None), None) = {}

\* The backfill keeps the floor and the number of what it names, and gives a shop and
\* a flat of one number, which the older identifiers tell apart, one name.
ASSUME BackfillReadBack ==
  LET u14 == Example(None, None, None).ulpin14
      Old(f, k, n) == Generate(DemoCodes, 42, 7, f, UnitSlot(k, n)) IN
    /\ \A f \in SlotFloors, k \in SlotKinds \ BareKinds, n \in SlotNumbers \ {2004, 9999} :
         \A id \in BackfilledUnit(u14, Old(f, k, n), k) :
           Decode3D(id) = {[ulpin14 |-> u14, building |-> 7, level |-> Level3DOf(f),
                            unit |-> [kind |-> Unit3DKindOf(k), n |-> n]]}
    /\ Old(1, "retail", 1) # Old(1, "flat", 1)
    /\ BackfilledUnit(u14, Old(1, "retail", 1), "retail")
         = BackfilledUnit(u14, Old(1, "flat", 1), "flat")
=============================================================================
