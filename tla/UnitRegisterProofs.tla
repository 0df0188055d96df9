-------------------------- MODULE UnitRegisterProofs --------------------------
(***************************************************************************)
(* What the register keeps of its units, for any flats, slots, splits and  *)
(* backfills; and what the check character of the identifiers it prints    *)
(* promises, for every identifier of every length (Ulpin3D).               *)
(*                                                                         *)
(* The argument about the units: a unit is divided by retiring it and      *)
(* inserting its halves in one transaction, so while no two transactions   *)
(* have divided the same unit, volumes of which one holds the other are    *)
(* those of a retired unit and its descendants; and a second division of a *)
(* unit must have checked it before the first was done, which is the race. *)
(***************************************************************************)
EXTENDS UnitRegister, Ulpin3D, TLAPS, FiniteSetTheorems, SequenceTheorems,
        WellFoundedInduction

-----------------------------------------------------------------------------
(* Induction *)

Below == {ss \in Nat \X Nat : ss[1] < ss[2]}

LEMMA BelowWellFounded == IsWellFoundedOn(Below, Nat)
<1>1. Below = OpToRel(<, Nat) BY DEF Below, OpToRel
<1>2. IsWellFoundedOn(OpToRel(<, Nat), Nat) BY NatLessThanWellFounded
<1> QED BY <1>1, <1>2

\* Every non-empty set of natural numbers has a least element: the form in which the proofs
\* below use induction.
LEMMA Least ==
  ASSUME NEW T \in SUBSET Nat, T # {}
  PROVE  \E x \in T : \A y \in T : x <= y
<1>1. \E x \in T : \A y \in T : ~(<<y, x>> \in Below) BY BelowWellFounded, WFMin
<1>2. PICK x \in T : \A y \in T : ~(<<y, x>> \in Below) BY <1>1
<1>3. ASSUME NEW y \in T PROVE x <= y
  <2>1. <<y, x>> \notin Below BY <1>2
  <2>2. ~(y < x) BY <2>1 DEF Below
  <2> QED BY <2>2
<1> QED BY <1>3

-----------------------------------------------------------------------------
(* The invariant of the register *)

\* A split that has named its unit, and one that has seen it active.
Holding == {"asked", "checked", "numbered", "inserted", "ok"}
PastCheck == {"checked", "numbered", "inserted", "ok"}

SplitRecord == [pc : SplitPhases, unit : Nat, slot : Nat, id : Nat, seen : Nat, done : Nat]

\* The types of the state.
Typed ==
  /\ clock \in Nat
  /\ unit \in [DOMAIN unit -> Row]
  /\ DOMAIN unit \subseteq Nat
  /\ split \in [Splits -> SplitRecord]
  /\ fill \in [Backfills -> [pc : FillPhases, work : Projections]]
  /\ ladm \in Projections
  /\ lineage \subseteq (DOMAIN unit) \X (DOMAIN unit)

\* Ids and slots go up with the statements executed: two for each split that commits.
Bounded ==
  /\ \A u \in DOMAIN unit : u <= FlatCount + 2 * clock /\ unit[u].slot <= MaxSlot + 2 * clock
  /\ \A t \in Splits :
       /\ split[t].id <= FlatCount + 2 * clock + 1
       /\ split[t].slot <= MaxSlot + 2 * clock + 1
       /\ split[t].seen <= clock /\ split[t].done <= clock

\* Two splits have inserted rows that may both stay.
Apart(s, t) ==
  /\ DOMAIN Children(s) \cap DOMAIN Children(t) = {}
  /\ \A a, b \in {1, 2} : ~SameIdentifier(Child(s, a), Child(t, b))

\* No two rows, standing or inserted, share an identifier.
Identified ==
  /\ \A u, v \in DOMAIN unit : SameIdentifier(unit[u], unit[v]) => u = v
  /\ \A t \in Splits : split[t].pc \in Holding => split[t].unit \in DOMAIN unit
  /\ \A t \in Splits : split[t].pc = "inserted" => Unique(t)
  /\ \A s, t \in Splits :
       s # t /\ split[s].pc = "inserted" /\ split[t].pc = "inserted" => Apart(s, t)

\* A unit is retired by a split that committed, and a split that has checked a unit which
\* another has divided checked it before.
Timed ==
  /\ \A s \in Splits : split[s].pc = "ok" => unit[split[s].unit].status = "retired"
  /\ \A u \in DOMAIN unit : unit[u].status = "retired" =>
       \E s \in Splits : split[s].pc = "ok" /\ split[s].unit = u
  /\ \A s, t \in Splits :
       s # t /\ split[s].pc = "ok" /\ split[t].pc \in PastCheck /\ split[s].unit = split[t].unit
         => split[t].seen < split[s].done

Piece(volume, half) == [volume EXCEPT !.path = Append(@, half)]

\* The flats are there to stay, and every retired unit has both its halves.
Divided ==
  /\ \A f \in Flats : f \in DOMAIN unit /\ unit[f].volume = [home |-> f, path |-> <<>>]
  /\ \A u \in DOMAIN unit :
       /\ Len(unit[u].volume.path) <= clock
       /\ unit[u].status = "retired" =>
            /\ Len(unit[u].volume.path) < clock
            /\ \A half \in {1, 2} : \E c \in DOMAIN unit :
                 unit[c].volume = Piece(unit[u].volume, half)

\* Two splits have divided one unit around the volume.
RacedAbove(volume) ==
  \E s, t \in Splits : Raced(s, t) /\ Inside(volume, unit[split[s].unit].volume)

\* Of two volumes of which one holds the other, the outer is retired, or a race lies above.
Disjoint ==
  \A u, v \in DOMAIN unit :
    u # v /\ Inside(unit[u].volume, unit[v].volume) =>
      unit[v].status = "retired" \/ RacedAbove(unit[v].volume)

Counted(p) == IsFiniteSet(p.shares) /\ Cardinality(p.shares) <= p.den

\* What the backfills have counted.
Filled ==
  /\ Counted(ladm)
  /\ \A t \in Backfills :
       /\ fill[t].pc = "titled" => fill[t].work.ba \subseteq DOMAIN unit
       /\ fill[t].pc = "shared" => Counted(fill[t].work)

UnitInv == Typed /\ Bounded /\ Identified /\ Timed /\ Divided /\ Disjoint /\ Filled

-----------------------------------------------------------------------------
(* Numbers and volumes *)

LEMMA LargestIs ==
  ASSUME NEW S \in SUBSET Nat, S # {}, NEW n \in Nat, \A m \in S : m <= n
  PROVE  Largest(S) \in S /\ \A m \in S : m <= Largest(S)
<1> DEFINE T == {k \in Nat : \A m \in S : m <= k}
<1>1. T \in SUBSET Nat /\ T # {} OBVIOUS
<1>2. PICK x \in T : \A y \in T : x <= y BY <1>1, Least
<1>3. x \in S
  <2>1. SUFFICES ASSUME x \notin S PROVE FALSE OBVIOUS
  <2>2. PICK m \in S : TRUE OBVIOUS
  <2>3. \A k \in S : k < x BY <2>1, <1>2
  <2>4. x - 1 \in Nat BY <2>2, <2>3, <1>2
  <2>5. x - 1 \in T BY <2>3, <2>4
  <2> QED BY <2>5, <2>4, <1>2
<1>4. \E k \in S : \A m \in S : m <= k BY <1>2, <1>3
<1> QED BY <1>4 DEF Largest

LEMMA AboveZero ==
  ASSUME NEW n \in Nat
  PROVE  0 <= FlatCount + 2 * n + 1 /\ 0 <= MaxSlot + 2 * n + 1 /\ 0 <= n
BY UnitAssumption

LEMMA PrintedIs ==
  ASSUME NEW n \in Nat PROVE Printed(n) \in Nat /\ Printed(n) <= n
BY UnitAssumption DEF Printed

LEMMA PrefixIs ==
  ASSUME NEW p \in Seq({1, 2, 3}), NEW q \in Seq({1, 2, 3})
  PROVE  IsPrefix(p, q) <=> Len(p) <= Len(q) /\ \A i \in 1..Len(p) : p[i] = q[i]
<1>1. Len(p) \in Nat /\ Len(q) \in Nat OBVIOUS
<1>2. ASSUME Len(p) <= Len(q)
      PROVE  (SubSeq(p, 1, Len(p)) = SubSeq(q, 1, Len(p))) <=> \A i \in 1..Len(p) : p[i] = q[i]
  <2>1. SubSeq(p, 1, Len(p)) = [i \in 1..Len(p) |-> p[i]] BY <1>1
  <2>2. SubSeq(q, 1, Len(p)) = [i \in 1..Len(p) |-> q[i]] BY <1>1, <1>2
  <2> QED BY <2>1, <2>2
<1> QED BY <1>2 DEF IsPrefix

\* A half of a volume is a volume.
LEMMA PieceIs ==
  ASSUME NEW a \in Volumes, NEW half \in {1, 2}
  PROVE  /\ Piece(a, half) \in Volumes
         /\ Piece(a, half).home = a.home
         /\ Piece(a, half).path = Append(a.path, half)
         /\ Len(Piece(a, half).path) = Len(a.path) + 1
BY DEF Piece, Volumes

LEMMA FieldsOf ==
  ASSUME NEW f, NEW p
  PROVE  [home |-> f, path |-> p].home = f /\ [home |-> f, path |-> p].path = p
OBVIOUS

LEMMA PieceOf ==
  ASSUME NEW f, NEW p, NEW half
  PROVE  Piece([home |-> f, path |-> p], half) = [home |-> f, path |-> Append(p, half)]
BY DEF Piece

LEMMA InsideIs ==
  ASSUME NEW a \in Volumes, NEW b \in Volumes
  PROVE  Inside(a, b) <=> /\ a.home = b.home
                          /\ Len(b.path) <= Len(a.path)
                          /\ \A i \in 1..Len(b.path) : b.path[i] = a.path[i]
BY PrefixIs DEF Inside, Volumes

LEMMA InsideItself ==
  ASSUME NEW a \in Volumes PROVE Inside(a, a)
BY InsideIs DEF Volumes

LEMMA InsideOuter ==
  ASSUME NEW a \in Volumes, NEW b \in Volumes, NEW c \in Volumes, Inside(a, b), Inside(b, c)
  PROVE  Inside(a, c)
<1>1. Len(a.path) \in Nat /\ Len(b.path) \in Nat /\ Len(c.path) \in Nat BY DEF Volumes
<1> QED BY <1>1, InsideIs

\* A half lies in the whole, the whole not in the half, one half not in the other.
LEMMA PieceInside ==
  ASSUME NEW a \in Volumes, NEW half \in {1, 2}
  PROVE  /\ Inside(Piece(a, half), a)
         /\ ~Inside(a, Piece(a, half))
<1>1. a.path \in Seq({1, 2}) /\ Len(a.path) \in Nat BY DEF Volumes
<1>2. \A i \in 1..Len(a.path) : Append(a.path, half)[i] = a.path[i] BY <1>1
<1>3. Piece(a, half) \in Volumes BY PieceIs
<1>4. Inside(Piece(a, half), a)
  <2>1. Len(a.path) <= Len(Piece(a, half).path) BY <1>1, PieceIs
  <2>2. \A i \in 1..Len(a.path) : a.path[i] = Piece(a, half).path[i] BY <1>2, PieceIs
  <2>3. a.home = Piece(a, half).home BY PieceIs
  <2> QED BY <2>1, <2>2, <2>3, <1>3, InsideIs
<1>5. ~Inside(a, Piece(a, half))
  <2>1. Inside(a, Piece(a, half)) => Len(Piece(a, half).path) <= Len(a.path)
    BY <1>3, InsideIs
  <2> QED BY <2>1, <1>1, PieceIs
<1> QED BY <1>4, <1>5

LEMMA HalvesApart ==
  ASSUME NEW a \in Volumes, NEW g \in {1, 2}, NEW h \in {1, 2},
         Inside(Piece(a, g), Piece(a, h))
  PROVE  g = h
<1>1. a.path \in Seq({1, 2}) /\ Len(a.path) \in Nat BY DEF Volumes
<1>2. Append(a.path, g)[Len(a.path) + 1] = g /\ Append(a.path, h)[Len(a.path) + 1] = h BY <1>1
<1>3. Len(a.path) + 1 \in 1..Len(Piece(a, h).path) BY <1>1, PieceIs
<1> QED BY <1>2, <1>3, PieceIs, InsideIs

\* What holds a half either holds the whole or is the half.
LEMMA HoldsHalf ==
  ASSUME NEW a \in Volumes, NEW b \in Volumes, NEW half \in {1, 2},
         Inside(Piece(a, half), b)
  PROVE  Inside(a, b) \/ Inside(b, a)
<1>1. /\ a.path \in Seq({1, 2}) /\ Len(a.path) \in Nat
      /\ b.path \in Seq({1, 2}) /\ Len(b.path) \in Nat BY DEF Volumes
<1>2. \A i \in 1..Len(a.path) : Append(a.path, half)[i] = a.path[i] BY <1>1
<1>3. /\ a.home = b.home
      /\ Len(b.path) <= Len(a.path) + 1
      /\ \A i \in 1..Len(b.path) : b.path[i] = Append(a.path, half)[i]
  BY PieceIs, InsideIs
<1>4. CASE Len(b.path) <= Len(a.path)
  <2>1. \A i \in 1..Len(b.path) : b.path[i] = a.path[i] BY <1>1, <1>2, <1>3, <1>4
  <2> QED BY <1>3, <1>4, <2>1, InsideIs
<1>5. CASE Len(b.path) = Len(a.path) + 1
  <2>1. \A i \in 1..Len(a.path) : a.path[i] = b.path[i] BY <1>1, <1>2, <1>3, <1>5
  <2> QED BY <1>1, <1>3, <1>5, <2>1, InsideIs
<1> QED BY <1>1, <1>3, <1>4, <1>5

-----------------------------------------------------------------------------
(* The steps of a split before it commits *)

LEMMA RowIs ==
  ASSUME Typed, NEW u \in DOMAIN unit
  PROVE  /\ u \in Nat
         /\ unit[u] \in Row /\ unit[u].floor \in Floors /\ unit[u].slot \in Nat
         /\ unit[u].status \in {"active", "retired"}
         /\ unit[u].volume \in Volumes
BY DEF Typed, Row

LEMMA SplitIs ==
  ASSUME Typed, NEW t \in Splits
  PROVE  /\ split[t] \in SplitRecord
         /\ split[t].pc \in SplitPhases
         /\ split[t].unit \in Nat /\ split[t].slot \in Nat /\ split[t].id \in Nat
         /\ split[t].seen \in Nat /\ split[t].done \in Nat
BY DEF Typed, SplitRecord

\* Only the split t changes, and it is not committed: what each kind of step must show.
LEMMA OneSplit ==
  ASSUME UnitInv, NEW t \in Splits, NEW x \in SplitRecord,
         split' = [split EXCEPT ![t] = x],
         UNCHANGED <<unit, lineage, ladm, fill, clock>>,
         split[t].pc # "ok", x.pc # "ok",
         x.id <= FlatCount + 2 * clock + 1, x.slot <= MaxSlot + 2 * clock + 1,
         x.seen <= clock, x.done <= clock,
         x.pc \in Holding => x.unit \in DOMAIN unit,
         x.pc \in PastCheck =>
           \/ split[t].pc \in PastCheck /\ x.unit = split[t].unit /\ x.seen = split[t].seen
           \/ unit[x.unit].status = "active",
         x.pc = "inserted" =>
           /\ x.unit = split[t].unit /\ x.slot = split[t].slot /\ x.id = split[t].id
           /\ Unique(t)
           /\ \A s \in Splits \ {t} : split[s].pc = "inserted" => Apart(s, t)
  PROVE  UnitInv'
<1>0. /\ split \in [Splits -> SplitRecord] BY DEF UnitInv, Typed
<1>1. /\ split'[t] = x
      /\ \A s \in Splits \ {t} : split'[s] = split[s]
      /\ split' \in [Splits -> SplitRecord]
  BY <1>0
<1>2. Typed' BY <1>1 DEF UnitInv, Typed, Projections
<1>3. Bounded' BY <1>1 DEF UnitInv, Bounded
<1>4. \A s \in Splits : s # t \/ x.pc = "inserted" =>
        /\ Children(s)' = Children(s)
        /\ \A half \in Int : Child(s, half)' = Child(s, half)
        /\ Unique(s)' = Unique(s)
  <2> SUFFICES ASSUME NEW s \in Splits, s # t \/ x.pc = "inserted"
               PROVE  /\ Children(s)' = Children(s)
                      /\ \A half \in Int : Child(s, half)' = Child(s, half)
                      /\ Unique(s)' = Unique(s)
    OBVIOUS
  <2>1. split'[s].unit = split[s].unit /\ split'[s].slot = split[s].slot /\ split'[s].id = split[s].id
    BY <1>1
  <2>2. \A half : Child(s, half)' = Child(s, half) BY <2>1 DEF Child
  <2>3. Children(s)' = Children(s) BY <2>1, <2>2 DEF Children
  <2>4. Unique(s)' = Unique(s) BY <2>2, <2>3 DEF Unique, SameIdentifier
  <2> QED BY <2>2, <2>3, <2>4
<1>5. Identified'
  <2>1. (\A u, v \in DOMAIN unit : SameIdentifier(unit[u], unit[v]) => u = v)'
    BY DEF UnitInv, Identified, SameIdentifier
  <2>2. (\A s \in Splits : split[s].pc \in Holding => split[s].unit \in DOMAIN unit)'
    BY <1>1 DEF UnitInv, Identified
  <2>3. ASSUME NEW s \in Splits, split'[s].pc = "inserted" PROVE Unique(s)'
    <3>1. s # t \/ x.pc = "inserted" BY <1>1, <2>3
    <3>2. Unique(s) BY <1>1, <2>3, <3>1 DEF UnitInv, Identified
    <3> QED BY <3>1, <3>2, <1>4
  <2>4. ASSUME NEW r \in Splits, NEW s \in Splits, r # s,
               split'[r].pc = "inserted", split'[s].pc = "inserted"
        PROVE  Apart(r, s)'
    <3>1. (r # t \/ x.pc = "inserted") /\ (s # t \/ x.pc = "inserted") BY <1>1, <2>4
    <3>2. Apart(r, s)
      <4>1. CASE r # t /\ s # t BY <1>1, <2>4, <4>1 DEF UnitInv, Identified
      <4>2. CASE s = t BY <1>1, <2>4, <4>2
      <4>3. CASE r = t
        <5>1. Apart(s, t) BY <1>1, <2>4, <4>3
        <5> QED BY <5>1, <4>3 DEF Apart, SameIdentifier
      <4> QED BY <4>1, <4>2, <4>3
    <3>3. /\ Children(r)' = Children(r) /\ Children(s)' = Children(s)
          /\ \A a \in {1, 2} : Child(r, a)' = Child(r, a) /\ Child(s, a)' = Child(s, a)
      BY <3>1, <1>4
    <3> QED BY <3>2, <3>3 DEF Apart, SameIdentifier
  <2> QED BY <2>1, <2>2, <2>3, <2>4 DEF Identified
<1>6. Timed'
  <2>1. (\A s \in Splits : split[s].pc = "ok" => unit[split[s].unit].status = "retired")'
    BY <1>1 DEF UnitInv, Timed
  <2>2. (\A u \in DOMAIN unit : unit[u].status = "retired" =>
           \E s \in Splits : split[s].pc = "ok" /\ split[s].unit = u)'
    BY <1>1 DEF UnitInv, Timed
  <2>3. ASSUME NEW r \in Splits, NEW s \in Splits, r # s, split'[r].pc = "ok",
               split'[s].pc \in PastCheck, split'[r].unit = split'[s].unit
        PROVE  split'[s].seen < split'[r].done
    <3>1. r # t /\ split'[r] = split[r] BY <1>1, <2>3
    <3>2. CASE s # t BY <1>1, <2>3, <3>1, <3>2 DEF UnitInv, Timed
    <3>3. CASE s = t
      <4>1. unit[split[r].unit].status = "retired" BY <3>1, <2>3 DEF UnitInv, Timed
      <4>2. unit[x.unit].status # "active" BY <4>1, <3>1, <3>3, <1>1, <2>3
      <4>3. split[t].pc \in PastCheck /\ x.unit = split[t].unit /\ x.seen = split[t].seen
        BY <4>2, <1>1, <2>3, <3>3
      <4> QED BY <4>3, <3>1, <3>3, <1>1, <2>3 DEF UnitInv, Timed
    <3> QED BY <3>2, <3>3
  <2> QED BY <2>1, <2>2, <2>3 DEF Timed
<1>7. Divided' BY DEF UnitInv, Divided, Piece
<1>8. \A volume : RacedAbove(volume) => RacedAbove(volume)'
  BY <1>1 DEF RacedAbove, Raced, Inside
<1>9. Disjoint'
  <2>1. Disjoint BY DEF UnitInv
  <2> QED BY <2>1, <1>8 DEF Disjoint, Inside
<1>10. Filled' BY DEF UnitInv, Filled, Counted
<1> QED BY <1>2, <1>3, <1>5, <1>6, <1>7, <1>9, <1>10 DEF UnitInv

LEMMA EndsKeeps ==
  ASSUME UnitInv, NEW t \in Splits, NEW answer \in {"not found", "failed"}, Ends(t, answer),
         split[t].pc # "ok", UNCHANGED <<unit, lineage, ladm, fill, clock>>
  PROVE  UnitInv'
<1> DEFINE x == [NewSplit EXCEPT !.pc = answer]
<1>1. /\ x \in SplitRecord
      /\ x.pc = answer /\ x.id = 0 /\ x.slot = 0 /\ x.seen = 0 /\ x.done = 0
  BY DEF NewSplit, SplitRecord, SplitPhases
<1>2. split' = [split EXCEPT ![t] = x] BY DEF Ends
<1>3. x.pc \notin Holding /\ x.pc \notin PastCheck /\ x.pc # "inserted" /\ x.pc # "ok"
  BY <1>1 DEF Holding, PastCheck
<1> HIDE DEF x
<1>4. clock \in Nat
  <2>1. Typed BY DEF UnitInv
  <2> QED BY <2>1 DEF Typed
<1>5. 0 <= FlatCount + 2 * clock + 1 /\ 0 <= MaxSlot + 2 * clock + 1 /\ 0 <= clock
  BY <1>4, AboveZero
<1> QED BY <1>1, <1>2, <1>3, <1>5, OneSplit

LEMMA AskKeeps ==
  ASSUME UnitInv, NEW t \in Splits, NEW u \in DOMAIN unit, Ask(t, u)
  PROVE  UnitInv'
<1>1. split[t].pc = "new" /\ UNCHANGED <<unit, lineage, ladm, fill, clock>> BY DEF Ask
<1>2. Typed BY DEF UnitInv
<1>3. CASE unit[u].status # "active"
  <2>1. Ends(t, "not found") BY <1>3 DEF Ask
  <2> QED BY <2>1, <1>1, EndsKeeps
<1>4. CASE unit[u].status = "active"
  <2> DEFINE x == [split[t] EXCEPT !.pc = "asked", !.unit = u]
  <2>1. split[t] \in SplitRecord /\ u \in Nat BY <1>2, SplitIs, RowIs
  <2>2. /\ x \in SplitRecord /\ x.pc = "asked" /\ x.unit = u /\ x.id = split[t].id
        /\ x.slot = split[t].slot /\ x.seen = split[t].seen /\ x.done = split[t].done
    BY <2>1 DEF SplitRecord, SplitPhases
  <2>3. split' = [split EXCEPT ![t] = x] BY <1>2, <1>4 DEF Ask, Typed
  <2>4. /\ x.id <= FlatCount + 2 * clock + 1 /\ x.slot <= MaxSlot + 2 * clock + 1
        /\ x.seen <= clock /\ x.done <= clock
    BY <2>2 DEF UnitInv, Bounded
  <2>5. x.pc \notin PastCheck /\ x.pc # "inserted" /\ x.pc # "ok" /\ x.unit \in DOMAIN unit
    BY <2>2 DEF PastCheck
  <2> HIDE DEF x
  <2> QED BY <1>1, <2>2, <2>3, <2>4, <2>5, OneSplit
<1> QED BY <1>3, <1>4

LEMMA CheckKeeps ==
  ASSUME UnitInv, NEW t \in Splits, Check(t)
  PROVE  UnitInv'
<1>1. split[t].pc = "asked" /\ UNCHANGED <<unit, lineage, ladm, fill, clock>> BY DEF Check
<1>2. Typed BY DEF UnitInv
<1>3. CASE ~(unit[split[t].unit].status = "active" /\ Bisected(unit[split[t].unit].volume))
  <2>1. Ends(t, "failed") BY <1>3 DEF Check
  <2> QED BY <2>1, <1>1, EndsKeeps
<1>4. CASE unit[split[t].unit].status = "active" /\ Bisected(unit[split[t].unit].volume)
  <2> DEFINE x == [split[t] EXCEPT !.pc = "checked", !.seen = clock]
  <2>1. split[t] \in SplitRecord /\ clock \in Nat BY <1>2, SplitIs DEF Typed
  <2>2. /\ x \in SplitRecord /\ x.pc = "checked" /\ x.unit = split[t].unit /\ x.id = split[t].id
        /\ x.slot = split[t].slot /\ x.seen = clock /\ x.done = split[t].done
    BY <2>1 DEF SplitRecord, SplitPhases
  <2>3. split' = [split EXCEPT ![t] = x] BY <1>2, <1>4 DEF Check, Typed
  <2>4. /\ x.id <= FlatCount + 2 * clock + 1 /\ x.slot <= MaxSlot + 2 * clock + 1
        /\ x.done <= clock
    BY <2>2 DEF UnitInv, Bounded
  <2>5. x.seen <= clock BY <2>1, <2>2
  <2>6. x.unit \in DOMAIN unit BY <1>1, <2>2 DEF UnitInv, Identified, Holding
  <2>7. x.pc # "inserted" /\ x.pc # "ok" /\ unit[x.unit].status = "active" BY <2>2, <1>4
  <2>8. split[t].pc # "ok" BY <1>1
  <2> HIDE DEF x
  <2>9. x.pc = "inserted" =>
          /\ x.unit = split[t].unit /\ x.slot = split[t].slot /\ x.id = split[t].id
          /\ Unique(t)
          /\ \A s \in Splits \ {t} : split[s].pc = "inserted" => Apart(s, t)
    BY <2>7
  <2>10. x \in SplitRecord BY <2>2
  <2>11. UNCHANGED <<unit, lineage, ladm, fill, clock>> BY <1>1
  <2> QED BY <2>3, <2>4, <2>5, <2>6, <2>7, <2>8, <2>9, <2>10, <2>11, OneSplit
<1> QED BY <1>3, <1>4

\* A later statement of a split: its unit and what it read of it stay.
LEMMA LaterKeeps ==
  ASSUME UnitInv, NEW t \in Splits, NEW x \in SplitRecord,
         split[t].pc \in PastCheck \ {"ok"}, x.pc \in PastCheck \ {"ok", "inserted"},
         split' = [split EXCEPT ![t] = x],
         UNCHANGED <<unit, lineage, ladm, fill, clock>>,
         x.unit = split[t].unit, x.seen = split[t].seen, x.done = split[t].done,
         x.id <= FlatCount + 2 * clock + 1, x.slot <= MaxSlot + 2 * clock + 1
  PROVE  UnitInv'
<1>1. x.unit \in DOMAIN unit BY DEF UnitInv, Identified, Holding, PastCheck
<1>2. x.seen <= clock /\ x.done <= clock BY DEF UnitInv, Bounded
<1>3. split[t].pc # "ok" /\ x.pc # "ok" /\ x.pc # "inserted" OBVIOUS
<1> QED BY <1>1, <1>2, <1>3, OneSplit

LEMMA ReadSlotKeeps ==
  ASSUME UnitInv, NEW t \in Splits, ReadSlot(t)
  PROVE  UnitInv'
<1> DEFINE p == split[t].unit
           S == {unit[u].slot : u \in {v \in DOMAIN unit : unit[v].floor = unit[p].floor}}
           x == [split[t] EXCEPT !.slot = 1 + Largest(S)]
<1>1. split[t].pc = "checked" /\ UNCHANGED <<unit, lineage, ladm, fill, clock>> BY DEF ReadSlot
<1>2. Typed BY DEF UnitInv
<1>3. split[t] \in SplitRecord /\ clock \in Nat BY <1>2, SplitIs DEF Typed
<1>4. p \in DOMAIN unit BY <1>1 DEF UnitInv, Identified, Holding
<1>5. S \in SUBSET Nat BY <1>2, RowIs
<1>6. unit[p].slot \in S BY <1>4
<1>7. \A m \in S : m <= MaxSlot + 2 * clock BY DEF UnitInv, Bounded
<1>8. MaxSlot + 2 * clock \in Nat BY <1>3, UnitAssumption
<1> HIDE DEF S
<1>9. Largest(S) \in S BY <1>5, <1>6, <1>7, <1>8, LargestIs
<1>10. Largest(S) \in Nat /\ Largest(S) <= MaxSlot + 2 * clock BY <1>5, <1>7, <1>9
<1> DEFINE n == Largest(S)
<1>11. split' = [split EXCEPT ![t] = x]
  <2>1. split' = [split EXCEPT ![t].slot = 1 + n] BY DEF ReadSlot, S
  <2> QED BY <2>1, <1>2 DEF Typed
<1> HIDE DEF n
<1>12. /\ x \in SplitRecord /\ x.pc = "checked" /\ x.unit = split[t].unit /\ x.id = split[t].id
       /\ x.slot = 1 + n /\ x.seen = split[t].seen /\ x.done = split[t].done
  BY <1>1, <1>3, <1>10 DEF SplitRecord, n
<1>13. x.slot <= MaxSlot + 2 * clock + 1 BY <1>12, <1>10, <1>8 DEF n
<1>14. x.id <= FlatCount + 2 * clock + 1 BY <1>12 DEF UnitInv, Bounded
<1>15. split[t].pc \in PastCheck \ {"ok"} /\ x.pc \in PastCheck \ {"ok", "inserted"}
  BY <1>1, <1>12 DEF PastCheck
<1> HIDE DEF x
<1> QED BY <1>1, <1>11, <1>12, <1>13, <1>14, <1>15, LaterKeeps

LEMMA ReadIdKeeps ==
  ASSUME UnitInv, NEW t \in Splits, ReadId(t)
  PROVE  UnitInv'
<1> DEFINE n == Largest(DOMAIN unit)
           x == [split[t] EXCEPT !.pc = "numbered", !.id = 1 + n]
<1>1. split[t].pc = "checked" /\ UNCHANGED <<unit, lineage, ladm, fill, clock>> BY DEF ReadId
<1>2. Typed BY DEF UnitInv
<1>3. split[t] \in SplitRecord /\ clock \in Nat BY <1>2, SplitIs DEF Typed
<1>4. split[t].unit \in DOMAIN unit BY <1>1 DEF UnitInv, Identified, Holding
<1>5. DOMAIN unit \in SUBSET Nat BY <1>2 DEF Typed
<1>6. \A m \in DOMAIN unit : m <= FlatCount + 2 * clock BY DEF UnitInv, Bounded
<1>7. FlatCount + 2 * clock \in Nat BY <1>3, UnitAssumption
<1>8. n \in DOMAIN unit BY <1>4, <1>5, <1>6, <1>7, LargestIs
<1>9. n \in Nat /\ n <= FlatCount + 2 * clock /\ 1 + n \in Nat BY <1>5, <1>6, <1>8
<1>10. split' = [split EXCEPT ![t] = x] BY <1>2 DEF ReadId, Typed
<1> HIDE DEF n
<1>11. /\ x \in SplitRecord /\ x.pc = "numbered" /\ x.unit = split[t].unit /\ x.id = 1 + n
       /\ x.slot = split[t].slot /\ x.seen = split[t].seen /\ x.done = split[t].done
  BY <1>3, <1>9 DEF SplitRecord, SplitPhases
<1>12. x.id <= FlatCount + 2 * clock + 1 BY <1>11, <1>9, <1>7
<1>13. x.slot <= MaxSlot + 2 * clock + 1 BY <1>11 DEF UnitInv, Bounded
<1>14. split[t].pc \in PastCheck \ {"ok"} /\ x.pc \in PastCheck \ {"ok", "inserted"}
  BY <1>1, <1>11 DEF PastCheck
<1> HIDE DEF x
<1> QED BY <1>1, <1>10, <1>11, <1>12, <1>13, <1>14, LaterKeeps

LEMMA InsertKeeps ==
  ASSUME UnitInv, NEW t \in Splits, Insert(t)
  PROVE  UnitInv'
<1>1. split[t].pc = "numbered" /\ UNCHANGED <<unit, lineage, ladm, fill, clock>> BY DEF Insert
<1>2. Typed BY DEF UnitInv
<1>3. CASE ~Unique(t)
  <2>1. Ends(t, "failed") BY <1>3 DEF Insert
  <2> QED BY <2>1, <1>1, EndsKeeps
<1>4. CASE Unique(t)
  <2> DEFINE x == [split[t] EXCEPT !.pc = "inserted"]
  <2>1. split[t] \in SplitRecord BY <1>2, SplitIs
  <2>2. /\ x \in SplitRecord /\ x.pc = "inserted" /\ x.unit = split[t].unit
        /\ x.id = split[t].id /\ x.slot = split[t].slot /\ x.seen = split[t].seen
        /\ x.done = split[t].done
    BY <2>1 DEF SplitRecord, SplitPhases
  <2>3. split' = [split EXCEPT ![t] = x] BY <1>2, <1>4 DEF Insert, Goes, Typed
  <2>4. /\ x.id <= FlatCount + 2 * clock + 1 /\ x.slot <= MaxSlot + 2 * clock + 1
        /\ x.seen <= clock /\ x.done <= clock
    BY <2>2 DEF UnitInv, Bounded
  <2>5. split[t].pc \in PastCheck /\ split[t].pc # "ok" /\ x.pc # "ok" BY <1>1, <2>2 DEF PastCheck
  <2>6. x.unit \in DOMAIN unit BY <1>1, <2>2 DEF UnitInv, Identified, Holding
  <2>7. ~Waits(t) BY DEF Insert
  <2>8. \A s \in Splits \ {t} : split[s].pc = "inserted" => Apart(s, t)
    BY <2>7 DEF Waits, Apart
  <2> HIDE DEF x
  <2>9. x.pc \in PastCheck =>
          \/ split[t].pc \in PastCheck /\ x.unit = split[t].unit /\ x.seen = split[t].seen
          \/ unit[x.unit].status = "active"
    BY <2>2, <2>5
  <2>10. x.pc = "inserted" =>
          /\ x.unit = split[t].unit /\ x.slot = split[t].slot /\ x.id = split[t].id
          /\ Unique(t)
          /\ \A s \in Splits \ {t} : split[s].pc = "inserted" => Apart(s, t)
    BY <2>2, <2>8, <1>4
  <2>11. x \in SplitRecord BY <2>2
  <2>12. UNCHANGED <<unit, lineage, ladm, fill, clock>> BY <1>1
  <2> QED BY <2>3, <2>4, <2>5, <2>6, <2>9, <2>10, <2>11, <2>12, OneSplit
<1> QED BY <1>3, <1>4

LEMMA AbortKeeps ==
  ASSUME UnitInv, NEW t \in Splits, Abort(t)
  PROVE  UnitInv'
<1>1. split[t].pc # "ok" /\ Ends(t, "failed") /\ UNCHANGED <<unit, lineage, ladm, fill, clock>>
  BY DEF Abort
<1> QED BY <1>1, EndsKeeps

-----------------------------------------------------------------------------
(* The commit of a split *)

LEMMA ChildrenAre ==
  ASSUME Typed, NEW t \in Splits
  PROVE  /\ DOMAIN Children(t) = {split[t].id, split[t].id + 1}
         /\ Children(t)[split[t].id] = Child(t, 1)
         /\ Children(t)[split[t].id + 1] = Child(t, 2)
         /\ split[t].id # split[t].id + 1
<1>1. split[t].id \in Nat BY SplitIs
<1>2. 1 + split[t].id - split[t].id = 1 /\ 1 + (split[t].id + 1) - split[t].id = 2
      /\ split[t].id # split[t].id + 1 BY <1>1
<1> QED BY <1>2 DEF Children

LEMMA ChildIs ==
  ASSUME Typed, NEW t \in Splits, split[t].unit \in DOMAIN unit, NEW half \in {1, 2}
  PROVE  /\ Child(t, half) \in Row
         /\ Child(t, half).floor = unit[split[t].unit].floor
         /\ Child(t, half).slot = Printed(split[t].slot + half - 1)
         /\ Child(t, half).slot \in Nat
         /\ Child(t, half).slot <= split[t].slot + 1
         /\ Child(t, half).status = "active"
         /\ Child(t, half).volume = Piece(unit[split[t].unit].volume, half)
<1> DEFINE p == unit[split[t].unit]
<1>1. p.floor \in Floors /\ p.volume \in Volumes BY RowIs
<1>2. split[t].slot \in Nat BY SplitIs
<1>3. /\ split[t].slot + half - 1 \in Nat
      /\ split[t].slot + half - 1 <= split[t].slot + 1 BY <1>2
<1>4. /\ Printed(split[t].slot + half - 1) \in Nat
      /\ Printed(split[t].slot + half - 1) <= split[t].slot + 1
  BY <1>2, <1>3, PrintedIs
<1>5. Child(t, half) = [floor |-> p.floor, slot |-> Printed(split[t].slot + half - 1),
                        status |-> "active", volume |-> Piece(p.volume, half)]
  BY DEF Child, Piece
<1>6. Piece(p.volume, half) \in Volumes BY <1>1, PieceIs
<1> HIDE DEF p
<1>7. Child(t, half) \in Row BY <1>1, <1>4, <1>5, <1>6 DEF Row
<1> QED BY <1>4, <1>5, <1>7 DEF p

\* What a commit changes.
LEMMA Committed ==
  ASSUME UnitInv, NEW t \in Splits, CommitSplit(t)
  PROVE  LET p == split[t].unit
             i == split[t].id
         IN /\ p \in DOMAIN unit /\ i \in Nat
            /\ i \notin DOMAIN unit /\ i + 1 \notin DOMAIN unit /\ i # i + 1
            /\ DOMAIN unit' = DOMAIN unit \cup {i, i + 1}
            /\ \A u \in DOMAIN unit \ {p} : unit'[u] = unit[u]
            /\ unit'[p] = [unit[p] EXCEPT !.status = "retired"]
            /\ unit'[i] = Child(t, 1) /\ unit'[i + 1] = Child(t, 2)
            /\ unit' = [u \in DOMAIN unit' |-> unit'[u]]
<1> DEFINE p == split[t].unit
           i == split[t].id
<1>1. Typed BY DEF UnitInv
<1>2. split[t].pc = "inserted" /\ unit' = After(t, "retired") BY DEF CommitSplit
<1>3. p \in DOMAIN unit BY <1>2 DEF UnitInv, Identified, Holding
<1>4. i \in Nat BY <1>1, SplitIs
<1>5. /\ DOMAIN Children(t) = {i, i + 1} /\ i # i + 1
      /\ Children(t)[i] = Child(t, 1) /\ Children(t)[i + 1] = Child(t, 2)
  BY <1>1, ChildrenAre
<1>6. Unique(t) BY <1>2 DEF UnitInv, Identified
<1>7. i \notin DOMAIN unit /\ i + 1 \notin DOMAIN unit BY <1>5, <1>6 DEF Unique
<1>8. unit' = [u \in DOMAIN unit \cup {i, i + 1} |->
                 IF u = p THEN [unit[u] EXCEPT !.status = "retired"]
                 ELSE IF u \in DOMAIN unit THEN unit[u] ELSE Children(t)[u]]
  BY <1>2, <1>5 DEF After
<1>9. DOMAIN unit' = DOMAIN unit \cup {i, i + 1} BY <1>8
<1> HIDE DEF p, i
<1>10. \A u \in DOMAIN unit \ {p} : unit'[u] = unit[u] BY <1>8
<1>11. unit'[p] = [unit[p] EXCEPT !.status = "retired"] BY <1>3, <1>8
<1>12. unit'[i] = Child(t, 1) BY <1>3, <1>5, <1>7, <1>8
<1>13. unit'[i + 1] = Child(t, 2) BY <1>3, <1>5, <1>7, <1>8
<1>14. unit' = [u \in DOMAIN unit' |-> unit'[u]] BY <1>8, <1>9
<1> QED BY <1>3, <1>4, <1>5, <1>7, <1>9, <1>10, <1>11, <1>12, <1>13, <1>14 DEF p, i

\* The same, field by field.
LEMMA CommittedRows ==
  ASSUME UnitInv, NEW t \in Splits, CommitSplit(t)
  PROVE  /\ \A u \in DOMAIN unit :
              /\ u \in DOMAIN unit' /\ unit'[u] \in Row
              /\ unit'[u].floor = unit[u].floor /\ unit'[u].slot = unit[u].slot
              /\ unit'[u].volume = unit[u].volume
              /\ unit'[u].status = IF u = split[t].unit THEN "retired" ELSE unit[u].status
         /\ \A c \in DOMAIN unit' \ DOMAIN unit :
              \E half \in {1, 2} :
                /\ c = split[t].id + half - 1 /\ unit'[c] = Child(t, half)
         /\ \A half \in {1, 2} :
              /\ split[t].id + half - 1 \in DOMAIN unit' \ DOMAIN unit
              /\ unit'[split[t].id + half - 1] = Child(t, half)
<1> DEFINE p == split[t].unit
           i == split[t].id
<1>1. Typed BY DEF UnitInv
<1>2. /\ p \in DOMAIN unit /\ i \in Nat
      /\ i \notin DOMAIN unit /\ i + 1 \notin DOMAIN unit
      /\ DOMAIN unit' = DOMAIN unit \cup {i, i + 1}
      /\ \A u \in DOMAIN unit \ {p} : unit'[u] = unit[u]
      /\ unit'[p] = [unit[p] EXCEPT !.status = "retired"]
      /\ unit'[i] = Child(t, 1) /\ unit'[i + 1] = Child(t, 2)
  BY Committed
<1> HIDE DEF p, i
<1>3. \A u \in DOMAIN unit :
        /\ u \in DOMAIN unit' /\ unit'[u] \in Row
        /\ unit'[u].floor = unit[u].floor /\ unit'[u].slot = unit[u].slot
        /\ unit'[u].volume = unit[u].volume
        /\ unit'[u].status = IF u = p THEN "retired" ELSE unit[u].status
  <2> SUFFICES ASSUME NEW u \in DOMAIN unit
               PROVE  /\ u \in DOMAIN unit' /\ unit'[u] \in Row
                      /\ unit'[u].floor = unit[u].floor /\ unit'[u].slot = unit[u].slot
                      /\ unit'[u].volume = unit[u].volume
                      /\ unit'[u].status = IF u = p THEN "retired" ELSE unit[u].status
    OBVIOUS
  <2>1. u \in DOMAIN unit' /\ unit[u] \in Row BY <1>1, <1>2, RowIs
  <2>2. CASE u # p BY <2>1, <2>2, <1>2
  <2>3. CASE u = p BY <2>1, <2>3, <1>2 DEF Row
  <2> QED BY <2>2, <2>3
<1>4. ASSUME NEW half \in {1, 2}
      PROVE  i + half - 1 \in DOMAIN unit' \ DOMAIN unit /\ unit'[i + half - 1] = Child(t, half)
  <2>1. CASE half = 1
    <3>1. i + half - 1 = i BY <1>2, <2>1
    <3> QED BY <3>1, <2>1, <1>2
  <2>2. CASE half = 2
    <3>1. i + half - 1 = i + 1 BY <1>2, <2>2
    <3> QED BY <3>1, <2>2, <1>2
  <2> QED BY <2>1, <2>2
<1>5. ASSUME NEW c \in DOMAIN unit' \ DOMAIN unit
      PROVE  \E half \in {1, 2} : c = i + half - 1 /\ unit'[c] = Child(t, half)
  <2>1. c = i + 1 - 1 \/ c = i + 2 - 1 BY <1>2
  <2> QED BY <2>1, <1>4
<1> QED BY <1>3, <1>4, <1>5 DEF p, i

LEMMA CommittedSplit ==
  ASSUME UnitInv, NEW t \in Splits, CommitSplit(t)
  PROVE  /\ clock \in Nat /\ clock' = clock + 1
         /\ split' \in [Splits -> SplitRecord]
         /\ \A s \in Splits : /\ split'[s].unit = split[s].unit /\ split'[s].slot = split[s].slot
                              /\ split'[s].id = split[s].id /\ split'[s].seen = split[s].seen
         /\ \A s \in Splits \ {t} : split'[s].pc = split[s].pc /\ split'[s].done = split[s].done
         /\ split[t].pc = "inserted" /\ split'[t].pc = "ok" /\ split'[t].done = clock + 1
<1> DEFINE x == [split[t] EXCEPT !.pc = "ok", !.done = clock + 1]
<1>1. Typed BY DEF UnitInv
<1>2. /\ clock \in Nat /\ split \in [Splits -> SplitRecord] BY <1>1 DEF Typed
<1>3. clock + 1 \in Nat BY <1>2
<1>4. /\ x \in SplitRecord /\ x.pc = "ok" /\ x.done = clock + 1 /\ x.unit = split[t].unit
      /\ x.slot = split[t].slot /\ x.id = split[t].id /\ x.seen = split[t].seen
  <2>1. split[t] \in SplitRecord BY <1>2
  <2> QED BY <2>1, <1>3 DEF SplitRecord, SplitPhases
<1>5. split' = [split EXCEPT ![t] = x] BY <1>2 DEF CommitSplit, Ended
<1> HIDE DEF x
<1>6. split'[t] = x /\ \A s \in Splits \ {t} : split'[s] = split[s] BY <1>2, <1>5
<1>7. split' \in [Splits -> SplitRecord] BY <1>2, <1>4, <1>5
<1>8. clock' = clock + 1 /\ split[t].pc = "inserted" BY DEF CommitSplit, Ended
<1> QED BY <1>2, <1>4, <1>6, <1>7, <1>8

\* What another split is about to insert stays as it was.
LEMMA CommittedChild ==
  ASSUME UnitInv, NEW t \in Splits, CommitSplit(t),
         NEW s \in Splits, split[s].unit \in DOMAIN unit
  PROVE  /\ \A half : Child(s, half)' = Child(s, half)
         /\ Children(s)' = Children(s)
<1>1. /\ split'[s].unit = split[s].unit /\ split'[s].slot = split[s].slot
      /\ split'[s].id = split[s].id
  BY CommittedSplit
<1>2. /\ unit'[split[s].unit].floor = unit[split[s].unit].floor
      /\ unit'[split[s].unit].volume = unit[split[s].unit].volume
  BY CommittedRows
<1>3. \A half : Child(s, half)' = Child(s, half) BY <1>1, <1>2 DEF Child
<1>4. Children(s)' = Children(s) BY <1>1, <1>3 DEF Children
<1> QED BY <1>3, <1>4

LEMMA CommitTyped ==
  ASSUME UnitInv, NEW t \in Splits, CommitSplit(t)
  PROVE  Typed'
<1>1. Typed /\ split[t].unit \in DOMAIN unit BY Committed DEF UnitInv
<1>2. \A half \in {1, 2} : Child(t, half) \in Row BY <1>1, ChildIs
<1>3. \A u \in DOMAIN unit' : unit'[u] \in Row
  <2> SUFFICES ASSUME NEW u \in DOMAIN unit' PROVE unit'[u] \in Row OBVIOUS
  <2>1. CASE u \in DOMAIN unit BY <2>1, CommittedRows
  <2>2. CASE u \notin DOMAIN unit
    <3>1. \E half \in {1, 2} : unit'[u] = Child(t, half) BY <2>2, CommittedRows
    <3> QED BY <3>1, <1>2
  <2> QED BY <2>1, <2>2
<1>4. unit' = [u \in DOMAIN unit' |-> unit'[u]] BY Committed
<1>5. unit' \in [DOMAIN unit' -> Row] BY <1>3, <1>4
<1>6. DOMAIN unit' \subseteq Nat
  <2>1. DOMAIN unit' = DOMAIN unit \cup {split[t].id, split[t].id + 1} /\ split[t].id \in Nat
    BY Committed
  <2> QED BY <2>1, <1>1 DEF Typed
<1>7. lineage' \subseteq (DOMAIN unit') \X (DOMAIN unit')
  <2>1. lineage' = lineage \cup {split[t].unit} \X DOMAIN Children(t) BY DEF CommitSplit
  <2>2. DOMAIN Children(t) = {split[t].id, split[t].id + 1} BY <1>1, ChildrenAre
  <2>3. /\ DOMAIN unit' = DOMAIN unit \cup {split[t].id, split[t].id + 1} BY Committed
  <2>4. lineage \subseteq (DOMAIN unit) \X (DOMAIN unit) BY <1>1 DEF Typed
  <2> QED BY <2>1, <2>2, <2>3, <2>4, <1>1
<1>8. clock' \in Nat /\ split' \in [Splits -> SplitRecord]
  <2>1. clock \in Nat /\ clock' = clock + 1 BY CommittedSplit
  <2> QED BY <2>1, CommittedSplit
<1>9. fill' = fill /\ ladm' = ladm BY DEF CommitSplit
<1> QED BY <1>1, <1>5, <1>6, <1>7, <1>8, <1>9 DEF Typed, Projections

LEMMA CommitBounded ==
  ASSUME UnitInv, NEW t \in Splits, CommitSplit(t)
  PROVE  Bounded'
<1>1. Typed /\ Bounded /\ split[t].unit \in DOMAIN unit BY Committed DEF UnitInv
<1>2. clock \in Nat /\ clock' = clock + 1 BY CommittedSplit
<1>3. FlatCount \in Nat /\ MaxSlot \in Nat BY UnitAssumption
<1>4. ASSUME NEW u \in DOMAIN unit'
      PROVE  u <= FlatCount + 2 * clock' /\ unit'[u].slot <= MaxSlot + 2 * clock'
  <2>1. CASE u \in DOMAIN unit
    <3>1. u \in Nat /\ unit[u].slot \in Nat /\ unit'[u].slot = unit[u].slot
      BY <1>1, <2>1, RowIs, CommittedRows
    <3>2. u <= FlatCount + 2 * clock /\ unit[u].slot <= MaxSlot + 2 * clock
      BY <1>1, <2>1 DEF Bounded
    <3> QED BY <1>2, <1>3, <3>1, <3>2
  <2>2. CASE u \notin DOMAIN unit
    <3>1. PICK half \in {1, 2} : u = split[t].id + half - 1 /\ unit'[u] = Child(t, half)
      BY <2>2, CommittedRows
    <3>2. Child(t, half).slot \in Nat /\ Child(t, half).slot <= split[t].slot + 1 BY <1>1, ChildIs
    <3>3. split[t].id \in Nat /\ split[t].slot \in Nat BY <1>1, SplitIs
    <3>4. /\ split[t].id <= FlatCount + 2 * clock + 1
          /\ split[t].slot <= MaxSlot + 2 * clock + 1
      BY <1>1 DEF Bounded
    <3>5. unit'[u].slot <= MaxSlot + 2 * clock' BY <3>1, <3>2, <3>3, <3>4, <1>2, <1>3
    <3>6. u <= FlatCount + 2 * clock' BY <3>1, <3>3, <3>4, <1>2, <1>3
    <3> QED BY <3>5, <3>6
  <2> QED BY <2>1, <2>2
<1>5. ASSUME NEW s \in Splits
      PROVE  /\ split'[s].id <= FlatCount + 2 * clock' + 1
             /\ split'[s].slot <= MaxSlot + 2 * clock' + 1
             /\ split'[s].seen <= clock' /\ split'[s].done <= clock'
  <2>1. /\ split[s].id \in Nat /\ split[s].slot \in Nat
        /\ split[s].seen \in Nat /\ split[s].done \in Nat
    BY <1>1, SplitIs
  <2>2. /\ split[s].id <= FlatCount + 2 * clock + 1 /\ split[s].slot <= MaxSlot + 2 * clock + 1
        /\ split[s].seen <= clock /\ split[s].done <= clock
    BY <1>1 DEF Bounded
  <2>3. /\ split'[s].id = split[s].id /\ split'[s].slot = split[s].slot
        /\ split'[s].seen = split[s].seen
        /\ split'[s].done = split[s].done \/ split'[s].done = clock + 1
    <3>1. CASE s = t BY <3>1, CommittedSplit
    <3>2. CASE s # t BY <3>2, CommittedSplit
    <3> QED BY <3>1, <3>2
  <2>4. split'[s].id <= FlatCount + 2 * clock' + 1 BY <2>1, <2>2, <2>3, <1>2, <1>3
  <2>5. split'[s].slot <= MaxSlot + 2 * clock' + 1 BY <2>1, <2>2, <2>3, <1>2, <1>3
  <2>6. split'[s].seen <= clock' /\ split'[s].done <= clock' BY <2>1, <2>2, <2>3, <1>2
  <2> QED BY <2>4, <2>5, <2>6
<1> QED BY <1>4, <1>5 DEF Bounded

\* What a commit adds differs from what was there, and from what it adds besides.
LEMMA CommitDistinct ==
  ASSUME UnitInv, NEW t \in Splits, CommitSplit(t)
  PROVE  \A u, v \in DOMAIN unit' : SameIdentifier(unit'[u], unit'[v]) => u = v
<1>1. split[t].pc = "inserted" BY DEF CommitSplit
<1>2. /\ ~SameIdentifier(Child(t, 1), Child(t, 2))
      /\ \A u \in DOMAIN unit, half \in {1, 2} : ~SameIdentifier(unit[u], Child(t, half))
  BY <1>1 DEF UnitInv, Identified, Unique
<1>3. \A u \in DOMAIN unit : unit'[u].floor = unit[u].floor /\ unit'[u].slot = unit[u].slot
  BY CommittedRows
<1> SUFFICES ASSUME NEW u \in DOMAIN unit', NEW v \in DOMAIN unit',
                    SameIdentifier(unit'[u], unit'[v])
             PROVE  u = v
  OBVIOUS
<1>4. CASE u \in DOMAIN unit /\ v \in DOMAIN unit
  <2>1. SameIdentifier(unit[u], unit[v]) BY <1>3, <1>4 DEF SameIdentifier
  <2> QED BY <1>4, <2>1 DEF UnitInv, Identified
<1>5. CASE u \in DOMAIN unit /\ v \notin DOMAIN unit
  <2>1. PICK half \in {1, 2} : unit'[v] = Child(t, half) BY <1>5, CommittedRows
  <2>2. SameIdentifier(unit[u], Child(t, half)) BY <1>3, <1>5, <2>1 DEF SameIdentifier
  <2> QED BY <1>2, <1>5, <2>2
<1>6. CASE u \notin DOMAIN unit /\ v \in DOMAIN unit
  <2>1. PICK half \in {1, 2} : unit'[u] = Child(t, half) BY <1>6, CommittedRows
  <2>2. SameIdentifier(unit[v], Child(t, half)) BY <1>3, <1>6, <2>1 DEF SameIdentifier
  <2> QED BY <1>2, <1>6, <2>2
<1>7. CASE u \notin DOMAIN unit /\ v \notin DOMAIN unit
  <2>1. PICK g \in {1, 2} : u = split[t].id + g - 1 /\ unit'[u] = Child(t, g)
    BY <1>7, CommittedRows
  <2>2. PICK h \in {1, 2} : v = split[t].id + h - 1 /\ unit'[v] = Child(t, h)
    BY <1>7, CommittedRows
  <2>3. SameIdentifier(Child(t, g), Child(t, h)) BY <2>1, <2>2
  <2>4. g = h BY <1>2, <2>3 DEF SameIdentifier
  <2> QED BY <2>1, <2>2, <2>4
<1> QED BY <1>4, <1>5, <1>6, <1>7

LEMMA CommitIdentified ==
  ASSUME UnitInv, NEW t \in Splits, CommitSplit(t)
  PROVE  Identified'
<1>1. Typed /\ Identified BY DEF UnitInv
<1>2. (\A u, v \in DOMAIN unit : SameIdentifier(unit[u], unit[v]) => u = v)'
  BY CommitDistinct DEF SameIdentifier
<1>3. split[t].pc = "inserted" BY DEF CommitSplit
<1>4. ASSUME NEW s \in Splits, split'[s].pc \in Holding
      PROVE  split[s].unit \in DOMAIN unit /\ split'[s].unit \in DOMAIN unit'
  <2>1. split[s].pc \in Holding
    <3>1. CASE s = t BY <3>1, <1>3 DEF Holding
    <3>2. CASE s # t BY <3>2, <1>4, CommittedSplit
    <3> QED BY <3>1, <3>2
  <2>2. split[s].unit \in DOMAIN unit BY <1>1, <2>1 DEF Identified
  <2> QED BY <2>2, CommittedSplit, CommittedRows
<1>5. ASSUME NEW s \in Splits, split'[s].pc = "inserted"
      PROVE  s # t /\ split[s].pc = "inserted" /\ split[s].unit \in DOMAIN unit
  <2>1. s # t BY <1>5, CommittedSplit
  <2>2. split[s].pc = "inserted" BY <1>5, <2>1, CommittedSplit
  <2> QED BY <2>1, <2>2, <1>1 DEF Identified, Holding
<1>6. ASSUME NEW s \in Splits, split'[s].pc = "inserted" PROVE Unique(s)'
  <2>1. s # t /\ split[s].pc = "inserted" /\ split[s].unit \in DOMAIN unit BY <1>5, <1>6
  <2>2. Unique(s) /\ Apart(s, t) BY <1>1, <1>3, <2>1 DEF Identified
  <2>3. /\ Children(s)' = Children(s)
        /\ Child(s, 1)' = Child(s, 1) /\ Child(s, 2)' = Child(s, 2)
    BY <2>1, CommittedChild
  <2>4. DOMAIN Children(s)' \cap DOMAIN unit' = {}
    <3>1. DOMAIN unit' = DOMAIN unit \cup DOMAIN Children(t)
      BY <1>1, Committed, ChildrenAre
    <3> QED BY <3>1, <2>2, <2>3 DEF Unique, Apart
  <2>5. ~SameIdentifier(Child(s, 1)', Child(s, 2)') BY <2>2, <2>3 DEF Unique
  <2>6. ASSUME NEW u \in DOMAIN unit', NEW half \in {1, 2}
        PROVE  ~SameIdentifier(unit'[u], Child(s, half)')
    <3>1. Child(s, half)' = Child(s, half) BY <2>1, CommittedChild
    <3>2. CASE u \in DOMAIN unit
      <4>1. ~SameIdentifier(unit[u], Child(s, half)) BY <2>2, <3>2 DEF Unique
      <4>2. unit'[u].floor = unit[u].floor /\ unit'[u].slot = unit[u].slot
        BY <3>2, CommittedRows
      <4> QED BY <3>1, <4>1, <4>2 DEF SameIdentifier
    <3>3. CASE u \notin DOMAIN unit
      <4>1. PICK h \in {1, 2} : unit'[u] = Child(t, h) BY <3>3, CommittedRows
      <4>2. ~SameIdentifier(Child(s, half), Child(t, h)) BY <2>2 DEF Apart
      <4> QED BY <3>1, <4>1, <4>2 DEF SameIdentifier
    <3> QED BY <3>2, <3>3
  <2> QED BY <2>4, <2>5, <2>6 DEF Unique, SameIdentifier
<1>7. ASSUME NEW r \in Splits, NEW s \in Splits, r # s,
             split'[r].pc = "inserted", split'[s].pc = "inserted"
      PROVE  Apart(r, s)'
  <2>1. /\ split[r].pc = "inserted" /\ split[r].unit \in DOMAIN unit
        /\ split[s].pc = "inserted" /\ split[s].unit \in DOMAIN unit
    BY <1>5, <1>7
  <2>2. Apart(r, s) BY <1>1, <1>7, <2>1 DEF Identified
  <2>3. /\ Children(r)' = Children(r) /\ Children(s)' = Children(s)
        /\ \A a \in {1, 2} : Child(r, a)' = Child(r, a) /\ Child(s, a)' = Child(s, a)
    BY <2>1, CommittedChild
  <2> QED BY <2>2, <2>3 DEF Apart, SameIdentifier
<1> QED BY <1>2, <1>4, <1>6, <1>7 DEF Identified

LEMMA CommitTimed ==
  ASSUME UnitInv, NEW t \in Splits, CommitSplit(t)
  PROVE  Timed'
<1>1. Typed /\ Identified /\ Timed /\ Bounded BY DEF UnitInv
<1>2. split[t].pc = "inserted" /\ split[t].unit \in DOMAIN unit BY Committed, CommittedSplit
<1>3. clock \in Nat /\ clock' = clock + 1 BY CommittedSplit
<1>4. ASSUME NEW s \in Splits, split'[s].pc = "ok"
      PROVE  unit'[split'[s].unit].status = "retired"
  <2>1. split'[s].unit = split[s].unit BY CommittedSplit
  <2>2. CASE s = t BY <1>2, <2>1, <2>2, CommittedRows
  <2>3. CASE s # t
    <3>1. split[s].pc = "ok" BY <1>4, <2>3, CommittedSplit
    <3>2. split[s].unit \in DOMAIN unit /\ unit[split[s].unit].status = "retired"
      BY <1>1, <3>1 DEF Identified, Timed, Holding
    <3> QED BY <2>1, <3>2, CommittedRows
  <2> QED BY <2>2, <2>3
<1>5. ASSUME NEW u \in DOMAIN unit', unit'[u].status = "retired"
      PROVE  \E s \in Splits : split'[s].pc = "ok" /\ split'[s].unit = u
  <2>1. u \in DOMAIN unit
    <3>1. SUFFICES ASSUME u \notin DOMAIN unit PROVE FALSE OBVIOUS
    <3>2. PICK half \in {1, 2} : unit'[u] = Child(t, half) BY <3>1, CommittedRows
    <3> QED BY <1>1, <1>2, <1>5, <3>2, ChildIs
  <2>2. CASE u = split[t].unit
    <3>1. split'[t].pc = "ok" /\ split'[t].unit = u BY <2>2, CommittedSplit
    <3> QED BY <3>1
  <2>3. CASE u # split[t].unit
    <3>1. unit[u].status = "retired" BY <1>5, <2>1, <2>3, CommittedRows
    <3>2. PICK s \in Splits : split[s].pc = "ok" /\ split[s].unit = u
      BY <1>1, <2>1, <3>1 DEF Timed
    <3>3. s # t BY <1>2, <3>2
    <3>4. split'[s].pc = "ok" /\ split'[s].unit = u BY <3>2, <3>3, CommittedSplit
    <3> QED BY <3>4
  <2> QED BY <2>2, <2>3
<1>6. ASSUME NEW r \in Splits, NEW s \in Splits, r # s, split'[r].pc = "ok",
             split'[s].pc \in PastCheck, split'[r].unit = split'[s].unit
      PROVE  split'[s].seen < split'[r].done
  <2>1. /\ split'[s].seen = split[s].seen /\ split[s].seen \in Nat
        /\ split[s].seen <= clock
        /\ split[r].unit = split[s].unit
    BY <1>1, <1>6, CommittedSplit, SplitIs DEF Bounded
  <2>2. CASE r = t
    <3>1. split'[r].done = clock + 1 BY <2>2, CommittedSplit
    <3> QED BY <1>3, <2>1, <3>1
  <2>3. CASE r # t
    <3>1. split[r].pc = "ok" /\ split'[r].done = split[r].done BY <1>6, <2>3, CommittedSplit
    <3>2. split[s].pc \in PastCheck
      <4>1. CASE s = t BY <4>1, <1>2 DEF PastCheck
      <4>2. CASE s # t BY <4>2, <1>6, CommittedSplit
      <4> QED BY <4>1, <4>2
    <3> QED BY <1>1, <1>6, <2>1, <3>1, <3>2 DEF Timed
  <2> QED BY <2>2, <2>3
<1> QED BY <1>4, <1>5, <1>6 DEF Timed

LEMMA CommitDivided ==
  ASSUME UnitInv, NEW t \in Splits, CommitSplit(t)
  PROVE  Divided'
<1> DEFINE p == split[t].unit
<1>1. Typed /\ Divided BY DEF UnitInv
<1>2. p \in DOMAIN unit BY Committed
<1>3. clock \in Nat /\ clock' = clock + 1 BY CommittedSplit
<1>4. ASSUME NEW f \in Flats
      PROVE  f \in DOMAIN unit' /\ unit'[f].volume = [home |-> f, path |-> <<>>]
  BY <1>1, CommittedRows DEF Divided
<1>5. ASSUME NEW u \in DOMAIN unit
      PROVE  /\ Len(unit[u].volume.path) \in Nat
             /\ Len(unit[u].volume.path) <= clock
  BY <1>1, RowIs DEF Divided, Volumes
<1>6. ASSUME NEW u \in DOMAIN unit' PROVE Len(unit'[u].volume.path) <= clock'
  <2>1. CASE u \in DOMAIN unit
    <3>1. unit'[u].volume = unit[u].volume BY <2>1, CommittedRows
    <3> QED BY <1>3, <1>5, <2>1, <3>1
  <2>2. CASE u \notin DOMAIN unit
    <3>1. PICK half \in {1, 2} : unit'[u] = Child(t, half) BY <2>2, CommittedRows
    <3>2. unit'[u].volume = Piece(unit[p].volume, half) BY <1>1, <1>2, <3>1, ChildIs
    <3>3. Len(unit'[u].volume.path) = Len(unit[p].volume.path) + 1
      BY <1>1, <1>2, <3>2, RowIs, PieceIs
    <3>4. Len(unit[p].volume.path) \in Nat /\ Len(unit[p].volume.path) <= clock BY <1>2, <1>5
    <3> QED BY <1>3, <3>3, <3>4
  <2> QED BY <2>1, <2>2
<1>7. ASSUME NEW u \in DOMAIN unit', unit'[u].status = "retired"
      PROVE  /\ Len(unit'[u].volume.path) < clock'
             /\ \A half \in {1, 2} : \E c \in DOMAIN unit' :
                  unit'[c].volume = Piece(unit'[u].volume, half)
  <2>1. u \in DOMAIN unit
    <3>1. SUFFICES ASSUME u \notin DOMAIN unit PROVE FALSE OBVIOUS
    <3>2. PICK half \in {1, 2} : unit'[u] = Child(t, half) BY <3>1, CommittedRows
    <3> QED BY <1>1, <1>2, <1>7, <3>2, ChildIs
  <2>2. unit'[u].volume = unit[u].volume BY <2>1, CommittedRows
  <2>3. Len(unit'[u].volume.path) < clock' BY <1>3, <1>5, <2>1, <2>2
  <2>4. ASSUME NEW half \in {1, 2}
        PROVE  \E c \in DOMAIN unit' : unit'[c].volume = Piece(unit'[u].volume, half)
    <3>1. CASE u = p
      <4>1. /\ split[t].id + half - 1 \in DOMAIN unit'
            /\ unit'[split[t].id + half - 1] = Child(t, half)
        BY CommittedRows
      <4>2. Child(t, half).volume = Piece(unit[p].volume, half) BY <1>1, <1>2, ChildIs
      <4> QED BY <4>1, <4>2, <3>1, <2>2
    <3>2. CASE u # p
      <4>1. unit[u].status = "retired" BY <1>7, <2>1, <3>2, CommittedRows
      <4>2. PICK c \in DOMAIN unit : unit[c].volume = Piece(unit[u].volume, half)
        BY <1>1, <2>1, <4>1 DEF Divided
      <4>3. c \in DOMAIN unit' /\ unit'[c].volume = unit[c].volume BY CommittedRows
      <4> QED BY <4>2, <4>3, <2>2
    <3> QED BY <3>1, <3>2
  <2> QED BY <2>3, <2>4
<1> QED BY <1>4, <1>6, <1>7 DEF Divided, Piece

\* A race above a volume is above every piece of it.
LEMMA RacedAboveInside ==
  ASSUME Typed, Identified, NEW a \in Volumes, NEW b \in Volumes, Inside(a, b), RacedAbove(b)
  PROVE  RacedAbove(a)
<1>1. PICK r \in Splits, s \in Splits :
        Raced(r, s) /\ Inside(b, unit[split[r].unit].volume) BY DEF RacedAbove
<1>2. split[r].unit \in DOMAIN unit BY <1>1 DEF Raced, Identified, Holding
<1>3. unit[split[r].unit].volume \in Volumes BY <1>2, RowIs
<1>4. Inside(a, unit[split[r].unit].volume) BY <1>1, <1>3, InsideOuter
<1> QED BY <1>1, <1>4 DEF RacedAbove

\* A split that commits on a unit another has retired has raced with it.
LEMMA CommitRaces ==
  ASSUME UnitInv, NEW t \in Splits, CommitSplit(t),
         unit[split[t].unit].status = "retired",
         NEW a \in Volumes, Inside(a, unit[split[t].unit].volume)
  PROVE  RacedAbove(a)'
<1> DEFINE p == split[t].unit
<1>1. Typed /\ Timed /\ Bounded /\ p \in DOMAIN unit BY Committed DEF UnitInv
<1>2. PICK s \in Splits : split[s].pc = "ok" /\ split[s].unit = p BY <1>1 DEF Timed
<1>3. split[t].pc = "inserted" /\ clock \in Nat BY CommittedSplit
<1>4. s # t BY <1>2, <1>3
<1>5. split[t].seen < split[s].done BY <1>1, <1>2, <1>3, <1>4 DEF Timed, PastCheck
<1>6. split[s].seen \in Nat /\ split[s].seen <= clock BY <1>1, SplitIs DEF Bounded
<1>7. /\ split'[s].pc = "ok" /\ split'[s].unit = p /\ split'[s].seen = split[s].seen
      /\ split'[s].done = split[s].done
  BY <1>2, <1>4, CommittedSplit
<1>8. /\ split'[t].pc = "ok" /\ split'[t].unit = p /\ split'[t].seen = split[t].seen
      /\ split'[t].done = clock + 1
  BY CommittedSplit
<1>9. split'[s].seen < split'[t].done BY <1>3, <1>6, <1>7, <1>8
<1>10. Raced(s, t)' BY <1>4, <1>5, <1>7, <1>8, <1>9 DEF Raced
<1>11. unit'[split'[s].unit].volume = unit[p].volume BY <1>1, <1>7, CommittedRows
<1>12. Inside(a, unit'[split'[s].unit].volume) BY <1>11
<1> QED BY <1>10, <1>12 DEF RacedAbove, Inside

\* A race that has been stays.
LEMMA CommitKeepsRaces ==
  ASSUME UnitInv, NEW t \in Splits, CommitSplit(t), NEW a, RacedAbove(a)
  PROVE  RacedAbove(a)'
<1>1. PICK r \in Splits, s \in Splits :
        Raced(r, s) /\ Inside(a, unit[split[r].unit].volume) BY DEF RacedAbove
<1>2. split[t].pc = "inserted" BY CommittedSplit
<1>3. r # t /\ s # t BY <1>1, <1>2 DEF Raced
<1>4. Raced(r, s)' BY <1>1, <1>3, CommittedSplit DEF Raced
<1>5. split[r].unit \in DOMAIN unit BY <1>1 DEF UnitInv, Identified, Raced, Holding
<1>6. unit'[split'[r].unit].volume = unit[split[r].unit].volume
  BY <1>5, CommittedSplit, CommittedRows
<1> QED BY <1>1, <1>4, <1>6 DEF RacedAbove, Inside

LEMMA CommitDisjoint ==
  ASSUME UnitInv, NEW t \in Splits, CommitSplit(t)
  PROVE  Disjoint'
<1> DEFINE p == split[t].unit
           w == unit[p].volume
<1>1. Typed /\ Identified /\ Disjoint BY DEF UnitInv
<1>2. p \in DOMAIN unit /\ w \in Volumes BY <1>1, Committed, RowIs
<1>3. \A u \in DOMAIN unit : unit[u].volume \in Volumes BY <1>1, RowIs
<1>4. \A half \in {1, 2} : Child(t, half).volume = Piece(w, half) BY <1>1, <1>2, ChildIs
<1>5. ASSUME NEW a \in Volumes, Inside(a, w), unit[p].status = "retired" \/ RacedAbove(w)
      PROVE  RacedAbove(a)'
  <2>1. CASE unit[p].status = "retired" BY <1>5, <2>1, CommitRaces
  <2>2. CASE RacedAbove(w)
    <3>1. RacedAbove(a) BY <1>1, <1>2, <1>5, <2>2, RacedAboveInside
    <3> QED BY <3>1, CommitKeepsRaces
  <2> QED BY <1>5, <2>1, <2>2
<1>6. ASSUME NEW u \in DOMAIN unit', NEW v \in DOMAIN unit', u # v,
             NEW a, a = unit'[u].volume, NEW b, b = unit'[v].volume, Inside(a, b)
      PROVE  unit'[v].status = "retired" \/ RacedAbove(b)'
  <2>1. CASE u \in DOMAIN unit /\ v \in DOMAIN unit
    <3>1. a = unit[u].volume /\ b = unit[v].volume BY <1>6, <2>1, CommittedRows
    <3>2. unit[v].status = "retired" \/ RacedAbove(b)
      BY <1>1, <1>6, <2>1, <3>1 DEF Disjoint
    <3>3. CASE unit[v].status = "retired" BY <2>1, <3>3, CommittedRows
    <3>4. CASE RacedAbove(b) BY <3>4, CommitKeepsRaces
    <3> QED BY <3>2, <3>3, <3>4
  <2>2. CASE u \notin DOMAIN unit /\ v \in DOMAIN unit
    <3>1. PICK half \in {1, 2} : unit'[u] = Child(t, half) BY <2>2, CommittedRows
    <3>2. a = Piece(w, half) /\ b = unit[v].volume BY <1>4, <1>6, <2>2, <3>1, CommittedRows
    <3>3. b \in Volumes BY <1>3, <2>2, <3>2
    <3>4. CASE v = p BY <2>2, <3>4, CommittedRows
    <3>5. CASE v # p /\ Inside(w, b)
      <4>1. unit[v].status = "retired" \/ RacedAbove(b)
        BY <1>1, <1>2, <2>2, <3>2, <3>5 DEF Disjoint
      <4>2. CASE unit[v].status = "retired" BY <2>2, <4>2, CommittedRows
      <4>3. CASE RacedAbove(b) BY <4>3, CommitKeepsRaces
      <4> QED BY <4>1, <4>2, <4>3
    <3>6. CASE v # p /\ Inside(b, w)
      <4>1. unit[p].status = "retired" \/ RacedAbove(w)
        BY <1>1, <1>2, <2>2, <3>2, <3>6 DEF Disjoint
      <4> QED BY <3>3, <3>6, <4>1, <1>5
    <3>7. Inside(w, b) \/ Inside(b, w) BY <1>2, <1>6, <3>2, <3>3, HoldsHalf
    <3> QED BY <3>4, <3>5, <3>6, <3>7
  <2>3. CASE u \in DOMAIN unit /\ v \notin DOMAIN unit
    <3>1. PICK half \in {1, 2} : unit'[v] = Child(t, half) BY <2>3, CommittedRows
    <3>2. a = unit[u].volume /\ b = Piece(w, half) BY <1>4, <1>6, <2>3, <3>1, CommittedRows
    <3>3. a \in Volumes /\ b \in Volumes BY <1>2, <1>3, <2>3, <3>2, PieceIs
    <3>4. Inside(b, w) /\ ~Inside(w, b) BY <1>2, <3>2, PieceInside
    <3>5. Inside(a, w) BY <1>2, <1>6, <3>3, <3>4, InsideOuter
    <3>6. u # p BY <1>6, <3>2, <3>4
    <3>7. unit[p].status = "retired" \/ RacedAbove(w)
      BY <1>1, <1>2, <2>3, <3>2, <3>5, <3>6 DEF Disjoint
    <3> QED BY <3>3, <3>4, <3>7, <1>5
  <2>4. CASE u \notin DOMAIN unit /\ v \notin DOMAIN unit
    <3>1. PICK g \in {1, 2} : u = split[t].id + g - 1 /\ unit'[u] = Child(t, g)
      BY <2>4, CommittedRows
    <3>2. PICK h \in {1, 2} : v = split[t].id + h - 1 /\ unit'[v] = Child(t, h)
      BY <2>4, CommittedRows
    <3>3. a = Piece(w, g) /\ b = Piece(w, h) BY <1>4, <1>6, <3>1, <3>2
    <3>4. g = h BY <1>2, <1>6, <3>3, HalvesApart
    <3> QED BY <1>6, <3>1, <3>2, <3>4
  <2> QED BY <2>1, <2>2, <2>3, <2>4
<1> QED BY <1>6 DEF Disjoint, RacedAbove, Inside, Raced

LEMMA CommitKeeps ==
  ASSUME UnitInv, NEW t \in Splits, CommitSplit(t)
  PROVE  UnitInv'
<1>1. Filled'
  <2>1. \A u \in DOMAIN unit : u \in DOMAIN unit' BY CommittedRows
  <2>2. Filled /\ fill' = fill /\ ladm' = ladm BY DEF CommitSplit, UnitInv
  <2> QED BY <2>1, <2>2 DEF Filled, Counted
<1> QED BY <1>1, CommitTyped, CommitBounded, CommitIdentified, CommitTimed, CommitDivided,
          CommitDisjoint DEF UnitInv

-----------------------------------------------------------------------------
(* The steps of a backfill *)

FillRecord == [pc : FillPhases, work : Projections]

LEMMA UnitsFinite ==
  ASSUME Typed, Bounded PROVE IsFiniteSet(DOMAIN unit)
<1> DEFINE n == FlatCount + 2 * clock
<1>1. n \in Nat
  <2>1. clock \in Nat BY DEF Typed
  <2> QED BY <2>1, UnitAssumption
<1>2. DOMAIN unit \subseteq 0..n
  <2>1. \A u \in DOMAIN unit : u \in Nat /\ u <= n BY DEF Typed, Bounded
  <2> HIDE DEF n
  <2> QED BY <1>1, <2>1
<1>3. IsFiniteSet(0..n) BY <1>1, FS_Interval
<1> QED BY <1>2, <1>3, FS_Subset

\* Only the backfill t changes, and the projection perhaps: what it must show.
LEMMA OneFill ==
  ASSUME UnitInv, NEW t \in Backfills, NEW x \in FillRecord,
         fill' = [fill EXCEPT ![t] = x], UNCHANGED <<unit, lineage, split, clock>>,
         ladm' \in Projections, Counted(ladm'),
         x.pc = "titled" => x.work.ba \subseteq DOMAIN unit,
         x.pc = "shared" => Counted(x.work)
  PROVE  UnitInv'
<1>1. fill \in [Backfills -> FillRecord] BY DEF UnitInv, Typed, FillRecord
<1>2. /\ fill' \in [Backfills -> FillRecord]
      /\ fill'[t] = x /\ \A s \in Backfills \ {t} : fill'[s] = fill[s]
  BY <1>1
<1>3. Typed' BY <1>2 DEF UnitInv, Typed, FillRecord
<1>4. Bounded' BY DEF UnitInv, Bounded
<1>5. Identified'
  <2>1. Identified BY DEF UnitInv
  <2> QED BY <2>1 DEF Identified, Unique, Apart, Children, Child, SameIdentifier
<1>6. Timed' BY DEF UnitInv, Timed
<1>7. Divided' BY DEF UnitInv, Divided, Piece
<1>8. Disjoint'
  <2>1. Disjoint BY DEF UnitInv
  <2> QED BY <2>1 DEF Disjoint, RacedAbove, Raced, Inside
<1>9. Filled' BY <1>2 DEF UnitInv, Filled, Counted
<1> QED BY <1>3, <1>4, <1>5, <1>6, <1>7, <1>8, <1>9 DEF UnitInv

LEMMA FillIs ==
  ASSUME UnitInv, NEW t \in Backfills
  PROVE  /\ fill \in [Backfills -> FillRecord] /\ fill[t] \in FillRecord
         /\ fill[t].work \in Projections /\ ladm \in Projections /\ Counted(ladm)
<1>1. Typed /\ Filled BY DEF UnitInv
<1>2. fill \in [Backfills -> FillRecord] /\ ladm \in Projections
  BY <1>1 DEF Typed, FillRecord
<1>3. fill[t] \in FillRecord BY <1>2
<1>4. fill[t].work \in Projections BY <1>3 DEF FillRecord
<1> QED BY <1>1, <1>2, <1>3, <1>4 DEF Filled

LEMMA BeginFillKeeps ==
  ASSUME UnitInv, NEW t \in Backfills, BeginFill(t)
  PROVE  UnitInv'
<1> DEFINE w == [NoProjection EXCEPT !.su = DOMAIN unit]
           x == [pc |-> "spatial", work |-> w]
<1>1. fill' = [fill EXCEPT ![t] = x] /\ UNCHANGED <<unit, lineage, split, ladm, clock>>
  BY DEF BeginFill
<1>2. DOMAIN unit \subseteq Nat BY DEF UnitInv, Typed
<1>3. w \in Projections BY <1>2 DEF NoProjection, Projections
<1> HIDE DEF w
<1>4. x \in FillRecord /\ x.pc = "spatial" BY <1>3 DEF FillRecord, FillPhases
<1>5. ladm' \in Projections /\ Counted(ladm') BY <1>1, FillIs
<1> HIDE DEF x
<1>6. x.pc # "titled" /\ x.pc # "shared" BY <1>4
<1> QED BY <1>1, <1>4, <1>5, <1>6, OneFill

LEMMA InsertTitlesKeeps ==
  ASSUME UnitInv, NEW t \in Backfills, InsertTitles(t)
  PROVE  UnitInv'
<1> DEFINE w == [fill[t].work EXCEPT !.ba = DOMAIN unit]
           x == [fill[t] EXCEPT !.pc = "titled", !.work = w]
<1>1. UNCHANGED <<unit, lineage, split, ladm, clock>> BY DEF InsertTitles
<1>2. DOMAIN unit \subseteq Nat BY DEF UnitInv, Typed
<1>3. fill \in [Backfills -> FillRecord] /\ fill[t] \in FillRecord /\ fill[t].work \in Projections
  BY FillIs
<1>4. w \in Projections /\ w.ba = DOMAIN unit BY <1>2, <1>3 DEF Projections
<1>5. fill' = [fill EXCEPT ![t] = x] BY <1>3 DEF InsertTitles, FillRecord
<1> HIDE DEF w
<1>6. x \in FillRecord /\ x.pc = "titled" /\ x.work = w
  BY <1>3, <1>4 DEF FillRecord, FillPhases
<1>7. ladm' \in Projections /\ Counted(ladm') BY <1>1, FillIs
<1> HIDE DEF x
<1>8. x.pc # "shared" /\ x.work.ba \subseteq DOMAIN unit BY <1>4, <1>6
<1> QED BY <1>1, <1>5, <1>6, <1>7, <1>8, OneFill

LEMMA InsertSharesKeeps ==
  ASSUME UnitInv, NEW t \in Backfills, InsertShares(t)
  PROVE  UnitInv'
<1>1. fill[t].pc = "titled" /\ UNCHANGED <<unit, lineage, split, ladm, clock>>
  BY DEF InsertShares
<1>2. fill \in [Backfills -> FillRecord] /\ fill[t] \in FillRecord /\ fill[t].work \in Projections
  BY FillIs
<1>3. ladm' \in Projections /\ Counted(ladm') BY <1>1, FillIs
<1>4. CASE ~(fill[t].work.ba \subseteq fill[t].work.su)
  <2> DEFINE x == [fill[t] EXCEPT !.pc = "failed"]
  <2>1. fill' = [fill EXCEPT ![t] = x] BY <1>2, <1>4 DEF InsertShares
  <2>2. x \in FillRecord /\ x.pc = "failed" BY <1>2 DEF FillRecord, FillPhases
  <2> HIDE DEF x
  <2>3. x.pc # "titled" /\ x.pc # "shared" BY <2>2
  <2> QED BY <1>1, <1>3, <2>1, <2>2, <2>3, OneFill
<1>5. CASE fill[t].work.ba \subseteq fill[t].work.su
  <2> DEFINE ba == fill[t].work.ba
             n == Cardinality(DOMAIN unit)
             w == [fill[t].work EXCEPT !.shares = ba, !.den = n]
             x == [fill[t] EXCEPT !.pc = "shared", !.work = w]
  <2>1. IsFiniteSet(DOMAIN unit) BY UnitsFinite DEF UnitInv
  <2>2. ba \subseteq DOMAIN unit BY <1>1 DEF UnitInv, Filled
  <2>3. IsFiniteSet(ba) /\ Cardinality(ba) <= n BY <2>1, <2>2, FS_Subset
  <2>4. n \in Nat BY <2>1, FS_CardinalityType
  <2>5. ba \in SUBSET Nat BY <1>2 DEF Projections
  <2>6. fill' = [fill EXCEPT ![t] = x]
    <3>1. fill' = [fill EXCEPT ![t].pc = "shared", ![t].work.shares = ba, ![t].work.den = n]
      BY <1>5 DEF InsertShares
    <3> HIDE DEF ba, n
    <3> QED BY <1>2, <3>1 DEF FillRecord, Projections
  <2> HIDE DEF ba, n
  <2>7. w \in Projections /\ w.shares = ba /\ w.den = n BY <1>2, <2>4, <2>5 DEF Projections
  <2> HIDE DEF w
  <2>8. x \in FillRecord /\ x.pc = "shared" /\ x.work = w
    BY <1>2, <2>7 DEF FillRecord, FillPhases
  <2>9. Counted(w) BY <2>3, <2>7 DEF Counted
  <2> HIDE DEF x
  <2>10. x.pc # "titled" /\ Counted(x.work) BY <2>8, <2>9
  <2> QED BY <1>1, <1>3, <2>6, <2>8, <2>10, OneFill
<1> QED BY <1>4, <1>5

LEMMA CommitFillKeeps ==
  ASSUME UnitInv, NEW t \in Backfills, CommitFill(t)
  PROVE  UnitInv'
<1> DEFINE x == [fill[t] EXCEPT !.pc = "ok"]
<1>1. /\ fill[t].pc = "shared" /\ ladm' = fill[t].work /\ fill' = [fill EXCEPT ![t].pc = "ok"]
      /\ UNCHANGED <<unit, lineage, split, clock>>
  BY DEF CommitFill
<1>2. fill \in [Backfills -> FillRecord] /\ fill[t] \in FillRecord /\ fill[t].work \in Projections
  BY FillIs
<1>3. Counted(fill[t].work) BY <1>1 DEF UnitInv, Filled
<1>4. ladm' \in Projections /\ Counted(ladm') BY <1>1, <1>2, <1>3
<1>5. fill' = [fill EXCEPT ![t] = x] BY <1>1, <1>2
<1>6. x \in FillRecord /\ x.pc = "ok" BY <1>2 DEF FillRecord, FillPhases
<1> HIDE DEF x
<1>7. x.pc # "titled" /\ x.pc # "shared" BY <1>6
<1> QED BY <1>1, <1>4, <1>5, <1>6, <1>7, OneFill

-----------------------------------------------------------------------------
(* The theorems *)

LEMMA UnitInit == Init => UnitInv
<1> SUFFICES ASSUME Init PROVE UnitInv OBVIOUS
<1>1. FlatCount \in Nat /\ MaxSlot \in Nat BY UnitAssumption
<1>2. DOMAIN unit = Flats /\ Flats \subseteq Nat BY <1>1 DEF Init, Flats
<1>3. ASSUME NEW u \in Flats
      PROVE  /\ unit[u] \in Row /\ unit[u].floor = FloorOf[u] /\ unit[u].slot = SlotOf[u]
             /\ unit[u].slot <= MaxSlot
             /\ unit[u].status = "active" /\ unit[u].volume = [home |-> u, path |-> <<>>]
  <2>1. SlotOf[u] \in 1..MaxSlot BY UnitAssumption
  <2>2. SlotOf[u] \in Nat /\ SlotOf[u] <= MaxSlot BY <1>1, <2>1
  <2>3. FloorOf[u] \in Floors BY DEF Floors
  <2>4. [home |-> u, path |-> <<>>] \in Volumes BY DEF Volumes
  <2>5. unit[u] = [floor |-> FloorOf[u], slot |-> SlotOf[u], status |-> "active",
                   volume |-> [home |-> u, path |-> <<>>]]
    BY DEF Init
  <2> QED BY <2>2, <2>3, <2>4, <2>5 DEF Row
<1>4. NewSplit \in SplitRecord BY DEF NewSplit, SplitRecord, SplitPhases
<1>5. \A t \in Splits :
        /\ split[t] = NewSplit /\ split[t].pc = "new" /\ split[t].id = 0 /\ split[t].slot = 0
        /\ split[t].seen = 0 /\ split[t].done = 0
  BY DEF Init, NewSplit
<1>6. NoProjection \in Projections /\ Counted(NoProjection)
  <2>1. IsFiniteSet({}) /\ Cardinality({}) = 0 BY FS_EmptySet
  <2> QED BY <2>1 DEF NoProjection, Projections, Counted
<1>7. clock = 0 /\ ladm = NoProjection /\ lineage = {} BY DEF Init
<1>8. \A t \in Backfills : fill[t].pc = "new" BY DEF Init
<1>9. Typed
  <2>1. unit = [u \in DOMAIN unit |-> unit[u]] BY DEF Init
  <2>2. unit \in [DOMAIN unit -> Row] BY <1>2, <1>3, <2>1
  <2>3. split \in [Splits -> SplitRecord] BY <1>4 DEF Init
  <2>4. [pc |-> "new", work |-> NoProjection] \in [pc : FillPhases, work : Projections]
    BY <1>6 DEF FillPhases
  <2>5. fill \in [Backfills -> [pc : FillPhases, work : Projections]] BY <2>4 DEF Init
  <2> QED BY <1>2, <1>6, <1>7, <2>2, <2>3, <2>5 DEF Typed
<1>10. Bounded
  <2>1. ASSUME NEW u \in DOMAIN unit
        PROVE  u <= FlatCount + 2 * clock /\ unit[u].slot <= MaxSlot + 2 * clock
    <3>1. u \in Flats BY <1>2
    <3>2. u <= FlatCount BY <1>1, <3>1 DEF Flats
    <3>3. unit[u].slot <= MaxSlot BY <1>3, <3>1
    <3>4. FlatCount + 2 * clock = FlatCount /\ MaxSlot + 2 * clock = MaxSlot BY <1>1, <1>7
    <3> QED BY <3>2, <3>3, <3>4
  <2>3. 0 <= FlatCount + 2 * clock + 1 /\ 0 <= MaxSlot + 2 * clock + 1 /\ 0 <= clock
    BY <1>7, AboveZero
  <2> QED BY <1>5, <2>1, <2>3 DEF Bounded
<1>11. Identified
  <2>1. ASSUME NEW u \in Flats, NEW v \in Flats, SameIdentifier(unit[u], unit[v])
        PROVE  u = v
    <3>1. FloorOf[u] = FloorOf[v] /\ SlotOf[u] = SlotOf[v] BY <1>3, <2>1 DEF SameIdentifier
    <3> QED BY <3>1, UnitAssumption
  <2> QED BY <1>2, <1>5, <2>1 DEF Identified, Holding
<1>12. Timed BY <1>2, <1>3, <1>5 DEF Timed
<1>13. Divided
  <2>1. ASSUME NEW u \in Flats
        PROVE  Len(unit[u].volume.path) = 0 /\ unit[u].status # "retired"
    <3> DEFINE w == [home |-> u, path |-> <<>>]
    <3>1. unit[u].volume = w /\ unit[u].status = "active" BY <1>3
    <3>2. w.path = <<>> BY FieldsOf
    <3> HIDE DEF w
    <3> QED BY <3>1, <3>2
  <2>2. \A f \in Flats : f \in DOMAIN unit /\ unit[f].volume = [home |-> f, path |-> <<>>]
    BY <1>2, <1>3
  <2>3. \A u \in DOMAIN unit :
          Len(unit[u].volume.path) <= clock /\ unit[u].status # "retired"
    <3>1. TAKE u \in DOMAIN unit
    <3>2. u \in Flats BY <1>2
    <3>3. Len(unit[u].volume.path) = 0 /\ unit[u].status # "retired" BY <2>1, <3>2
    <3> HIDE DEF Flats
    <3>4. 0 <= clock BY <1>7
    <3> QED BY <3>3, <3>4
  <2> QED BY <2>2, <2>3 DEF Divided
<1>14. Disjoint
  <2>1. ASSUME NEW u \in Flats, NEW v \in Flats, Inside(unit[u].volume, unit[v].volume)
        PROVE  u = v
    <3> DEFINE w(f) == [home |-> f, path |-> <<>>]
    <3>1. unit[u].volume = w(u) /\ unit[v].volume = w(v) BY <1>3
    <3>2. w(u).home = u /\ w(v).home = v BY FieldsOf
    <3> HIDE DEF w
    <3> QED BY <2>1, <3>1, <3>2 DEF Inside
  <2> QED BY <1>2, <2>1 DEF Disjoint
<1>15. Filled BY <1>6, <1>7, <1>8 DEF Filled
<1> QED BY <1>9, <1>10, <1>11, <1>12, <1>13, <1>14, <1>15 DEF UnitInv

LEMMA UnitStep == UnitInv /\ [Next]_vars => UnitInv'
<1> SUFFICES ASSUME UnitInv, [Next]_vars PROVE UnitInv' OBVIOUS
<1>1. ASSUME NEW t \in Splits, SplitStep(t) PROVE UnitInv'
  BY <1>1, CheckKeeps, ReadSlotKeeps, ReadIdKeeps, InsertKeeps, CommitKeeps DEF SplitStep
<1>2. ASSUME NEW t \in Splits, Abort(t) PROVE UnitInv' BY <1>2, AbortKeeps
<1>3. ASSUME NEW t \in Splits, NEW u \in DOMAIN unit, Ask(t, u) PROVE UnitInv'
  BY <1>3, AskKeeps
<1>4. ASSUME NEW t \in Backfills, BeginFill(t) PROVE UnitInv' BY <1>4, BeginFillKeeps
<1>5. ASSUME NEW t \in Backfills, FillStep(t) PROVE UnitInv'
  BY <1>5, InsertTitlesKeeps, InsertSharesKeeps, CommitFillKeeps DEF FillStep
<1>6. CASE UNCHANGED vars
  <2>1. UNCHANGED <<unit, lineage, split, ladm, fill, clock>> BY <1>6 DEF vars
  <2>2. Typed' BY <2>1 DEF UnitInv, Typed
  <2>3. Bounded' BY <2>1 DEF UnitInv, Bounded
  <2>4. Identified'
    <3>1. Identified BY DEF UnitInv
    <3> QED BY <2>1, <3>1 DEF Identified, Unique, Apart, Children, Child, SameIdentifier
  <2>5. Timed' BY <2>1 DEF UnitInv, Timed
  <2>6. Divided'
    <3>1. Divided BY DEF UnitInv
    <3> QED BY <2>1, <3>1 DEF Divided, Piece
  <2>7. Disjoint'
    <3>1. Disjoint BY DEF UnitInv
    <3> QED BY <2>1, <3>1 DEF Disjoint, RacedAbove, Raced, Inside
  <2>8. Filled' BY <2>1 DEF UnitInv, Filled, Counted
  <2> QED BY <2>2, <2>3, <2>4, <2>5, <2>6, <2>7, <2>8 DEF UnitInv
<1> QED BY <1>1, <1>2, <1>3, <1>4, <1>5, <1>6 DEF Next

LEMMA UnitInvariant == Spec => []UnitInv
BY UnitInit, UnitStep, PTL DEF Spec

\* Every variable of the register has its type, whatever transactions of unit_split and
\* ladm_backfill run.
THEOREM UnitTypeCorrect == Spec => []TypeOK
<1>1. UnitInv => TypeOK
  <2> SUFFICES ASSUME UnitInv PROVE TypeOK OBVIOUS
  <2>1. Typed /\ Bounded BY DEF UnitInv
  <2>2. \A u \in DOMAIN unit : u \in Nat /\ unit[u] \in Row BY <2>1, RowIs
  <2>3. ASSUME NEW t \in Splits
        PROVE  /\ split[t].pc \in SplitPhases
               /\ {split[t].unit, split[t].slot, split[t].id} \subseteq Nat
               /\ {split[t].seen, split[t].done} \subseteq 0..clock
    <3>1. split[t].seen <= clock /\ split[t].done <= clock /\ clock \in Nat
      BY <2>1 DEF Typed, Bounded
    <3> QED BY <2>1, <3>1, SplitIs
  <2>4. \A t \in Backfills : fill[t].pc \in FillPhases /\ fill[t].work \in Projections
    BY <2>1 DEF Typed
  <2> QED BY <2>1, <2>2, <2>3, <2>4 DEF Typed, TypeOK
<1> QED BY <1>1, UnitInvariant, PTL

\* Two active units share space only below a unit that two runs of unit_split divided, both
\* of which had seen it active before either committed.
THEOREM OverlapsAreRaces == Spec => []OverlapOnlyByRace
<1>1. UnitInv => OverlapOnlyByRace
  BY DEF UnitInv, Disjoint, RacedAbove, OverlapOnlyByRace, Active
<1> QED BY <1>1, UnitInvariant, PTL

\* Every piece of every flat, however finely it is divided, lies in an active unit or in the
\* slivers that a committed unit_split dropped: it retires a unit only with the two larger
\* pieces in place, or not at all.
THEOREM SpaceIsKept == Spec => []SpaceLostOnlyInSlivers
<1>1. UnitInv => SpaceLostOnlyInSlivers
  <2> SUFFICES ASSUME UnitInv, NEW f \in Flats, NEW q \in [1..clock -> {1, 2, 3}],
                      Exists([home |-> f, path |-> q])
               PROVE  \/ \E u \in Active : Inside([home |-> f, path |-> q], unit[u].volume)
                      \/ \E t \in Splits :
                           /\ split[t].pc = "ok" /\ unit[split[t].unit].volume \in Slivered
                           /\ Inside([home |-> f, path |-> q],
                                     Slivers(unit[split[t].unit].volume))
    BY DEF SpaceLostOnlyInSlivers
  <2>1. Typed /\ Divided /\ Timed BY DEF UnitInv
  <2>2. clock \in Nat BY <2>1 DEF Typed
  <2>3. q \in Seq({1, 2, 3}) /\ Len(q) = clock /\ f \in Flats BY <2>2
  <2> DEFINE Upto(i) == [home |-> f, path |-> SubSeq(q, 1, i)]
             Deep == {i \in 0..clock : \E u \in DOMAIN unit : unit[u].volume = Upto(i)}
  <2>4. ASSUME NEW i \in 0..clock
        PROVE  /\ SubSeq(q, 1, i) \in Seq({1, 2, 3}) /\ Len(SubSeq(q, 1, i)) = i
               /\ \A j \in 1..i : SubSeq(q, 1, i)[j] = q[j]
    BY <2>2, <2>3
  <2>5. SubSeq(q, 1, 0) = <<>> BY <2>2, <2>3
  <2>6. 0 \in Deep BY <2>1, <2>2, <2>5 DEF Divided
  <2>7. Deep \in SUBSET Nat /\ \A i \in Deep : i <= clock BY <2>2
  <2> DEFINE i == Largest(Deep)
  <2>8. i \in Deep /\ \A j \in Deep : j <= i
    <3> HIDE DEF Deep
    <3> QED BY <2>2, <2>6, <2>7, LargestIs
  <2> HIDE DEF i
  <2>9. PICK u \in DOMAIN unit : unit[u].volume = Upto(i) BY <2>8
  <2>10. i \in 0..clock BY <2>8
  <2>11. ASSUME NEW p \in Seq({1, 2, 3}), Len(p) <= clock, \A j \in 1..Len(p) : p[j] = q[j]
         PROVE  Inside([home |-> f, path |-> q], [home |-> f, path |-> p])
    <3>1. IsPrefix(p, q) BY <2>3, <2>11, PrefixIs
    <3> QED BY <3>1 DEF Inside
  <2>12. CASE unit[u].status = "active"
    <3>1. Inside([home |-> f, path |-> q], unit[u].volume) BY <2>2, <2>4, <2>9, <2>10, <2>11
    <3> QED BY <2>12, <3>1 DEF Active
  <2>13. CASE unit[u].status # "active"
    <3>1. unit[u].status = "retired" BY <2>1, <2>13, RowIs
    <3>2. Len(unit[u].volume.path) = i BY <2>4, <2>9, <2>10
    <3>3. i < clock BY <2>1, <3>1, <3>2 DEF Divided
    <3>4. i + 1 \in 0..clock /\ i + 1 \in 1..clock BY <2>2, <2>10, <3>3
    <3>5. Append(SubSeq(q, 1, i), q[i + 1]) = SubSeq(q, 1, i + 1) BY <2>2, <2>3, <2>10, <3>4
    <3>6. q[i + 1] = 3
      <4>1. SUFFICES ASSUME q[i + 1] # 3 PROVE FALSE OBVIOUS
      <4>2. q[i + 1] \in {1, 2} BY <3>4, <4>1
      <4>3. PICK c \in DOMAIN unit : unit[c].volume = Piece(unit[u].volume, q[i + 1])
        BY <2>1, <3>1, <4>2 DEF Divided
      <4>4. Piece(Upto(i), q[i + 1]) = Upto(i + 1) BY <3>5, PieceOf
      <4>5. i + 1 \in Deep BY <2>9, <3>4, <4>3, <4>4
      <4>6. i + 1 <= i
        <5> HIDE DEF Deep
        <5> QED BY <2>8, <4>5
      <4> QED BY <2>10, <4>6
    <3>7. unit[u].volume \in Slivered
      <4>1. i + 1 \in DOMAIN q /\ (i + 1) - 1 = i BY <2>2, <2>3, <2>10, <3>4
      <4>2. [home |-> f, path |-> SubSeq(q, 1, (i + 1) - 1)] \in Slivered
        BY <3>6, <4>1 DEF Exists
      <4> QED BY <2>9, <4>1, <4>2
    <3>8. PICK t \in Splits : split[t].pc = "ok" /\ split[t].unit = u
      BY <2>1, <3>1 DEF Timed
    <3>9. Slivers(unit[u].volume) = [home |-> f, path |-> SubSeq(q, 1, i + 1)]
      <4>1. Slivers(Upto(i)) = Piece(Upto(i), 3) BY DEF Slivers, Piece
      <4>2. Piece(Upto(i), 3) = [home |-> f, path |-> Append(SubSeq(q, 1, i), 3)] BY PieceOf
      <4> QED BY <2>9, <3>5, <3>6, <4>1, <4>2
    <3>10. Inside([home |-> f, path |-> q], Slivers(unit[u].volume))
      <4>1. /\ SubSeq(q, 1, i + 1) \in Seq({1, 2, 3}) /\ Len(SubSeq(q, 1, i + 1)) = i + 1
            /\ \A j \in 1..(i + 1) : SubSeq(q, 1, i + 1)[j] = q[j]
        BY <2>4, <3>4
      <4>2. i + 1 <= clock BY <2>2, <3>4
      <4>3. Inside([home |-> f, path |-> q], [home |-> f, path |-> SubSeq(q, 1, i + 1)])
        <5> HIDE DEF Deep
        <5> QED BY <2>11, <4>1, <4>2
      <4> QED BY <3>9, <4>3
    <3> QED BY <3>7, <3>8, <3>10
  <2> QED BY <2>12, <2>13
<1> QED BY <1>1, UnitInvariant, PTL

\* The shares of the ground that ladm_backfill commits never exceed the whole, whatever splits
\* commit between its statements.
THEOREM SharesAreWhole == Spec => []SharesNeverOversold
<1>1. UnitInv => SharesNeverOversold BY DEF UnitInv, Filled, Counted, SharesNeverOversold
<1> QED BY <1>1, UnitInvariant, PTL

\* A committed identifier names the same space for ever, and no other: max(id) + 1, the next
\* free slot and the unique keys of unit_split give no identifier twice.
THEOREM IdentifiersAreForever == Spec => IdentifiersNeverReused
<1>1. ASSUME UnitInv, UnitInv', [Next]_vars, NEW u \in DOMAIN unit
      PROVE  /\ u \in DOMAIN unit'
             /\ unit'[u].volume = unit[u].volume
             /\ \A v \in DOMAIN unit' : SameIdentifier(unit'[v], unit[u]) <=> u = v
  <2>1. /\ u \in DOMAIN unit' /\ unit'[u].volume = unit[u].volume
        /\ unit'[u].floor = unit[u].floor /\ unit'[u].slot = unit[u].slot
    <3>1. CASE \E t \in Splits : CommitSplit(t) BY <1>1, <3>1, CommittedRows
    <3>2. CASE UNCHANGED unit BY <3>2
    <3>3. (\E t \in Splits : CommitSplit(t)) \/ UNCHANGED unit
      BY <1>1 DEF Next, vars, SplitStep, Check, ReadSlot, ReadId, Insert, Abort, Ask,
                  BeginFill, FillStep, InsertTitles, InsertShares, CommitFill
    <3> QED BY <3>1, <3>2, <3>3
  <2>2. \A v \in DOMAIN unit' : SameIdentifier(unit'[v], unit'[u]) => v = u
    BY <1>1, <2>1 DEF UnitInv, Identified, SameIdentifier
  <2> QED BY <2>1, <2>2 DEF SameIdentifier
<1>2. UnitInv /\ UnitInv' /\ [Next]_vars =>
        [\A u \in DOMAIN unit :
           /\ u \in DOMAIN unit'
           /\ unit'[u].volume = unit[u].volume
           /\ \A v \in DOMAIN unit' : SameIdentifier(unit'[v], unit[u]) <=> u = v]_vars
  BY <1>1
<1> QED BY <1>2, UnitInvariant, PTL DEF Spec, IdentifiersNeverReused

-----------------------------------------------------------------------------
(* The check character of an identifier *)

Sum == 1..37

-----------------------------------------------------------------------------
(* One character *)

LEMMA TakenType ==
  ASSUME NEW p \in Sum, NEW v \in Body PROVE Taken(p, v) \in Sum
BY DEF Taken, Lift, Sum, Body

\* To multiply by the radix is to change the sign.
LEMMA TakenValue ==
  ASSUME NEW p \in Sum, NEW v \in Body
  PROVE  Taken(p, v) = IF p + v < 37 THEN 37 - (p + v) ELSE 74 - (p + v)
BY DEF Taken, Lift, Sum, Body

\* The radix is invertible modulo 37: different sums stay different.
LEMMA TakenInjective ==
  ASSUME NEW p \in Sum, NEW q \in Sum, NEW v \in Body, p # q
  PROVE  Taken(p, v) # Taken(q, v)
BY DEF Taken, Lift, Sum, Body

LEMMA TakenDiffers ==
  ASSUME NEW p \in Sum, NEW v \in Body, NEW w \in Body, v # w
  PROVE  Taken(p, v) # Taken(p, w)
BY DEF Taken, Lift, Sum, Body

\* 37 is odd: two neighbours weigh differently.
LEMMA TakenExchanged ==
  ASSUME NEW p \in Sum, NEW v \in Body, NEW w \in Body, v # w
  PROVE  Taken(Taken(p, v), w) # Taken(Taken(p, w), v)
<1> DEFINE a == Taken(p, v)
           b == Taken(p, w)
<1>1. a \in Sum /\ b \in Sum BY TakenType
<1>2. /\ a = IF p + v < 37 THEN 37 - (p + v) ELSE 74 - (p + v)
      /\ b = IF p + w < 37 THEN 37 - (p + w) ELSE 74 - (p + w)
  BY TakenValue
<1> HIDE DEF a, b
<1>3. /\ Taken(a, w) = IF a + w < 37 THEN 37 - (a + w) ELSE 74 - (a + w)
      /\ Taken(b, v) = IF b + v < 37 THEN 37 - (b + v) ELSE 74 - (b + v)
  BY <1>1, TakenValue
<1>4. Taken(a, w) # Taken(b, v) BY <1>1, <1>2, <1>3 DEF Sum, Body
<1> QED BY <1>4 DEF a, b

-----------------------------------------------------------------------------
(* The sums of a body *)

\* p holds the sums of the first k characters.
SumsTo(body, k, p) ==
  /\ p \in [0..k -> Sum]
  /\ p[0] = 37
  /\ \A i \in 1..k : p[i] = Taken(p[i - 1], body[i])

LEMMA SumsExist ==
  ASSUME NEW body \in Seq(Body), NEW n \in Nat, n <= Len(body)
  PROVE  \E p : SumsTo(body, n, p)
<1> DEFINE T == {k \in 0..n : ~\E p : SumsTo(body, k, p)}
<1> SUFFICES ASSUME ~\E p : SumsTo(body, n, p) PROVE FALSE OBVIOUS
<1>0. n \in T OBVIOUS
<1>1. PICK k \in T : \A j \in T : k <= j
  <2>1. T \in SUBSET Nat OBVIOUS
  <2>2. T # {} BY <1>0
  <2> HIDE DEF T
  <2> QED BY <2>1, <2>2, Least
<1>2. CASE k = 0
  <2>1. SumsTo(body, 0, [i \in 0..0 |-> 37]) BY DEF SumsTo, Sum
  <2> QED BY <2>1, <1>2
<1>3. CASE k # 0
  <2>1. k - 1 \in 0..n /\ k - 1 \notin T BY <1>1, <1>3
  <2>2. PICK p : SumsTo(body, k - 1, p) BY <2>1
  <2> DEFINE q == [i \in 0..k |-> IF i = k THEN Taken(p[k - 1], body[k]) ELSE p[i]]
  <2>3. body[k] \in Body /\ p[k - 1] \in Sum BY <1>3, <2>2 DEF SumsTo
  <2>4. q \in [0..k -> Sum] BY <2>2, <2>3, TakenType DEF SumsTo
  <2>5. q[0] = 37 BY <1>3, <2>2 DEF SumsTo
  <2>6. \A i \in 1..k : q[i] = Taken(q[i - 1], body[i]) BY <1>3, <2>2 DEF SumsTo
  <2> HIDE DEF q
  <2>7. SumsTo(body, k, q) BY <2>4, <2>5, <2>6 DEF SumsTo
  <2> QED BY <2>7
<1> QED BY <1>2, <1>3

LEMMA SumsDef ==
  ASSUME NEW body \in Seq(Body)
  PROVE  SumsTo(body, Len(body), Sums(body))
<1> DEFINE n == Len(body)
           Rule(p) == [i \in 0..n |-> IF i = 0 THEN 37 ELSE Taken(p[i - 1], body[i])]
<1>1. PICK p : SumsTo(body, n, p) BY SumsExist
<1>2. p = Rule(p) BY <1>1 DEF SumsTo
<1>3. Sums(body) = CHOOSE q : q = Rule(q) BY DEF Sums
<1> HIDE DEF Rule
<1>4. Sums(body) = Rule(Sums(body)) BY <1>2, <1>3
<1> USE DEF Rule
<1>5. Sums(body)[0] = 37 BY <1>4, <1>1 DEF SumsTo
<1>6. Sums(body) = p
  <2> DEFINE s == Sums(body)
             T == {i \in 0..n : s[i] # p[i]}
  <2>1. s = [i \in 0..n |-> IF i = 0 THEN 37 ELSE Taken(s[i - 1], body[i])] BY <1>4
  <2> HIDE DEF s
  <2>2. n \in Nat OBVIOUS
  <2>3. SUFFICES ASSUME T # {} PROVE FALSE
    <3>1. T = {} => \A i \in 0..n : s[i] = p[i] OBVIOUS
    <3> QED BY <3>1, <2>1, <1>1 DEF SumsTo, s
  <2>4. T \in SUBSET Nat BY <2>2
  <2>5. PICK k \in T : \A j \in T : k <= j
    <3> HIDE DEF T
    <3> QED BY <2>3, <2>4, Least
  <2>6. k # 0 BY <2>1, <1>1, <2>2 DEF SumsTo
  <2>7. k - 1 \in 0..n /\ k - 1 \notin T BY <2>5, <2>6, <2>2
  <2>8. s[k - 1] = p[k - 1] BY <2>7
  <2>9. s[k] = p[k] BY <2>8, <2>1, <2>6, <1>1, <2>2 DEF SumsTo
  <2> QED BY <2>9
<1> QED BY <1>1, <1>6

LEMMA SumType ==
  ASSUME NEW body \in Seq(Body), NEW k \in 0..Len(body)
  PROVE  /\ Sums(body)[k] \in Sum
         /\ k > 0 => Sums(body)[k] = Taken(Sums(body)[k - 1], body[k])
BY SumsDef DEF SumsTo

LEMMA SamePrefix ==
  ASSUME NEW a \in Seq(Body), NEW b \in Seq(Body), Len(a) = Len(b),
         NEW k \in 0..Len(a), \A i \in 1..k : a[i] = b[i]
  PROVE  Sums(a)[k] = Sums(b)[k]
<1> DEFINE T == {i \in 0..k : Sums(a)[i] # Sums(b)[i]}
<1> SUFFICES ASSUME Sums(a)[k] # Sums(b)[k] PROVE FALSE OBVIOUS
<1>1. k \in T /\ T \in SUBSET Nat OBVIOUS
<1>2. PICK i \in T : \A j \in T : i <= j
  <2> HIDE DEF T
  <2> QED BY <1>1, Least
<1>3. i # 0 BY SumsDef DEF SumsTo
<1>4. i - 1 \in 0..k /\ i - 1 \notin T BY <1>2, <1>3
<1>5. Sums(a)[i - 1] = Sums(b)[i - 1] BY <1>4
<1>6. /\ Sums(a)[i] = Taken(Sums(a)[i - 1], a[i])
      /\ Sums(b)[i] = Taken(Sums(b)[i - 1], b[i])
  BY <1>3, SumType
<1>7. a[i] = b[i] BY <1>3
<1> QED BY <1>5, <1>6, <1>7

LEMMA SameSuffix ==
  ASSUME NEW a \in Seq(Body), NEW b \in Seq(Body), Len(a) = Len(b),
         NEW k \in 0..Len(a), \A i \in (k + 1)..Len(a) : a[i] = b[i],
         Sums(a)[k] # Sums(b)[k]
  PROVE  Sums(a)[Len(a)] # Sums(b)[Len(a)]
<1> DEFINE n == Len(a)
           T == {i \in k..n : Sums(a)[i] = Sums(b)[i]}
<1> SUFFICES ASSUME Sums(a)[n] = Sums(b)[n] PROVE FALSE OBVIOUS
<1>0. n \in Nat OBVIOUS
<1>1. n \in T /\ T \in SUBSET Nat BY <1>0
<1>2. PICK i \in T : \A j \in T : i <= j
  <2> HIDE DEF T
  <2> QED BY <1>1, Least
<1>3. i # k OBVIOUS
<1>4. i - 1 \in k..n /\ i - 1 \notin T BY <1>2, <1>3, <1>0
<1>5. Sums(a)[i - 1] # Sums(b)[i - 1] BY <1>4
<1>6. /\ Sums(a)[i] = Taken(Sums(a)[i - 1], a[i])
      /\ Sums(b)[i] = Taken(Sums(b)[i - 1], b[i])
      /\ Sums(a)[i - 1] \in Sum /\ Sums(b)[i - 1] \in Sum
  BY <1>3, <1>0, SumType
<1>7. a[i] = b[i] /\ a[i] \in Body BY <1>3, <1>0
<1>8. Taken(Sums(a)[i - 1], a[i]) # Taken(Sums(b)[i - 1], b[i])
  BY <1>5, <1>6, <1>7, TakenInjective
<1> QED BY <1>6, <1>8

LEMMA CheckValue ==
  ASSUME NEW x \in Sum
  PROVE  Lift((38 - x) % 37) - 1 = IF x = 37 THEN 0 ELSE 37 - x
BY DEF Lift, Sum

LEMMA CheckCharIs ==
  ASSUME NEW body \in Seq(Body), NEW x, x = Sums(body)[Len(body)]
  PROVE  x \in Sum /\ CheckChar(body) = IF x = 37 THEN 0 ELSE 37 - x
<1>1. x \in Sum BY SumType
<1>2. CheckChar(body) = Lift((38 - x) % 37) - 1 BY DEF CheckChar
<1> QED BY <1>1, <1>2, CheckValue

LEMMA CheckCharType ==
  ASSUME NEW body \in Seq(Body) PROVE CheckChar(body) \in Symbol
<1> DEFINE x == Sums(body)[Len(body)]
<1> HIDE DEF x
<1>1. x \in Sum /\ CheckChar(body) = IF x = 37 THEN 0 ELSE 37 - x BY CheckCharIs DEF x
<1> QED BY <1>1 DEF Sum, Symbol

LEMMA CheckCharDiffers ==
  ASSUME NEW a \in Seq(Body), NEW b \in Seq(Body), Sums(a)[Len(a)] # Sums(b)[Len(b)]
  PROVE  CheckChar(a) # CheckChar(b)
<1> DEFINE x == Sums(a)[Len(a)]
           y == Sums(b)[Len(b)]
<1>0. x # y OBVIOUS
<1> HIDE DEF x, y
<1>1. x \in Sum /\ CheckChar(a) = IF x = 37 THEN 0 ELSE 37 - x BY CheckCharIs DEF x
<1>2. y \in Sum /\ CheckChar(b) = IF y = 37 THEN 0 ELSE 37 - y BY CheckCharIs DEF y
<1> QED BY <1>0, <1>1, <1>2 DEF Sum

-----------------------------------------------------------------------------
(* What the comment of checkChar3736 promises *)

\* Every substitution of a single character changes the check character.
THEOREM SubstitutionCaught ==
  ASSUME NEW a \in Seq(Body), NEW b \in Seq(Body), Len(a) = Len(b),
         NEW k \in 1..Len(a), a[k] # b[k],
         \A i \in 1..Len(a) : i # k => a[i] = b[i]
  PROVE  CheckChar(a) # CheckChar(b)
<1>1. Sums(a)[k - 1] = Sums(b)[k - 1]
  <2>1. k - 1 \in 0..Len(a) OBVIOUS
  <2>2. \A i \in 1..(k - 1) : a[i] = b[i] OBVIOUS
  <2> QED BY <2>1, <2>2, SamePrefix
<1>2. /\ Sums(a)[k] = Taken(Sums(a)[k - 1], a[k])
      /\ Sums(b)[k] = Taken(Sums(b)[k - 1], b[k])
      /\ Sums(a)[k - 1] \in Sum
  BY SumType
<1>3. a[k] \in Body /\ b[k] \in Body OBVIOUS
<1>4. Sums(a)[k] # Sums(b)[k] BY <1>1, <1>2, <1>3, TakenDiffers
<1>5. Sums(a)[Len(a)] # Sums(b)[Len(a)] BY <1>4, SameSuffix
<1> QED BY <1>5, CheckCharDiffers

\* Every exchange of two different neighbours changes it too.
THEOREM ExchangeCaught ==
  ASSUME NEW a \in Seq(Body), NEW b \in Seq(Body), Len(a) = Len(b),
         NEW k \in 1..(Len(a) - 1), a[k] # a[k + 1], b[k] = a[k + 1], b[k + 1] = a[k],
         \A i \in 1..Len(a) : i \notin {k, k + 1} => a[i] = b[i]
  PROVE  CheckChar(a) # CheckChar(b)
<1>1. Sums(a)[k - 1] = Sums(b)[k - 1]
  <2>1. k - 1 \in 0..Len(a) OBVIOUS
  <2>2. \A i \in 1..(k - 1) : a[i] = b[i] OBVIOUS
  <2> QED BY <2>1, <2>2, SamePrefix
<1>2. /\ Sums(a)[k] = Taken(Sums(a)[k - 1], a[k])
      /\ Sums(b)[k] = Taken(Sums(b)[k - 1], b[k])
      /\ Sums(a)[k - 1] \in Sum
  BY SumType
<1>3. /\ Sums(a)[k + 1] = Taken(Sums(a)[k], a[k + 1])
      /\ Sums(b)[k + 1] = Taken(Sums(b)[k], b[k + 1])
  <2>1. k + 1 \in 0..Len(a) /\ k + 1 > 0 /\ k + 1 - 1 = k OBVIOUS
  <2> QED BY <2>1, SumType
<1>4. a[k] \in Body /\ a[k + 1] \in Body OBVIOUS
<1>5. Sums(a)[k + 1] # Sums(b)[k + 1] BY <1>1, <1>2, <1>3, <1>4, TakenExchanged
<1>6. k + 1 \in 0..Len(a) OBVIOUS
<1>7. \A i \in (k + 2)..Len(a) : a[i] = b[i] OBVIOUS
<1>8. Sums(a)[Len(a)] # Sums(b)[Len(a)]
  <2>1. \A i \in (k + 1 + 1)..Len(a) : a[i] = b[i] BY <1>7
  <2> QED BY <1>5, <1>6, <2>1, SameSuffix
<1> QED BY <1>8, CheckCharDiffers

-----------------------------------------------------------------------------
(* Numbers of two and three digits *)

LEMMA TwoDigits ==
  ASSUME NEW n \in 0..99
  PROVE  /\ Pad(n, 2) = <<n \div 10, n % 10>>
         /\ Lpad(n, 2) = Pad(n, 2)
         /\ n \div 10 \in Digit /\ n % 10 \in Digit
         /\ 10 * (n \div 10) + (n % 10) = n
<1>1. n \div 10 \in Digit /\ n % 10 \in Digit /\ 10 * (n \div 10) + (n % 10) = n
  BY DEF Digit
<1>2. (n \div 10) % 10 = n \div 10 BY <1>1 DEF Digit
<1>3. Powers[2] = 100 /\ Powers[1] = 10 BY DEF Powers
<1>4. Digits(n, 2) = <<n \div 10, n % 10>>
  <2> DEFINE d == [i \in 1..2 |-> IF i = 2 THEN n % 10 ELSE (n \div Powers[2 - i]) % 10]
  <2>1. d[1] = n \div 10 /\ d[2] = n % 10 BY <1>2, <1>3
  <2>2. d = <<d[1], d[2]>> OBVIOUS
  <2> QED BY <2>1, <2>2 DEF Digits
<1> QED BY <1>1, <1>3, <1>4 DEF Pad, Lpad

LEMMA ThreeDigits ==
  ASSUME NEW n \in 0..999
  PROVE  /\ Pad(n, 3) = <<n \div 100, (n \div 10) % 10, n % 10>>
         /\ Lpad(n, 3) = Pad(n, 3)
         /\ n \div 100 \in Digit /\ (n \div 10) % 10 \in Digit /\ n % 10 \in Digit
         /\ 100 * (n \div 100) + 10 * ((n \div 10) % 10) + (n % 10) = n
<1>1. /\ n \div 100 \in Digit /\ (n \div 10) % 10 \in Digit /\ n % 10 \in Digit
      /\ 100 * (n \div 100) + 10 * ((n \div 10) % 10) + (n % 10) = n
  BY DEF Digit
<1>2. (n \div 100) % 10 = n \div 100 BY <1>1 DEF Digit
<1>3. Powers[3] = 1000 /\ Powers[2] = 100 /\ Powers[1] = 10 BY DEF Powers
<1>4. Digits(n, 3) = <<n \div 100, (n \div 10) % 10, n % 10>>
  <2> DEFINE d == [i \in 1..3 |-> IF i = 3 THEN n % 10 ELSE (n \div Powers[3 - i]) % 10]
  <2>1. d[1] = n \div 100 /\ d[2] = (n \div 10) % 10 /\ d[3] = n % 10 BY <1>2, <1>3
  <2>2. d = <<d[1], d[2], d[3]>> OBVIOUS
  <2> QED BY <2>1, <2>2 DEF Digits
<1> QED BY <1>1, <1>3, <1>4 DEF Pad, Lpad

-----------------------------------------------------------------------------
(* Short texts *)

LEMMA ConsPair ==
  ASSUME NEW a, NEW b, NEW c
  PROVE  <<a>> \o <<b, c>> = <<a, b, c>> /\ Tail(<<a, b, c>>) = <<b, c>>
<1> DEFINE S == {a, b, c}
           s == <<a>>
           t == <<b, c>>
           g == <<a, b, c>>
<1>1. s \in Seq(S) /\ t \in Seq(S) /\ g \in Seq(S) OBVIOUS
<1>2. Len(s) = 1 /\ Len(t) = 2 /\ Len(g) = 3 /\ s[1] = a /\ t[1] = b /\ t[2] = c OBVIOUS
<1>3. g[1] = a /\ g[2] = b /\ g[3] = c OBVIOUS
<1> HIDE DEF S, s, t, g
<1> DEFINE h == s \o t
<1>4. h \in Seq(S) /\ Len(h) = Len(s) + Len(t)
      /\ \A i \in 1..(Len(s) + Len(t)) : h[i] = IF i <= Len(s) THEN s[i] ELSE t[i - Len(s)]
  BY <1>1, ConcatProperties, Zenon
<1> HIDE DEF h
<1>5. h = g BY <1>1, <1>2, <1>3, <1>4, SeqEqual
<1>6. Tail(<<a, b, c>>) = <<b, c>> OBVIOUS
<1> QED BY <1>5, <1>6 DEF s, t, g, h

LEMMA PairIn ==
  ASSUME NEW S, NEW a \in S, NEW b \in S
  PROVE  <<a, b>> \in Seq(S) /\ Len(<<a, b>>) = 2 /\ <<a, b>>[1] = a /\ <<a, b>>[2] = b
OBVIOUS

LEMMA TripleIn ==
  ASSUME NEW S, NEW a \in S, NEW b \in S, NEW c \in S
  PROVE  /\ <<a, b, c>> \in Seq(S) /\ Len(<<a, b, c>>) = 3
         /\ <<a, b, c>>[1] = a /\ <<a, b, c>>[2] = b /\ <<a, b, c>>[3] = c
OBVIOUS

LEMMA Halves ==
  ASSUME NEW S, NEW p \in Seq(S), NEW d \in Seq(S), Len(d) = 3
  PROVE  /\ p \o d \in Seq(S) /\ Len(p \o d) = Len(p) + 3
         /\ SubSeq(p \o d, 1, Len(p)) = p
         /\ SubSeq(p \o d, Len(p) + 1, Len(p) + 3) = d
<1> DEFINE g == p \o d
           w == Len(p)
<1>0. w \in Nat OBVIOUS
<1>c. /\ g \in Seq(S) /\ Len(g) = Len(p) + Len(d)
      /\ \A i \in 1..(Len(p) + Len(d)) : g[i] = IF i <= Len(p) THEN p[i] ELSE d[i - Len(p)]
  BY ConcatProperties, Zenon
<1> HIDE DEF g
<1>1. /\ g \in Seq(S) /\ Len(g) = w + 3
      /\ \A i \in 1..(w + 3) : g[i] = IF i <= w THEN p[i] ELSE d[i - w]
  BY <1>c
<1>4. SubSeq(g, 1, w) = p
  <2>1. SubSeq(g, 1, w) \in Seq(S) /\ Len(SubSeq(g, 1, w)) = w
        /\ \A i \in 1..w : SubSeq(g, 1, w)[i] = g[i]
    BY <1>0, <1>1
  <2> QED BY <1>0, <1>1, <2>1, SeqEqual
<1>5. SubSeq(g, w + 1, w + 3) = d
  <2>0. \A i \in (w + 1)..(w + 3) : g[i] \in S BY <1>0, <1>1
  <2>1. SubSeq(g, w + 1, w + 3) \in Seq(S) /\ Len(SubSeq(g, w + 1, w + 3)) = 3
        /\ \A i \in 1..3 : SubSeq(g, w + 1, w + 3)[i] = g[w + i]
    BY <1>0, <2>0, <1>1, SubSeqProperties
  <2>2. \A i \in 1..3 : g[w + i] = d[i] BY <1>0, <1>1
  <2> QED BY <2>1, <2>2, SeqEqual
<1> QED BY <1>1, <1>4, <1>5 DEF g

-----------------------------------------------------------------------------
(* Each group is read back as what was written *)

LEMMA BuildingRead ==
  ASSUME NEW n \in 0..99, NEW g, g = << 11 >> \o Pad(n, 2)
  PROVE  BuildingGroup(g) /\ Value(Tail(g)) = n /\ g = << 11 >> \o Lpad(n, 2)
<1> DEFINE x == n \div 10
           y == n % 10
<1>1. Pad(n, 2) = <<x, y>> /\ Lpad(n, 2) = Pad(n, 2) /\ x \in Digit /\ y \in Digit
      /\ 10 * x + y = n
  BY TwoDigits
<1> HIDE DEF x, y
<1>2. g = <<11, x, y>> /\ Tail(g) = <<x, y>> BY <1>1, ConsPair, ZenonT(60)
<1>3. Number(Tail(g), 2) BY <1>1, <1>2, PairIn, ZenonT(60) DEF Number
<1>4. Value(Tail(g)) = n BY <1>1, <1>2, PairIn DEF Value
<1> QED BY <1>1, <1>2, <1>3, <1>4 DEF BuildingGroup

LEMMA LevelLetters ==
  ASSUME NEW k \in LevelKinds
  PROVE  /\ LevelLetter[k] \in Letter
         /\ \A j \in LevelKinds : LevelLetter[j] = LevelLetter[k] => j = k
         /\ LevelLetter[k] = 33 <=> k = "airRights"
BY DEF LevelLetter, LevelKinds, Letter

LEMMA LevelRead ==
  ASSUME NEW l \in Levels, NEW g, g = LevelCode3D(l)
  PROVE  /\ LevelGroup(g) /\ Parsed(g) = {l}
         /\ g[1] = LevelLetter[l.kind] /\ g = SqlLevelCode(l)
<1> DEFINE x == l.n \div 10
           y == l.n % 10
<1>0. l.n \in 0..99 /\ l.kind \in LevelKinds BY DEF Levels, LevelKinds
<1>1. Pad(l.n, 2) = <<x, y>> /\ Lpad(l.n, 2) = Pad(l.n, 2) /\ x \in Digit /\ y \in Digit
      /\ 10 * x + y = l.n
  BY <1>0, TwoDigits
<1>s. l.kind = "ground" => l.n = 0 BY DEF Levels
<1>z. l.n = 0 => x = 0 /\ y = 0 OBVIOUS
<1> HIDE DEF x, y
<1>2. g = <<LevelLetter[l.kind], x, y>> /\ Tail(g) = <<x, y>> BY <1>1, ConsPair, ZenonT(60) DEF LevelCode3D
<1>3. Number(Tail(g), 2) BY <1>1, <1>2, PairIn, ZenonT(60) DEF Number
<1>4. Value(Tail(g)) = l.n BY <1>1, <1>2, PairIn DEF Value
<1>5. LevelGroup(g) BY <1>0, <1>2, <1>3, LevelLetters DEF LevelGroup
<1>6. ASSUME NEW m \in Levels, LevelLetter[m.kind] = g[1], m.n = l.n PROVE m = l
  <2>1. m.kind \in LevelKinds BY DEF Levels, LevelKinds
  <2>2. m.kind = l.kind BY <1>0, <1>2, <1>6, <2>1, LevelLetters
  <2> QED BY <1>6, <2>2 DEF Levels
<1>7. Parsed(g) = {l}
  <2>1. Parsed(g) = {m \in Levels : LevelLetter[m.kind] = g[1] /\ m.n = l.n} BY <1>4 DEF Parsed
  <2>2. l \in Parsed(g) BY <1>2, <2>1
  <2> QED BY <2>1, <2>2, <1>6
<1>8. g = SqlLevelCode(l)
  <2>1. CASE l.kind = "ground"
    BY <2>1, <1>2, <1>s, <1>z DEF SqlLevelCode, LevelLetter
  <2>2. CASE l.kind # "ground" BY <2>2, <1>1 DEF SqlLevelCode, LevelCode3D
  <2> QED BY <2>1, <2>2
<1> QED BY <1>2, <1>5, <1>7, <1>8

LEMMA UnitRead ==
  ASSUME NEW u \in Units, NEW g, g = Unit3DSlot(u)
  PROVE  UnitGroup(g) /\ ParsedUnit(g) = {u} /\ g = UnitPrefix[u.kind] \o Lpad(u.n, 3)
<1> DEFINE x == u.n \div 100
           y == (u.n \div 10) % 10
           z == u.n % 10
           d == <<x, y, z>>
           pre == UnitPrefix[u.kind]
           w == Len(pre)
<1>0. u.n \in 1..999 /\ u.kind \in UnitKinds BY DEF Units
<1>1. Pad(u.n, 3) = <<x, y, z>> /\ Lpad(u.n, 3) = Pad(u.n, 3)
      /\ x \in Digit /\ y \in Digit /\ z \in Digit /\ 100 * x + 10 * y + z = u.n
  <2>1. u.n \in 0..999 BY <1>0
  <2> QED BY <2>1, ThreeDigits, ZenonT(60)
<1> HIDE DEF x, y, z
<1>d. d \in Seq(Digit) /\ Len(d) = 3 BY <1>1, TripleIn
<1>2. Number(d, 3) /\ Value(d) = u.n BY <1>1, <1>d, TripleIn DEF Number, Value
<1>3. g = pre \o d BY <1>1 DEF Unit3DSlot
<1>4. \/ u.kind = "unit" /\ pre = <<>>
      \/ u.kind = "parking" /\ pre = <<25, 20>>
      \/ u.kind = "common" /\ pre = <<12, 10>>
  BY <1>0 DEF UnitKinds, UnitPrefix
<1>5. Len(g) = w + 3 /\ SubSeq(g, 1, w) = pre /\ SubSeq(g, w + 1, w + 3) = d
      /\ Len(g) - 2 = w + 1 /\ Len(g) - 3 = w
  <2>1. pre \in Seq(Nat)
    <3>1. <<>> \in Seq(Nat) /\ <<25, 20>> \in Seq(Nat) /\ <<12, 10>> \in Seq(Nat) OBVIOUS
    <3> HIDE DEF pre
    <3> QED BY <3>1, <1>4
  <2>2. d \in Seq(Nat) BY <1>d DEF Digit
  <2> HIDE DEF pre, d
  <2>3. Len(pre) \in Nat BY <2>1
  <2> QED BY <1>3, <1>d, <2>1, <2>2, <2>3, Halves DEF w
<1>6. UnitGroup(g) BY <1>0, <1>2, <1>5 DEF UnitGroup
<1>7. ParsedUnit(g) = {v \in Units : UnitPrefix[v.kind] = pre /\ v.n = u.n}
  BY <1>2, <1>5 DEF ParsedUnit
<1>8. ASSUME NEW v \in Units, UnitPrefix[v.kind] = pre, v.n = u.n PROVE v = u
  <2>1. \/ v.kind = "unit" /\ UnitPrefix[v.kind] = <<>>
        \/ v.kind = "parking" /\ UnitPrefix[v.kind] = <<25, 20>>
        \/ v.kind = "common" /\ UnitPrefix[v.kind] = <<12, 10>>
    BY DEF Units, UnitKinds, UnitPrefix
  <2>2. <<>> # <<25, 20>> /\ <<>> # <<12, 10>> /\ <<25, 20>> # <<12, 10>> OBVIOUS
  <2>3. v.kind = u.kind BY <1>4, <1>8, <2>1, <2>2
  <2> QED BY <1>8, <2>3 DEF Units
<1> QED BY <1>1, <1>6, <1>7, <1>8 DEF Unit3DSlot

-----------------------------------------------------------------------------
(* An identifier and its check character *)

Texts == Seq(Seq(Body))

LEMMA JoinedType ==
  ASSUME NEW g \in Texts PROVE NoSeparators(g) \in Seq(Body)
<1> DEFINE At(i) == IF i <= Len(g) THEN g[i] ELSE <<>>
<1>1. \A i \in 1..5 : At(i) \in Seq(Body) BY DEF Texts
<1>2. \A s, t \in Seq(Body) : s \o t \in Seq(Body) BY ConcatProperties
<1> HIDE DEF At
<1>3. At(1) \o At(2) \o At(3) \o At(4) \o At(5) \in Seq(Body) BY <1>1, <1>2
<1> QED BY <1>3 DEF NoSeparators, At

LEMMA CheckedIs ==
  ASSUME NEW g \in Texts, NEW id, id = Checked(g)
  PROVE  /\ Len(id) = Len(g) + 1 /\ \A i \in 1..Len(g) : id[i] = g[i]
         /\ BodyPart(id) = g /\ CheckGroup(CheckPart(id)) /\ CheckMatches(id)
         /\ CheckPart(id) = id[Len(g) + 1]
<1> DEFINE c == CheckChar(NoSeparators(g))
<1>1. c \in Symbol BY JoinedType, CheckCharType
<1>2. g \in Seq(Seq(Symbol)) /\ <<c>> \in Seq(Symbol)
  <2>1. \A s \in Seq(Body) : s \in Seq(Symbol) BY DEF Body, Symbol
  <2> QED BY <1>1, <2>1 DEF Texts
<1>3. id = Append(g, <<c>>) BY DEF Checked
<1> HIDE DEF c
<1>4. Len(id) = Len(g) + 1 /\ id[Len(g) + 1] = <<c>> /\ \A i \in 1..Len(g) : id[i] = g[i]
  BY <1>2, <1>3
<1>5. CheckPart(id) = <<c>> BY <1>4 DEF CheckPart
<1>6. BodyPart(id) = g
  <2>1. Len(id) - 1 = Len(g) /\ Len(g) \in Nat BY <1>4 DEF Texts
  <2>2. SubSeq(id, 1, Len(g)) \in Seq(Seq(Symbol)) /\ Len(SubSeq(id, 1, Len(g))) = Len(g)
        /\ \A i \in 1..Len(g) : SubSeq(id, 1, Len(g))[i] = id[i]
    BY <1>2, <1>4, <2>1, SubSeqProperties
  <2> QED BY <1>2, <1>4, <2>1, <2>2, SeqEqual DEF BodyPart
<1> QED BY <1>1, <1>4, <1>5, <1>6 DEF CheckGroup, CheckMatches, c

LEMMA Parcel14Text == ASSUME NEW u \in Parcel14 PROVE u \in Seq(Body)
BY DEF Parcel14

LEMMA ConcatType == \A s, t \in Seq(Body) : s \o t \in Seq(Body)
BY ConcatProperties

LEMMA PadBody ==
  /\ \A n \in 0..99 : Pad(n, 2) \in Seq(Body)
  /\ \A n \in 0..999 : Pad(n, 3) \in Seq(Body)
<1>1. ASSUME NEW n \in 0..99 PROVE Pad(n, 2) \in Seq(Body)
  <2> DEFINE a == n \div 10
             b == n % 10
  <2>1. a \in Body /\ b \in Body BY TwoDigits DEF Digit, Body
  <2>2. Pad(n, 2) = <<a, b>> BY TwoDigits
  <2> HIDE DEF a, b
  <2> QED BY <2>1, <2>2, PairIn
<1>2. ASSUME NEW n \in 0..999 PROVE Pad(n, 3) \in Seq(Body)
  <2> DEFINE a == n \div 100
             b == (n \div 10) % 10
             c == n % 10
  <2>1. a \in Digit /\ b \in Digit /\ c \in Digit BY ThreeDigits, ZenonT(60)
  <2>2. Pad(n, 3) = <<a, b, c>> BY ThreeDigits, ZenonT(60)
  <2> HIDE DEF a, b, c
  <2>3. a \in Body /\ b \in Body /\ c \in Body BY <2>1 DEF Digit, Body
  <2>4. <<a, b, c>> \in Seq(Body) BY <2>3
  <2> QED BY <2>2, <2>4
<1> QED BY <1>1, <1>2

LEMMA BuildingText ==
  ASSUME NEW n \in 0..99 PROVE << 11 >> \o Pad(n, 2) \in Seq(Body)
<1>1. << 11 >> \in Seq(Body) BY DEF Body
<1>2. Pad(n, 2) \in Seq(Body) BY PadBody
<1> QED BY <1>1, <1>2, ConcatType

LEMMA LevelText ==
  ASSUME NEW l \in Levels PROVE LevelCode3D(l) \in Seq(Body)
<1>1. l.n \in 0..99 /\ l.kind \in LevelKinds BY DEF Levels, LevelKinds
<1>2. LevelLetter[l.kind] \in Body BY <1>1, LevelLetters DEF Letter, Body
<1>3. <<LevelLetter[l.kind]>> \in Seq(Body) BY <1>2
<1>4. Pad(l.n, 2) \in Seq(Body) BY <1>1, PadBody
<1> QED BY <1>3, <1>4, ConcatType DEF LevelCode3D

LEMMA UnitText ==
  ASSUME NEW u \in Units PROVE Unit3DSlot(u) \in Seq(Body)
<1>1. u.n \in 0..999 /\ u.kind \in UnitKinds BY DEF Units
<1>2. Pad(u.n, 3) \in Seq(Body) BY <1>1, PadBody, ZenonT(60)
<1>3. UnitPrefix[u.kind] \in {<<>>, <<25, 20>>, <<12, 10>>} BY <1>1 DEF UnitKinds, UnitPrefix
<1>4. <<>> \in Seq(Body) /\ <<25, 20>> \in Seq(Body) /\ <<12, 10>> \in Seq(Body) BY DEF Body
<1>5. UnitPrefix[u.kind] \in Seq(Body) BY <1>3, <1>4
<1> QED BY <1>2, <1>5, ConcatType DEF Unit3DSlot

LEMMA NoneIsNoPart ==
  /\ \A n \in 0..99 : n # None
  /\ \A l \in Levels : l # None
  /\ \A u \in Units : u # None
<1>1. \A n \in 0..99 : n \in 0..999 OBVIOUS
<1> QED BY <1>1, NoneAssumption

\* Read, where each part it finds is one.
LEMMA ReadOne ==
  ASSUME NEW id, NEW p, NEW a, NEW b, NEW c, NEW d, ~AirShape(id),
         p = [ulpin14 |-> a, building |-> b, level |-> c, unit |-> d],
         id[1] = a,
         (IF Len(id) > 2 THEN {Value(Tail(id[2]))} ELSE {None}) = {b},
         (IF Len(id) > 3 THEN {l \in Parsed(id[3]) : l.kind # "airRights"} ELSE {None}) = {c},
         (IF Len(id) > 4 THEN ParsedUnit(id[4]) ELSE {None}) = {d}
  PROVE  Read(id) = {p}
<1>1. Read(id) = [ulpin14 : {a}, building : {b}, level : {c}, unit : {d}] BY DEF Read
<1> DEFINE R == [ulpin14 : {a}, building : {b}, level : {c}, unit : {d}]
<1>2. p \in R OBVIOUS
<1>3. \A r \in R : r = p OBVIOUS
<1> HIDE DEF R
<1>4. R = {p} BY <1>2, <1>3
<1> QED BY <1>1, <1>4 DEF R

\* What CheckedIs says of the groups, one by one.
LEMMA Groups ==
  ASSUME NEW g \in Texts, NEW id, id = Checked(g)
  PROVE  /\ Len(id) = Len(g) + 1 /\ CheckGroup(CheckPart(id)) /\ CheckMatches(id)
         /\ Len(g) >= 1 => id[1] = g[1]
         /\ Len(g) >= 2 => id[2] = g[2]
         /\ Len(g) >= 3 => id[3] = g[3]
         /\ Len(g) >= 4 => id[4] = g[4]
<1>1. Len(g) \in Nat BY DEF Texts
<1>2. \A i \in 1..Len(g) : id[i] = g[i] BY CheckedIs
<1>3. \A i \in 1..4 : Len(g) >= i => i \in 1..Len(g) BY <1>1
<1>4. \A i \in 1..4 : Len(g) >= i => id[i] = g[i] BY <1>2, <1>3, Zenon
<1> QED BY <1>4, CheckedIs

\* What is written is read back: decode3D(encode3D(p)) is p, for every entity.
THEOREM RoundTrip ==
  ASSUME NEW p \in Entities
  PROVE  Decode3D(Encode3D(p)) = {p}
<1> DEFINE g == Body3D(p)
           id == Encode3D(p)
<1>a. id = Checked(g) BY DEF Encode3D
<1>1. CASE /\ p.building = None /\ p.level = None /\ p.unit = None /\ p.ulpin14 \in Parcel14
           /\ p = [ulpin14 |-> p.ulpin14, building |-> None, level |-> None, unit |-> None]
  <2>1. g = <<p.ulpin14>> BY <1>1 DEF Body3D, IsAir
  <2>2. g \in Texts /\ Len(g) = 1 /\ g[1] = p.ulpin14 BY <1>1, <2>1, Parcel14Text DEF Texts
  <2> HIDE DEF g, id
  <2>g. /\ Len(id) = Len(g) + 1 /\ CheckGroup(CheckPart(id)) /\ CheckMatches(id)
        /\ Len(g) >= 1 => id[1] = g[1]
        /\ Len(g) >= 2 => id[2] = g[2]
        /\ Len(g) >= 3 => id[3] = g[3]
        /\ Len(g) >= 4 => id[4] = g[4]
    BY <1>a, <2>2, Groups, Zenon
  <2>3. Len(id) = 2 /\ id[1] = p.ulpin14 /\ CheckGroup(CheckPart(id)) /\ CheckMatches(id)
    BY <1>a, <2>2, <2>g
  <2>4. Shape3D(id) /\ ~AirShape(id) BY <1>1, <2>3 DEF Shape3D, AirShape
  <2>5. ~(Len(id) > 2) /\ ~(Len(id) > 3) /\ ~(Len(id) > 4) BY <2>3
  <2>6. Read(id) = {p}
    <3> DEFINE a == p.ulpin14
    <3>1. p = [ulpin14 |-> a, building |-> None, level |-> None, unit |-> None] BY <1>1
    <3>2. id[1] = a BY <2>3
    <3> HIDE DEF a
    <3> QED BY <3>1, <3>2, <2>4, <2>5, ReadOne
  <2> QED BY <2>3, <2>4, <2>6 DEF Decode3D, id
<1>2. CASE /\ p.building = None /\ p.level \in Levels /\ p.level.kind = "airRights"
           /\ p.unit = None /\ p.ulpin14 \in Parcel14
           /\ p = [ulpin14 |-> p.ulpin14, building |-> None, level |-> p.level, unit |-> None]
  <2>0. p.level # None BY <1>2, NoneIsNoPart
  <2>1. g = <<p.ulpin14, LevelCode3D(p.level)>> BY <1>2, <2>0 DEF Body3D, IsAir
  <2>2. g \in Texts /\ Len(g) = 2 /\ g[1] = p.ulpin14 /\ g[2] = LevelCode3D(p.level)
    BY <1>2, <2>1, Parcel14Text, LevelText, PairIn DEF Texts
  <2> HIDE DEF g, id
  <2>g. /\ Len(id) = Len(g) + 1 /\ CheckGroup(CheckPart(id)) /\ CheckMatches(id)
        /\ Len(g) >= 1 => id[1] = g[1]
        /\ Len(g) >= 2 => id[2] = g[2]
        /\ Len(g) >= 3 => id[3] = g[3]
        /\ Len(g) >= 4 => id[4] = g[4]
    BY <1>a, <2>2, Groups, Zenon
  <2>3. /\ Len(id) = 3 /\ id[1] = p.ulpin14 /\ id[2] = LevelCode3D(p.level)
        /\ CheckGroup(CheckPart(id)) /\ CheckMatches(id)
    BY <1>a, <2>2, <2>g
  <2>4. LevelGroup(id[2]) /\ Parsed(id[2]) = {p.level} /\ id[2][1] = 33
    BY <1>2, <2>3, LevelRead, LevelLetters DEF LevelKinds
  <2>5. AirShape(id) BY <1>2, <2>3, <2>4 DEF AirShape, CheckPart
  <2>6. Read(id) = {p}
    <3> DEFINE a == p.ulpin14
               c == p.level
    <3>1. Read(id) = [ulpin14 : {a}, building : {None}, level : {c}, unit : {None}]
      BY <2>3, <2>4, <2>5 DEF Read
    <3>2. p = [ulpin14 |-> a, building |-> None, level |-> c, unit |-> None] BY <1>2
    <3> HIDE DEF a, c
    <3> DEFINE R == [ulpin14 : {a}, building : {None}, level : {c}, unit : {None}]
    <3>3. p \in R BY <3>2
    <3>4. \A r \in R : r = p BY <3>2
    <3> HIDE DEF R
    <3>5. R = {p} BY <3>3, <3>4
    <3> QED BY <3>1, <3>5 DEF R
  <2> QED BY <2>3, <2>5, <2>6 DEF Decode3D, id
<1>3. CASE /\ p.building \in 0..99 /\ p.level = None
           /\ p.unit = None /\ p.ulpin14 \in Parcel14
           /\ p = [ulpin14 |-> p.ulpin14, building |-> p.building, level |-> None, unit |-> None]
  <2> DEFINE b == << 11 >> \o Pad(p.building, 2)
  <2>0. p.building # None BY <1>3, NoneIsNoPart
  <2>1. g = <<p.ulpin14, b>> BY <1>3, <2>0 DEF Body3D, IsAir
  <2>b. b \in Seq(Body) BY <1>3, BuildingText
  <2>2. g \in Texts /\ Len(g) = 2 /\ g[1] = p.ulpin14 /\ g[2] = b
    <3> HIDE DEF b
    <3> QED BY <1>3, <2>1, <2>b, Parcel14Text, PairIn DEF Texts
  <2>c. BuildingGroup(b) /\ Value(Tail(b)) = p.building BY <1>3, BuildingRead
  <2> HIDE DEF g, id, b
  <2>g. /\ Len(id) = Len(g) + 1 /\ CheckGroup(CheckPart(id)) /\ CheckMatches(id)
        /\ Len(g) >= 1 => id[1] = g[1]
        /\ Len(g) >= 2 => id[2] = g[2]
        /\ Len(g) >= 3 => id[3] = g[3]
        /\ Len(g) >= 4 => id[4] = g[4]
    BY <1>a, <2>2, Groups, Zenon
  <2>3. /\ Len(id) = 3 /\ id[1] = p.ulpin14 /\ id[2] = b
        /\ CheckGroup(CheckPart(id)) /\ CheckMatches(id)
    BY <1>a, <2>2, <2>g
  <2>4. ~AirShape(id) BY <2>c, <2>3 DEF AirShape, BuildingGroup
  <2>5. Shape3D(id) BY <1>3, <2>3, <2>c DEF Shape3D
  <2>6. Len(id) > 2 /\ ~(Len(id) > 3) /\ ~(Len(id) > 4) BY <2>3
  <2>7. Read(id) = {p}
    <3> DEFINE a == p.ulpin14
               n == p.building
    <3>1. p = [ulpin14 |-> a, building |-> n, level |-> None, unit |-> None] BY <1>3
    <3>2. id[1] = a /\ {Value(Tail(id[2]))} = {n} BY <2>3, <2>c
    <3> HIDE DEF a, n
    <3> QED BY <3>1, <3>2, <2>4, <2>6, ReadOne
  <2> QED BY <2>3, <2>5, <2>7 DEF Decode3D, id
<1>4. CASE /\ p.building \in 0..99 /\ p.level \in Levels /\ p.level.kind # "airRights"
           /\ p.unit \in Units \cup {None} /\ p.ulpin14 \in Parcel14
           /\ p = [ulpin14 |-> p.ulpin14, building |-> p.building, level |-> p.level,
                   unit |-> p.unit]
  <2> DEFINE b == << 11 >> \o Pad(p.building, 2)
             l == LevelCode3D(p.level)
             a == p.ulpin14
             n == p.building
             c == p.level
  <2>0. n # None /\ c # None BY <1>4, NoneIsNoPart
  <2>b. b \in Seq(Body) /\ l \in Seq(Body) /\ a \in Seq(Body)
    BY <1>4, BuildingText, LevelText, Parcel14Text
  <2>c. BuildingGroup(b) /\ Value(Tail(b)) = n BY <1>4, BuildingRead
  <2>d. LevelGroup(l) /\ Parsed(l) = {c} BY <1>4, LevelRead
  <2>e. {m \in {c} : m.kind # "airRights"} = {c} BY <1>4
  <2>1. CASE p.unit = None
    <3>1. g = <<a, b, l>> BY <1>4, <2>0, <2>1 DEF Body3D, IsAir
    <3>p. p = [ulpin14 |-> a, building |-> n, level |-> c, unit |-> None] BY <1>4, <2>1
    <3>2. g \in Texts /\ Len(g) = 3 /\ g[1] = a /\ g[2] = b /\ g[3] = l
      <4> HIDE DEF a, b, l
      <4> QED BY <3>1, <2>b, TripleIn DEF Texts
    <3>v. a \in Parcel14 BY <1>4
    <3> HIDE DEF g, id, a, b, l, n, c
    <3>g. /\ Len(id) = Len(g) + 1 /\ CheckGroup(CheckPart(id)) /\ CheckMatches(id)
          /\ Len(g) >= 1 => id[1] = g[1]
          /\ Len(g) >= 2 => id[2] = g[2]
          /\ Len(g) >= 3 => id[3] = g[3]
          /\ Len(g) >= 4 => id[4] = g[4]
      BY <1>a, <3>2, Groups, Zenon
    <3>3. /\ Len(id) = 4 /\ id[1] = a /\ id[2] = b /\ id[3] = l
          /\ CheckGroup(CheckPart(id)) /\ CheckMatches(id)
      BY <1>a, <3>2, <3>g
    <3>4. ~AirShape(id) /\ Shape3D(id) BY <3>v, <3>3, <2>c, <2>d DEF AirShape, Shape3D
    <3>5. Len(id) > 2 /\ Len(id) > 3 /\ ~(Len(id) > 4) BY <3>3
    <3>6. {Value(Tail(id[2]))} = {n} BY <3>3, <2>c
    <3>7. {m \in Parsed(id[3]) : m.kind # "airRights"} = {c} BY <3>3, <2>d, <2>e
    <3>8. Read(id) = {p} BY <3>p, <3>3, <3>4, <3>5, <3>6, <3>7, ReadOne
    <3> QED BY <3>3, <3>4, <3>8 DEF Decode3D, id
  <2>2. CASE p.unit # None
    <3> DEFINE d == p.unit
               u == Unit3DSlot(d)
    <3>0. d \in Units BY <1>4, <2>2
    <3>1. g = <<a, b, l, u>> BY <1>4, <2>0, <2>2 DEF Body3D, IsAir
    <3>u. u \in Seq(Body) /\ UnitGroup(u) /\ ParsedUnit(u) = {d}
      BY <3>0, UnitText, UnitRead
    <3>p. p = [ulpin14 |-> a, building |-> n, level |-> c, unit |-> d] BY <1>4
    <3>v. a \in Parcel14 BY <1>4
    <3>2. g \in Texts /\ Len(g) = 4 /\ g[1] = a /\ g[2] = b /\ g[3] = l /\ g[4] = u
      <4> HIDE DEF a, b, l, u
      <4> QED BY <3>1, <2>b, <3>u DEF Texts
    <3> HIDE DEF g, id, a, b, l, u, n, c, d
    <3>g. /\ Len(id) = Len(g) + 1 /\ CheckGroup(CheckPart(id)) /\ CheckMatches(id)
          /\ Len(g) >= 1 => id[1] = g[1]
          /\ Len(g) >= 2 => id[2] = g[2]
          /\ Len(g) >= 3 => id[3] = g[3]
          /\ Len(g) >= 4 => id[4] = g[4]
      BY <1>a, <3>2, Groups, Zenon
    <3>3. /\ Len(id) = 5 /\ id[1] = a /\ id[2] = b /\ id[3] = l /\ id[4] = u
          /\ CheckGroup(CheckPart(id)) /\ CheckMatches(id)
      BY <1>a, <3>2, <3>g
    <3>4. ~AirShape(id) /\ Shape3D(id)
      BY <3>v, <3>3, <2>c, <2>d, <3>u DEF AirShape, Shape3D
    <3>5. Len(id) > 2 /\ Len(id) > 3 /\ Len(id) > 4 BY <3>3
    <3>6. {Value(Tail(id[2]))} = {n} BY <3>3, <2>c
    <3>7. {m \in Parsed(id[3]) : m.kind # "airRights"} = {c} BY <3>3, <2>d, <2>e
    <3>8. ParsedUnit(id[4]) = {d} BY <3>3, <3>u
    <3>9. Read(id) = {p} BY <3>p, <3>3, <3>4, <3>5, <3>6, <3>7, <3>8, ReadOne
    <3> QED BY <3>3, <3>4, <3>9 DEF Decode3D, id
  <2> QED BY <2>1, <2>2
<1> QED BY <1>1, <1>2, <1>3, <1>4 DEF Entities

\* The SQL function writes the same text: ulpin3d_fmt(p) is encode3D(p), for every entity.
THEOREM FmtAgrees ==
  ASSUME NEW p \in Entities PROVE Ulpin3dFmt(p) = Encode3D(p)
<1>1. CASE p.building = None /\ p.level = None /\ p.unit = None
  BY <1>1 DEF Ulpin3dFmt, Encode3D, Body3D, IsAir
<1>2. CASE p.building = None /\ p.level \in Levels /\ p.level.kind = "airRights"
  <2>1. p.level # None BY <1>2, NoneIsNoPart
  <2>2. LevelCode3D(p.level) = SqlLevelCode(p.level) BY <1>2, LevelRead
  <2> QED BY <1>2, <2>1, <2>2 DEF Ulpin3dFmt, Encode3D, Body3D, IsAir
<1>3. CASE p.building \in 0..99 /\ p.level = None
  <2>1. p.building # None BY <1>3, NoneIsNoPart
  <2>2. << 11 >> \o Pad(p.building, 2) = << 11 >> \o Lpad(p.building, 2) BY <1>3, BuildingRead
  <2> QED BY <1>3, <2>1, <2>2 DEF Ulpin3dFmt, Encode3D, Body3D, IsAir
<1>4. CASE /\ p.building \in 0..99 /\ p.level \in Levels /\ p.level.kind # "airRights"
           /\ p.unit \in Units \cup {None}
  <2>1. p.building # None /\ p.level # None BY <1>4, NoneIsNoPart
  <2>2. << 11 >> \o Pad(p.building, 2) = << 11 >> \o Lpad(p.building, 2) BY <1>4, BuildingRead
  <2>3. LevelCode3D(p.level) = SqlLevelCode(p.level) BY <1>4, LevelRead
  <2>4. CASE p.unit = None
    BY <1>4, <2>1, <2>2, <2>3, <2>4 DEF Ulpin3dFmt, Encode3D, Body3D, IsAir
  <2>5. CASE p.unit # None
    <3>1. Unit3DSlot(p.unit) = UnitPrefix[p.unit.kind] \o Lpad(p.unit.n, 3)
      BY <1>4, <2>5, UnitRead
    <3> QED BY <1>4, <2>1, <2>2, <2>3, <2>5, <3>1 DEF Ulpin3dFmt, Encode3D, Body3D, IsAir
  <2> QED BY <2>4, <2>5
<1> QED BY <1>1, <1>2, <1>3, <1>4 DEF Entities

\* The identifier of the container is that of the entity without its last part.
THEOREM ParentIsContainer ==
  ASSUME NEW p \in Entities
  PROVE  Parent3D(Encode3D(p)) = {Encode3D(q) : q \in Contained(p)}
BY RoundTrip DEF Parent3D

-----------------------------------------------------------------------------
(* A misread identifier *)

LEMMA WrongLeft ==
  ASSUME NEW s \in Seq(Body), NEW t \in Seq(Body), NEW u \in Seq(Body), WrongOnce(s, t)
  PROVE  WrongOnce(u \o s, u \o t)
<1> DEFINE x == u \o s
           y == u \o t
           n == Len(u)
<1>1. /\ Len(x) = Len(u) + Len(s)
      /\ \A i \in 1..(Len(u) + Len(s)) : x[i] = IF i <= Len(u) THEN u[i] ELSE s[i - Len(u)]
      /\ Len(y) = Len(u) + Len(t)
      /\ \A i \in 1..(Len(u) + Len(t)) : y[i] = IF i <= Len(u) THEN u[i] ELSE t[i - Len(u)]
  BY ConcatProperties, Zenon
<1>2. PICK k \in 1..Len(s) : s[k] # t[k] /\ \A i \in 1..Len(s) : i # k => s[i] = t[i]
  BY DEF WrongOnce
<1>3. Len(s) = Len(t) /\ Len(s) \in Nat /\ Len(u) \in Nat BY DEF WrongOnce
<1> HIDE DEF x, y
<1>4. Len(x) = Len(y) /\ n + k \in 1..Len(x) BY <1>1, <1>3
<1>5. x[n + k] # y[n + k]
  <2>1. n + k \in 1..(Len(u) + Len(s)) /\ ~(n + k <= Len(u)) /\ n + k - Len(u) = k BY <1>3
  <2>2. x[n + k] = s[k] /\ y[n + k] = t[k] BY <2>1, <1>1, <1>3
  <2> QED BY <2>2, <1>2
<1>6. \A i \in 1..Len(x) : i # n + k => x[i] = y[i]
  <2> SUFFICES ASSUME NEW i \in 1..Len(x), i # n + k PROVE x[i] = y[i] OBVIOUS
  <2>1. CASE i <= n BY <2>1, <1>1, <1>3
  <2>2. CASE i > n
    <3>1. i - n \in 1..Len(s) /\ i - n # k BY <2>2, <1>1, <1>3
    <3>2. x[i] = s[i - n] /\ y[i] = t[i - n] BY <2>2, <1>1, <1>3
    <3> QED BY <3>1, <3>2, <1>2
  <2> QED BY <2>1, <2>2, <1>3
<1> HIDE DEF n
<1>7. WrongOnce(x, y) BY <1>4, <1>5, <1>6 DEF WrongOnce
<1> QED BY <1>7 DEF x, y

LEMMA WrongRight ==
  ASSUME NEW s \in Seq(Body), NEW t \in Seq(Body), NEW u \in Seq(Body), WrongOnce(s, t)
  PROVE  WrongOnce(s \o u, t \o u)
<1> DEFINE x == s \o u
           y == t \o u
<1>1. /\ Len(x) = Len(s) + Len(u)
      /\ \A i \in 1..(Len(s) + Len(u)) : x[i] = IF i <= Len(s) THEN s[i] ELSE u[i - Len(s)]
      /\ Len(y) = Len(t) + Len(u)
      /\ \A i \in 1..(Len(t) + Len(u)) : y[i] = IF i <= Len(t) THEN t[i] ELSE u[i - Len(t)]
  BY ConcatProperties, Zenon
<1>2. PICK k \in 1..Len(s) : s[k] # t[k] /\ \A i \in 1..Len(s) : i # k => s[i] = t[i]
  BY DEF WrongOnce
<1>3. Len(s) = Len(t) /\ Len(s) \in Nat /\ Len(u) \in Nat BY DEF WrongOnce
<1> HIDE DEF x, y
<1>4. Len(x) = Len(y) /\ k \in 1..Len(x) BY <1>1, <1>3
<1>5. x[k] # y[k] BY <1>1, <1>2, <1>3
<1>6. \A i \in 1..Len(x) : i # k => x[i] = y[i]
  <2> SUFFICES ASSUME NEW i \in 1..Len(x), i # k PROVE x[i] = y[i] OBVIOUS
  <2>1. CASE i <= Len(s) BY <2>1, <1>1, <1>2, <1>3
  <2>2. CASE i > Len(s) BY <2>2, <1>1, <1>3
  <2> QED BY <2>1, <2>2, <1>3
<1>7. WrongOnce(x, y) BY <1>4, <1>5, <1>6 DEF WrongOnce
<1> QED BY <1>7 DEF x, y

\* A wrong character of one group is one wrong character of the whole body.
LEMMA WrongJoined ==
  ASSUME NEW g \in Texts, NEW h \in Texts, Len(g) = Len(h), Len(g) \in 1..5,
         NEW i \in 1..Len(g), WrongOnce(g[i], h[i]),
         \A j \in 1..Len(g) : j # i => g[j] = h[j]
  PROVE  WrongOnce(NoSeparators(g), NoSeparators(h))
<1> DEFINE A(n) == IF n <= Len(g) THEN g[n] ELSE <<>>
           B(n) == IF n <= Len(h) THEN h[n] ELSE <<>>
           a1 == A(1)  a2 == A(2)  a3 == A(3)  a4 == A(4)  a5 == A(5)
           b1 == B(1)  b2 == B(2)  b3 == B(3)  b4 == B(4)  b5 == B(5)
<1>1. \A n \in 1..5 : A(n) \in Seq(Body) /\ B(n) \in Seq(Body) BY DEF Texts
<1>2. \A n \in 1..5 : n # i => A(n) = B(n) OBVIOUS
<1>3. i \in 1..5 /\ WrongOnce(A(i), B(i)) OBVIOUS
<1>t. /\ a1 \in Seq(Body) /\ a2 \in Seq(Body) /\ a3 \in Seq(Body) /\ a4 \in Seq(Body)
      /\ a5 \in Seq(Body) /\ b1 \in Seq(Body) /\ b2 \in Seq(Body) /\ b3 \in Seq(Body)
      /\ b4 \in Seq(Body) /\ b5 \in Seq(Body)
  BY <1>1
<1>4. \/ WrongOnce(a1, b1) /\ a2 = b2 /\ a3 = b3 /\ a4 = b4 /\ a5 = b5
      \/ WrongOnce(a2, b2) /\ a1 = b1 /\ a3 = b3 /\ a4 = b4 /\ a5 = b5
      \/ WrongOnce(a3, b3) /\ a1 = b1 /\ a2 = b2 /\ a4 = b4 /\ a5 = b5
      \/ WrongOnce(a4, b4) /\ a1 = b1 /\ a2 = b2 /\ a3 = b3 /\ a5 = b5
      \/ WrongOnce(a5, b5) /\ a1 = b1 /\ a2 = b2 /\ a3 = b3 /\ a4 = b4
  <2>1. i = 1 \/ i = 2 \/ i = 3 \/ i = 4 \/ i = 5 BY <1>3
  <2> HIDE DEF A, B
  <2> QED BY <2>1, <1>2, <1>3
<1>5. NoSeparators(g) = a1 \o a2 \o a3 \o a4 \o a5 /\ NoSeparators(h) = b1 \o b2 \o b3 \o b4 \o b5
  BY DEF NoSeparators
<1> HIDE DEF a1, a2, a3, a4, a5, b1, b2, b3, b4, b5
<1>6. /\ a1 \o a2 \in Seq(Body) /\ b1 \o b2 \in Seq(Body)
      /\ a1 \o a2 \o a3 \in Seq(Body) /\ b1 \o b2 \o b3 \in Seq(Body)
      /\ a1 \o a2 \o a3 \o a4 \in Seq(Body) /\ b1 \o b2 \o b3 \o b4 \in Seq(Body)
  BY <1>t, ConcatType
<1>7. CASE WrongOnce(a5, b5) /\ a1 = b1 /\ a2 = b2 /\ a3 = b3 /\ a4 = b4
  BY <1>7, <1>5, <1>6, <1>t, WrongLeft, ZenonT(60)
<1>8. CASE WrongOnce(a1 \o a2 \o a3 \o a4, b1 \o b2 \o b3 \o b4) /\ a5 = b5
  BY <1>8, <1>5, <1>6, <1>t, WrongRight
<1>9. CASE WrongOnce(a4, b4) /\ a1 = b1 /\ a2 = b2 /\ a3 = b3 /\ a5 = b5
  BY <1>9, <1>8, <1>6, <1>t, WrongLeft
<1>10. CASE WrongOnce(a1 \o a2 \o a3, b1 \o b2 \o b3) /\ a4 = b4 /\ a5 = b5
  BY <1>10, <1>8, <1>6, <1>t, WrongRight
<1>11. CASE WrongOnce(a3, b3) /\ a1 = b1 /\ a2 = b2 /\ a4 = b4 /\ a5 = b5
  BY <1>11, <1>10, <1>6, <1>t, WrongLeft
<1>12. CASE WrongOnce(a1 \o a2, b1 \o b2) /\ a3 = b3 /\ a4 = b4 /\ a5 = b5
  BY <1>12, <1>10, <1>6, <1>t, WrongRight
<1>13. CASE WrongOnce(a2, b2) /\ a1 = b1 /\ a3 = b3 /\ a4 = b4 /\ a5 = b5
  BY <1>13, <1>12, <1>6, <1>t, WrongLeft
<1>14. CASE WrongOnce(a1, b1) /\ a2 = b2 /\ a3 = b3 /\ a4 = b4 /\ a5 = b5
  BY <1>14, <1>12, <1>6, <1>t, WrongRight
<1> QED BY <1>4, <1>7, <1>9, <1>11, <1>13, <1>14

LEMMA SeqInto ==
  ASSUME NEW S, NEW T, NEW g \in Seq(S), \A i \in 1..Len(g) : g[i] \in T
  PROVE  g \in Seq(T)
<1>1. Len(g) \in Nat /\ g \in [1..Len(g) -> S] BY LenProperties
<1> DEFINE n == Len(g)
<1>2. g \in [1..n -> T] /\ n \in Nat BY <1>1
<1> HIDE DEF n
<1> QED BY <1>2, SeqDef

\* Before the check character no reader accepts a star.
LEMMA ThreeInBody ==
  ASSUME NEW g \in Seq(Symbol), Len(g) = 3, g[1] \in Body, Number(Tail(g), 2)
  PROVE  g \in Seq(Body)
<1> DEFINE t == Tail(g)
<1>0. t \in Seq(Digit) /\ Len(t) = 2 BY DEF Number
<1>1. g # <<>> OBVIOUS
<1>2. /\ Len(t) = Len(g) - 1
      /\ \A i \in 1..Len(t) : t[i] = g[i + 1]
  BY <1>1, HeadTailProperties, Zenon
<1> HIDE DEF t
<1>3. t[1] = g[2] /\ t[2] = g[3]
  <2>1. 1 \in 1..Len(t) /\ 2 \in 1..Len(t) /\ 1 + 1 = 2 /\ 2 + 1 = 3 BY <1>0
  <2> QED BY <2>1, <1>2
<1>4. t[1] \in Digit /\ t[2] \in Digit
  <2>1. 1 \in 1..Len(t) /\ 2 \in 1..Len(t) BY <1>0
  <2> QED BY <2>1, <1>0, ElementOfSeq, Zenon
<1>5. g[2] \in Body /\ g[3] \in Body BY <1>3, <1>4 DEF Digit, Body
<1>6. \A i \in 1..Len(g) : g[i] \in Body
  <2>1. \A i \in 1..Len(g) : i = 1 \/ i = 2 \/ i = 3 OBVIOUS
  <2> QED BY <2>1, <1>5
<1> QED BY <1>6, SeqInto

LEMMA UnitInBody ==
  ASSUME NEW g \in Seq(Symbol), UnitGroup(g) PROVE g \in Seq(Body)
<1> PICK k \in UnitKinds : LET w == Len(UnitPrefix[k]) IN
           /\ Len(g) = w + 3
           /\ SubSeq(g, 1, w) = UnitPrefix[k]
           /\ Number(SubSeq(g, w + 1, w + 3), 3)
  BY DEF UnitGroup
<1> DEFINE pre == UnitPrefix[k]
           w == Len(pre)
           a == SubSeq(g, 1, w)
           d == SubSeq(g, w + 1, w + 3)
<1>1. pre = <<>> \/ pre = <<25, 20>> \/ pre = <<12, 10>> BY DEF UnitKinds, UnitPrefix
<1>2. w \in Nat /\ \A i \in 1..w : pre[i] \in Body
  <2>1. <<>> \in Seq(Body) /\ <<25, 20>> \in Seq(Body) /\ <<12, 10>> \in Seq(Body) BY DEF Body
  <2> HIDE DEF pre
  <2>2. pre \in Seq(Body) BY <1>1, <2>1
  <2> QED BY <2>2
<1>3. Len(g) = w + 3 /\ a = pre /\ d \in Seq(Digit) /\ Len(d) = 3 BY DEF Number
<1> HIDE DEF pre, w
<1>4. \A i \in 1..w : a[i] = g[i] BY <1>2, <1>3, SubSeqProperties
<1>5. \A i \in 1..3 : d[i] = g[w + i] BY <1>2, <1>3, SubSeqProperties
<1>6. \A i \in 1..3 : d[i] \in Digit BY <1>3
<1> HIDE DEF a, d
<1>7. ASSUME NEW i \in 1..Len(g) PROVE g[i] \in Body
  <2>1. CASE i <= w BY <2>1, <1>2, <1>3, <1>4
  <2>2. CASE i > w
    <3>1. i - w \in 1..3 /\ w + (i - w) = i BY <2>2, <1>2, <1>3
    <3>2. g[i] = d[i - w] BY <3>1, <1>5
    <3>3. d[i - w] \in Digit BY <3>1, <1>6
    <3> QED BY <3>2, <3>3 DEF Digit, Body
  <2> QED BY <2>1, <2>2, <1>2
<1> QED BY <1>7

LEMMA GroupsInBody ==
  ASSUME NEW id \in Seq(Seq(Symbol)), AirShape(id) \/ Shape3D(id)
  PROVE  /\ Len(id) \in 2..5 /\ BodyPart(id) \in Texts /\ Len(BodyPart(id)) = Len(id) - 1
         /\ \A i \in 1..(Len(id) - 1) : BodyPart(id)[i] = id[i]
<1> DEFINE m == Len(id)
           n == m - 1
<1>1. /\ m \in 2..5 /\ id[1] \in Parcel14
      /\ m > 2 => BuildingGroup(id[2]) \/ LevelGroup(id[2])
      /\ m > 3 => LevelGroup(id[3])
      /\ m > 4 => UnitGroup(id[4])
  <2>1. CASE AirShape(id)
    <3>1. m = 3 /\ id[1] \in Parcel14 /\ LevelGroup(id[2]) BY <2>1 DEF AirShape
    <3> HIDE DEF m
    <3> QED BY <3>1
  <2>2. CASE Shape3D(id)
    <3>1. /\ m \in 2..5 /\ id[1] \in Parcel14
          /\ m > 2 => BuildingGroup(id[2])
          /\ m > 3 => LevelGroup(id[3])
          /\ m > 4 => UnitGroup(id[4])
      BY <2>2 DEF Shape3D
    <3> QED BY <3>1, Zenon
  <2> QED BY <2>1, <2>2
<1>2. \A i \in 1..m : id[i] \in Seq(Symbol) OBVIOUS
<1>3. ASSUME NEW g \in Seq(Symbol), BuildingGroup(g) \/ LevelGroup(g) PROVE g \in Seq(Body)
  <2>1. Len(g) = 3 /\ g[1] \in Body /\ Number(Tail(g), 2)
    BY <1>3 DEF BuildingGroup, LevelGroup, Letter, Body
  <2> QED BY <2>1, ThreeInBody
<1> HIDE DEF m
<1>4. ASSUME NEW i \in 1..n PROVE id[i] \in Seq(Body)
  <2>1. i = 1 \/ (i = 2 /\ m > 2) \/ (i = 3 /\ m > 3) \/ (i = 4 /\ m > 4) BY <1>1
  <2>2. id[i] \in Seq(Symbol) BY <1>1, <1>2
  <2>3. CASE i = 1 BY <2>3, <1>1, Parcel14Text
  <2>4. CASE i = 2 /\ m > 2 BY <2>2, <2>4, <1>1, <1>3
  <2>5. CASE i = 3 /\ m > 3 BY <2>2, <2>5, <1>1, <1>3
  <2>6. CASE i = 4 /\ m > 4 BY <2>2, <2>6, <1>1, UnitInBody
  <2> QED BY <2>1, <2>3, <2>4, <2>5, <2>6
<1>5. n \in 1..4 BY <1>1
<1> DEFINE h == SubSeq(id, 1, n)
<1> HIDE DEF n
<1>6. /\ h \in Seq(Seq(Body)) /\ Len(h) = (IF 1 <= n THEN n - 1 + 1 ELSE 0)
      /\ \A i \in 1..(n - 1 + 1) : h[i] = id[1 + i - 1]
  <2>1. 1 \in Int /\ n \in Int BY <1>5
  <2> QED BY <2>1, <1>4, SubSeqProperties
<1> HIDE DEF h
<1>7. Len(h) = n /\ \A i \in 1..n : h[i] = id[i] BY <1>5, <1>6
<1> QED BY <1>1, <1>6, <1>7 DEF BodyPart, Texts, h, n, m

\* An identifier that is accepted is refused as soon as one character of it is wrong,
\* wherever it stands, the check character included.
THEOREM MisreadRefused ==
  ASSUME NEW id \in Seq(Seq(Symbol)), NEW other \in Seq(Seq(Symbol)),
         Validate3D(id), Misread(id, other)
  PROVE  ~Validate3D(other)
<1> SUFFICES ASSUME Validate3D(other) PROVE FALSE OBVIOUS
<1> DEFINE g == BodyPart(id)
           h == BodyPart(other)
           n == Len(id)
<1>1. /\ AirShape(id) \/ Shape3D(id)
      /\ AirShape(other) \/ Shape3D(other)
      /\ CheckMatches(id) /\ CheckMatches(other)
  BY DEF Validate3D, Decode3D
<1>2. /\ n \in 2..5 /\ g \in Texts /\ Len(g) = n - 1
      /\ \A i \in 1..(n - 1) : g[i] = id[i]
  BY <1>1, GroupsInBody
<1>3. PICK i \in 1..n : WrongOnce(id[i], other[i]) /\ \A j \in 1..n : j # i => id[j] = other[j]
  BY DEF Misread
<1>4. /\ Len(other) = n /\ h \in Texts /\ Len(h) = n - 1
      /\ \A j \in 1..(n - 1) : h[j] = other[j]
  <2>1. Len(other) = n BY DEF Misread
  <2> QED BY <2>1, <1>1, GroupsInBody
<1>5. CheckPart(id) = id[n] /\ CheckPart(other) = other[n] BY <1>4 DEF CheckPart
<1>6. NoSeparators(g) \in Seq(Body) /\ NoSeparators(h) \in Seq(Body) BY <1>2, <1>4, JoinedType
<1>7. id[n][1] = CheckChar(NoSeparators(g)) /\ other[n][1] = CheckChar(NoSeparators(h))
  BY <1>1, <1>5 DEF CheckMatches
<1>8. Len(id[n]) = 1 /\ Len(other[n]) = 1
  BY <1>1, <1>4 DEF AirShape, Shape3D, CheckGroup, CheckPart
<1> HIDE DEF g, h, n
<1>9. CASE i < n
  <2>1. id[n] = other[n] BY <1>9, <1>2, <1>3
  <2>2. i \in 1..Len(g) /\ Len(g) \in 1..5 /\ Len(g) = Len(h) BY <1>9, <1>2, <1>4
  <2>3. WrongOnce(g[i], h[i]) BY <2>2, <1>2, <1>3, <1>4
  <2>4. \A j \in 1..Len(g) : j # i => g[j] = h[j]
    <3> SUFFICES ASSUME NEW j \in 1..Len(g), j # i PROVE g[j] = h[j] OBVIOUS
    <3>1. j \in 1..(n - 1) /\ j \in 1..n BY <1>2
    <3> QED BY <3>1, <1>2, <1>3, <1>4
  <2>5. WrongOnce(NoSeparators(g), NoSeparators(h)) BY <2>2, <2>3, <2>4, <1>2, <1>4, WrongJoined
  <2> DEFINE s == NoSeparators(g)
             t == NoSeparators(h)
  <2> HIDE DEF s, t
  <2>6. s \in Seq(Body) /\ t \in Seq(Body) /\ WrongOnce(s, t) BY <1>6, <2>5 DEF s, t
  <2>7. PICK k \in 1..Len(s) : s[k] # t[k] /\ \A j \in 1..Len(s) : j # k => s[j] = t[j]
    BY <2>6 DEF WrongOnce
  <2>8. CheckChar(s) # CheckChar(t) BY <2>6, <2>7, SubstitutionCaught DEF WrongOnce
  <2> QED BY <2>1, <2>8, <1>7 DEF s, t
<1>10. CASE i = n
  <2>1. WrongOnce(id[n], other[n]) BY <1>10, <1>3
  <2>2. id[n][1] # other[n][1] BY <2>1, <1>8 DEF WrongOnce
  <2>3. Len(g) = Len(h) /\ \A j \in 1..Len(g) : g[j] = h[j]
    <3>1. Len(g) = Len(h) BY <1>2, <1>4
    <3>2. ASSUME NEW j \in 1..Len(g) PROVE g[j] = h[j]
      <4>1. j \in 1..(n - 1) /\ j \in 1..n /\ j # i BY <1>2, <1>10
      <4> QED BY <4>1, <1>2, <1>3, <1>4
    <3> QED BY <3>1, <3>2
  <2>4. g = h BY <2>3, <1>2, <1>4, SeqEqual DEF Texts
  <2> QED BY <2>2, <2>4, <1>7
<1> QED BY <1>2, <1>9, <1>10
===============================================================================
