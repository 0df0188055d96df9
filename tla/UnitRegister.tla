---------------------------- MODULE UnitRegister ----------------------------
(***************************************************************************)
(* The units of one building in PostGIS, and their LADM projection:        *)
(* splitUnit (lib/db.ts), unit_split and ladm_backfill                     *)
(* (db/02_functions.sql), on the tables of db/01_schema.sql.               *)
(*                                                                         *)
(* A split is one POST, a backfill one call by an operator.  Both are      *)
(* volatile functions under READ COMMITTED, so each of their statements    *)
(* sees what had been committed when it began.  A step is one statement,   *)
(* or a run of statements that nothing else can tell apart.                *)
(*                                                                         *)
(* A volume is the flat it lies in and the pieces taken since: a split     *)
(* gives its rows a 1 and a 2 at the end of the path, and a 3 is what the  *)
(* cut leaves beside them, which no row gets.  The 3D identifier of a unit *)
(* is its floor and its printed slot.                                      *)
(***************************************************************************)
EXTENDS Naturals, SequencesExt

CONSTANTS FlatCount,   \* the seeded units have the ids 1..FlatCount
          FloorOf,     \* the floor of each of them
          SlotOf,      \* and its slot
          MaxSlot,     \* the largest slot that can be printed, 999
          Slivered,    \* the volumes whose cut gives two pieces and others of 1 m2 or less
          Uncut,       \* the volumes whose cut gives more or fewer than two larger pieces
          Splits,      \* POST .../unit/:id/split
          Backfills    \* calls of ladm_backfill

Flats == 1..FlatCount

ASSUME UnitAssumption ==
  /\ FlatCount \in Nat /\ MaxSlot \in Nat
  /\ SlotOf \in [Flats -> 1..MaxSlot]
  /\ DOMAIN FloorOf = Flats
  /\ \A u, v \in Flats : FloorOf[u] = FloorOf[v] /\ SlotOf[u] = SlotOf[v] => u = v

ASSUME CallAssumption == Splits \cap Backfills = {}

Floors == {FloorOf[u] : u \in Flats}

VARIABLES unit,     \* the committed rows, by id
          lineage,  \* ulpin_lineage: parent and child
          split,    \* each split: its statement, its unit, and what it read
          ladm,     \* the committed projection
          fill,     \* each backfill: its statement and the projection it builds
          clock     \* history: commits so far

vars == <<unit, lineage, split, ladm, fill, clock>>

\* The volumes of rows.
Volumes == [home : Flats, path : Seq({1, 2})]

Row == [floor : Floors, slot : Nat, status : {"active", "retired"}, volume : Volumes]

\* Spatial units, BA units, undivided shares, and the denominator of each share.
Projections == [su : SUBSET Nat, ba : SUBSET Nat, shares : SUBSET Nat, den : Nat]

NoProjection == [su |-> {}, ba |-> {}, shares |-> {}, den |-> 0]

SplitPhases == {"new", "asked", "checked", "numbered", "inserted",
                "ok", "not found", "failed"}

FillPhases == {"new", "spatial", "titled", "shared", "ok", "failed"}

TypeOK ==
  /\ \A u \in DOMAIN unit : u \in Nat /\ unit[u] \in Row
  /\ lineage \subseteq (DOMAIN unit) \X (DOMAIN unit)
  /\ \A t \in Splits :
       /\ split[t].pc \in SplitPhases
       /\ {split[t].unit, split[t].slot, split[t].id} \subseteq Nat
       /\ {split[t].seen, split[t].done} \subseteq 0..clock
  /\ ladm \in Projections
  /\ \A t \in Backfills : fill[t].pc \in FillPhases /\ fill[t].work \in Projections
  /\ clock \in Nat

\* `seen` and `done` are history: the clock when unit_split read the status, and
\* when it committed.
NewSplit == [pc |-> "new", unit |-> 0, slot |-> 0, id |-> 0, seen |-> 0, done |-> 0]

Init ==
  /\ unit = [u \in Flats |->
               [floor |-> FloorOf[u], slot |-> SlotOf[u], status |-> "active",
                volume |-> [home |-> u, path |-> <<>>]]]
  /\ lineage = {}
  /\ split = [t \in Splits |-> NewSplit]
  /\ ladm = NoProjection
  /\ fill = [t \in Backfills |-> [pc |-> "new", work |-> NoProjection]]
  /\ clock = 0

Largest(S) == CHOOSE n \in S : \A m \in S : m <= n

-----------------------------------------------------------------------------
(* A split *)

Goes(t, phase) == split' = [split EXCEPT ![t].pc = phase]

\* A split that fails leaves nothing: the transaction rolls back.
Ends(t, answer) == split' = [split EXCEPT ![t] = [NewSplit EXCEPT !.pc = answer]]

\* splitUnit looks for an active unit of that id first.
Ask(t, u) ==
  /\ split[t].pc = "new"
  /\ IF unit[u].status = "active"
       THEN split' = [split EXCEPT ![t].pc = "asked", ![t].unit = u]
       ELSE Ends(t, "not found")
  /\ UNCHANGED <<unit, lineage, ladm, fill, clock>>

\* Mutant of Check: the status is not read again.
CheckNothing(t) ==
  /\ split[t].pc = "asked"
  /\ split' = [split EXCEPT ![t].pc = "checked", ![t].seen = clock]
  /\ UNCHANGED <<unit, lineage, ladm, fill, clock>>

\* Of the pieces of the plan those of 1 m2 or less are dropped, then there have to be
\* two: the plan of a flat that is not convex may give others.
Bisected(volume) == volume \notin Uncut

\* unit_split reads the unit again, with no lock on the row, and cuts its plan.
Check(t) ==
  /\ split[t].pc = "asked"
  /\ IF unit[split[t].unit].status = "active" /\ Bisected(unit[split[t].unit].volume)
       THEN split' = [split EXCEPT ![t].pc = "checked", ![t].seen = clock]
       ELSE Ends(t, "failed")
  /\ UNCHANGED <<unit, lineage, ladm, fill, clock>>

\* lpad(n, 3, '0') cuts a longer number to its first digits.
Printed(n) == IF n <= MaxSlot THEN n ELSE n \div 10

\* The slots in use on the floor, retired units included, give the next ordinal;
\* a statement later the ids in use give the next id.
ReadSlot(t) ==
  /\ split[t].pc = "checked"
  /\ split[t].slot = 0
  /\ split' = [split EXCEPT ![t].slot =
       1 + Largest({unit[u].slot : u \in {v \in DOMAIN unit :
                      unit[v].floor = unit[split[t].unit].floor}})]
  /\ UNCHANGED <<unit, lineage, ladm, fill, clock>>

ReadId(t) ==
  /\ split[t].pc = "checked"
  /\ split[t].slot > 0
  /\ split' = [split EXCEPT ![t].pc = "numbered",
                            ![t].id = 1 + Largest(DOMAIN unit)]
  /\ UNCHANGED <<unit, lineage, ladm, fill, clock>>

\* Mutant of Child: both rows get the first piece.
ChildTwice(t, half) ==
  LET parent == unit[split[t].unit] IN
    [floor   |-> parent.floor,
     slot    |-> Printed(split[t].slot + half - 1),
     status  |-> "active",
     volume  |-> [parent.volume EXCEPT !.path = Append(@, 1)]]

\* The two rows a split inserts, one for each of the two larger pieces.
Child(t, half) ==
  LET parent == unit[split[t].unit] IN
    [floor   |-> parent.floor,
     slot    |-> Printed(split[t].slot + half - 1),
     status  |-> "active",
     volume  |-> [parent.volume EXCEPT !.path = Append(@, half)]]

Children(t) ==
  [u \in {split[t].id, split[t].id + 1} |-> Child(t, 1 + u - split[t].id)]

SameIdentifier(a, b) == a.floor = b.floor /\ a.slot = b.slot

\* Mutant of Unique: no constraint on ulpin3d, only the primary key.
UniqueIds(t) == DOMAIN Children(t) \cap DOMAIN unit = {}

\* The primary key and UNIQUE (ulpin3d), against the committed rows and each other.
Unique(t) ==
  /\ DOMAIN Children(t) \cap DOMAIN unit = {}
  /\ ~SameIdentifier(Child(t, 1), Child(t, 2))
  /\ \A u \in DOMAIN unit, half \in {1, 2} : ~SameIdentifier(unit[u], Child(t, half))

\* Mutant of Waits: it waits already for a transaction that is about to insert.
WaitsEarly(t) ==
  \E s \in Splits \ {t} :
    /\ split[s].pc \in {"numbered", "inserted"}
    /\ DOMAIN Children(s) \cap DOMAIN Children(t) # {}

\* An insert waits for a transaction that has inserted a row with an equal key.
Waits(t) ==
  \E s \in Splits \ {t} :
    /\ split[s].pc = "inserted"
    /\ \/ DOMAIN Children(s) \cap DOMAIN Children(t) # {}
       \/ \E a, b \in {1, 2} : SameIdentifier(Child(s, a), Child(t, b))

\* The second insert of a split cannot wait: whoever holds its key holds the
\* first one's too.  A violated constraint rolls everything back.
Insert(t) ==
  /\ split[t].pc = "numbered"
  /\ ~Waits(t)
  /\ IF Unique(t) THEN Goes(t, "inserted") ELSE Ends(t, "failed")
  /\ UNCHANGED <<unit, lineage, ladm, fill, clock>>

\* The rows with the children added and the parent marked.
After(t, status) ==
  [u \in DOMAIN unit \cup DOMAIN Children(t) |->
     IF u = split[t].unit THEN [unit[u] EXCEPT !.status = status]
     ELSE IF u \in DOMAIN unit THEN unit[u] ELSE Children(t)[u]]

Ended(t) ==
  /\ clock' = clock + 1
  /\ split' = [split EXCEPT ![t].pc = "ok", ![t].done = clock + 1]

CommitSplit(t) ==
  /\ split[t].pc = "inserted"
  /\ unit' = After(t, "retired")
  /\ lineage' = lineage \cup {split[t].unit} \X (DOMAIN Children(t))
  /\ Ended(t)
  /\ UNCHANGED <<ladm, fill>>

\* The connection or the server is lost: everything rolls back.
Abort(t) ==
  /\ split[t].pc \in {"asked", "checked", "numbered", "inserted"}
  /\ Ends(t, "failed")
  /\ UNCHANGED <<unit, lineage, ladm, fill, clock>>

-----------------------------------------------------------------------------
(* A backfill *)

\* The old projection is deleted and the spatial units are inserted.  A backfill
\* that overlaps another fails on the keys they share, so only one runs.
BeginFill(t) ==
  /\ fill[t].pc = "new"
  /\ \A s \in Backfills : fill[s].pc \notin {"spatial", "titled", "shared"}
  /\ fill' = [fill EXCEPT ![t] =
       [pc |-> "spatial", work |-> [NoProjection EXCEPT !.su = DOMAIN unit]]]
  /\ UNCHANGED <<unit, lineage, split, ladm, clock>>

\* A BA unit for every titled unit, retired ones included.
InsertTitles(t) ==
  /\ fill[t].pc = "spatial"
  /\ fill' = [fill EXCEPT ![t].pc = "titled", ![t].work.ba = DOMAIN unit]
  /\ UNCHANGED <<unit, lineage, split, ladm, clock>>

\* Mutant of InsertShares: only active units are counted.
InsertSharesActive(t) ==
  /\ fill[t].pc = "titled"
  /\ IF fill[t].work.ba \subseteq fill[t].work.su
       THEN fill' = [fill EXCEPT ![t].pc = "shared",
                                 ![t].work.shares = fill[t].work.ba,
                                 ![t].work.den = Cardinality({u \in DOMAIN unit :
                                                     unit[u].status = "active"})]
       ELSE fill' = [fill EXCEPT ![t].pc = "failed"]
  /\ UNCHANGED <<unit, lineage, split, ladm, clock>>

\* The principal members refer to spatial units, and the backfill fails when one
\* is missing.  Then each BA unit gets its share of the ground, one of as many as
\* there are titled units now.
InsertShares(t) ==
  /\ fill[t].pc = "titled"
  /\ IF fill[t].work.ba \subseteq fill[t].work.su
       THEN fill' = [fill EXCEPT ![t].pc = "shared",
                                 ![t].work.shares = fill[t].work.ba,
                                 ![t].work.den = Cardinality(DOMAIN unit)]
       ELSE fill' = [fill EXCEPT ![t].pc = "failed"]
  /\ UNCHANGED <<unit, lineage, split, ladm, clock>>

CommitFill(t) ==
  /\ fill[t].pc = "shared"
  /\ ladm' = fill[t].work
  /\ fill' = [fill EXCEPT ![t].pc = "ok"]
  /\ UNCHANGED <<unit, lineage, split, clock>>

SplitStep(t) ==
  \/ Check(t)
  \/ ReadSlot(t)
  \/ ReadId(t)
  \/ Insert(t)
  \/ CommitSplit(t)

FillStep(t) == InsertTitles(t) \/ InsertShares(t) \/ CommitFill(t)

Next ==
  \/ \E t \in Splits : SplitStep(t) \/ Abort(t) \/ \E u \in DOMAIN unit : Ask(t, u)
  \/ \E t \in Backfills : BeginFill(t) \/ FillStep(t)

Spec == Init /\ [][Next]_vars

\* The server runs the next statement of a transaction that does not wait.
FairSpec == Spec /\ \A t \in Splits : WF_vars(SplitStep(t))

-----------------------------------------------------------------------------
(* Properties *)

Active == {u \in DOMAIN unit : unit[u].status = "active"}

Inside(a, b) == a.home = b.home /\ IsPrefix(b.path, a.path)

\* Both splits read the unit's status before either retired it.
Raced(s, t) ==
  /\ s # t
  /\ split[s].pc = "ok" /\ split[t].pc = "ok"
  /\ split[s].unit = split[t].unit
  /\ split[s].seen < split[t].done /\ split[t].seen < split[s].done

\* Two active units share a piece of the building only when two splits of a unit
\* they both come from raced: no other order of splits, failures and re-splits
\* gives the same space to two holders.
OverlapOnlyByRace ==
  \A u, v \in Active :
    u # v /\ Inside(unit[u].volume, unit[v].volume) =>
      \E s, t \in Splits :
        /\ Raced(s, t)
        /\ Inside(unit[v].volume, unit[split[s].unit].volume)

\* What the cut of a volume leaves beside the two pieces.
Slivers(volume) == [volume EXCEPT !.path = Append(@, 3)]

\* There are slivers where a cut leaves some.
Exists(volume) ==
  \A i \in DOMAIN volume.path : volume.path[i] = 3 =>
    [volume EXCEPT !.path = SubSeq(@, 1, i - 1)] \in Slivered

\* However finely the commits so far can have divided a flat, each piece of it lies in
\* an active unit, or in the slivers that a committed split of a unit has dropped: a
\* split that fails, and one that races another, loses nothing.
SpaceLostOnlyInSlivers ==
  \A f \in Flats, p \in [1..clock -> {1, 2, 3}] :
    LET piece == [home |-> f, path |-> p] IN
      Exists(piece) =>
        \/ \E u \in Active : Inside(piece, unit[u].volume)
        \/ \E t \in Splits :
             /\ split[t].pc = "ok" /\ unit[split[t].unit].volume \in Slivered
             /\ Inside(piece, Slivers(unit[split[t].unit].volume))

\* An identifier once committed names the same space for ever, whatever splits
\* overlap: its row keeps it, retired or not, and no other row takes it.
IdentifiersNeverReused ==
  [][\A u \in DOMAIN unit :
       /\ u \in DOMAIN unit'
       /\ unit'[u].volume = unit[u].volume
       /\ \A v \in DOMAIN unit' : SameIdentifier(unit'[v], unit[u]) <=> u = v]_vars

\* The undivided shares of a building's ground never exceed the whole, whichever
\* splits commit between the statements of the backfill.
SharesNeverOversold == Cardinality(ladm.shares) <= ladm.den

\* Every split that found its unit is answered: splits that wait for each
\* other's keys do not wait for ever.
EverySplitAnswered ==
  \A t \in Splits : split[t].pc = "asked" ~> split[t].pc \in {"ok", "failed"}

\* "unit_split: unit % not found or already retired": a retired unit is not split
\* again.
SplitOnce ==
  \A s, t \in Splits :
    split[s].pc = "ok" /\ split[t].pc = "ok" /\ split[s].unit = split[t].unit => s = t

\* "the shares of one building's flats sum to exactly 1".
SharesSumToOne == ladm.shares # {} => Cardinality(ladm.shares) = ladm.den
=============================================================================
