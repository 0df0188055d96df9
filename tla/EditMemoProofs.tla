---------------------------- MODULE EditMemoProofs ----------------------------
(***************************************************************************)
(* What may be memoised of a project's edits, for any requests, readers,   *)
(* buildings and fields.                                                   *)
(*                                                                         *)
(* The argument: a revision begins settled, and once a save has taken      *)
(* effect under it, it is not settled again before the next revision.  So  *)
(* whatever was copied under the present revision is what is visible now,  *)
(* if that is settled.                                                     *)
(***************************************************************************)
EXTENDS EditMemo, TLAPS

Phases == {"idle", "copy", "fill", "loaded", "serve", "compress", "lookup"}

ReaderStates == [pc : Phases, kind : Kinds \cup WarmKinds, body : Stores, rev : Nat, copied : Nat]

MemoTyped ==
  /\ TypeOK
  /\ memo \in [rev : Nat, body : Stores, copied : Nat] \cup {None}
  /\ payload \in [Kinds -> [rev : Nat, body : Stores, spanned : BOOLEAN] \cup {None}]
  /\ reader \in [Readers -> ReaderStates]
  /\ shelf \in [rev : Nat, body : Stores] \cup {None}
  /\ warming \in BOOLEAN /\ dirty \in BOOLEAN

\* A body copied, at the earliest, under the revision `at` of this process.
Fresh(body, at) == at <= rev /\ (Settled /\ at = rev => body = visible)

\* The phases in which a reader holds a body, and a revision.
Holding == {"fill", "loaded", "serve", "compress"}

ReaderSound(c) ==
  /\ reader[c].pc \in Holding => Fresh(reader[c].body, reader[c].copied)
  /\ reader[c].pc = "copy" => reader[c].rev <= rev
  /\ reader[c].pc = "fill" => reader[c].rev <= reader[c].copied
  /\ reader[c].pc \in {"serve", "compress"} =>
       reader[c].copied <= reader[c].rev /\ reader[c].rev <= rev
  /\ reader[c].pc \in {"loaded", "serve", "compress"} => reader[c].kind \in Kinds

MemoSound == memo # None => Fresh(memo.body, memo.copied)

PayloadSound(k) ==
  payload[k] # None => payload[k].spanned \/ Fresh(payload[k].body, payload[k].rev)

ShelfSound == shelf # None => Fresh(shelf.body, shelf.rev)

MemoInv ==
  /\ MemoTyped
  /\ \A c \in Readers : ReaderSound(c)
  /\ MemoSound
  /\ \A k \in Kinds : PayloadSound(k)
  /\ ShelfSound

-----------------------------------------------------------------------------
(* Types *)

LEMMA AppliedTyped ==
  ASSUME NEW store \in Stores, NEW r \in Requests, NEW o \in Ops
  PROVE  Applied(store, r, o) \in Stores
<1>1. o.building \in Buildings
  BY DEF Ops
<1>2. store[o.building] \in EditRecord
  BY <1>1 DEF Stores
<1>3. Merged(store[o.building], r, o.fields) \in EditRecord
  BY <1>2 DEF Merged, EditRecord, Values
<1>4. NoRecord \in EditRecord
  BY DEF NoRecord, EditRecord, Values
<1>5. QED
  BY <1>1, <1>3, <1>4 DEF Applied, Stores

LEMMA ConstantsTyped == EmptyStore \in Stores /\ NoOp \in Ops /\ IdleReader \in ReaderStates
<1>1. EmptyStore \in Stores
  BY DEF EmptyStore, Stores, NoRecord, EditRecord, Values
<1>2. NoOp \in Ops
  BY BuildingAssumption DEF NoOp, Ops
<1>3. IdleReader \in ReaderStates
  BY <1>1 DEF IdleReader, ReaderStates, Phases, Kinds
<1>4. QED
  BY <1>1, <1>2, <1>3

-----------------------------------------------------------------------------
(* The edit side *)

\* Within a revision what is settled is a beginning, and it does not change.
Advances ==
  /\ rev \in Nat /\ rev' \in Nat /\ rev <= rev'
  /\ Settled' /\ rev' = rev => Settled /\ visible' = visible

LEMMA FreshKept ==
  ASSUME Advances, NEW body, NEW at \in Nat, Fresh(body, at)
  PROVE  at <= rev' /\ (Settled' /\ at = rev' => body = visible')
BY DEF Advances, Fresh

\* A step that changes no memo and no reader.
LEMMA MemosKept ==
  ASSUME MemoInv, MemoTyped', Advances, UNCHANGED <<memo, payload, reader, shelf>>
  PROVE  MemoInv'
<1>1. ASSUME NEW c \in Readers PROVE ReaderSound(c)'
  <2>1. /\ reader[c] \in ReaderStates /\ reader[c].copied \in Nat /\ reader[c].rev \in Nat
        /\ reader[c].pc \in Phases /\ ReaderSound(c)
        /\ rev \in Nat /\ rev' \in Nat /\ rev <= rev' /\ reader' = reader
    BY DEF MemoInv, MemoTyped, ReaderStates, Advances
  <2>2. reader[c].pc \in Holding => Fresh(reader[c].body, reader[c].copied)'
    BY <2>1, FreshKept DEF ReaderSound, Fresh
  <2>3. QED
    BY <2>1, <2>2 DEF ReaderSound
<1>2. MemoSound'
  BY FreshKept DEF MemoInv, MemoTyped, MemoSound, Fresh
<1>3. \A k \in Kinds : PayloadSound(k)'
  BY FreshKept DEF MemoInv, MemoTyped, PayloadSound, Fresh
<1>4. ShelfSound'
  BY FreshKept DEF MemoInv, MemoTyped, ShelfSound, Fresh
<1>5. QED
  BY <1>1, <1>2, <1>3, <1>4 DEF MemoInv

LEMMA PatchSound ==
  ASSUME MemoInv, NEW r \in Requests, Patch(r)
  PROVE  MemoInv'
<1>1. PICK b \in Buildings : Submit(r, [kind |-> "apply", building |-> b, fields |-> Fields])
  BY DEF Patch
<1>2. [kind |-> "apply", building |-> b, fields |-> Fields] \in Ops
  BY DEF Ops
<1>3. UNCHANGED <<visible, stored, rev, memo, payload, reader, shelf, warming, dirty>>
  BY <1>1 DEF Patch, Submit, memoVars
<1>4. MemoTyped'
  BY <1>1, <1>2, <1>3 DEF Submit, MemoInv, MemoTyped, TypeOK, Status
<1>5. Busy' = Busy
  BY <1>1 DEF Submit, Busy, MemoInv, MemoTyped, TypeOK
<1>6. Advances
  BY <1>3, <1>5 DEF Advances, Settled, MemoInv, MemoTyped, TypeOK
<1>7. QED
  BY <1>3, <1>4, <1>6, MemosKept

LEMMA SaveStepSound ==
  ASSUME MemoInv, NEW r \in Requests, SaveStep(r)
  PROVE  MemoInv'
<1>1. UNCHANGED <<rev, memo, payload, reader, shelf, warming, dirty, asked>>
  BY DEF SaveStep, TakeEffect, Store, memoVars
<1>2. visible \in Stores /\ asked[r] \in Ops /\ status \in [Requests -> Status]
  BY DEF MemoInv, MemoTyped, TypeOK
<1>3. visible' \in Stores /\ (stored' = stored \/ stored' = visible)
  BY <1>2, AppliedTyped DEF SaveStep, TakeEffect, Store
<1>4. status' \in [Requests -> Status] /\ status'[r] \in {"taken", "stored"}
  BY <1>2 DEF SaveStep, TakeEffect, Store, Status
<1>5. MemoTyped'
  BY <1>1, <1>2, <1>3, <1>4 DEF MemoInv, MemoTyped, TypeOK
<1>6. Busy'
  BY <1>4 DEF Busy
<1>7. Advances
  BY <1>1, <1>6 DEF Advances, Settled, MemoInv, MemoTyped, TypeOK
<1>8. QED
  BY <1>1, <1>5, <1>7, MemosKept

LEMMA SaveEndsSound ==
  ASSUME MemoInv, NEW r \in Requests, Saved(r) \/ Refused(r)
  PROVE  MemoInv'
<1>1. UNCHANGED <<visible, stored, memo, payload, reader, shelf, warming, asked>>
  BY DEF Saved, Refused, Acknowledge, Reject, memoVars
<1>2. status' \in [Requests -> Status]
  BY DEF Saved, Refused, Acknowledge, Reject, Status, MemoInv, MemoTyped, TypeOK
<1>3. rev \in Nat
  BY DEF MemoInv, MemoTyped, TypeOK
<1>4. \/ rev' = rev + 1 /\ dirty' = FALSE
      \/ rev' = rev /\ dirty' = TRUE
  BY DEF Saved, Refused, Acknowledge, Reject
<1>5. Advances /\ rev' \in Nat /\ dirty' \in BOOLEAN
  <2>1. CASE rev' = rev + 1 /\ dirty' = FALSE
    <3>1. rev' \in Nat /\ rev <= rev' /\ rev' # rev
      BY <1>3, <2>1
    <3>2. dirty' \in BOOLEAN
      BY <2>1, Zenon
    <3>3. QED
      BY <1>3, <3>1, <3>2 DEF Advances
  <2>2. CASE rev' = rev /\ dirty' = TRUE
    <3>1. ~Settled'
      BY <2>2 DEF Settled
    <3>2. rev' \in Nat /\ rev <= rev'
      BY <1>3, <2>2
    <3>3. dirty' \in BOOLEAN
      BY <2>2, Zenon
    <3>4. QED
      BY <1>3, <3>1, <3>2, <3>3 DEF Advances
  <2>3. QED
    BY <1>4, <2>1, <2>2
<1>6. MemoTyped'
  BY <1>1, <1>2, <1>5 DEF MemoInv, MemoTyped, TypeOK
<1>7. QED
  BY <1>1, <1>5, <1>6, MemosKept

\* With the process go its memos, its readers and the revision they are stamped with.
LEMMA NewProcessSound ==
  ASSUME MemoInv, NewProcess
  PROVE  MemoInv'
<1>1. /\ visible' = stored /\ stored' = stored /\ asked' = asked /\ rev' = 0
      /\ memo' = None /\ payload' = [k \in Kinds |-> None] /\ shelf' = None
      /\ reader' = [c \in Readers |-> IdleReader] /\ warming' = FALSE /\ dirty' = FALSE
  BY DEF NewProcess, Restart
<1>2. status' \in [Requests -> Status]
  BY DEF NewProcess, Restart, Status, MemoInv, MemoTyped, TypeOK
<1>3. MemoTyped'
  BY <1>1, <1>2, ConstantsTyped DEF MemoInv, MemoTyped, TypeOK
<1>4. \A c \in Readers : ReaderSound(c)'
  BY <1>1 DEF ReaderSound, IdleReader, Holding
<1>5. QED
  BY <1>1, <1>3, <1>4 DEF MemoInv, MemoSound, PayloadSound, ShelfSound

-----------------------------------------------------------------------------
(* Readers.  None of their steps changes the edits. *)

LEMMA EditsKept ==
  ASSUME MemoInv, UNCHANGED <<vars, dirty>>
  PROVE  /\ TypeOK' /\ dirty' \in BOOLEAN /\ Advances /\ rev' = rev /\ rev \in Nat
         /\ visible' = visible /\ visible \in Stores /\ (Settled <=> Settled')
<1>1. UNCHANGED <<visible, stored, rev, status, asked>>
  BY DEF vars
<1>2. Settled' = Settled
  BY <1>1 DEF Settled, Busy
<1>3. QED
  BY <1>1, <1>2 DEF MemoInv, MemoTyped, TypeOK, Advances

\* A step of one reader, after which what it filled, if anything, is sound.
LEMMA OneReader ==
  ASSUME MemoInv, NEW c \in Readers, NEW x \in ReaderStates, reader' = [reader EXCEPT ![c] = x],
         UNCHANGED <<vars, dirty>>, ReaderSound(c)',
         memo' = memo \/ (memo' \in [rev : Nat, body : Stores, copied : Nat] /\ MemoSound'),
         payload' \in [Kinds -> [rev : Nat, body : Stores, spanned : BOOLEAN] \cup {None}],
         \A k \in Kinds : payload'[k] = payload[k] \/ PayloadSound(k)',
         shelf' = shelf \/ (shelf' \in [rev : Nat, body : Stores] /\ ShelfSound'),
         warming' \in BOOLEAN
  PROVE  MemoInv'
<1>1. TypeOK' /\ dirty' \in BOOLEAN /\ rev' = rev /\ visible' = visible /\ (Settled <=> Settled')
  BY EditsKept
<1>2. MemoTyped'
  BY <1>1 DEF MemoInv, MemoTyped
<1>3. ASSUME NEW d \in Readers, d # c PROVE ReaderSound(d)'
  <2>1. reader'[d] = reader[d]
    BY <1>3 DEF MemoInv, MemoTyped
  <2>2. QED
    BY <1>1, <2>1 DEF MemoInv, ReaderSound, Fresh
<1>4. MemoSound'
  BY <1>1 DEF MemoInv, MemoSound, Fresh
<1>5. \A k \in Kinds : PayloadSound(k)'
  BY <1>1 DEF MemoInv, PayloadSound, Fresh
<1>6. ShelfSound'
  BY <1>1 DEF MemoInv, ShelfSound, Fresh
<1>7. QED
  BY <1>2, <1>3, <1>4, <1>5, <1>6 DEF MemoInv

LEMMA ReaderTyped ==
  ASSUME MemoInv, NEW c \in Readers
  PROVE  /\ reader[c] \in ReaderStates /\ reader[c].pc \in Phases
         /\ reader[c].kind \in Kinds \cup WarmKinds /\ reader[c].body \in Stores
         /\ reader[c].rev \in Nat /\ reader[c].copied \in Nat /\ ReaderSound(c)
BY DEF MemoInv, MemoTyped, ReaderStates

\* Where the memos are left alone too.
LEMMA ReaderAlone ==
  ASSUME MemoInv, NEW c \in Readers, NEW x \in ReaderStates, reader' = [reader EXCEPT ![c] = x],
         UNCHANGED <<vars, dirty, memo, payload, shelf>>, warming' \in BOOLEAN, ReaderSound(c)'
  PROVE  MemoInv'
<1>1. payload' \in [Kinds -> [rev : Nat, body : Stores, spanned : BOOLEAN] \cup {None}]
  BY DEF MemoInv, MemoTyped
<1>2. QED
  BY <1>1, OneReader

\* A reader that holds nothing yet, or nothing any more.
LEMMA RestingSound ==
  ASSUME NEW c \in Readers, reader'[c].pc \in {"idle", "lookup"}
  PROVE  ReaderSound(c)'
BY DEF ReaderSound, Holding

LEMMA StartSound ==
  ASSUME MemoInv, NEW c \in Readers,
         StartFromMemo(c) \/ (\E k \in Kinds : StartFetch(c, k)) \/ StartWarm(c)
  PROVE  MemoInv'
<1>1. CASE StartFromMemo(c)
  <2> DEFINE x == [IdleReader EXCEPT !.pc = "loaded", !.kind = "collection",
                                     !.body = memo.body, !.copied = memo.copied]
  <2>1. memo \in [rev : Nat, body : Stores, copied : Nat] /\ Fresh(memo.body, memo.copied)
    BY <1>1 DEF StartFromMemo, Hit, MemoInv, MemoTyped, MemoSound
  <2>2. x \in ReaderStates /\ x.pc = "loaded" /\ x.kind = "collection"
        /\ x.body = memo.body /\ x.copied = memo.copied
    BY <2>1, ConstantsTyped DEF IdleReader, ReaderStates, Phases, Kinds
  <2>3. /\ reader' = [reader EXCEPT ![c] = x] /\ reader'[c] = x
        /\ UNCHANGED <<vars, dirty, memo, payload, shelf>> /\ warming' = warming
    BY <1>1 DEF StartFromMemo, MemoInv, MemoTyped
  <2> HIDE DEF x
  <2>4. ReaderSound(c)'
    BY <2>1, <2>2, <2>3, EditsKept DEF ReaderSound, Fresh, Holding, Kinds
  <2>5. QED
    BY <2>2, <2>3, <2>4, ReaderAlone DEF MemoInv, MemoTyped
<1>2. CASE \E k \in Kinds : StartFetch(c, k)
  <2>1. PICK k \in Kinds : StartFetch(c, k)
    BY <1>2
  <2> DEFINE x == [IdleReader EXCEPT !.pc = "copy", !.kind = k]
  <2>2. x \in ReaderStates /\ x.pc = "copy" /\ x.rev = 0
    BY ConstantsTyped DEF IdleReader, ReaderStates, Phases
  <2>3. /\ reader' = [reader EXCEPT ![c] = x] /\ reader'[c] = x
        /\ UNCHANGED <<vars, dirty, memo, payload, shelf>> /\ warming' = warming
    BY <2>1 DEF StartFetch, MemoInv, MemoTyped
  <2> HIDE DEF x
  <2>4. ReaderSound(c)'
    BY <2>2, <2>3, EditsKept DEF ReaderSound, Holding
  <2>5. QED
    BY <2>2, <2>3, <2>4, ReaderAlone DEF MemoInv, MemoTyped
<1>3. CASE StartWarm(c)
  <2> DEFINE x == [IdleReader EXCEPT !.pc = IF Hit(memo, rev) THEN "lookup" ELSE "copy",
                                     !.kind = "warm list"]
  <2>1. x \in ReaderStates /\ x.pc \in {"lookup", "copy"} /\ x.rev = 0
    BY ConstantsTyped DEF IdleReader, ReaderStates, Phases, WarmKinds
  <2>2. /\ reader' = [reader EXCEPT ![c] = x] /\ reader'[c] = x
        /\ UNCHANGED <<vars, dirty, memo, payload, shelf>> /\ warming' = TRUE
    BY <1>3 DEF StartWarm, MemoInv, MemoTyped
  <2> HIDE DEF x
  <2>3. ReaderSound(c)'
    BY <2>1, <2>2, EditsKept DEF ReaderSound, Holding
  <2>4. QED
    BY <2>1, <2>2, <2>3, ReaderAlone
<1>4. QED
  BY <1>1, <1>2, <1>3

LEMMA CopyEditsSound ==
  ASSUME MemoInv, NEW c \in Readers, CopyEdits(c)
  PROVE  MemoInv'
<1> DEFINE x == [reader[c] EXCEPT !.pc = "fill", !.body = visible, !.copied = rev]
<1>1. visible \in Stores /\ rev \in Nat /\ reader[c].pc = "copy"
  BY DEF CopyEdits, MemoInv, MemoTyped, TypeOK
<1>2. x \in ReaderStates /\ x.pc = "fill" /\ x.rev = reader[c].rev /\ x.body = visible /\ x.copied = rev
  BY <1>1, ReaderTyped DEF ReaderStates, Phases
<1>3. /\ reader' = [reader EXCEPT ![c] = x] /\ reader'[c] = x
      /\ UNCHANGED <<vars, dirty, memo, payload, shelf>> /\ warming' = warming
  BY DEF CopyEdits, MemoInv, MemoTyped
<1> HIDE DEF x
<1>4. ReaderSound(c)'
  BY <1>1, <1>2, <1>3, ReaderTyped, EditsKept DEF ReaderSound, Fresh, Holding
<1>5. QED
  BY <1>2, <1>3, <1>4, ReaderAlone DEF MemoInv, MemoTyped

LEMMA FillSound ==
  ASSUME MemoInv, NEW c \in Readers, Fill(c)
  PROVE  MemoInv'
<1> DEFINE x == [reader[c] EXCEPT !.pc = IF reader[c].kind = "warm list" THEN "lookup" ELSE "loaded"]
<1>1. /\ reader[c].pc = "fill" /\ reader[c].kind \in Kinds \cup {"warm list"}
      /\ Fresh(reader[c].body, reader[c].copied) /\ rev \in Nat
  BY ReaderTyped DEF Fill, WarmKinds, ReaderSound, Holding, MemoInv, MemoTyped, TypeOK
<1>2. /\ x \in ReaderStates /\ x.kind = reader[c].kind /\ x.body = reader[c].body
      /\ x.copied = reader[c].copied
      /\ x.pc = (IF reader[c].kind = "warm list" THEN "lookup" ELSE "loaded")
  BY ReaderTyped DEF ReaderStates, Phases
<1>3. /\ reader' = [reader EXCEPT ![c] = x] /\ reader'[c] = x
      /\ UNCHANGED <<vars, dirty, payload, shelf>> /\ warming' = warming
  BY DEF Fill, MemoInv, MemoTyped
<1> HIDE DEF x
<1>4. ReaderSound(c)'
  BY <1>1, <1>2, <1>3, EditsKept DEF ReaderSound, Fresh, Holding
<1>5. memo' = memo \/ (memo' \in [rev : Nat, body : Stores, copied : Nat] /\ MemoSound')
  <2>1. CASE reader[c].kind = "detail"
    BY <2>1 DEF Fill
  <2>2. CASE reader[c].kind # "detail"
    <3>1. memo' = [rev |-> rev, body |-> reader[c].body, copied |-> reader[c].copied]
      BY <2>2 DEF Fill, Traced
    <3>2. MemoSound'
      BY <1>1, <1>3, <3>1, EditsKept DEF MemoSound, Fresh
    <3>3. QED
      BY <1>1, <3>1, <3>2, ReaderTyped
  <2>3. QED
    BY <2>1, <2>2
<1>6. QED
  BY <1>2, <1>3, <1>4, <1>5, OneReader DEF MemoInv, MemoTyped

LEMMA ReadRevSound ==
  ASSUME MemoInv, NEW c \in Readers, ReadRev(c)
  PROVE  MemoInv'
<1> DEFINE x == [reader[c] EXCEPT !.pc = "serve", !.rev = rev]
<1>1. /\ reader[c].pc = "loaded" /\ reader[c].kind \in Kinds
      /\ Fresh(reader[c].body, reader[c].copied) /\ rev \in Nat
  BY ReaderTyped DEF ReadRev, ReaderSound, Holding, MemoInv, MemoTyped, TypeOK
<1>2. /\ x \in ReaderStates /\ x.kind = reader[c].kind /\ x.body = reader[c].body
      /\ x.copied = reader[c].copied /\ x.pc = "serve" /\ x.rev = rev
  BY <1>1, ReaderTyped DEF ReaderStates, Phases
<1>3. /\ reader' = [reader EXCEPT ![c] = x] /\ reader'[c] = x
      /\ UNCHANGED <<vars, dirty, memo, payload, shelf>> /\ warming' = warming
  BY DEF ReadRev, MemoInv, MemoTyped
<1> HIDE DEF x
<1>4. ReaderSound(c)'
  BY <1>1, <1>2, <1>3, EditsKept DEF ReaderSound, Fresh, Holding
<1>5. QED
  BY <1>2, <1>3, <1>4, ReaderAlone DEF MemoInv, MemoTyped

LEMMA TakePayloadSound ==
  ASSUME MemoInv, NEW c \in Readers, TakePayload(c)
  PROVE  MemoInv'
<1>1. /\ UNCHANGED <<vars, dirty, memo, shelf>> /\ warming' = warming
      /\ reader[c].pc = "serve" /\ reader[c].kind \in Kinds /\ warming' \in BOOLEAN
  BY ReaderTyped DEF TakePayload, ReaderSound, MemoInv, MemoTyped
<1>2. CASE Hit(payload[reader[c].kind], reader[c].rev)
  <2>1. reader' = [reader EXCEPT ![c] = IdleReader] /\ payload' = payload
    BY <1>2 DEF TakePayload
  <2>2. ReaderSound(c)'
    BY <2>1, RestingSound DEF IdleReader, MemoInv, MemoTyped
  <2>3. QED
    BY <1>1, <2>1, <2>2, ConstantsTyped, ReaderAlone
<1>3. CASE ~Hit(payload[reader[c].kind], reader[c].rev)
  <2> DEFINE x == [reader[c] EXCEPT !.pc = "compress"]
  <2>1. /\ x \in ReaderStates /\ x.kind = reader[c].kind /\ x.body = reader[c].body
        /\ x.copied = reader[c].copied /\ x.pc = "compress" /\ x.rev = reader[c].rev
    BY ReaderTyped DEF ReaderStates, Phases
  <2>2. /\ reader' = [reader EXCEPT ![c] = x] /\ reader'[c] = x
        /\ payload' = [payload EXCEPT ![reader[c].kind] = None]
    BY <1>3 DEF TakePayload, MemoInv, MemoTyped
  <2> HIDE DEF x
  <2>3. ReaderSound(c)'
    BY <1>1, <2>1, <2>2, ReaderTyped, EditsKept DEF ReaderSound, Fresh, Holding
  <2>4. /\ payload' \in [Kinds -> [rev : Nat, body : Stores, spanned : BOOLEAN] \cup {None}]
        /\ \A k \in Kinds : payload'[k] = payload[k] \/ PayloadSound(k)'
    BY <1>1, <2>2 DEF PayloadSound, MemoInv, MemoTyped
  <2>5. QED
    BY <1>1, <2>1, <2>2, <2>3, <2>4, OneReader
<1>4. QED
  BY <1>2, <1>3

LEMMA PutPayloadSound ==
  ASSUME MemoInv, NEW c \in Readers, PutPayload(c)
  PROVE  MemoInv'
<1> DEFINE e == [rev |-> reader[c].rev, body |-> reader[c].body,
                 spanned |-> reader[c].copied # reader[c].rev]
<1>1. /\ UNCHANGED <<vars, dirty, memo, shelf>> /\ warming' = warming /\ warming' \in BOOLEAN
      /\ reader[c].pc = "compress" /\ reader[c].kind \in Kinds
      /\ reader' = [reader EXCEPT ![c] = IdleReader]
      /\ payload' = [payload EXCEPT ![reader[c].kind] = e]
      /\ Fresh(reader[c].body, reader[c].copied)
  BY ReaderTyped DEF PutPayload, Marked, ReaderSound, Holding, MemoInv, MemoTyped
<1>2. /\ e \in [rev : Nat, body : Stores, spanned : BOOLEAN]
      /\ e.spanned \/ Fresh(e.body, e.rev)
  BY <1>1, ReaderTyped
<1> HIDE DEF e
<1>3. payload' \in [Kinds -> [rev : Nat, body : Stores, spanned : BOOLEAN] \cup {None}]
  BY <1>1, <1>2 DEF MemoInv, MemoTyped
<1>4. ASSUME NEW k \in Kinds PROVE payload'[k] = payload[k] \/ PayloadSound(k)'
  <2>1. payload'[k] = payload[k] \/ payload'[k] = e
    BY <1>1 DEF MemoInv, MemoTyped
  <2>2. QED
    BY <1>1, <1>2, <2>1, EditsKept DEF PayloadSound, Fresh
<1>5. ReaderSound(c)'
  BY <1>1, RestingSound DEF IdleReader, MemoInv, MemoTyped
<1>6. QED
  BY <1>1, <1>3, <1>4, <1>5, ConstantsTyped, OneReader

LEMMA LookUpSound ==
  ASSUME MemoInv, NEW c \in Readers, LookUp(c)
  PROVE  MemoInv'
<1> DEFINE x == [IdleReader EXCEPT !.pc = "copy", !.kind = "warm detail", !.rev = rev]
<1>1. rev \in Nat
  BY DEF MemoInv, MemoTyped, TypeOK
<1>2. x \in ReaderStates /\ x.pc = "copy" /\ x.rev = rev
  BY <1>1, ConstantsTyped DEF IdleReader, ReaderStates, Phases, WarmKinds
<1>3. /\ reader' = [reader EXCEPT ![c] = x] /\ reader'[c] = x
      /\ UNCHANGED <<vars, dirty, memo, payload, shelf>> /\ warming' = warming
  BY DEF LookUp, MemoInv, MemoTyped
<1> HIDE DEF x
<1>4. ReaderSound(c)'
  BY <1>1, <1>2, <1>3, EditsKept DEF ReaderSound, Holding
<1>5. QED
  BY <1>2, <1>3, <1>4, ReaderAlone DEF MemoInv, MemoTyped

\* The revision of the lookup is not above the one the edits were copied under.
LEMMA ShelveSound ==
  ASSUME MemoInv, NEW c \in Readers, Shelve(c)
  PROVE  MemoInv'
<1>1. /\ UNCHANGED <<vars, dirty, memo, payload>> /\ warming' = warming /\ warming' \in BOOLEAN
      /\ reader[c].pc = "fill" /\ Fresh(reader[c].body, reader[c].copied)
      /\ reader[c].rev <= reader[c].copied
      /\ reader' = [reader EXCEPT ![c] = IdleReader]
      /\ shelf' = [rev |-> reader[c].rev, body |-> reader[c].body]
  BY ReaderTyped DEF Shelve, Entry, ReaderSound, Holding, MemoInv, MemoTyped
<1>2. shelf' \in [rev : Nat, body : Stores] /\ rev \in Nat
  BY <1>1, ReaderTyped, EditsKept
<1>3. Fresh(reader[c].body, reader[c].rev)
  BY <1>1, <1>2, ReaderTyped DEF Fresh
<1>4. ShelfSound'
  BY <1>1, <1>3, EditsKept DEF ShelfSound, Fresh
<1>5. ReaderSound(c)'
  BY <1>1, RestingSound DEF IdleReader, MemoInv, MemoTyped
<1>6. payload' \in [Kinds -> [rev : Nat, body : Stores, spanned : BOOLEAN] \cup {None}]
  BY <1>1 DEF MemoInv, MemoTyped
<1>7. QED
  BY <1>1, <1>2, <1>4, <1>5, <1>6, ConstantsTyped, OneReader

-----------------------------------------------------------------------------
LEMMA InitMemoSound ==
  ASSUME MInit
  PROVE  MemoInv
<1>1. stored \in Stores /\ visible \in Stores /\ rev = 0
  BY ConstantsTyped DEF MInit, Init
<1>2. status \in [Requests -> Status] /\ asked \in [Requests -> Ops]
  BY ConstantsTyped DEF MInit, Init, Status
<1>3. MemoTyped
  BY <1>1, <1>2, ConstantsTyped DEF MInit, MemoInit, MemoTyped, TypeOK
<1>4. \A c \in Readers : ReaderSound(c)
  BY DEF MInit, MemoInit, ReaderSound, IdleReader, Holding
<1>5. QED
  BY <1>3, <1>4 DEF MInit, MemoInit, MemoInv, MemoSound, PayloadSound, ShelfSound

LEMMA NextMemoSound ==
  ASSUME MemoInv, [MNext]_allVars
  PROVE  MemoInv'
<1>1. CASE \E r \in Requests : Patch(r) \/ SaveStep(r) \/ Saved(r) \/ Refused(r)
  BY <1>1, PatchSound, SaveStepSound, SaveEndsSound
<1>2. ASSUME NEW c \in Readers,
             \/ StartFromMemo(c)
             \/ \E k \in Kinds : StartFetch(c, k)
             \/ StartWarm(c)
      PROVE  MemoInv'
  BY <1>2, StartSound
<1>3. ASSUME NEW c \in Readers,
             CopyEdits(c) \/ Fill(c) \/ ReadRev(c) \/ LookUp(c) \/ Shelve(c)
      PROVE  MemoInv'
  BY <1>3, CopyEditsSound, FillSound, ReadRevSound, LookUpSound, ShelveSound
<1>4. ASSUME NEW c \in Readers, TakePayload(c) \/ PutPayload(c)
      PROVE  MemoInv'
  BY <1>4, TakePayloadSound, PutPayloadSound
<1>5. CASE NewProcess
  BY <1>5, NewProcessSound
<1>6. CASE UNCHANGED allVars
  <2>1. UNCHANGED <<vars, dirty>> /\ UNCHANGED <<memo, payload, reader, shelf>> /\ warming' = warming
    BY <1>6 DEF allVars, memoVars
  <2>2. MemoTyped'
    BY <2>1, EditsKept DEF MemoInv, MemoTyped
  <2>3. QED
    BY <2>1, <2>2, EditsKept, MemosKept
<1>7. QED
  BY <1>1, <1>2, <1>3, <1>4, <1>5, <1>6 DEF MNext

LEMMA MemosAreSound == MSpec => []MemoInv
<1>1. MInit => MemoInv
  BY InitMemoSound
<1>2. MemoInv /\ [MNext]_allVars => MemoInv'
  BY NextMemoSound
<1>3. QED
  BY <1>1, <1>2, PTL DEF MSpec

\* Every memo holds well-formed documents with the revision they are served under
\* (enrichedCache, payload.ts, server-cache.ts).
THEOREM MemoTypeCorrect == MSpec => []MemoTypeOK
<1>1. MemoInv => MemoTypeOK
  <2> SUFFICES ASSUME MemoInv PROVE MemoTypeOK
    OBVIOUS
  <2>1. \A c \in Readers : reader[c] \in ReaderStates
    BY DEF MemoInv, MemoTyped
  <2>2. QED
    BY <2>1 DEF MemoInv, MemoTyped, MemoTypeOK, ReaderStates, Phases
<1>2. QED
  BY <1>1, MemosAreSound, PTL

\* For any number of saves, refused ones, restarts and concurrent reads: the collection that
\* a read would serve is the current one, unless a save was acknowledged between the copy of
\* the edits and the memo (db.ts:693-697).
THEOREM MemoStaleByCause == MSpec => []MemoStaleOnlyIfSpanned
<1>1. MemoInv => MemoStaleOnlyIfSpanned
  BY DEF MemoInv, MemoSound, Fresh, Hit, MemoStaleOnlyIfSpanned
<1>2. QED
  BY <1>1, MemosAreSound, PTL

\* The compressed bodies of payload.ts add no staleness of their own, whatever happens
\* between the revision, the lookup, the compression and the put.
THEOREM PayloadStaleByCause == MSpec => []PayloadStaleOnlyIfInherited
<1>1. MemoInv => PayloadStaleOnlyIfInherited
  BY DEF MemoInv, PayloadSound, Fresh, Hit, PayloadStaleOnlyIfInherited
<1>2. QED
  BY <1>1, MemosAreSound, PTL

\* What server-cache.ts holds under the current revision is never stale, without exception:
\* it takes the revision before the load.
THEOREM ShelfIsCurrent == MSpec => []ShelfNeverStale
<1>1. MemoInv => ShelfNeverStale
  BY DEF MemoInv, ShelfSound, Fresh, Hit, ShelfNeverStale
<1>2. QED
  BY <1>1, MemosAreSound, PTL
=============================================================================
