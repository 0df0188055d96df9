------------------------------ MODULE EditMemo ------------------------------
(***************************************************************************)
(* The edit store composed with what is derived from it in the same        *)
(* process: the enriched collection that lib/db.ts memoises per revision,  *)
(* the compressed bodies that lib/http/payload.ts memoises per revision,   *)
(* and the warmed documents of lib/server-cache.ts.                        *)
(*                                                                         *)
(* The edit side is EditRegister, the promise of the edit store.  A reader *)
(* is one GET, of the collection (serve with getBuildings) or of a         *)
(* building document (buildingDetailRoute), which is enriched anew every   *)
(* time, or it is the warm-up that the first summary request starts.       *)
(* Pristine data does not change here.                                     *)
(***************************************************************************)
EXTENDS EditRegister

CONSTANTS Readers,  \* concurrent GET requests and warm-ups
          None      \* an empty slot of a memo

Kinds == {"collection", "detail"}

\* What the warm-up loads: the collection, for its names, then a document.
WarmKinds == {"warm list", "warm detail"}

VARIABLES memo,     \* enrichedCache: the collection with the revision it was set under
          payload,  \* the compressed body of each resource, with its revision
          reader,   \* each GET: its phase, resource, body and the revision it passes on
          shelf,    \* the warmed document of server-cache.ts, with its revision
          warming,  \* warmProject has been called in this process
          dirty     \* history: a rejected save is visible and nothing was saved since

memoVars == <<memo, payload, reader, shelf, warming>>

allVars == <<vars, memoVars, dirty>>

\* An entry of a memo: a body and the revision it is served under.
Entry(body, at) == [rev |-> at, body |-> body]

\* With history: `copied` is the revision when the edits were copied, `spanned`
\* that it was no longer the revision when the route read one for jsonPayload.
Traced(body, at, copied) == [rev |-> at, body |-> body, copied |-> copied]
Marked(body, at, spanned) == [rev |-> at, body |-> body, spanned |-> spanned]

IdleReader == [pc |-> "idle", kind |-> "detail", body |-> EmptyStore,
               rev |-> 0, copied |-> 0]

MemoInit ==
  /\ memo = None
  /\ payload = [k \in Kinds |-> None]
  /\ reader = [c \in Readers |-> IdleReader]
  /\ shelf = None
  /\ warming = FALSE

MemoTypeOK ==
  /\ TypeOK
  /\ memo = None \/ memo.body \in Stores
  /\ \A k \in Kinds : payload[k] = None \/ payload[k].body \in Stores
  /\ \A c \in Readers :
       /\ reader[c].pc \in {"idle", "copy", "fill", "loaded", "serve", "compress", "lookup"}
       /\ reader[c].kind \in Kinds \cup WarmKinds
       /\ reader[c].body \in Stores
       /\ {reader[c].rev, reader[c].copied} \subseteq Nat
  /\ shelf = None \/ shelf.body \in Stores
  /\ warming \in BOOLEAN

\* get of editAwareCache, and take's test in payload.ts: present, same revision.
Hit(slot, at) == slot # None /\ slot.rev = at

-----------------------------------------------------------------------------
(* A GET *)

\* getBuildings answers from the memo of the current revision.
StartFromMemo(c) ==
  /\ reader[c].pc = "idle"
  /\ Hit(memo, rev)
  /\ reader' = [reader EXCEPT ![c] =
       [IdleReader EXCEPT !.pc = "loaded", !.kind = "collection",
                          !.body = memo.body, !.copied = memo.copied]]
  /\ UNCHANGED <<vars, memo, payload, shelf, warming, dirty>>

\* A miss, or a document: everything the body is made of is fetched at once.
StartFetch(c, k) ==
  /\ reader[c].pc = "idle"
  /\ k = "collection" => ~Hit(memo, rev)
  /\ reader' = [reader EXCEPT ![c] =
       [IdleReader EXCEPT !.pc = "copy", !.kind = k]]
  /\ UNCHANGED <<vars, memo, payload, shelf, warming, dirty>>

\* allEdits / editsFor resolves; the other reads of the Promise.all still run.
CopyEdits(c) ==
  /\ reader[c].pc = "copy"
  /\ reader' = [reader EXCEPT ![c].pc = "fill", ![c].body = visible, ![c].copied = rev]
  /\ UNCHANGED <<vars, memo, payload, shelf, warming, dirty>>

\* All have resolved: the collection is memoised under the revision of this moment.
Fill(c) ==
  /\ reader[c].pc = "fill"
  /\ reader[c].kind # "warm detail"
  /\ reader' = [reader EXCEPT ![c].pc =
       IF reader[c].kind = "warm list" THEN "lookup" ELSE "loaded"]
  /\ memo' = IF reader[c].kind = "detail" THEN memo
             ELSE Traced(reader[c].body, rev, reader[c].copied)
  /\ UNCHANGED <<vars, payload, shelf, warming, dirty>>

\* The route reads the revision it will pass to jsonPayload.
ReadRev(c) ==
  /\ reader[c].pc = "loaded"
  /\ reader' = [reader EXCEPT ![c].pc = "serve", ![c].rev = rev]
  /\ UNCHANGED <<vars, memo, payload, shelf, warming, dirty>>

\* jsonPayload, after the headers were awaited.  take serves an entry of the
\* same revision and drops any other.
TakePayload(c) ==
  /\ reader[c].pc = "serve"
  /\ LET k == reader[c].kind IN
       IF Hit(payload[k], reader[c].rev)
         THEN reader' = [reader EXCEPT ![c] = IdleReader] /\ UNCHANGED payload
         ELSE /\ reader' = [reader EXCEPT ![c].pc = "compress"]
              /\ payload' = [payload EXCEPT ![k] = None]
  /\ UNCHANGED <<vars, memo, shelf, warming, dirty>>

\* Mutant of PutPayload: the entry gets the revision of the moment it is put.
PutPayloadNow(c) ==
  /\ reader[c].pc = "compress"
  /\ payload' = [payload EXCEPT ![reader[c].kind] =
       Marked(reader[c].body, rev, reader[c].copied # reader[c].rev)]
  /\ reader' = [reader EXCEPT ![c] = IdleReader]
  /\ UNCHANGED <<vars, memo, shelf, warming, dirty>>

\* The body is compressed; put replaces the entry, under the revision passed on.
PutPayload(c) ==
  /\ reader[c].pc = "compress"
  /\ payload' = [payload EXCEPT ![reader[c].kind] =
       Marked(reader[c].body, reader[c].rev, reader[c].copied # reader[c].rev)]
  /\ reader' = [reader EXCEPT ![c] = IdleReader]
  /\ UNCHANGED <<vars, memo, shelf, warming, dirty>>

-----------------------------------------------------------------------------
(* warmProject: started by the first summary request, never awaited *)

\* It begins with the collection, from its memo or fetched.
StartWarm(c) ==
  /\ reader[c].pc = "idle"
  /\ ~warming
  /\ warming' = TRUE
  /\ reader' = [reader EXCEPT ![c] =
       [IdleReader EXCEPT !.pc = IF Hit(memo, rev) THEN "lookup" ELSE "copy",
                          !.kind = "warm list"]]
  /\ UNCHANGED <<vars, memo, payload, shelf, dirty>>

\* cachedDetail passes the revision of this moment to cached, which misses: the
\* warm-up runs once, and nothing else fills the shelf.
LookUp(c) ==
  /\ reader[c].pc = "lookup"
  /\ reader' = [reader EXCEPT ![c] =
       [IdleReader EXCEPT !.pc = "copy", !.kind = "warm detail", !.rev = rev]]
  /\ UNCHANGED <<vars, memo, payload, shelf, warming, dirty>>

\* Mutant of Shelve: cached stamps the entry after the load.
ShelveLate(c) ==
  /\ reader[c].pc = "fill"
  /\ reader[c].kind = "warm detail"
  /\ shelf' = Entry(reader[c].body, rev)
  /\ reader' = [reader EXCEPT ![c] = IdleReader]
  /\ UNCHANGED <<vars, memo, payload, warming, dirty>>

\* The entry carries the revision of the lookup, not of this moment.
Shelve(c) ==
  /\ reader[c].pc = "fill"
  /\ reader[c].kind = "warm detail"
  /\ shelf' = Entry(reader[c].body, reader[c].rev)
  /\ reader' = [reader EXCEPT ![c] = IdleReader]
  /\ UNCHANGED <<vars, memo, payload, warming, dirty>>

-----------------------------------------------------------------------------
(* The edit side; PATCH only ever calls applyEdit *)

Patch(r) ==
  /\ \E b \in Buildings : Submit(r, [kind |-> "apply", building |-> b, fields |-> Fields])
  /\ UNCHANGED <<memoVars, dirty>>

SaveStep(r) ==
  /\ TakeEffect(r) \/ Store(r)
  /\ UNCHANGED <<memoVars, dirty>>

Saved(r) ==
  /\ Acknowledge(r)
  /\ dirty' = FALSE
  /\ UNCHANGED memoVars

Refused(r) ==
  /\ Reject(r)
  /\ dirty' = TRUE
  /\ UNCHANGED memoVars

\* Every memo is in memory and goes with the process.
NewProcess ==
  /\ Restart
  /\ memo' = None
  /\ payload' = [k \in Kinds |-> None]
  /\ reader' = [c \in Readers |-> IdleReader]
  /\ shelf' = None
  /\ warming' = FALSE
  /\ dirty' = FALSE

\* The process starts on a project without edits; EditStore has the other cases.
MInit == Init /\ stored = EmptyStore /\ MemoInit /\ dirty = FALSE

MNext ==
  \/ \E r \in Requests : Patch(r) \/ SaveStep(r) \/ Saved(r) \/ Refused(r)
  \/ \E c \in Readers :
       \/ StartFromMemo(c)
       \/ \E k \in Kinds : StartFetch(c, k)
       \/ CopyEdits(c)
       \/ Fill(c)
       \/ ReadRev(c)
       \/ TakePayload(c)
       \/ PutPayload(c)
       \/ StartWarm(c)
       \/ LookUp(c)
       \/ Shelve(c)
  \/ NewProcess

MSpec == MInit /\ [][MNext]_allVars

-----------------------------------------------------------------------------
(* What must hold *)

\* Nothing is being saved, and no refused save is visible.
Settled == ~Busy /\ ~dirty

\* A memoised collection that a read would serve is the current one, unless a
\* save was acknowledged while it was being built (db.ts:693-697): no other
\* interleaving of saves, refusals, restarts and reads makes it stale.
MemoStaleOnlyIfSpanned ==
  Settled /\ Hit(memo, rev) => memo.copied # memo.rev \/ memo.body = visible

\* The same of a compressed body (payload.ts:102-117): the awaits between
\* reading the revision and putting the entry never add a stale one.
PayloadStaleOnlyIfInherited ==
  \A k \in Kinds :
    Settled /\ Hit(payload[k], rev) =>
      payload[k].spanned \/ payload[k].body = visible

\* server-cache.ts takes the revision before the load, so that what it holds
\* under the current revision is never stale ("a cadastre that shows the user
\* something other than what they just saved", server-cache.ts:129-132).
ShelfNeverStale == Settled /\ Hit(shelf, rev) => shelf.body = visible

\* "A save must be visible immediately" (handlers.ts:135-136): the collection
\* that a read would serve is the current one.
SaveVisibleImmediately == Settled /\ Hit(memo, rev) => memo.body = visible
=============================================================================
