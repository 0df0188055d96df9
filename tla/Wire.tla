-------------------------------- MODULE Wire --------------------------------
(***************************************************************************)
(* How a collection of a project reaches a page: serve of                  *)
(* lib/api/handlers.ts, the memo of compressed bodies of                   *)
(* lib/http/payload.ts, and the HTTP cache of the browser, which obeys the *)
(* headers that jsonPayload sends.  A step of the server is what runs      *)
(* between two awaits of serve and jsonPayload.                            *)
(*                                                                         *)
(* A body is what it was built from: the number of saves it contains and   *)
(* the caller it was filtered for.  A save takes effect and raises the     *)
(* revision at once; EditMemo has the moments in between, and restarts,     *)
(* which here would only empty the memo.                                   *)
(***************************************************************************)
EXTENDS Integers, Sequences, FiniteSets, SequencesExt

CONSTANTS Resources,   \* the collections of one project
          Callers,     \* caller tags: anon, the government, each citizen
          Encodings,   \* br, gzip, identity
          Preferred,   \* the encoding a browser is answered in
          Requests,    \* requests in flight at a time
          Length,      \* the compressed bytes of a body, by caller, encoding and saves
          Digest,      \* the length and samples of etagFor, by caller and saves
          MaxEntries, MaxBytes,
          MaxSaves,    \* bound on the saves
          None

Saves == 0..MaxSaves

ASSUME WireAssumption ==
  /\ Preferred \in Encodings
  /\ Length \in [Callers -> [Encodings -> [Saves -> Nat]]]
  /\ Digest \in [Callers -> [Saves -> Nat]]
  /\ {MaxEntries, MaxBytes, MaxSaves} \subseteq Nat

VARIABLES saved,       \* saves of the project so far, which editsRev counts
          memo,        \* the memo, the least recently used first
          cachedBytes,
          request,     \* each request, from the browser or from another client
          kept         \* the HTTP cache of the browser, one response to a URL

server == <<memo, cachedBytes>>
vars == <<saved, server, request, kept>>

\* `spanned` is history: a save fell between the load and the revision.
Body(n, c, s) == [saves |-> n, for |-> c, spanned |-> s]
Etag(body, enc) == <<Digest[body.for][body.saves], enc>>

Idle == [pc |-> "idle"]

Bodies == [saves : Saves, for : Callers, spanned : BOOLEAN]

Asked == [pc : {"load", "rev", "take", "compress", "answer"}, home : BOOLEAN,
          res : Resources, caller : Callers, enc : Encodings,
          offers : Bodies \cup {None}, asked : Saves, body : Bodies \cup {None},
          rev : Saves, status : {0, 200, 304}]

Entries == [key : Resources \X Encodings \X Callers, rev : Saves, body : Bodies,
            bytes : Nat]

WireTypeOK ==
  /\ saved \in Saves
  /\ memo \in Seq(Entries)
  /\ request \in [Requests -> Asked \cup {Idle}]
  /\ kept \in [Resources -> [body : Bodies, cookie : Callers, fresh : BOOLEAN,
                            late : BOOLEAN] \cup {None}]

\* `home`: it comes from the browser; `offers` is the body whose ETag it offers.
Asking(home, r, c, enc, offers) ==
  [pc |-> "load", home |-> home, res |-> r, caller |-> c, enc |-> enc,
   offers |-> offers,
   asked |-> IF home THEN saved ELSE 0, body |-> None, rev |-> 0, status |-> 0]

Init ==
  /\ saved = 0
  /\ memo = <<>> /\ cachedBytes = 0
  /\ request = [q \in Requests |-> Idle]
  /\ kept = [r \in Resources |-> None]

-----------------------------------------------------------------------------
(* The memo *)

\* Mutant of Key: the caller is left out.
KeyShared(q) == <<request[q].res, request[q].enc>>

\* The resource, the encoding negotiated and the tag of the verified caller.
Key(q) == <<request[q].res, request[q].enc, request[q].caller>>

\* Where the map has the key: nowhere, or at one place.
Held(key) == {i \in DOMAIN memo : memo[i].key = key}

Others(key) ==
  IF Held(key) = {} THEN memo ELSE RemoveAt(memo, CHOOSE i \in Held(key) : TRUE)

HeldBytes(key) ==
  IF Held(key) = {} THEN 0 ELSE memo[CHOOSE i \in Held(key) : TRUE].bytes

\* The bytes of the first n entries, for each n.
Counts(entries) ==
  LET of[n \in 0..Len(entries)] == IF n = 0 THEN 0 ELSE of[n - 1] + entries[n].bytes IN of
Bytes(entries) == Counts(entries)[Len(entries)]

Fits(entries, bytes) == Len(entries) <= MaxEntries /\ bytes <= MaxBytes

\* evictIfNeeded: the oldest n go, and n is no more than is needed.
Evicting(entries, bytes) ==
  \E n \in 0..Len(entries) :
    LET Left(k) == bytes - Counts(entries)[k]
        Enough(k) == k = Len(entries) \/ Fits(SubSeq(entries, k + 1, Len(entries)), Left(k))
    IN  /\ Enough(n) /\ \A k \in 0..(n - 1) : ~Enough(k)
        /\ memo' = SubSeq(entries, n + 1, Len(entries))
        /\ cachedBytes' = Left(n)

\* Mutant of Enter: the bytes of the entry that is replaced are not given back.
EnterUncounted(e) == Evicting(Append(Others(e.key), e), cachedBytes + e.bytes)

\* put
Enter(e) == Evicting(Append(Others(e.key), e), cachedBytes - HeldBytes(e.key) + e.bytes)

\* Mutant of Current: take serves an entry of any revision.
CurrentAnyway(e, at) == e.rev <= at

\* Whether take finds an entry it may serve.
Current(e, at) == e.rev = at

-----------------------------------------------------------------------------
(* A request at the server *)

\* The gate, the caller, the collection and its filter have been awaited.
Load(q) ==
  /\ request[q].pc = "load"
  /\ request' = [request EXCEPT ![q].pc = "rev",
                                ![q].body = Body(saved, request[q].caller, FALSE)]
  /\ UNCHANGED <<saved, server, kept>>

\* The argument of jsonPayload: the revision of now, before baseHeaders is awaited.
ReadRev(q) ==
  /\ request[q].pc = "rev"
  /\ request' = [request EXCEPT ![q].pc = "take", ![q].rev = saved,
                                ![q].body.spanned = @ \/ request[q].body.saves # saved]
  /\ UNCHANGED <<saved, server, kept>>

\* The end of jsonPayload: 304 if the client offered this very ETag.
Answered(q, body) ==
  request' = [request EXCEPT
    ![q].pc = "answer", ![q].body = body, ![q].rev = 0,
    ![q].status = IF /\ request[q].offers # None
                     /\ Etag(request[q].offers, request[q].enc) = Etag(body, request[q].enc)
                  THEN 304 ELSE 200]

\* take finds an entry of this revision and makes it the most recent.
TakeHit(q) ==
  /\ request[q].pc = "take"
  /\ \E i \in DOMAIN memo :
       /\ memo[i].key = Key(q) /\ Current(memo[i], request[q].rev)
       /\ memo' = Append(Others(Key(q)), memo[i])
       /\ Answered(q, memo[i].body)
  /\ UNCHANGED <<saved, cachedBytes, kept>>

\* take finds nothing, or an entry of another revision, which it drops.
TakeMiss(q) ==
  /\ request[q].pc = "take"
  /\ \A i \in DOMAIN memo : memo[i].key = Key(q) => ~Current(memo[i], request[q].rev)
  /\ memo' = Others(Key(q))
  /\ cachedBytes' = cachedBytes - HeldBytes(Key(q))
  /\ request' = [request EXCEPT ![q].pc = "compress"]
  /\ UNCHANGED <<saved, kept>>

\* The body is compressed and put, under the revision that was read before.
Put(q) ==
  /\ request[q].pc = "compress"
  /\ LET body == request[q].body IN
       /\ Enter([key |-> Key(q), rev |-> request[q].rev, body |-> body,
                 bytes |-> Length[body.for][request[q].enc][body.saves]])
       /\ Answered(q, body)
  /\ UNCHANGED <<saved, kept>>

\* The PATCH of a building, whose URL is none of the collections'.
Save ==
  /\ saved < MaxSaves
  /\ saved' = saved + 1
  /\ UNCHANGED <<memo, cachedBytes, request, kept>>

-----------------------------------------------------------------------------
(* Clients *)

\* Another client, which keeps nothing, asks as anybody and for any encoding.
AskElsewhere(q) ==
  /\ request[q] = Idle
  /\ \E r \in Resources, c \in Callers, enc \in Encodings :
       request' = [request EXCEPT ![q] = Asking(FALSE, r, c, enc, None)]
  /\ UNCHANGED <<saved, server, kept>>

\* A browser lets one request of a URL write its cache at a time.
Busy(r) == \E q \in Requests : request[q] # Idle /\ request[q].home /\ request[q].res = r

\* A page is given what is kept without anybody being asked: Vary: Cookie and the
\* lifetime of Cache-Control allow it.
Usable(r, c) == kept[r] # None /\ kept[r].cookie = c /\ kept[r].fresh

\* The page loads (fetchInitialData) and max-age is over.  Whether it waits for
\* the answer (stale-while-revalidate) changes nothing of what is kept.  The
\* validator of what is kept is offered, whoever is signed in since.
Fetch(q, r, c) ==
  /\ ~Busy(r) /\ request[q] = Idle
  /\ ~Usable(r, c)
  /\ LET offers == IF kept[r] = None THEN None ELSE kept[r].body IN
       request' = [request EXCEPT ![q] = Asking(TRUE, r, c, Preferred, offers)]
  /\ UNCHANGED <<saved, server, kept>>

\* What the browser keeps.  `late` is history: a save made before it asked is missing.
Response(q, body) ==
  [body |-> body, cookie |-> request[q].caller, fresh |-> TRUE,
   late |-> body.saves < request[q].asked]

\* A 304 confirms the body that was offered.
Arrive(q) ==
  /\ request[q].pc = "answer"
  /\ kept' = IF ~request[q].home THEN kept ELSE
       [kept EXCEPT ![request[q].res] =
          Response(q, IF request[q].status = 304
                      THEN [request[q].offers EXCEPT !.spanned = request[q].body.spanned]
                      ELSE request[q].body)]
  /\ request' = [request EXCEPT ![q] = Idle]
  /\ UNCHANGED <<saved, server>>

\* The answer does not come, or is not waited for; the server has done its work.
Lose(q) ==
  /\ request[q].pc = "answer" /\ request[q].home
  /\ request' = [request EXCEPT ![q] = Idle]
  /\ UNCHANGED <<saved, server, kept>>

\* max-age is over.
Lapse(r) ==
  /\ kept[r] # None /\ kept[r].fresh
  /\ kept' = [kept EXCEPT ![r].fresh = FALSE]
  /\ UNCHANGED <<saved, server, request>>

Next ==
  \/ Save
  \/ \E r \in Resources : Lapse(r)
  \/ \E q \in Requests :
       \/ Load(q) \/ ReadRev(q) \/ TakeHit(q) \/ TakeMiss(q) \/ Put(q)
       \/ AskElsewhere(q) \/ Arrive(q) \/ Lose(q)
       \/ \E r \in Resources, c \in Callers : Fetch(q, r, c)

Spec == Init /\ [][Next]_vars

-----------------------------------------------------------------------------
(* Properties *)

(* payload.ts counts bytes beside the map: through evictions, entries of a *)
(* revision that is over, and two requests that compress one key at the    *)
(* same time, the count is what the map holds, within both budgets, and    *)
(* no key is held twice.                                                   *)
BytesCounted ==
  /\ cachedBytes = Bytes(memo)
  /\ Fits(memo, cachedBytes)
  /\ \A i, j \in DOMAIN memo : memo[i].key = memo[j].key => i = j

\* What a caller is sent after one of these many saves has the ETag of this body
\* and is another.
Alike(body, c, ns) ==
  \E n \in ns : /\ Digest[c][n] = Digest[body.for][body.saves]
                /\ c # body.for \/ n # body.saves

(* caller-tag.ts: what is answered, from the memo or anew, was built for    *)
(* the caller who asked for it; so was what the browser keeps under a       *)
(* cookie, confirmed by a 304 or not, unless two callers' bodies have one   *)
(* ETag.                                                                    *)
BuiltForAsker ==
  /\ \A q \in Requests :
       request[q].pc = "answer" => request[q].body.for = request[q].caller
  /\ \A r \in Resources : kept[r] # None =>
       \/ kept[r].body.for = kept[r].cookie
       \/ Alike(kept[r].body, kept[r].cookie, 0..saved)

(* handlers.ts: a save must be visible immediately.  What the browser      *)
(* keeps contains every save made before it last asked, unless a save fell *)
(* between a load and its revision, or a later revision has the same ETag. *)
(* So a page is given something older only within the lifetime, or by one  *)
(* of these causes.                                                        *)
StaleOnlyBy ==
  \A r \in Resources :
    (kept[r] # None /\ kept[r].late)
      => \/ kept[r].body.spanned
         \/ Alike(kept[r].body, kept[r].cookie, (kept[r].body.saves + 1)..saved)
=============================================================================
