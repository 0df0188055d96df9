----------------------------- MODULE WireProofs ------------------------------
(***************************************************************************)
(* What the payload memo and the browser's cache may hold, for any         *)
(* collections, callers, encodings, budgets, number of requests and saves. *)
(* Nothing is assumed of the digests of an ETag.  Then what the routes of  *)
(* Api answer, and what a document narrowed to a caller has in it, for any *)
(* request, world and register.                                            *)
(***************************************************************************)
EXTENDS Wire, SequenceTheorems, WellFoundedInduction, TLAPS

\* An entry was built for the caller of its key, of the saves of its revision
\* unless one fell in between.
Sound == {e \in Entries : /\ e.body.for = e.key[3]
                          /\ e.body.saves <= e.rev
                          /\ e.body.spanned \/ e.body.saves = e.rev}

MemoSound == memo \in Seq(Sound)

\* The body a request carries, and the answer it is about to get.
Carries(q) ==
  /\ request[q].body \in Bodies
  /\ request[q].body.for = request[q].caller
  /\ request[q].body.saves <= saved
  /\ request[q].body.spanned \/ request[q].asked <= request[q].body.saves

RequestSound(q) ==
  /\ request[q].pc # "idle" => request[q].asked <= saved
  /\ request[q].pc \in {"rev", "take", "compress", "answer"} => Carries(q)
  /\ request[q].pc \in {"take", "compress"} =>
       /\ request[q].asked <= request[q].rev /\ request[q].rev <= saved
       /\ request[q].body.saves <= request[q].rev
       /\ request[q].body.spanned \/ request[q].body.saves = request[q].rev
  /\ (request[q].pc = "answer" /\ request[q].status = 304) =>
       /\ request[q].offers \in Bodies
       /\ LET o == request[q].offers  b == request[q].body IN
            Digest[o.for][o.saves] = Digest[b.for][b.saves]

\* What the browser keeps.
KeptSound(r) ==
  kept[r] # None =>
    /\ \/ kept[r].body.for = kept[r].cookie
       \/ Alike(kept[r].body, kept[r].cookie, 0..saved)
    /\ kept[r].late =>
         \/ kept[r].body.spanned
         \/ Alike(kept[r].body, kept[r].cookie, (kept[r].body.saves + 1)..saved)

WireInv ==
  /\ WireTypeOK
  /\ MemoSound
  /\ \A q \in Requests : RequestSound(q)
  /\ \A r \in Resources : KeptSound(r)

-----------------------------------------------------------------------------
(* The memo only ever loses entries, or gains the one that is put. *)

LEMMA OthersSound ==
  ASSUME NEW S, memo \in Seq(S), NEW key
  PROVE  Others(key) \in Seq(S)
<1>1. CASE Held(key) = {}
  BY <1>1 DEF Others
<1>2. CASE Held(key) # {}
  <2> DEFINE i == CHOOSE j \in Held(key) : TRUE
  <2>1. i \in 1..Len(memo) /\ Len(memo) \in Nat
    BY <1>2 DEF Held
  <2> HIDE DEF i
  <2>2. i - 1 \in Int /\ i + 1 \in Int /\ \A j \in 1..Len(memo) : memo[j] \in S
    BY <2>1
  <2>3. (\A j \in 1..(i - 1) : memo[j] \in S) /\ \A j \in (i + 1)..Len(memo) : memo[j] \in S
    BY <2>1, <2>2
  <2>4. SubSeq(memo, 1, i - 1) \in Seq(S) /\ SubSeq(memo, i + 1, Len(memo)) \in Seq(S)
    BY <2>1, <2>2, <2>3, SubSeqProperties
  <2>5. SubSeq(memo, 1, i - 1) \o SubSeq(memo, i + 1, Len(memo)) \in Seq(S)
    BY <2>4, ConcatProperties
  <2>6. QED
    BY <1>2, <2>5 DEF Others, RemoveAt, i
<1>3. QED
  BY <1>1, <1>2

LEMMA EnterSound ==
  ASSUME NEW S, memo \in Seq(S), NEW e \in S, Enter(e)
  PROVE  memo' \in Seq(S)
<1> DEFINE entries == Append(Others(e.key), e)
<1>1. entries \in Seq(S)
  BY OthersSound, AppendProperties
<1>2. PICK n \in 0..Len(entries) : memo' = SubSeq(entries, n + 1, Len(entries))
  BY DEF Enter, Evicting
<1>3. QED
  BY <1>1, <1>2, SubSeqProperties

-----------------------------------------------------------------------------
LEMMA AlikeGrows ==
  ASSUME NEW body, NEW c, NEW m \in Nat, NEW n \in Nat, NEW p \in Nat, n <= p,
         Alike(body, c, m..n)
  PROVE  Alike(body, c, m..p)
<1>1. m..n \subseteq m..p
  OBVIOUS
<1>2. QED
  BY <1>1 DEF Alike

\* Nothing but a save changes `saved`, and what a step leaves alone stays sound.
LEMMA RequestKept ==
  ASSUME WireInv, NEW s \in Requests, RequestSound(s), request'[s] = request[s],
         saved' \in Saves, saved <= saved'
  PROVE  RequestSound(s)'
<1>1. saved \in Nat /\ saved' \in Nat
  BY WireAssumption DEF WireInv, WireTypeOK, Saves
<1>2. request[s].pc \in {"load", "rev", "take", "compress", "answer"} \/ request[s] = Idle
  BY DEF WireInv, WireTypeOK, Asked
<1>3. CASE request[s] = Idle
  BY <1>3 DEF RequestSound, Idle
<1>4. CASE request[s] \in Asked
  <2>1. /\ request[s].asked \in Nat /\ request[s].rev \in Nat
        /\ request[s].body \in Bodies => request[s].body.saves \in Nat
    BY <1>4 DEF Asked, Bodies, Saves
  <2>2. QED
    BY <1>1, <2>1 DEF RequestSound, Carries
<1>5. QED
  BY <1>3, <1>4 DEF WireInv, WireTypeOK

LEMMA KeptKept ==
  ASSUME WireInv, saved' \in Saves, saved <= saved', UNCHANGED kept
  PROVE  \A r \in Resources : KeptSound(r)'
<1> SUFFICES ASSUME NEW r \in Resources, kept[r] # None PROVE KeptSound(r)'
  BY DEF KeptSound
<1>1. KeptSound(r) /\ kept[r].body \in Bodies
  BY DEF WireInv, WireTypeOK
<1>2. kept[r].body.saves + 1 \in Nat /\ 0 \in Nat /\ saved \in Nat /\ saved' \in Nat
  BY <1>1 DEF Bodies, Saves, WireInv, WireTypeOK
<1>3. QED
  BY <1>1, <1>2, AlikeGrows DEF KeptSound

\* A request that is not idle is one that was asked.
LEMMA Live ==
  ASSUME WireTypeOK, NEW q \in Requests, request[q].pc # "idle"
  PROVE  request[q] \in Asked
BY DEF WireTypeOK, Idle

\* A step of one request alone, with nothing else to show of the others.
LEMMA OneRequest ==
  ASSUME WireInv, NEW q \in Requests, NEW x \in Asked \cup {Idle},
         request' = [request EXCEPT ![q] = x], RequestSound(q)',
         UNCHANGED <<saved, kept>>, memo' \in Seq(Sound)
  PROVE  WireInv'
<1>1. saved' \in Saves /\ saved <= saved'
  BY DEF WireInv, WireTypeOK, Saves
<1>2. \A s \in Requests : RequestSound(s)'
  <2> SUFFICES ASSUME NEW s \in Requests, s # q PROVE RequestSound(s)'
    OBVIOUS
  <2>1. request'[s] = request[s]
    BY DEF WireInv, WireTypeOK
  <2>2. QED
    BY <1>1, <2>1, RequestKept DEF WireInv
<1>3. \A r \in Resources : KeptSound(r)'
  BY <1>1, KeptKept
<1>4. \A e \in Sound : e \in Entries
  BY DEF Sound
<1>5. memo' \in Seq(Entries)
  BY <1>4
<1>6. WireTypeOK'
  BY <1>1, <1>5 DEF WireInv, WireTypeOK
<1>7. QED
  BY <1>2, <1>3, <1>6 DEF WireInv, MemoSound

LEMMA InitSound ==
  ASSUME Init
  PROVE  WireInv
<1>1. saved \in Saves /\ memo \in Seq(Sound) /\ memo \in Seq(Entries)
  BY WireAssumption, EmptySeq DEF Init, Saves
<1>2. \A q \in Requests : RequestSound(q)
  BY DEF Init, RequestSound, Idle
<1>3. \A r \in Resources : KeptSound(r)
  BY DEF Init, KeptSound
<1>4. WireTypeOK
  BY <1>1 DEF Init, WireTypeOK
<1>5. QED
  BY <1>1, <1>2, <1>3, <1>4 DEF WireInv, MemoSound

LEMMA LoadSound ==
  ASSUME WireInv, NEW q \in Requests, Load(q)
  PROVE  WireInv'
<1> DEFINE x == [request[q] EXCEPT !.pc = "rev", !.body = Body(saved, request[q].caller, FALSE)]
<1>1. request[q] \in Asked /\ request[q].asked <= saved
  BY Live DEF Load, WireInv, RequestSound
<1>2. Body(saved, request[q].caller, FALSE) \in Bodies
  BY <1>1 DEF Body, Bodies, Asked, WireInv, WireTypeOK
<1>3. x \in Asked
  BY <1>1, <1>2 DEF Asked
<1>4. request' = [request EXCEPT ![q] = x] /\ request'[q] = x
  BY DEF Load, WireInv, WireTypeOK
<1>5. RequestSound(q)'
  BY <1>1, <1>2, <1>4 DEF RequestSound, Carries, Body, Load, Asked, Saves, WireInv, WireTypeOK
<1>6. QED
  BY <1>3, <1>4, <1>5, OneRequest DEF Load, WireInv, MemoSound, server

LEMMA ReadRevSound ==
  ASSUME WireInv, NEW q \in Requests, ReadRev(q)
  PROVE  WireInv'
<1> DEFINE spans == request[q].body.spanned \/ request[q].body.saves # saved
           x == [request[q] EXCEPT !.pc = "take", !.rev = saved, !.body.spanned = spans]
<1>1. request[q] \in Asked /\ request[q].asked <= saved /\ Carries(q)
  BY Live DEF ReadRev, WireInv, RequestSound
<1>2. x \in Asked /\ x.body = [request[q].body EXCEPT !.spanned = spans] /\ x.body \in Bodies
  BY <1>1 DEF Asked, Bodies, Carries, WireInv, WireTypeOK
<1>3. request' = [request EXCEPT ![q] = x] /\ request'[q] = x
  BY DEF ReadRev, WireInv, WireTypeOK
<1>4. /\ x.pc = "take" /\ x.asked = request[q].asked /\ x.rev = saved
      /\ x.caller = request[q].caller
      /\ x.body.saves = request[q].body.saves /\ x.body.for = request[q].body.for
      /\ x.body.spanned \/ x.body.saves = saved
      /\ request[q].body.spanned => x.body.spanned
  BY <1>1, <1>2 DEF Asked, Carries, Bodies
<1>5. RequestSound(q)'
  <2> HIDE DEF x
  <2>1. /\ saved' = saved /\ saved \in Nat
        /\ request[q].body.saves \in Nat /\ request[q].asked \in Nat
    BY <1>1 DEF ReadRev, WireInv, WireTypeOK, Saves, Carries, Bodies, Asked
  <2>2. Carries(q)'
    BY <1>1, <1>2, <1>3, <1>4, <2>1 DEF Carries
  <2>3. request[q].body.saves <= saved
    BY <1>1 DEF Carries
  <2>4. QED
    BY <1>1, <1>3, <1>4, <2>1, <2>2, <2>3 DEF RequestSound
<1>6. QED
  BY <1>2, <1>3, <1>5, OneRequest DEF ReadRev, WireInv, MemoSound, server

\* The end of jsonPayload, for whatever body it answers with.
LEMMA AnsweredSound ==
  ASSUME WireInv, NEW q \in Requests, NEW body \in Bodies, Answered(q, body),
         request[q].pc \in {"take", "compress"},
         body.for = request[q].caller, body.saves <= request[q].rev,
         body.spanned \/ body.saves = request[q].rev,
         UNCHANGED <<saved, kept>>, memo' \in Seq(Sound)
  PROVE  WireInv'
<1> DEFINE status == IF /\ request[q].offers # None
                        /\ Etag(request[q].offers, request[q].enc) = Etag(body, request[q].enc)
                     THEN 304 ELSE 200
           x == [request[q] EXCEPT !.pc = "answer", !.body = body, !.rev = 0, !.status = status]
<1>1. request[q] \in Asked /\ RequestSound(q)
  BY Live DEF WireInv
<1>2. x \in Asked
  <2>1. 0 \in Saves
    BY WireAssumption DEF Saves
  <2>2. status \in {0, 200, 304}
    OBVIOUS
  <2> HIDE DEF status
  <2>3. QED
    BY <1>1, <2>1, <2>2 DEF Asked
<1>3. request' = [request EXCEPT ![q] = x] /\ request'[q] = x
  BY DEF Answered, WireInv, WireTypeOK
<1>4. /\ x.pc = "answer" /\ x.body = body /\ x.status = status
      /\ x.asked = request[q].asked /\ x.caller = request[q].caller
      /\ x.offers = request[q].offers
  BY <1>1 DEF Asked
<1>5. /\ saved \in Nat /\ body.saves \in Nat
      /\ request[q].asked \in Nat /\ request[q].rev \in Nat
      /\ request[q].asked <= request[q].rev /\ request[q].rev <= saved
  BY <1>1 DEF RequestSound, Asked, Bodies, Saves, WireInv, WireTypeOK
<1>6. status = 304 => /\ request[q].offers \in Bodies
                      /\ LET o == request[q].offers IN
                           Digest[o.for][o.saves] = Digest[body.for][body.saves]
  BY <1>1 DEF Asked, Etag
<1>7. RequestSound(q)'
  <2> HIDE DEF x, status
  <2>1. Carries(q)'
    BY <1>3, <1>4, <1>5 DEF Carries
  <2>2. QED
    BY <1>3, <1>4, <1>5, <1>6, <2>1 DEF RequestSound
<1>8. QED
  BY <1>2, <1>3, <1>7, OneRequest

LEMMA TakeHitSound ==
  ASSUME WireInv, NEW q \in Requests, TakeHit(q)
  PROVE  WireInv'
<1>1. PICK i \in DOMAIN memo : /\ memo[i].key = Key(q) /\ Current(memo[i], request[q].rev)
                               /\ memo' = Append(Others(Key(q)), memo[i])
                               /\ Answered(q, memo[i].body)
  BY DEF TakeHit
<1>2. memo[i] \in Sound /\ request[q] \in Asked
  BY Live DEF TakeHit, WireInv, MemoSound
<1>3. memo' \in Seq(Sound)
  BY <1>1, <1>2, OthersSound, AppendProperties DEF WireInv, MemoSound
<1>4. /\ memo[i].body \in Bodies /\ memo[i].body.for = request[q].caller
      /\ memo[i].body.saves <= request[q].rev
      /\ memo[i].body.spanned \/ memo[i].body.saves = request[q].rev
  BY <1>1, <1>2 DEF Sound, Entries, Key, Current
<1>5. QED
  BY <1>1, <1>3, <1>4, AnsweredSound DEF TakeHit

LEMMA TakeMissSound ==
  ASSUME WireInv, NEW q \in Requests, TakeMiss(q)
  PROVE  WireInv'
<1> DEFINE x == [request[q] EXCEPT !.pc = "compress"]
<1>1. request[q] \in Asked /\ RequestSound(q)
  BY Live DEF TakeMiss, WireInv
<1>2. x \in Asked /\ x.pc = "compress"
  BY <1>1 DEF Asked
<1>3. /\ x.asked = request[q].asked /\ x.rev = request[q].rev
      /\ x.caller = request[q].caller /\ x.body = request[q].body
  BY <1>1 DEF Asked
<1>4. request' = [request EXCEPT ![q] = x] /\ request'[q] = x
  BY DEF TakeMiss, WireInv, WireTypeOK
<1>5. RequestSound(q)'
  <2> HIDE DEF x
  <2>1. saved' = saved /\ request[q].pc = "take" /\ RequestSound(q)
    BY <1>1 DEF TakeMiss
  <2>2. QED
    BY <1>2, <1>3, <1>4, <2>1 DEF RequestSound, Carries
<1>6. memo' \in Seq(Sound)
  BY OthersSound DEF TakeMiss, WireInv, MemoSound
<1>7. QED
  BY <1>2, <1>4, <1>5, <1>6, OneRequest DEF TakeMiss

\* What is put is built for the caller of its key.
LEMMA PutEntry ==
  ASSUME WireInv, NEW q \in Requests, request[q].pc = "compress"
  PROVE  [key |-> Key(q), rev |-> request[q].rev, body |-> request[q].body,
          bytes |-> Length[request[q].body.for][request[q].enc][request[q].body.saves]] \in Sound
<1> DEFINE body == request[q].body
           e == [key |-> Key(q), rev |-> request[q].rev, body |-> body,
                 bytes |-> Length[body.for][request[q].enc][body.saves]]
<1>1. request[q] \in Asked /\ RequestSound(q)
  BY Live DEF WireInv
<1>2. /\ body \in Bodies /\ body.for = request[q].caller /\ body.saves <= request[q].rev
      /\ body.spanned \/ body.saves = request[q].rev
  BY <1>1 DEF RequestSound, Carries
<1>3. Length[body.for][request[q].enc][body.saves] \in Nat
  BY <1>1, <1>2, WireAssumption DEF Asked, Bodies
<1>4. Key(q) \in Resources \X Encodings \X Callers /\ Key(q)[3] = request[q].caller
  BY <1>1 DEF Key, Asked
<1>5. e \in Sound
  BY <1>1, <1>2, <1>3, <1>4 DEF Sound, Entries, Asked
<1>6. QED
  BY <1>5

LEMMA PutSound ==
  ASSUME WireInv, NEW q \in Requests, Put(q)
  PROVE  WireInv'
<1> DEFINE body == request[q].body
           e == [key |-> Key(q), rev |-> request[q].rev, body |-> body,
                 bytes |-> Length[body.for][request[q].enc][body.saves]]
<1>1. request[q].pc = "compress" /\ RequestSound(q)
  BY DEF Put, WireInv
<1>2. /\ body \in Bodies /\ body.for = request[q].caller /\ body.saves <= request[q].rev
      /\ body.spanned \/ body.saves = request[q].rev
  BY <1>1 DEF RequestSound, Carries
<1>3. e \in Sound
  BY <1>1, PutEntry
<1>4. memo' \in Seq(Sound)
  BY <1>3, EnterSound DEF Put, WireInv, MemoSound
<1>5. QED
  BY <1>1, <1>2, <1>4, AnsweredSound DEF Put

LEMMA SaveSound ==
  ASSUME WireInv, Save
  PROVE  WireInv'
<1>1. saved' \in Saves /\ saved <= saved'
  BY WireAssumption DEF Save, Saves, WireInv, WireTypeOK
<1>2. \A s \in Requests : RequestSound(s)'
  BY <1>1, RequestKept DEF Save, WireInv
<1>3. \A r \in Resources : KeptSound(r)'
  BY <1>1, KeptKept DEF Save
<1>4. QED
  BY <1>1, <1>2, <1>3 DEF Save, WireInv, WireTypeOK, MemoSound

LEMMA AskSound ==
  ASSUME WireInv, NEW q \in Requests, NEW x \in Asked, x.pc = "load", x.asked <= saved,
         request' = [request EXCEPT ![q] = x], UNCHANGED <<saved, server, kept>>
  PROVE  WireInv'
<1>1. request'[q] = x
  BY DEF WireInv, WireTypeOK
<1>2. RequestSound(q)'
  BY <1>1 DEF RequestSound
<1>3. QED
  BY <1>2, OneRequest DEF WireInv, MemoSound, server

LEMMA AskElsewhereSound ==
  ASSUME WireInv, NEW q \in Requests, AskElsewhere(q)
  PROVE  WireInv'
<1>1. PICK r \in Resources, c \in Callers, enc \in Encodings :
        request' = [request EXCEPT ![q] = Asking(FALSE, r, c, enc, None)]
  BY DEF AskElsewhere
<1>2. 0 \in Saves /\ 0 <= saved
  BY WireAssumption DEF Saves, WireInv, WireTypeOK
<1>3. /\ Asking(FALSE, r, c, enc, None) \in Asked
      /\ Asking(FALSE, r, c, enc, None).pc = "load"
      /\ Asking(FALSE, r, c, enc, None).asked <= saved
  BY <1>2 DEF Asking, Asked
<1>4. QED
  BY <1>1, <1>3, AskSound DEF AskElsewhere

LEMMA FetchSound ==
  ASSUME WireInv, NEW q \in Requests, NEW r \in Resources, NEW c \in Callers, Fetch(q, r, c)
  PROVE  WireInv'
<1> DEFINE offers == IF kept[r] = None THEN None ELSE kept[r].body
           x == Asking(TRUE, r, c, Preferred, offers)
<1>1. offers \in Bodies \cup {None}
  BY DEF WireInv, WireTypeOK
<1>2. 0 \in Saves /\ saved \in Saves /\ saved <= saved /\ Preferred \in Encodings
  BY WireAssumption DEF Saves, WireInv, WireTypeOK
<1>3. x \in Asked /\ x.pc = "load" /\ x.asked <= saved
  <2> HIDE DEF offers
  <2>1. QED
    BY <1>1, <1>2 DEF Asking, Asked
<1>4. request' = [request EXCEPT ![q] = x] /\ UNCHANGED <<saved, server, kept>>
  BY DEF Fetch
<1>5. QED
  BY <1>3, <1>4, AskSound

\* A request that ends leaves the browser's cache as it was.
LEMMA LoseSound ==
  ASSUME WireInv, NEW q \in Requests, request' = [request EXCEPT ![q] = Idle],
         UNCHANGED <<saved, server, kept>>
  PROVE  WireInv'
<1>1. request'[q] = Idle
  BY DEF WireInv, WireTypeOK
<1>2. RequestSound(q)'
  BY <1>1 DEF RequestSound, Idle
<1>3. QED
  BY <1>2, OneRequest DEF WireInv, MemoSound, server

\* The body an answer leaves in the browser.
Received(q) ==
  IF request[q].status = 304
  THEN [request[q].offers EXCEPT !.spanned = request[q].body.spanned]
  ELSE request[q].body

\* That is the body of a 200, or the one that was offered, whose digest is the
\* same, and then either that is as recent or it has an equal.
LEMMA ResponseSound ==
  ASSUME WireInv, NEW q \in Requests, request[q].pc = "answer",
         NEW body, body = Received(q)
  PROVE  /\ body \in Bodies
         /\ body.for = request[q].caller \/ Alike(body, request[q].caller, 0..saved)
         /\ body.saves < request[q].asked =>
              body.spanned \/ Alike(body, request[q].caller, (body.saves + 1)..saved)
<1> DEFINE sent == request[q].body  o == request[q].offers
<1>1. request[q] \in Asked /\ RequestSound(q) /\ Carries(q)
  BY Live DEF WireInv, RequestSound
<1>2. /\ sent \in Bodies /\ sent.for = request[q].caller /\ sent.saves <= saved
      /\ sent.spanned \/ request[q].asked <= sent.saves
      /\ sent.saves \in Saves /\ sent.saves \in Nat
      /\ saved \in Nat /\ request[q].asked \in Nat
  BY <1>1 DEF Carries, Bodies, Saves, Asked, WireInv, WireTypeOK
<1>3. CASE request[q].status # 304
  BY <1>2, <1>3 DEF Received
<1>4. CASE request[q].status = 304
  <2>1. o \in Bodies /\ Digest[o.for][o.saves] = Digest[sent.for][sent.saves]
    BY <1>1, <1>4 DEF RequestSound
  <2>2. body \in Bodies /\ body.for = o.for /\ body.saves = o.saves /\ body.spanned = sent.spanned
    BY <1>2, <1>4, <2>1 DEF Bodies, Received
  <2>3. Digest[request[q].caller][sent.saves] = Digest[body.for][body.saves]
    BY <1>2, <2>1, <2>2
  <2>4. body.for = request[q].caller \/ Alike(body, request[q].caller, 0..saved)
    BY <1>2, <2>3 DEF Alike
  <2>5. ASSUME body.saves < request[q].asked, ~sent.spanned
        PROVE  Alike(body, request[q].caller, (body.saves + 1)..saved)
    <3>1. body.saves \in Nat
      BY <2>2 DEF Bodies, Saves
    <3>2. sent.saves \in (body.saves + 1)..saved /\ sent.saves # body.saves
      BY <1>2, <2>5, <3>1
    <3>3. QED
      BY <2>3, <3>2 DEF Alike
  <2>6. QED
    BY <2>2, <2>4, <2>5
<1>5. QED
  BY <1>3, <1>4

LEMMA ArriveSound ==
  ASSUME WireInv, NEW q \in Requests, Arrive(q)
  PROVE  WireInv'
<1>1. CASE ~request[q].home
  BY <1>1, LoseSound DEF Arrive, server
<1>2. CASE request[q].home
  <2> DEFINE body == Received(q)
  <2>1. request[q].pc = "answer" /\ request[q] \in Asked
    BY Live DEF Arrive, WireInv
  <2>2. /\ body \in Bodies
        /\ body.for = request[q].caller \/ Alike(body, request[q].caller, 0..saved)
        /\ body.saves < request[q].asked =>
             body.spanned \/ Alike(body, request[q].caller, (body.saves + 1)..saved)
    BY <2>1, ResponseSound
  <2>3. kept' = [kept EXCEPT ![request[q].res] = Response(q, body)] /\ request[q].res \in Resources
    BY <1>2, <2>1 DEF Arrive, Asked, Received
  <2> HIDE DEF body
  <2>4. Response(q, body) \in [body : Bodies, cookie : Callers, fresh : BOOLEAN, late : BOOLEAN]
    BY <2>1, <2>2 DEF Response, Asked
  <2>5. saved' = saved /\ saved' \in Saves /\ saved <= saved'
    BY WireAssumption DEF Arrive, Saves, WireInv, WireTypeOK
  <2>6. \A r \in Resources : KeptSound(r)'
    <3>1. ASSUME NEW r \in Resources, r # request[q].res PROVE KeptSound(r)'
      BY <2>3, <2>5, <3>1 DEF KeptSound, WireInv, WireTypeOK
    <3>2. ASSUME NEW r \in Resources, r = request[q].res PROVE KeptSound(r)'
      <4>1. kept'[r] = Response(q, body)
        BY <2>3, <3>2 DEF WireInv, WireTypeOK
      <4>2. kept'[r].body = body /\ kept'[r].cookie = request[q].caller
        BY <4>1 DEF Response
      <4>3. ASSUME kept'[r].late PROVE body.saves < request[q].asked
        <5> DEFINE late == body.saves < request[q].asked
        <5>1. Response(q, body).late = late
          BY DEF Response
        <5>2. QED
          BY <4>1, <4>3, <5>1
      <4>4. kept'[r].late =>
              body.spanned \/ Alike(body, request[q].caller, (body.saves + 1)..saved')
        BY <2>2, <2>5, <4>3
      <4>5. QED
        BY <2>2, <2>5, <4>2, <4>4 DEF KeptSound
    <3>3. QED
      BY <3>1, <3>2
  <2>7. \A s \in Requests : RequestSound(s)'
    <3>1. ASSUME NEW s \in Requests, s # q PROVE RequestSound(s)'
      <4>1. request'[s] = request[s]
        BY <3>1 DEF Arrive, WireInv, WireTypeOK
      <4>2. QED
        BY <2>5, <4>1, RequestKept DEF WireInv
    <3>2. RequestSound(q)'
      <4>1. request'[q] = Idle
        BY DEF Arrive, WireInv, WireTypeOK
      <4>2. QED
        BY <4>1 DEF RequestSound, Idle
    <3>3. QED
      BY <3>1, <3>2
  <2>8. WireTypeOK'
    BY <2>3, <2>4, <2>5 DEF Arrive, WireInv, WireTypeOK, server
  <2>9. QED
    BY <2>6, <2>7, <2>8 DEF Arrive, WireInv, MemoSound, server
<1>3. QED
  BY <1>1, <1>2

LEMMA LapseSound ==
  ASSUME WireInv, NEW r \in Resources, Lapse(r)
  PROVE  WireInv'
<1>1. /\ kept[r] \in [body : Bodies, cookie : Callers, fresh : BOOLEAN, late : BOOLEAN]
      /\ UNCHANGED <<saved, server, request>>
  BY DEF Lapse, WireInv, WireTypeOK
<1>2. /\ kept'[r] = [kept[r] EXCEPT !.fresh = FALSE]
      /\ \A s \in Resources \ {r} : kept'[s] = kept[s]
  BY DEF Lapse, WireInv, WireTypeOK
<1>3. \A s \in Resources : KeptSound(s)'
  <2>1. ASSUME NEW s \in Resources, s # r PROVE KeptSound(s)'
    BY <1>1, <1>2, <2>1 DEF KeptSound, WireInv
  <2>2. KeptSound(r)'
    <3>1. KeptSound(r) /\ kept[r] # None
      BY DEF Lapse, WireInv
    <3>2. QED
      BY <1>1, <1>2, <3>1 DEF KeptSound
  <2>3. QED
    BY <2>1, <2>2
<1>4. \A q \in Requests : RequestSound(q)'
  BY <1>1 DEF WireInv, RequestSound, Carries
<1>5. WireTypeOK'
  BY <1>1, <1>2 DEF Lapse, WireInv, WireTypeOK, server
<1>6. QED
  BY <1>1, <1>3, <1>4, <1>5 DEF WireInv, MemoSound, server

-----------------------------------------------------------------------------
LEMMA WireInvHolds == Spec => []WireInv
<1>1. Init => WireInv
  BY InitSound
<1>2. WireInv /\ [Next]_vars => WireInv'
  <2> SUFFICES ASSUME WireInv, [Next]_vars PROVE WireInv'
    OBVIOUS
  <2>1. CASE Save
    BY <2>1, SaveSound
  <2>2. ASSUME NEW r \in Resources, Lapse(r) PROVE WireInv'
    BY <2>2, LapseSound
  <2>3. ASSUME NEW q \in Requests,
               Load(q) \/ ReadRev(q) \/ TakeHit(q) \/ TakeMiss(q) \/ Put(q)
        PROVE  WireInv'
    BY <2>3, LoadSound, ReadRevSound, TakeHitSound, TakeMissSound, PutSound
  <2>4. ASSUME NEW q \in Requests, AskElsewhere(q) \/ Arrive(q) \/ Lose(q) PROVE WireInv'
    BY <2>4, AskElsewhereSound, ArriveSound, LoseSound DEF Lose
  <2>5. ASSUME NEW q \in Requests, NEW r \in Resources, NEW c \in Callers, Fetch(q, r, c)
        PROVE  WireInv'
    BY <2>5, FetchSound
  <2>6. CASE UNCHANGED vars
    BY <2>6 DEF vars, server, WireInv, WireTypeOK, MemoSound, RequestSound, Carries, KeptSound,
                Alike
  <2>7. QED
    BY <2>1, <2>2, <2>3, <2>4, <2>5, <2>6 DEF Next
<1>3. QED
  BY <1>1, <1>2, PTL DEF Spec

\* What a caller is answered, anew, from the memo of payload.ts or by a 304, was
\* built for that caller, and so is what the browser keeps under a cookie, unless
\* two callers' bodies have one ETag.
THEOREM AnswersOwnCaller == Spec => []BuiltForAsker
<1>1. WireInv => BuiltForAsker
  <2> SUFFICES ASSUME WireInv PROVE BuiltForAsker
    OBVIOUS
  <2>1. \A q \in Requests : request[q].pc = "answer" => request[q].body.for = request[q].caller
    BY DEF WireInv, RequestSound, Carries
  <2>2. \A r \in Resources : kept[r] # None =>
          \/ kept[r].body.for = kept[r].cookie
          \/ Alike(kept[r].body, kept[r].cookie, 0..saved)
    BY DEF WireInv, KeptSound
  <2>3. QED
    BY <2>1, <2>2 DEF BuiltForAsker
<1>2. QED
  BY <1>1, WireInvHolds, PTL

\* A browser that asked after a save keeps a body with it, but for a save between
\* a load and its revision (handlers.ts:158-164), or two bodies with one ETag.
THEOREM StaleByCause == Spec => []StaleOnlyBy
<1>1. WireInv => StaleOnlyBy
  BY DEF WireInv, KeptSound, StaleOnlyBy
<1>2. QED
  BY <1>1, WireInvHolds, PTL

-----------------------------------------------------------------------------
(* The bytes.  Counts is recursive, so what it computes is proved by the    *)
(* least number for which it would not: a set of naturals that is not empty *)
(* has a least one.                                                         *)

LEMMA Least ==
  ASSUME NEW T, T \subseteq Nat, T # {}
  PROVE  \E n \in T : \A m \in T : n <= m
<1>1. PICK n \in T : \A m \in T : <<m, n>> \notin OpToRel(<, Nat)
  BY WFMin, NatLessThanWellFounded
<1>2. \A m \in T : ~(m < n)
  BY <1>1 DEF OpToRel
<1>3. QED
  BY <1>2

LEMMA CountsExist ==
  ASSUME NEW b \in [Nat -> Nat], NEW k \in Nat
  PROVE  \E f \in [0..k -> Nat] : \A n \in 0..k : f[n] = IF n = 0 THEN 0 ELSE f[n - 1] + b[n]
<1> DEFINE Adds(f, n) == f[n] = IF n = 0 THEN 0 ELSE f[n - 1] + b[n]
           Good(j) == \E f \in [0..j -> Nat] : \A n \in 0..j : Adds(f, n)
           Bad == {j \in Nat : ~Good(j)}
<1> SUFFICES ASSUME Bad # {} PROVE FALSE
  OBVIOUS
<1>1. PICK j \in Bad : \A i \in Bad : j <= i
  BY Least
<1>2. j \in Nat /\ ~Good(j) /\ \A i \in Nat : i < j => Good(i)
  <2>1. j \in Nat /\ ~Good(j)
    BY <1>1
  <2>2. ASSUME NEW i \in Nat, i < j PROVE Good(i)
    <3>1. i \notin Bad
      <4> HIDE DEF Bad
      <4>1. QED
        BY <1>1, <2>1, <2>2
    <3>2. QED
      BY <3>1
  <2>3. QED
    BY <2>1, <2>2
<1>3. Good(0)
  <2>1. [n \in 0..0 |-> 0] \in [0..0 -> Nat] /\ \A n \in 0..0 : [i \in 0..0 |-> 0][n] = 0 /\ n = 0
    OBVIOUS
  <2>2. QED
    BY <2>1
<1>4. ASSUME j # 0 PROVE Good(j)
  <2>1. j - 1 \in Nat /\ Good(j - 1)
    <3> HIDE DEF Good, Bad
    <3>1. QED
      BY <1>2, <1>4
  <2>2. PICK f \in [0..(j - 1) -> Nat] : \A n \in 0..(j - 1) : Adds(f, n)
    BY <2>1
  <2> DEFINE g == [n \in 0..j |-> IF n = j THEN f[j - 1] + b[j] ELSE f[n]]
  <2>3. f[j - 1] \in Nat /\ b[j] \in Nat /\ \A n \in 0..j : n # j => n \in 0..(j - 1)
    <3> HIDE DEF Bad, Good
    <3>1. QED
      BY <2>1, <1>2
  <2>4. g \in [0..j -> Nat]
    <3>1. \A n \in 0..j : (IF n = j THEN f[j - 1] + b[j] ELSE f[n]) \in Nat
      <4> HIDE DEF Bad, Good
      <4> SUFFICES ASSUME NEW n \in 0..j PROVE (IF n = j THEN f[j - 1] + b[j] ELSE f[n]) \in Nat
        OBVIOUS
      <4>1. n # j => f[n] \in Nat
        BY <2>3
      <4>2. \A x, y \in Nat : x + y \in Nat
        OBVIOUS
      <4>3. f[j - 1] + b[j] \in Nat
        BY <2>3, <4>2, Zenon
      <4>4. QED
        BY <4>1, <4>3
    <3>2. QED
      BY <3>1
  <2> HIDE DEF Bad, Good
  <2>5. \A n \in 0..j : Adds(g, n)
    <3> SUFFICES ASSUME NEW n \in 0..j PROVE Adds(g, n)
      OBVIOUS
    <3>1. CASE n = j
      BY <3>1, <1>2, <1>4, <2>1
    <3>2. CASE n # j
      <4>1. n \in 0..(j - 1) /\ n \in Nat /\ (n # 0 => n - 1 \in 0..j /\ n - 1 # j)
        BY <3>2, <1>2
      <4>2. Adds(f, n)
        BY <2>2, <4>1
      <4>3. QED
        BY <3>2, <4>1, <4>2
    <3>3. QED
      BY <3>1, <3>2
  <2> HIDE DEF g, Adds
  <2>6. QED
    BY <2>4, <2>5 DEF Good
<1>5. QED
  <2> HIDE DEF Good, Bad
  <2>1. QED
    BY <1>2, <1>3, <1>4

LEMMA CountsStep ==
  ASSUME NEW s \in Seq(Entries)
  PROVE  /\ Counts(s) \in [0..Len(s) -> Nat]
         /\ Counts(s)[0] = 0
         /\ \A n \in 1..Len(s) : Counts(s)[n] = Counts(s)[n - 1] + s[n].bytes
<1> DEFINE b == [n \in Nat |-> IF n \in 1..Len(s) THEN s[n].bytes ELSE 0]
           Is(f) == f = [n \in 0..Len(s) |-> IF n = 0 THEN 0 ELSE f[n - 1] + s[n].bytes]
           c == Counts(s)
<1>1. b \in [Nat -> Nat] /\ (\A n \in 1..Len(s) : b[n] = s[n].bytes) /\ Len(s) \in Nat
  <2>1. \A n \in 1..Len(s) : s[n] \in Entries
    OBVIOUS
  <2>2. \A n \in 1..Len(s) : s[n].bytes \in Nat
    BY <2>1 DEF Entries
  <2>3. Len(s) \in Nat
    OBVIOUS
  <2>4. QED
    BY <2>2, <2>3
<1> HIDE DEF b
<1>2. PICK f \in [0..Len(s) -> Nat] : \A n \in 0..Len(s) : f[n] = IF n = 0 THEN 0 ELSE f[n - 1] + b[n]
  BY <1>1, CountsExist
<1>3. \A n \in 0..Len(s) : f[n] = IF n = 0 THEN 0 ELSE f[n - 1] + s[n].bytes
  <2>1. \A n \in 0..Len(s) : n # 0 => n \in 1..Len(s)
    OBVIOUS
  <2>2. QED
    BY <1>1, <1>2, <2>1
<1>4. Is(f)
  BY <1>3
<1>5. c = CHOOSE g : Is(g)
  BY DEF Counts
<1>6. Is(c)
  <2> HIDE DEF c, Is
  <2>1. QED
    BY <1>4, <1>5
<1> HIDE DEF c
<1>7. /\ DOMAIN c = 0..Len(s)
      /\ \A n \in 0..Len(s) : c[n] = IF n = 0 THEN 0 ELSE c[n - 1] + s[n].bytes
  BY <1>6
<1>8. \A n \in 0..Len(s) : c[n] = f[n]
  <2> DEFINE Bad == {n \in 0..Len(s) : c[n] # f[n]}
  <2> SUFFICES ASSUME Bad # {} PROVE FALSE
    OBVIOUS
  <2>1. PICK j \in Bad : \A i \in Bad : j <= i
    <3>1. Bad \subseteq Nat
      OBVIOUS
    <3> HIDE DEF Bad
    <3>2. QED
      BY <3>1, Least
  <2>2. j # 0 /\ j \in 0..Len(s)
    BY <1>1, <1>3, <1>7
  <2>3. j - 1 \in 0..Len(s) /\ j - 1 \notin Bad
    <3> HIDE DEF Bad
    <3>1. QED
      BY <1>1, <2>1, <2>2
  <2>4. c[j - 1] = f[j - 1]
    BY <2>3
  <2>5. c[j] = f[j]
    BY <2>2, <2>4, <1>3, <1>7
  <2>6. QED
    BY <2>1, <2>5
<1>9. c = f
  BY <1>6, <1>8
<1>10. QED
  <2>1. c \in [0..Len(s) -> Nat]
    BY <1>9
  <2>2. 0 \in 0..Len(s) /\ \A n \in 1..Len(s) : n \in 0..Len(s) /\ n # 0
    BY <1>1
  <2>3. c[0] = 0
    BY <1>7, <2>2
  <2>4. \A n \in 1..Len(s) : c[n] = c[n - 1] + s[n].bytes
    BY <1>7, <2>2
  <2>5. QED
    BY <2>1, <2>3, <2>4 DEF c

\* One entry more at the end of two stretches.
LEMMA CountsOneMore ==
  ASSUME NEW s \in Seq(Entries), NEW t \in Seq(Entries),
         NEW m \in 1..Len(s), NEW n \in 1..Len(t), s[m] = t[n],
         NEW a \in 0..Len(s), NEW b \in 0..Len(t),
         Counts(s)[m - 1] - Counts(s)[a] = Counts(t)[n - 1] - Counts(t)[b]
  PROVE  Counts(s)[m] - Counts(s)[a] = Counts(t)[n] - Counts(t)[b]
<1>1. Len(s) \in Nat /\ Len(t) \in Nat /\ m - 1 \in 0..Len(s) /\ n - 1 \in 0..Len(t)
  OBVIOUS
<1>2. Counts(s)[m] = Counts(s)[m - 1] + s[m].bytes
  BY CountsStep
<1>3. Counts(t)[n] = Counts(t)[n - 1] + s[m].bytes
  BY CountsStep
<1>4. /\ Counts(s)[m - 1] \in Nat /\ Counts(s)[a] \in Nat
      /\ Counts(t)[n - 1] \in Nat /\ Counts(t)[b] \in Nat
  BY <1>1, CountsStep
<1>5. s[m].bytes \in Nat
  <2>1. s[m] \in Entries
    OBVIOUS
  <2>2. QED
    BY <2>1 DEF Entries
<1> DEFINE p == Counts(s)[m - 1]  q == Counts(s)[a]
           u == Counts(t)[n - 1]  v == Counts(t)[b]  x == s[m].bytes
<1>6. p \in Nat /\ q \in Nat /\ u \in Nat /\ v \in Nat /\ x \in Nat /\ p - q = u - v
  BY <1>4, <1>5
<1>7. Counts(s)[m] = p + x /\ Counts(t)[n] = u + x
  BY <1>2, <1>3
<1> HIDE DEF p, q, u, v, x
<1>8. (p + x) - q = (u + x) - v
  BY <1>6
<1>9. QED
  BY <1>7, <1>8 DEF q, v

\* A stretch of one sequence counts what the same stretch of another counts.
LEMMA CountsOfStretch ==
  ASSUME NEW s \in Seq(Entries), NEW t \in Seq(Entries), 
         NEW a \in 0..Len(s), NEW b \in 0..Len(t), NEW c \in a..Len(s), NEW d \in b..Len(t),
         c - a = d - b, \A i \in (a + 1)..c : s[i] = t[i + (b - a)]
  PROVE  Counts(s)[c] - Counts(s)[a] = Counts(t)[d] - Counts(t)[b]
<1> DEFINE k == c - a
           Same(i) == Counts(s)[a + i] - Counts(s)[a] = Counts(t)[b + i] - Counts(t)[b]
           Bad == {i \in 0..k : ~Same(i)}
<1>1. /\ Len(s) \in Nat /\ Len(t) \in Nat /\ k \in Nat /\ a \in Nat /\ b \in Nat
      /\ a + k = c /\ b + k = d
  OBVIOUS
<1>2. Same(0)
  <2>1. Counts(s)[a] \in Nat /\ Counts(t)[b] \in Nat
    BY <1>1, CountsStep
  <2>2. a + 0 = a /\ b + 0 = b
    OBVIOUS
  <2>3. QED
    BY <2>1, <2>2
<1>3. ASSUME NEW j \in 1..k, Same(j - 1) PROVE Same(j)
  <2> DEFINE m == a + j  n == b + j
  <2>1. /\ m \in 1..Len(s) /\ n \in 1..Len(t) /\ m + (b - a) = n /\ m \in (a + 1)..c
        /\ a + (j - 1) = m - 1 /\ b + (j - 1) = n - 1
    BY <1>1
  <2>2. s[m] = t[n]
    BY <2>1, Zenon
  <2>3. Counts(s)[m - 1] - Counts(s)[a] = Counts(t)[n - 1] - Counts(t)[b]
    BY <1>3, <2>1, Zenon
  <2> HIDE DEF m, n
  <2>4. Counts(s)[m] - Counts(s)[a] = Counts(t)[n] - Counts(t)[b]
    BY <1>1, <2>1, <2>2, <2>3, CountsOneMore
  <2>5. QED
    BY <2>4 DEF m, n
<1> HIDE DEF Same
<1>4. Bad = {}
  <2> SUFFICES ASSUME Bad # {} PROVE FALSE
    OBVIOUS
  <2>1. PICK j \in Bad : \A i \in Bad : j <= i
    <3>1. Bad \subseteq Nat
      OBVIOUS
    <3> HIDE DEF Bad
    <3>2. QED
      BY <3>1, Least
  <2>2. j \in 0..k /\ ~Same(j)
    OBVIOUS
  <2>3. j \in 1..k /\ j - 1 \in 0..k /\ j - 1 \notin Bad
    <3> HIDE DEF Bad
    <3>1. QED
      BY <1>2, <2>1, <2>2
  <2>4. Same(j - 1)
    BY <2>3
  <2>5. QED
    BY <1>3, <2>2, <2>3, <2>4
<1>5. Same(k)
  <2>1. k \in 0..k
    BY <1>1
  <2>2. QED
    BY <1>4, <2>1
<1>6. QED
  BY <1>1, <1>5, Zenon DEF Same

LEMMA BytesOfAppend ==
  ASSUME NEW s \in Seq(Entries), NEW e \in Entries
  PROVE  Bytes(Append(s, e)) = Bytes(s) + e.bytes
<1> DEFINE t == Append(s, e)
           k == Len(s)
<1>1. /\ t \in Seq(Entries) /\ Len(t) = k + 1 /\ k \in Nat
      /\ (\A i \in 1..k : t[i] = s[i]) /\ t[k + 1] = e
  BY AppendProperties
<1> HIDE DEF t
<1>2. \A i \in (0 + 1)..k : t[i] = s[i + (0 - 0)]
  BY <1>1
<1>3. /\ 0 \in 0..Len(t) /\ 0 \in 0..Len(s) /\ k \in 0..Len(t) /\ k \in 0..Len(s)
      /\ Len(t) \in 1..Len(t) /\ Len(t) - 1 = k
  BY <1>1
<1> HIDE DEF k
<1>4. Counts(t)[k] - Counts(t)[0] = Counts(s)[k] - Counts(s)[0]
  BY <1>1, <1>2, <1>3, CountsOfStretch
<1>5. /\ Counts(t)[0] = 0 /\ Counts(t)[k] \in Nat
      /\ Counts(t)[Len(t)] = Counts(t)[Len(t) - 1] + t[Len(t)].bytes
  BY <1>1, <1>3, CountsStep
<1>6. Counts(s)[0] = 0 /\ Counts(s)[k] \in Nat
  BY <1>3, CountsStep
<1>7. Counts(t)[k] = Counts(s)[k]
  BY <1>4, <1>5, <1>6
<1>8. Counts(t)[Len(t)] = Counts(t)[k] + e.bytes
  BY <1>1, <1>3, <1>5
<1>9. QED
  BY <1>7, <1>8 DEF Bytes, t, k

\* A part of a sequence, and what it counts.
LEMMA BytesOfPart ==
  ASSUME NEW s \in Seq(Entries), NEW n \in 0..Len(s), NEW m \in n..Len(s)
  PROVE  /\ SubSeq(s, n + 1, m) \in Seq(Entries)
         /\ Len(SubSeq(s, n + 1, m)) = m - n
         /\ \A i \in 1..(m - n) : SubSeq(s, n + 1, m)[i] = s[n + i]
         /\ Bytes(SubSeq(s, n + 1, m)) = Counts(s)[m] - Counts(s)[n]
<1> DEFINE t == SubSeq(s, n + 1, m)
           k == m - n
<1>1. Len(s) \in Nat /\ n \in Nat /\ m \in Nat /\ k \in Nat /\ n + k = m /\ n <= m /\ m <= Len(s)
  OBVIOUS
<1>2. t \in Seq(Entries) /\ Len(t) = k /\ \A i \in 1..k : t[i] = s[n + i]
  <2>1. \A i \in (n + 1)..m : s[i] \in Entries
    BY <1>1
  <2>2. n + 1 \in Int /\ m \in Int
    BY <1>1
  <2>3. /\ t \in Seq(Entries) /\ Len(t) = IF n + 1 <= m THEN m - (n + 1) + 1 ELSE 0
        /\ \A i \in 1..(m - (n + 1) + 1) : t[i] = s[n + 1 + i - 1]
    BY <2>1, <2>2, SubSeqProperties
  <2> HIDE DEF t
  <2>4. m - (n + 1) + 1 = k /\ (n + 1 <= m \/ k = 0)
    BY <1>1
  <2>5. \A i \in 1..k : n + 1 + i - 1 = n + i
    BY <1>1
  <2> HIDE DEF k
  <2>6. Len(t) = k
    BY <2>3, <2>4
  <2>7. \A i \in 1..k : t[i] = s[n + 1 + i - 1]
    BY <2>3, <2>4
  <2>8. \A i \in 1..k : t[i] = s[n + i]
    BY <2>5, <2>7
  <2>9. QED
    BY <2>3, <2>6, <2>8
<1> HIDE DEF t
<1>3. \A i \in (0 + 1)..k : t[i] = s[i + (n - 0)]
  <2>1. \A i \in (0 + 1)..k : i \in 1..k /\ i + (n - 0) = n + i
    BY <1>1
  <2>2. QED
    BY <1>2, <2>1
<1>4. /\ 0 \in 0..Len(t) /\ k \in 0..Len(t) /\ k - 0 = m - n
  BY <1>1, <1>2
<1> HIDE DEF k
<1>5. Counts(t)[k] - Counts(t)[0] = Counts(s)[m] - Counts(s)[n]
  BY <1>1, <1>2, <1>3, <1>4, CountsOfStretch
<1>6. Counts(t)[0] = 0 /\ Counts(t)[k] \in Nat
  BY <1>2, <1>4, CountsStep
<1>7. Counts(s)[m] \in Nat /\ Counts(s)[n] \in Nat
  <2>1. m \in 0..Len(s) /\ n \in 0..Len(s)
    BY <1>1
  <2>2. QED
    BY <2>1, CountsStep
<1>8. Counts(t)[k] = Counts(s)[m] - Counts(s)[n]
  BY <1>5, <1>6, <1>7
<1>9. QED
  BY <1>2, <1>8 DEF Bytes, t, k

\* The same, for a part that begins at a place.
LEMMA BytesFrom ==
  ASSUME NEW s \in Seq(Entries), NEW l \in 1..(Len(s) + 1), NEW m \in (l - 1)..Len(s)
  PROVE  /\ SubSeq(s, l, m) \in Seq(Entries)
         /\ Len(SubSeq(s, l, m)) = m - (l - 1)
         /\ \A i \in 1..(m - (l - 1)) : SubSeq(s, l, m)[i] = s[l - 1 + i]
         /\ Bytes(SubSeq(s, l, m)) = Counts(s)[m] - Counts(s)[l - 1]
<1> DEFINE n == l - 1
<1>1. n \in 0..Len(s) /\ m \in n..Len(s) /\ n + 1 = l
  OBVIOUS
<1> HIDE DEF n
<1>2. /\ SubSeq(s, n + 1, m) \in Seq(Entries)
      /\ Len(SubSeq(s, n + 1, m)) = m - n
      /\ \A i \in 1..(m - n) : SubSeq(s, n + 1, m)[i] = s[n + i]
      /\ Bytes(SubSeq(s, n + 1, m)) = Counts(s)[m] - Counts(s)[n]
  BY <1>1, BytesOfPart
<1>3. QED
  BY <1>1, <1>2, Zenon DEF n

LEMMA BytesOfConcat ==
  ASSUME NEW s \in Seq(Entries), NEW t \in Seq(Entries)
  PROVE  Bytes(s \o t) = Bytes(s) + Bytes(t)
<1> DEFINE u == s \o t
           k == Len(s)
           m == Len(t)
<1>1. /\ u \in Seq(Entries) /\ Len(u) = k + m /\ k \in Nat /\ m \in Nat
      /\ \A i \in 1..(k + m) : u[i] = IF i <= k THEN s[i] ELSE t[i - k]
  BY ConcatProperties
<1> HIDE DEF u
<1>2. /\ \A i \in (0 + 1)..k : u[i] = s[i + (0 - 0)]
      /\ \A i \in (k + 1)..(k + m) : u[i] = t[i + (0 - k)]
  <2>1. \A i \in (0 + 1)..k : i \in 1..(k + m) /\ i <= k /\ i + (0 - 0) = i
    BY <1>1
  <2>2. \A i \in (k + 1)..(k + m) : i \in 1..(k + m) /\ ~(i <= k) /\ i + (0 - k) = i - k
    BY <1>1
  <2> HIDE DEF k, m
  <2>3. \A i \in (0 + 1)..k : u[i] = s[i + (0 - 0)]
    BY <1>1, <2>1
  <2>4. \A i \in (k + 1)..(k + m) : u[i] = t[i + (0 - k)]
    BY <1>1, <2>2
  <2>5. QED
    BY <2>3, <2>4
<1>3. /\ 0 \in 0..Len(u) /\ 0 \in 0..k /\ k \in 0..Len(u) /\ k \in 0..k /\ 0 \in 0..m /\ m \in 0..m
      /\ k + m \in k..Len(u) /\ k + m \in 0..Len(u) /\ (k + m) - k = m - 0
  BY <1>1
<1>4. Counts(u)[k] - Counts(u)[0] = Counts(s)[k] - Counts(s)[0]
  BY <1>1, <1>2, <1>3, CountsOfStretch
<1>5. Counts(u)[k + m] - Counts(u)[k] = Counts(t)[m] - Counts(t)[0]
  <2> DEFINE l == k + m
  <2>1. l \in k..Len(u) /\ l - k = m - 0 /\ \A i \in (k + 1)..l : u[i] = t[i + (0 - k)]
    BY <1>2, <1>3
  <2>4. 0 \in 0..Len(t) /\ m \in 0..Len(t) /\ k \in 0..Len(u)
    BY <1>3
  <2> HIDE DEF l, k, m
  <2>2. Counts(u)[l] - Counts(u)[k] = Counts(t)[m] - Counts(t)[0]
    BY <1>1, <2>1, <2>4, CountsOfStretch
  <2>3. QED
    BY <2>2 DEF l
<1> HIDE DEF k, m
<1>6. /\ Counts(u)[0] = 0 /\ Counts(u)[k] \in Nat /\ Counts(u)[k + m] \in Nat
      /\ Counts(s)[0] = 0 /\ Counts(s)[k] \in Nat /\ Counts(t)[0] = 0 /\ Counts(t)[m] \in Nat
  BY <1>1, <1>3, CountsStep DEF k, m
<1>7. Counts(u)[k + m] = Counts(s)[k] + Counts(t)[m]
  BY <1>4, <1>5, <1>6
<1>8. QED
  BY <1>1, <1>7 DEF Bytes, u, k, m

-----------------------------------------------------------------------------
\* No key is held twice.
Distinct(entries) == \A i, j \in DOMAIN entries : entries[i].key = entries[j].key => i = j

LEMMA OthersCounted ==
  ASSUME memo \in Seq(Entries), Distinct(memo), NEW key
  PROVE  /\ Others(key) \in Seq(Entries)
         /\ Bytes(Others(key)) = Bytes(memo) - HeldBytes(key)
         /\ HeldBytes(key) \in Nat
         /\ Len(Others(key)) <= Len(memo)
         /\ Held(key) # {} => Len(Others(key)) = Len(memo) - 1
         /\ Distinct(Others(key))
         /\ \A i \in DOMAIN Others(key) : Others(key)[i].key # key
<1>1. /\ Len(memo) \in Nat /\ DOMAIN memo = 1..Len(memo)
      /\ \A n \in 0..Len(memo) : Counts(memo)[n] \in Nat
      /\ Counts(memo)[0] = 0
  BY CountsStep
<1>2. CASE Held(key) = {}
  <2>1. Others(key) = memo /\ HeldBytes(key) = 0
    BY <1>2 DEF Others, HeldBytes
  <2>2. \A i \in DOMAIN memo : memo[i].key # key
    BY <1>2 DEF Held
  <2>3. Bytes(memo) \in Nat
    BY <1>1 DEF Bytes
  <2>4. QED
    BY <1>1, <1>2, <2>1, <2>2, <2>3
<1>3. CASE Held(key) # {}
  <2> DEFINE h == CHOOSE i \in Held(key) : TRUE
             s == SubSeq(memo, 1, h - 1)
             t == SubSeq(memo, h + 1, Len(memo))
             place(i) == IF i < h THEN i ELSE i + 1
  <2>1. h \in DOMAIN memo /\ memo[h].key = key
    BY <1>3 DEF Held
  <2>2. Others(key) = s \o t /\ HeldBytes(key) = memo[h].bytes
    BY <1>3 DEF Others, HeldBytes, RemoveAt
  <2> HIDE DEF h
  <2>3. /\ h \in 1..Len(memo) /\ h \in Int /\ h - 1 \in 0..Len(memo) /\ h \in 0..Len(memo)
        /\ 1 \in 1..(Len(memo) + 1) /\ h - 1 \in (1 - 1)..Len(memo)
        /\ h + 1 \in 1..(Len(memo) + 1) /\ Len(memo) \in ((h + 1) - 1)..Len(memo)
        /\ (h - 1) - (1 - 1) = h - 1 /\ (h + 1) - 1 = h /\ 1 - 1 = 0
    BY <1>1, <2>1
  <2>4. /\ s \in Seq(Entries) /\ Len(s) = h - 1
        /\ \A i \in 1..(h - 1) : s[i] = memo[0 + i]
        /\ Bytes(s) = Counts(memo)[h - 1] - Counts(memo)[0]
    <3> DEFINE g == h - 1  o == 1
    <3>1. o \in 1..(Len(memo) + 1) /\ g \in (o - 1)..Len(memo) /\ g - (o - 1) = g /\ o - 1 = 0
      BY <2>3
    <3> HIDE DEF g, o
    <3>2. /\ SubSeq(memo, o, g) \in Seq(Entries) /\ Len(SubSeq(memo, o, g)) = g - (o - 1)
          /\ \A i \in 1..(g - (o - 1)) : SubSeq(memo, o, g)[i] = memo[o - 1 + i]
          /\ Bytes(SubSeq(memo, o, g)) = Counts(memo)[g] - Counts(memo)[o - 1]
      BY <3>1, BytesFrom
    <3>3. QED
      BY <3>1, <3>2, Zenon DEF g, o
  <2>5. /\ t \in Seq(Entries) /\ Len(t) = Len(memo) - h
        /\ \A i \in 1..(Len(memo) - h) : t[i] = memo[h + i]
        /\ Bytes(t) = Counts(memo)[Len(memo)] - Counts(memo)[h]
    <3> DEFINE g == Len(memo)
    <3>1. h \in 0..Len(memo) /\ g \in h..Len(memo)
      BY <1>1, <2>3
    <3>2. QED
      BY <3>1, BytesOfPart
  <2> HIDE DEF s, t
  <2>6. /\ Others(key) \in Seq(Entries) /\ Len(Others(key)) = Len(memo) - 1
        /\ \A i \in 1..(Len(memo) - 1) : Others(key)[i] = memo[place(i)]
    <3>1. /\ s \o t \in Seq(Entries) /\ Len(s \o t) = Len(s) + Len(t)
          /\ \A i \in 1..(Len(s) + Len(t)) : (s \o t)[i] = IF i <= Len(s) THEN s[i] ELSE t[i - Len(s)]
      BY <2>4, <2>5, ConcatProperties
    <3>2. Len(s) + Len(t) = Len(memo) - 1
      BY <1>1, <2>3, <2>4, <2>5
    <3>3. ASSUME NEW i \in 1..(Len(memo) - 1) PROVE (s \o t)[i] = memo[place(i)]
      <4>1. CASE i < h
        <5>1. i <= Len(s) /\ i \in 1..(h - 1) /\ 0 + i = i
          BY <2>3, <2>4, <4>1
        <5>2. QED
          BY <2>4, <3>1, <3>2, <4>1, <5>1
      <4>2. CASE ~(i < h)
        <5>1. ~(i <= Len(s)) /\ i - Len(s) \in 1..(Len(memo) - h) /\ h + (i - Len(s)) = i + 1
          BY <1>1, <2>3, <2>4, <4>2
        <5>2. (s \o t)[i] = t[i - Len(s)]
          BY <3>1, <3>2, <5>1
        <5>3. t[i - Len(s)] = memo[h + (i - Len(s))]
          BY <2>5, <5>1
        <5>4. QED
          BY <4>2, <5>1, <5>2, <5>3
      <4>3. QED
        BY <4>1, <4>2
    <3>4. QED
      BY <2>2, <3>1, <3>2, <3>3
  <2>7. \A i \in 1..(Len(memo) - 1) : place(i) \in 1..Len(memo) /\ place(i) # h
    BY <1>1, <2>3
  <2>8. \A i, j \in 1..(Len(memo) - 1) : place(i) = place(j) => i = j
    BY <1>1, <2>3
  <2> HIDE DEF place
  <2>9. DOMAIN Others(key) = 1..(Len(memo) - 1)
    BY <2>6
  <2>10. Distinct(Others(key))
    <3>1. \A i, j \in DOMAIN memo : memo[i].key = memo[j].key => i = j
      BY DEF Distinct
    <3>2. ASSUME NEW i \in 1..(Len(memo) - 1), NEW j \in 1..(Len(memo) - 1),
                 Others(key)[i].key = Others(key)[j].key
          PROVE  i = j
      <4>1. memo[place(i)].key = memo[place(j)].key
        BY <2>6, <3>2
      <4>2. place(i) = place(j)
        BY <1>1, <2>7, <3>1, <4>1
      <4>3. QED
        BY <2>8, <4>2
    <3>3. QED
      BY <2>9, <3>2 DEF Distinct
  <2>11. \A i \in DOMAIN Others(key) : Others(key)[i].key # key
    <3>1. \A j \in DOMAIN memo : memo[j].key = key => j = h
      BY <2>1 DEF Distinct
    <3>2. QED
      BY <1>1, <2>6, <2>7, <2>9, <3>1
  <2>12. Bytes(Others(key)) = Bytes(memo) - HeldBytes(key) /\ HeldBytes(key) \in Nat
    <3>1. Bytes(Others(key)) = Bytes(s) + Bytes(t)
      BY <2>2, <2>4, <2>5, BytesOfConcat
    <3>2. Counts(memo)[h] = Counts(memo)[h - 1] + memo[h].bytes
      BY <2>3, CountsStep
    <3>3. memo[h].bytes \in Nat
      <4>1. memo[h] \in Entries
        BY <2>1
      <4>2. QED
        BY <4>1 DEF Entries
    <3>4. Counts(memo)[h] \in Nat /\ Counts(memo)[h - 1] \in Nat /\ Counts(memo)[Len(memo)] \in Nat
      BY <1>1, <2>3
    <3>5. Bytes(Others(key)) = Counts(memo)[Len(memo)] - memo[h].bytes
      BY <1>1, <2>4, <2>5, <3>1, <3>2, <3>3, <3>4
    <3>6. QED
      BY <2>2, <3>3, <3>5 DEF Bytes
  <2>13. QED
    BY <1>1, <2>6, <2>10, <2>11, <2>12
<1>4. QED
  BY <1>2, <1>3

LEMMA EvictingCounted ==
  ASSUME NEW entries \in Seq(Entries), Distinct(entries), Evicting(entries, Bytes(entries))
  PROVE  BytesCounted'
<1> DEFINE left(k) == Bytes(entries) - Counts(entries)[k]
           rest(k) == SubSeq(entries, k + 1, Len(entries))
<1>1. PICK n \in 0..Len(entries) :
        /\ n = Len(entries) \/ Fits(rest(n), left(n))
        /\ memo' = rest(n) /\ cachedBytes' = left(n)
  BY DEF Evicting
<1>2. Len(entries) \in n..Len(entries) /\ n \in Nat /\ Len(entries) \in Nat
  OBVIOUS
<1>3. /\ rest(n) \in Seq(Entries) /\ Len(rest(n)) = Len(entries) - n
      /\ \A i \in 1..(Len(entries) - n) : rest(n)[i] = entries[n + i]
      /\ Bytes(rest(n)) = left(n)
  BY <1>2, BytesOfPart DEF Bytes
<1> HIDE DEF rest
<1>4. Fits(rest(n), left(n))
  <2>1. ASSUME n = Len(entries) PROVE Len(rest(n)) = 0 /\ left(n) = 0
    <3>1. Counts(entries)[n] \in Nat /\ Bytes(entries) = Counts(entries)[n]
      BY <1>2, <2>1, CountsStep DEF Bytes
    <3>2. QED
      BY <1>2, <1>3, <2>1, <3>1
  <2>2. MaxEntries \in Nat /\ MaxBytes \in Nat
    BY WireAssumption
  <2> HIDE DEF left
  <2>3. QED
    BY <1>1, <2>1, <2>2 DEF Fits
<1>5. \A i, j \in DOMAIN rest(n) : rest(n)[i].key = rest(n)[j].key => i = j
  <2>1. DOMAIN rest(n) = 1..(Len(entries) - n) /\ DOMAIN entries = 1..Len(entries)
    BY <1>3
  <2>2. \A i, j \in DOMAIN entries : entries[i].key = entries[j].key => i = j
    BY DEF Distinct
  <2>3. \A i \in 1..(Len(entries) - n) : n + i \in 1..Len(entries)
    BY <1>2
  <2>4. ASSUME NEW i \in 1..(Len(entries) - n), NEW j \in 1..(Len(entries) - n),
               rest(n)[i].key = rest(n)[j].key
        PROVE  i = j
    <3>1. entries[n + i].key = entries[n + j].key
      BY <1>3, <2>4
    <3>2. n + i = n + j
      BY <2>1, <2>2, <2>3, <3>1
    <3>3. QED
      BY <1>2, <3>2
  <2>5. QED
    BY <2>1, <2>4
<1> HIDE DEF left
<1>6. QED
  BY <1>1, <1>3, <1>4, <1>5 DEF BytesCounted

LEMMA AppendDistinct ==
  ASSUME NEW s \in Seq(Entries), NEW e \in Entries, Distinct(s),
         \A i \in DOMAIN s : s[i].key # e.key
  PROVE  Distinct(Append(s, e))
<1> DEFINE t == Append(s, e)
<1>1. /\ t \in Seq(Entries) /\ Len(t) = Len(s) + 1 /\ Len(s) \in Nat
      /\ \A i \in 1..Len(s) : t[i] = s[i]
      /\ t[Len(s) + 1] = e
  BY AppendProperties
<1> HIDE DEF t
<1>2. DOMAIN t = 1..(Len(s) + 1) /\ DOMAIN s = 1..Len(s)
  BY <1>1
<1>3. \A i, j \in DOMAIN s : s[i].key = s[j].key => i = j
  BY DEF Distinct
<1>4. \A i \in 1..(Len(s) + 1) : i \in 1..Len(s) \/ i = Len(s) + 1
  BY <1>1
<1>5. ASSUME NEW i \in 1..(Len(s) + 1), NEW j \in 1..(Len(s) + 1), t[i].key = t[j].key
      PROVE  i = j
  <2>1. CASE i \in 1..Len(s) /\ j \in 1..Len(s)
    BY <1>1, <1>2, <1>3, <1>5, <2>1
  <2>2. CASE i = Len(s) + 1 /\ j = Len(s) + 1
    BY <2>2
  <2>3. CASE (i \in 1..Len(s) /\ j = Len(s) + 1) \/ (j \in 1..Len(s) /\ i = Len(s) + 1)
    BY <1>1, <1>2, <1>5, <2>3
  <2>4. QED
    BY <1>4, <2>1, <2>2, <2>3
<1>6. QED
  BY <1>2, <1>5 DEF Distinct, t

\* put: what is replaced is given back before what is put is counted.
LEMMA EnterCounted ==
  ASSUME memo \in Seq(Entries), BytesCounted, NEW e \in Entries, Enter(e)
  PROVE  BytesCounted'
<1> DEFINE s == Others(e.key)
<1>1. Distinct(memo) /\ cachedBytes = Bytes(memo)
  BY DEF BytesCounted, Distinct
<1>2. /\ s \in Seq(Entries) /\ Bytes(s) = Bytes(memo) - HeldBytes(e.key)
      /\ Distinct(s) /\ \A i \in DOMAIN s : s[i].key # e.key
  BY <1>1, OthersCounted
<1>3. Evicting(Append(s, e), cachedBytes - HeldBytes(e.key) + e.bytes)
  BY DEF Enter
<1> HIDE DEF s
<1>4. Append(s, e) \in Seq(Entries) /\ Distinct(Append(s, e))
  BY <1>2, AppendProperties, AppendDistinct
<1>5. Bytes(Append(s, e)) = cachedBytes - HeldBytes(e.key) + e.bytes
  BY <1>1, <1>2, BytesOfAppend
<1>6. QED
  BY <1>3, <1>4, <1>5, EvictingCounted

\* take: the entry that is served is held once, and stays.
LEMMA TakeHitCounted ==
  ASSUME memo \in Seq(Entries), BytesCounted, NEW q \in Requests, TakeHit(q)
  PROVE  BytesCounted'
<1>1. PICK i \in DOMAIN memo : /\ memo[i].key = Key(q)
                               /\ memo' = Append(Others(Key(q)), memo[i])
                               /\ cachedBytes' = cachedBytes
  BY DEF TakeHit
<1> DEFINE s == Others(Key(q))
           e == memo[i]
<1>2. /\ Distinct(memo) /\ cachedBytes = Bytes(memo) /\ Len(memo) <= MaxEntries
      /\ cachedBytes <= MaxBytes /\ e \in Entries /\ e.key = Key(q)
  BY <1>1 DEF BytesCounted, Distinct, Fits
<1>3. Held(Key(q)) = {i}
  BY <1>1, <1>2 DEF Held, Distinct
<1>4. HeldBytes(Key(q)) = e.bytes
  BY <1>3 DEF HeldBytes
<1>5. /\ s \in Seq(Entries) /\ Bytes(s) = Bytes(memo) - e.bytes /\ Len(s) = Len(memo) - 1
      /\ e.bytes \in Nat /\ Distinct(s) /\ \A j \in DOMAIN s : s[j].key # Key(q)
  BY <1>2, <1>3, <1>4, OthersCounted
<1> HIDE DEF s, e
<1>6. /\ Append(s, e) \in Seq(Entries) /\ Len(Append(s, e)) = Len(memo)
      /\ Distinct(Append(s, e)) /\ Bytes(Append(s, e)) = Bytes(memo)
  <2>1. Append(s, e) \in Seq(Entries) /\ Len(Append(s, e)) = Len(s) + 1
    BY <1>2, <1>5, AppendProperties
  <2>2. Distinct(Append(s, e)) /\ Bytes(Append(s, e)) = Bytes(s) + e.bytes
    BY <1>2, <1>5, AppendDistinct, BytesOfAppend
  <2>3. Bytes(memo) \in Nat /\ Len(memo) \in Nat
    <3>1. Len(memo) \in 0..Len(memo) /\ Len(memo) \in Nat
      OBVIOUS
    <3>2. QED
      BY <3>1, CountsStep DEF Bytes
  <2>4. Bytes(s) + e.bytes = Bytes(memo) /\ Len(s) + 1 = Len(memo)
    BY <1>5, <2>3
  <2>5. QED
    BY <2>1, <2>2, <2>4
<1>7. memo' = Append(s, e) /\ cachedBytes' = cachedBytes
  BY <1>1 DEF s, e
<1>8. QED
  BY <1>2, <1>6, <1>7 DEF BytesCounted, Distinct, Fits

\* take: an entry of a revision that is over is given back.
LEMMA TakeMissCounted ==
  ASSUME memo \in Seq(Entries), BytesCounted, NEW q \in Requests, TakeMiss(q)
  PROVE  BytesCounted'
<1> DEFINE s == Others(Key(q))
<1>1. /\ Distinct(memo) /\ cachedBytes = Bytes(memo) /\ Len(memo) <= MaxEntries
      /\ cachedBytes <= MaxBytes /\ MaxEntries \in Nat /\ MaxBytes \in Nat
  BY WireAssumption DEF BytesCounted, Distinct, Fits
<1>2. /\ s \in Seq(Entries) /\ Bytes(s) = Bytes(memo) - HeldBytes(Key(q))
      /\ HeldBytes(Key(q)) \in Nat /\ Len(s) <= Len(memo) /\ Distinct(s)
  BY <1>1, OthersCounted
<1>3. memo' = s /\ cachedBytes' = cachedBytes - HeldBytes(Key(q))
  BY DEF TakeMiss
<1> HIDE DEF s
<1>4. Bytes(memo) \in Nat /\ Len(memo) \in Nat /\ Len(s) \in Nat
  <2>1. Len(memo) \in 0..Len(memo) /\ Len(memo) \in Nat /\ Len(s) \in Nat
    BY <1>2
  <2>2. QED
    BY <2>1, CountsStep DEF Bytes
<1>5. cachedBytes' = Bytes(s) /\ cachedBytes' <= MaxBytes /\ Len(s) <= MaxEntries
  BY <1>1, <1>2, <1>3, <1>4
<1>6. QED
  BY <1>2, <1>3, <1>5 DEF BytesCounted, Distinct, Fits

\* payload.ts counts the bytes it holds beside the map: for any sizes, budgets, callers
\* and saves the count is what the map holds, both budgets are kept, and no key is twice.
THEOREM BytesAreCounted == Spec => []BytesCounted
<1>1. Init => BytesCounted
  <2> SUFFICES ASSUME Init PROVE BytesCounted
    OBVIOUS
  <2>1. memo = <<>> /\ cachedBytes = 0 /\ Len(memo) = 0 /\ memo \in Seq(Entries) /\ DOMAIN memo = {}
    BY DEF Init
  <2>2. Bytes(memo) = 0
    BY <2>1, CountsStep DEF Bytes
  <2>3. MaxEntries \in Nat /\ MaxBytes \in Nat
    BY WireAssumption
  <2>4. QED
    BY <2>1, <2>2, <2>3 DEF BytesCounted, Fits
<1>2. BytesCounted /\ WireInv /\ [Next]_vars => BytesCounted'
  <2> SUFFICES ASSUME BytesCounted, WireInv, [Next]_vars PROVE BytesCounted'
    OBVIOUS
  <2>1. memo \in Seq(Entries)
    BY DEF WireInv, WireTypeOK
  <2>2. ASSUME UNCHANGED server PROVE BytesCounted'
    BY <2>2 DEF server, BytesCounted
  <2>3. ASSUME NEW q \in Requests, Put(q) PROVE BytesCounted'
    <3> DEFINE e == [key |-> Key(q), rev |-> request[q].rev, body |-> request[q].body,
                     bytes |-> Length[request[q].body.for][request[q].enc][request[q].body.saves]]
    <3>1. e \in Entries
      BY <2>3, PutEntry DEF Sound, Put
    <3>2. Enter(e)
      BY <2>3 DEF Put
    <3> HIDE DEF e
    <3>3. QED
      BY <2>1, <3>1, <3>2, EnterCounted
  <2>4. ASSUME NEW q \in Requests, TakeHit(q) \/ TakeMiss(q) PROVE BytesCounted'
    BY <2>1, <2>4, TakeHitCounted, TakeMissCounted
  <2>5. ASSUME NEW q \in Requests, Load(q) \/ ReadRev(q) \/ AskElsewhere(q) \/ Arrive(q) \/ Lose(q)
        PROVE  UNCHANGED server
    BY <2>5 DEF Load, ReadRev, AskElsewhere, Arrive, Lose
  <2>6. ASSUME NEW q \in Requests, NEW r \in Resources, NEW c \in Callers, Fetch(q, r, c)
        PROVE  UNCHANGED server
    BY <2>6 DEF Fetch
  <2>7. ASSUME NEW r \in Resources, Lapse(r) PROVE UNCHANGED server
    BY <2>7 DEF Lapse
  <2>8. ASSUME Save \/ UNCHANGED vars PROVE UNCHANGED server
    BY <2>8 DEF Save, vars, server
  <2>9. QED
    BY <2>2, <2>3, <2>4, <2>5, <2>6, <2>7, <2>8 DEF Next
<1>3. QED
  BY <1>1, <1>2, WireInvHolds, PTL DEF Spec

-----------------------------------------------------------------------------
(* Api: what a route answers *)

Door == INSTANCE Api

\* Of a sequence of refusals the first is the answer.
LEMMA StatusOfConcat ==
  ASSUME NEW s \in Seq(Int), NEW t \in Seq(Int), NEW ok
  PROVE  Door!Status(s \o t, ok) = Door!Status(s, Door!Status(t, ok))
<1>1. CASE s = <<>>
  <2>1. s \o t = t
    BY <1>1, ConcatEmptySeq
  <2>2. QED
    BY <1>1, <2>1 DEF Door!Status
<1>2. CASE s # <<>>
  <2>1. /\ s \o t \in Seq(Int) /\ Len(s \o t) = Len(s) + Len(t) /\ Len(s) \in Nat /\ Len(t) \in Nat
        /\ \A i \in 1..(Len(s) + Len(t)) : (s \o t)[i] = IF i <= Len(s) THEN s[i] ELSE t[i - Len(s)]
    BY ConcatProperties
  <2>2. Len(s) >= 1
    BY <1>2, <2>1
  <2>3. 1 \in 1..(Len(s) + Len(t)) /\ 1 <= Len(s)
    BY <2>1, <2>2
  <2>4. (s \o t)[1] = s[1]
    BY <2>1, <2>3
  <2>5. s \o t # <<>>
    BY <2>1, <2>2
  <2>6. Head(s \o t) = Head(s)
    BY <1>2, <2>1, <2>4, <2>5
  <2>7. QED
    BY <1>2, <2>5, <2>6 DEF Door!Status
<1>3. QED
  BY <1>1, <1>2

\* What a refusal answers; the statuses of a success are none of them.
Refusals == {400, 401, 403, 404, 422, 500, 503, Door!Raised}

\* What a sequence of refusals does with a request: it lets it through, or answers it, of
\* which the status may be known.
Passes(s) == s \in Seq(Int) /\ \A ok : Door!Status(s, ok) = ok
Refuses(s) == s \in Seq(Int) /\ \A ok : Door!Status(s, ok) \in Refusals
Answers(s, n) == s \in Seq(Int) /\ \A ok : Door!Status(s, ok) = n

LEMMA OneRefusal ==
  /\ Passes(<<>>)
  /\ \A n \in Refusals : Refuses(<<n>>) /\ Answers(<<n>>, n)
<1>1. <<>> \in Seq(Int)
  OBVIOUS
<1>2. ASSUME NEW n \in Refusals
      PROVE  <<n>> \in Seq(Int) /\ <<n>> # <<>> /\ Head(<<n>>) = n
  <2>1. n \in Int
    BY DEF Refusals, Door!Raised
  <2>2. QED
    BY <2>1
<1>3. QED
  BY <1>1, <1>2 DEF Door!Status, Passes, Refuses, Answers

LEMMA OneAfterAnother ==
  ASSUME NEW s, NEW t, Passes(s) \/ Refuses(s), Passes(t) \/ Refuses(t)
  PROVE  /\ Passes(s) /\ Passes(t) => Passes(s \o t)
         /\ Refuses(s) \/ Refuses(t) => Refuses(s \o t)
         /\ \A n : Answers(s, n) \/ (Passes(s) /\ Answers(t, n)) => Answers(s \o t, n)
<1>1. s \in Seq(Int) /\ t \in Seq(Int)
  BY DEF Passes, Refuses
<1>2. s \o t \in Seq(Int)
  BY <1>1, ConcatProperties
<1>3. \A ok : Door!Status(s \o t, ok) = Door!Status(s, Door!Status(t, ok))
  BY <1>1, StatusOfConcat, Zenon
<1>4. Passes(s) /\ Passes(t) => Passes(s \o t)
  BY <1>2, <1>3, Zenon DEF Passes
<1>5. Refuses(s) => Refuses(s \o t)
  BY <1>2, <1>3, Zenon DEF Refuses
<1>6. Passes(s) /\ Refuses(t) => Refuses(s \o t)
  BY <1>2, <1>3, Zenon DEF Refuses, Passes
<1>7. \A n : Answers(s, n) \/ (Passes(s) /\ Answers(t, n)) => Answers(s \o t, n)
  BY <1>2, <1>3, Zenon DEF Answers, Passes
<1>8. QED
  BY <1>4, <1>5, <1>6, <1>7, Zenon

-----------------------------------------------------------------------------
(* Who gets past the refusals that several routes share *)

Reached(w, slug) == w.project[slug] # "not-found" /\ w.project[slug] # "unavailable"
OfProject(c, slug) == Door!IsCitizen(c) => c.slug = slug
OfBuilding(c, slug, id) == Door!IsCitizen(c) => c.slug = slug /\ 2 * c.building = id

LEMMA SharedRefusals ==
  ASSUME NEW w, NEW c, NEW slug, NEW id
  PROVE  /\ IF Door!IsInteger(id) THEN Passes(Door!EntityId(id)) ELSE Refuses(Door!EntityId(id))
         /\ IF Reached(w, slug) THEN Passes(Door!GateProject(w, slug)) ELSE Refuses(Door!GateProject(w, slug))
         /\ IF OfBuilding(c, slug, id) THEN Passes(Door!BuildingAccess(c, slug, id))
            ELSE Refuses(Door!BuildingAccess(c, slug, id)) /\ Answers(Door!BuildingAccess(c, slug, id), 404)
         /\ IF OfProject(c, slug) THEN Passes(Door!ProjectAccess(c, slug)) ELSE Refuses(Door!ProjectAccess(c, slug))
         /\ IF c.kind # "citizen" /\ c.kind # "anon" THEN Passes(Door!Mutation(c)) ELSE Refuses(Door!Mutation(c))
         /\ IF w.found /\ ~w.throws THEN Passes(Door!Loaded(w)) ELSE Refuses(Door!Loaded(w))
<1>1. /\ Passes(<<>>) /\ Refuses(<<400>>) /\ Refuses(<<401>>) /\ Refuses(<<403>>)
      /\ Refuses(<<404>>) /\ Refuses(<<500>>) /\ Refuses(<<503>>) /\ Answers(<<404>>, 404)
  BY OneRefusal DEF Refusals
<1>2. IF Door!IsInteger(id) THEN Passes(Door!EntityId(id)) ELSE Refuses(Door!EntityId(id))
  BY <1>1, Zenon DEF Door!EntityId, Door!If
<1>3. IF Reached(w, slug) THEN Passes(Door!GateProject(w, slug)) ELSE Refuses(Door!GateProject(w, slug))
  <2> DEFINE s == Door!If(w.project[slug] = "not-found", 404)
             t == Door!If(w.project[slug] = "unavailable", 503)
  <2>1. IF w.project[slug] = "not-found" THEN Refuses(s) ELSE Passes(s)
    BY <1>1, Zenon DEF Door!If
  <2>2. IF w.project[slug] = "unavailable" THEN Refuses(t) ELSE Passes(t)
    BY <1>1, Zenon DEF Door!If
  <2>3. Door!GateProject(w, slug) = s \o t
    BY Zenon DEF Door!GateProject
  <2> HIDE DEF s, t
  <2>4. /\ Passes(s) /\ Passes(t) => Passes(Door!GateProject(w, slug))
        /\ Refuses(s) \/ Refuses(t) => Refuses(Door!GateProject(w, slug))
    BY <2>1, <2>2, <2>3, OneAfterAnother
  <2>5. QED
    BY <2>1, <2>2, <2>4 DEF Reached
<1>4. IF OfBuilding(c, slug, id) THEN Passes(Door!BuildingAccess(c, slug, id))
      ELSE Refuses(Door!BuildingAccess(c, slug, id)) /\ Answers(Door!BuildingAccess(c, slug, id), 404)
  BY <1>1, Zenon DEF Door!BuildingAccess, OfBuilding, Door!If
<1>5. IF OfProject(c, slug) THEN Passes(Door!ProjectAccess(c, slug)) ELSE Refuses(Door!ProjectAccess(c, slug))
  BY <1>1, Zenon DEF Door!ProjectAccess, OfProject, Door!If
<1>6. IF c.kind # "citizen" /\ c.kind # "anon" THEN Passes(Door!Mutation(c)) ELSE Refuses(Door!Mutation(c))
  <2> DEFINE s == Door!If(Door!IsCitizen(c), 403)
             t == Door!If(c.kind = "anon", 401)
  <2>1. IF Door!IsCitizen(c) THEN Refuses(s) ELSE Passes(s)
    BY <1>1, Zenon DEF Door!If
  <2>2. IF c.kind = "anon" THEN Refuses(t) ELSE Passes(t)
    BY <1>1, Zenon DEF Door!If
  <2>3. Door!Mutation(c) = s \o t
    BY Zenon DEF Door!Mutation
  <2> HIDE DEF s, t
  <2>4. /\ Passes(s) /\ Passes(t) => Passes(Door!Mutation(c))
        /\ Refuses(s) \/ Refuses(t) => Refuses(Door!Mutation(c))
    BY <2>1, <2>2, <2>3, OneAfterAnother
  <2>5. QED
    BY <2>1, <2>2, <2>4 DEF Door!IsCitizen
<1>7. IF w.found /\ ~w.throws THEN Passes(Door!Loaded(w)) ELSE Refuses(Door!Loaded(w))
  <2> DEFINE s == Door!If(w.throws, 500)
             t == Door!If(~w.found, 404)
  <2>1. IF w.throws THEN Refuses(s) ELSE Passes(s)
    BY <1>1, Zenon DEF Door!If
  <2>2. IF ~w.found THEN Refuses(t) ELSE Passes(t)
    BY <1>1, Zenon DEF Door!If
  <2>3. Door!Loaded(w) = s \o t
    BY Zenon DEF Door!Loaded
  <2> HIDE DEF s, t
  <2>4. /\ Passes(s) /\ Passes(t) => Passes(Door!Loaded(w))
        /\ Refuses(s) \/ Refuses(t) => Refuses(Door!Loaded(w))
    BY <2>1, <2>2, <2>3, OneAfterAnother
  <2>5. QED
    BY <2>1, <2>2, <2>4
<1>8. QED
  BY <1>2, <1>3, <1>4, <1>5, <1>6, <1>7, Zenon

\* A document of a building is served to whom, and when.
LEMMA BuildingRouteLets ==
  ASSUME NEW w, NEW r
  PROVE  IF /\ Door!IsInteger(r.id) /\ OfBuilding(r.caller, r.slug, r.id) /\ Reached(w, r.slug)
            /\ w.found /\ ~w.throws
         THEN Passes(Door!BuildingRoute(w, r)) ELSE Refuses(Door!BuildingRoute(w, r))
<1> DEFINE e == Door!EntityId(r.id)
           b == Door!BuildingAccess(r.caller, r.slug, r.id)
           g == Door!GateProject(w, r.slug)
           l == Door!Loaded(w)
<1>1. Door!BuildingRoute(w, r) = e \o b \o g \o l
  BY Zenon DEF Door!BuildingRoute
<1>2. IF Door!IsInteger(r.id) THEN Passes(e) ELSE Refuses(e)
  BY SharedRefusals, Zenon
<1>3. IF OfBuilding(r.caller, r.slug, r.id) THEN Passes(b) ELSE Refuses(b)
  BY SharedRefusals, Zenon
<1>4. IF Reached(w, r.slug) THEN Passes(g) ELSE Refuses(g)
  BY SharedRefusals, Zenon
<1>5. IF w.found /\ ~w.throws THEN Passes(l) ELSE Refuses(l)
  BY SharedRefusals, Zenon
<1> HIDE DEF e, b, g, l
<1>6. QED
  BY <1>1, <1>2, <1>3, <1>4, <1>5, OneAfterAnother, Zenon

\* A collection of a project.
LEMMA ServeLets ==
  ASSUME NEW w, NEW r
  PROVE  IF Reached(w, r.slug) /\ OfProject(r.caller, r.slug) /\ ~w.throws
         THEN Passes(Door!Serve(w, r)) ELSE Refuses(Door!Serve(w, r))
<1> DEFINE g == Door!GateProject(w, r.slug)
           p == Door!ProjectAccess(r.caller, r.slug)
           t == Door!If(w.throws, 500)
<1>1. Door!Serve(w, r) = g \o p \o t
  BY Zenon DEF Door!Serve
<1>2. IF Reached(w, r.slug) THEN Passes(g) ELSE Refuses(g)
  BY SharedRefusals, Zenon
<1>3. IF OfProject(r.caller, r.slug) THEN Passes(p) ELSE Refuses(p)
  BY SharedRefusals, Zenon
<1>4. IF ~(w.throws) THEN Passes(t) ELSE Refuses(t)
  BY OneRefusal DEF Refusals, Door!If
<1> HIDE DEF g, p, t
<1>5. QED
  BY <1>1, <1>2, <1>3, <1>4, OneAfterAnother, Zenon

LEMMA SiteSpecLets ==
  ASSUME NEW w, NEW r
  PROVE  IF /\ Reached(w, r.slug) /\ OfProject(r.caller, r.slug) /\ ~w.throws
            /\ w.found
         THEN Passes(Door!SiteSpec(w, r)) ELSE Refuses(Door!SiteSpec(w, r))
<1> DEFINE s == Door!Serve(w, r)
           n == Door!If(~w.found, 404)
<1>1. Door!SiteSpec(w, r) = s \o n
  BY Zenon DEF Door!SiteSpec
<1>2. IF Reached(w, r.slug) /\ OfProject(r.caller, r.slug) /\ ~w.throws THEN Passes(s) ELSE Refuses(s)
  BY ServeLets, Zenon
<1>3. IF w.found THEN Passes(n) ELSE Refuses(n)
  BY OneRefusal DEF Refusals, Door!If
<1> HIDE DEF s, n
<1>4. QED
  BY <1>1, <1>2, <1>3, OneAfterAnother, Zenon

\* An edit of a building.
LEMMA PatchLets ==
  ASSUME NEW w, NEW r
  PROVE  IF /\ Door!IsInteger(r.id) /\ OfBuilding(r.caller, r.slug, r.id) /\ Reached(w, r.slug)
            /\ r.caller.kind # "citizen" /\ r.caller.kind # "anon"
            /\ r.body \notin {"malformed", "null", "uneditable", "invalid"}
            /\ w.found /\ ~w.throws /\ ~w.writeFails /\ ~w.vanished
         THEN Passes(Door!BuildingPatch(w, r)) ELSE Refuses(Door!BuildingPatch(w, r))
<1> DEFINE e == Door!EntityId(r.id)
           j == Door!If(r.body = "malformed", 400)
           m == Door!Mutation(r.caller)
           b == Door!BuildingAccess(r.caller, r.slug, r.id)
           k == Door!If(r.body \in {"null", "uneditable"}, 400)
           g == Door!GateProject(w, r.slug)
           l == Door!Loaded(w)
           i == Door!If(r.body = "invalid", 422)
           f == Door!If(w.writeFails \/ w.vanished, 500)
<1>1. Door!BuildingPatch(w, r) = e \o j \o m \o b \o k \o g \o l \o i \o f
  BY Zenon DEF Door!BuildingPatch
<1>2. IF Door!IsInteger(r.id) THEN Passes(e) ELSE Refuses(e)
  BY SharedRefusals, Zenon
<1>3. IF ~(r.body = "malformed") THEN Passes(j) ELSE Refuses(j)
  BY OneRefusal DEF Refusals, Door!If
<1>4. IF r.caller.kind # "citizen" /\ r.caller.kind # "anon" THEN Passes(m) ELSE Refuses(m)
  BY SharedRefusals, Zenon
<1>5. IF OfBuilding(r.caller, r.slug, r.id) THEN Passes(b) ELSE Refuses(b)
  BY SharedRefusals, Zenon
<1>6. IF ~(r.body \in {"null", "uneditable"}) THEN Passes(k) ELSE Refuses(k)
  BY OneRefusal DEF Refusals, Door!If
<1>7. IF Reached(w, r.slug) THEN Passes(g) ELSE Refuses(g)
  BY SharedRefusals, Zenon
<1>8. IF w.found /\ ~w.throws THEN Passes(l) ELSE Refuses(l)
  BY SharedRefusals, Zenon
<1>9. IF ~(r.body = "invalid") THEN Passes(i) ELSE Refuses(i)
  BY OneRefusal DEF Refusals, Door!If
<1>10. IF ~(w.writeFails \/ w.vanished) THEN Passes(f) ELSE Refuses(f)
  BY OneRefusal DEF Refusals, Door!If
<1> HIDE DEF e, j, m, b, k, g, l, i, f
<1>11. QED
  BY <1>1, <1>2, <1>3, <1>4, <1>5, <1>6, <1>7, <1>8, <1>9, <1>10, OneAfterAnother, Zenon

\* A split of a unit.
LEMMA SplitLets ==
  ASSUME NEW w, NEW r
  PROVE  IF /\ Door!IsInteger(r.id) /\ OfProject(r.caller, r.slug) /\ Reached(w, r.slug)
            /\ r.caller.kind # "citizen" /\ r.caller.kind # "anon"
            /\ ~w.noDb /\ w.found /\ ~w.writeFails
         THEN Passes(Door!UnitSplit(w, r)) ELSE Refuses(Door!UnitSplit(w, r))
<1> DEFINE e == Door!EntityId(r.id)
           m == Door!Mutation(r.caller)
           p == Door!ProjectAccess(r.caller, r.slug)
           g == Door!GateProject(w, r.slug)
           d == Door!If(w.noDb, 503)
           n == Door!If(~w.found, 404)
           f == Door!If(w.writeFails, 500)
<1>1. Door!UnitSplit(w, r) = e \o m \o p \o g \o d \o n \o f
  BY Zenon DEF Door!UnitSplit
<1>2. IF Door!IsInteger(r.id) THEN Passes(e) ELSE Refuses(e)
  BY SharedRefusals, Zenon
<1>3. IF r.caller.kind # "citizen" /\ r.caller.kind # "anon" THEN Passes(m) ELSE Refuses(m)
  BY SharedRefusals, Zenon
<1>4. IF OfProject(r.caller, r.slug) THEN Passes(p) ELSE Refuses(p)
  BY SharedRefusals, Zenon
<1>5. IF Reached(w, r.slug) THEN Passes(g) ELSE Refuses(g)
  BY SharedRefusals, Zenon
<1>6. IF ~(w.noDb) THEN Passes(d) ELSE Refuses(d)
  BY OneRefusal DEF Refusals, Door!If
<1>7. IF w.found THEN Passes(n) ELSE Refuses(n)
  BY OneRefusal DEF Refusals, Door!If
<1>8. IF ~(w.writeFails) THEN Passes(f) ELSE Refuses(f)
  BY OneRefusal DEF Refusals, Door!If
<1> HIDE DEF e, m, p, g, d, n, f
<1>9. QED
  BY <1>1, <1>2, <1>3, <1>4, <1>5, <1>6, <1>7, <1>8, OneAfterAnother, Zenon

LEMMA PassedOrRefused ==
  /\ \A s, ok : Passes(s) => Door!Status(s, ok) = ok
  /\ \A s : Refuses(s) => Door!Status(s, 200) # 200 /\ Door!Status(s, 201) # 201
  /\ \A s, n, ok : Answers(s, n) => Door!Status(s, ok) = n
<1>1. 200 \notin Refusals /\ 201 \notin Refusals
  BY DEF Refusals, Door!Raised
<1>2. QED
  BY <1>1 DEF Passes, Refuses, Answers

\* A resident who asks for a building that is not theirs gets one answer, whatever there is
\* behind it: no project, no database, a load that throws, no such building, or a document:
\* the routes of a building check access before they look anything up (handlers.ts).
THEOREM ForeignAlike ==
  ASSUME NEW w, NEW r, Door!IsInteger(r.id), ~OfBuilding(r.caller, r.slug, r.id)
  PROVE  /\ Door!Status(Door!BuildingRoute(w, r), 200) = 404
         /\ r.level = <<>> \/ Door!IsInteger(r.level[1]) => Door!Status(Door!BuildingUnits(w, r), 200) = 404
<1> DEFINE e == Door!EntityId(r.id)
           b == Door!BuildingAccess(r.caller, r.slug, r.id)
           g == Door!GateProject(w, r.slug)
           l == Door!Loaded(w)
           k == Door!If(r.level # <<>> /\ ~Door!IsInteger(r.level[1]), 400)
<1>1. /\ Door!BuildingRoute(w, r) = e \o b \o g \o l
      /\ Door!BuildingUnits(w, r) = e \o k \o Door!BuildingRoute(w, r)
  BY Zenon DEF Door!BuildingRoute, Door!BuildingUnits
<1>2. /\ Passes(e)
      /\ Refuses(b) /\ Answers(b, 404)
      /\ Passes(g) \/ Refuses(g)
      /\ Passes(l) \/ Refuses(l)
  BY SharedRefusals, Zenon
<1>3. r.level = <<>> \/ Door!IsInteger(r.level[1]) => Passes(k)
  BY OneRefusal DEF Door!If
<1> HIDE DEF e, b, g, l, k
<1>4. Refuses(Door!BuildingRoute(w, r)) /\ Answers(Door!BuildingRoute(w, r), 404)
  <2>1. Refuses(e \o b) /\ Answers(e \o b, 404)
    BY <1>2, OneAfterAnother, Zenon
  <2>2. Refuses(e \o b \o g) /\ Answers(e \o b \o g, 404)
    BY <1>2, <2>1, OneAfterAnother, Zenon
  <2>3. Refuses(e \o b \o g \o l) /\ Answers(e \o b \o g \o l, 404)
    BY <1>2, <2>2, OneAfterAnother, Zenon
  <2>4. QED
    BY <1>1, <2>3
<1>5. r.level = <<>> \/ Door!IsInteger(r.level[1]) => Answers(Door!BuildingUnits(w, r), 404)
  BY <1>1, <1>2, <1>3, <1>4, OneAfterAnother, Zenon
<1>6. QED
  BY <1>4, <1>5, PassedOrRefused

\* What a resident is served of a building is of the building they live in and what they are
\* served of a project of the project they live in, and nobody is served while it is unreachable.
THEOREM OfTheirOwn ==
  ASSUME NEW w, NEW r
  PROVE  /\ Door!Status(Door!BuildingRoute(w, r), 200) = 200 <=>
              /\ Door!IsInteger(r.id) /\ OfBuilding(r.caller, r.slug, r.id) /\ Reached(w, r.slug)
              /\ w.found /\ ~w.throws
         /\ Door!Status(Door!Serve(w, r), 200) = 200 <=>
              Reached(w, r.slug) /\ OfProject(r.caller, r.slug) /\ ~w.throws
         /\ Door!Status(Door!SiteSpec(w, r), 200) = 200 <=>
              Reached(w, r.slug) /\ OfProject(r.caller, r.slug) /\ ~w.throws /\ w.found
<1>2. Door!Status(Door!BuildingRoute(w, r), 200) = 200 <=>
        /\ Door!IsInteger(r.id) /\ OfBuilding(r.caller, r.slug, r.id) /\ Reached(w, r.slug)
        /\ w.found /\ ~w.throws
  BY BuildingRouteLets, PassedOrRefused
<1>3. Door!Status(Door!Serve(w, r), 200) = 200 <=>
        Reached(w, r.slug) /\ OfProject(r.caller, r.slug) /\ ~w.throws
  BY ServeLets, PassedOrRefused
<1>4. Door!Status(Door!SiteSpec(w, r), 200) = 200 <=>
        Reached(w, r.slug) /\ OfProject(r.caller, r.slug) /\ ~w.throws /\ w.found
  BY SiteSpecLets, PassedOrRefused
<1>5. QED
  BY <1>2, <1>3, <1>4

\* A write is answered as done to the government alone, when its body was readable and valid,
\* the project reachable and what it names there, and the write came back.
THEOREM WritesOfOne ==
  ASSUME NEW w, NEW r, r.caller.kind \in {"gov", "anon", "citizen"}
  PROVE  /\ Door!Status(Door!BuildingPatch(w, r), 200) = 200 <=>
              /\ r.caller.kind = "gov" /\ Door!IsInteger(r.id) /\ Reached(w, r.slug)
              /\ r.body \notin {"malformed", "null", "uneditable", "invalid"}
              /\ w.found /\ ~w.throws /\ ~w.writeFails /\ ~w.vanished
         /\ Door!Status(Door!UnitSplit(w, r), 201) = 201 <=>
              /\ r.caller.kind = "gov" /\ Door!IsInteger(r.id) /\ Reached(w, r.slug)
              /\ ~w.noDb /\ w.found /\ ~w.writeFails
<1>1. r.caller.kind # "citizen" /\ r.caller.kind # "anon" <=> r.caller.kind = "gov"
  OBVIOUS
<1>2. r.caller.kind = "gov" => OfBuilding(r.caller, r.slug, r.id) /\ OfProject(r.caller, r.slug)
  BY DEF OfBuilding, OfProject, Door!IsCitizen
<1>3. QED
  <2>1. Door!Status(Door!BuildingPatch(w, r), 200) = 200 <=>
          /\ r.caller.kind = "gov" /\ Door!IsInteger(r.id) /\ Reached(w, r.slug)
          /\ r.body \notin {"malformed", "null", "uneditable", "invalid"}
          /\ w.found /\ ~w.throws /\ ~w.writeFails /\ ~w.vanished
    BY <1>1, <1>2, PatchLets, PassedOrRefused
  <2>2. Door!Status(Door!UnitSplit(w, r), 201) = 201 <=>
          /\ r.caller.kind = "gov" /\ Door!IsInteger(r.id) /\ Reached(w, r.slug)
          /\ ~w.noDb /\ w.found /\ ~w.writeFails
    BY <1>1, <1>2, SplitLets, PassedOrRefused
  <2>3. QED
    BY <2>1, <2>2

-----------------------------------------------------------------------------
(* Api: what a narrowed document has in it *)

Detail(b, p, f, u) == [building |-> b, parcel |-> p, floors |-> f, units |-> u]

\* A volume as anyone may read it: the fabric of a building is nobody's.
Stripped(u) == IF Door!IsFabric(u) THEN Door!Without(u, Door!IdentityFields) ELSE u

\* The volumes of c in units: their flat, and the bay that its title names.
Owned(c, units) == {i \in DOMAIN units : Door!OwnsUnit(c, units[i])}
Bay(c, units) == IF Owned(c, units) = {} THEN None ELSE Door!Field(units[Door!Min(Owned(c, units))], "parking_ulpin")
Whole(c, units, u) == Door!OwnsUnit(c, u) \/ (Bay(c, units) # None /\ Door!Field(u, "ulpin") = Bay(c, units))

LEMMA FilterOf ==
  ASSUME NEW c, NEW b, NEW p, NEW f, NEW units, Door!IsCitizen(c)
  PROVE  Door!FilterDetail(c, Detail(b, p, f, units)) =
           Detail(Door!Only(b, Door!CitizenBuildingFields), None,
                  [i \in DOMAIN f |-> Door!Without(f[i], {"ulpin"})],
                  [i \in DOMAIN units |-> IF Whole(c, units, units[i]) THEN units[i] ELSE Door!Redacted(units[i])])
<1>1. Detail(b, p, f, units).building = b /\ Detail(b, p, f, units).floors = f /\ Detail(b, p, f, units).units = units
  BY DEF Detail
<1>2. QED
  BY <1>1, Zenon DEF Door!FilterDetail, Owned, Bay, Whole, Detail

LEMMA StripOf ==
  ASSUME NEW b, NEW p, NEW f, NEW units
  PROVE  Door!StripCoreIdentity(Detail(b, p, f, units)) = Detail(b, p, f, [i \in DOMAIN units |-> Stripped(units[i])])
BY DEF Door!StripCoreIdentity, Detail, Stripped

LEMMA FieldsOfPart ==
  ASSUME NEW u, NEW fields, NEW k
  PROVE  /\ DOMAIN Door!Without(u, fields) = DOMAIN u \ fields
         /\ k \in DOMAIN u \ fields => Door!Without(u, fields)[k] = u[k]
         /\ DOMAIN Door!Only(u, fields) = DOMAIN u \cap fields
         /\ k \notin fields => Door!Field(Door!Without(u, fields), k) = Door!Field(u, k)
BY DEF Door!Without, Door!Only, Door!Restrict, Door!Field

LEMMA PartOfPart ==
  ASSUME NEW u, NEW fields
  PROVE  /\ Door!Without(Door!Without(u, fields), fields) = Door!Without(u, fields)
         /\ Door!Only(Door!Only(u, fields), fields) = Door!Only(u, fields)
<1>1. /\ (DOMAIN u \ fields) \ fields = DOMAIN u \ fields
      /\ (DOMAIN u \cap fields) \cap fields = DOMAIN u \cap fields
  OBVIOUS
<1>2. QED
  BY <1>1 DEF Door!Without, Door!Only, Door!Restrict

LEMMA StrippedTwice ==
  ASSUME NEW u
  PROVE  /\ Stripped(Stripped(u)) = Stripped(u)
         /\ Door!IsFabric(Stripped(u)) = Door!IsFabric(u)
<1>1. "kind" \notin Door!IdentityFields
  BY DEF Door!IdentityFields
<1>2. Door!Field(Stripped(u), "kind") = Door!Field(u, "kind")
  BY <1>1, FieldsOfPart, Zenon DEF Stripped
<1>3. Door!IsFabric(Stripped(u)) = Door!IsFabric(u)
  BY <1>2 DEF Door!IsFabric
<1>4. QED
  BY <1>3, PartOfPart, Zenon DEF Stripped

Kept(u) == Door!PublicUnitFields \cup (IF Door!IsFabric(u) THEN {"unit_no", "label"} ELSE {})

LEMMA FieldsOfRedacted ==
  ASSUME NEW u
  PROVE  /\ DOMAIN Door!Redacted(u) = (DOMAIN u \cap Kept(u)) \cup {"restricted"}
         /\ \A k \in DOMAIN u \cap Kept(u) : Door!Redacted(u)[k] = u[k]
         /\ Door!Redacted(u)["restricted"] = TRUE
         /\ Door!IsFabric(Door!Redacted(u)) = Door!IsFabric(u)
         /\ Kept(Door!Redacted(u)) = Kept(u)
<1> DEFINE all == (DOMAIN u \cap Kept(u)) \cup {"restricted"}
<1>1. Door!Redacted(u) = [k \in all |-> IF k = "restricted" THEN TRUE ELSE u[k]]
  BY Zenon DEF Door!Redacted, Kept
<1>2. "restricted" \notin Kept(u) /\ "kind" \in Kept(u)
  BY DEF Kept, Door!PublicUnitFields
<1>3. \A k \in DOMAIN u \cap Kept(u) : k \in all /\ k # "restricted"
  BY <1>2
<1>4. "restricted" \in all
  OBVIOUS
<1> HIDE DEF all
<1>5. DOMAIN Door!Redacted(u) = all /\ \A k \in DOMAIN u \cap Kept(u) : Door!Redacted(u)[k] = u[k]
  BY <1>1, <1>3
<1>6. Door!Redacted(u)["restricted"] = TRUE
  BY <1>1, <1>4
<1>7. "kind" \in DOMAIN Door!Redacted(u) <=> "kind" \in DOMAIN u
  BY <1>2, <1>5 DEF all
<1>8. Door!Field(Door!Redacted(u), "kind") = Door!Field(u, "kind")
  BY <1>2, <1>5, <1>7 DEF Door!Field
<1>9. Door!IsFabric(Door!Redacted(u)) = Door!IsFabric(u)
  BY <1>8 DEF Door!IsFabric
<1>10. Kept(Door!Redacted(u)) = Kept(u)
  BY <1>9 DEF Kept
<1>11. QED
  BY <1>5, <1>6, <1>9, <1>10 DEF all

LEMMA RedactedTwice ==
  ASSUME NEW u
  PROVE  /\ Door!Redacted(Door!Redacted(u)) = Door!Redacted(u)
         /\ Stripped(Door!Redacted(u)) = Door!Redacted(u)
<1> DEFINE v == Door!Redacted(u)
           all == (DOMAIN u \cap Kept(u)) \cup {"restricted"}
           value(f) == [k \in all |-> IF k = "restricted" THEN TRUE ELSE f[k]]
<1>1. v = value(u)
  BY Zenon DEF Door!Redacted, Kept
<1>2. DOMAIN v = all /\ Kept(v) = Kept(u) /\ v["restricted"] = TRUE
  BY FieldsOfRedacted
<1>3. (DOMAIN v \cap Kept(v)) \cup {"restricted"} = all
  BY <1>2
<1>4. Door!Redacted(v) = value(v)
  <2>1. Door!Redacted(v) = [k \in (DOMAIN v \cap Kept(v)) \cup {"restricted"} |-> IF k = "restricted" THEN TRUE ELSE v[k]]
    BY Zenon DEF Door!Redacted, Kept
  <2>2. QED
    BY <1>3, <2>1
<1>5. \A k \in all : (IF k = "restricted" THEN TRUE ELSE v[k]) = (IF k = "restricted" THEN TRUE ELSE u[k])
  BY <1>1
<1>6. value(v) = value(u)
  BY <1>5
<1>7. all \ Door!IdentityFields = all
  BY DEF Kept, Door!PublicUnitFields, Door!IdentityFields
<1>8. Door!Without(v, Door!IdentityFields) = v
  <2>1. Door!Without(v, Door!IdentityFields) = [k \in all |-> v[k]]
    BY <1>2, <1>7 DEF Door!Without, Door!Restrict
  <2>2. [k \in all |-> v[k]] = v
    BY <1>1
  <2>3. QED
    BY <2>1, <2>2
<1>9. QED
  BY <1>1, <1>4, <1>6, <1>8 DEF Stripped

\* Nothing of a hidden volume says whose it is.
LEMMA RedactedIsNobodys ==
  ASSUME NEW c, NEW u, Door!IsCitizen(c), c.unit # None, "level_no" \in DOMAIN u, ~Door!OwnsUnit(c, u)
  PROVE  /\ ~Door!OwnsUnit(c, Door!Redacted(u))
         /\ Door!Field(Door!Redacted(u), "ulpin") = None
<1>1. /\ "level_no" \in Kept(u) /\ "ulpin" \notin Kept(u) \cup {"restricted"} /\ "unit_no" # "restricted"
  BY DEF Kept, Door!PublicUnitFields
<1>2. Door!Redacted(u).level_no = u.level_no
  BY <1>1, FieldsOfRedacted
<1>3. CASE "unit_no" \in DOMAIN u \cap Kept(u)
  <2>1. Door!Field(Door!Redacted(u), "unit_no") = Door!Field(u, "unit_no")
    BY <1>3, FieldsOfRedacted DEF Door!Field
  <2>2. QED
    BY <1>1, <1>2, <2>1, FieldsOfRedacted DEF Door!OwnsUnit, Door!Field
<1>4. CASE "unit_no" \notin DOMAIN u \cap Kept(u)
  <2>1. Door!Field(Door!Redacted(u), "unit_no") = None
    BY <1>1, <1>4, FieldsOfRedacted DEF Door!Field
  <2>2. QED
    BY <1>1, <2>1, FieldsOfRedacted DEF Door!OwnsUnit, Door!Field
<1>5. QED
  BY <1>3, <1>4

\* The volumes a resident c is shown of units.
Seen(c, units) ==
  [i \in DOMAIN units |-> IF Whole(c, units, units[i]) THEN units[i] ELSE Door!Redacted(units[i])]
StripAll(units) == [i \in DOMAIN units |-> Stripped(units[i])]

LEMMA NarrowOf ==
  ASSUME NEW c, NEW b, NEW p, NEW f, NEW units
  PROVE  Door!NarrowDetail(c, Detail(b, p, f, units)) =
           IF Door!IsCitizen(c)
           THEN Detail(Door!Only(b, Door!CitizenBuildingFields), None,
                       [i \in DOMAIN f |-> Door!Without(f[i], {"ulpin"})], Seen(c, StripAll(units)))
           ELSE Detail(b, p, f, StripAll(units))
<1>1. Door!StripCoreIdentity(Detail(b, p, f, units)) = Detail(b, p, f, StripAll(units))
  BY StripOf, Zenon DEF StripAll
<1>2. CASE Door!IsCitizen(c)
  <2>1. Door!NarrowDetail(c, Detail(b, p, f, units)) = Door!FilterDetail(c, Detail(b, p, f, StripAll(units)))
    BY <1>1, Zenon DEF Door!NarrowDetail
  <2> DEFINE all == StripAll(units)
  <2> HIDE DEF all
  <2>2. Door!FilterDetail(c, Detail(b, p, f, all)) =
          Detail(Door!Only(b, Door!CitizenBuildingFields), None,
                 [i \in DOMAIN f |-> Door!Without(f[i], {"ulpin"})],
                 [i \in DOMAIN all |-> IF Whole(c, all, all[i]) THEN all[i] ELSE Door!Redacted(all[i])])
    BY <1>2, FilterOf
  <2>3. QED
    BY <1>2, <2>1, <2>2 DEF all, Seen
<1>3. CASE ~Door!IsCitizen(c)
  BY <1>1, <1>3, Zenon DEF Door!NarrowDetail, Door!FilterDetail
<1>4. QED
  BY <1>2, <1>3

LEMMA SeenTwice ==
  ASSUME NEW c, NEW units, Door!IsCitizen(c), c.unit # None,
         DOMAIN units \subseteq Nat, \A i \in DOMAIN units : "level_no" \in DOMAIN units[i]
  PROVE  Seen(c, Seen(c, units)) = Seen(c, units)
<1> DEFINE seen == Seen(c, units)
<1>1. DOMAIN seen = DOMAIN units
  BY DEF Seen
<1>2. \A i \in DOMAIN units :
        seen[i] = IF Whole(c, units, units[i]) THEN units[i] ELSE Door!Redacted(units[i])
  BY DEF Seen
<1>3. \A i \in DOMAIN units : Door!OwnsUnit(c, units[i]) => Whole(c, units, units[i])
  BY Zenon DEF Whole
<1> HIDE DEF seen
<1>4. \A i \in DOMAIN units : Door!OwnsUnit(c, seen[i]) <=> Door!OwnsUnit(c, units[i])
  BY <1>2, <1>3, RedactedIsNobodys, Zenon
<1>5. Owned(c, seen) = Owned(c, units)
  BY <1>1, <1>4 DEF Owned
<1>6. Bay(c, seen) = Bay(c, units)
  <2>1. CASE Owned(c, units) = {}
    BY <1>5, <2>1 DEF Bay
  <2>2. CASE Owned(c, units) # {}
    <3>1. Owned(c, units) \subseteq Nat
      BY DEF Owned
    <3>2. Door!Min(Owned(c, units)) \in Owned(c, units)
      BY <2>2, <3>1, Least DEF Door!Min
    <3>3. seen[Door!Min(Owned(c, units))] = units[Door!Min(Owned(c, units))]
      BY <1>2, <1>3, <3>2 DEF Owned
    <3>4. QED
      BY <1>5, <3>3 DEF Bay
  <2>3. QED
    BY <2>1, <2>2
<1>7. \A i \in DOMAIN units : Whole(c, seen, seen[i]) <=> Whole(c, units, units[i])
  <2>1. SUFFICES ASSUME NEW i \in DOMAIN units
                 PROVE  Whole(c, seen, seen[i]) <=> Whole(c, units, units[i])
    OBVIOUS
  <2>2. CASE Whole(c, units, units[i])
    BY <1>2, <1>6, <2>2 DEF Whole
  <2>3. CASE ~Whole(c, units, units[i])
    <3>1. seen[i] = Door!Redacted(units[i]) /\ ~Door!OwnsUnit(c, units[i])
      BY <1>2, <1>3, <2>3
    <3>2. ~Door!OwnsUnit(c, seen[i]) /\ Door!Field(seen[i], "ulpin") = None
      BY <3>1, RedactedIsNobodys
    <3>3. QED
      BY <2>3, <3>2, Zenon DEF Whole
  <2>4. QED
    BY <2>2, <2>3
<1>8. \A i \in DOMAIN units : (IF Whole(c, seen, seen[i]) THEN seen[i] ELSE Door!Redacted(seen[i])) = seen[i]
  BY <1>2, <1>7, RedactedTwice, Zenon
<1>9. \A i \in DOMAIN units : Seen(c, seen)[i] = seen[i]
  BY <1>1, <1>8 DEF Seen
<1>10. Seen(c, seen) = [i \in DOMAIN units |-> Seen(c, seen)[i]] /\ seen = [i \in DOMAIN units |-> seen[i]]
  BY <1>1 DEF Seen, seen
<1>11. QED
  BY <1>9, <1>10 DEF seen

\* A resident is known by the flat they live in; every volume of a document has its storey.
HasFlat(c) == Door!IsCitizen(c) => c.unit # None
Volumes(units) == DOMAIN units \subseteq Nat /\ \A i \in DOMAIN units : "level_no" \in DOMAIN units[i]

LEMMA StripAllTwice ==
  ASSUME NEW units
  PROVE  /\ StripAll(StripAll(units)) = StripAll(units)
         /\ Volumes(units) => Volumes(StripAll(units))
<1>1. DOMAIN StripAll(units) = DOMAIN units /\ \A i \in DOMAIN units : StripAll(units)[i] = Stripped(units[i])
  BY DEF StripAll
<1>2. \A i \in DOMAIN units : Stripped(StripAll(units)[i]) = StripAll(units)[i]
  BY <1>1, StrippedTwice
<1>3. StripAll(StripAll(units)) = StripAll(units)
  BY <1>1, <1>2, Zenon DEF StripAll
<1>4. "level_no" \notin Door!IdentityFields
  BY DEF Door!IdentityFields
<1>5. Volumes(units) => Volumes(StripAll(units))
  <2>1. ASSUME NEW u, "level_no" \in DOMAIN u
        PROVE  "level_no" \in DOMAIN Stripped(u)
    <3>1. DOMAIN Door!Without(u, Door!IdentityFields) = DOMAIN u \ Door!IdentityFields
      BY FieldsOfPart
    <3>2. QED
      BY <1>4, <2>1, <3>1 DEF Stripped
  <2>2. QED
    BY <1>1, <2>1 DEF Volumes
<1>6. QED
  BY <1>3, <1>5

LEMMA StripSeen ==
  ASSUME NEW c, NEW units
  PROVE  StripAll(Seen(c, StripAll(units))) = Seen(c, StripAll(units))
<1> DEFINE all == StripAll(units)
<1>1. DOMAIN all = DOMAIN units /\ \A i \in DOMAIN units : all[i] = Stripped(units[i])
  BY DEF StripAll
<1>2. \A i \in DOMAIN units : Stripped(all[i]) = all[i]
  BY <1>1, StrippedTwice
<1> HIDE DEF all
<1> DEFINE shown == Seen(c, all)
<1>3. shown = [i \in DOMAIN units |-> IF Whole(c, all, all[i]) THEN all[i] ELSE Door!Redacted(all[i])]
  BY <1>1 DEF Seen
<1>4. \A i \in DOMAIN units : shown[i] = all[i] \/ shown[i] = Door!Redacted(all[i])
  BY <1>3
<1>5. DOMAIN shown = DOMAIN units /\ shown = [i \in DOMAIN units |-> shown[i]]
  BY <1>3
<1> HIDE DEF shown
<1>6. \A i \in DOMAIN units : Stripped(shown[i]) = shown[i]
  BY <1>2, <1>4, RedactedTwice
<1>7. StripAll(shown) = [i \in DOMAIN units |-> Stripped(shown[i])]
  BY <1>5 DEF StripAll
<1>8. StripAll(shown) = shown
  BY <1>5, <1>6, <1>7
<1>9. QED
  BY <1>8 DEF shown, all

\* A document narrowed twice is the one narrowed once, whoever asks: what decides which
\* volumes are a resident's is never among what is taken away (stripCoreIdentity and
\* filterDetailForCaller, one after the other in narrowDetailForCaller).
THEOREM NarrowedOnce ==
  ASSUME NEW c, NEW b, NEW p, NEW f, NEW units, HasFlat(c), Volumes(units)
  PROVE  Door!NarrowDetail(c, Door!NarrowDetail(c, Detail(b, p, f, units))) =
           Door!NarrowDetail(c, Detail(b, p, f, units))
<1> DEFINE all == StripAll(units)
           some == Door!Only(b, Door!CitizenBuildingFields)
           storeys == [i \in DOMAIN f |-> Door!Without(f[i], {"ulpin"})]
           shown == Seen(c, all)
<1>1. StripAll(all) = all /\ Volumes(all) /\ StripAll(shown) = shown
  BY StripAllTwice, StripSeen, Zenon
<1>2. Door!Only(some, Door!CitizenBuildingFields) = some
  BY PartOfPart
<1>3. [i \in DOMAIN storeys |-> Door!Without(storeys[i], {"ulpin"})] = storeys
  <2>1. DOMAIN storeys = DOMAIN f /\ \A i \in DOMAIN f : storeys[i] = Door!Without(f[i], {"ulpin"})
    OBVIOUS
  <2>2. \A i \in DOMAIN f : Door!Without(Door!Without(f[i], {"ulpin"}), {"ulpin"}) = Door!Without(f[i], {"ulpin"})
    BY PartOfPart, Zenon
  <2>3. QED
    BY <2>1, <2>2
<1>4. Door!IsCitizen(c) => Seen(c, shown) = shown
  BY <1>1, SeenTwice DEF HasFlat, Volumes
<1>5. Door!NarrowDetail(c, Detail(b, p, f, units)) =
        IF Door!IsCitizen(c) THEN Detail(some, None, storeys, shown) ELSE Detail(b, p, f, all)
  BY NarrowOf
<1>6. Door!NarrowDetail(c, Detail(b, p, f, all)) = IF Door!IsCitizen(c) THEN Detail(some, None, storeys, shown) ELSE Detail(b, p, f, all)
  BY <1>1, NarrowOf
<1> HIDE DEF all, shown, some, storeys
<1>7. Door!IsCitizen(c) =>
        Door!NarrowDetail(c, Detail(some, None, storeys, shown)) = Detail(some, None, storeys, shown)
  <2>1. Door!NarrowDetail(c, Detail(some, None, storeys, shown)) =
          IF Door!IsCitizen(c)
          THEN Detail(Door!Only(some, Door!CitizenBuildingFields), None,
                      [i \in DOMAIN storeys |-> Door!Without(storeys[i], {"ulpin"})], Seen(c, StripAll(shown)))
          ELSE Detail(some, None, storeys, StripAll(shown))
    BY NarrowOf
  <2>2. QED
    BY <1>1, <1>2, <1>3, <1>4, <2>1
<1>8. QED
  BY <1>5, <1>6, <1>7, Zenon

LEMMA StrippedKeeps ==
  ASSUME NEW u, NEW k
  PROVE  /\ k \in DOMAIN Stripped(u) => k \in DOMAIN u /\ Stripped(u)[k] = u[k]
         /\ k \notin Door!IdentityFields =>
              /\ Door!Field(Stripped(u), k) = Door!Field(u, k)
              /\ k \in DOMAIN u => k \in DOMAIN Stripped(u) /\ Stripped(u)[k] = u[k]
         /\ Door!IsFabric(u) /\ k \in Door!IdentityFields => k \notin DOMAIN Stripped(u)
         /\ Door!Field(Stripped(u), k) = Door!Field(u, k) \/ Door!Field(Stripped(u), k) = None
<1>1. DOMAIN Door!Without(u, Door!IdentityFields) = DOMAIN u \ Door!IdentityFields
  BY FieldsOfPart
<1>2. k \in DOMAIN u \ Door!IdentityFields => Door!Without(u, Door!IdentityFields)[k] = u[k]
  BY FieldsOfPart
<1>3. QED
  BY <1>1, <1>2 DEF Stripped, Door!Field

LEMMA StripOwned ==
  ASSUME NEW c, NEW units, Volumes(units)
  PROVE  /\ \A i \in DOMAIN units : Door!OwnsUnit(c, StripAll(units)[i]) <=> Door!OwnsUnit(c, units[i])
         /\ Owned(c, StripAll(units)) = Owned(c, units)
         /\ Bay(c, StripAll(units)) = Bay(c, units)
<1>1. DOMAIN StripAll(units) = DOMAIN units /\ \A i \in DOMAIN units : StripAll(units)[i] = Stripped(units[i])
  BY DEF StripAll
<1>2. {"level_no", "unit_no", "parking_ulpin"} \cap Door!IdentityFields = {}
  BY DEF Door!IdentityFields
<1>3. \A i \in DOMAIN units :
        /\ Stripped(units[i]).level_no = units[i].level_no
        /\ Door!Field(Stripped(units[i]), "unit_no") = Door!Field(units[i], "unit_no")
        /\ Door!Field(Stripped(units[i]), "parking_ulpin") = Door!Field(units[i], "parking_ulpin")
  BY <1>2, StrippedKeeps DEF Volumes
<1>4. \A i \in DOMAIN units : Door!OwnsUnit(c, StripAll(units)[i]) <=> Door!OwnsUnit(c, units[i])
  BY <1>1, <1>3 DEF Door!OwnsUnit
<1>5. Owned(c, StripAll(units)) = Owned(c, units)
  BY <1>1, <1>4 DEF Owned
<1>6. CASE Owned(c, units) = {}
  BY <1>4, <1>5, <1>6 DEF Bay
<1>7. CASE Owned(c, units) # {}
  <2>1. Owned(c, units) \subseteq Nat /\ Owned(c, units) \subseteq DOMAIN units
    BY DEF Owned, Volumes
  <2>2. Door!Min(Owned(c, units)) \in Owned(c, units)
    BY <1>7, <2>1, Least DEF Door!Min
  <2>3. QED
    BY <1>1, <1>3, <1>4, <1>5, <2>1, <2>2 DEF Bay
<1>8. QED
  BY <1>4, <1>5, <1>6, <1>7

\* Private is whatever is neither public nor the name on a door of the fabric.
Private(k) == k \notin Door!PublicUnitFields \cup {"unit_no", "label", "restricted"}

LEMMA HiddenKeeps ==
  ASSUME NEW u, NEW k
  PROVE  /\ k \in DOMAIN Door!Redacted(u) /\ k # "restricted" => k \in DOMAIN u /\ Door!Redacted(u)[k] = u[k]
         /\ Private(k) => k \notin DOMAIN Door!Redacted(u)
<1>1. DOMAIN Door!Redacted(u) = (DOMAIN u \cap Kept(u)) \cup {"restricted"}
  BY FieldsOfRedacted
<1>2. k \in DOMAIN u \cap Kept(u) => Door!Redacted(u)[k] = u[k]
  BY FieldsOfRedacted, Zenon
<1>3. Private(k) => k \notin Kept(u) \cup {"restricted"}
  BY DEF Private, Kept
<1>4. QED
  BY <1>1, <1>2, <1>3

\* The volume u is the bay which the first flat of c in units has on its title.
BayOf(c, units, u) ==
  \E j \in DOMAIN units :
    /\ Door!OwnsUnit(c, units[j])
    /\ \A h \in DOMAIN units : Door!OwnsUnit(c, units[h]) => j <= h
    /\ Door!Field(units[j], "parking_ulpin") # None
    /\ Door!Field(u, "ulpin") = Door!Field(units[j], "parking_ulpin")

LEMMA WholeIsOwn ==
  ASSUME NEW c, NEW units, Volumes(units), NEW i \in DOMAIN units,
         Whole(c, StripAll(units), StripAll(units)[i]), ~Door!OwnsUnit(c, units[i])
  PROVE  BayOf(c, units, units[i])
<1> DEFINE all == StripAll(units)
           first == Door!Min(Owned(c, units))
<1>1. all[i] = Stripped(units[i])
  BY DEF StripAll
<1>2. /\ Door!OwnsUnit(c, all[i]) <=> Door!OwnsUnit(c, units[i])
      /\ Owned(c, all) = Owned(c, units) /\ Bay(c, all) = Bay(c, units)
  BY StripOwned
<1> HIDE DEF all
<1>3. Whole(c, all, all[i])
  BY DEF all
<1>4. Bay(c, units) # None /\ Door!Field(all[i], "ulpin") = Bay(c, units)
  BY <1>2, <1>3, Zenon DEF Whole
<1>5. Door!Field(units[i], "ulpin") = Bay(c, units)
  BY <1>1, <1>4, StrippedKeeps
<1>6. Owned(c, units) # {} /\ Owned(c, units) \subseteq Nat
  BY <1>4 DEF Bay, Owned, Volumes
<1>7. first \in Owned(c, units) /\ \A h \in Owned(c, units) : first <= h
  BY <1>6, Least DEF Door!Min
<1>8. Door!Field(units[first], "parking_ulpin") = Bay(c, units)
  BY <1>6 DEF Bay
<1> HIDE DEF first
<1>9. first \in DOMAIN units /\ Door!OwnsUnit(c, units[first])
  BY <1>7 DEF Owned
<1>10. \A h \in DOMAIN units : Door!OwnsUnit(c, units[h]) => first <= h
  BY <1>7, Zenon DEF Owned
<1>11. QED
  BY <1>4, <1>5, <1>8, <1>9, <1>10 DEF BayOf

\* What is served of a volume is what is recorded of it, and no private field of it to a
\* resident who has neither the volume nor the bay (stripCoreIdentity, filterDetailForCaller).
THEOREM PrivateOfOne ==
  ASSUME NEW c, NEW b, NEW p, NEW f, NEW units, Volumes(units), NEW i \in DOMAIN units, NEW k,
         k \in DOMAIN Door!NarrowDetail(c, Detail(b, p, f, units)).units[i], k # "restricted"
  PROVE  /\ k \in DOMAIN units[i] /\ Door!NarrowDetail(c, Detail(b, p, f, units)).units[i][k] = units[i][k]
         /\ Door!IsFabric(units[i]) => k \notin Door!IdentityFields
         /\ Door!IsCitizen(c) /\ Private(k) => Door!OwnsUnit(c, units[i]) \/ BayOf(c, units, units[i])
<1> DEFINE all == StripAll(units)
           v == Door!NarrowDetail(c, Detail(b, p, f, units)).units
<1>1. DOMAIN all = DOMAIN units /\ all[i] = Stripped(units[i])
  BY DEF StripAll
<1>2. v = IF Door!IsCitizen(c) THEN Seen(c, all) ELSE all
  <2>1. \A x, y, z : Detail(x, y, z, Seen(c, all)).units = Seen(c, all) /\ Detail(x, y, z, all).units = all
    BY DEF Detail
  <2>2. Door!NarrowDetail(c, Detail(b, p, f, units)) =
          IF Door!IsCitizen(c)
          THEN Detail(Door!Only(b, Door!CitizenBuildingFields), None,
                      [j \in DOMAIN f |-> Door!Without(f[j], {"ulpin"})], Seen(c, StripAll(units)))
          ELSE Detail(b, p, f, StripAll(units))
    BY NarrowOf
  <2>3. QED
    BY <2>1, <2>2, Zenon
<1>3. Whole(c, all, all[i]) => Door!OwnsUnit(c, units[i]) \/ BayOf(c, units, units[i])
  BY WholeIsOwn
<1> HIDE DEF all, v
<1>4. v[i] = all[i] \/ (Door!IsCitizen(c) /\ v[i] = Door!Redacted(all[i]))
  BY <1>1, <1>2 DEF Seen
<1>5. k \in DOMAIN v[i]
  BY DEF v
<1>6. k \in DOMAIN all[i] /\ v[i][k] = all[i][k]
  <2>1. k \in DOMAIN Door!Redacted(all[i]) => k \in DOMAIN all[i] /\ Door!Redacted(all[i])[k] = all[i][k]
    BY HiddenKeeps, Zenon
  <2>2. QED
    BY <1>4, <1>5, <2>1
<1>7. k \in DOMAIN units[i] /\ v[i][k] = units[i][k] /\ (Door!IsFabric(units[i]) => k \notin Door!IdentityFields)
  BY <1>1, <1>6, StrippedKeeps
<1>8. ASSUME Door!IsCitizen(c), Private(k)
      PROVE  Whole(c, all, all[i])
  <2>1. k \notin DOMAIN Door!Redacted(all[i])
    BY <1>8, HiddenKeeps, Zenon
  <2>2. v[i] # Door!Redacted(all[i])
    BY <1>5, <2>1
  <2>3. QED
    BY <1>1, <1>2, <1>8, <2>2 DEF Seen
<1>9. QED
  BY <1>3, <1>7, <1>8 DEF v

-----------------------------------------------------------------------------
(* Api: two registers that differ in what is another's *)

\* Two volumes that look the same: of one kind, with the same public fields.
SameFace(u, w) == DOMAIN u \cap Kept(u) = DOMAIN w \cap Kept(u) /\ \A k \in DOMAIN u \cap Kept(u) : u[k] = w[k]

\* Neither the flat of c nor the bay on its title.
Anothers(c, units, i) == ~Door!OwnsUnit(c, units[i]) /\ ~BayOf(c, units, units[i])

LEMMA SameFaceHidden ==
  ASSUME NEW u, NEW w, SameFace(u, w)
  PROVE  Door!Redacted(Stripped(u)) = Door!Redacted(Stripped(w))
<1>1. "kind" \in Kept(u)
  BY DEF Kept, Door!PublicUnitFields
<1>2. Door!IsFabric(w) = Door!IsFabric(u) /\ Kept(w) = Kept(u)
  <2>1. Door!Field(w, "kind") = Door!Field(u, "kind")
    BY <1>1 DEF SameFace, Door!Field
  <2>2. Door!IsFabric(w) = Door!IsFabric(u)
    BY <2>1 DEF Door!IsFabric
  <2>3. QED
    BY <2>2 DEF Kept
<1>3. /\ Kept(Stripped(u)) = Kept(u) /\ Kept(Stripped(w)) = Kept(u)
  BY <1>2, StrippedTwice DEF Kept
<1>4. Kept(u) \cap Door!IdentityFields = {}
  BY DEF Kept, Door!PublicUnitFields, Door!IdentityFields
<1>5. \A k \in Kept(u) :
        /\ k \in DOMAIN Stripped(u) <=> k \in DOMAIN u
        /\ k \in DOMAIN Stripped(w) <=> k \in DOMAIN w
        /\ k \in DOMAIN u => Stripped(u)[k] = u[k]
        /\ k \in DOMAIN w => Stripped(w)[k] = w[k]
  BY <1>4, StrippedKeeps
<1>6. DOMAIN Stripped(u) \cap Kept(u) = DOMAIN Stripped(w) \cap Kept(u)
  BY <1>5 DEF SameFace
<1>7. \A k \in DOMAIN Stripped(u) \cap Kept(u) : Stripped(u)[k] = Stripped(w)[k]
  BY <1>5, <1>6 DEF SameFace
<1> DEFINE all == (DOMAIN Stripped(u) \cap Kept(u)) \cup {"restricted"}
           value(g) == [k \in all |-> IF k = "restricted" THEN TRUE ELSE g[k]]
<1>8. Door!Redacted(Stripped(u)) = value(Stripped(u))
  BY <1>3 DEF Door!Redacted, Kept
<1>9. Door!Redacted(Stripped(w)) = value(Stripped(w))
  BY <1>3, <1>6 DEF Door!Redacted, Kept
<1>10. value(Stripped(u)) = value(Stripped(w))
  BY <1>7
<1>11. QED
  BY <1>8, <1>9, <1>10

\* A resident cannot tell two registers apart that differ in nothing but the plot, and in what
\* is recorded of volumes that are not theirs beyond where they are and of what kind: the
\* document they are served is one and the same (filterDetailForCaller).
THEOREM RegistersAlike ==
  ASSUME NEW c, NEW b, NEW p, NEW q, NEW f, NEW units, NEW others, Door!IsCitizen(c),
         Volumes(units), Volumes(others), DOMAIN others = DOMAIN units,
         \A i \in DOMAIN units :
           units[i] = others[i] \/ (Anothers(c, units, i) /\ Anothers(c, others, i) /\ SameFace(units[i], others[i]))
  PROVE  Door!NarrowDetail(c, Detail(b, p, f, units)) = Door!NarrowDetail(c, Detail(b, q, f, others))
<1> DEFINE mine == StripAll(units)
           theirs == StripAll(others)
<1>1. /\ DOMAIN mine = DOMAIN units /\ \A i \in DOMAIN units : mine[i] = Stripped(units[i])
      /\ DOMAIN theirs = DOMAIN units /\ \A i \in DOMAIN units : theirs[i] = Stripped(others[i])
  BY DEF StripAll
<1>2. \A i \in DOMAIN units : Door!OwnsUnit(c, units[i]) <=> Door!OwnsUnit(c, others[i])
  BY DEF Anothers
<1>3. Owned(c, units) = Owned(c, others)
  BY <1>2 DEF Owned
<1>4. Bay(c, units) = Bay(c, others)
  <2>1. CASE Owned(c, units) = {}
    BY <1>3, <2>1 DEF Bay
  <2>2. CASE Owned(c, units) # {}
    <3>1. Owned(c, units) \subseteq Nat
      BY DEF Owned, Volumes
    <3>2. Door!Min(Owned(c, units)) \in Owned(c, units)
      BY <2>2, <3>1, Least DEF Door!Min
    <3>3. units[Door!Min(Owned(c, units))] = others[Door!Min(Owned(c, units))]
      BY <3>2 DEF Owned, Anothers
    <3>4. QED
      BY <1>3, <3>3 DEF Bay
  <2>3. QED
    BY <2>1, <2>2
<1>5. Bay(c, mine) = Bay(c, units) /\ Bay(c, theirs) = Bay(c, units)
  BY <1>4, StripOwned
<1>6. \A i \in DOMAIN units :
        /\ Whole(c, mine, mine[i]) => ~Anothers(c, units, i)
        /\ Whole(c, theirs, theirs[i]) => ~Anothers(c, others, i)
  BY WholeIsOwn DEF Anothers
<1> HIDE DEF mine, theirs
<1>7. \A i \in DOMAIN units : Seen(c, mine)[i] = Seen(c, theirs)[i]
  <2>1. SUFFICES ASSUME NEW i \in DOMAIN units
                 PROVE  Seen(c, mine)[i] = Seen(c, theirs)[i]
    OBVIOUS
  <2>2. CASE units[i] = others[i]
    <3>1. mine[i] = theirs[i]
      BY <1>1, <2>2
    <3>2. Whole(c, mine, mine[i]) <=> Whole(c, theirs, theirs[i])
      BY <1>5, <3>1, Zenon DEF Whole
    <3>3. QED
      BY <1>1, <3>1, <3>2 DEF Seen
  <2>3. CASE units[i] # others[i]
    <3>1. Anothers(c, units, i) /\ Anothers(c, others, i) /\ SameFace(units[i], others[i])
      BY <2>3
    <3>2. Door!Redacted(mine[i]) = Door!Redacted(theirs[i])
      BY <1>1, <3>1, SameFaceHidden
    <3>3. QED
      BY <1>1, <1>6, <3>1, <3>2 DEF Seen
  <2>4. QED
    BY <2>2, <2>3
<1>8. Seen(c, mine) = [i \in DOMAIN units |-> Seen(c, mine)[i]] /\ Seen(c, theirs) = [i \in DOMAIN units |-> Seen(c, theirs)[i]]
  BY <1>1 DEF Seen
<1>9. Seen(c, mine) = Seen(c, theirs)
  BY <1>7, <1>8
<1> DEFINE out(shown) == Detail(Door!Only(b, Door!CitizenBuildingFields), None,
                                [i \in DOMAIN f |-> Door!Without(f[i], {"ulpin"})], shown)
<1>10. /\ Door!NarrowDetail(c, Detail(b, p, f, units)) = out(Seen(c, StripAll(units)))
       /\ Door!NarrowDetail(c, Detail(b, q, f, others)) = out(Seen(c, StripAll(others)))
  BY NarrowOf
<1>11. QED
  BY <1>9, <1>10, Zenon DEF mine, theirs

-----------------------------------------------------------------------------
(* Api: the pages of a building's volumes *)

LEMMA LimitIsKept ==
  ASSUME NEW raw, raw \in Int \/ raw = None, raw # 1 \/ raw = None
  PROVE  Door!Limit(raw) \in Nat /\ 1 <= Door!Limit(raw) /\ Door!Limit(raw) <= Door!UnitsMaxLimit
<1>1. CASE raw # None /\ raw > 0
  <2>1. raw \in Int /\ raw >= 2
    BY <1>1
  <2>2. raw \div 2 \in Int /\ raw \div 2 >= 1
    BY <2>1
  <2>3. QED
    BY <1>1, <2>2 DEF Door!Limit, Door!UnitsMaxLimit
<1>2. CASE ~(raw # None /\ raw > 0)
  BY <1>2 DEF Door!Limit, Door!UnitsMaxLimit, Door!UnitsDefaultLimit
<1>3. QED
  BY <1>1, <1>2

LEMMA OffsetIsKept ==
  ASSUME NEW n \in Nat, None \notin Int
  PROVE  Door!Offset(2 * n) = n
<1>1. (2 * n) \div 2 = n /\ 2 * n \in Int /\ 2 * n # None
  OBVIOUS
<1>2. QED
  BY <1>1 DEF Door!Offset

\* The page a reader asks for who goes on from volume n.
Page(c, d, limit, n) == Door!UnitsPage(c, d, <<>>, limit, 2 * n)

LEMMA PageOf ==
  ASSUME NEW c, NEW d, NEW V, Door!NarrowDetail(c, d).units \in Seq(V), NEW n \in Nat, None \notin Int,
         NEW limit, limit \in Int \/ limit = None, limit # 1 \/ limit = None
  PROVE  LET visible == Door!NarrowDetail(c, d).units
             page == Page(c, d, limit, n)
         IN /\ page.limit = Door!Limit(limit) /\ page.offset = n /\ page.total = Len(visible)
            /\ page.units \in Seq(V) /\ Len(page.units) <= page.limit
            /\ \A i \in 1..Len(page.units) : page.units[i] = visible[n + i]
            /\ \A k \in 1..Len(visible) : k - n \in 1..Len(page.units) <=> n < k /\ k <= n + page.limit
<1> DEFINE visible == Door!NarrowDetail(c, d).units
           page == Page(c, d, limit, n)
           L == Door!Limit(limit)
           last == IF n + L < Len(visible) THEN n + L ELSE Len(visible)
<1>1. L \in Nat /\ 1 <= L
  BY LimitIsKept
<1>2. /\ page.limit = L /\ page.offset = n /\ page.total = Len(visible)
      /\ page.units = SubSeq(visible, n + 1, last)
  BY OffsetIsKept DEF Page, Door!UnitsPage
<1>3. visible \in Seq(V) /\ Len(visible) \in Nat
  OBVIOUS
<1> HIDE DEF visible, page, L
<1>4. last \in Nat /\ last <= Len(visible) /\ last <= n + L
  BY <1>1, <1>3
<1>5. /\ page.units \in Seq(V)
      /\ Len(page.units) = IF n + 1 <= last THEN last - n ELSE 0
      /\ \A i \in 1..Len(page.units) : page.units[i] = visible[n + i]
  BY <1>2, <1>3, <1>4, SubSeqProperties
<1>6. \A k \in 1..Len(visible) : k - n \in 1..Len(page.units) <=> n < k /\ k <= n + L
  BY <1>1, <1>3, <1>4, <1>5
<1>7. Len(page.units) <= L
  BY <1>1, <1>4, <1>5
<1>8. QED
  BY <1>2, <1>5, <1>6, <1>7 DEF visible, page, L

\* A reader who goes on by the limit that the first answer names is served every volume they
\* may see on exactly one page, in its place, whatever limit they asked for but one below one
\* (buildingUnitsRoute).
THEOREM PagesReachAll ==
  ASSUME NEW c, NEW d, NEW V, Door!NarrowDetail(c, d).units \in Seq(V), None \notin Int,
         NEW limit, limit \in Int \/ limit = None, limit # 1 \/ limit = None
  PROVE  LET visible == Door!NarrowDetail(c, d).units
             step == Door!Limit(limit)
             page(m) == Page(c, d, limit, m * step)
         IN /\ 1 <= step /\ step <= Door!UnitsMaxLimit
            /\ \A m \in Nat : page(m).limit = step /\ page(m).total = Len(visible) /\ Len(page(m).units) <= step
            /\ \A k \in 1..Len(visible) :
                 \E m \in Nat :
                   /\ k - m * step \in 1..Len(page(m).units) /\ page(m).units[k - m * step] = visible[k]
                   /\ \A o \in Nat : k - o * step \in 1..Len(page(o).units) => o = m
<1> DEFINE visible == Door!NarrowDetail(c, d).units
           L == Door!Limit(limit)
           page(m) == Page(c, d, limit, m * L)
<1>1. L \in Nat /\ 1 <= L /\ L <= Door!UnitsMaxLimit
  BY LimitIsKept
<1>2. L \in Nat /\ L >= 1
  BY <1>1
<1> HIDE DEF L
<1>4. ASSUME NEW m \in Nat
      PROVE  /\ page(m).limit = L /\ page(m).total = Len(visible) /\ Len(page(m).units) <= L
             /\ \A i \in 1..Len(page(m).units) : page(m).units[i] = visible[m * L + i]
             /\ \A k \in 1..Len(visible) : k - m * L \in 1..Len(page(m).units) <=> m * L < k /\ k <= m * L + L
  <2> DEFINE n == m * L
  <2>1. n \in Nat
    BY <1>2
  <2> HIDE DEF n
  <2>2. /\ Page(c, d, limit, n).limit = L /\ Page(c, d, limit, n).total = Len(visible)
        /\ Len(Page(c, d, limit, n).units) <= Page(c, d, limit, n).limit
        /\ \A i \in 1..Len(Page(c, d, limit, n).units) : Page(c, d, limit, n).units[i] = visible[n + i]
        /\ \A k \in 1..Len(visible) : k - n \in 1..Len(Page(c, d, limit, n).units) <=>
             n < k /\ k <= n + Page(c, d, limit, n).limit
    BY <2>1, PageOf, SMTT(60) DEF L
  <2>3. QED
    BY <2>2 DEF n
<1> HIDE DEF page
<1>5. ASSUME NEW k \in 1..Len(visible)
      PROVE  \E m \in Nat :
               /\ k - m * L \in 1..Len(page(m).units) /\ page(m).units[k - m * L] = visible[k]
               /\ \A o \in Nat : k - o * L \in 1..Len(page(o).units) => o = m
  <2> DEFINE m == (k - 1) \div L
  <2>0. Len(visible) \in Nat
    OBVIOUS
  <2>1. k \in Nat /\ k >= 1
    BY <2>0
  <2>2. m \in Nat /\ m * L <= k - 1 /\ k - 1 < m * L + L
    BY <1>2, <2>1
  <2> HIDE DEF m
  <2>3. m * L \in Nat /\ m * L < k /\ k <= m * L + L
    BY <1>2, <2>1, <2>2
  <2>4. k - m * L \in 1..Len(page(m).units)
    BY <1>4, <2>2, <2>3
  <2>5. page(m).units[k - m * L] = visible[m * L + (k - m * L)]
    BY <1>4, <2>2, <2>4
  <2>6. m * L + (k - m * L) = k
    BY <2>1, <2>3
  <2>7. ASSUME NEW o \in Nat, k - o * L \in 1..Len(page(o).units)
        PROVE  o = m
    <3>1. o * L < k /\ k <= o * L + L
      BY <1>4, <2>7
    <3>2. o * L \in Nat
      BY <1>2
    <3>3. ~(o < m)
      <4>1. SUFFICES ASSUME o + 1 <= m PROVE FALSE
        BY <2>2
      <4>2. (o + 1) * L <= m * L
        BY <1>2, <2>2, <4>1
      <4>3. (o + 1) * L = o * L + L
        BY <1>2
      <4>4. QED
        BY <1>2, <2>1, <2>3, <3>1, <3>2, <4>2, <4>3
    <3>4. ~(m < o)
      <4>1. SUFFICES ASSUME m + 1 <= o PROVE FALSE
        BY <2>2
      <4>2. (m + 1) * L <= o * L
        BY <1>2, <2>2, <4>1
      <4>3. (m + 1) * L = m * L + L
        BY <1>2, <2>2
      <4>4. QED
        BY <1>2, <2>1, <2>3, <3>1, <3>2, <4>2, <4>3
    <3>5. QED
      BY <2>2, <3>3, <3>4
  <2>8. QED
    BY <2>2, <2>4, <2>5, <2>6, <2>7
<1>6. QED
  BY <1>1, <1>4, <1>5 DEF page, L
=============================================================================
