------------------------- MODULE PristineReadsProofs -------------------------
(***************************************************************************)
(* What a pristine read may answer and what the shared cache and the memo  *)
(* may keep, for any requests, projects, outages, probes, failures of      *)
(* Redis and restarts.  And that Topology compares distances as the code   *)
(* does that takes their roots.                                            *)
(***************************************************************************)
EXTENDS PristineReads, Integers, TLAPS

Flights == [pc : Phases, slug : Slugs, kind : Kinds, back : {"gate", "rows", "key"},
            keyed : Scopes, used : Scopes, header : Backends, body : Bodies,
            hit : BOOLEAN, clean : BOOLEAN]

Typed ==
  /\ up \in BOOLEAN /\ cool \in BOOLEAN /\ redis \in BOOLEAN /\ dropped \in BOOLEAN
  /\ usable \in {"unknown", "yes", "no"}
  /\ scope \in [Slugs -> Scopes]
  /\ memo \in [Slugs -> Bodies \cup {None}]
  /\ shelf \in [Slugs -> [Backends -> [Kinds -> Bodies \cup {None}]]]
  /\ req \in [Requests -> Flights]
  /\ outages \in 0..MaxOutages
  /\ raced \in SUBSET Slugs

\* The steps between the key and the answer, and those of them that carry a body.
Carrying == {"put", "head", "pack"}
Keyed == {"get", "load", "query"} \cup Carrying

\* The scope of its project is known, from when a request has asked for it.
KnowsScope(q) ==
  /\ req[q].pc \in Resolving => req[q].back # "gate"
  /\ req[q].pc \in Keyed => req[q].keyed # "unset"
  /\ req[q].pc \in Keyed \cup {"count"} => scope[req[q].slug] # "unset"
  /\ req[q].pc = "query" => req[q].used \in {"own", "all"}

\* Where no scope was resolved twice, it is still the one of the key, and the body comes
\* from its backend, but for a query that failed.
Truthful(body, backend) == body.from = backend \/ body.failed

Labelled(q) ==
  req[q].slug \notin raced =>
    /\ req[q].pc \in Keyed => req[q].keyed = scope[req[q].slug]
    /\ req[q].pc = "query" => req[q].used = scope[req[q].slug]
    /\ req[q].pc \in Carrying => Truthful(req[q].body, Backend(req[q].keyed))
    /\ req[q].pc = "pack" => req[q].header = Backend(req[q].keyed)
    /\ req[q].pc = "ok" => Truthful(req[q].body, req[q].header)

\* The rows of another project, or of all.
MayBeForeign(s) == s = Demo /\ dropped

CarriesOwn(q) ==
  /\ req[q].pc = "query" /\ req[q].used = "all" => MayBeForeign(req[q].slug)
  /\ req[q].pc \in Carrying \cup {"ok"} /\ req[q].body.of # req[q].slug =>
       MayBeForeign(req[q].slug)

\* The last probe does not keep anybody from the database.
Reachable == up /\ ~(usable = "no" /\ cool)

FromDatabase(q) ==
  \/ req[q].body.from = "postgis"
  \/ req[q].hit /\ (req[q].body.failed \/ req[q].slug \in raced)

StaysClean(q) ==
  /\ req[q].pc \in {"new", "lost"} => ~req[q].clean
  /\ req[q].clean /\ req[q].pc \notin Ends =>
       /\ Reachable
       /\ req[q].slug \in InDatabase =>
            /\ scope[req[q].slug] # "none"
            /\ req[q].pc \in Keyed => req[q].keyed # "none"
            /\ req[q].pc \in Carrying => FromDatabase(q)
  /\ req[q].clean /\ req[q].pc \in Ends /\ req[q].slug \in InDatabase =>
       req[q].pc = "ok" /\ FromDatabase(q)

RequestSound(q) == KnowsScope(q) /\ Labelled(q) /\ CarriesOwn(q) /\ StaysClean(q)

\* A scope that is being resolved is not known yet, and by one request at a time; what is
\* kept under a project's name agrees with it.
ResolvedOnce(s) ==
  s \notin raced =>
    /\ \A q, r \in Requests : ResolvingScope(q, s) /\ ResolvingScope(r, s) => q = r
    /\ \A q \in Requests : ResolvingScope(q, s) => scope[s] = "unset"

KeptTruthful(s) ==
  s \notin raced =>
    /\ memo[s] # None => scope[s] # "unset" /\ Truthful(memo[s], Backend(scope[s]))
    /\ \A b \in Backends, k \in Kinds :
         shelf[s][b][k] # None => Truthful(shelf[s][b][k], b)

KeptOwn(s) ==
  /\ scope[s] = "all" => MayBeForeign(s)
  /\ memo[s] # None /\ memo[s].of # s => MayBeForeign(s)
  /\ \A b \in Backends, k \in Kinds :
       shelf[s][b][k] # None /\ shelf[s][b][k].of # s => MayBeForeign(s)

ProjectSound(s) == ResolvedOnce(s) /\ KeptTruthful(s) /\ KeptOwn(s)

ReadsInv ==
  /\ Typed
  /\ \A q \in Requests : RequestSound(q)
  /\ \A s \in Slugs : ProjectSound(s)

-----------------------------------------------------------------------------
(* What a step leaves alone stays sound. *)

LEMMA RequestKept ==
  ASSUME NEW q \in Requests, RequestSound(q), req'[q] = req[q],
         scope'[req[q].slug] = scope[req[q].slug], raced \subseteq raced',
         dropped => dropped', Reachable => Reachable'
  PROVE  RequestSound(q)'
<1>1. KnowsScope(q)'
  BY DEF RequestSound, KnowsScope
<1>2. Labelled(q)'
  BY DEF RequestSound, Labelled, Truthful
<1>3. CarriesOwn(q)'
  BY DEF RequestSound, CarriesOwn, MayBeForeign
<1>4. StaysClean(q)'
  BY DEF RequestSound, StaysClean, FromDatabase
<1>5. QED
  BY <1>1, <1>2, <1>3, <1>4 DEF RequestSound

LEMMA ProjectKept ==
  ASSUME NEW s \in Slugs, ProjectSound(s), scope'[s] = scope[s],
         memo'[s] \in {memo[s], None}, raced \subseteq raced', dropped => dropped',
         \A b \in Backends, k \in Kinds : shelf'[s][b][k] \in {shelf[s][b][k], None},
         s \notin raced' => \A q \in Requests : ResolvingScope(q, s)' => ResolvingScope(q, s)
  PROVE  ProjectSound(s)'
<1>1. ResolvedOnce(s)'
  BY DEF ProjectSound, ResolvedOnce
<1>2. KeptTruthful(s)'
  BY DEF ProjectSound, KeptTruthful, Truthful
<1>3. KeptOwn(s)'
  BY DEF ProjectSound, KeptOwn, MayBeForeign
<1>4. QED
  BY <1>1, <1>2, <1>3 DEF ProjectSound

\* A step of one request that changes nothing else, but perhaps the last probe.
LEMMA OneRequest ==
  ASSUME ReadsInv, NEW r \in Requests, NEW x \in Flights, req' = [req EXCEPT ![r] = x],
         UNCHANGED <<outside, scope, memo, raced, dropped>>,
         usable' \in {"unknown", "yes", "no"}, cool' \in BOOLEAN, Reachable => Reachable',
         \A s \in Slugs : ResolvingScope(r, s)' => ResolvingScope(r, s),
         RequestSound(r)'
  PROVE  ReadsInv'
<1>1. \A q \in Requests : q # r => req'[q] = req[q]
  BY DEF ReadsInv, Typed
<1>2. Typed'
  BY DEF ReadsInv, Typed, outside
<1>3. ASSUME NEW q \in Requests PROVE RequestSound(q)'
  <2>1. CASE q = r
    BY <2>1
  <2>2. CASE q # r
    <3>1. RequestSound(q) /\ req'[q] = req[q] /\ scope' = scope /\ raced' = raced /\ dropped' = dropped
      BY <1>1, <2>2 DEF ReadsInv
    <3>2. QED
      BY <3>1, RequestKept
  <2>3. QED
    BY <2>1, <2>2
<1>4. ASSUME NEW s \in Slugs PROVE ProjectSound(s)'
  <2>1. \A q \in Requests : ResolvingScope(q, s)' => ResolvingScope(q, s)
    BY <1>1 DEF ResolvingScope
  <2>2. ProjectSound(s) /\ UNCHANGED <<scope, memo, shelf, raced, dropped>>
    BY DEF ReadsInv, outside
  <2>3. QED
    BY <2>1, <2>2, ProjectKept
<1>5. QED
  BY <1>2, <1>3, <1>4 DEF ReadsInv

LEMMA InFlight ==
  ASSUME ReadsInv, NEW q \in Requests
  PROVE  /\ req[q] \in Flights /\ RequestSound(q)
         /\ req[q].pc \in Phases /\ req[q].slug \in Slugs /\ req[q].kind \in Kinds
         /\ req[q].back \in {"gate", "rows", "key"}
         /\ req[q].keyed \in Scopes /\ req[q].used \in Scopes
         /\ req[q].header \in Backends /\ req[q].body \in Bodies
         /\ req[q].hit \in BOOLEAN /\ req[q].clean \in BOOLEAN
BY DEF ReadsInv, Typed, Flights

\* Most steps only move a request on.
LEMMA Moved ==
  ASSUME ReadsInv, NEW r \in Requests, NEW phase \in Phases, Goto(r, phase)
  PROVE  /\ [req[r] EXCEPT !.pc = phase] \in Flights
         /\ req' = [req EXCEPT ![r] = [req[r] EXCEPT !.pc = phase]]
         /\ req'[r] = [req[r] EXCEPT !.pc = phase]
         /\ req'[r].pc = phase
         /\ req'[r].slug = req[r].slug /\ req'[r].kind = req[r].kind
         /\ req'[r].back = req[r].back /\ req'[r].keyed = req[r].keyed
         /\ req'[r].used = req[r].used /\ req'[r].header = req[r].header
         /\ req'[r].body = req[r].body /\ req'[r].hit = req[r].hit
         /\ req'[r].clean = req[r].clean
<1>1. req[r] \in Flights
  BY DEF ReadsInv, Typed
<1>2. [req[r] EXCEPT !.pc = phase] \in Flights
  BY <1>1 DEF Flights
<1>3. req'[r] = [req[r] EXCEPT !.pc = phase] /\ req' = [req EXCEPT ![r] = [req[r] EXCEPT !.pc = phase]]
  BY DEF Goto, ReadsInv, Typed
<1>4. QED
  BY <1>1, <1>2, <1>3 DEF Flights

LEMMA InitSound ==
  ASSUME Init
  PROVE  ReadsInv
<1>1. NewRequest \in Flights /\ NewRequest.pc = "new" /\ NewRequest.clean = FALSE
  BY ProjectAssumption DEF NewRequest, Flights, Phases, Scopes, Backends, Kinds, Bodies
<1>2. /\ scope \in [Slugs -> Scopes] /\ req \in [Requests -> Flights]
      /\ 0 \in 0..MaxOutages
  BY <1>1, OutageAssumption DEF Init, Scopes
<1>3. /\ memo \in [Slugs -> Bodies \cup {None}]
      /\ shelf \in [Slugs -> [Backends -> [Kinds -> Bodies \cup {None}]]]
  BY DEF Init
<1>4. Typed
  BY <1>2, <1>3 DEF Init, Typed
<1>5. \A q \in Requests : req[q].pc = "new" /\ req[q].clean = FALSE
  BY <1>1 DEF Init
<1>6. \A q \in Requests : RequestSound(q)
  BY <1>5 DEF RequestSound, KnowsScope, Labelled, CarriesOwn, StaysClean, Keyed, Carrying, Resolving, Ends
<1>7. \A q \in Requests, s \in Slugs : ~ResolvingScope(q, s)
  BY <1>5 DEF ResolvingScope, Resolving
<1>8. \A s \in Slugs : ProjectSound(s)
  BY <1>7 DEF Init, ProjectSound, ResolvedOnce, KeptTruthful, KeptOwn
<1>9. QED
  BY <1>4, <1>6, <1>8 DEF ReadsInv

\* A request that goes on to a step at which it has nothing to keep yet, and resolves no scope.
LEMMA GoesOnSound ==
  ASSUME ReadsInv, NEW r \in Requests, NEW phase \in {"gate", "list", "rows", "key", "count"},
         Goto(r, phase), UNCHANGED <<outside, scope, memo, raced, dropped>>,
         usable' \in {"unknown", "yes", "no"}, cool' \in BOOLEAN, Reachable => Reachable',
         phase = "count" => scope[req[r].slug] # "unset",
         req[r].pc \notin Ends \cup {"new", "lost"}
  PROVE  ReadsInv'
<1>1. phase \in Phases
  BY DEF Phases
<1>2. RequestSound(r) /\ scope' = scope /\ raced' = raced
  BY DEF ReadsInv
<1>3. RequestSound(r)'
  <2>1. KnowsScope(r)'
    BY <1>1, <1>2, Moved DEF KnowsScope, Resolving, Keyed, Carrying
  <2>2. Labelled(r)' /\ CarriesOwn(r)'
    BY <1>1, Moved DEF Labelled, CarriesOwn, Keyed, Carrying
  <2>3. StaysClean(r)'
    BY <1>1, <1>2, Moved DEF RequestSound, StaysClean, Keyed, Carrying, Ends
  <2>4. QED
    BY <2>1, <2>2, <2>3 DEF RequestSound
<1>4. \A s \in Slugs : ~ResolvingScope(r, s)'
  BY <1>1, Moved DEF ResolvingScope, Resolving
<1>5. QED
  <2> DEFINE x == [req[r] EXCEPT !.pc = phase]
  <2>1. x \in Flights /\ req' = [req EXCEPT ![r] = x]
    BY <1>1, Moved
  <2> HIDE DEF x
  <2>2. QED
    BY <1>3, <1>4, <2>1, OneRequest

\* A request that is turned away: no clean one of a project the database holds is.
LEMMA RefusedSound ==
  ASSUME ReadsInv, NEW r \in Requests, NEW phase \in Ends \ {"ok"}, Goto(r, phase),
         UNCHANGED <<outside, scope, memo, raced, dropped, usable, cool>>,
         req[r].slug \in InDatabase => ~req[r].clean
  PROVE  ReadsInv'
<1>1. phase \in Phases /\ phase \notin Resolving \cup Keyed \cup {"count", "ok", "new", "lost", "probe"}
  BY DEF Phases, Ends, Resolving, Keyed, Carrying
<1>2. RequestSound(r)'
  <2>1. KnowsScope(r)'
    BY <1>1, Moved DEF KnowsScope, Keyed
  <2>2. Labelled(r)' /\ CarriesOwn(r)'
    BY <1>1, Moved DEF Labelled, CarriesOwn, Keyed, Carrying
  <2>3. StaysClean(r)'
    BY <1>1, Moved DEF StaysClean
  <2>4. QED
    BY <2>1, <2>2, <2>3 DEF RequestSound
<1>3. \A s \in Slugs : ~ResolvingScope(r, s)'
  BY <1>1, Moved DEF ResolvingScope
<1>4. QED
  <2> DEFINE x == [req[r] EXCEPT !.pc = phase]
  <2>1. x \in Flights /\ req' = [req EXCEPT ![r] = x]
    BY <1>1, Moved
  <2>2. usable' \in {"unknown", "yes", "no"} /\ cool' \in BOOLEAN /\ (Reachable => Reachable')
    BY DEF ReadsInv, Typed, outside, Reachable
  <2> HIDE DEF x
  <2>3. QED
    BY <1>2, <1>3, <2>1, <2>2, OneRequest

-----------------------------------------------------------------------------
(* usingDb, and the scope that its caller may settle. *)

\* A scope is settled once, unless two requests resolved it: none of the requests that know
\* it, and nothing that is kept, can disagree with it.
LEMMA SettledSound ==
  ASSUME ReadsInv, NEW r \in Requests, ResolvingScope(r, req[r].slug),
         NEW v \in Scopes \ {"unset"},
         scope' = [scope EXCEPT ![req[r].slug] = v], Goto(r, req[r].back),
         dropped' \in BOOLEAN, dropped => dropped',
         v = "all" => req[r].slug = Demo /\ dropped',
         usable' \in {"unknown", "yes", "no"}, cool' \in BOOLEAN, Reachable => Reachable',
         v = "none" /\ req[r].slug \in InDatabase => ~Reachable,
         UNCHANGED <<outside, memo, raced>>
  PROVE  ReadsInv'
<1> DEFINE s == req[r].slug
<1>1. /\ s \in Slugs /\ req[r].back \in {"rows", "key"} /\ req[r].back \in Phases
      /\ req[r].pc \in {"resolve", "scope", "probe"}
  BY DEF ReadsInv, Typed, Flights, RequestSound, KnowsScope, ResolvingScope, Resolving, Phases
<1>2. /\ scope'[s] = v /\ \A t \in Slugs : t # s => scope'[t] = scope[t]
      /\ scope' \in [Slugs -> Scopes]
  BY <1>1 DEF ReadsInv, Typed
<1>3. \A q \in Requests : q # r => req'[q] = req[q]
  BY <1>1, Moved, ZenonT(60) DEF ReadsInv, Typed
<1>4. Typed'
  <2>1. req' \in [Requests -> Flights]
    <3> DEFINE x == [req[r] EXCEPT !.pc = req[r].back]
    <3>1. x \in Flights /\ req' = [req EXCEPT ![r] = x]
      BY <1>1, Moved
    <3> HIDE DEF x
    <3>2. QED
      BY <3>1 DEF ReadsInv, Typed
  <2>2. QED
    BY <1>2, <2>1 DEF ReadsInv, Typed, outside
<1>5. RequestSound(r)'
  <2>1. /\ req'[r].pc \in {"rows", "key"} /\ req'[r].clean = req[r].clean
        /\ req'[r].slug = s
    BY <1>1, Moved
  <2>2. KnowsScope(r)' /\ Labelled(r)' /\ CarriesOwn(r)'
    BY <2>1 DEF KnowsScope, Labelled, CarriesOwn, Resolving, Keyed, Carrying
  <2>3. StaysClean(r)'
    BY <1>1, <1>2, <2>1 DEF ReadsInv, RequestSound, StaysClean, Ends, Keyed, Carrying
  <2>4. QED
    BY <2>2, <2>3 DEF RequestSound
<1>6. ASSUME NEW q \in Requests, q # r PROVE RequestSound(q)'
  <2>1. RequestSound(q) /\ req'[q] = req[q] /\ req[q].slug \in Slugs /\ raced' = raced
    <3>1. RequestSound(q) /\ req[q].slug \in Slugs
      BY InFlight
    <3>2. QED
      BY <1>3, <1>6, <3>1
  <2>2. CASE req[q].slug # s
    <3>1. scope'[req[q].slug] = scope[req[q].slug]
      BY <1>2, <2>1, <2>2
    <3>2. QED
      BY <2>1, <3>1, RequestKept
  <2>3. CASE req[q].slug = s
    <3>1. KnowsScope(q)'
      BY <1>2, <2>1, <2>3 DEF RequestSound, KnowsScope
    <3>2. s \notin raced => scope[s] = "unset"
      BY <1>1 DEF ReadsInv, ProjectSound, ResolvedOnce
    <3>3. s \notin raced => req[q].pc \notin Keyed
      BY <2>1, <2>3, <3>2 DEF RequestSound, KnowsScope
    <3>4. Labelled(q)'
      BY <2>1, <2>3, <3>3 DEF RequestSound, Labelled, Truthful, Keyed, Carrying
    <3>5. CarriesOwn(q)'
      BY <2>1 DEF RequestSound, CarriesOwn, MayBeForeign
    <3>6. StaysClean(q)'
      BY <1>2, <2>1, <2>3 DEF RequestSound, StaysClean, FromDatabase
    <3>7. QED
      BY <3>1, <3>4, <3>5, <3>6 DEF RequestSound
  <2>4. QED
    BY <2>2, <2>3
<1>7. \A t \in Slugs : ~ResolvingScope(r, t)'
  BY <1>1, Moved DEF ResolvingScope, Resolving
<1>8. \A q \in Requests, t \in Slugs : ResolvingScope(q, t)' => q # r /\ ResolvingScope(q, t)
  BY <1>3, <1>7 DEF ResolvingScope
<1>9. ASSUME NEW t \in Slugs PROVE ProjectSound(t)'
  <2>1. ProjectSound(t) /\ UNCHANGED <<memo, shelf, raced>>
    BY DEF ReadsInv, outside
  <2>2. CASE t # s
    <3>1. scope'[t] = scope[t]
      BY <1>2, <2>2
    <3>2. QED
      BY <1>8, <2>1, <3>1, ProjectKept
  <2>3. CASE t = s
    <3>1. ResolvedOnce(t)'
      BY <1>8, <2>1, <2>3 DEF ProjectSound, ResolvedOnce
    <3>2. s \notin raced => scope[s] = "unset"
      BY <1>1 DEF ReadsInv, ProjectSound, ResolvedOnce
    <3>3. KeptTruthful(t)'
      BY <2>1, <2>3, <3>2 DEF ProjectSound, KeptTruthful, Truthful
    <3>4. KeptOwn(t)'
      BY <1>2, <2>1, <2>3 DEF ProjectSound, KeptOwn, MayBeForeign
    <3>5. QED
      BY <3>1, <3>3, <3>4 DEF ProjectSound
  <2>4. QED
    BY <2>2, <2>3
<1>10. QED
  BY <1>4, <1>5, <1>6, <1>9 DEF ReadsInv

\* What becomes of the caller of usingDb.
LEMMA ResumeSound ==
  ASSUME ReadsInv, NEW r \in Requests, NEW caller \in {"gate", "resolve"}, NEW yes \in BOOLEAN,
         Resume(r, caller, yes),
         caller = "gate" => req[r].pc \in {"gate", "probe"},
         caller = "resolve" => ResolvingScope(r, req[r].slug),
         usable' \in {"unknown", "yes", "no"}, cool' \in BOOLEAN, Reachable => Reachable',
         ~yes => ~Reachable, UNCHANGED <<outside, memo, raced, dropped>>
  PROVE  ReadsInv'
<1>1. CASE caller = "gate"
  <2>1. PICK phase \in {"list", "key", "rows"} : Goto(r, phase)
    BY <1>1 DEF Resume
  <2>2. scope' = scope /\ phase \in {"gate", "list", "rows", "key", "count"} /\ phase # "count"
    BY <1>1 DEF Resume
  <2>3. req[r].pc \notin Ends \cup {"new", "lost"}
    BY <1>1 DEF Ends
  <2>4. QED
    BY <2>1, <2>2, <2>3, GoesOnSound
<1>2. CASE caller = "resolve" /\ yes
  <2>1. Goto(r, "scope") /\ UNCHANGED <<outside, scope, memo, raced, dropped>>
    BY <1>2 DEF Resume
  <2>2. "scope" \in Phases /\ req[r].back # "gate" /\ req[r].pc \in {"resolve", "scope", "probe"}
    BY <1>2, InFlight DEF Phases, Resolving, ResolvingScope, RequestSound, KnowsScope
  <2>3. RequestSound(r)'
    <3>1. req'[r].pc = "scope" /\ req'[r].back = req[r].back /\ req'[r].clean = req[r].clean
          /\ req'[r].slug = req[r].slug /\ scope' = scope
      BY <2>1, <2>2, Moved
    <3>2. KnowsScope(r)' /\ Labelled(r)' /\ CarriesOwn(r)'
      BY <2>2, <3>1 DEF KnowsScope, Labelled, CarriesOwn, Keyed, Carrying
    <3>3. StaysClean(r)'
      BY <2>2, <3>1, InFlight, ZenonT(60) DEF RequestSound, StaysClean, Keyed, Carrying, Ends
    <3>4. QED
      BY <3>2, <3>3 DEF RequestSound
  <2>4. \A s \in Slugs : ResolvingScope(r, s)' => ResolvingScope(r, s)
    BY <1>2, <2>1, <2>2, Moved DEF ResolvingScope
  <2>5. QED
    <3> DEFINE x == [req[r] EXCEPT !.pc = "scope"]
    <3>1. x \in Flights /\ req' = [req EXCEPT ![r] = x]
      BY <2>1, <2>2, Moved
    <3> HIDE DEF x
    <3>2. QED
      BY <2>1, <2>3, <2>4, <3>1, OneRequest
<1>3. CASE caller = "resolve" /\ ~yes
  <2>1. /\ scope' = [scope EXCEPT ![req[r].slug] = "none"] /\ Goto(r, req[r].back)
        /\ "none" \in Scopes \ {"unset"} /\ dropped' = dropped /\ dropped \in BOOLEAN
    BY <1>3 DEF Resume, Scopes, ReadsInv, Typed
  <2>2. /\ ResolvingScope(r, req[r].slug) /\ ~Reachable /\ dropped' \in BOOLEAN
        /\ UNCHANGED <<outside, memo, raced>> /\ (dropped => dropped')
        /\ "none" # "all"
    BY <1>3, <2>1
  <2>3. QED
    BY <2>1, <2>2, SettledSound
<1>4. QED
  BY <1>1, <1>2, <1>3

LEMMA UseLastProbeSound ==
  ASSUME ReadsInv, NEW r \in Requests, UseLastProbe(r)
  PROVE  ReadsInv'
<1>1. /\ usable' = usable /\ cool' = cool /\ up' = up
      /\ usable \in {"unknown", "yes", "no"} /\ cool \in BOOLEAN
      /\ UNCHANGED <<outside, memo, raced, dropped>>
  BY DEF UseLastProbe, ReadsInv, Typed, outside
<1>2. Reachable => Reachable'
  BY <1>1 DEF Reachable
<1>3. usable # "yes" => ~Reachable
  BY DEF UseLastProbe, Remembered, Reachable
<1>4. /\ req[r].pc \in {"gate", "resolve"} /\ Resume(r, req[r].pc, usable = "yes")
      /\ (usable = "yes") \in BOOLEAN
  BY DEF UseLastProbe
<1>5. req[r].pc = "resolve" => ResolvingScope(r, req[r].slug)
  BY DEF ResolvingScope, Resolving
<1>6. QED
  BY <1>1, <1>2, <1>3, <1>4, <1>5, ResumeSound

LEMMA StartProbeSound ==
  ASSUME ReadsInv, NEW r \in Requests, StartProbe(r)
  PROVE  ReadsInv'
<1> DEFINE x == [req[r] EXCEPT !.pc = "probe",
                               !.back = IF req[r].pc = "gate" THEN "gate" ELSE req[r].back]
<1>1. x \in Flights /\ x.pc = "probe" /\ x.slug = req[r].slug /\ x.clean = req[r].clean
      /\ x.back = (IF req[r].pc = "gate" THEN "gate" ELSE req[r].back)
  BY InFlight DEF Flights, Phases
<1>2. req' = [req EXCEPT ![r] = x] /\ req'[r] = x
  BY DEF StartProbe, ReadsInv, Typed
<1>3. /\ UNCHANGED <<outside, scope, memo, raced, dropped>> /\ scope' = scope
      /\ usable' = usable /\ cool' = cool /\ up' = up
      /\ req[r].pc \in {"gate", "resolve"}
      /\ usable' \in {"unknown", "yes", "no"} /\ cool' \in BOOLEAN
  BY DEF StartProbe, ReadsInv, Typed, outside
<1> HIDE DEF x
<1>4. Reachable => Reachable'
  BY <1>3 DEF Reachable
<1>5. KnowsScope(r)' /\ Labelled(r)' /\ CarriesOwn(r)'
  BY <1>1, <1>2 DEF KnowsScope, Labelled, CarriesOwn, Resolving, Keyed, Carrying
<1>6. StaysClean(r)'
  BY <1>1, <1>2, <1>3, <1>4, InFlight, ZenonT(60) DEF RequestSound, StaysClean, Keyed, Carrying, Ends
<1>7. RequestSound(r)'
  BY <1>5, <1>6 DEF RequestSound
<1>8. \A s \in Slugs : ResolvingScope(r, s)' => ResolvingScope(r, s)
  BY <1>1, <1>2, <1>3 DEF ResolvingScope, Resolving
<1>9. QED
  BY <1>1, <1>2, <1>3, <1>4, <1>7, <1>8, OneRequest

LEMMA ProbedSound ==
  ASSUME ReadsInv, NEW r \in Requests, NEW ok \in BOOLEAN, Probed(r, ok)
  PROVE  ReadsInv'
<1>1. /\ req[r].pc = "probe" /\ ok = up /\ up' = up
      /\ usable' = (IF ok THEN "yes" ELSE "no") /\ cool' = (cool \/ ~ok)
      /\ UNCHANGED <<outside, memo, raced, dropped>>
  BY DEF Probed, Answered, outside
<1>2. /\ usable' \in {"unknown", "yes", "no"} /\ cool' \in BOOLEAN
      /\ (Reachable => Reachable') /\ (~ok => ~Reachable)
  BY <1>1 DEF Reachable, ReadsInv, Typed
<1> DEFINE caller == IF req[r].back = "gate" THEN "gate" ELSE "resolve"
<1>3. /\ caller \in {"gate", "resolve"} /\ Resume(r, caller, ok)
      /\ caller = "resolve" => ResolvingScope(r, req[r].slug)
  BY <1>1 DEF Probed, ResolvingScope
<1> HIDE DEF caller
<1>4. QED
  BY <1>1, <1>2, <1>3, ResumeSound

LEMMA ResolvedSound ==
  ASSUME ReadsInv, NEW r \in Requests, NEW ok \in BOOLEAN, Resolved(r, ok)
  PROVE  ReadsInv'
<1> DEFINE s == req[r].slug
           v == IF ~ok THEN Unanswered(s) ELSE IF s \in InDatabase THEN "own" ELSE "none"
<1>1. /\ v \in Scopes \ {"unset"} /\ (v = "all" => s = Demo /\ ~ok)
      /\ (v = "none" /\ s \in InDatabase => ~ok)
  BY DEF Unanswered, Scopes
<1>2. /\ scope' = [scope EXCEPT ![s] = v] /\ Goto(r, req[r].back)
      /\ dropped' = (dropped \/ ~ok) /\ ok = up /\ req[r].pc = "scope"
      /\ UNCHANGED <<outside, memo, raced>>
      /\ usable' = usable /\ cool' = cool /\ up' = up
  BY DEF Resolved, Answered, outside
<1>3. /\ dropped' \in BOOLEAN /\ (dropped => dropped') /\ (v = "all" => s = Demo /\ dropped')
      /\ (Reachable => Reachable') /\ (v = "none" /\ s \in InDatabase => ~Reachable)
      /\ usable' \in {"unknown", "yes", "no"} /\ cool' \in BOOLEAN
  BY <1>1, <1>2 DEF ReadsInv, Typed, Reachable
<1>4. ResolvingScope(r, s)
  BY <1>2 DEF ResolvingScope, Resolving
<1> HIDE DEF v
<1>5. QED
  BY <1>1, <1>2, <1>3, <1>4, SettledSound

\* Two requests that resolve the scope of one project at once are what `raced` records.
LEMMA StartResolveSound ==
  ASSUME ReadsInv, NEW r \in Requests, StartResolve(r)
  PROVE  ReadsInv'
<1> DEFINE s == req[r].slug
           x == [req[r] EXCEPT !.pc = "resolve", !.back = req[r].pc]
<1>1. /\ s \in Slugs /\ req[r].pc \in {"rows", "key"} /\ scope[s] = "unset"
      /\ UNCHANGED <<outside, memo, usable, cool, scope, dropped, up, shelf>>
      /\ raced' = (IF \E q \in Requests : ResolvingScope(q, s) THEN raced \cup {s} ELSE raced)
  BY InFlight DEF StartResolve, outside
<1>2. x \in Flights /\ x.pc = "resolve" /\ x.slug = s /\ x.clean = req[r].clean
      /\ x.back = req[r].pc
  BY <1>1, InFlight, ZenonT(60) DEF Flights, Phases, Resolving
<1>3. req' = [req EXCEPT ![r] = x] /\ req'[r] = x /\ \A q \in Requests : q # r => req'[q] = req[q]
  BY DEF StartResolve, ReadsInv, Typed
<1> HIDE DEF x
<1>4. raced' \in SUBSET Slugs /\ raced \subseteq raced'
  BY <1>1 DEF ReadsInv, Typed
<1>5. Typed'
  BY <1>1, <1>2, <1>3, <1>4 DEF ReadsInv, Typed, outside
<1>6. Reachable' = Reachable
  BY <1>1 DEF Reachable
<1>7. RequestSound(r)'
  <2>1. KnowsScope(r)' /\ Labelled(r)' /\ CarriesOwn(r)'
    BY <1>1, <1>2, <1>3 DEF KnowsScope, Labelled, CarriesOwn, Resolving, Keyed, Carrying
  <2>2. StaysClean(r)'
    BY <1>1, <1>2, <1>3, <1>6, InFlight, ZenonT(60) DEF RequestSound, StaysClean, Keyed, Carrying, Ends
  <2>3. QED
    BY <2>1, <2>2 DEF RequestSound
<1>8. ASSUME NEW q \in Requests, q # r PROVE RequestSound(q)'
  BY <1>1, <1>3, <1>4, <1>6, <1>8, InFlight, RequestKept
<1>9. \A t \in Slugs \ {s} : ~ResolvingScope(r, t)'
  BY <1>2, <1>3 DEF ResolvingScope
<1>10. \A q \in Requests \ {r}, t \in Slugs : ResolvingScope(q, t)' <=> ResolvingScope(q, t)
  BY <1>3 DEF ResolvingScope
<1>11. ASSUME NEW t \in Slugs PROVE ProjectSound(t)'
  <2>1. ProjectSound(t) /\ scope' = scope
    BY <1>1 DEF ReadsInv
  <2>2. CASE t # s
    <3>1. \A q \in Requests : ResolvingScope(q, t)' => ResolvingScope(q, t)
      BY <1>9, <1>10, <2>2
    <3>2. QED
      BY <1>1, <1>4, <2>1, <3>1, ProjectKept
  <2>3. CASE t = s
    <3>1. ResolvedOnce(t)'
      BY <1>1, <1>10, <2>1, <2>3 DEF ProjectSound, ResolvedOnce
    <3>2. KeptTruthful(t)' /\ KeptOwn(t)'
      BY <1>1, <1>4, <2>1 DEF ProjectSound, KeptTruthful, KeptOwn, Truthful, MayBeForeign
    <3>3. QED
      BY <3>1, <3>2 DEF ProjectSound
  <2>4. QED
    BY <2>2, <2>3
<1>12. QED
  BY <1>5, <1>7, <1>8, <1>11 DEF ReadsInv

-----------------------------------------------------------------------------
(* The gate, and the read-through up to the answer. *)

\* A step that leaves the last probe alone.
LEMMA ProbeKept ==
  ASSUME ReadsInv, UNCHANGED <<outside, usable, cool>>
  PROVE  /\ Reachable' = Reachable /\ up' = up /\ shelf' = shelf
         /\ usable' \in {"unknown", "yes", "no"} /\ cool' \in BOOLEAN
BY DEF ReadsInv, Typed, outside, Reachable

LEMMA StartSound ==
  ASSUME ReadsInv, NEW r \in Requests, NEW s \in Slugs, NEW k \in Kinds, Start(r, s, k)
  PROVE  ReadsInv'
<1> DEFINE x == [NewRequest EXCEPT !.pc = "gate", !.slug = s, !.kind = k,
                                   !.clean = up /\ ~cool /\ scope[s] # "none"]
<1>1. /\ x \in Flights /\ x.pc = "gate" /\ x.slug = s
      /\ x.clean = (up /\ ~cool /\ scope[s] # "none")
  BY ProjectAssumption, ZenonT(60) DEF NewRequest, Flights, Phases, Scopes, Backends, Kinds, Bodies, ReadsInv, Typed
<1>2. /\ req' = [req EXCEPT ![r] = x] /\ req'[r] = x
      /\ UNCHANGED <<outside, scope, memo, raced, dropped, usable, cool>> /\ scope' = scope
  BY DEF Start, ReadsInv, Typed
<1> HIDE DEF x
<1>3. KnowsScope(r)' /\ Labelled(r)' /\ CarriesOwn(r)'
  BY <1>1, <1>2 DEF KnowsScope, Labelled, CarriesOwn, Resolving, Keyed, Carrying
<1>4. StaysClean(r)'
  BY <1>1, <1>2, ProbeKept DEF StaysClean, Reachable, Keyed, Carrying, Ends
<1>5. RequestSound(r)'
  BY <1>3, <1>4 DEF RequestSound
<1>6. \A t \in Slugs : ~ResolvingScope(r, t)'
  BY <1>1, <1>2 DEF ResolvingScope, Resolving
<1>7. (Reachable => Reachable') /\ usable' \in {"unknown", "yes", "no"} /\ cool' \in BOOLEAN
  BY <1>2, ProbeKept
<1>8. QED
  BY <1>1, <1>2, <1>5, <1>6, <1>7, OneRequest

LEMMA ListSound ==
  ASSUME ReadsInv, NEW r \in Requests, NEW ok \in BOOLEAN, List(r, ok)
  PROVE  ReadsInv'
<1>1. /\ UNCHANGED <<outside, scope, memo, raced, dropped, usable, cool>>
      /\ req[r].pc = "list"
  BY DEF List
<1>2. CASE ok /\ req[r].slug \notin InDatabase
  <2>1. Goto(r, "not found") /\ "not found" \in Ends \ {"ok"}
    BY <1>2 DEF List, Ends
  <2>2. QED
    BY <1>1, <1>2, <2>1, RefusedSound
<1>3. CASE ~(ok /\ req[r].slug \notin InDatabase)
  <2>1. PICK phase \in {"key", "rows"} : Goto(r, phase)
    BY <1>3 DEF List
  <2>2. /\ phase \in {"gate", "list", "rows", "key", "count"} /\ phase # "count"
        /\ req[r].pc \notin Ends \cup {"new", "lost"}
    BY <1>1 DEF Ends
  <2>3. QED
    BY <1>1, <2>1, <2>2, ProbeKept, GoesOnSound
<1>4. QED
  BY <1>2, <1>3

LEMMA AskRowsSound ==
  ASSUME ReadsInv, NEW r \in Requests, AskRows(r)
  PROVE  ReadsInv'
<1>1. /\ UNCHANGED <<outside, scope, memo, raced, dropped, usable, cool>>
      /\ req[r].pc = "rows" /\ scope[req[r].slug] # "unset"
      /\ req[r].pc \notin Ends \cup {"new", "lost"}
  BY DEF AskRows, Ends
<1>2. CASE scope[req[r].slug] = "none"
  <2>1. Goto(r, "unavailable") /\ "unavailable" \in Ends \ {"ok"}
    BY <1>2 DEF AskRows, Ends
  <2>2. req[r].slug \in InDatabase => ~req[r].clean
    BY <1>1, <1>2, InFlight DEF RequestSound, StaysClean
  <2>3. QED
    BY <1>1, <2>1, <2>2, RefusedSound
<1>3. CASE scope[req[r].slug] # "none"
  <2>1. Goto(r, "count") /\ "count" \in {"gate", "list", "rows", "key", "count"}
    BY <1>3 DEF AskRows
  <2>2. QED
    BY <1>1, <2>1, ProbeKept, GoesOnSound
<1>4. QED
  BY <1>2, <1>3

LEMMA CountSound ==
  ASSUME ReadsInv, NEW r \in Requests, NEW ok \in BOOLEAN, Count(r, ok)
  PROVE  ReadsInv'
<1>1. /\ UNCHANGED <<outside, scope, memo, raced, dropped, usable, cool>>
      /\ req[r].pc = "count" /\ ok = up
      /\ req[r].pc \notin Ends \cup {"new", "lost"}
  BY DEF Count, Answered, Ends
<1>2. CASE ~ok
  <2>1. Goto(r, "unavailable") /\ "unavailable" \in Ends \ {"ok"}
    BY <1>2 DEF Count, Ends
  <2>2. req[r].slug \in InDatabase => ~req[r].clean
    BY <1>1, <1>2, InFlight DEF RequestSound, StaysClean, Reachable
  <2>3. QED
    BY <1>1, <2>1, <2>2, RefusedSound
<1>3. CASE ok
  <2>1. Goto(r, "key") /\ "key" \in {"gate", "list", "rows", "key", "count"} /\ "key" # "count"
    BY <1>3 DEF Count
  <2>2. QED
    BY <1>1, <2>1, ProbeKept, GoesOnSound
<1>4. QED
  BY <1>2, <1>3

\* A step of a request that has its key, or is just composing it.
LEMMA ReadingSound ==
  ASSUME ReadsInv, NEW r \in Requests, NEW x \in Flights, req' = [req EXCEPT ![r] = x],
         UNCHANGED <<outside, scope, memo, usable, cool, raced, dropped>>,
         x.pc \notin Resolving \cup {"probe"}, RequestSound(r)'
  PROVE  ReadsInv'
<1>1. req'[r] = x
  BY DEF ReadsInv, Typed
<1>2. \A s \in Slugs : ~ResolvingScope(r, s)'
  BY <1>1 DEF ResolvingScope
<1>3. (Reachable => Reachable') /\ usable' \in {"unknown", "yes", "no"} /\ cool' \in BOOLEAN
  BY ProbeKept
<1>4. QED
  BY <1>2, <1>3, OneRequest

LEMMA ComposeKeySound ==
  ASSUME ReadsInv, NEW r \in Requests, ComposeKey(r)
  PROVE  ReadsInv'
<1> DEFINE x == [req[r] EXCEPT !.pc = "get", !.keyed = scope[req[r].slug]]
<1>1. scope[req[r].slug] \in Scopes
  BY InFlight DEF ReadsInv, Typed
<1>2. /\ x \in Flights /\ x.pc = "get" /\ x.slug = req[r].slug /\ x.clean = req[r].clean
      /\ x.keyed = scope[req[r].slug]
  BY <1>1, InFlight DEF Flights, Phases
<1>3. /\ req' = [req EXCEPT ![r] = x] /\ req'[r] = x /\ req[r].pc = "key"
      /\ UNCHANGED <<outside, scope, memo, usable, cool, raced, dropped>> /\ scope' = scope
      /\ scope[req[r].slug] # "unset"
  BY DEF ComposeKey, ReadsInv, Typed
<1> HIDE DEF x
<1>4. KnowsScope(r)' /\ Labelled(r)' /\ CarriesOwn(r)'
  BY <1>2, <1>3 DEF KnowsScope, Labelled, CarriesOwn, Resolving, Keyed, Carrying
<1>5. StaysClean(r)'
  <2>1. Reachable' = Reachable
    BY <1>3, ProbeKept
  <2>2. QED
    BY <2>1, <1>2, <1>3, InFlight, ZenonT(60) DEF RequestSound, StaysClean, Keyed, Carrying, Ends
<1>6. RequestSound(r)' /\ x.pc \notin Resolving \cup {"probe"}
  BY <1>2, <1>4, <1>5 DEF RequestSound, Resolving
<1>7. QED
  BY <1>2, <1>3, <1>6, ReadingSound

LEMMA HitSound ==
  ASSUME ReadsInv, NEW r \in Requests, Hit(r)
  PROVE  ReadsInv'
<1> DEFINE s == req[r].slug
           x == [req[r] EXCEPT !.pc = "head", !.body = Entry(r), !.hit = TRUE]
<1>1. /\ Backend(req[r].keyed) \in Backends /\ req[r].kind \in Kinds /\ s \in Slugs
      /\ Entry(r) \in Bodies /\ ProjectSound(s) /\ Entry(r) # None /\ req[r].pc = "get"
  BY InFlight DEF Hit, Entry, Backend, Backends, ReadsInv, Typed
<1>2. /\ x \in Flights /\ x.pc = "head" /\ x.slug = s /\ x.clean = req[r].clean
      /\ x.keyed = req[r].keyed /\ x.body = Entry(r) /\ x.hit = TRUE
  BY <1>1, InFlight DEF Flights, Phases
<1>3. /\ req' = [req EXCEPT ![r] = x] /\ req'[r] = x
      /\ UNCHANGED <<outside, scope, memo, usable, cool, raced, dropped>>
      /\ scope' = scope /\ raced' = raced /\ dropped' = dropped
  BY DEF Hit, ReadsInv, Typed
<1>4. /\ s \notin raced => Truthful(Entry(r), Backend(req[r].keyed))
      /\ Entry(r).of # s => MayBeForeign(s)
  BY <1>1 DEF ProjectSound, KeptTruthful, KeptOwn, Entry
<1> HIDE DEF x
<1>5. KnowsScope(r)'
  BY <1>1, <1>2, <1>3, InFlight DEF RequestSound, KnowsScope, Resolving, Keyed, Carrying
<1>6. Labelled(r)'
  BY <1>1, <1>2, <1>3, <1>4, InFlight DEF RequestSound, Labelled, Truthful, Keyed, Carrying
<1>7. CarriesOwn(r)'
  BY <1>2, <1>3, <1>4 DEF CarriesOwn, MayBeForeign
<1>8. req[r].keyed # "none" => FromDatabase(r)'
  BY <1>2, <1>3, <1>4 DEF FromDatabase, Truthful, Backend
<1>9. StaysClean(r)'
  <2>1. Reachable' = Reachable
    BY <1>3, ProbeKept
  <2>2. QED
    BY <2>1, <1>1, <1>2, <1>3, <1>8, InFlight, ZenonT(60) DEF RequestSound, StaysClean, Keyed, Carrying, Ends
<1>10. RequestSound(r)' /\ x.pc \notin Resolving \cup {"probe"}
  BY <1>2, <1>5, <1>6, <1>7, <1>9 DEF RequestSound, Resolving
<1>11. QED
  BY <1>2, <1>3, <1>10, ReadingSound

LEMMA MissSound ==
  ASSUME ReadsInv, NEW r \in Requests, Miss(r)
  PROVE  ReadsInv'
<1> DEFINE x == [req[r] EXCEPT !.pc = "load"]
<1>1. /\ x \in Flights /\ x.pc = "load" /\ x.slug = req[r].slug /\ x.clean = req[r].clean
      /\ x.keyed = req[r].keyed
  BY InFlight DEF Flights, Phases
<1>2. /\ req' = [req EXCEPT ![r] = x] /\ req'[r] = x /\ req[r].pc = "get"
      /\ UNCHANGED <<outside, scope, memo, usable, cool, raced, dropped>>
      /\ scope' = scope /\ raced' = raced
  BY DEF Miss, Goto, ReadsInv, Typed
<1> HIDE DEF x
<1>3. KnowsScope(r)' /\ Labelled(r)' /\ CarriesOwn(r)'
  BY <1>1, <1>2, InFlight DEF RequestSound, KnowsScope, Labelled, CarriesOwn, Resolving, Keyed, Carrying
<1>4. StaysClean(r)'
  <2>1. Reachable' = Reachable
    BY <1>2, ProbeKept
  <2>2. QED
    BY <2>1, <1>1, <1>2, InFlight, ZenonT(60) DEF RequestSound, StaysClean, Keyed, Carrying, Ends
<1>5. RequestSound(r)' /\ x.pc \notin Resolving \cup {"probe"}
  BY <1>1, <1>3, <1>4 DEF RequestSound, Resolving
<1>6. QED
  BY <1>1, <1>2, <1>5, ReadingSound

\* A body that has been read, from the backend of the key unless a query failed.
LEMMA ReadSound ==
  ASSUME ReadsInv, NEW r \in Requests, NEW body \in Bodies,
         req[r].pc \in {"load", "query"},
         req' = [req EXCEPT ![r].pc = "put", ![r].body = body],
         UNCHANGED <<outside, scope, memo, usable, cool, raced, dropped>>,
         req[r].slug \notin raced => Truthful(body, Backend(req[r].keyed)),
         body.of # req[r].slug => MayBeForeign(req[r].slug),
         req[r].clean /\ req[r].slug \in InDatabase => body.from = "postgis"
  PROVE  ReadsInv'
<1> DEFINE x == [req[r] EXCEPT !.pc = "put", !.body = body]
<1>1. /\ x \in Flights /\ x.pc = "put" /\ x.slug = req[r].slug /\ x.clean = req[r].clean
      /\ x.keyed = req[r].keyed /\ x.body = body
  BY InFlight DEF Flights, Phases
<1>2. req' = [req EXCEPT ![r] = x] /\ req'[r] = x /\ UNCHANGED <<scope, raced, dropped>>
  BY DEF ReadsInv, Typed
<1> HIDE DEF x
<1>3. KnowsScope(r)'
  BY <1>1, <1>2, InFlight DEF RequestSound, KnowsScope, Resolving, Keyed, Carrying
<1>4. Labelled(r)'
  BY <1>1, <1>2, InFlight DEF RequestSound, Labelled, Truthful, Keyed, Carrying
<1>5. CarriesOwn(r)'
  BY <1>1, <1>2 DEF CarriesOwn, MayBeForeign
<1>6. StaysClean(r)'
  <2>1. Reachable' = Reachable
    BY ProbeKept
  <2>2. body.from = "postgis" => FromDatabase(r)'
    BY <1>1, <1>2 DEF FromDatabase
  <2>3. QED
    BY <1>1, <1>2, <2>1, <2>2, InFlight, ZenonT(60) DEF RequestSound, StaysClean, Keyed, Carrying, Ends
<1>7. RequestSound(r)' /\ x.pc \notin Resolving \cup {"probe"}
  BY <1>1, <1>3, <1>4, <1>5, <1>6 DEF RequestSound, Resolving
<1>8. QED
  BY <1>1, <1>2, <1>7, ReadingSound

\* The snapshot, or an error where there is none: not for a clean request.
LEMMA FromSnapshotSound ==
  ASSUME ReadsInv, NEW r \in Requests, NEW failed \in BOOLEAN, FromSnapshot(r, failed),
         req[r].pc \in {"load", "query"},
         UNCHANGED <<outside, scope, memo, usable, cool, raced, dropped>>,
         req[r].slug \notin raced => failed \/ Backend(req[r].keyed) = "snapshot",
         ~(req[r].clean /\ req[r].slug \in InDatabase)
  PROVE  ReadsInv'
<1>1. CASE req[r].slug \in Exported
  <2> DEFINE body == [from |-> "snapshot", of |-> req[r].slug, failed |-> failed]
  <2>1. /\ body \in Bodies /\ body.of = req[r].slug /\ body.from = "snapshot"
        /\ body.failed = failed
    BY InFlight DEF Bodies, Backends
  <2>2. req' = [req EXCEPT ![r].pc = "put", ![r].body = body]
    BY <1>1 DEF FromSnapshot
  <2> HIDE DEF body
  <2>3. req[r].slug \notin raced => Truthful(body, Backend(req[r].keyed))
    BY <2>1 DEF Truthful
  <2>4. QED
    BY <2>1, <2>2, <2>3, ReadSound
<1>2. CASE req[r].slug \notin Exported
  <2>1. Goto(r, "error") /\ "error" \in Ends \ {"ok"}
    BY <1>2 DEF FromSnapshot, Ends
  <2>2. QED
    BY <2>1, RefusedSound
<1>3. QED
  BY <1>1, <1>2

LEMMA LoadSound ==
  ASSUME ReadsInv, NEW r \in Requests, Load(r)
  PROVE  ReadsInv'
<1> DEFINE sc == scope[req[r].slug]
<1>1. /\ UNCHANGED <<outside, scope, memo, usable, cool, raced, dropped>>
      /\ req[r].pc = "load" /\ sc \in Scopes /\ sc # "unset"
  BY InFlight DEF Load, RequestSound, KnowsScope, Keyed, Carrying, ReadsInv, Typed
<1>2. CASE sc = "none"
  <2>1. FromSnapshot(r, FALSE)
    BY <1>2 DEF Load
  <2>2. req[r].slug \notin raced => Backend(req[r].keyed) = "snapshot"
    BY <1>1, <1>2, InFlight DEF RequestSound, Labelled, Keyed, Backend
  <2>3. ~(req[r].clean /\ req[r].slug \in InDatabase)
    BY <1>1, <1>2, InFlight DEF RequestSound, StaysClean, Ends
  <2>4. QED
    BY <1>1, <2>1, <2>2, <2>3, FromSnapshotSound
<1>3. CASE sc # "none"
  <2> DEFINE x == [req[r] EXCEPT !.pc = "query", !.used = sc]
  <2>1. /\ x \in Flights /\ x.pc = "query" /\ x.slug = req[r].slug /\ x.clean = req[r].clean
        /\ x.keyed = req[r].keyed /\ x.used = sc
    BY <1>1, InFlight DEF Flights, Phases
  <2>2. /\ req' = [req EXCEPT ![r] = x] /\ req'[r] = x
        /\ UNCHANGED <<scope, raced, dropped>>
    BY <1>3 DEF Load, ReadsInv, Typed
  <2> HIDE DEF x
  <2>3. KnowsScope(r)'
    BY <1>1, <1>3, <2>1, <2>2, InFlight DEF RequestSound, KnowsScope, Resolving, Keyed, Carrying, Scopes
  <2>4. Labelled(r)'
    BY <1>1, <2>1, <2>2, InFlight DEF RequestSound, Labelled, Keyed, Carrying
  <2>5. CarriesOwn(r)'
    <3>1. sc = "all" => MayBeForeign(req[r].slug)
      BY InFlight DEF ReadsInv, ProjectSound, KeptOwn
    <3>2. QED
      BY <2>1, <2>2, <3>1 DEF CarriesOwn, Carrying, MayBeForeign
  <2>6. StaysClean(r)'
    <3>1. Reachable' = Reachable
      BY <1>1, ProbeKept
    <3>2. QED
      BY <1>1, <2>1, <2>2, <3>1, InFlight, ZenonT(60) DEF RequestSound, StaysClean, Keyed, Carrying, Ends
  <2>7. RequestSound(r)' /\ x.pc \notin Resolving \cup {"probe"}
    BY <2>1, <2>3, <2>4, <2>5, <2>6 DEF RequestSound, Resolving
  <2>8. QED
    BY <1>1, <2>1, <2>2, <2>7, ReadingSound
<1>4. QED
  BY <1>2, <1>3

LEMMA QueryAnswersSound ==
  ASSUME ReadsInv, NEW r \in Requests, QueryAnswers(r)
  PROVE  ReadsInv'
<1> DEFINE body == [from |-> "postgis", failed |-> FALSE,
                    of |-> IF req[r].used = "own" THEN req[r].slug ELSE "all"]
<1>1. /\ UNCHANGED <<outside, scope, memo, usable, cool, raced, dropped>> /\ req[r].pc = "query"
      /\ req' = [req EXCEPT ![r].pc = "put", ![r].body = body]
  BY DEF QueryAnswers
<1>2. /\ body \in Bodies /\ body.from = "postgis"
      /\ body.of = (IF req[r].used = "own" THEN req[r].slug ELSE "all")
  BY InFlight DEF Bodies, Backends
<1> HIDE DEF body
<1>3. req[r].used \in {"own", "all"} /\ RequestSound(r)
  BY <1>1, InFlight DEF RequestSound, KnowsScope
<1>4. req[r].slug \notin raced => Truthful(body, Backend(req[r].keyed))
  BY <1>1, <1>2, <1>3 DEF RequestSound, Labelled, Truthful, Backend, Keyed
<1>5. body.of # req[r].slug => MayBeForeign(req[r].slug)
  BY <1>1, <1>2, <1>3 DEF RequestSound, CarriesOwn
<1>6. QED
  BY <1>1, <1>2, <1>4, <1>5, ReadSound

LEMMA QueryFailsSound ==
  ASSUME ReadsInv, NEW r \in Requests, QueryFails(r)
  PROVE  ReadsInv'
<1>1. /\ UNCHANGED <<outside, scope, memo, usable, cool, raced, dropped>>
      /\ req[r].pc = "query" /\ ~up
  BY DEF QueryFails
<1>2. ~req[r].clean
  BY <1>1, InFlight DEF RequestSound, StaysClean, Reachable, Ends
<1>3. CASE req[r].kind = "document"
  <2>1. FromSnapshot(r, TRUE)
    BY <1>3 DEF QueryFails
  <2>2. QED
    BY <1>1, <1>2, <2>1, FromSnapshotSound
<1>4. CASE req[r].kind # "document"
  <2>1. Goto(r, "error") /\ "error" \in Ends \ {"ok"}
    BY <1>4 DEF QueryFails, Ends
  <2>2. QED
    BY <1>1, <1>2, <2>1, RefusedSound
<1>5. QED
  BY <1>3, <1>4

LEMMA BaseHeadersSound ==
  ASSUME ReadsInv, NEW r \in Requests, BaseHeaders(r)
  PROVE  ReadsInv'
<1> DEFINE s == req[r].slug
           headed == [req[r] EXCEPT !.header = Backend(scope[s])]
           x == IF headed.kind = "point" THEN [headed EXCEPT !.pc = "ok"]
                ELSE IF memo[s] = None THEN [headed EXCEPT !.pc = "pack"]
                ELSE [headed EXCEPT !.pc = "ok", !.body = memo[s], !.hit = TRUE]
<1>1. /\ UNCHANGED <<outside, scope, memo, usable, cool, raced, dropped>> /\ req[r].pc = "head"
      /\ UNCHANGED <<scope, raced, dropped>>
      /\ req' = [req EXCEPT ![r] = x] /\ s \in Slugs /\ ProjectSound(s) /\ RequestSound(r)
  BY InFlight DEF BaseHeaders, ReadsInv
<1>2. Backend(scope[s]) \in Backends /\ (memo[s] # None => memo[s] \in Bodies)
  BY <1>1 DEF Backend, Backends, ReadsInv, Typed
<1>3. /\ headed \in Flights /\ headed.kind = req[r].kind /\ headed.slug = s
      /\ headed.header = Backend(scope[s]) /\ headed.keyed = req[r].keyed
      /\ headed.body = req[r].body /\ headed.clean = req[r].clean /\ headed.hit = req[r].hit
  BY <1>2, InFlight DEF Flights
<1> HIDE DEF headed
<1>4. /\ x \in Flights /\ x.slug = s /\ x.header = Backend(scope[s])
      /\ x.keyed = req[r].keyed /\ x.clean = req[r].clean
      /\ \/ x.pc \in {"ok", "pack"} /\ x.body = req[r].body /\ x.hit = req[r].hit
         \/ x.pc = "ok" /\ memo[s] # None /\ x.body = memo[s] /\ x.hit = TRUE
  BY <1>2, <1>3 DEF Flights, Phases, Ends
<1>5. req'[r] = x
  BY <1>1 DEF ReadsInv, Typed
<1> HIDE DEF x
<1>6. KnowsScope(r)'
  BY <1>1, <1>4, <1>5 DEF RequestSound, KnowsScope, Resolving, Keyed, Carrying
<1>7. s \notin raced => Truthful(x.body, x.header)
  BY <1>1, <1>4 DEF RequestSound, Labelled, ProjectSound, KeptTruthful, Keyed, Carrying
<1>8. Labelled(r)'
  BY <1>1, <1>4, <1>5, <1>7 DEF RequestSound, Labelled, Truthful, Keyed, Carrying
<1>9. CarriesOwn(r)'
  BY <1>1, <1>4, <1>5 DEF RequestSound, CarriesOwn, ProjectSound, KeptOwn, MayBeForeign, Carrying
<1>10. StaysClean(r)'
  <2>1. Reachable' = Reachable
    BY <1>1, ProbeKept
  <2>2. CASE x.body = req[r].body /\ x.hit = req[r].hit /\ x.pc \in {"ok", "pack"}
    <3>1. FromDatabase(r) => FromDatabase(r)'
      BY <1>1, <1>4, <1>5, <2>2 DEF FromDatabase
    <3>2. QED
      BY <1>1, <1>4, <1>5, <2>1, <2>2, <3>1 DEF RequestSound, StaysClean, Keyed, Carrying, Ends
  <2>3. CASE memo[s] # None /\ x.body = memo[s] /\ x.hit = TRUE /\ x.pc = "ok"
    <3>1. scope[s] # "none" => FromDatabase(r)'
      BY <1>1, <1>4, <1>5, <1>7, <2>3 DEF FromDatabase, Truthful, Backend
    <3>2. QED
      BY <1>1, <1>4, <1>5, <2>1, <2>3, <3>1 DEF RequestSound, StaysClean, Keyed, Carrying, Ends
  <2>4. QED
    BY <1>4, <2>2, <2>3
<1>11. RequestSound(r)' /\ x.pc \notin Resolving \cup {"probe"}
  BY <1>4, <1>6, <1>8, <1>9, <1>10 DEF RequestSound, Resolving
<1>12. QED
  BY <1>1, <1>4, <1>11, ReadingSound

\* What is put was read for the key it is put under.
LEMMA PutSound ==
  ASSUME ReadsInv, NEW r \in Requests, Put(r)
  PROVE  ReadsInv'
<1> DEFINE p == req[r].slug
           b0 == Backend(req[r].keyed)
           body == req[r].body
           x == [req[r] EXCEPT !.pc = "head"]
<1>1. /\ p \in Slugs /\ b0 \in Backends /\ req[r].kind \in Kinds /\ body \in Bodies
      /\ req[r].pc = "put" /\ RequestSound(r)
      /\ up' = up /\ usable' = usable /\ cool' = cool /\ redis' = redis /\ outages' = outages
      /\ scope' = scope /\ memo' = memo /\ raced' = raced /\ dropped' = dropped
  BY InFlight DEF Put, Backend, Backends
<1>2. /\ x \in Flights /\ x.pc = "head" /\ x.slug = p /\ x.clean = req[r].clean
      /\ x.keyed = req[r].keyed /\ x.body = body /\ x.hit = req[r].hit
  BY InFlight DEF Flights, Phases
<1>3. /\ req' = [req EXCEPT ![r] = x] /\ req'[r] = x
      /\ \A q \in Requests : q # r => req'[q] = req[q]
  BY DEF Put, Goto, ReadsInv, Typed
<1> HIDE DEF x
<1>4. shelf' \in [Slugs -> [Backends -> [Kinds -> Bodies \cup {None}]]]
  BY <1>1 DEF Put, ReadsInv, Typed
<1>5. \A s \in Slugs, b \in Backends, k \in Kinds :
        \/ shelf'[s][b][k] = shelf[s][b][k]
        \/ s = p /\ b = b0 /\ shelf'[s][b][k] = body
  BY <1>1 DEF Put, ReadsInv, Typed
<1>6. Typed'
  BY <1>1, <1>2, <1>3, <1>4 DEF ReadsInv, Typed
<1>7. Reachable' = Reachable
  BY <1>1 DEF Reachable
<1>8. RequestSound(r)'
  <2>1. KnowsScope(r)' /\ Labelled(r)' /\ CarriesOwn(r)'
    BY <1>1, <1>2, <1>3
       DEF RequestSound, KnowsScope, Labelled, CarriesOwn, Truthful, MayBeForeign, Resolving, Keyed, Carrying
  <2>2. StaysClean(r)'
    <3>1. FromDatabase(r)' = FromDatabase(r)
      BY <1>1, <1>2, <1>3 DEF FromDatabase
    <3>2. QED
      BY <1>1, <1>2, <1>3, <1>7, <3>1 DEF RequestSound, StaysClean, Keyed, Carrying, Ends
  <2>3. QED
    BY <2>1, <2>2 DEF RequestSound
<1>9. ASSUME NEW q \in Requests, q # r PROVE RequestSound(q)'
  BY <1>1, <1>3, <1>7, <1>9, InFlight, RequestKept
<1>10. ASSUME NEW s \in Slugs PROVE ProjectSound(s)'
  <2>1. \A q \in Requests : ResolvingScope(q, s)' => ResolvingScope(q, s)
    BY <1>2, <1>3 DEF ResolvingScope, Resolving
  <2>2. ProjectSound(s)
    BY DEF ReadsInv
  <2>3. ResolvedOnce(s)'
    BY <1>1, <2>1, <2>2 DEF ProjectSound, ResolvedOnce
  <2>4. p \notin raced => Truthful(body, b0)
    BY <1>1 DEF RequestSound, Labelled, Carrying
  <2>5. KeptTruthful(s)'
    BY <1>1, <1>5, <2>2, <2>4 DEF ProjectSound, KeptTruthful, Truthful
  <2>6. body.of # p => MayBeForeign(p)
    BY <1>1 DEF RequestSound, CarriesOwn, Carrying
  <2>7. KeptOwn(s)'
    BY <1>1, <1>5, <2>2, <2>6 DEF ProjectSound, KeptOwn, MayBeForeign
  <2>8. QED
    BY <2>3, <2>5, <2>7 DEF ProjectSound
<1>11. QED
  BY <1>6, <1>8, <1>9, <1>10 DEF ReadsInv

LEMMA PackSound ==
  ASSUME ReadsInv, NEW r \in Requests, Pack(r)
  PROVE  ReadsInv'
<1> DEFINE p == req[r].slug
           body == req[r].body
           x == [req[r] EXCEPT !.pc = "ok"]
<1>1. /\ p \in Slugs /\ body \in Bodies /\ req[r].pc = "pack" /\ RequestSound(r)
      /\ UNCHANGED outside /\ usable' = usable /\ cool' = cool /\ shelf' = shelf /\ up' = up
      /\ scope' = scope /\ raced' = raced /\ dropped' = dropped
  BY InFlight DEF Pack, outside
<1>2. /\ x \in Flights /\ x.pc = "ok" /\ x.slug = p /\ x.clean = req[r].clean
      /\ x.header = req[r].header /\ x.body = body /\ x.hit = req[r].hit
  BY InFlight DEF Flights, Phases, Ends
<1>3. /\ req' = [req EXCEPT ![r] = x] /\ req'[r] = x
      /\ \A q \in Requests : q # r => req'[q] = req[q]
  BY DEF Pack, Goto, ReadsInv, Typed
<1> HIDE DEF x
<1>4. /\ memo' = [memo EXCEPT ![p] = body] /\ memo'[p] = body
      /\ memo' \in [Slugs -> Bodies \cup {None}]
      /\ \A s \in Slugs : s # p => memo'[s] = memo[s]
  BY <1>1 DEF Pack, ReadsInv, Typed
<1>5. Typed'
  BY <1>1, <1>2, <1>3, <1>4 DEF ReadsInv, Typed, outside
<1>6. Reachable' = Reachable
  BY <1>1 DEF Reachable
<1>7. RequestSound(r)'
  <2>1. KnowsScope(r)' /\ Labelled(r)' /\ CarriesOwn(r)'
    BY <1>1, <1>2, <1>3
       DEF RequestSound, KnowsScope, Labelled, CarriesOwn, Truthful, MayBeForeign, Resolving, Keyed, Carrying
  <2>2. StaysClean(r)'
    <3>1. FromDatabase(r)' = FromDatabase(r)
      BY <1>1, <1>2, <1>3 DEF FromDatabase
    <3>2. QED
      BY <1>1, <1>2, <1>3, <1>6, <3>1 DEF RequestSound, StaysClean, Keyed, Carrying, Ends
  <2>3. QED
    BY <2>1, <2>2 DEF RequestSound
<1>8. ASSUME NEW q \in Requests, q # r PROVE RequestSound(q)'
  BY <1>1, <1>3, <1>6, <1>8, InFlight, RequestKept
<1>9. ASSUME NEW s \in Slugs PROVE ProjectSound(s)'
  <2>1. \A q \in Requests : ResolvingScope(q, s)' => ResolvingScope(q, s)
    BY <1>2, <1>3 DEF ResolvingScope, Resolving
  <2>2. ProjectSound(s)
    BY DEF ReadsInv
  <2>3. ResolvedOnce(s)'
    BY <1>1, <2>1, <2>2 DEF ProjectSound, ResolvedOnce
  <2>4. p \notin raced => scope[p] # "unset" /\ Truthful(body, Backend(scope[p]))
    BY <1>1 DEF RequestSound, KnowsScope, Labelled, Keyed, Carrying
  <2>5. KeptTruthful(s)'
    BY <1>1, <1>4, <2>2, <2>4 DEF ProjectSound, KeptTruthful, Truthful
  <2>6. body.of # p => MayBeForeign(p)
    BY <1>1 DEF RequestSound, CarriesOwn, Carrying
  <2>7. KeptOwn(s)'
    BY <1>1, <1>4, <2>2, <2>6 DEF ProjectSound, KeptOwn, MayBeForeign
  <2>8. QED
    BY <2>3, <2>5, <2>7 DEF ProjectSound
<1>10. QED
  BY <1>5, <1>7, <1>8, <1>9 DEF ReadsInv

-----------------------------------------------------------------------------
(* What happens to the server. *)

\* Nobody's request, and at most something kept is gone.
LEMMA OutsideSound ==
  ASSUME ReadsInv, Typed', UNCHANGED <<scope, req, raced, dropped>>, Reachable => Reachable',
         \A s \in Slugs : memo'[s] \in {memo[s], None},
         \A s \in Slugs, b \in Backends, k \in Kinds : shelf'[s][b][k] \in {shelf[s][b][k], None}
  PROVE  ReadsInv'
<1>1. \A q \in Requests : RequestSound(q)'
  BY InFlight, RequestKept
<1>2. \A q \in Requests, s \in Slugs : ResolvingScope(q, s)' = ResolvingScope(q, s)
  BY DEF ResolvingScope
<1>3. \A s \in Slugs : ProjectSound(s)'
  BY <1>2, ProjectKept DEF ReadsInv
<1>4. QED
  BY <1>1, <1>3 DEF ReadsInv

\* An outage ends the cleanness of every request.
LEMMA DatabaseDownSound ==
  ASSUME ReadsInv, DatabaseDown
  PROVE  ReadsInv'
<1>1. /\ UNCHANGED <<usable, cool, scope, memo, redis, shelf, raced, dropped>>
      /\ up' = FALSE /\ outages' = outages + 1 /\ outages < MaxOutages
  BY DEF DatabaseDown
<1>2. ASSUME NEW q \in Requests
      PROVE  /\ req'[q] \in Flights /\ req'[q].clean = FALSE
             /\ req'[q].pc = req[q].pc /\ req'[q].slug = req[q].slug
             /\ req'[q].back = req[q].back /\ req'[q].keyed = req[q].keyed
             /\ req'[q].used = req[q].used /\ req'[q].header = req[q].header
             /\ req'[q].body = req[q].body
  <2>1. req'[q] = [req[q] EXCEPT !.clean = FALSE]
    BY DEF DatabaseDown
  <2>2. QED
    BY <2>1, InFlight DEF Flights
<1>3. Typed'
  <2>1. req' \in [Requests -> Flights]
    BY <1>2 DEF DatabaseDown
  <2>2. outages' \in 0..MaxOutages
    BY <1>1, OutageAssumption DEF ReadsInv, Typed
  <2>3. QED
    BY <1>1, <2>1, <2>2 DEF ReadsInv, Typed
<1>4. ASSUME NEW q \in Requests PROVE RequestSound(q)'
  <2>1. KnowsScope(q)'
    BY <1>1, <1>2, InFlight DEF RequestSound, KnowsScope
  <2>2. Labelled(q)'
    <3>1. Labelled(q) /\ scope' = scope /\ raced' = raced
      BY <1>1, InFlight DEF RequestSound
    <3>2. Backend(req'[q].keyed) = Backend(req[q].keyed) /\ Backend(req[q].keyed)' = Backend(req[q].keyed)
      BY <1>2 DEF Backend
    <3>3. QED
      BY <1>2, <3>1, <3>2 DEF Labelled, Truthful
  <2>3. CarriesOwn(q)'
    BY <1>1, <1>2, InFlight DEF RequestSound, CarriesOwn, MayBeForeign
  <2>4. StaysClean(q)'
    BY <1>2 DEF StaysClean
  <2>5. QED
    BY <2>1, <2>2, <2>3, <2>4 DEF RequestSound
<1>5. \A q \in Requests, s \in Slugs : ResolvingScope(q, s)' = ResolvingScope(q, s)
  BY <1>2 DEF ResolvingScope
<1>6. \A s \in Slugs : ProjectSound(s)'
  BY <1>1, <1>5, ProjectKept DEF ReadsInv
<1>7. QED
  BY <1>3, <1>4, <1>6 DEF ReadsInv

LEMMA EnvironmentSound ==
  ASSUME ReadsInv, DatabaseUp \/ PoolError \/ Cooled \/ RedisFlips
  PROVE  ReadsInv'
<1>1. UNCHANGED <<scope, memo, shelf, req, outages, raced, dropped>>
  BY DEF DatabaseUp, PoolError, Cooled, RedisFlips, outside
<1>2. Typed'
  BY DEF DatabaseUp, PoolError, Cooled, RedisFlips, outside, ReadsInv, Typed
<1>3. Reachable => Reachable'
  BY DEF DatabaseUp, PoolError, Cooled, RedisFlips, outside, Reachable
<1>4. QED
  BY <1>1, <1>2, <1>3, OutsideSound

LEMMA ExpireSound ==
  ASSUME ReadsInv, Expire
  PROVE  ReadsInv'
<1>1. PICK p \in Slugs, b0 \in Backends, k0 \in Kinds : shelf' = [shelf EXCEPT ![p][b0][k0] = None]
  BY DEF Expire
<1>2. /\ shelf' \in [Slugs -> [Backends -> [Kinds -> Bodies \cup {None}]]]
      /\ \A s \in Slugs, b \in Backends, k \in Kinds : shelf'[s][b][k] \in {shelf[s][b][k], None}
  BY <1>1 DEF ReadsInv, Typed
<1>3. Typed'
  BY <1>2 DEF Expire, ReadsInv, Typed
<1>4. Reachable => Reachable'
  BY DEF Expire, Reachable
<1>5. UNCHANGED <<scope, req, raced, dropped>> /\ \A s \in Slugs : memo'[s] \in {memo[s], None}
  BY DEF Expire
<1>6. QED
  BY <1>2, <1>3, <1>4, <1>5, OutsideSound

LEMMA ForgetSound ==
  ASSUME ReadsInv, Forget
  PROVE  ReadsInv'
<1>1. PICK p \in Slugs : memo' = [memo EXCEPT ![p] = None]
  BY DEF Forget
<1>2. /\ memo' \in [Slugs -> Bodies \cup {None}]
      /\ \A s \in Slugs : memo'[s] \in {memo[s], None}
  BY <1>1 DEF ReadsInv, Typed
<1>3. Typed' /\ (Reachable => Reachable') /\ shelf' = shelf
  BY <1>2 DEF Forget, outside, ReadsInv, Typed, Reachable
<1>4. UNCHANGED <<scope, req, raced, dropped>>
  BY DEF Forget
<1>5. QED
  BY <1>2, <1>3, <1>4, OutsideSound

\* A restart forgets the scopes and the memo, and every request that had asked for either.
LEMMA NewProcessSound ==
  ASSUME ReadsInv, NewProcess
  PROVE  ReadsInv'
<1> DEFINE Gone == [NewRequest EXCEPT !.pc = "lost"]
<1>1. Gone \in Flights /\ Gone.pc = "lost" /\ Gone.clean = FALSE
  BY ProjectAssumption DEF NewRequest, Flights, Phases, Scopes, Backends, Kinds, Bodies
<1>2. /\ scope' = [s \in Slugs |-> "unset"] /\ memo' = [s \in Slugs |-> None]
      /\ usable' = "unknown" /\ cool' = FALSE
      /\ UNCHANGED <<up, redis, shelf, outages, raced, dropped>>
  BY DEF NewProcess, outside
<1>3. ASSUME NEW q \in Requests
      PROVE  \/ req'[q] = req[q] /\ req[q].pc \in Ends \cup {"new", "lost"}
             \/ req'[q] = Gone
  BY DEF NewProcess
<1> HIDE DEF Gone
<1>4. Typed'
  <2>1. req' \in [Requests -> Flights]
    BY <1>1, <1>3, InFlight DEF NewProcess
  <2>2. QED
    BY <1>2, <2>1 DEF ReadsInv, Typed, Scopes
<1>5. ASSUME NEW q \in Requests PROVE RequestSound(q)'
  <2>1. /\ req'[q].pc \in Ends \cup {"new", "lost"}
        /\ req'[q].pc \notin Resolving \cup Keyed \cup {"count", "query", "probe"}
    BY <1>1, <1>3 DEF Ends, Resolving, Keyed, Carrying
  <2>2. KnowsScope(q)'
    BY <2>1 DEF KnowsScope
  <2>3. Labelled(q)' /\ CarriesOwn(q)' /\ StaysClean(q)'
    <3>1. CASE req'[q] = req[q]
      BY <1>2, <2>1, <3>1, InFlight
         DEF RequestSound, Labelled, CarriesOwn, StaysClean, FromDatabase, Truthful, MayBeForeign, Keyed, Ends
    <3>2. CASE req'[q] = Gone
      BY <1>1, <3>2 DEF Labelled, CarriesOwn, StaysClean, Keyed, Carrying, Ends
    <3>3. QED
      BY <1>3, <3>1, <3>2
  <2>4. QED
    BY <2>2, <2>3 DEF RequestSound
<1>6. \A q \in Requests, s \in Slugs : ~ResolvingScope(q, s)'
  BY <1>1, <1>3 DEF ResolvingScope, Resolving, Ends
<1>7. ASSUME NEW s \in Slugs PROVE ProjectSound(s)'
  <2>1. ProjectSound(s) /\ scope'[s] = "unset" /\ memo'[s] = None
    BY <1>2 DEF ReadsInv
  <2>2. ResolvedOnce(s)'
    BY <1>6 DEF ResolvedOnce
  <2>3. KeptTruthful(s)' /\ KeptOwn(s)'
    BY <1>2, <2>1 DEF ProjectSound, KeptTruthful, KeptOwn, Truthful, MayBeForeign
  <2>4. QED
    BY <2>2, <2>3 DEF ProjectSound
<1>8. QED
  BY <1>4, <1>5, <1>7 DEF ReadsInv

-----------------------------------------------------------------------------
LEMMA ReadStepSound ==
  ASSUME ReadsInv, NEW r \in Requests, Step(r)
  PROVE  ReadsInv'
<1>1. CASE \E s \in Slugs, k \in Kinds : Start(r, s, k)
  BY <1>1, StartSound
<1>2. CASE \E ok \in BOOLEAN : Probed(r, ok) \/ List(r, ok) \/ Count(r, ok) \/ Resolved(r, ok)
  BY <1>2, ProbedSound, ListSound, CountSound, ResolvedSound
<1>3. CASE UseLastProbe(r) \/ StartProbe(r) \/ AskRows(r) \/ StartResolve(r)
  BY <1>3, UseLastProbeSound, StartProbeSound, AskRowsSound, StartResolveSound
<1>4. CASE ComposeKey(r) \/ Hit(r) \/ Miss(r) \/ Load(r) \/ QueryAnswers(r) \/ QueryFails(r)
  BY <1>4, ComposeKeySound, HitSound, MissSound, LoadSound, QueryAnswersSound, QueryFailsSound
<1>5. CASE Put(r) \/ BaseHeaders(r) \/ Pack(r)
  BY <1>5, PutSound, BaseHeadersSound, PackSound
<1>6. QED
  BY <1>1, <1>2, <1>3, <1>4, <1>5 DEF Step

LEMMA NextReadSound ==
  ASSUME ReadsInv, [Next]_vars
  PROVE  ReadsInv'
<1>1. CASE \E r \in Requests : Step(r)
  BY <1>1, ReadStepSound
<1>2. CASE DatabaseUp \/ PoolError \/ Cooled \/ RedisFlips
  BY <1>2, EnvironmentSound
<1>3. CASE DatabaseDown \/ Expire \/ Forget \/ NewProcess
  BY <1>3, DatabaseDownSound, ExpireSound, ForgetSound, NewProcessSound
<1>4. CASE UNCHANGED vars
  <2>1. UNCHANGED <<up, usable, cool, scope, memo, redis, shelf, req, outages, raced, dropped>>
    BY <1>4 DEF vars
  <2>2. Typed' /\ (Reachable => Reachable')
    BY <2>1 DEF ReadsInv, Typed, Reachable
  <2>3. /\ \A s \in Slugs : memo'[s] \in {memo[s], None}
        /\ \A s \in Slugs, b \in Backends, k \in Kinds : shelf'[s][b][k] \in {shelf[s][b][k], None}
    BY <2>1
  <2>4. UNCHANGED <<scope, req, raced, dropped>>
    BY <2>1
  <2>5. QED
    BY <2>2, <2>3, <2>4, OutsideSound
<1>5. QED
  BY <1>1, <1>2, <1>3, <1>4 DEF Next

LEMMA ReadsAreSound == Spec => []ReadsInv
<1>1. Init => ReadsInv
  BY InitSound
<1>2. ReadsInv /\ [Next]_vars => ReadsInv'
  BY NextReadSound
<1>3. QED
  BY <1>1, <1>2, PTL DEF Spec

\* However many requests read however many projects, in whatever order probes, queries,
\* saves in Redis, outages and restarts come: a kept or served body is from the other
\* backend than its key or header says only if a query failed or the scope of its project
\* was being resolved twice at once (scopeFor, viaDb, lib/cache).
THEOREM LabelsAreTrue == Spec => []MislabelledOnlyByFailure
<1>1. ReadsInv => MislabelledOnlyByFailure
  BY DEF ReadsInv, RequestSound, Labelled, ProjectSound, KeptTruthful, Truthful, MislabelledOnlyByFailure
<1>2. QED
  BY <1>1, ReadsAreSound, PTL

\* Rows of another project reach no answer, no memo and no shelf of Redis but the demo
\* project's, and those only after a scope query has failed (resolveScope).
THEOREM OthersRowsOnlyInDemo == Spec => []ForeignRowsOnlyInDemo
<1>1. ReadsInv => ForeignRowsOnlyInDemo
  BY DEF ReadsInv, RequestSound, CarriesOwn, ProjectSound, KeptOwn, MayBeForeign, ForeignRowsOnlyInDemo
<1>2. QED
  BY <1>1, ReadsAreSound, PTL

\* A request that begins with the database up, the cooldown over and its project not given
\* up is answered from the database, unless there is an outage while it runs or a cache kept
\* what was read at one, or of a scope resolved twice (usingDb).
THEOREM CleanIsAnswered == Spec => []CleanRequestsReachDatabase
<1>1. ReadsInv => CleanRequestsReachDatabase
  BY DEF ReadsInv, RequestSound, StaysClean, FromDatabase, CleanRequestsReachDatabase
<1>2. QED
  BY <1>1, ReadsAreSound, PTL

-----------------------------------------------------------------------------
(* Topology: the comparison of distances *)

CONSTANTS LonM, LatM
Clash == INSTANCE Topology

LEMMA SquaresInOrder ==
  ASSUME NEW x \in Nat, NEW y \in Nat
  PROVE  x < y <=> x * x < y * y
<1>1. CASE x < y
  <2>1. x * x <= x * y
    BY <1>1
  <2>2. x * y < y * y
    BY <1>1
  <2>3. QED
    BY <1>1, <2>1, <2>2
<1>2. CASE y <= x
  <2>1. y * y <= x * y
    BY <1>2
  <2>2. x * y <= x * x
    BY <1>2
  <2>3. QED
    BY <1>2, <2>1, <2>2
<1>3. QED
  BY <1>1, <1>2

\* With roots: of lengths in the unit of the denominator, a distance g to the middle line of
\* a run of radius r.
LEMMA CloserInUnits ==
  ASSUME NEW g \in Nat, NEW r \in Nat, NEW v \in Nat, NEW c \in Nat, r < g,
         NEW lhs \in Int, lhs = g * g + r * r + v * v - c * c
  PROVE  (lhs < 0 \/ lhs * lhs < 4 * (r * r) * (g * g)) <=> (g - r) * (g - r) + v * v < c * c
<1> DEFINE two == 2 * (r * g)
<1>1. two \in Nat /\ two * two = 4 * (r * r) * (g * g)
  OBVIOUS
<1>2. (g - r) * (g - r) = g * g + r * r - two
  OBVIOUS
<1>3. (g - r) * (g - r) + v * v < c * c <=> lhs < two
  BY <1>1, <1>2
<1> HIDE DEF two
<1>4. CASE lhs < 0
  BY <1>1, <1>3, <1>4
<1>5. CASE lhs >= 0
  <2>1. lhs < two <=> lhs * lhs < two * two
    BY <1>1, <1>5, SquaresInOrder
  <2>2. QED
    BY <1>1, <1>3, <1>5, <2>1
<1>6. QED
  BY <1>4, <1>5

\* A run is found too close exactly when the root of h^2 + v^2 is less than its clearance, h
\* being what is left of the gap in plan after the radius and v the gap in height:
\* detectClashes of lib/topology.ts takes the root, and the squares that stand for it in
\* Topology decide the same for every gap of n / m metres.
THEOREM CloserIsDistance ==
  ASSUME NEW n \in Nat, NEW m \in Nat \ {0}, NEW r \in Nat, NEW v \in Nat, NEW c \in Nat
  PROVE  LET h == IF r * m < n THEN n - r * m ELSE 0
         IN Clash!Closer(<<n * n, m * m>>, r, v, c) <=> h * h + (v * m) * (v * m) < (c * m) * (c * m)
<1> DEFINE k == r * r + v * v - c * c
           lhs == n * n + k * (m * m)
           closer == IF n * n <= (r * r) * (m * m) THEN v < c
                     ELSE lhs < 0 \/ lhs * lhs < 4 * (r * r) * (n * n) * (m * m)
           R == r * m
           V == v * m
           C == c * m
<1>1. Clash!Closer(<<n * n, m * m>>, r, v, c) <=> closer
  BY DEF Clash!Closer, Clash!Square
<1>2. R \in Nat /\ V \in Nat /\ C \in Nat /\ R * R = (r * r) * (m * m)
  OBVIOUS
<1>3. V < C <=> v < c
  <2>1. v < c => V < C
    OBVIOUS
  <2>2. c <= v => C <= V
    OBVIOUS
  <2>3. QED
    BY <1>2, <2>1, <2>2
<1>4. lhs \in Int /\ lhs = n * n + R * R + V * V - C * C
  OBVIOUS
<1>5. 4 * (r * r) * (n * n) * (m * m) = 4 * (R * R) * (n * n)
  OBVIOUS
<1> HIDE DEF R, V, C, lhs
<1>6. CASE R < n
  <2>1. R * R < n * n
    BY <1>2, <1>6, SquaresInOrder
  <2>2. closer <=> lhs < 0 \/ lhs * lhs < 4 * (R * R) * (n * n)
    BY <1>2, <1>5, <2>1
  <2>3. (lhs < 0 \/ lhs * lhs < 4 * (R * R) * (n * n)) <=> (n - R) * (n - R) + V * V < C * C
    BY <1>2, <1>4, <1>6, CloserInUnits
  <2>4. QED
    BY <1>1, <1>6, <2>2, <2>3 DEF R, V, C
<1>7. CASE n <= R
  <2>1. n * n <= R * R
    BY <1>2, <1>7, SquaresInOrder
  <2>2. closer <=> v < c
    BY <1>2, <2>1
  <2>3. V * V < C * C <=> v < c
    BY <1>2, <1>3, SquaresInOrder
  <2>4. QED
    BY <1>1, <1>2, <1>7, <2>2, <2>3 DEF R, V, C
<1>8. QED
  BY <1>2, <1>6, <1>7
=============================================================================
