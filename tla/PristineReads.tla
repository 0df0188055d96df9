--------------------------- MODULE PristineReads ---------------------------
(***************************************************************************)
(* How a request finds out which backend answers for its project, and      *)
(* reads a pristine document through the shared cache: usingDb, scopeFor   *)
(* and viaDb (lib/db.ts), resolveProject (lib/projects.ts), the keys and   *)
(* the read-through of lib/cache.                                          *)
(*                                                                         *)
(* A step runs from one await to the next; the answer of a query depends   *)
(* on the database at the moment it arrives.  A restart keeps the database *)
(* and Redis and loses the rest.  The edit overlay, which is applied to    *)
(* every answer, is EditStore's and EditMemo's matter.                     *)
(***************************************************************************)
EXTENDS Naturals

CONSTANTS Requests,   \* GET .../building/:id, GET .../conflicts, POST .../query
          Slugs,      \* the projects the registry snapshot lists
          Demo,       \* DEFAULT_SLUG
          InDatabase, \* those the projects table holds, with their rows
          Exported,   \* those with data/api/<slug>/
          None,       \* nothing under a key
          MaxOutages  \* bound on outages of the database

ASSUME ProjectAssumption ==
  /\ Demo \in Slugs
  /\ InDatabase \subseteq Slugs
  /\ InDatabase # {}  \* the probe counts buildings
  /\ Exported \subseteq Slugs

ASSUME OutageAssumption == MaxOutages \in Nat

VARIABLES up,      \* the database answers
          usable,  \* dbUsable: unknown, yes or no
          cool,    \* less than DB_REPROBE_COOLDOWN_MS since dbProbeFailedAt
          scope,   \* scopeCache of each project
          memo,    \* the payload memo: the document of each project
          redis,   \* Redis answers
          shelf,   \* what Redis holds, by project, backend and resource
          req,     \* each request
          outages, \* history: outages so far
          raced,   \* history: projects whose scope two requests resolved at once
          dropped  \* history: a scope query has failed

vars == <<up, usable, cool, scope, memo, redis, shelf, req, outages, raced, dropped>>

outside == <<up, redis, shelf, outages>>

Backends == {"postgis", "snapshot"}

\* A document has the fallback of viaDb, a point query has not.
Kinds == {"document", "point"}

Scopes == {"unset", "none", "own", "all"}

\* `of` is the project whose rows a body has, or "all"; `failed` is history: the
\* query for it failed.
Bodies == [from : Backends, of : Slugs \cup {"all"}, failed : BOOLEAN]

\* The steps of resolveScope, and the ends.
Resolving == {"resolve", "scope"}

Ends == {"ok", "not found", "unavailable", "error"}

Phases == Ends \cup Resolving
            \cup {"new", "lost", "gate", "probe", "list", "rows", "count", "key",
                  "get", "load", "query", "put", "head", "pack"}

\* `back` is where a call returns to, `keyed` the scope the key was composed
\* under, `used` the scope of the query, `header` x-ulpin-backend.  History:
\* `hit`, and `clean`: it began with the database up, no cooldown running and the
\* project not given up, and there has been no outage since.
NewRequest == [pc |-> "new", slug |-> Demo, kind |-> "document", back |-> "gate",
               keyed |-> "unset", used |-> "unset", header |-> "snapshot",
               body |-> [from |-> "snapshot", of |-> Demo, failed |-> FALSE],
               hit |-> FALSE, clean |-> FALSE]

ReadsTypeOK ==
  /\ up \in BOOLEAN /\ cool \in BOOLEAN /\ redis \in BOOLEAN
  /\ usable \in {"unknown", "yes", "no"}
  /\ scope \in [Slugs -> Scopes]
  /\ memo \in [Slugs -> Bodies \cup {None}]
  /\ \A s \in Slugs, b \in Backends, k \in Kinds : shelf[s][b][k] \in Bodies \cup {None}
  /\ \A r \in Requests :
       /\ req[r].pc \in Phases
       /\ {req[r].keyed, req[r].used} \subseteq Scopes
       /\ req[r].pc \in {"get", "load", "query", "put", "head", "pack"} => req[r].keyed # "unset"
       /\ req[r].pc = "query" => req[r].used \in {"own", "all"}
       /\ req[r].body \in Bodies
  /\ outages \in 0..MaxOutages
  /\ raced \subseteq Slugs
  /\ dropped \in BOOLEAN

Init ==
  /\ up \in BOOLEAN
  /\ usable = "unknown"
  /\ cool = FALSE
  /\ scope = [s \in Slugs |-> "unset"]
  /\ memo = [s \in Slugs |-> None]
  /\ redis \in BOOLEAN
  /\ shelf = [s \in Slugs |-> [b \in Backends |-> [k \in Kinds |-> None]]]
  /\ req = [r \in Requests |-> NewRequest]
  /\ outages = 0
  /\ raced = {}
  /\ dropped = FALSE

Goto(r, phase) == req' = [req EXCEPT ![r].pc = phase]

\* An answer arrives when the database is up, an error when it is down.
Answered(ok) == ok = up

-----------------------------------------------------------------------------
(* usingDb *)

\* Where the caller goes on: projectsFromDb to its query or to the registry
\* snapshot, resolveScope to its query or to no scope.
Resume(r, caller, yes) ==
  IF caller = "gate"
    THEN /\ Goto(r, IF yes THEN "list"
                    ELSE IF req[r].slug \in Exported THEN "key" ELSE "rows")
         /\ UNCHANGED scope
    ELSE IF yes
      THEN Goto(r, "scope") /\ UNCHANGED scope
      ELSE /\ scope' = [scope EXCEPT ![req[r].slug] = "none"]
           /\ Goto(r, req[r].back)

\* Mutant of Remembered: a failed probe is never repeated.
RememberedForEver == usable # "unknown"

\* The last probe still decides.
Remembered == usable = "yes" \/ (usable = "no" /\ cool)

UseLastProbe(r) ==
  /\ req[r].pc \in {"gate", "resolve"}
  /\ Remembered
  /\ Resume(r, req[r].pc, usable = "yes")
  /\ UNCHANGED <<outside, memo, usable, cool, raced, dropped>>

StartProbe(r) ==
  /\ req[r].pc \in {"gate", "resolve"}
  /\ ~Remembered
  /\ req' = [req EXCEPT ![r].pc = "probe",
                        ![r].back = IF req[r].pc = "gate" THEN "gate" ELSE @]
  /\ UNCHANGED <<outside, memo, usable, cool, scope, raced, dropped>>

\* Probes of several requests overlap, and the last to end decides.
Probed(r, ok) ==
  /\ req[r].pc = "probe"
  /\ Answered(ok)
  /\ usable' = IF ok THEN "yes" ELSE "no"
  /\ cool' = (cool \/ ~ok)
  /\ Resume(r, IF req[r].back = "gate" THEN "gate" ELSE "resolve", ok)
  /\ UNCHANGED <<outside, memo, raced, dropped>>

-----------------------------------------------------------------------------
(* The gate: resolveProject *)

Start(r, s, k) ==
  /\ req[r].pc = "new"
  /\ req' = [req EXCEPT ![r] =
       [NewRequest EXCEPT !.pc = "gate", !.slug = s, !.kind = k,
                          !.clean = up /\ ~cool /\ scope[s] # "none"]]
  /\ UNCHANGED <<outside, memo, usable, cool, scope, raced, dropped>>

\* The registry is the database's, or the snapshot's when the query fails.
List(r, ok) ==
  /\ req[r].pc = "list"
  /\ Answered(ok)
  /\ Goto(r, IF ok /\ req[r].slug \notin InDatabase THEN "not found"
             ELSE IF req[r].slug \in Exported THEN "key" ELSE "rows")
  /\ UNCHANGED <<outside, memo, usable, cool, scope, raced, dropped>>

\* projectHasRows, for a project without a snapshot.
AskRows(r) ==
  /\ req[r].pc = "rows"
  /\ scope[req[r].slug] # "unset"
  /\ Goto(r, IF scope[req[r].slug] = "none" THEN "unavailable" ELSE "count")
  /\ UNCHANGED <<outside, memo, usable, cool, scope, raced, dropped>>

Count(r, ok) ==
  /\ req[r].pc = "count"
  /\ Answered(ok)
  /\ Goto(r, IF ok THEN "key" ELSE "unavailable")
  /\ UNCHANGED <<outside, memo, usable, cool, scope, raced, dropped>>

-----------------------------------------------------------------------------
(* scopeFor *)

ResolvingScope(r, s) ==
  req[r].slug = s /\ (req[r].pc \in Resolving \/ (req[r].pc = "probe" /\ req[r].back # "gate"))

\* Nothing in scopeCache yet.  Another request may be resolving it already.
StartResolve(r) ==
  LET s == req[r].slug IN
  /\ req[r].pc \in {"rows", "key"}
  /\ scope[s] = "unset"
  /\ req' = [req EXCEPT ![r].pc = "resolve", ![r].back = req[r].pc]
  /\ raced' = IF \E q \in Requests : ResolvingScope(q, s) THEN raced \cup {s} ELSE raced
  /\ UNCHANGED <<outside, memo, usable, cool, scope, dropped>>

\* Mutant of Unanswered: the scope without a filter is not the demo project's only.
UnansweredForAll(s) == "all"

\* Any error of the query is taken for a missing projects table.
Unanswered(s) == IF s = Demo THEN "all" ELSE "none"

\* scopeCache.set is unconditional, and for the life of the process.
Resolved(r, ok) ==
  LET s == req[r].slug IN
  /\ req[r].pc = "scope"
  /\ Answered(ok)
  /\ scope' = [scope EXCEPT ![s] =
       IF ~ok THEN Unanswered(s) ELSE IF s \in InDatabase THEN "own" ELSE "none"]
  /\ dropped' = (dropped \/ ~ok)
  /\ Goto(r, req[r].back)
  /\ UNCHANGED <<outside, memo, usable, cool, raced>>

-----------------------------------------------------------------------------
(* The read-through: cachedDetail, cachedConflicts, cachedQueryPoint *)

\* Mutant of Backend: the label is the last probe's.
BackendProbed(sc) == IF usable = "yes" THEN "postgis" ELSE "snapshot"

Backend(sc) == IF sc = "none" THEN "snapshot" ELSE "postgis"

ComposeKey(r) ==
  /\ req[r].pc = "key"
  /\ scope[req[r].slug] # "unset"
  /\ req' = [req EXCEPT ![r].pc = "get", ![r].keyed = scope[req[r].slug]]
  /\ UNCHANGED <<outside, memo, usable, cool, scope, raced, dropped>>

Entry(r) == shelf[req[r].slug][Backend(req[r].keyed)][req[r].kind]

Hit(r) ==
  /\ req[r].pc = "get"
  /\ redis
  /\ Entry(r) # None
  /\ req' = [req EXCEPT ![r].pc = "head", ![r].body = Entry(r), ![r].hit = TRUE]
  /\ UNCHANGED <<outside, memo, usable, cool, scope, raced, dropped>>

Miss(r) ==
  /\ req[r].pc = "get"
  /\ redis => Entry(r) = None
  /\ Goto(r, "load")
  /\ UNCHANGED <<outside, memo, usable, cool, scope, raced, dropped>>

\* The snapshot answers, if there is one.
FromSnapshot(r, failed) ==
  IF req[r].slug \in Exported
    THEN req' = [req EXCEPT ![r].pc = "put",
           ![r].body = [from |-> "snapshot", of |-> req[r].slug, failed |-> failed]]
    ELSE Goto(r, "error")

\* The getter asks scopeFor again.
Load(r) ==
  /\ req[r].pc = "load"
  /\ LET sc == scope[req[r].slug] IN
       IF sc = "none" THEN FromSnapshot(r, FALSE)
       ELSE req' = [req EXCEPT ![r].pc = "query", ![r].used = sc]
  /\ UNCHANGED <<outside, memo, usable, cool, scope, raced, dropped>>

QueryAnswers(r) ==
  /\ req[r].pc = "query"
  /\ up
  /\ req' = [req EXCEPT ![r].pc = "put", ![r].body =
       [from |-> "postgis", failed |-> FALSE,
        of |-> IF req[r].used = "own" THEN req[r].slug ELSE "all"]]
  /\ UNCHANGED <<outside, memo, usable, cool, scope, raced, dropped>>

\* viaDb turns the error into the snapshot; a point query does not go through it.
QueryFails(r) ==
  /\ req[r].pc = "query"
  /\ ~up
  /\ IF req[r].kind = "document" THEN FromSnapshot(r, TRUE) ELSE Goto(r, "error")
  /\ UNCHANGED <<outside, memo, usable, cool, scope, raced, dropped>>

\* cacheSet, under the key composed before the load.
Put(r) ==
  /\ req[r].pc = "put"
  /\ shelf' = IF redis
       THEN [shelf EXCEPT ![req[r].slug][Backend(req[r].keyed)][req[r].kind] = req[r].body]
       ELSE shelf
  /\ Goto(r, "head")
  /\ UNCHANGED <<up, redis, outages, memo, usable, cool, scope, raced, dropped>>

\* baseHeaders asks for the backend once more; then jsonPayload, through which a
\* point query does not go, takes the memoised document if there is one.
BaseHeaders(r) ==
  LET s == req[r].slug
      headed == [req[r] EXCEPT !.header = Backend(scope[s])]
  IN
  /\ req[r].pc = "head"
  /\ req' = [req EXCEPT ![r] =
       IF headed.kind = "point" THEN [headed EXCEPT !.pc = "ok"]
       ELSE IF memo[s] = None THEN [headed EXCEPT !.pc = "pack"]
       ELSE [headed EXCEPT !.pc = "ok", !.body = memo[s], !.hit = TRUE]]
  /\ UNCHANGED <<outside, memo, usable, cool, scope, raced, dropped>>

\* The body is compressed and memoised.
Pack(r) ==
  /\ req[r].pc = "pack"
  /\ memo' = [memo EXCEPT ![req[r].slug] = req[r].body]
  /\ Goto(r, "ok")
  /\ UNCHANGED <<outside, usable, cool, scope, raced, dropped>>

-----------------------------------------------------------------------------
(* What happens to the server *)

\* It is gone, or the pool is starved: a query ends in an error.
DatabaseDown ==
  /\ up
  /\ outages < MaxOutages
  /\ up' = FALSE
  /\ outages' = outages + 1
  /\ req' = [r \in Requests |-> [req[r] EXCEPT !.clean = FALSE]]
  /\ UNCHANGED <<usable, cool, scope, memo, redis, shelf, raced, dropped>>

DatabaseUp ==
  /\ ~up
  /\ up' = TRUE
  /\ UNCHANGED <<usable, cool, scope, memo, redis, shelf, req, outages, raced, dropped>>

\* An idle connection was lost; the pool may notice late.
PoolError ==
  /\ outages > 0
  /\ usable' = "unknown"
  /\ cool' = TRUE
  /\ UNCHANGED <<outside, memo, scope, req, raced, dropped>>

Cooled ==
  /\ cool
  /\ cool' = FALSE
  /\ UNCHANGED <<outside, memo, usable, scope, req, raced, dropped>>

RedisFlips ==
  /\ redis' = ~redis
  /\ UNCHANGED <<up, usable, cool, scope, memo, shelf, req, outages, raced, dropped>>

Expire ==
  /\ \E s \in Slugs, b \in Backends, k \in Kinds :
       shelf[s][b][k] # None /\ shelf' = [shelf EXCEPT ![s][b][k] = None]
  /\ UNCHANGED <<up, usable, cool, scope, memo, redis, req, outages, raced, dropped>>

\* The memo is evicted, or a save has raised the revision.
Forget ==
  /\ \E s \in Slugs : memo[s] # None /\ memo' = [memo EXCEPT ![s] = None]
  /\ UNCHANGED <<outside, usable, cool, scope, req, raced, dropped>>

\* Requests in flight are lost; a retry is another request.
NewProcess ==
  /\ usable' = "unknown"
  /\ cool' = FALSE
  /\ scope' = [s \in Slugs |-> "unset"]
  /\ req' = [r \in Requests |->
               IF req[r].pc \in Ends \cup {"new", "lost"} THEN req[r]
               ELSE [NewRequest EXCEPT !.pc = "lost"]]
  /\ memo' = [s \in Slugs |-> None]
  /\ UNCHANGED <<outside, raced, dropped>>

Step(r) ==
  \/ \E s \in Slugs, k \in Kinds : Start(r, s, k)
  \/ UseLastProbe(r)
  \/ StartProbe(r)
  \/ \E ok \in BOOLEAN : Probed(r, ok) \/ List(r, ok) \/ Count(r, ok) \/ Resolved(r, ok)
  \/ AskRows(r)
  \/ StartResolve(r)
  \/ ComposeKey(r)
  \/ Hit(r)
  \/ Miss(r)
  \/ Load(r)
  \/ QueryAnswers(r)
  \/ QueryFails(r)
  \/ Put(r)
  \/ BaseHeaders(r)
  \/ Pack(r)

Next ==
  \/ \E r \in Requests : Step(r)
  \/ DatabaseDown
  \/ DatabaseUp
  \/ PoolError
  \/ Cooled
  \/ RedisFlips
  \/ Expire
  \/ Forget
  \/ NewProcess

Spec == Init /\ [][Next]_vars

-----------------------------------------------------------------------------
(* Properties *)

\* No body is labelled with the other backend in its header or its key: only a query that failed
\* after the key was composed, or two first requests that resolved the scope at
\* the same time, can do it.
MislabelledOnlyByFailure ==
  /\ \A s \in Slugs \ raced, b \in Backends, k \in Kinds :
       shelf[s][b][k] # None => shelf[s][b][k].from = b \/ shelf[s][b][k].failed
  /\ \A r \in Requests :
       req[r].pc = "ok" /\ req[r].slug \notin raced =>
         req[r].body.from = req[r].header \/ req[r].body.failed

\* The rows of other projects are never served or kept under a project's name,
\* except under the demo's, once a scope query has failed.
ForeignRowsOnlyInDemo ==
  \A s \in Slugs :
    LET Foreign(body) == body.of # s => s = Demo /\ dropped IN
      /\ \A b \in Backends, k \in Kinds :
           shelf[s][b][k] # None => Foreign(shelf[s][b][k])
      /\ memo[s] # None => Foreign(memo[s])
      /\ \A r \in Requests : req[r].pc = "ok" /\ req[r].slug = s => Foreign(req[r].body)

\* "Every subsequent request answers from PostGIS again" (usingDb): a request
\* that begins with the database up and the cooldown over, for a project not given
\* up, is not refused, and gets what the database holds, whatever probes and
\* outages came before; or else a cache has kept what was read when a query failed
\* or the scope was resolved twice.
CleanRequestsReachDatabase ==
  \A r \in Requests :
    req[r].pc \in Ends /\ req[r].clean /\ req[r].slug \in InDatabase =>
      /\ req[r].pc = "ok"
      /\ \/ req[r].body.from = "postgis"
         \/ req[r].hit /\ (req[r].body.failed \/ req[r].slug \in raced)

\* "The committed snapshot serves whenever PostGIS cannot" (viaDb): a document of
\* a project that both hold is never refused, whenever the database goes away.
SnapshotServes ==
  \A r \in Requests :
    req[r].slug \in InDatabase \cap Exported /\ req[r].kind = "document" =>
      req[r].pc \notin Ends \ {"ok"}

\* "A snapshot-served payload must never come back labelled postgis" (keys.ts),
\* without exception.
NeverMislabelled ==
  \A r \in Requests : req[r].pc = "ok" => req[r].body.from = req[r].header

\* "One project's cadastre be served under another's URL -- the single most
\* damaging bug this layer could have" (handlers.ts).
OwnRowsOnly ==
  \A r \in Requests : req[r].pc = "ok" => req[r].body.of = req[r].slug
=============================================================================
