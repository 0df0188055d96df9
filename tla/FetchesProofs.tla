--------------------------- MODULE FetchesProofs ----------------------------
(***************************************************************************)
(* What the page's fetches may leave in its caches, and who may wait for   *)
(* nothing, for any projects, ids, limits of the caches and saves.         *)
(*                                                                         *)
(* The argument: a fetch in the air is still asked for.  The effect that   *)
(* began it last ran for its id and its project, or has been cleaned up    *)
(* since, and then the fetch was aborted.  So its answer is for the page   *)
(* that is open.  The exception is a save answered in between, which makes *)
(* the cleanup leave the fetch alone.                                      *)
(***************************************************************************)
EXTENDS MCFetches, TLAPS, FiniteSetTheorems, WellFoundedInduction

-----------------------------------------------------------------------------
(* The invariant of the hooks of OnDemand *)

Named(fs) == {f.id : f \in fs}

\* Until Clear is pressed during one, there is one topology run at a time, the last asked for.
RunInv ==
  hook = "topology" =>
    /\ asked \in Nat
    /\ ~cleared =>
         /\ pending = {} <=> air = {}
         /\ \A f \in air : f.ask = asked /\ \A g \in air : g = f
         /\ air = {} /\ cache[Only] # None /\ failed = {} => cache[Only].ask = asked

\* The hooks that keep a document for each id and leave a fetch alone once it is there.
OneDoc == hook \in {"lulc", "ladm"}

\* The effect that began the fetch still stands for it.
Current(f) ==
  /\ f.by \in Callers /\ f.ask = 0
  /\ deps[f.by].id = f.id /\ deps[f.by].project = f.of
  /\ own[f.by] = f.id
  /\ OneDoc => cache[f.id] = None

Served ==
  (\E c \in Callers : Mounted(c, page)) /\ page.want # None =>
    \/ cache[page.want] # None \/ page.want \in failed
    \/ page.want \in Named(air)
    \/ hook = "lulc" /\ ~page.loaded
    \/ OneDoc /\ page.want \in dropped

HookInv ==
  /\ hook \in Hooks
  /\ page \in Pages
  /\ air \subseteq Fetches
  /\ DOMAIN cache = Ids
  /\ \A c \in Callers : deps[c] = Deps(c, page, cache)
  /\ hook # "topology" => (\A f \in air : Current(f)) /\ pending \subseteq Named(air)
  /\ Served
  /\ RunInv

-----------------------------------------------------------------------------
(* The invariant of the documents *)

Doc == [of : Projects, rev : Nat]

Saves == [id : Buildings, of : Projects, rev : Nat]

FetchRecord == [by : Detail!CallerSet, id : Buildings, of : Projects, rev : Nat \cup {-1},
                held : BOOLEAN]

DetailTyped ==
  /\ view \in Detail!Views
  /\ detail \in [Buildings -> Doc \cup {None}]
  /\ recent \in Seq(Buildings)
  /\ fetches \subseteq FetchRecord
  /\ saving \in Saves \cup {None}
  /\ server \in [Projects -> Nat]
  /\ acked \in [Projects -> [Buildings -> Nat]]

Unanswered(fs) == \A f, g \in fs : f.id = g.id => f = g

\* One fetch for each building flagged.
Flagged == flagged = Named(fetches) /\ Unanswered(fetches)

\* A fetch is held by the caller that began it, which shows its id and has no document,
\* or was overtaken by a save.
Asked(f) ==
  \/ f.id \in overtaken
  \/ /\ f.held /\ detail[f.id] = None
     /\ shown[f.by].id = f.id /\ shown[f.by].project = f.of

\* No revision that a fetch or a save carries is behind what the form has been answered.
Fresh ==
  /\ \A p \in Projects, b \in Buildings : acked[p][b] <= server[p]
  /\ saving # None =>
       /\ saving.rev <= server[saving.of]
       /\ \A b \in Buildings : acked[saving.of][b] < saving.rev
  /\ \A f \in fetches :
       f.id \notin overtaken /\ f.rev # -1 => f.rev >= acked[f.of][f.id]
  /\ SavedStays

DocumentInv ==
  /\ DetailTyped
  /\ \A c \in Detail!CallerSet : shown[c] = Detail!Deps(c, view, detail)
  /\ Flagged
  /\ \A f \in fetches : Asked(f)
  /\ Fresh
  /\ WaitsOnlyIfDropped

-----------------------------------------------------------------------------
(* One event of OnDemand *)

New(p, docs) == [c \in Callers |-> Deps(c, p, docs)]

Rerun(p, docs, again) == {c \in Callers : New(p, docs)[c] # deps[c] \/ c \in again}

Cut(flying, rerun, docs) == {f \in flying : f.by \in rerun /\ Aborts(f, docs)}

Kept(pend, rerun, cut) == pend \ Cleared(rerun, cut)

Asking(rerun, p, docs, kept) ==
  {c \in rerun : /\ Mounted(c, p) /\ p.want # None
                 /\ docs[p.want] = None /\ Free(p.want, kept)
                 /\ hook = "lulc" => p.loaded}

Begun(asking, p) ==
  {[by |-> c, id |-> p.want, of |-> p.project, ask |-> 0] : c \in Begin(asking)}

LEMMA BeginIs ==
  ASSUME NEW S \in SUBSET {"layer", "panel"}
  PROVE  Begin(S) \subseteq S /\ (S # {} => Begin(S) # {})
<1>1. CASE S = {}
  <2>1. Cardinality(S) = 0 BY <1>1, FS_EmptySet
  <2> QED BY <1>1, <2>1 DEF Begin
<1>2. CASE S = {"layer"} BY <1>2 DEF Begin
<1>3. CASE S = {"panel"}
  <2>1. Cardinality(S) = 1 BY <1>3, FS_Singleton
  <2> QED BY <1>3, <2>1 DEF Begin
<1>4. CASE S = {"layer", "panel"} BY <1>4 DEF Begin
<1> QED BY <1>1, <1>2, <1>3, <1>4

LEMMA CallersAre ==
  ASSUME hook \in Hooks
  PROVE  /\ Callers \subseteq {"layer", "panel"}
         /\ OneDoc => Callers = {"panel"}
         /\ hook = "topology" => Callers = {}
         /\ hook = "plot" => Callers = {"panel"}
BY DEF Callers, Hooks, OneDoc

LEMMA DepsIs ==
  ASSUME NEW c, NEW p, NEW docs
  PROVE  /\ Mounted(c, p) => Deps(c, p, docs).id = p.want /\ Deps(c, p, docs).project = p.project
         /\ ~Mounted(c, p) => Deps(c, p, docs).id = None /\ Deps(c, p, docs).project = None
BY DEF Deps, Resting

\* What a React step does, with names for its parts.
LEMMA ReactIs ==
  ASSUME NEW p, NEW docs, NEW pend, NEW flying, NEW again, React(p, docs, pend, flying, again),
         NEW rerun, rerun = Rerun(p, docs, again),
         NEW cut, cut = Cut(flying, rerun, docs),
         NEW kept, kept = Kept(pend, rerun, cut),
         NEW asking, asking = Asking(rerun, p, docs, kept),
         NEW begun, begun = Begun(asking, p)
  PROVE  /\ page' = p /\ cache' = docs /\ deps' = New(p, docs)
         /\ own' = [c \in Callers |-> IF c \in Begin(asking) THEN p.want
                                      ELSE IF c \in rerun THEN None ELSE own[c]]
         /\ pending' = ((IF hook = "index" THEN {}
                         ELSE IF hook = "plot" /\ begun # {} THEN Named(begun)
                         ELSE kept \cup Named(begun))
                          \ (IF OneDoc THEN Named(cut) ELSE {}))
         /\ air' = (flying \ cut) \cup begun
         /\ failed' = failed \ Named(begun)
         /\ dropped' = IF p.want = None THEN {}
                       ELSE ((dropped \cup Named(cut)) \ Named(begun)) \cap {p.want}
BY DEF React, Rerun, Cut, Kept, Asking, Begun, New, Named, OneDoc

\* What the callers of React keep, and what it keeps then.
LEMMA ReactKeeps ==
  ASSUME HookInv, hook # "topology", hook' = hook,
         NEW p \in Pages, NEW docs, DOMAIN docs = Ids, NEW pend, NEW flying \in SUBSET air,
         NEW again,
         React(p, docs, pend, flying, again),
         pend \subseteq Named(flying),
         OneDoc => \A f \in flying : docs[f.id] = None,
         page.project # None /\ page.ready /\ p.project # None => p.ready,
         page.loaded \/ ~p.loaded \/ p.epoch # page.epoch,
         page.want # None /\ cache[page.want] # None => docs[page.want] # None,
         \A f \in air \ flying : docs[f.id] # None,
         UNCHANGED <<asked, cleared>>
  PROVE  HookInv'
<1> DEFINE rerun == Rerun(p, docs, again)
           cut == Cut(flying, rerun, docs)
           kept == Kept(pend, rerun, cut)
           asking == Asking(rerun, p, docs, kept)
           begun == Begun(asking, p)
           w == p.want
<1>1. /\ page' = p /\ cache' = docs /\ deps' = New(p, docs)
      /\ own' = [c \in Callers |-> IF c \in Begin(asking) THEN w
                                   ELSE IF c \in rerun THEN None ELSE own[c]]
      /\ pending' = ((IF hook = "index" THEN {}
                      ELSE IF hook = "plot" /\ begun # {} THEN Named(begun)
                      ELSE kept \cup Named(begun))
                       \ (IF OneDoc THEN Named(cut) ELSE {}))
      /\ air' = (flying \ cut) \cup begun
      /\ failed' = failed \ Named(begun)
      /\ dropped' = IF w = None THEN {}
                    ELSE ((dropped \cup Named(cut)) \ Named(begun)) \cap {w}
  <2> HIDE DEF rerun, cut, kept, asking, begun
  <2> QED BY ReactIs DEF rerun, cut, kept, asking, begun
<1>2. /\ rerun = {c \in Callers : New(p, docs)[c] # deps[c] \/ c \in again}
      /\ cut = {f \in flying : f.by \in rerun /\ Aborts(f, docs)}
      /\ kept = pend \ Cleared(rerun, cut)
      /\ asking = {c \in rerun : /\ Mounted(c, p) /\ p.want # None
                                 /\ docs[p.want] = None /\ Free(p.want, kept)
                                 /\ hook = "lulc" => p.loaded}
      /\ begun = {[by |-> c, id |-> p.want, of |-> p.project, ask |-> 0] : c \in Begin(asking)}
  BY DEF Rerun, Cut, Kept, Asking, Begun
<1> HIDE DEF rerun, cut, kept, asking, begun
<1>3. /\ hook \in Hooks /\ \A c \in Callers : deps[c] = Deps(c, page, cache)
      /\ \A f \in air : Current(f)
      /\ Served
  BY DEF HookInv
<1>4. Callers' = Callers /\ OneDoc' = OneDoc BY DEF Callers, OneDoc
<1>5. \A c \in Callers : New(p, docs)[c] = Deps(c, p, docs) BY DEF New
<1>6. rerun \subseteq Callers /\ asking \subseteq rerun /\ Begin(asking) \subseteq asking
      /\ (asking # {} => Begin(asking) # {})
  <2>1. asking \subseteq {"layer", "panel"} BY <1>2, <1>3, CallersAre
  <2> QED BY <1>2, <2>1, BeginIs
<1>7. ASSUME NEW c \in Begin(asking)
      PROVE  c \in Callers /\ Mounted(c, p) /\ w \in Ids /\ p.project \in Projects /\ docs[w] = None
  <2>1. c \in asking BY <1>6
  <2>2. c \in Callers /\ Mounted(c, p) /\ w # None /\ docs[w] = None BY <1>2, <1>6, <2>1
  <2>3. p.want \in Ids \cup {None} /\ p.project \in Projects \cup {None} BY DEF Pages
  <2>4. p.project # None BY <2>2 DEF Mounted
  <2> QED BY <2>2, <2>3, <2>4
<1>8. ASSUME NEW f \in begun
      PROVE  /\ f.by \in Begin(asking) /\ f.id = w /\ f.of = p.project /\ f.ask = 0
  <2>1. begun = {[by |-> c, id |-> p.want, of |-> p.project, ask |-> 0] : c \in Begin(asking)}
    BY <1>2
  <2>2. PICK c \in Begin(asking) : f = [by |-> c, id |-> p.want, of |-> p.project, ask |-> 0]
    BY <2>1
  <2> QED BY <2>2
<1>9. cut = {f \in flying : f.by \in rerun} BY <1>2 DEF Aborts, OneDoc
<1>10. ASSUME NEW f \in air' PROVE Current(f)'
  <2>1. CASE f \in begun
    <3>1. f.by \in Begin(asking) /\ f.id = w /\ f.of = p.project /\ f.ask = 0 BY <1>8, <2>1
    <3>2. f.by \in Callers /\ Mounted(f.by, p) /\ w \in Ids /\ p.project \in Projects /\ docs[w] = None
      BY <1>7, <3>1
    <3>3. deps'[f.by].id = w /\ deps'[f.by].project = p.project BY <1>1, <1>5, <3>2, DepsIs
    <3>4. own'[f.by] = w BY <1>1, <3>1, <3>2
    <3> QED BY <1>1, <1>4, <3>1, <3>2, <3>3, <3>4 DEF Current
  <2>2. CASE f \in flying /\ f \notin cut
    <3>1. Current(f) BY <1>3, <2>2
    <3>2. f.by \in Callers /\ f.by \notin rerun BY <1>9, <2>2, <3>1 DEF Current
    <3>3. deps'[f.by] = deps[f.by] BY <1>1, <1>2, <3>2
    <3>4. own'[f.by] = own[f.by] BY <1>1, <1>6, <3>2
    <3>5. OneDoc => cache'[f.id] = None BY <1>1, <2>2
    <3> QED BY <1>4, <3>1, <3>3, <3>4, <3>5 DEF Current
  <2> QED BY <1>1, <2>1, <2>2
\* A flag that is kept belongs to a fetch that is.
<1>11. ASSUME NEW i \in kept, hook # "index", OneDoc => i \notin Named(cut)
       PROVE  i \in Named(air')
  <2>1. i \in pend /\ i \notin Cleared(rerun, cut) BY <1>2
  <2>2. PICK f \in flying : f.id = i BY <2>1 DEF Named
  <2>3. f \notin cut
    <3>1. SUFFICES ASSUME f \in cut PROVE FALSE OBVIOUS
    <3>2. f.by \in rerun /\ own[f.by] = i BY <1>3, <1>9, <2>2, <3>1 DEF Current
    <3>3. i \in {own[c] : c \in rerun} /\ i \in Named(cut) BY <2>2, <3>1, <3>2 DEF Named
    <3>4. Named(cut) = {g.id : g \in cut} BY DEF Named
    <3>5. hook \in {"parcels", "register", "plot", "site"} BY <1>3, <1>11, <3>3 DEF Hooks, OneDoc
    <3> QED BY <2>1, <3>3, <3>4, <3>5 DEF Cleared
  <2> QED BY <1>1, <2>2, <2>3 DEF Named
<1>12. pending' \subseteq Named(air')
  <2> SUFFICES ASSUME NEW i \in pending' PROVE i \in Named(air') OBVIOUS
  <2>1. Named(begun) \subseteq Named(air') BY <1>1 DEF Named
  <2>2. (OneDoc => i \notin Named(cut)) /\ hook # "index"
        /\ (i \in Named(begun) \/ i \in kept) BY <1>1
  <2> QED BY <1>11, <2>1, <2>2
<1>13. Served'
  <2>1. SUFFICES ASSUME NEW c \in Callers, Mounted(c, p), w # None,
                        docs[w] = None, w \notin failed', w \notin Named(air'),
                        ~(hook = "lulc" /\ ~p.loaded), ~(OneDoc /\ w \in dropped')
                 PROVE  FALSE
    BY <1>1, <1>4 DEF Served, Mounted, Named
  <2>2. begun = {}
    <3>1. ASSUME NEW f \in begun PROVE FALSE
      <4>1. f.id = w /\ f \in air' BY <1>1, <1>8, <3>1
      <4> QED BY <2>1, <4>1 DEF Named
    <3> QED BY <3>1
  <2>3. asking = {} BY <1>2, <1>6, <2>2
  <2>4. Named(begun) = {} BY <2>2 DEF Named
  <2>5. ASSUME NEW f \in cut, f.id = w PROVE ~OneDoc
    <3>1. w \in Named(cut) BY <2>5 DEF Named
    <3> QED BY <1>1, <2>1, <2>4, <3>1
  <2>6. ASSUME NEW d \in rerun, Mounted(d, p) PROVE FALSE
    <3>1. ~Free(w, kept) BY <1>2, <2>1, <2>3, <2>6
    <3>2. hook # "index" /\ w \in kept BY <3>1 DEF Free
    <3>3. OneDoc => w \notin Named(cut) BY <2>5 DEF Named
    <3> QED BY <1>11, <2>1, <3>2, <3>3
  <2>7. c \notin rerun BY <2>1, <2>6
  <2>8. deps[c] = Deps(c, p, docs) /\ deps[c] = Deps(c, page, cache) BY <1>2, <1>3, <1>5, <2>7
  <2>9. p.project # None BY <2>1 DEF Mounted
  <2>10. Mounted(c, page) /\ page.want = w /\ page.project = p.project
    <3>1. Deps(c, p, docs).id = w /\ Deps(c, p, docs).project = p.project BY <2>1, DepsIs
    <3>2. Deps(c, page, cache).id = w /\ Deps(c, page, cache).project = p.project
      BY <2>8, <3>1
    <3>3. Mounted(c, page) BY <2>9, <3>2, DepsIs
    <3> QED BY <3>2, <3>3, DepsIs
  <2>11. \/ cache[w] # None \/ w \in failed
         \/ w \in Named(air)
         \/ hook = "lulc" /\ ~page.loaded
         \/ OneDoc /\ w \in dropped
    BY <1>3, <2>1, <2>10 DEF Served
  <2>12. cache[w] = None BY <2>1, <2>10
  <2>13. w \notin failed BY <1>1, <2>1, <2>4
  <2>14. ~(OneDoc /\ w \in dropped) BY <1>1, <2>1, <2>4
  <2>15. w \notin Named(air)
    <3>1. ASSUME NEW f \in air, f.id = w PROVE FALSE
      <4>1. f \in flying BY <2>1, <3>1
      <4>2. f \in cut BY <1>1, <2>1, <3>1, <4>1 DEF Named
      <4>3. f.by \in rerun /\ f.by \in Callers BY <1>6, <1>9, <4>2
      <4>4. deps[f.by].id # None /\ deps[f.by] = Deps(f.by, page, cache)
        BY <1>3, <2>1, <3>1, <4>3 DEF Current
      <4>5. Mounted(f.by, page) BY <4>4, DepsIs
      <4>6. Mounted(f.by, p) BY <2>9, <2>10, <4>5 DEF Mounted
      <4> QED BY <2>6, <4>3, <4>6
    <3> QED BY <3>1 DEF Named
  <2>16. ~(hook = "lulc" /\ ~page.loaded)
    <3>1. SUFFICES ASSUME hook = "lulc", ~page.loaded PROVE FALSE OBVIOUS
    <3>2. p.epoch # page.epoch BY <2>1, <3>1
    <3>3. p.epoch \in BOOLEAN /\ page.epoch \in BOOLEAN BY DEF Pages, HookInv
    <3>4. Deps(c, p, docs).epoch = p.epoch /\ Deps(c, page, cache).epoch = page.epoch
      BY <2>1, <2>10, <3>1, <3>3 DEF Deps
    <3> QED BY <2>8, <3>2, <3>4
  <2> QED BY <2>11, <2>12, <2>13, <2>14, <2>15, <2>16
<1>14. \A c \in Callers : deps'[c] = Deps(c, page, cache)'
  <2>1. \A c : Deps(c, page, cache)' = Deps(c, p, docs)
    BY <1>1 DEF Deps, Mounted, Resting
  <2> QED BY <1>1, <1>5, <2>1
<1>15. RunInv' BY DEF RunInv
<1>16. air' \subseteq Fetches
  <2>1. ASSUME NEW f \in begun PROVE f \in Fetches
    <3>1. PICK c \in Begin(asking) : f = [by |-> c, id |-> w, of |-> p.project, ask |-> 0]
      BY <1>2
    <3>2. c \in {"layer", "panel"} /\ w \in Ids /\ p.project \in Projects
      BY <1>3, <1>7, CallersAre
    <3>3. 0 \in 0..MaxAsks BY OnDemandAssumption
    <3> QED BY <3>1, <3>2, <3>3 DEF Fetches
  <2>2. air \subseteq Fetches BY DEF HookInv
  <2> QED BY <1>1, <2>1, <2>2
<1> QED BY <1>1, <1>3, <1>4, <1>10, <1>12, <1>13, <1>14, <1>15, <1>16 DEF HookInv, Named

LEMMA ReactTopology ==
  ASSUME hook = "topology", NEW p, NEW again, React(p, cache, pending, air, again)
  PROVE  /\ page' = p /\ cache' = cache /\ pending' = pending /\ air' = air
         /\ failed' = failed
<1> DEFINE rerun == Rerun(p, cache, again)
           cut == Cut(air, rerun, cache)
           kept == Kept(pending, rerun, cut)
           asking == Asking(rerun, p, cache, kept)
           begun == Begun(asking, p)
<1>1. /\ page' = p /\ cache' = cache
      /\ pending' = ((IF hook = "index" THEN {}
                      ELSE IF hook = "plot" /\ begun # {} THEN Named(begun)
                      ELSE kept \cup Named(begun))
                       \ (IF OneDoc THEN Named(cut) ELSE {}))
      /\ air' = (air \ cut) \cup begun
      /\ failed' = failed \ Named(begun)
  <2> HIDE DEF rerun, cut, kept, asking, begun
  <2> QED BY ReactIs DEF rerun, cut, kept, asking, begun
<1>2. Callers = {} BY DEF Callers
<1>3. rerun = {} /\ asking = {} BY <1>2 DEF Rerun, Asking
<1>4. cut = {} BY <1>3 DEF Cut
<1>5. kept = pending BY DEF Kept, Cleared
<1>6. Begin(asking) = {} BY <1>3, BeginIs
<1>7. begun = {} BY <1>6 DEF Begun
<1> HIDE DEF rerun, cut, kept, asking, begun
<1>8. Named(begun) = {} /\ Named(cut) = {} BY <1>4, <1>7 DEF Named
<1> QED BY <1>1, <1>4, <1>5, <1>7, <1>8 DEF OneDoc

\* An event of the page: only the page is new.
LEMMA PageKeeps ==
  ASSUME HookInv, NEW p \in Pages, NEW again, React(p, cache, pending, air, again),
         UNCHANGED <<hook, asked, cleared>>,
         page.project # None /\ page.ready /\ p.project # None => p.ready,
         page.loaded \/ ~p.loaded \/ p.epoch # page.epoch
  PROVE  HookInv' /\ cache' = cache
<1>1. hook' = hook /\ UNCHANGED <<asked, cleared>> OBVIOUS
<1>2. CASE hook = "topology"
  <2>1. /\ page' = p /\ cache' = cache /\ pending' = pending /\ air' = air /\ failed' = failed
    BY <1>2, ReactTopology
  <2>2. Callers' = {} BY <1>1, <1>2 DEF Callers
  <2>3. Served' BY <2>2 DEF Served
  <2>4. RunInv' BY <1>1, <2>1 DEF HookInv, RunInv
  <2> QED BY <1>1, <1>2, <2>1, <2>2, <2>3, <2>4 DEF HookInv, Fetches
<1>3. CASE hook # "topology"
  <2>1. DOMAIN cache = Ids /\ pending \subseteq Named(air) BY <1>3 DEF HookInv
  <2>2. OneDoc => \A f \in air : cache[f.id] = None BY <1>3 DEF HookInv, Current
  <2>3. \A f \in air \ air : cache[f.id] # None OBVIOUS
  <2>4. page.want # None /\ cache[page.want] # None => cache[page.want] # None OBVIOUS
  <2>5. air \in SUBSET air OBVIOUS
  <2>6. HookInv' BY <1>1, <1>3, <2>1, <2>2, <2>3, <2>4, <2>5, ReactKeeps
  <2>7. cache' = cache BY DEF React
  <2> QED BY <2>6, <2>7
<1> QED BY <1>2, <1>3

LEMMA SeeKeeps ==
  ASSUME HookInv, NEW p \in Pages, See(p),
         page.project # None /\ page.ready /\ p.project # None => p.ready,
         page.loaded \/ ~p.loaded \/ p.epoch # page.epoch
  PROVE  HookInv' /\ cache' = cache
<1>1. React(p, cache, pending, air, {}) /\ UNCHANGED <<hook, asked, cleared>> BY DEF See
<1> QED BY <1>1, PageKeeps

\* What is fetched is what the page wants.
LEMMA FetchIs ==
  ASSUME HookInv, hook # "topology", NEW f \in air
  PROVE  /\ f.id = page.want /\ f.of = page.project /\ f.by \in Callers /\ Current(f)
         /\ f.id \in Ids /\ f.of \in Projects
<1>1. Current(f) /\ f \in Fetches BY DEF HookInv
<1>2. f.by \in Callers /\ f.id \in Ids /\ f.of \in Projects /\ deps[f.by].id = f.id
      /\ deps[f.by].project = f.of
  BY <1>1 DEF Current, Fetches
<1>3. deps[f.by] = Deps(f.by, page, cache) BY <1>2 DEF HookInv
<1>4. deps[f.by].id # None BY <1>2, OnDemandAssumption
<1> QED BY <1>1, <1>2, <1>3, <1>4, DepsIs

LEMMA LandsKeeps ==
  ASSUME HookInv, NEW f \in air, NEW void \in BOOLEAN, Lands(f, void)
  PROVE  HookInv' /\ KeptForPage
<1> DEFINE doc == [of |-> f.of, void |-> void, ask |-> 0]
           pend == pending \ {f.id}
           flying == air \ {f}
<1>1. hook # "topology" /\ UNCHANGED <<hook, asked, cleared>> BY DEF Lands
<1>2. f.id = page.want /\ f.of = page.project /\ f.of \in Projects /\ f.id \in Ids BY <1>1, FetchIs
<1>3. doc \in Docs /\ doc.of = f.of
  <2>1. 0 \in 0..MaxAsks BY OnDemandAssumption
  <2> QED BY <1>2, <2>1 DEF Docs
<1>4. doc # None BY <1>3, DocsAssumption
<1>5. PICK docs : /\ React(page, docs, pend, flying, {}) /\ DOMAIN docs = Ids
                  /\ docs[f.id] = doc
                  /\ \A j \in Ids : j # f.id => docs[j] \in {cache[j], None}
  <2> DEFINE seq == IF hook = "ladm" THEN Touched(f.id) ELSE order
             over == Len(seq) > Limit
             d == [j \in Ids |-> IF j = f.id THEN doc
                                 ELSE IF hook = "plot" \/ (over /\ j = Head(seq)) THEN None
                                 ELSE cache[j]]
  <2>1. Put(f, doc) BY DEF Lands
  <2>2. React(page, d, pend, flying, {}) BY <2>1 DEF Put
  <2> HIDE DEF seq, over
  <2>3. DOMAIN d = Ids /\ d[f.id] = doc /\ \A j \in Ids : j # f.id => d[j] \in {cache[j], None}
    BY <1>2
  <2> QED BY <2>2, <2>3
<1> HIDE DEF doc
<1>6. pend \subseteq Named(flying)
  <2>1. pending \subseteq Named(air) BY <1>1 DEF HookInv
  <2> QED BY <2>1 DEF Named
<1>7. OneDoc => \A g \in flying : docs[g.id] = None
  <2>1. ASSUME NEW g \in flying PROVE ~OneDoc
    <3>1. SUFFICES ASSUME OneDoc PROVE FALSE OBVIOUS
    <3>2. f \in Fetches /\ g \in Fetches BY DEF HookInv
    <3>3. Callers = {"panel"} BY <3>1, CallersAre DEF HookInv
    <3>4. f.by = g.by BY <1>1, <3>3, FetchIs
    <3>5. f.id = g.id /\ f.of = g.of BY <1>1, FetchIs
    <3>6. Current(f) /\ Current(g) BY <1>1, FetchIs
    <3>7. f.ask = g.ask BY <3>6 DEF Current
    <3>8. f = g BY <3>2, <3>4, <3>5, <3>7 DEF Fetches
    <3> QED BY <3>8
  <2> QED BY <2>1
<1>8. page \in Pages BY DEF HookInv
<1>9. \A g \in air \ flying : docs[g.id] # None BY <1>4, <1>5
<1>10. page.want # None /\ cache[page.want] # None => docs[page.want] # None BY <1>2, <1>4, <1>5
<1>11. page.loaded \/ ~page.loaded \/ page.epoch # page.epoch OBVIOUS
<1>12. page.project # None /\ page.ready /\ page.project # None => page.ready OBVIOUS
<1>13. flying \in SUBSET air OBVIOUS
<1> HIDE DEF pend, flying
<1>14. HookInv'
  BY <1>1, <1>5, <1>6, <1>7, <1>8, <1>9, <1>10, <1>11, <1>12, <1>13, ReactKeeps
<1>15. KeptForPage
  <2>1. cache' = docs BY <1>5 DEF React
  <2> QED BY <1>2, <1>3, <1>5, <2>1 DEF KeptForPage
<1> QED BY <1>14, <1>15

LEMMA FailsKeeps ==
  ASSUME HookInv, NEW f \in air, Fails(f)
  PROVE  HookInv' /\ KeptForPage
<1>1. /\ hook # "topology" /\ hook # "index"
      /\ air' = air \ {f} /\ pending' = pending \ {f.id}
      /\ cache' = IF hook = "plot" THEN [i \in Ids |-> None] ELSE cache
      /\ failed' = failed \cup {f.id}
      /\ UNCHANGED <<hook, page, deps, own, asked, cleared>>
  BY DEF Fails
<1>2. f.id = page.want BY <1>1, FetchIs
<1>3. Callers' = Callers BY <1>1 DEF Callers
<1>4. ASSUME NEW c \in Callers PROVE deps'[c] = Deps(c, page, cache)'
  <2>1. Deps(c, page, cache)' = Deps(c, page, cache)
    <3>1. CASE hook = "plot" BY <1>1, <3>1 DEF Deps, Mounted, Resting
    <3>2. CASE hook # "plot" BY <1>1, <3>2 DEF Deps, Mounted, Resting
    <3> QED BY <3>1, <3>2
  <2> QED BY <1>1, <2>1 DEF HookInv
<1>5. ASSUME NEW g \in air' PROVE Current(g)'
  <2>1. Current(g) BY <1>1 DEF HookInv
  <2>2. OneDoc' = OneDoc /\ (OneDoc => cache' = cache) BY <1>1 DEF OneDoc
  <2> QED BY <1>1, <1>3, <2>1, <2>2 DEF Current
<1>6. pending' \subseteq Named(air')
  <2>1. pending \subseteq Named(air) BY <1>1 DEF HookInv
  <2> QED BY <1>1, <2>1 DEF Named
<1>7. Served' BY <1>1, <1>2 DEF Served
<1>8. RunInv' BY <1>1 DEF RunInv
<1>9. DOMAIN cache' = Ids BY <1>1 DEF HookInv
<1>10. HookInv'
  <2>1. air' \subseteq Fetches /\ page' \in Pages /\ hook' \in Hooks BY <1>1 DEF HookInv
  <2>2. (hook # "topology" => (\A g \in air : Current(g)) /\ pending \subseteq Named(air))'
    BY <1>5, <1>6 DEF Named
  <2> QED BY <1>3, <1>4, <1>7, <1>8, <1>9, <2>1, <2>2 DEF HookInv, Fetches
<1>11. KeptForPage BY <1>1 DEF KeptForPage
<1> QED BY <1>10, <1>11

LEMMA PageSteps ==
  ASSUME HookInv,
         Leave \/ SceneReady \/ Reload \/ Relayout
           \/ (\E p \in Projects : Open(p)) \/ (\E i \in Wantable \cup {None} : Want(i))
  PROVE  HookInv' /\ cache' = cache
<1>1. page \in Pages BY DEF HookInv
<1>2. CASE Leave
  <2> DEFINE q == [page EXCEPT !.project = None, !.ready = FALSE]
  <2>1. See(q) BY <1>2 DEF Leave
  <2>2. q \in Pages /\ q.project = None /\ q.loaded = page.loaded BY <1>1 DEF Pages
  <2>3. page.loaded \in BOOLEAN BY <1>1 DEF Pages
  <2> HIDE DEF q
  <2> QED BY <2>1, <2>2, <2>3, SeeKeeps
<1>3. CASE SceneReady
  <2> DEFINE q == [page EXCEPT !.ready = TRUE]
  <2>1. See(q) BY <1>3 DEF SceneReady
  <2>2. q \in Pages /\ q.ready = TRUE /\ q.loaded = page.loaded BY <1>1 DEF Pages
  <2>3. page.loaded \in BOOLEAN BY <1>1 DEF Pages
  <2> HIDE DEF q
  <2> QED BY <2>1, <2>2, <2>3, SeeKeeps
<1>4. CASE Reload
  <2> DEFINE q == [page EXCEPT !.epoch = ~@, !.loaded = TRUE]
  <2>1. See(q) BY <1>4 DEF Reload
  <2>2. q \in Pages /\ q.ready = page.ready /\ q.epoch # page.epoch BY <1>1 DEF Pages
  <2> HIDE DEF q
  <2> QED BY <2>1, <2>2, SeeKeeps
<1>5. CASE Relayout
  <2>1. React(page, cache, pending, air, Callers \ {"layer"}) /\ UNCHANGED <<hook, asked, cleared>>
    BY <1>5 DEF Relayout
  <2>2. page.loaded \/ ~page.loaded \/ page.epoch # page.epoch OBVIOUS
  <2> QED BY <1>1, <2>1, <2>2, PageKeeps
<1>6. CASE \E p \in Projects : Open(p)
  <2> PICK p \in Projects : Open(p) BY <1>6
  <2> DEFINE q == [page EXCEPT !.project = p]
  <2>1. See(q) /\ page.project = None BY DEF Open
  <2>2. q \in Pages /\ q.loaded = page.loaded BY <1>1 DEF Pages
  <2>3. page.loaded \in BOOLEAN BY <1>1 DEF Pages
  <2> HIDE DEF q
  <2> QED BY <2>1, <2>2, <2>3, SeeKeeps
<1>7. CASE \E i \in Wantable \cup {None} : Want(i)
  <2> PICK i \in Wantable \cup {None} : Want(i) BY <1>7
  <2> DEFINE q == [page EXCEPT !.want = i]
  <2>1. See(q) BY DEF Want
  <2>2. i \in Ids \cup {None} BY OnDemandAssumption DEF Wantable
  <2>3. q \in Pages /\ q.loaded = page.loaded /\ q.ready = page.ready BY <1>1, <2>2 DEF Pages
  <2>4. page.loaded \in BOOLEAN BY <1>1 DEF Pages
  <2> HIDE DEF q
  <2> QED BY <2>1, <2>3, <2>4, SeeKeeps
<1> QED BY <1>2, <1>3, <1>4, <1>5, <1>6, <1>7

\* Of a topology step only the run's own part is to be shown.
LEMMA TopologyKeeps ==
  ASSUME HookInv, hook = "topology", UNCHANGED <<hook, page>>,
         air' \subseteq Fetches, DOMAIN cache' = Ids, RunInv'
  PROVE  HookInv' /\ KeptForPage
<1>1. Callers' = {} BY DEF Callers
<1>2. Served' BY <1>1 DEF Served
<1>3. KeptForPage BY DEF KeptForPage
<1> QED BY <1>1, <1>2, <1>3 DEF HookInv, Fetches

LEMMA TopologySteps ==
  ASSUME HookInv, Ask \/ Clear \/ \E f \in air : Found(f) \/ NotFound(f)
  PROVE  HookInv' /\ KeptForPage
<1>1. hook = "topology" /\ UNCHANGED <<hook, page>>
  BY DEF Ask, Clear, Found, NotFound, rest
<1>2. /\ asked \in Nat
      /\ ~cleared =>
           /\ pending = {} <=> air = {}
           /\ \A f \in air : f.ask = asked /\ \A g \in air : g = f
           /\ air = {} /\ cache[Only] # None /\ failed = {} => cache[Only].ask = asked
  BY <1>1 DEF HookInv, RunInv
<1>3. air \subseteq Fetches /\ DOMAIN cache = Ids /\ page \in Pages /\ Only \in Ids
  BY OnDemandAssumption DEF HookInv
<1>4. CASE Ask
  <2> DEFINE q == [by |-> "panel", id |-> Only, of |-> page.project, ask |-> asked + 1]
  <2>1. /\ page.project # None /\ asked < MaxAsks /\ pending = {}
        /\ pending' = {Only} /\ asked' = asked + 1 /\ air' = air \cup {q}
        /\ UNCHANGED <<cache, cleared>>
    BY <1>4 DEF Ask, Question
  <2>2. q \in Fetches
    <3>1. page.project \in Projects BY <1>3, <2>1 DEF Pages
    <3>2. asked + 1 \in 0..MaxAsks BY <1>2, <2>1, OnDemandAssumption
    <3> QED BY <1>3, <3>1, <3>2 DEF Fetches
  <2>3. q.ask = asked + 1 /\ asked' \in Nat BY <1>2, <2>1
  <2> HIDE DEF q
  <2>4. ~cleared => air' = {q} BY <1>2, <2>1
  <2>5. RunInv' BY <2>1, <2>3, <2>4 DEF RunInv
  <2> QED BY <1>1, <1>3, <2>1, <2>2, <2>5, TopologyKeeps
<1>5. CASE Clear
  <2>1. /\ cache' = [cache EXCEPT ![Only] = None] /\ pending' = {}
        /\ cleared' = (cleared \/ air # {})
        /\ UNCHANGED <<air, asked, failed>>
    BY <1>5 DEF Clear
  <2>2. cache'[Only] = None /\ DOMAIN cache' = Ids BY <1>3, <2>1
  <2>3. RunInv' BY <1>2, <2>1, <2>2 DEF RunInv
  <2> QED BY <1>1, <1>3, <2>1, <2>2, <2>3, TopologyKeeps
<1>6. CASE \E f \in air : Found(f)
  <2> PICK f \in air : Found(f) BY <1>6
  <2>1. /\ air' = air \ {f} /\ pending' = {} /\ UNCHANGED <<asked, cleared>>
        /\ cache' = [cache EXCEPT ![Only] = [of |-> f.of, void |-> FALSE, ask |-> f.ask]]
    BY DEF Found
  <2>2. cache'[Only] = [of |-> f.of, void |-> FALSE, ask |-> f.ask] /\ DOMAIN cache' = Ids
    BY <1>3, <2>1
  <2>3. ~cleared => air' = {} /\ f.ask = asked BY <1>2, <2>1
  <2>4. cache'[Only].ask = f.ask BY <2>2
  <2>5. RunInv' BY <1>2, <2>1, <2>3, <2>4 DEF RunInv
  <2> QED BY <1>1, <1>3, <2>1, <2>2, <2>5, TopologyKeeps
<1>7. CASE \E f \in air : NotFound(f)
  <2> PICK f \in air : NotFound(f) BY <1>7
  <2>1. /\ air' = air \ {f} /\ pending' = {} /\ failed' = {Only} /\ UNCHANGED <<cache, asked, cleared>>
    BY DEF NotFound
  <2>2. ~cleared => air' = {} BY <1>2, <2>1
  <2>3. RunInv' BY <1>2, <2>1, <2>2 DEF RunInv
  <2> QED BY <1>1, <1>3, <2>1, <2>3, TopologyKeeps
<1> QED BY <1>4, <1>5, <1>6, <1>7

LEMMA HookStep == HookInv /\ Next => HookInv' /\ KeptForPage
<1> SUFFICES ASSUME HookInv, Next PROVE HookInv' /\ KeptForPage OBVIOUS
<1>1. CASE Leave \/ SceneReady \/ Reload \/ Relayout
             \/ (\E p \in Projects : Open(p)) \/ (\E i \in Wantable \cup {None} : Want(i))
  <2>1. HookInv' /\ cache' = cache BY <1>1, PageSteps
  <2> QED BY <2>1 DEF KeptForPage
<1>2. CASE Ask \/ Clear \/ \E f \in air : Found(f) \/ NotFound(f) BY <1>2, TopologySteps
<1>3. CASE \E f \in air : Lands(f, TRUE) \/ Lands(f, FALSE) BY <1>3, LandsKeeps
<1>4. CASE \E f \in air : Fails(f) BY <1>4, FailsKeeps
<1> QED BY <1>1, <1>2, <1>3, <1>4 DEF Next

LEMMA HookStutter == HookInv /\ UNCHANGED vars => HookInv' /\ KeptForPage
<1> SUFFICES ASSUME HookInv, UNCHANGED vars PROVE HookInv' /\ KeptForPage OBVIOUS
<1>1. /\ UNCHANGED <<hook, page, deps, own, cache, pending, air, asked, failed, dropped, cleared>>
  BY DEF vars
<1>2. Callers' = Callers /\ OneDoc' = OneDoc BY <1>1 DEF Callers, OneDoc
<1>3. \A c : Deps(c, page, cache)' = Deps(c, page, cache) BY <1>1 DEF Deps, Mounted, Resting
<1>4. Served' BY <1>1, <1>2 DEF HookInv, Served, Mounted, Named
<1>5. RunInv' BY <1>1 DEF HookInv, RunInv
<1>6. \A f : Current(f)' = Current(f) BY <1>1, <1>2 DEF Current
<1>7. KeptForPage BY <1>1 DEF KeptForPage
<1> QED BY <1>1, <1>2, <1>3, <1>4, <1>5, <1>6, <1>7 DEF HookInv, Fetches, Named

LEMMA HookInit == Init => HookInv
<1> SUFFICES ASSUME Init PROVE HookInv OBVIOUS
<1>1. /\ hook \in Hooks /\ air = {} /\ pending = {} /\ asked = 0
      /\ page = [project |-> None, ready |-> FALSE, want |-> None, epoch |-> FALSE,
                 loaded |-> FALSE]
      /\ deps = [c \in Callers |-> Resting]
      /\ cache = [i \in Ids |-> None]
  BY DEF Init
<1>2. page \in Pages /\ page.project = None /\ page.want = None BY <1>1 DEF Pages
<1>3. \A c \in Callers : deps[c] = Deps(c, page, cache) BY <1>1, <1>2 DEF Deps, Mounted
<1>4. Served BY <1>2 DEF Served
<1>5. cache[Only] = None BY <1>1, OnDemandAssumption
<1>6. RunInv BY <1>1, <1>5 DEF RunInv
<1>7. DOMAIN cache = Ids /\ (\A f \in air : Current(f)) /\ pending \subseteq Named(air)
      /\ air \subseteq Fetches
  BY <1>1
<1> QED BY <1>1, <1>2, <1>3, <1>4, <1>6, <1>7 DEF HookInv

-----------------------------------------------------------------------------
(* One event of DetailStore *)

DNew(v, docs) == [c \in Detail!CallerSet |-> Detail!Deps(c, v, docs)]

DRerun(v, docs, again) == {c \in Detail!CallerSet : DNew(v, docs)[c] # shown[c] \/ c \in again}

DAsking(v, docs, rerun) == {c \in rerun : DNew(v, docs)[c].id # None}

DCached(v, docs) == v.active \in Buildings /\ docs[v.active] # None

DCut(flying, rerun, docs) == {f \in flying : f.held /\ f.by \in rerun /\ docs[f.id] = None}

DBegun(v, docs, pend, asking) ==
  IF asking # {} /\ ~DCached(v, docs) /\ v.active \notin pend
    THEN {[by |-> Detail!First(asking), id |-> v.active, of |-> v.project, rev |-> -1,
           held |-> TRUE]}
    ELSE {}

Mark(f, rerun) == IF f.by \in rerun THEN [f EXCEPT !.held = FALSE] ELSE f

DWanted(v, docs) == {b \in Buildings : \E c \in Detail!CallerSet : DNew(v, docs)[c].id = b}

LEMMA DetailReactIs ==
  ASSUME NEW v, NEW docs, NEW seq, NEW pend, NEW flying, NEW again,
         Detail!React(v, docs, seq, pend, flying, again),
         NEW rerun, rerun = DRerun(v, docs, again),
         NEW asking, asking = DAsking(v, docs, rerun),
         NEW cut, cut = DCut(flying, rerun, docs),
         NEW begun, begun = DBegun(v, docs, pend, asking)
  PROVE  /\ view' = v /\ detail' = docs /\ shown' = DNew(v, docs)
         /\ recent' = IF asking # {} /\ DCached(v, docs) THEN Detail!Touched(seq, v.active) ELSE seq
         /\ fetches' = begun \cup {Mark(f, rerun) : f \in flying \ cut}
         /\ flagged' = (pend \cup Named(begun)) \ Named(cut)
         /\ lost' = ((lost \ Named(begun)) \cup Named(cut)) \cap DWanted(v, docs)
         /\ missed' = (missed \ Named(begun)) \cap DWanted(v, docs)
BY DEF Detail!React, DNew, DRerun, DAsking, DCached, DCut, DBegun, Mark, DWanted, Named,
       Detail!Abandons, Detail!Free

LEMMA CallerSetIs == Detail!CallerSet = {"model", "stack", "ladder", "panel"}
<1>1. DOMAIN Detail!Callers = 1..4 BY DEF Detail!Callers
<1>2. \A i \in 1..4 : i = 1 \/ i = 2 \/ i = 3 \/ i = 4 OBVIOUS
<1>3. /\ Detail!Callers[1] = "model" /\ Detail!Callers[2] = "stack"
      /\ Detail!Callers[3] = "ladder" /\ Detail!Callers[4] = "panel"
  BY DEF Detail!Callers
<1>4. 1 \in 1..4 /\ 2 \in 1..4 /\ 3 \in 1..4 /\ 4 \in 1..4 OBVIOUS
<1> QED BY <1>1, <1>2, <1>3, <1>4 DEF Detail!CallerSet

LEMMA FirstIs ==
  ASSUME NEW S \in SUBSET Detail!CallerSet, S # {}
  PROVE  Detail!First(S) \in S
<1> DEFINE L(i) == i \in DOMAIN Detail!Callers /\ Detail!Callers[i] \in S
                   /\ \A j \in 1..(i - 1) : Detail!Callers[j] \notin S
<1>1. DOMAIN Detail!Callers = 1..4 BY DEF Detail!Callers
<1>2. /\ Detail!Callers[1] = "model" /\ Detail!Callers[2] = "stack"
      /\ Detail!Callers[3] = "ladder" /\ Detail!Callers[4] = "panel"
  BY DEF Detail!Callers
<1>3. S \subseteq {"model", "stack", "ladder", "panel"} BY CallerSetIs
<1>4. \E i \in 1..4 : L(i)
  <2>1. CASE "model" \in S
    <3>1. L(1) BY <1>1, <1>2, <2>1
    <3> QED BY <3>1
  <2>2. CASE "model" \notin S /\ "stack" \in S
    <3>1. \A j \in 1..(2 - 1) : j = 1 OBVIOUS
    <3>2. L(2) BY <1>1, <1>2, <2>2, <3>1
    <3> QED BY <3>2
  <2>3. CASE "model" \notin S /\ "stack" \notin S /\ "ladder" \in S
    <3>1. \A j \in 1..(3 - 1) : j = 1 \/ j = 2 OBVIOUS
    <3>2. L(3) BY <1>1, <1>2, <2>3, <3>1
    <3> QED BY <3>2
  <2>4. CASE "model" \notin S /\ "stack" \notin S /\ "ladder" \notin S /\ "panel" \in S
    <3>1. \A j \in 1..(4 - 1) : j = 1 \/ j = 2 \/ j = 3 OBVIOUS
    <3>2. L(4) BY <1>1, <1>2, <2>4, <3>1
    <3> QED BY <3>2
  <2> QED BY <1>3, <2>1, <2>2, <2>3, <2>4
<1>5. Detail!First(S) = Detail!Callers[CHOOSE i \in DOMAIN Detail!Callers :
        Detail!Callers[i] \in S /\ \A j \in 1..(i - 1) : Detail!Callers[j] \notin S]
  BY DEF Detail!First
<1> QED BY <1>1, <1>4, <1>5

LEMMA DetailDepsIs ==
  ASSUME NEW c, NEW v, NEW docs, NEW n, n = Detail!Deps(c, v, docs)
  PROVE  /\ n.id # None => /\ n.id = v.active /\ n.project = v.project
                           /\ v.project # None
                           /\ n.cached = (v.active \in Buildings /\ docs[v.active] # None)
         /\ n.id = v.active \/ n.id = None
<1>1. CASE Detail!Mounted(c, v) /\ Detail!Wants(c, v)
  <2>1. v.project # None BY <1>1 DEF Detail!Mounted
  <2>2. n = [id |-> v.active, project |-> v.project,
             cached |-> v.active \in Buildings /\ docs[v.active] # None]
    BY <1>1 DEF Detail!Deps
  <2> QED BY <2>1, <2>2
<1>2. CASE Detail!Mounted(c, v) /\ ~Detail!Wants(c, v)
  <2>1. n = [id |-> None, project |-> v.project,
             cached |-> None \in Buildings /\ docs[None] # None]
    BY <1>2 DEF Detail!Deps
  <2> QED BY <2>1
<1>3. CASE ~Detail!Mounted(c, v)
  <2>1. n = [id |-> None, project |-> None, cached |-> FALSE]
    BY <1>3 DEF Detail!Deps, Detail!Unmounted
  <2> QED BY <2>1
<1> QED BY <1>1, <1>2, <1>3

-----------------------------------------------------------------------------
(* The order of use *)

Below == {ss \in Nat \X Nat : ss[1] < ss[2]}

LEMMA BelowWellFounded == IsWellFoundedOn(Below, Nat)
<1>1. Below = OpToRel(<, Nat) BY DEF Below, OpToRel
<1>2. IsWellFoundedOn(OpToRel(<, Nat), Nat) BY NatLessThanWellFounded
<1> QED BY <1>1, <1>2

\* Every non-empty set of natural numbers has a least element: the form in which the proofs
\* below use induction.
LEMMA Least ==
  ASSUME NEW T \in SUBSET Nat, T # {}
  PROVE  \E x \in T : \A y \in T : x <= y
<1>1. \E x \in T : \A y \in T : ~(<<y, x>> \in Below) BY BelowWellFounded, WFMin
<1>2. PICK x \in T : \A y \in T : ~(<<y, x>> \in Below) BY <1>1
<1>3. ASSUME NEW y \in T PROVE x <= y
  <2>1. <<y, x>> \notin Below BY <1>2
  <2>2. ~(y < x) BY <2>1 DEF Below
  <2> QED BY <2>2
<1> QED BY <1>3

\* kept holds what is left of the first i.
LeftOf(seq, b, n, kept) ==
  /\ kept \in [0..n -> Seq(Buildings \ {b})]
  /\ kept[0] = <<>>
  /\ \A i \in 1..n :
       kept[i] = IF seq[i] = b THEN kept[i - 1] ELSE Append(kept[i - 1], seq[i])

LEMMA LeftExists ==
  ASSUME NEW seq \in Seq(Buildings), NEW b, NEW n \in Nat, n <= Len(seq)
  PROVE  \E kept : LeftOf(seq, b, n, kept)
<1> DEFINE T == {k \in 0..n : ~\E kept : LeftOf(seq, b, k, kept)}
           R == Seq(Buildings \ {b})
<1> SUFFICES ASSUME ~\E kept : LeftOf(seq, b, n, kept) PROVE FALSE OBVIOUS
<1>0. n \in T OBVIOUS
<1>1. PICK k \in T : \A j \in T : k <= j
  <2>1. T \in SUBSET Nat OBVIOUS
  <2>2. T # {} BY <1>0
  <2> HIDE DEF T
  <2> QED BY <2>1, <2>2, Least
<1>2. CASE k = 0
  <2>1. <<>> \in R OBVIOUS
  <2>2. [i \in 0..0 |-> <<>>] \in [0..0 -> R] BY <2>1
  <2>3. LeftOf(seq, b, 0, [i \in 0..0 |-> <<>>]) BY <2>2 DEF LeftOf
  <2> QED BY <2>3, <1>2
<1>3. CASE k # 0
  <2>1. k - 1 \in 0..n /\ k - 1 \notin T BY <1>1, <1>3
  <2>2. PICK p : LeftOf(seq, b, k - 1, p) BY <2>1
  <2> DEFINE x == IF seq[k] = b THEN p[k - 1] ELSE Append(p[k - 1], seq[k])
             q == [i \in 0..k |-> IF i = k THEN x ELSE p[i]]
  <2>3. seq[k] \in Buildings /\ p[k - 1] \in R BY <1>3, <2>2 DEF LeftOf
  <2>4. x \in R
    <3>1. CASE seq[k] = b BY <2>3, <3>1
    <3>2. CASE seq[k] # b
      <4>1. seq[k] \in Buildings \ {b} BY <2>3, <3>2
      <4> QED BY <2>3, <3>2, <4>1
    <3> QED BY <3>1, <3>2
  <2>5. q[k] = x OBVIOUS
  <2>6. \A i \in 0..(k - 1) : q[i] = p[i] /\ p[i] \in R BY <2>2 DEF LeftOf
  <2>7. q[k - 1] = p[k - 1] BY <1>3, <2>6
  <2>8. q \in [0..k -> R]
    <3> HIDE DEF x
    <3>1. \A i \in 0..k : i = k \/ i \in 0..(k - 1) OBVIOUS
    <3> QED BY <2>4, <2>6, <3>1
  <2>9. q[0] = <<>> BY <1>3, <2>2 DEF LeftOf
  <2>10. \A i \in 1..k :
           q[i] = IF seq[i] = b THEN q[i - 1] ELSE Append(q[i - 1], seq[i])
    <3> HIDE DEF q
    <3> TAKE i \in 1..k
    <3>1. CASE i = k BY <2>5, <2>7, <3>1
    <3>2. CASE i # k
      <4>1. i \in 1..(k - 1) /\ i \in 0..(k - 1) /\ i - 1 \in 0..(k - 1) BY <3>2
      <4>2. p[i] = IF seq[i] = b THEN p[i - 1] ELSE Append(p[i - 1], seq[i])
        BY <2>2, <4>1 DEF LeftOf
      <4> QED BY <2>6, <4>1, <4>2
    <3> QED BY <3>1, <3>2
  <2> HIDE DEF q, x
  <2>11. LeftOf(seq, b, k, q) BY <2>8, <2>9, <2>10 DEF LeftOf
  <2> QED BY <2>11
<1> QED BY <1>2, <1>3

\* The filter leaves out what it is told to and adds nothing.
LEMMA WithoutIs ==
  ASSUME NEW seq \in Seq(Buildings), NEW b
  PROVE  Detail!Without(seq, b) \in Seq(Buildings \ {b})
<1> DEFINE n == Len(seq)
           Rule(p) == [i \in 0..n |-> IF i = 0 THEN <<>>
                         ELSE IF seq[i] = b THEN p[i - 1] ELSE Append(p[i - 1], seq[i])]
           s == CHOOSE q : q = Rule(q)
<1>0. n \in Nat /\ n <= n OBVIOUS
<1>1. PICK p : LeftOf(seq, b, n, p) BY <1>0, LeftExists
<1>2. p = Rule(p)
  <2>1. \A i \in 0..n : i = 0 \/ i \in 1..n OBVIOUS
  <2>2. p = [i \in 0..n |-> p[i]] BY <1>1 DEF LeftOf
  <2>3. \A i \in 0..n : p[i] = IF i = 0 THEN <<>>
                              ELSE IF seq[i] = b THEN p[i - 1] ELSE Append(p[i - 1], seq[i])
    BY <1>1, <2>1 DEF LeftOf
  <2> QED BY <2>2, <2>3
<1>3. Detail!Without(seq, b) = s[n] BY DEF Detail!Without
<1>4. s = Rule(s)
  <2> HIDE DEF Rule
  <2> QED BY <1>2
<1> HIDE DEF s
<1>6. s = p
  <2> DEFINE T == {i \in 0..n : s[i] # p[i]}
  <2>1. SUFFICES ASSUME T # {} PROVE FALSE
    <3>1. T = {} => \A i \in 0..n : s[i] = p[i] OBVIOUS
    <3> QED BY <3>1, <1>1, <1>4 DEF LeftOf
  <2>2. T \in SUBSET Nat BY <1>0
  <2>3. PICK k \in T : \A j \in T : k <= j
    <3> HIDE DEF T
    <3> QED BY <2>1, <2>2, Least
  <2>4. s[0] = <<>> BY <1>4, <1>0
  <2>5. k # 0 BY <1>1, <2>4 DEF LeftOf
  <2>6. k - 1 \in 0..n /\ k - 1 \notin T /\ k \in 1..n BY <2>3, <2>5, <1>0
  <2>7. s[k - 1] = p[k - 1] BY <2>6
  <2>8. s[k] = IF seq[k] = b THEN s[k - 1] ELSE Append(s[k - 1], seq[k])
    <3>1. k \in 0..n BY <2>3
    <3>2. Rule(s)[k] = IF k = 0 THEN <<>>
                       ELSE IF seq[k] = b THEN s[k - 1] ELSE Append(s[k - 1], seq[k])
      BY <3>1
    <3> HIDE DEF Rule
    <3> QED BY <1>4, <2>5, <3>2
  <2>9. p[k] = IF seq[k] = b THEN p[k - 1] ELSE Append(p[k - 1], seq[k])
    BY <1>1, <2>6 DEF LeftOf
  <2>10. s[k] = p[k] BY <2>7, <2>8, <2>9
  <2> QED BY <2>3, <2>10
<1> QED BY <1>1, <1>3, <1>0, <1>6 DEF LeftOf

LEMMA TouchedIs ==
  ASSUME NEW seq \in Seq(Buildings), NEW b \in Buildings,
         NEW t, t = Detail!Touched(seq, b)
  PROVE  /\ t \in Seq(Buildings)
         /\ Len(t) > DetailLimit => /\ Tail(t) \in Seq(Buildings)
                                    /\ Head(t) \in Buildings /\ Head(t) # b
<1> DEFINE w == Detail!Without(seq, b)
<1>1. w \in Seq(Buildings \ {b}) BY WithoutIs
<1>2. t = Append(w, b) BY DEF Detail!Touched
<1> HIDE DEF w
<1>3. w \in Seq(Buildings)
  <2>1. Len(w) \in Nat /\ w = [i \in 1..Len(w) |-> w[i]] /\ \A i \in 1..Len(w) : w[i] \in Buildings
    BY <1>1
  <2> QED BY <2>1, <1>1
<1>4. t \in Seq(Buildings) BY <1>2, <1>3
<1>5. ASSUME Len(t) > DetailLimit
      PROVE  /\ Tail(t) \in Seq(Buildings)
             /\ Head(t) \in Buildings /\ Head(t) # b
  <2>1. Len(t) = Len(w) + 1 BY <1>2, <1>3
  <2>2. Len(w) >= 1 BY <1>3, <1>5, <2>1, DetailAssumption
  <2>3. t # <<>> BY <1>4, <2>1, <2>2, <1>3
  <2>4. Head(t) = w[1] /\ w[1] \in Buildings \ {b} BY <1>1, <1>2, <1>3, <2>2
  <2> QED BY <1>4, <2>3, <2>4
<1> QED BY <1>4, <1>5

-----------------------------------------------------------------------------
(* What React keeps of DetailStore *)

LEMMA MarkIs ==
  ASSUME NEW f \in FetchRecord, NEW rerun
  PROVE  /\ Mark(f, rerun) \in FetchRecord
         /\ Mark(f, rerun).id = f.id /\ Mark(f, rerun).of = f.of
         /\ Mark(f, rerun).rev = f.rev /\ Mark(f, rerun).by = f.by
         /\ f.by \notin rerun => Mark(f, rerun) = f
BY DEF Mark, FetchRecord

LEMMA DetailReactKeeps ==
  ASSUME NEW v, v.project \in Projects \cup {None}, v.active \in Buildings \cup {None},
         NEW docs \in [Buildings -> Doc \cup {None}], NEW seq \in Seq(Buildings),
         NEW flying \in SUBSET FetchRecord, NEW pend, pend = Named(flying), Unanswered(flying),
         NEW again, again \subseteq Detail!CallerSet,
         Detail!React(v, docs, seq, pend, flying, again),
         \A c \in Detail!CallerSet : shown[c] = Detail!Deps(c, view, detail),
         WaitsOnlyIfDropped,
         \A b \in Buildings : docs[b] = None /\ detail[b] = None /\ b \in flagged => b \in pend,
         \A f \in flying :
           \/ f.id \in overtaken'
           \/ /\ f.held /\ docs[f.id] = None
              /\ shown[f.by].id = f.id /\ shown[f.by].project = f.of
  PROVE  /\ view' = v /\ detail' = docs
         /\ \A c \in Detail!CallerSet : shown'[c] = Detail!Deps(c, v, docs)
         /\ recent' \in Seq(Buildings)
         /\ fetches' \subseteq FetchRecord
         /\ \A f \in fetches' : f.rev = -1 \/ \E g \in flying : f.id = g.id /\ f.of = g.of /\ f.rev = g.rev
         /\ flagged' = Named(fetches') /\ Unanswered(fetches')
         /\ \A f \in fetches' : Asked(f)'
         /\ WaitsOnlyIfDropped'
<1> DEFINE rerun == DRerun(v, docs, again)
           asking == DAsking(v, docs, rerun)
           cut == DCut(flying, rerun, docs)
           begun == DBegun(v, docs, pend, asking)
           w == v.active
           wanted == DWanted(v, docs)
<1>1. /\ view' = v /\ detail' = docs /\ shown' = DNew(v, docs)
      /\ recent' = IF asking # {} /\ DCached(v, docs) THEN Detail!Touched(seq, w) ELSE seq
      /\ fetches' = begun \cup {Mark(f, rerun) : f \in flying \ cut}
      /\ flagged' = (pend \cup Named(begun)) \ Named(cut)
      /\ lost' = ((lost \ Named(begun)) \cup Named(cut)) \cap wanted
      /\ missed' = (missed \ Named(begun)) \cap wanted
  <2> HIDE DEF rerun, asking, cut, begun
  <2> QED BY DetailReactIs DEF rerun, asking, cut, begun
<1>2. /\ rerun = {c \in Detail!CallerSet : DNew(v, docs)[c] # shown[c] \/ c \in again}
      /\ asking = {c \in rerun : DNew(v, docs)[c].id # None}
      /\ cut = {f \in flying : f.held /\ f.by \in rerun /\ docs[f.id] = None}
      /\ wanted = {b \in Buildings : \E c \in Detail!CallerSet : DNew(v, docs)[c].id = b}
  BY DEF DRerun, DAsking, DCut, DWanted
<1>3. begun = IF asking # {} /\ ~DCached(v, docs) /\ w \notin pend
                THEN {[by |-> Detail!First(asking), id |-> w, of |-> v.project, rev |-> -1,
                       held |-> TRUE]}
                ELSE {}
  BY DEF DBegun
<1>4. \A c \in Detail!CallerSet : DNew(v, docs)[c] = Detail!Deps(c, v, docs) BY DEF DNew
<1> HIDE DEF rerun, asking, cut, begun, wanted
<1>5. rerun \subseteq Detail!CallerSet /\ asking \subseteq rerun BY <1>2
<1>6. ASSUME NEW c \in Detail!CallerSet, DNew(v, docs)[c].id # None
      PROVE  /\ w \in Buildings /\ v.project \in Projects
             /\ DNew(v, docs)[c].id = w /\ DNew(v, docs)[c].project = v.project
             /\ DNew(v, docs)[c].cached = (docs[w] # None)
             /\ w \in wanted
  <2> DEFINE m == DNew(v, docs)[c]
  <2>1. m = Detail!Deps(c, v, docs) /\ m.id # None BY <1>4, <1>6
  <2> HIDE DEF m
  <2>2. /\ m.id = w /\ m.project = v.project /\ v.project # None
        /\ m.cached = (w \in Buildings /\ docs[w] # None)
    BY <2>1, DetailDepsIs
  <2>3. w \in Buildings /\ v.project \in Projects BY <2>1, <2>2
  <2>4. m.cached = (docs[w] # None) BY <2>2, <2>3
  <2>5. w \in wanted BY <1>2, <2>2, <2>3 DEF m
  <2> QED BY <2>2, <2>3, <2>4, <2>5 DEF m
<1>7. ASSUME NEW f \in begun
      PROVE  /\ f = [by |-> Detail!First(asking), id |-> w, of |-> v.project, rev |-> -1,
                     held |-> TRUE]
             /\ f \in FetchRecord /\ f.rev = -1 /\ f.held /\ f.id = w /\ f.of = v.project
             /\ f.by \in asking
             /\ w \in Buildings /\ docs[w] = None /\ w \notin pend
  <2>1. /\ asking # {} /\ ~DCached(v, docs) /\ w \notin pend
        /\ f = [by |-> Detail!First(asking), id |-> w, of |-> v.project, rev |-> -1, held |-> TRUE]
    BY <1>3
  <2>2. Detail!First(asking) \in asking
    <3>1. asking \in SUBSET Detail!CallerSet /\ asking # {} BY <1>5, <2>1
    <3> HIDE DEF asking
    <3> QED BY <3>1, FirstIs
  <2>3. Detail!First(asking) \in Detail!CallerSet /\ DNew(v, docs)[Detail!First(asking)].id # None
    BY <1>2, <1>5, <2>2
  <2>4. w \in Buildings /\ v.project \in Projects BY <1>6, <2>3
  <2>5. docs[w] = None BY <2>1, <2>4 DEF DCached
  <2>6. f.by = Detail!First(asking) /\ f.rev = -1 /\ f.held = TRUE /\ f.id = w /\ f.of = v.project
    BY <2>1
  <2>7. f \in FetchRecord BY <2>1, <2>3, <2>4 DEF FetchRecord
  <2> QED BY <2>1, <2>2, <2>4, <2>5, <2>6, <2>7
<1>8. ASSUME NEW f \in flying
      PROVE  /\ Mark(f, rerun) \in FetchRecord
             /\ Mark(f, rerun).id = f.id /\ Mark(f, rerun).of = f.of
             /\ Mark(f, rerun).rev = f.rev /\ Mark(f, rerun).by = f.by
             /\ f.by \notin rerun => Mark(f, rerun) = f
             /\ f.id \in pend /\ f.id \in Buildings /\ f.by \in Detail!CallerSet
  <2>1. f \in FetchRecord OBVIOUS
  <2>2. f.id \in pend BY DEF Named
  <2>3. f.id \in Buildings /\ f.by \in Detail!CallerSet BY <2>1 DEF FetchRecord
  <2> QED BY <2>1, <2>2, <2>3, MarkIs
<1>9. ASSUME NEW f \in fetches'
      PROVE  f \in begun \/ \E g \in flying \ cut : f = Mark(g, rerun)
  BY <1>1
<1>10. fetches' \subseteq FetchRecord BY <1>7, <1>8, <1>9
<1>11. \A f \in fetches' :
         f.rev = -1 \/ \E g \in flying : f.id = g.id /\ f.of = g.of /\ f.rev = g.rev
  BY <1>7, <1>8, <1>9
<1>12. Unanswered(fetches')
  <2> SUFFICES ASSUME NEW f \in fetches', NEW g \in fetches', f.id = g.id PROVE f = g
    BY DEF Unanswered
  <2>1. CASE f \in begun /\ g \in begun BY <1>7, <2>1
  <2>2. CASE f \in begun /\ g \notin begun
    <3>1. PICK h \in flying \ cut : g = Mark(h, rerun) BY <1>9, <2>2
    <3> QED BY <1>7, <1>8, <2>2, <3>1
  <2>3. CASE f \notin begun /\ g \in begun
    <3>1. PICK h \in flying \ cut : f = Mark(h, rerun) BY <1>9, <2>3
    <3> QED BY <1>7, <1>8, <2>3, <3>1
  <2>4. CASE f \notin begun /\ g \notin begun
    <3>1. PICK h \in flying \ cut : f = Mark(h, rerun) BY <1>9, <2>4
    <3>2. PICK k \in flying \ cut : g = Mark(k, rerun) BY <1>9, <2>4
    <3>3. h.id = k.id BY <1>8, <3>1, <3>2
    <3>4. h = k BY <3>3 DEF Unanswered
    <3> QED BY <3>1, <3>2, <3>4
  <2> QED BY <2>1, <2>2, <2>3, <2>4
<1>13. flagged' = Named(fetches')
  <2>1. ASSUME NEW i \in flagged' PROVE i \in Named(fetches')
    <3>1. (i \in pend \/ i \in Named(begun)) /\ i \notin Named(cut) BY <1>1
    <3>2. CASE i \in Named(begun) BY <1>1, <3>2 DEF Named
    <3>3. CASE i \in pend
      <4>1. PICK f \in flying : f.id = i BY <3>3 DEF Named
      <4>2. f \notin cut BY <3>1, <4>1 DEF Named
      <4>3. Mark(f, rerun) \in fetches' /\ Mark(f, rerun).id = i BY <1>1, <1>8, <4>1, <4>2
      <4> QED BY <4>3 DEF Named
    <3> QED BY <3>1, <3>2, <3>3
  <2>2. ASSUME NEW f \in fetches' PROVE f.id \in flagged'
    <3>1. CASE f \in begun
      <4>1. f.id = w /\ w \notin pend /\ f.id \in Named(begun) BY <1>7, <3>1 DEF Named
      <4>2. w \notin Named(cut)
        <5>1. \A g \in cut : g.id \in pend BY <1>2, <1>8
        <5> QED BY <4>1, <5>1 DEF Named
      <4> QED BY <1>1, <4>1, <4>2
    <3>2. CASE f \notin begun
      <4>1. PICK g \in flying \ cut : f = Mark(g, rerun) BY <1>9, <3>2
      <4>2. f.id = g.id /\ g.id \in pend BY <1>8, <4>1
      <4>3. g.id \notin Named(cut)
        <5> SUFFICES ASSUME NEW h \in cut, h.id = g.id PROVE FALSE BY DEF Named
        <5>1. h \in flying /\ g \in flying BY <1>2
        <5>2. h = g BY <5>1 DEF Unanswered
        <5> QED BY <5>2, <4>1
      <4> QED BY <1>1, <4>2, <4>3
    <3> QED BY <3>1, <3>2
  <2>3. Named(fetches') \subseteq flagged' BY <2>2 DEF Named
  <2> QED BY <2>1, <2>3
<1>14. \A c \in Detail!CallerSet : shown'[c] = DNew(v, docs)[c] BY <1>1
<1>15. \A f \in fetches' : Asked(f)'
  <2> SUFFICES ASSUME NEW f \in fetches' PROVE Asked(f)' OBVIOUS
  <2>1. SUFFICES ASSUME f.id \notin overtaken'
                 PROVE  /\ f.held /\ docs[f.id] = None
                        /\ shown'[f.by].id = f.id /\ shown'[f.by].project = f.of
    BY <1>1 DEF Asked
  <2>2. CASE f \in begun
    <3>1. f.held /\ f.id = w /\ f.of = v.project /\ f.by \in asking /\ docs[w] = None
      BY <1>7, <2>2
    <3>2. f.by \in Detail!CallerSet /\ DNew(v, docs)[f.by].id # None BY <1>2, <1>5, <3>1
    <3> QED BY <1>6, <1>14, <3>1, <3>2
  <2>3. CASE f \notin begun
    <3>1. PICK g \in flying \ cut : f = Mark(g, rerun) BY <1>9, <2>3
    <3>2. g.id \notin overtaken' BY <1>8, <2>1, <3>1
    <3>3. /\ g.held /\ docs[g.id] = None
          /\ shown[g.by].id = g.id /\ shown[g.by].project = g.of
      BY <3>1, <3>2
    <3>4. g.by \notin rerun BY <1>2, <3>1, <3>3
    <3>5. f = g /\ g.by \in Detail!CallerSet BY <1>8, <3>1, <3>4
    <3>6. shown'[g.by] = shown[g.by] BY <1>2, <1>14, <3>4, <3>5
    <3> QED BY <3>3, <3>5, <3>6
  <2> QED BY <2>2, <2>3
<1>16. recent' \in Seq(Buildings)
  <2>1. CASE asking # {} /\ DCached(v, docs)
    <3>1. w \in Buildings BY <2>1 DEF DCached
    <3>2. Detail!Touched(seq, w) \in Seq(Buildings) BY <3>1, TouchedIs
    <3> QED BY <1>1, <2>1, <3>2
  <2>2. CASE ~(asking # {} /\ DCached(v, docs)) BY <1>1, <2>2
  <2> QED BY <2>1, <2>2
<1>17. WaitsOnlyIfDropped'
  <2>1. SUFFICES ASSUME NEW b \in Buildings, docs[b] = None, NEW c \in Detail!CallerSet,
                        shown'[c].id = b
                 PROVE  b \in flagged' \/ b \in missed' \/ b \in lost'
    BY <1>1 DEF WaitsOnlyIfDropped, Detail!WaitsOnlyIfDropped, Detail!Waiting
  <2>2. b # None BY DetailAssumption
  <2>3. b = w /\ DNew(v, docs)[c].cached = FALSE /\ DNew(v, docs)[c].id = w /\ b \in wanted
    BY <1>6, <1>14, <2>1, <2>2
  <2>4. CASE b \in Named(cut) BY <1>1, <2>3, <2>4
  <2>5. CASE b \notin Named(cut) /\ (b \in pend \/ b \in Named(begun)) BY <1>1, <2>5
  <2>6. CASE b \notin Named(cut) /\ b \notin pend /\ b \notin Named(begun)
    <3>1. ~DCached(v, docs) BY <2>1, <2>3 DEF DCached
    <3>2. asking = {}
      <4>1. SUFFICES ASSUME asking # {} PROVE FALSE OBVIOUS
      <4>2. begun = {[by |-> Detail!First(asking), id |-> w, of |-> v.project, rev |-> -1,
                      held |-> TRUE]}
        BY <1>3, <2>3, <2>6, <3>1, <4>1
      <4>3. w \in Named(begun) BY <4>2 DEF Named
      <4> QED BY <2>3, <2>6, <4>3
    <3>3. c \notin rerun BY <1>2, <2>2, <2>3, <3>2
    <3> DEFINE m == shown[c]
    <3>4. m = DNew(v, docs)[c] /\ m = Detail!Deps(c, view, detail) BY <1>2, <3>3
    <3> HIDE DEF m
    <3>5. m.id = b /\ m.id # None /\ m.cached = FALSE BY <2>2, <2>3, <3>4
    <3>6. m.id = view.active /\ m.cached = (view.active \in Buildings /\ detail[view.active] # None)
      BY <3>4, <3>5, DetailDepsIs
    <3>7. detail[b] = None BY <3>5, <3>6
    <3>8. b \in flagged \/ b \in missed \/ b \in lost
      BY <3>5, <3>7 DEF m, WaitsOnlyIfDropped, Detail!WaitsOnlyIfDropped, Detail!Waiting
    <3>9. b \notin flagged BY <2>1, <2>6, <3>7
    <3> QED BY <1>1, <2>3, <2>6, <3>8, <3>9
  <2> QED BY <2>4, <2>5, <2>6
<1> QED BY <1>1, <1>4, <1>10, <1>11, <1>12, <1>13, <1>14, <1>15, <1>16, <1>17

-----------------------------------------------------------------------------
(* The steps of DetailStore *)

\* A step that leaves the edits alone and begins no document it had not.
LEMMA DetailSeeKeeps ==
  ASSUME DocumentInv, NEW v \in Detail!Views, NEW again, again \subseteq Detail!CallerSet,
         Detail!React(v, detail, recent, flagged, fetches, again),
         UNCHANGED <<saving, server, acked, overtaken>>
  PROVE  DocumentInv' /\ Detail!KeptForView
<1>1. UNCHANGED saving /\ UNCHANGED server /\ UNCHANGED acked /\ UNCHANGED overtaken OBVIOUS
<1>2. /\ detail \in [Buildings -> Doc \cup {None}] /\ recent \in Seq(Buildings)
      /\ fetches \in SUBSET FetchRecord
      /\ saving \in Saves \cup {None} /\ server \in [Projects -> Nat]
      /\ acked \in [Projects -> [Buildings -> Nat]]
  BY DEF DocumentInv, DetailTyped
<1>3. /\ \A c \in Detail!CallerSet : shown[c] = Detail!Deps(c, view, detail)
      /\ flagged = Named(fetches) /\ Unanswered(fetches)
      /\ \A f \in fetches : Asked(f)
      /\ Fresh /\ WaitsOnlyIfDropped
  BY DEF DocumentInv, Flagged
<1>4. v.project \in Projects \cup {None} /\ v.active \in Buildings \cup {None}
  BY DEF Detail!Views, Detail!Choices
<1>5. \A f \in fetches :
        \/ f.id \in overtaken'
        \/ /\ f.held /\ detail[f.id] = None
           /\ shown[f.by].id = f.id /\ shown[f.by].project = f.of
  BY <1>1, <1>3 DEF Asked
<1>6. /\ view' = v /\ detail' = detail
      /\ \A c \in Detail!CallerSet : shown'[c] = Detail!Deps(c, v, detail)
      /\ recent' \in Seq(Buildings)
      /\ fetches' \subseteq FetchRecord
      /\ \A f \in fetches' : f.rev = -1 \/ \E g \in fetches : f.id = g.id /\ f.of = g.of /\ f.rev = g.rev
      /\ flagged' = Named(fetches') /\ Unanswered(fetches')
      /\ \A f \in fetches' : Asked(f)'
      /\ WaitsOnlyIfDropped'
  BY <1>2, <1>3, <1>4, <1>5, DetailReactKeeps
<1>7. Fresh'
  <2>1. \A f \in fetches' :
          f.id \notin overtaken' /\ f.rev # -1 => f.rev >= acked'[f.of][f.id]
    BY <1>1, <1>3, <1>6 DEF Fresh
  <2>2. SavedStays' BY <1>1, <1>3, <1>6 DEF Fresh, SavedStays, Detail!SavedStays
  <2> QED BY <1>1, <1>3, <2>1, <2>2 DEF Fresh
<1>8. DetailTyped' BY <1>1, <1>2, <1>6 DEF DetailTyped
<1>9. (\A c \in Detail!CallerSet : shown[c] = Detail!Deps(c, view, detail))' BY <1>6
<1>10. Flagged' BY <1>6 DEF Flagged
<1>11. Detail!KeptForView BY <1>6 DEF Detail!KeptForView
<1> QED BY <1>6, <1>7, <1>8, <1>9, <1>10, <1>11 DEF DocumentInv

LEMMA Left2dIs ==
  ASSUME NEW v \in Detail!Views
  PROVE  Detail!Left2d(v) \in Detail!Views
BY DEF Detail!Left2d, Detail!Views, Detail!Modes, Detail!Choices

LEMMA ViewSteps ==
  ASSUME DocumentInv,
         \/ \E id \in Detail!Choices : Detail!Select(id)
         \/ \E on \in BOOLEAN : Detail!Isolate(on)
         \/ Detail!Toggle2d \/ Detail!ResetView \/ Detail!Relayout
         \/ \E p \in Projects : Detail!Open(p)
         \/ Detail!SceneReady \/ Detail!Leave
  PROVE  DocumentInv' /\ Detail!KeptForView
<1>1. view \in Detail!Views BY DEF DocumentInv, DetailTyped
<1>2. ASSUME NEW v \in Detail!Views, Detail!See(v),
             UNCHANGED <<editing, saving, server, acked>>, UNCHANGED overtaken
      PROVE  DocumentInv' /\ Detail!KeptForView
  BY <1>2, DetailSeeKeeps DEF Detail!See
<1>3. CASE \E id \in Detail!Choices : Detail!Select(id)
  <2> PICK id \in Detail!Choices : Detail!Select(id) BY <1>3
  <2> DEFINE v == [view EXCEPT !.active = id,
                      !.mode = IF id = None THEN "city"
                               ELSE IF view.gis2d THEN @ ELSE "building"]
  <2>1. Detail!See(v) /\ UNCHANGED <<editing, saving, server, acked>> /\ UNCHANGED overtaken
    BY DEF Detail!Select, Detail!session
  <2>2. v \in Detail!Views BY <1>1 DEF Detail!Views, Detail!Modes
  <2> HIDE DEF v
  <2> QED BY <1>2, <2>1, <2>2
<1>4. CASE \E on \in BOOLEAN : Detail!Isolate(on)
  <2> PICK on \in BOOLEAN : Detail!Isolate(on) BY <1>4
  <2> DEFINE v == [view EXCEPT !.mode = IF on THEN "floor" ELSE "building"]
  <2>1. Detail!See(v) /\ UNCHANGED <<editing, saving, server, acked>> /\ UNCHANGED overtaken
    BY DEF Detail!Isolate, Detail!session
  <2>2. v \in Detail!Views BY <1>1 DEF Detail!Views, Detail!Modes
  <2> HIDE DEF v
  <2> QED BY <1>2, <2>1, <2>2
<1>5. CASE Detail!Toggle2d
  <2> DEFINE w == [view EXCEPT !.gis2d = TRUE, !.mode = "city",
                      !.preMode = view.mode, !.preActive = view.active]
             v == IF view.gis2d THEN Detail!Left2d(view) ELSE w
  <2>1. Detail!See(v) /\ UNCHANGED <<editing, saving, server, acked>> /\ UNCHANGED overtaken
    BY <1>5 DEF Detail!Toggle2d, Detail!session
  <2>2. w \in Detail!Views BY <1>1 DEF Detail!Views, Detail!Modes
  <2> HIDE DEF w
  <2>3. v \in Detail!Views BY <1>1, <2>2, Left2dIs
  <2> HIDE DEF v
  <2> QED BY <1>2, <2>1, <2>3
<1>6. CASE Detail!ResetView
  <2> DEFINE u == Detail!Left2d(view)
             v == [u EXCEPT !.mode = "city", !.active = None]
  <2>1. Detail!See(v) /\ UNCHANGED <<editing, saving, server, acked>> /\ UNCHANGED overtaken
    BY <1>6 DEF Detail!ResetView, Detail!session
  <2>2. u \in Detail!Views BY <1>1, Left2dIs
  <2> HIDE DEF u
  <2>3. v \in Detail!Views BY <2>2 DEF Detail!Views, Detail!Modes, Detail!Choices
  <2> HIDE DEF v
  <2> QED BY <1>2, <2>1, <2>3
<1>7. CASE Detail!Relayout
  <2>1. /\ Detail!React(view, detail, recent, flagged, fetches, Detail!CallerSet \ Detail!Layers)
        /\ UNCHANGED <<editing, saving, server, acked>> /\ UNCHANGED overtaken
    BY <1>7 DEF Detail!Relayout, Detail!session
  <2>2. Detail!CallerSet \ Detail!Layers \subseteq Detail!CallerSet OBVIOUS
  <2> QED BY <1>1, <2>1, <2>2, DetailSeeKeeps
<1>8. CASE \E p \in Projects : Detail!Open(p)
  <2> PICK p \in Projects : Detail!Open(p) BY <1>8
  <2> DEFINE v == [view EXCEPT !.project = p]
  <2>1. Detail!See(v) /\ UNCHANGED <<editing, saving, server, acked>> /\ UNCHANGED overtaken
    BY DEF Detail!Open, Detail!session
  <2>2. v \in Detail!Views BY <1>1 DEF Detail!Views
  <2> HIDE DEF v
  <2> QED BY <1>2, <2>1, <2>2
<1>9. CASE Detail!SceneReady
  <2> DEFINE v == [view EXCEPT !.ready = TRUE]
  <2>1. Detail!See(v) /\ UNCHANGED <<editing, saving, server, acked>> /\ UNCHANGED overtaken
    BY <1>9 DEF Detail!SceneReady, Detail!session
  <2>2. v \in Detail!Views BY <1>1 DEF Detail!Views
  <2> HIDE DEF v
  <2> QED BY <1>2, <2>1, <2>2
<1>10. CASE Detail!Leave
  <2> DEFINE v == [view EXCEPT !.project = None, !.ready = FALSE]
  <2>1. Detail!See(v) /\ UNCHANGED <<editing, saving, server, acked>> /\ UNCHANGED overtaken
    BY <1>10 DEF Detail!Leave, Detail!session
  <2>2. v \in Detail!Views BY <1>1 DEF Detail!Views
  <2> HIDE DEF v
  <2> QED BY <1>2, <2>1, <2>2
<1> QED BY <1>3, <1>4, <1>5, <1>6, <1>7, <1>8, <1>9, <1>10

LEMMA PutKeeps ==
  ASSUME DocumentInv, NEW b \in Buildings, NEW doc \in Doc,
         NEW flying \in SUBSET fetches, NEW pend, pend = Named(flying), flagged \subseteq pend \cup {b},
         Detail!Put(b, doc, pend, flying),
         \A f \in flying : f.id = b => b \in overtaken',
         overtaken \subseteq overtaken'
  PROVE  /\ view' = view
         /\ detail' \in [Buildings -> Doc \cup {None}] /\ detail'[b] = doc
         /\ \A j \in Buildings \ {b} : detail'[j] = detail[j] \/ detail'[j] = None
         /\ \A c \in Detail!CallerSet : shown'[c] = Detail!Deps(c, view, detail')
         /\ recent' \in Seq(Buildings)
         /\ fetches' \subseteq FetchRecord
         /\ \A f \in fetches' : f.rev = -1 \/ \E g \in flying : f.id = g.id /\ f.of = g.of /\ f.rev = g.rev
         /\ Flagged'
         /\ \A f \in fetches' : Asked(f)'
         /\ WaitsOnlyIfDropped'
<1>1. /\ detail \in [Buildings -> Doc \cup {None}] /\ recent \in Seq(Buildings)
      /\ fetches \subseteq FetchRecord
      /\ view.project \in Projects \cup {None} /\ view.active \in Buildings \cup {None}
  BY DEF DocumentInv, DetailTyped, Detail!Views, Detail!Choices
<1>2. /\ \A c \in Detail!CallerSet : shown[c] = Detail!Deps(c, view, detail)
      /\ Unanswered(fetches) /\ \A f \in fetches : Asked(f)
      /\ WaitsOnlyIfDropped
  BY DEF DocumentInv, Flagged
<1>3. Unanswered(flying) /\ flying \in SUBSET FetchRecord BY <1>1, <1>2 DEF Unanswered
<1>4. doc # None BY DetailAssumption DEF Doc
<1> DEFINE seq == Detail!Touched(recent, b)
           all == [detail EXCEPT ![b] = doc]
           cut == [all EXCEPT ![Head(seq)] = None]
<1>5. /\ Detail!Fits(seq) => Detail!React(view, all, seq, pend, flying, {})
      /\ ~Detail!Fits(seq) => Detail!React(view, cut, Tail(seq), pend, flying, {})
  BY DEF Detail!Put
<1>6. Len(seq) \in Nat /\ seq \in Seq(Buildings) BY <1>1, TouchedIs
<1>7. ~Detail!Fits(seq) => /\ Tail(seq) \in Seq(Buildings)
                           /\ Head(seq) \in Buildings /\ Head(seq) # b
  <2>1. ~Detail!Fits(seq) => Len(seq) > DetailLimit BY <1>6, DetailAssumption DEF Detail!Fits
  <2> QED BY <1>1, <2>1, TouchedIs
<1> HIDE DEF seq
<1>8. /\ all \in [Buildings -> Doc \cup {None}] /\ all[b] = doc
      /\ \A j \in Buildings \ {b} : all[j] = detail[j]
  BY <1>1
<1> HIDE DEF all
<1>9. Head(seq) \in Buildings /\ Head(seq) # b =>
        /\ cut \in [Buildings -> Doc \cup {None}] /\ cut[b] = doc
        /\ \A j \in Buildings \ {b} : cut[j] = detail[j] \/ cut[j] = None
  BY <1>8
<1> HIDE DEF cut
<1>10. ASSUME NEW docs \in [Buildings -> Doc \cup {None}], docs[b] = doc,
              \A j \in Buildings \ {b} : docs[j] = detail[j] \/ docs[j] = None,
              NEW s \in Seq(Buildings),
              Detail!React(view, docs, s, pend, flying, {})
       PROVE  /\ view' = view /\ detail' = docs
              /\ \A c \in Detail!CallerSet : shown'[c] = Detail!Deps(c, view, docs)
              /\ recent' \in Seq(Buildings)
              /\ fetches' \subseteq FetchRecord
              /\ \A f \in fetches' : f.rev = -1 \/ \E g \in flying : f.id = g.id /\ f.of = g.of /\ f.rev = g.rev
              /\ flagged' = Named(fetches') /\ Unanswered(fetches')
              /\ \A f \in fetches' : Asked(f)'
              /\ WaitsOnlyIfDropped'
  <2>1. \A j \in Buildings : docs[j] = None /\ detail[j] = None /\ j \in flagged => j \in pend
    BY <1>4, <1>10
  <2>2. ASSUME NEW f \in flying, f.id \notin overtaken'
        PROVE  /\ f.held /\ docs[f.id] = None
               /\ shown[f.by].id = f.id /\ shown[f.by].project = f.of
    <3>1. f \in fetches /\ Asked(f) /\ f.id \notin overtaken /\ f.id # b BY <1>2, <2>2
    <3>2. f.id \in Buildings BY <1>1, <3>1 DEF FetchRecord
    <3>3. f.held /\ detail[f.id] = None /\ shown[f.by].id = f.id /\ shown[f.by].project = f.of
      BY <3>1 DEF Asked
    <3>4. docs[f.id] = None BY <1>10, <3>1, <3>2, <3>3
    <3> QED BY <3>3, <3>4
  <2>3. {} \subseteq Detail!CallerSet OBVIOUS
  <2> QED BY <1>1, <1>2, <1>3, <1>10, <2>1, <2>2, <2>3, DetailReactKeeps
<1>11. CASE Detail!Fits(seq)
  <2>1. \A j \in Buildings \ {b} : all[j] = detail[j] \/ all[j] = None BY <1>8
  <2>2. Detail!React(view, all, seq, pend, flying, {}) BY <1>5, <1>11
  <2> QED BY <1>6, <1>8, <1>10, <2>1, <2>2 DEF Flagged
<1>12. CASE ~Detail!Fits(seq)
  <2>1. Detail!React(view, cut, Tail(seq), pend, flying, {}) BY <1>5, <1>12
  <2>2. Tail(seq) \in Seq(Buildings) /\ Head(seq) \in Buildings /\ Head(seq) # b BY <1>7, <1>12
  <2>3. /\ cut \in [Buildings -> Doc \cup {None}] /\ cut[b] = doc
        /\ \A j \in Buildings \ {b} : cut[j] = detail[j] \/ cut[j] = None
    BY <1>9, <2>2
  <2> QED BY <1>10, <2>1, <2>2, <2>3 DEF Flagged
<1> QED BY <1>11, <1>12

LEMMA FetchLandsKeeps ==
  ASSUME DocumentInv, NEW f \in fetches, Detail!FetchLands(f)
  PROVE  DocumentInv' /\ Detail!KeptForView
<1> DEFINE doc == [of |-> f.of, rev |-> f.rev]
           b == f.id
           flying == fetches \ {f}
<1>1. /\ f.rev # -1 /\ Detail!Put(b, doc, flagged \ {b}, flying)
      /\ UNCHANGED <<editing, saving, server, acked>> /\ UNCHANGED overtaken
  BY DEF Detail!FetchLands, Detail!session
<1>2. UNCHANGED saving /\ UNCHANGED server /\ UNCHANGED acked /\ UNCHANGED overtaken BY <1>1
<1>3. /\ view \in Detail!Views /\ detail \in [Buildings -> Doc \cup {None}]
      /\ fetches \subseteq FetchRecord
      /\ saving \in Saves \cup {None} /\ server \in [Projects -> Nat]
      /\ acked \in [Projects -> [Buildings -> Nat]]
  BY DEF DocumentInv, DetailTyped
<1>4. /\ \A c \in Detail!CallerSet : shown[c] = Detail!Deps(c, view, detail)
      /\ flagged = Named(fetches) /\ Unanswered(fetches)
      /\ Asked(f) /\ Fresh
  BY DEF DocumentInv, Flagged
<1>5. b \in Buildings /\ f.of \in Projects /\ f.rev \in Nat /\ f.by \in Detail!CallerSet
  BY <1>1, <1>3 DEF FetchRecord
<1>6. doc \in Doc /\ doc.of = f.of /\ doc.rev = f.rev BY <1>5 DEF Doc
<1> HIDE DEF doc
<1>7. \A g \in flying : g.id # b BY <1>4 DEF Unanswered
<1>8. flagged \ {b} = Named(flying)
  <2>1. ASSUME NEW i \in flagged \ {b} PROVE i \in Named(flying)
    <3>1. PICK g \in fetches : g.id = i BY <1>4 DEF Named
    <3> QED BY <3>1 DEF Named
  <2>2. Named(flying) \subseteq flagged \ {b} BY <1>4, <1>7 DEF Named
  <2> QED BY <2>1, <2>2
<1>9. /\ view' = view
      /\ detail' \in [Buildings -> Doc \cup {None}] /\ detail'[b] = doc
      /\ \A j \in Buildings \ {b} : detail'[j] = detail[j] \/ detail'[j] = None
      /\ \A c \in Detail!CallerSet : shown'[c] = Detail!Deps(c, view, detail')
      /\ recent' \in Seq(Buildings)
      /\ fetches' \subseteq FetchRecord
      /\ \A g \in fetches' : g.rev = -1 \/ \E h \in flying : g.id = h.id /\ g.of = h.of /\ g.rev = h.rev
      /\ Flagged'
      /\ \A g \in fetches' : Asked(g)'
      /\ WaitsOnlyIfDropped'
  <2>1. flagged \subseteq (flagged \ {b}) \cup {b} /\ flying \in SUBSET fetches OBVIOUS
  <2> DEFINE pend == flagged \ {b}
  <2>2. pend = Named(flying) /\ flagged \subseteq pend \cup {b} /\ Detail!Put(b, doc, pend, flying)
    BY <1>1, <1>8, <2>1
  <2> HIDE DEF pend, flying, b
  <2>3. b \in Buildings /\ \A g \in flying : g.id = b => b \in overtaken' BY <1>5, <1>7
  <2> QED BY <1>2, <1>6, <2>1, <2>2, <2>3, PutKeeps
<1>10. Fresh'
  <2>1. \A g \in fetches' :
          g.id \notin overtaken' /\ g.rev # -1 => g.rev >= acked'[g.of][g.id]
    BY <1>2, <1>4, <1>9 DEF Fresh
  <2>2. ASSUME NEW j \in Buildings, detail'[j] # None, j \notin overtaken
        PROVE  detail'[j].rev >= acked[detail'[j].of][j]
    <3>1. CASE j = b
      <4>1. f.rev >= acked[f.of][b] BY <1>1, <1>4, <2>2, <3>1 DEF Fresh
      <4> QED BY <1>6, <1>9, <3>1, <4>1
    <3>2. CASE j # b
      <4>1. detail'[j] = detail[j] BY <1>9, <2>2, <3>2
      <4> QED BY <1>4, <2>2, <4>1 DEF Fresh, SavedStays, Detail!SavedStays
    <3> QED BY <3>1, <3>2
  <2>3. SavedStays' BY <1>2, <2>2 DEF SavedStays, Detail!SavedStays
  <2> QED BY <1>2, <1>4, <2>1, <2>3 DEF Fresh
<1>11. Detail!KeptForView
  <2> SUFFICES ASSUME NEW j \in Buildings, detail'[j] # detail[j], detail'[j] # None,
                      j \notin overtaken
               PROVE  detail'[j].of = view.project
    BY DEF Detail!KeptForView
  <2>1. j = b BY <1>9
  <2> DEFINE m == shown[f.by]
  <2>2. m = Detail!Deps(f.by, view, detail) BY <1>4, <1>5
  <2>3. m.id = b /\ m.project = f.of BY <1>4, <2>1 DEF Asked
  <2> HIDE DEF m
  <2>4. m.id # None BY <1>5, <2>3, DetailAssumption
  <2>5. m.project = view.project BY <2>2, <2>4, DetailDepsIs
  <2> QED BY <1>6, <1>9, <2>1, <2>3, <2>5
<1>12. DetailTyped' BY <1>2, <1>3, <1>9 DEF DetailTyped
<1>13. (\A c \in Detail!CallerSet : shown[c] = Detail!Deps(c, view, detail))' BY <1>9
<1> QED BY <1>9, <1>10, <1>11, <1>12, <1>13 DEF DocumentInv

LEMMA SaveLandsKeeps ==
  ASSUME DocumentInv, Detail!SaveLands
  PROVE  DocumentInv' /\ Detail!KeptForView
<1> DEFINE doc == [of |-> saving.of, rev |-> saving.rev]
           b == saving.id
<1>1. /\ saving # None /\ Detail!Put(b, doc, flagged, fetches)
      /\ acked' = [acked EXCEPT ![saving.of][b] = saving.rev]
      /\ overtaken' = IF b \in flagged THEN overtaken \cup {b} ELSE overtaken
      /\ saving' = None /\ UNCHANGED server
  BY DEF Detail!SaveLands
<1>2. /\ view \in Detail!Views /\ detail \in [Buildings -> Doc \cup {None}]
      /\ fetches \subseteq FetchRecord
      /\ saving \in Saves \cup {None} /\ server \in [Projects -> Nat]
      /\ acked \in [Projects -> [Buildings -> Nat]]
  BY DEF DocumentInv, DetailTyped
<1>3. flagged = Named(fetches) /\ Fresh BY DEF DocumentInv, Flagged
<1>4. b \in Buildings /\ saving.of \in Projects /\ saving.rev \in Nat BY <1>1, <1>2 DEF Saves
<1>5. doc \in Doc /\ doc.of = saving.of /\ doc.rev = saving.rev BY <1>4 DEF Doc
<1> HIDE DEF doc
<1>6. /\ acked' \in [Projects -> [Buildings -> Nat]] /\ acked'[saving.of][b] = saving.rev
      /\ \A p \in Projects, j \in Buildings :
           p # saving.of \/ j # b => acked'[p][j] = acked[p][j]
  BY <1>1, <1>2, <1>4
<1>7. overtaken \subseteq overtaken' /\ \A f \in fetches : f.id = b => b \in overtaken'
  BY <1>1, <1>3 DEF Named
<1>8. /\ view' = view
      /\ detail' \in [Buildings -> Doc \cup {None}] /\ detail'[b] = doc
      /\ \A j \in Buildings \ {b} : detail'[j] = detail[j] \/ detail'[j] = None
      /\ \A c \in Detail!CallerSet : shown'[c] = Detail!Deps(c, view, detail')
      /\ recent' \in Seq(Buildings)
      /\ fetches' \subseteq FetchRecord
      /\ \A g \in fetches' : g.rev = -1 \/ \E h \in fetches : g.id = h.id /\ g.of = h.of /\ g.rev = h.rev
      /\ Flagged'
      /\ \A g \in fetches' : Asked(g)'
      /\ WaitsOnlyIfDropped'
  <2>1. flagged \subseteq flagged \cup {b} /\ fetches \in SUBSET fetches OBVIOUS
  <2> HIDE DEF b
  <2> QED BY <1>1, <1>3, <1>4, <1>5, <1>7, <2>1, PutKeeps
<1>9. saving.rev <= server[saving.of] /\ \A j \in Buildings : acked[saving.of][j] < saving.rev
  BY <1>1, <1>3 DEF Fresh
<1>10. Fresh'
  <2>1. \A p \in Projects, j \in Buildings : acked'[p][j] <= server'[p]
    BY <1>1, <1>3, <1>6, <1>9 DEF Fresh
  <2>2. ASSUME NEW f \in fetches', f.id \notin overtaken', f.rev # -1
        PROVE  f.rev >= acked'[f.of][f.id]
    <3>1. PICK h \in fetches : f.id = h.id /\ f.of = h.of /\ f.rev = h.rev BY <1>8, <2>2
    <3>2. h.id # b /\ h.id \notin overtaken BY <1>7, <2>2, <3>1
    <3>3. h.id \in Buildings /\ h.of \in Projects BY <1>2 DEF FetchRecord
    <3>4. h.rev >= acked[h.of][h.id] BY <1>3, <2>2, <3>1, <3>2 DEF Fresh
    <3>5. acked'[h.of][h.id] = acked[h.of][h.id] BY <1>6, <3>2, <3>3
    <3> QED BY <3>1, <3>4, <3>5
  <2>3. ASSUME NEW j \in Buildings, detail'[j] # None, j \notin overtaken'
        PROVE  detail'[j].rev >= acked'[detail'[j].of][j]
    <3>1. CASE j = b BY <1>4, <1>5, <1>6, <1>8, <3>1
    <3>2. CASE j # b
      <4>1. detail'[j] = detail[j] /\ j \notin overtaken BY <1>7, <1>8, <2>3, <3>2
      <4>2. detail[j] \in Doc BY <1>2, <2>3, <4>1
      <4>3. detail[j].of \in Projects BY <4>2 DEF Doc
      <4>4. detail[j].rev >= acked[detail[j].of][j]
        BY <1>3, <2>3, <4>1 DEF Fresh, SavedStays, Detail!SavedStays
      <4>5. acked'[detail[j].of][j] = acked[detail[j].of][j] BY <1>6, <3>2, <4>3
      <4> QED BY <4>1, <4>4, <4>5
    <3> QED BY <3>1, <3>2
  <2>4. SavedStays' BY <2>3 DEF SavedStays, Detail!SavedStays
  <2> QED BY <1>1, <2>1, <2>2, <2>4 DEF Fresh
<1>11. acked' # acked
  <2>1. acked[saving.of][b] < saving.rev /\ acked[saving.of][b] \in Nat BY <1>2, <1>4, <1>9
  <2> QED BY <1>4, <1>6, <2>1
<1>12. Detail!KeptForView BY <1>11 DEF Detail!KeptForView
<1>13. DetailTyped' BY <1>1, <1>2, <1>6, <1>8 DEF DetailTyped
<1>14. (\A c \in Detail!CallerSet : shown[c] = Detail!Deps(c, view, detail))' BY <1>8
<1> QED BY <1>8, <1>10, <1>12, <1>13, <1>14 DEF DocumentInv

\* A step that touches neither the view nor the cache.
LEMMA FetchServedKeeps ==
  ASSUME DocumentInv, NEW f \in fetches, Detail!FetchServed(f)
  PROVE  DocumentInv' /\ Detail!KeptForView
<1> DEFINE g == [f EXCEPT !.rev = server[f.of]]
<1>1. /\ fetches' = (fetches \ {f}) \cup {g}
      /\ UNCHANGED <<view, shown, detail, recent, flagged, saving, server, acked,
                     missed, lost, overtaken>>
  BY DEF Detail!FetchServed, Detail!session
<1>2. /\ fetches \subseteq FetchRecord /\ server \in [Projects -> Nat] /\ DetailTyped
      /\ Flagged /\ Asked(f) /\ Fresh /\ WaitsOnlyIfDropped
  BY DEF DocumentInv, DetailTyped
<1>3. f \in FetchRecord /\ f.of \in Projects /\ f.id \in Buildings BY <1>2 DEF FetchRecord
<1>4. g \in FetchRecord /\ g.id = f.id /\ g.of = f.of /\ g.by = f.by /\ g.held = f.held
      /\ g.rev = server[f.of]
  BY <1>2, <1>3 DEF FetchRecord
<1> HIDE DEF g
<1>5. DetailTyped' BY <1>1, <1>2, <1>4 DEF DetailTyped
<1>6. Flagged'
  <2>1. Named(fetches') = Named(fetches) BY <1>1, <1>4 DEF Named
  <2>2. Unanswered(fetches') BY <1>1, <1>2, <1>4 DEF Flagged, Unanswered
  <2> QED BY <1>1, <1>2, <2>1, <2>2 DEF Flagged
<1>7. \A h \in fetches' : Asked(h)'
  <2> TAKE h \in fetches'
  <2>1. CASE h = g BY <1>1, <1>2, <1>4, <2>1 DEF Asked
  <2>2. CASE h # g
    <3>1. h \in fetches BY <1>1, <2>2
    <3>2. Asked(h) BY <3>1 DEF DocumentInv
    <3> QED BY <1>1, <3>2 DEF Asked
  <2> QED BY <2>1, <2>2
<1>8. Fresh'
  <2>1. ASSUME NEW h \in fetches', h.id \notin overtaken', h.rev # -1
        PROVE  h.rev >= acked'[h.of][h.id]
    <3>1. CASE h = g
      <4>1. acked[f.of][f.id] <= server[f.of] BY <1>2, <1>3 DEF Fresh
      <4>2. acked[f.of][f.id] \in Nat /\ server[f.of] \in Nat BY <1>2, <1>3 DEF DetailTyped
      <4> QED BY <1>1, <1>4, <3>1, <4>1, <4>2
    <3>2. CASE h # g
      <4>1. h \in fetches BY <1>1, <3>2
      <4> QED BY <1>1, <1>2, <2>1, <4>1 DEF Fresh
    <3> QED BY <3>1, <3>2
  <2>2. SavedStays' BY <1>1, <1>2 DEF Fresh, SavedStays, Detail!SavedStays
  <2>3. UNCHANGED saving /\ UNCHANGED server /\ UNCHANGED acked BY <1>1
  <2> QED BY <1>2, <2>1, <2>2, <2>3 DEF Fresh
<1>9. WaitsOnlyIfDropped' BY <1>1, <1>2 DEF WaitsOnlyIfDropped, Detail!WaitsOnlyIfDropped, Detail!Waiting
<1>10. Detail!KeptForView BY <1>1 DEF Detail!KeptForView
<1>11. (\A c \in Detail!CallerSet : shown[c] = Detail!Deps(c, view, detail))'
  BY <1>1 DEF DocumentInv
<1> QED BY <1>5, <1>6, <1>7, <1>8, <1>9, <1>10, <1>11 DEF DocumentInv

LEMMA FetchFailsKeeps ==
  ASSUME DocumentInv, NEW f \in fetches, Detail!FetchFails(f)
  PROVE  DocumentInv' /\ Detail!KeptForView
<1>1. /\ fetches' = fetches \ {f} /\ flagged' = flagged \ {f.id}
      /\ missed' = missed \cup ({f.id} \cap Detail!Waiting)
      /\ UNCHANGED <<view, shown, detail, recent, saving, server, acked, lost, overtaken>>
  BY DEF Detail!FetchFails, Detail!session
<1>2. DetailTyped /\ Flagged /\ Fresh /\ WaitsOnlyIfDropped BY DEF DocumentInv
<1>3. DetailTyped' BY <1>1, <1>2 DEF DetailTyped
<1>4. Flagged'
  <2>1. \A g \in fetches' : g.id # f.id BY <1>1, <1>2 DEF Flagged, Unanswered
  <2>2. ASSUME NEW i \in flagged' PROVE i \in Named(fetches')
    <3>1. i \in Named(fetches) /\ i # f.id BY <1>1, <1>2 DEF Flagged
    <3>2. PICK g \in fetches : g.id = i BY <3>1 DEF Named
    <3> QED BY <1>1, <3>1, <3>2 DEF Named
  <2>3. ASSUME NEW g \in fetches' PROVE g.id \in flagged'
    BY <1>1, <1>2, <2>1 DEF Flagged, Named
  <2>4. Unanswered(fetches') BY <1>1, <1>2 DEF Flagged, Unanswered
  <2>5. Named(fetches') \subseteq flagged' BY <2>3 DEF Named
  <2> QED BY <2>2, <2>4, <2>5 DEF Flagged
<1>5. \A h \in fetches' : Asked(h)'
  <2> TAKE h \in fetches'
  <2>1. h \in fetches BY <1>1
  <2>2. Asked(h) BY <2>1 DEF DocumentInv
  <2> QED BY <1>1, <2>2 DEF Asked
<1>6. Fresh'
  <2>1. UNCHANGED saving /\ UNCHANGED server /\ UNCHANGED acked /\ UNCHANGED overtaken
        /\ fetches' \subseteq fetches
    BY <1>1
  <2>2. SavedStays' BY <1>1, <1>2 DEF Fresh, SavedStays, Detail!SavedStays
  <2> QED BY <1>2, <2>1, <2>2 DEF Fresh
<1>7. WaitsOnlyIfDropped'
  <2>1. Detail!Waiting' = Detail!Waiting BY <1>1 DEF Detail!Waiting
  <2> QED BY <1>1, <1>2, <2>1 DEF WaitsOnlyIfDropped, Detail!WaitsOnlyIfDropped
<1>8. Detail!KeptForView BY <1>1 DEF Detail!KeptForView
<1>9. (\A c \in Detail!CallerSet : shown[c] = Detail!Deps(c, view, detail))'
  BY <1>1 DEF DocumentInv
<1> QED BY <1>3, <1>4, <1>5, <1>6, <1>7, <1>8, <1>9 DEF DocumentInv

\* What of the invariant a step of the form alone can disturb.
LEMMA StillKeeps ==
  ASSUME DocumentInv,
         UNCHANGED <<view, shown, detail, recent, flagged, fetches, acked, missed, lost, overtaken>>,
         saving' \in Saves \cup {None}, server' \in [Projects -> Nat],
         \A p \in Projects : server[p] <= server'[p],
         saving' # None =>
           /\ saving'.rev <= server'[saving'.of]
           /\ \A b \in Buildings : acked[saving'.of][b] < saving'.rev
  PROVE  DocumentInv' /\ Detail!KeptForView
<1>1. /\ UNCHANGED view /\ UNCHANGED shown /\ UNCHANGED detail /\ UNCHANGED recent
      /\ UNCHANGED flagged /\ UNCHANGED fetches /\ UNCHANGED acked /\ UNCHANGED missed
      /\ UNCHANGED lost /\ UNCHANGED overtaken
  OBVIOUS
<1>2. DetailTyped /\ Flagged /\ Fresh /\ WaitsOnlyIfDropped BY DEF DocumentInv
<1>3. DetailTyped' BY <1>1, <1>2 DEF DetailTyped
<1>4. Flagged' BY <1>1, <1>2 DEF Flagged
<1>5. \A h \in fetches' : Asked(h)' BY <1>1 DEF Asked, DocumentInv
<1>6. Fresh'
  <2>1. \A p \in Projects, b \in Buildings : acked'[p][b] <= server'[p]
    <3> TAKE p \in Projects, b \in Buildings
    <3>1. acked[p][b] <= server[p] BY <1>2 DEF Fresh
    <3>2. acked[p][b] \in Nat /\ server[p] \in Nat /\ server'[p] \in Nat /\ server[p] <= server'[p]
      BY <1>2 DEF DetailTyped
    <3> QED BY <1>1, <3>1, <3>2
  <2>2. SavedStays' BY <1>1, <1>2 DEF Fresh, SavedStays, Detail!SavedStays
  <2>3. \A f \in fetches' :
          f.id \notin overtaken' /\ f.rev # -1 => f.rev >= acked'[f.of][f.id]
    BY <1>1, <1>2 DEF Fresh
  <2> QED BY <1>1, <2>1, <2>2, <2>3 DEF Fresh
<1>7. WaitsOnlyIfDropped' BY <1>1, <1>2 DEF WaitsOnlyIfDropped, Detail!WaitsOnlyIfDropped, Detail!Waiting
<1>8. Detail!KeptForView BY <1>1 DEF Detail!KeptForView
<1>9. (\A c \in Detail!CallerSet : shown[c] = Detail!Deps(c, view, detail))'
  BY <1>1 DEF DocumentInv
<1> QED BY <1>3, <1>4, <1>5, <1>6, <1>7, <1>8, <1>9 DEF DocumentInv

LEMMA EditSteps ==
  ASSUME DocumentInv, Detail!BeginEdit \/ Detail!CancelEdit \/ Detail!Save \/ Detail!SaveFails
  PROVE  DocumentInv' /\ Detail!KeptForView
<1>1. /\ view \in Detail!Views /\ saving \in Saves \cup {None} /\ server \in [Projects -> Nat]
      /\ acked \in [Projects -> [Buildings -> Nat]] /\ Fresh
  BY DEF DocumentInv, DetailTyped
<1>2. UNCHANGED <<view, shown, detail, recent, flagged, fetches, acked, missed, lost, overtaken>>
  BY DEF Detail!BeginEdit, Detail!CancelEdit, Detail!Save, Detail!SaveFails, Detail!still
<1>3. \A p \in Projects : server[p] \in Nat BY <1>1
<1>4. CASE Detail!BeginEdit \/ Detail!CancelEdit
  <2>1. UNCHANGED saving /\ UNCHANGED server BY <1>4 DEF Detail!BeginEdit, Detail!CancelEdit
  <2>2. saving' # None => /\ saving'.rev <= server'[saving'.of]
                          /\ \A b \in Buildings : acked[saving'.of][b] < saving'.rev
    BY <1>1, <2>1 DEF Fresh
  <2>3. \A p \in Projects : server[p] <= server'[p] BY <1>3, <2>1
  <2> QED BY <1>1, <1>2, <2>1, <2>2, <2>3, StillKeeps
<1>5. CASE Detail!SaveFails
  <2>1. saving' = None /\ UNCHANGED server BY <1>5 DEF Detail!SaveFails
  <2>2. \A p \in Projects : server[p] <= server'[p] BY <1>3, <2>1
  <2> QED BY <1>1, <1>2, <2>1, <2>2, StillKeeps
<1>6. CASE Detail!Save
  <2> DEFINE p == view.project
  <2>1. /\ p # None /\ editing # None /\ editing = view.active
        /\ server' = [server EXCEPT ![p] = @ + 1]
        /\ saving' = [id |-> editing, of |-> p, rev |-> server'[p]]
    BY <1>6 DEF Detail!Save
  <2>2. p \in Projects /\ editing \in Buildings BY <1>1, <2>1 DEF Detail!Views, Detail!Choices
  <2>3. server'[p] = server[p] + 1 /\ server[p] \in Nat /\ server' \in [Projects -> Nat]
    BY <1>1, <2>1, <2>2
  <2>4. \A q \in Projects : server[q] <= server'[q] BY <1>1, <1>3, <2>1, <2>2, <2>3
  <2>5. saving' \in Saves /\ saving'.of = p /\ saving'.rev = server'[p]
    <3> DEFINE x == server'[p]
    <3>1. x \in Nat BY <2>2, <2>3
    <3>2. saving' = [id |-> editing, of |-> p, rev |-> x] BY <2>1
    <3> HIDE DEF x
    <3>3. saving' \in Saves /\ saving'.of = p /\ saving'.rev = x BY <2>2, <3>1, <3>2 DEF Saves
    <3> QED BY <3>3 DEF x
  <2>6. \A b \in Buildings : acked[p][b] <= server[p] /\ acked[p][b] \in Nat
    BY <1>1, <2>2 DEF Fresh
  <2>7. \A b \in Buildings : acked[p][b] < server'[p]
    <3> HIDE DEF p
    <3> TAKE b \in Buildings
    <3>1. acked[p][b] <= server[p] /\ acked[p][b] \in Nat BY <2>6
    <3> QED BY <2>3, <3>1
  <2>8. saving'.rev <= server'[saving'.of] BY <2>2, <2>3, <2>5
  <2> QED BY <1>2, <2>3, <2>4, <2>5, <2>7, <2>8, StillKeeps
<1> QED BY <1>4, <1>5, <1>6

LEMMA DocumentStep == DocumentInv /\ Detail!Next => DocumentInv' /\ Detail!KeptForView
<1> SUFFICES ASSUME DocumentInv, Detail!Next PROVE DocumentInv' /\ Detail!KeptForView OBVIOUS
<1>1. CASE \/ \E id \in Detail!Choices : Detail!Select(id)
           \/ \E on \in BOOLEAN : Detail!Isolate(on)
           \/ Detail!Toggle2d \/ Detail!ResetView \/ Detail!Relayout
           \/ \E p \in Projects : Detail!Open(p)
           \/ Detail!SceneReady \/ Detail!Leave
  BY <1>1, ViewSteps
<1>2. CASE \E f \in fetches : Detail!FetchServed(f) \/ Detail!FetchLands(f) \/ Detail!FetchFails(f)
  BY <1>2, FetchServedKeeps, FetchLandsKeeps, FetchFailsKeeps
<1>3. CASE Detail!BeginEdit \/ Detail!CancelEdit \/ Detail!Save \/ Detail!SaveFails
  BY <1>3, EditSteps
<1>4. CASE Detail!SaveLands BY <1>4, SaveLandsKeeps
<1> QED BY <1>1, <1>2, <1>3, <1>4 DEF Detail!Next

LEMMA DocumentStutter == DocumentInv /\ UNCHANGED detailVars => DocumentInv' /\ Detail!KeptForView
<1> SUFFICES ASSUME DocumentInv, UNCHANGED detailVars
             PROVE  DocumentInv' /\ Detail!KeptForView
  OBVIOUS
<1>1. /\ UNCHANGED <<view, shown, detail, recent, flagged, fetches, acked, missed, lost, overtaken>>
      /\ UNCHANGED saving /\ UNCHANGED server
  BY DEF detailVars
<1>2. /\ saving \in Saves \cup {None} /\ server \in [Projects -> Nat] /\ Fresh
  BY DEF DocumentInv, DetailTyped
<1>3. \A p \in Projects : server[p] <= server'[p]
  <2>1. \A p \in Projects : server[p] \in Nat BY <1>2
  <2> QED BY <1>1, <2>1
<1>4. saving' # None => /\ saving'.rev <= server'[saving'.of]
                        /\ \A b \in Buildings : acked[saving'.of][b] < saving'.rev
  BY <1>1, <1>2 DEF Fresh
<1> QED BY <1>1, <1>2, <1>3, <1>4, StillKeeps

LEMMA DocumentInit == Detail!Init => DocumentInv
<1> SUFFICES ASSUME Detail!Init PROVE DocumentInv OBVIOUS
<1>1. /\ view = [project |-> None, ready |-> FALSE, active |-> None, mode |-> "city",
                 gis2d |-> FALSE, preMode |-> "city", preActive |-> None]
      /\ shown = [c \in Detail!CallerSet |-> Detail!Unmounted]
      /\ detail = [b \in Buildings |-> None]
      /\ recent = <<>> /\ flagged = {} /\ fetches = {} /\ saving = None
      /\ server = [p \in Projects |-> 0]
      /\ acked = [p \in Projects |-> [b \in Buildings |-> 0]]
  BY DEF Detail!Init
<1>2. view \in Detail!Views BY <1>1 DEF Detail!Views, Detail!Modes, Detail!Choices
<1>3. DetailTyped BY <1>1, <1>2 DEF DetailTyped
<1>4. view.project = None BY <1>1
<1>5. \A c \in Detail!CallerSet : shown[c] = Detail!Deps(c, view, detail)
  BY <1>1, <1>4 DEF Detail!Deps, Detail!Mounted
<1>6. Flagged BY <1>1 DEF Flagged, Named, Unanswered
<1>7. \A b \in Buildings : detail[b] = None BY <1>1
<1>8. \A p \in Projects, b \in Buildings : acked[p][b] <= server[p] BY <1>1
<1>9. SavedStays BY <1>7 DEF SavedStays, Detail!SavedStays
<1>10. Fresh BY <1>1, <1>8, <1>9 DEF Fresh
<1>11. WaitsOnlyIfDropped
  <2>1. \A c \in Detail!CallerSet : shown[c].id = None BY <1>1 DEF Detail!Unmounted
  <2>2. Detail!Waiting = {} BY <2>1, DetailAssumption DEF Detail!Waiting
  <2> QED BY <2>2 DEF WaitsOnlyIfDropped, Detail!WaitsOnlyIfDropped
<1>12. \A f \in fetches : Asked(f) BY <1>1
<1> QED BY <1>3, <1>5, <1>6, <1>10, <1>11, <1>12 DEF DocumentInv

-----------------------------------------------------------------------------
(* The theorems *)

LEMMA BothStep ==
  HookInv /\ DocumentInv /\ [BothNext]_<<documents, vars, detailVars>>
    => HookInv' /\ DocumentInv' /\ KeptForPage /\ Detail!KeptForView
<1> SUFFICES ASSUME HookInv, DocumentInv, [BothNext]_<<documents, vars, detailVars>>
             PROVE  HookInv' /\ DocumentInv' /\ KeptForPage /\ Detail!KeptForView
  OBVIOUS
<1>1. CASE Detail!Next /\ UNCHANGED vars BY <1>1, DocumentStep, HookStutter
<1>2. CASE Next /\ UNCHANGED detailVars BY <1>2, HookStep, DocumentStutter
<1>3. CASE UNCHANGED <<documents, vars, detailVars>> BY <1>3, HookStutter, DocumentStutter
<1> QED BY <1>1, <1>2, <1>3 DEF BothNext

\* The two invariants hold in every state of the page's fetches.
THEOREM FetchesInvariant == BothSpec => [](HookInv /\ DocumentInv)
<1>1. BothInit => HookInv /\ DocumentInv BY HookInit, DocumentInit DEF BothInit
<1>2. HookInv /\ DocumentInv /\ [BothNext]_<<documents, vars, detailVars>>
        => (HookInv /\ DocumentInv)'
  BY BothStep
<1> QED BY <1>1, <1>2, PTL DEF BothSpec

\* When no topology run is in the air, the findings on the panel are those of the last run
\* asked for, unless it failed or Clear was pressed during a run.
THEOREM FindingsAreLast == BothSpec => []FindingsOfLastRun
<1>1. HookInv => FindingsOfLastRun BY DEF HookInv, RunInv, FindingsOfLastRun
<1> QED BY <1>1, FetchesInvariant, PTL

\* What a mounted caller of a lazy hook wants and does not have is being fetched, unless
\* the last fetch failed, LULC has no city, or an LULC or LADM fetch was aborted under it.
THEOREM IdleByCause == BothSpec => []IdleOnlyIfFailedOrDropped
<1>1. HookInv => IdleOnlyIfFailedOrDropped
  BY DEF HookInv, Served, Named, OneDoc, IdleOnlyIfFailedOrDropped
<1> QED BY <1>1, FetchesInvariant, PTL

\* A caller of useEnsureDetail that has no document waits for a fetch in the air, unless the
\* last one failed or belonged to a caller that went away while others waited.
THEOREM WaitsByCause == BothSpec => []WaitsOnlyIfDropped
<1>1. DocumentInv => WaitsOnlyIfDropped BY DEF DocumentInv
<1> QED BY <1>1, FetchesInvariant, PTL

\* A cached building document never falls back behind a save the form has been answered,
\* unless a fetch begun before the answer was still in the air.
THEOREM SavedStaysCached == BothSpec => []SavedStays
<1>1. DocumentInv => SavedStays BY DEF DocumentInv, Fresh
<1> QED BY <1>1, FetchesInvariant, PTL

\* What a fetch leaves in a cache belongs to the project that is open when it lands.
THEOREM AnswersAreOwn == BothSpec => AnswersOwnPage
<1>1. HookInv /\ DocumentInv /\ [BothNext]_<<documents, vars, detailVars>>
        => [KeptForPage /\ Detail!KeptForView]_<<vars, detailVars>>
  BY BothStep
<1> QED BY <1>1, FetchesInvariant, PTL DEF BothSpec, AnswersOwnPage
=============================================================================
