# A TLA+ development of AERO-VIEW

AERO-VIEW is a three-dimensional cadastre viewer: a Next.js server with
PostGIS (or, without it, JSON snapshots) behind it, an optional Redis cache, a
React and CesiumJS client, and offline Python and Node tools that seed the
data. This directory models the parts of it whose correctness depends on the
order in which things happen as state machines, and the pure parts that others
rely on as functions; it checks both with TLC and proves theorems about the core
with TLAPS.

## The system

| Part | State it keeps | Operations | Talks to |
|---|---|---|---|
| Manual edit store, `lib/data/edits.ts` | per project: the parsed store in memory, a revision, a queue of mutations; `edits.json` on disk | `loadEdits`, `editsFor`, `allEdits`, `applyEdit`, `clearEdit`, the one-time adoption of `data/edits.json` | PATCH route, enrichment in `lib/db.ts` |
| Data access, `lib/db.ts` | pool, `dbUsable` and its cooldown, `scopeCache`, `fileCache`, memos keyed by the edit revision | `getBuildings`, `getBuildingDetail`, `queryPoint`, `getTopology`, `getLadmDoc`, `splitUnit`, ... | PostGIS, snapshots, edit store |
| Payload memo, `lib/http/payload.ts` | up to 256 compressed bodies under key and revision | `jsonPayload`, `invalidatePayloads` | every GET route |
| Detail cache, `lib/server-cache.ts` | up to 256 documents with a revision and a time limit | `cachedDetail`, `warmProject` | summary route |
| Shared cache, `lib/cache/*` | client and outage latches; Redis keys composed of project, backend and resource | `cachedDetail`, `cachedConflicts`, `cachedQueryPoint` | Redis, `lib/db.ts` |
| HTTP handlers, `lib/api/handlers.ts` | none | one function per route | all of the above |
| Unit register, `db/01_schema.sql`, `db/02_functions.sql` | units with status, `ulpin_lineage`, the LADM tables | `unit_split`, `ladm_backfill`, ... | `splitUnit`, seed scripts |
| Sessions, `lib/auth/session.ts`, `app/api/auth/*` | signed cookies; the sids revoked since the start | login, `/api/me`, logout | browsers, handlers |
| Access, `lib/auth/access-pure.ts` | none | narrow, redact, refuse | handlers |
| View store and address bar, `useViewStore` of `lib/store.ts`, `lib/url-state.ts` | selection, modes, layers, basemap; the query string | setters, clicks of `Picker`, controls of the panels, `serialise` and `parse` | layers, `DetailPanel` |
| Client documents, `useDataStore` of `lib/store.ts` | the collection; documents under their ids with flags of what is being fetched | `useEnsure*`, `useIndex*`, `put*`, `runTopology` | HTTP routes, layers, panels |
| Edit session, `useEditStore`, `BuildingEditForm`, `UnsavedBanner` | drafts by building, the open form, its messages | `beginEdit`, `setDraftField`, `save`, `discard` | PATCH route, client documents |
| Globe and tiers, `CesiumRoot`, `BuildingsLayer`, `BuildingsFarLayer`, `build-queue.ts` | Cesium primitives, builds cut in slices, the loading overlay | boot, retry, build, reshape, show and hide | client documents, view store |
| Other layers, picking, camera, `components/*`, `lib/cesium/*` | Cesium entities and primitives, the pose of the camera | drawing, picks, flights | client stores |
| Identifiers, `lib/ulpin.ts`, `db/02_functions.sql` | none | write, read, check, backfill | everything |
| Legal documents, `lib/ladm.ts`, `ladm_backfill` | the LADM tables | backfill, assemble, frame | `lib/db.ts`, the LADM tab |
| Topology, `lib/topology.ts`, `lib/geo.ts` | none | gaps, clearances, sections, insets | `lib/db.ts`, layers |
| Underground and sites, `lib/underground`, `lib/infra`, `lib/cesium/terrain.ts` | a cache of terrain fields | lanes, strata, placing | layers, panels |
| Section 22-A, `lib/section22a` | a file of entries | parse, place, answer, draw | `/api/section22a`, a layer |
| Detail panel and certificate, `DetailPanel.tsx`, `lib/deed` | none of their own | cards, totals, a PDF | client stores |
| Seed scripts, `scripts/*`, `db/*.sql` | the rows of the projects, one scope and staging tables for all, the snapshots and their registry | `seed.py`, its stages, the import, the export | PostGIS, snapshots |
| ML pipeline | files | run by an operator | snapshots |

What is hard in it: one Node process interleaves many requests at every
`await`; the edit store writes files that a crash may cut; three memos hold
documents under a revision that moves while they are built; transactions of the
unit register overlap under READ COMMITTED; the database and Redis come and go
between two steps of one read; the client starts, shares and aborts fetches
while the user moves on; a dozen setters of one store have to agree on what
excludes what, and a dozen layers written apart on what is on the screen; scenes
are built in slices while the data they show is edited; answers that set cookies
overtake one another; the seeding scripts commit step by step in tables that all
projects share; identifiers, documents and findings are computed twice, in SQL
and in TypeScript. `PROJECT.json` lists each place as a hazard, with the
properties that cover it.

What makes each part correct:

- Edit store: no edit in flight or acknowledged is lost; an acknowledged one
  survives a crash; every queued mutation is answered; the revision moves only
  with what is stored; the legacy store is adopted once and kept.
- Memos: what is served under the current revision is the current document.
- Unit register: an identifier is never reused; no space is lost but slivers and
  none has two holders; the lineage is complete; shares of the ground never exceed it.
- Reads: a document is labelled with the backend it came from and holds rows of
  its project only; an outage ends when the database is back.
- Wire: the bytes the memo counts are those it holds; a body goes to the caller it
  was built for; a browser that asked does not keep something older.
- Client documents: the document shown belongs to the project and the building on
  the screen; a fetch that was abandoned can be made again; a flag is up only
  while a fetch will lower it.
- View store: no sequence of setters makes the selection, the modes and the
  exclusions disagree; the card is the one of the last choice; a link restores
  what it recorded.
- Edit session: nothing typed is lost but by a decision of the user or a save.
- Globe: what is drawn is what the store holds; the tiers agree; the overlay ends;
  the layers agree with the selection; the camera is on it.
- Sessions: an active user stays in, and a session that was left stays out, as far as
  servers that share no memory can keep it.
- Identifiers: what is written is read back; a misread character is refused; both
  writers agree.
- Topology, legal documents, answers: both backends say the same; a caller is told
  what he may know and no more; shares of one thing sum to one.
- Panel, certificate: what is printed follows from the document.
- Seeds: the rows of a project are its own; one called ready is whole; one called
  generating is being generated.

## The modules

`EditData` holds the data of the edit store: records, stores, operations and
what an operation does to a store. A value of a field is the request that wrote
it, so that a lost update is visible.

`EditRegister` is the abstract promise to callers: mutations take effect one at
a time, are stored, acknowledged or refused; a restart falls back to what is
stored. It has no file, no cache and no queue.

`EditStore` is `lib/data/edits.ts` for one project. A step is one stretch of
JavaScript between two awaits or one effect of a file operation.

| Code | Model |
|---|---|
| `cache.get(slug)` | `warm`, `memory` |
| `edits.json` | `disk`: absent, torn or whole |
| `revs.get(slug)`, `migrationDone` | `rev`, `migrated` |
| `queues.get(slug)` | `queue`, its head running |
| `loadEdits` | `StartLoad`, `ReadFile`, then `FinishRead` or `MutateLoaded`; `MutateHit` when warm |
| `adoptLegacyStore` | `Access`, `BeginAdopt`, `EndAdopt`, `AdoptFails` |
| `persist` | `WriteTmp`, `Rename`, or `BeginCopy` and `EndCopy` |
| the end of `applyEdit`, its rejection | `Acknowledge`, `PersistFails` |
| the end of the process | `Crash` |

The file operations of a write are separate effects because a crash between
them matters: a plain write truncates the target first, a rename replaces it at
once. A torn file does not parse, and the code takes it for an empty store. It does the
same with any other error of a read, of a file that is whole too: with `ReadFails` TRUE
`access` and `readFile` may fail at any time, and `misread` is history, that a file that
was there was taken for absent.

`EditMemo` composes `EditRegister` with what is derived from the edits in the
same process: the collection memo (`editAwareCache`, `getBuildings`), the
payload memo (`jsonPayload`) and the warmed documents (`warmProject`). Each GET
is split where the route awaits: `StartFetch`, `CopyEdits`, `Fill`, `ReadRev`,
`TakePayload`, `PutPayload`. It uses the promise and not the mechanism, which
the refinement checked in `EditStore` justifies; the file operations would
multiply the states and change nothing for a memo.

`UnitRegister` models `splitUnit`, `unit_split` and the units' part of
`ladm_backfill` in PostGIS. A step is one statement, or a run of statements that
nothing else can tell apart: `Ask`, `Check`, `ReadSlot`, `ReadId`, `Insert`,
`CommitSplit`; `BeginFill`, `InsertTitles`, `InsertShares`, `CommitFill`. A
volume is the flat it lies in and the pieces taken since. The cut of a plan that is not
convex may give more than two pieces: those of 1 m² or less are dropped (`Slivered` are
the volumes where this happens), and then there have to be two (`Uncut` are those where
there are not, and the split fails). The unique constraints and the wait of an insert for a transaction that holds an equal key are in
`Unique` and `Waits`. All units have one titled kind and an owner; other kinds
only change which of them are counted.

`PristineReads` models how a request learns which backend answers for its
project and reads a pristine document (or the answer to a point query) through
the shared cache.

| Code | Model |
|---|---|
| `dbUsable`, the cooldown since `dbProbeFailedAt` | `usable`, `cool` |
| `scopeCache.get(slug)` | `scope[s]`: unset, none, own rows, all rows |
| the keys and values in Redis | `shelf`, by project, backend and resource |
| the memo of `jsonPayload` for documents | `memo` |
| `usingDb` | `UseLastProbe`, or `StartProbe` and `Probed` |
| `resolveProject` | `Start`, `List`, `AskRows`, `Count` |
| `scopeFor`, `resolveScope` | `StartResolve`, `Resolved` |
| `scopedPrefix`, `readPristine`, `viaDb` | `ComposeKey`, `Hit` or `Miss`, `Load`, `QueryAnswers` or `QueryFails`, `Put` |
| `baseHeaders`, `jsonPayload` | `BaseHeaders`, `Pack` |

A body is abstracted to the backend it came from and the project whose rows it
has. The scope is asked for four times in one request (gate, key, query,
header), each time with an await in front of it, and the model keeps all four.
A starved pool and a database that is gone are the same outage, because the code
treats them the same.

`DetailStore` models the building documents of the client: `useEnsureDetail`,
the components that call it, the view state that decides who asks for what, and
the saves of the edit form.

| Code | Model |
|---|---|
| `projectSlug`, `mode`, `activeBuildingId`, `gis2d`, `preGis2d` | `view` |
| the dependency list of each caller's effect | `deps` |
| `detail`, `detailOrder`, `pendingDetail` | `detail`, `order`, `pending` |
| the requests that fly, and who holds the cleanup | `fetches` |
| `editingId`, the PATCH in the air | `editing`, `saving` |
| the effect of `useEnsureDetail`, its cleanup, `touchDetail` | `React` |
| `selectBuilding`, `isolateFloor`, `setGis2d`, `resetView` | `Select`, `Isolate`, `Toggle2d`, `ResetView` |
| `putDetail` with its eviction | `Put` |
| mounting and leaving a project, the scene, a layout regime | `Open`, `Leave`, `SceneReady`, `Relayout` |
| `beginEdit`, `cancelEdit`, `save` and its answers | `BeginEdit`, `CancelEdit`, `Save`, `SaveLands`, `SaveFails` |

A step is one event of the browser with all that React does because of it: an
update of a store is rendered synchronously, the effects whose dependencies
changed are cleaned up, all of them before the first one runs again, and they
run in the order of the tree. The rejection of an aborted request is a microtask
and belongs to the step too. The callers that ask under the same condition and
stand side by side (`FloorStackLayer`, `UnitsLayer`, `ElevationRuler`) are one,
and so are the modes `floor` and `unit`, which no caller tells apart. A document
is abstracted to the project it belongs to and the saves it contains. `acked`,
`failed`, `dropped` and `overtaken` are history.

`ViewStore` models the view store of the client, the address bar and the card.

| Code | Model |
|---|---|
| `useViewStore` | `view` |
| its setters | operators from the old state to the new one: `SelectBuilding`, `IsolateFloor`, `OpenUnit`, `LeaveGis2d`, `SetGis2d`, `SetExplode`, `SetSlice`, `SetUnderground`, `ResetView`, ... |
| `serialise`, `parse`, `hydrate` | `Serialise`, `Parse`, `Hydrate`; a reload is `Reopened` |
| which card `DetailPanel` shows | `Card` |
| the pick handler of `Picker.tsx` | `ClickBuilding`, `ClickFloor`, ..., `ClickNothing` |
| the panels | `PickFromList`, `Ladder`, `ToggleGis2d`, `Strata`, `Explode`, `Reset`, ... |
| `/api/me`, `CitizenAutoFrame` | `role`, `session`, `frame`; `Me`, `Frame`, `Pinned` |

A flat is `<<building, level>>`. `chosen` is history: what the user chose last.
Links are untrusted text, so one may name a level or a flat without a building, or a
building the collection does not have. Style and time of day have no say in any of the
properties and are left out; the camera is in `Globe`.

`EditSession` models what is typed into the form of a building until it is saved.

| Code | Model |
|---|---|
| `useEditStore` | `edit`; its setters `BeginEdit`, `CancelEdit`, `SetDraftField`, `SetFieldErrors`, `SetFormError`, `FinishSave` |
| the viewer and the card on screen | `page`, `shown`; `Open`, `Leave`, `Reload`, `Select` |
| the form | `Edit`, `Type`, `Cancel`, and a save: `RefusedHere` or `Send` |
| the PATCH | `request`; `TakeEffect`, then `Saved`, `RefusedThere` or `Fails` |
| `UnsavedBanner`, the saved notice | `Return`, `Discard`, `Fade` |

What is in a field is what validation says of it and, as history, the project it
was typed in. `DetailStore` has the same form only as far as it holds documents.

`Scene` models how a collection gets into the scene: `visits` are the boots of
`CesiumRoot`, which are closures and outlive their page; `retries` those of
`DataErrorNotice`; `store` is the part of `useDataStore` they write; `near` and
`far` are the two tiers of buildings, built a slice a frame (`NextSlice`,
`FarDone`) while edits reshape single buildings (`Edit`) and the user shows and
hides them (`Toggle`).

`OnDemand` follows one of the eight other fetches of `lib/store.ts` at a time
(`hook`): parcels, register, plot, site, index, land use, LADM, topology. They
share nothing but the page, so following one loses nothing. `React` is the effect
of a hook with its clean-up; what tells the hooks apart is in `Deps`, `Aborts`,
`Cleared`, `Free` and `Put`. `failed`, `dropped` and `cleared` are history.

`Wire` models what `EditMemo` leaves out of the payload memo: the key with the
caller's tag, the least recently used order, the bytes counted beside the map,
the ETag and the 304, and the HTTP cache of the browser.

| Code | Model |
|---|---|
| `cache` of `lib/http/payload.ts`, `cachedBytes` | `memo` (the least recently used first), `cachedBytes` |
| `serve` | `Load`, `ReadRev` |
| `take`, `put`, `evictIfNeeded` | `TakeHit`, `TakeMiss`, `Put`, `Enter`, `Evicting`; `Counts` sums what the map holds |
| `etagFor`, `negotiate`, the 304 | `Etag`, `enc`, `Answered` |
| what the headers let a browser keep | `kept`; `Fetch`, `Arrive`, `Lapse` |

`Layers` and `Globe` add the rest of the screen to `ViewStore`. `Layers` holds the
show condition of each layer as a function of the view store and the choice of
`Picker` among the things one ray meets (`PickTag`). `Globe` adds the camera of
`CameraDirector.tsx` and what it reads of `useDataStore`:

| Code | Model |
|---|---|
| the collection, the site index, the documents | `data`; `Collect`, `SitesArrive`, `DocumentArrives` (with the document it may evict) |
| `ready` of the context of `CesiumRoot` | `ready`; `Settle` |
| the pose of the camera | `camera`: what it was flown to last |
| `gis2dReturnRef` | `gis2dPose` |
| the effect and its dependencies | `Fly`, `Framing`, `Subject`; `Watched`, `Follow`, `Mount` |

`Framing` has the branches of the effect in their order, with those that fall back: an
active site that is not in the index, a building that is not in the collection (no
flight), a flat or a level whose document has not come (its building), the underground
view without either (the area). Poses that are not finite are the constant `Unposable`,
and those flights are refused. `given` is history: the last run gave the kept pose
back. Turns of the camera by hand or by the auto-spin, and a flight that is cut short by
the next one, are left out.

`MCFetches` puts `DetailStore` and `OnDemand` under one page: a behaviour follows
either the documents or one of the other hooks, which share nothing else.

`Sessions` models the cookie from the login to its end.

| Code | Model |
|---|---|
| `makeCitizenSession`, `makeGovSession`, `buildSetCookie` | `MakeSession`, `Refreshed`, `SetCookie` |
| `decodeSession` | `Accepted` |
| the routes | `Login`, `Me`, `Logout` |
| the browser that sends, takes or loses an answer, in any order | `Send`, `Arrive`, `Lose` |
| `_secret`, `_revoked` of each instance of the server | `Key`, `revoked`; `life` counts its processes |
| time, a new process in the place of an instance | `Tick`, `Restart` |

Any of the `Instances` may serve any request, and they share no memory: a logout
revokes at the instance that carries it out and is forgotten with that process. They
share `SESSION_SECRET` where it is set; where it is not, each process draws a key of its
own, or in production refuses to sign or to accept. A signature is the key it was made
with. `seen`, `left` (whose logout, at which instance, in which of its lives) and
`overtaken` are history.

`Seed` models the runs of `seed.py`, of its stages by themselves and of
`import_survey_parcels.py`. A run is the list of its steps, each a `psql` process
or a file of its own; a tool may fail and a run be killed between two of them, or
in the middle of a file: the extract, the heights or a snapshot. A stage refuses inputs
that are absent or do not parse (`Passes`). Rows are abstracted to the project and the run they were
made from, so that rows of another project are visible. What the steps compute is
in functions: `Plots` (footprints to parcels, survey parcels and their joins, as
sets of squares), `Cadastre` (the rows, their numbers and heights),
`Attributes` (rings, ground, storeys, hazards) and `Streets` (names and ids).
`MCSeed` checks them.

The other modules hold no state. They are checked by ASSUMEs, which TLC evaluates
over every input of a small set before it starts a run:

| Module | Code | Checked in |
|---|---|---|
| `Ulpin3D`, `Ulpin` | `lib/ulpin.ts`, its twins in SQL | `MCUnitRegister` |
| `Plots`, `Cadastre`, `Attributes`, `Streets` | `scripts/*`, `build_geometry.sql`, `utilities.sql`, `survey_parcels.sql` | `MCSeed` |
| `Rings` | `lib/geo.ts`, the plane part of `lib/topology.ts` and `lib/cesium` | `MCPristineReads` |
| `Topology` | `lib/topology.ts`, `getTopology` and `queryPoint` of `lib/db.ts` | `MCPristineReads` |
| `Underground` | `lib/underground`, `lib/infra/build.ts`, `lib/cesium/terrain.ts` | `MCPristineReads` |
| `Api` | `lib/api/handlers.ts`, `lib/auth/access-pure.ts`, the sign-in routes | `MCPristineReads` |
| `Ladm` | `ladm_backfill`, `getLadmDoc`, `lib/ladm.ts`, `LadmTab.tsx` | `MCPristineReads` |
| `Section22A` | `lib/section22a`, its route, layer and card | `MCPristineReads` |
| `Panel` | `DetailPanel.tsx` | `MCPristineReads` |
| `Deed` | `lib/deed`, `lib/datum.ts`, `DeedButton.tsx` | `MCPristineReads` |

What these abstract:

- Identifiers: a character is its value in the alphabet of the check character, a
  text the sequence of the groups between its hyphens; letters are upper case.
- Geometry: whole units. Distances are squared fractions; insets and sections are
  of rings whose edges run along the axes, lanes of straight runs, so that no
  number has to be rounded.
- `Api`: a route is the sequence of its refusals in the order of the handler, a
  document a function from its fields, an identifier what its grammar reads of
  it, a number of a query string a number of halves.
- `Ladm`: rows are sets, the order of SQL is left out.
- `Panel`, `Deed`: a row is its label, its value and the chip beside it; wording
  and formats are left out, and a text that wraps is its number of lines.

The ASSUMEs stand in the MC modules after the constants of the run they precede.

`EditStoreProofs`, `EditMemoProofs`, `UnitRegisterProofs`, `PristineReadsProofs`,
`WireProofs`, `FetchesProofs`, `ViewerProofs` and `SeedSessionsProofs` (the sessions and
the seeding scripts, which share nothing) hold the theorems; those of `Api` are in
`WireProofs` and that of `Topology` in `PristineReadsProofs`. The modules that begin with `MC` give the constants values for TLC; `Sessions` needs
none. `MCFetches` and `MCViewer` hold several parts of the client that share nothing
the models tell apart (the hooks and the documents; the view with its layers, the
form, the scene): a run follows one of them while the others stay as they began.

Definitions that begin with "Mutant of" in their comment are plausible bugs.
They are used nowhere; putting one in the place of the definition it names
breaks the property `PROJECT.json` lists for it.

## The runs

| Run | Bounds | Shows |
|---|---|---|
| `edit_store` | 3 requests, 1 reader, 1 building, 2 fields, 1 crash, failing writes, a legacy store, reads that do not fail | no lost update, durability, and that `EditStore` implements `EditRegister` |
| `edit_store_faults` | 2 requests, 1 reader, refused renames, reads that fail, a legacy store, no crash | every mutation is answered; the adopted edits are kept |
| `edit_memo` | 2 saves, 2 GETs, restarts | which stale answers the memos can give |
| `unit_register` | 2 flats on one floor, 3 splits, 1 backfill, slots up to 5; two volumes whose cut leaves slivers, two that cannot be cut | identifiers, space, shares and answers; the ASSUMEs of the identifiers |
| `reads` | 2 requests, 2 projects (one held by both backends, one by PostGIS only), 2 outages, any flips of Redis, expiry, restarts | the label and the rows of what is served or kept, and that the database is used when it can be; the ASSUMEs of `MCPristineReads` |
| `wire` | 1 collection, an anonymous caller and a citizen, two encodings, 2 requests, room for 2 entries and 3 bytes, 2 saves, the last with the digest of the first body | the bytes counted, whose body an answer is, and why it may be old |
| `fetches` | 2 projects with the same ids; documents: 2 buildings, room for 1, 1 save; hooks: 3 ids, a cap of 2, 3 asks | who may wait and why, saved documents, flags, findings, no answer in another project's page |
| `view` | 2 buildings, 2 levels, one of every other thing, 7 links, at most 1 of seven settings away from its default (2 for a site or a cut under the ground), data that arrives in four stages | which card is shown, what a reload keeps, what is drawn, how a view gets incoherent, the plan, the camera |
| `edit_session` | 2 projects with the same 2 buildings, 2 fields, 3 fields typed in | what becomes of a draft |
| `scene` | 2 projects, 2 buildings, a first slice of 1, 2 heights, 2 visits | what is drawn, and that the overlay ends |
| `sessions` | 2 instances, each started again once; 3 requests of one browser, 2 in the air, a window of 2 and a ceiling of 3 in a time of 4; the secret set, drawn or missing | who is signed in |
| `seed` | 2 projects and one of the registry alone, 3 runs, 1 fault | whose rows a project holds, what ready and generating mean; the ASSUMEs of `MCSeed` |

Why the bounds are enough. Three requests give one in flight, one waiting and
one that comes after a failure or a crash; two fields separate merging from
replacing; one building is enough because operations on different buildings
touch different records of one file, which the proofs cover for any number. Two
GETs are the two that race for one slot of a memo. Three splits give two that
race and one that comes between or after them, of the parent or of a child;
five slots let a floor run out; a flat
that leaves slivers, a piece of one that does, and a piece of each that cannot be cut
are the ways a cut can end. Two requests of `reads` are one that leaves
something behind and one that meets it, or two that resolve one scope at once;
the second outage lets a probe fail again after a recovery. The demo project and
one without a snapshot are the two kinds the code tells apart. Two entries and
three bytes let `wire` evict by count and by bytes, and two saves make a body
that was current, one that replaced it, and one whose ETag is the first one's.
Room for one document makes every second document evict another, as the
forty-ninth does in the code; two buildings give the one shown and the one left,
and two projects with the same ids the confusion of one with the other. A card
depends on which kinds of thing are chosen, never on how many there are of a
kind, and a basement and a storey above the ground floor are what tell a floor
from its building and what is under the ground from what is over it;
`FewSettings` cuts combinations of settings that do not read each other, beside
the 2D view, and keeps a site or a cut (explosion or section) under the
underground view; the second building is selected without its floors, and its pose is
the one that is not finite. The collection is absent or whole, the sites come before the
documents, and of these the first building's, an evicted or a missing one is followed:
while something is still to come only the ladder, the site, the underground view and the
2D view are (`Plain`), all else when it is there (`Arrived`). `MCLinks` has
a link of each kind `parse` tells apart: none, a building, a level and a flat without
one, the underground view with and without the layers named, a building with a floor and
a flat; a store that a level or a flat without its building has left (`Alone`) is
followed with no setting away from its default. Two
visits of `scene` are one that is left and one that finds what it left; a slice
of one of two buildings leaves a building for a later frame. Three requests of
`sessions` are a login, a refresh and a logout, two in the air overtake each other, two
instances are the one that carried out the logout and one that did not, and a ceiling between one window and two is passed
by refreshing. Three runs of `seed` are two that meet, or one that fails, and a
third that finds what they left. `Seed` itself bounds neither; to keep the run small
the action constraint `FewMeetings` of `MCSeed` lets only the second run begin beside
another and none once two have met, only the second be a stage by itself, and no tool
fail and no run be killed once two have met. The theorems hold without it.

`edit_store` is checked with `ColdOverlap`, `RenameFails` and `ReadFails` FALSE: with any
of them an acknowledged edit can be lost (`PROJECT.json` says how among the findings),
and the run and the theorems say what holds otherwise. Properties whose names end
in `OnlyBy`, `OnlyIf...` or `Only...` (`MemoStaleOnlyIfSpanned`,
`PayloadStaleOnlyIfInherited`, `OverlapOnlyByRace`, `MislabelledOnlyByFailure`,
`ForeignRowsOnlyInDemo`, `WaitsOnlyIfDropped`, `CoherenceLostOnlyBy`,
`DraftLostOnlyBy`, `ForeignOnlyAfterFailure`, `IdleOnlyIfFailedOrDropped`,
`StaleOnlyBy`, `SpaceLostOnlyInSlivers`, `OutUnlessForgotten`) bound the damage in the same way: they name
the only causes that do it, most of them with history variables that no action
reads. They do not catch the causes they name: where the hazards of `PROJECT.json` name
one, a note says so. `RowsAreOwn`, `ReadyIsWhole` and `GeneratedBySomeone` do so for the
seeds, whose scope and staging tables two runs share.

Some properties are stated as the comments of the code have them, fail, and have
no run: `SplitOnce` and `SharesSumToOne` (`UnitRegister`), `NeverMislabelled` and
`OwnRowsOnly` (`PristineReads`), `NobodyWaitsInVain` and `ShownIsOwn`
(`DetailStore`), `ResetShowsArea` (`ViewStore`), `SentWhereTyped`
(`EditSession`), `AllDrawn` (`Scene`). `PROJECT.json` lists among the findings
what happens instead, and what the functions show: there an ASSUME states what
the code computes, and the finding quotes the comment that says otherwise. The
type invariants of the modules are stated for a reader and for the proofs, and
none of them is in a run.

Fairness. `EditStore!FairSpec` assumes that the event loop runs every
continuation and that every file operation ends, weakly, for loads and for
mutations; a request or a reader need never arrive. `UnitRegister!FairSpec`
assumes that the server runs the next statement of a transaction that does not
wait. `Scene!Spec` assumes that boots and retries are answered, well or badly,
and that animation frames come while there are slices left. Nothing is assumed of
crashes, failures or users.

The other modules state no liveness. A GET of `EditMemo`, `PristineReads` or
`Wire` may be abandoned at any point, and nothing waits for it. An answer to the
client or to the browser may never come, and that somebody waits only for what is
on its way is an invariant of `DetailStore` and `OnDemand`. A run of `seed` may be
killed, and `GeneratedBySomeone` says what the code promises instead. Deadlock is
checked in `wire`, where a browser can always ask; the other configurations say
`CHECK_DEADLOCK FALSE` because requests, splits, visits, asks and runs are finite
in number and the system rests when all are used up.

## The proofs

`EditStoreProofs` proves, for any requests, readers, buildings, fields, flags
and number of crashes:

- `TypeCorrect`: type correctness and that only the head of the queue runs.
- `ReadsKeep`, `AckedIsDurable`, `RevNamesStored`: no lost update, durability
  of what was acknowledged, and that the revision rises only when memory and
  disk agree, under `Benign`: no overlapping cold loads, no refused renames, no reads
  that fail.

- `LegacyIsKept`: what was edited before the multi-project layout is in what
  every read returns, field by field, until a request decides the field, under
  `Undisturbed`: no overlapping cold loads, no reads that fail, no crash and no failing
  write inside the adoption, which writes its target in place (the findings say what
  each of the last two loses). Renames may be refused.

None of the invariants is inductive. `ReadsKeepEveryEdit` speaks of the memory, which
a load replaces by the file and a crash forgets, so it has to be known of the
file for what was stored, of what a load has read, and of the object the running
mutation is about to write; and one needs that only the head of the queue runs,
that nothing in memory is lost by a load because a load runs only on a cold
cache, and that effects are numbered in the order they happen. The conjuncts of
the strengthening are named in the module, one lemma shows that applying an
operation keeps every decided field decided, and the step theorem has one case
per action.

For `LegacyKept` one has to know where the earlier edits are while nothing is
cached. `LegacyInv` says that the file is the legacy one, or there is no file and
the load under way is about to adopt it; each phase of a load has its conjunct.

The last part of the module proves `StoreImplementsRegister`: under the same
conditions every behaviour of `EditStore` is one of `EditRegister` under its
refinement mapping. The steps before and after the write map to stuttering, the
write and the failure to the register's own steps; what has to be added to the
invariants above is `AdoptInv`: a file that is not whole reads as an empty store,
and an adoption under way has such a file before it.

`EditMemoProofs` proves, for any requests, readers, buildings and fields,
`MemoStaleByCause`, `PayloadStaleByCause` and `ShelfIsCurrent`, with
`MemoTypeCorrect`. The notion the proofs turn on is `Fresh(body, at)`: a body
copied under revision `at` or later is what is visible now, if `at` is the present
revision and no save is half way. It is kept because a revision begins settled
and, once a save has taken effect under it, is not settled again before the next
one. `MemoInv` says that every copy is fresh wherever it is: with a reader in each
of its phases, in the memo, in the payloads and on the shelf.

`UnitRegisterProofs` proves, for any flats, floors, slots, splits and backfills,
`OverlapsAreRaces`, `SpaceIsKept`, `SharesAreWhole`, `IdentifiersAreForever` and
`UnitTypeCorrect`. The strengthening `UnitInv`: of two different units of which
one holds the other the outer one is retired, or it lies under a unit divided
twice, and then both of those splits had seen it active before either committed
(`Disjoint`); a retired unit has both of the larger pieces of its cut among the units (`Divided`); a split
in the air has read what the committed rows still allow; what a backfill counted
is what it inserted or less (`Filled`). Ids and slots are bounded by the commits
counted in `clock`, and so is the length of a path to a volume:
`SpaceLostOnlyInSlivers` looks at every piece of that length, slivers included, and
finds it in an active unit or in what a committed split dropped.

`PristineReadsProofs` proves, for any requests, projects, outages, probes,
failures of Redis and restarts, `LabelsAreTrue`, `OthersRowsOnlyInDemo` and
`CleanIsAnswered`. `ReadsInv` says of each request what it knows in each of its
phases (`KnowsScope`, `Labelled`, `CarriesOwn`, `StaysClean`), and of each project
that its scope is resolved by one request at a time (`ResolvedOnce`) and that what
is kept under its name agrees with it (`KeptTruthful`, `KeptOwn`), unless two
requests resolved it at once.

`FetchesProofs` proves, for any projects, ids, saves and room in the caches,
`FindingsAreLast`, `IdleByCause`, `WaitsByCause`, `SavedStaysCached` and the action
property `AnswersAreOwn`. Its two invariants, `HookInv` for the hooks of `OnDemand`
and `DocumentInv` for `DetailStore`, say that a fetch in the air is still asked
for: the effect that began it last ran for its id and its project, or has been
cleaned up since, and then the fetch was aborted. The exception is a save
answered in between, which makes the clean-up leave the fetch alone; what such a
fetch brings is marked as older than the save. The order of use of the documents
is a sequence without repetitions, and what is taken out of it (`Without`) is
shown to be out of it by a least counterexample.

`ViewerProofs` proves of `EditSession`, for any projects, buildings, fields and number of
keystrokes, `SessionTyped`, `KeptIsKept` and `NoDraftLost`: "Your changes have
been kept" is true while it is shown, and a draft is lost only by the steps
`DraftLostOnlyBy` names. The strengthening is `DraftHeld`: the form of a save in
the air is still open with the draft that was sent, because every way to close or
to alter it but the banner's Discard is disabled meanwhile.

`ViewerProofs` proves of `Scene`, for any number of buildings, size of the slices,
edits and visits, `DrawnIsStored` and `ForeignByCause`. The strengthening speaks of a build that is not finished: the buildings
before the next slice are drawn, at the height the store has now, and those after it
have in the captured collection the height the store has, unless they were edited
meanwhile (`NearSound`); a primitive that is still being built was begun under the
visibility of now, or the user has changed it since (`FarSound`); and a boot that has
answered but not mounted has its own collection in the store (`Owned`). That a build
after the first one of a mount draws nothing (`AllDrawn`) is why `NearAsStored` is
about the first.

`ViewerProofs` proves of `Globe`, with the whole of `ViewStore` under it, for any
buildings, levels, services, plots, entries and links and whatever data arrives when, the six properties of the run
`view`: `CardFollowsChoice`, `BarRestores`, `ChosenIsDrawn`, `IncoherentByCause`,
`PlanStaysFlat` and `CameraFollows`. `Coherent` is not an invariant of the store (the
run shows how it is lost), so the strengthening is what is left of it after any
sequence of steps, `SoundStore`: a component has its site, the 2D view the building it
was entered with, and another building there has no floor or flat. A mode, a level and a
flat have their building only where the store is coherent (`CoherentBuilding`), because
a link may name them alone. One lemma for each setter shows that
it keeps that and `Coherent` too, or names when it does not (`Keeps`). `Answers`
says that what was chosen last is in the store and that what would mask its card is
not. `CameraOnSubject` is inductive with these (`GlobeInv`): `CameraStep` shows it for
a run of the effect and for a step that changes nothing it watches, `DataStep` for what
arrives.

`WireProofs` proves, for any callers, resources, sizes and limits,
`AnswersOwnCaller`, `StaleByCause` and `BytesAreCounted`: no answer, kept body or 304
shows a caller a body built for another, an old body has one of the causes
`StaleOnlyBy` names, and the count beside the memo is what the memo holds. The
strengthening says the same of every place a body can be: the memo (`MemoSound`), a
request half way (`RequestSound`), a browser's cache (`KeptSound`). The count needs
no more than their types: that no key is held twice is why what a replaced or an evicted
entry is taken off by is what it added. What it needs is the
sum of a sequence, which the model says with a recursive function (`Counts`, the bytes of
the first so many entries), so that what appending, cutting off the oldest and taking out
one entry do to it can be shown for every length, each time by the least place where a
claim fails.

The second half of `WireProofs` is about `Api`, for any world, request and register.
A route is a sequence of refusals; `OneAfterAnother` says when two of them in a row let
a request through, which gives the exact conditions of each route. `ForeignAlike`: a
resident who asks for another building is answered 404 whatever there is behind it.
`OfTheirOwn` and `WritesOfOne`: exactly when a document, a collection, an edit and a
split are answered as a success. `NarrowedOnce`: narrowing a document again changes
nothing. `PrivateOfOne`: a private field of a volume is served to a resident only if the
volume is their flat or the bay on the title of the first of their flats, an identity of
the fabric to nobody, and every field with the recorded value. `RegistersAlike`: two
registers that differ only in the plot and in what is private of other people's volumes
give a resident one and the same document. `PagesReachAll`: a reader who goes on by the
limit the answer names meets every volume on exactly one page. Their hypotheses: a
document's volumes are numbered and have a storey each, a resident's session names a flat,
and `None` is no number.

At the end of `PristineReadsProofs`, `CloserIsDistance` justifies an abstraction of
`Topology`: it keeps distances squared where the code takes roots, and compares them alike
for every gap that is a fraction.

`SeedSessionsProofs` proves of the sessions, for any instances, window, ceiling, number of requests and of
restarts, `AgeAgreesAlways` (a cookie that is not expired is never refused as too
old), `ActivityCounts` and `LogoutLasts`. The strengthening speaks of every
cookie there is, in the browser and on its way in either direction: it is younger
than the ceiling (`Sound`), and where an instance that carried out the logout of its
session still has the key, it has the revocation too (`Dead`), because without a shared secret every session has one key
(`OneKey`) and a logout is remembered while its process lives (`Remembered`); a login that is not answered names a session nobody has
heard of (`Unborn`); an answer's lifetime counts from when it was given
(`Timely`), and the browser's cookie expires a window after the last answer
unless answers overtook one another (`JarTimely`).

`SeedSessionsProofs` proves of `Seed`, for any projects, number of runs and of faults,
`SeedRowsAreOwn`, `SeedReadyIsWhole` and `SeedGeneratedBySomeone`, with `SeedTyped`. That rows are a
project's own says nothing of the run that is making them, so the strengthening,
`SeedInv`, says where every run is: two runs in the database have met (`InTwos`) and
their projects are marred (`Marks`); the scope is that of a run in the database, or of
one it has met (`Scoped`); and a run that shares the database with no other has, at
each of its steps, what its earlier steps made, in the staging, the rows and the files
(`Made`: `Seeded`, `Imported`, `Exported`). What an export carries to the registry is as
true as the table and the file it was read from (`Listed`), and an emptied registry is
about to be written by the run that emptied it (`LonerKept`). A run that starts alone
may meet another at any step, so each step is shown to keep what the other runs have
made: either it is in the database, and then no other run is clean (`Owner`), or it
touches nothing of theirs (`OthersKeep`).

`UnitRegisterProofs` also proves what the identifiers it prints promise, of every
length:
`SubstitutionCaught` and `ExchangeCaught` (a wrong character and two neighbours
exchanged change the check character), `RoundTrip` and `FmtAgrees` (what is
written is read back, and SQL writes the same), and `MisreadRefused` (an accepted
identifier with one wrong character is refused, wherever it stands). The check
character is the end of a recurrence; what it does for every length is shown by
the least place where a claim about it fails (`Least`), because the induction
theorems take an operator as a parameter. A step of the recurrence is injective
(`TakenInjective`), so a difference made at one place lasts to the end.

The assumptions are the ASSUMEs of the modules: distinct values, a non-empty set
of buildings, Boolean flags, readers that are not requests, a preferred encoding
that is one of the encodings, a window no longer than the ceiling, a natural
number of slots, and `None` outside the sets whose members it stands beside (ids,
projects, documents; for the seeds, rows, scopes and listings), and for `view` a home among the flats and links whose values are of
their kind. TLC evaluates them on each
run.

Every safety property of a run is proved. Only model-checked are the three liveness
properties (`EveryMutationAnswered`, `EverySplitAnswered`, `OverlayEnds`), because TLAPS
proves nothing of ENABLED and fairness, and what the ASSUMEs say of functions over small
inputs, but for those of `Api` and `Topology` above and of the identifiers. The library's induction
theorems take an operator, which the provers here cannot instantiate; where a proof is an
induction over data it goes by the least counterexample of a set (`Least`), which is why
those models use recursive functions and not the folds.

## What is left out, and why

Most of the lines the map does not name are styles, labels, forms, the texts of
queries, the geometry that is handed to Cesium, and scripts that write a snapshot
once.

- Two servers on one edit store: the code assumes one process (the queue is in memory).
  Sessions have several instances, as the comments of `lib/auth/session.ts` expect.
- The collection memo in `Wire`: a body loaded there is current when it is loaded;
  `EditMemo` has the memo.
- `EditMemo` starts on a project without edits; `EditStore` has the other cases.
- The latches of `lib/cache/redis.ts`, its TTLs and its flush, the time limit and
  the single flight of `lib/server-cache.ts`: in `PristineReads` Redis answers or
  does not, whatever came before.
- Materials, textures, the swap of the imagery and the photoreal tiles: what they
  show follows the view store, and what follows from it is looks.
- The geometry of a unit and of the demo tower, its fit-outs, the infrastructure
  specifications: long lists of measures, written once.
- `mintUlpin14` and the geohash it is made of: floating-point bisection.
- Component shapes and bearings of sites in real coordinates; rounding.
- The coercions of single fields in `lib/data/building-schema.ts`: pure, and tested one by one.
- The ML pipeline, and the scripts that check or measure the program.

## The plan

1. Done: the edit store with its promise and the refinement, the memos, the
   register, the reads, the wire.
2. Done: the client's documents, views, layers, camera, drafts, collections and
   fetches.
3. Done: the sessions, the seeding scripts, the identifiers with their proofs.
4. Done: the functions behind the answers, the documents and the cards.
5. Done of the proofs: the edit store and its refinement, the memos, the register,
   the reads, the wire, the fetches, the drafts, the scene, the view, the sessions, the
   seeds, the identifiers, who is answered what. Left: the functions of the geometry, the
   legal documents and the cards, which the ASSUMEs check.
6. Left of the models: the latches of the Redis client, the single flight of the
   warmed documents, the swap of imagery and photoreal tiles.
