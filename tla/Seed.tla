-------------------------------- MODULE Seed --------------------------------
(***************************************************************************)
(* The seeding scripts: scripts/seed.py with its stages, stages run by     *)
(* themselves, and import_survey_parcels.py.                               *)
(*                                                                         *)
(* A run is a list of steps.  Each call of pg.py is a psql process of its  *)
(* own, so a step commits by itself; the SQL files are transactions.  All  *)
(* runs share the scope (seed_ctx) and the staging tables of the database, *)
(* and the registry of the snapshots (data/api/projects.json).             *)
(***************************************************************************)
EXTENDS Integers, Sequences, FiniteSets

CONSTANTS Projects,
          Loner,    \* a project of the registry without a row in the database
          Nothing,
          Torn,     \* the content of a file cut off in the middle
          MaxRuns,  \* bound on the runs
          MaxFaults \* bound on tools that fail and runs that are killed

Runs == 1..MaxRuns

\* The scope; rows of the cadastre, of the utilities and of the survey plots: whose they
\* are and which rows they were made on.
Scopes == [of : Projects, offsets : BOOLEAN]

Cads == [of : Projects, run : Runs]

Utils == [roads : Projects \cup {Nothing}, on : Cads]

Lots == [roads : Projects \cup {Nothing}, on : Cads \cup {Nothing}, official : BOOLEAN,
         joined : Cads \cup {Nothing}]

\* What a registry says of each project.
Listing == [Projects \cup {Loner} -> {"none", "generating", "ready", "failed"}]

ASSUME SeedAssumption ==
  /\ Loner \notin Projects /\ MaxRuns \in Nat \ {0} /\ MaxFaults \in Nat
  /\ Nothing \notin Projects
  /\ {Nothing, Torn} \cap (Scopes \cup Cads \cup Utils \cup Lots \cup Listing) = {}

VARIABLES job,      \* the runs: what each is for and which of its steps is next
          extract,  \* the OSM extract of each project: raw buildings and highways
          heights,  \* its attributed buildings
          status,   \* projects.status
          ctx,      \* seed_ctx: the scope, and whether it has its offsets
          staged,   \* stage_building: of which project, and whether it has rows
          highways, \* stage_highway: of which project
          cad,      \* parcels, buildings, floors and units
          util,     \* utilities and conflicts
          plots,    \* survey parcels
          api,      \* the snapshot files
          registry, \* projects.json
          faults,
          marred,   \* history: projects worked on by two runs at once, by a stage
                    \* alone, or by an import before they were ready, since they
                    \* were last seeded whole
          cut,      \* history: projects whose last export has not come to its end
          silent    \* history: projects one of whose runs was killed, or failed without
                    \* saying so, since they were last ready

seedVars == <<job, extract, heights, status, ctx, staged, highways, cad, util, plots, api,
          registry, faults, marred, cut, silent>>

\* The files of an export in their order; the others are like these.
Files == <<"parcels.json", "survey_parcels.json", "utilities.json">>

FileSet == {Files[i] : i \in DOMAIN Files}

\* Mutant of Export: the project is ready before its files are written.
ExportReadyFirst == <<"publish", "ready">> \o Files \o <<"list", "merge", "write">>

Export == <<"publish">> \o Files \o <<"ready", "list", "merge", "write">>

Stage ==
  [fetch     |-> <<"fetch">>,
   heights   |-> <<"heights">>,
   cadastre  |-> <<"publish", "stage", "highways", "build">>,
   utilities |-> <<"publish", "lay">>,
   survey    |-> <<"publish", "highways", "plots", "join">>,
   export    |-> Export]

\* The stages that work in the database.
Alone == {"cadastre", "utilities", "survey", "export"}

Steps(kind) ==
  CASE kind = "seed" -> Stage.fetch \o Stage.heights \o Stage.cadastre \o Stage.utilities
                          \o Stage.survey \o Stage.export
    [] kind = "import" -> <<"publish", "load", "join">> \o Stage.export
    [] OTHER -> Stage[kind]

Idle == [of |-> Nothing, kind |-> Nothing, at |-> 0, in |-> FALSE, met |-> FALSE, listed |-> Nothing]

SeedInit ==
  /\ job = [r \in Runs |-> Idle]
  /\ extract = [p \in Projects |-> "absent"] /\ heights = [p \in Projects |-> "absent"]
  /\ status = [p \in Projects |-> "none"]
  /\ ctx = Nothing /\ staged = Nothing /\ highways = Nothing
  /\ cad = [p \in Projects |-> Nothing] /\ util = [p \in Projects |-> Nothing]
  /\ plots = [p \in Projects |-> Nothing]
  /\ api = [p \in Projects |-> [f \in FileSet |-> Nothing]]
  /\ registry = [p \in Projects \cup {Loner} |-> IF p = Loner THEN "ready" ELSE "none"]
  /\ faults = 0 /\ marred = {} /\ cut = {} /\ silent = {}

-----------------------------------------------------------------------------
(* Runs *)

disk == <<extract, heights, api, registry>>
scope == <<ctx, staged, highways>>
rows == <<cad, util, plots>>
told == <<faults, marred, cut, silent>>

Active(r) == job[r].at # 0

Of(r) == job[r].of

Step(r) == Steps(job[r].kind)[job[r].at]

At(r, step) == Active(r) /\ Step(r) = step

Ended(j) == [j EXCEPT !.at = 0, !.in = FALSE]

\* The run comes to its next step, or to its end.
Forward(j) == IF j.at < Len(Steps(j.kind)) THEN [j EXCEPT !.at = @ + 1] ELSE Ended(j)

Done(r) == job' = [job EXCEPT ![r] = Forward(@)]

\* What comes after a publish, which is never the last.
Following(r) == Steps(job[r].kind)[job[r].at + 1]

\* Two runs have worked in the database at once.
Met == \E r \in Runs : job[r].met

\* The other scripts make the row of the project; an import asks for it.
Start(r, p, kind) ==
  /\ job[r] = Idle /\ \A s \in 1..(r - 1) : job[s] # Idle
  /\ kind = "import" => status[p] # "none"
  /\ job' = [job EXCEPT ![r].of = p, ![r].kind = kind, ![r].at = 1]
  /\ UNCHANGED <<disk, status, scope, rows, told>>

Ends(r) == job' = [job EXCEPT ![r] = Ended(@)]

\* Mutant of FailedStatus: seed.py only exits.
StatusLeft(r) == status

\* seed.py marks the project of a stage that failed; a stage run alone and an import
\* leave the status as it is.
FailedStatus(r) ==
  IF job[r].kind = "seed" /\ status[Of(r)] # "none"
  THEN [status EXCEPT ![Of(r)] = "failed"] ELSE status

\* What a step asks of the files and the rows before it changes anything: 03 and
\* survey_parcels.py parse theirs before they publish the scope.
Passes(r) ==
  LET p == Of(r)
      parsed == extract[p] \notin {"absent", "torn"}
  IN CASE Step(r) = "heights" -> parsed
       [] Step(r) = "publish" ->
            /\ Following(r) = "stage" => extract[p] # "torn" /\ heights[p] \notin {"absent", "torn"}
            /\ Following(r) = "highways" => parsed
       [] Step(r) = "build" -> ~ctx.offsets
       [] Step(r) = "lay"   -> cad[ctx.of] # Nothing
       [] OTHER -> TRUE

\* A gate refuses or a tool fails, and the status is changed if the database answers.
Fail(r) ==
  /\ Active(r)
  /\ \/ ~Passes(r) /\ faults' = faults
     \/ faults < MaxFaults /\ faults' = faults + 1
  /\ Ends(r)
  /\ \/ status' = FailedStatus(r) /\ job[r].kind = "seed" /\ UNCHANGED silent
     \/ UNCHANGED status /\ silent' = silent \cup {Of(r)}
  /\ UNCHANGED <<disk, scope, rows, marred, cut>>

\* A run is killed, perhaps in the middle of the file it is writing.
Kill(r) ==
  /\ Active(r)
  /\ faults < MaxFaults /\ faults' = faults + 1
  /\ Ends(r)
  /\ \/ UNCHANGED <<extract, heights, api>>
     \/ /\ Step(r) = "fetch" /\ extract' = [extract EXCEPT ![Of(r)] = "torn"]
        /\ UNCHANGED <<heights, api>>
     \/ /\ Step(r) = "heights" /\ heights' = [heights EXCEPT ![Of(r)] = "torn"]
        /\ UNCHANGED <<extract, api>>
     \/ /\ Step(r) \in FileSet /\ api' = [api EXCEPT ![Of(r)][Step(r)] = Torn]
        /\ UNCHANGED <<extract, heights>>
  /\ silent' = silent \cup {Of(r)}
  /\ UNCHANGED <<registry, status, scope, rows, marred, cut>>

-----------------------------------------------------------------------------
(* The extract *)

\* An extract that is present is left alone; what Overpass answers is written before
\* an empty answer ends the stage.
Fetch(r) ==
  /\ At(r, "fetch")
  /\ \E force \in BOOLEAN, found \in {"whole", "empty"} :
       IF extract[Of(r)] # "absent" /\ ~force THEN Done(r) /\ UNCHANGED <<extract, status>>
       ELSE /\ extract' = [extract EXCEPT ![Of(r)] = found]
            /\ IF found = "whole" THEN Done(r) /\ UNCHANGED status
               ELSE Ends(r) /\ status' = FailedStatus(r)
  /\ UNCHANGED <<heights, api, registry, scope, rows, told>>

Heights(r) ==
  /\ At(r, "heights") /\ Passes(r) /\ Done(r)
  /\ heights' = [heights EXCEPT ![Of(r)] = IF extract[Of(r)] = "empty" THEN "empty" ELSE "whole"]
  /\ UNCHANGED <<extract, api, registry, status, scope, rows, told>>

-----------------------------------------------------------------------------
(* The database *)

\* A stage by itself, or an import of what is not ready.
Patches(r) ==
  \/ job[r].kind \in Alone
  \/ job[r].kind = "import" /\ job[r].at = 1 /\ status[Of(r)] # "ready"

Beside(r) ==
  LET others == {s \in Runs \ {r} : job[s].in}
      these == IF others = {} THEN {} ELSE others \cup {r}
  IN /\ job' = [s \in Runs |->
                  IF s = r THEN [job[r] EXCEPT !.at = @ + 1, !.in = TRUE,
                                               !.met = @ \/ s \in these]
                  ELSE [job[s] EXCEPT !.met = @ \/ s \in these]]
     /\ marred' = marred \cup {Of(s) : s \in these} \cup (IF Patches(r) THEN {Of(r)} ELSE {})

\* Mutant of Scope: a scope that is there is left.
ScopeLeft(r) == IF ctx = Nothing THEN [of |-> Of(r), offsets |-> FALSE]
                ELSE [ctx EXCEPT !.offsets = FALSE]

Scope(r) == [of |-> Of(r), offsets |-> FALSE]

\* make_seed_ctx.
Publish(r) ==
  /\ At(r, "publish") /\ Passes(r)
  /\ Beside(r)
  /\ status' = [status EXCEPT ![Of(r)] = "generating"]
  /\ ctx' = Scope(r)
  /\ cut' = IF Following(r) = Files[1] THEN cut \cup {Of(r)} ELSE cut
  /\ UNCHANGED <<disk, staged, highways, rows, faults, silent>>

\* 03 parsed the file before it published the scope.
StageBuildings(r) ==
  /\ At(r, "stage") /\ Done(r)
  /\ staged' = [of |-> Of(r), some |-> heights[Of(r)] # "empty"]
  /\ UNCHANGED <<disk, status, ctx, highways, rows, told>>

StageHighways(r) ==
  /\ At(r, "highways") /\ Done(r)
  /\ highways' = Of(r)
  /\ UNCHANGED <<disk, status, ctx, staged, rows, told>>

\* build_geometry.sql replaces the rows of the scope by those staged, and 03 then
\* refuses an empty cadastre.
Build(r) ==
  /\ At(r, "build") /\ Passes(r)
  /\ cad' = [cad EXCEPT ![ctx.of] = IF staged.some THEN [of |-> staged.of, run |-> r] ELSE Nothing]
  /\ util' = [util EXCEPT ![ctx.of] = Nothing]
  /\ ctx' = [ctx EXCEPT !.offsets = TRUE]
  /\ IF staged.some THEN Done(r) /\ UNCHANGED status
     ELSE Ends(r) /\ status' = FailedStatus(r)
  /\ UNCHANGED <<disk, staged, highways, plots, told>>

\* utilities.sql.
Lay(r) ==
  /\ At(r, "lay") /\ Passes(r) /\ Done(r)
  /\ util' = [util EXCEPT ![ctx.of] = [roads |-> highways, on |-> cad[ctx.of]]]
  /\ UNCHANGED <<disk, status, scope, cad, plots, told>>

\* survey_parcels.sql; an official layer goes with the rest.
CutPlots(r) ==
  /\ At(r, "plots") /\ Done(r)
  /\ plots' = [plots EXCEPT ![ctx.of] =
                 [roads |-> highways, on |-> cad[ctx.of], official |-> FALSE, joined |-> Nothing]]
  /\ UNCHANGED <<disk, status, scope, cad, util, told>>

\* The import names its project, not the scope.
Load(r) ==
  /\ At(r, "load") /\ Done(r)
  /\ plots' = [plots EXCEPT ![Of(r)] =
                 [roads |-> Nothing, on |-> Nothing, official |-> TRUE, joined |-> Nothing]]
  /\ UNCHANGED <<disk, status, scope, cad, util, told>>

\* survey_parcel_join.sql, after which survey_parcels.py refuses an empty layer.
Join(r) ==
  LET q == ctx.of
  IN /\ At(r, "join")
     /\ plots' = IF plots[q] = Nothing THEN plots ELSE [plots EXCEPT ![q].joined = cad[q]]
     /\ IF plots[q] # Nothing /\ (plots[q].official \/ plots[q].on # Nothing)
        THEN Done(r) /\ UNCHANGED status
        ELSE Ends(r) /\ status' = FailedStatus(r)
     /\ UNCHANGED <<disk, scope, cad, util, told>>

-----------------------------------------------------------------------------
(* The export *)

Content(file, p) ==
  CASE file = "survey_parcels.json" -> plots[p]
    [] file = "utilities.json" -> util[p]
    [] OTHER -> cad[p]

Dump(r) ==
  /\ Active(r) /\ Step(r) \in FileSet /\ Done(r)
  /\ api' = [api EXCEPT ![Of(r)][Step(r)] = Content(Step(r), ctx.of)]
  /\ UNCHANGED <<extract, heights, registry, status, scope, rows, told>>

\* A whole seed makes good what went before.
Ready(r) ==
  /\ At(r, "ready") /\ Done(r)
  /\ status' = [status EXCEPT ![Of(r)] = "ready"]
  /\ marred' = IF job[r].kind = "seed" /\ ~job[r].met
               THEN marred \ {Of(r)} ELSE marred
  /\ cut' = cut \ {Of(r)} /\ silent' = silent \ {Of(r)}
  /\ UNCHANGED <<disk, scope, rows, faults>>

\* The rows of the table, read before the file is.
List(r) ==
  /\ At(r, "list")
  /\ job' = [job EXCEPT ![r] = [Forward(@) EXCEPT !.listed = status]]
  /\ UNCHANGED <<disk, status, scope, rows, told>>

\* The projects of the file, with those of the table over them; a file that does not
\* parse has none.
Merged(old, listed) ==
  [p \in Projects \cup {Loner} |->
     IF p # Loner /\ listed[p] # "none" THEN listed[p]
     ELSE IF old = Torn THEN "none" ELSE old[p]]

\* The file is read, and opened for writing, which empties it.
Merge(r) ==
  /\ At(r, "merge")
  /\ job' = [job EXCEPT ![r] = [Forward(@) EXCEPT !.listed = Merged(registry, job[r].listed)]]
  /\ registry' = Torn
  /\ UNCHANGED <<extract, heights, api, status, scope, rows, told>>

Write(r) ==
  /\ At(r, "write")
  /\ registry' = job[r].listed
  /\ job' = [job EXCEPT ![r] = [Ended(@) EXCEPT !.listed = Nothing]]
  /\ UNCHANGED <<extract, heights, api, status, scope, rows, told>>

-----------------------------------------------------------------------------

SeedNext ==
  \E r \in Runs :
    \/ \E p \in Projects, kind \in {"seed", "import"} \cup Alone : Start(r, p, kind)
    \/ Fail(r) \/ Kill(r)
    \/ Fetch(r) \/ Heights(r) \/ Publish(r) \/ StageBuildings(r)
    \/ StageHighways(r) \/ Build(r) \/ Lay(r) \/ CutPlots(r) \/ Load(r)
    \/ Join(r) \/ Dump(r) \/ Ready(r) \/ List(r) \/ Merge(r) \/ Write(r)

SeedSpec == SeedInit /\ [][SeedNext]_seedVars

-----------------------------------------------------------------------------
(* Properties *)

\* The rows of a project are made of its own extract and its own roads, although the
\* scope and the staging tables are one for all projects, as long as no two runs
\* work in the database at once and no stage is run by itself, where utilities.sql
\* reads the highways of whichever project was staged last.
RowsAreOwn ==
  \A p \in Projects \ marred :
    /\ cad[p] # Nothing => cad[p].of = p
    /\ util[p] # Nothing => util[p].roads = p
    /\ plots[p] # Nothing /\ ~plots[p].official => plots[p].roads = p

Whole(p) ==
  /\ cad[p] # Nothing
  /\ util[p] # Nothing /\ util[p].on = cad[p]
  /\ plots[p] # Nothing /\ plots[p].joined = cad[p]
  /\ plots[p].official \/ plots[p].on = cad[p]

\* "A project is 'ready' when there is something to read": the rows of a project marked
\* ready are of one seed, and its snapshots are those rows, whatever failed or was
\* killed before; but not where two runs worked at once, a stage was run by itself, or
\* an import ended a seed that had failed.
RowsWhole ==
  \A p \in Projects \ marred : status[p] = "ready" =>
    Whole(p) /\ \A f \in FileSet : api[p][f] = Content(f, p)

\* What the registry calls ready, which is all the gallery sees with the database down,
\* has files of one export, unless the last one is under way or was cut short.
FilesWhole ==
  \A p \in Projects \ (marred \cup cut) : registry # Torn /\ registry[p] = "ready" =>
    /\ \A f \in FileSet : api[p][f] \notin {Nothing, Torn}
    /\ api[p]["utilities.json"].on = api[p]["parcels.json"]

\* A project that lives in the registry alone stays in it, unless a run was killed in
\* the middle of the file, or two runs write it at once and one reads it empty.
LonerStays == registry = Torn \/ registry[Loner] = "ready" \/ faults > 0 \/ Met

\* What is called ready is all there: in the rows, in the files, in the registry.
ReadyIsWhole == RowsWhole /\ FilesWhole /\ LonerStays

\* "Mark the project failed rather than leaving it 'generating' forever": a project is
\* being generated only by a run, unless a seed was killed or could not tell the
\* database, an import failed, or a stage was run by itself.
GeneratedBySomeone ==
  \A p \in Projects : status[p] = "generating" =>
    \/ \E r \in Runs : Active(r) /\ Of(r) = p
    \/ p \in silent \cup marred
=============================================================================
