----------------------------- MODULE MCFetches ------------------------------
(***************************************************************************)
(* What the viewer fetches: the building documents (DetailStore), or one   *)
(* of the hooks of OnDemand.  They share nothing but the page, so a        *)
(* behaviour follows either, and the other stays as it began.              *)
(***************************************************************************)
EXTENDS OnDemand, TLC

CONSTANTS Buildings,   \* ids, which restart in every project
          DetailLimit, \* DETAIL_CACHE_LIMIT
          MaxSaves

ASSUME DetailAssumption ==
  /\ DetailLimit \in Nat \ {0} /\ MaxSaves \in Nat
  /\ None \notin Buildings /\ None \notin [of : Projects, rev : Nat]

VARIABLES documents, \* this behaviour follows the documents
          view, shown, detail, recent, flagged, fetches, editing, saving, server, acked,
          missed, lost, overtaken

Detail == INSTANCE DetailStore
            WITH Limit <- DetailLimit, deps <- shown, order <- recent,
                 pending <- flagged, failed <- missed, dropped <- lost

detailVars == <<view, shown, detail, recent, flagged, fetches, editing, saving, server,
                acked, missed, lost, overtaken>>

BothInit ==
  /\ documents \in BOOLEAN
  /\ Init /\ Detail!Init
  /\ documents => hook = "topology"

BothNext ==
  /\ UNCHANGED documents
  /\ \/ documents /\ Detail!Next /\ UNCHANGED vars
     \/ ~documents /\ Next /\ UNCHANGED detailVars

BothSpec == BothInit /\ [][BothNext]_<<documents, vars, detailVars>>

Symmetry == Permutations(Projects) \cup Permutations(Buildings)

\* A caller that waits for a document waits for a fetch in the air, unless the last one
\* failed, or belonged to a caller that went away while others waited.
WaitsOnlyIfDropped == Detail!WaitsOnlyIfDropped

\* A document never falls back behind a save the user has seen, unless a fetch made
\* before was still in the air.
SavedStays == Detail!SavedStays

\* What a fetch leaves in a cache belongs to the project that is open when it lands, so
\* one asked for in a project that was left never lands in the next.
AnswersOwnPage == [][KeptForPage /\ Detail!KeptForView]_<<vars, detailVars>>
=============================================================================
