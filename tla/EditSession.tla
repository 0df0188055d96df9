---------------------------- MODULE EditSession ----------------------------
(***************************************************************************)
(* The edit session of the viewer: useEditStore (lib/store.ts), the form   *)
(* of one building (detail/BuildingEditForm.tsx), the banner that offers   *)
(* the drafts of the others (detail/UnsavedBanner.tsx), the Edit button of *)
(* DetailPanel, and the PATCH a save sends.                                *)
(*                                                                         *)
(* A setter of the store is an operator from its old state to the new one; *)
(* an action is one event.  What is typed in a field is "good" or "bad",   *)
(* as validateEdit says of it.  The store is a module of the page, keyed   *)
(* by the id of a building, and ids restart in every project.              *)
(***************************************************************************)
EXTENDS Naturals, FiniteSets

CONSTANTS Projects, Buildings, Fields, None,
          MaxTouched  \* bound on the fields touched at a time, over all drafts

VARIABLES page,    \* the project whose viewer is open
          shown,   \* the building whose card is on screen
          edit,    \* useEditStore
          request, \* the PATCH in the air
          about    \* history: the save the messages of the store are about, None without any

vars == <<page, shown, edit, request, about>>

\* What a field of a draft holds, and (history) the project it was typed in.
Typed == [value : {"good", "bad"}, in : Projects]

Draft == [Fields -> Typed \cup {None}]

Untouched == [f \in Fields |-> None]

\* taken: the edit is recorded.  dropped (history): while it was in the air its
\* draft was discarded in the banner.
Saves == [id : Buildings, of : Projects, patch : Draft, taken : BOOLEAN, dropped : BOOLEAN]

SessionConstants == None \notin Buildings \cup Projects \cup Typed \cup Saves

Fresh == [editing |-> None, drafts |-> [b \in Buildings |-> Untouched], saving |-> FALSE,
          errors |-> {}, formError |-> FALSE, saved |-> FALSE]

SessionTypeOK ==
  /\ page \in Projects \cup {None}
  /\ shown \in Buildings \cup {None}
  /\ edit \in [editing : Buildings \cup {None}, drafts : [Buildings -> Draft],
               saving : BOOLEAN, errors : SUBSET Fields, formError : BOOLEAN,
               saved : BOOLEAN]
  /\ request \in Saves \cup {None} /\ about \in Saves \cup {None}
  /\ edit.saving <=> request # None
  /\ edit.errors # {} \/ edit.formError <=> about # None

Init == /\ page = None /\ shown = None
        /\ edit = Fresh /\ request = None /\ about = None

Dirty(b) == edit.drafts[b] # Untouched

\* The form on screen belongs to the building shown.
FormShown == page # None /\ shown # None /\ edit.editing = shown

-----------------------------------------------------------------------------
(* The setters of useEditStore *)

BeginEdit(s, b) ==
  [s EXCEPT !.editing = b, !.errors = {}, !.formError = FALSE, !.saved = FALSE]

CancelEdit(s, b) ==
  [s EXCEPT !.editing = None, !.drafts[b] = Untouched, !.errors = {},
            !.formError = FALSE]

SetDraftField(s, b, f, v) ==
  [s EXCEPT !.drafts[b][f] = v, !.errors = @ \ {f}, !.formError = FALSE]

SetFieldErrors(s, fs) == [s EXCEPT !.errors = fs, !.saving = FALSE]

SetFormError(s) == [s EXCEPT !.formError = TRUE, !.saving = FALSE]

FinishSave(s, b) ==
  [s EXCEPT !.editing = None, !.drafts[b] = Untouched, !.saving = FALSE,
            !.errors = {}, !.formError = FALSE, !.saved = TRUE]

Mentions(s) == s.errors # {} \/ s.formError

ForgetAbout == about' = IF Mentions(edit') THEN about ELSE None

-----------------------------------------------------------------------------
(* What the user does *)

\* A viewer is opened, on the building its link names or the one still selected;
\* the stores live on.
Open(p) == /\ p # page /\ page' = p
           /\ shown' \in Buildings \cup {None}
           /\ UNCHANGED <<edit, request, about>>

Leave == /\ page # None /\ page' = None
         /\ UNCHANGED <<shown, edit, request, about>>

\* The browser asks first when the form on screen is dirty; the fetch dies.
Reload == /\ edit # Fresh
          /\ edit' = Fresh /\ request' = None /\ ForgetAbout
          /\ UNCHANGED <<page, shown>>

\* A click in the scene, the search or the back button: nothing asks.
Select(b) == /\ page # None /\ b # shown
             /\ shown' = b
             /\ UNCHANGED <<page, edit, request, about>>

\* The Edit button of the card.
Edit == /\ page # None /\ shown # None /\ edit.editing # shown
        /\ edit' = BeginEdit(edit, shown)
        /\ ForgetAbout
        /\ UNCHANGED <<page, shown, request>>

Touched == {c \in Buildings \X Fields : edit.drafts[c[1]][c[2]] # None}

Type(f, v) ==
  /\ FormShown /\ ~edit.saving
  /\ edit' = SetDraftField(edit, shown, f, [value |-> v, in |-> page])
  /\ Cardinality(Touched \cup {<<shown, f>>}) <= MaxTouched
  /\ ForgetAbout
  /\ UNCHANGED <<page, shown, request>>

\* Mutant of Cancel: the button stays enabled during a save.
CancelAnyTime == /\ FormShown
                 /\ edit' = CancelEdit(edit, shown)
                 /\ ForgetAbout
                 /\ UNCHANGED <<page, shown, request>>

Cancel == /\ FormShown /\ ~edit.saving
          /\ edit' = CancelEdit(edit, shown)
          /\ ForgetAbout
          /\ UNCHANGED <<page, shown, request>>

\* The drafts of which the banner of the card shows the first.
Stranded == {b \in Buildings : Dirty(b) /\ b # shown /\ b # edit.editing}

\* Return & finish.
Return(b) == b \in Stranded /\ shown # None /\ Select(b)

\* The banner's Discard is not disabled during a save.
Discard(b) ==
  /\ page # None /\ shown # None /\ b \in Stranded
  /\ edit' = CancelEdit(edit, b)
  /\ request' = IF request = None \/ request.id # b THEN request
                ELSE [request EXCEPT !.dropped = TRUE]
  /\ ForgetAbout
  /\ UNCHANGED <<page, shown>>

\* clearSaved, after 2600 ms.
Fade == /\ page # None /\ edit.saved
        /\ edit' = [edit EXCEPT !.saved = FALSE]
        /\ UNCHANGED <<page, shown, request, about>>

-----------------------------------------------------------------------------
(* A save *)

Bad(d) == {f \in Fields : d[f] # None /\ d[f].value = "bad"}

Attempt == [id |-> shown, of |-> page, patch |-> edit.drafts[shown], taken |-> FALSE,
            dropped |-> FALSE]

CanSave == FormShown /\ ~edit.saving /\ Dirty(shown)

\* validateEdit in the form.
RefusedHere == /\ CanSave /\ Bad(edit.drafts[shown]) # {}
               /\ edit' = SetFieldErrors(edit, Bad(edit.drafts[shown]))
               /\ about' = Attempt
               /\ UNCHANGED <<page, shown, request>>

Send == /\ CanSave /\ Bad(edit.drafts[shown]) = {}
        /\ edit' = [edit EXCEPT !.saving = TRUE]
        /\ request' = Attempt
        /\ UNCHANGED <<page, shown, about>>

\* applyEdit on the server.
TakeEffect == /\ request # None /\ ~request.taken
              /\ request' = [request EXCEPT !.taken = TRUE]
              /\ UNCHANGED <<page, shown, edit, about>>

\* Mutant of Saved: finishSave before the answer has been looked at.
SavedUnread == /\ request # None
               /\ edit' = FinishSave(edit, request.id)
               /\ request' = None /\ about' = None
               /\ UNCHANGED <<page, shown>>

Saved == /\ request # None /\ request.taken
         /\ edit' = FinishSave(edit, request.id)
         /\ request' = None /\ about' = None
         /\ UNCHANGED <<page, shown>>

\* 400 or 422: the server of a newer build may have other rules.
RefusedThere(f) == /\ request # None /\ ~request.taken /\ request.patch[f] # None
                   /\ edit' = SetFieldErrors(edit, {f})
                   /\ request' = None /\ about' = request
                   /\ UNCHANGED <<page, shown>>

\* Any other status, also when the read-back fails after the edit is recorded,
\* or no answer at all.
Fails == /\ request # None
         /\ edit' = SetFormError(edit)
         /\ request' = None /\ about' = request
         /\ UNCHANGED <<page, shown>>

Answer == Saved \/ Fails \/ \E f \in Fields : RefusedThere(f)

Next ==
  \/ Leave \/ Reload \/ Edit \/ Cancel \/ Fade
  \/ RefusedHere \/ Send \/ TakeEffect \/ Answer
  \/ \E p \in Projects : Open(p)
  \/ \E b \in Buildings : Select(b) \/ Return(b) \/ Discard(b)
  \/ \E f \in Fields, v \in {"good", "bad"} : Type(f, v)

Spec == Init /\ [][Next]_vars

-----------------------------------------------------------------------------
(* Properties *)

\* What was typed into the form is there until the user cancels, discards or
\* reloads, or until the server has recorded that very value.  Selecting another
\* building, opening its form, leaving the project and a save that fails keep it:
\* "Nothing is lost" (UnsavedBanner.tsx).
DraftLostOnlyBy ==
  [][\A b \in Buildings, f \in Fields :
       edit.drafts[b][f] # None /\ edit'.drafts[b][f] = None =>
         \/ Reload \/ Cancel \/ Discard(b)
         \/ /\ request # None /\ request.taken /\ request.id = b
            /\ request.patch[f] = edit.drafts[b][f]]_vars

\* "Your changes have been kept" is true while it is shown: the draft of the save
\* that failed holds all that was sent, unless the user discarded it in the banner
\* of another building during the save.
KeptAsSaid ==
  edit.formError =>
    \/ about.dropped
    \/ \A f \in Fields : about.patch[f] # None => edit.drafts[about.id][f] = about.patch[f]

\* A draft is saved into the project it was typed in: the form saves "SCOPED",
\* because an unscoped save "wrote the edit against the demo project's building
\* with the same id" (BuildingEditForm.tsx).  The drafts are not.
SentWhereTyped ==
  [][Send => \A f \in Fields : request'.patch[f] # None => request'.patch[f].in = page]_vars
=============================================================================
