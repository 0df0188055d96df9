---------------------------- MODULE ViewerProofs ----------------------------
(***************************************************************************)
(* What is proved of an open viewer, for any projects, buildings and       *)
(* fields, any slices, edits and visits.                                   *)
(*                                                                         *)
(* The form: no draft is lost but by the causes named.  What makes it so   *)
(* is that the draft of a save in the air cannot change: the fields,       *)
(* Cancel and Save are disabled during a save, and the one button that is  *)
(* not, the banner's Discard, empties the whole draft.                     *)
(*                                                                         *)
(* The scene: what is drawn is what the store has.                         *)
(*                                                                         *)
(* The view: a mode other than city and a level have their building, what  *)
(* was chosen last is in the store and what would mask its card is not.    *)
(* Each setter keeps that; the card, the address bar, the layers and the   *)
(* camera follow from it.                                                  *)
(***************************************************************************)
EXTENDS MCViewer, SequenceTheorems, TLAPS


\* The draft of the save in the air is what was sent, or nothing at all.
DraftHeld ==
  request # None =>
    edit.drafts[request.id] = IF request.dropped THEN Form!Untouched ELSE request.patch

SessionInv == Form!SessionTypeOK /\ DraftHeld /\ Form!KeptAsSaid

-----------------------------------------------------------------------------
(* The setters keep the type of the store *)

Sessions == [editing : Buildings \cup {None}, drafts : [Buildings -> Form!Draft],
             saving : BOOLEAN, errors : SUBSET Fields, formError : BOOLEAN,
             saved : BOOLEAN]

LEMMA Distinct == None \notin Buildings \cup Projects \cup Form!Typed \cup Form!Saves
BY FormAssumption DEF Form!SessionConstants

LEMMA UntouchedTyped == Form!Untouched \in Form!Draft
BY DEF Form!Untouched, Form!Draft

LEMMA FreshTyped == Form!Fresh \in Sessions
BY UntouchedTyped DEF Form!Fresh, Sessions

LEMMA MessagesTyped ==
  ASSUME NEW s \in Sessions
  PROVE  /\ Form!SetFormError(s) \in Sessions
         /\ \A fs \in SUBSET Fields : Form!SetFieldErrors(s, fs) \in Sessions
<1>1. Form!SetFormError(s) \in Sessions
  BY DEF Form!SetFormError, Sessions
<1>2. ASSUME NEW fs \in SUBSET Fields PROVE Form!SetFieldErrors(s, fs) \in Sessions
  BY DEF Form!SetFieldErrors, Sessions
<1> QED BY <1>1, <1>2

LEMMA SettersTyped ==
  ASSUME NEW s \in Sessions, NEW b \in Buildings
  PROVE  /\ Form!BeginEdit(s, b) \in Sessions
         /\ Form!CancelEdit(s, b) \in Sessions
         /\ Form!FinishSave(s, b) \in Sessions
<1>1. [s.drafts EXCEPT ![b] = Form!Untouched] \in [Buildings -> Form!Draft]
  BY UntouchedTyped DEF Sessions
<1>2. Form!BeginEdit(s, b) \in Sessions
  BY DEF Form!BeginEdit, Sessions
<1>3. Form!CancelEdit(s, b) \in Sessions
  BY <1>1 DEF Form!CancelEdit, Sessions
<1>4. Form!FinishSave(s, b) \in Sessions
  BY <1>1 DEF Form!FinishSave, Sessions
<1> QED BY <1>2, <1>3, <1>4

LEMMA FieldTyped ==
  ASSUME NEW s \in Sessions, NEW b \in Buildings, NEW f \in Fields, NEW v \in Form!Typed
  PROVE  Form!SetDraftField(s, b, f, v) \in Sessions
<1>1. [s.drafts[b] EXCEPT ![f] = v] \in Form!Draft
  BY DEF Sessions, Form!Draft
<1>2. [s.drafts EXCEPT ![b][f] = v] \in [Buildings -> Form!Draft]
  BY <1>1 DEF Sessions
<1> QED BY <1>2 DEF Form!SetDraftField, Sessions

\* What a save sends, while a form is on screen.
LEMMA AttemptTyped ==
  ASSUME Form!SessionTypeOK, Form!CanSave
  PROVE  Form!Attempt \in Form!Saves /\ Form!Attempt # None
<1>1. shown \in Buildings /\ page \in Projects
  BY DEF Form!SessionTypeOK, Form!CanSave, Form!FormShown
<1>2. edit.drafts[shown] \in Form!Draft
  BY <1>1 DEF Form!SessionTypeOK
<1>3. Form!Attempt \in Form!Saves
  BY <1>1, <1>2 DEF Form!Attempt, Form!Saves
<1> QED BY <1>3, Distinct

-----------------------------------------------------------------------------
(* Type correctness *)

\* The typing of the store, of a save and of what it is about, one by one.
LEMMA TypeParts ==
  Form!SessionTypeOK <=>
    /\ page \in Projects \cup {None}
    /\ shown \in Buildings \cup {None}
    /\ edit \in Sessions
    /\ request \in Form!Saves \cup {None} /\ about \in Form!Saves \cup {None}
    /\ edit.saving <=> request # None
    /\ Form!Mentions(edit) <=> about # None
BY DEF Form!SessionTypeOK, Sessions, Form!Mentions

LEMMA TypeInit == Form!Init => Form!SessionTypeOK
<1> SUFFICES ASSUME Form!Init PROVE Form!SessionTypeOK
  OBVIOUS
<1>1. edit \in Sessions
  BY FreshTyped DEF Form!Init
<1> QED BY <1>1, TypeParts DEF Form!Init, Form!Fresh, Form!Mentions

LEMMA TypeStep == Form!SessionTypeOK /\ [Form!Next]_Form!vars => Form!SessionTypeOK'
<1> SUFFICES ASSUME Form!SessionTypeOK, [Form!Next]_Form!vars PROVE Form!SessionTypeOK'
  OBVIOUS
<1> USE Distinct
<1>0. /\ edit \in Sessions /\ request \in Form!Saves \cup {None} /\ about \in Form!Saves \cup {None}
      /\ page \in Projects \cup {None} /\ shown \in Buildings \cup {None}
      /\ edit.saving <=> request # None
      /\ Form!Mentions(edit) <=> about # None
  BY TypeParts
<1> DEFINE Typed2 == /\ page' \in Projects \cup {None}
                     /\ shown' \in Buildings \cup {None}
                     /\ edit' \in Sessions
                     /\ request' \in Form!Saves \cup {None} /\ about' \in Form!Saves \cup {None}
                     /\ edit'.saving <=> request' # None
                     /\ Form!Mentions(edit') <=> about' # None
<1>a. ASSUME Typed2 PROVE Form!SessionTypeOK'
  BY <1>a DEF Form!SessionTypeOK, Sessions, Form!Mentions
<1> HIDE DEF Typed2
<1>1. ASSUME NEW p \in Projects, Form!Open(p) PROVE Form!SessionTypeOK'
  BY <1>0, <1>1, <1>a DEF Form!Open, Typed2
<1>2. CASE Form!Leave
  BY <1>0, <1>2, <1>a DEF Form!Leave, Typed2
<1>3. CASE Form!Reload
  <2>1. edit' \in Sessions
    BY <1>3, FreshTyped DEF Form!Reload
  <2> QED BY <1>0, <1>3, <2>1, <1>a DEF Form!Reload, Form!Fresh, Form!Mentions, Form!ForgetAbout, Typed2
<1>4. ASSUME NEW b \in Buildings, Form!Select(b) PROVE Form!SessionTypeOK'
  BY <1>0, <1>4, <1>a DEF Form!Select, Typed2
<1>5. ASSUME NEW b \in Buildings, Form!Return(b) PROVE Form!SessionTypeOK'
  BY <1>4, <1>5 DEF Form!Return
<1>6. CASE Form!Edit
  <2>1. shown \in Buildings
    BY <1>0, <1>6 DEF Form!Edit
  <2>2. edit' \in Sessions
    BY <1>0, <1>6, <2>1, SettersTyped DEF Form!Edit
  <2>3. edit'.saving = edit.saving /\ ~Form!Mentions(edit')
    BY <1>0, <1>6 DEF Form!Edit, Form!BeginEdit, Form!Mentions, Sessions
  <2> QED BY <1>0, <1>6, <2>2, <2>3, <1>a DEF Form!Edit, Form!ForgetAbout, Typed2
<1>7. ASSUME NEW f \in Fields, NEW v \in {"good", "bad"}, Form!Type(f, v) PROVE Form!SessionTypeOK'
  <2>1. shown \in Buildings /\ page \in Projects
    BY <1>0, <1>7 DEF Form!Type, Form!FormShown
  <2>2. [value |-> v, in |-> page] \in Form!Typed
    BY <2>1 DEF Form!Typed
  <2>3. edit' \in Sessions
    BY <1>0, <1>7, <2>1, <2>2, FieldTyped DEF Form!Type
  <2>4. edit'.saving = edit.saving /\ (Form!Mentions(edit') => Form!Mentions(edit))
    BY <1>0, <1>7 DEF Form!Type, Form!SetDraftField, Form!Mentions, Sessions
  <2> QED BY <1>0, <1>7, <2>3, <2>4, <1>a DEF Form!Type, Form!ForgetAbout, Typed2
<1>8. CASE Form!Cancel
  <2>1. shown \in Buildings
    BY <1>0, <1>8 DEF Form!Cancel, Form!FormShown
  <2>2. edit' \in Sessions
    BY <1>0, <1>8, <2>1, SettersTyped DEF Form!Cancel
  <2>3. edit'.saving = edit.saving /\ ~Form!Mentions(edit')
    BY <1>0, <1>8 DEF Form!Cancel, Form!CancelEdit, Form!Mentions, Sessions
  <2> QED BY <1>0, <1>8, <2>2, <2>3, <1>a DEF Form!Cancel, Form!ForgetAbout, Typed2
<1>9. ASSUME NEW b \in Buildings, Form!Discard(b) PROVE Form!SessionTypeOK'
  <2>1. edit' \in Sessions
    BY <1>0, <1>9, SettersTyped DEF Form!Discard
  <2>2. edit'.saving = edit.saving /\ ~Form!Mentions(edit')
    BY <1>0, <1>9 DEF Form!Discard, Form!CancelEdit, Form!Mentions, Sessions
  <2>3. request' \in Form!Saves \cup {None} /\ (request' # None <=> request # None)
    <3>1. CASE request = None
      BY <1>9, <3>1 DEF Form!Discard
    <3>2. CASE request # None
      <4>1. [request EXCEPT !.dropped = TRUE] \in Form!Saves
        BY <1>0, <3>2 DEF Form!Saves
      <4> QED BY <1>0, <1>9, <3>2, <4>1 DEF Form!Discard
    <3> QED BY <3>1, <3>2
  <2> QED BY <1>0, <1>9, <2>1, <2>2, <2>3, <1>a DEF Form!Discard, Form!ForgetAbout, Typed2
<1>10. CASE Form!Fade
  <2>1. edit' \in Sessions /\ edit'.saving = edit.saving /\ (Form!Mentions(edit') <=> Form!Mentions(edit))
    BY <1>0, <1>10 DEF Form!Fade, Sessions, Form!Mentions
  <2> QED BY <1>0, <1>10, <2>1, <1>a DEF Form!Fade, Typed2
<1>11. CASE Form!RefusedHere
  <2>1. Form!Bad(edit.drafts[shown]) \in SUBSET Fields
    BY DEF Form!Bad
  <2>2. edit' \in Sessions /\ shown \in Buildings
    BY <1>0, <1>11, <2>1, MessagesTyped DEF Form!RefusedHere, Form!CanSave, Form!FormShown
  <2>3. edit'.saving = edit.saving /\ Form!Mentions(edit')
    BY <1>0, <1>11 DEF Form!RefusedHere, Form!CanSave, Form!SetFieldErrors, Form!Mentions, Sessions
  <2>4. Form!Attempt \in Form!Saves /\ Form!Attempt # None
    BY <1>11, AttemptTyped DEF Form!RefusedHere
  <2> QED BY <1>0, <1>11, <2>2, <2>3, <2>4, <1>a DEF Form!RefusedHere, Typed2
<1>12. CASE Form!Send
  <2>1. edit' \in Sessions /\ edit'.saving /\ (Form!Mentions(edit') <=> Form!Mentions(edit))
    BY <1>0, <1>12 DEF Form!Send, Sessions, Form!Mentions
  <2>2. Form!Attempt \in Form!Saves /\ Form!Attempt # None
    BY <1>12, AttemptTyped DEF Form!Send
  <2> QED BY <1>0, <1>12, <2>1, <2>2, <1>a DEF Form!Send, Typed2
<1>13. CASE Form!TakeEffect
  <2>1. [request EXCEPT !.taken = TRUE] \in Form!Saves
    BY <1>0, <1>13 DEF Form!TakeEffect, Form!Saves
  <2> QED BY <1>0, <1>13, <2>1, <1>a DEF Form!TakeEffect, Typed2
<1>14. CASE Form!Saved
  <2>1. request.id \in Buildings
    BY <1>0, <1>14 DEF Form!Saved, Form!Saves
  <2>2. edit' \in Sessions
    BY <1>0, <1>14, <2>1, SettersTyped DEF Form!Saved
  <2>3. ~edit'.saving /\ ~Form!Mentions(edit')
    BY <1>0, <1>14 DEF Form!Saved, Form!FinishSave, Form!Mentions, Sessions
  <2> QED BY <1>0, <1>14, <2>2, <2>3, <1>a DEF Form!Saved, Typed2
<1>15. ASSUME NEW f \in Fields, Form!RefusedThere(f) PROVE Form!SessionTypeOK'
  <2>1. edit' \in Sessions
    BY <1>0, <1>15, MessagesTyped, {f} \in SUBSET Fields DEF Form!RefusedThere
  <2>2. ~edit'.saving /\ Form!Mentions(edit')
    BY <1>0, <1>15 DEF Form!RefusedThere, Form!SetFieldErrors, Form!Mentions, Sessions
  <2> QED BY <1>0, <1>15, <2>1, <2>2, <1>a DEF Form!RefusedThere, Typed2
<1>16. CASE Form!Fails
  <2>1. edit' \in Sessions
    BY <1>0, <1>16, MessagesTyped DEF Form!Fails
  <2>2. ~edit'.saving /\ Form!Mentions(edit')
    BY <1>0, <1>16 DEF Form!Fails, Form!SetFormError, Form!Mentions, Sessions
  <2> QED BY <1>0, <1>16, <2>1, <2>2, <1>a DEF Form!Fails, Typed2
<1>17. CASE UNCHANGED Form!vars
  BY <1>17 DEF Form!vars, Form!SessionTypeOK
<1> QED
  BY <1>1, <1>2, <1>3, <1>4, <1>5, <1>6, <1>7, <1>8, <1>9, <1>10, <1>11, <1>12, <1>13,
     <1>14, <1>15, <1>16, <1>17 DEF Form!Next, Form!Answer

(* The stores of the edit session have their types in every behaviour: the *)
(* form waits exactly while a PATCH is in the air, and there are messages  *)
(* exactly while there is a save they are about.                           *)
THEOREM SessionTyped == Form!Spec => []Form!SessionTypeOK
<1>1. Form!Init => Form!SessionTypeOK
  BY TypeInit
<1>2. Form!SessionTypeOK /\ [Form!Next]_Form!vars => Form!SessionTypeOK'
  BY TypeStep
<1> QED BY <1>1, <1>2, PTL DEF Form!Spec

-----------------------------------------------------------------------------
(* The draft of a save in the air *)

LEMMA HeldInit == Form!Init => DraftHeld /\ Form!KeptAsSaid
BY DEF Form!Init, DraftHeld, Form!KeptAsSaid, Form!Fresh

LEMMA HeldStep == SessionInv /\ [Form!Next]_Form!vars => DraftHeld'
<1> SUFFICES ASSUME SessionInv, [Form!Next]_Form!vars, request' # None
             PROVE  edit'.drafts[request'.id]
                      = IF request'.dropped THEN Form!Untouched ELSE request'.patch
  BY DEF DraftHeld
<1>0. /\ edit \in Sessions /\ request \in Form!Saves \cup {None}
      /\ edit.saving <=> request # None
  BY TypeParts DEF SessionInv
<1>h. request # None =>
        edit.drafts[request.id] = IF request.dropped THEN Form!Untouched ELSE request.patch
  BY DEF SessionInv, DraftHeld
\* Most actions keep the save and its draft.
<1>k. ASSUME request' = request, edit'.drafts = edit.drafts
      PROVE  edit'.drafts[request'.id]
               = IF request'.dropped THEN Form!Untouched ELSE request'.patch
  BY <1>h, <1>k
<1>1. ASSUME NEW p \in Projects, Form!Open(p) PROVE request' = request /\ edit'.drafts = edit.drafts
  BY <1>1 DEF Form!Open
<1>2. CASE Form!Leave
  BY <1>2, <1>k DEF Form!Leave
<1>3. CASE Form!Reload
  BY <1>3 DEF Form!Reload
<1>4. ASSUME NEW b \in Buildings, Form!Select(b) PROVE request' = request /\ edit'.drafts = edit.drafts
  BY <1>4 DEF Form!Select
<1>5. ASSUME NEW b \in Buildings, Form!Return(b) PROVE request' = request /\ edit'.drafts = edit.drafts
  BY <1>4, <1>5 DEF Form!Return
<1>6. CASE Form!Edit
  <2>1. edit'.drafts = edit.drafts
    BY <1>0, <1>6 DEF Form!Edit, Form!BeginEdit, Sessions
  <2> QED BY <1>6, <2>1, <1>k DEF Form!Edit
\* The fields and Cancel are disabled while the save is in the air.
<1>7. ASSUME NEW f \in Fields, NEW v \in {"good", "bad"}, Form!Type(f, v) PROVE FALSE
  BY <1>0, <1>7 DEF Form!Type
<1>8. CASE Form!Cancel
  BY <1>0, <1>8 DEF Form!Cancel
<1>9. ASSUME NEW b \in Buildings, Form!Discard(b)
      PROVE  edit'.drafts[request'.id]
               = IF request'.dropped THEN Form!Untouched ELSE request'.patch
  <2>1. request \in Form!Saves
    BY <1>0, <1>9 DEF Form!Discard
  <2>2. edit'.drafts = [edit.drafts EXCEPT ![b] = Form!Untouched] /\ edit.drafts \in [Buildings -> Form!Draft]
    BY <1>0, <1>9 DEF Form!Discard, Form!CancelEdit, Sessions
  <2>3. CASE request.id = b
    <3>1. request' = [request EXCEPT !.dropped = TRUE]
      BY <1>9, <2>1, <2>3, Distinct DEF Form!Discard
    <3>2. request'.id = b /\ request'.dropped
      BY <2>1, <2>3, <3>1 DEF Form!Saves
    <3> QED BY <2>2, <3>2
  <2>4. CASE request.id # b
    <3>1. request' = request /\ request.id \in Buildings
      BY <1>9, <2>1, <2>4 DEF Form!Discard, Form!Saves
    <3> QED BY <1>h, <2>1, <2>2, <2>4, <3>1, Distinct
  <2> QED BY <2>3, <2>4
<1>10. CASE Form!Fade
  <2>1. edit'.drafts = edit.drafts
    BY <1>0, <1>10 DEF Form!Fade, Sessions
  <2> QED BY <1>10, <2>1, <1>k DEF Form!Fade
<1>11. CASE Form!RefusedHere
  BY <1>0, <1>11 DEF Form!RefusedHere, Form!CanSave
<1>12. CASE Form!Send
  <2>1. edit'.drafts = edit.drafts
    BY <1>0, <1>12 DEF Form!Send, Sessions
  <2>2. request'.id = shown /\ request'.patch = edit.drafts[shown] /\ ~request'.dropped
    BY <1>12 DEF Form!Send, Form!Attempt
  <2> QED BY <2>1, <2>2
<1>13. CASE Form!TakeEffect
  <2>1. request \in Form!Saves
    BY <1>0, <1>13 DEF Form!TakeEffect
  <2>2. /\ request'.id = request.id /\ request'.patch = request.patch
        /\ request'.dropped = request.dropped /\ edit' = edit
    BY <1>13, <2>1 DEF Form!TakeEffect, Form!Saves
  <2> QED BY <1>13, <1>h, <2>2 DEF Form!TakeEffect
<1>14. CASE Form!Saved
  BY <1>14 DEF Form!Saved
<1>15. ASSUME NEW f \in Fields, Form!RefusedThere(f) PROVE FALSE
  BY <1>15 DEF Form!RefusedThere
<1>16. CASE Form!Fails
  BY <1>16 DEF Form!Fails
<1>17. CASE UNCHANGED Form!vars
  BY <1>17, <1>k DEF Form!vars
<1> QED
  BY <1>k, <1>1, <1>2, <1>3, <1>4, <1>5, <1>6, <1>7, <1>8, <1>9, <1>10, <1>11, <1>12,
     <1>13, <1>14, <1>15, <1>16, <1>17 DEF Form!Next, Form!Answer

-----------------------------------------------------------------------------
(* The message that says the changes have been kept *)

\* What the message says of a save, with the drafts of the moment.
Holds(d, a) ==
  a.dropped \/ \A f \in Fields : a.patch[f] # None => d[a.id][f] = a.patch[f]

LEMMA KeptStep == SessionInv /\ [Form!Next]_Form!vars => Form!KeptAsSaid'
<1> SUFFICES ASSUME SessionInv, [Form!Next]_Form!vars, edit'.formError
             PROVE  Holds(edit'.drafts, about')
  BY DEF Form!KeptAsSaid, Holds
<1>0. /\ edit \in Sessions /\ request \in Form!Saves \cup {None}
      /\ edit.saving <=> request # None
  BY TypeParts DEF SessionInv
<1>h. edit.formError => Holds(edit.drafts, about)
  BY DEF SessionInv, Form!KeptAsSaid, Holds
\* An error that stays is about the same save and the same drafts.
<1>k. ASSUME edit'.formError = edit.formError, edit'.drafts = edit.drafts, about' = about
      PROVE  Holds(edit'.drafts, about')
  BY <1>h, <1>k
\* What a failed save sent is still the draft, but for a discard.
<1>s. ASSUME request # None PROVE Holds(edit.drafts, request)
  BY <1>s DEF SessionInv, DraftHeld, Holds
<1>1. ASSUME NEW p \in Projects, Form!Open(p) PROVE edit' = edit /\ about' = about
  BY <1>1 DEF Form!Open
<1>2. CASE Form!Leave
  BY <1>2, <1>k DEF Form!Leave
<1>3. CASE Form!Reload
  BY <1>3 DEF Form!Reload, Form!Fresh
<1>4. ASSUME NEW b \in Buildings, Form!Select(b) PROVE edit' = edit /\ about' = about
  BY <1>4 DEF Form!Select
<1>5. ASSUME NEW b \in Buildings, Form!Return(b) PROVE edit' = edit /\ about' = about
  BY <1>4, <1>5 DEF Form!Return
\* Opening a form, typing, cancelling and discarding take the error away.
<1>6. CASE Form!Edit
  BY <1>0, <1>6 DEF Form!Edit, Form!BeginEdit, Sessions
<1>7. ASSUME NEW f \in Fields, NEW v \in {"good", "bad"}, Form!Type(f, v) PROVE FALSE
  BY <1>0, <1>7 DEF Form!Type, Form!SetDraftField, Sessions
<1>8. CASE Form!Cancel
  BY <1>0, <1>8 DEF Form!Cancel, Form!CancelEdit, Sessions
<1>9. ASSUME NEW b \in Buildings, Form!Discard(b) PROVE FALSE
  BY <1>0, <1>9 DEF Form!Discard, Form!CancelEdit, Sessions
<1>10. CASE Form!Fade
  <2>1. edit'.drafts = edit.drafts /\ edit'.formError = edit.formError
    BY <1>0, <1>10 DEF Form!Fade, Sessions
  <2> QED BY <1>10, <2>1, <1>k DEF Form!Fade
<1>11. CASE Form!RefusedHere
  <2>1. edit'.drafts = edit.drafts
    BY <1>0, <1>11 DEF Form!RefusedHere, Form!SetFieldErrors, Sessions
  <2>2. about'.id = shown /\ about'.patch = edit.drafts[shown]
    BY <1>11 DEF Form!RefusedHere, Form!Attempt
  <2> QED BY <2>1, <2>2 DEF Holds
<1>12. CASE Form!Send
  <2>1. edit'.drafts = edit.drafts /\ edit'.formError = edit.formError
    BY <1>0, <1>12 DEF Form!Send, Sessions
  <2> QED BY <1>12, <2>1, <1>k DEF Form!Send
<1>13. CASE Form!TakeEffect
  BY <1>13, <1>k DEF Form!TakeEffect
<1>14. CASE Form!Saved
  BY <1>0, <1>14 DEF Form!Saved, Form!FinishSave, Sessions
<1>15. ASSUME NEW f \in Fields, Form!RefusedThere(f) PROVE Holds(edit'.drafts, about')
  <2>1. edit'.drafts = edit.drafts /\ about' = request /\ request # None
    BY <1>0, <1>15 DEF Form!RefusedThere, Form!SetFieldErrors, Sessions
  <2> QED BY <2>1, <1>s
<1>16. CASE Form!Fails
  <2>1. edit'.drafts = edit.drafts /\ about' = request /\ request # None
    BY <1>0, <1>16 DEF Form!Fails, Form!SetFormError, Sessions
  <2> QED BY <2>1, <1>s
<1>17. CASE UNCHANGED Form!vars
  BY <1>17, <1>k DEF Form!vars
<1> QED
  BY <1>k, <1>1, <1>2, <1>3, <1>4, <1>5, <1>6, <1>7, <1>8, <1>9, <1>10, <1>11, <1>12,
     <1>13, <1>14, <1>15, <1>16, <1>17 DEF Form!Next, Form!Answer

LEMMA SessionInvariant == Form!Spec => []SessionInv
<1>1. Form!Init => SessionInv
  BY TypeInit, HeldInit DEF SessionInv
<1>2. SessionInv /\ [Form!Next]_Form!vars => SessionInv'
  BY TypeStep, HeldStep, KeptStep DEF SessionInv
<1> QED BY <1>1, <1>2, PTL DEF Form!Spec

(* "Your changes have been kept" is true while the form shows it, whatever *)
(* the user does during and after the save that failed, unless the draft   *)
(* was discarded in the banner meanwhile.                                  *)
THEOREM KeptIsKept == Form!Spec => []KeptAsSaid
<1>1. SessionInv => KeptAsSaid
  BY DEF SessionInv, KeptAsSaid
<1> QED BY <1>1, SessionInvariant, PTL

-----------------------------------------------------------------------------
(* No draft is lost *)

\* What DraftLostOnlyBy says of one field of one building.
LossNamed(b, f) ==
  edit.drafts[b][f] # None /\ edit'.drafts[b][f] = None =>
    \/ Form!Reload \/ Form!Cancel \/ Form!Discard(b)
    \/ /\ request # None /\ request.taken /\ request.id = b
       /\ request.patch[f] = edit.drafts[b][f]

LEMMA LossStep ==
  ASSUME SessionInv, [Form!Next]_Form!vars, NEW b \in Buildings, NEW f \in Fields
  PROVE  LossNamed(b, f)
<1> SUFFICES ASSUME edit.drafts[b][f] # None, edit'.drafts[b][f] = None,
                    ~Form!Reload, ~Form!Cancel, ~Form!Discard(b)
             PROVE  /\ request # None /\ request.taken /\ request.id = b
                    /\ request.patch[f] = edit.drafts[b][f]
  BY DEF LossNamed
<1>0. edit \in Sessions /\ request \in Form!Saves \cup {None} /\ edit.drafts \in [Buildings -> Form!Draft]
  BY TypeParts DEF SessionInv, Sessions
<1>k. edit'.drafts # edit.drafts
  OBVIOUS
<1>1. ASSUME NEW p \in Projects, Form!Open(p) PROVE FALSE
  BY <1>1, <1>k DEF Form!Open
<1>2. CASE Form!Leave
  BY <1>2, <1>k DEF Form!Leave
<1>4. ASSUME NEW c \in Buildings, Form!Select(c) PROVE FALSE
  BY <1>4, <1>k DEF Form!Select
<1>5. ASSUME NEW c \in Buildings, Form!Return(c) PROVE FALSE
  BY <1>4, <1>5 DEF Form!Return
<1>6. CASE Form!Edit
  BY <1>0, <1>6, <1>k DEF Form!Edit, Form!BeginEdit, Sessions
\* Typing writes what is not None into one field, and keeps the others.
<1>7. ASSUME NEW g \in Fields, NEW v \in {"good", "bad"}, Form!Type(g, v) PROVE FALSE
  <2> DEFINE w == [value |-> v, in |-> page]
  <2>1. shown \in Buildings /\ page \in Projects \cup {None} /\ page # None
    BY <1>7, TypeParts DEF SessionInv, Form!Type, Form!FormShown
  <2>2. w \in Form!Typed
    BY <2>1 DEF Form!Typed
  <2>3. w # None
    BY <2>2, Distinct
  <2> HIDE DEF w
  <2>4. edit'.drafts = [edit.drafts EXCEPT ![shown][g] = w]
    BY <1>0, <1>7 DEF Form!Type, Form!SetDraftField, Sessions, w
  <2>5. edit.drafts[shown] \in [Fields -> Form!Typed \cup {None}]
    BY <1>0, <2>1 DEF Form!Draft
  <2>6. CASE b = shown /\ f = g
    BY <1>0, <2>1, <2>3, <2>4, <2>5, <2>6
  <2>7. CASE ~(b = shown /\ f = g)
    BY <1>0, <2>1, <2>4, <2>5, <2>7
  <2> QED BY <2>6, <2>7
<1>9. ASSUME NEW c \in Buildings, Form!Discard(c) PROVE FALSE
  <2>1. edit'.drafts = [edit.drafts EXCEPT ![c] = Form!Untouched] /\ c # b
    BY <1>0, <1>9 DEF Form!Discard, Form!CancelEdit, Sessions
  <2> QED BY <1>0, <2>1
<1>10. CASE Form!Fade
  BY <1>0, <1>10, <1>k DEF Form!Fade, Sessions
<1>11. CASE Form!RefusedHere
  BY <1>0, <1>11, <1>k DEF Form!RefusedHere, Form!SetFieldErrors, Sessions
<1>12. CASE Form!Send
  BY <1>0, <1>12, <1>k DEF Form!Send, Sessions
<1>13. CASE Form!TakeEffect
  BY <1>13, <1>k DEF Form!TakeEffect
\* The draft that is cleared is what was recorded: DraftHeld.
<1>14. CASE Form!Saved
  <2>1. request # None /\ request.taken /\ request.id \in Buildings
    BY <1>0, <1>14 DEF Form!Saved, Form!Saves
  <2>2. edit'.drafts = [edit.drafts EXCEPT ![request.id] = Form!Untouched]
    BY <1>0, <1>14 DEF Form!Saved, Form!FinishSave, Sessions
  <2>3. request.id = b
    BY <1>0, <2>1, <2>2
  <2>4. edit.drafts[b] = IF request.dropped THEN Form!Untouched ELSE request.patch
    BY <2>1, <2>3 DEF SessionInv, DraftHeld
  <2>5. edit.drafts[b] # Form!Untouched
    BY DEF Form!Untouched
  <2> QED BY <2>1, <2>3, <2>4, <2>5
<1>15. ASSUME NEW g \in Fields, Form!RefusedThere(g) PROVE FALSE
  BY <1>0, <1>15, <1>k DEF Form!RefusedThere, Form!SetFieldErrors, Sessions
<1>16. CASE Form!Fails
  BY <1>0, <1>16, <1>k DEF Form!Fails, Form!SetFormError, Sessions
<1>17. CASE UNCHANGED Form!vars
  BY <1>17, <1>k DEF Form!vars
<1> QED
  BY <1>1, <1>2, <1>4, <1>5, <1>6, <1>7, <1>9, <1>10, <1>11, <1>12, <1>13, <1>14, <1>15,
     <1>16, <1>17 DEF Form!Next, Form!Answer

(* What was typed is there until the user cancels, discards or reloads, or *)
(* until the server has recorded that very value, for any number of        *)
(* projects, buildings and fields.                                         *)
THEOREM NoDraftLost == Form!Spec => DraftLostOnlyBy
<1>1. SessionInv /\ [Form!Next]_Form!vars
        => [\A b \in Buildings, f \in Fields : LossNamed(b, f)]_Form!vars
  BY LossStep
<1>2. Form!Spec => [][\A b \in Buildings, f \in Fields : LossNamed(b, f)]_Form!vars
  BY <1>1, SessionInvariant, PTL DEF Form!Spec
<1> QED BY <1>2 DEF DraftLostOnlyBy, Form!DraftLostOnlyBy, LossNamed

-----------------------------------------------------------------------------
(* What holds of the scene *)

Visit == [of : Projects, at : {"terrain", "data", "ground", "over"},
          failed : BOOLEAN, strayed : BOOLEAN]

\* The near tier n over the collection c: of its first build, what is drawn is what c has, and
\* what the next slices will draw is it as well, unless the building was edited meanwhile.
NearSound(n, c) ==
  /\ n \in World!Tier
  /\ ~n.mounted => n.runs = 0
  /\ n.runs = 0 => n.alive /\ n.next = None
  /\ n.runs # 0 => n.from \in World!Collection /\ c \in World!Collection
  /\ n.runs = 1 =>
       /\ n.alive
       /\ \A b \in World!Positions :
            /\ n.drawn[b] # None <=> (n.next = None \/ b < n.next)
            /\ b \notin n.missed =>
                 c.height[b] = IF n.drawn[b] = None THEN n.from.height[b] ELSE n.drawn[b]

FarSound(f, v) ==
  /\ f \in World!FarTier
  /\ f.building => f.primitive = None /\ (f.turned \/ f.wanted = v)
  /\ f.primitive # None => f.turned \/ f.primitive = World!Shown(v)

\* From when the boot has put its collection into the store.
Own(v, c) == c = None \/ c.of = v.of \/ v.failed \/ v.strayed

Owned ==
  near.mounted \/ (open /\ visits[World!Current].at = "ground") =>
    Own(visits[World!Current], store.collection)

SceneTyped ==
  /\ visits \in Seq(Visit) /\ open \in BOOLEAN /\ retries \subseteq DOMAIN visits
  /\ store \in [collection : World!Collection \cup {None}, loading : BOOLEAN, error : BOOLEAN]
  /\ server \in [Projects -> World!Drawing]
  /\ visible \in BOOLEAN

SceneInv ==
  /\ SceneTyped
  /\ open => visits # <<>>
  /\ near.mounted => open
  /\ NearSound(near, store.collection)
  /\ FarSound(far, visible)
  /\ Owned

-----------------------------------------------------------------------------
(* The tiers *)

LEMMA SliceSound ==
  ASSUME NEW n, NEW c, NearSound(n, c), n.next # None, NEW to \in n.next..Count
  PROVE  NearSound(World!Slice(n, to), c) /\ World!Slice(n, to).mounted = n.mounted
<1> DEFINE m == World!Slice(n, to)
<1>1. /\ n \in World!Tier /\ n.next \in World!Positions /\ n.runs # 0
      /\ n.from \in World!Collection /\ c \in World!Collection
  BY DEF NearSound, World!Tier
<1>2. to \in World!Positions /\ Count \in Nat
  BY <1>1, SceneAssumption DEF World!Positions, World!SceneConstants
<1>3. m \in World!Tier /\ m.mounted = n.mounted /\ m.runs = n.runs /\ m.from = n.from
      /\ m.alive = n.alive /\ m.missed = n.missed
      /\ m.next = (IF to = Count THEN None ELSE to + 1)
      /\ m.drawn = [b \in World!Positions |-> IF n.alive /\ b \in n.next..to
                                        THEN n.from.height[b] ELSE n.drawn[b]]
  <2>1. [b \in World!Positions |-> IF n.alive /\ b \in n.next..to
                             THEN n.from.height[b] ELSE n.drawn[b]]
          \in [World!Positions -> Heights \cup {None}]
    BY <1>1 DEF World!Tier, World!Collection, World!Drawing
  <2>2. (IF to = Count THEN None ELSE to + 1) \in World!Positions \cup {None}
    BY <1>2 DEF World!Positions
  <2> QED BY <1>1, <2>1, <2>2 DEF World!Slice, World!Tier
<1>4. ASSUME n.runs = 1, NEW b \in World!Positions
      PROVE  /\ m.drawn[b] # None <=> (m.next = None \/ b < m.next)
             /\ b \notin m.missed =>
                  c.height[b] = IF m.drawn[b] = None THEN m.from.height[b] ELSE m.drawn[b]
  <2>1. n.alive /\ n.from.height[b] \in Heights /\ n.from.height[b] # None
    BY <1>1, <1>4, SceneAssumption DEF NearSound, World!Collection, World!Drawing, World!SceneConstants
  <2>2. /\ n.drawn[b] # None <=> b < n.next
        /\ b \notin n.missed =>
             c.height[b] = IF n.drawn[b] = None THEN n.from.height[b] ELSE n.drawn[b]
    BY <1>4 DEF NearSound
  <2>3. b \in Nat /\ b <= Count /\ to \in Nat /\ to <= Count /\ n.next \in Nat /\ n.next <= to
    BY <1>1, <1>2, SceneAssumption DEF World!Positions, World!SceneConstants
  <2>4. m.drawn[b] = IF b \in n.next..to THEN n.from.height[b] ELSE n.drawn[b]
    BY <1>3, <2>1
  <2>5. m.next = None <=> to = Count
    BY <1>2, <1>3, SceneAssumption DEF World!Positions, World!SceneConstants
  <2>6. m.drawn[b] # None <=> b <= to
    BY <2>1, <2>2, <2>3, <2>4
  <2>7. (m.next = None \/ b < m.next) <=> b <= to
    BY <1>3, <2>3, <2>5
  <2>8. m.missed = n.missed /\ m.from = n.from
    BY <1>3
  <2>9. CASE b \in n.next..to
    <3>1. n.drawn[b] = None BY <2>2, <2>3, <2>9
    <3> HIDE DEF m
    <3> QED BY <2>1, <2>2, <2>4, <2>6, <2>7, <2>8, <2>9, <3>1
  <2>10. CASE b \notin n.next..to
    <3> HIDE DEF m
    <3> QED BY <2>2, <2>4, <2>6, <2>7, <2>8, <2>10
  <2> QED BY <2>9, <2>10
<1> HIDE DEF m
<1>5. NearSound(m, c)
  BY <1>1, <1>3, <1>4 DEF NearSound
<1> QED BY <1>3, <1>5 DEF m

LEMMA RebuiltSound ==
  ASSUME NEW n, NEW x, NearSound(n, x), n.mounted, NEW c \in World!Collection
  PROVE  NearSound(World!Rebuilt(n, c), c) /\ World!Rebuilt(n, c).mounted
<1> DEFINE m == [n EXCEPT !.alive = n.alive /\ n.runs = 0,
                          !.runs = IF n.runs = 0 THEN 1 ELSE 2, !.from = c,
                          !.next = 1, !.missed = {}, !.drawn = [b \in World!Positions |-> None]]
<1>1. c # None
  BY SceneAssumption DEF World!Collection, World!Drawing, World!Positions, World!SceneConstants
<1>2. n \in World!Tier /\ n.alive \in BOOLEAN /\ 1 \in World!Positions /\ Count \in Nat
  BY SceneAssumption DEF NearSound, World!Tier, World!Positions, World!SceneConstants
<1>3. m \in World!Tier /\ m.mounted = n.mounted /\ m.runs = (IF n.runs = 0 THEN 1 ELSE 2)
      /\ m.from = c /\ m.next = 1 /\ m.missed = {} /\ m.drawn = [b \in World!Positions |-> None]
      /\ m.alive = (n.alive /\ n.runs = 0)
  <2>1. (n.alive /\ n.runs = 0) \in BOOLEAN /\ (IF n.runs = 0 THEN 1 ELSE 2) \in 0..2 OBVIOUS
  <2>2. [b \in World!Positions |-> None] \in [World!Positions -> Heights \cup {None}] OBVIOUS
  <2> QED BY <1>2, <2>1, <2>2 DEF World!Tier
<1>4. m.runs = 1 => m.alive
  <2>1. ASSUME m.runs = 1 PROVE n.runs = 0 BY <1>3, <2>1
  <2>2. n.runs = 0 => n.alive BY DEF NearSound
  <2> QED BY <1>3, <2>1, <2>2
<1>5. \A b \in World!Positions : ~(b < 1)
  BY <1>2 DEF World!Positions
<1>6. m.next # None
  BY <1>2, <1>3, SceneAssumption DEF World!Positions, World!SceneConstants
<1> HIDE DEF m
<1>7. NearSound(m, c)
  BY <1>3, <1>4, <1>5, <1>6 DEF NearSound
<1>8. First \in m.next..Count
  BY <1>3, SceneAssumption DEF World!SceneConstants
<1>9. NearSound(World!Slice(m, First), c) /\ World!Slice(m, First).mounted = m.mounted
  BY <1>6, <1>7, <1>8, SliceSound
<1> QED BY <1>1, <1>3, <1>9 DEF World!Rebuilt, m

LEMMA FarRebuiltSound ==
  ASSUME NEW f \in World!FarTier, NEW c \in World!Collection, visible \in BOOLEAN
  PROVE  FarSound(World!FarRebuilt(f, c), visible)
<1>1. c # None BY SceneAssumption DEF World!Collection, World!Drawing, World!Positions, World!SceneConstants
<1>2. (f.alive /\ ~f.ran) \in BOOLEAN OBVIOUS
<1>3. World!FarRebuilt(f, c) = [f EXCEPT !.alive = f.alive /\ ~f.ran, !.ran = TRUE, !.building = TRUE,
                                   !.wanted = visible, !.primitive = None, !.turned = FALSE]
  BY <1>1 DEF World!FarRebuilt
<1>4. World!FarRebuilt(f, c) \in World!FarTier
  <2> DEFINE a == f.alive /\ ~f.ran
  <2>1. a \in BOOLEAN OBVIOUS
  <2>2. World!FarRebuilt(f, c) = [f EXCEPT !.alive = a, !.ran = TRUE, !.building = TRUE,
                                     !.wanted = visible, !.primitive = None, !.turned = FALSE]
    BY <1>3
  <2> HIDE DEF a
  <2> QED BY <2>1, <2>2 DEF World!FarTier
<1>5. World!FarRebuilt(f, c).wanted = visible /\ World!FarRebuilt(f, c).primitive = None
  BY <1>3 DEF World!FarTier
<1> QED BY <1>4, <1>5 DEF FarSound

LEMMA MountedSound ==
  ASSUME NEW c \in World!Collection \cup {None}, visible \in BOOLEAN, World!Mounted(c)
  PROVE  NearSound(near', c) /\ near'.mounted /\ FarSound(far', visible)
<1> DEFINE u == [World!Unmounted EXCEPT !.mounted = TRUE]
<1>1. u.mounted /\ NearSound(u, None)
  <2>1. u.mounted /\ u.runs = 0 /\ u.next = None /\ u.alive
    BY DEF World!Unmounted
  <2>2. u \in World!Tier
    <3>1. World!Unmounted \in World!Tier BY DEF World!Unmounted, World!Tier
    <3> QED BY <3>1 DEF World!Tier
  <2> HIDE DEF u
  <2> QED BY <2>1, <2>2 DEF NearSound
<1>2. FarSound(World!FarUnmounted, visible)
  BY DEF FarSound, World!FarUnmounted, World!FarTier
<1>3. CASE c = None
  <2>1. near' = u /\ far' = World!FarUnmounted
    BY <1>3 DEF World!Mounted, World!Rebuilt, World!FarRebuilt
  <2> HIDE DEF u
  <2> QED BY <1>1, <1>2, <1>3, <2>1
<1>4. CASE c \in World!Collection
  <2>1. near' = World!Rebuilt(u, c) /\ far' = World!FarRebuilt(World!FarUnmounted, c)
    BY DEF World!Mounted
  <2> HIDE DEF u
  <2>2. NearSound(near', c) /\ near'.mounted
    BY <1>1, <1>4, <2>1, RebuiltSound
  <2> QED BY <1>2, <1>4, <2>1, <2>2, FarRebuiltSound DEF FarSound
<1> QED BY <1>3, <1>4

LEMMA ReplacedSound ==
  ASSUME NEW c \in World!Collection, NEW x, NearSound(near, x),
         FarSound(far, visible), visible \in BOOLEAN, World!Replaced(c)
  PROVE  NearSound(near', c) /\ near'.mounted = near.mounted /\ FarSound(far', visible)
<1>1. CASE near.mounted
  <2>1. near' = World!Rebuilt(near, c) /\ far' = World!FarRebuilt(far, c) BY <1>1 DEF World!Replaced
  <2>2. NearSound(near', c) /\ near'.mounted BY <1>1, <2>1, RebuiltSound
  <2>3. near.mounted \in BOOLEAN /\ near'.mounted \in BOOLEAN BY <2>2 DEF NearSound, World!Tier
  <2> QED BY <1>1, <2>1, <2>2, <2>3, FarRebuiltSound DEF FarSound
<1>2. CASE ~near.mounted
  <2>1. near' = near /\ far' = far BY <1>2 DEF World!Replaced
  <2>2. near.runs = 0 BY <1>2 DEF NearSound
  <2>3. near.runs # 1 BY <2>2
  <2> QED BY <2>1, <2>2, <2>3 DEF NearSound
<1> QED BY <1>1, <1>2

-----------------------------------------------------------------------------
(* The boots *)

LEMMA VisitsSet ==
  ASSUME SceneTyped, NEW i \in DOMAIN visits, NEW v \in Visit, visits' = [visits EXCEPT ![i] = v]
  PROVE  /\ visits' \in Seq(Visit) /\ DOMAIN visits' = DOMAIN visits
         /\ Len(visits') = Len(visits) /\ visits'[i] = v
         /\ \A j \in DOMAIN visits \ {i} : visits'[j] = visits[j]
<1>1. visits \in Seq(Visit) BY DEF SceneTyped
<1>2. DOMAIN visits = 1..Len(visits) BY <1>1
<1> QED BY <1>1, <1>2, ExceptSeq

LEMMA CurrentIs ==
  ASSUME SceneTyped, visits # <<>>
  PROVE  World!Current \in DOMAIN visits /\ visits[World!Current] \in Visit /\ World!Current \in Nat
<1>1. visits \in Seq(Visit) /\ Len(visits) \in Nat /\ Len(visits) # 0 BY DEF SceneTyped
<1> QED BY <1>1 DEF World!Current

-----------------------------------------------------------------------------
(* Every step of the scene *)

LEMMA SceneInit == World!Init => SceneInv
<1> SUFFICES ASSUME World!Init PROVE SceneInv OBVIOUS
<1>1. (CHOOSE h \in Heights : TRUE) \in Heights BY SceneAssumption DEF World!SceneConstants
<1>2. NearSound(near, None) /\ ~near.mounted BY DEF World!Init, NearSound, World!Unmounted, World!Tier
<1>3. FarSound(far, visible) BY DEF World!Init, FarSound, World!FarUnmounted, World!FarTier
<1>4. server \in [Projects -> World!Drawing] BY <1>1 DEF World!Init, World!Drawing
<1>5. visits \in Seq(Visit) /\ retries \subseteq DOMAIN visits BY DEF World!Init
<1>6. store \in [collection : World!Collection \cup {None}, loading : BOOLEAN, error : BOOLEAN]
      /\ store.collection = None
  BY DEF World!Init
<1>7. ~open /\ open \in BOOLEAN /\ visible \in BOOLEAN BY DEF World!Init
<1> QED BY <1>2, <1>3, <1>4, <1>5, <1>6, <1>7 DEF SceneInv, SceneTyped, Owned


LEMMA SceneStep == SceneInv /\ [World!Next]_World!vars => SceneInv'
<1> SUFFICES ASSUME SceneInv, [World!Next]_World!vars PROVE SceneInv' OBVIOUS
<1> USE DEF SceneInv
<1>t. SceneTyped /\ visits \in Seq(Visit) /\ Len(visits) \in Nat /\ visible \in BOOLEAN
  BY DEF SceneTyped
<1>c. open => World!Current \in DOMAIN visits /\ visits[World!Current] \in Visit /\ World!Current \in Nat
  BY CurrentIs, <1>t
<1>v. ASSUME NEW i \in DOMAIN visits, NEW v \in Visit, visits' = [visits EXCEPT ![i] = v]
      PROVE  /\ visits' \in Seq(Visit) /\ DOMAIN visits' = DOMAIN visits
             /\ Len(visits') = Len(visits) /\ visits'[i] = v
             /\ \A j \in DOMAIN visits \ {i} : visits'[j] = visits[j]
  BY <1>t, <1>v, VisitsSet
<1>1. CASE World!Leave
  <2>1. NearSound(near', store.collection) /\ ~near'.mounted
    BY <1>1 DEF World!Leave, NearSound, World!Unmounted, World!Tier
  <2>2. FarSound(far', visible)
    BY <1>1 DEF World!Leave, FarSound, World!FarUnmounted, World!FarTier
  <2> QED BY <1>1, <2>1, <2>2 DEF World!Leave, SceneTyped, Owned
<1>2. CASE World!Retry
  <2>1. retries' \subseteq DOMAIN visits BY <1>2, <1>c, <1>t DEF World!Retry, SceneTyped
  <2>2. store'.collection = store.collection
        /\ store' \in [collection : World!Collection \cup {None}, loading : BOOLEAN, error : BOOLEAN]
    BY <1>2, <1>t DEF World!Retry, SceneTyped
  <2> QED BY <1>2, <2>1, <2>2 DEF World!Retry, SceneTyped, Owned, World!Current
<1>3. CASE World!NextSlice
  <2>1. PICK to \in near.next..Count : near' = World!Slice(near, to) BY <1>3 DEF World!NextSlice
  <2>2. near.next # None BY <1>3 DEF World!NextSlice
  <2>3. NearSound(near', store.collection) /\ near'.mounted = near.mounted
    BY <2>1, <2>2, SliceSound
  <2> QED BY <1>3, <2>3 DEF World!NextSlice, SceneTyped, Owned, World!Current
<1>4. CASE World!FarDone
  <2>1. FarSound(far', visible)
    <3>1. far.primitive = None /\ (far.turned \/ far.wanted = visible) /\ far \in World!FarTier
      BY <1>4 DEF World!FarDone, FarSound
    <3>2. far'.building = FALSE /\ far'.turned = far.turned
          /\ far'.primitive = (IF far.alive THEN World!Shown(far.wanted) ELSE None)
          /\ far' \in World!FarTier
      BY <1>4, <3>1 DEF World!FarDone, World!FarTier, World!Shown
    <3> QED BY <3>1, <3>2 DEF FarSound
  <2> QED BY <1>4, <2>1 DEF World!FarDone, SceneTyped, Owned, World!Current
<1>5. CASE World!Toggle
  <2>1. FarSound(far', visible')
    <3>1. far \in World!FarTier /\ visible' \in BOOLEAN /\ far.turned \in BOOLEAN
      BY <1>5 DEF World!Toggle, FarSound, World!FarTier
    <3>2. CASE far.primitive # None
      <4>1. ~far.building BY <3>2 DEF FarSound
      <4>2. far' = [far EXCEPT !.primitive = World!Shown(visible'), !.turned = FALSE]
        BY <1>5, <3>2 DEF World!Toggle
      <4>3. World!Shown(visible') \in {"shown", "hidden"} BY DEF World!Shown
      <4> QED BY <3>1, <4>1, <4>2, <4>3 DEF FarSound, World!FarTier
    <3>3. CASE far.primitive = None
      <4>1. far' = [far EXCEPT !.turned = far.building] BY <1>5, <3>3 DEF World!Toggle
      <4>2. far' \in World!FarTier /\ far'.building = far.building /\ far'.turned = far.building
            /\ far'.primitive = None
        BY <3>1, <3>3, <4>1 DEF World!FarTier
      <4> QED BY <4>2 DEF FarSound
    <3> QED BY <3>2, <3>3
  <2>2. visible' \in BOOLEAN BY <1>5 DEF World!Toggle
  <2> QED BY <1>5, <2>1, <2>2 DEF World!Toggle, SceneTyped, Owned, World!Current
<1>6. ASSUME NEW b \in World!Positions, NEW h \in Heights, World!Edit(b, h) PROVE SceneInv'
  <2> DEFINE c == store.collection
  <2> DEFINE d == [c EXCEPT !.height[b] = h]
  <2>1. near.mounted /\ c # None /\ open BY <1>6 DEF World!Edit
  <2>2. c \in World!Collection /\ visits[World!Current].of \in Projects
    BY <1>c, <2>1 DEF SceneTyped, Visit
  <2>3. /\ server' = [server EXCEPT ![visits[World!Current].of][b] = h]
        /\ store' = [store EXCEPT !.collection.height[b] = h]
        /\ near' = IF c.height[b] = h THEN near ELSE World!Reshaped(b)
        /\ UNCHANGED <<visits, open, retries, far, visible>>
    BY <1>6 DEF World!Edit
  <2>4. server' \in [Projects -> World!Drawing] /\ server'[visits[World!Current].of][b] = h
    <3>1. server[visits[World!Current].of] \in [World!Positions -> Heights]
      BY <2>2 DEF SceneTyped, World!Drawing
    <3>2. [server[visits[World!Current].of] EXCEPT ![b] = h] \in [World!Positions -> Heights]
          /\ [server[visits[World!Current].of] EXCEPT ![b] = h][b] = h
      BY <3>1
    <3>3. server' = [server EXCEPT ![visits[World!Current].of] =
                       [server[visits[World!Current].of] EXCEPT ![b] = h]]
      BY <2>3
    <3> QED BY <2>2, <3>2, <3>3 DEF SceneTyped, World!Drawing
  <2>5. d \in World!Collection /\ d.of = c.of /\ d.height[b] = h
        /\ \A x \in World!Positions \ {b} : d.height[x] = c.height[x]
    BY <2>2 DEF World!Collection, World!Drawing
  <2>6. store' = [store EXCEPT !.collection = d]
    BY <2>3 DEF SceneTyped
  <2>7. store'.collection = d
        /\ store' \in [collection : World!Collection \cup {None}, loading : BOOLEAN, error : BOOLEAN]
    <3> HIDE DEF d
    <3> QED BY <2>5, <2>6 DEF SceneTyped
  <2>8. NearSound(near', d) /\ near'.mounted
    <3>1. near \in World!Tier /\ (near.runs # 1 \/ near.alive) BY DEF NearSound, World!Tier
    <3>2. CASE c.height[b] = h
      <4>1. near' = near BY <2>3, <3>2
      <4>2. \A x \in World!Positions : d.height[x] = c.height[x] BY <2>5, <3>2
      <4> HIDE DEF c, d
      <4>3. NearSound(near, c) BY DEF c
      <4> QED BY <2>1, <2>2, <2>5, <4>1, <4>2, <4>3 DEF NearSound
    <3>3. CASE c.height[b] # h /\ near.drawn[b] = None
      <4>1. near' = [near EXCEPT !.missed = @ \cup {b}] BY <2>3, <3>3 DEF World!Reshaped
      <4>2. near' \in World!Tier /\ near'.mounted = near.mounted /\ near'.runs = near.runs
            /\ near'.alive = near.alive /\ near'.next = near.next /\ near'.from = near.from
            /\ near'.drawn = near.drawn /\ near'.missed = near.missed \cup {b}
        BY <4>1 DEF NearSound, World!Tier
      <4> HIDE DEF c, d
      <4>3. NearSound(near, c) BY DEF c
      <4> QED BY <2>1, <2>2, <2>5, <4>2, <4>3 DEF NearSound
    <3>4. CASE c.height[b] # h /\ near.drawn[b] # None
      <4>1. near' = [near EXCEPT !.drawn[b] = h] BY <2>3, <2>4, <3>4 DEF World!Reshaped
      <4>2. near \in World!Tier /\ near.drawn \in [World!Positions -> Heights \cup {None}]
        BY DEF NearSound, World!Tier
      <4>3. near' = [near EXCEPT !.drawn = [near.drawn EXCEPT ![b] = h]] BY <4>1
      <4>4. [near.drawn EXCEPT ![b] = h] \in [World!Positions -> Heights \cup {None}] BY <4>2
      <4>5. near' \in World!Tier /\ near'.mounted = near.mounted /\ near'.runs = near.runs
            /\ near'.alive = near.alive /\ near'.next = near.next /\ near'.from = near.from
            /\ near'.drawn = [near.drawn EXCEPT ![b] = h] /\ near'.missed = near.missed
        BY <4>2, <4>3, <4>4 DEF World!Tier
      <4>6. near'.drawn[b] = h /\ h # None
            /\ \A x \in World!Positions \ {b} : near'.drawn[x] = near.drawn[x]
        BY <4>2, <4>5, SceneAssumption DEF World!SceneConstants
      <4> HIDE DEF c, d
      <4>7. NearSound(near, c) BY DEF c
      <4> QED BY <2>1, <2>2, <2>5, <3>4, <4>5, <4>6, <4>7 DEF NearSound
    <3> QED BY <3>2, <3>3, <3>4
  <2>9. Owned'
    <3>1. Own(visits[World!Current], c) BY <2>1 DEF Owned
    <3>2. Own(visits[World!Current], d) BY <2>1, <2>5, <3>1 DEF Own
    <3> HIDE DEF d
    <3> QED BY <2>3, <2>7, <3>2 DEF Owned, World!Current
  <2> HIDE DEF c, d
  <2> QED BY <2>1, <2>3, <2>4, <2>7, <2>8, <2>9 DEF SceneTyped
<1>7. ASSUME NEW p \in Projects, World!Open(p) PROVE SceneInv'
  <2> DEFINE v == [of |-> p, at |-> "terrain", failed |-> FALSE, strayed |-> FALSE]
  <2>1. visits' = Append(visits, v) /\ v \in Visit /\ ~open /\ open' BY <1>7 DEF World!Open, Visit
  <2>2. /\ visits' \in Seq(Visit) /\ Len(visits') = Len(visits) + 1
        /\ visits'[Len(visits) + 1] = v /\ visits' # <<>>
        /\ DOMAIN visits \subseteq DOMAIN visits'
    BY <1>t, <2>1
  <2>3. World!Current' = Len(visits) + 1 /\ visits'[World!Current'].at = "terrain" BY <2>2 DEF World!Current
  <2>4. store'.collection = store.collection
        /\ store' \in [collection : World!Collection \cup {None}, loading : BOOLEAN, error : BOOLEAN]
    BY <1>7 DEF World!Open, SceneTyped
  <2>5. ~near.mounted /\ near' = near /\ far' = far /\ visible' = visible
        /\ server' = server /\ retries' = retries
    BY <1>7, <2>1 DEF World!Open
  <2>6. ~near'.mounted BY <2>5
  <2> HIDE DEF v
  <2>7. Owned' BY <2>3, <2>6 DEF Owned
  <2> QED BY <1>7, <2>1, <2>2, <2>4, <2>5, <2>7 DEF SceneTyped
<1>8. ASSUME NEW i \in World!Visits, World!TerrainArrives(i) PROVE SceneInv'
  <2> DEFINE v == [visits[i] EXCEPT !.at = IF World!Disposed(i) THEN "over" ELSE "data"]
  <2>1. i \in DOMAIN visits /\ visits[i] \in Visit BY <1>8, <1>t DEF World!TerrainArrives, World!At
  <2>2. v \in Visit /\ v.of = visits[i].of /\ v.failed = visits[i].failed
        /\ v.strayed = visits[i].strayed /\ v.at # "ground"
    BY <2>1 DEF Visit
  <2>3. visits' = [visits EXCEPT ![i] = v] BY <1>8 DEF World!TerrainArrives
  <2>4. UNCHANGED <<open, retries, store, server, near, far, visible>>
    BY <1>8 DEF World!TerrainArrives
  <2> HIDE DEF v
  <2>5. /\ visits' \in Seq(Visit) /\ DOMAIN visits' = DOMAIN visits
        /\ Len(visits') = Len(visits) /\ visits'[i] = v
        /\ \A j \in DOMAIN visits \ {i} : visits'[j] = visits[j]
    BY <1>v, <2>1, <2>2, <2>3
  <2>6. World!Current' = World!Current BY <2>5 DEF World!Current
  <2>7. Owned' BY <1>c, <2>2, <2>4, <2>5, <2>6 DEF Owned, Own
  <2> QED BY <1>c, <2>4, <2>5, <2>6, <2>7 DEF SceneTyped
<1>9. ASSUME NEW i \in World!Visits, World!DataArrives(i) PROVE SceneInv'
  <2> DEFINE s == World!Answered(visits[i].of)
  <2> DEFINE v == [visits[i] EXCEPT !.at = IF World!Disposed(i) THEN "over" ELSE "ground"]
  <2>1. i \in DOMAIN visits /\ visits[i] \in Visit BY <1>9, <1>t DEF World!DataArrives, World!At
  <2>2. v \in Visit /\ v.of = visits[i].of /\ v.failed = visits[i].failed
        /\ v.strayed = visits[i].strayed /\ (v.at = "ground" => ~World!Disposed(i))
    BY <2>1 DEF Visit
  <2>3. visits' = [visits EXCEPT ![i] = v] BY <1>9 DEF World!DataArrives
  <2>4. s \in World!Collection /\ s.of = visits[i].of
    BY <2>1 DEF World!Answered, World!Collection, SceneTyped, Visit
  <2> HIDE DEF v, s
  <2>5. /\ visits' \in Seq(Visit) /\ DOMAIN visits' = DOMAIN visits
        /\ Len(visits') = Len(visits) /\ visits'[i] = v
        /\ \A j \in DOMAIN visits \ {i} : visits'[j] = visits[j]
    BY <1>v, <2>1, <2>2, <2>3
  <2>6. World!Current' = World!Current BY <2>5 DEF World!Current
  <2>7. UNCHANGED <<open, retries, server, visible>> BY <1>9 DEF World!DataArrives
  <2>8. CASE World!Disposed(i)
    <3>1. store' = [store EXCEPT !.loading = FALSE] /\ UNCHANGED <<near, far>>
      BY <1>9, <2>8 DEF World!DataArrives
    <3>2. store'.collection = store.collection
          /\ store' \in [collection : World!Collection \cup {None}, loading : BOOLEAN, error : BOOLEAN]
      BY <3>1 DEF SceneTyped
    <3>3. Owned' BY <1>c, <2>2, <2>5, <2>6, <2>7, <2>8, <3>1, <3>2 DEF Owned, Own
    <3> QED BY <1>c, <2>5, <2>6, <2>7, <3>1, <3>2, <3>3 DEF SceneTyped
  <2>9. CASE ~World!Disposed(i)
    <3>1. store' = [store EXCEPT !.collection = s] /\ World!Replaced(s) /\ open /\ i = World!Current
      BY <1>9, <2>9 DEF World!DataArrives, World!Disposed, s
    <3>2. store'.collection = s
          /\ store' \in [collection : World!Collection \cup {None}, loading : BOOLEAN, error : BOOLEAN]
      BY <2>4, <3>1 DEF SceneTyped
    <3>3. NearSound(near', s) /\ near'.mounted = near.mounted /\ FarSound(far', visible)
      BY <1>t, <2>4, <3>1, ReplacedSound
    <3>4. Owned' BY <2>2, <2>4, <2>5, <2>6, <3>1, <3>2 DEF Owned, Own
    <3> QED BY <1>c, <2>5, <2>6, <2>7, <3>1, <3>2, <3>3, <3>4 DEF SceneTyped
  <2> QED BY <2>8, <2>9
<1>10. ASSUME NEW i \in World!Visits, World!DataFails(i) PROVE SceneInv'
  <2> DEFINE v == [visits[i] EXCEPT !.at = "over", !.failed = TRUE]
  <2>1. i \in DOMAIN visits /\ visits[i] \in Visit BY <1>10, <1>t DEF World!DataFails, World!At
  <2>2. v \in Visit /\ v.failed /\ v.at = "over" BY <2>1 DEF Visit
  <2>3. visits' = [visits EXCEPT ![i] = v] BY <1>10 DEF World!DataFails
  <2> HIDE DEF v
  <2>4. /\ visits' \in Seq(Visit) /\ DOMAIN visits' = DOMAIN visits
        /\ Len(visits') = Len(visits) /\ visits'[i] = v
        /\ \A j \in DOMAIN visits \ {i} : visits'[j] = visits[j]
    BY <1>v, <2>1, <2>2, <2>3
  <2>5. World!Current' = World!Current BY <2>4 DEF World!Current
  <2>6. UNCHANGED <<open, retries, server, visible>> BY <1>10 DEF World!DataFails
  <2>7. store'.collection = store.collection
        /\ store' \in [collection : World!Collection \cup {None}, loading : BOOLEAN, error : BOOLEAN]
    BY <1>10 DEF World!DataFails, SceneTyped
  <2>8. /\ NearSound(near', store.collection) /\ FarSound(far', visible)
        /\ near'.mounted /\ ~near.mounted => i = World!Current /\ open
    <3>1. CASE World!Disposed(i) BY <1>10, <3>1 DEF World!DataFails
    <3>2. CASE ~World!Disposed(i)
      <4>1. World!Mounted(store.collection) BY <1>10, <3>2 DEF World!DataFails
      <4>2. store.collection \in World!Collection \cup {None} BY DEF SceneTyped
      <4> QED BY <1>t, <3>2, <4>1, <4>2, MountedSound DEF World!Disposed
    <3> QED BY <3>1, <3>2
  <2>9. near'.mounted => open BY <2>8
  <2>10. Owned' BY <1>c, <2>2, <2>4, <2>5, <2>6, <2>7, <2>8 DEF Owned, Own
  <2> QED BY <1>c, <2>4, <2>5, <2>6, <2>7, <2>8, <2>9, <2>10 DEF SceneTyped
<1>11. ASSUME NEW i \in World!Visits, World!GroundSampled(i) PROVE SceneInv'
  <2> DEFINE v == [visits[i] EXCEPT !.at = "over"]
  <2>1. i \in DOMAIN visits /\ visits[i] \in Visit /\ visits[i].at = "ground"
    BY <1>11, <1>t DEF World!GroundSampled, World!At
  <2>2. v \in Visit /\ v.at = "over" /\ v.of = visits[i].of /\ v.failed = visits[i].failed
        /\ v.strayed = visits[i].strayed
    BY <2>1 DEF Visit
  <2>3. visits' = [visits EXCEPT ![i] = v] BY <1>11 DEF World!GroundSampled
  <2> HIDE DEF v
  <2>4. /\ visits' \in Seq(Visit) /\ DOMAIN visits' = DOMAIN visits
        /\ Len(visits') = Len(visits) /\ visits'[i] = v
        /\ \A j \in DOMAIN visits \ {i} : visits'[j] = visits[j]
    BY <1>v, <2>1, <2>2, <2>3
  <2>5. World!Current' = World!Current BY <2>4 DEF World!Current
  <2>6. UNCHANGED <<open, retries, server, visible>> BY <1>11 DEF World!GroundSampled
  <2>7. store'.collection = store.collection
        /\ store' \in [collection : World!Collection \cup {None}, loading : BOOLEAN, error : BOOLEAN]
    BY <1>11 DEF World!GroundSampled, SceneTyped
  <2>8. /\ NearSound(near', store.collection) /\ FarSound(far', visible)
        /\ near'.mounted /\ ~near.mounted => i = World!Current /\ open
    <3>1. CASE World!Disposed(i) BY <1>11, <3>1 DEF World!GroundSampled
    <3>2. CASE ~World!Disposed(i)
      <4>1. World!Mounted(store.collection) BY <1>11, <3>2 DEF World!GroundSampled
      <4>2. store.collection \in World!Collection \cup {None} BY DEF SceneTyped
      <4> QED BY <1>t, <3>2, <4>1, <4>2, MountedSound DEF World!Disposed
    <3> QED BY <3>1, <3>2
  <2>9. near'.mounted => open BY <2>8
  <2>10. Owned' BY <1>c, <2>1, <2>2, <2>4, <2>5, <2>6, <2>7, <2>8 DEF Owned, Own
  <2> QED BY <1>c, <2>4, <2>5, <2>6, <2>7, <2>8, <2>9, <2>10 DEF SceneTyped
<1>12. ASSUME NEW i \in World!Visits, World!RetryArrives(i) PROVE SceneInv'
  <2> DEFINE s == World!Answered(visits[i].of)
  <2> DEFINE k == IF World!Disposed(i) THEN World!Current ELSE i
  <2> DEFINE v == IF World!Disposed(i) THEN [visits[World!Current] EXCEPT !.strayed = TRUE]
                  ELSE [visits[i] EXCEPT !.failed = FALSE, !.strayed = FALSE]
  <2>1. i \in retries /\ i \in DOMAIN visits /\ visits[i] \in Visit /\ visits # <<>>
    BY <1>12, <1>t DEF World!RetryArrives, SceneTyped
  <2>2. World!Current \in DOMAIN visits /\ visits[World!Current] \in Visit BY <1>t, <2>1, CurrentIs
  <2>3. v \in Visit /\ k \in DOMAIN visits
        /\ (World!Disposed(i) => v.strayed) /\ (~World!Disposed(i) => v.of = visits[i].of)
    BY <2>1, <2>2 DEF Visit
  <2>4. visits' = [visits EXCEPT ![k] = v]
    BY <1>12 DEF World!RetryArrives
  <2>5. s \in World!Collection /\ s.of = visits[i].of
    BY <2>1 DEF World!Answered, World!Collection, SceneTyped, Visit
  <2>6. store' = [collection |-> s, loading |-> FALSE, error |-> FALSE] /\ World!Replaced(s)
        /\ retries' = retries \ {i} /\ UNCHANGED <<open, server, visible>>
    BY <1>12 DEF World!RetryArrives
  <2> HIDE DEF v, s
  <2>7. k = World!Current \/ ~open
    BY DEF World!Disposed
  <2> HIDE DEF k
  <2>8. /\ visits' \in Seq(Visit) /\ DOMAIN visits' = DOMAIN visits
        /\ Len(visits') = Len(visits) /\ visits'[k] = v
        /\ \A j \in DOMAIN visits \ {k} : visits'[j] = visits[j]
    BY <1>v, <2>3, <2>4
  <2>9. World!Current' = World!Current BY <2>8 DEF World!Current
  <2>10. store'.collection = s
         /\ store' \in [collection : World!Collection \cup {None}, loading : BOOLEAN, error : BOOLEAN]
    BY <2>5, <2>6
  <2>11. NearSound(near', s) /\ near'.mounted = near.mounted /\ FarSound(far', visible)
    BY <1>t, <2>5, <2>6, ReplacedSound
  <2>12. Owned'
    BY <2>3, <2>5, <2>6, <2>7, <2>8, <2>9, <2>10, <2>11 DEF Owned, Own
  <2> QED BY <1>c, <2>6, <2>8, <2>9, <2>10, <2>11, <2>12 DEF SceneTyped
<1>13. ASSUME NEW i \in World!Visits, World!RetryFails(i) PROVE SceneInv'
  <2>1. store'.collection = store.collection
        /\ store' \in [collection : World!Collection \cup {None}, loading : BOOLEAN, error : BOOLEAN]
    BY <1>13 DEF World!RetryFails, SceneTyped
  <2> QED BY <1>13, <2>1 DEF World!RetryFails, SceneTyped, Owned, World!Current
<1>14. CASE UNCHANGED World!vars
  BY <1>14 DEF World!vars, SceneTyped, Owned, World!Current
<1> QED
  BY <1>1, <1>2, <1>3, <1>4, <1>5, <1>6, <1>7, <1>8, <1>9, <1>10, <1>11, <1>12, <1>13, <1>14
     DEF World!Next, World!Boot, World!RetryEnds

LEMMA SceneInvariant == World!Spec => []SceneInv
BY SceneInit, SceneStep, PTL DEF World!Spec

\* For any buildings, slices, edits and visits: when nothing is left to build, the first build
\* of a mount shows the heights of the store, but for what was edited before it was drawn, and
\* the far tier is shown with the near one, unless the user toggled it during its build
\* (BuildingsLayer.tsx, BuildingsFarLayer.tsx).
THEOREM DrawnIsStored == World!Spec => []DrawnAsStored
<1>1. SceneInv => DrawnAsStored
  <2> SUFFICES ASSUME SceneInv PROVE DrawnAsStored OBVIOUS
  <2>1. NearSound(near, store.collection) /\ FarSound(far, visible) BY DEF SceneInv
  <2>2. World!FarFollowsUnlessTurned BY <2>1 DEF FarSound, World!FarFollowsUnlessTurned
  <2>3. World!NearAsStored BY <2>1 DEF NearSound, World!NearAsStored
  <2> QED BY <2>2, <2>3 DEF DrawnAsStored, World!DrawnAsStored
<1> QED BY <1>1, SceneInvariant, PTL

\* The scene of a ready viewer is of its own project, unless its fetch failed over another's
\* collection or the Retry of a page left before was answered in it (CesiumRoot.tsx).
THEOREM ForeignByCause == World!Spec => []ForeignOnlyAfterFailure
<1>1. SceneInv => ForeignOnlyAfterFailure
  BY DEF SceneInv, Owned, Own, ForeignOnlyAfterFailure, World!ForeignOnlyAfterFailure
<1> QED BY <1>1, SceneInvariant, PTL

-----------------------------------------------------------------------------
(* The view: what each setter of the store keeps *)


ViewFields == {"mode", "building", "level", "unit", "pipe", "road", "site", "component",
           "plot", "entry", "gis2d", "pre", "basemap", "explode", "slice",
           "underground", "services", "overlay", "stratum"}

\* What holds of the store after any sequence of events: a component has its site, and in
\* the 2D view another building than the one it was entered with has been chosen from the
\* plan's lists.
StoreTyped(v) ==
  /\ v.mode \in Modes /\ v.building \in Buildings \cup {None}
  /\ v.level \in Levels \cup {None} /\ v.unit \in Flats \cup {None}
  /\ v.site \in Sites \cup {None} /\ v.pre \in Saved \cup {None}
  /\ v.basemap \in Basemaps

SoundStore(v) ==
  /\ v = [k \in ViewFields |-> v[k]]
  /\ StoreTyped(v)
  /\ v.gis2d <=> v.pre # None
  /\ v.component # None => v.site # None
  /\ v.gis2d /\ v.mode = "city" /\ v.building # v.pre.building
       => v.level = None /\ v.unit = None

\* The 2D view shows the plan and nothing on it.
Flat(v) == v.gis2d => v.mode = "city"

\* A setter keeps the store sound, and coherent and flat if it was.
Keeps(v, w) ==
  SoundStore(w) /\ (Coherent(v) => Coherent(w)) /\ (Flat(v) => Flat(w))

LEMMA FreshSound == SoundStore(Fresh)
<1>1. Fresh = [k \in ViewFields |-> Fresh[k]]
  BY Zenon DEF Fresh, ViewFields
<1> QED BY <1>1, ViewAssumption DEF SoundStore, StoreTyped, Fresh, Modes, Basemaps

LEMMA SelectBuildingSound ==
  ASSUME NEW v, SoundStore(v), NEW b \in Buildings \cup {None}
  PROVE  Keeps(v, SelectBuilding(v, b))
<1> DEFINE w == SelectBuilding(v, b)
<1>1. w = [k \in ViewFields |-> w[k]]
  BY Zenon DEF SoundStore, SelectBuilding
<1> QED BY <1>1 DEF Keeps, Flat, SoundStore, StoreTyped, ViewFields, SelectBuilding, Coherent, Deepest, Modes, Basemaps

\* A coherent store outside the city mode has its building.
LEMMA CoherentBuilding ==
  ASSUME NEW v, SoundStore(v), Coherent(v), v.mode # "city" \/ v.unit # None
  PROVE  v.building # None
<1>1. v.unit # None => v.building \in Buildings
  BY DEF SoundStore, StoreTyped, Coherent, Flats
<1>2. v.mode # "city" => v.unit # None \/ v.level # None \/ v.building # None
  BY DEF Coherent, Deepest
<1> QED BY <1>1, <1>2, ViewAssumption DEF Coherent

LEMMA IsolateFloorSound ==
  ASSUME NEW v, SoundStore(v), NEW l \in Levels \cup {None}
  PROVE  SoundStore(IsolateFloor(v, l)) /\ (v.mode # "city" => Keeps(v, IsolateFloor(v, l)))
<1> DEFINE w == IsolateFloor(v, l)
<1>1. w = [k \in ViewFields |-> w[k]]
  BY Zenon DEF SoundStore, IsolateFloor
<1>2. SoundStore(w)
  BY <1>1, ViewAssumption DEF SoundStore, StoreTyped, ViewFields, IsolateFloor, Modes, Basemaps
<1>3. v.mode # "city" /\ Coherent(v) => v.building # None
  BY CoherentBuilding
<1> QED BY <1>1, <1>2, <1>3 DEF Keeps, Flat, SoundStore, ViewFields, IsolateFloor, Coherent, Deepest

LEMMA OpenUnitSound ==
  ASSUME NEW v, SoundStore(v), NEW l \in Levels, v.building # None
  PROVE  /\ SoundStore(OpenUnit(v, l, <<v.building, l>>))
         /\ v.mode # "city" \/ ~v.gis2d => Keeps(v, OpenUnit(v, l, <<v.building, l>>))
<1> DEFINE w == OpenUnit(v, l, <<v.building, l>>)
<1>1. w = [k \in ViewFields |-> w[k]]
  BY Zenon DEF SoundStore, OpenUnit
<1> QED BY <1>1, ViewAssumption DEF Keeps, Flat, SoundStore, StoreTyped, ViewFields, OpenUnit, Coherent, Deepest, Modes, Basemaps, Flats

LEMMA LeaveGis2dSound ==
  ASSUME NEW v, SoundStore(v)
  PROVE  /\ SoundStore(LeaveGis2d(v)) /\ ~LeaveGis2d(v).gis2d
         /\ Coherent(v) => \/ Coherent(LeaveGis2d(v))
                           \/ v.gis2d /\ v.building = v.pre.building
<1> DEFINE w == LeaveGis2d(v)
<1>1. w = [k \in ViewFields |-> w[k]]
  BY Zenon DEF SoundStore, LeaveGis2d
<1> QED BY <1>1, ViewAssumption DEF SoundStore, StoreTyped, ViewFields, LeaveGis2d, Coherent, Deepest, Modes, Basemaps, Saved

\* What ToggleGis2d, the only caller of SetGis2d, makes of the store.
Toggled(v) == SetGis2d(v, ~v.gis2d)

Toggles(v, next) ==
  /\ SoundStore(next) /\ (Flat(v) => Flat(next)) /\ next.building = v.building
  /\ v.gis2d => ~next.gis2d
  /\ Coherent(v) => \/ Coherent(next)
                    \/ v.gis2d /\ v.building = v.pre.building

LEMMA SetGis2dSound ==
  ASSUME NEW v, SoundStore(v)
  PROVE  Toggles(v, Toggled(v))
<1> DEFINE next == Toggled(v)
<1> SUFFICES Toggles(v, next)
  OBVIOUS
<1> DEFINE pre == [mode |-> v.mode, basemap |-> v.basemap, building |-> v.building]
           w == [v EXCEPT !.gis2d = TRUE, !.pre = pre, !.mode = "city", !.basemap = "street",
                          !.explode = FALSE, !.slice = FALSE, !.plot = None]
<1>1. CASE v.gis2d
  <2>1. next = LeaveGis2d(v)
    BY <1>1, Zenon DEF SetGis2d, Toggled
  <2>2. LeaveGis2d(v).building = v.building
    BY DEF LeaveGis2d, SoundStore, ViewFields
  <2> HIDE DEF next
  <2> QED BY <1>1, <2>1, <2>2, LeaveGis2dSound DEF Flat, Toggles
<1>2. CASE ~v.gis2d
  <2>1. next = w
    BY <1>2, Zenon DEF SetGis2d, Toggled
  <2>2. w = [k \in ViewFields |-> w[k]]
    BY Zenon DEF SoundStore
  <2>3. pre \in Saved /\ pre # None /\ pre.building = v.building
    BY ViewAssumption DEF SoundStore, StoreTyped, Saved
  <2> HIDE DEF pre
  <2>4. SoundStore(w)
    BY <2>2, <2>3 DEF SoundStore, StoreTyped, ViewFields, Modes, Basemaps
  <2>5. Coherent(v) => Coherent(w)
    BY DEF SoundStore, ViewFields, Coherent, Deepest
  <2>6. w.mode = "city" /\ w.building = v.building
    BY DEF SoundStore, ViewFields
  <2> HIDE DEF w, next
  <2> QED BY <1>2, <2>1, <2>4, <2>5, <2>6 DEF Flat, Toggles
<1> QED BY <1>1, <1>2

LEMMA ResetViewSound ==
  ASSUME NEW v, SoundStore(v)
  PROVE  Keeps(v, ResetView(v))
<1> DEFINE w == ResetView(v)
<1>1. SoundStore(LeaveGis2d(v)) /\ ~LeaveGis2d(v).gis2d
  BY LeaveGis2dSound
<1>2. w = [k \in ViewFields |-> w[k]]
  BY <1>1, Zenon DEF SoundStore, ResetView
<1> QED BY <1>1, <1>2, ViewAssumption
   DEF Keeps, Flat, SoundStore, StoreTyped, ViewFields, ResetView, Coherent, Deepest, Modes, Basemaps

LEMMA DropUnitSound ==
  ASSUME NEW v, SoundStore(v), v.mode # "city"
  PROVE  Keeps(v, DropUnit(v))
<1> DEFINE w == DropUnit(v)
<1>1. w = [k \in ViewFields |-> w[k]]
  BY Zenon DEF SoundStore, DropUnit
<1>2. Coherent(v) => v.building # None
  BY CoherentBuilding
<1> QED BY <1>1, <1>2 DEF Keeps, Flat, SoundStore, StoreTyped, ViewFields, DropUnit, Coherent, Deepest, Modes, Basemaps

LEMMA SelectUtilitySound ==
  ASSUME NEW v, SoundStore(v), NEW p
  PROVE  Keeps(v, SelectUtility(v, p))
<1> DEFINE w == SelectUtility(v, p)
<1>1. w = [k \in ViewFields |-> w[k]]
  BY Zenon DEF SoundStore, SelectUtility
<1> QED BY <1>1 DEF Keeps, Flat, SoundStore, StoreTyped, ViewFields, SelectUtility, Coherent, Deepest, Modes, Basemaps

LEMMA SelectRoadSound ==
  ASSUME NEW v, SoundStore(v), NEW r
  PROVE  Keeps(v, SelectRoad(v, r))
<1> DEFINE w == SelectRoad(v, r)
<1>1. w = [k \in ViewFields |-> w[k]]
  BY Zenon DEF SoundStore, SelectRoad
<1> QED BY <1>1 DEF Keeps, Flat, SoundStore, StoreTyped, ViewFields, SelectRoad, Coherent, Deepest, Modes, Basemaps

LEMMA SelectSiteSound ==
  ASSUME NEW v, SoundStore(v), NEW s \in Sites \cup {None}
  PROVE  Keeps(v, SelectSite(v, s))
<1> DEFINE w == SelectSite(v, s)
<1>1. w = [k \in ViewFields |-> w[k]]
  BY Zenon DEF SoundStore, SelectSite
<1> QED BY <1>1 DEF Keeps, Flat, SoundStore, StoreTyped, ViewFields, SelectSite, Coherent, Deepest, Modes, Basemaps

LEMMA SelectComponentSound ==
  ASSUME NEW v, SoundStore(v), v.site # None
  PROVE  Keeps(v, SelectComponent(v, v.site))
<1> DEFINE w == SelectComponent(v, v.site)
<1>1. w = [k \in ViewFields |-> w[k]]
  BY Zenon DEF SoundStore, SelectComponent
<1> QED BY <1>1 DEF Keeps, Flat, SoundStore, StoreTyped, ViewFields, SelectComponent, Coherent, Deepest, Modes, Basemaps

LEMMA ClearAmbientSound ==
  ASSUME NEW v, SoundStore(v)
  PROVE  Keeps(v, ClearAmbient(v))
<1> DEFINE w == ClearAmbient(v)
<1>1. w = [k \in ViewFields |-> w[k]]
  BY Zenon DEF SoundStore, ClearAmbient
<1> QED BY <1>1 DEF Keeps, Flat, SoundStore, StoreTyped, ViewFields, ClearAmbient, Coherent, Deepest, Modes, Basemaps

LEMMA SetPlotSound ==
  ASSUME NEW v, SoundStore(v), NEW p
  PROVE  Keeps(v, SetPlot(v, p))
<1> DEFINE w == SetPlot(v, p)
<1>1. w = [k \in ViewFields |-> w[k]]
  BY Zenon DEF SoundStore, SetPlot
<1> QED BY <1>1 DEF Keeps, Flat, SoundStore, StoreTyped, ViewFields, SetPlot, Coherent, Deepest, Modes, Basemaps

LEMMA SelectEntrySound ==
  ASSUME NEW v, SoundStore(v), NEW e
  PROVE  Keeps(v, SelectEntry(v, e))
<1> DEFINE w == SelectEntry(v, e)
<1>1. w = [k \in ViewFields |-> w[k]]
  BY Zenon DEF SoundStore, SelectEntry
<1> QED BY <1>1 DEF Keeps, Flat, SoundStore, StoreTyped, ViewFields, SelectEntry, Coherent, Deepest, Modes, Basemaps

LEMMA ToggleOverlaySound ==
  ASSUME NEW v, SoundStore(v)
  PROVE  Keeps(v, ToggleOverlay(v))
<1> DEFINE w == ToggleOverlay(v)
<1>1. w = [k \in ViewFields |-> w[k]]
  BY Zenon DEF SoundStore, ToggleOverlay
<1> QED BY <1>1 DEF Keeps, Flat, SoundStore, StoreTyped, ViewFields, ToggleOverlay, Coherent, Deepest, Modes, Basemaps

LEMMA SetUndergroundSound ==
  ASSUME NEW v, SoundStore(v), NEW on \in BOOLEAN
  PROVE  Keeps(v, SetUnderground(v, on))
<1> DEFINE w == SetUnderground(v, on)
<1>1. w = [k \in ViewFields |-> w[k]]
  BY Zenon DEF SoundStore, SetUnderground
<1> QED BY <1>1 DEF Keeps, Flat, SoundStore, StoreTyped, ViewFields, SetUnderground, Coherent, Deepest, Modes, Basemaps

LEMMA ToggleStratumSound ==
  ASSUME NEW v, SoundStore(v)
  PROVE  Keeps(v, ToggleStratum(v))
<1> DEFINE w == ToggleStratum(v)
<1>1. w = [k \in ViewFields |-> w[k]]
  BY Zenon DEF SoundStore, ToggleStratum
<1> QED BY <1>1 DEF Keeps, Flat, SoundStore, StoreTyped, ViewFields, ToggleStratum, Coherent, Deepest, Modes, Basemaps

LEMMA SetStratumSound ==
  ASSUME NEW v, SoundStore(v), NEW on \in BOOLEAN
  PROVE  Keeps(v, [v EXCEPT !.stratum = on])
<1> DEFINE w == [v EXCEPT !.stratum = on]
<1>1. w = [k \in ViewFields |-> w[k]]
  BY Zenon DEF SoundStore
<1> QED BY <1>1 DEF Keeps, Flat, SoundStore, StoreTyped, ViewFields, Coherent, Deepest, Modes, Basemaps

LEMMA ServicesSound ==
  ASSUME NEW v, SoundStore(v)
  PROVE  LET w == [v EXCEPT !.services = ~v.services]
         IN SoundStore(w) /\ (Flat(v) => Flat(w))
<1> DEFINE w == [v EXCEPT !.services = ~v.services]
<1>1. w = [k \in ViewFields |-> w[k]]
  BY Zenon DEF SoundStore
<1> QED BY <1>1 DEF Flat, SoundStore, StoreTyped, ViewFields, Modes, Basemaps

LEMMA BasemapSound ==
  ASSUME NEW v, SoundStore(v), NEW m \in Basemaps
  PROVE  Keeps(v, [v EXCEPT !.basemap = m])
<1> DEFINE w == [v EXCEPT !.basemap = m]
<1>1. w = [k \in ViewFields |-> w[k]]
  BY Zenon DEF SoundStore
<1> QED BY <1>1 DEF Keeps, Flat, SoundStore, StoreTyped, ViewFields, Coherent, Deepest, Modes, Basemaps

LEMMA ShowFindingsSound ==
  ASSUME NEW v, SoundStore(v)
  PROVE  Keeps(v, ShowFindings(v))
<1> DEFINE w == ShowFindings(v)
<1>1. w = [k \in ViewFields |-> w[k]]
  BY Zenon DEF SoundStore, ShowFindings
<1> QED BY <1>1 DEF Keeps, Flat, SoundStore, StoreTyped, ViewFields, ShowFindings, Coherent, Deepest, Modes, Basemaps

LEMMA SetExplodeSound ==
  ASSUME NEW v, SoundStore(v), NEW on \in BOOLEAN, v.mode # "city", ~v.gis2d
  PROVE  Keeps(v, SetExplode(v, on))
<1> DEFINE off == [v EXCEPT !.explode = FALSE]
           up == [v EXCEPT !.explode = TRUE, !.slice = FALSE]
<1>1. off = [k \in ViewFields |-> off[k]] /\ up = [k \in ViewFields |-> up[k]]
  BY Zenon DEF SoundStore
<1>2. Keeps(v, off)
  BY <1>1 DEF Keeps, Flat, SoundStore, StoreTyped, ViewFields, Coherent, Deepest
<1>3. Coherent(v) => v.building # None
  BY CoherentBuilding
<1>4. Keeps(v, up) /\ ~up.gis2d
  BY <1>1, <1>3 DEF Keeps, Flat, SoundStore, StoreTyped, ViewFields, Coherent, Deepest
<1> HIDE DEF up
<1>5. LeaveGis2d(up) = up
  BY <1>4, Zenon DEF LeaveGis2d
<1>6. SetExplode(v, on) = IF ~on THEN off ELSE LeaveGis2d(up)
  BY DEF SetExplode, up
<1> QED BY <1>2, <1>4, <1>5, <1>6

LEMMA SetSliceSound ==
  ASSUME NEW v, SoundStore(v), NEW on \in BOOLEAN, v.building # None, ~v.gis2d
  PROVE  Keeps(v, SetSlice(v, on))
<1> DEFINE off == [v EXCEPT !.slice = FALSE]
           up == [v EXCEPT !.slice = TRUE, !.explode = FALSE]
<1>1. off = [k \in ViewFields |-> off[k]] /\ up = [k \in ViewFields |-> up[k]]
  BY Zenon DEF SoundStore
<1>2. Keeps(v, off)
  BY <1>1 DEF Keeps, Flat, SoundStore, StoreTyped, ViewFields, Coherent, Deepest
<1>3. Keeps(v, up) /\ ~up.gis2d
  BY <1>1 DEF Keeps, Flat, SoundStore, StoreTyped, ViewFields, Coherent, Deepest
<1> HIDE DEF up
<1>4. LeaveGis2d(up) = up
  BY <1>3, Zenon DEF LeaveGis2d
<1>5. SetSlice(v, on) = IF ~on THEN off ELSE LeaveGis2d(up)
  BY DEF SetSlice, up
<1> QED BY <1>2, <1>3, <1>4, <1>5

LEMMA ParseGives ==
  ASSUME NEW link, "mode" \notin DOMAIN link
  PROVE  /\ DOMAIN Parse(link) =
              (IF "site" \in DOMAIN link THEN DOMAIN link ELSE DOMAIN link \ {"component"})
                \cup (IF DOMAIN link \cap {"building", "level", "unit"} = {} THEN {} ELSE {"mode"})
         /\ \A k \in DOMAIN Parse(link) : k # "mode" => Parse(link)[k] = link[k]
         /\ "mode" \in DOMAIN Parse(link) =>
              Parse(link)["mode"] = IF "unit" \in DOMAIN link THEN "unit"
                                    ELSE IF "level" \in DOMAIN link THEN "floor" ELSE "building"
<1> DEFINE keys == DOMAIN link
           kept == IF "site" \in keys THEN keys ELSE keys \ {"component"}
           mode == ImpliedMode(keys)
           all == kept \cup (IF mode = {} THEN {} ELSE {"mode"})
           one == CHOOSE m \in mode : TRUE
<1>1. Parse(link) = [k \in all |-> IF k = "mode" THEN one ELSE link[k]]
  BY Zenon DEF Parse
<1>2. mode = IF "unit" \in keys THEN {"unit"} ELSE IF "level" \in keys THEN {"floor"}
             ELSE IF "building" \in keys THEN {"building"} ELSE {}
  BY DEF ImpliedMode
<1>3. mode # {} => one \in mode
  OBVIOUS
<1> HIDE DEF one, mode
<1> QED BY <1>1, <1>2, <1>3

\* What a patch makes of the store.
LEMMA HydrateGives ==
  ASSUME NEW v, v = [k \in ViewFields |-> v[k]], NEW patch,
         NEW w, w = Hydrate(v, patch)
  PROVE  /\ w = [k \in ViewFields |-> w[k]]
         /\ \A k \in ViewFields \ {"services"} :
              w[k] = IF k \in DOMAIN patch THEN patch[k] ELSE v[k]
         /\ "services" \in DOMAIN patch => w.services = patch["services"]
         /\ "services" \notin DOMAIN patch =>
              IF w.underground THEN w.services ELSE w.services = v.services
<1> DEFINE set == [k \in DOMAIN v |-> IF k \in DOMAIN patch THEN patch[k] ELSE v[k]]
<1>1. set = [k \in ViewFields |-> IF k \in DOMAIN patch THEN patch[k] ELSE v[k]]
  OBVIOUS
<1> HIDE DEF set
<1>2. w = IF set.underground /\ "services" \notin DOMAIN patch
                          THEN [set EXCEPT !.services = TRUE] ELSE set
  BY DEF Hydrate, set
<1>3. CASE set.underground /\ "services" \notin DOMAIN patch
  <2>1. w = [set EXCEPT !.services = TRUE]
    BY <1>2, <1>3, Zenon
  <2>2. [set EXCEPT !.services = TRUE] = [k \in ViewFields |-> [set EXCEPT !.services = TRUE][k]]
    BY <1>1, Zenon
  <2> QED BY <1>1, <1>3, <2>1, <2>2 DEF ViewFields
<1>4. CASE ~(set.underground /\ "services" \notin DOMAIN patch)
  <2>1. w = set
    BY <1>2, <1>4, Zenon
  <2>2. set = [k \in ViewFields |-> set[k]]
    BY <1>1, Zenon
  <2> QED BY <1>1, <1>4, <2>1, <2>2 DEF ViewFields
<1> QED BY <1>3, <1>4

LEMMA LinkSound ==
  ASSUME NEW v, SoundStore(v), NEW link \in Links
  PROVE  LET w == Hydrate(v, Parse(link))
         IN /\ SoundStore(w)
            /\ w.underground /\ ~w.services => "services" \in DOMAIN link
<1> DEFINE patch == Parse(link)
           w == Hydrate(v, patch)
           keys == DOMAIN link
<1>1. keys \subseteq {"building", "level", "unit", "pipe", "site", "component", "basemap",
                       "explode", "underground", "stratum", "services", "overlay"}
  BY ViewAssumption DEF LinkValues
<1>2. /\ "building" \in keys => link["building"] \in Buildings
      /\ "level" \in keys => link["level"] \in Levels
      /\ "unit" \in keys => link["unit"] \in Flats
      /\ "site" \in keys => link["site"] \in Sites
      /\ "component" \in keys => link["component"] \in Sites
      /\ "basemap" \in keys => link["basemap"] \in Basemaps
  BY ViewAssumption DEF LinkValues
<1>3. /\ DOMAIN patch = (IF "site" \in keys THEN keys ELSE keys \ {"component"})
                          \cup (IF keys \cap {"building", "level", "unit"} = {}
                                THEN {} ELSE {"mode"})
      /\ \A k \in DOMAIN patch : k # "mode" => patch[k] = link[k]
      /\ "mode" \in DOMAIN patch =>
           patch["mode"] = IF "unit" \in keys THEN "unit"
                           ELSE IF "level" \in keys THEN "floor" ELSE "building"
  BY <1>1, ParseGives
<1> HIDE DEF patch
<1>4. /\ w = [k \in ViewFields |-> w[k]]
      /\ \A k \in ViewFields \ {"services"} : w[k] = IF k \in DOMAIN patch THEN patch[k] ELSE v[k]
      /\ "services" \notin DOMAIN patch /\ w.underground => w.services
  <2>1. v = [k \in ViewFields |-> v[k]]
    BY DEF SoundStore
  <2>2. w = Hydrate(v, patch)
    OBVIOUS
  <2> HIDE DEF w
  <2> QED BY <2>1, <2>2, HydrateGives
<1> HIDE DEF w, keys
<1>5. \A k \in ViewFields \ {"services", "mode", "component"} :
        w[k] = IF k \in keys THEN link[k] ELSE v[k]
  <2> SUFFICES ASSUME NEW k \in ViewFields \ {"services", "mode", "component"}
               PROVE  w[k] = IF k \in keys THEN link[k] ELSE v[k]
    OBVIOUS
  <2>1. k \in DOMAIN patch <=> k \in keys
    BY <1>3
  <2>2. w[k] = IF k \in DOMAIN patch THEN patch[k] ELSE v[k]
    BY <1>4
  <2>3. k \in DOMAIN patch => patch[k] = link[k]
    BY <1>3
  <2> QED BY <2>1, <2>2, <2>3
<1>a. /\ w.gis2d = v.gis2d /\ w.pre = v.pre
      /\ w.building = IF "building" \in keys THEN link["building"] ELSE v.building
      /\ w.level = IF "level" \in keys THEN link["level"] ELSE v.level
      /\ w.unit = IF "unit" \in keys THEN link["unit"] ELSE v.unit
      /\ w.site = IF "site" \in keys THEN link["site"] ELSE v.site
      /\ w.basemap = IF "basemap" \in keys THEN link["basemap"] ELSE v.basemap
  BY <1>1, <1>5 DEF ViewFields
<1>b. "site" \notin keys => w.component = v.component
  BY <1>1, <1>3, <1>4 DEF ViewFields
<1>c. w.mode = IF "unit" \in keys THEN "unit" ELSE IF "level" \in keys THEN "floor"
               ELSE IF "building" \in keys THEN "building" ELSE v.mode
  <2>1. w.mode = IF "mode" \in DOMAIN patch THEN patch["mode"] ELSE v.mode
    BY <1>4 DEF ViewFields
  <2>2. "mode" \in DOMAIN patch <=> keys \cap {"building", "level", "unit"} # {}
    BY <1>1, <1>3
  <2> QED BY <1>3, <2>1, <2>2
<1>6. StoreTyped(w)
  BY <1>2, <1>a, <1>c DEF SoundStore, StoreTyped, Modes
<1>7. SoundStore(w)
  BY <1>2, <1>4, <1>a, <1>b, <1>c, <1>6, ViewAssumption DEF SoundStore
<1>8. w.underground /\ ~w.services => "services" \in keys
  BY <1>3, <1>4
<1> QED BY <1>7, <1>8 DEF w, keys, patch

\* What a reload makes of the store.
LEMMA ReopenedGives ==
  ASSUME NEW v, SoundStore(v), NEW w, w = Reopened(v)
  PROVE  /\ w = [k \in ViewFields |-> w[k]]
         /\ \A k \in Deliberate \cup {"overlay"} : w[k] = v[k]
         /\ \A k \in {"road", "plot", "entry", "gis2d", "pre", "slice"} : w[k] = Fresh[k]
         /\ w.mode = IF v.unit # None THEN "unit" ELSE IF v.level # None THEN "floor"
                     ELSE IF v.building # None THEN "building" ELSE "city"
         /\ w.services # v.services => w.underground
         /\ v.services => w.services
<1> DEFINE told == {d \in Deliberate : v[d] # Fresh[d]}
           layers == IF \E d \in LayerKeys : v[d] # Fresh[d] THEN LayerKeys ELSE {}
           keys == told \cup layers
           link == [k \in keys |-> v[k]]
           patch == Parse(link)
<1>1. link = Serialise(v) /\ w = Hydrate(Fresh, patch) /\ DOMAIN link = keys
  BY DEF Serialise, Reopened
<1>2. \A k \in keys : link[k] = v[k]
  OBVIOUS
<1>3. "mode" \notin keys
  BY DEF Deliberate, LayerKeys
<1> HIDE DEF link
<1>4. /\ DOMAIN patch = (IF "site" \in keys THEN keys ELSE keys \ {"component"})
                          \cup (IF keys \cap {"building", "level", "unit"} = {}
                                THEN {} ELSE {"mode"})
      /\ \A k \in DOMAIN patch : k # "mode" => patch[k] = link[k]
      /\ "mode" \in DOMAIN patch =>
           patch["mode"] = IF "unit" \in keys THEN "unit"
                           ELSE IF "level" \in keys THEN "floor" ELSE "building"
  BY <1>1, <1>3, ParseGives
<1> HIDE DEF patch
<1>5. Fresh = [k \in ViewFields |-> Fresh[k]]
  BY FreshSound DEF SoundStore
<1>6. /\ w = [k \in ViewFields |-> w[k]]
      /\ \A k \in ViewFields \ {"services"} :
           w[k] = IF k \in DOMAIN patch THEN patch[k] ELSE Fresh[k]
      /\ "services" \in DOMAIN patch => w.services = patch["services"]
      /\ "services" \notin DOMAIN patch =>
           IF w.underground THEN w.services ELSE w.services = Fresh.services
  BY <1>1, <1>5, HydrateGives
<1>7. "component" \in keys => "site" \in keys
  BY DEF SoundStore, Fresh, Deliberate, LayerKeys
<1>8. keys \ {"mode"} = DOMAIN patch \ {"mode"}
  BY <1>4, <1>7
<1>9. \A k \in Deliberate \cup {"overlay"} : w[k] = v[k]
  <2> SUFFICES ASSUME NEW k \in Deliberate \cup {"overlay"} PROVE w[k] = v[k]
    OBVIOUS
  <2>1. k \in ViewFields \ {"services", "mode"}
    BY DEF Deliberate, ViewFields
  <2>2. k \notin keys => v[k] = Fresh[k]
    BY DEF LayerKeys
  <2> QED BY <1>2, <1>4, <1>6, <1>8, <2>1, <2>2
<1>10. \A k \in {"road", "plot", "entry", "gis2d", "pre", "slice"} : w[k] = Fresh[k]
  <2> SUFFICES ASSUME NEW k \in {"road", "plot", "entry", "gis2d", "pre", "slice"}
               PROVE  w[k] = Fresh[k]
    OBVIOUS
  <2>1. k \in ViewFields \ {"services", "mode"} /\ k \notin keys
    BY DEF Deliberate, ViewFields, LayerKeys
  <2> QED BY <1>6, <1>8, <2>1
<1>11. w.mode = IF v.unit # None THEN "unit" ELSE IF v.level # None THEN "floor"
                ELSE IF v.building # None THEN "building" ELSE "city"
  <2>1. w.mode = IF "mode" \in DOMAIN patch THEN patch["mode"] ELSE "city"
    BY <1>6 DEF ViewFields, Fresh
  <2>2. /\ "unit" \in keys <=> v.unit # None
        /\ "level" \in keys <=> v.level # None
        /\ "building" \in keys <=> v.building # None
    BY DEF Deliberate, LayerKeys, Fresh
  <2>3. "mode" \in DOMAIN patch <=> keys \cap {"building", "level", "unit"} # {}
    BY <1>3, <1>4
  <2> QED BY <1>4, <2>1, <2>2, <2>3
<1>12. /\ "services" \in DOMAIN patch => w.services = v.services
       /\ "services" \notin DOMAIN patch => ~v.services
  <2>1. "services" \in DOMAIN patch <=> "services" \in keys
    BY <1>4
  <2>2. "services" \notin keys => ~v.services
    BY DEF LayerKeys, Fresh
  <2> QED BY <1>2, <1>4, <1>6, <2>1, <2>2
<1>13. /\ w.services # v.services => w.underground
       /\ v.services => w.services
  <2>1. "services" \notin keys => v.services = FALSE
    BY DEF LayerKeys, Fresh
  <2>2. Fresh.services = FALSE
    BY DEF Fresh
  <2> QED BY <1>4, <1>6, <1>12, <2>1, <2>2
<1> QED BY <1>6, <1>9, <1>10, <1>11, <1>13

LEMMA ReopenedSound ==
  ASSUME NEW v, SoundStore(v)
  PROVE  Keeps(v, Reopened(v))
<1> DEFINE w == Reopened(v)
<1>1. /\ w = [k \in ViewFields |-> w[k]]
      /\ \A k \in Deliberate \cup {"overlay"} : w[k] = v[k]
      /\ \A k \in {"road", "plot", "entry", "gis2d", "pre", "slice"} : w[k] = Fresh[k]
      /\ w.mode = IF v.unit # None THEN "unit" ELSE IF v.level # None THEN "floor"
                  ELSE IF v.building # None THEN "building" ELSE "city"
      /\ v.services => w.services
  BY ReopenedGives
<1> HIDE DEF w
<1>2. /\ w.building = v.building /\ w.level = v.level /\ w.unit = v.unit /\ w.site = v.site
      /\ w.component = v.component /\ w.basemap = v.basemap /\ w.explode = v.explode
      /\ w.underground = v.underground
  BY <1>1 DEF Deliberate
<1>3. ~w.gis2d /\ w.pre = None /\ ~w.slice
  BY <1>1 DEF Fresh
<1>4. SoundStore(w)
  BY <1>1, <1>2, <1>3 DEF SoundStore, StoreTyped, Modes
<1>5. Coherent(v) => Coherent(w)
  BY <1>1, <1>2, <1>3 DEF Coherent, Deepest
<1> QED BY <1>3, <1>4, <1>5 DEF Keeps, Flat, w

-----------------------------------------------------------------------------
(* What the store remembers of the last choice *)

ChoiceKinds == {"any", "reset", "up", "building", "floor", "unit", "pipe", "road",
            "component", "entry", "plot"}

\* What was chosen last is in the store, and what would mask its card is not; for what
\* is chosen in the scene, outside the 2D view.
Answers(v, c) ==
  /\ c \in ChoiceKinds
  /\ c = "entry" => v.entry # None /\ v.overlay
  /\ c = "plot" => v.gis2d /\ v.plot # None /\ v.entry = None
  /\ c \in Stack \cup {"up"} /\ ~v.gis2d =>
       v.entry = None /\ (v.building # None => v.mode = Deepest(v))
  /\ c \in Stack /\ ~v.gis2d => v.building # None /\ Deepest(v) = c
  /\ c = "up" /\ ~v.gis2d => v.unit = None
  /\ c \in {"building", "unit"} /\ ~v.gis2d => v.road = None /\ v.pipe = None
  /\ c = "floor" /\ ~v.gis2d => v.road = None
  /\ c \in {"pipe", "road", "component"} /\ ~v.gis2d => v.entry = None
  /\ c = "pipe" /\ ~v.gis2d => v.pipe # None /\ v.road = None
  /\ c = "road" /\ ~v.gis2d => v.road # None
  /\ c = "component" /\ ~v.gis2d =>
       v.component # None /\ v.component = v.site /\ v.road = None /\ v.pipe = None

\* A setting is not a choice.
LEMMA AnswersKept ==
  ASSUME NEW v, NEW w, NEW c, Answers(v, c),
         w.entry = v.entry \/ (c # "entry" /\ w.entry = None),
         w.overlay = v.overlay \/ c # "entry",
         w.gis2d = v.gis2d, w.plot = v.plot, w.building = v.building, w.mode = v.mode,
         w.level = v.level, w.unit = v.unit, w.road = v.road, w.pipe = v.pipe,
         w.component = v.component, w.site = v.site
  PROVE  Answers(w, c)
BY DEF Answers, Deepest, Stack

LEMMA ChosenBuilding ==
  ASSUME NEW v, SoundStore(v), NEW b \in Buildings
  PROVE  /\ SelectBuilding(v, b).gis2d = v.gis2d
         /\ SelectBuilding(v, b).plot = v.plot
         /\ SelectBuilding(v, b).building = b
         /\ Answers(SelectBuilding(v, b), "any")
         /\ ~v.gis2d => Answers(SelectBuilding(v, b), "building")
         /\ v.gis2d /\ v.plot # None => Answers(SelectBuilding(v, b), "plot")
<1> DEFINE w == SelectBuilding(v, b)
<1>1. /\ w.gis2d = v.gis2d /\ w.plot = v.plot /\ w.building = b /\ w.entry = None
      /\ w.level = None /\ w.unit = None /\ w.road = None /\ w.pipe = None
      /\ ~v.gis2d => w.mode = "building"
  BY ViewAssumption DEF SoundStore, ViewFields, SelectBuilding
<1> HIDE DEF w
<1> QED BY <1>1, ViewAssumption DEF Answers, ChoiceKinds, Stack, Deepest, w

-----------------------------------------------------------------------------
(* Every step of the view *)

\* A citizen framed is at home, and a closed viewer has no choice to remember.
ViewInv ==
  /\ SoundStore(view)
  /\ session = "citizen" /\ frame = "framed" => view.building = Home[1]
  /\ frame = "closed" => chosen = "any"
  /\ Answers(view, chosen)

IncoherenceNamed ==
  ~Coherent(view') /\ Coherent(view) =>
    \/ \E link \in Links :
         OpenWith(link) /\ (view'.underground /\ ~view'.services => "services" \in DOMAIN link)
    \/ Frame /\ view.gis2d
    \/ view.gis2d /\ ~view'.gis2d /\ view'.building = view.pre.building
    \/ ToggleServices

RiseNamed == Flat(view) => Flat(view') \/ Open \/ Frame

LEMMA HomeBuilding == Home[1] \in Buildings /\ Home[2] \in Levels /\ Home = <<Home[1], Home[2]>>
BY ViewAssumption DEF Flats

LEMMA PinnedSame ==
  ASSUME ViewInv, NEW next, next.building = view.building
  PROVE  Pinned(next) = next
BY Zenon DEF ViewInv, Pinned

LEMMA PinnedKeeps ==
  ASSUME NEW v, NEW next, Keeps(v, next)
  PROVE  Keeps(v, Pinned(next))
<1>1. Keeps(next, SelectBuilding(next, Home[1]))
  BY HomeBuilding, SelectBuildingSound DEF Keeps
<1>2. Pinned(next) = next \/ Pinned(next) = SelectBuilding(next, Home[1])
  BY Zenon DEF Pinned
<1> QED BY <1>1, <1>2 DEF Keeps

\* A step that makes a sound store which remembers the choice.
LEMMA DoesSound ==
  ASSUME ViewInv, NEW next, NEW c, Does(next, c), SoundStore(next), Answers(Pinned(next), c)
  PROVE  ViewInv'
<1>1. SoundStore(Pinned(next))
  BY PinnedKeeps DEF Keeps, SoundStore
<1>2. session = "citizen" /\ frame = "framed" => Pinned(next).building = Home[1]
  <2>1. SelectBuilding(next, Home[1]).building = Home[1]
    BY HomeBuilding, ChosenBuilding
  <2> QED BY <2>1 DEF Pinned
<1> QED BY <1>1, <1>2 DEF Does, ViewInv

LEMMA DoesKeeps ==
  ASSUME ViewInv, NEW next, NEW c, Does(next, c), Keeps(view, next), Answers(Pinned(next), c)
  PROVE  ViewInv' /\ IncoherenceNamed /\ RiseNamed
<1>1. ViewInv'
  BY DoesSound DEF Keeps
<1>2. Keeps(view, view')
  BY PinnedKeeps DEF Does
<1> QED BY <1>1, <1>2 DEF Keeps, IncoherenceNamed, RiseNamed

LEMMA DoesThere ==
  ASSUME ViewInv, NEW next, NEW c, Does(next, c), Keeps(view, next),
         next.building = view.building, Answers(next, c)
  PROVE  ViewInv' /\ IncoherenceNamed /\ RiseNamed
BY PinnedSame, DoesKeeps

LEMMA ClicksStep ==
  ASSUME ViewInv, Clicks
  PROVE  ViewInv' /\ IncoherenceNamed /\ RiseNamed
<1>0. SoundStore(view)
  BY DEF ViewInv, SoundStore
<1>1. ASSUME NEW b \in Served, ClickBuilding(b) PROVE ViewInv' /\ IncoherenceNamed /\ RiseNamed
  <2>1. Does(SelectBuilding(view, b), "building") /\ ~view.gis2d /\ b \in Buildings
    BY <1>1, HomeBuilding DEF ClickBuilding, WallShown, FoundationsShown, Served
  <2>2. Keeps(view, SelectBuilding(view, b))
    BY <1>0, <2>1, SelectBuildingSound
  <2>3. Answers(Pinned(SelectBuilding(view, b)), "building")
    <3>1. SoundStore(SelectBuilding(view, b)) /\ ~SelectBuilding(view, b).gis2d
      BY <1>0, <2>1, <2>2, ChosenBuilding DEF Keeps
    <3>2. Answers(SelectBuilding(view, b), "building")
      BY <1>0, <2>1, ChosenBuilding
    <3>3. Answers(SelectBuilding(SelectBuilding(view, b), Home[1]), "building")
      BY <3>1, HomeBuilding, ChosenBuilding
    <3> QED BY <3>2, <3>3, Zenon DEF Pinned
  <2> QED BY <2>1, <2>2, <2>3, DoesKeeps
<1>2. ASSUME NEW l \in Levels, ClickFloor(l) PROVE ViewInv' /\ IncoherenceNamed /\ RiseNamed
  <2> DEFINE w == IsolateFloor(view, l)
  <2>1. Does(w, "floor") /\ view.mode # "city" /\ view.building # None
    BY <1>2 DEF ClickFloor, SlabShown, StackShown, Built
  <2>2. Keeps(view, w)
    BY <1>0, <2>1, IsolateFloorSound
  <2>3. w.building = view.building /\ Answers(w, "floor")
    BY <1>0, <2>1, ViewAssumption
    DEF SoundStore, ViewFields, IsolateFloor, Answers, ChoiceKinds, Deepest, Stack
  <2> HIDE DEF w
  <2> QED BY <2>1, <2>2, <2>3, DoesThere
<1>3. ASSUME NEW l \in Levels, ClickUnit(l) PROVE ViewInv' /\ IncoherenceNamed /\ RiseNamed
  <2> DEFINE w == OpenUnit(view, l, <<view.building, l>>)
  <2>1. Does(w, "unit") /\ view.mode # "city" /\ view.building # None
    BY <1>3 DEF ClickUnit, FlatShown, Built
  <2>2. Keeps(view, w)
    BY <1>0, <2>1, OpenUnitSound
  <2>3. <<view.building, l>> # None
    BY <1>0, <2>1, ViewAssumption DEF SoundStore, StoreTyped, Flats
  <2>4. w.building = view.building /\ Answers(w, "unit")
    BY <1>0, <2>1, <2>3 DEF SoundStore, ViewFields, OpenUnit, Answers, ChoiceKinds, Deepest, Stack
  <2> HIDE DEF w
  <2> QED BY <2>1, <2>2, <2>4, DoesThere
<1>4. ASSUME NEW p \in Pipes, ClickPipe(p) PROVE ViewInv' /\ IncoherenceNamed /\ RiseNamed
  <2> DEFINE w == SelectUtility(view, p)
  <2>1. Does(w, "pipe") /\ p # None
    BY <1>4, ViewAssumption DEF ClickPipe
  <2>2. Keeps(view, w)
    BY <1>0, SelectUtilitySound
  <2>3. w.building = view.building /\ Answers(w, "pipe")
    BY <1>0, <2>1 DEF SoundStore, ViewFields, SelectUtility, Answers, ChoiceKinds, Stack
  <2> HIDE DEF w
  <2> QED BY <2>1, <2>2, <2>3, DoesThere
<1>5. ASSUME NEW r \in Roads, ClickRoad(r) PROVE ViewInv' /\ IncoherenceNamed /\ RiseNamed
  <2> DEFINE w == SelectRoad(view, r)
  <2>1. Does(w, "road") /\ r # None
    BY <1>5, ViewAssumption DEF ClickRoad
  <2>2. Keeps(view, w)
    BY <1>0, SelectRoadSound
  <2>3. w.building = view.building /\ Answers(w, "road")
    BY <1>0, <2>1 DEF SoundStore, ViewFields, SelectRoad, Answers, ChoiceKinds, Stack
  <2> HIDE DEF w
  <2> QED BY <2>1, <2>2, <2>3, DoesThere
<1>6. ASSUME ClickComponent PROVE ViewInv' /\ IncoherenceNamed /\ RiseNamed
  <2> DEFINE w == SelectComponent(view, view.site)
  <2>1. Does(w, "component") /\ view.site # None
    BY <1>6 DEF ClickComponent, SiteShown
  <2>2. Keeps(view, w)
    BY <1>0, <2>1, SelectComponentSound
  <2>3. w.building = view.building /\ Answers(w, "component")
    BY <1>0, <2>1 DEF SoundStore, ViewFields, SelectComponent, Answers, ChoiceKinds, Stack
  <2> HIDE DEF w
  <2> QED BY <2>1, <2>2, <2>3, DoesThere
<1>7. ASSUME NEW e \in Entries, ClickEntry(e) PROVE ViewInv' /\ IncoherenceNamed /\ RiseNamed
  <2> DEFINE w == SelectEntry(view, e)
  <2>1. Does(w, "entry") /\ view.overlay /\ e # None
    BY <1>7, ViewAssumption DEF ClickEntry, EntriesShown
  <2>2. Keeps(view, w)
    BY <1>0, SelectEntrySound
  <2>3. w.building = view.building /\ Answers(w, "entry")
    BY <1>0, <2>1 DEF SoundStore, ViewFields, SelectEntry, Answers, ChoiceKinds, Stack
  <2> HIDE DEF w
  <2> QED BY <2>1, <2>2, <2>3, DoesThere
<1>8. ASSUME NEW p \in Plots, ClickPlot(p) PROVE ViewInv' /\ IncoherenceNamed /\ RiseNamed
  <2> DEFINE w == SetPlot(view, p)
  <2>1. Does(w, "plot") /\ view.gis2d /\ p # None
    BY <1>8, ViewAssumption DEF ClickPlot, PlotsShown
  <2>2. Keeps(view, w)
    BY <1>0, SetPlotSound
  <2>3. w.building = view.building /\ Answers(w, "plot")
    BY <1>0, <2>1 DEF SoundStore, ViewFields, SetPlot, Answers, ChoiceKinds, Stack
  <2> HIDE DEF w
  <2> QED BY <2>1, <2>2, <2>3, DoesThere
<1>9. ASSUME ClickNothing PROVE ViewInv' /\ IncoherenceNamed /\ RiseNamed
  <2> DEFINE w == IF view.gis2d THEN SetPlot(view, None) ELSE ClearAmbient(view)
  <2>1. Does(w, "any")
    BY <1>9 DEF ClickNothing
  <2>2. Keeps(view, w)
    BY <1>0, SetPlotSound, ClearAmbientSound
  <2>3. w.building = view.building
    BY <1>0 DEF SoundStore, ViewFields, SetPlot, ClearAmbient
  <2> HIDE DEF w
  <2>4. Answers(w, "any")
    BY DEF Answers, ChoiceKinds, Stack
  <2> QED BY <2>1, <2>2, <2>3, <2>4, DoesThere
<1> QED BY <1>1, <1>2, <1>3, <1>4, <1>5, <1>6, <1>7, <1>8, <1>9 DEF Clicks

LEMMA AnyAnswers == \A v : Answers(v, "any") /\ Answers(v, "reset")
BY DEF Answers, ChoiceKinds, Stack

LEMMA ControlsStep ==
  ASSUME ViewInv, Controls
  PROVE  ViewInv' /\ IncoherenceNamed /\ RiseNamed
<1>0. SoundStore(view) /\ Answers(view, chosen)
  BY DEF ViewInv, SoundStore
<1>1. ASSUME NEW b \in Served, PickFromList(b) PROVE ViewInv' /\ IncoherenceNamed /\ RiseNamed
  <2> DEFINE c == IF ~view.gis2d THEN "building" ELSE IF chosen = "plot" THEN "plot" ELSE "any"
  <2>1. Does(SelectBuilding(view, b), c) /\ b \in Buildings
    BY <1>1, HomeBuilding DEF PickFromList, Served
  <2>2. Keeps(view, SelectBuilding(view, b))
    BY <1>0, <2>1, SelectBuildingSound
  <2>3. Answers(Pinned(SelectBuilding(view, b)), c)
    <3>0. chosen = "plot" => view.plot # None
      BY <1>0 DEF Answers
    <3>1. /\ SoundStore(SelectBuilding(view, b))
          /\ SelectBuilding(view, b).gis2d = view.gis2d
          /\ SelectBuilding(view, b).plot = view.plot
      BY <1>0, <2>1, <2>2, ChosenBuilding DEF Keeps
    <3>2. Answers(SelectBuilding(view, b), c)
      BY <1>0, <2>1, <3>0, ChosenBuilding
    <3>3. Answers(SelectBuilding(SelectBuilding(view, b), Home[1]), c)
      BY <3>0, <3>1, HomeBuilding, ChosenBuilding
    <3> QED BY <3>2, <3>3, Zenon DEF Pinned
  <2> QED BY <2>1, <2>2, <2>3, DoesKeeps
<1>2. ASSUME NEW p \in Plots, OpenPlot(p) PROVE ViewInv' /\ IncoherenceNamed /\ RiseNamed
  <2> DEFINE w == SetPlot(view, p)
  <2>1. Does(w, "plot") /\ view.gis2d /\ p # None
    BY <1>2, ViewAssumption DEF OpenPlot
  <2>2. Keeps(view, w)
    BY <1>0, SetPlotSound
  <2>3. w.building = view.building /\ Answers(w, "plot")
    BY <1>0, <2>1 DEF SoundStore, ViewFields, SetPlot, Answers, ChoiceKinds, Stack
  <2> HIDE DEF w
  <2> QED BY <2>1, <2>2, <2>3, DoesThere
<1>u. ASSUME Does(IsolateFloor(view, None), "up"), view.mode # "city" PROVE ViewInv' /\ IncoherenceNamed /\ RiseNamed
  <2> DEFINE w == IsolateFloor(view, None)
  <2>1. Keeps(view, w)
    BY <1>0, <1>u, IsolateFloorSound
  <2>2. w.building = view.building /\ Answers(w, "up")
    BY <1>0, <1>u DEF SoundStore, ViewFields, IsolateFloor, Answers, ChoiceKinds, Deepest, Stack
  <2>3. Does(w, "up")
    BY <1>u
  <2> HIDE DEF w
  <2> QED BY <2>1, <2>2, <2>3, DoesThere
<1>3. ASSUME Back PROVE ViewInv' /\ IncoherenceNamed /\ RiseNamed
  <2>1. CASE view.unit # None
    <3> DEFINE w == DropUnit(view)
    <3>1. Does(w, "up") /\ view.mode # "city"
      BY <1>3, <2>1 DEF Back
    <3>2. Keeps(view, w)
      BY <1>0, <3>1, DropUnitSound
    <3>3. w.building = view.building /\ Answers(w, "up")
      BY <1>0, <3>1 DEF SoundStore, ViewFields, DropUnit, Answers, ChoiceKinds, Deepest, Stack
    <3> HIDE DEF w
    <3> QED BY <3>1, <3>2, <3>3, DoesThere
  <2>2. CASE view.unit = None /\ view.level # None
    BY <1>3, <1>u, <2>2 DEF Back
  <2>3. CASE view.unit = None /\ view.level = None
    <3>1. Does(SelectBuilding(view, None), "any")
      BY <1>3, <2>3 DEF Back
    <3>2. Keeps(view, SelectBuilding(view, None))
      BY <1>0, SelectBuildingSound
    <3> QED BY <3>1, <3>2, AnyAnswers, DoesKeeps
  <2> QED BY <2>1, <2>2, <2>3
<1>4. ASSUME ToggleGis2d PROVE ViewInv' /\ IncoherenceNamed /\ RiseNamed
  <2> DEFINE w == Toggled(view)
  <2>1. Does(w, "any")
    BY <1>4 DEF ToggleGis2d, Toggled
  <2>2. w = Toggled(view)
    OBVIOUS
  <2> HIDE DEF w
  <2>3. /\ SoundStore(w) /\ (Flat(view) => Flat(w)) /\ w.building = view.building
        /\ view.gis2d => ~w.gis2d
        /\ Coherent(view) => \/ Coherent(w)
                             \/ view.gis2d /\ view.building = view.pre.building
    <3>1. Toggles(view, w)
      BY <1>0, <2>2, SetGis2dSound
    <3> QED BY <3>1 DEF Toggles
  <2>5. Pinned(w) = w
    BY <2>3, PinnedSame
  <2>6. view' = w
    BY <2>1, <2>5 DEF Does
  <2>7. ViewInv'
    BY <2>1, <2>3, AnyAnswers, DoesSound
  <2> QED BY <2>3, <2>6, <2>7 DEF IncoherenceNamed, RiseNamed
<1>5. ASSUME ToggleUnderground PROVE ViewInv' /\ IncoherenceNamed /\ RiseNamed
  <2> DEFINE w == SetUnderground(view, ~view.underground)
  <2>1. Does(w, "any") /\ (~view.underground) \in BOOLEAN
    BY <1>5 DEF ToggleUnderground
  <2>2. Keeps(view, w)
    BY <1>0, <2>1, SetUndergroundSound
  <2> HIDE DEF w
  <2> QED BY <2>1, <2>2, AnyAnswers, DoesKeeps
<1>6. ASSUME Strata PROVE ViewInv' /\ IncoherenceNamed /\ RiseNamed
  <2>1. ASSUME Does(ToggleStratum(view), "any") PROVE ViewInv' /\ IncoherenceNamed /\ RiseNamed
    BY <1>0, <2>1, ToggleStratumSound, AnyAnswers, DoesKeeps
  <2>2. ASSUME NEW on \in BOOLEAN, Does([view EXCEPT !.stratum = on], chosen) PROVE ViewInv' /\ IncoherenceNamed /\ RiseNamed
    <3> DEFINE w == [view EXCEPT !.stratum = on]
    <3>1. Keeps(view, w)
      BY <1>0, SetStratumSound
    <3>2. w.building = view.building /\ Answers(w, chosen)
      <4>1. /\ w.entry = view.entry /\ w.overlay = view.overlay /\ w.gis2d = view.gis2d
            /\ w.plot = view.plot /\ w.building = view.building /\ w.mode = view.mode
            /\ w.level = view.level /\ w.unit = view.unit /\ w.road = view.road
            /\ w.pipe = view.pipe /\ w.component = view.component /\ w.site = view.site
        BY <1>0 DEF SoundStore, ViewFields
      <4> HIDE DEF w
      <4> QED BY <1>0, <4>1, AnswersKept
    <3>3. Does(w, chosen)
      BY <2>2
    <3> HIDE DEF w
    <3> QED BY <3>1, <3>2, <3>3, DoesThere
  <2> QED BY <1>6, <2>1, <2>2 DEF Strata
<1>7. ASSUME ToggleServices PROVE ViewInv' /\ IncoherenceNamed /\ RiseNamed
  <2> DEFINE w == [view EXCEPT !.services = ~view.services]
  <2>1. Does(w, chosen)
    BY <1>7 DEF ToggleServices
  <2>2. SoundStore(w) /\ (Flat(view) => Flat(w))
    BY <1>0, ServicesSound
  <2>3. w.building = view.building /\ Answers(w, chosen)
    <3>1. /\ w.entry = view.entry /\ w.overlay = view.overlay /\ w.gis2d = view.gis2d
          /\ w.plot = view.plot /\ w.building = view.building /\ w.mode = view.mode
          /\ w.level = view.level /\ w.unit = view.unit /\ w.road = view.road
          /\ w.pipe = view.pipe /\ w.component = view.component /\ w.site = view.site
      BY <1>0 DEF SoundStore, ViewFields
    <3> HIDE DEF w
    <3> QED BY <1>0, <3>1, AnswersKept
  <2> HIDE DEF w
  <2>4. Pinned(w) = w
    BY <2>3, PinnedSame
  <2>5. ViewInv' /\ view' = w
    BY <2>1, <2>2, <2>3, <2>4, DoesSound DEF Does
  <2> QED BY <1>7, <2>2, <2>5 DEF IncoherenceNamed, RiseNamed
<1>8. ASSUME Toggle22A PROVE ViewInv' /\ IncoherenceNamed /\ RiseNamed
  <2> DEFINE w == ToggleOverlay(view)
             c == IF chosen = "entry" THEN "any" ELSE chosen
  <2>1. Does(w, c)
    BY <1>8 DEF Toggle22A
  <2>2. Keeps(view, w)
    BY <1>0, ToggleOverlaySound
  <2>3. w.building = view.building /\ Answers(w, c)
    <3>1. /\ (w.entry = view.entry \/ w.entry = None) /\ w.gis2d = view.gis2d
          /\ w.plot = view.plot /\ w.building = view.building /\ w.mode = view.mode
          /\ w.level = view.level /\ w.unit = view.unit /\ w.road = view.road
          /\ w.pipe = view.pipe /\ w.component = view.component /\ w.site = view.site
      BY <1>0 DEF SoundStore, ViewFields, ToggleOverlay
    <3>2. w.gis2d = view.gis2d
      BY <1>0 DEF SoundStore, ViewFields, ToggleOverlay
    <3>3. c # "entry" /\ Answers(view, c)
      BY <1>0, AnyAnswers
    <3> HIDE DEF w, c
    <3> QED BY <3>1, <3>2, <3>3, AnswersKept
  <2> HIDE DEF w, c
  <2> QED BY <2>1, <2>2, <2>3, DoesThere
<1>9. ASSUME NEW l \in Levels, Ladder(l) PROVE ViewInv' /\ IncoherenceNamed /\ RiseNamed
  <2>1. CASE view.level = l
    BY <1>9, <1>u, <2>1 DEF Ladder
  <2>2. CASE view.level # l
    <3> DEFINE w == IsolateFloor(view, l)
    <3>1. Does(w, "floor") /\ view.mode # "city" /\ view.building # None
      BY <1>9, <2>2 DEF Ladder
    <3>2. Keeps(view, w)
      BY <1>0, <3>1, IsolateFloorSound
    <3>3. w.building = view.building /\ Answers(w, "floor")
      BY <1>0, <3>1, ViewAssumption
      DEF SoundStore, ViewFields, IsolateFloor, Answers, ChoiceKinds, Deepest, Stack
    <3> HIDE DEF w
    <3> QED BY <3>1, <3>2, <3>3, DoesThere
  <2> QED BY <2>1, <2>2
<1>10. ASSUME NEW s \in Sites, ToggleSite(s) PROVE ViewInv' /\ IncoherenceNamed /\ RiseNamed
  <2> DEFINE to == IF view.site = s THEN None ELSE s
             w == SelectSite(view, to)
  <2>1. Does(w, "any") /\ to \in Sites \cup {None}
    BY <1>10 DEF ToggleSite
  <2>2. Keeps(view, w)
    BY <1>0, <2>1, SelectSiteSound
  <2> HIDE DEF w
  <2> QED BY <2>1, <2>2, AnyAnswers, DoesKeeps
<1>11. ASSUME NEW on \in BOOLEAN, Explode(on) PROVE ViewInv' /\ IncoherenceNamed /\ RiseNamed
  <2> DEFINE w == SetExplode(view, on)
  <2>1. Does(w, chosen) /\ view.mode # "city" /\ ~view.gis2d
    BY <1>11 DEF Explode
  <2>2. Keeps(view, w)
    BY <1>0, <2>1, SetExplodeSound
  <2>3. w.building = view.building /\ Answers(w, chosen)
    <3>1. /\ w.entry = view.entry /\ w.overlay = view.overlay /\ w.gis2d = view.gis2d
          /\ w.plot = view.plot /\ w.building = view.building /\ w.mode = view.mode
          /\ w.level = view.level /\ w.unit = view.unit /\ w.road = view.road
          /\ w.pipe = view.pipe /\ w.component = view.component /\ w.site = view.site
      BY <1>0, <2>1 DEF SoundStore, ViewFields, SetExplode, LeaveGis2d
    <3> HIDE DEF w
    <3> QED BY <1>0, <3>1, AnswersKept
  <2> HIDE DEF w
  <2> QED BY <2>1, <2>2, <2>3, DoesThere
<1>12. ASSUME NEW on \in BOOLEAN, Slice(on) PROVE ViewInv' /\ IncoherenceNamed /\ RiseNamed
  <2> DEFINE w == SetSlice(view, on)
  <2>1. Does(w, chosen) /\ view.building # None /\ ~view.gis2d
    BY <1>0, <1>12 DEF Slice
  <2>2. Keeps(view, w)
    BY <1>0, <2>1, SetSliceSound
  <2>3. w.building = view.building /\ Answers(w, chosen)
    <3>1. /\ w.entry = view.entry /\ w.overlay = view.overlay /\ w.gis2d = view.gis2d
          /\ w.plot = view.plot /\ w.building = view.building /\ w.mode = view.mode
          /\ w.level = view.level /\ w.unit = view.unit /\ w.road = view.road
          /\ w.pipe = view.pipe /\ w.component = view.component /\ w.site = view.site
      BY <1>0, <2>1 DEF SoundStore, ViewFields, SetSlice, LeaveGis2d
    <3> HIDE DEF w
    <3> QED BY <1>0, <3>1, AnswersKept
  <2> HIDE DEF w
  <2> QED BY <2>1, <2>2, <2>3, DoesThere
<1>13. ASSUME NEW m \in Basemaps, ChooseBasemap(m) PROVE ViewInv' /\ IncoherenceNamed /\ RiseNamed
  <2> DEFINE w == [view EXCEPT !.basemap = m]
  <2>1. view' = w /\ session' = session /\ frame' = frame /\ chosen' = chosen
    BY <1>13 DEF ChooseBasemap
  <2>2. Keeps(view, w)
    BY <1>0, BasemapSound
  <2>3. w.building = view.building /\ Answers(w, chosen)
    <3>1. /\ w.entry = view.entry /\ w.overlay = view.overlay /\ w.gis2d = view.gis2d
          /\ w.plot = view.plot /\ w.building = view.building /\ w.mode = view.mode
          /\ w.level = view.level /\ w.unit = view.unit /\ w.road = view.road
          /\ w.pipe = view.pipe /\ w.component = view.component /\ w.site = view.site
      BY <1>0 DEF SoundStore, ViewFields
    <3> HIDE DEF w
    <3> QED BY <1>0, <3>1, AnswersKept
  <2> HIDE DEF w
  <2> QED BY <2>1, <2>2, <2>3 DEF Keeps, ViewInv, IncoherenceNamed, RiseNamed
<1>14. ASSUME Findings PROVE ViewInv' /\ IncoherenceNamed /\ RiseNamed
  BY <1>0, <1>14, ShowFindingsSound, AnyAnswers, DoesKeeps DEF Findings
<1>15. ASSUME Reset PROVE ViewInv' /\ IncoherenceNamed /\ RiseNamed
  BY <1>0, <1>15, ResetViewSound, AnyAnswers, DoesKeeps DEF Reset
<1> QED
  BY <1>1, <1>2, <1>3, <1>4, <1>5, <1>6, <1>7, <1>8, <1>9, <1>10, <1>11, <1>12, <1>13,
     <1>14, <1>15
  DEF Controls


LEMMA FrameStep ==
  ASSUME ViewInv, Frame
  PROVE  ViewInv' /\ IncoherenceNamed
<1>0. SoundStore(view)
  BY DEF ViewInv
<1>1. CASE UNCHANGED <<view, chosen>> /\ frame' = "idle"
  BY <1>1 DEF Frame, ViewInv, IncoherenceNamed
<1>2. CASE /\ view' = OpenUnit(SelectBuilding(view, Home[1]), Home[2], Home)
           /\ frame' = "framed"
           /\ chosen' = IF view.gis2d THEN "any" ELSE "unit"
  <2> DEFINE u == SelectBuilding(view, Home[1])
             w == OpenUnit(u, Home[2], Home)
  <2>1. SoundStore(u) /\ Keeps(view, u) /\ u.building = Home[1] /\ u.gis2d = view.gis2d
    BY <1>0, HomeBuilding, SelectBuildingSound, ChosenBuilding DEF Keeps
  <2>2. u.entry = None
    BY <1>0 DEF SoundStore, ViewFields, SelectBuilding
  <2> HIDE DEF u
  <2>3. u.building # None /\ w = OpenUnit(u, Home[2], <<u.building, Home[2]>>)
    BY <2>1, HomeBuilding, ViewAssumption
  <2>4. SoundStore(w) /\ (~u.gis2d => Keeps(u, w))
    BY <2>1, <2>3, HomeBuilding, OpenUnitSound
  <2>5. /\ w.building = Home[1] /\ w.entry = None /\ w.gis2d = u.gis2d /\ w.unit = Home
        /\ w.road = None /\ w.pipe = None /\ w.mode = "unit"
    BY <2>1, <2>2 DEF SoundStore, ViewFields, OpenUnit
  <2> HIDE DEF w
  <2>6. w.unit # None /\ w.building # None
    BY <2>5, HomeBuilding, ViewAssumption
  <2>7. ~w.gis2d => Answers(w, "unit")
    BY <2>5, <2>6 DEF Answers, ChoiceKinds, Stack, Deepest
  <2>8. view' = w
    BY <1>2 DEF w, u
  <2>9. ViewInv'
    BY <1>2, <2>1, <2>4, <2>5, <2>7, <2>8, AnyAnswers DEF ViewInv
  <2> QED BY <2>1, <2>4, <2>8, <2>9 DEF Keeps, IncoherenceNamed
<1>3. CASE /\ view' = IsolateFloor(SelectBuilding(view, Home[1]), Home[2])
           /\ frame' = "framed"
           /\ chosen' = IF view.gis2d THEN "any" ELSE "floor"
  <2> DEFINE u == SelectBuilding(view, Home[1])
             w == IsolateFloor(u, Home[2])
  <2>1. SoundStore(u) /\ Keeps(view, u) /\ u.building = Home[1] /\ u.gis2d = view.gis2d
    BY <1>0, HomeBuilding, SelectBuildingSound, ChosenBuilding DEF Keeps
  <2>2. u.entry = None /\ u.road = None /\ (~view.gis2d => u.mode = "building")
    BY <1>0, HomeBuilding, ViewAssumption DEF SoundStore, ViewFields, SelectBuilding
  <2> HIDE DEF u
  <2>3. u.building # None /\ Home[2] # None
    BY <2>1, HomeBuilding, ViewAssumption
  <2>4. SoundStore(w) /\ (~u.gis2d => Keeps(u, w))
    BY <2>1, <2>2, HomeBuilding, IsolateFloorSound
  <2>5. /\ w.building = Home[1] /\ w.entry = None /\ w.gis2d = u.gis2d /\ w.unit = None
        /\ w.level = Home[2] /\ w.road = None /\ w.mode = "floor"
    BY <2>1, <2>2, <2>3 DEF SoundStore, ViewFields, IsolateFloor
  <2> HIDE DEF w
  <2>6. w.level # None /\ w.building # None
    BY <2>1, <2>3, <2>5
  <2>7. ~w.gis2d => Answers(w, "floor")
    BY <2>5, <2>6 DEF Answers, ChoiceKinds, Stack, Deepest
  <2>8. view' = w
    BY <1>3 DEF w, u
  <2>9. ViewInv'
    BY <1>3, <2>1, <2>4, <2>5, <2>7, <2>8, AnyAnswers DEF ViewInv
  <2> QED BY <2>1, <2>4, <2>8, <2>9 DEF Keeps, IncoherenceNamed
<1> QED BY <1>1, <1>2, <1>3 DEF Frame

\* Every step of the viewer keeps its store sound and the last choice in it, and what
\* makes the store incoherent, or lifts something off the plan of the 2D view, is named.
LEMMA ViewStep ==
  ASSUME ViewInv, Next
  PROVE  ViewInv' /\ IncoherenceNamed /\ RiseNamed
<1>0. SoundStore(view)
  BY DEF ViewInv
<1>1. ASSUME NEW link \in Links, OpenWith(link) PROVE ViewInv' /\ IncoherenceNamed /\ RiseNamed
  <2> DEFINE w == Hydrate(view, Parse(link))
  <2>1. SoundStore(w) /\ (w.underground /\ ~w.services => "services" \in DOMAIN link)
    BY <1>0, LinkSound
  <2> HIDE DEF w
  <2>2. view' = w
    BY <1>1 DEF OpenWith, w
  <2>3. /\ chosen' = "any" /\ session' = session /\ frame' # "framed" /\ frame' # "closed"
    BY <1>1 DEF OpenWith, ViewInv, Mounted
  <2>4. ViewInv'
    BY <2>1, <2>2, <2>3, AnyAnswers DEF ViewInv
  <2>5. IncoherenceNamed
    BY <1>1, <2>1, <2>2 DEF IncoherenceNamed
  <2>6. RiseNamed
    BY <1>1 DEF RiseNamed, Open
  <2> QED BY <2>4, <2>5, <2>6
<1>2. CASE Leave
  BY <1>2, AnyAnswers DEF Leave, ViewInv, IncoherenceNamed, RiseNamed
<1>3. CASE Reload
  <2> DEFINE w == Reopened(view)
  <2>1. Keeps(view, w)
    BY <1>0, ReopenedSound
  <2> HIDE DEF w
  <2>2. view' = w
    BY <1>3 DEF Reload, w
  <2> QED BY <1>3, <2>1, <2>2, AnyAnswers
          DEF Reload, Mounted, ViewInv, IncoherenceNamed, RiseNamed, Keeps
<1>4. CASE Me
  BY <1>4 DEF Me, ViewInv, IncoherenceNamed, RiseNamed
<1>5. CASE Frame
  BY <1>5, FrameStep DEF RiseNamed
<1> QED BY <1>1, <1>2, <1>3, <1>4, <1>5, ClicksStep, ControlsStep DEF Next, Open

-----------------------------------------------------------------------------
(* The camera *)

GlobeInv == ViewInv /\ CameraOnSubject

LEMMA GlobeStarts == GlobeInit => GlobeInv
<1> SUFFICES ASSUME GlobeInit PROVE GlobeInv
  OBVIOUS
<1>1. SoundStore(view) /\ chosen = "any" /\ frame = "closed"
  BY FreshSound DEF GlobeInit, Init
<1> QED BY <1>1, AnyAnswers DEF GlobeInit, GlobeInv, ViewInv, CameraOnSubject

\* The subject is a matter of what is watched and of the data on the active building.
LEMMA WatchedAgree ==
  ASSUME NEW v, NEW d, NEW w, NEW e, Watched(v, d) = Watched(w, e),
         v.building \in d.buildings <=> v.building \in e.buildings,
         v.building \in d.detail <=> v.building \in e.detail
  PROVE  Subject(v, d) = Subject(w, e) /\ v.gis2d = w.gis2d
<1>1. /\ v.mode = w.mode /\ v.building = w.building /\ v.level = w.level
      /\ v.unit = w.unit /\ v.underground = w.underground /\ v.gis2d = w.gis2d
      /\ Indexed(v, d) = Indexed(w, e)
  BY DEF Watched
<1>2. Framing(v, d) = Framing(w, e)
  BY <1>1, Zenon DEF Framing
<1> QED BY <1>1, <1>2 DEF Subject

\* A flight goes to the subject unless there is none or it gives the pose back.
LEMMA FlightEnds ==
  ASSUME NEW v, NEW d, Fly(v, d), ~v.gis2d
  PROVE  Subject(v, d) \in {camera', None} \/ given'
BY DEF Fly

\* A run, or a step that leaves what the run would see as it was.
LEMMA CameraStep ==
  ASSUME CameraOnSubject,
         \/ Fly(view', data')
         \/ /\ Still
            /\ ready' => ready /\ frame # "closed"
            /\ ready' => Watched(view', data') = Watched(view, data)
            /\ view.building \in data'.buildings <=> view.building \in data.buildings
            /\ view.building \in data'.detail <=> view.building \in data.detail
  PROVE  CameraOnSubject'
<1> SUFFICES ASSUME frame' # "closed", ready', ~view'.gis2d
             PROVE  Subject(view', data') \in {camera', None} \/ given'
  BY DEF CameraOnSubject
<1>1. CASE Fly(view', data')
  BY <1>1, FlightEnds
<1>2. CASE ~Fly(view', data')
  <2>1. Subject(view', data') = Subject(view, data) /\ view'.gis2d = view.gis2d
    BY <1>2, WatchedAgree
  <2> QED BY <1>2, <2>1 DEF CameraOnSubject, Still
<1> QED BY <1>1, <1>2

LEMMA OpenViewer == Me \/ Frame \/ Clicks \/ Controls => frame # "closed"
<1>1. Me \/ Frame => frame # "closed"
  BY DEF Me, Frame
<1>2. Clicks => frame # "closed"
  BY DEF Clicks, ClickBuilding, ClickFloor, ClickUnit, ClickPipe, ClickRoad, ClickComponent,
         ClickEntry, ClickPlot, ClickNothing, Does
<1>3. Controls => frame # "closed"
  BY DEF Controls, PickFromList, OpenPlot, Back, Ladder, ToggleSite, ToggleGis2d,
         ToggleUnderground, Strata, ToggleServices, Toggle22A, Explode, Slice, ChooseBasemap,
         Findings, Reset, Does
<1> QED BY <1>1, <1>2, <1>3

\* What arrives changes no choice, and the camera follows it.
LEMMA DataStep ==
  ASSUME CameraOnSubject,
         Collect \/ Settle \/ SitesArrive \/ \E b \in Buildings : DocumentArrives(b)
  PROVE  CameraOnSubject' /\ UNCHANGED vars
<1>1. CASE Collect
  <2>1. UNCHANGED vars /\ UNCHANGED ready /\ (Fly(view, data') \/ (~ready /\ Still))
    BY <1>1 DEF Collect
  <2>2. view' = view
    BY <2>1 DEF vars
  <2>3. CASE Fly(view, data')
    BY <2>1, <2>2, <2>3, CameraStep
  <2>4. CASE ~ready
    BY <2>1, <2>4 DEF CameraOnSubject
  <2> QED BY <2>1, <2>3, <2>4
<1>2. CASE Settle
  <2>1. UNCHANGED vars /\ UNCHANGED data /\ Fly(view, data)
    BY <1>2 DEF Settle
  <2>2. view' = view
    BY <2>1 DEF vars
  <2> QED BY <2>1, <2>2, CameraStep
<1>3. CASE SitesArrive
  <2>1. /\ UNCHANGED vars /\ UNCHANGED ready /\ Follow
        /\ \E all \in SUBSET Sites : data' = [data EXCEPT !.sites = all]
    BY <1>3 DEF SitesArrive
  <2>2. data'.buildings = data.buildings /\ data'.detail = data.detail
    BY <2>1
  <2>3. frame' = frame
    BY <2>1 DEF vars
  <2>4. CASE frame = "closed"
    BY <2>1, <2>3, <2>4 DEF CameraOnSubject
  <2>5. CASE frame # "closed"
    BY <2>1, <2>2, <2>5, CameraStep DEF Follow
  <2> QED BY <2>1, <2>4, <2>5
<1>4. ASSUME NEW b \in Buildings, DocumentArrives(b) PROVE CameraOnSubject' /\ UNCHANGED vars
  <2>1. PICK out \in {{}} \cup {{c} : c \in data.detail \ {b}} :
          /\ data' = [data EXCEPT !.detail = (@ \ out) \cup {b}]
          /\ IF ready /\ view.building \in {b} \cup out THEN Fly(view, data') ELSE Still
          /\ UNCHANGED <<vars, ready>>
    BY <1>4 DEF DocumentArrives, Cached
  <2>2. view' = view /\ frame' = frame
    BY <2>1 DEF vars
  <2>3. CASE Fly(view, data')
    BY <2>1, <2>2, <2>3, CameraStep
  <2>4. CASE ready /\ frame # "closed" /\ view.building \notin {b} \cup out /\ Still
    <3>1. /\ data'.buildings = data.buildings /\ data'.sites = data.sites
          /\ view.building \in data'.detail <=> view.building \in data.detail
      BY <2>1, <2>4
    <3>2. Watched(view', data') = Watched(view, data)
      BY <2>2, <3>1 DEF Watched, Indexed
    <3> QED BY <2>1, <2>4, <3>1, <3>2, CameraStep
  <2>5. CASE ~ready \/ frame = "closed"
    BY <2>1, <2>2, <2>5 DEF CameraOnSubject
  <2> QED BY <2>1, <2>3, <2>4, <2>5
<1> QED BY <1>1, <1>2, <1>3, <1>4

LEMMA GlobeStep ==
  ASSUME GlobeInv, GlobeNext
  PROVE  GlobeInv' /\ IncoherenceNamed /\ RiseNamed
<1>0. CameraOnSubject /\ ViewInv
  BY DEF GlobeInv
<1>1. CASE Next /\ Mount
  BY <1>0, <1>1, ViewStep DEF Mount, CameraOnSubject, GlobeInv
<1>2. CASE (Me \/ Frame \/ Clicks \/ Controls) /\ UNCHANGED <<data, ready>> /\ Follow
  <2>1. CameraOnSubject'
    BY <1>0, <1>2, OpenViewer, CameraStep DEF Follow
  <2>2. Next
    BY <1>2 DEF Next
  <2> QED BY <1>0, <2>1, <2>2, ViewStep DEF GlobeInv
<1>3. CASE Collect \/ Settle \/ SitesArrive \/ \E b \in Buildings : DocumentArrives(b)
  <2>1. CameraOnSubject' /\ UNCHANGED vars
    BY <1>0, <1>3, DataStep
  <2>2. ViewInv' /\ view' = view
    BY <1>0, <2>1 DEF ViewInv, vars
  <2> QED BY <2>1, <2>2 DEF GlobeInv, IncoherenceNamed, RiseNamed
<1> QED BY <1>1, <1>2, <1>3 DEF GlobeNext, Next

LEMMA GlobeStutters ==
  ASSUME GlobeInv, UNCHANGED globeVars
  PROVE  GlobeInv'
BY DEF globeVars, GlobeInv, ViewInv, CameraOnSubject, Subject, Framing, Indexed

LEMMA ViewKept == GlobeSpec => []GlobeInv
<1>1. GlobeInv /\ [GlobeNext]_globeVars => GlobeInv'
  BY GlobeStep, GlobeStutters
<1> QED BY <1>1, GlobeStarts, PTL DEF GlobeSpec

-----------------------------------------------------------------------------
(* The properties *)

LEMMA CardAnswers ==
  ASSUME ViewInv
  PROVE  CardIsLastChoice
<1>1. SoundStore(view) /\ Answers(view, chosen)
  BY DEF ViewInv
<1>2. CASE chosen \in {"entry", "plot"}
  BY <1>1, <1>2, Zenon DEF Answers, CardIsLastChoice, Card
<1> QED BY <1>1, <1>2 DEF Answers, CardIsLastChoice, Card, Deepest, Stack, ChoiceKinds

LEMMA ReopensSame ==
  ASSUME ViewInv
  PROVE  ReopenedSame
<1> DEFINE r == Reopened(view)
<1>1. /\ \A k \in Deliberate \cup {"overlay"} : r[k] = view[k]
      /\ r.mode = IF view.unit # None THEN "unit" ELSE IF view.level # None THEN "floor"
                  ELSE IF view.building # None THEN "building" ELSE "city"
      /\ r.services # view.services => r.underground
  BY ReopenedGives DEF ViewInv
<1> HIDE DEF r
<1>3. r.services # view.services => view.underground
  BY <1>1 DEF Deliberate
<1>2. Coherent(view) /\ ~view.gis2d => r.mode = view.mode
  BY <1>1 DEF Coherent, Deepest
<1> QED BY <1>1, <1>2, <1>3, Zenon DEF ReopenedSame, r

LEMMA StoreyOnce ==
  ASSUME ViewInv
  PROVE  DrawnOnce
<1> SUFFICES ASSUME view.building # None, NEW l \in Levels
             PROVE  LET by == SolidAt(view, l)
                    IN  /\ \A x, y \in by : x = y
                        /\ by = {} => view.gis2d \/ view.underground \/ view.level \notin {None, l}
  BY DEF DrawnOnce
<1>1. view.mode \in Modes
  BY DEF ViewInv, SoundStore, StoreTyped
<1>2. /\ "prism" \in SolidAt(view, l) <=> ~view.gis2d /\ view.mode = "city"
      /\ "model" \in SolidAt(view, l) <=> view.mode = "building" /\ ~view.slice
      /\ "stack" \in SolidAt(view, l) <=> SlabShown(view, All, l)
      /\ SolidAt(view, l) \subseteq {"prism", "model", "stack"}
  BY DEF SolidAt, CapShown, ModelShown, ActiveHidden, All
<1>3. SlabShown(view, All, l) <=>
        /\ view.mode \in {"floor", "unit"} \/ (view.mode = "building" /\ view.slice)
        /\ ~(view.underground /\ l >= 0) /\ view.level \in {None, l}
  BY DEF SlabShown, StackShown, Built, All
<1> QED BY <1>1, <1>2, <1>3 DEF Modes

LEMMA CardDrawn ==
  ASSUME ViewInv
  PROVE  CardIsDrawn
<1> SUFFICES ASSUME Coherent(view), ~view.gis2d
             PROVE  LET card == Card(view)
                    IN  \/ CASE card = "unit" -> FlatShown(view, All, view.level)
                              [] card = "floor" -> SlabShown(view, All, view.level)
                              [] card = "building" ->
                                   ModelShown(view) \/ \E l \in Levels : SlabShown(view, All, l)
                              [] card = "component" -> SiteShown(view)
                              [] card = "plot" -> PlotsShown(view)
                              [] card = "entry" -> EntriesShown(view)
                              [] OTHER -> TRUE
                        \/ card = "entry" /\ chosen # "entry"
                        \/ view.underground /\ card \in {"unit", "floor"} /\ view.level >= 0
  BY Zenon DEF CardIsDrawn
<1>0. SoundStore(view) /\ Answers(view, chosen) /\ view.mode = Deepest(view)
  BY DEF ViewInv, Coherent
<1>1. CASE Card(view) = "unit"
  <2>1. view.unit # None /\ view.building # None /\ view.mode = "unit"
    BY <1>0, <1>1 DEF Card, Deepest
  <2>2. view.unit \in Flats /\ view.unit = <<view.building, view.level>>
    BY <1>0, <2>1 DEF SoundStore, StoreTyped, Coherent
  <2>3. view.level \in Levels /\ view.level \in Int /\ view.level # None
    BY <2>2, ViewAssumption DEF Flats
  <2>4. FlatShown(view, All, view.level) \/ (view.underground /\ view.level >= 0)
    BY <2>1, <2>3 DEF FlatShown, FlatsUp, Built, All
  <2> QED BY <1>1, <2>4
<1>2. CASE Card(view) = "floor"
  <2>1. view.level # None /\ view.building # None /\ view.mode = "floor"
    BY <1>0, <1>2 DEF Card, Deepest
  <2>2. view.level \in Int
    BY <1>0, <2>1, ViewAssumption DEF SoundStore, StoreTyped
  <2>3. SlabShown(view, All, view.level) \/ (view.underground /\ view.level >= 0)
    BY <2>1, <2>2 DEF SlabShown, StackShown, Built, All
  <2> QED BY <1>2, <2>3
<1>3. CASE Card(view) = "building"
  <2>1. /\ view.level = None /\ view.unit = None /\ view.building # None /\ view.mode = "building"
        /\ ~view.underground
    BY <1>0, <1>3 DEF Card, Deepest
  <2>2. ModelShown(view) \/ SlabShown(view, All, Home[2])
    BY <2>1 DEF ModelShown, SlabShown, StackShown, Built, All
  <2> QED BY <1>3, <2>2, HomeBuilding
<1>4. CASE Card(view) = "component"
  <2>1. SiteShown(view)
    BY <1>0, <1>4 DEF Card, SiteShown, SoundStore
  <2> QED BY <1>4, <2>1
<1>5. CASE Card(view) = "entry"
  <2>1. chosen = "entry" => EntriesShown(view)
    BY <1>0 DEF Answers, EntriesShown
  <2> QED BY <1>5, <2>1
<1>6. Card(view) # "plot"
  BY DEF Card
<1> QED BY <1>1, <1>2, <1>3, <1>4, <1>5, <1>6

LEMMA PlanIsFlat ==
  ASSUME NEW v, Flat(v), v.gis2d, NEW citizen \in BOOLEAN
  PROVE  ~Upright(v, citizen)
BY DEF Flat, Upright, ModelShown, PipesShown, FoundationsShown, SiteShown, FindingsShown,
       StreetsShown, ParcelsShown, WallShown, SlabShown, FlatShown, StackShown, Built

\* Whatever is clicked, opened, reloaded or framed, for any buildings, levels, pipes,
\* streets, sites, plots, entries and links: the card is the one of the last choice, but
\* for what is named (DetailPanel.tsx, lib/store.ts).
THEOREM CardFollowsChoice == GlobeSpec => []CardIsLastChoice
<1>1. GlobeInv => CardIsLastChoice
  BY CardAnswers DEF GlobeInv
<1> QED BY <1>1, ViewKept, PTL

\* For any store that is reached, a reload restores what the address bar records, and the
\* mode with it where the store is coherent (url-state.ts).
THEOREM BarRestores == GlobeSpec => []ReopenedSame
<1>1. GlobeInv => ReopenedSame
  BY ReopensSame DEF GlobeInv
<1> QED BY <1>1, ViewKept, PTL

\* Each storey of the active building is drawn by one of the prism, the model and the
\* stack, and what the card is about is on the globe, but for what is named (the show
\* conditions under components/layers).
THEOREM ChosenIsDrawn == GlobeSpec => []DrawnAsChosen
<1>1. GlobeInv => DrawnAsChosen
  BY StoreyOnce, CardDrawn DEF GlobeInv, DrawnAsChosen
<1> QED BY <1>1, ViewKept, PTL

\* No setter and no sequence of clicks, links and reloads makes the store incoherent but by
\* the four causes named (lib/store.ts).
THEOREM IncoherentByCause == GlobeSpec => CoherenceLostOnlyBy
<1> DEFINE Named ==
      ~Coherent(view') /\ Coherent(view) =>
        \/ \E link \in Links :
             OpenWith(link) /\ (view'.underground /\ ~view'.services => "services" \in DOMAIN link)
        \/ Frame /\ view.gis2d
        \/ view.gis2d /\ ~view'.gis2d /\ view'.building = view.pre.building
        \/ ToggleServices
<1>1. GlobeInv /\ [GlobeNext]_globeVars => [Named]_vars
  <2>1. GlobeInv /\ GlobeNext => Named
    BY GlobeStep, Zenon DEF IncoherenceNamed
  <2>2. UNCHANGED globeVars => UNCHANGED vars
    BY DEF globeVars, vars
  <2> QED BY <2>1, <2>2
<1>2. GlobeSpec => [][Named]_vars
  BY <1>1, ViewKept, PTL DEF GlobeSpec
<1> QED BY <1>2 DEF CoherenceLostOnlyBy

\* In the 2D view nothing is drawn above the ground, whatever is chosen from the plan's
\* lists, until a link or a citizen's framing has set another mode (Scene.tsx).
THEOREM PlanStaysFlat == GlobeSpec => FlatIn2D
<1> DEFINE Named ==
      view'.gis2d /\ Upright(view', session' = "citizen") =>
        \/ view.gis2d /\ view.mode # "city"
        \/ Open \/ Frame
<1>1. GlobeInv /\ [GlobeNext]_globeVars => [Named]_globeVars
  <2>1. ASSUME GlobeInv, GlobeNext, Flat(view), ~Open, ~Frame, view'.gis2d
        PROVE  ~Upright(view', session' = "citizen")
    <3>1. Flat(view')
      BY <2>1, GlobeStep DEF RiseNamed
    <3>2. (session' = "citizen") \in BOOLEAN
      OBVIOUS
    <3> QED BY <2>1, <3>1, <3>2, PlanIsFlat
  <2>2. ~Flat(view) => view.gis2d /\ view.mode # "city"
    BY DEF Flat
  <2> QED BY <2>1, <2>2
<1>2. GlobeSpec => [][Named]_globeVars
  BY <1>1, ViewKept, PTL DEF GlobeSpec
<1> QED BY <1>2 DEF FlatIn2D

\* In any order of choices and of what arrives, the camera of a running director is at the
\* subject of the store and the data, but where there is no flight to be made and for the
\* pose that is given back (CameraDirector.tsx).
THEOREM CameraFollows == GlobeSpec => []CameraOnSubject
<1>1. GlobeInv => CameraOnSubject
  BY DEF GlobeInv
<1> QED BY <1>1, ViewKept, PTL
=============================================================================
