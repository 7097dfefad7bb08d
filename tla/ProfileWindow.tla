----------------------------- MODULE ProfileWindow -----------------------------
(***************************************************************************)
(* The profiles in the settings window of the desktop client (settings.rs):*)
(* a list of names and a list of ids that go together, the row selected,   *)
(* the form of its profile, the client's copy of the profiles              *)
(* (ProfileStore of profiles.rs), and the requests under way while the     *)
(* window stays usable.                                                    *)
(*                                                                         *)
(* A configuration is represented by the profile it belongs to, so that    *)
(* one that ends up with another profile can be told. What a form shows of *)
(* a configuration is the subject of ProfileForm.                          *)
(***************************************************************************)
EXTENDS Integers, SequencesExt

CONSTANTS
    Ids,           \* profiles: a deleted one's id is not used again
    Tasks,         \* handlers under way
    Nobody, Gone     \* no profile yet; a deleted one

ASSUME IdsAssumption ==
    IsFiniteSet(Ids) /\ Nobody \notin Ids /\ Gone \notin Ids \cup {Nobody}

VARIABLES
    table,     \* the server's profiles: the configuration of each
    store,     \* ProfileStore
    names,     \* the rows: whose name each shows
    ids,       \* profile_ids
    selected,  \* the position of the row selected, or -1
    form,      \* the configuration the form shows, and whether it is visible
    dirty,     \* the "Save Profile" button
    editable,  \* the role may edit, as far as is known
    task,      \* per handler: Nobody, or what it waits for
    asking,    \* Nobody, or the dialog open and the profile it was opened for
    stale,     \* history: "form" from when the first row is removed, or a file
               \* is chosen for a form no longer shown, until the form is
               \* loaded again; "saved" once a form was saved then
    misnamed   \* history: a new name went to another row than it was asked for

windowVars == <<table, store, names, ids, selected, form, dirty, editable, task, asking, stale, misnamed>>

Known(p) == store[p] \notin {Nobody, Gone}
Places == 0..(Len(ids) - 1)
ActiveId == IF selected \in Places THEN ids[selected + 1] ELSE Nobody

(* on_profile_changed, with these ids and this position.                   *)
Reload(list, k) ==
    IF k \in 0..(Len(list) - 1)
    THEN /\ form' = [of |-> IF Known(list[k + 1]) THEN store[list[k + 1]] ELSE Nobody,
                     visible |-> TRUE]
         /\ dirty' = FALSE
         /\ stale' = stale \ {"form"}
    ELSE /\ form' = [form EXCEPT !.visible = FALSE]
         /\ UNCHANGED <<dirty, stale>>

KeepForm == UNCHANGED <<form, dirty, stale>>

(* The window is built from the store, which has an order, with its first  *)
(* profile selected.                                                       *)
StoreList == SetToSeq({p \in Ids : Known(p)})
FirstOf(list) == IF list = <<>> THEN -1 ELSE 0
FirstForm(list) == [of |-> IF list = <<>> THEN Nobody ELSE store[list[1]], visible |-> list # <<>>]

WindowInit ==
    /\ table \in [Ids -> Ids \cup {Nobody}] /\ \A p \in Ids : table[p] \in {p, Nobody}
    /\ store = table
    /\ names = StoreList /\ ids = names
    /\ selected = FirstOf(ids) /\ form = FirstForm(ids)
    /\ dirty = FALSE /\ editable = TRUE
    /\ task = [t \in Tasks |-> Nobody]
    /\ asking = Nobody /\ stale = {} /\ misnamed = FALSE

-----------------------------------------------------------------------------
(* The user, whom a dialog keeps from the window: all of them are modal.   *)
(* What the requests under way bring does not wait for it to be closed.    *)
Select(k) ==
    /\ asking = Nobody
    /\ k \in Places /\ k # selected
    /\ selected' = k
    /\ Reload(ids, k)
    /\ UNCHANGED <<table, store, names, ids, editable, task, asking, misnamed>>

(* A change of any field; "Reset to Defaults" is one of all.               *)
Edit ==
    /\ asking = Nobody
    /\ form.visible /\ editable /\ ~dirty
    /\ dirty' = TRUE
    /\ UNCHANGED <<table, store, names, ids, selected, form, editable, task, asking, stale, misnamed>>

(* The dialogs: a file for the profile the form shows, a new name for the  *)
(* row selected, and whether to delete it.                                 *)
Ask(what) ==
    /\ asking = Nobody
    /\ form.visible /\ ActiveId # Nobody /\ (what = "file" => editable)
    /\ asking' = [what |-> what, of |-> IF what = "file" THEN form.of ELSE ActiveId]
    /\ UNCHANGED <<table, store, names, ids, selected, form, dirty, editable, task, stale, misnamed>>

LeaveDialog ==
    /\ asking # Nobody
    /\ asking' = Nobody
    /\ UNCHANGED <<table, store, names, ids, selected, form, dirty, editable, task, stale, misnamed>>

Asked(what) == asking # Nobody /\ asking.what = what /\ asking' = Nobody

(* The path is written into the form there is when the dialog closes,      *)
(* whose configuration counts from then on as the one it was chosen for.   *)
PickFile ==
    /\ Asked("file")
    /\ form' = [form EXCEPT !.of = asking.of]
    /\ dirty' = TRUE
    /\ stale' = IF form.of = asking.of THEN stale ELSE stale \cup {"form"}
    /\ UNCHANGED <<table, store, names, ids, selected, editable, task, misnamed>>

(* auth.role() has been answered; without an answer the role stays unknown.*)
RoleKnown(admin) ==
    /\ editable' = admin
    /\ UNCHANGED <<table, store, names, ids, selected, form, dirty, task, asking, stale, misnamed>>

(* The window is closed and opened again. A handler under way works on the *)
(* widgets of the closed one, which nobody sees.                           *)
Reopen ==
    /\ asking = Nobody
    /\ names' = StoreList /\ ids' = names'
    /\ selected' = FirstOf(ids') /\ form' = FirstForm(ids')
    /\ dirty' = FALSE /\ editable' = TRUE
    /\ task' = [t \in Tasks |-> IF task[t] = Nobody THEN Nobody ELSE [task[t] EXCEPT !.here = FALSE]]
    /\ stale' = stale \ {"form"}
    /\ UNCHANGED <<table, store, asking, misnamed>>

Begin(t, what, p, of) ==
    /\ task[t] = Nobody
    /\ task' = [task EXCEPT ![t] = [what |-> what, profile |-> p, of |-> of, here |-> TRUE]]

Over(t) == task' = [task EXCEPT ![t] = Nobody]

(* A request that fails changes nothing.                                   *)
Fails(t) ==
    /\ task[t] # Nobody
    /\ Over(t)
    /\ UNCHANGED <<table, store, names, ids, selected, editable, asking, misnamed>> /\ KeepForm

-----------------------------------------------------------------------------
(* save_profile_config.                                                    *)

ClickSave(t) ==
    /\ asking = Nobody
    /\ dirty /\ form.visible /\ editable /\ ActiveId # Nobody
    /\ Begin(t, "save", ActiveId, form.of)
    /\ stale' = IF "form" \in stale THEN stale \cup {"saved"} ELSE stale
    /\ UNCHANGED <<table, store, names, ids, selected, form, dirty, editable, asking, misnamed>>

(* Mutant: the answer is stored under the profile selected by then.        *)
SavedIdNow(t) == ActiveId
SavedId(t) == task[t].profile

(* The server has written it; the copy is replaced, and the button is off  *)
(* whatever has been edited since.                                         *)
Saved(t) ==
    /\ task[t] # Nobody /\ task[t].what = "save" /\ table[task[t].profile] \in Ids
    /\ table' = [table EXCEPT ![task[t].profile] = task[t].of]
    /\ store' = [p \in Ids |-> IF p = SavedId(t) /\ Known(p) THEN task[t].of ELSE store[p]]
    /\ dirty' = (dirty /\ ~task[t].here)
    /\ Over(t)
    /\ UNCHANGED <<names, ids, selected, form, editable, asking, stale, misnamed>>

-----------------------------------------------------------------------------
(* on_profile_delete.                                                      *)

(* The profile that is deleted is the one selected when the dialog closes: *)
(* an answer may have selected another since it was opened.                *)
ConfirmDelete(t) ==
    /\ Asked("delete")
    /\ ActiveId # Nobody
    /\ Begin(t, "delete", ActiveId, Nobody)
    /\ UNCHANGED <<table, store, names, ids, selected, editable, misnamed>> /\ KeepForm

IdsAfter(t, k) == RemoveAt(ids, k + 1)

Deletable(p) == table[p] \in Ids

(* The row that goes is the one selected by now. Taking it out of the      *)
(* names may move the selection and load the form; last of all the first   *)
(* row is selected, which is no change if it was. The store keeps the      *)
(* profile.                                                                *)
RowDeleted(t) ==
    /\ task[t] # Nobody /\ task[t].what = "delete" /\ Deletable(task[t].profile)
    /\ table' = [table EXCEPT ![task[t].profile] = Gone]
    /\ IF ~task[t].here THEN UNCHANGED <<names, ids, selected>> /\ KeepForm
       ELSE /\ names' = RemoveAt(names, selected + 1)
            /\ ids' = IdsAfter(t, selected)
            /\ CASE Len(ids) = 1 -> /\ selected' = -1
                                    /\ form' = [form EXCEPT !.visible = FALSE]
                                    /\ UNCHANGED <<dirty, stale>>
                 [] Len(ids) > 1 /\ selected = 0 -> /\ UNCHANGED <<selected, form, dirty>>
                                                    /\ stale' = stale \cup {"form"}
                 [] OTHER -> /\ selected' = 0
                             /\ Reload(ids, 0)
    /\ Over(t)
    /\ UNCHANGED <<store, editable, asking, misnamed>>

-----------------------------------------------------------------------------
(* on_profile_new.                                                         *)

(* Its dialog is closed; nothing was remembered of when it was opened.     *)
AskNew(t) ==
    /\ asking = Nobody
    /\ Begin(t, "new", Nobody, Nobody)
    /\ UNCHANGED <<table, store, names, ids, selected, editable, asking, misnamed>> /\ KeepForm

(* The first row of an empty list is selected as it is appended, before    *)
(* its id is known: the form stays hidden.                                 *)
Created(t, p) ==
    /\ task[t] # Nobody /\ task[t].what = "new" /\ table[p] = Nobody
    /\ table' = [table EXCEPT ![p] = p]
    /\ store' = [store EXCEPT ![p] = p]
    /\ IF ~task[t].here THEN UNCHANGED <<names, ids, selected>> /\ KeepForm
       ELSE /\ names' = Append(names, p) /\ ids' = Append(ids, p)
            /\ selected' = Len(ids)
            /\ IF ids = <<>> THEN form' = [form EXCEPT !.visible = FALSE] /\ UNCHANGED <<dirty, stale>>
               ELSE /\ form' = [of |-> p, visible |-> TRUE]
                    /\ dirty' = FALSE /\ stale' = stale \ {"form"}
    /\ Over(t)
    /\ UNCHANGED <<editable, asking, misnamed>>

-----------------------------------------------------------------------------
(* on_profile_rename: the row selected when the dialog closes gets the     *)
(* name, which may load the form again, and a task writes its profile as   *)
(* the store has it.                                                       *)
RenameRow(t) ==
    /\ Asked("rename")
    /\ ActiveId # Nobody
    /\ names' = [names EXCEPT ![selected + 1] = asking.of]
    /\ misnamed' = (misnamed \/ asking.of # ActiveId)
    /\ IF Known(ActiveId) THEN Begin(t, "rename", ActiveId, store[ActiveId]) ELSE UNCHANGED task
    /\ KeepForm \/ Reload(ids, selected)
    /\ UNCHANGED <<table, store, ids, selected, editable>>

RowRenamed(t) ==
    /\ task[t] # Nobody /\ task[t].what = "rename" /\ table[task[t].profile] \in Ids
    /\ table' = [table EXCEPT ![task[t].profile] = task[t].of]
    /\ Over(t)
    /\ UNCHANGED <<store, names, ids, selected, editable, asking, misnamed>> /\ KeepForm

-----------------------------------------------------------------------------
WindowNext ==
    \/ \E k \in 0..Len(ids) : Select(k)
    \/ Edit \/ Reopen \/ LeaveDialog \/ PickFile
    \/ \E what \in {"file", "rename", "delete"} : Ask(what)
    \/ \E admin \in BOOLEAN : RoleKnown(admin)
    \/ \E t \in Tasks :
          \/ ClickSave(t) \/ Saved(t) \/ ConfirmDelete(t) \/ RowDeleted(t) \/ AskNew(t)
          \/ RenameRow(t) \/ RowRenamed(t) \/ Fails(t)
          \/ \E p \in Ids : Created(t, p)

WindowSpec == WindowInit /\ [][WindowNext]_windowVars

-----------------------------------------------------------------------------
(* What must hold.                                                         *)

(* However the answers come in, a name and the id behind it stay together, *)
(* and the row an answer removes exists: profile_ids.remove panics         *)
(* otherwise (settings.rs 716-722). A name asked for one row and given to  *)
(* another is left out: an answer has moved the selection while the dialog *)
(* was open (settings.rs 779-803; README, "Known not to hold").            *)
ListsAgree ==
    /\ Len(names) = Len(ids) /\ (~misnamed => names = ids)
    /\ \A t \in Tasks :
          task[t] # Nobody /\ task[t].what = "delete" /\ task[t].here /\ Deletable(task[t].profile) =>
              selected \in Places

(* A visible form is of the profile selected, and no profile ends up with  *)
(* the configuration of another, or a part of it, however long a save      *)
(* takes (settings.rs 654-700). Two ways there are left out (README,       *)
(* "Known not to hold"): after its first row has been removed the window   *)
(* still shows the form of the profile that is gone; and a certificate     *)
(* file chosen while an answer loads the form of another profile is        *)
(* written into that one (settings.rs 1215-1242). A save then writes it.   *)
EditsStayWithTheirProfile ==
    /\ ListsAgree
    /\ "saved" \notin stale =>
        /\ form.visible /\ "form" \notin stale => form.of \in {ActiveId, Nobody}
        /\ \A p \in Ids : table[p] \in {p, Nobody, Gone} /\ store[p] \in {p, Nobody}
=============================================================================
