------------------------------ MODULE ListWindow ------------------------------
(***************************************************************************)
(* A list of the server's entries in a window of the desktop client: the   *)
(* tabs of windows/routing.rs (clients, bypass), which append what they    *)
(* have added, and windows/users.rs, which reloads instead. Every button   *)
(* is insensitive while its own task runs, and tasks of different buttons  *)
(* run at the same time. Only this window changes the entries here.        *)
(***************************************************************************)
EXTENDS Naturals

CONSTANTS
    Entries,   \* what the server may hold
    Handlers,  \* tasks of the window's buttons
    Free       \* no task

(* A task: its button, what it waits for, and the entries it has.          *)
ButtonTasks == [button : Entries \cup {"add", "my ip", "refresh", "none"},
                at : {"closed", "opening", "dialog", "asked", "changed", "listing", "listed"},
                of : SUBSET Entries]

ASSUME FreeAssumption == Free \notin ButtonTasks

VARIABLES
    present,      \* the server's entries
    rows,      \* the entries that have a row; one may have two
    handler,   \* per task: its button, where it is, and its entries
    disabled,  \* buttons that are insensitive; a row's is named by its entry
    appends,   \* whether the window appends what it has added
    failed     \* history: a request has failed since rows were last cleared

listVars == <<present, rows, handler, disabled, appends, failed>>

(* The window will open with a first load, which is no button's.           *)
ListInit ==
    /\ present \in SUBSET Entries /\ rows = {}
    /\ \E first \in Handlers :
          handler = [h \in Handlers |->
              IF h = first THEN [button |-> "none", at |-> "closed", of |-> {}] ELSE Free]
    /\ disabled = {} /\ appends \in BOOLEAN /\ failed = FALSE

Is(h, at) == handler[h] # Free /\ handler[h].at = at
Moves(h, at, of) == handler' = [handler EXCEPT ![h].at = at, ![h].of = of]

(* Mutant: only a task that has succeeded makes its button sensitive.      *)
EndsIfDone(h) ==
    /\ handler' = [handler EXCEPT ![h] = Free]
    /\ disabled' = disabled \ (IF Is(h, "asked") THEN {} ELSE {handler[h].button})

(* set_sensitive(true), whatever the outcome.                              *)
Ends(h) ==
    /\ handler' = [handler EXCEPT ![h] = Free]
    /\ disabled' = disabled \ {handler[h].button}

OpenList(h) ==
    /\ Is(h, "closed")
    /\ Moves(h, "opening", {})
    /\ UNCHANGED <<present, rows, disabled, appends, failed>>

-----------------------------------------------------------------------------
(* Buttons.                                                                *)

Press(h, button, at, of) ==
    /\ handler[h] = Free /\ button \notin disabled
    /\ disabled' = disabled \cup {button}
    /\ handler' = [handler EXCEPT ![h] = [button |-> button, at |-> at, of |-> of]]
    /\ UNCHANGED <<present, rows, appends, failed>>

PressAdd(h) == Press(h, "add", "dialog", {})
PressMyIp(h) == Press(h, "my ip", "asked", {})
PressRefresh(h) == Press(h, "refresh", "opening", {})

(* users.rs asks for a confirmation, routing.rs does not.                  *)
PressDelete(h, e) == e \in rows /\ Press(h, e, IF appends THEN "asked" ELSE "dialog", {e})

CloseDialog(h, confirmed) ==
    /\ Is(h, "dialog")
    /\ IF confirmed THEN Moves(h, "asked", handler[h].of) /\ UNCHANGED disabled ELSE Ends(h)
    /\ UNCHANGED <<present, rows, appends, failed>>

-----------------------------------------------------------------------------
(* Changes.                                                                *)

ServerAdds(h, e) ==
    /\ Is(h, "asked") /\ handler[h].button \in {"add", "my ip"}
    /\ e \notin present
    /\ present' = present \cup {e}
    /\ Moves(h, "changed", {e})
    /\ UNCHANGED <<rows, disabled, appends, failed>>

ServerDeletes(h) ==
    /\ Is(h, "asked") /\ handler[h].of # {} /\ handler[h].of \subseteq present
    /\ present' = present \ handler[h].of
    /\ Moves(h, "changed", handler[h].of)
    /\ UNCHANGED <<rows, disabled, appends, failed>>

(* A new row has buttons of its own.                                       *)
Adding(h) == handler[h].button \in {"add", "my ip"}
AppendRow(h) ==
    /\ Is(h, "changed") /\ Adding(h) /\ appends
    /\ rows' = rows \cup handler[h].of
    /\ Ends(h)
    /\ UNCHANGED <<present, appends, failed>>

ReloadAfter(h) ==
    /\ Is(h, "changed") /\ ~(Adding(h) /\ appends)
    /\ Moves(h, "opening", {})
    /\ UNCHANGED <<present, rows, disabled, appends, failed>>

(* A request is refused or lost; a lost one may have been served.          *)
RequestFails(h) ==
    /\ Is(h, "asked") \/ Is(h, "changed")
    /\ Ends(h)
    /\ failed' = TRUE
    /\ UNCHANGED <<present, rows, appends>>

-----------------------------------------------------------------------------
(* reload_list and reload_users.                                           *)

(* The rows are cleared before the request is sent.                        *)
ClearRows(h) ==
    /\ Is(h, "opening")
    /\ rows' = {} /\ failed' = FALSE
    /\ Moves(h, "listing", {})
    /\ UNCHANGED <<present, disabled, appends>>

ServerLists(h) ==
    /\ Is(h, "listing")
    /\ Moves(h, "listed", present)
    /\ UNCHANGED <<present, rows, disabled, appends, failed>>

(* Mutant: the rows are cleared when the answer is there.                  *)
AppendRowsAnew(h) ==
    /\ Is(h, "listed")
    /\ rows' = handler[h].of
    /\ handler' = [handler EXCEPT ![h] = Free]
    /\ disabled' = disabled \ ({handler[h].button} \cup handler[h].of)
    /\ UNCHANGED <<present, appends, failed>>

AppendRows(h) ==
    /\ Is(h, "listed")
    /\ rows' = rows \cup handler[h].of
    /\ handler' = [handler EXCEPT ![h] = Free]
    /\ disabled' = disabled \ ({handler[h].button} \cup handler[h].of)
    /\ UNCHANGED <<present, appends, failed>>

ListingFails(h) ==
    /\ Is(h, "listing") \/ Is(h, "listed")
    /\ Ends(h)
    /\ failed' = TRUE
    /\ UNCHANGED <<present, rows, appends>>

-----------------------------------------------------------------------------
Progress(h) ==
    \/ \E e \in Entries : ServerAdds(h, e)
    \/ ServerDeletes(h) \/ AppendRow(h) \/ ReloadAfter(h) \/ RequestFails(h)
    \/ ClearRows(h) \/ ServerLists(h) \/ AppendRows(h) \/ ListingFails(h)

ListNext ==
    \E h \in Handlers :
        \/ OpenList(h) \/ PressAdd(h) \/ PressMyIp(h) \/ PressRefresh(h)
        \/ \E e \in Entries : PressDelete(h, e)
        \/ \E confirmed \in BOOLEAN : CloseDialog(h, confirmed)
        \/ Progress(h)

(* Tasks run. A dialog may stay open for good, and so may a request: the   *)
(* client has no timeout (api.rs 92-95).                                   *)
TasksAreFair == \A h \in Handlers : WF_listVars(ClearRows(h))

ListSpec == ListInit /\ [][ListNext]_listVars /\ TasksAreFair

-----------------------------------------------------------------------------
(* What must hold.                                                         *)

(* When nothing is under way and no request has failed since the rows were *)
(* last cleared, every entry has a row, whatever reloads and additions     *)
(* have overtaken one another (routing.rs 427-458).                        *)
NothingMissing ==
    (\A h \in Handlers : handler[h] = Free) /\ ~failed => present \subseteq rows

(* A button whose dialog is closed becomes sensitive again, whatever the   *)
(* answers are and whichever are lost (routing.rs 345, 395, 442; users.rs  *)
(* 127), if no request waits for its answer for ever.                      *)
AwaitsAnswer(h) == handler[h] # Free /\ handler[h].at \in {"asked", "changed", "listing", "listed"}
RequestsEnd == \A h \in Handlers : []<>~AwaitsAnswer(h)
Working == {handler[h].button : h \in {h \in Handlers : handler[h] # Free /\ handler[h].at # "dialog"}}
ButtonsComeBack ==
    RequestsEnd => \A b \in {"add", "refresh"} : b \in Working ~> b \notin disabled
=============================================================================
