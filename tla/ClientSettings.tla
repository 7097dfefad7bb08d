--------------------------- MODULE ClientSettings ---------------------------
(***************************************************************************)
(* client.toml: the servers a user has set up. The desktop client reads it *)
(* once and saves its copy after each change (client_settings.rs, the      *)
(* dialogs of main.rs, windows/servers.rs); a command of snx-edge-ctl      *)
(* reads it, changes it and saves it (servers.rs).                         *)
(***************************************************************************)
EXTENDS Integers, FiniteSets, SequencesExt

CONSTANTS
    Names,       \* names of servers; a name stands for its URL too
    Absent,
    Editors,     \* runs of snx-edge-ctl that change the file
    MaxServers   \* bound: servers in a list

ASSUME ServersAssumption == MaxServers \in Nat

VARIABLES
    file,    \* what client.toml holds
    memory,  \* SharedSettings of the desktop client; Absent when not running
    dialog,  \* the edit or delete dialog open on a row: its captured idx
    editor   \* per ctl command: what it has read, Absent before

settingsVars == <<file, memory, dialog, editor>>

(* A list of servers [name, insecure] and the position of the active one.  *)
NoServers == [servers |-> <<>>, active |-> -1]

(* Positions count from 0, as in the file; -1 is no active server.         *)
Positions(s) == 0..(Len(s.servers) - 1)
At(s, i) == s.servers[i + 1]
NamesOf(s) == {x.name : x \in ToSet(s.servers)}
Room(s) == Len(s.servers) < MaxServers

(* A new user, or one who has set `insecure` by hand.                      *)
SettingsInit ==
    /\ file \in {NoServers} \cup
          {[servers |-> <<[name |-> n, insecure |-> TRUE]>>, active |-> 0] : n \in Names}
    /\ memory = Absent
    /\ dialog = Absent
    /\ editor = [c \in Editors |-> Absent]

-----------------------------------------------------------------------------
(* Changes of a list.                                                      *)

(* Mutant: an active server behind the removed one keeps its number.       *)
ActiveAfterRemovalUnshifted(s, i) ==
    IF s.active = i THEN (IF Len(s.servers) = 1 THEN -1 ELSE 0) ELSE s.active

(* The active server after server i is gone: another takes the place of an *)
(* active one, and the numbers behind it move up.                          *)
ActiveAfterRemoval(s, i) ==
    CASE s.active = i -> (IF Len(s.servers) = 1 THEN -1 ELSE 0)
      [] s.active > i -> s.active - 1
      [] OTHER -> s.active

Removed(s, i) == [servers |-> RemoveAt(s.servers, i + 1), active |-> ActiveAfterRemoval(s, i)]
Pushed(s, n) == [s EXCEPT !.servers = Append(@, [name |-> n, insecure |-> FALSE])]
Renamed(s, i, n) ==
    IF i \in Positions(s) THEN [s EXCEPT !.servers[i + 1].name = n] ELSE s

(* ctl's format has no `insecure`: reading it back drops the flag.         *)
AsCtlReads(s) == [s EXCEPT !.servers = [i \in DOMAIN @ |-> [@[i] EXCEPT !.insecure = FALSE]]]

-----------------------------------------------------------------------------
(* The desktop client.                                                     *)

LoadSettings ==
    /\ memory = Absent
    /\ memory' = file
    /\ UNCHANGED <<file, dialog, editor>>

CloseClient ==
    /\ memory # Absent
    /\ memory' = Absent /\ dialog' = Absent
    /\ UNCHANGED <<file, editor>>

(* ClientSettings::save writes the whole file; a failed write is only      *)
(* logged.                                                                 *)
ChangeTo(s) == memory' = s /\ file' \in {s, file} /\ UNCHANGED editor

(* The dialog for a new server: the server is active before its login has  *)
(* been tried.                                                             *)
AddAndLogin(n) ==
    /\ memory # Absent /\ Room(memory)
    /\ ChangeTo([Pushed(memory, n) EXCEPT !.active = Len(memory.servers)])
    /\ UNCHANGED dialog

(* The window of servers.                                                  *)
AddInWindow(n) ==
    /\ memory # Absent /\ Room(memory)
    /\ ChangeTo(Pushed(memory, n))
    /\ UNCHANGED dialog

SetActive(i) ==
    /\ memory # Absent /\ i \in Positions(memory)
    /\ ChangeTo([memory EXCEPT !.active = i])
    /\ UNCHANGED dialog

(* A row's dialogs keep the position the row had when it was built.        *)
OpenDialog(what, i) ==
    /\ memory # Absent /\ dialog = Absent /\ i \in Positions(memory)
    /\ dialog' = [what |-> what, idx |-> i]
    /\ UNCHANGED <<file, memory, editor>>

Cancel == dialog # Absent /\ dialog' = Absent /\ UNCHANGED <<file, memory, editor>>

EditServer(n) ==
    /\ dialog # Absent /\ dialog.what = "edit"
    /\ ChangeTo(Renamed(memory, dialog.idx, n))
    /\ dialog' = Absent

DeleteServer ==
    /\ dialog # Absent /\ dialog.what = "delete"
    /\ IF dialog.idx \in Positions(memory) THEN ChangeTo(Removed(memory, dialog.idx))
       ELSE UNCHANGED <<file, memory, editor>>
    /\ dialog' = Absent

-----------------------------------------------------------------------------
(* snx-edge-ctl.                                                           *)

ReadFile(c) ==
    /\ editor[c] = Absent
    /\ editor' = [editor EXCEPT ![c] = AsCtlReads(file)]
    /\ UNCHANGED <<file, memory, dialog>>

Write(c, s) ==
    /\ file' = s
    /\ editor' = [editor EXCEPT ![c] = Absent]
    /\ UNCHANGED <<memory, dialog>>

Bail(c) == editor[c] # Absent /\ Write(c, file)

AddServer(c, n) ==
    /\ editor[c] # Absent /\ n \notin NamesOf(editor[c]) /\ Room(editor[c])
    /\ LET s == Pushed(editor[c], n)
       IN  Write(c, IF Len(s.servers) = 1 THEN [s EXCEPT !.active = 0] ELSE s)

(* The first server of that name.                                          *)
Position(s, n) == CHOOSE i \in Positions(s) :
                     At(s, i).name = n /\ \A j \in 0..(i - 1) : At(s, j).name # n

RemoveServer(c, n) ==
    /\ editor[c] # Absent /\ n \in NamesOf(editor[c])
    /\ Write(c, Removed(editor[c], Position(editor[c], n)))

SetDefault(c, n) ==
    /\ editor[c] # Absent /\ n \in NamesOf(editor[c])
    /\ Write(c, [editor[c] EXCEPT !.active = Position(editor[c], n)])

(* connect remembers the profile and so writes back all it has read.       *)
RememberProfile(c) == editor[c] # Absent /\ Write(c, editor[c])

-----------------------------------------------------------------------------
SettingsNext ==
    \/ LoadSettings \/ CloseClient \/ Cancel \/ DeleteServer
    \/ \E n \in Names : AddAndLogin(n) \/ AddInWindow(n) \/ EditServer(n)
    \/ \E i \in 0..MaxServers : SetActive(i) \/ OpenDialog("edit", i) \/ OpenDialog("delete", i)
    \/ \E c \in Editors :
          \/ ReadFile(c) \/ Bail(c) \/ RememberProfile(c)
          \/ \E n \in Names : AddServer(c, n) \/ RemoveServer(c, n) \/ SetDefault(c, n)

SettingsSpec == SettingsInit /\ [][SettingsNext]_settingsVars

-----------------------------------------------------------------------------
(* What must hold.                                                         *)

(* A removal leaves the choice of server alone unless that server is the   *)
(* one removed (windows/servers.rs 311-320, servers.rs 114-124).           *)
SameChoice(s, t, gone) ==
    /\ s.active \in Positions(s) => t.active \in Positions(t) \cup {-1}
    /\ s.active \in Positions(s) \ {gone} => At(t, t.active) = At(s, s.active)
RemovalKeepsChoice ==
    [][/\ DeleteServer /\ dialog.idx \in Positions(memory) =>
             SameChoice(memory, memory', dialog.idx)
       /\ \A c \in Editors, n \in Names :
             RemoveServer(c, n) => SameChoice(editor[c], file', Position(editor[c], n))]_settingsVars
=============================================================================
