----------------------------- MODULE MCPrograms -----------------------------
(* Model checking of the parts of the programs that share no state with    *)
(* one another: of the clients, ClientTokens, ClientSettings, StatusFeed,  *)
(* ProfileWindow with ProfileForm, and ListWindow; of the server,          *)
(* Configuration, ServerProcess with Profiles, and LogStream. A behaviour  *)
(* moves one of them, its `subject`; the others stay in an initial state,  *)
(* and in those no fair action is enabled.                                 *)
EXTENDS ClientTokens, ClientSettings, StatusFeed, ProfileForm, ProfileWindow, ListWindow,
        Configuration, ServerProcess, LogStream

CONSTANTS Second,    \* the poller of a second login
          Subjects   \* the parts a run moves

VARIABLE subject

MCInit ==
    /\ TokenInit /\ SettingsInit /\ FeedInit /\ WindowInit /\ ListInit
    /\ ConfigInit /\ ProcessInit /\ LogInit
    /\ subject \in Subjects
    /\ subject # "tokens" => keyring = 0
    /\ subject # "settings" => file.servers = <<>>
    /\ subject # "window" => names = <<>>
    /\ subject # "list" => present = {} /\ appends /\ handler[CHOOSE h \in Handlers : TRUE] # Free
    /\ subject # "configuration" => disk = CHOOSE s \in Settings : Loads(s)
    /\ subject # "process" => version = 0 /\ ~admins

Keep(s, vars) == subject \notin s => UNCHANGED vars
Rest ==
    /\ UNCHANGED subject
    /\ Keep({"tokens"}, tokenVars) /\ Keep({"settings"}, settingsVars)
    /\ Keep({"feed", "logins"}, feedVars) /\ Keep({"window"}, windowVars)
    /\ Keep({"list"}, listVars) /\ Keep({"configuration"}, configVars)
    /\ Keep({"process"}, processVars) /\ Keep({"log"}, logVars)

(* Of the tray, either the clicks or a second login: "feed", "logins". Of  *)
(* the window, nothing after what its property leaves out.                 *)
MCNext ==
    \/ subject = "tokens" /\ TokenNext /\ Rest
    \/ subject = "settings" /\ SettingsNext /\ Rest
    \/ subject = "feed" /\ FeedNext /\ (poller[Second].at = "off")' /\ Rest
    \/ subject = "logins" /\ FeedNext /\ UNCHANGED click /\ Rest
    \/ subject = "window" /\ "saved" \notin stale /\ ~misnamed /\ WindowNext /\ Rest
    \/ subject = "list" /\ ListNext /\ Rest
    \/ subject = "configuration" /\ ConfigNext /\ Rest
    \/ subject = "process" /\ ProcessNext /\ Rest
    \/ subject = "log" /\ LogNext /\ Rest

programVars == <<tokenVars, settingsVars, feedVars, windowVars, listVars, configVars,
                 processVars, logVars, subject>>

MCSpec == MCInit /\ [][MCNext]_programVars

MCFairSpec ==
    /\ MCSpec
    /\ RenewalIsFair /\ FeedIsFair /\ TasksAreFair /\ ShutdownIsFair /\ LoopIsFair
=============================================================================
