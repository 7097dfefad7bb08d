------------------------------ MODULE StatusFeed ------------------------------
(***************************************************************************)
(* How the desktop client shows the state of the tunnel: the tasks that    *)
(* poll the server (start_status_polling of main.rs, one per login), the   *)
(* tray that takes commands from a channel (tray.rs), the watch the status *)
(* window reads, the prompt for a one-time code that a challenge opens     *)
(* (prompt.rs), and the two commands of the menu that tell the tray what   *)
(* they have been answered. Names and messages of a state are left out.    *)
(***************************************************************************)
EXTENDS Sequences, Naturals

CONSTANTS
    Pollers,   \* logins of this run of the program
    Prompts,   \* handle_mfa_challenge tasks
    Clicks,    \* do_connect and do_disconnect tasks
    QueueCap   \* the capacity of the tray's channel

VARIABLES
    tunnel,    \* what the server answers to GET /tunnel/status
    poller,    \* per poller: where it is, its old_state, whether it enters Mfa
    queue,     \* commands on their way to the tray
    shown,     \* what the tray shows, and who has told it
    watch,     \* status_tx
    prompt,    \* per prompt: where it is
    click      \* per click: where it is

feedVars == <<tunnel, poller, queue, shown, watch, prompt, click>>

(* from_json knows five states. Only Disconnected (the menu, a failed poll) *)
(* and Mfa (the prompt) are decided on; "up" stands for Connecting,        *)
(* Connected and Error.                                                    *)
States == {"Disconnected", "Mfa", "up"}

(* Init: the tray and the watch begin with Disconnected.                   *)
FeedInit ==
    /\ tunnel = "Disconnected" /\ watch = "Disconnected"
    /\ poller = [p \in Pollers |-> [at |-> "off", old |-> "Disconnected", enters |-> FALSE]]
    /\ queue = <<>>
    /\ shown = [state |-> "Disconnected", by |-> "poller"]
    /\ prompt = [m \in Prompts |-> "idle"]
    /\ click = [u \in Clicks |-> "idle"]

(* The tunnel does what it does; module TunnelManager says what.           *)
TunnelMoves(s) ==
    /\ tunnel' = s
    /\ UNCHANGED <<poller, queue, shown, watch, prompt, click>>

-----------------------------------------------------------------------------
(* The tray: a channel with one reader.                                    *)

Send(s, who) ==
    /\ Len(queue) < QueueCap
    /\ queue' = Append(queue, [state |-> s, by |-> who])

TrayTakes ==
    /\ queue # <<>>
    /\ shown' = Head(queue) /\ queue' = Tail(queue)
    /\ UNCHANGED <<tunnel, poller, watch, prompt, click>>

ConnectEnabled == shown.state = "Disconnected"
DisconnectEnabled == shown.state # "Disconnected"

-----------------------------------------------------------------------------
(* Polling.                                                                *)

StartPolling(p) ==
    /\ poller[p].at = "off"
    /\ poller' = [poller EXCEPT ![p].at = "poll"]
    /\ UNCHANGED <<tunnel, queue, shown, watch, prompt, click>>

IsNews(p, s) == s # poller[p].old

(* An answer of the server, told on when it differs from the last one.     *)
Seen(p, s) ==
    /\ poller[p].at = "poll"
    /\ poller' = [poller EXCEPT ![p] =
           [at |-> IF IsNews(p, s) THEN "tray" ELSE "poll",
            old |-> s,
            enters |-> IsNews(p, s) /\ s = "Mfa" /\ @.old # "Mfa"]]
    /\ UNCHANGED <<tunnel, queue, shown, watch, prompt, click>>

PollAnswered(p) == Seen(p, tunnel)

(* Mutant: it is kept as the last answer, and told to nobody.              *)
PollFailedSilently(p) ==
    /\ poller[p].at = "poll"
    /\ poller' = [poller EXCEPT ![p].old = "Disconnected"]
    /\ UNCHANGED <<tunnel, queue, shown, watch, prompt, click>>

(* No answer counts as a tunnel that is down.                              *)
PollFailed(p) == Seen(p, "Disconnected")

TellTray(p) ==
    /\ poller[p].at = "tray"
    /\ Send(poller[p].old, "poller")
    /\ poller' = [poller EXCEPT ![p].at = "watch"]
    /\ UNCHANGED <<tunnel, shown, watch, prompt, click>>

(* The watch, and the prompt as a task of its own.                         *)
TellWatch(p) ==
    /\ poller[p].at = "watch"
    /\ watch' = poller[p].old
    /\ IF poller[p].enters
       THEN \E m \in Prompts : prompt[m] = "idle" /\ prompt' = [prompt EXCEPT ![m] = "spawned"]
       ELSE UNCHANGED prompt
    /\ poller' = [poller EXCEPT ![p].at = "poll", ![p].enters = FALSE]
    /\ UNCHANGED <<tunnel, queue, shown, click>>

-----------------------------------------------------------------------------
(* The prompt.                                                             *)

PromptGoes(m, at) ==
    /\ prompt' = [prompt EXCEPT ![m] = at]
    /\ UNCHANGED <<tunnel, poller, queue, shown, watch, click>>

WindowFree == \A m \in Prompts : prompt[m] # "open"

(* With a window open already, that one is presented, and the task ends.   *)
OpenPrompt(m) == prompt[m] = "spawned" /\ PromptGoes(m, IF WindowFree THEN "open" ELSE "idle")

Answer(m) == prompt[m] = "open" /\ PromptGoes(m, "submitting")
Dismiss(m) == prompt[m] = "open" /\ PromptGoes(m, "idle")
SubmitCode(m) == prompt[m] = "submitting" /\ PromptGoes(m, "idle")

-----------------------------------------------------------------------------
(* The menu.                                                               *)

(* The entries of the profiles are enabled whatever the state.             *)
ClickConnect(u) ==
    /\ click[u] = "idle"
    /\ Send("up", "click")
    /\ click' = [click EXCEPT ![u] = "connecting"]
    /\ UNCHANGED <<tunnel, poller, shown, watch, prompt>>

ConnectAnswered(u) ==
    /\ click[u] = "connecting"
    /\ Send(tunnel, "click") \/ Send("up", "click")
    /\ click' = [click EXCEPT ![u] = "idle"]
    /\ UNCHANGED <<tunnel, poller, shown, watch, prompt>>

ClickDisconnect(u) ==
    /\ click[u] = "idle" /\ DisconnectEnabled
    /\ click' = [click EXCEPT ![u] = "disconnecting"]
    /\ UNCHANGED <<tunnel, poller, queue, shown, watch, prompt>>

(* An error is only shown as a notification.                               *)
DisconnectAnswered(u) ==
    /\ click[u] = "disconnecting"
    /\ Send(tunnel, "click") \/ UNCHANGED queue
    /\ click' = [click EXCEPT ![u] = "idle"]
    /\ UNCHANGED <<tunnel, poller, shown, watch, prompt>>

-----------------------------------------------------------------------------
FeedNext ==
    \/ \E s \in States : TunnelMoves(s)
    \/ TrayTakes
    \/ \E p \in Pollers : \/ StartPolling(p) \/ PollAnswered(p) \/ PollFailed(p)
                          \/ TellTray(p) \/ TellWatch(p)
    \/ \E m \in Prompts : OpenPrompt(m) \/ Answer(m) \/ Dismiss(m) \/ SubmitCode(m)
    \/ \E u \in Clicks : \/ ClickConnect(u) \/ ConnectAnswered(u)
                         \/ ClickDisconnect(u) \/ DisconnectAnswered(u)

(* The tray reads its channel, and tasks run. Nothing is assumed of the    *)
(* user, whose window may stay open for good, nor of the server: a poll or *)
(* a code it has taken may stay without an answer (api.rs 92-95).          *)
FeedIsFair ==
    /\ WF_feedVars(TrayTakes)
    /\ \A p \in Pollers : SF_feedVars(TellTray(p)) /\ WF_feedVars(TellWatch(p))
    /\ \A m \in Prompts : WF_feedVars(OpenPrompt(m))

FeedSpec == FeedInit /\ [][FeedNext]_feedVars /\ FeedIsFair

-----------------------------------------------------------------------------
(* What must hold.                                                         *)

(* Once the tunnel no longer changes, and if polls and codes are answered, *)
(* the status window shows what the server says, and so does the tray, if  *)
(* it was a poller who told it last (main.rs start_status_polling). What a *)
(* click has told the tray stays: no poller has seen a change.             *)
Unanswered(p) == poller[p].at = "poll" /\ poller[p].old # tunnel
AnswersCome == /\ \A p \in Pollers : []<>~Unanswered(p)
               /\ \A m \in Prompts : []<>(prompt[m] # "submitting")
Quiet == /\ UNCHANGED tunnel
         /\ \A p \in Pollers : tunnel # "Disconnected" => ~PollFailed(p)
StatusEventuallyTrue ==
    AnswersCome /\ <>[][Quiet]_feedVars =>
        <>[](/\ (\E p \in Pollers : poller[p].at # "off") => watch = tunnel
             /\ shown.by = "poller" => shown.state = watch)

=============================================================================
