--------------------------- MODULE TunnelManager ---------------------------
(***************************************************************************)
(* The VPN tunnel manager of snx-edge-server (apps/snx-edge-server/src/    *)
(* tunnel.rs): connect, reconnect, disconnect and challenge_code as        *)
(* concurrent asynchronous calls over one shared status, connector and     *)
(* session, and the event handler task start_tunnel spawns per tunnel.     *)
(*                                                                         *)
(* Each call is a small program: pc[c] is the statement it runs next.      *)
(* One step is one access to shared state (a mutex, an atomic flag, a      *)
(* task list) or one await on the gateway, so that every interleaving of   *)
(* the tokio worker threads at those points is explored.  The connector    *)
(* mutex is held across awaits and is a variable, `lock'; the session and  *)
(* status mutexes are held for one access only and are not.                *)
(*                                                                         *)
(* The gateway, the tunnel's own run loop and connector.* belong to        *)
(* snxcore, which is not in the repository: their answers and events are   *)
(* nondeterministic.                                                       *)
(***************************************************************************)
EXTENDS Naturals, Sequences, FiniteSets

CONSTANTS
    Calls,        \* the concurrent callers: API handlers, the supervisor
    Ops,          \* the operations callers may ask for
    HangUps,      \* callers whose future may be dropped at an await
    Tunnels,      \* slots for tunnels started by start_tunnel
    QueueCap,     \* bound on a tunnel's event queue (16 in the code)
    EventCap,     \* bound on the broadcast channel (256 in the code)
    Reports,      \* the events a tunnel may report
    None          \* no holder of the connector mutex, no tunnel

ASSUME CallsAssumption == /\ HangUps \subseteq Calls
                          /\ Ops \subseteq {"connect", "reconnect",
                                            "disconnect", "challenge"}
                          /\ Reports \subseteq {"connected", "disconnected", "other"}
ASSUME BoundsAssumption == QueueCap \in Nat \ {0} /\ EventCap \in Nat \ {0}
ASSUME HoldersAssumption == /\ None \notin Calls \cup Tunnels
                            /\ Calls \cap Tunnels = {}

VARIABLES
    status,     \* TunnelManager.status
    unread,     \* ConnectionStatus events broadcast and not yet received
    flag,       \* TunnelManager.disconnect_initiated
    connector,  \* is TunnelManager.connector Some?
    session,    \* TunnelManager.session: none, pending a challenge, or ready
    lock,       \* who holds the connector mutex
    tasks,      \* TunnelManager.tasks, a tunnel standing for its two handles
    pc, op,     \* per call: the next statement, and the operation asked for
    local,      \* per call: the session it holds in a local variable
    tun,        \* per call: the tunnel it is starting
    task,       \* per tunnel: its run-loop task
    hnd,        \* per tunnel: the next statement of its event handler
    queue, ev,  \* per tunnel: evt_rx, and the event being handled
    aborted     \* tunnels whose handles were aborted

shared  == <<status, unread, flag, connector, session, lock, tasks>>
callers == <<pc, op, local, tun>>
tunnels == <<task, hnd, queue, ev, aborted>>
vars    == <<shared, callers, tunnels>>

Status   == {"disconnected", "connecting", "mfa", "connected", "error"}
Sessions == {"none", "pending", "ready"}
Events   == {"connected", "disconnected", "other"}

DialPcs       == {"clearFlag", "dialing", "storeConnector"}
StartPcs      == {"lockCreate", "creating", "readMtu", "tracking", "setConnecting"}
ConnectPcs    == DialPcs \cup {"reportMfa", "reportError"}
DisconnectPcs == {"setFlag", "lockTerminate", "terminating", "dropConnector",
                  "dropSession", "drain", "setDisconnected"}
ChallengePcs  == {"lockChallenge", "challenging", "storeAnswer"}
CallPcs       == {"idle", "redial"} \cup ConnectPcs \cup StartPcs
                   \cup DisconnectPcs \cup ChallengePcs
HandlerPcs    == {"none", "recv", "lockForward", "forwarding", "writeFail",
                  "apply", "fallback", "writeExit", "dropConnector",
                  "dropSession", "done"}

TypeOK ==
    /\ status \in Status
    /\ unread \in 0..EventCap
    /\ flag \in BOOLEAN
    /\ connector \in BOOLEAN
    /\ session \in Sessions
    /\ lock \in Calls \cup Tunnels \cup {None}
    /\ tasks \subseteq Tunnels
    /\ pc \in [Calls -> CallPcs]
    /\ op \in [Calls -> {"connect", "reconnect", "disconnect", "challenge"}]
    /\ local \in [Calls -> Sessions]
    /\ tun \in [Calls -> Tunnels \cup {None}]
    /\ task \in [Tunnels -> {"none", "running", "exited"}]
    /\ hnd \in [Tunnels -> HandlerPcs]
    /\ queue \in [Tunnels -> Seq(Events)]
    /\ ev \in [Tunnels -> Events]
    /\ aborted \subseteq Tunnels

(* A call names the tunnel it starts from its creation to the call's end,  *)
(* nobody else starts that one, and its handler does not run before it is  *)
(* spawned.                                                                *)
StarterOK ==
    /\ \A c \in Calls : IF pc[c] \in {"readMtu", "tracking", "setConnecting"}
                        THEN tun[c] \in Tunnels ELSE tun[c] = None
    /\ \A c, d \in Calls : tun[c] = tun[d] => c = d \/ tun[c] = None
    /\ \A c \in Calls : pc[c] = "readMtu" => hnd[tun[c]] = "none"

Init ==
    /\ status = "disconnected"
    /\ unread = 0
    /\ flag = FALSE
    /\ connector = FALSE
    /\ session = "none"
    /\ lock = None
    /\ tasks = {}
    /\ pc = [c \in Calls |-> "idle"]
    /\ op = [c \in Calls |-> "connect"]
    /\ local = [c \in Calls |-> "none"]
    /\ tun = [c \in Calls |-> None]
    /\ task = [t \in Tunnels |-> "none"]
    /\ hnd = [t \in Tunnels |-> "none"]
    /\ queue = [t \in Tunnels |-> <<>>]
    /\ ev = [t \in Tunnels |-> "other"]
    /\ aborted = {}

-----------------------------------------------------------------------------
(* Helpers.                                                                *)

Goto(c, l) == pc' = [pc EXCEPT ![c] = l]

(* The handler goes on to statement l; it handles no event any more once   *)
(* it leaves the body of the loop.                                         *)
Resume(t, l) ==
    /\ hnd' = [hnd EXCEPT ![t] = l]
    /\ UNCHANGED queue
    /\ ev' = IF l \in {"lockForward", "forwarding", "apply"} THEN ev
             ELSE [ev EXCEPT ![t] = "other"]

(* The handler ends, and with it the receiving end of its event channel.   *)
HandlerEnds(t) ==
    /\ hnd' = [hnd EXCEPT ![t] = "done"]
    /\ queue' = [queue EXCEPT ![t] = <<>>]
    /\ ev' = [ev EXCEPT ![t] = "other"]

(* One more ConnectionStatus event in the broadcast channel; when it is    *)
(* full the oldest one is lost.  The channel carries the log lines too:    *)
(* what they push out of it is Supervisor's Overrun.                       *)
Notify == unread' = IF unread < EventCap THEN unread + 1 ELSE EventCap

(* set_status: the write and the broadcast that follows it.                *)
SetStatus(s) == status' = s /\ Notify

Busy == {"connected", "connecting"}

(* The call returns, and forgets its locals.                               *)
Return(c) ==
    /\ Goto(c, "idle")
    /\ local' = [local EXCEPT ![c] = "none"]
    /\ tun' = [tun EXCEPT ![c] = None]
    /\ op' = [op EXCEPT ![c] = "connect"]

-----------------------------------------------------------------------------
(* connect() and connect_inner().                                          *)

(* Mutant: connect() starts without looking at the status.                 *)
AdmitAlways(c) ==
    /\ status' = "connecting"
    /\ Goto(c, "clearFlag")
    /\ UNCHANGED <<unread, flag, connector, session, lock, tasks, local, tun, tunnels>>

(* Mutant: connect() checks the status and forgets to claim it.            *)
AdmitUnclaimed(c) ==
    /\ status \notin Busy
    /\ Goto(c, "clearFlag")
    /\ UNCHANGED <<shared, local, tun, tunnels>>

Admit(c) ==
    /\ status \notin Busy
    /\ status' = "connecting"
    /\ Goto(c, "clearFlag")
    /\ UNCHANGED <<unread, flag, connector, session, lock, tasks, local, tun, tunnels>>

BeginConnect(c) ==
    /\ "connect" \in Ops
    /\ pc[c] = "idle"
    /\ Admit(c)
    /\ op' = [op EXCEPT ![c] = "connect"]

(* The connect half of reconnect(), after its disconnect half.             *)
Redial(c) ==
    /\ pc[c] = "redial"
    /\ \/ Admit(c) /\ UNCHANGED op
       \/ status \in Busy /\ Return(c) /\ UNCHANGED <<shared, tunnels>>

ClearFlag(c) ==
    /\ pc[c] = "clearFlag"
    /\ flag' = FALSE
    /\ Goto(c, "dialing")
    /\ UNCHANGED <<status, unread, connector, session, lock, tasks, op, local, tun, tunnels>>

(* factory.create, restore_session or authenticate: an error, a session,   *)
(* or a session that awaits an MFA code; the session is stored.            *)
Dial(c) ==
    /\ pc[c] = "dialing"
    /\ \/ Goto(c, "reportError") /\ UNCHANGED <<session, local>>
       \/ \E s \in {"pending", "ready"} :
            /\ local' = [local EXCEPT ![c] = s]
            /\ session' = s
            /\ Goto(c, "storeConnector")
    /\ UNCHANGED <<status, unread, flag, connector, lock, tasks, op, tun, tunnels>>

StoreConnector(c) ==
    /\ pc[c] = "storeConnector"
    /\ lock = None
    /\ connector' = TRUE
    /\ Goto(c, IF local[c] = "pending" THEN "reportMfa" ELSE "lockCreate")
    /\ UNCHANGED <<status, unread, flag, session, lock, tasks, op, local, tun, tunnels>>

ReportMfa(c) ==
    /\ pc[c] = "reportMfa"
    /\ SetStatus("mfa")
    /\ Return(c)
    /\ UNCHANGED <<flag, connector, session, lock, tasks, tunnels>>

ReportError(c) ==
    /\ pc[c] = "reportError"
    /\ SetStatus("error")
    /\ Return(c)
    /\ UNCHANGED <<flag, connector, session, lock, tasks, tunnels>>

-----------------------------------------------------------------------------
(* start_tunnel().  Its error is connect()'s error, which sets the status, *)
(* or challenge_code()'s, which does not.                                  *)

(* Mutant: connect() returns start_tunnel's error and sets no status.      *)
StartFailsSilently(c) == Return(c)

StartFails(c) ==
    IF op[c] = "challenge"
    THEN Return(c)
    ELSE Goto(c, "reportError") /\ UNCHANGED <<op, local, tun>>

LockCreate(c) ==
    /\ pc[c] = "lockCreate"
    /\ lock = None
    /\ IF connector
       THEN lock' = c /\ Goto(c, "creating") /\ UNCHANGED <<op, local, tun>>
       ELSE StartFails(c) /\ UNCHANGED lock
    /\ UNCHANGED <<status, unread, flag, connector, session, tasks, tunnels>>

(* A slot whose task and handler have both ended may be used again.        *)
Unused == {t \in Tunnels : /\ task[t] # "running"
                           /\ hnd[t] \in {"none", "done"}
                           /\ \A c \in Calls : tun[c] # t}

(* create_tunnel answers.  On success the tunnel's run loop starts; its    *)
(* events wait in evt_rx, which the caller still owns.                     *)
CreateTunnel(c) ==
    /\ pc[c] = "creating"
    /\ lock' = None
    /\ \/ StartFails(c) /\ UNCHANGED <<tasks, tunnels>>
       \/ \E t \in Unused :
            /\ tun' = [tun EXCEPT ![c] = t]
            /\ task' = [task EXCEPT ![t] = "running"]
            /\ hnd' = [hnd EXCEPT ![t] = "none"]
            /\ tasks' = tasks \ {t}
            /\ aborted' = aborted \ {t}
            /\ Goto(c, "readMtu")
            /\ UNCHANGED <<op, local, queue, ev>>
    /\ UNCHANGED <<status, unread, flag, connector, session>>

(* The read of last_mtu, an await, and the spawn of the event handler.     *)
ReadMtu(c) ==
    /\ pc[c] = "readMtu"
    /\ hnd' = [hnd EXCEPT ![tun[c]] = "recv"]
    /\ Goto(c, "tracking")
    /\ UNCHANGED <<shared, op, local, tun, task, queue, ev, aborted>>

Track(c) ==
    /\ pc[c] = "tracking"
    /\ tasks' = tasks \cup {tun[c]}
    /\ Goto(c, "setConnecting")
    /\ UNCHANGED <<status, unread, flag, connector, session, lock, op, local, tun, tunnels>>

SetConnecting(c) ==
    /\ pc[c] = "setConnecting"
    /\ SetStatus("connecting")
    /\ Return(c)
    /\ UNCHANGED <<flag, connector, session, lock, tasks, tunnels>>

-----------------------------------------------------------------------------
(* disconnect(), on its own or as the first half of reconnect().           *)

BeginDisconnect(c) ==
    /\ "disconnect" \in Ops
    /\ pc[c] = "idle"
    /\ status # "disconnected"
    /\ Goto(c, "setFlag")
    /\ op' = [op EXCEPT ![c] = "disconnect"]
    /\ UNCHANGED <<shared, local, tun, tunnels>>

BeginReconnect(c) ==
    /\ "reconnect" \in Ops
    /\ pc[c] = "idle"
    /\ Goto(c, IF status = "disconnected" THEN "redial" ELSE "setFlag")
    /\ op' = [op EXCEPT ![c] = "reconnect"]
    /\ UNCHANGED <<shared, local, tun, tunnels>>

SetFlag(c) ==
    /\ pc[c] = "setFlag"
    /\ flag' = TRUE
    /\ Goto(c, "lockTerminate")
    /\ UNCHANGED <<status, unread, connector, session, lock, tasks, op, local, tun, tunnels>>

LockTerminate(c) ==
    /\ pc[c] = "lockTerminate"
    /\ lock = None
    /\ IF connector
       THEN lock' = c /\ Goto(c, "terminating")
       ELSE UNCHANGED lock /\ Goto(c, "dropConnector")
    /\ UNCHANGED <<status, unread, flag, connector, session, tasks, op, local, tun, tunnels>>

(* Mutant: the guard of the connector mutex outlives its block.            *)
TerminatedLocked(c) ==
    /\ pc[c] = "terminating"
    /\ Goto(c, "dropConnector")
    /\ UNCHANGED <<shared, op, local, tun, tunnels>>

(* delete_session and terminate_tunnel answered; their errors are ignored. *)
Terminated(c) ==
    /\ pc[c] = "terminating"
    /\ lock' = None
    /\ Goto(c, "dropConnector")
    /\ UNCHANGED <<status, unread, flag, connector, session, tasks, op, local, tun, tunnels>>

(* Mutant: disconnect() forgets the session.                               *)
DropConnectorOnly(c) ==
    /\ pc[c] = "dropConnector"
    /\ lock = None
    /\ connector' = FALSE
    /\ Goto(c, "drain")
    /\ UNCHANGED <<status, unread, flag, session, lock, tasks, op, local, tun, tunnels>>

DropConnector(c) ==
    /\ pc[c] = "dropConnector"
    /\ lock = None
    /\ connector' = FALSE
    /\ Goto(c, "dropSession")
    /\ UNCHANGED <<status, unread, flag, session, lock, tasks, op, local, tun, tunnels>>

DropSession(c) ==
    /\ pc[c] = "dropSession"
    /\ session' = "none"
    /\ Goto(c, "drain")
    /\ UNCHANGED <<status, unread, flag, connector, lock, tasks, op, local, tun, tunnels>>

(* Mutant: the handles are dropped, which detaches the tasks.              *)
DrainDetached(c) ==
    /\ pc[c] = "drain"
    /\ tasks' = {}
    /\ Goto(c, "setDisconnected")
    /\ UNCHANGED <<status, unread, flag, connector, session, lock, op, local, tun, tunnels>>

Drain(c) ==
    /\ pc[c] = "drain"
    /\ aborted' = aborted \cup tasks
    /\ tasks' = {}
    /\ Goto(c, "setDisconnected")
    /\ UNCHANGED <<status, unread, flag, connector, session, lock, op, local, tun,
                   task, hnd, queue, ev>>

SetDisconnected(c) ==
    /\ pc[c] = "setDisconnected"
    /\ SetStatus("disconnected")
    /\ IF op[c] = "reconnect"
       THEN Goto(c, "redial") /\ UNCHANGED <<op, local, tun>>
       ELSE Return(c)
    /\ UNCHANGED <<flag, connector, session, lock, tasks, tunnels>>

-----------------------------------------------------------------------------
(* challenge_code().                                                       *)

BeginChallenge(c) ==
    /\ "challenge" \in Ops
    /\ pc[c] = "idle"
    /\ session = "pending"
    /\ local' = [local EXCEPT ![c] = session]
    /\ Goto(c, "lockChallenge")
    /\ op' = [op EXCEPT ![c] = "challenge"]
    /\ UNCHANGED <<shared, tun, tunnels>>

LockChallenge(c) ==
    /\ pc[c] = "lockChallenge"
    /\ lock = None
    /\ IF connector
       THEN lock' = c /\ Goto(c, "challenging") /\ UNCHANGED <<op, local, tun>>
       ELSE UNCHANGED lock /\ Return(c)
    /\ UNCHANGED <<status, unread, flag, connector, session, tasks, tunnels>>

(* The gateway rejects the code, asks for another one, or accepts it.      *)
Answered(c) ==
    /\ pc[c] = "challenging"
    /\ lock' = None
    /\ \/ Return(c)
       \/ \E s \in {"pending", "ready"} :
            /\ local' = [local EXCEPT ![c] = s]
            /\ Goto(c, "storeAnswer")
            /\ UNCHANGED <<op, tun>>
    /\ UNCHANGED <<status, unread, flag, connector, session, tasks, tunnels>>

StoreAnswer(c) ==
    /\ pc[c] = "storeAnswer"
    /\ session' = local[c]
    /\ Goto(c, IF local[c] = "pending" THEN "reportMfa" ELSE "lockCreate")
    /\ UNCHANGED <<status, unread, flag, connector, lock, tasks, op, local, tun, tunnels>>

-----------------------------------------------------------------------------
(* An HTTP client that closes its connection makes the server drop the     *)
(* handler's future at the await it is suspended in: no later statement of *)
(* the call runs, and a mutex guard it holds is released.  Between the two *)
(* spawns of start_tunnel the run loop is detached, and evt_rx is dropped. *)

AwaitPcs == {"dialing", "storeConnector", "lockCreate", "creating", "readMtu",
             "lockTerminate", "terminating", "dropConnector",
             "lockChallenge", "challenging"}

(* Mutant: a lock that dropping the future does not release.               *)
HangUpLocked(c) ==
    /\ c \in HangUps
    /\ pc[c] \in AwaitPcs
    /\ Return(c)
    /\ UNCHANGED <<shared, tunnels>>

HangUp(c) ==
    /\ c \in HangUps
    /\ pc[c] \in AwaitPcs
    /\ lock' = IF lock = c THEN None ELSE lock
    /\ queue' = [t \in Tunnels |-> IF tun[c] = t THEN <<>> ELSE queue[t]]
    /\ Return(c)
    /\ UNCHANGED <<status, unread, flag, connector, session, tasks,
                   task, hnd, ev, aborted>>

-----------------------------------------------------------------------------
(* The tunnel's run loop, in snxcore: it reports events and ends, at any   *)
(* time, also before start_tunnel has returned.  A tunnel that has         *)
(* reported a disconnection ends with it.                                  *)

Live(t) == hnd[t] \notin {"none", "done"}

(* Somebody holds the receiving end of the tunnel's event channel.         *)
Listened(t) == Live(t) \/ \E c \in Calls : tun[c] = t /\ pc[c] = "readMtu"

Report(t) ==
    /\ task[t] = "running"
    /\ Listened(t)
    /\ Len(queue[t]) < QueueCap
    /\ \E e \in Reports :
         /\ queue' = [queue EXCEPT ![t] = Append(@, e)]
         /\ task' = [task EXCEPT ![t] = IF e = "disconnected" THEN "exited" ELSE @]
    /\ UNCHANGED <<shared, callers, hnd, ev, aborted>>

Exit(t) ==
    /\ task[t] = "running"
    /\ task' = [task EXCEPT ![t] = "exited"]
    /\ UNCHANGED <<shared, callers, hnd, queue, ev, aborted>>

-----------------------------------------------------------------------------
(* The event handler task spawned by start_tunnel.                         *)

(* An event arrives, or the channel is closed and empty.  Either way the   *)
(* handler looks at disconnect_initiated before it does anything.          *)
Recv(t) ==
    /\ hnd[t] = "recv"
    /\ queue[t] # <<>>
    /\ queue' = [queue EXCEPT ![t] = Tail(@)]
    /\ ev' = IF flag THEN ev ELSE [ev EXCEPT ![t] = Head(queue[t])]
    /\ hnd' = [hnd EXCEPT ![t] = IF flag THEN "fallback" ELSE "lockForward"]
    /\ UNCHANGED <<shared, callers, task, aborted>>

RecvClosed(t) ==
    /\ hnd[t] = "recv"
    /\ queue[t] = <<>>
    /\ task[t] = "exited"
    /\ IF flag THEN HandlerEnds(t) ELSE Resume(t, "writeExit")
    /\ UNCHANGED <<shared, callers, task, aborted>>

LockForward(t) ==
    /\ hnd[t] = "lockForward"
    /\ lock = None
    /\ IF connector
       THEN lock' = t /\ Resume(t, "forwarding")
       ELSE UNCHANGED lock /\ Resume(t, "apply")
    /\ UNCHANGED <<status, unread, flag, connector, session, tasks, callers,
                   task, aborted>>

(* handle_tunnel_event() succeeds or fails.  The error branch runs with    *)
(* the connector mutex held.                                               *)
Forwarded(t) ==
    /\ hnd[t] = "forwarding"
    /\ \/ Resume(t, "apply") /\ lock' = None
       \/ flag /\ HandlerEnds(t) /\ lock' = None
       \/ ~flag /\ Resume(t, "writeFail") /\ UNCHANGED lock
    /\ UNCHANGED <<status, unread, flag, connector, session, tasks, callers,
                   task, aborted>>

WriteFail(t) ==
    /\ hnd[t] = "writeFail"
    /\ SetStatus("error")
    /\ lock' = None
    /\ HandlerEnds(t)
    /\ UNCHANGED <<flag, connector, session, tasks, callers, task, aborted>>

Apply(t) ==
    /\ hnd[t] = "apply"
    /\ \/ ev[t] = "connected" /\ SetStatus("connected") /\ Resume(t, "recv")
       \/ /\ ev[t] = "disconnected"
          /\ status' = "disconnected"
          /\ Resume(t, "dropConnector")
          /\ UNCHANGED unread
       \/ ev[t] = "other" /\ Resume(t, "recv") /\ UNCHANGED <<status, unread>>
    /\ UNCHANGED <<flag, connector, session, lock, tasks, callers,
                   task, aborted>>

(* The loop was left because of the flag: terminal_status_on_channel_close *)
(* looks at it again, and a connect() may have cleared it.                 *)
Fallback(t) ==
    /\ hnd[t] = "fallback"
    /\ (IF flag THEN HandlerEnds(t) ELSE Resume(t, "writeExit"))
    /\ UNCHANGED <<shared, callers, task, aborted>>

(* Mutant: a closed event channel leaves the status as it is.              *)
WriteExitSilently(t) ==
    /\ hnd[t] = "writeExit"
    /\ Resume(t, "dropConnector")
    /\ UNCHANGED <<shared, callers, task, aborted>>

WriteExit(t) ==
    /\ hnd[t] = "writeExit"
    /\ status' = "error"
    /\ Resume(t, "dropConnector")
    /\ UNCHANGED <<unread, flag, connector, session, lock, tasks, callers,
                   task, aborted>>

HandlerDropsConnector(t) ==
    /\ hnd[t] = "dropConnector"
    /\ lock = None
    /\ connector' = FALSE
    /\ Resume(t, "dropSession")
    /\ UNCHANGED <<status, unread, flag, session, lock, tasks, callers,
                   task, aborted>>

(* Mutant: the handler ends without broadcasting the final status.         *)
HandlerDropsSessionSilently(t) ==
    /\ hnd[t] = "dropSession"
    /\ session' = "none"
    /\ HandlerEnds(t)
    /\ UNCHANGED <<status, unread, flag, connector, lock, tasks, callers,
                   task, aborted>>

HandlerDropsSession(t) ==
    /\ hnd[t] = "dropSession"
    /\ session' = "none"
    /\ Notify
    /\ HandlerEnds(t)
    /\ UNCHANGED <<status, flag, connector, lock, tasks, callers,
                   task, aborted>>

(* An aborted handler stops at the next await that would suspend it.       *)
HandlerAborted(t) ==
    /\ t \in aborted
    /\ hnd[t] \in {"recv", "lockForward", "forwarding", "dropConnector"}
    /\ lock' = IF lock = t THEN None ELSE lock
    /\ HandlerEnds(t)
    /\ UNCHANGED <<status, unread, flag, connector, session, tasks, callers,
                   task, aborted>>

-----------------------------------------------------------------------------
Begin(c) == BeginConnect(c) \/ BeginDisconnect(c) \/ BeginReconnect(c) \/ BeginChallenge(c)

ConnectStep(c) ==
    \/ Redial(c) \/ ClearFlag(c) \/ Dial(c) \/ StoreConnector(c)
    \/ ReportMfa(c) \/ ReportError(c)

StartStep(c) ==
    \/ LockCreate(c) \/ CreateTunnel(c) \/ ReadMtu(c) \/ Track(c)
    \/ SetConnecting(c)

DisconnectStep(c) ==
    \/ SetFlag(c) \/ LockTerminate(c) \/ Terminated(c) \/ DropConnector(c)
    \/ DropSession(c) \/ Drain(c) \/ SetDisconnected(c)

ChallengeStep(c) == LockChallenge(c) \/ Answered(c) \/ StoreAnswer(c)

CallStep(c) == ConnectStep(c) \/ StartStep(c) \/ DisconnectStep(c) \/ ChallengeStep(c)

HandlerStep(t) ==
    \/ Recv(t) \/ RecvClosed(t) \/ LockForward(t) \/ Forwarded(t) \/ WriteFail(t)
    \/ Apply(t) \/ Fallback(t) \/ WriteExit(t) \/ HandlerDropsConnector(t)
    \/ HandlerDropsSession(t) \/ HandlerAborted(t)

TunnelStep(t) == Report(t) \/ Exit(t)

Next ==
    \/ \E c \in Calls : Begin(c) \/ CallStep(c) \/ HangUp(c)
    \/ \E t \in Tunnels : TunnelStep(t) \/ HandlerStep(t)

Spec == Init /\ [][Next]_vars

(* Whose next step is an answer of the gateway.                            *)
GatewayPcs == {"dialing", "creating", "terminating", "challenging"}

(* Tasks run, and the tokio mutex is first come, first served: a step that *)
(* waits for it is not overtaken for ever (strong fairness).  Nothing is   *)
(* asked of the gateway, whose calls have no time limit in tunnel.rs, of   *)
(* operators or of tunnels, except that an aborted tunnel task ends.       *)
Fairness ==
    /\ \A c \in Calls : SF_vars(pc[c] \notin GatewayPcs /\ CallStep(c))
    /\ \A t \in Tunnels : /\ SF_vars(hnd[t] # "forwarding" /\ HandlerStep(t))
                          /\ WF_vars(HandlerAborted(t))
                          /\ WF_vars(t \in aborted /\ Exit(t))

FairSpec == Spec /\ Fairness

-----------------------------------------------------------------------------
(* Properties.                                                             *)

Idle == \A c \in Calls : pc[c] = "idle"

(* Whoever is at a statement inside a connector-mutex block holds the      *)
(* mutex, and nobody else does: every error path, early return, dropped    *)
(* future and aborted task releases it.                                    *)
MutexHeld ==
    /\ \A c \in Calls : lock = c <=> pc[c] \in {"creating", "terminating", "challenging"}
    /\ \A t \in Tunnels : lock = t <=> hnd[t] \in {"forwarding", "writeFail"}

(* A tunnel no disconnect() can end: it runs or its event handler does,    *)
(* and it is not in the task list, not about to be put there by the call   *)
(* that started it, and not aborted.                                       *)
Orphan(t) ==
    /\ task[t] = "running" \/ Live(t)
    /\ t \notin tasks \cup aborted
    /\ \A c \in Calls : tun[c] = t => pc[c] \notin {"readMtu", "tracking"}

(* Whatever calls overlap, fail and hang up, a tunnel escapes disconnect() *)
(* at one point only: the call that starts it is dropped between the spawn *)
(* of its run loop and the spawn of its handler (tunnel.rs:336-350).       *)
OnlyADropOrphans ==
    [][ \A t \in Tunnels : ~Orphan(t) /\ Orphan(t)' =>
          \E c \in Calls : tun[c] = t /\ pc[c] = "readMtu" /\ HangUp(c) ]_vars

(* The status check at the top of connect() admits one attempt at a time:  *)
(* while callers only connect, two of them never dial the gateway, install *)
(* a session and a connector or start a tunnel at the same time, and the   *)
(* status stays `connecting' under the one that does.                      *)
Dialing(c) == pc[c] \in DialPcs \cup {"reportMfa", "reportError", "lockCreate",
                                      "creating", "readMtu"}
OneDialAtATime ==
    /\ \A c, d \in Calls : Dialing(c) /\ Dialing(d) => c = d
    /\ \A c \in Calls : Dialing(c) => status = "connecting"

(* Who will move a status of `connecting': a call that is going to write   *)
(* another one, or a handler that nothing silences.                        *)
Writer(t) == hnd[t] \in {"recv", "lockForward", "forwarding", "writeFail",
                         "apply", "fallback", "writeExit"}

Moves(c) == \/ pc[c] \in ConnectPcs \cup DisconnectPcs
            \/ pc[c] \in {"readMtu", "tracking", "setConnecting"}
            \/ pc[c] \in {"lockCreate", "creating"} /\ op[c] # "challenge"

Stuck ==
    /\ status = "connecting"
    /\ \A c \in Calls : ~Moves(c)
    /\ flag \/ \A t \in Tunnels : Writer(t) => t \in aborted

(* connect() wraps its body so that no early exit leaves the status stuck  *)
(* on `connecting' (the comment at tunnel.rs:266).  It does get stuck, and *)
(* whatever calls and tunnels overlap in these two ways only: the future   *)
(* of a call is dropped, or start_tunnel writes `connecting' over the end  *)
(* of a tunnel that its handler has written, or a disconnect() silenced,   *)
(* before start_tunnel returned (tunnel.rs:455).                           *)
OnlyTheseStick ==
    [][ ~Stuck /\ Stuck' => \E c \in Calls : HangUp(c) \/ SetConnecting(c) ]_vars

(* A status of `connected' is watched: a handler that can report the loss  *)
(* of the tunnel is alive.                                                 *)
ConnectedIsWatched ==
    status = "connected" => \E t \in Tunnels : Live(t) /\ t \notin aborted

(* After a disconnect() that ran to its end nothing of the session is      *)
(* left, whichever of the attempts before it failed half-way.              *)
CleanDisconnect ==
    flag /\ Idle => ~connector /\ session = "none" /\ tasks = {}

(* Every call returns if the gateway answers what it is asked: no          *)
(* interleaving of calls, handlers and aborts leaves one waiting for the   *)
(* connector mutex for ever.                                               *)
GatewayAnswers ==
    /\ \A c \in Calls : []<>(pc[c] \notin GatewayPcs)
    /\ \A t \in Tunnels : []<>(hnd[t] # "forwarding")
CallsReturn ==
    GatewayAnswers => \A c \in Calls : pc[c] # "idle" ~> pc[c] = "idle"

(* While callers only connect, however they race and hang up and whenever  *)
(* their tunnels report, the status moves only as the abstract life cycle  *)
(* allows.                                                                 *)
Watched == INSTANCE Lifecycle
ImplementsLifecycle == Watched!Spec
=============================================================================
