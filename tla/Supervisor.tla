----------------------------- MODULE Supervisor -----------------------------
(***************************************************************************)
(* The control plane of snx-edge-server: the tunnel API handlers (api/     *)
(* tunnel.rs), which record the operator's intent in the database and call *)
(* the tunnel manager, and the supervisor task (supervisor.rs), which      *)
(* redials the intended profile after a drop, with backoff, until it gives *)
(* up and latches reconnect_suspended.                                     *)
(*                                                                         *)
(* Both drive the one TunnelManager this module extends: an API request c  *)
(* and the supervisor Sup are callers of it, and their calls interleave    *)
(* with each other and with the event handlers statement by statement.     *)
(***************************************************************************)
EXTENDS TunnelManager

CONSTANTS
    Sup,          \* the supervisor, as a caller of the tunnel manager
    Profiles,     \* VPN profiles in the database
    MaxAttempts,  \* MAX_RECONNECT_ATTEMPTS (10 in the code)
    DbFails       \* may a database access fail?

ASSUME SupAssumption == Sup \in Calls \ HangUps
ASSUME ProfilesAssumption == None \notin Profiles
ASSUME AttemptsAssumption == MaxAttempts \in Nat \ {0}

Api == Calls \ {Sup}

VARIABLES
    desired,    \* app_state desired_profile_id, None when the key is absent
    auto,       \* app_state auto_connect is "true"
    suspended,  \* AppState.reconnect_suspended
    shutdown,   \* AppState.shutdown is cancelled
    req,        \* per API request: the next statement of its handler
    want,       \* per API request: the profile it names
    spc,        \* the supervisor's next statement
    booting,    \* it has not entered its event loop yet
    target,     \* the profile of its backoff burst
    failures,   \* initiate_with_backoff's counter
    streak,     \* history: supervisor attempts that failed since the last
                \* explicit connect, hold state or un-suspension
    forgot      \* history: since the supervisor last looked at the status, a
                \* step that may leave a wanted tunnel to nobody was taken

intent  == <<desired, auto, suspended>>
request == <<req, want>>
superv  == <<spc, booting, target, failures, streak, forgot>>
svars   == <<intent, shutdown, request, superv>>
allvars == <<vars, svars>>

ReqPcs == {"none", "setDesired", "setAuto", "arm", "call",
           "delDesired", "delAuto", "hangUp"}
BurstPcs == {"attempt", "calling"}
SupPcs == {"wait", "readAuto", "readDesired", "off"} \cup BurstPcs

SupTypeOK ==
    /\ TypeOK
    /\ desired \in Profiles \cup {None}
    /\ auto \in BOOLEAN
    /\ suspended \in BOOLEAN
    /\ shutdown \in BOOLEAN
    /\ req \in [Api -> ReqPcs]
    /\ want \in [Api -> Profiles \cup {None}]
    /\ spc \in SupPcs
    /\ booting \in BOOLEAN
    /\ target \in Profiles \cup {None}
    /\ failures \in 0..MaxAttempts
    /\ streak \in 0..MaxAttempts
    /\ forgot \in BOOLEAN

(* The process starts with whatever intent an earlier run has persisted.   *)
SupInit ==
    /\ Init
    /\ desired \in Profiles \cup {None}
    /\ auto \in BOOLEAN
    /\ suspended = FALSE
    /\ shutdown = FALSE
    /\ req = [c \in Api |-> "none"]
    /\ want = [c \in Api |-> None]
    /\ spc = "readAuto"
    /\ booting = TRUE
    /\ target = None
    /\ failures = 0
    /\ streak = 0
    /\ forgot = FALSE

-----------------------------------------------------------------------------
(* API handlers.                                                           *)

Await(c, l) == req' = [req EXCEPT ![c] = l]

Respond(c) == Await(c, "none") /\ want' = [want EXCEPT ![c] = None]

Quiet(c) == req[c] = "none" /\ pc[c] = "idle" /\ ~shutdown

(* connect: the profile loads and names a server.                          *)
ConnectRequest(c) ==
    /\ "connect" \in Ops
    /\ Quiet(c)
    /\ \E p \in Profiles : want' = [want EXCEPT ![c] = p]
    /\ Await(c, "setDesired")
    /\ UNCHANGED <<vars, intent, shutdown, superv>>

SaveDesired(c) ==
    /\ req[c] = "setDesired"
    /\ desired' = want[c]
    /\ Await(c, "setAuto")
    /\ UNCHANGED <<vars, auto, suspended, shutdown, want, superv>>

SaveAuto(c) ==
    /\ req[c] = "setAuto"
    /\ auto' = TRUE
    /\ Await(c, "arm")
    /\ UNCHANGED <<vars, desired, suspended, shutdown, want, superv>>

Arm(c) ==
    /\ req[c] = "arm"
    /\ suspended' = FALSE
    /\ streak' = 0
    /\ Await(c, "call")
    /\ UNCHANGED <<vars, desired, auto, shutdown, want,
                   spc, booting, target, failures, forgot>>

CallConnect(c) ==
    /\ req[c] = "call"
    /\ BeginConnect(c) \/ (status \in Busy /\ UNCHANGED vars)
    /\ Respond(c)
    /\ UNCHANGED <<intent, shutdown, superv>>

DisconnectRequest(c) ==
    /\ "disconnect" \in Ops
    /\ Quiet(c)
    /\ Await(c, "delDesired")
    /\ UNCHANGED <<vars, intent, shutdown, want, superv>>

DeleteDesired(c) ==
    /\ req[c] = "delDesired"
    /\ desired' = None
    /\ Await(c, "delAuto")
    /\ UNCHANGED <<vars, auto, suspended, shutdown, want, superv>>

DeleteAuto(c) ==
    /\ req[c] = "delAuto"
    /\ auto' = FALSE
    /\ Await(c, "hangUp")
    /\ UNCHANGED <<vars, desired, suspended, shutdown, want, superv>>

CallDisconnect(c) ==
    /\ req[c] = "hangUp"
    /\ BeginDisconnect(c) \/ (status = "disconnected" /\ UNCHANGED vars)
    /\ Respond(c)
    /\ UNCHANGED <<intent, shutdown, superv>>

(* reconnect records no intent and does not lift the suspension.           *)
ReconnectRequest(c) ==
    /\ Quiet(c)
    /\ BeginReconnect(c)
    /\ UNCHANGED svars

ChallengeRequest(c) ==
    /\ Quiet(c)
    /\ BeginChallenge(c)
    /\ UNCHANGED svars

(* A database write fails, or the client hangs up while it is awaited.     *)
RequestLost(c) ==
    /\ DbFails \/ c \in HangUps
    /\ req[c] \in {"setDesired", "setAuto", "delDesired", "delAuto"}
    /\ Respond(c)
    /\ forgot' = (forgot \/ req[c] \in {"setDesired", "setAuto"})
    /\ UNCHANGED <<vars, intent, shutdown, spc, booting, target, failures, streak>>

-----------------------------------------------------------------------------
(* The supervisor.                                                         *)

(* desired_profile: two reads of the database.                             *)
ReadAuto ==
    /\ spc = "readAuto"
    /\ spc' = IF auto THEN "readDesired" ELSE "wait"
    /\ booting' = (booting /\ auto)
    /\ UNCHANGED <<vars, intent, shutdown, request, target, failures, streak, forgot>>

(* Mutant: the burst's own buffered events re-arm it, the latch unread.    *)
ReadDesiredUnlatched ==
    /\ spc = "readDesired"
    /\ IF desired # None
       THEN spc' = "attempt" /\ target' = desired
       ELSE spc' = "wait" /\ UNCHANGED target
    /\ booting' = FALSE
    /\ UNCHANGED <<vars, intent, shutdown, request, failures, streak, forgot>>

(* At boot the intended profile is dialled unconditionally, later only     *)
(* while reconnecting is not suspended.                                    *)
ReadDesired ==
    /\ spc = "readDesired"
    /\ IF desired # None /\ (booting \/ ~suspended)
       THEN spc' = "attempt" /\ target' = desired
       ELSE spc' = "wait" /\ UNCHANGED target
    /\ booting' = FALSE
    /\ UNCHANGED <<vars, intent, shutdown, request, failures, streak, forgot>>

(* Either read fails: as good as no intent.                                *)
ReadFails ==
    /\ DbFails
    /\ spc \in {"readAuto", "readDesired"}
    /\ spc' = "wait"
    /\ booting' = FALSE
    /\ forgot' = TRUE
    /\ UNCHANGED <<vars, intent, shutdown, request, target, failures, streak>>

(* decide.                                                                 *)
Hold(s) == s \in {"connected", "connecting", "mfa"}

(* A ConnectionStatus event: re-read the status.  `connected' lifts the    *)
(* suspension; a tunnel at rest has the intent looked up.                  *)
Observe ==
    /\ spc = "wait"
    /\ unread > 0
    /\ unread' = unread - 1
    /\ IF status = "connected"
       THEN suspended' = FALSE /\ streak' = 0
       ELSE UNCHANGED <<suspended, streak>>
    /\ spc' = IF Hold(status) THEN "wait" ELSE "readAuto"
    /\ forgot' = FALSE
    /\ UNCHANGED <<status, flag, connector, session, lock, tasks, callers, tunnels,
                   desired, auto, shutdown, request, booting, target, failures>>

(* Log lines share the channel, and 256 events that the supervisor has not *)
(* received push the oldest ones out of it; recv reports Lagged, on which  *)
(* the loop does nothing but go on.                                        *)
Overrun ==
    /\ unread > 0
    /\ unread' = unread - 1
    /\ forgot' = TRUE
    /\ UNCHANGED <<status, flag, connector, session, lock, tasks, callers, tunnels,
                   intent, shutdown, request, spc, booting, target, failures, streak>>

(* The top of the burst's loop, at once or after the backoff sleep, whose  *)
(* length is arbitrary here.  try_connect: the profile does not load, or   *)
(* the manager refuses the call, or it admits it.                          *)
Attempt ==
    /\ spc = "attempt"
    /\ ~shutdown
    /\ BeginConnect(Sup) \/ UNCHANGED vars
    /\ spc' = "calling"
    /\ UNCHANGED <<intent, shutdown, request, booting, target, failures, streak, forgot>>

BurstEnds(l) == spc' = l /\ target' = None /\ failures' = 0

(* After the attempt the status decides: stop at a hold state, give up     *)
(* after MaxAttempts failures in a row, or sleep and try again.            *)
Decide ==
    /\ spc = "calling"
    /\ pc[Sup] = "idle"
    /\ \/ Hold(status) /\ BurstEnds("wait") /\ streak' = 0 /\ UNCHANGED suspended
       \/ /\ ~Hold(status)
          /\ streak' = streak + 1
          /\ IF failures + 1 >= MaxAttempts
             THEN BurstEnds("wait") /\ suspended' = TRUE
             ELSE /\ spc' = "attempt"
                  /\ failures' = failures + 1
                  /\ UNCHANGED <<target, suspended>>
    /\ UNCHANGED <<vars, desired, auto, shutdown, request, booting, forgot>>

(* Shutdown ends the backoff sleep, the burst and the event loop.          *)
SupStops ==
    /\ shutdown
    /\ \/ spc = "attempt" /\ BurstEnds("wait")
       \/ spc = "wait" /\ spc' = "off" /\ UNCHANGED <<target, failures>>
    /\ UNCHANGED <<vars, intent, shutdown, request, booting, streak, forgot>>

Signal ==
    /\ ~shutdown
    /\ shutdown' = TRUE
    /\ UNCHANGED <<vars, intent, request, superv>>

-----------------------------------------------------------------------------
ApiStep(c) ==
    \/ ConnectRequest(c) \/ SaveDesired(c) \/ SaveAuto(c) \/ Arm(c) \/ CallConnect(c)
    \/ DisconnectRequest(c) \/ DeleteDesired(c) \/ DeleteAuto(c) \/ CallDisconnect(c)
    \/ ReconnectRequest(c) \/ ChallengeRequest(c) \/ RequestLost(c)

SupStep == ReadAuto \/ ReadDesired \/ ReadFails \/ Observe \/ Attempt \/ Decide \/ SupStops

(* A handler is aborted between its last write and its broadcast.          *)
CutShort == \E t \in Tunnels : hnd[t] = "dropConnector" /\ HandlerAborted(t)

(* A step of a call already begun, of a tunnel or of an event handler.     *)
Beside ==
    /\ forgot' = (forgot \/ CutShort)
    /\ UNCHANGED <<intent, shutdown, request, spc, booting, target, failures, streak>>

ManagerStep ==
    /\ \/ \E c \in Calls : CallStep(c) \/ HangUp(c)
       \/ \E t \in Tunnels : TunnelStep(t) \/ HandlerStep(t)
    /\ Beside

SupNext ==
    (\E c \in Api : ApiStep(c)) \/ SupStep \/ Overrun \/ Signal \/ ManagerStep

SupSpec == SupInit /\ [][SupNext]_allvars

(* Every task that has begun something goes on with it; operators need not *)
(* ask for anything, and the gateway need not answer.                      *)
SupFairness ==
    /\ WF_allvars(SupStep)
    /\ \A c \in Api : WF_allvars(req[c] # "none" /\ ApiStep(c))
    /\ \A c \in Calls : SF_allvars(pc[c] \notin GatewayPcs /\ CallStep(c) /\ Beside)
    /\ \A t \in Tunnels :
         /\ SF_allvars(hnd[t] # "forwarding" /\ HandlerStep(t) /\ Beside)
         /\ WF_allvars(HandlerAborted(t) /\ Beside)

SupFairSpec == SupSpec /\ SupFairness

-----------------------------------------------------------------------------
(* Properties.                                                             *)

(* The give-up is final: the supervisor never fails more than MaxAttempts  *)
(* times in a row without an explicit connect or a session in between,     *)
(* although every failure leaves an `error' event of its own in the        *)
(* channel it listens to.                                                  *)
GiveUpIsFinal == streak <= MaxAttempts /\ (streak = MaxAttempts => suspended)

(* While reconnecting is suspended the supervisor dials nothing.           *)
SuspendedIsQuiet == suspended => spc \notin BurstPcs

(* "A deliberate user disconnect must stop the supervisor from auto-       *)
(* reconnecting": once a disconnect has cleared the intent, ended and      *)
(* returned, no retry of a backoff burst dials the gateway.                *)
AllAnswered == \A c \in Api : req[c] = "none" /\ pc[c] = "idle"
DisconnectIsFinal ==
    [][ BeginConnect(Sup) /\ failures > 0 /\ AllAnswered
          => ~(flag /\ desired = None /\ ~auto) ]_allvars

(* An unexpected drop is followed up: while a profile is desired a tunnel  *)
(* at rest is dialled again, unless the supervisor has given up or stops,  *)
(* or has been made to forget it: since it last looked, the event of the   *)
(* drop was lost to log lines, or one of the other steps that set `forgot' *)
(* was taken (NobodyIsForgotten proves that there are no more of them).    *)
DropIsFollowedUp ==
    (desired # None /\ auto /\ ~Hold(status))
      ~> (Hold(status) \/ suspended \/ desired = None \/ ~auto \/ shutdown \/ forgot)
=============================================================================
