-------------------------- MODULE SupervisorProofs --------------------------
(***************************************************************************)
(* Proofs about Supervisor, for every number of API requests, tunnels,     *)
(* profiles and attempts: the give-up is final and the suspension is       *)
(* respected, the manager inside the control plane still behaves as        *)
(* TunnelManager says, so that what TunnelManagerProofs shows of it holds  *)
(* here too, which steps can leave a wanted tunnel to nobody, and what the *)
(* status does when operators and the supervisor dial.                     *)
(***************************************************************************)
EXTENDS Supervisor, TunnelManagerProofs

(* Why the give-up is final.  Outside a burst nothing has been counted, or *)
(* reconnecting is suspended (or the process is shutting down, and the     *)
(* burst it cut short is not resumed); inside one, `failures' counts every *)
(* failure of the streak.                                                  *)
StreakTypes ==
    /\ streak \in 0..MaxAttempts
    /\ failures \in 0..(MaxAttempts - 1)
    /\ spc \in SupPcs

StreakRules ==
    /\ streak = MaxAttempts => suspended
    /\ spc \notin BurstPcs => /\ failures = 0
                              /\ streak = 0 \/ suspended \/ shutdown
    /\ spc \in BurstPcs => ~suspended /\ ~booting
    /\ booting => ~suspended
    /\ spc = "calling" => streak <= failures
    /\ spc = "attempt" => streak <= failures \/ shutdown

StreakInv == StreakTypes /\ StreakRules

(* Steps of the API handlers count nothing, and connect's re-arming resets. *)
LEMMA ApiKeepsStreak ==
    ASSUME StreakInv, NEW c \in Api, ApiStep(c)
    PROVE  StreakInv'
<1>0. MaxAttempts \in Nat /\ MaxAttempts >= 1
  BY AttemptsAssumption
<1> USE <1>0 DEF StreakInv, StreakTypes, StreakRules, SupPcs, BurstPcs, intent, superv, svars
<1>1. CASE Arm(c)
  <2>1. StreakTypes'
    BY <1>1 DEF Arm
  <2>2. StreakRules'
    BY <1>1 DEF Arm
  <2> QED
    BY <2>1, <2>2
<1>2. CASE ConnectRequest(c) \/ SaveDesired(c) \/ SaveAuto(c)
  BY <1>2 DEF ConnectRequest, SaveDesired, SaveAuto
<1>3. CASE DisconnectRequest(c) \/ DeleteDesired(c) \/ DeleteAuto(c)
  BY <1>3 DEF DisconnectRequest, DeleteDesired, DeleteAuto
<1>4. CASE CallConnect(c) \/ CallDisconnect(c) \/ RequestLost(c)
  BY <1>4 DEF CallConnect, CallDisconnect, RequestLost
<1>5. CASE ReconnectRequest(c) \/ ChallengeRequest(c)
  BY <1>5 DEF ReconnectRequest, ChallengeRequest
<1> QED
  BY <1>1, <1>2, <1>3, <1>4, <1>5 DEF ApiStep

(* The supervisor's own steps: only Decide counts, and it suspends when    *)
(* the counter reaches the cap.                                            *)
LEMMA SupKeepsStreak ==
    ASSUME StreakInv, SupStep
    PROVE  StreakInv'
<1>0. MaxAttempts \in Nat /\ MaxAttempts >= 1
  BY AttemptsAssumption
<1> USE <1>0 DEF StreakInv, StreakTypes, StreakRules, SupPcs, BurstPcs, intent, superv, svars
<1>1. CASE ReadAuto
  BY <1>1 DEF ReadAuto
<1>2. CASE ReadDesired
  <2>1. StreakTypes'
    BY <1>2 DEF ReadDesired
  <2>2. StreakRules'
    BY <1>2 DEF ReadDesired
  <2> QED
    BY <2>1, <2>2
<1>3. CASE Observe
  <2>1. StreakTypes'
    BY <1>3 DEF Observe
  <2>2. StreakRules'
    BY <1>3 DEF Observe
  <2> QED
    BY <2>1, <2>2
<1>4. CASE Attempt
  BY <1>4 DEF Attempt
<1>5. CASE Decide
  <2>1. StreakTypes'
    BY <1>5 DEF Decide, BurstEnds
  <2>2. StreakRules'
    BY <1>5 DEF Decide, BurstEnds
  <2> QED
    BY <2>1, <2>2
<1>6. CASE SupStops
  BY <1>6 DEF SupStops, BurstEnds
<1>7. CASE ReadFails
  <2>1. StreakTypes'
    BY <1>7 DEF ReadFails
  <2>2. StreakRules'
    BY <1>7 DEF ReadFails
  <2> QED
    BY <2>1, <2>2
<1> QED
  BY <1>1, <1>2, <1>3, <1>4, <1>5, <1>6, <1>7 DEF SupStep

(* The streak's invariant holds always.                                    *)
LEMMA StreakAlways == SupSpec => []StreakInv
<1>1. SupInit => StreakInv
  <2> SUFFICES ASSUME SupInit PROVE StreakTypes /\ StreakRules
    BY DEF StreakInv
  <2>1. StreakTypes
    BY AttemptsAssumption DEF SupInit, StreakTypes, SupPcs
  <2>2. StreakRules
    BY AttemptsAssumption DEF SupInit, StreakRules, BurstPcs
  <2> QED
    BY <2>1, <2>2
<1>2. StreakInv /\ [SupNext]_allvars => StreakInv'
  <2> SUFFICES ASSUME StreakInv, [SupNext]_allvars PROVE StreakInv'
    OBVIOUS
  <2>1. CASE \E c \in Api : ApiStep(c)
    BY <2>1, ApiKeepsStreak
  <2>2. CASE SupStep
    BY <2>2, SupKeepsStreak
  <2>3. CASE Signal
    BY <2>3 DEF Signal, StreakInv, StreakTypes, StreakRules, intent, superv
  <2>4. CASE ManagerStep \/ Overrun \/ UNCHANGED allvars
    BY <2>4 DEF ManagerStep, Beside, Overrun, StreakInv, StreakTypes, StreakRules, allvars, svars,
       intent, superv
  <2> QED
    BY <2>1, <2>2, <2>3, <2>4 DEF SupNext
<1> QED
  BY <1>1, <1>2, PTL DEF SupSpec

(* For any number of attempts allowed, the supervisor fails at most        *)
(* MaxAttempts times in a row, and is suspended from the last one on.      *)
THEOREM GiveUpCorrect == SupSpec => []GiveUpIsFinal
<1>1. StreakInv => GiveUpIsFinal
  BY AttemptsAssumption DEF StreakInv, StreakTypes, StreakRules, GiveUpIsFinal
<1> QED
  BY <1>1, StreakAlways, PTL

(* While reconnecting is suspended the supervisor dials nothing, whoever   *)
(* suspends it and whenever: the latch is read after the intent.           *)
THEOREM SuspensionIsRespected == SupSpec => []SuspendedIsQuiet
<1>1. StreakInv => SuspendedIsQuiet
  BY DEF StreakInv, StreakRules, SuspendedIsQuiet
<1> QED
  BY <1>1, StreakAlways, PTL

(* Whatever the handlers and the supervisor do, the manager takes one of   *)
(* its own steps or none, except that events are consumed or pushed out.   *)
EventGone == Observe \/ Overrun

LEMMA ManagerStepOrEvent ==
    ASSUME [SupNext]_allvars
    PROVE  [Next]_vars \/ EventGone
<1>1. CASE \E c \in Api : ApiStep(c)
  <2>1. PICK c \in Api : ApiStep(c)
    BY <1>1
  <2>2. Begin(c) \/ UNCHANGED vars
    BY <2>1 DEF ApiStep, Begin, ConnectRequest, SaveDesired, SaveAuto, Arm, CallConnect,
        DisconnectRequest, DeleteDesired, DeleteAuto, CallDisconnect,
        ReconnectRequest, ChallengeRequest, RequestLost
  <2> QED
    BY <2>2 DEF Next, Api
<1>2. CASE SupStep
  <2>1. CASE Attempt
    BY <2>1, SupAssumption DEF Attempt, Next, Begin
  <2>2. CASE ReadAuto \/ ReadFails \/ ReadDesired \/ Decide \/ SupStops
    BY <2>2 DEF ReadAuto, ReadFails, ReadDesired, Decide, SupStops
  <2> QED
    BY <1>2, <2>1, <2>2 DEF SupStep, EventGone
<1>3. CASE Signal
  BY <1>3 DEF Signal
<1>4. CASE ManagerStep
  BY <1>4 DEF ManagerStep, Next
<1>5. CASE UNCHANGED allvars
  BY <1>5 DEF allvars
<1> QED
  BY <1>1, <1>2, <1>3, <1>4, <1>5 DEF SupNext, EventGone

(* An event gone is no step of the manager's calls or handlers.            *)
LEMMA EventOnly ==
    ASSUME TypeOK, EventGone
    PROVE  /\ UNCHANGED <<status, flag, connector, session, lock, tasks, callers, tunnels>>
           /\ unread' \in 0..EventCap
BY BoundsAssumption DEF EventGone, Observe, Overrun, TypeOK

(* The manager's invariants, inside the control plane.                     *)
ManagerInv == TypeOK /\ StarterOK /\ MutexHeld /\ DialersConnect

LEMMA ManagerAlways == SupSpec => []ManagerInv
<1>1. SupInit => ManagerInv
  BY InitHolds DEF SupInit, ManagerInv, Init, DialersConnect, DialPcs
<1>2. ManagerInv /\ [SupNext]_allvars => ManagerInv'
  <2> SUFFICES ASSUME ManagerInv, [SupNext]_allvars PROVE ManagerInv'
    OBVIOUS
  <2>1. CASE [Next]_vars
    BY <2>1, TypeStep, StarterStep, MutexStep, DialersStep DEF ManagerInv
  <2>2. CASE EventGone
    BY <2>2, EventOnly DEF callers, tunnels, ManagerInv, TypeOK, StarterOK, MutexHeld,
       DialersConnect
  <2> QED
    BY <2>1, <2>2, ManagerStepOrEvent
<1> QED
  BY <1>1, <1>2, PTL DEF SupSpec

(* Inside the control plane, with requests lost at any await and the       *)
(* supervisor dialling on its own account, the manager still releases its  *)
(* connector mutex on every path, and still only a dropped call loses a    *)
(* tunnel or, with start_tunnel's last write, the way out of `connecting'. *)
THEOREM ManagerStaysCorrect == SupSpec => []MutexHeld /\ OnlyADropOrphans /\ OnlyTheseStick
<1>1. ManagerInv => MutexHeld
  BY DEF ManagerInv
<1>2. ManagerInv /\ [SupNext]_allvars
        => [\A t \in Tunnels : ~Orphan(t) /\ Orphan(t)' =>
              \E c \in Calls : tun[c] = t /\ pc[c] = "readMtu" /\ HangUp(c)]_vars
  <2> SUFFICES ASSUME ManagerInv, [SupNext]_allvars, NEW t \in Tunnels, ~Orphan(t), Orphan(t)'
               PROVE  Dropped(t)
    BY DEF Dropped
  <2>1. CASE [Next]_vars
    BY <2>1, OrphanStep DEF ManagerInv
  <2>2. CASE EventGone
    BY <2>2, EventOnly DEF ManagerInv, Orphan, Live, callers, tunnels
  <2> QED
    BY <2>1, <2>2, ManagerStepOrEvent
<1>3. ManagerInv /\ [SupNext]_allvars
        => [~Stuck /\ Stuck' => \E c \in Calls : HangUp(c) \/ SetConnecting(c)]_vars
  <2> SUFFICES ASSUME ManagerInv, [SupNext]_allvars, ~Stuck, Stuck'
               PROVE  \E c \in Calls : HangUp(c) \/ SetConnecting(c)
    OBVIOUS
  <2>1. CASE Next
    BY <2>1, CallSticks, HandlerSticks DEF Next, ManagerInv
  <2>2. CASE UNCHANGED vars \/ EventGone
    <3>1. UNCHANGED <<status, flag, callers, tunnels>>
      BY <2>2, EventOnly DEF ManagerInv, vars, shared
    <3> QED
      BY <3>1 DEF Stuck, Moves, Writer, callers, tunnels
  <2> QED
    BY <2>1, <2>2, ManagerStepOrEvent
<1> QED
  BY <1>1, <1>2, <1>3, ManagerAlways, PTL DEF SupSpec, OnlyADropOrphans, OnlyTheseStick

-----------------------------------------------------------------------------
(* What the handlers and the supervisor keep beside it.                    *)
ControlTypes ==
    /\ desired \in Profiles \cup {None}
    /\ auto \in BOOLEAN /\ suspended \in BOOLEAN /\ shutdown \in BOOLEAN
    /\ req \in [Api -> ReqPcs]
    /\ want \in [Api -> Profiles \cup {None}]
    /\ booting \in BOOLEAN
    /\ target \in Profiles \cup {None}
    /\ forgot \in BOOLEAN

LEMMA ControlStep ==
    ASSUME ControlTypes, [SupNext]_allvars
    PROVE  ControlTypes'
<1> USE DEF ControlTypes, intent, request, superv, svars
<1>1. ASSUME NEW c \in Api, ApiStep(c) PROVE ControlTypes'
  <2> USE DEF Await, Respond, ReqPcs
  <2>1. CASE ConnectRequest(c) \/ DisconnectRequest(c) \/ ReconnectRequest(c) \/ ChallengeRequest(c)
    BY <2>1 DEF ConnectRequest, DisconnectRequest, ReconnectRequest, ChallengeRequest
  <2>2. CASE SaveDesired(c) \/ SaveAuto(c) \/ Arm(c) \/ CallConnect(c)
    BY <2>2 DEF SaveDesired, SaveAuto, Arm, CallConnect
  <2>3. CASE DeleteDesired(c) \/ DeleteAuto(c) \/ CallDisconnect(c) \/ RequestLost(c)
    BY <2>3 DEF DeleteDesired, DeleteAuto, CallDisconnect, RequestLost
  <2> QED
    BY <1>1, <2>1, <2>2, <2>3 DEF ApiStep
<1>2. CASE SupStep
  BY <1>2 DEF SupStep, ReadAuto, ReadDesired, ReadFails, Observe, Attempt, Decide, SupStops,
              BurstEnds
<1>3. CASE Signal \/ Overrun \/ ManagerStep \/ UNCHANGED allvars
  BY <1>3 DEF Signal, Overrun, ManagerStep, Beside, allvars
<1> QED
  BY <1>1, <1>2, <1>3 DEF SupNext

(* The whole control plane keeps its types: the intent is a profile or     *)
(* none, a request is at a statement of its handler, and the counters stay *)
(* within the cap.                                                         *)
THEOREM ControlPlaneTypes == SupSpec => []SupTypeOK
<1>1. SupInit => ControlTypes
  BY DEF SupInit, ControlTypes, ReqPcs
<1>2. ControlTypes /\ [SupNext]_allvars => ControlTypes'
  BY ControlStep
<1>3. SupSpec => []ControlTypes
  BY <1>1, <1>2, PTL DEF SupSpec
<1>4. ManagerInv /\ StreakInv /\ ControlTypes => SupTypeOK
  BY AttemptsAssumption DEF ManagerInv, StreakInv, StreakTypes, ControlTypes, SupTypeOK
<1> QED
  BY <1>3, <1>4, ManagerAlways, StreakAlways, PTL

-----------------------------------------------------------------------------
(* A tunnel that is wanted and at rest.                                    *)

(* The supervisor has something to hear: an event, or a handler that has   *)
(* written a final status and is about to broadcast it.                    *)
Writing(t) == hnd[t] \in {"dropConnector", "dropSession"}
Told == unread > 0 \/ \E t \in Tunnels : Writing(t)

(* No step of the manager puts the tunnel at rest, or leaves it there,     *)
(* without the supervisor being told, unless an abort cuts it short.       *)
LEMMA ManagerTells ==
    ASSUME TypeOK, StarterOK, [Next]_vars, ~CutShort, Hold(status) \/ Told, ~Hold(status)'
    PROVE  Told'
<1> USE DEF shared, callers, tunnels
<1>0. unread \in Nat /\ EventCap \in Nat /\ EventCap > 0
  BY BoundsAssumption DEF TypeOK
<1>a. ASSUME UNCHANGED <<unread, hnd>>, status' = status \/ Hold(status)' PROVE Told'
  BY <1>a DEF Told, Writing, Hold
<1>b. ASSUME Notify PROVE Told'
  BY <1>0, <1>b DEF Notify, Told
(* A handler moves on, and is not one that was about to broadcast.         *)
<1>c. ASSUME NEW t \in Tunnels, NEW l, hnd' = [hnd EXCEPT ![t] = l], UNCHANGED <<unread, status>>,
             ~Writing(t) \/ l = "dropSession"
      PROVE  Told'
  <2>1. hnd'[t] = l /\ \A u \in Tunnels \ {t} : hnd'[u] = hnd[u]
    BY <1>c DEF TypeOK
  <2>2. CASE unread > 0
    BY <1>c, <2>2 DEF Told
  <2>3. ASSUME NEW u \in Tunnels, Writing(u) PROVE Told'
    BY <1>c, <2>1, <2>3 DEF Told, Writing
  <2> QED
    BY <1>c, <2>2, <2>3 DEF Told, Hold
<1>1. ASSUME NEW c \in Calls, Begin(c) PROVE Told'
  BY <1>1, <1>a DEF Begin, BeginConnect, Admit, BeginDisconnect, BeginReconnect, BeginChallenge,
     Hold
<1>2. ASSUME NEW c \in Calls, ConnectStep(c) PROVE Told'
  <2>1. CASE Redial(c)
    BY <1>a, <2>1 DEF Redial, Admit, Hold
  <2>2. CASE ClearFlag(c) \/ Dial(c) \/ StoreConnector(c)
    BY <1>a, <2>2 DEF ClearFlag, Dial, StoreConnector
  <2>3. CASE ReportMfa(c) \/ ReportError(c)
    BY <1>b, <2>3 DEF ReportMfa, ReportError, SetStatus
  <2> QED
    BY <1>2, <2>1, <2>2, <2>3 DEF ConnectStep
<1>3. ASSUME NEW c \in Calls, StartStep(c) PROVE Told'
  <2>1. CASE LockCreate(c) \/ Track(c)
    BY <1>a, <2>1 DEF LockCreate, Track
  <2>2. CASE CreateTunnel(c)
    <3>1. CASE UNCHANGED tunnels
      BY <1>a, <2>2, <3>1 DEF CreateTunnel
    <3>2. ASSUME NEW t \in Unused, hnd' = [hnd EXCEPT ![t] = "none"] PROVE Told'
      BY <1>c, <2>2, <3>2 DEF CreateTunnel, Unused, Writing
    <3> QED
      BY <2>2, <3>1, <3>2 DEF CreateTunnel
  <2>3. CASE SetConnecting(c)
    BY <1>b, <2>3 DEF SetConnecting, SetStatus
  <2>4. CASE ReadMtu(c)
    <3>1. tun[c] \in Tunnels /\ ~Writing(tun[c])
      BY <2>4 DEF ReadMtu, StarterOK, Writing
    <3> QED
      BY <1>c, <2>4, <3>1 DEF ReadMtu
  <2> QED
    BY <1>3, <2>1, <2>2, <2>3, <2>4 DEF StartStep
<1>4. ASSUME NEW c \in Calls, DisconnectStep(c) PROVE Told'
  <2>1. CASE SetFlag(c) \/ LockTerminate(c) \/ Terminated(c) \/ DropConnector(c)
    BY <1>a, <2>1 DEF SetFlag, LockTerminate, Terminated, DropConnector
  <2>2. CASE DropSession(c) \/ Drain(c)
    BY <1>a, <2>2 DEF DropSession, Drain
  <2>3. CASE SetDisconnected(c)
    BY <1>b, <2>3 DEF SetDisconnected, SetStatus
  <2> QED
    BY <1>4, <2>1, <2>2, <2>3 DEF DisconnectStep
<1>5. ASSUME NEW c \in Calls, ChallengeStep(c) \/ HangUp(c) PROVE Told'
  BY <1>5, <1>a DEF ChallengeStep, LockChallenge, Answered, StoreAnswer, HangUp
<1>6. ASSUME NEW t \in Tunnels, TunnelStep(t) PROVE Told'
  BY <1>6, <1>a DEF TunnelStep, Report, Exit
<1>7. ASSUME NEW t \in Tunnels, HandlerStep(t) PROVE Told'
  <2> USE DEF HandlerEnds, Resume
  <2>1. CASE Recv(t) \/ RecvClosed(t) \/ LockForward(t)
    BY <1>c, <2>1 DEF Recv, RecvClosed, LockForward, Writing
  <2>2. CASE Forwarded(t) \/ Fallback(t)
    BY <1>c, <2>2 DEF Forwarded, Fallback, Writing
  <2>3. CASE WriteFail(t) \/ HandlerDropsSession(t)
    BY <1>b, <2>3 DEF WriteFail, HandlerDropsSession, SetStatus
  <2>4. CASE Apply(t)
    <3>1. CASE ev[t] = "connected"
      BY <1>b, <2>4, <3>1 DEF Apply, SetStatus
    <3>2. CASE ev[t] = "disconnected"
      BY <2>4, <3>2 DEF Apply, Told, Writing, TypeOK
    <3>3. CASE ev[t] = "other"
      BY <1>c, <2>4, <3>3 DEF Apply, Writing
    <3> QED
      BY <2>4, <3>1, <3>2, <3>3 DEF Apply
  <2>5. CASE WriteExit(t)
    BY <2>5 DEF WriteExit, Told, Writing, TypeOK
  <2>6. CASE HandlerDropsConnector(t)
    BY <1>c, <2>6 DEF HandlerDropsConnector
  <2>7. CASE HandlerAborted(t)
    BY <1>c, <2>7 DEF HandlerAborted, CutShort, Writing
  <2> QED
    BY <1>7, <2>1, <2>2, <2>3, <2>4, <2>5, <2>6, <2>7 DEF HandlerStep
<1>8. CASE UNCHANGED vars
  BY <1>8, <1>a DEF vars
<1> QED
  BY <1>1, <1>2, <1>3, <1>4, <1>5, <1>6, <1>7, <1>8 DEF Next, CallStep

(* A tunnel that is wanted and at rest is on somebody's mind: the          *)
(* supervisor's, which is not idle or has something to hear, or that of an *)
(* API request that is still going to call connect().                      *)
Wanted == desired # None /\ auto /\ ~suspended /\ ~shutdown
Connecting(c) == req[c] \in {"setDesired", "setAuto", "arm", "call"}
NotForgotten ==
    Wanted /\ ~Hold(status) => spc # "wait" \/ Told \/ \E c \in Api : Connecting(c)

(* What may make everybody forget: a read of the intent that fails, a      *)
(* connect whose request ends before it has saved all of the intent, a     *)
(* handler aborted between its last write and its broadcast, and log lines *)
(* that push the broadcast out of the channel before it is received.       *)
Forgets ==
    \/ ReadFails
    \/ \E c \in Api : Connecting(c) /\ RequestLost(c)
    \/ CutShort
    \/ Overrun

LEMMA NobodyForgets ==
    ASSUME TypeOK, StarterOK, req \in [Api -> ReqPcs], NotForgotten, [SupNext]_allvars, ~Forgets
    PROVE  NotForgotten'
<1> USE DEF intent, request, superv, svars
<1>0. ~CutShort /\ ~ReadFails /\ ~Overrun
  BY DEF Forgets
(* Where nothing but the manager moves.                                    *)
<1>a. ASSUME [Next]_vars, UNCHANGED <<intent, shutdown, request, spc>> PROVE NotForgotten'
  <2>1. Hold(status) \/ Told => Hold(status)' \/ Told'
    BY <1>0, <1>a, ManagerTells
  <2> QED
    BY <1>a, <2>1 DEF NotForgotten, Wanted, Connecting
(* Where the manager does not.                                             *)
<1>b. ASSUME UNCHANGED vars, NEW c \in Api, NEW l, req' = [req EXCEPT ![c] = l],
             \/ Wanted' => Wanted /\ ~Connecting(c) /\ spc' = spc
             \/ l \in {"setDesired", "setAuto", "arm", "call"}
      PROVE  NotForgotten'
  <2>1. req'[c] = l /\ \A d \in Api \ {c} : req'[d] = req[d]
    BY <1>b
  <2>2. Told' = Told /\ Hold(status)' = Hold(status)
    BY <1>b DEF vars, shared, tunnels, Told, Writing, Hold
  <2> QED
    BY <1>b, <2>1, <2>2 DEF NotForgotten, Connecting
<1>1. ASSUME NEW c \in Api, ApiStep(c) PROVE NotForgotten'
  <2>1. CASE ConnectRequest(c) \/ SaveDesired(c) \/ SaveAuto(c) \/ Arm(c)
    BY <1>b, <2>1 DEF ConnectRequest, SaveDesired, SaveAuto, Arm, Await
  <2>2. CASE CallConnect(c)
    <3>1. Hold(status)'
      BY <2>2 DEF CallConnect, BeginConnect, Admit, vars, shared, Busy, Hold
    <3> QED
      BY <3>1 DEF NotForgotten
  <2>3. CASE DisconnectRequest(c) \/ DeleteDesired(c) \/ DeleteAuto(c)
    BY <1>b, <2>3 DEF DisconnectRequest, DeleteDesired, DeleteAuto, Await, Quiet, Connecting,
       Wanted
  <2>4. CASE CallDisconnect(c)
    <3>1. [Next]_vars /\ UNCHANGED <<intent, shutdown, superv>>
      BY <2>4 DEF CallDisconnect, Next, Begin, Api
    <3>2. Hold(status) \/ Told => Hold(status)' \/ Told'
      BY <1>0, <3>1, ManagerTells
    <3>3. ~Connecting(c) /\ \A d \in Api \ {c} : req'[d] = req[d]
      BY <2>4 DEF CallDisconnect, Connecting, Respond, Await
    <3> QED
      BY <3>1, <3>2, <3>3 DEF NotForgotten, Wanted, Connecting
  <2>5. CASE ReconnectRequest(c) \/ ChallengeRequest(c)
    BY <1>a, <2>5 DEF ReconnectRequest, ChallengeRequest, Next, Begin, Api
  <2>6. CASE RequestLost(c)
    <3>1. ~Connecting(c)
      BY <2>6 DEF Forgets
    <3> QED
      BY <1>b, <2>6, <3>1 DEF RequestLost, Respond, Await, Wanted
  <2> QED
    BY <1>1, <2>1, <2>2, <2>3, <2>4, <2>5, <2>6 DEF ApiStep
<1>2. CASE SupStep
  <2> USE DEF NotForgotten, Wanted
  <2>1. CASE ReadAuto
    BY <2>1 DEF ReadAuto
  <2>2. CASE ReadDesired
    BY <2>2 DEF ReadDesired
  <2>3. CASE Observe
    BY <2>3 DEF Observe, Hold
  <2>4. CASE Attempt
    BY <2>4 DEF Attempt
  <2>5. CASE Decide
    BY <2>5 DEF Decide, BurstEnds, vars, shared, Hold
  <2>6. CASE SupStops
    BY <2>6 DEF SupStops, BurstEnds
  <2> QED
    BY <1>0, <1>2, <2>1, <2>2, <2>3, <2>4, <2>5, <2>6 DEF SupStep
<1>3. CASE Signal
  BY <1>3 DEF Signal, NotForgotten, Wanted
<1>4. CASE ManagerStep
  BY <1>4, <1>a DEF ManagerStep, Beside, Next
<1>5. CASE UNCHANGED allvars
  BY <1>5, <1>a DEF allvars
<1> QED
  BY <1>0, <1>1, <1>2, <1>3, <1>4, <1>5 DEF SupNext

(* For any number of requests, tunnels and attempts, and whatever          *)
(* overlaps: a tunnel that is wanted and at rest stays on somebody's mind  *)
(* unless one of the four steps named above is taken (supervisor.rs        *)
(* 200-275, tunnel.rs set_status). DropIsFollowedUp rests on it: what is   *)
(* left of that property is that the supervisor and the requests go on.    *)
THEOREM OnlyTheseForget == SupSpec => [][NotForgotten /\ ~NotForgotten' => Forgets]_allvars
<1>1. SupTypeOK /\ ManagerInv /\ [SupNext]_allvars
        => [NotForgotten /\ ~NotForgotten' => Forgets]_allvars
  BY NobodyForgets DEF SupTypeOK, ManagerInv
<1> QED
  BY <1>1, ControlPlaneTypes, ManagerAlways, PTL DEF SupSpec

(* The history variable sees each of the four.                             *)
LEMMA ForgettingIsRecorded ==
    ASSUME SupTypeOK, [SupNext]_allvars, Forgets
    PROVE  forgot'
<1>1. CASE ReadFails \/ Overrun
  BY <1>1 DEF ReadFails, Overrun
<1>2. CASE \E c \in Api : Connecting(c) /\ RequestLost(c)
  BY <1>2 DEF Connecting, RequestLost
<1>3. CASE CutShort
  <2>1. ~UNCHANGED hnd
    BY <1>3 DEF CutShort, HandlerAborted, HandlerEnds, SupTypeOK, TypeOK
  <2>2. ASSUME NEW c \in Api, ApiStep(c) PROVE UNCHANGED hnd
    BY <2>2 DEF ApiStep, ConnectRequest, SaveDesired, SaveAuto, Arm, CallConnect, BeginConnect,
       Admit, DisconnectRequest, DeleteDesired, DeleteAuto, CallDisconnect, BeginDisconnect,
       ReconnectRequest, BeginReconnect, ChallengeRequest, BeginChallenge, RequestLost, vars,
       tunnels
  <2>3. SupStep => UNCHANGED hnd
    BY DEF SupStep, ReadAuto, ReadDesired, ReadFails, Observe, Attempt, BeginConnect, Admit, Decide,
       SupStops, vars, tunnels
  <2>4. ManagerStep
    BY <2>1, <2>2, <2>3 DEF SupNext, Overrun, Signal, allvars, vars, tunnels
  <2> QED
    BY <1>3, <2>4 DEF ManagerStep, Beside
<1> QED
  BY <1>1, <1>2, <1>3 DEF Forgets

(* Nothing but a look at the status clears it.                             *)
LEMMA ForgettingStays ==
    ASSUME [SupNext]_allvars, forgot, ~Observe
    PROVE  forgot'
<1> USE DEF superv, svars
<1>1. ASSUME NEW c \in Api, ApiStep(c) PROVE forgot'
  BY <1>1 DEF ApiStep, ConnectRequest, SaveDesired, SaveAuto, Arm, CallConnect, DisconnectRequest,
     DeleteDesired, DeleteAuto, CallDisconnect, ReconnectRequest, ChallengeRequest, RequestLost
<1>2. CASE SupStep
  BY <1>2 DEF SupStep, ReadAuto, ReadDesired, ReadFails, Attempt, Decide, SupStops
<1>3. CASE Overrun \/ Signal \/ ManagerStep \/ UNCHANGED allvars
  BY <1>3 DEF Overrun, Signal, ManagerStep, Beside, allvars
<1> QED
  BY <1>1, <1>2, <1>3 DEF SupNext

(* Whatever operators do, and whatever fails, is dropped, aborted or       *)
(* pushed out of the channel: as long as none of the four steps has been   *)
(* taken since the supervisor last looked at the status, a tunnel that is  *)
(* wanted and at rest is on somebody's mind.                               *)
THEOREM NobodyIsForgotten == SupSpec => [](forgot \/ NotForgotten)
<1>1. SupInit => NotForgotten
  BY DEF SupInit, NotForgotten
<1>2. SupTypeOK /\ ManagerInv /\ (forgot \/ NotForgotten) /\ [SupNext]_allvars
        => (forgot \/ NotForgotten)'
  <2> SUFFICES ASSUME SupTypeOK, ManagerInv, forgot \/ NotForgotten, [SupNext]_allvars, ~forgot'
               PROVE  NotForgotten'
    OBVIOUS
  <2>1. CASE Observe
    BY <2>1 DEF Observe, NotForgotten, Hold
  <2>2. CASE ~Observe
    <3>1. NotForgotten /\ ~Forgets
      BY <2>2, ForgettingStays, ForgettingIsRecorded
    <3> QED
      BY <3>1, NobodyForgets DEF SupTypeOK, ManagerInv
  <2> QED
    BY <2>1, <2>2
<1> QED
  BY <1>1, <1>2, ControlPlaneTypes, ManagerAlways, PTL DEF SupSpec

-----------------------------------------------------------------------------
(* Who dials, when operators and the supervisor do.                        *)

(* What the connect-only invariants of TunnelManagerProofs need.           *)
ConnectInv == OneDialInv /\ WatchedInv

LEMMA ConnectInvStep ==
    ASSUME Ops = {"connect"}, TypeOK, ConnectInv, [SupNext]_allvars
    PROVE  ConnectInv'
<1>1. CASE [Next]_vars
  BY <1>1, OneDialStep, WatchedStep DEF ConnectInv
<1>2. CASE EventGone
  BY <1>2, EventOnly DEF ConnectInv, OneDialInv, OnlyConnects, WatchedInv, Writer, Dialing,
     callers, tunnels
<1> QED
  BY <1>1, <1>2, ManagerStepOrEvent

LEMMA ConnectInvAlways ==
    ASSUME Ops = {"connect"}
    PROVE  SupSpec => [](SupTypeOK /\ ManagerInv /\ ConnectInv)
<1>1. SupInit => ConnectInv
  BY DEF SupInit, Init, ConnectInv, OneDialInv, OnlyConnects, Dialing, Writer, DialPcs,
     ConnectPcs, StartPcs, WatchedInv
<1>2. SupTypeOK /\ ConnectInv /\ [SupNext]_allvars => ConnectInv'
  BY ConnectInvStep DEF SupTypeOK
<1> QED
  BY <1>1, <1>2, ControlPlaneTypes, ManagerAlways, PTL DEF SupSpec

(* Operators that connect and a supervisor that redials, in any number of  *)
(* requests that overlap with its burst and with drops: one of them dials  *)
(* at a time, and a status of `connected' is watched (tunnel.rs connect,   *)
(* supervisor.rs initiate_with_backoff, which do not know of each other).  *)
THEOREM SupervisedDialsExclude ==
    ASSUME Ops = {"connect"}
    PROVE  SupSpec => [](OneDialAtATime /\ ConnectedIsWatched)
<1>1. ConnectInv => OneDialAtATime /\ ConnectedIsWatched
  BY DEF ConnectInv, OneDialInv, OneDialAtATime, WatchedInv, ConnectedIsWatched, Writer, Live
<1> QED
  BY <1>1, ConnectInvAlways, PTL

(* The status moves only as the abstract life cycle allows, whoever dials  *)
(* and whenever the tunnels report.                                        *)
THEOREM SupervisedImplementsLifecycle ==
    ASSUME Ops = {"connect"}
    PROVE  SupSpec => ImplementsLifecycle
<1>1. SupInit => Watched!Init
  BY DEF SupInit, Init, Watched!Init
<1>2. ManagerInv /\ ConnectInv /\ [SupNext]_allvars => [Watched!Next]_status
  <2> SUFFICES ASSUME ManagerInv, ConnectInv, [SupNext]_allvars
               PROVE  [Watched!Next]_status
    OBVIOUS
  <2>1. CASE [Next]_vars
    BY <2>1, LifecycleStep DEF ManagerInv, ConnectInv
  <2>2. CASE EventGone
    BY <2>2, EventOnly DEF ManagerInv
  <2> QED
    BY <2>1, <2>2, ManagerStepOrEvent
<1> QED
  BY <1>1, <1>2, ConnectInvAlways, PTL DEF SupSpec, ImplementsLifecycle, Watched!Spec
=============================================================================
