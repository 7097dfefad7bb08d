-------------------------- MODULE DataPlaneProofs --------------------------
(***************************************************************************)
(* Proofs about DataPlane, for any number of interfaces, API requests and  *)
(* failed calls, any bound of the channel, and any layout: once the        *)
(* reconciler has settled, what it has left of the data plane is what the  *)
(* tunnel's present status calls for, whatever moved while it worked; and  *)
(* what it does to the router beside the API requests neither deletes what *)
(* is not its own nor makes a request's report untrue.                     *)
(***************************************************************************)
EXTENDS DataPlane, ProvisionerProofs

EngagePcs == {"masquerade", "setRoute", "setting", "writeDns"}
ClearPcs  == {"cleanup", "clearRoute", "clearing", "clearDns"}

PlaneTypes ==
    /\ status \in Status
    /\ iface \in Ifaces \cup {None}
    /\ unread \in 0..EventCap
    /\ rpc \in RecPcs
    /\ target \in Ifaces \cup {None}
    /\ rpc \in EngagePcs => target \in Ifaces
    /\ masq \subseteq Ifaces
    /\ dns \in Ifaces \cup {None}
    /\ undone \subseteq Parts

(* The reconciler's run of the Provisioner, while it sets or clears the    *)
(* route: a report without a failed step means that the route is as it     *)
(* should be, or that an API request has changed it since.                 *)
RecRun ==
    /\ rpc \notin {"setting", "clearing"} => pc[Rec] = "idle" /\ failed[Rec] = 0
    /\ rpc = "setting" =>
          /\ oper[Rec] = "setRoute" /\ pos[Rec] = RouteStep
          /\ pc[Rec] \in {"ensure", "create", "report"}
          /\ pc[Rec] # "report" => failed[Rec] = 0
          /\ pc[Rec] = "report" /\ failed[Rec] = 0 => "route" \in undone \/ ~NoRoute
    /\ rpc = "clearing" =>
          /\ oper[Rec] = "clearRoute" /\ pos[Rec] = RoutePath
          /\ pc[Rec] \in {"clear", "report"}
          /\ pc[Rec] # "report" => failed[Rec] = 0
          /\ pc[Rec] = "clear" /\ doomed[Rec] # {} =>
                "route" \in undone \/ DefaultRoutes(objects) \subseteq doomed[Rec]
          /\ pc[Rec] = "report" /\ failed[Rec] = 0 => "route" \in undone \/ NoRoute

RoutesAreRoutes == \A o \in DefaultRoutes(objects) : o.path = "route"

(* With no event unread, the pass under way, or the last one, is the one   *)
(* the present status calls for, and what it has done so far is done; or   *)
(* events were lost, and every part is known to be out of line.            *)
NatDone(up)   == "nat" \in undone \/ (IF up THEN target \in masq ELSE masq = {})
RouteDone(up) == "route" \in undone \/ (IF up THEN ~NoRoute ELSE NoRoute)

PassFits ==
    /\ rpc \in EngagePcs => status = "connected" /\ iface = target
    /\ rpc \in ClearPcs => Rests
    /\ rpc \in {"setRoute", "setting", "writeDns"} => NatDone(TRUE)
    /\ rpc = "writeDns" => RouteDone(TRUE)
    /\ rpc \in {"clearRoute", "clearing", "clearDns"} => NatDone(FALSE)
    /\ rpc = "clearDns" => RouteDone(FALSE)

WaitFits ==
    rpc = "wait" =>
        /\ Rests => /\ NatDone(FALSE) /\ RouteDone(FALSE)
                    /\ "dns" \in undone \/ dns = None
        /\ status = "connected" /\ iface # None =>
                    /\ "nat" \in undone \/ iface \in masq
                    /\ RouteDone(TRUE)
                    /\ "dns" \in undone \/ dns = iface

Fits == unread = 0 => undone = Parts \/ (PassFits /\ WaitFits)

PlaneInv == PlaneTypes /\ RecRun /\ RoutesAreRoutes /\ Fits

-----------------------------------------------------------------------------
(* The Provisioner under this next-state relation.                         *)

LEMMA RouteFacts ==
    /\ RouteStep \in 1..Len(Layout) /\ RouteStep # 0 /\ RouteStep \in Places
    /\ Layout[RouteStep].kind = "default-route" /\ Layout[RouteStep].path = "route"
    /\ RoutePath \in 1..Len(Paths) /\ RoutePath # 0 /\ RoutePath \in Places
    /\ Paths[RoutePath] = "route"
<1>1. RouteStep \in 1..Len(Layout) /\ Layout[RouteStep].kind = "default-route"
  BY LayoutAssumption DEF RouteStep
<1>2. Layout[RouteStep] \in Elements(SetupSteps)
  BY <1>1, LayoutFacts
<1>3. \A s \in Elements(SetupSteps) : s.kind = "default-route" => s.path = "route"
  BY DEF Elements, SetupSteps, Step
<1>4. RoutePath \in 1..Len(Paths) /\ Paths[RoutePath] = "route" /\ RoutePath # 0
  BY DEF Paths, RoutePath
<1> QED
  BY <1>1, <1>2, <1>3, <1>4, LayoutFacts DEF Places

(* A step of one run leaves the others where they are.                     *)
LEMMA OthersStay ==
    ASSUME ProvInv, NEW r \in Runs, NEW q \in Runs \ {r},
           Begin(r) \/ Call(r) \/ Report(r) \/ Abandon(r)
    PROVE  SameRun(q)
<1> USE DEF SameRun, ProvInv, ProvTypeOK, Goto
<1>1. CASE Begin(r)
  BY <1>1 DEF Begin, Setup, Teardown, AddEntry, RemoveEntry, Start
<1>2. CASE Ensure(r)
  BY <1>2 DEF Ensure, StepDone, StepFails
<1>3. CASE Check(r)
  BY <1>3 DEF Check, StepFails
<1>4. CASE Create(r)
  <2>1. UNCHANGED <<oper, doomed, entry>>
    BY <1>4 DEF Create
  <2>2. missing'[q] = missing[q]
    BY <1>4 DEF Create
  <2>3. StepDone(r) \/ UNCHANGED <<pc, pos, failed>> \/ StepFails(r)
    BY <1>4 DEF Create
  <2>4. pc'[q] = pc[q] /\ pos'[q] = pos[q] /\ failed'[q] = failed[q]
    BY <2>3 DEF StepDone, StepFails
  <2> QED
    BY <2>1, <2>2, <2>4
<1>5. CASE List(r)
  BY <1>5 DEF List, PathDone, SweepFails
<1>6. CASE Delete(r)
  <2>1. UNCHANGED <<oper, missing, entry>>
    BY <1>6 DEF Delete
  <2>2. doomed'[q] = doomed[q]
    BY <1>6 DEF Delete
  <2>3. PathDone(r) \/ UNCHANGED <<pc, pos, failed>> \/ SweepFails(r)
    BY <1>6 DEF Delete
  <2>4. pc'[q] = pc[q] /\ pos'[q] = pos[q] /\ failed'[q] = failed[q]
    BY <2>3 DEF PathDone, SweepFails
  <2> QED
    BY <2>1, <2>2, <2>4
<1>7. CASE Report(r) \/ Abandon(r)
  BY <1>7 DEF Report, Abandon, Forget
<1> QED
  BY <1>1, <1>2, <1>3, <1>4, <1>5, <1>6, <1>7 DEF Call

(* What the reconciler begins is an operation of a run.                    *)
LEMMA RouteBegins ==
    ASSUME ProvInv, SetDefaultRoute(Rec) \/ ClearDefaultRoute(Rec),
           faults' \in 0..MaxFaults, UNCHANGED <<objects, missing, failed, made>>
    PROVE  /\ ProvInv'
           /\ SetDefaultRoute(Rec) => pc'[Rec] = "ensure" /\ oper'[Rec] = "setRoute"
                                      /\ pos'[Rec] = RouteStep
           /\ ClearDefaultRoute(Rec) => pc'[Rec] = "clear" /\ oper'[Rec] = "clearRoute"
                                      /\ pos'[Rec] = RoutePath /\ doomed'[Rec] = {}
<1>1. Rec \in Runs
  BY RecAssumption
<1>2. \E o \in {"setRoute", "clearRoute"}, p \in {"ensure", "clear"}, n \in Places :
         /\ Start(Rec, o, p, n)
         /\ \/ o = "setRoute" /\ p = "ensure" /\ n = RouteStep
            \/ o = "clearRoute" /\ p = "clear" /\ n = RoutePath
  BY RouteFacts DEF SetDefaultRoute, ClearDefaultRoute
<1>3. UNCHANGED <<doomed, entry>>
  BY DEF SetDefaultRoute, ClearDefaultRoute
<1>4. ProvTypeOK'
  <2>1. {"setRoute", "clearRoute"} \subseteq Operations /\ {"ensure", "clear"} \subseteq RunPcs
    BY DEF Operations, RunPcs, Sweeps
  <2>2. PICK o \in Operations, p \in RunPcs, n \in Places : Start(Rec, o, p, n)
    BY <1>2, <2>1
  <2>3. /\ pc' \in [Runs -> RunPcs] /\ oper' \in [Runs -> Operations]
        /\ pos' \in [Runs -> Places]
    BY <2>2 DEF ProvInv, ProvTypeOK, Start, Goto
  <2> QED
    BY <1>3, <2>3 DEF ProvInv, ProvTypeOK
<1>5. \A q \in Runs \ {Rec} : SameRun(q)
  BY <1>2, <1>3 DEF SameRun, ProvInv, ProvTypeOK, Start, Goto
<1>6. doomed[Rec] = {} /\ doomed'[Rec] = {}
  BY <1>1, <1>2, <1>3 DEF ProvInv, RunOK, Start, Sweeps
<1>7. \/ pc'[Rec] = "ensure" /\ oper'[Rec] = "setRoute" /\ pos'[Rec] = RouteStep
      \/ pc'[Rec] = "clear" /\ oper'[Rec] = "clearRoute" /\ pos'[Rec] = RoutePath
  BY <1>1, <1>2 DEF ProvInv, ProvTypeOK, Start, Goto
<1>8. RunOK(Rec)' /\ DoomedOK(Rec)'
  BY <1>6, <1>7, RouteFacts DEF RunOK, DoomedOK, Sweeps
<1>9. ProvInv'
  BY <1>1, <1>4, <1>5, <1>8, OneRun
<1>10. /\ SetDefaultRoute(Rec) => pc'[Rec] = "ensure" /\ oper'[Rec] = "setRoute"
                                  /\ pos'[Rec] = RouteStep
       /\ ClearDefaultRoute(Rec) => pc'[Rec] = "clear" /\ oper'[Rec] = "clearRoute"
                                    /\ pos'[Rec] = RoutePath
  BY <1>1 DEF SetDefaultRoute, ClearDefaultRoute, ProvInv, ProvTypeOK, Start, Goto
<1> QED
  BY <1>6, <1>9, <1>10

(* A step that touches nothing of the Provisioner but the count of faults. *)
LEMMA FaultsOnly ==
    ASSUME ProvInv, Answered \/ Fault,
           UNCHANGED <<objects, pc, oper, pos, missing, doomed, entry, failed, made>>
    PROVE  ProvInv'
<1>1. ProvTypeOK'
  BY LimitsAssumption DEF ProvInv, ProvTypeOK, Answered, Fault
<1>2. \A r \in Runs : SameRun(r)
  BY DEF SameRun
<1> QED
  BY <1>1, <1>2, OthersOK DEF ProvInv

LEMMA FaultsBound ==
    ASSUME ProvInv, Answered \/ Fault
    PROVE  faults' \in 0..MaxFaults
BY LimitsAssumption DEF ProvInv, ProvTypeOK, Answered, Fault

LEMMA ProvStep ==
    ASSUME ProvInv, [PlaneNext]_dvars
    PROVE  ProvInv'
<1>1. CASE TunnelMoves \/ Flood \/ UNCHANGED dvars \/ React
  BY <1>1, StutterOK DEF TunnelMoves, Flood, dvars, React
<1>2. CASE ApiStep
  BY <1>2, NextOK DEF ApiStep, Api, ProvNext
<1>3. CASE Restart
  <2>1. ProvTypeOK'
    BY <1>3, LayoutFacts DEF Restart, ProvInv, ProvTypeOK, RunPcs, Places
  <2>2. \A r \in Runs : RunOK(r)' /\ DoomedOK(r)'
    BY <1>3 DEF Restart, RunOK, DoomedOK, Sweeps
  <2> QED
    BY <2>1, <2>2 DEF ProvInv
<1>4. CASE Masquerade \/ WriteDns \/ Cleanup \/ ClearDns
  BY <1>4, FaultsOnly DEF Masquerade, WriteDns, Cleanup, ClearDns
<1>5. CASE EngageRoute \/ DisengageRoute
  <2>1. CASE SetDefaultRoute(Rec) \/ ClearDefaultRoute(Rec)
    BY <1>5, <2>1, RouteBegins, FaultsBound DEF EngageRoute, DisengageRoute
  <2>2. CASE Fault /\ UNCHANGED <<pc, oper, pos, doomed, entry>>
    BY <1>5, <2>2, FaultsOnly DEF EngageRoute, DisengageRoute
  <2> QED
    BY <1>5, <2>1, <2>2 DEF EngageRoute, DisengageRoute
<1>6. CASE RecCalls \/ RouteSettled
  BY <1>6, NextOK, RecAssumption DEF RecCalls, RouteSettled, ProvNext
<1> QED
  BY <1>1, <1>2, <1>3, <1>4, <1>5, <1>6 DEF PlaneNext, Reconciler

-----------------------------------------------------------------------------
(* Default routes.                                                         *)

(* What a run creates as default route is one, on the path of routes.      *)
LEMMA NewRoutes ==
    ASSUME ProvInv, NEW r \in Runs, pc[r] = "create", NEW o \in New(r)
    PROVE  /\ o.kind = "default-route" => o.path = "route"
           /\ oper[r] = "setRoute" /\ pos[r] = RouteStep => o.kind = "default-route"
<1>1. o.kind = Wanted(r).kind /\ o.path = Wanted(r).path
  BY DEF New, Object
<1>2. CASE oper[r] = "add"
  <2>1. entry[r].kind \in OperatorKinds
    BY <1>2, EntriesAssumption DEF ProvInv, RunOK
  <2> QED
    BY <1>1, <1>2, <2>1 DEF Wanted, OperatorKinds
<1>3. CASE oper[r] # "add"
  <2>1. pos[r] \in 1..Len(Layout)
    BY <1>3 DEF ProvInv, RunOK
  <2>2. Layout[pos[r]] \in Elements(SetupSteps)
    BY <2>1, LayoutFacts
  <2>3. Wanted(r).kind = Layout[pos[r]].kind /\ Wanted(r).path = Layout[pos[r]].path
    BY <1>3 DEF Wanted
  <2>4. \A s \in Elements(SetupSteps) : s.kind = "default-route" => s.path = "route"
    BY DEF Elements, SetupSteps, Step
  <2> QED
    BY <1>1, <2>2, <2>3, <2>4, RouteFacts
<1> QED
  BY <1>2, <1>3

(* No call puts a default route anywhere else.                             *)
LEMMA RoutesStay ==
    ASSUME ProvInv, RoutesAreRoutes, NEW r \in Runs,
           Begin(r) \/ Call(r) \/ Report(r) \/ Abandon(r)
    PROVE  RoutesAreRoutes'
<1>1. \/ objects' \subseteq objects
      \/ pc[r] = "create" /\ \E o \in New(r) : objects' = objects \cup {o}
  <2>1. CASE Begin(r) \/ Ensure(r) \/ Check(r) \/ List(r) \/ Report(r)
    BY <2>1 DEF Begin, Ensure, Check, List, Report
  <2>2. CASE Create(r)
    BY <2>2 DEF Create, Place
  <2>3. CASE Delete(r)
    BY <2>3 DEF Delete
  <2>4. CASE Abandon(r)
    BY <2>4 DEF Abandon
  <2> QED
    BY <2>1, <2>2, <2>3, <2>4 DEF Call
<1> QED
  BY <1>1, NewRoutes DEF RoutesAreRoutes, DefaultRoutes

(* The reconciler's calls while it sets the route.                         *)
LEMMA SettingCall ==
    ASSUME ProvInv, Call(Rec), oper[Rec] = "setRoute", pos[Rec] = RouteStep,
           pc[Rec] \in {"ensure", "create", "report"}, pc[Rec] # "report" => failed[Rec] = 0
    PROVE  /\ oper'[Rec] = "setRoute" /\ pos'[Rec] = RouteStep
           /\ pc'[Rec] \in {"ensure", "create", "report"}
           /\ pc'[Rec] # "report" => failed'[Rec] = 0
           /\ pc'[Rec] = "report" /\ failed'[Rec] = 0 => ~NoRoute'
<1>0. Rec \in Runs
  BY RecAssumption
<1>1. Ensure(Rec) \/ Create(Rec)
  BY DEF Call, Check, List, Delete, Sweeps
<1>2. pc[Rec] # "report" /\ failed[Rec] = 0
  BY <1>1 DEF Ensure, Create
<1>3. ASSUME StepFails(Rec)
      PROVE  pc'[Rec] = "report" /\ pos'[Rec] = RouteStep /\ failed'[Rec] # 0
  BY <1>0, <1>3, RouteFacts DEF StepFails, Goto, ProvInv, ProvTypeOK
<1>4. ASSUME StepDone(Rec)
      PROVE  pc'[Rec] = "report" /\ pos'[Rec] = RouteStep /\ failed'[Rec] = 0
  BY <1>0, <1>2, <1>4 DEF StepDone, Goto, ProvInv, ProvTypeOK
<1>5. CASE Ensure(Rec)
  <2>1. UNCHANGED <<objects, oper>>
    BY <1>5 DEF Ensure
  <2>2. ASSUME Missing(Layout[RouteStep]) = {} PROVE ~NoRoute
    <3>1. Len(Layout[RouteStep].items) \in 1..3
      BY RouteFacts, LayoutFacts, StepFacts
    <3>2. Present(Layout[RouteStep], Layout[RouteStep].items[1])
      BY <2>2, <3>1 DEF Missing
    <3> QED
      BY <3>2, RouteFacts DEF Present, NoRoute, DefaultRoutes
  <2>3. CASE Missing(Layout[RouteStep]) = {} /\ StepDone(Rec)
    BY <1>4, <2>1, <2>2, <2>3 DEF NoRoute
  <2>4. CASE Goto(Rec, "create", RouteStep) /\ UNCHANGED failed
    BY <1>0, <1>2, <2>1, <2>4 DEF Goto, ProvInv, ProvTypeOK
  <2>5. CASE StepFails(Rec)
    BY <1>3, <2>1, <2>5
  <2> QED
    BY <1>5, <2>3, <2>4, <2>5 DEF Ensure
<1>6. CASE Create(Rec)
  <2>1. pc[Rec] = "create" /\ UNCHANGED oper
    BY <1>6 DEF Create
  <2>2. ASSUME NEW o \in New(Rec), Place(Rec, o) PROVE ~NoRoute'
    BY <1>0, <2>1, <2>2, NewRoutes DEF Place, NoRoute, DefaultRoutes
  <2>3. CASE (\E o \in New(Rec) : Place(Rec, o)) /\ StepDone(Rec)
    BY <1>4, <2>1, <2>2, <2>3
  <2>4. CASE UNCHANGED <<pc, pos, failed>>
    BY <1>2, <2>1, <2>4
  <2>5. CASE StepFails(Rec)
    BY <1>3, <2>1, <2>5
  <2> QED
    BY <1>6, <2>3, <2>4, <2>5 DEF Create
<1> QED
  BY <1>1, <1>5, <1>6

(* And while it clears it.                                                 *)
LEMMA ClearingCall ==
    ASSUME ProvInv, Call(Rec), RoutesAreRoutes, oper[Rec] = "clearRoute", pos[Rec] = RoutePath,
           pc[Rec] \in {"clear", "report"}, pc[Rec] # "report" => failed[Rec] = 0
    PROVE  /\ oper'[Rec] = "clearRoute" /\ pos'[Rec] = RoutePath
           /\ pc'[Rec] \in {"clear", "report"}
           /\ pc'[Rec] # "report" => failed'[Rec] = 0
           /\ (doomed[Rec] # {} => DefaultRoutes(objects) \subseteq doomed[Rec]) =>
                 /\ pc'[Rec] = "clear" /\ doomed'[Rec] # {} =>
                       DefaultRoutes(objects') \subseteq doomed'[Rec]
                 /\ pc'[Rec] = "report" /\ failed'[Rec] = 0 => NoRoute'
<1>0. Rec \in Runs
  BY RecAssumption
<1>1. pc[Rec] = "clear" /\ failed[Rec] = 0 /\ (List(Rec) \/ Delete(Rec))
  BY DEF Call, Ensure, Check, Create, List, Delete, Sweeps
<1>2. ASSUME PathDone(Rec)
      PROVE  pc'[Rec] = "report" /\ pos'[Rec] = RoutePath /\ failed'[Rec] = 0
  BY <1>0, <1>1, <1>2 DEF PathDone, Goto, ProvInv, ProvTypeOK
<1>3. ASSUME SweepFails(Rec)
      PROVE  pc'[Rec] = "report" /\ pos'[Rec] = RoutePath /\ failed'[Rec] # 0
  BY <1>0, <1>1, <1>3, RouteFacts DEF SweepFails, Goto, ProvInv, ProvTypeOK
<1>4. Targets(Rec) = DefaultRoutes(objects)
  BY <1>1, RouteFacts DEF Targets, DefaultRoutes, RoutesAreRoutes
<1>5. CASE List(Rec)
  <2>1. UNCHANGED <<objects, oper>>
    BY <1>5 DEF List
  <2>2. CASE Targets(Rec) = {} /\ PathDone(Rec)
    BY <1>2, <1>4, <2>1, <2>2 DEF NoRoute
  <2>3. CASE doomed' = [doomed EXCEPT ![Rec] = Targets(Rec)] /\ UNCHANGED <<pc, pos, failed>>
    BY <1>0, <1>1, <1>4, <2>1, <2>3 DEF ProvInv, ProvTypeOK
  <2>4. CASE SweepFails(Rec)
    BY <1>3, <2>1, <2>4
  <2> QED
    BY <1>5, <2>2, <2>3, <2>4 DEF List
<1>6. CASE Delete(Rec)
  <2>1. UNCHANGED oper
    BY <1>6 DEF Delete
  <2>2. PICK o \in doomed[Rec] :
           \/ /\ objects' = objects \ {o} /\ doomed' = [doomed EXCEPT ![Rec] = @ \ {o}]
              /\ IF doomed[Rec] = {o} THEN PathDone(Rec) ELSE UNCHANGED <<pc, pos, failed>>
           \/ SweepFails(Rec)
    BY <1>6 DEF Delete
  <2>3. CASE SweepFails(Rec)
    BY <1>3, <2>1, <2>3
  <2>4. CASE /\ objects' = objects \ {o} /\ doomed' = [doomed EXCEPT ![Rec] = @ \ {o}]
             /\ doomed[Rec] = {o} /\ PathDone(Rec)
    <3>1. DefaultRoutes(objects) \subseteq {o} => NoRoute'
      BY <2>4 DEF NoRoute, DefaultRoutes
    <3> QED
      BY <1>2, <2>1, <2>4, <3>1
  <2>5. CASE /\ objects' = objects \ {o} /\ doomed' = [doomed EXCEPT ![Rec] = @ \ {o}]
             /\ UNCHANGED <<pc, pos, failed>>
    <3>1. doomed'[Rec] = doomed[Rec] \ {o}
      BY <1>0, <2>5 DEF ProvInv, ProvTypeOK
    <3>2. DefaultRoutes(objects') = DefaultRoutes(objects) \ {o}
      BY <2>5 DEF DefaultRoutes
    <3> QED
      BY <1>1, <2>1, <2>2, <2>5, <3>1, <3>2
  <2> QED
    BY <2>2, <2>3, <2>4, <2>5
<1> QED
  BY <1>1, <1>5, <1>6

-----------------------------------------------------------------------------
(* The steps.                                                              *)

LEMMA InitFits == PlaneInit => ProvInv /\ PlaneInv
<1> SUFFICES ASSUME PlaneInit PROVE ProvInv /\ PlaneInv
  OBVIOUS
<1>1. ProvInv
  BY InitOK DEF PlaneInit
<1>2. Rec \in Runs /\ pc[Rec] = "idle" /\ failed[Rec] = 0
  BY RecAssumption DEF PlaneInit, ProvInit
<1>3. NoRoute /\ RoutesAreRoutes
  BY NewRouterAssumption DEF PlaneInit, ProvInit, NoRoute, RoutesAreRoutes, DefaultRoutes
<1>4. PlaneTypes
  BY ChannelAssumption DEF PlaneInit, PlaneTypes, Status, RecPcs, EngagePcs
<1>5. RecRun
  BY <1>2 DEF PlaneInit, RecRun
<1>6. Fits
  BY <1>3 DEF PlaneInit, Fits, PassFits, WaitFits, NatDone, RouteDone, EngagePcs, ClearPcs
<1> QED
  BY <1>1, <1>3, <1>4, <1>5, <1>6 DEF PlaneInv

(* The tunnel moves, events are lost, the process restarts: whatever is in *)
(* line, there is an event to come or the loss is known.                   *)
LEMMA WorldFits ==
    ASSUME ProvInv, PlaneInv, TunnelMoves \/ Flood \/ Restart
    PROVE  PlaneInv'
<1>0. Rec \in Runs
  BY RecAssumption
<1>1. CASE TunnelMoves
  <2>1. /\ unread' \in 1..EventCap /\ status' \in Status /\ iface' \in Ifaces \cup {None}
        /\ UNCHANGED <<rvars, plane>>
    BY <1>1, ChannelAssumption DEF TunnelMoves, PlaneInv, PlaneTypes
  <2> QED
    BY <2>1, ChannelAssumption DEF PlaneInv, PlaneTypes, RecRun, RoutesAreRoutes, Fits, rvars,
       plane, NoRoute
<1>2. CASE Flood
  BY <1>2, ChannelAssumption DEF Flood, PlaneInv, PlaneTypes, RecRun, RoutesAreRoutes, Fits,
     rvars,
     NoRoute, Parts
<1>3. CASE Restart
  BY <1>0, <1>3, ChannelAssumption
    DEF Restart, PlaneInv, PlaneTypes, RecRun, RoutesAreRoutes, Fits,
     Status, RecPcs, EngagePcs, Parts
<1> QED
  BY <1>1, <1>2, <1>3

(* An API request that changes the route is remembered.                    *)
LEMMA ApiFits ==
    ASSUME ProvInv, PlaneInv, ApiStep
    PROVE  PlaneInv'
<1>1. PICK r \in Api : Begin(r) \/ Call(r) \/ Report(r) \/ Abandon(r)
  BY DEF ApiStep
<1>2. Rec \in Runs /\ r \in Runs /\ Rec \in Runs \ {r}
  BY RecAssumption DEF Api
<1>3. SameRun(Rec) /\ RoutesAreRoutes'
  BY <1>1, <1>2, OthersStay, RoutesStay DEF PlaneInv
<1>4. /\ UNCHANGED <<status, iface, unread, rpc, target, masq, dns>>
      /\ undone \subseteq undone' /\ undone' \subseteq undone \cup {"route"}
      /\ "route" \in undone' \/ DefaultRoutes(objects') = DefaultRoutes(objects)
  BY DEF ApiStep, tunnel, RouteChanges
<1>5. PlaneTypes'
  BY <1>4 DEF PlaneInv, PlaneTypes, Parts
<1>6. RecRun'
  BY <1>3, <1>4 DEF PlaneInv, RecRun, SameRun, NoRoute
<1>7. Fits'
  <2>1. undone = Parts => undone' = Parts
    BY <1>4 DEF Parts
  <2>3. PassFits => PassFits'
    BY <1>4 DEF PassFits, Rests, NatDone, RouteDone, NoRoute
  <2>4. WaitFits => WaitFits'
    BY <1>4 DEF WaitFits, Rests, NatDone, RouteDone, NoRoute
  <2> QED
    BY <1>4, <2>1, <2>3, <2>4 DEF PlaneInv, Fits
<1> QED
  BY <1>3, <1>5, <1>6, <1>7 DEF PlaneInv

(* The steps of a pass that are not calls to the router.                   *)
LEMMA PassStep ==
    ASSUME ProvInv, PlaneInv, React \/ Masquerade \/ WriteDns \/ Cleanup \/ ClearDns
    PROVE  PlaneInv'
<1>0. /\ UNCHANGED <<objects, pc, oper, pos, missing, doomed, failed, status, iface>>
      /\ rpc \notin {"setting", "clearing"} /\ rpc' \notin {"setting", "clearing"}
  BY DEF React, Masquerade, WriteDns, Cleanup, ClearDns, rvars, tunnel, Goes
<1>1. RecRun' /\ RoutesAreRoutes'
  BY <1>0 DEF PlaneInv, RecRun, RoutesAreRoutes
<1> USE DEF PlaneInv, PlaneTypes, Fits, PassFits, WaitFits, NatDone, RouteDone, NoRoute, Rests,
            EngagePcs, ClearPcs, RecPcs, Parts, Goes
<1>2. CASE React
  <2>1. PlaneTypes'
    <3>1. unread' \in 0..EventCap
      BY <1>2, ChannelAssumption DEF React
    <3>2. /\ rpc' \in {"wait", "masquerade", "cleanup"} /\ undone' \in {undone, {}}
          /\ target' \in {target, iface, None} /\ (rpc' = "masquerade" => target' \in Ifaces)
          /\ UNCHANGED <<status, iface, masq, dns>>
      BY <1>2 DEF React
    <3> QED
      BY <3>1, <3>2
  <2>2. Fits'
    BY <1>2 DEF React
  <2> QED
    BY <1>1, <2>1, <2>2
<1>3. CASE Masquerade
  <2>1. PlaneTypes'
    BY <1>3 DEF Masquerade, tunnel
  <2>2. Fits'
    BY <1>3 DEF Masquerade, tunnel
  <2> QED
    BY <1>1, <2>1, <2>2
<1>4. CASE WriteDns
  <2>1. PlaneTypes'
    BY <1>4 DEF WriteDns, tunnel
  <2>2. Fits'
    BY <1>4 DEF WriteDns, tunnel
  <2> QED
    BY <1>1, <2>1, <2>2
<1>5. CASE Cleanup
  <2>1. PlaneTypes'
    BY <1>5 DEF Cleanup, tunnel
  <2>2. Fits'
    BY <1>5 DEF Cleanup, tunnel
  <2> QED
    BY <1>1, <2>1, <2>2
<1>6. CASE ClearDns
  <2>1. PlaneTypes'
    BY <1>6 DEF ClearDns, tunnel
  <2>2. Fits'
    BY <1>6 DEF ClearDns, tunnel
  <2> QED
    BY <1>1, <2>1, <2>2
<1> QED
  BY <1>2, <1>3, <1>4, <1>5, <1>6

(* The ones that begin, continue and end a change of the route.            *)
LEMMA RouteStepFits ==
    ASSUME ProvInv, PlaneInv, EngageRoute \/ DisengageRoute \/ RecCalls \/ RouteSettled
    PROVE  PlaneInv'
<1>0. Rec \in Runs /\ UNCHANGED <<status, iface, unread, target, masq, dns>>
  BY RecAssumption DEF EngageRoute, DisengageRoute, RecCalls, RouteSettled, tunnel, plane
<1>1. CASE EngageRoute \/ DisengageRoute
  <2>1. /\ UNCHANGED <<objects, failed>> /\ pc[Rec] = "idle" /\ failed[Rec] = 0
        /\ rpc \in {"setRoute", "clearRoute"}
    BY <1>1 DEF EngageRoute, DisengageRoute, PlaneInv, RecRun
  <2>2. RoutesAreRoutes'
    BY <2>1 DEF PlaneInv, RoutesAreRoutes
  <2>3. \/ SetDefaultRoute(Rec) /\ rpc = "setRoute" /\ rpc' = "setting" /\ undone' = undone
        \/ ClearDefaultRoute(Rec) /\ rpc = "clearRoute" /\ rpc' = "clearing" /\ undone' = undone
        \/ UNCHANGED pc /\ rpc = "setRoute" /\ rpc' = "writeDns" /\ undone' = undone \cup {"route"}
        \/ UNCHANGED pc /\ rpc = "setRoute" /\ rpc' = "wait"
           /\ undone' = undone \cup {"route", "dns"}
        \/ UNCHANGED pc /\ rpc = "clearRoute" /\ rpc' = "clearDns"
           /\ undone' = undone \cup {"route"}
    BY <1>1 DEF EngageRoute, DisengageRoute, Goes
  <2>4. faults' \in 0..MaxFaults /\ UNCHANGED <<missing, made>>
    BY <1>1, FaultsBound DEF EngageRoute, DisengageRoute
  <2>5. PlaneTypes'
    BY <1>0, <2>3 DEF PlaneInv, PlaneTypes, RecPcs, EngagePcs, Parts
  <2>6. RecRun'
    BY <2>1, <2>3, <2>4, RouteBegins DEF RecRun
  <2>7. Fits'
    BY <1>0, <2>1, <2>3 DEF PlaneInv, Fits, PassFits, WaitFits, NatDone, RouteDone, NoRoute,
       Rests,
       EngagePcs, ClearPcs, Parts
  <2> QED
    BY <2>2, <2>5, <2>6, <2>7 DEF PlaneInv
<1>2. CASE RecCalls
  <2>1. Call(Rec) /\ rpc \in {"setting", "clearing"} /\ UNCHANGED <<rpc, undone>>
    BY <1>2 DEF RecCalls, plane
  <2>2. RoutesAreRoutes'
    BY <1>0, <2>1, RoutesStay DEF PlaneInv
  <2>3. PlaneTypes'
    BY <1>0, <2>1 DEF PlaneInv, PlaneTypes
  <2>4. RecRun'
    <3>1. CASE rpc = "setting"
      BY <2>1, <3>1, SettingCall DEF PlaneInv, RecRun
    <3>2. CASE rpc = "clearing"
      <4>1. /\ oper'[Rec] = "clearRoute" /\ pos'[Rec] = RoutePath
            /\ pc'[Rec] \in {"clear", "report"} /\ (pc'[Rec] # "report" => failed'[Rec] = 0)
        BY <2>1, <3>2, ClearingCall DEF PlaneInv, RecRun
      <4>2. CASE "route" \in undone
        BY <2>1, <3>2, <4>1, <4>2 DEF RecRun
      <4>3. CASE "route" \notin undone
        <5>1. pc[Rec] = "clear"
          BY <2>1, <3>2 DEF PlaneInv, RecRun, Call, Ensure, Check, Create, List, Delete, Sweeps
        <5>2. doomed[Rec] # {} => DefaultRoutes(objects) \subseteq doomed[Rec]
          BY <3>2, <4>3, <5>1 DEF PlaneInv, RecRun
        <5>3. /\ pc'[Rec] = "clear" /\ doomed'[Rec] # {} =>
                    DefaultRoutes(objects') \subseteq doomed'[Rec]
              /\ pc'[Rec] = "report" /\ failed'[Rec] = 0 => NoRoute'
          BY <2>1, <3>2, <5>2, ClearingCall DEF PlaneInv, RecRun
        <5> QED
          BY <2>1, <3>2, <4>1, <5>3 DEF RecRun, DefaultRoutes
      <4> QED
        BY <4>2, <4>3
    <3> QED
      BY <2>1, <3>1, <3>2
  <2>5. Fits'
    BY <1>0, <2>1 DEF PlaneInv, Fits, PassFits, WaitFits, NatDone, Rests, EngagePcs, ClearPcs
  <2> QED
    BY <2>2, <2>3, <2>4, <2>5 DEF PlaneInv
<1>3. CASE RouteSettled
  <2>1. /\ pc[Rec] = "report" /\ rpc \in {"setting", "clearing"} /\ UNCHANGED objects
        /\ pc'[Rec] = "idle" /\ failed'[Rec] = 0
    BY <1>0, <1>3 DEF RouteSettled, Report, Forget, Goto, ProvInv, ProvTypeOK
  <2>2. \/ failed[Rec] # 0 /\ rpc' = "wait" /\ undone' = undone \cup {"route", "dns"}
        \/ failed[Rec] = 0 /\ rpc = "setting" /\ rpc' = "writeDns" /\ undone' = undone
        \/ failed[Rec] = 0 /\ rpc = "clearing" /\ rpc' = "clearDns" /\ undone' = undone
    BY <1>3, <2>1 DEF RouteSettled, Goes
  <2>3. RoutesAreRoutes'
    BY <2>1 DEF PlaneInv, RoutesAreRoutes
  <2>4. PlaneTypes'
    BY <1>0, <2>1, <2>2 DEF PlaneInv, PlaneTypes, RecPcs, EngagePcs, Parts
  <2>5. RecRun'
    BY <2>1, <2>2 DEF RecRun
  <2>6. Fits'
    BY <1>0, <2>1, <2>2 DEF PlaneInv, RecRun, Fits, PassFits, WaitFits, NatDone, RouteDone,
       NoRoute,
       Rests, EngagePcs, ClearPcs, Parts
  <2> QED
    BY <2>3, <2>4, <2>5, <2>6 DEF PlaneInv
<1> QED
  BY <1>1, <1>2, <1>3

LEMMA PlaneStep == ProvInv /\ PlaneInv /\ [PlaneNext]_dvars => PlaneInv'
<1> SUFFICES ASSUME ProvInv, PlaneInv, [PlaneNext]_dvars PROVE PlaneInv'
  OBVIOUS
<1>1. CASE UNCHANGED dvars
  BY <1>1 DEF dvars, rvars, tunnel, plane, PlaneInv, PlaneTypes, RecRun, RoutesAreRoutes, Fits,
     PassFits, WaitFits, NatDone, RouteDone, NoRoute, Rests
<1> QED
  BY <1>1, WorldFits, ApiFits, PassStep, RouteStepFits DEF PlaneNext, Reconciler

LEMMA PlaneAlways == PlaneSpec => [](ProvInv /\ PlaneInv)
<1>1. ProvInv /\ PlaneInv /\ [PlaneNext]_dvars => (ProvInv /\ PlaneInv)'
  BY ProvStep, PlaneStep
<1> QED
  BY <1>1, InitFits, PTL DEF PlaneSpec

(* The reconciler keeps its types, and so does the router beside it.       *)
THEOREM PlaneIsTyped == PlaneSpec => []PlaneTypeOK
<1>1. ProvInv /\ PlaneInv => PlaneTypeOK
  BY DEF ProvInv, PlaneInv, PlaneTypes, PlaneTypeOK
<1> QED
  BY <1>1, PlaneAlways, PTL

(* However fast the tunnel moves while the reconciler works, once it has   *)
(* settled and the tunnel is at rest nothing is left engaged, save what a  *)
(* failed call, a lost event or an API request has undone since.           *)
THEOREM ReconcilerFailsClosed == PlaneSpec => []FailClosed
<1>1. PlaneInv => FailClosed
  BY DEF PlaneInv, Fits, WaitFits, NatDone, RouteDone, FailClosed, Settled, Parts
<1> QED
  BY <1>1, PlaneAlways, PTL

(* Once it has settled and the tunnel is up, the data plane is engaged for *)
(* the interface and the connection the tunnel has now.                    *)
THEOREM ReconcilerEngages == PlaneSpec => []EngagedWhenUp
<1>1. PlaneInv => EngagedWhenUp
  BY DEF PlaneInv, Fits, WaitFits, RouteDone, EngagedWhenUp, Settled, Parts
<1> QED
  BY <1>1, PlaneAlways, PTL

-----------------------------------------------------------------------------
(* What the reconciler does to the router beside the requests.             *)

(* It deletes default routes only.                                         *)
RecDooms == \A o \in doomed[Rec] : o.kind = "default-route"

(* Of the router's objects, nothing changes but default routes.            *)
RoutesOnly ==
    \A o : ~(o \in objects <=> o \in objects') => o.kind = "default-route" /\ o.path = "route"

(* Its calls add and delete default routes only.                           *)
LEMMA RecTouches ==
    ASSUME ProvInv, PlaneInv, RecDooms, RecCalls
    PROVE  RoutesOnly /\ RecDooms'
<1>0. /\ Rec \in Runs /\ Call(Rec) /\ rpc \in {"setting", "clearing"}
      /\ RoutesAreRoutes /\ RoutesAreRoutes'
  BY RecAssumption, RoutesStay DEF RecCalls, PlaneInv
<1>1. ASSUME \A o : ~(o \in objects <=> o \in objects') => o.kind = "default-route"
      PROVE  RoutesOnly
  BY <1>0, <1>1 DEF RoutesOnly, RoutesAreRoutes, DefaultRoutes
<1>2. CASE Ensure(Rec)
  BY <1>1, <1>2 DEF Ensure, RecDooms
<1>3. CASE Create(Rec)
  <2>1. pc[Rec] = "create" /\ oper[Rec] = "setRoute" /\ pos[Rec] = RouteStep
    BY <1>0, <1>3 DEF PlaneInv, RecRun, Create
  <2>2. \A o \in New(Rec) : o.kind = "default-route"
    BY <1>0, <2>1, NewRoutes
  <2>3. UNCHANGED doomed /\ (objects' = objects \/ \E o \in New(Rec) : objects' = objects \cup {o})
    BY <1>3 DEF Create, Place
  <2> QED
    BY <1>1, <2>2, <2>3 DEF RecDooms
<1>4. CASE List(Rec)
  <2>1. pc[Rec] = "clear" /\ UNCHANGED objects
    BY <1>0, <1>4 DEF PlaneInv, RecRun, List, Sweeps
  <2>2. \A o \in Targets(Rec) : o.kind = "default-route"
    BY <2>1 DEF Targets
  <2>3. UNCHANGED doomed \/ doomed' = [doomed EXCEPT ![Rec] = Targets(Rec)]
    BY <1>4 DEF List
  <2>4. doomed'[Rec] \in {doomed[Rec], Targets(Rec)}
    BY <1>0, <2>3 DEF ProvInv, ProvTypeOK
  <2> QED
    BY <1>1, <2>1, <2>2, <2>4 DEF RecDooms
<1>5. CASE Delete(Rec)
  <2>1. PICK o \in doomed[Rec] : objects' \in {objects, objects \ {o}}
    BY <1>5 DEF Delete
  <2>2. doomed'[Rec] \subseteq doomed[Rec]
    BY <1>0, <1>5 DEF Delete, ProvInv, ProvTypeOK
  <2> QED
    BY <1>1, <2>1, <2>2 DEF RecDooms
<1>6. ~Check(Rec)
  BY <1>0 DEF PlaneInv, RecRun, Check
<1> QED
  BY <1>0, <1>2, <1>3, <1>4, <1>5, <1>6 DEF Call

(* The steps of this next-state relation, by what they do to the router    *)
(* and to the runs: a request moves; the reconciler calls; the process     *)
(* restarts; or the router stays as it is.                                 *)
LEMMA PlaneCases ==
    ASSUME ProvInv, [PlaneNext]_dvars
    PROVE  \/ ApiStep \/ RecCalls \/ Restart
           \/ /\ objects' = objects /\ doomed'[Rec] \in {doomed[Rec], {}}
              /\ \A r \in Api : SameRun(r)
<1>0. Rec \in Runs
  BY RecAssumption
<1>1. CASE TunnelMoves \/ Flood \/ UNCHANGED dvars \/ React
  BY <1>1 DEF TunnelMoves, Flood, dvars, React, rvars, SameRun
<1>2. CASE Masquerade \/ WriteDns \/ Cleanup \/ ClearDns
  BY <1>2 DEF Masquerade, WriteDns, Cleanup, ClearDns, SameRun
<1>3. CASE EngageRoute \/ DisengageRoute
  <2>1. UNCHANGED <<objects, missing, failed, doomed, entry>>
    BY <1>3 DEF EngageRoute, DisengageRoute, SetDefaultRoute, ClearDefaultRoute
  <2>2. \/ UNCHANGED <<pc, oper, pos>>
        \/ \E o, p, n : Start(Rec, o, p, n)
    BY <1>3 DEF EngageRoute, DisengageRoute, SetDefaultRoute, ClearDefaultRoute
  <2>3. \A r \in Api : pc'[r] = pc[r] /\ oper'[r] = oper[r] /\ pos'[r] = pos[r]
    BY <2>2 DEF Start, Goto, Api, ProvInv, ProvTypeOK
  <2> QED
    BY <2>1, <2>3 DEF SameRun
<1>4. CASE RouteSettled
  <2>1. Report(Rec)
    BY <1>4 DEF RouteSettled
  <2>2. objects' = objects /\ doomed'[Rec] = {}
    BY <1>0, <2>1 DEF Report, Forget, ProvInv, ProvTypeOK
  <2>3. \A r \in Api : r \in Runs \ {Rec} /\ Rec \in Runs
    BY <1>0 DEF Api
  <2> QED
    BY <1>0, <2>1, <2>2, <2>3, OthersStay DEF Api
<1> QED
  BY <1>1, <1>2, <1>3, <1>4 DEF PlaneNext, Reconciler

LEMMA RecDoomsStep ==
    ASSUME ProvInv, PlaneInv, RecDooms, [PlaneNext]_dvars
    PROVE  RecDooms'
<1>0. Rec \in Runs
  BY RecAssumption
<1>1. CASE ApiStep
  <2>1. PICK r \in Api : Begin(r) \/ Call(r) \/ Report(r) \/ Abandon(r)
    BY <1>1 DEF ApiStep
  <2>2. r \in Runs /\ Rec \in Runs \ {r}
    BY <1>0 DEF Api
  <2>3. SameRun(Rec)
    BY <2>1, <2>2, OthersStay
  <2> QED
    BY <2>3 DEF SameRun, RecDooms
<1>2. CASE Restart
  BY <1>0, <1>2 DEF Restart, RecDooms
<1> QED
  BY <1>1, <1>2, PlaneCases, RecTouches DEF RecDooms

LEMMA RecDoomsAlways == PlaneSpec => []RecDooms
<1>1. PlaneInit => RecDooms
  BY RecAssumption DEF PlaneInit, ProvInit, RecDooms
<1>2. ProvInv /\ PlaneInv /\ RecDooms /\ [PlaneNext]_dvars => RecDooms'
  BY RecDoomsStep
<1> QED
  BY <1>1, <1>2, PlaneAlways, PTL DEF PlaneSpec

(* Beside the reconciler, and across restarts of the process, too, only a  *)
(* teardown or an explicit removal deletes an operator's entry or an       *)
(* object that is not ours.                                                *)
THEOREM EntriesOutliveThePlane == PlaneSpec => OperatorEntriesSurvive
<1> DEFINE Survive == \A o \in objects \ objects' :
                         o.kind \in OperatorKinds \cup {"foreign"} =>
                           \E r \in Runs : o \in doomed[r] /\ oper[r] \in {"teardown", "remove"}
<1>1. ASSUME ProvInv, PlaneInv, RecDooms, [PlaneNext]_dvars PROVE Survive
  <2>1. CASE ApiStep
    <3>1. PICK r \in Runs : Begin(r) \/ Call(r) \/ Report(r) \/ Abandon(r)
      BY <2>1 DEF ApiStep, Api
    <3>2. ProvNext
      BY <3>1 DEF ProvNext
    <3> QED
      BY <1>1, <3>2, EntriesKept
  <2>2. CASE RecCalls
    <3>1. \A o \in objects \ objects' : o.kind = "default-route"
      BY <1>1, <2>2, RecTouches DEF RoutesOnly
    <3> QED
      BY <3>1 DEF OperatorKinds
  <2>3. CASE objects' = objects
    BY <2>3
  <2> QED
    BY <1>1, <2>1, <2>2, <2>3, PlaneCases DEF Restart
<1>2. ProvInv /\ PlaneInv /\ RecDooms /\ [PlaneNext]_dvars => [Survive]_rvars
  BY <1>1
<1> QED
  BY <1>2, PlaneAlways, RecDoomsAlways, PTL DEF PlaneSpec, OperatorEntriesSurvive

-----------------------------------------------------------------------------
(* Reports beside the reconciler.                                          *)

Routes == {"default-route"}

(* The kind of a step of setup says where its objects lie, so that a       *)
(* default route is present only as the default route.                     *)
LEMMA OthersPresent ==
    ASSUME RoutesOnly, NEW s \in Elements(SetupSteps), s.kind # "default-route", NEW x
    PROVE  Present(s, x)' <=> Present(s, x)
<1>1. /\ s.kind = "routing-table" => s.path # "route"
      /\ s.kind = "rfc1918-bypass" => s.path # "route"
  BY DEF Elements, SetupSteps, Step
<1>2. ASSUME NEW o, o \in objects \/ o \in objects', o.path = s.path,
             \/ o.kind = s.kind
             \/ s.kind = "routing-table"
             \/ s.kind = "rfc1918-bypass" /\ OnBypassList(o)
      PROVE  o \in objects /\ o \in objects'
  BY <1>1, <1>2 DEF RoutesOnly
<1> QED
  BY <1>2 DEF Present

(* What holds of a request is not disturbed by a step that leaves the      *)
(* request where it is and changes default routes only.                    *)
LEMMA BesideKeeps ==
    ASSUME ProvInv, NEW r \in Runs, AloneInv(r, Routes), SameRun(r), RoutesOnly
    PROVE  AloneInv(r, Routes)'
<1>1. Where(objects)'
  <2> SUFFICES ASSUME NEW o \in objects', NEW s \in Elements(SetupSteps), o.kind = s.kind
               PROVE  o.path = s.path
    BY DEF Where
  <2>1. CASE o \in objects
    BY <2>1 DEF AloneInv, Where
  <2>2. CASE o \notin objects
    <3>1. o.kind = "default-route" /\ o.path = "route"
      BY <2>2 DEF RoutesOnly
    <3>2. Layout[RouteStep] \in Elements(SetupSteps)
      BY LayoutFacts
    <3> QED
      BY <3>1, <3>2, StepsApart, RouteFacts
  <2> QED
    BY <2>1, <2>2
<1>2. \A o \in objects' : o.kind # "default-route" => o \in objects
  BY DEF RoutesOnly
<1>3. Twinless(objects, Routes)'
  BY <1>2 DEF AloneInv, Twinless, Routes
<1>4. \A s \in Elements(SetupSteps) : StepThere(s, Routes)' <=> StepThere(s, Routes)
  BY OthersPresent DEF StepThere, Routes
<1>5. SetupHolds(r, Routes)'
  <2>1. oper[r] = "setup" /\ pc[r] \in {"ensure", "create"} => pos[r] \in 1..Len(Layout)
    BY DEF ProvInv, RunOK
  <2>2. oper[r] = "setup" /\ pc[r] \in {"ensure", "create"} =>
           \A i \in 1..(pos[r] - 1) : i \in 1..Len(Layout)
    BY <2>1, LayoutFacts
  <2>3. oper[r] = "setup" /\ pc[r] \in {"ensure", "create"} =>
           \A i \in 1..(pos[r] - 1) : StepThere(Layout[i], Routes)'
    BY <1>4, <2>2, LayoutFacts DEF AloneInv, SetupHolds
  <2>4. oper[r] = "setup" /\ pc[r] = "report" /\ failed[r] = 0 =>
           \A i \in 1..Len(Layout) : StepThere(Layout[i], Routes)'
    BY <1>4, LayoutFacts DEF AloneInv, SetupHolds
  <2> QED
    BY <2>3, <2>4 DEF SetupHolds, SameRun
<1>6. CreateHolds(r, Routes)'
  <2> SUFFICES ASSUME pc[r] = "create", oper[r] # "add", Layout[pos[r]].kind # "default-route"
               PROVE  CreateHolds(r, Routes)'
    BY DEF CreateHolds, SameRun, Routes
  <2>1. PICK s \in Elements(SetupSteps) : s = Layout[pos[r]] /\ s = Layout[pos'[r]]
    BY LayoutFacts DEF ProvInv, RunOK, SameRun
  <2>2. \A j \in 1..Len(s.items) :
           IF j \in missing[r] THEN Lacks(s, j) ELSE Present(s, s.items[j])
    BY <2>1 DEF AloneInv, CreateHolds, Routes
  <2>3. \A j : Lacks(s, j) => Lacks(s, j)'
    BY <1>2, <2>1 DEF Lacks
  <2>4. \A x : Present(s, x) => Present(s, x)'
    BY <2>1, OthersPresent
  <2>5. \A j \in 1..Len(s.items) :
           IF j \in missing'[r] THEN Lacks(s, j)' ELSE Present(s, s.items[j])'
    BY <2>2, <2>3, <2>4 DEF SameRun
  <2> QED
    BY <2>1, <2>5 DEF CreateHolds
<1>7. TeardownHolds(r, Routes)'
  BY <1>2 DEF AloneInv, TeardownHolds, SameRun, Ours, Routes
<1> QED
  BY <1>1, <1>3, <1>5, <1>6, <1>7 DEF AloneInv

(* One API request at a time beside the reconciler, which sets and clears  *)
(* the default route whenever it likes, with restarts of the process in    *)
(* between: a setup that reports success has left every object of the      *)
(* layout but the default route exactly once, and a teardown nothing that  *)
(* carries the tag but the default route.                                  *)
THEOREM ReportsAreTrueBesideThePlane ==
    ASSUME NEW r, Runs = {r, Rec}, r # Rec,
           \A i \in 1..Len(Layout) : Layout[i].kind = "default-route" => i = RouteStep,
           \A held \in Existing : Where(held) /\ Twinless(held, Routes)
    PROVE  PlaneSpec => []ReportIsTrue
<1>0. r \in Runs /\ Api = {r}
  BY DEF Api
<1>1. PlaneInit => AloneInv(r, Routes)
  BY <1>0 DEF PlaneInit, ProvInit, AloneInv, SetupHolds, CreateHolds, TeardownHolds
<1>2. ASSUME ProvInv, PlaneInv, RecDooms, AloneInv(r, Routes), [PlaneNext]_dvars
      PROVE  AloneInv(r, Routes)'
  <2>1. CASE ApiStep
    <3>1. Begin(r) \/ Call(r) \/ Report(r) \/ Abandon(r)
      BY <1>0, <2>1 DEF ApiStep
    <3> QED
      BY <1>0, <1>2, <3>1, BeginAlone, EnsureAlone, CheckAlone, CreateAlone, ListAlone,
         DeleteAlone, AbandonAlone DEF Call
  <2>2. CASE RecCalls
    <3>1. Call(Rec) /\ Rec \in Runs /\ r \in Runs \ {Rec}
      BY <1>0, <2>2, RecAssumption DEF RecCalls
    <3>2. SameRun(r)
      BY <1>2, <3>1, OthersStay
    <3> QED
      BY <1>0, <1>2, <2>2, <3>2, BesideKeeps, RecTouches
  <2>3. CASE Restart
    <3>1. /\ pc'[r] = "idle" /\ UNCHANGED <<oper, objects>>
      BY <1>0, <2>3 DEF Restart
    <3>2. Where(objects)' /\ Twinless(objects, Routes)'
      BY <1>2, <3>1 DEF AloneInv
    <3> QED
      BY <1>0, <3>1, <3>2, NothingClaimed DEF AloneInv
  <2>4. CASE objects' = objects /\ SameRun(r)
    <3>1. RoutesOnly
      BY <2>4 DEF RoutesOnly
    <3> QED
      BY <1>0, <1>2, <2>4, <3>1, BesideKeeps
  <2> QED
    BY <1>0, <1>2, <2>1, <2>2, <2>3, <2>4, PlaneCases
<1>3. ASSUME ProvInv, PlaneInv, AloneInv(r, Routes) PROVE ReportIsTrue
  <2>1. \A q \in Runs \ {r} : pc[q] # "report" \/ oper[q] \notin {"setup", "teardown"}
    BY <1>3 DEF PlaneInv, RecRun
  <2> QED
    BY <1>0, <1>3, <2>1, AloneTellsTrue DEF Routes
<1> QED
  BY <1>1, <1>2, <1>3, PlaneAlways, RecDoomsAlways, PTL DEF PlaneSpec
=============================================================================
