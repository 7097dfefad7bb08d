----------------------------- MODULE DataPlane -----------------------------
(***************************************************************************)
(* The reconciler (reconciler.rs), which brings the data plane into line   *)
(* with the tunnel: MASQUERADE on the VPN interface (net.rs), the          *)
(* distance-1 default route on the router and the corp split-DNS file.     *)
(*                                                                         *)
(* It is the run Rec of the Provisioner this module extends, beside the    *)
(* API requests that provision the router.  It learns of the tunnel from   *)
(* a broadcast channel whose events say only that the status has changed,  *)
(* and reads the status itself when it gets to one: between the event and  *)
(* the reading, and during a pass, the tunnel moves on.                    *)
(***************************************************************************)
EXTENDS Provisioner

CONSTANTS
    Rec,       \* the reconciler, as a user of the router
    Ifaces,    \* VPN interfaces, each with the DNS data of its connection
    EventCap,  \* bound on the broadcast channel (256 in the code)
    Races,     \* may late reports and overlapping calls set any status?
    Restarts,  \* may the process restart?
    None       \* no interface

ASSUME RecAssumption == Rec \in Runs \ HangUps
ASSUME IfacesAssumption == None \notin Ifaces
ASSUME ChannelAssumption == EventCap \in Nat \ {0}
ASSUME SwitchesAssumption == Races \in BOOLEAN /\ Restarts \in BOOLEAN
(* The first process finds none of its routes; Restart has the later ones. *)
ASSUME NewRouterAssumption ==
    \A found \in Existing : \A o \in found : o.kind # "default-route"

Api == Runs \ {Rec}

VARIABLES
    status,  \* TunnelManager.status
    iface,   \* the interface a connected status names, if it does
    unread,  \* ConnectionStatus events the reconciler has not received
    rpc,     \* the reconciler's next statement
    target,  \* the interface of the pass it is in
    masq,    \* interfaces with a tagged MASQUERADE rule
    dns,     \* the connection whose servers the corp servers-file holds
    undone   \* history: the parts the last pass failed to bring in line, or
             \* that someone else has changed since, or that nobody has told
             \* the reconciler to look at

tunnel == <<status, iface, unread>>
plane  == <<rpc, target, masq, dns, undone>>
dvars  == <<rvars, tunnel, plane>>

Lifecycle == INSTANCE Lifecycle

Status == {"disconnected", "connecting", "mfa", "connected", "error"}
Parts  == {"nat", "route", "dns"}
RecPcs == {"wait", "masquerade", "setRoute", "setting", "writeDns",
           "cleanup", "clearRoute", "clearing", "clearDns"}

PlaneTypeOK ==
    /\ ProvTypeOK
    /\ status \in Status
    /\ iface \in Ifaces \cup {None}
    /\ unread \in 0..EventCap
    /\ rpc \in RecPcs
    /\ target \in Ifaces \cup {None}
    /\ masq \subseteq Ifaces
    /\ dns \in Ifaces \cup {None}
    /\ undone \subseteq Parts

PlaneInit ==
    /\ ProvInit
    /\ status = "disconnected"
    /\ iface = None
    /\ unread = 0
    /\ rpc = "wait"
    /\ target = None
    /\ masq = {}
    /\ dns = None
    /\ undone = {}

----------------------------------------------------------------------------
(* The world around the reconciler.                                        *)

(* The manager sets a status and broadcasts the fact.  A full channel      *)
(* drops its oldest event, never the newest.                               *)
TunnelMoves ==
    /\ \/ status' \in Status \ {status}
          /\ (Races \/ Lifecycle!Next \/ status' = "disconnected")
       \/ Races /\ status = "connected" /\ UNCHANGED status
    /\ IF status' = "connected" THEN iface' \in Ifaces \cup {None} ELSE iface' = None
    /\ unread' = IF unread < EventCap THEN unread + 1 ELSE unread
    /\ UNCHANGED <<rvars, plane>>

DefaultRoutes(objs) == {o \in objs : o.kind = "default-route"}
RouteChanges == DefaultRoutes(objects') # DefaultRoutes(objects)

(* A request that provisions, or empties, the router.                      *)
ApiStep ==
    /\ \E r \in Api : Begin(r) \/ Call(r) \/ Report(r) \/ Abandon(r)
    /\ undone' = IF RouteChanges THEN undone \cup {"route"} ELSE undone
    /\ UNCHANGED <<tunnel, rpc, target, masq, dns>>

(* While the reconciler is busy enough other events - every log line is    *)
(* one - are broadcast to push the unread ones out: recv() then returns    *)
(* Lagged, which the loop skips.                                           *)
Flood ==
    /\ rpc # "wait" /\ unread > 0
    /\ unread' = 0
    /\ undone' = Parts
    /\ UNCHANGED <<rvars, status, iface, rpc, target, masq, dns>>

(* The server process ends and starts again: the router keeps its objects, *)
(* the servers-file its lines, and the container its rules, unless it is   *)
(* restarted too or the stop is an orderly one.  A disconnected tunnel is  *)
(* announced to nobody.                                                    *)
Restart ==
    /\ Restarts
    /\ pc' = [r \in Runs |-> "idle"]
    /\ pos' = [r \in Runs |-> 1]
    /\ missing' = [r \in Runs |-> {}]
    /\ doomed' = [r \in Runs |-> {}]
    /\ entry' = [r \in Runs |-> NoEntry]
    /\ failed' = [r \in Runs |-> 0]
    /\ made' = [r \in Runs |-> {}]
    /\ status' = "disconnected" /\ iface' = None /\ unread' = 0
    /\ rpc' = "wait" /\ target' = None
    /\ masq' \in {masq, {}}
    /\ undone' = Parts
    /\ UNCHANGED <<objects, faults, oper, dns>>

----------------------------------------------------------------------------
(* One pass of the reconciler.                                             *)

Rests == status \in {"disconnected", "error"}

(* Mutant: an interface that has its rule counts as engaged.               *)
ReactOnce ==
    /\ rpc = "wait" /\ unread > 0
    /\ unread' = unread - 1
    /\ \/ /\ status = "connected" /\ iface # None /\ iface \notin masq
          /\ rpc' = "masquerade" /\ target' = iface /\ undone' = {}
       \/ Rests /\ rpc' = "cleanup" /\ target' = None /\ undone' = {}
       \/ ~Rests /\ (iface = None \/ iface \in masq) /\ UNCHANGED <<rpc, target, undone>>
    /\ UNCHANGED <<rvars, status, iface, masq, dns>>

(* An event arrives: the loop of run, with decide on the status read now.  *)
React ==
    /\ rpc = "wait" /\ unread > 0
    /\ unread' = unread - 1
    /\ \/ /\ status = "connected" /\ iface # None
          /\ rpc' = "masquerade" /\ target' = iface /\ undone' = {}
       \/ Rests /\ rpc' = "cleanup" /\ target' = None /\ undone' = {}
       \/ ~Rests /\ iface = None /\ UNCHANGED <<rpc, target, undone>>
    /\ UNCHANGED <<rvars, status, iface, masq, dns>>

Goes(next, lost) == rpc' = next /\ undone' = undone \cup lost

(* apply_vpn_masquerade; an error ends the pass.                           *)
Masquerade ==
    /\ rpc = "masquerade"
    /\ \/ Answered /\ masq' = masq \cup {target} /\ Goes("setRoute", {})
       \/ Fault /\ UNCHANGED masq /\ Goes("wait", Parts)
    /\ UNCHANGED <<objects, pc, oper, pos, missing, doomed, entry, failed, made,
                   tunnel, target, dns>>

(* No client: the route is skipped.  No container address: the pass ends.  *)
EngageRoute ==
    /\ rpc = "setRoute"
    /\ \/ Answered /\ SetDefaultRoute(Rec) /\ Goes("setting", {})
       \/ /\ Fault /\ UNCHANGED <<pc, oper, pos, doomed, entry>>
          /\ Goes("writeDns", {"route"}) \/ Goes("wait", {"route", "dns"})
    /\ UNCHANGED <<objects, missing, failed, made, tunnel, target, masq, dns>>

(* The reconciler's own calls to the router.                               *)
RecCalls ==
    /\ rpc \in {"setting", "clearing"}
    /\ Call(Rec)
    /\ UNCHANGED <<tunnel, plane>>

(* The route is settled, or the error ends the pass, DNS untouched.        *)
RouteSettled ==
    /\ rpc \in {"setting", "clearing"} /\ Report(Rec)
    /\ IF failed[Rec] # 0 THEN Goes("wait", {"route", "dns"})
       ELSE Goes(IF rpc = "setting" THEN "writeDns" ELSE "clearDns", {})
    /\ UNCHANGED <<tunnel, target, masq, dns>>

(* engage_corp_dns reads the status anew and writes nothing unless it is   *)
(* still connected; a failure, of the write or of the reload after it, is  *)
(* logged.                                                                 *)
WriteDns ==
    /\ rpc = "writeDns"
    /\ \/ status = "connected" /\ Answered /\ dns' = iface /\ Goes("wait", {})
       \/ status = "connected" /\ Fault /\ dns' \in {dns, iface} /\ Goes("wait", {"dns"})
       \/ status # "connected" /\ Answered /\ UNCHANGED dns /\ Goes("wait", {})
    /\ UNCHANGED <<objects, pc, oper, pos, missing, doomed, entry, failed, made,
                   tunnel, target, masq>>

(* Mutant: its error is propagated.                                        *)
CleanupPropagates ==
    /\ rpc = "cleanup"
    /\ \/ Answered /\ masq' = {} /\ Goes("clearRoute", {})
       \/ Fault /\ masq' \in SUBSET masq /\ Goes("wait", {"nat"})
    /\ UNCHANGED <<objects, pc, oper, pos, missing, doomed, entry, failed, made,
                   tunnel, target, dns>>

(* cleanup_managed_iptables_rules deletes what it can; its failure is      *)
(* logged, and the route goes all the same.                                *)
Cleanup ==
    /\ rpc = "cleanup"
    /\ \/ Answered /\ masq' = {} /\ Goes("clearRoute", {})
       \/ Fault /\ masq' \in SUBSET masq /\ Goes("clearRoute", {"nat"})
    /\ UNCHANGED <<objects, pc, oper, pos, missing, doomed, entry, failed, made,
                   tunnel, target, dns>>

DisengageRoute ==
    /\ rpc = "clearRoute"
    /\ \/ Answered /\ ClearDefaultRoute(Rec) /\ Goes("clearing", {})
       \/ /\ Fault /\ UNCHANGED <<pc, oper, pos, doomed, entry>>
          /\ Goes("clearDns", {"route"})
    /\ UNCHANGED <<objects, missing, failed, made, tunnel, target, masq, dns>>

ClearDns ==
    /\ rpc = "clearDns"
    /\ \/ Answered /\ dns' = None /\ Goes("wait", {})
       \/ Fault /\ dns' \in {dns, None} /\ Goes("wait", {"dns"})
    /\ UNCHANGED <<objects, pc, oper, pos, missing, doomed, entry, failed, made,
                   tunnel, target, masq>>

Reconciler ==
    \/ React \/ Masquerade \/ EngageRoute \/ RecCalls \/ RouteSettled
    \/ WriteDns \/ Cleanup \/ DisengageRoute \/ ClearDns

PlaneNext == TunnelMoves \/ ApiStep \/ Flood \/ Restart \/ Reconciler

PlaneSpec == PlaneInit /\ [][PlaneNext]_dvars

----------------------------------------------------------------------------
(* The reconciler has received all there is and ended its pass.            *)
Settled == rpc = "wait" /\ unread = 0

NoRoute == DefaultRoutes(objects) = {}

(* However fast the tunnel moves while it works, once the reconciler has   *)
(* settled and the tunnel is at rest nothing is left engaged, save what a  *)
(* failed call, a lost event or an API request has undone since; and what  *)
(* failed does not keep the rest from being cleared (apply, Action::       *)
(* Disengage).                                                             *)
FailClosed ==
    Settled /\ Rests =>
        /\ "nat" \in undone \/ masq = {}
        /\ "route" \in undone \/ NoRoute
        /\ "dns" \in undone \/ dns = None

(* Likewise when the tunnel is up: traffic is masqueraded on the interface *)
(* the tunnel has now, there is a route into the container, and DNS asks   *)
(* the servers of this connection, not of an earlier one (apply,           *)
(* Action::Engage).                                                        *)
EngagedWhenUp ==
    Settled /\ status = "connected" /\ iface # None =>
        /\ "nat" \in undone \/ iface \in masq
        /\ "route" \in undone \/ ~NoRoute
        /\ "dns" \in undone \/ dns = iface
=============================================================================
