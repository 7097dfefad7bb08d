---------------------------- MODULE Provisioner ----------------------------
(***************************************************************************)
(* Policy-based routing on the RouterOS router, as snx-edge-server manages *)
(* it over REST (routeros/provisioner.rs, routeros/client.rs and the       *)
(* routing handlers of api/routing.rs): setup with its migration and       *)
(* rollback, teardown, the reconciler's default-route control, and the     *)
(* operator's address-list entries.                                        *)
(*                                                                         *)
(* One step is one REST call, the unit the router serialises.  No lock     *)
(* spans two calls: every operation lists, decides and then acts on what   *)
(* the listing said.  A call may fail before or after it took effect (the  *)
(* client times out after ten seconds), and an API request may be dropped  *)
(* at any await.                                                           *)
(*                                                                         *)
(* An object is [path, kind, item, copy]: where it lives, the kind= field  *)
(* of its comment, what tells it from the others of its kind (a protocol,  *)
(* an address, a name) and a number standing for the router's .id.  Kind   *)
(* "legacy" is the bare tag of older versions, "foreign" no tag of ours.   *)
(* The free-text note of an entry is taken to hold no kind= field.         *)
(***************************************************************************)
EXTENDS Naturals, Sequences, FiniteSets

CONSTANTS
    Layout,     \* the setup steps a model follows: SetupSteps, or some of them
    Runs,       \* those who use the router at once: requests, the reconciler
    HangUps,    \* runs whose future may be dropped at an await
    ApiOps,     \* the operations API requests may ask for
    Entries,    \* the address-list entries operators may add
    Existing,   \* sets of objects the router may hold at first
    Copies,     \* bound on objects that differ in their .id only
    MaxFaults   \* bound on failed calls

ApiOperations == {"setup", "teardown", "add", "remove"}
Operations    == ApiOperations \cup {"setRoute", "clearRoute"}
OperatorKinds == {"vpn-client", "vpn-bypass", "vpn-corp"}

(* The order teardown, rollback and the legacy sweep visit, dependents     *)
(* first.                                                                  *)
Paths == <<"filter", "nat", "mangle", "route", "address-list", "table">>
RoutePath == 4

Step(kind, path, items) == [kind |-> kind, path |-> path, items |-> items]

SetupSteps ==
    << Step("routing-table",       "table",        <<"vpn">>),
       Step("mangle-conn-mark",    "mangle",       <<"rule">>),
       Step("mangle-routing-mark", "mangle",       <<"rule">>),
       Step("mss-clamp",           "mangle",       <<"rule">>),
       Step("default-route",       "route",        <<"rule">>),
       Step("kill-switch",         "route",        <<"rule">>),
       Step("dns-dst-nat",         "nat",          <<"udp", "tcp">>),
       Step("dot-block",           "filter",       <<"tcp", "udp">>),
       Step("fasttrack-bypass",    "filter",       <<"rule">>),
       Step("rfc1918-bypass",      "address-list", <<"192.168", "172.16", "10">>) >>

(* The step of ensure_vpn_route.                                           *)
RouteStep == CHOOSE i \in 1..Len(Layout) : Layout[i].kind = "default-route"

Elements(seq) == {seq[i] : i \in 1..Len(seq)}
StepKinds == {s.kind : s \in Elements(SetupSteps)}
Items     == UNION {Elements(s.items) : s \in Elements(SetupSteps)}
Kinds     == StepKinds \cup OperatorKinds \cup {"legacy", "foreign"}
Objects   == [path : Elements(Paths), kind : Kinds,
              item : Items \cup {e.item : e \in Entries} \cup {"old"},
              copy : 1..Copies]

ASSUME LayoutAssumption ==
    /\ Layout \in Seq(Elements(SetupSteps))
    /\ \E i \in 1..Len(Layout) : Layout[i].kind = "default-route"
ASSUME RunsAssumption == HangUps \subseteq Runs /\ ApiOps \subseteq ApiOperations
ASSUME EntriesAssumption ==
    \A e \in Entries : e = [path |-> "address-list", kind |-> e.kind, item |-> e.item]
                       /\ e.kind \in OperatorKinds
ASSUME ExistingAssumption == Existing \subseteq SUBSET Objects
ASSUME LimitsAssumption == Copies \in Nat \ {0} /\ MaxFaults \in Nat

VARIABLES
    objects,  \* what the router holds
    faults,   \* calls that have failed
    pc, oper, \* per run: what it does next, and the operation asked for
    pos,      \* per run: the step or the path it is at
    missing,  \* per run: which items of its step it has still to create
    doomed,   \* per run: the listed objects it has still to delete
    entry,    \* per run: the entry it adds
    failed,   \* per run: where its operation failed, 0 if it has not
    made      \* history, per run: the objects it has created

rvars == <<objects, faults, pc, oper, pos, missing, doomed, entry, failed, made>>

NoEntry  == [path |-> "none", kind |-> "none", item |-> "none"]
Sweeps   == {"migrate", "rollback", "teardown", "clear", "remove"}
Places   == 1..Len(Paths) \cup 1..Len(Layout)
RunPcs   == {"idle", "ensure", "check", "create", "report"} \cup Sweeps

ProvTypeOK ==
    /\ objects \subseteq Objects
    /\ faults \in 0..MaxFaults
    /\ pc \in [Runs -> RunPcs]
    /\ oper \in [Runs -> Operations]
    /\ pos \in [Runs -> Places]
    /\ missing \in [Runs -> SUBSET Nat]
    /\ doomed \in [Runs -> SUBSET Objects]
    /\ entry \in [Runs -> Entries \cup {NoEntry}]
    /\ failed \in [Runs -> Places \cup {0}]
    /\ made \in [Runs -> SUBSET Objects]

(* What a run's place in its operation says of the rest of its state.      *)
RunOK(r) ==
    /\ pc[r] \in {"migrate", "rollback"} => oper[r] = "setup"
    /\ pc[r] = "teardown" => oper[r] = "teardown"
    /\ pc[r] = "clear" => oper[r] = "clearRoute"
    /\ pc[r] = "remove" => oper[r] = "remove"
    /\ pc[r] = "check" => oper[r] = "add"
    /\ pc[r] = "ensure" => oper[r] \in {"setup", "setRoute"} /\ pos[r] \in 1..Len(Layout)
    /\ pc[r] = "create" =>
         /\ missing[r] # {}
         /\ \/ oper[r] = "add"
            \/ /\ oper[r] \in {"setup", "setRoute"}
               /\ pos[r] \in 1..Len(Layout)
               /\ missing[r] \subseteq 1..Len(Layout[pos[r]].items)
    /\ pc[r] \in {"check", "create"} /\ oper[r] = "add" => entry[r] \in Entries
    /\ pc[r] = "rollback" => failed[r] \in 1..Len(Layout)
    /\ pc[r] \notin Sweeps => doomed[r] = {}
    /\ pc[r] \in Sweeps /\ pc[r] # "remove" => pos[r] \in 1..Len(Paths)

(* No run holds an operator's entry for deletion but to tear down or to    *)
(* remove that entry.                                                      *)
DoomedOK(r) ==
    \A o \in doomed[r] : o.kind \in OperatorKinds \cup {"foreign"} =>
                            oper[r] \in {"teardown", "remove"}

ProvInit ==
    /\ objects \in Existing
    /\ faults = 0
    /\ pc = [r \in Runs |-> "idle"]
    /\ oper = [r \in Runs |-> "setup"]
    /\ pos = [r \in Runs |-> 1]
    /\ missing = [r \in Runs |-> {}]
    /\ doomed = [r \in Runs |-> {}]
    /\ entry = [r \in Runs |-> NoEntry]
    /\ failed = [r \in Runs |-> 0]
    /\ made = [r \in Runs |-> {}]

----------------------------------------------------------------------------
(* What a listing is searched for.                                         *)

(* client.rs matches the list by name: an entry of any other kind than     *)
(* these two sits on the bypass list.                                      *)
OnBypassList(o) == o.path = "address-list" /\ o.kind \notin {"vpn-client", "vpn-corp"}

(* Does the router have what step s would create for item x?  Rules match  *)
(* by kind; a table by its name and a bypass address by the address, both  *)
(* whoever made them.                                                      *)
Present(s, x) ==
    \E o \in objects :
        /\ o.path = s.path /\ o.item = x
        /\ \/ o.kind = s.kind
           \/ s.kind = "routing-table"
           \/ s.kind = "rfc1918-bypass" /\ OnBypassList(o)

(* Mutant: a step counts as done once any object of its kind exists.       *)
MissingByKind(s) ==
    IF \E x \in Elements(s.items) : Present(s, x) THEN {} ELSE 1..Len(s.items)

(* The items of step s, by number, that the router lacks.                  *)
Missing(s) == {j \in 1..Len(s.items) : ~Present(s, s.items[j])}

First(nums) == CHOOSE j \in nums : \A k \in nums : j <= k

IsManaged(o) == o.kind # "foreign"

(* The kinds of the steps a failed setup got through: SetupReport.applied. *)
Applied(r) == {Layout[i].kind : i \in 1..(failed[r] - 1)}

(* Mutant: rollback is a teardown, by the bare tag.                        *)
TargetsByTag(r) ==
    {o \in objects :
        /\ o.path = Paths[pos[r]]
        /\ \/ pc[r] = "migrate"  /\ o.kind = "legacy"
           \/ pc[r] \in {"rollback", "teardown"} /\ IsManaged(o)
           \/ pc[r] = "clear"    /\ o.kind = "default-route"}

(* The objects the listing of run r's sweep, at its present path, dooms.   *)
Targets(r) ==
    {o \in objects :
        /\ o.path = Paths[pos[r]]
        /\ \/ pc[r] = "migrate"  /\ o.kind = "legacy"
           \/ pc[r] = "rollback" /\ o.kind \in Applied(r)
           \/ pc[r] = "teardown" /\ IsManaged(o)
           \/ pc[r] = "clear"    /\ o.kind = "default-route"}

(* A new object of run r, with an .id nobody holds.                        *)
Wanted(r) == IF oper[r] = "add" THEN entry[r]
             ELSE LET s == Layout[pos[r]] IN
                  [path |-> s.path, kind |-> s.kind, item |-> s.items[First(missing[r])]]
Object(spec, n) == [path |-> spec.path, kind |-> spec.kind, item |-> spec.item, copy |-> n]
Held     == objects \cup UNION {doomed[r] \cup made[r] : r \in Runs}
Free(spec) == {n \in 1..Copies : Object(spec, n) \notin Held}
New(r)   == {Object(Wanted(r), CHOOSE n \in Free(Wanted(r)) : TRUE) :
                k \in Free(Wanted(r))}

----------------------------------------------------------------------------
(* How a run moves on.                                                     *)

Answered == UNCHANGED faults
Fault    == faults < MaxFaults /\ faults' = faults + 1

Goto(r, p, n) == pc' = [pc EXCEPT ![r] = p] /\ pos' = [pos EXCEPT ![r] = n]

(* The step's objects are there: setup's next step, or the end.            *)
StepDone(r) ==
    /\ IF oper[r] = "setup" /\ pos[r] < Len(Layout)
       THEN Goto(r, "ensure", pos[r] + 1) ELSE Goto(r, "report", pos[r])
    /\ UNCHANGED failed

(* The step failed: setup rolls back, everyone else reports the error.     *)
StepFails(r) ==
    /\ failed' = [failed EXCEPT ![r] = pos[r]]
    /\ IF oper[r] = "setup" THEN Goto(r, "rollback", 1) ELSE Goto(r, "report", pos[r])

(* A path is swept: the next one, or what follows the sweep.               *)
PathDone(r) ==
    /\ IF pc[r] \in {"migrate", "rollback", "teardown"} /\ pos[r] < Len(Paths)
       THEN Goto(r, pc[r], pos[r] + 1)
       ELSE IF pc[r] = "migrate" THEN Goto(r, "ensure", 1) ELSE Goto(r, "report", pos[r])
    /\ UNCHANGED failed

(* A sweep stops at its first error.  Migration's and rollback's are only  *)
(* logged; any other is the operation's.                                   *)
SweepFails(r) ==
    IF pc[r] = "migrate" THEN Goto(r, "ensure", 1) /\ UNCHANGED failed
    ELSE /\ Goto(r, "report", pos[r])
         /\ IF pc[r] = "rollback" THEN UNCHANGED failed
            ELSE failed' = [failed EXCEPT ![r] = pos[r]]

----------------------------------------------------------------------------
(* Operations begin.                                                       *)

Start(r, o, p, n) ==
    /\ pc[r] = "idle"
    /\ oper' = [oper EXCEPT ![r] = o]
    /\ Goto(r, p, n)

(* setup_pbr and the supervisor's auto_setup.                              *)
Setup(r) == Start(r, "setup", "migrate", 1) /\ UNCHANGED <<doomed, entry>>

Teardown(r) == Start(r, "teardown", "teardown", 1) /\ UNCHANGED <<doomed, entry>>

(* add_client, add_bypass, add_corp.                                       *)
AddEntry(r) ==
    /\ Start(r, "add", "check", 1)
    /\ \E e \in Entries : entry' = [entry EXCEPT ![r] = e]
    /\ UNCHANGED doomed

(* remove_client, remove_bypass, remove_corp: the caller names an .id of   *)
(* an earlier listing.                                                     *)
RemoveEntry(r) ==
    /\ Start(r, "remove", "remove", 1)
    /\ \E o \in objects : o.path = "address-list" /\ doomed' = [doomed EXCEPT ![r] = {o}]
    /\ UNCHANGED entry

SetDefaultRoute(r) == Start(r, "setRoute", "ensure", RouteStep) /\ UNCHANGED <<doomed, entry>>

ClearDefaultRoute(r) ==
    Start(r, "clearRoute", "clear", RoutePath) /\ UNCHANGED <<doomed, entry>>

Begin(r) ==
    /\ \/ "setup" \in ApiOps /\ Setup(r)
       \/ "teardown" \in ApiOps /\ Teardown(r)
       \/ "add" \in ApiOps /\ AddEntry(r)
       \/ "remove" \in ApiOps /\ RemoveEntry(r)
    /\ UNCHANGED <<objects, faults, missing, failed, made>>

----------------------------------------------------------------------------
(* One REST call of run r.                                                 *)

(* The listing of an ensure_* helper.                                      *)
Ensure(r) ==
    /\ pc[r] = "ensure"
    /\ LET lack == Missing(Layout[pos[r]]) IN
         \/ Answered /\ lack = {} /\ StepDone(r) /\ UNCHANGED missing
         \/ /\ Answered /\ lack # {}
            /\ missing' = [missing EXCEPT ![r] = lack]
            /\ Goto(r, "create", pos[r]) /\ UNCHANGED failed
         \/ Fault /\ StepFails(r) /\ UNCHANGED missing
    /\ UNCHANGED <<objects, oper, doomed, entry, made>>

(* The duplicate check of add_address.                                     *)
Check(r) ==
    /\ pc[r] = "check"
    /\ LET taken == \E o \in objects :
                        /\ o.path = "address-list" /\ o.item = entry[r].item
                        /\ IF entry[r].kind = "vpn-bypass" THEN OnBypassList(o)
                           ELSE o.kind = entry[r].kind
       IN \/ Answered /\ taken /\ StepFails(r) /\ UNCHANGED missing
          \/ /\ Answered /\ ~taken
             /\ missing' = [missing EXCEPT ![r] = {1}]
             /\ Goto(r, "create", pos[r]) /\ UNCHANGED failed
          \/ Fault /\ StepFails(r) /\ UNCHANGED missing
    /\ UNCHANGED <<objects, oper, doomed, entry, made>>

Place(r, o) ==
    /\ objects' = objects \cup {o}
    /\ made' = [made EXCEPT ![r] = @ \cup {o}]

(* A PUT.  A call that fails may have been carried out all the same.       *)
Create(r) ==
    /\ pc[r] = "create"
    /\ \/ /\ Answered
          /\ \E o \in New(r) : Place(r, o)
          /\ missing' = [missing EXCEPT ![r] = @ \ {First(@)}]
          /\ IF missing[r] = {First(missing[r])} THEN StepDone(r) ELSE UNCHANGED <<pc, pos, failed>>
       \/ /\ Fault
          /\ UNCHANGED <<objects, made>> \/ \E o \in New(r) : Place(r, o)
          /\ missing' = [missing EXCEPT ![r] = {}]
          /\ StepFails(r)
    /\ UNCHANGED <<oper, doomed, entry>>

(* The listing of a sweep.                                                 *)
List(r) ==
    /\ pc[r] \in Sweeps /\ doomed[r] = {}
    /\ \/ Answered /\ Targets(r) = {} /\ PathDone(r) /\ UNCHANGED doomed
       \/ /\ Answered /\ Targets(r) # {}
          /\ doomed' = [doomed EXCEPT ![r] = Targets(r)]
          /\ UNCHANGED <<pc, pos, failed>>
       \/ Fault /\ SweepFails(r) /\ UNCHANGED doomed
    /\ UNCHANGED <<objects, oper, missing, entry, made>>

(* A DELETE of a listed object; the router refuses one that is gone.       *)
Delete(r) ==
    /\ pc[r] \in Sweeps
    /\ \E o \in doomed[r] :
         \/ /\ Answered /\ o \in objects
            /\ objects' = objects \ {o}
            /\ doomed' = [doomed EXCEPT ![r] = @ \ {o}]
            /\ IF doomed[r] = {o} THEN PathDone(r) ELSE UNCHANGED <<pc, pos, failed>>
         \/ /\ \/ Answered /\ o \notin objects /\ UNCHANGED objects
               \/ Fault /\ objects' \in {objects, objects \ {o}}
            /\ doomed' = [doomed EXCEPT ![r] = {}]
            /\ SweepFails(r)
    /\ UNCHANGED <<oper, missing, entry, made>>

Call(r) == Ensure(r) \/ Check(r) \/ Create(r) \/ List(r) \/ Delete(r)

Forget(r) ==
    /\ Goto(r, "idle", 1)
    /\ missing' = [missing EXCEPT ![r] = {}]
    /\ doomed' = [doomed EXCEPT ![r] = {}]
    /\ entry' = [entry EXCEPT ![r] = NoEntry]
    /\ failed' = [failed EXCEPT ![r] = 0]
    /\ made' = [made EXCEPT ![r] = {}]

(* The operation returns its report.                                       *)
Report(r) == pc[r] = "report" /\ Forget(r) /\ UNCHANGED <<objects, faults, oper>>

(* The client hangs up and axum drops the handler at its await: nothing of *)
(* it runs any more, no rollback either.  The call it waited for may have  *)
(* been carried out.                                                       *)
Abandon(r) ==
    /\ r \in HangUps /\ pc[r] \notin {"idle", "report"}
    /\ \/ UNCHANGED objects
       \/ pc[r] = "create" /\ \E o \in New(r) : objects' = objects \cup {o}
       \/ pc[r] \in Sweeps /\ \E o \in doomed[r] : objects' = objects \ {o}
    /\ Forget(r)
    /\ UNCHANGED <<faults, oper>>

ProvNext == \E r \in Runs : Begin(r) \/ Call(r) \/ Report(r) \/ Abandon(r)

ProvSpec == ProvInit /\ [][ProvNext]_rvars

----------------------------------------------------------------------------
(* Setup, its migration and its rollback never delete what an operator     *)
(* entered, or what carries no tag of ours, however often and wherever     *)
(* they fail: only teardown and an explicit removal do (setup,             *)
(* provisioner.rs, "operator kinds ... always survive").                   *)
OperatorEntriesSurvive ==
    [][\A o \in objects \ objects' :
          o.kind \in OperatorKinds \cup {"foreign"} =>
            \E r \in Runs : o \in doomed[r] /\ oper[r] \in {"teardown", "remove"}]_rvars

(* With one request at a time a report of success is true, whatever failed *)
(* runs have left behind: after setup every object of the layout exists,   *)
(* and none twice; after teardown nothing carries the tag.  The default    *)
(* route is the reconciler's to add and remove at any time.                *)
ReportIsTrue ==
    \A r \in Runs : pc[r] = "report" /\ failed[r] = 0 =>
        /\ oper[r] = "setup" =>
             \A i \in (1..Len(Layout)) \ {RouteStep} :
                LET s == Layout[i] IN
                \A x \in Elements(s.items) :
                   /\ Present(s, x)
                   /\ Cardinality({o \in objects : o.kind = s.kind /\ o.item = x}) <= 1
        /\ oper[r] = "teardown" =>
             \A o \in objects : IsManaged(o) => o.kind = "default-route"

(* "On any step failure, roll back ONLY the objects this run created"      *)
(* (setup, provisioner.rs).                                                *)
RollbackOwnObjects ==
    \A r \in Runs : pc[r] = "rollback" => doomed[r] \subseteq made[r]
=============================================================================
