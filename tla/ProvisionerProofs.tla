------------------------- MODULE ProvisionerProofs -------------------------
(***************************************************************************)
(* Proofs about Provisioner for any set of runs, any layout drawn from     *)
(* setup's steps, any entries and any number of failed calls: its type     *)
(* invariant, and that setup, migration and rollback never delete what an  *)
(* operator entered.  With one request at a time, that a report of success *)
(* is true.                                                                *)
(***************************************************************************)
EXTENDS Provisioner, FiniteSetTheorems, TLAPS

Protected == OperatorKinds \cup {"foreign"}

----------------------------------------------------------------------------
(* Facts about the operators the model is built from.                      *)

(* First picks a member: no step has more than three items.                *)
LEMMA FirstIsIn ==
    ASSUME NEW S, S \subseteq 1..3, S # {}
    PROVE  First(S) \in S
<1>0. PICK x \in S : x \in 1..3
  OBVIOUS
<1>1. CASE 1 \in S
  <2>1. \E j \in S : \A k \in S : j <= k
    BY <1>1
  <2> QED
    BY <2>1 DEF First
<1>2. CASE 1 \notin S /\ 2 \in S
  <2>1. \E j \in S : \A k \in S : j <= k
    BY <1>2
  <2> QED
    BY <2>1 DEF First
<1>3. CASE 1 \notin S /\ 2 \notin S /\ 3 \in S
  <2>1. \E j \in S : \A k \in S : j <= k
    BY <1>3
  <2> QED
    BY <2>1 DEF First
<1>4. x = 1 \/ x = 2 \/ x = 3
  BY <1>0
<1> QED
  BY <1>0, <1>1, <1>2, <1>3, <1>4

(* A step of setup names a path that is swept, creates items of the model  *)
(* and is never of a kind only operators use.                              *)
LEMMA StepFacts ==
    ASSUME NEW s \in Elements(SetupSteps)
    PROVE  /\ s.path \in Elements(Paths)
           /\ s.kind \in StepKinds
           /\ s.kind \notin Protected \cup {"legacy"}
           /\ Len(s.items) \in 1..3
           /\ \A j \in 1..Len(s.items) : s.items[j] \in Items
<1>1. s.kind \in StepKinds
  BY DEF StepKinds
<1>2. \A j \in 1..Len(s.items) : s.items[j] \in Items
  BY DEF Items, Elements
<1>3. /\ s.path \in Elements(Paths)
      /\ s.kind \notin Protected \cup {"legacy"}
      /\ Len(s.items) \in 1..3
  BY DEF Elements, SetupSteps, Step, Paths, Protected, OperatorKinds
<1> QED
  BY <1>1, <1>2, <1>3

(* So is every step of the layout; and one of them makes the default route.*)
LEMMA LayoutFacts ==
    /\ Len(Layout) \in Nat
    /\ \A i \in 1..Len(Layout) : Layout[i] \in Elements(SetupSteps)
    /\ RouteStep \in 1..Len(Layout)
    /\ Len(Paths) = 6
BY LayoutAssumption DEF RouteStep, Paths

(* What run r wants to create is an object of the model.                   *)
LEMMA WantedFacts ==
    ASSUME NEW r \in Runs, ProvTypeOK, RunOK(r), pc[r] = "create", NEW o \in New(r)
    PROVE  o \in Objects
<1>1. ASSUME oper[r] = "add" PROVE Object(Wanted(r), 1) \in Objects
  <2>1. entry[r] \in Entries
    BY <1>1 DEF RunOK
  <2>2. /\ entry[r].path = "address-list"
        /\ entry[r].kind \in OperatorKinds
        /\ entry[r].item \in {e.item : e \in Entries}
    BY <2>1, EntriesAssumption
  <2>3. "address-list" \in Elements(Paths)
    BY DEF Elements, Paths
  <2> QED
    BY <1>1, <2>2, <2>3, LimitsAssumption DEF Wanted, Object, Objects, Kinds
<1>2. ASSUME oper[r] # "add" PROVE Object(Wanted(r), 1) \in Objects
  <2>1. /\ pos[r] \in 1..Len(Layout)
        /\ missing[r] # {}
        /\ missing[r] \subseteq 1..Len(Layout[pos[r]].items)
    BY <1>2 DEF RunOK
  <2>2. Layout[pos[r]] \in Elements(SetupSteps)
    BY <2>1, LayoutFacts
  <2>3. First(missing[r]) \in missing[r]
    BY <2>1, <2>2, StepFacts, FirstIsIn
  <2>4. /\ Layout[pos[r]].path \in Elements(Paths)
        /\ Layout[pos[r]].kind \in StepKinds
        /\ Layout[pos[r]].items[First(missing[r])] \in Items
    BY <2>1, <2>2, <2>3, StepFacts
  <2> QED
    BY <1>2, <2>4, LimitsAssumption DEF Wanted, Object, Objects, Kinds
<1>3. /\ Free(Wanted(r)) # {}
      /\ o = Object(Wanted(r), CHOOSE n \in Free(Wanted(r)) : TRUE)
  BY DEF New
<1>4. (CHOOSE n \in Free(Wanted(r)) : TRUE) \in 1..Copies
  BY <1>3 DEF Free
<1> QED
  BY <1>1, <1>2, <1>3, <1>4, LimitsAssumption DEF Object, Objects

----------------------------------------------------------------------------
(* The inductive invariant.                                                *)

ProvInv == ProvTypeOK /\ \A r \in Runs : RunOK(r) /\ DoomedOK(r)

(* Runs do not share their state.                                          *)
SameRun(q) ==
    /\ pc'[q] = pc[q] /\ oper'[q] = oper[q] /\ pos'[q] = pos[q]
    /\ missing'[q] = missing[q] /\ doomed'[q] = doomed[q]
    /\ entry'[q] = entry[q] /\ failed'[q] = failed[q]

LEMMA OthersOK ==
    ASSUME ProvInv, NEW q \in Runs, SameRun(q)
    PROVE  RunOK(q)' /\ DoomedOK(q)'
BY DEF ProvInv, SameRun, RunOK, DoomedOK

(* How a run moves on: the four ways out of a call.                        *)
LEMMA StepDoneFacts ==
    ASSUME ProvInv, NEW r \in Runs, pc[r] \in {"ensure", "create"}, StepDone(r)
    PROVE  /\ pc' \in [Runs -> RunPcs] /\ pos' \in [Runs -> Places]
           /\ failed' = failed
           /\ \A q \in Runs \ {r} : pc'[q] = pc[q] /\ pos'[q] = pos[q]
           /\ \/ pc'[r] = "report"
              \/ pc'[r] = "ensure" /\ oper[r] = "setup" /\ pos'[r] \in 1..Len(Layout)
<1>1. oper[r] = "setup" => pos[r] \in 1..Len(Layout)
  BY DEF ProvInv, RunOK
<1>2. \E p \in RunPcs, n \in Places :
         /\ pc' = [pc EXCEPT ![r] = p] /\ pos' = [pos EXCEPT ![r] = n]
         /\ \/ p = "report"
            \/ p = "ensure" /\ oper[r] = "setup" /\ n \in 1..Len(Layout)
  <2>1. CASE oper[r] = "setup" /\ pos[r] < Len(Layout)
    <3>1. pos[r] + 1 \in 1..Len(Layout)
      BY <1>1, <2>1, LayoutFacts
    <3> QED
      BY <2>1, <3>1 DEF StepDone, Goto, RunPcs, Places
  <2>2. CASE ~(oper[r] = "setup" /\ pos[r] < Len(Layout))
    <3>1. pos[r] \in Places
      BY DEF ProvInv, ProvTypeOK
    <3> QED
      BY <2>2, <3>1 DEF StepDone, Goto, RunPcs
  <2> QED
    BY <2>1, <2>2
<1> QED
  BY <1>2 DEF ProvInv, ProvTypeOK, StepDone

LEMMA StepFailsFacts ==
    ASSUME ProvInv, NEW r \in Runs, pc[r] \in {"ensure", "check", "create"}, StepFails(r)
    PROVE  /\ pc' \in [Runs -> RunPcs] /\ pos' \in [Runs -> Places]
           /\ failed' \in [Runs -> Places \cup {0}]
           /\ \A q \in Runs \ {r} : pc'[q] = pc[q] /\ pos'[q] = pos[q] /\ failed'[q] = failed[q]
           /\ \/ pc'[r] = "report"
              \/ /\ pc'[r] = "rollback" /\ oper[r] = "setup"
                 /\ pos'[r] = 1 /\ failed'[r] \in 1..Len(Layout)
<1>1. oper[r] = "setup" => pos[r] \in 1..Len(Layout)
  BY DEF ProvInv, RunOK
<1>2. pos[r] \in Places /\ 1 \in Places
  BY LayoutFacts DEF ProvInv, ProvTypeOK, Places
<1>3. \E p \in RunPcs, n \in Places :
         /\ pc' = [pc EXCEPT ![r] = p] /\ pos' = [pos EXCEPT ![r] = n]
         /\ \/ p = "report"
            \/ p = "rollback" /\ oper[r] = "setup" /\ n = 1
  BY <1>2 DEF StepFails, Goto, RunPcs, Sweeps
<1>4. failed' = [failed EXCEPT ![r] = pos[r]]
  BY DEF StepFails
<1>5. failed' \in [Runs -> Places \cup {0}] /\ failed'[r] = pos[r]
  BY <1>2, <1>4 DEF ProvInv, ProvTypeOK
<1> QED
  BY <1>1, <1>3, <1>4, <1>5 DEF ProvInv, ProvTypeOK

LEMMA PathDoneFacts ==
    ASSUME ProvInv, NEW r \in Runs, pc[r] \in Sweeps, PathDone(r)
    PROVE  /\ pc' \in [Runs -> RunPcs] /\ pos' \in [Runs -> Places]
           /\ failed' = failed
           /\ \A q \in Runs \ {r} : pc'[q] = pc[q] /\ pos'[q] = pos[q]
           /\ \/ pc'[r] = "report"
              \/ pc'[r] = "ensure" /\ oper[r] = "setup" /\ pos'[r] = 1
              \/ /\ pc'[r] = pc[r] /\ pc[r] \in {"migrate", "rollback", "teardown"}
                 /\ pos'[r] \in 1..Len(Paths)
<1>1. pc[r] \in {"migrate", "rollback", "teardown"} => pos[r] \in 1..Len(Paths)
  BY DEF ProvInv, RunOK, Sweeps
<1>2. pc[r] = "migrate" => oper[r] = "setup"
  BY DEF ProvInv, RunOK
<1> QED
  BY <1>1, <1>2, LayoutFacts, SMTT(40)
     DEF ProvInv, ProvTypeOK, PathDone, Goto, RunPcs, Places, Sweeps

LEMMA SweepFailsFacts ==
    ASSUME ProvInv, NEW r \in Runs, pc[r] \in Sweeps, SweepFails(r)
    PROVE  /\ pc' \in [Runs -> RunPcs] /\ pos' \in [Runs -> Places]
           /\ failed' \in [Runs -> Places \cup {0}]
           /\ \A q \in Runs \ {r} : pc'[q] = pc[q] /\ pos'[q] = pos[q] /\ failed'[q] = failed[q]
           /\ \/ pc'[r] = "report"
              \/ pc'[r] = "ensure" /\ oper[r] = "setup" /\ pos'[r] = 1
<1>1. pc[r] = "migrate" => oper[r] = "setup"
  BY DEF ProvInv, RunOK
<1> QED
  BY <1>1, LayoutFacts DEF ProvInv, ProvTypeOK, SweepFails, Goto, RunPcs, Places, Sweeps

(* A step of run r preserves the invariant if it does so for r and leaves  *)
(* the others alone.                                                       *)
LEMMA OneRun ==
    ASSUME ProvInv, NEW r \in Runs, ProvTypeOK', RunOK(r)', DoomedOK(r)',
           \A q \in Runs \ {r} : SameRun(q)
    PROVE  ProvInv'
<1>1. \A q \in Runs \ {r} : RunOK(q)' /\ DoomedOK(q)'
  BY OthersOK
<1> QED
  BY <1>1 DEF ProvInv

(* The invariant holds at first.                                           *)
LEMMA InitOK == ProvInit => ProvInv
<1> SUFFICES ASSUME ProvInit PROVE ProvInv
  OBVIOUS
<1>1. ProvTypeOK
  BY ExistingAssumption, LimitsAssumption, LayoutFacts
  DEF ProvInit, ProvTypeOK, RunPcs, ApiOperations, Operations, Places
<1>2. \A r \in Runs : RunOK(r) /\ DoomedOK(r)
  BY DEF ProvInit, RunOK, DoomedOK, Sweeps
<1> QED
  BY <1>1, <1>2 DEF ProvInv

----------------------------------------------------------------------------
(* An operation begins.                                                    *)

LEMMA BeginStep ==
    ASSUME ProvInv, NEW r \in Runs, Begin(r)
    PROVE  ProvInv'
<1>1. \E o \in Operations, p \in RunPcs :
         /\ Start(r, o, p, 1)
         /\ \/ o = "setup" /\ p = "migrate"
            \/ o = "teardown" /\ p = "teardown"
            \/ o = "add" /\ p = "check" /\ \E e \in Entries : entry' = [entry EXCEPT ![r] = e]
            \/ o = "remove" /\ p = "remove"
         /\ \/ UNCHANGED doomed
            \/ /\ o = "remove"
               /\ \E d \in SUBSET objects : doomed' = [doomed EXCEPT ![r] = d]
         /\ o # "add" => UNCHANGED entry
  <2>1. {"setup", "teardown", "add", "remove"} \subseteq Operations
    BY DEF Operations, ApiOperations
  <2>2. {"migrate", "teardown", "check", "remove"} \subseteq RunPcs
    BY DEF RunPcs, Sweeps
  <2>3. CASE Setup(r)
    BY <2>1, <2>2, <2>3 DEF Setup
  <2>4. CASE Teardown(r)
    BY <2>1, <2>2, <2>4 DEF Teardown
  <2>5. CASE AddEntry(r)
    BY <2>1, <2>2, <2>5 DEF AddEntry
  <2>6. CASE RemoveEntry(r)
    <3>1. PICK o \in objects : doomed' = [doomed EXCEPT ![r] = {o}]
      BY <2>6 DEF RemoveEntry
    <3>2. {o} \in SUBSET objects
      OBVIOUS
    <3> QED
      BY <2>1, <2>2, <2>6, <3>1, <3>2 DEF RemoveEntry
  <2> QED
    BY <2>3, <2>4, <2>5, <2>6 DEF Begin
<1>2. UNCHANGED <<objects, faults, missing, failed, made>>
  BY DEF Begin
<1>3. ProvTypeOK'
  <2>1. 1 \in Places
    BY LayoutFacts DEF Places
  <2> QED
    BY <1>1, <1>2, <2>1 DEF ProvInv, ProvTypeOK, Start, Goto
<1>4. \A q \in Runs \ {r} : SameRun(q)
  BY <1>1, <1>2 DEF SameRun, ProvInv, ProvTypeOK, Start, Goto
<1>5. /\ pos'[r] = 1
      /\ \/ pc'[r] = "migrate" /\ oper'[r] = "setup" /\ doomed'[r] = {}
         \/ pc'[r] = "teardown" /\ oper'[r] = "teardown" /\ doomed'[r] = {}
         \/ pc'[r] = "check" /\ oper'[r] = "add" /\ doomed'[r] = {} /\ entry'[r] \in Entries
         \/ pc'[r] = "remove" /\ oper'[r] = "remove"
  <2>1. doomed[r] = {}
    BY <1>1 DEF ProvInv, RunOK, Start, Sweeps
  <2> QED
    BY <1>1, <2>1 DEF ProvInv, ProvTypeOK, Start, Goto
<1>6. RunOK(r)' /\ DoomedOK(r)'
  BY <1>5, LayoutFacts DEF RunOK, DoomedOK, Sweeps
<1> QED
  BY <1>3, <1>4, <1>6, OneRun

----------------------------------------------------------------------------
(* One REST call.                                                          *)

LEMMA EnsureStep ==
    ASSUME ProvInv, NEW r \in Runs, Ensure(r)
    PROVE  ProvInv'
<1> DEFINE lack == Missing(Layout[pos[r]])
<1>1. /\ pc[r] = "ensure" /\ doomed[r] = {} /\ oper[r] \in {"setup", "setRoute"}
      /\ pos[r] \in 1..Len(Layout) /\ pos[r] \in Places
  BY DEF ProvInv, ProvTypeOK, Ensure, RunOK, Sweeps
<1>2. UNCHANGED <<objects, oper, doomed, entry, made>>
  BY DEF Ensure
<1>3. lack \subseteq 1..Len(Layout[pos[r]].items) /\ lack \subseteq Nat
  BY DEF Missing
<1>4. CASE Answered /\ StepDone(r) /\ UNCHANGED missing
  <2>1. ProvTypeOK'
    BY <1>1, <1>2, <1>4, StepDoneFacts DEF ProvInv, ProvTypeOK, Answered
  <2>2. RunOK(r)' /\ DoomedOK(r)'
    BY <1>1, <1>2, <1>4, StepDoneFacts DEF RunOK, DoomedOK, Sweeps
  <2>3. \A q \in Runs \ {r} : SameRun(q)
    BY <1>1, <1>2, <1>4, StepDoneFacts DEF SameRun
  <2> QED
    BY <2>1, <2>2, <2>3, OneRun
<1>5. CASE /\ Answered /\ lack # {} /\ missing' = [missing EXCEPT ![r] = lack]
           /\ Goto(r, "create", pos[r]) /\ UNCHANGED failed
  <2>1. ProvTypeOK'
    BY <1>1, <1>2, <1>3, <1>5 DEF ProvInv, ProvTypeOK, Answered, Goto, RunPcs
  <2>2. RunOK(r)' /\ DoomedOK(r)'
    BY <1>1, <1>2, <1>3, <1>5 DEF ProvInv, ProvTypeOK, RunOK, DoomedOK, Sweeps, Goto
  <2>3. \A q \in Runs \ {r} : SameRun(q)
    BY <1>2, <1>5 DEF ProvInv, ProvTypeOK, SameRun, Goto
  <2> QED
    BY <2>1, <2>2, <2>3, OneRun
<1>6. CASE Fault /\ StepFails(r) /\ UNCHANGED missing
  <2>1. ProvTypeOK'
    BY <1>1, <1>2, <1>6, StepFailsFacts, LimitsAssumption DEF ProvInv, ProvTypeOK, Fault
  <2>2. RunOK(r)' /\ DoomedOK(r)'
    BY <1>1, <1>2, <1>6, StepFailsFacts, LayoutFacts DEF RunOK, DoomedOK, Sweeps
  <2>3. \A q \in Runs \ {r} : SameRun(q)
    BY <1>1, <1>2, <1>6, StepFailsFacts DEF SameRun
  <2> QED
    BY <2>1, <2>2, <2>3, OneRun
<1> QED
  BY <1>4, <1>5, <1>6 DEF Ensure

LEMMA CheckStep ==
    ASSUME ProvInv, NEW r \in Runs, Check(r)
    PROVE  ProvInv'
<1>1. /\ pc[r] = "check" /\ doomed[r] = {} /\ oper[r] = "add" /\ entry[r] \in Entries
      /\ pos[r] \in Places
  BY DEF ProvInv, ProvTypeOK, Check, RunOK, Sweeps
<1>2. UNCHANGED <<objects, oper, doomed, entry, made>>
  BY DEF Check
<1>3. CASE (Answered \/ Fault) /\ StepFails(r) /\ UNCHANGED missing
  <2>1. ProvTypeOK'
    BY <1>1, <1>2, <1>3, StepFailsFacts, LimitsAssumption
    DEF ProvInv, ProvTypeOK, Fault, Answered
  <2>2. RunOK(r)' /\ DoomedOK(r)'
    BY <1>1, <1>2, <1>3, StepFailsFacts DEF RunOK, DoomedOK, Sweeps
  <2>3. \A q \in Runs \ {r} : SameRun(q)
    BY <1>1, <1>2, <1>3, StepFailsFacts DEF SameRun
  <2> QED
    BY <2>1, <2>2, <2>3, OneRun
<1>4. CASE /\ Answered /\ missing' = [missing EXCEPT ![r] = {1}]
           /\ Goto(r, "create", pos[r]) /\ UNCHANGED failed
  <2>1. ProvTypeOK'
    BY <1>1, <1>2, <1>4 DEF ProvInv, ProvTypeOK, Answered, Goto, RunPcs
  <2>2. RunOK(r)' /\ DoomedOK(r)'
    BY <1>1, <1>2, <1>4 DEF ProvInv, ProvTypeOK, RunOK, DoomedOK, Sweeps, Goto
  <2>3. \A q \in Runs \ {r} : SameRun(q)
    BY <1>2, <1>4 DEF ProvInv, ProvTypeOK, SameRun, Goto
  <2> QED
    BY <2>1, <2>2, <2>3, OneRun
<1> QED
  BY <1>3, <1>4 DEF Check

(* A PUT adds nothing but objects of the model.                            *)
LEMMA CreateStep ==
    ASSUME ProvInv, NEW r \in Runs, Create(r)
    PROVE  ProvInv'
<1>1. /\ pc[r] = "create" /\ doomed[r] = {} /\ pos[r] \in Places /\ missing[r] \subseteq Nat
      /\ RunOK(r) /\ ProvTypeOK
  BY DEF ProvInv, ProvTypeOK, Create, RunOK, Sweeps
<1>2. UNCHANGED <<oper, doomed, entry>>
  BY DEF Create
<1>3. \A o \in New(r) : o \in Objects
  BY <1>1, WantedFacts
<1>4. /\ objects' \subseteq Objects
      /\ made' \in [Runs -> SUBSET Objects]
      /\ \E m \in SUBSET missing[r] : missing' = [missing EXCEPT ![r] = m]
  BY <1>1, <1>3 DEF Create, Place, ProvTypeOK
<1>5. /\ missing' \in [Runs -> SUBSET Nat]
      /\ missing'[r] \subseteq missing[r]
      /\ \A q \in Runs \ {r} : missing'[q] = missing[q]
  BY <1>1, <1>4 DEF ProvTypeOK
<1>6. CASE Answered /\ StepDone(r)
  <2>1. ProvTypeOK'
    BY <1>1, <1>2, <1>4, <1>5, <1>6, StepDoneFacts DEF ProvTypeOK, Answered
  <2>2. RunOK(r)' /\ DoomedOK(r)'
    BY <1>1, <1>2, <1>6, StepDoneFacts DEF RunOK, DoomedOK, Sweeps
  <2>3. \A q \in Runs \ {r} : SameRun(q)
    BY <1>1, <1>2, <1>5, <1>6, StepDoneFacts DEF SameRun
  <2> QED
    BY <2>1, <2>2, <2>3, OneRun
<1>7. CASE /\ Answered /\ UNCHANGED <<pc, pos, failed>>
           /\ missing' = [missing EXCEPT ![r] = @ \ {First(@)}]
           /\ missing[r] # {First(missing[r])}
  <2>1. ProvTypeOK'
    BY <1>1, <1>2, <1>4, <1>5, <1>7 DEF ProvTypeOK, Answered
  <2>2. missing'[r] # {}
    BY <1>1, <1>7 DEF ProvTypeOK, RunOK
  <2>3. RunOK(r)' /\ DoomedOK(r)'
    BY <1>1, <1>2, <1>5, <1>7, <2>2 DEF RunOK, DoomedOK, Sweeps
  <2>4. \A q \in Runs \ {r} : SameRun(q)
    BY <1>2, <1>5, <1>7 DEF SameRun
  <2> QED
    BY <2>1, <2>3, <2>4, OneRun
<1>8. CASE Fault /\ StepFails(r)
  <2>1. ProvTypeOK'
    BY <1>1, <1>2, <1>4, <1>5, <1>8, StepFailsFacts, LimitsAssumption DEF ProvTypeOK, Fault
  <2>2. RunOK(r)' /\ DoomedOK(r)'
    BY <1>1, <1>2, <1>8, StepFailsFacts, LayoutFacts DEF RunOK, DoomedOK, Sweeps
  <2>3. \A q \in Runs \ {r} : SameRun(q)
    BY <1>1, <1>2, <1>5, <1>8, StepFailsFacts DEF SameRun
  <2> QED
    BY <2>1, <2>2, <2>3, OneRun
<1> QED
  BY <1>6, <1>7, <1>8 DEF Create

(* What a listing dooms: nothing of an operator's but for a teardown.      *)
LEMMA TargetsFacts ==
    ASSUME ProvInv, NEW r \in Runs, pc[r] \in Sweeps
    PROVE  /\ Targets(r) \subseteq objects
           /\ \A o \in Targets(r) : o.kind \in Protected => oper[r] \in {"teardown", "remove"}
<1> SUFFICES ASSUME NEW o \in Targets(r), o.kind \in Protected
             PROVE  oper[r] \in {"teardown", "remove"}
  BY DEF Targets
<1>1. CASE pc[r] = "rollback" /\ o.kind \in Applied(r)
  <2>1. PICK i \in 1..(failed[r] - 1) : o.kind = Layout[i].kind
    BY <1>1 DEF Applied
  <2>2. failed[r] \in 1..Len(Layout)
    BY <1>1 DEF ProvInv, RunOK
  <2>3. Layout[i] \in Elements(SetupSteps)
    BY <2>1, <2>2, LayoutFacts
  <2> QED
    BY <2>1, <2>3, StepFacts
<1>2. CASE pc[r] = "teardown"
  BY <1>2 DEF ProvInv, RunOK
<1>3. CASE o.kind \in {"legacy", "default-route"}
  BY <1>3 DEF Protected, OperatorKinds
<1>4. \/ pc[r] = "rollback" /\ o.kind \in Applied(r)
      \/ pc[r] = "teardown"
      \/ o.kind \in {"legacy", "default-route"}
  BY DEF Targets
<1> QED
  BY <1>1, <1>2, <1>3, <1>4

LEMMA ListStep ==
    ASSUME ProvInv, NEW r \in Runs, List(r)
    PROVE  ProvInv'
<1>1. /\ pc[r] \in Sweeps /\ doomed[r] = {} /\ RunOK(r) /\ ProvTypeOK
  BY DEF ProvInv, List
<1>2. UNCHANGED <<objects, oper, missing, entry, made>>
  BY DEF List
<1>3. CASE Answered /\ PathDone(r) /\ UNCHANGED doomed
  <2>1. ProvTypeOK'
    BY <1>1, <1>2, <1>3, PathDoneFacts DEF ProvTypeOK, Answered
  <2>2. RunOK(r)' /\ DoomedOK(r)'
    BY <1>1, <1>2, <1>3, PathDoneFacts, LayoutFacts DEF RunOK, DoomedOK, Sweeps
  <2>3. \A q \in Runs \ {r} : SameRun(q)
    BY <1>1, <1>2, <1>3, PathDoneFacts DEF SameRun
  <2> QED
    BY <2>1, <2>2, <2>3, OneRun
<1>4. CASE /\ Answered /\ doomed' = [doomed EXCEPT ![r] = Targets(r)]
           /\ UNCHANGED <<pc, pos, failed>>
  <2>1. /\ Targets(r) \subseteq Objects
        /\ doomed' \in [Runs -> SUBSET Objects] /\ doomed'[r] = Targets(r)
        /\ \A q \in Runs \ {r} : doomed'[q] = doomed[q]
    BY <1>1, <1>4, TargetsFacts DEF ProvTypeOK
  <2>2. ProvTypeOK'
    BY <1>1, <1>2, <1>4, <2>1 DEF ProvTypeOK, Answered
  <2>3. RunOK(r)'
    BY <1>1, <1>2, <1>4 DEF RunOK
  <2>4. DoomedOK(r)'
    BY <1>1, <1>2, <2>1, TargetsFacts DEF DoomedOK, Protected
  <2>5. \A q \in Runs \ {r} : SameRun(q)
    BY <1>2, <1>4, <2>1 DEF SameRun
  <2> QED
    BY <2>2, <2>3, <2>4, <2>5, OneRun
<1>5. CASE Fault /\ SweepFails(r) /\ UNCHANGED doomed
  <2>1. ProvTypeOK'
    BY <1>1, <1>2, <1>5, SweepFailsFacts, LimitsAssumption DEF ProvTypeOK, Fault
  <2>2. RunOK(r)' /\ DoomedOK(r)'
    BY <1>1, <1>2, <1>5, SweepFailsFacts, LayoutFacts DEF RunOK, DoomedOK, Sweeps
  <2>3. \A q \in Runs \ {r} : SameRun(q)
    BY <1>1, <1>2, <1>5, SweepFailsFacts DEF SameRun
  <2> QED
    BY <2>1, <2>2, <2>3, OneRun
<1> QED
  BY <1>3, <1>4, <1>5 DEF List

LEMMA DeleteStep ==
    ASSUME ProvInv, NEW r \in Runs, Delete(r)
    PROVE  ProvInv'
<1>1. pc[r] \in Sweeps /\ RunOK(r) /\ DoomedOK(r) /\ ProvTypeOK
  BY DEF ProvInv, Delete
<1>2. UNCHANGED <<oper, missing, entry, made>>
  BY DEF Delete
<1>3. PICK o \in doomed[r] :
         \/ /\ Answered
            /\ objects' = objects \ {o}
            /\ doomed' = [doomed EXCEPT ![r] = @ \ {o}]
            /\ IF doomed[r] = {o} THEN PathDone(r) ELSE UNCHANGED <<pc, pos, failed>>
         \/ /\ Answered \/ Fault
            /\ objects' \in {objects, objects \ {o}}
            /\ doomed' = [doomed EXCEPT ![r] = {}]
            /\ SweepFails(r)
  BY DEF Delete
<1>4. /\ objects' \subseteq Objects
      /\ doomed' \in [Runs -> SUBSET Objects]
      /\ doomed'[r] \subseteq doomed[r]
      /\ \A q \in Runs \ {r} : doomed'[q] = doomed[q]
      /\ faults' \in 0..MaxFaults
  BY <1>1, <1>3, LimitsAssumption DEF ProvTypeOK, Answered, Fault
<1>5. CASE PathDone(r) /\ doomed'[r] = {}
  <2>1. ProvTypeOK'
    BY <1>1, <1>2, <1>4, <1>5, PathDoneFacts DEF ProvTypeOK
  <2>2. RunOK(r)' /\ DoomedOK(r)'
    BY <1>1, <1>2, <1>5, PathDoneFacts, LayoutFacts DEF RunOK, DoomedOK, Sweeps
  <2>3. \A q \in Runs \ {r} : SameRun(q)
    BY <1>1, <1>2, <1>4, <1>5, PathDoneFacts DEF SameRun
  <2> QED
    BY <2>1, <2>2, <2>3, OneRun
<1>6. CASE UNCHANGED <<pc, pos, failed>>
  <2>1. ProvTypeOK'
    BY <1>1, <1>2, <1>4, <1>6 DEF ProvTypeOK
  <2>2. RunOK(r)' /\ DoomedOK(r)'
    BY <1>1, <1>2, <1>4, <1>6 DEF RunOK, DoomedOK
  <2>3. \A q \in Runs \ {r} : SameRun(q)
    BY <1>2, <1>4, <1>6 DEF SameRun
  <2> QED
    BY <2>1, <2>2, <2>3, OneRun
<1>7. CASE SweepFails(r) /\ doomed'[r] = {}
  <2>1. ProvTypeOK'
    BY <1>1, <1>2, <1>4, <1>7, SweepFailsFacts DEF ProvTypeOK
  <2>2. RunOK(r)' /\ DoomedOK(r)'
    BY <1>1, <1>2, <1>7, SweepFailsFacts, LayoutFacts DEF RunOK, DoomedOK, Sweeps
  <2>3. \A q \in Runs \ {r} : SameRun(q)
    BY <1>1, <1>2, <1>4, <1>7, SweepFailsFacts DEF SameRun
  <2> QED
    BY <2>1, <2>2, <2>3, OneRun
<1> QED
  BY <1>1, <1>3, <1>5, <1>6, <1>7 DEF ProvTypeOK

(* The operation ends or is dropped.                                       *)
LEMMA ForgetStep ==
    ASSUME ProvInv, NEW r \in Runs, Forget(r), UNCHANGED <<faults, oper>>,
           objects' \subseteq Objects
    PROVE  ProvInv'
<1>1. ProvTypeOK'
  BY LayoutFacts DEF ProvInv, ProvTypeOK, Forget, Goto, RunPcs, Places
<1>2. RunOK(r)' /\ DoomedOK(r)'
  BY DEF ProvInv, ProvTypeOK, RunOK, DoomedOK, Forget, Goto, Sweeps
<1>3. \A q \in Runs \ {r} : SameRun(q)
  BY DEF ProvInv, ProvTypeOK, SameRun, Forget, Goto
<1> QED
  BY <1>1, <1>2, <1>3, OneRun

LEMMA AbandonStep ==
    ASSUME ProvInv, NEW r \in Runs, Abandon(r)
    PROVE  ProvInv'
<1>1. ProvTypeOK /\ RunOK(r)
  BY DEF ProvInv
<1>2. CASE objects' \subseteq objects
  BY <1>1, <1>2, ForgetStep DEF Abandon, ProvTypeOK
<1>3. CASE pc[r] = "create" /\ \E o \in New(r) : objects' = objects \cup {o}
  <2>1. objects' \subseteq Objects
    BY <1>1, <1>3, WantedFacts DEF ProvTypeOK
  <2> QED
    BY <2>1, ForgetStep DEF Abandon
<1> QED
  BY <1>2, <1>3 DEF Abandon

LEMMA NextOK == ASSUME ProvInv, ProvNext PROVE ProvInv'
<1> PICK r \in Runs : Begin(r) \/ Call(r) \/ Report(r) \/ Abandon(r)
  BY DEF ProvNext
<1>1. CASE Begin(r)
  BY <1>1, BeginStep
<1>2. CASE Call(r)
  BY <1>2, EnsureStep, CheckStep, CreateStep, ListStep, DeleteStep DEF Call
<1>3. CASE Report(r)
  BY <1>3, ForgetStep DEF Report, ProvInv, ProvTypeOK
<1>4. CASE Abandon(r)
  BY <1>4, AbandonStep
<1> QED
  BY <1>1, <1>2, <1>3, <1>4

LEMMA StutterOK == ASSUME ProvInv, UNCHANGED rvars PROVE ProvInv'
<1>1. ProvTypeOK'
  BY DEF ProvInv, ProvTypeOK, rvars
<1>2. \A r \in Runs : SameRun(r)
  BY DEF SameRun, rvars
<1> QED
  BY <1>1, <1>2, OthersOK DEF ProvInv

LEMMA Invariance == ProvSpec => []ProvInv
<1>1. ProvInv /\ [ProvNext]_rvars => ProvInv'
  BY NextOK, StutterOK
<1> QED
  BY <1>1, InitOK, PTL DEF ProvSpec

(* Whatever layout, runs, requests and failures: the router's objects and  *)
(* the bookkeeping of every run keep their types.                          *)
THEOREM ProvTypeCorrect == ProvSpec => []ProvTypeOK
<1>1. ProvInv => ProvTypeOK
  BY DEF ProvInv
<1> QED
  BY <1>1, Invariance, PTL

(* A step of a run deletes an operator's entry, or an object that is not   *)
(* ours, only where that run tears down or removes it.                     *)
LEMMA EntriesKept ==
    ASSUME ProvInv, ProvNext, NEW o \in objects \ objects',
           o.kind \in OperatorKinds \cup {"foreign"}
    PROVE  \E r \in Runs : o \in doomed[r] /\ oper[r] \in {"teardown", "remove"}
<1>1. PICK r \in Runs : Begin(r) \/ Call(r) \/ Report(r) \/ Abandon(r)
  BY DEF ProvNext
<1>2. o \in doomed[r]
  <2>1. CASE Begin(r)
    BY <2>1 DEF Begin
  <2>2. CASE Ensure(r) \/ Check(r) \/ List(r) \/ Report(r)
    BY <2>2 DEF Ensure, Check, List, Report
  <2>3. CASE Create(r)
    BY <2>3 DEF Create, Place
  <2>4. CASE Delete(r)
    BY <2>4 DEF Delete
  <2>5. CASE Abandon(r)
    BY <2>5 DEF Abandon
  <2> QED
    BY <1>1, <2>1, <2>2, <2>3, <2>4, <2>5 DEF Call
<1>3. DoomedOK(r)
  BY DEF ProvInv
<1> QED
  BY <1>2, <1>3 DEF DoomedOK

(* Only a teardown or an explicit removal ever deletes an operator's       *)
(* entry, or an object that is not ours: setup, its migration sweep, its   *)
(* rollback and the reconciler's route control delete neither, however     *)
(* many requests overlap and wherever they fail or are dropped.            *)
THEOREM EntriesSurvive == ProvSpec => OperatorEntriesSurvive
<1> DEFINE Survive == \A o \in objects \ objects' :
                         o.kind \in OperatorKinds \cup {"foreign"} =>
                           \E r \in Runs : o \in doomed[r] /\ oper[r] \in {"teardown", "remove"}
<1>1. ProvInv /\ [ProvNext]_rvars => [Survive]_rvars
  BY EntriesKept
<1> QED
  BY <1>1, Invariance, PTL DEF ProvSpec, OperatorEntriesSurvive

----------------------------------------------------------------------------
(* With one request at a time a report of success is true.  Two things     *)
(* hold of the router all along: setup's objects lie where setup puts      *)
(* them, and none lies there twice.  Three hold of the request at work:    *)
(* setup has got through the steps before its present one; the items it    *)
(* has still to create are not there, the others of the step are; and      *)
(* teardown has left nothing of ours on the paths it has swept, nor on the *)
(* present one but what it is about to delete.                             *)
(*                                                                         *)
(* Kinds that someone else adds and removes meanwhile are spared all this: *)
(* none when the request is alone, the default route when the reconciler   *)
(* works beside it (DataPlaneProofs).                                      *)

Where(held) ==
    \A o \in held, s \in Elements(SetupSteps) : o.kind = s.kind => o.path = s.path
Twinless(held, spared) ==
    \A a, b \in held : a.kind \in StepKinds \ spared /\ a.kind = b.kind /\ a.item = b.item => a = b

StepThere(s, spared) ==
    s.kind \in spared \/ \A j \in 1..Len(s.items) : Present(s, s.items[j])
Lacks(s, j) == \A o \in objects : ~(o.kind = s.kind /\ o.item = s.items[j])
Ours(o, spared) == IsManaged(o) /\ o.kind \notin spared

SetupHolds(r, spared) ==
    oper[r] = "setup" =>
       /\ pc[r] \in {"ensure", "create"} =>
             \A i \in 1..(pos[r] - 1) : StepThere(Layout[i], spared)
       /\ pc[r] = "report" /\ failed[r] = 0 =>
             \A i \in 1..Len(Layout) : StepThere(Layout[i], spared)
CreateHolds(r, spared) ==
    pc[r] = "create" /\ oper[r] # "add" /\ Layout[pos[r]].kind \notin spared =>
       \A j \in 1..Len(Layout[pos[r]].items) :
          IF j \in missing[r] THEN Lacks(Layout[pos[r]], j)
          ELSE Present(Layout[pos[r]], Layout[pos[r]].items[j])
TeardownHolds(r, spared) ==
    /\ pc[r] = "teardown" =>
          \A o \in objects : Ours(o, spared) =>
             /\ \E k \in pos[r]..Len(Paths) : o.path = Paths[k]
             /\ o.path = Paths[pos[r]] /\ doomed[r] # {} => o \in doomed[r]
    /\ pc[r] = "report" /\ oper[r] = "teardown" /\ failed[r] = 0 =>
          \A o \in objects : ~Ours(o, spared)

AloneInv(r, spared) ==
    /\ Where(objects) /\ Twinless(objects, spared)
    /\ SetupHolds(r, spared) /\ CreateHolds(r, spared) /\ TeardownHolds(r, spared)

(* What tells setup's steps apart: the kind says the path, and no step     *)
(* names an item twice.                                                    *)
LEMMA StepsApart ==
    /\ \A s, t \in Elements(SetupSteps) : s.kind = t.kind => s.path = t.path
    /\ \A s \in Elements(SetupSteps) : \A j, k \in 1..Len(s.items) :
          s.items[j] = s.items[k] => j = k
<1>1. \A s, t \in Elements(SetupSteps) : s.kind = t.kind => s.path = t.path
  BY DEF Elements, SetupSteps, Step
<1>2. \A s \in Elements(SetupSteps) : \A j, k \in 1..Len(s.items) :
          s.items[j] = s.items[k] => j = k
  <2> SUFFICES ASSUME NEW s \in Elements(SetupSteps),
                      NEW j \in 1..Len(s.items), NEW k \in 1..Len(s.items),
                      s.items[j] = s.items[k]
               PROVE  j = k
    OBVIOUS
  <2>1. \/ s.items = <<"vpn">> \/ s.items = <<"rule">>
        \/ s.items = <<"udp", "tcp">> \/ s.items = <<"tcp", "udp">>
        \/ s.items = <<"192.168", "172.16", "10">>
    <3>1. PICK i \in 1..10 : s = SetupSteps[i]
      BY DEF Elements, SetupSteps
    <3>2. CASE i \in {1, 2, 3, 4, 5, 6, 9}
      BY <3>1, <3>2 DEF SetupSteps, Step
    <3>3. CASE i \in {7, 8, 10}
      BY <3>1, <3>3 DEF SetupSteps, Step
    <3> QED
      BY <3>2, <3>3
  <2>2. CASE s.items = <<"vpn">> \/ s.items = <<"rule">>
    BY <2>2
  <2>3. CASE s.items = <<"udp", "tcp">>
    BY <2>3
  <2>4. CASE s.items = <<"tcp", "udp">>
    BY <2>4
  <2>5. CASE s.items = <<"192.168", "172.16", "10">>
    BY <2>5
  <2> QED
    BY <2>1, <2>2, <2>3, <2>4, <2>5
<1> QED
  BY <1>1, <1>2

(* What a run creates: the first item its step lacks, or an operator's     *)
(* entry.                                                                  *)
LEMMA NewFacts ==
    ASSUME NEW r \in Runs, ProvTypeOK, RunOK(r), pc[r] = "create", NEW o \in New(r)
    PROVE  \/ oper[r] = "add" /\ o.kind \in OperatorKinds
           \/ /\ oper[r] # "add"
              /\ First(missing[r]) \in missing[r]
              /\ missing[r] \subseteq 1..Len(Layout[pos[r]].items)
              /\ pos[r] \in 1..Len(Layout)
              /\ o.path = Layout[pos[r]].path /\ o.kind = Layout[pos[r]].kind
              /\ o.item = Layout[pos[r]].items[First(missing[r])]
<1>1. PICK n : o = Object(Wanted(r), n)
  BY DEF New
<1>2. CASE oper[r] = "add"
  <2>1. entry[r] \in Entries
    BY <1>2 DEF RunOK
  <2> QED
    BY <1>1, <1>2, <2>1, EntriesAssumption DEF Wanted, Object
<1>3. CASE oper[r] # "add"
  <2>1. /\ pos[r] \in 1..Len(Layout)
        /\ missing[r] # {}
        /\ missing[r] \subseteq 1..Len(Layout[pos[r]].items)
    BY <1>3 DEF RunOK
  <2>2. Layout[pos[r]] \in Elements(SetupSteps)
    BY <2>1, LayoutFacts
  <2>3. First(missing[r]) \in missing[r]
    BY <2>1, <2>2, StepFacts, FirstIsIn
  <2> QED
    BY <1>1, <1>3, <2>1, <2>3 DEF Wanted, Object
<1> QED
  BY <1>2, <1>3

(* A PUT puts an object where it belongs, and beside no twin.              *)
LEMMA PlaceKeeps ==
    ASSUME NEW r \in Runs, NEW spared, ProvTypeOK, RunOK(r), pc[r] = "create", NEW o \in New(r),
           Where(objects), Twinless(objects, spared), CreateHolds(r, spared)
    PROVE  Where(objects \cup {o}) /\ Twinless(objects \cup {o}, spared)
<1>1. CASE oper[r] = "add" /\ o.kind \in OperatorKinds
  <2>1. \A s \in Elements(SetupSteps) : o.kind # s.kind
    BY <1>1, StepFacts DEF Protected
  <2>2. o.kind \notin StepKinds
    BY <2>1 DEF StepKinds
  <2> QED
    BY <2>1, <2>2 DEF Where, Twinless
<1>2. CASE oper[r] # "add"
  <2> DEFINE s == Layout[pos[r]]
             j == First(missing[r])
  <2>1. /\ j \in missing[r] /\ missing[r] \subseteq 1..Len(s.items)
        /\ pos[r] \in 1..Len(Layout)
        /\ o.path = s.path /\ o.kind = s.kind /\ o.item = s.items[j]
    BY <1>2, NewFacts
  <2>2. s \in Elements(SetupSteps)
    BY <2>1, LayoutFacts
  <2>3. s.kind \in spared \/ Lacks(s, j)
    BY <1>2, <2>1 DEF CreateHolds
  <2>4. Where(objects \cup {o})
    BY <2>1, <2>2, StepsApart DEF Where
  <2>5. o.kind \in spared \/ \A a \in objects : ~(a.kind = o.kind /\ a.item = o.item)
    BY <2>1, <2>3 DEF Lacks
  <2> QED
    BY <2>4, <2>5 DEF Twinless
<1> QED
  BY <1>1, <1>2, NewFacts

(* Objects that vanish cost the router neither.                            *)
LEMMA FewerKeep ==
    ASSUME NEW spared, NEW more,
           NEW less, less \subseteq more, Where(more), Twinless(more, spared)
    PROVE  Where(less) /\ Twinless(less, spared)
BY DEF Where, Twinless

(* The route to a place where nothing is claimed of the request.           *)
LEMMA NothingClaimed ==
    ASSUME NEW r \in Runs, NEW spared, UNCHANGED oper,
           \/ pc'[r] \notin {"ensure", "create", "teardown", "report"}
           \/ pc'[r] = "report" /\ failed'[r] # 0
           \/ pc'[r] = "ensure" /\ pos'[r] = 1
    PROVE  SetupHolds(r, spared)' /\ CreateHolds(r, spared)' /\ TeardownHolds(r, spared)'
<1>1. SetupHolds(r, spared)'
  BY DEF SetupHolds
<1> QED
  BY <1>1 DEF CreateHolds, TeardownHolds

(* StepDone: what is there up to the present step is there up to the next. *)
LEMMA DoneClaim ==
    ASSUME ProvInv, NEW r \in Runs, NEW spared, AloneInv(r, spared),
           pc[r] \in {"ensure", "create"}, StepDone(r), UNCHANGED oper, oper[r] # "teardown",
           oper[r] = "setup" => \A i \in 1..pos[r] : StepThere(Layout[i], spared)'
    PROVE  SetupHolds(r, spared)' /\ CreateHolds(r, spared)' /\ TeardownHolds(r, spared)'
<1>1. oper[r] = "setup" => pos[r] \in 1..Len(Layout)
  BY DEF ProvInv, RunOK
<1>2. Len(Layout) \in Nat
  BY LayoutFacts
<1>3. /\ pos[r] < Len(Layout) /\ oper[r] = "setup" => pc'[r] = "ensure" /\ pos'[r] = pos[r] + 1
      /\ ~(pos[r] < Len(Layout) /\ oper[r] = "setup") => pc'[r] = "report"
  BY DEF ProvInv, ProvTypeOK, StepDone, Goto
<1>4. CASE oper[r] = "setup" /\ pos[r] < Len(Layout)
  <2>0. pos[r] \in Nat /\ pos'[r] = pos[r] + 1 /\ pc'[r] = "ensure"
    BY <1>1, <1>3, <1>4
  <2>1. pc'[r] = "ensure" /\ pos'[r] - 1 = pos[r]
    BY <2>0
  <2>2. \A i \in 1..(pos'[r] - 1) : StepThere(Layout[i], spared)'
    BY <1>4, <2>1
  <2>3. SetupHolds(r, spared)'
    BY <2>1, <2>2 DEF SetupHolds
  <2> QED
    BY <2>1, <2>3 DEF CreateHolds, TeardownHolds
<1>5. CASE oper[r] = "setup" /\ ~(pos[r] < Len(Layout))
  <2>1. pc'[r] = "report" /\ pos[r] = Len(Layout)
    BY <1>1, <1>2, <1>3, <1>5
  <2>2. SetupHolds(r, spared)'
    BY <1>5, <2>1 DEF SetupHolds
  <2> QED
    BY <1>5, <2>1, <2>2 DEF CreateHolds, TeardownHolds
<1>6. CASE oper[r] # "setup"
  <2>1. pc'[r] = "report"
    BY <1>3, <1>6
  <2> QED
    BY <1>6, <2>1 DEF SetupHolds, CreateHolds, TeardownHolds
<1> QED
  BY <1>4, <1>5, <1>6

(* A failed call leaves nothing claimed.                                   *)
LEMMA FailedClaim ==
    ASSUME ProvInv, NEW r \in Runs, NEW spared, UNCHANGED oper,
           \/ pc[r] \in {"ensure", "check", "create"} /\ StepFails(r)
           \/ pc[r] \in Sweeps /\ SweepFails(r)
    PROVE  SetupHolds(r, spared)' /\ CreateHolds(r, spared)' /\ TeardownHolds(r, spared)'
<1>1. pos[r] \in Nat \ {0}
  BY LayoutFacts DEF ProvInv, ProvTypeOK, Places
<1>2. CASE pc[r] \in {"ensure", "check", "create"} /\ StepFails(r)
  <2>1. failed'[r] = pos[r] /\ pc'[r] \in {"rollback", "report"}
    BY <1>2 DEF ProvInv, ProvTypeOK, StepFails, Goto
  <2> QED
    BY <1>1, <2>1, NothingClaimed
<1>3. CASE pc[r] \in Sweeps /\ SweepFails(r)
  <2>1. CASE pc[r] = "migrate"
    <3>1. pc'[r] = "ensure" /\ pos'[r] = 1
      BY <1>3, <2>1 DEF ProvInv, ProvTypeOK, SweepFails, Goto
    <3> QED
      BY <3>1, NothingClaimed
  <2>2. CASE pc[r] = "rollback"
    <3>1. pc'[r] = "report" /\ failed'[r] = failed[r] /\ failed[r] \in 1..Len(Layout)
      BY <1>3, <2>2 DEF ProvInv, ProvTypeOK, RunOK, SweepFails, Goto
    <3> QED
      BY <3>1, LayoutFacts, NothingClaimed
  <2>3. CASE pc[r] \notin {"migrate", "rollback"}
    <3>1. pc'[r] = "report" /\ failed'[r] = pos[r]
      BY <1>3, <2>3 DEF ProvInv, ProvTypeOK, SweepFails, Goto
    <3> QED
      BY <1>1, <3>1, NothingClaimed
  <2> QED
    BY <2>1, <2>2, <2>3
<1> QED
  BY <1>2, <1>3

(* A sweep is done with its path: what it promises of the paths behind it  *)
(* includes the present one.                                               *)
LEMMA PathClaim ==
    ASSUME ProvInv, NEW r \in Runs, NEW spared, pc[r] \in Sweeps, PathDone(r), UNCHANGED oper,
           doomed'[r] = {}, NEW left, objects' = left,
           pc[r] = "teardown" =>
              \A o \in left : Ours(o, spared) =>
                 /\ \E k \in pos[r]..Len(Paths) : o.path = Paths[k]
                 /\ o.path # Paths[pos[r]]
    PROVE  SetupHolds(r, spared)' /\ CreateHolds(r, spared)' /\ TeardownHolds(r, spared)'
<1>1. CASE pc[r] = "teardown"
  <2>1. pos[r] \in 1..6 /\ Len(Paths) = 6 /\ oper[r] = "teardown"
    BY <1>1, LayoutFacts DEF ProvInv, RunOK, Sweeps
  <2>2. CASE pos[r] < 6
    <3>1. pc'[r] = "teardown" /\ pos'[r] = pos[r] + 1
      BY <1>1, <2>1, <2>2 DEF ProvInv, ProvTypeOK, PathDone, Goto
    <3>2. ASSUME NEW o \in left, Ours(o, spared)
          PROVE  \E k \in (pos[r] + 1)..6 : o.path = Paths[k]
      <4>1. PICK k \in pos[r]..6 : o.path = Paths[k]
        BY <1>1, <2>1, <3>2
      <4>2. k # pos[r]
        BY <1>1, <3>2, <4>1
      <4> QED
        BY <2>1, <4>1, <4>2
    <3>3. TeardownHolds(r, spared)'
      BY <2>1, <3>1, <3>2 DEF TeardownHolds
    <3> QED
      BY <2>1, <3>1, <3>3 DEF SetupHolds, CreateHolds
  <2>3. CASE pos[r] = 6
    <3>1. pc'[r] = "report"
      BY <1>1, <2>1, <2>3 DEF ProvInv, ProvTypeOK, PathDone, Goto
    <3>2. \A o \in left : ~Ours(o, spared)
      <4> SUFFICES ASSUME NEW o \in left, Ours(o, spared) PROVE FALSE
        OBVIOUS
      <4>1. PICK k \in pos[r]..6 : o.path = Paths[k]
        BY <1>1, <2>1
      <4>2. k = pos[r]
        BY <2>3, <4>1
      <4> QED
        BY <1>1, <4>1, <4>2
    <3>3. TeardownHolds(r, spared)'
      BY <2>1, <3>1, <3>2 DEF TeardownHolds
    <3> QED
      BY <2>1, <3>1, <3>3 DEF SetupHolds, CreateHolds
  <2> QED
    BY <2>1, <2>2, <2>3
<1>2. CASE pc[r] = "migrate"
  <2>1. \/ pc'[r] = "migrate"
        \/ pc'[r] = "ensure" /\ pos'[r] = 1
    BY <1>2 DEF ProvInv, ProvTypeOK, PathDone, Goto
  <2> QED
    BY <2>1, NothingClaimed
<1>3. CASE pc[r] = "rollback"
  <2>1. /\ pc'[r] \in {"rollback", "report"} /\ failed'[r] = failed[r]
        /\ failed[r] \in 1..Len(Layout)
    BY <1>3 DEF ProvInv, ProvTypeOK, RunOK, PathDone, Goto
  <2> QED
    BY <2>1, LayoutFacts, NothingClaimed
<1>4. CASE pc[r] \in {"clear", "remove"}
  <2>1. pc'[r] = "report" /\ oper[r] \in {"clearRoute", "remove"}
    BY <1>4 DEF ProvInv, ProvTypeOK, RunOK, PathDone, Goto
  <2> QED
    BY <2>1 DEF SetupHolds, CreateHolds, TeardownHolds
<1> QED
  BY <1>1, <1>2, <1>3, <1>4 DEF Sweeps

LEMMA BeginAlone ==
    ASSUME ProvInv, NEW r \in Runs, NEW spared, AloneInv(r, spared), Begin(r)
    PROVE  AloneInv(r, spared)'
<1>1. objects' = objects /\ doomed[r] = {}
  BY DEF Begin, Setup, Teardown, AddEntry, RemoveEntry, Start, ProvInv, RunOK, Sweeps
<1>2. Where(objects)' /\ Twinless(objects, spared)'
  BY <1>1 DEF AloneInv
<1>3. CASE Setup(r) \/ AddEntry(r) \/ RemoveEntry(r)
  <2>1. pc'[r] \in {"migrate", "check", "remove"}
    BY <1>3 DEF ProvInv, ProvTypeOK, Setup, AddEntry, RemoveEntry, Start, Goto
  <2> QED
    BY <1>2, <2>1 DEF AloneInv, SetupHolds, CreateHolds, TeardownHolds
<1>4. CASE Teardown(r)
  <2>1. /\ pc'[r] = "teardown" /\ oper'[r] = "teardown" /\ pos'[r] = 1 /\ doomed'[r] = {}
    BY <1>1, <1>4 DEF ProvInv, ProvTypeOK, Teardown, Start, Goto
  <2>2. \A o \in objects : \E k \in 1..Len(Paths) : o.path = Paths[k]
    BY DEF ProvInv, ProvTypeOK, Objects, Elements
  <2>3. TeardownHolds(r, spared)'
    BY <1>1, <2>1, <2>2 DEF TeardownHolds
  <2> QED
    BY <1>2, <2>1, <2>3 DEF AloneInv, SetupHolds, CreateHolds
<1> QED
  BY <1>3, <1>4 DEF Begin

LEMMA EnsureAlone ==
    ASSUME ProvInv, NEW r \in Runs, NEW spared, AloneInv(r, spared), Ensure(r)
    PROVE  AloneInv(r, spared)'
<1> DEFINE s == Layout[pos[r]]
<1>1. /\ pc[r] = "ensure" /\ oper[r] \in {"setup", "setRoute"} /\ pos[r] \in 1..Len(Layout)
      /\ UNCHANGED <<objects, oper>>
  BY DEF ProvInv, RunOK, Ensure
<1>2. Where(objects)' /\ Twinless(objects, spared)'
  BY <1>1 DEF AloneInv
<1>3. CASE Missing(s) = {} /\ StepDone(r)
  <2>1. StepThere(s, spared)
    BY <1>3 DEF Missing, StepThere
  <2>2. oper[r] = "setup" => \A i \in 1..pos[r] : StepThere(Layout[i], spared)
    <3> SUFFICES ASSUME oper[r] = "setup", NEW i \in 1..pos[r] PROVE StepThere(Layout[i], spared)
      OBVIOUS
    <3>1. CASE i = pos[r]
      BY <2>1, <3>1
    <3>2. CASE i # pos[r]
      <4>1. i \in 1..(pos[r] - 1)
        BY <1>1, <3>2, LayoutFacts
      <4> QED
        BY <1>1, <4>1 DEF AloneInv, SetupHolds
    <3> QED
      BY <3>1, <3>2
  <2>3. \A i \in 1..pos[r] : StepThere(Layout[i], spared)' <=> StepThere(Layout[i], spared)
    BY <1>1 DEF StepThere, Present
  <2>4. SetupHolds(r, spared)' /\ CreateHolds(r, spared)' /\ TeardownHolds(r, spared)'
    BY <1>1, <1>3, <2>2, <2>3, DoneClaim
  <2> QED
    BY <1>2, <2>4 DEF AloneInv
<1>4. CASE missing' = [missing EXCEPT ![r] = Missing(s)] /\ Goto(r, "create", pos[r])
  <2>1. /\ pc'[r] = "create" /\ pos'[r] = pos[r] /\ missing'[r] = Missing(s)
        /\ oper'[r] = oper[r] /\ objects' = objects
    BY <1>1, <1>4 DEF ProvInv, ProvTypeOK, Goto
  <2>2. s \in Elements(SetupSteps)
    BY <1>1, LayoutFacts
  <2>3. \A j \in Missing(s) : Lacks(s, j)
    <3> SUFFICES ASSUME NEW j \in Missing(s), NEW o \in objects,
                        o.kind = s.kind, o.item = s.items[j]
                 PROVE  FALSE
      BY DEF Lacks
    <3>1. o.path = s.path
      BY <2>2 DEF AloneInv, Where
    <3> QED
      BY <3>1 DEF Missing, Present
  <2>4. \A j \in 1..Len(s.items) : j \notin Missing(s) => Present(s, s.items[j])
    BY DEF Missing
  <2>5. CreateHolds(r, spared)'
    BY <2>1, <2>3, <2>4 DEF CreateHolds, Lacks, Present
  <2>6. SetupHolds(r, spared)'
    <3>1. oper[r] = "setup" => \A i \in 1..(pos[r] - 1) : StepThere(Layout[i], spared)
      BY <1>1 DEF AloneInv, SetupHolds
    <3>2. \A i \in 1..(pos[r] - 1) : StepThere(Layout[i], spared)' <=> StepThere(Layout[i], spared)
      BY <2>1 DEF StepThere, Present
    <3> QED
      BY <2>1, <3>1, <3>2 DEF SetupHolds
  <2> QED
    BY <1>2, <2>1, <2>5, <2>6 DEF AloneInv, TeardownHolds
<1>5. CASE StepFails(r)
  BY <1>1, <1>2, <1>5, FailedClaim DEF AloneInv
<1> QED
  BY <1>3, <1>4, <1>5 DEF Ensure

LEMMA CheckAlone ==
    ASSUME ProvInv, NEW r \in Runs, NEW spared, AloneInv(r, spared), Check(r)
    PROVE  AloneInv(r, spared)'
<1>1. pc[r] = "check" /\ oper[r] = "add" /\ UNCHANGED <<objects, oper>>
  BY DEF ProvInv, RunOK, Check
<1>2. Where(objects)' /\ Twinless(objects, spared)'
  BY <1>1 DEF AloneInv
<1>3. CASE StepFails(r)
  BY <1>1, <1>2, <1>3, FailedClaim DEF AloneInv
<1>4. CASE Goto(r, "create", pos[r])
  <2>1. pc'[r] = "create" /\ oper'[r] = "add"
    BY <1>1, <1>4 DEF ProvInv, ProvTypeOK, Goto
  <2> QED
    BY <1>2, <2>1 DEF AloneInv, SetupHolds, CreateHolds, TeardownHolds
<1> QED
  BY <1>3, <1>4 DEF Check

(* What is there stays there while objects are only added.                 *)
LEMMA MoreIsThere ==
    ASSUME objects \subseteq objects'
    PROVE  /\ \A s, x : Present(s, x) => Present(s, x)'
           /\ \A s, spared : StepThere(s, spared) => StepThere(s, spared)'
BY DEF Present, StepThere

LEMMA CreateAlone ==
    ASSUME ProvInv, NEW r \in Runs, NEW spared, AloneInv(r, spared), Create(r)
    PROVE  AloneInv(r, spared)'
<1>1. /\ pc[r] = "create" /\ ProvTypeOK /\ RunOK(r) /\ missing[r] # {}
      /\ UNCHANGED oper /\ objects \subseteq objects'
      /\ oper[r] # "teardown"
  BY DEF ProvInv, RunOK, Create, Place
<1>2. Where(objects)' /\ Twinless(objects, spared)'
  <2>1. objects' = objects \/ \E o \in New(r) : objects' = objects \cup {o}
    BY DEF Create, Place
  <2>2. \A o \in New(r) : Where(objects \cup {o}) /\ Twinless(objects \cup {o}, spared)
    BY <1>1, PlaceKeeps DEF AloneInv
  <2> QED
    BY <2>1, <2>2 DEF AloneInv
<1>3. CASE Fault /\ StepFails(r)
  BY <1>1, <1>2, <1>3, FailedClaim DEF AloneInv
<1>4. CASE Answered
  <2> DEFINE p == pos[r]
             j == First(missing[r])
  <2>1. PICK o \in New(r) : objects' = objects \cup {o}
    BY <1>4, <1>1 DEF Create, Place, Answered, Fault, ProvTypeOK
  <2>2. /\ missing' = [missing EXCEPT ![r] = @ \ {j}]
        /\ IF missing[r] = {j} THEN StepDone(r) ELSE UNCHANGED <<pc, pos, failed>>
    BY <1>4, <1>1 DEF Create, Answered, Fault, ProvTypeOK
  <2>3. missing'[r] = missing[r] \ {j}
    BY <1>1, <2>2 DEF ProvTypeOK
  <2>4. CASE oper[r] # "add"
    <3>1. /\ p \in 1..Len(Layout)
          /\ j \in missing[r] /\ missing[r] \subseteq 1..Len(Layout[p].items)
          /\ o.path = Layout[p].path /\ o.kind = Layout[p].kind
          /\ o.item = Layout[p].items[j]
      BY <1>1, <2>4, NewFacts
    <3>2. PICK q, k : q = pos[r] /\ k = First(missing[r])
      OBVIOUS
    <3>3. Layout[q] \in Elements(SetupSteps)
      BY <3>1, <3>2, LayoutFacts
    <3>4. Present(Layout[q], Layout[q].items[k])'
      BY <2>1, <3>1, <3>2 DEF Present
    <3>5. ASSUME Layout[q].kind \notin spared,
                 NEW n \in 1..Len(Layout[q].items), n \notin missing'[r]
          PROVE  Present(Layout[q], Layout[q].items[n])'
      <4>1. CASE n = k
        BY <3>4, <4>1
      <4>2. CASE n # k
        <5>1. n \notin missing[r]
          BY <2>3, <3>2, <3>5, <4>2
        <5>2. Present(Layout[q], Layout[q].items[n])
          BY <1>1, <2>4, <3>2, <3>5, <5>1 DEF AloneInv, CreateHolds
        <5> QED
          BY <1>1, <5>2, MoreIsThere
      <4> QED
        BY <4>1, <4>2
    <3>6. ASSUME Layout[q].kind \notin spared,
                 NEW n \in 1..Len(Layout[q].items), n \in missing'[r]
          PROVE  Lacks(Layout[q], n)'
      <4>1. n \in missing[r] /\ n # k
        BY <2>3, <3>2, <3>6
      <4>2. Lacks(Layout[q], n)
        BY <1>1, <2>4, <3>2, <3>6, <4>1 DEF AloneInv, CreateHolds
      <4>3. Layout[q].items[n] # Layout[q].items[k]
        BY <3>1, <3>2, <3>3, <4>1, StepsApart
      <4> QED
        BY <2>1, <3>1, <3>2, <4>2, <4>3 DEF Lacks
    <3>7. ASSUME oper[r] = "setup", NEW i \in 1..(q - 1) PROVE StepThere(Layout[i], spared)'
      <4>1. StepThere(Layout[i], spared)
        BY <1>1, <3>2, <3>7 DEF AloneInv, SetupHolds
      <4> QED
        BY <1>1, <4>1, MoreIsThere
    <3>8. CASE missing[r] = {j}
      <4>1. missing'[r] = {}
        BY <2>3, <3>8
      <4>2. StepThere(Layout[q], spared)'
        BY <3>5, <4>1 DEF StepThere
      <4>3. oper[r] = "setup" => \A i \in 1..q : StepThere(Layout[i], spared)'
        <5> SUFFICES ASSUME oper[r] = "setup", NEW i \in 1..q PROVE StepThere(Layout[i], spared)'
          OBVIOUS
        <5>1. i = q \/ i \in 1..(q - 1)
          BY <3>1, <3>2
        <5> QED
          BY <3>7, <4>2, <5>1
      <4>4. SetupHolds(r, spared)' /\ CreateHolds(r, spared)' /\ TeardownHolds(r, spared)'
        BY <1>1, <2>2, <3>2, <3>8, <4>3, DoneClaim
      <4> QED
        BY <1>2, <4>4 DEF AloneInv
    <3>9. CASE missing[r] # {j}
      <4>1. pc'[r] = "create" /\ pos'[r] = q
        BY <1>1, <2>2, <3>2, <3>9
      <4>2. CreateHolds(r, spared)'
        BY <3>5, <3>6, <4>1 DEF CreateHolds
      <4>3. SetupHolds(r, spared)'
        BY <1>1, <3>7, <4>1 DEF SetupHolds
      <4> QED
        BY <1>2, <4>1, <4>2, <4>3 DEF AloneInv, TeardownHolds
    <3> QED
      BY <3>8, <3>9
  <2>5. CASE oper[r] = "add"
    <3>1. pc'[r] \in {"create", "report"}
      BY <1>1, <2>2, <2>5 DEF ProvTypeOK, StepDone, Goto
    <3> QED
      BY <1>1, <1>2, <2>5, <3>1 DEF AloneInv, SetupHolds, CreateHolds, TeardownHolds
  <2> QED
    BY <2>4, <2>5
<1> QED
  BY <1>3, <1>4 DEF Create

LEMMA ListAlone ==
    ASSUME ProvInv, NEW r \in Runs, NEW spared, AloneInv(r, spared), List(r)
    PROVE  AloneInv(r, spared)'
<1>1. /\ pc[r] \in Sweeps /\ doomed[r] = {} /\ RunOK(r) /\ ProvTypeOK
      /\ UNCHANGED <<objects, oper>>
  BY DEF ProvInv, List
<1>2. Where(objects)' /\ Twinless(objects, spared)'
  BY <1>1 DEF AloneInv
<1>3. CASE Targets(r) = {} /\ PathDone(r) /\ UNCHANGED doomed
  <2>1. PICK left : left = objects /\ objects' = left
    BY <1>1
  <2>2. ASSUME pc[r] = "teardown", NEW o \in left, Ours(o, spared)
        PROVE  /\ \E k \in pos[r]..Len(Paths) : o.path = Paths[k]
               /\ o.path # Paths[pos[r]]
    BY <1>3, <2>1, <2>2 DEF AloneInv, TeardownHolds, Targets, Ours
  <2>3. doomed'[r] = {}
    BY <1>1, <1>3
  <2>4. SetupHolds(r, spared)' /\ CreateHolds(r, spared)' /\ TeardownHolds(r, spared)'
    BY <1>1, <1>3, <2>1, <2>2, <2>3, PathClaim
  <2> QED
    BY <1>2, <2>4 DEF AloneInv
<1>4. CASE doomed' = [doomed EXCEPT ![r] = Targets(r)] /\ UNCHANGED <<pc, pos, failed>>
  <2>1. /\ doomed'[r] = Targets(r) /\ pc'[r] = pc[r] /\ pos'[r] = pos[r]
        /\ objects' = objects
    BY <1>1, <1>4 DEF ProvTypeOK
  <2>2. ASSUME pc[r] = "teardown", NEW o \in objects, Ours(o, spared)
        PROVE  /\ \E k \in pos[r]..Len(Paths) : o.path = Paths[k]
               /\ o.path = Paths[pos[r]] => o \in Targets(r)
    BY <2>2 DEF AloneInv, TeardownHolds, Targets, Ours
  <2>3. TeardownHolds(r, spared)'
    BY <1>1, <2>1, <2>2 DEF TeardownHolds, Sweeps
  <2> QED
    BY <1>1, <1>2, <2>1, <2>3 DEF AloneInv, SetupHolds, CreateHolds, Sweeps
<1>5. CASE SweepFails(r)
  BY <1>1, <1>2, <1>5, FailedClaim DEF AloneInv
<1> QED
  BY <1>3, <1>4, <1>5 DEF List

LEMMA DeleteAlone ==
    ASSUME ProvInv, NEW r \in Runs, NEW spared, AloneInv(r, spared), Delete(r)
    PROVE  AloneInv(r, spared)'
<1>1. /\ pc[r] \in Sweeps /\ RunOK(r) /\ ProvTypeOK /\ UNCHANGED oper
      /\ objects' \subseteq objects
  BY DEF ProvInv, Delete
<1>2. Where(objects)' /\ Twinless(objects, spared)'
  BY <1>1, FewerKeep DEF AloneInv
<1>3. CASE SweepFails(r)
  BY <1>1, <1>2, <1>3, FailedClaim DEF AloneInv
<1>4. CASE ~SweepFails(r)
  <2>1. PICK o \in doomed[r] :
           /\ objects' = objects \ {o}
           /\ doomed' = [doomed EXCEPT ![r] = @ \ {o}]
           /\ IF doomed[r] = {o} THEN PathDone(r) ELSE UNCHANGED <<pc, pos, failed>>
    BY <1>4 DEF Delete
  <2>2. doomed'[r] = doomed[r] \ {o}
    BY <1>1, <2>1 DEF ProvTypeOK
  <2>3. CASE doomed[r] = {o}
    <3>1. PICK left : left = objects \ {o} /\ objects' = left
      BY <2>1
    <3>2. ASSUME pc[r] = "teardown", NEW x \in left, Ours(x, spared)
          PROVE  /\ \E k \in pos[r]..Len(Paths) : x.path = Paths[k]
                 /\ x.path # Paths[pos[r]]
      BY <2>3, <3>1, <3>2 DEF AloneInv, TeardownHolds
    <3>3. pc[r] = "teardown" =>
             \A x \in left : Ours(x, spared) =>
                /\ \E k \in pos[r]..Len(Paths) : x.path = Paths[k]
                /\ x.path # Paths[pos[r]]
      BY <3>2
    <3>4. PathDone(r) /\ doomed'[r] = {}
      BY <2>1, <2>2, <2>3
    <3>5. SetupHolds(r, spared)' /\ CreateHolds(r, spared)' /\ TeardownHolds(r, spared)'
      BY <1>1, <3>1, <3>3, <3>4, PathClaim
    <3> QED
      BY <1>2, <3>5 DEF AloneInv
  <2>4. CASE doomed[r] # {o}
    <3>1. pc'[r] = pc[r] /\ pos'[r] = pos[r]
      BY <2>1, <2>4
    <3>2. ASSUME pc[r] = "teardown", NEW x \in objects', Ours(x, spared)
          PROVE  /\ \E k \in pos[r]..Len(Paths) : x.path = Paths[k]
                 /\ x.path = Paths[pos[r]] => x \in doomed'[r]
      BY <2>1, <2>2, <3>2 DEF AloneInv, TeardownHolds
    <3>3. TeardownHolds(r, spared)'
      BY <1>1, <3>1, <3>2 DEF TeardownHolds, Sweeps
    <3> QED
      BY <1>1, <1>2, <3>1, <3>3 DEF AloneInv, SetupHolds, CreateHolds, Sweeps
  <2> QED
    BY <2>3, <2>4
<1> QED
  BY <1>3, <1>4

LEMMA AbandonAlone ==
    ASSUME ProvInv, NEW r \in Runs, NEW spared, AloneInv(r, spared), Report(r) \/ Abandon(r)
    PROVE  AloneInv(r, spared)'
<1>1. pc'[r] = "idle" /\ UNCHANGED oper
  BY DEF ProvInv, ProvTypeOK, Report, Abandon, Forget, Goto
<1>2. CASE objects' \subseteq objects
  <2>1. Where(objects)' /\ Twinless(objects, spared)'
    BY <1>2, FewerKeep DEF AloneInv
  <2> QED
    BY <1>1, <2>1, NothingClaimed DEF AloneInv
<1>3. CASE pc[r] = "create" /\ \E o \in New(r) : objects' = objects \cup {o}
  <2>1. Where(objects)' /\ Twinless(objects, spared)'
    BY <1>3, PlaceKeeps DEF AloneInv, ProvInv
  <2> QED
    BY <1>1, <2>1, NothingClaimed DEF AloneInv
<1> QED
  BY <1>2, <1>3 DEF Report, Abandon

(* What holds of a request makes its report true.                          *)
LEMMA AloneTellsTrue ==
    ASSUME NEW r \in Runs, NEW spared, AloneInv(r, spared), spared \subseteq {"default-route"},
           \A i \in 1..Len(Layout) : Layout[i].kind \in spared => i = RouteStep,
           \A q \in Runs \ {r} : pc[q] # "report" \/ oper[q] \notin {"setup", "teardown"}
    PROVE  ReportIsTrue
<1> SUFFICES ASSUME pc[r] = "report", failed[r] = 0
             PROVE  /\ oper[r] = "setup" =>
                         \A i \in (1..Len(Layout)) \ {RouteStep} :
                            LET s == Layout[i] IN
                            \A x \in Elements(s.items) :
                               /\ Present(s, x)
                               /\ Cardinality({o \in objects : o.kind = s.kind /\ o.item = x}) <= 1
                    /\ oper[r] = "teardown" =>
                         \A o \in objects : IsManaged(o) => o.kind = "default-route"
  BY DEF ReportIsTrue
<1>1. ASSUME oper[r] = "setup", NEW i \in 1..Len(Layout), Layout[i].kind \notin spared,
             NEW x \in Elements(Layout[i].items)
      PROVE  /\ Present(Layout[i], x)
             /\ Cardinality({o \in objects : o.kind = Layout[i].kind /\ o.item = x}) <= 1
  <2>1. PICK j \in 1..Len(Layout[i].items) : x = Layout[i].items[j]
    BY <1>1 DEF Elements
  <2>2. Present(Layout[i], x)
    BY <1>1, <2>1 DEF AloneInv, SetupHolds, StepThere
  <2> DEFINE Same == {o \in objects : o.kind = Layout[i].kind /\ o.item = x}
  <2>3. Layout[i].kind \in StepKinds
    BY LayoutFacts, StepFacts
  <2>4. \A a, b \in Same : a = b
    BY <1>1, <2>3 DEF AloneInv, Twinless
  <2>5. Same = {} \/ \E a : Same = {a}
    <3> HIDE DEF Same
    <3>1. CASE Same # {}
      <4>1. PICK a : a \in Same
        BY <3>1
      <4>2. Same = {a}
        BY <2>4, <4>1
      <4> QED
        BY <4>2
    <3> QED
      BY <3>1
  <2>6. Cardinality(Same) <= 1
    <3> HIDE DEF Same
    <3>1. CASE Same = {}
      <4>1. Cardinality(Same) = 0
        BY <3>1, FS_EmptySet
      <4> QED
        BY <4>1
    <3>2. CASE \E a : Same = {a}
      <4>1. Cardinality(Same) = 1
        BY <3>2, FS_Singleton
      <4> QED
        BY <4>1
    <3> QED
      BY <2>5, <3>1, <3>2
  <2> QED
    BY <2>2, <2>6
<1>2. oper[r] = "teardown" => \A o \in objects : IsManaged(o) => o.kind \in spared
  BY DEF AloneInv, TeardownHolds, Ours
<1> QED
  BY <1>1, <1>2

(* One request at a time, on a router where setup's objects lie in their   *)
(* place and none twice: whatever calls have failed before or after they   *)
(* took effect, and wherever earlier requests were dropped, a setup that   *)
(* reports success has left every object of the layout exactly once, and a *)
(* teardown nothing that carries the tag.                                  *)
THEOREM ReportsAreTrue ==
    ASSUME NEW r, Runs = {r}, \A held \in Existing : Where(held) /\ Twinless(held, {})
    PROVE  ProvSpec => []ReportIsTrue
<1>1. ProvInit => AloneInv(r, {})
  BY DEF ProvInit, AloneInv, SetupHolds, CreateHolds, TeardownHolds
<1>2. ASSUME ProvInv, AloneInv(r, {}), [ProvNext]_rvars PROVE AloneInv(r, {})'
  <2>1. r \in Runs
    OBVIOUS
  <2>2. CASE ProvNext
    <3>1. Begin(r) \/ Call(r) \/ Report(r) \/ Abandon(r)
      BY <2>2 DEF ProvNext
    <3> QED
      BY <1>2, <2>1, <3>1, BeginAlone, EnsureAlone, CheckAlone, CreateAlone, ListAlone,
         DeleteAlone, AbandonAlone DEF Call
  <2>3. CASE UNCHANGED rvars
    <3>1. SetupHolds(r, {})'
      BY <1>2, <2>3 DEF rvars, AloneInv, SetupHolds, StepThere, Present
    <3>2. CreateHolds(r, {})' /\ TeardownHolds(r, {})'
      BY <1>2, <2>3 DEF rvars, AloneInv, CreateHolds, TeardownHolds, Lacks, Present
    <3> QED
      BY <1>2, <2>3, <3>1, <3>2 DEF rvars, AloneInv
  <2> QED
    BY <1>2, <2>2, <2>3
<1>3. AloneInv(r, {}) => ReportIsTrue
  BY AloneTellsTrue
<1> QED
  BY <1>1, <1>2, <1>3, Invariance, PTL DEF ProvSpec
=============================================================================
