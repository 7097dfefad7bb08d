------------------------- MODULE TunnelManagerProofs -------------------------
(* Proofs about TunnelManager, for every set of callers and tunnels.       *)
EXTENDS TunnelManager, TLAPS

CallTypes ==
    /\ pc \in [Calls -> CallPcs]
    /\ op \in [Calls -> {"connect", "reconnect", "disconnect", "challenge"}]
    /\ local \in [Calls -> Sessions]
    /\ tun \in [Calls -> Tunnels \cup {None}]

HandlerTypes ==
    /\ hnd \in [Tunnels -> HandlerPcs]
    /\ queue \in [Tunnels -> Seq(Events)]
    /\ ev \in [Tunnels -> Events]

(* Going to a statement or returning keeps the types of the calls.         *)
LEMMA GotoTypes ==
    ASSUME NEW c \in Calls, CallTypes, NEW l \in CallPcs, Goto(c, l)
    PROVE  pc' \in [Calls -> CallPcs]
BY DEF CallTypes, Goto

LEMMA ReturnTypes ==
    ASSUME NEW c \in Calls, CallTypes, Return(c)
    PROVE  CallTypes'
BY DEF CallTypes, Return, Goto, CallPcs, Sessions

LEMMA StartFailsTypes ==
    ASSUME NEW c \in Calls, CallTypes, StartFails(c)
    PROVE  CallTypes'
<1>1. CASE op[c] = "challenge"
  BY <1>1, ReturnTypes DEF StartFails
<1>2. CASE op[c] # "challenge"
  BY <1>2 DEF StartFails, CallTypes, Goto, CallPcs, ConnectPcs
<1> QED
  BY <1>1, <1>2

(* Going on, or ending, keeps the types of the handlers.                   *)
LEMMA ResumeTypes ==
    ASSUME NEW t \in Tunnels, HandlerTypes, NEW l \in HandlerPcs, Resume(t, l)
    PROVE  HandlerTypes'
<1>1. "other" \in Events
  BY DEF Events
<1>2. CASE l \in {"lockForward", "forwarding", "apply"}
  BY <1>2 DEF HandlerTypes, Resume
<1>3. CASE l \notin {"lockForward", "forwarding", "apply"}
  BY <1>1, <1>3 DEF HandlerTypes, Resume
<1> QED
  BY <1>2, <1>3

LEMMA HandlerEndsTypes ==
    ASSUME NEW t \in Tunnels, HandlerTypes, HandlerEnds(t)
    PROVE  HandlerTypes'
BY DEF HandlerTypes, HandlerEnds, HandlerPcs, Events

LEMMA TypeStep == TypeOK /\ StarterOK /\ [Next]_vars => TypeOK'
<1> SUFFICES ASSUME TypeOK, StarterOK, [Next]_vars PROVE TypeOK'
  OBVIOUS
<1> USE CallsAssumption, BoundsAssumption, HoldersAssumption
<1> USE DEF TypeOK, shared, callers, tunnels, Status, Sessions, Events, CallPcs, DialPcs,
            StartPcs, ConnectPcs, DisconnectPcs, ChallengePcs, HandlerPcs
<1>a. CallTypes /\ HandlerTypes
  BY DEF CallTypes, HandlerTypes
<1>1. ASSUME NEW c \in Calls, BeginConnect(c) PROVE TypeOK'
  BY <1>1 DEF BeginConnect, Admit, Goto
<1>2. ASSUME NEW c \in Calls, BeginDisconnect(c) PROVE TypeOK'
  BY <1>2 DEF BeginDisconnect, Goto
<1>3. ASSUME NEW c \in Calls, BeginReconnect(c) PROVE TypeOK'
  BY <1>3 DEF BeginReconnect, Goto
<1>4. ASSUME NEW c \in Calls, BeginChallenge(c) PROVE TypeOK'
  BY <1>4 DEF BeginChallenge, Goto
<1>5. ASSUME NEW c \in Calls, Redial(c) PROVE TypeOK'
  BY <1>5, ZenonT(60) DEF Redial, Admit, Goto, Return
<1>6. ASSUME NEW c \in Calls, ClearFlag(c) PROVE TypeOK'
  BY <1>6 DEF ClearFlag, Goto
<1>7. ASSUME NEW c \in Calls, Dial(c) PROVE TypeOK'
  <2>1. CASE Goto(c, "reportError") /\ UNCHANGED <<session, local>>
    BY <1>7, <2>1 DEF Dial, Goto
  <2>2. CASE \E s \in {"pending", "ready"} :
               /\ local' = [local EXCEPT ![c] = s]
               /\ session' = s
               /\ Goto(c, "storeConnector")
    BY <1>7, <2>2 DEF Dial, Goto
  <2> QED
    BY <1>7, <2>1, <2>2 DEF Dial
<1>8. ASSUME NEW c \in Calls, StoreConnector(c) PROVE TypeOK'
  BY <1>8 DEF StoreConnector, Goto
<1>9. ASSUME NEW c \in Calls, ReportMfa(c) PROVE TypeOK'
  BY <1>9 DEF ReportMfa, SetStatus, Notify, Return, Goto
<1>10. ASSUME NEW c \in Calls, ReportError(c) PROVE TypeOK'
  BY <1>10 DEF ReportError, SetStatus, Notify, Return, Goto
<1>11. ASSUME NEW c \in Calls, LockCreate(c) PROVE TypeOK'
  <2>1. CASE connector
    BY <1>11, <2>1, SMTT(60) DEF LockCreate, Goto
  <2>2. CASE ~connector
    BY <1>11, <1>a, <2>2, StartFailsTypes DEF LockCreate, CallTypes
  <2> QED
    BY <2>1, <2>2
<1>12. ASSUME NEW c \in Calls, CreateTunnel(c) PROVE TypeOK'
  <2>1. CASE StartFails(c) /\ UNCHANGED <<tasks, tunnels>>
    BY <1>12, <1>a, <2>1, StartFailsTypes DEF CreateTunnel, CallTypes
  <2>2. ASSUME NEW t \in Unused,
               tun' = [tun EXCEPT ![c] = t],
               task' = [task EXCEPT ![t] = "running"],
               hnd' = [hnd EXCEPT ![t] = "none"],
               tasks' = tasks \ {t},
               aborted' = aborted \ {t},
               Goto(c, "readMtu"),
               UNCHANGED <<op, local, queue, ev>>
        PROVE  TypeOK'
    BY <1>12, <2>2 DEF CreateTunnel, Goto, Unused
  <2> QED
    BY <1>12, <2>1, <2>2 DEF CreateTunnel
<1>13. ASSUME NEW c \in Calls, Track(c) PROVE TypeOK'
  <2>1. tun[c] \in Tunnels
    BY <1>13 DEF Track, StarterOK
  <2> QED
    BY <1>13, <2>1 DEF Track, Goto
<1>14. ASSUME NEW c \in Calls, SetConnecting(c) PROVE TypeOK'
  BY <1>14 DEF SetConnecting, SetStatus, Notify, Return, Goto
<1>15. ASSUME NEW c \in Calls, SetFlag(c) PROVE TypeOK'
  BY <1>15 DEF SetFlag, Goto
<1>16. ASSUME NEW c \in Calls, LockTerminate(c) PROVE TypeOK'
  BY <1>16, ZenonT(60) DEF LockTerminate, Goto
<1>17. ASSUME NEW c \in Calls, Terminated(c) PROVE TypeOK'
  BY <1>17 DEF Terminated, Goto
<1>18. ASSUME NEW c \in Calls, DropConnector(c) PROVE TypeOK'
  BY <1>18 DEF DropConnector, Goto
<1>19. ASSUME NEW c \in Calls, DropSession(c) PROVE TypeOK'
  BY <1>19 DEF DropSession, Goto
<1>20. ASSUME NEW c \in Calls, Drain(c) PROVE TypeOK'
  BY <1>20 DEF Drain, Goto
<1>21. ASSUME NEW c \in Calls, SetDisconnected(c) PROVE TypeOK'
  <2>1. CASE op[c] = "reconnect"
    BY <1>21, <2>1 DEF SetDisconnected, SetStatus, Notify, Goto
  <2>2. CASE op[c] # "reconnect"
    BY <1>21, <1>a, <2>2, ReturnTypes DEF SetDisconnected, SetStatus, Notify, CallTypes
  <2> QED
    BY <2>1, <2>2
<1>22. ASSUME NEW c \in Calls, LockChallenge(c) PROVE TypeOK'
  <2>1. CASE connector
    BY <1>22, <2>1, SMTT(60) DEF LockChallenge, Goto
  <2>2. CASE ~connector
    BY <1>22, <1>a, <2>2, ReturnTypes DEF LockChallenge, CallTypes
  <2> QED
    BY <2>1, <2>2
<1>23. ASSUME NEW c \in Calls, Answered(c) PROVE TypeOK'
  <2>1. CASE Return(c)
    BY <1>23, <1>a, <2>1, ReturnTypes DEF Answered, CallTypes
  <2>2. ASSUME NEW s \in {"pending", "ready"},
               local' = [local EXCEPT ![c] = s],
               Goto(c, "storeAnswer"),
               UNCHANGED <<op, tun>>
        PROVE  TypeOK'
    BY <1>23, <2>2 DEF Answered, Goto
  <2> QED
    BY <1>23, <2>1, <2>2 DEF Answered
<1>24. ASSUME NEW c \in Calls, StoreAnswer(c) PROVE TypeOK'
  BY <1>24 DEF StoreAnswer, Goto
<1>25. ASSUME NEW c \in Calls, HangUp(c) PROVE TypeOK'
  <2>1. CallTypes'
    BY <1>25, <1>a, ReturnTypes DEF HangUp
  <2>2. queue' \in [Tunnels -> Seq(Events)]
    BY <1>25 DEF HangUp
  <2> QED
    BY <1>25, <2>1, <2>2 DEF HangUp, CallTypes
<1>26. ASSUME NEW t \in Tunnels, Report(t) PROVE TypeOK'
  BY <1>26 DEF Report
<1>27. ASSUME NEW t \in Tunnels, Exit(t) PROVE TypeOK'
  BY <1>27 DEF Exit
<1>28. ASSUME NEW t \in Tunnels, Recv(t) PROVE TypeOK'
  BY <1>28 DEF Recv
<1>29. ASSUME NEW t \in Tunnels, RecvClosed(t) PROVE TypeOK'
  <2>1. HandlerTypes'
    BY <1>29, <1>a, ResumeTypes, HandlerEndsTypes DEF RecvClosed
  <2> QED
    BY <1>29, <2>1 DEF RecvClosed, HandlerTypes
<1>30. ASSUME NEW t \in Tunnels, LockForward(t) PROVE TypeOK'
  BY <1>30, ZenonT(60) DEF LockForward, Resume
<1>31. ASSUME NEW t \in Tunnels, Forwarded(t) PROVE TypeOK'
  <2>1. HandlerTypes'
    BY <1>31, <1>a, ResumeTypes, HandlerEndsTypes DEF Forwarded
  <2> QED
    BY <1>31, <2>1 DEF Forwarded, HandlerTypes
<1>32. ASSUME NEW t \in Tunnels, WriteFail(t) PROVE TypeOK'
  BY <1>32 DEF WriteFail, SetStatus, Notify, HandlerEnds
<1>33. ASSUME NEW t \in Tunnels, Apply(t) PROVE TypeOK'
  <2>1. HandlerTypes'
    BY <1>33, <1>a, ResumeTypes DEF Apply
  <2>2. status' \in Status /\ unread' \in 0..EventCap
    BY <1>33 DEF Apply, SetStatus, Notify
  <2> QED
    BY <1>33, <2>1, <2>2 DEF Apply, HandlerTypes
<1>34. ASSUME NEW t \in Tunnels, Fallback(t) PROVE TypeOK'
  <2>1. HandlerTypes'
    BY <1>34, <1>a, ResumeTypes, HandlerEndsTypes DEF Fallback
  <2> QED
    BY <1>34, <2>1 DEF Fallback, HandlerTypes
<1>35. ASSUME NEW t \in Tunnels, WriteExit(t) PROVE TypeOK'
  BY <1>35 DEF WriteExit, Resume
<1>36. ASSUME NEW t \in Tunnels, HandlerDropsConnector(t) PROVE TypeOK'
  BY <1>36 DEF HandlerDropsConnector, Resume
<1>37. ASSUME NEW t \in Tunnels, HandlerDropsSession(t) PROVE TypeOK'
  BY <1>37 DEF HandlerDropsSession, Notify, HandlerEnds
<1>38. ASSUME NEW t \in Tunnels, HandlerAborted(t) PROVE TypeOK'
  BY <1>38 DEF HandlerAborted, HandlerEnds
<1>40. ASSUME NEW c \in Calls, ReadMtu(c) PROVE TypeOK'
  <2>1. tun[c] \in Tunnels
    BY <1>40 DEF ReadMtu, StarterOK
  <2> QED
    BY <1>40, <2>1 DEF ReadMtu, Goto
<1>39. CASE UNCHANGED vars
  BY <1>39 DEF vars
<1> QED
  BY <1>1, <1>2, <1>3, <1>4, <1>5, <1>6, <1>7, <1>8, <1>9, <1>10, <1>11, <1>12, <1>13, <1>14,
     <1>15, <1>16, <1>17, <1>18, <1>19, <1>20, <1>21, <1>22, <1>23, <1>24, <1>25, <1>26, <1>27,
     <1>28, <1>29, <1>30, <1>31, <1>32, <1>33, <1>34, <1>35, <1>36, <1>37, <1>38, <1>39, <1>40
     DEF Next, Begin, CallStep, ConnectStep, StartStep, DisconnectStep, ChallengeStep,
         HandlerStep, TunnelStep

(* A call keeps the tunnel it starts, from start_tunnel's create to its end. *)
LEMMA StarterStep == TypeOK /\ StarterOK /\ [Next]_vars => StarterOK'
<1> SUFFICES ASSUME TypeOK, StarterOK, [Next]_vars PROVE StarterOK'
  OBVIOUS
<1> USE HoldersAssumption
<1> USE DEF TypeOK, StarterOK, shared, callers, tunnels
<1>1. ASSUME NEW c \in Calls, BeginConnect(c) PROVE StarterOK'
  BY <1>1 DEF BeginConnect, Admit, Goto
<1>2. ASSUME NEW c \in Calls, BeginDisconnect(c) PROVE StarterOK'
  BY <1>2 DEF BeginDisconnect, Goto
<1>3. ASSUME NEW c \in Calls, BeginReconnect(c) PROVE StarterOK'
  BY <1>3 DEF BeginReconnect, Goto
<1>4. ASSUME NEW c \in Calls, BeginChallenge(c) PROVE StarterOK'
  BY <1>4 DEF BeginChallenge, Goto
<1>5. ASSUME NEW c \in Calls, Redial(c) PROVE StarterOK'
  BY <1>5 DEF Redial, Admit, Return, Goto
<1>6. ASSUME NEW c \in Calls, ClearFlag(c) PROVE StarterOK'
  BY <1>6 DEF ClearFlag, Goto
<1>7. ASSUME NEW c \in Calls, Dial(c) PROVE StarterOK'
  BY <1>7 DEF Dial, Goto
<1>8. ASSUME NEW c \in Calls, StoreConnector(c) PROVE StarterOK'
  BY <1>8 DEF StoreConnector, Goto
<1>9. ASSUME NEW c \in Calls, ReportMfa(c) PROVE StarterOK'
  BY <1>9 DEF ReportMfa, Return, Goto
<1>10. ASSUME NEW c \in Calls, ReportError(c) PROVE StarterOK'
  BY <1>10 DEF ReportError, Return, Goto
<1>11. ASSUME NEW c \in Calls, LockCreate(c) PROVE StarterOK'
  BY <1>11 DEF LockCreate, StartFails, Return, Goto
<1>12. ASSUME NEW c \in Calls, CreateTunnel(c) PROVE StarterOK'
  <2>0. pc[c] = "creating" /\ tun[c] = None
    BY <1>12 DEF CreateTunnel
  <2>1. CASE StartFails(c) /\ UNCHANGED <<tasks, tunnels>>
    <3>1. \E l \in {"idle", "reportError"} : pc' = [pc EXCEPT ![c] = l]
      BY <2>1 DEF StartFails, Return, Goto
    <3>2. UNCHANGED hnd /\ (UNCHANGED tun \/ tun' = [tun EXCEPT ![c] = None])
      BY <2>1 DEF StartFails, Return
    <3> QED
      BY <2>0, <3>1, <3>2
  <2>2. ASSUME NEW t \in Unused, tun' = [tun EXCEPT ![c] = t], Goto(c, "readMtu"),
               hnd' = [hnd EXCEPT ![t] = "none"]
        PROVE  StarterOK'
    <3>1. \A d \in Calls : tun[d] # t
      BY DEF Unused
    <3>2. \A d \in Calls : pc[d] = "readMtu" => tun[d] \in Tunnels
      BY <2>2 DEF Unused
    <3> QED
      BY <2>0, <2>2, <3>1, <3>2 DEF Goto, Unused
  <2> QED
    BY <1>12, <2>1, <2>2 DEF CreateTunnel
<1>13. ASSUME NEW c \in Calls, Track(c) PROVE StarterOK'
  BY <1>13 DEF Track, Goto
<1>14. ASSUME NEW c \in Calls, SetConnecting(c) PROVE StarterOK'
  BY <1>14 DEF SetConnecting, Return, Goto
<1>15. ASSUME NEW c \in Calls, SetFlag(c) PROVE StarterOK'
  BY <1>15 DEF SetFlag, Goto
<1>16. ASSUME NEW c \in Calls, LockTerminate(c) PROVE StarterOK'
  <2>1. \E l \in {"terminating", "dropConnector"} : pc' = [pc EXCEPT ![c] = l]
    BY <1>16 DEF LockTerminate, Goto
  <2>2. pc[c] = "lockTerminate" /\ UNCHANGED <<tun, hnd>>
    BY <1>16 DEF LockTerminate
  <2> QED
    BY <2>1, <2>2
<1>17. ASSUME NEW c \in Calls, Terminated(c) PROVE StarterOK'
  BY <1>17 DEF Terminated, Goto
<1>18. ASSUME NEW c \in Calls, DropConnector(c) PROVE StarterOK'
  BY <1>18 DEF DropConnector, Goto
<1>19. ASSUME NEW c \in Calls, DropSession(c) PROVE StarterOK'
  BY <1>19 DEF DropSession, Goto
<1>20. ASSUME NEW c \in Calls, Drain(c) PROVE StarterOK'
  BY <1>20 DEF Drain, Goto
<1>21. ASSUME NEW c \in Calls, SetDisconnected(c) PROVE StarterOK'
  <2>1. \E l \in {"idle", "redial"} : pc' = [pc EXCEPT ![c] = l]
    BY <1>21 DEF SetDisconnected, Return, Goto
  <2>2. /\ pc[c] = "setDisconnected" /\ UNCHANGED hnd
        /\ UNCHANGED tun \/ tun' = [tun EXCEPT ![c] = None]
    BY <1>21 DEF SetDisconnected, Return
  <2> QED
    BY <2>1, <2>2
<1>22. ASSUME NEW c \in Calls, LockChallenge(c) PROVE StarterOK'
  <2>1. \E l \in {"idle", "challenging"} : pc' = [pc EXCEPT ![c] = l]
    BY <1>22 DEF LockChallenge, Return, Goto
  <2>2. /\ pc[c] = "lockChallenge" /\ UNCHANGED hnd
        /\ UNCHANGED tun \/ tun' = [tun EXCEPT ![c] = None]
    BY <1>22 DEF LockChallenge, Return
  <2> QED
    BY <2>1, <2>2
<1>23. ASSUME NEW c \in Calls, Answered(c) PROVE StarterOK'
  BY <1>23 DEF Answered, Return, Goto
<1>24. ASSUME NEW c \in Calls, StoreAnswer(c) PROVE StarterOK'
  BY <1>24 DEF StoreAnswer, Goto
<1>25. ASSUME NEW c \in Calls, HangUp(c) PROVE StarterOK'
  BY <1>25 DEF HangUp, Return, AwaitPcs, Goto
<1>26. ASSUME NEW t \in Tunnels, Report(t) PROVE StarterOK'
  BY <1>26 DEF Report
<1>27. ASSUME NEW t \in Tunnels, Exit(t) PROVE StarterOK'
  BY <1>27 DEF Exit
<1>28. ASSUME NEW t \in Tunnels, Recv(t) PROVE StarterOK'
  BY <1>28 DEF Recv
<1>29. ASSUME NEW t \in Tunnels, RecvClosed(t) PROVE StarterOK'
  BY <1>29 DEF RecvClosed, Resume, HandlerEnds
<1>30. ASSUME NEW t \in Tunnels, LockForward(t) PROVE StarterOK'
  BY <1>30 DEF LockForward, Resume
<1>31. ASSUME NEW t \in Tunnels, Forwarded(t) PROVE StarterOK'
  BY <1>31 DEF Forwarded, Resume, HandlerEnds
<1>32. ASSUME NEW t \in Tunnels, WriteFail(t) PROVE StarterOK'
  BY <1>32 DEF WriteFail, HandlerEnds
<1>33. ASSUME NEW t \in Tunnels, Apply(t) PROVE StarterOK'
  BY <1>33 DEF Apply, Resume
<1>34. ASSUME NEW t \in Tunnels, Fallback(t) PROVE StarterOK'
  BY <1>34 DEF Fallback, Resume, HandlerEnds
<1>35. ASSUME NEW t \in Tunnels, WriteExit(t) PROVE StarterOK'
  BY <1>35 DEF WriteExit, Resume
<1>36. ASSUME NEW t \in Tunnels, HandlerDropsConnector(t) PROVE StarterOK'
  BY <1>36 DEF HandlerDropsConnector, Resume
<1>37. ASSUME NEW t \in Tunnels, HandlerDropsSession(t) PROVE StarterOK'
  BY <1>37 DEF HandlerDropsSession, HandlerEnds
<1>38. ASSUME NEW t \in Tunnels, HandlerAborted(t) PROVE StarterOK'
  BY <1>38 DEF HandlerAborted, HandlerEnds
<1>40. ASSUME NEW c \in Calls, ReadMtu(c) PROVE StarterOK'
  BY <1>40 DEF ReadMtu, Goto
<1>39. CASE UNCHANGED vars
  BY <1>39 DEF vars
<1> QED
  BY <1>1, <1>2, <1>3, <1>4, <1>5, <1>6, <1>7, <1>8, <1>9, <1>10, <1>11, <1>12, <1>13, <1>14,
     <1>15, <1>16, <1>17, <1>18, <1>19, <1>20, <1>21, <1>22, <1>23, <1>24, <1>25, <1>26, <1>27,
     <1>28, <1>29, <1>30, <1>31, <1>32, <1>33, <1>34, <1>35, <1>36, <1>37, <1>38, <1>39, <1>40
     DEF Next, Begin, CallStep, ConnectStep, StartStep, DisconnectStep, ChallengeStep,
         HandlerStep, TunnelStep

(* Every step takes and releases the connector mutex with its statement.   *)
LEMMA MutexStep == TypeOK /\ StarterOK /\ MutexHeld /\ [Next]_vars => MutexHeld'
<1> SUFFICES ASSUME TypeOK, StarterOK, MutexHeld, [Next]_vars PROVE MutexHeld'
  OBVIOUS
<1> USE HoldersAssumption
<1> USE DEF TypeOK, MutexHeld, shared, callers, tunnels
<1>1. ASSUME NEW c \in Calls, BeginConnect(c) PROVE MutexHeld'
  BY <1>1 DEF BeginConnect, Admit, Goto
<1>2. ASSUME NEW c \in Calls, BeginDisconnect(c) PROVE MutexHeld'
  BY <1>2 DEF BeginDisconnect, Goto
<1>3. ASSUME NEW c \in Calls, BeginReconnect(c) PROVE MutexHeld'
  BY <1>3 DEF BeginReconnect, Goto
<1>4. ASSUME NEW c \in Calls, BeginChallenge(c) PROVE MutexHeld'
  BY <1>4 DEF BeginChallenge, Goto
<1>5. ASSUME NEW c \in Calls, Redial(c) PROVE MutexHeld'
  BY <1>5 DEF Redial, Admit, Return, Goto
<1>6. ASSUME NEW c \in Calls, ClearFlag(c) PROVE MutexHeld'
  BY <1>6 DEF ClearFlag, Goto
<1>7. ASSUME NEW c \in Calls, Dial(c) PROVE MutexHeld'
  BY <1>7 DEF Dial, Goto
<1>8. ASSUME NEW c \in Calls, StoreConnector(c) PROVE MutexHeld'
  BY <1>8 DEF StoreConnector, Goto
<1>9. ASSUME NEW c \in Calls, ReportMfa(c) PROVE MutexHeld'
  BY <1>9 DEF ReportMfa, Return, Goto
<1>10. ASSUME NEW c \in Calls, ReportError(c) PROVE MutexHeld'
  BY <1>10 DEF ReportError, Return, Goto
<1>11. ASSUME NEW c \in Calls, LockCreate(c) PROVE MutexHeld'
  BY <1>11 DEF LockCreate, StartFails, Return, Goto
<1>12. ASSUME NEW c \in Calls, CreateTunnel(c) PROVE MutexHeld'
  <2>1. pc[c] = "creating" /\ lock = c /\ lock' = None
    BY <1>12 DEF CreateTunnel
  <2>2. \E l \in {"idle", "reportError", "readMtu"} : pc' = [pc EXCEPT ![c] = l]
    BY <1>12 DEF CreateTunnel, StartFails, Return, Goto
  <2>3. \A t \in Tunnels : hnd'[t] = hnd[t] \/ (hnd[t] \in {"none", "done"} /\ hnd'[t] = "none")
    <3>1. CASE UNCHANGED tunnels
      BY <3>1
    <3>2. ASSUME NEW t \in Unused, hnd' = [hnd EXCEPT ![t] = "none"]
          PROVE  \A u \in Tunnels : hnd'[u] = hnd[u] \/ (hnd[u] \in {"none", "done"} /\ hnd'[u] = "none")
      BY <3>2 DEF Unused
    <3> QED
      BY <1>12, <3>1, <3>2 DEF CreateTunnel
  <2> QED
    BY <2>1, <2>2, <2>3
<1>13. ASSUME NEW c \in Calls, Track(c) PROVE MutexHeld'
  BY <1>13 DEF Track, Goto
<1>14. ASSUME NEW c \in Calls, SetConnecting(c) PROVE MutexHeld'
  BY <1>14 DEF SetConnecting, Return, Goto
<1>15. ASSUME NEW c \in Calls, SetFlag(c) PROVE MutexHeld'
  BY <1>15 DEF SetFlag, Goto
<1>16. ASSUME NEW c \in Calls, LockTerminate(c) PROVE MutexHeld'
  BY <1>16 DEF LockTerminate, Goto
<1>17. ASSUME NEW c \in Calls, Terminated(c) PROVE MutexHeld'
  BY <1>17 DEF Terminated, Goto
<1>18. ASSUME NEW c \in Calls, DropConnector(c) PROVE MutexHeld'
  BY <1>18 DEF DropConnector, Goto
<1>19. ASSUME NEW c \in Calls, DropSession(c) PROVE MutexHeld'
  BY <1>19 DEF DropSession, Goto
<1>20. ASSUME NEW c \in Calls, Drain(c) PROVE MutexHeld'
  BY <1>20 DEF Drain, Goto
<1>21. ASSUME NEW c \in Calls, SetDisconnected(c) PROVE MutexHeld'
  BY <1>21, SMTT(60) DEF SetDisconnected, Return, Goto
<1>22. ASSUME NEW c \in Calls, LockChallenge(c) PROVE MutexHeld'
  BY <1>22 DEF LockChallenge, Return, Goto
<1>23. ASSUME NEW c \in Calls, Answered(c) PROVE MutexHeld'
  BY <1>23, SMTT(60) DEF Answered, Return, Goto
<1>24. ASSUME NEW c \in Calls, StoreAnswer(c) PROVE MutexHeld'
  BY <1>24 DEF StoreAnswer, Goto
<1>25. ASSUME NEW c \in Calls, HangUp(c) PROVE MutexHeld'
  BY <1>25 DEF HangUp, Return, AwaitPcs, Goto
<1>26. ASSUME NEW t \in Tunnels, Report(t) PROVE MutexHeld'
  BY <1>26 DEF Report
<1>27. ASSUME NEW t \in Tunnels, Exit(t) PROVE MutexHeld'
  BY <1>27 DEF Exit
<1>28. ASSUME NEW t \in Tunnels, Recv(t) PROVE MutexHeld'
  BY <1>28 DEF Recv
<1>29. ASSUME NEW t \in Tunnels, RecvClosed(t) PROVE MutexHeld'
  BY <1>29 DEF RecvClosed, Resume, HandlerEnds
<1>30. ASSUME NEW t \in Tunnels, LockForward(t) PROVE MutexHeld'
  BY <1>30 DEF LockForward, Resume
<1>31. ASSUME NEW t \in Tunnels, Forwarded(t) PROVE MutexHeld'
  <2>1. CASE Resume(t, "apply") /\ lock' = None
    BY <1>31, <2>1 DEF Forwarded, Resume
  <2>2. CASE HandlerEnds(t) /\ lock' = None
    BY <1>31, <2>2 DEF Forwarded, HandlerEnds
  <2>3. CASE Resume(t, "writeFail") /\ UNCHANGED lock
    BY <1>31, <2>3 DEF Forwarded, Resume
  <2> QED
    BY <1>31, <2>1, <2>2, <2>3 DEF Forwarded
<1>32. ASSUME NEW t \in Tunnels, WriteFail(t) PROVE MutexHeld'
  BY <1>32 DEF WriteFail, HandlerEnds
<1>33. ASSUME NEW t \in Tunnels, Apply(t) PROVE MutexHeld'
  BY <1>33 DEF Apply, Resume
<1>34. ASSUME NEW t \in Tunnels, Fallback(t) PROVE MutexHeld'
  BY <1>34 DEF Fallback, Resume, HandlerEnds
<1>35. ASSUME NEW t \in Tunnels, WriteExit(t) PROVE MutexHeld'
  BY <1>35 DEF WriteExit, Resume
<1>36. ASSUME NEW t \in Tunnels, HandlerDropsConnector(t) PROVE MutexHeld'
  BY <1>36 DEF HandlerDropsConnector, Resume
<1>37. ASSUME NEW t \in Tunnels, HandlerDropsSession(t) PROVE MutexHeld'
  BY <1>37 DEF HandlerDropsSession, HandlerEnds
<1>38. ASSUME NEW t \in Tunnels, HandlerAborted(t) PROVE MutexHeld'
  BY <1>38 DEF HandlerAborted, HandlerEnds
<1>40. ASSUME NEW c \in Calls, ReadMtu(c) PROVE MutexHeld'
  <2>1. hnd[tun[c]] = "none" /\ hnd' = [hnd EXCEPT ![tun[c]] = "recv"]
    BY <1>40 DEF ReadMtu, StarterOK
  <2>2. pc[c] = "readMtu" /\ pc' = [pc EXCEPT ![c] = "tracking"] /\ UNCHANGED lock
    BY <1>40 DEF ReadMtu, Goto
  <2> QED
    BY <2>1, <2>2
<1>39. CASE UNCHANGED vars
  BY <1>39 DEF vars
<1> QED
  BY <1>1, <1>2, <1>3, <1>4, <1>5, <1>6, <1>7, <1>8, <1>9, <1>10, <1>11, <1>12, <1>13, <1>14,
     <1>15, <1>16, <1>17, <1>18, <1>19, <1>20, <1>21, <1>22, <1>23, <1>24, <1>25, <1>26, <1>27,
     <1>28, <1>29, <1>30, <1>31, <1>32, <1>33, <1>34, <1>35, <1>36, <1>37, <1>38, <1>39, <1>40
     DEF Next, Begin, CallStep, ConnectStep, StartStep, DisconnectStep, ChallengeStep,
         HandlerStep, TunnelStep

(* Every step that starts a tunnel or drops a handle keeps it accounted    *)
(* for, except the drop of a call between start_tunnel's two spawns.       *)
Dropped(t) == \E c \in Calls : tun[c] = t /\ pc[c] = "readMtu" /\ HangUp(c)

LEMMA OrphanStep ==
    ASSUME TypeOK, StarterOK, [Next]_vars, NEW u \in Tunnels
    PROVE  ~Orphan(u) /\ Orphan(u)' => Dropped(u)
<1> DEFINE Kept == Orphan(u)' => Orphan(u)
<1> SUFFICES Kept \/ Dropped(u)
  OBVIOUS
<1> USE HoldersAssumption
<1> USE DEF TypeOK, StarterOK, Orphan, Live, shared, callers, tunnels
<1>1. ASSUME NEW c \in Calls, BeginConnect(c) PROVE Kept
  BY <1>1 DEF BeginConnect, Admit, Goto
<1>2. ASSUME NEW c \in Calls, BeginDisconnect(c) PROVE Kept
  BY <1>2 DEF BeginDisconnect, Goto
<1>3. ASSUME NEW c \in Calls, BeginReconnect(c) PROVE Kept
  BY <1>3 DEF BeginReconnect, Goto
<1>4. ASSUME NEW c \in Calls, BeginChallenge(c) PROVE Kept
  BY <1>4 DEF BeginChallenge, Goto
<1>5. ASSUME NEW c \in Calls, Redial(c) PROVE Kept
  BY <1>5 DEF Redial, Admit, Return, Goto
<1>6. ASSUME NEW c \in Calls, ClearFlag(c) PROVE Kept
  BY <1>6 DEF ClearFlag, Goto
<1>7. ASSUME NEW c \in Calls, Dial(c) PROVE Kept
  BY <1>7 DEF Dial, Goto
<1>8. ASSUME NEW c \in Calls, StoreConnector(c) PROVE Kept
  BY <1>8 DEF StoreConnector, Goto
<1>9. ASSUME NEW c \in Calls, ReportMfa(c) PROVE Kept
  BY <1>9 DEF ReportMfa, Return, Goto
<1>10. ASSUME NEW c \in Calls, ReportError(c) PROVE Kept
  BY <1>10 DEF ReportError, Return, Goto
<1>11. ASSUME NEW c \in Calls, LockCreate(c) PROVE Kept
  BY <1>11 DEF LockCreate, StartFails, Return, Goto
<1>12. ASSUME NEW c \in Calls, CreateTunnel(c) PROVE Kept
  BY <1>12 DEF CreateTunnel, StartFails, Return, Unused, Goto
<1>13. ASSUME NEW c \in Calls, Track(c) PROVE Kept
  BY <1>13 DEF Track, Goto
<1>14. ASSUME NEW c \in Calls, SetConnecting(c) PROVE Kept
  BY <1>14 DEF SetConnecting, Return, Goto
<1>15. ASSUME NEW c \in Calls, SetFlag(c) PROVE Kept
  BY <1>15 DEF SetFlag, Goto
<1>16. ASSUME NEW c \in Calls, LockTerminate(c) PROVE Kept
  BY <1>16 DEF LockTerminate, Goto
<1>17. ASSUME NEW c \in Calls, Terminated(c) PROVE Kept
  BY <1>17 DEF Terminated, Goto
<1>18. ASSUME NEW c \in Calls, DropConnector(c) PROVE Kept
  BY <1>18 DEF DropConnector, Goto
<1>19. ASSUME NEW c \in Calls, DropSession(c) PROVE Kept
  BY <1>19 DEF DropSession, Goto
<1>20. ASSUME NEW c \in Calls, Drain(c) PROVE Kept
  BY <1>20 DEF Drain, Goto
<1>21. ASSUME NEW c \in Calls, SetDisconnected(c) PROVE Kept
  BY <1>21 DEF SetDisconnected, Return, Goto
<1>22. ASSUME NEW c \in Calls, LockChallenge(c) PROVE Kept
  BY <1>22 DEF LockChallenge, Return, Goto
<1>23. ASSUME NEW c \in Calls, Answered(c) PROVE Kept
  BY <1>23 DEF Answered, Return, Goto
<1>24. ASSUME NEW c \in Calls, StoreAnswer(c) PROVE Kept
  BY <1>24 DEF StoreAnswer, Goto
<1>25. ASSUME NEW c \in Calls, HangUp(c) PROVE Kept \/ Dropped(u)
  <2>1. CASE pc[c] = "readMtu" /\ tun[c] = u
    BY <1>25, <2>1 DEF Dropped
  <2>2. CASE ~(pc[c] = "readMtu" /\ tun[c] = u)
    BY <1>25, <2>2 DEF HangUp, Return, AwaitPcs, Goto
  <2> QED
    BY <2>1, <2>2
<1>26. ASSUME NEW t \in Tunnels, Report(t) PROVE Kept
  BY <1>26 DEF Report
<1>27. ASSUME NEW t \in Tunnels, Exit(t) PROVE Kept
  BY <1>27 DEF Exit
<1>28. ASSUME NEW t \in Tunnels, Recv(t) PROVE Kept
  BY <1>28 DEF Recv
<1>29. ASSUME NEW t \in Tunnels, RecvClosed(t) PROVE Kept
  <2>1. \E l \in HandlerPcs : hnd' = [hnd EXCEPT ![t] = l]
    BY <1>29 DEF RecvClosed, Resume, HandlerEnds, HandlerPcs
  <2>2. UNCHANGED <<task, aborted, tasks, callers>> /\ Live(t)
    BY <1>29 DEF RecvClosed
  <2> QED
    BY <2>1, <2>2
<1>30. ASSUME NEW t \in Tunnels, LockForward(t) PROVE Kept
  <2>1. \E l \in HandlerPcs : hnd' = [hnd EXCEPT ![t] = l]
    BY <1>30 DEF LockForward, Resume, HandlerEnds, HandlerPcs
  <2>2. UNCHANGED <<task, aborted, tasks, callers>> /\ Live(t)
    BY <1>30 DEF LockForward
  <2> QED
    BY <2>1, <2>2
<1>31. ASSUME NEW t \in Tunnels, Forwarded(t) PROVE Kept
  <2>1. \E l \in HandlerPcs : hnd' = [hnd EXCEPT ![t] = l]
    BY <1>31 DEF Forwarded, Resume, HandlerEnds, HandlerPcs
  <2>2. UNCHANGED <<task, aborted, tasks, callers>> /\ Live(t)
    BY <1>31 DEF Forwarded
  <2> QED
    BY <2>1, <2>2
<1>32. ASSUME NEW t \in Tunnels, WriteFail(t) PROVE Kept
  BY <1>32 DEF WriteFail, HandlerEnds
<1>33. ASSUME NEW t \in Tunnels, Apply(t) PROVE Kept
  BY <1>33 DEF Apply, Resume
<1>34. ASSUME NEW t \in Tunnels, Fallback(t) PROVE Kept
  <2>1. \E l \in HandlerPcs : hnd' = [hnd EXCEPT ![t] = l]
    BY <1>34 DEF Fallback, Resume, HandlerEnds, HandlerPcs
  <2>2. UNCHANGED <<task, aborted, tasks, callers>> /\ Live(t)
    BY <1>34 DEF Fallback
  <2> QED
    BY <2>1, <2>2
<1>35. ASSUME NEW t \in Tunnels, WriteExit(t) PROVE Kept
  BY <1>35 DEF WriteExit, Resume
<1>36. ASSUME NEW t \in Tunnels, HandlerDropsConnector(t) PROVE Kept
  BY <1>36 DEF HandlerDropsConnector, Resume
<1>37. ASSUME NEW t \in Tunnels, HandlerDropsSession(t) PROVE Kept
  BY <1>37 DEF HandlerDropsSession, HandlerEnds
<1>38. ASSUME NEW t \in Tunnels, HandlerAborted(t) PROVE Kept
  BY <1>38 DEF HandlerAborted, HandlerEnds
<1>40. ASSUME NEW c \in Calls, ReadMtu(c) PROVE Kept
  BY <1>40 DEF ReadMtu, Goto
<1>39. CASE UNCHANGED vars
  BY <1>39 DEF vars
<1> QED
  BY <1>1, <1>2, <1>3, <1>4, <1>5, <1>6, <1>7, <1>8, <1>9, <1>10, <1>11, <1>12, <1>13, <1>14,
     <1>15, <1>16, <1>17, <1>18, <1>19, <1>20, <1>21, <1>22, <1>23, <1>24, <1>25, <1>26, <1>27,
     <1>28, <1>29, <1>30, <1>31, <1>32, <1>33, <1>34, <1>35, <1>36, <1>37, <1>38, <1>39, <1>40
     DEF Next, Begin, CallStep, ConnectStep, StartStep, DisconnectStep, ChallengeStep,
         HandlerStep, TunnelStep

(* The invariants hold initially.                                          *)
LEMMA InitHolds == Init => TypeOK /\ StarterOK /\ MutexHeld
<1> SUFFICES ASSUME Init PROVE TypeOK /\ StarterOK /\ MutexHeld
  OBVIOUS
<1> USE DEF Init
<1>1. TypeOK
  <2>1. queue \in [Tunnels -> Seq(Events)]
    BY <<>> \in Seq(Events)
  <2>2. ev \in [Tunnels -> Events]
    BY DEF Events
  <2>3. /\ pc \in [Calls -> CallPcs]
        /\ hnd \in [Tunnels -> HandlerPcs]
    BY DEF CallPcs, HandlerPcs
  <2>4. /\ op \in [Calls -> {"connect", "reconnect", "disconnect", "challenge"}]
        /\ local \in [Calls -> Sessions]
        /\ tun \in [Calls -> Tunnels \cup {None}]
        /\ task \in [Tunnels -> {"none", "running", "exited"}]
    BY DEF Sessions
  <2>5. unread \in 0..EventCap
    BY BoundsAssumption
  <2> QED
    BY <2>1, <2>2, <2>3, <2>4, <2>5 DEF TypeOK, Status, Sessions
<1>2. StarterOK
  BY DEF StarterOK
<1>3. MutexHeld
  BY HoldersAssumption DEF MutexHeld
<1> QED
  BY <1>1, <1>2, <1>3

(* The state keeps its types, and a call keeps the tunnel it is starting   *)
(* until it returns: `tun' is what start_tunnel's locals hold.             *)
THEOREM TypeCorrect == Spec => [](TypeOK /\ StarterOK)
<1>1. TypeOK /\ StarterOK /\ [Next]_vars => (TypeOK /\ StarterOK)'
  BY TypeStep, StarterStep
<1> QED
  BY <1>1, InitHolds, PTL DEF Spec

(* For any number of callers and tunnels the connector mutex is held by    *)
(* exactly the call or handler that is at a statement of a locked block:   *)
(* no error path, early return, dropped future or abort keeps it.          *)
THEOREM MutexCorrect == Spec => []MutexHeld
<1>1. TypeOK /\ StarterOK /\ MutexHeld /\ [Next]_vars => MutexHeld'
  BY MutexStep
<1> QED
  BY <1>1, InitHolds, TypeCorrect, PTL DEF Spec

(* For any number of callers and tunnels, a tunnel is lost to disconnect() *)
(* only by the drop of the call that starts it, between the spawn of its   *)
(* run loop and the spawn of its handler.                                  *)
THEOREM OnlyThatDropOrphans == Spec => OnlyADropOrphans
<1>1. TypeOK /\ StarterOK /\ [Next]_vars
        => [\A t \in Tunnels : ~Orphan(t) /\ Orphan(t)' =>
              \E c \in Calls : tun[c] = t /\ pc[c] = "readMtu" /\ HangUp(c)]_vars
  BY OrphanStep DEF Dropped
<1> QED
  BY <1>1, TypeCorrect, PTL DEF Spec, OnlyADropOrphans

-----------------------------------------------------------------------------
(* connect() alone admits one attempt at a time.  What makes it so is not  *)
(* the check at its top alone: an event handler that may still write the   *)
(* status exists only under a status that makes the check refuse, and      *)
(* there is at most one.                                                   *)

OnlyConnects ==
    \A c \in Calls : /\ op[c] = "connect"
                     /\ pc[c] \in {"idle"} \cup ConnectPcs \cup StartPcs

OneDialInv ==
    /\ OnlyConnects
    /\ \A c \in Calls : Dialing(c) => /\ status = "connecting"
                                     /\ \A t \in Tunnels : ~Writer(t)
    /\ \A c, d \in Calls : Dialing(c) /\ Dialing(d) => c = d
    /\ \A t \in Tunnels : Writer(t) => status \in Busy
    /\ \A t, u \in Tunnels : Writer(t) /\ Writer(u) => t = u

(* Every step keeps the invariant; the steps of the other operations are   *)
(* never enabled.                                                          *)
LEMMA OneDialStep ==
    ASSUME Ops = {"connect"}, TypeOK, OneDialInv, [Next]_vars
    PROVE  OneDialInv'
<1> USE DEF TypeOK, OneDialInv, OnlyConnects, Dialing, Writer, Busy,
            DialPcs, StartPcs, ConnectPcs, shared, callers, tunnels
<1>0. ASSUME NEW c \in Calls,
             \/ BeginDisconnect(c) \/ BeginReconnect(c) \/ BeginChallenge(c)
             \/ Redial(c) \/ DisconnectStep(c) \/ ChallengeStep(c)
      PROVE  FALSE
  <2>1. ~BeginDisconnect(c) /\ ~BeginReconnect(c) /\ ~BeginChallenge(c)
    BY DEF BeginDisconnect, BeginReconnect, BeginChallenge
  <2>2. ~Redial(c)
    BY DEF Redial
  <2>3. ~DisconnectStep(c)
    BY DEF DisconnectStep, SetFlag, LockTerminate, Terminated, DropConnector,
           DropSession, Drain, SetDisconnected
  <2>4. ~ChallengeStep(c)
    BY DEF ChallengeStep, LockChallenge, Answered, StoreAnswer
  <2> QED
    BY <1>0, <2>1, <2>2, <2>3, <2>4
<1>1. ASSUME NEW c \in Calls, BeginConnect(c) PROVE OneDialInv'
  BY <1>1 DEF BeginConnect, Admit, Goto
<1>2. ASSUME NEW c \in Calls, ClearFlag(c) PROVE OneDialInv'
  BY <1>2 DEF ClearFlag, Goto
<1>3. ASSUME NEW c \in Calls, Dial(c) PROVE OneDialInv'
  <2>1. /\ pc[c] = "dialing" /\ pc'[c] \in {"reportError", "storeConnector"}
        /\ \A d \in Calls : d # c => pc'[d] = pc[d]
        /\ UNCHANGED <<status, op, hnd>>
    BY <1>3 DEF Dial, Goto
  <2> QED
    BY <2>1, ZenonT(60)
<1>4. ASSUME NEW c \in Calls, StoreConnector(c) PROVE OneDialInv'
  BY <1>4 DEF StoreConnector, Goto
<1>5. ASSUME NEW c \in Calls, ReportMfa(c) PROVE OneDialInv'
  BY <1>5 DEF ReportMfa, SetStatus, Return, Goto
<1>6. ASSUME NEW c \in Calls, ReportError(c) PROVE OneDialInv'
  BY <1>6 DEF ReportError, SetStatus, Return, Goto
<1>7. ASSUME NEW c \in Calls, LockCreate(c) PROVE OneDialInv'
  <2>1. op[c] = "connect" /\ pc[c] = "lockCreate"
    BY <1>7 DEF LockCreate
  <2>2. \E l \in {"creating", "reportError"} : pc' = [pc EXCEPT ![c] = l]
    BY <1>7, <2>1 DEF LockCreate, StartFails, Goto
  <2>3. UNCHANGED <<status, op, hnd>>
    BY <1>7, <2>1 DEF LockCreate, StartFails
  <2> QED
    BY <2>1, <2>2, <2>3
<1>8. ASSUME NEW c \in Calls, CreateTunnel(c) PROVE OneDialInv'
  <2>0. (\A t \in Tunnels : ~Writer(t)) /\ op[c] = "connect" /\ pc[c] = "creating" /\ status = "connecting"
    BY <1>8 DEF CreateTunnel
  <2>1. CASE StartFails(c) /\ UNCHANGED <<tasks, tunnels>>
    <3>1. pc' = [pc EXCEPT ![c] = "reportError"] /\ UNCHANGED op
      BY <2>0, <2>1 DEF StartFails, Goto
    <3> QED
      BY <1>8, <2>0, <2>1, <3>1 DEF CreateTunnel
  <2>2. ASSUME NEW t \in Unused, hnd' = [hnd EXCEPT ![t] = "none"],
               Goto(c, "readMtu"), UNCHANGED op
        PROVE  OneDialInv'
    BY <1>8, <2>0, <2>2 DEF CreateTunnel, Goto, Unused
  <2> QED
    BY <1>8, <2>1, <2>2 DEF CreateTunnel
<1>9. ASSUME NEW c \in Calls, Track(c) PROVE OneDialInv'
  BY <1>9 DEF Track, Goto
<1>10. ASSUME NEW c \in Calls, SetConnecting(c) PROVE OneDialInv'
  BY <1>10 DEF SetConnecting, SetStatus, Return, Goto
<1>11. ASSUME NEW c \in Calls, HangUp(c) PROVE OneDialInv'
  BY <1>11 DEF HangUp, Return, Goto
<1>12. ASSUME NEW t \in Tunnels, Report(t) PROVE OneDialInv'
  BY <1>12 DEF Report
<1>13. ASSUME NEW t \in Tunnels, Exit(t) PROVE OneDialInv'
  BY <1>13 DEF Exit
<1>14. ASSUME NEW t \in Tunnels, Recv(t) PROVE OneDialInv'
  BY <1>14 DEF Recv
<1>15. ASSUME NEW t \in Tunnels, RecvClosed(t) PROVE OneDialInv'
  <2>1. \E l \in HandlerPcs : hnd' = [hnd EXCEPT ![t] = l]
    BY <1>15 DEF RecvClosed, Resume, HandlerEnds, HandlerPcs
  <2>2. UNCHANGED <<status, pc, op>> /\ Writer(t)
    BY <1>15 DEF RecvClosed
  <2> QED
    BY <2>1, <2>2
<1>16. ASSUME NEW t \in Tunnels, LockForward(t) PROVE OneDialInv'
  <2>1. \E l \in HandlerPcs : hnd' = [hnd EXCEPT ![t] = l]
    BY <1>16 DEF LockForward, Resume, HandlerEnds, HandlerPcs
  <2>2. UNCHANGED <<status, pc, op>> /\ Writer(t)
    BY <1>16 DEF LockForward
  <2> QED
    BY <2>1, <2>2
<1>17. ASSUME NEW t \in Tunnels, Forwarded(t) PROVE OneDialInv'
  <2>1. \E l \in HandlerPcs : hnd' = [hnd EXCEPT ![t] = l]
    BY <1>17 DEF Forwarded, Resume, HandlerEnds, HandlerPcs
  <2>2. UNCHANGED <<status, pc, op>> /\ Writer(t)
    BY <1>17 DEF Forwarded
  <2> QED
    BY <2>1, <2>2
<1>18. ASSUME NEW t \in Tunnels, WriteFail(t) PROVE OneDialInv'
  <2>1. Writer(t) /\ UNCHANGED <<pc, op>> /\ \A c \in Calls : ~Dialing(c)
    BY <1>18 DEF WriteFail
  <2>2. hnd' = [hnd EXCEPT ![t] = "done"]
    BY <1>18 DEF WriteFail, Resume, HandlerEnds
  <2> QED
    BY <2>1, <2>2
<1>19. ASSUME NEW t \in Tunnels, Apply(t) PROVE OneDialInv'
  <2>1. Writer(t) /\ UNCHANGED <<pc, op>> /\ \A c \in Calls : ~Dialing(c)
    BY <1>19 DEF Apply
  <2>2. \/ status' \in Busy /\ hnd' = [hnd EXCEPT ![t] = "recv"]
        \/ hnd' = [hnd EXCEPT ![t] = "dropConnector"]
    BY <1>19, <2>1 DEF Apply, SetStatus, Resume
  <2>3. CASE status' \in Busy /\ hnd' = [hnd EXCEPT ![t] = "recv"]
    BY <2>1, <2>3
  <2>4. CASE hnd' = [hnd EXCEPT ![t] = "dropConnector"]
    BY <2>1, <2>4
  <2> QED
    BY <2>2, <2>3, <2>4
<1>20. ASSUME NEW t \in Tunnels, Fallback(t) PROVE OneDialInv'
  <2>1. \E l \in HandlerPcs : hnd' = [hnd EXCEPT ![t] = l]
    BY <1>20 DEF Fallback, Resume, HandlerEnds, HandlerPcs
  <2>2. UNCHANGED <<status, pc, op>> /\ Writer(t)
    BY <1>20 DEF Fallback
  <2> QED
    BY <2>1, <2>2
<1>21. ASSUME NEW t \in Tunnels, WriteExit(t) PROVE OneDialInv'
  <2>1. Writer(t) /\ UNCHANGED <<pc, op>> /\ \A c \in Calls : ~Dialing(c)
    BY <1>21 DEF WriteExit
  <2>2. hnd' = [hnd EXCEPT ![t] = "dropConnector"]
    BY <1>21 DEF WriteExit, Resume, HandlerEnds
  <2> QED
    BY <2>1, <2>2
<1>22. ASSUME NEW t \in Tunnels, HandlerDropsConnector(t) PROVE OneDialInv'
  BY <1>22 DEF HandlerDropsConnector, Resume
<1>23. ASSUME NEW t \in Tunnels, HandlerDropsSession(t) PROVE OneDialInv'
  BY <1>23 DEF HandlerDropsSession, HandlerEnds
<1>24. ASSUME NEW t \in Tunnels, HandlerAborted(t) PROVE OneDialInv'
  BY <1>24 DEF HandlerAborted, HandlerEnds
<1>26. ASSUME NEW c \in Calls, ReadMtu(c) PROVE OneDialInv'
  BY <1>26 DEF ReadMtu, Goto
<1>25. CASE UNCHANGED vars
  BY <1>25 DEF vars
<1> QED
  BY <1>0, <1>1, <1>2, <1>3, <1>4, <1>5, <1>6, <1>7, <1>8, <1>9, <1>10, <1>11, <1>12, <1>13,
     <1>14, <1>15, <1>16, <1>17, <1>18, <1>19, <1>20, <1>21, <1>22, <1>23, <1>24, <1>25, <1>26
     DEF Next, Begin, CallStep, ConnectStep, StartStep, HandlerStep, TunnelStep

(* While callers only connect, two attempts never overlap and the status   *)
(* is `connecting' until the attempt's tunnel exists or it has failed.     *)
THEOREM OneDial ==
    ASSUME Ops = {"connect"}
    PROVE  Spec => []OneDialAtATime
<1>1. Init => OneDialInv
  BY DEF Init, OneDialInv, OnlyConnects, Dialing, Writer, DialPcs, ConnectPcs, StartPcs
<1>2. TypeOK /\ OneDialInv /\ [Next]_vars => OneDialInv'
  BY OneDialStep
<1>3. OneDialInv => OneDialAtATime
  BY DEF OneDialInv, OneDialAtATime
<1> QED
  BY <1>1, <1>2, <1>3, TypeCorrect, PTL DEF Spec

-----------------------------------------------------------------------------
(* The status a caller that only connects leaves behind.  Nobody sets the  *)
(* flag or aborts a handler, so a handler stops writing only by a write    *)
(* that leaves `connected'.                                                *)
WatchedInv ==
    /\ ~flag /\ aborted = {}
    /\ status = "connected" => \E t \in Tunnels : Writer(t)

(* The steps of callers that only connect.                                 *)
LEMMA OnlyConnectSteps ==
    ASSUME Ops = {"connect"}, OnlyConnects, [Next]_vars
    PROVE  \/ \E c \in Calls : \/ BeginConnect(c) \/ ClearFlag(c) \/ Dial(c) \/ StoreConnector(c)
                               \/ ReportMfa(c) \/ ReportError(c) \/ StartStep(c) \/ HangUp(c)
           \/ \E t \in Tunnels : TunnelStep(t) \/ HandlerStep(t)
           \/ UNCHANGED vars
<1> USE DEF OnlyConnects, ConnectPcs, StartPcs, DialPcs
<1>1. ASSUME NEW c \in Calls,
             \/ BeginDisconnect(c) \/ BeginReconnect(c) \/ BeginChallenge(c)
             \/ Redial(c) \/ DisconnectStep(c) \/ ChallengeStep(c)
      PROVE  FALSE
  <2>1. ~BeginDisconnect(c) /\ ~BeginReconnect(c) /\ ~BeginChallenge(c)
    BY DEF BeginDisconnect, BeginReconnect, BeginChallenge
  <2>2. ~Redial(c)
    BY DEF Redial
  <2>3. ~DisconnectStep(c)
    BY DEF DisconnectStep, SetFlag, LockTerminate, Terminated, DropConnector,
           DropSession, Drain, SetDisconnected
  <2>4. ~ChallengeStep(c)
    BY DEF ChallengeStep, LockChallenge, Answered, StoreAnswer
  <2> QED
    BY <1>1, <2>1, <2>2, <2>3, <2>4
<1> QED
  BY <1>1 DEF Next, Begin, CallStep, ConnectStep

(* What a call that only connects does to the status, the flag and the     *)
(* handlers.                                                               *)
LEMMA ConnectMoves ==
    ASSUME TypeOK, OnlyConnects, NEW c \in Calls,
           \/ BeginConnect(c) \/ ClearFlag(c) \/ Dial(c) \/ StoreConnector(c)
           \/ ReportMfa(c) \/ ReportError(c) \/ StartStep(c) \/ HangUp(c)
    PROVE  /\ UNCHANGED flag \/ flag' = FALSE
           /\ aborted' \subseteq aborted
           /\ \A t \in Tunnels : hnd'[t] = hnd[t] \/ hnd'[t] = "recv" \/ ~Writer(t)
           /\ UNCHANGED status \/ status' # "connected"
<1> USE DEF TypeOK, shared, callers, tunnels
<1>1. CASE BeginConnect(c)
  BY <1>1 DEF BeginConnect, Admit
<1>2. CASE ClearFlag(c) \/ Dial(c) \/ StoreConnector(c) \/ HangUp(c)
  BY <1>2 DEF ClearFlag, Dial, StoreConnector, HangUp
<1>3. CASE ReportMfa(c) \/ ReportError(c) \/ Track(c) \/ SetConnecting(c)
  BY <1>3 DEF ReportMfa, ReportError, SetStatus, Track, SetConnecting
<1>4. CASE LockCreate(c)
  BY <1>4 DEF LockCreate
<1>5. CASE CreateTunnel(c)
  BY <1>5 DEF CreateTunnel, Unused, Writer
<1>6. CASE ReadMtu(c)
  BY <1>6 DEF ReadMtu
<1> QED
  BY <1>1, <1>2, <1>3, <1>4, <1>5, <1>6 DEF StartStep

LEMMA WatchedStep ==
    ASSUME Ops = {"connect"}, TypeOK, OneDialInv, WatchedInv, [Next]_vars
    PROVE  WatchedInv'
<1> USE DEF TypeOK, WatchedInv, Writer
<1>1. ASSUME NEW c \in Calls,
             \/ BeginConnect(c) \/ ClearFlag(c) \/ Dial(c) \/ StoreConnector(c)
             \/ ReportMfa(c) \/ ReportError(c) \/ StartStep(c) \/ HangUp(c)
      PROVE  WatchedInv'
  BY <1>1, ConnectMoves DEF OneDialInv
<1>2. ASSUME NEW t \in Tunnels, TunnelStep(t) PROVE WatchedInv'
  BY <1>2 DEF TunnelStep, Report, Exit, shared
<1>3. ASSUME NEW t \in Tunnels, Recv(t) \/ RecvClosed(t) \/ LockForward(t) \/ Fallback(t)
      PROVE  WatchedInv'
  <2>1. UNCHANGED <<status, flag, aborted>>
    BY <1>3 DEF Recv, RecvClosed, LockForward, Fallback, shared
  <2>2. PICK l \in HandlerPcs : hnd' = [hnd EXCEPT ![t] = l] /\ l \in {"fallback", "lockForward", "writeExit", "forwarding", "apply"}
    BY <1>3 DEF Recv, RecvClosed, LockForward, Fallback, Resume, HandlerPcs
  <2> QED
    BY <2>1, <2>2
<1>4. ASSUME NEW t \in Tunnels, Forwarded(t) PROVE WatchedInv'
  BY <1>4 DEF Forwarded, Resume
<1>5. ASSUME NEW t \in Tunnels, Apply(t) PROVE WatchedInv'
  <2>1. CASE ev[t] = "connected"
    BY <1>5, <2>1 DEF Apply, SetStatus, Resume
  <2>2. CASE ev[t] = "disconnected"
    BY <1>5, <2>2 DEF Apply
  <2>3. CASE ev[t] = "other"
    BY <1>5, <2>3 DEF Apply, Resume
  <2> QED
    BY <1>5, <2>1, <2>2, <2>3 DEF Apply
<1>6. ASSUME NEW t \in Tunnels, WriteFail(t) \/ WriteExit(t) PROVE WatchedInv'
  BY <1>6 DEF WriteFail, SetStatus, WriteExit
<1>7. ASSUME NEW t \in Tunnels, HandlerDropsConnector(t) \/ HandlerDropsSession(t)
      PROVE  WatchedInv'
  BY <1>7 DEF HandlerDropsConnector, HandlerDropsSession, Resume, HandlerEnds
<1>8. ASSUME NEW t \in Tunnels, HandlerAborted(t) PROVE WatchedInv'
  BY <1>8 DEF HandlerAborted
<1>9. CASE UNCHANGED vars
  BY <1>9 DEF vars, shared, tunnels
<1> QED
  BY <1>1, <1>2, <1>3, <1>4, <1>5, <1>6, <1>7, <1>8, <1>9, OnlyConnectSteps
    DEF HandlerStep, OneDialInv

(* While callers only connect, a status of `connected' is never left       *)
(* without a handler that will write the loss of the tunnel: however       *)
(* attempts race, hang up and fail, and whatever the tunnels report.       *)
THEOREM ConnectedStaysWatched ==
    ASSUME Ops = {"connect"}
    PROVE  Spec => []ConnectedIsWatched
<1>1. Init => OneDialInv /\ WatchedInv
  BY DEF Init, OneDialInv, OnlyConnects, Dialing, Writer, DialPcs, ConnectPcs, StartPcs,
     WatchedInv
<1>2. TypeOK /\ OneDialInv /\ [Next]_vars => OneDialInv'
  BY OneDialStep
<1>3. TypeOK /\ OneDialInv /\ WatchedInv /\ [Next]_vars => WatchedInv'
  BY WatchedStep
<1>4. WatchedInv => ConnectedIsWatched
  BY DEF WatchedInv, ConnectedIsWatched, Writer, Live
<1> QED
  BY <1>1, <1>2, <1>3, <1>4, TypeCorrect, PTL DEF Spec

-----------------------------------------------------------------------------
(* The life cycle: what each step may write over.                          *)
LEMMA LifecycleStep ==
    ASSUME Ops = {"connect"}, TypeOK, OneDialInv, [Next]_vars
    PROVE  [Watched!Next]_status
<1> USE DEF TypeOK, Status, Watched!Next, Watched!Attempt, Watched!AskForCode, Watched!ComeUp,
            Watched!Fail, Watched!Retract, Watched!Rest
<1>1. ASSUME NEW c \in Calls, BeginConnect(c) PROVE [Watched!Next]_status
  BY <1>1 DEF BeginConnect, Admit, Busy
<1>2. ASSUME NEW c \in Calls,
             \/ ClearFlag(c) \/ Dial(c) \/ StoreConnector(c) \/ HangUp(c)
             \/ LockCreate(c) \/ CreateTunnel(c) \/ ReadMtu(c) \/ Track(c)
      PROVE  [Watched!Next]_status
  BY <1>2 DEF ClearFlag, Dial, StoreConnector, HangUp, LockCreate, CreateTunnel, ReadMtu,
     Track, shared
<1>3. ASSUME NEW c \in Calls, ReportMfa(c) \/ ReportError(c) PROVE [Watched!Next]_status
  <2>1. status = "connecting"
    BY <1>3 DEF ReportMfa, ReportError, Dialing, OneDialInv
  <2> QED
    BY <1>3, <2>1 DEF ReportMfa, ReportError, SetStatus
(* Whatever the handler wrote before its starter returns: the starter      *)
(* writes `connecting' again.                                              *)
<1>4. ASSUME NEW c \in Calls, SetConnecting(c) PROVE [Watched!Next]_status
  BY <1>4 DEF SetConnecting, SetStatus
<1>5. ASSUME NEW t \in Tunnels, WriteFail(t) \/ Apply(t) \/ WriteExit(t)
      PROVE  [Watched!Next]_status
  <2>1. status \in {"connected", "connecting"}
    BY <1>5 DEF WriteFail, Apply, WriteExit, Writer, OneDialInv, Busy
  <2> QED
    BY <1>5, <2>1 DEF WriteFail, Apply, WriteExit, SetStatus
<1>6. ASSUME NEW t \in Tunnels,
             \/ TunnelStep(t) \/ Recv(t) \/ RecvClosed(t) \/ LockForward(t) \/ Forwarded(t)
             \/ Fallback(t) \/ HandlerDropsConnector(t) \/ HandlerDropsSession(t)
             \/ HandlerAborted(t)
      PROVE  [Watched!Next]_status
  BY <1>6 DEF TunnelStep, Report, Exit, Recv, RecvClosed, LockForward, Forwarded, Fallback,
     HandlerDropsConnector, HandlerDropsSession, HandlerAborted, shared
<1>7. CASE UNCHANGED vars
  BY <1>7 DEF vars, shared
<1> QED
  BY <1>1, <1>2, <1>3, <1>4, <1>5, <1>6, <1>7, OnlyConnectSteps
     DEF HandlerStep, StartStep, OneDialInv

(* connect() refines the life cycle its watchers rely on: while callers    *)
(* only connect, and whenever their tunnels report, every write of the     *)
(* status is an attempt from rest or from the MFA gate, its one outcome,   *)
(* the loss of a tunnel, or start_tunnel's last write over one that is up. *)
THEOREM ConnectImplementsLifecycle ==
    ASSUME Ops = {"connect"}
    PROVE  Spec => ImplementsLifecycle
<1>1. Init => OneDialInv /\ Watched!Init
  BY DEF Init, OneDialInv, OnlyConnects, Dialing, Writer, DialPcs, ConnectPcs, StartPcs,
     Watched!Init
<1>2. TypeOK /\ OneDialInv /\ [Next]_vars => OneDialInv'
  BY OneDialStep
<1>3. TypeOK /\ OneDialInv /\ [Next]_vars => [Watched!Next]_status
  BY LifecycleStep
<1> QED
  BY <1>1, <1>2, <1>3, TypeCorrect, PTL DEF Spec, ImplementsLifecycle, Watched!Spec

-----------------------------------------------------------------------------
(* One caller that stays until its calls have returned.                    *)

(* How far a disconnect() that has set the flag has come, and that what it *)
(* has cleared stays cleared until a connect() clears the flag.            *)
Clearing ==
    \A c \in Calls : flag =>
        /\ pc[c] \in DisconnectPcs \cup {"idle", "redial", "clearFlag"}
        /\ pc[c] \in {"dropSession", "drain", "setDisconnected", "redial", "clearFlag", "idle"}
              => ~connector
        /\ pc[c] \in {"drain", "setDisconnected", "redial", "clearFlag", "idle"}
              => session = "none"
        /\ pc[c] \in {"setDisconnected", "redial", "clearFlag", "idle"}
              => tasks = {}

LEMMA ClearingStep ==
    ASSUME NEW c, Calls = {c}, HangUps = {}, TypeOK, Clearing, [Next]_vars
    PROVE  Clearing'
<1> USE DEF TypeOK, Clearing
<1>0. c \in Calls /\ \A d \in Calls : d = c
  OBVIOUS
<1>1. CASE \/ Dial(c) \/ StoreConnector(c) \/ ReportMfa(c) \/ ReportError(c)
           \/ StartStep(c) \/ ChallengeStep(c)
  <2>1. UNCHANGED flag /\ pc[c] \notin DisconnectPcs \cup {"idle", "redial", "clearFlag"}
    BY <1>1 DEF Dial, StoreConnector, ReportMfa, ReportError, StartStep, LockCreate,
       CreateTunnel, ReadMtu, Track, SetConnecting, ChallengeStep, LockChallenge, Answered,
       StoreAnswer, DisconnectPcs, shared
  <2> QED
    BY <1>0, <2>1
<1>2. CASE BeginConnect(c) \/ Redial(c)
  <2>1. PICK l \in {"clearFlag", "idle"} : pc' = [pc EXCEPT ![c] = l]
    BY <1>2 DEF BeginConnect, Redial, Admit, Goto, Return
  <2>2. UNCHANGED <<flag, connector, session, tasks>> /\ pc[c] \in {"idle", "redial"}
    BY <1>2 DEF BeginConnect, Redial, Admit, shared
  <2> QED
    BY <1>0, <2>1, <2>2
<1>3. CASE ClearFlag(c)
  BY <1>0, <1>3 DEF ClearFlag
<1>4. CASE BeginDisconnect(c) \/ BeginReconnect(c)
  <2>1. PICK l \in {"setFlag", "redial"} : pc' = [pc EXCEPT ![c] = l]
    BY <1>4 DEF BeginDisconnect, BeginReconnect, Goto
  <2>2. UNCHANGED <<flag, connector, session, tasks>> /\ pc[c] = "idle"
    BY <1>4 DEF BeginDisconnect, BeginReconnect, shared
  <2> QED
    BY <1>0, <2>1, <2>2 DEF DisconnectPcs
<1>5. CASE BeginChallenge(c)
  <2>1. ~flag /\ UNCHANGED flag
    BY <1>0, <1>5 DEF BeginChallenge, shared
  <2> QED
    BY <2>1
<1>6. CASE SetFlag(c)
  BY <1>0, <1>6 DEF SetFlag, Goto, DisconnectPcs
<1>7. CASE LockTerminate(c) \/ Terminated(c)
  <2>1. PICK l \in {"terminating", "dropConnector"} : pc' = [pc EXCEPT ![c] = l]
    BY <1>7 DEF LockTerminate, Terminated, Goto
  <2> QED
    BY <1>0, <2>1 DEF DisconnectPcs
<1>8. CASE DropConnector(c)
  BY <1>0, <1>8 DEF DropConnector, Goto, DisconnectPcs
<1>9. CASE DropSession(c)
  BY <1>0, <1>9 DEF DropSession, Goto, DisconnectPcs
<1>10. CASE Drain(c)
  BY <1>0, <1>10 DEF Drain, Goto, DisconnectPcs
<1>11. CASE SetDisconnected(c)
  <2>1. PICK l \in {"redial", "idle"} : pc' = [pc EXCEPT ![c] = l]
    BY <1>11 DEF SetDisconnected, Goto, Return
  <2>2. UNCHANGED <<flag, connector, session, tasks>> /\ pc[c] = "setDisconnected"
    BY <1>11 DEF SetDisconnected
  <2> QED
    BY <1>0, <2>1, <2>2
<1>12. ASSUME NEW t \in Tunnels, TunnelStep(t) \/ HandlerStep(t) PROVE Clearing'
  <2>1. UNCHANGED <<pc, flag, tasks>> /\ connector' \in {connector, FALSE}
        /\ session' \in {session, "none"}
    BY <1>12 DEF TunnelStep, Report, Exit, HandlerStep, Recv, RecvClosed, LockForward, Forwarded,
       WriteFail, Apply, Fallback, WriteExit, HandlerDropsConnector, HandlerDropsSession,
       HandlerAborted, shared, callers
  <2> QED
    BY <2>1
<1>13. CASE UNCHANGED vars
  BY <1>13 DEF vars, shared, callers
<1>14. ~HangUp(c)
  BY DEF HangUp
<1> QED
  BY <1>0, <1>1, <1>2, <1>3, <1>4, <1>5, <1>6, <1>7, <1>8, <1>9, <1>10, <1>11, <1>12, <1>13, <1>14
     DEF Next, Begin, CallStep, ConnectStep, DisconnectStep

(* disconnect() leaves nothing behind: whichever attempts failed half-way  *)
(* before it, and whatever the tunnels and their handlers still do, no     *)
(* connector, session or task is left while the flag it set stands. The    *)
(* caller stays to the end of its calls, and nobody calls beside it.       *)
THEOREM DisconnectIsClean ==
    ASSUME NEW c, Calls = {c}, HangUps = {}
    PROVE  Spec => []CleanDisconnect
<1>1. Init => Clearing
  BY DEF Init, Clearing
<1>2. TypeOK /\ Clearing /\ [Next]_vars => Clearing'
  BY ClearingStep
<1>3. Clearing => CleanDisconnect
  BY DEF Clearing, CleanDisconnect, Idle
<1> QED
  BY <1>1, <1>2, <1>3, TypeCorrect, PTL DEF Spec

-----------------------------------------------------------------------------
(* What leaves the status stuck on `connecting', whatever overlaps.        *)

(* A call that dials is one of connect() or reconnect().                   *)
DialersConnect ==
    \A c \in Calls : pc[c] \in DialPcs \cup {"redial"} => op[c] # "challenge"

LEMMA DialersStep == TypeOK /\ DialersConnect /\ [Next]_vars => DialersConnect'
<1> SUFFICES ASSUME TypeOK, DialersConnect, [Next]_vars PROVE DialersConnect'
  OBVIOUS
<1> USE DEF TypeOK, DialersConnect, DialPcs
<1>1. ASSUME NEW c \in Calls, Begin(c) PROVE DialersConnect'
  <2>1. PICK l \in {"clearFlag", "setFlag", "redial", "lockChallenge"},
             o \in {"connect", "reconnect", "disconnect", "challenge"} :
          /\ pc' = [pc EXCEPT ![c] = l]
          /\ op' = [op EXCEPT ![c] = o]
          /\ l \in {"clearFlag", "redial"} => o # "challenge"
    BY <1>1 DEF Begin, BeginConnect, Admit, BeginDisconnect, BeginReconnect, BeginChallenge, Goto
  <2> QED
    BY <2>1
<1>2. ASSUME NEW c \in Calls, pc[c] \in DialPcs \cup {"redial"}, ConnectStep(c)
      PROVE  DialersConnect'
  <2>1. \/ Return(c)
        \/ UNCHANGED op /\ \E l \in CallPcs : pc' = [pc EXCEPT ![c] = l]
    BY <1>2 DEF ConnectStep, Redial, Admit, ClearFlag, Dial, StoreConnector, ReportMfa, ReportError,
       Goto, CallPcs, ConnectPcs, StartPcs
  <2> QED
    BY <1>2, <2>1 DEF Return, Goto
<1>3. ASSUME NEW c \in Calls,
             \/ ReportMfa(c) \/ ReportError(c) \/ StartStep(c) \/ DisconnectStep(c)
             \/ ChallengeStep(c) \/ HangUp(c)
      PROVE  DialersConnect'
  <2>1. \/ Return(c)
        \/ UNCHANGED op /\ \E l \in CallPcs \ (DialPcs \cup {"redial"}) :
             pc' = [pc EXCEPT ![c] = l]
        \/ UNCHANGED op /\ op[c] = "reconnect" /\ pc' = [pc EXCEPT ![c] = "redial"]
    BY <1>3 DEF ReportMfa, ReportError, StartStep, LockCreate, CreateTunnel, StartFails, ReadMtu,
       Track, SetConnecting, DisconnectStep, SetFlag, LockTerminate, Terminated, DropConnector,
       DropSession, Drain, SetDisconnected, ChallengeStep, LockChallenge, Answered, StoreAnswer,
       HangUp, Goto, CallPcs, ConnectPcs, StartPcs, DisconnectPcs, ChallengePcs
  <2> QED
    BY <2>1 DEF Return, Goto
<1>4. ASSUME NEW t \in Tunnels, TunnelStep(t) \/ HandlerStep(t) PROVE DialersConnect'
  BY <1>4 DEF TunnelStep, Report, Exit, HandlerStep, Recv, RecvClosed, LockForward, Forwarded,
     WriteFail, Apply, Fallback, WriteExit, HandlerDropsConnector, HandlerDropsSession,
     HandlerAborted, callers
<1>5. CASE UNCHANGED vars
  BY <1>5 DEF vars, callers
<1>6. ASSUME NEW c \in Calls, Redial(c) \/ ClearFlag(c) \/ Dial(c) \/ StoreConnector(c)
      PROVE  pc[c] \in DialPcs \cup {"redial"}
  BY <1>6 DEF Redial, ClearFlag, Dial, StoreConnector
<1> QED
  BY <1>1, <1>2, <1>3, <1>4, <1>5, <1>6 DEF Next, CallStep, ConnectStep

(* A step that touches neither the status nor the handlers, and after      *)
(* which whoever was going to move the status still is.                    *)
LEMMA MoversStay ==
    ASSUME ~Stuck, UNCHANGED <<status, flag, hnd, aborted>>,
           \A d \in Calls : Moves(d) => Moves(d)'
    PROVE  ~Stuck'
BY DEF Stuck, Writer

LEMMA CallSticks ==
    ASSUME TypeOK, DialersConnect, ~Stuck, NEW c \in Calls,
           Begin(c) \/ CallStep(c), ~SetConnecting(c)
    PROVE  ~Stuck'
<1> USE DEF TypeOK
<1>1. CASE \/ BeginConnect(c) \/ BeginDisconnect(c)
           \/ ClearFlag(c) \/ Dial(c) \/ ReadMtu(c) \/ Track(c) \/ SetFlag(c)
           \/ LockTerminate(c) \/ Terminated(c) \/ DropConnector(c) \/ DropSession(c) \/ Drain(c)
  <2>1. \E l \in ConnectPcs \cup DisconnectPcs \cup {"readMtu", "tracking", "setConnecting"} :
          pc' = [pc EXCEPT ![c] = l]
    BY <1>1 DEF BeginConnect, Admit, BeginDisconnect, ClearFlag, Dial, ReadMtu, Track, SetFlag,
       LockTerminate, Terminated, DropConnector, DropSession, Drain, Goto, ConnectPcs, DialPcs,
       DisconnectPcs
  <2> QED
    BY <2>1 DEF Stuck, Moves
<1>2. CASE ReportMfa(c) \/ ReportError(c) \/ SetDisconnected(c)
  BY <1>2 DEF ReportMfa, ReportError, SetDisconnected, SetStatus, Stuck
<1>3. CASE Redial(c)
  <2>1. CASE Admit(c)
    BY <2>1 DEF Admit, Goto, Stuck, Moves, ConnectPcs, DialPcs
  <2>2. CASE Return(c) /\ UNCHANGED <<shared, tunnels>>
    <3>1. \A d \in Calls : Moves(d) => Moves(d)'
      BY <1>3, <2>2 DEF Redial, Return, Goto, Moves, ConnectPcs, DialPcs, DisconnectPcs
    <3> QED
      BY <2>2, <3>1, MoversStay DEF shared, tunnels
  <2> QED
    BY <1>3, <2>1, <2>2 DEF Redial
<1>4. CASE StoreConnector(c)
  <2>1. op[c] # "challenge" /\ UNCHANGED op
    BY <1>4 DEF StoreConnector, DialersConnect, DialPcs
  <2>2. \E l \in {"reportMfa", "lockCreate"} : pc' = [pc EXCEPT ![c] = l]
    BY <1>4 DEF StoreConnector, Goto
  <2> QED
    BY <2>1, <2>2 DEF Stuck, Moves, ConnectPcs
<1>5. CASE LockCreate(c)
  <2>1. UNCHANGED <<status, flag, hnd, aborted>>
    BY <1>5 DEF LockCreate, tunnels
  <2>2. \A d \in Calls : Moves(d) => Moves(d)'
    <3>1. CASE connector
      BY <1>5, <3>1 DEF LockCreate, Goto, Moves, ConnectPcs, DialPcs, DisconnectPcs
    <3>2. CASE ~connector /\ op[c] = "challenge"
      BY <1>5, <3>2 DEF LockCreate, StartFails, Return, Goto, Moves, ConnectPcs, DialPcs,
         DisconnectPcs
    <3>3. CASE ~connector /\ op[c] # "challenge"
      BY <1>5, <3>3 DEF LockCreate, StartFails, Goto, Moves, ConnectPcs
    <3> QED
      BY <3>1, <3>2, <3>3
  <2> QED
    BY <2>1, <2>2, MoversStay
<1>6. CASE CreateTunnel(c)
  <2>1. CASE Goto(c, "readMtu")
    BY <2>1 DEF Goto, Stuck, Moves
  <2>2. CASE StartFails(c) /\ UNCHANGED tunnels
    <3>1. \A d \in Calls : Moves(d) => Moves(d)'
      <4>1. CASE op[c] = "challenge"
        BY <1>6, <2>2, <4>1 DEF CreateTunnel, StartFails, Return, Goto, Moves, ConnectPcs, DialPcs,
           DisconnectPcs
      <4>2. CASE op[c] # "challenge"
        BY <1>6, <2>2, <4>2 DEF CreateTunnel, StartFails, Goto, Moves, ConnectPcs
      <4> QED
        BY <4>1, <4>2
    <3> QED
      BY <1>6, <2>2, <3>1, MoversStay DEF CreateTunnel, tunnels
  <2> QED
    BY <1>6, <2>1, <2>2 DEF CreateTunnel
<1>7. CASE BeginReconnect(c)
  <2>1. CASE status = "disconnected"
    BY <1>7, <2>1 DEF BeginReconnect, shared, Stuck
  <2>2. CASE status # "disconnected"
    BY <1>7, <2>2 DEF BeginReconnect, Goto, Stuck, Moves, DisconnectPcs
  <2> QED
    BY <2>1, <2>2
<1>8. CASE BeginChallenge(c) \/ ChallengeStep(c)
  <2>1. UNCHANGED <<status, flag, hnd, aborted>>
    BY <1>8 DEF BeginChallenge, ChallengeStep, LockChallenge, Answered, StoreAnswer, shared, tunnels
  <2>2. ~Moves(c)
    BY <1>8 DEF BeginChallenge, ChallengeStep, LockChallenge, Answered, StoreAnswer, Moves,
       ConnectPcs, DialPcs, DisconnectPcs
  <2>3. \A d \in Calls : d # c => pc'[d] = pc[d] /\ op'[d] = op[d]
    BY <1>8 DEF BeginChallenge, ChallengeStep, LockChallenge, Answered, StoreAnswer, Return, Goto
  <2> QED
    BY <2>1, <2>2, <2>3, MoversStay DEF Moves
<1> QED
  BY <1>1, <1>2, <1>3, <1>4, <1>5, <1>6, <1>7, <1>8
     DEF Begin, CallStep, ConnectStep, StartStep, DisconnectStep

(* A handler that nothing silences goes on until it has written a status,  *)
(* and no handler writes `connecting'.                                     *)
LEMMA HandlerSticks ==
    ASSUME TypeOK, ~Stuck, NEW t \in Tunnels, TunnelStep(t) \/ HandlerStep(t)
    PROVE  ~Stuck'
<1> USE DEF TypeOK
<1>1. UNCHANGED <<pc, op, flag, aborted>>
  BY DEF TunnelStep, Report, Exit, HandlerStep, Recv, RecvClosed, LockForward, Forwarded,
     WriteFail, Apply, Fallback, WriteExit, HandlerDropsConnector, HandlerDropsSession,
     HandlerAborted, shared, callers
<1>2. UNCHANGED status \/ status' # "connecting"
  BY DEF TunnelStep, Report, Exit, HandlerStep, Recv, RecvClosed, LockForward, Forwarded,
     WriteFail, Apply, Fallback, WriteExit, HandlerDropsConnector, HandlerDropsSession,
     HandlerAborted, SetStatus, shared
<1>3. \A u \in Tunnels : u # t => hnd'[u] = hnd[u]
  BY DEF TunnelStep, Report, Exit, HandlerStep, Recv, RecvClosed, LockForward, Forwarded,
     WriteFail, Apply, Fallback, WriteExit, HandlerDropsConnector, HandlerDropsSession,
     HandlerAborted, Resume, HandlerEnds
<1>4. Writer(t) /\ ~flag /\ t \notin aborted => Writer(t)' \/ status' # "connecting"
  <2> SUFFICES ASSUME Writer(t), ~flag, t \notin aborted
               PROVE  Writer(t)' \/ status' # "connecting"
    OBVIOUS
  <2> USE DEF Writer
  <2>1. CASE TunnelStep(t)
    BY <2>1 DEF TunnelStep, Report, Exit
  <2>2. CASE Recv(t) \/ RecvClosed(t) \/ LockForward(t) \/ Forwarded(t) \/ Fallback(t)
    BY <2>2 DEF Recv, RecvClosed, LockForward, Forwarded, Fallback, Resume
  <2>3. CASE WriteFail(t) \/ WriteExit(t)
    BY <2>3 DEF WriteFail, WriteExit, SetStatus
  <2>4. CASE Apply(t)
    BY <2>4 DEF Apply, SetStatus, Resume
  <2>5. CASE HandlerDropsConnector(t) \/ HandlerDropsSession(t) \/ HandlerAborted(t)
    BY <2>5 DEF HandlerDropsConnector, HandlerDropsSession, HandlerAborted
  <2> QED
    BY <2>1, <2>2, <2>3, <2>4, <2>5 DEF HandlerStep
<1> QED
  BY <1>1, <1>2, <1>3, <1>4 DEF Stuck, Moves, Writer

(* Whatever calls and tunnels overlap, the status is left on `connecting'  *)
(* with nobody to move it in two ways only: the future of a call is        *)
(* dropped, or start_tunnel writes `connecting' over a status that the     *)
(* end of its tunnel has already left behind.                              *)
THEOREM OnlyTheseStickConnecting == Spec => OnlyTheseStick
<1>1. Init => DialersConnect
  BY DEF Init, DialersConnect, DialPcs
<1>2. TypeOK /\ DialersConnect /\ [Next]_vars => DialersConnect'
  BY DialersStep
<1>3. TypeOK /\ DialersConnect /\ [Next]_vars =>
        [~Stuck /\ Stuck' => \E c \in Calls : HangUp(c) \/ SetConnecting(c)]_vars
  BY CallSticks, HandlerSticks DEF Next
<1> QED
  BY <1>1, <1>2, <1>3, TypeCorrect, PTL DEF Spec, OnlyTheseStick
=============================================================================
