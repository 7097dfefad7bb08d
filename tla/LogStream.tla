------------------------------- MODULE LogStream -------------------------------
(***************************************************************************)
(* The log of snx-edge-server as others see it: the ring buffer of the     *)
(* history (api/logs.rs), the broadcast channel every event goes through   *)
(* (log_layer.rs, the streams of api/logs.rs and api/events.rs), and the   *)
(* loop by which the window of the desktop client keeps a stream open      *)
(* (windows/logs.rs). A line is its number; 0 stands for any event that is *)
(* not a log line.                                                         *)
(***************************************************************************)
EXTENDS Integers, Sequences, FiniteSets

CONSTANTS
    Viewers,    \* streams
    RingCap,    \* capacity of the LogBuffer
    ChannelCap, \* capacity of the broadcast channel
    MaxDelay,   \* SSE_MAX_BACKOFF, in doublings of SSE_INITIAL_BACKOFF
    MaxEvents   \* bound: events in a behaviour

ASSUME CapAssumption == RingCap \in Nat \ {0} /\ ChannelCap \in Nat \ {0} /\ MaxDelay \in Nat

VARIABLES
    ring,      \* LogBuffer.entries
    writePos,  \* LogBuffer.write_pos
    kept,      \* history: the lines pushed, in order
    lines,     \* log lines so far
    sent,      \* history: the events sent; the channel holds the last ones
    viewer     \* per stream: its state, its receiver, and what it has got

logVars == <<ring, writePos, kept, lines, sent, viewer>>

Closed == [at |-> "closed", delay |-> 0, base |-> 0, next |-> 0, got |-> {}, missed |-> 0]

LogInit ==
    /\ ring = <<>> /\ writePos = 0 /\ kept = <<>> /\ lines = 0 /\ sent = <<>>
    /\ viewer = [v \in Viewers |-> Closed]

-----------------------------------------------------------------------------
(* The ring.                                                               *)

Push(line) ==
    /\ ring' = IF Len(ring) < RingCap THEN Append(ring, line)
               ELSE [ring EXCEPT ![writePos + 1] = line]
    /\ writePos' = (writePos + 1) % RingCap
    /\ kept' = Append(kept, line)

Smaller(m, n) == IF m < n THEN m ELSE n

Start(take) == (writePos + Len(ring) - take) % Len(ring)

LastN(n) ==
    LET take == Smaller(n, Len(ring))
    IN  IF Len(ring) < RingCap THEN SubSeq(ring, Len(ring) - take + 1, Len(ring))
        ELSE [i \in 1..take |-> ring[((Start(take) + i - 1) % Len(ring)) + 1]]

-----------------------------------------------------------------------------
(* The channel.                                                            *)

Listening == \E v \in Viewers : viewer[v].at = "open"
Broadcast(event) == sent' = IF Listening THEN Append(sent, event) ELSE sent

(* LogCaptureLayer::on_event. While a reader holds the buffer the line is  *)
(* not kept; without a stream it is not sent.                              *)
LogLine ==
    /\ Len(sent) < MaxEvents /\ lines < MaxEvents
    /\ lines' = lines + 1
    /\ Push(lines + 1) \/ UNCHANGED <<ring, writePos, kept>>
    /\ Broadcast(lines + 1)
    /\ UNCHANGED viewer

OtherEvent ==
    /\ Len(sent) < MaxEvents
    /\ Broadcast(0)
    /\ UNCHANGED <<ring, writePos, kept, lines, viewer>>

Set(v, r) == viewer' = [viewer EXCEPT ![v] = r] /\ UNCHANGED <<ring, writePos, kept, lines, sent>>

Oldest == IF Len(sent) > ChannelCap THEN Len(sent) - ChannelCap + 1 ELSE 1

(* The stream of logs: one event of the channel; others are passed over.   *)
Receive(v) ==
    LET r == viewer[v] IN
    /\ r.at = "open" /\ r.next <= Len(sent) /\ r.next >= Oldest
    /\ Set(v, [r EXCEPT !.next = @ + 1,
                        !.got = IF sent[r.next] = 0 THEN @ ELSE @ \cup {sent[r.next]}])

(* Mutant: like every error, a lag is passed over.                         *)
LagFrameSkipped(missed) == 0
LagFrame(missed) == missed

(* A receiver that the channel has left behind continues with the oldest   *)
(* event it holds, and the stream says how many it has missed.             *)
Lagged(v) ==
    LET r == viewer[v] IN
    /\ r.at = "open" /\ r.next < Oldest
    /\ Set(v, [r EXCEPT !.next = Oldest, !.missed = @ + LagFrame(Oldest - r.next)])

-----------------------------------------------------------------------------
(* The loop of the window.                                                 *)

OpenLogs(v) == viewer[v].at = "closed" /\ Set(v, [Closed EXCEPT !.at = "connecting"])
CloseLogs(v) == viewer[v].at # "closed" /\ Set(v, Closed)

(* A fresh receiver, and the delay begins anew.                            *)
StreamOpens(v) ==
    /\ viewer[v].at = "connecting"
    /\ Set(v, [Closed EXCEPT !.at = "open", !.base = Len(sent) + 1, !.next = Len(sent) + 1])

(* The next delay after this one: twice as long, up to the longest.        *)
Longer(delay) == Smaller(delay + 1, MaxDelay)

StreamBreaks(v) ==
    /\ viewer[v].at \in {"connecting", "open"}
    /\ Set(v, [Closed EXCEPT !.at = "waiting", !.delay = viewer[v].delay])

(* Mutant: the longest delay is the last.                                  *)
WaitOverUnlessLong(v) ==
    /\ viewer[v].at = "waiting" /\ viewer[v].delay < MaxDelay
    /\ Set(v, [Closed EXCEPT !.at = "connecting", !.delay = Longer(viewer[v].delay)])

WaitOver(v) ==
    /\ viewer[v].at = "waiting"
    /\ Set(v, [Closed EXCEPT !.at = "connecting", !.delay = Longer(viewer[v].delay)])

-----------------------------------------------------------------------------
LogNext ==
    \/ LogLine \/ OtherEvent
    \/ \E v \in Viewers : \/ OpenLogs(v) \/ CloseLogs(v) \/ StreamOpens(v) \/ StreamBreaks(v)
                          \/ WaitOver(v) \/ Receive(v) \/ Lagged(v)

(* Timers fire. Nothing makes an attempt to connect end (api.rs 92-95).    *)
LoopIsFair == \A v \in Viewers : WF_logVars(WaitOver(v))

LogSpec == LogInit /\ [][LogNext]_logVars /\ LoopIsFair

-----------------------------------------------------------------------------
(* What must hold.                                                         *)

(* However often the ring has come round, the history is the last lines    *)
(* that were kept, in their order (last_n of api/logs.rs); and a line that *)
(* was sent while a stream was open and that the stream has gone past was  *)
(* delivered, or was counted among those the stream said it had missed,    *)
(* however far behind its reader fell (api/logs.rs 103).                   *)
RingIsRecent ==
    \A n \in 0..(RingCap + 1) :
        LET take == Smaller(n, Smaller(RingCap, Len(kept)))
        IN  LastN(n) = SubSeq(kept, Len(kept) - take + 1, Len(kept))
StreamAccountsForAll ==
    \A v \in Viewers :
        LET r == viewer[v]
        IN  r.at = "open" =>
              Cardinality({sent[i] : i \in r.base..(r.next - 1)} \ (r.got \cup {0})) <= r.missed
NothingLostSilently == RingIsRecent /\ StreamAccountsForAll

(* An open window whose server answers, and no longer breaks its streams,  *)
(* gets its stream back, after however many failures (windows/logs.rs      *)
(* 271-330).                                                               *)
AttemptsEnd == \A v \in Viewers : []<>(viewer[v].at # "connecting")
ViewerComesBack ==
    AttemptsEnd /\ <>[][\A v \in Viewers : ~StreamBreaks(v)]_logVars =>
        \A v \in Viewers : []<>(viewer[v].at \in {"open", "closed"})
=============================================================================
