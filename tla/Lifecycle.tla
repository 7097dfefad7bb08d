----------------------------- MODULE Lifecycle -----------------------------
(* What the tunnel manager promises to those who watch its status - the    *)
(* supervisor, the reconciler, the API's clients - while nobody            *)
(* disconnects: an attempt starts from rest or from an unanswered MFA      *)
(* gate, is settled by one outcome, and only a connected tunnel drops.     *)
(* The one promise it does not keep: a tunnel may come up before connect() *)
(* has returned, whose last write says `connecting' again.                 *)
VARIABLE status

Rest == {"disconnected", "error"}

Init == status = "disconnected"

(* A call to connect() is admitted.                                        *)
Attempt == status \in Rest \cup {"mfa"} /\ status' = "connecting"

AskForCode == status = "connecting" /\ status' = "mfa"
ComeUp     == status = "connecting" /\ status' = "connected"
Fail       == status \in {"connecting", "connected"} /\ status' \in Rest
Retract    == status = "connected" /\ status' = "connecting"

Next == Attempt \/ AskForCode \/ ComeUp \/ Fail \/ Retract

Spec == Init /\ [][Next]_status
=============================================================================
