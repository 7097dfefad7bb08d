--------------------------- MODULE TokenAuthority ---------------------------
(***************************************************************************)
(* What the account service promises about the tokens it has issued: a     *)
(* pair is issued once; its access token is usable until a revocation of   *)
(* its owner, which takes all of the owner's access tokens in one step;    *)
(* its refresh token is live until it is spent, ended or expired; and      *)
(* neither ever comes back.                                                *)
(***************************************************************************)
CONSTANTS Users, Tokens, None

VARIABLES
    owner,   \* whom a pair was issued to, None before
    usable,  \* pairs whose access token the database would still accept
    live     \* pairs whose refresh token has a session

Issued == {t \in Tokens : owner[t] # None}
Of(u) == {t \in Tokens : owner[t] = u}

Init ==
    /\ owner \in [Tokens -> Users \cup {None}]
    /\ usable \in SUBSET Issued
    /\ live \in SUBSET Issued

(* A pair may be born dead: its generation was overtaken on the way.       *)
Issue(t, u) ==
    /\ owner[t] = None
    /\ owner' = [owner EXCEPT ![t] = u]
    /\ live' = live \cup {t}
    /\ usable' \in {usable, usable \cup {t}}

Revoke(u) == usable' = usable \ Of(u) /\ UNCHANGED <<owner, live>>
End(t)    == live' = live \ {t} /\ UNCHANGED <<owner, usable>>
EndAll(u) == live' = live \ Of(u) /\ UNCHANGED <<owner, usable>>
Remove(u) == usable' = usable \ Of(u) /\ live' = live \ Of(u) /\ UNCHANGED owner

Next ==
    \/ \E t \in Tokens, u \in Users : Issue(t, u)
    \/ \E t \in Tokens : End(t)
    \/ \E u \in Users : Revoke(u) \/ EndAll(u) \/ Remove(u)

Spec == Init /\ [][Next]_<<owner, usable, live>>
=============================================================================
