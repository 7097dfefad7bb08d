------------------------------ MODULE Commands ------------------------------
(***************************************************************************)
(* What each command of snx-edge-ctl (main.rs) asks of the server: the     *)
(* sequences of calls it may make, in order. ClientTokens has the tokens   *)
(* that go with them, ClientSettings the changes to client.toml.           *)
(***************************************************************************)
EXTENDS Api, Sequences

One(call) == <<call>>

(* ensure_auth exchanges the stored refresh token, unless --token is given.*)
Authenticated(plans) == plans \cup {One(Post("/auth/refresh")) \o p : p \in plans}

(* resolve_profile_id: an id is taken as it is, a name is looked up.       *)
Lookup == One(Get("/profiles"))
OfProfile(call) == {One(call), Lookup \o One(call)}

HealthPlans == {One(Get("/health"))}
LoginPlans == {One(Post("/auth/login"))}

(* cmd_connect also looks the profiles up to take the first; prompt_mfa_loop *)
(* follows when the answer is a challenge.                                 *)
ConnectPlans == LET plans == OfProfile(Post("/tunnel/connect"))
            IN  Authenticated(plans \cup {p \o One(Post("/tunnel/challenge")) : p \in plans})
ChallengePlans == Authenticated({One(Post("/tunnel/challenge"))})
ReconnectPlans == Authenticated(OfProfile(Post("/tunnel/reconnect")))
ReportPlans == Authenticated({One(Post("/tunnel/disconnect")), One(Get("/tunnel/status")),
                          One(Get("/server/info"))})

ProfilePlans == Authenticated(
    {One(Get("/profiles")), One(Post("/profiles")), One(Post("/profiles/import"))}
    \cup UNION {OfProfile(c) : c \in {Get("/profiles/{id}"), Put("/profiles/{id}"),
                                      Delete("/profiles/{id}"),
                                      <<"GET", "/profiles/{id}/export", "text">>}})

RoutingPlans == Authenticated(
    {One(c) : c \in CtlClientCalls \cup CtlCorpCalls \cup CtlBypassCalls \cup CtlRoutingCalls})

(* Passwd asks who the caller is, to know whether the old password is due. *)
PasswordPlans == {One(Get("/users/me")) \o One(c) :
                 c \in {Send("/users/me/password"), Send("/users/{id}/password")}}
UserPlans == Authenticated(
    PasswordPlans \cup
    {One(c) : c \in (CtlUserCalls \ {Send("/users/me/password"), Send("/users/{id}/password")})
                    \cup CtlSessionCalls})

LogPlans == Authenticated({One(c) : c \in CtlLogCalls})

(* run.                                                                    *)
Plans == HealthPlans \cup LoginPlans \cup ConnectPlans \cup ChallengePlans \cup ReconnectPlans \cup ReportPlans
         \cup ProfilePlans \cup RoutingPlans \cup UserPlans \cup LogPlans

-----------------------------------------------------------------------------
Admits(role, call) == \E r \in Routes : Serves(r, call) /\ Grants(r, role)

(* Commands a role is let do all but the end of, or the end but not what   *)
(* leads to it.                                                            *)
StopsHalfway ==
    {x \in Roles \X Plans :
        LET p == x[2]
        IN  /\ Admits(x[1], p[Len(p)])
            /\ \E i \in DOMAIN p : ~Admits(x[1], p[i])}
=============================================================================
