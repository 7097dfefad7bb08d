-------------------------------- MODULE Api --------------------------------
(***************************************************************************)
(* The wire contract between snx-edge-server and its two clients: the      *)
(* routes under /api/v1, what each answers with and what it asks of the    *)
(* claims; the calls the desktop client and snx-edge-ctl make and how they *)
(* read the answer; and the controls the desktop client shows to a role.   *)
(***************************************************************************)
EXTENDS Permissions

(* A call or a route: method, path, and how the answer is read or given:   *)
(* "json", "text", "stream" or "none" (no body, or one that is not read).  *)
Get(path) == <<"GET", path, "json">>
Post(path) == <<"POST", path, "json">>
Put(path) == <<"PUT", path, "json">>
Delete(path) == <<"DELETE", path, "none">>
Send(path) == <<"POST", path, "none">>

(* A route with what it needs: one of a set of permissions, an admin, or   *)
(* nothing but a token (or not even that).                                 *)
Needs(calls, alternatives) == {[call |-> c, needs |-> alternatives] : c \in calls}
Anyone == {<<"anyone">>}
AdminOnly == {<<"admin">>}

AuthRoutes == Needs({Post("/auth/login"), Post("/auth/refresh")}, Anyone)
HealthRoutes == Needs({Get("/health"), Get("/health/ready")}, Anyone)

UserRoutes ==
    Needs({Get("/users")}, {<<"users", "list">>}) \cup
    Needs({Post("/users")}, {<<"users", "create">>}) \cup
    Needs({Get("/users/me"), Send("/users/me/password"), Send("/users/{id}/password")}, Anyone) \cup
    Needs({Get("/users/sessions"), Delete("/users/sessions/{id}")}, {<<"users", "sessions">>}) \cup
    Needs({Get("/users/{id}")}, {<<"users", "read">>}) \cup
    Needs({Put("/users/{id}")}, {<<"users", "update">>}) \cup
    Needs({Delete("/users/{id}")}, {<<"users", "delete">>}) \cup
    Needs({Send("/users/{id}/revoke-tokens")}, AdminOnly)

ProfileRoutes ==
    Needs({Get("/profiles"), Get("/profiles/{id}"), <<"GET", "/profiles/{id}/export", "text">>},
          {<<"profiles", "read">>}) \cup
    Needs({Post("/profiles"), Post("/profiles/import"), Put("/profiles/{id}"),
           Delete("/profiles/{id}"), Post("/profiles/{id}/certs")}, {<<"profiles", "write">>})

ConfigRoutes == Needs({Get("/config")}, {<<"config", "read">>}) \cup
                Needs({Put("/config")}, {<<"config", "write">>})

TunnelRoutes ==
    Needs({Post("/tunnel/connect"), Post("/tunnel/reconnect"), Post("/tunnel/challenge"),
           Post("/server/info")}, {<<"tunnel", "connect">>}) \cup
    Needs({Post("/tunnel/disconnect")}, {<<"tunnel", "disconnect">>}) \cup
    Needs({Get("/tunnel/status"), Get("/server/info"), Get("/tunnel/routes")},
          {<<"tunnel", "status">>})

RoutingList(kind) ==
    LET list == "/routing/" \o kind
        item == "/routing/" \o kind \o "/{id}"
    IN  Needs({Get(list)}, {<<"routing", kind, "read">>, <<"routing", "read">>}) \cup
        Needs({Post(list)}, {<<"routing", kind, "create">>}) \cup
        Needs({Delete(item)}, {<<"routing", kind, "delete">>})

RoutingRoutes ==
    RoutingList("clients") \cup RoutingList("bypass") \cup RoutingList("corp") \cup
    Needs({Get("/routing/status")}, {<<"routing", "read">>}) \cup
    Needs({Post("/routing/setup")}, {<<"routing", "setup">>}) \cup
    Needs({<<"DELETE", "/routing/setup", "json">>}, {<<"routing", "teardown">>}) \cup
    Needs({Get("/routing/diagnostics")}, {<<"routing", "diagnostics">>})

LogRoutes ==
    Needs({<<"GET", "/logs", "stream">>, Get("/logs/history")}, {<<"logs", "read">>})
EventRoutes == Needs({<<"GET", "/events", "stream">>}, Anyone)

Protected == UserRoutes \cup ProfileRoutes \cup ConfigRoutes \cup TunnelRoutes
             \cup RoutingRoutes \cup LogRoutes \cup EventRoutes
Routes == AuthRoutes \cup HealthRoutes \cup Protected

(* May a token of this role use the route?                                 *)
Grants(route, role) ==
    \/ route.needs = Anyone
    \/ route.needs = AdminOnly /\ IsAdmin(role)
    \/ \E p \in route.needs \ (Anyone \cup AdminOnly) : HasPermission(role, p)

-----------------------------------------------------------------------------
(* The desktop client's calls (snx-edge-client/src/api.rs).                *)
GuiAuthCalls == {Post("/auth/login"), Post("/auth/refresh")}
GuiTunnelCalls ==
    {Post("/tunnel/connect"), Post("/tunnel/disconnect"), Post("/tunnel/reconnect"),
     Post("/tunnel/challenge"), Get("/tunnel/status")}
GuiProfileCalls ==
    {Get("/profiles"), Post("/profiles"), Put("/profiles/{id}"), Delete("/profiles/{id}")}
GuiListCalls ==
    {Get("/routing/clients"), Post("/routing/clients"), Delete("/routing/clients/{id}"),
     Get("/routing/bypass"), Post("/routing/bypass"), Delete("/routing/bypass/{id}")}
GuiRoutingCalls ==
    {Post("/routing/setup"), Delete("/routing/setup"), Get("/routing/diagnostics")}
GuiUserCalls ==
    {Get("/users"), Post("/users"), Put("/users/{id}"), Delete("/users/{id}"),
     Send("/users/{id}/password")}
GuiSessionCalls ==
    {Get("/users/sessions"), Delete("/users/sessions/{id}"), Get("/users/me"),
     Send("/users/me/password")}
GuiLogCalls == {Get("/logs/history"), <<"GET", "/logs", "stream">>}

(* snx-edge-ctl's calls (snx-edge-ctl/src/api.rs).                         *)
CtlAuthCalls == {Post("/auth/login"), Post("/auth/refresh")}
CtlTunnelCalls ==
    {Post("/tunnel/connect"), Post("/tunnel/challenge"), Post("/tunnel/disconnect"),
     Post("/tunnel/reconnect"), Get("/tunnel/status"), Get("/server/info")}
CtlProfileCalls ==
    {Get("/profiles"), Get("/profiles/{id}"), Post("/profiles"), Put("/profiles/{id}"),
     Delete("/profiles/{id}"), Post("/profiles/import"),
     <<"GET", "/profiles/{id}/export", "text">>}
CtlListCalls(kind) ==
    {Get("/routing/" \o kind), Post("/routing/" \o kind), Delete("/routing/" \o kind \o "/{id}")}
CtlClientCalls == CtlListCalls("clients")
CtlCorpCalls == CtlListCalls("corp")
CtlBypassCalls == CtlListCalls("bypass")
CtlRoutingCalls ==
    {Post("/routing/setup"), <<"DELETE", "/routing/setup", "json">>, Get("/routing/diagnostics")}
CtlUserCalls ==
    {Get("/users"), Post("/users"), Put("/users/{id}"), Delete("/users/{id}"),
     Send("/users/{id}/password"), Send("/users/me/password"), Get("/users/me")}
CtlSessionCalls == {Get("/users/sessions"), Delete("/users/sessions/{id}")}
CtlLogCalls == {Get("/logs/history"), <<"GET", "/logs", "stream">>}
CtlHealthCalls == {Get("/health")}

Calls ==
    GuiAuthCalls \cup GuiTunnelCalls \cup GuiProfileCalls \cup GuiListCalls
    \cup GuiRoutingCalls \cup GuiUserCalls \cup GuiSessionCalls \cup GuiLogCalls
    \cup CtlAuthCalls \cup CtlTunnelCalls \cup CtlProfileCalls \cup CtlClientCalls
    \cup CtlCorpCalls \cup CtlBypassCalls \cup CtlRoutingCalls \cup CtlUserCalls
    \cup CtlSessionCalls \cup CtlLogCalls \cup CtlHealthCalls

Serves(route, call) ==
    /\ route.call[1] = call[1] /\ route.call[2] = call[2]
    /\ call[3] \in {route.call[3], "none"}

-----------------------------------------------------------------------------
(* Controls the desktop client shows to a role after looking at it. (The   *)
(* tray, the status window, the diagnostics button and the New and Delete  *)
(* buttons of profiles are shown to all: there the server's refusal is the *)
(* only answer.)                                                           *)
(* Mutant: a viewer gets the buttons too.                                  *)
CanEditListsAll(role) == role \in Roles
CanEditLists(role) == role # "viewer"
CanSetUp(role) == role = "admin"
CanManageUsers(role) == role = "admin"
CanEditProfiles(role) == role = "admin"

Lists == {Get("/routing/clients"), Get("/routing/bypass")}
Offered(role) ==
    Lists
    \cup (IF CanEditLists(role) THEN GuiListCalls ELSE {})
    \cup (IF CanSetUp(role) THEN {Post("/routing/setup"), Delete("/routing/setup")} ELSE {})
    \cup (IF CanManageUsers(role) THEN GuiUserCalls ELSE {})
    \cup (IF CanEditProfiles(role) THEN {Put("/profiles/{id}")} ELSE {})
    \cup GuiLogCalls \cup {Get("/profiles")}

-----------------------------------------------------------------------------
(* Calls that find no route that answers in the form the client reads, and *)
(* what the desktop client offers to a role that the server refuses it.    *)
Unserved == {c \in Calls : ~\E r \in Routes : Serves(r, c)}
Refused == {p \in Roles \X Calls :
              /\ p[2] \in Offered(p[1])
              /\ ~\E r \in Routes : Serves(r, p[2]) /\ Grants(r, p[1])}
=============================================================================
