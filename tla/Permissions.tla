---------------------------- MODULE Permissions ----------------------------
(***************************************************************************)
(* Roles, the permissions each of them carries in its tokens, and the      *)
(* matching of a required permission against them (db.rs, api/auth.rs,     *)
(* api/users.rs). A permission is the sequence of its dotted words:        *)
(* "routing.clients.read" is <<"routing", "clients", "read">>, and a       *)
(* trailing "*" is the wildcard.                                           *)
(***************************************************************************)
EXTENDS Naturals, Sequences

Roles == {"admin", "operator", "viewer"}

PermissionsForRole ==
    [admin    |-> {<<"tunnel", "*">>, <<"config", "*">>, <<"profiles", "*">>,
                   <<"routing", "*">>, <<"routing", "setup">>,
                   <<"routing", "teardown">>, <<"users", "*">>, <<"logs", "*">>},
     operator |-> {<<"tunnel", "connect">>, <<"tunnel", "disconnect">>,
                   <<"tunnel", "status">>, <<"config", "read">>,
                   <<"profiles", "read">>, <<"routing", "clients", "*">>,
                   <<"routing", "bypass", "*">>, <<"routing", "corp", "*">>,
                   <<"routing", "diagnostics">>, <<"logs", "*">>},
     viewer   |-> {<<"tunnel", "status">>, <<"config", "read">>,
                   <<"profiles", "read">>, <<"routing", "read">>,
                   <<"logs", "read">>}]

(* p is required itself, or p ends in "*" and what precedes the "*" is a   *)
(* proper prefix of required, word by word.                                *)
Matches(p, required) ==
    \/ p = required
    \/ /\ p[Len(p)] = "*"
       /\ Len(required) >= Len(p)
       /\ SubSeq(required, 1, Len(p) - 1) = SubSeq(p, 1, Len(p) - 1)

HasPermission(role, required) ==
    \E p \in PermissionsForRole[role] : Matches(p, required)

RoleLevel == [viewer |-> 1, operator |-> 2, admin |-> 3]

(* Handlers that test the role in the claims instead of a permission.      *)
IsAdmin(role) == role = "admin"
=============================================================================
