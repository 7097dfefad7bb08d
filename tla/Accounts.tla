------------------------------ MODULE Accounts ------------------------------
(***************************************************************************)
(* Accounts, sessions and tokens of snx-edge-server (api/auth.rs,          *)
(* api/users.rs, the users and sessions tables of db.rs, the generation    *)
(* cache of state.rs).                                                     *)
(*                                                                         *)
(* Each request h runs its handler one database call at a time: every      *)
(* action below is the code between two awaits, and the database mutex     *)
(* makes it atomic. A login gives a pair of tokens: an access token with   *)
(* the role and the token_generation of its owner baked in, and a refresh  *)
(* token whose session is a row of the sessions table. Passwords are       *)
(* abstracted to whether the one given is right.                           *)
(***************************************************************************)
EXTENDS Permissions, Integers, FiniteSets

CONSTANTS
    Users,        \* user ids; one of a deleted user is never used again
    Tokens,       \* pairs of tokens: the jti of the refresh token names one
    Handlers,     \* requests in flight at the same time
    None, Gone,   \* no value; the row of a deleted user
    Ops,          \* the operations requests ask for
    Ttl,          \* CACHE_TTL, in ticks
    LockFor,      \* lockout_duration_minutes, in ticks
    MaxAttempts,  \* max_login_attempts
    MaxNow, MaxGeneration, MaxCalls   \* bounds of a run

ASSUME TimeAssumption == Ttl \in Nat \ {0} /\ LockFor \in Nat /\ MaxNow \in Nat
ASSUME BoundAssumption == MaxAttempts \in Nat \ {0} /\ MaxGeneration \in Nat /\ MaxCalls \in Nat
ASSUME HandlersAssumption == IsFiniteSet(Handlers)

VARIABLES
    users,     \* the users table: a row, None (no such id yet) or Gone
    sessions,  \* the sessions table: the pairs whose refresh token has a row
    issued,    \* per pair: its claims once issued
    cache,     \* AppState.token_gen_cache
    pc, loc,   \* per request: the next await of its handler, its locals
    now,       \* the clock
    ended,     \* history: when a generation of a user stopped being current
    calls      \* history: requests begun, for the bound

tables == <<users, sessions, issued>>
handler == <<pc, loc>>
history == <<ended, calls>>
vars == <<users, sessions, issued, cache, pc, loc, now, ended, calls>>

Generations == 0..MaxGeneration
Times == 0..(MaxNow + LockFor)

Row == [role : Roles, enabled : BOOLEAN, generation : Generations,
        failed : Nat, locked : Times \cup {-1}]
Unlocked == -1

Claims == [user : Users, role : Roles, generation : Generations, overtaken : BOOLEAN]

Entry == [generation : Generations, at : 0..MaxNow]

(* user: whom the request is about; token: the pair it presented; role and *)
(* generation: what it has read of the account it will issue to; op: what  *)
(* it asks for once authenticated; lock: the expired lock it goes to       *)
(* reset; overtaken: history, privileges of user were reduced since it     *)
(* read the account.                                                       *)
Locals == [user : Users \cup {None}, token : Tokens \cup {None}, role : Roles \cup {None},
           generation : Generations \cup {None}, op : Ops \cup {None},
           lock : Times \cup {-1}, overtaken : BOOLEAN]
NoLocals == [user |-> None, token |-> None, role |-> None,
             generation |-> None, op |-> None, lock |-> Unlocked, overtaken |-> FALSE]

ASSUME NoneAssumption ==
    /\ None \notin Users \cup Tokens \cup Row \cup Claims \cup Entry \cup Nat
    /\ Gone \notin Row \cup {None}

LoginPcs == {"unlock", "fail", "clear"}
IssuePcs == {"generation", "session"}
RefreshPcs == {"spend", "account"}
AuthPcs == {"lookup", "store"}
OpPcs == {"create", "update", "delete", "evict", "verify", "change", "logout",
          "owner", "drop", "bump", "reread", "publish"}
Pcs == {"idle"} \cup LoginPcs \cup IssuePcs \cup RefreshPcs \cup AuthPcs \cup OpPcs

Exists(u) == users[u] \notin {None, Gone}
Admins == {u \in Users : Exists(u) /\ users[u].role = "admin" /\ users[u].enabled}

TypeOK ==
    /\ users \in [Users -> Row \cup {None, Gone}]
    /\ issued \in [Tokens -> Claims \cup {None}]
    /\ sessions \in SUBSET {t \in Tokens : issued[t] # None}
    /\ cache \in [Users -> Entry \cup {None}]
    /\ pc \in [Handlers -> Pcs]
    /\ loc \in [Handlers -> Locals]
    /\ now \in 0..MaxNow
    /\ ended \in [Users -> [Generations -> 0..MaxNow \cup {None}]]
    /\ calls \in 0..MaxCalls

(* The database of an earlier run, with an enabled admin (ensure_admin),   *)
(* and whatever it has issued under the generations of today.              *)
Init ==
    /\ users \in [Users -> {[role |-> r, enabled |-> e, generation |-> 0,
                             failed |-> 0, locked |-> Unlocked] :
                                r \in Roles, e \in BOOLEAN} \cup {None}]
    /\ Admins # {}
    /\ issued \in [Tokens -> Claims \cup {None}]
    /\ \A t \in Tokens : issued[t] # None =>
          /\ issued[t].generation = 0 /\ ~issued[t].overtaken
          /\ Exists(issued[t].user)
          /\ users[issued[t].user].enabled
          /\ users[issued[t].user].role = issued[t].role
    /\ sessions = {t \in Tokens : issued[t] # None}
    /\ cache = [u \in Users |-> None]
    /\ pc = [h \in Handlers |-> "idle"]
    /\ loc = [h \in Handlers |-> NoLocals]
    /\ now = 0
    /\ ended = [u \in Users |-> [g \in Generations |-> None]]
    /\ calls = 0

-----------------------------------------------------------------------------
(* Steps of a handler.                                                     *)

Goto(h, p, l) == pc' = [pc EXCEPT ![h] = p] /\ loc' = [loc EXCEPT ![h] = l]
Respond(h) == Goto(h, "idle", NoLocals)

(* A request begins: only then are the bounds looked at.                   *)
Begin(h) == pc[h] = "idle" /\ calls < MaxCalls /\ calls' = calls + 1

(* token_generation = token_generation + 1, in the statement that changes  *)
(* the row of u to row.                                                    *)
SetRow(u, row) ==
    /\ users' = [users EXCEPT ![u] = row]
    /\ ended' = IF row.generation = users[u].generation THEN ended
                ELSE [ended EXCEPT ![u][users[u].generation] = now]
CanBump(u) == users[u].generation < MaxGeneration
Bumped(row) == [row EXCEPT !.generation = @ + 1]

-----------------------------------------------------------------------------
(* login.                                                                  *)

(* The account is read, the lock and the enabled flag are looked at, and   *)
(* the password is verified against the hash that was read.                *)
LoginRequest(h) ==
    /\ "login" \in Ops
    /\ Begin(h)
    /\ \E u \in Users :
        /\ Exists(u)
        /\ LET row == users[u]
               l == [NoLocals EXCEPT !.user = u, !.role = row.role, !.lock = row.locked]
           IN  IF row.locked # Unlocked
               THEN /\ now >= row.locked
                    /\ Goto(h, "unlock", [l EXCEPT !.op = IF row.enabled THEN None ELSE "login"])
               ELSE /\ row.enabled
                    /\ \E p \in {"fail", "clear"} : Goto(h, p, l)
    /\ UNCHANGED <<tables, cache, now, ended>>

Unlock(row) == [row EXCEPT !.failed = 0, !.locked = Unlocked]

ResetFailed(u) ==
    IF Exists(u) THEN SetRow(u, Unlock(users[u])) ELSE UNCHANGED <<users, ended>>

(* The lock had expired when the account was read: reset_failed_logins,    *)
(* whatever lock stands by now, then the enabled flag as it was read, then *)
(* the password.                                                           *)
ResetLock(h) ==
    /\ pc[h] = "unlock"
    /\ ResetFailed(loc[h].user)
    /\ IF loc[h].op = "login" THEN Respond(h)
       ELSE \E p \in {"fail", "clear"} : Goto(h, p, [loc[h] EXCEPT !.lock = Unlocked])
    /\ UNCHANGED <<sessions, issued, cache, now, calls>>

(* Mutant: one guess too many.                                           *)
LocksLate(n) == n > MaxAttempts
Locks(n) == n >= MaxAttempts

(* record_failed_login, under one lock of the connection.                  *)
RecordFailedLogin(h) ==
    /\ pc[h] = "fail"
    /\ LET u == loc[h].user
       IN  IF Exists(u)
           THEN LET n == users[u].failed + 1
                IN  SetRow(u, [users[u] EXCEPT !.failed = n,
                          !.locked = IF Locks(n) THEN now + LockFor ELSE @])
           ELSE UNCHANGED <<users, ended>>
    /\ Respond(h)
    /\ UNCHANGED <<sessions, issued, cache, now, calls>>

(* reset_failed_logins after a right password.                             *)
ClearFailed(h) ==
    /\ pc[h] = "clear"
    /\ ResetFailed(loc[h].user)
    /\ Goto(h, "generation", loc[h])
    /\ UNCHANGED <<sessions, issued, cache, now, calls>>

-----------------------------------------------------------------------------
(* refresh.                                                                *)

(* The refresh token decodes and its session exists.                       *)
RefreshRequest(h) ==
    /\ "refresh" \in Ops
    /\ Begin(h)
    /\ \E t \in sessions :
          Goto(h, "spend", [NoLocals EXCEPT !.user = issued[t].user, !.token = t])
    /\ UNCHANGED <<tables, cache, now, ended>>

(* delete_session: whether it deleted anything is not looked at.           *)
Spend(h) ==
    /\ pc[h] = "spend"
    /\ sessions' = sessions \ {loc[h].token}
    /\ Goto(h, "account", loc[h])
    /\ UNCHANGED <<users, issued, cache, now, history>>

ReadAccount(h) ==
    /\ pc[h] = "account"
    /\ LET u == loc[h].user
       IN  IF Exists(u) /\ users[u].enabled
           THEN Goto(h, "generation", [loc[h] EXCEPT !.role = users[u].role, !.overtaken = FALSE])
           ELSE Respond(h)
    /\ UNCHANGED <<tables, cache, now, history>>

-----------------------------------------------------------------------------
(* issue_tokens.                                                           *)

ReadGeneration(h) ==
    /\ pc[h] = "generation"
    /\ LET u == loc[h].user
       IN  IF Exists(u)
           THEN Goto(h, "session", [loc[h] EXCEPT !.generation = users[u].generation])
           ELSE Respond(h)
    /\ UNCHANGED <<tables, cache, now, history>>

(* create_session: the foreign key refuses a user that is gone.            *)
CreateSession(h) ==
    /\ pc[h] = "session"
    /\ LET l == loc[h]
       IN  IF Exists(l.user)
           THEN \E t \in Tokens :
                  /\ issued[t] = None
                  /\ issued' = [issued EXCEPT ![t] =
                        [user |-> l.user, role |-> l.role, generation |-> l.generation,
                         overtaken |-> l.overtaken]]
                  /\ sessions' = sessions \cup {t}
           ELSE UNCHANGED <<issued, sessions>>
    /\ Respond(h)
    /\ UNCHANGED <<users, cache, now, history>>

(* A session's time is up: session_exists no longer finds it and the       *)
(* clean-up task deletes it.                                               *)
Expire(t) ==
    /\ "expire" \in Ops
    /\ t \in sessions
    /\ sessions' = sessions \ {t}
    /\ UNCHANGED <<users, issued, cache, handler, now, history>>

-----------------------------------------------------------------------------
(* require_auth: lookup_token_generation, then the handler asked for.      *)

(* Mutant: an entry never expires.                                       *)
FreshForever(u) == cache[u] # None
Fresh(u) == cache[u] # None /\ now - cache[u].at < Ttl

Start == [create |-> "create", update |-> "update", delete |-> "delete",
          password |-> "change", revokeSession |-> "owner", revokeTokens |-> "bump"]

Required == [create |-> <<"users", "create">>, update |-> <<"users", "update">>,
             delete |-> <<"users", "delete">>, revokeSession |-> <<"users", "sessions">>]

(* The test each handler makes of the claims before its first await.       *)
Allowed(op, claims, target) ==
    CASE op \in DOMAIN Required ->
            /\ HasPermission(claims.role, Required[op])
            /\ op = "delete" => claims.user # target
      [] op = "password" -> claims.user = target \/ IsAdmin(claims.role)
      [] op = "revokeTokens" -> IsAdmin(claims.role)

(* The token passes with generation g: the handler runs to its first       *)
(* await. One's own password is changed with the current one given, which  *)
(* is verified against the account as read.                                *)
Pass(h, l, g) ==
    LET claims == issued[l.token]
    IN  IF g = claims.generation /\ Allowed(l.op, claims, l.user)
        THEN Goto(h, IF l.op = "password" /\ claims.user = l.user
                     THEN "verify" ELSE Start[l.op], l)
        ELSE Respond(h)

(* A request with an access token: op on the account of a target, or on    *)
(* the session of one of the target's tokens.                              *)
AuthRequest(h) ==
    /\ Begin(h)
    /\ \E t \in Tokens, op \in Ops \cap DOMAIN Start, target \in Users :
        /\ issued[t] # None
        /\ LET u == issued[t].user
               l == [NoLocals EXCEPT !.user = target, !.token = t, !.op = op]
           IN  IF Fresh(u) THEN Pass(h, l, cache[u].generation) ELSE Goto(h, "lookup", l)
    /\ UNCHANGED <<tables, cache, now, ended>>

LookupGeneration(h) ==
    /\ pc[h] = "lookup"
    /\ LET u == issued[loc[h].token].user
       IN  IF Exists(u)
           THEN Goto(h, "store", [loc[h] EXCEPT !.generation = users[u].generation])
           ELSE Respond(h)
    /\ UNCHANGED <<tables, cache, now, history>>

CacheIt(u, g) == cache' = [cache EXCEPT ![u] = [generation |-> g, at |-> now]]

StoreGeneration(h) ==
    /\ pc[h] = "store"
    /\ CacheIt(issued[loc[h].token].user, loc[h].generation)
    /\ Pass(h, [loc[h] EXCEPT !.generation = None], loc[h].generation)
    /\ UNCHANGED <<tables, now, history>>

-----------------------------------------------------------------------------
(* The handlers of api/users.rs.                                           *)

(* Mutant: the id of a deleted user is used again.                       *)
UnusedOrGone(u) == ~Exists(u)
Unused(u) == users[u] = None

(* create_user: the UNIQUE constraint refuses a name in use.               *)
CreateUser(h) ==
    /\ pc[h] = "create"
    /\ \/ \E u \in Users, r \in Roles :
            /\ Unused(u)
            /\ RoleLevel[r] <= RoleLevel[issued[loc[h].token].role]
            /\ users' = [users EXCEPT ![u] = [role |-> r, enabled |-> TRUE, generation |-> 0,
                                              failed |-> 0, locked |-> Unlocked]]
       \/ UNCHANGED users
    /\ Respond(h)
    /\ UNCHANGED <<sessions, issued, cache, now, history>>

(* The guard of the last admin, for a row that changes to role r, enabled  *)
(* e, and for one that is deleted.                                         *)
(* Mutant: disabled admins count as admins.                              *)
MayUpdateAny(u, r, e) ==
    users[u].role = "admin" /\ (r # "admin" \/ ~e) =>
        \E v \in Users \ {u} : Exists(v) /\ users[v].role = "admin"
MayUpdate(u, r, e) == users[u].role = "admin" /\ (r # "admin" \/ ~e) => Admins \ {u} # {}
MayDelete(u) == Admins \ {u} = {} => users[u].role # "admin"

(* Mutant: disabling an account does not bump.                           *)
ReducesRole(row, r, e) == r # row.role
Reduces(row, r, e) == r # row.role \/ (row.enabled /\ ~e)

(* Requests that have read the account of u and not yet its generation.    *)
Overtake(u) ==
    loc' = [h \in Handlers |->
              IF pc[h] \in {"unlock", "clear", "generation"} /\ loc[h].user = u
              THEN [loc[h] EXCEPT !.overtaken = TRUE] ELSE loc[h]]

(* update_user: one statement under one lock.                              *)
UpdateUser(h) ==
    /\ pc[h] = "update"
    /\ LET u == loc[h].user
       IN  \/ /\ Exists(u)
              /\ \E r \in Roles, e \in BOOLEAN :
                   /\ RoleLevel[r] <= RoleLevel[issued[loc[h].token].role]
                   /\ MayUpdate(u, r, e)
                   /\ LET row == [users[u] EXCEPT !.role = r, !.enabled = e]
                          reduced == Reduces(users[u], r, e)
                      IN  /\ reduced => CanBump(u)
                          /\ SetRow(u, IF reduced THEN Bumped(row) ELSE row)
                          /\ IF reduced THEN Overtake(u) ELSE UNCHANGED loc
              /\ pc' = [pc EXCEPT ![h] = "reread"]
           \/ Respond(h) /\ UNCHANGED <<users, ended>>
    /\ UNCHANGED <<sessions, issued, cache, now, calls>>

(* delete_user; the sessions go with the row (ON DELETE CASCADE).          *)
DeleteUser(h) ==
    /\ pc[h] = "delete"
    /\ LET u == loc[h].user
       IN  IF Exists(u) /\ MayDelete(u)
           THEN /\ users' = [users EXCEPT ![u] = Gone]
                /\ ended' = [ended EXCEPT ![u][users[u].generation] = now]
                /\ sessions' = {t \in sessions : issued[t].user # u}
                /\ Goto(h, "evict", loc[h])
           ELSE Respond(h) /\ UNCHANGED <<users, ended, sessions>>
    /\ UNCHANGED <<issued, cache, now, calls>>

Evict(h) ==
    /\ pc[h] = "evict"
    /\ cache' = [cache EXCEPT ![loc[h].user] = None]
    /\ Respond(h)
    /\ UNCHANGED <<tables, now, history>>

(* The current password is verified against the account as read.           *)
VerifyCurrent(h) ==
    /\ pc[h] = "verify"
    /\ \/ Exists(loc[h].user) /\ Goto(h, "change", loc[h])
       \/ Respond(h)
    /\ UNCHANGED <<tables, cache, now, history>>

(* change_password stores the hash and bumps in one statement.             *)
ChangePassword(h) ==
    /\ pc[h] = "change"
    /\ LET u == loc[h].user
       IN  IF Exists(u)
           THEN CanBump(u) /\ SetRow(u, Bumped(users[u])) /\ Goto(h, "logout", loc[h])
           ELSE Respond(h) /\ UNCHANGED <<users, ended>>
    /\ UNCHANGED <<sessions, issued, cache, now, calls>>

(* delete_user_sessions.                                                   *)
Logout(h) ==
    /\ pc[h] = "logout"
    /\ sessions' = {t \in sessions : issued[t].user # loc[h].user}
    /\ Goto(h, "reread", loc[h])
    /\ UNCHANGED <<users, issued, cache, now, history>>

(* revoke_session: the owner of some session id, known or not.             *)
FindOwner(h) ==
    /\ pc[h] = "owner"
    /\ \E s \in Tokens :
          Goto(h, "drop", [loc[h] EXCEPT !.token = s,
              !.user = IF s \in sessions THEN issued[s].user ELSE None])
    /\ UNCHANGED <<tables, cache, now, history>>

DropSession(h) ==
    /\ pc[h] = "drop"
    /\ sessions' = sessions \ {loc[h].token}
    /\ IF loc[h].user = None THEN Respond(h) ELSE Goto(h, "bump", loc[h])
    /\ UNCHANGED <<users, issued, cache, now, history>>

(* bump_token_generation returns the new value, which the handler caches.  *)
BumpGeneration(h) ==
    /\ pc[h] = "bump"
    /\ LET u == loc[h].user
       IN  IF Exists(u)
           THEN /\ CanBump(u)
                /\ SetRow(u, Bumped(users[u]))
                /\ Goto(h, "publish", [loc[h] EXCEPT !.generation = users'[u].generation])
           ELSE Respond(h) /\ UNCHANGED <<users, ended>>
    /\ UNCHANGED <<sessions, issued, cache, now, calls>>

(* get_token_generation before the cache is refreshed.                     *)
Reread(h) ==
    /\ pc[h] = "reread"
    /\ LET u == loc[h].user
       IN  IF Exists(u)
           THEN Goto(h, "publish", [loc[h] EXCEPT !.generation = users[u].generation])
           ELSE Respond(h)
    /\ UNCHANGED <<tables, cache, now, history>>

(* refresh_token_generation_cache.                                         *)
Publish(h) ==
    /\ pc[h] = "publish"
    /\ CacheIt(loc[h].user, loc[h].generation)
    /\ Respond(h)
    /\ UNCHANGED <<tables, now, history>>

(* The client goes away: the handler's future is dropped at its await.     *)
HangUp(h) ==
    /\ "hangUp" \in Ops
    /\ pc[h] # "idle"
    /\ Respond(h)
    /\ UNCHANGED <<tables, cache, now, history>>

(* The clock moves, but not between the reading of a generation and its    *)
(* storing in the cache: these two are microseconds apart, a tick is       *)
(* seconds.                                                                *)
Tick ==
    /\ now < MaxNow
    /\ \A h \in Handlers : pc[h] \notin {"store", "publish"}
    /\ now' = now + 1
    /\ UNCHANGED <<tables, cache, handler, history>>

Login(h) == LoginRequest(h) \/ ResetLock(h) \/ RecordFailedLogin(h) \/ ClearFailed(h)
Refresh(h) == RefreshRequest(h) \/ Spend(h) \/ ReadAccount(h)
Issue(h) == ReadGeneration(h) \/ CreateSession(h)
Authenticate(h) == AuthRequest(h) \/ LookupGeneration(h) \/ StoreGeneration(h)
Manage(h) == CreateUser(h) \/ UpdateUser(h) \/ DeleteUser(h) \/ Evict(h)
Password(h) == VerifyCurrent(h) \/ ChangePassword(h) \/ Logout(h)
RevokeTokens(h) == FindOwner(h) \/ DropSession(h) \/ BumpGeneration(h)
RefreshCache(h) == Reread(h) \/ Publish(h)

Next ==
    \/ \E h \in Handlers :
        \/ Login(h) \/ Refresh(h) \/ Issue(h) \/ Authenticate(h) \/ Manage(h)
        \/ Password(h) \/ RevokeTokens(h) \/ RefreshCache(h) \/ HangUp(h)
    \/ \E t \in Tokens : Expire(t)
    \/ Tick

Spec == Init /\ [][Next]_vars

-----------------------------------------------------------------------------
(* An admin who may log in remains, whatever requests of several admins    *)
(* demote, disable or delete at the same time (db.rs:334, db.rs:388).      *)
AdminRemains == Admins # {}

(* A token the database would accept says of its owner what is true today: *)
(* the role baked into it is the owner's and the account is enabled        *)
(* (db.rs:363). Not so when the privileges were reduced while the request  *)
(* that issued it was between its read of the account and its read of the  *)
(* generation (api/auth.rs:226).                                           *)
AcceptableTokenIsCurrent ==
    \A t \in Tokens :
        issued[t] # None /\ ~issued[t].overtaken =>
            LET row == users[issued[t].user]
            IN  row \notin {None, Gone} /\ row.generation = issued[t].generation =>
                    row.role = issued[t].role /\ row.enabled

(* No request passes require_auth Ttl or more after the generation of its  *)
(* token stopped being current, by a bump or with its owner, whatever the  *)
(* lookups in flight and the out-of-order writes leave in the cache, and   *)
(* also when the handler that revoked was dropped before it refreshed the  *)
(* cache (api/auth.rs:305).                                                *)
Stopped(t) == ended[issued[t].user][issued[t].generation]
RevokedWithinTtl ==
    [][\A h \in Handlers :
         pc[h] \in {"idle", "store"} /\ pc'[h] \in OpPcs =>
            LET at == Stopped(loc'[h].token) IN at = None \/ now < at + Ttl]_vars

(* A session always has an owner: one created by a login in flight while   *)
(* its user is deleted does not stay behind (db.rs:586, db.rs:388).        *)
SessionsHaveOwners == \A t \in sessions : Exists(issued[t].user)

(* The lockout. At most MaxAttempts wrong passwords are evaluated between  *)
(* two resets of the counter, and one for each other request under way. A  *)
(* lock that has not expired is lifted by a right password that was under  *)
(* verification, or by a request that read an earlier lock, which had      *)
(* expired: reset_failed_logins takes away whatever lock stands            *)
(* (db.rs:575), although two requests that see one expired lock are what   *)
(* api/auth.rs:74 says it guards against. Nothing else lifts it, no write  *)
(* of the same row by an administrator either.                             *)
Holds(u) == Exists(u) /\ users[u].locked > now
Lifted(u) == Holds(u) /\ Exists(u)' /\ users'[u].locked = Unlocked
LockoutHolds ==
    /\ [](\A u \in Users : Exists(u) => users[u].failed < MaxAttempts + Cardinality(Handlers))
    /\ [][\A u \in Users : Lifted(u) =>
             \E h \in Handlers : /\ loc[h].user = u
                                 /\ \/ ClearFailed(h)
                                    \/ ResetLock(h) /\ loc[h].lock # users[u].locked]_vars

(* The pairs of tokens behave as TokenAuthority says.                      *)
Owner == [t \in Tokens |-> IF issued[t] = None THEN None ELSE issued[t].user]
Usable == {t \in Tokens : /\ issued[t] # None
                          /\ Exists(issued[t].user)
                          /\ users[issued[t].user].generation = issued[t].generation}
Authority == INSTANCE TokenAuthority WITH owner <- Owner, usable <- Usable, live <- sessions
ImplementsTokenAuthority == Authority!Spec
=============================================================================
