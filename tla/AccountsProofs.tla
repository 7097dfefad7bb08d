--------------------------- MODULE AccountsProofs ---------------------------
(***************************************************************************)
(* Proofs about Accounts, for any number of users, tokens and requests in  *)
(* flight, any TTL of the cache and any lockout: an administrator remains, *)
(* what a token says of its owner is true as long as the database accepts  *)
(* it, a revocation is obeyed within the TTL, wrong passwords lock the     *)
(* account, and the pairs of tokens behave as TokenAuthority says. Last,   *)
(* for addresses of any width: whom the configuration trusts is whom the   *)
(* server trusts.                                                          *)
(***************************************************************************)
EXTENDS Trust, FiniteSetTheorems, WellFoundedInduction, TLAPS

(* Where a handler holds the claims of the token it was called with.       *)
ClaimPcs == AuthPcs \cup {"create", "update", "delete", "verify", "change", "owner"}

(* What a handler at p has in its locals l.                                *)
LocTypes(p, l) ==
    /\ p \in Pcs /\ l \in Locals
    /\ p \in LoginPcs \cup IssuePcs => /\ l.user \in Users /\ l.role \in Roles
                                       /\ users[l.user] # None
    /\ p \in RefreshPcs => l.user \in Users
    /\ p \in ClaimPcs => l.token \in Tokens /\ issued[l.token] # None
    /\ p \in (AuthPcs \cup OpPcs) \ {"drop"} => l.user \in Users
    /\ p \in AuthPcs => l.op \in Ops \cap DOMAIN Start
    /\ p \in {"session", "store", "publish"} => l.generation \in Generations

(* A handler that is going to issue has either read what is still true of  *)
(* the account, or been overtaken, or read a generation that is no longer  *)
(* the account's.                                                          *)
IssuesTruth(p, l) ==
    /\ p \in {"unlock", "clear", "generation"} /\ ~l.overtaken /\ Exists(l.user) =>
          /\ users[l.user].role = l.role
          /\ (p = "unlock" /\ l.op = "login") \/ users[l.user].enabled
    /\ p = "session" /\ Exists(l.user) =>
          /\ l.generation <= users[l.user].generation
          /\ ~l.overtaken /\ l.generation = users[l.user].generation =>
                users[l.user].role = l.role /\ users[l.user].enabled

(* A handler that is going to cache a generation has read it in this tick. *)
CachesTruth(p, l) ==
    /\ p = "store" => ended[issued[l.token].user][l.generation] \in {None, now}
    /\ p = "publish" => ended[l.user][l.generation] \in {None, now}

LocOK(p, l) == LocTypes(p, l) /\ IssuesTruth(p, l) /\ CachesTruth(p, l)
HandlersOK == \A h \in Handlers : LocOK(pc[h], loc[h])

(* Tokens are of users there have been, and of no later generation.        *)
TokensOfUsers ==
    \A t \in Tokens : issued[t] # None =>
        /\ users[issued[t].user] # None
        /\ Exists(issued[t].user) => issued[t].generation <= users[issued[t].user].generation

(* Today's generation of a user has not ended, nor has a later one.        *)
EndedArePast ==
    \A u \in Users, g \in Generations :
        users[u] = None \/ (Exists(u) /\ g >= users[u].generation) => ended[u][g] = None

(* An entry of the cache was written before its generation ended.          *)
CacheIsTimely ==
    \A u \in Users : cache[u] # None =>
        LET e == cache[u]
        IN  e.at <= now /\ (ended[u][e.generation] = None \/ e.at <= ended[u][e.generation])

Inv == /\ TypeOK /\ HandlersOK
       /\ AdminRemains /\ AcceptableTokenIsCurrent /\ SessionsHaveOwners
       /\ TokensOfUsers /\ EndedArePast /\ CacheIsTimely


LEMMA InitHolds == Init => Inv
<1> SUFFICES ASSUME Init PROVE Inv
  OBVIOUS
<1>1. TypeOK
  <2>1. users \in [Users -> Row \cup {None, Gone}]
    BY BoundAssumption DEF Init, Row, Unlocked, Generations
  <2>2. loc \in [Handlers -> Locals]
    BY DEF Init, NoLocals, Unlocked, Locals
  <2> QED
    BY <2>1, <2>2, TimeAssumption, BoundAssumption DEF Init, TypeOK, Pcs
<1>2. HandlersOK
  <2> SUFFICES ASSUME NEW h \in Handlers PROVE LocOK("idle", NoLocals)
    BY DEF HandlersOK, Init
  <2> QED
    BY DEF LocOK, LocTypes, IssuesTruth, CachesTruth, Pcs, NoLocals, Unlocked, Locals,
       LoginPcs, IssuePcs, RefreshPcs, ClaimPcs, AuthPcs, OpPcs
<1>3. AdminRemains
  BY DEF Init, AdminRemains
<1>4. ASSUME NEW t \in Tokens, issued[t] # None
      PROVE  issued[t].generation = 0 /\ issued[t].user \in Users
  BY <1>4 DEF Init, Claims
<1>5. ASSUME NEW u \in Users, Exists(u) PROVE users[u].generation = 0
  BY <1>5 DEF Init, Exists
<1>6. AcceptableTokenIsCurrent /\ SessionsHaveOwners /\ TokensOfUsers
  <2>1. ASSUME NEW t \in Tokens, issued[t] # None
        PROVE  /\ Exists(issued[t].user)
               /\ users[issued[t].user].enabled
               /\ users[issued[t].user].role = issued[t].role
    BY <2>1 DEF Init
  <2> QED
    BY <1>4, <1>5, <2>1 DEF AcceptableTokenIsCurrent, SessionsHaveOwners, TokensOfUsers, Exists,
       Init
<1>7. EndedArePast /\ CacheIsTimely
  BY DEF Init, EndedArePast, CacheIsTimely
<1> QED
  BY <1>1, <1>2, <1>3, <1>6, <1>7 DEF Inv

-----------------------------------------------------------------------------
(* Steps that change no row, no claims and no time.                        *)

LEMMA QuietMove ==
    ASSUME Inv, NEW h \in Handlers, NEW p, NEW l, Goto(h, p, l), LocOK(p, l),
           UNCHANGED <<users, issued, ended, now>>, sessions' \subseteq sessions,
           cache' \in [Users -> Entry \cup {None}], CacheIsTimely', calls' \in 0..MaxCalls
    PROVE  Inv'
<1>1. HandlersOK'
  <2> SUFFICES ASSUME NEW k \in Handlers PROVE LocOK(pc[k], loc[k])'
    BY DEF HandlersOK
  <2>1. LocOK(pc'[k], loc'[k])
    BY DEF Inv, HandlersOK, TypeOK, Goto
  <2> QED
    BY <2>1 DEF LocOK, LocTypes, IssuesTruth, CachesTruth, Exists
<1>2. TypeOK'
  <2>1. p \in Pcs /\ l \in Locals
    BY DEF LocOK, LocTypes
  <2> QED
    BY <2>1 DEF Inv, TypeOK, Goto
<1>3. AdminRemains' /\ AcceptableTokenIsCurrent' /\ SessionsHaveOwners'
  BY DEF Inv, AdminRemains, Admins, AcceptableTokenIsCurrent, SessionsHaveOwners, Exists
<1>4. TokensOfUsers' /\ EndedArePast'
  BY DEF Inv, TokensOfUsers, EndedArePast, Exists
<1> QED
  BY <1>1, <1>2, <1>3, <1>4 DEF Inv

(* An answer leaves nothing behind in the locals.                          *)
LEMMA IdleOK == LocOK("idle", NoLocals)
BY DEF LocOK, LocTypes, IssuesTruth, CachesTruth, Pcs, NoLocals, Unlocked, Locals,
   LoginPcs, IssuePcs, RefreshPcs, ClaimPcs, AuthPcs, OpPcs

Resting == UNCHANGED <<users, issued, ended, now, cache>> /\ sessions' \subseteq sessions

LEMMA RestingMove ==
    ASSUME Inv, NEW h \in Handlers, NEW p, NEW l, Goto(h, p, l), LocOK(p, l),
           Resting, calls' \in 0..MaxCalls
    PROVE  Inv'
<1>1. CacheIsTimely'
  BY DEF Inv, CacheIsTimely, Resting
<1>2. cache' \in [Users -> Entry \cup {None}]
  BY DEF Inv, TypeOK, Resting
<1> QED
  BY <1>1, <1>2, QuietMove DEF Resting

(* login and refresh up to the row they write.                             *)
LEMMA ReadsKeep ==
    ASSUME Inv, NEW h \in Handlers,
           \/ LoginRequest(h) \/ RefreshRequest(h) \/ Spend(h) \/ ReadAccount(h)
           \/ ReadGeneration(h) \/ HangUp(h)
    PROVE  Inv'
<1> USE DEF LoginPcs, IssuePcs, RefreshPcs, ClaimPcs, AuthPcs, OpPcs, Pcs
<1>0. /\ LocOK(pc[h], loc[h]) /\ calls \in 0..MaxCalls
      /\ users \in [Users -> Row \cup {None, Gone}]
      /\ issued \in [Tokens -> Claims \cup {None}]
  BY DEF Inv, HandlersOK, TypeOK
<1>1. CASE LoginRequest(h)
  <2>1. PICK u \in Users :
          /\ Exists(u)
          /\ LET row == users[u]
                 l == [NoLocals EXCEPT !.user = u, !.role = row.role, !.lock = row.locked]
             IN  IF row.locked # Unlocked
                 THEN /\ now >= row.locked
                      /\ Goto(h, "unlock", [l EXCEPT !.op = IF row.enabled THEN None ELSE "login"])
                 ELSE /\ row.enabled
                      /\ \E p \in {"fail", "clear"} : Goto(h, p, l)
    BY <1>1 DEF LoginRequest
  <2>2. users[u] \in Row
    BY <1>0, <2>1 DEF Exists
  <2> DEFINE l == [NoLocals EXCEPT !.user = u, !.role = users[u].role,
                                   !.lock = users[u].locked]
             m == [l EXCEPT !.op = IF users[u].enabled THEN None ELSE "login"]
  <2>3. "login" \in Ops
    BY <1>1 DEF LoginRequest
  <2>4. users[u].enabled => LocOK("fail", l) /\ LocOK("clear", l)
    BY <2>1, <2>2 DEF LocOK, LocTypes, IssuesTruth, CachesTruth, NoLocals, Unlocked, Locals, Row,
       Exists
  <2>5. LocOK("unlock", m)
    BY <2>1, <2>2, <2>3 DEF LocOK, LocTypes, IssuesTruth, CachesTruth, NoLocals, Unlocked, Locals, Row,
       Exists
  <2>6. Resting /\ calls' \in 0..MaxCalls
    <3>1. Begin(h) /\ UNCHANGED <<tables, cache, now, ended>>
      BY <1>1 DEF LoginRequest
    <3>2. Resting
      BY <3>1 DEF Resting, tables
    <3>3. calls' \in 0..MaxCalls
      BY <1>0, <3>1, BoundAssumption DEF Begin
    <3> QED
      BY <3>2, <3>3
  <2> HIDE DEF l, m
  <2>7. \/ Goto(h, "unlock", m)
        \/ users[u].enabled /\ (Goto(h, "fail", l) \/ Goto(h, "clear", l))
    BY <2>1 DEF l, m
  <2> QED
    BY <2>4, <2>5, <2>6, <2>7, RestingMove
<1>2. CASE RefreshRequest(h)
  <2>1. PICK t \in sessions :
          Goto(h, "spend", [NoLocals EXCEPT !.user = issued[t].user, !.token = t])
    BY <1>2 DEF RefreshRequest
  <2>2. t \in Tokens /\ issued[t] # None /\ issued[t].user \in Users
    BY <1>0 DEF Inv, TypeOK, Claims
  <2>3. LocOK("spend", [NoLocals EXCEPT !.user = issued[t].user, !.token = t])
    BY <2>2 DEF LocOK, LocTypes, IssuesTruth, CachesTruth, NoLocals, Unlocked, Locals
  <2>4. Resting /\ calls' \in 0..MaxCalls
    <3>1. Begin(h) /\ UNCHANGED <<tables, cache, now, ended>>
      BY <1>2 DEF RefreshRequest
    <3>2. Resting
      BY <3>1 DEF Resting, tables
    <3>3. calls' \in 0..MaxCalls
      BY <1>0, <3>1, BoundAssumption DEF Begin
    <3> QED
      BY <3>2, <3>3
  <2> QED
    BY <2>1, <2>3, <2>4, RestingMove
<1>3. CASE Spend(h)
  <2>1. LocOK("account", loc[h])
    BY <1>0, <1>3 DEF Spend, LocOK, LocTypes, IssuesTruth, CachesTruth
  <2>2. Resting /\ calls' \in 0..MaxCalls
    BY <1>0, <1>3 DEF Spend, Resting, history
  <2> QED
    BY <1>3, <2>1, <2>2, RestingMove DEF Spend
<1>4. CASE ReadAccount(h)
  <2> DEFINE u == loc[h].user
             l == [loc[h] EXCEPT !.role = users[u].role, !.overtaken = FALSE]
  <2>1. u \in Users /\ loc[h] \in Locals
    BY <1>0, <1>4 DEF ReadAccount, LocOK, LocTypes
  <2>2. Exists(u) /\ users[u].enabled => LocOK("generation", l)
    <3> SUFFICES ASSUME Exists(u), users[u].enabled PROVE LocOK("generation", l)
      OBVIOUS
    <3>1. users[u] \in Row
      BY <1>0, <2>1 DEF Exists
    <3> QED
      BY <2>1, <3>1 DEF LocOK, LocTypes, IssuesTruth, CachesTruth, Locals, Row, Exists
  <2>3. Resting /\ calls' \in 0..MaxCalls
    BY <1>0, <1>4 DEF ReadAccount, Resting, tables, history
  <2> HIDE DEF l
  <2>4. Goto(h, "idle", NoLocals) \/ (Exists(u) /\ users[u].enabled /\ Goto(h, "generation", l))
    BY <1>4 DEF ReadAccount, Respond, l
  <2> QED
    BY <2>2, <2>3, <2>4, RestingMove, IdleOK
<1>5. CASE ReadGeneration(h)
  <2> DEFINE u == loc[h].user
             l == [loc[h] EXCEPT !.generation = users[u].generation]
  <2>1. u \in Users /\ loc[h] \in Locals /\ LocOK("generation", loc[h])
    BY <1>0, <1>5 DEF ReadGeneration, LocOK, LocTypes
  <2>2. Exists(u) => LocOK("session", l)
    <3> SUFFICES ASSUME Exists(u) PROVE LocOK("session", l)
      OBVIOUS
    <3>1. users[u] \in Row
      BY <1>0, <2>1 DEF Exists
    <3> QED
      BY <2>1, <3>1 DEF LocOK, LocTypes, IssuesTruth, CachesTruth, Locals, Row, Exists,
         Generations
  <2>3. Resting /\ calls' \in 0..MaxCalls
    BY <1>0, <1>5 DEF ReadGeneration, Resting, tables, history
  <2> HIDE DEF l
  <2>4. Goto(h, "idle", NoLocals) \/ (Exists(u) /\ Goto(h, "session", l))
    BY <1>5 DEF ReadGeneration, Respond, l
  <2> QED
    BY <2>2, <2>3, <2>4, RestingMove, IdleOK
<1>6. CASE HangUp(h)
  <2>1. Resting /\ calls' \in 0..MaxCalls
    BY <1>0, <1>6 DEF HangUp, Resting, tables, history
  <2> QED
    BY <1>6, <2>1, RestingMove, IdleOK DEF HangUp, Respond
<1> QED
  BY <1>1, <1>2, <1>3, <1>4, <1>5, <1>6

-----------------------------------------------------------------------------
(* Steps of require_auth and of the handlers that write no row.            *)

LEMMA PassOK ==
    ASSUME Inv, NEW h \in Handlers, NEW l \in Locals, NEW g, Pass(h, l, g),
           l.token \in Tokens, issued[l.token] # None, l.user \in Users, l.op \in DOMAIN Start
    PROVE  \E p, m : Goto(h, p, m) /\ LocOK(p, m)
<1>1. CASE Respond(h)
  BY <1>1, IdleOK DEF Respond
<1>2. CASE Goto(h, "verify", l)
  <2>1. LocOK("verify", l)
    BY DEF LocOK, LocTypes, IssuesTruth, CachesTruth, LoginPcs, IssuePcs, RefreshPcs,
       ClaimPcs, AuthPcs, OpPcs, Pcs
  <2> QED
    BY <1>2, <2>1
<1>3. CASE Goto(h, Start[l.op], l)
  <2>1. Start[l.op] \in {"create", "update", "delete", "change", "owner", "bump"}
    BY DEF Start
  <2>2. LocOK(Start[l.op], l)
    BY <2>1 DEF LocOK, LocTypes, IssuesTruth, CachesTruth, LoginPcs, IssuePcs, RefreshPcs,
       ClaimPcs, AuthPcs, OpPcs, Pcs
  <2> QED
    BY <1>3, <2>2
<1> QED
  BY <1>1, <1>2, <1>3 DEF Pass

LEMMA CacheItOK ==
    ASSUME Inv, NEW u \in Users, NEW g \in Generations, ended[u][g] \in {None, now},
           CacheIt(u, g), UNCHANGED <<ended, now>>
    PROVE  CacheIsTimely' /\ cache' \in [Users -> Entry \cup {None}]
<1>1. now \in 0..MaxNow /\ cache \in [Users -> Entry \cup {None}]
  BY DEF Inv, TypeOK
<1>2. [generation |-> g, at |-> now] \in Entry
  BY <1>1 DEF Entry
<1>3. cache' \in [Users -> Entry \cup {None}]
  BY <1>1, <1>2 DEF CacheIt
<1>4. CacheIsTimely'
  <2> SUFFICES ASSUME NEW v \in Users, cache'[v] # None
               PROVE  /\ cache'[v].at <= now
                      /\ \/ ended[v][cache'[v].generation] = None
                         \/ cache'[v].at <= ended[v][cache'[v].generation]
    BY DEF CacheIsTimely
  <2>1. CASE v = u
    BY <1>1, <2>1, TimeAssumption DEF CacheIt
  <2>2. CASE v # u
    BY <1>1, <2>2 DEF CacheIt, Inv, CacheIsTimely
  <2> QED
    BY <2>1, <2>2
<1> QED
  BY <1>3, <1>4

LEMMA AuthenticationKeeps ==
    ASSUME Inv, NEW h \in Handlers, Authenticate(h)
    PROVE  Inv'
<1>0. /\ LocOK(pc[h], loc[h]) /\ calls \in 0..MaxCalls
      /\ users \in [Users -> Row \cup {None, Gone}]
      /\ issued \in [Tokens -> Claims \cup {None}]
  BY DEF Inv, HandlersOK, TypeOK
<1>1. CASE AuthRequest(h)
  <2>1. PICK t \in Tokens, op \in Ops \cap DOMAIN Start, target \in Users :
          /\ issued[t] # None
          /\ LET u == issued[t].user
                 l == [NoLocals EXCEPT !.user = target, !.token = t, !.op = op]
             IN  IF Fresh(u) THEN Pass(h, l, cache[u].generation) ELSE Goto(h, "lookup", l)
    BY <1>1 DEF AuthRequest
  <2> DEFINE l == [NoLocals EXCEPT !.user = target, !.token = t, !.op = op]
  <2>2. /\ l \in Locals /\ l.token = t /\ l.user = target /\ l.op = op
    BY DEF NoLocals, Unlocked, Locals
  <2>3. LocOK("lookup", l)
    BY <2>1, <2>2 DEF LocOK, LocTypes, IssuesTruth, CachesTruth, LoginPcs, IssuePcs, RefreshPcs,
       ClaimPcs, AuthPcs, OpPcs, Pcs
  <2> HIDE DEF l
  <2>4. \E p, m : Goto(h, p, m) /\ LocOK(p, m)
    <3>1. Pass(h, l, cache[issued[t].user].generation) \/ Goto(h, "lookup", l)
      BY <2>1 DEF l
    <3> QED
      BY <2>1, <2>2, <2>3, <3>1, PassOK
  <2>5. Resting /\ calls' \in 0..MaxCalls
    <3>1. Begin(h) /\ UNCHANGED <<tables, cache, now, ended>>
      BY <1>1 DEF AuthRequest
    <3>2. Resting
      BY <3>1 DEF Resting, tables
    <3>3. calls' \in 0..MaxCalls
      BY <1>0, <3>1, BoundAssumption DEF Begin
    <3> QED
      BY <3>2, <3>3
  <2> QED
    BY <2>4, <2>5, RestingMove
<1>2. CASE LookupGeneration(h)
  <2> DEFINE u == issued[loc[h].token].user
             l == [loc[h] EXCEPT !.generation = users[u].generation]
  <2>1. LocOK("lookup", loc[h]) /\ loc[h] \in Locals /\ u \in Users
    BY <1>0, <1>2 DEF LookupGeneration, LocOK, LocTypes, ClaimPcs, AuthPcs, Claims
  <2>2. Exists(u) => LocOK("store", l)
    <3> SUFFICES ASSUME Exists(u) PROVE LocOK("store", l)
      OBVIOUS
    <3>1. users[u] \in Row
      BY <1>0, <2>1 DEF Exists
    <3>2. users[u].generation \in Generations /\ users[u].generation >= users[u].generation
      BY <3>1 DEF Row, Generations
    <3>3. ended[u][users[u].generation] = None
      BY <2>1, <3>2 DEF Inv, EndedArePast
    <3> QED
      BY <2>1, <3>2, <3>3 DEF LocOK, LocTypes, IssuesTruth, CachesTruth, Locals,
         LoginPcs, IssuePcs, RefreshPcs, ClaimPcs, AuthPcs, OpPcs, Pcs
  <2>3. Resting /\ calls' \in 0..MaxCalls
    BY <1>0, <1>2 DEF LookupGeneration, Resting, tables, history
  <2> HIDE DEF l
  <2>4. Goto(h, "idle", NoLocals) \/ (Exists(u) /\ Goto(h, "store", l))
    BY <1>2 DEF LookupGeneration, Respond, l
  <2> QED
    BY <2>2, <2>3, <2>4, RestingMove, IdleOK
<1>3. CASE StoreGeneration(h)
  <2> DEFINE u == issued[loc[h].token].user
             l == [loc[h] EXCEPT !.generation = None]
  <2>1. /\ LocOK("store", loc[h]) /\ loc[h] \in Locals /\ u \in Users
        /\ loc[h].token \in Tokens /\ issued[loc[h].token] # None /\ loc[h].user \in Users
        /\ loc[h].op \in DOMAIN Start /\ loc[h].generation \in Generations
        /\ ended[u][loc[h].generation] \in {None, now}
    BY <1>0, <1>3 DEF StoreGeneration, LocOK, LocTypes, CachesTruth, ClaimPcs, AuthPcs, Claims
  <2>2. /\ l \in Locals /\ l.token = loc[h].token /\ l.user = loc[h].user /\ l.op = loc[h].op
    BY <2>1 DEF Locals
  <2>3. CacheIt(u, loc[h].generation) /\ Pass(h, l, loc[h].generation)
    BY <1>3 DEF StoreGeneration
  <2> HIDE DEF l
  <2>4. \E p, m : Goto(h, p, m) /\ LocOK(p, m)
    BY <2>1, <2>2, <2>3, PassOK
  <2>5. UNCHANGED <<users, issued, sessions, ended, now, calls>>
    BY <1>3 DEF StoreGeneration, tables, history
  <2>6. CacheIsTimely' /\ cache' \in [Users -> Entry \cup {None}]
    BY <2>1, <2>3, <2>5, CacheItOK
  <2>7. sessions' \subseteq sessions /\ calls' \in 0..MaxCalls
    BY <1>0, <2>5
  <2> QED
    BY <2>4, <2>5, <2>6, <2>7, QuietMove
<1> QED
  BY <1>1, <1>2, <1>3 DEF Authenticate

LEMMA OthersKeep ==
    ASSUME Inv, NEW h \in Handlers,
           \/ VerifyCurrent(h) \/ Logout(h) \/ FindOwner(h) \/ DropSession(h)
           \/ Reread(h) \/ Publish(h) \/ Evict(h)
    PROVE  Inv'
<1> USE DEF LoginPcs, IssuePcs, RefreshPcs, ClaimPcs, AuthPcs, OpPcs, Pcs
<1>0. /\ LocOK(pc[h], loc[h]) /\ calls \in 0..MaxCalls
      /\ users \in [Users -> Row \cup {None, Gone}]
      /\ issued \in [Tokens -> Claims \cup {None}]
      /\ sessions \subseteq Tokens /\ \A t \in sessions : issued[t] # None
  BY DEF Inv, HandlersOK, TypeOK
<1>1. CASE VerifyCurrent(h)
  <2>1. LocOK("change", loc[h])
    BY <1>0, <1>1 DEF VerifyCurrent, LocOK, LocTypes, IssuesTruth, CachesTruth
  <2>2. Resting /\ calls' \in 0..MaxCalls
    BY <1>0, <1>1 DEF VerifyCurrent, Resting, tables, history
  <2> QED
    BY <1>1, <2>1, <2>2, RestingMove, IdleOK DEF VerifyCurrent, Respond
<1>2. CASE Logout(h)
  <2>1. LocOK("reread", loc[h])
    BY <1>0, <1>2 DEF Logout, LocOK, LocTypes, IssuesTruth, CachesTruth
  <2>2. Resting /\ calls' \in 0..MaxCalls
    BY <1>0, <1>2 DEF Logout, Resting, history
  <2> QED
    BY <1>2, <2>1, <2>2, RestingMove DEF Logout
<1>3. CASE FindOwner(h)
  <2>1. PICK s \in Tokens :
          Goto(h, "drop", [loc[h] EXCEPT !.token = s,
              !.user = IF s \in sessions THEN issued[s].user ELSE None])
    BY <1>3 DEF FindOwner
  <2> DEFINE l == [loc[h] EXCEPT !.token = s,
                       !.user = IF s \in sessions THEN issued[s].user ELSE None]
  <2>2. s \in sessions => issued[s].user \in Users
    BY <1>0 DEF Claims
  <2>3. LocOK("drop", l)
    BY <1>0, <2>2 DEF LocOK, LocTypes, IssuesTruth, CachesTruth, Locals
  <2>4. Resting /\ calls' \in 0..MaxCalls
    BY <1>0, <1>3 DEF FindOwner, Resting, tables, history
  <2> QED
    BY <2>1, <2>3, <2>4, RestingMove
<1>4. CASE DropSession(h)
  <2>1. loc[h].user # None => LocOK("bump", loc[h])
    BY <1>0, <1>4 DEF DropSession, LocOK, LocTypes, IssuesTruth, CachesTruth, Locals
  <2>2. Resting /\ calls' \in 0..MaxCalls
    BY <1>0, <1>4 DEF DropSession, Resting, history
  <2>3. \/ Goto(h, "idle", NoLocals)
        \/ loc[h].user # None /\ Goto(h, "bump", loc[h])
    BY <1>4 DEF DropSession, Respond
  <2> QED
    BY <2>1, <2>2, <2>3, RestingMove, IdleOK
<1>5. CASE Reread(h)
  <2> DEFINE u == loc[h].user
             l == [loc[h] EXCEPT !.generation = users[u].generation]
  <2>1. LocOK("reread", loc[h]) /\ loc[h] \in Locals /\ u \in Users
    BY <1>0, <1>5 DEF Reread, LocOK, LocTypes
  <2>2. Exists(u) => LocOK("publish", l)
    <3> SUFFICES ASSUME Exists(u) PROVE LocOK("publish", l)
      OBVIOUS
    <3>1. users[u] \in Row
      BY <1>0, <2>1 DEF Exists
    <3>2. users[u].generation \in Generations /\ users[u].generation >= users[u].generation
      BY <3>1 DEF Row, Generations
    <3>3. ended[u][users[u].generation] = None
      BY <2>1, <3>2 DEF Inv, EndedArePast
    <3> QED
      BY <2>1, <3>2, <3>3 DEF LocOK, LocTypes, IssuesTruth, CachesTruth, Locals
  <2>3. Resting /\ calls' \in 0..MaxCalls
    BY <1>0, <1>5 DEF Reread, Resting, tables, history
  <2> HIDE DEF l
  <2>4. Goto(h, "idle", NoLocals) \/ (Exists(u) /\ Goto(h, "publish", l))
    BY <1>5 DEF Reread, Respond, l
  <2> QED
    BY <2>2, <2>3, <2>4, RestingMove, IdleOK
<1>6. CASE Publish(h)
  <2>1. /\ loc[h].user \in Users /\ loc[h].generation \in Generations
        /\ ended[loc[h].user][loc[h].generation] \in {None, now}
    BY <1>0, <1>6 DEF Publish, LocOK, LocTypes, CachesTruth
  <2>2. UNCHANGED <<users, issued, sessions, ended, now, calls>>
    BY <1>6 DEF Publish, tables, history
  <2>3. CacheIsTimely' /\ cache' \in [Users -> Entry \cup {None}]
    BY <1>6, <2>1, <2>2, CacheItOK DEF Publish
  <2>4. sessions' \subseteq sessions /\ calls' \in 0..MaxCalls
    BY <1>0, <2>2
  <2> QED
    BY <1>6, <2>2, <2>3, <2>4, IdleOK, QuietMove DEF Publish, Respond
<1>7. CASE Evict(h)
  <2>1. UNCHANGED <<users, issued, sessions, ended, now, calls>>
    BY <1>7 DEF Evict, tables, history
  <2>2. cache' = [cache EXCEPT ![loc[h].user] = None]
    BY <1>7 DEF Evict
  <2>3. CacheIsTimely' /\ cache' \in [Users -> Entry \cup {None}]
    BY <2>1, <2>2 DEF Inv, TypeOK, CacheIsTimely
  <2>4. sessions' \subseteq sessions /\ calls' \in 0..MaxCalls
    BY <1>0, <2>1
  <2> QED
    BY <1>7, <2>1, <2>3, <2>4, IdleOK, QuietMove DEF Evict, Respond
<1> QED
  BY <1>1, <1>2, <1>3, <1>4, <1>5, <1>6, <1>7

-----------------------------------------------------------------------------
(* Steps that write a row.                                                 *)

(* A row whose generation, and so whose privileges, stay.                  *)
LEMMA SameGeneration ==
    ASSUME Inv, NEW h \in Handlers, NEW p, NEW l, Goto(h, p, l), LocOK(p, l),
           NEW u \in Users, Exists(u), NEW row \in Row, SetRow(u, row),
           row.generation = users[u].generation, row.role = users[u].role,
           users[u].enabled => row.enabled,
           UNCHANGED <<sessions, issued, cache, now, calls>>
    PROVE  Inv'
<1>0. /\ ended' = ended
      /\ users \in [Users -> Row \cup {None, Gone}]
      /\ users' = [users EXCEPT ![u] = row]
      /\ row \notin {None, Gone}
  BY NoneAssumption DEF SetRow, Inv, TypeOK
<1>1. HandlersOK'
  <2> SUFFICES ASSUME NEW k \in Handlers PROVE LocOK(pc[k], loc[k])'
    BY DEF HandlersOK
  <2>1. LocOK(pc'[k], loc'[k])
    BY DEF Inv, HandlersOK, TypeOK, Goto
  <2>2. LocTypes(pc[k], loc[k])'
    BY <1>0, <2>1 DEF LocOK, LocTypes, Exists
  <2>3. IssuesTruth(pc[k], loc[k])'
    BY <1>0, <2>1 DEF LocOK, IssuesTruth, LocTypes, LoginPcs, IssuePcs, Exists
  <2>4. CachesTruth(pc[k], loc[k])'
    BY <1>0, <2>1 DEF LocOK, CachesTruth
  <2> QED
    BY <2>2, <2>3, <2>4 DEF LocOK
<1>2. TypeOK'
  <2>1. p \in Pcs /\ l \in Locals
    BY DEF LocOK, LocTypes
  <2> QED
    BY <1>0, <2>1 DEF Inv, TypeOK, Goto
<1>3. AdminRemains'
  BY <1>0 DEF Inv, AdminRemains, Admins, Exists
<1>4. AcceptableTokenIsCurrent' /\ SessionsHaveOwners'
  BY <1>0 DEF Inv, TypeOK, Claims, AcceptableTokenIsCurrent, SessionsHaveOwners, Exists
<1>5. TokensOfUsers' /\ EndedArePast' /\ CacheIsTimely'
  BY <1>0 DEF Inv, TypeOK, Claims, TokensOfUsers, EndedArePast, CacheIsTimely, Exists
<1> QED
  BY <1>1, <1>2, <1>3, <1>4, <1>5 DEF Inv

(* The tables and the cache after a generation of u has ended.             *)
Bump(u, row) ==
    /\ Exists(u) /\ SetRow(u, row) /\ row \in Row
    /\ row.generation = users[u].generation + 1
    /\ UNCHANGED <<sessions, issued, cache, now, calls>>

LEMMA BumpKeepsTables ==
    ASSUME Inv, NEW u \in Users, NEW row, Bump(u, row)
    PROVE  /\ AcceptableTokenIsCurrent' /\ SessionsHaveOwners'
           /\ TokensOfUsers' /\ EndedArePast' /\ CacheIsTimely'
           /\ users' \in [Users -> Row \cup {None, Gone}]
           /\ ended' \in [Users -> [Generations -> 0..MaxNow \cup {None}]]
<1>0. /\ users \in [Users -> Row \cup {None, Gone}] /\ users[u] \in Row
      /\ users[u].generation \in Generations /\ now \in 0..MaxNow
      /\ ended \in [Users -> [Generations -> 0..MaxNow \cup {None}]]
      /\ users' = [users EXCEPT ![u] = row]
      /\ row \notin {None, Gone} /\ row.generation > users[u].generation
  BY NoneAssumption DEF Bump, SetRow, Inv, TypeOK, Exists, Row, Generations
<1>1. ended' = [ended EXCEPT ![u][users[u].generation] = now]
  BY <1>0 DEF Bump, SetRow, Generations
<1>2. AcceptableTokenIsCurrent' /\ SessionsHaveOwners' /\ TokensOfUsers'
  <2>1. \A t \in Tokens : issued[t] # None => issued[t] \in Claims
    BY DEF Inv, TypeOK
  <2>2. AcceptableTokenIsCurrent'
    BY <1>0, <2>1 DEF Bump, Inv, Claims, Generations, AcceptableTokenIsCurrent, TokensOfUsers,
       Exists
  <2>3. SessionsHaveOwners'
    BY <1>0, <2>1 DEF Bump, Inv, TypeOK, Claims, SessionsHaveOwners, Exists
  <2>4. TokensOfUsers'
    BY <1>0, <2>1 DEF Bump, Inv, Claims, Generations, TokensOfUsers, Exists
  <2> QED
    BY <2>2, <2>3, <2>4
<1>3. EndedArePast'
  BY <1>0, <1>1 DEF Bump, Inv, EndedArePast, Exists, Generations
<1>4. CacheIsTimely'
  <2>1. \A v \in Users : cache[v] # None => cache[v] \in Entry
    BY DEF Inv, TypeOK
  <2> QED
    BY <1>0, <1>1, <2>1 DEF Bump, Inv, CacheIsTimely, Entry, Generations
<1> QED
  BY <1>0, <1>1, <1>2, <1>3, <1>4 DEF Bump

(* What a handler knows survives it, if it is overtaken where it must be.  *)
LEMMA BumpKeepsLocals ==
    ASSUME Inv, NEW u \in Users, NEW row, Bump(u, row), NEW q, NEW m, LocOK(q, m),
           \/ q \notin {"unlock", "clear", "generation"} \/ m.user # u \/ m.overtaken
           \/ row.role = users[u].role /\ row.enabled = users[u].enabled
    PROVE  LocOK(q, m)'
<1>0. /\ users \in [Users -> Row \cup {None, Gone}] /\ users[u] \in Row
      /\ users[u].generation \in Generations /\ now \in 0..MaxNow
      /\ ended \in [Users -> [Generations -> 0..MaxNow \cup {None}]]
      /\ issued \in [Tokens -> Claims \cup {None}]
      /\ users' = [users EXCEPT ![u] = row]
      /\ row \notin {None, Gone}
      /\ issued' = issued /\ now' = now
  BY NoneAssumption DEF Bump, SetRow, Inv, TypeOK, Exists, Row
<1>1. ended' = [ended EXCEPT ![u][users[u].generation] = now]
  BY <1>0 DEF Bump, SetRow, Generations
<1>2. LocTypes(q, m)'
  BY <1>0 DEF LocOK, LocTypes
<1>3. IssuesTruth(q, m)'
  BY <1>0 DEF Bump, LocOK, LocTypes, IssuesTruth, LoginPcs, IssuePcs, Exists, Generations
<1>4. CachesTruth(q, m)'
  BY <1>0, <1>1 DEF LocOK, LocTypes, CachesTruth, ClaimPcs, AuthPcs, OpPcs, Claims
<1> QED
  BY <1>2, <1>3, <1>4 DEF LocOK

(* One handler moves on, no privilege changes.                             *)
LEMMA BumpMove ==
    ASSUME Inv, NEW h \in Handlers, NEW p, NEW l, Goto(h, p, l), LocOK(p, l)',
           NEW u \in Users, NEW row, Bump(u, row),
           row.role = users[u].role, row.enabled = users[u].enabled
    PROVE  Inv'
<1>1. HandlersOK'
  <2> SUFFICES ASSUME NEW k \in Handlers, NEW q, NEW m, q = pc'[k], m = loc'[k]
               PROVE  LocOK(q, m)'
    BY DEF HandlersOK, LocOK, LocTypes, IssuesTruth, CachesTruth
  <2>1. CASE k = h
    BY <2>1 DEF Goto, Inv, TypeOK
  <2>2. CASE k # h
    <3>1. LocOK(q, m)
      BY <2>2 DEF Goto, Inv, TypeOK, HandlersOK
    <3> QED
      BY <3>1, BumpKeepsLocals
  <2> QED
    BY <2>1, <2>2
<1>2. TypeOK'
  <2>1. p \in Pcs /\ l \in Locals
    BY DEF LocOK, LocTypes
  <2> QED
    BY <2>1, BumpKeepsTables DEF Bump, Inv, TypeOK, Goto
<1>3. AdminRemains'
  <2>1. users' = [users EXCEPT ![u] = row] /\ users \in [Users -> Row \cup {None, Gone}]
        /\ row \notin {None, Gone}
    BY NoneAssumption DEF Bump, SetRow, Inv, TypeOK
  <2> QED
    BY <2>1 DEF Bump, Inv, AdminRemains, Admins, Exists
<1> QED
  BY <1>1, <1>2, <1>3, BumpKeepsTables DEF Inv

(* The steps of a login that write the counter of failures.                *)
LEMMA LoginKeeps ==
    ASSUME Inv, NEW h \in Handlers, ResetLock(h) \/ RecordFailedLogin(h) \/ ClearFailed(h)
    PROVE  Inv'
<1> USE DEF LoginPcs, IssuePcs, RefreshPcs, ClaimPcs, AuthPcs, OpPcs, Pcs
<1> DEFINE u == loc[h].user
<1>0. /\ LocOK(pc[h], loc[h]) /\ calls \in 0..MaxCalls /\ now \in 0..MaxNow
      /\ users \in [Users -> Row \cup {None, Gone}]
      /\ UNCHANGED <<sessions, issued, cache, now, calls>>
  BY DEF Inv, HandlersOK, TypeOK, ResetLock, RecordFailedLogin, ClearFailed
<1>1. \E p, l : Goto(h, p, l) /\ LocOK(p, l)
  <2>1. CASE ResetLock(h)
    <3> DEFINE l == [loc[h] EXCEPT !.lock = Unlocked]
    <3>0. /\ l \in Locals /\ l.user = loc[h].user /\ l.role = loc[h].role
          /\ l.token = loc[h].token /\ l.generation = loc[h].generation /\ l.op = loc[h].op
          /\ l.overtaken = loc[h].overtaken
      BY <1>0 DEF LocOK, LocTypes, Locals, Unlocked
    <3>1. loc[h].op # "login" => LocOK("fail", l) /\ LocOK("clear", l)
      BY <1>0, <2>1, <3>0 DEF ResetLock, LocOK, LocTypes, IssuesTruth, CachesTruth
    <3> QED
      BY <2>1, <3>1, IdleOK DEF ResetLock, Respond
  <2>2. CASE RecordFailedLogin(h)
    BY <2>2, IdleOK DEF RecordFailedLogin, Respond
  <2>3. CASE ClearFailed(h)
    <3>1. LocOK("generation", loc[h])
      BY <1>0, <2>3 DEF ClearFailed, LocOK, LocTypes, IssuesTruth, CachesTruth
    <3> QED
      BY <2>3, <3>1 DEF ClearFailed
  <2> QED
    BY <2>1, <2>2, <2>3
<1>2. u \in Users
  BY <1>0 DEF LocOK, LocTypes, ResetLock, RecordFailedLogin, ClearFailed
<1>3. CASE ~Exists(u)
  <2>1. Resting /\ calls' \in 0..MaxCalls
    BY <1>0, <1>3 DEF ResetLock, RecordFailedLogin, ClearFailed, ResetFailed, Resting
  <2> QED
    BY <1>1, <2>1, RestingMove
<1>4. CASE Exists(u)
  <2>1. users[u] \in Row
    BY <1>0, <1>2, <1>4 DEF Exists
  <2>2. PICK row \in Row : /\ SetRow(u, row)
                          /\ row.generation = users[u].generation
                          /\ row.role = users[u].role /\ row.enabled = users[u].enabled
    <3>1. CASE ResetFailed(u)
      <4>1. Unlock(users[u]) \in Row
        BY <2>1 DEF Row, Unlock, Unlocked
      <4> QED
        BY <1>4, <2>1, <3>1, <4>1 DEF ResetFailed, Unlock, Row
    <3>2. CASE RecordFailedLogin(h)
      <4>1. PICK n, lock : /\ n = users[u].failed + 1
                          /\ lock = IF Locks(n) THEN now + LockFor ELSE users[u].locked
        OBVIOUS
      <4>2. n \in Nat /\ lock \in Times \cup {-1}
        BY <1>0, <2>1, <4>1, TimeAssumption DEF Row, Times
      <4>3. SetRow(u, [users[u] EXCEPT !.failed = n, !.locked = lock])
        BY <1>4, <2>1, <3>2, <4>1 DEF RecordFailedLogin, Row
      <4>4. [users[u] EXCEPT !.failed = n, !.locked = lock] \in Row
        BY <2>1, <4>2 DEF Row
      <4> QED
        BY <2>1, <4>3, <4>4 DEF Row
    <3> QED
      BY <3>1, <3>2 DEF ResetLock, ClearFailed
  <2> QED
    BY <1>0, <1>1, <1>2, <1>4, <2>2, SameGeneration
<1> QED
  BY <1>3, <1>4

LEMMA BumpedRow ==
    ASSUME NEW row \in Row, row.generation < MaxGeneration
    PROVE  /\ Bumped(row) \in Row /\ Bumped(row).generation = row.generation + 1
           /\ Bumped(row).role = row.role /\ Bumped(row).enabled = row.enabled
BY BoundAssumption DEF Row, Bumped, Generations

LEMMA RevocationKeeps ==
    ASSUME Inv, NEW h \in Handlers, ChangePassword(h) \/ BumpGeneration(h)
    PROVE  Inv'
<1> USE DEF LoginPcs, IssuePcs, RefreshPcs, ClaimPcs, AuthPcs, OpPcs, Pcs
<1>0. PICK u : u = loc[h].user
  OBVIOUS
<1>1. /\ LocOK(pc[h], loc[h]) /\ calls \in 0..MaxCalls /\ now \in 0..MaxNow
      /\ users \in [Users -> Row \cup {None, Gone}]
      /\ UNCHANGED <<sessions, issued, cache, now, calls>>
  BY DEF Inv, HandlersOK, TypeOK, ChangePassword, BumpGeneration
<1>2. u \in Users /\ loc[h] \in Locals
  BY <1>0, <1>1 DEF LocOK, LocTypes, ChangePassword, BumpGeneration
<1>3. CASE ~Exists(u)
  <2>1. Respond(h) /\ Resting
    BY <1>0, <1>1, <1>3 DEF ChangePassword, BumpGeneration, Resting
  <2> QED
    BY <1>0, <1>1, <2>1, IdleOK, RestingMove DEF Respond
<1>4. CASE Exists(u)
  <2>1. users[u] \in Row
    BY <1>0, <1>1, <1>2, <1>4 DEF Exists
  <2>2. PICK row : row = Bumped(users[u])
    OBVIOUS
  <2>3. /\ Bump(u, row) /\ SetRow(u, row) /\ row \in Row
        /\ row.role = users[u].role /\ row.enabled = users[u].enabled
    <3>1. SetRow(u, row) /\ users[u].generation < MaxGeneration
      BY <1>0, <1>4, <2>2 DEF ChangePassword, BumpGeneration, CanBump
    <3> QED
      BY <1>0, <1>1, <1>4, <2>1, <2>2, <3>1, BumpedRow DEF Bump
  <2>4. /\ users'[u] = row /\ users'[u] \in Row /\ users'[u] \notin {None, Gone}
        /\ users'[u].generation \in Generations
        /\ users'[u].generation >= users'[u].generation
    BY <1>0, <1>1, <1>2, <2>3, NoneAssumption DEF SetRow, Row, Generations
  <2>5. \E p, l : Goto(h, p, l) /\ LocOK(p, l)'
    <3>1. CASE ChangePassword(h)
      <4>1. LocOK("logout", loc[h])
        BY <1>0, <1>1, <3>1 DEF ChangePassword, LocOK, LocTypes, IssuesTruth, CachesTruth
      <4>2. Goto(h, "logout", loc[h])
        BY <1>0, <1>4, <3>1 DEF ChangePassword
      <4>3. PICK m : m = loc[h]
        OBVIOUS
      <4>4. LocOK("logout", m)'
        BY <1>2, <2>3, <4>1, <4>3, BumpKeepsLocals
      <4> QED
        BY <4>2, <4>3, <4>4
    <3>2. CASE BumpGeneration(h)
      <4>1. PICK m : m = [loc[h] EXCEPT !.generation = users'[u].generation]
        OBVIOUS
      <4>2. Goto(h, "publish", m)
        BY <1>0, <1>4, <3>2, <4>1 DEF BumpGeneration
      <4>3. m \in Locals /\ m.user = u /\ m.generation = users'[u].generation
        BY <1>0, <1>2, <2>4, <4>1 DEF Locals
      <4>4. ended'[u][m.generation] = None
        <5>1. EndedArePast'
          BY <1>2, <2>3, BumpKeepsTables
        <5> QED
          BY <1>0, <1>2, <2>4, <4>3, <5>1 DEF EndedArePast, Exists
      <4>5. LocOK("publish", m)'
        BY <1>0, <1>2, <2>4, <4>3, <4>4 DEF LocOK, LocTypes, IssuesTruth, CachesTruth
      <4> QED
        BY <4>2, <4>5
    <3> QED
      BY <3>1, <3>2
  <2> QED
    BY <1>0, <1>2, <2>3, <2>5, BumpMove
<1> QED
  BY <1>3, <1>4

(* An administrator stays behind: the guard and the write are one step.    *)
LEMMA UpdateKeeps ==
    ASSUME Inv, NEW h \in Handlers, UpdateUser(h)
    PROVE  Inv'
<1> USE DEF LoginPcs, IssuePcs, RefreshPcs, ClaimPcs, AuthPcs, OpPcs, Pcs
<1>0. PICK u : u = loc[h].user
  OBVIOUS
<1>1. /\ LocOK(pc[h], loc[h]) /\ calls \in 0..MaxCalls /\ pc[h] = "update"
      /\ users \in [Users -> Row \cup {None, Gone}]
      /\ pc \in [Handlers -> Pcs] /\ loc \in [Handlers -> Locals]
      /\ UNCHANGED <<sessions, issued, cache, now, calls>>
  BY DEF Inv, HandlersOK, TypeOK, UpdateUser
<1>2. u \in Users /\ loc[h] \in Locals /\ LocOK("reread", loc[h])
  BY <1>0, <1>1 DEF LocOK, LocTypes, IssuesTruth, CachesTruth
<1>3. CASE Respond(h) /\ UNCHANGED <<users, ended>>
  <2>1. Resting
    BY <1>1, <1>3 DEF Resting
  <2> QED
    BY <1>1, <1>3, <2>1, IdleOK, RestingMove DEF Respond
<1>4. ASSUME Exists(u), NEW r \in Roles, NEW e \in BOOLEAN, MayUpdate(u, r, e),
             LET row == [users[u] EXCEPT !.role = r, !.enabled = e]
                 reduced == Reduces(users[u], r, e)
             IN  /\ reduced => CanBump(u)
                 /\ SetRow(u, IF reduced THEN Bumped(row) ELSE row)
                 /\ IF reduced THEN Overtake(u) ELSE UNCHANGED loc,
             pc' = [pc EXCEPT ![h] = "reread"]
      PROVE  Inv'
  <2>1. PICK row : row = [users[u] EXCEPT !.role = r, !.enabled = e]
    OBVIOUS
  <2>2. users[u] \in Row
    BY <1>1, <1>2, <1>4 DEF Exists
  <2>3. /\ row \in Row /\ row.role = r /\ row.enabled = e
        /\ row.generation = users[u].generation
    BY <2>1, <2>2 DEF Row
  <2>4. CASE ~Reduces(users[u], r, e)
    <3>1. SetRow(u, row) /\ UNCHANGED loc
      BY <1>4, <2>1, <2>4
    <3>2. Goto(h, "reread", loc[h])
      BY <1>1, <1>4, <3>1 DEF Goto
    <3>3. row.role = users[u].role /\ (users[u].enabled => row.enabled)
      BY <2>3, <2>4 DEF Reduces
    <3> QED
      BY <1>1, <1>2, <1>4, <2>3, <3>1, <3>2, <3>3, SameGeneration
  <2>5. CASE Reduces(users[u], r, e)
    <3>1. PICK new : new = Bumped(row)
      OBVIOUS
    <3>2. SetRow(u, new) /\ Overtake(u) /\ users[u].generation < MaxGeneration
      BY <1>4, <2>1, <2>5, <3>1 DEF CanBump
    <3>3. /\ new \in Row /\ new.generation = users[u].generation + 1
          /\ new.role = r /\ new.enabled = e
      BY <2>3, <3>1, <3>2, BumpedRow
    <3>4. Bump(u, new)
      BY <1>1, <1>4, <3>2, <3>3 DEF Bump
    <3>5. HandlersOK'
      <4> SUFFICES ASSUME NEW k \in Handlers, NEW q, NEW m, q = pc'[k], m = loc'[k]
                   PROVE  LocOK(q, m)'
        BY DEF HandlersOK, LocOK, LocTypes, IssuesTruth, CachesTruth
      <4>1. LocOK(pc[k], loc[k]) /\ loc[k] \in Locals
        BY <1>1 DEF Inv, HandlersOK
      <4>2. CASE k = h
        <5>1. q = "reread" /\ m = loc[h]
          BY <1>1, <1>4, <3>2, <4>2 DEF Overtake
        <5>2. LocOK(q, m)
          BY <1>2, <5>1
        <5> QED
          BY <1>2, <3>4, <5>1, <5>2, BumpKeepsLocals
      <4>3. CASE k # h /\ pc[k] \in {"unlock", "clear", "generation"} /\ loc[k].user = u
        <5>1. q = pc[k] /\ m = [loc[k] EXCEPT !.overtaken = TRUE]
          BY <1>1, <1>4, <3>2, <4>3 DEF Overtake
        <5>2. m \in Locals /\ m.overtaken /\ m.user = loc[k].user /\ m.role = loc[k].role
          BY <4>1, <5>1 DEF Locals
        <5>3. LocOK(q, m)
          BY <4>1, <4>3, <5>1, <5>2 DEF LocOK, LocTypes, IssuesTruth, CachesTruth
        <5> QED
          BY <1>2, <3>4, <5>2, <5>3, BumpKeepsLocals
      <4>4. CASE k # h /\ ~(pc[k] \in {"unlock", "clear", "generation"} /\ loc[k].user = u)
        <5>1. q = pc[k] /\ m = loc[k]
          BY <1>1, <1>4, <3>2, <4>4 DEF Overtake
        <5> QED
          BY <1>2, <3>4, <4>1, <4>4, <5>1, BumpKeepsLocals
      <4> QED
        BY <4>2, <4>3, <4>4
    <3>6. loc' \in [Handlers -> Locals]
      <4>1. \A k \in Handlers : [loc[k] EXCEPT !.overtaken = TRUE] \in Locals
        BY <1>1 DEF Locals
      <4> QED
        BY <1>1, <3>2, <4>1 DEF Overtake
    <3>7. TypeOK'
      <4>1. pc' \in [Handlers -> Pcs]
        BY <1>1, <1>4
      <4> QED
        BY <1>1, <1>2, <3>4, <3>6, <4>1, BumpKeepsTables DEF Inv, TypeOK
    <3>8. AdminRemains'
      <4>1. users' = [users EXCEPT ![u] = new] /\ new \notin {None, Gone}
        BY <3>2, <3>3, NoneAssumption DEF SetRow
      <4>2. CASE u \in Admins /\ ~(r = "admin" /\ e)
        <5>1. PICK v \in Admins : v # u
          BY <1>4, <4>2 DEF MayUpdate, Admins
        <5>2. v \in Admins'
          BY <1>1, <4>1, <5>1 DEF Admins, Exists
        <5> QED
          BY <5>2 DEF AdminRemains
      <4>3. CASE ~(u \in Admins /\ ~(r = "admin" /\ e))
        <5>1. PICK v \in Admins : TRUE
          BY DEF Inv, AdminRemains
        <5>2. v \in Admins'
          BY <1>1, <1>2, <3>3, <4>1, <4>3, <5>1 DEF Admins, Exists
        <5> QED
          BY <5>2 DEF AdminRemains
      <4> QED
        BY <4>2, <4>3
    <3> QED
      BY <1>2, <3>4, <3>5, <3>7, <3>8, BumpKeepsTables DEF Inv
  <2> QED
    BY <2>4, <2>5
<1> QED
  BY <1>0, <1>3, <1>4 DEF UpdateUser

LEMMA DeleteKeeps ==
    ASSUME Inv, NEW h \in Handlers, DeleteUser(h)
    PROVE  Inv'
<1> USE DEF LoginPcs, IssuePcs, RefreshPcs, ClaimPcs, AuthPcs, OpPcs, Pcs
<1>0. PICK u : u = loc[h].user
  OBVIOUS
<1>1. /\ LocOK(pc[h], loc[h]) /\ calls \in 0..MaxCalls /\ pc[h] = "delete"
      /\ users \in [Users -> Row \cup {None, Gone}] /\ now \in 0..MaxNow
      /\ ended \in [Users -> [Generations -> 0..MaxNow \cup {None}]]
      /\ issued \in [Tokens -> Claims \cup {None}]
      /\ UNCHANGED <<issued, cache, now, calls>>
  BY DEF Inv, HandlersOK, TypeOK, DeleteUser
<1>2. u \in Users /\ loc[h] \in Locals /\ LocOK("evict", loc[h])
  BY <1>0, <1>1 DEF LocOK, LocTypes, IssuesTruth, CachesTruth
<1>3. CASE ~(Exists(u) /\ MayDelete(u))
  <2>1. Respond(h) /\ Resting
    BY <1>0, <1>1, <1>3 DEF DeleteUser, Resting
  <2> QED
    BY <1>1, <2>1, IdleOK, RestingMove DEF Respond
<1>4. CASE Exists(u) /\ MayDelete(u)
  <2>1. users[u] \in Row /\ users[u].generation \in Generations
    BY <1>1, <1>2, <1>4 DEF Exists, Row
  <2>2. /\ users' = [users EXCEPT ![u] = Gone]
        /\ ended' = [ended EXCEPT ![u][users[u].generation] = now]
        /\ sessions' = {t \in sessions : issued[t].user # u}
        /\ Goto(h, "evict", loc[h])
    BY <1>0, <1>4 DEF DeleteUser
  <2>3. HandlersOK'
    <3> SUFFICES ASSUME NEW k \in Handlers PROVE LocOK(pc[k], loc[k])'
      BY DEF HandlersOK
    <3>1. LocOK(pc'[k], loc'[k])
      BY <1>2, <2>2 DEF Inv, HandlersOK, TypeOK, Goto
    <3>2. LocTypes(pc[k], loc[k])'
      BY <1>1, <2>2, <3>1, NoneAssumption DEF LocOK, LocTypes
    <3>3. IssuesTruth(pc[k], loc[k])'
      BY <1>1, <2>2, <3>1 DEF LocOK, IssuesTruth, LocTypes, Exists
    <3>4. CachesTruth(pc[k], loc[k])'
      BY <1>1, <2>1, <2>2, <3>1 DEF LocOK, CachesTruth, LocTypes, Claims
    <3> QED
      BY <3>2, <3>3, <3>4 DEF LocOK
  <2>4. TypeOK'
    BY <1>1, <1>2, <2>1, <2>2 DEF Inv, TypeOK, Goto
  <2>5. AdminRemains'
    <3>1. PICK v \in Admins : v # u
      BY <1>2, <1>4 DEF Inv, AdminRemains, MayDelete, Admins
    <3>2. v \in Admins'
      BY <1>1, <2>2, <3>1 DEF Admins, Exists
    <3> QED
      BY <3>2 DEF AdminRemains
  <2>6. AcceptableTokenIsCurrent' /\ SessionsHaveOwners' /\ TokensOfUsers'
    <3>1. \A t \in Tokens : issued[t] # None => issued[t] \in Claims
      BY <1>1
    <3>2. AcceptableTokenIsCurrent'
      BY <1>1, <2>2, <3>1 DEF Inv, Claims, AcceptableTokenIsCurrent
    <3>3. SessionsHaveOwners'
      BY <1>1, <2>2, <3>1 DEF Inv, TypeOK, Claims, SessionsHaveOwners, Exists
    <3>4. TokensOfUsers'
      BY <1>1, <2>2, <3>1, NoneAssumption DEF Inv, Claims, TokensOfUsers, Exists
    <3> QED
      BY <3>2, <3>3, <3>4
  <2>7. EndedArePast'
    BY <1>1, <2>1, <2>2, NoneAssumption DEF Inv, EndedArePast, Exists
  <2>8. CacheIsTimely'
    <3>1. \A v \in Users : cache[v] # None => cache[v] \in Entry
      BY DEF Inv, TypeOK
    <3> QED
      BY <1>1, <2>1, <2>2, <3>1 DEF Inv, CacheIsTimely, Entry
  <2> QED
    BY <2>3, <2>4, <2>5, <2>6, <2>7, <2>8 DEF Inv
<1> QED
  BY <1>3, <1>4

(* The id is new: nobody holds a token of it or is about to.               *)
LEMMA CreateKeeps ==
    ASSUME Inv, NEW h \in Handlers, CreateUser(h)
    PROVE  Inv'
<1> USE DEF LoginPcs, IssuePcs, RefreshPcs, ClaimPcs, AuthPcs, OpPcs, Pcs
<1>1. /\ calls \in 0..MaxCalls /\ Respond(h)
      /\ users \in [Users -> Row \cup {None, Gone}]
      /\ UNCHANGED <<sessions, issued, cache, now, ended, calls>>
  BY DEF Inv, TypeOK, CreateUser, history
<1>2. CASE UNCHANGED users
  <2>1. Resting
    BY <1>1, <1>2 DEF Resting
  <2> QED
    BY <1>1, <2>1, IdleOK, RestingMove DEF Respond
<1>3. ASSUME NEW u \in Users, NEW r \in Roles, Unused(u),
             users' = [users EXCEPT ![u] = [role |-> r, enabled |-> TRUE, generation |-> 0,
                                            failed |-> 0, locked |-> Unlocked]]
      PROVE  Inv'
  <2>1. PICK row : row = [role |-> r, enabled |-> TRUE, generation |-> 0,
                         failed |-> 0, locked |-> Unlocked]
    OBVIOUS
  <2>2. row \in Row /\ row \notin {None, Gone}
    <3>1. 0 \in Generations /\ Unlocked \in Times \cup {-1}
      BY BoundAssumption DEF Generations, Unlocked
    <3>2. row \in Row
      BY <2>1, <3>1 DEF Row
    <3> QED
      BY <3>2, NoneAssumption
  <2>3. users' = [users EXCEPT ![u] = row] /\ users[u] = None
    BY <1>3, <2>1 DEF Unused
  <2>4. HandlersOK'
    <3> SUFFICES ASSUME NEW k \in Handlers PROVE LocOK(pc[k], loc[k])'
      BY DEF HandlersOK
    <3>1. LocOK(pc'[k], loc'[k])
      BY <1>1, IdleOK DEF Inv, HandlersOK, TypeOK, Respond, Goto
    <3>2. LocTypes(pc[k], loc[k])'
      BY <1>1, <2>2, <2>3, <3>1 DEF LocOK, LocTypes
    <3>3. IssuesTruth(pc[k], loc[k])'
      BY <1>1, <2>3, <3>1 DEF LocOK, IssuesTruth, LocTypes, Exists
    <3>4. CachesTruth(pc[k], loc[k])'
      BY <1>1, <3>1 DEF LocOK, CachesTruth
    <3> QED
      BY <3>2, <3>3, <3>4 DEF LocOK
  <2>5. TypeOK'
    <3>1. NoLocals \in Locals
      BY DEF NoLocals, Unlocked, Locals
    <3> QED
      BY <1>1, <2>2, <2>3, <3>1 DEF Inv, TypeOK, Respond, Goto
  <2>6. AdminRemains'
    BY <1>1, <2>2, <2>3 DEF Inv, AdminRemains, Admins, Exists
  <2>7. AcceptableTokenIsCurrent' /\ SessionsHaveOwners' /\ TokensOfUsers'
    <3>1. \A t \in Tokens : issued[t] # None => issued[t] \in Claims
      BY DEF Inv, TypeOK
    <3>2. AcceptableTokenIsCurrent'
      BY <1>1, <2>3, <3>1 DEF Inv, Claims, AcceptableTokenIsCurrent, TokensOfUsers
    <3>3. SessionsHaveOwners'
      BY <1>1, <2>2, <2>3, <3>1 DEF Inv, TypeOK, Claims, SessionsHaveOwners, Exists
    <3>4. TokensOfUsers'
      BY <1>1, <2>2, <2>3, <3>1 DEF Inv, Claims, TokensOfUsers, Exists
    <3> QED
      BY <3>2, <3>3, <3>4
  <2>8. EndedArePast' /\ CacheIsTimely'
    BY <1>1, <2>3 DEF Inv, EndedArePast, CacheIsTimely, Exists
  <2> QED
    BY <2>4, <2>5, <2>6, <2>7, <2>8 DEF Inv
<1> QED
  BY <1>2, <1>3 DEF CreateUser

(* A pair is issued to somebody who exists, by what was read of him.       *)
LEMMA SessionKeeps ==
    ASSUME Inv, NEW h \in Handlers, CreateSession(h)
    PROVE  Inv'
<1> USE DEF LoginPcs, IssuePcs, RefreshPcs, ClaimPcs, AuthPcs, OpPcs, Pcs
<1>0. PICK l : l = loc[h]
  OBVIOUS
<1>1. /\ LocOK("session", l) /\ calls \in 0..MaxCalls /\ Respond(h)
      /\ users \in [Users -> Row \cup {None, Gone}]
      /\ issued \in [Tokens -> Claims \cup {None}]
      /\ UNCHANGED <<users, cache, now, ended, calls>>
  BY <1>0 DEF Inv, HandlersOK, TypeOK, CreateSession, history
<1>2. CASE UNCHANGED <<issued, sessions>>
  <2>1. Resting
    BY <1>1, <1>2 DEF Resting
  <2> QED
    BY <1>1, <2>1, IdleOK, RestingMove DEF Respond
<1>3. ASSUME Exists(l.user), NEW t \in Tokens, issued[t] = None,
             issued' = [issued EXCEPT ![t] =
                 [user |-> l.user, role |-> l.role, generation |-> l.generation,
                  overtaken |-> l.overtaken]],
             sessions' = sessions \cup {t}
      PROVE  Inv'
  <2>1. PICK c : c = [user |-> l.user, role |-> l.role, generation |-> l.generation,
                     overtaken |-> l.overtaken]
    OBVIOUS
  <2>2. /\ c \in Claims /\ c # None
        /\ c.user = l.user /\ c.role = l.role /\ c.generation = l.generation
        /\ c.overtaken = l.overtaken
    BY <1>1, <2>1, NoneAssumption DEF LocOK, LocTypes, Claims, Locals
  <2>3. issued' = [issued EXCEPT ![t] = c]
    BY <1>3, <2>1
  <2>4. HandlersOK'
    <3> SUFFICES ASSUME NEW k \in Handlers PROVE LocOK(pc[k], loc[k])'
      BY DEF HandlersOK
    <3>1. LocOK(pc'[k], loc'[k])
      BY <1>1, IdleOK DEF Inv, HandlersOK, TypeOK, Respond, Goto
    <3>2. LocTypes(pc[k], loc[k])'
      BY <1>1, <2>2, <2>3, <3>1 DEF LocOK, LocTypes
    <3>3. IssuesTruth(pc[k], loc[k])'
      BY <1>1, <3>1 DEF LocOK, IssuesTruth, Exists
    <3>4. CachesTruth(pc[k], loc[k])'
      BY <1>1, <1>3, <2>3, <3>1 DEF LocOK, LocTypes, CachesTruth
    <3> QED
      BY <3>2, <3>3, <3>4 DEF LocOK
  <2>5. TypeOK'
    <3>1. NoLocals \in Locals
      BY DEF NoLocals, Unlocked, Locals
    <3>2. sessions' \in SUBSET {s \in Tokens : issued'[s] # None}
      BY <1>1, <1>3, <2>2, <2>3 DEF Inv, TypeOK
    <3> QED
      BY <1>1, <2>2, <2>3, <3>1, <3>2 DEF Inv, TypeOK, Respond, Goto
  <2>6. AdminRemains'
    BY <1>1 DEF Inv, AdminRemains, Admins, Exists
  <2>7. AcceptableTokenIsCurrent' /\ SessionsHaveOwners' /\ TokensOfUsers'
    <3>1. AcceptableTokenIsCurrent'
      BY <1>1, <1>3, <2>2, <2>3 DEF Inv, LocOK, IssuesTruth, AcceptableTokenIsCurrent, Exists
    <3>2. SessionsHaveOwners'
      BY <1>1, <1>3, <2>2, <2>3 DEF Inv, TypeOK, SessionsHaveOwners, Exists
    <3>3. TokensOfUsers'
      BY <1>1, <1>3, <2>2, <2>3 DEF Inv, LocOK, LocTypes, IssuesTruth, TokensOfUsers, Exists
    <3> QED
      BY <3>1, <3>2, <3>3
  <2>8. EndedArePast' /\ CacheIsTimely'
    BY <1>1 DEF Inv, EndedArePast, CacheIsTimely, Exists
  <2> QED
    BY <2>4, <2>5, <2>6, <2>7, <2>8 DEF Inv
<1> QED
  BY <1>0, <1>2, <1>3 DEF CreateSession

LEMMA TimeKeeps ==
    ASSUME Inv, Tick \/ (\E t \in Tokens : Expire(t)) \/ UNCHANGED vars
    PROVE  Inv'
<1>1. CASE Tick
  <2>1. /\ now \in 0..MaxNow /\ now' = now + 1 /\ now' \in 0..MaxNow
        /\ UNCHANGED <<users, sessions, issued, cache, pc, loc, ended, calls>>
    BY <1>1, TimeAssumption DEF Inv, TypeOK, Tick, tables, handler, history
  <2>2. HandlersOK'
    BY <1>1, <2>1 DEF Tick, Inv, HandlersOK, LocOK, LocTypes, IssuesTruth, CachesTruth, Exists
  <2>3. CacheIsTimely'
    <3>1. \A v \in Users : cache[v] # None => cache[v] \in Entry
      BY DEF Inv, TypeOK
    <3> QED
      BY <2>1, <3>1 DEF Inv, CacheIsTimely, Entry
  <2>4. TypeOK' /\ AdminRemains'
    BY <2>1 DEF Inv, TypeOK, AdminRemains, Admins, Exists
  <2>5. AcceptableTokenIsCurrent' /\ SessionsHaveOwners' /\ TokensOfUsers' /\ EndedArePast'
    BY <2>1 DEF Inv, AcceptableTokenIsCurrent, SessionsHaveOwners, TokensOfUsers, EndedArePast,
       Exists
  <2> QED
    BY <2>2, <2>3, <2>4, <2>5 DEF Inv
<1>2. CASE UNCHANGED <<users, issued, cache, pc, loc, now, ended, calls>> /\ sessions' \subseteq sessions
  <2>1. HandlersOK'
    BY <1>2 DEF Inv, HandlersOK, LocOK, LocTypes, IssuesTruth, CachesTruth, Exists
  <2>2. TypeOK' /\ AdminRemains' /\ CacheIsTimely'
    BY <1>2 DEF Inv, TypeOK, AdminRemains, Admins, CacheIsTimely, Exists
  <2>3. AcceptableTokenIsCurrent' /\ SessionsHaveOwners' /\ TokensOfUsers' /\ EndedArePast'
    BY <1>2 DEF Inv, AcceptableTokenIsCurrent, SessionsHaveOwners, TokensOfUsers, EndedArePast,
       Exists
  <2> QED
    BY <2>1, <2>2, <2>3 DEF Inv
<1> QED
  BY <1>1, <1>2 DEF Expire, handler, history, vars

LEMMA StepKeeps == Inv /\ [Next]_vars => Inv'
<1> SUFFICES ASSUME Inv, [Next]_vars PROVE Inv'
  OBVIOUS
<1>1. ASSUME NEW h \in Handlers, Login(h) \/ Refresh(h) \/ Issue(h) \/ HangUp(h) PROVE Inv'
  BY <1>1, ReadsKeep, LoginKeeps, SessionKeeps DEF Login, Refresh, Issue
<1>2. ASSUME NEW h \in Handlers, Manage(h) \/ Password(h) \/ RevokeTokens(h) \/ RefreshCache(h)
      PROVE  Inv'
  BY <1>2, OthersKeep, CreateKeeps, UpdateKeeps, DeleteKeeps, RevocationKeeps
  DEF Manage, Password, RevokeTokens, RefreshCache
<1> QED
  BY <1>1, <1>2, AuthenticationKeeps, TimeKeeps DEF Next

-----------------------------------------------------------------------------
(* An administrator who may log in remains, and every session has an owner *)
(* (db.rs:334, db.rs:388).                                                 *)
THEOREM AnAdminRemains == Spec => [](TypeOK /\ AdminRemains /\ SessionsHaveOwners)
<1>1. Inv => TypeOK /\ AdminRemains /\ SessionsHaveOwners
  BY DEF Inv
<1> QED
  BY <1>1, InitHolds, StepKeeps, PTL DEF Spec

(* A token the database accepts says what is true of its owner today       *)
(* (db.rs:363): every change that reduces privileges bumps the generation  *)
(* in its own statement, and a request that issues either read the account *)
(* after that or is one of those recorded as overtaken.                    *)
THEOREM TokensSpeakTrue == Spec => []AcceptableTokenIsCurrent
<1>1. Inv => AcceptableTokenIsCurrent
  BY DEF Inv
<1> QED
  BY <1>1, InitHolds, StepKeeps, PTL DEF Spec

(* A step of a handler moves that one.                                     *)
LEMMA HandlerMoves ==
    ASSUME NEW k \in Handlers,
           \/ Login(k) \/ Refresh(k) \/ Issue(k) \/ Authenticate(k) \/ Manage(k)
           \/ Password(k) \/ RevokeTokens(k) \/ RefreshCache(k) \/ HangUp(k)
    PROVE  \E p : pc' = [pc EXCEPT ![k] = p]
<1>1. CASE Login(k) \/ Refresh(k) \/ Issue(k) \/ HangUp(k)
  <2>1. CASE Login(k)
    BY <2>1 DEF Login, LoginRequest, ResetLock, RecordFailedLogin, ClearFailed, Goto, Respond
  <2>2. CASE Refresh(k) \/ Issue(k) \/ HangUp(k)
    BY <2>2 DEF Refresh, RefreshRequest, Spend, ReadAccount, Issue, ReadGeneration,
       CreateSession, HangUp, Goto, Respond
  <2> QED
    BY <1>1, <2>1, <2>2
<1>2. CASE Authenticate(k)
  <2>1. CASE AuthRequest(k)
    BY <2>1 DEF AuthRequest, Pass, Goto, Respond
  <2>2. CASE LookupGeneration(k)
    BY <2>2 DEF LookupGeneration, Goto, Respond
  <2>3. CASE StoreGeneration(k)
    BY <2>3 DEF StoreGeneration, Pass, Goto, Respond
  <2> QED
    BY <1>2, <2>1, <2>2, <2>3 DEF Authenticate
<1>3. CASE Manage(k) \/ Password(k)
  BY <1>3 DEF Manage, CreateUser, UpdateUser, DeleteUser, Evict, Password, VerifyCurrent,
     ChangePassword, Logout, Goto, Respond
<1>4. CASE RevokeTokens(k) \/ RefreshCache(k)
  BY <1>4 DEF RevokeTokens, FindOwner, DropSession, BumpGeneration, RefreshCache, Reread,
     Publish, Goto, Respond
<1> QED
  BY <1>1, <1>2, <1>3, <1>4

(* The two ways past require_auth: an entry of the cache, or a lookup.     *)
LEMMA TwoWaysIn ==
    ASSUME Next, NEW h \in Handlers, pc \in [Handlers -> Pcs],
           pc[h] \in {"idle", "store"}, pc'[h] \in OpPcs
    PROVE  AuthRequest(h) \/ StoreGeneration(h)
<1> USE DEF OpPcs
<1>1. ~Tick /\ \A t \in Tokens : ~Expire(t)
  BY DEF Tick, Expire, handler
<1>2. ASSUME NEW k \in Handlers, k # h, \E p : pc' = [pc EXCEPT ![k] = p] PROVE FALSE
  BY <1>2
<1>3. ~Login(h) /\ ~Refresh(h) /\ ~Issue(h) /\ ~HangUp(h)
  BY DEF Login, LoginRequest, ResetLock, RecordFailedLogin, ClearFailed, Refresh,
     RefreshRequest, Spend, ReadAccount, Issue, ReadGeneration, CreateSession, HangUp,
     Goto, Respond
<1>4. ~Manage(h) /\ ~Password(h) /\ ~RevokeTokens(h) /\ ~RefreshCache(h) /\ ~LookupGeneration(h)
  BY DEF Manage, CreateUser, UpdateUser, DeleteUser, Evict, Password, VerifyCurrent,
     ChangePassword, Logout, RevokeTokens, FindOwner, DropSession, BumpGeneration,
     RefreshCache, Reread, Publish, LookupGeneration
<1>5. PICK k \in Handlers :
        \/ Login(k) \/ Refresh(k) \/ Issue(k) \/ Authenticate(k) \/ Manage(k)
        \/ Password(k) \/ RevokeTokens(k) \/ RefreshCache(k) \/ HangUp(k)
  BY <1>1 DEF Next
<1>6. k = h
  BY <1>2, <1>5, HandlerMoves
<1> QED
  BY <1>3, <1>4, <1>5, <1>6 DEF Authenticate

(* A revocation is obeyed within the TTL of the cache (api/auth.rs:305):   *)
(* what is cached was read in the tick it was written in, so an entry that *)
(* is still fresh was written at most Ttl before its generation ended.     *)
THEOREM RevocationIsObeyed == Spec => RevokedWithinTtl
<1>1. ASSUME Inv, Next, NEW h \in Handlers, pc[h] \in {"idle", "store"}, pc'[h] \in OpPcs
      PROVE  LET at == Stopped(loc'[h].token) IN at = None \/ now < at + Ttl
  <2>0. /\ pc \in [Handlers -> Pcs] /\ loc \in [Handlers -> Locals]
        /\ now \in 0..MaxNow /\ cache \in [Users -> Entry \cup {None}]
        /\ issued \in [Tokens -> Claims \cup {None}]
        /\ ended \in [Users -> [Generations -> 0..MaxNow \cup {None}]]
    BY <1>1 DEF Inv, TypeOK
  <2>1. ASSUME NEW l, NEW g, Pass(h, l, g)
        PROVE  loc'[h] = l /\ g = issued[l.token].generation
    BY <1>1, <2>0, <2>1 DEF Pass, Goto, Respond, OpPcs
  <2>2. CASE AuthRequest(h)
    <3>1. PICK t \in Tokens, op \in Ops \cap DOMAIN Start, target \in Users :
            /\ issued[t] # None
            /\ LET u == issued[t].user
                   l == [NoLocals EXCEPT !.user = target, !.token = t, !.op = op]
               IN  IF Fresh(u) THEN Pass(h, l, cache[u].generation) ELSE Goto(h, "lookup", l)
      BY <2>2 DEF AuthRequest
    <3>2. PICK u, l : u = issued[t].user /\ l = [NoLocals EXCEPT !.user = target, !.token = t, !.op = op]
      OBVIOUS
    <3>3. l.token = t /\ u \in Users
      BY <2>0, <3>1, <3>2 DEF NoLocals, Claims
    <3>4. Fresh(u) /\ Pass(h, l, cache[u].generation)
      BY <1>1, <2>0, <3>1, <3>2 DEF Goto, OpPcs
    <3>5. loc'[h] = l /\ cache[u].generation = issued[t].generation
      BY <2>1, <3>3, <3>4
    <3>6. cache[u] # None /\ cache[u] \in Entry /\ now - cache[u].at < Ttl
      BY <2>0, <3>3, <3>4 DEF Fresh
    <3>7. ended[u][cache[u].generation] = None \/ cache[u].at <= ended[u][cache[u].generation]
      BY <1>1, <3>3, <3>6 DEF Inv, CacheIsTimely
    <3>8. ended[u][cache[u].generation] \in 0..MaxNow \cup {None}
      BY <2>0, <3>3, <3>6 DEF Entry
    <3> QED
      BY <2>0, <3>2, <3>3, <3>5, <3>6, <3>7, <3>8, TimeAssumption DEF Stopped, Entry
  <2>3. CASE StoreGeneration(h)
    <3>1. PICK l : l = [loc[h] EXCEPT !.generation = None]
      OBVIOUS
    <3>2. LocOK("store", loc[h]) /\ loc[h] \in Locals /\ Pass(h, l, loc[h].generation)
      BY <1>1, <2>3, <3>1 DEF StoreGeneration, Inv, HandlersOK, TypeOK
    <3>3. l.token = loc[h].token
      BY <3>1, <3>2 DEF Locals
    <3>4. loc'[h] = l /\ loc[h].generation = issued[l.token].generation
      BY <2>1, <3>2
    <3>5. ended[issued[l.token].user][loc[h].generation] \in {None, now}
      BY <3>2, <3>3 DEF LocOK, CachesTruth
    <3> QED
      BY <2>0, <3>4, <3>5, TimeAssumption DEF Stopped
  <2> QED
    BY <1>1, <2>0, <2>2, <2>3, TwoWaysIn
<1>2. Inv /\ [Next]_vars =>
        [\A h \in Handlers :
           pc[h] \in {"idle", "store"} /\ pc'[h] \in OpPcs =>
              LET at == Stopped(loc'[h].token) IN at = None \/ now < at + Ttl]_vars
  BY <1>1
<1> QED
  BY <1>2, InitHolds, StepKeeps, PTL DEF Spec, RevokedWithinTtl

-----------------------------------------------------------------------------
(* The refinement of TokenAuthority.                                       *)

AuthorityStep == Authority!Next \/ UNCHANGED <<Owner, Usable, sessions>>

LEMMA SameOwners ==
    ASSUME UNCHANGED issued
    PROVE  Owner' = Owner
BY DEF Owner

LEMMA SameUsable ==
    ASSUME UNCHANGED <<users, issued>>
    PROVE  Usable' = Usable
BY DEF Usable, Exists

(* Sessions that end, one or all of somebody's.                            *)
LEMMA EndsSessions ==
    ASSUME Inv, UNCHANGED <<users, issued>>,
           \/ sessions' = sessions
           \/ \E t : sessions' = sessions \ {t}
           \/ \E u \in Users : sessions' = {t \in sessions : issued[t].user # u}
    PROVE  AuthorityStep
<1>0. /\ Owner' = Owner /\ Usable' = Usable
      /\ sessions \subseteq Tokens /\ \A t \in sessions : issued[t] # None
  BY SameOwners, SameUsable DEF Inv, TypeOK
<1>1. ASSUME NEW t, sessions' = sessions \ {t} PROVE AuthorityStep
  <2>1. CASE t \in Tokens
    BY <1>0, <1>1, <2>1 DEF AuthorityStep, Authority!Next, Authority!End
  <2>2. CASE t \notin Tokens
    <3>1. sessions' = sessions
      BY <1>0, <1>1, <2>2
    <3> QED
      BY <1>0, <3>1 DEF AuthorityStep
  <2> QED
    BY <2>1, <2>2
<1>2. ASSUME NEW u \in Users, sessions' = {t \in sessions : issued[t].user # u}
      PROVE  AuthorityStep
  <2>1. sessions' = sessions \ Authority!Of(u)
    BY <1>0, <1>2 DEF Authority!Of, Owner
  <2> QED
    BY <1>0, <2>1 DEF AuthorityStep, Authority!Next, Authority!EndAll
<1> QED
  BY <1>0, <1>1, <1>2 DEF AuthorityStep

(* The row of somebody who has tokens keeps its generation.                *)
LEMMA SameGenerationIsStutter ==
    ASSUME Inv, NEW u \in Users, Exists(u), NEW row \in Row, SetRow(u, row),
           row.generation = users[u].generation, UNCHANGED <<sessions, issued>>
    PROVE  AuthorityStep
<1>1. /\ users' = [users EXCEPT ![u] = row] /\ row \notin {None, Gone}
      /\ users \in [Users -> Row \cup {None, Gone}]
  BY NoneAssumption DEF SetRow, Inv, TypeOK
<1>2. \A t \in Tokens : issued[t] # None => issued[t].user \in Users
  BY DEF Inv, TypeOK, Claims
<1>3. Usable' = Usable
  BY <1>1, <1>2 DEF Usable, Exists
<1> QED
  BY <1>3, SameOwners DEF AuthorityStep

LEMMA BumpRevokes ==
    ASSUME Inv, NEW u \in Users, NEW row, Bump(u, row)
    PROVE  AuthorityStep
<1>1. /\ users' = [users EXCEPT ![u] = row] /\ row \notin {None, Gone}
      /\ users \in [Users -> Row \cup {None, Gone}] /\ users[u] \in Row
      /\ row.generation = users[u].generation + 1 /\ users[u].generation \in Int
      /\ UNCHANGED <<sessions, issued>>
  BY NoneAssumption DEF Bump, SetRow, Inv, TypeOK, Exists, Row, Generations
<1>2. \A t \in Tokens : issued[t] # None =>
        /\ issued[t].user \in Users /\ issued[t].generation \in Int
        /\ Exists(issued[t].user) => issued[t].generation <= users[issued[t].user].generation
  BY DEF Inv, TypeOK, TokensOfUsers, Claims, Generations
<1>3. Usable' = Usable \ Authority!Of(u)
  <2>1. u # None
    BY NoneAssumption
  <2> QED
    BY <1>1, <1>2, <2>1 DEF Bump, Usable, Exists, Authority!Of, Owner
<1> QED
  BY <1>1, <1>3, SameOwners DEF AuthorityStep, Authority!Next, Authority!Revoke

LEMMA RowsSimulate ==
    ASSUME Inv, NEW h \in Handlers,
           \/ ResetLock(h) \/ RecordFailedLogin(h) \/ ClearFailed(h) \/ CreateUser(h)
           \/ UpdateUser(h) \/ DeleteUser(h) \/ ChangePassword(h) \/ BumpGeneration(h)
    PROVE  AuthorityStep
<1> USE DEF LoginPcs, IssuePcs, RefreshPcs, ClaimPcs, AuthPcs, OpPcs, Pcs
<1>0. PICK u : u = loc[h].user
  BY SMTT(30)
<1>1. /\ users \in [Users -> Row \cup {None, Gone}] /\ LocOK(pc[h], loc[h]) /\ issued' = issued
      /\ now \in 0..MaxNow
      /\ \A t \in Tokens : issued[t] # None => issued[t].user \in Users
  BY DEF Inv, TypeOK, HandlersOK, Claims, ResetLock, RecordFailedLogin, ClearFailed, CreateUser,
     UpdateUser, DeleteUser, ChangePassword, BumpGeneration
<1>2. CASE UNCHANGED <<users, issued, sessions>>
  BY <1>2, EndsSessions
<1>3. CASE ResetLock(h) \/ RecordFailedLogin(h) \/ ClearFailed(h)
  <2>1. u \in Users /\ sessions' = sessions
    BY <1>0, <1>1, <1>3 DEF LocOK, LocTypes, ResetLock, RecordFailedLogin, ClearFailed
  <2>2. CASE ~Exists(u)
    BY <1>0, <1>1, <1>2, <1>3, <2>1, <2>2
      DEF ResetLock, RecordFailedLogin, ClearFailed, ResetFailed
  <2>3. CASE Exists(u)
    <3>1. users[u] \in Row
      BY <1>1, <2>1, <2>3 DEF Exists
    <3>2. CASE ResetFailed(u)
      <4>1. PICK row : row = Unlock(users[u])
        OBVIOUS
      <4>2. row \in Row /\ row.generation = users[u].generation
        BY <3>1, <4>1 DEF Row, Unlock, Unlocked
      <4>3. SetRow(u, row)
        BY <2>3, <3>2, <4>1 DEF ResetFailed
      <4> QED
        BY <1>1, <2>1, <2>3, <4>2, <4>3, SameGenerationIsStutter
    <3>3. CASE RecordFailedLogin(h)
      <4>1. PICK n, lock : /\ n = users[u].failed + 1
                          /\ lock = IF Locks(n) THEN now + LockFor ELSE users[u].locked
        OBVIOUS
      <4>2. n \in Nat /\ lock \in Times \cup {-1}
        BY <1>1, <3>1, <4>1, TimeAssumption DEF Row, Times
      <4>3. PICK row : row = [users[u] EXCEPT !.failed = n, !.locked = lock]
        OBVIOUS
      <4>4. SetRow(u, row)
        BY <1>0, <2>3, <3>1, <3>3, <4>1, <4>3 DEF RecordFailedLogin, Row
      <4>5. row \in Row /\ row.generation = users[u].generation
        BY <3>1, <4>2, <4>3 DEF Row
      <4> QED
        BY <1>1, <2>1, <2>3, <4>4, <4>5, SameGenerationIsStutter
    <3> QED
      BY <1>0, <1>3, <3>2, <3>3 DEF ResetLock, ClearFailed
  <2> QED
    BY <2>2, <2>3
<1>4. CASE CreateUser(h)
  <2>1. sessions' = sessions
    BY <1>4 DEF CreateUser
  <2>2. ASSUME NEW v \in Users, NEW row, users' = [users EXCEPT ![v] = row], users[v] = None
        PROVE  Usable' = Usable
    <3>1. \A t \in Tokens : issued[t] # None => issued[t].user # v
      BY <2>2 DEF Inv, TokensOfUsers
    <3> QED
      BY <1>1, <2>2, <3>1 DEF Usable, Exists
  <2>3. Usable' = Usable
    BY <1>1, <1>4, <2>2, SameUsable DEF CreateUser, Unused
  <2> QED
    BY <1>1, <2>1, <2>3, SameOwners DEF AuthorityStep
<1>5. CASE DeleteUser(h)
  <2>1. u \in Users /\ u # None
    BY <1>0, <1>1, <1>5, NoneAssumption DEF LocOK, LocTypes, DeleteUser
  <2>2. CASE users' = users /\ sessions' = sessions
    BY <1>1, <1>2, <2>2
  <2>3. CASE /\ users' = [users EXCEPT ![u] = Gone]
             /\ sessions' = {t \in sessions : issued[t].user # u}
    <3>1. \A t \in sessions : t \in Tokens /\ issued[t] # None
      BY DEF Inv, TypeOK
    <3>2. sessions' = sessions \ Authority!Of(u)
      BY <2>1, <2>3, <3>1 DEF Authority!Of, Owner
    <3>3. Usable' = Usable \ Authority!Of(u)
      BY <1>1, <2>1, <2>3 DEF Usable, Exists, Authority!Of, Owner
    <3> QED
      BY <1>1, <2>1, <3>2, <3>3, SameOwners DEF AuthorityStep, Authority!Next, Authority!Remove
  <2> QED
    BY <1>0, <1>5, <2>2, <2>3 DEF DeleteUser
<1>6. CASE ChangePassword(h) \/ BumpGeneration(h)
  <2>1. u \in Users /\ UNCHANGED <<sessions, cache, now, calls>>
    BY <1>0, <1>1, <1>6 DEF LocOK, LocTypes, ChangePassword, BumpGeneration
  <2>2. CASE ~Exists(u)
    BY <1>0, <1>1, <1>2, <1>6, <2>1, <2>2 DEF ChangePassword, BumpGeneration
  <2>3. CASE Exists(u)
    <3>1. PICK row : row = Bumped(users[u])
      OBVIOUS
    <3>2. users[u] \in Row
      BY <1>1, <2>1, <2>3 DEF Exists
    <3>3. SetRow(u, row) /\ users[u].generation < MaxGeneration
      BY <1>0, <1>6, <2>3, <3>1 DEF ChangePassword, BumpGeneration, CanBump
    <3>4. Bump(u, row)
      BY <1>1, <2>1, <2>3, <3>1, <3>2, <3>3, BumpedRow, SMTT(30) DEF Bump
    <3> QED
      BY <2>1, <3>4, BumpRevokes
  <2> QED
    BY <2>2, <2>3
<1>7. CASE UpdateUser(h)
  <2>1. u \in Users /\ UNCHANGED <<sessions, cache, now, calls>>
    BY <1>0, <1>1, <1>7 DEF LocOK, LocTypes, UpdateUser
  <2>2. CASE UNCHANGED users
    BY <1>1, <1>2, <2>1, <2>2
  <2>3. ASSUME Exists(u), NEW r \in Roles, NEW e \in BOOLEAN,
               LET row == [users[u] EXCEPT !.role = r, !.enabled = e]
                   reduced == Reduces(users[u], r, e)
               IN  /\ reduced => CanBump(u)
                   /\ SetRow(u, IF reduced THEN Bumped(row) ELSE row)
        PROVE  AuthorityStep
    <3>1. PICK row : row = [users[u] EXCEPT !.role = r, !.enabled = e]
      OBVIOUS
    <3>2. users[u] \in Row
      BY <1>1, <2>1, <2>3 DEF Exists
    <3>3. row \in Row /\ row.generation = users[u].generation
      BY <3>1, <3>2 DEF Row
    <3>4. CASE ~Reduces(users[u], r, e)
      <4>1. SetRow(u, row)
        BY <2>3, <3>1, <3>4
      <4> QED
        BY <1>1, <2>1, <2>3, <3>3, <4>1, SameGenerationIsStutter
    <3>5. CASE Reduces(users[u], r, e)
      <4>1. PICK new : new = Bumped(row)
        OBVIOUS
      <4>2. SetRow(u, new) /\ users[u].generation < MaxGeneration
        BY <2>3, <3>1, <3>5, <4>1 DEF CanBump
      <4>3. Bump(u, new)
        BY <1>1, <2>1, <2>3, <3>3, <4>1, <4>2, BumpedRow DEF Bump
      <4> QED
        BY <2>1, <4>3, BumpRevokes
    <3> QED
      BY <3>4, <3>5
  <2> QED
    BY <1>0, <1>7, <2>2, <2>3 DEF UpdateUser
<1> QED
  BY <1>3, <1>4, <1>5, <1>6, <1>7

LEMMA IssueSimulates ==
    ASSUME Inv, NEW h \in Handlers, CreateSession(h)
    PROVE  AuthorityStep
<1>0. PICK l : l = loc[h]
  OBVIOUS
<1>1. /\ LocOK("session", l) /\ users' = users
      /\ issued \in [Tokens -> Claims \cup {None}]
  BY <1>0 DEF Inv, HandlersOK, TypeOK, CreateSession
<1>2. CASE UNCHANGED <<issued, sessions>>
  BY <1>1, <1>2, EndsSessions
<1>3. ASSUME NEW t \in Tokens, issued[t] = None, sessions' = sessions \cup {t},
             issued' = [issued EXCEPT ![t] =
                 [user |-> l.user, role |-> l.role, generation |-> l.generation,
                  overtaken |-> l.overtaken]]
      PROVE  AuthorityStep
  <2>1. PICK c : c = [user |-> l.user, role |-> l.role, generation |-> l.generation,
                     overtaken |-> l.overtaken]
    OBVIOUS
  <2>2. c \in Claims /\ c # None /\ c.user = l.user /\ l.user \in Users
    BY <1>1, <2>1, NoneAssumption DEF LocOK, LocTypes, Claims, Locals, LoginPcs, IssuePcs
  <2>3. issued' = [issued EXCEPT ![t] = c]
    BY <1>3, <2>1
  <2>4. Owner[t] = None /\ Owner' = [Owner EXCEPT ![t] = l.user]
    BY <1>1, <1>3, <2>2, <2>3 DEF Owner
  <2>5. Usable' \in {Usable, Usable \cup {t}}
    <3>1. \A s \in Tokens \ {t} : s \in Usable' <=> s \in Usable
      BY <1>1, <2>3 DEF Usable, Exists
    <3>2. t \notin Usable
      BY <1>3 DEF Usable
    <3>3. Usable \subseteq Tokens /\ Usable' \subseteq Tokens
      BY DEF Usable
    <3> QED
      BY <3>1, <3>2, <3>3
  <2>6. Authority!Issue(t, l.user)
    BY <1>3, <2>4, <2>5 DEF Authority!Issue
  <2> QED
    BY <2>2, <2>6 DEF AuthorityStep, Authority!Next
<1> QED
  BY <1>0, <1>2, <1>3 DEF CreateSession

LEMMA OthersSimulate ==
    ASSUME Inv, NEW h \in Handlers,
           \/ LoginRequest(h) \/ Refresh(h) \/ ReadGeneration(h) \/ Authenticate(h) \/ Evict(h)
           \/ VerifyCurrent(h) \/ Logout(h) \/ FindOwner(h) \/ DropSession(h)
           \/ RefreshCache(h) \/ HangUp(h)
    PROVE  AuthorityStep
<1>1. UNCHANGED <<users, issued>>
  BY DEF LoginRequest, Refresh, RefreshRequest, Spend, ReadAccount, ReadGeneration,
     Authenticate, AuthRequest, LookupGeneration, StoreGeneration, Evict, VerifyCurrent,
     Logout, FindOwner, DropSession, RefreshCache, Reread, Publish, HangUp, tables
<1>2. CASE Logout(h)
  <2>1. loc[h].user \in Users
    BY <1>2 DEF Logout, Inv, HandlersOK, LocOK, LocTypes, OpPcs, AuthPcs
  <2> QED
    BY <1>1, <1>2, <2>1, EndsSessions DEF Logout
<1>3. CASE Spend(h) \/ DropSession(h)
  BY <1>1, <1>3, EndsSessions DEF Spend, DropSession
<1>4. CASE ~(Logout(h) \/ Spend(h) \/ DropSession(h))
  <2>1. sessions' = sessions
    BY <1>4 DEF LoginRequest, Refresh, RefreshRequest, ReadAccount, ReadGeneration,
       Authenticate, AuthRequest, LookupGeneration, StoreGeneration, Evict, VerifyCurrent,
       FindOwner, RefreshCache, Reread, Publish, HangUp, tables
  <2> QED
    BY <1>1, <2>1, EndsSessions
<1> QED
  BY <1>2, <1>3, <1>4

(* The pairs of tokens behave as TokenAuthority says: what a handler does  *)
(* in several database calls is, for somebody who only sees which tokens   *)
(* the database accepts, one issue, one end or one revocation at a time.   *)
THEOREM PairsObeyTheAuthority == Spec => ImplementsTokenAuthority
<1>1. Init => Authority!Init
  <2> SUFFICES ASSUME Init PROVE Authority!Init
    OBVIOUS
  <2>1. issued \in [Tokens -> Claims \cup {None}] /\ sessions = {t \in Tokens : issued[t] # None}
    BY DEF Init
  <2>2. \A t \in Tokens : issued[t] # None => issued[t].user \in Users /\ issued[t].user # None
    BY <2>1, NoneAssumption DEF Claims
  <2> QED
    BY <2>1, <2>2 DEF Authority!Init, Authority!Issued, Owner, Usable
<1>2. Inv /\ [Next]_vars => [Authority!Next]_<<Owner, Usable, sessions>>
  <2> SUFFICES ASSUME Inv, [Next]_vars PROVE AuthorityStep
    BY DEF AuthorityStep
  <2>1. ASSUME NEW h \in Handlers,
               \/ Login(h) \/ Refresh(h) \/ Issue(h) \/ Authenticate(h) \/ Manage(h)
               \/ Password(h) \/ RevokeTokens(h) \/ RefreshCache(h) \/ HangUp(h)
        PROVE  AuthorityStep
    BY <2>1, RowsSimulate, IssueSimulates, OthersSimulate
    DEF Login, Issue, Manage, Password, RevokeTokens
  <2>2. ASSUME NEW t \in Tokens, Expire(t) PROVE AuthorityStep
    BY <2>2, EndsSessions DEF Expire
  <2>3. CASE Tick \/ UNCHANGED vars
    BY <2>3, EndsSessions DEF Tick, tables, vars
  <2> QED
    BY <2>1, <2>2, <2>3 DEF Next
<1> QED
  BY <1>1, <1>2, InitHolds, StepKeeps, PTL DEF Spec, ImplementsTokenAuthority, Authority!Spec

-----------------------------------------------------------------------------
(* Wrong passwords.                                                        *)

(* Requests that have found the password for u wrong and have not said so. *)
Guessing(u) == {h \in Handlers : pc[h] = "fail" /\ loc[h].user = u}

(* A locked account can only be failed by requests that were under way     *)
(* when it was locked, each of them once.                                  *)
GuessesAreCounted ==
    \A u \in Users : Exists(u) =>
        IF users[u].locked = Unlocked THEN users[u].failed < MaxAttempts
        ELSE users[u].failed + Cardinality(Guessing(u)) < MaxAttempts + Cardinality(Handlers)

(* What a step does to the counter and the lock of u when it is no failed  *)
(* login.                                                                  *)
SameCount(u) == /\ Exists(u) /\ users'[u].failed = users[u].failed
                /\ users'[u].locked = users[u].locked
Uncounted(u) == users'[u].failed = 0 /\ users'[u].locked = Unlocked

LEMMA GuessingIsFinite ==
    ASSUME NEW u
    PROVE  /\ IsFiniteSet(Guessing(u)) /\ Cardinality(Guessing(u)) \in Nat
           /\ Cardinality(Handlers) \in Nat /\ Cardinality(Guessing(u)) <= Cardinality(Handlers)
<1>1. Guessing(u) \in SUBSET Handlers
  BY DEF Guessing
<1> QED
  BY <1>1, HandlersAssumption, FS_Subset, FS_CardinalityType

LEMMA NoNewGuess ==
    ASSUME pc \in [Handlers -> Pcs], NEW h \in Handlers, NEW p, p # "fail",
           pc' = [pc EXCEPT ![h] = p],
           \A k \in Handlers \ {h} : loc'[k].user = loc[k].user
    PROVE  \A u : Guessing(u)' \subseteq Guessing(u)
BY DEF Guessing

LEMMA CountsStay ==
    ASSUME TypeOK, TypeOK', GuessesAreCounted,
           \A u \in Users : Exists(u)' =>
              Uncounted(u) \/ (SameCount(u) /\ (users[u].locked # Unlocked =>
                                                   Guessing(u)' \subseteq Guessing(u)))
    PROVE  GuessesAreCounted'
<1> SUFFICES ASSUME NEW u \in Users, Exists(u)'
             PROVE  IF users'[u].locked = Unlocked THEN users'[u].failed < MaxAttempts
                    ELSE users'[u].failed + Cardinality(Guessing(u)')
                            < MaxAttempts + Cardinality(Handlers)
  BY DEF GuessesAreCounted, Exists
<1>1. CASE Uncounted(u)
  BY <1>1, BoundAssumption DEF Uncounted
<1>2. CASE SameCount(u) /\ users[u].locked = Unlocked
  BY <1>2 DEF SameCount, GuessesAreCounted
<1>3. CASE SameCount(u) /\ users[u].locked # Unlocked /\ Guessing(u)' \subseteq Guessing(u)
  <2>1. users[u].failed + Cardinality(Guessing(u)) < MaxAttempts + Cardinality(Handlers)
    BY <1>3 DEF SameCount, GuessesAreCounted
  <2>2. Cardinality(Guessing(u)') <= Cardinality(Guessing(u)) /\ Cardinality(Guessing(u)') \in Nat
    BY <1>3, GuessingIsFinite, FS_Subset, FS_CardinalityType
  <2>3. users[u].failed \in Nat
    BY <1>3 DEF SameCount, TypeOK, Row, Exists
  <2> QED
    BY <1>3, <2>1, <2>2, <2>3, GuessingIsFinite, BoundAssumption DEF SameCount
<1> QED
  BY <1>1, <1>2, <1>3

LEMMA FailureCounts ==
    ASSUME Inv, TypeOK', GuessesAreCounted, NEW h \in Handlers, RecordFailedLogin(h)
    PROVE  GuessesAreCounted'
<1> PICK u : u = loc[h].user
  OBVIOUS
<1>0. /\ pc \in [Handlers -> Pcs] /\ loc \in [Handlers -> Locals] /\ pc[h] = "fail"
      /\ users \in [Users -> Row \cup {None, Gone}] /\ now \in 0..MaxNow
      /\ pc' = [pc EXCEPT ![h] = "idle"] /\ loc' = [loc EXCEPT ![h] = NoLocals]
  BY DEF Inv, TypeOK, RecordFailedLogin, Respond, Goto
<1>1. u \in Users
  BY <1>0 DEF Inv, HandlersOK, LocOK, LocTypes, LoginPcs
<1>2. \A v : Guessing(v)' \subseteq Guessing(v)
  BY <1>0, NoNewGuess
<1>3. CASE ~Exists(u)
  BY <1>2, <1>3, CountsStay DEF Inv, RecordFailedLogin, SameCount, Exists
<1>4. CASE Exists(u)
  <2>1. PICK n : n = users[u].failed + 1
    OBVIOUS
  <2>2. users[u] \in Row
    BY <1>0, <1>1, <1>4 DEF Exists
  <2>3. n \in Nat /\ users[u].failed \in Nat
    BY <2>1, <2>2 DEF Row
  <2>4. users' = [users EXCEPT ![u] = [users[u] EXCEPT !.failed = n,
                          !.locked = IF Locks(n) THEN now + LockFor ELSE @]]
    BY <1>4, <2>1 DEF RecordFailedLogin, SetRow
  <2>5. /\ users'[u].failed = n
        /\ users'[u].locked = IF Locks(n) THEN now + LockFor ELSE users[u].locked
    BY <1>0, <1>1, <2>2, <2>4 DEF Row
  <2>6. Guessing(u)' = Guessing(u) \ {h} /\ h \in Guessing(u)
    BY <1>0 DEF Guessing
  <2>7. Cardinality(Guessing(u)') = Cardinality(Guessing(u)) - 1
    <3>1. PICK left : left = Guessing(u)'
      OBVIOUS
    <3>2. PICK before : before = Guessing(u)
      OBVIOUS
    <3>3. IsFiniteSet(before) /\ h \in before /\ left = before \ {h}
      BY <2>6, <3>1, <3>2, GuessingIsFinite
    <3>4. Cardinality(left) = Cardinality(before) - 1
      BY <3>3, FS_RemoveElement
    <3> QED
      BY <3>1, <3>2, <3>4
  <2>8. IF users'[u].locked = Unlocked THEN users'[u].failed < MaxAttempts
        ELSE users'[u].failed + Cardinality(Guessing(u)') < MaxAttempts + Cardinality(Handlers)
    <3>1. CASE users[u].locked # Unlocked
      <4>1. users[u].failed + Cardinality(Guessing(u)) < MaxAttempts + Cardinality(Handlers)
        BY <1>1, <1>4, <3>1 DEF GuessesAreCounted
      <4>2. users'[u].locked # Unlocked
        BY <1>0, <2>5, <3>1, TimeAssumption DEF Unlocked
      <4> QED
        BY <2>1, <2>3, <2>5, <2>7, <4>1, <4>2, GuessingIsFinite, BoundAssumption
    <3>2. CASE users[u].locked = Unlocked
      <4>1. users[u].failed < MaxAttempts
        BY <1>1, <1>4, <3>2 DEF GuessesAreCounted
      <4>2. CASE ~Locks(n)
        BY <2>3, <2>5, <3>2, <4>2, BoundAssumption DEF Locks
      <4>3. CASE Locks(n)
        <5>1. n = MaxAttempts
          BY <2>1, <2>3, <4>1, <4>3, BoundAssumption DEF Locks
        <5>2. users'[u].locked # Unlocked
          BY <1>0, <2>5, <4>3, TimeAssumption DEF Unlocked
        <5> QED
          BY <2>5, <2>7, <5>1, <5>2, GuessingIsFinite, BoundAssumption
      <4> QED
        BY <4>2, <4>3
    <3> QED
      BY <3>1, <3>2
  <2>9. ASSUME NEW v \in Users, v # u, Exists(v)'
        PROVE  IF users'[v].locked = Unlocked THEN users'[v].failed < MaxAttempts
               ELSE users'[v].failed + Cardinality(Guessing(v)') < MaxAttempts + Cardinality(Handlers)
    <3>1. users'[v] = users[v] /\ Exists(v)
      BY <1>0, <2>4, <2>9 DEF Exists
    <3>2. Guessing(v)' = Guessing(v)
      BY <1>0, <2>9 DEF Guessing
    <3> QED
      BY <3>1, <3>2 DEF GuessesAreCounted
  <2> QED
    BY <2>8, <2>9 DEF GuessesAreCounted, Exists
<1> QED
  BY <1>3, <1>4

(* An account whose row is replaced keeps its count, or starts anew.       *)
LEMMA RowsKeepCount ==
    ASSUME Inv, Inv', GuessesAreCounted, NEW h \in Handlers, NEW p, p # "fail",
           pc' = [pc EXCEPT ![h] = p],
           \A k \in Handlers \ {h} : loc'[k].user = loc[k].user,
           \A u \in Users : Exists(u)' => Uncounted(u) \/ SameCount(u)
    PROVE  GuessesAreCounted'
<1>1. \A u : Guessing(u)' \subseteq Guessing(u)
  BY NoNewGuess DEF Inv, TypeOK
<1> QED
  BY <1>1, CountsStay DEF Inv

LEMMA LoginCounts ==
    ASSUME Inv, Inv', GuessesAreCounted, NEW h \in Handlers, Login(h)
    PROVE  GuessesAreCounted'
<1>0. /\ pc \in [Handlers -> Pcs] /\ loc \in [Handlers -> Locals]
      /\ users \in [Users -> Row \cup {None, Gone}]
  BY DEF Inv, TypeOK
<1>1. CASE LoginRequest(h)
  <2>0. PICK v \in Users, p \in {"fail", "clear", "unlock"} : \E l :
          /\ Goto(h, p, l) /\ l.user = v
          /\ p = "fail" => users[v].locked = Unlocked
    BY <1>1 DEF LoginRequest, NoLocals
  <2>1. PICK l :
          /\ Goto(h, p, l) /\ l.user = v
          /\ p = "fail" => users[v].locked = Unlocked
    BY <2>0
  <2>2. ASSUME NEW w \in Users, users[w].locked # Unlocked
        PROVE  Guessing(w)' \subseteq Guessing(w)
    BY <1>0, <2>1, <2>2 DEF Goto, Guessing
  <2>3. UNCHANGED users
    BY <1>1 DEF LoginRequest, tables
  <2> QED
    BY <2>2, <2>3, CountsStay DEF Inv, SameCount, Exists
<1>2. CASE ResetLock(h)
  <2>1. PICK p : pc' = [pc EXCEPT ![h] = p]
    BY <1>2 DEF ResetLock, Respond, Goto
  <2>2. \A k \in Handlers \ {h} : loc'[k].user = loc[k].user
    BY <1>0, <1>2 DEF ResetLock, Respond, Goto
  <2>3. loc[h].user \in Users /\ pc[h] = "unlock"
    BY <1>2 DEF ResetLock, Inv, HandlersOK, LocOK, LocTypes, LoginPcs
  <2>4. \A k \in Handlers : pc'[k] = "fail" /\ pc[k] # "fail" => k = h /\ loc'[h].user = loc[h].user
    BY <1>0, <1>2, <2>1 DEF ResetLock, Respond, Goto, Locals
  <2>5. \A w : w # loc[h].user => Guessing(w)' \subseteq Guessing(w)
    BY <1>0, <2>1, <2>2, <2>3, <2>4 DEF Guessing
  <2>6. \A w \in Users : Exists(w)' =>
            /\ w = loc[h].user => Uncounted(w)
            /\ w # loc[h].user => SameCount(w)
    BY <1>0, <1>2, <2>3 DEF ResetLock, ResetFailed, SetRow, Unlock, Exists, Uncounted,
       SameCount, Row
  <2> QED
    BY <2>5, <2>6, CountsStay DEF Inv
<1>3. CASE ClearFailed(h)
  <2>1. \A w \in Users : Exists(w)' => Uncounted(w) \/ SameCount(w)
    BY <1>0, <1>3 DEF ClearFailed, ResetFailed, SetRow, Unlock, Exists, Uncounted, SameCount, Row
  <2> QED
    BY <1>0, <1>3, <2>1, RowsKeepCount DEF ClearFailed, Goto
<1> QED
  BY <1>1, <1>2, <1>3, FailureCounts DEF Login, Inv

LEMMA ReadsCount ==
    ASSUME Inv, Inv', GuessesAreCounted, NEW h \in Handlers,
           \/ Refresh(h) \/ Issue(h) \/ Authenticate(h) \/ HangUp(h)
           \/ RefreshCache(h) \/ Evict(h) \/ VerifyCurrent(h) \/ Logout(h)
           \/ FindOwner(h) \/ DropSession(h)
    PROVE  GuessesAreCounted'
<1>0. loc \in [Handlers -> Locals] /\ pc \in [Handlers -> Pcs]
  BY DEF Inv, TypeOK
<1>1. UNCHANGED users
  BY DEF Refresh, RefreshRequest, Spend, ReadAccount, Issue, ReadGeneration, CreateSession,
     Authenticate, AuthRequest, LookupGeneration, StoreGeneration, HangUp, RefreshCache,
     Reread, Publish, Evict, VerifyCurrent, Logout, FindOwner, DropSession, tables
<1>2. PICK p : pc' = [pc EXCEPT ![h] = p]
  BY HandlerMoves DEF Manage, Password, RevokeTokens
<1>3. pc'[h] # "fail" /\ \A k \in Handlers \ {h} : loc'[k] = loc[k]
  <2>1. CASE Refresh(h) \/ Issue(h) \/ HangUp(h)
    BY <1>0, <2>1 DEF Refresh, RefreshRequest, Spend, ReadAccount, Issue, ReadGeneration,
       CreateSession, HangUp, Respond, Goto
  <2>2. CASE Authenticate(h)
    <3>1. ASSUME NEW l, NEW g, Pass(h, l, g), l.op \in DOMAIN Start
          PROVE  pc'[h] # "fail" /\ \A k \in Handlers \ {h} : loc'[k] = loc[k]
      BY <1>0, <3>1 DEF Pass, Start, Respond, Goto
    <3>2. CASE AuthRequest(h)
      <4>0. PICK t \in Tokens, op \in Ops \cap DOMAIN Start, target \in Users : \E l :
              /\ l = [NoLocals EXCEPT !.user = target, !.token = t, !.op = op]
              /\ (\E g : Pass(h, l, g)) \/ Goto(h, "lookup", l)
        BY <3>2 DEF AuthRequest
      <4>1. PICK l :
              /\ l = [NoLocals EXCEPT !.user = target, !.token = t, !.op = op]
              /\ (\E g : Pass(h, l, g)) \/ Goto(h, "lookup", l)
        BY <4>0
      <4>2. l.op \in DOMAIN Start
        BY <4>1 DEF NoLocals
      <4> QED
        BY <1>0, <3>1, <4>1, <4>2 DEF Goto
    <3>3. CASE StoreGeneration(h)
      <4>1. loc[h] \in Locals /\ loc[h].op \in DOMAIN Start
        BY <3>3 DEF StoreGeneration, Inv, HandlersOK, LocOK, LocTypes, AuthPcs
      <4>2. PICK l : l = [loc[h] EXCEPT !.generation = None]
        OBVIOUS
      <4>3. Pass(h, l, loc[h].generation) /\ l.op = loc[h].op
        BY <3>3, <4>1, <4>2 DEF StoreGeneration, Locals
      <4> QED
        BY <3>1, <4>1, <4>3
    <3>4. CASE LookupGeneration(h)
      BY <1>0, <3>4 DEF LookupGeneration, Respond, Goto
    <3> QED
      BY <2>2, <3>2, <3>3, <3>4 DEF Authenticate
  <2>3. CASE RefreshCache(h) \/ Evict(h) \/ VerifyCurrent(h) \/ Logout(h) \/ FindOwner(h) \/ DropSession(h)
    BY <1>0, <2>3 DEF RefreshCache, Reread, Publish, Evict, VerifyCurrent, Logout, FindOwner,
       DropSession, Respond, Goto
  <2> QED
    BY <2>1, <2>2, <2>3
<1> QED
  BY <1>0, <1>1, <1>2, <1>3, RowsKeepCount DEF SameCount, Exists

LEMMA ChangesCount ==
    ASSUME Inv, Inv', GuessesAreCounted, NEW h \in Handlers,
           CreateUser(h) \/ UpdateUser(h) \/ DeleteUser(h) \/ ChangePassword(h) \/ BumpGeneration(h)
    PROVE  GuessesAreCounted'
<1>0. /\ pc \in [Handlers -> Pcs] /\ loc \in [Handlers -> Locals]
      /\ users \in [Users -> Row \cup {None, Gone}]
  BY DEF Inv, TypeOK
<1>1. PICK p : p # "fail" /\ pc' = [pc EXCEPT ![h] = p]
  BY DEF CreateUser, UpdateUser, DeleteUser, ChangePassword, BumpGeneration, Respond, Goto
<1>2. \A k \in Handlers \ {h} : loc'[k].user = loc[k].user
  <2>1. ASSUME NEW v, Overtake(v) PROVE \A k \in Handlers : loc'[k].user = loc[k].user
    BY <1>0, <2>1 DEF Overtake, Locals
  <2>2. CASE UpdateUser(h)
    BY <1>0, <2>1, <2>2 DEF UpdateUser, Respond, Goto
  <2> QED
    BY <1>0, <2>2 DEF CreateUser, DeleteUser, ChangePassword, BumpGeneration, Respond, Goto
<1>3. ASSUME NEW u \in Users, NEW row, Exists(u), SetRow(u, row),
             row.failed = users[u].failed, row.locked = users[u].locked
      PROVE  \A w \in Users : Exists(w)' => SameCount(w)
  BY <1>0, <1>3 DEF SetRow, SameCount, Exists
<1>4. ASSUME NEW u \in Users, Exists(u), NEW r \in Roles, NEW e \in BOOLEAN, NEW b \in BOOLEAN
      PROVE  LET row == [users[u] EXCEPT !.role = r, !.enabled = e]
                 new == IF b THEN Bumped(row) ELSE row
             IN  /\ new.failed = users[u].failed /\ new.locked = users[u].locked
                 /\ Bumped(users[u]).failed = users[u].failed
                 /\ Bumped(users[u]).locked = users[u].locked
  BY <1>0, <1>4 DEF Exists, Row, Bumped
<1>5. \A w \in Users : Exists(w)' => Uncounted(w) \/ SameCount(w)
  <2>1. CASE CreateUser(h)
    BY <1>0, <2>1 DEF CreateUser, SameCount, Uncounted, Exists
  <2>2. CASE DeleteUser(h)
    BY <1>0, <2>2 DEF DeleteUser, SameCount, Exists
  <2>4. CASE UpdateUser(h)
    <3>1. CASE UNCHANGED users
      BY <3>1 DEF SameCount, Exists
    <3>2. CASE ~UNCHANGED users
      <4>1. loc[h].user \in Users
        BY <2>4 DEF UpdateUser, Inv, HandlersOK, LocOK, LocTypes, OpPcs, AuthPcs
      <4>2. PICK r \in Roles, e \in BOOLEAN :
              LET u == loc[h].user
                  row == [users[u] EXCEPT !.role = r, !.enabled = e]
              IN  Exists(u) /\ SetRow(u, IF Reduces(users[u], r, e) THEN Bumped(row) ELSE row)
        BY <2>4, <3>2 DEF UpdateUser
      <4>3. Reduces(users[loc[h].user], r, e) \in BOOLEAN
        BY DEF Reduces
      <4> QED
        BY <1>3, <1>4, <4>1, <4>2, <4>3
    <3> QED
      BY <3>1, <3>2
  <2>5. CASE ChangePassword(h) \/ BumpGeneration(h)
    <3>1. loc[h].user \in Users
      BY <2>5 DEF ChangePassword, BumpGeneration, Inv, HandlersOK, LocOK, LocTypes, OpPcs, AuthPcs
    <3>2. CASE ~Exists(loc[h].user)
      BY <2>5, <3>2 DEF ChangePassword, BumpGeneration, SameCount, Exists
    <3>3. CASE Exists(loc[h].user)
      <4>1. SetRow(loc[h].user, Bumped(users[loc[h].user]))
        BY <2>5, <3>3 DEF ChangePassword, BumpGeneration
      <4> QED
        BY <1>3, <1>4, <3>1, <3>3, <4>1 DEF Roles
    <3> QED
      BY <3>2, <3>3
  <2> QED
    BY <2>1, <2>2, <2>4, <2>5
<1> QED
  BY <1>1, <1>2, <1>5, RowsKeepCount

LEMMA StepCounts == Inv /\ Inv' /\ GuessesAreCounted /\ [Next]_vars => GuessesAreCounted'
<1> SUFFICES ASSUME Inv, Inv', GuessesAreCounted, [Next]_vars PROVE GuessesAreCounted'
  OBVIOUS
<1>1. ASSUME NEW h \in Handlers,
             \/ Login(h) \/ Refresh(h) \/ Issue(h) \/ Authenticate(h) \/ Manage(h)
             \/ Password(h) \/ RevokeTokens(h) \/ RefreshCache(h) \/ HangUp(h)
      PROVE  GuessesAreCounted'
  BY <1>1, LoginCounts, ReadsCount, ChangesCount DEF Manage, Password, RevokeTokens
<1>2. CASE UNCHANGED <<users, pc, loc>>
  BY <1>2, CountsStay DEF Inv, SameCount, Exists, Guessing
<1> QED
  BY <1>1, <1>2 DEF Next, Tick, Expire, tables, handler, vars

(* Who goes to reset a lock has read one that had expired.                 *)
ReadExpired == \A h \in Handlers : pc[h] = "unlock" => loc[h].lock <= now

LEMMA StepReadsExpired == Inv /\ ReadExpired /\ [Next]_vars => ReadExpired'
<1> SUFFICES ASSUME Inv, ReadExpired, [Next]_vars PROVE ReadExpired'
  OBVIOUS
<1>0. /\ pc \in [Handlers -> Pcs] /\ loc \in [Handlers -> Locals] /\ now \in 0..MaxNow
      /\ users \in [Users -> Row \cup {None, Gone}]
  BY DEF Inv, TypeOK
<1>1. ASSUME NEW h \in Handlers, NEW p, p # "unlock", pc' = [pc EXCEPT ![h] = p],
             \A k \in Handlers \ {h} : loc'[k].lock = loc[k].lock, now' = now
      PROVE  ReadExpired'
  BY <1>0, <1>1 DEF ReadExpired
<1>2. ASSUME NEW h \in Handlers, NEW p, p # "unlock", NEW l, Goto(h, p, l), now' = now
      PROVE  ReadExpired'
  BY <1>0, <1>1, <1>2 DEF Goto
<1>3. ASSUME NEW h \in Handlers, LoginRequest(h) PROVE ReadExpired'
  <2>1. PICK u \in Users : /\ Exists(u)
                           /\ \/ \E p \in {"fail", "clear"} : \E l : Goto(h, p, l)
                              \/ \E o : /\ now >= users[u].locked
                                       /\ Goto(h, "unlock", [NoLocals EXCEPT
                                             !.user = u, !.role = users[u].role,
                                             !.lock = users[u].locked, !.op = o])
    BY <1>3 DEF LoginRequest
  <2>2. UNCHANGED now
    BY <1>3 DEF LoginRequest
  <2>3. CASE \E p \in {"fail", "clear"} : \E l : Goto(h, p, l)
    BY <1>2, <2>2, <2>3
  <2>4. ASSUME NEW l, l.lock <= now, Goto(h, "unlock", l) PROVE ReadExpired'
    BY <1>0, <2>2, <2>4 DEF Goto, ReadExpired
  <2>5. users[u].locked \in Int
    <3>1. users[u] \in Row
      BY <1>0, <2>1 DEF Exists
    <3> QED
      BY <3>1, TimeAssumption DEF Row, Times
  <2>6. \A o : [NoLocals EXCEPT !.user = u, !.role = users[u].role,
                              !.lock = users[u].locked, !.op = o].lock = users[u].locked
    BY DEF NoLocals
  <2> QED
    BY <2>1, <2>3, <2>4, <2>5, <2>6
<1>4. ASSUME NEW h \in Handlers, ResetLock(h) \/ RecordFailedLogin(h) \/ ClearFailed(h)
      PROVE  ReadExpired'
  BY <1>2, <1>4 DEF ResetLock, RecordFailedLogin, ClearFailed, Respond
<1>5. ASSUME NEW h \in Handlers, Refresh(h) \/ Issue(h) \/ RefreshCache(h) \/ HangUp(h)
      PROVE  ReadExpired'
  BY <1>2, <1>5 DEF Refresh, RefreshRequest, Spend, ReadAccount, Issue, ReadGeneration,
     CreateSession, RefreshCache, Reread, Publish, HangUp, Respond
<1>6. ASSUME NEW h \in Handlers, Authenticate(h) PROVE ReadExpired'
  <2>1. ASSUME NEW l, NEW g, Pass(h, l, g), l.op \in DOMAIN Start, now' = now PROVE ReadExpired'
    <3>1. Start[l.op] # "unlock"
      BY <2>1 DEF Start
    <3> QED
      BY <1>2, <2>1, <3>1 DEF Pass, Respond
  <2>2. CASE AuthRequest(h)
    <3>1. PICK t \in Tokens, o \in Ops \cap DOMAIN Start, v \in Users :
            LET l == [NoLocals EXCEPT !.user = v, !.token = t, !.op = o]
            IN  (\E g : Pass(h, l, g)) \/ Goto(h, "lookup", l)
      BY <2>2 DEF AuthRequest
    <3>2. [NoLocals EXCEPT !.user = v, !.token = t, !.op = o].op = o /\ UNCHANGED now
      BY <2>2 DEF NoLocals, AuthRequest
    <3> QED
      BY <1>2, <2>1, <3>1, <3>2
  <2>3. CASE LookupGeneration(h)
    BY <1>2, <2>3 DEF LookupGeneration, Respond
  <2>4. CASE StoreGeneration(h)
    <3>1. loc[h] \in Locals /\ loc[h].op \in DOMAIN Start
      BY <1>0, <2>4 DEF StoreGeneration, Inv, HandlersOK, LocOK, LocTypes, AuthPcs
    <3>2. [loc[h] EXCEPT !.generation = None].op = loc[h].op
      BY <3>1 DEF Locals
    <3> QED
      BY <2>1, <2>4, <3>1, <3>2 DEF StoreGeneration
  <2> QED
    BY <1>6, <2>2, <2>3, <2>4 DEF Authenticate
<1>7. ASSUME NEW h \in Handlers, Manage(h) \/ Password(h) \/ RevokeTokens(h) PROVE ReadExpired'
  <2>1. CASE CreateUser(h) \/ DeleteUser(h) \/ Evict(h) \/ Password(h) \/ RevokeTokens(h)
    BY <1>2, <2>1 DEF CreateUser, DeleteUser, Evict, Password, VerifyCurrent, ChangePassword,
       Logout, RevokeTokens, FindOwner, DropSession, BumpGeneration, Respond
  <2>2. CASE UpdateUser(h)
    <3>1. ASSUME NEW u, Overtake(u) PROVE \A k \in Handlers : loc'[k].lock = loc[k].lock
      BY <1>0, <3>1 DEF Overtake, Locals
    <3>2. (\A k \in Handlers \ {h} : loc'[k].lock = loc[k].lock) /\ now' = now
      <4>1. UNCHANGED now
        BY <2>2 DEF UpdateUser
      <4>2. (\E u : Overtake(u)) \/ UNCHANGED loc \/ loc' = [loc EXCEPT ![h] = NoLocals]
        BY <2>2 DEF UpdateUser, Respond, Goto
      <4> QED
        BY <1>0, <3>1, <4>1, <4>2
    <3>3. \E p \in {"reread", "idle"} : pc' = [pc EXCEPT ![h] = p]
      BY <2>2 DEF UpdateUser, Respond, Goto
    <3> QED
      BY <1>1, <3>2, <3>3
  <2> QED
    BY <1>7, <2>1, <2>2 DEF Manage
<1>8. CASE Tick
  BY <1>0, <1>8 DEF Tick, ReadExpired, handler, Locals, Times
<1>9. CASE (\E t \in Tokens : Expire(t)) \/ UNCHANGED vars
  BY <1>9 DEF Expire, handler, vars, ReadExpired
<1> QED
  BY <1>3, <1>4, <1>5, <1>6, <1>7, <1>8, <1>9 DEF Next, Login

(* Only the two resets and a failed login write the lock of an account.    *)
LEMMA LocksStay ==
    ASSUME Inv, [Next]_vars, NEW u \in Users, Exists(u), Exists(u)',
           users'[u].locked # users[u].locked
    PROVE  \E h \in Handlers : /\ loc[h].user = u
                               /\ ResetLock(h) \/ ClearFailed(h) \/ RecordFailedLogin(h)
<1>0. users \in [Users -> Row \cup {None, Gone}] /\ users[u] \in Row
  BY DEF Inv, TypeOK, Exists
<1>1. ASSUME NEW v, NEW row, SetRow(v, row), row.locked = users[v].locked PROVE FALSE
  BY <1>0, <1>1 DEF SetRow
<1>2. ASSUME NEW h \in Handlers, ResetLock(h) \/ RecordFailedLogin(h) \/ ClearFailed(h)
      PROVE  loc[h].user = u
  BY <1>0, <1>2 DEF ResetLock, RecordFailedLogin, ClearFailed, ResetFailed, SetRow
<1>3. ASSUME NEW h \in Handlers,
             \/ LoginRequest(h) \/ Refresh(h) \/ Issue(h) \/ Authenticate(h) \/ HangUp(h)
             \/ RefreshCache(h) \/ Evict(h) \/ VerifyCurrent(h) \/ Logout(h)
             \/ FindOwner(h) \/ DropSession(h)
      PROVE  FALSE
  BY <1>3 DEF LoginRequest, Refresh, RefreshRequest, Spend, ReadAccount, Issue, ReadGeneration,
     CreateSession, Authenticate, AuthRequest, LookupGeneration, StoreGeneration, HangUp,
     RefreshCache, Reread, Publish, Evict, VerifyCurrent, Logout, FindOwner, DropSession, tables
<1>4. ASSUME NEW h \in Handlers, CreateUser(h) \/ DeleteUser(h) PROVE FALSE
  BY <1>0, <1>4 DEF CreateUser, DeleteUser, Unused, Exists
<1>5. ASSUME NEW h \in Handlers, ChangePassword(h) \/ BumpGeneration(h) PROVE FALSE
  <2>1. Exists(loc[h].user) /\ SetRow(loc[h].user, Bumped(users[loc[h].user]))
    BY <1>5 DEF ChangePassword, BumpGeneration
  <2>2. loc[h].user \in Users
    BY <1>5 DEF ChangePassword, BumpGeneration, Inv, HandlersOK, LocOK, LocTypes, OpPcs, AuthPcs
  <2>3. Bumped(users[loc[h].user]).locked = users[loc[h].user].locked
    BY <1>0, <2>1, <2>2 DEF Exists, Row, Bumped
  <2> QED
    BY <1>1, <2>1, <2>3
<1>6. ASSUME NEW h \in Handlers, UpdateUser(h) PROVE FALSE
  <2>1. PICK r \in Roles, e \in BOOLEAN :
          LET v == loc[h].user
              row == [users[v] EXCEPT !.role = r, !.enabled = e]
          IN  Exists(v) /\ SetRow(v, IF Reduces(users[v], r, e) THEN Bumped(row) ELSE row)
    BY <1>6 DEF UpdateUser
  <2>2. loc[h].user \in Users
    BY <1>6 DEF UpdateUser, Inv, HandlersOK, LocOK, LocTypes, OpPcs, AuthPcs
  <2>3. users[loc[h].user] \in Row
    BY <1>0, <2>1, <2>2 DEF Exists
  <2>4. LET v == loc[h].user
            row == [users[v] EXCEPT !.role = r, !.enabled = e]
        IN  (IF Reduces(users[v], r, e) THEN Bumped(row) ELSE row).locked = users[v].locked
    BY <2>3 DEF Row, Bumped
  <2> QED
    BY <1>1, <2>1, <2>4
<1>7. CASE Tick \/ (\E t \in Tokens : Expire(t)) \/ UNCHANGED vars
  BY <1>7 DEF Tick, Expire, tables, vars
<1> QED
  BY <1>2, <1>3, <1>4, <1>5, <1>6, <1>7 DEF Next, Login, Manage, Password, RevokeTokens

(* Wrong passwords beyond the limit are only those of requests already     *)
(* under way, and a lock is lifted before its time only by a right         *)
(* password under verification or by a request that had read an earlier    *)
(* lock (api/auth.rs:68, db.rs:543, 575).                                  *)
THEOREM LockoutIsKept == Spec => LockoutHolds
<1>1. Init => GuessesAreCounted /\ ReadExpired
  BY BoundAssumption DEF Init, GuessesAreCounted, Exists, ReadExpired
<1>2. Inv /\ GuessesAreCounted =>
        \A u \in Users : Exists(u) => users[u].failed < MaxAttempts + Cardinality(Handlers)
  <2> SUFFICES ASSUME Inv, GuessesAreCounted, NEW u \in Users, Exists(u)
               PROVE  users[u].failed < MaxAttempts + Cardinality(Handlers)
    OBVIOUS
  <2>1. users[u].failed \in Nat
    BY DEF Inv, TypeOK, Row, Exists
  <2> QED
    BY <2>1, GuessingIsFinite, BoundAssumption DEF GuessesAreCounted
<1>3. Inv /\ ReadExpired /\ [Next]_vars =>
        [\A u \in Users : Lifted(u) =>
           \E h \in Handlers : /\ loc[h].user = u
                               /\ \/ ClearFailed(h)
                                  \/ ResetLock(h) /\ loc[h].lock # users[u].locked]_vars
  <2> SUFFICES ASSUME Inv, ReadExpired, [Next]_vars, NEW u \in Users, Lifted(u)
               PROVE  \E h \in Handlers : /\ loc[h].user = u
                                          /\ \/ ClearFailed(h)
                                             \/ ResetLock(h) /\ loc[h].lock # users[u].locked
    OBVIOUS
  <2>0. /\ users[u] \in Row /\ now \in 0..MaxNow /\ loc \in [Handlers -> Locals]
        /\ users \in [Users -> Row \cup {None, Gone}]
    BY DEF Inv, TypeOK, Lifted, Holds, Exists
  <2>1. users[u].locked \in Int /\ now \in Int /\ users[u].locked > now
    BY <2>0, TimeAssumption DEF Row, Times, Lifted, Holds
  <2>2. users'[u].locked = -1 /\ users'[u].locked # users[u].locked
    BY <2>0, <2>1 DEF Lifted, Unlocked
  <2>3. PICK h \in Handlers : /\ loc[h].user = u
                              /\ ResetLock(h) \/ ClearFailed(h) \/ RecordFailedLogin(h)
    BY <2>2, LocksStay DEF Lifted, Holds
  <2>4. ~RecordFailedLogin(h)
    <3> SUFFICES ASSUME RecordFailedLogin(h) PROVE FALSE
      OBVIOUS
    <3>1. PICK n : users' = [users EXCEPT ![u] = [users[u] EXCEPT !.failed = n,
                        !.locked = IF Locks(n) THEN now + LockFor ELSE users[u].locked]]
      BY <2>0, <2>3 DEF RecordFailedLogin, SetRow, Lifted, Holds, Row
    <3>2. users'[u].locked \in {now + LockFor, users[u].locked}
      BY <2>0, <3>1 DEF Row
    <3> QED
      BY <2>0, <2>1, <2>2, <3>2, TimeAssumption
  <2>5. ResetLock(h) => loc[h].lock # users[u].locked
    BY <2>0, <2>1 DEF ResetLock, ReadExpired, Locals, Times
  <2> QED
    BY <2>3, <2>4, <2>5
<1> QED
  BY <1>1, <1>2, <1>3, InitHolds, StepKeeps, StepCounts, StepReadsExpired, PTL
     DEF Spec, LockoutHolds

-----------------------------------------------------------------------------
(* Bits and blocks.                                                        *)

(* Induction, on sets of numbers.                                          *)
LEMMA AllNumbers ==
    ASSUME NEW S \in SUBSET Nat, 0 \in S, \A n \in S : n + 1 \in S
    PROVE  S = Nat
<1> DEFINE T == Nat \ S
           R == OpToRel(<, Nat)
<1>1. SUFFICES ASSUME T # {} PROVE FALSE
  OBVIOUS
<1>2. PICK n \in T : \A m \in T : ~(<<m, n>> \in R)
  <2> HIDE DEF T, R
  <2>1. IsWellFoundedOn(R, Nat) /\ T \subseteq Nat
    BY NatLessThanWellFounded DEF R, T
  <2> QED
    BY <1>1, <2>1, WFMin
<1>3. n \in Nat /\ n # 0
  BY <1>2
<1>4. n - 1 \in Nat /\ n - 1 < n
  BY <1>3
<1>5. <<n - 1, n>> \in R
  BY <1>3, <1>4 DEF OpToRel
<1>6. n - 1 \in S
  BY <1>2, <1>4, <1>5
<1>7. n - 1 + 1 = n
  BY <1>3
<1> QED
  BY <1>2, <1>6, <1>7

(* Powers of two, which the provers know of no more than their values.     *)
LEMMA PowerIsPositive ==
    ASSUME NEW n \in Nat
    PROVE  2^n \in Nat /\ 2^n > 0
<1>1. IsFiniteSet(1..n) /\ Cardinality(1..n) = n
  BY FS_Interval
<1>2. IsFiniteSet(SUBSET (1..n)) /\ Cardinality(SUBSET (1..n)) = 2^n
  BY <1>1, FS_SUBSET
<1>3. SUBSET (1..n) # {}
  OBVIOUS
<1> QED
  BY <1>2, <1>3, FS_CardinalityType, FS_EmptySet

LEMMA NextPower ==
    ASSUME NEW n \in Nat
    PROVE  2^(n + 1) = 2 * 2^n
<1> DEFINE A == SUBSET (1..n)
           B == {s \cup {n + 1} : s \in A}
           f == [s \in A |-> s \cup {n + 1}]
<1>1. IsFiniteSet(1..n) /\ Cardinality(1..n) = n
  BY FS_Interval
<1>2. IsFiniteSet(1..(n + 1)) /\ Cardinality(1..(n + 1)) = n + 1
  BY FS_Interval
<1>3. IsFiniteSet(A) /\ Cardinality(A) = 2^n
  BY <1>1, FS_SUBSET
<1>4. Cardinality(SUBSET (1..(n + 1))) = 2^(n + 1)
  BY <1>2, FS_SUBSET
<1>5. f \in Bijection(A, B)
  <2>1. f \in [A -> B]
    OBVIOUS
  <2>2. ASSUME NEW s \in A, NEW t \in A, f[s] = f[t] PROVE s = t
    <3>1. n + 1 \notin s /\ n + 1 \notin t
      OBVIOUS
    <3> QED
      BY <2>2, <3>1
  <2>3. \A t \in B : \E s \in A : f[s] = t
    OBVIOUS
  <2> QED
    BY <2>1, <2>2, <2>3 DEF Bijection, Injection, Surjection, IsInjective
<1>6. IsFiniteSet(B) /\ Cardinality(B) = 2^n
  BY <1>3, <1>5, FS_Bijection DEF ExistsBijection
<1>7. A \cap B = {}
  <2> SUFFICES ASSUME NEW s \in A, NEW t \in A, s = t \cup {n + 1} PROVE FALSE
    OBVIOUS
  <2> QED
    OBVIOUS
<1>8. A \cup B = SUBSET (1..(n + 1))
  <2>1. ASSUME NEW s \in SUBSET (1..(n + 1)) PROVE s \in A \cup B
    <3>1. CASE n + 1 \in s
      <4>1. s \ {n + 1} \in A /\ s = (s \ {n + 1}) \cup {n + 1}
        BY <2>1, <3>1
      <4> QED
        BY <4>1
    <3>2. CASE n + 1 \notin s
      BY <2>1, <3>2
    <3> QED
      BY <3>1, <3>2
  <2>2. ASSUME NEW s \in A
        PROVE  s \in SUBSET (1..(n + 1)) /\ s \cup {n + 1} \in SUBSET (1..(n + 1))
    OBVIOUS
  <2>3. \A s \in B : s \in SUBSET (1..(n + 1))
    BY <2>2
  <2> QED
    BY <2>1, <2>2, <2>3
<1>9. Cardinality(A \cup B) = Cardinality(A) + Cardinality(B) - Cardinality(A \cap B)
  <2> HIDE DEF A, B
  <2> QED
    BY <1>3, <1>6, FS_Union
<1>10. Cardinality({}) = 0
  BY FS_EmptySet
<1>11. 2^(n + 1) = 2^n + 2^n - 0
  BY <1>3, <1>4, <1>6, <1>7, <1>8, <1>9, <1>10
<1> QED
  BY <1>11, PowerIsPositive

(* Division with remainder.                                                *)
LEMMA Quotient ==
    ASSUME NEW x \in Int, NEW d \in Nat, d > 0, NEW q \in Int, NEW r \in Int,
           0 <= r, r < d, d * q + r = x
    PROVE  x \div d = q /\ x % d = r
<1>1. (d * q + r) \div d = q
  BY SMT
<1>2. (d * q + r) % d = r
  BY SMT
<1> QED
  BY <1>1, <1>2

LEMMA Remainder ==
    ASSUME NEW x \in Int, NEW d \in Int, d > 0
    PROVE  /\ x \div d \in Int /\ x % d \in Int /\ 0 <= x % d /\ x % d < d
           /\ d * (x \div d) + (x % d) = x
<1>1. x \div d \in Int /\ x % d \in Int
  BY SMT
<1>2. 0 <= x % d /\ x % d < d
  BY SMT
<1>3. d * (x \div d) + (x % d) = x
  BY SMT
<1> QED
  BY <1>1, <1>2, <1>3

LEMMA Halving ==
    ASSUME NEW x \in Int, NEW k \in Nat
    PROVE  /\ x \div 2^k \in Int /\ x \div 2^(k + 1) \in Int
           /\ x \div 2^(k + 1) = (x \div 2^k) \div 2
           /\ x \div 2^k = 2 * (x \div 2^(k + 1)) + Bit(x, k)
           /\ Bit(x, k) \in {0, 1}
<1>1. PICK d \in Int : d = 2^k /\ d > 0
  BY PowerIsPositive
<1>2. PICK q \in Int : q = x \div d
  BY <1>1, Remainder
<1>3. PICK r \in Int : r = x % d /\ 0 <= r /\ r < d /\ d * q + r = x
  BY <1>1, <1>2, Remainder
<1>4. PICK h \in Int : h = q \div 2
  BY <1>2
<1>5. PICK b \in Int : b = q % 2 /\ b \in {0, 1} /\ 2 * h + b = q
  BY <1>2, <1>4, Remainder
<1>6. 0 <= d * b + r /\ d * b + r < 2 * d
  BY <1>1, <1>3, <1>5
<1>7. (2 * d) * h + (d * b + r) = x
  <2>1. (2 * d) * h + (d * b + r) = d * (2 * h + b) + r
    BY <1>1, <1>3, <1>4, <1>5
  <2> QED
    BY <2>1, <1>3, <1>5
<1>8. x \div (2 * d) = h
  <2>1. 2 * d \in Nat /\ 2 * d > 0 /\ d * b + r \in Int
    BY <1>1, <1>3, <1>5
  <2> QED
    BY <2>1, <1>4, <1>6, <1>7, Quotient
<1>9. x \div 2^(k + 1) = h
  BY <1>1, <1>8, NextPower
<1> QED
  BY <1>1, <1>2, <1>4, <1>5, <1>9 DEF Bit

LEMMA Unmixed ==
    ASSUME NEW x0, NEW x1 \in Int, NEW b \in {0, 1}, x0 = 2 * x1 + b,
           NEW y0, NEW y1 \in Int, NEW c \in {0, 1}, y0 = 2 * y1 + c
    PROVE  x0 = y0 <=> x1 = y1 /\ b = c
<1>1. b \in Int /\ c \in Int /\ 0 <= b /\ b <= 1 /\ 0 <= c /\ c <= 1
  OBVIOUS
<1> QED
  BY <1>1

(* The addresses that share the bits from k on are those of one block.     *)
LEMMA SharedBits ==
    ASSUME NEW w \in Nat, NEW x \in 0..(2^w - 1), NEW y \in 0..(2^w - 1), NEW k \in 0..w
    PROVE  (\A i \in k..(w - 1) : Bit(x, i) = Bit(y, i)) <=> x \div 2^k = y \div 2^k
<1> DEFINE Same(j) == (\A i \in (w - j)..(w - 1) : Bit(x, i) = Bit(y, i))
                         <=> x \div 2^(w - j) = y \div 2^(w - j)
           S == {j \in Nat : j <= w => Same(j)}
<1>0. x \in Int /\ y \in Int
  BY PowerIsPositive
<1>1. 0 \in S
  <2>1. PICK d \in Nat : d = 2^w /\ d > 0
    BY PowerIsPositive
  <2>2. x \div d = 0 /\ y \div d = 0
    <3>1. 0 <= x /\ x < d /\ 0 <= y /\ y < d /\ d * 0 + x = x /\ d * 0 + y = y
      BY <1>0, <2>1
    <3> QED
      BY <1>0, <2>1, <3>1, Quotient
  <2>3. w - 0 = w /\ (w - 0)..(w - 1) = {}
    OBVIOUS
  <2> QED
    BY <2>1, <2>2, <2>3
<1>2. ASSUME NEW j \in S PROVE j + 1 \in S
  <2> SUFFICES ASSUME j + 1 <= w PROVE Same(j + 1)
    OBVIOUS
  <2>1. j \in Nat /\ Same(j)
    BY <1>2
  <2>2. PICK n \in Nat : n = w - (j + 1)
    BY <2>1
  <2>3. n + 1 = w - j
    BY <2>1, <2>2
  <2> HIDE DEF S
  <2>4. n..(w - 1) = {n} \cup (n + 1)..(w - 1)
    BY <2>1, <2>2, <2>3
  <2>5. (\A i \in (n + 1)..(w - 1) : Bit(x, i) = Bit(y, i)) <=> x \div 2^(n + 1) = y \div 2^(n + 1)
    BY <2>1, <2>3
  <2>6. x \div 2^n = y \div 2^n <=> x \div 2^(n + 1) = y \div 2^(n + 1) /\ Bit(x, n) = Bit(y, n)
    <3>1. /\ x \div 2^n \in Int /\ x \div 2^(n + 1) \in Int /\ Bit(x, n) \in {0, 1}
          /\ x \div 2^n = 2 * (x \div 2^(n + 1)) + Bit(x, n)
      BY <1>0, <2>2, Halving
    <3>2. /\ y \div 2^n \in Int /\ y \div 2^(n + 1) \in Int /\ Bit(y, n) \in {0, 1}
          /\ y \div 2^n = 2 * (y \div 2^(n + 1)) + Bit(y, n)
      BY <1>0, <2>2, Halving
    <3> QED
      BY <3>1, <3>2, Unmixed
  <2>7. (\A i \in n..(w - 1) : Bit(x, i) = Bit(y, i)) <=> x \div 2^n = y \div 2^n
    BY <2>4, <2>5, <2>6
  <2> QED
    BY <2>2, <2>7
<1>3. S = Nat
  <2> HIDE DEF S
  <2>1. S \in SUBSET Nat
    BY DEF S
  <2> QED
    BY <1>1, <1>2, <2>1, AllNumbers
<1>4. w - k \in Nat /\ w - k <= w /\ w - (w - k) = k
  OBVIOUS
<1>5. Same(w - k)
  <2>1. w - k \in S
    BY <1>3, <1>4
  <2> QED
    BY <1>4, <2>1
<1> QED
  BY <1>4, <1>5

LEMMA ZeroHasNoBits ==
    ASSUME NEW i \in Nat
    PROVE  Bit(0, i) = 0
<1>1. PICK d \in Nat : d = 2^i /\ d > 0
  BY PowerIsPositive
<1>2. 0 \div d = 0
  BY <1>1, Quotient
<1> QED
  BY <1>1, <1>2 DEF Bit

(* The mask of a prefix has the bits from w - p on, and no other.          *)
LEMMA MaskBits ==
    ASSUME NEW w \in Nat, NEW p \in 1..w, NEW i \in 0..(w - 1)
    PROVE  Bit(Mask(w, p), i) = 1 <=> i >= w - p
<1>1. PICK k \in Nat : k = w - p /\ k < w
  OBVIOUS
<1> DEFINE m == Mask(w, p)
           Value(j) == m \div 2^j = 2^(w - j) - (IF j <= k THEN 2^(k - j) ELSE 1)
           S == {j \in Nat : j <= w => Value(j)}
<1>2. 2^k <= 2^w
  <2> DEFINE T == {j \in Nat : 2^k <= 2^(k + j)}
  <2>1. 0 \in T
    BY <1>1, PowerIsPositive
  <2>2. ASSUME NEW j \in T PROVE j + 1 \in T
    <3>1. PICK a, b \in Nat : a = 2^k /\ b = 2^(k + j) /\ a <= b
      BY <1>1, <2>2, PowerIsPositive
    <3>2. k + j \in Nat /\ k + (j + 1) = (k + j) + 1
      BY <1>1, <2>2
    <3>3. 2^(k + (j + 1)) = 2 * b
      BY <3>1, <3>2, NextPower
    <3> QED
      BY <3>1, <3>3
  <2>3. T = Nat
    <3> HIDE DEF T
    <3>1. T \in SUBSET Nat
      BY DEF T
    <3> QED
      BY <2>1, <2>2, <3>1, AllNumbers
  <2>4. w - k \in Nat /\ k + (w - k) = w
    BY <1>1
  <2>5. \A j \in T : 2^k <= 2^(k + j)
    OBVIOUS
  <2> HIDE DEF T
  <2>6. 2^k <= 2^(k + (w - k))
    BY <2>3, <2>4, <2>5
  <2> QED
    BY <2>4, <2>6
<1>3. m = 2^w - 2^k
  <2>1. PICK a, b \in Int : a = 2^w /\ b = 2^k /\ 0 < b /\ b <= a
    BY <1>1, <1>2, PowerIsPositive
  <2>2. a * (b - 1) + (a - b) = (a - 1) * b
    BY <2>1
  <2>3. 0 <= a - b /\ a - b < a /\ a \in Nat /\ a > 0 /\ b - 1 \in Int /\ a - b \in Int
        /\ (a - 1) * b \in Int
    BY <2>1
  <2>4. ((a - 1) * b) % a = a - b
    BY <2>2, <2>3, Quotient
  <2>5. m = ((a - 1) * b) % a
    BY <1>1, <2>1 DEF Mask
  <2> QED
    BY <2>1, <2>4, <2>5
<1>4. m \in Int
  BY <1>1, <1>3, PowerIsPositive
<1> HIDE DEF m
<1>5. 0 \in S
  <2>1. m \div 1 = m
    BY <1>4
  <2> QED
    BY <1>1, <1>3, <2>1
(* One bit further, and the bit gone past.                                 *)
<1>6. ASSUME NEW j \in Nat, j < w, Value(j)
      PROVE  Value(j + 1) /\ (Bit(m, j) = 1 <=> j >= k)
  <2>1. PICK a \in Int : a = 2^(w - (j + 1)) /\ 2^(w - j) = 2 * a
    <3>1. PICK n \in Nat : n = w - (j + 1) /\ n + 1 = w - j
      BY <1>6
    <3> QED
      BY <3>1, NextPower, PowerIsPositive
  <2>0. /\ m \div 2^j \in Int /\ m \div 2^(j + 1) \in Int /\ Bit(m, j) \in {0, 1}
        /\ m \div 2^j = 2 * (m \div 2^(j + 1)) + Bit(m, j)
    BY <1>4, <1>6, Halving
  <2> DEFINE q == m \div 2^j
             r == m \div 2^(j + 1)
             b == Bit(m, j)
  <2>2. q \in Int /\ r \in Int /\ b \in {0, 1} /\ q = 2 * r + b
    BY <2>0
  <2>5. Value(j) <=> q = 2^(w - j) - (IF j <= k THEN 2^(k - j) ELSE 1)
    OBVIOUS
  <2>6. Value(j + 1) <=> r = 2^(w - (j + 1)) - (IF j + 1 <= k THEN 2^(k - (j + 1)) ELSE 1)
    OBVIOUS
  <2> HIDE DEF q, r, Value
  <2>3. CASE j < k
    <3>1. PICK c \in Int : c = 2^(k - (j + 1)) /\ 2^(k - j) = 2 * c
      <4>1. PICK n \in Nat : n = k - (j + 1) /\ n + 1 = k - j
        BY <1>1, <1>6, <2>3
      <4> QED
        BY <4>1, NextPower, PowerIsPositive
    <3>2. q = 2 * a - 2 * c
      <4>1. j <= k
        BY <1>1, <1>6, <2>3
      <4> QED
        BY <1>6, <2>1, <2>5, <3>1, <4>1
    <3>3. r = a - c /\ b = 0
      <4> HIDE DEF b
      <4> QED
        BY <2>1, <2>2, <3>1, <3>2
    <3>4. Value(j + 1)
      <4>1. j + 1 <= k
        BY <1>1, <1>6, <2>3
      <4> QED
        BY <2>1, <2>6, <3>1, <3>3, <4>1
    <3>5. ~(j >= k) /\ b # 1
      <4> HIDE DEF b
      <4> QED
        BY <1>1, <1>6, <2>3, <3>3
    <3> QED
      BY <3>4, <3>5
  <2>4. CASE j >= k
    <3>1. q = 2 * a - 1
      <4>1. j = k => 2^(k - j) = 1
        BY <1>1
      <4> QED
        <5>1. CASE j = k
          BY <1>1, <1>6, <2>1, <2>5, <4>1, <5>1
        <5>2. CASE j # k
          <6>1. ~(j <= k)
            BY <1>1, <1>6, <2>4, <5>2
          <6> QED
            BY <1>6, <2>1, <2>5, <6>1
        <5> QED
          BY <5>1, <5>2
    <3>2. r = a - 1 /\ b = 1
      <4> HIDE DEF b
      <4> QED
        BY <2>1, <2>2, <3>1
    <3>3. Value(j + 1)
      <4>1. ~(j + 1 <= k)
        BY <1>1, <1>6, <2>4
      <4> QED
        BY <2>1, <2>6, <3>2, <4>1
    <3> QED
      BY <2>4, <3>2, <3>3
  <2> QED
    BY <1>1, <1>6, <2>3, <2>4
<1>7. S = Nat
  <2>1. ASSUME NEW j \in S PROVE j + 1 \in S
    BY <1>6, <2>1
  <2>2. S \in SUBSET Nat
    OBVIOUS
  <2> HIDE DEF S
  <2> QED
    BY <1>5, <2>1, <2>2, AllNumbers
<1>8. i \in Nat /\ i < w /\ i <= w
  OBVIOUS
<1>9. Value(i)
  <2>1. \A j \in S : j <= w => Value(j)
    OBVIOUS
  <2> HIDE DEF S, Value
  <2> QED
    BY <1>7, <1>8, <2>1
<1>10. Bit(m, i) = 1 <=> i >= k
  BY <1>6, <1>8, <1>9
<1> QED
  BY <1>1, <1>10 DEF m

(* Whom the server trusts.                                                 *)
LEMMA AddressParts ==
    ASSUME NEW a \in Addresses
    PROVE  /\ a.family \in Families /\ a.bits \in 0..(2^Width[a.family] - 1)
           /\ a = [family |-> a.family, bits |-> a.bits]
           /\ Width[a.family] \in Nat
<1>1. PICK f \in Families : a \in [family : {f}, bits : 0..(2^Width[f] - 1)]
  BY DEF Addresses
<1>2. a.family = f
  BY <1>1
<1> QED
  BY <1>1, <1>2, WidthAssumption

(* A block holds the addresses the code finds in it, and no other.         *)
LEMMA ContainedIsInBlock ==
    ASSUME NEW c \in Cidrs, NEW a \in Addresses
    PROVE  CidrContains(c, a) <=> InBlock(c, a)
<1>1. c.net \in Addresses /\ c.prefix \in {Host, Garbage} \cup 0..MaxPrefix
  BY DEF Cidrs
<1>2. PICK w \in Nat : w = Width[a.family]
  BY AddressParts
<1>3. a.bits \in 0..(2^w - 1) /\ a = [family |-> a.family, bits |-> a.bits]
  BY <1>2, AddressParts
<1>4. c.net = [family |-> c.net.family, bits |-> c.net.bits]
      /\ c.net.bits \in 0..(2^Width[c.net.family] - 1)
  BY <1>1, AddressParts
<1>5. CASE c.prefix = Host
  <2>1. c.net = a <=> c.net.family = a.family /\ c.net.bits = a.bits
    BY <1>3, <1>4
  <2> QED
    BY <1>5, <2>1 DEF CidrContains, InBlock
<1>6. CASE c.prefix = Garbage
  BY <1>6 DEF CidrContains, InBlock, Host, Garbage
<1>7. CASE c.prefix \in 0..MaxPrefix
  <2>1. c.prefix # Host /\ c.prefix # Garbage
    BY <1>7, WidthAssumption DEF Host, Garbage
  <2> DEFINE Near == c.net.family = a.family /\ c.prefix <= w
             Agree == \A i \in 0..(w - 1) : Bit(Mask(w, c.prefix), i) = 1 =>
                          Bit(c.net.bits, i) = Bit(a.bits, i)
             Shared == c.net.bits \div 2^(w - c.prefix) = a.bits \div 2^(w - c.prefix)
  <2>2. CidrContains(c, a) <=> Near /\ Agree
    BY <1>2, <2>1 DEF CidrContains
  <2>3. InBlock(c, a) <=> Near /\ Shared
    BY <1>2, <2>1 DEF InBlock
  <2>4. ASSUME Near PROVE Agree <=> Shared
    <3>1. c.net.bits \in 0..(2^w - 1)
      BY <1>2, <1>4, <2>4
    <3>2. PICK p \in 0..w : p = c.prefix
      BY <1>7, <2>4, WidthAssumption
    <3>3. w - p \in 0..w
      OBVIOUS
    <3>4. Shared <=> \A i \in (w - p)..(w - 1) : Bit(c.net.bits, i) = Bit(a.bits, i)
      BY <1>3, <3>1, <3>2, <3>3, SharedBits
    <3>5. CASE p = 0
      <4>1. (w - p)..(w - 1) = {}
        BY <3>5
      <4>2. \A i \in 0..(w - 1) : Bit(Mask(w, p), i) # 1
        BY <3>5, ZeroHasNoBits DEF Mask
      <4> QED
        BY <3>2, <3>4, <4>1, <4>2
    <3>6. CASE p # 0
      <4>1. p \in 1..w
        BY <3>6
      <4>2. \A i \in 0..(w - 1) : Bit(Mask(w, p), i) = 1 <=> i >= w - p
        BY <4>1, MaskBits
      <4>3. \A i : i \in (w - p)..(w - 1) <=> i \in 0..(w - 1) /\ i >= w - p
        BY <4>1
      <4> QED
        BY <3>2, <3>4, <4>2, <4>3
    <3> QED
      BY <3>5, <3>6
  <2> QED
    BY <2>2, <2>3, <2>4
<1> QED
  BY <1>1, <1>5, <1>6, <1>7

LEMMA NobodyIsMisrecorded == Misrecorded = {}
<1> DEFINE header == [family |-> "v4", bits |-> 2^Width["v4"]]
<1>1. SUFFICES ASSUME NEW a \in Addresses, NEW c \in Cidrs,
                      \/ ExtractClientIp(a, header, Absent, {c})
                            # (IF InBlock(c, a) THEN header ELSE a)
                      \/ ExtractClientIp(a, Absent, header, {c})
                            # (IF InBlock(c, a) THEN header ELSE a)
                      \/ ExtractClientIp(a, Absent, Absent, {c}) # a
               PROVE  FALSE
  <2>1. ASSUME NEW p \in Misrecorded PROVE FALSE
    <3>1. p[1] \in Addresses /\ p[2] \in Cidrs
      BY <2>1 DEF Misrecorded
    <3> QED
      BY <1>1, <2>1, <3>1 DEF Misrecorded
  <2> QED
    BY <2>1
<1>2. a # Absent
  BY AddressParts DEF Absent, Families
<1>3. header # Absent
  BY DEF Absent
<1>4. PeerInTrustedProxies(a, {c}) <=> InBlock(c, a)
  BY ContainedIsInBlock DEF PeerInTrustedProxies
<1> HIDE DEF header
<1>5. ExtractClientIp(a, header, Absent, {c}) = (IF InBlock(c, a) THEN header ELSE a)
  BY <1>2, <1>3, <1>4 DEF ExtractClientIp
<1>6. ExtractClientIp(a, Absent, header, {c}) = (IF InBlock(c, a) THEN header ELSE a)
  BY <1>2, <1>3, <1>4 DEF ExtractClientIp
<1>7. ExtractClientIp(a, Absent, Absent, {c}) = a
  BY <1>2, <1>4 DEF ExtractClientIp
<1> QED
  BY <1>1, <1>5, <1>6, <1>7

LEMMA SettingsTakeEffect == Ineffective = {}
<1> SUFFICES ASSUME NEW c \in Ineffective PROVE FALSE
  OBVIOUS
<1>1. /\ c.cert \in BOOLEAN /\ c.key \in BOOLEAN /\ c.optionalCa \in BOOLEAN
      /\ c.requireCa \in BOOLEAN /\ c.loopback \in BOOLEAN /\ c.allowPlain \in BOOLEAN
  BY DEF Ineffective, ApiConfigs
<1>2. CASE TlsEnabled(c)
  BY <1>1, <1>2 DEF Ineffective, ValidTransport, ClientAuthMode, TlsEnabled
<1>3. CASE ~TlsEnabled(c)
  BY <1>1, <1>3 DEF Ineffective, ValidTransport, ClientAuthMode, TlsEnabled
<1> QED
  BY <1>2, <1>3

(* Addresses of any width and blocks of any prefix: whom the configuration *)
(* trusts is whom the server trusts.                                       *)
THEOREM TrustIsKept == Spec => []TrustIsAsConfigured
<1>1. TrustIsAsConfigured
  BY NobodyIsMisrecorded, SettingsTakeEffect DEF TrustIsAsConfigured
<1> QED
  BY <1>1, PTL
=============================================================================
