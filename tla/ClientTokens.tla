---------------------------- MODULE ClientTokens ----------------------------
(***************************************************************************)
(* The tokens of one account on one server, as its clients hold them: the  *)
(* desktop client (the renewal of api.rs, the AuthManager of auth.rs, the  *)
(* start of main.rs), the commands of snx-edge-ctl (ensure_auth and what   *)
(* follows it in main.rs), and the keyring entry both of them use.         *)
(*                                                                         *)
(* The server gives out numbered pairs: an access token, which expires,    *)
(* and a refresh token, which is good for one exchange. It answers an      *)
(* exchange in one step (module Accounts has those steps); the answer may  *)
(* be lost. The 0 stands for no token.                                     *)
(***************************************************************************)
EXTENDS Integers, FiniteSets

CONSTANTS
    Requests,       \* tasks of the desktop client that are using the API
    Commands,       \* runs of snx-edge-ctl at the same time
    None,
    MaxMfaAttempts, \* MAX_MFA_ATTEMPTS
    MaxPair         \* bound: pairs the server gives out

ASSUME PairAssumption == MaxPair \in Nat \ {0} /\ MaxMfaAttempts \in Nat \ {0}
ASSUME NamesAssumption == None \notin Requests

VARIABLES
    last,      \* pairs given out so far
    live,      \* refresh tokens that have a session
    valid,     \* access tokens that have not expired
    keyring,   \* the refresh token stored for this server
    phase,     \* the desktop client: see Phases
    token,     \* ApiClient.token
    refresh,   \* ApiClient.refresh_token
    cache,     \* token_cache() of this process
    lock,      \* ApiClient.refresh_lock: who holds it
    saves,     \* persist_refresh_token tasks the hook has spawned
    req,       \* per task: where its request is
    cmd,       \* per command: where it is
    exchanged, \* history: what this process has exchanged for an answer
    faults     \* history: what has gone wrong that no code can help

server == <<last, live, valid>>
gui == <<phase, token, refresh, cache, lock, saves, req, exchanged>>
tokenVars == <<last, live, valid, keyring, phase, token, refresh, cache, lock, saves, req, cmd,
               exchanged, faults>>

Pairs == 1..MaxPair
MaybePair == 0..MaxPair

(* off: not running. restoring: AuthManager::refresh has its answer ahead, *)
(* restored: it has to store it. login: a login dialog is open. in: the    *)
(* pollers run.                                                            *)
Phases == {"off", "restoring", "restored", "login", "in"}

Idle == [at |-> "idle", header |-> 0, stale |-> 0, answer |-> 0]
NoCommand == [at |-> "idle", held |-> 0, left |-> 0, submitted |-> 0]

TokenTypeOK ==
    /\ last \in MaybePair /\ live \subseteq 1..last /\ valid \subseteq 1..last
    /\ keyring \in 0..last
    /\ phase \in Phases
    /\ token \in 0..last /\ refresh \in 0..last /\ cache \in 0..last
    /\ lock \in Requests \cup {None}
    /\ saves \subseteq [pair : 1..last, cached : BOOLEAN]
    /\ req \in [Requests -> [at : {"idle", "built", "refused", "renewing"}, header : 0..last,
                             stale : 0..last, answer : 0..last]]
    /\ cmd \in [Commands -> [at : {"idle", "loaded", "answered", "working", "mfa"},
                             held : 0..last, left : 0..MaxMfaAttempts,
                             submitted : 0..MaxMfaAttempts]]
    /\ exchanged \subseteq 1..last
    /\ faults \subseteq {"lost", "killed", "reordered"}
    /\ \A q \in Requests : req[q].at = "renewing" => lock = q

TokenInit ==
    /\ last = 1 /\ live = {1} /\ valid = {} /\ keyring \in {0, 1}
    /\ phase = "off" /\ token = 0 /\ refresh = 0 /\ cache = 0
    /\ lock = None /\ saves = {} /\ exchanged = {} /\ faults = {}
    /\ req = [q \in Requests |-> Idle]
    /\ cmd = [c \in Commands |-> NoCommand]

-----------------------------------------------------------------------------
(* The server.                                                             *)

(* An exchange of r that is answered with pair n.                          *)
Exchanged(r, n) ==
    /\ r \in live /\ last < MaxPair
    /\ n = last + 1 /\ last' = n
    /\ live' = (live \ {r}) \cup {n}
    /\ valid' = valid \cup {n}

(* One that is not (a spent token, or no way to the server): the caller    *)
(* sees the same error. When the answer is lost the session is spent.      *)
Refused == UNCHANGED server
Lost(r) == \E n \in Pairs : Exchanged(r, n)

LoggedIn(n) ==
    /\ last < MaxPair /\ n = last + 1 /\ last' = n
    /\ live' = live \cup {n} /\ valid' = valid \cup {n}

Expire(n) ==
    /\ valid' = valid \ {n}
    /\ UNCHANGED <<last, live, keyring, gui, cmd, faults>>

-----------------------------------------------------------------------------
(* The desktop client: one request.                                        *)

SetReq(q, at, header, stale, answer) ==
    req' = [req EXCEPT ![q] = [at |-> at, header |-> header, stale |-> stale, answer |-> answer]]

(* request_builder puts the access token of the moment in the header.      *)
Build(q) ==
    /\ phase # "off" /\ req[q].at = "idle"
    /\ SetReq(q, "built", token, 0, 0)
    /\ UNCHANGED <<server, keyring, phase, token, refresh, cache, lock, saves, exchanged, cmd, faults>>

(* send_refreshing reads the token again, later, then sends. Anything but  *)
(* 401 is the caller's answer.                                             *)
Transmit(q) ==
    /\ req[q].at = "built"
    /\ IF req[q].header \in valid THEN req' = [req EXCEPT ![q] = Idle]
       ELSE SetReq(q, "refused", req[q].header, token, 0)
    /\ UNCHANGED <<server, keyring, phase, token, refresh, cache, lock, saves, exchanged, cmd, faults>>

(* Mutant: renewals do not wait for one another.                           *)
MayRenewAtOnce(q) == req[q].at = "refused"
MayRenew(q) == req[q].at = "refused" /\ lock = None

(* Somebody has renewed it meanwhile, and the request is replayed with     *)
(* that; or there is nothing to renew it with, and the 401 stands.         *)
NoExchangeNeeded(q) ==
    /\ MayRenew(q)
    /\ token # req[q].stale \/ refresh = 0
    /\ req' = [req EXCEPT ![q] = Idle]
    /\ UNCHANGED <<server, keyring, phase, token, refresh, cache, lock, saves, exchanged, cmd, faults>>

Renew(q) ==
    /\ MayRenew(q)
    /\ token = req[q].stale /\ refresh # 0
    /\ lock' = q
    /\ \/ \E n \in Pairs : /\ Exchanged(refresh, n)
                           /\ SetReq(q, "renewing", req[q].header, req[q].stale, n)
          /\ exchanged' = exchanged \cup {refresh} /\ UNCHANGED faults
       \/ /\ Refused /\ SetReq(q, "renewing", req[q].header, req[q].stale, 0)
          /\ UNCHANGED <<exchanged, faults>>
       \/ /\ Lost(refresh) /\ SetReq(q, "renewing", req[q].header, req[q].stale, 0)
          /\ faults' = faults \cup {"lost"} /\ UNCHANGED exchanged
    /\ UNCHANGED <<keyring, phase, token, refresh, cache, saves, cmd>>

(* Mutant: only a success drops the lock.                                  *)
ReleasedIfAnswered(q) == IF req[q].answer = 0 THEN q ELSE None
Released(q) == None

(* The answer: both tokens are stored, the hook spawns the task that saves *)
(* the rotated one, the lock is dropped and the request replayed.          *)
Renewed(q) ==
    /\ req[q].at = "renewing"
    /\ lock' = Released(q)
    /\ req' = [req EXCEPT ![q] = Idle]
    /\ IF req[q].answer = 0 THEN UNCHANGED <<token, refresh, saves>>
       ELSE /\ token' = req[q].answer /\ refresh' = req[q].answer
            /\ saves' = saves \cup {[pair |-> req[q].answer, cached |-> FALSE]}
    /\ UNCHANGED <<server, keyring, phase, cache, exchanged, cmd, faults>>

(* persist_refresh_token: the cache at once, the keyring on a blocking     *)
(* thread. Two such tasks may overtake one another.                        *)
SaveToCache(s) ==
    /\ s \in saves /\ ~s.cached
    /\ cache' = s.pair
    /\ saves' = (saves \ {s}) \cup {[s EXCEPT !.cached = TRUE]}
    /\ UNCHANGED <<server, keyring, phase, token, refresh, lock, req, exchanged, cmd, faults>>

SaveToKeyring(s) ==
    /\ s \in saves /\ s.cached
    /\ keyring' = s.pair
    /\ saves' = saves \ {s}
    /\ faults' = faults \cup (IF \E o \in saves : o.pair < s.pair THEN {"reordered"} ELSE {})
    /\ UNCHANGED <<server, phase, token, refresh, cache, lock, req, exchanged, cmd>>

-----------------------------------------------------------------------------
(* The desktop client: its start.                                          *)

(* try_restore_or_login: a fresh ApiClient, then AuthManager::refresh with *)
(* what load_saved_token finds.                                            *)
StartGui ==
    /\ phase = "off"
    /\ cache' = keyring
    /\ phase' = IF keyring = 0 THEN "login" ELSE "restoring"
    /\ UNCHANGED <<server, keyring, token, refresh, lock, saves, req, exchanged, cmd, faults>>

Restore ==
    /\ phase = "restoring"
    /\ \/ /\ \E n \in Pairs : Exchanged(cache, n) /\ token' = n
          /\ exchanged' = exchanged \cup {cache}
          /\ phase' = "restored" /\ UNCHANGED faults
       \/ Refused /\ phase' = "login" /\ UNCHANGED <<token, exchanged, faults>>
       \/ /\ Lost(cache) /\ phase' = "login" /\ faults' = faults \cup {"lost"}
          /\ UNCHANGED <<token, exchanged>>
    /\ UNCHANGED <<keyring, refresh, cache, lock, saves, req, cmd>>

(* A login from the dialog; a wrong password opens it again.               *)
LoginGui ==
    /\ phase = "login"
    /\ \E n \in Pairs : LoggedIn(n) /\ token' = n
    /\ phase' = "restored"
    /\ UNCHANGED <<keyring, refresh, cache, lock, saves, req, exchanged, cmd, faults>>

(* Both end the same way: save_refresh_token is awaited, and the client    *)
(* gets the token to renew with.                                           *)
SaveRestored ==
    /\ phase = "restored"
    /\ cache' = token /\ keyring' = token /\ refresh' = token
    /\ phase' = "in"
    /\ UNCHANGED <<server, token, lock, saves, req, exchanged, cmd, faults>>

(* The process ends, by Exit of the tray or otherwise.                     *)
EndGui ==
    /\ phase # "off"
    /\ phase' = "off" /\ token' = 0 /\ refresh' = 0 /\ cache' = 0
    /\ lock' = None /\ saves' = {} /\ exchanged' = {}
    /\ req' = [q \in Requests |-> Idle]
    /\ faults' = faults \cup
          (IF saves # {} \/ phase = "restored" \/ \E q \in Requests : req[q].answer # 0
           THEN {"killed"} ELSE {})
    /\ UNCHANGED <<server, keyring, cmd>>

-----------------------------------------------------------------------------
(* snx-edge-ctl.                                                           *)

SetCmd(c, at, held) == cmd' = [cmd EXCEPT ![c].at = at, ![c].held = held]
End(c) == cmd' = [cmd EXCEPT ![c] = NoCommand]
KeepGui == UNCHANGED gui

(* load_refresh_token; without an entry the command ends.                  *)
Load(c) ==
    /\ cmd[c].at = "idle" /\ keyring # 0
    /\ SetCmd(c, "loaded", keyring)
    /\ KeepGui /\ UNCHANGED <<server, keyring, faults>>

(* ensure_auth's exchange.                                                 *)
EnsureAuth(c) ==
    /\ cmd[c].at = "loaded"
    /\ \/ \E n \in Pairs : Exchanged(cmd[c].held, n) /\ SetCmd(c, "answered", n) /\ UNCHANGED faults
       \/ Refused /\ End(c) /\ UNCHANGED faults
       \/ Lost(cmd[c].held) /\ End(c) /\ faults' = faults \cup {"lost"}
    /\ KeepGui /\ UNCHANGED keyring

CmdLogin(c) ==
    /\ cmd[c].at = "idle"
    /\ \E n \in Pairs : LoggedIn(n) /\ SetCmd(c, "answered", n)
    /\ KeepGui /\ UNCHANGED <<keyring, faults>>

(* Mutant: the rotated token is not stored.                                *)
StoredNot(n) == UNCHANGED keyring
(* save_refresh_token.                                                     *)
Stored(n) == keyring' = n

Save(c) ==
    /\ cmd[c].at = "answered"
    /\ Stored(cmd[c].held)
    /\ SetCmd(c, "working", cmd[c].held)
    /\ KeepGui /\ UNCHANGED <<server, faults>>

(* logout, and server remove, which forgets the token of that server.      *)
Forget(c) ==
    /\ cmd[c].at = "idle"
    /\ keyring' = 0
    /\ KeepGui /\ UNCHANGED <<server, cmd, faults>>

(* The calls of the command. ctl does not renew: one that outlives its     *)
(* access token ends with the 401.                                         *)
Work(c) ==
    /\ cmd[c].at = "working"
    /\ End(c)
    /\ KeepGui /\ UNCHANGED <<server, keyring, faults>>

(* cmd_connect, whose answer may be a challenge (quiet mode ends there).   *)
Connect(c) ==
    /\ cmd[c].at = "working" /\ cmd[c].held \in valid
    /\ cmd' = [cmd EXCEPT ![c].at = "mfa", ![c].left = MaxMfaAttempts]
    /\ KeepGui /\ UNCHANGED <<server, keyring, faults>>

(* Mutant: cmd_challenge forgets the submission it has made itself.        *)
LeftAfterFirstAll == MaxMfaAttempts
LeftAfterFirst == MaxMfaAttempts - 1

(* cmd_challenge: one submission of its own, then the loop for the rest.   *)
Challenge(c) ==
    /\ cmd[c].at = "working" /\ cmd[c].held \in valid
    /\ cmd' = [cmd EXCEPT ![c].at = "mfa", ![c].left = LeftAfterFirst, ![c].submitted = 1]
    /\ KeepGui /\ UNCHANGED <<server, keyring, faults>>

(* prompt_mfa_loop: a code that the server answers with Mfa again asks for *)
(* the next one; any other answer, and the last attempt, end the command.  *)
Submit(c) ==
    /\ cmd[c].at = "mfa" /\ cmd[c].left > 0
    /\ \/ End(c)
       \/ /\ cmd[c].held \in valid
          /\ cmd' = [cmd EXCEPT ![c].left = @ - 1, ![c].submitted = @ + 1]
    /\ KeepGui /\ UNCHANGED <<server, keyring, faults>>

GiveUp(c) ==
    /\ cmd[c].at = "mfa" /\ cmd[c].left = 0
    /\ End(c)
    /\ KeepGui /\ UNCHANGED <<server, keyring, faults>>

(* Control-C.                                                              *)
Kill(c) ==
    /\ cmd[c].at # "idle"
    /\ End(c)
    /\ faults' = faults \cup (IF cmd[c].at = "answered" THEN {"killed"} ELSE {})
    /\ KeepGui /\ UNCHANGED <<server, keyring>>

-----------------------------------------------------------------------------
RequestStep(q) == Build(q) \/ Transmit(q) \/ NoExchangeNeeded(q) \/ Renew(q) \/ Renewed(q)
GuiStart == StartGui \/ Restore \/ LoginGui \/ SaveRestored \/ EndGui
CommandStep(c) ==
    \/ Load(c) \/ EnsureAuth(c) \/ CmdLogin(c) \/ Save(c) \/ Forget(c) \/ Work(c)
    \/ Connect(c) \/ Challenge(c) \/ Submit(c) \/ GiveUp(c) \/ Kill(c)

TokenNext ==
    \/ \E n \in valid : Expire(n)
    \/ \E q \in Requests : RequestStep(q)
    \/ \E s \in saves : SaveToCache(s) \/ SaveToKeyring(s)
    \/ GuiStart
    \/ \E c \in Commands : CommandStep(c)

(* Tasks of the runtime run; the lock is tokio's, which is fair. Nothing   *)
(* makes an exchange end: the client has no timeout (api.rs 92-95).        *)
RenewalIsFair == \A q \in Requests : SF_tokenVars(NoExchangeNeeded(q) \/ Renew(q))

TokenSpec == TokenInit /\ [][TokenNext]_tokenVars /\ RenewalIsFair

-----------------------------------------------------------------------------
(* What must hold.                                                         *)

(* However many requests of the desktop client are refused at once, it     *)
(* does not present a refresh token again once it has exchanged it for an  *)
(* answer (refresh_lock and the comparison with the stale token, api.rs    *)
(* 133-150): the server would refuse it and the session be gone.           *)
NoTokenPresentedTwice ==
    [][\A q \in Requests : lock # q /\ lock' = q => refresh \notin exchanged]_tokenVars

(* While nothing is being exchanged or saved, the next start finds a live  *)
(* session in the keyring, or nothing (auth.rs 49-52, ctl's main.rs        *)
(* 424-427), unless an answer was lost, a process was killed before it     *)
(* saved, or two saves of the desktop client overtook one another.         *)
Settled ==
    /\ saves = {} /\ lock = None /\ phase # "restored"
    /\ \A c \in Commands : cmd[c].at # "answered"
KeyringRestores == Settled /\ faults = {} => keyring \in live \cup {0}

(* A request that was refused gets its turn to renew, whatever becomes of  *)
(* the renewals before it (api.rs 139: the guard is dropped on each path), *)
(* if each of them ends: one that the server accepts and never answers     *)
(* keeps the others waiting for good (api.rs 92-95, 147, 218-228).         *)
ExchangesEnd == \A q \in Requests : []<>(req[q].at # "renewing")
EachRequestGetsItsTurn ==
    ExchangesEnd => \A q \in Requests : req[q].at = "refused" ~> req[q].at # "refused"
=============================================================================
