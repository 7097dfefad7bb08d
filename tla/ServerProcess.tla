---------------------------- MODULE ServerProcess ----------------------------
(***************************************************************************)
(* The life of a snx-edge-server process around its database: the start    *)
(* (main.rs, AppState::with_shared of state.rs, the migrations, the canary *)
(* and the first admin of db.rs), serving, and the shutdown, with crashes  *)
(* anywhere. Each start finds an environment of its own: the encryption    *)
(* key, the opt-ins of config.toml, the admin's password. What the last    *)
(* actions of a shutdown do to the tunnel, the router and the rules of the *)
(* host is the subject of TunnelManager, Provisioner and DataPlane.        *)
(***************************************************************************)
EXTENDS Profiles, Integers

CONSTANTS
    Streams,      \* event streams clients may hold open
    DrainCap,     \* the 30 s of a TLS shutdown, in ticks
    DisconnectCap \* the 10 s a disconnect may take, in ticks

VARIABLES
    stage,     \* what main() is at
    ddl,       \* the migrations whose statements the database has seen
    version,   \* PRAGMA user_version
    admins,    \* whether there is a user
    open,      \* the event streams of clients
    waited     \* ticks since main() began to wait, while it does

processVars == <<profileVars, stage, ddl, version, admins, open, waited>>

(* v2 adds a column: its statement fails where the column exists already.  *)
Latest == 3
Repeatable == {1, 3}

Running == {"serving", "draining"}

(* A database of this version, none, or one from before the migrations.    *)
ProcessInit ==
    /\ stage = "down"
    /\ \/ ddl = {} /\ version = 0 /\ admins = FALSE
       \/ ddl = {1} /\ version = 0 /\ admins = TRUE
    /\ profiles = [p \in ProfileIds |-> Nothing]
    /\ write = [r \in Writers |-> Nothing]
    /\ run = Nothing
    /\ everLax = FALSE
    /\ writtenBy = [p \in ProfileIds |-> Nothing]
    /\ open = {} /\ waited = 0

To(s) == stage' = s /\ waited' = 0

(* The process is gone, with its requests.                                 *)
Exit ==
    /\ To("down")
    /\ run' = Nothing
    /\ write' = [r \in Writers |-> Nothing]
    /\ open' = {}
    /\ UNCHANGED <<profiles, everLax, writtenBy, ddl, version, admins>>

-----------------------------------------------------------------------------
(* The start.                                                              *)

(* Without a key the process goes on only if config.toml allows it.        *)
KeyChoice(key, plaintext) == key # Nothing \/ plaintext

(* A configuration that loads, a JWT secret of 32 bytes; tls: the listener *)
(* it configures, lax: its allow_no_cert_check.                            *)
StartServer(key, plaintext, lax, tls) ==
    /\ stage = "down" /\ KeyChoice(key, plaintext)
    /\ To("migrating")
    /\ run' = [key |-> key, lax |-> lax, tls |-> tls]
    /\ everLax' = (everLax \/ lax)
    /\ UNCHANGED <<profiles, write, writtenBy, ddl, version, admins, open>>

(* Mutant: the statements are committed before the version is.             *)
MigrateInTwo(m) ==
    /\ stage = "migrating" /\ version = m - 1
    /\ ddl' = ddl \cup {m}
    /\ version' \in IF m \in ddl THEN {m} ELSE {version}
    /\ UNCHANGED <<profileVars, stage, admins, open, waited>>

(* One migration, in a transaction of its own.                             *)
Migrate(m) ==
    /\ stage = "migrating" /\ version = m - 1
    /\ ddl' = ddl \cup {m} /\ version' = m
    /\ UNCHANGED <<profileVars, stage, admins, open, waited>>

Verify ==
    /\ stage = "migrating" /\ version = Latest
    /\ IF Canary(run.key)
       THEN To("admin") /\ UNCHANGED <<profileVars, ddl, version, admins, open>>
       ELSE Exit

(* The first admin takes its password from the environment, if it is set.  *)
EnsureAdmin(password) ==
    /\ stage = "admin"
    /\ IF admins \/ password
       THEN To("serving") /\ admins' = TRUE /\ UNCHANGED <<profileVars, ddl, version, open>>
       ELSE Exit

(* The address is taken, the certificate cannot be read: the start ends in *)
(* an error although the background tasks run already.                     *)
BindFails == stage = "serving" /\ open = {} /\ Exit

Crash == stage # "down" /\ Exit

-----------------------------------------------------------------------------
(* Serving and shutting down.                                              *)

Serve == stage \in Running /\ WriteProfiles /\ UNCHANGED <<stage, ddl, version, admins, open, waited>>

OpenStream(s) ==
    /\ stage = "serving" /\ s \notin open
    /\ open' = open \cup {s}
    /\ UNCHANGED <<profileVars, stage, ddl, version, admins, waited>>

CloseStream(s) ==
    /\ stage \in Running /\ s \in open
    /\ open' = open \ {s}
    /\ UNCHANGED <<profileVars, stage, ddl, version, admins, waited>>

Signal ==
    /\ stage = "serving"
    /\ To("draining")
    /\ UNCHANGED <<profileVars, ddl, version, admins, open>>

(* Mutant: a TLS shutdown waits for its connections, as a plain one does.  *)
DrainEndsNever == FALSE

DrainEnds == run.tls /\ waited >= DrainCap

NothingOpen == open = {} /\ \A r \in Writers : write[r] = Nothing

(* serve() returns when the connections have ended, or at the cap of a TLS *)
(* listener, which drops them; plain HTTP has no cap, and a stream ends    *)
(* only when its client goes.                                              *)
Drained ==
    /\ stage = "draining" /\ (NothingOpen \/ DrainEnds)
    /\ To("disconnecting")
    /\ write' = [r \in Writers |-> Nothing] /\ open' = {}
    /\ UNCHANGED <<profiles, run, everLax, writtenBy, ddl, version, admins>>

(* state.tunnel.disconnect(): done, failed, or given up on at the cap.     *)
Disconnected ==
    /\ stage = "disconnecting"
    /\ To("cleaning")
    /\ UNCHANGED <<profileVars, ddl, version, admins, open>>

(* The teardown of the router, if configured, and the rules of the host.   *)
CleanedUp == stage = "cleaning" /\ Exit

(* Time passes while main() waits, up to the deadlines it has set.         *)
Wait ==
    /\ \/ stage = "draining" /\ ~DrainEnds
       \/ stage = "disconnecting" /\ waited < DisconnectCap
    /\ waited <= DrainCap + DisconnectCap
    /\ waited' = waited + 1
    /\ UNCHANGED <<profileVars, stage, ddl, version, admins, open>>

-----------------------------------------------------------------------------
ProcessNext ==
    \/ \E key \in Keys \cup {Nothing}, plaintext, lax, tls \in BOOLEAN :
          StartServer(key, plaintext, lax, tls)
    \/ \E m \in 1..Latest : Migrate(m)
    \/ Verify \/ BindFails \/ Crash \/ Serve
    \/ \E password \in BOOLEAN : EnsureAdmin(password)
    \/ \E s \in Streams : OpenStream(s) \/ CloseStream(s)
    \/ Signal \/ Drained \/ Disconnected \/ CleanedUp \/ Wait

(* main() is scheduled, and time passes.                                   *)
ShutdownIsFair ==
    /\ WF_processVars(Drained) /\ WF_processVars(Disconnected)
    /\ WF_processVars(CleanedUp) /\ WF_processVars(Wait)

ProcessSpec == ProcessInit /\ [][ProcessNext]_processVars /\ ShutdownIsFair

-----------------------------------------------------------------------------
(* What must hold.                                                         *)

(* A migration that cannot be run twice is never run on a database that    *)
(* has it, whatever crashed before: every later start would fail there     *)
(* (db.rs apply_migrations).                                               *)
MigrationsRunOnce ==
    stage = "migrating" /\ version < Latest => version + 1 \notin ddl \ Repeatable

(* While requests are served, every stored secret opens with the key of    *)
(* this process: a row sealed with another would reach the gateway as a    *)
(* password (db.rs verify_profile_encryption).                             *)
ReadableWhileServing ==
    stage \in Running => \A p \in ProfileIds : HasRow(p) => Opens(profiles[p], run.key)

(* What lies in the database is what a policy has allowed. A secret is in  *)
(* plain text only if the process that wrote its row last had no key,      *)
(* which it was allowed to (state.rs 93): with a key, a row of before is   *)
(* sealed by any write, a change of name included (db.rs 1005-1016). And a *)
(* profile that does not check the gateway's certificate came in while a   *)
(* process allowed it, through whichever door (api/profiles.rs 101, 204).  *)
PlaintextIsOptedIn ==
    \A p \in ProfileIds : HasRow(p) /\ profiles[p].sealed = Nothing /\ profiles[p].config.secret # "" =>
        writtenBy[p] = Nothing
LaxIsAllowed ==
    \A p \in ProfileIds : HasRow(p) /\ profiles[p].config.noCertCheck => everLax
StoredAsAllowed == PlaintextIsOptedIn /\ LaxIsAllowed

(* With TLS, a shutdown comes to its end whatever its clients hold open    *)
(* and whatever the gateway does (main.rs 171, 224).                       *)
ShutdownCompletes == (stage = "draining" /\ run.tls) ~> (stage = "down")
=============================================================================
