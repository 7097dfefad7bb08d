------------------------ MODULE ServerProcessProofs ------------------------
(***************************************************************************)
(* Proofs about ServerProcess, for any number of profiles, requests and    *)
(* keys, and any sequence of starts, crashes and shutdowns: while a        *)
(* process serves it can read every row, what is stored is what a policy   *)
(* allowed, and no migration meets a database it has already changed.      *)
(* TLC has ShutdownCompletes.                                              *)
(***************************************************************************)
EXTENDS ServerProcess, TLAPS

Writes == [profile : ProfileIds, config : Configs \cup {Nothing}]
Runs == [key : Keys \cup {Nothing}, lax : BOOLEAN, tls : BOOLEAN]

ProcessTypes ==
    /\ profiles \in [ProfileIds -> Rows \cup {Nothing, Deleted}]
    /\ write \in [Writers -> Writes \cup {Nothing}]
    /\ stage # "down" => run \in Runs
    /\ stage \in {"down", "migrating"} => \A r \in Writers : write[r] = Nothing
    /\ writtenBy \in [ProfileIds -> Keys \cup {Nothing}]
    /\ everLax \in BOOLEAN
    /\ version \in 0..Latest

(* From the canary on, the key of the process opens every row.             *)
KeyOpensAll ==
    stage \notin {"down", "migrating"} =>
        \A p \in ProfileIds : HasRow(p) => Opens(profiles[p], run.key)

(* A policy that has been in force is remembered, and what a request will  *)
(* write was allowed by one.                                               *)
LaxIsRemembered ==
    /\ stage # "down" => (run.lax => everLax)
    /\ \A r \in Writers : write[r] # Nothing /\ write[r].config # Nothing =>
           (write[r].config.noCertCheck => everLax)

(* Only what may be run twice can be in the database before its turn.      *)
StatementsInOrder == ddl \subseteq 1..version \cup Repeatable

Inv == /\ ProcessTypes /\ KeyOpensAll /\ LaxIsRemembered /\ StatementsInOrder
       /\ PlaintextIsOptedIn /\ LaxIsAllowed

LEMMA InitHolds == ProcessInit => Inv
<1> SUFFICES ASSUME ProcessInit PROVE Inv
  OBVIOUS
<1>1. /\ profiles = [p \in ProfileIds |-> Nothing] /\ write = [r \in Writers |-> Nothing]
      /\ writtenBy = [p \in ProfileIds |-> Nothing] /\ everLax = FALSE /\ stage = "down"
      /\ version = 0 /\ ddl \in {{}, {1}}
  BY DEF ProcessInit
<1>2. ProcessTypes
  <2>1. profiles \in [ProfileIds -> Rows \cup {Nothing, Deleted}]
    BY <1>1
  <2>2. write \in [Writers -> Writes \cup {Nothing}] /\ \A r \in Writers : write[r] = Nothing
    BY <1>1
  <2>3. writtenBy \in [ProfileIds -> Keys \cup {Nothing}]
    BY <1>1
  <2>4. version \in 0..Latest
    BY <1>1 DEF Latest
  <2> QED
    BY <1>1, <2>1, <2>2, <2>3, <2>4 DEF ProcessTypes
<1>3. KeyOpensAll /\ LaxIsRemembered /\ StatementsInOrder
  BY <1>1 DEF KeyOpensAll, LaxIsRemembered, StatementsInOrder, Repeatable
<1>4. PlaintextIsOptedIn /\ LaxIsAllowed
  BY <1>1 DEF PlaintextIsOptedIn, LaxIsAllowed, HasRow
<1> QED
  BY <1>2, <1>3, <1>4 DEF Inv

-----------------------------------------------------------------------------
(* Requests.                                                               *)

(* What is stored is sealed with the key of the process, or has nothing to *)
(* seal.                                                                   *)
LEMMA StoreKeeps ==
    ASSUME Inv, stage \in Running, NEW p \in ProfileIds, NEW config \in Configs, Store(p, config),
           config.noCertCheck => everLax,
           write' \in [Writers -> Writes \cup {Nothing}],
           \A r \in Writers : write'[r] \in {write[r], Nothing},
           UNCHANGED <<run, everLax, stage, ddl, version>>
    PROVE  Inv'
<1>0. PICK row : row = Encrypted(config)
  OBVIOUS
<1>1. run \in Runs /\ stage \notin {"down", "migrating"}
  BY DEF Inv, ProcessTypes, Running
<1>2. /\ row \in Rows /\ Opens(row, run.key) /\ row.config = config
      /\ row.sealed = Nothing /\ config.secret # "" => run.key = Nothing
  BY <1>0, <1>1 DEF Encrypted, Rows, Opens, Runs
<1>3. /\ profiles' = [profiles EXCEPT ![p] = row]
      /\ writtenBy' = [writtenBy EXCEPT ![p] = run.key]
      /\ run.key \in Keys \cup {Nothing}
  BY <1>0, <1>1 DEF Store, Runs
<1>4. ProcessTypes'
  BY <1>1, <1>2, <1>3 DEF Inv, ProcessTypes
<1>5. KeyOpensAll'
  BY <1>1, <1>2, <1>3 DEF Inv, ProcessTypes, KeyOpensAll, HasRow, Opens
<1>6. LaxIsRemembered' /\ StatementsInOrder'
  BY DEF Inv, LaxIsRemembered, StatementsInOrder
<1>7. PlaintextIsOptedIn' /\ LaxIsAllowed'
  BY <1>2, <1>3 DEF Inv, ProcessTypes, PlaintextIsOptedIn, LaxIsAllowed, HasRow
<1> QED
  BY <1>4, <1>5, <1>6, <1>7 DEF Inv

LEMMA NoteKeeps ==
    ASSUME Inv, stage \in Running, NEW r \in Writers, NEW p \in ProfileIds,
           NEW config \in Configs \cup {Nothing},
           config # Nothing => (config.noCertCheck => everLax),
           write' = [write EXCEPT ![r] = [profile |-> p, config |-> config]],
           UNCHANGED <<profiles, run, everLax, writtenBy, stage, ddl, version>>
    PROVE  Inv'
<1>0. stage \notin {"down", "migrating"}
  BY DEF Running
<1>1. PICK w : w = [profile |-> p, config |-> config]
  OBVIOUS
<1>2. w \in Writes /\ w.config = config /\ write' = [write EXCEPT ![r] = w]
  BY <1>1 DEF Writes
<1>3. ProcessTypes'
  BY <1>0, <1>2 DEF Inv, ProcessTypes
<1>4. LaxIsRemembered'
  BY <1>2 DEF Inv, ProcessTypes, LaxIsRemembered
<1>5. KeyOpensAll' /\ StatementsInOrder' /\ PlaintextIsOptedIn' /\ LaxIsAllowed'
  BY DEF Inv, KeyOpensAll, StatementsInOrder, PlaintextIsOptedIn, LaxIsAllowed, HasRow, Opens
<1> QED
  BY <1>3, <1>4, <1>5 DEF Inv

LEMMA MergedIsConfig ==
    ASSUME NEW config \in Configs, NEW current \in Configs,
           NEW final \in MergedSecrets(config, current)
    PROVE  final \in Configs
BY DEF MergedSecrets, Configs, Secrets

LEMMA ServeKeeps ==
    ASSUME Inv, Serve
    PROVE  Inv'
<1>0. /\ stage \in Running /\ WriteProfiles /\ UNCHANGED <<stage, ddl, version>>
      /\ run \in Runs /\ (run.lax => everLax) /\ stage \notin {"down", "migrating"}
      /\ profiles \in [ProfileIds -> Rows \cup {Nothing, Deleted}]
      /\ write \in [Writers -> Writes \cup {Nothing}]
  BY DEF Serve, Inv, ProcessTypes, LaxIsRemembered, Running
<1>1. ASSUME NEW p \in ProfileIds, NEW config \in Configs, CreateProfile(p, config) PROVE Inv'
  <2>1. Store(p, config) /\ UNCHANGED <<write, run, everLax>> /\ (config.noCertCheck => everLax)
    BY <1>0, <1>1 DEF CreateProfile, Admissible
  <2> QED
    BY <1>0, <2>1, StoreKeeps
<1>2. ASSUME NEW p \in ProfileIds, DeleteProfile(p) PROVE Inv'
  <2>1. profiles' = [profiles EXCEPT ![p] = Deleted] /\ UNCHANGED <<write, run, everLax, writtenBy>>
    BY <1>2 DEF DeleteProfile
  <2>2. ProcessTypes'
    BY <1>0, <2>1 DEF Inv, ProcessTypes
  <2>3. KeyOpensAll' /\ PlaintextIsOptedIn' /\ LaxIsAllowed'
    BY <1>0, <2>1 DEF Inv, KeyOpensAll, PlaintextIsOptedIn, LaxIsAllowed, HasRow, Opens
  <2>4. LaxIsRemembered' /\ StatementsInOrder'
    BY <1>0, <2>1 DEF Inv, LaxIsRemembered, StatementsInOrder
  <2> QED
    BY <2>2, <2>3, <2>4 DEF Inv
<1>3. ASSUME NEW p \in ProfileIds, HasRow(p)
      PROVE  /\ profiles[p] \in Rows /\ profiles[p].config \in Configs
             /\ profiles[p].config.noCertCheck => everLax
  BY <1>0, <1>3 DEF HasRow, Rows, Inv, LaxIsAllowed
<1>4. ASSUME NEW r \in Writers, NEW p \in ProfileIds, NEW config \in Configs,
             ReadForUpdate(r, p, config)
      PROVE  Inv'
  <2>1. PICK final \in MergedSecrets(config, profiles[p].config) :
          /\ Admissible(final)
          /\ write' = [write EXCEPT ![r] = [profile |-> p, config |-> final]]
    BY <1>4 DEF ReadForUpdate
  <2>2. HasRow(p) /\ UNCHANGED <<profiles, run, everLax, writtenBy>>
    BY <1>4 DEF ReadForUpdate
  <2>3. final \in Configs
    BY <1>3, <2>1, <2>2, MergedIsConfig
  <2>4. final.noCertCheck => everLax
    BY <1>0, <2>1 DEF Admissible
  <2> QED
    BY <1>0, <2>1, <2>2, <2>3, <2>4, NoteKeeps
<1>5. ASSUME NEW r \in Writers, NEW p \in ProfileIds, Rename(r, p) PROVE Inv'
  BY <1>0, <1>5, NoteKeeps DEF Rename
<1>6. ASSUME NEW r \in Writers, NEW p \in ProfileIds, ReadForUpload(r, p) PROVE Inv'
  <2>1. PICK config : config = profiles[p].config
    OBVIOUS
  <2>2. /\ HasRow(p) /\ UNCHANGED <<profiles, run, everLax, writtenBy>>
        /\ write' = [write EXCEPT ![r] = [profile |-> p, config |-> config]]
    BY <1>6, <2>1 DEF ReadForUpload
  <2> QED
    BY <1>0, <1>3, <2>1, <2>2, NoteKeeps
<1>7. ASSUME NEW r \in Writers, write' = [write EXCEPT ![r] = Nothing],
             UNCHANGED <<profiles, run, everLax, writtenBy>>
      PROVE  Inv'
  <2>1. ProcessTypes' /\ LaxIsRemembered'
    BY <1>0, <1>7 DEF Inv, ProcessTypes, LaxIsRemembered
  <2>2. KeyOpensAll' /\ StatementsInOrder' /\ PlaintextIsOptedIn' /\ LaxIsAllowed'
    BY <1>0, <1>7 DEF Inv, KeyOpensAll, StatementsInOrder, PlaintextIsOptedIn, LaxIsAllowed,
       HasRow, Opens
  <2> QED
    BY <2>1, <2>2 DEF Inv
<1>8. ASSUME NEW r \in Writers, UpdateProfile(r) PROVE Inv'
  <2>1. PICK p : p = write[r].profile
    OBVIOUS
  <2>2. /\ write[r] \in Writes /\ p \in ProfileIds
        /\ write' = [write EXCEPT ![r] = Nothing] /\ UNCHANGED <<run, everLax>>
    BY <1>0, <1>8, <2>1 DEF UpdateProfile, Writes
  <2>3. CASE UNCHANGED <<profiles, writtenBy>>
    BY <1>7, <2>2, <2>3
  <2>4. CASE /\ HasRow(p)
             /\ Store(p, IF write[r].config = Nothing THEN profiles[p].config ELSE write[r].config)
    <3>1. PICK config :
            config = IF write[r].config = Nothing THEN profiles[p].config ELSE write[r].config
      OBVIOUS
    <3>2. Store(p, config)
      BY <2>4, <3>1
    <3>3. config \in Configs
      BY <1>3, <2>2, <2>4, <3>1 DEF Writes
    <3>4. config.noCertCheck => everLax
      BY <1>3, <1>8, <2>2, <2>4, <3>1 DEF UpdateProfile, Inv, LaxIsRemembered
    <3>5. /\ write' \in [Writers -> Writes \cup {Nothing}]
          /\ \A q \in Writers : write'[q] \in {write[q], Nothing}
      BY <1>0, <2>2
    <3> QED
      BY <1>0, <2>2, <3>2, <3>3, <3>4, <3>5, StoreKeeps
  <2> QED
    BY <1>8, <2>1, <2>3, <2>4 DEF UpdateProfile
<1>9. ASSUME NEW r \in Writers, AbandonWrite(r) PROVE Inv'
  BY <1>7, <1>9 DEF AbandonWrite
<1> QED
  BY <1>0, <1>1, <1>2, <1>4, <1>5, <1>6, <1>8, <1>9 DEF WriteProfiles

-----------------------------------------------------------------------------
(* The life of the process.                                                *)

LEMMA ExitKeeps ==
    ASSUME Inv, Exit
    PROVE  Inv'
<1>1. ProcessTypes' /\ LaxIsRemembered'
  BY DEF Inv, Exit, To, ProcessTypes, LaxIsRemembered
<1>2. KeyOpensAll' /\ StatementsInOrder' /\ PlaintextIsOptedIn' /\ LaxIsAllowed'
  BY DEF Inv, Exit, To, KeyOpensAll, StatementsInOrder, PlaintextIsOptedIn, LaxIsAllowed, HasRow
<1> QED
  BY <1>1, <1>2 DEF Inv

LEMMA StartKeeps ==
    ASSUME Inv, NEW key \in Keys \cup {Nothing}, NEW plaintext \in BOOLEAN,
           NEW lax \in BOOLEAN, NEW tls \in BOOLEAN, StartServer(key, plaintext, lax, tls)
    PROVE  Inv'
<1>1. PICK new : new = [key |-> key, lax |-> lax, tls |-> tls]
  OBVIOUS
<1>2. new \in Runs /\ new.lax = lax
  BY <1>1 DEF Runs
<1>3. /\ stage = "down" /\ stage' = "migrating" /\ run' = new /\ everLax' = (everLax \/ lax)
      /\ UNCHANGED <<profiles, write, writtenBy, ddl, version>>
  BY <1>1 DEF StartServer, To
<1>4. ProcessTypes' /\ LaxIsRemembered'
  BY <1>2, <1>3 DEF Inv, ProcessTypes, LaxIsRemembered
<1>5. KeyOpensAll' /\ StatementsInOrder' /\ PlaintextIsOptedIn' /\ LaxIsAllowed'
  BY <1>3 DEF Inv, ProcessTypes, KeyOpensAll, StatementsInOrder, PlaintextIsOptedIn,
     LaxIsAllowed, HasRow
<1> QED
  BY <1>4, <1>5 DEF Inv

LEMMA MigrateKeeps ==
    ASSUME Inv, NEW m \in 1..Latest, Migrate(m)
    PROVE  Inv'
<1>1. /\ version = m - 1 /\ version' = m /\ ddl' = ddl \cup {m}
      /\ UNCHANGED <<profileVars, stage>>
  BY DEF Migrate
<1>2. StatementsInOrder'
  BY <1>1 DEF Inv, StatementsInOrder, Repeatable, Latest
<1>3. ProcessTypes' /\ LaxIsRemembered'
  BY <1>1 DEF Inv, ProcessTypes, LaxIsRemembered, profileVars
<1>4. KeyOpensAll' /\ PlaintextIsOptedIn' /\ LaxIsAllowed'
  BY <1>1 DEF Inv, KeyOpensAll, PlaintextIsOptedIn, LaxIsAllowed, HasRow, Opens, profileVars
<1> QED
  BY <1>2, <1>3, <1>4 DEF Inv

(* Between the canary and the exit nothing but requests touches the rows.  *)
LEMMA AdvanceKeeps ==
    ASSUME Inv, UNCHANGED <<profiles, run, everLax, writtenBy, ddl, version>>,
           write' \in [Writers -> Writes \cup {Nothing}],
           \A r \in Writers : write'[r] \in {write[r], Nothing},
           \/ stage' = stage
           \/ stage \notin {"down", "migrating"} /\ stage' \notin {"down", "migrating"}
    PROVE  Inv'
<1>1. ProcessTypes' /\ LaxIsRemembered'
  BY DEF Inv, ProcessTypes, LaxIsRemembered
<1>2. KeyOpensAll' /\ StatementsInOrder' /\ PlaintextIsOptedIn' /\ LaxIsAllowed'
  BY DEF Inv, KeyOpensAll, StatementsInOrder, PlaintextIsOptedIn, LaxIsAllowed, HasRow, Opens
<1> QED
  BY <1>1, <1>2 DEF Inv

LEMMA VerifyKeeps ==
    ASSUME Inv, Verify
    PROVE  Inv'
<1>1. CASE Exit
  BY <1>1, ExitKeeps
<1>2. CASE /\ Canary(run.key) /\ To("admin")
           /\ UNCHANGED <<profileVars, ddl, version, admins, open>>
  <2>1. /\ stage = "migrating" /\ stage' = "admin"
        /\ UNCHANGED <<profiles, write, run, everLax, writtenBy, ddl, version>>
    BY <1>2 DEF Verify, To, profileVars
  <2>2. ProcessTypes' /\ LaxIsRemembered'
    BY <2>1 DEF Inv, ProcessTypes, LaxIsRemembered
  <2>3. KeyOpensAll'
    BY <1>2, <2>1 DEF KeyOpensAll, Canary, HasRow, Opens
  <2>4. StatementsInOrder' /\ PlaintextIsOptedIn' /\ LaxIsAllowed'
    BY <2>1 DEF Inv, StatementsInOrder, PlaintextIsOptedIn, LaxIsAllowed, HasRow
  <2> QED
    BY <2>2, <2>3, <2>4 DEF Inv
<1> QED
  BY <1>1, <1>2 DEF Verify

LEMMA StepKeeps == Inv /\ [ProcessNext]_processVars => Inv'
<1> SUFFICES ASSUME Inv, [ProcessNext]_processVars PROVE Inv'
  OBVIOUS
<1>0. write \in [Writers -> Writes \cup {Nothing}]
  BY DEF Inv, ProcessTypes
<1>1. ASSUME NEW password \in BOOLEAN, EnsureAdmin(password) PROVE Inv'
  <2>1. CASE Exit
    BY <2>1, ExitKeeps
  <2>2. CASE To("serving") /\ UNCHANGED <<profileVars, ddl, version, open>>
    <3>1. /\ stage = "admin" /\ stage' = "serving"
          /\ UNCHANGED <<profiles, write, run, everLax, writtenBy, ddl, version>>
      BY <1>1, <2>2 DEF EnsureAdmin, To, profileVars
    <3> QED
      BY <1>0, <3>1, AdvanceKeeps
  <2> QED
    BY <1>1, <2>1, <2>2 DEF EnsureAdmin
<1>2. CASE BindFails \/ Crash \/ CleanedUp
  BY <1>2, ExitKeeps DEF BindFails, Crash, CleanedUp
<1>3. CASE Drained
  <2>1. /\ stage = "draining" /\ stage' = "disconnecting" /\ write' = [r \in Writers |-> Nothing]
        /\ UNCHANGED <<profiles, run, everLax, writtenBy, ddl, version>>
    BY <1>3 DEF Drained, To
  <2> QED
    BY <2>1, AdvanceKeeps
<1>4. CASE \/ Signal \/ Disconnected \/ Wait \/ UNCHANGED processVars
           \/ \E s \in Streams : OpenStream(s) \/ CloseStream(s)
  <2>1. /\ UNCHANGED <<profiles, write, run, everLax, writtenBy, ddl, version>>
        /\ \/ stage' = stage
           \/ stage \notin {"down", "migrating"} /\ stage' \notin {"down", "migrating"}
    BY <1>4 DEF Signal, Disconnected, Wait, OpenStream, CloseStream, To, processVars, profileVars
  <2> QED
    BY <1>0, <2>1, AdvanceKeeps
<1> QED
  BY <1>1, <1>2, <1>3, <1>4, StartKeeps, MigrateKeeps, VerifyKeeps, ServeKeeps DEF ProcessNext

-----------------------------------------------------------------------------
(* While requests are served, every stored secret opens with the key of    *)
(* the process (db.rs verify_profile_encryption): the canary lets no other *)
(* key past, and what is written later is sealed with that one or with     *)
(* none.                                                                   *)
THEOREM RowsStayReadable == ProcessSpec => []ReadableWhileServing
<1>1. Inv => ReadableWhileServing
  BY DEF Inv, KeyOpensAll, ReadableWhileServing, Running
<1> QED
  BY <1>1, InitHolds, StepKeeps, PTL DEF ProcessSpec

(* What lies in the database is what a policy has allowed (state.rs 93,    *)
(* api/profiles.rs 101, 204), whatever starts without a key or with laxer  *)
(* opt-ins lie before and after.                                           *)
THEOREM PolicyIsKept == ProcessSpec => []StoredAsAllowed
<1>1. Inv => StoredAsAllowed
  BY DEF Inv, StoredAsAllowed
<1> QED
  BY <1>1, InitHolds, StepKeeps, PTL DEF ProcessSpec

(* A migration that cannot be repeated never meets its own traces, after   *)
(* any crashes (db.rs apply_migrations).                                   *)
THEOREM MigrationsAreNotRepeated == ProcessSpec => []MigrationsRunOnce
<1>1. Inv => MigrationsRunOnce
  BY DEF Inv, ProcessTypes, StatementsInOrder, MigrationsRunOnce, Repeatable, Latest
<1> QED
  BY <1>1, InitHolds, StepKeeps, PTL DEF ProcessSpec
=============================================================================
