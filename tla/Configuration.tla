---------------------------- MODULE Configuration ----------------------------
(***************************************************************************)
(* config.toml of snx-edge-server: loaded at the start, changed through    *)
(* PUT /config (api/config.rs), saved into the document on disk, which     *)
(* keeps what the server does not write (config.rs), and the RouterOS      *)
(* client built from it on first use and dropped when it changes           *)
(* (state.rs). A request runs one await at a time.                         *)
(***************************************************************************)
EXTENDS Transport, FiniteSets

CONSTANTS
    Callers,   \* requests in flight
    Unset,     \* no value
    Torn,      \* a file that does not parse
    Blank      \* one that does, without the sections a start asks for

VARIABLES
    disk,      \* the file
    held,      \* AppState.config; Unset while the server is down
    client,    \* AppState.routeros_client: the setting it was built with
    step,      \* per request: its next await
    acked,     \* history: the configuration last started with or answered "ok" to;
               \* Unset once somebody has edited the file, or a write has stopped
               \* half-way and left a document that parses
    excused    \* history: since the client was last dropped, a save has failed,
               \* a client built before a change has been stored after it, or the
               \* request that was to drop it has been given up

configVars == <<disk, held, client, step, acked, excused>>

(* Of the fields: listen (beyond the loopback interface or not), whether   *)
(* TLS is set up, the opt-in to plain HTTP, and routeros.tls_skip_verify.  *)
Settings == [lan : BOOLEAN, tls : BOOLEAN, allowPlain : BOOLEAN, skipVerify : BOOLEAN]

Transports(s) == [cert |-> s.tls, key |-> s.tls, optionalCa |-> FALSE, requireCa |-> FALSE,
                  loopback |-> ~s.lan, allowPlain |-> s.allowPlain]

Loads(s) == s \in Settings /\ ValidTransport(Transports(s))

ASSUME NoSettingsAssumption ==
    /\ Unset \notin Settings \cup {Torn, Blank} \cup BOOLEAN
    /\ Torn \notin Settings /\ Blank \notin Settings \cup {Torn}

ConfigInit ==
    /\ disk \in {s \in Settings : Loads(s)}
    /\ held = Unset /\ client = Unset /\ acked = Unset
    /\ step = [r \in Callers |-> "idle"]
    /\ excused = FALSE

-----------------------------------------------------------------------------
(* The process. Only one that can be started is: a file that does not load *)
(* ends it before it has done anything.                                    *)

LoadConfig ==
    /\ held = Unset /\ Loads(disk)
    /\ held' = disk /\ acked' = disk
    /\ client' = Unset /\ excused' = FALSE
    /\ UNCHANGED <<disk, step>>

Stopped == held' = Unset /\ step' = [r \in Callers |-> "idle"] /\ UNCHANGED <<client, excused>>

StopServer == held # Unset /\ Stopped /\ UNCHANGED <<disk, acked>>

(* An administrator edits the file, well or not, at any time.              *)
HandEdit(s) ==
    /\ disk' = s
    /\ acked' = Unset
    /\ UNCHANGED <<held, client, step, excused>>

-----------------------------------------------------------------------------
(* Saving.                                                                 *)

(* Mutant: apply_to_document forgets one.                                  *)
SavedFieldsShort == {"tls", "skipVerify"}

(* The fields apply_to_document writes: the two allow_plaintext_* are not  *)
(* among them.                                                             *)
SavedFields == {"lan", "tls", "skipVerify"}

(* The document with the fields of s in place; one that does not parse is  *)
(* written anew, with every field. What a document lacks is off.           *)
Merged(document, s) ==
    IF document = Torn THEN s
    ELSE [f \in DOMAIN s |-> IF f \in SavedFields THEN s[f] ELSE document # Blank /\ document[f]]

(* std::fs::write truncates the file before it writes it: when it stops    *)
(* half-way, what is left of s is without sections a start asks for, or,   *)
(* the order being the server's, without its last one, [security].         *)
Rests(s) == {Torn, Blank, [s EXCEPT !.allowPlain = FALSE]}

(* What a change of the API may be: not TLS, not the opt-in.               *)
Changes == [lan : BOOLEAN, skipVerify : BOOLEAN]
With(s, c) == [s EXCEPT !.lan = c.lan, !.skipVerify = c.skipVerify]

Goes(r, to) == step' = [step EXCEPT ![r] = to]

(* Mutant: an "ok" without dropping the client.                            *)
AfterSaveDone(r, c) == Goes(r, "idle")

(* A request with a [routeros] section, whatever it says, drops the client. *)
AfterSave(r, c) ==
    \/ Goes(r, "invalidate")
    \/ c.skipVerify = held.skipVerify /\ Goes(r, "idle")

(* A write of s stops half-way, or has not begun.                          *)
WriteStops(s) ==
    /\ disk' \in Rests(s) \cup {disk}
    /\ acked' = IF disk' \in {disk, Torn} THEN acked ELSE Unset

(* PUT /config, under the lock: the change is made in memory first, and    *)
(* stays there when the file cannot be written. Nobody validates it: the   *)
(* next start may refuse what is saved.                                    *)
PutConfig(r, c) ==
    LET new == With(held, c)
    IN  /\ held # Unset /\ step[r] = "idle" /\ c # [lan |-> held.lan, skipVerify |-> held.skipVerify]
        /\ held' = new
        /\ \/ /\ disk' = Merged(disk, new)
              /\ acked' = IF acked = Unset THEN Unset ELSE new
              /\ AfterSave(r, c)
              /\ UNCHANGED <<client, excused>>
           \/ /\ WriteStops(Merged(disk, new))
              /\ excused' = TRUE
              /\ UNCHANGED <<client, step>>

(* A crash in the write of one.                                            *)
CrashInSave(c) ==
    /\ held # Unset
    /\ WriteStops(Merged(disk, With(held, c)))
    /\ Stopped

-----------------------------------------------------------------------------
(* The RouterOS client.                                                    *)

InvalidateClient(r) ==
    /\ step[r] = "invalidate"
    /\ client' = Unset /\ excused' = FALSE
    /\ Goes(r, "idle")
    /\ UNCHANGED <<disk, held, acked>>

(* A handler that needs the client and finds none.                         *)
MissClient(r) ==
    /\ held # Unset /\ step[r] = "idle" /\ client = Unset
    /\ Goes(r, "build")
    /\ UNCHANGED <<disk, held, client, acked, excused>>

BuildClient(r) ==
    /\ step[r] = "build"
    /\ Goes(r, IF held.skipVerify THEN "store lax" ELSE "store strict")
    /\ UNCHANGED <<disk, held, client, acked, excused>>

StoreClient(r) ==
    /\ step[r] \in {"store lax", "store strict"}
    /\ client' = (step[r] = "store lax")
    /\ excused' = (excused \/ client' # held.skipVerify)
    /\ Goes(r, "idle")
    /\ UNCHANGED <<disk, held, acked>>

(* The client hangs up: the server drops the request at its next await.    *)
RequestDropped(r) ==
    /\ step[r] # "idle"
    /\ excused' = (excused \/ step[r] = "invalidate")
    /\ Goes(r, "idle")
    /\ UNCHANGED <<disk, held, client, acked>>

-----------------------------------------------------------------------------
ConfigNext ==
    \/ LoadConfig \/ StopServer
    \/ \E c \in Changes : CrashInSave(c)
    \/ \E s \in Settings \cup {Torn, Blank} : HandEdit(s)
    \/ \E r \in Callers :
          \/ \E c \in Changes : PutConfig(r, c)
          \/ InvalidateClient(r) \/ MissClient(r) \/ BuildClient(r) \/ StoreClient(r) \/ RequestDropped(r)

ConfigSpec == ConfigInit /\ [][ConfigNext]_configVars

-----------------------------------------------------------------------------
(* What must hold.                                                         *)

(* What the server has started with or has answered "ok" to is what the    *)
(* file holds for the next start, to load it or to refuse it (PUT does not *)
(* validate it, api/config.rs 136-238), as long as nobody edits the file:  *)
(* the document keeps every field, those that the API cannot change and    *)
(* apply_to_document does not write included (config.rs 283-311). One case *)
(* is left out, recorded in `acked': a write has stopped half-way, by an   *)
(* error or a crash. A file that does not parse is mended by the next save *)
(* that succeeds; into one that does, it saves without the settings that   *)
(* are lost (README, "Known not to hold").                                 *)
AcknowledgedSettingsSurvive == acked # Unset /\ disk # Torn => disk = acked

(* Requests use a client of the settings in force: after a change the old  *)
(* one is dropped before anybody is answered. Three exceptions are         *)
(* recorded in `excused': the save failed (api/config.rs 239), a client    *)
(* built from the settings before was stored after the change (state.rs    *)
(* 180), or the request was dropped where it waits for the lock of the     *)
(* client (api/config.rs 245, state.rs 195), with the change in force.     *)
CachedClientIsCurrent ==
    held # Unset /\ client \notin {Unset, held.skipVerify} /\ ~excused =>
        \E r \in Callers : step[r] = "invalidate"
=============================================================================
