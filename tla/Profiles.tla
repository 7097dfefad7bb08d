------------------------------ MODULE Profiles ------------------------------
(***************************************************************************)
(* VPN profiles at rest: their rows (db.rs), the encryption of their       *)
(* secrets (db_secrets.rs) and the requests that write them                *)
(* (api/profiles.rs), as one running process performs them. An update and  *)
(* an upload of certificates read the row and write it in two database     *)
(* calls. A secret is abstracted to "" (none), the mask "***" of the API,  *)
(* or "s"; both secret fields of a profile are written alike.              *)
(***************************************************************************)
EXTENDS FiniteSets

CONSTANTS
    ProfileIds,  \* uuids: one of a deleted profile is never used again
    Writers,     \* requests in flight
    Keys,        \* encryption keys
    Nothing, Deleted   \* no value; the row of a deleted profile

VARIABLES
    profiles,    \* the table: a row, Nothing or Deleted
    write,       \* per request: the profile and config it will write, or Nothing
    run,         \* the running process: its key and its policy, or Nothing
    everLax,     \* history: a process has allowed no_cert_check
    writtenBy    \* history: the key, or Nothing, of the row's last writer

profileVars == <<profiles, write, run, everLax, writtenBy>>

Secrets == {"", "***", "s"}
Configs == [secret : Secrets, noCertCheck : BOOLEAN]

(* sealed: the key of the {"__enc", "__nonce"} shape, Nothing for a string. *)
Rows == [config : Configs, sealed : Keys \cup {Nothing}]
HasRow(p) == profiles[p] \notin {Nothing, Deleted}

-----------------------------------------------------------------------------
(* Encryption.                                                             *)

(* encrypt_in_place: an empty secret has nothing to seal; without a key    *)
(* everything stays as it is.                                              *)
Encrypted(config) == [config |-> config, sealed |-> IF config.secret = "" THEN Nothing ELSE run.key]

(* decrypt_in_place: a row without the marker needs no key.                *)
Opens(row, key) == row.sealed \in {Nothing, key}

(* Mutant: it is enough that there is a key.                               *)
CanaryOfPresence(key) == key # Nothing \/ \A p \in ProfileIds : HasRow(p) => profiles[p].sealed = Nothing

(* verify_profile_encryption: the key opens every stored profile.          *)
Canary(key) == \A p \in ProfileIds : HasRow(p) => Opens(profiles[p], key)

-----------------------------------------------------------------------------
(* Requests.                                                               *)

(* The gate of create, import and update.                                  *)
Admissible(config) == config.noCertCheck => run.lax

Store(p, config) ==
    /\ profiles' = [profiles EXCEPT ![p] = Encrypted(config)]
    /\ writtenBy' = [writtenBy EXCEPT ![p] = run.key]

(* POST /profiles and /profiles/import.                                    *)
CreateProfile(p, config) ==
    /\ run # Nothing /\ profiles[p] = Nothing /\ Admissible(config)
    /\ Store(p, config)
    /\ UNCHANGED <<write, run, everLax>>

(* What an update writes: a masked secret keeps the current one; if there  *)
(* is none, it is gone or stays masked, as the field is empty or missing.  *)
MergedSecrets(config, current) ==
    IF config.secret # "***" THEN {config}
    ELSE {[config EXCEPT !.secret = s] : s \in IF current.secret = "" THEN {"", "***"}
                                               ELSE {current.secret}}

(* PUT /profiles/{id}, up to its second database call. Without a config    *)
(* (a change of name) the second call takes the row as it finds it.        *)
ReadForUpdate(r, p, config) ==
    /\ run # Nothing /\ write[r] = Nothing
    /\ HasRow(p) /\ Opens(profiles[p], run.key)
    /\ \E final \in MergedSecrets(config, profiles[p].config) :
          /\ Admissible(final)
          /\ write' = [write EXCEPT ![r] = [profile |-> p, config |-> final]]
    /\ UNCHANGED <<profiles, run, everLax, writtenBy>>

Rename(r, p) ==
    /\ run # Nothing /\ write[r] = Nothing
    /\ write' = [write EXCEPT ![r] = [profile |-> p, config |-> Nothing]]
    /\ UNCHANGED <<profiles, run, everLax, writtenBy>>

(* POST /profiles/{id}/certs: the config is written back after the files   *)
(* have been received, without the gate.                                   *)
ReadForUpload(r, p) ==
    /\ run # Nothing /\ write[r] = Nothing
    /\ HasRow(p) /\ Opens(profiles[p], run.key)
    /\ write' = [write EXCEPT ![r] = [profile |-> p, config |-> profiles[p].config]]
    /\ UNCHANGED <<profiles, run, everLax, writtenBy>>

(* Mutant: a change of name leaves an old row in plain text.               *)
UpdateProfileAsIs(r) ==
    /\ write[r] # Nothing
    /\ LET p == write[r].profile
       IN  IF HasRow(p) /\ Opens(profiles[p], run.key)
           THEN IF write[r].config = Nothing
                THEN writtenBy' = [writtenBy EXCEPT ![p] = run.key] /\ UNCHANGED profiles
                ELSE Store(p, write[r].config)
           ELSE UNCHANGED <<profiles, writtenBy>>
    /\ write' = [write EXCEPT ![r] = Nothing]
    /\ UNCHANGED <<run, everLax>>

(* db.update_profile, one transaction: not found, or cannot be opened, or  *)
(* written and encrypted again.                                            *)
UpdateProfile(r) ==
    /\ write[r] # Nothing
    /\ LET p == write[r].profile
       IN  IF HasRow(p) /\ Opens(profiles[p], run.key)
           THEN Store(p, IF write[r].config = Nothing THEN profiles[p].config ELSE write[r].config)
           ELSE UNCHANGED <<profiles, writtenBy>>
    /\ write' = [write EXCEPT ![r] = Nothing]
    /\ UNCHANGED <<run, everLax>>

(* An upload without files, a client that hangs up.                        *)
AbandonWrite(r) ==
    /\ write[r] # Nothing
    /\ write' = [write EXCEPT ![r] = Nothing]
    /\ UNCHANGED <<profiles, run, everLax, writtenBy>>

DeleteProfile(p) ==
    /\ run # Nothing /\ HasRow(p)
    /\ profiles' = [profiles EXCEPT ![p] = Deleted]
    /\ UNCHANGED <<write, run, everLax, writtenBy>>

WriteProfiles ==
    \/ \E p \in ProfileIds, config \in Configs : CreateProfile(p, config)
    \/ \E p \in ProfileIds : DeleteProfile(p)
    \/ \E r \in Writers, p \in ProfileIds :
          \/ \E config \in Configs : ReadForUpdate(r, p, config)
          \/ Rename(r, p) \/ ReadForUpload(r, p)
    \/ \E r \in Writers : UpdateProfile(r) \/ AbandonWrite(r)

=============================================================================
