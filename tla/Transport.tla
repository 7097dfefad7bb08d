------------------------------ MODULE Transport ------------------------------
(* How the management API is served: which configurations the server       *)
(* starts with (AppConfig::validate of config.rs) and what it then listens *)
(* with (main.rs). The paths of the files are abstracted to whether they   *)
(* are set, the address to whether it is one of the loopback interface.    *)
ApiConfigs == [cert : BOOLEAN, key : BOOLEAN, optionalCa : BOOLEAN, requireCa : BOOLEAN,
               loopback : BOOLEAN, allowPlain : BOOLEAN]

TlsEnabled(c) == c.cert /\ c.key

(* validate().                                                             *)
ValidTransport(c) ==
    /\ c.cert <=> c.key
    /\ ~TlsEnabled(c) => /\ ~c.requireCa /\ ~c.optionalCa
                         /\ c.loopback \/ c.allowPlain

(* ClientAuthMode: the strict mode wins when both are set; plain HTTP has  *)
(* no certificates at all.                                                 *)
ClientAuthMode(c) ==
    CASE TlsEnabled(c) /\ c.requireCa -> "required"
      [] TlsEnabled(c) /\ ~c.requireCa /\ c.optionalCa -> "optional"
      [] OTHER -> "none"

(* Settings of transport security that the running server ignores.         *)
Ineffective ==
    {c \in ApiConfigs : ValidTransport(c) /\
        \/ (c.cert \/ c.key) /\ ~TlsEnabled(c)
        \/ c.requireCa /\ ClientAuthMode(c) # "required"
        \/ c.optionalCa /\ ClientAuthMode(c) = "none"
        \/ ~TlsEnabled(c) /\ ~c.loopback /\ ~c.allowPlain}
=============================================================================
