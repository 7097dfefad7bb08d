--------------------------- MODULE MCProvisioner ---------------------------
(* Model checking of Provisioner: what operators may enter, and what the   *)
(* router may hold before the server first talks to it.                    *)
EXTENDS Provisioner

(* A bypass address that setup would enter itself.                         *)
MCEntries == {[path |-> "address-list", kind |-> "vpn-bypass", item |-> "10"]}

Old(path, kind, item) == [path |-> path, kind |-> kind, item |-> item, copy |-> 1]

(* A router with the layout of an older version, a table of our name and a *)
(* rule of the administrator's own, and a corp subnet already entered.     *)
MCExisting == {{ Old("mangle", "legacy", "old"),
                 Old("address-list", "legacy", "old"),
                 Old("table", "foreign", "vpn"), Old("nat", "foreign", "old"),
                 Old("address-list", "vpn-corp", "old") }}
=============================================================================
