----------------------------- MODULE MCAccounts -----------------------------
(* Model checking of Accounts: two admins, one of whom has logged in       *)
(* before, and the tables of Api, Commands, ClientAddress and Transport.   *)
EXTENDS Trust, Commands, TLC

Symmetry == Permutations(Users) \cup Permutations(Tokens) \cup Permutations(Handlers)

(* Addresses of both families, short enough to try all blocks and peers.   *)
FamilyWidths == [v4 |-> 2, v6 |-> 3]

MCInit ==
    /\ Init
    /\ Cardinality(Admins) >= 2
    /\ \A u \in Users : Exists(u) => users[u].enabled
    /\ \A t1, t2 \in Tokens : t1 # t2 /\ issued[t1] # None /\ issued[t2] # None =>
           issued[t1].user # issued[t2].user
    /\ Cardinality(sessions) = Cardinality(Tokens) - 1

(* Before the first request (the tables do not change after): every call   *)
(* of a client finds a route that answers in the form the client reads,    *)
(* the desktop client offers a role nothing its tokens are not good for,   *)
(* and a role that may make the last call of a command of snx-edge-ctl may *)
(* make those before it. Neither side is compiled against the other's      *)
(* paths or against permissions_for_role (api/mod.rs 24, db.rs 727, ctl's  *)
(* main.rs 433, 541, 901).                                                 *)
ContractHolds == calls = 0 => Unserved = {} /\ Refused = {} /\ StopsHalfway = {}

MCSpec == MCInit /\ [][Next]_vars
=============================================================================
