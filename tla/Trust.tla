------------------------------- MODULE Trust -------------------------------
(* Whom the server trusts, of the accounts' requests: the peers whose word *)
(* on a client's address counts, and the clients its configuration admits. *)
EXTENDS Accounts, ClientAddress, Transport

(* Whom a configuration trusts is whom the server trusts: no session is    *)
(* recorded under an address its client made up, the headers counting only *)
(* for a peer in a trusted block (api/auth.rs 398, 449), and what a valid  *)
(* configuration says of transport security is in force (config.rs         *)
(* validate, main.rs 112-135). The tables do not change after the first    *)
(* request.                                                                *)
TrustIsAsConfigured == calls = 0 => Misrecorded = {} /\ Ineffective = {}
=============================================================================
