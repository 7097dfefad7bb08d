---------------------------- MODULE MCSupervisor ----------------------------
(* Model checking of Supervisor: API requests and tunnel slots are         *)
(* interchangeable model values, the supervisor is not.                    *)
EXTENDS Supervisor, TLC

Symmetry == Permutations(Api) \cup Permutations(Tunnels) \cup Permutations(Profiles)
=============================================================================
