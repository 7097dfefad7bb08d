-------------------------- MODULE MCTunnelManager --------------------------
(* Model checking of TunnelManager: the callers that may hang up, the      *)
(* others and the tunnel slots are each interchangeable model values.      *)
EXTENDS TunnelManager, TLC

Symmetry == Permutations(HangUps) \cup Permutations(Calls \ HangUps)
              \cup Permutations(Tunnels)
=============================================================================
