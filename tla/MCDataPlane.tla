---------------------------- MODULE MCDataPlane ----------------------------
(* Model checking of DataPlane: the reconciler on a new router.            *)
EXTENDS DataPlane

(* Of setup, the two routes.                                               *)
RouteSteps == <<SetupSteps[5], SetupSteps[6]>>

NoEntries == {}
NewRouter == {{}}
=============================================================================
