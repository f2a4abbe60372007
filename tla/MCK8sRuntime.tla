---------------------------- MODULE MCK8sRuntime ----------------------------
(* One call for one hat and two for another.                                *)
EXTENDS K8sRuntime, TLC

Both == {"planner", "builder"}
Three == 1 :> "planner" @@ 2 :> "builder" @@ 3 :> "builder"
=============================================================================
