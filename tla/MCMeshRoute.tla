------------------------------ MODULE MCMeshRoute ------------------------------
(***************************************************************************)
(* Instances of MeshRoute for TLC.  The pair is fixed, so only the bounds  *)
(* differ; a queue of one fills with the second edge.                      *)
(***************************************************************************)
EXTENDS MeshRoute
================================================================================
