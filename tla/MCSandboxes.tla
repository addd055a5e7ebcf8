----------------------------- MODULE MCSandboxes ----------------------------
(* A run that provisions a container and executes in it.                   *)
EXTENDS Sandboxes, TLC

CONSTANTS p1, x, q

OneBox == x :> p1
=============================================================================
