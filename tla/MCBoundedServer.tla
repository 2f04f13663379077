-------------------------- MODULE MCBoundedServer --------------------------
(***************************************************************************)
(* BoundedServer for TLC: four connections, two of them health checks, one *)
(* permit, two refusal threads and one exempt slot.                        *)
(***************************************************************************)
EXTENDS BoundedServer
=============================================================================
