--------------------------- MODULE MCEgressProxy ---------------------------
(***************************************************************************)
(* EgressProxy for TLC: more connections than permits, one allowed host    *)
(* and one that is not, both modes, a one-chunk send buffer.               *)
(***************************************************************************)
EXTENDS EgressProxy
=============================================================================
