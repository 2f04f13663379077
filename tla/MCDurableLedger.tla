-------------------------- MODULE MCDurableLedger --------------------------
(***************************************************************************)
(* DurableLedger for TLC.  Two handlers, a queue of two slots that the     *)
(* rows and close()'s sentinel compete for, two attempts per row, two      *)
(* boots and one key rotation.                                             *)
(***************************************************************************)
EXTENDS DurableLedger
=============================================================================
