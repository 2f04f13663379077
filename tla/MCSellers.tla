----------------------------- MODULE MCSellers ------------------------------
(***************************************************************************)
(* Sellers for TLC: one merchant, one badge, two lines of the revocation    *)
(* file.                                                                   *)
(***************************************************************************)
EXTENDS Sellers

MCRecords == {[clear |-> TRUE, ready |-> 2, dispute |-> 0, peer |-> 0, history |-> 1]}
=============================================================================
