------------------------- MODULE MCSettlementWatch -------------------------
(***************************************************************************)
(* SettlementWatch for TLC: two receipts, two transfers from one wallet to *)
(* one counterparty, two watchers and two instants.                        *)
(***************************************************************************)
EXTENDS SettlementWatch, TLC

MCSymmetry == Permutations(Rids) \cup Permutations(Watchers)
=============================================================================
