----------------------------- MODULE MCBilling -----------------------------
(***************************************************************************)
(* Billing for TLC: one payment that covers a forecast and one that covers *)
(* a session of two credits, sent over and over by several threads.        *)
(***************************************************************************)
EXTENDS Billing, TLC

MCNonces == {"n1", "n2"}
MCValue == [n \in MCNonces |-> IF n = "n1" THEN 1 ELSE 2]
\* facilitator_sim, which remembers nothing, in one undisturbed run; and the
\* chain, over a network that loses answers and with restarts.
MCWorlds == {[replayProof |-> FALSE, lossy |-> FALSE, restarts |-> FALSE],
             [replayProof |-> TRUE, lossy |-> TRUE, restarts |-> TRUE]}
MCSymmetry == Permutations(Threads)
=============================================================================
