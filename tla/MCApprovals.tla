---------------------------- MODULE MCApprovals ----------------------------
(***************************************************************************)
(* Approvals for TLC: two payments, written so that claim_digest tells     *)
(* them apart, and a ttl that is missing or not positive.                  *)
(***************************************************************************)
EXTENDS Approvals, TLC

CONSTANTS small, large, dSmall, dLarge

MCClaims == {small, large}
MCDigests == {dSmall, dLarge}
MCClaimDigest == (small :> dSmall) @@ (large :> dLarge)
MCTtls == {0, -1}

\* Nothing orders the payments, so they are exchanged with their digests.
Exchange == (small :> large) @@ (large :> small) @@ (dSmall :> dLarge) @@ (dLarge :> dSmall)

MCSymmetry == Permutations(Ids) \cup Permutations(Threads) \cup {Exchange}
=============================================================================
