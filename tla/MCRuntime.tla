------------------------------ MODULE MCRuntime ------------------------------
(***************************************************************************)
(* Runtime for TLC: the environments a deployment may have, the transfers   *)
(* and the transactions.                                                    *)
(***************************************************************************)
EXTENDS Runtime

Flags ==
    SUBSET {"ledger", "kv_url", "kv_token", "kv_key", "kv_unusable"}
    \cup SUBSET {"seed", "native", "public", "allow_slow", "sellers", "revocations"}
    \cup {{"seed_bad"}, {"seed_bad", "public"}, {"bad_inflight"}}
    \cup SUBSET {"rwa", "evm_rpc", "stocks", "pyth", "dex", "honeypot"}
    \cup SUBSET {"sim", "evm_rpc", "base_rpc", "rpc_node"}
    \cup SUBSET {"rwa_ledger", "evm_rpc", "solana_rpc", "aave", "rwa"}
    \cup SUBSET {"sanctions", "refresh", "store", "readiness", "readiness_local"}
    \cup SUBSET {"pay_to", "value_pricing", "bad_number", "cdp_id", "cdp_secret", "facilitator"}
    \cup SUBSET {"hold_above", "category", "divergence", "rate_limit"}
    \cup {{"enrich", "holder", "anchor", "secret"}}

\* A transaction that pays two payers' shares at once, and a lookalike token.
MCTransfers == {[tx |-> 1, payer |-> "a", usdc |-> TRUE], [tx |-> 1, payer |-> "b", usdc |-> TRUE],
                [tx |-> 2, payer |-> "a", usdc |-> FALSE]}

Changes == {[delta |-> 1, fell |-> {"a"}, payer |-> "a"], [delta |-> 1, fell |-> {"a", "b"}, payer |-> "b"],
            [delta |-> 0, fell |-> {"b"}, payer |-> "b"]}
=============================================================================
