----------------------------- MODULE MCForecast -----------------------------
(***************************************************************************)
(* Instances of Forecast.  An unwired source and one that fails look the   *)
(* same to a fold, so a few deployments are enough.  The payment's folds   *)
(* and the acquired asset's meet in the verdict alone: each side is wired  *)
(* on its own, with the two folds that need no source.                     *)
(***************************************************************************)
EXTENDS Forecast

PaymentSide ==
    FailOpen \cup {"seller_registry", "readiness", "settlement_sim", "auth_sim", "payto",
                   "holder", "aave", "ledger"}

AssetSide ==
    {"settlement_sim", "rwa", "registry", "pyth", "backing", "dex", "holder", "aave",
     "honeypot", "issuer_trust", "rwa_ledger", "ledger"}

MCDeployments == {{}, PaymentSide, AssetSide, AssetSide \ {"pyth"}}

\* At most three facts at a time; a tier is evidence about a gouge.
MCPayments ==
    {F \in {{}} \cup {{a, b, c} : a, b, c \in Facts} : "tier" \in F => "gouge" \in F}

\* As shipped, and with every lock turned on.
MCLockSettings == {{}, Locks}

MCRequests == {{}, {"resource", "payment_authorization"}, {"acquires"}, Fields}

\* Unknown tokens aside: a stock, the same with trading halted, a security that tracks
\* nothing.
MCAssets ==
    {{"symbol", "underlying_symbol", "issuer"}, AssetFields, {"symbol", "issuer"}}
=============================================================================
