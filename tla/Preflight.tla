------------------------------ MODULE Preflight ------------------------------
(***************************************************************************)
(* billing_preflight.py and the half of x402.py that prices a call and     *)
(* writes its 402: an operator asks "what happens if I flip billing on?",  *)
(* reads the exit code, deploys with the same environment, and a client    *)
(* then calls, reads the 402 and pays it.                                  *)
(*                                                                         *)
(* The two probes of the facilitator are two requests, and the facilitator *)
(* may change before, between and after them.  Amounts are atomic units;   *)
(* the knobs are whole numbers of them, Bad stands for a setting the       *)
(* constructor refuses.                                                    *)
(***************************************************************************)
EXTENDS Integers, Sequences, FiniteSets, SequencesExt, FiniteSetsExt

CONSTANTS Configs,      \* the environments: [payTo, network, asset, price, flag, knobs, url, cdp, offline, cost]
          Worlds,       \* facilitators: [up, readable, listed, versions, creds, scope]
          Corpus,       \* the committed corpus: [payee, lo, hi]
          Asked,        \* what clients send: [amount, resource]
          Base,         \* basis points in one
          DefaultRatio, \* the 100 bps flat pricing is measured against
          CdpCost       \* CDP_SETTLEMENT_COST

VARIABLES phase, cfg, world,
          checks,   \* name of a check to its status
          stable,   \* the facilitator has not changed since the first probe
          quote,    \* the 402 the client read, NoQuote before
          outcome   \* of the client's call

vars == <<phase, cfg, world, checks, stable, quote, outcome>>

Bad == 0 - 1
NoAmount == 0 - 2
NoCost == 0 - 3
NoQuote == [amount |-> 0, payTo |-> "none", network |-> "none", asset |-> "none", origin |-> "none", path |-> <<>>, asked |-> 0]

Ok == 0
Note == 1
Warn == 2
Fail == 3

-----------------------------------------------------------------------------
(* x402: prices and challenges.                                            *)

RoundHalfUp(n, d) == (2 * n + d) \div (2 * d)

FeeUnbounded(k, a) ==
    CASE a <= 0             -> k.min
      [] a > 0 /\ a <= k.free -> 0
      [] OTHER              -> LET raw == a * k.bps
                               IN  CASE raw < k.min * Base -> k.min
                                     [] raw >= k.min * Base /\ raw > k.max * Base -> k.max
                                     [] OTHER -> RoundHalfUp(raw, Base)

\* PricingPolicy.fee_atomic: free when the rounded fee is out of proportion.
Fee(k, a) ==
    LET fee == FeeUnbounded(k, a)
    IN  IF a > 0 /\ k.ratio > 0 /\ fee * Base > a * k.ratio THEN 0 ELSE fee

PolicyOk(k) == \A knob \in DOMAIN k : k[knob] >= 0

ConfigOk(c) == c.payTo = "good" /\ c.price > 0

PriceFor(c, value, a) == IF value THEN Fee(c.knobs, a) ELSE c.price

Pop(segments) == IF segments = <<>> THEN segments ELSE Front(segments)

Descend(path, seg) ==
    CASE seg \in {"", "."} -> path
      [] seg = ".."        -> Pop(path)
      [] OTHER             -> Append(path, seg)

Normalize(segments) ==
    LET path[k \in 0..Len(segments)] == IF k = 0 THEN <<>> ELSE Descend(path[k - 1], segments[k])
    IN  path[Len(segments)]

\* "%2f.." stands for a segment that hides two: decoded before the path is split.
Parts(seg) == IF seg = "x%2f.." THEN <<"x", "..">> ELSE <<seg>>

Decoded(segments) ==
    LET path[k \in 0..Len(segments)] == IF k = 0 THEN <<>> ELSE path[k - 1] \o Parts(segments[k])
    IN  path[Len(segments)]

\* The path is the request's; its scheme and host are dropped.
CanonicalPath(resource) == Normalize(Decoded(resource.path))

AssetOf(c) ==
    CASE c.asset # "none"            -> c.asset
      [] c.network = "base-sepolia"  -> "sepolia_usdc"
      [] OTHER                       -> "usdc"

\* make_402_body over build_requirements, for the call that asked for `resource`.
Challenge(c, price, ask) ==
    [amount |-> price, payTo |-> c.payTo, network |-> c.network, asset |-> AssetOf(c),
     origin |-> "ours", path |-> CanonicalPath(ask.resource), asked |-> ask.amount]

-----------------------------------------------------------------------------
(* The checks of the configuration.                                        *)

\* The truth of any set value is true for the preflight; the server asks for 1, true, yes or on.
PreflightValue(c) == c.flag # "unset"
ServerValue(c) == c.flag = "1"

CheckPayee(c) == IF c.payTo = "good" THEN Ok ELSE Fail

Namespace(network) ==
    CASE network \in {"base", "base-sepolia"} -> "eip155"
      [] network = "svm:1"                    -> "svm"
      [] OTHER                                -> "none"

IsEvmAsset(asset) == asset # "mint"

CheckNetwork(c) ==
    CASE Namespace(c.network) = "none" -> Fail
      [] Namespace(c.network) = "eip155" /\ ~ IsEvmAsset(AssetOf(c)) -> Fail
      [] Namespace(c.network) = "svm" /\ IsEvmAsset(AssetOf(c)) -> Fail
      [] OTHER -> Ok

CheckAsset(c) ==
    CASE AssetOf(c) \in {"euro", "odd"} -> Fail   \* not a dollar; no known decimals
      [] AssetOf(c) = "dai"             -> Warn   \* eighteen decimals, billed at six
      [] OTHER                          -> Ok

CheckPricing(c) ==
    CASE ~ PreflightValue(c) -> IF c.price > 0 THEN Ok ELSE Fail
      [] PreflightValue(c)   -> IF PolicyOk(c.knobs) THEN Ok ELSE Fail

CheckSelfReportedAmount(c) == IF PreflightValue(c) THEN Note ELSE Ok

\* Probed well above the free threshold; the 402 is read back and compared with
\* what is configured.
CheckChallenge(c) ==
    LET amount == IF PreflightValue(c) THEN c.knobs.free * 1000 ELSE NoAmount
        price  == PriceFor(c, PreflightValue(c), amount)
        read   == Challenge(c, price, [amount |-> amount, resource |-> [origin |-> "theirs", path |-> <<"v1">>]])
    IN  CASE price <= 0 -> Warn
          [] price > 0 /\ read.payTo = c.payTo /\ read.asset = AssetOf(c) /\ read.amount = price -> Ok
          [] OTHER -> Fail

CorpusFee(c, a) == PriceFor(c, PreflightValue(c), a)

Billable(c, side) == {p \in Corpus : CorpusFee(c, p[side]) > 0}

CheckRevenue(c) ==
    CASE Corpus = {}                                          -> Warn
      [] Corpus # {} /\ Billable(c, "hi") = {}                -> Fail
      [] 4 * Cardinality(Billable(c, "hi")) < Cardinality(Corpus) -> Warn
      [] OTHER                                                -> Ok

CheckProportionality(c) ==
    LET bound     == IF PreflightValue(c) THEN c.knobs.ratio ELSE DefaultRatio
        low       == {p \in Corpus : p.lo > 0}
        high      == {p \in Corpus : p.hi > 0}
        within    == {p \in low : CorpusFee(c, p.lo) * Base <= p.lo * bound}
        unpayable == {p \in high : CorpusFee(c, p.hi) >= p.hi}
    IN  CASE low = {} \/ high = {}                             -> Warn
          [] low # {} /\ 2 * Cardinality(unpayable) > Cardinality(high) -> Fail
          [] Cardinality(within) <= Cardinality(low) \div 2    -> Warn   \* the median is over the bound
          [] OTHER                                             -> Ok

\* The operator's own figure first; else what is on file for the facilitator in use.
SettlementCostFor(c) ==
    CASE c.cost # NoCost -> c.cost
      [] c.cost = NoCost /\ c.cdp = "both" -> CdpCost
      [] OTHER -> NoCost

CheckSettlementCost(c) ==
    CASE Corpus = {} -> Warn
      [] Corpus # {} /\ SettlementCostFor(c) = NoCost -> Note
      [] \E p \in Billable(c, "lo") : CorpusFee(c, p.lo) < SettlementCostFor(c) -> Warn
      [] OTHER -> Ok

\* A report and the results of further checks.
Add(report, results) ==
    [n \in DOMAIN report \cup DOMAIN results |-> IF n \in DOMAIN results THEN results[n] ELSE report[n]]

LocalChecks(c) ==
    LET settings == [network |-> CheckNetwork(c), asset |-> CheckAsset(c), pricing |-> CheckPricing(c),
                     self |-> CheckSelfReportedAmount(c), payee |-> CheckPayee(c)]
    IN  IF CheckPricing(c) = Fail THEN settings
        ELSE Add(settings, [challenge |-> CheckChallenge(c), revenue |-> CheckRevenue(c),
                            proportionality |-> CheckProportionality(c), cost |-> CheckSettlementCost(c)])

-----------------------------------------------------------------------------
(* The facilitator.                                                        *)

\* _grade_kinds: a stated version that is not ours is as bad as an unlisted network.
GradeKinds(w) ==
    CASE ~ w.readable -> Warn
      [] w.readable /\ w.listed -> IF w.versions = {} \/ 2 \in w.versions THEN Ok ELSE Fail
      [] OTHER -> Fail

CheckFacilitator(c, w) ==
    CASE c.cdp = "half" -> Fail
      [] c.cdp = "both" -> IF w.up /\ ~ w.creds THEN Fail
                           ELSE IF ~ w.up THEN Warn
                           ELSE IF c.url = "other" /\ GradeKinds(w) = Ok THEN Warn  \* the url is ignored
                           ELSE GradeKinds(w)
      [] c.cdp = "none" -> IF c.url = "none" \/ ~ w.up THEN Warn ELSE GradeKinds(w)

CheckSettlementAuth(c, w) ==
    CASE c.cdp # "both" -> Note
      [] c.cdp = "both" -> IF ~ w.up THEN Warn ELSE IF w.creds /\ w.scope THEN Ok ELSE Fail

\* What a facilitator in state w does with a payment that answers our 402.
Settles(c, w) ==
    /\ w.up /\ w.listed /\ (w.versions = {} \/ 2 \in w.versions)
    /\ c.cdp = "both" => w.creds /\ w.scope
    /\ CheckNetwork(c) = Ok

-----------------------------------------------------------------------------
(* The preflight.                                                          *)

Status == Max(Range(checks))
Exit == CASE Status \in {Ok, Note} -> 0
          [] Status = Warn         -> 1
          [] Status = Fail         -> 2

\* Value pricing does not look at the flat price, which the config then refuses: the
\* preflight ends in a traceback, whose exit code is that of a warning.
Traceback == [traceback |-> Warn]

CheckConfig ==
    /\ phase = "start"
    /\ \/ /\ CheckPayee(cfg) = Fail
          /\ checks' = [payee |-> Fail] /\ phase' = "report"
       \/ /\ CheckPayee(cfg) # Fail /\ CheckPricing(cfg) # Fail /\ cfg.price <= 0
          /\ checks' = Traceback /\ phase' = "report"
       \/ /\ CheckPayee(cfg) # Fail /\ (CheckPricing(cfg) = Fail \/ cfg.price > 0)
          /\ checks' = IF cfg.offline THEN Add(LocalChecks(cfg), [facilitator |-> Note, auth |-> Note]) ELSE LocalChecks(cfg)
          /\ phase' = IF cfg.offline THEN "report" ELSE "supported"
    /\ UNCHANGED <<cfg, world, stable, quote, outcome>>

ProbeSupported ==
    /\ phase = "supported"
    /\ checks' = Add(checks, [facilitator |-> CheckFacilitator(cfg, world)])
    /\ stable' = TRUE
    /\ phase' = "verify"
    /\ UNCHANGED <<cfg, world, quote, outcome>>

ProbeVerify ==
    /\ phase = "verify"
    /\ checks' = Add(checks, [auth |-> CheckSettlementAuth(cfg, world)])
    /\ phase' = "report"
    /\ UNCHANGED <<cfg, world, stable, quote, outcome>>

-----------------------------------------------------------------------------
(* The service started with the same environment, whatever the report says. *)

Boots(c) == ConfigOk(c) /\ (ServerValue(c) => PolicyOk(c.knobs)) /\ c.cdp # "half"

Deploy ==
    /\ phase = "report"
    /\ phase' = IF cfg.payTo = "none" THEN "unbilled" ELSE IF Boots(cfg) THEN "serving" ELSE "crashed"
    /\ UNCHANGED <<cfg, world, checks, stable, quote, outcome>>

Call(ask) ==
    /\ phase = "serving"
    /\ LET price == PriceFor(cfg, ServerValue(cfg), ask.amount)
       IN  IF price <= 0
           THEN quote' = NoQuote /\ outcome' = "free"
           ELSE quote' = Challenge(cfg, price, ask) /\ outcome' = "quoted"
    /\ UNCHANGED <<phase, cfg, world, checks, stable>>

\* With no facilitator configured the built-in mock settles and moves no money.
Pay ==
    /\ phase = "serving" /\ outcome = "quoted"
    /\ outcome' = CASE cfg.cdp # "both" /\ cfg.url = "none" -> "mocked"
                    [] Settles(cfg, world)                  -> "settled"
                    [] OTHER                                -> "refused"
    /\ UNCHANGED <<phase, cfg, world, checks, stable, quote>>

WorldChanges ==
    /\ world' \in Worlds \ {world}
    /\ stable' = FALSE
    /\ UNCHANGED <<phase, cfg, checks, quote, outcome>>

Init ==
    /\ phase = "start" /\ cfg \in Configs /\ world \in Worlds
    /\ checks = [payee |-> Ok] /\ stable = TRUE /\ quote = NoQuote /\ outcome = "none"

Next == CheckConfig \/ ProbeSupported \/ ProbeVerify \/ Deploy \/ (\E ask \in Asked : Call(ask)) \/ Pay \/ WorldChanges

Spec == Init /\ [][Next]_vars

-----------------------------------------------------------------------------
TypeOK ==
    /\ phase \in {"start", "supported", "verify", "report", "serving", "crashed", "unbilled"}
    /\ cfg \in Configs /\ world \in Worlds /\ stable \in BOOLEAN
    /\ Range(checks) \subseteq {Ok, Note, Warn, Fail}
    /\ outcome \in {"none", "free", "quoted", "settled", "mocked", "refused"}

\* Exit code 0 ("clean -- billing would work and would collect") is kept: the service
\* deployed on it boots, no payment of its 402 is refused or mocked while the
\* facilitator stays what the probes saw, the money is dollars at the right scale, and
\* a payment at a payee's cheapest price covers what it costs to settle.  The promise
\* is for a report that probed, and for a flag the server reads as the preflight does.
ReadyWorks ==
    phase \in {"serving", "crashed", "unbilled"} /\ Exit = 0 /\ ~ cfg.offline /\ cfg.flag # "0" =>
      /\ phase = "serving"
      /\ stable => outcome \notin {"refused", "mocked"}
      /\ quote # NoQuote => quote.asset \in {"usdc", "sepolia_usdc", "mint"} /\ quote.amount > 0
      /\ quote.asked \in {p.lo : p \in Corpus} /\ quote # NoQuote => quote.amount >= SettlementCostFor(cfg)

\* No 402 asks for more than the configured share of the payment it protects, nor for
\* more than the larger of the two bounds.
FeeInProportion ==
    quote # NoQuote /\ ServerValue(cfg) =>
      /\ quote.asked > 0 /\ cfg.knobs.ratio > 0 => quote.amount * Base <= quote.asked * cfg.knobs.ratio
      /\ quote.amount <= Max({cfg.knobs.min, cfg.knobs.max})

\* The resource a 402 advertises is ours: our origin, and no path that climbs.
ResourceIsOurs == quote # NoQuote => quote.origin = "ours" /\ ".." \notin Range(quote.path)
=============================================================================
