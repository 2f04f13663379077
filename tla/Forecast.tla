------------------------------ MODULE Forecast ------------------------------
(***************************************************************************)
(* blackwall.forecast: one request on its way from the lookup of the       *)
(* counterparty to the answered, signed and recorded verdict.              *)
(*                                                                         *)
(* decide_payment gives a first verdict from what is known of the payment; *)
(* then one overlay after another (readiness, simulations, the tokenized   *)
(* asset folds, the aggregate) may escalate GO to HOLD.  Each asks an      *)
(* external source, which answers a grade or fails; a failure is None and  *)
(* leaves the verdict alone (fail-open).  Amounts, rates and prices are    *)
(* the facts and grades the code tells apart; reason texts are left out.   *)
(***************************************************************************)
EXTENDS Integers, Sequences, FiniteSets, Functions, TLC

CONSTANTS
    Deployments,   \* the sets of sources a server may be wired with
    LockSettings,  \* the sets of reversibility locks that may be on
    Requests,      \* the sets of optional fields a request may carry
    Assets,        \* the fields of the asset records the registry may hold
    Payments       \* the sets of facts that may hold of a payment

None == "none"

(***************************************************************************)
(* What may be true of a payment when it is judged.                        *)
(***************************************************************************)
HardStops == {"mismatch", "secret_high", "recipient", "sanctioned", "known_bad"}

HoldGates ==
    {"sybil_thin", "captive_sybil", "thin", "low_rep", "anomaly", "over_budget",
     "non_usd", "peer", "category", "divergence", "review", "stale", "going_bad",
     "sybil_ring", "secret_medium"}

\* "gouge": the quote is STOP_ANOMALY_RATIO times the median or more; "tier": an
\* established tier vouches for it.  "badge": a valid seller credential;
\* "disputes": the live dispute rate is past the audit's bar.
Facts == HardStops \cup HoldGates \cup {"gouge", "tier", "badge", "disputes"}

\* The facts that only a source can tell, and the source.
ToldBy == [captive_sybil |-> "graph", sybil_ring |-> "graph", stale |-> "velocity",
           review |-> "enrichment", badge |-> "seller_registry"]

FailOpen == {"graph", "velocity", "enrichment"}

Sources ==
    FailOpen \cup
    {"seller_registry", "readiness", "settlement_sim", "auth_sim", "rwa",
     "registry", "pyth", "backing", "dex", "payto", "holder", "aave", "honeypot",
     "issuer_trust", "rwa_ledger", "ledger"}

Locks == {"EXCESSIVE_GATES", "PAYTO_BASELINE_GATES", "SELL_TAX_GATES",
          "ISSUER_TRUST_GATES"}

Fields == {"resource", "payment_authorization", "acquires"}
AssetFields == {"symbol", "underlying_symbol", "issuer", "trading_halted"}

ASSUME DeploymentsAssumption == Deployments \subseteq SUBSET Sources
ASSUME LocksAssumption == LockSettings \subseteq SUBSET Locks
ASSUME RequestsAssumption == Requests \subseteq SUBSET Fields
ASSUME PaymentsAssumption ==
    /\ Payments \subseteq SUBSET Facts
    /\ \A F \in Payments : "tier" \in F => "gouge" \in F
ASSUME AssetsAssumption == Assets \subseteq SUBSET AssetFields

(***************************************************************************)
(* The order of the folds, and what each needs before it asks its source:  *)
(* the source wired, a field of the request, a field of the asset record.  *)
(***************************************************************************)
Pipeline ==
    <<"excessive", "readiness", "settlement_sim", "auth_sim", "rwa", "registry",
      "peg", "backing", "dex", "payee_syntax", "payto", "holder", "aave",
      "honeypot", "issuer_trust", "aggregate">>

Needs ==
    [excessive      |-> {},
     readiness      |-> {"readiness", "resource"},
     settlement_sim |-> {"settlement_sim"},
     auth_sim       |-> {"auth_sim", "payment_authorization"},
     rwa            |-> {"rwa", "acquires"},
     registry       |-> {"registry", "acquires"},
     peg            |-> {"pyth", "underlying_symbol", "acquires"},
     backing        |-> {"backing", "symbol"},
     dex            |-> {"dex", "pyth", "underlying_symbol", "acquires"},
     payee_syntax   |-> {},
     payto          |-> {"payto", "resource"},
     holder         |-> {"holder", "acquires"},
     aave           |-> {"aave", "acquires"},
     honeypot       |-> {"honeypot", "acquires"},
     issuer_trust   |-> {"issuer_trust", "issuer"},
     aggregate      |-> {"acquires"}]

\* rwa_aggregate.SIGNAL_SPECS: the signals the aggregate reads and their weights in
\* tenths.
Strong == [rwa |-> 9, backing |-> 8, dex |-> 6, peg |-> 6, registry |-> 5]
Advisory == [holder |-> 3, aave |-> 3, issuer_trust |-> 3]
Keys == DOMAIN Strong \cup DOMAIN Advisory

ADVISORY_HOLD_WEIGHT == 5

VARIABLES
    wired, locks, request,
    facts,     \* what is true of the payment, until decide_payment has read it
    stage,     \* "lookup", a fold of Pipeline, "sign", "log", "record" or "done"
    verdict, hard_stop,
    asset,     \* the asset record's fields that are set
    signals,   \* per key, the grade the fold recorded for the aggregate
    rwa_risk,  \* the concerns of the composite view
    receipt,   \* the verdict the signed receipt covers
    rwaRow, ledgerRow,  \* the verdicts the two logs hold for this request
    answer,    \* what the caller got
    base,      \* history: decide_payment's verdict
    adverse    \* history: the grades the sources gave against the payment

vars == <<wired, locks, request, facts, stage, verdict, hard_stop, asset, signals,
          rwa_risk, receipt, rwaRow, ledgerRow, answer, base, adverse>>

Verdicts == {"GO", "HOLD", "STOP"}

Init ==
    /\ wired \in Deployments
    /\ locks \in LockSettings
    /\ request \in Requests
    /\ facts \in Payments
    /\ stage = "lookup"
    /\ verdict = None
    /\ hard_stop = FALSE
    /\ asset = {}
    /\ signals = [key \in Keys |-> None]
    /\ rwa_risk = {}
    /\ receipt = None /\ rwaRow = None /\ ledgerRow = None /\ answer = None
    /\ base = None
    /\ adverse = {}

(***************************************************************************)
(* decide_payment.                                                         *)
(***************************************************************************)

\* What forecast gathered: a source that is not wired, or fails, tells nothing.
Known(down) == {f \in facts : f \in DOMAIN ToldBy => ToldBy[f] \in wired \ down}

\* Mutant of Waived: the badge helps whatever the live disputes.
WaivedByAnyBadge(known) == IF "badge" \in known THEN {"thin", "low_rep"} ELSE {}

\* A badge stands for volume, unless the live dispute rate is past the audit's bar.
Waived(known) ==
    IF "badge" \in known /\ "disputes" \notin known THEN {"thin", "low_rep"} ELSE {}

Stops(known) ==
    known \cap HardStops # {} \/ ("gouge" \in known /\ "tier" \notin known)

\* A gouge has the highest anomaly score, whether or not it stops.
Fired(known) ==
    ((known \cap HoldGates) \ Waived(known))
        \cup (IF "gouge" \in known THEN {"anomaly"} ELSE {})

Decision(known) ==
    IF Stops(known) THEN "STOP" ELSE IF Fired(known) = {} THEN "GO" ELSE "HOLD"

Decide ==
    /\ stage = "lookup"
    /\ \E down \in SUBSET (FailOpen \cap wired) :
          LET known == Known(down)
          IN /\ verdict' = Decision(known)
             /\ hard_stop' = (known \cap HardStops # {})
             /\ facts' = known
    /\ base' = verdict'
    /\ stage' = Pipeline[1]
    /\ UNCHANGED <<wired, locks, request, asset, signals, rwa_risk, receipt, rwaRow,
                   ledgerRow, answer, adverse>>

\* validate_request refuses the body, or the lookup of the counterparty or of its badge
\* raises: the handler answers an error and nothing was written.
Refuse ==
    /\ stage = "lookup"
    /\ answer' = "error"
    /\ stage' = "done"
    /\ facts' = {}
    /\ UNCHANGED <<wired, locks, request, verdict, hard_stop, asset, signals, rwa_risk,
                   receipt, rwaRow, ledgerRow, base, adverse>>

(***************************************************************************)
(* The folds.  A grade that neither escalates nor counts in the aggregate, *)
(* a failing source and one with no answer are None.                       *)
(***************************************************************************)
Position(s) == CHOOSE i \in DOMAIN Pipeline : Pipeline[i] = s

After(s) == IF Position(s) = Len(Pipeline) THEN "sign" ELSE Pipeline[Position(s) + 1]

Applies(s) == Needs[s] \subseteq wired \cup request \cup asset

\* Mutant of Escalate: a fold that holds also softens a STOP.
EscalateAny(v, gates) == IF gates THEN "HOLD" ELSE v

\* Every fold's rule: GO becomes HOLD, nothing else changes.
Escalate(v, gates) == IF gates /\ v = "GO" THEN "HOLD" ELSE v

\* Fold s: the source answers grade, the verdict is held if gates, and key s of the
\* signals becomes recorded.
Fold(s, grade, gates, recorded) ==
    /\ stage = s
    /\ Applies(s)
    /\ verdict' = Escalate(verdict, gates)
    /\ signals' = IF s \in Keys THEN [signals EXCEPT ![s] = recorded] ELSE signals
    /\ adverse' = adverse \cup ({grade} \ {None})
    /\ facts' = {}
    /\ stage' = After(s)
    /\ UNCHANGED <<wired, locks, request, hard_stop, rwa_risk, receipt, rwaRow,
                   ledgerRow, answer, base>>

Excessive ==
    /\ \E g \in {None, "excessive"} :
          Fold("excessive", g, g = "excessive" /\ "EXCESSIVE_GATES" \in locks, None)
    /\ UNCHANGED asset

Readiness ==
    /\ \E g \in {None, "needs_work"} : Fold("readiness", g, g # None, None)
    /\ UNCHANGED asset

\* payer_blocked or payee_blocked; an underfunded wallet is only described.
SettlementSim ==
    /\ \E g \in {None, "party_blocked"} : Fold("settlement_sim", g, g # None, None)
    /\ UNCHANGED asset

\* replayed, expired, not_yet_valid or would_revert.
AuthSim ==
    /\ \E g \in {None, "cannot_land"} : Fold("auth_sim", g, g # None, None)
    /\ UNCHANGED asset

RwaReadiness ==
    /\ \E g \in {None, "blocked"} : Fold("rwa", g, g # None, g)
    /\ UNCHANGED asset

\* The registry's record is kept for the folds behind it; an unknown token has none.
AssetRegistry ==
    \E fields \in Assets \cup {{}} :
        LET g == IF "trading_halted" \in fields THEN "trading_halted" ELSE None
        IN /\ Fold("registry", g, g # None, g)
           /\ asset' = fields

\* Mutant of Rounded: the signal keeps the ratio as it is.
Unrounded(ratio) == ratio

\* The gate compares the ratio, the signal keeps it rounded to four places: just under
\* the threshold ("edge") it is recorded as at the threshold.
Rounded(ratio) == IF ratio = "edge" THEN "over" ELSE ratio

Peg ==
    /\ \E ratio \in {None, "edge", "over"} :
          Fold("peg", ratio, ratio = "over", Rounded(ratio))
    /\ UNCHANGED asset

Backing ==
    /\ \E g \in {None, "under_collateralized"} : Fold("backing", g, g # None, g)
    /\ UNCHANGED asset

\* The recorded signal is the assessment's inner dict, which is never empty and has no
\* grade in it.
DexMarket ==
    /\ \E g \in {None, "off_peg"} : Fold("dex", g, g # None, None)
    /\ UNCHANGED asset

PayeeSyntax ==
    /\ \E g \in {None, "malformed"} : Fold("payee_syntax", g, g # None, None)
    /\ UNCHANGED asset

\* A mismatch with a baseline that is stale, or undated, is recorded and never gates.
PaytoGates(g) == g = "unexpected" /\ "PAYTO_BASELINE_GATES" \in locks

PaytoBaseline ==
    /\ \E g \in {None, "unexpected", "unexpected_stale"} :
          Fold("payto", g, PaytoGates(g), None)
    /\ UNCHANGED asset

\* gate=False: advisory.
HolderConcentration ==
    /\ \E g \in {None, "concentrated"} : Fold("holder", g, FALSE, g)
    /\ UNCHANGED asset

AaveReserve ==
    /\ \E g \in {None, "frozen"} : Fold("aave", g, FALSE, g)
    /\ UNCHANGED asset

Honeypot ==
    /\ \E g \in {None, "unsellable", "high_sell_tax"} :
          Fold("honeypot", g,
               g = "unsellable" \/ (g = "high_sell_tax" /\ "SELL_TAX_GATES" \in locks),
               None)
    /\ UNCHANGED asset

\* A low grade counts only when its lock marks the signal gated.
IssuerTrust ==
    /\ \E g \in {None, "low"} :
          Fold("issuer_trust", g, FALSE,
               IF "ISSUER_TRUST_GATES" \in locks THEN g ELSE None)
    /\ UNCHANGED asset

\* What SIGNAL_SPECS calls bad, per key.
IsBad ==
    [rwa |-> "blocked", backing |-> "under_collateralized", dex |-> "off_peg",
     peg |-> "over", registry |-> "trading_halted", holder |-> "concentrated",
     aave |-> "frozen", issuer_trust |-> "low"]

Concerns == {key \in Keys : signals[key] = IsBad[key]}

\* Mutant of Collective: the gate tier's weight counts as well.
CollectiveOfAll ==
    SumFunctionOnSet(Strong @@ Advisory, Concerns) >= ADVISORY_HOLD_WEIGHT

\* Advisory signals that agree past the threshold hold together.
Collective ==
    SumFunctionOnSet(Advisory, Concerns \cap DOMAIN Advisory) >= ADVISORY_HOLD_WEIGHT

Aggregate ==
    /\ stage = "aggregate"
    /\ Applies("aggregate")
    /\ rwa_risk' = Concerns
    /\ verdict' = Escalate(verdict, Collective)
    /\ stage' = After("aggregate")
    /\ UNCHANGED <<wired, locks, request, facts, hard_stop, asset, signals, receipt,
                   rwaRow, ledgerRow, answer, base, adverse>>

\* A fold whose conditions do not hold is passed over.
Skip ==
    /\ stage \in DOMAIN Needs
    /\ ~Applies(stage)
    /\ stage' = After(stage)
    /\ UNCHANGED <<wired, locks, request, facts, verdict, hard_stop, asset, signals,
                   rwa_risk, receipt, rwaRow, ledgerRow, answer, base, adverse>>
(***************************************************************************)
(* The receipt, the logs and the answer.                                   *)
(***************************************************************************)

\* Mutant of Sign: the receipt is built from decide_payment's verdict.
SignEarly ==
    /\ stage = "sign"
    /\ receipt' = base
    /\ stage' = "log"
    /\ UNCHANGED <<wired, locks, request, facts, verdict, hard_stop, asset, signals,
                   rwa_risk, rwaRow, ledgerRow, answer, base, adverse>>

\* sign_receipt; the envelope for third parties is built from the same verdict.
Sign ==
    /\ stage = "sign"
    /\ receipt' = verdict
    /\ stage' = "log"
    /\ UNCHANGED <<wired, locks, request, facts, verdict, hard_stop, asset, signals,
                   rwa_risk, rwaRow, ledgerRow, answer, base, adverse>>

\* rwa_ledger.record, fail-soft.
LogRwa ==
    /\ stage = "log"
    /\ rwaRow' \in IF {"rwa_ledger", "acquires"} \subseteq wired \cup request
                      THEN {verdict, None} ELSE {None}
    /\ stage' = "record"
    /\ UNCHANGED <<wired, locks, request, facts, verdict, hard_stop, asset, signals,
                   rwa_risk, receipt, ledgerRow, answer, base, adverse>>

\* record_verdict and the answer.
Record ==
    /\ stage = "record"
    /\ ledgerRow' = IF "ledger" \in wired THEN verdict ELSE None
    /\ answer' = verdict
    /\ stage' = "done"
    /\ UNCHANGED <<wired, locks, request, facts, verdict, hard_stop, asset, signals,
                   rwa_risk, receipt, rwaRow, base, adverse>>

\* record_verdict raises: the handler answers an error.
RecordFails ==
    /\ stage = "record"
    /\ "ledger" \in wired
    /\ answer' = "error"
    /\ stage' = "done"
    /\ UNCHANGED <<wired, locks, request, facts, verdict, hard_stop, asset, signals,
                   rwa_risk, receipt, rwaRow, ledgerRow, base, adverse>>

Done == stage = "done" /\ UNCHANGED vars

Next ==
    \/ Decide \/ Refuse
    \/ Excessive \/ Readiness \/ SettlementSim \/ AuthSim
    \/ RwaReadiness \/ AssetRegistry \/ Peg \/ Backing \/ DexMarket
    \/ PayeeSyntax \/ PaytoBaseline \/ HolderConcentration \/ AaveReserve
    \/ Honeypot \/ IssuerTrust \/ Aggregate \/ Skip
    \/ Sign \/ LogRwa \/ Record \/ RecordFails
    \/ Done

Spec == Init /\ [][Next]_vars

-----------------------------------------------------------------------------
(***************************************************************************)
(* Properties.                                                             *)
(***************************************************************************)

\* The types of the state forecast carries through the folds.
TypeOK ==
    /\ wired \subseteq Sources /\ locks \subseteq Locks /\ request \subseteq Fields
    /\ facts \subseteq Facts
    /\ stage \in DOMAIN Needs \cup {"lookup", "sign", "log", "record", "done"}
    /\ {verdict, receipt, rwaRow, ledgerRow, base} \subseteq Verdicts \cup {None}
    /\ answer \in Verdicts \cup {None, "error"}
    /\ hard_stop \in BOOLEAN
    /\ asset \subseteq AssetFields
    /\ \A key \in Keys : signals[key] \in {IsBad[key], None}
    /\ rwa_risk \subseteq Keys

\* decide_payment's GO is earned: nothing that stops a payment is known of it, and the
\* only gates a seller badge may have waived are the two about volume, and only while
\* the live dispute rate passes the audit.  A hard stop is always a STOP.
DecisionSound ==
    stage = Pipeline[1] =>
        /\ verdict = "GO" =>
              /\ facts \cap (HardStops \cup {"gouge"}) = {}
              /\ facts \cap HoldGates # {} =>
                    /\ facts \cap HoldGates \subseteq {"thin", "low_rep"}
                    /\ "badge" \in facts /\ "disputes" \notin facts
        /\ hard_stop <=> facts \cap HardStops # {}
        /\ hard_stop => verdict = "STOP"

\* The grades that must keep a payment from an automatic GO on their own, given the
\* locks, and those that must when two agree.
Blocking ==
    {"needs_work", "party_blocked", "cannot_land", "blocked", "trading_halted", "over",
     "under_collateralized", "off_peg", "malformed", "unsellable"}
        \cup (IF "EXCESSIVE_GATES" \in locks THEN {"excessive"} ELSE {})
        \cup (IF "PAYTO_BASELINE_GATES" \in locks THEN {"unexpected"} ELSE {})
        \cup (IF "SELL_TAX_GATES" \in locks THEN {"high_sell_tax"} ELSE {})

Agreeing ==
    {"concentrated", "frozen"}
        \cup (IF "ISSUER_TRUST_GATES" \in locks THEN {"low"} ELSE {})

\* The answer is a function of what the sources said, whichever of them failed and in
\* whatever order the folds ran: a STOP is decide_payment's, never an overlay's; a GO
\* is decide_payment's, with no blocking grade and at most one advisory one; and no
\* outage, old baseline or locked gate takes a GO away.
AnswerExplained ==
    answer \in Verdicts =>
        /\ answer = "STOP" <=> base = "STOP"
        /\ answer = "GO" <=>
              /\ base = "GO"
              /\ adverse \cap Blocking = {}
              /\ Cardinality(adverse \cap Agreeing) < 2

\* The receipt the caller holds, the ledger's row and the RWA log's row carry the
\* verdict that was answered, after the last fold.
RecordedAsAnswered ==
    answer \in Verdicts =>
        /\ receipt = answer
        /\ "ledger" \in wired => ledgerRow = answer
        /\ rwaRow \in {None, answer}

\* A fold only ever turns GO into HOLD: it neither softens nor makes a STOP and never
\* touches the hard stop.
RiskOnlyRises ==
    [][verdict # None =>
          /\ verdict' # verdict => verdict = "GO" /\ verdict' = "HOLD"
          /\ hard_stop' = hard_stop]_vars
=============================================================================
