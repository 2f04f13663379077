------------------------------ MODULE Evidence ------------------------------
(***************************************************************************)
(* What a payee's settlement history is evidence of.  Settlements arrive   *)
(* in two sources, the chain store (reputation_store.py) and Blackwall's   *)
(* own ledger; a lookup merges the two and everything the verdict engine   *)
(* infers is computed from the merged record, from the payer graph         *)
(* (payer_graph.py, payer_reputation.py), from the acquisition timeline    *)
(* (settlement_velocity.py) or from indexes built offline                  *)
(* (category_pricing.py, price_integrity.py, advertised_prices.py).        *)
(*                                                                         *)
(* A price is a natural number, a multiple of 4, so that the two halvings  *)
(* of a median of medians are exact.  `history' is in timestamp order.     *)
(***************************************************************************)
EXTENDS Subsequences, SequencesExt, FiniteSetsExt

CONSTANTS
    Payees,            \* counterparties; a payee may pay itself
    Kinds,             \* the settlements of the instance: [src, from, to, amount]
    Zero,              \* the zero address a mint or a faucet pays from
    Advertised,        \* payee -> the price ranges the catalog lists for it, in order
    Category,          \* payee -> its category ("other" when unclassified)
    Quotes,            \* amounts a request may quote
    Asked,             \* the payees a process is asked to screen
    MaxRows,           \* bound on the history
    MaxDay,            \* bound on the clock
    TimedRows,         \* bound on the history while days pass and payees are screened
    PriceHistoryLimit, \* PRICE_HISTORY_LIMIT
    MinDistinctPayers, MinClassObservations, MinTierSettlements, MinTierPayers,
    MinPeers,          \* MIN_PEER_COUNTERPARTIES, MIN_CATEGORY_PAYEES
    AnchorMinDistinct, PayerRepSaturation, EstablishedMinBreadth, CaptiveMaxDistinct,
    BurstMinDistinct, StaleDays,
    MinBuyers, MinPayments, DivergenceWatchRatio,
    ThinHistory        \* THIN_HISTORY_SETTLEMENTS

\* Amounts are counted in units a price is a multiple of.  A catalog price is above zero
\* and a divergence a multiple of it; an anchor has more payers than a captive cluster,
\* and a payer is established when it pays a second payee.
ASSUME EvidenceAssumption ==
    /\ IsFiniteSet(Payees) /\ Asked \subseteq Payees
    /\ \A k \in Kinds : k.src \in {"store", "ledger"} /\ k.to \in Payees /\ k.amount \in Nat
    /\ \A p \in Payees : Advertised[p] \in Seq([low : Nat, high : Nat \ {0}])
    /\ MaxDay \in Nat /\ StaleDays \in Nat /\ PriceHistoryLimit \in Nat \ {0}
    /\ MinDistinctPayers \in Nat /\ MinDistinctPayers >= 2
    /\ MinPeers \in Nat /\ MinPeers >= 3
    /\ PayerRepSaturation \in Nat \ {0} /\ EstablishedMinBreadth = 2
    /\ AnchorMinDistinct \in Nat /\ CaptiveMaxDistinct \in Nat /\ CaptiveMaxDistinct < AnchorMinDistinct
    /\ DivergenceWatchRatio \in Nat /\ DivergenceWatchRatio >= 2
    /\ MinBuyers \in Nat /\ MinPayments \in Nat /\ ThinHistory \in Nat

VARIABLES
    history,   \* settlements so far, each with its day
    today,
    graphAt,   \* how much of the history PayerReputationSource was built from
    bootDay,   \* the `now' VelocitySource took when the process started
    screened   \* payee -> how much of it VelocitySource had cached, or Unscreened

vars == <<history, today, graphAt, bootDay, screened>>

NoPrice == 0
Unscreened == -1

-----------------------------------------------------------------------------
(* Medians.                                                                *)

\* The k-th smallest value of the function f, its multiplicity counted.
NthValue(f, k) ==
    CHOOSE v \in {f[x] : x \in DOMAIN f} :
        /\ Cardinality({x \in DOMAIN f : f[x] < v}) < k
        /\ k <= Cardinality({x \in DOMAIN f : f[x] <= v})

\* The middle value, or the mean of the middle two.
MedianOf(f) ==
    LET n == Cardinality(DOMAIN f)
    IN  (NthValue(f, (n + 1) \div 2) + NthValue(f, n \div 2 + 1)) \div 2

\* Mutant of RobustPriceMedian: a payer's volume is its weight.
RobustMedianByVolume(obs, minPayers) ==
    IF Cardinality({obs[i].from : i \in DOMAIN obs}) < minPayers
      THEN NoPrice ELSE MedianOf([i \in DOMAIN obs |-> obs[i].amount])

\* One price per payer, then the median over the payers, of at least minPayers of them.
RobustPriceMedian(obs, minPayers) ==
    LET payers == {obs[i].from : i \in DOMAIN obs}
        own(p) == {i \in DOMAIN obs : obs[i].from = p}
    IN  IF Cardinality(payers) < minPayers
          THEN NoPrice
          ELSE MedianOf([p \in payers |-> MedianOf([i \in own(p) |-> obs[i].amount])])

-----------------------------------------------------------------------------
(* The record of a payee: the store's, the ledger's, and the merge.        *)

RowsOf(h, src, payee) == Subsequence(h, {i \in DOMAIN h : h[i].src = src /\ h[i].to = payee})

DistinctAll(rows, payee) == Cardinality({rows[i].from : i \in DOMAIN rows})

\* COUNT(DISTINCT CASE WHEN lower(payer) <> lower(counterparty) ...): a payee that pays
\* itself is not one of its payers.  The ledger counts the payers of its settlements.
DistinctPayers(rows, payee) ==
    Cardinality({rows[i].from : i \in DOMAIN rows} \ {payee})

\* ReputationStore.lookup: counts over all rows, prices of the latest ones only.
StoreRecord(h, payee) ==
    LET rows == RowsOf(h, "store", payee)
        n == Len(rows)
    IN  [count |-> n,
         distinct |-> DistinctPayers(rows, payee),
         prices |-> SubSeq(rows, (IF n > PriceHistoryLimit THEN n - PriceHistoryLimit ELSE 0) + 1, n)]

LedgerRecord(h, payee) ==
    LET rows == RowsOf(h, "ledger", payee)
    IN  [count |-> Len(rows), distinct |-> DistinctAll(rows, payee), prices |-> rows]

\* merge_records: the larger count and the longer price history; every observation.
MergeRecords(a, b) ==
    [count |-> Max({a.count, b.count}),
     distinct |-> Max({a.distinct, b.distinct}),
     price_history |-> IF Len(b.prices) > Len(a.prices) THEN b.prices ELSE a.prices,
     price_observations |-> a.prices \o b.prices]

Lookup(h, payee) == MergeRecords(StoreRecord(h, payee), LedgerRecord(h, payee))

-----------------------------------------------------------------------------
(* The reference price of a payee and the price STOP.                      *)

\* Only the ledger's observations name a resource; the instance has one.
SelectClassObservations(obs, resource) ==
    LET same == Subsequence(obs, {i \in DOMAIN obs : obs[i].src = "ledger"})
    IN  IF resource /\ Len(same) >= MinClassObservations
          THEN [obs |-> same, basis |-> "per-class"]
          ELSE [obs |-> obs, basis |-> "pooled"]

PriceMedianAndBasis(rec, resource) ==
    LET obs == rec.price_observations
        sel == SelectClassObservations(obs, resource)
        m == RobustPriceMedian(sel.obs, MinDistinctPayers)
        pooled == RobustPriceMedian(obs, MinDistinctPayers)
        flat == rec.price_history
    IN  CASE m # NoPrice ->
                [median |-> m, basis |-> IF sel.basis = "per-class" THEN "per-class"
                                                                    ELSE "payer-weighted"]
          [] m = NoPrice /\ pooled # NoPrice -> [median |-> pooled, basis |-> "payer-weighted"]
          [] OTHER -> [median |-> IF flat = <<>> THEN NoPrice
                                   ELSE MedianOf([i \in DOMAIN flat |-> flat[i].amount]),
                       basis |-> "flat"]

\* Within a fifth of the quote (TIER_TOLERANCE).
NearQuote(quote, amount) == 4 * quote <= 5 * amount /\ 5 * amount <= 6 * quote

\* Settlements near the quote, and their payers, the payee's own payments left out.
TierEvidence(quote, obs, payee) ==
    LET near == {i \in DOMAIN obs : NearQuote(quote, obs[i].amount) /\ obs[i].from # payee}
    IN  [settlements |-> Cardinality(near), payers |-> Cardinality({obs[i].from : i \in near})]

\* build_advertised_index, one record at a time: the overlap with the range so far, and
\* no range at all when a record contradicts it.
Narrow(range, rec) ==
    IF range = {} THEN {rec}
      ELSE {[low |-> Max({r.low, rec.low}), high |-> Min({r.high, rec.high})] :
              r \in {x \in range : Max({x.low, rec.low}) <= Min({x.high, rec.high})}}

AdvertisedRange(payee) == FoldLeft(Narrow, {}, Advertised[payee])

WithinAdvertisedRange(quote, payee) ==
    \E r \in AdvertisedRange(payee) : r.low <= quote /\ quote <= r.high

\* A wildly high quote STOPs unless the history shows a tier at that price.
PriceStopIsCorroborated(quote, rec, payee) ==
    LET t == TierEvidence(quote, rec.price_observations, payee)
    IN  /\ ~ (t.settlements >= MinTierSettlements /\ t.payers >= MinTierPayers)
        /\ ~ (/\ WithinAdvertisedRange(quote, payee)
              /\ t.settlements >= MinTierSettlements
              /\ t.payers >= 1)

-----------------------------------------------------------------------------
(* Market rates: the median over payees of each payee's own median.        *)

PeerGroupMedian(meds) ==
    IF Cardinality(DOMAIN meds) < MinPeers THEN NoPrice ELSE MedianOf(meds)

\* build_category_index: the unclassified have no market.
CategoryPayees(h, cat) ==
    {p \in Payees : Category[p] = cat /\ cat # "other" /\ RowsOf(h, "store", p) # <<>>}

PayeeMedian(h, p) ==
    LET prices == StoreRecord(h, p).prices IN MedianOf([i \in DOMAIN prices |-> prices[i].amount])

CategoryMedian(h, cat) ==
    PeerGroupMedian([p \in CategoryPayees(h, cat) |-> PayeeMedian(h, p)])

Dearest(payee) == Max({0} \cup {r.high : r \in Range(Advertised[payee])})

\* On the divergence index: the settled median against the dearest advertised price.
Diverges(h, payee) ==
    /\ Advertised[payee] # <<>>
    /\ StoreRecord(h, payee).prices # <<>>
    /\ PayeeMedian(h, payee) >= DivergenceWatchRatio * Dearest(payee)

-----------------------------------------------------------------------------
(* The payer graph.                                                        *)

Edges(h) == {<<h[i].from, h[i].to>> : i \in {j \in DOMAIN h : h[j].src = "store"}}

\* build_index: no mint, no self-payment.
BuildIndex(edges) == {e \in edges : e[1] # Zero /\ e[1] # e[2]}

PayersOf(graph, payee) == {e[1] : e \in {x \in graph : x[2] = payee}}
PayeesOf(graph, payer) == {e[2] : e \in {x \in graph : x[1] = payer}}

\* cross_signal: payers that pay anyone else are established, the others captive.
CrossSignal(graph, payee) ==
    LET payers == PayersOf(graph, payee)
        established == {p \in payers : Cardinality(PayeesOf(graph, p)) >= EstablishedMinBreadth}
        n == Cardinality(payers)
    IN  [distinct |-> n, established |-> Cardinality(established),
         captive_sybil |-> established = {} /\ MinDistinctPayers <= n /\ n <= CaptiveMaxDistinct]

\* Payees that many different addresses pay.
AnchorPayees(graph) ==
    {p \in Payees : Cardinality(PayersOf(graph, p)) >= AnchorMinDistinct}

\* In PayerRepSaturation-ths: 1.0 when that many anchors are paid.
PayerReputation(graph, payer) ==
    Min({PayerRepSaturation, Cardinality(PayeesOf(graph, payer) \cap AnchorPayees(graph))})

Reputable(graph, payer) == 2 * PayerReputation(graph, payer) >= PayerRepSaturation

\* payee_corroboration: a closed cluster none of whose payers pays an anchor.
PayeeCorroboration(graph, payee) ==
    LET payers == PayersOf(graph, payee)
        connected == {p \in payers : PayerReputation(graph, p) > 0}
        n == Cardinality(payers)
    IN  [reputable |-> Cardinality({p \in payers : Reputable(graph, p)}),
         sybil_ring |-> connected = {} /\ MinDistinctPayers <= n /\ n <= CaptiveMaxDistinct]

\* payer_profile: what GET /v1/payer answers of a payer.
PayerTier(graph, payer) ==
    CASE Reputable(graph, payer) -> "established"
      [] ~ Reputable(graph, payer) /\ (\/ PayerReputation(graph, payer) >= 1
                                       \/ Cardinality(PayeesOf(graph, payer)) >= EstablishedMinBreadth)
           -> "emerging"
      [] OTHER -> "unknown"

-----------------------------------------------------------------------------
(* When a payee's payers came (settlement_velocity.py).                    *)

\* Each payer counts on the day of its first settlement.
FirstDay(rows, p) == Min({rows[i].day : i \in {j \in DOMAIN rows : rows[j].from = p}})

TemporalSignal(rows, now) ==
    LET payers == {rows[i].from : i \in DOMAIN rows}
        n == Cardinality(payers)
        newOn(d) == Cardinality({p \in payers : FirstDay(rows, p) = d})
        last == Max({rows[i].day : i \in DOMAIN rows})
    IN  [known |-> rows # <<>>,
         burst_sybil |-> n >= BurstMinDistinct /\ \E d \in 0..MaxDay : 5 * newOn(d) >= 4 * n,
         stale |-> rows # <<>> /\ now - last > StaleDays]

\* What VelocitySource answers: computed at the first question, cached ever after.
Temporal(payee) ==
    TemporalSignal(RowsOf(SubSeq(history, 1, screened[payee]), "store", payee), bootDay)

-----------------------------------------------------------------------------
(* How much a volume of payments shows (volume_integrity.py).              *)

\* The share of the buyers that pay nobody else.
BuyerExclusivity(buyers, rows, payee, paysTo) ==
    [n |-> Cardinality({b \in buyers : paysTo[b] = {payee}}), of |-> Cardinality(buyers)]

\* screen_payee, without funder data: it needs fan-out, and every signal checked.
ScreenPayee(h, payee) ==
    LET rows == RowsOf(h, "store", payee)
        buyers == {rows[i].from : i \in DOMAIN rows}
        paysTo == [b \in buyers |-> {h[i].to : i \in {j \in DOMAIN h : h[j].from = b}}]
        uniform == Cardinality({rows[i].amount : i \in DOMAIN rows}) <= 1
        x == BuyerExclusivity(buyers, rows, payee, paysTo)
        exclusive == 10 * x.n >= 9 * x.of
    IN  CASE Len(rows) < MinPayments \/ Cardinality(buyers) < MinBuyers -> "unscreenable"
          [] Len(rows) >= MinPayments /\ Cardinality(buyers) >= MinBuyers ->
               CASE uniform /\ exclusive -> "synthetic"
                 [] uniform # exclusive -> "suspect"
                 [] OTHER -> "clean"

-----------------------------------------------------------------------------
(* How much of a verdict is backed by evidence (confidence.py), in         *)
(* twentieths.  Outcome data is what the ledger adds.                      *)

AssessConfidence(rec, graph, temporal, outcomes, payee) ==
    (CASE rec.count >= ThinHistory -> 6 [] rec.count \in 1..(ThinHistory - 1) -> 2 [] OTHER -> 0)
    + (CASE rec.distinct >= MinDistinctPayers -> 4
         [] rec.distinct \in 1..(MinDistinctPayers - 1) -> 1 [] OTHER -> 0)
    + (CASE PayeeCorroboration(graph, payee).reputable > 0 -> 4
         [] /\ PayeeCorroboration(graph, payee).reputable = 0
            /\ CrossSignal(graph, payee).established > 0 -> 2
         [] OTHER -> 0)
    + (IF outcomes THEN 4 ELSE 0)
    + (IF temporal.known /\ ~ temporal.stale THEN 2 ELSE 0)

ConfidenceLevel(score) ==
    CASE score >= 14 -> "high" [] score \in 8..13 -> "medium" [] OTHER -> "low"

-----------------------------------------------------------------------------
(* The state machine.                                                      *)

Init ==
    /\ history = <<>> /\ today = 0
    /\ graphAt = 0 /\ bootDay = 0
    /\ screened = [p \in Payees |-> Unscreened]

\* A settlement reaches the store or the ledger.
Settle(k) ==
    /\ Len(history) < MaxRows
    /\ history' = Append(history, [src |-> k.src, from |-> k.from, to |-> k.to,
                                   amount |-> k.amount, day |-> today])
    /\ UNCHANGED <<today, graphAt, bootDay, screened>>

NextDay ==
    /\ today < MaxDay /\ Len(history) <= TimedRows
    /\ today' = today + 1
    /\ UNCHANGED <<history, graphAt, bootDay, screened>>

\* main() builds the graph from the store and gives VelocitySource the time.
Boot ==
    /\ graphAt' = Len(history)
    /\ bootDay' = today
    /\ screened' = [p \in Payees |-> Unscreened]
    /\ UNCHANGED <<history, today>>

\* VelocitySource.temporal: the first question about a payee reads the store.
Screen(p) ==
    /\ screened[p] = Unscreened /\ Len(history) <= TimedRows
    /\ screened' = [screened EXCEPT ![p] = Len(history)]
    /\ UNCHANGED <<history, today, graphAt, bootDay>>

Next ==
    \/ \E k \in Kinds : Settle(k)
    \/ NextDay
    \/ Boot
    \/ \E p \in Asked : Screen(p)

Spec == Init /\ [][Next]_vars

-----------------------------------------------------------------------------
(* Properties.                                                             *)

TypeOK ==
    /\ history \in Seq([src : {"store", "ledger"}, from : {k.from : k \in Kinds},
                        to : Payees, amount : {k.amount : k \in Kinds}, day : 0..MaxDay])
    /\ today \in 0..MaxDay /\ bootDay \in 0..today
    /\ graphAt \in 0..Len(history)
    /\ screened \in [Payees -> Unscreened..Len(history)]

Graph == BuildIndex(Edges(SubSeq(history, 1, graphAt)))

\* Fewer than half of a payee's payers, whatever they pay and however often, cannot
\* take its reference price out of the range the other payers paid
\* (robust_price_median, "A payer's volume is not its weight").
MinorityCannotMovePrice ==
    \A p \in Payees, resource \in BOOLEAN :
      LET rec == Lookup(history, p)
          ref == PriceMedianAndBasis(rec, resource)
          obs == IF ref.basis = "per-class"
                   THEN SelectClassObservations(rec.price_observations, TRUE).obs
                   ELSE rec.price_observations
          payers == {o.from : o \in Range(obs)}
      IN  ref.basis # "flat" =>
            \A farm \in SUBSET payers :
              2 * Cardinality(farm) < Cardinality(payers) =>
                LET honest == {o.amount : o \in {x \in Range(obs) : x.from \notin farm}}
                IN  Min(honest) <= ref.median /\ ref.median <= Max(honest)

\* What a payee pays itself is evidence of nothing: without those rows its price STOP,
\* the payers the store counts and its place in the payer graph are the same.  Rows the
\* price window would have held instead are the one thing they displace, so the history
\* is one the window holds.
SelfPaymentsProveNothing ==
    \A p \in Payees :
      LET honest == Subsequence(history, {i \in DOMAIN history : ~ (history[i].from = p /\ history[i].to = p)})
      IN  Len(history) <= PriceHistoryLimit =>
            /\ \A q \in Quotes : PriceStopIsCorroborated(q, Lookup(history, p), p)
                                 <=> PriceStopIsCorroborated(q, Lookup(honest, p), p)
            /\ StoreRecord(history, p).distinct = StoreRecord(honest, p).distinct
            /\ CrossSignal(BuildIndex(Edges(history)), p)
                 = CrossSignal(BuildIndex(Edges(honest)), p)

\* The two Sybil patterns nest: payers that pay nobody else (captive_sybil) cannot pay
\* an anchor, for the payee they share has too few payers to be one.
CaptiveIsRing ==
    \A p \in Payees : CrossSignal(Graph, p).captive_sybil => PayeeCorroboration(Graph, p).sybil_ring

\* One payee never sets its category's market rate: the rate lies between the medians
\* of two of the others (category_pricing.py, the median of the payees' medians).
OnePayeeCannotSetCategory ==
    \A p \in Payees :
      LET cat == Category[p]
          others == {PayeeMedian(history, x) : x \in CategoryPayees(history, cat) \ {p}}
          m == CategoryMedian(history, cat)
      IN  m # NoPrice => Min(others) <= m /\ m <= Max(others)

\* A payee is watched for settling above its catalog prices only when half of the
\* settlements in its window did (price_integrity.py): one large payment does not do it.
DivergenceNeedsHalf ==
    \A p \in Payees :
      LET prices == StoreRecord(history, p).prices
      IN  Diverges(history, p) =>
            2 * Cardinality({i \in DOMAIN prices : prices[i].amount > Dearest(p)}) >= Len(prices)

\* A payee that only itself has paid never reaches high confidence, whatever its volume
\* and however many of its own settlements it reports.
SelfPaidNeverHigh ==
    \A p \in Payees :
      LET score == AssessConfidence(Lookup(history, p), Graph,
                     TemporalSignal(RowsOf(history, "store", p), today),
                     RowsOf(history, "ledger", p) # <<>>, p)
      IN  (\A r \in Range(history) : r.to = p => r.from = p) => ConfidenceLevel(score) # "high"

\* A payee held as stale had no settlement in the StaleDays before the process started,
\* and the timeline read for it is never older than the payer graph.
StaleIsTrue ==
    \A p \in Payees : screened[p] # Unscreened =>
      /\ screened[p] >= graphAt
      /\ Temporal(p).stale =>
           \A i \in 1..graphAt : history[i].src = "store" /\ history[i].to = p =>
             history[i].day < bootDay - StaleDays

Standing == [unknown |-> 0, emerging |-> 1, established |-> 2]

\* A payer's standing is earned and never lost: neither its own further payments nor
\* anybody else's lower the tier the next process screens it at.
StandingKept ==
    graphAt' # graphAt => \A a \in {k.from : k \in Kinds} \ {Zero} :
      Standing[PayerTier(Graph, a)] <= Standing[PayerTier(Graph, a)']

Ranked == [synthetic |-> 0, suspect |-> 1, clean |-> 2, unscreenable |-> 3]

\* More of the same volume never clears a payee: a further payment at its one price by
\* a buyer it already has leaves the screen at least as bad (volume_integrity.py).
SameVolumeClearsNothing ==
    \A p \in Payees :
      LET rows == RowsOf(history, "store", p)
      IN  /\ Len(history') = Len(history) + 1
          /\ LET r == Last(history') IN
               r.src = "store" /\ r.to = p /\ \E x \in Range(rows) : x.from = r.from /\ x.amount = r.amount
          => Ranked[ScreenPayee(history', p)] <= Ranked[ScreenPayee(history, p)]
=============================================================================
