----------------------------- MODULE Reputation -----------------------------
(***************************************************************************)
(* ledger.aggregate_counterparties: the fold of the event stream into what *)
(* a verdict reads of a counterparty.  Python's dicts keep insertion order *)
(* and a key's last value, so each of them is a position in the stream     *)
(* here.  Price lists, the recency window and the advisory counters are    *)
(* left out.                                                               *)
(***************************************************************************)
EXTENDS Integers, Sequences, FiniteSets

CONSTANT NoTx  \* an outcome without a settlement_tx

Good == {"settled", "delivered"}
Bad == {"underdelivered", "disputed", "refunded"}

Least(S) == CHOOSE i \in S : \A j \in S : i <= j
Greatest(S) == CHOOSE i \in S : \A j \in S : i >= j

VerdictsOf(events, rid) ==
    {i \in DOMAIN events : events[i].kind = "verdict" /\ events[i].rid = rid}

\* by_receipt: the receipts some verdict names, and the verdict that named them last.
Receipts(events) ==
    {events[i].rid : i \in {j \in DOMAIN events : events[j].kind = "verdict"}}

ByReceipt(events, rid) == events[Greatest(VerdictsOf(events, rid))]

OutcomesOf(events, rid) ==
    {i \in DOMAIN events : events[i].kind = "outcome" /\ events[i].rid = rid}

\* Where the chain watcher confirmed rid ...
Confirmations(events, rid) ==
    {i \in OutcomesOf(events, rid) :
        events[i].source = "chain-watch" /\ events[i].outcome \in Good}

\* Mutant of ChainTx: the last confirmation wins.
ChainTxLatest(events, rid) == Greatest(Confirmations(events, rid))

\* ... and the confirmation that sticks: the first one.
ChainTx(events, rid) == Least(Confirmations(events, rid))

LatestQuality(events, rid) == events[Greatest(OutcomesOf(events, rid))].outcome

ChainConfirmed(events) == {rid \in Receipts(events) : Confirmations(events, rid) # {}}

\* Mutant of Settled: one payment counts for every receipt it was matched to.
SettledUndeduped(events, cp) ==
    {rid \in ChainConfirmed(events) : ByReceipt(events, rid).cp = cp}

\* The receipts that count for cp: of those one transaction confirmed, the one
\* confirmed first (confirmed_txs).
Settled(events, cp) ==
    LET mine == {rid \in ChainConfirmed(events) : ByReceipt(events, rid).cp = cp}
        tx(rid) == events[ChainTx(events, rid)].tx
    IN {rid \in mine :
           \A q \in mine : q # rid /\ tx(q) = tx(rid) /\ tx(rid) # NoTx =>
                              ChainTx(events, rid) < ChainTx(events, q)}

Disputed(events, cp) == {rid \in Settled(events, cp) : LatestQuality(events, rid) \in Bad}

\* distinct_payers.
Payers(events, cp) == {ByReceipt(events, rid).payer : rid \in Settled(events, cp)} \ {"none"}
=============================================================================
