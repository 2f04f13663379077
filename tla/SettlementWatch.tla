-------------------------- MODULE SettlementWatch --------------------------
(***************************************************************************)
(* settlement_watch.SettlementWatcher over a shared event ledger.  The     *)
(* verdict service appends verdicts and the reports agents send in; agents *)
(* pay on chain or do not; watchers (confirm_pending, a process each) read *)
(* the ledger once, then scan the chain and append, receipt by receipt.    *)
(*                                                                         *)
(* External: the chain and the block explorer's page of recent transfers.  *)
(***************************************************************************)
EXTENDS Reputation, Subsequences

CONSTANTS Rids,          \* receipt ids
          Cps,           \* counterparties
          Wallets,       \* payers
          Amounts,       \* USDC amounts
          Watchers,      \* concurrent runs of confirm_pending
          PageSize,      \* transfers on the explorer's first page
          Reports,       \* outcomes agents report
          Verdicts,      \* what decide_payment may answer
          Flaky,         \* the explorer can fail to answer
          ByTx,          \* confirm_by_tx is used
          Duplicates,    \* hydrate can bring back a row twice (at-least-once mirror)
          MaxPayments,   \* bounds
          MaxEvents,
          MaxTime

ASSUME WatchAssumption ==
          /\ Reports \subseteq Good \cup Bad \cup {"abandoned"}
          /\ Amounts \subseteq Nat \ {0}
          /\ ByTx \in BOOLEAN /\ Duplicates \in BOOLEAN /\ Flaky \in BOOLEAN
          /\ "none" \notin Wallets
          /\ NoTx \notin Nat \ {0}
          /\ MaxTime \in Nat

VARIABLES events,   \* the ledger file
          chain,    \* USDC transfers, oldest first; a transfer's tx is its position
          watcher,  \* watcher[w]: the pass of confirm_pending w is making
          copied,   \* history: a row has been duplicated
          raced,    \* history: a pass began during another, or confirm_by_tx was used
          now       \* the clock, in seconds

vars == <<events, chain, watcher, copied, raced, now>>

Resting == [pc |-> "idle", pending |-> <<>>, used |-> {}, tx |-> NoTx]

Verdict(r, cp, amount, payer, v) ==
    [kind |-> "verdict", rid |-> r, cp |-> cp, amount |-> amount, payer |-> payer,
     verdict |-> v, ts |-> now]

Outcome(r, outcome, source, tx) ==
    [kind |-> "outcome", rid |-> r, outcome |-> outcome, source |-> source, tx |-> tx, ts |-> now]

Record(e) == events' = Append(events, e)

\* The bound; a watcher's own rows are bounded by the receipts.
Room == Len(events) < MaxEvents

-----------------------------------------------------------------------------
(* The verdict service and the agents *)

\* forecast's record_verdict; the receipt id is fresh.
RecordVerdict(r, cp, amount, payer, v) ==
    /\ Room /\ r \notin Receipts(events)
    /\ Record(Verdict(r, cp, amount, payer, v))
    /\ UNCHANGED <<chain, watcher, copied, raced, now>>

\* _do_report_outcome: the token shows the reporter got the verdict, nothing else.
ReportOutcome(r, outcome, tx) ==
    /\ Room /\ r \in Receipts(events)
    /\ Record(Outcome(r, outcome, "self-report", tx))
    /\ UNCHANGED <<chain, watcher, copied, raced, now>>

Transfer(from, to, amount) ==
    /\ Len(chain) < MaxPayments
    /\ chain' = Append(chain, [from |-> from, to |-> to, amount |-> amount, ts |-> now])
    /\ UNCHANGED <<events, watcher, copied, raced, now>>

-----------------------------------------------------------------------------
(* The watcher *)

\* find_settlement's four conditions (tolerance 0).
Matches(tx, e) ==
    /\ chain[tx].to = e.cp
    /\ chain[tx].amount = e.amount
    /\ e.payer # "none" => chain[tx].from = e.payer
    /\ chain[tx].ts >= e.ts

\* recent_inbound: the newest PageSize transfers to cp.
Inbound(cp) ==
    LET all == {tx \in DOMAIN chain : chain[tx].to = cp}
    IN {tx \in all : Cardinality({q \in all : q > tx}) < PageSize}

\* scan_for_settlement: the first match on a page that starts with the newest.
Scan(e) ==
    LET found == {tx \in Inbound(e.cp) : Matches(tx, e)}
    IN IF found = {} THEN NoTx ELSE Greatest(found)

HaveOutcome == {events[i].rid : i \in {j \in DOMAIN events : events[j].kind = "outcome"}}

UsedTx == {events[i].tx : i \in {j \in DOMAIN events : events[j].kind = "outcome"}} \ {NoTx}

\* confirm_pending reads the ledger: the GO verdicts with no outcome, in order.
ReadLedger(w) ==
    /\ watcher[w].pc = "idle"
    /\ LET isPending(e) == /\ e.kind = "verdict" /\ e.verdict = "GO"
                           /\ e.rid \notin HaveOutcome
           pending == Subsequence(events, {i \in DOMAIN events : isPending(events[i])})
       IN /\ pending # <<>>
          /\ watcher' = [watcher EXCEPT ![w] =
                 [pc |-> "scan", pending |-> pending, used |-> UsedTx, tx |-> NoTx]]
    /\ raced' = (raced \/ \E v \in Watchers : watcher[v].pc # "idle")
    /\ UNCHANGED <<events, chain, copied, now>>

\* The next verdict of the pass, or the end of it.
Continue(w, used) ==
    watcher' = [watcher EXCEPT ![w] =
        IF Len(watcher[w].pending) = 1 THEN Resting
        ELSE [pc |-> "scan", pending |-> Tail(watcher[w].pending), used |-> used, tx |-> NoTx]]

\* Mutant of ScanFinds: a scan that found nothing is recorded too.
ScanFindsAnything(w) ==
    /\ watcher[w].pc = "scan"
    /\ LET tx == Scan(Head(watcher[w].pending))
       IN /\ tx \notin watcher[w].used
          /\ watcher' = [watcher EXCEPT ![w].pc = "record", ![w].tx = tx]
    /\ UNCHANGED <<events, chain, copied, raced, now>>

\* A match that is not claimed yet goes on to be recorded; the explorer is
\* asked here, the ledger is appended to in a later step.
ScanFinds(w) ==
    /\ watcher[w].pc = "scan"
    /\ LET tx == Scan(Head(watcher[w].pending))
       IN /\ tx # NoTx /\ tx \notin watcher[w].used
          /\ watcher' = [watcher EXCEPT ![w].pc = "record", ![w].tx = tx]
    /\ UNCHANGED <<events, chain, copied, raced, now>>

\* No match, or the match found is claimed: on to the next verdict.
ScanSkips(w) ==
    /\ watcher[w].pc = "scan"
    /\ LET tx == Scan(Head(watcher[w].pending)) IN tx = NoTx \/ tx \in watcher[w].used
    /\ Continue(w, watcher[w].used)
    /\ UNCHANGED <<events, chain, copied, raced, now>>

\* The explorer did not answer: the exception ends the pass.
ScanFails(w) ==
    /\ Flaky
    /\ watcher[w].pc = "scan"
    /\ watcher' = [watcher EXCEPT ![w] = Resting]
    /\ UNCHANGED <<events, chain, copied, raced, now>>

\* Mutant of RecordSettled: used_tx is not updated within the pass.
RecordSettledForgetful(w) ==
    /\ watcher[w].pc = "record"
    /\ Record(Outcome(Head(watcher[w].pending).rid, "settled", "chain-watch", watcher[w].tx))
    /\ Continue(w, watcher[w].used)
    /\ UNCHANGED <<chain, copied, raced, now>>

RecordSettled(w) ==
    /\ watcher[w].pc = "record"
    /\ Record(Outcome(Head(watcher[w].pending).rid, "settled", "chain-watch", watcher[w].tx))
    /\ Continue(w, watcher[w].used \cup {watcher[w].tx})
    /\ UNCHANGED <<chain, copied, raced, now>>

\* confirm_by_tx: a named transaction is checked against the verdict; whether it
\* has been claimed is left to the aggregation.
ConfirmByTx(r, tx) ==
    /\ ByTx /\ Room
    /\ r \in Receipts(events)
    /\ Matches(tx, ByReceipt(events, r))
    /\ Record(Outcome(r, "settled", "chain-watch", tx))
    /\ raced' = TRUE
    /\ UNCHANGED <<chain, watcher, copied, now>>

\* remote_ledger: a row the mirror sent twice comes back twice from a hydrate,
\* the copy behind whatever was mirrored before the delayed write landed.
DuplicateRow(i) ==
    /\ Duplicates /\ ~copied /\ Room
    /\ Record(events[i])
    /\ copied' = TRUE
    /\ UNCHANGED <<chain, watcher, raced, now>>

Tick ==
    /\ now < MaxTime
    /\ now' = now + 1
    /\ UNCHANGED <<events, chain, watcher, copied, raced>>

-----------------------------------------------------------------------------

Init ==
    /\ events = <<>> /\ chain = <<>>
    /\ watcher = [w \in Watchers |-> Resting]
    /\ copied = FALSE /\ raced = FALSE
    /\ now = 0

Watch(w) == ReadLedger(w) \/ ScanFinds(w) \/ ScanSkips(w) \/ RecordSettled(w)

Service ==
    \/ \E r \in Rids, cp \in Cps, a \in Amounts, p \in Wallets \cup {"none"}, v \in Verdicts :
          RecordVerdict(r, cp, a, p, v)
    \/ \E r \in Rids, o \in Reports, tx \in DOMAIN chain \cup {NoTx} : ReportOutcome(r, o, tx)

Next ==
    \/ Service
    \/ \E from \in Wallets, to \in Cps, a \in Amounts : Transfer(from, to, a)
    \/ \E w \in Watchers : Watch(w) \/ ScanFails(w)
    \/ \E r \in Rids, tx \in DOMAIN chain : ConfirmByTx(r, tx)
    \/ \E i \in DOMAIN events : DuplicateRow(i)
    \/ Tick

Spec == Init /\ [][Next]_vars

-----------------------------------------------------------------------------
(* Properties *)

Events ==
    [kind : {"verdict"}, rid : Rids, cp : Cps, amount : Amounts, payer : Wallets \cup {"none"},
     verdict : Verdicts, ts : 0 .. MaxTime]
    \cup
    [kind : {"outcome"}, rid : Rids, outcome : Good \cup Bad \cup {"abandoned"},
     source : {"self-report", "chain-watch"}, tx : DOMAIN chain \cup {NoTx}, ts : 0 .. MaxTime]

TypeOK ==
    /\ events \in Seq(Events)
    /\ chain \in Seq([from : Wallets, to : Cps, amount : Amounts, ts : 0 .. MaxTime])
    /\ \A w \in Watchers : /\ watcher[w].pc \in {"idle", "scan", "record"}
                           /\ watcher[w].pc # "idle" => watcher[w].pending # <<>>
                           /\ watcher[w].pc = "record" => watcher[w].tx \in DOMAIN chain
    /\ copied \in BOOLEAN /\ raced \in BOOLEAN
    /\ now \in 0 .. MaxTime

\* The transfers that can be the payment a receipt is about.
PaymentsFor(rid) ==
    LET e == ByReceipt(events, rid)
    IN {tx \in DOMAIN chain : /\ chain[tx].to = e.cp
                              /\ chain[tx].amount = e.amount
                              /\ e.payer \in {"none", chain[tx].from}
                              /\ chain[tx].ts >= e.ts}

\* The settlement count is backed by the chain, whatever reports come in, rows are
\* duplicated and however many watchers race: every counted receipt has a transfer
\* of its amount from its payer to its counterparty made after its verdict, and
\* there are at least as many such transfers as counted receipts.
CountBacked ==
    \A cp \in Cps :
        /\ \A rid \in Settled(events, cp) : events[ChainTx(events, rid)].tx \in PaymentsFor(rid)
        /\ Cardinality(Settled(events, cp))
              <= Cardinality({tx \in DOMAIN chain : chain[tx].to = cp})

\* Later events never take a settlement back ("sticky"), so a report cannot erase
\* one and a counterparty's count only grows.
CountIsSticky ==
    [][\A cp \in Cps : Settled(events, cp) \subseteq Settled(events', cp)]_vars

NotReported(e) == e.kind = "verdict" \/ e.source = "chain-watch"

\* "you cannot dispute, price-anomaly-poison, or inflate a counterparty you never
\* actually paid" (aggregate_counterparties): without the reports the counted
\* receipts and their payers are the same, and every dispute is of one of them.
ReportsAreAdvisory ==
    LET unreported == Subsequence(events, {i \in DOMAIN events : NotReported(events[i])})
    IN \A cp \in Cps : /\ Settled(events, cp) = Settled(unreported, cp)
                       /\ Payers(events, cp) = Payers(unreported, cp)

\* What counts as settled is what the chain shows: no report, duplicate or race of
\* watchers adds a receipt to the count or takes one away.
CountSound == CountBacked /\ ReportsAreAdvisory

\* "A given on-chain tx settles exactly ONE payment, so it may confirm at most one
\* receipt" (confirm_pending): so it is over any number of passes and whatever is
\* reported in between, as long as passes follow each other.
TxConfirmsOne ==
    ~raced => \A i, j \in DOMAIN events :
        /\ events[i].kind = "outcome" /\ events[i].source = "chain-watch"
        /\ events[j].kind = "outcome" /\ events[j].source = "chain-watch"
        /\ events[i].tx = events[j].tx
        => events[i].rid = events[j].rid
=============================================================================
