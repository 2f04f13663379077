----------------------- MODULE SettlementWatchProofs -----------------------
(***************************************************************************)
(* The safety invariants of SettlementWatch and the stickiness of its      *)
(* count, for any receipts, counterparties, payers, amounts and watchers,  *)
(* any explorer page and any number of payments, rows and seconds.         *)
(***************************************************************************)
EXTENDS SettlementWatch, SubsequencesProofs

-----------------------------------------------------------------------------
(* The inductive invariant *)

VerdictRows ==
    [kind : {"verdict"}, rid : Rids, cp : Cps, amount : Amounts, payer : Wallets \cup {"none"},
     verdict : Verdicts, ts : 0 .. MaxTime]

OutcomeRows ==
    [kind : {"outcome"}, rid : Rids, outcome : Good \cup Bad \cup {"abandoned"},
     source : {"self-report", "chain-watch"}, tx : DOMAIN chain \cup {NoTx}, ts : 0 .. MaxTime]

Passes ==
    [pc : {"idle", "scan", "record"}, pending : Seq(VerdictRows), used : SUBSET (DOMAIN chain),
     tx : DOMAIN chain \cup {NoTx}]

Transfers == [from : Wallets, to : Cps, amount : Amounts, ts : 0 .. MaxTime]

Confirms(e) == e.kind = "outcome" /\ e.source = "chain-watch"

\* A receipt has one verdict, whatever is copied, and an outcome is of a receipt.
OneVerdict ==
    /\ \A i, j \in DOMAIN events :
          events[i].kind = "verdict" /\ events[j].kind = "verdict" /\ events[i].rid = events[j].rid
             => events[i] = events[j]
    /\ \A i \in DOMAIN events : events[i].kind = "outcome" => events[i].rid \in Receipts(events)

\* A confirmation is of a transfer that matches the verdict; so is one a watcher is about
\* to record, of a verdict that is in the ledger.
Backed ==
    /\ \A i \in DOMAIN events : Confirms(events[i]) =>
          /\ events[i].outcome = "settled" /\ events[i].tx \in DOMAIN chain
          /\ \E j \in DOMAIN events : /\ events[j].kind = "verdict" /\ events[j].rid = events[i].rid
                                      /\ Matches(events[i].tx, events[j])
    /\ \A w \in Watchers : \A k \in DOMAIN watcher[w].pending :
          \E j \in DOMAIN events : events[j] = watcher[w].pending[k]
    /\ \A w \in Watchers : watcher[w].pc = "record" => Matches(watcher[w].tx, Head(watcher[w].pending))

\* Until passes race, one watcher is at work, it knows every transfer that confirmed a
\* receipt, and it records one that has not.
OnePass ==
    ~raced =>
        /\ \A v, w \in Watchers : watcher[v].pc # "idle" /\ watcher[w].pc # "idle" => v = w
        /\ \A w \in Watchers : watcher[w].pc # "idle" =>
              \A i \in DOMAIN events : Confirms(events[i]) => events[i].tx \in watcher[w].used
        /\ \A w \in Watchers : watcher[w].pc = "record" => watcher[w].tx \notin watcher[w].used

IInv ==
    /\ TypeOK /\ watcher \in [Watchers -> Passes]
    /\ OneVerdict /\ Backed /\ OnePass /\ TxConfirmsOne

-----------------------------------------------------------------------------
(* Positions in the ledger *)

LEMMA LeastIs ==
    ASSUME NEW S \in SUBSET Nat, S # {}
    PROVE  Least(S) \in S /\ Least(S) \in Nat /\ \A j \in S : Least(S) <= j
  <1>1. \E m \in S : \A j \in S : m <= j
    BY SmallestElement
  <1> QED
    BY <1>1 DEF Least

LEMMA LeastUnique ==
    ASSUME NEW S \in SUBSET Nat, NEW m \in S, \A j \in S : m <= j
    PROVE  Least(S) = m
  <1>1. Least(S) \in S /\ Least(S) \in Nat /\ Least(S) <= m
    BY LeastIs
  <1>2. m \in Nat /\ m <= Least(S)
    BY <1>1
  <1> QED
    BY <1>1, <1>2

LEMMA GreatestIs ==
    ASSUME NEW S \in SUBSET Nat, S # {}, NEW n \in Nat, \A i \in S : i <= n
    PROVE  Greatest(S) \in S /\ \A j \in S : j <= Greatest(S)
  <1>1. PICK m \in S : \A j \in S : j <= m
    BY LargestElement
  <1>2. \A j \in S : m >= j
    BY <1>1
  <1>3. Greatest(S) \in S /\ \A j \in S : Greatest(S) >= j
    BY <1>2 DEF Greatest
  <1> QED
    BY <1>3

\* One verdict per receipt: by_receipt is that verdict, whichever copy is the last.
Unique(ev) ==
    \A i, j \in DOMAIN ev :
       ev[i].kind = "verdict" /\ ev[j].kind = "verdict" /\ ev[i].rid = ev[j].rid => ev[i] = ev[j]

LEMMA ByReceiptIs ==
    ASSUME NEW T, NEW ev \in Seq(T), Unique(ev), NEW i \in DOMAIN ev, ev[i].kind = "verdict"
    PROVE  ByReceipt(ev, ev[i].rid) = ev[i] /\ ev[i].rid \in Receipts(ev)
  <1> DEFINE V == VerdictsOf(ev, ev[i].rid)
  <1>1. i \in V /\ V \in SUBSET Nat /\ Len(ev) \in Nat /\ \A j \in V : j <= Len(ev)
    BY DEF VerdictsOf
  <1> HIDE DEF V
  <1>2. Greatest(V) \in V
    BY <1>1, GreatestIs
  <1>3. \A j \in V : ev[j] = ev[i]
    BY DEF V, VerdictsOf, Unique
  <1>4. ByReceipt(ev, ev[i].rid) = ev[i]
    BY <1>2, <1>3 DEF ByReceipt, V
  <1> QED
    BY <1>4 DEF Receipts

LEMMA ChainTxIs ==
    ASSUME NEW T, NEW ev \in Seq(T), NEW rid, Confirmations(ev, rid) # {}
    PROVE  /\ ChainTx(ev, rid) \in Confirmations(ev, rid)
           /\ ChainTx(ev, rid) \in DOMAIN ev /\ ChainTx(ev, rid) \in Nat
           /\ \A j \in Confirmations(ev, rid) : ChainTx(ev, rid) <= j
  <1>1. Confirmations(ev, rid) \in SUBSET (DOMAIN ev) /\ DOMAIN ev \in SUBSET Nat
    BY DEF Confirmations, OutcomesOf
  <1> QED
    BY <1>1, LeastIs DEF ChainTx

LEMMA ReceiptsHave ==
    ASSUME NEW ev, NEW rid \in Receipts(ev)
    PROVE  \E i \in DOMAIN ev : ev[i].kind = "verdict" /\ ev[i].rid = rid
  BY DEF Receipts

-----------------------------------------------------------------------------
(* Types *)

LEMMA ChainFacts ==
    ASSUME TypeOK
    PROVE  /\ chain \in Seq(Transfers) /\ Len(chain) \in Nat /\ DOMAIN chain = 1 .. Len(chain)
           /\ NoTx \notin DOMAIN chain
           /\ now \in 0 .. MaxTime
  <1>1. chain \in Seq(Transfers) /\ now \in 0 .. MaxTime
    BY DEF TypeOK, Transfers
  <1>2. Len(chain) \in Nat /\ DOMAIN chain = 1 .. Len(chain)
    BY <1>1
  <1>3. NoTx \notin Nat \ {0}
    BY WatchAssumption
  <1> QED
    BY <1>1, <1>2, <1>3

LEMMA RowFacts ==
    ASSUME NEW e \in Events
    PROVE  /\ e \in VerdictRows \/ e \in OutcomeRows
           /\ e.kind = "verdict" <=> e \in VerdictRows
           /\ e.kind = "outcome" <=> e \in OutcomeRows
           /\ e.kind = "verdict" => ~Confirms(e)
  <1>1. e \in VerdictRows \/ e \in OutcomeRows
    BY DEF Events, VerdictRows, OutcomeRows
  <1>2. e \in VerdictRows => e.kind = "verdict"
    BY DEF VerdictRows
  <1>3. e \in OutcomeRows => e.kind = "outcome"
    BY DEF OutcomeRows
  <1> QED
    BY <1>1, <1>2, <1>3 DEF Confirms

LEMMA EventsAre == Events = VerdictRows \cup OutcomeRows
  BY DEF Events, VerdictRows, OutcomeRows

LEMMA LedgerFacts ==
    ASSUME TypeOK
    PROVE  /\ events \in Seq(Events) /\ Len(events) \in Nat /\ DOMAIN events = 1 .. Len(events)
           /\ \A i \in DOMAIN events : events[i] \in Events
  <1>1. events \in Seq(Events)
    BY DEF TypeOK
  <1> QED
    BY <1>1

LEMMA VerdictType ==
    ASSUME TypeOK, NEW r \in Rids, NEW cp \in Cps, NEW a \in Amounts, NEW p \in Wallets \cup {"none"},
           NEW v \in Verdicts
    PROVE  Verdict(r, cp, a, p, v) \in VerdictRows /\ Verdict(r, cp, a, p, v).rid = r
  BY DEF Verdict, VerdictRows, TypeOK

LEMMA OutcomeType ==
    ASSUME TypeOK, NEW r \in Rids, NEW o \in Good \cup Bad \cup {"abandoned"},
           NEW s \in {"self-report", "chain-watch"}, NEW tx \in DOMAIN chain \cup {NoTx}
    PROVE  /\ Outcome(r, o, s, tx) \in OutcomeRows
           /\ Outcome(r, o, s, tx).rid = r /\ Outcome(r, o, s, tx).outcome = o
           /\ Outcome(r, o, s, tx).source = s /\ Outcome(r, o, s, tx).tx = tx
  BY DEF Outcome, OutcomeRows, TypeOK

LEMMA RestingType ==
    Resting \in Passes /\ Resting.pc = "idle" /\ DOMAIN Resting.pending = {}
  <1>1. <<>> \in Seq(VerdictRows) /\ DOMAIN <<>> = {}
    OBVIOUS
  <1> QED
    BY <1>1 DEF Resting, Passes

-----------------------------------------------------------------------------
(* What a step does to the ledger, to the chain and to a watcher *)

\* The transfer a row names settles the verdict of the row's receipt.
IsBacked(e) ==
    /\ e.outcome = "settled" /\ e.tx \in DOMAIN chain
    /\ \E j \in DOMAIN events : /\ events[j].kind = "verdict" /\ events[j].rid = e.rid
                                /\ Matches(e.tx, events[j])

\* A row of a new receipt, a copy, or an outcome of a known receipt, matched when it confirms.
MayAppend(e) ==
    \/ e \in VerdictRows /\ e.rid \notin Receipts(events)
    \/ \E i \in DOMAIN events : e = events[i]
    \/ e \in OutcomeRows /\ e.rid \in Receipts(events) /\ (Confirms(e) => IsBacked(e))

\* A pass over verdicts of the ledger, with a match when there is one to record.
MayPass(p) ==
    /\ p \in Passes
    /\ p.pc # "idle" => p.pending # <<>>
    /\ p.pc = "record" => p.tx \in DOMAIN chain /\ Matches(p.tx, Head(p.pending))
    /\ \A k \in DOMAIN p.pending : \E j \in DOMAIN events : events[j] = p.pending[k]

LEMMA PassFacts ==
    ASSUME IInv, NEW w \in Watchers, watcher[w].pc # "idle"
    PROVE  /\ MayPass(watcher[w])
           /\ watcher[w].pending \in Seq(VerdictRows) /\ watcher[w].pending # <<>>
           /\ Len(watcher[w].pending) \in Nat /\ 1 \in DOMAIN watcher[w].pending
           /\ Head(watcher[w].pending) = watcher[w].pending[1]
           /\ Head(watcher[w].pending) \in VerdictRows
           /\ watcher[w].used \in SUBSET (DOMAIN chain)
           /\ \E j \in DOMAIN events : events[j] = Head(watcher[w].pending)
  <1>1. watcher[w] \in Passes
    BY DEF IInv
  <1>2. watcher[w].pending \in Seq(VerdictRows) /\ watcher[w].used \in SUBSET (DOMAIN chain)
    BY <1>1 DEF Passes
  <1>3. watcher[w].pending # <<>>
    BY DEF IInv, TypeOK
  <1>4. /\ 1 \in DOMAIN watcher[w].pending /\ Head(watcher[w].pending) = watcher[w].pending[1]
        /\ Head(watcher[w].pending) \in VerdictRows /\ Len(watcher[w].pending) \in Nat
    BY <1>2, <1>3
  <1>5. \A k \in DOMAIN watcher[w].pending : \E j \in DOMAIN events : events[j] = watcher[w].pending[k]
    BY DEF IInv, Backed
  <1>6. MayPass(watcher[w])
    BY <1>1, <1>5 DEF MayPass, IInv, TypeOK, Backed
  <1> QED
    BY <1>2, <1>3, <1>4, <1>5, <1>6

\* What is left of a pass: nothing, or the rest of its verdicts.
LEMMA ContinuePass ==
    ASSUME IInv, NEW w \in Watchers, watcher[w].pc # "idle", NEW used \in SUBSET (DOMAIN chain),
           Continue(w, used)
    PROVE  \E p : /\ MayPass(p) /\ watcher' = [watcher EXCEPT ![w] = p]
                  /\ p.pc = "idle" \/ (p.pc = "scan" /\ p.used = used)
  <1> DEFINE s == watcher[w].pending
  <1>1. /\ s \in Seq(VerdictRows) /\ s # <<>> /\ MayPass(watcher[w])
    BY PassFacts
  <1>2. CASE Len(s) = 1
    <2>1. watcher' = [watcher EXCEPT ![w] = Resting]
      BY <1>2 DEF Continue
    <2>2. MayPass(Resting) /\ Resting.pc = "idle"
      BY RestingType DEF MayPass
    <2> QED
      BY <2>1, <2>2
  <1>3. CASE Len(s) # 1
    <2> DEFINE p == [pc |-> "scan", pending |-> Tail(s), used |-> used, tx |-> NoTx]
    <2>1. watcher' = [watcher EXCEPT ![w] = p]
      BY <1>3 DEF Continue
    <2>2. Tail(s) \in Seq(VerdictRows) /\ Tail(s) # <<>>
      <3>1. Len(s) \in Nat /\ Len(s) # 0
        BY <1>1
      <3>2. Tail(s) \in Seq(VerdictRows) /\ Len(Tail(s)) = Len(s) - 1
        BY <1>1
      <3>3. Len(Tail(s)) # 0 /\ Len(<<>>) = 0
        BY <1>3, <3>1, <3>2
      <3>4. Tail(s) # <<>>
        BY <3>3, Zenon
      <3> QED
        BY <3>2, <3>4
    <2>3. \A k \in DOMAIN Tail(s) : k + 1 \in DOMAIN s /\ Tail(s)[k] = s[k + 1]
      BY <1>1
    <2>4. p \in Passes /\ p.pc = "scan" /\ p.used = used /\ p.pending = Tail(s)
      BY <2>2 DEF Passes
    <2>5. \A k \in DOMAIN p.pending : \E j \in DOMAIN events : events[j] = p.pending[k]
      BY <1>1, <2>3, <2>4 DEF MayPass
    <2>6. MayPass(p)
      BY <2>2, <2>4, <2>5 DEF MayPass
    <2> HIDE DEF p
    <2> QED
      BY <2>1, <2>4, <2>6
  <1> QED
    BY <1>2, <1>3

\* The last verdict of a receipt is in the ledger.
LEMMA ByReceiptIsThere ==
    ASSUME IInv, NEW r \in Receipts(events)
    PROVE  \E j \in DOMAIN events : /\ events[j].kind = "verdict" /\ events[j].rid = r
                                    /\ events[j] = ByReceipt(events, r)
  <1>1. PICK i \in DOMAIN events : events[i].kind = "verdict" /\ events[i].rid = r
    BY ReceiptsHave
  <1>2. events \in Seq(Events) /\ Unique(events)
    BY DEF IInv, TypeOK, OneVerdict, Unique
  <1>3. ByReceipt(events, r) = events[i]
    BY <1>1, <1>2, ByReceiptIs
  <1> QED
    BY <1>1, <1>3

LEMMA ReceiptsType == ASSUME TypeOK PROVE Receipts(events) \subseteq Rids
  <1>1. ASSUME NEW i \in DOMAIN events, events[i].kind = "verdict" PROVE events[i].rid \in Rids
    BY <1>1, LedgerFacts, RowFacts DEF VerdictRows
  <1> QED
    BY <1>1 DEF Receipts

LedgerSame == events' = events /\ chain' = chain
LedgerGrows == chain' = chain /\ \E e \in Events : MayAppend(e) /\ events' = Append(events, e)
ChainGrows ==
    events' = events /\ watcher' = watcher /\ \E t \in Transfers : chain' = Append(chain, t)

WatcherMoves ==
    \E w \in Watchers : \E p : MayPass(p) /\ watcher' = [watcher EXCEPT ![w] = p]

LEMMA RecordVerdictStep ==
    ASSUME IInv, NEW r \in Rids, NEW cp \in Cps, NEW a \in Amounts, NEW p \in Wallets \cup {"none"},
           NEW v \in Verdicts, RecordVerdict(r, cp, a, p, v)
    PROVE  LedgerGrows /\ watcher' = watcher
  <1> DEFINE e == Verdict(r, cp, a, p, v)
  <1>1. e \in VerdictRows /\ e.rid = r
    BY VerdictType DEF IInv
  <1>2. events' = Append(events, e) /\ r \notin Receipts(events) /\ chain' = chain /\ watcher' = watcher
    BY DEF RecordVerdict, Record
  <1> HIDE DEF e
  <1> QED
    BY <1>1, <1>2, EventsAre DEF LedgerGrows, MayAppend

LEMMA ReportOutcomeStep ==
    ASSUME IInv, NEW r \in Rids, NEW o \in Reports, NEW tx \in DOMAIN chain \cup {NoTx},
           ReportOutcome(r, o, tx)
    PROVE  LedgerGrows /\ watcher' = watcher
  <1> DEFINE e == Outcome(r, o, "self-report", tx)
  <1>1. o \in Good \cup Bad \cup {"abandoned"}
    BY WatchAssumption
  <1>2. e \in OutcomeRows /\ e.rid = r /\ e.source = "self-report"
    BY <1>1, OutcomeType DEF IInv
  <1>3. events' = Append(events, e) /\ r \in Receipts(events) /\ chain' = chain /\ watcher' = watcher
    BY DEF ReportOutcome, Record
  <1> HIDE DEF e
  <1>4. ~Confirms(e)
    BY <1>2 DEF Confirms
  <1> QED
    BY <1>2, <1>3, <1>4, EventsAre DEF LedgerGrows, MayAppend

LEMMA TransferStep ==
    ASSUME IInv, NEW from \in Wallets, NEW to \in Cps, NEW a \in Amounts, Transfer(from, to, a)
    PROVE  ChainGrows
  <1>1. [from |-> from, to |-> to, amount |-> a, ts |-> now] \in Transfers
    BY ChainFacts DEF IInv, Transfers
  <1> QED
    BY <1>1 DEF Transfer, ChainGrows

\* The rows a pass starts from are verdicts of the ledger.
LEMMA ReadLedgerStep ==
    ASSUME IInv, NEW w \in Watchers, ReadLedger(w)
    PROVE  /\ LedgerSame /\ WatcherMoves
           /\ \E p : /\ p.pc = "scan" /\ p.used = UsedTx
                     /\ watcher' = [watcher EXCEPT ![w] = p]
  <1> DEFINE isPending(e) == /\ e.kind = "verdict" /\ e.verdict = "GO"
                             /\ e.rid \notin HaveOutcome
             I == {i \in DOMAIN events : isPending(events[i])}
             rows == Subsequence(events, I)
             p == [pc |-> "scan", pending |-> rows, used |-> UsedTx, tx |-> NoTx]
  <1>1. rows # <<>> /\ watcher' = [watcher EXCEPT ![w] = p] /\ events' = events /\ chain' = chain
    BY DEF ReadLedger
  <1>2. TypeOK /\ events \in Seq(Events)
    BY DEF IInv, TypeOK
  <1>3. \A i \in I : i \in DOMAIN events /\ events[i] \in VerdictRows
    BY <1>2, LedgerFacts, RowFacts
  <1>4. UsedTx \in SUBSET (DOMAIN chain)
    <2>1. ASSUME NEW i \in DOMAIN events, events[i].kind = "outcome"
          PROVE  events[i].tx \in DOMAIN chain \cup {NoTx}
      BY <1>2, <2>1, LedgerFacts, RowFacts DEF OutcomeRows
    <2> QED
      BY <2>1 DEF UsedTx
  <1>5. I \in SUBSET (DOMAIN events)
    OBVIOUS
  <1> HIDE DEF I
  <1>6. /\ rows \in Seq(Events) /\ DOMAIN rows = 1 .. Cardinality(I)
        /\ \A k \in 1 .. Cardinality(I) : rows[k] = events[Nth(I, k)] /\ Nth(I, k) \in I
    BY <1>2, <1>5, SubsequenceKeeps
  <1> HIDE DEF rows
  <1>7. \A k \in DOMAIN rows : rows[k] \in VerdictRows /\ \E j \in DOMAIN events : events[j] = rows[k]
    BY <1>3, <1>6
  <1>8. rows \in Seq(VerdictRows)
    <2>1. Len(rows) \in Nat /\ DOMAIN rows = 1 .. Len(rows) /\ rows \in [1 .. Len(rows) -> Events]
      BY <1>6
    <2>2. rows \in [1 .. Len(rows) -> VerdictRows]
      BY <1>7, <2>1
    <2> QED
      BY <2>1, <2>2
  <1>9. p \in Passes /\ p.pc = "scan" /\ p.pending = rows /\ p.used = UsedTx
    BY <1>4, <1>8 DEF Passes
  <1> HIDE DEF p
  <1>10. MayPass(p)
    BY <1>1, <1>7, <1>9 DEF MayPass
  <1> QED
    BY <1>1, <1>9, <1>10 DEF LedgerSame, WatcherMoves

LEMMA ScanMatches ==
    ASSUME IInv, NEW e, Scan(e) # NoTx
    PROVE  Scan(e) \in DOMAIN chain /\ Matches(Scan(e), e)
  <1> DEFINE found == {tx \in Inbound(e.cp) : Matches(tx, e)}
  <1>1. found # {} /\ Scan(e) = Greatest(found)
    BY DEF Scan
  <1>2. found \in SUBSET (DOMAIN chain)
    BY DEF Inbound
  <1>3. DOMAIN chain \in SUBSET Nat /\ Len(chain) \in Nat /\ \A i \in DOMAIN chain : i <= Len(chain)
    BY ChainFacts DEF IInv
  <1> HIDE DEF found
  <1>4. found \in SUBSET Nat /\ \A i \in found : i <= Len(chain)
    BY <1>2, <1>3
  <1>5. Greatest(found) \in found
    BY <1>1, <1>3, <1>4, GreatestIs
  <1> QED
    BY <1>1, <1>2, <1>5 DEF found

LEMMA ScanFindsStep ==
    ASSUME IInv, NEW w \in Watchers, ScanFinds(w)
    PROVE  /\ LedgerSame /\ WatcherMoves
           /\ \E p : /\ p.pc = "record" /\ p.used = watcher[w].used /\ p.tx \notin p.used
                     /\ watcher' = [watcher EXCEPT ![w] = p]
  <1> DEFINE old == watcher[w]
             tx == Scan(Head(old.pending))
             p == [old EXCEPT !.pc = "record", !.tx = tx]
  <1>1. /\ old.pc = "scan" /\ tx # NoTx /\ tx \notin old.used
        /\ watcher' = [watcher EXCEPT ![w].pc = "record", ![w].tx = tx]
        /\ LedgerSame
    BY DEF ScanFinds, LedgerSame
  <1>2. MayPass(old) /\ old \in Passes /\ old.pending # <<>>
    BY <1>1, PassFacts DEF MayPass
  <1>3. tx \in DOMAIN chain /\ Matches(tx, Head(old.pending))
    BY <1>1, ScanMatches
  <1>4. watcher \in [Watchers -> Passes]
    BY DEF IInv
  <1> HIDE DEF tx
  <1>5. watcher' = [watcher EXCEPT ![w] = p]
    BY <1>1, <1>4
  <1>6. p \in Passes /\ p.pc = "record" /\ p.tx = tx /\ p.used = old.used /\ p.pending = old.pending
    BY <1>2, <1>3 DEF Passes
  <1> HIDE DEF p, old
  <1>7. MayPass(p)
    BY <1>2, <1>3, <1>6 DEF MayPass
  <1> QED
    BY <1>1, <1>5, <1>6, <1>7 DEF WatcherMoves, old

LEMMA ScanSkipsStep ==
    ASSUME IInv, NEW w \in Watchers, ScanSkips(w)
    PROVE  /\ LedgerSame /\ WatcherMoves
           /\ \E p : /\ p.pc = "idle" \/ (p.pc = "scan" /\ p.used = watcher[w].used)
                     /\ watcher' = [watcher EXCEPT ![w] = p]
  <1>1. watcher[w].pc # "idle" /\ Continue(w, watcher[w].used) /\ LedgerSame
    BY DEF ScanSkips, LedgerSame
  <1>2. watcher[w].used \in SUBSET (DOMAIN chain)
    BY <1>1, PassFacts
  <1>3. PICK p : /\ MayPass(p) /\ watcher' = [watcher EXCEPT ![w] = p]
                 /\ p.pc = "idle" \/ (p.pc = "scan" /\ p.used = watcher[w].used)
    BY <1>1, <1>2, ContinuePass
  <1> QED
    BY <1>1, <1>3 DEF WatcherMoves

LEMMA ScanFailsStep ==
    ASSUME IInv, NEW w \in Watchers, ScanFails(w)
    PROVE  LedgerSame /\ WatcherMoves /\ watcher' = [watcher EXCEPT ![w] = Resting]
  <1>1. MayPass(Resting)
    BY RestingType DEF MayPass
  <1> QED
    BY <1>1 DEF ScanFails, LedgerSame, WatcherMoves

\* What is recorded is the match, of a receipt whose verdict is in the ledger.
LEMMA RecordSettledStep ==
    ASSUME IInv, NEW w \in Watchers, RecordSettled(w)
    PROVE  /\ LedgerGrows /\ WatcherMoves
           /\ watcher[w].pc = "record"
           /\ \E e \in Events : Confirms(e) /\ e.tx = watcher[w].tx /\ events' = Append(events, e)
           /\ \E p : /\ p.pc = "idle" \/ (p.pc = "scan" /\ p.used = watcher[w].used \cup {watcher[w].tx})
                     /\ watcher' = [watcher EXCEPT ![w] = p]
  <1> DEFINE h == Head(watcher[w].pending)
             tx == watcher[w].tx
             e == Outcome(h.rid, "settled", "chain-watch", tx)
  <1>1. /\ watcher[w].pc = "record" /\ events' = Append(events, e) /\ chain' = chain
        /\ Continue(w, watcher[w].used \cup {tx})
    BY DEF RecordSettled, Record
  <1>2. tx \in DOMAIN chain /\ Matches(tx, h)
    BY <1>1 DEF IInv, TypeOK, Backed
  <1>3. PICK j \in DOMAIN events : events[j] = h
    BY <1>1, PassFacts
  <1>4. h \in VerdictRows
    BY <1>1, PassFacts
  <1> HIDE DEF h, tx
  <1>5. h.kind = "verdict" /\ h.rid \in Rids
    BY <1>4 DEF VerdictRows
  <1>6. h.rid \in Receipts(events)
    BY <1>3, <1>5 DEF Receipts
  <1>7. "settled" \in Good
    BY DEF Good
  <1>8. /\ e \in OutcomeRows /\ e.rid = h.rid /\ e.outcome = "settled" /\ e.source = "chain-watch"
        /\ e.tx = tx
    BY <1>2, <1>5, <1>7, OutcomeType DEF IInv
  <1> HIDE DEF e
  <1>9. IsBacked(e)
    BY <1>2, <1>3, <1>5, <1>8 DEF IsBacked
  <1>10. e \in Events /\ Confirms(e)
    BY <1>8, EventsAre, RowFacts DEF Confirms
  <1>11. LedgerGrows
    BY <1>1, <1>6, <1>8, <1>9, <1>10 DEF LedgerGrows, MayAppend
  <1>12. watcher[w].used \cup {tx} \in SUBSET (DOMAIN chain)
    BY <1>1, <1>2, PassFacts
  <1>13. PICK p : /\ MayPass(p) /\ watcher' = [watcher EXCEPT ![w] = p]
                  /\ p.pc = "idle" \/ (p.pc = "scan" /\ p.used = watcher[w].used \cup {tx})
    BY <1>1, <1>12, ContinuePass
  <1> QED
    BY <1>1, <1>8, <1>10, <1>11, <1>13 DEF WatcherMoves, tx

LEMMA ConfirmByTxStep ==
    ASSUME IInv, NEW r \in Rids, NEW tx \in DOMAIN chain, ConfirmByTx(r, tx)
    PROVE  LedgerGrows /\ watcher' = watcher
  <1> DEFINE e == Outcome(r, "settled", "chain-watch", tx)
  <1>1. /\ r \in Receipts(events) /\ Matches(tx, ByReceipt(events, r))
        /\ events' = Append(events, e) /\ chain' = chain /\ watcher' = watcher
    BY DEF ConfirmByTx, Record
  <1>2. "settled" \in Good
    BY DEF Good
  <1>3. /\ e \in OutcomeRows /\ e.rid = r /\ e.outcome = "settled" /\ e.tx = tx
    BY <1>2, OutcomeType DEF IInv
  <1> HIDE DEF e
  <1>4. IsBacked(e)
    BY <1>1, <1>3, ByReceiptIsThere DEF IsBacked
  <1> QED
    BY <1>1, <1>3, <1>4, EventsAre DEF LedgerGrows, MayAppend

LEMMA DuplicateRowStep ==
    ASSUME IInv, NEW i \in DOMAIN events, DuplicateRow(i)
    PROVE  LedgerGrows /\ watcher' = watcher
  <1>1. events[i] \in Events
    BY LedgerFacts DEF IInv
  <1> QED
    BY <1>1 DEF DuplicateRow, Record, LedgerGrows, MayAppend

\* Every step appends to the ledger, to the chain, or to neither, and moves one watcher
\* at most.
LEMMA StepShape ==
    ASSUME IInv, [Next]_vars
    PROVE  /\ LedgerSame \/ LedgerGrows \/ ChainGrows
           /\ watcher' = watcher \/ WatcherMoves
  <1>1. CASE Service
    BY <1>1, RecordVerdictStep, ReportOutcomeStep DEF Service
  <1>2. CASE \E from \in Wallets, to \in Cps, a \in Amounts : Transfer(from, to, a)
    BY <1>2, TransferStep DEF ChainGrows
  <1>3. CASE \E w \in Watchers : Watch(w) \/ ScanFails(w)
    BY <1>3, ReadLedgerStep, ScanFindsStep, ScanSkipsStep, ScanFailsStep, RecordSettledStep DEF Watch
  <1>4. CASE \E r \in Rids, tx \in DOMAIN chain : ConfirmByTx(r, tx)
    BY <1>4, ConfirmByTxStep
  <1>5. CASE \E i \in DOMAIN events : DuplicateRow(i)
    BY <1>5, DuplicateRowStep
  <1>6. CASE Tick \/ UNCHANGED vars
    BY <1>6 DEF Tick, vars, LedgerSame
  <1> QED
    BY <1>1, <1>2, <1>3, <1>4, <1>5, <1>6 DEF Next

-----------------------------------------------------------------------------
(* The invariant is inductive *)

LEMMA InitInv == Init => IInv
  <1> SUFFICES ASSUME Init PROVE IInv
    OBVIOUS
  <1>1. /\ events = <<>> /\ chain = <<>> /\ copied = FALSE /\ raced = FALSE /\ now = 0
        /\ \A w \in Watchers : watcher[w] = Resting
        /\ watcher = [w \in Watchers |-> Resting]
    BY DEF Init
  <1>2. events \in Seq(Events) /\ DOMAIN events = {} /\ chain \in Seq(Transfers) /\ DOMAIN chain = {}
    BY <1>1
  <1>3. 0 \in 0 .. MaxTime
    BY WatchAssumption
  <1>4. Resting.pc = "idle" /\ Resting \in Passes /\ DOMAIN Resting.pending = {}
    BY RestingType
  <1>5. TypeOK
    BY <1>1, <1>2, <1>3, <1>4 DEF TypeOK, Transfers
  <1>6. watcher \in [Watchers -> Passes]
    BY <1>1, <1>4
  <1>7. OneVerdict /\ TxConfirmsOne
    BY <1>2 DEF OneVerdict, TxConfirmsOne
  <1>8. Backed
    BY <1>1, <1>2, <1>4 DEF Backed
  <1>9. OnePass
    BY <1>1, <1>4 DEF OnePass
  <1> QED
    BY <1>5, <1>6, <1>7, <1>8, <1>9 DEF IInv

\* Transfers stay where they are, so a match stays one and the types only grow.
LEMMA ChainKept ==
    ASSUME IInv, [Next]_vars
    PROVE  /\ DOMAIN chain \subseteq DOMAIN chain' /\ chain' \in Seq(Transfers)
           /\ \A k \in DOMAIN chain : chain'[k] = chain[k]
  <1>1. chain \in Seq(Transfers)
    BY ChainFacts DEF IInv
  <1>2. CASE \E t \in Transfers : chain' = Append(chain, t)
    <2>1. PICK t \in Transfers : chain' = Append(chain, t)
      BY <1>2
    <2> QED
      BY <1>1, <2>1, AppendPositions
  <1>3. CASE chain' = chain
    BY <1>1, <1>3
  <1> QED
    BY <1>2, <1>3, StepShape DEF LedgerSame, LedgerGrows, ChainGrows

LEMMA MatchKept ==
    ASSUME IInv, [Next]_vars, NEW tx \in DOMAIN chain, NEW e, Matches(tx, e)
    PROVE  /\ chain'[tx].to = e.cp /\ chain'[tx].amount = e.amount
           /\ e.payer # "none" => chain'[tx].from = e.payer
           /\ chain'[tx].ts >= e.ts
  BY ChainKept DEF Matches

LEMMA TypesGrow ==
    ASSUME IInv, [Next]_vars
    PROVE  Events \subseteq Events' /\ Passes \subseteq Passes' /\ OutcomeRows \subseteq OutcomeRows'
  <1>1. DOMAIN chain \subseteq DOMAIN chain'
    BY ChainKept
  <1>2. OutcomeRows \subseteq OutcomeRows'
    BY <1>1 DEF OutcomeRows
  <1>3. Passes \subseteq Passes'
    BY <1>1 DEF Passes
  <1>4. Events' = VerdictRows \cup OutcomeRows' /\ Events = VerdictRows \cup OutcomeRows
    BY DEF Events, VerdictRows, OutcomeRows
  <1> QED
    BY <1>2, <1>3, <1>4

\* The rows there are stay where they are.
LEMMA RowsKept ==
    ASSUME IInv, [Next]_vars
    PROVE  /\ events' \in Seq(Events) /\ DOMAIN events \subseteq DOMAIN events'
           /\ Len(events) \in Nat /\ DOMAIN events = 1 .. Len(events)
           /\ \A i \in DOMAIN events : events'[i] = events[i]
           /\ \A i \in DOMAIN events' :
                 i \in DOMAIN events \/ (i = Len(events) + 1 /\ MayAppend(events'[i]) /\ events'[i] \in Events)
  <1>1. events \in Seq(Events) /\ Len(events) \in Nat /\ DOMAIN events = 1 .. Len(events)
    BY LedgerFacts DEF IInv
  <1>2. CASE events' = events
    BY <1>1, <1>2
  <1>3. CASE \E e \in Events : MayAppend(e) /\ events' = Append(events, e)
    <2>1. PICK e \in Events : MayAppend(e) /\ events' = Append(events, e)
      BY <1>3
    <2> QED
      BY <1>1, <2>1, AppendPositions
  <1> QED
    BY <1>2, <1>3, StepShape DEF LedgerSame, LedgerGrows, ChainGrows

LEMMA TypeStep ==
    ASSUME IInv, [Next]_vars
    PROVE  TypeOK' /\ watcher' \in [Watchers -> Passes']
  <1>1. events' \in Seq(Events')
    <2>1. Len(events') \in Nat /\ events' \in [1 .. Len(events') -> Events]
      BY RowsKept
    <2>2. events' \in [1 .. Len(events') -> Events']
      BY <2>1, TypesGrow
    <2> QED
      BY <2>1, <2>2
  <1>2. chain' \in Seq([from : Wallets, to : Cps, amount : Amounts, ts : 0 .. MaxTime])
    BY ChainKept DEF Transfers
  <1>3. /\ copied' \in BOOLEAN /\ raced' \in BOOLEAN /\ now' \in 0 .. MaxTime
    <2>1. copied \in BOOLEAN /\ raced \in BOOLEAN /\ now \in 0 .. MaxTime /\ MaxTime \in Nat
      BY WatchAssumption DEF IInv, TypeOK
    <2>2. now' = now \/ (now < MaxTime /\ now' = now + 1)
      BY DEF Next, vars, Service, RecordVerdict, ReportOutcome, Transfer, Watch, ReadLedger,
             ScanFinds, ScanSkips, ScanFails, RecordSettled, ConfirmByTx, DuplicateRow, Tick
    <2>3. copied' = copied \/ copied' = TRUE
      BY DEF Next, vars, Service, RecordVerdict, ReportOutcome, Transfer, Watch, ReadLedger,
             ScanFinds, ScanSkips, ScanFails, RecordSettled, ConfirmByTx, DuplicateRow, Tick
    <2>4. \/ raced' = raced \/ raced' = TRUE
          \/ raced' = (raced \/ \E v \in Watchers : watcher[v].pc # "idle")
      BY DEF Next, vars, Service, RecordVerdict, ReportOutcome, Transfer, Watch, ReadLedger,
             ScanFinds, ScanSkips, ScanFails, RecordSettled, ConfirmByTx, DuplicateRow, Tick
    <2>5. now' \in 0 .. MaxTime
      BY <2>1, <2>2
    <2> QED
      BY <2>1, <2>3, <2>4, <2>5
  <1>4. /\ watcher' \in [Watchers -> Passes']
        /\ \A w \in Watchers : /\ watcher'[w].pc # "idle" => watcher'[w].pending # <<>>
                               /\ watcher'[w].pc = "record" => watcher'[w].tx \in DOMAIN chain'
    <2>1. watcher \in [Watchers -> Passes]
      BY DEF IInv
    <2>2. \A w \in Watchers : /\ watcher[w].pc # "idle" => watcher[w].pending # <<>>
                              /\ watcher[w].pc = "record" => watcher[w].tx \in DOMAIN chain
      BY DEF IInv, TypeOK
    <2>3. DOMAIN chain \subseteq DOMAIN chain' /\ Passes \subseteq Passes'
      BY ChainKept, TypesGrow
    <2>4. CASE watcher' = watcher
      BY <2>1, <2>2, <2>3, <2>4
    <2>5. CASE WatcherMoves
      <3>0. PICK w \in Watchers : \E q : MayPass(q) /\ watcher' = [watcher EXCEPT ![w] = q]
        BY <2>5 DEF WatcherMoves
      <3>1. PICK p : MayPass(p) /\ watcher' = [watcher EXCEPT ![w] = p]
        BY <3>0
      <3>2. /\ p \in Passes
            /\ p.pc # "idle" => p.pending # <<>>
            /\ p.pc = "record" => p.tx \in DOMAIN chain
        BY <3>1 DEF MayPass
      <3>3. watcher' \in [Watchers -> Passes]
        BY <2>1, <3>1, <3>2
      <3>4. \A v \in Watchers : watcher'[v] = IF v = w THEN p ELSE watcher[v]
        BY <2>1, <3>1
      <3> QED
        BY <2>2, <2>3, <3>2, <3>3, <3>4
    <2> QED
      BY <2>4, <2>5, StepShape
  <1>5. \A w \in Watchers : watcher'[w].pc \in {"idle", "scan", "record"}
    BY <1>4 DEF Passes
  <1> QED
    BY <1>1, <1>2, <1>3, <1>4, <1>5 DEF TypeOK

\* A verdict is written for a receipt that has none, or copied.
LEMMA OneVerdictStep ==
    ASSUME IInv, [Next]_vars
    PROVE  OneVerdict'
  <1>1. /\ \A i, j \in DOMAIN events :
              events[i].kind = "verdict" /\ events[j].kind = "verdict" /\ events[i].rid = events[j].rid
                 => events[i] = events[j]
        /\ \A i \in DOMAIN events : events[i].kind = "outcome" => events[i].rid \in Receipts(events)
    BY DEF IInv, OneVerdict
  <1>2. \A i \in DOMAIN events' :
           \/ i \in DOMAIN events /\ events'[i] = events[i]
           \/ i = Len(events) + 1 /\ MayAppend(events'[i]) /\ events'[i] \in Events
    BY RowsKept
  \* A row is one that was there, a verdict of a new receipt, or an outcome of a known one.
  <1>3. \A i \in DOMAIN events' :
           \/ \E j \in DOMAIN events : events'[i] = events[j]
           \/ i = Len(events) + 1 /\ events'[i].kind = "verdict" /\ events'[i].rid \notin Receipts(events)
           \/ events'[i].kind = "outcome" /\ events'[i].rid \in Receipts(events)
    BY <1>2, RowFacts DEF MayAppend
  <1>4. \A j \in DOMAIN events : events[j].kind = "verdict" => events[j].rid \in Receipts(events)
    BY DEF Receipts
  <1>5. "verdict" # "outcome"
    OBVIOUS
  <1>6. ASSUME NEW i \in DOMAIN events', NEW j \in DOMAIN events', events'[i].kind = "verdict",
               events'[j].kind = "verdict", events'[i].rid = events'[j].rid
        PROVE  events'[i] = events'[j]
    <2>1. CASE events'[i].rid \in Receipts(events)
      BY <1>1, <1>3, <1>5, <1>6, <2>1
    <2>2. CASE events'[i].rid \notin Receipts(events)
      BY <1>3, <1>4, <1>5, <1>6, <2>2
    <2> QED
      BY <2>1, <2>2
  <1>7. Receipts(events) \subseteq Receipts(events')
    <2>1. ASSUME NEW r \in Receipts(events) PROVE r \in Receipts(events')
      <3>1. PICK i \in DOMAIN events : events[i].kind = "verdict" /\ events[i].rid = r
        BY ReceiptsHave
      <3>2. i \in DOMAIN events' /\ events'[i].kind = "verdict" /\ events'[i].rid = r
        BY <3>1, RowsKept
      <3> QED
        BY <3>2 DEF Receipts
    <2> QED
      BY <2>1
  <1>8. ASSUME NEW i \in DOMAIN events', events'[i].kind = "outcome"
        PROVE  events'[i].rid \in Receipts(events')
    BY <1>1, <1>3, <1>5, <1>7, <1>8
  <1> QED
    BY <1>6, <1>8 DEF OneVerdict

LEMMA BackedStep ==
    ASSUME IInv, [Next]_vars
    PROVE  Backed'
  <1>1. /\ DOMAIN events \subseteq DOMAIN events' /\ \A i \in DOMAIN events : events'[i] = events[i]
        /\ DOMAIN chain \subseteq DOMAIN chain'
    BY RowsKept, ChainKept
  <1>2. \A i \in DOMAIN events : Confirms(events[i]) => IsBacked(events[i])
    BY DEF IInv, Backed, IsBacked
  <1>3. \A i \in DOMAIN events' : Confirms(events'[i]) => IsBacked(events'[i])
    <2>1. ASSUME NEW i \in DOMAIN events', Confirms(events'[i]), i \notin DOMAIN events
          PROVE  IsBacked(events'[i])
      <3>1. MayAppend(events'[i]) /\ events'[i] \in Events
        BY <2>1, RowsKept
      <3>2. events'[i] \notin VerdictRows
        BY <2>1, <3>1, RowFacts
      <3> QED
        BY <1>2, <2>1, <3>1, <3>2 DEF MayAppend
    <2> QED
      BY <1>1, <1>2, <2>1
  <1>4. ASSUME NEW i \in DOMAIN events', Confirms(events'[i])
        PROVE  /\ events'[i].outcome = "settled" /\ events'[i].tx \in DOMAIN chain'
               /\ \E j \in DOMAIN events' :
                     /\ events'[j].kind = "verdict" /\ events'[j].rid = events'[i].rid
                     /\ Matches(events[i].tx, events[j])'
    <2>1. IsBacked(events'[i])
      BY <1>3, <1>4
    <2>2. events'[i].outcome = "settled" /\ events'[i].tx \in DOMAIN chain
      BY <2>1 DEF IsBacked
    <2>3. PICK j \in DOMAIN events : /\ events[j].kind = "verdict" /\ events[j].rid = events'[i].rid
                                     /\ Matches(events'[i].tx, events[j])
      BY <2>1 DEF IsBacked
    <2>4. events'[j] = events[j] /\ j \in DOMAIN events'
      BY <1>1
    <2>5. Matches(events[i].tx, events[j])'
      BY <2>2, <2>3, <2>4, MatchKept DEF Matches
    <2> QED
      BY <1>1, <2>2, <2>3, <2>4, <2>5
  <1>5. \A w \in Watchers : MayPass(watcher'[w])
    <2>1. \A w \in Watchers : MayPass(watcher[w])
      BY DEF MayPass, IInv, TypeOK, Backed
    <2>2. watcher \in [Watchers -> Passes]
      BY DEF IInv
    <2>3. CASE WatcherMoves
      BY <2>1, <2>2, <2>3 DEF WatcherMoves
    <2> QED
      BY <2>1, <2>3, StepShape
  <1>6. ASSUME NEW w \in Watchers, NEW k \in DOMAIN watcher'[w].pending
        PROVE  \E j \in DOMAIN events' : events'[j] = watcher'[w].pending[k]
    <2>1. PICK j \in DOMAIN events : events[j] = watcher'[w].pending[k]
      BY <1>5, <1>6 DEF MayPass
    <2> QED
      BY <1>1, <2>1
  <1>7. ASSUME NEW w \in Watchers, watcher'[w].pc = "record"
        PROVE  Matches(watcher[w].tx, Head(watcher[w].pending))'
    <2>1. watcher'[w].tx \in DOMAIN chain /\ Matches(watcher'[w].tx, Head(watcher'[w].pending))
      BY <1>5, <1>7 DEF MayPass
    <2> QED
      BY <2>1, MatchKept DEF Matches
  <1>8. \A i \in DOMAIN events' : Confirms(events'[i]) <=> Confirms(events[i])'
    BY DEF Confirms
  <1> QED
    BY <1>4, <1>6, <1>7, <1>8 DEF Backed

\* No confirmation is added and no watcher moves, so what the passes know stays true.
LEMMA QuietStep ==
    ASSUME IInv, [Next]_vars, watcher' = watcher, raced' = raced,
           \A i \in DOMAIN events' : Confirms(events'[i]) => \E j \in DOMAIN events : events[j] = events'[i]
    PROVE  OnePass' /\ TxConfirmsOne'
  <1> SUFFICES ASSUME ~raced PROVE OnePass' /\ TxConfirmsOne'
    BY DEF OnePass, TxConfirmsOne
  <1>1. /\ \A v, w \in Watchers : watcher[v].pc # "idle" /\ watcher[w].pc # "idle" => v = w
        /\ \A w \in Watchers : watcher[w].pc # "idle" =>
              \A i \in DOMAIN events : Confirms(events[i]) => events[i].tx \in watcher[w].used
        /\ \A w \in Watchers : watcher[w].pc = "record" => watcher[w].tx \notin watcher[w].used
    BY DEF IInv, OnePass
  <1>2. \A i, j \in DOMAIN events :
           Confirms(events[i]) /\ Confirms(events[j]) /\ events[i].tx = events[j].tx
              => events[i].rid = events[j].rid
    BY DEF IInv, TxConfirmsOne, Confirms
  <1>3. \A i \in DOMAIN events' : Confirms(events'[i])
              => \E j \in DOMAIN events : Confirms(events[j]) /\ events[j] = events'[i]
    OBVIOUS
  <1>4. OnePass'
    <2>1. \A w \in Watchers : watcher'[w].pc # "idle" =>
              \A i \in DOMAIN events' : Confirms(events'[i]) => events'[i].tx \in watcher'[w].used
      BY <1>1, <1>3
    <2>2. \A i \in DOMAIN events' : Confirms(events'[i]) <=> Confirms(events[i])'
      BY DEF Confirms
    <2> QED
      BY <1>1, <2>1, <2>2 DEF OnePass
  <1>5. \A i, j \in DOMAIN events' :
           Confirms(events'[i]) /\ Confirms(events'[j]) /\ events'[i].tx = events'[j].tx
              => events'[i].rid = events'[j].rid
    BY <1>2, <1>3
  <1>6. TxConfirmsOne'
    BY <1>5 DEF TxConfirmsOne, Confirms
  <1> QED
    BY <1>4, <1>6

\* The watcher at work moves on without recording: it knows what it knew.
LEMMA PassMoves ==
    ASSUME IInv, events' = events, raced' = raced,
           NEW w \in Watchers, watcher[w].pc # "idle", NEW p, watcher' = [watcher EXCEPT ![w] = p],
           p.pc # "idle" => p.used = watcher[w].used, p.pc = "record" => p.tx \notin p.used
    PROVE  OnePass' /\ TxConfirmsOne'
  <1>1. TxConfirmsOne'
    BY DEF IInv, TxConfirmsOne
  <1> SUFFICES ASSUME ~raced PROVE OnePass'
    BY <1>1 DEF OnePass
  <1>2. \A v \in Watchers : watcher'[v] = IF v = w THEN p ELSE watcher[v]
    BY DEF IInv
  <1>3. /\ \A v \in Watchers : watcher[v].pc # "idle" => v = w
        /\ \A i \in DOMAIN events : Confirms(events[i]) => events[i].tx \in watcher[w].used
    BY DEF IInv, OnePass
  <1>4. \A v \in Watchers : watcher'[v].pc # "idle" => v = w /\ watcher'[v] = p
    BY <1>2, <1>3
  <1>5. ASSUME NEW v \in Watchers, watcher'[v].pc # "idle", NEW i \in DOMAIN events', Confirms(events'[i])
        PROVE  events'[i].tx \in watcher'[v].used
    BY <1>3, <1>4, <1>5
  <1>6. \A v \in Watchers : watcher'[v].pc = "record" => watcher'[v].tx \notin watcher'[v].used
    BY <1>4
  <1> QED
    BY <1>4, <1>5, <1>6 DEF OnePass, Confirms

LEMMA ReadLedgerPass ==
    ASSUME IInv, NEW w \in Watchers, ReadLedger(w)
    PROVE  OnePass' /\ TxConfirmsOne'
  <1>1. PICK p : p.pc = "scan" /\ p.used = UsedTx /\ watcher' = [watcher EXCEPT ![w] = p]
    BY ReadLedgerStep
  <1>2. events' = events /\ raced' = (raced \/ \E v \in Watchers : watcher[v].pc # "idle")
    BY DEF ReadLedger
  <1>3. raced' = FALSE => ~raced /\ \A v \in Watchers : watcher[v].pc = "idle"
    BY <1>2
  <1>4. TxConfirmsOne'
    BY <1>2, <1>3 DEF IInv, TypeOK, TxConfirmsOne
  <1> SUFFICES ASSUME ~raced' PROVE OnePass'
    BY <1>4 DEF OnePass
  <1>5. \A v \in Watchers : watcher[v].pc = "idle"
    BY <1>2
  <1>6. \A v \in Watchers : watcher'[v] = IF v = w THEN p ELSE watcher[v]
    BY <1>1 DEF IInv
  <1>7. \A v \in Watchers : watcher'[v].pc # "idle" => v = w /\ watcher'[v] = p
    BY <1>5, <1>6
  <1>8. ASSUME NEW i \in DOMAIN events, Confirms(events[i]) PROVE events[i].tx \in UsedTx
    <2>1. events[i].tx \in DOMAIN chain /\ NoTx \notin DOMAIN chain
      BY <1>8, ChainFacts DEF IInv, Backed
    <2> QED
      BY <1>8, <2>1 DEF UsedTx, Confirms
  <1>9. ASSUME NEW v \in Watchers, watcher'[v].pc # "idle", NEW i \in DOMAIN events', Confirms(events'[i])
        PROVE  events'[i].tx \in watcher'[v].used
    BY <1>1, <1>2, <1>7, <1>8, <1>9
  <1>10. \A v \in Watchers : watcher'[v].pc # "record"
    BY <1>1, <1>5, <1>6
  <1> QED
    BY <1>7, <1>9, <1>10 DEF OnePass, Confirms

\* The transfer recorded confirmed nothing before; the watcher knows it from now on.
LEMMA RecordSettledPass ==
    ASSUME IInv, NEW w \in Watchers, RecordSettled(w)
    PROVE  OnePass' /\ TxConfirmsOne'
  <1>1. raced' = raced
    BY DEF RecordSettled
  <1> SUFFICES ASSUME ~raced PROVE OnePass' /\ TxConfirmsOne'
    BY <1>1 DEF OnePass, TxConfirmsOne
  <1> DEFINE old == watcher[w]
  <1>2. PICK e \in Events : Confirms(e) /\ e.tx = old.tx /\ events' = Append(events, e)
    BY RecordSettledStep
  <1>3. PICK p : /\ p.pc = "idle" \/ (p.pc = "scan" /\ p.used = old.used \cup {old.tx})
                 /\ watcher' = [watcher EXCEPT ![w] = p]
    BY RecordSettledStep
  <1>4. old.pc = "record"
    BY DEF RecordSettled
  <1>5. \A v \in Watchers : watcher'[v] = IF v = w THEN p ELSE watcher[v]
    BY <1>3 DEF IInv
  <1>6. /\ \A v \in Watchers : watcher[v].pc # "idle" => v = w
        /\ \A i \in DOMAIN events : Confirms(events[i]) => events[i].tx \in old.used
        /\ old.tx \notin old.used
    BY <1>4 DEF IInv, OnePass
  <1>7. \A i \in DOMAIN events' : \/ i \in DOMAIN events /\ events'[i] = events[i]
                                  \/ i = Len(events) + 1 /\ events'[i] = e
    BY <1>2, LedgerFacts, AppendPositions DEF IInv
  <1>8. \A i \in DOMAIN events' : Confirms(events'[i]) => events'[i].tx \in old.used \cup {old.tx}
    BY <1>2, <1>6, <1>7
  <1>9. \A v \in Watchers : watcher'[v].pc # "idle" => v = w /\ watcher'[v] = p
    BY <1>5, <1>6
  <1>10. ASSUME NEW v \in Watchers, watcher'[v].pc # "idle", NEW i \in DOMAIN events', Confirms(events'[i])
         PROVE  events'[i].tx \in watcher'[v].used
    BY <1>3, <1>8, <1>9, <1>10
  <1>11. \A v \in Watchers : watcher'[v].pc # "record"
    BY <1>3, <1>9
  <1>12. OnePass'
    BY <1>9, <1>10, <1>11 DEF OnePass, Confirms
  <1>13. \A i, j \in DOMAIN events :
            Confirms(events[i]) /\ Confirms(events[j]) /\ events[i].tx = events[j].tx
               => events[i].rid = events[j].rid
    BY DEF IInv, TxConfirmsOne, Confirms
  <1>14. ASSUME NEW i \in DOMAIN events', NEW j \in DOMAIN events', Confirms(events'[i]),
                Confirms(events'[j]), events'[i].tx = events'[j].tx
         PROVE  events'[i].rid = events'[j].rid
    BY <1>2, <1>6, <1>7, <1>13, <1>14
  <1>15. TxConfirmsOne'
    BY <1>14 DEF TxConfirmsOne, Confirms
  <1> QED
    BY <1>12, <1>15

LEMMA PassStep ==
    ASSUME IInv, [Next]_vars
    PROVE  OnePass' /\ TxConfirmsOne'
  <1>1. events \in Seq(Events) /\ \A i \in DOMAIN events : events[i] \in Events
    BY LedgerFacts DEF IInv
  \* A row that is appended and does not confirm changes nothing.
  <1>2. ASSUME NEW e, e \in Events, events' = Append(events, e),
               Confirms(e) => \E j \in DOMAIN events : e = events[j], watcher' = watcher, raced' = raced
        PROVE  OnePass' /\ TxConfirmsOne'
    <2>1. \A i \in DOMAIN events' : \/ i \in DOMAIN events /\ events'[i] = events[i]
                                    \/ events'[i] = e
      BY <1>1, <1>2, AppendPositions
    <2> QED
      BY <1>2, <2>1, QuietStep
  <1>3. ASSUME NEW r \in Rids, NEW cp \in Cps, NEW a \in Amounts, NEW p \in Wallets \cup {"none"},
               NEW v \in Verdicts, RecordVerdict(r, cp, a, p, v)
        PROVE  OnePass' /\ TxConfirmsOne'
    <2> DEFINE e == Verdict(r, cp, a, p, v)
    <2>1. e \in Events /\ ~Confirms(e)
      BY VerdictType, EventsAre, RowFacts DEF IInv
    <2>2. events' = Append(events, e) /\ watcher' = watcher /\ raced' = raced
      BY <1>3 DEF RecordVerdict, Record
    <2> HIDE DEF e
    <2> QED
      BY <1>2, <2>1, <2>2
  <1>4. ASSUME NEW r \in Rids, NEW o \in Reports, NEW tx \in DOMAIN chain \cup {NoTx},
               ReportOutcome(r, o, tx)
        PROVE  OnePass' /\ TxConfirmsOne'
    <2> DEFINE e == Outcome(r, o, "self-report", tx)
    <2>1. o \in Good \cup Bad \cup {"abandoned"}
      BY WatchAssumption
    <2>2. e \in Events /\ ~Confirms(e)
      BY <2>1, OutcomeType, EventsAre DEF IInv, Confirms
    <2>3. events' = Append(events, e) /\ watcher' = watcher /\ raced' = raced
      BY <1>4 DEF ReportOutcome, Record
    <2> HIDE DEF e
    <2> QED
      BY <1>2, <2>2, <2>3
  <1>5. ASSUME NEW i \in DOMAIN events, DuplicateRow(i)
        PROVE  OnePass' /\ TxConfirmsOne'
    BY <1>1, <1>2, <1>5 DEF DuplicateRow, Record
  <1>6. ASSUME events' = events, watcher' = watcher, raced' = raced
        PROVE  OnePass' /\ TxConfirmsOne'
    BY <1>6, QuietStep
  <1>7. CASE Service
    BY <1>3, <1>4, <1>7 DEF Service
  <1>8. CASE \E from \in Wallets, to \in Cps, a \in Amounts : Transfer(from, to, a)
    BY <1>6, <1>8 DEF Transfer
  <1>9. CASE Tick \/ UNCHANGED vars
    BY <1>6, <1>9 DEF Tick, vars
  <1>10. CASE \E r \in Rids, tx \in DOMAIN chain : ConfirmByTx(r, tx)
    BY <1>10 DEF ConfirmByTx, OnePass, TxConfirmsOne
  <1>11. ASSUME NEW w \in Watchers, ScanFinds(w) PROVE OnePass' /\ TxConfirmsOne'
    <2>1. PICK p : /\ p.pc = "record" /\ p.used = watcher[w].used /\ p.tx \notin p.used
                   /\ watcher' = [watcher EXCEPT ![w] = p]
      BY <1>11, ScanFindsStep
    <2> QED
      BY <1>11, <2>1, PassMoves DEF ScanFinds
  <1>12. ASSUME NEW w \in Watchers, ScanSkips(w) PROVE OnePass' /\ TxConfirmsOne'
    <2>1. PICK p : /\ p.pc = "idle" \/ (p.pc = "scan" /\ p.used = watcher[w].used)
                   /\ watcher' = [watcher EXCEPT ![w] = p]
      BY <1>12, ScanSkipsStep
    <2> QED
      BY <1>12, <2>1, PassMoves DEF ScanSkips
  <1>13. ASSUME NEW w \in Watchers, ScanFails(w) PROVE OnePass' /\ TxConfirmsOne'
    BY <1>13, RestingType, PassMoves DEF ScanFails
  <1>14. CASE \E w \in Watchers : Watch(w) \/ ScanFails(w)
    BY <1>11, <1>12, <1>13, <1>14, ReadLedgerPass, RecordSettledPass DEF Watch
  <1>15. CASE \E i \in DOMAIN events : DuplicateRow(i)
    BY <1>5, <1>15
  <1> QED
    BY <1>7, <1>8, <1>9, <1>10, <1>14, <1>15 DEF Next

LEMMA NextInv == IInv /\ [Next]_vars => IInv'
  <1> SUFFICES ASSUME IInv, [Next]_vars PROVE IInv'
    OBVIOUS
  <1> QED
    BY TypeStep, OneVerdictStep, BackedStep, PassStep DEF IInv

-----------------------------------------------------------------------------
(* What is counted *)

\* A confirmed receipt: its verdict, the first confirmation and the transfer it names.
LEMMA ConfirmedFacts ==
    ASSUME IInv, NEW rid \in ChainConfirmed(events)
    PROVE  LET i == ChainTx(events, rid)
           IN  /\ i \in DOMAIN events /\ i \in Confirmations(events, rid)
               /\ events[i].tx \in DOMAIN chain /\ events[i].tx # NoTx
               /\ Matches(events[i].tx, ByReceipt(events, rid))
  <1> DEFINE i == ChainTx(events, rid)
  <1>1. events \in Seq(Events) /\ Confirmations(events, rid) # {} /\ Unique(events)
    BY LedgerFacts DEF IInv, ChainConfirmed, OneVerdict, Unique
  <1>2. i \in DOMAIN events /\ i \in Confirmations(events, rid)
    BY <1>1, ChainTxIs
  <1> HIDE DEF i
  <1>3. Confirms(events[i]) /\ events[i].rid = rid
    BY <1>2 DEF Confirms, Confirmations, OutcomesOf
  <1>4. events[i].tx \in DOMAIN chain
    BY <1>2, <1>3 DEF IInv, Backed
  <1>5. PICK j \in DOMAIN events : /\ events[j].kind = "verdict" /\ events[j].rid = rid
                                   /\ Matches(events[i].tx, events[j])
    BY <1>2, <1>3 DEF IInv, Backed
  <1>6. ByReceipt(events, rid) = events[j]
    BY <1>1, <1>5, ByReceiptIs
  <1>7. NoTx \notin DOMAIN chain
    BY ChainFacts DEF IInv
  <1> QED
    BY <1>2, <1>4, <1>5, <1>6, <1>7 DEF i

LEMMA CountBackedHolds == IInv => CountBacked
  <1> SUFFICES ASSUME IInv, NEW cp \in Cps
               PROVE  /\ \A rid \in Settled(events, cp) : events[ChainTx(events, rid)].tx \in PaymentsFor(rid)
                      /\ Cardinality(Settled(events, cp))
                            <= Cardinality({tx \in DOMAIN chain : chain[tx].to = cp})
    BY DEF CountBacked
  <1> DEFINE C == Settled(events, cp)
             D == {tx \in DOMAIN chain : chain[tx].to = cp}
             tx(rid) == events[ChainTx(events, rid)].tx
  <1>1. \A rid \in C : rid \in ChainConfirmed(events) /\ ByReceipt(events, rid).cp = cp
    BY DEF Settled
  <1>2. \A r, q \in C : q # r /\ tx(q) = tx(r) /\ tx(r) # NoTx => ChainTx(events, r) < ChainTx(events, q)
    BY DEF Settled
  <1>3. \A rid \in C : /\ tx(rid) \in DOMAIN chain /\ tx(rid) # NoTx
                       /\ Matches(tx(rid), ByReceipt(events, rid))
                       /\ ChainTx(events, rid) \in DOMAIN events
    BY <1>1, ConfirmedFacts
  <1> HIDE DEF C
  <1>4. \A rid \in C : tx(rid) \in PaymentsFor(rid)
    BY <1>3 DEF PaymentsFor, Matches
  <1>5. \A rid \in C : tx(rid) \in D
    BY <1>1, <1>3 DEF Matches
  <1>6. ASSUME NEW r \in C, NEW q \in C, tx(q) = tx(r) PROVE q = r
    <2>1. ChainTx(events, r) \in Nat /\ ChainTx(events, q) \in Nat
      BY <1>3, LedgerFacts DEF IInv
    <2>2. q # r => ChainTx(events, r) < ChainTx(events, q) /\ ChainTx(events, q) < ChainTx(events, r)
      BY <1>2, <1>3, <1>6
    <2> QED
      BY <2>1, <2>2
  <1>7. IsFiniteSet(D)
    <2>1. Len(chain) \in Nat /\ D \in SUBSET (1 .. Len(chain))
      BY ChainFacts DEF IInv
    <2> QED
      BY <2>1, FS_Interval, FS_Subset
  <1>8. [rid \in C |-> tx(rid)] \in Injection(C, D)
    BY <1>5, <1>6 DEF Injection, IsInjective
  <1> HIDE DEF D
  <1>9. Cardinality(C) <= Cardinality(D)
    BY <1>7, <1>8, FS_Injection
  <1> QED
    BY <1>4, <1>9 DEF C, D

\* The ledger without the reports: the same verdicts and, in the same order, the same
\* confirmations.
LEMMA Unreported ==
    ASSUME IInv
    PROVE  LET I == {i \in DOMAIN events : NotReported(events[i])}
               rows == Subsequence(events, I)
           IN  /\ rows \in Seq(Events) /\ Unique(rows)
               /\ Receipts(rows) = Receipts(events)
               /\ \A rid \in Receipts(events) : ByReceipt(rows, rid) = ByReceipt(events, rid)
               /\ I \in SUBSET Nat /\ IsFiniteSet(I) /\ DOMAIN rows = 1 .. Cardinality(I)
               /\ \A k \in 1 .. Cardinality(I) : Nth(I, k) \in I /\ rows[k] = events[Nth(I, k)]
               /\ \A i \in I : \E k \in 1 .. Cardinality(I) : Nth(I, k) = i
               /\ \A rid : Confirmations(events, rid) \subseteq I
  <1> DEFINE I == {i \in DOMAIN events : NotReported(events[i])}
             rows == Subsequence(events, I)
             c == Cardinality(I)
  <1>1. events \in Seq(Events) /\ Unique(events) /\ DOMAIN events \in SUBSET Nat
    BY LedgerFacts DEF IInv, OneVerdict, Unique
  <1>2. I \in SUBSET (DOMAIN events)
    OBVIOUS
  <1>3. \A i \in DOMAIN events : events[i].kind = "verdict" => i \in I
    BY DEF NotReported
  <1>4. \A rid : Confirmations(events, rid) \subseteq I
    BY DEF Confirmations, OutcomesOf, NotReported
  <1> HIDE DEF I
  <1>5. /\ IsFiniteSet(I) /\ rows \in Seq(Events) /\ DOMAIN rows = 1 .. c
        /\ \A k \in 1 .. c : rows[k] = events[Nth(I, k)] /\ Nth(I, k) \in I
        /\ \A i \in I : \E k \in 1 .. c : Nth(I, k) = i
    BY <1>1, <1>2, SubsequenceKeeps
  <1> HIDE DEF rows, c
  <1>6. \A k \in DOMAIN rows : Nth(I, k) \in DOMAIN events /\ rows[k] = events[Nth(I, k)]
    BY <1>2, <1>5
  <1>7. Unique(rows)
    BY <1>1, <1>6 DEF Unique
  <1>8. ASSUME NEW rid \in Receipts(events)
        PROVE  rid \in Receipts(rows) /\ ByReceipt(rows, rid) = ByReceipt(events, rid)
    <2>1. PICK i \in DOMAIN events : events[i].kind = "verdict" /\ events[i].rid = rid
      BY ReceiptsHave
    <2>2. PICK k \in DOMAIN rows : Nth(I, k) = i
      BY <1>3, <1>5, <2>1
    <2>3. rows[k] = events[i]
      BY <1>6, <2>2
    <2>4. ByReceipt(events, rid) = events[i]
      BY <1>1, <2>1, ByReceiptIs
    <2>5. ByReceipt(rows, rows[k].rid) = rows[k] /\ rows[k].rid \in Receipts(rows)
      BY <1>5, <1>7, <2>1, <2>2, <2>3, ByReceiptIs
    <2> QED
      BY <2>1, <2>3, <2>4, <2>5
  <1>9. Receipts(rows) \subseteq Receipts(events)
    BY <1>6 DEF Receipts
  <1>10. I \in SUBSET Nat
    BY <1>1, <1>2
  <1>11. Receipts(rows) = Receipts(events)
    BY <1>8, <1>9
  <1> QED
    BY <1>4, <1>5, <1>7, <1>8, <1>10, <1>11 DEF I, rows, c

LEMMA ReportsHold == IInv => ReportsAreAdvisory
  <1> SUFFICES ASSUME IInv PROVE ReportsAreAdvisory
    OBVIOUS
  <1> DEFINE I == {i \in DOMAIN events : NotReported(events[i])}
             rows == Subsequence(events, I)
             c == Cardinality(I)
  <1>1. /\ rows \in Seq(Events)
        /\ Receipts(rows) = Receipts(events)
        /\ \A rid \in Receipts(events) : ByReceipt(rows, rid) = ByReceipt(events, rid)
        /\ I \in SUBSET Nat /\ IsFiniteSet(I) /\ DOMAIN rows = 1 .. c
        /\ \A k \in 1 .. c : Nth(I, k) \in I /\ rows[k] = events[Nth(I, k)]
        /\ \A i \in I : \E k \in 1 .. c : Nth(I, k) = i
        /\ \A rid : Confirmations(events, rid) \subseteq I
    BY Unreported
  <1>2. \A i \in I : i \in DOMAIN events
    OBVIOUS
  <1>3. events \in Seq(Events)
    BY LedgerFacts DEF IInv
  <1>4. \A k, m \in 1 .. c : k < m <=> Nth(I, k) < Nth(I, m)
    BY <1>1, NthNumbers
  <1>5. c \in Nat
    BY <1>1, NthNumbers
  <1> HIDE DEF I, rows, c
  <1>6. \A rid : \A k \in 1 .. c : k \in Confirmations(rows, rid) <=> Nth(I, k) \in Confirmations(events, rid)
    BY <1>1, <1>2 DEF Confirmations, OutcomesOf
  <1>7. \A rid : \A k \in Confirmations(rows, rid) : k \in 1 .. c
    BY <1>1 DEF Confirmations, OutcomesOf
  <1>8. \A rid : Confirmations(rows, rid) # {} <=> Confirmations(events, rid) # {}
    <2>1. ASSUME NEW rid, NEW i \in Confirmations(events, rid) PROVE Confirmations(rows, rid) # {}
      <3>1. PICK k \in 1 .. c : Nth(I, k) = i
        BY <1>1
      <3> QED
        BY <1>6, <3>1
    <2>2. ASSUME NEW rid, NEW k \in Confirmations(rows, rid) PROVE Confirmations(events, rid) # {}
      BY <1>6, <1>7
    <2> QED
      BY <2>1, <2>2
  <1>9. ChainConfirmed(rows) = ChainConfirmed(events)
    BY <1>1, <1>8 DEF ChainConfirmed
  \* The first confirmation of a receipt is the same row.
  <1>10. ASSUME NEW rid \in ChainConfirmed(events)
         PROVE  /\ ChainTx(rows, rid) \in 1 .. c
                /\ Nth(I, ChainTx(rows, rid)) = ChainTx(events, rid)
                /\ rows[ChainTx(rows, rid)].tx = events[ChainTx(events, rid)].tx
    <2> DEFINE k == ChainTx(rows, rid)
               i == ChainTx(events, rid)
    <2>1. Confirmations(rows, rid) # {} /\ Confirmations(events, rid) # {}
      BY <1>8 DEF ChainConfirmed
    <2>2. k \in Confirmations(rows, rid) /\ \A m \in Confirmations(rows, rid) : k <= m
      BY <1>1, <2>1, ChainTxIs
    <2>3. i \in Confirmations(events, rid) /\ \A j \in Confirmations(events, rid) : i <= j
      BY <1>3, <2>1, ChainTxIs
    <2> HIDE DEF k, i
    <2>4. PICK m \in 1 .. c : Nth(I, m) = i
      BY <1>1, <2>3
    <2>5. m \in Confirmations(rows, rid) /\ k \in 1 .. c
      BY <1>6, <1>7, <2>2, <2>3, <2>4
    <2>6. Nth(I, k) \in Confirmations(events, rid) /\ i <= Nth(I, k) /\ k <= m
      BY <1>6, <2>2, <2>3, <2>5
    <2>7. k = m
      <3>1. Nth(I, k) \in Nat /\ i \in Nat
        BY <1>1, <2>4, <2>5
      <3>2. ~(Nth(I, k) < Nth(I, m))
        BY <2>4, <2>6, <3>1
      <3>3. ~(k < m)
        BY <1>4, <2>4, <2>5, <3>2
      <3> QED
        BY <1>5, <2>5, <2>6, <3>3
    <2> QED
      BY <1>1, <2>4, <2>5, <2>7 DEF k, i
  <1>11. ASSUME NEW r \in ChainConfirmed(events), NEW q \in ChainConfirmed(events)
         PROVE  ChainTx(rows, r) < ChainTx(rows, q) <=> ChainTx(events, r) < ChainTx(events, q)
    BY <1>4, <1>10
  <1>12. \A rid \in ChainConfirmed(events) :
            /\ ByReceipt(rows, rid) = ByReceipt(events, rid)
            /\ rows[ChainTx(rows, rid)].tx = events[ChainTx(events, rid)].tx
    BY <1>1, <1>10 DEF ChainConfirmed
  <1>13. ASSUME NEW cp PROVE Settled(rows, cp) = Settled(events, cp)
    <2> DEFINE S == {rid \in ChainConfirmed(events) : ByReceipt(events, rid).cp = cp}
               R == {rid \in ChainConfirmed(rows) : ByReceipt(rows, rid).cp = cp}
    <2>1. R = S
      BY <1>9, <1>12
    <2>2. \A r \in S : r \in ChainConfirmed(events)
      OBVIOUS
    <2>3. Settled(events, cp) =
             {r \in S : \A q \in S : q # r /\ events[ChainTx(events, q)].tx = events[ChainTx(events, r)].tx
                                           /\ events[ChainTx(events, r)].tx # NoTx =>
                                        ChainTx(events, r) < ChainTx(events, q)}
      BY DEF Settled
    <2>4. Settled(rows, cp) =
             {r \in R : \A q \in R : q # r /\ rows[ChainTx(rows, q)].tx = rows[ChainTx(rows, r)].tx
                                           /\ rows[ChainTx(rows, r)].tx # NoTx =>
                                        ChainTx(rows, r) < ChainTx(rows, q)}
      BY DEF Settled
    <2> HIDE DEF S, R
    <2> QED
      BY <1>11, <1>12, <2>1, <2>2, <2>3, <2>4
  <1>14. ASSUME NEW cp PROVE Payers(rows, cp) = Payers(events, cp)
    <2>1. \A rid \in Settled(events, cp) : rid \in ChainConfirmed(events)
      BY DEF Settled
    <2>2. \A rid \in Settled(events, cp) : ByReceipt(rows, rid).payer = ByReceipt(events, rid).payer
      BY <1>12, <2>1
    <2> QED
      BY <1>13, <2>2 DEF Payers
  <1> QED
    BY <1>13, <1>14 DEF ReportsAreAdvisory, I, rows

\* Whatever a step appends, a receipt that counts goes on counting: its first
\* confirmation stays the first, and one that comes now comes after it.
LEMMA Sticky ==
    ASSUME IInv, IInv', [Next]_vars, NEW cp
    PROVE  Settled(events, cp) \subseteq Settled(events', cp)
  <1>1. /\ events \in Seq(Events) /\ events' \in Seq(Events) /\ Unique(events) /\ Unique(events')
        /\ DOMAIN events \subseteq DOMAIN events' /\ Len(events) \in Nat /\ DOMAIN events = 1 .. Len(events)
        /\ \A i \in DOMAIN events : events'[i] = events[i]
        /\ \A i \in DOMAIN events' : i \in DOMAIN events \/ i = Len(events) + 1
    BY RowsKept, LedgerFacts DEF IInv, OneVerdict, Unique
  <1>2. \A rid : Confirmations(events, rid) = Confirmations(events', rid) \cap DOMAIN events
    BY <1>1 DEF Confirmations, OutcomesOf
  <1>3. ASSUME NEW rid \in Receipts(events)
        PROVE  rid \in Receipts(events') /\ ByReceipt(events', rid) = ByReceipt(events, rid)
    <2>1. PICK i \in DOMAIN events : events[i].kind = "verdict" /\ events[i].rid = rid
      BY ReceiptsHave
    <2>2. i \in DOMAIN events' /\ events'[i] = events[i]
      BY <1>1
    <2>3. ByReceipt(events, rid) = events[i]
      BY <1>1, <2>1, ByReceiptIs
    <2>4. ByReceipt(events', events'[i].rid) = events'[i] /\ events'[i].rid \in Receipts(events')
      BY <1>1, <2>1, <2>2, ByReceiptIs
    <2> QED
      BY <2>1, <2>2, <2>3, <2>4
  <1>4. ASSUME NEW rid, Confirmations(events, rid) # {}
        PROVE  ChainTx(events', rid) = ChainTx(events, rid) /\ ChainTx(events, rid) \in DOMAIN events
    <2> DEFINE m == ChainTx(events, rid)
    <2>1. /\ m \in Confirmations(events, rid) /\ m \in DOMAIN events /\ m \in Nat
          /\ \A j \in Confirmations(events, rid) : m <= j
      BY <1>1, <1>4, ChainTxIs
    <2> HIDE DEF m
    <2>2. Confirmations(events', rid) \in SUBSET (DOMAIN events')
      BY DEF Confirmations, OutcomesOf
    <2>3. \A j \in Confirmations(events', rid) : j \in Confirmations(events, rid) \/ j = Len(events) + 1
      BY <1>1, <1>2, <2>2
    <2>4. m <= Len(events) + 1
      BY <1>1, <2>1
    <2>5. \A j \in Confirmations(events', rid) : m <= j
      BY <2>1, <2>3, <2>4
    <2>6. DOMAIN events' \in SUBSET Nat /\ m \in Confirmations(events', rid)
      BY <1>1, <1>2, <2>1
    <2>7. Least(Confirmations(events', rid)) = m
      BY <2>2, <2>5, <2>6, LeastUnique
    <2> QED
      BY <2>1, <2>7 DEF m, ChainTx
  \* A receipt confirmed by this step is confirmed by the last row.
  <1>5. ASSUME NEW q \in ChainConfirmed(events'), q \notin ChainConfirmed(events)
        PROVE  ChainTx(events', q) = Len(events) + 1
    <2>1. /\ ChainTx(events', q) \in Confirmations(events', q) /\ ChainTx(events', q) \in DOMAIN events'
      BY <1>1, <1>5, ChainTxIs DEF ChainConfirmed
    <2>2. \A i \in Confirmations(events, q) : events[i].kind = "outcome" /\ events[i].rid = q /\ i \in DOMAIN events
      BY DEF Confirmations, OutcomesOf
    <2>3. Confirmations(events, q) # {} => q \in Receipts(events)
      BY <2>2 DEF IInv, OneVerdict
    <2>4. Confirmations(events, q) = {}
      BY <1>5, <2>3 DEF ChainConfirmed
    <2> QED
      BY <1>1, <1>2, <2>1, <2>4
  <1>6. ASSUME NEW rid \in ChainConfirmed(events)
        PROVE  /\ rid \in ChainConfirmed(events')
               /\ ByReceipt(events', rid) = ByReceipt(events, rid)
               /\ ChainTx(events', rid) = ChainTx(events, rid) /\ ChainTx(events, rid) \in DOMAIN events
               /\ events'[ChainTx(events', rid)].tx = events[ChainTx(events, rid)].tx
    <2>1. rid \in Receipts(events) /\ Confirmations(events, rid) # {}
      BY DEF ChainConfirmed
    <2>2. Confirmations(events', rid) # {}
      BY <1>2, <2>1
    <2> QED
      BY <1>1, <1>3, <1>4, <2>1, <2>2 DEF ChainConfirmed
  <1>7. ASSUME NEW r \in Settled(events, cp) PROVE r \in Settled(events', cp)
    <2>1. r \in ChainConfirmed(events) /\ ByReceipt(events, r).cp = cp
      BY DEF Settled
    <2>2. ASSUME NEW q \in ChainConfirmed(events'), ByReceipt(events', q).cp = cp, q # r,
                 events'[ChainTx(events', q)].tx = events'[ChainTx(events', r)].tx,
                 events'[ChainTx(events', r)].tx # NoTx
          PROVE  ChainTx(events', r) < ChainTx(events', q)
      <3>1. CASE q \in ChainConfirmed(events)
        <4>1. ByReceipt(events, q).cp = cp /\ ChainTx(events', q) = ChainTx(events, q)
              /\ events'[ChainTx(events', q)].tx = events[ChainTx(events, q)].tx
          BY <1>6, <2>2, <3>1
        <4>2. /\ ChainTx(events', r) = ChainTx(events, r)
              /\ events'[ChainTx(events', r)].tx = events[ChainTx(events, r)].tx
          BY <1>6, <2>1
        <4>3. ChainTx(events, r) < ChainTx(events, q)
          BY <2>2, <3>1, <4>1, <4>2 DEF Settled
        <4> QED
          BY <4>1, <4>2, <4>3
      <3>2. CASE q \notin ChainConfirmed(events)
        <4>1. ChainTx(events', q) = Len(events) + 1
          BY <1>5, <2>2, <3>2
        <4>2. ChainTx(events', r) \in 1 .. Len(events)
          BY <1>1, <1>6, <2>1
        <4> QED
          BY <1>1, <4>1, <4>2
      <3> QED
        BY <3>1, <3>2
    <2>3. r \in ChainConfirmed(events') /\ ByReceipt(events', r).cp = cp
      BY <1>6, <2>1
    <2> QED
      BY <2>2, <2>3 DEF Settled
  <1> QED
    BY <1>7

-----------------------------------------------------------------------------
(* The theorems *)

LEMMA Invariance == Spec => []IInv
  BY InitInv, NextInv, PTL DEF Spec

\* The ledger holds verdicts and outcomes, the chain transfers; a pass that is under way
\* has verdicts left, and one about to record has a transfer.
THEOREM SettlementTypes == Spec => []TypeOK
  <1>1. IInv => TypeOK
    BY DEF IInv
  <1> QED
    BY <1>1, Invariance, PTL

\* The settlement count is backed by the chain, receipt by receipt and in number, and no
\* report adds a receipt or a payer or takes one away: with any number of watchers,
\* confirm_by_tx calls, duplicated rows, pages of any size and explorer failures.
THEOREM CountIsSound == Spec => []CountSound
  <1>1. IInv => CountSound
    BY CountBackedHolds, ReportsHold DEF CountSound
  <1> QED
    BY <1>1, Invariance, PTL

\* While passes follow each other, a transaction confirms one receipt at most, over any
\* number of passes and whatever agents report in between.
THEOREM OneReceiptPerTransaction == Spec => []TxConfirmsOne
  <1>1. IInv => TxConfirmsOne
    BY DEF IInv
  <1> QED
    BY <1>1, Invariance, PTL

\* No step takes a counted settlement back.
THEOREM SettlementsStick == Spec => CountIsSticky
  <1>1. IInv /\ IInv' /\ [Next]_vars => [\A cp \in Cps : Settled(events, cp) \subseteq Settled(events', cp)]_vars
    BY Sticky
  <1> QED
    BY <1>1, InitInv, NextInv, PTL DEF Spec, CountIsSticky
=============================================================================
