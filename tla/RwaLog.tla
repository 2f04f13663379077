------------------------------- MODULE RwaLog --------------------------------
(***************************************************************************)
(* rwa_ledger.py and rwa_outcomes.py: every forecast of a tokenised-asset  *)
(* buy appends a row; a scheduled job comes back when the row is old       *)
(* enough, asks the price and the buyer's balance, and appends an outcome  *)
(* joined to it by receipt; the issuer's trust grade is computed from the  *)
(* rows.  Two runs of the job may overlap, and a failed append is          *)
(* swallowed, having written none, half or all of its line.                *)
(*                                                                         *)
(* One buyer and one issuer: the balance a row snapshots is the same one   *)
(* for all rows.                                                           *)
(***************************************************************************)
EXTENDS Integers, Sequences, FiniteSets, SequencesExt, Subsequences

CONSTANTS Receipts,    \* buys that carry a receipt id
          BuyKinds,    \* of a buy: [verdict, snapshot]: its balance could be read
          Readings,    \* of a check: [mark, readable]
          Jobs,        \* runs of rwa_outcomes at one time
          Horizon,     \* horizon_seconds, in ticks
          MaxEvents,         \* max_events
          MinOutcomes, \* ISSUER_TRUST_MIN_OUTCOMES
          MaxTime,     \* bound: the clock
          MaxArrivals, \* bound: tokens that reach the buyer
          MaxRows      \* bound: lines of the log

VARIABLES clock,
          file,      \* the rows: a buy, an outcome or Junk
          torn,      \* it ends in half a line
          jobs,      \* of each run: [pc, todo, row]
          balance,   \* the buyer's tokens
          arrivals,  \* tokens that ever reached the buyer
          mixed      \* two runs have had the same buy on their lists

vars == <<clock, file, torn, jobs, balance, arrivals, mixed>>

Junk == [event |-> "junk"]
NoRow == [event |-> "none"]
Idle == [pc |-> "idle", todo |-> <<>>, row |-> NoRow]

\* A reading is the set of what was read: {} when nothing was.
Maybe(read, value) == IF read THEN {value} ELSE {}

\* The lines of one kind.
Buys(rows) == {i \in DOMAIN rows : rows[i].event = "buy"}
Outcomes(rows) == {i \in DOMAIN rows : rows[i].event = "outcome"}

-----------------------------------------------------------------------------
(* record: the line after half a line is junk to load().                   *)

Record(row, written) ==
    \/ written = "all" /\ file' = Append(file, IF torn THEN Junk ELSE row) /\ torn' = FALSE
    \/ written = "half" /\ torn' = TRUE /\ UNCHANGED file
    \/ written = "none" /\ UNCHANGED <<file, torn>>

\* forecast, which reads the balance first; a receipt may be missing and the balance unreadable.
Buy(r, kind, written) ==
    /\ Len(file) < MaxRows
    /\ r \in Receipts => \A i \in DOMAIN file : file[i] # Junk => file[i].rid # r
    /\ Record([event |-> "buy", rid |-> r, ts |-> clock, verdict |-> kind.verdict,
               pre |-> Maybe(kind.snapshot, balance), arrived |-> arrivals], written)
    /\ UNCHANGED <<clock, jobs, balance, arrivals, mixed>>

Arrives ==
    /\ arrivals < MaxArrivals
    /\ balance' = balance + 1 /\ arrivals' = arrivals + 1
    /\ UNCHANGED <<clock, file, torn, jobs, mixed>>

Sells ==
    /\ balance > 0 /\ balance' = balance - 1
    /\ UNCHANGED <<clock, file, torn, jobs, arrivals, mixed>>

-----------------------------------------------------------------------------
(* The labelling job.                                                      *)

DoneReceipts(rows) == {rows[i].rid : i \in Outcomes(rows)}

PendingBuys(rows, now) ==
    Subsequence(rows, {i \in Buys(rows) : /\ rows[i].rid \in Receipts \ DoneReceipts(rows)
                                          /\ now - rows[i].ts >= Horizon})

\* capture_outcomes reads the work-list once.
StartCapture(j) ==
    /\ jobs[j].pc = "idle"
    /\ LET pending == PendingBuys(file, clock)
           todo    == SubSeq(pending, 1, IF Len(pending) < MaxEvents THEN Len(pending) ELSE MaxEvents)
           others  == UNION {Range(jobs[k].todo) : k \in Jobs \ {j}}
       IN  /\ todo # <<>>
           /\ jobs' = [jobs EXCEPT ![j] = [Idle EXCEPT !.pc = "check", !.todo = todo]]
           /\ mixed' = (mixed \/ Range(todo) \cap others # {})
    /\ UNCHANGED <<clock, file, torn, balance, arrivals>>

\* OutcomeChecker.check: the mark is unknown without a price, the settlement without a
\* balance or a snapshot.  `settled` is the delta, `holds` the weaker sign.
Label(buy, reading) ==
    [event |-> "outcome", rid |-> buy.rid, underwater |-> reading.mark,
     holds |-> Maybe(reading.readable, balance > 0),
     settled |-> {balance > n : n \in IF reading.readable THEN buy.pre ELSE {}}]

Check(j, reading) ==
    /\ jobs[j].pc = "check"
    /\ jobs' = [jobs EXCEPT ![j].pc = "record", ![j].row = Label(Head(jobs[j].todo), reading)]
    /\ UNCHANGED <<clock, file, torn, balance, arrivals, mixed>>

RecordOutcome(j, written) ==
    /\ jobs[j].pc = "record" /\ Len(file) < MaxRows
    /\ Record(jobs[j].row, written)
    /\ jobs' = [jobs EXCEPT ![j] = IF Len(@.todo) = 1 THEN Idle
                                   ELSE [pc |-> "check", todo |-> Tail(@.todo), row |-> NoRow]]
    /\ UNCHANGED <<clock, balance, arrivals, mixed>>

Tick ==
    /\ clock < MaxTime
    /\ clock' = clock + 1
    /\ UNCHANGED <<file, torn, jobs, balance, arrivals, mixed>>

-----------------------------------------------------------------------------
(* The issuer's grade.                                                     *)

SettlementLabel(e) == IF e.settled # {} THEN e.settled ELSE e.holds

\* issuer_trust over issuer_profile: "insufficient", or a score of the settlement rate
\* (95% and 80%), the underwater rate (20% and 50%) and a share of STOPs above 10%.
IssuerTrust(rows) ==
    LET outs    == Outcomes(rows)
        settled == Cardinality({i \in outs : SettlementLabel(rows[i]) = {TRUE}})
        labels  == Cardinality({i \in outs : SettlementLabel(rows[i]) # {}})
        under   == Cardinality({i \in outs : rows[i].underwater = {TRUE}})
        marks   == Cardinality({i \in outs : rows[i].underwater # {}})
        stops   == Cardinality({i \in Buys(rows) : rows[i].verdict = "STOP"})
        Point(test) == IF test THEN 1 ELSE 0
        score   == Point(labels > 0 /\ 100 * settled >= 95 * labels) - Point(100 * settled < 80 * labels)
                   + Point(marks > 0 /\ 10 * under <= 2 * marks) - Point(10 * under > 5 * marks)
                   - Point(10 * stops > Cardinality(Buys(rows)))
    IN  IF Cardinality(outs) < MinOutcomes \/ labels + marks = 0 THEN "insufficient"
        ELSE IF score >= 2 THEN "high" ELSE IF score < 0 THEN "low" ELSE "medium"

-----------------------------------------------------------------------------
Init ==
    /\ clock = 0 /\ file = <<>> /\ torn = FALSE
    /\ jobs = [j \in Jobs |-> Idle]
    /\ balance = 0 /\ arrivals = 0 /\ mixed = FALSE

Writes == {"none", "half", "all"}

Next ==
    \/ \E r \in Receipts \cup {"none"}, kind \in BuyKinds, w \in Writes : Buy(r, kind, w)
    \/ \E j \in Jobs : StartCapture(j)
    \/ \E j \in Jobs, reading \in Readings : Check(j, reading)
    \/ \E j \in Jobs, w \in Writes : RecordOutcome(j, w)
    \/ Arrives \/ Sells \/ Tick

Spec == Init /\ [][Next]_vars

-----------------------------------------------------------------------------
TypeOK ==
    /\ clock \in 0..MaxTime /\ Len(file) <= MaxRows
    /\ \A j \in Jobs : jobs[j].pc \in {"idle", "check", "record"} /\ Len(jobs[j].todo) <= MaxEvents

\* A label is the verdict's own: it follows the buy with its receipt, and while no two
\* runs have had the same buy in hand no buy is labelled twice, although every append
\* may fail without a word.
LabelledOnce ==
    \A i \in DOMAIN file : file[i].event = "outcome" =>
      /\ \E k \in 1..(i - 1) : file[k].event = "buy" /\ file[k].rid = file[i].rid
      /\ ~ mixed => \A k \in DOMAIN file :
                      file[k].event = "outcome" /\ file[k].rid = file[i].rid => k = i

\* "Definitive" settlement: a buy is labelled settled only if a token reached the buyer
\* after the balance was read for it, whatever was sold, bought or arrived in between.
SettledIsReal ==
    \A i \in DOMAIN file : file[i].event = "outcome" /\ file[i].settled = {TRUE} =>
      \E k \in DOMAIN file : /\ file[k].event = "buy" /\ file[k].rid = file[i].rid
                             /\ arrivals > file[k].arrived

\* No volume of buys makes an issuer graded: only an outcome ends "insufficient", and
\* nothing brings it back.
GradeNeedsOutcome ==
    /\ IssuerTrust(file) = "insufficient" /\ IssuerTrust(file') # "insufficient"
         => Last(file').event = "outcome"
    /\ IssuerTrust(file) # "insufficient" => IssuerTrust(file') # "insufficient"
=============================================================================
