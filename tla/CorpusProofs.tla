---------------------------- MODULE CorpusProofs ----------------------------
(***************************************************************************)
(* CorpusTypeOK, CorpusSound and NothingTakenAway, for any payees,          *)
(* transfers, listings, writers of the probe log and runs of the labelling  *)
(* job.  Each file has its own invariant; the last section says that a      *)
(* behaviour works on one file and the others stay as they began.           *)
(***************************************************************************)
EXTENDS Corpus, SubsequencesProofs

-----------------------------------------------------------------------------
(* The refresh of the shipped corpus.                                       *)

Settlements == [tx : {t.tx : t \in Transfers}, payer : {t.payer : t \in Transfers},
                usdc : BOOLEAN, day : 0..MaxDay]
Stored == {r \in AllRows : r[2] <= Len(chain[r[1]])}
Commits == [rows : SUBSET AllRows, of : SUBSET AllRows, cats : SUBSET Payees, prov : SUBSET (SUBSET AllRows)]
Walks == [payee : Payees, cursor : Nat, pages : Nat, items : SUBSET AllRows]
Summaries == [ok : Nat, errors : Nat, truncated : Nat]

ChainTypes ==
    /\ chain \in [Payees -> Seq(Settlements)] /\ \A p \in Payees : Len(chain[p]) <= MaxChain
    /\ day \in 0..MaxDay /\ schema = "payer_key" /\ table = {}
    /\ age \in [Payees -> 0..RefreshAfter] /\ \A p \in Payees : memo[p] = {}

RefreshTypes ==
    /\ committed \in Commits /\ committed.rows \subseteq Stored
    /\ phase \in {"idle", "crawl", "guard", "store", "indexes", "provenance"}
    /\ cand \subseteq Stored /\ todo \in SUBSET Payees
    /\ walk = NoWalk \/ walk \in Walks
    /\ summary \in Summaries /\ summary.truncated <= summary.ok
    /\ indexes \in SUBSET Payees
    /\ newest \in [Payees -> Nat] /\ \A p \in Payees : newest[p] <= Len(chain[p])
    /\ torn \in BOOLEAN

\* A walk is of a payee still to walk; past its first page it has the newest transfer.
Walking ==
    walk # NoWalk =>
      /\ phase = "crawl" /\ walk \in Walks /\ walk.payee \in todo
      /\ \A x \in walk.items : x[1] = walk.payee /\ x[2] <= newest[walk.payee]
      /\ walk.pages = 0 => walk.cursor = newest[walk.payee] /\ walk.items = {}
      /\ walk.pages > 0 /\ newest[walk.payee] > 0 /\ chain[walk.payee][newest[walk.payee]].usdc
           => <<walk.payee, newest[walk.payee]>> \in walk.items
      /\ walk.cursor <= newest[walk.payee]

Merging == phase # "idle" => committed.rows \subseteq cand

Moving ==
    /\ phase \notin {"idle", "crawl"} => todo = {}
    /\ phase \in {"indexes", "provenance"} => torn /\ committed.rows = cand
    /\ phase = "provenance" => committed.of = cand

Agreed == ~ torn => committed.of = committed.rows /\ committed.prov \subseteq {committed.rows}

\* The newest transfer of p, when it was USDC, is in the candidate.
Current(p) ==
    newest[p] > 0 /\ chain[p][newest[p]].usdc => \E r \in cand : SameKey(<<p, newest[p]>>, r, "payer_key")

\* Of the payees walked some were errors, as many as are counted; the others are current.
Tallied ==
    /\ phase = "idle" => summary = NoSummary
    /\ phase # "idle" =>
         \E E \in SUBSET (Payees \ todo) :
           /\ Cardinality(E) = summary.errors
           /\ Cardinality((Payees \ todo) \ E) = summary.ok
           /\ \A p \in (Payees \ todo) \ E : Current(p)

\* What the guard has found holds until the store is moved.
Promoting == phase = "store" => committed.rows # cand /\ ~ CrawlTooBad

SeedInv ==
    /\ ChainTypes /\ RefreshTypes /\ Walking /\ Merging /\ Moving /\ Agreed /\ Tallied /\ Promoting

LEMMA SeedInit == RefreshInit => SeedInv
  <1> SUFFICES ASSUME RefreshInit PROVE SeedInv
    OBVIOUS
  <1>1. PICK p \in Payees, t \in {x \in Transfers : x.usdc} :
           /\ chain = [q \in Payees |-> IF q = p THEN <<[tx |-> t.tx, payer |-> t.payer,
                                                         usdc |-> TRUE, day |-> 0]>> ELSE <<>>]
           /\ committed = [rows |-> {<<p, 1>>}, of |-> {<<p, 1>>}, cats |-> {p}, prov |-> {{<<p, 1>>}}]
    BY DEF RefreshInit
  <1>2. /\ day = 0 /\ schema = "payer_key" /\ table = {}
        /\ age = [q \in Payees |-> RefreshAfter] /\ memo = [q \in Payees |-> {}]
        /\ phase = "idle" /\ cand = {} /\ todo = {} /\ walk = NoWalk /\ summary = NoSummary
        /\ indexes = {} /\ newest = [q \in Payees |-> 0] /\ torn = FALSE
    BY DEF RefreshInit
  <1>3. MaxChain \in Nat /\ MaxChain > 0 /\ MaxDay \in Nat /\ RefreshAfter \in Nat
    BY StoreAssumption, RefreshAssumption
  <1> DEFINE e == [tx |-> t.tx, payer |-> t.payer, usdc |-> TRUE, day |-> 0]
  <1>4. e \in Settlements
    BY <1>3 DEF Settlements
  <1> HIDE DEF e
  <1>5. /\ chain[p] = <<e>> /\ \A q \in Payees \ {p} : chain[q] = <<>>
        /\ chain = [q \in Payees |-> chain[q]]
    BY <1>1 DEF e
  <1> HIDE DEF Settlements
  <1>6. /\ \A q \in Payees : chain[q] \in Seq(Settlements) /\ Len(chain[q]) <= MaxChain
        /\ Len(chain[p]) = 1 /\ \A q \in Payees : Len(chain[q]) \in Nat
    <2>1. <<e>> \in Seq(Settlements) /\ Len(<<e>>) = 1
      BY <1>4
    <2>2. <<>> \in Seq(Settlements) /\ Len(<<>>) = 0
      OBVIOUS
    <2>3. chain[p] \in Seq(Settlements) /\ Len(chain[p]) = 1
      BY <1>5, <2>1
    <2>4. \A q \in Payees \ {p} : chain[q] \in Seq(Settlements) /\ Len(chain[q]) = 0
      BY <1>5, <2>2
    <2>5. 1 <= MaxChain /\ 0 <= MaxChain
      BY <1>3
    <2>6. \A q \in Payees : q = p \/ q \in Payees \ {p}
      OBVIOUS
    <2>7. \A q \in Payees : chain[q] \in Seq(Settlements) /\ (Len(chain[q]) = 0 \/ Len(chain[q]) = 1)
      BY <2>3, <2>4, <2>6
    <2>8. ASSUME NEW q \in Payees PROVE Len(chain[q]) \in Nat /\ Len(chain[q]) <= MaxChain
      <3>1. CASE Len(chain[q]) = 0
        BY <2>5, <3>1
      <3>2. CASE Len(chain[q]) = 1
        BY <2>5, <3>2
      <3> QED
        BY <2>7, <3>1, <3>2
    <2> QED
      BY <2>3, <2>7, <2>8
  <1>7. chain \in [Payees -> Seq(Settlements)]
    BY <1>5, <1>6
  <1>8. ChainTypes
    BY <1>2, <1>3, <1>6, <1>7 DEF ChainTypes
  <1>9. <<p, 1>> \in Stored
    <2>1. 1 \in 1..MaxChain
      BY <1>3
    <2>2. <<p, 1>>[1] = p /\ <<p, 1>>[2] = 1 /\ <<p, 1>> \in AllRows
      BY <2>1 DEF AllRows
    <2>3. 1 <= Len(chain[p])
      BY <1>6
    <2> QED
      BY <2>2, <2>3 DEF Stored
  <1>10. committed \in Commits /\ committed.rows = {<<p, 1>>} /\ committed.of = {<<p, 1>>} /\ committed.prov = {{<<p, 1>>}}
    <2>1. <<p, 1>> \in AllRows
      BY <1>9 DEF Stored
    <2> HIDE DEF AllRows
    <2> QED
      BY <1>1, <2>1 DEF Commits
  <1>11. NoSummary \in Summaries /\ NoSummary.truncated <= NoSummary.ok
    BY DEF NoSummary, Summaries
  <1>12. RefreshTypes
    <2>1. newest \in [Payees -> Nat] /\ \A q \in Payees : newest[q] <= Len(chain[q])
      BY <1>2, <1>6
    <2> QED
      BY <1>2, <1>9, <1>10, <1>11, <2>1 DEF RefreshTypes
  <1>13. Agreed
    BY <1>10 DEF Agreed
  <1>14. Walking /\ Merging /\ Moving /\ Tallied /\ Promoting
    BY <1>2 DEF Walking, Merging, Moving, Tallied, Promoting
  <1> QED
    BY <1>8, <1>12, <1>13, <1>14 DEF SeedInv

LEMMA RowsAreStored ==
    ASSUME SeedInv
    PROVE  /\ \A p \in Payees : chain[p] \in Seq(Settlements) /\ Len(chain[p]) \in Nat /\ newest[p] \in Nat
                                /\ newest[p] <= Len(chain[p])
           /\ \A r \in Stored : r[1] \in Payees /\ r[2] \in 1..Len(chain[r[1]]) /\ r = <<r[1], r[2]>> /\ r \in AllRows
           /\ \A p \in Payees : \A n \in 1..Len(chain[p]) : <<p, n>> \in Stored /\ chain[p][n] \in Settlements
  <1>1. ChainTypes /\ RefreshTypes
    BY DEF SeedInv
  <1> HIDE DEF Settlements
  <1>2. \A p \in Payees : chain[p] \in Seq(Settlements) /\ Len(chain[p]) \in Nat /\ Len(chain[p]) <= MaxChain
                          /\ newest[p] \in Nat /\ newest[p] <= Len(chain[p])
    BY <1>1 DEF ChainTypes, RefreshTypes
  <1>3. MaxChain \in Nat
    BY StoreAssumption
  <1>4. \A p \in Payees : \A n \in 1..Len(chain[p]) : <<p, n>> \in Stored /\ chain[p][n] \in Settlements
    <2> SUFFICES ASSUME NEW p \in Payees, NEW n \in 1..Len(chain[p])
                 PROVE  <<p, n>> \in Stored /\ chain[p][n] \in Settlements
      OBVIOUS
    <2>1. chain[p][n] \in Settlements
      BY <1>2
    <2>2. n \in 1..MaxChain /\ n <= Len(chain[p])
      BY <1>2, <1>3
    <2> QED
      BY <2>1, <2>2 DEF Stored, AllRows
  <1>5. ASSUME NEW r \in Stored
        PROVE  r[1] \in Payees /\ r[2] \in 1..Len(chain[r[1]]) /\ r = <<r[1], r[2]>> /\ r \in AllRows
    <2>1. r[1] \in Payees /\ r[2] \in 1..MaxChain /\ r[2] <= Len(chain[r[1]]) /\ r = <<r[1], r[2]>> /\ r \in AllRows
      BY DEF Stored, AllRows
    <2>2. Len(chain[r[1]]) \in Nat
      BY <1>2, <2>1
    <2> QED
      BY <1>3, <2>1, <2>2
  <1> QED
    BY <1>2, <1>4, <1>5

\* A payment, or a new day.
LEMMA WorldSeed ==
    ASSUME SeedInv, chain' \in [Payees -> Seq(Settlements)], day' \in 0..MaxDay,
           \A p \in Payees : /\ Len(chain'[p]) <= MaxChain /\ Len(chain[p]) <= Len(chain'[p])
                             /\ \A n \in 1..Len(chain[p]) : chain'[p][n] = chain[p][n],
           UNCHANGED <<schema, table, age, memo, committed, phase, cand, todo, walk, summary, indexes, newest, torn>>
    PROVE  SeedInv'
  <1>1. ChainTypes /\ RefreshTypes /\ Walking /\ Merging /\ Moving /\ Agreed /\ Tallied /\ Promoting
    BY DEF SeedInv
  <1>2. /\ \A p \in Payees : Len(chain[p]) \in Nat /\ newest[p] \in Nat /\ newest[p] <= Len(chain[p])
        /\ \A r \in Stored : r[1] \in Payees /\ r[2] \in 1..Len(chain[r[1]]) /\ r \in AllRows
    BY RowsAreStored
  <1> HIDE DEF Settlements
  <1>3. \A p \in Payees : Len(chain'[p]) \in Nat
    OBVIOUS
  <1>4. Stored \subseteq Stored'
    <2> SUFFICES ASSUME NEW r \in Stored PROVE r \in Stored'
      OBVIOUS
    <2>1. r \in AllRows /\ r[1] \in Payees /\ r[2] \in Nat /\ r[2] <= Len(chain[r[1]])
      BY <1>2
    <2>2. r[2] <= Len(chain'[r[1]])
      BY <1>2, <1>3, <2>1
    <2> QED
      BY <2>1, <2>2 DEF Stored, AllRows
  <1>5. \A r \in Stored : chain'[r[1]][r[2]] = chain[r[1]][r[2]]
    BY <1>2
  <1>6. ASSUME NEW p \in Payees, newest[p] > 0
        PROVE  /\ chain'[p][newest[p]] = chain[p][newest[p]] /\ <<p, newest[p]>> \in Stored
    <2>1. newest[p] \in 1..Len(chain[p])
      BY <1>2, <1>6
    <2> QED
      BY <2>1, RowsAreStored
  <1>7. ChainTypes'
    BY <1>1 DEF ChainTypes
  <1>8. RefreshTypes'
    <2>1. \A p \in Payees : newest[p] <= Len(chain'[p])
      BY <1>2, <1>3
    <2> QED
      BY <1>1, <1>4, <2>1 DEF RefreshTypes
  <1>9. Walking'
    <2> SUFFICES ASSUME walk # NoWalk PROVE Walking'
      BY DEF Walking
    <2>1. walk.payee \in Payees
      BY <1>1 DEF Walking, Walks
    <2>2. newest[walk.payee] > 0 => chain'[walk.payee][newest[walk.payee]] = chain[walk.payee][newest[walk.payee]]
      BY <1>6, <2>1
    <2> QED
      BY <1>1, <2>2 DEF Walking
  <1>10. ASSUME NEW p \in Payees, Current(p) PROVE Current(p)'
    <2> SUFFICES ASSUME newest[p] > 0, chain'[p][newest[p]].usdc
                 PROVE  (\E r \in cand : SameKey(<<p, newest[p]>>, r, "payer_key"))'
      BY DEF Current
    <2>1. chain'[p][newest[p]] = chain[p][newest[p]]
      BY <1>6
    <2>2. PICK r \in cand : SameKey(<<p, newest[p]>>, r, "payer_key")
      BY <1>10, <2>1 DEF Current
    <2>3. chain'[r[1]][r[2]] = chain[r[1]][r[2]]
      BY <1>1, <1>5 DEF RefreshTypes
    <2>4. SameKey(<<p, newest[p]>>, r, "payer_key")'
      BY <2>1, <2>2, <2>3 DEF SameKey
    <2> QED
      BY <2>4
  <1>11. Tallied'
    <2>1. CASE phase = "idle"
      BY <1>1, <2>1 DEF Tallied
    <2>2. CASE phase # "idle"
      <3>1. PICK E \in SUBSET (Payees \ todo) : /\ Cardinality(E) = summary.errors
                                                /\ Cardinality((Payees \ todo) \ E) = summary.ok
                                                /\ \A p \in (Payees \ todo) \ E : Current(p)
        BY <1>1, <2>2 DEF Tallied
      <3>2. \A p \in (Payees \ todo) \ E : Current(p)'
        BY <1>10, <3>1
      <3> QED
        BY <2>2, <3>1, <3>2 DEF Tallied
    <2> QED
      BY <2>1, <2>2
  <1>12. Merging' /\ Moving' /\ Agreed' /\ Promoting'
    BY <1>1 DEF Merging, Moving, Agreed, Promoting, CrawlTooBad
  <1> QED
    BY <1>7, <1>8, <1>9, <1>11, <1>12 DEF SeedInv

LEMMA EnvironmentSeed == ASSUME SeedInv, Environment PROVE SeedInv'
  <1>1. UNCHANGED <<committed, phase, cand, todo, walk, summary, indexes, newest, torn>>
    BY DEF Environment, refreshVars
  <1>2. ChainTypes /\ MaxDay \in Nat /\ MaxChain \in Nat
    BY StoreAssumption DEF SeedInv
  <1>3. /\ chain \in [Payees -> Seq(Settlements)] /\ day \in 0..MaxDay
        /\ \A p \in Payees : Len(chain[p]) \in Nat /\ Len(chain[p]) <= MaxChain
    <2> HIDE DEF Settlements
    <2> QED
      BY <1>2 DEF ChainTypes
  <1>4. CASE NextDay
    <2>1. chain' = chain /\ day' \in 0..MaxDay /\ UNCHANGED <<schema, table, age, memo>>
      BY <1>2, <1>3, <1>4 DEF NextDay
    <2>2. \A p \in Payees : /\ Len(chain'[p]) <= MaxChain /\ Len(chain[p]) <= Len(chain'[p])
                            /\ \A n \in 1..Len(chain[p]) : chain'[p][n] = chain[p][n]
      BY <1>3, <2>1
    <2>3. chain' \in [Payees -> Seq(Settlements)]
      BY <1>3, <2>1
    <2> QED
      BY <1>1, <2>1, <2>2, <2>3, WorldSeed
  <1>5. ASSUME NEW p \in Payees, NEW t \in Transfers, Paid(p, t) PROVE SeedInv'
    <2> DEFINE e == [tx |-> t.tx, payer |-> t.payer, usdc |-> t.usdc, day |-> day]
    <2>1. /\ Len(chain[p]) < MaxChain /\ chain' = [chain EXCEPT ![p] = Append(chain[p], e)]
          /\ UNCHANGED <<day, schema, table, age, memo>>
      BY <1>5 DEF Paid
    <2>2. e \in Settlements
      BY <1>3, StoreAssumption DEF Settlements
    <2> HIDE DEF e, Settlements
    <2>3. chain[p] \in Seq(Settlements)
      BY <1>3
    <2>4. /\ Append(chain[p], e) \in Seq(Settlements) /\ Len(Append(chain[p], e)) = Len(chain[p]) + 1
          /\ \A n \in 1..Len(chain[p]) : Append(chain[p], e)[n] = chain[p][n]
      BY <2>2, <2>3
    <2>5. chain' \in [Payees -> Seq(Settlements)] /\ chain'[p] = Append(chain[p], e)
          /\ \A q \in Payees \ {p} : chain'[q] = chain[q]
      BY <1>3, <2>1, <2>4
    <2>6. ASSUME NEW q \in Payees
          PROVE  /\ Len(chain'[q]) <= MaxChain /\ Len(chain[q]) <= Len(chain'[q])
                 /\ \A n \in 1..Len(chain[q]) : chain'[q][n] = chain[q][n]
      <3>1. CASE q = p
        BY <1>2, <1>3, <2>1, <2>4, <2>5, <3>1
      <3>2. CASE q # p
        BY <1>3, <2>5, <3>2
      <3> QED
        BY <3>1, <3>2
    <2>7. day' \in 0..MaxDay
      BY <1>3, <2>1
    <2> QED
      BY <1>1, <2>1, <2>5, <2>6, <2>7, WorldSeed
  <1> QED
    BY <1>4, <1>5 DEF Environment

\* A step of the job leaves the chain.
LEMMA ChainStays ==
    ASSUME SeedInv, UNCHANGED storeVars
    PROVE  ChainTypes' /\ Stored' = Stored /\ chain' = chain
  <1>1. UNCHANGED <<chain, day, schema, table, age, memo>> /\ ChainTypes
    BY DEF storeVars, SeedInv
  <1> QED
    BY <1>1 DEF ChainTypes, Stored

\* A payee stays current while the candidate only grows.
LEMMA StaysCurrent ==
    ASSUME NEW p, Current(p), chain' = chain, newest'[p] = newest[p], cand \subseteq cand'
    PROVE  Current(p)'
  BY DEF Current, SameKey

LEMMA EndSeed ==
    ASSUME SeedInv, EndJob, UNCHANGED storeVars,
           committed' \in Commits, committed'.rows \subseteq Stored, torn' \in BOOLEAN, Agreed'
    PROVE  SeedInv'
  <1>1. /\ phase' = "idle" /\ walk' = NoWalk /\ cand' = {} /\ todo' = {} /\ summary' = NoSummary
        /\ indexes' = {} /\ newest' = [p \in Payees |-> 0]
    BY DEF EndJob
  <1>2. ChainTypes' /\ Stored' = Stored /\ chain' = chain
    BY ChainStays
  <1>3. NoSummary \in Summaries /\ NoSummary.truncated <= NoSummary.ok
    BY DEF NoSummary, Summaries
  <1>4. newest' \in [Payees -> Nat] /\ \A p \in Payees : newest'[p] <= Len(chain'[p])
    <2>1. \A p \in Payees : Len(chain[p]) \in Nat
      BY RowsAreStored
    <2> QED
      BY <1>1, <1>2, <2>1
  <1>5. RefreshTypes'
    BY <1>1, <1>2, <1>3, <1>4 DEF RefreshTypes
  <1>6. Walking' /\ Merging' /\ Moving' /\ Tallied' /\ Promoting'
    BY <1>1 DEF Walking, Merging, Moving, Tallied, Promoting
  <1> QED
    BY <1>2, <1>5, <1>6 DEF SeedInv

LEMMA StartSeed == ASSUME SeedInv, Start PROVE SeedInv'
  <1>1. ChainTypes /\ RefreshTypes /\ Moving /\ Agreed
    BY DEF SeedInv
  <1>2. /\ phase' = "crawl" /\ cand' = committed.rows /\ todo' = Payees /\ walk' = NoWalk
        /\ summary' = NoSummary /\ UNCHANGED <<storeVars, committed, indexes, newest, torn>>
    BY DEF Start
  <1>3. ChainTypes' /\ Stored' = Stored /\ chain' = chain
    BY <1>2, ChainStays
  <1>4. NoSummary \in Summaries /\ NoSummary.truncated <= NoSummary.ok /\ NoSummary.ok = 0 /\ NoSummary.errors = 0
    BY DEF NoSummary, Summaries
  <1>5. RefreshTypes'
    BY <1>1, <1>2, <1>3, <1>4 DEF RefreshTypes
  <1>6. Walking' /\ Merging' /\ Moving' /\ Promoting' /\ Agreed'
    BY <1>1, <1>2 DEF Walking, Merging, Moving, Promoting, Agreed
  <1>7. Tallied'
    <2>1. Payees \ todo' = {} /\ Cardinality({}) = 0
      BY <1>2, FS_EmptySet
    <2> QED
      BY <1>2, <1>4, <2>1 DEF Tallied
  <1> QED
    BY <1>3, <1>5, <1>6, <1>7 DEF SeedInv

LEMMA BeginSeed == ASSUME SeedInv, NEW p \in Payees, BeginWalk(p) PROVE SeedInv'
  <1>1. ChainTypes /\ RefreshTypes /\ Merging /\ Moving /\ Agreed /\ Tallied /\ Promoting
    BY DEF SeedInv
  <1>2. /\ phase = "crawl" /\ p \in todo
        /\ walk' = [payee |-> p, cursor |-> Len(chain[p]), pages |-> 0, items |-> {}]
        /\ newest' = [newest EXCEPT ![p] = Len(chain[p])]
        /\ UNCHANGED <<storeVars, committed, phase, cand, todo, summary, indexes, torn>>
    BY DEF BeginWalk
  <1>3. ChainTypes' /\ Stored' = Stored /\ chain' = chain
    BY <1>2, ChainStays
  <1>4. /\ newest' \in [Payees -> Nat] /\ newest'[p] = Len(chain[p]) /\ Len(chain[p]) \in Nat
        /\ \A q \in Payees \ {p} : newest'[q] = newest[q]
        /\ \A q \in Payees : newest'[q] <= Len(chain[q])
    <2>1. \A q \in Payees : Len(chain[q]) \in Nat /\ newest[q] <= Len(chain[q])
      BY RowsAreStored
    <2>2. newest \in [Payees -> Nat]
      BY <1>1 DEF RefreshTypes
    <2> QED
      BY <1>2, <2>1, <2>2
  <1>5. walk' \in Walks
    BY <1>2, <1>4 DEF Walks
  <1>6. RefreshTypes'
    BY <1>1, <1>2, <1>3, <1>4, <1>5 DEF RefreshTypes
  <1>7. Walking'
    <2>1. walk'.payee = p /\ walk'.cursor = Len(chain[p]) /\ walk'.pages = 0 /\ walk'.items = {}
      BY <1>2
    <2>2. Len(chain[p]) <= Len(chain[p])
      BY <1>4
    <2> QED
      BY <1>2, <1>4, <1>5, <2>1, <2>2 DEF Walking
  <1>8. Merging' /\ Moving' /\ Promoting' /\ Agreed'
    BY <1>1, <1>2 DEF Merging, Moving, Promoting, Agreed
  <1>9. Tallied'
    <2>1. PICK E \in SUBSET (Payees \ todo) : /\ Cardinality(E) = summary.errors
                                              /\ Cardinality((Payees \ todo) \ E) = summary.ok
                                              /\ \A q \in (Payees \ todo) \ E : Current(q)
      BY <1>1, <1>2 DEF Tallied
    <2>2. ASSUME NEW q \in (Payees \ todo) \ E PROVE Current(q)'
      <3>1. newest'[q] = newest[q] /\ Current(q)
        BY <1>2, <1>4, <2>1
      <3> QED
        BY <1>2, <1>3, <3>1, StaysCurrent
    <2> QED
      BY <1>2, <2>1, <2>2 DEF Tallied
  <1> QED
    BY <1>3, <1>6, <1>7, <1>8, <1>9 DEF SeedInv

LEMMA FetchSeed == ASSUME SeedInv, FetchPage PROVE SeedInv'
  <1> DEFINE p == walk.payee
             page == ExtractUsdcTransfers(p, Page(walk.cursor))
             rest == Max({0, walk.cursor - PageSize})
  <1>1. ChainTypes /\ RefreshTypes /\ Walking /\ Merging /\ Moving /\ Agreed /\ Tallied /\ Promoting
    BY DEF SeedInv
  <1>2. /\ walk # NoWalk /\ UNCHANGED <<storeVars, committed, phase, cand, todo, summary, indexes, newest, torn>>
        /\ walk' = [walk EXCEPT !.items = walk.items \cup page, !.cursor = rest, !.pages = walk.pages + 1]
    BY DEF FetchPage
  <1>3. ChainTypes' /\ Stored' = Stored /\ chain' = chain
    BY <1>2, ChainStays
  <1>4. /\ walk \in Walks /\ p \in Payees /\ p \in todo /\ walk.cursor \in Nat /\ walk.pages \in Nat
        /\ walk.items \in SUBSET AllRows /\ walk.cursor <= newest[p] /\ phase = "crawl"
        /\ \A x \in walk.items : x[1] = p /\ x[2] <= newest[p]
        /\ newest[p] \in Nat /\ newest[p] <= Len(chain[p]) /\ Len(chain[p]) \in Nat /\ Len(chain[p]) <= MaxChain
    <2>1. walk \in Walks /\ p \in todo /\ walk.cursor <= newest[p] /\ phase = "crawl"
          /\ \A x \in walk.items : x[1] = p /\ x[2] <= newest[p]
      BY <1>1, <1>2 DEF Walking
    <2>2. p \in Payees /\ walk.cursor \in Nat /\ walk.pages \in Nat /\ walk.items \in SUBSET AllRows
      BY <2>1 DEF Walks
    <2> QED
      BY <1>1, <2>1, <2>2, RowsAreStored DEF ChainTypes
  <1>5. MaxChain \in Nat /\ PageSize \in Nat /\ PageSize > 0
    BY StoreAssumption
  <1>6. rest \in Nat /\ rest <= walk.cursor
    <2> DEFINE c == walk.cursor
    <2>1. c \in Nat
      BY <1>4
    <2> HIDE DEF c
    <2>2. Max({0, c - PageSize}) = CHOOSE x \in {0, c - PageSize} : \A y \in {0, c - PageSize} : x >= y
      BY DEF Max
    <2>3. \E x \in {0, c - PageSize} : \A y \in {0, c - PageSize} : x >= y
      BY <1>5, <2>1
    <2>4. Max({0, c - PageSize}) \in {0, c - PageSize} /\ \A y \in {0, c - PageSize} : Max({0, c - PageSize}) >= y
      BY <2>2, <2>3
    <2>5. Max({0, c - PageSize}) \in Nat /\ Max({0, c - PageSize}) <= c
      BY <1>5, <2>1, <2>4
    <2> QED
      BY <2>5 DEF c
  <1>7. /\ page \subseteq AllRows /\ \A x \in page : x[1] = p /\ x[2] <= newest[p]
        /\ walk.cursor > 0 /\ chain[p][walk.cursor].usdc => <<p, walk.cursor>> \in page
    <2>1. page = {<<p, n>> : n \in {m \in Page(walk.cursor) : chain[p][m].usdc}}
      BY DEF ExtractUsdcTransfers
    <2>2. Page(walk.cursor) = {n \in 1..MaxChain : n <= walk.cursor /\ n > walk.cursor - PageSize}
      BY DEF Page
    <2>3. \A n \in Page(walk.cursor) : n \in 1..MaxChain /\ n <= newest[p]
      BY <1>4, <1>5, <2>2
    <2>4. \A x \in page : \E n \in Page(walk.cursor) : x = <<p, n>>
      BY <2>1
    <2>5. walk.cursor > 0 => walk.cursor \in Page(walk.cursor)
      BY <1>4, <1>5, <2>2
    <2> HIDE DEF page
    <2>6. page \subseteq AllRows /\ \A x \in page : x[1] = p /\ x[2] <= newest[p]
      <3> SUFFICES ASSUME NEW x \in page PROVE x \in AllRows /\ x[1] = p /\ x[2] <= newest[p]
        OBVIOUS
      <3>1. PICK n \in Page(walk.cursor) : x = <<p, n>>
        BY <2>4
      <3> QED
        BY <1>4, <2>3, <3>1 DEF AllRows
    <2>7. walk.cursor > 0 /\ chain[p][walk.cursor].usdc => <<p, walk.cursor>> \in page
      BY <2>1, <2>5
    <2> QED
      BY <2>6, <2>7
  <1>8. walk' = [payee |-> p, cursor |-> rest, pages |-> walk.pages + 1, items |-> walk.items \cup page]
    <2> DEFINE c == walk.cursor
               n == walk.pages
               s == walk.items
    <2>1. walk = [payee |-> p, cursor |-> c, pages |-> n, items |-> s]
      BY <1>4 DEF Walks
    <2>2. walk' = [walk EXCEPT !.items = s \cup page, !.cursor = rest, !.pages = n + 1]
      BY <1>2
    <2> HIDE DEF p, page, rest, c, n, s
    <2>3. [[payee |-> p, cursor |-> c, pages |-> n, items |-> s] EXCEPT !.items = s \cup page]
            = [payee |-> p, cursor |-> c, pages |-> n, items |-> s \cup page]
      OBVIOUS
    <2>4. [[payee |-> p, cursor |-> c, pages |-> n, items |-> s \cup page] EXCEPT !.cursor = rest]
            = [payee |-> p, cursor |-> rest, pages |-> n, items |-> s \cup page]
      OBVIOUS
    <2>5. [[payee |-> p, cursor |-> rest, pages |-> n, items |-> s \cup page] EXCEPT !.pages = n + 1]
            = [payee |-> p, cursor |-> rest, pages |-> n + 1, items |-> s \cup page]
      OBVIOUS
    <2>6. walk' = [payee |-> p, cursor |-> rest, pages |-> n + 1, items |-> s \cup page]
      BY <2>1, <2>2, <2>3, <2>4, <2>5
    <2> QED
      BY <2>6 DEF n, s
  <1>9. newest[p] > 0 /\ chain[p][newest[p]].usdc => <<p, newest[p]>> \in walk.items \cup page
    <2> SUFFICES ASSUME newest[p] > 0, chain[p][newest[p]].usdc PROVE <<p, newest[p]>> \in walk.items \cup page
      OBVIOUS
    <2>1. CASE walk.pages = 0
      <3>1. walk.cursor = newest[p]
        BY <1>1, <1>2, <2>1 DEF Walking
      <3> QED
        BY <1>7, <3>1
    <2>2. CASE walk.pages # 0
      <3>1. walk.pages > 0
        BY <1>4, <2>2
      <3> QED
        BY <1>1, <1>2, <3>1 DEF Walking
    <2> QED
      BY <2>1, <2>2
  <1> HIDE DEF page, rest
  <1>10. /\ walk'.payee = p /\ walk'.cursor = rest /\ walk'.pages = walk.pages + 1
         /\ walk'.items = walk.items \cup page /\ walk' \in Walks
    <2>1. walk.items \cup page \in SUBSET AllRows /\ walk.pages + 1 \in Nat
      BY <1>4, <1>7
    <2> HIDE DEF p, AllRows
    <2> QED
      BY <1>4, <1>6, <1>8, <2>1 DEF Walks
  <1>11. Walking'
    <2>1. \A x \in walk'.items : x[1] = p /\ x[2] <= newest[p]
      BY <1>4, <1>7, <1>10
    <2>2. walk'.pages # 0 /\ rest <= newest[p]
      BY <1>4, <1>6, <1>10
    <2> HIDE DEF p
    <2>3. phase' = "crawl" /\ walk'.payee \in todo' /\ newest' = newest /\ chain' = chain
      BY <1>2, <1>3, <1>4, <1>10
    <2> QED
      BY <1>9, <1>10, <2>1, <2>2, <2>3 DEF Walking
  <1>12. RefreshTypes'
    BY <1>1, <1>2, <1>3, <1>10 DEF RefreshTypes
  <1>13. Merging' /\ Moving' /\ Promoting' /\ Agreed'
    BY <1>1, <1>2 DEF Merging, Moving, Promoting, Agreed, CrawlTooBad
  <1>14. Tallied'
    BY <1>1, <1>2, <1>3 DEF Tallied, Current, SameKey
  <1> QED
    BY <1>3, <1>11, <1>12, <1>13, <1>14 DEF SeedInv

LEMMA IngestSeed ==
    ASSUME SeedInv, walk # NoWalk, walk.pages > 0, NEW truncated \in BOOLEAN, Ingest(truncated)
    PROVE  SeedInv'
  <1>0. PICK p : p = walk.payee
    OBVIOUS
  <1>1. ChainTypes /\ RefreshTypes /\ Walking /\ Merging /\ Moving /\ Agreed /\ Tallied /\ Promoting
    BY DEF SeedInv
  <1>2. /\ cand' = IngestTransfers(cand, walk.items, "payer_key")
        /\ summary' = [summary EXCEPT !.ok = summary.ok + 1,
                                      !.truncated = summary.truncated + (IF truncated THEN 1 ELSE 0)]
        /\ todo' = todo \ {p} /\ walk' = NoWalk
        /\ UNCHANGED <<storeVars, committed, phase, indexes, newest, torn>>
    BY <1>0 DEF Ingest
  <1>3. ChainTypes' /\ Stored' = Stored /\ chain' = chain
    BY <1>2, ChainStays
  <1>4. /\ walk \in Walks /\ p \in Payees /\ p \in todo /\ phase = "crawl" /\ walk.items \in SUBSET AllRows
        /\ \A x \in walk.items : x[1] = p /\ x[2] <= newest[p]
        /\ newest[p] > 0 /\ chain[p][newest[p]].usdc => <<p, newest[p]>> \in walk.items
        /\ newest[p] \in Nat /\ newest[p] <= Len(chain[p]) /\ Len(chain[p]) \in Nat
    <2>1. /\ walk \in Walks /\ p \in todo /\ phase = "crawl"
          /\ \A x \in walk.items : x[1] = p /\ x[2] <= newest[p]
          /\ newest[p] > 0 /\ chain[p][newest[p]].usdc => <<p, newest[p]>> \in walk.items
      BY <1>0, <1>1 DEF Walking
    <2>2. p \in Payees /\ walk.items \in SUBSET AllRows
      BY <1>0, <2>1 DEF Walks
    <2> QED
      BY <2>1, <2>2, RowsAreStored
  <1>5. cand' = cand \cup {x \in walk.items : /\ \A r \in cand : ~ SameKey(x, r, "payer_key")
                                              /\ \A y \in walk.items : y[2] > x[2] => ~ SameKey(x, y, "payer_key")}
    BY <1>2 DEF IngestTransfers
  <1>6. cand \subseteq cand' /\ cand' \subseteq cand \cup walk.items
    BY <1>5
  <1>7. walk.items \subseteq Stored
    <2> SUFFICES ASSUME NEW x \in walk.items PROVE x \in Stored
      OBVIOUS
    <2>1. x[1] = p /\ x[2] <= newest[p] /\ x \in AllRows
      BY <1>4
    <2>2. x[2] \in Nat
      BY <2>1 DEF AllRows
    <2>3. x[2] <= Len(chain[p])
      BY <1>4, <2>1, <2>2
    <2> QED
      BY <2>1, <2>3 DEF Stored
  \* The newest transfer comes in, unless it is there.
  <1>8. Current(p)'
    <2> SUFFICES ASSUME newest[p] > 0, chain[p][newest[p]].usdc
                 PROVE  \E r \in cand' : SameKey(<<p, newest[p]>>, r, "payer_key")
      BY <1>2, <1>3 DEF Current, SameKey
    <2> DEFINE x == <<p, newest[p]>>
    <2>1. x \in walk.items /\ x[2] = newest[p]
      BY <1>4
    <2> HIDE DEF x
    <2>2. CASE \E r \in cand : SameKey(x, r, "payer_key")
      BY <1>6, <2>2 DEF x
    <2>3. CASE \A r \in cand : ~ SameKey(x, r, "payer_key")
      <3>1. \A y \in walk.items : ~ (y[2] > x[2])
        <4> SUFFICES ASSUME NEW y \in walk.items PROVE ~ (y[2] > x[2])
          OBVIOUS
        <4>1. y[2] <= newest[p] /\ y[2] \in Nat
          BY <1>4 DEF AllRows
        <4> QED
          BY <1>4, <2>1, <4>1
      <3>2. x \in cand'
        BY <1>5, <2>1, <2>3, <3>1
      <3>3. SameKey(x, x, "payer_key")
        BY DEF SameKey
      <3> QED
        BY <3>2, <3>3 DEF x
    <2> QED
      BY <2>2, <2>3
  <1>9. summary' \in Summaries /\ summary'.truncated <= summary'.ok /\ summary'.ok = summary.ok + 1
        /\ summary'.errors = summary.errors
    <2> DEFINE a == summary.ok
               b == summary.errors
               c == summary.truncated
               d == IF truncated THEN 1 ELSE 0
    <2>1. summary = [ok |-> a, errors |-> b, truncated |-> c] /\ a \in Nat /\ b \in Nat /\ c \in Nat /\ c <= a
      BY <1>1 DEF RefreshTypes, Summaries
    <2>2. d \in {0, 1}
      OBVIOUS
    <2>3. summary' = [summary EXCEPT !.ok = a + 1, !.truncated = c + d]
      BY <1>2
    <2> HIDE DEF a, b, c, d
    <2>4. summary' = [ok |-> a + 1, errors |-> b, truncated |-> c + d]
      BY <2>1, <2>3
    <2>5. a + 1 \in Nat /\ c + d \in Nat /\ c + d <= a + 1
      BY <2>1, <2>2
    <2>6. summary' \in Summaries
      BY <2>1, <2>4, <2>5 DEF Summaries
    <2>7. summary'.truncated = c + d /\ summary'.ok = a + 1 /\ summary'.errors = b
      BY <2>4
    <2> QED
      BY <2>5, <2>6, <2>7 DEF a, b
  <1>10. RefreshTypes'
    BY <1>1, <1>2, <1>3, <1>6, <1>7, <1>9 DEF RefreshTypes
  <1>11. Walking' /\ Merging' /\ Moving' /\ Promoting' /\ Agreed'
    BY <1>1, <1>2, <1>4, <1>6 DEF Walking, Merging, Moving, Promoting, Agreed
  <1>12. Tallied'
    <2>1. PICK E \in SUBSET (Payees \ todo) : /\ Cardinality(E) = summary.errors
                                              /\ Cardinality((Payees \ todo) \ E) = summary.ok
                                              /\ \A q \in (Payees \ todo) \ E : Current(q)
      BY <1>1, <1>4 DEF Tallied
    <2> DEFINE old == (Payees \ todo) \ E
    <2>2. (Payees \ todo') \ E = old \cup {p} /\ p \notin old /\ E \in SUBSET (Payees \ todo')
      BY <1>2, <1>4, <2>1
    <2>3. IsFiniteSet(old)
      BY PayeesAssumption, FS_Subset
    <2> HIDE DEF old
    <2>4. Cardinality(old \cup {p}) = Cardinality(old) + 1
      BY <2>2, <2>3, FS_AddElement
    <2>5. ASSUME NEW q \in old PROVE Current(q)'
      <3>1. Current(q)
        BY <2>1 DEF old
      <3> QED
        BY <1>2, <1>3, <1>6, <3>1, StaysCurrent
    <2>6. \A q \in (Payees \ todo') \ E : Current(q)'
      BY <1>8, <2>2, <2>5
    <2>7. Cardinality((Payees \ todo') \ E) = summary'.ok /\ Cardinality(E) = summary'.errors
      BY <1>9, <2>1, <2>2, <2>4 DEF old
    <2> QED
      BY <1>2, <1>4, <2>2, <2>6, <2>7 DEF Tallied
  <1> QED
    BY <1>3, <1>10, <1>11, <1>12 DEF SeedInv

LEMMA ErrorSeed ==
    ASSUME SeedInv, walk # NoWalk, walk.pages = 0, summary' = [summary EXCEPT !.errors = @ + 1],
           todo' = todo \ {walk.payee}, walk' = NoWalk,
           UNCHANGED <<storeVars, committed, phase, cand, indexes, newest, torn>>
    PROVE  SeedInv'
  <1> DEFINE p == walk.payee
  <1>1. ChainTypes /\ RefreshTypes /\ Walking /\ Merging /\ Moving /\ Agreed /\ Tallied /\ Promoting
    BY DEF SeedInv
  <1>2. ChainTypes' /\ Stored' = Stored /\ chain' = chain
    BY ChainStays
  <1>3. p \in Payees /\ p \in todo /\ phase = "crawl"
    BY <1>1 DEF Walking, Walks
  <1>4. todo' = todo \ {p}
    OBVIOUS
  <1> HIDE DEF p
  <1>5. summary' \in Summaries /\ summary'.truncated <= summary'.ok /\ summary'.ok = summary.ok
        /\ summary'.errors = summary.errors + 1
    <2>1. summary \in Summaries /\ summary.truncated <= summary.ok
      BY <1>1 DEF RefreshTypes
    <2> QED
      BY <2>1 DEF Summaries
  <1>6. RefreshTypes'
    BY <1>1, <1>2, <1>4, <1>5 DEF RefreshTypes
  <1>7. Walking' /\ Merging' /\ Moving' /\ Promoting' /\ Agreed'
    BY <1>1, <1>3, <1>4 DEF Walking, Merging, Moving, Promoting, Agreed
  <1>8. Tallied'
    <2>1. PICK E \in SUBSET (Payees \ todo) : /\ Cardinality(E) = summary.errors
                                              /\ Cardinality((Payees \ todo) \ E) = summary.ok
                                              /\ \A q \in (Payees \ todo) \ E : Current(q)
      BY <1>1, <1>3 DEF Tallied
    <2> DEFINE F == E \cup {p}
    <2>2. p \notin E /\ F \in SUBSET (Payees \ todo') /\ (Payees \ todo') \ F = (Payees \ todo) \ E
      BY <1>3, <1>4, <2>1
    <2>3. IsFiniteSet(E)
      BY <2>1, PayeesAssumption, FS_Subset
    <2>4. Cardinality(F) = Cardinality(E) + 1
      BY <2>2, <2>3, FS_AddElement
    <2> HIDE DEF F
    <2>5. ASSUME NEW q \in (Payees \ todo') \ F PROVE Current(q)'
      <3>1. Current(q)
        BY <2>1, <2>2
      <3> QED
        BY <1>2, <3>1, StaysCurrent
    <2>6. Cardinality(F) = summary'.errors /\ Cardinality((Payees \ todo') \ F) = summary'.ok
      BY <1>5, <2>1, <2>2, <2>4
    <2> QED
      BY <1>3, <2>2, <2>5, <2>6 DEF Tallied
  <1> QED
    BY <1>2, <1>6, <1>7, <1>8 DEF SeedInv

LEMMA WalkEndsSeed == ASSUME SeedInv, EndWalk \/ PageFails PROVE SeedInv'
  <1>1. CASE EndWalk
    <2>1. walk # NoWalk /\ walk.pages > 0 /\ Ingest(walk.cursor > 0)
      BY <1>1 DEF EndWalk
    <2>2. (walk.cursor > 0) \in BOOLEAN
      OBVIOUS
    <2> QED
      BY <2>1, <2>2, IngestSeed
  <1>2. CASE PageFails
    <2>1. walk # NoWalk
      BY <1>2 DEF PageFails
    <2>2. CASE walk.pages > 0 /\ Ingest(TRUE)
      BY <2>1, <2>2, IngestSeed
    <2>3. CASE ~ (walk.pages > 0 /\ Ingest(TRUE))
      <3>1. /\ walk.pages = 0 /\ summary' = [summary EXCEPT !.errors = @ + 1]
            /\ todo' = todo \ {walk.payee} /\ walk' = NoWalk
            /\ UNCHANGED <<storeVars, committed, phase, cand, indexes, newest, torn>>
        BY <1>2, <2>3 DEF PageFails
      <3> QED
        BY <2>1, <3>1, ErrorSeed
    <2> QED
      BY <2>2, <2>3
  <1> QED
    BY <1>1, <1>2

\* What is in the store has an age.
LEMMA StoreHasAge ==
    ASSUME SeedInv, NEW S \in SUBSET Stored, S # {}
    PROVE  AgeOf(S) \in Int
  <1> DEFINE T == RowDays(S)
  <1>1. MaxDay \in Nat /\ day \in Int
    BY StoreAssumption DEF SeedInv, ChainTypes
  <1>2. ASSUME NEW r \in S PROVE chain[r[1]][r[2]].day \in 0..MaxDay
    <2>1. chain[r[1]][r[2]] \in Settlements
      BY RowsAreStored
    <2> QED
      BY <2>1 DEF Settlements
  <1>3. T = {chain[r[1]][r[2]].day : r \in S}
    BY DEF RowDays
  <1>4. T \in SUBSET Nat /\ T # {} /\ \A i \in T : i <= MaxDay
    BY <1>1, <1>2, <1>3
  <1> HIDE DEF T
  <1>5. PICK m \in T : \A i \in T : i <= m
    BY <1>1, <1>4, LargestElement
  <1>6. \A y \in T : m >= y
    BY <1>4, <1>5
  <1>7. Max(T) \in T
    BY <1>5, <1>6 DEF Max
  <1> DEFINE top == Max(T)
  <1>8. top \in Int
    <2>1. top \in T
      BY <1>7
    <2> HIDE DEF top
    <2> QED
      BY <1>4, <2>1
  <1> QED
    BY <1>1, <1>8 DEF AgeOf, T

LEMMA RowsAreFinite == ASSUME NEW S \in SUBSET AllRows PROVE IsFiniteSet(S) /\ Cardinality(S) \in Nat
  <1>1. IsFiniteSet(1..MaxChain)
    BY StoreAssumption, FS_Interval
  <1>2. IsFiniteSet(AllRows)
    BY <1>1, PayeesAssumption, FS_Product DEF AllRows
  <1> QED
    BY <1>2, FS_Subset, FS_CardinalityType

\* The guard does not accept what is shipped already.
LEMMA SameIsNotBetter ==
    ASSUME SeedInv, cand # {}, AssessRefresh(committed.rows, cand)
    PROVE  committed.rows # cand
  <1> SUFFICES ASSUME committed.rows = cand PROVE FALSE
    OBVIOUS
  <1>1. AgeOf(cand) < AgeOf(cand) \/ Cardinality(cand) > Cardinality(cand)
    BY DEF AssessRefresh
  <1>2. cand \subseteq Stored /\ cand \subseteq AllRows
    BY DEF SeedInv, RefreshTypes, Stored
  <1>3. AgeOf(cand) \in Int /\ Cardinality(cand) \in Int
    BY <1>2, StoreHasAge, RowsAreFinite
  <1> QED
    BY <1>1, <1>3

LEMMA BuildSeed ==
    ASSUME SeedInv, \/ \E listed \in SUBSET Payees : BuildIndexes(listed)
                    \/ Guard /\ Accepted
    PROVE  SeedInv'
  <1>1. ChainTypes /\ RefreshTypes /\ Walking /\ Merging /\ Moving /\ Agreed /\ Tallied /\ Promoting
    BY DEF SeedInv
  <1>2. /\ phase # "idle" /\ todo = {} /\ UNCHANGED <<storeVars, committed, cand, todo, walk, summary, newest, torn>>
        /\ \/ phase = "crawl" /\ phase' = "guard" /\ \E listed \in SUBSET Payees : indexes' = listed \cap SeedPayees(cand)
           \/ phase = "guard" /\ Accepted /\ phase' = "store" /\ indexes' = indexes
    <2>1. CASE \E listed \in SUBSET Payees : BuildIndexes(listed)
      BY <2>1 DEF BuildIndexes
    <2>2. CASE Guard /\ Accepted
      <3>1. phase = "guard" /\ phase' = "store" /\ UNCHANGED <<storeVars, committed, cand, todo, walk, summary, indexes, newest, torn>>
        BY <2>2 DEF Guard
      <3>2. todo = {}
        BY <1>1, <3>1 DEF Moving
      <3> QED
        BY <2>2, <3>1, <3>2
    <2> QED
      BY <2>1, <2>2
  <1>3. ChainTypes' /\ Stored' = Stored /\ chain' = chain
    BY <1>2, ChainStays
  <1>4. walk = NoWalk
    BY <1>1, <1>2 DEF Walking
  <1>5. indexes' \in SUBSET Payees
    BY <1>1, <1>2 DEF RefreshTypes
  <1>6. RefreshTypes'
    BY <1>1, <1>2, <1>3, <1>5 DEF RefreshTypes
  <1>7. Walking' /\ Merging' /\ Moving' /\ Agreed'
    BY <1>1, <1>2, <1>4 DEF Walking, Merging, Moving, Agreed
  <1>8. Tallied'
    BY <1>1, <1>2, <1>3 DEF Tallied, Current, SameKey
  <1>9. Promoting'
    <2> SUFFICES ASSUME phase' = "store" PROVE committed.rows # cand /\ ~ CrawlTooBad
      BY <1>2 DEF Promoting, CrawlTooBad
    <2>1. cand # {} /\ AssessRefresh(committed.rows, cand)
      BY <1>2 DEF Accepted
    <2>2. ~ CrawlTooBad
      BY <2>1 DEF AssessRefresh
    <2> QED
      BY <2>1, <2>2, SameIsNotBetter
  <1> QED
    BY <1>3, <1>6, <1>7, <1>8, <1>9 DEF SeedInv

LEMMA MoveSeed == ASSUME SeedInv, MoveStore \/ MoveIndexes PROVE SeedInv'
  <1>1. ChainTypes /\ RefreshTypes /\ Walking /\ Merging /\ Moving /\ Agreed /\ Tallied /\ Promoting
    BY DEF SeedInv
  <1>2. /\ phase \in {"store", "indexes"} /\ torn' = TRUE
        /\ UNCHANGED <<storeVars, cand, todo, walk, summary, indexes, newest>>
        /\ \/ phase = "store" /\ phase' = "indexes" /\ committed' = [committed EXCEPT !.rows = cand]
           \/ phase = "indexes" /\ phase' = "provenance" /\ committed' = [committed EXCEPT !.cats = indexes, !.of = cand]
    BY <1>1 DEF MoveStore, MoveIndexes, Moving
  <1>3. ChainTypes' /\ Stored' = Stored /\ chain' = chain
    BY <1>2, ChainStays
  <1>4. cand \in SUBSET AllRows /\ cand \subseteq Stored /\ indexes \in SUBSET Payees /\ committed \in Commits
    BY <1>1 DEF RefreshTypes, Stored
  <1>5. committed' \in Commits /\ committed'.rows = cand /\ (phase' = "provenance" => committed'.of = cand)
    <2>1. CASE phase = "store"
      BY <1>2, <1>4, <2>1 DEF Commits
    <2>2. CASE phase = "indexes"
      <3> DEFINE a == committed.rows
                 b == committed.of
                 c == committed.cats
                 d == committed.prov
      <3>1. committed = [rows |-> a, of |-> b, cats |-> c, prov |-> d] /\ a \in SUBSET AllRows /\ d \in SUBSET (SUBSET AllRows)
        BY <1>4 DEF Commits
      <3>2. committed' = [committed EXCEPT !.cats = indexes, !.of = cand] /\ a = cand
        BY <1>1, <1>2, <2>2 DEF Moving
      <3> HIDE DEF a, b, c, d
      <3>3. committed' = [rows |-> a, of |-> cand, cats |-> indexes, prov |-> d]
        BY <3>1, <3>2
      <3> QED
        BY <1>4, <3>1, <3>2, <3>3 DEF Commits
    <2> QED
      BY <1>2, <2>1, <2>2
  <1>6. RefreshTypes'
    BY <1>1, <1>2, <1>3, <1>4, <1>5 DEF RefreshTypes
  <1>7. Walking' /\ Merging' /\ Moving' /\ Agreed' /\ Promoting'
    BY <1>1, <1>2, <1>5 DEF Walking, Merging, Moving, Agreed, Promoting
  <1>8. Tallied'
    <2>1. PICK E \in SUBSET (Payees \ todo) : /\ Cardinality(E) = summary.errors
                                              /\ Cardinality((Payees \ todo) \ E) = summary.ok
                                              /\ \A p \in (Payees \ todo) \ E : Current(p)
      BY <1>1, <1>2 DEF Tallied
    <2>2. ASSUME NEW p \in (Payees \ todo) \ E PROVE Current(p)'
      BY <1>2, <1>3, <2>1, StaysCurrent
    <2>3. phase' # "idle"
      BY <1>2
    <2> QED
      BY <1>2, <2>1, <2>2, <2>3 DEF Tallied
  <1> QED
    BY <1>3, <1>6, <1>7, <1>8 DEF SeedInv

\* The ends of the job.
LEMMA EndsSeed ==
    ASSUME SeedInv, \/ BuildFails \/ Killed \/ (Guard /\ ~ Accepted)
                    \/ \E made \in BOOLEAN : MoveProvenance(made)
    PROVE  SeedInv'
  <1>1. RefreshTypes /\ Agreed /\ Moving
    BY DEF SeedInv
  <1>2. CASE BuildFails \/ Killed \/ (Guard /\ ~ Accepted)
    <2>1. EndJob /\ UNCHANGED <<storeVars, committed, torn>>
      BY <1>2 DEF BuildFails, Killed, Guard
    <2>2. Agreed'
      BY <1>1, <2>1 DEF Agreed
    <2> QED
      BY <1>1, <2>1, <2>2, EndSeed DEF RefreshTypes
  <1>3. ASSUME NEW made \in BOOLEAN, MoveProvenance(made) PROVE SeedInv'
    <2>1. /\ phase = "provenance" /\ EndJob /\ torn' = FALSE /\ UNCHANGED storeVars
          /\ committed' = [committed EXCEPT !.prov = IF made THEN {cand} ELSE {}]
      BY <1>3 DEF MoveProvenance
    <2>2. committed \in Commits /\ cand \in SUBSET AllRows /\ committed.rows = cand /\ committed.of = cand
          /\ cand \subseteq Stored
      BY <1>1, <2>1 DEF RefreshTypes, Moving, Stored
    <2> DEFINE new == IF made THEN {cand} ELSE {}
    <2>3. new \in SUBSET (SUBSET AllRows) /\ new \subseteq {cand}
      BY <2>2
    <2>4. committed' = [committed EXCEPT !.prov = new]
      BY <2>1
    <2> HIDE DEF new
    <2>5. committed' \in Commits /\ committed'.rows = cand /\ committed'.of = cand /\ committed'.prov = new
      BY <2>2, <2>3, <2>4 DEF Commits
    <2>6. Agreed'
      BY <2>3, <2>5 DEF Agreed
    <2> QED
      BY <2>1, <2>2, <2>5, <2>6, EndSeed
  <1> QED
    BY <1>2, <1>3

LEMMA SeedStep == SeedInv /\ RefreshNext => SeedInv'
  <1> SUFFICES ASSUME SeedInv, RefreshNext PROVE SeedInv'
    OBVIOUS
  <1>1. CASE Environment
    BY <1>1, EnvironmentSeed
  <1>2. CASE Start
    BY <1>2, StartSeed
  <1>3. ASSUME NEW p \in Payees, BeginWalk(p) PROVE SeedInv'
    BY <1>3, BeginSeed
  <1>4. CASE FetchPage
    BY <1>4, FetchSeed
  <1>5. CASE EndWalk \/ PageFails
    BY <1>5, WalkEndsSeed
  <1>6. CASE \E listed \in SUBSET Payees : BuildIndexes(listed)
    BY <1>6, BuildSeed
  <1>7. CASE BuildFails \/ Killed
    <2>1. CASE BuildFails
      BY <2>1, EndsSeed
    <2>2. CASE Killed
      BY <2>2, EndsSeed
    <2> QED
      BY <1>7, <2>1, <2>2
  <1>8. CASE Guard
    BY <1>8, BuildSeed, EndsSeed
  <1>9. CASE MoveStore \/ MoveIndexes
    BY <1>9, MoveSeed
  <1>10. CASE \E made \in BOOLEAN : MoveProvenance(made)
    BY <1>10, EndsSeed
  <1> QED
    BY <1>1, <1>2, <1>3, <1>4, <1>5, <1>6, <1>7, <1>8, <1>9, <1>10 DEF RefreshNext

LEMMA SeedSame == SeedInv /\ UNCHANGED allVars => SeedInv'
  <1> SUFFICES ASSUME SeedInv, UNCHANGED allVars PROVE SeedInv'
    OBVIOUS
  <1>1. /\ UNCHANGED <<chain, day, schema, table, age, memo>>
        /\ UNCHANGED <<committed, phase, cand, todo, walk, summary, indexes, newest, torn>>
    BY DEF allVars, storeVars, refreshVars
  <1>2. /\ chain \in [Payees -> Seq(Settlements)] /\ day \in 0..MaxDay
        /\ \A p \in Payees : Len(chain[p]) <= MaxChain /\ Len(chain[p]) \in Nat
    <2>1. chain \in [Payees -> Seq(Settlements)] /\ day \in 0..MaxDay /\ \A p \in Payees : Len(chain[p]) <= MaxChain
      BY DEF SeedInv, ChainTypes
    <2> QED
      BY <2>1, RowsAreStored
  <1>3. \A p \in Payees : /\ Len(chain'[p]) <= MaxChain /\ Len(chain[p]) <= Len(chain'[p])
                          /\ \A n \in 1..Len(chain[p]) : chain'[p][n] = chain[p][n]
    BY <1>1, <1>2
  <1>4. chain' \in [Payees -> Seq(Settlements)] /\ day' \in 0..MaxDay
    BY <1>1, <1>2
  <1> QED
    BY <1>1, <1>3, <1>4, WorldSeed

LEMMA SeedSound == SeedInv => StoreTypeOK /\ RefreshTypeOK /\ PromotionAdds /\ FreshForMost /\ ArtifactsAgree
  <1> SUFFICES ASSUME SeedInv PROVE StoreTypeOK /\ RefreshTypeOK /\ PromotionAdds /\ FreshForMost /\ ArtifactsAgree
    OBVIOUS
  <1>1. ChainTypes /\ RefreshTypes /\ Merging /\ Moving /\ Agreed /\ Tallied /\ Promoting
    BY DEF SeedInv
  <1>2. StoreTypeOK
    BY <1>1 DEF ChainTypes, StoreTypeOK
  <1>3. IsFiniteSet(Payees) /\ Cardinality(Payees) \in Nat
    BY PayeesAssumption, FS_CardinalityType
  <1>4. RefreshTypeOK
    <2>1. summary.ok + summary.errors <= Cardinality(Payees)
      <3>1. CASE phase = "idle"
        BY <1>1, <1>3, <3>1 DEF Tallied, NoSummary
      <3>2. CASE phase # "idle"
        <4>1. PICK E \in SUBSET (Payees \ todo) : /\ Cardinality(E) = summary.errors
                                                  /\ Cardinality((Payees \ todo) \ E) = summary.ok
          BY <1>1, <3>2 DEF Tallied
        <4>2. IsFiniteSet(Payees \ todo) /\ Cardinality(Payees \ todo) <= Cardinality(Payees)
              /\ Cardinality(Payees \ todo) \in Nat
          BY <1>3, FS_Subset, FS_CardinalityType
        <4>3. (Payees \ todo) \cap E = E
          OBVIOUS
        <4>4. Cardinality((Payees \ todo) \ E) = Cardinality(Payees \ todo) - Cardinality(E)
          BY <4>2, <4>3, FS_Difference
        <4>5. summary.ok \in Nat /\ summary.errors \in Nat
          BY <1>1 DEF RefreshTypes, Summaries
        <4> QED
          BY <1>3, <4>1, <4>2, <4>4, <4>5
      <3> QED
        BY <3>1, <3>2
    <2>2. committed.rows \in SUBSET AllRows /\ committed.of \in SUBSET AllRows
      BY <1>1 DEF RefreshTypes, Commits
    <2>3. cand \subseteq {r \in AllRows : r[2] <= Len(chain[r[1]])}
      BY <1>1 DEF RefreshTypes, Stored
    <2> QED
      BY <1>1, <2>1, <2>2, <2>3 DEF RefreshTypeOK, RefreshTypes
  <1>5. PromotionAdds
    BY <1>1 DEF PromotionAdds, Merging, Promoting
  <1>6. FreshForMost
    <2> SUFFICES ASSUME phase = "store"
                 PROVE  LET missed == {p \in Payees :
                                         /\ newest[p] > 0 /\ chain[p][newest[p]].usdc
                                         /\ ~ \E r \in cand : SameKey(<<p, newest[p]>>, r, "payer_key")}
                        IN  4 * Cardinality(missed) <= Cardinality(Payees)
      BY DEF FreshForMost
    <2> DEFINE missed == {p \in Payees :
                            /\ newest[p] > 0 /\ chain[p][newest[p]].usdc
                            /\ ~ \E r \in cand : SameKey(<<p, newest[p]>>, r, "payer_key")}
    <2>1. PICK E \in SUBSET (Payees \ todo) : /\ Cardinality(E) = summary.errors
                                              /\ Cardinality((Payees \ todo) \ E) = summary.ok
                                              /\ \A p \in (Payees \ todo) \ E : Current(p)
      BY <1>1 DEF Tallied
    <2>2. todo = {}
      BY <1>1 DEF Moving
    <2>3. missed \subseteq E
      BY <2>1, <2>2 DEF Current
    <2> HIDE DEF missed
    <2>4. IsFiniteSet(E) /\ Cardinality(E) \in Nat
      BY <1>3, <2>1, FS_Subset, FS_CardinalityType
    <2>5. Cardinality(missed) <= Cardinality(E) /\ Cardinality(missed) \in Nat
      BY <2>3, <2>4, FS_Subset, FS_CardinalityType
    <2>6. Payees \ todo = Payees /\ Payees \cap E = E
      BY <2>1, <2>2
    <2>7. Cardinality(Payees \ E) = Cardinality(Payees) - Cardinality(E)
      BY <1>3, <2>6, FS_Difference
    <2>8. ~ (4 * summary.errors > summary.ok + summary.errors)
      BY <1>1 DEF Promoting, CrawlTooBad
    <2>9. 4 * Cardinality(missed) <= Cardinality(Payees)
      <3> DEFINE m == Cardinality(missed)
                 e == Cardinality(E)
                 n == Cardinality(Payees)
      <3>1. m \in Nat /\ e \in Nat /\ n \in Nat /\ m <= e
        BY <1>3, <2>4, <2>5
      <3>2. summary.errors = e /\ summary.ok = n - e
        BY <2>1, <2>6, <2>7
      <3>3. ~ (4 * e > (n - e) + e)
        BY <2>8, <3>2
      <3> HIDE DEF m, e, n
      <3>4. 4 * m <= n
        BY <3>1, <3>3
      <3> QED
        BY <3>4 DEF m, n
    <2> QED
      BY <2>9 DEF missed
  <1>7. ArtifactsAgree
    BY <1>1 DEF ArtifactsAgree, Agreed
  <1> QED
    BY <1>2, <1>4, <1>5, <1>6, <1>7

LEMMA MergeIsKept == SeedInv /\ RefreshNext => MergeNeverLoses
  <1> SUFFICES ASSUME SeedInv, RefreshNext PROVE committed.rows \subseteq committed'.rows
    BY DEF MergeNeverLoses
  <1>1. RefreshTypes /\ Merging
    BY DEF SeedInv
  <1>2. \/ committed' = committed
        \/ phase = "store" /\ committed' = [committed EXCEPT !.rows = cand]
        \/ committed' = [committed EXCEPT !.cats = indexes, !.of = cand]
        \/ \E made \in BOOLEAN : committed' = [committed EXCEPT !.prov = IF made THEN {cand} ELSE {}]
    BY DEF RefreshNext, Environment, refreshVars, Start, BeginWalk, FetchPage, EndWalk, PageFails, Ingest,
           BuildIndexes, BuildFails, Guard, MoveStore, MoveIndexes, MoveProvenance, Killed
  <1>3. committed \in Commits
    BY <1>1 DEF RefreshTypes
  <1> QED
    BY <1>1, <1>2, <1>3 DEF Merging, Commits

-----------------------------------------------------------------------------
(* The payee directory and the baseline read from it.                       *)

Advertised == Hosts \X Payees
Listings == [host : Hosts, payee : Payees]
Directories == [pairs : SUBSET Advertised, made : Int]
Sidecars == [sha : Directories, at : Int]

DirectoryTypes ==
    /\ listing \in Seq(Listings) /\ Len(listing) <= MaxListing
    /\ changes \in 0..MaxChanges /\ dirDay \in 0..LastDay
    /\ seenOn \in [Advertised -> (-1)..dirDay]
    /\ dir \in Directories /\ dir.made \in (-1)..dirDay
    /\ meta \in Sidecars /\ meta.at \in (-1)..dirDay
    /\ dirPhase \in {"idle", "crawl", "scan", "guard", "move", "moved", "verify"}
    /\ offset \in Nat /\ crawled \in SUBSET Advertised
    /\ dirCand \in Directories
    /\ candMeta \in Sidecars /\ candMeta.at \in (-1)..dirDay
    /\ index \in [Hosts -> SUBSET Payees]
    /\ dirAge \in (-1)..dirDay /\ bootDay \in 0..dirDay

\* What is advertised was seen today, and so was what the crawl under way has collected.
ListedToday == \A i \in DOMAIN listing : seenOn[<<listing[i].host, listing[i].payee>>] = dirDay
CrawledToday == dirPhase \in {"crawl", "scan"} => \A x \in crawled : seenOn[x] = dirDay

\* A directory's pairs were advertised on the day it was made, or later.
SeenSince ==
    /\ \A x \in dir.pairs : seenOn[x] >= dir.made
    /\ \A x \in dirCand.pairs : seenOn[x] >= dirCand.made

\* A sidecar carries the date of the file it pins.
OwnDate ==
    /\ meta.at # -1 => meta.at = meta.sha.made
    /\ candMeta.at # -1 => candMeta.at = candMeta.sha.made

\* The candidate is of today, and what the guard has found of it holds until it is moved.
CandidateToday == dirPhase \in {"guard", "move"} => dirCand.made = dirDay
MoveAllowed ==
    dirPhase = "move" =>
      /\ dirCand.pairs # {}
      /\ 100 * D!Cardinality(D!HostsOf(dirCand)) >= 95 * D!Cardinality(D!HostsOf(dir))

\* The running baseline's age is no less than that of anything it expects.
BootedOnCurrent ==
    dirAge # -1 => \A h \in Hosts : \A q \in index[h] : bootDay - seenOn[<<h, q>>] <= dirAge

DirectoryInv ==
    /\ DirectoryTypes /\ ListedToday /\ CrawledToday /\ SeenSince /\ OwnDate
    /\ CandidateToday /\ MoveAllowed /\ BootedOnCurrent

LEMMA DirectoryWords ==
    /\ \A s, e : e \in D!Range(s) <=> \E i \in DOMAIN s : s[i] = e
    /\ D!Never = -1 /\ D!Undated = -1
    /\ \A x : D!Pair(x) = <<x.host, x.payee>>
  BY DEF D!Range, D!Never, D!Undated, D!Pair

LEMMA DirectoryInit == D!Init => DirectoryInv
  <1> SUFFICES ASSUME D!Init PROVE DirectoryInv
    OBVIOUS
  <1>1. /\ listing = <<>> /\ changes = 0 /\ dirDay = 0
        /\ seenOn = [x \in Advertised |-> -1]
        /\ dir = D!Empty /\ meta = D!NoMeta
        /\ dirPhase = "idle" /\ offset = 0 /\ crawled = {}
        /\ dirCand = D!Empty /\ candMeta = D!NoMeta
        /\ index = [h \in Hosts |-> {}] /\ dirAge = -1 /\ bootDay = 0
    BY DEF D!Init, Advertised, D!Never, D!Undated
  <1>2. D!Empty \in Directories /\ D!Empty.pairs = {} /\ D!Empty.made = -1
    BY DEF D!Empty, D!Never, Directories
  <1>3. D!NoMeta \in Sidecars /\ D!NoMeta.at = -1
    BY <1>2 DEF D!NoMeta, D!Never, Sidecars
  <1>4. MaxListing \in Nat /\ MaxChanges \in Nat /\ LastDay \in Nat
    BY DirectoryAssumption
  <1>5. DirectoryTypes
    <2>1. listing \in Seq(Listings) /\ Len(listing) <= MaxListing
      BY <1>1, <1>4
    <2>2. seenOn \in [Advertised -> (-1)..dirDay]
      BY <1>1
    <2> QED
      BY <1>1, <1>2, <1>3, <1>4, <2>1, <2>2 DEF DirectoryTypes
  <1> QED
    BY <1>1, <1>2, <1>3, <1>5 DEF DirectoryInv, ListedToday, CrawledToday, SeenSince, OwnDate,
         CandidateToday, MoveAllowed, BootedOnCurrent

\* Being advertised again, or a new day, makes nothing seen earlier than it was.
LEMMA SeenLater ==
    ASSUME DirectoryInv, dirDay' \in 0..LastDay, dirDay' >= dirDay,
           seenOn' \in [Advertised -> (-1)..dirDay'], \A x \in Advertised : seenOn'[x] >= seenOn[x],
           listing' \in Seq(Listings), Len(listing') <= MaxListing, changes' \in 0..MaxChanges,
           \A i \in DOMAIN listing' : seenOn'[<<listing'[i].host, listing'[i].payee>>] = dirDay',
           dirPhase # "idle" => dirDay' = dirDay,
           UNCHANGED <<dir, meta, dirPhase, offset, crawled, dirCand, candMeta, index, dirAge, bootDay>>
    PROVE  DirectoryInv'
  <1>1. /\ DirectoryTypes /\ ListedToday /\ CrawledToday /\ SeenSince /\ OwnDate
        /\ CandidateToday /\ MoveAllowed /\ BootedOnCurrent
    BY DEF DirectoryInv
  <1>2. /\ dirDay \in Int /\ dirDay' \in Int /\ dir.made \in Int /\ dirCand.made \in Int /\ dirAge \in Int /\ bootDay \in Int
        /\ \A x \in Advertised : seenOn[x] \in Int /\ seenOn'[x] \in Int /\ seenOn'[x] <= dirDay'
        /\ dir.pairs \subseteq Advertised /\ dirCand.pairs \subseteq Advertised /\ crawled \subseteq Advertised
        /\ \A h \in Hosts : \A q \in index[h] : <<h, q>> \in Advertised
    BY <1>1 DEF DirectoryTypes, Directories, Advertised
  <1>3. DirectoryTypes'
    BY <1>1, <1>2 DEF DirectoryTypes
  <1>4. ListedToday'
    BY DEF ListedToday
  <1>5. CrawledToday'
    <2> SUFFICES ASSUME dirPhase \in {"crawl", "scan"}, NEW x \in crawled PROVE seenOn'[x] = dirDay'
      BY DEF CrawledToday
    <2>1. seenOn[x] = dirDay /\ dirDay' = dirDay
      BY <1>1 DEF CrawledToday
    <2> QED
      BY <1>2, <2>1
  <1>6. SeenSince'
    <2>1. ASSUME NEW x \in dir.pairs PROVE seenOn'[x] >= dir.made
      <3>1. seenOn[x] >= dir.made
        BY <1>1 DEF SeenSince
      <3> QED
        BY <1>2, <3>1
    <2>2. ASSUME NEW x \in dirCand.pairs PROVE seenOn'[x] >= dirCand.made
      <3>1. seenOn[x] >= dirCand.made
        BY <1>1 DEF SeenSince
      <3> QED
        BY <1>2, <3>1
    <2> QED
      BY <2>1, <2>2 DEF SeenSince
  <1>7. OwnDate' /\ CandidateToday' /\ MoveAllowed'
    BY <1>1 DEF OwnDate, CandidateToday, MoveAllowed, D!HostsOf
  <1>8. BootedOnCurrent'
    <2> SUFFICES ASSUME dirAge # -1, NEW h \in Hosts, NEW q \in index[h]
                 PROVE  bootDay - seenOn'[<<h, q>>] <= dirAge
      BY DEF BootedOnCurrent
    <2>1. bootDay - seenOn[<<h, q>>] <= dirAge
      BY <1>1 DEF BootedOnCurrent
    <2> QED
      BY <1>2, <2>1
  <1> QED
    BY <1>3, <1>4, <1>5, <1>6, <1>7, <1>8 DEF DirectoryInv

LEMMA RelistDirectory ==
    ASSUME DirectoryInv, NEW seq \in Seq(Listings), Len(seq) <= MaxListing, changes < MaxChanges,
           D!Relist(seq)
    PROVE  DirectoryInv'
  <1>1. DirectoryTypes
    BY DEF DirectoryInv
  <1>2. /\ listing' = seq /\ changes' = changes + 1
        /\ seenOn' = [x \in Advertised |-> IF x \in {D!Pair(r) : r \in D!Range(seq)} THEN dirDay ELSE seenOn[x]]
        /\ UNCHANGED <<dirDay, dir, meta, dirPhase, offset, crawled, dirCand, candMeta, index, dirAge, bootDay>>
    BY DEF D!Relist, Advertised, D!job, D!source
  <1>3. dirDay \in 0..LastDay /\ \A x \in Advertised : seenOn[x] \in (-1)..dirDay
    BY <1>1 DEF DirectoryTypes
  <1>4. seenOn' \in [Advertised -> (-1)..dirDay] /\ \A x \in Advertised : seenOn'[x] >= seenOn[x]
    BY <1>2, <1>3
  <1>5. ASSUME NEW i \in DOMAIN seq PROVE seenOn'[<<seq[i].host, seq[i].payee>>] = dirDay
    <2>1. seq[i] \in Listings
      OBVIOUS
    <2>2. <<seq[i].host, seq[i].payee>> \in Advertised
      BY <2>1 DEF Listings, Advertised
    <2>3. seq[i] \in D!Range(seq) /\ D!Pair(seq[i]) = <<seq[i].host, seq[i].payee>>
      BY DirectoryWords
    <2> QED
      BY <1>2, <2>2, <2>3
  <1>6. changes' \in 0..MaxChanges
    <2>1. MaxChanges \in Nat
      BY DirectoryAssumption
    <2> QED
      BY <1>1, <1>2, <2>1 DEF DirectoryTypes
  <1>7. dirDay' >= dirDay
    BY <1>2, <1>3
  <1>8. \A i \in DOMAIN listing' : seenOn'[<<listing'[i].host, listing'[i].payee>>] = dirDay'
    BY <1>2, <1>5
  <1> QED
    BY <1>2, <1>3, <1>4, <1>6, <1>7, <1>8, SeenLater

LEMMA AdvertiseDirectory ==
    ASSUME DirectoryInv, NEW h \in Hosts, NEW p \in Payees, D!Advertise(h, p)
    PROVE  DirectoryInv'
  <1> DEFINE r == [host |-> h, payee |-> p]
  <1>1. changes < MaxChanges /\ Len(listing) < MaxListing /\ D!Relist(Append(listing, r))
    BY DEF D!Advertise
  <1>2. r \in Listings
    BY DEF Listings
  <1>3. listing \in Seq(Listings) /\ MaxListing \in Nat
    BY DirectoryAssumption DEF DirectoryInv, DirectoryTypes
  <1> HIDE DEF r
  <1>4. Append(listing, r) \in Seq(Listings) /\ Len(Append(listing, r)) <= MaxListing
    BY <1>1, <1>2, <1>3
  <1> QED
    BY <1>1, <1>4, RelistDirectory

LEMMA DelistDirectory ==
    ASSUME DirectoryInv, NEW i \in DOMAIN listing, D!Delist(i)
    PROVE  DirectoryInv'
  <1>1. changes < MaxChanges /\ D!Relist(D!RemoveAt(listing, i))
    BY DEF D!Delist
  <1>2. listing \in Seq(Listings) /\ Len(listing) <= MaxListing /\ MaxListing \in Nat
    BY DirectoryAssumption DEF DirectoryInv, DirectoryTypes
  <1>3. D!RemoveAt(listing, i) \in Seq(Listings) /\ Len(D!RemoveAt(listing, i)) <= MaxListing
    <2> DEFINE a == SubSeq(listing, 1, i - 1)
               b == SubSeq(listing, i + 1, Len(listing))
    <2>1. D!RemoveAt(listing, i) = a \o b
      BY DEF D!RemoveAt
    <2>2. i \in 1..Len(listing) /\ Len(listing) \in Nat
      BY <1>2
    <2> HIDE DEF Listings
    <2>3. a \in Seq(Listings) /\ Len(a) = i - 1
      BY <1>2, <2>2
    <2>4. b \in Seq(Listings) /\ Len(b) = Len(listing) - i
      BY <1>2, <2>2
    <2> HIDE DEF a, b
    <2>5. a \o b \in Seq(Listings) /\ Len(a \o b) = Len(a) + Len(b)
      BY <2>3, <2>4
    <2> QED
      BY <1>2, <2>1, <2>2, <2>3, <2>4, <2>5
  <1> QED
    BY <1>1, <1>3, RelistDirectory

LEMMA NextDayDirectory == ASSUME DirectoryInv, D!NextDay PROVE DirectoryInv'
  <1>1. DirectoryTypes /\ ListedToday
    BY DEF DirectoryInv
  <1>2. /\ dirDay < LastDay /\ dirPhase = "idle" /\ dirDay' = dirDay + 1
        /\ seenOn' = [x \in Advertised |-> IF x \in D!Listed THEN dirDay' ELSE seenOn[x]]
        /\ UNCHANGED <<listing, changes, dir, meta, dirPhase, offset, crawled, dirCand, candMeta, index, dirAge, bootDay>>
    BY DEF D!NextDay, Advertised, D!job, D!source
  <1>3. /\ dirDay \in 0..LastDay /\ LastDay \in Nat /\ \A x \in Advertised : seenOn[x] \in (-1)..dirDay
        /\ listing \in Seq(Listings) /\ Len(listing) <= MaxListing /\ changes \in 0..MaxChanges
    BY <1>1, DirectoryAssumption DEF DirectoryTypes
  <1>4. dirDay' \in 0..LastDay /\ dirDay' >= dirDay
    BY <1>2, <1>3
  <1>5. seenOn' \in [Advertised -> (-1)..dirDay'] /\ \A x \in Advertised : seenOn'[x] >= seenOn[x]
    <2>1. \A x \in Advertised : seenOn'[x] = IF x \in D!Listed THEN dirDay' ELSE seenOn[x]
      BY <1>2
    <2>2. \A x \in Advertised : seenOn'[x] \in (-1)..dirDay' /\ seenOn'[x] >= seenOn[x]
      BY <1>2, <1>3, <2>1
    <2>3. seenOn' = [x \in Advertised |-> seenOn'[x]]
      BY <1>2
    <2> QED
      BY <2>2, <2>3
  <1>6. ASSUME NEW i \in DOMAIN listing PROVE seenOn'[<<listing[i].host, listing[i].payee>>] = dirDay'
    <2>1. listing[i] \in Listings
      BY <1>3
    <2>2. <<listing[i].host, listing[i].payee>> \in Advertised
      BY <2>1 DEF Listings, Advertised
    <2>3. listing[i] \in D!Range(listing) /\ D!Pair(listing[i]) = <<listing[i].host, listing[i].payee>>
      BY DirectoryWords
    <2>4. <<listing[i].host, listing[i].payee>> \in D!Listed
      BY <2>3 DEF D!Listed
    <2> QED
      BY <1>2, <2>2, <2>4
  <1>7. \A i \in DOMAIN listing' : seenOn'[<<listing'[i].host, listing'[i].payee>>] = dirDay'
    BY <1>2, <1>6
  <1> QED
    BY <1>2, <1>3, <1>4, <1>5, <1>7, SeenLater

\* A step of the job leaves what is advertised and what has booted.
LEMMA JobKeeps ==
    ASSUME DirectoryInv, UNCHANGED <<listing, dirDay, seenOn, index, dirAge, bootDay>>
    PROVE  ListedToday' /\ BootedOnCurrent'
  BY DEF DirectoryInv, ListedToday, BootedOnCurrent

LEMMA StartDirectory == ASSUME DirectoryInv, D!Start PROVE DirectoryInv'
  <1>1. DirectoryTypes /\ SeenSince /\ OwnDate
    BY DEF DirectoryInv
  <1>2. /\ dirPhase' = "crawl" /\ offset' = 0 /\ crawled' = {} /\ dirCand' = D!Empty /\ candMeta' = D!NoMeta
        /\ UNCHANGED <<listing, changes, dirDay, seenOn, dir, meta, index, dirAge, bootDay>>
    BY DEF D!Start, D!source
  <1>3. D!Empty \in Directories /\ D!Empty.pairs = {} /\ D!Empty.made = -1
    BY DEF D!Empty, D!Never, Directories
  <1>4. D!NoMeta \in Sidecars /\ D!NoMeta.at = -1
    BY <1>3 DEF D!NoMeta, D!Never, Sidecars
  <1>5. -1 \in (-1)..dirDay
    BY <1>1 DEF DirectoryTypes
  <1>6. DirectoryTypes'
    BY <1>1, <1>2, <1>3, <1>4, <1>5 DEF DirectoryTypes
  <1>7. CrawledToday' /\ CandidateToday' /\ MoveAllowed'
    BY <1>2 DEF CrawledToday, CandidateToday, MoveAllowed
  <1>8. SeenSince' /\ OwnDate'
    BY <1>1, <1>2, <1>3, <1>4 DEF SeenSince, OwnDate
  <1>9. ListedToday' /\ BootedOnCurrent'
    BY <1>2, JobKeeps
  <1> QED
    BY <1>6, <1>7, <1>8, <1>9 DEF DirectoryInv

LEMMA CrawlDirectory == ASSUME DirectoryInv, NEW fails \in BOOLEAN, D!CrawlPage(fails) PROVE DirectoryInv'
  <1> DEFINE top == D!Min({Len(listing), offset + PageLimit})
             page == SubSeq(listing, offset + 1, top)
             got == IF fails THEN <<>> ELSE page
  <1>1. DirectoryTypes /\ SeenSince /\ OwnDate /\ ListedToday /\ CrawledToday
    BY DEF DirectoryInv
  <1>2. /\ dirPhase = "crawl" /\ crawled' = crawled \cup {D!Pair(r) : r \in D!Range(got)}
        /\ offset' = offset + PageLimit /\ dirPhase' \in {"crawl", "scan"}
        /\ UNCHANGED <<listing, changes, dirDay, seenOn, dir, meta, dirCand, candMeta, index, dirAge, bootDay>>
    BY DEF D!CrawlPage, D!source
  <1>3. PageLimit \in Nat /\ offset \in Nat /\ listing \in Seq(Listings) /\ Len(listing) \in Nat
    BY <1>1, DirectoryAssumption DEF DirectoryTypes
  <1>4. top \in Int /\ top <= Len(listing)
    <2>1. D!Min({Len(listing), offset + PageLimit}) =
            CHOOSE x \in {Len(listing), offset + PageLimit} : \A y \in {Len(listing), offset + PageLimit} : x =< y
      BY DEF D!Min
    <2>2. \E x \in {Len(listing), offset + PageLimit} : \A y \in {Len(listing), offset + PageLimit} : x =< y
      BY <1>3
    <2>3. top \in {Len(listing), offset + PageLimit} /\ \A y \in {Len(listing), offset + PageLimit} : top =< y
      BY <2>1, <2>2
    <2> QED
      BY <1>3, <2>3
  <1> HIDE DEF top
  \* A page is of what is advertised now.
  <1>10. ASSUME NEW k \in DOMAIN got PROVE \E i \in DOMAIN listing : got[k] = listing[i]
    <2>1. CASE fails
      BY <2>1
    <2>2. CASE ~ fails
      <3>1. got = page
        BY <2>2
      <3>2. DOMAIN page = 1..(top - offset) /\ \A n \in 1..(top - offset) : page[n] = listing[offset + n]
        <4> HIDE DEF Listings
        <4>1. page = [n \in 1..(top - (offset + 1) + 1) |-> listing[n + (offset + 1) - 1]]
          BY <1>3, <1>4
        <4>2. top - (offset + 1) + 1 = top - offset
          BY <1>3, <1>4
        <4>3. \A n \in 1..(top - offset) : n + (offset + 1) - 1 = offset + n
          BY <1>3, <1>4
        <4> HIDE DEF page
        <4> QED
          BY <4>1, <4>2, <4>3
      <3>3. k \in 1..(top - offset) /\ got[k] = listing[offset + k]
        BY <3>1, <3>2
      <3>4. offset + k \in 1..Len(listing)
        BY <1>3, <1>4, <3>3
      <3>5. DOMAIN listing = 1..Len(listing)
        BY <1>3
      <3> QED
        BY <3>3, <3>4, <3>5
    <2> QED
      BY <2>1, <2>2
  <1> HIDE DEF got
  <1>5. \A e \in D!Range(got) : \E i \in DOMAIN listing : e = listing[i]
    BY <1>10, DirectoryWords
  <1>6. \A x \in crawled' : x \in Advertised /\ seenOn[x] = dirDay
    <2> SUFFICES ASSUME NEW x \in crawled' PROVE x \in Advertised /\ seenOn[x] = dirDay
      OBVIOUS
    <2>1. CASE x \in crawled
      BY <1>1, <1>2, <2>1 DEF DirectoryTypes, CrawledToday
    <2>2. CASE x \notin crawled
      <3>1. PICK r \in D!Range(got) : x = D!Pair(r)
        BY <1>2, <2>2
      <3>2. PICK i \in DOMAIN listing : r = listing[i]
        BY <1>5
      <3>3. x = <<listing[i].host, listing[i].payee>>
        BY <3>1, <3>2, DirectoryWords
      <3>4. listing[i] \in Listings
        BY <1>3
      <3>5. x \in Advertised
        BY <3>3, <3>4 DEF Listings, Advertised
      <3> QED
        BY <1>1, <3>3, <3>5 DEF ListedToday
    <2> QED
      BY <2>1, <2>2
  <1>7. DirectoryTypes'
    <2>1. offset' \in Nat
      BY <1>2, <1>3
    <2>2. crawled' \in SUBSET Advertised
      BY <1>6
    <2> QED
      BY <1>1, <1>2, <2>1, <2>2 DEF DirectoryTypes
  <1>8. CrawledToday' /\ CandidateToday' /\ MoveAllowed' /\ SeenSince' /\ OwnDate'
    BY <1>1, <1>2, <1>6 DEF CrawledToday, CandidateToday, MoveAllowed, SeenSince, OwnDate
  <1>9. ListedToday' /\ BootedOnCurrent'
    BY <1>2, JobKeeps
  <1> QED
    BY <1>7, <1>8, <1>9 DEF DirectoryInv

LEMMA ScanDirectory ==
    ASSUME DirectoryInv, NEW known \in SUBSET Payees, NEW dated \in BOOLEAN, D!Scan(known, dated)
    PROVE  DirectoryInv'
  <1> DEFINE new == [pairs |-> {x \in crawled : x[2] \in known}, made |-> dirDay]
  <1>1. DirectoryTypes /\ SeenSince /\ OwnDate /\ CrawledToday
    BY DEF DirectoryInv
  <1>2. /\ dirPhase = "scan" /\ dirCand' = new /\ dirPhase' = "guard"
        /\ candMeta' = IF dated THEN [sha |-> new, at |-> dirDay] ELSE D!NoMeta
        /\ UNCHANGED <<listing, changes, dirDay, seenOn, dir, meta, offset, crawled, index, dirAge, bootDay>>
    BY DEF D!Scan, D!source
  <1>3. new \in Directories /\ new.made = dirDay /\ new.pairs \subseteq crawled /\ dirDay \in Nat
    BY <1>1 DEF DirectoryTypes, Directories
  <1> HIDE DEF new
  <1>4. D!Empty \in Directories
    BY DEF D!Empty, D!Never, Directories
  <1>5. D!NoMeta \in Sidecars /\ D!NoMeta.at = -1
    BY <1>4 DEF D!NoMeta, D!Never, Sidecars
  <1>6. candMeta' \in Sidecars /\ candMeta'.at \in (-1)..dirDay /\ (candMeta'.at # -1 => candMeta'.at = candMeta'.sha.made)
    <2>1. CASE dated
      <3>1. candMeta' = [sha |-> new, at |-> dirDay]
        BY <1>2, <2>1
      <3> QED
        BY <1>3, <3>1 DEF Sidecars
    <2>2. CASE ~ dated
      BY <1>2, <1>3, <1>5, <2>2
    <2> QED
      BY <2>1, <2>2
  <1>7. DirectoryTypes'
    BY <1>1, <1>2, <1>3, <1>6 DEF DirectoryTypes
  <1>8. SeenSince'
    <2>1. \A x \in dirCand'.pairs : seenOn[x] = dirDay
      BY <1>1, <1>2, <1>3 DEF CrawledToday
    <2>2. dirDay >= dirDay
      BY <1>3
    <2> QED
      BY <1>1, <1>2, <1>3, <2>1, <2>2 DEF SeenSince
  <1>9. CrawledToday' /\ CandidateToday' /\ MoveAllowed' /\ OwnDate'
    BY <1>1, <1>2, <1>3, <1>6 DEF CrawledToday, CandidateToday, MoveAllowed, OwnDate
  <1>10. ListedToday' /\ BootedOnCurrent'
    BY <1>2, JobKeeps
  <1> QED
    BY <1>7, <1>8, <1>9, <1>10 DEF DirectoryInv

\* The guard, and the ends of a job.
LEMMA PhasesOfDirectory ==
    ASSUME DirectoryInv, D!Guard \/ D!Verify \/ D!Killed
    PROVE  DirectoryInv'
  <1>1. DirectoryTypes /\ SeenSince /\ OwnDate /\ CandidateToday
    BY DEF DirectoryInv
  <1>2. /\ dirPhase' = "idle" \/ (D!Guard /\ dirPhase' = "move")
        /\ UNCHANGED <<listing, changes, dirDay, seenOn, dir, meta, offset, crawled, dirCand, candMeta, index, dirAge, bootDay>>
    BY DEF D!Guard, D!Verify, D!Killed, D!source
  <1>3. DirectoryTypes' /\ CrawledToday' /\ SeenSince' /\ OwnDate'
    BY <1>1, <1>2 DEF DirectoryTypes, CrawledToday, SeenSince, OwnDate
  <1>4. CandidateToday' /\ MoveAllowed'
    <2>1. CASE dirPhase' = "idle"
      BY <2>1 DEF CandidateToday, MoveAllowed
    <2>2. CASE dirPhase' # "idle"
      <3>1. D!Guard /\ dirPhase' = "move"
        BY <1>2, <2>2
      <3>2. dirPhase = "guard"
        BY <3>1 DEF D!Guard
      <3>3. D!AssessDirectoryRefresh(dir, D!SidecarAge(dir, meta), dirCand, D!SidecarAge(dirCand, candMeta))
        BY <3>1 DEF D!Guard
      <3>4. dirCand.pairs # {} /\ 100 * D!Cardinality(D!HostsOf(dirCand)) >= 95 * D!Cardinality(D!HostsOf(dir))
        BY <3>3 DEF D!AssessDirectoryRefresh
      <3>5. MoveAllowed'
        BY <1>2, <3>4 DEF MoveAllowed, D!HostsOf
      <3> QED
        BY <1>1, <1>2, <3>2, <3>5 DEF CandidateToday
    <2> QED
      BY <2>1, <2>2
  <1>5. ListedToday' /\ BootedOnCurrent'
    BY <1>2, JobKeeps
  <1> QED
    BY <1>3, <1>4, <1>5 DEF DirectoryInv

LEMMA MoveOfDirectory == ASSUME DirectoryInv, D!MoveDirectory \/ D!MoveMeta PROVE DirectoryInv'
  <1>1. DirectoryTypes /\ SeenSince /\ OwnDate /\ CandidateToday
    BY DEF DirectoryInv
  <1>2. /\ UNCHANGED <<listing, changes, dirDay, seenOn, offset, crawled, dirCand, candMeta, index, dirAge, bootDay>>
        /\ dirPhase' \in {"moved", "verify"}
        /\ meta' \in {meta, candMeta}
        /\ dir' = dir \/ (dirPhase = "move" /\ dir' = dirCand)
    BY DEF D!MoveDirectory, D!MoveMeta, D!source
  <1>3. dirDay \in 0..LastDay /\ dirDay \in (-1)..dirDay
    BY <1>1 DEF DirectoryTypes
  <1>4. dir' \in Directories /\ dir'.made \in (-1)..dirDay
    <2>1. CASE dir' = dir
      BY <1>1, <2>1 DEF DirectoryTypes
    <2>2. CASE dirPhase = "move" /\ dir' = dirCand
      BY <1>1, <1>3, <2>2 DEF DirectoryTypes, CandidateToday
    <2> QED
      BY <1>2, <2>1, <2>2
  <1>5. DirectoryTypes'
    BY <1>1, <1>2, <1>4 DEF DirectoryTypes
  <1>6. SeenSince' /\ OwnDate'
    BY <1>1, <1>2 DEF SeenSince, OwnDate
  <1>7. CrawledToday' /\ CandidateToday' /\ MoveAllowed'
    BY <1>2 DEF CrawledToday, CandidateToday, MoveAllowed
  <1>8. ListedToday' /\ BootedOnCurrent'
    BY <1>2, JobKeeps
  <1> QED
    BY <1>5, <1>6, <1>7, <1>8 DEF DirectoryInv

\* A dated file's age is counted from its own date.
LEMMA AgeIsOwn ==
    ASSUME DirectoryInv, D!SidecarAge(dir, meta) # -1
    PROVE  D!SidecarAge(dir, meta) = dirDay - dir.made
  <1>1. meta.at # -1 /\ meta.sha = dir /\ D!SidecarAge(dir, meta) = dirDay - meta.at
    BY DEF D!SidecarAge, D!Never, D!Undated
  <1> QED
    BY <1>1 DEF DirectoryInv, OwnDate

LEMMA BootDirectory == ASSUME DirectoryInv, D!Boot PROVE DirectoryInv'
  <1>1. /\ DirectoryTypes /\ ListedToday /\ CrawledToday /\ SeenSince /\ OwnDate
        /\ CandidateToday /\ MoveAllowed
    BY DEF DirectoryInv
  <1>2. /\ index' = D!BuildPaytoIndex(dir) /\ dirAge' = D!SidecarAge(dir, meta) /\ bootDay' = dirDay
        /\ UNCHANGED <<listing, changes, dirDay, seenOn, dir, meta, dirPhase, offset, crawled, dirCand, candMeta>>
    BY DEF D!Boot, D!job
  <1>3. index' = [h \in Hosts |-> {x[2] : x \in {y \in dir.pairs : y[1] = h}}]
    BY <1>2 DEF D!BuildPaytoIndex
  <1>4. dirDay \in 0..LastDay /\ dir.made \in (-1)..dirDay /\ meta.at \in (-1)..dirDay /\ dir.pairs \subseteq Advertised
        /\ \A x \in Advertised : seenOn[x] \in Int
    BY <1>1 DEF DirectoryTypes, Directories
  <1>5. ASSUME NEW h \in Hosts, NEW q \in index'[h] PROVE <<h, q>> \in dir.pairs /\ q \in Payees
    <2>1. PICK x \in dir.pairs : x[1] = h /\ q = x[2]
      BY <1>3, <1>5
    <2>2. x = <<h, q>> /\ q \in Payees
      BY <1>4, <2>1 DEF Advertised
    <2> QED
      BY <2>1, <2>2
  <1>6. dirAge' \in (-1)..dirDay
    <2>1. D!SidecarAge(dir, meta) # -1 => D!SidecarAge(dir, meta) = dirDay - meta.at /\ meta.at # -1
      BY DEF D!SidecarAge, D!Never, D!Undated
    <2>2. dirDay - meta.at \in 0..dirDay \/ meta.at = -1
      BY <1>4
    <2> QED
      BY <1>2, <1>4, <2>1, <2>2
  <1>7. DirectoryTypes'
    <2>1. index' \in [Hosts -> SUBSET Payees]
      BY <1>3, <1>5
    <2>2. bootDay' \in 0..dirDay
      BY <1>2, <1>4
    <2> QED
      BY <1>1, <1>2, <1>6, <2>1, <2>2 DEF DirectoryTypes
  <1>8. BootedOnCurrent'
    <2> SUFFICES ASSUME dirAge' # -1, NEW h \in Hosts, NEW q \in index'[h]
                 PROVE  bootDay' - seenOn'[<<h, q>>] <= dirAge'
      BY DEF BootedOnCurrent
    <2>1. dirAge' = dirDay - dir.made
      BY <1>2, AgeIsOwn
    <2>2. <<h, q>> \in dir.pairs
      BY <1>5
    <2>3. seenOn[<<h, q>>] >= dir.made /\ <<h, q>> \in Advertised
      BY <1>1, <1>4, <2>2 DEF SeenSince
    <2> QED
      BY <1>2, <1>4, <2>1, <2>3
  <1>9. ListedToday' /\ CrawledToday' /\ SeenSince' /\ OwnDate' /\ CandidateToday' /\ MoveAllowed'
    BY <1>1, <1>2 DEF ListedToday, CrawledToday, SeenSince, OwnDate, CandidateToday, MoveAllowed, D!HostsOf
  <1> QED
    BY <1>7, <1>8, <1>9 DEF DirectoryInv

LEMMA DirectoryStep == DirectoryInv /\ D!Next => DirectoryInv'
  <1> SUFFICES ASSUME DirectoryInv, D!Next PROVE DirectoryInv'
    OBVIOUS
  <1>1. ASSUME NEW h \in Hosts, NEW p \in Payees, D!Advertise(h, p) PROVE DirectoryInv'
    BY <1>1, AdvertiseDirectory
  <1>2. ASSUME NEW i \in DOMAIN listing, D!Delist(i) PROVE DirectoryInv'
    BY <1>2, DelistDirectory
  <1>3. CASE D!NextDay
    BY <1>3, NextDayDirectory
  <1>4. CASE D!Start
    BY <1>4, StartDirectory
  <1>5. ASSUME NEW f \in BOOLEAN, D!CrawlPage(f) PROVE DirectoryInv'
    BY <1>5, CrawlDirectory
  <1>6. ASSUME NEW known \in SUBSET Payees, NEW dated \in BOOLEAN, D!Scan(known, dated) PROVE DirectoryInv'
    BY <1>6, ScanDirectory
  <1>7. CASE D!Guard \/ D!Verify \/ D!Killed
    BY <1>7, PhasesOfDirectory
  <1>8. CASE D!MoveDirectory \/ D!MoveMeta
    BY <1>8, MoveOfDirectory
  <1>9. CASE D!Boot
    BY <1>9, BootDirectory
  <1> QED
    BY <1>1, <1>2, <1>3, <1>4, <1>5, <1>6, <1>7, <1>8, <1>9 DEF D!Next

LEMMA DirectorySame == DirectoryInv /\ UNCHANGED directoryVars => DirectoryInv'
  <1> SUFFICES ASSUME DirectoryInv, UNCHANGED directoryVars PROVE DirectoryInv'
    OBVIOUS
  <1>1. UNCHANGED <<listing, changes, dirDay, seenOn, dir, meta, dirPhase, offset, crawled,
                    dirCand, candMeta, index, dirAge, bootDay>>
    BY DEF directoryVars
  <1>2. /\ DirectoryTypes /\ CrawledToday /\ SeenSince /\ OwnDate /\ CandidateToday /\ MoveAllowed
    BY DEF DirectoryInv
  <1>3. ListedToday' /\ BootedOnCurrent'
    BY <1>1, JobKeeps
  <1>4. DirectoryTypes'
    BY <1>1, <1>2 DEF DirectoryTypes
  <1>5. CrawledToday' /\ SeenSince' /\ OwnDate' /\ CandidateToday' /\ MoveAllowed'
    BY <1>1, <1>2 DEF CrawledToday, SeenSince, OwnDate, CandidateToday, MoveAllowed, D!HostsOf
  <1> QED
    BY <1>3, <1>4, <1>5 DEF DirectoryInv

LEMMA DirectorySound == DirectoryInv => D!TypeOK /\ D!DatedIsTrue /\ D!GatesOnCurrentListings
  <1> SUFFICES ASSUME DirectoryInv PROVE D!TypeOK /\ D!DatedIsTrue /\ D!GatesOnCurrentListings
    OBVIOUS
  <1>1. DirectoryTypes /\ BootedOnCurrent
    BY DEF DirectoryInv
  <1>2. D!TypeOK
    BY <1>1 DEF DirectoryTypes, D!TypeOK, D!Never, D!Undated, Directories, Advertised
  <1>3. D!DatedIsTrue
    BY AgeIsOwn DEF D!DatedIsTrue, D!Undated
  <1>4. D!GatesOnCurrentListings
    <2> SUFFICES ASSUME NEW h \in Hosts, NEW p \in Payees, D!Gates(h, p), NEW q \in index[h]
                 PROVE  bootDay - seenOn[<<h, q>>] <= MaxAge
      BY DEF D!GatesOnCurrentListings
    <2>1. dirAge # -1 /\ ~ (dirAge > MaxAge)
      BY DEF D!Gates, D!Stale, D!Undated
    <2>2. bootDay - seenOn[<<h, q>>] <= dirAge
      BY <1>1, <2>1 DEF BootedOnCurrent
    <2>3. /\ dirAge \in Int /\ bootDay \in Int /\ seenOn[<<h, q>>] \in Int /\ MaxAge \in Int
      BY <1>1, DirectoryAssumption DEF DirectoryTypes, Advertised
    <2> QED
      BY <2>1, <2>2, <2>3
  <1> QED
    BY <1>2, <1>3, <1>4

LEMMA CoverageIsKept == DirectoryInv /\ D!Next => D!CoverageKept
  <1> SUFFICES ASSUME DirectoryInv, D!Next, dir' # dir
               PROVE  /\ 100 * D!Cardinality(D!HostsOf(dir')) >= 95 * D!Cardinality(D!HostsOf(dir))
                      /\ dir'.made >= dir.made
                      /\ dir'.pairs # {}
    BY DEF D!CoverageKept
  <1>1. dirPhase = "move" /\ dir' = dirCand
    BY DEF D!Next, D!Advertise, D!Delist, D!Relist, D!NextDay, D!Start, D!CrawlPage, D!Scan, D!Guard,
           D!MoveDirectory, D!MoveMeta, D!Verify, D!Killed, D!Boot
  <1>2. /\ dirCand.pairs # {} /\ dirCand.made = dirDay
        /\ 100 * D!Cardinality(D!HostsOf(dirCand)) >= 95 * D!Cardinality(D!HostsOf(dir))
    BY <1>1 DEF DirectoryInv, CandidateToday, MoveAllowed
  <1>3. dirDay \in Int /\ dir.made \in (-1)..dirDay
    BY DEF DirectoryInv, DirectoryTypes
  <1> QED
    BY <1>1, <1>2, <1>3

-----------------------------------------------------------------------------
(* The probe log.                                                           *)

Events == [host : ProbeHosts, outcome : P!Outcomes, ts : Nat]

\* Events that a timestamp tells apart.
Dated(evs) == evs \in SUBSET Events /\ IsFiniteSet(evs) /\ \A d, e \in evs : d.ts = e.ts => d = e

LEMMA ProbeWords ==
    /\ \A s, e : e \in P!Range(s) <=> \E i \in DOMAIN s : s[i] = e
    /\ \A s : P!IsInjective(s) <=> \A i, j \in DOMAIN s : s[i] = s[j] => i = j
    /\ \A I, k : P!Nth(I, k) = Nth(I, k)
    /\ \A S : P!Cardinality(S) = Cardinality(S)
  <1>1. \A s, e : e \in P!Range(s) <=> \E i \in DOMAIN s : s[i] = e
    BY DEF P!Range
  <1>2. \A s : P!IsInjective(s) <=> \A i, j \in DOMAIN s : s[i] = s[j] => i = j
    BY DEF P!IsInjective
  <1>3. \A I, k : P!Nth(I, k) = Nth(I, k)
    BY DEF P!Nth, Nth, P!Cardinality, Cardinality
  <1>4. \A S : P!Cardinality(S) = Cardinality(S)
    BY DEF P!Cardinality, Cardinality
  <1> QED
    BY <1>1, <1>2, <1>3, <1>4

LEMMA ProbeRange == \A s, e : e \in P!Range(s) <=> \E i \in DOMAIN s : s[i] = e
  BY ProbeWords

LEMMA ProbeNth == \A I, k : P!Nth(I, k) = Nth(I, k)
  BY ProbeWords

LEMMA ProbeCount == \A S : P!Cardinality(S) = Cardinality(S)
  BY ProbeWords

\* A list of events holds finitely many.
LEMMA LoggedIsFinite ==
    ASSUME NEW s \in Seq(Events)
    PROVE  P!Range(s) \in SUBSET Events /\ IsFiniteSet(P!Range(s))
  <1>1. P!Range(s) \in SUBSET Events
    <2> HIDE DEF Events
    <2> QED
      BY ProbeRange
  <1>2. P!Range(s) = {s[i] : i \in DOMAIN s}
    BY ProbeRange
  <1>3. IsFiniteSet(DOMAIN s)
    BY PositionsAreFinite
  <1>4. IsFiniteSet({s[i] : i \in DOMAIN s})
    BY <1>3, ImageIsFinite
  <1> QED
    BY <1>1, <1>2, <1>4

\* load() lists every event once.
LEMMA InOrderLists ==
    ASSUME NEW evs, Dated(evs)
    PROVE  /\ P!InOrder(evs) \in Seq(Events)
           /\ P!Range(P!InOrder(evs)) = evs
           /\ P!IsInjective(P!InOrder(evs))
  <1> DEFINE T == {e.ts : e \in evs}
             n == Cardinality(T)
             At(k) == CHOOSE e \in evs : e.ts = Nth(T, k)
             s == [k \in 1..n |-> At(k)]
  <1>1. evs \in SUBSET Events /\ IsFiniteSet(evs) /\ \A d, e \in evs : d.ts = e.ts => d = e
    BY DEF Dated
  <1>2. IsFiniteSet(T) /\ T \in SUBSET Nat
    <2> DEFINE f == [e \in evs |-> e.ts]
    <2>1. T = {f[e] : e \in evs}
      OBVIOUS
    <2>2. T \in SUBSET Nat
      BY <1>1 DEF Events
    <2> HIDE DEF T, f
    <2>3. IsFiniteSet({f[e] : e \in evs})
      BY <1>1, ImageIsFinite
    <2> QED
      BY <2>1, <2>2, <2>3
  <1>3. P!InOrder(evs) = s
    <2>1. P!Cardinality(T) = n
      BY ProbeCount
    <2>2. P!InOrder(evs) = [k \in 1..P!Cardinality(T) |-> CHOOSE e \in evs : e.ts = P!Nth(T, k)]
      BY DEF P!InOrder
    <2>3. \A k : P!Nth(T, k) = Nth(T, k)
      BY ProbeNth
    <2> HIDE DEF T, n
    <2> QED
      BY <2>1, <2>2, <2>3
  <1>4. n \in Nat
    BY <1>2, FS_CardinalityType
  <1>5. ASSUME NEW k \in 1..n PROVE At(k) \in evs /\ At(k).ts = Nth(T, k)
    <2>1. Nth(T, k) \in T
      <3> HIDE DEF T
      <3> QED
        BY <1>2, NthNumbers
    <2>2. \E e \in evs : e.ts = Nth(T, k)
      BY <2>1
    <2> QED
      BY <2>2
  <1>6. \A k \in 1..n, m \in 1..n : Nth(T, k) = Nth(T, m) => k = m
    <2> HIDE DEF T
    <2>1. \A k \in 1..n : Rank(T, Nth(T, k)) = k
      BY <1>2, NthNumbers
    <2> QED
      BY <2>1
  <1>7. \A t \in T : \E k \in 1..n : Nth(T, k) = t
    <2> HIDE DEF T
    <2> QED
      BY <1>2, NthNumbers
  <1>8. \A e \in evs : \E k \in 1..n : At(k) = e
    <2> TAKE e \in evs
    <2>1. PICK k \in 1..n : Nth(T, k) = e.ts
      BY <1>7
    <2> QED
      BY <1>1, <1>5, <2>1
  <1> HIDE DEF At, n, T
  <1>9. \A k \in 1..n : At(k) \in Events
    BY <1>1, <1>5
  <1>10. DOMAIN s = 1..n /\ \A k \in 1..n : s[k] = At(k)
    OBVIOUS
  <1>11. s \in Seq(Events)
    <2>1. s \in [1..n -> Events]
      BY <1>9
    <2> QED
      BY <1>4, <2>1
  <1>12. \A k, m \in 1..n : At(k) = At(m) => k = m
    BY <1>5, <1>6
  <1> HIDE DEF s
  <1>13. P!IsInjective(s)
    BY <1>10, <1>12, ProbeWords
  <1>14. \A e : e \in P!Range(s) <=> e \in evs
    <2>0. \A e : e \in P!Range(s) <=> \E i \in DOMAIN s : s[i] = e
      BY ProbeRange
    <2>1. \A e : e \in P!Range(s) <=> \E k \in 1..n : At(k) = e
      BY <1>10, <2>0
    <2>2. \A k \in 1..n : At(k) \in evs
      BY <1>5
    <2> QED
      BY <1>8, <2>1, <2>2
  <1> QED
    BY <1>3, <1>11, <1>13, <1>14

\* The later events of a host than one that was made at t.
Later(evs, h, t) == {d \in P!Of(evs, h) : d.ts > t}

LEMMA LaterIsFinite ==
    ASSUME NEW evs, Dated(evs), NEW h, NEW t
    PROVE  IsFiniteSet(Later(evs, h, t)) /\ Cardinality(Later(evs, h, t)) \in Nat
  <1>1. Later(evs, h, t) \in SUBSET evs
    BY DEF Later, P!Of
  <1>2. IsFiniteSet(evs)
    BY DEF Dated
  <1>3. IsFiniteSet(Later(evs, h, t))
    BY <1>1, <1>2, FS_Subset
  <1> QED
    BY <1>3, FS_CardinalityType

LEMMA FewerLater ==
    ASSUME NEW evs, Dated(evs), NEW h, NEW t, NEW sub, sub \subseteq Later(evs, h, t)
    PROVE  /\ IsFiniteSet(sub) /\ Cardinality(sub) \in Nat
           /\ Cardinality(sub) <= Cardinality(Later(evs, h, t))
  <1>1. IsFiniteSet(Later(evs, h, t))
    BY LaterIsFinite
  <1>2. IsFiniteSet(sub) /\ Cardinality(sub) <= Cardinality(Later(evs, h, t))
    BY <1>1, FS_Subset
  <1> QED
    BY <1>2, FS_CardinalityType

LEMMA LatestIs ==
    ASSUME NEW evs, NEW h, NEW e
    PROVE  e \in P!Latest(evs, h) <=>
             e \in evs /\ e.host = h /\ Cardinality(Later(evs, h, e.ts)) < KeepPerHost
  BY ProbeCount DEF P!Latest, P!Of, Later

\* Among fewer events an event that was one of the latest still is.
LEMMA LatestOfFewer ==
    ASSUME NEW evs, Dated(evs), NEW sub, sub \subseteq evs, NEW h, NEW e \in sub, e \in P!Latest(evs, h)
    PROVE  e \in P!Latest(sub, h)
  <1>1. Later(sub, h, e.ts) \subseteq Later(evs, h, e.ts)
    BY DEF Later, P!Of
  <1>2. /\ Cardinality(Later(sub, h, e.ts)) \in Nat
        /\ Cardinality(Later(sub, h, e.ts)) <= Cardinality(Later(evs, h, e.ts))
    BY <1>1, FewerLater
  <1>3. e.host = h /\ Cardinality(Later(evs, h, e.ts)) < KeepPerHost
    BY LatestIs
  <1>4. Cardinality(Later(evs, h, e.ts)) \in Nat
    BY LaterIsFinite
  <1>5. KeepPerHost \in Nat
    BY ProbesAssumption
  <1>6. Cardinality(Later(sub, h, e.ts)) < KeepPerHost
    BY <1>2, <1>3, <1>4, <1>5
  <1> QED
    BY <1>3, <1>6, LatestIs

\* What is later than one of the latest is one of the latest.
LEMMA LatestGoOn ==
    ASSUME NEW evs, Dated(evs), NEW h, NEW e \in P!Latest(evs, h),
           NEW d \in evs, d.host = h, d.ts >= e.ts
    PROVE  d \in P!Latest(evs, h)
  <1>1. e \in evs /\ Cardinality(Later(evs, h, e.ts)) < KeepPerHost
    BY LatestIs
  <1>2. d \in Events /\ e \in Events /\ evs \in SUBSET Events
    BY <1>1 DEF Dated
  <1>3. Later(evs, h, d.ts) \subseteq Later(evs, h, e.ts)
    <2> SUFFICES ASSUME NEW x \in evs, x.ts > d.ts PROVE x.ts > e.ts
      BY DEF Later, P!Of
    <2>1. x.ts \in Nat /\ d.ts \in Nat /\ e.ts \in Nat
      BY <1>2 DEF Events
    <2> QED
      BY <2>1
  <1>4. /\ Cardinality(Later(evs, h, d.ts)) \in Nat
        /\ Cardinality(Later(evs, h, d.ts)) <= Cardinality(Later(evs, h, e.ts))
    BY <1>3, FewerLater
  <1>5. Cardinality(Later(evs, h, e.ts)) \in Nat /\ KeepPerHost \in Nat
    BY LaterIsFinite, ProbesAssumption
  <1>6. Cardinality(Later(evs, h, d.ts)) < KeepPerHost
    BY <1>1, <1>4, <1>5
  <1> QED
    BY <1>6, LatestIs

\* A host with as many events as are kept has that many latest ones.
LEMMA LatestAreEnough ==
    ASSUME NEW evs, Dated(evs), NEW h, NEW t \in Nat, KeepPerHost <= Cardinality(Later(evs, h, t))
    PROVE  /\ IsFiniteSet(P!Latest(evs, h))
           /\ KeepPerHost <= Cardinality(P!Latest(evs, h))
           /\ Cardinality(P!Latest(evs, h)) \in Nat
  <1> DEFINE K == P!Latest(evs, h)
             O == Later(evs, h, t)
             X == O \ K
  <1>0. evs \in SUBSET Events /\ IsFiniteSet(evs) /\ KeepPerHost \in Nat
    BY ProbesAssumption DEF Dated
  <1>1. K \in SUBSET evs /\ IsFiniteSet(K) /\ Cardinality(K) \in Nat
    <2>1. K \in SUBSET evs
      BY LatestIs
    <2>2. IsFiniteSet(K)
      BY <1>0, <2>1, FS_Subset
    <2> QED
      BY <2>1, <2>2, FS_CardinalityType
  <1>2. IsFiniteSet(O) /\ Cardinality(O) \in Nat /\ O \in SUBSET evs
    <2>1. O \in SUBSET evs
      BY DEF Later, P!Of
    <2> QED
      BY <2>1, LaterIsFinite
  <1>3. CASE X = {}
    <2> HIDE DEF O, K
    <2>1. O \subseteq K
      BY <1>3
    <2>2. Cardinality(O) <= Cardinality(K)
      BY <1>1, <2>1, FS_Subset
    <2>3. KeepPerHost <= Cardinality(O)
      BY DEF O
    <2>4. KeepPerHost <= Cardinality(K)
      BY <1>0, <1>1, <1>2, <2>2, <2>3
    <2> QED
      BY <1>1, <2>4 DEF K
  <1>4. CASE X # {}
    <2> DEFINE T == {e.ts : e \in X}
    <2>1. IsFiniteSet(T) /\ T \in SUBSET Nat /\ T # {}
      <3> DEFINE f == [e \in X |-> e.ts]
      <3>1. T = {f[e] : e \in X}
        OBVIOUS
      <3>2. X \in SUBSET Events
        BY <1>0, <1>2
      <3>3. T \in SUBSET Nat /\ T # {}
        BY <1>4, <3>2 DEF Events
      <3>4. IsFiniteSet(X)
        <4> HIDE DEF O, K
        <4> QED
          BY <1>2, FS_Subset
      <3> HIDE DEF T, f, X
      <3>5. IsFiniteSet({f[e] : e \in X})
        BY <3>4, ImageIsFinite
      <3> QED
        BY <3>1, <3>3, <3>5
    <2>2. PICK m \in T : \A i \in T : i <= m
      <3> HIDE DEF T
      <3> QED
        BY <2>1, FiniteIsBounded
    <2>3. PICK e \in X : e.ts = m
      OBVIOUS
    <2>4. e \in evs /\ e.host = h /\ e.ts > t /\ e \notin K
      BY DEF Later, P!Of
    <2>5. Later(evs, h, e.ts) \subseteq K
      <3> SUFFICES ASSUME NEW x \in Later(evs, h, e.ts), x \notin K PROVE FALSE
        OBVIOUS
      <3>1. x \in evs /\ x.host = h /\ x.ts > e.ts
        BY DEF Later, P!Of
      <3>2. x.ts \in Nat /\ e.ts \in Nat
        BY <1>0, <2>4, <3>1 DEF Events
      <3>3. x \in O
        <4>1. x.ts > t
          BY <2>4, <3>1, <3>2
        <4> QED
          BY <3>1, <4>1 DEF Later, P!Of
      <3>4. x.ts \in T
        BY <3>3
      <3>5. x.ts <= e.ts
        BY <2>2, <2>3, <3>4
      <3> QED
        BY <3>1, <3>2, <3>5
    <2> HIDE DEF K, O, X, T
    <2>6. Cardinality(Later(evs, h, e.ts)) <= Cardinality(K)
      BY <1>1, <2>5, FS_Subset
    <2>7. ~(Cardinality(Later(evs, h, e.ts)) < KeepPerHost)
      BY <2>4, LatestIs DEF K
    <2>8. Cardinality(Later(evs, h, e.ts)) \in Nat
      BY LaterIsFinite
    <2>9. KeepPerHost <= Cardinality(K)
      BY <1>0, <1>1, <2>6, <2>7, <2>8
    <2> QED
      BY <1>1, <2>9 DEF K
  <1> QED
    BY <1>3, <1>4

\* Where a writer is.
Places == {"idle", "append", "append_bare", "check", "check_bare", "replace", "replace_bare"}
Appending(w) == pc[w] \in {"append", "append_bare"}
Rewriting(w) == pc[w] \in {"replace", "replace_bare"}

LogTypes ==
    /\ file \in Seq(Events) /\ log \in Seq(Events)
    /\ clock \in 1..(MaxProbes + 1) /\ lock \in Writers \cup {"free"} /\ unlocked \in BOOLEAN
    /\ pc \in [Writers -> Places]
    /\ event \in [Writers -> Events \cup {P!NoEvent}] /\ copy \in [Writers -> Seq(Events)]

\* A timestamp is given out once, and an event is appended once.
LogDated ==
    /\ \A e \in P!Range(log) : e.ts < clock
    /\ \A d, e \in P!Range(log) : d.ts = e.ts => d = e
    /\ \A w \in Writers : Appending(w) =>
         /\ event[w] \in Events /\ event[w].ts < clock
         /\ \A e \in P!Range(log) : e.ts # event[w].ts
         /\ \A v \in Writers : Appending(v) /\ event[v].ts = event[w].ts => v = w

LogKept ==
    /\ P!Range(file) \subseteq P!Range(log) /\ P!IsInjective(file)
    /\ \A w \in Writers : P!Range(copy[w]) \subseteq P!Range(log)
    /\ \A w \in Writers : Rewriting(w) => copy[w] # <<>>

\* Of a host whose probes were written in their order the file holds the last ones.
FileIsSuffix ==
    \A h \in ProbeHosts : P!WrittenInOrder(h) =>
      \A e \in P!Range(file), d \in P!Range(log) :
        e.host = h /\ d.host = h /\ d.ts > e.ts => d \in P!Range(file)

\* While every writer takes the lock, the one that rewrites has read the file as it is.
Locked ==
    ~ unlocked =>
      /\ \A w \in Writers : pc[w] \notin {"append_bare", "check_bare", "replace_bare"}
      /\ \A w \in Writers : pc[w] = "replace" => lock = w /\ copy[w] = file
      /\ P!LatestSurvive /\ FileIsSuffix

ProbesInv == LogTypes /\ LogDated /\ LogKept /\ Locked

LEMMA ProbesInit == P!Init => ProbesInv
  <1> SUFFICES ASSUME P!Init PROVE ProbesInv
    OBVIOUS
  <1>1. /\ file = <<>> /\ log = <<>> /\ clock = 1 /\ lock = "free" /\ unlocked = FALSE
        /\ pc = [w \in Writers |-> "idle"]
        /\ event = [w \in Writers |-> P!NoEvent]
        /\ copy = [w \in Writers |-> <<>>]
    BY DEF P!Init
  <1>2. \A e : e \notin P!Range(<<>>)
    BY ProbeRange
  <1>3. P!IsInjective(<<>>)
    BY ProbeWords
  <1>4. LogTypes
    <2>1. MaxProbes \in Nat
      BY ProbesAssumption
    <2>2. <<>> \in Seq(Events)
      OBVIOUS
    <2>3. clock \in 1..(MaxProbes + 1)
      BY <1>1, <2>1
    <2> QED
      BY <1>1, <2>2, <2>3 DEF LogTypes, Places
  <1>5. LogDated
    BY <1>1, <1>2 DEF LogDated, Appending
  <1>6. LogKept
    BY <1>1, <1>2, <1>3 DEF LogKept, Rewriting
  <1>7. Locked
    <2>1. \A w \in Writers : pc[w] = "idle"
      BY <1>1
    <2>2. P!LatestSurvive
      BY <1>1, <1>2, LatestIs DEF P!LatestSurvive
    <2>3. FileIsSuffix
      BY <1>1, <1>2 DEF FileIsSuffix
    <2> QED
      BY <2>1, <2>2, <2>3 DEF Locked
  <1> QED
    BY <1>4, <1>5, <1>6, <1>7 DEF ProbesInv

\* What the log holds, as a set.
LEMMA LogIsDated ==
    ASSUME LogTypes, LogDated
    PROVE  Dated(P!Range(log))
  BY LoggedIsFinite DEF LogTypes, LogDated, Dated

LEMMA PartIsDated ==
    ASSUME NEW evs, Dated(evs), NEW sub, sub \subseteq evs
    PROVE  Dated(sub)
  <1>1. IsFiniteSet(sub)
    BY FS_Subset DEF Dated
  <1> QED
    BY <1>1 DEF Dated

\* A step that touches neither file, log nor the events in hand.
LEMMA QuietProbe ==
    ASSUME ProbesInv, NEW w \in Writers, NEW to \in Places,
           pc' = [pc EXCEPT ![w] = to], UNCHANGED <<file, log, clock>>,
           lock' \in Writers \cup {"free"}, unlocked' \in BOOLEAN,
           event' = event \/ event' = [event EXCEPT ![w] = P!NoEvent],
           to \in {"append", "append_bare"} => Appending(w) /\ event' = event,
           copy' \in [Writers -> Seq(Events)],
           \A v \in Writers \ {w} : copy'[v] = copy[v],
           P!Range(copy'[w]) \subseteq P!Range(log),
           to \in {"replace", "replace_bare"} => copy'[w] # <<>>,
           ~ unlocked' => /\ ~ unlocked /\ to \notin {"append_bare", "check_bare", "replace_bare"}
                          /\ to = "replace" => lock' = w /\ copy'[w] = file
                          /\ \A v \in Writers \ {w} : lock = v => lock' = v
    PROVE  ProbesInv'
  <1>1. LogTypes /\ LogDated /\ LogKept /\ Locked
    BY DEF ProbesInv
  <1>2. /\ pc \in [Writers -> Places] /\ pc' \in [Writers -> Places]
        /\ pc'[w] = to /\ \A v \in Writers \ {w} : pc'[v] = pc[v]
    BY <1>1 DEF LogTypes
  <1>3. /\ event' \in [Writers -> Events \cup {P!NoEvent}]
        /\ \A v \in Writers \ {w} : event'[v] = event[v]
        /\ Appending(w)' => Appending(w) /\ event'[w] = event[w]
    <2>1. event \in [Writers -> Events \cup {P!NoEvent}]
      BY <1>1 DEF LogTypes
    <2> QED
      BY <1>2, <2>1 DEF Appending
  <1>4. LogTypes'
    BY <1>1, <1>2, <1>3 DEF LogTypes
  <1>5. \A v \in Writers : Appending(v)' => Appending(v) /\ event'[v] = event[v]
    BY <1>2, <1>3 DEF Appending
  <1>6. LogDated'
    BY <1>1, <1>5 DEF LogDated
  <1>7. LogKept'
    <2>1. ASSUME NEW v \in Writers PROVE P!Range(copy'[v]) \subseteq P!Range(log)
      BY <1>1 DEF LogKept
    <2>2. ASSUME NEW v \in Writers, Rewriting(v)' PROVE copy'[v] # <<>>
      BY <1>1, <1>2, <2>2 DEF LogKept, Rewriting
    <2> QED
      BY <1>1, <2>1, <2>2 DEF LogKept
  <1>8. Locked'
    <2> SUFFICES ASSUME ~ unlocked' PROVE Locked'
      BY DEF Locked
    <2>1. ASSUME NEW v \in Writers PROVE pc'[v] \notin {"append_bare", "check_bare", "replace_bare"}
      BY <1>1, <1>2 DEF Locked
    <2>2. ASSUME NEW v \in Writers, pc'[v] = "replace" PROVE lock' = v /\ copy'[v] = file
      BY <1>1, <1>2, <2>2 DEF Locked
    <2>3. P!LatestSurvive' /\ FileIsSuffix'
      BY <1>1 DEF Locked, P!LatestSurvive, FileIsSuffix, P!WrittenInOrder
    <2> QED
      BY <2>1, <2>2, <2>3 DEF Locked
  <1> QED
    BY <1>4, <1>6, <1>7, <1>8 DEF ProbesInv

LEMMA UnlockKeeps ==
    ASSUME LogTypes, NEW w \in Writers, P!Unlock(w)
    PROVE  /\ lock' \in Writers \cup {"free"}
           /\ \A v \in Writers \ {w} : lock = v => lock' = v
  BY DEF LogTypes, P!Unlock

LEMMA QuietProbes ==
    ASSUME ProbesInv, NEW w \in Writers,
           P!TakeLock(w) \/ P!LockUnavailable(w) \/ P!CheckSize(w) \/ P!ReplaceFails(w) \/ P!Dies(w)
    PROVE  ProbesInv'
  <1>1. LogTypes /\ LogDated /\ LogKept /\ Locked
    BY DEF ProbesInv
  <1>2. /\ pc[w] \in Places /\ copy \in [Writers -> Seq(Events)] /\ file \in Seq(Events)
        /\ pc \in [Writers -> Places] /\ unlocked \in BOOLEAN /\ lock \in Writers \cup {"free"}
        /\ event \in [Writers -> Events \cup {P!NoEvent}]
    BY <1>1 DEF LogTypes
  <1>3. P!Range(copy[w]) \subseteq P!Range(log) /\ P!Range(file) \subseteq P!Range(log)
    BY <1>1 DEF LogKept
  <1>4. P!Range(<<>>) \subseteq P!Range(log)
    BY ProbeRange
  <1>5. CASE P!TakeLock(w)
    <2>1. /\ pc[w] \in {"append", "check"} /\ lock = "free" /\ lock' = w
          /\ UNCHANGED <<file, log, clock, pc, event, copy, unlocked>>
      BY <1>5 DEF P!TakeLock
    <2>2. pc' = [pc EXCEPT ![w] = pc[w]]
      BY <1>2, <2>1
    <2>3. "free" \notin Writers
      BY ProbesAssumption
    <2>4. /\ lock' \in Writers \cup {"free"} /\ unlocked' \in BOOLEAN /\ event' = event
          /\ pc[w] \in {"append", "append_bare"} => Appending(w)
          /\ copy' \in [Writers -> Seq(Events)] /\ \A v \in Writers \ {w} : copy'[v] = copy[v]
          /\ P!Range(copy'[w]) \subseteq P!Range(log)
          /\ pc[w] \notin {"replace", "replace_bare"}
          /\ ~ unlocked' => ~ unlocked /\ pc[w] \notin {"append_bare", "check_bare", "replace_bare"}
          /\ \A v \in Writers \ {w} : lock # v
      BY <1>2, <1>3, <2>1, <2>3 DEF Appending
    <2> QED
      BY <1>2, <2>1, <2>2, <2>4, QuietProbe
  <1>6. CASE P!LockUnavailable(w)
    <2> DEFINE to == IF pc[w] = "append" THEN "append_bare" ELSE "check_bare"
    <2>1. /\ pc[w] \in {"append", "check"} /\ pc' = [pc EXCEPT ![w] = to] /\ unlocked' = TRUE
          /\ UNCHANGED <<file, log, clock, lock, event, copy>>
      BY <1>6 DEF P!LockUnavailable
    <2>2. /\ to \in Places /\ to \notin {"replace", "replace_bare"}
          /\ to \in {"append", "append_bare"} => Appending(w) /\ event' = event
      BY <2>1 DEF Places, Appending
    <2>3. copy' \in [Writers -> Seq(Events)] /\ \A v \in Writers \ {w} : copy'[v] = copy[v]
      BY <1>2, <2>1
    <2>4. P!Range(copy'[w]) \subseteq P!Range(log)
      BY <1>3, <2>1
    <2> HIDE DEF to
    <2> QED
      BY <1>2, <2>1, <2>2, <2>3, <2>4, QuietProbe
  <1>7. CASE P!CheckSize(w)
    <2>1. pc[w] \in {"check", "check_bare"} /\ UNCHANGED <<file, log, clock, event, unlocked>>
      BY <1>7 DEF P!CheckSize
    <2>2. CASE /\ Len(file) > CompactAbove /\ copy' = [copy EXCEPT ![w] = file]
               /\ pc' = [pc EXCEPT ![w] = IF pc[w] = "check" THEN "replace" ELSE "replace_bare"]
               /\ UNCHANGED lock
      <3> DEFINE to == IF pc[w] = "check" THEN "replace" ELSE "replace_bare"
      <3>1. /\ to \in Places /\ to \notin {"append", "append_bare"}
            /\ pc' = [pc EXCEPT ![w] = to]
        BY <2>1, <2>2 DEF Places
      <3>2. /\ copy' \in [Writers -> Seq(Events)] /\ copy'[w] = file
            /\ \A v \in Writers \ {w} : copy'[v] = copy[v]
        BY <1>2, <2>2
      <3>3. copy'[w] # <<>>
        <4>1. Len(file) \in Nat /\ CompactAbove \in Nat /\ Len(file) > CompactAbove
          BY <1>2, <2>2, ProbesAssumption
        <4>2. Len(file) # 0
          BY <4>1
        <4> QED
          BY <3>2, <4>2
      <3>4. ~ unlocked => pc[w] = "check" /\ lock = w
        BY <1>1, <1>7, <2>1 DEF Locked, P!CheckSize, P!Holds
      <3>5. ~ unlocked' => ~ unlocked /\ to = "replace" /\ lock' = w
        BY <2>1, <2>2, <3>4
      <3>6. lock' \in Writers \cup {"free"} /\ lock' = lock
        BY <1>2, <2>2
      <3>7. P!Range(copy'[w]) \subseteq P!Range(log)
        BY <1>3, <3>2
      <3> HIDE DEF to
      <3> QED
        BY <1>2, <2>1, <3>1, <3>2, <3>3, <3>5, <3>6, <3>7, QuietProbe
    <2>3. CASE /\ Len(file) <= CompactAbove /\ pc' = [pc EXCEPT ![w] = "idle"] /\ P!Unlock(w)
               /\ UNCHANGED copy
      <3>1. /\ lock' \in Writers \cup {"free"} /\ \A v \in Writers \ {w} : lock = v => lock' = v
        BY <1>1, <2>3, UnlockKeeps
      <3>2. /\ "idle" \in Places
            /\ copy' \in [Writers -> Seq(Events)] /\ \A v \in Writers \ {w} : copy'[v] = copy[v]
        BY <1>2, <2>3 DEF Places
      <3>3. P!Range(copy'[w]) \subseteq P!Range(log)
        BY <1>3, <2>3
      <3> QED
        BY <1>2, <2>1, <2>3, <3>1, <3>2, <3>3, QuietProbe
    <2> QED
      BY <1>7, <2>2, <2>3 DEF P!CheckSize
  <1>8. CASE P!ReplaceFails(w) \/ P!Dies(w)
    <2>1. /\ copy' = [copy EXCEPT ![w] = <<>>] /\ pc' = [pc EXCEPT ![w] = "idle"] /\ P!Unlock(w)
          /\ event' = event \/ event' = [event EXCEPT ![w] = P!NoEvent]
          /\ UNCHANGED <<file, log, clock, unlocked>>
      BY <1>8 DEF P!ReplaceFails, P!Dies
    <2>2. /\ lock' \in Writers \cup {"free"} /\ \A v \in Writers \ {w} : lock = v => lock' = v
      BY <1>1, <2>1, UnlockKeeps
    <2>3. /\ "idle" \in Places /\ <<>> \in Seq(Events)
          /\ copy' \in [Writers -> Seq(Events)] /\ copy'[w] = <<>>
          /\ \A v \in Writers \ {w} : copy'[v] = copy[v]
      BY <1>2, <2>1 DEF Places
    <2>4. P!Range(copy'[w]) \subseteq P!Range(log)
      BY <1>4, <2>3
    <2> QED
      BY <1>2, <2>1, <2>2, <2>3, <2>4, QuietProbe
  <1> QED
    BY <1>5, <1>6, <1>7, <1>8

\* record(): a new timestamp.
LEMMA RecordProbe ==
    ASSUME ProbesInv, NEW w \in Writers, NEW h \in ProbeHosts, NEW o \in P!Outcomes, P!Record(w, h, o)
    PROVE  ProbesInv'
  <1> DEFINE e == [host |-> h, outcome |-> o, ts |-> clock]
  <1>1. LogTypes /\ LogDated /\ LogKept /\ Locked
    BY DEF ProbesInv
  <1>2. /\ pc[w] = "idle" /\ clock <= MaxProbes /\ clock' = clock + 1
        /\ event' = [event EXCEPT ![w] = e] /\ pc' = [pc EXCEPT ![w] = "append"]
        /\ UNCHANGED <<file, log, lock, copy, unlocked>>
    BY DEF P!Record
  <1>3. /\ pc \in [Writers -> Places] /\ clock \in 1..(MaxProbes + 1) /\ MaxProbes \in Nat
        /\ event \in [Writers -> Events \cup {P!NoEvent}]
    BY <1>1, ProbesAssumption DEF LogTypes
  <1>4. clock \in Nat /\ clock' \in Nat /\ clock' \in 1..(MaxProbes + 1)
    BY <1>2, <1>3
  <1>5. e \in Events /\ e.ts = clock
    BY <1>4 DEF Events
  <1> HIDE DEF e
  <1>6. /\ pc' \in [Writers -> Places] /\ pc'[w] = "append"
        /\ \A v \in Writers \ {w} : pc'[v] = pc[v]
        /\ event' \in [Writers -> Events \cup {P!NoEvent}] /\ event'[w] = e
        /\ \A v \in Writers \ {w} : event'[v] = event[v]
    BY <1>2, <1>3, <1>5 DEF Places
  <1>7. LogTypes'
    BY <1>1, <1>2, <1>4, <1>6 DEF LogTypes
  <1>8. \A d \in P!Range(log) : d.ts \in Nat /\ d.ts < clock /\ d.ts < clock'
    <2>1. P!Range(log) \subseteq Events
      BY <1>1, LoggedIsFinite DEF LogTypes
    <2>2. ASSUME NEW d \in P!Range(log) PROVE d.ts \in Nat /\ d.ts < clock /\ d.ts < clock'
      <3>1. d.ts \in Nat /\ d.ts < clock
        BY <1>1, <2>1 DEF LogDated, Events
      <3> QED
        BY <1>2, <1>4, <3>1
    <2> QED
      BY <2>2
  <1>9. \A v \in Writers \ {w} : Appending(v) =>
          event[v] \in Events /\ event[v].ts \in Nat /\ event[v].ts < clock /\ event[v].ts < clock'
    <2> SUFFICES ASSUME NEW v \in Writers \ {w}, Appending(v)
                 PROVE  event[v] \in Events /\ event[v].ts \in Nat /\ event[v].ts < clock /\ event[v].ts < clock'
      OBVIOUS
    <2>1. event[v] \in Events /\ event[v].ts < clock
      BY <1>1 DEF LogDated
    <2>2. event[v].ts \in Nat
      BY <2>1 DEF Events
    <2> QED
      BY <1>2, <1>4, <2>1, <2>2
  <1>10. LogDated'
    <2>1. ASSUME NEW v \in Writers, Appending(v)'
          PROVE  /\ event'[v] \in Events /\ event'[v].ts < clock'
                 /\ \A d \in P!Range(log) : d.ts # event'[v].ts
                 /\ \A u \in Writers : Appending(u)' /\ event'[u].ts = event'[v].ts => u = v
      <3>1. \A u \in Writers \ {w} : Appending(u)' => Appending(u) /\ event'[u] = event[u]
        BY <1>6 DEF Appending
      <3>2. CASE v = w
        <4>1. event'[v] \in Events /\ event'[v].ts = clock /\ clock < clock'
          BY <1>2, <1>4, <1>5, <1>6, <3>2
        <4>2. \A u \in Writers : Appending(u)' /\ event'[u].ts = clock => u = v
          BY <1>4, <1>9, <3>1, <3>2
        <4>3. \A d \in P!Range(log) : d.ts # clock
          BY <1>4, <1>8
        <4> QED
          BY <4>1, <4>2, <4>3
      <3>3. CASE v # w
        <4>1. Appending(v) /\ event'[v] = event[v]
          BY <2>1, <3>1, <3>3
        <4>2. event'[v] \in Events /\ event'[v].ts < clock'
          BY <1>9, <3>3, <4>1
        <4>3. \A d \in P!Range(log) : d.ts # event'[v].ts
          BY <1>1, <4>1 DEF LogDated
        <4>4. ASSUME NEW u \in Writers, Appending(u)', event'[u].ts = event'[v].ts PROVE u = v
          <5>1. CASE u = w
            <6>1. event'[u].ts = clock /\ event[v].ts \in Nat /\ event[v].ts < clock
              BY <1>5, <1>6, <1>9, <3>3, <4>1, <5>1
            <6> QED
              BY <1>4, <4>1, <4>4, <6>1
          <5>2. CASE u # w
            <6>1. Appending(u) /\ event'[u] = event[u]
              BY <3>1, <4>4, <5>2
            <6> QED
              BY <1>1, <4>1, <4>4, <6>1 DEF LogDated
          <5> QED
            BY <5>1, <5>2
        <4> QED
          BY <4>2, <4>3, <4>4
      <3> QED
        BY <3>2, <3>3
    <2>2. \A d \in P!Range(log') : d.ts < clock'
      BY <1>2, <1>8
    <2> QED
      BY <1>1, <1>2, <2>1, <2>2 DEF LogDated
  <1>11. LogKept'
    BY <1>1, <1>2, <1>6 DEF LogKept, Rewriting
  <1>12. Locked'
    <2> SUFFICES ASSUME ~ unlocked' PROVE Locked'
      BY DEF Locked
    <2>1. \A v \in Writers : /\ pc'[v] \notin {"append_bare", "check_bare", "replace_bare"}
                             /\ pc'[v] = "replace" => lock = v /\ copy[v] = file
      BY <1>1, <1>2, <1>6 DEF Locked
    <2>2. P!LatestSurvive' /\ FileIsSuffix'
      BY <1>1, <1>2 DEF Locked, P!LatestSurvive, FileIsSuffix, P!WrittenInOrder
    <2> QED
      BY <1>2, <2>1, <2>2 DEF Locked
  <1> QED
    BY <1>7, <1>10, <1>11, <1>12 DEF ProbesInv

\* What an append adds to the log: one event, newer than none that was not.
LEMMA AppendedProbe ==
    ASSUME NEW s \in Seq(Events), NEW e \in Events
    PROVE  /\ Append(s, e) \in Seq(Events)
           /\ \A d : d \in P!Range(Append(s, e)) <=> d \in P!Range(s) \/ d = e
  <1>1. /\ Append(s, e) \in Seq(Events)
        /\ DOMAIN Append(s, e) = DOMAIN s \cup {Len(s) + 1}
        /\ \A i \in DOMAIN s : Append(s, e)[i] = s[i]
        /\ Append(s, e)[Len(s) + 1] = e
    BY AppendPositions
  <1>2. ASSUME NEW d PROVE d \in P!Range(Append(s, e)) <=> d \in P!Range(s) \/ d = e
    <2>1. d \in P!Range(Append(s, e)) <=> \E i \in DOMAIN Append(s, e) : Append(s, e)[i] = d
      BY ProbeRange
    <2>2. d \in P!Range(s) <=> \E i \in DOMAIN s : s[i] = d
      BY ProbeRange
    <2> QED
      BY <1>1, <2>1, <2>2
  <1> QED
    BY <1>1, <1>2

LEMMA AppendProbe ==
    ASSUME ProbesInv, NEW w \in Writers, P!AppendEvent(w)
    PROVE  ProbesInv'
  <1> DEFINE e == event[w]
             to == IF Len(file) + 1 > CompactAbove THEN "check" ELSE "idle"
  <1>1. LogTypes /\ LogDated /\ LogKept /\ Locked
    BY DEF ProbesInv
  <1>2. /\ Appending(w) /\ P!Holds(w) /\ file' = Append(file, e) /\ log' = Append(log, e)
        /\ P!Unlock(w) /\ pc' = [pc EXCEPT ![w] = to]
        /\ event' = [event EXCEPT ![w] = P!NoEvent] /\ UNCHANGED <<clock, copy, unlocked>>
    BY DEF P!AppendEvent, Appending
  <1>3. /\ pc \in [Writers -> Places] /\ event \in [Writers -> Events \cup {P!NoEvent}]
        /\ copy \in [Writers -> Seq(Events)] /\ file \in Seq(Events) /\ log \in Seq(Events)
    BY <1>1 DEF LogTypes
  <1>4. /\ e \in Events /\ e.ts < clock /\ \A d \in P!Range(log) : d.ts # e.ts
        /\ \A v \in Writers : Appending(v) /\ event[v].ts = e.ts => v = w
    BY <1>1, <1>2 DEF LogDated
  <1> HIDE DEF e
  <1>5. /\ file' \in Seq(Events) /\ log' \in Seq(Events)
        /\ \A d : d \in P!Range(file') <=> d \in P!Range(file) \/ d = e
        /\ \A d : d \in P!Range(log') <=> d \in P!Range(log) \/ d = e
    BY <1>2, <1>3, <1>4, AppendedProbe
  <1>6. /\ lock' \in Writers \cup {"free"} /\ \A v \in Writers \ {w} : lock = v => lock' = v
    BY <1>1, <1>2, UnlockKeeps
  <1>7. /\ to \in {"check", "idle"} /\ pc' \in [Writers -> Places] /\ pc'[w] = to
        /\ \A v \in Writers \ {w} : pc'[v] = pc[v]
    BY <1>2, <1>3 DEF Places
  <1> HIDE DEF to
  <1>8. /\ event' \in [Writers -> Events \cup {P!NoEvent}]
        /\ \A v \in Writers \ {w} : event'[v] = event[v]
    BY <1>2, <1>3
  <1>9. LogTypes'
    BY <1>1, <1>2, <1>5, <1>6, <1>7, <1>8 DEF LogTypes
  <1>10. \A v \in Writers : Appending(v)' => v # w /\ Appending(v) /\ event'[v] = event[v]
    BY <1>7, <1>8 DEF Appending
  <1>11. LogDated'
    <2>1. \A d \in P!Range(log') : d.ts < clock'
      BY <1>1, <1>2, <1>4, <1>5 DEF LogDated
    <2>2. \A d, f \in P!Range(log') : d.ts = f.ts => d = f
      BY <1>1, <1>4, <1>5 DEF LogDated
    <2>3. ASSUME NEW v \in Writers, Appending(v)'
          PROVE  /\ event'[v] \in Events /\ event'[v].ts < clock'
                 /\ \A d \in P!Range(log') : d.ts # event'[v].ts
                 /\ \A u \in Writers : Appending(u)' /\ event'[u].ts = event'[v].ts => u = v
      <3>1. v # w /\ Appending(v) /\ event'[v] = event[v]
        BY <1>10, <2>3
      <3>2. event[v].ts # e.ts
        BY <1>4, <3>1
      <3>3. \A d \in P!Range(log') : d.ts # event[v].ts
        BY <1>1, <1>5, <3>1, <3>2 DEF LogDated
      <3>4. \A u \in Writers : Appending(u)' /\ event'[u].ts = event[v].ts => u = v
        BY <1>1, <1>10, <3>1 DEF LogDated
      <3>5. event[v] \in Events /\ event[v].ts < clock
        BY <1>1, <3>1 DEF LogDated
      <3> QED
        BY <1>2, <3>1, <3>3, <3>4, <3>5
    <2> QED
      BY <2>1, <2>2, <2>3 DEF LogDated
  <1>12. LogKept'
    <2>1. P!Range(file') \subseteq P!Range(log')
      BY <1>1, <1>5 DEF LogKept
    <2>2. P!IsInjective(file')
      <3>1. /\ DOMAIN file' = DOMAIN file \cup {Len(file) + 1}
            /\ \A i \in DOMAIN file : file'[i] = file[i] /\ i # Len(file) + 1
            /\ file'[Len(file) + 1] = e
        <4>1. /\ Len(file) \in Nat /\ DOMAIN Append(file, e) = DOMAIN file \cup {Len(file) + 1}
              /\ \A i \in DOMAIN file : i \in Nat /\ i < Len(file) + 1 /\ Append(file, e)[i] = file[i]
              /\ Append(file, e)[Len(file) + 1] = e
          BY <1>3, <1>4, AppendPositions
        <4>2. \A i \in DOMAIN file : i # Len(file) + 1
          BY <4>1
        <4> QED
          BY <1>2, <4>1, <4>2
      <3>2. \A i \in DOMAIN file : file[i] # e
        <4>1. \A i \in DOMAIN file : file[i] \in P!Range(log)
          BY <1>1, ProbeRange DEF LogKept
        <4> QED
          BY <1>4, <4>1
      <3>3. \A i, j \in DOMAIN file : file[i] = file[j] => i = j
        BY <1>1, ProbeWords DEF LogKept
      <3>4. \A i, j \in DOMAIN file' : file'[i] = file'[j] => i = j
        BY <3>1, <3>2, <3>3
      <3> QED
        BY <3>4, ProbeWords
    <2>3. \A v \in Writers : P!Range(copy'[v]) \subseteq P!Range(log')
      BY <1>1, <1>2, <1>5 DEF LogKept
    <2>4. \A v \in Writers : Rewriting(v)' => copy'[v] # <<>>
      BY <1>1, <1>2, <1>7 DEF LogKept, Rewriting
    <2> QED
      BY <2>1, <2>2, <2>3, <2>4 DEF LogKept
  <1>13. Locked'
    <2> SUFFICES ASSUME ~ unlocked' PROVE Locked'
      BY DEF Locked
    <2>0. ~ unlocked
      BY <1>2
    <2>1. lock = w
      BY <1>1, <1>2, <2>0 DEF Locked, P!Holds
    <2>2. \A v \in Writers : pc[v] # "replace"
      BY <1>1, <1>2, <2>0, <2>1 DEF Locked, Appending
    <2>3. \A v \in Writers : /\ pc'[v] \notin {"append_bare", "check_bare", "replace_bare"}
                             /\ pc'[v] # "replace"
      BY <1>1, <1>7, <2>0, <2>2 DEF Locked
    <2>4. Dated(P!Range(log')) /\ Dated(P!Range(log))
      <3>1. P!Range(log') \in SUBSET Events /\ IsFiniteSet(P!Range(log'))
        BY <1>5, LoggedIsFinite
      <3>2. \A d, f \in P!Range(log') : d.ts = f.ts => d = f
        BY <1>11 DEF LogDated
      <3> QED
        BY <1>1, <3>1, <3>2, LogIsDated DEF Dated
    <2>5. P!LatestSurvive'
      <3> SUFFICES ASSUME NEW h \in ProbeHosts, NEW d \in P!Latest(P!Range(log'), h)
                   PROVE  d \in P!Range(file')
        BY DEF P!LatestSurvive
      <3>1. d \in P!Range(log')
        BY LatestIs
      <3>2. CASE d = e
        BY <1>5, <3>2
      <3>3. CASE d # e
        <4>1. d \in P!Range(log) /\ P!Range(log) \subseteq P!Range(log')
          BY <1>5, <3>1, <3>3
        <4>2. d \in P!Latest(P!Range(log), h)
          BY <2>4, <4>1, LatestOfFewer
        <4>3. d \in P!Range(file)
          BY <1>1, <2>0, <4>2 DEF Locked, P!LatestSurvive
        <4> QED
          BY <1>5, <4>3
      <3> QED
        BY <3>2, <3>3
    <2>6. FileIsSuffix'
      <3> SUFFICES ASSUME NEW h \in ProbeHosts, P!WrittenInOrder(h)',
                          NEW f \in P!Range(file'), NEW d \in P!Range(log'),
                          f.host = h, d.host = h, d.ts > f.ts
                   PROVE  d \in P!Range(file')
        BY DEF FileIsSuffix
      <3>1. /\ Len(log) \in Nat /\ DOMAIN log' = DOMAIN log \cup {Len(log) + 1}
            /\ \A i \in DOMAIN log : i \in Nat /\ i < Len(log) + 1 /\ log'[i] = log[i]
            /\ log'[Len(log) + 1] = e
        BY <1>2, <1>3, <1>4, AppendPositions
      <3>2. P!WrittenInOrder(h)
        BY <3>1 DEF P!WrittenInOrder
      <3>3. CASE d = e
        BY <1>5, <3>3
      <3>4. CASE d # e /\ f # e
        <4>1. d \in P!Range(log) /\ f \in P!Range(file)
          BY <1>5, <3>4
        <4>2. d \in P!Range(file)
          BY <1>1, <2>0, <3>2, <4>1 DEF Locked, FileIsSuffix
        <4> QED
          BY <1>5, <4>2
      <3>5. CASE d # e /\ f = e
        <4>1. PICK i \in DOMAIN log : log[i] = d
          <5>1. d \in P!Range(log)
            BY <1>5, <3>5
          <5> QED
            BY <5>1, ProbeRange
        <4>2. log'[i].ts < log'[Len(log) + 1].ts
          <5>1. i \in DOMAIN log' /\ Len(log) + 1 \in DOMAIN log' /\ i < Len(log) + 1
            BY <3>1
          <5>2. log'[i].host = h /\ log'[Len(log) + 1].host = h
            BY <3>1, <3>5, <4>1
          <5> QED
            BY <5>1, <5>2 DEF P!WrittenInOrder
        <4>3. d.ts < e.ts
          BY <3>1, <4>1, <4>2
        <4>4. d \in Events
          BY <2>4 DEF Dated
        <4>5. d.ts \in Nat /\ e.ts \in Nat
          BY <1>4, <4>4 DEF Events
        <4> QED
          BY <3>5, <4>3, <4>5
      <3> QED
        BY <3>3, <3>4, <3>5
    <2> QED
      BY <2>3, <2>5, <2>6 DEF Locked
  <1> QED
    BY <1>9, <1>11, <1>12, <1>13 DEF ProbesInv

\* What a compaction keeps of what it read.
LEMMA KeptAre ==
    ASSUME NEW evs, Dated(evs)
    PROVE  /\ P!Kept(evs) \subseteq evs
           /\ \A e \in evs : e \in P!Kept(evs) <=> e \in P!Latest(evs, e.host)
  <1>1. ASSUME NEW e \in P!Kept(evs) PROVE e \in evs
    <2>1. PICK h \in ProbeHosts : e \in P!Latest(evs, h)
      BY DEF P!Kept
    <2> QED
      BY <2>1, LatestIs
  <1>2. ASSUME NEW e \in evs PROVE e \in P!Kept(evs) <=> e \in P!Latest(evs, e.host)
    <2>1. e.host \in ProbeHosts
      BY DEF Dated, Events
    <2>2. e \in P!Kept(evs) <=> \E h \in ProbeHosts : e \in P!Latest(evs, h)
      BY DEF P!Kept
    <2>3. \A h : e \in P!Latest(evs, h) => e.host = h
      BY LatestIs
    <2> QED
      BY <2>1, <2>2, <2>3
  <1> QED
    BY <1>1, <1>2

LEMMA RewrittenFile ==
    ASSUME LogTypes, LogDated, LogKept, NEW w \in Writers, P!Replace(w)
    PROVE  /\ Dated(P!Range(copy[w])) /\ P!Range(file') = P!Kept(P!Range(copy[w]))
           /\ file' \in Seq(Events) /\ P!IsInjective(file')
           /\ P!Range(file') \subseteq P!Range(log)
  <1> DEFINE c == P!Range(copy[w])
  <1>1. Dated(P!Range(log)) /\ c \subseteq P!Range(log)
    BY LogIsDated DEF LogKept
  <1>2. Dated(c)
    BY <1>1, PartIsDated
  <1>3. P!Kept(c) \subseteq c
    BY <1>2, KeptAre
  <1>4. Dated(P!Kept(c))
    BY <1>2, <1>3, PartIsDated
  <1>5. file' = P!InOrder(P!Kept(c))
    BY DEF P!Replace
  <1> HIDE DEF c
  <1>6. file' \in Seq(Events) /\ P!Range(file') = P!Kept(c) /\ P!IsInjective(file')
    BY <1>4, <1>5, InOrderLists
  <1> QED
    BY <1>1, <1>2, <1>3, <1>6 DEF c

LEMMA ReplaceProbe ==
    ASSUME ProbesInv, NEW w \in Writers, P!Replace(w)
    PROVE  ProbesInv'
  <1>1. LogTypes /\ LogDated /\ LogKept /\ Locked
    BY DEF ProbesInv
  <1>2. /\ Rewriting(w) /\ copy' = [copy EXCEPT ![w] = <<>>] /\ pc' = [pc EXCEPT ![w] = "idle"]
        /\ P!Unlock(w) /\ UNCHANGED <<log, clock, event, unlocked>>
    BY DEF P!Replace, Rewriting
  <1>3. /\ Dated(P!Range(copy[w])) /\ P!Range(file') = P!Kept(P!Range(copy[w]))
        /\ file' \in Seq(Events) /\ P!IsInjective(file')
        /\ P!Range(file') \subseteq P!Range(log)
    BY <1>1, RewrittenFile
  <1>4. /\ lock' \in Writers \cup {"free"} /\ \A v \in Writers \ {w} : lock = v => lock' = v
    BY <1>1, <1>2, UnlockKeeps
  <1>5. pc \in [Writers -> Places] /\ copy \in [Writers -> Seq(Events)] /\ <<>> \in Seq(Events)
    BY <1>1 DEF LogTypes
  <1>6. /\ pc' \in [Writers -> Places] /\ pc'[w] = "idle" /\ \A v \in Writers \ {w} : pc'[v] = pc[v]
        /\ copy' \in [Writers -> Seq(Events)] /\ copy'[w] = <<>>
        /\ \A v \in Writers \ {w} : copy'[v] = copy[v]
    BY <1>2, <1>5 DEF Places
  <1>7. LogTypes'
    BY <1>1, <1>2, <1>3, <1>4, <1>6 DEF LogTypes
  <1>8. LogDated'
    BY <1>1, <1>2, <1>6 DEF LogDated, Appending
  <1>9. LogKept'
    <2>1. \A v \in Writers : P!Range(copy'[v]) \subseteq P!Range(log)
      BY <1>1, <1>6, ProbeRange DEF LogKept
    <2>2. \A v \in Writers : Rewriting(v)' => copy'[v] # <<>>
      BY <1>1, <1>6 DEF LogKept, Rewriting
    <2> QED
      BY <1>2, <1>3, <2>1, <2>2 DEF LogKept
  <1>10. Locked'
    <2> SUFFICES ASSUME ~ unlocked' PROVE Locked'
      BY DEF Locked
    <2>0. ~ unlocked
      BY <1>2
    <2>1. pc[w] = "replace" /\ lock = w /\ copy[w] = file
      BY <1>1, <1>2, <2>0 DEF Locked, Rewriting
    <2>2. \A v \in Writers \ {w} : pc[v] # "replace"
      BY <1>1, <2>0, <2>1 DEF Locked
    <2>3. \A v \in Writers : /\ pc'[v] \notin {"append_bare", "check_bare", "replace_bare"}
                             /\ pc'[v] # "replace"
      BY <1>1, <1>6, <2>0, <2>2 DEF Locked
    <2>4. /\ Dated(P!Range(log)) /\ Dated(P!Range(file)) /\ P!Range(file) \subseteq P!Range(log)
          /\ P!Range(file') = P!Kept(P!Range(file))
      BY <1>1, <1>3, <2>1, LogIsDated DEF LogKept
    <2>5. P!LatestSurvive'
      <3> SUFFICES ASSUME NEW h \in ProbeHosts, NEW d \in P!Latest(P!Range(log), h)
                   PROVE  d \in P!Range(file')
        BY <1>2 DEF P!LatestSurvive
      <3>1. d \in P!Range(file) /\ d.host = h
        BY <1>1, <2>0, LatestIs DEF Locked, P!LatestSurvive
      <3>2. d \in P!Latest(P!Range(file), h)
        BY <2>4, <3>1, LatestOfFewer
      <3> QED
        BY <2>4, <3>1, <3>2, KeptAre
    <2>6. FileIsSuffix'
      <3> SUFFICES ASSUME NEW h \in ProbeHosts, P!WrittenInOrder(h)',
                          NEW f \in P!Range(file'), NEW d \in P!Range(log),
                          f.host = h, d.host = h, d.ts > f.ts
                   PROVE  d \in P!Range(file')
        BY <1>2 DEF FileIsSuffix
      <3>1. P!WrittenInOrder(h)
        BY <1>2 DEF P!WrittenInOrder
      <3>2. f \in P!Range(file) /\ f \in P!Latest(P!Range(file), h)
        BY <2>4, KeptAre
      <3>3. d \in P!Range(file)
        BY <1>1, <2>0, <3>1, <3>2 DEF Locked, FileIsSuffix
      <3>4. d.ts >= f.ts
        <4>1. d \in Events /\ f \in Events
          BY <2>4, <3>2 DEF Dated
        <4>2. d.ts \in Nat /\ f.ts \in Nat
          BY <4>1 DEF Events
        <4> QED
          BY <4>2
      <3>5. d \in P!Latest(P!Range(file), h)
        BY <2>4, <3>2, <3>3, <3>4, LatestGoOn
      <3> QED
        BY <2>4, <3>3, <3>5, KeptAre
    <2> QED
      BY <2>3, <2>5, <2>6 DEF Locked
  <1> QED
    BY <1>7, <1>8, <1>9, <1>10 DEF ProbesInv

LEMMA ProbesStep == ProbesInv /\ P!Next => ProbesInv'
  <1> SUFFICES ASSUME ProbesInv, P!Next PROVE ProbesInv'
    OBVIOUS
  <1>1. PICK w \in Writers :
          \/ \E h \in ProbeHosts, o \in P!Outcomes : P!Record(w, h, o)
          \/ P!TakeLock(w) \/ P!LockUnavailable(w)
          \/ P!AppendEvent(w) \/ P!CheckSize(w) \/ P!Replace(w) \/ P!ReplaceFails(w)
          \/ P!Dies(w)
    BY DEF P!Next
  <1> QED
    BY <1>1, RecordProbe, QuietProbes, AppendProbe, ReplaceProbe

LEMMA ProbesSame == ProbesInv /\ UNCHANGED probeVars => ProbesInv'
  BY DEF ProbesInv, LogTypes, LogDated, LogKept, Locked, Appending, Rewriting, FileIsSuffix,
         P!LatestSurvive, P!WrittenInOrder, probeVars

\* The run of silence read from the file ends the log too, unless a later answer of the
\* host was dropped.
LEMMA SilenceInLog ==
    ASSUME NEW l, Dated(l), NEW f, f \subseteq l, NEW h, NEW a \in l, a.host = h,
           a.outcome = "answered",
           \A x \in l : x.host = h /\ x.outcome = "answered" => x.ts <= a.ts,
           \A e \in P!Silent(P!Of(f, h)) : e.ts > a.ts
    PROVE  P!Silent(P!Of(f, h)) \subseteq P!Silent(P!Of(l, h))
  <1> SUFFICES ASSUME NEW e \in P!Silent(P!Of(f, h)) PROVE e \in P!Silent(P!Of(l, h))
    OBVIOUS
  <1>1. e \in f /\ e.host = h /\ e.outcome # "skipped" /\ e.ts > a.ts
    BY DEF P!Silent, P!Tried, P!Of
  <1>2. ASSUME NEW x \in l, x.host = h, x.outcome = "answered" PROVE x.ts < e.ts
    <2>1. x \in Events /\ a \in Events /\ e \in Events
      BY <1>1 DEF Dated
    <2>2. x.ts \in Nat /\ a.ts \in Nat /\ e.ts \in Nat
      BY <2>1 DEF Events
    <2>3. x.ts <= a.ts
      BY <1>2
    <2> QED
      BY <1>1, <2>2, <2>3
  <1> QED
    BY <1>1, <1>2 DEF P!Silent, P!Tried, P!Of

\* So does it when the host never answered as far as the log knows.
LEMMA SilenceWithoutAnswer ==
    ASSUME NEW l, NEW f, f \subseteq l, NEW h,
           \A x \in l : x.host = h => x.outcome # "answered"
    PROVE  P!Silent(P!Of(f, h)) \subseteq P!Silent(P!Of(l, h))
  BY DEF P!Silent, P!Tried, P!Of

LEMMA SilentIsFinite ==
    ASSUME NEW evs, Dated(evs), NEW h
    PROVE  IsFiniteSet(P!Silent(P!Of(evs, h))) /\ Cardinality(P!Silent(P!Of(evs, h))) \in Nat
  <1>1. P!Silent(P!Of(evs, h)) \subseteq evs /\ IsFiniteSet(evs)
    BY DEF P!Silent, P!Tried, P!Of, Dated
  <1>2. IsFiniteSet(P!Silent(P!Of(evs, h)))
    BY <1>1, FS_Subset
  <1> QED
    BY <1>2, FS_CardinalityType

LEMMA SilenceHolds == ProbesInv => P!SilenceIsReal
  <1> SUFFICES ASSUME ProbesInv, ~ unlocked, NEW h \in ProbeHosts,
                      P!WrittenInOrder(h) \/ \A e \in P!Latest(P!Range(log), h) : e.outcome # "skipped",
                      P!Summarize(P!Of(P!Range(file), h), clock) = "silent_run"
               PROVE  P!Cardinality(P!Silent(P!Of(P!Range(log), h))) >= RunForConcern
    BY DEF P!SilenceIsReal
  <1> DEFINE l == P!Range(log)
             f == P!Range(file)
             S == P!Silent(P!Of(l, h))
             R == P!Silent(P!Of(f, h))
  <1>1. LogTypes /\ LogDated /\ LogKept /\ P!LatestSurvive /\ FileIsSuffix
    BY DEF ProbesInv, Locked
  <1>2. Dated(l) /\ f \subseteq l
    BY <1>1, LogIsDated DEF LogKept
  <1>3. Dated(f)
    BY <1>2, PartIsDated
  <1>4. /\ IsFiniteSet(S) /\ Cardinality(S) \in Nat /\ IsFiniteSet(R) /\ Cardinality(R) \in Nat
        /\ RunForConcern \in Nat /\ KeepPerHost \in Nat /\ RunForConcern <= KeepPerHost
    BY <1>2, <1>3, SilentIsFinite, ProbesAssumption
  <1>5. Cardinality(R) >= RunForConcern
    <2>1. P!Cardinality(R) >= RunForConcern
      BY DEF P!Summarize
    <2> QED
      BY <2>1, ProbeCount
  <1>6. R \subseteq S => Cardinality(S) >= RunForConcern
    <2> HIDE DEF R, S
    <2>1. R \subseteq S => Cardinality(R) <= Cardinality(S)
      BY <1>4, FS_Subset
    <2> QED
      BY <1>4, <1>5, <2>1
  <1> DEFINE A == {x \in l : x.host = h /\ x.outcome = "answered"}
  <1>7. CASE A = {}
    <2>1. \A x \in l : x.host = h => x.outcome # "answered"
      BY <1>7
    <2> HIDE DEF l, f
    <2>2. R \subseteq S
      BY <1>2, <2>1, SilenceWithoutAnswer
    <2> QED
      BY <1>6, <2>2, ProbeCount DEF l
  <1>8. CASE A # {}
    <2> DEFINE T == {x.ts : x \in A}
    <2>1. T \in SUBSET Nat /\ IsFiniteSet(T) /\ T # {}
      <3> DEFINE g == [x \in A |-> x.ts]
      <3>1. T = {g[x] : x \in A}
        OBVIOUS
      <3>2. A \subseteq l /\ l \in SUBSET Events /\ IsFiniteSet(l)
        BY <1>2 DEF Dated
      <3>3. T \in SUBSET Nat /\ T # {}
        BY <1>8, <3>2 DEF Events
      <3> HIDE DEF A, T, g, l
      <3>4. IsFiniteSet(A)
        BY <3>2, FS_Subset
      <3>5. IsFiniteSet({g[x] : x \in A})
        BY <3>4, ImageIsFinite
      <3> QED
        BY <3>1, <3>3, <3>5
    <2>2. PICK m \in T : \A i \in T : i <= m
      <3> HIDE DEF T
      <3> QED
        BY <2>1, FiniteIsBounded
    <2>3. PICK a \in A : a.ts = m
      OBVIOUS
    <2>4. /\ a \in l /\ a.host = h /\ a.outcome = "answered"
          /\ \A x \in l : x.host = h /\ x.outcome = "answered" => x.ts <= a.ts
      BY <2>2, <2>3
    <2>5. \A x \in l : x.ts \in Nat
      BY <1>2 DEF Dated, Events
    <2> HIDE DEF A, T
    <2>6. ASSUME \A e \in R : e.ts > a.ts PROVE Cardinality(S) >= RunForConcern
      <3> HIDE DEF l, f
      <3>1. R \subseteq S
        BY <1>2, <2>4, <2>6, SilenceInLog
      <3> QED
        BY <1>6, <3>1
    <2>7. ASSUME a \in f
        PROVE  Cardinality(S) >= RunForConcern
      <3>1. \A e \in R : e.ts > a.ts
        <4> SUFFICES ASSUME NEW e \in R PROVE e.ts > a.ts
          OBVIOUS
        <4>1. e \in f /\ a.ts < e.ts
          BY <2>4, <2>7 DEF P!Silent, P!Tried, P!Of
        <4>2. e.ts \in Nat /\ a.ts \in Nat
          BY <1>2, <2>4, <2>5, <4>1
        <4> QED
          BY <4>1, <4>2
      <3> HIDE DEF R, S
      <3> QED
        BY <2>6, <3>1
    <2>8. ASSUME a \notin f /\ P!WrittenInOrder(h)
        PROVE  Cardinality(S) >= RunForConcern
      <3>1. \A e \in R : e.ts > a.ts
        <4> SUFFICES ASSUME NEW e \in R PROVE e.ts > a.ts
          OBVIOUS
        <4>1. e \in f /\ e \in l /\ e.host = h
          BY <1>2 DEF P!Silent, P!Tried, P!Of
        <4>2. e.ts \in Nat /\ a.ts \in Nat
          BY <2>4, <2>5, <4>1
        <4>3. ~(a.ts > e.ts)
          BY <1>1, <2>4, <2>8, <4>1 DEF FileIsSuffix
        <4>4. a.ts # e.ts
          BY <1>2, <2>4, <2>8, <4>1 DEF Dated
        <4> QED
          BY <4>2, <4>3, <4>4
      <3> HIDE DEF R, S
      <3> QED
        BY <2>6, <3>1
    <2>9. ASSUME a \notin f /\ \A e \in P!Latest(l, h) : e.outcome # "skipped"
        PROVE  Cardinality(S) >= RunForConcern
      <3>1. a \notin P!Latest(l, h)
        BY <1>1, <2>9 DEF P!LatestSurvive
      <3>2. Cardinality(Later(l, h, a.ts)) \in Nat /\ KeepPerHost <= Cardinality(Later(l, h, a.ts))
        <4>1. ~(Cardinality(Later(l, h, a.ts)) < KeepPerHost)
          BY <2>4, <3>1, LatestIs
        <4>2. Cardinality(Later(l, h, a.ts)) \in Nat
          BY <1>2, LaterIsFinite
        <4> QED
          BY <1>4, <4>1, <4>2
      <3>3. /\ KeepPerHost <= Cardinality(P!Latest(l, h)) /\ Cardinality(P!Latest(l, h)) \in Nat
        BY <1>2, <2>4, <2>5, <3>2, LatestAreEnough
      <3>4. P!Latest(l, h) \subseteq S
        <4> SUFFICES ASSUME NEW e \in P!Latest(l, h) PROVE e \in S
          OBVIOUS
        <4>1. e \in l /\ e.host = h /\ e.outcome # "skipped"
          BY <2>9, LatestIs
        <4>2. e.ts \in Nat /\ a.ts \in Nat
          BY <2>4, <2>5, <4>1
        <4>3. ~(a.ts >= e.ts)
          BY <1>2, <2>4, <3>1, LatestGoOn
        <4>4. \A x \in l : x.host = h /\ x.outcome = "answered" => x.ts < e.ts
          <5> SUFFICES ASSUME NEW x \in l, x.host = h, x.outcome = "answered" PROVE x.ts < e.ts
            OBVIOUS
          <5>1. x.ts \in Nat /\ x.ts <= a.ts
            BY <2>4, <2>5
          <5> QED
            BY <4>2, <4>3, <5>1
        <4> QED
          BY <4>1, <4>4 DEF P!Silent, P!Tried, P!Of
      <3> HIDE DEF S, l
      <3>5. Cardinality(P!Latest(l, h)) <= Cardinality(S)
        BY <1>4, <3>4, FS_Subset
      <3> DEFINE latest == Cardinality(P!Latest(l, h))
                 run == Cardinality(S)
      <3>6. latest \in Nat /\ run \in Nat /\ KeepPerHost <= latest /\ latest <= run
        BY <1>4, <3>3, <3>5 DEF S
      <3> HIDE DEF latest, run
      <3>7. run >= RunForConcern
        BY <1>4, <3>6
      <3> QED
        BY <3>7 DEF run
    <2>10. P!WrittenInOrder(h) \/ \A e \in P!Latest(l, h) : e.outcome # "skipped"
      OBVIOUS
    <2>11. Cardinality(S) >= RunForConcern
      <3> HIDE DEF l, f, S
      <3> QED
        BY <2>7, <2>8, <2>9, <2>10
    <2> QED
      BY <2>11, ProbeCount
  <1> QED
    BY <1>7, <1>8

\* A rewrite alone loses an event: one that read the file before the event came, or that
\* did not keep it.
LEMMA LossIsARewrite == ProbesInv /\ P!Next => P!LossNeedsARewrite
  <1> SUFFICES ASSUME ProbesInv, P!Next, NEW e \in P!Range(file), e \notin P!Range(file')
               PROVE  \E w \in Writers : /\ copy[w] # <<>> /\ copy'[w] = <<>>
                                         /\ e \notin P!Kept(P!Range(copy[w]))
    BY DEF P!LossNeedsARewrite
  <1>0. LogTypes /\ LogDated /\ LogKept
    BY DEF ProbesInv
  <1>1. PICK w \in Writers :
          \/ \E h \in ProbeHosts, o \in P!Outcomes : P!Record(w, h, o)
          \/ P!TakeLock(w) \/ P!LockUnavailable(w)
          \/ P!AppendEvent(w) \/ P!CheckSize(w) \/ P!Replace(w) \/ P!ReplaceFails(w)
          \/ P!Dies(w)
    BY DEF P!Next
  <1>2. file' # file
    OBVIOUS
  <1>3. ~ P!AppendEvent(w)
    <2> SUFFICES ASSUME P!AppendEvent(w) PROVE FALSE
      OBVIOUS
    <2>1. file' = Append(file, event[w]) /\ event[w] \in Events /\ file \in Seq(Events)
      BY <1>0 DEF P!AppendEvent, Appending, LogTypes, LogDated
    <2> QED
      BY <2>1, AppendedProbe
  <1>4. P!Replace(w)
    BY <1>1, <1>2, <1>3 DEF P!Record, P!TakeLock, P!LockUnavailable, P!CheckSize, P!ReplaceFails, P!Dies
  <1>5. P!Range(file') = P!Kept(P!Range(copy[w]))
    BY <1>0, <1>4, RewrittenFile
  <1>6. copy[w] # <<>>
    BY <1>0, <1>4 DEF LogKept, Rewriting, P!Replace
  <1>7. copy'[w] = <<>>
    BY <1>0, <1>4 DEF LogTypes, P!Replace
  <1> QED
    BY <1>5, <1>6, <1>7

LEMMA ProbesSound == ProbesInv => P!TypeOK /\ P!LatestSurvive /\ P!SilenceIsReal
  <1> SUFFICES ASSUME ProbesInv PROVE P!TypeOK /\ P!LatestSurvive /\ P!SilenceIsReal
    OBVIOUS
  <1>1. P!TypeOK
    BY DEF ProbesInv, LogTypes, LogKept, P!TypeOK, Places
  <1>2. P!LatestSurvive
    BY DEF ProbesInv, Locked, P!LatestSurvive
  <1> QED
    BY <1>1, <1>2, SilenceHolds

-----------------------------------------------------------------------------
(* The log of asset buys.                                                   *)

BuyRows == [event : {"buy"}, rid : Receipts \cup {"none"}, ts : Nat,
            verdict : {kind.verdict : kind \in BuyKinds}, pre : SUBSET Nat, arrived : Nat]
OutcomeRows == [event : {"outcome"}, rid : Receipts, underwater : SUBSET BOOLEAN,
                holds : SUBSET BOOLEAN, settled : SUBSET BOOLEAN]
LogRows == BuyRows \cup OutcomeRows \cup {B!Junk}

LabelJobs == [pc : {"idle", "check", "record"}, todo : Seq(BuyRows), row : OutcomeRows \cup {B!NoRow}]

BuyTypes ==
    /\ rwaClock \in 0..LastTick /\ rows \in Seq(LogRows) /\ Len(rows) <= MaxLines
    /\ rowTorn \in BOOLEAN /\ mixed \in BOOLEAN /\ balance \in Nat /\ arrivals \in Nat
    /\ jobs \in [Jobs -> LabelJobs]
    /\ \A j \in Jobs : Len(jobs[j].todo) <= MaxLabels /\ (jobs[j].pc # "idle" => jobs[j].todo # <<>>)

\* A receipt is of one buy.
BoughtOnce ==
    \A i, k \in B!Buys(rows) : rows[i].rid \in Receipts /\ rows[i].rid = rows[k].rid => i = k

\* A run has buys of the log in hand, each once.
InHand ==
    \A j \in Jobs :
      /\ \A n \in DOMAIN jobs[j].todo :
           jobs[j].todo[n].rid \in Receipts /\ \E i \in B!Buys(rows) : rows[i] = jobs[j].todo[n]
      /\ \A n, m \in DOMAIN jobs[j].todo : jobs[j].todo[n].rid = jobs[j].todo[m].rid => n = m

LabelsFollow ==
    \A i \in B!Outcomes(rows) : \E k \in B!Buys(rows) : k < i /\ rows[k].rid = rows[i].rid

\* While no two runs have had the same buy in hand, what is in hand is not labelled yet.
RunsApart ==
    ~ mixed =>
      /\ \A j \in Jobs : \A n \in DOMAIN jobs[j].todo : \A i \in B!Outcomes(rows) :
           rows[i].rid # jobs[j].todo[n].rid
      /\ \A j, k \in Jobs : \A n \in DOMAIN jobs[j].todo, m \in DOMAIN jobs[k].todo :
           j # k => jobs[j].todo[n].rid # jobs[k].todo[m].rid
      /\ \A i, k \in B!Outcomes(rows) : rows[i].rid = rows[k].rid => i = k

\* A balance grows by nothing but arrivals.
Balanced ==
    \A i \in B!Buys(rows) : \A n \in rows[i].pre : balance + rows[i].arrived <= arrivals + n

\* The label a run is about to write is of the first buy in its hands.
LabelIsOf ==
    \A j \in Jobs : jobs[j].pc = "record" =>
      /\ jobs[j].row \in OutcomeRows /\ jobs[j].row.rid = jobs[j].todo[1].rid
      /\ jobs[j].row.settled = {TRUE} => arrivals > jobs[j].todo[1].arrived

BuysInv ==
    /\ BuyTypes /\ BoughtOnce /\ InHand /\ LabelsFollow /\ RunsApart
    /\ Balanced /\ LabelIsOf /\ B!SettledIsReal

LEMMA BuyWords ==
    /\ \A s, e : e \in B!Range(s) <=> \E i \in DOMAIN s : s[i] = e
    /\ \A S : B!Cardinality(S) = Cardinality(S)
    /\ \A s, I : B!Subsequence(s, I) = Subsequence(s, I)
    /\ \A s : B!Last(s) = s[Len(s)]
  <1>1. \A s, e : e \in B!Range(s) <=> \E i \in DOMAIN s : s[i] = e
    BY DEF B!Range
  <1>2. \A s, I : B!Subsequence(s, I) = Subsequence(s, I)
    BY DEF B!Subsequence, Subsequence, B!Nth, Nth, B!Cardinality, Cardinality
  <1>3. \A S : B!Cardinality(S) = Cardinality(S)
    BY DEF B!Cardinality, Cardinality
  <1>4. \A s : B!Last(s) = s[Len(s)]
    BY DEF B!Last
  <1> QED
    BY <1>1, <1>2, <1>3, <1>4

\* A row is of one kind.
LEMMA RowKinds ==
    /\ \A r \in BuyRows : r.event = "buy" /\ r # B!Junk
    /\ \A r \in OutcomeRows : r.event = "outcome" /\ r # B!Junk
    /\ B!Junk.event = "junk"
    /\ \A r \in LogRows : (r.event = "buy" <=> r \in BuyRows) /\ (r.event = "outcome" <=> r \in OutcomeRows)
  <1>1. B!Junk.event = "junk"
    BY DEF B!Junk
  <1>2. \A r \in BuyRows : r.event = "buy"
    BY DEF BuyRows
  <1>3. \A r \in OutcomeRows : r.event = "outcome"
    BY DEF OutcomeRows
  <1> QED
    BY <1>1, <1>2, <1>3 DEF LogRows

LEMMA BuysInit == B!Init => BuysInv
  <1> SUFFICES ASSUME B!Init PROVE BuysInv
    OBVIOUS
  <1>1. /\ rwaClock = 0 /\ rows = <<>> /\ rowTorn = FALSE /\ jobs = [j \in Jobs |-> B!Idle]
        /\ balance = 0 /\ arrivals = 0 /\ mixed = FALSE
    BY DEF B!Init
  <1>2. B!Idle \in LabelJobs /\ B!Idle.pc = "idle" /\ B!Idle.todo = <<>>
    BY DEF B!Idle, LabelJobs
  <1>3. BuyTypes
    <2>1. LastTick \in Nat /\ MaxLines \in Nat /\ MaxLabels \in Nat
      BY BuysAssumption
    <2>2. rows \in Seq(LogRows) /\ Len(rows) <= MaxLines
      BY <1>1, <2>1
    <2>3. jobs \in [Jobs -> LabelJobs]
      BY <1>1, <1>2
    <2>4. \A j \in Jobs : Len(jobs[j].todo) <= MaxLabels /\ jobs[j].pc = "idle"
      BY <1>1, <1>2, <2>1
    <2>5. rwaClock \in 0..LastTick
      BY <1>1, <2>1
    <2>6. balance \in Nat /\ arrivals \in Nat /\ rowTorn \in BOOLEAN /\ mixed \in BOOLEAN
      BY <1>1
    <2> QED
      BY <2>2, <2>3, <2>4, <2>5, <2>6 DEF BuyTypes
  <1>4. B!Buys(rows) = {} /\ B!Outcomes(rows) = {} /\ DOMAIN rows = {}
    BY <1>1 DEF B!Buys, B!Outcomes
  <1>5. \A j \in Jobs : jobs[j].pc = "idle" /\ DOMAIN jobs[j].todo = {}
    BY <1>1, <1>2
  <1> QED
    BY <1>3, <1>4, <1>5 DEF BuysInv, BoughtOnce, InHand, LabelsFollow, RunsApart, Balanced, LabelIsOf,
         B!SettledIsReal

\* What an appended row changes.
LEMMA GrownLog ==
    ASSUME BuyTypes, NEW x \in LogRows, rows' = Append(rows, x)
    PROVE  /\ rows' \in Seq(LogRows) /\ Len(rows) \in Nat /\ Len(rows') = Len(rows) + 1
           /\ DOMAIN rows' = DOMAIN rows \cup {Len(rows) + 1} /\ rows'[Len(rows) + 1] = x
           /\ \A i \in DOMAIN rows : i \in Nat /\ i < Len(rows) + 1 /\ rows'[i] = rows[i]
           /\ B!Buys(rows') = B!Buys(rows) \cup (IF x \in BuyRows THEN {Len(rows) + 1} ELSE {})
           /\ B!Outcomes(rows') = B!Outcomes(rows) \cup (IF x \in OutcomeRows THEN {Len(rows) + 1} ELSE {})
  <1>1. rows \in Seq(LogRows)
    BY DEF BuyTypes
  <1> HIDE DEF LogRows
  <1>2. /\ rows' \in Seq(LogRows) /\ Len(rows) \in Nat /\ Len(rows') = Len(rows) + 1
        /\ DOMAIN rows' = DOMAIN rows \cup {Len(rows) + 1} /\ rows'[Len(rows) + 1] = x
        /\ \A i \in DOMAIN rows : i \in Nat /\ i < Len(rows) + 1 /\ rows'[i] = rows[i]
    BY <1>1, AppendPositions
  <1>3. (x.event = "buy" <=> x \in BuyRows) /\ (x.event = "outcome" <=> x \in OutcomeRows)
    BY RowKinds
  <1>4. B!Buys(rows') = B!Buys(rows) \cup (IF x \in BuyRows THEN {Len(rows) + 1} ELSE {})
    BY <1>2, <1>3 DEF B!Buys
  <1>5. B!Outcomes(rows') = B!Outcomes(rows) \cup (IF x \in OutcomeRows THEN {Len(rows) + 1} ELSE {})
    BY <1>2, <1>3 DEF B!Outcomes
  <1> QED
    BY <1>2, <1>4, <1>5

\* record() leaves the log, or adds the row, or the junk that half a line has made of it.
LEMMA RecordAdds ==
    ASSUME BuyTypes, NEW x, NEW written, B!Record(x, written)
    PROVE  rowTorn' \in BOOLEAN /\ (rows' = rows \/ rows' = Append(rows, x) \/ rows' = Append(rows, B!Junk))
  BY DEF B!Record, BuyTypes

LEMMA RowTypes ==
    ASSUME BuyTypes
    PROVE  /\ \A i \in B!Buys(rows) : i \in DOMAIN rows /\ i \in Nat /\ rows[i] \in BuyRows
           /\ \A i \in B!Outcomes(rows) : i \in DOMAIN rows /\ i \in Nat /\ rows[i] \in OutcomeRows
           /\ \A i \in DOMAIN rows : rows[i] \in LogRows
           /\ \A i \in DOMAIN rows : rows[i].event = "buy" <=> i \in B!Buys(rows)
           /\ \A i \in DOMAIN rows : rows[i].event = "outcome" <=> i \in B!Outcomes(rows)
  <1>1. rows \in Seq(LogRows)
    BY DEF BuyTypes
  <1> HIDE DEF LogRows
  <1>2. \A i \in DOMAIN rows : i \in Nat /\ rows[i] \in LogRows
    BY <1>1
  <1> QED
    BY <1>2, RowKinds DEF B!Buys, B!Outcomes

LEMMA JobTypes ==
    ASSUME BuyTypes, NEW j \in Jobs
    PROVE  /\ jobs[j] \in LabelJobs /\ jobs[j].todo \in Seq(BuyRows)
           /\ jobs[j].pc \in {"idle", "check", "record"} /\ jobs[j].row \in OutcomeRows \cup {B!NoRow}
           /\ \A n \in DOMAIN jobs[j].todo : jobs[j].todo[n] \in BuyRows
           /\ jobs[j].todo # <<>> => 1 \in DOMAIN jobs[j].todo
  <1>1. jobs[j] \in LabelJobs
    BY DEF BuyTypes
  <1>2. /\ jobs[j].todo \in Seq(BuyRows) /\ jobs[j].pc \in {"idle", "check", "record"}
        /\ jobs[j].row \in OutcomeRows \cup {B!NoRow}
    BY <1>1 DEF LabelJobs
  <1> DEFINE s == jobs[j].todo
  <1>3. s \in Seq(BuyRows)
    BY <1>2
  <1> HIDE DEF s, BuyRows
  <1>4. \A n \in DOMAIN s : s[n] \in BuyRows
    BY <1>3
  <1>5. s # <<>> => 1 \in DOMAIN s
    BY <1>3
  <1> QED
    BY <1>1, <1>2, <1>4, <1>5 DEF s

\* A row appended that labels nothing in hand and, when it is a buy, has a new receipt.
LEMMA RowAppended ==
    ASSUME BuysInv, NEW x \in LogRows, rows' = Append(rows, x), UNCHANGED <<balance, arrivals>>,
           x \in BuyRows => /\ \A i \in B!Buys(rows) : x.rid \in Receipts => rows[i].rid # x.rid
                            /\ \A n \in x.pre : balance + x.arrived <= arrivals + n,
           x \in OutcomeRows => /\ \E k \in B!Buys(rows) : rows[k].rid = x.rid
                                /\ x.settled = {TRUE} =>
                                     \E k \in B!Buys(rows) : rows[k].rid = x.rid /\ arrivals > rows[k].arrived
    PROVE  BoughtOnce' /\ LabelsFollow' /\ Balanced' /\ B!SettledIsReal'
  <1>1. BuyTypes /\ BoughtOnce /\ LabelsFollow /\ Balanced /\ B!SettledIsReal
    BY DEF BuysInv
  <1> DEFINE last == Len(rows) + 1
  <1>2. /\ DOMAIN rows' = DOMAIN rows \cup {last} /\ rows'[last] = x /\ last \in Nat
        /\ \A i \in DOMAIN rows : i \in Nat /\ i < last /\ rows'[i] = rows[i]
        /\ B!Buys(rows') = B!Buys(rows) \cup (IF x \in BuyRows THEN {last} ELSE {})
        /\ B!Outcomes(rows') = B!Outcomes(rows) \cup (IF x \in OutcomeRows THEN {last} ELSE {})
    BY <1>1, GrownLog
  <1> HIDE DEF last
  <1>3. /\ \A i \in B!Buys(rows) : i \in DOMAIN rows /\ rows[i] \in BuyRows
        /\ \A i \in B!Outcomes(rows) : i \in DOMAIN rows /\ rows[i] \in OutcomeRows
    BY <1>1, RowTypes
  <1>4. \A i \in B!Buys(rows) : i \in B!Buys(rows') /\ rows'[i] = rows[i] /\ i < last
    BY <1>2, <1>3
  <1>5. \A i \in B!Outcomes(rows) : rows'[i] = rows[i]
    BY <1>2, <1>3
  <1>6. BoughtOnce'
    <2> SUFFICES ASSUME NEW i \in B!Buys(rows'), NEW k \in B!Buys(rows'),
                        rows'[i].rid \in Receipts, rows'[i].rid = rows'[k].rid
                 PROVE  i = k
      BY DEF BoughtOnce
    <2>1. CASE i \in B!Buys(rows) /\ k \in B!Buys(rows)
      BY <1>1, <1>4, <2>1 DEF BoughtOnce
    <2>2. CASE i \notin B!Buys(rows) /\ k \notin B!Buys(rows)
      BY <1>2, <2>2
    <2>3. CASE i \notin B!Buys(rows) /\ k \in B!Buys(rows)
      BY <1>2, <1>4, <2>3
    <2>4. CASE i \in B!Buys(rows) /\ k \notin B!Buys(rows)
      BY <1>2, <1>4, <2>4
    <2> QED
      BY <2>1, <2>2, <2>3, <2>4
  <1>7. LabelsFollow'
    <2> SUFFICES ASSUME NEW i \in B!Outcomes(rows') PROVE \E k \in B!Buys(rows') : k < i /\ rows'[k].rid = rows'[i].rid
      BY DEF LabelsFollow
    <2>1. CASE i \in B!Outcomes(rows)
      <3>1. PICK k \in B!Buys(rows) : k < i /\ rows[k].rid = rows[i].rid
        BY <1>1, <2>1 DEF LabelsFollow
      <3> QED
        BY <1>4, <1>5, <2>1, <3>1
    <2>2. CASE i \notin B!Outcomes(rows)
      <3>1. i = last /\ x \in OutcomeRows
        BY <1>2, <2>2
      <3>2. PICK k \in B!Buys(rows) : rows[k].rid = x.rid
        BY <3>1
      <3> QED
        BY <1>2, <1>4, <3>1, <3>2
    <2> QED
      BY <2>1, <2>2
  <1>8. Balanced'
    <2> SUFFICES ASSUME NEW i \in B!Buys(rows'), NEW n \in rows'[i].pre
                 PROVE  balance + rows'[i].arrived <= arrivals + n
      BY DEF Balanced
    <2>1. CASE i \in B!Buys(rows)
      BY <1>1, <1>4, <2>1 DEF Balanced
    <2>2. CASE i \notin B!Buys(rows)
      BY <1>2, <2>2
    <2> QED
      BY <2>1, <2>2
  <1>9. B!SettledIsReal'
    <2> SUFFICES ASSUME NEW i \in DOMAIN rows', rows'[i].event = "outcome", rows'[i].settled = {TRUE}
                 PROVE  \E k \in DOMAIN rows' : /\ rows'[k].event = "buy" /\ rows'[k].rid = rows'[i].rid
                                               /\ arrivals > rows'[k].arrived
      BY DEF B!SettledIsReal
    <2>1. CASE i \in DOMAIN rows
      <3>1. PICK k \in DOMAIN rows : /\ rows[k].event = "buy" /\ rows[k].rid = rows[i].rid
                                     /\ arrivals > rows[k].arrived
        BY <1>1, <1>2, <2>1 DEF B!SettledIsReal
      <3> QED
        BY <1>2, <2>1, <3>1
    <2>2. CASE i = last
      <3>1. x \in OutcomeRows
        BY <1>2, <2>2, RowKinds
      <3>2. PICK k \in B!Buys(rows) : rows[k].rid = x.rid /\ arrivals > rows[k].arrived
        BY <1>2, <2>2, <3>1
      <3>3. k \in DOMAIN rows /\ rows[k].event = "buy"
        BY <1>3, <3>2, RowKinds
      <3> QED
        BY <1>2, <2>2, <3>2, <3>3
    <2> QED
      BY <1>2, <2>1, <2>2
  <1> QED
    BY <1>6, <1>7, <1>8, <1>9

\* The work-list: buys of the log that no label names, each once.
LEMMA PendingBuysAre ==
    ASSUME BuyTypes, BoughtOnce, NEW now
    PROVE  /\ B!PendingBuys(rows, now) \in Seq(BuyRows)
           /\ \A n \in DOMAIN B!PendingBuys(rows, now) : \E i \in B!Buys(rows) :
                /\ B!PendingBuys(rows, now)[n] = rows[i]
                /\ rows[i].rid \in Receipts /\ \A k \in B!Outcomes(rows) : rows[k].rid # rows[i].rid
           /\ \A n, m \in DOMAIN B!PendingBuys(rows, now) :
                B!PendingBuys(rows, now)[n].rid = B!PendingBuys(rows, now)[m].rid => n = m
  <1> DEFINE I == {i \in B!Buys(rows) : /\ rows[i].rid \in Receipts \ B!DoneReceipts(rows)
                                        /\ now - rows[i].ts >= Horizon}
             s == Subsequence(rows, I)
  <1>1. B!PendingBuys(rows, now) = s
    <2>1. B!PendingBuys(rows, now) = B!Subsequence(rows, I)
      BY DEF B!PendingBuys
    <2>2. B!Subsequence(rows, I) = Subsequence(rows, I)
      BY BuyWords
    <2> QED
      BY <2>1, <2>2
  <1>2. /\ \A i \in I : /\ i \in B!Buys(rows) /\ rows[i].rid \in Receipts
                        /\ \A k \in B!Outcomes(rows) : rows[k].rid # rows[i].rid
        /\ rows \in Seq(LogRows) /\ I \in SUBSET (DOMAIN rows)
    BY DEF B!DoneReceipts, BuyTypes, B!Buys
  <1> HIDE DEF I, LogRows, BuyRows
  <1>3. \A i \in I : rows[i] \in BuyRows
    BY <1>2, RowTypes
  <1>4. /\ Len(s) = Cardinality(I) /\ Cardinality(I) \in Nat /\ s \in Seq(LogRows)
        /\ DOMAIN s = 1..Cardinality(I)
        /\ \A k \in 1..Cardinality(I) : s[k] = rows[Nth(I, k)] /\ Nth(I, k) \in I
    <2>1. IsFiniteSet(I)
      BY <1>2, SubsequenceKeeps
    <2>2. Cardinality(I) \in Nat
      BY <2>1, FS_CardinalityType
    <2> QED
      BY <1>2, <2>2, SubsequenceKeeps
  <1>5. \A a, b \in DOMAIN s : \E i, j \in I : s[a] = rows[i] /\ s[b] = rows[j] /\ (i = j => a = b)
    BY <1>2, SubsequenceRange
  <1> HIDE DEF s
  <1>6. s \in Seq(BuyRows)
    <2>1. \A k \in 1..Len(s) : s[k] \in BuyRows
      BY <1>3, <1>4
    <2> QED
      BY <1>4, <2>1
  <1>7. \A n \in DOMAIN s : \E i \in B!Buys(rows) :
           /\ s[n] = rows[i]
           /\ rows[i].rid \in Receipts /\ \A k \in B!Outcomes(rows) : rows[k].rid # rows[i].rid
    BY <1>2, <1>4
  <1>8. ASSUME NEW n \in DOMAIN s, NEW m \in DOMAIN s, s[n].rid = s[m].rid PROVE n = m
    <2>1. PICK i \in I, j \in I : s[n] = rows[i] /\ s[m] = rows[j] /\ (i = j => n = m)
      BY <1>5
    <2>2. i = j
      BY <1>2, <1>8, <2>1 DEF BoughtOnce
    <2> QED
      BY <2>1, <2>2
  <1> QED
    BY <1>1, <1>6, <1>7, <1>8

\* A step that leaves the log and the balance alone and takes nothing new in hand.
LEMMA SameLog ==
    ASSUME BuysInv, UNCHANGED <<rows, balance, arrivals>>
    PROVE  BoughtOnce' /\ LabelsFollow' /\ Balanced' /\ B!SettledIsReal'
  BY DEF BuysInv, BoughtOnce, LabelsFollow, Balanced, B!SettledIsReal

LEMMA StartBuys ==
    ASSUME BuysInv, NEW j \in Jobs, B!StartCapture(j)
    PROVE  BuysInv'
  <1> DEFINE pending == B!PendingBuys(rows, rwaClock)
             n0 == IF Len(pending) < MaxLabels THEN Len(pending) ELSE MaxLabels
             work == SubSeq(pending, 1, n0)
             others == UNION {B!Range(jobs[k].todo) : k \in Jobs \ {j}}
             it == [pc |-> "check", todo |-> work, row |-> B!NoRow]
  <1> HIDE DEF pending, n0, work, others
  <1>1. /\ BuyTypes /\ BoughtOnce /\ InHand /\ LabelsFollow /\ RunsApart /\ LabelIsOf
    BY DEF BuysInv
  <1>2. /\ jobs[j].pc = "idle" /\ work # <<>>
        /\ jobs' = [jobs EXCEPT ![j] = it] /\ mixed' = (mixed \/ B!Range(work) \cap others # {})
        /\ UNCHANGED <<rwaClock, rows, rowTorn, balance, arrivals>>
    <2>1. [B!Idle EXCEPT !.pc = "check", !.todo = work] = it
      <3>1. [B!Idle EXCEPT !.pc = "check"] = [pc |-> "check", todo |-> <<>>, row |-> B!NoRow]
        BY DEF B!Idle
      <3>2. [[pc |-> "check", todo |-> <<>>, row |-> B!NoRow] EXCEPT !.todo = work] = it
        OBVIOUS
      <3> QED
        BY <3>1, <3>2
    <2> HIDE DEF it
    <2>2. /\ jobs[j].pc = "idle" /\ work # <<>>
          /\ jobs' = [jobs EXCEPT ![j] = [B!Idle EXCEPT !.pc = "check", !.todo = work]]
          /\ mixed' = (mixed \/ B!Range(work) \cap others # {})
          /\ UNCHANGED <<rwaClock, rows, rowTorn, balance, arrivals>>
      BY DEF B!StartCapture, work, others, n0, pending
    <2> QED
      BY <2>1, <2>2
  <1>3. /\ pending \in Seq(BuyRows)
        /\ \A n \in DOMAIN pending : \E i \in B!Buys(rows) :
             /\ pending[n] = rows[i]
             /\ rows[i].rid \in Receipts /\ \A k \in B!Outcomes(rows) : rows[k].rid # rows[i].rid
        /\ \A n, m \in DOMAIN pending : pending[n].rid = pending[m].rid => n = m
    BY <1>1, PendingBuysAre DEF pending
  <1> HIDE DEF BuyRows
  <1>4. MaxLabels \in Nat /\ n0 \in Nat /\ n0 <= MaxLabels /\ n0 <= Len(pending) /\ Len(pending) \in Nat
    <2>1. MaxLabels \in Nat /\ Len(pending) \in Nat
      BY <1>3, BuysAssumption
    <2> QED
      BY <2>1 DEF n0
  <1>5. /\ work \in Seq(BuyRows) /\ Len(work) = n0 /\ DOMAIN work = 1..n0
        /\ \A n \in 1..n0 : work[n] = pending[n] /\ n \in DOMAIN pending
    BY <1>3, <1>4 DEF work
  <1>6. /\ it \in LabelJobs /\ it.todo = work /\ it.pc = "check"
    BY <1>5 DEF LabelJobs
  <1> HIDE DEF it
  <1>7. /\ jobs \in [Jobs -> LabelJobs] /\ jobs' \in [Jobs -> LabelJobs] /\ jobs'[j] = it
        /\ \A k \in Jobs \ {j} : jobs'[k] = jobs[k]
    BY <1>1, <1>2, <1>6 DEF BuyTypes
  <1>8. BuyTypes'
    <2>1. mixed' \in BOOLEAN
      BY <1>1, <1>2 DEF BuyTypes
    <2>2. \A k \in Jobs : Len(jobs'[k].todo) <= MaxLabels /\ (jobs'[k].pc # "idle" => jobs'[k].todo # <<>>)
      BY <1>1, <1>2, <1>4, <1>5, <1>6, <1>7 DEF BuyTypes
    <2> QED
      BY <1>1, <1>2, <1>7, <2>1, <2>2 DEF BuyTypes
  <1>9. \A n \in DOMAIN work : \E i \in B!Buys(rows) :
             /\ work[n] = rows[i]
             /\ rows[i].rid \in Receipts /\ \A k \in B!Outcomes(rows) : rows[k].rid # rows[i].rid
    BY <1>3, <1>5
  <1>10. \A n, m \in DOMAIN work : work[n].rid = work[m].rid => n = m
    BY <1>3, <1>5
  <1>11. InHand'
    <2> SUFFICES ASSUME NEW k \in Jobs
                 PROVE  /\ \A n \in DOMAIN jobs'[k].todo :
                             jobs'[k].todo[n].rid \in Receipts /\ \E i \in B!Buys(rows) : rows[i] = jobs'[k].todo[n]
                        /\ \A n, m \in DOMAIN jobs'[k].todo : jobs'[k].todo[n].rid = jobs'[k].todo[m].rid => n = m
      BY <1>2 DEF InHand, B!Buys
    <2>1. CASE k = j
      BY <1>6, <1>7, <1>9, <1>10, <2>1
    <2>2. CASE k # j
      BY <1>1, <1>7, <2>2 DEF InHand
    <2> QED
      BY <2>1, <2>2
  <1>12. LabelIsOf'
    BY <1>1, <1>2, <1>6, <1>7 DEF LabelIsOf
  <1>13. RunsApart'
    <2> SUFFICES ASSUME ~ mixed' PROVE RunsApart'
      BY DEF RunsApart
    <2>1. ~ mixed /\ B!Range(work) \cap others = {}
      BY <1>2
    <2>2. ASSUME NEW k \in Jobs \ {j}, NEW n \in DOMAIN work, NEW m \in DOMAIN jobs[k].todo
          PROVE  work[n].rid # jobs[k].todo[m].rid
      <3>1. PICK i \in B!Buys(rows) : work[n] = rows[i] /\ rows[i].rid \in Receipts
        BY <1>9
      <3>2. PICK a \in B!Buys(rows) : jobs[k].todo[m] = rows[a]
        BY <1>1 DEF InHand
      <3>3. work[n] \in B!Range(work) /\ jobs[k].todo[m] \in B!Range(jobs[k].todo)
        BY BuyWords
      <3>4. jobs[k].todo[m] \in others
        BY <3>3 DEF others
      <3>5. work[n] # jobs[k].todo[m]
        BY <2>1, <3>3, <3>4
      <3> QED
        BY <1>1, <3>1, <3>2, <3>5 DEF BoughtOnce
    <2>3. ASSUME NEW k \in Jobs, NEW n \in DOMAIN jobs'[k].todo, NEW i \in B!Outcomes(rows)
          PROVE  rows[i].rid # jobs'[k].todo[n].rid
      <3>1. CASE k = j
        BY <1>6, <1>7, <1>9, <3>1
      <3>2. CASE k # j
        BY <1>1, <1>7, <2>1, <3>2 DEF RunsApart
      <3> QED
        BY <3>1, <3>2
    <2>4. ASSUME NEW k \in Jobs, NEW q \in Jobs, NEW n \in DOMAIN jobs'[k].todo, NEW m \in DOMAIN jobs'[q].todo, k # q
          PROVE  jobs'[k].todo[n].rid # jobs'[q].todo[m].rid
      <3>1. CASE k # j /\ q # j
        BY <1>1, <1>7, <2>1, <2>4, <3>1 DEF RunsApart
      <3>2. CASE k = j
        BY <1>6, <1>7, <2>2, <2>4, <3>2
      <3>3. CASE q = j
        BY <1>6, <1>7, <2>2, <2>4, <3>3
      <3> QED
        BY <3>1, <3>2, <3>3
    <2>5. \A i, k \in B!Outcomes(rows) : rows[i].rid = rows[k].rid => i = k
      BY <1>1, <2>1 DEF RunsApart
    <2>6. rows' = rows
      BY <1>2
    <2> QED
      BY <2>3, <2>4, <2>5, <2>6 DEF RunsApart, B!Outcomes
  <1>14. BoughtOnce' /\ LabelsFollow' /\ Balanced' /\ B!SettledIsReal'
    BY <1>2, SameLog
  <1> QED
    BY <1>8, <1>11, <1>12, <1>13, <1>14 DEF BuysInv

\* A check: the price and the balance are asked for.
LEMMA CheckBuys ==
    ASSUME BuysInv, NEW j \in Jobs, NEW reading \in Readings, B!Check(j, reading)
    PROVE  BuysInv'
  <1> DEFINE buy == jobs[j].todo[1]
             label == B!Label(buy, reading)
             it == [pc |-> "record", todo |-> jobs[j].todo, row |-> label]
  <1>1. /\ BuyTypes /\ BoughtOnce /\ InHand /\ LabelsFollow /\ RunsApart /\ LabelIsOf /\ Balanced
    BY DEF BuysInv
  <1>2. /\ jobs[j].pc = "check" /\ jobs[j] \in LabelJobs /\ jobs[j].todo \in Seq(BuyRows)
        /\ jobs[j].todo # <<>> /\ 1 \in DOMAIN jobs[j].todo /\ buy \in BuyRows
    <2>1. jobs[j].pc = "check"
      BY DEF B!Check
    <2>2. jobs[j].todo # <<>>
      BY <1>1, <2>1 DEF BuyTypes
    <2> QED
      BY <1>1, <2>1, <2>2, JobTypes
  <1>3. jobs' = [jobs EXCEPT ![j] = it] /\ UNCHANGED <<rwaClock, rows, rowTorn, balance, arrivals, mixed>>
    <2>1. Head(jobs[j].todo) = buy
      BY <1>2
    <2>2. jobs \in [Jobs -> LabelJobs]
      BY <1>1 DEF BuyTypes
    <2>3. jobs' = [[jobs EXCEPT ![j].pc = "record"] EXCEPT ![j].row = B!Label(Head(jobs[j].todo), reading)]
      BY DEF B!Check
    <2> DEFINE mid == [jobs EXCEPT ![j].pc = "record"]
    <2>4. mid[j] = [jobs[j] EXCEPT !.pc = "record"] /\ \A k \in Jobs \ {j} : mid[k] = jobs[k]
      BY <2>2
    <2>5. mid[j] = [pc |-> "record", todo |-> jobs[j].todo, row |-> jobs[j].row]
      BY <1>2, <2>4 DEF LabelJobs
    <2>6. DOMAIN mid = Jobs /\ mid = [k \in Jobs |-> mid[k]]
      BY <2>2
    <2> HIDE DEF mid, label, buy
    <2>7. jobs' = [mid EXCEPT ![j].row = label]
      BY <2>1, <2>3 DEF mid, label
    <2>8. jobs'[j] = it /\ DOMAIN jobs' = Jobs /\ \A k \in Jobs \ {j} : jobs'[k] = jobs[k]
      BY <2>4, <2>5, <2>6, <2>7
    <2>9. jobs' = [k \in Jobs |-> jobs'[k]]
      BY <2>6, <2>7
    <2>10. jobs' = [jobs EXCEPT ![j] = it]
      BY <2>2, <2>8, <2>9
    <2> QED
      BY <2>10 DEF B!Check
  <1>4. /\ buy.rid \in Receipts /\ \A n \in buy.pre : n \in Nat /\ balance + buy.arrived <= arrivals + n
        /\ buy.arrived \in Nat
    <2>1. PICK i \in B!Buys(rows) : rows[i] = buy
      BY <1>1, <1>2 DEF InHand
    <2>2. buy.rid \in Receipts
      BY <1>1, <1>2 DEF InHand
    <2>3. \A n \in buy.pre : balance + buy.arrived <= arrivals + n
      BY <1>1, <2>1 DEF Balanced
    <2>4. buy.pre \in SUBSET Nat /\ buy.arrived \in Nat
      BY <1>2 DEF BuyRows
    <2> QED
      BY <2>2, <2>3, <2>4
  <1>5. /\ label \in OutcomeRows /\ label.rid = buy.rid
        /\ label.settled = {TRUE} => arrivals > buy.arrived
    <2>1. reading.mark \subseteq BOOLEAN
      BY BuysAssumption
    <2>2. B!Maybe(reading.readable, balance > 0) \subseteq BOOLEAN
      <3>1. (balance > 0) \in BOOLEAN
        OBVIOUS
      <3> DEFINE v == balance > 0
      <3> HIDE DEF v
      <3>2. B!Maybe(reading.readable, v) \subseteq BOOLEAN
        BY <3>1 DEF B!Maybe, v
      <3> QED
        BY <3>2 DEF v
    <2> DEFINE known == IF reading.readable THEN buy.pre ELSE {}
               settled == {balance > n : n \in known}
    <2>3. settled \subseteq BOOLEAN
      <3>1. ASSUME NEW n PROVE (balance > n) \in BOOLEAN
        OBVIOUS
      <3> QED
        BY <3>1, Zenon
    <2>4. /\ label.event = "outcome" /\ label.rid = buy.rid /\ label.settled = settled
          /\ label = [event |-> "outcome", rid |-> buy.rid, underwater |-> reading.mark,
                      holds |-> B!Maybe(reading.readable, balance > 0), settled |-> settled]
      BY DEF B!Label
    <2>5. settled = {TRUE} => arrivals > buy.arrived
      <3> SUFFICES ASSUME settled = {TRUE} PROVE arrivals > buy.arrived
        OBVIOUS
      <3>1. PICK n \in known : (balance > n) = TRUE
        <4>1. TRUE \in settled
          OBVIOUS
        <4> QED
          BY <4>1
      <3>2. n \in buy.pre /\ balance > n
        BY <3>1
      <3>3. balance \in Nat /\ arrivals \in Nat
        BY <1>1 DEF BuyTypes
      <3>4. n \in Nat /\ balance + buy.arrived <= arrivals + n /\ buy.arrived \in Nat
        BY <1>4, <3>2
      <3> QED
        BY <3>2, <3>3, <3>4
    <2> HIDE DEF settled, label, buy
    <2>6. label \in OutcomeRows
      BY <1>4, <2>1, <2>2, <2>3, <2>4 DEF OutcomeRows
    <2> QED
      BY <2>4, <2>5, <2>6
  <1> HIDE DEF label, buy
  <1>6. /\ it \in LabelJobs /\ it.todo = jobs[j].todo /\ it.pc = "record" /\ it.row = label
    BY <1>2, <1>5 DEF LabelJobs
  <1> HIDE DEF it
  <1>7. /\ jobs \in [Jobs -> LabelJobs] /\ jobs' \in [Jobs -> LabelJobs] /\ jobs'[j] = it
        /\ \A k \in Jobs \ {j} : jobs'[k] = jobs[k]
    BY <1>1, <1>3, <1>6 DEF BuyTypes
  <1>8. \A k \in Jobs : jobs'[k].todo = jobs[k].todo
    BY <1>6, <1>7
  <1>9. BuyTypes'
    <2>1. \A k \in Jobs : Len(jobs'[k].todo) <= MaxLabels /\ (jobs'[k].pc # "idle" => jobs'[k].todo # <<>>)
      <3> TAKE k \in Jobs
      <3>1. CASE k = j
        BY <1>1, <1>2, <1>8, <3>1 DEF BuyTypes
      <3>2. CASE k # j
        BY <1>1, <1>7, <3>2 DEF BuyTypes
      <3> QED
        BY <3>1, <3>2
    <2> QED
      BY <1>1, <1>3, <1>7, <2>1 DEF BuyTypes
  <1>10. InHand' /\ RunsApart'
    BY <1>1, <1>3, <1>8 DEF InHand, RunsApart, B!Buys, B!Outcomes
  <1>11. LabelIsOf'
    <2> SUFFICES ASSUME NEW k \in Jobs, jobs'[k].pc = "record"
                 PROVE  /\ jobs'[k].row \in OutcomeRows /\ jobs'[k].row.rid = jobs'[k].todo[1].rid
                        /\ jobs'[k].row.settled = {TRUE} => arrivals > jobs'[k].todo[1].arrived
      BY <1>3 DEF LabelIsOf
    <2>1. CASE k = j
      BY <1>5, <1>6, <1>7, <2>1 DEF buy
    <2>2. CASE k # j
      BY <1>1, <1>7, <2>2 DEF LabelIsOf
    <2> QED
      BY <2>1, <2>2
  <1>12. BoughtOnce' /\ LabelsFollow' /\ Balanced' /\ B!SettledIsReal'
    BY <1>3, SameLog
  <1> QED
    BY <1>9, <1>10, <1>11, <1>12 DEF BuysInv

\* What is in hand stays a buy of a log that only grows.
LEMMA StillBuys ==
    ASSUME BuyTypes, NEW x \in LogRows, rows' = rows \/ rows' = Append(rows, x)
    PROVE  /\ \A i \in B!Buys(rows) : i \in B!Buys(rows') /\ rows'[i] = rows[i]
           /\ x \notin OutcomeRows => /\ B!Outcomes(rows') = B!Outcomes(rows)
                                      /\ \A i \in B!Outcomes(rows) : rows'[i] = rows[i]
           /\ rows' \in Seq(LogRows)
  <1>1. \A i \in B!Buys(rows) \cup B!Outcomes(rows) : i \in DOMAIN rows
    BY RowTypes
  <1>2. CASE rows' = rows
    BY <1>2 DEF BuyTypes, B!Buys, B!Outcomes
  <1>3. CASE rows' = Append(rows, x)
    <2>1. /\ \A i \in DOMAIN rows : rows'[i] = rows[i]
          /\ B!Buys(rows') = B!Buys(rows) \cup (IF x \in BuyRows THEN {Len(rows) + 1} ELSE {})
          /\ B!Outcomes(rows') = B!Outcomes(rows) \cup (IF x \in OutcomeRows THEN {Len(rows) + 1} ELSE {})
          /\ rows' \in Seq(LogRows)
      BY <1>3, GrownLog
    <2> QED
      BY <1>1, <2>1
  <1> QED
    BY <1>2, <1>3

LEMMA TailPositions ==
    ASSUME NEW S, NEW s \in Seq(S), s # <<>>, Len(s) # 1
    PROVE  /\ Tail(s) \in Seq(S) /\ Tail(s) # <<>> /\ Len(Tail(s)) + 1 = Len(s) /\ Len(Tail(s)) \in Nat
           /\ \A n \in DOMAIN Tail(s) : n \in Nat /\ n + 1 # 1 /\ n + 1 \in DOMAIN s /\ Tail(s)[n] = s[n + 1]
  <1>1. Len(s) \in Nat /\ Len(s) # 0 /\ DOMAIN s = 1..Len(s)
    OBVIOUS
  <1>2. Tail(s) \in Seq(S) /\ Len(Tail(s)) = Len(s) - 1
    OBVIOUS
  <1>3. Tail(s) # <<>> /\ DOMAIN Tail(s) = 1..(Len(s) - 1)
    <2>1. Len(Tail(s)) # 0
      BY <1>1, <1>2
    <2>2. Len(<<>>) = 0
      OBVIOUS
    <2>3. DOMAIN Tail(s) = 1..Len(Tail(s))
      BY <1>2
    <2> QED
      BY <1>2, <2>1, <2>2, <2>3
  <1>4. \A n \in 1..(Len(s) - 1) : Tail(s)[n] = s[n + 1]
    BY <1>1
  <1> QED
    BY <1>1, <1>2, <1>3, <1>4

LEMMA BuyBuys ==
    ASSUME BuysInv, NEW r \in Receipts \cup {"none"}, NEW kind \in BuyKinds, NEW written,
           B!Buy(r, kind, written)
    PROVE  BuysInv'
  <1> DEFINE x == [event |-> "buy", rid |-> r, ts |-> rwaClock, verdict |-> kind.verdict,
                   pre |-> B!Maybe(kind.snapshot, balance), arrived |-> arrivals]
  <1>1. BuyTypes /\ BoughtOnce /\ InHand /\ LabelsFollow /\ RunsApart /\ LabelIsOf
    BY DEF BuysInv
  <1>2. /\ Len(rows) < MaxLines /\ B!Record(x, written)
        /\ r \in Receipts => \A i \in DOMAIN rows : rows[i] # B!Junk => rows[i].rid # r
        /\ UNCHANGED <<rwaClock, jobs, balance, arrivals, mixed>>
    BY DEF B!Buy
  <1>3. balance \in Nat /\ arrivals \in Nat /\ rwaClock \in Nat /\ LastTick \in Nat /\ MaxLines \in Nat
    BY <1>1, BuysAssumption DEF BuyTypes
  <1>4. x \in BuyRows /\ x.rid = r /\ \A n \in x.pre : balance + x.arrived <= arrivals + n
    <2>1. B!Maybe(kind.snapshot, balance) \subseteq {balance}
      BY DEF B!Maybe
    <2>2. B!Maybe(kind.snapshot, balance) \in SUBSET Nat
      BY <1>3, <2>1
    <2>3. kind.verdict \in {k.verdict : k \in BuyKinds}
      OBVIOUS
    <2>4. x \in BuyRows
      BY <1>3, <2>2, <2>3 DEF BuyRows
    <2>5. \A n \in x.pre : n = balance
      BY <2>1
    <2> QED
      BY <1>3, <2>4, <2>5
  <1> HIDE DEF x
  <1>5. /\ B!Junk \in LogRows /\ x \in LogRows /\ x # B!Junk /\ x \notin OutcomeRows
        /\ B!Junk \notin BuyRows /\ B!Junk \notin OutcomeRows
    BY <1>4, RowKinds DEF LogRows
  <1>6. rowTorn' \in BOOLEAN /\ (rows' = rows \/ rows' = Append(rows, x) \/ rows' = Append(rows, B!Junk))
    BY <1>1, <1>2, RecordAdds
  <1>7. PICK y \in {x, B!Junk} : rows' = rows \/ rows' = Append(rows, y)
    BY <1>6
  <1>8. y \in LogRows /\ y \notin OutcomeRows
    BY <1>5, <1>7
  <1>9. /\ \A i \in B!Buys(rows) : i \in B!Buys(rows') /\ rows'[i] = rows[i]
        /\ B!Outcomes(rows') = B!Outcomes(rows) /\ \A i \in B!Outcomes(rows) : rows'[i] = rows[i]
        /\ rows' \in Seq(LogRows)
    BY <1>1, <1>7, <1>8, StillBuys
  <1>10. BoughtOnce' /\ LabelsFollow' /\ Balanced' /\ B!SettledIsReal'
    <2>1. CASE rows' = rows
      BY <1>2, <2>1, SameLog
    <2>2. CASE rows' = Append(rows, y)
      <3>1. \A i \in B!Buys(rows) : i \in DOMAIN rows /\ rows[i] \in BuyRows
        BY <1>1, RowTypes
      <3>2. y \in BuyRows => y = x
        BY <1>5, <1>7
      <3>3. y \in BuyRows => /\ \A i \in B!Buys(rows) : y.rid \in Receipts => rows[i].rid # y.rid
                             /\ \A n \in y.pre : balance + y.arrived <= arrivals + n
        BY <1>2, <1>4, <3>1, <3>2, RowKinds
      <3> QED
        BY <1>2, <1>8, <2>2, <3>3, RowAppended
    <2> QED
      BY <1>7, <2>1, <2>2
  <1>11. BuyTypes'
    <2>1. Len(rows') <= MaxLines
      <3>1. CASE rows' = rows
        BY <1>1, <3>1 DEF BuyTypes
      <3>2. CASE rows' = Append(rows, y)
        BY <1>1, <1>2, <1>3, <1>8, <3>2, GrownLog
      <3> QED
        BY <1>7, <3>1, <3>2
    <2> QED
      BY <1>1, <1>2, <1>6, <1>9, <2>1 DEF BuyTypes
  <1>12. InHand'
    BY <1>1, <1>2, <1>9 DEF InHand
  <1>13. RunsApart' /\ LabelIsOf'
    <2>1. jobs' = jobs /\ mixed' = mixed /\ arrivals' = arrivals
      BY <1>2
    <2>2. LabelIsOf'
      BY <1>1, <2>1 DEF LabelIsOf
    <2>3. RunsApart'
      <3> SUFFICES ASSUME ~ mixed' PROVE RunsApart'
        BY DEF RunsApart
      <3>1. /\ \A k \in Jobs : \A n \in DOMAIN jobs'[k].todo : \A i \in B!Outcomes(rows') :
                 rows'[i].rid # jobs'[k].todo[n].rid
            /\ \A k, q \in Jobs : \A n \in DOMAIN jobs'[k].todo, m \in DOMAIN jobs'[q].todo :
                 k # q => jobs'[k].todo[n].rid # jobs'[q].todo[m].rid
        BY <1>1, <1>9, <2>1 DEF RunsApart
      <3>2. \A i, k \in B!Outcomes(rows') : rows'[i].rid = rows'[k].rid => i = k
        BY <1>1, <1>9, <2>1 DEF RunsApart
      <3> QED
        BY <3>1, <3>2 DEF RunsApart
    <2> QED
      BY <2>2, <2>3
  <1> QED
    BY <1>10, <1>11, <1>12, <1>13 DEF BuysInv

LEMMA RecordBuys ==
    ASSUME BuysInv, NEW j \in Jobs, NEW written, B!RecordOutcome(j, written)
    PROVE  BuysInv'
  <1> DEFINE label == jobs[j].row
             old == jobs[j].todo
             it == IF Len(old) = 1 THEN B!Idle ELSE [pc |-> "check", todo |-> Tail(old), row |-> B!NoRow]
  <1>1. BuyTypes /\ BoughtOnce /\ InHand /\ LabelsFollow /\ RunsApart /\ LabelIsOf
    BY DEF BuysInv
  <1>2. /\ jobs[j].pc = "record" /\ Len(rows) < MaxLines /\ B!Record(label, written)
        /\ UNCHANGED <<rwaClock, balance, arrivals, mixed>>
        /\ jobs' = [jobs EXCEPT ![j] = IF Len(@.todo) = 1 THEN B!Idle
                                       ELSE [pc |-> "check", todo |-> Tail(@.todo), row |-> B!NoRow]]
    BY DEF B!RecordOutcome
  <1>3. /\ jobs[j] \in LabelJobs /\ old \in Seq(BuyRows) /\ old # <<>> /\ 1 \in DOMAIN old
        /\ Len(old) <= MaxLabels
    <2>1. old # <<>> /\ Len(old) <= MaxLabels
      BY <1>1, <1>2 DEF BuyTypes
    <2> QED
      BY <1>1, <2>1, JobTypes
  <1>4. jobs \in [Jobs -> LabelJobs]
    BY <1>1 DEF BuyTypes
  <1>5. jobs'[j] = it /\ \A k \in Jobs \ {j} : jobs'[k] = jobs[k]
    <2> DEFINE new == IF Len(jobs[j].todo) = 1 THEN B!Idle
                      ELSE [pc |-> "check", todo |-> Tail(jobs[j].todo), row |-> B!NoRow]
    <2>1. jobs' = [jobs EXCEPT ![j] = new]
      BY <1>2
    <2> HIDE DEF new
    <2>2. jobs'[j] = new /\ \A k \in Jobs \ {j} : jobs'[k] = jobs[k]
      BY <1>4, <2>1
    <2> QED
      BY <2>2 DEF new
  <1> HIDE DEF BuyRows, OutcomeRows
  <1>6. /\ it \in LabelJobs /\ it.pc \in {"idle", "check"} /\ Len(it.todo) <= MaxLabels
        /\ it.pc # "idle" => it.todo # <<>>
        /\ \A n \in DOMAIN it.todo : n \in Nat /\ n + 1 # 1 /\ n + 1 \in DOMAIN old /\ it.todo[n] = old[n + 1]
    <2>1. MaxLabels \in Nat
      BY BuysAssumption
    <2>2. CASE Len(old) = 1
      <3>1. it = [pc |-> "idle", todo |-> <<>>, row |-> B!NoRow]
        BY <2>2 DEF B!Idle
      <3> HIDE DEF it
      <3> QED
        BY <2>1, <3>1 DEF LabelJobs
    <2>3. CASE Len(old) # 1
      <3> DEFINE t == Tail(old)
      <3>1. it = [pc |-> "check", todo |-> t, row |-> B!NoRow]
        BY <2>3
      <3>2. /\ t \in Seq(BuyRows) /\ t # <<>> /\ Len(t) <= MaxLabels
            /\ \A n \in DOMAIN t : n \in Nat /\ n + 1 # 1 /\ n + 1 \in DOMAIN old /\ t[n] = old[n + 1]
        BY <1>3, <2>1, <2>3, TailPositions
      <3> HIDE DEF t, it, old
      <3>3. it.todo = t /\ it.pc = "check" /\ it \in LabelJobs
        BY <3>1, <3>2 DEF LabelJobs
      <3> QED
        BY <3>2, <3>3
    <2> QED
      BY <2>2, <2>3
  <1>7. /\ label \in OutcomeRows /\ label.rid = old[1].rid /\ old[1].rid \in Receipts
        /\ label.settled = {TRUE} => arrivals > old[1].arrived
    <2>1. old[1].rid \in Receipts
      BY <1>1, <1>3 DEF InHand
    <2> QED
      BY <1>1, <1>2, <2>1 DEF LabelIsOf
  <1> HIDE DEF it, old, label
  <1>8. /\ B!Junk \in LogRows /\ label \in LogRows /\ label \notin BuyRows
        /\ B!Junk \notin BuyRows /\ B!Junk \notin OutcomeRows
    BY <1>7, RowKinds DEF LogRows
  <1>9. rowTorn' \in BOOLEAN /\ (rows' = rows \/ rows' = Append(rows, label) \/ rows' = Append(rows, B!Junk))
    BY <1>1, <1>2, RecordAdds
  <1>10. PICK y \in {label, B!Junk} : rows' = rows \/ rows' = Append(rows, y)
    BY <1>9
  <1>11. y \in LogRows /\ y \notin BuyRows
    BY <1>8, <1>10
  <1>12. /\ \A i \in B!Buys(rows) : i \in B!Buys(rows') /\ rows'[i] = rows[i]
         /\ rows' \in Seq(LogRows)
    BY <1>1, <1>10, <1>11, StillBuys
  <1>13. PICK first \in B!Buys(rows) : rows[first] = old[1]
    BY <1>1, <1>3 DEF InHand, old
  <1>14. BoughtOnce' /\ LabelsFollow' /\ Balanced' /\ B!SettledIsReal'
    <2>1. CASE rows' = rows
      BY <1>2, <2>1, SameLog
    <2>2. CASE rows' = Append(rows, y)
      <3>1. y \in OutcomeRows => y = label
        BY <1>8, <1>10
      <3>2. y \in OutcomeRows => /\ \E k \in B!Buys(rows) : rows[k].rid = y.rid
                                 /\ y.settled = {TRUE} =>
                                      \E k \in B!Buys(rows) : rows[k].rid = y.rid /\ arrivals > rows[k].arrived
        BY <1>7, <1>13, <3>1
      <3> QED
        BY <1>2, <1>11, <2>2, <3>2, RowAppended
    <2> QED
      BY <1>10, <2>1, <2>2
  <1>15. BuyTypes'
    <2>1. Len(rows') <= MaxLines
      <3>1. CASE rows' = rows
        BY <1>1, <3>1 DEF BuyTypes
      <3>2. CASE rows' = Append(rows, y)
        <4>1. MaxLines \in Nat
          BY BuysAssumption
        <4> QED
          BY <1>1, <1>2, <1>11, <3>2, <4>1, GrownLog
      <3> QED
        BY <1>10, <3>1, <3>2
    <2>2. jobs' \in [Jobs -> LabelJobs]
      <3>1. DOMAIN jobs' = Jobs /\ jobs' = [k \in Jobs |-> jobs'[k]]
        BY <1>2, <1>4
      <3>2. \A k \in Jobs : jobs'[k] \in LabelJobs
        BY <1>4, <1>5, <1>6
      <3> QED
        BY <3>1, <3>2
    <2>3. \A k \in Jobs : Len(jobs'[k].todo) <= MaxLabels /\ (jobs'[k].pc # "idle" => jobs'[k].todo # <<>>)
      BY <1>1, <1>5, <1>6 DEF BuyTypes
    <2> QED
      BY <1>1, <1>2, <1>9, <1>12, <2>1, <2>2, <2>3 DEF BuyTypes
  <1>16. ASSUME NEW k \in Jobs, NEW n \in DOMAIN jobs'[k].todo
         PROVE  \E m \in DOMAIN jobs[k].todo : jobs'[k].todo[n] = jobs[k].todo[m] /\ (k = j => m # 1 /\ m = n + 1)
                                              /\ (k # j => m = n)
    <2>1. CASE k = j
      BY <1>5, <1>6, <2>1 DEF old
    <2>2. CASE k # j
      BY <1>5, <2>2
    <2> QED
      BY <2>1, <2>2
  <1>17. InHand'
    <2> SUFFICES ASSUME NEW k \in Jobs
                 PROVE  /\ \A n \in DOMAIN jobs'[k].todo :
                             /\ jobs'[k].todo[n].rid \in Receipts
                             /\ \E i \in B!Buys(rows') : rows'[i] = jobs'[k].todo[n]
                        /\ \A n, m \in DOMAIN jobs'[k].todo : jobs'[k].todo[n].rid = jobs'[k].todo[m].rid => n = m
      BY DEF InHand
    <2>1. ASSUME NEW n \in DOMAIN jobs'[k].todo
          PROVE  jobs'[k].todo[n].rid \in Receipts /\ \E i \in B!Buys(rows') : rows'[i] = jobs'[k].todo[n]
      <3>1. PICK m \in DOMAIN jobs[k].todo : jobs'[k].todo[n] = jobs[k].todo[m]
        BY <1>16
      <3>2. jobs[k].todo[m].rid \in Receipts /\ \E i \in B!Buys(rows) : rows[i] = jobs[k].todo[m]
        BY <1>1 DEF InHand
      <3> QED
        BY <1>12, <3>1, <3>2
    <2>2. ASSUME NEW n \in DOMAIN jobs'[k].todo, NEW m \in DOMAIN jobs'[k].todo,
                 jobs'[k].todo[n].rid = jobs'[k].todo[m].rid
          PROVE  n = m
      <3>1. CASE k = j
        <4>1. /\ n \in Nat /\ m \in Nat /\ n + 1 \in DOMAIN jobs[j].todo /\ m + 1 \in DOMAIN jobs[j].todo
              /\ jobs[j].todo[n + 1].rid = jobs[j].todo[m + 1].rid
          BY <1>5, <1>6, <2>2, <3>1 DEF old
        <4>2. n + 1 = m + 1
          BY <1>1, <4>1 DEF InHand
        <4> QED
          BY <4>1, <4>2
      <3>2. CASE k # j
        BY <1>1, <1>5, <2>2, <3>2 DEF InHand
      <3> QED
        BY <3>1, <3>2
    <2> QED
      BY <2>1, <2>2
  <1>18. LabelIsOf'
    <2> SUFFICES ASSUME NEW k \in Jobs, jobs'[k].pc = "record"
                 PROVE  /\ jobs'[k].row \in OutcomeRows /\ jobs'[k].row.rid = jobs'[k].todo[1].rid
                        /\ jobs'[k].row.settled = {TRUE} => arrivals > jobs'[k].todo[1].arrived
      BY <1>2 DEF LabelIsOf
    <2>1. k # j
      BY <1>5, <1>6
    <2> QED
      BY <1>1, <1>5, <2>1 DEF LabelIsOf
  <1>19. RunsApart'
    <2> SUFFICES ASSUME ~ mixed' PROVE RunsApart'
      BY DEF RunsApart
    <2>1. ~ mixed
      BY <1>2
    <2>2. /\ \A k \in Jobs : \A n \in DOMAIN jobs[k].todo : \A i \in B!Outcomes(rows) :
               rows[i].rid # jobs[k].todo[n].rid
          /\ \A k, q \in Jobs : \A n \in DOMAIN jobs[k].todo, m \in DOMAIN jobs[q].todo :
               k # q => jobs[k].todo[n].rid # jobs[q].todo[m].rid
          /\ \A i, k \in B!Outcomes(rows) : rows[i].rid = rows[k].rid => i = k
      BY <1>1, <2>1 DEF RunsApart
    \* What is left in hand is not what is being labelled.
    <2>3. ASSUME NEW k \in Jobs, NEW n \in DOMAIN jobs'[k].todo PROVE jobs'[k].todo[n].rid # label.rid
      <3>1. PICK m \in DOMAIN jobs[k].todo : jobs'[k].todo[n] = jobs[k].todo[m] /\ (k = j => m # 1)
        BY <1>16
      <3>2. CASE k = j
        BY <1>1, <1>3, <1>7, <3>1, <3>2 DEF InHand, old
      <3>3. CASE k # j
        BY <1>3, <1>7, <2>2, <3>1, <3>3 DEF old
      <3> QED
        BY <3>2, <3>3
    <2>4. \A i \in B!Outcomes(rows) : rows[i].rid # label.rid
      BY <1>3, <1>7, <2>2 DEF old
    <2>5. \A i \in B!Outcomes(rows') :
            \/ i \in B!Outcomes(rows) /\ rows'[i] = rows[i]
            \/ i = Len(rows) + 1 /\ rows'[i] = label
      <3>1. CASE rows' = rows
        BY <3>1
      <3>2. CASE rows' = Append(rows, y)
        <4>1. /\ B!Outcomes(rows') = B!Outcomes(rows) \cup (IF y \in OutcomeRows THEN {Len(rows) + 1} ELSE {})
              /\ rows'[Len(rows) + 1] = y /\ \A i \in DOMAIN rows : rows'[i] = rows[i]
          BY <1>1, <1>11, <3>2, GrownLog
        <4>2. \A i \in B!Outcomes(rows) : i \in DOMAIN rows
          BY <1>1, RowTypes
        <4> QED
          BY <1>8, <1>10, <4>1, <4>2
      <3> QED
        BY <1>10, <3>1, <3>2
    <2>6. ASSUME NEW k \in Jobs, NEW n \in DOMAIN jobs'[k].todo, NEW i \in B!Outcomes(rows')
          PROVE  rows'[i].rid # jobs'[k].todo[n].rid
      <3>1. PICK m \in DOMAIN jobs[k].todo : jobs'[k].todo[n] = jobs[k].todo[m]
        BY <1>16
      <3> QED
        BY <2>2, <2>3, <2>5, <3>1
    <2>7. ASSUME NEW k \in Jobs, NEW q \in Jobs, NEW n \in DOMAIN jobs'[k].todo, NEW m \in DOMAIN jobs'[q].todo, k # q
          PROVE  jobs'[k].todo[n].rid # jobs'[q].todo[m].rid
      <3>1. PICK n0 \in DOMAIN jobs[k].todo : jobs'[k].todo[n] = jobs[k].todo[n0]
        BY <1>16
      <3>2. PICK m0 \in DOMAIN jobs[q].todo : jobs'[q].todo[m] = jobs[q].todo[m0]
        BY <1>16
      <3> QED
        BY <2>2, <2>7, <3>1, <3>2
    <2>8. ASSUME NEW i \in B!Outcomes(rows'), NEW k \in B!Outcomes(rows'), rows'[i].rid = rows'[k].rid PROVE i = k
      BY <2>2, <2>4, <2>5, <2>8
    <2> QED
      BY <2>6, <2>7, <2>8 DEF RunsApart
  <1> QED
    BY <1>14, <1>15, <1>17, <1>18, <1>19 DEF BuysInv

\* A transfer to the buyer, a sale, the clock.
LEMMA WorldBuys ==
    ASSUME BuysInv, B!Arrives \/ B!Sells \/ B!Tick
    PROVE  BuysInv'
  <1>1. /\ BuyTypes /\ BoughtOnce /\ InHand /\ LabelsFollow /\ RunsApart /\ LabelIsOf
        /\ Balanced /\ B!SettledIsReal
    BY DEF BuysInv
  <1>2. /\ UNCHANGED <<rows, rowTorn, jobs, mixed>> /\ arrivals' >= arrivals /\ balance' \in Nat /\ arrivals' \in Nat
        /\ balance' - arrivals' <= balance - arrivals /\ rwaClock' \in 0..LastTick
    <2>1. balance \in Nat /\ arrivals \in Nat /\ rwaClock \in 0..LastTick /\ LastTick \in Nat
      BY <1>1, BuysAssumption DEF BuyTypes
    <2>2. CASE B!Arrives
      BY <2>1, <2>2 DEF B!Arrives
    <2>3. CASE B!Sells
      BY <2>1, <2>3 DEF B!Sells
    <2>4. CASE B!Tick
      BY <2>1, <2>4 DEF B!Tick
    <2> QED
      BY <2>2, <2>3, <2>4
  <1>3. balance \in Nat /\ arrivals \in Nat
    BY <1>1 DEF BuyTypes
  <1>4. BuyTypes'
    BY <1>1, <1>2 DEF BuyTypes
  <1>5. BoughtOnce' /\ InHand' /\ LabelsFollow' /\ RunsApart'
    BY <1>1, <1>2 DEF BoughtOnce, InHand, LabelsFollow, RunsApart, B!Buys, B!Outcomes
  <1>6. \A i \in B!Buys(rows) : rows[i].arrived \in Nat /\ rows[i].pre \subseteq Nat
    BY <1>1, RowTypes DEF BuyRows
  <1>7. Balanced'
    <2> SUFFICES ASSUME NEW i \in B!Buys(rows), NEW n \in rows[i].pre
                 PROVE  balance' + rows[i].arrived <= arrivals' + n
      BY <1>2 DEF Balanced, B!Buys
    <2>1. balance + rows[i].arrived <= arrivals + n
      BY <1>1 DEF Balanced
    <2>2. rows[i].arrived \in Nat /\ n \in Nat
      BY <1>6
    <2> QED
      BY <1>2, <1>3, <2>1, <2>2
  <1>8. B!SettledIsReal'
    <2> SUFFICES ASSUME NEW i \in DOMAIN rows, rows[i].event = "outcome", rows[i].settled = {TRUE}
                 PROVE  \E k \in DOMAIN rows : /\ rows[k].event = "buy" /\ rows[k].rid = rows[i].rid
                                               /\ arrivals' > rows[k].arrived
      BY <1>2 DEF B!SettledIsReal
    <2>1. PICK k \in DOMAIN rows : /\ rows[k].event = "buy" /\ rows[k].rid = rows[i].rid
                                   /\ arrivals > rows[k].arrived
      BY <1>1 DEF B!SettledIsReal
    <2>2. rows[k].arrived \in Nat
      BY <1>1, <1>6, <2>1, RowTypes
    <2> QED
      BY <1>2, <1>3, <2>1, <2>2
  <1>9. LabelIsOf'
    <2> SUFFICES ASSUME NEW j \in Jobs, jobs[j].pc = "record"
                 PROVE  /\ jobs[j].row \in OutcomeRows /\ jobs[j].row.rid = jobs[j].todo[1].rid
                        /\ jobs[j].row.settled = {TRUE} => arrivals' > jobs[j].todo[1].arrived
      BY <1>2 DEF LabelIsOf
    <2>1. jobs[j].todo[1] \in BuyRows
      BY <1>1, JobTypes DEF BuyTypes
    <2>2. jobs[j].todo[1].arrived \in Nat
      BY <2>1 DEF BuyRows
    <2>3. /\ jobs[j].row \in OutcomeRows /\ jobs[j].row.rid = jobs[j].todo[1].rid
          /\ jobs[j].row.settled = {TRUE} => arrivals > jobs[j].todo[1].arrived
      BY <1>1 DEF LabelIsOf
    <2> DEFINE n == jobs[j].todo[1].arrived
    <2>4. arrivals > n => arrivals' > n
      <3>1. n \in Nat
        BY <2>2
      <3> HIDE DEF n
      <3> QED
        BY <1>2, <1>3, <3>1
    <2> HIDE DEF n
    <2> QED
      BY <2>3, <2>4, Zenon DEF n
  <1> QED
    BY <1>4, <1>5, <1>7, <1>8, <1>9 DEF BuysInv

LEMMA BuysStep == BuysInv /\ B!Next => BuysInv'
  <1> SUFFICES ASSUME BuysInv, B!Next PROVE BuysInv'
    OBVIOUS
  <1>1. ASSUME NEW r \in Receipts \cup {"none"}, NEW kind \in BuyKinds, NEW w \in B!Writes, B!Buy(r, kind, w)
        PROVE  BuysInv'
    BY <1>1, BuyBuys
  <1>2. ASSUME NEW j \in Jobs, B!StartCapture(j) PROVE BuysInv'
    BY <1>2, StartBuys
  <1>3. ASSUME NEW j \in Jobs, NEW reading \in Readings, B!Check(j, reading) PROVE BuysInv'
    BY <1>3, CheckBuys
  <1>4. ASSUME NEW j \in Jobs, NEW w \in B!Writes, B!RecordOutcome(j, w) PROVE BuysInv'
    BY <1>4, RecordBuys
  <1>5. CASE B!Arrives \/ B!Sells \/ B!Tick
    BY <1>5, WorldBuys
  <1> QED
    BY <1>1, <1>2, <1>3, <1>4, <1>5 DEF B!Next

LEMMA BuysSame == BuysInv /\ UNCHANGED rwaVars => BuysInv'
  <1> SUFFICES ASSUME BuysInv, UNCHANGED rwaVars PROVE BuysInv'
    OBVIOUS
  <1>1. UNCHANGED <<rwaClock, rows, rowTorn, jobs, balance, arrivals, mixed>>
    BY DEF rwaVars
  <1>2. BoughtOnce' /\ LabelsFollow' /\ Balanced' /\ B!SettledIsReal'
    BY <1>1, SameLog
  <1>3. BuyTypes /\ InHand /\ RunsApart /\ LabelIsOf
    BY DEF BuysInv
  <1>4. BuyTypes' /\ InHand' /\ RunsApart' /\ LabelIsOf'
    <2>1. BuyTypes'
      BY <1>1, <1>3 DEF BuyTypes
    <2>2. InHand' /\ RunsApart'
      BY <1>1, <1>3 DEF InHand, RunsApart, B!Buys, B!Outcomes
    <2>3. LabelIsOf'
      BY <1>1, <1>3 DEF LabelIsOf
    <2> QED
      BY <2>1, <2>2, <2>3
  <1> QED
    BY <1>2, <1>4 DEF BuysInv

LEMMA BuysSound == BuysInv => B!TypeOK /\ B!LabelledOnce /\ B!SettledIsReal
  <1> SUFFICES ASSUME BuysInv PROVE B!TypeOK /\ B!LabelledOnce /\ B!SettledIsReal
    OBVIOUS
  <1>1. BuyTypes /\ LabelsFollow /\ RunsApart /\ B!SettledIsReal
    BY DEF BuysInv
  <1>2. B!TypeOK
    <2>1. \A j \in Jobs : jobs[j].pc \in {"idle", "check", "record"} /\ Len(jobs[j].todo) <= MaxLabels
      BY <1>1, JobTypes DEF BuyTypes
    <2> QED
      BY <1>1, <2>1 DEF B!TypeOK, BuyTypes
  <1>3. ASSUME NEW i \in DOMAIN rows, rows[i].event = "outcome"
        PROVE  /\ \E k \in 1..(i - 1) : rows[k].event = "buy" /\ rows[k].rid = rows[i].rid
               /\ ~ mixed => \A k \in DOMAIN rows :
                                rows[k].event = "outcome" /\ rows[k].rid = rows[i].rid => k = i
    <2>1. i \in B!Outcomes(rows) /\ i \in Nat
      BY <1>1, <1>3, RowTypes
    <2>2. PICK k \in B!Buys(rows) : k < i /\ rows[k].rid = rows[i].rid
      BY <1>1, <2>1 DEF LabelsFollow
    <2>3. k \in Nat /\ k \in DOMAIN rows /\ rows[k].event = "buy"
      BY <1>1, RowTypes
    <2>4. rows \in Seq(LogRows)
      BY <1>1 DEF BuyTypes
    <2>5. k \in 1..(i - 1)
      BY <2>1, <2>2, <2>3, <2>4
    <2>6. ~ mixed => \A m \in DOMAIN rows : rows[m].event = "outcome" /\ rows[m].rid = rows[i].rid => m = i
      BY <1>1, <2>1, RowTypes DEF RunsApart
    <2> QED
      BY <2>2, <2>3, <2>5, <2>6
  <1> QED
    BY <1>1, <1>2, <1>3 DEF B!LabelledOnce

-----------------------------------------------------------------------------
(* An issuer's grade.                                                       *)

Labels(r) == {i \in B!Outcomes(r) : B!SettlementLabel(r[i]) # {}}
Marks(r) == {i \in B!Outcomes(r) : r[i].underwater # {}}
Ungraded(r) == Cardinality(B!Outcomes(r)) < MinOutcomes \/ Cardinality(Labels(r)) + Cardinality(Marks(r)) = 0

LEMMA UngradedIs == ASSUME NEW r PROVE B!IssuerTrust(r) = "insufficient" <=> Ungraded(r)
  <1>1. B!Cardinality(B!Outcomes(r)) = Cardinality(B!Outcomes(r)) /\ B!Cardinality(Labels(r)) = Cardinality(Labels(r))
        /\ B!Cardinality(Marks(r)) = Cardinality(Marks(r))
    BY BuyWords
  <1>2. B!IssuerTrust(r) = "insufficient" <=>
          (B!Cardinality(B!Outcomes(r)) < MinOutcomes \/ B!Cardinality(Labels(r)) + B!Cardinality(Marks(r)) = 0)
    BY DEF B!IssuerTrust, Labels, Marks
  <1> QED
    BY <1>1, <1>2 DEF Ungraded

\* A record call leaves the log or appends one row.
LEMMA LogGrows ==
    ASSUME BuyTypes, BuyTypes', NEW x, NEW written, B!Record(x, written), rows' # rows
    PROVE  \E y \in LogRows : rows' = Append(rows, y)
  <1>1. PICK y : rows' = Append(rows, y)
    BY RecordAdds
  <1>2. rows \in Seq(LogRows) /\ rows' \in Seq(LogRows)
    BY DEF BuyTypes
  <1> HIDE DEF LogRows
  <1>3. rows'[Len(rows) + 1] = y /\ Len(rows) + 1 \in DOMAIN rows'
    BY <1>1, <1>2
  <1>4. y \in LogRows
    BY <1>2, <1>3
  <1> QED
    BY <1>1, <1>4

LEMMA GradeStays ==
    ASSUME BuyTypes, NEW y \in LogRows, rows' = Append(rows, y)
    PROVE  B!GradeNeedsOutcome
  <1>1. /\ DOMAIN rows' = DOMAIN rows \cup {Len(rows) + 1} /\ rows'[Len(rows) + 1] = y
        /\ Len(rows') = Len(rows) + 1
        /\ \A i \in DOMAIN rows : rows'[i] = rows[i]
        /\ B!Outcomes(rows') = B!Outcomes(rows) \cup (IF y \in OutcomeRows THEN {Len(rows) + 1} ELSE {})
        /\ rows' \in Seq(LogRows)
    BY GrownLog
  <1>2. \A i \in B!Outcomes(rows) : i \in DOMAIN rows /\ rows'[i] = rows[i]
    BY <1>1, RowTypes
  <1>3. B!Last(rows') = y
    BY <1>1, BuyWords
  <1>4. CASE y \notin OutcomeRows
    <2>1. B!Outcomes(rows') = B!Outcomes(rows)
      BY <1>1, <1>4
    <2>2. Labels(rows') = Labels(rows) /\ Marks(rows') = Marks(rows)
      BY <1>2, <2>1 DEF Labels, Marks
    <2>3. Ungraded(rows') <=> Ungraded(rows)
      BY <2>1, <2>2 DEF Ungraded
    <2>4. B!IssuerTrust(rows) = "insufficient" <=> B!IssuerTrust(rows') = "insufficient"
      BY <2>3, UngradedIs
    <2> QED
      BY <2>4 DEF B!GradeNeedsOutcome
  <1>5. CASE y \in OutcomeRows
    <2>1. B!Last(rows').event = "outcome"
      BY <1>3, <1>5, RowKinds
    <2>2. B!Outcomes(rows) \subseteq B!Outcomes(rows') /\ Labels(rows) \subseteq Labels(rows') /\ Marks(rows) \subseteq Marks(rows')
      BY <1>1, <1>2 DEF Labels, Marks
    <2>3. IsFiniteSet(B!Outcomes(rows'))
      <3>1. IsFiniteSet(DOMAIN rows')
        BY <1>1, PositionsAreFinite
      <3>2. B!Outcomes(rows') \subseteq DOMAIN rows'
        BY DEF B!Outcomes
      <3> QED
        BY <3>1, <3>2, FS_Subset
    <2>4. IsFiniteSet(Labels(rows')) /\ IsFiniteSet(Marks(rows'))
      <3>1. Labels(rows') \subseteq B!Outcomes(rows') /\ Marks(rows') \subseteq B!Outcomes(rows')
        BY DEF Labels, Marks
      <3> QED
        BY <2>3, <3>1, FS_Subset
    <2>5. /\ Cardinality(B!Outcomes(rows)) <= Cardinality(B!Outcomes(rows'))
          /\ Cardinality(B!Outcomes(rows)) \in Nat /\ Cardinality(B!Outcomes(rows')) \in Nat
      BY <2>2, <2>3, FS_Subset, FS_CardinalityType
    <2>6. /\ Cardinality(Labels(rows)) <= Cardinality(Labels(rows'))
          /\ Cardinality(Labels(rows)) \in Nat /\ Cardinality(Labels(rows')) \in Nat
      BY <2>2, <2>4, FS_Subset, FS_CardinalityType
    <2>7. /\ Cardinality(Marks(rows)) <= Cardinality(Marks(rows'))
          /\ Cardinality(Marks(rows)) \in Nat /\ Cardinality(Marks(rows')) \in Nat
      BY <2>2, <2>4, FS_Subset, FS_CardinalityType
    <2>8. MinOutcomes \in Nat
      BY BuysAssumption
    <2>9. Ungraded(rows') => Ungraded(rows)
      BY <2>5, <2>6, <2>7, <2>8 DEF Ungraded
    <2>10. B!IssuerTrust(rows') = "insufficient" => B!IssuerTrust(rows) = "insufficient"
      BY <2>9, UngradedIs
    <2> QED
      BY <2>1, <2>10 DEF B!GradeNeedsOutcome
  <1> QED
    BY <1>4, <1>5

LEMMA GradeIsKept == BuysInv /\ B!Next => B!GradeNeedsOutcome
  <1> SUFFICES ASSUME BuysInv, B!Next PROVE B!GradeNeedsOutcome
    OBVIOUS
  <1>1. BuysInv'
    BY BuysStep
  <1>2. BuyTypes /\ BuyTypes'
    BY <1>1 DEF BuysInv
  <1>3. CASE rows' = rows
    BY <1>3 DEF B!GradeNeedsOutcome
  <1>4. CASE rows' # rows
    <2>1. \E x, w : B!Record(x, w)
      <3>1. ASSUME NEW r \in Receipts \cup {"none"}, NEW kind \in BuyKinds, NEW w \in B!Writes, B!Buy(r, kind, w)
            PROVE  \E x, v : B!Record(x, v)
        BY <3>1 DEF B!Buy
      <3>2. ASSUME NEW j \in Jobs, NEW w \in B!Writes, B!RecordOutcome(j, w) PROVE \E x, v : B!Record(x, v)
        BY <3>2 DEF B!RecordOutcome
      <3>3. ASSUME NEW j \in Jobs, B!StartCapture(j) PROVE FALSE
        BY <1>4, <3>3 DEF B!StartCapture
      <3>4. ASSUME NEW j \in Jobs, NEW reading \in Readings, B!Check(j, reading) PROVE FALSE
        BY <1>4, <3>4 DEF B!Check
      <3>5. ~ (B!Arrives \/ B!Sells \/ B!Tick)
        BY <1>4 DEF B!Arrives, B!Sells, B!Tick
      <3> QED
        BY <3>1, <3>2, <3>3, <3>4, <3>5 DEF B!Next
    <2>2. \E y \in LogRows : rows' = Append(rows, y)
      BY <1>2, <1>4, <2>1, LogGrows
    <2> QED
      BY <1>2, <2>2, GradeStays
  <1> QED
    BY <1>3, <1>4

-----------------------------------------------------------------------------
(* The files together.                                                       *)

CorpusInv ==
    /\ part \in {"seed", "directory", "probes", "buys"}
    /\ SeedInv /\ DirectoryInv /\ ProbesInv /\ BuysInv

LEMMA CorpusBegin == CorpusInit => CorpusInv
  BY SeedInit, DirectoryInit, ProbesInit, BuysInit DEF CorpusInit, CorpusInv

LEMMA CorpusStep == CorpusInv /\ [CorpusNext]_corpusVars => CorpusInv'
  <1> SUFFICES ASSUME CorpusInv, [CorpusNext]_corpusVars PROVE CorpusInv'
    OBVIOUS
  <1>1. /\ part \in {"seed", "directory", "probes", "buys"}
        /\ SeedInv /\ DirectoryInv /\ ProbesInv /\ BuysInv
    BY DEF CorpusInv
  <1>2. UNCHANGED part
    BY DEF CorpusNext, corpusVars
  <1>3. /\ RefreshNext \/ UNCHANGED allVars
        /\ D!Next \/ UNCHANGED directoryVars
        /\ P!Next \/ UNCHANGED probeVars
        /\ B!Next \/ UNCHANGED rwaVars
    BY DEF CorpusNext, corpusVars
  <1>4. SeedInv'
    BY <1>1, <1>3, SeedStep, SeedSame
  <1>5. DirectoryInv'
    BY <1>1, <1>3, DirectoryStep, DirectorySame
  <1>6. ProbesInv'
    BY <1>1, <1>3, ProbesStep, ProbesSame
  <1>7. BuysInv'
    BY <1>1, <1>3, BuysStep, BuysSame
  <1> QED
    BY <1>1, <1>2, <1>4, <1>5, <1>6, <1>7 DEF CorpusInv

LEMMA CorpusAlways == CorpusSpec => []CorpusInv
  <1>1. CorpusInit => CorpusInv
    BY CorpusBegin
  <1>2. CorpusInv /\ [CorpusNext]_corpusVars => CorpusInv'
    BY CorpusStep
  <1> QED
    BY <1>1, <1>2, PTL DEF CorpusSpec

\* Each file and the job that works on it keep to their types (the state refresh_seed.sh,
\* refresh_directory.sh, reachability_ledger.py and rwa_outcomes.py hold).
THEOREM CorpusTypes == CorpusSpec => []CorpusTypeOK
  <1>1. CorpusInv => CorpusTypeOK
    <2> SUFFICES ASSUME CorpusInv PROVE CorpusTypeOK
      OBVIOUS
    <2>1. StoreTypeOK /\ RefreshTypeOK /\ D!TypeOK /\ P!TypeOK /\ B!TypeOK
      BY SeedSound, DirectorySound, ProbesSound, BuysSound DEF CorpusInv
    <2>2. part \in {"seed", "directory", "probes", "buys"}
      BY DEF CorpusInv
    <2> QED
      BY <2>1, <2>2 DEF CorpusTypeOK
  <1> QED
    BY <1>1, CorpusAlways, PTL

\* What is shipped is what its record says, for any payees, transfers, listings, writers and
\* runs: a promoted corpus adds to the old one and is current for three payees in four, a
\* dated directory carries its own date and gates only on current listings, the probe log
\* keeps each host's latest events and calls none silent for what was dropped, and an
\* outcome labels the buy it names, once, and says settled only of what came after.
THEOREM CorpusIsSound == CorpusSpec => []CorpusSound
  <1>1. CorpusInv => CorpusSound
    BY SeedSound, DirectorySound, ProbesSound, BuysSound DEF CorpusInv, CorpusSound
  <1> QED
    BY <1>1, CorpusAlways, PTL

\* No job takes away what an earlier one shipped, however the jobs before it ended: no
\* settlement, no more of the directory's hosts than the guard's margin, no probe that
\* was to be kept, and no issuer's grade.
THEOREM NothingIsTakenAway == CorpusSpec => NothingTakenAway
  <1> DEFINE kept == /\ part = "seed"      => MergeNeverLoses
                     /\ part = "directory" => D!CoverageKept
                     /\ part = "probes"    => P!LossNeedsARewrite
                     /\ part = "buys"      => B!GradeNeedsOutcome
             seen == <<allVars, directoryVars, probeVars, rwaVars>>
  <1>1. CorpusInv /\ [CorpusNext]_corpusVars => [kept]_seen
    <2> SUFFICES ASSUME CorpusInv, [CorpusNext]_corpusVars PROVE [kept]_seen
      OBVIOUS
    <2>1. CASE UNCHANGED corpusVars
      BY <2>1 DEF corpusVars
    <2>2. CASE CorpusNext
      <3>1. SeedInv /\ DirectoryInv /\ ProbesInv /\ BuysInv
        BY DEF CorpusInv
      <3>2. /\ part = "seed" => RefreshNext
            /\ part = "directory" => D!Next
            /\ part = "probes" => P!Next
            /\ part = "buys" => B!Next
        BY <2>2 DEF CorpusNext
      <3>3. part = "seed" => MergeNeverLoses
        BY <3>1, <3>2, MergeIsKept
      <3>4. part = "directory" => D!CoverageKept
        BY <3>1, <3>2, CoverageIsKept
      <3>5. part = "probes" => P!LossNeedsARewrite
        BY <3>1, <3>2, LossIsARewrite
      <3>6. part = "buys" => B!GradeNeedsOutcome
        BY <3>1, <3>2, GradeIsKept
      <3> QED
        BY <3>3, <3>4, <3>5, <3>6
    <2> QED
      BY <2>1, <2>2
  <1> QED
    BY <1>1, CorpusAlways, PTL DEF CorpusSpec, NothingTakenAway
=============================================================================
