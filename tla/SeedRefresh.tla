---------------------------- MODULE SeedRefresh ----------------------------
(***************************************************************************)
(* The refresh of the shipped corpus (scripts/refresh_seed.sh): copy the   *)
(* committed store, walk every seed payee's history page by page           *)
(* (chain_backfill.py), rebuild the price indexes, ask refresh_guard.py    *)
(* and index_guard.py, and move the candidate files over the committed     *)
(* ones, one file at a time.  Any step may fail, and the job may be killed *)
(* between any two.                                                        *)
(***************************************************************************)
EXTENDS ReputationStore

CONSTANTS
    MaxPages,        \* --max-pages of the backfill
    GateSettlements, \* THIN_HISTORY_SETTLEMENTS
    GatePayers,      \* MIN_DISTINCT_PAYERS
    WarnDays         \* REFRESH_WARN_DAYS

\* The shipped corpus was built from a transfer.
ASSUME RefreshAssumption ==
    /\ MaxChain > 0
    /\ MaxPages \in Nat \ {0} /\ GateSettlements \in Nat /\ GatePayers \in Nat /\ WarnDays \in Nat

VARIABLES
    committed,  \* the files under data/: the store's rows, the rows each index was built
                \* from with the categories it has, and the provenance record, if any
    phase,      \* where the job is
    cand,       \* the candidate store
    todo,       \* payees still to walk
    walk,       \* the walk under way: [payee, cursor, pages, items]
    summary,    \* chain_backfill's summary: [ok, errors, truncated]
    indexes,    \* the candidate's categories
    newest,     \* payee -> its newest position when its walk began
    torn        \* whether the last job was killed between two moves

refreshVars == <<committed, phase, cand, todo, walk, summary, indexes, newest, torn>>
allVars == <<storeVars, refreshVars>>

NoWalk == [payee |-> "none", cursor |-> 0, pages |-> 0, items |-> {}]
NoSummary == [ok |-> 0, errors |-> 0, truncated |-> 0]

-----------------------------------------------------------------------------
(* The guards.                                                             *)

RowDays(rows) == {chain[r[1]][r[2]].day : r \in rows}

\* seed_age_days of the newest row.
AgeOf(rows) == day - Max(RowDays(rows))

SeedPayees(rows) == {r[1] : r \in rows}

\* gating_capable: payees whose history could earn a GO.
GatingCapable(rows) ==
    Cardinality({p \in Payees :
        LET own == {r \in rows : r[1] = p}
        IN  /\ Cardinality(own) >= GateSettlements
            /\ Cardinality({chain[p][r[2]].payer : r \in own}) >= GatePayers})

\* crawl_health: more than a quarter of the payees could not be fetched.
CrawlTooBad == 4 * summary.errors > summary.ok + summary.errors

\* assess_refresh: no collapse of payees, edges or gating-capable payees, fresh, and
\* either younger or larger than what it replaces.
AssessRefresh(old, new) ==
    /\ ~ CrawlTooBad
    /\ 10 * Cardinality(SeedPayees(new)) >= 8 * Cardinality(SeedPayees(old))
    /\ 10 * Cardinality(new) >= 8 * Cardinality(old)
    /\ 100 * GatingCapable(new) >= 95 * GatingCapable(old)
    /\ AgeOf(new) <= WarnDays
    /\ AgeOf(new) <= AgeOf(old)
    /\ AgeOf(new) < AgeOf(old) \/ Cardinality(new) > Cardinality(old)

\* assess_index_refresh: neither index empty, seven tenths of the categories kept.
AssessIndexRefresh(old, new) ==
    /\ old # {} => new # {}
    /\ 10 * Cardinality(new) >= 7 * Cardinality(old)

-----------------------------------------------------------------------------
(* The job.                                                                *)

\* The trap removes the working directory.
EndJob ==
    /\ phase' = "idle" /\ walk' = NoWalk
    /\ cand' = {} /\ todo' = {} /\ summary' = NoSummary /\ indexes' = {}
    /\ newest' = [p \in Payees |-> 0]

\* Mutant of Start: the candidate replaces the committed store.
StartEmpty ==
    /\ phase = "idle" /\ phase' = "crawl"
    /\ cand' = {}
    /\ todo' = Payees /\ walk' = NoWalk
    /\ summary' = NoSummary
    /\ UNCHANGED <<storeVars, committed, indexes, newest, torn>>

\* The candidate starts as a copy of the committed store: merge, not replace.
Start ==
    /\ phase = "idle" /\ phase' = "crawl"
    /\ cand' = committed.rows
    /\ todo' = Payees /\ walk' = NoWalk
    /\ summary' = NoSummary
    /\ UNCHANGED <<storeVars, committed, indexes, newest, torn>>

BeginWalk(p) ==
    /\ phase = "crawl" /\ walk = NoWalk /\ p \in todo
    /\ walk' = [payee |-> p, cursor |-> Len(chain[p]), pages |-> 0, items |-> {}]
    /\ newest' = [newest EXCEPT ![p] = Len(chain[p])]
    /\ UNCHANGED <<storeVars, committed, phase, cand, todo, summary, indexes, torn>>

\* collect_paged: one page, from the cursor the last one gave.
FetchPage ==
    /\ walk # NoWalk /\ walk.pages < MaxPages
    /\ walk.pages = 0 \/ walk.cursor > 0
    /\ walk' = [walk EXCEPT !.items = @ \cup ExtractUsdcTransfers(walk.payee, Page(walk.cursor)),
                            !.cursor = Max({0, @ - PageSize}),
                            !.pages = @ + 1]
    /\ UNCHANGED <<storeVars, committed, phase, cand, todo, summary, indexes, newest, torn>>

\* Mutant of Ingest: the payee stays on the list of those to walk.
IngestAgain(truncated) ==
    /\ cand' = IngestTransfers(cand, walk.items, "payer_key")
    /\ summary' = [summary EXCEPT !.ok = @ + 1, !.truncated = @ + (IF truncated THEN 1 ELSE 0)]
    /\ walk' = NoWalk
    /\ UNCHANGED <<storeVars, committed, phase, todo, indexes, newest, torn>>

\* What the walk collected is stored: one payee of backfill's loop.
Ingest(truncated) ==
    /\ cand' = IngestTransfers(cand, walk.items, "payer_key")
    /\ summary' = [summary EXCEPT !.ok = @ + 1, !.truncated = @ + (IF truncated THEN 1 ELSE 0)]
    /\ todo' = todo \ {walk.payee} /\ walk' = NoWalk
    /\ UNCHANGED <<storeVars, committed, phase, indexes, newest, torn>>

\* The last page, or the cap: a capped history is a window, and is counted as one.
EndWalk ==
    /\ walk # NoWalk /\ walk.pages > 0
    /\ walk.cursor = 0 \/ walk.pages = MaxPages
    /\ Ingest(walk.cursor > 0)

\* A page that fails its retries ends the walk: what was collected is kept and flagged,
\* a walk with nothing to keep is an error of that payee, whose old rows stay.
PageFails ==
    /\ walk # NoWalk /\ walk.pages < MaxPages
    /\ walk.pages = 0 \/ walk.cursor > 0
    /\ \/ walk.pages > 0 /\ Ingest(TRUE)
       \/ /\ walk.pages = 0
          /\ summary' = [summary EXCEPT !.errors = @ + 1]
          /\ todo' = todo \ {walk.payee} /\ walk' = NoWalk
          /\ UNCHANGED <<storeVars, committed, phase, cand, indexes, newest, torn>>

\* category_pricing.py and price_integrity.py: the payees a live crawl listed, as far as
\* the candidate store knows them.
BuildIndexes(listed) ==
    /\ phase = "crawl" /\ todo = {}
    /\ indexes' = listed \cap SeedPayees(cand)
    /\ phase' = "guard"
    /\ UNCHANGED <<storeVars, committed, cand, todo, walk, summary, newest, torn>>

\* set -e: a builder that fails ends the job with nothing moved.
BuildFails ==
    /\ phase = "crawl" /\ todo = {}
    /\ EndJob
    /\ UNCHANGED <<storeVars, committed, torn>>

Accepted == cand # {} /\ AssessRefresh(committed.rows, cand)
                      /\ AssessIndexRefresh(committed.cats, indexes)

Guard ==
    /\ phase = "guard"
    /\ \/ /\ Accepted
          /\ phase' = "store"
          /\ UNCHANGED <<cand, todo, walk, summary, indexes, newest>>
       \/ ~ Accepted /\ EndJob
    /\ UNCHANGED <<storeVars, committed, torn>>

MoveStore ==
    /\ phase = "store" /\ phase' = "indexes"
    /\ committed' = [committed EXCEPT !.rows = cand]
    /\ torn' = TRUE
    /\ UNCHANGED <<storeVars, cand, todo, walk, summary, indexes, newest>>

MoveIndexes ==
    /\ phase = "indexes" /\ phase' = "provenance"
    /\ committed' = [committed EXCEPT !.cats = indexes, !.of = cand]
    /\ UNCHANGED <<storeVars, cand, todo, walk, summary, indexes, newest, torn>>

\* seed_provenance.py may fail: then the old record goes, for it describes another store.
MoveProvenance(made) ==
    /\ phase = "provenance" /\ EndJob
    /\ committed' = [committed EXCEPT !.prov = IF made THEN {cand} ELSE {}]
    /\ torn' = FALSE
    /\ UNCHANGED storeVars

\* The job is killed; its working directory goes with it, moved files stay moved.
Killed ==
    /\ phase # "idle" /\ EndJob
    /\ UNCHANGED <<storeVars, committed, torn>>

\* One payee has history, and the corpus was built from it.
RefreshInit ==
    /\ \E p \in Payees : \E t \in {x \in Transfers : x.usdc} :
         /\ chain = [q \in Payees |-> IF q = p THEN <<[tx |-> t.tx, payer |-> t.payer,
                                                       usdc |-> TRUE, day |-> 0]>> ELSE <<>>]
         /\ committed = [rows |-> {<<p, 1>>}, of |-> {<<p, 1>>}, cats |-> {p},
                         prov |-> {{<<p, 1>>}}]
    /\ day = 0 /\ schema = "payer_key" /\ table = {}
    /\ age = [p \in Payees |-> RefreshAfter] /\ memo = [p \in Payees |-> {}]
    /\ phase = "idle" /\ cand = {} /\ todo = {} /\ walk = NoWalk
    /\ summary = NoSummary
    /\ indexes = {} /\ newest = [p \in Payees |-> 0] /\ torn = FALSE

Environment ==
    /\ \/ NextDay
       \/ \E p \in Payees, t \in Transfers : Paid(p, t)
    /\ UNCHANGED refreshVars

RefreshNext ==
    \/ Environment
    \/ Start
    \/ \E p \in Payees : BeginWalk(p)
    \/ FetchPage \/ EndWalk \/ PageFails
    \/ \E listed \in SUBSET Payees : BuildIndexes(listed)
    \/ BuildFails \/ Guard
    \/ MoveStore \/ MoveIndexes
    \/ \E made \in BOOLEAN : MoveProvenance(made)
    \/ Killed

RefreshSpec == RefreshInit /\ [][RefreshNext]_allVars

-----------------------------------------------------------------------------
(* Properties.                                                             *)

RefreshTypeOK ==
    /\ committed.rows \in SUBSET AllRows /\ committed.of \in SUBSET AllRows
    /\ phase \in {"idle", "crawl", "guard", "store", "indexes", "provenance"}
    /\ cand \subseteq {r \in AllRows : r[2] <= Len(chain[r[1]])}
    /\ summary.ok + summary.errors <= Cardinality(Payees)
    /\ summary.truncated <= summary.ok
    /\ torn \in BOOLEAN

\* A refresh never costs the corpus a settlement, whatever the crawl missed: a payee that
\* could not be fetched, or whose history the page cap cut, keeps its earlier rows.
MergeNeverLoses == committed.rows \subseteq committed'.rows

\* What is promoted adds a settlement to what is shipped: a crawl that learnt nothing is
\* not shipped as a refresh.
PromotionAdds ==
    phase = "store" => committed.rows \subseteq cand /\ committed.rows # cand

\* A promoted store is current for most of its payees: of a payee whose newest transfer
\* was USDC when its walk began, that transfer is in the store, for all but a quarter.
FreshForMost ==
    phase = "store" =>
      LET missed == {p \in Payees :
                       /\ newest[p] > 0 /\ chain[p][newest[p]].usdc
                       /\ ~ \E r \in cand : SameKey(<<p, newest[p]>>, r, "payer_key")}
      IN  4 * Cardinality(missed) <= Cardinality(Payees)

\* The files under data/ are of one build between jobs: the indexes were computed from
\* the store beside them and the provenance record describes it or is absent.  A job
\* killed between its moves is the exception, until the next one promotes.
ArtifactsAgree ==
    phase = "idle" /\ ~ torn =>
      committed.of = committed.rows /\ committed.prov \subseteq {committed.rows}
=============================================================================
