-------------------------- MODULE ReputationStore --------------------------
(***************************************************************************)
(* The chain-backed reputation store (reputation_store.py), the chain      *)
(* pages it is filled from and the keyless on-chain source beside it       *)
(* (reputation_onchain.py).  A payee's transfers are a sequence, oldest    *)
(* first; the indexer serves them newest first, and serves transfers of    *)
(* other tokens among them.  A stored row is <<payee, position>>.          *)
(***************************************************************************)
EXTENDS Integers, Sequences, FiniteSets, FiniteSetsExt

CONSTANTS
    Payees,
    Transfers,     \* [tx, payer, usdc]: what may be paid to a payee, repeatedly
    MaxChain,      \* bound on a payee's transfers
    MaxDay,        \* bound on the calendar
    PageSize,      \* transfers on one page of the indexer
    RefreshAfter   \* refresh_after_seconds, in clock ticks

ASSUME StoreAssumption ==
    /\ MaxChain \in Nat /\ MaxDay \in Nat /\ PageSize \in Nat \ {0} /\ RefreshAfter \in Nat \ {0}
    /\ \A t \in Transfers : t.usdc \in BOOLEAN

VARIABLES
    chain,   \* payee -> its transfers, each with its day
    day,
    schema,  \* the key of the settlements table: "legacy" or "payer_key"
    table,   \* its rows
    age,     \* payee -> ticks since its last ingest, RefreshAfter when due
    memo     \* payee -> OnchainReputationSource's cached record, if any

storeVars == <<chain, day, schema, table, age, memo>>

AllRows == Payees \X (1..MaxChain)

-----------------------------------------------------------------------------
(* What the indexer serves.                                                *)

\* extract_usdc_transfers: the token's contract decides, so a lookalike does not count.
ExtractUsdcTransfers(p, positions) == {<<p, n>> : n \in {m \in positions : chain[p][m].usdc}}

\* A page starts at `from' and goes back in time.
Page(from) == {n \in 1..MaxChain : n <= from /\ n > from - PageSize}

\* BlockscoutChain.recent_inbound: the newest page.
RecentInbound(p) == ExtractUsdcTransfers(p, Page(Len(chain[p])))

-----------------------------------------------------------------------------
(* The table.                                                              *)

\* The old key left the payer out: one of the transfers a transaction carries is kept.
SameKey(x, y, sch) ==
    LET a == chain[x[1]][x[2]]
        b == chain[y[1]][y[2]]
    IN  x[1] = y[1] /\ a.tx = b.tx /\ (sch = "legacy" \/ a.payer = b.payer)

\* ingest_transfers: INSERT OR IGNORE, newest first.
IngestTransfers(rows, xs, sch) ==
    rows \cup {x \in xs : /\ \A r \in rows : ~ SameKey(x, r, sch)
                          /\ \A y \in xs : y[2] > x[2] => ~ SameKey(x, y, sch)}

-----------------------------------------------------------------------------
(* Environment.                                                            *)

Paid(p, t) ==
    /\ Len(chain[p]) < MaxChain
    /\ chain' = [chain EXCEPT ![p] = Append(@, [tx |-> t.tx, payer |-> t.payer, usdc |-> t.usdc,
                                                day |-> day])]
    /\ UNCHANGED <<day, schema, table, age, memo>>

NextDay ==
    /\ day < MaxDay
    /\ day' = day + 1
    /\ UNCHANGED <<chain, schema, table, age, memo>>

\* A clock tick brings every payee nearer its refresh.
Tick ==
    /\ \E p \in Payees : age[p] < RefreshAfter
    /\ age' = [p \in Payees |-> Min({RefreshAfter, age[p] + 1})]
    /\ UNCHANGED <<chain, day, schema, table, memo>>

-----------------------------------------------------------------------------
(* The process.                                                            *)

\* _migrate_payer_key at opening: one transaction, all rows copied under the new key.
Migrate ==
    /\ schema = "legacy"
    /\ schema' = "payer_key"
    /\ UNCHANGED <<chain, day, table, age, memo>>

\* It may fail (a locked file): the rollback leaves the old table, to be tried again.
MigrateFails ==
    /\ schema = "legacy"
    /\ UNCHANGED storeVars

\* _stale: never ingested, or not within the refresh interval.
Stale(p) == age[p] = RefreshAfter

\* SelfPopulatingReputationSource.lookup with the indexer answering ...
LookupIngests(p) ==
    /\ Stale(p)
    /\ table' = IngestTransfers(table, RecentInbound(p), schema)
    /\ age' = [age EXCEPT ![p] = 0]
    /\ UNCHANGED <<chain, day, schema, memo>>

\* ... and failing: the stamp is the same, so the thin record is served until the next.
LookupIngestFails(p) ==
    /\ Stale(p)
    /\ age' = [age EXCEPT ![p] = 0]
    /\ UNCHANGED <<chain, day, schema, table, memo>>

\* derive_record: the USDC transfers of the page, none when the page did not come.
DeriveRecord(p, fetched) == IF fetched THEN Cardinality(RecentInbound(p)) ELSE 0

\* OnchainReputationSource.lookup past its cache; the record is cached, thin or not.
OnchainLookup(p, fetched) ==
    /\ memo[p] = {}
    /\ memo' = [memo EXCEPT ![p] = {DeriveRecord(p, fetched)}]
    /\ UNCHANGED <<chain, day, schema, table, age>>

\* The entry's time to live runs out.
OnchainExpires(p) ==
    /\ memo[p] # {}
    /\ memo' = [memo EXCEPT ![p] = {}]
    /\ UNCHANGED <<chain, day, schema, table, age>>

StoreInit ==
    /\ chain = [p \in Payees |-> <<>>] /\ day = 0
    /\ schema \in {"legacy", "payer_key"} /\ table = {}
    /\ age = [p \in Payees |-> RefreshAfter]
    /\ memo = [p \in Payees |-> {}]

StoreNext ==
    \/ \E p \in Payees : \/ \E t \in Transfers : Paid(p, t)
                         \/ LookupIngests(p)
                         \/ LookupIngestFails(p)
                         \/ \E fetched \in BOOLEAN : OnchainLookup(p, fetched)
                         \/ OnchainExpires(p)
    \/ NextDay
    \/ Tick
    \/ Migrate
    \/ MigrateFails

\* Agents keep asking, time passes, and the indexer answers now and then.
StoreFairness ==
    /\ WF_storeVars(Tick)
    /\ \A p \in Payees : SF_storeVars(LookupIngests(p))

StoreSpec == StoreInit /\ [][StoreNext]_storeVars /\ StoreFairness

-----------------------------------------------------------------------------
(* Properties.                                                             *)

StoreTypeOK ==
    /\ \A p \in Payees : Len(chain[p]) <= MaxChain
    /\ day \in 0..MaxDay
    /\ schema \in {"legacy", "payer_key"}
    /\ table \subseteq {r \in AllRows : r[2] <= Len(chain[r[1]])}
    /\ age \in [Payees -> 0..RefreshAfter]
    /\ \A p \in Payees : memo[p] \subseteq 0..MaxChain

\* No layer credits a payee with more than its USDC: not a lookalike token's transfers,
\* and not a row twice when two ingests see the same page.
NothingInvented ==
    /\ \A r \in table : chain[r[1]][r[2]].usdc
    /\ \A p \in Payees : \A n \in memo[p] :
         n <= Cardinality({i \in DOMAIN chain[p] : chain[p][i].usdc})
    /\ \A x, y \in table : x # y => ~ SameKey(x, y, schema)

\* No step of the process loses a settlement it holds: not an ingest, and not a
\* migration of the key, whether it is committed or rolled back.
RowsAreKept == [][table \subseteq table']_storeVars

\* The payers of a payee come to be known in spite of failed ingests: each transfer that
\* stays on the newest page is stored, both halves of a batched transaction included,
\* unless the table has kept its old key.
EventuallyKnown ==
    \A p \in Payees, n \in 1..MaxChain :
      (n <= Len(chain[p]) /\ chain[p][n].usdc)
        ~> \/ n <= Len(chain[p]) /\ \E r \in table : SameKey(<<p, n>>, r, schema)
           \/ n <= Len(chain[p]) - PageSize
=============================================================================
