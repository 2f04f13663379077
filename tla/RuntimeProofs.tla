---------------------------- MODULE RuntimeProofs ----------------------------
(***************************************************************************)
(* RuntimeTypeOK and RuntimeSound for any threads, keys, payees, histories  *)
(* and deployments.                                                         *)
(***************************************************************************)
EXTENDS Runtime, SequenceTheorems, SubsequencesProofs

-----------------------------------------------------------------------------
(* The RPC node: what its threads and its cache hold.                       *)

Places == {"idle", "lookup", "join", "wait", "fetch", "pop", "put"}

Handlers == [pc : Places, key : Keys \cup {"none"}, rem : 0..Wait, kind : N!Kinds \cup {"none"}, age : 0..Lag]

Entries == [key : Keys, left : 0..TTL, kind : {"chain"}, age : 0..(TTL + Lag)]

\* An entry ages as its time to live runs out, so the two add up to what they were.
Cached(c) ==
    /\ c \in Seq(Entries) /\ Len(c) <= MaxEntries
    /\ \A i \in DOMAIN c : c[i].age + c[i].left <= TTL + Lag
    /\ \A i, j \in DOMAIN c : c[i].key = c[j].key => i = j

Leads(t, k) == rpcTh[t].key = k /\ rpcTh[t].pc \in {"fetch", "pop"}

NodeInv ==
    /\ Cached(cache)
    /\ inflight \subseteq Keys
    /\ rpcTh \in [Threads -> Handlers]
    /\ \A t \in Threads : rpcTh[t].pc # "idle" => rpcTh[t].key \in Keys
    /\ \A t \in Threads : Leads(t, rpcTh[t].key) => rpcTh[t].key \in inflight
    /\ \A t, u \in Threads : Leads(t, rpcTh[t].key) /\ Leads(u, rpcTh[t].key) => t = u
    /\ \A k \in inflight : \E t \in Threads : Leads(t, k)
    /\ N!ServedFresh

-----------------------------------------------------------------------------
(* The Solana walk: which part of the history it has seen, and what became  *)
(* of the part it has read.                                                 *)

\* What a walk has seen is one stretch of the history, up to what was there at its first page.
Stretch ==
    /\ pages = 0 => before = 0 /\ top = 0 /\ seen = {}
    /\ pages > 0 => 1 <= before /\ before <= top /\ seen = before..top
    /\ pc \in {"fetch", "done"} /\ pages > 0 => before = 1

\* Each transaction read is a payment, skipped or failed.
Sorted ==
    /\ result = [payments |-> result.payments, skipped |-> result.skipped, failed |-> result.failed]
    /\ IsFiniteSet(result.payments)
    /\ pc \notin {"fetch", "done"} => todo = {} /\ result = W!NoResult
    /\ pc = "done" => todo = {}
    /\ pc \in {"fetch", "done"} =>
         /\ result.failed \subseteq seen \ todo
         /\ result.payments = UNION {W!NormalizePayment(n) : n \in seen \ (todo \cup result.failed)}
         /\ Cardinality(result.payments) + result.skipped + Cardinality(result.failed) + Cardinality(todo)
              = Cardinality(seen)

WalkInv ==
    /\ W!TypeOK
    /\ top <= Len(history)
    /\ pc = "confirm" => pages <= MaxPages
    /\ pc = "idle" => pages = 0
    /\ Stretch /\ Sorted

-----------------------------------------------------------------------------
(* Boot: why a source is wired, and what a stage that was passed settled.   *)

\* The options without which a source is not wired.
Founded(w) ==
    /\ "sim" \in w => B!Set("sim") /\ (B!Set("base_rpc") \/ B!Set("evm_rpc") \/ B!Set("rpc_node"))
    /\ "node" \in w => B!Set("rpc_node")
    /\ "honeypot" \in w => B!Set("honeypot") /\ B!Set("evm_rpc")
    /\ "stocks" \in w => B!Set("stocks")
    /\ "pyth" \in w => {"pyth", "stocks"} \subseteq env
    /\ "dex" \in w => {"dex", "pyth", "stocks", "evm_rpc"} \subseteq env
    /\ "sanctions" \in w => B!Set("sanctions")

LedgerSettled ==
    /\ B!Set("ledger") /\ B!KV \cap env # {} => B!Has("durable")
    /\ B!Has("durable") /\ ~ mirror.why => "durable" \in banner

SignerSettled ==
    B!Set("seed") \/ B!Set("seed_bad") =>
      B!Has("signer") /\ (B!Set("public") => B!Set("native") \/ B!Set("allow_slow"))

Stopped == {"draining", "stuck", "exited"}

BootInv ==
    /\ B!TypeOK
    /\ Founded(wired)
    /\ banner \ {"readiness"} \subseteq wired
    /\ stage = "ledger" => wired = {}
    /\ stage \notin {"ledger"} \cup Stopped => LedgerSettled
    /\ stage \notin {"ledger", "signer"} \cup Stopped => SignerSettled
    /\ said.what \in {"none", "health", "signals", "paths"}
    /\ said.what # "none" => stage \in {"loop"} \cup Stopped
    /\ said.what = "signals" => said.of \subseteq B!Signals
    /\ said.what = "paths" => said.of \subseteq B!OpenapiPaths

-----------------------------------------------------------------------------
(* The reputation store.                                                    *)

Chained == [tx : {t.tx : t \in Transfers}, payer : {t.payer : t \in Transfers}, usdc : BOOLEAN, day : Nat]

Usdc(p) == {n \in DOMAIN chain[p] : chain[p][n].usdc}

StoreInv ==
    /\ chain \in [Payees -> Seq(Chained)]
    /\ StoreTypeOK
    /\ memo \in [Payees -> SUBSET Nat]
    /\ \A r \in table : chain[r[1]][r[2]].usdc
    /\ \A p \in Payees : \A n \in memo[p] : n <= Cardinality(Usdc(p))
    /\ \A x, y \in table : x # y => ~ SameKey(x, y, schema)

-----------------------------------------------------------------------------

RIInv == NodeInv /\ WalkInv /\ BootInv /\ StoreInv

-----------------------------------------------------------------------------
(* The cache.                                                               *)

LEMMA CacheTypes ==
    /\ TTL \in Nat /\ Lag \in Nat /\ Wait \in Nat /\ MaxEntries \in Nat /\ MaxEntries >= 1
    /\ \A e \in Entries : e.left \in Nat /\ e.age \in Nat /\ e.left <= TTL /\ e.age <= TTL + Lag
  BY RuntimeAssumption DEF Entries

\* The parts' instances of the library's operators are the library's.
LEMMA SameOperators ==
    /\ \A S : N!Cardinality(S) = Cardinality(S) /\ W!Cardinality(S) = Cardinality(S)
    /\ \A S : N!Max(S) = Max(S) /\ W!Max(S) = Max(S) /\ N!Min(S) = Min(S) /\ W!Min(S) = Min(S)
  <1>1. \A S : N!Cardinality(S) = Cardinality(S)
    BY DEF N!Cardinality, Cardinality
  <1>2. \A S : W!Cardinality(S) = Cardinality(S)
    BY DEF W!Cardinality, Cardinality
  <1>3. \A S : N!Max(S) = Max(S) /\ W!Max(S) = Max(S) /\ N!Min(S) = Min(S) /\ W!Min(S) = Min(S)
    BY DEF N!Max, N!Min, W!Max, W!Min, Max, Min
  <1> QED
    BY <1>1, <1>2, <1>3

LEMMA SameSubsequence == \A s, I : N!Subsequence(s, I) = Subsequence(s, I)
  BY DEF N!Subsequence, N!Nth, N!Cardinality, Subsequence, Nth, Cardinality

\* An element that bounds its set is its Max, or its Min.
LEMMA GreatestIs ==
    ASSUME NEW S \in SUBSET Int, NEW m \in S, \A x \in S : x <= m
    PROVE  Max(S) = m
  <1>1. Max(S) \in S /\ \A x \in S : Max(S) >= x
    BY DEF Max
  <1>2. Max(S) \in Int /\ m \in Int /\ Max(S) >= m /\ Max(S) <= m
    BY <1>1
  <1> QED
    BY <1>2

LEMMA LeastIs ==
    ASSUME NEW S \in SUBSET Int, NEW m \in S, \A x \in S : m <= x
    PROVE  Min(S) = m
  <1>1. Min(S) \in S /\ \A x \in S : Min(S) <= x
    BY DEF Min
  <1>2. Min(S) \in Int /\ m \in Int /\ Min(S) >= m /\ Min(S) <= m
    BY <1>1
  <1> QED
    BY <1>2

LEMMA CountTo ==
    ASSUME NEW n \in Nat
    PROVE  IsFiniteSet(1 .. n) /\ Cardinality(1 .. n) = n
  <1>1. IsFiniteSet(1 .. n) /\ Cardinality(1 .. n) = IF 1 > n THEN 0 ELSE n - 1 + 1
    BY FS_Interval
  <1> QED
    BY <1>1

\* Some of the entries, in their order, are a cache.
LEMMA SomeCached ==
    ASSUME NEW c, Cached(c), NEW I \in SUBSET (DOMAIN c)
    PROVE  Cached(Subsequence(c, I))
  <1> DEFINE d == Subsequence(c, I)
  <1>1. c \in Seq(Entries) /\ DOMAIN c = 1 .. Len(c) /\ Len(c) \in Nat
    BY DEF Cached
  <1>2. /\ IsFiniteSet(I) /\ d \in Seq(Entries)
        /\ Len(d) = Cardinality(I) /\ DOMAIN d = 1 .. Cardinality(I)
        /\ \A k \in 1 .. Cardinality(I) : d[k] = c[Nth(I, k)] /\ Nth(I, k) \in I
    BY <1>1, SubsequenceKeeps
  <1>3. I \in SUBSET Nat
    BY <1>1
  <1>4. Cardinality(I) \in Nat
        /\ \A k, m \in 1 .. Cardinality(I) : k < m <=> Nth(I, k) < Nth(I, m)
    BY <1>2, <1>3, NthNumbers
  <1>5. Len(d) <= MaxEntries
    <2>1. IsFiniteSet(1 .. Len(c)) /\ Cardinality(1 .. Len(c)) = Len(c)
      BY <1>1, CountTo
    <2>2. Cardinality(I) <= Len(c)
      <3>1. I \in SUBSET (1 .. Len(c))
        BY <1>1
      <3> QED
        BY <2>1, <3>1, FS_Subset
    <2>3. Len(c) <= MaxEntries
      BY DEF Cached
    <2> QED
      BY <1>1, <1>2, <1>4, <2>2, <2>3, CacheTypes
  <1>6. \A k \in DOMAIN d : d[k].age + d[k].left <= TTL + Lag
    BY <1>2 DEF Cached
  <1>7. ASSUME NEW k \in DOMAIN d, NEW m \in DOMAIN d, d[k].key = d[m].key PROVE k = m
    <2>1. Nth(I, k) \in DOMAIN c /\ Nth(I, m) \in DOMAIN c /\ c[Nth(I, k)].key = c[Nth(I, m)].key
      BY <1>2, <1>7
    <2>2. Nth(I, k) = Nth(I, m)
      BY <2>1 DEF Cached
    <2>3. k \in Nat /\ m \in Nat /\ Nth(I, k) \in Nat
      BY <1>1, <1>2, <1>4, <2>1
    <2>4. ~ (k < m) /\ ~ (m < k)
      BY <1>2, <1>4, <2>2, <2>3
    <2> QED
      BY <2>3, <2>4
  <1> HIDE DEF d
  <1>8. Cached(d)
    BY <1>2, <1>5, <1>6, <1>7 DEF Cached
  <1> QED
    BY <1>8 DEF d

\* So are the last of them.
LEMMA LastCached ==
    ASSUME NEW c, Cached(c), Len(c) >= MaxEntries
    PROVE  /\ Cached(SubSeq(c, Len(c) - MaxEntries + 2, Len(c)))
           /\ Len(SubSeq(c, Len(c) - MaxEntries + 2, Len(c))) < MaxEntries
  <1> DEFINE m == Len(c) - MaxEntries + 2
             d == SubSeq(c, m, Len(c))
  <1>1. c \in Seq(Entries) /\ DOMAIN c = 1 .. Len(c) /\ Len(c) \in Nat /\ Len(c) = MaxEntries
    <2>1. c \in Seq(Entries) /\ Len(c) <= MaxEntries
      BY DEF Cached
    <2> QED
      BY <2>1, CacheTypes
  <1>2. m = 2
    BY <1>1
  <1>3. /\ d \in Seq(Entries) /\ Len(d) = Len(c) - 1 /\ DOMAIN d = 1 .. (Len(c) - 1)
        /\ \A k \in 1 .. (Len(c) - 1) : d[k] = c[k + 1]
    <2>1. d \in Seq(Entries) /\ Len(d) = IF 2 <= Len(c) THEN Len(c) - 2 + 1 ELSE 0
      BY <1>1, <1>2, SubSeqProperties
    <2>2. Len(d) = Len(c) - 1
      BY <1>1, <2>1, CacheTypes
    <2>3. \A k \in 1 .. (Len(c) - 1) : d[k] = c[k + 1]
      BY <1>1, <1>2, SubSeqProperties
    <2> QED
      BY <2>1, <2>2, <2>3
  <1> HIDE DEF m, d
  <1>4. \A k \in DOMAIN d : k \in Nat /\ k + 1 \in DOMAIN c
    BY <1>1, <1>3
  <1>5. \A k, j \in DOMAIN d : d[k].key = d[j].key => k = j
    <2> SUFFICES ASSUME NEW k \in DOMAIN d, NEW j \in DOMAIN d, d[k].key = d[j].key PROVE k = j
      OBVIOUS
    <2>1. k + 1 = j + 1
      BY <1>3, <1>4 DEF Cached
    <2> QED
      BY <1>4, <2>1
  <1>6. \A k \in DOMAIN d : d[k].age + d[k].left <= TTL + Lag
    BY <1>3, <1>4 DEF Cached
  <1>7. Cached(d) /\ Len(d) < MaxEntries
    BY <1>1, <1>3, <1>5, <1>6, CacheTypes DEF Cached
  <1> QED
    BY <1>7 DEF d, m

\* A put leaves a cache.
LEMMA PutCached ==
    ASSUME NEW c, Cached(c), NEW k \in Keys, NEW a \in 0..Lag
    PROVE  Cached(N!Put(c, k, "chain", a))
  <1> DEFINE dropped == N!DropExpired(c)
             room == IF Len(c) < MaxEntries THEN c
                     ELSE IF Len(dropped) < MaxEntries THEN dropped
                          ELSE SubSeq(dropped, Len(dropped) - MaxEntries + 2, Len(dropped))
             entry == [key |-> k, left |-> TTL, kind |-> "chain", age |-> a]
             old == {i \in DOMAIN room : room[i].key = k}
  <1>1. Cached(dropped)
    <2> DEFINE I == {i \in DOMAIN c : c[i].left > 0}
    <2>1. I \in SUBSET (DOMAIN c)
      OBVIOUS
    <2>2. dropped = Subsequence(c, I)
      BY SameSubsequence DEF N!DropExpired
    <2> HIDE DEF I, dropped
    <2> QED
      BY <2>1, <2>2, SomeCached
  <1>2. Cached(room) /\ Len(room) < MaxEntries
    <2>1. CASE Len(c) < MaxEntries
      BY <2>1
    <2>2. CASE ~ (Len(c) < MaxEntries) /\ Len(dropped) < MaxEntries
      BY <1>1, <2>2
    <2>3. CASE ~ (Len(c) < MaxEntries) /\ ~ (Len(dropped) < MaxEntries)
      <3>1. Len(dropped) >= MaxEntries
        <4>1. Len(dropped) \in Nat
          BY <1>1 DEF Cached
        <4> QED
          BY <2>3, <4>1, CacheTypes
      <3> QED
        BY <1>1, <2>3, <3>1, LastCached
    <2> QED
      BY <2>1, <2>2, <2>3
  <1>3. entry \in Entries /\ entry.key = k /\ entry.age + entry.left <= TTL + Lag
    <2>1. a \in 0..(TTL + Lag) /\ TTL \in 0..TTL /\ a + TTL <= TTL + Lag
      BY CacheTypes
    <2> QED
      BY <2>1 DEF Entries
  <1>4. N!Put(c, k, "chain", a) = IF old = {} THEN Append(room, entry)
                                  ELSE [room EXCEPT ![CHOOSE i \in old : TRUE] = entry]
    BY DEF N!Put
  <1> HIDE DEF room, dropped, entry
  <1>5. room \in Seq(Entries) /\ DOMAIN room = 1 .. Len(room) /\ Len(room) \in Nat
    BY <1>2 DEF Cached
  <1>6. CASE old = {}
    <2> DEFINE d == Append(room, entry)
    <2>1. /\ d \in Seq(Entries) /\ Len(d) = Len(room) + 1
          /\ DOMAIN d = DOMAIN room \cup {Len(room) + 1}
          /\ \A i \in DOMAIN room : d[i] = room[i]
          /\ d[Len(room) + 1] = entry
      BY <1>3, <1>5, AppendPositions
    <2>2. \A i \in DOMAIN room : room[i].key # k
      BY <1>6
    <2> HIDE DEF d
    <2>3. \A i, j \in DOMAIN d : d[i].key = d[j].key => i = j
      BY <1>2, <1>3, <2>1, <2>2 DEF Cached
    <2>4. Len(d) <= MaxEntries
      BY <1>2, <1>5, <2>1, CacheTypes
    <2>5. \A i \in DOMAIN d : d[i].age + d[i].left <= TTL + Lag
      BY <1>2, <1>3, <2>1 DEF Cached
    <2>6. Cached(d)
      BY <2>1, <2>3, <2>4, <2>5 DEF Cached
    <2> QED
      BY <1>4, <1>6, <2>6 DEF d
  <1>7. CASE old # {}
    <2> DEFINE n == CHOOSE i \in old : TRUE
               d == [room EXCEPT ![n] = entry]
    <2>1. n \in DOMAIN room /\ room[n].key = k
      BY <1>7
    <2> HIDE DEF n
    <2>2. /\ d \in Seq(Entries) /\ Len(d) = Len(room) /\ DOMAIN d = DOMAIN room
          /\ d[n] = entry /\ \A i \in DOMAIN room : i # n => d[i] = room[i]
      BY <1>3, <1>5, <2>1
    <2> HIDE DEF d
    <2>3. \A i \in DOMAIN d : d[i].key = room[i].key
      BY <1>3, <2>1, <2>2
    <2>4. \A i, j \in DOMAIN d : d[i].key = d[j].key => i = j
      BY <1>2, <2>2, <2>3 DEF Cached
    <2>5. \A i \in DOMAIN d : d[i].age + d[i].left <= TTL + Lag
      BY <1>2, <1>3, <2>2 DEF Cached
    <2>6. Cached(d)
      BY <1>2, <2>2, <2>4, <2>5 DEF Cached
    <2> QED
      BY <1>4, <1>7, <2>6 DEF d, n
  <1> QED
    BY <1>6, <1>7

-----------------------------------------------------------------------------
(* The steps of the node's threads.                                         *)

LEMMA NodeInit == N!Init => NodeInv
  <1> SUFFICES ASSUME N!Init PROVE NodeInv
    OBVIOUS
  <1>1. N!Idle \in Handlers
    BY CacheTypes DEF N!Idle, Handlers, Places
  <1>2. Cached(<< >>)
    BY CacheTypes DEF Cached
  <1> QED
    BY <1>1, <1>2 DEF N!Init, NodeInv, N!ServedFresh, N!Idle, Leads

\* A thread that neither leads nor is about to keeps the calls under way.
LEMMA ThreadStep ==
    ASSUME NodeInv, NEW t \in Threads, NEW h \in Handlers,
           h.pc # "idle" => h.key \in Keys,
           rpcTh[t].pc \notin {"fetch", "pop"}, h.pc \notin {"fetch", "pop"},
           rpcTh' = [rpcTh EXCEPT ![t] = h],
           UNCHANGED inflight, Cached(cache'), N!ServedFresh'
    PROVE  NodeInv'
  <1>1. rpcTh \in [Threads -> Handlers]
    BY DEF NodeInv
  <1>2. rpcTh' \in [Threads -> Handlers] /\ \A u \in Threads : rpcTh'[u] = IF u = t THEN h ELSE rpcTh[u]
    BY <1>1
  <1>3. \A u \in Threads : \A k : Leads(u, k)' <=> Leads(u, k)
    BY <1>2 DEF Leads
  <1>4. \A u \in Threads : rpcTh'[u].pc # "idle" => rpcTh'[u].key \in Keys
    BY <1>2 DEF NodeInv
  <1>5. \A u \in Threads : Leads(u, rpcTh[u].key)' => rpcTh'[u].key \in inflight'
    BY <1>2 DEF NodeInv, Leads
  <1>6. \A u, v \in Threads : Leads(u, rpcTh[u].key)' /\ Leads(v, rpcTh[u].key)' => u = v
    BY <1>2 DEF NodeInv, Leads
  <1>7. \A k \in inflight' : \E u \in Threads : Leads(u, k)'
    BY <1>3 DEF NodeInv
  <1> QED
    BY <1>2, <1>4, <1>5, <1>6, <1>7 DEF NodeInv

LEMMA RequestStep == ASSUME NodeInv, NEW t \in Threads, NEW k \in Keys, N!Request(t, k) PROVE NodeInv'
  <1> DEFINE h == [N!Idle EXCEPT !.pc = "lookup", !.key = k]
  <1>0. 0 \in 0..Wait /\ 0 \in 0..Lag
    BY CacheTypes
  <1>1. h \in Handlers /\ h.pc = "lookup" /\ h.key = k
    BY <1>0 DEF N!Idle, Handlers, Places
  <1>2. Cached(cache') /\ N!ServedFresh'
    BY DEF N!Request, NodeInv, N!ServedFresh
  <1> HIDE DEF h
  <1>3. rpcTh' = [rpcTh EXCEPT ![t] = h] /\ UNCHANGED inflight /\ rpcTh[t].pc = "idle"
    BY DEF N!Request, h
  <1> QED
    BY <1>1, <1>2, <1>3, ThreadStep

LEMMA RefusedStep == ASSUME NodeInv, NEW t \in Threads, N!RequestRefused(t) PROVE NodeInv'
  BY DEF N!RequestRefused, N!Answer, NodeInv, N!ServedFresh, Leads

LEMMA IdleHandler == N!Idle \in Handlers /\ N!Idle.pc = "idle"
  BY CacheTypes DEF N!Idle, Handlers, Places

LEMMA LookupStep == ASSUME NodeInv, NEW t \in Threads, N!Lookup(t) PROVE NodeInv'
  <1>1. rpcTh[t] \in Handlers /\ rpcTh[t].pc = "lookup" /\ rpcTh[t].key \in Keys /\ UNCHANGED inflight
    BY DEF N!Lookup, NodeInv
  <1>2. Cached(cache)
    BY DEF NodeInv
  <1>3. CASE N!Get(rpcTh[t].key) # {}
    <2>1. PICK e \in N!Get(rpcTh[t].key) : /\ N!Answer(e.kind, e.age, "cache")
                                          /\ rpcTh' = [rpcTh EXCEPT ![t] = N!Idle]
                                          /\ UNCHANGED cache
      BY <1>3 DEF N!Lookup
    <2>2. PICK i \in DOMAIN cache : e = cache[i] /\ cache[i].left > 0
      BY DEF N!Get, N!At
    <2>3. e \in Entries /\ e.age + e.left <= TTL + Lag /\ e.left > 0
      BY <1>2, <2>2 DEF Cached
    <2>4. e.kind = "chain" /\ e.age < TTL + Lag
      BY <2>3, CacheTypes DEF Entries
    <2>5. N!ServedFresh'
      BY <2>1, <2>4 DEF N!ServedFresh, N!Answer
    <2> QED
      BY <1>1, <1>2, <2>1, <2>5, IdleHandler, ThreadStep
  <1>4. CASE N!Get(rpcTh[t].key) = {}
    <2> DEFINE I == DOMAIN cache \ N!At(rpcTh[t].key)
               h == [rpcTh[t] EXCEPT !.pc = "join"]
    <2>1. cache' = Subsequence(cache, I) /\ rpcTh' = [rpcTh EXCEPT ![t] = h] /\ UNCHANGED served
      BY <1>4, SameSubsequence DEF N!Lookup
    <2>2. I \in SUBSET (DOMAIN cache)
      OBVIOUS
    <2> HIDE DEF I
    <2>3. Cached(cache')
      BY <1>2, <2>1, <2>2, SomeCached
    <2>4. h \in Handlers /\ h.pc = "join" /\ h.key = rpcTh[t].key
      BY <1>1 DEF Handlers, Places
    <2>5. N!ServedFresh'
      BY <2>1 DEF NodeInv, N!ServedFresh
    <2> HIDE DEF h
    <2> QED
      BY <1>1, <2>1, <2>3, <2>4, <2>5, ThreadStep
  <1> QED
    BY <1>3, <1>4

LEMMA JoinStep == ASSUME NodeInv, NEW t \in Threads, N!Join(t) PROVE NodeInv'
  <1>1. rpcTh[t] \in Handlers /\ rpcTh[t].pc = "join" /\ rpcTh[t].key \in Keys
    BY DEF N!Join, NodeInv
  <1>2. Cached(cache') /\ N!ServedFresh'
    BY DEF N!Join, NodeInv, N!ServedFresh
  <1>3. CASE rpcTh[t].key \in inflight
    <2> DEFINE h == [rpcTh[t] EXCEPT !.pc = "wait", !.rem = Wait]
    <2>0. Wait \in 0..Wait
      BY CacheTypes
    <2>1. h \in Handlers /\ h.pc = "wait" /\ h.key = rpcTh[t].key
      BY <1>1, <2>0 DEF Handlers, Places
    <2>2. rpcTh' = [rpcTh EXCEPT ![t] = h] /\ inflight' = inflight
      BY <1>3 DEF N!Join
    <2> HIDE DEF h
    <2> QED
      BY <1>1, <1>2, <2>1, <2>2, ThreadStep
  <1>4. CASE rpcTh[t].key \notin inflight
    <2> DEFINE h == [rpcTh[t] EXCEPT !.pc = "fetch"]
               k == rpcTh[t].key
    <2>1. h \in Handlers /\ h.pc = "fetch" /\ h.key = k
      BY <1>1 DEF Handlers, Places
    <2>2. rpcTh' = [rpcTh EXCEPT ![t] = h] /\ inflight' = inflight \cup {k}
      BY <1>4 DEF N!Join
    <2>3. rpcTh \in [Threads -> Handlers]
      BY DEF NodeInv
    <2> HIDE DEF h
    <2>4. rpcTh' \in [Threads -> Handlers] /\ \A u \in Threads : rpcTh'[u] = IF u = t THEN h ELSE rpcTh[u]
      BY <2>1, <2>2, <2>3
    <2>5. \A u \in Threads : \A j : Leads(u, j)' <=> Leads(u, j) \/ (u = t /\ j = k)
      BY <1>1, <2>1, <2>4 DEF Leads
    <2>6. \A u \in Threads : ~ Leads(u, k)
      BY <1>4 DEF NodeInv, Leads
    <2>7. \A u, v \in Threads : Leads(u, rpcTh[u].key)' /\ Leads(v, rpcTh[u].key)' => u = v
      <3> SUFFICES ASSUME NEW u \in Threads, NEW v \in Threads,
                          Leads(u, rpcTh[u].key)', Leads(v, rpcTh[u].key)'
                   PROVE  u = v
        OBVIOUS
      <3>1. rpcTh'[u].key = rpcTh[u].key
        BY <2>1, <2>4
      <3> QED
        BY <2>5, <2>6, <3>1 DEF NodeInv, Leads
    <2>8. \A u \in Threads : Leads(u, rpcTh[u].key)' => rpcTh'[u].key \in inflight'
      BY <2>1, <2>2, <2>4 DEF NodeInv, Leads
    <2>9. \A j \in inflight' : \E u \in Threads : Leads(u, j)'
      BY <2>2, <2>5 DEF NodeInv
    <2>10. \A u \in Threads : rpcTh'[u].pc # "idle" => rpcTh'[u].key \in Keys
      BY <1>1, <2>1, <2>4 DEF NodeInv
    <2>11. inflight' \subseteq Keys
      BY <1>1, <2>2 DEF NodeInv
    <2> QED
      BY <1>2, <2>4, <2>7, <2>8, <2>9, <2>10, <2>11 DEF NodeInv
  <1> QED
    BY <1>3, <1>4

LEMMA FetchStep ==
    ASSUME NodeInv, NEW t \in Threads, NEW kind \in N!Kinds, N!Fetch(t, kind)
    PROVE  NodeInv'
  <1> DEFINE h == [rpcTh[t] EXCEPT !.pc = "pop", !.kind = kind]
  <1>1. rpcTh[t] \in Handlers /\ rpcTh[t].pc = "fetch" /\ rpcTh[t].key \in Keys
    BY DEF N!Fetch, NodeInv
  <1>2. h \in Handlers /\ h.pc = "pop" /\ h.key = rpcTh[t].key
    BY <1>1 DEF Handlers, Places
  <1>3. rpcTh \in [Threads -> Handlers] /\ rpcTh' = [rpcTh EXCEPT ![t] = h]
    BY DEF N!Fetch, NodeInv
  <1> HIDE DEF h
  <1>4. rpcTh' \in [Threads -> Handlers] /\ \A u \in Threads : rpcTh'[u] = IF u = t THEN h ELSE rpcTh[u]
    BY <1>2, <1>3
  <1>5. \A u \in Threads : \A k : Leads(u, k)' <=> Leads(u, k)
    BY <1>1, <1>2, <1>4 DEF Leads
  <1>6. \A u \in Threads : rpcTh'[u].key = rpcTh[u].key
    BY <1>2, <1>4
  <1>7. \A u \in Threads : rpcTh'[u].pc # "idle" => rpcTh'[u].key \in Keys
    BY <1>1, <1>2, <1>4 DEF NodeInv
  <1>8. Cached(cache') /\ N!ServedFresh' /\ inflight' = inflight
    BY DEF N!Fetch, NodeInv, N!ServedFresh
  <1>9. \A u \in Threads : Leads(u, rpcTh[u].key)' => rpcTh'[u].key \in inflight'
    BY <1>5, <1>6, <1>8 DEF NodeInv
  <1>10. \A u, v \in Threads : Leads(u, rpcTh[u].key)' /\ Leads(v, rpcTh[u].key)' => u = v
    BY <1>5, <1>6 DEF NodeInv
  <1>11. \A k \in inflight' : \E u \in Threads : Leads(u, k)'
    BY <1>5, <1>8 DEF NodeInv
  <1>12. inflight' \subseteq Keys
    BY <1>8 DEF NodeInv
  <1> QED
    BY <1>4, <1>7, <1>8, <1>9, <1>10, <1>11, <1>12 DEF NodeInv

\* The leader leaves the table and takes every follower of its key out of its wait: what
\* is under way is what the others lead.
LEMMA PopStep == ASSUME NodeInv, NEW t \in Threads, N!Pop(t) PROVE NodeInv'
  <1> DEFINE k == rpcTh[t].key
             woken(u) == u = t \/ (rpcTh[u].pc = "wait" /\ rpcTh[u].key = k)
             h(u) == [rpcTh[u] EXCEPT !.pc = "put", !.rem = 0, !.kind = rpcTh[t].kind]
  <1>1. \A u \in Threads : rpcTh[u] \in Handlers
    BY DEF NodeInv
  <1>2. rpcTh[t].pc = "pop" /\ Leads(t, k) /\ k \in Keys
    BY DEF N!Pop, Leads, NodeInv
  <1>3. \A u \in Threads : h(u) \in Handlers /\ h(u).pc = "put" /\ h(u).key = rpcTh[u].key
    <2>1. 0 \in 0..Wait
      BY CacheTypes
    <2> QED
      BY <1>1, <2>1 DEF Handlers, Places
  <1>4. rpcTh' = [u \in Threads |-> IF woken(u) THEN h(u) ELSE rpcTh[u]] /\ inflight' = inflight \ {k}
    BY DEF N!Pop
  <1> HIDE DEF h, k
  <1>5. rpcTh' \in [Threads -> Handlers]
    BY <1>1, <1>3, <1>4
  <1>6. \A u \in Threads : rpcTh'[u].key = rpcTh[u].key
    BY <1>3, <1>4
  <1>7. \A u \in Threads : \A j : Leads(u, j)' <=> Leads(u, j) /\ u # t
    BY <1>3, <1>4 DEF Leads
  <1>8. \A u \in Threads : rpcTh'[u].pc # "idle" => rpcTh'[u].key \in Keys
    BY <1>2, <1>3, <1>4 DEF NodeInv
  <1>9. Cached(cache') /\ N!ServedFresh' /\ inflight' \subseteq Keys
    BY <1>4 DEF N!Pop, NodeInv, N!ServedFresh
  <1>10. ASSUME NEW u \in Threads, Leads(u, rpcTh[u].key)' PROVE rpcTh'[u].key \in inflight'
    <2>1. Leads(u, rpcTh[u].key) /\ u # t
      BY <1>6, <1>7, <1>10
    <2>2. rpcTh[u].key \in inflight
      BY <2>1 DEF NodeInv
    <2>3. rpcTh[u].key # k
      BY <1>2, <2>1 DEF NodeInv, k, Leads
    <2> QED
      BY <1>4, <1>6, <2>2, <2>3
  <1>11. \A u, v \in Threads : Leads(u, rpcTh[u].key)' /\ Leads(v, rpcTh[u].key)' => u = v
    BY <1>6, <1>7 DEF NodeInv
  <1>12. ASSUME NEW j \in inflight' PROVE \E u \in Threads : Leads(u, j)'
    <2>1. j \in inflight /\ j # k
      BY <1>4
    <2>2. PICK u \in Threads : Leads(u, j)
      BY <2>1 DEF NodeInv
    <2>3. u # t
      BY <2>1, <2>2 DEF Leads, k
    <2> QED
      BY <1>7, <2>2, <2>3
  <1> QED
    BY <1>5, <1>8, <1>9, <1>10, <1>11, <1>12 DEF NodeInv

LEMMA TimeoutStep == ASSUME NodeInv, NEW t \in Threads, N!WaitTimesOut(t) PROVE NodeInv'
  <1>1. rpcTh[t].pc = "wait" /\ rpcTh' = [rpcTh EXCEPT ![t] = N!Idle] /\ UNCHANGED inflight
    BY DEF N!WaitTimesOut
  <1>2. Cached(cache') /\ N!ServedFresh'
    BY DEF N!WaitTimesOut, N!Answer, NodeInv, N!ServedFresh
  <1> QED
    BY <1>1, <1>2, IdleHandler, ThreadStep

LEMMA StoreStep == ASSUME NodeInv, NEW t \in Threads, N!Store(t) PROVE NodeInv'
  <1>1. /\ rpcTh[t] \in Handlers /\ rpcTh[t].pc = "put" /\ rpcTh[t].key \in Keys
        /\ rpcTh' = [rpcTh EXCEPT ![t] = N!Idle] /\ UNCHANGED inflight
    BY DEF N!Store, NodeInv
  <1>2. rpcTh[t].age \in 0..Lag
    BY <1>1 DEF Handlers
  <1>3. Cached(cache')
    <2>1. CASE rpcTh[t].kind = "chain"
      <3>1. cache' = N!Put(cache, rpcTh[t].key, "chain", rpcTh[t].age)
        BY <2>1 DEF N!Store
      <3>2. Cached(cache)
        BY DEF NodeInv
      <3> QED
        BY <1>1, <1>2, <3>1, <3>2, PutCached
    <2>2. CASE rpcTh[t].kind # "chain"
      BY <2>2 DEF N!Store, NodeInv
    <2> QED
      BY <2>1, <2>2
  <1>4. N!ServedFresh'
    BY DEF N!Store, N!Answer, N!ServedFresh
  <1> QED
    BY <1>1, <1>3, <1>4, IdleHandler, ThreadStep

\* Time runs for the entries and for the threads that wait or hold an answer.
LEMMA TickStep == ASSUME NodeInv, N!Tick PROVE NodeInv'
  <1>1. rpcTh \in [Threads -> Handlers] /\ Cached(cache)
    BY DEF NodeInv
  <1>2. \A t \in Threads : /\ rpcTh[t].rem \in Nat /\ rpcTh[t].rem <= Wait
                           /\ rpcTh[t].age \in Nat /\ rpcTh[t].age <= Lag
    BY <1>1, CacheTypes DEF Handlers
  <1>3. \A t \in Threads : /\ rpcTh'[t] \in Handlers
                           /\ rpcTh'[t].pc = rpcTh[t].pc /\ rpcTh'[t].key = rpcTh[t].key
    <2> SUFFICES ASSUME NEW t \in Threads
                 PROVE  /\ rpcTh'[t] \in Handlers
                        /\ rpcTh'[t].pc = rpcTh[t].pc /\ rpcTh'[t].key = rpcTh[t].key
      OBVIOUS
    <2>0. rpcTh[t] \in Handlers
      BY <1>1
    <2>1. CASE rpcTh[t].pc = "wait"
      <3>1. rpcTh'[t] = [rpcTh[t] EXCEPT !.rem = rpcTh[t].rem - 1] /\ rpcTh[t].rem > 0
        BY <2>1 DEF N!Tick
      <3>2. rpcTh[t].rem - 1 \in 0..Wait
        BY <1>2, <3>1, CacheTypes
      <3> QED
        BY <2>0, <3>1, <3>2 DEF Handlers
    <2>2. CASE rpcTh[t].pc = "put"
      <3>1. rpcTh'[t] = [rpcTh[t] EXCEPT !.age = rpcTh[t].age + 1] /\ rpcTh[t].age < Lag
        BY <2>2 DEF N!Tick
      <3>2. rpcTh[t].age + 1 \in 0..Lag
        BY <1>2, <3>1, CacheTypes
      <3> QED
        BY <2>0, <3>1, <3>2 DEF Handlers
    <2>3. CASE rpcTh[t].pc \notin {"wait", "put"}
      <3>1. rpcTh'[t] = rpcTh[t]
        BY <2>3 DEF N!Tick
      <3> QED
        BY <2>0, <3>1
    <2> QED
      BY <2>1, <2>2, <2>3
  <1>4. rpcTh' \in [Threads -> Handlers]
    <2>1. rpcTh' = [t \in Threads |-> rpcTh'[t]]
      BY DEF N!Tick
    <2> QED
      BY <1>3, <2>1
  <1>5. Cached(cache')
    <2>1. /\ cache \in Seq(Entries) /\ Len(cache) <= MaxEntries
          /\ Len(cache) \in Nat /\ DOMAIN cache = 1 .. Len(cache)
      BY <1>1 DEF Cached
    <2>2. cache' = [i \in DOMAIN cache |-> [cache[i] EXCEPT !.left = Max({0, cache[i].left - 1}),
                                                            !.age = Min({TTL + Lag, cache[i].age + 1})]]
      BY SameOperators DEF N!Tick
    <2>3. ASSUME NEW i \in DOMAIN cache
          PROVE  /\ cache'[i] \in Entries /\ cache'[i].key = cache[i].key
                 /\ cache'[i].age + cache'[i].left <= TTL + Lag
      <3> DEFINE e == cache[i]
                 l == Max({0, e.left - 1})
                 a == Min({TTL + Lag, e.age + 1})
      <3>1. /\ e \in Entries /\ e.left \in Nat /\ e.age \in Nat /\ e.left <= TTL
            /\ e.age <= TTL + Lag /\ e.age + e.left <= TTL + Lag
        BY <1>1, <2>1, CacheTypes DEF Cached
      <3> HIDE DEF e
      <3>2. l = IF e.left = 0 THEN 0 ELSE e.left - 1
        <4> DEFINE n == IF e.left = 0 THEN 0 ELSE e.left - 1
                   S == {0, e.left - 1}
        <4>1. S \in SUBSET Int /\ n \in S /\ \A x \in S : x <= n
          BY <3>1
        <4> HIDE DEF n, S
        <4>2. Max(S) = n
          BY <4>1, GreatestIs
        <4> QED
          BY <4>2 DEF n, S
      <3>3. a = IF e.age = TTL + Lag THEN TTL + Lag ELSE e.age + 1
        <4> DEFINE n == IF e.age = TTL + Lag THEN TTL + Lag ELSE e.age + 1
                   S == {TTL + Lag, e.age + 1}
        <4>1. S \in SUBSET Int /\ n \in S /\ \A x \in S : n <= x
          BY <3>1, CacheTypes
        <4> HIDE DEF n, S
        <4>2. Min(S) = n
          BY <4>1, LeastIs
        <4> QED
          BY <4>2 DEF n, S
      <3> HIDE DEF l, a
      <3>4. l \in 0..TTL /\ a \in 0..(TTL + Lag) /\ a + l <= TTL + Lag
        BY <3>1, <3>2, <3>3, CacheTypes
      <3>5. cache'[i] = [e EXCEPT !.left = l, !.age = a]
        BY <2>2 DEF e, l, a
      <3> QED
        BY <3>1, <3>4, <3>5 DEF Entries, e
    <2>4. cache' \in Seq(Entries) /\ Len(cache') = Len(cache) /\ DOMAIN cache' = DOMAIN cache
      <3>1. DOMAIN cache' = 1 .. Len(cache)
        BY <2>1, <2>2
      <3>2. cache' \in [1 .. Len(cache) -> Entries]
        BY <2>1, <2>2, <2>3
      <3> QED
        BY <2>1, <3>1, <3>2
    <2>5. \A i, j \in DOMAIN cache' : cache'[i].key = cache'[j].key => i = j
      BY <1>1, <2>3, <2>4 DEF Cached
    <2> QED
      BY <2>1, <2>3, <2>4, <2>5 DEF Cached
  <1>6. \A t \in Threads : \A k : Leads(t, k)' <=> Leads(t, k)
    BY <1>3 DEF Leads
  <1>7. inflight' = inflight /\ N!ServedFresh'
    BY DEF N!Tick, NodeInv, N!ServedFresh
  <1>8. \A t \in Threads : rpcTh'[t].pc # "idle" => rpcTh'[t].key \in Keys
    BY <1>3 DEF NodeInv
  <1>9. \A t \in Threads : Leads(t, rpcTh[t].key)' => rpcTh'[t].key \in inflight'
    BY <1>3, <1>6, <1>7 DEF NodeInv
  <1>10. \A t, u \in Threads : Leads(t, rpcTh[t].key)' /\ Leads(u, rpcTh[t].key)' => t = u
    BY <1>3, <1>6 DEF NodeInv
  <1>11. \A k \in inflight' : \E t \in Threads : Leads(t, k)'
    BY <1>6, <1>7 DEF NodeInv
  <1> QED
    BY <1>4, <1>5, <1>7, <1>8, <1>9, <1>10, <1>11 DEF NodeInv

LEMMA NodeStep == ASSUME NodeInv, [N!Next]_nodeVars PROVE NodeInv'
  <1>1. CASE UNCHANGED nodeVars
    BY <1>1 DEF nodeVars, NodeInv, N!ServedFresh, Leads
  <1>2. CASE N!Next
    <2>1. CASE \E t \in Threads : N!RequestRefused(t) \/ N!Local(t)
      BY <2>1, RefusedStep, LookupStep, JoinStep, PopStep, TimeoutStep, StoreStep DEF N!Local
    <2>2. CASE \E t \in Threads, k \in Keys : N!Request(t, k)
      BY <2>2, RequestStep
    <2>3. CASE \E t \in Threads, kind \in N!Kinds : N!Fetch(t, kind)
      BY <2>3, FetchStep
    <2>4. CASE N!Tick
      BY <2>4, TickStep
    <2> QED
      BY <1>2, <2>1, <2>2, <2>3, <2>4 DEF N!Next
  <1> QED
    BY <1>1, <1>2

\* What the runs check of the node follows.
LEMMA NodeSound == ASSUME NodeInv PROVE N!TypeOK /\ N!OneCallAtATime /\ N!ServedFresh
  <1>1. N!TypeOK
    <2>1. \A i \in DOMAIN cache : /\ cache[i].key \in Keys /\ cache[i].left \in 0..TTL
                                  /\ N!At(cache[i].key) = {i}
      <3> SUFFICES ASSUME NEW i \in DOMAIN cache
                   PROVE  /\ cache[i].key \in Keys /\ cache[i].left \in 0..TTL
                          /\ N!At(cache[i].key) = {i}
        OBVIOUS
      <3>1. cache[i] \in Entries
        BY DEF NodeInv, Cached
      <3>2. \A j \in DOMAIN cache : cache[j].key = cache[i].key => j = i
        BY DEF NodeInv, Cached
      <3> QED
        BY <3>1, <3>2 DEF Entries, N!At
    <2>2. \A t \in Threads : rpcTh[t].rem \in 0..Wait
      BY DEF NodeInv, Handlers
    <2> QED
      BY <2>1, <2>2 DEF N!TypeOK, NodeInv, Cached
  <1>2. ASSUME NEW k \in Keys
        PROVE  LET leaders == {t \in Threads : rpcTh[t].key = k /\ rpcTh[t].pc \in {"fetch", "pop"}}
               IN  /\ Cardinality(leaders) <= 1
                   /\ (k \in inflight) = (leaders # {})
    <2> DEFINE leaders == {t \in Threads : rpcTh[t].key = k /\ rpcTh[t].pc \in {"fetch", "pop"}}
    <2>1. leaders = {t \in Threads : Leads(t, k)}
      BY DEF Leads
    <2>2. \A t, u \in leaders : t = u
      BY DEF NodeInv, Leads
    <2>3. k \in inflight => leaders # {}
      BY <2>1 DEF NodeInv
    <2>4. leaders # {} => k \in inflight
      BY DEF NodeInv, Leads
    <2> HIDE DEF leaders
    <2>5. leaders = {} \/ \E t : leaders = {t}
      BY <2>2
    <2>6. Cardinality(leaders) <= 1
      BY <2>5, FS_EmptySet, FS_Singleton
    <2> QED
      BY <2>3, <2>4, <2>6 DEF leaders
  <1>3. N!OneCallAtATime
    BY <1>2, SameOperators DEF N!OneCallAtATime
  <1> QED
    BY <1>1, <1>3 DEF NodeInv

-----------------------------------------------------------------------------
(* The walk of a history.                                                   *)

LEMMA WalkTypes ==
    ASSUME WalkInv
    PROVE  /\ history \in Seq(Movements) /\ Len(history) \in Nat /\ Len(history) <= MaxHistory
           /\ DOMAIN history = 1 .. Len(history)
           /\ top \in Nat /\ before \in Nat /\ pages \in Nat /\ attempt \in Nat /\ top <= Len(history)
           /\ seen \in SUBSET (1 .. Len(history)) /\ todo \in SUBSET seen
           /\ IsFiniteSet(seen) /\ IsFiniteSet(todo)
           /\ MaxHistory \in Nat /\ MaxPages \in Nat /\ Tries \in Nat /\ Tries >= 1
  <1>1. MaxHistory \in Nat /\ MaxPages \in Nat /\ Tries \in Nat /\ Tries >= 1
    BY RuntimeAssumption
  <1>2. history \in Seq(Movements) /\ Len(history) \in Nat /\ DOMAIN history = 1 .. Len(history)
    BY DEF WalkInv, W!TypeOK
  <1>3. seen \in SUBSET (1 .. Len(history)) /\ todo \in SUBSET seen
    BY <1>2 DEF WalkInv, W!TypeOK
  <1>4. IsFiniteSet(1 .. Len(history))
    BY <1>2, CountTo
  <1>5. IsFiniteSet(seen)
    BY <1>3, <1>4, FS_Subset
  <1>6. IsFiniteSet(todo)
    BY <1>3, <1>5, FS_Subset
  <1> QED
    BY <1>1, <1>2, <1>3, <1>5, <1>6 DEF WalkInv, W!TypeOK

LEMMA WalkInit == W!Init => WalkInv
  <1> SUFFICES ASSUME W!Init PROVE WalkInv
    OBVIOUS
  <1>1. PICK n \in 0..(MaxHistory - 1) : history \in [1..n -> Movements]
    BY DEF W!Init
  <1>2. history \in Seq(Movements) /\ Len(history) = n /\ n \in Nat /\ n <= MaxHistory
    BY <1>1, RuntimeAssumption
  <1>3. MaxHistory \in Nat /\ MaxPages \in Nat /\ Tries \in Nat /\ Tries >= 1
    BY RuntimeAssumption
  <1>4. W!TypeOK
    BY <1>2, <1>3 DEF W!Init, W!TypeOK, W!NoResult
  <1>5. IsFiniteSet({})
    BY FS_EmptySet
  <1> QED
    BY <1>2, <1>3, <1>4, <1>5 DEF W!Init, WalkInv, Stretch, Sorted, W!NoResult

\* A new transaction changes nothing of what was read.
LEMMA PaidAccount == ASSUME WalkInv, NEW k \in Movements, W!Paid(k) PROVE WalkInv'
  <1>1. /\ history \in Seq(Movements) /\ Len(history) \in Nat /\ Len(history) < MaxHistory
        /\ history' = Append(history, k)
        /\ UNCHANGED <<top, before, seen, pages, attempt, pc, todo, result>>
        /\ seen \in SUBSET (1 .. Len(history))
    BY WalkTypes DEF W!Paid
  <1>2. /\ history' \in Seq(Movements) /\ Len(history') = Len(history) + 1
        /\ DOMAIN history' = DOMAIN history \cup {Len(history) + 1}
        /\ \A i \in 1 .. Len(history) : history'[i] = history[i]
    BY <1>1, AppendPositions
  <1>3. W!TypeOK'
    <2>1. seen' \subseteq DOMAIN history'
      BY <1>1, <1>2 DEF WalkInv, W!TypeOK
    <2>2. Len(history') <= MaxHistory
      BY <1>1, <1>2, RuntimeAssumption
    <2> QED
      BY <1>1, <1>2, <2>1, <2>2 DEF WalkInv, W!TypeOK
  <1>4. top' <= Len(history')
    BY <1>1, <1>2, WalkTypes
  <1>5. \A n \in seen : W!NormalizePayment(n)' = W!NormalizePayment(n)
    BY <1>1, <1>2 DEF W!NormalizePayment
  <1>6. {W!NormalizePayment(n)' : n \in seen \ (todo \cup result.failed)}
          = {W!NormalizePayment(n) : n \in seen \ (todo \cup result.failed)}
    BY <1>5
  <1>7. Sorted'
    BY <1>1, <1>6 DEF WalkInv, Sorted, W!NoResult
  <1>8. Stretch'
    BY <1>1 DEF WalkInv, Stretch
  <1> QED
    BY <1>1, <1>3, <1>4, <1>7, <1>8 DEF WalkInv

LEMMA StartStep == ASSUME WalkInv, NEW a \in BOOLEAN, W!Start(a) PROVE WalkInv'
  <1>1. /\ pc = "idle" /\ pc' \in {"page", "done"}
        /\ UNCHANGED <<history, top, before, seen, pages, attempt, todo, result>>
    BY DEF W!Start
  <1>2. pages = 0 /\ seen = {} /\ todo = {} /\ result = W!NoResult
    BY <1>1 DEF WalkInv, Stretch, Sorted
  <1>3. W!TypeOK'
    BY <1>1 DEF WalkInv, W!TypeOK
  <1>4. Sorted'
    <2>1. /\ result'.payments = {} /\ result'.skipped = 0 /\ result'.failed = {}
          /\ todo' = {} /\ seen' = {}
      BY <1>1, <1>2 DEF W!NoResult
    <2>2. {W!NormalizePayment(n)' : n \in seen' \ (todo' \cup result'.failed)} = {}
      BY <2>1
    <2>3. UNION {} = {} /\ Cardinality({}) = 0 /\ IsFiniteSet({})
      BY FS_EmptySet
    <2>4. result' = W!NoResult'
      BY <1>1, <1>2 DEF W!NoResult
    <2> QED
      BY <1>1, <2>1, <2>2, <2>3, <2>4 DEF Sorted, W!NoResult
  <1> QED
    BY <1>1, <1>2, <1>3, <1>4 DEF WalkInv, Stretch

\* What is older than the cursor is a stretch from the first transaction on.
LEMMA OlderIs ==
    ASSUME WalkInv
    PROVE  LET u == IF pages = 0 THEN Len(history) ELSE before - 1
           IN  u \in Nat /\ W!Older = 1 .. u /\ u <= Len(history)
  <1>1. CASE pages = 0
    BY <1>1, WalkTypes DEF W!Older, WalkInv, Stretch
  <1>2. CASE pages # 0
    <2>1. pages > 0
      BY <1>2, WalkTypes
    <2>2. 1 <= before /\ before <= top
      BY <2>1 DEF WalkInv, Stretch
    <2> QED
      BY <1>2, <2>2, WalkTypes DEF W!Older
  <1> QED
    BY <1>1, <1>2

\* A page extends what was seen downwards.
LEMMA PageStep ==
    ASSUME WalkInv, NEW page \in W!Served, W!Absorb(page),
           pc \in {"page", "confirm"}, pc' \in {"page", "confirm"},
           pages <= MaxPages, pc' = "confirm" => pages < MaxPages,
           UNCHANGED <<history, todo, result>>
    PROVE  WalkInv'
  <1> DEFINE u == IF pages = 0 THEN Len(history) ELSE before - 1
             m == Min(page)
  <1>1. u \in Nat /\ W!Older = 1 .. u /\ u <= Len(history)
    BY OlderIs
  <1>2. page \in SUBSET (1 .. u) /\ page # {} /\ \A n \in 1 .. u : n >= Min(page) => n \in page
    BY <1>1, SameOperators DEF W!Served
  <1>3. /\ seen' = seen \cup page /\ before' = Min(page) /\ pages' = pages + 1 /\ attempt' = 0
        /\ top' = IF pages = 0 THEN Len(history) ELSE top
    BY SameOperators DEF W!Absorb
  <1>4. m \in page /\ \A n \in page : m <= n
    <2>1. page \in SUBSET Nat
      BY <1>1, <1>2
    <2>2. PICK k \in page : \A n \in page : k <= n
      BY <1>2, <2>1, SmallestElement
    <2>3. Min(page) = k
      BY <2>1, <2>2, LeastIs
    <2> QED
      BY <2>2, <2>3
  <1> HIDE DEF u, m
  <1>5. m \in Nat /\ 1 <= m /\ m <= u
    BY <1>1, <1>2, <1>4
  <1>6. page = m .. u
    <2>1. \A n \in page : n \in m .. u
      BY <1>1, <1>2, <1>4, <1>5
    <2>2. \A n \in m .. u : n \in page
      <3> SUFFICES ASSUME NEW n \in m .. u PROVE n \in page
        OBVIOUS
      <3>1. n \in 1 .. u /\ n >= m
        BY <1>1, <1>5
      <3> QED
        BY <1>2, <3>1 DEF m
    <2> QED
      BY <2>1, <2>2
  <1>7. /\ before' = m /\ pages' \in Nat /\ pages' > 0 /\ pages' <= MaxPages + 1
        /\ pc' = "confirm" => pages' <= MaxPages
    BY <1>3, WalkTypes DEF m
  <1>8. top' \in Nat /\ before' <= top' /\ top' <= Len(history) /\ seen' = before' .. top'
    <2>1. CASE pages = 0
      <3>1. seen = {} /\ top' = Len(history) /\ u = Len(history)
        BY <1>3, <2>1 DEF WalkInv, Stretch, u
      <3> QED
        BY <1>1, <1>3, <1>5, <1>6, <1>7, <3>1
    <2>2. CASE pages # 0
      <3>1. pages > 0
        BY <2>2, WalkTypes
      <3>2. /\ seen = before .. top /\ 1 <= before /\ before <= top
            /\ top' = top /\ u = before - 1
        BY <1>3, <2>2, <3>1 DEF WalkInv, Stretch, u
      <3>3. (before .. top) \cup (m .. (before - 1)) = m .. top
        BY <1>5, <3>2, WalkTypes
      <3> QED
        BY <1>3, <1>5, <1>6, <1>7, <3>2, <3>3, WalkTypes
    <2> QED
      BY <2>1, <2>2
  <1>9. todo = {} /\ result = W!NoResult
    BY DEF WalkInv, Sorted
  <1>10. W!TypeOK'
    <2>1. /\ history' \in Seq(Movements) /\ Len(history') <= MaxHistory
          /\ top' \in 0..MaxHistory /\ before' \in 0..MaxHistory
      BY <1>5, <1>7, <1>8, WalkTypes
    <2>2. seen' \subseteq DOMAIN history' /\ todo' \subseteq seen'
      BY <1>5, <1>7, <1>8, <1>9, WalkTypes
    <2>3. pages' \in 0..(MaxPages + 1) /\ attempt' \in 0..(Tries - 1)
      BY <1>3, <1>7, WalkTypes
    <2>4. result'.failed \subseteq seen' /\ result'.skipped \in 0..MaxHistory
      BY <1>9, WalkTypes DEF W!NoResult
    <2> QED
      BY <2>1, <2>2, <2>3, <2>4 DEF W!TypeOK
  <1>11. Stretch'
    <2>1. 1 <= before' /\ pages' # 0
      BY <1>5, <1>7
    <2> QED
      BY <1>7, <1>8, <2>1 DEF Stretch
  <1>12. Sorted'
    BY <1>9 DEF WalkInv, Sorted, W!NoResult
  <1>13. pc' # "idle" /\ top' <= Len(history')
    BY <1>8
  <1> QED
    BY <1>7, <1>10, <1>11, <1>12, <1>13 DEF WalkInv

\* Nothing is older: the walk has seen everything and begins to read.
LEMMA ExhaustedStep ==
    ASSUME WalkInv, pc \in {"page", "confirm"}, W!Older = {}, W!Exhausted
    PROVE  WalkInv'
  <1>1. /\ pc' = "fetch" /\ todo' = seen /\ attempt' = 0
        /\ UNCHANGED <<history, top, before, seen, pages, result>>
    BY DEF W!Exhausted
  <1>2. todo = {} /\ result = W!NoResult
    BY DEF WalkInv, Sorted
  <1>3. pages > 0 => before = 1
    <2> SUFFICES ASSUME pages > 0 PROVE before = 1
      OBVIOUS
    <2>1. before - 1 \in Nat /\ W!Older = 1 .. (before - 1)
      BY OlderIs, WalkTypes
    <2>2. ~ (1 <= before - 1)
      BY <2>1
    <2>3. 1 <= before
      BY DEF WalkInv, Stretch
    <2> QED
      BY <2>1, <2>2, <2>3, WalkTypes
  <1>4. W!TypeOK'
    <2>1. attempt' \in 0..(Tries - 1)
      BY <1>1, WalkTypes
    <2> QED
      BY <1>1, <2>1 DEF WalkInv, W!TypeOK
  <1>5. Stretch'
    BY <1>1, <1>3 DEF WalkInv, Stretch
  <1>6. Sorted'
    <2>1. /\ result'.payments = {} /\ result'.skipped = 0 /\ result'.failed = {}
          /\ todo' = seen /\ seen' = seen
      BY <1>1, <1>2 DEF W!NoResult
    <2>2. {W!NormalizePayment(n)' : n \in seen' \ (todo' \cup result'.failed)} = {}
      BY <2>1
    <2>3. UNION {} = {} /\ Cardinality({}) = 0 /\ IsFiniteSet({}) /\ Cardinality(seen) \in Nat
      BY FS_EmptySet, WalkTypes, FS_CardinalityType
    <2>4. result' = W!NoResult
      BY <1>1, <1>2
    <2>5. Cardinality(result'.payments) + result'.skipped + Cardinality(result'.failed) + Cardinality(todo')
            = Cardinality(seen')
      BY <2>1, <2>3
    <2>6. result'.payments = UNION {W!NormalizePayment(n)' : n \in seen' \ (todo' \cup result'.failed)}
      BY <2>1, <2>2, <2>3
    <2> QED
      BY <1>1, <2>1, <2>3, <2>4, <2>5, <2>6 DEF Sorted, W!NoResult
  <1> QED
    BY <1>1, <1>4, <1>5, <1>6 DEF WalkInv

LEMMA GetPageStep == ASSUME WalkInv, W!GetPage PROVE WalkInv'
  <1>1. pc = "page" /\ pages < MaxPages
    BY DEF W!GetPage
  <1>2. CASE W!Older = {}
    BY <1>1, <1>2, ExhaustedStep DEF W!GetPage
  <1>3. CASE W!Older # {}
    <2>1. PICK page \in W!Served : /\ W!Absorb(page)
                                   /\ pc' \in {"page", "confirm"}
                                   /\ UNCHANGED <<history, todo, result>>
      BY <1>3 DEF W!GetPage
    <2>2. pages <= MaxPages
      BY <1>1, WalkTypes
    <2> QED
      BY <1>1, <2>1, <2>2, PageStep
  <1> QED
    BY <1>2, <1>3

LEMMA ConfirmStep == ASSUME WalkInv, W!Confirm PROVE WalkInv'
  <1>1. pc = "confirm" /\ pages <= MaxPages
    BY DEF W!Confirm, WalkInv
  <1>2. CASE W!Older = {}
    BY <1>1, <1>2, ExhaustedStep DEF W!Confirm
  <1>3. CASE W!Older # {}
    <2>1. PICK page \in W!Served : /\ W!Absorb(page)
                                   /\ pc' = "page"
                                   /\ UNCHANGED <<history, todo, result>>
      BY <1>3 DEF W!Confirm
    <2> QED
      BY <1>1, <2>1, PageStep
  <1> QED
    BY <1>2, <1>3

LEMMA HitCapStep == ASSUME WalkInv, W!HitCap PROVE WalkInv'
  BY DEF W!HitCap, WalkInv, W!TypeOK, Stretch, Sorted, W!NoResult, W!NormalizePayment

\* The newest signature left.
LEMMA NewestLeft ==
    ASSUME WalkInv, todo # {}
    PROVE  W!Max(todo) \in todo
  <1>1. /\ todo \in SUBSET Nat /\ Len(history) \in Nat
        /\ \A n \in todo : n <= Len(history)
    BY WalkTypes
  <1>2. PICK m \in todo : \A n \in todo : n <= m
    BY <1>1, LargestElement
  <1>3. Max(todo) = m
    BY <1>1, <1>2, GreatestIs
  <1> QED
    BY <1>2, <1>3, SameOperators

\* A signature that leaves the list is a payment, skipped or failed.
LEMMA ReadStep ==
    ASSUME WalkInv, pc = "fetch", NEW n \in todo, NEW P, NEW s \in Nat, NEW F,
           todo' = todo \ {n}, result' = [payments |-> P, skipped |-> s, failed |-> F],
           UNCHANGED <<history, top, before, seen, pages, pc>>, attempt' = 0,
           \/ /\ F = result.failed \cup {n} /\ P = result.payments /\ s = result.skipped
           \/ /\ F = result.failed /\ W!NormalizePayment(n) = {}
              /\ P = result.payments /\ s = result.skipped + 1
           \/ /\ F = result.failed /\ W!NormalizePayment(n) # {}
              /\ P = result.payments \cup W!NormalizePayment(n) /\ s = result.skipped
    PROVE  WalkInv'
  <1> DEFINE done == seen \ (todo \cup result.failed)
             done1 == seen \ (todo' \cup F)
  <1>1. /\ result.failed \in SUBSET (seen \ todo) /\ IsFiniteSet(result.payments)
        /\ result.payments = UNION {W!NormalizePayment(k) : k \in done}
        /\ Cardinality(result.payments) + result.skipped + Cardinality(result.failed) + Cardinality(todo)
             = Cardinality(seen)
        /\ result.skipped \in Nat
    BY DEF WalkInv, Sorted, W!TypeOK
  <1>2. n \in seen /\ n \notin result.failed /\ n \notin done
    BY <1>1, WalkTypes
  <1>3. /\ IsFiniteSet(seen) /\ IsFiniteSet(todo) /\ IsFiniteSet(result.failed)
        /\ Cardinality(seen) \in Nat /\ Cardinality(todo) \in Nat
        /\ Cardinality(result.failed) \in Nat /\ Cardinality(result.payments) \in Nat
    <2>1. result.failed \in SUBSET seen
      BY <1>1
    <2>2. IsFiniteSet(result.failed)
      BY <2>1, WalkTypes, FS_Subset
    <2> QED
      BY <1>1, <2>2, WalkTypes, FS_CardinalityType
  <1>4. IsFiniteSet(todo') /\ Cardinality(todo') = Cardinality(todo) - 1
    BY <1>3, FS_RemoveElement
  <1>5. \A p \in result.payments : p.sig \in done
    <2> SUFFICES ASSUME NEW p \in result.payments PROVE p.sig \in done
      OBVIOUS
    <2>1. PICK k \in done : p \in W!NormalizePayment(k)
      BY <1>1
    <2>2. p.sig = k
      BY <2>1 DEF W!NormalizePayment
    <2> QED
      BY <2>2
  <1> HIDE DEF done, done1
  <1>6. /\ F \in SUBSET (seen \ todo') /\ IsFiniteSet(P)
        /\ P = UNION {W!NormalizePayment(k) : k \in done1}
        /\ Cardinality(P) + s + Cardinality(F) + Cardinality(todo') = Cardinality(seen)
    <2>1. CASE F = result.failed \cup {n} /\ P = result.payments /\ s = result.skipped
      <3>1. Cardinality(F) = Cardinality(result.failed) + 1
        BY <1>2, <1>3, <2>1, FS_AddElement
      <3>2. done1 = done
        BY <1>2, <2>1 DEF done, done1
      <3>3. F \in SUBSET (seen \ todo')
        BY <1>1, <1>2, <2>1
      <3>4. Cardinality(P) + s + Cardinality(F) + Cardinality(todo') = Cardinality(seen)
        BY <1>1, <1>3, <1>4, <2>1, <3>1
      <3> QED
        BY <1>1, <2>1, <3>2, <3>3, <3>4
    <2>2. CASE F = result.failed /\ W!NormalizePayment(n) = {} /\ P = result.payments /\ s = result.skipped + 1
      <3>1. done1 = done \cup {n}
        BY <1>2, <2>2 DEF done, done1
      <3>2. UNION {W!NormalizePayment(k) : k \in done1} = UNION {W!NormalizePayment(k) : k \in done}
        BY <2>2, <3>1
      <3>3. F \in SUBSET (seen \ todo')
        BY <1>1, <1>2, <2>2
      <3>4. Cardinality(P) + s + Cardinality(F) + Cardinality(todo') = Cardinality(seen)
        BY <1>1, <1>3, <1>4, <2>2
      <3> QED
        BY <1>1, <2>2, <3>2, <3>3, <3>4
    <2>3. CASE /\ F = result.failed /\ W!NormalizePayment(n) # {}
               /\ P = result.payments \cup W!NormalizePayment(n) /\ s = result.skipped
      <3>1. done1 = done \cup {n}
        BY <1>2, <2>3 DEF done, done1
      <3>2. P = UNION {W!NormalizePayment(k) : k \in done1}
        BY <1>1, <2>3, <3>1
      <3>3. PICK p : W!NormalizePayment(n) = {p} /\ p.sig = n
        BY <2>3 DEF W!NormalizePayment
      <3>4. p \notin result.payments
        BY <1>2, <1>5, <3>3
      <3>5. IsFiniteSet(P) /\ Cardinality(P) = Cardinality(result.payments) + 1
        BY <1>1, <2>3, <3>3, <3>4, FS_AddElement
      <3>6. F \in SUBSET (seen \ todo')
        BY <1>1, <1>2, <2>3
      <3>7. Cardinality(P) + s + Cardinality(F) + Cardinality(todo') = Cardinality(seen)
        BY <1>1, <1>3, <1>4, <2>3, <3>5
      <3> QED
        BY <3>2, <3>5, <3>6, <3>7
    <2> QED
      BY <2>1, <2>2, <2>3
  <1>7. result'.payments = P /\ result'.skipped = s /\ result'.failed = F
    OBVIOUS
  <1>8. \A k : W!NormalizePayment(k)' = W!NormalizePayment(k)
    BY DEF W!NormalizePayment
  <1>9. {W!NormalizePayment(k)' : k \in seen' \ (todo' \cup result'.failed)}
          = {W!NormalizePayment(k) : k \in done1}
    BY <1>7, <1>8 DEF done1
  <1>10. Sorted'
    BY <1>6, <1>7, <1>9 DEF Sorted
  <1>11. s <= MaxHistory
    <2>1. Cardinality(seen) <= Len(history)
      <3>1. IsFiniteSet(1 .. Len(history)) /\ Cardinality(1 .. Len(history)) = Len(history)
        BY WalkTypes, CountTo
      <3>2. seen \in SUBSET (1 .. Len(history))
        BY WalkTypes
      <3> QED
        BY <3>1, <3>2, FS_Subset
    <2>2. IsFiniteSet(F) /\ Cardinality(P) \in Nat /\ Cardinality(F) \in Nat /\ Cardinality(todo') \in Nat
      <3>1. F \in SUBSET seen
        BY <1>6
      <3>2. IsFiniteSet(F)
        BY <1>3, <3>1, FS_Subset
      <3> QED
        BY <1>4, <1>6, <3>2, FS_CardinalityType
    <2> QED
      BY <1>3, <1>6, <2>1, <2>2, WalkTypes
  <1>12. W!TypeOK'
    <2>1. F \subseteq seen' /\ todo' \subseteq seen' /\ attempt' \in 0..(Tries - 1)
      BY <1>6, WalkTypes
    <2>2. result'.skipped \in 0..MaxHistory
      BY <1>7, <1>11, WalkTypes
    <2> QED
      BY <1>7, <2>1, <2>2 DEF WalkInv, W!TypeOK
  <1>13. Stretch'
    BY DEF WalkInv, Stretch
  <1> QED
    BY <1>10, <1>12, <1>13 DEF WalkInv

LEMMA SkippedIsNat == ASSUME WalkInv PROVE result.skipped \in Nat
  BY DEF WalkInv, W!TypeOK

LEMMA FetchPaymentStep == ASSUME WalkInv, W!FetchPayment PROVE WalkInv'
  <1> DEFINE n == W!Max(todo)
  <1>1. /\ pc = "fetch" /\ todo # {} /\ todo' = todo \ {n} /\ attempt' = 0
        /\ UNCHANGED <<history, top, before, seen, pages, pc>>
        /\ result' = IF W!NormalizePayment(n) = {}
                     THEN [result EXCEPT !.skipped = @ + 1]
                     ELSE [result EXCEPT !.payments = @ \cup W!NormalizePayment(n)]
    BY DEF W!FetchPayment
  <1>2. n \in todo
    BY <1>1, NewestLeft
  <1>3. result = [payments |-> result.payments, skipped |-> result.skipped, failed |-> result.failed]
    BY DEF WalkInv, Sorted
  <1> HIDE DEF n
  <1>4. CASE W!NormalizePayment(n) = {}
    <2>1. result' = [payments |-> result.payments, skipped |-> result.skipped + 1, failed |-> result.failed]
      BY <1>1, <1>3, <1>4
    <2>2. result.skipped + 1 \in Nat
      BY SkippedIsNat
    <2> QED
      BY <1>1, <1>2, <1>4, <2>1, <2>2, ReadStep
  <1>5. CASE W!NormalizePayment(n) # {}
    <2>1. result' = [payments |-> result.payments \cup W!NormalizePayment(n),
                     skipped |-> result.skipped, failed |-> result.failed]
      BY <1>1, <1>3, <1>5
    <2> QED
      BY <1>1, <1>2, <1>5, <2>1, SkippedIsNat, ReadStep
  <1> QED
    BY <1>4, <1>5

LEMMA CallFailsStep == ASSUME WalkInv, W!CallFails PROVE WalkInv'
  <1>1. /\ pc \in {"page", "confirm", "fetch"} /\ (pc = "fetch" => todo # {})
        /\ UNCHANGED <<history, top, before, seen, pages>>
    BY DEF W!CallFails
  <1>2. CASE attempt + 1 < Tries /\ attempt' = attempt + 1 /\ UNCHANGED <<pc, todo, result>>
    <2>1. attempt' \in 0..(Tries - 1)
      BY <1>2, WalkTypes
    <2> QED
      BY <1>1, <1>2, <2>1 DEF WalkInv, W!TypeOK, Stretch, Sorted, W!NoResult, W!NormalizePayment
  <1>3. CASE attempt + 1 = Tries /\ attempt' = 0 /\ pc = "fetch"
    <2> DEFINE n == W!Max(todo)
    <2>1. /\ todo' = todo \ {n} /\ UNCHANGED pc
          /\ result' = [result EXCEPT !.failed = @ \cup {n}]
      BY <1>3, WalkTypes DEF W!CallFails
    <2>2. n \in todo
      BY <1>1, <1>3, NewestLeft
    <2>3. result = [payments |-> result.payments, skipped |-> result.skipped, failed |-> result.failed]
      BY DEF WalkInv, Sorted
    <2> HIDE DEF n
    <2>4. result' = [payments |-> result.payments, skipped |-> result.skipped, failed |-> result.failed \cup {n}]
      BY <2>1, <2>3
    <2> QED
      BY <1>1, <1>3, <2>1, <2>2, <2>4, SkippedIsNat, ReadStep
  <1>4. CASE attempt + 1 = Tries /\ attempt' = 0 /\ pc # "fetch"
    <2>1. pc' = "incomplete" /\ UNCHANGED <<todo, result>>
      BY <1>4, WalkTypes DEF W!CallFails
    <2>2. attempt' \in 0..(Tries - 1)
      BY <1>4, WalkTypes
    <2> QED
      BY <1>1, <1>4, <2>1, <2>2 DEF WalkInv, W!TypeOK, Stretch, Sorted, W!NoResult, W!NormalizePayment
  <1> QED
    BY <1>2, <1>3, <1>4 DEF W!CallFails

LEMMA FinishStep == ASSUME WalkInv, W!Finish PROVE WalkInv'
  BY DEF W!Finish, WalkInv, W!TypeOK, Stretch, Sorted, W!NoResult, W!NormalizePayment

LEMMA WalkStep == ASSUME WalkInv, [W!Next]_walkVars PROVE WalkInv'
  <1>1. CASE UNCHANGED walkVars
    BY <1>1 DEF walkVars, WalkInv, W!TypeOK, Stretch, Sorted, W!NoResult, W!NormalizePayment
  <1>2. CASE W!Next
    BY <1>2, PaidAccount, StartStep, GetPageStep, ConfirmStep, HitCapStep, CallFailsStep,
       FetchPaymentStep, FinishStep DEF W!Next, W!Walk
  <1> QED
    BY <1>1, <1>2

\* What the runs check of the walk follows.
LEMMA WalkSound ==
    ASSUME WalkInv
    PROVE  W!TypeOK /\ W!ReturnedIsWhole /\ W!SignaturesAccounted /\ W!NamedBuyersPaid
  <1>1. W!TypeOK /\ W!ReturnedIsWhole
    BY DEF WalkInv, Stretch, W!ReturnedIsWhole
  <1>2. \A n : \A p \in W!NormalizePayment(n) :
            /\ p.sig = n /\ history[n].delta > 0 /\ p.payer = W!PayerOf(history[n])
    BY DEF W!NormalizePayment, W!UsdcDelta
  <1>3. W!SignaturesAccounted
    <2> SUFFICES ASSUME pc = "done" PROVE
          /\ Cardinality(result.payments) + result.skipped + Cardinality(result.failed) = Cardinality(seen)
          /\ {p.sig : p \in result.payments} = {n \in seen \ result.failed : history[n].delta > 0}
      BY SameOperators DEF W!SignaturesAccounted
    <2>1. /\ todo = {}
          /\ result.failed \in SUBSET seen /\ IsFiniteSet(result.payments)
          /\ result.payments = UNION {W!NormalizePayment(n) : n \in seen \ result.failed}
          /\ Cardinality(result.payments) + result.skipped + Cardinality(result.failed) + Cardinality(todo)
               = Cardinality(seen)
      BY DEF WalkInv, Sorted
    <2>2. Cardinality(todo) = 0 /\ result.skipped \in Nat
      BY <2>1, FS_EmptySet, SkippedIsNat
    <2>3. IsFiniteSet(result.failed)
      BY <2>1, WalkTypes, FS_Subset
    <2>4. Cardinality(result.payments) \in Nat /\ Cardinality(result.failed) \in Nat /\ Cardinality(seen) \in Nat
      BY <2>1, <2>3, WalkTypes, FS_CardinalityType
    <2>5. Cardinality(result.payments) + result.skipped + Cardinality(result.failed) = Cardinality(seen)
      BY <2>1, <2>2, <2>4
    <2>6. \A p \in result.payments : p.sig \in {n \in seen \ result.failed : history[n].delta > 0}
      BY <1>2, <2>1
    <2>7. ASSUME NEW n \in seen \ result.failed, history[n].delta > 0
          PROVE  \E p \in result.payments : p.sig = n
      <3>1. W!NormalizePayment(n) # {}
        BY <2>7 DEF W!NormalizePayment, W!UsdcDelta
      <3> QED
        BY <1>2, <2>1, <3>1
    <2>8. {p.sig : p \in result.payments} = {n \in seen \ result.failed : history[n].delta > 0}
      BY <2>6, <2>7
    <2> QED
      BY <2>5, <2>8
  <1>4. W!NamedBuyersPaid
    <2> SUFFICES ASSUME NEW p \in result.payments, p.payer # W!None
                 PROVE  \E n \in seen : history[n].delta > 0 /\ p.payer = history[n].payer
      BY DEF W!NamedBuyersPaid, W!Buyers
    <2>1. pc \in {"fetch", "done"}
      BY DEF WalkInv, Sorted, W!NoResult
    <2>2. PICK n \in seen : p \in W!NormalizePayment(n)
      BY <2>1 DEF WalkInv, Sorted
    <2>3. history[n].delta > 0 /\ p.payer = W!PayerOf(history[n])
      BY <1>2, <2>2
    <2>4. Cardinality(history[n].fell) = 1 /\ p.payer = CHOOSE o \in history[n].fell : TRUE
      BY <2>3, SameOperators DEF W!PayerOf
    <2>5. history[n] \in Movements
      BY WalkTypes
    <2>6. IsFiniteSet(history[n].fell) /\ history[n].payer \in history[n].fell
      BY <2>5, RuntimeAssumption
    <2>7. PICK x : history[n].fell = {x}
      BY <2>4, <2>6, FS_Singleton
    <2>8. p.payer = history[n].payer
      BY <2>4, <2>6, <2>7
    <2> QED
      BY <2>3, <2>8
  <1> QED
    BY <1>1, <1>3, <1>4

-----------------------------------------------------------------------------
(* Boot.                                                                    *)

AllStages == B!Range(B!Stages)

\* The sources a signal is advertised for, and the mirror.
Named == {"sim", "node", "honeypot", "stocks", "pyth", "dex", "sanctions", "durable"}

\* Which stage may come next: never the first, and the second only after the first.
LEMMA NextStage ==
    /\ "ledger" \in AllStages /\ "loop" \notin Stopped /\ AllStages \cap Stopped = {}
    /\ \A s \in AllStages \ {"loop"} :
         B!After(s) \in AllStages \ {"ledger"} /\ (s # "ledger" => B!After(s) # "signer")
  <1>1. DOMAIN B!Stages = 1 .. 30
    BY DEF B!Stages
  <1>2. \A i, j \in 1 .. 30 : B!Stages[i] = B!Stages[j] => i = j
    BY DEF B!Stages
  <1>3. B!Stages[1] = "ledger" /\ B!Stages[2] = "signer" /\ B!Stages[30] = "loop"
    BY DEF B!Stages
  <1>4. AllStages = {B!Stages[i] : i \in 1 .. 30}
    BY <1>1 DEF AllStages, B!Range
  <1>5. ASSUME NEW s \in AllStages \ {"loop"}
        PROVE  B!After(s) \in AllStages \ {"ledger"} /\ (s # "ledger" => B!After(s) # "signer")
    <2>1. PICK i \in 1 .. 30 : s = B!Stages[i]
      BY <1>4
    <2>2. (CHOOSE k \in DOMAIN B!Stages : B!Stages[k] = s) = i
      BY <1>1, <1>2, <2>1
    <2>3. B!After(s) = B!Stages[1 + i]
      BY <2>2 DEF B!After
    <2>4. i # 30 /\ (s # "ledger" => i # 1)
      BY <1>3, <1>5, <2>1
    <2>5. 1 + i \in 1 .. 30 /\ 1 + i # 1 /\ (s # "ledger" => 1 + i # 2)
      BY <2>1, <2>4
    <2>6. B!Stages[1 + i] # "ledger" /\ (s # "ledger" => B!Stages[1 + i] # "signer")
      BY <1>2, <1>3, <2>5
    <2> QED
      BY <1>4, <2>3, <2>5, <2>6
  <1>6. "ledger" \in AllStages
    BY <1>3, <1>4
  <1>7. AllStages \cap Stopped = {}
    BY <1>1, <1>4 DEF B!Stages, Stopped
  <1> QED
    BY <1>5, <1>6, <1>7 DEF Stopped

LEMMA StageNames ==
    {"ledger", "signer", "store", "sanctions", "billing", "readiness", "hold", "category",
     "secret", "sellers", "divergence", "rate", "enrich", "rwa", "stocks", "pyth", "dex",
     "holder", "honeypot", "payto", "aave", "corpus", "node", "sim", "anchor", "construct",
     "sigterm", "bind", "bound"} \subseteq AllStages \ {"loop"}
  <1>1. DOMAIN B!Stages = 1 .. 30
    BY DEF B!Stages
  <1>2. AllStages = {B!Stages[i] : i \in 1 .. 30}
    BY <1>1 DEF AllStages, B!Range
  <1> QED
    BY <1>2 DEF B!Stages

LEMMA BootTypes ==
    ASSUME BootInv
    PROVE  /\ stage \in AllStages \cup Stopped
           /\ code \in {0, 1, 2, 130, 143} /\ screens \in BOOLEAN /\ drained \in BOOLEAN
           /\ mirror \in [why : BOOLEAN, failures : 0 .. 1]
  BY DEF BootInv, B!TypeOK, AllStages, Stopped

\* A stage that ends well.
LEMMA StageKeeps ==
    ASSUME BootInv, NEW s \in AllStages \ {"loop"}, NEW sources, NEW on, B!Goes(s, sources, on),
           env' = env, said' = said, drained' = drained, screens' \in BOOLEAN,
           mirror' \in [why : BOOLEAN, failures : 0 .. 1],
           on \ {"readiness"} \subseteq sources, Founded(wired \cup sources),
           s = "ledger" => LedgerSettled',
           s = "signer" => SignerSettled',
           s # "ledger" => mirror' = mirror /\ "durable" \notin sources
    PROVE  BootInv'
  <1>1. /\ stage = s /\ stage' = B!After(s) /\ code' = code
        /\ wired' = wired \cup sources /\ banner' = banner \cup on
    BY DEF B!Goes
  <1>2. /\ stage' \in AllStages \ {"ledger"} /\ (s # "ledger" => stage' # "signer")
        /\ stage' \notin Stopped /\ stage \notin {"loop"} \cup Stopped
    BY <1>1, NextStage
  <1>3. B!TypeOK'
    BY <1>1, <1>2, BootTypes DEF B!TypeOK, AllStages
  <1>4. Founded(wired)'
    BY <1>1 DEF Founded, B!Set
  <1>5. banner' \ {"readiness"} \subseteq wired'
    BY <1>1 DEF BootInv
  <1>6. LedgerSettled'
    <2>1. s # "ledger" => LedgerSettled
      BY <1>1, <1>2 DEF BootInv
    <2> QED
      BY <1>1, <2>1 DEF LedgerSettled, B!Set, B!Has, B!KV
  <1>7. stage' # "signer" => SignerSettled'
    <2>1. s \notin {"ledger", "signer"} => SignerSettled
      BY <1>1, <1>2 DEF BootInv
    <2>2. s = "ledger" => stage' = "signer"
      <3>1. DOMAIN B!Stages = 1 .. 30 /\ B!Stages[1] = "ledger" /\ B!Stages[2] = "signer"
        BY DEF B!Stages
      <3>2. \A i \in 1 .. 30 : B!Stages[i] = "ledger" => i = 1
        BY DEF B!Stages
      <3>3. (CHOOSE k \in DOMAIN B!Stages : B!Stages[k] = "ledger") = 1
        BY <3>1, <3>2
      <3>4. B!After("ledger") = B!Stages[1 + 1]
        BY <3>3 DEF B!After
      <3>5. B!After("ledger") = "signer"
        BY <3>1, <3>4
      <3> QED
        BY <1>1, <3>5
    <2> QED
      BY <1>1, <2>1, <2>2 DEF SignerSettled, B!Set, B!Has
  <1>8. said'.what = "none"
    BY <1>2 DEF BootInv
  <1> QED
    BY <1>2, <1>3, <1>4, <1>5, <1>6, <1>7, <1>8 DEF BootInv

\* A stage of no source a signal is advertised for.
LEMMA PlainStage ==
    ASSUME BootInv, NEW s \in AllStages \ {"loop", "ledger", "signer"}, NEW sources, NEW on,
           B!Goes(s, sources, on), UNCHANGED B!kept,
           sources \cap Named = {}, on \ {"readiness"} \subseteq sources
    PROVE  BootInv'
  <1>1. env' = env /\ said' = said /\ drained' = drained /\ screens' = screens /\ mirror' = mirror
    BY DEF B!kept
  <1>2. Founded(wired \cup sources)
    BY DEF BootInv, Founded, Named
  <1>3. "durable" \notin sources
    BY DEF Named
  <1> QED
    BY <1>1, <1>2, <1>3, BootTypes, StageKeeps

\* A step to a process that does not serve.
LEMMA StopKeeps ==
    ASSUME BootInv, stage' \in Stopped, code' \in {0, 1, 2, 130, 143}, drained' \in BOOLEAN,
           UNCHANGED <<env, wired, banner, screens, mirror, said>>
    PROVE  BootInv'
  <1>1. B!TypeOK'
    BY BootTypes DEF B!TypeOK, Stopped
  <1>2. Founded(wired)' /\ B!Signals' = B!Signals /\ B!OpenapiPaths' = B!OpenapiPaths
    BY DEF BootInv, Founded, B!Set, B!Signals, B!OpenapiPaths, B!Has, B!Only, B!PublicGetRoutes,
           B!UnadvertisedRoutes, B!PublicPostRoutes, B!BillingPostRoutes
  <1> QED
    BY <1>1, <1>2 DEF BootInv, Stopped

LEMMA DiesKeeps ==
    ASSUME BootInv, NEW s, NEW c \in {1, 2}, B!Dies(s, c), UNCHANGED B!kept
    PROVE  BootInv'
  BY BootTypes, StopKeeps DEF B!Dies, B!kept, Stopped

LEMMA LedgerKeeps == ASSUME BootInv, NEW ok \in BOOLEAN, B!LedgerStage(ok) PROVE BootInv'
  <1> DEFINE kv == B!KV \cap env
             sources == B!Only(B!Set("ledger"), {"ledger"} \cup B!Only(kv # {}, {"durable"}))
             on == B!Only(B!Set("ledger") /\ kv # {} /\ ok, {"durable"})
             fatal == B!Set("ledger") /\ kv # {} /\ (kv # B!KV \/ B!Set("kv_unusable"))
  <1>1. env' = env /\ screens' = screens /\ drained' = drained /\ said' = said
    BY DEF B!LedgerStage
  <1>2. CASE fatal
    <2>1. B!Dies("ledger", 2) /\ mirror' = mirror
      BY <1>2 DEF B!LedgerStage
    <2> QED
      BY <1>1, <2>1, DiesKeeps DEF B!kept
  <1>3. CASE ~ fatal
    <2>1. B!Goes("ledger", sources, on) /\ mirror' = [why |-> B!Set("ledger") /\ kv # {} /\ ~ ok, failures |-> 0]
      BY <1>3 DEF B!LedgerStage
    <2>2. mirror' \in [why : BOOLEAN, failures : 0 .. 1]
      BY <2>1
    <2>3. on \ {"readiness"} \subseteq sources
      BY DEF B!Only
    <2>4. Founded(wired \cup sources)
      BY DEF BootInv, Founded, B!Only
    <2>5. LedgerSettled'
      <3>1. wired' = wired \cup sources /\ banner' = banner \cup on
        BY <2>1 DEF B!Goes
      <3>2. B!Set("ledger") /\ kv # {} => "durable" \in sources
        BY DEF B!Only
      <3>3. "durable" \notin wired
        <4>1. stage = "ledger"
          BY <2>1 DEF B!Goes
        <4> QED
          BY <4>1 DEF BootInv
      <3>4. "durable" \in sources => B!Set("ledger") /\ kv # {}
        BY DEF B!Only
      <3>5. mirror'.why = (B!Set("ledger") /\ kv # {} /\ ~ ok)
        BY <2>1
      <3>6. "durable" \in sources /\ ~ mirror'.why => "durable" \in on
        BY <3>4, <3>5 DEF B!Only
      <3> HIDE DEF sources, on
      <3> QED
        BY <1>1, <3>1, <3>2, <3>3, <3>6 DEF LedgerSettled, B!Set, B!Has, B!KV
    <2> HIDE DEF sources, on
    <2>6. "ledger" \in AllStages \ {"loop"}
      BY StageNames
    <2> QED
      BY <1>1, <2>1, <2>2, <2>3, <2>4, <2>5, <2>6, BootTypes, StageKeeps
  <1> QED
    BY <1>2, <1>3

LEMMA SignerKeeps == ASSUME BootInv, B!SignerStage PROVE BootInv'
  <1> DEFINE sources == B!Only(B!Set("seed"), {"signer"})
             fatal == \/ B!Set("seed_bad")
                      \/ B!Set("seed") /\ B!Set("public") /\ ~ B!Set("native") /\ ~ B!Set("allow_slow")
  <1>1. UNCHANGED B!kept
    BY DEF B!SignerStage
  <1>2. CASE fatal
    <2>1. B!Dies("signer", 2)
      BY <1>2 DEF B!SignerStage
    <2> QED
      BY <1>1, <2>1, DiesKeeps
  <1>3. CASE ~ fatal
    <2>1. B!Goes("signer", sources, sources)
      BY <1>3 DEF B!SignerStage
    <2>2. sources = {} \/ sources = {"signer"}
      BY DEF B!Only
    <2>3. Founded(wired \cup sources) /\ "durable" \notin sources
      BY <2>2 DEF BootInv, Founded
    <2>4. wired' = wired \cup sources /\ env' = env
      BY <1>1, <2>1 DEF B!Goes, B!kept
    <2>5. B!Set("seed") => "signer" \in sources
      BY DEF B!Only
    <2> HIDE DEF sources
    <2>6. SignerSettled'
      BY <1>3, <2>4, <2>5 DEF SignerSettled, B!Set, B!Has
    <2>7. "signer" \in AllStages \ {"loop"}
      BY StageNames
    <2> QED
      BY <1>1, <2>1, <2>3, <2>6, <2>7, BootTypes, StageKeeps DEF B!kept
  <1> QED
    BY <1>2, <1>3

\* A stage that may end the process, or wire a source of the others.
LEMMA PlainStages ==
    ASSUME BootInv,
           \/ B!BillingStage \/ B!ReadinessStage \/ B!EnrichStage \/ B!RwaStage \/ B!HolderStage \/ B!AaveStage
           \/ B!CorpusStage \/ B!AnchorStage \/ B!ConstructStage \/ B!SigtermStage \/ B!LoopStage
           \/ \E ok \in BOOLEAN :
                \/ B!StoreStage(ok) \/ B!HoldStage(ok) \/ B!CategoryStage(ok) \/ B!SecretStage(ok)
                \/ B!SellersStage(ok) \/ B!DivergenceStage(ok) \/ B!RateStage(ok) \/ B!BindStage(ok)
           \/ \E loads, gates \in BOOLEAN : B!PaytoStage(loads, gates)
    PROVE  BootInv'
  <1>1. UNCHANGED B!kept
    BY DEF B!BillingStage, B!ReadinessStage, B!EnrichStage, B!RwaStage, B!HolderStage, B!AaveStage, B!CorpusStage,
           B!AnchorStage, B!ConstructStage, B!SigtermStage, B!LoopStage, B!StoreStage, B!HoldStage,
           B!CategoryStage, B!SecretStage, B!SellersStage, B!DivergenceStage, B!RateStage, B!BindStage,
           B!PaytoStage, B!Stage
  <1>2. ASSUME NEW s \in {"store", "billing", "readiness", "hold", "category", "secret", "sellers", "divergence",
                          "rate", "enrich", "rwa", "holder", "payto", "aave", "corpus", "anchor", "construct",
                          "sigterm", "bind", "bound"},
               NEW sources, NEW on, B!Goes(s, sources, on),
               sources \cap Named = {}, on \ {"readiness"} \subseteq sources
        PROVE  BootInv'
    BY <1>1, <1>2, PlainStage, StageNames
  <1>3. ASSUME NEW s, NEW c \in {1, 2}, B!Dies(s, c) PROVE BootInv'
    BY <1>1, <1>3, DiesKeeps
  <1>5. CASE B!BillingStage
    <2> DEFINE sources == B!Only(B!Set("pay_to"), {"billing"} \cup B!Only(B!Set("value_pricing"), {"pricing"}))
    <2>1. sources \cap Named = {}
      BY DEF B!Only, Named
    <2>2. B!Dies("billing", 1) \/ B!Goes("billing", sources, {})
      BY <1>5 DEF B!BillingStage
    <2> HIDE DEF sources
    <2> QED
      BY <1>2, <1>3, <2>1, <2>2
  <1>6. CASE B!ReadinessStage
    <2> DEFINE sources == B!Only(B!Set("readiness_local"), {"readiness_local"})
                            \cup B!Only(~ B!Set("readiness_local") /\ B!Set("readiness"), {"readiness"})
               on == B!Only(B!Set("readiness_local") \/ B!Set("readiness"), {"readiness"})
    <2>1. sources \cap Named = {} /\ on \ {"readiness"} \subseteq sources
      BY DEF B!Only, Named
    <2>2. B!Goes("readiness", sources, on)
      BY <1>6 DEF B!ReadinessStage, B!Stage
    <2> HIDE DEF sources, on
    <2> QED
      BY <1>2, <2>1, <2>2
  <1>7. CASE B!EnrichStage
    <2>1. B!Goes("enrich", B!Only(B!Set("enrich"), {"enrich"}), B!Only(B!Set("enrich"), {"enrich"}))
      BY <1>7 DEF B!EnrichStage, B!Stage
    <2>2. B!Only(B!Set("enrich"), {"enrich"}) \cap Named = {}
      BY DEF B!Only, Named
    <2> QED
      BY <1>2, <2>1, <2>2
  <1>8. CASE B!RwaStage
    <2> DEFINE sources == B!Only(B!Set("rwa"), {"rwa"} \cup B!Only(B!Set("evm_rpc"), {"rwa_sim", "rams"})
                                                 \cup B!Only(B!Set("solana_rpc"), {"rwa_solana"}))
               on == B!Only(B!Set("rwa"), {"rwa"})
    <2>1. sources \cap Named = {} /\ on \ {"readiness"} \subseteq sources
      BY DEF B!Only, Named
    <2>2. B!Goes("rwa", sources, on)
      BY <1>8 DEF B!RwaStage, B!Stage
    <2> HIDE DEF sources, on
    <2> QED
      BY <1>2, <2>1, <2>2
  <1>9. CASE B!HolderStage
    <2>1. B!Goes("holder", B!Only(B!Set("holder"), {"holder"}), B!Only(B!Set("holder"), {"holder"}))
      BY <1>9 DEF B!HolderStage, B!Stage
    <2>2. B!Only(B!Set("holder"), {"holder"}) \cap Named = {}
      BY DEF B!Only, Named
    <2> QED
      BY <1>2, <2>1, <2>2
  <1>10. CASE B!AaveStage
    <2> DEFINE on == B!Only(B!Set("aave") /\ B!Set("evm_rpc"), {"aave"})
    <2>1. B!Goes("aave", on, on)
      BY <1>10 DEF B!AaveStage, B!Stage
    <2>2. on \cap Named = {}
      BY DEF B!Only, Named
    <2> HIDE DEF on
    <2> QED
      BY <1>2, <2>1, <2>2
  <1>11. CASE B!CorpusStage
    <2> DEFINE on == B!Only(B!Set("rwa_ledger"), {"rwa_ledger", "issuer_trust"}
                              \cup B!Only(B!Set("evm_rpc") \/ B!Set("solana_rpc"), {"balance"}))
    <2>1. B!Goes("corpus", on, on)
      BY <1>11 DEF B!CorpusStage, B!Stage
    <2>2. on \cap Named = {}
      BY DEF B!Only, Named
    <2> HIDE DEF on
    <2> QED
      BY <1>2, <2>1, <2>2
  <1>12. CASE B!AnchorStage
    <2>1. B!Goes("anchor", B!Only(B!Set("anchor"), {"anchor"}), B!Only(B!Set("anchor"), {"anchor"}))
      BY <1>12 DEF B!AnchorStage, B!Stage
    <2>2. B!Only(B!Set("anchor"), {"anchor"}) \cap Named = {}
      BY DEF B!Only, Named
    <2> QED
      BY <1>2, <2>1, <2>2
  <1>13. CASE B!ConstructStage \/ B!SigtermStage \/ B!LoopStage
    <2>1. \/ B!Dies("construct", 1)
          \/ \E s \in {"construct", "sigterm", "bound"} : B!Goes(s, {}, {})
      BY <1>13 DEF B!ConstructStage, B!SigtermStage, B!LoopStage, B!Stage
    <2> QED
      BY <1>2, <1>3, <2>1
  <1>14. ASSUME NEW ok \in BOOLEAN, B!StoreStage(ok) PROVE BootInv'
    <2> DEFINE sources == B!Only(B!Set("store"), {"store", "graph", "velocity"})
    <2>1. B!Dies("store", 1) \/ B!Goes("store", sources, {})
      BY <1>14 DEF B!StoreStage
    <2>2. sources \cap Named = {}
      BY DEF B!Only, Named
    <2> HIDE DEF sources
    <2> QED
      BY <1>2, <1>3, <2>1, <2>2
  <1>15. ASSUME NEW s \in {"hold", "category", "divergence", "rate"}, NEW cond \in BOOLEAN, NEW what, what \notin Named,
                B!Goes(s, B!Only(cond, {what}), B!Only(cond, {what}))
         PROVE  BootInv'
    <2>1. B!Only(cond, {what}) \cap Named = {}
      BY <1>15 DEF B!Only
    <2> QED
      BY <1>2, <1>15, <2>1
  <1>16. "hold_above" \notin Named /\ "category" \notin Named /\ "divergence" \notin Named /\ "rate" \notin Named
    BY DEF Named
  <1>17. ASSUME NEW ok \in BOOLEAN,
                B!HoldStage(ok) \/ B!CategoryStage(ok) \/ B!DivergenceStage(ok) \/ B!RateStage(ok)
         PROVE  BootInv'
    <2>1. CASE B!HoldStage(ok)
      BY <1>15, <1>16, <2>1 DEF B!HoldStage, B!Stage
    <2>2. CASE B!CategoryStage(ok)
      BY <1>15, <1>16, <2>2 DEF B!CategoryStage, B!Stage
    <2>3. CASE B!DivergenceStage(ok)
      BY <1>15, <1>16, <2>3 DEF B!DivergenceStage, B!Stage
    <2>4. CASE B!RateStage(ok)
      BY <1>15, <1>16, <2>4 DEF B!RateStage, B!Stage
    <2> QED
      BY <1>17, <2>1, <2>2, <2>3, <2>4
  <1>18. ASSUME NEW ok \in BOOLEAN, B!SecretStage(ok) PROVE BootInv'
    <2> DEFINE sources == {IF B!Set("secret") THEN "secret" ELSE "ephemeral"}
               on == B!Only(B!Set("secret") /\ ~ ok, {"secret"})
    <2>1. B!Goes("secret", sources, on)
      BY <1>18 DEF B!SecretStage, B!Stage
    <2>2. sources \cap Named = {} /\ on \ {"readiness"} \subseteq sources
      BY DEF B!Only, Named
    <2> HIDE DEF sources, on
    <2> QED
      BY <1>2, <2>1, <2>2
  <1>19. ASSUME NEW ok \in BOOLEAN, B!SellersStage(ok) PROVE BootInv'
    <2> DEFINE wires == (B!Set("sellers") \/ B!Set("revocations")) /\ (B!Set("revocations") => ok)
               sources == B!Only(wires, {"sellers"})
               on == B!Only(wires /\ B!Set("seed"), {"sellers"})
    <2>1. B!Goes("sellers", sources, on)
      BY <1>19 DEF B!SellersStage, B!Stage
    <2>2. sources \cap Named = {} /\ on \ {"readiness"} \subseteq sources
      BY DEF B!Only, Named
    <2> HIDE DEF sources, on
    <2> QED
      BY <1>2, <2>1, <2>2
  <1>20. ASSUME NEW ok \in BOOLEAN, B!BindStage(ok) PROVE BootInv'
    BY <1>2, <1>3, <1>20 DEF B!BindStage
  <1>21. ASSUME NEW loads \in BOOLEAN, NEW gates \in BOOLEAN, B!PaytoStage(loads, gates) PROVE BootInv'
    <2> DEFINE sources == B!Only(loads, {"payto"})
               on == B!Only(loads /\ gates, {"payto"})
    <2>1. B!Goes("payto", sources, on)
      BY <1>21 DEF B!PaytoStage, B!Stage
    <2>2. sources \cap Named = {} /\ on \ {"readiness"} \subseteq sources
      BY DEF B!Only, Named
    <2> HIDE DEF sources, on
    <2> QED
      BY <1>2, <2>1, <2>2
  <1> QED
    BY <1>5, <1>6, <1>7, <1>8, <1>9, <1>10, <1>11, <1>12, <1>13, <1>14, <1>17, <1>18, <1>19, <1>20, <1>21

\* A stage of a source a signal is advertised for: each option it stands on is set.
LEMMA NamedStages ==
    ASSUME BootInv,
           \/ B!StocksStage \/ B!PythStage \/ B!DexStage \/ B!HoneypotStage \/ B!SimStage
           \/ \E ok \in BOOLEAN : B!SanctionsStage(ok) \/ B!NodeStage(ok)
    PROVE  BootInv'
  <1>1. ASSUME NEW s \in {"sanctions", "stocks", "pyth", "dex", "honeypot", "node", "sim"},
               NEW sources, NEW on, B!Goes(s, sources, on), UNCHANGED <<env, mirror, drained, said>>,
               screens' \in BOOLEAN,
               on \subseteq sources, Founded(wired \cup sources), "durable" \notin sources
        PROVE  BootInv'
    <2>1. s \in AllStages \ {"loop", "ledger", "signer"}
      BY <1>1, StageNames
    <2>2. on \ {"readiness"} \subseteq sources
      BY <1>1
    <2>3. mirror' = mirror /\ mirror \in [why : BOOLEAN, failures : 0 .. 1]
      BY <1>1, BootTypes
    <2> QED
      BY <1>1, <2>1, <2>2, <2>3, StageKeeps
  <1>2. Founded(wired)
    BY DEF BootInv
  <1>3. screens \in BOOLEAN
    BY BootTypes
  <1>4. CASE B!StocksStage
    <2> DEFINE on == B!Only(B!Set("stocks"), {"stocks", "backing"})
    <2>1. B!Goes("stocks", on, on) /\ UNCHANGED B!kept
      BY <1>4 DEF B!StocksStage, B!Stage
    <2>2. Founded(wired \cup on) /\ "durable" \notin on
      BY <1>2 DEF Founded, B!Only
    <2> HIDE DEF on
    <2> QED
      BY <1>1, <1>3, <2>1, <2>2 DEF B!kept
  <1>5. CASE B!PythStage
    <2> DEFINE on == B!Only(B!Set("pyth") /\ B!Has("stocks"), {"pyth"})
    <2>1. B!Goes("pyth", on, on) /\ UNCHANGED B!kept
      BY <1>5 DEF B!PythStage, B!Stage
    <2>2. Founded(wired \cup on) /\ "durable" \notin on
      BY <1>2 DEF Founded, B!Only, B!Has, B!Set
    <2> HIDE DEF on
    <2> QED
      BY <1>1, <1>3, <2>1, <2>2 DEF B!kept
  <1>6. CASE B!DexStage
    <2> DEFINE on == B!Only(B!Set("dex") /\ B!Has("pyth") /\ B!Set("evm_rpc"), {"dex"})
    <2>1. B!Goes("dex", on, on) /\ UNCHANGED B!kept
      BY <1>6 DEF B!DexStage, B!Stage
    <2>2. Founded(wired \cup on) /\ "durable" \notin on
      BY <1>2 DEF Founded, B!Only, B!Has, B!Set
    <2> HIDE DEF on
    <2> QED
      BY <1>1, <1>3, <2>1, <2>2 DEF B!kept
  <1>7. CASE B!HoneypotStage
    <2> DEFINE on == B!Only(B!Set("honeypot") /\ B!Set("evm_rpc"), {"honeypot"})
    <2>1. B!Goes("honeypot", on, on) /\ UNCHANGED B!kept
      BY <1>7 DEF B!HoneypotStage, B!Stage
    <2>2. Founded(wired \cup on) /\ "durable" \notin on
      BY <1>2 DEF Founded, B!Only
    <2> HIDE DEF on
    <2> QED
      BY <1>1, <1>3, <2>1, <2>2 DEF B!kept
  <1>8. CASE B!SimStage
    <2> DEFINE runs == B!Set("sim") /\ B!SimChains # {}
               sources == B!Only(runs, {"sim", "auth_sim"})
               on == B!Only(runs, {"sim"})
    <2>1. B!Goes("sim", sources, on) /\ UNCHANGED B!kept
      BY <1>8 DEF B!SimStage, B!Stage
    <2>2. runs => B!Set("sim") /\ (B!Set("base_rpc") \/ B!Set("evm_rpc") \/ B!Set("rpc_node"))
      BY <1>2 DEF Founded, B!SimChains, B!Only, B!Has
    <2> HIDE DEF runs
    <2>3. Founded(wired \cup sources) /\ "durable" \notin sources /\ on \subseteq sources
      BY <1>2, <2>2 DEF Founded, B!Only
    <2> HIDE DEF sources, on
    <2> QED
      BY <1>1, <1>3, <2>1, <2>3 DEF B!kept
  <1>9. ASSUME NEW ok \in BOOLEAN, B!SanctionsStage(ok) PROVE BootInv'
    <2> DEFINE sources == B!Only(B!Set("sanctions"), {"sanctions"})
               on == B!Only(B!Set("sanctions") /\ ok, {"sanctions"})
    <2>1. /\ B!Goes("sanctions", sources, on)
          /\ screens' = (B!Set("sanctions") /\ ok) /\ UNCHANGED <<env, mirror, drained, said>>
      BY <1>9 DEF B!SanctionsStage
    <2>2. Founded(wired \cup sources) /\ "durable" \notin sources /\ on \subseteq sources
      BY <1>2 DEF Founded, B!Only
    <2>3. screens' \in BOOLEAN
      BY <2>1
    <2> HIDE DEF sources, on
    <2> QED
      BY <1>1, <2>1, <2>2, <2>3
  <1>10. ASSUME NEW ok \in BOOLEAN, B!NodeStage(ok) PROVE BootInv'
    <2> DEFINE on == B!Only(B!Set("rpc_node") /\ ok, {"node"})
    <2>1. B!Goes("node", on, on) /\ UNCHANGED B!kept
      BY <1>10 DEF B!NodeStage, B!Stage
    <2>2. Founded(wired \cup on) /\ "durable" \notin on
      BY <1>2 DEF Founded, B!Only
    <2> HIDE DEF on
    <2> QED
      BY <1>1, <1>3, <2>1, <2>2 DEF B!kept
  <1> QED
    BY <1>4, <1>5, <1>6, <1>7, <1>8, <1>9, <1>10

-----------------------------------------------------------------------------
(* The running service, and its end.                                        *)

\* A step of the service that wires nothing.
LEMMA ServingKeeps ==
    ASSUME BootInv, UNCHANGED <<env, stage, wired, banner, code, drained>>,
           screens => screens', screens' \in BOOLEAN,
           mirror'.why = mirror.why, mirror' \in [why : BOOLEAN, failures : 0 .. 1],
           \/ said' = said
           \/ stage = "loop" /\ screens' = screens /\ said'.what = "health"
           \/ stage = "loop" /\ screens' = screens /\ said'.what = "signals" /\ said'.of = B!Signals
           \/ stage = "loop" /\ screens' = screens /\ said'.what = "paths" /\ said'.of = B!OpenapiPaths
    PROVE  BootInv'
  <1>1. B!TypeOK'
    BY DEF BootInv, B!TypeOK
  <1>2. Founded(wired)' /\ LedgerSettled' = LedgerSettled /\ SignerSettled' = SignerSettled
    BY DEF BootInv, Founded, LedgerSettled, SignerSettled, B!Set, B!Has, B!KV
  <1>3. B!Signals \subseteq B!Signals'
    BY DEF B!Signals, B!Only, B!Has
  <1>4. B!OpenapiPaths' = B!OpenapiPaths
    BY DEF B!OpenapiPaths, B!Has, B!Only, B!PublicGetRoutes, B!UnadvertisedRoutes, B!PublicPostRoutes,
           B!BillingPostRoutes
  <1>5. /\ said'.what \in {"none", "health", "signals", "paths"}
        /\ said'.what # "none" => stage \in {"loop"} \cup Stopped
        /\ said'.what = "signals" => said'.of \subseteq B!Signals'
        /\ said'.what = "paths" => said'.of \subseteq B!OpenapiPaths'
    BY <1>3, <1>4 DEF BootInv
  <1> QED
    BY <1>1, <1>2, <1>5 DEF BootInv

LEMMA ServiceSteps ==
    ASSUME BootInv, B!RefreshLands \/ B!MirrorFails \/ B!Health \/ B!Descriptor \/ B!Openapi
    PROVE  BootInv'
  <1>1. screens \in BOOLEAN /\ mirror \in [why : BOOLEAN, failures : 0 .. 1]
    BY BootTypes
  <1>2. CASE B!RefreshLands
    BY <1>1, <1>2, ServingKeeps DEF B!RefreshLands
  <1>3. CASE B!MirrorFails
    <2>1. mirror' = [mirror EXCEPT !.failures = 1] /\ UNCHANGED <<env, stage, wired, banner, screens, code, drained, said>>
      BY <1>3 DEF B!MirrorFails
    <2>2. mirror'.why = mirror.why /\ mirror' \in [why : BOOLEAN, failures : 0 .. 1]
      BY <1>1, <2>1
    <2> QED
      BY <1>1, <2>1, <2>2, ServingKeeps
  <1>4. ASSUME NEW what, NEW of, B!Says(what, of)
        PROVE  /\ stage = "loop" /\ said'.what = what /\ said'.of = of
               /\ UNCHANGED <<env, stage, wired, banner, screens, mirror, code, drained>>
    BY <1>4 DEF B!Says, B!Serving
  <1>5. CASE B!Health
    <2>1. B!Says("health", {B!DescribeHealth, B!FacilitatorHealth})
      BY <1>5 DEF B!Health
    <2> QED
      BY <1>1, <1>4, <2>1, ServingKeeps
  <1>6. CASE B!Descriptor
    <2>1. B!Says("signals", B!Signals)
      BY <1>6 DEF B!Descriptor
    <2> QED
      BY <1>1, <1>4, <2>1, ServingKeeps
  <1>7. CASE B!Openapi
    <2>1. B!Says("paths", B!OpenapiPaths)
      BY <1>7 DEF B!Openapi
    <2> QED
      BY <1>1, <1>4, <2>1, ServingKeeps
  <1> QED
    BY <1>2, <1>3, <1>5, <1>6, <1>7

LEMMA StopSteps ==
    ASSUME BootInv, B!KilledAtBoot \/ B!Interrupted \/ B!Drain \/ B!InterruptedAgain
    PROVE  BootInv'
  <1>1. code \in {0, 1, 2, 130, 143} /\ drained \in BOOLEAN
    BY BootTypes
  <1>2. code' \in {0, 1, 2, 130, 143}
    BY <1>1 DEF B!KilledAtBoot, B!Interrupted, B!Drain, B!InterruptedAgain
  <1>3. stage' \in Stopped
    BY DEF B!KilledAtBoot, B!Interrupted, B!Drain, B!InterruptedAgain, Stopped
  <1>4. drained' \in BOOLEAN
    <2>1. CASE B!Drain
      BY <2>1 DEF B!Drain, B!Has
    <2>2. CASE ~ B!Drain
      <3>1. drained' = drained
        BY <2>2 DEF B!KilledAtBoot, B!Interrupted, B!InterruptedAgain, B!kept
      <3> QED
        BY <1>1, <3>1
    <2> QED
      BY <2>1, <2>2
  <1>5. UNCHANGED <<env, wired, banner, screens, mirror, said>>
    BY DEF B!KilledAtBoot, B!Interrupted, B!Drain, B!InterruptedAgain, B!kept
  <1> QED
    BY <1>2, <1>3, <1>4, <1>5, StopKeeps

LEMMA BootBegins == B!Init => BootInv
  <1> SUFFICES ASSUME B!Init PROVE BootInv
    OBVIOUS
  <1>1. /\ stage = B!Stages[1] /\ wired = {} /\ banner = {} /\ screens = FALSE
        /\ mirror = [why |-> FALSE, failures |-> 0]
        /\ code = 0 /\ drained = FALSE /\ said = [what |-> "none", of |-> {}]
    BY DEF B!Init
  <1>2. stage = "ledger"
    BY <1>1 DEF B!Stages
  <1>3. B!TypeOK
    <2>1. 0 \in {0, 1, 2, 130, 143} /\ 0 \in 0 .. 1
      OBVIOUS
    <2>2. mirror \in [why : BOOLEAN, failures : 0 .. 1]
      BY <1>1, <2>1
    <2>3. stage \in B!Range(B!Stages)
      BY <1>2, NextStage DEF AllStages
    <2> QED
      BY <1>1, <2>1, <2>2, <2>3 DEF B!TypeOK
  <1>4. Founded(wired)
    BY <1>1 DEF Founded
  <1> QED
    BY <1>1, <1>2, <1>3, <1>4 DEF BootInv

LEMMA BootStep == BootInv /\ [B!Next]_bootVars => BootInv'
  <1> SUFFICES ASSUME BootInv, [B!Next]_bootVars PROVE BootInv'
    OBVIOUS
  <1>1. CASE B!BootStage
    <2>1. ASSUME NEW ok \in BOOLEAN, B!LedgerStage(ok) PROVE BootInv'
      BY <2>1, LedgerKeeps
    <2> QED
      BY <1>1, <2>1, SignerKeeps, PlainStages, NamedStages DEF B!BootStage
  <1>2. CASE UNCHANGED bootVars
    <2>1. mirror \in [why : BOOLEAN, failures : 0 .. 1] /\ screens \in BOOLEAN
      BY BootTypes
    <2> QED
      BY <1>2, <2>1, ServingKeeps DEF bootVars
  <1> QED
    BY <1>1, <1>2, ServiceSteps, StopSteps DEF B!Next

LEMMA BootIsSound == BootInv => B!TypeOK /\ B!BootSound
  <1> SUFFICES ASSUME BootInv PROVE B!TypeOK /\ B!BootSound
    OBVIOUS
  <1>1. B!Serving => LedgerSettled /\ SignerSettled
    BY DEF BootInv, B!Serving, Stopped
  <1>2. B!NoSilentDowngrade
    BY <1>1 DEF B!NoSilentDowngrade, LedgerSettled, SignerSettled
  <1>3. B!AdvertisedCanFire
    <2> SUFFICES ASSUME said.what = "signals"
                 PROVE  /\ "settlement-simulation" \in said.of =>
                             B!Set("sim") /\ (B!Set("base_rpc") \/ B!Set("evm_rpc") \/ B!Set("rpc_node"))
                        /\ "honeypot-exit-check" \in said.of => B!Set("honeypot") /\ B!Set("evm_rpc")
                        /\ "dex-market-peg" \in said.of => {"dex", "pyth", "stocks", "evm_rpc"} \subseteq env
                        /\ "sanctions-ofac" \in said.of => B!Set("sanctions") /\ screens
      BY DEF B!AdvertisedCanFire
    <2>1. said.of \subseteq B!Signals /\ Founded(wired)
      BY DEF BootInv
    <2>2. /\ "settlement-simulation" \in B!Signals => "sim" \in wired
          /\ "honeypot-exit-check" \in B!Signals => "honeypot" \in wired
          /\ "dex-market-peg" \in B!Signals => "dex" \in wired
          /\ "sanctions-ofac" \in B!Signals => "sanctions" \in wired /\ screens
      BY DEF B!Signals, B!Only, B!Has
    <2> QED
      BY <2>1, <2>2 DEF Founded
  <1>4. B!BannerIsTrue
    <2>1. banner \ {"readiness"} \subseteq wired
      BY DEF BootInv
    <2>2. B!DescribeHealth = "durable" => B!Has("durable") /\ ~ mirror.why /\ ~ (mirror.failures > 0)
      BY DEF B!DescribeHealth
    <2>3. mirror.failures \in 0 .. 1
      BY BootTypes
    <2>4. ~ (mirror.failures > 0) => mirror.failures = 0
      BY <2>3
    <2> QED
      BY <1>1, <2>1, <2>2, <2>4 DEF B!BannerIsTrue, LedgerSettled
  <1>5. B!ListedIsServed
    <2> SUFFICES ASSUME said.what = "paths", NEW r \in said.of \ {"/v1/seller/revoke"} PROVE B!AnswersTo(r) # 404
      BY DEF B!ListedIsServed
    <2>1. r \in B!OpenapiPaths
      BY DEF BootInv
    <2>2. \/ r \in B!PublicGetRoutes
          \/ r \in B!PublicPostRoutes
          \/ r = "/v1/session" /\ B!Has("billing")
      BY <2>1 DEF B!OpenapiPaths, B!Only, B!BillingPostRoutes
    <2>3. CASE r \in B!PublicGetRoutes
      <3>1. /\ r # "/v1/session" /\ r # "/v1/seller/revoke"
            /\ r # "/v1/report-outcome" /\ r # "/v1/screen-payer"
        BY <2>3 DEF B!PublicGetRoutes
      <3> QED
        BY <2>3, <3>1 DEF B!AnswersTo
    <2>4. CASE r \notin B!PublicGetRoutes /\ r \in B!PublicPostRoutes
      <3>1. r # "/v1/session" /\ r # "/v1/seller/revoke"
        BY <2>4 DEF B!PublicPostRoutes
      <3> QED
        BY <2>4, <3>1 DEF B!AnswersTo
    <2>5. CASE r = "/v1/session" /\ B!Has("billing")
      <3>1. /\ r \notin B!PublicGetRoutes /\ r \in B!BillingPostRoutes
            /\ r # "/v1/seller/revoke" /\ r # "/v1/report-outcome" /\ r # "/v1/screen-payer"
        BY <2>5 DEF B!PublicGetRoutes, B!BillingPostRoutes
      <3> QED
        BY <2>5, <3>1 DEF B!AnswersTo
    <2> QED
      BY <2>2, <2>3, <2>4, <2>5
  <1> QED
    BY <1>2, <1>3, <1>4, <1>5 DEF B!BootSound, BootInv

-----------------------------------------------------------------------------
(* The store.                                                               *)

LEMMA ChainTypes ==
    ASSUME StoreInv, NEW p \in Payees
    PROVE  /\ chain[p] \in Seq(Chained) /\ Len(chain[p]) \in Nat /\ DOMAIN chain[p] = 1 .. Len(chain[p])
           /\ Len(chain[p]) <= MaxChain /\ MaxChain \in Nat
           /\ IsFiniteSet(Usdc(p)) /\ Cardinality(Usdc(p)) \in Nat /\ Cardinality(Usdc(p)) <= MaxChain
  <1>1. /\ chain[p] \in Seq(Chained) /\ Len(chain[p]) \in Nat /\ DOMAIN chain[p] = 1 .. Len(chain[p])
        /\ Len(chain[p]) <= MaxChain /\ MaxChain \in Nat
    BY StoreAssumption DEF StoreInv, StoreTypeOK
  <1>2. IsFiniteSet(1 .. Len(chain[p])) /\ Cardinality(1 .. Len(chain[p])) = Len(chain[p])
    BY <1>1, CountTo
  <1>3. Usdc(p) \in SUBSET (1 .. Len(chain[p]))
    BY <1>1 DEF Usdc
  <1>4. IsFiniteSet(Usdc(p)) /\ Cardinality(Usdc(p)) <= Len(chain[p])
    BY <1>2, <1>3, FS_Subset
  <1>5. Cardinality(Usdc(p)) \in Nat
    BY <1>4, FS_CardinalityType
  <1> QED
    BY <1>1, <1>4, <1>5

\* What the newest page brings is USDC the payee was paid, each transfer at its position.
LEMMA InboundIsPaid ==
    ASSUME StoreInv, NEW p \in Payees
    PROVE  /\ \A x \in RecentInbound(p) :
                 /\ x = <<p, x[2]>> /\ x[1] = p /\ x[2] \in 1 .. MaxChain
                 /\ x[2] <= Len(chain[p]) /\ chain[p][x[2]].usdc
           /\ Cardinality(RecentInbound(p)) \in Nat
           /\ Cardinality(RecentInbound(p)) <= Cardinality(Usdc(p))
  <1> DEFINE S == RecentInbound(p)
             f == [x \in S |-> x[2]]
  <1>1. \A x \in S : /\ x = <<p, x[2]>> /\ x[1] = p /\ x[2] \in 1 .. MaxChain
                     /\ x[2] <= Len(chain[p]) /\ chain[p][x[2]].usdc
    BY ChainTypes DEF RecentInbound, ExtractUsdcTransfers, Page
  <1>2. \A x \in S : x[2] \in Usdc(p)
    BY <1>1, ChainTypes DEF Usdc
  <1>3. \A x, y \in S : x[2] = y[2] => x = y
    BY <1>1
  <1> HIDE DEF S
  <1>4. f \in Injection(S, Usdc(p))
    BY <1>2, <1>3 DEF Injection, IsInjective
  <1>5. IsFiniteSet(S) /\ Cardinality(S) <= Cardinality(Usdc(p))
    BY <1>4, ChainTypes, FS_Injection
  <1>6. Cardinality(S) \in Nat
    BY <1>5, FS_CardinalityType
  <1> QED
    BY <1>1, <1>5, <1>6 DEF S

\* A new transfer at the end of a chain leaves every stored row what it was.
LEMMA PaidKeeps ==
    ASSUME StoreInv, NEW p \in Payees, NEW t \in Transfers, Paid(p, t)
    PROVE  StoreInv'
  <1> DEFINE new == [tx |-> t.tx, payer |-> t.payer, usdc |-> t.usdc, day |-> day]
  <1>1. new \in Chained
    BY StoreAssumption DEF StoreInv, StoreTypeOK, Chained
  <1>2. /\ Len(chain[p]) < MaxChain
        /\ chain' = [chain EXCEPT ![p] = Append(chain[p], new)]
        /\ day' = day /\ schema' = schema /\ table' = table /\ age' = age /\ memo' = memo
    BY DEF Paid
  <1>3. chain \in [Payees -> Seq(Chained)]
    BY DEF StoreInv
  <1>4. chain[p] \in Seq(Chained)
    BY <1>3
  <1> HIDE DEF new
  <1>5. /\ Append(chain[p], new) \in Seq(Chained)
        /\ Len(Append(chain[p], new)) = Len(chain[p]) + 1
        /\ \A n \in 1 .. Len(chain[p]) : Append(chain[p], new)[n] = chain[p][n]
    BY <1>1, <1>4, AppendProperties
  <1>6. chain' \in [Payees -> Seq(Chained)]
    BY <1>2, <1>3, <1>5
  <1>7. \A q \in Payees : q # p => chain'[q] = chain[q]
    BY <1>2, <1>3
  <1>8. chain'[p] = Append(chain[p], new)
    BY <1>2, <1>3
  <1>9. ASSUME NEW q \in Payees
        PROVE  /\ Len(chain[q]) \in Nat /\ Len(chain'[q]) \in Nat
               /\ Len(chain[q]) <= Len(chain'[q]) /\ Len(chain'[q]) <= MaxChain
               /\ \A n \in 1 .. Len(chain[q]) : chain'[q][n] = chain[q][n]
    <2>1. Len(chain[q]) \in Nat /\ Len(chain[q]) <= MaxChain /\ MaxChain \in Nat
      BY ChainTypes
    <2>2. CASE q = p
      BY <1>2, <1>5, <1>8, <2>1, <2>2
    <2>3. CASE q # p
      BY <1>7, <2>1, <2>3
    <2> QED
      BY <2>2, <2>3
  <1>10. \A r \in table : /\ r[1] \in Payees /\ r[2] \in 1 .. MaxChain /\ r[2] <= Len(chain[r[1]])
                          /\ r \in AllRows
    BY DEF StoreInv, StoreTypeOK, AllRows
  <1>11. \A r \in table : r[2] \in 1 .. Len(chain[r[1]])
    BY <1>9, <1>10
  <1>12. \A r \in table : chain'[r[1]][r[2]] = chain[r[1]][r[2]]
    BY <1>9, <1>10, <1>11
  <1>13. \A q \in Payees : Usdc(q) \subseteq Usdc(q)'
    <2> SUFFICES ASSUME NEW q \in Payees, NEW n \in Usdc(q) PROVE n \in Usdc(q)'
      OBVIOUS
    <2>1. n \in 1 .. Len(chain[q]) /\ chain[q][n].usdc
      BY ChainTypes DEF Usdc
    <2>2. chain'[q] \in Seq(Chained)
      BY <1>6
    <2>3. DOMAIN chain'[q] = 1 .. Len(chain'[q])
      BY <2>2
    <2>4. n \in DOMAIN chain'[q] /\ chain'[q][n].usdc
      BY <1>9, <2>1, <2>3
    <2> QED
      BY <2>4 DEF Usdc
  <1>14. \A q \in Payees : Cardinality(Usdc(q)) \in Nat /\ Cardinality(Usdc(q)') \in Nat
                           /\ Cardinality(Usdc(q)) <= Cardinality(Usdc(q)')
    <2> SUFFICES ASSUME NEW q \in Payees
                 PROVE  Cardinality(Usdc(q)) \in Nat /\ Cardinality(Usdc(q)') \in Nat
                        /\ Cardinality(Usdc(q)) <= Cardinality(Usdc(q)')
      OBVIOUS
    <2>1. DOMAIN chain'[q] = 1 .. Len(chain'[q])
      BY <1>6
    <2>2. Usdc(q)' \in SUBSET (1 .. Len(chain'[q]))
      BY <2>1 DEF Usdc
    <2>3. IsFiniteSet(1 .. Len(chain'[q]))
      BY <1>9, CountTo
    <2>4. IsFiniteSet(Usdc(q)')
      BY <2>2, <2>3, FS_Subset
    <2>5. Usdc(q) \in SUBSET (Usdc(q)')
      BY <1>13
    <2>6. Cardinality(Usdc(q)) <= Cardinality(Usdc(q)')
      BY <2>4, <2>5, FS_Subset
    <2> QED
      BY <2>4, <2>6, ChainTypes, FS_CardinalityType
  <1>15. StoreTypeOK'
    <2>1. table' \subseteq {r \in AllRows : r[2] <= Len(chain'[r[1]])}
      <3> SUFFICES ASSUME NEW r \in table PROVE r \in AllRows /\ r[2] <= Len(chain'[r[1]])
        BY <1>2
      <3>1. r[1] \in Payees /\ r[2] \in 1 .. MaxChain /\ r[2] <= Len(chain[r[1]]) /\ r \in AllRows
        BY <1>10
      <3>2. Len(chain[r[1]]) \in Nat /\ Len(chain'[r[1]]) \in Nat /\ Len(chain[r[1]]) <= Len(chain'[r[1]])
        BY <1>9, <3>1
      <3>3. r[2] \in Nat
        BY <3>1
      <3> QED
        BY <3>1, <3>2, <3>3
    <2>2. \A q \in Payees : Len(chain'[q]) <= MaxChain
      BY <1>9
    <2> QED
      BY <1>2, <2>1, <2>2 DEF StoreInv, StoreTypeOK
  <1>16. \A q \in Payees : \A n \in memo'[q] : n <= Cardinality(Usdc(q)')
    <2> SUFFICES ASSUME NEW q \in Payees, NEW n \in memo[q] PROVE n <= Cardinality(Usdc(q)')
      BY <1>2
    <2>1. n \in Nat /\ n <= Cardinality(Usdc(q))
      BY DEF StoreInv
    <2> QED
      BY <1>14, <2>1
  <1>17. ASSUME NEW x \in table', NEW y \in table', x # y PROVE ~ SameKey(x, y, schema)'
    <2>1. x \in table /\ y \in table
      BY <1>2
    <2>2. ~ SameKey(x, y, schema)
      BY <1>17, <2>1 DEF StoreInv
    <2>3. chain'[x[1]][x[2]] = chain[x[1]][x[2]] /\ chain'[y[1]][y[2]] = chain[y[1]][y[2]]
      BY <1>12, <2>1
    <2> QED
      BY <1>2, <2>2, <2>3 DEF SameKey
  <1> QED
    BY <1>2, <1>6, <1>12, <1>15, <1>16, <1>17 DEF StoreInv

LEMMA IngestKeeps ==
    ASSUME StoreInv, NEW p \in Payees, LookupIngests(p)
    PROVE  StoreInv'
  <1> DEFINE xs == RecentInbound(p)
  <1>1. /\ table' = IngestTransfers(table, xs, schema)
        /\ age' = [age EXCEPT ![p] = 0]
        /\ chain' = chain /\ day' = day /\ schema' = schema /\ memo' = memo
    BY DEF LookupIngests
  <1>2. \A x \in xs : /\ x = <<p, x[2]>> /\ x[1] = p /\ x[2] \in 1 .. MaxChain
                      /\ x[2] <= Len(chain[p]) /\ chain[p][x[2]].usdc
    BY InboundIsPaid
  <1> HIDE DEF xs
  <1>3. \A r \in table' : r \in table \/ r \in xs
    BY <1>1 DEF IngestTransfers
  <1>4. \A r \in table : chain[r[1]][r[2]].usdc /\ r \in AllRows /\ r[2] <= Len(chain[r[1]])
    BY DEF StoreInv, StoreTypeOK
  <1>5. \A x \in xs : x \in AllRows
    BY <1>2 DEF AllRows
  <1>6. \A r \in table' : chain[r[1]][r[2]].usdc /\ r \in AllRows /\ r[2] <= Len(chain[r[1]])
    BY <1>2, <1>3, <1>4, <1>5
  <1>7. \A x, y : SameKey(x, y, schema) => SameKey(y, x, schema)
    BY DEF SameKey
  <1>8. ASSUME NEW x \in table', NEW y \in table', x # y PROVE ~ SameKey(x, y, schema)
    <2>1. CASE x \in table /\ y \in table
      BY <1>8, <2>1 DEF StoreInv
    <2>2. CASE x \in table /\ y \notin table
      BY <1>1, <1>7, <2>2 DEF IngestTransfers
    <2>3. CASE x \notin table /\ y \in table
      BY <1>1, <2>3 DEF IngestTransfers
    <2>4. CASE x \notin table /\ y \notin table
      <3>1. /\ x \in xs /\ y \in xs
            /\ y[2] > x[2] => ~ SameKey(x, y, schema)
            /\ x[2] > y[2] => ~ SameKey(y, x, schema)
        BY <1>1, <2>4 DEF IngestTransfers
      <3>2. x[2] # y[2] /\ x[2] \in Nat /\ y[2] \in Nat
        BY <1>2, <1>8, <3>1
      <3>3. y[2] > x[2] \/ x[2] > y[2]
        BY <3>2
      <3> QED
        BY <1>7, <3>1, <3>3
    <2> QED
      BY <2>1, <2>2, <2>3, <2>4
  <1>9. age' \in [Payees -> 0 .. RefreshAfter]
    <2>1. 0 \in 0 .. RefreshAfter
      BY StoreAssumption
    <2> QED
      BY <1>1, <2>1 DEF StoreInv, StoreTypeOK
  <1>10. StoreTypeOK'
    BY <1>1, <1>6, <1>9 DEF StoreInv, StoreTypeOK, AllRows
  <1>11. \A q \in Payees : Usdc(q)' = Usdc(q)
    BY <1>1 DEF Usdc
  <1> QED
    BY <1>1, <1>6, <1>8, <1>10, <1>11 DEF StoreInv, SameKey

\* A step that leaves the chains and the rows alone.
LEMMA RowsUntouched ==
    ASSUME StoreInv,
           chain' = chain, table' = table,
           schema' = schema \/ schema' = "payer_key",
           day' \in 0 .. MaxDay,
           age' \in [Payees -> 0 .. RefreshAfter],
           memo' \in [Payees -> SUBSET Nat],
           \A q \in Payees : \A n \in memo'[q] : n <= Cardinality(Usdc(q))
    PROVE  StoreInv'
  <1>1. \A q \in Payees : Usdc(q)' = Usdc(q)
    BY DEF Usdc
  <1>2. \A x, y \in table : x # y => ~ SameKey(x, y, schema)'
    BY DEF StoreInv, SameKey
  <1>3. \A q \in Payees : memo'[q] \subseteq 0 .. MaxChain
    <2> SUFFICES ASSUME NEW q \in Payees, NEW n \in memo'[q] PROVE n \in 0 .. MaxChain
      OBVIOUS
    <2>1. n \in Nat /\ n <= Cardinality(Usdc(q))
      OBVIOUS
    <2>2. Cardinality(Usdc(q)) \in Nat /\ Cardinality(Usdc(q)) <= MaxChain /\ MaxChain \in Nat
      BY ChainTypes
    <2> QED
      BY <2>1, <2>2
  <1>4. StoreTypeOK'
    BY <1>3 DEF StoreInv, StoreTypeOK, AllRows
  <1> QED
    BY <1>1, <1>2, <1>4 DEF StoreInv

LEMMA TableInit == StoreInit => StoreInv
  <1> SUFFICES ASSUME StoreInit PROVE StoreInv
    OBVIOUS
  <1>1. /\ chain = [p \in Payees |-> <<>>] /\ day = 0
        /\ schema \in {"legacy", "payer_key"} /\ table = {}
        /\ age = [p \in Payees |-> RefreshAfter] /\ memo = [p \in Payees |-> {}]
    BY DEF StoreInit
  <1>2. <<>> \in Seq(Chained) /\ Len(<<>>) = 0
    OBVIOUS
  <1>3. MaxChain \in Nat /\ MaxDay \in Nat /\ RefreshAfter \in Nat
    BY StoreAssumption
  <1>4. \A p \in Payees : Len(chain[p]) <= MaxChain
    BY <1>1, <1>2, <1>3
  <1>5. 0 \in 0 .. MaxDay /\ RefreshAfter \in 0 .. RefreshAfter
    BY <1>3
  <1>6. chain \in [Payees -> Seq(Chained)]
    BY <1>1, <1>2
  <1>7. StoreTypeOK
    BY <1>1, <1>4, <1>5 DEF StoreTypeOK
  <1> QED
    BY <1>1, <1>6, <1>7 DEF StoreInv

LEMMA TableStep == StoreInv /\ [StoreNext]_storeVars => StoreInv'
  <1> SUFFICES ASSUME StoreInv, [StoreNext]_storeVars PROVE StoreInv'
    OBVIOUS
  <1>1. /\ schema \in {"legacy", "payer_key"} /\ day \in 0 .. MaxDay
        /\ age \in [Payees -> 0 .. RefreshAfter]
        /\ memo \in [Payees -> SUBSET Nat]
        /\ \A q \in Payees : \A n \in memo[q] : n <= Cardinality(Usdc(q))
    BY DEF StoreInv, StoreTypeOK
  <1>2. MaxDay \in Nat /\ RefreshAfter \in Nat \ {0}
    BY StoreAssumption
  <1>3. 0 \in 0 .. RefreshAfter
    BY <1>2
  <1>4. ASSUME NEW p \in Payees, NEW t \in Transfers, Paid(p, t) PROVE StoreInv'
    BY <1>4, PaidKeeps
  <1>5. ASSUME NEW p \in Payees, LookupIngests(p) PROVE StoreInv'
    BY <1>5, IngestKeeps
  <1>6. ASSUME NEW p \in Payees, LookupIngestFails(p) PROVE StoreInv'
    <2>1. age' \in [Payees -> 0 .. RefreshAfter]
      BY <1>1, <1>3, <1>6 DEF LookupIngestFails
    <2> QED
      BY <1>1, <1>6, <2>1, RowsUntouched DEF LookupIngestFails
  <1>7. ASSUME NEW p \in Payees, NEW fetched \in BOOLEAN, OnchainLookup(p, fetched) PROVE StoreInv'
    <2>1. /\ memo' = [memo EXCEPT ![p] = {DeriveRecord(p, fetched)}]
          /\ chain' = chain /\ table' = table /\ schema' = schema /\ day' = day /\ age' = age
      BY <1>7 DEF OnchainLookup
    <2>2. Cardinality(Usdc(p)) \in Nat
      BY ChainTypes
    <2>3. DeriveRecord(p, fetched) \in Nat /\ DeriveRecord(p, fetched) <= Cardinality(Usdc(p))
      BY <2>2, InboundIsPaid DEF DeriveRecord
    <2>4. memo' \in [Payees -> SUBSET Nat]
          /\ \A q \in Payees : \A n \in memo'[q] : n <= Cardinality(Usdc(q))
      BY <1>1, <2>1, <2>3
    <2> QED
      BY <1>1, <2>1, <2>4, RowsUntouched
  <1>8. ASSUME NEW p \in Payees, OnchainExpires(p) PROVE StoreInv'
    <2>1. memo' \in [Payees -> SUBSET Nat]
          /\ \A q \in Payees : \A n \in memo'[q] : n <= Cardinality(Usdc(q))
      BY <1>1, <1>8 DEF OnchainExpires
    <2> QED
      BY <1>1, <1>8, <2>1, RowsUntouched DEF OnchainExpires
  <1>9. CASE NextDay
    <2>1. day' \in 0 .. MaxDay
      BY <1>1, <1>2, <1>9 DEF NextDay
    <2> QED
      BY <1>1, <1>9, <2>1, RowsUntouched DEF NextDay
  <1>10. CASE Tick
    <2>1. ASSUME NEW p \in Payees PROVE Min({RefreshAfter, age[p] + 1}) \in 0 .. RefreshAfter
      <3> DEFINE n == age[p] + 1
      <3>1. age[p] \in 0 .. RefreshAfter
        BY <1>1
      <3>2. n \in Nat
        BY <3>1
      <3> HIDE DEF n
      <3>3. CASE n <= RefreshAfter
        <4>1. Min({RefreshAfter, n}) = n
          BY <1>2, <3>2, <3>3, LeastIs
        <4> QED
          BY <1>2, <3>2, <3>3, <4>1 DEF n
      <3>4. CASE ~ (n <= RefreshAfter)
        <4>1. Min({RefreshAfter, n}) = RefreshAfter
          BY <1>2, <3>2, <3>4, LeastIs
        <4> QED
          BY <1>2, <4>1 DEF n
      <3> QED
        BY <3>3, <3>4
    <2>2. age' \in [Payees -> 0 .. RefreshAfter]
      BY <1>10, <2>1 DEF Tick
    <2> QED
      BY <1>1, <1>10, <2>2, RowsUntouched DEF Tick
  <1>11. CASE Migrate
    BY <1>1, <1>11, RowsUntouched DEF Migrate
  <1>12. CASE MigrateFails
    BY <1>1, <1>12, RowsUntouched DEF MigrateFails, storeVars
  <1>13. CASE UNCHANGED storeVars
    BY <1>1, <1>13, RowsUntouched DEF storeVars
  <1> QED
    BY <1>4, <1>5, <1>6, <1>7, <1>8, <1>9, <1>10, <1>11, <1>12, <1>13 DEF StoreNext

LEMMA TableSound == StoreInv => StoreTypeOK /\ NothingInvented
  BY DEF StoreInv, NothingInvented, Usdc

-----------------------------------------------------------------------------
(* The whole process: one part takes a step, the others stay as they are.   *)

LEMMA RuntimeBegins == RuntimeInit => RIInv
  <1> SUFFICES ASSUME RuntimeInit PROVE RIInv
    OBVIOUS
  <1>1. StoreInit /\ N!Init /\ B!Init /\ W!Init
    BY DEF RuntimeInit
  <1> QED
    BY <1>1, NodeInit, WalkInit, BootBegins, TableInit DEF RIInv

LEMMA RuntimeStep == RIInv /\ [RuntimeNext]_all => RIInv'
  <1> SUFFICES ASSUME RIInv, [RuntimeNext]_all PROVE RIInv'
    OBVIOUS
  <1>1. /\ [N!Next]_nodeVars /\ [W!Next]_walkVars
        /\ [B!Next]_bootVars /\ [StoreNext]_storeVars
    <2>1. CASE part = "store" /\ StoreNext /\ UNCHANGED <<nodeVars, bootVars, walkVars>>
      BY <2>1
    <2>2. CASE part = "node" /\ N!Next /\ UNCHANGED <<storeVars, bootVars, walkVars>>
      BY <2>2
    <2>3. CASE part = "boot" /\ B!Next /\ UNCHANGED <<storeVars, nodeVars, walkVars>>
      BY <2>3
    <2>4. CASE part = "walk" /\ W!Next /\ UNCHANGED <<storeVars, nodeVars, bootVars>>
      BY <2>4
    <2>5. CASE UNCHANGED all
      BY <2>5 DEF all
    <2> QED
      BY <2>1, <2>2, <2>3, <2>4, <2>5 DEF RuntimeNext
  <1>2. NodeInv /\ WalkInv /\ BootInv /\ StoreInv
    BY DEF RIInv
  <1> QED
    BY <1>1, <1>2, NodeStep, WalkStep, BootStep, TableStep DEF RIInv

LEMMA RuntimeHolds == RuntimeSpec => []RIInv
  <1>1. RuntimeInit => RIInv
    BY RuntimeBegins
  <1>2. RIInv /\ [RuntimeNext]_all => RIInv'
    BY RuntimeStep
  <1> QED
    BY <1>1, <1>2, PTL DEF RuntimeSpec

\* Every part keeps its types.
THEOREM RuntimeTypes == RuntimeSpec => []RuntimeTypeOK
  <1>1. RIInv => RuntimeTypeOK
    BY NodeSound, WalkSound, BootIsSound, TableSound DEF RIInv, RuntimeTypeOK
  <1> QED
    BY <1>1, RuntimeHolds, PTL

\* The node sends a call upstream once at a time and serves nothing older than its time to
\* live and its lag allow, the store credits a payee only with USDC it was paid, a walk
\* returns all of a history or none, and a service serves as it was configured and
\* announced: whatever the threads, calls, payees, histories and deployments.
THEOREM RuntimeIsSound == RuntimeSpec => []RuntimeSound
  <1>1. RIInv => RuntimeSound
    BY NodeSound, WalkSound, BootIsSound, TableSound DEF RIInv, RuntimeSound
  <1> QED
    BY <1>1, RuntimeHolds, PTL
==============================================================================
