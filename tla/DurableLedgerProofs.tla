------------------------ MODULE DurableLedgerProofs ------------------------
(***************************************************************************)
(* The safety invariants of DurableLedger for any number of handlers, any  *)
(* queue, retry and hydrate bound and any number of rows, boots and keys.  *)
(***************************************************************************)
EXTENDS DurableLedger, SubsequencesProofs

-----------------------------------------------------------------------------
(* The inductive invariant: the types and the five groups below *)

\* Every row that was sent, whether the store has applied the write or still will.
Sent == {remote[i].row : i \in DOMAIN remote} \cup {w.row : w \in late}

\* Rows are numbered as they are appended, so the next one is new to every place.
Numbered ==
    /\ \A r \in mine : r.n <= next
    /\ \A r \in Elements(local) : r.n <= next
    /\ \A r \in Sent : r.n <= next

Held == \A t \in Threads : hand[t] # NoRow => hand[t].by = t

\* No row is in two places of the queue.
Distinct == \A i, j \in DOMAIN queue : queue[i] = queue[j] /\ queue[i] # Stop => i = j

\* The places of the pipeline and the counters partition the rows of this life; what is
\* counted mirrored is in the store.
Placed ==
    /\ IsFiniteSet(mine)
    /\ mine = Handed \cup Queued \cup InWorker \cup (Mirrored \cap mine) \cup failed \cup dropped
    /\ Handed \cap (Queued \cup InWorker \cup Mirrored \cup failed \cup dropped) = {}
    /\ Queued \cap (InWorker \cup Mirrored \cup failed \cup dropped) = {}
    /\ InWorker \cap (Mirrored \cup failed \cup dropped) = {}
    /\ Mirrored \cap (failed \cup dropped) = {}
    /\ failed \cap dropped = {}
    /\ Held
    /\ Distinct
    /\ acked \subseteq Elements(remote)

\* Rows of different handlers are in no order.
Before(r, q) == r.by = q.by => r.n < q.n

\* A row that shows in the list at j has, before it, a copy of every row of the same
\* handler that was counted mirrored and is older.
ShownBefore(r, j) ==
    r.by = remote[j].row.by /\ r.n < remote[j].row.n => \E i \in 1 .. (j - 1) : remote[i].row = r

\* Rows of a handler leave its hands, the queue and the worker in the order they were
\* appended, so what was sent is older than what waits.
InOrder ==
    /\ \A i, j \in DOMAIN queue :
          i < j /\ queue[i] # Stop /\ queue[j] # Stop => Before(queue[i], queue[j])
    /\ \A r \in InWorker, q \in Queued \cup Handed : Before(r, q)
    /\ \A r \in Queued, q \in Handed : Before(r, q)
    /\ \A s \in Sent : /\ \A r \in Queued \cup Handed : Before(s, r)
                       /\ \A r \in InWorker : s = r \/ Before(s, r)
    /\ \A r \in Mirrored \cap mine, j \in DOMAIN remote : ShownBefore(r, j)

InStore(r) == Cardinality({i \in DOMAIN remote : remote[i].row = r})

InFlight(r) == Cardinality({w \in late : w.row = r})

\* Every copy, in the store or still on its way there, is of an attempt of its own.
Bounded ==
    /\ IsFiniteSet(late)
    /\ \A r \in Rows :
          InStore(r) + InFlight(r) <= IF r \in InWorker THEN worker.try - 1 ELSE MirrorAttempts
    /\ \A r \in Rows : Copies(r, local) <= MirrorAttempts

\* What this life appended is in its file; what an earlier one counted mirrored is too,
\* from the hydrate on and as long as the list fits max_hydrate.
Survives ==
    /\ phase = "boot" => ~hydrated
    /\ phase \in {"down", "boot", "probe"} => mine = {}
    /\ mine \subseteq Elements(local)
    /\ phase \notin {"down", "boot"} /\ hydrated /\ Len(remote) <= MaxHydrate =>
          \A a \in acked : a.key = key => a.row \in Elements(local)

IInv == TypeOK /\ Numbered /\ Placed /\ InOrder /\ Bounded /\ Survives

-----------------------------------------------------------------------------
(* Sequences *)

LEMMA AppendFacts ==
    ASSUME NEW S, NEW s \in Seq(S), NEW x \in S
    PROVE  /\ Append(s, x) \in Seq(S)
           /\ Len(s) \in Nat /\ DOMAIN s = 1 .. Len(s)
           /\ Len(Append(s, x)) = Len(s) + 1
           /\ DOMAIN Append(s, x) = 1 .. (Len(s) + 1)
           /\ DOMAIN Append(s, x) = DOMAIN s \cup {Len(s) + 1}
           /\ \A i \in DOMAIN s : Append(s, x)[i] = s[i]
           /\ Append(s, x)[Len(s) + 1] = x
           /\ Elements(Append(s, x)) = Elements(s) \cup {x}
  <1>1. Append(s, x) \in Seq(S) /\ DOMAIN Append(s, x) = 1 .. (Len(s) + 1) /\ Len(Append(s, x)) = Len(s) + 1
    OBVIOUS
  <1>2. \A i \in 1 .. Len(s) : Append(s, x)[i] = s[i]
    OBVIOUS
  <1>3. Append(s, x)[Len(s) + 1] = x /\ Len(s) \in Nat /\ DOMAIN s = 1 .. Len(s)
    OBVIOUS
  <1>4. 1 .. (Len(s) + 1) = (1 .. Len(s)) \cup {Len(s) + 1}
    BY <1>3
  <1> QED
    BY <1>1, <1>2, <1>3, <1>4 DEF Elements

LEMMA TailFacts ==
    ASSUME NEW S, NEW s \in Seq(S), s # <<>>
    PROVE  /\ Head(s) = s[1] /\ 1 \in DOMAIN s /\ Head(s) \in S
           /\ Tail(s) \in Seq(S)
           /\ Len(Tail(s)) = Len(s) - 1 /\ Len(s) \in Nat
           /\ \A j \in DOMAIN Tail(s) : j + 1 \in DOMAIN s /\ j \in Nat /\ Tail(s)[j] = s[j + 1]
           /\ Elements(s) = Elements(Tail(s)) \cup {Head(s)}
           /\ \A i \in DOMAIN s : i = 1 \/ (i - 1 \in DOMAIN Tail(s) /\ s[i] = Tail(s)[i - 1])
  <1>1. Len(s) \in Nat /\ Len(s) # 0 /\ DOMAIN s = 1 .. Len(s)
    OBVIOUS
  <1>2. Head(s) = s[1] /\ s[1] \in S /\ Tail(s) \in Seq(S) /\ 1 \in DOMAIN s
    BY <1>1
  <1>3. /\ DOMAIN Tail(s) = 1 .. (Len(s) - 1) /\ Len(Tail(s)) = Len(s) - 1
        /\ \A j \in 1 .. (Len(s) - 1) : Tail(s)[j] = s[j + 1]
    BY <1>1
  <1>4. \A j \in 1 .. (Len(s) - 1) : j + 1 \in DOMAIN s /\ j \in Nat
    BY <1>1
  <1>5. ASSUME NEW i \in DOMAIN s PROVE i = 1 \/ (i - 1 \in DOMAIN Tail(s) /\ s[i] = Tail(s)[i - 1])
    <2>1. CASE i # 1
      <3>1. i - 1 \in 1 .. (Len(s) - 1) /\ (i - 1) + 1 = i
        BY <2>1, <1>1
      <3> QED
        BY <3>1, <1>3
    <2> QED
      BY <2>1
  <1>6. Elements(s) = Elements(Tail(s)) \cup {Head(s)}
    <2>1. ASSUME NEW i \in DOMAIN s PROVE s[i] \in Elements(Tail(s)) \cup {Head(s)}
      BY <1>2, <1>5 DEF Elements
    <2>2. ASSUME NEW j \in DOMAIN Tail(s) PROVE Tail(s)[j] \in Elements(s)
      BY <1>3, <1>4 DEF Elements
    <2> QED
      BY <1>2, <2>1, <2>2 DEF Elements
  <1> QED
    BY <1>1, <1>2, <1>3, <1>4, <1>5, <1>6

\* An append adds one position: the count of the positions that hold one of P grows
\* by one when x does.
LEMMA CountAppend ==
    ASSUME NEW S, NEW s \in Seq(S), NEW x \in S, NEW P
    PROVE  LET A == {i \in DOMAIN s : s[i] \in P}
               B == {i \in DOMAIN Append(s, x) : Append(s, x)[i] \in P}
           IN  /\ Cardinality(A) \in Nat
               /\ Cardinality(B) = IF x \in P THEN Cardinality(A) + 1 ELSE Cardinality(A)
  <1> DEFINE A == {i \in DOMAIN s : s[i] \in P}
             B == {i \in DOMAIN Append(s, x) : Append(s, x)[i] \in P}
             m == Len(s) + 1
  <1>1. IsFiniteSet(A) /\ Cardinality(A) \in Nat
    <2>1. Len(s) \in Nat /\ A \in SUBSET (1 .. Len(s))
      BY AppendFacts
    <2>2. IsFiniteSet(1 .. Len(s))
      BY <2>1, FS_Interval
    <2> QED
      BY <2>1, <2>2, FS_Subset, FS_CardinalityType
  <1>2. m \notin A /\ B = IF x \in P THEN A \cup {m} ELSE A
    <2>1. m \notin DOMAIN s
      BY AppendFacts
    <2> QED
      BY <2>1, AppendFacts
  <1> HIDE DEF A, B, m
  <1>3. Cardinality(B) = IF x \in P THEN Cardinality(A) + 1 ELSE Cardinality(A)
    BY <1>1, <1>2, FS_AddElement
  <1> QED
    BY <1>1, <1>3 DEF A, B

-----------------------------------------------------------------------------
(* Types *)

LEMMA SentinelsAreNoRows == Stop \notin Rows /\ NoRow \notin Rows
  <1>1. "close" \notin Threads /\ "none" \notin Threads
    BY DurableAssumption
  <1> QED
    BY <1>1 DEF Stop, NoRow, Rows

LEMMA RowType == ASSUME NEW r \in Rows PROVE r.by \in Threads /\ r.n \in Nat /\ r.n <= MaxRows
  BY DurableAssumption DEF Rows

WorkerStates == [pc : {"idle", "send", "done"}, row : Rows \cup {NoRow}, try : 0 .. MirrorAttempts]

LEMMA IdleType == Idle \in WorkerStates /\ Idle.pc = "idle"
  BY DurableAssumption DEF Idle, WorkerStates

LEMMA AttemptBound == MirrorAttempts \in Nat /\ MirrorAttempts # 0
  BY DurableAssumption

\* A failed attempt: the row is sent again, or it is given up and counted.
LEMMA AttemptFails ==
    ASSUME TypeOK, Sending, GiveUpOrRetry
    PROVE  /\ worker.row \in Rows /\ worker.try \in 1 .. MirrorAttempts
           /\ \/ /\ worker' = [pc |-> "send", row |-> worker.row, try |-> worker.try + 1]
                 /\ worker.try + 1 \in 1 .. MirrorAttempts
                 /\ failed' = failed
              \/ worker' = Idle /\ failed' = failed \cup {worker.row}
  <1>1. worker \in WorkerStates /\ worker.pc = "send" /\ worker.row \in Rows /\ worker.try \in 1 .. MirrorAttempts
    BY DEF TypeOK, Sending, WorkerStates
  <1>2. worker = [pc |-> "send", row |-> worker.row, try |-> worker.try]
    BY <1>1 DEF WorkerStates
  <1>3. CASE worker.try < MirrorAttempts
    <2>1. worker' = [worker EXCEPT !.try = worker.try + 1] /\ failed' = failed
      BY <1>3 DEF GiveUpOrRetry
    <2>2. worker' = [pc |-> "send", row |-> worker.row, try |-> worker.try + 1]
      BY <1>2, <2>1
    <2>3. worker.try + 1 \in 1 .. MirrorAttempts
      BY <1>1, <1>3, AttemptBound
    <2> QED
      BY <1>1, <2>1, <2>2, <2>3
  <1>4. CASE ~(worker.try < MirrorAttempts)
    BY <1>1, <1>4 DEF GiveUpOrRetry
  <1> QED
    BY <1>3, <1>4

LEMMA AttemptType ==
    ASSUME TypeOK, Sending, GiveUpOrRetry
    PROVE  /\ worker' \in WorkerStates
           /\ worker'.pc = "send" => worker'.row \in Rows /\ worker'.try \in 1 .. MirrorAttempts
           /\ failed' \subseteq Rows
  <1>1. failed \subseteq Rows /\ worker.row \in Rows
    BY AttemptFails DEF TypeOK
  <1>2. CASE worker' = Idle /\ failed' = failed \cup {worker.row}
    BY <1>1, <1>2, IdleType
  <1>3. CASE /\ worker' = [pc |-> "send", row |-> worker.row, try |-> worker.try + 1]
             /\ worker.try + 1 \in 1 .. MirrorAttempts
             /\ failed' = failed
    <2>1. worker.try + 1 \in 0 .. MirrorAttempts
      BY <1>3, AttemptBound
    <2> QED
      BY <1>1, <1>3, <2>1 DEF WorkerStates
  <1> QED
    BY <1>2, <1>3, AttemptFails

LEMMA SealType == ASSUME TypeOK, Sending PROVE worker.row \in Rows /\ Seal(worker.row) \in Sealed
  BY DEF TypeOK, Sending, Seal, Sealed

\* What the replay of the list puts into the file: rows of the list, the newest ones.
LEMMA ReadAllType ==
    ASSUME TypeOK
    PROVE  /\ ReadAll(MaxHydrate) \in Seq(Sealed)
           /\ Len(remote) <= MaxHydrate => ReadAll(MaxHydrate) = remote
           /\ \E d \in Nat : /\ Len(remote) = Len(ReadAll(MaxHydrate)) + d
                             /\ \A i \in DOMAIN ReadAll(MaxHydrate) : i + d \in DOMAIN remote
                                                    /\ ReadAll(MaxHydrate)[i] = remote[i + d]
  <1>1. remote \in Seq(Sealed) /\ Len(remote) \in Nat /\ MaxHydrate \in Nat /\ MaxHydrate # 0
    BY DurableAssumption DEF TypeOK
  <1>2. CASE Len(remote) <= MaxHydrate
    <2>1. ReadAll(MaxHydrate) = remote
      BY <1>2 DEF ReadAll
    <2>2. \A i \in DOMAIN remote : i + 0 = i
      BY <1>1
    <2> QED
      BY <1>1, <2>1, <2>2
  <1>3. CASE ~(Len(remote) <= MaxHydrate)
    <2> DEFINE d == Len(remote) - MaxHydrate
    <2>1. ReadAll(MaxHydrate) = SubSeq(remote, d + 1, Len(remote)) /\ d \in Nat
      BY <1>1, <1>3 DEF ReadAll
    <2>2. d + 1 \in 1 .. (Len(remote) + 1) /\ Len(remote) \in d .. Len(remote)
      BY <1>1, <2>1
    <2>3. /\ SubSeq(remote, d + 1, Len(remote)) \in Seq(Sealed)
          /\ Len(SubSeq(remote, d + 1, Len(remote))) = MaxHydrate
          /\ \A i \in 1 .. MaxHydrate : SubSeq(remote, d + 1, Len(remote))[i] = remote[i + d]
      BY <1>1, <2>1, <2>2
    <2>4. \A i \in 1 .. MaxHydrate : i + d \in 1 .. Len(remote)
      BY <1>1, <2>1
    <2>5. Len(remote) = MaxHydrate + d
      BY <1>1
    <2>6. DOMAIN SubSeq(remote, d + 1, Len(remote)) = 1 .. MaxHydrate /\ DOMAIN remote = 1 .. Len(remote)
      BY <1>1, <2>3
    <2> HIDE DEF d
    <2> QED
      BY <2>1, <2>3, <2>4, <2>5, <2>6, <1>3
  <1> QED
    BY <1>2, <1>3

LEMMA RestoredFacts ==
    ASSUME TypeOK
    PROVE  /\ Restored \in Seq(Rows)
           /\ Elements(Restored) \subseteq Sent
           /\ Len(remote) <= MaxHydrate =>
                 \A a \in Elements(remote) : a.key = key => a.row \in Elements(Restored)
           /\ \A r : Copies(r, Restored) <= Cardinality({i \in DOMAIN remote : remote[i].row = r})
  <1> DEFINE rows == ReadAll(MaxHydrate)
             I == {i \in DOMAIN rows : rows[i].key = key}
             opened == Subsequence(rows, I)
             c == Cardinality(I)
  <1>1. /\ rows \in Seq(Sealed)
        /\ Len(remote) <= MaxHydrate => rows = remote
    BY ReadAllType
  <1>2. PICK d \in Nat : \A i \in DOMAIN rows : i + d \in DOMAIN remote /\ rows[i] = remote[i + d]
    BY ReadAllType
  <1>3. I \in SUBSET (DOMAIN rows)
    OBVIOUS
  <1>4. Restored = [i \in DOMAIN opened |-> opened[i].row]
    BY DEF Restored
  <1>5. \A i \in I : rows[i].key = key /\ i \in DOMAIN rows
    OBVIOUS
  <1>6. \A i \in DOMAIN rows : rows[i].key = key => i \in I
    OBVIOUS
  <1>7. \A i \in DOMAIN rows : i \in Nat
    BY <1>1
  <1> HIDE DEF rows, I
  <1>8. /\ opened \in Seq(Sealed) /\ Len(opened) = c /\ DOMAIN opened = 1 .. c
        /\ \A k \in 1 .. c : opened[k] = rows[Nth(I, k)] /\ Nth(I, k) \in I
        /\ \A i \in I : \E k \in 1 .. c : Nth(I, k) = i
    BY <1>1, <1>3, SubsequenceKeeps
  <1>9. \A k, m \in 1 .. c : Nth(I, k) = Nth(I, m) => k = m
    <2>1. I \in SUBSET Nat
      BY <1>5, <1>7
    <2>2. IsFiniteSet(I)
      BY <1>1, <1>3, SubsequenceKeeps
    <2> QED
      BY <2>1, <2>2, NthNumbers
  <1>10. c \in Nat
    BY <1>8
  <1> HIDE DEF opened, c
  <1>11. DOMAIN Restored = 1 .. c /\ \A k \in 1 .. c : Restored[k] = rows[Nth(I, k)].row
    BY <1>4, <1>8
  <1>12. Restored \in Seq(Rows)
    <2>1. \A k \in 1 .. c : opened[k].row \in Rows
      <3>1. \A k \in 1 .. c : opened[k] \in Sealed
        BY <1>8
      <3> QED
        BY <3>1 DEF Sealed
    <2>2. Restored \in [1 .. c -> Rows]
      BY <1>4, <1>8, <2>1
    <2> QED
      BY <1>10, <2>2
  <1>13. \A k \in 1 .. c : Nth(I, k) + d \in DOMAIN remote /\ Restored[k] = remote[Nth(I, k) + d].row
    BY <1>2, <1>5, <1>8, <1>11
  <1>14. Elements(Restored) \subseteq Sent
    BY <1>11, <1>13 DEF Elements, Sent
  <1>15. ASSUME Len(remote) <= MaxHydrate, NEW a \in Elements(remote), a.key = key
         PROVE  a.row \in Elements(Restored)
    <2>1. PICK i \in DOMAIN remote : remote[i] = a
      BY DEF Elements
    <2>2. i \in I /\ rows[i] = a
      BY <1>1, <1>6, <1>15, <2>1
    <2>3. PICK k \in 1 .. c : Nth(I, k) = i
      BY <1>8, <2>2
    <2> QED
      BY <1>11, <2>2, <2>3 DEF Elements
  <1>16. ASSUME NEW r
         PROVE  Copies(r, Restored) <= Cardinality({i \in DOMAIN remote : remote[i].row = r})
    <2> DEFINE A == {k \in DOMAIN Restored : Restored[k] = r}
               B == {i \in DOMAIN remote : remote[i].row = r}
               f == [k \in A |-> Nth(I, k) + d]
    <2>1. \A k \in A : k \in 1 .. c /\ Nth(I, k) + d \in B
      BY <1>11, <1>13
    <2>2. \A k, m \in A : f[k] = f[m] => k = m
      <3> SUFFICES ASSUME NEW k \in A, NEW m \in A, f[k] = f[m] PROVE k = m
        OBVIOUS
      <3>1. Nth(I, k) \in Nat /\ Nth(I, m) \in Nat
        BY <1>5, <1>7, <1>8, <2>1
      <3>2. Nth(I, k) + d = Nth(I, m) + d
        OBVIOUS
      <3> QED
        BY <1>9, <2>1, <3>1, <3>2
    <2>3. f \in Injection(A, B)
      BY <2>1, <2>2 DEF Injection, IsInjective
    <2>4. IsFiniteSet(B)
      <3>1. Len(remote) \in Nat /\ B \in SUBSET (1 .. Len(remote))
        BY DEF TypeOK
      <3>2. IsFiniteSet(1 .. Len(remote))
        BY <3>1, FS_Interval
      <3> QED
        BY <3>1, <3>2, FS_Subset
    <2>5. Cardinality(A) <= Cardinality(B)
      BY <2>3, <2>4, FS_Injection
    <2> QED
      BY <2>5 DEF Copies
  <1> QED
    BY <1>12, <1>14, <1>15, <1>16

LEMMA TypeStep == TypeOK /\ [Next]_vars => TypeOK'
  <1> SUFFICES ASSUME TypeOK, [Next]_vars PROVE TypeOK'
    OBVIOUS
  <1> DEFINE Lates == [row : Rows, key : 1 .. MaxKey, try : 1 .. MirrorAttempts]
  <1>1. ASSUME NEW t \in Threads, WriteLocal(t) PROVE TypeOK'
    <2> DEFINE r == [by |-> t, n |-> next + 1]
    <2>1. r \in Rows /\ next + 1 \in 0 .. MaxRows
      BY <1>1, DurableAssumption DEF WriteLocal, Rows, TypeOK
    <2>2. /\ local' = Append(local, r) /\ hand' = [hand EXCEPT ![t] = r] /\ mine' = mine \cup {r}
          /\ next' = next + 1
          /\ UNCHANGED <<phase, remote, late, key, life, queue, worker, failed, dropped,
                         bootReason, hydrated, acked>>
      BY <1>1 DEF WriteLocal
    <2> HIDE DEF r
    <2> QED
      BY <2>1, <2>2 DEF TypeOK
  <1>2. ASSUME NEW t \in Threads, Enqueue(t) PROVE TypeOK'
    <2>1. hand[t] \in Rows
      BY <1>2 DEF Enqueue, TypeOK
    <2>2. queue' \in Seq(Rows \cup {Stop}) /\ Len(queue') <= QueueMax
      <3>1. queue \in Seq(Rows \cup {Stop}) /\ Len(queue) < QueueMax /\ QueueMax \in Nat
        BY <1>2, DurableAssumption DEF Enqueue, TypeOK
      <3>2. queue' = Append(queue, hand[t]) /\ hand[t] \in Rows \cup {Stop}
        BY <1>2, <2>1 DEF Enqueue
      <3> QED
        BY <3>1, <3>2, AppendFacts
    <2>3. hand' \in [Threads -> Rows \cup {NoRow}]
      BY <1>2 DEF Enqueue, TypeOK
    <2> QED
      BY <1>2, <2>2, <2>3 DEF Enqueue, TypeOK, disk
  <1>3. ASSUME NEW t \in Threads, Overflow(t) PROVE TypeOK'
    BY <1>3 DEF Overflow, TypeOK, disk
  <1>4. ASSUME Take PROVE TypeOK'
    <2>1. queue \in Seq(Rows \cup {Stop}) /\ queue # <<>> /\ queue' = Tail(queue)
      BY <1>4 DEF Take, TypeOK
    <2>2. Head(queue) \in Rows \cup {Stop} /\ queue' \in Seq(Rows \cup {Stop}) /\ Len(queue') <= QueueMax
      <3>1. Len(queue) <= QueueMax /\ QueueMax \in Nat
        BY DurableAssumption DEF TypeOK
      <3> QED
        BY <2>1, <3>1, TailFacts
    <2>3. worker' \in WorkerStates /\ (worker'.pc = "send" => worker'.row \in Rows /\ worker'.try \in 1 .. MirrorAttempts)
      <3>1. CASE Head(queue) = Stop
        <4>1. worker' = [pc |-> "done", row |-> NoRow, try |-> 0]
          BY <1>4, <3>1 DEF Take, Idle
        <4> QED
          BY <4>1, AttemptBound DEF WorkerStates
      <3>2. CASE Head(queue) # Stop
        <4>1. worker' = [pc |-> "send", row |-> Head(queue), try |-> 1] /\ Head(queue) \in Rows
          BY <1>4, <2>2, <3>2 DEF Take
        <4>2. 1 \in 0 .. MirrorAttempts /\ 1 \in 1 .. MirrorAttempts
          BY AttemptBound
        <4> QED
          BY <4>1, <4>2 DEF WorkerStates
      <3> QED
        BY <3>1, <3>2
    <2> QED
      BY <1>4, <2>2, <2>3 DEF Take, TypeOK, disk, WorkerStates
  <1>5. ASSUME Acked \/ SealFails PROVE TypeOK'
    <2>1. Sending /\ worker' = Idle
      BY <1>5 DEF Acked, SealFails
    <2>2. worker.row \in Rows /\ Seal(worker.row) \in Sealed
      BY <2>1, SealType
    <2>3. worker' \in WorkerStates /\ worker'.pc # "send"
      BY <2>1, IdleType
    <2>4. CASE Acked
      <3>1. remote' \in Seq(Sealed) /\ acked' \subseteq Sealed
        BY <2>2, <2>4, AppendFacts DEF Acked, TypeOK
      <3> QED
        BY <2>3, <2>4, <3>1 DEF Acked, TypeOK, WorkerStates
    <2>5. CASE SealFails
      BY <2>2, <2>3, <2>5 DEF SealFails, TypeOK, WorkerStates, disk
    <2> QED
      BY <1>5, <2>4, <2>5
  <1>6. ASSUME Refused \/ AnswerLost \/ SendTimesOut PROVE TypeOK'
    <2>1. Sending /\ GiveUpOrRetry
      BY <1>6 DEF Refused, AnswerLost, SendTimesOut
    <2>2. /\ worker' \in WorkerStates
          /\ worker'.pc = "send" => worker'.row \in Rows /\ worker'.try \in 1 .. MirrorAttempts
          /\ failed' \subseteq Rows
      BY <2>1, AttemptType
    <2>3. remote' \in Seq(Sealed)
      <3>1. Seal(worker.row) \in Sealed
        BY <2>1, SealType
      <3>2. remote \in Seq(Sealed)
        BY DEF TypeOK
      <3>3. remote' \in {remote, Append(remote, Seal(worker.row))}
        BY <1>6 DEF Refused, AnswerLost, SendTimesOut, disk
      <3> QED
        BY <3>1, <3>2, <3>3, AppendFacts
    <2>4. late' \subseteq Lates
      <3>1. [row |-> worker.row, key |-> key, try |-> worker.try] \in Lates
        BY <2>1, AttemptFails DEF TypeOK
      <3> QED
        BY <1>6, <3>1 DEF Refused, AnswerLost, SendTimesOut, TypeOK, disk
    <2> QED
      BY <1>6, <2>2, <2>3, <2>4 DEF Refused, AnswerLost, SendTimesOut, TypeOK, WorkerStates, disk
  <1>7. ASSUME NEW w \in late, LateWrite(w) PROVE TypeOK'
    <2>1. [row |-> w.row, key |-> w.key] \in Sealed
      BY DEF TypeOK, Sealed
    <2>2. remote' \in Seq(Sealed)
      BY <1>7, <2>1, AppendFacts DEF LateWrite, TypeOK
    <2> QED
      BY <1>7, <2>2 DEF LateWrite, TypeOK, memory
  <1>8. ASSUME PutStop PROVE TypeOK'
    <2>1. queue' \in Seq(Rows \cup {Stop}) /\ Len(queue') <= QueueMax
      <3>1. queue \in Seq(Rows \cup {Stop}) /\ Len(queue) < QueueMax /\ QueueMax \in Nat
        BY <1>8, DurableAssumption DEF PutStop, TypeOK
      <3>2. queue' = Append(queue, Stop) /\ Stop \in Rows \cup {Stop}
        BY <1>8 DEF PutStop
      <3> QED
        BY <3>1, <3>2, AppendFacts
    <2> QED
      BY <1>8, <2>1 DEF PutStop, TypeOK, disk
  <1>9. ASSUME Exit PROVE TypeOK'
    <2>1. worker' \in WorkerStates /\ worker'.pc # "send"
      BY <1>9, IdleType DEF Exit
    <2>2. queue' \in Seq(Rows \cup {Stop}) /\ Len(queue') <= QueueMax
      BY <1>9, DurableAssumption DEF Exit
    <2> QED
      BY <1>9, <2>1, <2>2 DEF Exit, TypeOK, WorkerStates, disk
  <1>10. ASSUME NEW keep \in BOOLEAN, NEW newKey \in {key, key + 1}, Boot(keep, newKey) PROVE TypeOK'
    <2>1. key' \in 1 .. MaxKey /\ life' \in Nat
      BY <1>10, DurableAssumption DEF Boot, TypeOK
    <2>2. local' \in Seq(Rows)
      BY <1>10 DEF Boot, TypeOK
    <2> QED
      BY <1>10, <2>1, <2>2 DEF Boot, TypeOK, memory
  <1>11. ASSUME Hydrate PROVE TypeOK'
    BY <1>11, RestoredFacts DEF Hydrate, TypeOK, memory
  <1>12. ASSUME SigTerm \/ HydrateFails \/ (\E ok \in BOOLEAN : Probe(ok)) \/ UNCHANGED vars PROVE TypeOK'
    BY <1>12 DEF SigTerm, HydrateFails, Probe, vars, TypeOK, disk, memory
  <1> QED
    BY <1>1, <1>2, <1>3, <1>4, <1>5, <1>6, <1>7, <1>8, <1>9, <1>10, <1>11, <1>12
    DEF Next, Handler, Worker, Close, CloseJoined, CloseTimesOut, Crash, Finished

-----------------------------------------------------------------------------
(* Where each action moves a row *)

\* The row t appends next.
Fresh(t) == [by |-> t, n |-> next + 1]

Places == <<Handed, Queued, InWorker, Mirrored, failed, dropped, mine>>

LEMMA SameSent == ASSUME UNCHANGED <<remote, late>> PROVE Sent' = Sent
  BY DEF Sent

LEMMA SamePlaces ==
    ASSUME UNCHANGED <<queue, worker, hand, mine, acked, failed, dropped>> PROVE UNCHANGED Places
  <1>1. Handed' = Handed
    BY DEF Handed
  <1>2. Queued' = Queued
    BY DEF Queued, Elements
  <1>3. InWorker' = InWorker /\ Mirrored' = Mirrored
    BY DEF InWorker, Mirrored
  <1> QED
    BY <1>1, <1>2, <1>3 DEF Places

LEMMA WriteLocalMoves ==
    ASSUME TypeOK, NEW t \in Threads, WriteLocal(t)
    PROVE  /\ Fresh(t) \in Rows /\ Fresh(t).by = t /\ Fresh(t).n = next + 1
           /\ hand[t] = NoRow
           /\ hand' = [hand EXCEPT ![t] = Fresh(t)]
           /\ Handed' = Handed \cup {Fresh(t)}
           /\ mine' = mine \cup {Fresh(t)}
           /\ local' = Append(local, Fresh(t)) /\ next' = next + 1
           /\ Running
           /\ UNCHANGED <<Queued, InWorker, Mirrored, failed, dropped, Sent>>
           /\ UNCHANGED <<phase, remote, late, key, queue, worker, hydrated, acked>>
  <1>1. Fresh(t) \in Rows
    BY DurableAssumption DEF WriteLocal, Rows, TypeOK, Fresh
  <1>2. /\ hand[t] = NoRow /\ hand' = [hand EXCEPT ![t] = Fresh(t)] /\ mine' = mine \cup {Fresh(t)}
        /\ local' = Append(local, Fresh(t)) /\ next' = next + 1 /\ Running
        /\ UNCHANGED <<phase, remote, late, key, queue, worker, hydrated, acked, failed, dropped>>
    BY DEF WriteLocal, Fresh
  <1>3. Fresh(t).by = t /\ Fresh(t).n = next + 1
    BY DEF Fresh
  <1>4. Fresh(t) # NoRow
    BY <1>1, SentinelsAreNoRows
  <1>5. hand'[t] = Fresh(t) /\ \A u \in Threads : u # t => hand'[u] = hand[u]
    BY <1>2 DEF TypeOK
  <1>6. Handed' = Handed \cup {Fresh(t)}
    <2>1. Fresh(t) \in Handed'
      BY <1>4, <1>5 DEF Handed
    <2>2. ASSUME NEW u \in Threads, hand[u] # NoRow PROVE hand[u] \in Handed'
      BY <1>2, <1>5, <2>2 DEF Handed
    <2>3. ASSUME NEW u \in Threads, hand'[u] # NoRow PROVE hand'[u] \in Handed \cup {Fresh(t)}
      BY <1>5, <2>3 DEF Handed
    <2> QED
      BY <2>1, <2>2, <2>3 DEF Handed
  <1>7. UNCHANGED <<Queued, InWorker, Mirrored, Sent>>
    BY <1>2 DEF Queued, Elements, InWorker, Mirrored, Sent
  <1> QED
    BY <1>1, <1>2, <1>3, <1>6, <1>7

\* A row leaves the hands of its handler.
LEMMA HandEmpties ==
    ASSUME TypeOK, Held, NEW t \in Threads, hand[t] # NoRow, hand' = [hand EXCEPT ![t] = NoRow]
    PROVE  hand[t] \in Rows /\ hand[t] \in Handed /\ Handed' = Handed \ {hand[t]}
  <1>1. hand[t] \in Rows /\ hand[t] \in Handed
    BY DEF TypeOK, Handed
  <1>2. hand'[t] = NoRow /\ \A u \in Threads : u # t => hand'[u] = hand[u]
    BY DEF TypeOK
  <1>3. \A u \in Threads : u # t /\ hand[u] # NoRow => hand[u] # hand[t]
    BY DEF Held
  <1> QED
    BY <1>1, <1>2, <1>3 DEF Handed

LEMMA EnqueueMoves ==
    ASSUME TypeOK, Held, NEW t \in Threads, Enqueue(t)
    PROVE  /\ hand[t] \in Rows /\ hand[t] \in Handed /\ hand[t] # Stop
           /\ queue' = Append(queue, hand[t]) /\ hand' = [hand EXCEPT ![t] = NoRow]
           /\ Handed' = Handed \ {hand[t]}
           /\ Queued' = Queued \cup {hand[t]}
           /\ UNCHANGED <<InWorker, Mirrored, failed, dropped, mine, Sent>>
           /\ UNCHANGED <<phase, local, remote, late, key, worker, next, hydrated, acked>>
  <1>1. /\ hand[t] # NoRow /\ queue' = Append(queue, hand[t]) /\ hand' = [hand EXCEPT ![t] = NoRow]
        /\ UNCHANGED <<phase, local, remote, late, key, worker, next, hydrated, acked, failed, dropped, mine>>
    BY DEF Enqueue, disk
  <1>2. hand[t] \in Rows /\ hand[t] \in Handed /\ Handed' = Handed \ {hand[t]}
    BY <1>1, HandEmpties
  <1>3. hand[t] # Stop
    BY <1>2, SentinelsAreNoRows
  <1>4. Elements(queue') = Elements(queue) \cup {hand[t]}
    BY <1>1, <1>2, AppendFacts DEF TypeOK
  <1>5. Queued' = Queued \cup {hand[t]}
    BY <1>3, <1>4 DEF Queued
  <1>6. UNCHANGED <<InWorker, Mirrored, Sent>>
    BY <1>1 DEF InWorker, Mirrored, Sent
  <1> QED
    BY <1>1, <1>2, <1>3, <1>5, <1>6

LEMMA OverflowMoves ==
    ASSUME TypeOK, Held, NEW t \in Threads, Overflow(t)
    PROVE  /\ hand[t] \in Rows /\ hand[t] \in Handed
           /\ hand' = [hand EXCEPT ![t] = NoRow]
           /\ Handed' = Handed \ {hand[t]}
           /\ dropped' = dropped \cup {hand[t]}
           /\ UNCHANGED <<Queued, InWorker, Mirrored, failed, mine, Sent>>
           /\ UNCHANGED <<phase, local, remote, late, key, queue, worker, next, hydrated, acked>>
  <1>1. /\ hand[t] # NoRow /\ hand' = [hand EXCEPT ![t] = NoRow] /\ dropped' = dropped \cup {hand[t]}
        /\ UNCHANGED <<phase, local, remote, late, key, queue, worker, next, hydrated, acked, failed, mine>>
    BY DEF Overflow, disk
  <1>2. hand[t] \in Rows /\ hand[t] \in Handed /\ Handed' = Handed \ {hand[t]}
    BY <1>1, HandEmpties
  <1>3. UNCHANGED <<Queued, InWorker, Mirrored, Sent>>
    BY <1>1 DEF Queued, Elements, InWorker, Mirrored, Sent
  <1> QED
    BY <1>1, <1>2, <1>3

LEMMA TakeMoves ==
    ASSUME TypeOK, Distinct, Take
    PROVE  /\ queue # <<>> /\ queue' = Tail(queue)
           /\ InWorker = {}
           /\ \/ /\ Head(queue) = Stop /\ InWorker' = {} /\ Queued' = Queued
              \/ /\ Head(queue) # Stop /\ Head(queue) \in Rows
                 /\ Head(queue) \in Queued
                 /\ InWorker' = {Head(queue)} /\ worker'.try = 1
                 /\ Queued' = Queued \ {Head(queue)}
           /\ UNCHANGED <<Handed, Mirrored, failed, dropped, mine, Sent>>
           /\ UNCHANGED <<phase, local, remote, late, key, hand, next, hydrated, acked>>
  <1>1. /\ queue # <<>> /\ queue' = Tail(queue) /\ worker.pc = "idle"
        /\ UNCHANGED <<phase, local, remote, late, key, hand, next, hydrated, acked, failed, dropped, mine>>
    BY DEF Take, disk
  <1>2. InWorker = {}
    BY <1>1 DEF InWorker
  <1>3. queue \in Seq(Rows \cup {Stop})
    BY DEF TypeOK
  <1>4. UNCHANGED <<Handed, Mirrored, Sent>>
    BY <1>1 DEF Handed, Mirrored, Sent
  <1>5. Elements(queue) = Elements(queue') \cup {Head(queue)}
    BY <1>1, <1>3, TailFacts
  <1>6. CASE Head(queue) = Stop
    <2>1. worker'.pc = "done"
      BY <1>6 DEF Take, Idle
    <2>2. InWorker' = {} /\ Queued' = Queued
      BY <1>5, <1>6, <2>1 DEF InWorker, Queued
    <2> QED
      BY <1>1, <1>2, <1>4, <1>6, <2>2
  <1>7. CASE Head(queue) # Stop
    <2>1. worker' = [pc |-> "send", row |-> Head(queue), try |-> 1]
      BY <1>7 DEF Take
    <2>2. InWorker' = {Head(queue)} /\ worker'.try = 1
      BY <2>1 DEF InWorker
    <2>3. Head(queue) \in Rows /\ Head(queue) \in Queued
      BY <1>1, <1>3, <1>5, <1>7, TailFacts DEF Queued
    <2>4. Head(queue) \notin Elements(queue')
      <3>1. ASSUME NEW j \in DOMAIN Tail(queue), Tail(queue)[j] = Head(queue) PROVE FALSE
        <4>1. j + 1 \in DOMAIN queue /\ 1 \in DOMAIN queue /\ queue[j + 1] = queue[1] /\ queue[1] # Stop
          BY <1>1, <1>3, <1>7, <3>1, TailFacts
        <4>2. j + 1 = 1
          BY <4>1 DEF Distinct
        <4>3. j \in Nat /\ j # 0
          BY <1>1, <1>3
        <4> QED
          BY <4>2, <4>3
      <3> QED
        BY <1>1, <3>1 DEF Elements
    <2>5. Queued' = Queued \ {Head(queue)}
      BY <1>5, <1>7, <2>4 DEF Queued
    <2> QED
      BY <1>1, <1>2, <1>4, <1>7, <2>2, <2>3, <2>5
  <1> QED
    BY <1>6, <1>7

\* What the worker's five steps share.
LEMMA SendMoves ==
    ASSUME TypeOK, Acked \/ Refused \/ AnswerLost \/ SendTimesOut \/ SealFails
    PROVE  /\ worker.row \in Rows /\ worker.try \in 1 .. MirrorAttempts
           /\ InWorker = {worker.row} /\ Seal(worker.row) \in Sealed /\ Seal(worker.row).row = worker.row
           /\ UNCHANGED <<Handed, Queued, dropped, mine>>
           /\ UNCHANGED <<phase, local, key, queue, hand, next, hydrated>>
  <1>1. Sending /\ UNCHANGED <<dropped, mine, phase, local, key, queue, hand, next, hydrated>>
    BY DEF Acked, Refused, AnswerLost, SendTimesOut, SealFails, disk
  <1>2. worker.row \in Rows /\ worker.try \in 1 .. MirrorAttempts /\ Seal(worker.row) \in Sealed
    BY <1>1, SealType DEF TypeOK, Sending
  <1>3. InWorker = {worker.row} /\ Seal(worker.row).row = worker.row
    BY <1>1 DEF InWorker, Sending, Seal
  <1>4. UNCHANGED <<Handed, Queued>>
    BY <1>1 DEF Handed, Queued, Elements
  <1> QED
    BY <1>1, <1>2, <1>3, <1>4

LEMMA AckedMoves ==
    ASSUME TypeOK, Acked
    PROVE  /\ InWorker' = {} /\ Mirrored' = Mirrored \cup {worker.row}
           /\ remote' = Append(remote, Seal(worker.row))
           /\ Elements(remote') = Elements(remote) \cup {Seal(worker.row)}
           /\ acked' = acked \cup {Seal(worker.row)}
           /\ Sent' = Sent \cup {worker.row}
           /\ UNCHANGED <<late, failed>>
  <1>1. /\ remote' = Append(remote, Seal(worker.row)) /\ acked' = acked \cup {Seal(worker.row)}
        /\ worker' = Idle /\ UNCHANGED <<late, failed>>
    BY DEF Acked
  <1>2. Seal(worker.row) \in Sealed /\ Seal(worker.row).row = worker.row
    BY SendMoves
  <1>3. InWorker' = {} /\ Mirrored' = Mirrored \cup {worker.row}
    BY <1>1, <1>2, IdleType DEF InWorker, Mirrored
  <1>4. Elements(remote') = Elements(remote) \cup {Seal(worker.row)}
    BY <1>1, <1>2, AppendFacts DEF TypeOK
  <1>5. {remote'[i].row : i \in DOMAIN remote'} = {remote[i].row : i \in DOMAIN remote} \cup {worker.row}
    <2>1. /\ DOMAIN remote' = DOMAIN remote \cup {Len(remote) + 1}
          /\ \A i \in DOMAIN remote : remote'[i] = remote[i]
          /\ remote'[Len(remote) + 1] = Seal(worker.row)
      BY <1>1, <1>2, AppendFacts DEF TypeOK
    <2> QED
      BY <1>2, <2>1
  <1>6. Sent' = Sent \cup {worker.row}
    BY <1>1, <1>5 DEF Sent
  <1> QED
    BY <1>1, <1>3, <1>4, <1>6

\* A failed attempt leaves the row with the worker or counts it.
LEMMA AttemptMoves ==
    ASSUME TypeOK, Refused \/ AnswerLost \/ SendTimesOut \/ SealFails
    PROVE  /\ \/ InWorker' = InWorker /\ failed' = failed /\ worker'.try = worker.try + 1
              \/ InWorker' = {} /\ failed' = failed \cup {worker.row}
           /\ UNCHANGED <<Mirrored, acked>>
  <1>1. UNCHANGED <<Mirrored, acked>>
    BY DEF Refused, AnswerLost, SendTimesOut, SealFails, Mirrored
  <1>2. InWorker = {worker.row}
    BY SendMoves
  <1>3. CASE worker' = Idle /\ failed' = failed \cup {worker.row}
    BY <1>1, <1>3, IdleType DEF InWorker
  <1>4. CASE Refused \/ AnswerLost \/ SendTimesOut
    <2>1. Sending /\ GiveUpOrRetry
      BY <1>4 DEF Refused, AnswerLost, SendTimesOut
    <2>2. CASE worker' = [pc |-> "send", row |-> worker.row, try |-> worker.try + 1] /\ failed' = failed
      BY <1>1, <1>2, <2>2 DEF InWorker
    <2> QED
      BY <1>3, <2>1, <2>2, AttemptFails
  <1>5. CASE SealFails
    BY <1>3, <1>5 DEF SealFails
  <1> QED
    BY <1>4, <1>5

\* ... and what it leaves behind at the store.
LEMMA AttemptSends ==
    ASSUME TypeOK, Refused \/ AnswerLost \/ SendTimesOut \/ SealFails
    PROVE  \/ UNCHANGED <<remote, late, Sent>>
           \/ /\ remote' = Append(remote, Seal(worker.row)) /\ late' = late
              /\ Elements(remote) \subseteq Elements(remote')
              /\ Sent' = Sent \cup {worker.row}
           \/ /\ remote' = remote
              /\ late' = late \cup {[row |-> worker.row, key |-> key, try |-> worker.try]}
              /\ Sent' = Sent \cup {worker.row}
  <1>1. Seal(worker.row) \in Sealed /\ Seal(worker.row).row = worker.row
    BY SendMoves
  <1>2. CASE Refused \/ SealFails
    BY <1>2 DEF Refused, SealFails, disk, Sent
  <1>3. CASE AnswerLost
    <2>1. remote' = Append(remote, Seal(worker.row)) /\ late' = late
      BY <1>3 DEF AnswerLost
    <2>2. /\ DOMAIN remote' = DOMAIN remote \cup {Len(remote) + 1}
          /\ \A i \in DOMAIN remote : remote'[i] = remote[i]
          /\ remote'[Len(remote) + 1] = Seal(worker.row)
          /\ Elements(remote) \subseteq Elements(remote')
      BY <1>1, <2>1, AppendFacts DEF TypeOK
    <2>3. Sent' = Sent \cup {worker.row}
      BY <1>1, <2>1, <2>2 DEF Sent
    <2> QED
      BY <2>1, <2>2, <2>3
  <1>4. CASE SendTimesOut
    <2>1. remote' = remote /\ late' = late \cup {[row |-> worker.row, key |-> key, try |-> worker.try]}
      BY <1>4 DEF SendTimesOut
    <2>2. {w.row : w \in late'} = {w.row : w \in late} \cup {worker.row}
      <3> DEFINE q == [row |-> worker.row, key |-> key, try |-> worker.try]
      <3>1. q.row = worker.row /\ late' = late \cup {q}
        BY <2>1
      <3> HIDE DEF q
      <3> QED
        BY <3>1
    <2>3. Sent' = Sent \cup {worker.row}
      BY <2>1, <2>2 DEF Sent
    <2> QED
      BY <2>1, <2>3
  <1> QED
    BY <1>2, <1>3, <1>4

LEMMA LateWriteMoves ==
    ASSUME TypeOK, NEW w \in late, LateWrite(w)
    PROVE  /\ [row |-> w.row, key |-> w.key] \in Sealed /\ w.row \in Rows
           /\ remote' = Append(remote, [row |-> w.row, key |-> w.key]) /\ late' = late \ {w}
           /\ Elements(remote) \subseteq Elements(remote')
           /\ Sent' = Sent
           /\ UNCHANGED Places
           /\ UNCHANGED <<phase, local, key, queue, worker, hand, next, hydrated, acked>>
  <1>1. [row |-> w.row, key |-> w.key] \in Sealed /\ w.row \in Rows
    BY DEF TypeOK, Sealed
  <1>2. /\ remote' = Append(remote, [row |-> w.row, key |-> w.key]) /\ late' = late \ {w}
        /\ UNCHANGED <<phase, local, key, queue, worker, hand, next, hydrated, acked, mine, failed, dropped>>
    BY DEF LateWrite, memory
  <1>3. /\ DOMAIN remote' = DOMAIN remote \cup {Len(remote) + 1}
        /\ \A i \in DOMAIN remote : remote'[i] = remote[i]
        /\ remote'[Len(remote) + 1] = [row |-> w.row, key |-> w.key]
        /\ Elements(remote) \subseteq Elements(remote')
    BY <1>1, <1>2, AppendFacts DEF TypeOK
  <1>4. Sent' = Sent
    BY <1>2, <1>3 DEF Sent
  <1> QED
    BY <1>1, <1>2, <1>3, <1>4, SamePlaces

LEMMA PutStopMoves ==
    ASSUME TypeOK, PutStop
    PROVE  /\ queue' = Append(queue, Stop) /\ phase = "closing" /\ phase' = "joining"
           /\ UNCHANGED Places /\ Sent' = Sent
           /\ UNCHANGED <<local, remote, late, key, worker, hand, next, hydrated, acked>>
  <1>1. /\ queue' = Append(queue, Stop) /\ phase = "closing" /\ phase' = "joining"
        /\ UNCHANGED <<local, remote, late, key, worker, hand, next, hydrated, acked, mine, failed, dropped>>
    BY DEF PutStop, disk
  <1>2. Elements(queue') = Elements(queue) \cup {Stop}
    BY <1>1, AppendFacts DEF TypeOK
  <1>3. Queued' = Queued
    BY <1>2 DEF Queued
  <1>4. UNCHANGED <<Handed, InWorker, Mirrored, Sent>>
    BY <1>1 DEF Handed, InWorker, Mirrored, Sent
  <1> QED
    BY <1>1, <1>3, <1>4 DEF Places

LEMMA ExitMoves ==
    ASSUME TypeOK, Exit
    PROVE  /\ queue' = <<>> /\ phase' = "down"
           /\ Handed' = {} /\ Queued' = {} /\ InWorker' = {} /\ mine' = {} /\ failed' = {} /\ dropped' = {}
           /\ \A t \in Threads : hand'[t] = NoRow
           /\ Mirrored' = Mirrored /\ Sent' = Sent
           /\ UNCHANGED <<local, remote, late, key, next, hydrated, acked>>
  <1>1. /\ queue' = <<>> /\ phase' = "down" /\ worker' = Idle
        /\ hand' = [t \in Threads |-> NoRow] /\ mine' = {} /\ failed' = {} /\ dropped' = {}
        /\ UNCHANGED <<local, remote, late, key, next, hydrated, acked>>
    BY DEF Exit, disk
  <1>2. Handed' = {}
    BY <1>1 DEF Handed
  <1>3. Queued' = {} /\ InWorker' = {}
    BY <1>1, IdleType DEF Queued, Elements, InWorker
  <1>4. Mirrored' = Mirrored /\ Sent' = Sent
    BY <1>1 DEF Mirrored, Sent
  <1> QED
    BY <1>1, <1>2, <1>3, <1>4

LEMMA BootMoves ==
    ASSUME TypeOK, NEW keep \in BOOLEAN, NEW newKey \in {key, key + 1}, Boot(keep, newKey)
    PROVE  /\ phase = "down" /\ phase' = "boot" /\ hydrated' = FALSE
           /\ local' = local \/ local' = <<>>
           /\ UNCHANGED Places /\ Sent' = Sent
           /\ UNCHANGED <<remote, late, queue, worker, hand, next, acked>>
  <1>1. /\ phase = "down" /\ phase' = "boot" /\ hydrated' = FALSE
        /\ local' = local \/ local' = <<>>
        /\ UNCHANGED <<remote, late, queue, worker, hand, next, acked, mine, failed, dropped>>
    BY DEF Boot, memory
  <1> QED
    BY <1>1, SamePlaces, SameSent

LEMMA HydrateMoves ==
    ASSUME TypeOK, Hydrate
    PROVE  /\ phase = "boot" /\ phase' = "probe" /\ local' = Restored /\ hydrated' = TRUE
           /\ UNCHANGED Places /\ Sent' = Sent
           /\ UNCHANGED <<remote, late, key, queue, worker, hand, next, acked>>
  <1>1. /\ phase = "boot" /\ phase' = "probe" /\ local' = Restored /\ hydrated' = TRUE
        /\ UNCHANGED <<remote, late, key, queue, worker, hand, next, acked, mine, failed, dropped>>
    BY DEF Hydrate, memory
  <1> QED
    BY <1>1, SamePlaces, SameSent

\* Steps that touch nothing but the phase and the boot's reason.
PhaseOnly ==
    /\ UNCHANGED <<local, remote, late, key, queue, worker, hand, next, hydrated, acked, mine, failed, dropped>>
    /\ \/ phase = "serving" /\ phase' = "closing"
       \/ phase = "boot" /\ phase' = "probe"
       \/ phase = "probe" /\ phase' = "serving"
       \/ phase' = phase

LEMMA PhaseMoves ==
    ASSUME SigTerm \/ HydrateFails \/ (\E ok \in BOOLEAN : Probe(ok)) \/ Finished \/ UNCHANGED vars
    PROVE  PhaseOnly /\ UNCHANGED Places /\ Sent' = Sent
  <1>1. PhaseOnly
    BY DEF SigTerm, HydrateFails, Probe, Finished, vars, disk, memory, PhaseOnly
  <1> QED
    BY <1>1, SamePlaces, SameSent DEF PhaseOnly

-----------------------------------------------------------------------------
(* Numbered and Placed *)

LEMMA MirroredSent == ASSUME acked \subseteq Elements(remote) PROVE Mirrored \subseteq Sent
  BY DEF Mirrored, Elements, Sent

\* The row a handler appends is in no place yet.
LEMMA FreshIsNew ==
    ASSUME TypeOK, Numbered, Placed, NEW t \in Threads, Fresh(t).n = next + 1
    PROVE  Fresh(t) \notin mine \cup Elements(local) \cup Sent \cup Mirrored
  <1>1. next \in Nat
    BY DurableAssumption DEF TypeOK
  <1>2. \A r \in mine \cup Elements(local) \cup Sent : r.n <= next
    BY DEF Numbered
  <1>3. Mirrored \subseteq Sent
    BY MirroredSent DEF Placed
  <1>4. ~(next + 1 <= next)
    BY <1>1
  <1> QED
    BY <1>2, <1>3, <1>4

LEMMA NumberedStep == ASSUME TypeOK, TypeOK', Numbered, Placed, [Next]_vars PROVE Numbered'
  <1>0. next \in Nat
    BY DurableAssumption DEF TypeOK
  <1>1. ASSUME NEW t \in Threads, WriteLocal(t) PROVE Numbered'
    <2>1. /\ Fresh(t).n = next + 1 /\ mine' = mine \cup {Fresh(t)} /\ local' = Append(local, Fresh(t))
          /\ Fresh(t) \in Rows /\ next' = next + 1 /\ Sent' = Sent
      BY <1>1, WriteLocalMoves
    <2>2. Elements(local') = Elements(local) \cup {Fresh(t)}
      BY <2>1, AppendFacts DEF TypeOK
    <2>3. \A r \in mine \cup Elements(local) \cup Sent : r.n \in Nat
      <3>1. mine \cup Elements(local) \subseteq Rows
        BY DEF TypeOK, Elements
      <3>2. Sent \subseteq Rows
        <4>1. \A i \in DOMAIN remote : remote[i] \in Sealed
          BY DEF TypeOK
        <4> QED
          BY <4>1 DEF Sent, TypeOK, Sealed
      <3> QED
        BY <3>1, <3>2, RowType
    <2>4. \A r \in mine \cup Elements(local) \cup Sent : r.n <= next + 1
      <3>1. \A r \in mine \cup Elements(local) \cup Sent : r.n <= next
        BY DEF Numbered
      <3> QED
        BY <1>0, <2>3, <3>1
    <2>5. Fresh(t).n <= next + 1
      BY <1>0, <2>1
    <2> QED
      BY <2>1, <2>2, <2>4, <2>5 DEF Numbered
  <1>2. ASSUME Hydrate PROVE Numbered'
    BY <1>2, HydrateMoves, RestoredFacts DEF Numbered, Places
  <1>3. ASSUME NEW keep \in BOOLEAN, NEW newKey \in {key, key + 1}, Boot(keep, newKey) PROVE Numbered'
    <2>1. local' = local \/ local' = <<>>
      BY <1>3, BootMoves
    <2>2. Elements(local') \subseteq Elements(local)
      BY <2>1 DEF Elements
    <2> QED
      BY <1>3, <2>2, BootMoves DEF Numbered, Places
  <1>4. ASSUME mine' \subseteq mine, local' = local, next' = next, Sent' \subseteq Sent \cup {worker.row},
               worker.row \in mine \/ Sent' \subseteq Sent
        PROVE  Numbered'
    <2>1. Elements(local') = Elements(local)
      BY <1>4 DEF Elements
    <2> QED
      BY <1>4, <2>1 DEF Numbered
  <1>5. ASSUME NEW t \in Threads, Enqueue(t) \/ Overflow(t) PROVE Numbered'
    BY <1>4, <1>5, EnqueueMoves, OverflowMoves DEF Placed
  <1>6. ASSUME Take PROVE Numbered'
    BY <1>4, <1>6, TakeMoves DEF Placed
  <1>7. ASSUME Acked \/ Refused \/ AnswerLost \/ SendTimesOut \/ SealFails PROVE Numbered'
    <2>1. Sent' \subseteq Sent \cup {worker.row}
      BY <1>7, AckedMoves, AttemptSends
    <2>2. worker.row \in mine /\ UNCHANGED <<mine, local, next>>
      BY <1>7, SendMoves DEF Placed
    <2> QED
      BY <1>4, <2>1, <2>2
  <1>8. ASSUME NEW w \in late, LateWrite(w) PROVE Numbered'
    BY <1>4, <1>8, LateWriteMoves DEF Places
  <1>9. ASSUME PutStop PROVE Numbered'
    BY <1>4, <1>9, PutStopMoves DEF Places
  <1>10. ASSUME Exit PROVE Numbered'
    BY <1>4, <1>10, ExitMoves
  <1>11. ASSUME SigTerm \/ HydrateFails \/ (\E ok \in BOOLEAN : Probe(ok)) \/ Finished \/ UNCHANGED vars
         PROVE  Numbered'
    BY <1>4, <1>11, PhaseMoves DEF PhaseOnly
  <1> QED
    BY <1>1, <1>2, <1>3, <1>5, <1>6, <1>7, <1>8, <1>9, <1>10, <1>11
    DEF Next, Handler, Worker, Close, CloseJoined, CloseTimesOut, Crash

\* Steps that move no row.
LEMMA PlacedRests ==
    ASSUME Placed, UNCHANGED Places, UNCHANGED <<hand, queue, acked>>, Elements(remote) \subseteq Elements(remote')
    PROVE  Placed'
  <1>1. Held' /\ Distinct'
    BY DEF Placed, Held, Distinct
  <1> QED
    BY <1>1 DEF Placed, Places

LEMMA PlacedStep == ASSUME TypeOK, TypeOK', Numbered, Placed, [Next]_vars PROVE Placed'
  <1>0. UNCHANGED remote => Elements(remote) \subseteq Elements(remote')
    BY DEF Elements
  <1>1. ASSUME NEW t \in Threads, WriteLocal(t) PROVE Placed'
    <2>1. /\ Fresh(t) \in Rows /\ Fresh(t).by = t /\ Fresh(t).n = next + 1
          /\ hand[t] = NoRow
          /\ hand' = [hand EXCEPT ![t] = Fresh(t)]
          /\ Handed' = Handed \cup {Fresh(t)}
          /\ mine' = mine \cup {Fresh(t)}
          /\ UNCHANGED <<Queued, InWorker, Mirrored, failed, dropped, remote, queue, acked>>
      BY <1>1, WriteLocalMoves
    <2>2. Fresh(t) \notin mine \cup Mirrored
      BY <2>1, FreshIsNew
    <2>3. IsFiniteSet(mine')
      BY <2>1, FS_AddElement DEF Placed
    <2>4. Held'
      BY <2>1 DEF Held, Placed, TypeOK
    <2>5. Distinct'
      BY <2>1 DEF Distinct, Placed
    <2>6. Fresh(t) \notin Queued \cup InWorker \cup Mirrored \cup failed \cup dropped
      BY <2>2 DEF Placed
    <2>7. Mirrored' \cap mine' = Mirrored \cap mine
      BY <2>1, <2>2
    <2> QED
      BY <1>0, <2>1, <2>3, <2>4, <2>5, <2>6, <2>7 DEF Placed
  <1>2. ASSUME NEW t \in Threads, Enqueue(t) PROVE Placed'
    <2>1. /\ hand[t] \in Rows /\ hand[t] \in Handed /\ hand[t] # Stop
          /\ queue' = Append(queue, hand[t]) /\ hand' = [hand EXCEPT ![t] = NoRow]
          /\ Handed' = Handed \ {hand[t]}
          /\ Queued' = Queued \cup {hand[t]}
          /\ UNCHANGED <<InWorker, Mirrored, failed, dropped, mine, remote, acked>>
      BY <1>2, EnqueueMoves DEF Placed
    <2>2. Held'
      BY <2>1 DEF Held, Placed, TypeOK
    <2>3. Distinct'
      <3>1. hand[t] \notin Elements(queue)
        BY <2>1 DEF Placed, Queued
      <3>2. /\ DOMAIN queue' = DOMAIN queue \cup {Len(queue) + 1}
            /\ \A i \in DOMAIN queue : queue'[i] = queue[i]
            /\ queue'[Len(queue) + 1] = hand[t]
        BY <2>1, AppendFacts DEF TypeOK
      <3> QED
        BY <3>1, <3>2 DEF Distinct, Placed, Elements
    <2> QED
      BY <1>0, <2>1, <2>2, <2>3 DEF Placed
  <1>3. ASSUME NEW t \in Threads, Overflow(t) PROVE Placed'
    <2>1. /\ hand[t] \in Rows /\ hand[t] \in Handed /\ hand' = [hand EXCEPT ![t] = NoRow]
          /\ Handed' = Handed \ {hand[t]}
          /\ dropped' = dropped \cup {hand[t]}
          /\ UNCHANGED <<Queued, InWorker, Mirrored, failed, mine, remote, queue, acked>>
      BY <1>3, OverflowMoves DEF Placed
    <2>2. Held' /\ Distinct'
      BY <2>1 DEF Held, Distinct, Placed, TypeOK
    <2> QED
      BY <1>0, <2>1, <2>2 DEF Placed
  <1>4. ASSUME Take PROVE Placed'
    <2>1. /\ queue # <<>> /\ queue' = Tail(queue)
          /\ InWorker = {}
          /\ \/ InWorker' = {} /\ Queued' = Queued
             \/ /\ Head(queue) \in Queued
                /\ InWorker' = {Head(queue)}
                /\ Queued' = Queued \ {Head(queue)}
          /\ UNCHANGED <<Handed, Mirrored, failed, dropped, mine, remote, hand, acked>>
      BY <1>4, TakeMoves DEF Placed
    <2>2. Held'
      BY <2>1 DEF Held, Placed
    <2>3. Distinct'
      <3>1. ASSUME NEW i \in DOMAIN queue', NEW j \in DOMAIN queue', queue'[i] = queue'[j], queue'[i] # Stop
            PROVE  i = j
        <4>1. /\ i + 1 \in DOMAIN queue /\ queue'[i] = queue[i + 1] /\ i \in Nat
              /\ j + 1 \in DOMAIN queue /\ queue'[j] = queue[j + 1] /\ j \in Nat
          BY <2>1, TailFacts DEF TypeOK
        <4>2. i + 1 = j + 1
          BY <3>1, <4>1 DEF Placed, Distinct
        <4> QED
          BY <4>1, <4>2
      <3> QED
        BY <3>1 DEF Distinct
    <2> QED
      BY <1>0, <2>1, <2>2, <2>3 DEF Placed
  <1>5. ASSUME Acked \/ Refused \/ AnswerLost \/ SendTimesOut \/ SealFails PROVE Placed'
    <2>1. /\ InWorker = {worker.row}
          /\ UNCHANGED <<Handed, Queued, dropped, mine, queue, hand>>
      BY <1>5, SendMoves
    <2>2. Held' /\ Distinct'
      BY <2>1 DEF Held, Distinct, Placed
    <2>3. CASE Acked
      <3>1. /\ InWorker' = {} /\ Mirrored' = Mirrored \cup {worker.row}
            /\ Elements(remote') = Elements(remote) \cup {Seal(worker.row)}
            /\ acked' = acked \cup {Seal(worker.row)} /\ failed' = failed
        BY <2>3, AckedMoves
      <3> QED
        BY <2>1, <2>2, <3>1 DEF Placed
    <2>4. CASE Refused \/ AnswerLost \/ SendTimesOut \/ SealFails
      <3>1. /\ \/ InWorker' = InWorker /\ failed' = failed
               \/ InWorker' = {} /\ failed' = failed \cup {worker.row}
            /\ UNCHANGED <<Mirrored, acked>>
        BY <2>4, AttemptMoves
      <3>2. Elements(remote) \subseteq Elements(remote')
        BY <1>0, <2>4, AttemptSends
      <3> QED
        BY <2>1, <2>2, <3>1, <3>2 DEF Placed
    <2> QED
      BY <1>5, <2>3, <2>4
  <1>6. ASSUME NEW w \in late, LateWrite(w) PROVE Placed'
    BY <1>6, LateWriteMoves, PlacedRests
  <1>7. ASSUME PutStop PROVE Placed'
    <2>1. queue' = Append(queue, Stop) /\ UNCHANGED Places /\ UNCHANGED <<hand, remote, acked>>
      BY <1>7, PutStopMoves
    <2>2. Held'
      BY <2>1 DEF Held, Placed
    <2>3. Distinct'
      <3>1. /\ DOMAIN queue' = DOMAIN queue \cup {Len(queue) + 1}
            /\ \A i \in DOMAIN queue : queue'[i] = queue[i]
            /\ queue'[Len(queue) + 1] = Stop
        BY <2>1, AppendFacts DEF TypeOK
      <3> QED
        BY <3>1 DEF Distinct, Placed
    <2> QED
      BY <1>0, <2>1, <2>2, <2>3 DEF Placed, Places
  <1>8. ASSUME Exit PROVE Placed'
    <2>1. /\ Handed' = {} /\ Queued' = {} /\ InWorker' = {} /\ mine' = {} /\ failed' = {} /\ dropped' = {}
          /\ queue' = <<>> /\ \A t \in Threads : hand'[t] = NoRow
          /\ UNCHANGED <<remote, acked>>
      BY <1>8, ExitMoves
    <2>2. Held' /\ Distinct'
      BY <2>1 DEF Held, Distinct
    <2> QED
      BY <1>0, <2>1, <2>2, FS_EmptySet DEF Placed
  <1>9. ASSUME NEW keep \in BOOLEAN, NEW newKey \in {key, key + 1}, Boot(keep, newKey) PROVE Placed'
    BY <1>0, <1>9, BootMoves, PlacedRests
  <1>10. ASSUME Hydrate PROVE Placed'
    BY <1>0, <1>10, HydrateMoves, PlacedRests
  <1>11. ASSUME SigTerm \/ HydrateFails \/ (\E ok \in BOOLEAN : Probe(ok)) \/ Finished \/ UNCHANGED vars
         PROVE  Placed'
    BY <1>0, <1>11, PhaseMoves, PlacedRests DEF PhaseOnly
  <1> QED
    BY <1>1, <1>2, <1>3, <1>4, <1>5, <1>6, <1>7, <1>8, <1>9, <1>10, <1>11
    DEF Next, Handler, Worker, Close, CloseJoined, CloseTimesOut, Crash

-----------------------------------------------------------------------------
(* InOrder *)

LEMMA RowsTyped ==
    ASSUME TypeOK
    PROVE  /\ Sent \subseteq Rows
           /\ \A i \in DOMAIN remote : remote[i] \in Sealed /\ remote[i].row \in Sent
           /\ next \in Nat
  <1>1. \A i \in DOMAIN remote : remote[i] \in Sealed
    BY DEF TypeOK
  <1>2. Sent \subseteq Rows
    BY <1>1 DEF Sent, TypeOK, Sealed
  <1> QED
    BY <1>1, <1>2, DurableAssumption DEF Sent, TypeOK

\* An append leaves every shown row where it was, behind all that was shown before.
LEMMA ShownAppend ==
    ASSUME TypeOK, NEW x \in Sealed, remote' = Append(remote, x),
           NEW r \in {remote[i].row : i \in DOMAIN remote},
           \A j \in DOMAIN remote : ShownBefore(r, j)
    PROVE  \A j \in DOMAIN remote' :
              r.by = remote'[j].row.by /\ r.n < remote'[j].row.n => \E i \in 1 .. (j - 1) : remote'[i].row = r
  <1>1. /\ DOMAIN remote' = DOMAIN remote \cup {Len(remote) + 1}
        /\ \A i \in DOMAIN remote : remote'[i] = remote[i]
        /\ DOMAIN remote = 1 .. Len(remote) /\ Len(remote) \in Nat
    BY AppendFacts DEF TypeOK
  <1>2. ASSUME NEW j \in DOMAIN remote, r.by = remote'[j].row.by, r.n < remote'[j].row.n
        PROVE  \E i \in 1 .. (j - 1) : remote'[i].row = r
    <2>1. PICK i \in 1 .. (j - 1) : remote[i].row = r
      BY <1>1, <1>2 DEF ShownBefore
    <2>2. i \in DOMAIN remote
      BY <1>1
    <2> QED
      BY <1>1, <2>1, <2>2
  <1>3. \E i \in 1 .. ((Len(remote) + 1) - 1) : remote'[i].row = r
    <2>1. PICK i \in DOMAIN remote : remote[i].row = r
      OBVIOUS
    <2>2. i \in 1 .. ((Len(remote) + 1) - 1)
      BY <1>1
    <2> QED
      BY <1>1, <2>1, <2>2
  <1> QED
    BY <1>1, <1>2, <1>3

LEMMA MirroredShows ==
    ASSUME acked \subseteq Elements(remote), NEW r \in Mirrored
    PROVE  r \in {remote[i].row : i \in DOMAIN remote}
  BY DEF Mirrored, Elements

\* Steps that move no row and add none to the list.
LEMMA OrderRests ==
    ASSUME InOrder, UNCHANGED Places, Sent' = Sent, UNCHANGED <<queue, remote>>
    PROVE  InOrder'
  BY DEF InOrder, Places, ShownBefore, Before

LEMMA OrderStep == ASSUME TypeOK, TypeOK', Numbered, Placed, Placed', InOrder, [Next]_vars PROVE InOrder'
  <1>1. ASSUME NEW t \in Threads, WriteLocal(t) PROVE InOrder'
    <2>1. /\ Fresh(t) \in Rows /\ Fresh(t).n = next + 1
          /\ Handed' = Handed \cup {Fresh(t)}
          /\ mine' = mine \cup {Fresh(t)}
          /\ UNCHANGED <<Queued, InWorker, Mirrored, remote, queue, Sent>>
      BY <1>1, WriteLocalMoves
    <2>2. Mirrored' \cap mine' = Mirrored \cap mine
      BY <2>1, FreshIsNew
    <2>3. \A r \in Queued \cup InWorker \cup Sent : Before(r, Fresh(t))
      <3>1. ASSUME NEW r \in Queued \cup InWorker \cup Sent PROVE r.n < Fresh(t).n
        <4>1. r \in Rows /\ r.n <= next
          BY RowsTyped DEF Placed, Numbered, TypeOK
        <4>2. r.n \in Nat /\ next \in Nat
          BY <4>1, RowType, RowsTyped
        <4> QED
          BY <2>1, <4>1, <4>2
      <3> QED
        BY <3>1 DEF Before
    <2>4. \A i, j \in DOMAIN queue' :
             i < j /\ queue'[i] # Stop /\ queue'[j] # Stop => Before(queue'[i], queue'[j])
      BY <2>1 DEF InOrder
    <2>5. \A r \in Mirrored' \cap mine', j \in DOMAIN remote' : ShownBefore(r, j)'
      BY <2>1, <2>2 DEF InOrder, ShownBefore
    <2>6. /\ \A r \in InWorker', q \in Queued' \cup Handed' : Before(r, q)
          /\ \A r \in Queued', q \in Handed' : Before(r, q)
          /\ \A s \in Sent' : /\ \A r \in Queued' \cup Handed' : Before(s, r)
                              /\ \A r \in InWorker' : s = r \/ Before(s, r)
      BY <2>1, <2>3 DEF InOrder
    <2> QED
      BY <2>4, <2>5, <2>6 DEF InOrder, Before
  <1>2. ASSUME NEW t \in Threads, Enqueue(t) PROVE InOrder'
    <2>1. /\ hand[t] \in Rows /\ hand[t] \in Handed /\ hand[t] # Stop
          /\ queue' = Append(queue, hand[t])
          /\ Handed' = Handed \ {hand[t]}
          /\ Queued' = Queued \cup {hand[t]}
          /\ UNCHANGED <<InWorker, Mirrored, mine, remote, Sent>>
      BY <1>2, EnqueueMoves DEF Placed
    <2>2. \A q \in Handed' : Before(hand[t], q)
      <3>1. ASSUME NEW q \in Handed' PROVE q.by # hand[t].by
        <4>1. PICK u \in Threads : hand[u] # NoRow /\ q = hand[u]
          BY <2>1 DEF Handed
        <4>2. u # t
          BY <2>1, <4>1
        <4>3. hand[t] # NoRow
          BY <2>1, SentinelsAreNoRows
        <4> QED
          BY <4>1, <4>2, <4>3 DEF Placed, Held
      <3> QED
        BY <3>1 DEF Before
    <2>3. \A i, j \in DOMAIN queue' :
             i < j /\ queue'[i] # Stop /\ queue'[j] # Stop => Before(queue'[i], queue'[j])
      <3>1. /\ DOMAIN queue' = DOMAIN queue \cup {Len(queue) + 1}
            /\ \A i \in DOMAIN queue : queue'[i] = queue[i] /\ i \in Nat /\ i < Len(queue) + 1
            /\ queue'[Len(queue) + 1] = hand[t] /\ Len(queue) \in Nat
        <4>1. queue \in Seq(Rows \cup {Stop}) /\ hand[t] \in Rows \cup {Stop}
          BY <2>1 DEF TypeOK
        <4>2. /\ DOMAIN queue' = DOMAIN queue \cup {Len(queue) + 1}
              /\ \A i \in DOMAIN queue : queue'[i] = queue[i]
              /\ queue'[Len(queue) + 1] = hand[t] /\ Len(queue) \in Nat
          BY <2>1, <4>1, AppendFacts
        <4>3. \A i \in DOMAIN queue : i \in Nat /\ i < Len(queue) + 1
          BY <4>1
        <4> QED
          BY <4>2, <4>3
      <3>2. \A i \in DOMAIN queue : queue[i] # Stop => Before(queue[i], hand[t])
        BY <2>1 DEF InOrder, Queued, Elements
      <3>3. \A i \in DOMAIN queue : ~(Len(queue) + 1 < i)
        BY <3>1
      <3>4. ~(Len(queue) + 1 < Len(queue) + 1)
        BY <3>1
      <3> QED
        BY <3>1, <3>2, <3>3, <3>4 DEF InOrder
    <2>4. \A r \in Mirrored' \cap mine', j \in DOMAIN remote' : ShownBefore(r, j)'
      BY <2>1 DEF InOrder, ShownBefore
    <2>5. /\ \A r \in InWorker', q \in Queued' \cup Handed' : Before(r, q)
          /\ \A r \in Queued', q \in Handed' : Before(r, q)
          /\ \A s \in Sent' : /\ \A r \in Queued' \cup Handed' : Before(s, r)
                              /\ \A r \in InWorker' : s = r \/ Before(s, r)
      BY <2>1, <2>2 DEF InOrder
    <2> QED
      BY <2>3, <2>4, <2>5 DEF InOrder, Before
  <1>3. ASSUME NEW t \in Threads, Overflow(t) PROVE InOrder'
    <2>1. /\ Handed' = Handed \ {hand[t]}
          /\ UNCHANGED <<Queued, InWorker, Mirrored, mine, remote, queue, Sent>>
      BY <1>3, OverflowMoves DEF Placed
    <2> QED
      BY <2>1 DEF InOrder, ShownBefore, Before
  <1>4. ASSUME Take PROVE InOrder'
    <2>1. /\ queue # <<>> /\ queue' = Tail(queue)
          /\ InWorker = {}
          /\ \/ InWorker' = {} /\ Queued' = Queued
             \/ /\ Head(queue) # Stop /\ Head(queue) \in Queued
                /\ InWorker' = {Head(queue)}
                /\ Queued' = Queued \ {Head(queue)}
          /\ UNCHANGED <<Handed, Mirrored, mine, remote, Sent>>
      BY <1>4, TakeMoves DEF Placed
    <2>2. \A i, j \in DOMAIN queue' :
             i < j /\ queue'[i] # Stop /\ queue'[j] # Stop => Before(queue'[i], queue'[j])
      <3>1. \A i \in DOMAIN queue' : i + 1 \in DOMAIN queue /\ queue'[i] = queue[i + 1] /\ i \in Nat
        BY <2>1, TailFacts DEF TypeOK
      <3>2. ASSUME NEW i \in DOMAIN queue', NEW j \in DOMAIN queue', i < j PROVE i + 1 < j + 1
        BY <3>1, <3>2
      <3> QED
        BY <3>1, <3>2 DEF InOrder
    <2>3. \A r \in Mirrored' \cap mine', j \in DOMAIN remote' : ShownBefore(r, j)'
      BY <2>1 DEF InOrder, ShownBefore
    <2>4. ASSUME InWorker' = {Head(queue)}, Head(queue) # Stop, Queued' = Queued \ {Head(queue)}, NEW q \in Queued'
          PROVE  Before(Head(queue), q)
      <3>1. PICK i \in DOMAIN queue : queue[i] = q /\ q # Stop
        BY <2>4 DEF Queued, Elements
      <3>2. queue[1] = Head(queue) /\ 1 \in DOMAIN queue /\ i # 1 /\ i \in Nat /\ i # 0
        BY <2>1, <2>4, <3>1, TailFacts DEF TypeOK
      <3>3. 1 < i
        BY <3>2
      <3> QED
        BY <2>4, <3>1, <3>2, <3>3 DEF InOrder
    <2>5. /\ \A r \in InWorker', q \in Queued' \cup Handed' : Before(r, q)
          /\ \A r \in Queued', q \in Handed' : Before(r, q)
          /\ \A s \in Sent' : /\ \A r \in Queued' \cup Handed' : Before(s, r)
                              /\ \A r \in InWorker' : s = r \/ Before(s, r)
      BY <2>1, <2>4 DEF InOrder
    <2> QED
      BY <2>2, <2>3, <2>5 DEF InOrder, Before
  <1>5. ASSUME Acked \/ Refused \/ AnswerLost \/ SendTimesOut \/ SealFails PROVE InOrder'
    <2>1. /\ InWorker = {worker.row} /\ worker.row \in Rows
          /\ Seal(worker.row) \in Sealed /\ Seal(worker.row).row = worker.row
          /\ UNCHANGED <<Handed, Queued, mine, queue>>
      BY <1>5, SendMoves
    <2>2. /\ InWorker' \subseteq InWorker
          /\ Sent' \subseteq Sent \cup {worker.row}
      BY <1>5, AckedMoves, AttemptMoves, AttemptSends
    <2>3. /\ \A r \in InWorker', q \in Queued' \cup Handed' : Before(r, q)
          /\ \A r \in Queued', q \in Handed' : Before(r, q)
          /\ \A s \in Sent' : /\ \A r \in Queued' \cup Handed' : Before(s, r)
                              /\ \A r \in InWorker' : s = r \/ Before(s, r)
      BY <2>1, <2>2 DEF InOrder
    <2>4. \A i, j \in DOMAIN queue' :
             i < j /\ queue'[i] # Stop /\ queue'[j] # Stop => Before(queue'[i], queue'[j])
      BY <2>1 DEF InOrder
    <2>5. ASSUME NEW r \in Mirrored \cap mine, NEW j \in DOMAIN remote' PROVE ShownBefore(r, j)'
      <3>1. r \in {remote[i].row : i \in DOMAIN remote} /\ \A k \in DOMAIN remote : ShownBefore(r, k)
        BY MirroredShows DEF InOrder, Placed
      <3>2. CASE remote' = Append(remote, Seal(worker.row))
        BY <2>1, <3>1, <3>2, ShownAppend DEF ShownBefore
      <3>3. CASE remote' = remote
        BY <3>1, <3>3 DEF ShownBefore
      <3> QED
        BY <1>5, <3>2, <3>3, AckedMoves, AttemptSends
    <2>6. ASSUME Acked, NEW r, r = worker.row, NEW j \in DOMAIN remote' PROVE ShownBefore(r, j)'
      <3>1. /\ DOMAIN remote' = DOMAIN remote \cup {Len(remote) + 1}
            /\ \A i \in DOMAIN remote : remote'[i] = remote[i]
            /\ remote'[Len(remote) + 1] = Seal(worker.row)
        <4>1. remote' = Append(remote, Seal(worker.row))
          BY <2>6, AckedMoves
        <4> QED
          BY <2>1, <4>1, AppendFacts DEF TypeOK
      <3>2. worker.row.n \in Nat
        BY <2>1, RowType
      <3>3. ~(worker.row.n < remote'[j].row.n) \/ worker.row.by # remote'[j].row.by
        <4>1. CASE j \in DOMAIN remote
          <5>1. remote[j].row \in Sent /\ remote[j].row \in Rows
            BY <4>1, RowsTyped
          <5>2. remote[j].row = worker.row \/ Before(remote[j].row, worker.row)
            BY <2>1, <5>1 DEF InOrder
          <5>3. remote[j].row.n \in Nat
            BY <5>1, RowType
          <5>4. CASE remote[j].row = worker.row
            BY <3>1, <3>2, <4>1, <5>4
          <5>5. CASE Before(remote[j].row, worker.row)
            <6>1. remote[j].row.n < worker.row.n => ~(worker.row.n < remote[j].row.n)
              BY <3>2, <5>3
            <6> QED
              BY <3>1, <4>1, <5>5, <6>1 DEF Before
          <5> QED
            BY <5>2, <5>4, <5>5
        <4>2. CASE j = Len(remote) + 1
          BY <2>1, <3>1, <3>2, <4>2
        <4> QED
          BY <3>1, <4>1, <4>2
      <3> QED
        BY <2>6, <3>3 DEF ShownBefore
    <2>7. ASSUME NEW r \in Mirrored' \cap mine', NEW j \in DOMAIN remote' PROVE ShownBefore(r, j)'
      <3>1. r \in Mirrored \cap mine \/ (Acked /\ r = worker.row)
        BY <1>5, <2>1, AckedMoves, AttemptMoves
      <3> QED
        BY <2>5, <2>6, <3>1
    <2> QED
      BY <2>3, <2>4, <2>7 DEF InOrder, Before
  <1>6. ASSUME NEW w \in late, LateWrite(w) PROVE InOrder'
    <2>1. /\ [row |-> w.row, key |-> w.key] \in Sealed
          /\ remote' = Append(remote, [row |-> w.row, key |-> w.key])
          /\ UNCHANGED Places /\ Sent' = Sent /\ queue' = queue
      BY <1>6, LateWriteMoves
    <2>2. ASSUME NEW r \in Mirrored' \cap mine', NEW j \in DOMAIN remote' PROVE ShownBefore(r, j)'
      <3>1. r \in Mirrored \cap mine
        BY <2>1 DEF Places
      <3>2. r \in {remote[i].row : i \in DOMAIN remote} /\ \A k \in DOMAIN remote : ShownBefore(r, k)
        BY <3>1, MirroredShows DEF InOrder, Placed
      <3> QED
        BY <2>1, <3>2, ShownAppend DEF ShownBefore
    <2> QED
      BY <2>1, <2>2 DEF InOrder, Places, Before
  <1>7. ASSUME PutStop PROVE InOrder'
    <2>1. queue' = Append(queue, Stop) /\ UNCHANGED Places /\ Sent' = Sent /\ remote' = remote
      BY <1>7, PutStopMoves
    <2>2. \A i, j \in DOMAIN queue' :
             i < j /\ queue'[i] # Stop /\ queue'[j] # Stop => Before(queue'[i], queue'[j])
      <3>1. /\ DOMAIN queue' = DOMAIN queue \cup {Len(queue) + 1}
            /\ \A i \in DOMAIN queue : queue'[i] = queue[i]
            /\ queue'[Len(queue) + 1] = Stop
        BY <2>1, AppendFacts DEF TypeOK
      <3> QED
        BY <3>1 DEF InOrder
    <2> QED
      BY <2>1, <2>2 DEF InOrder, Places, ShownBefore, Before
  <1>8. ASSUME Exit PROVE InOrder'
    <2>1. Handed' = {} /\ Queued' = {} /\ InWorker' = {} /\ mine' = {} /\ queue' = <<>>
      BY <1>8, ExitMoves
    <2> QED
      BY <2>1 DEF InOrder
  <1>9. ASSUME NEW keep \in BOOLEAN, NEW newKey \in {key, key + 1}, Boot(keep, newKey) PROVE InOrder'
    BY <1>9, BootMoves, OrderRests
  <1>10. ASSUME Hydrate PROVE InOrder'
    BY <1>10, HydrateMoves, OrderRests
  <1>11. ASSUME SigTerm \/ HydrateFails \/ (\E ok \in BOOLEAN : Probe(ok)) \/ Finished \/ UNCHANGED vars
         PROVE  InOrder'
    BY <1>11, PhaseMoves, OrderRests DEF PhaseOnly
  <1> QED
    BY <1>1, <1>2, <1>3, <1>4, <1>5, <1>6, <1>7, <1>8, <1>9, <1>10, <1>11
    DEF Next, Handler, Worker, Close, CloseJoined, CloseTimesOut, Crash

LEMMA OrderImplied == ASSUME TypeOK, Placed, InOrder PROVE MirrorInOrder
  <1> SUFFICES ASSUME NEW r \in Mirrored \cap mine, NEW q \in Mirrored \cap mine, r.by = q.by, r.n < q.n
               PROVE  FirstCopy(r) < FirstCopy(q)
    BY DEF MirrorInOrder
  <1>1. \A x \in Mirrored \cap mine :
           /\ FirstCopy(x) \in DOMAIN remote /\ remote[FirstCopy(x)].row = x
           /\ \A j \in 1 .. (FirstCopy(x) - 1) : remote[j].row # x
    <2> SUFFICES ASSUME NEW x \in Mirrored \cap mine
                 PROVE  \E i \in DOMAIN remote : remote[i].row = x /\ \A j \in 1 .. (i - 1) : remote[j].row # x
      BY DEF FirstCopy
    <2> DEFINE S == {i \in DOMAIN remote : remote[i].row = x}
    <2>1. S # {}
      BY MirroredShows DEF Placed
    <2>2. DOMAIN remote = 1 .. Len(remote) /\ Len(remote) \in Nat /\ S \in SUBSET Nat
      BY DEF TypeOK
    <2>3. PICK i \in S : \A j \in S : i <= j
      <3> HIDE DEF S
      <3> QED
        BY <2>1, <2>2, SmallestElement
    <2>4. ASSUME NEW j \in 1 .. (i - 1), remote[j].row = x PROVE FALSE
      <3>1. j \in S /\ ~(i <= j)
        BY <2>2, <2>4
      <3> QED
        BY <2>3, <3>1
    <2> QED
      BY <2>3, <2>4
  <1>2. PICK i \in 1 .. (FirstCopy(q) - 1) : remote[i].row = r
    BY <1>1 DEF InOrder, ShownBefore
  <1>3. FirstCopy(r) \in Nat /\ FirstCopy(q) \in Nat
    BY <1>1 DEF TypeOK
  <1>4. FirstCopy(r) <= i
    BY <1>1, <1>2, <1>3
  <1> QED
    BY <1>2, <1>3, <1>4

-----------------------------------------------------------------------------
(* Bounded *)

LEMMA CountsTyped ==
    ASSUME TypeOK, IsFiniteSet(late), NEW r
    PROVE  InStore(r) \in Nat /\ InFlight(r) \in Nat
  <1>1. IsFiniteSet({w \in late : w.row = r})
    BY FS_Subset
  <1>2. IsFiniteSet({i \in DOMAIN remote : remote[i].row = r})
    <2>1. Len(remote) \in Nat /\ {i \in DOMAIN remote : remote[i].row = r} \in SUBSET (1 .. Len(remote))
      BY DEF TypeOK
    <2>2. IsFiniteSet(1 .. Len(remote))
      BY <2>1, FS_Interval
    <2> QED
      BY <2>1, <2>2, FS_Subset
  <1> QED
    BY <1>1, <1>2, FS_CardinalityType DEF InStore, InFlight

LEMMA StoreCount ==
    ASSUME TypeOK, NEW x \in Sealed, remote' = Append(remote, x), NEW r
    PROVE  InStore(r)' = IF x.row = r THEN InStore(r) + 1 ELSE InStore(r)
  <1> DEFINE P == {w \in Sealed : w.row = r}
  <1>1. remote \in Seq(Sealed) /\ remote' \in Seq(Sealed)
    BY AppendFacts DEF TypeOK
  <1>2. {i \in DOMAIN remote : remote[i].row = r} = {i \in DOMAIN remote : remote[i] \in P}
    BY <1>1
  <1>3. {i \in DOMAIN remote' : remote'[i].row = r} = {i \in DOMAIN remote' : remote'[i] \in P}
    BY <1>1
  <1>4. x \in P <=> x.row = r
    OBVIOUS
  <1> HIDE DEF P
  <1>5. Cardinality({i \in DOMAIN remote' : remote'[i] \in P}) =
           IF x \in P THEN Cardinality({i \in DOMAIN remote : remote[i] \in P}) + 1
                      ELSE Cardinality({i \in DOMAIN remote : remote[i] \in P})
    BY <1>1, CountAppend
  <1> QED
    BY <1>2, <1>3, <1>4, <1>5 DEF InStore

LEMMA CopiesAppend ==
    ASSUME NEW S, NEW s \in Seq(S), NEW x \in S, NEW r
    PROVE  Copies(r, Append(s, x)) = IF x = r THEN Copies(r, s) + 1 ELSE Copies(r, s)
  <1> DEFINE P == {r}
  <1>1. /\ Copies(r, s) = Cardinality({i \in DOMAIN s : s[i] \in P})
        /\ Copies(r, Append(s, x)) = Cardinality({i \in DOMAIN Append(s, x) : Append(s, x)[i] \in P})
    BY DEF Copies
  <1>2. x \in P <=> x = r
    OBVIOUS
  <1> HIDE DEF P
  <1>3. Cardinality({i \in DOMAIN Append(s, x) : Append(s, x)[i] \in P}) =
           IF x \in P THEN Cardinality({i \in DOMAIN s : s[i] \in P}) + 1
                      ELSE Cardinality({i \in DOMAIN s : s[i] \in P})
    BY CountAppend
  <1> QED
    BY <1>1, <1>2, <1>3

LEMMA FlightMore ==
    ASSUME IsFiniteSet(late), NEW w, late' = late \cup {w}, NEW r
    PROVE  /\ IsFiniteSet(late')
           /\ InFlight(r)' = InFlight(r) \/ (w.row = r /\ InFlight(r)' = InFlight(r) + 1)
  <1> DEFINE A == {v \in late : v.row = r}
             B == {v \in late' : v.row = r}
  <1>1. IsFiniteSet(late') /\ IsFiniteSet(A)
    BY FS_AddElement, FS_Subset
  <1>2. B = IF w.row = r THEN A \cup {w} ELSE A
    OBVIOUS
  <1> HIDE DEF A, B
  <1>3. Cardinality(B) = Cardinality(A) \/ (w.row = r /\ Cardinality(B) = Cardinality(A) + 1)
    BY <1>1, <1>2, FS_AddElement
  <1> QED
    BY <1>1, <1>3 DEF InFlight, A, B

LEMMA FlightLess ==
    ASSUME IsFiniteSet(late), NEW w \in late, late' = late \ {w}, NEW r
    PROVE  /\ IsFiniteSet(late')
           /\ InFlight(r)' = IF w.row = r THEN InFlight(r) - 1 ELSE InFlight(r)
  <1> DEFINE A == {v \in late : v.row = r}
             B == {v \in late' : v.row = r}
  <1>1. IsFiniteSet(late') /\ IsFiniteSet(A)
    BY FS_RemoveElement, FS_Subset
  <1>2. B = A \ {w} /\ (w \in A <=> w.row = r)
    OBVIOUS
  <1> HIDE DEF A, B
  <1>3. Cardinality(B) = IF w.row = r THEN Cardinality(A) - 1 ELSE Cardinality(A)
    BY <1>1, <1>2, FS_RemoveElement
  <1> QED
    BY <1>1, <1>3 DEF InFlight, A, B

\* A row that waits was never sent.
LEMMA QueuedUnsent ==
    ASSUME TypeOK, Placed, InOrder, NEW r \in Queued
    PROVE  r \in Rows /\ InStore(r) = 0 /\ InFlight(r) = 0
  <1>1. r \in Rows
    BY DEF Placed, TypeOK
  <1>2. r \notin Sent
    <2>1. ~(r.n < r.n)
      BY <1>1, RowType
    <2> QED
      BY <2>1 DEF InOrder, Before
  <1>3. {i \in DOMAIN remote : remote[i].row = r} = {} /\ {w \in late : w.row = r} = {}
    BY <1>2 DEF Sent
  <1> QED
    BY <1>1, <1>3, FS_EmptySet DEF InStore, InFlight

\* What a row may have left behind stays within its attempts.
LEMMA WithinAttempts ==
    ASSUME TypeOK, Bounded, NEW r \in Rows
    PROVE  /\ InStore(r) \in Nat /\ InFlight(r) \in Nat
           /\ InStore(r) + InFlight(r) <= MirrorAttempts
           /\ r \in InWorker => /\ worker.try \in 1 .. MirrorAttempts
                                /\ InStore(r) + InFlight(r) <= worker.try - 1
  <1>1. InStore(r) \in Nat /\ InFlight(r) \in Nat
    BY CountsTyped DEF Bounded
  <1>2. r \in InWorker => worker.try \in 1 .. MirrorAttempts
    BY DEF TypeOK, InWorker
  <1>3. InStore(r) + InFlight(r) <= IF r \in InWorker THEN worker.try - 1 ELSE MirrorAttempts
    BY DEF Bounded
  <1> QED
    BY <1>1, <1>2, <1>3, AttemptBound

\* Steps that neither send a row nor touch the file.
LEMMA BoundRests ==
    ASSUME TypeOK, Bounded, UNCHANGED <<remote, late>>, local' = local \/ local' = <<>>,
           InWorker' = {} \/ (InWorker' = InWorker /\ worker'.try = worker.try)
    PROVE  Bounded'
  <1>1. ASSUME NEW r \in Rows
        PROVE  InStore(r)' + InFlight(r)' <= IF r \in InWorker' THEN worker'.try - 1 ELSE MirrorAttempts
    <2>1. InStore(r)' = InStore(r) /\ InFlight(r)' = InFlight(r)
      BY DEF InStore, InFlight
    <2>2. InStore(r) + InFlight(r) <= MirrorAttempts
      BY WithinAttempts
    <2>3. InStore(r) + InFlight(r) <= IF r \in InWorker THEN worker.try - 1 ELSE MirrorAttempts
      BY DEF Bounded
    <2> QED
      BY <2>1, <2>2, <2>3
  <1>2. ASSUME NEW r \in Rows PROVE Copies(r, local') <= MirrorAttempts
    <2>1. CASE local' = local
      BY <2>1 DEF Bounded
    <2>2. CASE local' = <<>>
      <3>1. {i \in DOMAIN local' : local'[i] = r} = {}
        BY <2>2
      <3> QED
        BY <3>1, FS_EmptySet, AttemptBound DEF Copies
    <2> QED
      BY <2>1, <2>2
  <1>3. IsFiniteSet(late')
    BY DEF Bounded
  <1> QED
    BY <1>1, <1>2, <1>3 DEF Bounded

LEMMA BoundStep == ASSUME TypeOK, TypeOK', Numbered, Placed, InOrder, Bounded, [Next]_vars PROVE Bounded'
  <1>1. ASSUME NEW t \in Threads, WriteLocal(t) PROVE Bounded'
    <2>1. /\ Fresh(t) \in Rows /\ Fresh(t).n = next + 1 /\ local' = Append(local, Fresh(t))
          /\ UNCHANGED <<InWorker, remote, late, worker>>
      BY <1>1, WriteLocalMoves
    <2>2. local \in Seq(Rows) /\ Fresh(t) \notin Elements(local)
      BY <2>1, FreshIsNew DEF TypeOK
    <2>3. ASSUME NEW r \in Rows PROVE Copies(r, local') <= MirrorAttempts
      <3>2. Copies(r, local') = IF Fresh(t) = r THEN Copies(r, local) + 1 ELSE Copies(r, local)
        BY <2>1, <2>2, CopiesAppend
      <3>3. CASE r = Fresh(t)
        <4>1. {i \in DOMAIN local : local[i] = r} = {}
          BY <2>2, <3>3 DEF Elements
        <4>2. Copies(r, local) = 0
          BY <4>1, FS_EmptySet DEF Copies
        <4> QED
          BY <3>2, <3>3, <4>2, AttemptBound
      <3>4. CASE r # Fresh(t)
        BY <3>2, <3>4 DEF Bounded
      <3> QED
        BY <3>3, <3>4
    <2>4. ASSUME NEW r \in Rows
          PROVE  InStore(r)' + InFlight(r)' <= IF r \in InWorker' THEN worker'.try - 1 ELSE MirrorAttempts
      <3>1. InStore(r)' = InStore(r) /\ InFlight(r)' = InFlight(r)
        BY <2>1 DEF InStore, InFlight
      <3> QED
        BY <2>1, <3>1 DEF Bounded
    <2> QED
      BY <2>1, <2>3, <2>4 DEF Bounded
  <1>2. ASSUME NEW t \in Threads, Enqueue(t) \/ Overflow(t) PROVE Bounded'
    <2>1. UNCHANGED <<remote, late, local, InWorker, worker>>
      BY <1>2, EnqueueMoves, OverflowMoves DEF Placed
    <2> QED
      BY <2>1, BoundRests
  <1>3. ASSUME Take PROVE Bounded'
    <2>1. /\ UNCHANGED <<remote, late, local>> /\ InWorker = {}
          /\ \/ InWorker' = {}
             \/ Head(queue) \in Queued /\ InWorker' = {Head(queue)} /\ worker'.try = 1
      BY <1>3, TakeMoves DEF Placed
    <2>2. CASE InWorker' = {}
      BY <2>1, <2>2, BoundRests
    <2>3. CASE Head(queue) \in Queued /\ InWorker' = {Head(queue)} /\ worker'.try = 1
      <3>1. ASSUME NEW r \in Rows
            PROVE  InStore(r)' + InFlight(r)' <= IF r \in InWorker' THEN worker'.try - 1 ELSE MirrorAttempts
        <4>1. InStore(r)' = InStore(r) /\ InFlight(r)' = InFlight(r)
          BY <2>1 DEF InStore, InFlight
        <4>2. CASE r = Head(queue)
          BY <2>3, <4>1, <4>2, QueuedUnsent
        <4>3. CASE r # Head(queue)
          BY <2>3, <4>1, <4>3, WithinAttempts
        <4> QED
          BY <4>2, <4>3
      <3>2. IsFiniteSet(late') /\ \A r \in Rows : Copies(r, local') <= MirrorAttempts
        BY <2>1 DEF Bounded
      <3> QED
        BY <3>1, <3>2 DEF Bounded
    <2> QED
      BY <2>1, <2>2, <2>3
  <1>4. ASSUME Acked \/ Refused \/ AnswerLost \/ SendTimesOut \/ SealFails PROVE Bounded'
    <2> DEFINE q == [row |-> worker.row, key |-> key, try |-> worker.try]
    <2>1. /\ InWorker = {worker.row} /\ worker.row \in Rows /\ worker.try \in 1 .. MirrorAttempts
          /\ Seal(worker.row) \in Sealed /\ Seal(worker.row).row = worker.row
          /\ local' = local
      BY <1>4, SendMoves
    <2>2. InWorker' = {} \/ (InWorker' = InWorker /\ worker'.try = worker.try + 1)
      BY <1>4, AckedMoves, AttemptMoves
    <2>3. q.row = worker.row
      OBVIOUS
    <2>4. \/ UNCHANGED <<remote, late>>
          \/ remote' = Append(remote, Seal(worker.row)) /\ late' = late
          \/ remote' = remote /\ late' = late \cup {q}
      BY <1>4, AckedMoves, AttemptSends
    <2>5. IsFiniteSet(late)
      BY DEF Bounded
    <2> HIDE DEF q
    <2>6. ASSUME NEW r \in Rows
          PROVE  /\ IsFiniteSet(late')
                 /\ InStore(r)' \in Nat /\ InFlight(r)' \in Nat
                 /\ InStore(r)' + InFlight(r)' <=
                       IF r = worker.row THEN InStore(r) + InFlight(r) + 1 ELSE InStore(r) + InFlight(r)
      <3>0. InStore(r) \in Nat /\ InFlight(r) \in Nat
        BY WithinAttempts
      <3>1. CASE UNCHANGED <<remote, late>>
        <4>1. InStore(r)' = InStore(r) /\ InFlight(r)' = InFlight(r)
          BY <3>1 DEF InStore, InFlight
        <4> QED
          BY <2>5, <3>0, <3>1, <4>1
      <3>2. CASE remote' = Append(remote, Seal(worker.row)) /\ late' = late
        <4>1. InStore(r)' = IF worker.row = r THEN InStore(r) + 1 ELSE InStore(r)
          BY <2>1, <3>2, StoreCount
        <4>2. InFlight(r)' = InFlight(r)
          BY <3>2 DEF InFlight
        <4> QED
          BY <2>5, <3>0, <3>2, <4>1, <4>2
      <3>3. CASE remote' = remote /\ late' = late \cup {q}
        <4>1. IsFiniteSet(late') /\ (InFlight(r)' = InFlight(r) \/ (q.row = r /\ InFlight(r)' = InFlight(r) + 1))
          BY <2>5, <3>3, FlightMore
        <4>2. InStore(r)' = InStore(r)
          BY <3>3 DEF InStore
        <4> QED
          BY <2>3, <3>0, <4>1, <4>2
      <3> QED
        BY <2>4, <3>1, <3>2, <3>3
    <2>7. ASSUME NEW r \in Rows
          PROVE  InStore(r)' + InFlight(r)' <= IF r \in InWorker' THEN worker'.try - 1 ELSE MirrorAttempts
      <3>1. CASE r = worker.row
        <4>1. InStore(r) \in Nat /\ InFlight(r) \in Nat /\ InStore(r) + InFlight(r) <= worker.try - 1
          BY <2>1, <3>1, WithinAttempts
        <4>2. InStore(r)' + InFlight(r)' <= InStore(r) + InFlight(r) + 1 /\ InStore(r)' \in Nat /\ InFlight(r)' \in Nat
          BY <2>6, <3>1
        <4>3. InStore(r)' + InFlight(r)' <= worker.try
          BY <2>1, <4>1, <4>2
        <4>4. r \in InWorker' => worker'.try - 1 = worker.try
          BY <2>1, <2>2
        <4>5. InStore(r)' + InFlight(r)' <= MirrorAttempts
          BY <2>1, <4>2, <4>3, AttemptBound
        <4> QED
          BY <4>3, <4>4, <4>5
      <3>2. CASE r # worker.row
        <4>1. InStore(r)' + InFlight(r)' <= InStore(r) + InFlight(r) /\ InStore(r)' \in Nat /\ InFlight(r)' \in Nat
          BY <2>6, <3>2
        <4>2. InStore(r) \in Nat /\ InFlight(r) \in Nat /\ InStore(r) + InFlight(r) <= MirrorAttempts
          BY WithinAttempts
        <4>3. r \notin InWorker'
          BY <2>1, <2>2, <3>2
        <4> QED
          BY <4>1, <4>2, <4>3, AttemptBound
      <3> QED
        BY <3>1, <3>2
    <2>8. IsFiniteSet(late')
      BY <2>1, <2>6
    <2> QED
      BY <2>1, <2>7, <2>8 DEF Bounded
  <1>5. ASSUME NEW w \in late, LateWrite(w) PROVE Bounded'
    <2> DEFINE x == [row |-> w.row, key |-> w.key]
    <2>1. /\ x \in Sealed /\ x.row = w.row
          /\ remote' = Append(remote, x) /\ late' = late \ {w}
          /\ UNCHANGED <<local, InWorker, worker>>
      BY <1>5, LateWriteMoves DEF Places
    <2> HIDE DEF x
    <2>2. IsFiniteSet(late)
      BY DEF Bounded
    <2>3. ASSUME NEW r \in Rows PROVE InStore(r)' + InFlight(r)' = InStore(r) + InFlight(r)
      <3>1. InStore(r)' = IF w.row = r THEN InStore(r) + 1 ELSE InStore(r)
        BY <2>1, StoreCount
      <3>2. InFlight(r)' = IF w.row = r THEN InFlight(r) - 1 ELSE InFlight(r)
        BY <2>1, <2>2, FlightLess
      <3>3. InStore(r) \in Nat /\ InFlight(r) \in Nat
        BY <2>2, CountsTyped
      <3> QED
        BY <3>1, <3>2, <3>3
    <2>4. IsFiniteSet(late')
      BY <2>1, <2>2, FlightLess
    <2> QED
      BY <2>1, <2>3, <2>4 DEF Bounded
  <1>6. ASSUME PutStop PROVE Bounded'
    BY <1>6, PutStopMoves, BoundRests DEF Places
  <1>7. ASSUME Exit PROVE Bounded'
    BY <1>7, ExitMoves, BoundRests
  <1>8. ASSUME NEW keep \in BOOLEAN, NEW newKey \in {key, key + 1}, Boot(keep, newKey) PROVE Bounded'
    BY <1>8, BootMoves, BoundRests DEF Places
  <1>9. ASSUME Hydrate PROVE Bounded'
    <2>1. local' = Restored /\ UNCHANGED <<remote, late, InWorker, worker>>
      BY <1>9, HydrateMoves DEF Places
    <2>2. ASSUME NEW r \in Rows PROVE Copies(r, local') <= MirrorAttempts
      <3>1. Copies(r, Restored) <= InStore(r)
        BY RestoredFacts DEF InStore
      <3>2. InStore(r) \in Nat /\ InFlight(r) \in Nat /\ InStore(r) + InFlight(r) <= MirrorAttempts
        BY WithinAttempts
      <3>3. Copies(r, Restored) \in Nat
        <4>1. Restored \in Seq(Rows)
          BY RestoredFacts
        <4>2. Len(Restored) \in Nat /\ {i \in DOMAIN Restored : Restored[i] = r} \in SUBSET (1 .. Len(Restored))
          BY <4>1
        <4>3. IsFiniteSet({i \in DOMAIN Restored : Restored[i] = r})
          BY <4>2, FS_Interval, FS_Subset
        <4> QED
          BY <4>3, FS_CardinalityType DEF Copies
      <3> QED
        BY <2>1, <3>1, <3>2, <3>3, AttemptBound
    <2>3. ASSUME NEW r \in Rows
          PROVE  InStore(r)' + InFlight(r)' <= IF r \in InWorker' THEN worker'.try - 1 ELSE MirrorAttempts
      <3>1. InStore(r)' = InStore(r) /\ InFlight(r)' = InFlight(r)
        BY <2>1 DEF InStore, InFlight
      <3> QED
        BY <2>1, <3>1 DEF Bounded
    <2> QED
      BY <2>1, <2>2, <2>3 DEF Bounded
  <1>10. ASSUME SigTerm \/ HydrateFails \/ (\E ok \in BOOLEAN : Probe(ok)) \/ Finished \/ UNCHANGED vars
         PROVE  Bounded'
    BY <1>10, PhaseMoves, BoundRests DEF PhaseOnly, Places
  <1> QED
    BY <1>1, <1>2, <1>3, <1>4, <1>5, <1>6, <1>7, <1>8, <1>9, <1>10
    DEF Next, Handler, Worker, Close, CloseJoined, CloseTimesOut, Crash

-----------------------------------------------------------------------------
(* Survives *)

\* Steps that leave the file and the counters alone, whatever they send.
LEMMA SurvivesRests ==
    ASSUME TypeOK, Survives, UNCHANGED <<local, key, hydrated, acked>>, mine' = mine,
           remote' = remote \/ \E x \in Sealed : remote' = Append(remote, x),
           \/ phase' = phase
           \/ phase \in {"serving", "closing"} /\ phase' \in {"closing", "joining"}
           \/ phase = "boot" /\ phase' = "probe"
           \/ phase = "probe" /\ phase' = "serving"
    PROVE  Survives'
  <1>1. Len(remote') <= MaxHydrate => Len(remote) <= MaxHydrate
    <2>1. Len(remote) \in Nat /\ MaxHydrate \in Nat
      BY DurableAssumption DEF TypeOK
    <2>2. remote' = remote \/ Len(remote') = Len(remote) + 1
      BY AppendFacts DEF TypeOK
    <2> QED
      BY <2>1, <2>2
  <1>2. Elements(local') = Elements(local)
    BY DEF Elements
  <1>3. phase' = "boot" => ~hydrated'
    BY DEF Survives
  <1>4. phase' \in {"down", "boot", "probe"} => mine' = {}
    BY DEF Survives
  <1>5. phase' \notin {"down", "boot"} /\ hydrated' => phase \notin {"down", "boot"} /\ hydrated
    BY DEF Survives
  <1> QED
    BY <1>1, <1>2, <1>3, <1>4, <1>5 DEF Survives

LEMMA SurvivesStep == ASSUME TypeOK, TypeOK', Placed, Survives, [Next]_vars PROVE Survives'
  <1>1. ASSUME NEW t \in Threads, WriteLocal(t) PROVE Survives'
    <2>1. /\ Fresh(t) \in Rows /\ mine' = mine \cup {Fresh(t)} /\ local' = Append(local, Fresh(t)) /\ Running
          /\ UNCHANGED <<phase, remote, key, hydrated, acked>>
      BY <1>1, WriteLocalMoves
    <2>2. Elements(local') = Elements(local) \cup {Fresh(t)}
      BY <2>1, AppendFacts DEF TypeOK
    <2> QED
      BY <2>1, <2>2 DEF Survives, Running
  <1>2. ASSUME NEW t \in Threads, Enqueue(t) \/ Overflow(t) PROVE Survives'
    BY <1>2, EnqueueMoves, OverflowMoves, SurvivesRests DEF Placed
  <1>3. ASSUME Take PROVE Survives'
    BY <1>3, TakeMoves, SurvivesRests DEF Placed
  <1>4. ASSUME Acked PROVE Survives'
    <2>1. /\ InWorker = {worker.row} /\ Seal(worker.row).row = worker.row /\ Seal(worker.row) \in Sealed
          /\ UNCHANGED <<phase, local, mine, key, hydrated>>
      BY <1>4, SendMoves
    <2>2. remote' = Append(remote, Seal(worker.row)) /\ acked' = acked \cup {Seal(worker.row)}
      BY <1>4, AckedMoves
    <2>3. worker.row \in Elements(local) /\ Elements(local') = Elements(local)
      BY <2>1 DEF Placed, Survives, Elements
    <2>4. Len(remote') <= MaxHydrate => Len(remote) <= MaxHydrate
      <3>1. Len(remote) \in Nat /\ MaxHydrate \in Nat /\ Len(remote') = Len(remote) + 1
        BY <2>1, <2>2, AppendFacts, DurableAssumption DEF TypeOK
      <3> QED
        BY <3>1
    <2> QED
      BY <2>1, <2>2, <2>3, <2>4 DEF Survives
  <1>5. ASSUME Refused \/ AnswerLost \/ SendTimesOut \/ SealFails PROVE Survives'
    BY <1>5, SendMoves, AttemptMoves, AttemptSends, SurvivesRests
  <1>6. ASSUME NEW w \in late, LateWrite(w) PROVE Survives'
    BY <1>6, LateWriteMoves, SurvivesRests DEF Places
  <1>7. ASSUME PutStop PROVE Survives'
    BY <1>7, PutStopMoves, SurvivesRests DEF Places
  <1>8. ASSUME Exit PROVE Survives'
    BY <1>8, ExitMoves DEF Survives
  <1>9. ASSUME NEW keep \in BOOLEAN, NEW newKey \in {key, key + 1}, Boot(keep, newKey) PROVE Survives'
    BY <1>9, BootMoves DEF Survives, Places
  <1>10. ASSUME Hydrate PROVE Survives'
    <2>1. /\ phase = "boot" /\ phase' = "probe" /\ local' = Restored /\ mine' = mine
          /\ UNCHANGED <<remote, key, acked>>
      BY <1>10, HydrateMoves DEF Places
    <2>2. mine = {}
      BY <2>1 DEF Survives
    <2>3. Len(remote) <= MaxHydrate => \A a \in acked : a.key = key => a.row \in Elements(Restored)
      BY RestoredFacts DEF Placed
    <2> QED
      BY <2>1, <2>2, <2>3 DEF Survives
  <1>11. ASSUME SigTerm \/ HydrateFails \/ (\E ok \in BOOLEAN : Probe(ok)) \/ Finished \/ UNCHANGED vars
         PROVE  Survives'
    BY <1>11, PhaseMoves, SurvivesRests DEF PhaseOnly
  <1> QED
    BY <1>1, <1>2, <1>3, <1>4, <1>5, <1>6, <1>7, <1>8, <1>9, <1>10, <1>11
    DEF Next, Handler, Worker, Close, CloseJoined, CloseTimesOut, Crash

-----------------------------------------------------------------------------
(* The theorems *)

LEMMA InitHolds == Init => IInv
  <1> SUFFICES ASSUME Init PROVE IInv
    OBVIOUS
  <1>0. /\ local = <<>> /\ remote = <<>> /\ late = {} /\ queue = <<>> /\ worker = Idle /\ phase = "boot"
        /\ hand = [t \in Threads |-> NoRow] /\ hydrated = FALSE /\ next = 0
        /\ mine = {} /\ acked = {} /\ failed = {} /\ dropped = {}
    BY DEF Init
  <1>1. TypeOK
    <2>1. worker \in WorkerStates /\ worker.pc # "send"
      BY <1>0, IdleType
    <2>2. key \in 1 .. MaxKey /\ life \in Nat /\ next \in 0 .. MaxRows /\ bootReason = FALSE
      BY <1>0, DurableAssumption DEF Init
    <2>3. Len(queue) <= QueueMax
      BY <1>0, DurableAssumption
    <2>4. local \in Seq(Rows) /\ remote \in Seq(Sealed) /\ queue \in Seq(Rows \cup {Stop})
      BY <1>0
    <2>5. hand \in [Threads -> Rows \cup {NoRow}]
      BY <1>0
    <2>6. /\ late \subseteq [row : Rows, key : 1 .. MaxKey, try : 1 .. MirrorAttempts]
          /\ mine \subseteq Rows /\ failed \subseteq Rows /\ dropped \subseteq Rows /\ acked \subseteq Sealed
      BY <1>0
    <2>7. phase \in {"down", "boot", "probe", "serving", "closing", "joining"} /\ hydrated \in BOOLEAN
      BY <1>0
    <2> QED
      BY <2>1, <2>2, <2>3, <2>4, <2>5, <2>6, <2>7 DEF TypeOK, WorkerStates
  <1>2. Sent = {} /\ Elements(local) = {} /\ Elements(queue) = {}
    BY <1>0 DEF Sent, Elements
  <1>3. Handed = {} /\ Queued = {} /\ InWorker = {} /\ Mirrored = {}
    BY <1>0, <1>2, IdleType DEF Handed, Queued, InWorker, Mirrored
  <1>4. Numbered
    BY <1>0, <1>2 DEF Numbered
  <1>5. Placed
    BY <1>0, <1>3, FS_EmptySet DEF Placed, Held, Distinct
  <1>6. InOrder
    BY <1>0, <1>2, <1>3 DEF InOrder
  <1>7. Bounded
    <2>1. IsFiniteSet(late)
      BY <1>0, FS_EmptySet
    <2>2. ASSUME NEW r \in Rows PROVE InStore(r) = 0 /\ InFlight(r) = 0 /\ Copies(r, local) = 0
      <3>1. /\ {i \in DOMAIN remote : remote[i].row = r} = {} /\ {w \in late : w.row = r} = {}
            /\ {i \in DOMAIN local : local[i] = r} = {}
        BY <1>0
      <3> QED
        BY <3>1, FS_EmptySet DEF InStore, InFlight, Copies
    <2> QED
      BY <1>3, <2>1, <2>2, AttemptBound DEF Bounded
  <1>8. Survives
    BY <1>0 DEF Survives
  <1> QED
    BY <1>1, <1>4, <1>5, <1>6, <1>7, <1>8 DEF IInv

LEMMA StepKeeps == IInv /\ [Next]_vars => IInv'
  <1> SUFFICES ASSUME IInv, [Next]_vars PROVE IInv'
    OBVIOUS
  <1>1. TypeOK /\ Numbered /\ Placed /\ InOrder /\ Bounded /\ Survives
    BY DEF IInv
  <1>2. TypeOK'
    BY <1>1, TypeStep
  <1>3. Numbered' /\ Placed'
    BY <1>1, <1>2, NumberedStep, PlacedStep
  <1>4. InOrder' /\ Bounded' /\ Survives'
    BY <1>1, <1>2, <1>3, OrderStep, BoundStep, SurvivesStep
  <1> QED
    BY <1>2, <1>3, <1>4 DEF IInv

LEMMA IInvHolds == Spec => []IInv
  BY InitHolds, StepKeeps, PTL DEF Spec

\* The rows the queue holds are as many as its positions that hold one: no row is in it
\* twice.
LEMMA QueueCounted ==
    ASSUME TypeOK, Distinct, IsFiniteSet(Queued)
    PROVE  Cardinality(Queued) = Cardinality({i \in DOMAIN queue : queue[i] # Stop})
  <1> DEFINE A == {i \in DOMAIN queue : queue[i] # Stop}
             f == [i \in A |-> queue[i]]
  <1>1. f \in Injection(A, Queued)
    BY DEF Distinct, Queued, Elements, Injection, IsInjective
  <1>2. f \in Surjection(A, Queued)
    BY DEF Queued, Elements, Surjection
  <1> HIDE DEF A, f
  <1>3. Cardinality(A) = Cardinality(Queued)
    BY <1>1, <1>2, FS_Injection
  <1> QED
    BY <1>3 DEF A

LEMMA CountedImplied == ASSUME IInv PROVE CountedOnce
  <1> DEFINE M == Mirrored \cap mine
  <1>1. TypeOK /\ Placed
    BY DEF IInv
  <1>2. /\ IsFiniteSet(mine)
        /\ mine = Handed \cup Queued \cup InWorker \cup M \cup failed \cup dropped
    BY <1>1 DEF Placed
  <1>3. /\ IsFiniteSet(Handed) /\ IsFiniteSet(Queued) /\ IsFiniteSet(InWorker)
        /\ IsFiniteSet(M) /\ IsFiniteSet(failed) /\ IsFiniteSet(dropped)
    BY <1>2, FS_Subset
  <1>4. /\ Cardinality(Handed) \in Nat /\ Cardinality(Queued) \in Nat /\ Cardinality(InWorker) \in Nat
        /\ Cardinality(M) \in Nat /\ Cardinality(failed) \in Nat /\ Cardinality(dropped) \in Nat
    BY <1>3, FS_CardinalityType
  <1>5. \A S, T : IsFiniteSet(S) /\ IsFiniteSet(T) /\ S \cap T = {} =>
                     IsFiniteSet(S \cup T) /\ Cardinality(S \cup T) = Cardinality(S) + Cardinality(T)
    <2> TAKE S, T
    <2> HAVE IsFiniteSet(S) /\ IsFiniteSet(T) /\ S \cap T = {}
    <2>1. Cardinality(S \cup T) = Cardinality(S) + Cardinality(T) - Cardinality(S \cap T) /\ IsFiniteSet(S \cup T)
      BY FS_Union
    <2>2. Cardinality(S \cap T) = 0 /\ Cardinality(S) \in Nat /\ Cardinality(T) \in Nat
      BY FS_EmptySet, FS_CardinalityType
    <2> QED
      BY <2>1, <2>2
  <1>6. /\ Handed \cap Queued = {}
        /\ (Handed \cup Queued) \cap InWorker = {}
        /\ (Handed \cup Queued \cup InWorker) \cap M = {}
        /\ (Handed \cup Queued \cup InWorker \cup M) \cap failed = {}
        /\ (Handed \cup Queued \cup InWorker \cup M \cup failed) \cap dropped = {}
    BY <1>1 DEF Placed
  <1> HIDE DEF M
  <1>7. /\ IsFiniteSet(Handed \cup Queued)
        /\ Cardinality(Handed \cup Queued) = Cardinality(Handed) + Cardinality(Queued)
    BY <1>3, <1>5, <1>6
  <1>8. /\ IsFiniteSet(Handed \cup Queued \cup InWorker)
        /\ Cardinality(Handed \cup Queued \cup InWorker) = Cardinality(Handed \cup Queued) + Cardinality(InWorker)
    BY <1>3, <1>5, <1>6, <1>7
  <1>9. /\ IsFiniteSet(Handed \cup Queued \cup InWorker \cup M)
        /\ Cardinality(Handed \cup Queued \cup InWorker \cup M)
              = Cardinality(Handed \cup Queued \cup InWorker) + Cardinality(M)
    BY <1>3, <1>5, <1>6, <1>8
  <1>10. /\ IsFiniteSet(Handed \cup Queued \cup InWorker \cup M \cup failed)
         /\ Cardinality(Handed \cup Queued \cup InWorker \cup M \cup failed)
               = Cardinality(Handed \cup Queued \cup InWorker \cup M) + Cardinality(failed)
    BY <1>3, <1>5, <1>6, <1>9
  <1>11. Cardinality(mine) = Cardinality(Handed \cup Queued \cup InWorker \cup M \cup failed) + Cardinality(dropped)
    BY <1>2, <1>3, <1>5, <1>6, <1>10
  <1>12. Cardinality(mine) = Cardinality(Handed) + Cardinality(Queued) + Cardinality(InWorker)
                           + Cardinality(M) + Cardinality(failed) + Cardinality(dropped)
    BY <1>4, <1>7, <1>8, <1>9, <1>10, <1>11
  <1>13. Cardinality(Queued) = Cardinality({i \in DOMAIN queue : queue[i] # Stop})
    BY <1>1, <1>3, QueueCounted DEF Placed
  <1> QED
    BY <1>12, <1>13 DEF CountedOnce, M

\* The pipeline's state is what its names say: a place in use holds a row, the worker is
\* at one of its MIRROR_ATTEMPTS, and what comes back from a hydrate is rows again.
THEOREM LedgerTypes == Spec => []TypeOK
  BY IInvHolds, PTL DEF IInv

\* Whatever the store does to the mirror's writes and whenever the process stops,
\* every row appended in this life is on its way or counted, and every row
\* counted mirrored is in the store.
THEOREM EveryRowIsAccounted == Spec => []Accounted
  <1>1. IInv => Accounted
    BY DEF IInv, Placed, Accounted
  <1> QED
    BY <1>1, IInvHolds, PTL

\* No row is counted twice, whatever is retried: the counters of /health add up to the
\* rows that have left the pipeline, and the queue holds a row once.
THEOREM RowsAreCountedOnce == Spec => []CountedOnce
  <1>1. IInv => CountedOnce
    BY CountedImplied
  <1> QED
    BY <1>1, IInvHolds, PTL

\* The list keeps the order of each handler's rows, and neither it nor the file ever
\* holds a row more often than MIRROR_ATTEMPTS, however often the process restarts.
THEOREM MirrorKeepsOrderAndCount == Spec => []MirrorSound
  <1>1. IInv => MirrorSound
    <2> SUFFICES ASSUME IInv PROVE MirrorSound
      OBVIOUS
    <2>1. TypeOK /\ Placed /\ InOrder /\ Bounded
      BY DEF IInv
    <2>2. MirrorInOrder
      BY <2>1, OrderImplied
    <2>3. ASSUME NEW r \in Rows PROVE InStore(r) <= MirrorAttempts
      <3>1. InStore(r) \in Nat /\ InFlight(r) \in Nat /\ InStore(r) + InFlight(r) <= MirrorAttempts
        BY <2>1, WithinAttempts
      <3> QED
        BY <3>1, AttemptBound
    <2>4. CopiesBounded
      BY <2>1, <2>3 DEF CopiesBounded, Bounded, InStore
    <2> QED
      BY <2>2, <2>4 DEF MirrorSound
  <1> QED
    BY <1>1, IInvHolds, PTL

\* After a hydrate that worked the file holds every row of the current key an earlier life
\* counted mirrored, also when rows of other keys lie in between and the disk was lost.
THEOREM MirroredRowsSurvive == Spec => []AckedSurvives
  <1>1. IInv => AckedSurvives
    BY DEF IInv, Survives, AckedSurvives, Running
  <1> QED
    BY <1>1, IInvHolds, PTL
=============================================================================
