--------------------------- MODULE DurableLedger ---------------------------
(***************************************************************************)
(* remote_ledger.DurableEventLedger: the local event file, the bounded     *)
(* queue of rows to mirror, the one worker that sends them (at least once) *)
(* to an append-only KV list, and the boot that replays the list into the  *)
(* file.  HTTP handler threads append; main boots, serves and closes.      *)
(*                                                                         *)
(* External: the KV store.  A write may be refused, may land with its      *)
(* answer lost, or may land after the worker stopped waiting for it.       *)
(***************************************************************************)
EXTENDS Integers, Sequences, FiniteSets, Subsequences

CONSTANTS Threads,        \* HTTP handler threads
          QueueMax,       \* queue_max
          MirrorAttempts, \* MIRROR_ATTEMPTS
          MaxHydrate,     \* max_hydrate
          MaxRows,        \* bound: rows appended in all
          MaxLives,       \* bound: boots of the process
          MaxKey          \* bound: ledger keys the operator rotates through

ASSUME DurableAssumption ==
          /\ QueueMax \in Nat \ {0}
          /\ MirrorAttempts \in Nat \ {0}
          /\ MaxHydrate \in Nat \ {0}
          /\ MaxRows \in Nat /\ MaxLives \in Nat /\ MaxKey \in Nat \ {0}
          /\ {"close", "none"} \cap Threads = {}

VARIABLES phase,      \* down, boot, probe, serving, closing, joining
          local,      \* the rows of the local file
          remote,     \* the KV list: sealed rows
          late,       \* writes the worker gave up on and the store still has to apply
          queue,      \* self._q
          worker,     \* the row _mirror is sending and the attempt it is at
          hand,       \* hand[t]: the row t has written locally and not queued yet
          next,       \* rows appended so far, which numbers them
          key,        \* the key rows are sealed with
          life,       \* boots so far
          bootReason, \* verify_writable found the store unwritable
          hydrated,   \* history: this boot's hydrate replaced the file
          mine,       \* history: rows appended since the boot
          acked,      \* stats["mirrored"], as the rows counted (of every life)
          failed,     \* stats["mirror_failures"], as the rows counted
          dropped     \* stats["dropped"], as the rows counted

disk == <<local, remote, late, key, life>>
memory == <<queue, worker, hand, mine, failed, dropped>>
vars == <<phase, disk, memory, next, bootReason, hydrated, acked>>

Rows == [by : Threads, n : 1 .. MaxRows]

Stop == [by |-> "close", n |-> 0]    \* the None close() puts

NoRow == [by |-> "none", n |-> 0]

Sealed == [row : Rows, key : 1 .. MaxKey]

\* seal: an envelope only the same key opens (unseal).
Seal(r) == [row |-> r, key |-> key]

Idle == [pc |-> "idle", row |-> NoRow, try |-> 0]

Elements(s) == {s[i] : i \in DOMAIN s}

Running == phase \in {"serving", "closing", "joining"}

-----------------------------------------------------------------------------
(* Appending: EventLedger._append under its lock, then put_nowait *)

WriteLocal(t) ==
    /\ Running
    /\ hand[t] = NoRow /\ next < MaxRows
    /\ LET r == [by |-> t, n |-> next + 1]
       IN /\ local' = Append(local, r)
          /\ hand' = [hand EXCEPT ![t] = r]
          /\ mine' = mine \cup {r}
    /\ next' = next + 1
    /\ UNCHANGED <<phase, remote, late, key, life, queue, worker, failed, dropped,
                   bootReason, hydrated, acked>>

Enqueue(t) ==
    /\ Running
    /\ hand[t] # NoRow
    /\ Len(queue) < QueueMax
    /\ queue' = Append(queue, hand[t])
    /\ hand' = [hand EXCEPT ![t] = NoRow]
    /\ UNCHANGED <<phase, disk, worker, mine, failed, dropped, next, bootReason, hydrated, acked>>

\* queue.Full: the row being appended is the one that is dropped.
Overflow(t) ==
    /\ Running
    /\ hand[t] # NoRow
    /\ Len(queue) >= QueueMax
    /\ dropped' = dropped \cup {hand[t]}
    /\ hand' = [hand EXCEPT ![t] = NoRow]
    /\ UNCHANGED <<phase, disk, queue, worker, mine, failed, next, bootReason, hydrated, acked>>

-----------------------------------------------------------------------------
(* The worker: _drain and _mirror.  It starts with the constructor. *)

Take ==
    /\ Running
    /\ worker.pc = "idle" /\ queue # <<>>
    /\ worker' = IF Head(queue) = Stop
                 THEN [Idle EXCEPT !.pc = "done"]
                 ELSE [pc |-> "send", row |-> Head(queue), try |-> 1]
    /\ queue' = Tail(queue)
    /\ UNCHANGED <<phase, disk, hand, mine, failed, dropped, next, bootReason, hydrated, acked>>

Sending == Running /\ worker.pc = "send"

\* Mutant of Acked: LPUSH for RPUSH.
AckedAtTheHead ==
    /\ Sending
    /\ remote' = <<Seal(worker.row)>> \o remote
    /\ acked' = acked \cup {Seal(worker.row)}
    /\ worker' = Idle
    /\ UNCHANGED <<phase, local, late, key, life, queue, hand, mine, failed, dropped,
                   next, bootReason, hydrated>>

\* backend.append answered: the row is counted mirrored.
Acked ==
    /\ Sending
    /\ remote' = Append(remote, Seal(worker.row))
    /\ acked' = acked \cup {Seal(worker.row)}
    /\ worker' = Idle
    /\ UNCHANGED <<phase, local, late, key, life, queue, hand, mine, failed, dropped,
                   next, bootReason, hydrated>>

\* Mutant of GiveUpOrRetry: one attempt too many.
RetryOnceMore ==
    IF worker.try <= MirrorAttempts
    THEN worker' = [worker EXCEPT !.try = @ + 1] /\ UNCHANGED failed
    ELSE worker' = Idle /\ failed' = failed \cup {worker.row}

\* One attempt failed: the next one, or the row is given up and counted.
GiveUpOrRetry ==
    IF worker.try < MirrorAttempts
    THEN worker' = [worker EXCEPT !.try = @ + 1] /\ UNCHANGED failed
    ELSE worker' = Idle /\ failed' = failed \cup {worker.row}

\* Mutant of Refused: the exception leaves _mirror and ends the worker thread.
RefusedEndsWorker ==
    /\ Sending
    /\ worker' = [Idle EXCEPT !.pc = "done"]
    /\ failed' = failed \cup {worker.row}
    /\ UNCHANGED <<phase, disk, queue, hand, mine, dropped, next, bootReason, hydrated, acked>>

\* Mutant of Refused: an error body is taken for an answer (only `result` is read).
RefusedIsAcked ==
    /\ Sending
    /\ acked' = acked \cup {Seal(worker.row)}
    /\ worker' = Idle
    /\ UNCHANGED <<phase, disk, queue, hand, mine, failed, dropped, next, bootReason, hydrated>>

\* _cmd raised and the store holds nothing (refused, unreachable, an error body).
Refused ==
    /\ Sending
    /\ GiveUpOrRetry
    /\ UNCHANGED <<phase, disk, queue, hand, mine, dropped, next, bootReason, hydrated, acked>>

\* The store applied the RPUSH and the answer was lost.
AnswerLost ==
    /\ Sending
    /\ remote' = Append(remote, Seal(worker.row))
    /\ GiveUpOrRetry
    /\ UNCHANGED <<phase, local, late, key, life, queue, hand, mine, dropped, next,
                   bootReason, hydrated, acked>>

\* The request timed out and the store will apply it later.
SendTimesOut ==
    /\ Sending
    /\ late' = late \cup {[row |-> worker.row, key |-> key, try |-> worker.try]}
    /\ GiveUpOrRetry
    /\ UNCHANGED <<phase, local, remote, key, life, queue, hand, mine, dropped, next,
                   bootReason, hydrated, acked>>

LateWrite(w) ==
    /\ late' = late \ {w}
    /\ remote' = Append(remote, [row |-> w.row, key |-> w.key])
    /\ UNCHANGED <<phase, local, key, life, memory, next, bootReason, hydrated, acked>>

\* Mutant of SealFails: the failure is counted and the attempts go on.
SealFailsAndGoesOn ==
    /\ Sending
    /\ failed' = failed \cup {worker.row}
    /\ UNCHANGED <<phase, disk, queue, worker, hand, mine, dropped, next, bootReason, hydrated, acked>>

\* seal raised LedgerCryptoError: no retry.
SealFails ==
    /\ Sending
    /\ failed' = failed \cup {worker.row}
    /\ worker' = Idle
    /\ UNCHANGED <<phase, disk, queue, hand, mine, dropped, next, bootReason, hydrated, acked>>

-----------------------------------------------------------------------------
(* close(): put(None) waits for room, then the worker is joined *)

SigTerm ==
    /\ phase = "serving"
    /\ phase' = "closing"
    /\ UNCHANGED <<disk, memory, next, bootReason, hydrated, acked>>

PutStop ==
    /\ phase = "closing"
    /\ Len(queue) < QueueMax
    /\ queue' = Append(queue, Stop)
    /\ phase' = "joining"
    /\ UNCHANGED <<disk, worker, hand, mine, failed, dropped, next, bootReason, hydrated, acked>>

\* The process is gone, and with it the queue, the worker and the handlers.
Exit ==
    /\ phase' = "down"
    /\ queue' = <<>> /\ worker' = Idle /\ hand' = [t \in Threads |-> NoRow]
    /\ mine' = {} /\ failed' = {} /\ dropped' = {}
    /\ UNCHANGED <<disk, next, bootReason, hydrated, acked>>

CloseJoined ==
    /\ phase = "joining"
    /\ worker.pc = "done"
    /\ Exit

CloseTimesOut ==
    /\ phase = "joining"
    /\ worker.pc # "done"
    /\ Exit

Crash == phase # "down" /\ Exit

-----------------------------------------------------------------------------
(* Boot: the constructor, hydrate, verify_writable (blackwall.main) *)

\* keep: the disk outlived the process.  newKey: the operator rotated the key.
Boot(keep, newKey) ==
    /\ phase = "down" /\ life < MaxLives
    /\ newKey <= MaxKey
    /\ phase' = "boot"
    /\ life' = life + 1
    /\ key' = newKey
    /\ local' = IF keep THEN local ELSE <<>>
    /\ hydrated' = FALSE /\ bootReason' = FALSE
    /\ UNCHANGED <<remote, late, memory, next, acked>>

\* LRANGE -limit -1: the newest `limit` rows, oldest first.
ReadAll(limit) ==
    IF Len(remote) <= limit THEN remote
    ELSE SubSeq(remote, Len(remote) - limit + 1, Len(remote))

\* Mutant of Restored: the first row that does not open ends the replay.
RestoredUntilUndecryptable ==
    LET rows == ReadAll(MaxHydrate)
        bad == {i \in DOMAIN rows : rows[i].key # key}
        upto == IF bad = {} THEN Len(rows) ELSE (CHOOSE i \in bad : \A j \in bad : i <= j) - 1
    IN [i \in 1 .. upto |-> rows[i].row]

\* The rows unseal opens; one sealed with another key is skipped.
Restored ==
    LET rows == ReadAll(MaxHydrate)
        opened == Subsequence(rows, {i \in DOMAIN rows : rows[i].key = key})
    IN [i \in DOMAIN opened |-> opened[i].row]

\* os.replace: the file becomes exactly what the store gave.
Hydrate ==
    /\ phase = "boot"
    /\ local' = Restored
    /\ phase' = "probe"
    /\ hydrated' = TRUE
    /\ UNCHANGED <<remote, late, key, life, memory, next, bootReason, acked>>

HydrateFails ==
    /\ phase = "boot"
    /\ phase' = "probe"
    /\ UNCHANGED <<disk, memory, next, bootReason, hydrated, acked>>

Probe(ok) ==
    /\ phase = "probe"
    /\ phase' = "serving"
    /\ bootReason' = ~ok
    /\ UNCHANGED <<disk, memory, next, hydrated, acked>>

-----------------------------------------------------------------------------

Init ==
    /\ phase = "boot"
    /\ local = <<>> /\ remote = <<>> /\ late = {} /\ key = 1 /\ life = 1
    /\ queue = <<>> /\ worker = Idle /\ hand = [t \in Threads |-> NoRow]
    /\ next = 0
    /\ bootReason = FALSE /\ hydrated = FALSE
    /\ mine = {} /\ acked = {} /\ failed = {} /\ dropped = {}

Handler(t) == WriteLocal(t) \/ Enqueue(t) \/ Overflow(t)

Worker == Take \/ Acked \/ Refused \/ AnswerLost \/ SendTimesOut \/ SealFails

Close == PutStop \/ CloseJoined \/ CloseTimesOut

\* The bounds end a behaviour: no boots left and the store has applied everything.
Finished ==
    /\ phase = "down" /\ life = MaxLives /\ late = {}
    /\ UNCHANGED vars

Next ==
    \/ \E t \in Threads : Handler(t)
    \/ Worker
    \/ \E w \in late : LateWrite(w)
    \/ SigTerm \/ Close \/ Crash
    \/ \E keep \in BOOLEAN, newKey \in {key, key + 1} : Boot(keep, newKey)
    \/ Hydrate \/ HydrateFails
    \/ \E ok \in BOOLEAN : Probe(ok)
    \/ Finished

Spec == Init /\ [][Next]_vars

\* The worker and the closing main thread go on: every call either makes has a
\* timeout, except the put that waits for the worker.
FairSpec == Spec /\ WF_vars(Worker) /\ WF_vars(Close)

-----------------------------------------------------------------------------
(* Properties *)

TypeOK ==
    /\ phase \in {"down", "boot", "probe", "serving", "closing", "joining"}
    /\ local \in Seq(Rows)
    /\ remote \in Seq(Sealed)
    /\ late \subseteq [row : Rows, key : 1 .. MaxKey, try : 1 .. MirrorAttempts]
    /\ queue \in Seq(Rows \cup {Stop}) /\ Len(queue) <= QueueMax
    /\ worker \in [pc : {"idle", "send", "done"}, row : Rows \cup {NoRow}, try : 0 .. MirrorAttempts]
    /\ worker.pc = "send" => worker.row \in Rows /\ worker.try \in 1 .. MirrorAttempts
    /\ hand \in [Threads -> Rows \cup {NoRow}]
    /\ next \in 0 .. MaxRows
    /\ key \in 1 .. MaxKey /\ life \in Nat
    /\ bootReason \in BOOLEAN /\ hydrated \in BOOLEAN
    /\ mine \subseteq Rows /\ failed \subseteq Rows /\ dropped \subseteq Rows
    /\ acked \subseteq Sealed

Handed == {hand[t] : t \in {u \in Threads : hand[u] # NoRow}}

Queued == Elements(queue) \ {Stop}

InWorker == IF worker.pc = "send" THEN {worker.row} ELSE {}

Mirrored == {a.row : a \in acked}

\* No row the process appended leaves the pipeline uncounted: it is on its way
\* (handed over, queued, being sent) or it is counted mirrored, failed or
\* dropped; and what is counted mirrored is in the store ("silent total data
\* loss is precisely the failure this module exists to prevent", _cmd).
Accounted ==
    /\ mine \subseteq Handed \cup Queued \cup InWorker \cup Mirrored \cup failed \cup dropped
    /\ acked \subseteq Elements(remote)

\* The three counters never count one row twice: a row is in one place of the
\* pipeline or in one counter, so mirrored + failures + dropped is the number of
\* rows that have left it.
CountedOnce ==
    /\ Cardinality(mine) = Cardinality(Handed) + Cardinality(Queued) + Cardinality(InWorker)
                         + Cardinality(Mirrored \cap mine) + Cardinality(failed) + Cardinality(dropped)
    /\ Cardinality(Queued) = Cardinality({i \in DOMAIN queue : queue[i] # Stop})

Copies(r, s) == Cardinality({i \in DOMAIN s : s[i] = r})

\* At-least-once stays bounded over any number of restarts: a row is in the store
\* at most MIRROR_ATTEMPTS times, and in the file no more often, because hydrate
\* replaces the file and does not re-mirror what it read.
CopiesBounded ==
    /\ \A r \in Rows : Cardinality({i \in DOMAIN remote : remote[i].row = r}) <= MirrorAttempts
    /\ \A r \in Rows : Copies(r, local) <= MirrorAttempts

\* Where a row first shows in the store.
FirstCopy(r) ==
    CHOOSE i \in DOMAIN remote :
        remote[i].row = r /\ \A j \in 1 .. (i - 1) : remote[j].row # r

\* "ONE worker, not a thread per record: a thread per record reorders under load":
\* rows of one handler counted mirrored show up in the order it appended them,
\* whatever was retried or applied late in between.
MirrorInOrder ==
    \A r, q \in Mirrored \cap mine :
        r.by = q.by /\ r.n < q.n => FirstCopy(r) < FirstCopy(q)

\* However often a write is retried, applied late or hydrated again, the KV list keeps
\* each handler's rows in order and no more copies of a row than MIRROR_ATTEMPTS.
MirrorSound == MirrorInOrder /\ CopiesBounded

\* A row counted mirrored in any earlier life is in the file again after a
\* successful hydrate with its key (while the store is within max_hydrate), also
\* when rows of another key lie in between.
AckedSurvives ==
    Running /\ hydrated /\ Len(remote) <= MaxHydrate =>
        \A a \in acked : a.key = key => a.row \in Elements(local)

\* Every queued row is dealt with while the process serves: mirrored or counted
\* as a failure, during a KV outage too.
MirrorEnds ==
    \A r \in Rows : (r \in Elements(queue)) ~> (r \notin Elements(queue) /\ r \notin InWorker)

\* close() comes back ("a shutdown must not hang"), full queue and outage included.
CloseReturns == (phase = "closing") ~> (phase = "down")

\* Neither the worker nor the shutdown behind it waits for ever on a store that does not
\* answer.
LedgerGoesOn == MirrorEnds /\ CloseReturns
=============================================================================
