---------------------------- MODULE Reachability ----------------------------
(***************************************************************************)
(* The reachability ledger (reachability_ledger.py): processes append what *)
(* became of a probe to one file and, when it has grown, rewrite it with   *)
(* each host's latest events.  An advisory file lock serialises them; a    *)
(* writer that cannot take it goes on without.                             *)
(***************************************************************************)
EXTENDS Integers, Sequences, FiniteSets, SequencesExt, Subsequences

CONSTANTS
    Writers,
    Hosts,
    MaxEvents,       \* bound on the events recorded
    CompactAbove,    \* COMPACT_ABOVE_BYTES, in events
    KeepPerHost,     \* KEEP_PER_HOST
    RunForConcern,   \* RUN_FOR_CONCERN
    DaysForConcern,  \* DAYS_FOR_CONCERN, in clock ticks
    LockMayFail      \* whether opening or locking the lock file can fail

VARIABLES
    file,    \* the events in the file
    log,     \* every event appended so far
    clock,   \* its next timestamp
    lock,    \* the writer holding the lock file, if any
    pc,      \* writer -> where it is
    event,   \* writer -> the event it is recording
    copy,    \* writer -> what compact() loaded
    unlocked \* whether a writer ever went on without the lock

vars == <<file, log, clock, lock, pc, event, copy, unlocked>>

Outcomes == {"answered", "unreachable", "skipped"}
NoEvent == [host |-> "none", outcome |-> "skipped", ts |-> 0]

-----------------------------------------------------------------------------
(* Reading the file: load() sorts by timestamp, and no two events have the  *)
(* same, so a set of events is a list of them.                              *)

Of(events, host) == {e \in events : e.host = host}

\* load(): every event, in timestamp order.
InOrder(events) ==
    LET times == {e.ts : e \in events}
    IN  [k \in 1..Cardinality(times) |-> CHOOSE e \in events : e.ts = Nth(times, k)]

\* host_events[-keep:]
Latest(events, host) ==
    {e \in Of(events, host) :
       Cardinality({d \in Of(events, host) : d.ts > e.ts}) < KeepPerHost}

\* compact(): the latest KeepPerHost events of each host.
Kept(events) == UNION {Latest(events, h) : h \in Hosts}

\* summarize(): the run of silence that ends the attempts, and what it amounts to.
Tried(events) == {e \in events : e.outcome # "skipped"}
Silent(events) ==
    {e \in Tried(events) : \A a \in Tried(events) : a.outcome = "answered" => a.ts < e.ts}

Summarize(events, now) ==
    LET run == Silent(events)
    IN  CASE Tried(events) = {} -> "unobserved"
          [] Tried(events) # {} /\ run = {} -> "answering"
          [] Tried(events) # {} /\ run = Tried(events) -> "never_answered"
          [] OTHER -> IF /\ Cardinality(run) >= RunForConcern
                         /\ \E e \in run : now - e.ts >= DaysForConcern
                        THEN "silent_run" ELSE "flapping"

-----------------------------------------------------------------------------
(* The writers.                                                            *)

\* record(): the timestamp is taken before the lock.
Record(w, h, o) ==
    /\ pc[w] = "idle" /\ clock <= MaxEvents
    /\ event' = [event EXCEPT ![w] = [host |-> h, outcome |-> o, ts |-> clock]]
    /\ clock' = clock + 1
    /\ pc' = [pc EXCEPT ![w] = "append"]
    /\ UNCHANGED <<file, log, lock, copy, unlocked>>

\* A step inside the lock is taken by its holder; one that has no lock takes it anyway.
Holds(w) == lock = w \/ pc[w] \in {"append_bare", "check_bare", "replace_bare"}

TakeLock(w) ==
    /\ pc[w] \in {"append", "check"} /\ lock = "free"
    /\ lock' = w
    /\ UNCHANGED <<file, log, clock, pc, event, copy, unlocked>>

\* _FileLock.__enter__: the lock file cannot be opened or locked.
LockUnavailable(w) ==
    /\ LockMayFail /\ lock # w
    /\ pc[w] \in {"append", "check"}
    /\ pc' = [pc EXCEPT ![w] = IF @ = "append" THEN "append_bare" ELSE "check_bare"]
    /\ unlocked' = TRUE
    /\ UNCHANGED <<file, log, clock, lock, event, copy>>

Unlock(w) == lock' = IF lock = w THEN "free" ELSE lock

\* The write, the size check and the release; an oversized file is compacted next.
AppendEvent(w) ==
    /\ pc[w] \in {"append", "append_bare"} /\ Holds(w)
    /\ file' = Append(file, event[w]) /\ log' = Append(log, event[w])
    /\ Unlock(w)
    /\ pc' = [pc EXCEPT ![w] = IF Len(file) + 1 > CompactAbove THEN "check" ELSE "idle"]
    /\ event' = [event EXCEPT ![w] = NoEvent]
    /\ UNCHANGED <<clock, copy, unlocked>>

\* Mutant of CheckSize: compact reads and rewrites without the lock.
CheckSizeNoLock(w) ==
    /\ pc[w] \in {"check", "check_bare"}
    /\ Len(file) > CompactAbove
    /\ copy' = [copy EXCEPT ![w] = file]
    /\ pc' = [pc EXCEPT ![w] = "replace_bare"]
    /\ UNCHANGED <<file, log, clock, lock, event, unlocked>>

\* compact(): the size is looked at again under the lock, for another process may have
\* compacted since; then the whole file is read ...
CheckSize(w) ==
    /\ pc[w] \in {"check", "check_bare"} /\ Holds(w)
    /\ \/ /\ Len(file) > CompactAbove
          /\ copy' = [copy EXCEPT ![w] = file]
          /\ pc' = [pc EXCEPT ![w] = IF @ = "check" THEN "replace" ELSE "replace_bare"]
          /\ UNCHANGED lock
       \/ /\ Len(file) <= CompactAbove
          /\ pc' = [pc EXCEPT ![w] = "idle"] /\ Unlock(w)
          /\ UNCHANGED copy
    /\ UNCHANGED <<file, log, clock, event, unlocked>>

\* ... and replaced by the events kept.
Replace(w) ==
    /\ pc[w] = "replace_bare" \/ (pc[w] = "replace" /\ lock = w)
    /\ file' = InOrder(Kept(Range(copy[w])))
    /\ copy' = [copy EXCEPT ![w] = <<>>]
    /\ pc' = [pc EXCEPT ![w] = "idle"] /\ Unlock(w)
    /\ UNCHANGED <<log, clock, event, unlocked>>

\* The temporary file cannot be written: the original stays.
ReplaceFails(w) ==
    /\ pc[w] = "replace_bare" \/ (pc[w] = "replace" /\ lock = w)
    /\ copy' = [copy EXCEPT ![w] = <<>>]
    /\ pc' = [pc EXCEPT ![w] = "idle"] /\ Unlock(w)
    /\ UNCHANGED <<file, log, clock, event, unlocked>>

\* A process dies; the kernel drops its lock.
Dies(w) ==
    /\ pc[w] # "idle"
    /\ pc' = [pc EXCEPT ![w] = "idle"] /\ Unlock(w)
    /\ event' = [event EXCEPT ![w] = NoEvent] /\ copy' = [copy EXCEPT ![w] = <<>>]
    /\ UNCHANGED <<file, log, clock, unlocked>>

Init ==
    /\ file = <<>> /\ log = <<>> /\ clock = 1 /\ lock = "free" /\ unlocked = FALSE
    /\ pc = [w \in Writers |-> "idle"]
    /\ event = [w \in Writers |-> NoEvent]
    /\ copy = [w \in Writers |-> <<>>]

Next ==
    \E w \in Writers :
      \/ \E h \in Hosts, o \in Outcomes : Record(w, h, o)
      \/ TakeLock(w) \/ LockUnavailable(w)
      \/ AppendEvent(w) \/ CheckSize(w) \/ Replace(w) \/ ReplaceFails(w)
      \/ Dies(w)

Spec == Init /\ [][Next]_vars

-----------------------------------------------------------------------------
(* Properties.                                                             *)

TypeOK ==
    /\ Range(file) \subseteq Range(log) /\ IsInjective(file)
    /\ clock \in 1..MaxEvents + 1
    /\ lock \in Writers \cup {"free"}
    /\ pc \in [Writers -> {"idle", "append", "append_bare", "check", "check_bare", "replace",
                           "replace_bare"}]

\* While every writer had the lock, no interleaving of appends and compactions costs a
\* host one of its latest KeepPerHost events, not even when timestamps are written out
\* of order or a compaction is abandoned.
LatestSurvive ==
    ~ unlocked => \A h \in Hosts : Latest(Range(log), h) \subseteq Range(file)

\* A writer without the lock can lose events only to a rewrite that read the file before
\* them: what it loses was appended while some compaction was under way.
LossNeedsARewrite ==
    \A e \in Range(file) : e \notin Range(file') =>
      \E w \in Writers : /\ copy[w] # <<>> /\ copy'[w] = <<>>
                         /\ e \notin Kept(Range(copy[w]))

\* A host is never reported as gone quiet because of what compaction dropped: the run of
\* silence it is reported for ends the full record of attempts too.  That takes a host
\* whose probes were written in the order they were made, or none of whose latest
\* KeepPerHost probes was skipped: an old probe written late, after a compaction has
\* dropped an answer to a later one, is counted as if that answer had never come.
WrittenInOrder(h) ==
    \A i, j \in DOMAIN log : i < j /\ log[i].host = h /\ log[j].host = h => log[i].ts < log[j].ts

SilenceIsReal ==
    ~ unlocked => \A h \in Hosts :
      /\ WrittenInOrder(h) \/ \A e \in Latest(Range(log), h) : e.outcome # "skipped"
      /\ Summarize(Of(Range(file), h), clock) = "silent_run"
      => Cardinality(Silent(Of(Range(log), h))) >= RunForConcern
=============================================================================
