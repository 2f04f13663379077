------------------------------- MODULE RpcNode -------------------------------
(***************************************************************************)
(* rpc_node.py: the service's own JSON-RPC front door.  Handler threads    *)
(* look a call up in a TTL cache, coalesce identical calls into one        *)
(* upstream call (SingleFlight) and put what came back into the cache.     *)
(* The lookup, the joining of a call under way, the leader's removal of    *)
(* it and the put are separate critical sections.                          *)
(*                                                                         *)
(* Time passes in ticks; `left` counts an entry's time to live down and    *)
(* `age` how long ago the answer was read from the chain.  What a thread   *)
(* does by itself takes no tick, waiting for the upstream may, and a       *)
(* thread that has its answer may be held up before it stores it.          *)
(***************************************************************************)
EXTENDS Integers, Sequences, FiniteSets, FiniteSetsExt, Subsequences

CONSTANTS Threads,     \* handler threads
          Keys,        \* cache_key of (method, params)
          TTL,         \* DEFAULT_TTL, in ticks
          MaxEntries,  \* DEFAULT_MAX_ENTRIES
          Wait,        \* a follower's timeout, in ticks
          Lag          \* bound: how long a thread with its answer is held up

VARIABLES cache,     \* _data in insertion order: [key, left, kind, age]
          inflight,  \* the keys with a call under way
          th,        \* of each thread: [pc, key, rem, kind, age]
          served     \* the last answer: [kind, age, from]

vars == <<cache, inflight, th, served>>

Idle == [pc |-> "idle", key |-> "none", rem |-> 0, kind |-> "none", age |-> 0]

\* What comes back from the upstream: the chain's answer (a result, or a revert: an
\* error with data), or an error without data, something that is no object, an exception.
Kinds == {"chain", "error"}

-----------------------------------------------------------------------------
(* RpcCache.                                                               *)

At(k) == {i \in DOMAIN cache : cache[i].key = k}

\* get: an expired entry is not served (and is dropped).
Get(k) == {cache[i] : i \in {j \in At(k) : cache[j].left > 0}}

DropExpired(c) == Subsequence(c, {i \in DOMAIN c : c[i].left > 0})

\* Mutant of Put: a full cache drops only what expired.
PutOverTheCap(c, k, kind, age) ==
    LET room  == IF Len(c) < MaxEntries THEN c ELSE DropExpired(c)
        entry == [key |-> k, left |-> TTL, kind |-> kind, age |-> age]
        old   == {i \in DOMAIN room : room[i].key = k}
    IN  IF old = {} THEN Append(room, entry)
        ELSE [room EXCEPT ![CHOOSE i \in old : TRUE] = entry]

\* A full cache drops what expired, then the oldest insertions; a key that is
\* already there keeps its place.
Put(c, k, kind, age) ==
    LET room  == IF Len(c) < MaxEntries THEN c
                 ELSE LET d == DropExpired(c)
                      IN  IF Len(d) < MaxEntries THEN d ELSE SubSeq(d, Len(d) - MaxEntries + 2, Len(d))
        entry == [key |-> k, left |-> TTL, kind |-> kind, age |-> age]
        old   == {i \in DOMAIN room : room[i].key = k}
    IN  IF old = {} THEN Append(room, entry)
        ELSE [room EXCEPT ![CHOOSE i \in old : TRUE] = entry]

-----------------------------------------------------------------------------
Answer(kind, age, from) == served' = [kind |-> kind, age |-> age, from |-> from]

\* do_POST: a body that is too long, no JSON, a batch or a method that is not on
\* the list is answered at once, and nothing is forwarded.
RequestRefused(t) ==
    /\ th[t].pc = "idle"
    /\ Answer("refused", 0, "validate_request")
    /\ UNCHANGED <<cache, inflight, th>>

Request(t, k) ==
    /\ th[t].pc = "idle"
    /\ th' = [th EXCEPT ![t] = [Idle EXCEPT !.pc = "lookup", !.key = k]]
    /\ UNCHANGED <<cache, inflight, served>>

Lookup(t) ==
    /\ th[t].pc = "lookup"
    /\ LET k == th[t].key IN
       IF Get(k) # {}
       THEN /\ \E e \in Get(k) : Answer(e.kind, e.age, "cache")
            /\ th' = [th EXCEPT ![t] = Idle]
            /\ UNCHANGED cache
       ELSE /\ cache' = Subsequence(cache, DOMAIN cache \ At(k))
            /\ th' = [th EXCEPT ![t].pc = "join"]
            /\ UNCHANGED served
    /\ UNCHANGED inflight

\* Mutant of Join: every caller goes upstream itself.
JoinAlone(t) ==
    /\ th[t].pc = "join"
    /\ inflight' = inflight \cup {th[t].key}
    /\ th' = [th EXCEPT ![t].pc = "fetch"]
    /\ UNCHANGED <<cache, served>>

\* SingleFlight.do, under its lock: the first caller of a key leads, the others wait.
Join(t) ==
    /\ th[t].pc = "join"
    /\ inflight' = inflight \cup {th[t].key}
    /\ th' = IF th[t].key \in inflight
             THEN [th EXCEPT ![t].pc = "wait", ![t].rem = Wait]
             ELSE [th EXCEPT ![t].pc = "fetch"]
    /\ UNCHANGED <<cache, served>>

\* forward_upstream returns or raises.
Fetch(t, kind) ==
    /\ th[t].pc = "fetch"
    /\ th' = [th EXCEPT ![t].pc = "pop", ![t].kind = kind]
    /\ UNCHANGED <<cache, inflight, served>>

\* The leader's finally: the call is no longer under way and the event wakes every
\* follower with the leader's answer or error.
Pop(t) ==
    /\ th[t].pc = "pop"
    /\ inflight' = inflight \ {th[t].key}
    /\ th' = [u \in Threads |->
                IF u = t \/ (th[u].pc = "wait" /\ th[u].key = th[t].key)
                THEN [th[u] EXCEPT !.pc = "put", !.rem = 0, !.kind = th[t].kind]
                ELSE th[u]]
    /\ UNCHANGED <<cache, served>>

\* Mutant of WaitTimesOut: the follower waits without a timeout.
WaitForever(t) == FALSE /\ UNCHANGED vars

\* slot["event"].wait(timeout) gives up.
WaitTimesOut(t) ==
    /\ th[t].pc = "wait" /\ th[t].rem = 0
    /\ th' = [th EXCEPT ![t] = Idle]
    /\ Answer("unavailable", 0, "timeout")
    /\ UNCHANGED <<cache, inflight>>

\* The rest of do_POST, by the leader and by every follower: only an answer that is
\* the chain's is kept, and the caller gets what came back.
Store(t) ==
    /\ th[t].pc = "put"
    /\ cache' = IF th[t].kind = "chain"
                THEN Put(cache, th[t].key, th[t].kind, th[t].age) ELSE cache
    /\ Answer(th[t].kind, th[t].age, "upstream")
    /\ th' = [th EXCEPT ![t] = Idle]
    /\ UNCHANGED inflight

\* Time passes while threads wait or are idle.
Tick ==
    /\ \A t \in Threads :
         \/ th[t].pc \in {"idle", "fetch"}
         \/ th[t].pc = "wait" /\ th[t].rem > 0
         \/ th[t].pc = "put" /\ th[t].age < Lag
    /\ cache' = [i \in DOMAIN cache |-> [cache[i] EXCEPT !.left = Max({0, @ - 1}),
                                                         !.age = Min({TTL + Lag, @ + 1})]]
    /\ th' = [t \in Threads |-> CASE th[t].pc = "wait" -> [th[t] EXCEPT !.rem = @ - 1]
                                  [] th[t].pc = "put"  -> [th[t] EXCEPT !.age = @ + 1]
                                  [] OTHER             -> th[t]]
    /\ UNCHANGED <<inflight, served>>

Init ==
    /\ cache = <<>>
    /\ inflight = {}
    /\ th = [t \in Threads |-> Idle]
    /\ served = [kind |-> "none", age |-> 0, from |-> "none"]

\* What a thread does by itself.
Local(t) == Lookup(t) \/ Join(t) \/ Pop(t) \/ WaitTimesOut(t) \/ Store(t)

Next ==
    \/ \E t \in Threads : RequestRefused(t) \/ Local(t)
    \/ \E t \in Threads, k \in Keys : Request(t, k)
    \/ \E t \in Threads, kind \in Kinds : Fetch(t, kind)
    \/ Tick

\* The threads run and the clock goes on, whatever they do; nothing makes the upstream answer.
Fairness == SF_vars(Tick) /\ \A t \in Threads : WF_vars(Local(t))

Spec == Init /\ [][Next]_vars /\ Fairness

-----------------------------------------------------------------------------
TypeOK ==
    /\ Len(cache) <= MaxEntries
    /\ \A i \in DOMAIN cache : /\ cache[i].key \in Keys /\ cache[i].left \in 0..TTL
                               /\ At(cache[i].key) = {i}
    /\ inflight \subseteq Keys
    /\ \A t \in Threads : th[t].rem \in 0..Wait

\* Identical calls are coalesced: no two threads have the same call at the upstream
\* at once, and a call that is under way has exactly one thread working on it.
OneCallAtATime ==
    \A k \in Keys :
      LET leaders == {t \in Threads : th[t].key = k /\ th[t].pc \in {"fetch", "pop"}}
      IN  /\ Cardinality(leaders) <= 1
          /\ (k \in inflight) = (leaders # {})

\* An answer served from the cache is a chain answer, and no older than the TTL and
\* the time a follower may hold an answer before it stores it once more.
ServedFresh ==
    served.from = "cache" => served.age < TTL + Lag /\ served.kind = "chain"

\* A caller that waits for another's call does not wait for ever, although the
\* upstream may never answer.
FollowersEnd == \A t \in Threads : th[t].pc = "wait" ~> th[t].pc # "wait"
=============================================================================
