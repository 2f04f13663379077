------------------------------ MODULE RateLimit ------------------------------
(***************************************************************************)
(* ratelimit.py behind _Handler.do_POST: handler threads read the clock,   *)
(* take the lock and spend a token of their client's bucket; a full table  *)
(* evicts the bucket used least recently.  The clock is read before the    *)
(* lock, so buckets see times out of order.                                *)
(*                                                                         *)
(* Tokens are counted in refills: a bucket gains one per tick, a request   *)
(* costs Cost of them.                                                     *)
(***************************************************************************)
EXTENDS Integers, Sequences, FiniteSets, SequencesExt, FiniteSetsExt

CONSTANTS Threads, Clients,
          Burst,    \* requests a full bucket holds
          Cost,     \* ticks in which one request's token is refilled
          MaxKeys,  \* buckets kept
          Skew,     \* bound: ticks between a thread's clock read and its lock
          MaxTime,  \* bound: the clock
          MaxRequests  \* bound: requests posted

VARIABLES clock,
          buckets,   \* _buckets, least recently used first: [key, tokens, last]
          th,        \* of each thread: [pc, client, now]
          admitted,  \* requests of each client let through
          spent,     \* those since its present bucket was made
          made,      \* buckets made for each client
          first,     \* the time its first bucket was made
          stats      \* _Stats: [requests, rate_limited]

vars == <<clock, buckets, th, admitted, spent, made, first, stats>>

Capacity == Burst * Cost
Idle == [pc |-> "idle", client |-> "none", now |-> 0]

\* do_POST counts the request and reads the clock; client_ip_from names the client.
Post(t, c) ==
    /\ th[t].pc = "idle" /\ stats.requests < MaxRequests
    /\ th' = [th EXCEPT ![t] = [pc |-> "limit", client |-> c, now |-> clock]]
    /\ stats' = [stats EXCEPT !.requests = @ + 1]
    /\ UNCHANGED <<clock, buckets, admitted, spent, made, first>>

Held(c) == {i \in DOMAIN buckets : buckets[i].key = c}

\* Mutant of Made: the table grows with every client.
MadeWithoutEviction(c, now) ==
    Append(buckets, [key |-> c, tokens |-> Capacity, last |-> now])

\* A client without a bucket gets a full one; a full table makes room for it.
Made(c, now) ==
    LET kept == IF Len(buckets) >= MaxKeys THEN Tail(buckets) ELSE buckets
    IN  Append(kept, [key |-> c, tokens |-> Capacity, last |-> now])

Refilled(e, now) == Min({Capacity, e.tokens + (now - e.last)})

\* The bucket is written back with the caller's time and becomes the last to evict.
Spend(rest, e, now, tokens) == Append(rest, [e EXCEPT !.tokens = tokens, !.last = now])

\* RateLimiter.allow, under the lock.  A refusal is answered 429 and counted.
Allow(t) ==
    /\ th[t].pc = "limit"
    /\ LET c      == th[t].client
           new    == Held(c) = {}
           all    == IF new THEN Made(c, th[t].now) ELSE buckets
           i      == CHOOSE j \in DOMAIN all : all[j].key = c
           tokens == Refilled(all[i], th[t].now)
           ok     == tokens >= Cost
       IN /\ buckets' = Spend(RemoveAt(all, i), all[i], th[t].now, IF ok THEN tokens - Cost ELSE tokens)
          /\ made' = IF new THEN [made EXCEPT ![c] = @ + 1] ELSE made
          /\ first' = IF made[c] = 0 THEN [first EXCEPT ![c] = th[t].now] ELSE first
          /\ admitted' = [admitted EXCEPT ![c] = @ + (IF ok THEN 1 ELSE 0)]
          /\ spent' = [spent EXCEPT ![c] = (IF new THEN 0 ELSE @) + (IF ok THEN 1 ELSE 0)]
          /\ stats' = IF ok THEN stats ELSE [stats EXCEPT !.rate_limited = @ + 1]
          /\ th' = [th EXCEPT ![t] = IF ok THEN [@ EXCEPT !.pc = "serve"] ELSE Idle]
    /\ UNCHANGED clock

\* The route's handler runs and answers.
Serve(t) ==
    /\ th[t].pc = "serve"
    /\ th' = [th EXCEPT ![t] = Idle]
    /\ UNCHANGED <<clock, buckets, admitted, spent, made, first, stats>>

Tick ==
    /\ clock < MaxTime
    /\ \A t \in Threads : th[t].pc = "limit" => clock - th[t].now < Skew
    /\ clock' = clock + 1
    /\ UNCHANGED <<buckets, th, admitted, spent, made, first, stats>>

Init ==
    /\ clock = 0 /\ buckets = <<>>
    /\ th = [t \in Threads |-> Idle]
    /\ admitted = [c \in Clients |-> 0] /\ spent = [c \in Clients |-> 0]
    /\ made = [c \in Clients |-> 0] /\ first = [c \in Clients |-> 0]
    /\ stats = [requests |-> 0, rate_limited |-> 0]

Next ==
    \/ \E t \in Threads, c \in Clients : Post(t, c)
    \/ \E t \in Threads : Allow(t) \/ Serve(t)
    \/ Tick

Spec == Init /\ [][Next]_vars

-----------------------------------------------------------------------------
TypeOK ==
    /\ clock \in 0..MaxTime
    /\ Len(buckets) <= MaxKeys
    /\ \A i \in DOMAIN buckets : /\ buckets[i].key \in Clients
                                 /\ buckets[i].tokens \in (-Skew)..Capacity
                                 /\ Held(buckets[i].key) = {i}
    /\ \A t \in Threads : th[t].pc \in {"idle", "limit", "serve"}

\* However the threads' clock reads overtake each other, a client gets no more than
\* a burst for every bucket it was given and its refill since the first; only an
\* eviction gives it another burst (and dates the new bucket back by the skew).
AdmittedBounded ==
    \A c \in Clients :
      made[c] > 0 => admitted[c] * Cost <= made[c] * Capacity + (made[c] - 1) * Skew + (clock - first[c])

\* A client is refused only when its bucket's burst is spent, up to what the time
\* between a clock read and the lock can take away.
DenialJustified ==
    \A t \in Threads :
      th[t].pc = "limit" /\ th'[t].pc = "idle"
        => (spent'[th[t].client] + 1) * Cost > Capacity - Skew
=============================================================================
