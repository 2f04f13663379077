----------------------------- MODULE Approvals -----------------------------
(***************************************************************************)
(* approvals.py and the four approval handlers of blackwall._Handler.      *)
(*                                                                         *)
(* The pure functions open_approval, decide and redeem map a record to a   *)
(* new record; the handlers run them as get -> compute -> put against one  *)
(* MemoryApprovalStore shared by every request thread, with no lock.  Each *)
(* access to the store is a step of its own here, and so is each reading   *)
(* of the clock.                                                           *)
(***************************************************************************)
EXTENDS Integers, FiniteSets

CONSTANTS Ids,          \* approval ids; uuid4 never repeats, so each is issued once
          Claims,       \* the claims callers send
          Digests,      \* what claim_digest returns
          ClaimDigest,  \* claim_digest: sha256 of the normalised BOUND_FIELDS
          Actors,       \* who a decision says made it
          Threads,      \* handler threads of the HTTP server
          Ttls,         \* "ttl" of a request; 0 stands for absent or not a number
          DefaultTtl,   \* approvals.DEFAULT_TTL
          Limit,        \* MemoryApprovalStore._limit
          MaxTime       \* bound: the clock stops here

ASSUME ApprovalAssumption ==
          /\ ClaimDigest \in [Claims -> Digests]
          /\ Ttls \subseteq Int
          /\ DefaultTtl \in Nat \ {0}
          /\ Limit \in Nat \ {0}
          /\ MaxTime \in Nat
          /\ "no id" \notin Ids
          /\ "nobody" \notin Actors

VARIABLES rows,     \* MemoryApprovalStore._rows; state "absent" where there is no row
          now,      \* int(time.time())
          job,      \* job[t]: where thread t is in its handler, and its local copy
          opened,   \* history: id, record and verdict of every approval stored
          answers,  \* history: [id, by] of every approval a decide call recorded
          paid,     \* history: [id, digest, at] of every redeem answered ok
          spends,   \* history: spends[i] redemptions of i answered ok, up to 2
          overlaps  \* history: ids of requests that began while another was served

vars == <<rows, now, job, opened, answers, paid, spends, overlaps>>

-----------------------------------------------------------------------------
(* Records *)

States == {"absent", "pending", "approved", "declined", "consumed", "expired"}

Record == [state : States, digest : Digests \cup {"none"}, created : Nat, expires : Nat,
           by : Actors \cup {"nobody"}]

NoRecord == [state |-> "absent", digest |-> "none",
             created |-> 0, expires |-> 0, by |-> "nobody"]

\* Mutant of Window: a ttl that is not positive is taken as it stands.
WindowUnclamped(ttl) == IF ttl = 0 THEN DefaultTtl ELSE ttl

\* The window a request gets: a missing ttl is the default, a small one is 1.
Window(ttl) == IF ttl = 0 THEN DefaultTtl ELSE IF ttl < 1 THEN 1 ELSE ttl

\* open_approval's answer is None for everything but a HOLD with no hard stop.
Approvable(ask) == ask.verdict = "HOLD" /\ ~ask.hardStop

NewRecord(digest, ttl) ==
    [state |-> "pending", digest |-> digest, created |-> now,
     expires |-> now + Window(ttl), by |-> "nobody"]

\* Mutant of IsExpired: dead only after its expiry second.
IsExpiredLate(r) == now > r.expires

\* Dead ON its expiry second.
IsExpired(r) == now >= r.expires

Decided(r, approve, actor) ==
    IF r.state # "pending" THEN r
    ELSE IF IsExpired(r) THEN [r EXCEPT !.state = "expired"]
    ELSE [r EXCEPT !.state = IF approve THEN "approved" ELSE "declined",
                   !.by = actor]

RedeemOk(r, claim) == /\ r.state = "approved"
                      /\ ~IsExpired(r)
                      /\ ClaimDigest[claim] = r.digest

\* Mutant of Redeemed: a redemption leaves the approval as it found it.
RedeemedUnspent(r, claim) ==
    IF r.state = "approved" /\ IsExpired(r) THEN [r EXCEPT !.state = "expired"] ELSE r

Redeemed(r, claim) ==
    IF r.state = "approved" /\ IsExpired(r) THEN [r EXCEPT !.state = "expired"]
    ELSE IF RedeemOk(r, claim) THEN [r EXCEPT !.state = "consumed"]
    ELSE r

-----------------------------------------------------------------------------
(* Handlers.  A job is the thread's program counter, the id and the copy   *)
(* of the record it holds, and what the request still has to do with it.   *)

Ops == {"none", "open", "decide", "redeem", "poll"}

Pcs == {"idle", "compute", "put", "evict", "write"}

\* What an opener sends: the verdict, and whether the receipt it names, if
\* it names one, comes with the matching report_token.
Asks == [verdict : {"GO", "HOLD", "STOP"}, hardStop : BOOLEAN,
         receiptOk : BOOLEAN]

NoAsk == [verdict |-> "GO", hardStop |-> FALSE, receiptOk |-> FALSE]

NoId == "no id"

Idle == [pc |-> "idle", op |-> "none", id |-> NoId, rec |-> NoRecord,
         approve |-> FALSE, ok |-> FALSE, at |-> 0, claimed |-> "none", victim |-> NoId,
         ask |-> NoAsk]

\* uuid4: an id no stored row and no request under way has drawn.
Fresh(i) == /\ \A o \in opened : o.id # i
            /\ \A u \in Threads : job[u].op = "open" => job[u].id # i

Overlapping(i) ==
    IF \E u \in Threads : job[u].pc # "idle" THEN overlaps \cup {i} ELSE overlaps

\* _do_open_approval up to the put.  A verdict that names a receipt needs its
\* report_token (403 otherwise); one that is not approvable gets a 200 that says so.
OpenApproval(t, i, ask, claim, ttl) ==
    /\ job[t].pc = "idle"
    /\ Fresh(i)
    /\ ask.receiptOk
    /\ Approvable(ask)
    /\ job' = [job EXCEPT ![t] =
                  [Idle EXCEPT !.pc = "put", !.op = "open", !.id = i, !.ask = ask,
                               !.rec = NewRecord(ClaimDigest[claim], ttl)]]
    /\ overlaps' = Overlapping(i)
    /\ UNCHANGED <<rows, now, opened, answers, paid, spends>>

\* The token is checked (403) before the store is read, and an id the store
\* does not hold is a 404: both leave everything as it was.
Get(t, i, op) ==
    /\ job[t].pc = "idle"
    /\ op \in {"decide", "redeem", "poll"}
    /\ rows[i].state # "absent"
    /\ job' = [job EXCEPT ![t] = [Idle EXCEPT !.pc = "compute", !.op = op,
                                             !.id = i, !.rec = rows[i]]]
    /\ overlaps' = Overlapping(i)
    /\ UNCHANGED <<rows, now, opened, answers, paid, spends>>

\* approvals.decide on the copy.
DecideApproval(t, approve, actor) ==
    /\ job[t].pc = "compute" /\ job[t].op = "decide"
    /\ LET r == job[t].rec
           d == Decided(r, approve, actor)
       IN job' = [job EXCEPT ![t].pc = "put", ![t].rec = d,
                             ![t].approve = (r.state = "pending" /\ d.state = "approved")]
    /\ UNCHANGED <<rows, now, opened, answers, paid, spends, overlaps>>

\* approvals.redeem on the copy.  A refused redemption is put back as well.
RedeemApproval(t, claim) ==
    /\ job[t].pc = "compute" /\ job[t].op = "redeem"
    /\ LET r == job[t].rec
       IN job' = [job EXCEPT ![t].pc = "put", ![t].rec = Redeemed(r, claim),
                             ![t].ok = RedeemOk(r, claim), ![t].at = now,
                             ![t].claimed = ClaimDigest[claim]]
    /\ UNCHANGED <<rows, now, opened, answers, paid, spends, overlaps>>

\* _do_poll_approval, and sweep for one row: only a pending row past its
\* deadline is written.
PollApproval(t) ==
    /\ job[t].pc = "compute" /\ job[t].op = "poll"
    /\ LET r == job[t].rec
       IN job' = [job EXCEPT ![t] =
                     IF r.state = "pending" /\ IsExpired(r)
                     THEN [@ EXCEPT !.pc = "put", !.rec.state = "expired"]
                     ELSE Idle]
    /\ UNCHANGED <<rows, now, opened, answers, paid, spends, overlaps>>

Live == {i \in Ids : rows[i].state # "absent"}

\* Mutant of Spent: any row may go, which is what put did before its audit.
SpentAny == Live

\* The rows put may evict: everything that is not pending.
Spent == {i \in Live : rows[i].state # "pending"}

NeedsRoom(i) == i \notin Live /\ Cardinality(Live) >= Limit

\* put, first half: is there room, and if not, which row goes?
PutRoom(t) ==
    /\ job[t].pc = "put"
    /\ ~NeedsRoom(job[t].id)
    /\ job' = [job EXCEPT ![t].pc = "write"]
    /\ UNCHANGED <<rows, now, opened, answers, paid, spends, overlaps>>

PutVictim(t, v) ==
    /\ job[t].pc = "put"
    /\ NeedsRoom(job[t].id)
    /\ v \in Spent
    /\ \A w \in Spent : rows[v].created <= rows[w].created
    /\ job' = [job EXCEPT ![t].pc = "evict", ![t].victim = v]
    /\ UNCHANGED <<rows, now, opened, answers, paid, spends, overlaps>>

\* ApprovalStoreFull: 503 to an opener, 500 to anyone else; nothing is stored.
PutFull(t) ==
    /\ job[t].pc = "put"
    /\ NeedsRoom(job[t].id)
    /\ Spent = {}
    /\ job' = [job EXCEPT ![t] = Idle]
    /\ UNCHANGED <<rows, now, opened, answers, paid, spends, overlaps>>

Evict(t) ==
    /\ job[t].pc = "evict"
    /\ rows' = [rows EXCEPT ![job[t].victim] = NoRecord]
    /\ job' = [job EXCEPT ![t].pc = "write"]
    /\ UNCHANGED <<now, opened, answers, paid, spends, overlaps>>

\* The row is stored and the caller is answered.
Write(t) ==
    /\ job[t].pc = "write"
    /\ LET j == job[t]
       IN /\ rows' = [rows EXCEPT ![j.id] = j.rec]
          /\ opened' = IF j.op = "open"
                       THEN opened \cup {[id |-> j.id, digest |-> j.rec.digest,
                                          expires |-> j.rec.expires, ask |-> j.ask]}
                       ELSE opened
          /\ answers' = IF j.approve THEN answers \cup {[id |-> j.id, by |-> j.rec.by]}
                        ELSE answers
          /\ paid' = IF j.ok THEN paid \cup {[id |-> j.id, digest |-> j.claimed,
                                              at |-> j.at, by |-> j.rec.by]}
                     ELSE paid
          /\ spends' = IF j.ok THEN [spends EXCEPT ![j.id] = IF @ = 2 THEN 2 ELSE @ + 1]
                       ELSE spends
    /\ job' = [job EXCEPT ![t] = Idle]
    /\ UNCHANGED <<now, overlaps>>

\* The store is process memory, and the threads die with the process.
Restart ==
    /\ rows' = [i \in Ids |-> NoRecord]
    /\ job' = [t \in Threads |-> Idle]
    /\ UNCHANGED <<now, opened, answers, paid, spends, overlaps>>

Tick ==
    /\ now < MaxTime
    /\ now' = now + 1
    /\ UNCHANGED <<rows, job, opened, answers, paid, spends, overlaps>>

Init ==
    /\ rows = [i \in Ids |-> NoRecord]
    /\ now = 0
    /\ job = [t \in Threads |-> Idle]
    /\ opened = {}
    /\ answers = {}
    /\ paid = {}
    /\ spends = [i \in Ids |-> 0]
    /\ overlaps = {}

Next ==
    \/ \E t \in Threads :
          \/ \E i \in Ids, ask \in Asks, c \in Claims, ttl \in Ttls :
                OpenApproval(t, i, ask, c, ttl)
          \/ \E i \in Ids, op \in Ops : Get(t, i, op)
          \/ \E approve \in BOOLEAN, a \in Actors : DecideApproval(t, approve, a)
          \/ \E c \in Claims : RedeemApproval(t, c)
          \/ PollApproval(t)
          \/ PutRoom(t)
          \/ \E v \in Ids : PutVictim(t, v)
          \/ PutFull(t)
          \/ Evict(t)
          \/ Write(t)
    \/ Restart
    \/ Tick

Spec == Init /\ [][Next]_vars

-----------------------------------------------------------------------------
(* Properties *)

Job == [pc : Pcs, op : Ops, id : Ids \cup {NoId}, rec : Record, approve : BOOLEAN,
        ok : BOOLEAN, at : Nat, claimed : Digests \cup {"none"}, victim : Ids \cup {NoId},
        ask : Asks]

Opening == [id : Ids, digest : Digests \cup {"none"}, expires : Nat, ask : Asks]

Payment == [id : Ids, digest : Digests \cup {"none"}, at : Nat, by : Actors \cup {"nobody"}]

\* Every variable holds a value of its kind, at every interleaving of the
\* handlers' accesses to the store.
TypeOK ==
    /\ rows \in [Ids -> Record]
    /\ now \in Nat
    /\ job \in [Threads -> Job]
    /\ opened \subseteq Opening
    /\ answers \subseteq [id : Ids, by : Actors \cup {"nobody"}]
    /\ paid \subseteq Payment
    /\ spends \in [Ids -> 0..2]
    /\ overlaps \subseteq Ids

\* Properties 1, 2 and 4 of approvals.py, together: a redemption that was
\* answered ok was for the very payment a HOLD of this service (never a STOP,
\* never an unproved verdict) was opened for, came after somebody answered
\* yes and names that person, and was judged before the window closed.  It
\* must hold however the unlocked get / put pairs of several threads interleave.
RedemptionSound ==
    \A p \in paid :
       /\ \E o \in opened : /\ o.id = p.id
                            /\ o.digest = p.digest
                            /\ p.at < o.expires
                            /\ o.ask.verdict = "HOLD" /\ ~o.ask.hardStop
                            /\ o.ask.receiptOk
       /\ [id |-> p.id, by |-> p.by] \in answers

\* Property 3 of approvals.py: "One approval authorizes one payment".
SingleUse == \A i \in Ids : spends[i] <= 1

\* What is left of it without a lock: only an approval that a request was made
\* about while another request was being served is ever redeemed twice, however
\* its row is evicted, put back or lost to a restart.
SingleUseInTurn == \A i \in Ids \ overlaps : spends[i] <= 1

\* MemoryApprovalStore is bounded by its limit, whoever puts into it, until two
\* puts overlap.
StoreBounded == overlaps = {} => Cardinality(Live) <= Limit

\* The store of requests served in turn: no approval is redeemed twice and no put takes
\* it above its limit (MemoryApprovalStore, _do_redeem_approval).
StoreSound == SingleUseInTurn /\ StoreBounded

\* The abstract life of an approval, read off the store.
Lifecycle == INSTANCE ApprovalLifecycle
                WITH state <- [i \in Ids |-> rows[i].state],
                     asked <- {o.id : o \in opened}

\* As long as requests are served in turn the store implements the atomic life
\* of an approval: one answer, at most one spend, terminal states final, no
\* pending row evicted.  Only a restart of the process may empty the store.
ImplementsLifecycle ==
    /\ Lifecycle!Init
    /\ [][overlaps' = {} => \/ \E i \in Ids : Lifecycle!Live(i)
                            \/ UNCHANGED Lifecycle!vars
                            \/ Restart /\ Lifecycle!Restart]_vars
=============================================================================
