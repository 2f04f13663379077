------------------------------ MODULE Billing ------------------------------
(***************************************************************************)
(* x402.BillingGate in front of blackwall._do_forecast and _do_session:    *)
(* price, session credit, payment (verify, reserve the nonce, settle), and *)
(* what the caller gets for it.  Handler threads interleave at every call  *)
(* that leaves the process and at every lock.                              *)
(*                                                                         *)
(* External: the facilitator and the chain behind it.  verify reads the    *)
(* chain; settle captures a payment at most once per EIP-3009 nonce when   *)
(* the world is replayProof (the built-in mock captures whatever it is     *)
(* sent); in a lossy one its answer may be lost or come after the gate     *)
(* gave up waiting.                                                        *)
(***************************************************************************)
EXTENDS Integers, FiniteSets

CONSTANTS Nonces,         \* payments, named by their authorization nonce
          Value,          \* Value[n]: the atomic amount n authorizes
          Prices,         \* what fee_atomic may ask for a forecast; 0 is free
          SessionPrice,   \* cfg.session_price_atomic
          SessionCredits, \* cfg.session_credits
          SessionTtl,     \* cfg.session_ttl
          Sids,           \* session ids (os.urandom: never drawn twice)
          Threads,        \* handler threads
          Worlds,         \* deployments: [replayProof, lossy, restarts]
          MaxTime         \* bound on the clock

ASSUME BillingAssumption ==
          /\ Value \in [Nonces -> Nat \ {0}]
          /\ Prices \subseteq Nat
          /\ SessionPrice \in Nat \ {0}
          /\ SessionCredits \in Nat
          /\ SessionTtl \in Nat
          /\ Worlds \subseteq [replayProof : BOOLEAN, lossy : BOOLEAN, restarts : BOOLEAN]
          /\ MaxTime \in Nat
          /\ IsFiniteSet(Threads)

VARIABLES seen,      \* NonceLedger._seen
          sessions,  \* SessionStore._sessions; "fresh" not drawn yet, "gone" dropped
          now,       \* time.time()
          job,       \* job[t]: the request thread t is serving
          captured,  \* captured[n]: how often the chain moved the money of n
          late,      \* settle requests whose caller stopped waiting
          given,     \* history: given[n], verdicts and sessions handed out for n
          used,      \* history: used[s], verdicts handed out on session s
          unanswered,\* history: credits and payments taken with no verdict in return
          world      \* the deployment this is: its chain, its network, its host

billingVars == <<seen, sessions, now, job, captured, late, given, used, unanswered, world>>

Pcs == {"idle", "session", "verify", "reserve", "settle", "release", "forecast", "open"}

Vias == {"none", "free", "session", "payment"}

\* valid: forecast accepts the request body (validate_request and the engine).
Idle == [pc |-> "idle", buys |-> "verdict", via |-> "none", nonce |-> "none",
         sid |-> "none", valid |-> FALSE]

Session(state, credits, expires) == [state |-> state, credits |-> credits, expires |-> expires]

Go(t, q) == job' = [job EXCEPT ![t].pc = q]

Answer(t) == job' = [job EXCEPT ![t] = Idle]

-----------------------------------------------------------------------------
(* Requests.  One that carries no usable session or payment is a 402 and   *)
(* changes nothing.                                                        *)

\* BillingGate.check, free path: nothing is charged and no credit is spent.
FreeRequest(t, price, valid) ==
    /\ job[t].pc = "idle"
    /\ price <= 0
    /\ job' = [job EXCEPT ![t] = [Idle EXCEPT !.pc = "forecast", !.via = "free",
                                             !.valid = valid]]
    /\ UNCHANGED <<seen, sessions, now, captured, late, given, used, unanswered>>

\* check with X-PAYMENT-SESSION: a session header is never followed by the
\* payment header, whatever becomes of it.
SessionRequest(t, price, s, valid) ==
    /\ job[t].pc = "idle"
    /\ price > 0
    /\ job' = [job EXCEPT ![t] = [Idle EXCEPT !.pc = "session", !.sid = s, !.valid = valid]]
    /\ UNCHANGED <<seen, sessions, now, captured, late, given, used, unanswered>>

\* payment_satisfies: the `exact` scheme takes the very amount asked.
Satisfies(n, price) == Value[n] = price

Pay(t, n, buys, valid) ==
    /\ job' = [job EXCEPT ![t] = [Idle EXCEPT !.pc = "verify", !.buys = buys,
                                             !.nonce = n, !.valid = valid]]
    /\ UNCHANGED <<seen, sessions, now, captured, late, given, used, unanswered>>

\* check with a payment header.
PaymentRequest(t, n, price, valid) ==
    /\ job[t].pc = "idle"
    /\ price > 0
    /\ Satisfies(n, price)
    /\ Pay(t, n, "verdict", valid)

\* _do_session and open_session, up to the facilitator.
BuySession(t, n) ==
    /\ job[t].pc = "idle"
    /\ Satisfies(n, SessionPrice)
    /\ Pay(t, n, "session", TRUE)

-----------------------------------------------------------------------------
(* SessionStore.consume, one critical section *)

\* Mutant of Spendable: the last credit can be spent again.
SpendableOneMore(s) ==
    sessions[s].state = "open" /\ now < sessions[s].expires /\ sessions[s].credits >= 0

Spendable(s) ==
    sessions[s].state = "open" /\ now < sessions[s].expires /\ sessions[s].credits > 0

Consume(t) ==
    /\ job[t].pc = "session"
    /\ Spendable(job[t].sid)
    /\ sessions' = [sessions EXCEPT ![job[t].sid].credits = @ - 1]
    /\ job' = [job EXCEPT ![t].pc = "forecast", ![t].via = "session"]
    /\ UNCHANGED <<seen, now, captured, late, given, used, unanswered>>

\* Unknown, expired (and dropped) or exhausted: 402.
ConsumeRefused(t) ==
    /\ job[t].pc = "session"
    /\ ~Spendable(job[t].sid)
    /\ LET s == job[t].sid
       IN sessions' = IF sessions[s].state = "open" /\ sessions[s].expires <= now
                      THEN [sessions EXCEPT ![s] = Session("gone", 0, 0)] ELSE sessions
    /\ Answer(t)
    /\ UNCHANGED <<seen, now, captured, late, given, used, unanswered>>

-----------------------------------------------------------------------------
(* _verify_payment *)

\* facilitator.verify: signature, balance and an unused nonce.
VerifyOk(t) ==
    /\ job[t].pc = "verify"
    /\ world.replayProof => captured[job[t].nonce] = 0
    /\ Go(t, "reserve")
    /\ UNCHANGED <<seen, sessions, now, captured, late, given, used, unanswered>>

\* Invalid or unreachable: fails closed, 402.
VerifyRejected(t) ==
    /\ job[t].pc = "verify"
    /\ Answer(t)
    /\ UNCHANGED <<seen, sessions, now, captured, late, given, used, unanswered>>

\* Mutant of Reserve: the nonce is recorded and not looked up.
ReserveBlind(t) ==
    /\ job[t].pc = "reserve"
    /\ seen' = seen \cup {job[t].nonce}
    /\ Go(t, "settle")
    /\ UNCHANGED <<sessions, now, captured, late, given, used, unanswered>>

\* NonceLedger.add
Reserve(t) ==
    /\ job[t].pc = "reserve"
    /\ job[t].nonce \notin seen
    /\ seen' = seen \cup {job[t].nonce}
    /\ Go(t, "settle")
    /\ UNCHANGED <<sessions, now, captured, late, given, used, unanswered>>

\* "payment already spent (replay)": 402.
Replayed(t) ==
    /\ job[t].pc = "reserve"
    /\ job[t].nonce \in seen
    /\ Answer(t)
    /\ UNCHANGED <<seen, sessions, now, captured, late, given, used, unanswered>>

Capturable(n) == world.replayProof => captured[n] = 0

Capture(n) == captured' = [captured EXCEPT ![n] = IF @ = 2 THEN 2 ELSE @ + 1]

\* A settled payment buys the verdict or the session it was sent for.
Delivered(t) ==
    job' = [job EXCEPT ![t].pc = IF job[t].buys = "session" THEN "open" ELSE "forecast",
                       ![t].via = "payment"]

\* facilitator.settle reports success: the payment is captured.
SettleOk(t) ==
    /\ job[t].pc = "settle"
    /\ Capturable(job[t].nonce)
    /\ Capture(job[t].nonce)
    /\ Delivered(t)
    /\ UNCHANGED <<seen, sessions, now, late, given, used, unanswered>>

\* It reports failure, and no money moved.
SettleRejected(t) ==
    /\ job[t].pc = "settle"
    /\ Go(t, "release")
    /\ UNCHANGED <<seen, sessions, now, captured, late, given, used, unanswered>>

\* The money moved and the answer did not arrive: fails closed all the same.
SettleLost(t) ==
    /\ world.lossy
    /\ job[t].pc = "settle"
    /\ Capturable(job[t].nonce)
    /\ Capture(job[t].nonce)
    /\ Go(t, "release")
    /\ UNCHANGED <<seen, sessions, now, late, given, used, unanswered>>

\* settle_timeout passes while the facilitator still has the request.
SettleTimesOut(t) ==
    /\ world.lossy
    /\ job[t].pc = "settle"
    /\ late' = late \cup {job[t].nonce}
    /\ Go(t, "release")
    /\ UNCHANGED <<seen, sessions, now, captured, given, used, unanswered>>

LateSettle(n) ==
    /\ n \in late
    /\ late' = late \ {n}
    /\ IF Capturable(n) THEN Capture(n) ELSE UNCHANGED captured
    /\ UNCHANGED <<seen, sessions, now, job, given, used, unanswered>>

\* Mutant of Release: the nonce stays reserved.
ReleaseForgotten(t) ==
    /\ job[t].pc = "release"
    /\ Answer(t)
    /\ UNCHANGED <<seen, sessions, now, captured, late, given, used, unanswered>>

\* NonceLedger.release, and the 402 "settlement failed".
Release(t) ==
    /\ job[t].pc = "release"
    /\ seen' = seen \ {job[t].nonce}
    /\ Answer(t)
    /\ UNCHANGED <<sessions, now, captured, late, given, used, unanswered>>

-----------------------------------------------------------------------------
(* What the caller gets *)

\* forecast answers and the verdict is sent.
Serve(t) ==
    /\ job[t].pc = "forecast"
    /\ job[t].valid
    /\ given' = IF job[t].via = "payment"
                THEN [given EXCEPT ![job[t].nonce] = IF @ = 2 THEN 2 ELSE @ + 1] ELSE given
    /\ used' = IF job[t].via = "session"
               THEN [used EXCEPT ![job[t].sid] = @ + 1] ELSE used
    /\ Answer(t)
    /\ UNCHANGED <<seen, sessions, now, captured, late, unanswered>>

\* Mutant of ServeNothing: a refused body hands the payment back for a retry.
ServeNothingReleases(t) ==
    /\ job[t].pc = "forecast"
    /\ ~job[t].valid
    /\ seen' = seen \ {job[t].nonce}
    /\ Answer(t)
    /\ UNCHANGED <<sessions, now, captured, late, given, used, unanswered>>

\* forecast refuses the body (400) or raises (503): the charge stands.
ServeNothing(t) ==
    /\ job[t].pc = "forecast"
    /\ ~job[t].valid
    /\ unanswered' = IF job[t].via = "session" THEN unanswered \cup {job[t].sid}
                     ELSE IF job[t].via = "payment" THEN unanswered \cup {job[t].nonce}
                     ELSE unanswered
    /\ Answer(t)
    /\ UNCHANGED <<seen, sessions, now, captured, late, given, used>>

\* open_session: the token for a fresh bundle of credits.
OpenSession(t, s) ==
    /\ job[t].pc = "open"
    /\ sessions[s].state = "fresh"
    /\ sessions' = [sessions EXCEPT ![s] = Session("open", SessionCredits, now + SessionTtl)]
    /\ given' = [given EXCEPT ![job[t].nonce] = IF @ = 2 THEN 2 ELSE @ + 1]
    /\ Answer(t)
    /\ UNCHANGED <<seen, now, captured, late, used, unanswered>>

-----------------------------------------------------------------------------

\* Nonces, sessions and the session key live in memory; a settle request that
\* was under way is still with the facilitator.
Restart ==
    /\ world.restarts
    /\ seen' = {}
    /\ sessions' = [s \in Sids |-> IF sessions[s].state = "fresh" THEN sessions[s]
                                   ELSE Session("gone", 0, 0)]
    /\ late' = late \cup {job[t].nonce : t \in {u \in Threads : job[u].pc = "settle"}}
    /\ job' = [t \in Threads |-> Idle]
    /\ UNCHANGED <<now, captured, given, used, unanswered>>

Tick ==
    /\ now < MaxTime
    /\ now' = now + 1
    /\ UNCHANGED <<seen, sessions, job, captured, late, given, used, unanswered>>

BillingInit ==
    /\ seen = {}
    /\ sessions = [s \in Sids |-> Session("fresh", 0, 0)]
    /\ now = 0
    /\ job = [t \in Threads |-> Idle]
    /\ captured = [n \in Nonces |-> 0]
    /\ late = {}
    /\ given = [n \in Nonces |-> 0]
    /\ used = [s \in Sids |-> 0]
    /\ unanswered = {}
    /\ world \in Worlds

Step(t) ==
    \/ Consume(t) \/ ConsumeRefused(t)
    \/ VerifyOk(t) \/ VerifyRejected(t) \/ Reserve(t) \/ Replayed(t)
    \/ SettleOk(t) \/ SettleRejected(t) \/ SettleLost(t) \/ SettleTimesOut(t) \/ Release(t)
    \/ Serve(t) \/ ServeNothing(t) \/ \E s \in Sids : OpenSession(t, s)

Request(t) ==
    \/ \E price \in Prices, valid \in BOOLEAN :
          \/ FreeRequest(t, price, valid)
          \/ \E s \in Sids : SessionRequest(t, price, s, valid)
          \/ \E n \in Nonces : PaymentRequest(t, n, price, valid)
    \/ \E n \in Nonces : BuySession(t, n)

BillingNext ==
    /\ \/ \E t \in Threads : Request(t) \/ Step(t)
       \/ \E n \in Nonces : LateSettle(n)
       \/ Restart
       \/ Tick
    /\ UNCHANGED world

BillingSpec == BillingInit /\ [][BillingNext]_billingVars

-----------------------------------------------------------------------------
(* Properties *)

\* Every variable holds a value of its kind; no session ever owes credits.
BillingTypeOK ==
    /\ seen \subseteq Nonces
    /\ sessions \in [Sids -> [state : {"fresh", "open", "gone"}, credits : Nat, expires : Nat]]
    /\ now \in Nat
    /\ job \in [Threads -> [pc : Pcs, buys : {"verdict", "session"}, via : Vias,
                            nonce : Nonces \cup {"none"}, sid : Sids \cup {"none"},
                            valid : BOOLEAN]]
    /\ captured \in [Nonces -> 0..2]
    /\ late \subseteq Nonces
    /\ given \in [Nonces -> 0..2]
    /\ used \in [Sids -> Nat]
    /\ unanswered \subseteq Nonces \cup Sids
    /\ world \in Worlds

\* "do not serve one payment's verdict twice", and never serve one that was
\* not paid: however requests with the same payment interleave, a payment is
\* captured at most once and buys at most one verdict or one session.
OnePerPayment == \A n \in Nonces : given[n] <= captured[n] /\ captured[n] <= 1

InHand(n) == \E t \in Threads : job[t].nonce = n /\ job[t].pc \in {"settle", "release"}

\* A nonce stays reserved only while its settlement is under way or because
\* its money moved; a failed settlement never locks a payer out of a retry.
NonceNotStranded == \A n \in seen : captured[n] > 0 \/ InHand(n)

\* The other direction, as long as settle answers arrive and the process lives: a
\* payment the gate would take again is one whose money did not move, so that a
\* released payment can be retried "rather than burning it".
ReleasedIsUnspent ==
    ~world.lossy /\ ~world.restarts => \A n \in Nonces : captured[n] > 0 => n \in seen

OnSession(s) == {t \in Threads : job[t].pc = "forecast" /\ job[t].via = "session" /\ job[t].sid = s}

\* A session never yields more verdicts than it has credits, counting the ones that
\* concurrent requests have under way; and a credit leaves an open session only for a
\* verdict or for a request whose forecast refused the body or failed.
CreditsConserved ==
    \A s \in Sids :
        LET spoken == used[s] + sessions[s].credits + Cardinality(OnSession(s))
        IN  /\ spoken <= SessionCredits
            /\ sessions[s].state = "open" /\ s \notin unanswered => spoken = SessionCredits

\* What is paid for is what is given: one verdict or session per captured payment, one
\* verdict per credit.
ChargesSound == OnePerPayment /\ CreditsConserved
=============================================================================
