--------------------------- MODULE Counterparties ---------------------------
(***************************************************************************)
(* What the service says of a counterparty and asks of its clients: the     *)
(* evidence of its settlements, the sellers' badges, the sanctions list,    *)
(* the seller portal, the billing preflight and the rate limiter.  They     *)
(* share no state: one of them runs in a behaviour, the others stay as they *)
(* began.                                                                   *)
(***************************************************************************)
EXTENDS Evidence

CONSTANTS Threads,                                              \* handler threads
          Subjects, Records, BadgeTTL, LastDay, MaxBadges, MaxLines,       \* of Sellers
          Addresses, Feeds,                                     \* of Screening
          VisitedKeys, Rows, CacheTTL, CacheMax, Cooldown, CooldownMax, MaxProbes, LastTick, \* of Portal
          Configs, Worlds, Corpus, Asks, Base, DefaultRatio, CdpCost,      \* of Preflight
          Clients, Burst, Cost, MaxKeys, Skew, MaxTime, MaxRequests        \* of RateLimit

\* An audit's findings are graded as RunAudit reads them.
ASSUME SellersAssumption ==
    /\ LastDay \in Nat /\ MaxBadges \in Nat /\ MaxLines \in Nat /\ BadgeTTL \in Nat
    /\ \A r \in Records :
         /\ r.clear \in BOOLEAN
         /\ r.ready \in 0..2 /\ r.dispute \in Nat /\ r.peer \in 0..1 /\ r.history \in 0..1

ASSUME ScreeningAssumption == \A f \in Feeds : f \subseteq Addresses

\* Each table has room for an entry; a payee's address is no host, and "none" is no host.
ASSUME PortalAssumption ==
    /\ IsFiniteSet(Rows)
    /\ \A r \in Rows : r.hosts \in Seq(STRING \ {"none"}) /\ r.settlements \in Nat
    /\ \A r, q \in Rows : r.payee \notin Range(q.hosts)
    /\ CacheTTL \in Nat /\ Cooldown \in Nat /\ MaxProbes \in Nat /\ LastTick \in Nat
    /\ CacheMax \in Nat \ {0} /\ CooldownMax \in Nat \ {0}

\* The settings, the facilitators and the amounts are what the parsers let through.
ASSUME PreflightAssumption ==
    /\ Configs \subseteq [payTo : {"good", "none", "bad"}, network : STRING, price : Int, cost : Nat \cup {0 - 3},
                          asset : {"none", "usdc", "sepolia_usdc", "mint", "euro", "dai", "odd"},
                          flag : {"unset", "0", "1"}, url : {"none", "open", "other"},
                          cdp : {"none", "half", "both"}, offline : BOOLEAN,
                          knobs : [free : Int, bps : Int, min : Int, max : Int, ratio : Int]]
    /\ Worlds \subseteq [up : BOOLEAN, readable : BOOLEAN, listed : BOOLEAN, versions : SUBSET Nat,
                         creds : BOOLEAN, scope : BOOLEAN]
    /\ IsFiniteSet(Corpus) /\ \A p \in Corpus : p.lo \in Int /\ p.hi \in Int
    /\ \A a \in Asks : a.amount \in Int /\ a.resource.path \in Seq(STRING)
    /\ Base \in Nat \ {0} /\ DefaultRatio \in Nat /\ CdpCost \in Nat

ASSUME LimitAssumption ==
    /\ Burst \in Nat \ {0} /\ Cost \in Nat \ {0} /\ MaxKeys \in Nat \ {0}
    /\ Skew \in Nat /\ MaxTime \in Nat /\ MaxRequests \in Nat

VARIABLES part,
          badgeCfg, badgeDay, audited, attFile, revFile, torn, registryUp, tier, badges,
          revoked, pending, acked, glued,                                   \* Sellers
          snapshot, feed, up, list, refresh, merging, ever, said, screenTh, \* Screening
          portalClock, cache, cooldown, portalTh, touched,                  \* Portal
          phase, cfg, world, checks, stable, quote, outcome,                \* Preflight
          clock, buckets, th, admitted, spent, made, first, stats           \* RateLimit

sellerVars == <<badgeCfg, badgeDay, audited, attFile, revFile, torn, registryUp, tier, badges,
                revoked, pending, acked, glued>>
screenVars == <<snapshot, feed, up, list, refresh, merging, ever, said, screenTh>>
portalVars == <<portalClock, cache, cooldown, portalTh, touched>>
billingVars == <<phase, cfg, world, checks, stable, quote, outcome>>
limitVars == <<clock, buckets, th, admitted, spent, made, first, stats>>

S == INSTANCE Sellers WITH
       TTL <- BadgeTTL, MaxDay <- LastDay, MaxRows <- MaxLines,
       cfg <- badgeCfg, day <- badgeDay, up <- registryUp
C == INSTANCE Screening WITH th <- screenTh
R == INSTANCE Portal WITH
       Keys <- VisitedKeys, TTL <- CacheTTL, MaxTime <- LastTick, clock <- portalClock, th <- portalTh
F == INSTANCE Preflight WITH Asked <- Asks
L == INSTANCE RateLimit

-----------------------------------------------------------------------------
\* The parts that do not run begin in one way.
AnyOf(values) == CHOOSE v \in values : TRUE

CounterpartiesInit ==
    /\ part \in {"evidence", "sellers", "screening", "portal", "preflight", "limit"}
    /\ Init /\ S!Init /\ C!Init /\ R!Init /\ F!Init /\ L!Init
    /\ part # "sellers" => badgeCfg = [store |-> TRUE, key |-> TRUE, seed |-> TRUE]
    /\ part # "screening" => snapshot = {} /\ feed = {}
    /\ part # "preflight" => cfg = AnyOf(Configs) /\ world = AnyOf(Worlds)

CounterpartiesNext ==
    /\ UNCHANGED part
    /\ \/ /\ part = "evidence" /\ Next
          /\ UNCHANGED <<sellerVars, screenVars, portalVars, billingVars, limitVars>>
       \/ /\ part = "sellers" /\ S!Next
          /\ UNCHANGED <<vars, screenVars, portalVars, billingVars, limitVars>>
       \/ /\ part = "screening" /\ C!Next
          /\ UNCHANGED <<vars, sellerVars, portalVars, billingVars, limitVars>>
       \/ /\ part = "portal" /\ R!Next
          /\ UNCHANGED <<vars, sellerVars, screenVars, billingVars, limitVars>>
       \/ /\ part = "preflight" /\ F!Next
          /\ UNCHANGED <<vars, sellerVars, screenVars, portalVars, limitVars>>
       \/ /\ part = "limit" /\ L!Next
          /\ UNCHANGED <<vars, sellerVars, screenVars, portalVars, billingVars>>

all == <<part, vars, sellerVars, screenVars, portalVars, billingVars, limitVars>>

CounterpartiesSpec == CounterpartiesInit /\ [][CounterpartiesNext]_all

-----------------------------------------------------------------------------
CounterpartiesTypeOK ==
    CASE part = "evidence"  -> TypeOK
      [] part = "sellers"   -> S!TypeOK
      [] part = "screening" -> C!TypeOK
      [] part = "portal"    -> R!TypeOK
      [] part = "preflight" -> F!TypeOK
      [] part = "limit"     -> L!TypeOK

\* What is said of a payee rests on enough independent payers: a minority of them, the
\* payee itself and one payee of a category move no price, prove no history, earn no high
\* confidence and hide no ring; and a payee held as stale is.
EvidenceSound ==
    part = "evidence" =>
      /\ MinorityCannotMovePrice /\ SelfPaymentsProveNothing /\ CaptiveIsRing
      /\ OnePayeeCannotSetCategory /\ DivergenceNeedsHalf
      /\ SelfPaidNeverHigh /\ StaleIsTrue

\* What is decided about a counterparty or a client is founded: a badge grants a floor
\* only when earned and not revoked, a free answer is a STOP and screening never weakens,
\* a portal report is about the seller asked for, a deployment reported ready collects,
\* a 402 asks in proportion and for our own resource, and a client gets no more than its
\* burst and its refill.
CounterpartiesSound ==
    /\ part = "sellers"   => S!RevokedStaysRevoked /\ S!FloorIsEarned
    /\ part = "screening" => C!FreeIsStop /\ C!ScreeningKept
    /\ part = "portal"    => R!AboutTheAsked
    /\ part = "preflight" => F!ReadyWorks /\ F!FeeInProportion /\ F!ResourceIsOurs
    /\ part = "limit"     => L!AdmittedBounded

\* What a further step may never do: lower a payer's standing, clear a suspect payee by
\* more of the same payments, grade a better merchant lower, contact an endpoint again
\* that just answered, or refuse a client that has a token.
CounterpartiesKept ==
    [][/\ part = "evidence" => StandingKept /\ SameVolumeClearsNothing
       /\ part = "sellers"  => S!BetterNeverLower
       /\ part = "portal"   => R!AnsweredRests
       /\ part = "limit"    => L!DenialJustified]_<<vars, sellerVars, portalVars, limitVars>>
=============================================================================
