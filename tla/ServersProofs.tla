---------------------------- MODULE ServersProofs ----------------------------
(***************************************************************************)
(* What the processes that stand between an agent and a payment keep: the  *)
(* two servers that bound their handler threads by a semaphore             *)
(* (SlotsConserved of BoundedServer for any number of connections,         *)
(* permits, refusal threads and exempt slots; EgressAccounted and          *)
(* SlotsSound of EgressProxy for any number of connections, hosts and      *)
(* permits and for every mode), and the approval store (TypeOK,            *)
(* RedemptionSound, StoreSound and the refinement of ApprovalLifecycle of  *)
(* Approvals for any number of threads, ids, claims, any limit and clock). *)
(***************************************************************************)
EXTENDS Approvals, EgressProxy, BoundedServer, FiniteSetTheorems, TLAPS

-----------------------------------------------------------------------------
(* BoundedServer.                                                           *)

(* Each counter is the size of the set of connections at some of the places *)
(* a connection can be, so a step that moves one connection changes each    *)
(* size by what its old and its new place weigh.                            *)

Weight(q, S) == IF q \in S THEN 1 ELSE 0

InPlace(f, S) == {c \in Connections : f[c] \in S}

\* Not in the backlog any more: what bounds shed_count.
Seen == Places \ {"backlog"}

ServerInv == ServerTypeOK /\ SlotsConserved /\ shedCount <= Cardinality(At(Seen))

-----------------------------------------------------------------------------

LEMMA PlaceIsFinite ==
    ASSUME NEW f, NEW S
    PROVE  IsFiniteSet(InPlace(f, S)) /\ Cardinality(InPlace(f, S)) \in Nat
  <1>1. InPlace(f, S) \in SUBSET Connections
    BY DEF InPlace
  <1>2. IsFiniteSet(Connections)
    BY ServerAssumption
  <1>3. IsFiniteSet(InPlace(f, S))
    BY <1>1, <1>2, FS_Subset
  <1> QED
    BY <1>3, FS_CardinalityType

LEMMA MovedWeighs ==
    ASSUME NEW f \in [Connections -> Places], NEW c \in Connections, NEW q, NEW S
    PROVE  Cardinality(InPlace([f EXCEPT ![c] = q], S))
             = Cardinality(InPlace(f, S)) + Weight(q, S) - Weight(f[c], S)
  <1> DEFINE g == [f EXCEPT ![c] = q]
             A == InPlace(f, S)
  <1>1. IsFiniteSet(A) /\ Cardinality(A) \in Nat
    BY PlaceIsFinite
  <1>2. g[c] = q /\ \A d \in Connections \ {c} : g[d] = f[d]
    OBVIOUS
  <1>3. c \in A <=> f[c] \in S
    BY DEF InPlace
  <1>4. CASE q \in S
    <2>1. InPlace(g, S) = A \cup {c}
      BY <1>2, <1>4 DEF InPlace
    <2>2. Cardinality(A \cup {c}) = IF c \in A THEN Cardinality(A) ELSE Cardinality(A) + 1
      BY <1>1, FS_AddElement
    <2>3. Weight(q, S) = 1 /\ Weight(f[c], S) = IF c \in A THEN 1 ELSE 0
      BY <1>3, <1>4 DEF Weight
    <2> HIDE DEF A, g
    <2>4. Cardinality(A \cup {c}) = Cardinality(A) + Weight(q, S) - Weight(f[c], S)
      BY <1>1, <2>2, <2>3
    <2> QED
      BY <2>1, <2>4 DEF A, g
  <1>5. CASE q \notin S
    <2>1. InPlace(g, S) = A \ {c}
      BY <1>2, <1>5 DEF InPlace
    <2>2. Cardinality(A \ {c}) = IF c \in A THEN Cardinality(A) - 1 ELSE Cardinality(A)
      BY <1>1, FS_RemoveElement
    <2>3. Weight(q, S) = 0 /\ Weight(f[c], S) = IF c \in A THEN 1 ELSE 0
      BY <1>3, <1>5 DEF Weight
    <2> HIDE DEF A, g
    <2>4. Cardinality(A \ {c}) = Cardinality(A) + Weight(q, S) - Weight(f[c], S)
      BY <1>1, <2>2, <2>3
    <2> QED
      BY <2>1, <2>4 DEF A, g
  <1> QED
    BY <1>4, <1>5

LEMMA Moved ==
    ASSUME ServerTypeOK, NEW c \in Connections, NEW q, Go(c, q), NEW S
    PROVE  /\ Cardinality(At(S)) \in Nat
           /\ Cardinality(At(S)') = Cardinality(At(S)) + Weight(q, S) - Weight(where[c], S)
  <1>1. At(S) = InPlace(where, S) /\ At(S)' = InPlace([where EXCEPT ![c] = q], S)
    BY DEF At, InPlace, Go
  <1>2. where \in [Connections -> Places]
    BY DEF ServerTypeOK
  <1>3. Cardinality(InPlace([where EXCEPT ![c] = q], S))
          = Cardinality(InPlace(where, S)) + Weight(q, S) - Weight(where[c], S)
    BY <1>2, MovedWeighs
  <1>4. Cardinality(InPlace(where, S)) \in Nat
    BY PlaceIsFinite
  <1> QED
    BY <1>1, <1>3, <1>4, Zenon

LEMMA PlacesAreFinite == \A S : Cardinality(At(S)') \in Nat
  <1> TAKE S
  <1>1. At(S)' = InPlace(where', S)
    BY DEF At, InPlace
  <1> QED
    BY <1>1, PlaceIsFinite

\* What a step must do to the counters when it moves c from where[c] to q.
Balanced(c, q) ==
    /\ permits' = permits - Weight(q, Holding) + Weight(where[c], Holding)
    /\ refusing' = refusing + Weight(q, Refusal) - Weight(where[c], Refusal)
    /\ exempt' = exempt + Weight(q, {"exempt"}) - Weight(where[c], {"exempt"})
    /\ shedCount' \in {shedCount, shedCount + Weight(q, Seen) - Weight(where[c], Seen)}

LEMMA BalancedStep ==
    ASSUME ServerInv, NEW c \in Connections, NEW q \in Places, Go(c, q), Balanced(c, q),
           q # "backlog",
           permits' >= 0, refusing' <= MaxRefuse, exempt' <= MaxExempt,
           outcome' \in [Connections -> Outcomes], arrived' \subseteq Connections, unread' \subseteq Connections
    PROVE  ServerInv'
  <1> USE DEF ServerInv
  <1>1. /\ Cardinality(At(Holding)) \in Nat
        /\ Cardinality(At(Holding)') = Cardinality(At(Holding)) + Weight(q, Holding) - Weight(where[c], Holding)
    BY Moved
  <1>2. /\ Cardinality(At(Refusal)) \in Nat
        /\ Cardinality(At(Refusal)') = Cardinality(At(Refusal)) + Weight(q, Refusal) - Weight(where[c], Refusal)
    BY Moved
  <1>3. /\ Cardinality(At({"exempt"})) \in Nat
        /\ Cardinality(At({"exempt"})')
             = Cardinality(At({"exempt"})) + Weight(q, {"exempt"}) - Weight(where[c], {"exempt"})
    BY Moved
  <1>4. /\ Cardinality(At(Seen)) \in Nat
        /\ Cardinality(At(Seen)') = Cardinality(At(Seen)) + Weight(q, Seen) - Weight(where[c], Seen)
    BY Moved
  <1>5. Weight(q, Seen) = 1 /\ Weight(where[c], Seen) \in {0, 1}
    BY DEF Weight, Seen
  <1>6. permits \in Int /\ refusing \in Int /\ exempt \in Int /\ shedCount \in Nat /\ MaxInflight \in Nat
    BY ServerAssumption DEF ServerTypeOK
  <1>7. SlotsConserved'
    <2>1. permits' + Cardinality(At(Holding)') = MaxInflight
      BY <1>1, <1>6 DEF Balanced, SlotsConserved, Weight
    <2>2. refusing' = Cardinality(At(Refusal)')
      BY <1>2, <1>6 DEF Balanced, SlotsConserved, Weight
    <2>3. exempt' = Cardinality(At({"exempt"})')
      BY <1>3, <1>6 DEF Balanced, SlotsConserved, Weight
    <2> QED
      BY <2>1, <2>2, <2>3 DEF SlotsConserved
  <1>8. shedCount' \in Nat /\ shedCount' <= Cardinality(At(Seen)')
    BY <1>4, <1>5, <1>6 DEF Balanced
  <1>9. Cardinality(At(Seen)') \in Nat /\ Cardinality(At(Seen)') <= Cardinality(Connections)
                                     /\ Cardinality(Connections) \in Nat
    <2>1. At(Seen)' \in SUBSET Connections /\ IsFiniteSet(Connections)
      BY ServerAssumption DEF At
    <2> QED
      BY <2>1, <1>4, <1>5, FS_Subset, FS_CardinalityType
  <1>10. ServerTypeOK'
    <2>1. where' \in [Connections -> Places]
      BY DEF Go, ServerTypeOK
    <2>2. shedCount' \in 0 .. Cardinality(Connections)
      BY <1>8, <1>9
    <2>3. Cardinality(At(Holding)') \in Nat /\ Cardinality(At(Refusal)') \in Nat
                                           /\ Cardinality(At({"exempt"})') \in Nat
      BY PlacesAreFinite
    <2>4. permits' \in 0 .. MaxInflight /\ refusing' \in 0 .. MaxRefuse /\ exempt' \in 0 .. MaxExempt
      <3>1. permits' = MaxInflight - Cardinality(At(Holding)')
        BY <1>1, <1>6 DEF Balanced, SlotsConserved, Weight
      <3>2. refusing' = Cardinality(At(Refusal)') /\ exempt' = Cardinality(At({"exempt"})')
        BY <1>7 DEF SlotsConserved
      <3> QED
        BY <2>3, <3>1, <3>2, <1>6, ServerAssumption
    <2> QED
      BY <2>1, <2>2, <2>4 DEF ServerTypeOK
  <1> QED
    BY <1>7, <1>8, <1>10

\* The steps that move no connection: clients sending, and the drain reading.
LEMMA StillStep ==
    ASSUME ServerInv, UNCHANGED <<where, outcome, permits, refusing, exempt, shedCount>>,
           arrived' \subseteq Connections, unread' \subseteq Connections
    PROVE  ServerInv'
  BY DEF ServerInv, ServerTypeOK, SlotsConserved, At

-----------------------------------------------------------------------------

LEMMA ServerInvInit == ServerInit => ServerInv
  <1> SUFFICES ASSUME ServerInit PROVE ServerInv
    OBVIOUS
  <1>1. /\ At(Holding) = {} /\ At(Refusal) = {} /\ At({"exempt"}) = {} /\ At(Seen) = {}
    BY DEF ServerInit, At, Holding, Refusal, Seen
  <1>2. Cardinality({}) = 0
    BY FS_EmptySet
  <1>3. Cardinality(Connections) \in Nat
    BY ServerAssumption, FS_CardinalityType
  <1>4. ServerTypeOK
    BY <1>3, ServerAssumption DEF ServerInit, ServerTypeOK, Places, Outcomes
  <1> QED
    BY <1>1, <1>2, <1>4, ServerAssumption DEF ServerInit, ServerInv, SlotsConserved

LEMMA AcceptLoopStep == ASSUME ServerInv, NEW c \in Connections, AcceptLoop(c) PROVE ServerInv'
  <1> USE ServerAssumption DEF ServerInv, ServerTypeOK, Balanced, Weight, Holding, Refusal, Seen, Places,
          Got, Outcomes, client
  <1>1. CASE Admit(c)
    BY <1>1, BalancedStep DEF Admit
  <1>2. CASE ThreadStarts(c)
    BY <1>2, BalancedStep DEF ThreadStarts
  <1>3. CASE ThreadFails(c)
    BY <1>3, BalancedStep DEF ThreadFails
  <1>4. CASE ShedRequest(c)
    BY <1>4, BalancedStep DEF ShedRequest
  <1>5. CASE TakeRefusalSlot(c)
    BY <1>5, BalancedStep DEF TakeRefusalSlot
  <1>6. CASE RefusalStarts(c)
    BY <1>6, BalancedStep DEF RefusalStarts
  <1>7. CASE RefusalThreadFails(c)
    BY <1>7, BalancedStep DEF RefusalThreadFails
  <1>8. CASE OverTheCap(c)
    BY <1>8, BalancedStep DEF OverTheCap
  <1> QED
    BY <1>1, <1>2, <1>3, <1>4, <1>5, <1>6, <1>7, <1>8 DEF AcceptLoop

LEMMA HandlerStep == ASSUME ServerInv, NEW c \in Connections, Handler(c) PROVE ServerInv'
  <1> USE ServerAssumption DEF ServerInv, ServerTypeOK, Balanced, Weight, Holding, Refusal, Seen, Places,
          Got, Outcomes, client
  <1>1. CASE Answer(c)
    BY <1>1, BalancedStep DEF Answer
  <1>2. CASE ReleasePermit(c)
    BY <1>2, BalancedStep DEF ReleasePermit
  <1> QED
    BY <1>1, <1>2 DEF Handler

LEMMA RefusalThreadStep == ASSUME ServerInv, NEW c \in Connections, RefusalThread(c) PROVE ServerInv'
  <1>1. CASE DrainReads(c)
    BY <1>1, StillStep DEF DrainReads, ServerInv, ServerTypeOK
  <1> USE ServerAssumption DEF ServerInv, ServerTypeOK, Balanced, Weight, Holding, Refusal, Seen, Places,
          Got, Outcomes, client
  <1>2. CASE RecheckServes(c)
    BY <1>2, BalancedStep DEF RecheckServes
  <1>3. CASE RecheckRefuses(c)
    BY <1>3, BalancedStep DEF RecheckRefuses
  <1>4. CASE ServeExempt(c)
    BY <1>4, BalancedStep DEF ServeExempt
  <1>5. CASE SendBusy(c)
    BY <1>5, BalancedStep DEF SendBusy
  <1>6. CASE ClientGone(c)
    BY <1>6, BalancedStep DEF ClientGone
  <1>7. CASE DrainEnds(c)
    BY <1>7, BalancedStep DEF DrainEnds
  <1>8. CASE ReturnSlot(c)
    BY <1>8, BalancedStep DEF ReturnSlot
  <1> QED
    BY <1>1, <1>2, <1>3, <1>4, <1>5, <1>6, <1>7, <1>8 DEF RefusalThread

LEMMA ClientStep == ASSUME ServerInv, NEW c \in Connections, Client(c) PROVE ServerInv'
  BY StillStep DEF Client, LineArrives, ClientSends, ServerInv, ServerTypeOK

LEMMA ServerInvNext == ServerInv /\ [ServerNext]_serverVars => ServerInv'
  <1> SUFFICES ASSUME ServerInv, [ServerNext]_serverVars PROVE ServerInv'
    OBVIOUS
  <1>1. CASE UNCHANGED serverVars
    BY <1>1, StillStep DEF serverVars, ServerInv, ServerTypeOK
  <1>2. CASE Quiet
    BY <1>1, <1>2 DEF Quiet
  <1>3. CASE \E c \in Connections : AcceptLoop(c) \/ Handler(c) \/ RefusalThread(c) \/ Client(c)
    BY <1>3, AcceptLoopStep, HandlerStep, RefusalThreadStep, ClientStep
  <1> QED
    BY <1>1, <1>2, <1>3 DEF ServerNext

LEMMA ServerInvariance == ServerSpec => []ServerInv
  BY ServerInvInit, ServerInvNext, PTL DEF ServerSpec

-----------------------------------------------------------------------------

\* Every counter of the bounded server keeps its range: the ceiling, the refusal cap and
\* the exempt cap are never exceeded and never go below zero, whatever ends how.
THEOREM CountersInRange == ServerSpec => []ServerTypeOK
  BY ServerInvariance, PTL DEF ServerInv

\* For any number of connections and any caps, no permit, refusal slot or exempt slot is
\* lost or invented by process_request and its threads.
THEOREM SlotsAreConserved == ServerSpec => []SlotsConserved
  BY ServerInvariance, PTL DEF ServerInv

-----------------------------------------------------------------------------
(* EgressProxy.                                                             *)

(* The inductive invariant.  What has been logged, sent and connected for a *)
(* connection follows from where its handler is.                            *)

Forward(c) == mode = "observe" \/ req[c].host \in Allowed

FirstRow(c) == Line(Verdict, req[c].host)
Closing(c) == Line(VerdictClose, req[c].host)

Before == {"new", "shed", "reading", "decide", "established", "commit"}
During == {"tunnel", "dial", "send", "relay", "tally"}

Placed(c) ==
    /\ pc[c] \in Before => log[c] = <<>> /\ sent[c] = 0
    /\ pc[c] \in During => log[c] = <<FirstRow(c)>>
    /\ pc[c] \in {"closing", "done"} => sent[c] = 0 \/ log[c] = <<FirstRow(c), Closing(c)>>
    /\ pc[c] \in {"new", "shed", "reading", "decide", "dial"} => up[c] = "none"
    /\ pc[c] \in {"tally", "closing", "done"} => up[c] # "open"
    /\ pc[c] \in {"established", "commit"} \cup During => Forward(c)
    /\ up[c] # "none" => Forward(c)

ProxyInv == ProxyTypeOK /\ PermitsConserved /\ \A c \in Conns : Placed(c)

-----------------------------------------------------------------------------
(* The semaphore *)

Resting == {"new", "done", "shed"}

LEMMA HandlingIsFinite == IsFiniteSet(Handling) /\ Cardinality(Handling) \in Nat
  <1>1. Handling \in SUBSET Conns /\ IsFiniteSet(Conns)
    BY ProxyAssumption DEF Handling
  <1> QED
    BY <1>1, FS_Subset, FS_CardinalityType

\* A step inside a handler, or outside every handler, moves no permit.
LEMMA SameHandling ==
    ASSUME ProxyTypeOK, PermitsConserved, UNCHANGED sem,
           \A c \in Conns : pc'[c] \in Resting <=> pc[c] \in Resting
    PROVE  PermitsConserved'
  <1>1. Handling' = Handling
    BY DEF Handling, Resting
  <1> QED
    BY <1>1 DEF PermitsConserved

LEMMA AcceptPermits ==
    ASSUME ProxyTypeOK, PermitsConserved, NEW c \in Conns, Accept(c)
    PROVE  PermitsConserved'
  <1>1. c \notin Handling /\ Handling' = Handling \cup {c}
    BY DEF Accept, Handling, ProxyTypeOK
  <1>2. Cardinality(Handling \cup {c}) = Cardinality(Handling) + 1
    BY <1>1, HandlingIsFinite, FS_AddElement
  <1>3. Cardinality(Handling') = Cardinality(Handling) + 1
    BY <1>1, <1>2
  <1> QED
    BY <1>3, HandlingIsFinite, ProxyAssumption DEF Accept, PermitsConserved, ProxyTypeOK

LEMMA ReleasePermits ==
    ASSUME ProxyTypeOK, PermitsConserved, NEW c \in Conns, Release(c)
    PROVE  PermitsConserved'
  <1>1. c \in Handling /\ Handling' = Handling \ {c}
    BY DEF Release, Handling, ProxyTypeOK
  <1>2. Cardinality(Handling \ {c}) = Cardinality(Handling) - 1
    BY <1>1, HandlingIsFinite, FS_RemoveElement
  <1>3. Cardinality(Handling') = Cardinality(Handling) - 1
    BY <1>1, <1>2
  <1> QED
    BY <1>3, HandlingIsFinite, ProxyAssumption DEF Release, PermitsConserved, ProxyTypeOK

LEMMA PermitsInRange ==
    ASSUME ProxyTypeOK, PermitsConserved', sem' \in Int, sem' >= 0
    PROVE  sem' \in 0 .. MaxConcurrent
  <1>1. Cardinality(Handling') \in Nat
    <2>1. Handling' \in SUBSET Conns /\ IsFiniteSet(Conns)
      BY ProxyAssumption DEF Handling
    <2> QED
      BY <2>1, FS_Subset, FS_CardinalityType
  <1> QED
    BY <1>1, ProxyAssumption DEF PermitsConserved

-----------------------------------------------------------------------------
(* Three kinds of step: one that logs, one that moves a handler without     *)
(* logging, and one that only the peers or the buffers see.                 *)

LEMMA InitProxyInv == ProxyInit => ProxyInv
  <1> SUFFICES ASSUME ProxyInit PROVE ProxyInv
    OBVIOUS
  <1>1. ProxyTypeOK
    <2>1. log \in [Conns -> Seq([decision : Decisions, host : Hosts \cup {"?"}])]
      <3>1. <<>> \in Seq([decision : Decisions, host : Hosts \cup {"?"}])
        OBVIOUS
      <3> QED
        BY <3>1 DEF ProxyInit
    <2>2. sem \in 0 .. MaxConcurrent
      BY ProxyAssumption DEF ProxyInit
    <2>3. /\ pending \in [Conns -> [Sides -> 0..MaxChunks]]
          /\ buf \in [Conns -> [Sides -> 0..BufCap]]
      BY ProxyAssumption DEF ProxyInit
    <2> QED
      BY <2>1, <2>2, <2>3 DEF ProxyInit, ProxyTypeOK, ProxyPcs, NoReq
  <1>2. PermitsConserved
    <2>1. Handling = {}
      BY DEF ProxyInit, Handling
    <2> QED
      BY <2>1, FS_EmptySet, ProxyAssumption DEF ProxyInit, PermitsConserved
  <1>3. \A c \in Conns : Placed(c)
    BY DEF ProxyInit, Placed, Before, During
  <1> QED
    BY <1>1, <1>2, <1>3 DEF ProxyInv

\* A logging step: the new line is one of the decisions, and only c's log grows.
LEMMA LogStep ==
    ASSUME ProxyInv, NEW c \in Conns, NEW d, NEW h, NEW q \in ProxyPcs \ Resting, pc[c] \notin Resting,
           LogAndGo(c, d, h, q), d \in Decisions, h \in Hosts \cup {"?"}, Placed(c)'
    PROVE  ProxyInv'
  <1>1. PermitsConserved'
    BY SameHandling DEF ProxyInv, LogAndGo, ProxyTypeOK, Resting
  <1>2. ProxyTypeOK'
    <2>1. Decisions' = Decisions
      BY DEF LogAndGo, Decisions, Verdict, VerdictClose
    <2>2. Line(d, h) \in [decision : Decisions, host : Hosts \cup {"?"}]
      BY DEF Line
    <2>3. log[c] \in Seq([decision : Decisions, host : Hosts \cup {"?"}])
      BY DEF ProxyInv, ProxyTypeOK
    <2>4. Append(log[c], Line(d, h)) \in Seq([decision : Decisions, host : Hosts \cup {"?"}])
      BY <2>2, <2>3
    <2>5. log' \in [Conns -> Seq([decision : Decisions', host : Hosts \cup {"?"}])]
      BY <2>1, <2>4 DEF ProxyInv, ProxyTypeOK, LogAndGo
    <2>6. pc' \in [Conns -> ProxyPcs]
      BY DEF ProxyInv, ProxyTypeOK, LogAndGo
    <2> QED
      BY <2>5, <2>6 DEF ProxyInv, ProxyTypeOK, LogAndGo, sockets
  <1>3. \A e \in Conns \ {c} : Placed(e)'
    BY DEF ProxyInv, ProxyTypeOK, LogAndGo, sockets, Placed, Forward, FirstRow, Closing, Verdict, VerdictClose
  <1> QED
    BY <1>1, <1>2, <1>3 DEF ProxyInv

\* A step that leaves the log, the mode and the other connections alone.
LEMMA QuietStep ==
    ASSUME ProxyInv, NEW c \in Conns, UNCHANGED <<log, mode>>, ProxyTypeOK', PermitsConserved', Placed(c)',
           \A e \in Conns \ {c} : /\ pc'[e] = pc[e] /\ req'[e] = req[e]
                                  /\ up'[e] = up[e] /\ sent'[e] = sent[e]
    PROVE  ProxyInv'
  <1>1. \A e \in Conns \ {c} : Placed(e)'
    BY DEF ProxyInv, Placed, Forward, FirstRow, Closing, Verdict, VerdictClose
  <1> QED
    BY <1>1 DEF ProxyInv

-----------------------------------------------------------------------------
(* The steps of a handler that log. *)

LEMMA FirstLine ==
    ASSUME NEW x, NEW y
    PROVE  /\ 1 \in 1..Len(<<x>>) /\ <<x>>[1] = x
           /\ 1 \in 1..Len(<<x, y>>) /\ <<x, y>>[1] = x
  OBVIOUS

LEMMA SeqEqual ==
    ASSUME NEW S, NEW s \in Seq(S), NEW t \in Seq(S), Len(s) = 2, Len(t) = 2, s[1] = t[1], s[2] = t[2]
    PROVE  s = t
  <1>1. s \in [1 .. 2 -> S] /\ t \in [1 .. 2 -> S]
    OBVIOUS
  <1>2. \A i \in 1 .. 2 : i = 1 \/ i = 2
    OBVIOUS
  <1> QED
    BY <1>1, <1>2

LEMMA SecondLine ==
    ASSUME NEW x, NEW y
    PROVE  Append(<<x>>, y) = <<x, y>>
  <1> DEFINE p == Append(<<x>>, y)
  <1>1. <<x>> \in Seq({x, y}) /\ Len(<<x>>) = 1 /\ y \in {x, y}
    OBVIOUS
  <1>2. p \in Seq({x, y}) /\ Len(p) = 2 /\ p[1] = x /\ p[2] = y
    BY <1>1
  <1>3. <<x, y>> \in Seq({x, y}) /\ Len(<<x, y>>) = 2 /\ <<x, y>>[1] = x /\ <<x, y>>[2] = y
    OBVIOUS
  <1> HIDE DEF p
  <1>4. p = <<x, y>>
    BY <1>2, <1>3, SeqEqual
  <1> QED
    BY <1>4 DEF p

LEMMA LoggingSteps ==
    ASSUME ProxyInv, NEW c \in Conns,
           \/ ReadOversize(c) \/ RejectParse(c) \/ Block(c) \/ ConnectFails(c)
           \/ Commit(c) \/ CommitPlain(c) \/ Tally(c)
    PROVE  ProxyInv'
  <1>1. ProxyTypeOK /\ Placed(c) /\ req[c].host \in Hosts \cup {"?"}
    BY DEF ProxyInv, ProxyTypeOK
  <1>2. UNCHANGED <<req, up, mode, sent>>
    BY DEF ReadOversize, RejectParse, Block, ConnectFails, Commit, CommitPlain, Tally, LogAndGo, sockets
  <1>3. FirstRow(c)' = FirstRow(c) /\ Closing(c)' = Closing(c) /\ (Forward(c)' <=> Forward(c))
    BY <1>2 DEF FirstRow, Closing, Verdict, VerdictClose, Forward
  <1>4. CASE ReadOversize(c) \/ RejectParse(c) \/ Block(c) \/ ConnectFails(c)
    <2>1. PICK d \in Decisions, h \in Hosts \cup {"?"} :
             pc[c] \in {"reading", "decide"} /\ LogAndGo(c, d, h, "closing")
      BY <1>1, <1>4 DEF ReadOversize, RejectParse, Block, ConnectFails, Decisions
    <2>2. pc'[c] = "closing" /\ sent[c] = 0 /\ up[c] = "none"
      BY <1>1, <2>1 DEF ProxyTypeOK, LogAndGo, Placed, Before
    <2>3. Placed(c)'
      BY <1>2, <2>2 DEF Placed, Before, During
    <2> QED
      BY <2>1, <2>3, LogStep DEF ProxyPcs, Resting
  <1>5. CASE Commit(c) \/ CommitPlain(c)
    <2>1. PICK q \in {"tunnel", "dial"} : LogAndGo(c, Verdict, req[c].host, q)
      BY <1>5 DEF Commit, CommitPlain
    <2>2. pc'[c] = q /\ log'[c] = Append(log[c], FirstRow(c))
      BY <1>1, <2>1 DEF ProxyTypeOK, LogAndGo, FirstRow
    <2>3. /\ pc[c] = IF q = "dial" THEN "decide" ELSE "commit"
          /\ q = "dial" => Decide(req[c].host) = "forward"
      <3>1. CASE Commit(c)
        <4>1. pc[c] = "commit" /\ pc'[c] = "tunnel"
          BY <1>1, <3>1 DEF Commit, LogAndGo, ProxyTypeOK
        <4> QED
          BY <2>2, <4>1
      <3>2. CASE CommitPlain(c)
        <4>1. pc[c] = "decide" /\ pc'[c] = "dial" /\ Decide(req[c].host) = "forward"
          BY <1>1, <3>2 DEF CommitPlain, LogAndGo, ProxyTypeOK
        <4> QED
          BY <2>2, <4>1
      <3> QED
        BY <1>5, <3>1, <3>2
    <2>4. log'[c] = <<FirstRow(c)>> /\ Forward(c) /\ sent[c] = 0
      <3>1. log[c] = <<>> /\ sent[c] = 0
        BY <1>1, <2>3 DEF Placed, Before
      <3>2. Append(<<>>, FirstRow(c)) = <<FirstRow(c)>>
        OBVIOUS
      <3>3. Forward(c)
        BY <1>1, <2>3 DEF Placed, Decide, Forward
      <3> QED
        BY <2>2, <3>1, <3>2, <3>3
    <2>5. Placed(c)'
      BY <1>1, <1>2, <1>3, <2>2, <2>3, <2>4, Zenon DEF Placed, Before, During
    <2>6. Verdict \in Decisions /\ q \in ProxyPcs \ Resting /\ pc[c] \notin Resting
      BY <2>1, <2>3 DEF Decisions, ProxyPcs, Resting
    <2> QED
      BY <1>1, <2>1, <2>5, <2>6, LogStep
  <1>6. CASE Tally(c)
    <2>1. pc[c] = "tally" /\ LogAndGo(c, VerdictClose, req[c].host, "closing")
      BY <1>6 DEF Tally
    <2>2. log[c] = <<FirstRow(c)>> /\ log'[c] = <<FirstRow(c), Closing(c)>> /\ pc'[c] = "closing"
      <3>1. pc'[c] = "closing" /\ log'[c] = Append(log[c], Closing(c))
        BY <1>1, <2>1 DEF ProxyTypeOK, LogAndGo, Closing
      <3>2. log[c] = <<FirstRow(c)>>
        BY <1>1, <2>1 DEF Placed, During
      <3>3. Append(<<FirstRow(c)>>, Closing(c)) = <<FirstRow(c), Closing(c)>>
        BY SecondLine
      <3> QED
        BY <3>1, <3>2, <3>3
    <2>3. Placed(c)'
      BY <1>1, <1>2, <1>3, <2>1, <2>2 DEF Placed, Before, During
    <2>4. VerdictClose \in Decisions /\ "closing" \in ProxyPcs \ Resting /\ pc[c] \notin Resting
      BY <2>1 DEF Decisions, ProxyPcs, Resting
    <2> QED
      BY <1>1, <2>1, <2>3, <2>4, LogStep
  <1> QED
    BY <1>4, <1>5, <1>6

-----------------------------------------------------------------------------
(* The other steps. *)

\* Where the sockets and buffers of c may be after a step that does not log.
SocketsTyped(c) ==
    /\ gone' \in [Conns -> SUBSET Sides]
    /\ pending' \in [Conns -> [Sides -> 0..MaxChunks]]
    /\ buf' \in [Conns -> [Sides -> 0..BufCap]]
    /\ sent' \in [Conns -> Nat] /\ \A e \in Conns \ {c} : sent'[e] = sent[e]

LEMMA MoveStep ==
    ASSUME ProxyInv, NEW c \in Conns, NEW q \in ProxyPcs, pc' = [pc EXCEPT ![c] = q],
           q \in Resting <=> pc[c] \in Resting,
           UNCHANGED <<log, sem, stopped, mode, req>>,
           up' \in [Conns -> {"none", "open", "closed"}], \A e \in Conns \ {c} : up'[e] = up[e],
           SocketsTyped(c), Placed(c)'
    PROVE  ProxyInv'
  <1>1. pc' \in [Conns -> ProxyPcs] /\ \A e \in Conns : pc'[e] = IF e = c THEN q ELSE pc[e]
    BY DEF ProxyInv, ProxyTypeOK
  <1>2. PermitsConserved'
    BY <1>1, SameHandling DEF ProxyInv
  <1>3. ProxyTypeOK'
    BY <1>1 DEF ProxyInv, ProxyTypeOK, Decisions, Verdict, VerdictClose, SocketsTyped
  <1> QED
    BY <1>1, <1>2, <1>3, QuietStep DEF SocketsTyped

LEMMA MovingSteps ==
    ASSUME ProxyInv, NEW c \in Conns,
           \/ Shed(c) \/ ReadNothing(c) \/ SendEstablished(c) \/ DialFails(c)
           \/ ConnectUpstream(c) \/ EstablishedFails(c) \/ Dial(c) \/ RelayPlainEnds(c)
           \/ TunnelCloses(c)
    PROVE  ProxyInv'
  <1>1. ProxyTypeOK /\ Placed(c)
    BY DEF ProxyInv
  <1>2. UNCHANGED <<req, log, mode, sem, stopped, sockets>> /\ SocketsTyped(c)
    BY <1>1 DEF ProxyTypeOK, Shed, ReadNothing, SendEstablished, DialFails, ConnectUpstream, EstablishedFails,
                Dial, RelayPlainEnds, TunnelCloses, EndTunnel, sockets, SocketsTyped
  <1>3. FirstRow(c)' = FirstRow(c) /\ Closing(c)' = Closing(c) /\ (Forward(c)' <=> Forward(c))
    BY <1>2 DEF FirstRow, Closing, Verdict, VerdictClose, Forward
  <1> USE DEF Before, During, Resting, ProxyPcs, sockets
  <1>4. CASE Shed(c)
    BY <1>1, <1>2, <1>3, <1>4, MoveStep DEF Shed, ProxyTypeOK, Placed
  <1>5. CASE ReadNothing(c)
    BY <1>1, <1>2, <1>3, <1>5, MoveStep DEF ReadNothing, ProxyTypeOK, Placed
  <1>6. CASE SendEstablished(c)
    BY <1>1, <1>2, <1>3, <1>6, MoveStep DEF SendEstablished, ProxyTypeOK, Placed
  <1>7. CASE DialFails(c)
    BY <1>1, <1>2, <1>3, <1>7, MoveStep DEF DialFails, ProxyTypeOK, Placed
  <1>8. CASE ConnectUpstream(c)
    <2>1. Forward(c)
      BY <1>8 DEF ConnectUpstream, Decide, Forward
    <2> QED
      BY <1>1, <1>2, <1>3, <1>8, <2>1, MoveStep DEF ConnectUpstream, ProxyTypeOK, Placed
  <1>9. CASE EstablishedFails(c)
    BY <1>1, <1>2, <1>3, <1>9, MoveStep DEF EstablishedFails, ProxyTypeOK, Placed
  <1>10. CASE Dial(c)
    BY <1>1, <1>2, <1>3, <1>10, MoveStep DEF Dial, ProxyTypeOK, Placed
  <1>11. CASE RelayPlainEnds(c)
    BY <1>1, <1>2, <1>3, <1>11, MoveStep DEF RelayPlainEnds, ProxyTypeOK, Placed
  <1>12. CASE TunnelCloses(c)
    BY <1>1, <1>2, <1>3, <1>12, MoveStep DEF TunnelCloses, EndTunnel, ProxyTypeOK, Placed
  <1> QED
    BY <1>4, <1>5, <1>6, <1>7, <1>8, <1>9, <1>10, <1>11, <1>12

LEMMA StayStep ==
    ASSUME ProxyInv, NEW c \in Conns, UNCHANGED <<pc, req, up, log, sem, stopped, mode>>,
           SocketsTyped(c), sent'[c] = sent[c] \/ pc[c] \in During
    PROVE  ProxyInv'
  <1>1. ProxyTypeOK'
    BY DEF ProxyInv, ProxyTypeOK, Decisions, Verdict, VerdictClose, SocketsTyped
  <1>2. PermitsConserved'
    BY DEF ProxyInv, PermitsConserved, Handling
  <1>3. Placed(c)'
    BY DEF ProxyInv, Placed, Before, During, FirstRow, Closing, Verdict, VerdictClose, Forward
  <1> QED
    BY <1>1, <1>2, <1>3, QuietStep DEF SocketsTyped

LEMMA RelayStep == ASSUME ProxyInv, NEW c \in Conns, NEW s \in Sides, Relay(c, s) PROVE ProxyInv'
  <1>1. pending[c][s] \in 1..MaxChunks /\ buf[c][Other(s)] \in 0..(BufCap - 1) /\ Other(s) \in Sides
    BY ProxyAssumption DEF ProxyInv, ProxyTypeOK, Relay, Readable, CanSend, Other, Sides
  <1>2. pending' \in [Conns -> [Sides -> 0..MaxChunks]]
    BY <1>1, ProxyAssumption DEF ProxyInv, ProxyTypeOK, Relay
  <1>3. buf' \in [Conns -> [Sides -> 0..BufCap]]
    BY <1>1, ProxyAssumption DEF ProxyInv, ProxyTypeOK, Relay
  <1>4. sent' \in [Conns -> Nat] /\ \A e \in Conns \ {c} : sent'[e] = sent[e]
    BY DEF ProxyInv, ProxyTypeOK, Relay
  <1>5. gone' \in [Conns -> SUBSET Sides] /\ UNCHANGED <<pc, req, up, log, sem, stopped, mode>>
    BY DEF ProxyInv, ProxyTypeOK, Relay
  <1>6. pc[c] \in During
    BY DEF Relay, During
  <1> QED
    BY <1>2, <1>3, <1>4, <1>5, <1>6, StayStep DEF SocketsTyped

LEMMA RelayPlainStep == ASSUME ProxyInv, NEW c \in Conns, RelayPlain(c) PROVE ProxyInv'
  <1>1. /\ pending[c]["upstream"] \in 1..MaxChunks /\ buf[c]["client"] \in 0..(BufCap - 1)
        /\ "upstream" \in Sides /\ "client" \in Sides
    BY ProxyAssumption DEF ProxyInv, ProxyTypeOK, RelayPlain, Readable, CanSend, Sides
  <1>2. pending' \in [Conns -> [Sides -> 0..MaxChunks]]
    BY <1>1, ProxyAssumption DEF ProxyInv, ProxyTypeOK, RelayPlain
  <1>3. buf' \in [Conns -> [Sides -> 0..BufCap]]
    BY <1>1, ProxyAssumption DEF ProxyInv, ProxyTypeOK, RelayPlain
  <1>4. /\ gone' \in [Conns -> SUBSET Sides] /\ sent' \in [Conns -> Nat]
        /\ UNCHANGED <<pc, req, up, log, sem, stopped, mode, sent>>
    BY DEF ProxyInv, ProxyTypeOK, RelayPlain
  <1> QED
    BY <1>2, <1>3, <1>4, StayStep DEF SocketsTyped

LEMMA PeerStep == ASSUME ProxyInv, NEW c \in Conns, Peer(c) PROVE ProxyInv'
  <1>1. PICK s \in Sides : PeerCloses(c, s) \/ PeerReads(c, s)
    BY DEF Peer
  <1>2. CASE PeerCloses(c, s)
    <2>1. gone' \in [Conns -> SUBSET Sides]
      BY <1>2 DEF PeerCloses, ProxyInv, ProxyTypeOK
    <2> QED
      BY <1>2, <2>1, StayStep DEF PeerCloses, ProxyInv, ProxyTypeOK, SocketsTyped
  <1>3. CASE PeerReads(c, s)
    <2>1. buf[c][s] \in 1..BufCap
      BY <1>3, ProxyAssumption DEF PeerReads, ProxyInv, ProxyTypeOK
    <2>2. buf' \in [Conns -> [Sides -> 0..BufCap]]
      BY <1>3, <2>1, ProxyAssumption DEF PeerReads, ProxyInv, ProxyTypeOK
    <2> QED
      BY <1>3, <2>2, StayStep DEF PeerReads, ProxyInv, ProxyTypeOK, SocketsTyped
  <1> QED
    BY <1>1, <1>2, <1>3

LEMMA RelayFailsStep == ASSUME ProxyInv, NEW c \in Conns, NEW s \in Sides, RelayFails(c, s) PROVE ProxyInv'
  <1>1. pending[c][s] \in 1..MaxChunks
    BY ProxyAssumption DEF ProxyInv, ProxyTypeOK, RelayFails, Readable
  <1>2. pending' \in [Conns -> [Sides -> 0..MaxChunks]]
    BY <1>1, ProxyAssumption DEF ProxyInv, ProxyTypeOK, RelayFails
  <1>3. SocketsTyped(c) /\ UNCHANGED <<req, log, mode, sem, stopped, sent>>
    BY <1>2 DEF RelayFails, EndTunnel, ProxyInv, ProxyTypeOK, SocketsTyped
  <1>4. FirstRow(c)' = FirstRow(c) /\ (Forward(c)' <=> Forward(c))
    BY <1>3 DEF FirstRow, Verdict, Forward
  <1>5. Placed(c)'
    BY <1>3, <1>4 DEF RelayFails, EndTunnel, ProxyInv, ProxyTypeOK, Placed, Before, During
  <1> QED
    BY <1>3, <1>5, MoveStep DEF RelayFails, EndTunnel, ProxyInv, ProxyTypeOK, ProxyPcs, Resting

LEMMA SendPlainStep == ASSUME ProxyInv, NEW c \in Conns, SendPlain(c) PROVE ProxyInv'
  <1>0. sent' \in [Conns -> Nat] /\ \A e \in Conns \ {c} : sent'[e] = sent[e]
    <2>1. sent \in [Conns -> Nat] /\ sent[c] + 1 \in Nat
      BY DEF ProxyInv, ProxyTypeOK
    <2>2. sent' = [sent EXCEPT ![c] = sent[c] + 1] \/ sent' = sent
      BY DEF SendPlain
    <2> QED
      BY <2>1, <2>2
  <1>1. SocketsTyped(c) /\ UNCHANGED <<req, log, mode, sem, stopped>>
    BY <1>0 DEF SendPlain, peers, ProxyInv, ProxyTypeOK, SocketsTyped
  <1>2. FirstRow(c)' = FirstRow(c) /\ (Forward(c)' <=> Forward(c))
    BY <1>1 DEF FirstRow, Verdict, Forward
  <1>3. Placed(c)'
    BY <1>1, <1>2 DEF SendPlain, ProxyInv, ProxyTypeOK, Placed, Before, During
  <1>4. CASE "upstream" \notin gone[c]
    BY <1>1, <1>3, <1>4, MoveStep DEF SendPlain, ProxyInv, ProxyTypeOK, ProxyPcs, Resting
  <1>5. CASE "upstream" \in gone[c]
    BY <1>1, <1>3, <1>5, MoveStep DEF SendPlain, ProxyInv, ProxyTypeOK, ProxyPcs, Resting
  <1> QED
    BY <1>4, <1>5

LEMMA ReadRequestStep ==
    ASSUME ProxyInv, NEW c \in Conns, NEW kind \in {"CONNECT", "plain"}, NEW host \in Hosts \cup {"?"},
           ReadRequest(c, kind, host)
    PROVE  ProxyInv'
  <1>1. /\ req' \in [Conns -> [kind : {"none", "CONNECT", "plain"}, host : Hosts \cup {"?"}]]
        /\ pc' \in [Conns -> ProxyPcs] /\ pc'[c] = "decide"
        /\ \A e \in Conns \ {c} : req'[e] = req[e] /\ pc'[e] = pc[e]
    BY DEF ReadRequest, ProxyInv, ProxyTypeOK, ProxyPcs
  <1>2. ProxyTypeOK'
    BY <1>1 DEF ReadRequest, ProxyInv, ProxyTypeOK, Decisions, Verdict, VerdictClose, sockets
  <1>3. PermitsConserved'
    BY <1>1, SameHandling DEF ReadRequest, ProxyInv, ProxyTypeOK, Resting
  <1>4. Placed(c)'
    BY <1>1 DEF ReadRequest, ProxyInv, Placed, Before, During, sockets
  <1> QED
    BY <1>1, <1>2, <1>3, <1>4, QuietStep DEF ReadRequest, sockets

LEMMA PermitSteps == ASSUME ProxyInv, NEW c \in Conns, Accept(c) \/ Release(c) PROVE ProxyInv'
  <1>1. PermitsConserved'
    BY AcceptPermits, ReleasePermits DEF ProxyInv
  <1>2. UNCHANGED <<req, up, log, mode, stopped, sockets>>
    BY DEF Accept, Release
  <1>3. sem' \in 0 .. MaxConcurrent
    <2>1. sem' \in Int /\ sem' >= 0
      BY ProxyAssumption DEF Accept, Release, ProxyInv, ProxyTypeOK
    <2> QED
      BY <1>1, <2>1, PermitsInRange DEF ProxyInv
  <1>4. ProxyTypeOK'
    BY <1>2, <1>3 DEF Accept, Release, ProxyInv, ProxyTypeOK, ProxyPcs, Decisions, Verdict, VerdictClose, sockets
  <1>5. Placed(c)'
    BY <1>2 DEF Accept, Release, ProxyInv, ProxyTypeOK, Placed, Before, During, sockets,
                FirstRow, Closing, Verdict, VerdictClose, Forward
  <1> QED
    BY <1>1, <1>2, <1>4, <1>5, QuietStep DEF Accept, Release, ProxyInv, ProxyTypeOK, sockets

LEMMA ShutdownStep == ASSUME ProxyInv, Shutdown \/ UNCHANGED proxyVars PROVE ProxyInv'
  BY DEF Shutdown, proxyVars, ProxyInv, ProxyTypeOK, PermitsConserved, Handling, Placed, Before, During, sockets,
         Decisions, FirstRow, Closing, Verdict, VerdictClose, Forward

-----------------------------------------------------------------------------

LEMMA NextProxyInv == ProxyInv /\ [ProxyNext]_proxyVars => ProxyInv'
  <1> SUFFICES ASSUME ProxyInv, [ProxyNext]_proxyVars PROVE ProxyInv'
    OBVIOUS
  <1>1. ASSUME NEW c \in Conns, Serve(c) PROVE ProxyInv'
    BY <1>1, PermitSteps, MovingSteps DEF Serve
  <1>2. ASSUME NEW c \in Conns, Handle(c) PROVE ProxyInv'
    BY <1>2, LoggingSteps, MovingSteps, PermitSteps, ReadRequestStep, RelayStep, RelayFailsStep,
       RelayPlainStep, SendPlainStep DEF Handle
  <1> QED
    BY <1>1, <1>2, PeerStep, ShutdownStep DEF ProxyNext

LEMMA ProxyInvariance == ProxySpec => []ProxyInv
  BY InitProxyInv, NextProxyInv, PTL DEF ProxySpec

-----------------------------------------------------------------------------

\* No silent egress, for any number of connections and hosts and in every mode: no
\* connection is made to a host the mode blocks, and no byte is sent before the line
\* that names its destination.
THEOREM NoSilentEgress == ProxySpec => []EgressAccounted
  <1>1. ProxyInv => EgressAccounted
    <2> SUFFICES ASSUME ProxyInv, NEW c \in Conns
                 PROVE  /\ up[c] # "none" => mode = "observe" \/ req[c].host \in Allowed
                        /\ sent[c] > 0 => Logged(c, Verdict)
      BY DEF EgressAccounted
    <2>1. Placed(c) /\ pc[c] \in ProxyPcs /\ sent[c] \in Nat
      BY DEF ProxyInv, ProxyTypeOK
    <2>2. up[c] # "none" => mode = "observe" \/ req[c].host \in Allowed
      BY <2>1 DEF Placed, Forward
    <2>3. ASSUME sent[c] > 0 PROVE Logged(c, Verdict)
      <3>1. log[c] = <<FirstRow(c)>> \/ log[c] = <<FirstRow(c), Closing(c)>>
        BY <2>1, <2>3 DEF Placed, ProxyPcs, Before, During
      <3>2. 1 \in 1..Len(log[c]) /\ log[c][1] = FirstRow(c)
        <4>1. CASE log[c] = <<FirstRow(c)>>
          BY <4>1, FirstLine, Zenon
        <4>2. CASE log[c] = <<FirstRow(c), Closing(c)>>
          BY <4>2, FirstLine, Zenon
        <4> QED
          BY <3>1, <4>1, <4>2
      <3> QED
        BY <3>2 DEF Logged, FirstRow
    <2> QED
      BY <2>2, <2>3
  <1> QED
    BY <1>1, ProxyInvariance, PTL

\* On every path out of a handler the permit is given back and the upstream socket is
\* closed, and a connection that carried bytes leaves its two lines.
THEOREM SlotsAreSound == ProxySpec => []SlotsSound
  <1>1. ProxyInv => SlotsSound
    <2> SUFFICES ASSUME ProxyInv, NEW c \in Conns, pc[c] = "done"
                 PROVE  /\ up[c] # "open"
                        /\ sent[c] > 0 => log[c] = <<Line(Verdict, req[c].host), Line(VerdictClose, req[c].host)>>
      BY DEF SlotsSound, HandlerCleansUp, ProxyInv
    <2> QED
      BY DEF ProxyInv, Placed, FirstRow, Closing
  <1> QED
    BY <1>1, ProxyInvariance, PTL

\* Every variable of the proxy keeps its type, the semaphore its range.
THEOREM ProxyTypes == ProxySpec => []ProxyTypeOK
  BY ProxyInvariance, PTL DEF ProxyInv

-----------------------------------------------------------------------------
(* Approvals.                                                              *)

(* The inductive invariant.  RedemptionSound speaks of the answers given;   *)
(* to carry it from the opening to the answer it must be said of every copy *)
(* of a record, in the store and in a thread's hands, however stale.        *)

\* Some approval was stored under i with this record's payment and deadline,
\* and it was asked for on a verdict that may be asked about.
OpenedAs(i, r) ==
    \E o \in opened : /\ o.id = i
                      /\ o.digest = r.digest
                      /\ o.expires = r.expires
                      /\ Approvable(o.ask)
                      /\ o.ask.receiptOk

\* Whoever the record says answered it yes did answer it yes.
Answered(i, r) == [id |-> i, by |-> r.by] \in answers

RowSound(i) ==
    /\ rows[i].state # "absent" => OpenedAs(i, rows[i])
    /\ rows[i].state \in {"approved", "consumed"} => Answered(i, rows[i])

JobSound(t) ==
    LET j == job[t] IN
    j.pc # "idle" =>
       /\ j.id \in Ids
       /\ j.op = "open" => /\ j.rec.state = "pending"
                           /\ Approvable(j.ask) /\ j.ask.receiptOk
       /\ j.op # "open" => j.rec.state # "absent" /\ OpenedAs(j.id, j.rec)
       /\ j.rec.state \in {"approved", "consumed"} => j.approve \/ Answered(j.id, j.rec)
       /\ j.approve => j.rec.state = "approved"
       /\ j.ok => /\ j.rec.state = "consumed" /\ j.at < j.rec.expires
                  /\ j.claimed = j.rec.digest
       /\ j.pc = "compute" => ~j.approve /\ ~j.ok

IInv == /\ TypeOK
        /\ \A i \in Ids : RowSound(i)
        /\ \A t \in Threads : JobSound(t)
        /\ RedemptionSound

-----------------------------------------------------------------------------
(* Types *)

LEMMA IdleType ==
    /\ NoRecord \in Record
    /\ Idle \in Job
  <1>1. NoRecord \in Record
    BY ApprovalAssumption DEF NoRecord, Record, States
  <1> QED
    BY <1>1 DEF Idle, Job, Pcs, Ops, NoId, NoAsk, Asks

\* Every window is at least one second, whatever ttl the request carries.
LEMMA WindowType == ASSUME NEW ttl \in Ttls PROVE Window(ttl) \in Nat \ {0}
  <1>1. ttl \in Int
    BY ApprovalAssumption
  <1>2. DefaultTtl \in Nat \ {0}
    BY ApprovalAssumption
  <1> QED
    BY <1>1, <1>2 DEF Window

LEMMA NewRecordType ==
    ASSUME now \in Nat, NEW c \in Claims, NEW ttl \in Ttls
    PROVE  NewRecord(ClaimDigest[c], ttl) \in Record
  <1>1. ClaimDigest[c] \in Digests
    BY ApprovalAssumption
  <1>2. now + Window(ttl) \in Nat
    BY WindowType
  <1> QED
    BY <1>1, <1>2 DEF NewRecord, Record, States

LEMMA TypeStep == IInv /\ [Next]_vars => TypeOK'
  <1> SUFFICES ASSUME IInv, [Next]_vars PROVE TypeOK'
    OBVIOUS
  <1> TypeOK
    BY DEF IInv
  <1> USE IdleType
  <1>1. ASSUME NEW t \in Threads, NEW i \in Ids, NEW ask \in Asks, NEW c \in Claims,
               NEW ttl \in Ttls, OpenApproval(t, i, ask, c, ttl)
        PROVE  TypeOK'
    <2>1. NewRecord(ClaimDigest[c], ttl) \in Record
      BY NewRecordType DEF TypeOK
    <2>2. [Idle EXCEPT !.pc = "put", !.op = "open", !.id = i, !.ask = ask,
                       !.rec = NewRecord(ClaimDigest[c], ttl)] \in Job
      BY <2>1 DEF Job, Pcs, Ops, Idle
    <2> QED
      BY <1>1, <2>2 DEF OpenApproval, Overlapping, TypeOK
  <1>2. ASSUME NEW t \in Threads, NEW i \in Ids, NEW op \in Ops, Get(t, i, op)
        PROVE  TypeOK'
    <2>1. [Idle EXCEPT !.pc = "compute", !.op = op, !.id = i, !.rec = rows[i]] \in Job
      BY DEF Job, Pcs, Ops, Idle, TypeOK
    <2> QED
      BY <1>2, <2>1 DEF Get, Overlapping, TypeOK
  <1>3. ASSUME NEW t \in Threads, NEW approve \in BOOLEAN, NEW a \in Actors,
               DecideApproval(t, approve, a)
        PROVE  TypeOK'
    <2>1. job[t] \in Job
      BY DEF TypeOK
    <2>2. job[t].rec \in Record
      BY <2>1 DEF Job
    <2>3. Decided(job[t].rec, approve, a) \in Record
      BY <2>2 DEF Decided, Record, States
    <2>4. \A b \in BOOLEAN :
             [job[t] EXCEPT !.pc = "put", !.rec = Decided(job[t].rec, approve, a),
                            !.approve = b] \in Job
      BY <2>3, <2>1 DEF Job, Pcs
    <2> QED
      BY <1>3, <2>4 DEF DecideApproval, TypeOK
  <1>4. ASSUME NEW t \in Threads, NEW c \in Claims, RedeemApproval(t, c)
        PROVE  TypeOK'
    <2>1. /\ Redeemed(job[t].rec, c) \in Record
          /\ RedeemOk(job[t].rec, c) \in BOOLEAN
      BY DEF Redeemed, RedeemOk, Record, States, TypeOK, Job
    <2>2. job[t] \in Job
      BY DEF TypeOK
    <2>3. ClaimDigest[c] \in Digests \cup {"none"} /\ now \in Nat
      BY ApprovalAssumption DEF TypeOK
    <2>4. ASSUME NEW b \in BOOLEAN, NEW x \in Record, NEW g \in Digests \cup {"none"}
          PROVE  [job[t] EXCEPT !.pc = "put", !.rec = x, !.ok = b, !.at = now,
                                !.claimed = g] \in Job
      BY <2>2, <2>3 DEF Job, Pcs
    <2>5. [job[t] EXCEPT !.pc = "put", !.rec = Redeemed(job[t].rec, c),
                         !.ok = RedeemOk(job[t].rec, c), !.at = now,
                         !.claimed = ClaimDigest[c]] \in Job
      BY <2>1, <2>3, <2>4
    <2> QED
      BY <1>4, <2>5 DEF RedeemApproval, TypeOK
  <1>5. ASSUME NEW t \in Threads, PollApproval(t)
        PROVE  TypeOK'
    <2>1. job[t] \in Job /\ job[t].rec \in Record
      BY DEF TypeOK, Job
    <2>2. [job[t].rec EXCEPT !.state = "expired"] \in Record
      BY <2>1 DEF Record, States
    <2>3. ASSUME NEW x \in Record
          PROVE  [job[t] EXCEPT !.pc = "put", !.rec = x] \in Job
      BY <2>1 DEF Job, Pcs
    <2>4. [job[t] EXCEPT !.pc = "put", !.rec.state = "expired"]
             = [job[t] EXCEPT !.pc = "put", !.rec = [job[t].rec EXCEPT !.state = "expired"]]
      BY <2>1 DEF Job
    <2>5. [job[t] EXCEPT !.pc = "put", !.rec.state = "expired"] \in Job
      BY <2>2, <2>3, <2>4
    <2> QED
      BY <1>5, <2>5 DEF PollApproval, TypeOK
  <1>6. ASSUME NEW t \in Threads, PutRoom(t) \/ PutFull(t)
        PROVE  TypeOK'
    BY <1>6 DEF PutRoom, PutFull, TypeOK, Job, Pcs
  <1>7. ASSUME NEW t \in Threads, NEW v \in Ids, PutVictim(t, v)
        PROVE  TypeOK'
    BY <1>7 DEF PutVictim, TypeOK, Job, Pcs
  <1>8. ASSUME NEW t \in Threads, Evict(t)
        PROVE  TypeOK'
    BY <1>8 DEF Evict, TypeOK, Job, Pcs
  <1>9. ASSUME NEW t \in Threads, Write(t)
        PROVE  TypeOK'
    <2>1. /\ job[t] \in Job
          /\ job[t].rec \in Record
          /\ job[t].ask \in Asks
          /\ job[t].at \in Nat
          /\ job[t].claimed \in Digests \cup {"none"}
      BY DEF TypeOK, Job
    <2>2. job[t].id \in Ids
      BY <1>9 DEF Write, IInv, JobSound
    <2>3. rows' \in [Ids -> Record] /\ job' \in [Threads -> Job] /\ now' \in Nat
      BY <1>9, <2>1 DEF Write, TypeOK
    <2>4. opened' \subseteq Opening
      BY <1>9, <2>1, <2>2 DEF Write, TypeOK, Opening, Record
    <2>5. answers' \subseteq [id : Ids, by : Actors \cup {"nobody"}]
      BY <1>9, <2>1, <2>2 DEF Write, TypeOK, Record
    <2>6. paid' \subseteq Payment
      BY <1>9, <2>1, <2>2 DEF Write, TypeOK, Payment, Record
    <2>7. spends' \in [Ids -> 0..2]
      BY <1>9, <2>2 DEF Write, TypeOK
    <2>8. overlaps' \subseteq Ids
      BY <1>9 DEF Write, TypeOK
    <2> QED
      BY <2>3, <2>4, <2>5, <2>6, <2>7, <2>8 DEF TypeOK
  <1>10. CASE Restart
    BY <1>10 DEF Restart, TypeOK
  <1>11. CASE Tick
    BY <1>11 DEF Tick, TypeOK
  <1>12. CASE UNCHANGED vars
    BY <1>12 DEF vars, TypeOK
  <1> QED
    BY <1>1, <1>2, <1>3, <1>4, <1>5, <1>6, <1>7, <1>8, <1>9, <1>10, <1>11, <1>12
       DEF Next

-----------------------------------------------------------------------------
(* The steps *)

\* A step that touches only what thread t holds keeps the invariant if t's
\* copy is sound afterwards.
LEMMA JobStep ==
    ASSUME IInv, TypeOK', NEW t \in Threads,
           UNCHANGED <<rows, opened, answers, paid>>,
           \A u \in Threads : u # t => job'[u] = job[u],
           JobSound(t)'
    PROVE  IInv'
  <1>1. \A i \in Ids : RowSound(i)'
    BY DEF IInv, RowSound, OpenedAs, Answered
  <1>2. \A u \in Threads : JobSound(u)'
    <2> TAKE u \in Threads
    <2>1. CASE u = t
      BY <2>1
    <2>2. CASE u # t
      BY <2>2 DEF IInv, JobSound, OpenedAs, Answered
    <2> QED
      BY <2>1, <2>2
  <1>3. RedemptionSound'
    BY DEF IInv, RedemptionSound
  <1> QED
    BY <1>1, <1>2, <1>3 DEF IInv

LEMMA OpenStep ==
    ASSUME IInv, TypeOK', NEW t \in Threads, NEW i \in Ids, NEW ask \in Asks,
           NEW c \in Claims, NEW ttl \in Ttls, OpenApproval(t, i, ask, c, ttl)
    PROVE  IInv'
  <1>1. job'[t] = [Idle EXCEPT !.pc = "put", !.op = "open", !.id = i, !.ask = ask,
                               !.rec = NewRecord(ClaimDigest[c], ttl)]
    BY DEF OpenApproval, IInv, TypeOK
  <1>2. JobSound(t)'
    BY <1>1 DEF JobSound, Idle, NewRecord, OpenApproval
  <1> QED
    BY <1>2, JobStep DEF OpenApproval, IInv, TypeOK

LEMMA GetStep ==
    ASSUME IInv, TypeOK', NEW t \in Threads, NEW i \in Ids, NEW op \in Ops, Get(t, i, op)
    PROVE  IInv'
  <1>1. job'[t] = [Idle EXCEPT !.pc = "compute", !.op = op, !.id = i, !.rec = rows[i]]
    BY DEF Get, IInv, TypeOK
  <1>2. /\ job'[t].rec = rows[i] /\ job'[t].id = i /\ job'[t].op # "open"
        /\ ~job'[t].approve /\ ~job'[t].ok
    <2>1. op # "open"
      BY DEF Get
    <2>2. Idle \in Job
      BY IdleType
    <2>3. /\ job'[t].rec = rows[i] /\ job'[t].id = i /\ job'[t].op = op
          /\ job'[t].approve = Idle.approve /\ job'[t].ok = Idle.ok
      BY <1>1, <2>2 DEF Job
    <2>4. Idle.approve = FALSE /\ Idle.ok = FALSE
      BY DEF Idle
    <2> QED
      BY <2>1, <2>3, <2>4
  <1>3. RowSound(i) /\ rows[i].state # "absent"
    BY DEF IInv, Get
  <1>4. opened' = opened /\ answers' = answers
    BY DEF Get
  <1>5. JobSound(t)'
    BY <1>2, <1>3, <1>4 DEF JobSound, RowSound, OpenedAs, Answered
  <1> QED
    BY <1>5, JobStep DEF Get, IInv, TypeOK

LEMMA DecideStep ==
    ASSUME IInv, TypeOK', NEW t \in Threads, NEW approve \in BOOLEAN, NEW a \in Actors,
           DecideApproval(t, approve, a)
    PROVE  IInv'
  <1> DEFINE r == job[t].rec
             d == Decided(r, approve, a)
  <1>1. job[t] \in Job /\ r \in Record
    BY DEF IInv, TypeOK, Job
  <1>2. job'[t] = [job[t] EXCEPT !.pc = "put", !.rec = d,
                      !.approve = (r.state = "pending" /\ d.state = "approved")]
    BY DEF DecideApproval, IInv, TypeOK
  <1>3. /\ job'[t].pc = "put" /\ job'[t].rec = d /\ job'[t].op = job[t].op
        /\ job'[t].id = job[t].id /\ job'[t].ok = job[t].ok
        /\ job'[t].approve = (r.state = "pending" /\ d.state = "approved")
    BY <1>1, <1>2 DEF Job
  <1>4. JobSound(t) /\ job[t].pc = "compute" /\ job[t].op = "decide"
    BY DEF IInv, DecideApproval
  <1>5. /\ d.digest = r.digest /\ d.expires = r.expires
        /\ r.state # "absent" => d.state # "absent"
        /\ r.state # "pending" => d.state = r.state /\ d.by = r.by
        /\ r.state = "pending" => d.state # "consumed"
    BY <1>1 DEF Decided, Record, States
  <1>6. opened' = opened /\ answers' = answers
    BY DEF DecideApproval
  <1>7. JobSound(t)'
    BY <1>3, <1>4, <1>5, <1>6 DEF JobSound, OpenedAs, Answered
  <1> QED
    BY <1>7, JobStep DEF DecideApproval, IInv, TypeOK

LEMMA RedeemStep ==
    ASSUME IInv, TypeOK', NEW t \in Threads, NEW c \in Claims, RedeemApproval(t, c)
    PROVE  IInv'
  <1> DEFINE r == job[t].rec
             d == Redeemed(r, c)
  <1>1. job[t] \in Job /\ r \in Record /\ now \in Nat
    BY DEF IInv, TypeOK, Job
  <1>2. job'[t] = [job[t] EXCEPT !.pc = "put", !.rec = d, !.ok = RedeemOk(r, c), !.at = now,
                                 !.claimed = ClaimDigest[c]]
    BY DEF RedeemApproval, IInv, TypeOK
  <1>3. /\ job'[t].pc = "put" /\ job'[t].rec = d /\ job'[t].op = job[t].op
        /\ job'[t].id = job[t].id /\ job'[t].approve = job[t].approve
        /\ job'[t].ok = RedeemOk(r, c) /\ job'[t].at = now
        /\ job'[t].claimed = ClaimDigest[c]
    BY <1>1, <1>2 DEF Job
  <1>4. JobSound(t) /\ job[t].pc = "compute" /\ job[t].op = "redeem"
    BY DEF IInv, RedeemApproval
  <1>5. /\ d.digest = r.digest /\ d.expires = r.expires /\ d.by = r.by
        /\ r.state # "absent" => d.state # "absent"
        /\ d.state \in {"approved", "consumed"} => r.state \in {"approved", "consumed"}
        /\ RedeemOk(r, c) => d.state = "consumed" /\ now < d.expires /\ ClaimDigest[c] = d.digest
    BY <1>1 DEF Redeemed, RedeemOk, IsExpired, Record, States
  <1>6. opened' = opened /\ answers' = answers
    BY DEF RedeemApproval
  <1>7. JobSound(t)'
    BY <1>3, <1>4, <1>5, <1>6 DEF JobSound, OpenedAs, Answered
  <1> QED
    BY <1>7, JobStep DEF RedeemApproval, IInv, TypeOK

LEMMA PollStep ==
    ASSUME IInv, TypeOK', NEW t \in Threads, PollApproval(t)
    PROVE  IInv'
  <1> DEFINE r == job[t].rec
  <1>1. job[t] \in Job /\ r \in Record
    BY DEF IInv, TypeOK, Job
  <1>2. JobSound(t) /\ job[t].pc = "compute" /\ job[t].op = "poll"
    BY DEF IInv, PollApproval
  <1>3. opened' = opened /\ answers' = answers
    BY DEF PollApproval
  <1>4. \/ job'[t] = Idle
        \/ job'[t] = [job[t] EXCEPT !.pc = "put", !.rec.state = "expired"]
    BY DEF PollApproval, IInv, TypeOK
  <1>5. ASSUME job'[t] = Idle PROVE JobSound(t)'
    BY <1>5 DEF JobSound, Idle
  <1>6. ASSUME job'[t] = [job[t] EXCEPT !.pc = "put", !.rec.state = "expired"]
        PROVE  JobSound(t)'
    <2>1. /\ job'[t].rec.state = "expired" /\ job'[t].rec.digest = r.digest
          /\ job'[t].rec.expires = r.expires /\ job'[t].id = job[t].id
          /\ job'[t].pc = "put" /\ job'[t].op = job[t].op
          /\ job'[t].ok = job[t].ok /\ job'[t].approve = job[t].approve
      BY <1>1, <1>6 DEF Job, Record
    <2> QED
      BY <2>1, <1>2, <1>3 DEF JobSound, OpenedAs
  <1>7. JobSound(t)'
    BY <1>4, <1>5, <1>6
  <1> QED
    BY <1>7, JobStep DEF PollApproval, IInv, TypeOK

\* The first half of put moves the thread on and leaves its copy alone.
LEMMA PutStep ==
    ASSUME IInv, TypeOK', NEW t \in Threads,
           PutRoom(t) \/ PutFull(t) \/ \E v \in Ids : PutVictim(t, v)
    PROVE  IInv'
  <1>1. job[t] \in Job /\ JobSound(t) /\ job[t].pc = "put"
    BY DEF IInv, TypeOK, PutRoom, PutFull, PutVictim
  <1>2. opened' = opened /\ answers' = answers
    BY DEF PutRoom, PutFull, PutVictim
  <1>3. ASSUME PutRoom(t) PROVE JobSound(t)'
    <2>1. job'[t] = [job[t] EXCEPT !.pc = "write"]
      BY <1>3 DEF PutRoom, IInv, TypeOK
    <2> QED
      BY <2>1, <1>1, <1>2 DEF JobSound, Job, OpenedAs, Answered
  <1>4. ASSUME PutFull(t) PROVE JobSound(t)'
    <2>1. job'[t] = Idle
      BY <1>4 DEF PutFull, IInv, TypeOK
    <2> QED
      BY <2>1 DEF JobSound, Idle
  <1>5. ASSUME NEW v \in Ids, PutVictim(t, v)
        PROVE  JobSound(t)'
    <2>1. job'[t] = [job[t] EXCEPT !.pc = "evict", !.victim = v]
      BY <1>5 DEF PutVictim, IInv, TypeOK
    <2> QED
      BY <2>1, <1>1, <1>2 DEF JobSound, Job, OpenedAs, Answered
  <1>6. JobSound(t)'
    BY <1>3, <1>4, <1>5
  <1> QED
    BY <1>6, JobStep DEF PutRoom, PutFull, PutVictim, IInv, TypeOK

LEMMA EvictStep ==
    ASSUME IInv, TypeOK', NEW t \in Threads, Evict(t)
    PROVE  IInv'
  <1>1. /\ UNCHANGED <<opened, answers, paid>>
        /\ \A u \in Threads : u # t => job'[u] = job[u]
        /\ job'[t] = [job[t] EXCEPT !.pc = "write"]
        /\ job[t].pc = "evict"
    BY DEF Evict, IInv, TypeOK
  <1>2. \A i \in Ids : rows'[i] = rows[i] \/ rows'[i] = NoRecord
    <2>1. rows' = [rows EXCEPT ![job[t].victim] = NoRecord]
      BY DEF Evict
    <2> QED
      BY <2>1 DEF IInv, TypeOK
  <1>3. \A i \in Ids : RowSound(i)'
    <2> TAKE i \in Ids
    <2>1. CASE rows'[i] = rows[i]
      BY <1>1, <2>1 DEF IInv, RowSound, OpenedAs, Answered
    <2>2. CASE rows'[i] = NoRecord
      BY <2>2 DEF RowSound, NoRecord
    <2> QED
      BY <1>2, <2>1, <2>2
  <1>4. \A u \in Threads : JobSound(u)'
    <2> TAKE u \in Threads
    <2>1. job[u] \in Job /\ JobSound(u)
      BY DEF IInv, TypeOK
    <2>2. CASE u = t
      BY <2>1, <2>2, <1>1 DEF JobSound, Job, OpenedAs, Answered
    <2>3. CASE u # t
      BY <2>1, <2>3, <1>1 DEF JobSound, OpenedAs, Answered
    <2> QED
      BY <2>2, <2>3
  <1>5. RedemptionSound'
    BY <1>1 DEF IInv, RedemptionSound
  <1> QED
    BY <1>3, <1>4, <1>5 DEF IInv

\* The write publishes the thread's copy and answers the caller: what was
\* sound of the copy becomes sound of the row and of the answer.
LEMMA WriteStep ==
    ASSUME IInv, TypeOK', NEW t \in Threads, Write(t)
    PROVE  IInv'
  <1> DEFINE j == job[t]
  <1>1. j \in Job /\ JobSound(t) /\ j.pc = "write" /\ j.id \in Ids
    BY DEF IInv, TypeOK, Write, JobSound
  <1>2. /\ opened \subseteq opened' /\ answers \subseteq answers'
        /\ job'[t] = Idle
        /\ \A u \in Threads : u # t => job'[u] = job[u]
        /\ rows'[j.id] = j.rec
        /\ \A i \in Ids : i # j.id => rows'[i] = rows[i]
    BY <1>1 DEF Write, IInv, TypeOK
  <1>3. \E o \in opened' : /\ o.id = j.id
                           /\ o.digest = j.rec.digest
                           /\ o.expires = j.rec.expires
                           /\ Approvable(o.ask)
                           /\ o.ask.receiptOk
    <2>1. CASE j.op = "open"
      <3> DEFINE o == [id |-> j.id, digest |-> j.rec.digest,
                       expires |-> j.rec.expires, ask |-> j.ask]
      <3>1. o \in opened'
        BY <2>1 DEF Write
      <3>2. Approvable(o.ask) /\ o.ask.receiptOk
        BY <1>1, <2>1 DEF JobSound
      <3> QED
        BY <3>1, <3>2
    <2>2. CASE j.op # "open"
      BY <1>1, <1>2, <2>2 DEF JobSound, OpenedAs
    <2> QED
      BY <2>1, <2>2
  <1>4. j.rec.state \in {"approved", "consumed"} => [id |-> j.id, by |-> j.rec.by] \in answers'
    BY <1>1, <1>2 DEF Write, JobSound, Answered
  <1>5. \A i \in Ids : RowSound(i)'
    <2> TAKE i \in Ids
    <2>1. CASE i = j.id
      BY <1>2, <1>3, <1>4, <2>1 DEF RowSound, OpenedAs, Answered
    <2>2. CASE i # j.id
      <3>1. RowSound(i) /\ rows'[i] = rows[i]
        BY <1>2, <2>2 DEF IInv
      <3> QED
        BY <3>1, <1>2 DEF RowSound, OpenedAs, Answered
    <2> QED
      BY <2>1, <2>2
  <1>6. \A u \in Threads : JobSound(u)'
    <2> TAKE u \in Threads
    <2>1. CASE u = t
      BY <2>1, <1>2 DEF JobSound, Idle
    <2>2. CASE u # t
      <3>1. JobSound(u) /\ job'[u] = job[u]
        BY <1>2, <2>2 DEF IInv
      <3> QED
        BY <3>1, <1>2 DEF JobSound, OpenedAs, Answered
    <2> QED
      BY <2>1, <2>2
  <1>7. RedemptionSound'
    <2> SUFFICES ASSUME NEW p \in paid'
                 PROVE  /\ \E o \in opened' : /\ o.id = p.id
                                              /\ o.digest = p.digest
                                              /\ p.at < o.expires
                                              /\ o.ask.verdict = "HOLD" /\ ~o.ask.hardStop
                                              /\ o.ask.receiptOk
                        /\ [id |-> p.id, by |-> p.by] \in answers'
      BY DEF RedemptionSound
    <2>1. CASE p \in paid
      BY <2>1, <1>2 DEF IInv, RedemptionSound
    <2>2. CASE p \notin paid
      <3>1. /\ j.ok
            /\ p = [id |-> j.id, digest |-> j.claimed, at |-> j.at, by |-> j.rec.by]
        BY <2>2 DEF Write
      <3>2. j.rec.state = "consumed" /\ j.at < j.rec.expires /\ j.claimed = j.rec.digest
        BY <3>1, <1>1 DEF JobSound
      <3> QED
        BY <3>1, <3>2, <1>3, <1>4 DEF Approvable
    <2> QED
      BY <2>1, <2>2
  <1> QED
    BY <1>5, <1>6, <1>7 DEF IInv

-----------------------------------------------------------------------------
(* The initial state, and every step *)

LEMMA InvInit == Init => IInv
  <1> SUFFICES ASSUME Init PROVE IInv
    OBVIOUS
  <1>1. TypeOK
    BY IdleType DEF Init, TypeOK
  <1>2. \A i \in Ids : RowSound(i)
    BY DEF Init, RowSound, NoRecord
  <1>3. \A t \in Threads : JobSound(t)
    BY DEF Init, JobSound, Idle
  <1>4. RedemptionSound
    BY DEF Init, RedemptionSound
  <1> QED
    BY <1>1, <1>2, <1>3, <1>4 DEF IInv

LEMMA InvStep == IInv /\ [Next]_vars => IInv'
  <1> SUFFICES ASSUME IInv, [Next]_vars PROVE IInv'
    OBVIOUS
  <1> TypeOK'
    BY TypeStep
  <1>1. CASE Restart
    <2>1. /\ rows' = [i \in Ids |-> NoRecord] /\ job' = [t \in Threads |-> Idle]
          /\ UNCHANGED <<opened, answers, paid>>
      BY <1>1 DEF Restart
    <2>2. \A i \in Ids : RowSound(i)'
      BY <2>1 DEF RowSound, NoRecord
    <2>3. \A t \in Threads : JobSound(t)'
      BY <2>1 DEF JobSound, Idle
    <2>4. RedemptionSound'
      BY <2>1 DEF IInv, RedemptionSound
    <2> QED
      BY <2>2, <2>3, <2>4 DEF IInv
  <1>2. ASSUME UNCHANGED <<rows, job, opened, answers, paid>>
        PROVE  IInv'
    <2>1. \A i \in Ids : RowSound(i)'
      BY <1>2 DEF IInv, RowSound, OpenedAs, Answered
    <2>2. \A t \in Threads : JobSound(t)'
      BY <1>2 DEF IInv, JobSound, OpenedAs, Answered
    <2>3. RedemptionSound'
      BY <1>2 DEF IInv, RedemptionSound
    <2> QED
      BY <2>1, <2>2, <2>3 DEF IInv
  <1>3. CASE Tick
    BY <1>2, <1>3 DEF Tick
  <1>4. CASE UNCHANGED vars
    BY <1>2, <1>4 DEF vars
  <1> QED
    BY <1>1, <1>3, <1>4, OpenStep, GetStep, DecideStep, RedeemStep, PollStep, PutStep,
       EvictStep, WriteStep DEF Next


-----------------------------------------------------------------------------
(* Requests served in turn.  That no approval is spent twice, that the store *)
(* keeps its limit and that it implements the life of an approval hold only *)
(* while a request has the store to itself: the invariant says how a copy in *)
(* a thread's hands then relates to the row it was taken from.              *)

Busy(t) == job[t].pc # "idle"

\* Thread t is serving a request about i.
On(t, i) == Busy(t) /\ job[t].id = i

Asked(i) == \E o \in opened : o.id = i

\* An id is drawn once: until it is stored it belongs to the thread that drew it.
DrawnOnce(i) ==
    /\ ~Asked(i) => spends[i] = 0
    /\ \A t \in Threads : On(t, i) /\ job[t].op = "open" =>
                             ~Asked(i) /\ \A u \in Threads : On(u, i) => u = t

\* Of an approval nobody asked about while another request was served: one thread
\* at a time holds it, and once it is spent every copy of it says so.
SpentOnce(i) ==
    i \notin overlaps =>
       /\ \A t, u \in Threads : On(t, i) /\ On(u, i) => t = u
       /\ spends[i] <= 1
       /\ spends[i] = 1 => /\ rows[i].state \in {"absent", "consumed"}
                           /\ \A t \in Threads :
                                 On(t, i) => job[t].rec.state = "consumed" /\ ~job[t].ok

\* What a handler may make of the row it read.
Follows(from, to, ok) ==
    \/ to = from /\ ~ok
    \/ from = "pending" /\ to \in {"approved", "declined"} /\ ~ok
    \/ from \in {"pending", "approved"} /\ to = "expired" /\ ~ok
    \/ from = "approved" /\ to = "consumed" /\ ok

\* The row t read is still there as t read it, and so is the room it found.
Carries(t) ==
    LET j == job[t] IN
    /\ j.op # "open" => /\ rows[j.id].state # "absent"
                        /\ Follows(rows[j.id].state, j.rec.state, j.ok)
    /\ j.op = "open" => ~j.ok
    /\ j.pc = "compute" => j.op # "open" /\ j.rec = rows[j.id]
    /\ j.pc = "evict" => rows[j.id].state = "absent" /\ j.victim \in Spent
    /\ j.pc = "write" => j.id \in Live \/ Cardinality(Live) < Limit

InTurn ==
    overlaps = {} =>
       /\ \A t, u \in Threads : Busy(t) /\ Busy(u) => t = u
       /\ Cardinality(Live) <= Limit
       /\ \A t \in Threads : Busy(t) => Carries(t)

TInv == /\ IInv
        /\ IsFiniteSet(Live)
        /\ \A i \in Ids : DrawnOnce(i) /\ SpentOnce(i)
        /\ InTurn

-----------------------------------------------------------------------------
(* The steps, for requests in turn *)

\* Storing or dropping one row changes the number of rows by at most one.
LEMMA LiveFinite ==
    ASSUME IsFiniteSet(Live), NEW i, Live' \subseteq Live \cup {i}
    PROVE  IsFiniteSet(Live')
  <1>1. IsFiniteSet(Live \cup {i})
    BY FS_AddElement
  <1> QED
    BY <1>1, FS_Subset

LEMMA LimitType == Limit \in Nat
  BY ApprovalAssumption

LEMMA AskedIsRow ==
    ASSUME IInv, NEW i \in Ids, ~Asked(i)
    PROVE  /\ rows[i].state = "absent"
           /\ \A t \in Threads : On(t, i) => job[t].op = "open"
  BY DEF IInv, RowSound, JobSound, OpenedAs, Asked, On, Busy

\* A request about i begins.
LEMMA StartTurn ==
    ASSUME TInv, TypeOK', NEW t \in Threads, NEW i \in Ids,
           job[t].pc = "idle", Busy(t)', job'[t].id = i, ~job'[t].ok,
           \A u \in Threads : u # t => job'[u] = job[u],
           overlaps' = Overlapping(i),
           UNCHANGED <<rows, opened, spends>>,
           job'[t].op = "open" => ~Asked(i) /\ job'[t].rec.state = "pending",
           job'[t].op # "open" => Asked(i) /\ rows[i].state # "absent" /\ job'[t].rec = rows[i],
           \/ job'[t].pc = "compute" /\ job'[t].op # "open"
           \/ job'[t].pc = "put" /\ job'[t].op = "open"
                /\ \A u \in Threads : job[u].op = "open" => job[u].id # i
    PROVE  /\ \A k \in Ids : DrawnOnce(k)' /\ SpentOnce(k)'
           /\ InTurn'
  <1>1. \A k : Asked(k)' <=> Asked(k)
    BY DEF Asked
  <1>2. \A u \in Threads, k \in Ids : u # t => (On(u, k)' <=> On(u, k)) /\ (Busy(u)' <=> Busy(u))
    BY DEF On, Busy
  <1>3. \A k \in Ids : (On(t, k)' <=> k = i) /\ ~On(t, k)
    BY DEF On, Busy
  <1>4. Live' = Live
    BY DEF Live
  <1>5. /\ overlaps \subseteq overlaps'
        /\ i \notin overlaps' => overlaps' = overlaps /\ \A u \in Threads : ~Busy(u)
        /\ \A k \in Ids : k # i => (k \in overlaps' <=> k \in overlaps)
    BY DEF Overlapping, Busy
  <1>6. ASSUME NEW k \in Ids PROVE DrawnOnce(k)'
    <2>1. DrawnOnce(k) /\ IInv
      BY DEF TInv
    <2>2. ~Asked(k)' => (spends[k] = 0)'
      BY <1>1, <2>1 DEF DrawnOnce
    <2>3. ASSUME NEW u \in Threads, On(u, k)', (job[u].op = "open")'
          PROVE  ~Asked(k)' /\ \A v \in Threads : On(v, k)' => v = u
      <3>1. CASE u = t
        <4>1. k = i /\ ~Asked(k)
          BY <1>3, <2>3, <3>1
        <4>2. \A v \in Threads : v # t => ~On(v, k)
          <5>1. \A v \in Threads : On(v, k) => job[v].op = "open" /\ job[v].id = k
            BY <4>1, <2>1, AskedIsRow DEF On
          <5>2. job'[t].op = "open"
            BY <2>3, <3>1
          <5> QED
            BY <5>1, <5>2, <4>1
        <4> QED
          BY <4>1, <4>2, <1>1, <1>2, <3>1
      <3>2. CASE u # t
        <4>1. On(u, k) /\ job[u].op = "open"
          BY <3>2, <1>2, <2>3
        <4>2. ~Asked(k) /\ \A v \in Threads : On(v, k) => v = u
          BY <4>1, <2>1 DEF DrawnOnce
        <4>3. ~On(t, k)'
          <5>1. CASE k = i
            BY <5>1, <4>1, <4>2 DEF On
          <5>2. CASE k # i
            BY <5>2, <1>3
          <5> QED
            BY <5>1, <5>2
        <4> QED
          BY <4>2, <4>3, <1>1, <1>2
      <3> QED
        BY <3>1, <3>2
    <2> QED
      BY <2>2, <2>3 DEF DrawnOnce
  <1>7. ASSUME NEW k \in Ids PROVE SpentOnce(k)'
    <2> SUFFICES ASSUME k \notin overlaps'
                 PROVE  /\ \A u, v \in Threads : On(u, k)' /\ On(v, k)' => u = v
                        /\ spends'[k] <= 1
                        /\ spends'[k] = 1 => /\ rows'[k].state \in {"absent", "consumed"}
                                             /\ \A u \in Threads :
                                                   On(u, k)' => job'[u].rec.state = "consumed" /\ ~job'[u].ok
      BY DEF SpentOnce
    <2>1. SpentOnce(k) /\ DrawnOnce(k) /\ k \notin overlaps
      BY <1>5 DEF TInv
    <2>2. CASE k = i
      <3>1. \A u \in Threads : On(u, k)' <=> u = t
        BY <2>2, <1>2, <1>3, <1>5 DEF On
      <3>2. spends[k] = 1 => job'[t].rec.state = "consumed"
        BY <2>1, <2>2 DEF SpentOnce, DrawnOnce
      <3> QED
        BY <2>1, <3>1, <3>2 DEF SpentOnce
    <2>3. CASE k # i
      BY <2>1, <2>3, <1>2, <1>3 DEF SpentOnce
    <2> QED
      BY <2>2, <2>3
  <1>8. InTurn'
    <2> SUFFICES ASSUME overlaps' = {}
                 PROVE  /\ \A u, v \in Threads : Busy(u)' /\ Busy(v)' => u = v
                        /\ Cardinality(Live') <= Limit
                        /\ \A u \in Threads : Busy(u)' => Carries(u)'
      BY DEF InTurn
    <2>1. overlaps = {} /\ \A u \in Threads : ~Busy(u)
      BY <1>5
    <2>2. \A u \in Threads : Busy(u)' => u = t
      BY <1>2, <2>1
    <2>3. Carries(t)'
      BY DEF Carries, Follows
    <2> QED
      BY <1>4, <2>1, <2>2, <2>3 DEF InTurn, TInv
  <1> QED
    BY <1>6, <1>7, <1>8

\* Thread t goes on with its request, or ends it, and the store stays as it is.
LEMMA CopyTurn ==
    ASSUME TInv, NEW t \in Threads,
           UNCHANGED <<rows, opened, spends, overlaps>>,
           \A u \in Threads : u # t => job'[u] = job[u],
           \/ job'[t] = Idle
           \/ /\ Busy(t) /\ job'[t].id = job[t].id /\ job'[t].op = job[t].op
              /\ job[t].rec.state = "consumed" /\ ~job[t].ok
                   => job'[t].rec.state = "consumed" /\ ~job'[t].ok
              /\ Carries(t) => Carries(t)'
    PROVE  /\ \A k \in Ids : DrawnOnce(k)' /\ SpentOnce(k)'
           /\ InTurn'
  <1>1. \A k : Asked(k)' <=> Asked(k)
    BY DEF Asked
  <1>2. \A u \in Threads, k \in Ids : On(u, k)' => On(u, k) /\ job'[u].op = job[u].op
    BY DEF On, Busy, Idle
  <1>3. Live' = Live
    BY DEF Live
  <1>4. ASSUME NEW k \in Ids PROVE DrawnOnce(k)'
    BY <1>1, <1>2 DEF DrawnOnce, TInv
  <1>5. ASSUME NEW k \in Ids PROVE SpentOnce(k)'
    <2>1. SpentOnce(k)
      BY DEF TInv
    <2>2. \A u \in Threads : On(u, k)' => \/ job'[u] = job[u]
                                          \/ job[u].rec.state = "consumed" /\ ~job[u].ok
                                               => job'[u].rec.state = "consumed" /\ ~job'[u].ok
      BY DEF On, Busy, Idle
    <2> QED
      BY <1>2, <2>1, <2>2 DEF SpentOnce
  <1>6. InTurn'
    <2>1. InTurn
      BY DEF TInv
    <2>2. \A u \in Threads : Busy(u)' => Busy(u)
      BY DEF Busy, Idle
    <2>3. \A u \in Threads : Busy(u)' /\ Carries(u) => Carries(u)'
      <3> TAKE u \in Threads
      <3>1. CASE u = t
        BY <3>1 DEF Busy, Idle
      <3>2. CASE u # t
        BY <3>2, <1>3 DEF Carries, Spent
      <3> QED
        BY <3>1, <3>2
    <2> QED
      BY <1>3, <2>1, <2>2, <2>3 DEF InTurn
  <1> QED
    BY <1>4, <1>5, <1>6

LEMMA OpenTurn ==
    ASSUME TInv, TypeOK', NEW t \in Threads, NEW i \in Ids, NEW ask \in Asks,
           NEW c \in Claims, NEW ttl \in Ttls, OpenApproval(t, i, ask, c, ttl)
    PROVE  (\A k \in Ids : DrawnOnce(k)' /\ SpentOnce(k)') /\ InTurn'
  <1> TypeOK
    BY DEF TInv, IInv
  <1>1. job'[t] = [Idle EXCEPT !.pc = "put", !.op = "open", !.id = i, !.ask = ask,
                               !.rec = NewRecord(ClaimDigest[c], ttl)]
    BY DEF OpenApproval, TypeOK
  <1>2. /\ job'[t].pc = "put" /\ job'[t].op = "open" /\ job'[t].id = i /\ ~job'[t].ok
        /\ job'[t].rec.state = "pending"
    BY <1>1 DEF Idle, NewRecord
  <1>3. ~Asked(i) /\ \A u \in Threads : job[u].op = "open" => job[u].id # i
    BY DEF OpenApproval, Fresh, Asked
  <1>4. \A u \in Threads : u # t => job'[u] = job[u]
    BY DEF OpenApproval, TypeOK
  <1> QED
    BY <1>2, <1>3, <1>4, StartTurn DEF OpenApproval, Busy

LEMMA GetTurn ==
    ASSUME TInv, TypeOK', NEW t \in Threads, NEW i \in Ids, NEW op \in Ops, Get(t, i, op)
    PROVE  (\A k \in Ids : DrawnOnce(k)' /\ SpentOnce(k)') /\ InTurn'
  <1> TypeOK
    BY DEF TInv, IInv
  <1>1. job'[t] = [Idle EXCEPT !.pc = "compute", !.op = op, !.id = i, !.rec = rows[i]]
    BY DEF Get, TypeOK
  <1>2. /\ job'[t].pc = "compute" /\ job'[t].op = op /\ job'[t].id = i
        /\ job'[t].ok = Idle.ok /\ job'[t].rec = rows[i]
    BY <1>1, IdleType DEF Job
  <1>5. op # "open" /\ Idle.ok = FALSE
    BY DEF Get, Idle
  <1>3. Asked(i) /\ rows[i].state # "absent"
    BY DEF Get, TInv, IInv, RowSound, OpenedAs, Asked
  <1>4. \A u \in Threads : u # t => job'[u] = job[u]
    BY DEF Get, TypeOK
  <1> QED
    BY <1>2, <1>3, <1>4, <1>5, StartTurn DEF Get, Busy

LEMMA DecideTurn ==
    ASSUME TInv, NEW t \in Threads, NEW approve \in BOOLEAN, NEW a \in Actors,
           DecideApproval(t, approve, a)
    PROVE  (\A k \in Ids : DrawnOnce(k)' /\ SpentOnce(k)') /\ InTurn'
  <1> DEFINE r == job[t].rec
             d == Decided(r, approve, a)
  <1> TypeOK /\ JobSound(t)
    BY DEF TInv, IInv
  <1>1. job[t] \in Job /\ r \in Record /\ job[t].pc = "compute" /\ job[t].op = "decide" /\ ~job[t].ok
    BY DEF TypeOK, Job, DecideApproval, JobSound
  <1>2. job'[t] = [job[t] EXCEPT !.pc = "put", !.rec = d,
                      !.approve = (r.state = "pending" /\ d.state = "approved")]
    BY DEF DecideApproval, TypeOK
  <1>3. /\ job'[t].pc = "put" /\ job'[t].op = job[t].op /\ job'[t].id = job[t].id
        /\ job'[t].ok = job[t].ok /\ job'[t].rec = d
    BY <1>1, <1>2 DEF Job
  <1>4. /\ Follows(r.state, d.state, job[t].ok)
        /\ r.state = "consumed" => d.state = "consumed"
    BY <1>1 DEF Decided, Follows, Record
  <1>5. rows' = rows
    BY DEF DecideApproval
  <1>6. Carries(t) => Carries(t)'
    BY <1>1, <1>3, <1>4, <1>5 DEF Carries
  <1> QED
    BY <1>1, <1>3, <1>4, <1>6, CopyTurn DEF DecideApproval, Busy, TypeOK

LEMMA RedeemTurn ==
    ASSUME TInv, NEW t \in Threads, NEW c \in Claims, RedeemApproval(t, c)
    PROVE  (\A k \in Ids : DrawnOnce(k)' /\ SpentOnce(k)') /\ InTurn'
  <1> DEFINE r == job[t].rec
             d == Redeemed(r, c)
  <1> TypeOK /\ JobSound(t)
    BY DEF TInv, IInv
  <1>1. job[t] \in Job /\ r \in Record /\ job[t].pc = "compute" /\ job[t].op = "redeem"
    BY DEF TypeOK, Job, RedeemApproval
  <1>2. job'[t] = [job[t] EXCEPT !.pc = "put", !.rec = d, !.ok = RedeemOk(r, c), !.at = now,
                                 !.claimed = ClaimDigest[c]]
    BY DEF RedeemApproval, TypeOK
  <1>3. /\ job'[t].pc = "put" /\ job'[t].op = job[t].op /\ job'[t].id = job[t].id
        /\ job'[t].ok = RedeemOk(r, c) /\ job'[t].rec = d
    BY <1>1, <1>2 DEF Job
  <1>4. /\ Follows(r.state, d.state, RedeemOk(r, c))
        /\ r.state = "consumed" => d.state = "consumed" /\ ~RedeemOk(r, c)
    BY <1>1 DEF Redeemed, RedeemOk, Follows, Record
  <1>5. rows' = rows
    BY DEF RedeemApproval
  <1>6. Carries(t) => Carries(t)'
    BY <1>1, <1>3, <1>4, <1>5 DEF Carries
  <1> QED
    BY <1>1, <1>3, <1>4, <1>6, CopyTurn DEF RedeemApproval, Busy, TypeOK

LEMMA PollTurn ==
    ASSUME TInv, NEW t \in Threads, PollApproval(t)
    PROVE  (\A k \in Ids : DrawnOnce(k)' /\ SpentOnce(k)') /\ InTurn'
  <1> DEFINE r == job[t].rec
  <1> TypeOK /\ JobSound(t)
    BY DEF TInv, IInv
  <1>1. job[t] \in Job /\ r \in Record /\ job[t].pc = "compute" /\ job[t].op = "poll" /\ ~job[t].ok
    BY DEF TypeOK, Job, PollApproval, JobSound
  <1>2. \A u \in Threads : u # t => job'[u] = job[u]
    BY DEF PollApproval, TypeOK
  <1>3. CASE r.state = "pending" /\ IsExpired(r)
    <2>1. job'[t] = [job[t] EXCEPT !.pc = "put", !.rec.state = "expired"]
      BY <1>3 DEF PollApproval, TypeOK
    <2>2. /\ job'[t].pc = "put" /\ job'[t].op = job[t].op /\ job'[t].id = job[t].id
          /\ job'[t].ok = job[t].ok /\ job'[t].rec.state = "expired"
      BY <1>1, <2>1 DEF Job, Record
    <2>3. rows' = rows
      BY DEF PollApproval
    <2>4. Carries(t) => Carries(t)'
      BY <1>1, <1>3, <2>2, <2>3 DEF Carries, Follows
    <2> QED
      BY <1>1, <1>2, <1>3, <2>2, <2>4, CopyTurn DEF PollApproval, Busy
  <1>4. CASE ~(r.state = "pending" /\ IsExpired(r))
    <2>1. job'[t] = Idle
      BY <1>4 DEF PollApproval, TypeOK
    <2> QED
      BY <1>2, <2>1, CopyTurn DEF PollApproval
  <1> QED
    BY <1>3, <1>4

LEMMA PutTurn ==
    ASSUME TInv, NEW t \in Threads,
           PutRoom(t) \/ PutFull(t) \/ \E v \in Ids : PutVictim(t, v)
    PROVE  (\A k \in Ids : DrawnOnce(k)' /\ SpentOnce(k)') /\ InTurn'
  <1> TypeOK /\ JobSound(t) /\ IsFiniteSet(Live)
    BY DEF TInv, IInv
  <1>1. /\ job[t] \in Job /\ job[t].pc = "put" /\ job[t].id \in Ids
        /\ rows' = rows /\ UNCHANGED <<opened, spends, overlaps>>
        /\ \A u \in Threads : u # t => job'[u] = job[u]
    BY DEF TypeOK, JobSound, PutRoom, PutFull, PutVictim
  <1>2. Cardinality(Live) \in Nat /\ Limit \in Nat /\ Live' = Live
    BY <1>1, FS_CardinalityType, LimitType DEF Live
  <1>3. CASE PutRoom(t)
    <2>1. /\ job'[t].pc = "write" /\ job'[t].op = job[t].op /\ job'[t].id = job[t].id
          /\ job'[t].ok = job[t].ok /\ job'[t].rec = job[t].rec
      BY <1>1, <1>3 DEF PutRoom, TypeOK, Job
    <2>2. job[t].id \in Live \/ Cardinality(Live) < Limit
      BY <1>2, <1>3 DEF PutRoom, NeedsRoom
    <2>3. Carries(t) => Carries(t)'
      BY <1>1, <1>2, <2>1, <2>2 DEF Carries
    <2> QED
      BY <1>1, <2>1, <2>3, CopyTurn DEF Busy
  <1>4. CASE PutFull(t)
    BY <1>1, <1>4, CopyTurn DEF PutFull, TypeOK
  <1>5. ASSUME NEW v \in Ids, PutVictim(t, v)
        PROVE  (\A k \in Ids : DrawnOnce(k)' /\ SpentOnce(k)') /\ InTurn'
    <2>1. /\ job'[t].pc = "evict" /\ job'[t].op = job[t].op /\ job'[t].id = job[t].id
          /\ job'[t].ok = job[t].ok /\ job'[t].rec = job[t].rec /\ job'[t].victim = v
      BY <1>1, <1>5 DEF PutVictim, TypeOK, Job
    <2>2. rows[job[t].id].state = "absent" /\ v \in Spent /\ Spent' = Spent
      BY <1>1, <1>5 DEF PutVictim, NeedsRoom, Spent, Live
    <2>3. Carries(t) => Carries(t)'
      BY <1>1, <2>1, <2>2 DEF Carries
    <2> QED
      BY <1>1, <2>1, <2>3, CopyTurn DEF Busy
  <1> QED
    BY <1>3, <1>4, <1>5

\* The victim leaves, and the row the thread holds keeps its place.
LEMMA EvictTurn ==
    ASSUME TInv, NEW t \in Threads, Evict(t)
    PROVE  /\ IsFiniteSet(Live')
           /\ \A k \in Ids : DrawnOnce(k)' /\ SpentOnce(k)'
           /\ InTurn'
  <1> DEFINE v == job[t].victim
  <1> TypeOK /\ JobSound(t) /\ IsFiniteSet(Live)
    BY DEF TInv, IInv
  <1>1. /\ job[t] \in Job /\ job[t].pc = "evict" /\ job[t].id \in Ids
        /\ rows' = [rows EXCEPT ![v] = NoRecord]
        /\ UNCHANGED <<opened, spends, overlaps>>
        /\ \A u \in Threads : u # t => job'[u] = job[u]
    BY DEF TypeOK, JobSound, Evict
  <1>2. /\ job'[t].pc = "write" /\ job'[t].op = job[t].op /\ job'[t].id = job[t].id
        /\ job'[t].ok = job[t].ok /\ job'[t].rec = job[t].rec
    BY <1>1 DEF Evict, TypeOK, Job
  <1>3. Live' = Live \ {v}
    <2>1. \A k \in Ids : rows'[k] = IF k = v THEN NoRecord ELSE rows[k]
      BY <1>1 DEF TypeOK
    <2>2. NoRecord.state = "absent"
      BY DEF NoRecord
    <2> QED
      BY <2>1, <2>2 DEF Live
  <1>4. \A k : Asked(k)' <=> Asked(k)
    BY <1>1 DEF Asked
  <1>5. \A u \in Threads, k \in Ids : On(u, k)' => On(u, k) /\ job'[u].op = job[u].op
                                                  /\ job'[u].rec = job[u].rec /\ job'[u].ok = job[u].ok
    BY <1>1, <1>2 DEF On, Busy
  <1>6. \A k \in Ids : rows'[k] = rows[k] \/ rows'[k].state = "absent"
    BY <1>1 DEF TypeOK, NoRecord
  <1>7. ASSUME NEW k \in Ids PROVE DrawnOnce(k)' /\ SpentOnce(k)'
    <2>1. DrawnOnce(k)'
      BY <1>1, <1>4, <1>5 DEF DrawnOnce, TInv
    <2>2. SpentOnce(k)'
      BY <1>1, <1>5, <1>6 DEF SpentOnce, TInv
    <2> QED
      BY <2>1, <2>2
  <1>8. InTurn'
    <2> SUFFICES ASSUME overlaps' = {}
                 PROVE  /\ \A u, w \in Threads : Busy(u)' /\ Busy(w)' => u = w
                        /\ Cardinality(Live') <= Limit
                        /\ \A u \in Threads : Busy(u)' => Carries(u)'
      BY DEF InTurn
    <2>1. /\ \A u, w \in Threads : Busy(u) /\ Busy(w) => u = w
          /\ Cardinality(Live) <= Limit /\ Carries(t) /\ Busy(t)
      BY <1>1 DEF TInv, InTurn, Busy
    <2>2. \A u \in Threads : Busy(u)' => u = t
      BY <1>1, <2>1 DEF Busy
    <2>3. v \in Live /\ v # job[t].id /\ rows'[job[t].id] = rows[job[t].id]
      BY <1>1, <2>1 DEF Carries, Live, Spent, TypeOK
    <2>4. Cardinality(Live') < Limit
      <3>1. Cardinality(Live') = Cardinality(Live) - 1 /\ Cardinality(Live) \in Nat
        BY <1>3, <2>3, FS_RemoveElement, FS_CardinalityType
      <3> QED
        BY <2>1, <3>1, LimitType
    <2>5. Carries(t)'
      BY <1>1, <1>2, <2>1, <2>3, <2>4 DEF Carries
    <2>6. Cardinality(Live') \in Nat
      BY <1>3, FS_RemoveElement, FS_CardinalityType
    <2> QED
      BY <2>2, <2>4, <2>5, <2>6, LimitType
  <1>9. IsFiniteSet(Live')
    BY <1>3, FS_Subset
  <1> QED
    BY <1>7, <1>8, <1>9

LEMMA WriteTurn ==
    ASSUME TInv, NEW t \in Threads, Write(t)
    PROVE  /\ IsFiniteSet(Live')
           /\ \A k \in Ids : DrawnOnce(k)' /\ SpentOnce(k)'
           /\ InTurn'
  <1> DEFINE j == job[t]
  <1> TypeOK /\ JobSound(t) /\ IsFiniteSet(Live)
    BY DEF TInv, IInv
  <1>1. /\ j \in Job /\ j.pc = "write" /\ j.id \in Ids
        /\ rows' = [rows EXCEPT ![j.id] = j.rec]
        /\ job'[t] = Idle /\ overlaps' = overlaps
        /\ \A u \in Threads : u # t => job'[u] = job[u]
    BY DEF TypeOK, JobSound, Write
  <1>2. /\ rows'[j.id] = j.rec
        /\ \A k \in Ids : k # j.id => rows'[k] = rows[k] /\ spends'[k] = spends[k]
        /\ spends'[j.id] = IF j.ok THEN IF spends[j.id] = 2 THEN 2 ELSE spends[j.id] + 1 ELSE spends[j.id]
        /\ \A k \in Ids : spends[k] \in 0 .. 2
    BY <1>1 DEF TypeOK, Write
  <1>3. On(t, j.id) /\ \A u \in Threads, k \in Ids : On(u, k)' <=> On(u, k) /\ u # t
    BY <1>1 DEF On, Busy, Idle
  <1>4. (\E o \in opened' : o.id = j.id) /\ \A k \in Ids : k # j.id => (Asked(k)' <=> Asked(k))
    <2>1. CASE j.op = "open"
      <3> DEFINE new == [id |-> j.id, digest |-> j.rec.digest,
                         expires |-> j.rec.expires, ask |-> j.ask]
      <3>1. opened' = opened \cup {new} /\ new.id = j.id
        BY <2>1 DEF Write
      <3> HIDE DEF new
      <3> QED
        BY <3>1 DEF Asked
    <2>2. CASE j.op # "open"
      BY <1>1, <2>2 DEF Write, JobSound, OpenedAs, Asked
    <2> QED
      BY <2>1, <2>2
  <1>5. ASSUME NEW k \in Ids PROVE DrawnOnce(k)'
    <2>1. DrawnOnce(k)
      BY DEF TInv
    <2>2. CASE k = j.id
      <3>1. Asked(k)'
        BY <1>4, <2>2 DEF Asked
      <3>2. \A u \in Threads : On(u, k)' => On(u, k) /\ u # t /\ job'[u] = job[u]
        BY <1>1, <1>3
      <3>3. \A u \in Threads : On(u, k)' => job'[u].op # "open"
        BY <1>3, <2>1, <2>2, <3>2 DEF DrawnOnce
      <3> QED
        BY <3>1, <3>3 DEF DrawnOnce
    <2>3. CASE k # j.id
      BY <1>1, <1>2, <1>3, <1>4, <2>1, <2>3 DEF DrawnOnce
    <2> QED
      BY <2>2, <2>3
  <1>6. ASSUME NEW k \in Ids PROVE SpentOnce(k)'
    <2>1. SpentOnce(k)
      BY DEF TInv
    <2>2. CASE k = j.id
      <3>1. j.ok => j.rec.state = "consumed"
        BY <1>1 DEF JobSound
      <3>2. k \notin overlaps => \A u \in Threads : ~On(u, k)'
        BY <1>3, <2>1, <2>2 DEF SpentOnce
      <3> QED
        BY <1>1, <1>2, <1>3, <2>1, <2>2, <3>1, <3>2 DEF SpentOnce
    <2>3. CASE k # j.id
      BY <1>1, <1>2, <1>3, <2>1, <2>3 DEF SpentOnce
    <2> QED
      BY <2>2, <2>3
  <1>7. Live' \subseteq Live \cup {j.id}
    BY <1>2 DEF Live
  <1>8. IsFiniteSet(Live')
    BY <1>7, LiveFinite
  <1>9. InTurn'
    <2> SUFFICES ASSUME overlaps' = {}
                 PROVE  /\ \A u \in Threads : ~Busy(u)'
                        /\ Cardinality(Live') <= Limit
      BY DEF InTurn
    <2>1. /\ \A u, w \in Threads : Busy(u) /\ Busy(w) => u = w
          /\ Cardinality(Live) <= Limit /\ Carries(t) /\ Busy(t)
      BY <1>1 DEF TInv, InTurn, Busy
    <2>2. \A u \in Threads : ~Busy(u)'
      BY <1>1, <2>1 DEF Busy, Idle
    <2>3. Cardinality(Live \cup {j.id}) <= Limit
      <3>1. j.id \in Live \/ Cardinality(Live) < Limit
        BY <1>1, <2>1 DEF Carries
      <3>2. CASE j.id \in Live
        <4>1. Live \cup {j.id} = Live
          BY <3>2
        <4> QED
          BY <2>1, <4>1
      <3>3. CASE j.id \notin Live /\ Cardinality(Live) < Limit
        <4>1. Cardinality(Live \cup {j.id}) = Cardinality(Live) + 1 /\ Cardinality(Live) \in Nat
          BY <3>3, FS_AddElement, FS_CardinalityType
        <4> QED
          BY <3>3, <4>1, LimitType
      <3> QED
        BY <3>1, <3>2, <3>3
    <2>4. Cardinality(Live') <= Cardinality(Live \cup {j.id})
      BY <1>7, FS_AddElement, FS_Subset
    <2>5. Cardinality(Live') \in Nat /\ Cardinality(Live \cup {j.id}) \in Nat
      BY <1>8, FS_AddElement, FS_CardinalityType
    <2> QED
      BY <2>2, <2>3, <2>4, <2>5, LimitType
  <1> QED
    BY <1>5, <1>6, <1>8, <1>9

LEMMA TurnInit == Init => TInv
  <1> SUFFICES ASSUME Init PROVE TInv
    OBVIOUS
  <1>1. IInv
    BY InvInit
  <1>2. Live = {} /\ \A t \in Threads : ~Busy(t)
    BY DEF Init, Live, NoRecord, Busy, Idle
  <1>3. IsFiniteSet(Live) /\ Cardinality(Live) = 0
    BY <1>2, FS_EmptySet
  <1>4. \A i \in Ids : DrawnOnce(i) /\ SpentOnce(i)
    BY <1>2 DEF Init, DrawnOnce, SpentOnce, On
  <1>5. InTurn
    BY <1>2, <1>3, LimitType DEF InTurn
  <1> QED
    BY <1>1, <1>3, <1>4, <1>5 DEF TInv

\* The process is gone: nobody is served and no row is left.
LEMMA RestartTurn ==
    ASSUME TInv, Restart
    PROVE  /\ IsFiniteSet(Live')
           /\ \A k \in Ids : DrawnOnce(k)' /\ SpentOnce(k)'
           /\ InTurn'
  <1>1. /\ \A k \in Ids : rows'[k].state = "absent"
        /\ \A t \in Threads : ~Busy(t)'
        /\ UNCHANGED <<opened, spends, overlaps>>
    BY DEF Restart, NoRecord, Busy, Idle
  <1>2. Live' = {}
    BY <1>1 DEF Live
  <1>3. IsFiniteSet(Live') /\ Cardinality(Live') = 0
    BY <1>2, FS_EmptySet
  <1>4. \A k : Asked(k)' <=> Asked(k)
    BY <1>1 DEF Asked
  <1>5. \A k \in Ids : DrawnOnce(k)' /\ SpentOnce(k)'
    BY <1>1, <1>4 DEF TInv, DrawnOnce, SpentOnce, On
  <1> QED
    BY <1>1, <1>3, <1>5, LimitType DEF InTurn

LEMMA QuietTurn ==
    ASSUME TInv, UNCHANGED <<rows, job, opened, spends, overlaps>>
    PROVE  /\ IsFiniteSet(Live')
           /\ \A k \in Ids : DrawnOnce(k)' /\ SpentOnce(k)'
           /\ InTurn'
  <1>1. Live' = Live /\ Spent' = Spent
    BY DEF Live, Spent
  <1>2. \A t \in Threads : Carries(t)' <=> Carries(t)
    BY <1>1 DEF Carries
  <1>3. (\A k \in Ids : DrawnOnce(k)' /\ SpentOnce(k)') /\ IsFiniteSet(Live')
    BY <1>1 DEF TInv, DrawnOnce, SpentOnce, On, Busy, Asked
  <1> QED
    BY <1>1, <1>2, <1>3 DEF TInv, InTurn, Busy

LEMMA TurnStep == TInv /\ [Next]_vars => TInv'
  <1> SUFFICES ASSUME TInv, [Next]_vars PROVE TInv'
    OBVIOUS
  <1> IInv /\ IInv' /\ TypeOK'
    BY InvStep DEF TInv, IInv
  <1> DEFINE Kept == /\ IsFiniteSet(Live')
                     /\ \A k \in Ids : DrawnOnce(k)' /\ SpentOnce(k)'
                     /\ InTurn'
  <1> SUFFICES Kept
    BY DEF TInv
  <1>1. ASSUME rows' = rows PROVE IsFiniteSet(Live')
    BY <1>1 DEF TInv, Live
  <1>2. ASSUME NEW t \in Threads, NEW i \in Ids, NEW ask \in Asks, NEW c \in Claims,
               NEW ttl \in Ttls, OpenApproval(t, i, ask, c, ttl)
        PROVE  Kept
    BY <1>1, <1>2, OpenTurn DEF OpenApproval
  <1>3. ASSUME NEW t \in Threads, NEW i \in Ids, NEW op \in Ops, Get(t, i, op)
        PROVE  Kept
    BY <1>1, <1>3, GetTurn DEF Get
  <1>4. ASSUME NEW t \in Threads, NEW approve \in BOOLEAN, NEW a \in Actors,
               DecideApproval(t, approve, a)
        PROVE  Kept
    BY <1>1, <1>4, DecideTurn DEF DecideApproval
  <1>5. ASSUME NEW t \in Threads, NEW c \in Claims, RedeemApproval(t, c)
        PROVE  Kept
    BY <1>1, <1>5, RedeemTurn DEF RedeemApproval
  <1>6. ASSUME NEW t \in Threads, PollApproval(t)
        PROVE  Kept
    BY <1>1, <1>6, PollTurn DEF PollApproval
  <1>7. ASSUME NEW t \in Threads, PutRoom(t) \/ PutFull(t) \/ \E v \in Ids : PutVictim(t, v)
        PROVE  Kept
    BY <1>1, <1>7, PutTurn DEF PutRoom, PutFull, PutVictim
  <1>8. ASSUME NEW t \in Threads, Evict(t) \/ Write(t)
        PROVE  Kept
    BY <1>8, EvictTurn, WriteTurn
  <1>9. CASE Restart
    BY <1>9, RestartTurn
  <1>10. CASE Tick \/ UNCHANGED vars
    BY <1>10, QuietTurn DEF Tick, vars
  <1> QED
    BY <1>2, <1>3, <1>4, <1>5, <1>6, <1>7, <1>8, <1>9, <1>10 DEF Next

-----------------------------------------------------------------------------
(* The abstract life of an approval: what each step does to the store's     *)
(* states, while requests are served in turn.                               *)

\* A step that leaves states, openings and spends alone is a stutter.
LEMMA Stutters ==
    ASSUME UNCHANGED <<rows, opened, spends>> PROVE UNCHANGED Lifecycle!vars
  BY DEF Lifecycle!vars

LEMMA EvictionDrops ==
    ASSUME TInv, overlaps = {}, NEW t \in Threads, Evict(t)
    PROVE  \E i \in Ids : Lifecycle!Live(i)
  <1> DEFINE v == job[t].victim
  <1> TypeOK
    BY DEF TInv, IInv
  <1>0. PICK i \in Ids : i = v
    BY DEF TInv, InTurn, Busy, Carries, Evict, Spent, Live
  <1>1. rows[v].state \notin {"absent", "pending"}
    BY DEF TInv, InTurn, Busy, Carries, Evict, Spent, Live
  <1>2. rows' = [rows EXCEPT ![v] = NoRecord] /\ UNCHANGED <<opened, spends>>
    BY DEF Evict
  <1>3. [k \in Ids |-> rows'[k].state] = [[k \in Ids |-> rows[k].state] EXCEPT ![i] = "absent"]
    BY <1>0, <1>1, <1>2 DEF TypeOK, NoRecord
  <1>4. Lifecycle!Drop(i)
    BY <1>0, <1>1, <1>2, <1>3 DEF Lifecycle!Drop
  <1> QED
    BY <1>4 DEF Lifecycle!Live

LEMMA WriteLives ==
    ASSUME TInv, overlaps = {}, NEW t \in Threads, Write(t)
    PROVE  (\E i \in Ids : Lifecycle!Live(i)) \/ UNCHANGED Lifecycle!vars
  <1> DEFINE j == job[t]
             state == [k \in Ids |-> rows[k].state]
             asked == {o.id : o \in opened}
  <1> TypeOK /\ JobSound(t) /\ DrawnOnce(j.id) /\ SpentOnce(j.id)
    BY DEF TInv, IInv, Write, JobSound
  <1>0. PICK i \in Ids : i = j.id
    BY DEF TInv, IInv, Write, JobSound
  <1>1. /\ j \in Job /\ j.pc = "write" /\ j.id \in Ids /\ On(t, j.id)
        /\ rows' = [rows EXCEPT ![j.id] = j.rec] /\ rows \in [Ids -> Record]
    BY DEF TypeOK, JobSound, Write, On, Busy
  <1>2. Carries(t) /\ spends[j.id] <= 1 /\ spends \in [Ids -> 0 .. 2]
    BY <1>1 DEF TInv, InTurn, SpentOnce, TypeOK, On
  <1>3. state' = [state EXCEPT ![j.id] = j.rec.state]
    BY <1>1
  <1>4. CASE j.op = "open"
    <2> DEFINE new == [id |-> j.id, digest |-> j.rec.digest, expires |-> j.rec.expires, ask |-> j.ask]
    <2>1. j.rec.state = "pending" /\ ~j.ok /\ j.id \notin asked
      BY <1>1, <1>2, <1>4 DEF JobSound, Carries, DrawnOnce, Asked
    <2>2. opened' = opened \cup {new} /\ new.id = j.id /\ spends' = spends
      BY <1>4, <2>1 DEF Write
    <2> HIDE DEF new
    <2>3. asked' = asked \cup {j.id}
      BY <2>2
    <2>4. Lifecycle!Ask(i)
      BY <1>0, <1>3, <2>1, <2>2, <2>3 DEF Lifecycle!Ask
    <2> QED
      BY <2>4 DEF Lifecycle!Live
  <1>5. CASE j.op # "open"
    <2>1. opened' = opened /\ Follows(state[j.id], j.rec.state, j.ok)
      BY <1>1, <1>2, <1>5 DEF Write, Carries
    <2>2. CASE j.rec.state = state[j.id] /\ ~j.ok
      <3>1. state' = state /\ spends' = spends
        BY <1>1, <1>3, <2>2 DEF Write
      <3> QED
        BY <2>1, <3>1 DEF Lifecycle!vars
    <2>3. CASE state[j.id] = "pending" /\ j.rec.state \in {"approved", "declined"} /\ ~j.ok
      <3>1. Lifecycle!Answer(i)
        BY <1>0, <1>3, <2>1, <2>3 DEF Lifecycle!Answer, Write
      <3> QED
        BY <3>1 DEF Lifecycle!Live
    <2>4. CASE state[j.id] \in {"pending", "approved"} /\ j.rec.state = "expired" /\ ~j.ok
      <3>1. Lifecycle!Expire(i)
        BY <1>0, <1>3, <2>1, <2>4 DEF Lifecycle!Expire, Write
      <3> QED
        BY <3>1 DEF Lifecycle!Live
    <2>5. CASE state[j.id] = "approved" /\ j.rec.state = "consumed" /\ j.ok
      <3>0. spends[j.id] # 2
        BY <1>1, <1>2
      <3>1. spends' = [spends EXCEPT ![j.id] = @ + 1]
        BY <1>1, <1>2, <2>5, <3>0 DEF Write
      <3>2. Lifecycle!Spend(i)
        BY <1>0, <1>3, <2>1, <2>5, <3>1 DEF Lifecycle!Spend
      <3> QED
        BY <3>2 DEF Lifecycle!Live
    <2> QED
      BY <2>1, <2>2, <2>3, <2>4, <2>5 DEF Follows
  <1> QED
    BY <1>4, <1>5

LEMMA StepLives ==
    ASSUME TInv, [Next]_vars, overlaps' = {}
    PROVE  \/ \E i \in Ids : Lifecycle!Live(i)
           \/ UNCHANGED Lifecycle!vars
           \/ Restart /\ Lifecycle!Restart
  <1>1. overlaps' = overlaps \/ \E i \in Ids : overlaps' = Overlapping(i)
    BY DEF Next, vars, OpenApproval, Get, DecideApproval, RedeemApproval,
           PollApproval, PutRoom, PutVictim, PutFull, Evict, Write, Restart, Tick
  <1>6. overlaps = {}
    BY <1>1 DEF Overlapping
  <1>2. CASE \E t \in Threads : Evict(t)
    BY <1>6, <1>2, EvictionDrops
  <1>3. CASE \E t \in Threads : Write(t)
    BY <1>6, <1>3, WriteLives
  <1>4. CASE Restart
    <2>1. [i \in Ids |-> rows'[i].state] = [i \in Ids |-> "absent"]
      BY <1>4 DEF Restart, NoRecord
    <2>2. Lifecycle!Restart
      BY <1>4, <2>1 DEF Restart, Lifecycle!Restart
    <2> QED
      BY <1>4, <2>2
  <1>5. CASE ~(\E t \in Threads : Evict(t) \/ Write(t)) /\ ~Restart
    <2>1. UNCHANGED <<rows, opened, spends>>
      BY <1>5 DEF Next, vars, OpenApproval, Get, DecideApproval, RedeemApproval,
                  PollApproval, PutRoom, PutVictim, PutFull, Tick
    <2> QED
      BY <2>1, Stutters
  <1> QED
    BY <1>2, <1>3, <1>4, <1>5

-----------------------------------------------------------------------------
(* The theorems *)

\* However many threads share the store, every row, every thread's copy and
\* every history stays of its kind.
THEOREM TypeCorrect == Spec => []TypeOK
  <1>1. IInv => TypeOK
    BY DEF IInv
  <1> QED
    BY <1>1, InvInit, InvStep, PTL DEF Spec

\* However the unlocked handlers interleave and whenever the process
\* restarts, no redemption is answered ok unless that very payment was asked
\* about on a HOLD, somebody answered yes, and the window was still open.
THEOREM RedemptionIsSound == Spec => []RedemptionSound
  <1>1. IInv => RedemptionSound
    BY DEF IInv
  <1> QED
    BY <1>1, InvInit, InvStep, PTL DEF Spec

\* For any number of threads and any limit: an approval that nobody asked about while
\* another request was being served is redeemed at most once, however often its row
\* is evicted, put back or lost to a restart; and until two requests overlap the
\* store keeps its limit.
THEOREM StoreIsSound == Spec => []StoreSound
  <1>1. TInv => StoreSound
    BY DEF TInv, InTurn, SpentOnce, StoreSound, SingleUseInTurn, StoreBounded
  <1> QED
    BY <1>1, TurnInit, TurnStep, PTL DEF Spec

\* Served in turn, the get / compute / put handlers implement the atomic life of an
\* approval: every step is one of its transitions or none, and only a restart empties
\* the store.
THEOREM LifecycleIsImplemented == Spec => ImplementsLifecycle
  <1>1. Init => Lifecycle!Init
    <2> SUFFICES ASSUME Init PROVE Lifecycle!Init
      OBVIOUS
    <2>1. [i \in Ids |-> rows[i].state] = [i \in Ids |-> "absent"]
      BY DEF Init, NoRecord
    <2> QED
      BY <2>1 DEF Init, Lifecycle!Init
  <1>2. TInv /\ [Next]_vars
           => [overlaps' = {} => \/ \E i \in Ids : Lifecycle!Live(i)
                                 \/ UNCHANGED Lifecycle!vars
                                 \/ Restart /\ Lifecycle!Restart]_vars
    BY StepLives
  <1> QED
    BY <1>1, <1>2, TurnInit, TurnStep, PTL DEF Spec, ImplementsLifecycle
=============================================================================
