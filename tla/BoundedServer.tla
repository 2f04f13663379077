--------------------------- MODULE BoundedServer ---------------------------
(***************************************************************************)
(* bounded_server.BoundedThreadingHTTPServer: admission by a semaphore on  *)
(* the accept loop, refusals handed to capped threads that look a second   *)
(* time for a health check, and the permit and slot accounting of both.    *)
(***************************************************************************)
EXTENDS Integers, FiniteSets

CONSTANTS Connections, \* the ones clients open
          Health,      \* the ones that send GET /healthz
          MaxInflight, \* max_inflight
          MaxRefuse,   \* MAX_REFUSE_THREADS
          MaxExempt    \* MAX_EXEMPT_INFLIGHT

ASSUME ServerAssumption ==
          /\ Health \subseteq Connections
          /\ MaxInflight \in Nat \ {0} /\ MaxRefuse \in Nat /\ MaxExempt \in Nat
          /\ IsFiniteSet(Connections)

VARIABLES where,     \* where[c]: where connection c is
          outcome,   \* outcome[c]: what its client has got
          permits,   \* self._permits
          refusing,  \* self._refusing
          exempt,    \* self._exempt
          shedCount, \* self.shed_count
          arrived,   \* connections whose request line has reached the kernel
          unread     \* refused connections with inbound data still to drain

serverVars == <<where, outcome, permits, refusing, exempt, shedCount, arrived, unread>>
client == <<arrived, unread>>

Holding == {"starting", "serving", "releasing"}               \* of a permit
Refusal == {"spawning", "recheck", "exempt", "refuse", "draining", "returning"}
OnLoop == {"starting", "shedding", "spawning"}               \* on the accept thread
Places == {"backlog", "shedding", "closed"} \cup Holding \cup Refusal

Outcomes == {"none", "answered", "busy", "reset"}

Go(c, q) == where' = [where EXCEPT ![c] = q]

Got(c, o) == outcome' = [outcome EXCEPT ![c] = o]

LoopIdle == \A c \in Connections : where[c] \notin OnLoop

-----------------------------------------------------------------------------
(* process_request, on the accept loop *)

Admit(c) ==
    /\ LoopIdle /\ where[c] = "backlog"
    /\ permits > 0
    /\ permits' = permits - 1
    /\ Go(c, "starting")
    /\ UNCHANGED <<outcome, refusing, exempt, shedCount, client>>

ThreadStarts(c) ==
    /\ where[c] = "starting"
    /\ Go(c, "serving")
    /\ UNCHANGED <<outcome, permits, refusing, exempt, shedCount, client>>

\* Mutant of ThreadFails: the permit of a thread that never started is kept.
ThreadFailsKeepsPermit(c) ==
    /\ where[c] = "starting"
    /\ Go(c, "closed") /\ Got(c, "reset")
    /\ UNCHANGED <<permits, refusing, exempt, shedCount, client>>

\* start() raised: release, and socketserver closes the connection.
ThreadFails(c) ==
    /\ where[c] = "starting"
    /\ permits' = permits + 1
    /\ Go(c, "closed") /\ Got(c, "reset")
    /\ UNCHANGED <<refusing, exempt, shedCount, client>>

ShedRequest(c) ==
    /\ LoopIdle /\ where[c] = "backlog"
    /\ permits = 0
    /\ shedCount' = shedCount + 1
    /\ Go(c, "shedding")
    /\ UNCHANGED <<outcome, permits, refusing, exempt, client>>

\* _start_refusal, up to the new thread.
TakeRefusalSlot(c) ==
    /\ where[c] = "shedding"
    /\ refusing < MaxRefuse
    /\ refusing' = refusing + 1
    /\ Go(c, "spawning")
    /\ UNCHANGED <<outcome, permits, exempt, shedCount, client>>

RefusalStarts(c) ==
    /\ where[c] = "spawning"
    /\ Go(c, "recheck")
    /\ UNCHANGED <<outcome, permits, refusing, exempt, shedCount, client>>

RefusalThreadFails(c) ==
    /\ where[c] = "spawning"
    /\ refusing' = refusing - 1
    /\ Go(c, "closed") /\ Got(c, "reset")
    /\ UNCHANGED <<permits, exempt, shedCount, client>>

\* Mutant of OverTheCap: the accept loop waits for a refusal slot.
WaitForSlot(c) ==
    /\ where[c] = "shedding"
    /\ refusing < MaxRefuse
    /\ UNCHANGED serverVars

\* _start_refusal returned False at the cap: close now.
OverTheCap(c) ==
    /\ where[c] = "shedding"
    /\ refusing >= MaxRefuse
    /\ Go(c, "closed") /\ Got(c, "reset")
    /\ UNCHANGED <<permits, refusing, exempt, shedCount, client>>

-----------------------------------------------------------------------------
(* process_request_thread *)

Answer(c) ==
    /\ where[c] = "serving"
    /\ Go(c, "releasing") /\ Got(c, "answered")
    /\ UNCHANGED <<permits, refusing, exempt, shedCount, client>>

ReleasePermit(c) ==
    /\ where[c] = "releasing"
    /\ permits' = permits + 1
    /\ Go(c, "closed")
    /\ UNCHANGED <<outcome, refusing, exempt, shedCount, client>>

-----------------------------------------------------------------------------
(* _refuse_and_close, on a refusal thread *)

IsExempt(c) == c \in Health /\ c \in arrived

RecheckServes(c) ==
    /\ where[c] = "recheck"
    /\ IsExempt(c)
    /\ exempt < MaxExempt
    /\ exempt' = exempt + 1
    /\ Go(c, "exempt")
    /\ UNCHANGED <<outcome, permits, refusing, shedCount, client>>

\* Not a health check, its line late (EXEMPT_RECHECK_SECONDS), or no exempt slot.
RecheckRefuses(c) ==
    /\ where[c] = "recheck"
    /\ IsExempt(c) => exempt >= MaxExempt
    /\ Go(c, "refuse")
    /\ UNCHANGED <<outcome, permits, refusing, exempt, shedCount, client>>

\* Mutant of ServeExempt: it goes through process_request_thread, which
\* releases a permit this connection never took.
ServeExemptReleases(c) ==
    /\ where[c] = "exempt"
    /\ exempt' = exempt - 1
    /\ permits' = permits + 1
    /\ Go(c, "returning") /\ Got(c, "answered")
    /\ UNCHANGED <<refusing, shedCount, client>>

ServeExempt(c) ==
    /\ where[c] = "exempt"
    /\ exempt' = exempt - 1
    /\ Go(c, "returning") /\ Got(c, "answered")
    /\ UNCHANGED <<permits, refusing, shedCount, client>>

\* _refuse: the 503 is written and our side is half closed.
SendBusy(c) ==
    /\ where[c] = "refuse"
    /\ Go(c, "draining") /\ Got(c, "busy")
    /\ UNCHANGED <<permits, refusing, exempt, shedCount, client>>

\* OSError: the client is gone.
ClientGone(c) ==
    /\ where[c] = "refuse"
    /\ Go(c, "returning") /\ Got(c, "reset")
    /\ UNCHANGED <<permits, refusing, exempt, shedCount, client>>

DrainReads(c) ==
    /\ where[c] = "draining"
    /\ c \in unread
    /\ unread' = unread \ {c}
    /\ UNCHANGED <<where, outcome, permits, refusing, exempt, shedCount, arrived>>

\* recv saw the end of the stream or REFUSE_DRAIN_SECONDS without a byte.
DrainEnds(c) ==
    /\ where[c] = "draining"
    /\ c \notin unread
    /\ Go(c, "returning")
    /\ UNCHANGED <<outcome, permits, refusing, exempt, shedCount, client>>

\* The finally of _refuse_and_close.
ReturnSlot(c) ==
    /\ where[c] = "returning"
    /\ refusing' = refusing - 1
    /\ Go(c, "closed")
    /\ UNCHANGED <<outcome, permits, exempt, shedCount, client>>

-----------------------------------------------------------------------------
(* External: the clients *)

LineArrives(c) ==
    /\ c \notin arrived /\ where[c] # "closed"
    /\ arrived' = arrived \cup {c}
    /\ UNCHANGED <<where, outcome, permits, refusing, exempt, shedCount, unread>>

ClientSends(c) ==
    /\ where[c] = "draining" /\ c \notin unread
    /\ unread' = unread \cup {c}
    /\ UNCHANGED <<where, outcome, permits, refusing, exempt, shedCount, arrived>>

-----------------------------------------------------------------------------

ServerInit ==
    /\ where = [c \in Connections |-> "backlog"]
    /\ outcome = [c \in Connections |-> "none"]
    /\ permits = MaxInflight /\ refusing = 0 /\ exempt = 0 /\ shedCount = 0
    /\ arrived = {} /\ unread = {}

AcceptLoop(c) ==
    \/ Admit(c) \/ ThreadStarts(c) \/ ThreadFails(c)
    \/ ShedRequest(c) \/ TakeRefusalSlot(c) \/ RefusalStarts(c) \/ RefusalThreadFails(c) \/ OverTheCap(c)

Handler(c) == Answer(c) \/ ReleasePermit(c)

RefusalThread(c) ==
    \/ RecheckServes(c) \/ RecheckRefuses(c) \/ ServeExempt(c)
    \/ SendBusy(c) \/ ClientGone(c) \/ DrainReads(c) \/ DrainEnds(c) \/ ReturnSlot(c)

Client(c) == LineArrives(c) \/ ClientSends(c)

\* Every connection has been dealt with.
Quiet == (\A c \in Connections : where[c] = "closed") /\ UNCHANGED serverVars

ServerNext == Quiet \/ \E c \in Connections : AcceptLoop(c) \/ Handler(c) \/ RefusalThread(c) \/ Client(c)

ServerSpec == ServerInit /\ [][ServerNext]_serverVars

\* The accept loop never waits for a client, and neither kind of thread stops
\* taking steps.  Nothing is assumed of the clients, nor that a handler ends.
ServerFairSpec ==
    /\ ServerSpec
    /\ \A c \in Connections : WF_serverVars(AcceptLoop(c)) /\ WF_serverVars(RefusalThread(c))

-----------------------------------------------------------------------------
(* Properties *)

ServerTypeOK ==
    /\ where \in [Connections -> Places]
    /\ outcome \in [Connections -> Outcomes]
    /\ permits \in 0 .. MaxInflight
    /\ refusing \in 0 .. MaxRefuse
    /\ exempt \in 0 .. MaxExempt
    /\ shedCount \in 0 .. Cardinality(Connections)
    /\ arrived \subseteq Connections /\ unread \subseteq Connections

At(S) == {c \in Connections : where[c] \in S}

\* However a request ends -- served, never started, exempt, refused -- the ceiling
\* neither ratchets down (a permit lost) nor up (a permit given back by a request
\* that took none), and the same holds of the refusal and the exempt slots.
SlotsConserved ==
    /\ permits + Cardinality(At(Holding)) = MaxInflight
    /\ refusing = Cardinality(At(Refusal))
    /\ exempt = Cardinality(At({"exempt"}))

\* Refusing never stalls the door: a waiting connection is accepted and decided
\* whatever the clients being refused do, all refusal threads held included.
DoorStaysOpen ==
    \A c \in Connections : (where[c] = "backlog") ~> (where[c] \notin OnLoop \cup {"backlog"})
=============================================================================
