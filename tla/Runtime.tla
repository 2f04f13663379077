------------------------------- MODULE Runtime -------------------------------
(***************************************************************************)
(* What the process does by itself: main boots and is stopped, the RPC node *)
(* coalesces and caches calls, the reputation store ingests, and a Solana   *)
(* history is walked.  They share no state their properties speak of: one   *)
(* of them runs in a behaviour, the others stay as they began.              *)
(***************************************************************************)
EXTENDS ReputationStore

CONSTANTS Threads, Keys, TTL, MaxEntries, Wait, Lag,   \* of RpcNode
          Deployments,                                 \* of Boot
          Movements, MaxHistory, Limit, MaxPages, Tries    \* of SolanaBackfill

\* A cache has room for an entry, an account's transaction lowered the balance of
\* whoever really paid, and a call is tried at least once.
ASSUME RuntimeAssumption ==
    /\ TTL \in Nat /\ MaxEntries \in Nat \ {0} /\ Wait \in Nat /\ Lag \in Nat
    /\ \A k \in Movements : k.delta \in Int /\ IsFiniteSet(k.fell) /\ k.payer \in k.fell
    /\ MaxHistory \in Nat /\ Limit \in Nat /\ MaxPages \in Nat /\ Tries \in Nat \ {0}

VARIABLES part,
          cache, inflight, rpcTh, served,                          \* RpcNode
          env, stage, wired, banner, screens, mirror, code, drained, said,  \* Boot
          history, top, before, seen, pages, attempt, pc, todo, result      \* SolanaBackfill

nodeVars == <<cache, inflight, rpcTh, served>>
bootVars == <<env, stage, wired, banner, screens, mirror, code, drained, said>>
walkVars == <<history, top, before, seen, pages, attempt, pc, todo, result>>

N == INSTANCE RpcNode WITH th <- rpcTh
B == INSTANCE Boot
W == INSTANCE SolanaBackfill WITH Kinds <- Movements

all == <<part, storeVars, nodeVars, bootVars, walkVars>>

RuntimeInit ==
    /\ part \in {"store", "node", "boot", "walk"}
    /\ StoreInit /\ N!Init /\ B!Init /\ W!Init
    /\ part # "boot" => env = {}
    /\ part # "walk" => history = <<>>
    /\ part # "store" => schema = "payer_key"

RuntimeNext ==
    /\ UNCHANGED part
    /\ \/ part = "store" /\ StoreNext /\ UNCHANGED <<nodeVars, bootVars, walkVars>>
       \/ part = "node" /\ N!Next /\ UNCHANGED <<storeVars, bootVars, walkVars>>
       \/ part = "boot" /\ B!Next /\ UNCHANGED <<storeVars, nodeVars, walkVars>>
       \/ part = "walk" /\ W!Next /\ UNCHANGED <<storeVars, nodeVars, bootVars>>

\* The fairness of each part, for the part that runs.
RuntimeFairness ==
    /\ WF_storeVars(part = "store" /\ Tick)
    /\ \A p \in Payees : SF_storeVars(part = "store" /\ LookupIngests(p))
    /\ SF_nodeVars(part = "node" /\ N!Tick)
    /\ \A t \in Threads : WF_nodeVars(part = "node" /\ N!Local(t))
    /\ WF_bootVars(part = "boot" /\ B!Drain)
    /\ WF_walkVars(part = "walk" /\ W!Walk)

RuntimeSpec == RuntimeInit /\ [][RuntimeNext]_all /\ RuntimeFairness

-----------------------------------------------------------------------------
RuntimeTypeOK == StoreTypeOK /\ N!TypeOK /\ B!TypeOK /\ W!TypeOK

\* What the process may never do: send the same call to the node's upstream twice at
\* once, serve an old or a failed answer, credit a payee with what it was not paid,
\* return part of a history as the whole, or serve otherwise than its configuration,
\* its boot lines, its descriptor and its OpenAPI document say.
RuntimeSound ==
    /\ N!OneCallAtATime /\ N!ServedFresh
    /\ NothingInvented
    /\ W!ReturnedIsWhole /\ W!SignaturesAccounted /\ W!NamedBuyersPaid
    /\ B!BootSound

\* What it must do in the end: a caller waiting for another's call goes on, a settlement
\* comes to be known and stays known, a walk ends, and a service told to stop ends.
RuntimeGoesOn == N!FollowersEnd /\ EventuallyKnown /\ RowsAreKept /\ W!WalkEnds /\ B!SigtermEnds
=============================================================================
