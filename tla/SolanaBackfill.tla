--------------------------- MODULE SolanaBackfill ---------------------------
(***************************************************************************)
(* solana_backfill.py: the settlement history of one Solana payee, read    *)
(* backwards page by page from public RPC nodes while the payee goes on    *)
(* being paid.  A page may come back short although more history remains;  *)
(* every call is tried on one endpoint after another and may still fail.   *)
(*                                                                         *)
(* A transaction is [delta, fell, payer]: the change of the payee's USDC   *)
(* balance (0 for another mint or a failed transaction), the owners whose  *)
(* balance fell, and which of them really paid (known to nobody).          *)
(***************************************************************************)
EXTENDS Integers, Sequences, FiniteSets, FiniteSetsExt

CONSTANTS Kinds,       \* the transactions that can touch the token account
          MaxHistory,  \* bound: transactions on the chain
          Limit,       \* SIGNATURE_PAGE_LIMIT
          MaxPages,    \* MAX_PAGES
          Tries        \* attempts of one RPC call, over the endpoints in turn

VARIABLES history,  \* the chain's transactions of the account, oldest first
          top,      \* Len(history) when the first page was served
          before,   \* cursor: the oldest position absorbed, 0 before the first page
          seen,     \* positions absorbed
          pages,    \* pages absorbed
          attempt,  \* failed attempts of the call under way
          pc,       \* "idle", "page", "confirm", "fetch", "done", "incomplete"
          todo,     \* signatures whose transaction is still to be fetched
          result    \* [payments, skipped, failed]

vars == <<history, top, before, seen, pages, attempt, pc, todo, result>>

None == "none"
NoResult == [payments |-> {}, skipped |-> 0, failed |-> {}]

-----------------------------------------------------------------------------
(* Reading one transaction.                                                *)

UsdcDelta(tx) == tx.delta

\* Only a transaction that drew on exactly one other account names its payer.
PayerOf(tx) == IF Cardinality(tx.fell) = 1 THEN CHOOSE o \in tx.fell : TRUE ELSE None

NormalizePayment(n) ==
    IF UsdcDelta(history[n]) > 0
    THEN {[sig |-> n, payer |-> PayerOf(history[n]), amount |-> UsdcDelta(history[n])]}
    ELSE {}

\* to_graph: the buyers a payee is known to have; an unnamed payer adds only volume.
Buyers == {p.payer : p \in result.payments} \ {None}

-----------------------------------------------------------------------------
\* The payee is paid (or something else happens on the account) at any time.
Paid(k) ==
    /\ Len(history) < MaxHistory
    /\ history' = Append(history, k)
    /\ UNCHANGED <<top, before, seen, pages, attempt, pc, todo, result>>

\* token_account answers; an owner without one has no history to walk.
Start(account) ==
    /\ pc = "idle"
    /\ pc' = IF account THEN "page" ELSE "done"
    /\ UNCHANGED <<history, top, before, seen, pages, attempt, todo, result>>

\* What is older than the cursor; the first request has no cursor.
Older == IF before = 0 /\ pages = 0 THEN DOMAIN history ELSE 1..(before - 1)

\* A page: the newest of them, at most Limit, possibly fewer.
Served == {s \in SUBSET Older :
              /\ s # {} /\ Cardinality(s) <= Limit
              /\ \A n \in Older : n >= Min(s) => n \in s}

Absorb(page) ==
    /\ seen' = seen \cup page
    /\ before' = Min(page)
    /\ top' = IF pages = 0 THEN Len(history) ELSE top
    /\ pages' = pages + 1
    /\ attempt' = 0

Exhausted ==
    /\ pc' = "fetch"
    /\ todo' = seen
    /\ attempt' = 0
    /\ UNCHANGED <<history, top, before, seen, pages, result>>

\* An empty page is the end; a short one is confirmed before it is believed.
GetPage ==
    /\ pc = "page" /\ pages < MaxPages
    /\ IF Older = {} THEN Exhausted
       ELSE \E page \in Served :
              /\ Absorb(page)
              /\ pc' = IF Cardinality(page) < Limit THEN "confirm" ELSE "page"
              /\ UNCHANGED <<history, todo, result>>

Confirm ==
    /\ pc = "confirm"
    /\ IF Older = {} THEN Exhausted
       ELSE \E page \in Served :
              /\ Absorb(page)
              /\ pc' = "page"
              /\ UNCHANGED <<history, todo, result>>

\* while pages < max_pages ... raise IncompleteHistory.
HitCap ==
    /\ pc = "page" /\ pages >= MaxPages
    /\ pc' = "incomplete"
    /\ UNCHANGED <<history, top, before, seen, pages, attempt, todo, result>>

\* One endpoint fails or answers with an error: the next is tried; when all
\* tries are spent a page raises IncompleteHistory, a transaction is listed as
\* failed and the walk goes on.
CallFails ==
    /\ pc \in {"page", "confirm", "fetch"}
    /\ pc = "page" => pages < MaxPages
    /\ pc = "fetch" => todo # {}
    /\ \/ /\ attempt + 1 < Tries
          /\ attempt' = attempt + 1
          /\ UNCHANGED <<pc, todo, result>>
       \/ /\ attempt + 1 = Tries
          /\ attempt' = 0
          /\ IF pc = "fetch"
             THEN /\ todo' = todo \ {Max(todo)}
                  /\ result' = [result EXCEPT !.failed = @ \cup {Max(todo)}]
                  /\ UNCHANGED pc
             ELSE /\ pc' = "incomplete"
                  /\ UNCHANGED <<todo, result>>
    /\ UNCHANGED <<history, top, before, seen, pages>>

\* getTransaction of the newest signature left.
FetchPayment ==
    /\ pc = "fetch" /\ todo # {}
    /\ LET n == Max(todo) IN
       /\ todo' = todo \ {n}
       /\ result' = IF NormalizePayment(n) = {}
                    THEN [result EXCEPT !.skipped = @ + 1]
                    ELSE [result EXCEPT !.payments = @ \cup NormalizePayment(n)]
    /\ attempt' = 0
    /\ UNCHANGED <<history, top, before, seen, pages, pc>>

Finish ==
    /\ pc = "fetch" /\ todo = {}
    /\ pc' = "done"
    /\ UNCHANGED <<history, top, before, seen, pages, attempt, todo, result>>

Init ==
    /\ history \in UNION {[1..n -> Kinds] : n \in 0..(MaxHistory - 1)}
    /\ top = 0 /\ before = 0 /\ seen = {} /\ pages = 0 /\ attempt = 0
    /\ pc = "idle" /\ todo = {} /\ result = NoResult

Walk == GetPage \/ Confirm \/ HitCap \/ CallFails \/ FetchPayment \/ Finish

Next == (\E k \in Kinds : Paid(k)) \/ (\E a \in BOOLEAN : Start(a)) \/ Walk

Fairness == WF_vars(Walk)

Spec == Init /\ [][Next]_vars /\ Fairness

-----------------------------------------------------------------------------
TypeOK ==
    /\ history \in Seq(Kinds) /\ Len(history) <= MaxHistory
    /\ top \in 0..MaxHistory /\ before \in 0..MaxHistory
    /\ seen \subseteq DOMAIN history /\ todo \subseteq seen
    /\ pages \in 0..(MaxPages + 1) /\ attempt \in 0..(Tries - 1)
    /\ pc \in {"idle", "page", "confirm", "fetch", "done", "incomplete"}
    /\ result.failed \subseteq seen
    /\ result.skipped \in 0..MaxHistory

\* A history that is returned reaches back to the first transaction and misses
\* none up to the moment the walk began: short pages, retries and payments that
\* arrive meanwhile included (collect_signatures, "never returns a truncated
\* list that reads as the whole record").
ReturnedIsWhole == pc \in {"fetch", "done"} /\ pages > 0 => seen = 1..top

\* Every signature of a returned history is accounted for once: a payment, a
\* skipped transaction or a failed fetch that the record names.
SignaturesAccounted ==
    pc = "done" =>
      /\ Cardinality(result.payments) + result.skipped + Cardinality(result.failed) = Cardinality(seen)
      /\ {p.sig : p \in result.payments} =
             {n \in seen \ result.failed : history[n].delta > 0}

\* The buyers the graph credits a payee with all really paid it: a transaction
\* that drew on several accounts names nobody (payer_of).
NamedBuyersPaid == Buyers \subseteq {history[n].payer : n \in {m \in seen : history[m].delta > 0}}

\* A walk that has begun ends, whatever the nodes answer.
WalkEnds == pc # "idle" ~> pc \in {"done", "incomplete"}
=============================================================================
