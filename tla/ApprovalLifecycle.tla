------------------------- MODULE ApprovalLifecycle -------------------------
(***************************************************************************)
(* What approvals.py promises of one approval, with no threads in it: the  *)
(* life of an approval as a single atomic state machine.  A row is asked   *)
(* about, answered once, spent at most once, and every terminal state is   *)
(* final; a row may leave the store only when nobody is waiting on it (an  *)
(* eviction) or when the whole process restarts.                           *)
(*                                                                         *)
(* Approvals implements this specification as long as requests are served  *)
(* one after the other, and does not when two overlap.                     *)
(***************************************************************************)
EXTENDS Naturals

CONSTANT Ids

VARIABLES state,    \* state[i]: what the store holds under the id i
          asked,    \* the ids ever stored
          spends    \* spends[i]: successful redemptions of i

vars == <<state, asked, spends>>

Init == /\ state = [i \in Ids |-> "absent"]
        /\ asked = {}
        /\ spends = [i \in Ids |-> 0]

Ask(i) == /\ i \notin asked
          /\ asked' = asked \cup {i}
          /\ state' = [state EXCEPT ![i] = "pending"]
          /\ UNCHANGED spends

Answer(i) == /\ state[i] = "pending"
             /\ \E s \in {"approved", "declined"} : state' = [state EXCEPT ![i] = s]
             /\ UNCHANGED <<asked, spends>>

Expire(i) == /\ state[i] \in {"pending", "approved"}
             /\ state' = [state EXCEPT ![i] = "expired"]
             /\ UNCHANGED <<asked, spends>>

Spend(i) == /\ state[i] = "approved"
            /\ state' = [state EXCEPT ![i] = "consumed"]
            /\ spends' = [spends EXCEPT ![i] = @ + 1]
            /\ UNCHANGED asked

\* Making room never costs anybody a question still waiting for its answer.
Drop(i) == /\ state[i] \notin {"absent", "pending"}
           /\ state' = [state EXCEPT ![i] = "absent"]
           /\ UNCHANGED <<asked, spends>>

Restart == /\ state' = [i \in Ids |-> "absent"]
           /\ UNCHANGED <<asked, spends>>

Live(i) == Ask(i) \/ Answer(i) \/ Expire(i) \/ Spend(i) \/ Drop(i)

Next == Restart \/ \E i \in Ids : Live(i)

Spec == Init /\ [][Next]_vars
=============================================================================
