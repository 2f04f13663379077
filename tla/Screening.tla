------------------------------ MODULE Screening ------------------------------
(***************************************************************************)
(* sanctions.py in the running service: the baked-in list, the background  *)
(* thread that merges the published one while requests are served, the     *)
(* descriptor that advertises screening, and a forecast, which asks the    *)
(* list twice: before billing (is_compliance_free) and for the verdict.    *)
(***************************************************************************)
EXTENDS Integers, FiniteSets

CONSTANTS Addresses, Threads,
          Feeds    \* what the publisher may publish: sets of addresses

VARIABLES snapshot,  \* the addresses of the baked-in file
          feed,      \* what is published now
          up,
          list,      \* SanctionsList._set of the running process
          refresh,   \* the background thread: "none", "fetch", "merge", "done"
          merging,   \* addresses it has parsed and not yet added
          ever,      \* every address in the list since this boot
          said,      \* the descriptor advertised screening since this boot
          th         \* of each thread: [pc, addr, free, paid, verdict]

vars == <<snapshot, feed, up, list, refresh, merging, ever, said, th>>

Idle == [pc |-> "idle", addr |-> "none", free |-> FALSE, paid |-> FALSE, verdict |-> "none"]

\* main: the file, then, if configured, the background refresh; the socket is bound
\* either way.
Boot(configured) ==
    /\ ~ up /\ up' = TRUE
    /\ list' = snapshot /\ ever' = snapshot
    /\ refresh' = IF configured THEN "fetch" ELSE "none"
    /\ merging' = {} /\ said' = FALSE
    /\ UNCHANGED <<snapshot, feed, th>>

\* The published list changes: designations and de-listings.
Publish(f) ==
    /\ feed' = f
    /\ UNCHANGED <<snapshot, up, list, refresh, merging, ever, said, th>>

\* refresh_from_url has the whole body.
Fetch ==
    /\ up /\ refresh = "fetch"
    /\ refresh' = "merge" /\ merging' = feed
    /\ UNCHANGED <<snapshot, feed, up, list, ever, said, th>>

\* A network error, or a body above the cap: the current list is kept.
FetchFails ==
    /\ up /\ refresh = "fetch"
    /\ refresh' = "done"
    /\ UNCHANGED <<snapshot, feed, up, list, merging, ever, said, th>>

\* One add of the merge; requests run between them.
Merge(a) ==
    /\ up /\ refresh = "merge" /\ a \in merging
    /\ list' = list \cup {a} /\ ever' = ever \cup {a}
    /\ merging' = merging \ {a}
    /\ UNCHANGED <<snapshot, feed, up, refresh, said, th>>

MergeDone ==
    /\ up /\ refresh = "merge" /\ merging = {}
    /\ refresh' = "done"
    /\ UNCHANGED <<snapshot, feed, up, list, merging, ever, said, th>>

\* GET /.well-known/x402: screening is advertised while the list is not empty.
Descriptor ==
    /\ up
    /\ said' = (said \/ list # {})
    /\ UNCHANGED <<snapshot, feed, up, list, refresh, merging, ever, th>>

-----------------------------------------------------------------------------
Forecast(t, a) ==
    /\ up /\ th[t].pc = "idle"
    /\ th' = [th EXCEPT ![t] = [Idle EXCEPT !.pc = "check", !.addr = a]]
    /\ UNCHANGED <<snapshot, feed, up, list, refresh, merging, ever, said>>

\* is_compliance_free: a listed counterparty skips the billing gate.
Check(t) ==
    /\ th[t].pc = "check"
    /\ th' = [th EXCEPT ![t].pc = IF th[t].addr \in list THEN "verdict" ELSE "bill",
                        ![t].free = th[t].addr \in list]
    /\ UNCHANGED <<snapshot, feed, up, list, refresh, merging, ever, said>>

\* The billing gate lets the request through, or answers 402 itself.
Bill(t, pays) ==
    /\ th[t].pc = "bill"
    /\ th' = [th EXCEPT ![t] = IF pays THEN [@ EXCEPT !.pc = "verdict", !.paid = TRUE] ELSE Idle]
    /\ UNCHANGED <<snapshot, feed, up, list, refresh, merging, ever, said>>

\* SanctionsScreeningSource.lookup marks a listed counterparty; that is a STOP.
Verdict(t) ==
    /\ th[t].pc = "verdict"
    /\ th' = [th EXCEPT ![t].pc = "answered",
                        ![t].verdict = IF th[t].addr \in list THEN "STOP" ELSE "GO"]
    /\ UNCHANGED <<snapshot, feed, up, list, refresh, merging, ever, said>>

Answered(t) ==
    /\ th[t].pc = "answered"
    /\ th' = [th EXCEPT ![t] = Idle]
    /\ UNCHANGED <<snapshot, feed, up, list, refresh, merging, ever, said>>

\* A redeploy: what the refresh added is gone.
Restart ==
    /\ up /\ up' = FALSE
    /\ list' = {} /\ ever' = {} /\ merging' = {} /\ refresh' = "none" /\ said' = FALSE
    /\ th' = [t \in Threads |-> Idle]
    /\ UNCHANGED <<snapshot, feed>>

Init ==
    /\ snapshot \in SUBSET Addresses /\ feed \in Feeds
    /\ up = FALSE /\ list = {} /\ refresh = "none" /\ merging = {}
    /\ ever = {} /\ said = FALSE
    /\ th = [t \in Threads |-> Idle]

Next ==
    \/ \E b \in BOOLEAN : Boot(b)
    \/ \E f \in Feeds : Publish(f)
    \/ Fetch \/ FetchFails \/ MergeDone \/ Descriptor \/ Restart
    \/ \E a \in Addresses : Merge(a)
    \/ \E t \in Threads, a \in Addresses : Forecast(t, a)
    \/ \E t \in Threads, pays \in BOOLEAN : Bill(t, pays)
    \/ \E t \in Threads : Check(t) \/ Verdict(t) \/ Answered(t)

Spec == Init /\ [][Next]_vars

-----------------------------------------------------------------------------
TypeOK ==
    /\ list \subseteq Addresses /\ ever \subseteq Addresses /\ merging \subseteq Addresses
    /\ refresh \in {"none", "fetch", "merge", "done"}
    /\ \A t \in Threads : th[t].pc \in {"idle", "check", "bill", "verdict", "answered"}

\* The compliance check gives nothing away: a forecast served without payment is a
\* STOP, although the list is read once for the price and once for the verdict.
FreeIsStop ==
    \A t \in Threads : th[t].pc = "answered" /\ ~ th[t].paid => th[t].verdict = "STOP"

\* Screening never weakens while a process runs: whatever the list held since the
\* boot it still holds, and once advertised it is not empty, whatever the publisher
\* de-lists and however a refresh ends.
ScreeningKept == up => snapshot \cup ever \subseteq list /\ (said => list # {})
=============================================================================
