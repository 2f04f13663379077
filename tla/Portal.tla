------------------------------- MODULE Portal --------------------------------
(***************************************************************************)
(* seller_portal.py and seller_report.py: visitors ask for the report of a *)
(* payee address or of a host; a handler thread looks the key up in the    *)
(* committed directory, probes the seller's endpoints unless they were     *)
(* probed a short while ago, assesses what it found and caches the report  *)
(* under the key.                                                          *)
(*                                                                         *)
(* The cooldown map is read before the probe and written after it, and     *)
(* nothing locks it.  Whether an endpoint answers is chosen at each        *)
(* contact.                                                                *)
(***************************************************************************)
EXTENDS Subsequences, SequencesExt, FiniteSetsExt

CONSTANTS Threads,
          Keys,         \* what visitors ask for
          Rows,         \* the directory: [payee, hosts, settlements, id, asset, verdict, cross, price]
          TTL,          \* CACHE_TTL, in ticks
          CacheMax,     \* CACHE_MAX
          Cooldown,     \* PROBE_COOLDOWN
          CooldownMax,  \* COOLDOWN_MAX
          MaxProbes,    \* MAX_PROBES
          MaxTime       \* bound: the clock

VARIABLES clock,
          cache,     \* the reports kept, oldest first: [key, at, report]
          cooldown,  \* _cooldown, in insertion order: [host, at]
          th,        \* of each thread: [pc, key, now, planned, todo, tried, probe]
          touched    \* of each host, its last probe that ended: [at, answered (and not dropped since)]

vars == <<clock, cache, cooldown, th, touched>>

Hosts == UNION {Range(r.hosts) : r \in Rows}
Never == 0 - Cooldown - 1
NoProbe == [host |-> "none", answered |-> FALSE, readable |-> FALSE]
Idle == [pc |-> "idle", key |-> "none", now |-> 0, planned |-> 0,
         todo |-> <<>>, tried |-> <<>>, probe |-> NoProbe]

-----------------------------------------------------------------------------
(* seller_report: the severities, the subject and the findings.            *)

Unknown == 0
Info == 1
Warning == 2
Blocker == 3

FindRows(key) == {r \in Rows : r.payee = key \/ key \in Range(r.hosts)}

\* The busiest of the payees that match.
SelectSubject(rows) == CHOOSE r \in rows : \A q \in rows : q.settlements <= r.settlements

\* A report keyed on a host probes that host's endpoints only.
ResourcesForKey(row, key) ==
    LET scoped == Subsequence(row.hosts, {i \in DOMAIN row.hosts : row.hosts[i] = key})
    IN  IF scoped # <<>> THEN scoped ELSE row.hosts

\* A silent endpoint is not a defect.
AssessReach(probe) == IF probe.answered THEN Info ELSE Unknown

AssessParseability(probe) ==
    CASE ~ probe.answered -> Unknown
      [] probe.readable   -> Info
      [] OTHER            -> Blocker

AssessPayeeIdentifier(row) ==
    CASE row.id = "malformed"   -> Blocker
      [] row.id = "invalid_hex" -> Warning
      [] OTHER                  -> Info

\* Malformed and unresolved entries of the census each make a finding; a census that
\* is missing makes none of the seller's identifiers clean.
AssessIdentifiers(row) ==
    CASE row.asset = "malformed"  -> Blocker
      [] row.asset = "unresolved" -> Warning
      [] row.asset = "no_census"  -> Unknown
      [] OTHER                    -> Info

\* decide_payment over the record of the row, at its cheapest option.
AssessVerdict(row) ==
    CASE row.verdict = "GO"   -> Info
      [] row.verdict = "HOLD" -> Warning
      [] OTHER                -> Blocker

AssessDemandAuthenticity(row) ==
    CASE row.cross = "none"               -> Unknown
      [] row.cross \in {"flagged", "zero"} -> Warning
      [] OTHER                            -> Info

\* Above the category's line only when the cheapest option is.
AssessPricePosition(row) ==
    CASE row.price = "no_median"   -> Unknown
      [] row.price = "cheapest_up" -> Warning
      [] OTHER                     -> Info

Findings(row, probe) ==
    [reach     |-> AssessReach(probe),
     challenge |-> AssessParseability(probe),
     payee     |-> AssessPayeeIdentifier(row),
     asset_id  |-> AssessIdentifiers(row),
     verdict   |-> AssessVerdict(row),
     demand    |-> AssessDemandAuthenticity(row),
     price     |-> AssessPricePosition(row)]

Worst(findings) == Max(Range(findings))

NotFound == [found |-> FALSE, payee |-> "none", host |-> "none", findings |-> [corpus |-> Unknown], severity |-> Unknown]

BuildReport(row, probe) ==
    [found |-> TRUE, payee |-> row.payee, host |-> probe.host,
     findings |-> Findings(row, probe), severity |-> Worst(Findings(row, probe))]

-----------------------------------------------------------------------------
(* ReportCache.                                                            *)

Cached(key) == \E e \in Range(cache) : e.key = key /\ clock - e.at < TTL

Others(key) == Subsequence(cache, {i \in DOMAIN cache : cache[i].key # key})

Put(key, report, at) ==
    LET room == IF Len(Others(key)) = Len(cache) /\ Len(cache) >= CacheMax THEN Tail(cache) ELSE Others(key)
    IN  Append(room, [key |-> key, at |-> at, report |-> report])

-----------------------------------------------------------------------------
(* The cooldown.                                                           *)

LastProbe(h) ==
    LET marks == {e \in Range(cooldown) : e.host = h}
    IN  IF marks = {} THEN Never ELSE (CHOOSE e \in marks : TRUE).at

HostReady(h, now) == now - LastProbe(h) >= Cooldown

\* Mutant of Marked: the endpoint that answered is not remembered.
MarkedNever(map, h, now) == map

\* _mark_probed: a full map drops its earliest mark, even to renew another.
Marked(map, h, now) ==
    LET earliest == CHOOSE e \in Range(map) : \A f \in Range(map) : e.at <= f.at
        room     == IF Len(map) >= CooldownMax THEN Subsequence(map, {i \in DOMAIN map : map[i] # earliest})
                                               ELSE map
        mark     == [host |-> h, at |-> now]
    IN  IF \E e \in Range(room) : e.host = h
        THEN [i \in DOMAIN room |-> IF room[i].host = h THEN mark ELSE room[i]]
        ELSE Append(room, mark)

\* A mark for each of the hosts, in their order.
Marks(map, hosts, now) ==
    LET after[k \in 0..Len(hosts)] == IF k = 0 THEN map ELSE Marked(after[k - 1], hosts[k], now)
    IN  after[Len(hosts)]

\* The hosts that are marked: up to the endpoint whose result was returned.  When
\* none answers that is the first one tried.
Reached(t) ==
    LET i == CHOOSE j \in DOMAIN th[t].tried : th[t].tried[j] = th[t].probe.host
    IN  SubSeq(th[t].tried, 1, i)

-----------------------------------------------------------------------------
(* A request.                                                              *)

\* do_GET answers the home page, /healthz, an unknown route, a string that cannot be
\* a key, and a client over its limit, without a report.
Answered(t) == th' = [th EXCEPT ![t] = Idle]

Report(t, key) ==
    /\ th[t].pc = "idle" /\ ~ Cached(key)
    /\ th' = [th EXCEPT ![t] = [Idle EXCEPT !.pc = "find", !.key = key, !.now = clock]]
    /\ cache' = Others(key)
    /\ UNCHANGED <<clock, cooldown, touched>>

Gives(t, report) ==
    /\ cache' = Put(th[t].key, report, th[t].now)
    /\ Answered(t)

\* A key that is in no row is answered without any contact.
NoRecord(t) ==
    /\ th[t].pc = "find" /\ FindRows(th[t].key) = {}
    /\ Gives(t, NotFound)
    /\ UNCHANGED <<clock, cooldown, touched>>

\* _probe_fn reads the clock and the cooldown; MaxProbes of what is left are tried.
PlanProbe(t) ==
    /\ th[t].pc = "find" /\ FindRows(th[t].key) # {}
    /\ LET hosts   == ResourcesForKey(SelectSubject(FindRows(th[t].key)), th[t].key)
           allowed == Subsequence(hosts, {i \in DOMAIN hosts : HostReady(hosts[i], clock)})
       IN  th' = [th EXCEPT ![t].pc = IF allowed = <<>> THEN "assess" ELSE "probe",
                            ![t].planned = clock,
                            ![t].todo = SubSeq(allowed, 1, Min({MaxProbes, Len(allowed)}))]
    /\ UNCHANGED <<clock, cache, cooldown, touched>>

\* probe_endpoint.  silent: no answer, or an address that is not a public one.
Contact(t, outcome) ==
    /\ th[t].pc = "probe" /\ th[t].todo # <<>>
    /\ LET h      == Head(th[t].todo)
           result == [host |-> h, answered |-> outcome # "silent", readable |-> outcome = "readable"]
           tried  == Append(th[t].tried, h)
           ends   == result.answered \/ Len(th[t].todo) = 1
       IN  th' = [th EXCEPT ![t].todo = Tail(@), ![t].tried = tried,
                            ![t].pc = IF ends THEN "mark" ELSE "probe",
                            ![t].probe = IF result.answered \/ tried = <<h>> THEN result ELSE @]
    /\ UNCHANGED <<clock, cache, cooldown, touched>>

\* The hosts reached are marked with the time the probe was planned.
Mark(t) ==
    /\ th[t].pc = "mark"
    /\ cooldown' = Marks(cooldown, Reached(t), th[t].planned)
    /\ touched' = [h \in Hosts |->
                    IF h \in Range(th[t].tried)
                    THEN [at |-> th[t].planned, answered |-> th[t].probe.answered /\ h = th[t].probe.host]
                    ELSE [touched[h] EXCEPT !.answered = @ /\ \E e \in Range(cooldown') : e.host = h]]
    /\ th' = [th EXCEPT ![t].pc = "assess", ![t].tried = <<>>, ![t].todo = <<>>, ![t].planned = 0]
    /\ UNCHANGED <<clock, cache>>

Assess(t) ==
    /\ th[t].pc = "assess"
    /\ Gives(t, BuildReport(SelectSubject(FindRows(th[t].key)), th[t].probe))
    /\ UNCHANGED <<clock, cooldown, touched>>

Tick ==
    /\ clock < MaxTime
    /\ clock' = clock + 1
    /\ UNCHANGED <<cache, cooldown, th, touched>>

Init ==
    /\ clock = 0 /\ cache = <<>> /\ cooldown = <<>>
    /\ th = [t \in Threads |-> Idle]
    /\ touched = [h \in Hosts |-> [at |-> Never, answered |-> FALSE]]

Next ==
    \/ \E t \in Threads, key \in Keys : Report(t, key)
    \/ \E t \in Threads : NoRecord(t) \/ PlanProbe(t) \/ Mark(t) \/ Assess(t)
    \/ \E t \in Threads, o \in {"readable", "unreadable", "silent"} : Contact(t, o)
    \/ Tick

Spec == Init /\ [][Next]_vars

-----------------------------------------------------------------------------
TypeOK ==
    /\ clock \in 0..MaxTime
    /\ Len(cache) <= CacheMax /\ Len(cooldown) <= CooldownMax
    /\ \A i, j \in DOMAIN cache : cache[i].key = cache[j].key => i = j
    /\ \A t \in Threads : th[t].pc \in {"idle", "find", "probe", "mark", "assess"}

\* A report is about the seller that was asked for: its probe is of an endpoint of
\* the payee it names, of no other host when a host was asked for, and nobody is told
\* that their endpoint is defective unless it answered.
AboutTheAsked ==
    \A e \in Range(cache) : LET r == e.report IN
        r.found =>
          /\ e.key \in {r.payee} \cup UNION {Range(q.hosts) : q \in {x \in Rows : x.payee = r.payee}}
          /\ e.key \in Hosts => r.host \in {"none", e.key}
          /\ r.host # "none" => \E q \in Rows : q.payee = r.payee /\ r.host \in Range(q.hosts)
          /\ r.findings.challenge = Blocker => r.findings.reach = Info

Plans(t) == th[t].pc = "find" /\ th'[t].pc = "probe"

\* An endpoint that answered the last report to contact it is left alone: unless a
\* full map dropped it, no report plans to contact it before the cooldown is over,
\* whichever key it came by.
AnsweredRests ==
    \A t \in Threads : Plans(t) =>
      \A h \in Range(th'[t].todo) : touched[h].answered => clock - touched[h].at >= Cooldown
=============================================================================
