-------------------------- MODULE DirectoryRefresh --------------------------
(***************************************************************************)
(* The endpoint directory and the baseline that is read from it: the       *)
(* discovery crawl (discovery_crawl.py), the scan that keeps the payees    *)
(* with on-chain history and dates the file (ecosystem_scan.py), the guard *)
(* (directory_guard.py), the promotion of the file and its sidecar         *)
(* (scripts/refresh_directory.sh), and payto_baseline.py, which loads both *)
(* at boot.  Listings come and go while a crawl pages through them, any    *)
(* page may fail, and the job may be killed between its two renames.       *)
(***************************************************************************)
EXTENDS Integers, Sequences, FiniteSets, FiniteSetsExt, SequencesExt

CONSTANTS Hosts, Payees,
          PageLimit,   \* listings of one discovery page
          MaxPages,    \* pages one crawl walks
          MaxAge,      \* MAX_INDEX_AGE_DAYS
          MaxDay,      \* bound: the last day
          MaxListing,  \* bound: listings at once
          MaxChanges   \* bound: changes of the listings

VARIABLES listing,  \* what the discovery service advertises, in its order
          changes,  \* how often that changed
          day,      \* today
          seenOn,   \* the last day each (host, payee) was advertised
          dir,      \* data/directory.json: [pairs, made]
          meta,     \* data/directory.meta.json: [sha, at]
          phase,    \* "idle", "crawl", "scan", "guard", "move", "moved", "verify"
          offset, crawled,   \* of the crawl under way
          cand, candMeta,    \* the candidate pair
          index, age, bootDay  \* the running service's baseline

vars == <<listing, changes, day, seenOn, dir, meta, phase, offset, crawled,
          cand, candMeta, index, age, bootDay>>

job == <<phase, offset, crawled, cand, candMeta>>
source == <<index, age, bootDay>>

Never == -1
Undated == -1
Empty == [pairs |-> {}, made |-> Never]
NoMeta == [sha |-> Empty, at |-> Never]
Pair(r) == <<r.host, r.payee>>
HostsOf(d) == {x[1] : x \in d.pairs}
EntriesOf(d) == {x[2] : x \in d.pairs}
Listed == {Pair(r) : r \in Range(listing)}

-----------------------------------------------------------------------------
(* payto_baseline: the age of a file and what the running service makes of *)
(* a payment.                                                              *)

\* The sidecar dates only the very bytes it pins; without it a plain list is undated.
SidecarAge(d, m) == IF m.at = Never \/ m.sha # d THEN Undated ELSE day - m.at

BuildPaytoIndex(d) == [h \in Hosts |-> {x[2] : x \in {y \in d.pairs : y[1] = h}}]

Stale == age = Undated \/ age > MaxAge

\* assess_payto.
Grade(h, p) ==
    CASE index[h] = {}            -> "unknown"
      [] p \in index[h]           -> "ok"
      [] p \notin index[h] /\ Cardinality(index[h]) > 1 -> "multi_payee"
      [] OTHER                    -> "unexpected"

Gates(h, p) == Grade(h, p) = "unexpected" /\ ~ Stale

-----------------------------------------------------------------------------
(* The world.                                                              *)

Relist(seq) ==
    /\ listing' = seq
    /\ changes' = changes + 1
    /\ seenOn' = [x \in Hosts \X Payees |-> IF x \in {Pair(r) : r \in Range(seq)} THEN day ELSE seenOn[x]]
    /\ UNCHANGED <<day, dir, meta, job, source>>

\* A seller lists an endpoint, or moves it to another payee, or delists it.
Advertise(h, p) ==
    /\ changes < MaxChanges /\ Len(listing) < MaxListing
    /\ <<h, p>> \notin Listed
    /\ Relist(Append(listing, [host |-> h, payee |-> p]))

Delist(i) ==
    /\ changes < MaxChanges
    /\ Relist(RemoveAt(listing, i))

\* A refresh takes minutes: the day changes between jobs.
NextDay ==
    /\ day < MaxDay /\ phase = "idle"
    /\ day' = day + 1
    /\ seenOn' = [x \in Hosts \X Payees |-> IF x \in Listed THEN day' ELSE seenOn[x]]
    /\ UNCHANGED <<listing, changes, dir, meta, job, source>>

-----------------------------------------------------------------------------
(* The job.                                                                *)

Start ==
    /\ phase = "idle"
    /\ phase' = "crawl"
    /\ offset' = 0 /\ crawled' = {} /\ cand' = Empty /\ candMeta' = NoMeta
    /\ UNCHANGED <<listing, changes, day, seenOn, dir, meta, source>>

\* crawl_bazaar: a page by offset; it stops at the total, at an empty page, at
\* the page cap and, with what it has, at a page that fails.
CrawlPage(fails) ==
    /\ phase = "crawl"
    /\ LET page == SubSeq(listing, offset + 1, Min({Len(listing), offset + PageLimit}))
           got  == IF fails THEN <<>> ELSE page
       IN /\ crawled' = crawled \cup {Pair(r) : r \in Range(got)}
          /\ offset' = offset + PageLimit
          /\ phase' = IF got = <<>> \/ offset' >= Len(listing) \/ offset' >= MaxPages * PageLimit
                      THEN "scan" ELSE "crawl"
    /\ UNCHANGED <<listing, changes, day, seenOn, dir, meta, cand, candMeta, source>>

\* scan and main: only payees whose on-chain history was found are written, and
\* the file is dated if write_meta succeeds.
Scan(known, dated) ==
    /\ phase = "scan"
    /\ cand' = [pairs |-> {x \in crawled : x[2] \in known}, made |-> day]
    /\ candMeta' = IF dated THEN [sha |-> cand', at |-> day] ELSE NoMeta
    /\ phase' = "guard"
    /\ UNCHANGED <<listing, changes, day, seenOn, dir, meta, offset, crawled, source>>

\* directory_guard: not empty, entries and hosts retained, dated, fresh, newer.
AssessDirectoryRefresh(old, oldAge, new, newAge) ==
    /\ new.pairs # {}
    /\ 10 * Cardinality(EntriesOf(new)) >= 8 * Cardinality(EntriesOf(old))
    /\ 100 * Cardinality(HostsOf(new)) >= 95 * Cardinality(HostsOf(old))
    /\ newAge # Undated
    /\ newAge < MaxAge
    /\ oldAge # Undated => newAge < oldAge

Guard ==
    /\ phase = "guard"
    /\ phase' = IF AssessDirectoryRefresh(dir, SidecarAge(dir, meta), cand, SidecarAge(cand, candMeta))
                THEN "move" ELSE "idle"
    /\ UNCHANGED <<listing, changes, day, seenOn, dir, meta, offset, crawled, cand, candMeta, source>>

\* mv directory.json, then mv directory.meta.json, then the post-condition.
MoveDirectory ==
    /\ phase = "move"
    /\ dir' = cand
    /\ phase' = "moved"
    /\ UNCHANGED <<listing, changes, day, seenOn, meta, offset, crawled, cand, candMeta, source>>

MoveMeta ==
    /\ phase = "moved"
    /\ meta' = candMeta
    /\ phase' = "verify"
    /\ UNCHANGED <<listing, changes, day, seenOn, dir, offset, crawled, cand, candMeta, source>>

\* The promoted pair must verify; either way the job ends.
Verify ==
    /\ phase = "verify"
    /\ phase' = "idle"
    /\ UNCHANGED <<listing, changes, day, seenOn, dir, meta, offset, crawled, cand, candMeta, source>>

Killed ==
    /\ phase # "idle"
    /\ phase' = "idle"
    /\ UNCHANGED <<listing, changes, day, seenOn, dir, meta, offset, crawled, cand, candMeta, source>>

\* The service boots on the committed pair as it stands and never reads it again.
Boot ==
    /\ index' = BuildPaytoIndex(dir)
    /\ age' = SidecarAge(dir, meta)
    /\ bootDay' = day
    /\ UNCHANGED <<listing, changes, day, seenOn, dir, meta, job>>

Init ==
    /\ listing = <<>> /\ changes = 0 /\ day = 0
    /\ seenOn = [x \in Hosts \X Payees |-> Never]
    /\ dir = Empty /\ meta = NoMeta
    /\ phase = "idle" /\ offset = 0 /\ crawled = {}
    /\ cand = Empty /\ candMeta = NoMeta
    /\ index = [h \in Hosts |-> {}] /\ age = Undated /\ bootDay = 0

Next ==
    \/ \E h \in Hosts, p \in Payees : Advertise(h, p)
    \/ \E i \in DOMAIN listing : Delist(i)
    \/ NextDay \/ Start
    \/ \E f \in BOOLEAN : CrawlPage(f)
    \/ \E known \in SUBSET Payees, dated \in BOOLEAN : Scan(known, dated)
    \/ Guard \/ MoveDirectory \/ MoveMeta \/ Verify \/ Killed \/ Boot

Spec == Init /\ [][Next]_vars

-----------------------------------------------------------------------------
TypeOK ==
    /\ Len(listing) <= MaxListing /\ changes \in 0..MaxChanges /\ day \in 0..MaxDay
    /\ dir.pairs \subseteq Hosts \X Payees /\ dir.made \in Never..day
    /\ phase \in {"idle", "crawl", "scan", "guard", "move", "moved", "verify"}
    /\ index \in [Hosts -> SUBSET Payees]
    /\ age \in Undated..day /\ bootDay \in 0..day

\* Whenever the committed directory is dated, the date is its own: a job killed
\* between its renames leaves an undated pair, never the previous file's age on
\* the new file (_sidecar_age, scripts/refresh_directory.sh).
DatedIsTrue ==
    SidecarAge(dir, meta) # Undated => SidecarAge(dir, meta) = day - dir.made

\* A baseline that may gate a payment was current when the service booted:
\* every recipient it expects was advertised within MAX_INDEX_AGE_DAYS of that
\* boot, however the jobs before it ended.
GatesOnCurrentListings ==
    \A h \in Hosts, p \in Payees :
      Gates(h, p) => \A q \in index[h] : bootDay - seenOn[<<h, q>>] <= MaxAge

\* No sequence of refreshes, partial crawls and kills shrinks the hosts the
\* committed directory covers by more than the guard's margin in one promotion,
\* and a promotion never replaces a dated directory by an older one.
CoverageKept ==
    dir' # dir => /\ 100 * Cardinality(HostsOf(dir')) >= 95 * Cardinality(HostsOf(dir))
                  /\ dir'.made >= dir.made
                  /\ dir'.pairs # {}
=============================================================================
