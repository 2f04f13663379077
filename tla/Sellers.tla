------------------------------- MODULE Sellers -------------------------------
(***************************************************************************)
(* seller_audit.py and POST /v1/seller/revoke: the verified-merchant tier. *)
(* An audit earns a merchant a signed, expiring badge in a file; the       *)
(* service loads the badges at boot and grants their holders a reputation  *)
(* floor; the owner revokes badges in an append-only file that must still  *)
(* hold after a restart.                                                   *)
(*                                                                         *)
(* The process may die at any point of a revocation, the disk may refuse   *)
(* an append or take half of it, and either file may be unreadable at a    *)
(* boot.                                                                   *)
(***************************************************************************)
EXTENDS Integers, Sequences, FiniteSets, SequencesExt, FiniteSetsExt

CONSTANTS Subjects,    \* merchants
          Records,     \* audit evidence: [clear, ready, dispute, peer, history]
          TTL,         \* DEFAULT_TTL_SECONDS, in days
          MaxDay,      \* bound: the last day
          MaxBadges,   \* bound: badges issued
          MaxRows      \* bound: lines of the revocation file

VARIABLES cfg,        \* [store, key, seed]: what the deployment configures
          day,
          audited,    \* the last audit of each subject: [rec, grade]
          attFile,    \* the badges on disk: [id, subject, grade, expires, signed]
          revFile,    \* the revocation file's lines: a subject, a badge id or Junk
          torn,       \* it ends in half a line
          up, tier,   \* the process runs; seller_registry is not None
          badges,     \* _by_subject
          revoked,    \* _revoked
          pending,    \* the revocation persisted and not yet in _revoked
          acked,      \* keys whose revocation was answered 200, durable
          glued       \* keys whose line continued half a line

vars == <<cfg, day, audited, attFile, revFile, torn, up, tier, badges, revoked, pending, acked, glued>>
disk == <<attFile, revFile, torn, glued>>
proc == <<up, tier, badges, revoked, pending>>

Junk == [junk |-> TRUE]
None == [none |-> TRUE]
Subject(s) == [subject |-> s]
Id(n) == [id |-> n]
Keys == {Subject(s) : s \in Subjects} \cup {Id(n) : n \in 1..MaxBadges}

-----------------------------------------------------------------------------
(* The audit.                                                              *)

\* run_audit.  clear: neither sanctioned nor known-bad; ready: 0 not auditable, 1
\* close, 2 ready; dispute: 0 within 1%, 1 within 5%, 2 above; peer: 1 priced at
\* twice the market or more; history: 1 confirmed settlements of enough payers.
\* The grade is 2 for A, 1 for B, 0 for a failed audit.
RunAudit(r) ==
    LET failed == ~ r.clear \/ r.ready = 0 \/ r.dispute > 1 \/ r.peer = 1
    IN  CASE failed -> 0
          [] ~ failed /\ r.ready = 2 /\ r.history = 1 /\ r.dispute = 0 -> 2
          [] OTHER -> 1

Better(r, q) ==
    /\ q.clear => r.clear
    /\ r.ready >= q.ready /\ r.history >= q.history
    /\ r.dispute <= q.dispute /\ r.peer <= q.peer

Audit(s, r) ==
    /\ audited' = [audited EXCEPT ![s] = [rec |-> r, grade |-> RunAudit(r)]]
    /\ UNCHANGED <<cfg, day, disk, proc, acked>>

\* sign_attestation refuses a failed audit and a missing seed.
SignAttestation(s) ==
    /\ audited[s] # None /\ cfg.seed
    /\ audited[s].grade > 0
    /\ Len(attFile) < MaxBadges
    /\ attFile' = Append(attFile, [id |-> Len(attFile) + 1, subject |-> s, grade |-> audited[s].grade,
                                   expires |-> day + TTL, signed |-> TRUE])
    /\ UNCHANGED <<cfg, day, audited, revFile, torn, glued, proc, acked>>

\* A line of the file was edited, or signed with a key that is not ours.
ForeignBadge(s) ==
    /\ Len(attFile) < MaxBadges
    /\ attFile' = Append(attFile, [id |-> Len(attFile) + 1, subject |-> s, grade |-> 2,
                                   expires |-> MaxDay + 1, signed |-> FALSE])
    /\ UNCHANGED <<cfg, day, audited, revFile, torn, glued, proc, acked>>

-----------------------------------------------------------------------------
(* The registry.                                                           *)

\* FileRevocationStore.all: a junk line is skipped.
AllRevocations == Range(revFile) \ {Junk}

\* SellerRegistry.add takes what verifies against the configured seed.
VerifyEnvelope(b) == cfg.seed /\ b.signed

Loaded(readable) ==
    LET ok(s) == {i \in DOMAIN attFile : readable /\ attFile[i].subject = s /\ VerifyEnvelope(attFile[i])}
    IN  [s \in Subjects |-> IF ok(s) = {} THEN None ELSE attFile[Max(ok(s))]]

\* Mutant of LoadRegistry: revocations that cannot be read are taken for none.
LoadRegistryBlind(readable) ==
    /\ tier' = TRUE
    /\ badges' = Loaded(readable.att)
    /\ revoked' = IF cfg.store /\ readable.rev THEN AllRevocations ELSE {}

\* load_registry: unreadable badges cost the floor, unreadable revocations the tier.
LoadRegistry(readable) ==
    /\ tier' = (cfg.store => readable.rev)
    /\ badges' = IF tier' THEN Loaded(readable.att) ELSE [s \in Subjects |-> None]
    /\ revoked' = IF tier' /\ cfg.store THEN AllRevocations ELSE {}

Boot(readable) ==
    /\ ~ up /\ up' = TRUE
    /\ LoadRegistry(readable)
    /\ UNCHANGED <<cfg, day, audited, disk, pending, acked>>

\* check_window: neither expired nor revoked, by subject or by id.
CheckWindow(b) == day < b.expires /\ {Subject(b.subject), Id(b.id)} \cap revoked = {}

\* credential_for looks at the badge that is held for the subject.
Credential(s) ==
    IF up /\ tier /\ badges[s] # None /\ CheckWindow(badges[s]) THEN badges[s] ELSE None

-----------------------------------------------------------------------------
(* Revocation: _do_revoke_seller.                                          *)

\* 404 without a registry, 503 on an ephemeral key, 403 for a wrong token: nothing changes.
RevokeRefused ==
    /\ up
    /\ UNCHANGED vars

\* add(): a line that continues half a line is junk to all().
Appends(k) ==
    /\ revFile' = Append(revFile, IF torn THEN Junk ELSE k)
    /\ glued' = IF torn THEN glued \cup {k} ELSE glued
    /\ torn' = FALSE

\* SellerRegistry.revoke persists first; nothing to persist without a store.
RevokePersists(k) ==
    /\ up /\ tier /\ cfg.key /\ pending = None
    /\ Len(revFile) < MaxRows
    /\ pending' = k
    /\ IF cfg.store THEN Appends(k) ELSE UNCHANGED <<revFile, torn, glued>>
    /\ UNCHANGED <<cfg, day, audited, attFile, up, tier, badges, revoked, acked>>

\* The append fails with none, half or all of the line on disk: answered 503, not
\* revoked here.
RevokeFails(k, written) ==
    /\ up /\ tier /\ cfg.key /\ cfg.store /\ pending = None
    /\ Len(revFile) < MaxRows
    /\ \/ written = "all" /\ Appends(k)
       \/ written = "half" /\ torn' = TRUE /\ UNCHANGED <<revFile, glued>>
       \/ written = "none" /\ UNCHANGED <<revFile, torn, glued>>
    /\ UNCHANGED <<cfg, day, audited, attFile, proc, acked>>

\* Then the cache, then 200 with durable = whether there is a store.
RevokeDone ==
    /\ up /\ pending # None
    /\ revoked' = revoked \cup {pending}
    /\ pending' = None
    /\ acked' = IF cfg.store THEN acked \cup {pending} ELSE acked
    /\ UNCHANGED <<cfg, day, audited, disk, up, tier, badges>>

\* The process dies; inside an append it may leave half a line.
Crash(tears) ==
    /\ up /\ up' = FALSE
    /\ tears => cfg.store /\ pending = None
    /\ torn' = (torn \/ tears)
    /\ tier' = FALSE /\ badges' = [s \in Subjects |-> None] /\ revoked' = {} /\ pending' = None
    /\ UNCHANGED <<cfg, day, audited, attFile, revFile, glued, acked>>

NextDay ==
    /\ day < MaxDay
    /\ day' = day + 1
    /\ UNCHANGED <<cfg, audited, disk, proc, acked>>

Init ==
    /\ cfg \in [store : BOOLEAN, key : BOOLEAN, seed : BOOLEAN]
    /\ day = 0
    /\ audited = [s \in Subjects |-> None]
    /\ attFile = <<>> /\ revFile = <<>> /\ torn = FALSE
    /\ up = FALSE /\ tier = FALSE /\ badges = [s \in Subjects |-> None]
    /\ revoked = {} /\ pending = None /\ acked = {} /\ glued = {}

Next ==
    \/ \E s \in Subjects, r \in Records : Audit(s, r)
    \/ \E s \in Subjects : SignAttestation(s) \/ ForeignBadge(s)
    \/ \E readable \in [rev : BOOLEAN, att : BOOLEAN] : Boot(readable)
    \/ \E k \in Keys : RevokePersists(k)
    \/ \E k \in Keys, written \in {"none", "half", "all"} : RevokeFails(k, written)
    \/ RevokeRefused \/ RevokeDone
    \/ \E tears \in BOOLEAN : Crash(tears)
    \/ NextDay

Spec == Init /\ [][Next]_vars

-----------------------------------------------------------------------------
TypeOK ==
    /\ day \in 0..MaxDay
    /\ Len(attFile) <= MaxBadges /\ Len(revFile) <= MaxRows
    /\ Range(revFile) \subseteq Keys \cup {Junk}
    /\ revoked \subseteq Keys /\ acked \subseteq Keys /\ pending \in Keys \cup {None}
    /\ ~ up => ~ tier /\ pending = None

\* A revocation that was answered as durable is honoured from then on: across
\* crashes, restarts, refused appends and files that cannot be read at a boot, no
\* badge of that subject or with that id grants a floor again, unless a line of
\* it was written after half of another.
RevokedStaysRevoked ==
    \A s \in Subjects :
      Credential(s) # None => {Subject(s), Id(Credential(s).id)} \cap (acked \ glued) = {}

\* The same without the exception: "one bad row must not erase the rest"
\* (FileRevocationStore.all).
BadRowErasesNothing ==
    \A s \in Subjects :
      Credential(s) # None => {Subject(s), Id(Credential(s).id)} \cap acked = {}

\* A floor is granted only on a badge this deployment signed for an audit that
\* passed, and only until it expires.
FloorIsEarned ==
    \A s \in Subjects :
      Credential(s) # None => /\ Credential(s).signed /\ cfg.seed
                              /\ Credential(s).grade > 0
                              /\ day < Credential(s).expires
                              /\ Credential(s).subject = s

\* A merchant found better in every respect is never graded lower by its next audit.
BetterNeverLower ==
    \A s \in Subjects :
      audited[s] # None /\ audited'[s] # None /\ Better(audited'[s].rec, audited[s].rec)
        => audited'[s].grade >= audited[s].grade
=============================================================================
