------------------------ MODULE CounterpartiesProofs ------------------------
(***************************************************************************)
(* CounterpartiesTypeOK, EvidenceSound, CounterpartiesSound and             *)
(* CounterpartiesKept, for any payees, settlements, sellers, lists, hosts,  *)
(* deployments and clients.  Each part has its own invariant; the last      *)
(* section says that a behaviour is in one part and the others stay as they *)
(* began.                                                                   *)
(***************************************************************************)
EXTENDS Counterparties, SubsequencesProofs

-----------------------------------------------------------------------------
(* The sellers' badges.                                                     *)

Badges == [id : Nat, subject : Subjects, grade : 0..2, expires : Int, signed : BOOLEAN]

Graded == [rec : Records, grade : 0..2]

\* A badge in hand is one this deployment signed for a passed audit of its subject.
Earned(b, s) == b.subject = s /\ b.signed /\ b.grade > 0 /\ badgeCfg.seed

SellersInv ==
    /\ S!TypeOK
    /\ badgeCfg \in [store : BOOLEAN, key : BOOLEAN, seed : BOOLEAN]
    /\ torn \in BOOLEAN /\ registryUp \in BOOLEAN /\ tier \in BOOLEAN
    /\ attFile \in Seq(Badges) /\ revFile \in Seq(S!Keys \cup {S!Junk})
    /\ \A i \in DOMAIN attFile : attFile[i].signed => attFile[i].grade > 0
    /\ badges \in [Subjects -> Badges \cup {S!None}]
    /\ \A s \in Subjects : badges[s] # S!None => Earned(badges[s], s)
    /\ audited \in [Subjects -> Graded \cup {S!None}]
    /\ \A s \in Subjects : audited[s] # S!None => audited[s].grade = S!RunAudit(audited[s].rec)
    /\ acked # {} => badgeCfg.store
    /\ pending # S!None /\ badgeCfg.store => pending \in Range(revFile) \cup glued
    /\ acked \ glued \subseteq Range(revFile)
    /\ registryUp /\ tier => acked \ glued \subseteq revoked

LEMMA Unalike ==
    /\ S!None \notin Badges /\ S!None \notin Graded
    /\ S!Junk \notin S!Keys /\ S!None \notin S!Keys /\ S!None # S!Junk
  <1>1. DOMAIN S!None = {"none"} /\ DOMAIN S!Junk = {"junk"}
    BY DEF S!None, S!Junk
  <1>2. \A b \in Badges : DOMAIN b = {"id", "subject", "grade", "expires", "signed"}
    BY DEF Badges
  <1>3. \A g \in Graded : DOMAIN g = {"rec", "grade"}
    BY DEF Graded
  <1>4. \A k \in S!Keys : DOMAIN k = {"subject"} \/ DOMAIN k = {"id"}
    BY DEF S!Keys, S!Subject, S!Id
  <1>5. /\ {"none"} # {"junk"} /\ {"none"} # {"id"} /\ {"none"} # {"subject"}
        /\ {"none"} # {"rec", "grade"} /\ {"none"} # {"id", "subject", "grade", "expires", "signed"}
        /\ {"junk"} # {"subject"} /\ {"junk"} # {"id"}
    OBVIOUS
  <1> HIDE DEF S!Keys
  <1> QED
    BY <1>1, <1>2, <1>3, <1>4, <1>5, Zenon

\* The least and the greatest of a set of naturals.
LEMMA GreatestOf ==
    ASSUME NEW T \in SUBSET Nat, T # {}, NEW n \in Nat, \A i \in T : i <= n
    PROVE  Max(T) \in T /\ \A i \in T : i <= Max(T)
  <1>1. PICK m \in T : \A i \in T : i <= m
    BY LargestElement
  <1>2. m \in Nat /\ \A i \in T : i \in Nat
    OBVIOUS
  <1>3. \A i \in T : m >= i
    BY <1>1, <1>2
  <1>4. Max(T) \in T /\ \A i \in T : Max(T) >= i
    BY <1>3 DEF Max
  <1> QED
    BY <1>2, <1>4

LEMMA LeastOf ==
    ASSUME NEW T \in SUBSET Nat, T # {}
    PROVE  Min(T) \in T /\ \A i \in T : Min(T) <= i
  <1>1. \E m \in T : \A i \in T : m <= i
    BY SmallestElement
  <1> QED
    BY <1>1 DEF Min

LEMMA AuditGrades == \A r \in Records : S!RunAudit(r) \in 0..2
  BY DEF S!RunAudit

LEMMA AppendRange ==
    ASSUME NEW T, NEW s \in Seq(T), NEW x \in T
    PROVE  Append(s, x) \in Seq(T) /\ Range(Append(s, x)) = Range(s) \cup {x} /\ Len(Append(s, x)) = Len(s) + 1
  BY AppendPositions DEF Range

\* The library's words, as the module of the badges instantiates them.
LEMMA SellersWords ==
    /\ \A f : S!Range(f) = Range(f)
    /\ \A T : S!Max(T) = Max(T)
  BY DEF S!Range, Range, S!Max, Max

LEMMA SellersInit == S!Init => SellersInv
  <1> SUFFICES ASSUME S!Init PROVE SellersInv
    OBVIOUS
  <1>1. Range(revFile) = {} /\ DOMAIN attFile = {}
    BY DEF S!Init, Range
  <1>2. Len(attFile) = 0 /\ Len(revFile) = 0
    BY DEF S!Init
  <1>3. S!TypeOK
    <2> USE DEF S!Init
    <2>1. badgeDay \in 0..LastDay
      BY SellersAssumption
    <2>2. Len(attFile) <= MaxBadges /\ Len(revFile) <= MaxLines
      BY <1>2, SellersAssumption
    <2>3. Range(revFile) \subseteq S!Keys \cup {S!Junk}
      BY <1>1
    <2>4. revoked \subseteq S!Keys /\ acked \subseteq S!Keys /\ pending \in S!Keys \cup {S!None}
      OBVIOUS
    <2>5. ~ registryUp => ~ tier /\ pending = S!None
      OBVIOUS
    <2> QED
      BY <2>1, <2>2, <2>3, <2>4, <2>5, SellersWords DEF S!TypeOK
  <1>4. attFile \in Seq(Badges) /\ revFile \in Seq(S!Keys \cup {S!Junk})
    BY DEF S!Init
  <1>5. /\ \A s \in Subjects : badges[s] = S!None /\ audited[s] = S!None
        /\ badges \in [Subjects -> Badges \cup {S!None}]
        /\ audited \in [Subjects -> Graded \cup {S!None}]
    BY DEF S!Init
  <1> QED
    BY <1>1, <1>3, <1>4, <1>5 DEF S!Init, SellersInv

\* Nothing but the files, the process and the audits moves.
LEMMA AuditStep ==
    ASSUME SellersInv, NEW s \in Subjects, NEW r \in Records, S!Audit(s, r)
    PROVE  SellersInv'
  <1> DEFINE g == [rec |-> r, grade |-> S!RunAudit(r)]
  <1>1. g \in Graded
    BY AuditGrades DEF Graded
  <1>2. audited \in [Subjects -> Graded \cup {S!None}]
    BY DEF SellersInv
  <1>3. audited' = [audited EXCEPT ![s] = g]
    BY DEF S!Audit
  <1>4. audited' \in [Subjects -> Graded \cup {S!None}]
    BY <1>1, <1>2, <1>3
  <1>5. \A q \in Subjects : audited'[q] # S!None => audited'[q].grade = S!RunAudit(audited'[q].rec)
    <2> SUFFICES ASSUME NEW q \in Subjects, audited'[q] # S!None
                 PROVE  audited'[q].grade = S!RunAudit(audited'[q].rec)
      OBVIOUS
    <2>1. CASE q = s
      BY <1>2, <1>3, <2>1
    <2>2. CASE q # s
      BY <1>2, <1>3, <2>2 DEF SellersInv
    <2> QED
      BY <2>1, <2>2
  <1>6. UNCHANGED <<badgeCfg, badgeDay, attFile, revFile, torn, glued, registryUp, tier, badges, revoked, pending, acked>>
    BY DEF S!Audit, S!disk, S!proc
  <1>7. S!TypeOK'
    BY <1>6 DEF SellersInv, S!TypeOK
  <1> QED
    BY <1>4, <1>5, <1>6, <1>7 DEF SellersInv, Earned

LEMMA BadgeStep ==
    ASSUME SellersInv, NEW s \in Subjects, S!SignAttestation(s) \/ S!ForeignBadge(s)
    PROVE  SellersInv'
  <1>1. /\ S!TypeOK /\ attFile \in Seq(Badges)
        /\ \A i \in DOMAIN attFile : attFile[i].signed => attFile[i].grade > 0
        /\ audited \in [Subjects -> Graded \cup {S!None}]
    BY DEF SellersInv
  <1>2. badgeDay \in Nat /\ Len(attFile) \in Nat
    BY <1>1, SellersAssumption DEF S!TypeOK
  <1>3. PICK b \in Badges : /\ Len(attFile) < MaxBadges /\ attFile' = Append(attFile, b)
                            /\ b.signed => b.grade > 0
    <2>1. CASE S!SignAttestation(s)
      <3> DEFINE b == [id |-> Len(attFile) + 1, subject |-> s, grade |-> audited[s].grade,
                       expires |-> badgeDay + BadgeTTL, signed |-> TRUE]
      <3>1. audited[s] \in Graded /\ audited[s].grade > 0
        BY <1>1, <2>1 DEF S!SignAttestation
      <3>2. b \in Badges /\ b.grade > 0
        BY <1>2, <3>1, SellersAssumption DEF Badges, Graded
      <3>3. Len(attFile) < MaxBadges /\ attFile' = Append(attFile, b)
        BY <2>1 DEF S!SignAttestation
      <3> QED
        BY <3>2, <3>3
    <2>2. CASE S!ForeignBadge(s)
      <3> DEFINE b == [id |-> Len(attFile) + 1, subject |-> s, grade |-> 2,
                       expires |-> LastDay + 1, signed |-> FALSE]
      <3>1. b \in Badges /\ ~ b.signed
        BY <1>2, SellersAssumption DEF Badges
      <3>2. Len(attFile) < MaxBadges /\ attFile' = Append(attFile, b)
        BY <2>2 DEF S!ForeignBadge
      <3> QED
        BY <3>1, <3>2
    <2> QED
      BY <2>1, <2>2
  <1>4. attFile' \in Seq(Badges) /\ Len(attFile') <= MaxBadges
    BY <1>1, <1>2, <1>3, AppendPositions, SellersAssumption
  <1>5. \A i \in DOMAIN attFile' : attFile'[i].signed => attFile'[i].grade > 0
    BY <1>1, <1>3, AppendPositions
  <1>6. UNCHANGED <<badgeCfg, badgeDay, audited, revFile, torn, glued, registryUp, tier, badges, revoked, pending, acked>>
    BY DEF S!SignAttestation, S!ForeignBadge, S!proc
  <1>7. S!TypeOK'
    BY <1>1, <1>4, <1>6 DEF S!TypeOK
  <1> QED
    BY <1>4, <1>5, <1>6, <1>7 DEF SellersInv, Earned

\* What a boot reads of the badges: those it can verify, the last of each subject.
LEMMA LoadedIsEarned ==
    ASSUME SellersInv, NEW readable \in BOOLEAN
    PROVE  /\ S!Loaded(readable) \in [Subjects -> Badges \cup {S!None}]
           /\ \A s \in Subjects : S!Loaded(readable)[s] # S!None => Earned(S!Loaded(readable)[s], s)
  <1> DEFINE ok(s) == {i \in DOMAIN attFile : readable /\ attFile[i].subject = s /\ S!VerifyEnvelope(attFile[i])}
  <1>1. /\ attFile \in Seq(Badges)
        /\ \A i \in DOMAIN attFile : attFile[i].signed => attFile[i].grade > 0
    BY DEF SellersInv
  <1>2. S!Loaded(readable) = [s \in Subjects |-> IF ok(s) = {} THEN S!None ELSE attFile[Max(ok(s))]]
    BY SellersWords DEF S!Loaded
  <1>3. ASSUME NEW s \in Subjects, ok(s) # {}
        PROVE  attFile[Max(ok(s))] \in Badges /\ Earned(attFile[Max(ok(s))], s)
    <2> DEFINE I == ok(s)
    <2>1. I \in SUBSET Nat /\ Len(attFile) \in Nat /\ \A i \in I : i <= Len(attFile)
      BY <1>1
    <2>2. \A i \in I : i \in DOMAIN attFile /\ attFile[i].subject = s /\ attFile[i].signed /\ badgeCfg.seed
      BY DEF S!VerifyEnvelope
    <2>3. I # {}
      BY <1>3
    <2> HIDE DEF I
    <2>4. Max(I) \in I
      BY <2>1, <2>3, GreatestOf
    <2>5. Max(I) \in DOMAIN attFile /\ attFile[Max(I)].subject = s /\ attFile[Max(I)].signed /\ badgeCfg.seed
      BY <2>2, <2>4
    <2>6. attFile[Max(I)] \in Badges /\ attFile[Max(I)].grade > 0
      BY <1>1, <2>5
    <2>7. Earned(attFile[Max(I)], s)
      BY <2>5, <2>6 DEF Earned
    <2> QED
      BY <2>6, <2>7 DEF I
  <1> HIDE DEF ok
  <1> QED
    BY <1>2, <1>3

LEMMA LoadStep ==
    ASSUME SellersInv, NEW readable \in [rev : BOOLEAN, att : BOOLEAN], S!Boot(readable)
    PROVE  SellersInv'
  <1>1. readable.rev \in BOOLEAN /\ readable.att \in BOOLEAN
    OBVIOUS
  <1>2. /\ registryUp' = TRUE /\ tier' = (badgeCfg.store => readable.rev)
        /\ badges' = IF tier' THEN S!Loaded(readable.att) ELSE [s \in Subjects |-> S!None]
        /\ revoked' = IF tier' /\ badgeCfg.store THEN S!AllRevocations ELSE {}
        /\ ~ registryUp
        /\ UNCHANGED <<badgeCfg, badgeDay, audited, attFile, revFile, torn, glued, pending, acked>>
    BY DEF S!Boot, S!LoadRegistry, S!disk
  <1>3. /\ badges' \in [Subjects -> Badges \cup {S!None}]
        /\ \A s \in Subjects : badges'[s] # S!None => Earned(badges'[s], s)
    <2>1. CASE tier'
      BY <1>1, <1>2, <2>1, LoadedIsEarned
    <2>2. CASE ~ tier'
      BY <1>2, <2>2
    <2> QED
      BY <2>1, <2>2
  <1>4. (\A s \in Subjects : badges[s] # S!None => Earned(badges[s], s))'
    BY <1>2, <1>3 DEF Earned
  <1>5. tier' \in BOOLEAN
    BY <1>1, <1>2 DEF SellersInv
  <1>6. S!AllRevocations = Range(revFile) \ {S!Junk} /\ S!AllRevocations \subseteq S!Keys
    BY SellersWords DEF S!AllRevocations, SellersInv, S!TypeOK
  <1>7. revoked' \subseteq S!Keys
    BY <1>2, <1>6
  <1>8. S!TypeOK'
    BY <1>2, <1>7 DEF SellersInv, S!TypeOK
  <1>9. tier' => (acked \ glued) \subseteq revoked'
    <2> SUFFICES ASSUME tier', NEW k \in acked \ glued PROVE k \in revoked'
      OBVIOUS
    <2>1. badgeCfg.store /\ k \in Range(revFile) /\ k \in S!Keys
      BY DEF SellersInv, S!TypeOK
    <2>2. k # S!Junk
      BY <2>1, Unalike
    <2> QED
      BY <1>2, <1>6, <2>1, <2>2
  <1>10. registryUp' \in BOOLEAN /\ (badgeCfg.store => pending' \in Range(revFile') \cup glued' \/ pending' = S!None)
    BY <1>2 DEF SellersInv
  <1>11. badgeCfg' \in [store : BOOLEAN, key : BOOLEAN, seed : BOOLEAN] /\ (acked' # {} => badgeCfg'.store)
    BY <1>2 DEF SellersInv
  <1>12. /\ attFile' \in Seq(Badges) /\ revFile' \in Seq(S!Keys \cup {S!Junk}) /\ torn' \in BOOLEAN
         /\ \A i \in DOMAIN attFile' : attFile'[i].signed => attFile'[i].grade > 0
         /\ audited' \in [Subjects -> Graded \cup {S!None}]
         /\ \A s \in Subjects : audited'[s] # S!None => audited'[s].grade = S!RunAudit(audited'[s].rec)
         /\ acked' \ glued' \subseteq Range(revFile')
    BY <1>2 DEF SellersInv
  <1> QED
    BY <1>2, <1>3, <1>4, <1>5, <1>8, <1>9, <1>10, <1>11, <1>12 DEF SellersInv

\* A line joins the file whole, or is lost to the half line before it.
LEMMA AppendsKeep ==
    ASSUME SellersInv, NEW k \in S!Keys, Len(revFile) < MaxLines, S!Appends(k)
    PROVE  /\ revFile' \in Seq(S!Keys \cup {S!Junk}) /\ Len(revFile') <= MaxLines
           /\ Range(revFile') \subseteq S!Keys \cup {S!Junk}
           /\ Range(revFile) \subseteq Range(revFile')
           /\ glued \subseteq glued'
           /\ k \in Range(revFile') \cup glued'
           /\ torn' = FALSE
  <1> DEFINE x == IF torn THEN S!Junk ELSE k
  <1>1. revFile \in Seq(S!Keys \cup {S!Junk}) /\ torn \in BOOLEAN
    BY DEF SellersInv
  <1>2. x \in S!Keys \cup {S!Junk}
    OBVIOUS
  <1>3. revFile' = Append(revFile, x) /\ glued' = (IF torn THEN glued \cup {k} ELSE glued) /\ torn' = FALSE
    BY DEF S!Appends
  <1>4. /\ revFile' \in Seq(S!Keys \cup {S!Junk}) /\ Range(revFile') = Range(revFile) \cup {x}
        /\ Len(revFile') = Len(revFile) + 1
    BY <1>1, <1>2, <1>3, AppendRange
  <1>5. Len(revFile) \in Nat
    BY <1>1
  <1>6. Range(revFile) \subseteq S!Keys \cup {S!Junk}
    BY <1>1 DEF Range
  <1> QED
    BY <1>1, <1>2, <1>3, <1>4, <1>5, <1>6, SellersAssumption

LEMMA PersistStep ==
    ASSUME SellersInv, NEW k \in S!Keys, S!RevokePersists(k)
    PROVE  SellersInv'
  <1>1. /\ registryUp /\ tier /\ Len(revFile) < MaxLines /\ pending' = k
        /\ UNCHANGED <<badgeCfg, badgeDay, audited, attFile, registryUp, tier, badges, revoked, acked>>
    BY DEF S!RevokePersists
  <1>2. k # S!None
    BY Unalike
  <1>3. CASE badgeCfg.store
    <2>1. S!Appends(k)
      BY <1>3 DEF S!RevokePersists
    <2>2. /\ revFile' \in Seq(S!Keys \cup {S!Junk}) /\ Len(revFile') <= MaxLines
          /\ Range(revFile') \subseteq S!Keys \cup {S!Junk}
          /\ Range(revFile) \subseteq Range(revFile')
          /\ glued \subseteq glued'
          /\ k \in Range(revFile') \cup glued'
          /\ torn' = FALSE
      BY <1>1, <2>1, AppendsKeep
    <2>3. S!TypeOK'
      BY <1>1, <2>2, SellersWords DEF SellersInv, S!TypeOK
    <2> QED
      BY <1>1, <2>2, <2>3 DEF SellersInv, Earned
  <1>4. CASE ~ badgeCfg.store
    <2>1. UNCHANGED <<revFile, torn, glued>>
      BY <1>4 DEF S!RevokePersists
    <2>2. S!TypeOK'
      BY <1>1, <2>1 DEF SellersInv, S!TypeOK
    <2> QED
      BY <1>1, <1>4, <2>1, <2>2 DEF SellersInv, Earned
  <1> QED
    BY <1>3, <1>4

LEMMA FailStep ==
    ASSUME SellersInv, NEW k \in S!Keys, NEW written, S!RevokeFails(k, written)
    PROVE  SellersInv'
  <1>1. /\ Len(revFile) < MaxLines /\ pending = S!None
        /\ UNCHANGED <<badgeCfg, badgeDay, audited, attFile, registryUp, tier, badges, revoked, pending, acked>>
    BY DEF S!RevokeFails, S!proc
  <1>2. CASE S!Appends(k)
    <2>2. /\ revFile' \in Seq(S!Keys \cup {S!Junk}) /\ Len(revFile') <= MaxLines
          /\ Range(revFile') \subseteq S!Keys \cup {S!Junk}
          /\ Range(revFile) \subseteq Range(revFile')
          /\ glued \subseteq glued'
          /\ torn' = FALSE
      BY <1>1, <1>2, AppendsKeep
    <2>3. S!TypeOK'
      BY <1>1, <2>2, SellersWords DEF SellersInv, S!TypeOK
    <2> QED
      BY <1>1, <2>2, <2>3 DEF SellersInv, Earned
  <1>3. CASE torn' \in BOOLEAN /\ UNCHANGED <<revFile, glued>>
    <2>2. S!TypeOK'
      BY <1>1, <1>3 DEF SellersInv, S!TypeOK
    <2> QED
      BY <1>1, <1>3, <2>2 DEF SellersInv, Earned
  <1>4. torn \in BOOLEAN
    BY DEF SellersInv
  <1> QED
    BY <1>2, <1>3, <1>4 DEF S!RevokeFails

LEMMA DoneStep ==
    ASSUME SellersInv, S!RevokeDone
    PROVE  SellersInv'
  <1>1. /\ registryUp /\ pending # S!None /\ revoked' = revoked \cup {pending} /\ pending' = S!None
        /\ acked' = (IF badgeCfg.store THEN acked \cup {pending} ELSE acked)
        /\ UNCHANGED <<badgeCfg, badgeDay, audited, attFile, revFile, torn, glued, registryUp, tier, badges>>
    BY DEF S!RevokeDone, S!disk
  <1>2. pending \in S!Keys
    BY <1>1 DEF SellersInv, S!TypeOK
  <1>3. S!TypeOK'
    BY <1>1, <1>2 DEF SellersInv, S!TypeOK
  <1>4. acked' \ glued' \subseteq Range(revFile')
    BY <1>1 DEF SellersInv
  <1>5. tier' => acked' \ glued' \subseteq revoked'
    BY <1>1 DEF SellersInv
  <1>6. acked' # {} => badgeCfg'.store
    BY <1>1 DEF SellersInv
  <1> QED
    BY <1>1, <1>3, <1>4, <1>5, <1>6 DEF SellersInv, Earned

LEMMA CrashStep ==
    ASSUME SellersInv, NEW tears \in BOOLEAN, S!Crash(tears)
    PROVE  SellersInv'
  <1>1. /\ registryUp' = FALSE /\ tier' = FALSE /\ badges' = [s \in Subjects |-> S!None]
        /\ revoked' = {} /\ pending' = S!None /\ torn' = (torn \/ tears)
        /\ UNCHANGED <<badgeCfg, badgeDay, audited, attFile, revFile, glued, acked>>
    BY DEF S!Crash
  <1>2. S!TypeOK'
    BY <1>1 DEF SellersInv, S!TypeOK
  <1>3. badges' \in [Subjects -> Badges \cup {S!None}] /\ \A s \in Subjects : badges'[s] = S!None
    BY <1>1
  <1> QED
    BY <1>1, <1>2, <1>3 DEF SellersInv

LEMMA DayStep ==
    ASSUME SellersInv, S!NextDay
    PROVE  SellersInv'
  <1>1. /\ badgeDay < LastDay /\ badgeDay' = badgeDay + 1
        /\ UNCHANGED <<badgeCfg, audited, attFile, revFile, torn, glued, registryUp, tier, badges, revoked, pending, acked>>
    BY DEF S!NextDay, S!disk, S!proc
  <1>2. badgeDay' \in 0..LastDay
    BY <1>1, SellersAssumption DEF SellersInv, S!TypeOK
  <1>3. S!TypeOK'
    BY <1>1, <1>2 DEF SellersInv, S!TypeOK
  <1> QED
    BY <1>1, <1>3 DEF SellersInv, Earned

LEMMA SellersSame ==
    ASSUME SellersInv, UNCHANGED sellerVars
    PROVE  SellersInv'
  <1>1. UNCHANGED <<badgeCfg, badgeDay, audited, attFile, revFile, torn, registryUp, tier, badges,
                    revoked, pending, acked, glued>>
    BY DEF sellerVars
  <1>2. S!TypeOK'
    BY <1>1 DEF SellersInv, S!TypeOK
  <1> QED
    BY <1>1, <1>2 DEF SellersInv, Earned

\* One step of the badges, operation by operation.
LEMMA SellersStep ==
    ASSUME SellersInv, S!Next
    PROVE  SellersInv'
  <1>1. S!RevokeRefused => UNCHANGED sellerVars
    BY DEF S!RevokeRefused, S!vars, sellerVars
  <1>2. CASE \E s \in Subjects, r \in Records : S!Audit(s, r)
    BY <1>2, AuditStep
  <1>3. CASE \E s \in Subjects : S!SignAttestation(s) \/ S!ForeignBadge(s)
    BY <1>3, BadgeStep
  <1>4. CASE \E readable \in [rev : BOOLEAN, att : BOOLEAN] : S!Boot(readable)
    BY <1>4, LoadStep
  <1>5. CASE \E k \in S!Keys : S!RevokePersists(k)
    BY <1>5, PersistStep
  <1>6. CASE \E k \in S!Keys, written \in {"none", "half", "all"} : S!RevokeFails(k, written)
    BY <1>6, FailStep
  <1>7. CASE S!RevokeRefused \/ S!RevokeDone
    BY <1>1, <1>7, SellersSame, DoneStep
  <1>8. CASE \E tears \in BOOLEAN : S!Crash(tears)
    BY <1>8, CrashStep
  <1>9. CASE S!NextDay
    BY <1>9, DayStep
  <1> QED
    BY <1>2, <1>3, <1>4, <1>5, <1>6, <1>7, <1>8, <1>9 DEF S!Next

\* A durable revocation is honoured, and a floor is earned.
LEMMA SellersSound ==
    ASSUME SellersInv
    PROVE  S!TypeOK /\ S!RevokedStaysRevoked /\ S!FloorIsEarned
  <1>1. ASSUME NEW s \in Subjects, S!Credential(s) # S!None
        PROVE  /\ S!Credential(s) = badges[s] /\ registryUp /\ tier /\ badges[s] # S!None
               /\ badgeDay < badges[s].expires
               /\ {S!Subject(badges[s].subject), S!Id(badges[s].id)} \cap revoked = {}
    BY <1>1 DEF S!Credential, S!CheckWindow
  <1>2. ASSUME NEW s \in Subjects, S!Credential(s) # S!None
        PROVE  {S!Subject(s), S!Id(S!Credential(s).id)} \cap (acked \ glued) = {}
    <2>1. badges[s].subject = s /\ acked \ glued \subseteq revoked
      BY <1>1, <1>2 DEF SellersInv, Earned
    <2> QED
      BY <1>1, <1>2, <2>1
  <1>3. ASSUME NEW s \in Subjects, S!Credential(s) # S!None
        PROVE  /\ S!Credential(s).signed /\ badgeCfg.seed /\ S!Credential(s).grade > 0
               /\ badgeDay < S!Credential(s).expires /\ S!Credential(s).subject = s
    BY <1>1, <1>3 DEF SellersInv, Earned
  <1> QED
    BY <1>2, <1>3 DEF SellersInv, S!RevokedStaysRevoked, S!FloorIsEarned

\* The grades of an audit follow its evidence.
LEMMA AuditIsMonotone ==
    ASSUME NEW r \in Records, NEW q \in Records, S!Better(r, q)
    PROVE  S!RunAudit(r) >= S!RunAudit(q)
  <1>1. /\ r.clear \in BOOLEAN /\ r.ready \in 0..2 /\ r.dispute \in Nat /\ r.peer \in 0..1 /\ r.history \in 0..1
        /\ q.clear \in BOOLEAN /\ q.ready \in 0..2 /\ q.dispute \in Nat /\ q.peer \in 0..1 /\ q.history \in 0..1
    BY SellersAssumption
  <1>2. /\ q.clear => r.clear
        /\ r.ready >= q.ready /\ r.history >= q.history
        /\ r.dispute <= q.dispute /\ r.peer <= q.peer
    BY DEF S!Better
  <1>3. CASE S!RunAudit(q) = 0
    BY <1>3, AuditGrades
  <1>4. CASE S!RunAudit(q) = 1
    <2>1. q.clear /\ q.ready # 0 /\ ~(q.dispute > 1) /\ q.peer # 1
      BY <1>4 DEF S!RunAudit
    <2>2. r.clear /\ r.ready # 0 /\ ~(r.dispute > 1) /\ r.peer # 1
      BY <1>1, <1>2, <2>1
    <2> QED
      BY <1>4, <2>2 DEF S!RunAudit
  <1>5. CASE S!RunAudit(q) = 2
    <2>1. q.clear /\ q.ready = 2 /\ q.history = 1 /\ q.dispute = 0 /\ q.peer # 1
      BY <1>5 DEF S!RunAudit
    <2>2. r.clear /\ r.ready = 2 /\ r.history = 1 /\ r.dispute = 0 /\ r.peer # 1
      BY <1>1, <1>2, <2>1
    <2> QED
      BY <1>5, <2>2 DEF S!RunAudit
  <1> QED
    BY <1>3, <1>4, <1>5, AuditGrades

LEMMA SellersKeep ==
    ASSUME SellersInv, SellersInv'
    PROVE  S!BetterNeverLower
  <1> SUFFICES ASSUME NEW s \in Subjects, audited[s] # S!None, audited'[s] # S!None,
                      S!Better(audited'[s].rec, audited[s].rec)
               PROVE  audited'[s].grade >= audited[s].grade
    BY DEF S!BetterNeverLower
  <1>1. audited[s] \in Graded /\ audited[s].grade = S!RunAudit(audited[s].rec)
    BY DEF SellersInv
  <1>2. audited'[s] \in Graded /\ audited'[s].grade = S!RunAudit(audited'[s].rec)
    BY DEF SellersInv
  <1>3. audited[s].rec \in Records /\ audited'[s].rec \in Records
    BY <1>1, <1>2 DEF Graded
  <1> QED
    BY <1>1, <1>2, <1>3, AuditIsMonotone

-----------------------------------------------------------------------------
(* The sanctions list.                                                      *)

Lookups == [pc : {"idle", "check", "bill", "verdict", "answered"}, addr : Addresses \cup {"none"},
            free : BOOLEAN, paid : BOOLEAN, verdict : {"none", "GO", "STOP"}]

\* A counterparty found listed once is listed still; without a payment it was found listed.
Founded(f, l) ==
    /\ f.pc \in {"verdict", "answered"} /\ ~ f.paid => f.addr \in l
    /\ f.pc = "answered" /\ ~ f.paid => f.verdict = "STOP"

ScreenInv ==
    /\ C!TypeOK
    /\ up \in BOOLEAN /\ said \in BOOLEAN /\ snapshot \subseteq Addresses /\ feed \subseteq Addresses
    /\ screenTh \in [Threads -> Lookups]
    /\ ~ up => \A t \in Threads : screenTh[t] = C!Idle
    /\ \A t \in Threads : Founded(screenTh[t], list)
    /\ C!ScreeningKept

LEMMA ScreenIdle == C!Idle \in Lookups /\ C!Idle.pc = "idle"
  BY DEF C!Idle, Lookups

LEMMA ScreenInit == C!Init => ScreenInv
  <1> SUFFICES ASSUME C!Init PROVE ScreenInv
    OBVIOUS
  <1>1. /\ screenTh \in [Threads -> Lookups] /\ \A t \in Threads : screenTh[t] = C!Idle
    BY ScreenIdle DEF C!Init
  <1>2. \A t \in Threads : Founded(screenTh[t], list) /\ screenTh[t].pc = "idle"
    BY <1>1, ScreenIdle DEF Founded
  <1>3. C!TypeOK
    BY <1>2 DEF C!Init, C!TypeOK
  <1>4. C!ScreeningKept /\ up \in BOOLEAN /\ said \in BOOLEAN
    BY DEF C!Init, C!ScreeningKept
  <1>5. snapshot \subseteq Addresses /\ feed \subseteq Addresses
    BY ScreeningAssumption DEF C!Init
  <1> QED
    BY <1>1, <1>2, <1>3, <1>4, <1>5 DEF ScreenInv

LEMMA ScreenPcs ==
    ASSUME NEW h \in [Threads -> Lookups]
    PROVE  \A t \in Threads : h[t].pc \in {"idle", "check", "bill", "verdict", "answered"}
  BY DEF Lookups

\* The list grows or stays while requests stand where they are.
LEMMA ListStep ==
    ASSUME ScreenInv, UNCHANGED screenTh, list \subseteq list',
           list' \subseteq Addresses, ever' \subseteq Addresses, merging' \subseteq Addresses,
           refresh' \in {"none", "fetch", "merge", "done"},
           up' \in BOOLEAN, said' \in BOOLEAN, up \/ UNCHANGED screenTh,
           snapshot' = snapshot, feed' \subseteq Addresses,
           up' \/ ~ up,
           up' => snapshot \cup ever' \subseteq list' /\ (said' => list' # {})
    PROVE  ScreenInv'
  <1>1. screenTh' \in [Threads -> Lookups]
    BY DEF ScreenInv
  <1>2. C!TypeOK'
    BY DEF ScreenInv, C!TypeOK
  <1>3. \A t \in Threads : Founded(screenTh'[t], list')
    BY DEF ScreenInv, Founded
  <1>4. ~ up' => \A t \in Threads : screenTh'[t] = C!Idle
    BY DEF ScreenInv
  <1>5. C!ScreeningKept'
    BY DEF C!ScreeningKept
  <1>6. snapshot' \subseteq Addresses
    BY DEF ScreenInv
  <1> QED
    BY <1>1, <1>2, <1>3, <1>4, <1>5, <1>6 DEF ScreenInv

\* A request of a running process moves.
LEMMA LookupStep ==
    ASSUME ScreenInv, NEW t \in Threads, NEW f \in Lookups, Founded(f, list), up,
           screenTh' = [screenTh EXCEPT ![t] = f],
           UNCHANGED <<snapshot, feed, up, list, refresh, merging, ever, said>>
    PROVE  ScreenInv'
  <1>1. screenTh \in [Threads -> Lookups]
    BY DEF ScreenInv
  <1>2. screenTh' \in [Threads -> Lookups]
    BY <1>1
  <1>3. \A q \in Threads : Founded(screenTh'[q], list)
    <2> TAKE q \in Threads
    <2>1. CASE q = t
      BY <1>1, <2>1
    <2>2. CASE q # t
      BY <1>1, <2>2 DEF ScreenInv
    <2> QED
      BY <2>1, <2>2
  <1>4. C!TypeOK'
    BY <1>2, ScreenPcs DEF ScreenInv, C!TypeOK
  <1>5. C!ScreeningKept'
    BY DEF ScreenInv, C!ScreeningKept
  <1> QED
    BY <1>2, <1>3, <1>4, <1>5 DEF ScreenInv

LEMMA FreshLookup ==
    ASSUME NEW a \in Addresses
    PROVE  [C!Idle EXCEPT !.pc = "check", !.addr = a] \in Lookups
           /\ [C!Idle EXCEPT !.pc = "check", !.addr = a].pc = "check"
  BY DEF C!Idle, Lookups

LEMMA ScreenStep ==
    ASSUME ScreenInv, C!Next
    PROVE  ScreenInv'
  <1>1. /\ list \subseteq Addresses /\ ever \subseteq Addresses /\ merging \subseteq Addresses
        /\ refresh \in {"none", "fetch", "merge", "done"}
        /\ up \in BOOLEAN /\ said \in BOOLEAN /\ snapshot \subseteq Addresses /\ feed \subseteq Addresses
        /\ screenTh \in [Threads -> Lookups]
        /\ ~ up => \A t \in Threads : screenTh[t] = C!Idle
        /\ \A t \in Threads : Founded(screenTh[t], list)
        /\ up => snapshot \cup ever \subseteq list /\ (said => list # {})
    BY DEF ScreenInv, C!TypeOK, C!ScreeningKept
  <1>2. ASSUME NEW b \in BOOLEAN, C!Boot(b) PROVE ScreenInv'
    <2>1. /\ ~ up /\ up' = TRUE /\ list' = snapshot /\ ever' = snapshot /\ merging' = {} /\ said' = FALSE
          /\ refresh' \in {"fetch", "none"}
          /\ UNCHANGED <<snapshot, feed, screenTh>>
      BY <1>2 DEF C!Boot
    <2>2. \A t \in Threads : Founded(screenTh'[t], list')
      BY <1>1, <2>1, ScreenIdle DEF Founded
    <2>3. C!TypeOK'
      BY <1>1, <2>1, ScreenPcs DEF C!TypeOK
    <2>4. C!ScreeningKept'
      BY <2>1 DEF C!ScreeningKept
    <2> QED
      BY <1>1, <2>1, <2>2, <2>3, <2>4 DEF ScreenInv
  <1>3. ASSUME NEW f \in Feeds, C!Publish(f) PROVE ScreenInv'
    BY <1>1, <1>3, ListStep, ScreeningAssumption DEF C!Publish
  <1>4. ASSUME C!Fetch \/ C!FetchFails \/ C!MergeDone \/ C!Descriptor PROVE ScreenInv'
    <2>1. UNCHANGED <<snapshot, feed, up, list, ever, screenTh>>
      BY <1>4 DEF C!Fetch, C!FetchFails, C!MergeDone, C!Descriptor
    <2>2. /\ merging' \subseteq Addresses /\ refresh' \in {"none", "fetch", "merge", "done"}
      BY <1>1, <1>4 DEF C!Fetch, C!FetchFails, C!MergeDone, C!Descriptor
    <2>3. said' \in BOOLEAN /\ (said' => said \/ list # {})
      BY <1>1, <1>4 DEF C!Fetch, C!FetchFails, C!MergeDone, C!Descriptor
    <2>4. up' => snapshot \cup ever' \subseteq list' /\ (said' => list' # {})
      BY <1>1, <2>1, <2>3
    <2> QED
      BY <1>1, <2>1, <2>2, <2>3, <2>4, ListStep
  <1>5. ASSUME NEW a \in Addresses, C!Merge(a) PROVE ScreenInv'
    <2>1. /\ list' = list \cup {a} /\ ever' = ever \cup {a} /\ merging' = merging \ {a}
          /\ UNCHANGED <<snapshot, feed, up, refresh, said, screenTh>>
      BY <1>5 DEF C!Merge
    <2> QED
      BY <1>1, <2>1, ListStep
  <1>6. ASSUME C!Restart PROVE ScreenInv'
    <2>1. /\ up' = FALSE /\ list' = {} /\ ever' = {} /\ merging' = {} /\ refresh' = "none" /\ said' = FALSE
          /\ screenTh' = [t \in Threads |-> C!Idle] /\ UNCHANGED <<snapshot, feed>>
      BY <1>6 DEF C!Restart
    <2>2. screenTh' \in [Threads -> Lookups] /\ \A t \in Threads : screenTh'[t] = C!Idle
      BY <2>1, ScreenIdle
    <2>3. \A t \in Threads : Founded(screenTh'[t], list')
      BY <2>2, ScreenIdle DEF Founded
    <2>4. C!TypeOK'
      BY <2>1, <2>2, ScreenPcs DEF C!TypeOK
    <2>5. C!ScreeningKept'
      BY <2>1 DEF C!ScreeningKept
    <2> QED
      BY <1>1, <2>1, <2>2, <2>3, <2>4, <2>5 DEF ScreenInv
  <1>7. ASSUME NEW t \in Threads, NEW a \in Addresses, C!Forecast(t, a) PROVE ScreenInv'
    <2>1. PICK f \in Lookups : /\ f.pc = "check" /\ screenTh' = [screenTh EXCEPT ![t] = f]
                               /\ up /\ UNCHANGED <<snapshot, feed, up, list, refresh, merging, ever, said>>
      BY <1>7, FreshLookup DEF C!Forecast
    <2>2. Founded(f, list)
      BY <2>1 DEF Founded
    <2> QED
      BY <2>1, <2>2, LookupStep
  <1>8. ASSUME NEW t \in Threads, screenTh[t].pc # "idle" PROVE up /\ screenTh[t] \in Lookups
    BY <1>1, <1>8, ScreenIdle
  <1>9. ASSUME NEW t \in Threads, C!Check(t) PROVE ScreenInv'
    <2> DEFINE f == [screenTh[t] EXCEPT !.pc = IF screenTh[t].addr \in list THEN "verdict" ELSE "bill",
                                        !.free = screenTh[t].addr \in list]
    <2>1. /\ screenTh[t].pc = "check" /\ screenTh' = [screenTh EXCEPT ![t] = f]
          /\ UNCHANGED <<snapshot, feed, up, list, refresh, merging, ever, said>>
      BY <1>1, <1>9 DEF C!Check
    <2>2. up /\ screenTh[t] \in Lookups
      BY <1>8, <2>1
    <2>3. /\ f \in Lookups /\ f.pc \in {"verdict", "bill"} /\ f.addr = screenTh[t].addr
          /\ f.pc = "verdict" => screenTh[t].addr \in list
      <3>1. (screenTh[t].addr \in list) \in BOOLEAN
        OBVIOUS
      <3>2. PICK b \in BOOLEAN : b = (screenTh[t].addr \in list)
        BY <3>1, Zenon
      <3>3. PICK p \in {"verdict", "bill"} : p = IF screenTh[t].addr \in list THEN "verdict" ELSE "bill"
        OBVIOUS
      <3>4. f = [screenTh[t] EXCEPT !.pc = p, !.free = b]
        BY <3>2, <3>3, Zenon
      <3> HIDE DEF f
      <3>5. f \in Lookups /\ f.pc = p /\ f.addr = screenTh[t].addr
        BY <2>2, <3>4 DEF Lookups
      <3> QED
        BY <3>3, <3>5
    <2>4. Founded(f, list)
      BY <2>3 DEF Founded
    <2> HIDE DEF f
    <2> QED
      BY <2>1, <2>2, <2>3, <2>4, LookupStep
  <1>10. ASSUME NEW t \in Threads, NEW pays \in BOOLEAN, C!Bill(t, pays) PROVE ScreenInv'
    <2> DEFINE f == IF pays THEN [screenTh[t] EXCEPT !.pc = "verdict", !.paid = TRUE] ELSE C!Idle
    <2>1. /\ screenTh[t].pc = "bill" /\ screenTh' = [screenTh EXCEPT ![t] = f]
          /\ UNCHANGED <<snapshot, feed, up, list, refresh, merging, ever, said>>
      BY <1>1, <1>10 DEF C!Bill
    <2>2. up /\ screenTh[t] \in Lookups
      BY <1>8, <2>1
    <2>3. CASE pays
      <3>1. f \in Lookups /\ f.paid
        BY <2>2, <2>3 DEF Lookups
      <3> QED
        BY <2>1, <2>2, <3>1, LookupStep DEF Founded
    <2>4. CASE ~ pays
      <3>1. f \in Lookups /\ f.pc = "idle"
        BY <2>4, ScreenIdle
      <3> QED
        BY <2>1, <2>2, <3>1, LookupStep DEF Founded
    <2> QED
      BY <2>3, <2>4
  <1>11. ASSUME NEW t \in Threads, C!Verdict(t) PROVE ScreenInv'
    <2> DEFINE f == [screenTh[t] EXCEPT !.pc = "answered",
                                        !.verdict = IF screenTh[t].addr \in list THEN "STOP" ELSE "GO"]
    <2>1. /\ screenTh[t].pc = "verdict" /\ screenTh' = [screenTh EXCEPT ![t] = f]
          /\ UNCHANGED <<snapshot, feed, up, list, refresh, merging, ever, said>>
      BY <1>1, <1>11 DEF C!Verdict
    <2>2. up /\ screenTh[t] \in Lookups /\ Founded(screenTh[t], list)
      BY <1>1, <1>8, <2>1
    <2>3. /\ f \in Lookups /\ f.addr = screenTh[t].addr /\ f.paid = screenTh[t].paid
          /\ f.verdict = IF screenTh[t].addr \in list THEN "STOP" ELSE "GO"
      BY <2>1, <2>2 DEF Lookups
    <2>4. Founded(f, list)
      BY <2>1, <2>2, <2>3 DEF Founded
    <2> HIDE DEF f
    <2> QED
      BY <2>1, <2>2, <2>3, <2>4, LookupStep
  <1>12. ASSUME NEW t \in Threads, C!Answered(t) PROVE ScreenInv'
    <2>1. /\ screenTh[t].pc = "answered" /\ screenTh' = [screenTh EXCEPT ![t] = C!Idle]
          /\ UNCHANGED <<snapshot, feed, up, list, refresh, merging, ever, said>>
      BY <1>12 DEF C!Answered
    <2>2. up /\ Founded(C!Idle, list)
      BY <1>8, <2>1, ScreenIdle DEF Founded
    <2> QED
      BY <2>1, <2>2, ScreenIdle, LookupStep
  <1> QED
    BY <1>2, <1>3, <1>4, <1>5, <1>6, <1>7, <1>9, <1>10, <1>11, <1>12 DEF C!Next

LEMMA ScreenSame ==
    ASSUME ScreenInv, UNCHANGED screenVars
    PROVE  ScreenInv'
  <1>1. UNCHANGED <<snapshot, feed, up, list, refresh, merging, ever, said, screenTh>>
    BY DEF screenVars
  <1> QED
    BY <1>1 DEF ScreenInv, C!TypeOK, C!ScreeningKept

LEMMA ScreenSound ==
    ASSUME ScreenInv
    PROVE  C!TypeOK /\ C!FreeIsStop /\ C!ScreeningKept
  BY DEF ScreenInv, Founded, C!FreeIsStop

-----------------------------------------------------------------------------
(* The rate limiter.                                                        *)

Buckets == [key : Clients, tokens : Int, last : Nat]

Callers == [pc : {"idle", "limit", "serve"}, client : Clients \cup {"none"}, now : Nat]

\* What a bucket's tokens say of the requests let through and of those since it was made.
Honest(e, now, let, here, m, since) ==
    /\ e.tokens \in (-Skew)..L!Capacity /\ e.last <= now /\ m > 0
    /\ let * Cost + e.tokens <= m * L!Capacity + (m - 1) * Skew + (e.last - since)
    /\ e.last - e.tokens <= now
    /\ e.tokens + here * Cost >= L!Capacity + (e.last - now)

\* Each client has one bucket at most.
Keyed(s) == \A i, j \in DOMAIN s : s[i].key = s[j].key => i = j

LimitInv ==
    /\ clock \in 0..MaxTime
    /\ buckets \in Seq(Buckets) /\ Len(buckets) <= MaxKeys /\ Keyed(buckets)
    /\ th \in [Threads -> Callers]
    /\ \A t \in Threads : th[t].pc = "limit" => /\ th[t].client \in Clients
                                                /\ th[t].now <= clock /\ clock - th[t].now <= Skew
    /\ admitted \in [Clients -> Nat] /\ spent \in [Clients -> Nat] /\ made \in [Clients -> Nat]
    /\ first \in [Clients -> Nat] /\ stats \in [requests : Nat, rate_limited : Nat]
    /\ \A c \in Clients : made[c] = 0 => admitted[c] = 0
    /\ \A i \in DOMAIN buckets :
         LET c == buckets[i].key IN Honest(buckets[i], clock, admitted[c], spent[c], made[c], first[c])
    /\ L!AdmittedBounded

LEMMA Sizes ==
    /\ Burst \in Nat /\ Burst > 0 /\ Cost \in Nat /\ Cost > 0 /\ Skew \in Nat /\ MaxKeys \in Nat /\ MaxKeys > 0
    /\ L!Capacity \in Nat /\ L!Capacity >= Cost
  <1>1. Burst \in Nat /\ Burst >= 1 /\ Cost \in Nat /\ Cost > 0 /\ Skew \in Nat /\ MaxKeys \in Nat /\ MaxKeys > 0
    BY LimitAssumption
  <1>2. PICK b \in Nat : Burst = b + 1
    <2>1. Burst - 1 \in Nat /\ Burst = (Burst - 1) + 1
      BY <1>1
    <2> QED
      BY <2>1
  <1>3. b * Cost \in Nat /\ (b + 1) * Cost = b * Cost + Cost
    BY <1>1
  <1> QED
    BY <1>1, <1>2, <1>3 DEF L!Capacity

LEMMA LimitWords ==
    /\ \A a, b \in Int : L!Min({a, b}) = IF a <= b THEN a ELSE b
    /\ \A s, i : L!RemoveAt(s, i) = SubSeq(s, 1, i - 1) \o SubSeq(s, i + 1, Len(s))
  <1>1. ASSUME NEW a \in Int, NEW b \in Int, a <= b PROVE L!Min({a, b}) = a
    BY <1>1 DEF L!Min
  <1>2. ASSUME NEW a \in Int, NEW b \in Int, ~(a <= b) PROVE L!Min({a, b}) = b
    BY <1>2 DEF L!Min
  <1>3. \A s, i : L!RemoveAt(s, i) = SubSeq(s, 1, i - 1) \o SubSeq(s, i + 1, Len(s))
    BY DEF L!RemoveAt
  <1> QED
    BY <1>1, <1>2, <1>3

\* An entry taken out and put back last.
Moved(s, i, x) == Append(SubSeq(s, 1, i - 1) \o SubSeq(s, i + 1, Len(s)), x)

LEMMA MovedLast ==
    ASSUME NEW T, NEW s \in Seq(T), NEW i \in DOMAIN s, NEW x \in T
    PROVE  /\ Moved(s, i, x) \in Seq(T) /\ Len(Moved(s, i, x)) = Len(s)
           /\ \A j \in 1..Len(s) :
                Moved(s, i, x)[j] = IF j < i THEN s[j] ELSE IF j < Len(s) THEN s[j + 1] ELSE x
  <1> DEFINE a == SubSeq(s, 1, i - 1)
             b == SubSeq(s, i + 1, Len(s))
             m == a \o b
             r == Append(m, x)
  <1>1. Len(s) \in Nat /\ i \in 1..Len(s)
    OBVIOUS
  <1>2. a \in Seq(T) /\ Len(a) = i - 1 /\ \A j \in 1..(i - 1) : a[j] = s[j]
    BY <1>1
  <1>3. b \in Seq(T) /\ Len(b) = Len(s) - i /\ \A j \in 1..(Len(s) - i) : b[j] = s[j + i]
    BY <1>1
  <1> HIDE DEF a, b
  <1>4. m \in Seq(T) /\ Len(m) = Len(s) - 1
    BY <1>1, <1>2, <1>3
  <1>5. \A j \in 1..(Len(s) - 1) : m[j] = IF j < i THEN s[j] ELSE s[j + 1]
    <2> SUFFICES ASSUME NEW j \in 1..(Len(s) - 1) PROVE m[j] = IF j < i THEN s[j] ELSE s[j + 1]
      OBVIOUS
    <2>1. CASE j < i
      <3>1. j \in 1..Len(a)
        BY <1>1, <1>2, <2>1
      <3>2. m[j] = a[j]
        BY <1>2, <1>3, <3>1
      <3> QED
        BY <1>1, <1>2, <2>1, <3>1, <3>2
    <2>2. CASE ~(j < i)
      <3>1. j - Len(a) \in 1..Len(b) /\ (j - Len(a)) + i = j + 1
        BY <1>1, <1>2, <1>3, <2>2
      <3>2. m[j] = b[j - Len(a)]
        BY <1>1, <1>2, <1>3, <2>2
      <3> QED
        BY <1>1, <1>2, <1>3, <2>2, <3>1, <3>2
    <2> QED
      BY <2>1, <2>2
  <1> HIDE DEF m
  <1>6. r \in Seq(T) /\ Len(r) = Len(s) /\ r[Len(s)] = x
    BY <1>1, <1>4
  <1>7. \A j \in 1..(Len(s) - 1) : r[j] = m[j]
    BY <1>1, <1>4
  <1> HIDE DEF r
  <1>8. \A j \in 1..Len(s) : r[j] = IF j < i THEN s[j] ELSE IF j < Len(s) THEN s[j + 1] ELSE x
    <2> SUFFICES ASSUME NEW j \in 1..Len(s)
                 PROVE  r[j] = IF j < i THEN s[j] ELSE IF j < Len(s) THEN s[j + 1] ELSE x
      OBVIOUS
    <2>1. CASE j = Len(s)
      BY <1>1, <1>6, <2>1
    <2>2. CASE j # Len(s)
      <3>1. j \in 1..(Len(s) - 1)
        BY <1>1, <2>2
      <3> QED
        BY <1>1, <1>5, <1>7, <3>1
    <2> QED
      BY <2>1, <2>2
  <1> QED
    BY <1>6, <1>8 DEF r, m, a, b, Moved

\* A refill is what the time since the last use gives, up to a full bucket.
LEMMA RefillIsHonest ==
    ASSUME NEW e \in Buckets, NEW now \in Nat, NEW cl \in Nat, NEW let \in Nat, NEW here \in Nat,
           NEW m \in Nat, NEW since \in Nat,
           Honest(e, cl, let, here, m, since), now <= cl, cl - now <= Skew
    PROVE  LET tokens == L!Refilled(e, now)
               kept   == [e EXCEPT !.tokens = tokens, !.last = now]
               taken  == [e EXCEPT !.tokens = tokens - Cost, !.last = now]
           IN  /\ kept \in Buckets /\ taken \in Buckets
               /\ Honest(kept, cl, let, here, m, since)
               /\ tokens >= Cost => Honest(taken, cl, let + 1, here + 1, m, since)
               /\ tokens < Cost => (here + 1) * Cost > L!Capacity - Skew
  <1> DEFINE cap == L!Capacity
             tokens == L!Refilled(e, now)
             kept == [e EXCEPT !.tokens = tokens, !.last = now]
             taken == [e EXCEPT !.tokens = tokens - Cost, !.last = now]
             pl == let * Cost
             ph == here * Cost
             pm == m * cap + (m - 1) * Skew
  <1>0. Cost \in Nat /\ Cost > 0 /\ Skew \in Nat /\ cap \in Nat /\ cap >= Cost
    BY Sizes
  <1>1. e.key \in Clients /\ e.tokens \in Int /\ e.last \in Nat /\ DOMAIN e = {"key", "tokens", "last"}
    BY DEF Buckets
  <1>2. pl \in Int /\ ph \in Int /\ ph >= 0 /\ pm \in Int /\ (let + 1) * Cost = pl + Cost /\ (here + 1) * Cost = ph + Cost
    BY <1>0
  <1>3. /\ e.tokens >= -Skew /\ e.tokens <= cap /\ e.last <= cl /\ m > 0
        /\ pl + e.tokens <= pm + (e.last - since)
        /\ e.last - e.tokens <= cl
        /\ e.tokens + ph >= cap + (e.last - cl)
    BY <1>0 DEF Honest
  <1> HIDE DEF cap, pl, ph, pm
  <1>4. tokens = IF cap <= e.tokens + (now - e.last) THEN cap ELSE e.tokens + (now - e.last)
    BY <1>0, <1>1, LimitWords DEF L!Refilled, cap
  <1> HIDE DEF tokens
  <1>5. tokens \in Int /\ tokens >= -Skew /\ tokens <= cap
    BY <1>0, <1>1, <1>3, <1>4
  <1>6. /\ pl + tokens <= pm + (now - since)
        /\ now - tokens <= cl
        /\ tokens + ph >= cap + (now - cl)
    BY <1>0, <1>1, <1>2, <1>3, <1>4
  <1>7. kept \in Buckets /\ taken \in Buckets
    <2>1. \A v \in Int : [e EXCEPT !.tokens = v, !.last = now] \in Buckets
      BY DEF Buckets
    <2>2. tokens - Cost \in Int
      BY <1>0, <1>5
    <2> QED
      BY <1>5, <2>1, <2>2
  <1>8. kept.tokens = tokens /\ kept.last = now /\ taken.tokens = tokens - Cost /\ taken.last = now
    BY <1>1
  <1> HIDE DEF kept, taken
  <1>9. Honest(kept, cl, let, here, m, since)
    BY <1>0, <1>3, <1>5, <1>6, <1>8 DEF Honest, cap, pl, ph, pm
  <1>10. ASSUME tokens >= Cost PROVE Honest(taken, cl, let + 1, here + 1, m, since)
    <2>1. /\ taken.tokens >= -Skew /\ taken.tokens <= cap /\ taken.last <= cl /\ taken.tokens \in Int
          /\ (pl + Cost) + taken.tokens <= pm + (taken.last - since)
          /\ taken.last - taken.tokens <= cl
          /\ taken.tokens + (ph + Cost) >= cap + (taken.last - cl)
      BY <1>0, <1>2, <1>5, <1>6, <1>8, <1>10
    <2>2. taken.tokens \in (-Skew)..L!Capacity
      BY <1>0, <2>1 DEF cap
    <2>3. (let + 1) * Cost + taken.tokens <= m * L!Capacity + (m - 1) * Skew + (taken.last - since)
      BY <1>2, <2>1 DEF cap, pm
    <2>4. taken.tokens + (here + 1) * Cost >= L!Capacity + (taken.last - cl)
      BY <1>2, <2>1 DEF cap
    <2> QED
      BY <1>3, <2>1, <2>2, <2>3, <2>4 DEF Honest
  <1>11. tokens < Cost => (here + 1) * Cost > L!Capacity - Skew
    BY <1>0, <1>2, <1>5, <1>6 DEF cap
  <1> QED
    BY <1>7, <1>9, <1>10, <1>11 DEF kept, taken, tokens

\* A later clock keeps what a bucket says.
LEMMA HonestLater ==
    ASSUME NEW e \in Buckets, NEW cl \in Nat, NEW let \in Nat, NEW here \in Nat, NEW m \in Nat, NEW since \in Nat,
           Honest(e, cl, let, here, m, since)
    PROVE  Honest(e, cl + 1, let, here, m, since)
  <1> DEFINE ph == here * Cost
  <1>1. L!Capacity \in Nat /\ ph \in Nat /\ e.tokens \in Int /\ e.last \in Nat /\ Skew \in Nat
    BY Sizes DEF Buckets
  <1> HIDE DEF ph
  <1>2. e.last <= cl + 1 /\ e.last - e.tokens <= cl + 1 /\ e.tokens + ph >= L!Capacity + (e.last - (cl + 1))
    BY <1>1 DEF Honest, ph
  <1> QED
    BY <1>2 DEF Honest, ph

\* What a held bucket says bounds its client's requests.
LEMMA HonestBounds ==
    ASSUME NEW e \in Buckets, NEW cl \in Nat, NEW let \in Nat, NEW here \in Nat, NEW m \in Nat, NEW since \in Nat,
           Honest(e, cl, let, here, m, since)
    PROVE  let * Cost <= m * L!Capacity + (m - 1) * Skew + (cl - since)
  <1> DEFINE pl == let * Cost
             pm == m * L!Capacity + (m - 1) * Skew
  <1>1. pl \in Int /\ pm \in Int /\ e.tokens \in Int /\ e.last \in Nat
    BY Sizes DEF Buckets
  <1>2. pl + e.tokens <= pm + (e.last - since) /\ e.last - e.tokens <= cl
    BY DEF Honest
  <1> HIDE DEF pl, pm
  <1>3. pl <= pm + (cl - since)
    BY <1>1, <1>2
  <1> QED
    BY <1>3 DEF pl, pm

\* A full bucket for a client without one.
LEMMA FullIsHonest ==
    ASSUME NEW c \in Clients, NEW now \in Nat, NEW cl \in Nat, NEW let \in Nat, NEW m \in Nat, NEW since \in Nat,
           now <= cl, cl - now <= Skew,
           m = 0 => let = 0 /\ since = now,
           m > 0 => let * Cost <= m * L!Capacity + (m - 1) * Skew + (cl - since)
    PROVE  LET e == [key |-> c, tokens |-> L!Capacity, last |-> now]
           IN  e \in Buckets /\ Honest(e, cl, let, 0, m + 1, since)
  <1> DEFINE e == [key |-> c, tokens |-> L!Capacity, last |-> now]
             cap == L!Capacity
             pl == let * Cost
             pc == m * cap
             ps == (m - 1) * Skew
  <1>1. Cost \in Nat /\ Skew \in Nat /\ cap \in Nat
    BY Sizes
  <1>2. pl \in Int /\ pc \in Int /\ ps \in Int /\ (m + 1) * cap = pc + cap /\ ((m + 1) - 1) * Skew = ps + Skew
    BY <1>1
  <1>3. m = 0 => pl = 0 /\ pc = 0 /\ ps = -Skew
    BY <1>1
  <1>4. e \in Buckets /\ e.tokens = cap /\ e.last = now
    BY <1>1 DEF Buckets
  <1>5. m > 0 => pl <= pc + ps + (cl - since)
    OBVIOUS
  <1> HIDE DEF cap, pl, pc, ps, e
  <1>6. pl + cap <= (pc + cap) + (ps + Skew) + (now - since)
    BY <1>1, <1>2, <1>3, <1>5
  <1>7. let * Cost + e.tokens <= (m + 1) * cap + ((m + 1) - 1) * Skew + (e.last - since)
    BY <1>2, <1>4, <1>6 DEF pl
  <1>8. now - cap <= cl /\ cap + 0 * Cost >= cap + (now - cl) /\ cap \in (-Skew)..cap
    BY <1>1
  <1> QED
    BY <1>1, <1>4, <1>7, <1>8 DEF Honest, e, cap

LEMMA LimitInit == L!Init => LimitInv
  <1> SUFFICES ASSUME L!Init PROVE LimitInv
    OBVIOUS
  <1>1. buckets = <<>> /\ Len(buckets) = 0 /\ DOMAIN buckets = {}
    BY DEF L!Init
  <1>2. L!Idle \in Callers /\ L!Idle.pc = "idle"
    BY DEF L!Idle, Callers
  <1>3. th \in [Threads -> Callers] /\ \A t \in Threads : th[t].pc = "idle"
    BY <1>2 DEF L!Init
  <1>4. /\ admitted \in [Clients -> Nat] /\ spent \in [Clients -> Nat] /\ made \in [Clients -> Nat]
        /\ first \in [Clients -> Nat] /\ stats \in [requests : Nat, rate_limited : Nat]
        /\ \A c \in Clients : made[c] = 0 /\ admitted[c] = 0
    BY DEF L!Init
  <1>5. clock \in 0..MaxTime
    BY LimitAssumption DEF L!Init
  <1>6. L!AdmittedBounded
    BY <1>4 DEF L!AdmittedBounded
  <1>7. buckets \in Seq(Buckets) /\ Keyed(buckets) /\ Len(buckets) <= MaxKeys
    BY <1>1, LimitAssumption DEF Keyed
  <1> QED
    BY <1>1, <1>3, <1>4, <1>5, <1>6, <1>7 DEF LimitInv

LEMMA LimitSame ==
    ASSUME LimitInv, UNCHANGED limitVars
    PROVE  LimitInv'
  <1>1. UNCHANGED <<clock, buckets, th, admitted, spent, made, first, stats>>
    BY DEF limitVars
  <1> QED
    BY <1>1 DEF LimitInv, L!AdmittedBounded, Keyed

\* A thread moves; the table stays.
LEMMA CallerStep ==
    ASSUME LimitInv, NEW t \in Threads, NEW f \in Callers,
           f.pc = "limit" => f.client \in Clients /\ f.now <= clock /\ clock - f.now <= Skew,
           th' = [th EXCEPT ![t] = f], stats' \in [requests : Nat, rate_limited : Nat],
           UNCHANGED <<clock, buckets, admitted, spent, made, first>>
    PROVE  LimitInv'
  <1>1. th \in [Threads -> Callers]
    BY DEF LimitInv
  <1>2. th' \in [Threads -> Callers]
    BY <1>1
  <1>3. \A q \in Threads : th'[q].pc = "limit" => /\ th'[q].client \in Clients
                                                  /\ th'[q].now <= clock /\ clock - th'[q].now <= Skew
    <2> TAKE q \in Threads
    <2>1. CASE q = t
      BY <1>1, <2>1
    <2>2. CASE q # t
      BY <1>1, <2>2 DEF LimitInv
    <2> QED
      BY <2>1, <2>2
  <1>4. L!AdmittedBounded'
    BY DEF LimitInv, L!AdmittedBounded
  <1> QED
    BY <1>2, <1>3, <1>4 DEF LimitInv, Keyed

LEMMA TickStep ==
    ASSUME LimitInv, L!Tick
    PROVE  LimitInv'
  <1>1. /\ clock < MaxTime /\ clock' = clock + 1 /\ clock \in 0..MaxTime
        /\ \A t \in Threads : th[t].pc = "limit" => clock - th[t].now < Skew
        /\ UNCHANGED <<buckets, th, admitted, spent, made, first, stats>>
    BY DEF L!Tick, LimitInv
  <1>2. clock' \in 0..MaxTime /\ clock \in Nat
    BY <1>1, LimitAssumption
  <1>3. ASSUME NEW t \in Threads, th[t].pc = "limit"
        PROVE  th[t].client \in Clients /\ th[t].now <= clock' /\ clock' - th[t].now <= Skew
    <2>1. th[t].now \in Nat /\ th[t].client \in Clients /\ th[t].now <= clock
      BY <1>3 DEF LimitInv, Callers
    <2> QED
      BY <1>1, <1>2, <1>3, <2>1, LimitAssumption
  <1>4. ASSUME NEW i \in DOMAIN buckets
        PROVE  LET c == buckets[i].key IN Honest(buckets[i], clock', admitted[c], spent[c], made[c], first[c])
    <2> DEFINE c == buckets[i].key
    <2>0. buckets \in Seq(Buckets)
      BY DEF LimitInv
    <2>a. buckets[i] \in Buckets
      BY <2>0
    <2>1. buckets[i] \in Buckets /\ c \in Clients
      BY <2>a DEF Buckets
    <2>2. admitted[c] \in Nat /\ spent[c] \in Nat /\ made[c] \in Nat /\ first[c] \in Nat
      BY <2>1 DEF LimitInv
    <2>3. Honest(buckets[i], clock, admitted[c], spent[c], made[c], first[c])
      BY DEF LimitInv
    <2> HIDE DEF c
    <2>4. Honest(buckets[i], clock + 1, admitted[c], spent[c], made[c], first[c])
      BY <1>2, <2>1, <2>2, <2>3, HonestLater
    <2> QED
      BY <1>1, <2>4 DEF c
  <1>5. L!AdmittedBounded'
    <2> SUFFICES ASSUME NEW c \in Clients, made[c] > 0
                 PROVE  admitted[c] * Cost <= made[c] * L!Capacity + (made[c] - 1) * Skew + (clock' - first[c])
      BY <1>1 DEF L!AdmittedBounded, L!Capacity
    <2> DEFINE pl == admitted[c] * Cost
               pm == made[c] * L!Capacity + (made[c] - 1) * Skew
    <2>1. pl <= pm + (clock - first[c])
      BY DEF LimitInv, L!AdmittedBounded
    <2>2. admitted[c] \in Nat /\ made[c] \in Nat /\ first[c] \in Nat
      BY DEF LimitInv
    <2>3. pl \in Int /\ pm \in Int
      BY <2>2, Sizes
    <2> HIDE DEF pl, pm
    <2>4. pl <= pm + ((clock + 1) - first[c])
      BY <1>2, <2>1, <2>2, <2>3
    <2> QED
      BY <1>1, <2>4 DEF pl, pm
  <1> QED
    BY <1>1, <1>2, <1>3, <1>4, <1>5 DEF LimitInv, Keyed

LEMMA PostStep ==
    ASSUME LimitInv, NEW t \in Threads, NEW c \in Clients, L!Post(t, c)
    PROVE  LimitInv'
  <1> DEFINE f == [pc |-> "limit", client |-> c, now |-> clock]
  <1>1. clock \in Nat /\ stats \in [requests : Nat, rate_limited : Nat] /\ Skew \in Nat
    BY LimitAssumption DEF LimitInv
  <1>2. /\ th' = [th EXCEPT ![t] = f] /\ stats' = [stats EXCEPT !.requests = stats.requests + 1]
        /\ UNCHANGED <<clock, buckets, admitted, spent, made, first>>
    BY <1>1 DEF L!Post
  <1>3. stats' \in [requests : Nat, rate_limited : Nat]
    BY <1>1, <1>2
  <1>4. f \in Callers /\ f.client = c /\ f.now = clock /\ clock <= clock /\ clock - clock <= Skew
    BY <1>1 DEF Callers
  <1> HIDE DEF f
  <1> QED
    BY <1>2, <1>3, <1>4, CallerStep

LEMMA ServeStep ==
    ASSUME LimitInv, NEW t \in Threads, L!Serve(t)
    PROVE  LimitInv'
  <1>1. L!Idle \in Callers /\ L!Idle.pc = "idle"
    BY DEF L!Idle, Callers
  <1>2. th' = [th EXCEPT ![t] = L!Idle] /\ UNCHANGED <<clock, buckets, admitted, spent, made, first, stats>>
    BY DEF L!Serve
  <1>3. stats' \in [requests : Nat, rate_limited : Nat]
    BY <1>2 DEF LimitInv
  <1> QED
    BY <1>1, <1>2, <1>3, CallerStep

\* The table a caller sees: the one before, or that with a full bucket for it.
LEMMA TableOf ==
    ASSUME LimitInv, NEW c \in Clients, NEW now \in Nat
    PROVE  LET new == L!Held(c) = {}
               held == IF new THEN L!Made(c, now) ELSE buckets
           IN  /\ held \in Seq(Buckets) /\ Len(held) <= MaxKeys /\ Keyed(held)
               /\ \E i \in DOMAIN held : held[i].key = c
               /\ \A i \in DOMAIN held :
                    \/ \E j \in DOMAIN buckets : held[i] = buckets[j]
                    \/ new /\ held[i] = [key |-> c, tokens |-> L!Capacity, last |-> now]
  <1> DEFINE new == L!Held(c) = {}
             fresh == [key |-> c, tokens |-> L!Capacity, last |-> now]
             kept == IF Len(buckets) >= MaxKeys THEN Tail(buckets) ELSE buckets
  <1>1. buckets \in Seq(Buckets) /\ Len(buckets) <= MaxKeys /\ Keyed(buckets) /\ MaxKeys \in Nat /\ MaxKeys > 0
    BY LimitAssumption DEF LimitInv
  <1>2. fresh \in Buckets /\ fresh.key = c
    BY Sizes DEF Buckets
  <1>3. CASE ~ new
    <2>1. \E i \in DOMAIN buckets : buckets[i].key = c
      BY <1>3 DEF L!Held
    <2> QED
      BY <1>1, <1>3, <2>1
  <1>4. CASE new
    <2>1. \A j \in DOMAIN buckets : buckets[j].key # c
      BY <1>4 DEF L!Held
    <2>2. PICK d \in {0, 1} : /\ kept \in Seq(Buckets) /\ Len(kept) = Len(buckets) - d /\ Len(kept) < MaxKeys
                              /\ \A i \in DOMAIN kept : i + d \in DOMAIN buckets /\ kept[i] = buckets[i + d]
      <3>1. CASE Len(buckets) >= MaxKeys
        <4>1. buckets # <<>>
          BY <1>1, <3>1
        <4>2. /\ Tail(buckets) \in Seq(Buckets) /\ Len(Tail(buckets)) = Len(buckets) - 1
              /\ \A i \in DOMAIN Tail(buckets) : i + 1 \in DOMAIN buckets /\ Tail(buckets)[i] = buckets[i + 1]
          BY <1>1, <4>1
        <4>3. kept = Tail(buckets)
          BY <3>1
        <4>4. Len(kept) < MaxKeys
          <5>1. Len(buckets) \in Nat /\ Len(Tail(buckets)) = Len(buckets) - 1
            BY <1>1, <4>2
          <5> QED
            BY <1>1, <4>3, <5>1
        <4> HIDE DEF kept
        <4> QED
          BY <4>2, <4>3, <4>4
      <3>2. CASE ~(Len(buckets) >= MaxKeys)
        <4>1. \A i \in DOMAIN buckets : i + 0 = i
          BY <1>1
        <4>2. Len(buckets) - 0 = Len(buckets) /\ Len(buckets) < MaxKeys
          BY <1>1, <3>2
        <4> QED
          BY <1>1, <3>2, <4>1, <4>2
      <3> QED
        BY <3>1, <3>2
    <2> DEFINE held == Append(kept, fresh)
    <2>3. L!Made(c, now) = held
      BY DEF L!Made
    <2> HIDE DEF kept, fresh
    <2>4. /\ held \in Seq(Buckets) /\ Len(held) = Len(kept) + 1 /\ held[Len(kept) + 1] = fresh
          /\ \A i \in DOMAIN kept : i \in DOMAIN held /\ held[i] = kept[i]
          /\ \A i \in DOMAIN held : i = Len(kept) + 1 \/ i \in DOMAIN kept
      BY <1>2, <2>2
    <2>5. Len(held) <= MaxKeys
      BY <1>1, <2>2, <2>4
    <2>6. Len(kept) + 1 \in DOMAIN held
      BY <2>2, <2>4
    <2>7. ASSUME NEW i \in DOMAIN held
          PROVE  (\E j \in DOMAIN buckets : held[i] = buckets[j]) \/ held[i] = fresh
      BY <2>2, <2>4
    <2>8. ASSUME NEW i \in DOMAIN held, NEW k \in DOMAIN held, held[i].key = held[k].key PROVE i = k
      <3>1. CASE i \in DOMAIN kept /\ k \in DOMAIN kept
        <4>1. i + d \in DOMAIN buckets /\ k + d \in DOMAIN buckets /\ buckets[i + d].key = buckets[k + d].key
          BY <2>2, <2>4, <2>8, <3>1
        <4>2. i + d = k + d
          BY <1>1, <4>1 DEF Keyed
        <4>3. i \in Int /\ k \in Int /\ d \in Int
          BY <2>2, <3>1
        <4> QED
          BY <4>2, <4>3
      <3>2. CASE i = Len(kept) + 1 /\ k \in DOMAIN kept
        BY <1>2, <2>1, <2>2, <2>4, <2>8, <3>2
      <3>3. CASE i \in DOMAIN kept /\ k = Len(kept) + 1
        BY <1>2, <2>1, <2>2, <2>4, <2>8, <3>3
      <3> QED
        BY <2>4, <3>1, <3>2, <3>3
    <2>9. \E i \in DOMAIN held : held[i].key = c
      BY <1>2, <2>4, <2>6
    <2> HIDE DEF held
    <2>10. Keyed(held)
      BY <2>8 DEF Keyed
    <2> QED
      BY <1>4, <2>3, <2>4, <2>5, <2>7, <2>9, <2>10 DEF fresh
  <1> QED
    BY <1>3, <1>4

\* RateLimiter.allow: the caller's bucket, refilled and spent, goes last.
LEMMA AllowStep ==
    ASSUME LimitInv, NEW t \in Threads, L!Allow(t)
    PROVE  LimitInv' /\ (th'[t].pc = "idle" => (spent'[th[t].client] + 1) * Cost > L!Capacity - Skew)
  <1> DEFINE c == th[t].client
             now == th[t].now
             new == L!Held(c) = {}
             tbl == IF new THEN L!Made(c, now) ELSE buckets
             i == CHOOSE j \in DOMAIN tbl : tbl[j].key = c
             e == tbl[i]
             tokens == L!Refilled(e, now)
             ok == tokens >= Cost
             after == IF ok THEN tokens - Cost ELSE tokens
             x == [e EXCEPT !.tokens = after, !.last = now]
             m == IF new THEN made[c] + 1 ELSE made[c]
             since == IF made[c] = 0 THEN now ELSE first[c]
             here == IF new THEN 0 ELSE spent[c]
  <1>1. /\ th \in [Threads -> Callers] /\ th[t].pc = "limit" /\ c \in Clients /\ now \in Nat
        /\ now <= clock /\ clock - now <= Skew /\ clock \in Nat
    <2>1. th \in [Threads -> Callers] /\ th[t].pc = "limit"
      BY DEF LimitInv, L!Allow
    <2>2. th[t].now \in Nat
      BY <2>1 DEF Callers
    <2>3. /\ clock \in 0..MaxTime
          /\ th[t].client \in Clients /\ th[t].now <= clock /\ clock - th[t].now <= Skew
      BY <2>1 DEF LimitInv
    <2> QED
      BY <2>1, <2>2, <2>3, LimitAssumption
  <1>2. /\ admitted \in [Clients -> Nat] /\ spent \in [Clients -> Nat] /\ made \in [Clients -> Nat]
        /\ first \in [Clients -> Nat] /\ stats \in [requests : Nat, rate_limited : Nat]
        /\ buckets \in Seq(Buckets) /\ L!AdmittedBounded
        /\ made[c] = 0 => admitted[c] = 0
    BY <1>1 DEF LimitInv
  <1>3. /\ buckets' = Append(L!RemoveAt(tbl, i), x)
        /\ made' = (IF new THEN [made EXCEPT ![c] = made[c] + 1] ELSE made)
        /\ first' = (IF made[c] = 0 THEN [first EXCEPT ![c] = now] ELSE first)
        /\ admitted' = [admitted EXCEPT ![c] = admitted[c] + (IF ok THEN 1 ELSE 0)]
        /\ spent' = [spent EXCEPT ![c] = here + (IF ok THEN 1 ELSE 0)]
        /\ stats' = (IF ok THEN stats ELSE [stats EXCEPT !.rate_limited = stats.rate_limited + 1])
        /\ th' = [th EXCEPT ![t] = IF ok THEN [th[t] EXCEPT !.pc = "serve"] ELSE L!Idle]
        /\ clock' = clock
    BY <1>1, <1>2 DEF L!Allow, L!Spend
  <1>4. /\ tbl \in Seq(Buckets) /\ Len(tbl) <= MaxKeys /\ Keyed(tbl)
        /\ \E j \in DOMAIN tbl : tbl[j].key = c
        /\ \A j \in DOMAIN tbl :
             \/ \E k \in DOMAIN buckets : tbl[j] = buckets[k]
             \/ new /\ tbl[j] = [key |-> c, tokens |-> L!Capacity, last |-> now]
    BY <1>1, TableOf
  <1>5. new => \A k \in DOMAIN buckets : buckets[k].key # c
    BY DEF L!Held
  <1> HIDE DEF tbl, new
  <1>6. i \in DOMAIN tbl /\ e.key = c
    BY <1>4
  <1> HIDE DEF i
  <1>7. e \in Buckets /\ m \in Nat /\ since \in Nat /\ here \in Nat /\ admitted[c] \in Nat
    BY <1>1, <1>2, <1>4, <1>6
  <1>8. Honest(e, clock, admitted[c], here, m, since)
    <2>1. CASE \E k \in DOMAIN buckets : e = buckets[k]
      <3>1. PICK k \in DOMAIN buckets : e = buckets[k]
        BY <2>1
      <3>2. ~ new /\ Honest(e, clock, admitted[c], spent[c], made[c], first[c])
        BY <1>5, <1>6, <3>1 DEF LimitInv
      <3>3. made[c] # 0
        BY <1>1, <1>2, <3>2 DEF Honest
      <3> QED
        BY <3>2, <3>3
    <2>2. CASE new /\ e = [key |-> c, tokens |-> L!Capacity, last |-> now]
      <3>1. made[c] = 0 => admitted[c] = 0 /\ since = now
        BY <1>2
      <3>2. made[c] > 0 => since = first[c]
        BY <1>1, <1>2
      <3>3. made[c] > 0 => admitted[c] * Cost <= made[c] * L!Capacity + (made[c] - 1) * Skew + (clock - since)
        BY <1>1, <1>2, <3>2 DEF L!AdmittedBounded
      <3>4. made[c] \in Nat /\ m = made[c] + 1 /\ here = 0
        BY <1>1, <1>2, <2>2
      <3> HIDE DEF since, c, now
      <3> QED
        BY <1>1, <1>7, <2>2, <3>1, <3>3, <3>4, FullIsHonest
    <2> QED
      BY <1>4, <1>6, <2>1, <2>2
  <1> HIDE DEF c, now, m, since, here, e
  <1>9. /\ x \in Buckets /\ x.key = c
        /\ Honest(x, clock, admitted[c] + (IF ok THEN 1 ELSE 0), here + (IF ok THEN 1 ELSE 0), m, since)
        /\ ~ ok => (here + 1) * Cost > L!Capacity - Skew
    <2> DEFINE kept == [e EXCEPT !.tokens = tokens, !.last = now]
               taken == [e EXCEPT !.tokens = tokens - Cost, !.last = now]
    <2>0. tokens \in Int /\ Cost \in Nat
      <3>1. L!Refilled(e, now) = L!Min({L!Capacity, e.tokens + (now - e.last)})
        BY DEF L!Refilled
      <3>2. e.tokens + (now - e.last) \in Int /\ L!Capacity \in Int
        BY <1>1, <1>7, Sizes DEF Buckets
      <3> QED
        BY <3>1, <3>2, LimitWords, Sizes
    <2>1. /\ kept \in Buckets /\ taken \in Buckets
          /\ Honest(kept, clock, admitted[c], here, m, since)
          /\ tokens >= Cost => Honest(taken, clock, admitted[c] + 1, here + 1, m, since)
          /\ tokens < Cost => (here + 1) * Cost > L!Capacity - Skew
      BY <1>1, <1>7, <1>8, RefillIsHonest
    <2>2. x = IF ok THEN taken ELSE kept
      OBVIOUS
    <2>3. x.key = c
      BY <1>6, <1>7 DEF Buckets
    <2>4. admitted[c] + 0 = admitted[c] /\ here + 0 = here
      BY <1>7
    <2> HIDE DEF kept, taken, tokens, x
    <2>5. CASE ok
      BY <2>1, <2>2, <2>3, <2>5
    <2>6. CASE ~ ok
      <3>1. tokens < Cost
        BY <2>0, <2>6
      <3> QED
        BY <2>1, <2>2, <2>3, <2>4, <2>6, <3>1
    <2> QED
      BY <2>5, <2>6
  <1> HIDE DEF x, ok
  <1>10. /\ buckets' \in Seq(Buckets) /\ Len(buckets') = Len(tbl)
         /\ \A j \in 1..Len(tbl) : buckets'[j] = IF j < i THEN tbl[j] ELSE IF j < Len(tbl) THEN tbl[j + 1] ELSE x
    <2>1. buckets' = Moved(tbl, i, x)
      BY <1>3, LimitWords DEF Moved
    <2>2. tbl \in Seq(Buckets) /\ i \in DOMAIN tbl /\ x \in Buckets
      BY <1>4, <1>6, <1>9
    <2>3. Moved(tbl, i, x) \in Seq(Buckets)
      BY <2>2, MovedLast
    <2>4. Len(Moved(tbl, i, x)) = Len(tbl)
      BY <2>2, MovedLast
    <2>5. ASSUME NEW j \in 1..Len(tbl)
          PROVE  Moved(tbl, i, x)[j] = IF j < i THEN tbl[j] ELSE IF j < Len(tbl) THEN tbl[j + 1] ELSE x
      BY <2>2, MovedLast
    <2> QED
      BY <2>1, <2>3, <2>4, <2>5
  <1> DEFINE from(j) == IF j < i THEN j ELSE IF j < Len(tbl) THEN j + 1 ELSE i
  <1>11. ASSUME NEW j \in DOMAIN buckets'
         PROVE  /\ from(j) \in DOMAIN tbl /\ buckets'[j].key = tbl[from(j)].key
                /\ (from(j) = i /\ buckets'[j] = x) \/ (from(j) # i /\ buckets'[j] = tbl[from(j)])
    <2>1. j \in 1..Len(tbl) /\ i \in 1..Len(tbl) /\ Len(tbl) \in Nat /\ e = tbl[i]
      BY <1>4, <1>6, <1>10 DEF e
    <2> QED
      BY <1>6, <1>9, <1>10, <2>1
  <1>12. Keyed(buckets')
    <2> SUFFICES ASSUME NEW j \in DOMAIN buckets', NEW k \in DOMAIN buckets', buckets'[j].key = buckets'[k].key
                 PROVE  j = k
      BY DEF Keyed
    <2>1. from(j) = from(k)
      BY <1>4, <1>11 DEF Keyed
    <2>2. j \in 1..Len(tbl) /\ k \in 1..Len(tbl) /\ i \in 1..Len(tbl) /\ Len(tbl) \in Nat
      BY <1>4, <1>6, <1>10
    <2> QED
      BY <2>1, <2>2
  <1>13. /\ admitted'[c] = admitted[c] + (IF ok THEN 1 ELSE 0)
         /\ spent'[c] = here + (IF ok THEN 1 ELSE 0)
         /\ made'[c] = m /\ first'[c] = since
         /\ admitted' \in [Clients -> Nat] /\ spent' \in [Clients -> Nat]
         /\ made' \in [Clients -> Nat] /\ first' \in [Clients -> Nat]
    <2>1. (IF ok THEN 1 ELSE 0) \in Nat
      OBVIOUS
    <2> DEFINE one == IF ok THEN 1 ELSE 0
    <2>2. admitted' = [admitted EXCEPT ![c] = admitted[c] + one] /\ spent' = [spent EXCEPT ![c] = here + one]
      BY <1>3
    <2>3. one \in Nat
      BY <2>1
    <2> HIDE DEF one
    <2>4. admitted[c] + one \in Nat /\ here + one \in Nat
      BY <1>7, <2>3
    <2>5. /\ admitted'[c] = admitted[c] + one /\ spent'[c] = here + one
          /\ admitted' \in [Clients -> Nat] /\ spent' \in [Clients -> Nat]
      BY <1>1, <1>2, <2>2, <2>4
    <2>6. made' \in [Clients -> Nat] /\ made'[c] = m
      BY <1>1, <1>2, <1>3 DEF m
    <2>7. first' \in [Clients -> Nat] /\ first'[c] = since
      BY <1>1, <1>2, <1>3 DEF since
    <2> QED
      BY <2>5, <2>6, <2>7 DEF one
  <1>14. \A d \in Clients : d # c => /\ admitted'[d] = admitted[d] /\ spent'[d] = spent[d]
                                     /\ made'[d] = made[d] /\ first'[d] = first[d]
    BY <1>1, <1>2, <1>3
  <1>15. ASSUME NEW j \in DOMAIN buckets'
         PROVE  LET d == buckets'[j].key IN Honest(buckets'[j], clock, admitted'[d], spent'[d], made'[d], first'[d])
    <2>1. CASE buckets'[j] = x
      BY <1>9, <1>13, <2>1
    <2>2. CASE from(j) # i /\ buckets'[j] = tbl[from(j)]
      <3>1. from(j) \in DOMAIN tbl /\ tbl[from(j)].key # c
        BY <1>4, <1>6, <1>11, <2>2 DEF Keyed, e
      <3>2. PICK k \in DOMAIN buckets : tbl[from(j)] = buckets[k]
        BY <1>4, <3>1
      <3>a. buckets[k] \in Buckets
        BY <1>2
      <3>3. buckets[k] \in Buckets /\ buckets[k].key \in Clients /\ buckets[k].key # c
        BY <3>1, <3>2, <3>a DEF Buckets
      <3>4. LET d == buckets[k].key IN Honest(buckets[k], clock, admitted[d], spent[d], made[d], first[d])
        BY DEF LimitInv
      <3> HIDE DEF from
      <3> QED
        BY <1>14, <2>2, <3>2, <3>3, <3>4
    <2> QED
      BY <1>11, <2>1, <2>2
  <1>16. \A d \in Clients : made'[d] = 0 => admitted'[d] = 0
    <2>1. m # 0
      BY <1>1, <1>7, <1>8 DEF Honest
    <2> QED
      BY <1>13, <1>14, <2>1 DEF LimitInv
  <1>17. L!AdmittedBounded'
    <2> SUFFICES ASSUME NEW d \in Clients, made'[d] > 0
                 PROVE  admitted'[d] * Cost <= made'[d] * L!Capacity + (made'[d] - 1) * Skew + (clock - first'[d])
      BY <1>3 DEF L!AdmittedBounded, L!Capacity
    <2>1. CASE d = c
      <3>1. Honest(x, clock, admitted'[c], spent'[c], made'[c], first'[c])
        BY <1>9, <1>13
      <3>2. admitted'[c] \in Nat /\ spent'[c] \in Nat /\ made'[c] \in Nat /\ first'[c] \in Nat
        BY <1>1, <1>13
      <3> QED
        BY <1>1, <1>9, <2>1, <3>1, <3>2, HonestBounds
    <2>2. CASE d # c
      BY <1>2, <1>14, <2>2 DEF L!AdmittedBounded
    <2> QED
      BY <2>1, <2>2
  <1>18. /\ L!Idle \in Callers /\ L!Idle.pc = "idle" /\ [th[t] EXCEPT !.pc = "serve"] \in Callers
         /\ [th[t] EXCEPT !.pc = "serve"].pc = "serve"
    BY <1>1 DEF L!Idle, Callers
  <1>19. /\ th' \in [Threads -> Callers] /\ th'[t].pc = (IF ok THEN "serve" ELSE "idle")
         /\ \A q \in Threads : q # t => th'[q] = th[q]
    BY <1>1, <1>3, <1>18
  <1>20. \A q \in Threads : th'[q].pc = "limit" => /\ th'[q].client \in Clients
                                                   /\ th'[q].now <= clock /\ clock - th'[q].now <= Skew
    BY <1>19 DEF LimitInv
  <1>21. stats' \in [requests : Nat, rate_limited : Nat]
    <2>0. stats.rate_limited + 1 \in Nat
      BY <1>2
    <2>1. \A n \in Nat : [stats EXCEPT !.rate_limited = n] \in [requests : Nat, rate_limited : Nat]
      BY <1>2
    <2> QED
      BY <1>2, <1>3, <2>0, <2>1
  <1>22. clock' \in 0..MaxTime
    BY <1>3 DEF LimitInv
  <1>23. LimitInv'
    <2>1. buckets' \in Seq(Buckets) /\ Len(buckets') <= MaxKeys /\ Keyed(buckets)'
      BY <1>4, <1>10, <1>12 DEF Keyed
    <2>2. (\A t_1 \in Threads : th[t_1].pc = "limit" => /\ th[t_1].client \in Clients
                                                        /\ th[t_1].now <= clock /\ clock - th[t_1].now <= Skew)'
      BY <1>3, <1>20
    <2>3. (\A j \in DOMAIN buckets :
             LET d == buckets[j].key IN Honest(buckets[j], clock, admitted[d], spent[d], made[d], first[d]))'
      BY <1>3, <1>15 DEF Honest, L!Capacity
    <2> QED
      BY <1>13, <1>16, <1>17, <1>19, <1>21, <1>22, <2>1, <2>2, <2>3 DEF LimitInv
  <1>24. ASSUME th'[t].pc = "idle" PROVE (spent'[c] + 1) * Cost > L!Capacity - Skew
    <2>1. ~ ok
      BY <1>19, <1>24
    <2>2. spent'[c] = here
      BY <1>7, <1>13, <2>1
    <2> QED
      BY <1>9, <2>1, <2>2
  <1> QED
    BY <1>23, <1>24 DEF c

LEMMA LimitStep ==
    ASSUME LimitInv, L!Next
    PROVE  LimitInv'
  <1>1. CASE \E t \in Threads, c \in Clients : L!Post(t, c)
    BY <1>1, PostStep
  <1>2. CASE \E t \in Threads : L!Allow(t) \/ L!Serve(t)
    BY <1>2, AllowStep, ServeStep
  <1>3. CASE L!Tick
    BY <1>3, TickStep
  <1> QED
    BY <1>1, <1>2, <1>3 DEF L!Next

\* Only a refusal takes a caller from the limiter to idle.
LEMMA LimitKeep ==
    ASSUME LimitInv, L!Next
    PROVE  L!DenialJustified
  <1> SUFFICES ASSUME NEW t \in Threads, th[t].pc = "limit", th'[t].pc = "idle"
               PROVE  (spent'[th[t].client] + 1) * Cost > L!Capacity - Skew
    BY DEF L!DenialJustified
  <1>0. th \in [Threads -> Callers]
    BY DEF LimitInv
  <1>1. ASSUME NEW q \in Threads, NEW c \in Clients, L!Post(q, c) PROVE FALSE
    <2>1. th[q].pc = "idle" /\ th' = [th EXCEPT ![q] = [pc |-> "limit", client |-> c, now |-> clock]]
      BY <1>1 DEF L!Post
    <2> QED
      BY <1>0, <2>1
  <1>2. ASSUME NEW q \in Threads, L!Serve(q) PROVE FALSE
    <2>1. th[q].pc = "serve" /\ th' = [th EXCEPT ![q] = L!Idle]
      BY <1>2 DEF L!Serve
    <2> QED
      BY <1>0, <2>1
  <1>3. ~ L!Tick
    BY <1>0 DEF L!Tick
  <1>4. ASSUME NEW q \in Threads, L!Allow(q) PROVE q = t
    <2>1. PICK v : th' = [th EXCEPT ![q] = v]
      BY <1>4 DEF L!Allow
    <2> QED
      BY <1>0, <2>1
  <1>5. PICK q \in Threads : L!Allow(q)
    BY <1>1, <1>2, <1>3 DEF L!Next
  <1>6. L!Allow(t)
    BY <1>4, <1>5
  <1> QED
    BY <1>6, AllowStep

LEMMA LimitSound ==
    ASSUME LimitInv
    PROVE  L!TypeOK /\ L!AdmittedBounded
  <1>1. buckets \in Seq(Buckets) /\ Keyed(buckets)
    BY DEF LimitInv
  <1>2. ASSUME NEW i \in DOMAIN buckets
        PROVE  /\ buckets[i].key \in Clients /\ buckets[i].tokens \in (-Skew)..L!Capacity
               /\ L!Held(buckets[i].key) = {i}
    <2>1. buckets[i] \in Buckets
      BY <1>1
    <2>2. L!Held(buckets[i].key) = {i}
      BY <1>1 DEF L!Held, Keyed
    <2>3. buckets[i].tokens \in (-Skew)..L!Capacity
      BY DEF LimitInv, Honest
    <2> QED
      BY <2>1, <2>2, <2>3 DEF Buckets
  <1>3. \A t \in Threads : th[t].pc \in {"idle", "limit", "serve"}
    BY DEF LimitInv, Callers
  <1> QED
    BY <1>2, <1>3 DEF LimitInv, L!TypeOK

-----------------------------------------------------------------------------
(* The seller portal.                                                       *)

Probes == [host : R!Hosts \cup {"none"}, answered : BOOLEAN, readable : BOOLEAN]

Visits == [pc : {"idle", "find", "probe", "mark", "assess"}, key : VisitedKeys \cup {"none"}, now : Nat, planned : Nat,
           todo : Seq(R!Hosts), tried : Seq(R!Hosts), probe : Probes]

Entries == [key : VisitedKeys \cup {"none"}, at : Nat,
            report : {R!NotFound} \cup {R!BuildReport(r, p) : r \in Rows, p \in Probes}]

MarkSet == [host : R!Hosts, at : Nat]

\* A list with one entry at most for a key, or for a host.
OnePerKey(s) == \A i, j \in DOMAIN s : s[i].key = s[j].key => i = j
OnePerHost(s) == \A i, j \in DOMAIN s : s[i].host = s[j].host => i = j

\* What AboutTheAsked says of one entry of the cache.
About(key, r) ==
    r.found =>
      /\ key \in {r.payee} \cup UNION {Range(q.hosts) : q \in {x \in Rows : x.payee = r.payee}}
      /\ key \in R!Hosts => r.host \in {"none", key}
      /\ r.host # "none" => \E q \in Rows : q.payee = r.payee /\ r.host \in Range(q.hosts)
      /\ r.findings.challenge = R!Blocker => r.findings.reach = R!Info

\* The endpoints a report of the key may contact.
Allowed(key) == Range(R!ResourcesForKey(R!SelectSubject(R!FindRows(key)), key))

\* A visit contacts endpoints of its key only, and remembers a probe of one it tried.
OnTrack(v) ==
    /\ v.pc = "find" => v.tried = <<>> /\ v.probe = R!NoProbe
    /\ v.pc \in {"probe", "mark", "assess"} => /\ R!FindRows(v.key) # {}
                                               /\ v.probe.host \in {"none"} \cup Allowed(v.key)
    /\ v.pc \in {"probe", "mark"} => /\ Range(v.todo) \subseteq Allowed(v.key)
                                     /\ v.tried # <<>> => v.probe.host \in Range(v.tried)
    /\ v.pc = "mark" => v.tried # <<>>

CacheOK ==
    /\ cache \in Seq(Entries) /\ Len(cache) <= CacheMax /\ OnePerKey(cache)
    /\ \A e \in Range(cache) : About(e.key, e.report)

\* The endpoint that answered last is marked, with the time of that probe.
RestOK ==
    /\ cooldown \in Seq(MarkSet) /\ Len(cooldown) <= CooldownMax /\ OnePerHost(cooldown)
    /\ touched \in [R!Hosts -> [at : Int, answered : BOOLEAN]]
    /\ \A h \in R!Hosts : touched[h].answered => [host |-> h, at |-> touched[h].at] \in Range(cooldown)

VisitsOK ==
    /\ portalTh \in [Threads -> Visits]
    /\ \A t \in Threads : OnTrack(portalTh[t])

PortalInv == portalClock \in 0..LastTick /\ CacheOK /\ RestOK /\ VisitsOK

LEMMA PortalWords ==
    /\ \A f : R!Range(f) = Range(f)
    /\ \A s, I : R!Subsequence(s, I) = Subsequence(s, I)
    /\ R!Hosts = UNION {Range(r.hosts) : r \in Rows}
  <1>1. \A f : R!Range(f) = Range(f)
    BY DEF R!Range, Range
  <1>2. \A s, I : R!Subsequence(s, I) = Subsequence(s, I)
    BY DEF R!Subsequence, Subsequence, R!Nth, Nth, R!Cardinality, Cardinality
  <1> QED
    BY <1>1, <1>2 DEF R!Hosts

LEMMA PortalIdle == R!Idle \in Visits /\ R!Idle.pc = "idle" /\ R!NoProbe \in Probes /\ R!NoProbe.host = "none"
  <1>1. R!NoProbe \in Probes /\ R!NoProbe.host = "none"
    BY DEF R!NoProbe, Probes
  <1>2. <<>> \in Seq(R!Hosts)
    OBVIOUS
  <1> QED
    BY <1>1, <1>2 DEF R!Idle, Visits

\* Of the rows that match one is the busiest.
LEMMA SubjectIsARow ==
    ASSUME NEW key, R!FindRows(key) # {}
    PROVE  R!SelectSubject(R!FindRows(key)) \in R!FindRows(key)
  <1> DEFINE fit == R!FindRows(key)
             N == {r.settlements : r \in fit}
  <1>1. fit \subseteq Rows /\ IsFiniteSet(Rows) /\ \A r \in Rows : r.settlements \in Nat
    BY PortalAssumption DEF R!FindRows
  <1>2. IsFiniteSet(fit)
    BY <1>1, FS_Subset
  <1> HIDE DEF fit
  <1>3. N \in SUBSET Nat /\ N # {}
    BY <1>1 DEF fit
  <1>4. IsFiniteSet(N)
    <2> DEFINE g == [r \in fit |-> r.settlements]
    <2>1. g \in Surjection(fit, N)
      BY DEF Surjection
    <2> HIDE DEF g, N
    <2> QED
      BY <1>2, <2>1, FS_Surjection
  <1> HIDE DEF N
  <1>5. PICK m \in N : \A i \in N : i <= m
    BY <1>3, <1>4, FiniteIsBounded
  <1>6. PICK r \in fit : r.settlements = m
    BY DEF N
  <1>7. \A q \in fit : q.settlements <= r.settlements
    BY <1>5, <1>6 DEF N
  <1>8. R!SelectSubject(fit) \in fit
    BY <1>6, <1>7 DEF R!SelectSubject
  <1> QED
    BY <1>8 DEF fit

\* The endpoints of a key are the subject's, and the host itself when a host was asked for.
LEMMA ResourcesAre ==
    ASSUME NEW key, R!FindRows(key) # {}
    PROVE  LET row == R!SelectSubject(R!FindRows(key))
               res == R!ResourcesForKey(row, key)
           IN  /\ row \in Rows /\ (row.payee = key \/ key \in Range(row.hosts))
               /\ res \in Seq(R!Hosts) /\ Range(res) \subseteq Range(row.hosts)
               /\ Range(res) \subseteq R!Hosts /\ "none" \notin Range(res)
               /\ key \in R!Hosts => Range(res) \subseteq {key}
  <1> DEFINE row == R!SelectSubject(R!FindRows(key))
             I == {i \in DOMAIN row.hosts : row.hosts[i] = key}
             scoped == Subsequence(row.hosts, I)
             res == R!ResourcesForKey(row, key)
  <1>1. row \in Rows /\ (row.payee = key \/ key \in Range(row.hosts))
    BY SubjectIsARow, PortalWords DEF R!FindRows
  <1> HIDE DEF row
  <1>2. row.hosts \in Seq(STRING \ {"none"}) /\ row.hosts \in Seq(R!Hosts)
    <2>1. row.hosts \in Seq(STRING \ {"none"})
      BY <1>1, PortalAssumption
    <2>2. Range(row.hosts) \subseteq R!Hosts
      BY <1>1, PortalWords
    <2>3. \A i \in 1..Len(row.hosts) : row.hosts[i] \in R!Hosts
      BY <2>1, <2>2 DEF Range
    <2> QED
      BY <2>1, <2>3
  <1>3. Range(row.hosts) \subseteq R!Hosts /\ "none" \notin Range(row.hosts)
    BY <1>2 DEF Range
  <1>4. res = IF scoped # <<>> THEN scoped ELSE row.hosts
    BY PortalWords DEF R!ResourcesForKey
  <1>5. I \in SUBSET (DOMAIN row.hosts) /\ \A i \in I : row.hosts[i] = key
    OBVIOUS
  <1>6. key \in Range(row.hosts) => I # {}
    BY DEF Range
  <1> HIDE DEF I
  <1>7. /\ scoped \in Seq(R!Hosts) /\ Range(scoped) = {row.hosts[i] : i \in I}
        /\ DOMAIN scoped = 1..Len(scoped)
    BY <1>2, <1>5, SubsequenceRange, SubsequenceKeeps
  <1> HIDE DEF scoped, res
  <1>8. Range(scoped) \subseteq {key} /\ (scoped # <<>> => key \in Range(scoped))
    <2>1. scoped # <<>> => 1 \in DOMAIN scoped
      BY <1>7
    <2>2. scoped # <<>> => scoped[1] \in Range(scoped)
      BY <2>1 DEF Range
    <2> QED
      BY <1>5, <1>7, <2>2
  <1>9. Range(scoped) \subseteq Range(row.hosts)
    BY <1>5, <1>7 DEF Range
  <1>10. res \in Seq(R!Hosts) /\ Range(res) \subseteq Range(row.hosts)
    BY <1>2, <1>4, <1>7, <1>9
  <1>11. ASSUME key \in R!Hosts PROVE Range(res) \subseteq {key}
    <2>1. key \in Range(row.hosts)
      <3>1. PICK q \in Rows : key \in Range(q.hosts)
        BY <1>11, PortalWords
      <3>2. row.payee # key
        BY <1>1, <3>1, PortalAssumption
      <3> QED
        BY <1>1, <3>2
    <2>2. I # {}
      BY <1>6, <2>1
    <2>3. Range(scoped) # {}
      BY <1>7, <2>2
    <2>4. scoped # <<>>
      BY <2>3 DEF Range
    <2> QED
      BY <1>4, <1>8, <2>4
  <1> QED
    BY <1>1, <1>3, <1>10, <1>11 DEF row, res

\* A report built from a probe of the key's own endpoints is about the key.
LEMMA ReportIsAbout ==
    ASSUME NEW key, R!FindRows(key) # {}, NEW p \in Probes, p.host \in {"none"} \cup Allowed(key)
    PROVE  /\ About(key, R!BuildReport(R!SelectSubject(R!FindRows(key)), p))
           /\ R!SelectSubject(R!FindRows(key)) \in Rows
  <1> DEFINE row == R!SelectSubject(R!FindRows(key))
             r == R!BuildReport(row, p)
  <1>1. /\ row \in Rows /\ (row.payee = key \/ key \in Range(row.hosts))
        /\ Allowed(key) \subseteq Range(row.hosts) /\ "none" \notin Allowed(key)
        /\ key \in R!Hosts => Allowed(key) \subseteq {key}
    BY ResourcesAre DEF Allowed
  <1> HIDE DEF row
  <1>2. r.payee = row.payee /\ r.host = p.host /\ r.findings = R!Findings(row, p)
    BY DEF R!BuildReport
  <1>3. r.findings.challenge = R!AssessParseability(p) /\ r.findings.reach = R!AssessReach(p)
    BY <1>2 DEF R!Findings
  <1> HIDE DEF r
  <1>4. r.findings.challenge = R!Blocker => r.findings.reach = R!Info
    BY <1>3 DEF R!AssessParseability, R!AssessReach, R!Blocker, R!Info, R!Unknown
  <1> QED
    BY <1>1, <1>2, <1>4 DEF About, row, r

\* The entries of the other keys, each once.
LEMMA OthersKeep ==
    ASSUME PortalInv, NEW key
    PROVE  LET o == R!Others(key)
           IN  /\ o \in Seq(Entries) /\ Len(o) <= Len(cache) /\ OnePerKey(o)
               /\ Range(o) \subseteq Range(cache)
               /\ \A e \in Range(o) : e.key # key
               /\ Len(o) = Len(cache) => \A e \in Range(cache) : e.key # key
  <1> DEFINE I == {i \in DOMAIN cache : cache[i].key # key}
             o == Subsequence(cache, I)
  <1>1. R!Others(key) = o
    BY PortalWords DEF R!Others
  <1>2. cache \in Seq(Entries) /\ OnePerKey(cache) /\ Len(cache) \in Nat
    BY DEF PortalInv, CacheOK
  <1>3. /\ I \in SUBSET (DOMAIN cache) /\ \A i \in I : cache[i].key # key
        /\ I = DOMAIN cache => \A i \in DOMAIN cache : cache[i].key # key
    OBVIOUS
  <1> HIDE DEF I
  <1>4. o \in Seq(Entries) /\ Range(o) = {cache[i] : i \in I}
    BY <1>2, <1>3, SubsequenceKeeps, SubsequenceRange
  <1>5. Len(o) <= Len(cache) /\ (I # DOMAIN cache => Len(o) < Len(cache))
    BY <1>2, <1>3, ShorterSubsequence
  <1>6. Len(o) \in Nat
    BY <1>4
  <1>7. OnePerKey(o)
    <2> SUFFICES ASSUME NEW a \in DOMAIN o, NEW b \in DOMAIN o, o[a].key = o[b].key PROVE a = b
      BY DEF OnePerKey
    <2>1. PICK i \in I, j \in I : o[a] = cache[i] /\ o[b] = cache[j] /\ (i = j => a = b)
      BY <1>2, <1>3, SubsequenceRange
    <2>2. i \in DOMAIN cache /\ j \in DOMAIN cache /\ cache[i].key = cache[j].key
      BY <1>3, <2>1
    <2>3. i = j
      BY <1>2, <2>2 DEF OnePerKey
    <2> QED
      BY <2>1, <2>3
  <1> HIDE DEF o
  <1>8. Range(o) \subseteq Range(cache) /\ \A e \in Range(o) : e.key # key
    BY <1>3, <1>4 DEF Range
  <1>9. Len(o) = Len(cache) => \A e \in Range(cache) : e.key # key
    BY <1>2, <1>3, <1>5, <1>6 DEF Range
  <1> QED
    BY <1>1, <1>4, <1>5, <1>7, <1>8, <1>9

\* A report put in the cache finds room, and is the only one of its key.
LEMMA PutKeeps ==
    ASSUME PortalInv, NEW key, NEW report, NEW at, NEW e \in Entries,
           e = [key |-> key, at |-> at, report |-> report], About(key, report)
    PROVE  LET c == R!Put(key, report, at)
           IN  /\ c \in Seq(Entries) /\ Len(c) <= CacheMax /\ OnePerKey(c)
               /\ \A d \in Range(c) : About(d.key, d.report)
  <1> DEFINE o == R!Others(key)
             room == IF Len(o) = Len(cache) /\ Len(cache) >= CacheMax THEN Tail(cache) ELSE o
             c == Append(room, e)
  <1>1. R!Put(key, report, at) = c
    BY DEF R!Put
  <1>2. /\ o \in Seq(Entries) /\ Len(o) <= Len(cache) /\ OnePerKey(o)
        /\ Range(o) \subseteq Range(cache)
        /\ \A d \in Range(o) : d.key # key
        /\ Len(o) = Len(cache) => \A d \in Range(cache) : d.key # key
    BY OthersKeep
  <1> HIDE DEF o
  <1>3. /\ cache \in Seq(Entries) /\ Len(cache) <= CacheMax /\ OnePerKey(cache) /\ Len(cache) \in Nat
        /\ \A d \in Range(cache) : About(d.key, d.report)
        /\ CacheMax \in Nat /\ CacheMax > 0 /\ Len(o) \in Nat
    BY <1>2, PortalAssumption DEF PortalInv, CacheOK
  <1>4. /\ room \in Seq(Entries) /\ Len(room) < CacheMax /\ OnePerKey(room) /\ Range(room) \subseteq Range(cache)
        /\ \A d \in Range(room) : d.key # key
    <2>1. CASE Len(o) = Len(cache) /\ Len(cache) >= CacheMax
      <3>1. cache # <<>> /\ room = Tail(cache)
        BY <1>3, <2>1
      <3>2. /\ Tail(cache) \in Seq(Entries) /\ Len(Tail(cache)) = Len(cache) - 1
            /\ \A i \in DOMAIN Tail(cache) : i \in Nat /\ i + 1 \in DOMAIN cache /\ Tail(cache)[i] = cache[i + 1]
        BY <1>3, <3>1
      <3>3. Range(Tail(cache)) \subseteq Range(cache)
        BY <3>2 DEF Range
      <3>4. OnePerKey(Tail(cache))
        <4> SUFFICES ASSUME NEW a \in DOMAIN Tail(cache), NEW b \in DOMAIN Tail(cache),
                            Tail(cache)[a].key = Tail(cache)[b].key
                     PROVE  a = b
          BY DEF OnePerKey
        <4>1. /\ a \in Nat /\ b \in Nat /\ a + 1 \in DOMAIN cache /\ b + 1 \in DOMAIN cache
              /\ cache[a + 1].key = cache[b + 1].key
          BY <3>2
        <4>2. a + 1 = b + 1
          BY <1>3, <4>1 DEF OnePerKey
        <4> QED
          BY <4>1, <4>2
      <3>5. Len(Tail(cache)) < CacheMax
        BY <1>3, <3>2
      <3> QED
        BY <1>2, <2>1, <3>1, <3>2, <3>3, <3>4, <3>5
    <2>2. CASE ~(Len(o) = Len(cache) /\ Len(cache) >= CacheMax)
      <3>1. room = o
        BY <2>2
      <3>2. Len(o) < CacheMax
        BY <1>2, <1>3, <2>2
      <3> QED
        BY <1>2, <3>1, <3>2
    <2> QED
      BY <2>1, <2>2
  <1> HIDE DEF room
  <1>5. /\ c \in Seq(Entries) /\ Len(c) = Len(room) + 1 /\ DOMAIN c = DOMAIN room \cup {Len(room) + 1}
        /\ \A i \in DOMAIN room : c[i] = room[i]
        /\ c[Len(room) + 1] = e
    BY <1>4, AppendPositions
  <1>6. Len(c) <= CacheMax
    <2>1. Len(room) \in Nat
      BY <1>4
    <2> QED
      BY <1>3, <1>4, <1>5, <2>1
  <1>7. e.key = key /\ e.report = report /\ \A i \in DOMAIN room : room[i].key # key
    BY <1>4 DEF Range
  <1> HIDE DEF c
  <1>8. OnePerKey(c)
    <2> SUFFICES ASSUME NEW a \in DOMAIN c, NEW b \in DOMAIN c, c[a].key = c[b].key PROVE a = b
      BY DEF OnePerKey
    <2> QED
      BY <1>4, <1>5, <1>7 DEF OnePerKey
  <1>9. ASSUME NEW d \in Range(c) PROVE About(d.key, d.report)
    <2>1. d \in Range(room) \/ d = e
      BY <1>5 DEF Range
    <2> QED
      BY <1>3, <1>4, <1>7, <2>1
  <1> QED
    BY <1>1, <1>5, <1>6, <1>8, <1>9

\* A mark made: the map stays within its bound, and only that host's mark is new.
LEMMA MarkedKeeps ==
    ASSUME NEW map \in Seq(MarkSet), Len(map) <= CooldownMax, OnePerHost(map),
           NEW h \in R!Hosts, NEW now \in Nat
    PROVE  LET m == R!Marked(map, h, now)
               mark == [host |-> h, at |-> now]
           IN  /\ m \in Seq(MarkSet) /\ Len(m) <= CooldownMax /\ OnePerHost(m)
               /\ mark \in Range(m)
               /\ \A e \in Range(m) : e = mark \/ e \in Range(map)
  <1> DEFINE earliest == CHOOSE e \in Range(map) : \A f \in Range(map) : e.at <= f.at
             I == {i \in DOMAIN map : map[i] # earliest}
             room == IF Len(map) >= CooldownMax THEN Subsequence(map, I) ELSE map
             mark == [host |-> h, at |-> now]
             renewed == [i \in DOMAIN room |-> IF room[i].host = h THEN mark ELSE room[i]]
             m == IF \E e \in Range(room) : e.host = h THEN renewed ELSE Append(room, mark)
  <1>1. R!Marked(map, h, now) = m
    BY PortalWords DEF R!Marked
  <1>2. CooldownMax \in Nat /\ CooldownMax > 0 /\ Len(map) \in Nat /\ mark \in MarkSet /\ mark.host = h
    BY PortalAssumption DEF MarkSet
  <1> HIDE DEF mark
  <1>3. /\ room \in Seq(MarkSet) /\ Len(room) < CooldownMax /\ OnePerHost(room) /\ Range(room) \subseteq Range(map)
    <2>1. CASE Len(map) >= CooldownMax
      <3>1. 1 \in DOMAIN map /\ map[1] \in Range(map)
        BY <1>2, <2>1 DEF Range
      <3>2. \A e \in Range(map) : e \in MarkSet /\ e.at \in Nat
        <4>1. \A i \in DOMAIN map : map[i] \in MarkSet
          OBVIOUS
        <4> QED
          BY <4>1 DEF Range, MarkSet
      <3> DEFINE N == {e.at : e \in Range(map)}
      <3>3. N \in SUBSET Nat /\ N # {}
        BY <3>1, <3>2
      <3>4. \E n \in N : \A k \in N : n <= k
        BY <3>3, SmallestElement
      <3>5. earliest \in Range(map)
        BY <3>4
      <3> HIDE DEF earliest
      <3>6. PICK k \in DOMAIN map : map[k] = earliest
        BY <3>5 DEF Range
      <3>7. I \in SUBSET (DOMAIN map) /\ I # DOMAIN map
        BY <3>6
      <3> HIDE DEF I
      <3>8. /\ Subsequence(map, I) \in Seq(MarkSet) /\ Len(Subsequence(map, I)) < Len(map)
            /\ Range(Subsequence(map, I)) = {map[i] : i \in I}
        BY <3>7, SubsequenceKeeps, ShorterSubsequence, SubsequenceRange
      <3>9. OnePerHost(Subsequence(map, I))
        <4> DEFINE r == Subsequence(map, I)
        <4> SUFFICES ASSUME NEW a \in DOMAIN r, NEW b \in DOMAIN r, r[a].host = r[b].host PROVE a = b
          BY DEF OnePerHost
        <4>1. PICK i \in I, j \in I : r[a] = map[i] /\ r[b] = map[j] /\ (i = j => a = b)
          BY <3>7, SubsequenceRange
        <4>2. i \in DOMAIN map /\ j \in DOMAIN map /\ map[i].host = map[j].host
          BY <3>7, <4>1
        <4>3. i = j
          BY <4>2 DEF OnePerHost
        <4> QED
          BY <4>1, <4>3
      <3>10. room = Subsequence(map, I)
        BY <2>1
      <3>11. Len(Subsequence(map, I)) \in Nat
        BY <3>8
      <3>12. Range(Subsequence(map, I)) \subseteq Range(map)
        BY <3>7, <3>8 DEF Range
      <3> QED
        BY <1>2, <3>8, <3>9, <3>10, <3>11, <3>12
    <2>2. CASE ~(Len(map) >= CooldownMax)
      <3>1. room = map /\ Len(map) < CooldownMax
        BY <1>2, <2>2
      <3> QED
        BY <3>1
    <2> QED
      BY <2>1, <2>2
  <1> HIDE DEF room
  <1>4. Len(room) \in Nat /\ DOMAIN room = 1..Len(room)
    BY <1>3
  <1>5. CASE \E e \in Range(room) : e.host = h
    <2>1. m = renewed
      BY <1>5
    <2>2. PICK k \in DOMAIN room : room[k].host = h
      BY <1>5 DEF Range
    <2>3. \A i \in DOMAIN room : room[i] \in MarkSet
      BY <1>3
    <2>4. /\ renewed \in [1..Len(room) -> MarkSet] /\ DOMAIN renewed = DOMAIN room
          /\ \A i \in DOMAIN room : (renewed[i] = mark /\ room[i].host = h) \/ (renewed[i] = room[i] /\ room[i].host # h)
      <3>1. \A i \in DOMAIN room : (IF room[i].host = h THEN mark ELSE room[i]) \in MarkSet
        BY <1>2, <2>3
      <3>2. renewed \in [1..Len(room) -> MarkSet]
        BY <1>4, <3>1
      <3>3. \A i \in DOMAIN room : renewed[i] = IF room[i].host = h THEN mark ELSE room[i]
        OBVIOUS
      <3>4. DOMAIN renewed = DOMAIN room
        OBVIOUS
      <3> HIDE DEF renewed
      <3>5. \A i \in DOMAIN room : room[i].host = h => renewed[i] = mark
        BY <3>3
      <3>6. \A i \in DOMAIN room : room[i].host # h => renewed[i] = room[i]
        BY <3>3
      <3> QED
        BY <3>2, <3>4, <3>5, <3>6, Zenon
    <2>5. renewed \in Seq(MarkSet) /\ Len(renewed) = Len(room)
      BY <1>4, <2>4
    <2> HIDE DEF renewed
    <2>6. \A i \in DOMAIN room : renewed[i].host = room[i].host
      BY <1>2, <2>4
    <2>7. OnePerHost(renewed)
      BY <1>3, <2>4, <2>6 DEF OnePerHost
    <2>8. mark \in Range(renewed)
      BY <2>2, <2>4 DEF Range
    <2>9. \A e \in Range(renewed) : e = mark \/ e \in Range(map)
      BY <1>3, <2>4 DEF Range
    <2>10. Len(renewed) <= CooldownMax
      BY <1>2, <1>3, <1>4, <2>5
    <2> QED
      BY <1>1, <2>1, <2>5, <2>7, <2>8, <2>9, <2>10 DEF mark
  <1>6. CASE ~ \E e \in Range(room) : e.host = h
    <2> DEFINE a == Append(room, mark)
    <2>1. m = a
      BY <1>6
    <2>2. /\ a \in Seq(MarkSet) /\ Len(a) = Len(room) + 1 /\ DOMAIN a = DOMAIN room \cup {Len(room) + 1}
          /\ \A i \in DOMAIN room : a[i] = room[i]
          /\ a[Len(room) + 1] = mark
      BY <1>2, <1>3, AppendPositions
    <2> HIDE DEF a, m
    <2>3. \A i \in DOMAIN room : room[i].host # h
      BY <1>6 DEF Range
    <2>4. OnePerHost(a)
      <3> SUFFICES ASSUME NEW i \in DOMAIN a, NEW j \in DOMAIN a, a[i].host = a[j].host PROVE i = j
        BY DEF OnePerHost
      <3> QED
        BY <1>2, <1>3, <2>2, <2>3 DEF OnePerHost
    <2>5. mark \in Range(a)
      BY <2>2 DEF Range
    <2>6. \A e \in Range(a) : e = mark \/ e \in Range(map)
      BY <1>3, <2>2 DEF Range
    <2>7. Len(a) <= CooldownMax
      BY <1>2, <1>3, <1>4, <2>2
    <2> QED
      BY <1>1, <2>1, <2>2, <2>4, <2>5, <2>6, <2>7 DEF mark
  <1> QED
    BY <1>5, <1>6

\* Marks made one after the other: the last host's is there, and no other host's is new.
LEMMA MarksKeep ==
    ASSUME NEW map \in Seq(MarkSet), Len(map) <= CooldownMax, OnePerHost(map),
           NEW hosts \in Seq(R!Hosts), NEW now \in Nat
    PROVE  LET m == R!Marks(map, hosts, now)
           IN  /\ m \in Seq(MarkSet) /\ Len(m) <= CooldownMax /\ OnePerHost(m)
               /\ hosts # <<>> => [host |-> hosts[Len(hosts)], at |-> now] \in Range(m)
               /\ \A e \in Range(m) : e.host \in Range(hosts) \/ e \in Range(map)
  <1> DEFINE n == Len(hosts)
             T == {m \in Seq(MarkSet) : /\ Len(m) <= CooldownMax /\ OnePerHost(m)
                                        /\ \A e \in Range(m) : e.host \in Range(hosts) \/ e \in Range(map)}
             G == [m \in T |-> [k \in 1..n |-> R!Marked(m, hosts[k], now)]]
             Steps(f) == [k \in 0..n |-> IF k = 0 THEN map ELSE R!Marked(f[k - 1], hosts[k], now)]
             after == CHOOSE f : f = Steps(f)
  <1>1. n \in Nat /\ DOMAIN hosts = 1..n /\ \A k \in 1..n : hosts[k] \in R!Hosts /\ hosts[k] \in Range(hosts)
    BY DEF Range
  <1>2. map \in T
    OBVIOUS
  <1>3. ASSUME NEW m \in T, NEW k \in 1..n
        PROVE  R!Marked(m, hosts[k], now) \in T /\ [host |-> hosts[k], at |-> now] \in Range(R!Marked(m, hosts[k], now))
    <2> DEFINE w == R!Marked(m, hosts[k], now)
               mark == [host |-> hosts[k], at |-> now]
    <2>1. /\ m \in Seq(MarkSet) /\ Len(m) <= CooldownMax /\ OnePerHost(m)
          /\ \A e \in Range(m) : e.host \in Range(hosts) \/ e \in Range(map)
      OBVIOUS
    <2>2. /\ w \in Seq(MarkSet) /\ Len(w) <= CooldownMax /\ OnePerHost(w)
          /\ mark \in Range(w)
          /\ \A e \in Range(w) : e = mark \/ e \in Range(m)
      BY <1>1, <2>1, MarkedKeeps
    <2>3. mark.host = hosts[k] /\ mark.host \in Range(hosts)
      BY <1>1
    <2> HIDE DEF w, mark
    <2>4. \A e \in Range(w) : e.host \in Range(hosts) \/ e \in Range(map)
      BY <2>1, <2>2, <2>3
    <2>5. w \in T
      BY <2>2, <2>4
    <2> QED
      BY <2>2, <2>5 DEF w, mark
  <1> HIDE DEF T
  <1>4. \A m \in T : \A k \in 1..n : G[m][k] = R!Marked(m, hosts[k], now)
    OBVIOUS
  <1>5. \A m \in T : \A k \in 1..n : G[m][k] \in T
    BY <1>3, <1>4
  <1> HIDE DEF n, G
  <1>6. PICK f : f \in [0..n -> T] /\ f[0] = map /\ \A k \in 1..n : f[k] = G[f[k - 1]][k]
    <2>1. \E f : Unfolds(f, n, T, map, G)
      BY <1>1, <1>2, <1>5, StepsExist
    <2> QED
      BY <2>1 DEF Unfolds
  <1>7. \A k \in 1..n : k - 1 \in 0..n /\ f[k - 1] \in T
    <2>1. \A k \in 1..n : k - 1 \in 0..n
      BY <1>1
    <2> QED
      BY <1>6, <2>1
  <1>8. \A k \in 1..n : f[k] = R!Marked(f[k - 1], hosts[k], now)
    BY <1>4, <1>6, <1>7
  <1>9. f = Steps(f)
    <2>1. \A k \in 0..n : f[k] = IF k = 0 THEN map ELSE R!Marked(f[k - 1], hosts[k], now)
      BY <1>1, <1>6, <1>8
    <2> QED
      BY <1>6, <2>1
  <1>10. after = Steps(after)
    BY <1>9
  <1>11. R!Marks(map, hosts, now) = after[n]
    BY DEF R!Marks, n
  <1> HIDE DEF after
  <1>12. /\ after[0] = map
         /\ \A k \in 1..n : after[k] = R!Marked(after[k - 1], hosts[k], now)
    BY <1>1, <1>10
  <1> DEFINE bad == {k \in 0..n : after[k] \notin T}
  <1>13. bad = {}
    <2> SUFFICES ASSUME bad # {} PROVE FALSE
      OBVIOUS
    <2>1. bad \in SUBSET Nat
      OBVIOUS
    <2>2. PICK k \in bad : \A j \in bad : k <= j
      BY <2>1, SmallestElement
    <2>3. k # 0 /\ k \in 0..n /\ after[k] \notin T
      BY <1>2, <1>12
    <2>4. k \in 1..n /\ k - 1 \in 0..n /\ ~(k <= k - 1)
      BY <1>1, <2>3
    <2>5. after[k - 1] \in T
      BY <2>2, <2>4
    <2> QED
      BY <1>3, <1>12, <2>3, <2>4, <2>5
  <1>14. \A k \in 0..n : after[k] \in T
    BY <1>13
  <1>15. hosts # <<>> => [host |-> hosts[n], at |-> now] \in Range(after[n])
    <2> SUFFICES ASSUME hosts # <<>> PROVE [host |-> hosts[n], at |-> now] \in Range(after[n])
      OBVIOUS
    <2>1. n \in 1..n /\ n - 1 \in 0..n
      <3>1. n # 0
        BY DEF n
      <3> QED
        BY <1>1, <3>1
    <2> QED
      BY <1>3, <1>12, <1>14, <2>1
  <1>16. n \in 0..n
    BY <1>1
  <1>17. after[n] \in T
    BY <1>14, <1>16
  <1> QED
    BY <1>11, <1>15, <1>17 DEF T, n

LEMMA PortalInit == R!Init => PortalInv
  <1> SUFFICES ASSUME R!Init PROVE PortalInv
    OBVIOUS
  <1>1. /\ portalClock = 0 /\ cache = <<>> /\ cooldown = <<>>
        /\ portalTh = [t \in Threads |-> R!Idle]
        /\ touched = [h \in R!Hosts |-> [at |-> R!Never, answered |-> FALSE]]
    BY DEF R!Init
  <1>2. CacheOK
    <2>1. Len(cache) = 0 /\ DOMAIN cache = {} /\ Range(cache) = {}
      BY <1>1 DEF Range
    <2> QED
      BY <1>1, <2>1, PortalAssumption DEF CacheOK, OnePerKey
  <1>3. RestOK
    <2>1. Len(cooldown) = 0 /\ DOMAIN cooldown = {}
      BY <1>1
    <2>2. R!Never \in Int
      BY PortalAssumption DEF R!Never
    <2>3. touched \in [R!Hosts -> [at : Int, answered : BOOLEAN]] /\ \A h \in R!Hosts : ~ touched[h].answered
      BY <1>1, <2>2
    <2> QED
      BY <1>1, <2>1, <2>3, PortalAssumption DEF RestOK, OnePerHost
  <1>4. VisitsOK
    BY <1>1, PortalIdle DEF VisitsOK, OnTrack
  <1>5. portalClock \in 0..LastTick
    BY <1>1, PortalAssumption
  <1> QED
    BY <1>2, <1>3, <1>4, <1>5 DEF PortalInv

LEMMA PortalSame ==
    ASSUME PortalInv, UNCHANGED portalVars
    PROVE  PortalInv'
  <1>1. UNCHANGED <<portalClock, cache, cooldown, portalTh, touched>>
    BY DEF portalVars
  <1> QED
    BY <1>1 DEF PortalInv, CacheOK, RestOK, VisitsOK

LEMMA CacheSame == CacheOK /\ cache' = cache => CacheOK'
  BY DEF CacheOK

LEMMA RestSame == RestOK /\ UNCHANGED <<cooldown, touched>> => RestOK'
  BY DEF RestOK

\* A visit moves on, on track.
LEMMA VisitMoves ==
    ASSUME VisitsOK, NEW t \in Threads, NEW f \in Visits, OnTrack(f), portalTh' = [portalTh EXCEPT ![t] = f]
    PROVE  VisitsOK'
  <1>1. portalTh \in [Threads -> Visits]
    BY DEF VisitsOK
  <1>2. portalTh' \in [Threads -> Visits]
    BY <1>1
  <1>3. ASSUME NEW q \in Threads PROVE OnTrack(portalTh'[q])
    <2>1. CASE q = t
      BY <1>1, <2>1
    <2>2. CASE q # t
      BY <1>1, <2>2 DEF VisitsOK
    <2> QED
      BY <2>1, <2>2
  <1> QED
    BY <1>2, <1>3 DEF VisitsOK

LEMMA ReportStep ==
    ASSUME PortalInv, NEW t \in Threads, NEW key \in VisitedKeys, R!Report(t, key)
    PROVE  PortalInv'
  <1> DEFINE f == [R!Idle EXCEPT !.pc = "find", !.key = key, !.now = portalClock]
  <1>1. /\ portalTh' = [portalTh EXCEPT ![t] = f] /\ cache' = R!Others(key)
        /\ UNCHANGED <<portalClock, cooldown, touched>>
    BY DEF R!Report
  <1>2. f \in Visits /\ OnTrack(f)
    <2>1. portalClock \in Nat
      BY PortalAssumption DEF PortalInv
    <2>2. f = [pc |-> "find", key |-> key, now |-> portalClock, planned |-> 0,
               todo |-> <<>>, tried |-> <<>>, probe |-> R!NoProbe]
      <3> DEFINE a == [R!Idle EXCEPT !.pc = "find"]
                 b == [a EXCEPT !.key = key]
      <3>1. a = [R!Idle EXCEPT !.pc = "find"] /\ a.pc = "find"
        BY DEF R!Idle
      <3>2. a = [pc |-> "find", key |-> "none", now |-> 0, planned |-> 0,
                 todo |-> <<>>, tried |-> <<>>, probe |-> R!NoProbe]
        BY DEF R!Idle
      <3>3. f = [b EXCEPT !.now = portalClock]
        OBVIOUS
      <3> HIDE DEF a
      <3>4. b = [pc |-> "find", key |-> key, now |-> 0, planned |-> 0,
                 todo |-> <<>>, tried |-> <<>>, probe |-> R!NoProbe]
        BY <3>2
      <3> HIDE DEF b
      <3> QED
        BY <3>3, <3>4
    <2>3. f \in Visits
      BY <2>1, <2>2, PortalIdle DEF Visits
    <2> QED
      BY <2>2, <2>3 DEF OnTrack
  <1>3. /\ cache' \in Seq(Entries) /\ Len(cache') <= Len(cache) /\ OnePerKey(cache')
        /\ Range(cache') \subseteq Range(cache)
    BY <1>1, OthersKeep
  <1>4. Len(cache') <= CacheMax
    <2>1. cache \in Seq(Entries) /\ Len(cache) <= CacheMax /\ CacheMax \in Nat
      BY PortalAssumption DEF PortalInv, CacheOK
    <2> QED
      BY <1>3, <2>1
  <1>5. CacheOK'
    BY <1>3, <1>4 DEF PortalInv, CacheOK, OnePerKey
  <1>6. RestOK' /\ VisitsOK'
    BY <1>1, <1>2, RestSame, VisitMoves DEF PortalInv
  <1> QED
    BY <1>1, <1>5, <1>6 DEF PortalInv

\* A report is given: it is about its key, and the thread is done.
LEMMA GivesStep ==
    ASSUME PortalInv, NEW t \in Threads, NEW report, R!Gives(t, report), About(portalTh[t].key, report),
           report \in {R!NotFound} \cup {R!BuildReport(r, p) : r \in Rows, p \in Probes},
           UNCHANGED <<portalClock, cooldown, touched>>
    PROVE  PortalInv'
  <1> DEFINE key == portalTh[t].key
             at == portalTh[t].now
             e == [key |-> key, at |-> at, report |-> report]
  <1>1. portalTh[t] \in Visits
    BY DEF PortalInv, VisitsOK
  <1>2. cache' = R!Put(key, report, at) /\ portalTh' = [portalTh EXCEPT ![t] = R!Idle]
    BY DEF R!Gives, R!Answered
  <1>3. key \in VisitedKeys \cup {"none"} /\ at \in Nat
    BY <1>1 DEF Visits
  <1>4. e \in Entries
    BY <1>3 DEF Entries
  <1> HIDE DEF key, at
  <1>5. /\ cache' \in Seq(Entries) /\ Len(cache') <= CacheMax /\ OnePerKey(cache')
        /\ \A d \in Range(cache') : About(d.key, d.report)
    BY <1>2, <1>4, PutKeeps DEF key
  <1>6. CacheOK'
    BY <1>5 DEF CacheOK, OnePerKey
  <1>7. OnTrack(R!Idle)
    BY PortalIdle DEF OnTrack
  <1>8. RestOK' /\ VisitsOK'
    BY <1>2, <1>7, PortalIdle, RestSame, VisitMoves DEF PortalInv
  <1> QED
    BY <1>6, <1>8 DEF PortalInv

LEMMA NoRecordStep ==
    ASSUME PortalInv, NEW t \in Threads, R!NoRecord(t)
    PROVE  PortalInv'
  <1>1. ~ R!NotFound.found
    BY DEF R!NotFound
  <1>2. About(portalTh[t].key, R!NotFound)
    BY <1>1 DEF About
  <1>3. R!Gives(t, R!NotFound) /\ UNCHANGED <<portalClock, cooldown, touched>>
    BY DEF R!NoRecord
  <1> QED
    BY <1>2, <1>3, GivesStep

LEMMA AssessStep ==
    ASSUME PortalInv, NEW t \in Threads, R!Assess(t)
    PROVE  PortalInv'
  <1> DEFINE v == portalTh[t]
             row == R!SelectSubject(R!FindRows(v.key))
             report == R!BuildReport(row, v.probe)
  <1>1. v \in Visits /\ OnTrack(v) /\ v.pc = "assess"
    BY DEF PortalInv, VisitsOK, R!Assess
  <1>2. v.probe \in Probes /\ R!FindRows(v.key) # {} /\ v.probe.host \in {"none"} \cup Allowed(v.key)
    BY <1>1 DEF Visits, OnTrack
  <1>3. R!Gives(t, report) /\ UNCHANGED <<portalClock, cooldown, touched>>
    BY DEF R!Assess
  <1>4. About(v.key, report) /\ row \in Rows
    BY <1>2, ReportIsAbout
  <1> HIDE DEF v, row
  <1>5. report \in {R!NotFound} \cup {R!BuildReport(r, p) : r \in Rows, p \in Probes}
    BY <1>2, <1>4
  <1> HIDE DEF report
  <1> QED
    BY <1>3, <1>4, <1>5, GivesStep DEF v

\* The fields of a visit an action sets, and what is left of it.
LEMMA VisitIs ==
    ASSUME NEW v \in Visits
    PROVE  v = [pc |-> v.pc, key |-> v.key, now |-> v.now, planned |-> v.planned,
                todo |-> v.todo, tried |-> v.tried, probe |-> v.probe]
  BY DEF Visits

LEMMA PlanProbeStep ==
    ASSUME PortalInv, NEW t \in Threads, R!PlanProbe(t)
    PROVE  PortalInv'
  <1> DEFINE v == portalTh[t]
             hosts == R!ResourcesForKey(R!SelectSubject(R!FindRows(v.key)), v.key)
             I == {i \in DOMAIN hosts : R!HostReady(hosts[i], portalClock)}
             allowed == Subsequence(hosts, I)
             p == IF allowed = <<>> THEN "assess" ELSE "probe"
             k == R!Min({MaxProbes, Len(allowed)})
             todo == SubSeq(allowed, 1, k)
             f == [pc |-> p, key |-> v.key, now |-> v.now, planned |-> portalClock, todo |-> todo,
                   tried |-> v.tried, probe |-> v.probe]
  <1>1. v \in Visits /\ OnTrack(v) /\ v.pc = "find" /\ R!FindRows(v.key) # {}
    BY DEF PortalInv, VisitsOK, R!PlanProbe
  <1>2. portalTh' = [portalTh EXCEPT ![t].pc = p, ![t].planned = portalClock, ![t].todo = todo]
    BY PortalWords DEF R!PlanProbe
  <1>3. UNCHANGED <<portalClock, cache, cooldown, touched>>
    BY DEF R!PlanProbe
  <1>4. hosts \in Seq(R!Hosts) /\ Range(hosts) = Allowed(v.key)
    BY <1>1, ResourcesAre DEF Allowed
  <1>5. I \in SUBSET (DOMAIN hosts)
    OBVIOUS
  <1> HIDE DEF I, hosts, p
  <1>6. allowed \in Seq(R!Hosts) /\ Range(allowed) \subseteq Allowed(v.key)
    <2>1. allowed \in Seq(R!Hosts) /\ Range(allowed) = {hosts[i] : i \in I}
      BY <1>4, <1>5, SubsequenceKeeps, SubsequenceRange
    <2> QED
      BY <1>4, <1>5, <2>1 DEF Range
  <1> HIDE DEF allowed
  <1>7. k \in Nat /\ k <= Len(allowed)
    <2>1. MaxProbes \in Nat /\ Len(allowed) \in Nat
      BY <1>6, PortalAssumption
    <2>2. \E x \in {MaxProbes, Len(allowed)} : \A y \in {MaxProbes, Len(allowed)} : x <= y
      BY <2>1
    <2>3. k \in {MaxProbes, Len(allowed)} /\ \A y \in {MaxProbes, Len(allowed)} : k <= y
      BY <2>2 DEF R!Min
    <2> QED
      BY <2>1, <2>3
  <1> HIDE DEF k
  <1>8. todo \in Seq(R!Hosts) /\ Range(todo) \subseteq Allowed(v.key)
    <2>1. /\ todo \in Seq(R!Hosts) /\ DOMAIN todo = 1..k
          /\ \A i \in 1..k : todo[i] = allowed[i] /\ i \in DOMAIN allowed
      BY <1>6, <1>7
    <2> QED
      BY <1>6, <2>1 DEF Range
  <1> HIDE DEF todo
  <1>9. p \in {"assess", "probe"}
    BY DEF p
  <1>10. portalClock \in Nat
    BY PortalAssumption DEF PortalInv
  <1>11. portalTh' = [portalTh EXCEPT ![t] = f]
    <2> DEFINE w1 == [v EXCEPT !.pc = p]
               w2 == [w1 EXCEPT !.planned = portalClock]
               w3 == [w2 EXCEPT !.todo = todo]
    <2>1. [portalTh EXCEPT ![t].pc = p, ![t].planned = portalClock, ![t].todo = todo] =
            [portalTh EXCEPT ![t] = w3]
      OBVIOUS
    <2>2. w1 = [pc |-> p, key |-> v.key, now |-> v.now, planned |-> v.planned,
               todo |-> v.todo, tried |-> v.tried, probe |-> v.probe]
      <3> HIDE DEF v
      <3> QED
        BY <1>1, VisitIs
    <2>3. w2 = [pc |-> p, key |-> v.key, now |-> v.now, planned |-> portalClock,
               todo |-> v.todo, tried |-> v.tried, probe |-> v.probe]
      <3> HIDE DEF v, w1
      <3> QED
        BY <2>2
    <2>4. w3 = [pc |-> p, key |-> v.key, now |-> v.now, planned |-> portalClock,
               todo |-> todo, tried |-> v.tried, probe |-> v.probe]
      <3> HIDE DEF v, w2
      <3> QED
        BY <2>3
    <2> HIDE DEF w3
    <2> QED
      BY <1>2, <2>1, <2>4
  <1> HIDE DEF v
  <1>12. f \in Visits
    BY <1>1, <1>8, <1>9, <1>10 DEF Visits
  <1>13. v.tried = <<>> /\ v.probe = R!NoProbe /\ v.probe.host = "none"
    BY <1>1, PortalIdle DEF OnTrack
  <1>14. OnTrack(f)
    BY <1>1, <1>8, <1>9, <1>13 DEF OnTrack
  <1> HIDE DEF f
  <1>15. CacheOK' /\ RestOK' /\ VisitsOK'
    BY <1>3, <1>11, <1>12, <1>14, CacheSame, RestSame, VisitMoves DEF PortalInv
  <1> QED
    BY <1>3, <1>15 DEF PortalInv

LEMMA ContactStep ==
    ASSUME PortalInv, NEW t \in Threads, NEW o \in {"readable", "unreadable", "silent"}, R!Contact(t, o)
    PROVE  PortalInv'
  <1> DEFINE v == portalTh[t]
             h == Head(v.todo)
             result == [host |-> h, answered |-> o # "silent", readable |-> o = "readable"]
             tried == Append(v.tried, h)
             rest == Tail(v.todo)
             p == IF result.answered \/ Len(v.todo) = 1 THEN "mark" ELSE "probe"
             probe == IF result.answered \/ tried = <<h>> THEN result ELSE v.probe
             f == [pc |-> p, key |-> v.key, now |-> v.now, planned |-> v.planned, todo |-> rest,
                   tried |-> tried, probe |-> probe]
  <1>1. v \in Visits /\ OnTrack(v) /\ v.pc = "probe" /\ v.todo # <<>>
    BY DEF PortalInv, VisitsOK, R!Contact
  <1>2. UNCHANGED <<portalClock, cache, cooldown, touched>>
    BY DEF R!Contact
  <1>3. portalTh' = [portalTh EXCEPT ![t].todo = rest, ![t].tried = tried, ![t].pc = p, ![t].probe = probe]
    BY DEF R!Contact
  <1>4. v.todo \in Seq(R!Hosts) /\ v.tried \in Seq(R!Hosts) /\ v.probe \in Probes
    BY <1>1 DEF Visits
  <1>5. /\ R!FindRows(v.key) # {} /\ v.probe.host \in {"none"} \cup Allowed(v.key)
        /\ Range(v.todo) \subseteq Allowed(v.key)
        /\ v.tried # <<>> => v.probe.host \in Range(v.tried)
    BY <1>1 DEF OnTrack
  <1>6. portalTh' = [portalTh EXCEPT ![t] = f]
    <2> DEFINE w1 == [v EXCEPT !.todo = rest]
               w2 == [w1 EXCEPT !.tried = tried]
               w3 == [w2 EXCEPT !.pc = p]
               w4 == [w3 EXCEPT !.probe = probe]
    <2>1. [portalTh EXCEPT ![t].todo = rest, ![t].tried = tried, ![t].pc = p, ![t].probe = probe] =
            [portalTh EXCEPT ![t] = w4]
      OBVIOUS
    <2>2. w1 = [pc |-> v.pc, key |-> v.key, now |-> v.now, planned |-> v.planned,
               todo |-> rest, tried |-> v.tried, probe |-> v.probe]
      <3> HIDE DEF v, rest
      <3> QED
        BY <1>1, VisitIs
    <2>3. w2 = [pc |-> v.pc, key |-> v.key, now |-> v.now, planned |-> v.planned,
               todo |-> rest, tried |-> tried, probe |-> v.probe]
      <3> HIDE DEF v, w1, rest, tried, p, probe
      <3> QED
        BY <2>2
    <2>4. w3 = [pc |-> p, key |-> v.key, now |-> v.now, planned |-> v.planned,
               todo |-> rest, tried |-> tried, probe |-> v.probe]
      <3> HIDE DEF v, w2, rest, tried, p, probe
      <3> QED
        BY <2>3
    <2>5. w4 = [pc |-> p, key |-> v.key, now |-> v.now, planned |-> v.planned,
               todo |-> rest, tried |-> tried, probe |-> probe]
      <3> HIDE DEF v, w3, rest, tried, p, probe
      <3> QED
        BY <2>4
    <2> HIDE DEF w4
    <2> QED
      BY <1>3, <2>1, <2>5
  <1> HIDE DEF v
  <1>7. h \in R!Hosts /\ h \in Allowed(v.key) /\ Tail(v.todo) \in Seq(R!Hosts)
        /\ Range(Tail(v.todo)) \subseteq Allowed(v.key)
    <2>1. h = v.todo[1] /\ 1 \in DOMAIN v.todo
      BY <1>1, <1>4
    <2>2. /\ Tail(v.todo) \in Seq(R!Hosts)
          /\ \A i \in DOMAIN Tail(v.todo) : i + 1 \in DOMAIN v.todo /\ Tail(v.todo)[i] = v.todo[i + 1]
      BY <1>1, <1>4
    <2>3. h \in R!Hosts
      BY <1>4, <2>1
    <2>4. Range(Tail(v.todo)) \subseteq Range(v.todo)
      BY <2>2 DEF Range
    <2>5. h \in Range(v.todo)
      BY <2>1 DEF Range
    <2> QED
      BY <1>5, <2>2, <2>3, <2>4, <2>5
  <1> HIDE DEF h
  <1>8. result \in Probes /\ result.host = h
    <2>1. PICK a \in BOOLEAN : a = (o # "silent")
      BY Zenon
    <2>2. PICK b \in BOOLEAN : b = (o = "readable")
      BY Zenon
    <2>3. [host |-> h, answered |-> a, readable |-> b] \in Probes
      BY <1>7 DEF Probes
    <2> QED
      BY <2>1, <2>2, <2>3
  <1>9. p \in {"mark", "probe"}
    OBVIOUS
  <1> HIDE DEF result, p
  <1>10. /\ tried \in Seq(R!Hosts) /\ tried # <<>> /\ h \in Range(tried)
         /\ Range(v.tried) \subseteq Range(tried)
         /\ v.tried = <<>> => tried = <<h>>
    <2>1. /\ tried \in Seq(R!Hosts) /\ DOMAIN tried = DOMAIN v.tried \cup {Len(v.tried) + 1}
          /\ \A i \in DOMAIN v.tried : tried[i] = v.tried[i]
          /\ tried[Len(v.tried) + 1] = h
      BY <1>4, <1>7, AppendPositions
    <2>2. v.tried = <<>> => tried = <<h>>
      OBVIOUS
    <2> HIDE DEF tried
    <2>3. tried # <<>>
      <3>1. Len(v.tried) + 1 \in DOMAIN tried
        BY <2>1
      <3> QED
        BY <3>1
    <2> QED
      BY <2>1, <2>2, <2>3 DEF Range
  <1> HIDE DEF tried
  <1>11. probe \in Probes /\ probe.host \in Range(tried) /\ probe.host \in {"none"} \cup Allowed(v.key)
    <2>1. CASE result.answered \/ tried = <<h>>
      BY <1>7, <1>8, <1>10, <2>1
    <2>2. CASE ~(result.answered \/ tried = <<h>>)
      BY <1>4, <1>5, <1>10, <2>2
    <2> QED
      BY <2>1, <2>2
  <1> HIDE DEF probe
  <1>12. f \in Visits
    BY <1>1, <1>7, <1>9, <1>10, <1>11 DEF Visits
  <1>13. OnTrack(f)
    BY <1>5, <1>7, <1>9, <1>10, <1>11 DEF OnTrack
  <1> HIDE DEF f
  <1>14. CacheOK' /\ RestOK' /\ VisitsOK'
    BY <1>2, <1>6, <1>12, <1>13, CacheSame, RestSame, VisitMoves DEF PortalInv
  <1> QED
    BY <1>2, <1>14 DEF PortalInv

LEMMA MarkStep ==
    ASSUME PortalInv, NEW t \in Threads, R!Mark(t)
    PROVE  PortalInv'
  <1> DEFINE v == portalTh[t]
             i == CHOOSE j \in DOMAIN v.tried : v.tried[j] = v.probe.host
             reached == SubSeq(v.tried, 1, i)
             f == [pc |-> "assess", key |-> v.key, now |-> v.now, planned |-> 0, todo |-> <<>>,
                   tried |-> <<>>, probe |-> v.probe]
  <1>1. v \in Visits /\ OnTrack(v) /\ v.pc = "mark"
    BY DEF PortalInv, VisitsOK, R!Mark
  <1>2. /\ R!FindRows(v.key) # {} /\ v.probe.host \in {"none"} \cup Allowed(v.key)
        /\ v.probe.host \in Range(v.tried)
    BY <1>1 DEF OnTrack
  <1>3. /\ v.tried \in Seq(R!Hosts) /\ v.planned \in Nat /\ v.probe \in Probes /\ v.probe.answered \in BOOLEAN
        /\ v.key \in VisitedKeys \cup {"none"} /\ v.now \in Nat
    BY <1>1 DEF Visits, Probes
  <1>4. /\ cooldown' = R!Marks(cooldown, reached, v.planned)
        /\ touched' = [h \in R!Hosts |->
                        IF h \in Range(v.tried)
                        THEN [at |-> v.planned, answered |-> v.probe.answered /\ h = v.probe.host]
                        ELSE [touched[h] EXCEPT !.answered = @ /\ \E e \in Range(cooldown') : e.host = h]]
        /\ portalTh' = [portalTh EXCEPT ![t].pc = "assess", ![t].tried = <<>>, ![t].todo = <<>>, ![t].planned = 0]
        /\ UNCHANGED <<portalClock, cache>>
    BY PortalWords DEF R!Mark, R!Reached
  <1>5. portalTh' = [portalTh EXCEPT ![t] = f]
    <2> DEFINE w1 == [v EXCEPT !.pc = "assess"]
               w2 == [w1 EXCEPT !.tried = <<>>]
               w3 == [w2 EXCEPT !.todo = <<>>]
               w4 == [w3 EXCEPT !.planned = 0]
    <2>1. [portalTh EXCEPT ![t].pc = "assess", ![t].tried = <<>>, ![t].todo = <<>>, ![t].planned = 0] =
            [portalTh EXCEPT ![t] = w4]
      OBVIOUS
    <2>2. w1 = [pc |-> "assess", key |-> v.key, now |-> v.now, planned |-> v.planned,
                todo |-> v.todo, tried |-> v.tried, probe |-> v.probe]
      <3> HIDE DEF v
      <3> QED
        BY <1>1, VisitIs
    <2>3. w2 = [pc |-> "assess", key |-> v.key, now |-> v.now, planned |-> v.planned,
                todo |-> v.todo, tried |-> <<>>, probe |-> v.probe]
      <3> HIDE DEF v, w1
      <3> QED
        BY <2>2
    <2>4. w3 = [pc |-> "assess", key |-> v.key, now |-> v.now, planned |-> v.planned,
                todo |-> <<>>, tried |-> <<>>, probe |-> v.probe]
      <3> HIDE DEF v, w2
      <3> QED
        BY <2>3
    <2>5. w4 = f
      <3> HIDE DEF v, w3
      <3> QED
        BY <2>4
    <2> HIDE DEF w4
    <2> QED
      BY <1>4, <2>1, <2>5
  <1> HIDE DEF v
  <1>6. i \in DOMAIN v.tried /\ v.tried[i] = v.probe.host
    BY <1>2 DEF Range
  <1> HIDE DEF i
  <1>7. /\ reached \in Seq(R!Hosts) /\ reached # <<>> /\ reached[Len(reached)] = v.probe.host
        /\ Range(reached) \subseteq Range(v.tried)
    <2>1. i \in 1..Len(v.tried) /\ Len(v.tried) \in Nat
      BY <1>3, <1>6
    <2>2. /\ reached \in Seq(R!Hosts) /\ Len(reached) = i
          /\ \A j \in 1..i : reached[j] = v.tried[j] /\ j \in DOMAIN v.tried
      BY <1>3, <2>1
    <2> HIDE DEF reached
    <2>3. DOMAIN reached = 1..i /\ i \in 1..i
      BY <2>1, <2>2
    <2>4. reached # <<>>
      BY <2>1, <2>2
    <2>5. Range(reached) \subseteq Range(v.tried)
      BY <2>2, <2>3 DEF Range
    <2> QED
      BY <1>6, <2>2, <2>3, <2>4, <2>5
  <1> HIDE DEF reached
  <1>8. /\ cooldown \in Seq(MarkSet) /\ Len(cooldown) <= CooldownMax /\ OnePerHost(cooldown)
        /\ touched \in [R!Hosts -> [at : Int, answered : BOOLEAN]]
        /\ \A h \in R!Hosts : touched[h].answered => [host |-> h, at |-> touched[h].at] \in Range(cooldown)
    BY DEF PortalInv, RestOK
  <1>9. cooldown' \in Seq(MarkSet) /\ Len(cooldown') <= CooldownMax /\ OnePerHost(cooldown')
    BY <1>3, <1>4, <1>7, <1>8, MarksKeep
  <1>10. [host |-> v.probe.host, at |-> v.planned] \in Range(cooldown')
    BY <1>3, <1>4, <1>7, <1>8, MarksKeep
  <1>11. \A e \in Range(cooldown') : e.host \in Range(reached) \/ e \in Range(cooldown)
    BY <1>3, <1>4, <1>7, <1>8, MarksKeep
  <1>12. ASSUME NEW h \in R!Hosts
         PROVE  /\ touched'[h] \in [at : Int, answered : BOOLEAN]
                /\ touched'[h].answered => [host |-> h, at |-> touched'[h].at] \in Range(cooldown')
    <2>1. CASE h \in Range(v.tried)
      <3>1. PICK b \in BOOLEAN : b = (v.probe.answered /\ h = v.probe.host)
        BY Zenon
      <3>2. touched'[h] = [at |-> v.planned, answered |-> b]
        BY <1>4, <2>1, <3>1
      <3>3. b => h = v.probe.host
        BY <3>1
      <3> QED
        BY <1>3, <1>10, <3>2, <3>3
    <2>2. CASE h \notin Range(v.tried)
      <3>1. PICK b \in BOOLEAN : b = (touched[h].answered /\ \E e \in Range(cooldown') : e.host = h)
        BY Zenon
      <3>2. touched'[h] = [touched[h] EXCEPT !.answered = b]
        BY <1>4, <2>2, <3>1
      <3>3. touched[h] \in [at : Int, answered : BOOLEAN]
        BY <1>8
      <3>4. touched'[h] = [at |-> touched[h].at, answered |-> b]
        BY <3>2, <3>3
      <3>5. ASSUME b PROVE [host |-> h, at |-> touched[h].at] \in Range(cooldown')
        <4>1. PICK e \in Range(cooldown') : e.host = h
          BY <3>1, <3>5
        <4>2. e \in Range(cooldown)
          BY <1>7, <1>11, <2>2, <4>1
        <4>3. [host |-> h, at |-> touched[h].at] \in Range(cooldown)
          BY <1>8, <3>1, <3>5
        <4>4. PICK j \in DOMAIN cooldown : cooldown[j] = e
          BY <4>2 DEF Range
        <4>5. PICK k \in DOMAIN cooldown : cooldown[k] = [host |-> h, at |-> touched[h].at]
          BY <4>3 DEF Range
        <4>6. cooldown[j].host = cooldown[k].host
          BY <4>1, <4>4, <4>5
        <4>7. j = k
          BY <1>8, <4>6 DEF OnePerHost
        <4> QED
          BY <4>1, <4>4, <4>5, <4>7
      <3> QED
        BY <3>3, <3>4, <3>5
    <2> QED
      BY <2>1, <2>2
  <1>13. touched' \in [R!Hosts -> [at : Int, answered : BOOLEAN]]
    <2>1. DOMAIN touched' = R!Hosts /\ touched' = [h \in R!Hosts |-> touched'[h]]
      BY <1>4
    <2> QED
      BY <1>12, <2>1
  <1>14. RestOK'
    BY <1>9, <1>12, <1>13 DEF RestOK, OnePerHost
  <1>15. f \in Visits
    <2>1. <<>> \in Seq(R!Hosts)
      OBVIOUS
    <2> QED
      BY <1>3, <2>1 DEF Visits
  <1>16. OnTrack(f)
    BY <1>2 DEF OnTrack
  <1> HIDE DEF f
  <1>17. CacheOK' /\ VisitsOK'
    BY <1>4, <1>5, <1>15, <1>16, CacheSame, VisitMoves DEF PortalInv
  <1> QED
    BY <1>4, <1>14, <1>17 DEF PortalInv

LEMMA PortalTickStep ==
    ASSUME PortalInv, R!Tick
    PROVE  PortalInv'
  <1>1. portalClock < LastTick /\ portalClock' = portalClock + 1 /\ UNCHANGED <<cache, cooldown, portalTh, touched>>
    BY DEF R!Tick
  <1>2. portalClock' \in 0..LastTick
    BY <1>1, PortalAssumption DEF PortalInv
  <1> QED
    BY <1>1, <1>2 DEF PortalInv, CacheOK, RestOK, VisitsOK

LEMMA PortalStep ==
    ASSUME PortalInv, R!Next
    PROVE  PortalInv'
  <1>1. ASSUME NEW t \in Threads, NEW key \in VisitedKeys, R!Report(t, key) PROVE PortalInv'
    BY <1>1, ReportStep
  <1>2. ASSUME NEW t \in Threads, R!NoRecord(t) PROVE PortalInv'
    BY <1>2, NoRecordStep
  <1>3. ASSUME NEW t \in Threads, R!PlanProbe(t) PROVE PortalInv'
    BY <1>3, PlanProbeStep
  <1>4. ASSUME NEW t \in Threads, R!Mark(t) PROVE PortalInv'
    BY <1>4, MarkStep
  <1>5. ASSUME NEW t \in Threads, R!Assess(t) PROVE PortalInv'
    BY <1>5, AssessStep
  <1>6. ASSUME NEW t \in Threads, NEW o \in {"readable", "unreadable", "silent"}, R!Contact(t, o) PROVE PortalInv'
    BY <1>6, ContactStep
  <1> QED
    BY <1>1, <1>2, <1>3, <1>4, <1>5, <1>6, PortalTickStep DEF R!Next

LEMMA PortalSound ==
    ASSUME PortalInv
    PROVE  R!TypeOK /\ R!AboutTheAsked
  <1>1. \A e \in Range(cache) : About(e.key, e.report)
    BY DEF PortalInv, CacheOK
  <1>2. R!AboutTheAsked
    BY <1>1, PortalWords DEF R!AboutTheAsked, About
  <1>3. \A t \in Threads : portalTh[t].pc \in {"idle", "find", "probe", "mark", "assess"}
    BY DEF PortalInv, VisitsOK, Visits
  <1> QED
    BY <1>2, <1>3 DEF R!TypeOK, PortalInv, CacheOK, RestOK, OnePerKey

\* A host the plan of a report contacts had no mark that is still warm; and the endpoint
\* that answered is marked.
LEMMA PortalKeep ==
    ASSUME PortalInv, R!Next
    PROVE  R!AnsweredRests
  <1> SUFFICES ASSUME NEW t \in Threads, R!Plans(t), NEW h \in Range(portalTh'[t].todo), touched[h].answered
               PROVE  portalClock - touched[h].at >= Cooldown
    BY PortalWords DEF R!AnsweredRests
  <1>1. portalTh[t].pc = "find" /\ portalTh'[t].pc = "probe" /\ portalTh \in [Threads -> Visits]
    BY DEF R!Plans, PortalInv, VisitsOK
  <1> DEFINE hosts == R!ResourcesForKey(R!SelectSubject(R!FindRows(portalTh[t].key)), portalTh[t].key)
             I == {i \in DOMAIN hosts : R!HostReady(hosts[i], portalClock)}
             allowed == Subsequence(hosts, I)
             k == R!Min({MaxProbes, Len(allowed)})
  <1>2. R!PlanProbe(t)
    <2>1. ASSUME NEW q \in Threads, NEW key \in VisitedKeys, R!Report(q, key) PROVE FALSE
      <3>1. portalTh[q].pc = "idle" /\ \A r \in Threads : r # q => portalTh'[r] = portalTh[r]
        BY <1>1, <2>1 DEF R!Report
      <3> QED
        BY <1>1, <3>1
    <2>2. ASSUME NEW q \in Threads, R!NoRecord(q) \/ R!Assess(q) PROVE FALSE
      <3>1. portalTh' = [portalTh EXCEPT ![q] = R!Idle]
        BY <2>2 DEF R!NoRecord, R!Assess, R!Gives, R!Answered
      <3> QED
        BY <1>1, <3>1, PortalIdle
    <2>3. ASSUME NEW q \in Threads, R!Mark(q) PROVE FALSE
      <3>1. portalTh[q].pc = "mark" /\ \A r \in Threads : r # q => portalTh'[r] = portalTh[r]
        BY <1>1, <2>3 DEF R!Mark
      <3> QED
        BY <1>1, <3>1
    <2>4. ASSUME NEW q \in Threads, NEW o \in {"readable", "unreadable", "silent"}, R!Contact(q, o) PROVE FALSE
      <3>1. portalTh[q].pc = "probe" /\ \A r \in Threads : r # q => portalTh'[r] = portalTh[r]
        BY <1>1, <2>4 DEF R!Contact
      <3> QED
        BY <1>1, <3>1
    <2>5. ASSUME NEW q \in Threads, R!PlanProbe(q) PROVE q = t
      <3>1. \A r \in Threads : r # q => portalTh'[r] = portalTh[r]
        BY <1>1, <2>5 DEF R!PlanProbe
      <3> QED
        BY <1>1, <3>1
    <2>6. ~ R!Tick
      BY <1>1 DEF R!Tick
    <2> QED
      BY <2>1, <2>2, <2>3, <2>4, <2>5, <2>6 DEF R!Next
  <1>3. R!FindRows(portalTh[t].key) # {} /\ portalTh'[t].todo = SubSeq(allowed, 1, k)
    BY <1>1, <1>2, PortalWords DEF R!PlanProbe, Visits
  <1>4. hosts \in Seq(R!Hosts)
    BY <1>3, ResourcesAre
  <1>5. I \in SUBSET (DOMAIN hosts) /\ \A i \in I : R!HostReady(hosts[i], portalClock)
    OBVIOUS
  <1> HIDE DEF I, hosts
  <1>6. allowed \in Seq(R!Hosts) /\ Range(allowed) = {hosts[i] : i \in I}
    BY <1>4, <1>5, SubsequenceKeeps, SubsequenceRange
  <1> HIDE DEF allowed
  <1>7. k \in Nat /\ k <= Len(allowed)
    <2>1. MaxProbes \in Nat /\ Len(allowed) \in Nat
      BY <1>6, PortalAssumption
    <2>2. \E x \in {MaxProbes, Len(allowed)} : \A y \in {MaxProbes, Len(allowed)} : x <= y
      BY <2>1
    <2>3. k \in {MaxProbes, Len(allowed)} /\ \A y \in {MaxProbes, Len(allowed)} : k <= y
      BY <2>2 DEF R!Min
    <2> QED
      BY <2>1, <2>3
  <1> HIDE DEF k
  <1>8. h \in Range(allowed)
    <2>1. DOMAIN SubSeq(allowed, 1, k) = 1..k /\ \A i \in 1..k : SubSeq(allowed, 1, k)[i] = allowed[i] /\ i \in DOMAIN allowed
      BY <1>6, <1>7
    <2> QED
      BY <1>3, <2>1 DEF Range
  <1>9. h \in R!Hosts /\ R!HostReady(h, portalClock)
    <2>1. h \in R!Hosts
      <3>1. \A i \in DOMAIN allowed : allowed[i] \in R!Hosts
        BY <1>6
      <3> QED
        BY <1>8, <3>1 DEF Range
    <2> QED
      BY <1>5, <1>6, <1>8, <2>1
  <1> DEFINE marks == {e \in Range(cooldown) : e.host = h}
             mark == CHOOSE e \in marks : TRUE
  <1>10. cooldown \in Seq(MarkSet) /\ OnePerHost(cooldown) /\ [host |-> h, at |-> touched[h].at] \in Range(cooldown)
    BY <1>9 DEF PortalInv, RestOK
  <1>11. marks # {} /\ mark \in marks
    <2>1. [host |-> h, at |-> touched[h].at] \in marks
      BY <1>10
    <2> QED
      BY <2>1
  <1>12. R!LastProbe(h) = mark.at
    BY <1>11, PortalWords DEF R!LastProbe
  <1> HIDE DEF mark
  <1>13. mark = [host |-> h, at |-> touched[h].at]
    <2>1. PICK j \in DOMAIN cooldown : cooldown[j] = mark /\ mark.host = h
      BY <1>11 DEF Range
    <2>2. PICK i \in DOMAIN cooldown : cooldown[i] = [host |-> h, at |-> touched[h].at]
      BY <1>10 DEF Range
    <2>3. cooldown[i].host = cooldown[j].host
      BY <2>1, <2>2
    <2>4. i = j
      BY <1>10, <2>3 DEF OnePerHost
    <2> QED
      BY <2>1, <2>2, <2>4
  <1> QED
    BY <1>9, <1>12, <1>13 DEF R!HostReady

-----------------------------------------------------------------------------
(* The billing preflight, and what the deployed service charges.            *)

Knobs == [free : Int, bps : Int, min : Int, max : Int, ratio : Int]

Deployed == {"serving", "crashed", "unbilled"}

\* The checks of the configuration, as the report holds them.
LocalDone ==
    /\ ~ cfg.offline /\ F!CheckPayee(cfg) # F!Fail
    /\ F!CheckPricing(cfg) = F!Fail \/ cfg.price > 0
    /\ {"network", "asset", "pricing"} \subseteq DOMAIN checks
    /\ checks["network"] = F!CheckNetwork(cfg) /\ checks["asset"] = F!CheckAsset(cfg)
    /\ checks["pricing"] = F!CheckPricing(cfg)
    /\ F!CheckPricing(cfg) # F!Fail =>
         "cost" \in DOMAIN checks /\ checks["cost"] = F!CheckSettlementCost(cfg)

\* The probes of the facilitator: it was in state w, and still is unless it changed.
Listed(w) ==
    /\ "facilitator" \in DOMAIN checks /\ checks["facilitator"] = F!CheckFacilitator(cfg, w)
    /\ stable => w = world
Authorised(w) ==
    /\ "auth" \in DOMAIN checks /\ checks["auth"] = F!CheckSettlementAuth(cfg, w)
    /\ stable => w = world

Reported ==
    \/ checks = [payee |-> F!Fail]
    \/ checks = F!Traceback
    \/ cfg.offline
    \/ LocalDone /\ (\E w \in Worlds : Listed(w)) /\ (\E w \in Worlds : Authorised(w))

\* The 402 the client read is the service's answer to its call.
QuoteOK ==
    quote = F!NoQuote \/
    \E ask \in Asks : LET price == F!PriceFor(cfg, F!ServerValue(cfg), ask.amount)
                      IN  price > 0 /\ quote = F!Challenge(cfg, price, ask)

ChecksOK ==
    /\ Range(checks) \subseteq {F!Ok, F!Note, F!Warn, F!Fail} /\ DOMAIN checks # {}
    /\ phase = "supported" => LocalDone
    /\ phase = "verify" => LocalDone /\ \E w \in Worlds : Listed(w)
    /\ phase \in {"report"} \cup Deployed => Reported

PaymentOK ==
    /\ outcome \in {"none", "free", "quoted", "settled", "mocked", "refused"}
    /\ phase # "serving" => quote = F!NoQuote /\ outcome = "none"
    /\ outcome = "mocked" => cfg.cdp # "both" /\ cfg.url = "none"
    /\ outcome = "refused" => /\ ~(cfg.cdp # "both" /\ cfg.url = "none")
                              /\ stable => ~ F!Settles(cfg, world)

PreflightInv ==
    /\ phase \in {"start", "supported", "verify", "report"} \cup Deployed
    /\ cfg \in Configs /\ world \in Worlds /\ stable \in BOOLEAN
    /\ phase \in Deployed => phase = IF cfg.payTo = "none" THEN "unbilled"
                                     ELSE IF F!Boots(cfg) THEN "serving" ELSE "crashed"
    /\ ChecksOK /\ QuoteOK /\ PaymentOK

Statuses == {F!Ok, F!Note, F!Warn, F!Fail}

LEMMA PreflightWords ==
    /\ \A f : F!Range(f) = Range(f)
    /\ F!Ok = 0 /\ F!Note = 1 /\ F!Warn = 2 /\ F!Fail = 3
  BY DEF F!Range, Range, F!Ok, F!Note, F!Warn, F!Fail

\* What the settings are.
LEMMA ConfigIs ==
    ASSUME NEW c \in Configs
    PROVE  /\ c.payTo \in {"good", "none", "bad"} /\ c.price \in Int /\ c.cost \in Nat \cup {0 - 3}
           /\ c.asset \in {"none", "usdc", "sepolia_usdc", "mint", "euro", "dai", "odd"}
           /\ c.flag \in {"unset", "0", "1"} /\ c.url \in {"none", "open", "other"}
           /\ c.cdp \in {"none", "half", "both"} /\ c.offline \in BOOLEAN /\ c.knobs \in Knobs
  BY PreflightAssumption DEF Knobs

-----------------------------------------------------------------------------
(* What a call is charged.                                                   *)

LEMMA RoundIsBounded ==
    ASSUME NEW raw \in Int, NEW m \in Int
    PROVE  /\ F!RoundHalfUp(raw, Base) \in Int
           /\ raw <= m * Base => F!RoundHalfUp(raw, Base) <= m
  <1> DEFINE q == F!RoundHalfUp(raw, Base)
  <1>1. Base \in Nat /\ Base > 0
    BY PreflightAssumption
  <1>2. q \in Int /\ q * (2 * Base) <= 2 * raw + Base
    <2> DEFINE n == 2 * raw + Base
               d == 2 * Base
    <2>1. n \in Int /\ d \in Nat /\ d > 0
      BY <1>1
    <2>2. q = n \div d
      BY DEF F!RoundHalfUp
    <2> HIDE DEF n, d, q
    <2>3. n \div d \in Int /\ (n \div d) * d <= n
      BY <2>1
    <2> QED
      BY <2>2, <2>3 DEF n, d
  <1> HIDE DEF q
  <1>3. ASSUME raw <= m * Base, ~(q <= m) PROVE FALSE
    <2> DEFINE x == q - (m + 1)
               y == x * Base
               z == m * Base
    <2>1. x \in Nat
      BY <1>2, <1>3
    <2> HIDE DEF x
    <2>2. y \in Nat
      BY <1>1, <2>1
    <2>3. q = x + m + 1
      BY <1>2 DEF x
    <2>4. q * (2 * Base) = 2 * y + 2 * z + 2 * Base
      <3>1. q * (2 * Base) = (x + m + 1) * (2 * Base)
        BY <2>3
      <3>2. x \in Int /\ Base \in Int
        BY <1>1, <2>1
      <3>3. (x + m + 1) * (2 * Base) = 2 * (x * Base) + 2 * (m * Base) + 2 * Base
        BY <3>2
      <3> QED
        BY <3>1, <3>3
    <2>5. z \in Int /\ raw <= z
      BY <1>1, <1>3
    <2> HIDE DEF y, z
    <2>6. 2 * y + 2 * z + 2 * Base <= 2 * raw + Base
      BY <1>2, <2>4
    <2> QED
      BY <1>1, <2>2, <2>5, <2>6
  <1> QED
    BY <1>2, <1>3 DEF q

LEMMA FeeUnboundedIs ==
    ASSUME NEW k \in Knobs, NEW a \in Int
    PROVE  /\ F!FeeUnbounded(k, a) \in Int
           /\ F!FeeUnbounded(k, a) <= k.min \/ F!FeeUnbounded(k, a) <= k.max \/ F!FeeUnbounded(k, a) <= 0
  <1> DEFINE raw == a * k.bps
             lo == k.min * Base
             hi == k.max * Base
             fee == F!FeeUnbounded(k, a)
  <1>1. k.min \in Int /\ k.max \in Int /\ k.free \in Int /\ k.bps \in Int /\ Base \in Int
    BY PreflightAssumption DEF Knobs
  <1>2. raw \in Int /\ lo \in Int /\ hi \in Int
    BY <1>1
  <1>3. F!RoundHalfUp(raw, Base) \in Int /\ (raw <= hi => F!RoundHalfUp(raw, Base) <= k.max)
    BY <1>1, <1>2, RoundIsBounded
  <1>4. CASE a <= 0
    BY <1>1, <1>4 DEF F!FeeUnbounded
  <1>5. CASE a > 0 /\ a <= k.free
    BY <1>1, <1>5 DEF F!FeeUnbounded
  <1>6. CASE a > 0 /\ ~(a <= k.free)
    <2> DEFINE other == CASE raw < lo -> k.min
                          [] raw >= lo /\ raw > hi -> k.max
                          [] OTHER -> F!RoundHalfUp(raw, Base)
    <2>1. fee = other
      BY <1>1, <1>6 DEF F!FeeUnbounded
    <2> HIDE DEF fee, raw, lo, hi
    <2>2. other \in Int /\ (other <= k.min \/ other <= k.max)
      <3>1. CASE raw < lo
        BY <1>1, <1>2, <3>1
      <3>2. CASE ~(raw < lo) /\ raw > hi
        BY <1>1, <1>2, <3>2
      <3>3. CASE ~(raw < lo) /\ ~(raw > hi)
        BY <1>1, <1>2, <1>3, <3>3
      <3> QED
        BY <3>1, <3>2, <3>3
    <2> QED
      BY <2>1, <2>2 DEF fee
  <1> QED
    BY <1>1, <1>4, <1>5, <1>6

\* A fee that is not waived is in proportion, and no more than the larger of the bounds.
LEMMA FeeIs ==
    ASSUME NEW k \in Knobs, NEW a \in Int
    PROVE  /\ F!Fee(k, a) \in Int
           /\ F!Fee(k, a) > 0 /\ F!PolicyOk(k) =>
                /\ a > 0 /\ k.ratio > 0 => F!Fee(k, a) * Base <= a * k.ratio
                /\ F!Fee(k, a) <= F!Max({k.min, k.max})
  <1> DEFINE fee == F!FeeUnbounded(k, a)
             share == a * k.ratio
             scaled == fee * Base
             waived == a > 0 /\ k.ratio > 0 /\ scaled > share
  <1>1. fee \in Int /\ (fee <= k.min \/ fee <= k.max \/ fee <= 0)
    BY FeeUnboundedIs
  <1>2. /\ k.min \in Int /\ k.max \in Int /\ k.ratio \in Int /\ Base \in Int
        /\ DOMAIN k = {"free", "bps", "min", "max", "ratio"}
    BY PreflightAssumption DEF Knobs
  <1>3. F!Fee(k, a) = IF waived THEN 0 ELSE fee
    BY DEF F!Fee
  <1> HIDE DEF fee
  <1>4. share \in Int /\ scaled \in Int
    BY <1>1, <1>2
  <1>5. F!Fee(k, a) \in Int
    BY <1>1, <1>3
  <1>6. ASSUME F!Fee(k, a) > 0, F!PolicyOk(k)
        PROVE  /\ a > 0 /\ k.ratio > 0 => F!Fee(k, a) * Base <= share
               /\ F!Fee(k, a) <= F!Max({k.min, k.max})
    <2>1. ~ waived /\ F!Fee(k, a) = fee
      <3> HIDE DEF waived
      <3> QED
        BY <1>3, <1>6
    <2>2. a > 0 /\ k.ratio > 0 => scaled <= share
      <3> HIDE DEF scaled, share
      <3> QED
        BY <1>4, <2>1
    <2>3. k.min >= 0 /\ k.max >= 0
      BY <1>2, <1>6 DEF F!PolicyOk
    <2>4. \E x \in {k.min, k.max} : \A y \in {k.min, k.max} : x >= y
      BY <1>2
    <2>5. F!Max({k.min, k.max}) \in {k.min, k.max} /\ \A y \in {k.min, k.max} : F!Max({k.min, k.max}) >= y
      BY <2>4 DEF F!Max
    <2>6. F!Max({k.min, k.max}) \in Int
      BY <1>2, <2>5
    <2>7. fee <= F!Max({k.min, k.max})
      BY <1>1, <1>2, <2>3, <2>5, <2>6
    <2> QED
      BY <2>1, <2>2, <2>7
  <1> QED
    BY <1>5, <1>6

LEMMA PriceIs ==
    ASSUME NEW c \in Configs, NEW v \in BOOLEAN, NEW a \in Int
    PROVE  F!PriceFor(c, v, a) \in Int
  BY ConfigIs, FeeIs DEF F!PriceFor

-----------------------------------------------------------------------------
(* The path a 402 shows.                                                     *)

\* The provers do not know that a literal is a string.
Segments == STRING \cup {"x", ".."}

LEMMA DescendKeeps ==
    ASSUME NEW path \in Seq(Segments \ {".."}), NEW seg \in Segments
    PROVE  F!Descend(path, seg) \in Seq(Segments \ {".."})
  <1>1. CASE seg \in {"", "."}
    BY <1>1 DEF F!Descend
  <1>2. CASE seg = ".."
    <2>1. F!Descend(path, seg) = F!Pop(path)
      BY <1>2 DEF F!Descend
    <2>2. F!Pop(path) \in Seq(Segments \ {".."})
      <3>1. CASE path = <<>>
        BY <3>1 DEF F!Pop
      <3>2. CASE path # <<>>
        <4>1. F!Pop(path) = SubSeq(path, 1, Len(path) - 1)
          BY <3>2 DEF F!Pop, F!Front
        <4>2. Len(path) \in Nat /\ Len(path) # 0
          BY <3>2
        <4> QED
          BY <4>1, <4>2
      <3> QED
        BY <3>1, <3>2
    <2> QED
      BY <2>1, <2>2
  <1>3. CASE seg \notin {"", ".", ".."}
    <2>1. F!Descend(path, seg) = Append(path, seg)
      BY <1>3 DEF F!Descend
    <2>2. seg \in Segments \ {".."}
      BY <1>3
    <2> QED
      BY <2>1, <2>2
  <1> QED
    BY <1>1, <1>2, <1>3

LEMMA NormalizeKeeps ==
    ASSUME NEW segments \in Seq(Segments)
    PROVE  F!Normalize(segments) \in Seq(Segments \ {".."})
  <1> DEFINE n == Len(segments)
             T == Seq(Segments \ {".."})
             G == [v \in T |-> [k \in 1..n |-> F!Descend(v, segments[k])]]
             Steps(h) == [k \in 0..n |-> IF k = 0 THEN <<>> ELSE F!Descend(h[k - 1], segments[k])]
             path == CHOOSE h : h = Steps(h)
  <1>1. n \in Nat /\ \A k \in 1..n : segments[k] \in Segments
    OBVIOUS
  <1>2. <<>> \in T
    OBVIOUS
  <1>3. ASSUME NEW v \in T, NEW k \in 1..n PROVE F!Descend(v, segments[k]) \in T
    BY <1>1, DescendKeeps
  <1> HIDE DEF T
  <1>4. \A v \in T : \A k \in 1..n : G[v][k] = F!Descend(v, segments[k])
    OBVIOUS
  <1>5. \A v \in T : \A k \in 1..n : G[v][k] \in T
    BY <1>3, <1>4
  <1>6. F!Normalize(segments) = path[n]
    BY DEF F!Normalize
  <1> HIDE DEF n, G
  <1>7. PICK h : h \in [0..n -> T] /\ h[0] = <<>> /\ \A k \in 1..n : h[k] = G[h[k - 1]][k]
    <2>1. \E h : Unfolds(h, n, T, <<>>, G)
      BY <1>1, <1>2, <1>5, StepsExist
    <2> QED
      BY <2>1 DEF Unfolds
  <1>8. h = Steps(h)
    <2>1. \A k \in 1..n : k - 1 \in 0..n
      BY <1>1
    <2>2. \A k \in 1..n : h[k] = F!Descend(h[k - 1], segments[k])
      BY <1>4, <1>7, <2>1
    <2>3. \A k \in 0..n : k # 0 => k \in 1..n
      BY <1>1
    <2>4. \A k \in 0..n : h[k] = IF k = 0 THEN <<>> ELSE F!Descend(h[k - 1], segments[k])
      BY <1>7, <2>2, <2>3
    <2> QED
      BY <1>7, <2>4
  <1>9. path = Steps(path)
    BY <1>8
  <1> HIDE DEF path
  <1>10. path[0] = <<>> /\ \A k \in 1..n : path[k] = F!Descend(path[k - 1], segments[k])
    BY <1>1, <1>9
  <1>11. \A k \in 0..n : path[k] \in T
    <2>1. path[0] \in T /\ \A k \in 1..n : path[k - 1] \in T => path[k] \in T
      BY <1>2, <1>3, <1>10
    <2> QED
      BY <1>1, <2>1, StepsKeep
  <1>12. n \in 0..n
    BY <1>1
  <1> QED
    BY <1>6, <1>11, <1>12 DEF T

LEMMA PartsAre == ASSUME NEW seg \in Segments PROVE F!Parts(seg) \in Seq(Segments)
  <1>1. <<seg>> \in Seq(Segments)
    OBVIOUS
  <1>2. "x" \in Segments /\ ".." \in Segments
    BY DEF Segments
  <1>4. <<"x", "..">> \in Seq(Segments)
    BY <1>2
  <1>3. F!Parts(seg) = <<seg>> \/ F!Parts(seg) = <<"x", "..">>
    BY DEF F!Parts
  <1> QED
    BY <1>1, <1>3, <1>4

LEMMA DecodedIs ==
    ASSUME NEW segments \in Seq(Segments)
    PROVE  F!Decoded(segments) \in Seq(Segments)
  <1> DEFINE n == Len(segments)
             T == Seq(Segments)
             G == [v \in T |-> [k \in 1..n |-> v \o F!Parts(segments[k])]]
             Steps(h) == [k \in 0..n |-> IF k = 0 THEN <<>> ELSE h[k - 1] \o F!Parts(segments[k])]
             path == CHOOSE h : h = Steps(h)
  <1>1. n \in Nat /\ \A k \in 1..n : segments[k] \in Segments
    OBVIOUS
  <1>2. <<>> \in T
    OBVIOUS
  <1>3. ASSUME NEW v \in T, NEW k \in 1..n PROVE v \o F!Parts(segments[k]) \in T
    <2>1. F!Parts(segments[k]) \in Seq(Segments)
      BY <1>1, PartsAre
    <2> QED
      BY <2>1
  <1> HIDE DEF T
  <1>4. \A v \in T : \A k \in 1..n : G[v][k] = v \o F!Parts(segments[k])
    OBVIOUS
  <1>5. \A v \in T : \A k \in 1..n : G[v][k] \in T
    BY <1>3, <1>4
  <1>6. F!Decoded(segments) = path[n]
    BY DEF F!Decoded
  <1> HIDE DEF n, G
  <1>7. PICK h : h \in [0..n -> T] /\ h[0] = <<>> /\ \A k \in 1..n : h[k] = G[h[k - 1]][k]
    <2>1. \E h : Unfolds(h, n, T, <<>>, G)
      BY <1>1, <1>2, <1>5, StepsExist
    <2> QED
      BY <2>1 DEF Unfolds
  <1>8. h = Steps(h)
    <2>1. \A k \in 1..n : k - 1 \in 0..n
      BY <1>1
    <2>2. \A k \in 1..n : h[k] = h[k - 1] \o F!Parts(segments[k])
      BY <1>4, <1>7, <2>1
    <2>3. \A k \in 0..n : k # 0 => k \in 1..n
      BY <1>1
    <2>4. \A k \in 0..n : h[k] = IF k = 0 THEN <<>> ELSE h[k - 1] \o F!Parts(segments[k])
      BY <1>7, <2>2, <2>3
    <2> QED
      BY <1>7, <2>4
  <1>9. path = Steps(path)
    BY <1>8
  <1> HIDE DEF path
  <1>10. path[0] = <<>> /\ \A k \in 1..n : path[k] = path[k - 1] \o F!Parts(segments[k])
    BY <1>1, <1>9
  <1>11. \A k \in 0..n : path[k] \in T
    <2>1. path[0] \in T /\ \A k \in 1..n : path[k - 1] \in T => path[k] \in T
      BY <1>2, <1>3, <1>10
    <2> QED
      BY <1>1, <2>1, StepsKeep
  <1>12. n \in 0..n
    BY <1>1
  <1> QED
    BY <1>6, <1>11, <1>12 DEF T

LEMMA PathIsOurs ==
    ASSUME NEW ask \in Asks
    PROVE  ".." \notin Range(F!CanonicalPath(ask.resource))
  <1>1. ask.resource.path \in Seq(Segments)
    <2>1. ask.resource.path \in Seq(STRING) /\ STRING \subseteq Segments
      BY PreflightAssumption DEF Segments
    <2> QED
      BY <2>1, LongerAlphabet
  <1>2. F!CanonicalPath(ask.resource) \in Seq(Segments \ {".."})
    BY <1>1, DecodedIs, NormalizeKeeps DEF F!CanonicalPath
  <1> HIDE DEF F!CanonicalPath
  <1>3. \A i \in DOMAIN F!CanonicalPath(ask.resource) : F!CanonicalPath(ask.resource)[i] # ".."
    BY <1>2
  <1> QED
    BY <1>3 DEF Range

-----------------------------------------------------------------------------
(* The report.                                                               *)

LEMMA CheckIsAStatus ==
    ASSUME NEW c \in Configs, NEW w
    PROVE  /\ F!CheckPayee(c) \in Statuses /\ F!CheckNetwork(c) \in Statuses /\ F!CheckAsset(c) \in Statuses
           /\ F!CheckPricing(c) \in Statuses /\ F!CheckSelfReportedAmount(c) \in Statuses
           /\ F!CheckChallenge(c) \in Statuses /\ F!CheckRevenue(c) \in Statuses
           /\ F!CheckProportionality(c) \in Statuses /\ F!CheckSettlementCost(c) \in Statuses
           /\ F!CheckFacilitator(c, w) \in Statuses /\ F!CheckSettlementAuth(c, w) \in Statuses
  <1>1. F!CheckPayee(c) \in Statuses /\ F!CheckSelfReportedAmount(c) \in Statuses
    BY DEF F!CheckPayee, F!CheckSelfReportedAmount, Statuses
  <1>2. F!CheckPricing(c) \in Statuses
    <2>1. CASE F!PreflightValue(c)
      BY <2>1 DEF F!CheckPricing, Statuses
    <2>2. CASE ~ F!PreflightValue(c)
      BY <2>2 DEF F!CheckPricing, Statuses
    <2> QED
      BY <2>1, <2>2
  <1>3. F!CheckNetwork(c) \in Statuses
    BY DEF F!CheckNetwork, Statuses
  <1>4. F!CheckAsset(c) \in Statuses
    BY DEF F!CheckAsset, Statuses
  <1>5. F!CheckSettlementAuth(c, w) \in Statuses
    BY DEF F!CheckSettlementAuth, Statuses
  <1>6. F!GradeKinds(w) \in Statuses
    BY DEF F!GradeKinds, Statuses
  <1>7. F!CheckFacilitator(c, w) \in Statuses
    <2>1. c.cdp = "half" \/ c.cdp = "both" \/ c.cdp = "none"
      BY ConfigIs
    <2> QED
      BY <1>6, <2>1 DEF F!CheckFacilitator, Statuses
  <1>8. F!CheckRevenue(c) \in Statuses
    <2> DEFINE a == Corpus = {}
               b == F!Billable(c, "hi") = {}
    <2>1. CASE a
      BY <2>1 DEF F!CheckRevenue, Statuses
    <2>2. CASE ~ a
      BY <2>2 DEF F!CheckRevenue, Statuses
    <2> QED
      BY <2>1, <2>2
  <1>9. F!CheckSettlementCost(c) \in Statuses
    <2>1. CASE Corpus = {}
      BY <2>1 DEF F!CheckSettlementCost, Statuses
    <2>2. CASE Corpus # {}
      BY <2>2 DEF F!CheckSettlementCost, Statuses
    <2> QED
      BY <2>1, <2>2
  <1>10. F!CheckChallenge(c) \in Statuses
    BY DEF F!CheckChallenge, Statuses
  <1>11. F!CheckProportionality(c) \in Statuses
    BY DEF F!CheckProportionality, Statuses
  <1> QED
    BY <1>1, <1>2, <1>3, <1>4, <1>5, <1>7, <1>8, <1>9, <1>10, <1>11

\* What a report says after further checks.
LEMMA AddIs ==
    ASSUME NEW report, NEW more, Range(report) \subseteq Statuses, Range(more) \subseteq Statuses
    PROVE  LET sum == F!Add(report, more)
           IN  /\ DOMAIN sum = DOMAIN report \cup DOMAIN more
               /\ \A n \in DOMAIN more : sum[n] = more[n]
               /\ \A n \in DOMAIN report : n \notin DOMAIN more => sum[n] = report[n]
               /\ Range(sum) \subseteq Statuses
  <1> DEFINE sum == F!Add(report, more)
  <1>1. /\ DOMAIN sum = DOMAIN report \cup DOMAIN more
        /\ \A n \in DOMAIN more : sum[n] = more[n]
        /\ \A n \in DOMAIN report : n \notin DOMAIN more => sum[n] = report[n]
    BY DEF F!Add
  <1> HIDE DEF sum
  <1>2. Range(sum) \subseteq Statuses
    <2> SUFFICES ASSUME NEW n \in DOMAIN sum PROVE sum[n] \in Statuses
      BY DEF Range
    <2>1. CASE n \in DOMAIN more
      BY <1>1, <2>1 DEF Range
    <2>2. CASE n \notin DOMAIN more
      BY <1>1, <2>2 DEF Range
    <2> QED
      BY <2>1, <2>2
  <1> QED
    BY <1>1, <1>2 DEF sum

LEMMA LocalChecksAre ==
    ASSUME NEW c \in Configs
    PROVE  LET report == F!LocalChecks(c)
           IN  /\ Range(report) \subseteq Statuses /\ {"network", "asset", "pricing"} \subseteq DOMAIN report
               /\ report["network"] = F!CheckNetwork(c) /\ report["asset"] = F!CheckAsset(c)
               /\ report["pricing"] = F!CheckPricing(c)
               /\ F!CheckPricing(c) # F!Fail =>
                    "cost" \in DOMAIN report /\ report["cost"] = F!CheckSettlementCost(c)
  <1> DEFINE settings == [network |-> F!CheckNetwork(c), asset |-> F!CheckAsset(c), pricing |-> F!CheckPricing(c),
                          self |-> F!CheckSelfReportedAmount(c), payee |-> F!CheckPayee(c)]
             more == [challenge |-> F!CheckChallenge(c), revenue |-> F!CheckRevenue(c),
                      proportionality |-> F!CheckProportionality(c), cost |-> F!CheckSettlementCost(c)]
             report == F!LocalChecks(c)
  <1>1. report = IF F!CheckPricing(c) = F!Fail THEN settings ELSE F!Add(settings, more)
    BY DEF F!LocalChecks
  <1>2. /\ DOMAIN settings = {"network", "asset", "pricing", "self", "payee"}
        /\ settings["network"] = F!CheckNetwork(c) /\ settings["asset"] = F!CheckAsset(c)
        /\ settings["pricing"] = F!CheckPricing(c) /\ settings["self"] = F!CheckSelfReportedAmount(c)
        /\ settings["payee"] = F!CheckPayee(c)
    OBVIOUS
  <1>3. /\ DOMAIN more = {"challenge", "revenue", "proportionality", "cost"}
        /\ more["challenge"] = F!CheckChallenge(c) /\ more["revenue"] = F!CheckRevenue(c)
        /\ more["proportionality"] = F!CheckProportionality(c) /\ more["cost"] = F!CheckSettlementCost(c)
    OBVIOUS
  <1> HIDE DEF settings, more, report
  <1>4. Range(settings) \subseteq Statuses /\ Range(more) \subseteq Statuses
    <2>2. /\ F!CheckPayee(c) \in Statuses /\ F!CheckNetwork(c) \in Statuses /\ F!CheckAsset(c) \in Statuses
          /\ F!CheckPricing(c) \in Statuses /\ F!CheckSelfReportedAmount(c) \in Statuses
          /\ F!CheckChallenge(c) \in Statuses /\ F!CheckRevenue(c) \in Statuses
          /\ F!CheckProportionality(c) \in Statuses /\ F!CheckSettlementCost(c) \in Statuses
      BY CheckIsAStatus
    <2> QED
      BY <1>2, <1>3, <2>2 DEF Range
  <1>5. CASE F!CheckPricing(c) = F!Fail
    BY <1>1, <1>2, <1>4, <1>5 DEF report
  <1>6. CASE F!CheckPricing(c) # F!Fail
    <2> DEFINE sum == F!Add(settings, more)
    <2>1. report = sum
      BY <1>1, <1>6
    <2>2. /\ DOMAIN sum = DOMAIN settings \cup DOMAIN more
          /\ \A n \in DOMAIN more : sum[n] = more[n]
          /\ \A n \in DOMAIN settings : n \notin DOMAIN more => sum[n] = settings[n]
          /\ Range(sum) \subseteq Statuses
      BY <1>4, AddIs
    <2> HIDE DEF sum
    <2> QED
      BY <1>2, <1>3, <1>6, <2>1, <2>2 DEF report
  <1> QED
    BY <1>5, <1>6

LEMMA CleanReport ==
    ASSUME Range(checks) \subseteq Statuses, DOMAIN checks # {}, F!Exit = 0
    PROVE  \A n \in DOMAIN checks : checks[n] \in {F!Ok, F!Note}
  <1> DEFINE N == Range(checks)
             top == F!Max(N)
  <1>1. N \in SUBSET Nat /\ N # {} /\ \A i \in N : i <= 3
    BY PreflightWords DEF Range, Statuses
  <1>2. \A n \in DOMAIN checks : checks[n] \in N
    BY DEF Range
  <1>3. F!Status = top
    BY PreflightWords DEF F!Status
  <1>4. N \subseteq Statuses
    OBVIOUS
  <1> HIDE DEF N
  <1>5. \E m \in N : \A i \in N : i <= m
    BY <1>1, LargestElement
  <1>6. \E m \in N : \A i \in N : m >= i
    BY <1>1, <1>5
  <1>7. top \in N /\ \A i \in N : top >= i
    BY <1>6 DEF F!Max
  <1> HIDE DEF top
  <1>8. top \in {F!Ok, F!Note}
    BY <1>3, <1>4, <1>7, PreflightWords DEF F!Exit, Statuses
  <1>9. top \in {0, 1}
    BY <1>8, PreflightWords
  <1>10. ASSUME NEW n \in DOMAIN checks PROVE checks[n] \in {0, 1}
    <2>1. checks[n] \in {0, 1, 2, 3} /\ top >= checks[n]
      BY <1>2, <1>4, <1>7, PreflightWords DEF Statuses
    <2> QED
      BY <1>9, <2>1
  <1> QED
    BY <1>10, PreflightWords

LEMMA PreflightInit == F!Init => PreflightInv
  <1> SUFFICES ASSUME F!Init PROVE PreflightInv
    OBVIOUS
  <1>1. /\ phase = "start" /\ cfg \in Configs /\ world \in Worlds
        /\ checks = [payee |-> F!Ok] /\ stable = TRUE /\ quote = F!NoQuote /\ outcome = "none"
    BY DEF F!Init
  <1>2. ChecksOK
    <2>1. DOMAIN checks = {"payee"} /\ checks["payee"] = F!Ok
      BY <1>1
    <2> QED
      BY <1>1, <2>1 DEF ChecksOK, Range, Deployed
  <1>3. QuoteOK /\ PaymentOK
    BY <1>1 DEF QuoteOK, PaymentOK
  <1> QED
    BY <1>1, <1>2, <1>3 DEF PreflightInv, Deployed

LEMMA PreflightSame ==
    ASSUME PreflightInv, UNCHANGED billingVars
    PROVE  PreflightInv'
  <1>1. UNCHANGED <<phase, cfg, world, checks, stable, quote, outcome>>
    BY DEF billingVars
  <1> QED
    BY <1>1 DEF PreflightInv, ChecksOK, QuoteOK, PaymentOK, Reported, LocalDone, Listed, Authorised

LEMMA CheckConfigStep ==
    ASSUME PreflightInv, F!CheckConfig
    PROVE  PreflightInv'
  <1>1. phase = "start" /\ cfg \in Configs /\ UNCHANGED <<cfg, world, stable, quote, outcome>>
    BY DEF PreflightInv, F!CheckConfig
  <1>2. quote = F!NoQuote /\ outcome = "none"
    BY <1>1 DEF PreflightInv, PaymentOK
  <1>3. QuoteOK' /\ PaymentOK'
    BY <1>1, <1>2 DEF QuoteOK, PaymentOK
  <1>4. CASE checks' = [payee |-> F!Fail] /\ phase' = "report"
    <2>1. DOMAIN checks' = {"payee"} /\ checks'["payee"] = F!Fail
      BY <1>4
    <2>2. ChecksOK'
      BY <1>4, <2>1 DEF ChecksOK, Range, Deployed, Reported
    <2> QED
      BY <1>1, <1>3, <1>4, <2>2 DEF PreflightInv, Deployed
  <1>5. CASE checks' = F!Traceback /\ phase' = "report"
    <2>1. DOMAIN checks' = {"traceback"} /\ checks'["traceback"] = F!Warn
      BY <1>5 DEF F!Traceback
    <2>2. ChecksOK'
      BY <1>5, <2>1 DEF ChecksOK, Range, Deployed, Reported
    <2> QED
      BY <1>1, <1>3, <1>5, <2>2 DEF PreflightInv, Deployed
  <1>6. CASE /\ F!CheckPayee(cfg) # F!Fail /\ (F!CheckPricing(cfg) = F!Fail \/ cfg.price > 0)
             /\ checks' = IF cfg.offline THEN F!Add(F!LocalChecks(cfg), [facilitator |-> F!Note, auth |-> F!Note])
                          ELSE F!LocalChecks(cfg)
             /\ phase' = IF cfg.offline THEN "report" ELSE "supported"
    <2> DEFINE report == F!LocalChecks(cfg)
               more == [facilitator |-> F!Note, auth |-> F!Note]
    <2>1. /\ Range(report) \subseteq Statuses /\ {"network", "asset", "pricing"} \subseteq DOMAIN report
          /\ report["network"] = F!CheckNetwork(cfg) /\ report["asset"] = F!CheckAsset(cfg)
          /\ report["pricing"] = F!CheckPricing(cfg)
          /\ F!CheckPricing(cfg) # F!Fail =>
               "cost" \in DOMAIN report /\ report["cost"] = F!CheckSettlementCost(cfg)
      BY <1>1, LocalChecksAre
    <2>2. cfg.offline \in BOOLEAN
      BY <1>1, ConfigIs
    <2> HIDE DEF report
    <2>3. CASE cfg.offline
      <3>1. Range(more) \subseteq Statuses
        BY DEF Range, Statuses
      <3> HIDE DEF more
      <3>2. checks' = F!Add(report, more) /\ phase' = "report"
        BY <1>6, <2>3 DEF report, more
      <3>3. Range(checks') \subseteq Statuses /\ DOMAIN checks' # {}
        BY <2>1, <3>1, <3>2, AddIs
      <3>4. ChecksOK'
        BY <1>1, <2>3, <3>2, <3>3 DEF ChecksOK, Reported, Statuses, Deployed
      <3> QED
        BY <1>1, <1>3, <3>2, <3>4 DEF PreflightInv, Deployed
    <2>4. CASE ~ cfg.offline
      <3>1. checks' = report /\ phase' = "supported"
        BY <1>6, <2>4 DEF report
      <3>2. LocalDone'
        BY <1>1, <1>6, <2>1, <2>4, <3>1 DEF LocalDone
      <3>3. ChecksOK'
        BY <2>1, <3>1, <3>2 DEF ChecksOK, Statuses, Deployed
      <3> QED
        BY <1>1, <1>3, <3>1, <3>3 DEF PreflightInv, Deployed
    <2> QED
      BY <2>2, <2>3, <2>4
  <1> QED
    BY <1>4, <1>5, <1>6 DEF F!CheckConfig

LEMMA ProbeSupportedStep ==
    ASSUME PreflightInv, F!ProbeSupported
    PROVE  PreflightInv'
  <1> DEFINE more == [facilitator |-> F!CheckFacilitator(cfg, world)]
  <1>1. /\ phase = "supported" /\ phase' = "verify" /\ stable' = TRUE /\ checks' = F!Add(checks, more)
        /\ UNCHANGED <<cfg, world, quote, outcome>> /\ cfg \in Configs /\ world \in Worlds
    BY DEF PreflightInv, F!ProbeSupported
  <1>2. quote = F!NoQuote /\ outcome = "none" /\ LocalDone /\ Range(checks) \subseteq Statuses
    BY <1>1 DEF PreflightInv, PaymentOK, ChecksOK, Statuses
  <1>3. QuoteOK' /\ PaymentOK'
    BY <1>1, <1>2 DEF QuoteOK, PaymentOK
  <1>4. DOMAIN more = {"facilitator"} /\ more["facilitator"] = F!CheckFacilitator(cfg, world)
    OBVIOUS
  <1> HIDE DEF more
  <1>5. Range(more) \subseteq Statuses
    <2>1. F!CheckFacilitator(cfg, world) \in Statuses
      BY <1>1, CheckIsAStatus
    <2> QED
      BY <1>4, <2>1 DEF Range
  <1>6. /\ DOMAIN checks' = DOMAIN checks \cup {"facilitator"}
        /\ checks'["facilitator"] = F!CheckFacilitator(cfg, world)
        /\ \A n \in DOMAIN checks : n # "facilitator" => checks'[n] = checks[n]
        /\ Range(checks') \subseteq Statuses
    <2> DEFINE sum == F!Add(checks, more)
    <2>1. /\ DOMAIN sum = DOMAIN checks \cup DOMAIN more
          /\ \A n \in DOMAIN more : sum[n] = more[n]
          /\ \A n \in DOMAIN checks : n \notin DOMAIN more => sum[n] = checks[n]
          /\ Range(sum) \subseteq Statuses
      BY <1>2, <1>5, AddIs
    <2>2. checks' = sum
      BY <1>1
    <2> HIDE DEF sum
    <2> QED
      BY <1>4, <2>1, <2>2
  <1>7. LocalDone'
    <2>1. /\ "network" \in DOMAIN checks /\ "asset" \in DOMAIN checks /\ "pricing" \in DOMAIN checks
          /\ checks["network"] = F!CheckNetwork(cfg) /\ checks["asset"] = F!CheckAsset(cfg)
          /\ checks["pricing"] = F!CheckPricing(cfg)
      BY <1>2 DEF LocalDone
    <2>2. /\ checks'["network"] = checks["network"] /\ checks'["asset"] = checks["asset"]
          /\ checks'["pricing"] = checks["pricing"]
      BY <1>6, <2>1
    <2>3. "cost" \in DOMAIN checks => "cost" \in DOMAIN checks' /\ checks'["cost"] = checks["cost"]
      BY <1>6
    <2> QED
      BY <1>1, <1>2, <1>6, <2>1, <2>2, <2>3 DEF LocalDone
  <1>8. Listed(world)'
    BY <1>1, <1>6 DEF Listed
  <1>9. world' \in Worlds
    BY <1>1
  <1>10. ChecksOK'
    BY <1>1, <1>6, <1>7, <1>8, <1>9 DEF ChecksOK, Statuses, Deployed
  <1> QED
    BY <1>1, <1>3, <1>10 DEF PreflightInv, Deployed

LEMMA ProbeVerifyStep ==
    ASSUME PreflightInv, F!ProbeVerify
    PROVE  PreflightInv'
  <1> DEFINE more == [auth |-> F!CheckSettlementAuth(cfg, world)]
  <1>1. /\ phase = "verify" /\ phase' = "report" /\ checks' = F!Add(checks, more)
        /\ UNCHANGED <<cfg, world, stable, quote, outcome>> /\ cfg \in Configs /\ world \in Worlds
    BY DEF PreflightInv, F!ProbeVerify
  <1>2. /\ quote = F!NoQuote /\ outcome = "none" /\ LocalDone /\ Range(checks) \subseteq Statuses
        /\ \E w \in Worlds : Listed(w)
    BY <1>1 DEF PreflightInv, PaymentOK, ChecksOK, Statuses
  <1>3. QuoteOK' /\ PaymentOK'
    BY <1>1, <1>2 DEF QuoteOK, PaymentOK
  <1>4. DOMAIN more = {"auth"} /\ more["auth"] = F!CheckSettlementAuth(cfg, world)
    OBVIOUS
  <1> HIDE DEF more
  <1>5. Range(more) \subseteq Statuses
    <2>1. F!CheckSettlementAuth(cfg, world) \in Statuses
      BY <1>1, CheckIsAStatus
    <2> QED
      BY <1>4, <2>1 DEF Range
  <1>6. /\ DOMAIN checks' = DOMAIN checks \cup {"auth"}
        /\ checks'["auth"] = F!CheckSettlementAuth(cfg, world)
        /\ \A n \in DOMAIN checks : n # "auth" => checks'[n] = checks[n]
        /\ Range(checks') \subseteq Statuses
    <2> DEFINE sum == F!Add(checks, more)
    <2>1. /\ DOMAIN sum = DOMAIN checks \cup DOMAIN more
          /\ \A n \in DOMAIN more : sum[n] = more[n]
          /\ \A n \in DOMAIN checks : n \notin DOMAIN more => sum[n] = checks[n]
          /\ Range(sum) \subseteq Statuses
      BY <1>2, <1>5, AddIs
    <2>2. checks' = sum
      BY <1>1
    <2> HIDE DEF sum
    <2> QED
      BY <1>4, <2>1, <2>2
  <1>7. LocalDone'
    <2>1. /\ "network" \in DOMAIN checks /\ "asset" \in DOMAIN checks /\ "pricing" \in DOMAIN checks
          /\ checks["network"] = F!CheckNetwork(cfg) /\ checks["asset"] = F!CheckAsset(cfg)
          /\ checks["pricing"] = F!CheckPricing(cfg)
      BY <1>2 DEF LocalDone
    <2>2. /\ checks'["network"] = checks["network"] /\ checks'["asset"] = checks["asset"]
          /\ checks'["pricing"] = checks["pricing"]
      BY <1>6, <2>1
    <2>3. "cost" \in DOMAIN checks => "cost" \in DOMAIN checks' /\ checks'["cost"] = checks["cost"]
      BY <1>6
    <2> QED
      BY <1>1, <1>2, <1>6, <2>1, <2>2, <2>3 DEF LocalDone
  <1>8. Authorised(world)'
    BY <1>1, <1>6 DEF Authorised
  <1>9. \E w \in Worlds : Listed(w)'
    <2>1. PICK w \in Worlds : Listed(w)
      BY <1>2
    <2>2. Listed(w)'
      BY <1>1, <1>6, <2>1 DEF Listed
    <2> QED
      BY <2>2
  <1>10. Reported'
    BY <1>1, <1>7, <1>8, <1>9 DEF Reported
  <1>11. ChecksOK'
    BY <1>1, <1>6, <1>10 DEF ChecksOK, Statuses, Deployed
  <1> QED
    BY <1>1, <1>3, <1>11 DEF PreflightInv, Deployed

LEMMA DeployStep ==
    ASSUME PreflightInv, F!Deploy
    PROVE  PreflightInv'
  <1>1. /\ phase = "report" /\ UNCHANGED <<cfg, world, checks, stable, quote, outcome>>
        /\ phase' = IF cfg.payTo = "none" THEN "unbilled" ELSE IF F!Boots(cfg) THEN "serving" ELSE "crashed"
    BY DEF F!Deploy
  <1>2. phase' \in Deployed
    BY <1>1 DEF Deployed
  <1>3. quote = F!NoQuote /\ outcome = "none" /\ Reported
    BY <1>1 DEF PreflightInv, PaymentOK, ChecksOK
  <1>4. Reported'
    BY <1>1, <1>3 DEF Reported, LocalDone, Listed, Authorised
  <1>5. ChecksOK' /\ QuoteOK' /\ PaymentOK'
    BY <1>1, <1>2, <1>3, <1>4 DEF PreflightInv, ChecksOK, QuoteOK, PaymentOK, Deployed
  <1> QED
    BY <1>1, <1>2, <1>5 DEF PreflightInv

LEMMA CallStep ==
    ASSUME PreflightInv, NEW ask \in Asks, F!Call(ask)
    PROVE  PreflightInv'
  <1> DEFINE price == F!PriceFor(cfg, F!ServerValue(cfg), ask.amount)
  <1>1. /\ phase = "serving" /\ UNCHANGED <<phase, cfg, world, checks, stable>> /\ cfg \in Configs
        /\ IF price <= 0 THEN quote' = F!NoQuote /\ outcome' = "free"
           ELSE quote' = F!Challenge(cfg, price, ask) /\ outcome' = "quoted"
    BY DEF PreflightInv, F!Call
  <1>2. price \in Int
    <2>1. ask.amount \in Int
      BY PreflightAssumption
    <2>2. F!ServerValue(cfg) \in BOOLEAN
      BY DEF F!ServerValue
    <2> QED
      BY <1>1, <2>1, <2>2, PriceIs
  <1>3. price <= 0 \/ price > 0
    BY <1>2
  <1>4. QuoteOK'
    <2> HIDE DEF price
    <2>1. CASE price <= 0
      BY <1>1, <2>1 DEF QuoteOK
    <2>2. CASE price > 0
      <3>1. quote' = F!Challenge(cfg, price, ask)
        BY <1>1, <1>2, <2>2
      <3> QED
        BY <1>1, <2>2, <3>1 DEF QuoteOK, price
    <2> QED
      BY <1>3, <2>1, <2>2
  <1>5. PaymentOK'
    BY <1>1 DEF PaymentOK
  <1>6. ChecksOK'
    BY <1>1 DEF PreflightInv, ChecksOK, Reported, LocalDone, Listed, Authorised
  <1> QED
    BY <1>1, <1>4, <1>5, <1>6 DEF PreflightInv

LEMMA PayStep ==
    ASSUME PreflightInv, F!Pay
    PROVE  PreflightInv'
  <1>1. /\ phase = "serving" /\ UNCHANGED <<phase, cfg, world, checks, stable, quote>>
        /\ outcome' = CASE cfg.cdp # "both" /\ cfg.url = "none" -> "mocked"
                        [] F!Settles(cfg, world)                -> "settled"
                        [] OTHER                                -> "refused"
    BY DEF F!Pay
  <1>2. PaymentOK'
    <2>1. CASE cfg.cdp # "both" /\ cfg.url = "none"
      <3>1. outcome' = "mocked" \/ (outcome' = "settled" /\ F!Settles(cfg, world))
        BY <1>1, <2>1
      <3> QED
        BY <1>1, <2>1, <3>1 DEF PaymentOK
    <2>2. CASE ~(cfg.cdp # "both" /\ cfg.url = "none") /\ F!Settles(cfg, world)
      BY <1>1, <2>2 DEF PaymentOK
    <2>3. CASE ~(cfg.cdp # "both" /\ cfg.url = "none") /\ ~ F!Settles(cfg, world)
      BY <1>1, <2>3 DEF PaymentOK
    <2> QED
      BY <2>1, <2>2, <2>3
  <1>3. ChecksOK' /\ QuoteOK'
    BY <1>1 DEF PreflightInv, ChecksOK, Reported, LocalDone, Listed, Authorised, QuoteOK
  <1> QED
    BY <1>1, <1>2, <1>3 DEF PreflightInv

LEMMA WorldChangesStep ==
    ASSUME PreflightInv, F!WorldChanges
    PROVE  PreflightInv'
  <1>1. world' \in Worlds /\ stable' = FALSE /\ UNCHANGED <<phase, cfg, checks, quote, outcome>>
    BY DEF F!WorldChanges
  <1>2. \A w \in Worlds : (Listed(w) => Listed(w)') /\ (Authorised(w) => Authorised(w)')
    BY <1>1 DEF Listed, Authorised
  <1>3. LocalDone => LocalDone'
    BY <1>1 DEF LocalDone
  <1>4. Reported => Reported'
    BY <1>1, <1>2, <1>3 DEF Reported
  <1>5. ChecksOK'
    BY <1>1, <1>2, <1>3, <1>4 DEF PreflightInv, ChecksOK
  <1>6. QuoteOK' /\ PaymentOK'
    BY <1>1 DEF PreflightInv, QuoteOK, PaymentOK
  <1> QED
    BY <1>1, <1>5, <1>6 DEF PreflightInv

LEMMA PreflightStep ==
    ASSUME PreflightInv, F!Next
    PROVE  PreflightInv'
  BY CheckConfigStep, ProbeSupportedStep, ProbeVerifyStep, DeployStep, CallStep, PayStep, WorldChangesStep
     DEF F!Next

-----------------------------------------------------------------------------
(* What the invariant says of a deployment.                                  *)

\* A report with exit code 0 that probed is one where every check was made and none
\* failed or warned.
LEMMA CleanReportIs ==
    ASSUME PreflightInv, phase \in Deployed, F!Exit = 0, ~ cfg.offline
    PROVE  /\ LocalDone /\ (\E w \in Worlds : Listed(w)) /\ (\E w \in Worlds : Authorised(w))
           /\ \A n \in DOMAIN checks : checks[n] \in {F!Ok, F!Note}
  <1>1. \A n \in DOMAIN checks : checks[n] \in {F!Ok, F!Note}
    BY CleanReport DEF PreflightInv, ChecksOK, Statuses
  <1>2. checks # [payee |-> F!Fail]
    <2> SUFFICES ASSUME checks = [payee |-> F!Fail] PROVE FALSE
      OBVIOUS
    <2>1. "payee" \in DOMAIN checks /\ checks["payee"] = F!Fail
      OBVIOUS
    <2> QED
      BY <1>1, <2>1, PreflightWords
  <1>3. checks # F!Traceback
    <2> SUFFICES ASSUME checks = F!Traceback PROVE FALSE
      OBVIOUS
    <2>1. "traceback" \in DOMAIN checks /\ checks["traceback"] = F!Warn
      BY DEF F!Traceback
    <2> QED
      BY <1>1, <2>1, PreflightWords
  <1>4. Reported
    BY DEF PreflightInv, ChecksOK
  <1> QED
    BY <1>1, <1>2, <1>3, <1>4 DEF Reported

LEMMA ReadyIsKept ==
    ASSUME PreflightInv
    PROVE  F!ReadyWorks
  <1> SUFFICES ASSUME phase \in {"serving", "crashed", "unbilled"}, F!Exit = 0, ~ cfg.offline, cfg.flag # "0"
               PROVE  /\ phase = "serving"
                      /\ stable => outcome \notin {"refused", "mocked"}
                      /\ quote # F!NoQuote => quote.asset \in {"usdc", "sepolia_usdc", "mint"} /\ quote.amount > 0
                      /\ quote.asked \in {p.lo : p \in Corpus} /\ quote # F!NoQuote =>
                           quote.amount >= F!SettlementCostFor(cfg)
    BY DEF F!ReadyWorks
  <1>1. phase \in Deployed /\ cfg \in Configs /\ world \in Worlds
    BY DEF Deployed, PreflightInv
  <1>2. LocalDone /\ \A n \in DOMAIN checks : checks[n] \in {F!Ok, F!Note}
    BY <1>1, CleanReportIs
  <1>3. PICK w \in Worlds : Listed(w)
    BY <1>1, CleanReportIs
  <1>4. PICK v \in Worlds : Authorised(v)
    BY <1>1, CleanReportIs
  <1>5. F!CheckNetwork(cfg) \in {F!Ok, F!Note} /\ F!CheckAsset(cfg) \in {F!Ok, F!Note} /\ F!CheckPricing(cfg) \in {F!Ok, F!Note}
    BY <1>2 DEF LocalDone
  <1>6. F!CheckSettlementCost(cfg) \in {F!Ok, F!Note} /\ cfg.price > 0 /\ F!CheckPayee(cfg) # F!Fail
    BY <1>2, <1>5, PreflightWords DEF LocalDone
  <1>7. F!CheckFacilitator(cfg, w) \in {F!Ok, F!Note} /\ F!CheckSettlementAuth(cfg, v) \in {F!Ok, F!Note}
    BY <1>2, <1>3, <1>4 DEF Listed, Authorised
  <1>8. /\ cfg.payTo \in {"good", "none", "bad"} /\ cfg.price \in Int /\ cfg.cost \in Nat \cup {0 - 3}
        /\ cfg.asset \in {"none", "usdc", "sepolia_usdc", "mint", "euro", "dai", "odd"}
        /\ cfg.flag \in {"unset", "1"} /\ cfg.url \in {"none", "open", "other"}
        /\ cfg.cdp \in {"none", "half", "both"} /\ cfg.knobs \in Knobs
    BY <1>1, ConfigIs
  <1>9. F!ServerValue(cfg) = F!PreflightValue(cfg) /\ F!PreflightValue(cfg) \in BOOLEAN
    <2>1. F!ServerValue(cfg) <=> F!PreflightValue(cfg)
      BY <1>8 DEF F!ServerValue, F!PreflightValue
    <2>2. F!ServerValue(cfg) \in BOOLEAN /\ F!PreflightValue(cfg) \in BOOLEAN
      BY DEF F!ServerValue, F!PreflightValue
    <2> QED
      BY <2>1, <2>2
  <1>10. phase = "serving"
    <2>1. cfg.payTo = "good"
      BY <1>6 DEF F!CheckPayee
    <2>2. F!PreflightValue(cfg) => F!PolicyOk(cfg.knobs)
      BY <1>5, PreflightWords DEF F!CheckPricing
    <2>3. cfg.cdp # "half"
      BY <1>7, PreflightWords DEF F!CheckFacilitator
    <2>4. F!Boots(cfg)
      BY <1>6, <1>9, <2>1, <2>2, <2>3 DEF F!Boots, F!ConfigOk
    <2> QED
      BY <1>1, <2>1, <2>4 DEF PreflightInv
  <1>11. stable => outcome \notin {"refused", "mocked"}
    <2> SUFFICES ASSUME stable PROVE outcome \notin {"refused", "mocked"}
      OBVIOUS
    <2>1. w = world /\ v = world
      BY <1>3, <1>4 DEF Listed, Authorised
    <2>2. F!CheckNetwork(cfg) = F!Ok
      BY <1>5, PreflightWords DEF F!CheckNetwork
    <2>3. F!GradeKinds(world) \in {F!Ok, F!Note} => world.listed /\ (world.versions = {} \/ 2 \in world.versions)
      BY PreflightWords DEF F!GradeKinds
    <2>4. CASE cfg.cdp = "both"
      <3>1. world.up /\ world.creds /\ F!GradeKinds(world) \in {F!Ok, F!Note}
        BY <1>7, <2>1, <2>4, PreflightWords DEF F!CheckFacilitator
      <3>2. world.creds /\ world.scope
        BY <1>7, <2>1, <2>4, <3>1, PreflightWords DEF F!CheckSettlementAuth
      <3>3. F!Settles(cfg, world)
        BY <2>2, <2>3, <3>1, <3>2 DEF F!Settles
      <3> QED
        BY <2>4, <3>3 DEF PreflightInv, PaymentOK
    <2>5. CASE cfg.cdp = "none"
      <3>1. cfg.url # "none" /\ world.up /\ F!GradeKinds(world) \in {F!Ok, F!Note}
        BY <1>7, <2>1, <2>5, PreflightWords DEF F!CheckFacilitator
      <3>2. F!Settles(cfg, world)
        BY <2>2, <2>3, <2>5, <3>1 DEF F!Settles
      <3> QED
        BY <3>1, <3>2 DEF PreflightInv, PaymentOK
    <2>6. cfg.cdp # "half"
      BY <1>7, PreflightWords DEF F!CheckFacilitator
    <2> QED
      BY <1>8, <2>4, <2>5, <2>6
  <1>12. ASSUME quote # F!NoQuote
         PROVE  /\ quote.asset \in {"usdc", "sepolia_usdc", "mint"} /\ quote.amount > 0
                /\ quote.asked \in {p.lo : p \in Corpus} => quote.amount >= F!SettlementCostFor(cfg)
    <2>1. PICK ask \in Asks : LET price == F!PriceFor(cfg, F!ServerValue(cfg), ask.amount)
                              IN  price > 0 /\ quote = F!Challenge(cfg, price, ask)
      BY <1>12 DEF PreflightInv, QuoteOK
    <2> DEFINE price == F!PriceFor(cfg, F!ServerValue(cfg), ask.amount)
    <2>2. price > 0 /\ quote.amount = price /\ quote.asset = F!AssetOf(cfg) /\ quote.asked = ask.amount
      BY <2>1 DEF F!Challenge
    <2>3. price \in Int
      BY <1>1, <1>9, PriceIs, PreflightAssumption
    <2>4. F!AssetOf(cfg) \in {"usdc", "sepolia_usdc", "mint"}
      <3>1. F!AssetOf(cfg) \notin {"euro", "odd", "dai"}
        BY <1>5, PreflightWords DEF F!CheckAsset
      <3>2. F!AssetOf(cfg) \in {"usdc", "sepolia_usdc", "mint", "euro", "dai", "odd"}
        BY <1>8 DEF F!AssetOf
      <3> QED
        BY <3>1, <3>2
    <2>5. ASSUME quote.asked \in {p.lo : p \in Corpus} PROVE price >= F!SettlementCostFor(cfg)
      <3>1. PICK p \in Corpus : ask.amount = p.lo
        BY <2>2, <2>5
      <3>2. CASE F!SettlementCostFor(cfg) = F!NoCost
        BY <2>2, <2>3, <3>2 DEF F!NoCost
      <3>3. CASE F!SettlementCostFor(cfg) # F!NoCost
        <4>1. ~ \E q \in F!Billable(cfg, "lo") : F!CorpusFee(cfg, q.lo) < F!SettlementCostFor(cfg)
          <5>1. Corpus # {}
            BY <3>1
          <5> DEFINE low == \E q \in F!Billable(cfg, "lo") : F!CorpusFee(cfg, q.lo) < F!SettlementCostFor(cfg)
          <5>2. F!CheckSettlementCost(cfg) = CASE Corpus = {} -> F!Warn
                                               [] Corpus # {} /\ F!SettlementCostFor(cfg) = F!NoCost -> F!Note
                                               [] low -> F!Warn
                                               [] OTHER -> F!Ok
            BY DEF F!CheckSettlementCost
          <5> HIDE DEF low
          <5>3. ~ low
            BY <1>6, <3>3, <5>1, <5>2, PreflightWords
          <5> QED
            BY <5>3 DEF low
        <4>2. F!CorpusFee(cfg, p.lo) = price
          BY <1>9, <3>1 DEF F!CorpusFee
        <4>3. p \in F!Billable(cfg, "lo")
          <5>1. p["lo"] = p.lo
            OBVIOUS
          <5> QED
            BY <2>2, <4>2, <5>1 DEF F!Billable
        <4>4. ~(price < F!SettlementCostFor(cfg))
          BY <4>1, <4>2, <4>3
        <4>5. F!SettlementCostFor(cfg) \in Int
          BY <1>8, PreflightAssumption DEF F!SettlementCostFor, F!NoCost
        <4> QED
          BY <2>3, <4>4, <4>5
      <3> QED
        BY <3>2, <3>3
    <2> QED
      BY <2>2, <2>4, <2>5
  <1> QED
    BY <1>10, <1>11, <1>12

LEMMA FeesAreInProportion ==
    ASSUME PreflightInv
    PROVE  F!FeeInProportion
  <1> SUFFICES ASSUME quote # F!NoQuote, F!ServerValue(cfg)
               PROVE  /\ quote.asked > 0 /\ cfg.knobs.ratio > 0 => quote.amount * Base <= quote.asked * cfg.knobs.ratio
                      /\ quote.amount <= F!Max({cfg.knobs.min, cfg.knobs.max})
    BY DEF F!FeeInProportion
  <1>1. PICK ask \in Asks : LET price == F!PriceFor(cfg, F!ServerValue(cfg), ask.amount)
                            IN  price > 0 /\ quote = F!Challenge(cfg, price, ask)
    BY DEF PreflightInv, QuoteOK
  <1>2. /\ F!Fee(cfg.knobs, ask.amount) > 0 /\ quote.amount = F!Fee(cfg.knobs, ask.amount)
        /\ quote.asked = ask.amount
    BY <1>1 DEF F!Challenge, F!PriceFor
  <1>3. phase = "serving" /\ cfg \in Configs
    BY DEF PreflightInv, PaymentOK
  <1>4. F!PolicyOk(cfg.knobs)
    <2>1. F!Boots(cfg)
      BY <1>3 DEF PreflightInv, Deployed
    <2> QED
      BY <2>1 DEF F!Boots
  <1>5. cfg.knobs \in Knobs /\ ask.amount \in Int
    BY <1>3, ConfigIs, PreflightAssumption
  <1> QED
    BY <1>2, <1>4, <1>5, FeeIs

LEMMA PreflightSound ==
    ASSUME PreflightInv
    PROVE  F!TypeOK /\ F!ReadyWorks /\ F!FeeInProportion /\ F!ResourceIsOurs
  <1>1. F!TypeOK
    BY PreflightWords DEF PreflightInv, ChecksOK, PaymentOK, Deployed, F!TypeOK
  <1>2. F!ResourceIsOurs
    <2> SUFFICES ASSUME quote # F!NoQuote PROVE quote.origin = "ours" /\ ".." \notin Range(quote.path)
      BY PreflightWords DEF F!ResourceIsOurs
    <2>1. PICK ask \in Asks : quote = F!Challenge(cfg, F!PriceFor(cfg, F!ServerValue(cfg), ask.amount), ask)
      BY DEF PreflightInv, QuoteOK
    <2>2. quote.origin = "ours" /\ quote.path = F!CanonicalPath(ask.resource)
      BY <2>1 DEF F!Challenge
    <2> QED
      BY <2>2, PathIsOurs
  <1> QED
    BY <1>1, <1>2, ReadyIsKept, FeesAreInProportion

-----------------------------------------------------------------------------
(* Order statistics.                                                         *)

LEMMA ExtremesExist ==
    ASSUME NEW T \in SUBSET Nat, IsFiniteSet(T), T # {}
    PROVE  /\ Max(T) \in T /\ Max(T) \in Nat /\ \A i \in T : i <= Max(T)
           /\ Min(T) \in T /\ Min(T) \in Nat /\ \A i \in T : Min(T) <= i
  <1>1. \E m \in T : \A i \in T : i <= m
    BY FiniteIsBounded
  <1>2. \E m \in T : \A i \in T : m >= i
    BY <1>1
  <1>3. \E m \in T : \A i \in T : m <= i
    BY SmallestElement
  <1>4. Max(T) \in T /\ \A i \in T : Max(T) >= i
    BY <1>2 DEF Max
  <1>5. Min(T) \in T /\ \A i \in T : Min(T) <= i
    BY <1>3 DEF Min
  <1> QED
    BY <1>4, <1>5

\* The larger of two.
LEMMA MaxOfTwo == ASSUME NEW a \in Nat, NEW b \in Nat
                  PROVE  Max({a, b}) \in {a, b} /\ Max({a, b}) >= a /\ Max({a, b}) >= b
  <1>1. \E m \in {a, b} : \A i \in {a, b} : m >= i
    OBVIOUS
  <1> QED
    BY <1>1 DEF Max

LEMMA MinOfTwo == ASSUME NEW a \in Nat, NEW b \in Nat
                  PROVE  Min({a, b}) \in {a, b} /\ Min({a, b}) <= a /\ Min({a, b}) <= b
  <1>1. \E m \in {a, b} : \A i \in {a, b} : m <= i
    OBVIOUS
  <1> QED
    BY <1>1 DEF Min

\* There is a kth smallest value.
LEMMA NthValueIs ==
    ASSUME NEW D, IsFiniteSet(D), NEW f \in [D -> Nat], NEW k \in 1..Cardinality(D)
    PROVE  /\ NthValue(f, k) \in Nat
           /\ Cardinality({x \in D : f[x] < NthValue(f, k)}) < k
           /\ k <= Cardinality({x \in D : f[x] <= NthValue(f, k)})
  <1> DEFINE V == {f[x] : x \in D}
             Upto(v) == {x \in D : f[x] <= v}
             Below(v) == {x \in D : f[x] < v}
             reach == {v \in V : k <= Cardinality(Upto(v))}
  <1>1. V \in SUBSET Nat /\ IsFiniteSet(V) /\ Cardinality(D) \in Nat /\ k \in Nat /\ 0 < k
    BY ImageIsFinite, FS_CardinalityType
  <1>2. D # {}
    BY <1>1, FS_EmptySet
  <1>3. PICK top \in V : \A v \in V : v <= top
    <2>1. V # {}
      BY <1>2
    <2> HIDE DEF V
    <2> QED
      BY <1>1, <2>1, FiniteIsBounded
  <1>4. Upto(top) = D
    BY <1>3
  <1>5. top \in reach
    BY <1>4
  <1>6. PICK v \in reach : \A u \in reach : v <= u
    <2>1. reach \in SUBSET Nat /\ reach # {}
      BY <1>1, <1>5
    <2> HIDE DEF reach
    <2> QED
      BY <2>1, SmallestElement
  <1>7. v \in V /\ v \in Nat /\ k <= Cardinality(Upto(v))
    BY <1>1
  <1>8. Cardinality(Below(v)) < k
    <2>1. CASE Below(v) = {}
      BY <1>1, <2>1, FS_EmptySet
    <2>2. CASE Below(v) # {}
      <3> DEFINE W == {u \in V : u < v}
      <3>1. W \in SUBSET Nat /\ W # {} /\ \A u \in W : u <= v
        BY <1>1, <1>7, <2>2
      <3> HIDE DEF W
      <3>2. PICK w \in W : \A u \in W : u <= w
        BY <1>7, <3>1, LargestElement
      <3>3. w \in V /\ w < v /\ w \in Nat
        BY <3>1 DEF W
      <3>4. Below(v) = Upto(w)
        <4>1. ASSUME NEW x \in D PROVE f[x] < v <=> f[x] <= w
          <5>1. f[x] \in V /\ f[x] \in Nat
            OBVIOUS
          <5>2. f[x] < v => f[x] \in W
            BY <5>1 DEF W
          <5> QED
            BY <1>7, <3>2, <3>3, <5>1, <5>2
        <4> QED
          BY <4>1
      <3>5. w \notin reach
        BY <1>6, <1>7, <3>3
      <3>6. ~(k <= Cardinality(Upto(w)))
        BY <3>3, <3>5
      <3>7. Cardinality(Upto(w)) \in Nat
        <4>1. Upto(w) \subseteq D
          OBVIOUS
        <4> HIDE DEF Upto
        <4> QED
          BY <4>1, FS_Subset, FS_CardinalityType
      <3> QED
        BY <1>1, <3>4, <3>6, <3>7
    <2> QED
      BY <2>1, <2>2
  <1> DEFINE Is(u) == Cardinality(Below(u)) < k /\ k <= Cardinality(Upto(u))
  <1>9. NthValue(f, k) = CHOOSE u \in V : Is(u)
    BY DEF NthValue
  <1>10. Is(v)
    BY <1>7, <1>8
  <1> HIDE DEF Is
  <1>11. NthValue(f, k) \in V /\ Is(NthValue(f, k))
    BY <1>7, <1>9, <1>10
  <1> QED
    BY <1>1, <1>11 DEF Is

\* A median lies where more than half of the values do.
LEMMA MajorityHolds ==
    ASSUME NEW D, IsFiniteSet(D), NEW f \in [D -> Nat], NEW W \in SUBSET D,
           2 * Cardinality(D \ W) < Cardinality(D),
           NEW lo \in Nat, NEW hi \in Nat, \A x \in W : lo <= f[x] /\ f[x] <= hi
    PROVE  MedianOf(f) \in Nat /\ lo <= MedianOf(f) /\ MedianOf(f) <= hi
  <1> DEFINE n == Cardinality(D)
             rest == Cardinality(D \ W)
             j == (n + 1) \div 2
             k == n \div 2 + 1
             a == NthValue(f, j)
             b == NthValue(f, k)
  <1>1. n \in Nat /\ rest \in Nat /\ IsFiniteSet(D \ W) /\ IsFiniteSet(W) /\ Cardinality(W) \in Nat
    BY FS_CardinalityType, FS_Subset
  <1>2. Cardinality(W) = n - rest
    <2>1. W = D \ (D \ W) /\ D \cap (D \ W) = D \ W
      OBVIOUS
    <2>2. Cardinality(D \ (D \ W)) = Cardinality(D) - Cardinality(D \cap (D \ W))
      BY FS_Difference
    <2> QED
      BY <2>1, <2>2
  <1>3. 2 * rest < n
    OBVIOUS
  <1> HIDE DEF n, rest
  <1>4. /\ j \in 1..n /\ k \in 1..n /\ j \in Nat /\ k \in Nat
        /\ rest < j /\ rest < k /\ j <= n - rest /\ k <= n - rest
    BY <1>1, <1>3
  <1>5. /\ a \in Nat /\ Cardinality({x \in D : f[x] < a}) < j /\ j <= Cardinality({x \in D : f[x] <= a})
        /\ b \in Nat /\ Cardinality({x \in D : f[x] < b}) < k /\ k <= Cardinality({x \in D : f[x] <= b})
    BY <1>4, NthValueIs DEF n
  <1>6. MedianOf(f) = (a + b) \div 2
    BY DEF MedianOf, n
  <1> HIDE DEF a, b, j, k
  <1>7. ASSUME NEW c \in Nat, NEW m \in Nat, rest < m, m <= n - rest,
               Cardinality({x \in D : f[x] < c}) < m, m <= Cardinality({x \in D : f[x] <= c})
        PROVE  lo <= c /\ c <= hi
    <2> DEFINE under == {x \in D : f[x] <= c}
               below == {x \in D : f[x] < c}
    <2>1. under \subseteq D /\ below \subseteq D /\ IsFiniteSet(under) /\ IsFiniteSet(below)
      <3>1. under \subseteq D /\ below \subseteq D
        OBVIOUS
      <3> HIDE DEF under, below
      <3> QED
        BY <3>1, FS_Subset
    <2>2. ASSUME c < lo PROVE FALSE
      <3>1. under \subseteq D \ W
        BY <2>2
      <3> HIDE DEF under
      <3>2. Cardinality(under) <= rest /\ Cardinality(under) \in Nat
        BY <1>1, <2>1, <3>1, FS_Subset, FS_CardinalityType DEF rest
      <3>3. m <= Cardinality(under)
        BY <1>7 DEF under
      <3> QED
        BY <1>1, <1>7, <3>2, <3>3
    <2>3. ASSUME hi < c PROVE FALSE
      <3>1. W \subseteq below
        BY <2>3
      <3> HIDE DEF below
      <3>2. Cardinality(W) <= Cardinality(below) /\ Cardinality(below) \in Nat
        BY <2>1, <3>1, FS_Subset, FS_CardinalityType
      <3>3. Cardinality(below) < m
        BY <1>7 DEF below
      <3> QED
        BY <1>1, <1>2, <1>7, <3>2, <3>3
    <2> QED
      BY <2>2, <2>3
  <1>8. lo <= a /\ a <= hi
    BY <1>4, <1>5, <1>7
  <1>9. lo <= b /\ b <= hi
    BY <1>4, <1>5, <1>7
  <1> QED
    BY <1>5, <1>6, <1>8, <1>9

\* The same of all the values.
LEMMA MedianIs ==
    ASSUME NEW D, IsFiniteSet(D), D # {}, NEW f \in [D -> Nat]
    PROVE  /\ MedianOf(f) \in Nat
           /\ \A lo, hi \in Nat : (\A x \in D : lo <= f[x] /\ f[x] <= hi) => lo <= MedianOf(f) /\ MedianOf(f) <= hi
  <1> DEFINE V == {f[x] : x \in D}
  <1>1. V \in SUBSET Nat /\ V # {} /\ IsFiniteSet(V) /\ \A x \in D : f[x] \in V
    BY ImageIsFinite
  <1>2. Cardinality(D) \in Nat /\ Cardinality(D) # 0
    BY FS_CardinalityType, FS_EmptySet
  <1>3. 2 * Cardinality(D \ D) < Cardinality(D)
    <2>1. D \ D = {} /\ Cardinality({}) = 0
      BY FS_EmptySet
    <2> QED
      BY <1>2, <2>1
  <1> HIDE DEF V
  <1>4. ASSUME NEW lo \in Nat, NEW hi \in Nat, \A x \in D : lo <= f[x] /\ f[x] <= hi
        PROVE  MedianOf(f) \in Nat /\ lo <= MedianOf(f) /\ MedianOf(f) <= hi
    BY <1>3, <1>4, MajorityHolds
  <1>5. Max(V) \in Nat /\ \A i \in V : i <= Max(V)
    BY <1>1, ExtremesExist
  <1>6. \A x \in D : 0 <= f[x] /\ f[x] <= Max(V)
    BY <1>1, <1>5
  <1> QED
    BY <1>4, <1>5, <1>6

-----------------------------------------------------------------------------
(* The rows of a history.                                                    *)

HistoryRows == [src : {"store", "ledger"}, from : {k.from : k \in Kinds}, to : Payees,
                amount : {k.amount : k \in Kinds}, day : 0..MaxDay]

LEMMA RowIs == ASSUME NEW r \in HistoryRows PROVE r.amount \in Nat /\ r.day \in Nat /\ r.to \in Payees
  BY EvidenceAssumption DEF HistoryRows

LEMMA RowsAre ==
    ASSUME NEW h \in Seq(HistoryRows), NEW src, NEW payee
    PROVE  LET rows == RowsOf(h, src, payee)
               J == {i \in DOMAIN h : h[i].src = src /\ h[i].to = payee}
           IN  /\ rows \in Seq(HistoryRows) /\ Len(rows) <= Len(h)
               /\ Range(rows) = {h[i] : i \in J}
               /\ \A r \in Range(rows) : r \in HistoryRows /\ r.src = src /\ r.to = payee
  <1> DEFINE J == {i \in DOMAIN h : h[i].src = src /\ h[i].to = payee}
             rows == RowsOf(h, src, payee)
  <1>1. rows = Subsequence(h, J)
    BY DEF RowsOf
  <1>2. J \in SUBSET (DOMAIN h) /\ \A i \in J : h[i] \in HistoryRows /\ h[i].src = src /\ h[i].to = payee
    <2>1. \A i \in DOMAIN h : h[i] \in HistoryRows
      OBVIOUS
    <2> QED
      BY <2>1
  <1> HIDE DEF J, rows
  <1>3. rows \in Seq(HistoryRows) /\ Len(rows) <= Len(h) /\ Range(rows) = {h[i] : i \in J}
    BY <1>1, <1>2, SubsequenceKeeps, ShorterSubsequence, SubsequenceRange
  <1>4. \A r \in Range(rows) : r \in HistoryRows /\ r.src = src /\ r.to = payee
    BY <1>2, <1>3
  <1> QED
    BY <1>3, <1>4 DEF J, rows

\* The median over the payers of a list is held by any majority of them.
LEMMA RobustHolds ==
    ASSUME NEW obs \in Seq(HistoryRows), NEW least \in Nat, RobustPriceMedian(obs, least) # NoPrice,
           NEW farm \in SUBSET {o.from : o \in Range(obs)},
           2 * Cardinality(farm) < Cardinality({o.from : o \in Range(obs)})
    PROVE  LET honest == {o.amount : o \in {x \in Range(obs) : x.from \notin farm}}
           IN  /\ Min(honest) <= RobustPriceMedian(obs, least)
               /\ RobustPriceMedian(obs, least) <= Max(honest)
  <1> DEFINE payers == {obs[i].from : i \in DOMAIN obs}
             own(p) == {i \in DOMAIN obs : obs[i].from = p}
             med(p) == MedianOf([i \in own(p) |-> obs[i].amount])
             f == [p \in payers |-> med(p)]
             honest == {o.amount : o \in {x \in Range(obs) : x.from \notin farm}}
             I == {i \in DOMAIN obs : obs[i].from \notin farm}
  <1>1. \A i \in DOMAIN obs : obs[i] \in HistoryRows /\ obs[i].amount \in Nat
    <2>1. \A i \in DOMAIN obs : obs[i] \in HistoryRows
      OBVIOUS
    <2> QED
      BY <2>1, RowIs
  <1>2. payers = {o.from : o \in Range(obs)}
    BY DEF Range
  <1>3. honest = {obs[i].amount : i \in I}
    BY DEF Range
  <1>4. IsFiniteSet(DOMAIN obs)
    BY PositionsAreFinite
  <1>5. IsFiniteSet(payers)
    <2> DEFINE g == [i \in DOMAIN obs |-> obs[i].from]
    <2>2. {g[i] : i \in DOMAIN obs} = payers
      OBVIOUS
    <2> HIDE DEF g, payers
    <2>1. IsFiniteSet({g[i] : i \in DOMAIN obs})
      BY <1>4, ImageIsFinite
    <2> QED
      BY <2>1, <2>2
  <1>6. IsFiniteSet(honest) /\ honest \in SUBSET Nat
    <2> DEFINE g == [i \in I |-> obs[i].amount]
    <2>1. I \subseteq DOMAIN obs
      OBVIOUS
    <2>2. {g[i] : i \in I} = honest
      BY <1>3
    <2>3. honest \in SUBSET Nat
      BY <1>1, <1>3
    <2> HIDE DEF I, g, honest
    <2>4. IsFiniteSet(I)
      BY <1>4, <2>1, FS_Subset
    <2>5. IsFiniteSet({g[i] : i \in I})
      BY <2>4, ImageIsFinite
    <2> QED
      BY <2>2, <2>3, <2>5
  <1>7. RobustPriceMedian(obs, least) = MedianOf(f)
    BY DEF RobustPriceMedian
  <1>8. ASSUME NEW p \in payers
        PROVE  /\ med(p) \in Nat
               /\ \A lo, hi \in Nat : (\A i \in own(p) : lo <= obs[i].amount /\ obs[i].amount <= hi) =>
                    lo <= med(p) /\ med(p) <= hi
    <2> DEFINE g == [i \in own(p) |-> obs[i].amount]
    <2>1. own(p) \subseteq DOMAIN obs /\ own(p) # {}
      OBVIOUS
    <2>2. g \in [own(p) -> Nat] /\ \A i \in own(p) : g[i] = obs[i].amount
      BY <1>1
    <2> HIDE DEF g
    <2>3. IsFiniteSet(own(p))
      <3> HIDE DEF own
      <3> QED
        BY <1>4, <2>1, FS_Subset
    <2>4. /\ MedianOf(g) \in Nat
          /\ \A lo, hi \in Nat : (\A x \in own(p) : lo <= g[x] /\ g[x] <= hi) => lo <= MedianOf(g) /\ MedianOf(g) <= hi
      <3> HIDE DEF own
      <3> QED
        BY <2>1, <2>2, <2>3, MedianIs
    <2>5. med(p) = MedianOf(g)
      BY DEF g
    <2> HIDE DEF med, own
    <2> QED
      BY <2>2, <2>4, <2>5
  <1>9. f \in [payers -> Nat]
    BY <1>8
  <1> DEFINE W == payers \ farm
  <1>10. W \in SUBSET payers /\ payers \ W = farm
    BY <1>2
  <1>11. honest # {}
    <2>1. Cardinality(farm) \in Nat /\ Cardinality(payers) \in Nat
      BY <1>2, <1>5, FS_Subset, FS_CardinalityType
    <2>2. farm # payers
      <3> HIDE DEF payers
      <3>1. 2 * Cardinality(farm) < Cardinality(payers)
        BY <1>2
      <3>2. Cardinality(farm) # Cardinality(payers)
        BY <2>1, <3>1
      <3> QED
        BY <3>2
    <2>3. PICK p \in payers : p \notin farm
      BY <1>2, <2>2
    <2>4. PICK i \in DOMAIN obs : obs[i].from = p
      BY <2>3
    <2> QED
      BY <1>3, <2>3, <2>4
  <1> DEFINE lo == Min(honest)
             hi == Max(honest)
  <1>12. lo \in Nat /\ hi \in Nat /\ \A a \in honest : lo <= a /\ a <= hi
    <2> HIDE DEF honest
    <2> QED
      BY <1>6, <1>11, ExtremesExist
  <1>13. ASSUME NEW p \in W PROVE lo <= f[p] /\ f[p] <= hi
    <2>1. p \in payers /\ p \notin farm
      OBVIOUS
    <2>2. \A i \in own(p) : obs[i].amount \in honest
      BY <1>3, <2>1
    <2>3. \A i \in own(p) : lo <= obs[i].amount /\ obs[i].amount <= hi
      <3> HIDE DEF lo, hi, own, honest
      <3> QED
        BY <1>12, <2>2
    <2>4. f[p] = med(p)
      BY <2>1
    <2> HIDE DEF lo, hi, own, med, f
    <2> QED
      BY <1>8, <1>12, <2>1, <2>3, <2>4
  <1>14. 2 * Cardinality(payers \ W) < Cardinality(payers)
    BY <1>2, <1>10
  <1> HIDE DEF payers, f, W, lo, hi
  <1>15. lo <= MedianOf(f) /\ MedianOf(f) <= hi
    BY <1>5, <1>9, <1>10, <1>12, <1>13, <1>14, MajorityHolds
  <1> QED
    BY <1>7, <1>15 DEF lo, hi

-----------------------------------------------------------------------------
(* The records of a payee.                                                   *)

\* The window of prices is a part of the store's rows, and all of them when it holds them.
LEMMA WindowIs ==
    ASSUME NEW h \in Seq(HistoryRows), NEW payee
    PROVE  LET rows == RowsOf(h, "store", payee)
               prices == StoreRecord(h, payee).prices
           IN  /\ prices \in Seq(HistoryRows)
               /\ Len(rows) <= PriceHistoryLimit => prices = rows
               /\ rows # <<>> => prices # <<>>
  <1> DEFINE rows == RowsOf(h, "store", payee)
             n == Len(rows)
             from == IF n > PriceHistoryLimit THEN n - PriceHistoryLimit ELSE 0
             prices == SubSeq(rows, from + 1, n)
  <1>1. StoreRecord(h, payee).prices = prices
    BY DEF StoreRecord
  <1>2. rows \in Seq(HistoryRows) /\ n \in Nat /\ PriceHistoryLimit \in Nat /\ PriceHistoryLimit > 0
    BY RowsAre, EvidenceAssumption
  <1> HIDE DEF rows
  <1>3. from \in Nat /\ from <= n /\ (n # 0 => from < n) /\ (n <= PriceHistoryLimit => from = 0)
    BY <1>2
  <1> HIDE DEF from
  <1>4. prices \in Seq(HistoryRows) /\ Len(prices) = n - from
    BY <1>2, <1>3
  <1>5. from = 0 => prices = rows
    BY <1>2
  <1>6. rows # <<>> => prices # <<>>
    <2>1. rows # <<>> => n # 0
      BY <1>2
    <2>2. n # 0 => Len(prices) > 0
      BY <1>2, <1>3, <1>4
    <2> HIDE DEF prices
    <2>3. Len(prices) > 0 => prices # <<>>
      OBVIOUS
    <2> QED
      BY <2>1, <2>2, <2>3
  <1> QED
    BY <1>1, <1>3, <1>4, <1>5, <1>6 DEF rows

LEMMA RecordIs ==
    ASSUME NEW h \in Seq(HistoryRows), NEW payee
    PROVE  LET rec == Lookup(h, payee)
           IN  /\ rec.price_observations = StoreRecord(h, payee).prices \o RowsOf(h, "ledger", payee)
               /\ rec.price_observations \in Seq(HistoryRows)
               /\ rec.distinct = Max({DistinctPayers(RowsOf(h, "store", payee), payee),
                                      DistinctAll(RowsOf(h, "ledger", payee), payee)})
  <1> DEFINE a == StoreRecord(h, payee)
             b == LedgerRecord(h, payee)
  <1>1. Lookup(h, payee).price_observations = a.prices \o b.prices /\ Lookup(h, payee).distinct = Max({a.distinct, b.distinct})
    BY DEF Lookup, MergeRecords
  <1>2. a.distinct = DistinctPayers(RowsOf(h, "store", payee), payee)
    BY DEF StoreRecord
  <1>3. /\ b.prices = RowsOf(h, "ledger", payee)
        /\ b.distinct = DistinctAll(RowsOf(h, "ledger", payee), payee)
    BY DEF LedgerRecord
  <1>4. a.prices \in Seq(HistoryRows) /\ b.prices \in Seq(HistoryRows)
    BY <1>3, WindowIs, RowsAre
  <1> HIDE DEF a, b
  <1>5. a.prices \o b.prices \in Seq(HistoryRows)
    BY <1>4
  <1> QED
    BY <1>1, <1>2, <1>3, <1>5 DEF a

LEMMA MinoritiesMoveNoPrice ==
    ASSUME history \in Seq(HistoryRows)
    PROVE  MinorityCannotMovePrice
  <1> SUFFICES ASSUME NEW p \in Payees, NEW resource \in BOOLEAN
               PROVE  LET rec == Lookup(history, p)
                          ref == PriceMedianAndBasis(rec, resource)
                          obs == IF ref.basis = "per-class"
                                   THEN SelectClassObservations(rec.price_observations, TRUE).obs
                                   ELSE rec.price_observations
                          payers == {o.from : o \in Range(obs)}
                      IN  ref.basis # "flat" =>
                            \A farm \in SUBSET payers :
                              2 * Cardinality(farm) < Cardinality(payers) =>
                                LET honest == {o.amount : o \in {x \in Range(obs) : x.from \notin farm}}
                                IN  Min(honest) <= ref.median /\ ref.median <= Max(honest)
    BY DEF MinorityCannotMovePrice
  <1> DEFINE rec == Lookup(history, p)
             ref == PriceMedianAndBasis(rec, resource)
             all0 == rec.price_observations
             I == {i \in DOMAIN all0 : all0[i].src = "ledger"}
             same == Subsequence(all0, I)
             sel == SelectClassObservations(all0, resource)
             obs == IF ref.basis = "per-class" THEN SelectClassObservations(all0, TRUE).obs ELSE all0
             m == RobustPriceMedian(sel.obs, MinDistinctPayers)
             pooled == RobustPriceMedian(all0, MinDistinctPayers)
  <1>1. all0 \in Seq(HistoryRows) /\ MinDistinctPayers \in Nat
    BY RecordIs, EvidenceAssumption
  <1>2. same \in Seq(HistoryRows)
    <2>1. I \in SUBSET (DOMAIN all0)
      OBVIOUS
    <2> HIDE DEF I, all0
    <2> QED
      BY <1>1, <2>1, SubsequenceKeeps
  <1>3. SelectClassObservations(all0, TRUE).obs \in {same, all0} /\ sel.obs \in {same, all0}
        /\ (sel.basis = "per-class" => sel.obs = SelectClassObservations(all0, TRUE).obs)
        /\ (sel.basis # "per-class" => sel.obs = all0)
    BY DEF SelectClassObservations
  <1>4. ref = CASE m # NoPrice ->
                     [median |-> m, basis |-> IF sel.basis = "per-class" THEN "per-class" ELSE "payer-weighted"]
                [] m = NoPrice /\ pooled # NoPrice -> [median |-> pooled, basis |-> "payer-weighted"]
                [] OTHER -> [median |-> IF rec.price_history = <<>> THEN NoPrice
                                         ELSE MedianOf([i \in DOMAIN rec.price_history |-> rec.price_history[i].amount]),
                             basis |-> "flat"]
    BY DEF PriceMedianAndBasis
  <1> HIDE DEF ref, sel, all0, same
  <1>5. ASSUME ref.basis # "flat"
        PROVE  /\ obs \in Seq(HistoryRows) /\ ref.median = RobustPriceMedian(obs, MinDistinctPayers)
               /\ RobustPriceMedian(obs, MinDistinctPayers) # NoPrice
    <2>1. CASE m # NoPrice
      <3>1. ref.median = m /\ ref.basis = IF sel.basis = "per-class" THEN "per-class" ELSE "payer-weighted"
        BY <1>4, <2>1
      <3>2. obs = sel.obs
        BY <1>3, <3>1
      <3> QED
        BY <1>1, <1>2, <1>3, <2>1, <3>1, <3>2
    <2>2. CASE m = NoPrice /\ pooled # NoPrice
      <3>1. ref.median = pooled /\ ref.basis = "payer-weighted"
        BY <1>4, <2>2
      <3>2. obs = all0
        BY <3>1
      <3> QED
        BY <1>1, <2>2, <3>1, <3>2
    <2>3. CASE m = NoPrice /\ pooled = NoPrice
      <3>1. ref.basis = "flat"
        BY <1>4, <2>3
      <3> QED
        BY <1>5, <3>1
    <2> QED
      BY <2>1, <2>2, <2>3
  <1> HIDE DEF obs
  <1>6. ASSUME ref.basis # "flat", NEW farm \in SUBSET {o.from : o \in Range(obs)},
               2 * Cardinality(farm) < Cardinality({o.from : o \in Range(obs)})
        PROVE  LET honest == {o.amount : o \in {x \in Range(obs) : x.from \notin farm}}
               IN  Min(honest) <= ref.median /\ ref.median <= Max(honest)
    BY <1>1, <1>5, <1>6, RobustHolds
  <1> QED
    BY <1>6 DEF obs, ref, all0

-----------------------------------------------------------------------------
(* Markets.                                                                  *)

\* The amounts of a list of rows.
LEMMA AmountsAre ==
    ASSUME NEW rows \in Seq(HistoryRows)
    PROVE  /\ [i \in DOMAIN rows |-> rows[i].amount] \in [DOMAIN rows -> Nat]
           /\ IsFiniteSet(DOMAIN rows) /\ Cardinality(DOMAIN rows) = Len(rows) /\ Len(rows) \in Nat
           /\ rows # <<>> => DOMAIN rows # {} /\ MedianOf([i \in DOMAIN rows |-> rows[i].amount]) \in Nat
  <1> DEFINE f == [i \in DOMAIN rows |-> rows[i].amount]
  <1>1. \A i \in DOMAIN rows : rows[i] \in HistoryRows
    OBVIOUS
  <1>2. f \in [DOMAIN rows -> Nat]
    BY <1>1, RowIs
  <1>3. IsFiniteSet(DOMAIN rows) /\ Cardinality(DOMAIN rows) = Len(rows) /\ Len(rows) \in Nat
    BY PositionsAreFinite
  <1> HIDE DEF f
  <1>4. rows # <<>> => DOMAIN rows # {}
    <2>1. rows # <<>> => Len(rows) > 0
      OBVIOUS
    <2>2. Len(rows) > 0 => 1 \in DOMAIN rows
      OBVIOUS
    <2> QED
      BY <2>1, <2>2
  <1>5. DOMAIN rows # {} => MedianOf(f) \in Nat
    BY <1>2, <1>3, MedianIs
  <1> QED
    BY <1>2, <1>3, <1>4, <1>5 DEF f

LEMMA PayeeMedianIs ==
    ASSUME NEW h \in Seq(HistoryRows), NEW p, RowsOf(h, "store", p) # <<>>
    PROVE  PayeeMedian(h, p) \in Nat
  <1> DEFINE prices == StoreRecord(h, p).prices
  <1>1. prices \in Seq(HistoryRows) /\ prices # <<>>
    BY WindowIs
  <1>2. PayeeMedian(h, p) = MedianOf([i \in DOMAIN prices |-> prices[i].amount])
    BY DEF PayeeMedian
  <1> HIDE DEF prices
  <1> QED
    BY <1>1, <1>2, AmountsAre

LEMMA NoPayeeSetsCategory ==
    ASSUME history \in Seq(HistoryRows)
    PROVE  OnePayeeCannotSetCategory
  <1> SUFFICES ASSUME NEW p \in Payees
               PROVE  LET cat == Category[p]
                          others == {PayeeMedian(history, x) : x \in CategoryPayees(history, cat) \ {p}}
                          m == CategoryMedian(history, cat)
                      IN  m # NoPrice => Min(others) <= m /\ m <= Max(others)
    BY DEF OnePayeeCannotSetCategory
  <1> DEFINE cat == Category[p]
             D == CategoryPayees(history, cat)
             W == D \ {p}
             f == [q \in D |-> PayeeMedian(history, q)]
             others == {PayeeMedian(history, x) : x \in W}
             m == CategoryMedian(history, cat)
  <1>1. m = IF Cardinality(D) < MinPeers THEN NoPrice ELSE MedianOf(f)
    BY DEF CategoryMedian, PeerGroupMedian
  <1>2. IsFiniteSet(D) /\ \A q \in D : RowsOf(history, "store", q) # <<>>
    <2>1. D \subseteq Payees /\ \A q \in D : RowsOf(history, "store", q) # <<>>
      BY DEF CategoryPayees
    <2> HIDE DEF D
    <2> QED
      BY <2>1, FS_Subset, EvidenceAssumption
  <1> HIDE DEF D, m
  <1>3. f \in [D -> Nat] /\ \A q \in D : PayeeMedian(history, q) \in Nat
    BY <1>2, PayeeMedianIs
  <1>4. ASSUME ~ (Cardinality(D) < MinPeers)
        PROVE  Min(others) <= MedianOf(f) /\ MedianOf(f) <= Max(others)
    <2>1. Cardinality(D) \in Nat /\ Cardinality(D) >= 3
      BY <1>2, <1>4, FS_CardinalityType, EvidenceAssumption
    <2>2. W \in SUBSET D /\ D \ W \subseteq {p} /\ IsFiniteSet(W)
      <3>1. W \in SUBSET D /\ D \ W \subseteq {p}
        OBVIOUS
      <3> HIDE DEF W
      <3> QED
        BY <1>2, <3>1, FS_Subset
    <2> HIDE DEF W
    <2>3. Cardinality(D \ W) <= 1 /\ Cardinality(D \ W) \in Nat
      <3>1. IsFiniteSet({p}) /\ Cardinality({p}) = 1
        BY FS_Singleton
      <3> QED
        BY <2>2, <3>1, FS_Subset, FS_CardinalityType
    <2>4. W # {}
      <3>1. ASSUME W = {} PROVE FALSE
        <4>1. D \ W = D
          BY <3>1
        <4>2. Cardinality(D \ W) = Cardinality(D)
          BY <4>1
        <4> QED
          BY <2>1, <2>3, <4>2
      <3> QED
        BY <3>1
    <2>5. others \in SUBSET Nat /\ others # {} /\ IsFiniteSet(others)
      <3>1. others \in SUBSET Nat /\ others # {}
        BY <1>3, <2>2, <2>4
      <3> DEFINE g == [x \in W |-> PayeeMedian(history, x)]
      <3>2. {g[x] : x \in W} = others
        OBVIOUS
      <3> HIDE DEF g, others
      <3>3. IsFiniteSet({g[x] : x \in W})
        BY <2>2, ImageIsFinite
      <3> QED
        BY <3>1, <3>2, <3>3
    <2> DEFINE lo == Min(others)
               hi == Max(others)
    <2>6. lo \in Nat /\ hi \in Nat /\ \A a \in others : lo <= a /\ a <= hi
      <3> HIDE DEF others
      <3> QED
        BY <2>5, ExtremesExist
    <2>7. \A x \in W : f[x] \in others
      BY <2>2
    <2> HIDE DEF others, lo, hi, f
    <2>8. \A x \in W : lo <= f[x] /\ f[x] <= hi
      BY <2>6, <2>7
    <2>9. 2 * Cardinality(D \ W) < Cardinality(D)
      BY <2>1, <2>3
    <2>10. lo <= MedianOf(f) /\ MedianOf(f) <= hi
      BY <1>2, <1>3, <2>2, <2>6, <2>8, <2>9, MajorityHolds
    <2> QED
      BY <2>10 DEF lo, hi
  <1> HIDE DEF others, f
  <1>5. m # NoPrice => Min(others) <= m /\ m <= Max(others)
    BY <1>1, <1>4
  <1> QED
    BY <1>5 DEF others, m, D

LEMMA DearestIs ==
    ASSUME NEW p \in Payees
    PROVE  Dearest(p) \in Nat /\ (Advertised[p] # <<>> => Dearest(p) >= 1)
  <1> DEFINE ranges == Advertised[p]
             listed == [low : Nat, high : Nat \ {0}]
             g == [i \in DOMAIN ranges |-> ranges[i].high]
             V == {g[i] : i \in DOMAIN ranges}
             T == {0} \cup {r.high : r \in Range(ranges)}
  <1>1. ranges \in Seq(listed)
    BY EvidenceAssumption
  <1>2. \A r \in listed : r.high \in Nat /\ r.high >= 1
    OBVIOUS
  <1> HIDE DEF ranges, listed
  <1>3. \A i \in DOMAIN ranges : ranges[i] \in listed
    BY <1>1
  <1>4. \A v \in V : v \in Nat /\ v >= 1
    BY <1>2, <1>3
  <1>5. T = {0} \cup V
    BY DEF Range
  <1>6. IsFiniteSet(V)
    <2>1. IsFiniteSet(DOMAIN ranges)
      BY <1>1, PositionsAreFinite
    <2> HIDE DEF g
    <2> QED
      BY <2>1, ImageIsFinite
  <1>7. ranges # <<>> => g[1] \in V
    <2>1. ranges # <<>> => Len(ranges) > 0
      BY <1>1
    <2>2. Len(ranges) > 0 => 1 \in DOMAIN ranges
      BY <1>1
    <2> QED
      BY <2>1, <2>2
  <1>8. Dearest(p) = Max(T)
    BY DEF Dearest, ranges
  <1> HIDE DEF g, V, T
  <1>9. T \in SUBSET Nat /\ T # {} /\ IsFiniteSet(T)
    <2>1. IsFiniteSet({0})
      BY FS_Singleton
    <2>2. IsFiniteSet({0} \cup V)
      BY <1>6, <2>1, FS_Union
    <2>3. T \in SUBSET Nat /\ T # {}
      BY <1>4, <1>5
    <2> QED
      BY <1>5, <2>2, <2>3
  <1>10. Max(T) \in Nat /\ \A i \in T : i <= Max(T)
    BY <1>9, ExtremesExist
  <1>11. ASSUME ranges # <<>> PROVE Max(T) >= 1
    <2>1. g[1] \in V /\ g[1] \in T
      BY <1>5, <1>7, <1>11
    <2>2. g[1] \in Nat /\ g[1] >= 1 /\ g[1] <= Max(T)
      BY <1>4, <1>10, <2>1
    <2> QED
      BY <1>10, <2>2
  <1> QED
    BY <1>8, <1>10, <1>11 DEF ranges

LEMMA TimesTwo == ASSUME NEW a \in Nat, NEW r \in Nat, r >= 2 PROVE r * a >= 2 * a
  OBVIOUS

LEMMA HalfDiverge ==
    ASSUME history \in Seq(HistoryRows)
    PROVE  DivergenceNeedsHalf
  <1> SUFFICES ASSUME NEW p \in Payees, Diverges(history, p)
               PROVE  LET prices == StoreRecord(history, p).prices
                      IN  2 * Cardinality({i \in DOMAIN prices : prices[i].amount > Dearest(p)}) >= Len(prices)
    BY DEF DivergenceNeedsHalf
  <1> DEFINE prices == StoreRecord(history, p).prices
             D == DOMAIN prices
             f == [i \in D |-> prices[i].amount]
             high == Dearest(p)
             over == {i \in D : prices[i].amount > high}
             W == {i \in D : f[i] <= high}
  <1>1. prices \in Seq(HistoryRows)
    BY WindowIs
  <1>2. /\ Advertised[p] # <<>> /\ prices # <<>>
        /\ PayeeMedian(history, p) >= DivergenceWatchRatio * high
    BY DEF Diverges
  <1>3. PayeeMedian(history, p) = MedianOf(f)
    BY DEF PayeeMedian
  <1> HIDE DEF prices
  <1>4. /\ f \in [D -> Nat] /\ IsFiniteSet(D) /\ Cardinality(D) = Len(prices) /\ Len(prices) \in Nat
        /\ MedianOf(f) \in Nat
    BY <1>1, <1>2, AmountsAre
  <1>5. high \in Nat /\ high >= 1
    BY <1>2, DearestIs
  <1>6. \A i \in D : f[i] = prices[i].amount
    OBVIOUS
  <1> HIDE DEF high, f
  <1>7. DivergenceWatchRatio * high >= 2 * high /\ DivergenceWatchRatio * high \in Nat
    BY <1>5, TimesTwo, EvidenceAssumption
  <1>8. W \in SUBSET D /\ D \ W = over
    BY <1>4, <1>5, <1>6
  <1>9. \A i \in W : 0 <= f[i] /\ f[i] <= high
    BY <1>4
  <1> HIDE DEF W, D, over
  <1>10. Cardinality(over) \in Nat
    BY <1>4, <1>8, FS_Subset, FS_CardinalityType
  <1>11. 2 * Cardinality(over) < Cardinality(D) => MedianOf(f) <= high
    BY <1>4, <1>5, <1>8, <1>9, MajorityHolds
  <1> DEFINE w == DivergenceWatchRatio * high
  <1>12. w \in Nat /\ w >= 2 * high /\ MedianOf(f) >= w
    BY <1>2, <1>3, <1>7 DEF high
  <1> HIDE DEF w
  <1>13. 2 * Cardinality(over) >= Len(prices)
    BY <1>4, <1>5, <1>10, <1>11, <1>12
  <1> QED
    BY <1>13 DEF over, D, prices, high

-----------------------------------------------------------------------------
(* The payer graph.                                                          *)

\* A prefix of a history.
LEMMA PrefixIs ==
    ASSUME NEW h \in Seq(HistoryRows), NEW n \in 0..Len(h)
    PROVE  /\ SubSeq(h, 1, n) \in Seq(HistoryRows)
           /\ DOMAIN SubSeq(h, 1, n) = 1..n
           /\ \A i \in 1..n : SubSeq(h, 1, n)[i] = h[i] /\ i \in DOMAIN h
  <1>1. Len(h) \in Nat /\ n \in Nat /\ n <= Len(h) /\ DOMAIN h = 1..Len(h)
    OBVIOUS
  <1>2. SubSeq(h, 1, n) \in Seq(HistoryRows) /\ Len(SubSeq(h, 1, n)) = n
    BY <1>1
  <1>3. \A i \in 1..n : SubSeq(h, 1, n)[i] = h[i]
    BY <1>1
  <1>4. DOMAIN SubSeq(h, 1, n) = 1..n
    BY <1>2
  <1> QED
    BY <1>1, <1>2, <1>3, <1>4

LEMMA GraphIs ==
    ASSUME NEW h \in Seq(HistoryRows)
    PROVE  /\ IsFiniteSet(BuildIndex(Edges(h)))
           /\ \A e \in BuildIndex(Edges(h)) : e[1] # e[2] /\ e[1] # Zero
           /\ \A e \in BuildIndex(Edges(h)) : \E i \in DOMAIN h :
                h[i].src = "store" /\ e = <<h[i].from, h[i].to>>
           /\ \A i \in DOMAIN h :
                h[i].src = "store" /\ h[i].from # Zero /\ h[i].from # h[i].to =>
                  <<h[i].from, h[i].to>> \in BuildIndex(Edges(h))
  <1> DEFINE g == [i \in DOMAIN h |-> <<h[i].from, h[i].to>>]
             V == {g[i] : i \in DOMAIN h}
  <1>1. BuildIndex(Edges(h)) \subseteq V
    BY DEF BuildIndex, Edges
  <1>2. IsFiniteSet(V)
    <2>1. IsFiniteSet(DOMAIN h)
      BY PositionsAreFinite
    <2> HIDE DEF g
    <2> QED
      BY <2>1, ImageIsFinite
  <1>3. IsFiniteSet(BuildIndex(Edges(h)))
    <2> HIDE DEF V
    <2> QED
      BY <1>1, <1>2, FS_Subset
  <1> QED
    BY <1>3 DEF BuildIndex, Edges

LEMMA NeighboursAreFinite ==
    ASSUME NEW graph, IsFiniteSet(graph), NEW a
    PROVE  /\ IsFiniteSet(PayersOf(graph, a)) /\ Cardinality(PayersOf(graph, a)) \in Nat
           /\ IsFiniteSet(PayeesOf(graph, a)) /\ Cardinality(PayeesOf(graph, a)) \in Nat
  <1> DEFINE into == {x \in graph : x[2] = a}
             out == {x \in graph : x[1] = a}
             from == [e \in into |-> e[1]]
             to == [e \in out |-> e[2]]
  <1>1. into \subseteq graph /\ out \subseteq graph
    OBVIOUS
  <1>2. PayersOf(graph, a) = {from[e] : e \in into} /\ PayeesOf(graph, a) = {to[e] : e \in out}
    BY DEF PayersOf, PayeesOf
  <1> HIDE DEF into, out, from, to
  <1>3. IsFiniteSet(into) /\ IsFiniteSet(out)
    BY <1>1, FS_Subset
  <1>4. IsFiniteSet({from[e] : e \in into}) /\ IsFiniteSet({to[e] : e \in out})
    BY <1>3, ImageIsFinite
  <1> QED
    BY <1>2, <1>4, FS_CardinalityType

LEMMA CaptivesRing ==
    ASSUME history \in Seq(HistoryRows), graphAt \in 0..Len(history)
    PROVE  CaptiveIsRing
  <1> SUFFICES ASSUME NEW p \in Payees, CrossSignal(Graph, p).captive_sybil
               PROVE  PayeeCorroboration(Graph, p).sybil_ring
    BY DEF CaptiveIsRing
  <1> DEFINE G == Graph
             payers == PayersOf(G, p)
             n == Cardinality(payers)
             established == {x \in payers : Cardinality(PayeesOf(G, x)) >= EstablishedMinBreadth}
             connected == {x \in payers : PayerReputation(G, x) > 0}
  <1>1. IsFiniteSet(G)
    BY PrefixIs, GraphIs DEF Graph
  <1>2. established = {} /\ MinDistinctPayers <= n /\ n <= CaptiveMaxDistinct
    BY DEF CrossSignal
  <1>3. PayeeCorroboration(G, p).sybil_ring = (connected = {} /\ MinDistinctPayers <= n /\ n <= CaptiveMaxDistinct)
    BY DEF PayeeCorroboration
  <1> HIDE DEF G
  <1>4. ASSUME NEW x \in payers PROVE x \notin connected
    <2> DEFINE payees == PayeesOf(G, x)
               anchors == AnchorPayees(G)
    <2>1. p \in payees
      BY DEF PayersOf, PayeesOf
    <2>2. IsFiniteSet(payees) /\ Cardinality(payees) \in Nat /\ n \in Nat
      BY <1>1, NeighboursAreFinite
    <2>3. ~ (Cardinality(payees) >= 2)
      BY <1>2, EvidenceAssumption
    <2> HIDE DEF payees
    <2>4. payees \ {p} = {}
      <3>1. Cardinality(payees \ {p}) = Cardinality(payees) - 1 /\ IsFiniteSet(payees \ {p})
        BY <2>1, <2>2, FS_RemoveElement
      <3>2. Cardinality(payees \ {p}) \in Nat
        BY <3>1, FS_CardinalityType
      <3>3. Cardinality(payees \ {p}) = 0
        BY <2>2, <2>3, <3>1, <3>2
      <3> QED
        BY <3>1, <3>3, FS_EmptySet
    <2>5. p \notin anchors
      <3>1. n < AnchorMinDistinct /\ ~ (n >= AnchorMinDistinct)
        BY <1>2, <2>2, EvidenceAssumption
      <3> QED
        BY <3>1 DEF AnchorPayees
    <2>6. payees \cap anchors = {}
      BY <2>4, <2>5
    <2>7. PayerReputation(G, x) = Min({PayerRepSaturation, 0})
      <3>1. Cardinality(payees \cap anchors) = 0
        BY <2>6, FS_EmptySet
      <3> QED
        BY <3>1 DEF PayerReputation, payees
    <2>8. PayerReputation(G, x) <= 0 /\ PayerReputation(G, x) \in Nat
      BY <2>7, MinOfTwo, EvidenceAssumption
    <2> QED
      BY <2>8
  <1>5. connected = {}
    <2> HIDE DEF payers
    <2> QED
      BY <1>4
  <1> QED
    BY <1>2, <1>3, <1>5 DEF G

-----------------------------------------------------------------------------
(* What a payee is held for.                                                 *)

LEMMA StaleIsTruth ==
    ASSUME TypeOK, \A p \in Payees : screened[p] # Unscreened => screened[p] >= graphAt
    PROVE  StaleIsTrue
  <1> SUFFICES ASSUME NEW p \in Payees, screened[p] # Unscreened, Temporal(p).stale,
                      NEW i \in 1..graphAt, history[i].src = "store", history[i].to = p
               PROVE  history[i].day < bootDay - StaleDays
    BY DEF StaleIsTrue
  <1>1. /\ history \in Seq(HistoryRows) /\ graphAt \in 0..Len(history) /\ bootDay \in Nat
        /\ screened[p] \in 0..Len(history) /\ screened[p] >= graphAt /\ Len(history) \in Nat
    <2>1. screened[p] \in Unscreened..Len(history) /\ graphAt \in 0..Len(history) /\ bootDay \in 0..today /\ today \in 0..MaxDay
      BY DEF TypeOK
    <2>2. history \in Seq(HistoryRows)
      BY DEF TypeOK, HistoryRows
    <2>3. Len(history) \in Nat
      BY <2>2
    <2> QED
      BY <2>1, <2>2, <2>3 DEF Unscreened
  <1> DEFINE h == SubSeq(history, 1, screened[p])
             rows == RowsOf(h, "store", p)
             days == {rows[k].day : k \in DOMAIN rows}
             J == {k \in DOMAIN h : h[k].src = "store" /\ h[k].to = p}
  <1>2. h \in Seq(HistoryRows) /\ i \in DOMAIN h /\ h[i] = history[i]
    <2>1. i \in 1..screened[p]
      BY <1>1
    <2> QED
      BY <1>1, <2>1, PrefixIs
  <1> HIDE DEF h
  <1>3. rows \in Seq(HistoryRows) /\ Range(rows) = {h[k] : k \in J}
    BY <1>2, RowsAre
  <1>4. i \in J
    BY <1>2
  <1>5. PICK k \in DOMAIN rows : rows[k] = history[i]
    <2> HIDE DEF rows
    <2> QED
      BY <1>2, <1>3, <1>4 DEF Range
  <1>6. history[i].day \in days
    BY <1>5
  <1>7. Temporal(p).stale = (rows # <<>> /\ bootDay - Max(days) > StaleDays)
    BY DEF Temporal, TemporalSignal, h
  <1> HIDE DEF rows
  <1>8. days \in SUBSET Nat /\ IsFiniteSet(days)
    <2> DEFINE g == [m \in DOMAIN rows |-> rows[m].day]
    <2>1. \A m \in DOMAIN rows : rows[m] \in HistoryRows
      BY <1>3
    <2>2. days \in SUBSET Nat
      BY <2>1, RowIs
    <2>3. {g[m] : m \in DOMAIN rows} = days
      OBVIOUS
    <2>4. IsFiniteSet(DOMAIN rows)
      BY <1>3, PositionsAreFinite
    <2> HIDE DEF g, days
    <2>5. IsFiniteSet({g[m] : m \in DOMAIN rows})
      BY <2>4, ImageIsFinite
    <2> QED
      BY <2>2, <2>3, <2>5
  <1> HIDE DEF days
  <1>9. Max(days) \in Nat /\ history[i].day <= Max(days) /\ history[i].day \in Nat
    <2>1. days # {}
      BY <1>6
    <2> QED
      BY <1>6, <1>8, <2>1, ExtremesExist
  <1>10. bootDay - Max(days) > StaleDays
    BY <1>7
  <1> QED
    BY <1>1, <1>9, <1>10, EvidenceAssumption

LEMMA SelfPaidIsNotHigh ==
    ASSUME history \in Seq(HistoryRows), graphAt \in 0..Len(history)
    PROVE  SelfPaidNeverHigh
  <1> SUFFICES ASSUME NEW p \in Payees, \A r \in Range(history) : r.to = p => r.from = p
               PROVE  ConfidenceLevel(AssessConfidence(Lookup(history, p), Graph,
                        TemporalSignal(RowsOf(history, "store", p), today),
                        RowsOf(history, "ledger", p) # <<>>, p)) # "high"
    BY DEF SelfPaidNeverHigh
  <1> DEFINE rec == Lookup(history, p)
             stored == RowsOf(history, "store", p)
             own == RowsOf(history, "ledger", p)
             temporal == TemporalSignal(stored, today)
             outcomes == own # <<>>
             t1 == CASE rec.count >= ThinHistory -> 6 [] rec.count \in 1..(ThinHistory - 1) -> 2 [] OTHER -> 0
             t2 == CASE rec.distinct >= MinDistinctPayers -> 4
                     [] rec.distinct \in 1..(MinDistinctPayers - 1) -> 1 [] OTHER -> 0
             t3 == CASE PayeeCorroboration(Graph, p).reputable > 0 -> 4
                     [] /\ PayeeCorroboration(Graph, p).reputable = 0
                        /\ CrossSignal(Graph, p).established > 0 -> 2
                     [] OTHER -> 0
             t4 == IF outcomes THEN 4 ELSE 0
             t5 == IF temporal.known /\ ~ temporal.stale THEN 2 ELSE 0
             score == AssessConfidence(rec, Graph, temporal, outcomes, p)
  <1>1. score = t1 + t2 + t3 + t4 + t5
    BY DEF AssessConfidence
  <1>2. t1 \in {6, 2, 0}
    OBVIOUS
  <1>3. t4 \in {4, 0} /\ t5 \in {2, 0}
    OBVIOUS
  <1>4. t2 \in {1, 0}
    <2>1. \A r \in Range(stored) : r.from = p
      <3>1. \A r \in Range(stored) : r \in Range(history) /\ r.to = p
        BY RowsAre DEF Range
      <3> QED
        BY <3>1
    <2>2. \A r \in Range(own) : r.from = p
      <3>1. \A r \in Range(own) : r \in Range(history) /\ r.to = p
        BY RowsAre DEF Range
      <3> QED
        BY <3>1
    <2> DEFINE a == DistinctPayers(stored, p)
               b == DistinctAll(own, p)
    <2>3. rec.distinct = Max({a, b})
      BY RecordIs
    <2> HIDE DEF stored, own
    <2>4. a = 0
      <3>1. {stored[i].from : i \in DOMAIN stored} \ {p} = {}
        BY <2>1 DEF Range
      <3> QED
        BY <3>1, FS_EmptySet DEF DistinctPayers
    <2>5. b \in {0, 1}
      <3> DEFINE V == {own[i].from : i \in DOMAIN own}
      <3>1. V \subseteq {p}
        BY <2>2 DEF Range
      <3>2. IsFiniteSet({p}) /\ Cardinality({p}) = 1
        BY FS_Singleton
      <3>3. b = Cardinality(V)
        BY DEF DistinctAll
      <3> HIDE DEF V
      <3>4. Cardinality(V) \in Nat /\ Cardinality(V) <= 1
        BY <3>1, <3>2, FS_Subset, FS_CardinalityType
      <3> QED
        BY <3>3, <3>4
    <2> HIDE DEF a, b
    <2>6. rec.distinct \in {0, 1}
      BY <2>3, <2>4, <2>5, MaxOfTwo
    <2>7. MinDistinctPayers \in Nat /\ MinDistinctPayers >= 2
      BY EvidenceAssumption
    <2> HIDE DEF rec
    <2>8. ~ (rec.distinct >= MinDistinctPayers)
      BY <2>6, <2>7
    <2> QED
      BY <2>8
  <1>5. t3 = 0
    <2> DEFINE payers == PayersOf(Graph, p)
    <2>1. payers = {}
      <3> DEFINE h == SubSeq(history, 1, graphAt)
      <3>1. /\ h \in Seq(HistoryRows) /\ DOMAIN h = 1..graphAt
            /\ \A i \in 1..graphAt : h[i] = history[i] /\ i \in DOMAIN history
        BY PrefixIs
      <3>2. Graph = BuildIndex(Edges(h))
        BY DEF Graph
      <3> HIDE DEF h
      <3>3. ASSUME NEW e \in Graph, e[2] = p PROVE FALSE
        <4>1. e[1] # e[2] /\ \E i \in DOMAIN h : e = <<h[i].from, h[i].to>>
          BY <3>1, <3>2, GraphIs
        <4>2. PICK i \in DOMAIN h : e = <<h[i].from, h[i].to>>
          BY <4>1
        <4>3. history[i] \in Range(history) /\ history[i].to = p /\ h[i] = history[i]
          BY <3>1, <3>3, <4>2 DEF Range
        <4>4. h[i].from = p
          BY <4>3
        <4> QED
          BY <3>3, <4>1, <4>2, <4>4
      <3> QED
        BY <3>3 DEF PayersOf
    <2>2. PayeeCorroboration(Graph, p).reputable = Cardinality({x \in payers : Reputable(Graph, x)})
      BY DEF PayeeCorroboration
    <2>3. CrossSignal(Graph, p).established =
            Cardinality({x \in payers : Cardinality(PayeesOf(Graph, x)) >= EstablishedMinBreadth})
      BY DEF CrossSignal
    <2> HIDE DEF payers
    <2>4. {x \in payers : Reputable(Graph, x)} = {}
      BY <2>1
    <2>5. {x \in payers : Cardinality(PayeesOf(Graph, x)) >= EstablishedMinBreadth} = {}
      BY <2>1
    <2>6. PayeeCorroboration(Graph, p).reputable = 0 /\ CrossSignal(Graph, p).established = 0
      BY <2>2, <2>3, <2>4, <2>5, FS_EmptySet
    <2> QED
      BY <2>6
  <1> HIDE DEF t1, t2, t3, t4, t5, score
  <1>6. score \in Int /\ score <= 13
    BY <1>1, <1>2, <1>3, <1>4, <1>5
  <1>7. ConfidenceLevel(score) # "high"
    BY <1>6 DEF ConfidenceLevel
  <1> QED
    BY <1>7 DEF score

\* The payments of a kind near a quote that the payee did not make itself.
Near(q, p, src) == {r \in HistoryRows : r.src = src /\ r.to = p /\ NearQuote(q, r.amount) /\ r.from # p}

LEMMA CountOfRows ==
    ASSUME NEW h \in Seq(HistoryRows), NEW p, NEW src, NEW q, NEW other
    PROVE  /\ Count(RowsOf(h, src, p), Near(q, p, src)) = Count(h, Near(q, p, src))
           /\ src # other => Count(RowsOf(h, src, p), Near(q, p, other)) = 0
           /\ Range(RowsOf(h, src, p)) = {r \in Range(h) : r.src = src /\ r.to = p}
  <1> DEFINE J == {i \in DOMAIN h : h[i].src = src /\ h[i].to = p}
             V == Near(q, p, src)
             U == Near(q, p, other)
  <1>1. RowsOf(h, src, p) = Subsequence(h, J)
    BY DEF RowsOf
  <1>2. J \in SUBSET (DOMAIN h)
    OBVIOUS
  <1>3. Count(Subsequence(h, J), V) = Cardinality({i \in J : h[i] \in V})
    <2> HIDE DEF J, V
    <2> QED
      BY <1>2, CountOfSubsequence
  <1>4. Count(Subsequence(h, J), U) = Cardinality({i \in J : h[i] \in U})
    <2> HIDE DEF J, U
    <2> QED
      BY <1>2, CountOfSubsequence
  <1>5. {i \in J : h[i] \in V} = {i \in DOMAIN h : h[i] \in V}
    BY DEF Near
  <1>6. src # other => {i \in J : h[i] \in U} = {}
    BY DEF Near
  <1>7. Range(RowsOf(h, src, p)) = {h[i] : i \in J}
    BY RowsAre
  <1>8. {h[i] : i \in J} = {r \in Range(h) : r.src = src /\ r.to = p}
    BY DEF Range
  <1> HIDE DEF J, U, V
  <1>9. Count(RowsOf(h, src, p), V) = Count(h, V)
    BY <1>1, <1>3, <1>5 DEF Count
  <1>10. src # other => Count(RowsOf(h, src, p), U) = 0
    BY <1>1, <1>4, <1>6, FS_EmptySet
  <1> QED
    BY <1>7, <1>8, <1>9, <1>10 DEF U, V

LEMMA RangeOfRows ==
    ASSUME NEW h \in Seq(HistoryRows), NEW p, NEW src
    PROVE  Range(RowsOf(h, src, p)) = {r \in Range(h) : r.src = src /\ r.to = p}
  BY CountOfRows

LEMMA CountBothKinds ==
    ASSUME NEW T, NEW s \in Seq(T), NEW V, NEW U, V \cap U = {}
    PROVE  Count(s, V \cup U) = Count(s, V) + Count(s, U) /\ Count(s, V) \in Nat
  <1> DEFINE A == {i \in DOMAIN s : s[i] \in V}
             B == {i \in DOMAIN s : s[i] \in U}
             D == {i \in DOMAIN s : s[i] \in V \cup U}
  <1>1. A \subseteq DOMAIN s /\ B \subseteq DOMAIN s /\ D = A \cup B /\ A \cap B = {}
    OBVIOUS
  <1>2. Count(s, V) = Cardinality(A) /\ Count(s, U) = Cardinality(B) /\ Count(s, V \cup U) = Cardinality(D)
    BY DEF Count
  <1> HIDE DEF A, B, D
  <1>3. IsFiniteSet(DOMAIN s)
    BY PositionsAreFinite
  <1>4. IsFiniteSet(A) /\ IsFiniteSet(B)
    BY <1>1, <1>3, FS_Subset
  <1>5. Cardinality(A \cup B) = Cardinality(A) + Cardinality(B) - Cardinality(A \cap B)
    BY <1>4, FS_Union
  <1>6. Cardinality(A \cap B) = 0 /\ Cardinality(A) \in Nat /\ Cardinality(B) \in Nat
    BY <1>1, <1>4, FS_EmptySet, FS_CardinalityType
  <1> QED
    BY <1>1, <1>2, <1>5, <1>6

\* The evidence of a tier, said of the history itself.
LEMMA TierIs ==
    ASSUME NEW h \in Seq(HistoryRows), Len(h) <= PriceHistoryLimit, NEW p, NEW q
    PROVE  LET shown == TierEvidence(q, Lookup(h, p).price_observations, p)
               stored == Near(q, p, "store")
               own == Near(q, p, "ledger")
           IN  /\ shown.settlements = Count(h, stored) + Count(h, own)
               /\ shown.payers = Cardinality({r.from : r \in Range(h) \cap (stored \cup own)})
  <1> DEFINE obs == Lookup(h, p).price_observations
             a == RowsOf(h, "store", p)
             b == RowsOf(h, "ledger", p)
             stored == Near(q, p, "store")
             own == Near(q, p, "ledger")
             N == stored \cup own
             D == {i \in DOMAIN obs : NearQuote(q, obs[i].amount) /\ obs[i].from # p}
  <1>1. a \in Seq(HistoryRows) /\ b \in Seq(HistoryRows) /\ Len(a) <= PriceHistoryLimit
    <2>1. a \in Seq(HistoryRows) /\ b \in Seq(HistoryRows) /\ Len(a) <= Len(h)
      BY RowsAre
    <2> HIDE DEF a, b
    <2>2. Len(a) \in Nat /\ Len(h) \in Nat /\ PriceHistoryLimit \in Nat
      BY <2>1, EvidenceAssumption
    <2> QED
      BY <2>1, <2>2
  <1>2. obs = a \o b /\ obs \in Seq(HistoryRows)
    <2>1. StoreRecord(h, p).prices = a
      BY <1>1, WindowIs
    <2> QED
      BY <2>1, RecordIs
  <1>3. /\ Range(a) = {r \in Range(h) : r.src = "store" /\ r.to = p}
        /\ Range(b) = {r \in Range(h) : r.src = "ledger" /\ r.to = p}
        /\ Count(a, stored) = Count(h, stored) /\ Count(a, own) = 0
        /\ Count(b, own) = Count(h, own) /\ Count(b, stored) = 0
    BY CountOfRows
  <1>4. \A r \in Range(h) : r \in HistoryRows
    <2>1. \A i \in DOMAIN h : h[i] \in HistoryRows
      OBVIOUS
    <2> QED
      BY <2>1 DEF Range
  <1> HIDE DEF a, b, obs
  <1>5. Range(obs) = Range(a) \cup Range(b) /\ Count(obs, N) = Count(a, N) + Count(b, N)
    BY <1>1, <1>2, CountOfJoin
  <1>6. stored \cap own = {}
    BY DEF Near
  <1>7. \A r \in Range(obs) : r \in HistoryRows /\ r.to = p /\ r.src \in {"store", "ledger"}
    BY <1>3, <1>4, <1>5
  <1>8. D = {i \in DOMAIN obs : obs[i] \in N}
    <2>1. ASSUME NEW i \in DOMAIN obs PROVE (NearQuote(q, obs[i].amount) /\ obs[i].from # p) <=> obs[i] \in N
      <3>1. obs[i] \in Range(obs)
        BY DEF Range
      <3>2. obs[i] \in HistoryRows /\ obs[i].to = p /\ obs[i].src \in {"store", "ledger"}
        BY <1>7, <3>1
      <3> QED
        BY <3>2 DEF Near
    <2> QED
      BY <2>1
  <1>9. /\ TierEvidence(q, obs, p).settlements = Cardinality(D)
        /\ TierEvidence(q, obs, p).payers = Cardinality({obs[i].from : i \in D})
    BY DEF TierEvidence
  <1>10. {obs[i].from : i \in D} = {r.from : r \in Range(h) \cap N}
    <2>1. {obs[i].from : i \in D} = {r.from : r \in Range(obs) \cap N}
      BY <1>8 DEF Range
    <2>2. Range(obs) \cap N = Range(h) \cap N
      <3>1. \A r \in N : (r.src = "store" \/ r.src = "ledger") /\ r.to = p
        BY DEF Near
      <3> HIDE DEF N
      <3> QED
        BY <1>3, <1>5, <3>1
    <2> QED
      BY <2>1, <2>2
  <1>11. Count(obs, N) = Cardinality(D)
    BY <1>8 DEF Count
  <1> HIDE DEF D, stored, own
  <1>12. Count(a, N) = Count(a, stored) + Count(a, own) /\ Count(b, N) = Count(b, stored) + Count(b, own)
    BY <1>1, <1>6, CountBothKinds
  <1>13. Count(h, stored) \in Nat /\ Count(h, own) \in Nat
    <2>1. own \cap stored = {}
      BY <1>6
    <2> QED
      BY <1>6, <2>1, CountBothKinds
  <1>14. Cardinality(D) = Count(h, stored) + Count(h, own)
    BY <1>3, <1>5, <1>11, <1>12, <1>13
  <1> QED
    BY <1>9, <1>10, <1>14 DEF stored, own, obs

LEMMA SelfPaymentsAreNothing ==
    ASSUME history \in Seq(HistoryRows)
    PROVE  SelfPaymentsProveNothing
  <1> SUFFICES ASSUME NEW p \in Payees, Len(history) <= PriceHistoryLimit
               PROVE  LET honest == Subsequence(history, {i \in DOMAIN history : ~ (history[i].from = p /\ history[i].to = p)})
                      IN  /\ \A q \in Quotes : PriceStopIsCorroborated(q, Lookup(history, p), p)
                                               <=> PriceStopIsCorroborated(q, Lookup(honest, p), p)
                          /\ StoreRecord(history, p).distinct = StoreRecord(honest, p).distinct
                          /\ CrossSignal(BuildIndex(Edges(history)), p)
                               = CrossSignal(BuildIndex(Edges(honest)), p)
    BY DEF SelfPaymentsProveNothing
  <1> DEFINE I == {i \in DOMAIN history : ~ (history[i].from = p /\ history[i].to = p)}
             honest == Subsequence(history, I)
  <1>1. I \in SUBSET (DOMAIN history)
    OBVIOUS
  <1> HIDE DEF I
  <1>2. honest \in Seq(HistoryRows) /\ Len(honest) <= Len(history) /\ Range(honest) = {history[i] : i \in I}
    BY <1>1, SubsequenceKeeps, ShorterSubsequence, SubsequenceRange
  <1>3. Len(honest) <= PriceHistoryLimit
    <2>1. Len(honest) \in Nat /\ Len(history) \in Nat /\ PriceHistoryLimit \in Nat
      BY <1>2, EvidenceAssumption
    <2> QED
      BY <1>2, <2>1
  <1>4. Range(honest) = {r \in Range(history) : ~ (r.from = p /\ r.to = p)}
    BY <1>2 DEF Range, I
  <1>5. ASSUME NEW q, NEW src PROVE Count(honest, Near(q, p, src)) = Count(history, Near(q, p, src))
    <2> DEFINE V == Near(q, p, src)
    <2>1. Count(honest, V) = Cardinality({i \in I : history[i] \in V})
      <3> HIDE DEF V
      <3> QED
        BY <1>1, CountOfSubsequence
    <2>2. {i \in I : history[i] \in V} = {i \in DOMAIN history : history[i] \in V}
      BY DEF Near, I
    <2> QED
      BY <2>1, <2>2 DEF Count
  <1>6. ASSUME NEW q \in Quotes
        PROVE  PriceStopIsCorroborated(q, Lookup(history, p), p) <=> PriceStopIsCorroborated(q, Lookup(honest, p), p)
    <2> DEFINE t == TierEvidence(q, Lookup(history, p).price_observations, p)
               u == TierEvidence(q, Lookup(honest, p).price_observations, p)
               N == Near(q, p, "store") \cup Near(q, p, "ledger")
    <2>1. Range(honest) \cap N = Range(history) \cap N
      BY <1>4 DEF Near
    <2>2. /\ t.settlements = Count(history, Near(q, p, "store")) + Count(history, Near(q, p, "ledger"))
          /\ t.payers = Cardinality({r.from : r \in Range(history) \cap N})
      BY TierIs
    <2>3. /\ u.settlements = Count(honest, Near(q, p, "store")) + Count(honest, Near(q, p, "ledger"))
          /\ u.payers = Cardinality({r.from : r \in Range(honest) \cap N})
      <3> HIDE DEF honest
      <3> QED
        BY <1>2, <1>3, TierIs
    <2>4. t.settlements = u.settlements /\ t.payers = u.payers
      BY <1>5, <2>1, <2>2, <2>3
    <2> QED
      BY <2>4 DEF PriceStopIsCorroborated
  <1>7. StoreRecord(history, p).distinct = StoreRecord(honest, p).distinct
    <2> DEFINE a == RowsOf(history, "store", p)
               b == RowsOf(honest, "store", p)
    <2>1. Range(a) = {r \in Range(history) : r.src = "store" /\ r.to = p}
      BY CountOfRows
    <2>2. Range(b) = {r \in Range(honest) : r.src = "store" /\ r.to = p}
      <3> HIDE DEF honest
      <3> QED
        BY <1>2, RangeOfRows
    <2>3. StoreRecord(history, p).distinct = DistinctPayers(a, p) /\ StoreRecord(honest, p).distinct = DistinctPayers(b, p)
      BY DEF StoreRecord
    <2> HIDE DEF a, b
    <2>4. {a[i].from : i \in DOMAIN a} \ {p} = {r.from : r \in Range(a)} \ {p}
      BY DEF Range
    <2>5. {b[i].from : i \in DOMAIN b} \ {p} = {r.from : r \in Range(b)} \ {p}
      BY DEF Range
    <2>6. {r.from : r \in Range(a)} \ {p} = {r.from : r \in Range(b)} \ {p}
      BY <1>4, <2>1, <2>2
    <2> QED
      BY <2>3, <2>4, <2>5, <2>6 DEF DistinctPayers
  <1>8. BuildIndex(Edges(history)) = BuildIndex(Edges(honest))
    <2> DEFINE E(h) == {<<r.from, r.to>> : r \in {x \in Range(h) : x.src = "store"}}
    <2>1. Edges(history) = E(history) /\ Edges(honest) = E(honest)
      BY DEF Edges, Range
    <2>2. BuildIndex(E(history)) = BuildIndex(E(honest))
      BY <1>4 DEF BuildIndex
    <2> QED
      BY <2>1, <2>2
  <1> QED
    BY <1>6, <1>7, <1>8 DEF I

-----------------------------------------------------------------------------
(* The invariant of the evidence.                                            *)

\* What was screened was read after the graph was built.
Fresh == \A p \in Payees : screened[p] # Unscreened => screened[p] >= graphAt

EvidenceInv == TypeOK /\ Fresh

LEMMA EvidenceInit == Init => EvidenceInv
  <1> SUFFICES ASSUME Init PROVE EvidenceInv
    OBVIOUS
  <1>1. history = <<>> /\ today = 0 /\ graphAt = 0 /\ bootDay = 0 /\ screened = [p \in Payees |-> Unscreened]
    BY DEF Init
  <1>2. history \in Seq(HistoryRows) /\ Len(history) = 0
    BY <1>1
  <1>3. MaxDay \in Nat
    BY EvidenceAssumption
  <1>4. today \in 0..MaxDay /\ bootDay \in 0..today /\ graphAt \in 0..Len(history)
    BY <1>1, <1>2, <1>3
  <1>5. screened \in [Payees -> Unscreened..Len(history)] /\ Fresh
    BY <1>1, <1>2 DEF Unscreened, Fresh
  <1> QED
    BY <1>2, <1>4, <1>5 DEF EvidenceInv, TypeOK, HistoryRows

LEMMA EvidenceSame == EvidenceInv /\ UNCHANGED vars => EvidenceInv'
  <1> SUFFICES ASSUME EvidenceInv, UNCHANGED vars PROVE EvidenceInv'
    OBVIOUS
  <1>1. history' = history /\ today' = today /\ graphAt' = graphAt /\ bootDay' = bootDay /\ screened' = screened
    BY DEF vars
  <1> QED
    BY <1>1 DEF EvidenceInv, TypeOK, Fresh

LEMMA EvidenceTypes ==
    ASSUME EvidenceInv
    PROVE  /\ history \in Seq(HistoryRows) /\ Len(history) \in Nat
           /\ today \in 0..MaxDay /\ bootDay \in 0..today /\ graphAt \in 0..Len(history)
           /\ screened \in [Payees -> Unscreened..Len(history)] /\ MaxDay \in Nat
  <1>1. history \in Seq(HistoryRows)
    BY DEF EvidenceInv, TypeOK, HistoryRows
  <1>2. Len(history) \in Nat
    BY <1>1
  <1> QED
    BY <1>1, <1>2, EvidenceAssumption DEF EvidenceInv, TypeOK

\* The row a settlement appends.
LEMMA SettleIs ==
    ASSUME EvidenceInv, NEW k \in Kinds, Settle(k)
    PROVE  \E r \in HistoryRows : history' = Append(history, r)
  <1> DEFINE r == [src |-> k.src, from |-> k.from, to |-> k.to, amount |-> k.amount, day |-> today]
  <1>1. history' = Append(history, r)
    BY DEF Settle
  <1>2. r \in HistoryRows
    BY EvidenceTypes, EvidenceAssumption DEF HistoryRows
  <1> QED
    BY <1>1, <1>2

LEMMA EvidenceStep == EvidenceInv /\ Next => EvidenceInv'
  <1> SUFFICES ASSUME EvidenceInv, Next PROVE EvidenceInv'
    OBVIOUS
  <1>1. /\ history \in Seq(HistoryRows) /\ Len(history) \in Nat
        /\ today \in 0..MaxDay /\ bootDay \in 0..today /\ graphAt \in 0..Len(history)
        /\ screened \in [Payees -> Unscreened..Len(history)] /\ MaxDay \in Nat /\ Fresh
    BY EvidenceTypes DEF EvidenceInv
  <1>2. ASSUME NEW k \in Kinds, Settle(k) PROVE EvidenceInv'
    <2>1. PICK r \in HistoryRows : history' = Append(history, r)
      BY <1>2, SettleIs
    <2>2. today' = today /\ graphAt' = graphAt /\ bootDay' = bootDay /\ screened' = screened
      BY <1>2 DEF Settle
    <2>3. history' \in Seq(HistoryRows) /\ Len(history') = Len(history) + 1
      BY <1>1, <2>1
    <2> DEFINE n == Len(history)
               m == Len(history')
    <2>4. n \in Nat /\ m = n + 1
      BY <1>1, <2>3
    <2>5. graphAt \in 0..n /\ screened \in [Payees -> Unscreened..n]
      BY <1>1
    <2> HIDE DEF n, m
    <2>6. graphAt \in 0..m /\ screened \in [Payees -> Unscreened..m]
      <3>1. 0..n \subseteq 0..m /\ Unscreened..n \subseteq Unscreened..m
        BY <2>4 DEF Unscreened
      <3> QED
        BY <2>5, <3>1
    <2>7. graphAt' \in 0..Len(history') /\ screened' \in [Payees -> Unscreened..Len(history')]
      BY <2>2, <2>6 DEF m
    <2>8. Fresh'
      BY <1>1, <2>2 DEF Fresh
    <2>9. today' \in 0..MaxDay /\ bootDay' \in 0..today'
      BY <1>1, <2>2
    <2> QED
      BY <2>3, <2>7, <2>8, <2>9 DEF EvidenceInv, TypeOK, HistoryRows
  <1>3. ASSUME NextDay PROVE EvidenceInv'
    <2>1. history' = history /\ graphAt' = graphAt /\ bootDay' = bootDay /\ screened' = screened /\ today' = today + 1 /\ today < MaxDay
      BY <1>3 DEF NextDay
    <2>2. today' \in 0..MaxDay /\ bootDay' \in 0..today'
      BY <1>1, <2>1
    <2> QED
      BY <1>1, <2>1, <2>2 DEF EvidenceInv, TypeOK, Fresh, HistoryRows
  <1>4. ASSUME Boot PROVE EvidenceInv'
    <2>1. history' = history /\ graphAt' = Len(history) /\ bootDay' = today /\ today' = today
          /\ screened' = [p \in Payees |-> Unscreened]
      BY <1>4 DEF Boot
    <2>2. graphAt' \in 0..Len(history') /\ bootDay' \in 0..today' /\ today' \in 0..MaxDay
      BY <1>1, <2>1
    <2>3. Unscreened \in Unscreened..Len(history)
      BY <1>1 DEF Unscreened
    <2>4. screened' \in [Payees -> Unscreened..Len(history')] /\ Fresh'
      BY <2>1, <2>3 DEF Fresh
    <2> QED
      BY <1>1, <2>1, <2>2, <2>4 DEF EvidenceInv, TypeOK, HistoryRows
  <1>5. ASSUME NEW q \in Asked, Screen(q) PROVE EvidenceInv'
    <2>1. history' = history /\ graphAt' = graphAt /\ bootDay' = bootDay /\ today' = today
          /\ screened' = [screened EXCEPT ![q] = Len(history)]
      BY <1>5 DEF Screen
    <2> DEFINE n == Len(history)
    <2>2. n \in Nat /\ n \in Unscreened..n /\ graphAt <= n
      BY <1>1 DEF Unscreened
    <2>3. screened \in [Payees -> Unscreened..n] /\ screened' = [screened EXCEPT ![q] = n]
      BY <1>1, <2>1
    <2> HIDE DEF n
    <2>4. screened' \in [Payees -> Unscreened..n]
      BY <2>2, <2>3
    <2>5. Fresh'
      BY <1>1, <2>1, <2>2, <2>3 DEF Fresh
    <2> QED
      BY <1>1, <2>1, <2>4, <2>5 DEF EvidenceInv, TypeOK, HistoryRows, n
  <1> QED
    BY <1>2, <1>3, <1>4, <1>5 DEF Next

LEMMA EvidenceIsSoundNow ==
    ASSUME EvidenceInv
    PROVE  /\ MinorityCannotMovePrice /\ SelfPaymentsProveNothing /\ CaptiveIsRing
           /\ OnePayeeCannotSetCategory /\ DivergenceNeedsHalf
           /\ SelfPaidNeverHigh /\ StaleIsTrue
  <1>1. history \in Seq(HistoryRows) /\ graphAt \in 0..Len(history)
    BY EvidenceTypes
  <1>2. TypeOK /\ \A p \in Payees : screened[p] # Unscreened => screened[p] >= graphAt
    BY DEF EvidenceInv, Fresh
  <1>3. MinorityCannotMovePrice /\ SelfPaymentsProveNothing /\ OnePayeeCannotSetCategory /\ DivergenceNeedsHalf
    BY <1>1, MinoritiesMoveNoPrice, SelfPaymentsAreNothing, NoPayeeSetsCategory, HalfDiverge
  <1>4. CaptiveIsRing /\ SelfPaidNeverHigh
    BY <1>1, CaptivesRing, SelfPaidIsNotHigh
  <1>5. StaleIsTrue
    BY <1>2, StaleIsTruth
  <1> QED
    BY <1>3, <1>4, <1>5

-----------------------------------------------------------------------------
(* What a step may not take away.                                            *)

\* More edges lower nobody's tier.
LEMMA TierGrows ==
    ASSUME NEW old, NEW new, IsFiniteSet(new), old \subseteq new, NEW a
    PROVE  Standing[PayerTier(old, a)] <= Standing[PayerTier(new, a)]
  <1>1. IsFiniteSet(old)
    BY FS_Subset
  <1>2. \A x : PayersOf(old, x) \subseteq PayersOf(new, x) /\ PayeesOf(old, x) \subseteq PayeesOf(new, x)
    BY DEF PayersOf, PayeesOf
  <1>3. ASSUME NEW x
        PROVE  /\ Cardinality(PayersOf(old, x)) \in Nat /\ Cardinality(PayersOf(new, x)) \in Nat
               /\ Cardinality(PayeesOf(old, x)) \in Nat /\ Cardinality(PayeesOf(new, x)) \in Nat
               /\ Cardinality(PayersOf(old, x)) <= Cardinality(PayersOf(new, x))
               /\ Cardinality(PayeesOf(old, x)) <= Cardinality(PayeesOf(new, x))
    <2>1. /\ Cardinality(PayersOf(old, x)) \in Nat /\ Cardinality(PayersOf(new, x)) \in Nat
          /\ Cardinality(PayeesOf(old, x)) \in Nat /\ Cardinality(PayeesOf(new, x)) \in Nat
          /\ IsFiniteSet(PayersOf(new, x)) /\ IsFiniteSet(PayeesOf(new, x))
      BY <1>1, NeighboursAreFinite
    <2> QED
      BY <1>2, <2>1, FS_Subset
  <1>4. AnchorPayees(old) \subseteq AnchorPayees(new)
    <2> SUFFICES ASSUME NEW x \in AnchorPayees(old) PROVE x \in AnchorPayees(new)
      OBVIOUS
    <2>1. x \in Payees /\ Cardinality(PayersOf(old, x)) >= AnchorMinDistinct
      BY DEF AnchorPayees
    <2>2. Cardinality(PayersOf(new, x)) >= AnchorMinDistinct
      BY <1>3, <2>1, EvidenceAssumption
    <2> QED
      BY <2>1, <2>2 DEF AnchorPayees
  <1> DEFINE was == PayeesOf(old, a) \cap AnchorPayees(old)
             is == PayeesOf(new, a) \cap AnchorPayees(new)
             c == Cardinality(was)
             d == Cardinality(is)
             m == PayerReputation(old, a)
             n == PayerReputation(new, a)
             top == PayerRepSaturation
  <1>5. was \subseteq is /\ is \subseteq PayeesOf(new, a)
    BY <1>2, <1>4
  <1>6. IsFiniteSet(is) /\ c \in Nat /\ d \in Nat /\ c <= d
    <2>1. IsFiniteSet(PayeesOf(new, a))
      BY NeighboursAreFinite
    <2> HIDE DEF was, is
    <2>2. IsFiniteSet(is)
      BY <1>5, <2>1, FS_Subset
    <2> QED
      BY <1>5, <2>2, FS_Subset, FS_CardinalityType
  <1>7. m = Min({top, c}) /\ n = Min({top, d}) /\ top \in Nat
    BY EvidenceAssumption DEF PayerReputation
  <1> HIDE DEF c, d, m, n, top
  <1>8. m \in Nat /\ n \in Nat /\ m <= n
    <2>1. m \in {top, c} /\ m <= top /\ m <= c
      BY <1>6, <1>7, MinOfTwo
    <2>2. n \in {top, d}
      BY <1>6, <1>7, MinOfTwo
    <2> QED
      BY <1>6, <1>7, <2>1, <2>2
  <1>9. Reputable(old, a) <=> 2 * m >= top
    BY DEF Reputable, m, top
  <1>10. Reputable(new, a) <=> 2 * n >= top
    BY DEF Reputable, n, top
  <1>11. Reputable(old, a) => Reputable(new, a)
    BY <1>7, <1>8, <1>9, <1>10
  <1> DEFINE some(g) == \/ PayerReputation(g, a) >= 1
                        \/ Cardinality(PayeesOf(g, a)) >= EstablishedMinBreadth
  <1>12. some(old) => some(new)
    <2>1. m >= 1 => n >= 1
      BY <1>8
    <2>2. Cardinality(PayeesOf(old, a)) >= EstablishedMinBreadth => Cardinality(PayeesOf(new, a)) >= EstablishedMinBreadth
      BY <1>3, EvidenceAssumption
    <2> QED
      BY <2>1, <2>2 DEF m, n
  <1>13. \A g : PayerTier(g, a) = CASE Reputable(g, a) -> "established"
                                   [] ~ Reputable(g, a) /\ some(g) -> "emerging"
                                   [] OTHER -> "unknown"
    BY DEF PayerTier
  <1> HIDE DEF some
  <1>14. ASSUME NEW g
         PROVE  /\ Reputable(g, a) => PayerTier(g, a) = "established"
                /\ ~ Reputable(g, a) /\ some(g) => PayerTier(g, a) = "emerging"
                /\ ~ Reputable(g, a) /\ ~ some(g) => PayerTier(g, a) = "unknown"
    BY <1>13
  <1>15. Standing["unknown"] = 0 /\ Standing["emerging"] = 1 /\ Standing["established"] = 2
    BY DEF Standing
  <1>16. CASE Reputable(new, a)
    <2>1. PayerTier(new, a) = "established"
      BY <1>14, <1>16
    <2>2. PayerTier(old, a) \in {"unknown", "emerging", "established"}
      BY <1>14
    <2> QED
      BY <1>15, <2>1, <2>2
  <1>17. CASE ~ Reputable(new, a) /\ some(new)
    <2>1. PayerTier(new, a) = "emerging"
      BY <1>14, <1>17
    <2>2. PayerTier(old, a) \in {"unknown", "emerging"}
      BY <1>11, <1>14, <1>17
    <2> QED
      BY <1>15, <2>1, <2>2
  <1>18. CASE ~ Reputable(new, a) /\ ~ some(new)
    <2>1. PayerTier(new, a) = "unknown" /\ PayerTier(old, a) = "unknown"
      BY <1>11, <1>12, <1>14, <1>18
    <2> QED
      BY <1>15, <2>1
  <1> QED
    BY <1>16, <1>17, <1>18

LEMMA StandingIsKept == EvidenceInv /\ Next => StandingKept
  <1> SUFFICES ASSUME EvidenceInv, Next, graphAt' # graphAt, NEW a
               PROVE  Standing[PayerTier(Graph, a)] <= Standing[PayerTier(Graph, a)']
    BY DEF StandingKept
  <1>1. history' = history /\ graphAt' = Len(history)
    BY DEF Next, Settle, NextDay, Screen, Boot
  <1>2. history \in Seq(HistoryRows) /\ Len(history) \in Nat /\ graphAt \in 0..Len(history)
    BY EvidenceTypes
  <1> DEFINE h == SubSeq(history, 1, graphAt)
             k == SubSeq(history, 1, Len(history))
             old == BuildIndex(Edges(h))
             new == BuildIndex(Edges(k))
  <1>3. Graph = old /\ Graph' = new
    BY <1>1 DEF Graph
  <1>4. /\ h \in Seq(HistoryRows) /\ DOMAIN h = 1..graphAt
        /\ \A i \in 1..graphAt : h[i] = history[i]
    BY <1>2, PrefixIs
  <1>5. /\ k \in Seq(HistoryRows) /\ DOMAIN k = 1..Len(history)
        /\ \A i \in 1..Len(history) : k[i] = history[i]
    BY <1>2, PrefixIs
  <1> HIDE DEF h, k
  <1>6. \A i \in DOMAIN h : i \in DOMAIN k /\ k[i] = h[i]
    BY <1>2, <1>4, <1>5
  <1>7. old \subseteq new
    BY <1>6 DEF BuildIndex, Edges
  <1>8. IsFiniteSet(new)
    BY <1>5, GraphIs
  <1> HIDE DEF old, new
  <1>9. Standing[PayerTier(old, a)] <= Standing[PayerTier(new, a)]
    BY <1>7, <1>8, TierGrows
  <1>10. PayerTier(Graph, a)' = PayerTier(Graph', a)
    BY DEF PayerTier, Reputable, PayerReputation, PayeesOf, AnchorPayees, PayersOf
  <1> QED
    BY <1>3, <1>9, <1>10

\* A screen that sees the same buyers at the same amounts, and no fewer payments.
LEMMA ScreenedAlike ==
    ASSUME NEW h \in Seq(HistoryRows), NEW r \in HistoryRows, NEW p \in Payees,
           r.src = "store", r.to = p,
           NEW x \in Range(RowsOf(h, "store", p)), x.from = r.from, x.amount = r.amount
    PROVE  Ranked[ScreenPayee(Append(h, r), p)] <= Ranked[ScreenPayee(h, p)]
  <1> DEFINE k == Append(h, r)
             old == RowsOf(h, "store", p)
             new == RowsOf(k, "store", p)
             buyers(rows) == {rows[i].from : i \in DOMAIN rows}
             paid(rows) == {rows[i].amount : i \in DOMAIN rows}
             paysTo(g, rows) == [b \in buyers(rows) |-> {g[i].to : i \in {j \in DOMAIN g : g[j].from = b}}]
             uniform(rows) == Cardinality(paid(rows)) <= 1
             share(g, rows) == BuyerExclusivity(buyers(rows), rows, p, paysTo(g, rows))
             exclusive(g, rows) == 10 * share(g, rows).n >= 9 * share(g, rows).of
             few(rows) == Len(rows) < MinPayments \/ Cardinality(buyers(rows)) < MinBuyers
             enough(rows) == Len(rows) >= MinPayments /\ Cardinality(buyers(rows)) >= MinBuyers
             level(g, rows) == CASE few(rows) -> "unscreenable"
                                 [] enough(rows) ->
                                      CASE uniform(rows) /\ exclusive(g, rows) -> "synthetic"
                                        [] uniform(rows) # exclusive(g, rows) -> "suspect"
                                        [] OTHER -> "clean"
  <1>1. ScreenPayee(h, p) = level(h, old) /\ ScreenPayee(k, p) = level(k, new)
    BY DEF ScreenPayee
  <1>2. /\ k \in Seq(HistoryRows) /\ Len(h) \in Nat /\ DOMAIN h = 1..Len(h)
        /\ DOMAIN k = DOMAIN h \cup {Len(h) + 1}
        /\ \A i \in DOMAIN h : k[i] = h[i] /\ i # Len(h) + 1
        /\ k[Len(h) + 1] = r
    BY AppendPositions
  <1> HIDE DEF k
  <1>3. Range(k) = Range(h) \cup {r}
    BY <1>2 DEF Range
  <1>4. /\ Range(old) = {y \in Range(h) : y.src = "store" /\ y.to = p}
        /\ Range(new) = {y \in Range(k) : y.src = "store" /\ y.to = p}
        /\ old \in Seq(HistoryRows) /\ new \in Seq(HistoryRows)
    BY <1>2, RangeOfRows, RowsAre
  <1>5. Range(new) = Range(old) \cup {r}
    BY <1>3, <1>4
  <1>6. Len(old) \in Nat /\ Len(new) \in Nat /\ Len(old) <= Len(new)
    <2> DEFINE I == {i \in DOMAIN h : h[i].src = "store" /\ h[i].to = p}
               J == {i \in DOMAIN k : k[i].src = "store" /\ k[i].to = p}
    <2>1. old = Subsequence(h, I) /\ new = Subsequence(k, J)
      BY DEF RowsOf
    <2>2. I \subseteq J /\ I \in SUBSET (DOMAIN h) /\ J \in SUBSET (DOMAIN k)
      BY <1>2
    <2> HIDE DEF I, J
    <2>3. Len(old) = Cardinality(I) /\ Len(new) = Cardinality(J) /\ IsFiniteSet(J) /\ IsFiniteSet(I)
      BY <1>2, <2>1, <2>2, SubsequenceKeeps
    <2> QED
      BY <2>2, <2>3, FS_Subset, FS_CardinalityType
  <1> HIDE DEF old, new
  <1>7. buyers(new) = buyers(old) /\ paid(new) = paid(old)
    <2>1. buyers(new) = {y.from : y \in Range(new)} /\ buyers(old) = {y.from : y \in Range(old)}
      BY DEF Range
    <2>2. paid(new) = {y.amount : y \in Range(new)} /\ paid(old) = {y.amount : y \in Range(old)}
      BY DEF Range
    <2>3. x \in Range(old)
      BY DEF old
    <2>4. {y.from : y \in Range(new)} = {y.from : y \in Range(old)}
      BY <1>5, <2>3
    <2>5. {y.amount : y \in Range(new)} = {y.amount : y \in Range(old)}
      BY <1>5, <2>3
    <2> QED
      BY <2>1, <2>2, <2>4, <2>5
  <1>8. ASSUME NEW b PROVE {k[i].to : i \in {j \in DOMAIN k : k[j].from = b}} = {h[i].to : i \in {j \in DOMAIN h : h[j].from = b}}
    <2>1. {k[i].to : i \in {j \in DOMAIN k : k[j].from = b}} = {y.to : y \in {z \in Range(k) : z.from = b}}
      BY DEF Range
    <2>2. {h[i].to : i \in {j \in DOMAIN h : h[j].from = b}} = {y.to : y \in {z \in Range(h) : z.from = b}}
      BY DEF Range
    <2>3. x \in Range(h) /\ x.to = p
      BY <1>4 DEF old
    <2>4. {y.to : y \in {z \in Range(k) : z.from = b}} = {y.to : y \in {z \in Range(h) : z.from = b}}
      BY <1>3, <2>3
    <2> QED
      BY <2>1, <2>2, <2>4
  <1>9. paysTo(k, new) = paysTo(h, old)
    BY <1>7, <1>8
  <1>10. uniform(new) = uniform(old) /\ share(k, new) = share(h, old)
    <2>1. uniform(new) = uniform(old)
      BY <1>7
    <2>2. share(k, new) = share(h, old)
      <3> HIDE DEF paysTo, buyers
      <3> QED
        BY <1>7, <1>9 DEF BuyerExclusivity
    <2> QED
      BY <2>1, <2>2
  <1>11. exclusive(k, new) = exclusive(h, old)
    <2> HIDE DEF share
    <2> QED
      BY <1>10
  <1>12. /\ few(old) \/ enough(old)
         /\ few(new) \/ enough(new)
         /\ ~ (few(old) /\ enough(old)) /\ ~ (few(new) /\ enough(new))
         /\ few(new) => few(old)
    <2> DEFINE n == Cardinality(buyers(old))
    <2>1. n \in Nat
      <3> DEFINE g == [i \in DOMAIN old |-> old[i].from]
      <3>1. {g[i] : i \in DOMAIN old} = buyers(old)
        OBVIOUS
      <3>2. IsFiniteSet(DOMAIN old)
        BY <1>4, PositionsAreFinite
      <3> HIDE DEF g, buyers
      <3>3. IsFiniteSet({g[i] : i \in DOMAIN old})
        BY <3>2, ImageIsFinite
      <3> QED
        BY <3>1, <3>3, FS_CardinalityType
    <2>2. Cardinality(buyers(new)) = n
      BY <1>7
    <2> HIDE DEF buyers, n
    <2>3. Cardinality(buyers(old)) = n
      BY DEF n
    <2> QED
      BY <1>6, <2>1, <2>2, <2>3, EvidenceAssumption
  <1> HIDE DEF few, enough, uniform, exclusive
  <1>13. Ranked["synthetic"] = 0 /\ Ranked["suspect"] = 1 /\ Ranked["clean"] = 2 /\ Ranked["unscreenable"] = 3
    BY DEF Ranked
  <1>14. ASSUME NEW g, NEW rows, few(rows) \/ enough(rows), ~ (few(rows) /\ enough(rows))
         PROVE  /\ few(rows) => level(g, rows) = "unscreenable"
                /\ enough(rows) => level(g, rows) =
                     CASE uniform(rows) /\ exclusive(g, rows) -> "synthetic"
                       [] uniform(rows) # exclusive(g, rows) -> "suspect"
                       [] OTHER -> "clean"
                /\ level(g, rows) \in {"unscreenable", "synthetic", "suspect", "clean"}
    BY <1>14
  <1> HIDE DEF level
  <1>15. CASE few(old)
    <2>1. level(h, old) = "unscreenable"
      BY <1>12, <1>14, <1>15
    <2>2. level(k, new) \in {"unscreenable", "synthetic", "suspect", "clean"}
      BY <1>12, <1>14
    <2>3. Ranked[level(k, new)] <= Ranked[level(h, old)]
      BY <1>13, <2>1, <2>2
    <2> QED
      BY <1>1, <2>3 DEF k
  <1>16. CASE enough(old)
    <2>1. enough(new)
      BY <1>12, <1>16
    <2>2. level(h, old) = CASE uniform(old) /\ exclusive(h, old) -> "synthetic"
                            [] uniform(old) # exclusive(h, old) -> "suspect"
                            [] OTHER -> "clean"
      BY <1>12, <1>14, <1>16
    <2>3. level(k, new) = CASE uniform(new) /\ exclusive(k, new) -> "synthetic"
                            [] uniform(new) # exclusive(k, new) -> "suspect"
                            [] OTHER -> "clean"
      BY <1>12, <1>14, <2>1
    <2>4. level(k, new) = level(h, old)
      BY <1>10, <1>11, <2>2, <2>3
    <2>5. level(h, old) \in {"unscreenable", "synthetic", "suspect", "clean"}
      BY <1>12, <1>14
    <2>6. Ranked[level(k, new)] <= Ranked[level(h, old)]
      BY <1>13, <2>4, <2>5
    <2> QED
      BY <1>1, <2>6 DEF k
  <1> QED
    BY <1>12, <1>15, <1>16

LEMMA VolumeClearsNothing == EvidenceInv /\ Next => SameVolumeClearsNothing
  <1> SUFFICES ASSUME EvidenceInv, Next, NEW p \in Payees,
                      Len(history') = Len(history) + 1,
                      Last(history').src = "store", Last(history').to = p,
                      NEW x \in Range(RowsOf(history, "store", p)),
                      x.from = Last(history').from, x.amount = Last(history').amount
               PROVE  Ranked[ScreenPayee(history', p)] <= Ranked[ScreenPayee(history, p)]
    BY DEF SameVolumeClearsNothing
  <1>1. history \in Seq(HistoryRows) /\ Len(history) \in Nat
    BY EvidenceTypes
  <1>2. PICK k \in Kinds : Settle(k)
    <2>1. history' # history
      BY <1>1
    <2> QED
      BY <2>1 DEF Next, NextDay, Screen, Boot
  <1>3. PICK r \in HistoryRows : history' = Append(history, r)
    BY <1>2, SettleIs
  <1>4. Last(history') = r
    BY <1>1, <1>3, AppendPositions DEF Last
  <1>5. Ranked[ScreenPayee(Append(history, r), p)] <= Ranked[ScreenPayee(history, p)]
    BY <1>1, <1>4, ScreenedAlike
  <1> QED
    BY <1>3, <1>5

-----------------------------------------------------------------------------
(* The parts together.                                                       *)

CounterpartiesInv ==
    /\ part \in {"evidence", "sellers", "screening", "portal", "preflight", "limit"}
    /\ EvidenceInv /\ SellersInv /\ ScreenInv /\ PortalInv /\ PreflightInv /\ LimitInv

LEMMA CounterpartiesBegin == CounterpartiesInit => CounterpartiesInv
  BY EvidenceInit, SellersInit, ScreenInit, PortalInit, PreflightInit, LimitInit
     DEF CounterpartiesInit, CounterpartiesInv

LEMMA CounterpartiesStep == CounterpartiesInv /\ [CounterpartiesNext]_all => CounterpartiesInv'
  <1> SUFFICES ASSUME CounterpartiesInv, [CounterpartiesNext]_all PROVE CounterpartiesInv'
    OBVIOUS
  <1>1. /\ part \in {"evidence", "sellers", "screening", "portal", "preflight", "limit"}
        /\ EvidenceInv /\ SellersInv /\ ScreenInv /\ PortalInv /\ PreflightInv /\ LimitInv
    BY DEF CounterpartiesInv
  <1>2. UNCHANGED part
    BY DEF CounterpartiesNext, all
  <1>3. /\ Next \/ UNCHANGED vars
        /\ S!Next \/ UNCHANGED sellerVars
        /\ C!Next \/ UNCHANGED screenVars
        /\ R!Next \/ UNCHANGED portalVars
        /\ F!Next \/ UNCHANGED billingVars
        /\ L!Next \/ UNCHANGED limitVars
    BY DEF CounterpartiesNext, all
  <1>4. EvidenceInv'
    BY <1>1, <1>3, EvidenceStep, EvidenceSame
  <1>5. SellersInv'
    BY <1>1, <1>3, SellersStep, SellersSame
  <1>6. ScreenInv'
    BY <1>1, <1>3, ScreenStep, ScreenSame
  <1>7. PortalInv'
    BY <1>1, <1>3, PortalStep, PortalSame
  <1>8. PreflightInv'
    BY <1>1, <1>3, PreflightStep, PreflightSame
  <1>9. LimitInv'
    BY <1>1, <1>3, LimitStep, LimitSame
  <1> QED
    BY <1>1, <1>2, <1>4, <1>5, <1>6, <1>7, <1>8, <1>9 DEF CounterpartiesInv

LEMMA CounterpartiesAlways == CounterpartiesSpec => []CounterpartiesInv
  <1>1. CounterpartiesInit => CounterpartiesInv
    BY CounterpartiesBegin
  <1>2. CounterpartiesInv /\ [CounterpartiesNext]_all => CounterpartiesInv'
    BY CounterpartiesStep
  <1> QED
    BY <1>1, <1>2, PTL DEF CounterpartiesSpec

\* Each part keeps to its types (the state reputation_store.py, sellers.py, sanctions.py,
\* the portal, the preflight and the limiter hold).
THEOREM CounterpartiesTypes == CounterpartiesSpec => []CounterpartiesTypeOK
  <1>1. CounterpartiesInv => CounterpartiesTypeOK
    <2> SUFFICES ASSUME CounterpartiesInv PROVE CounterpartiesTypeOK
      OBVIOUS
    <2>1. TypeOK /\ S!TypeOK /\ C!TypeOK /\ R!TypeOK /\ F!TypeOK /\ L!TypeOK
      BY SellersSound, ScreenSound, PortalSound, PreflightSound, LimitSound
         DEF CounterpartiesInv, EvidenceInv
    <2>2. part \in {"evidence", "sellers", "screening", "portal", "preflight", "limit"}
      BY DEF CounterpartiesInv
    <2> QED
      BY <2>1, <2>2 DEF CounterpartiesTypeOK
  <1> QED
    BY <1>1, CounterpartiesAlways, PTL

\* What is said of a payee rests on enough independent payers: for any number of payers,
\* prices and settlements, a minority, the payee itself or one payee of a category moves
\* no price and clears no pattern, and a payee held as stale is.
THEOREM EvidenceIsSound == CounterpartiesSpec => []EvidenceSound
  <1>1. CounterpartiesInv => EvidenceSound
    BY EvidenceIsSoundNow DEF CounterpartiesInv, EvidenceSound
  <1> QED
    BY <1>1, CounterpartiesAlways, PTL

\* What is decided of a counterparty or a client is founded: a badge's floor is earned
\* and a revoked one grants none, a free answer is a STOP, a portal report is about the
\* seller asked for, a ready deployment collects, and no client gets more than its share.
THEOREM CounterpartiesAreSound == CounterpartiesSpec => []CounterpartiesSound
  <1>1. CounterpartiesInv => CounterpartiesSound
    BY SellersSound, ScreenSound, PortalSound, PreflightSound, LimitSound
       DEF CounterpartiesInv, CounterpartiesSound
  <1> QED
    BY <1>1, CounterpartiesAlways, PTL

\* No step lowers a payer's standing, clears a suspect payee by more of the same payments,
\* grades a better merchant lower, contacts again an endpoint that just answered, or
\* refuses a client that has a token.
THEOREM CounterpartiesAreKept == CounterpartiesSpec => CounterpartiesKept
  <1> DEFINE kept == /\ part = "evidence" => StandingKept /\ SameVolumeClearsNothing
                     /\ part = "sellers"  => S!BetterNeverLower
                     /\ part = "portal"   => R!AnsweredRests
                     /\ part = "limit"    => L!DenialJustified
             seen == <<vars, sellerVars, portalVars, limitVars>>
  <1>1. CounterpartiesInv /\ CounterpartiesInv' /\ [CounterpartiesNext]_all => [kept]_seen
    <2> SUFFICES ASSUME CounterpartiesInv, CounterpartiesInv', [CounterpartiesNext]_all PROVE [kept]_seen
      OBVIOUS
    <2>1. CASE UNCHANGED all
      BY <2>1 DEF all
    <2>2. CASE CounterpartiesNext
      <3>1. /\ EvidenceInv /\ SellersInv /\ PortalInv /\ LimitInv /\ SellersInv'
        BY DEF CounterpartiesInv
      <3>2. /\ part = "evidence" => Next
            /\ part = "portal" => R!Next
            /\ part = "limit" => L!Next
        BY <2>2 DEF CounterpartiesNext
      <3>3. part = "evidence" => StandingKept /\ SameVolumeClearsNothing
        BY <3>1, <3>2, StandingIsKept, VolumeClearsNothing
      <3>4. S!BetterNeverLower
        BY <3>1, SellersKeep
      <3>5. part = "portal" => R!AnsweredRests
        BY <3>1, <3>2, PortalKeep
      <3>6. part = "limit" => L!DenialJustified
        BY <3>1, <3>2, LimitKeep
      <3> QED
        BY <3>3, <3>4, <3>5, <3>6
    <2> QED
      BY <2>1, <2>2
  <1> QED
    BY <1>1, CounterpartiesAlways, PTL DEF CounterpartiesSpec, CounterpartiesKept
=============================================================================
