------------------------------- MODULE Corpus -------------------------------
(***************************************************************************)
(* The files the service ships with or keeps: the settlement corpus, the    *)
(* payee directory, the probe log and the log of asset buys, each written   *)
(* by jobs of its own.  In a behaviour one of them is worked on, the others *)
(* stay as they began.                                                      *)
(***************************************************************************)
EXTENDS SeedRefresh

CONSTANTS Hosts, PageLimit, CrawlPages, MaxAge, LastDay, MaxListing, MaxChanges,  \* of DirectoryRefresh
          Writers, ProbeHosts, MaxProbes, CompactAbove, KeepPerHost,
          RunForConcern, DaysForConcern, LockMayFail,                            \* of Reachability
          Receipts, Jobs, BuyKinds, Readings, Horizon, MaxLabels, MinOutcomes,
          LastTick, MaxArrivals, MaxLines                                        \* of RwaLog

ASSUME PayeesAssumption == IsFiniteSet(Payees)

ASSUME DirectoryAssumption ==
    /\ IsFiniteSet(Hosts)
    /\ PageLimit \in Nat \ {0} /\ CrawlPages \in Nat \ {0} /\ MaxAge \in Nat
    /\ LastDay \in Nat /\ MaxListing \in Nat /\ MaxChanges \in Nat

\* A run of silence that is reported fits into what a compaction keeps.
ASSUME ProbesAssumption ==
    /\ "free" \notin Writers /\ LockMayFail \in BOOLEAN
    /\ MaxProbes \in Nat /\ CompactAbove \in Nat
    /\ KeepPerHost \in Nat \ {0} /\ RunForConcern \in 1..KeepPerHost /\ DaysForConcern \in Nat

\* A mark and a balance are read or not.
ASSUME BuysAssumption ==
    /\ "none" \notin Receipts
    /\ \A kind \in BuyKinds : kind.snapshot \in BOOLEAN
    /\ \A reading \in Readings : reading.mark \subseteq BOOLEAN /\ reading.readable \in BOOLEAN
    /\ Horizon \in Nat /\ MaxLabels \in Nat /\ MinOutcomes \in Nat
    /\ LastTick \in Nat /\ MaxArrivals \in Nat /\ MaxLines \in Nat

VARIABLES part,
          listing, changes, dirDay, seenOn, dir, meta, dirPhase, offset, crawled,
          dirCand, candMeta, index, dirAge, bootDay,                \* DirectoryRefresh
          file, log, clock, lock, pc, event, copy, unlocked,        \* Reachability
          rwaClock, rows, rowTorn, jobs, balance, arrivals, mixed   \* RwaLog

directoryVars == <<listing, changes, dirDay, seenOn, dir, meta, dirPhase, offset, crawled,
                   dirCand, candMeta, index, dirAge, bootDay>>
probeVars == <<file, log, clock, lock, pc, event, copy, unlocked>>
rwaVars == <<rwaClock, rows, rowTorn, jobs, balance, arrivals, mixed>>

D == INSTANCE DirectoryRefresh WITH
       MaxPages <- CrawlPages, MaxDay <- LastDay,
       day <- dirDay, phase <- dirPhase, cand <- dirCand, age <- dirAge
P == INSTANCE Reachability WITH Hosts <- ProbeHosts, MaxEvents <- MaxProbes
B == INSTANCE RwaLog WITH
       MaxEvents <- MaxLabels, MaxTime <- LastTick, MaxRows <- MaxLines,
       clock <- rwaClock, file <- rows, torn <- rowTorn

CorpusInit ==
    /\ part \in {"seed", "directory", "probes", "buys"}
    /\ RefreshInit /\ D!Init /\ P!Init /\ B!Init

CorpusNext ==
    /\ UNCHANGED part
    /\ \/ part = "seed" /\ RefreshNext /\ UNCHANGED <<directoryVars, probeVars, rwaVars>>
       \/ part = "directory" /\ D!Next /\ UNCHANGED <<allVars, probeVars, rwaVars>>
       \/ part = "probes" /\ P!Next /\ UNCHANGED <<allVars, directoryVars, rwaVars>>
       \/ part = "buys" /\ B!Next /\ UNCHANGED <<allVars, directoryVars, probeVars>>

corpusVars == <<part, allVars, directoryVars, probeVars, rwaVars>>

CorpusSpec == CorpusInit /\ [][CorpusNext]_corpusVars

-----------------------------------------------------------------------------
CorpusTypeOK ==
    CASE part = "seed"      -> StoreTypeOK /\ RefreshTypeOK
      [] part = "directory" -> D!TypeOK
      [] part = "probes"    -> P!TypeOK
      [] part = "buys"      -> B!TypeOK

\* What is shipped is what its own record says it is, however the jobs before ended: a
\* promoted corpus adds to the old one, is current for most payees and agrees with its
\* indexes and its provenance; a dated directory carries its own date and gates only on
\* current listings; the probe log keeps each host's latest events and calls no host
\* silent for what a compaction dropped; an outcome labels the buy it names, once, and says
\* settled only of tokens that came after it.
CorpusSound ==
    /\ part = "seed"      => PromotionAdds /\ FreshForMost /\ ArtifactsAgree
    /\ part = "directory" => D!DatedIsTrue /\ D!GatesOnCurrentListings
    /\ part = "probes"    => P!LatestSurvive /\ P!SilenceIsReal
    /\ part = "buys"      => B!LabelledOnce /\ B!SettledIsReal

\* No job takes away what an earlier one shipped: no settlement of the corpus, no more
\* than the guard's margin of the directory's hosts, no probe that a compaction had read
\* as one to keep, and no issuer's grade, which only an outcome can begin.
NothingTakenAway ==
    [][/\ part = "seed"      => MergeNeverLoses
       /\ part = "directory" => D!CoverageKept
       /\ part = "probes"    => P!LossNeedsARewrite
       /\ part = "buys"      => B!GradeNeedsOutcome]_<<allVars, directoryVars, probeVars, rwaVars>>
=============================================================================
