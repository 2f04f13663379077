---------------------------- MODULE VerdictProofs ----------------------------
(***************************************************************************)
(* What a verdict says and what is charged for it.  Forecast: whatever the *)
(* deployment, the locks, the request and the sources' answers, the folds  *)
(* only raise the risk, and the answer is a function of decide_payment's   *)
(* verdict and of the grades.  Billing: its safety properties for any      *)
(* number of payments, sessions and threads, any prices and deployments.   *)
(***************************************************************************)
EXTENDS Forecast, Billing, FiniteSetTheorems, TLAPS

\* What the steps below need of the state: before decide_payment there is no verdict,
\* and a hard stop is a STOP; ...
Judged ==
    /\ stage = "lookup" => verdict = None
    /\ verdict \in Verdicts \cup {None}
    /\ hard_stop \in BOOLEAN
    /\ hard_stop => verdict = "STOP"

\* ... nothing is answered before the end, and from the signature on the receipt and
\* the rows are of the verdict that no later step changes.
Logged ==
    /\ stage # "done" => answer = None
    /\ stage \in {"log", "record"} => receipt = verdict
    /\ stage = "record" => rwaRow \in {None, verdict}
    /\ RecordedAsAnswered

Inv == Judged /\ Logged

\* A step raises the risk or leaves it (RiskOnlyRises, as a step).
Rises ==
    verdict # None =>
        /\ verdict' # verdict => verdict = "GO" /\ verdict' = "HOLD"
        /\ hard_stop' = hard_stop

\* The pipeline only leads on: After(s) is a fold or "sign".
LEMMA AfterLeadsOn ==
    ASSUME NEW s \in DOMAIN Needs
    PROVE  After(s) \notin {"lookup", "log", "record", "done"}
<1>1. \E i \in DOMAIN Pipeline : Pipeline[i] = s
  <2>1. DOMAIN Pipeline = 1..16
    BY DEF Pipeline
  <2>2. s \in {Pipeline[i] : i \in 1..16}
    BY DEF Needs, Pipeline
  <2> QED
    BY <2>1, <2>2
<1>2. Position(s) \in DOMAIN Pipeline
  BY <1>1 DEF Position
<1>3. Position(s) \in 1..16 /\ Len(Pipeline) = 16
  BY <1>2 DEF Pipeline
<1>4. \A i \in 1..16 : Pipeline[i] \notin {"lookup", "log", "record", "done"}
  BY DEF Pipeline
<1> QED
  BY <1>3, <1>4 DEF After

\* A fold keeps the invariant and changes the verdict from GO to HOLD only.
LEMMA FoldRaises ==
    ASSUME Inv,
           NEW s \in DOMAIN Needs, NEW grade, NEW gates \in BOOLEAN, NEW recorded,
           Fold(s, grade, gates, recorded)
    PROVE  Inv' /\ Rises
<1>1. stage' \notin {"lookup", "log", "record", "done"}
  BY AfterLeadsOn DEF Fold
<1>2. stage \notin {"lookup", "log", "record", "done"}
  BY DEF Fold, Needs
<1>3. Judged' /\ Rises
  BY <1>1 DEF Inv, Judged, Rises, Fold, Escalate, Verdicts
<1>4. Logged'
  <2>1. answer' = None
    BY <1>2 DEF Inv, Logged, Fold
  <2> QED
    BY <1>1, <2>1 DEF Logged, RecordedAsAnswered, Verdicts, None
<1> QED
  BY <1>3, <1>4 DEF Inv

\* So does every step of forecast.
LEMMA StepRaises ==
    ASSUME Inv, [Next]_vars
    PROVE  Inv' /\ Rises
<1>1. CASE Decide
  <2>1. stage' = "excessive"
    BY <1>1 DEF Decide, Pipeline
  <2>2. PICK down \in SUBSET (FailOpen \cap wired) :
            /\ verdict' = Decision(Known(down))
            /\ hard_stop' = (Known(down) \cap HardStops # {})
    BY <1>1 DEF Decide
  <2>3. Judged' /\ Rises
    <3>1. verdict = None
      BY <1>1 DEF Decide, Inv, Judged
    <3>2. hard_stop' => verdict' = "STOP"
      BY <2>2 DEF Decision, Stops
    <3>3. verdict' \in Verdicts
      BY <2>2 DEF Decision, Verdicts
    <3> QED
      BY <2>1, <2>2, <3>1, <3>2, <3>3 DEF Judged, Rises
  <2>4. answer' = None
    BY <1>1 DEF Decide, Inv, Logged
  <2> QED
    BY <2>1, <2>3, <2>4 DEF Inv, Logged, RecordedAsAnswered, Verdicts, None
<1>2. CASE Refuse
  BY <1>2 DEF Refuse, Inv, Judged, Rises, Logged, RecordedAsAnswered, Verdicts, None
<1>3. CASE Excessive \/ Readiness \/ SettlementSim \/ AuthSim \/ RwaReadiness
  BY <1>3, FoldRaises
  DEF Needs, Excessive, Readiness, SettlementSim, AuthSim, RwaReadiness
<1>4. CASE AssetRegistry \/ Peg \/ Backing \/ DexMarket \/ PayeeSyntax
  BY <1>4, FoldRaises DEF Needs, AssetRegistry, Peg, Backing, DexMarket, PayeeSyntax
<1>5. CASE PaytoBaseline \/ HolderConcentration \/ AaveReserve \/ Honeypot \/ IssuerTrust
  BY <1>5, FoldRaises
  DEF Needs, PaytoBaseline, PaytoGates, HolderConcentration, AaveReserve, Honeypot,
      IssuerTrust
<1>6. CASE Aggregate
  <2>1. stage' = "sign"
    <3>1. Position("aggregate") = 16 /\ Len(Pipeline) = 16
      BY DEF Position, Pipeline
    <3> QED
      BY <1>6, <3>1 DEF Aggregate, After
  <2>2. answer' = None
    BY <1>6 DEF Aggregate, Inv, Logged
  <2>3. Judged' /\ Rises
    BY <1>6, <2>1 DEF Aggregate, Inv, Judged, Rises, Escalate, Verdicts
  <2> QED
    BY <2>1, <2>2, <2>3 DEF Inv, Logged, RecordedAsAnswered, Verdicts, None
<1>7. CASE Skip
  <2>1. stage' \notin {"lookup", "log", "record", "done"}
    BY <1>7, AfterLeadsOn DEF Skip
  <2>2. answer' = None
    BY <1>7 DEF Skip, Needs, Inv, Logged
  <2>3. Judged' /\ Rises
    BY <1>7, <2>1 DEF Skip, Inv, Judged, Rises
  <2> QED
    BY <2>1, <2>2, <2>3 DEF Inv, Logged, RecordedAsAnswered, Verdicts, None
<1>8. CASE Sign
  BY <1>8 DEF Sign, Inv, Judged, Rises, Logged, RecordedAsAnswered, Verdicts, None
<1>9. CASE LogRwa
  BY <1>9 DEF LogRwa, Inv, Judged, Rises, Logged, RecordedAsAnswered, Verdicts, None
<1>10. CASE Record
  BY <1>10 DEF Record, Inv, Judged, Rises, Logged, RecordedAsAnswered, Verdicts, None
<1>11. CASE RecordFails
  BY <1>11 DEF RecordFails, Inv, Judged, Rises, Logged, RecordedAsAnswered, Verdicts, None
<1>12. CASE UNCHANGED vars
  BY <1>12 DEF vars, Inv, Judged, Rises, Logged, RecordedAsAnswered
<1> QED
  BY <1>1, <1>2, <1>3, <1>4, <1>5, <1>6, <1>7, <1>8, <1>9, <1>10, <1>11, <1>12
  DEF Next, Done

\* Inv holds of every state of every behaviour of forecast.
LEMMA InvHolds == Spec => []Inv
<1>1. Init => Inv
  BY DEF Init, Inv, Judged, Logged, RecordedAsAnswered, Verdicts, None
<1>2. Inv /\ [Next]_vars => Inv'
  BY StepRaises
<1> QED
  BY <1>1, <1>2, PTL DEF Spec

\* No overlay of forecast softens a verdict, makes a STOP or touches the hard stop,
\* whatever the sources answer, fail to answer or are wired to.
THEOREM OverlaysOnlyRaise == Spec => RiskOnlyRises
<1>1. Inv /\ [Next]_vars =>
         [verdict # None =>
             /\ verdict' # verdict => verdict = "GO" /\ verdict' = "HOLD"
             /\ hard_stop' = hard_stop]_vars
  BY StepRaises DEF Rises
<1> QED
  BY <1>1, InvHolds, PTL DEF Spec, RiskOnlyRises

\* The signed receipt and the rows forecast leaves behind are of the verdict answered.
THEOREM AnswerIsRecorded == Spec => []RecordedAsAnswered
<1>1. Inv => RecordedAsAnswered
  BY DEF Inv, Logged
<1> QED
  BY <1>1, InvHolds, PTL

-----------------------------------------------------------------------------
(* The aggregate's weight *)

\* What the fold of the community modules computes is a solution of its equation.
Equation(fun, S, g) ==
    g = [s \in SUBSET S |-> IF s = {} THEN 0
                            ELSE LET x == CHOOSE x \in s : TRUE IN fun[x] + g[s \ {x}]]

LEMMA SumSolves ==
    ASSUME NEW fun, NEW S, NEW h, Equation(fun, S, h)
    PROVE  \E g : Equation(fun, S, g) /\ SumFunctionOnSet(fun, S) = g[S]
<1> DEFINE g == CHOOSE g : Equation(fun, S, g)
<1>1. Equation(fun, S, g)
  OBVIOUS
<1>2. SumFunctionOnSet(fun, S) = g[S]
  BY DEF SumFunctionOnSet, FoldFunctionOnSet, MapThenFoldSet, Equation
<1> QED
  BY <1>1, <1>2

\* A set of the advisory signals has at most three, ...
LEMMA AdvisorySize ==
    ASSUME NEW S \in SUBSET DOMAIN Advisory
    PROVE  IsFiniteSet(S) /\ Cardinality(S) \in 0 .. 3
<1>1. DOMAIN Advisory = {"holder", "aave", "issuer_trust"}
  BY DEF Advisory
<1>2. IsFiniteSet({"holder"}) /\ Cardinality({"holder"}) = 1
  BY FS_Singleton
<1>3. /\ IsFiniteSet({"holder"} \cup {"aave"}) /\ Cardinality({"holder"} \cup {"aave"}) = 2
  BY <1>2, FS_AddElement
<1>4. /\ IsFiniteSet(({"holder"} \cup {"aave"}) \cup {"issuer_trust"})
      /\ Cardinality(({"holder"} \cup {"aave"}) \cup {"issuer_trust"}) = 3
  BY <1>3, FS_AddElement
<1>5. ({"holder"} \cup {"aave"}) \cup {"issuer_trust"} = DOMAIN Advisory
  BY <1>1
<1>6. IsFiniteSet(DOMAIN Advisory) /\ Cardinality(DOMAIN Advisory) = 3
  BY <1>4, <1>5
<1>7. IsFiniteSet(S) /\ Cardinality(S) <= 3
  BY <1>6, FS_Subset
<1>8. Cardinality(S) \in Nat
  BY <1>7, FS_CardinalityType
<1> QED
  BY <1>7, <1>8

LEMMA Remove ==
    ASSUME NEW S, IsFiniteSet(S), NEW x \in S
    PROVE  Cardinality(S \ {x}) = Cardinality(S) - 1 /\ Cardinality(S) \in Nat \ {0}
<1>1. Cardinality(S \ {x}) = Cardinality(S) - 1 /\ IsFiniteSet(S \ {x})
  BY FS_RemoveElement
<1>2. Cardinality(S) \in Nat /\ Cardinality(S) # 0
  BY FS_CardinalityType, FS_EmptySet
<1> QED
  BY <1>1, <1>2

\* ... and each weighs three tenths.
LEMMA AdvisoryWeight ==
    ASSUME NEW S \in SUBSET DOMAIN Advisory
    PROVE  SumFunctionOnSet(Advisory, S) = 3 * Cardinality(S)
<1> DEFINE h == [s \in SUBSET S |-> 3 * Cardinality(s)]
<1>0. \A x \in S : Advisory[x] = 3
  BY DEF Advisory
<1>1. \A s \in SUBSET S : IsFiniteSet(s) /\ Cardinality(s) \in 0 .. 3
  <2>1. \A s \in SUBSET S : s \in SUBSET DOMAIN Advisory
    OBVIOUS
  <2> QED
    BY <2>1, AdvisorySize
<1>2. Equation(Advisory, S, h)
  <2>1. ASSUME NEW s \in SUBSET S
        PROVE  h[s] = IF s = {} THEN 0
                      ELSE LET x == CHOOSE x \in s : TRUE IN Advisory[x] + h[s \ {x}]
    <3>1. CASE s = {}
      BY <3>1, FS_EmptySet
    <3>2. CASE s # {}
      <4> DEFINE x == CHOOSE x \in s : TRUE
      <4>1. x \in s /\ x \in S
        BY <3>2
      <4> HIDE DEF x
      <4>2. Cardinality(s \ {x}) = Cardinality(s) - 1 /\ Cardinality(s) \in Nat \ {0}
        BY <1>1, <4>1, Remove
      <4>3. h[s \ {x}] = 3 * (Cardinality(s) - 1) /\ h[s] = 3 * Cardinality(s)
        BY <4>2
      <4>4. Advisory[x] = 3
        BY <1>0, <4>1
      <4>5. h[s] = Advisory[x] + h[s \ {x}]
        BY <4>2, <4>3, <4>4
      <4> QED
        BY <3>2, <4>5 DEF x
    <3> QED
      BY <3>1, <3>2
  <2>2. h = [s \in SUBSET S |-> h[s]]
    OBVIOUS
  <2> QED
    BY <2>1, <2>2 DEF Equation
<1>3. PICK g : Equation(Advisory, S, g) /\ SumFunctionOnSet(Advisory, S) = g[S]
  BY <1>2, SumSolves
<1>4. g[{}] = 0
  BY <1>3 DEF Equation
\* One element after the other.
<1>5. ASSUME NEW n \in 0 .. 2, \A s \in SUBSET S : Cardinality(s) = n => g[s] = 3 * n,
             NEW s \in SUBSET S, Cardinality(s) = n + 1
      PROVE  g[s] = 3 * (n + 1)
  <2> DEFINE x == CHOOSE x \in s : TRUE
  <2>0. n + 1 # 0
    OBVIOUS
  <2>1. s # {}
    <3>1. Cardinality(s) # 0
      BY <1>5, <2>0
    <3> QED
      BY <3>1, FS_EmptySet
  <2>2. x \in s /\ x \in S
    BY <2>1
  <2>3. g[s] = Advisory[x] + g[s \ {x}]
    BY <1>3, <2>1 DEF Equation
  <2> HIDE DEF x
  <2>4. Cardinality(s \ {x}) = n /\ s \ {x} \in SUBSET S
    BY <1>1, <1>5, <2>2, Remove
  <2>5. g[s \ {x}] = 3 * n /\ Advisory[x] = 3
    BY <1>0, <1>5, <2>2, <2>4
  <2> QED
    BY <2>3, <2>5
<1>6. \A s \in SUBSET S : Cardinality(s) = 0 => g[s] = 3 * 0
  BY <1>1, <1>4, FS_EmptySet
<1>7. \A s \in SUBSET S : Cardinality(s) = 1 => g[s] = 3 * 1
  BY <1>5, <1>6
<1>8. \A s \in SUBSET S : Cardinality(s) = 2 => g[s] = 3 * 2
  BY <1>5, <1>7
<1>9. \A s \in SUBSET S : Cardinality(s) = 3 => g[s] = 3 * 3
  BY <1>5, <1>8
<1>10. Cardinality(S) \in 0 .. 3
  BY <1>1
<1> QED
  BY <1>3, <1>6, <1>7, <1>8, <1>9, <1>10

LEMMA FewerThanTwo ==
    ASSUME NEW S, IsFiniteSet(S)
    PROVE  Cardinality(S) < 2 <=> \A x, y \in S : x = y
<1>0. Cardinality(S) \in Nat
  BY FS_CardinalityType
<1>1. ASSUME NEW x \in S, NEW y \in S, x # y PROVE ~(Cardinality(S) < 2)
  <2>1. Cardinality(S \ {x}) = Cardinality(S) - 1 /\ IsFiniteSet(S \ {x}) /\ y \in S \ {x}
    BY <1>1, FS_RemoveElement
  <2>2. Cardinality(S \ {x}) \in Nat \ {0}
    BY <2>1, Remove
  <2> QED
    BY <1>0, <2>1, <2>2
<1>2. ASSUME \A x, y \in S : x = y PROVE Cardinality(S) < 2
  <2>1. CASE S = {}
    BY <2>1, FS_EmptySet
  <2>2. CASE S # {}
    <3>1. PICK x \in S : TRUE
      BY <2>2
    <3>2. S = {x}
      BY <1>2, <3>1
    <3> QED
      BY <3>2, FS_Singleton
  <2> QED
    BY <2>1, <2>2
<1> QED
  BY <1>1, <1>2

\* Collectively the advisory signals hold a payment when two of them agree.
LEMMA CollectiveIsTwo ==
    Collective <=> ~(Cardinality(Concerns \cap DOMAIN Advisory) < 2)
<1> DEFINE n == Cardinality(Concerns \cap DOMAIN Advisory)
<1>1. n \in 0 .. 3
  BY AdvisorySize
<1>2. Collective <=> 3 * n >= 5
  BY AdvisoryWeight DEF Collective, ADVISORY_HOLD_WEIGHT
<1> HIDE DEF n
<1>3. Collective <=> ~(n < 2)
  BY <1>1, <1>2
<1> QED
  BY <1>3 DEF n

-----------------------------------------------------------------------------
(* The order of the folds *)

LEMMA Places ==
    /\ Position("excessive") = 1 /\ Position("readiness") = 2 /\ Position("settlement_sim") = 3
    /\ Position("auth_sim") = 4 /\ Position("rwa") = 5 /\ Position("registry") = 6
    /\ Position("peg") = 7 /\ Position("backing") = 8 /\ Position("dex") = 9
    /\ Position("payee_syntax") = 10 /\ Position("payto") = 11 /\ Position("holder") = 12
    /\ Position("aave") = 13 /\ Position("honeypot") = 14 /\ Position("issuer_trust") = 15
    /\ Position("aggregate") = 16 /\ Len(Pipeline) = 16
<1>1. DOMAIN Pipeline = 1 .. 16 /\ Len(Pipeline) = 16
  BY DEF Pipeline
<1>2. \A i, j \in 1 .. 16 : Pipeline[i] = Pipeline[j] => i = j
  BY DEF Pipeline
<1>3. \A i \in 1 .. 16 : Position(Pipeline[i]) = i
  BY <1>1, <1>2 DEF Position
<1>4. /\ Position(Pipeline[1]) = 1 /\ Position(Pipeline[2]) = 2 /\ Position(Pipeline[3]) = 3
      /\ Position(Pipeline[4]) = 4 /\ Position(Pipeline[5]) = 5 /\ Position(Pipeline[6]) = 6
      /\ Position(Pipeline[7]) = 7 /\ Position(Pipeline[8]) = 8 /\ Position(Pipeline[9]) = 9
      /\ Position(Pipeline[10]) = 10 /\ Position(Pipeline[11]) = 11 /\ Position(Pipeline[12]) = 12
      /\ Position(Pipeline[13]) = 13 /\ Position(Pipeline[14]) = 14 /\ Position(Pipeline[15]) = 15
      /\ Position(Pipeline[16]) = 16
  BY <1>3
<1>5. /\ Pipeline[1] = "excessive" /\ Pipeline[2] = "readiness" /\ Pipeline[3] = "settlement_sim"
      /\ Pipeline[4] = "auth_sim" /\ Pipeline[5] = "rwa" /\ Pipeline[6] = "registry"
      /\ Pipeline[7] = "peg" /\ Pipeline[8] = "backing" /\ Pipeline[9] = "dex"
      /\ Pipeline[10] = "payee_syntax" /\ Pipeline[11] = "payto" /\ Pipeline[12] = "holder"
      /\ Pipeline[13] = "aave" /\ Pipeline[14] = "honeypot" /\ Pipeline[15] = "issuer_trust"
      /\ Pipeline[16] = "aggregate"
  BY DEF Pipeline
<1> QED
  BY <1>1, <1>4, <1>5, Zenon

\* From a fold the request goes on to the next one, and from the last to the signature.
LEMMA AfterIsNext ==
    ASSUME NEW s \in DOMAIN Needs
    PROVE  /\ Position(s) \in 1 .. 16
           /\ \/ s = "aggregate" /\ After(s) = "sign"
              \/ /\ s # "aggregate"
                 /\ After(s) \in DOMAIN Needs
                 /\ Position(After(s)) = Position(s) + 1
<1>1. Position(s) \in 1 .. 16 /\ (s # "aggregate" <=> Position(s) \in 1 .. 15)
  BY Places DEF Needs
<1>2. CASE s = "aggregate"
  BY <1>1, <1>2, Places DEF After
<1>3. CASE s # "aggregate"
  <2>1. Position(s) \in 1 .. 15
    BY <1>1, <1>3
  <2>2. After(s) = Pipeline[Position(s) + 1]
    BY <2>1, Places DEF After
  <2>3. \A i \in 2 .. 16 : Pipeline[i] \in DOMAIN Needs /\ Position(Pipeline[i]) = i
    BY Places DEF Pipeline, Needs
  <2>4. Position(s) + 1 \in 2 .. 16
    BY <2>1
  <2> QED
    BY <1>1, <1>3, <2>2, <2>3, <2>4
<1> QED
  BY <1>2, <1>3

-----------------------------------------------------------------------------
(* The answer explained: the inductive invariant *)

Grades == {IsBad[key] : key \in Keys}

\* The folds at or ahead of stage have not run.
Ahead(key) == stage = "lookup" \/ (stage \in DOMAIN Needs /\ Position(stage) <= Position(key))

\* A signal is what its fold was told, once, and a fold about an acquired asset tells
\* nothing of a request that acquires none.
Advised ==
    /\ signals \in [Keys -> Grades \cup {None}]
    /\ stage = "lookup" => adverse = {} /\ asset = {}
    /\ \A key \in DOMAIN Advisory :
          /\ signals[key] = IsBad[key] <=> IsBad[key] \in adverse \cap Agreeing
          /\ Ahead(key) => IsBad[key] \notin adverse
          /\ "acquires" \notin request => IsBad[key] \notin adverse
    /\ "acquires" \notin request => asset = {}

Cleared == base = "GO" /\ adverse \cap Blocking = {}

\* Up to the aggregate a GO says that no blocking grade has come; behind it, that two
\* advisory ones have not agreed either.
Explained ==
    /\ verdict # None =>
          /\ verdict = "STOP" <=> base = "STOP"
          /\ stage \in DOMAIN Needs => (verdict = "GO" <=> Cleared)
          /\ stage \in {"sign", "log", "record", "done"} =>
                (verdict = "GO" <=> Cleared /\ Cardinality(adverse \cap Agreeing) < 2)
    /\ answer \in Verdicts => answer = verdict /\ stage = "done"

IInv == Inv /\ TypeOK /\ Advised /\ Explained /\ DecisionSound

LEMMA StagesApart ==
    /\ "excessive" \in DOMAIN Needs /\ "aggregate" \in DOMAIN Needs
    /\ DOMAIN Needs \cap {"lookup", "sign", "log", "record", "done"} = {}
    /\ None \notin Verdicts /\ "error" \notin Verdicts
    /\ Pipeline[1] = "excessive"
  BY DEF Needs, None, Verdicts, Pipeline

LEMMA GradesApart ==
    /\ \A key \in DOMAIN Advisory : key \in Keys /\ IsBad[key] \in Grades /\ IsBad[key] # None
    /\ \A key, l \in DOMAIN Advisory : IsBad[key] = IsBad[l] => key = l
    /\ {IsBad[key] : key \in DOMAIN Advisory} = {"concentrated", "frozen", "low"}
    /\ Agreeing \subseteq {"concentrated", "frozen", "low"}
    /\ Blocking \cap {"concentrated", "frozen", "low"} = {}
    /\ None \notin Blocking /\ None \notin Agreeing
    /\ DOMAIN Advisory = {"holder", "aave", "issuer_trust"}
    /\ IsBad["holder"] = "concentrated" /\ IsBad["aave"] = "frozen" /\ IsBad["issuer_trust"] = "low"
<1>1. DOMAIN Advisory = {"holder", "aave", "issuer_trust"}
  BY DEF Advisory
<1>2. IsBad["holder"] = "concentrated" /\ IsBad["aave"] = "frozen" /\ IsBad["issuer_trust"] = "low"
  BY DEF IsBad
<1>3. Agreeing \subseteq {"concentrated", "frozen", "low"} /\ None \notin Agreeing
  BY DEF Agreeing, None
<1>4. Blocking \cap {"concentrated", "frozen", "low"} = {} /\ None \notin Blocking
  BY DEF Blocking, None
<1>5. \A key \in DOMAIN Advisory : key \in Keys /\ IsBad[key] \in Grades /\ IsBad[key] # None
  BY <1>1, <1>2 DEF Keys, Grades, None
<1>6. \A key, l \in DOMAIN Advisory : IsBad[key] = IsBad[l] => key = l
  BY <1>1, <1>2
<1>7. {IsBad[key] : key \in DOMAIN Advisory} = {"concentrated", "frozen", "low"}
  BY <1>1, <1>2
<1> QED
  BY <1>1, <1>2, <1>3, <1>4, <1>5, <1>6, <1>7

\* Two advisory signals are concerns exactly when two advisory grades came in.
LEMMA ConcernsAreGrades ==
    ASSUME Advised
    PROVE  /\ IsFiniteSet(adverse \cap Agreeing)
           /\ Collective <=> ~(Cardinality(adverse \cap Agreeing) < 2)
<1> DEFINE C == Concerns \cap DOMAIN Advisory
           A == adverse \cap Agreeing
<1>1. \A key \in DOMAIN Advisory : key \in C <=> IsBad[key] \in A
  BY GradesApart DEF Concerns, Advised
<1>2. \A g \in A : \E key \in DOMAIN Advisory : g = IsBad[key]
  BY GradesApart
<1>3. C \in SUBSET DOMAIN Advisory
  OBVIOUS
<1>4. IsFiniteSet(A)
  <2>1. IsFiniteSet(({"concentrated"} \cup {"frozen"}) \cup {"low"})
    BY FS_Singleton, FS_AddElement
  <2>2. A \subseteq ({"concentrated"} \cup {"frozen"}) \cup {"low"}
    BY GradesApart
  <2> QED
    BY <2>1, <2>2, FS_Subset
<1> HIDE DEF C, A
<1>5. IsFiniteSet(C)
  BY <1>3, AdvisorySize
<1>6. (\A x, y \in C : x = y) <=> (\A x, y \in A : x = y)
  BY <1>1, <1>2, <1>3, GradesApart
<1>7. Cardinality(C) < 2 <=> Cardinality(A) < 2
  BY <1>4, <1>5, <1>6, FewerThanTwo
<1> QED
  BY <1>4, <1>7, CollectiveIsTwo DEF C, A

-----------------------------------------------------------------------------
(* The answer explained: the steps *)

\* What a fold's module in the code decides of its grade: the blocking ones gate, an
\* advisory one is recorded when it counts, and no other fold gives an advisory grade.
Rules(s, grade, gates, recorded) ==
    /\ s # "aggregate"
    /\ gates <=> grade \in Blocking
    /\ s \in Keys => recorded \in {IsBad[s], None}
    /\ s \in DOMAIN Advisory =>
          grade \in {IsBad[s], None} /\ recorded = IF grade \in Agreeing THEN grade ELSE None
    /\ s \notin DOMAIN Advisory => grade \notin {"concentrated", "frozen", "low"}

\* The advisory folds, and the registry, are of an acquired asset.
LEMMA AboutAnAsset ==
    ASSUME TypeOK, Advised, NEW s \in DOMAIN Advisory \cup {"registry"}, Applies(s)
    PROVE  "acquires" \in request
<1>1. "acquires" \notin Sources \cup AssetFields /\ "issuer" \notin Sources \cup Fields
  BY DEF Sources, FailOpen, AssetFields, Fields
<1>2. wired \subseteq Sources /\ asset \subseteq AssetFields /\ request \subseteq Fields
  BY DEF TypeOK
<1>3. CASE s \in {"holder", "aave", "registry"}
  <2>1. "acquires" \in Needs[s]
    BY <1>3 DEF Needs
  <2> QED
    BY <1>1, <1>2, <2>1 DEF Applies
<1>4. CASE s = "issuer_trust"
  <2>1. "issuer" \in Needs[s]
    BY <1>4 DEF Needs
  <2>2. "issuer" \in asset
    BY <1>1, <1>2, <2>1 DEF Applies
  <2> QED
    BY <2>2 DEF Advised
<1> QED
  BY <1>3, <1>4, GradesApart

LEMMA FoldExplains ==
    ASSUME IInv, NEW s \in DOMAIN Needs, NEW grade, NEW gates, NEW recorded,
           Fold(s, grade, gates, recorded), Rules(s, grade, gates, recorded),
           asset' = asset \/ (s = "registry" /\ asset' \subseteq AssetFields)
    PROVE  TypeOK' /\ Advised' /\ Explained' /\ DecisionSound'
<1>1. /\ stage = s /\ Applies(s)
      /\ verdict' = Escalate(verdict, gates)
      /\ adverse' = adverse \cup ({grade} \ {None})
      /\ facts' = {} /\ stage' = After(s)
      /\ UNCHANGED <<wired, locks, request, hard_stop, rwa_risk, receipt, rwaRow,
                     ledgerRow, answer, base>>
  BY DEF Fold
<1>2. signals' = IF s \in Keys THEN [signals EXCEPT ![s] = recorded] ELSE signals
  BY DEF Fold
<1>3. TypeOK /\ Advised /\ Explained /\ Inv
  BY DEF IInv
<1>4. /\ stage' \in DOMAIN Needs /\ Position(stage') = Position(s) + 1 /\ Position(s) \in 1 .. 16
  BY <1>1, AfterIsNext DEF Rules
<1>5. Blocking' = Blocking /\ Agreeing' = Agreeing
  BY <1>1 DEF Blocking, Agreeing
<1>6. \A key \in Keys : signals'[key] = IF key = s THEN recorded ELSE signals[key]
  BY <1>2, <1>3 DEF Advised
<1>7. signals' \in [Keys -> Grades \cup {None}]
  <2>1. s \in Keys => recorded \in Grades \cup {None}
    BY DEF Rules, Grades
  <2> QED
    BY <1>2, <1>3, <2>1 DEF Advised
<1>8. TypeOK'
  <2>1. \A key \in Keys : signals'[key] \in {IsBad[key], None}
    BY <1>3, <1>6 DEF TypeOK, Rules
  <2>2. asset' \subseteq AssetFields
    BY <1>3 DEF TypeOK
  <2>3. verdict' \in Verdicts \cup {None}
    BY <1>1, <1>3 DEF TypeOK, Escalate, Verdicts
  <2> QED
    BY <1>1, <1>3, <1>4, <2>1, <2>2, <2>3 DEF TypeOK
<1>9. \A key \in DOMAIN Advisory : IsBad[key] \in adverse' <=>
                                      IsBad[key] \in adverse \/ (key = s /\ grade = IsBad[key])
  <2>1. \A key \in DOMAIN Advisory : grade = IsBad[key] => key = s
    BY GradesApart DEF Rules
  <2> QED
    BY <1>1, <2>1, GradesApart
<1>10. ASSUME NEW key \in DOMAIN Advisory
       PROVE  /\ signals'[key] = IsBad[key] <=> IsBad[key] \in adverse' \cap Agreeing
              /\ Ahead(key)' => IsBad[key] \notin adverse'
              /\ "acquires" \notin request => IsBad[key] \notin adverse'
  <2>1. /\ signals[key] = IsBad[key] <=> IsBad[key] \in adverse \cap Agreeing
        /\ Ahead(key) => IsBad[key] \notin adverse
        /\ "acquires" \notin request => IsBad[key] \notin adverse
    BY <1>3 DEF Advised
  <2>2. key = s => Ahead(key)
    BY <1>1, <1>4 DEF Ahead
  <2>3. key = s => "acquires" \in request
    BY <1>1, <1>3, AboutAnAsset
  <2>4. Ahead(key)' => key # s /\ Ahead(key)
    <3>1. Ahead(key)' => Position(s) + 1 <= Position(key)
      BY <1>4, StagesApart DEF Ahead
    <3>2. key \in DOMAIN Needs
      BY GradesApart DEF Needs
    <3>3. Position(key) \in 1 .. 16
      BY <3>2, AfterIsNext
    <3> QED
      BY <1>1, <1>4, <3>1, <3>3 DEF Ahead
  <2>5. signals'[key] = IsBad[key] <=> IsBad[key] \in adverse' \cap Agreeing
    <3>1. CASE key = s
      BY <1>6, <1>9, <2>1, <2>2, <3>1, GradesApart DEF Rules
    <3>2. CASE key # s
      BY <1>6, <1>9, <2>1, <3>2, GradesApart
    <3> QED
      BY <3>1, <3>2
  <2> QED
    BY <1>9, <2>1, <2>3, <2>4, <2>5
<1>11. Advised'
  <2>1. "acquires" \notin request => asset' = {}
    BY <1>1, <1>3, AboutAnAsset DEF Advised
  <2>2. stage' # "lookup"
    BY <1>4, StagesApart
  <2> QED
    BY <1>1, <1>5, <1>7, <1>10, <2>1, <2>2 DEF Advised
<1>12. Explained'
  <2>1. Cleared' <=> Cleared /\ ~gates
    BY <1>1, <1>5, GradesApart DEF Cleared, Rules
  <2>2. stage' \notin {"sign", "log", "record", "done"} /\ stage \notin {"lookup", "done"}
    BY <1>1, <1>4, StagesApart
  <2>3. answer' \notin Verdicts
    BY <1>1, <1>3, <2>2 DEF Explained
  <2>4. verdict' # None => verdict # None /\ (verdict' = "GO" <=> verdict = "GO" /\ ~gates)
                           /\ (verdict' = "STOP" <=> verdict = "STOP")
    <3>1. CASE gates /\ verdict = "GO"
      BY <1>1, <3>1 DEF Escalate, None
    <3>2. CASE ~(gates /\ verdict = "GO")
      BY <1>1, <3>2 DEF Escalate, None
    <3> QED
      BY <3>1, <3>2
  <2>5. verdict # None => (verdict = "GO" <=> Cleared) /\ (verdict = "STOP" <=> base = "STOP")
    BY <1>1, <1>3 DEF Explained
  <2> QED
    BY <1>1, <2>1, <2>2, <2>3, <2>4, <2>5 DEF Explained
<1>13. DecisionSound'
  <2>1. stage' # Pipeline[1]
    BY <1>4, Places, StagesApart
  <2> QED
    BY <2>1 DEF DecisionSound
<1> QED
  BY <1>8, <1>11, <1>12, <1>13

\* Every fold is of one of these rules.
LEMMA FoldsExplain ==
    ASSUME IInv,
           \/ Excessive \/ Readiness \/ SettlementSim \/ AuthSim
           \/ RwaReadiness \/ AssetRegistry \/ Peg \/ Backing \/ DexMarket
           \/ PayeeSyntax \/ PaytoBaseline \/ HolderConcentration \/ AaveReserve
           \/ Honeypot \/ IssuerTrust
    PROVE  TypeOK' /\ Advised' /\ Explained' /\ DecisionSound'
<1> DEFINE Ruled == \E s \in DOMAIN Needs : \E grade, gates, recorded :
                       /\ Fold(s, grade, gates, recorded) /\ Rules(s, grade, gates, recorded)
                       /\ asset' = asset \/ (s = "registry" /\ asset' \subseteq AssetFields)
<1>0. /\ DOMAIN Needs = {"excessive", "readiness", "settlement_sim", "auth_sim", "rwa", "registry",
                         "peg", "backing", "dex", "payee_syntax", "payto", "holder", "aave",
                         "honeypot", "issuer_trust", "aggregate"}
      /\ Keys = {"rwa", "backing", "dex", "peg", "registry", "holder", "aave", "issuer_trust"}
      /\ DOMAIN Advisory = {"holder", "aave", "issuer_trust"}
  BY DEF Needs, Keys, Strong, Advisory
<1>1. CASE Excessive
  <2>1. PICK g \in {None, "excessive"} :
           Fold("excessive", g, g = "excessive" /\ "EXCESSIVE_GATES" \in locks, None)
    BY <1>1 DEF Excessive
  <2>2. Rules("excessive", g, g = "excessive" /\ "EXCESSIVE_GATES" \in locks, None)
    BY <1>0, <2>1 DEF Rules, Blocking, None
  <2>3. Ruled
    BY <1>0, <1>1, <2>1, <2>2 DEF Excessive
  <2> QED
    BY <2>3, FoldExplains
<1>2. CASE Readiness
  <2>1. PICK g \in {None, "needs_work"} : Fold("readiness", g, g # None, None)
    BY <1>2 DEF Readiness
  <2>2. Rules("readiness", g, g # None, None)
    BY <1>0, <2>1 DEF Rules, Blocking, None
  <2>3. Ruled
    BY <1>0, <1>2, <2>1, <2>2 DEF Readiness
  <2> QED
    BY <2>3, FoldExplains
<1>3. CASE SettlementSim
  <2>1. PICK g \in {None, "party_blocked"} : Fold("settlement_sim", g, g # None, None)
    BY <1>3 DEF SettlementSim
  <2>2. Rules("settlement_sim", g, g # None, None)
    BY <1>0, <2>1 DEF Rules, Blocking, None
  <2>3. Ruled
    BY <1>0, <1>3, <2>1, <2>2 DEF SettlementSim
  <2> QED
    BY <2>3, FoldExplains
<1>4. CASE AuthSim
  <2>1. PICK g \in {None, "cannot_land"} : Fold("auth_sim", g, g # None, None)
    BY <1>4 DEF AuthSim
  <2>2. Rules("auth_sim", g, g # None, None)
    BY <1>0, <2>1 DEF Rules, Blocking, None
  <2>3. Ruled
    BY <1>0, <1>4, <2>1, <2>2 DEF AuthSim
  <2> QED
    BY <2>3, FoldExplains
<1>5. CASE RwaReadiness
  <2>1. PICK g \in {None, "blocked"} : Fold("rwa", g, g # None, g)
    BY <1>5 DEF RwaReadiness
  <2>2. Rules("rwa", g, g # None, g)
    BY <1>0, <2>1 DEF Rules, Blocking, IsBad, None
  <2>3. Ruled
    BY <1>0, <1>5, <2>1, <2>2 DEF RwaReadiness
  <2> QED
    BY <2>3, FoldExplains
<1>6. CASE AssetRegistry
  <2>1. PICK fields \in Assets \cup {{}}, g \in {None, "trading_halted"} :
           Fold("registry", g, g # None, g) /\ asset' = fields
    BY <1>6 DEF AssetRegistry
  <2>2. Rules("registry", g, g # None, g)
    BY <1>0, <2>1 DEF Rules, Blocking, IsBad, None
  <2>3. asset' \subseteq AssetFields
    BY <2>1, AssetsAssumption
  <2>4. Ruled
    BY <1>0, <2>1, <2>2, <2>3
  <2> QED
    BY <2>4, FoldExplains
<1>7. CASE Peg
  <2>1. PICK r \in {None, "edge", "over"} : Fold("peg", r, r = "over", Rounded(r))
    BY <1>7 DEF Peg
  <2>2. Rules("peg", r, r = "over", Rounded(r))
    BY <1>0, <2>1 DEF Rules, Blocking, IsBad, Rounded, None
  <2>3. Ruled
    BY <1>0, <1>7, <2>1, <2>2 DEF Peg
  <2> QED
    BY <2>3, FoldExplains
<1>8. CASE Backing
  <2>1. PICK g \in {None, "under_collateralized"} : Fold("backing", g, g # None, g)
    BY <1>8 DEF Backing
  <2>2. Rules("backing", g, g # None, g)
    BY <1>0, <2>1 DEF Rules, Blocking, IsBad, None
  <2>3. Ruled
    BY <1>0, <1>8, <2>1, <2>2 DEF Backing
  <2> QED
    BY <2>3, FoldExplains
<1>9. CASE DexMarket
  <2>1. PICK g \in {None, "off_peg"} : Fold("dex", g, g # None, None)
    BY <1>9 DEF DexMarket
  <2>2. Rules("dex", g, g # None, None)
    BY <1>0, <2>1 DEF Rules, Blocking, None
  <2>3. Ruled
    BY <1>0, <1>9, <2>1, <2>2 DEF DexMarket
  <2> QED
    BY <2>3, FoldExplains
<1>10. CASE PayeeSyntax
  <2>1. PICK g \in {None, "malformed"} : Fold("payee_syntax", g, g # None, None)
    BY <1>10 DEF PayeeSyntax
  <2>2. Rules("payee_syntax", g, g # None, None)
    BY <1>0, <2>1 DEF Rules, Blocking, None
  <2>3. Ruled
    BY <1>0, <1>10, <2>1, <2>2 DEF PayeeSyntax
  <2> QED
    BY <2>3, FoldExplains
<1>11. CASE PaytoBaseline
  <2>1. PICK g \in {None, "unexpected", "unexpected_stale"} : Fold("payto", g, PaytoGates(g), None)
    BY <1>11 DEF PaytoBaseline
  <2>2. Rules("payto", g, PaytoGates(g), None)
    BY <1>0, <2>1 DEF Rules, Blocking, PaytoGates, None
  <2>3. Ruled
    BY <1>0, <1>11, <2>1, <2>2 DEF PaytoBaseline
  <2> QED
    BY <2>3, FoldExplains
<1>12. CASE HolderConcentration
  <2>1. PICK g \in {None, "concentrated"} : Fold("holder", g, FALSE, g)
    BY <1>12 DEF HolderConcentration
  <2>2. Rules("holder", g, FALSE, g)
    BY <1>0, <2>1 DEF Rules, Blocking, Agreeing, IsBad, None
  <2>3. Ruled
    BY <1>0, <1>12, <2>1, <2>2 DEF HolderConcentration
  <2> QED
    BY <2>3, FoldExplains
<1>13. CASE AaveReserve
  <2>1. PICK g \in {None, "frozen"} : Fold("aave", g, FALSE, g)
    BY <1>13 DEF AaveReserve
  <2>2. Rules("aave", g, FALSE, g)
    BY <1>0, <2>1 DEF Rules, Blocking, Agreeing, IsBad, None
  <2>3. Ruled
    BY <1>0, <1>13, <2>1, <2>2 DEF AaveReserve
  <2> QED
    BY <2>3, FoldExplains
<1>14. CASE Honeypot
  <2> DEFINE gates(g) == g = "unsellable" \/ (g = "high_sell_tax" /\ "SELL_TAX_GATES" \in locks)
  <2>1. PICK g \in {None, "unsellable", "high_sell_tax"} : Fold("honeypot", g, gates(g), None)
    BY <1>14 DEF Honeypot
  <2>2. Rules("honeypot", g, gates(g), None)
    BY <1>0, <2>1 DEF Rules, Blocking, None
  <2>3. Ruled
    BY <1>0, <1>14, <2>1, <2>2 DEF Honeypot
  <2> QED
    BY <2>3, FoldExplains
<1>15. CASE IssuerTrust
  <2> DEFINE recorded(g) == IF "ISSUER_TRUST_GATES" \in locks THEN g ELSE None
  <2>1. PICK g \in {None, "low"} : Fold("issuer_trust", g, FALSE, recorded(g))
    BY <1>15 DEF IssuerTrust
  <2>2. Rules("issuer_trust", g, FALSE, recorded(g))
    BY <1>0, <2>1 DEF Rules, Blocking, Agreeing, IsBad, None
  <2>3. Ruled
    BY <1>0, <1>15, <2>1, <2>2 DEF IssuerTrust
  <2> QED
    BY <2>3, FoldExplains
<1> QED
  BY <1>1, <1>2, <1>3, <1>4, <1>5, <1>6, <1>7, <1>8, <1>9, <1>10, <1>11, <1>12, <1>13, <1>14, <1>15

\* decide_payment's verdict from what it knew.
LEMMA DecideExplains ==
    ASSUME IInv, Decide
    PROVE  TypeOK' /\ Advised' /\ Explained' /\ DecisionSound'
<1>1. PICK down \in SUBSET (FailOpen \cap wired) :
         /\ verdict' = Decision(Known(down))
         /\ hard_stop' = (Known(down) \cap HardStops # {})
         /\ facts' = Known(down)
  BY DEF Decide
<1>2. /\ stage = "lookup" /\ base' = verdict' /\ stage' = "excessive"
      /\ UNCHANGED <<wired, locks, request, asset, signals, rwa_risk, receipt, rwaRow,
                     ledgerRow, answer, adverse>>
  BY StagesApart DEF Decide
<1>3. TypeOK /\ Advised /\ Explained
  BY DEF IInv
<1>4. facts' \subseteq Facts
  BY <1>1, <1>3 DEF Known, TypeOK
<1>5. verdict' \in Verdicts
  BY <1>1 DEF Decision, Verdicts
<1>6. TypeOK'
  BY <1>1, <1>2, <1>3, <1>4, <1>5, StagesApart DEF TypeOK
<1>7. adverse = {} /\ asset = {}
  BY <1>2, <1>3 DEF Advised
<1>8. Advised'
  BY <1>2, <1>3, <1>7 DEF Advised, Agreeing
<1>9. Explained'
  <2>1. Cleared' <=> base' = "GO"
    BY <1>2, <1>7 DEF Cleared
  <2>2. answer' \notin Verdicts
    BY <1>2, <1>3 DEF Explained
  <2> QED
    BY <1>2, <2>1, <2>2, StagesApart DEF Explained
<1>10. DecisionSound'
  <2> DEFINE known == facts'
  <2>1. /\ verdict' = IF Stops(known) THEN "STOP" ELSE IF Fired(known) = {} THEN "GO" ELSE "HOLD"
        /\ hard_stop' = (known \cap HardStops # {})
    BY <1>1 DEF Decision
  <2>2. verdict' = "GO" => ~Stops(known) /\ Fired(known) = {}
    BY <2>1
  <2>3. ASSUME verdict' = "GO"
        PROVE  /\ known \cap (HardStops \cup {"gouge"}) = {}
               /\ known \cap HoldGates # {} =>
                     /\ known \cap HoldGates \subseteq {"thin", "low_rep"}
                     /\ "badge" \in known /\ "disputes" \notin known
    <3>1. known \cap HardStops = {} /\ "gouge" \notin known
      BY <2>2, <2>3 DEF Stops, Fired
    <3>2. known \cap HoldGates \subseteq Waived(known)
      BY <2>2, <2>3 DEF Fired
    <3> QED
      BY <3>1, <3>2 DEF Waived
  <2>4. hard_stop' => verdict' = "STOP"
    BY <2>1 DEF Stops
  <2> HIDE DEF known
  <2>5. hard_stop' <=> known \cap HardStops # {}
    BY <2>1
  <2> QED
    BY <2>3, <2>4, <2>5 DEF DecisionSound, known
<1> QED
  BY <1>6, <1>8, <1>9, <1>10

\* The aggregate holds for two advisory grades that agree.
LEMMA AggregateExplains ==
    ASSUME IInv, Aggregate
    PROVE  TypeOK' /\ Advised' /\ Explained' /\ DecisionSound'
<1>1. /\ stage = "aggregate" /\ stage' = "sign"
      /\ rwa_risk' = Concerns /\ verdict' = Escalate(verdict, Collective)
      /\ UNCHANGED <<wired, locks, request, facts, hard_stop, asset, signals, receipt,
                     rwaRow, ledgerRow, answer, base, adverse>>
  <2>1. After("aggregate") = "sign"
    BY Places DEF After
  <2> QED
    BY <2>1 DEF Aggregate
<1>2. TypeOK /\ Advised /\ Explained
  BY DEF IInv
<1>3. Concerns \subseteq Keys
  BY DEF Concerns
<1>4. TypeOK'
  BY <1>1, <1>2, <1>3 DEF TypeOK, Escalate, Verdicts
<1>5. Advised'
  BY <1>1, <1>2 DEF Advised, Agreeing, Ahead, Needs
<1>6. Explained'
  <2>1. Collective <=> ~(Cardinality(adverse \cap Agreeing) < 2)
    BY <1>2, ConcernsAreGrades
  <2>2. answer' \notin Verdicts
    BY <1>1, <1>2 DEF Explained
  <2>3. verdict # None => (verdict = "GO" <=> Cleared) /\ (verdict = "STOP" <=> base = "STOP")
    BY <1>1, <1>2, StagesApart DEF Explained
  <2>4. verdict' # None => /\ verdict # None
                           /\ verdict' = "GO" <=> verdict = "GO" /\ ~Collective
                           /\ verdict' = "STOP" <=> verdict = "STOP"
    <3>1. CASE Collective /\ verdict = "GO"
      BY <1>1, <3>1 DEF Escalate, None
    <3>2. CASE ~(Collective /\ verdict = "GO")
      BY <1>1, <3>2 DEF Escalate, None
    <3> QED
      BY <3>1, <3>2
  <2>5. Cleared' = Cleared /\ Agreeing' = Agreeing
    BY <1>1 DEF Cleared, Blocking, Agreeing
  <2> QED
    BY <1>1, <2>1, <2>2, <2>3, <2>4, <2>5, StagesApart DEF Explained
<1>7. DecisionSound'
  BY <1>1, StagesApart DEF DecisionSound
<1> QED
  BY <1>4, <1>5, <1>6, <1>7

\* A fold that is passed over tells nothing; so does the aggregate of no asset.
LEMMA SkipExplains ==
    ASSUME IInv, Skip
    PROVE  TypeOK' /\ Advised' /\ Explained' /\ DecisionSound'
<1>1. /\ stage \in DOMAIN Needs /\ ~Applies(stage) /\ stage' = After(stage)
      /\ UNCHANGED <<wired, locks, request, facts, verdict, hard_stop, asset, signals,
                     rwa_risk, receipt, rwaRow, ledgerRow, answer, base, adverse>>
  BY DEF Skip
<1>2. TypeOK /\ Advised /\ Explained
  BY DEF IInv
<1>3. /\ Position(stage) \in 1 .. 16
      /\ \/ stage = "aggregate" /\ stage' = "sign"
         \/ stage' \in DOMAIN Needs /\ Position(stage') = Position(stage) + 1
  BY <1>1, AfterIsNext
<1>4. Agreeing' = Agreeing /\ Blocking' = Blocking
  BY <1>1 DEF Agreeing, Blocking
<1>5. TypeOK'
  BY <1>1, <1>2, <1>3 DEF TypeOK
<1>6. ASSUME NEW key \in DOMAIN Advisory, Ahead(key)' PROVE Ahead(key)
  <2>1. stage' \in DOMAIN Needs /\ Position(stage) + 1 <= Position(key)
    BY <1>3, <1>6, StagesApart DEF Ahead
  <2>2. Position(key) \in 1 .. 16
    <3>1. key \in DOMAIN Needs
      BY GradesApart DEF Needs
    <3> QED
      BY <3>1, AfterIsNext
  <2> QED
    BY <1>1, <1>3, <2>1, <2>2 DEF Ahead
<1>7. stage' # "lookup"
  BY <1>3, StagesApart
<1>8. Advised'
  BY <1>1, <1>2, <1>4, <1>6, <1>7 DEF Advised
<1>9. Explained'
  <2>1. Cleared' = Cleared
    BY <1>1, <1>4 DEF Cleared
  <2>2. verdict # None => (verdict = "GO" <=> Cleared) /\ (verdict = "STOP" <=> base = "STOP")
    BY <1>1, <1>2 DEF Explained
  <2>3. answer' \notin Verdicts
    BY <1>1, <1>2, StagesApart DEF Explained
  <2>4. CASE stage' \in DOMAIN Needs
    BY <1>1, <2>1, <2>2, <2>3, <2>4, StagesApart DEF Explained
  <2>5. CASE stage = "aggregate" /\ stage' = "sign"
    <3>1. "acquires" \notin request
      BY <1>1, <2>5 DEF Applies, Needs
    <3>2. \A key \in DOMAIN Advisory : IsBad[key] \notin adverse
      BY <1>2, <3>1 DEF Advised
    <3>3. adverse \cap Agreeing = {}
      <4>1. \A g \in Agreeing : \E key \in DOMAIN Advisory : g = IsBad[key]
        BY GradesApart
      <4> QED
        BY <3>2, <4>1
    <3>4. Cardinality(adverse \cap Agreeing) < 2
      BY <3>3, FS_EmptySet
    <3> QED
      BY <1>1, <1>4, <2>1, <2>2, <2>3, <2>5, <3>4, StagesApart DEF Explained
  <2> QED
    BY <1>3, <2>4, <2>5
<1>10. DecisionSound'
  <2>1. stage' # Pipeline[1]
    BY <1>3, Places, StagesApart
  <2> QED
    BY <2>1 DEF DecisionSound
<1> QED
  BY <1>5, <1>8, <1>9, <1>10

\* From the signature on, the verdict stays and becomes the answer.
LEMMA EndExplains ==
    ASSUME IInv, Refuse \/ Sign \/ LogRwa \/ Record \/ RecordFails \/ UNCHANGED vars
    PROVE  TypeOK' /\ Advised' /\ Explained' /\ DecisionSound'
<1>1. TypeOK /\ Advised /\ Explained /\ DecisionSound /\ Judged
  BY DEF IInv, Inv
<1>2. UNCHANGED <<wired, locks, request, verdict, hard_stop, asset, signals, rwa_risk, base, adverse>>
  BY DEF Refuse, Sign, LogRwa, Record, RecordFails, vars
<1>3. Agreeing' = Agreeing /\ Blocking' = Blocking /\ Cleared' = Cleared
  BY <1>2 DEF Agreeing, Blocking, Cleared
<1>4. CASE UNCHANGED vars
  BY <1>1, <1>3, <1>4 DEF vars, TypeOK, Advised, Ahead, Explained, DecisionSound
<1>5. CASE Refuse \/ Sign \/ LogRwa \/ Record \/ RecordFails
  <2>1. stage' \in {"log", "record", "done"} /\ stage \in {"lookup", "sign", "log", "record"}
    BY <1>5 DEF Refuse, Sign, LogRwa, Record, RecordFails
  <2>2. /\ facts' \subseteq Facts
        /\ {receipt', rwaRow', ledgerRow'} \subseteq Verdicts \cup {None}
        /\ answer' \in Verdicts \cup {None, "error"}
    BY <1>1, <1>5 DEF Refuse, Sign, LogRwa, Record, RecordFails, TypeOK
  <2>3. TypeOK'
    BY <1>1, <1>2, <2>1, <2>2 DEF TypeOK
  <2>4. stage' \notin DOMAIN Needs /\ stage' # "lookup" /\ stage' # Pipeline[1]
    BY <2>1, StagesApart
  <2>5. Advised'
    BY <1>1, <1>2, <1>3, <2>4 DEF Advised, Ahead
  <2>6. answer' \in Verdicts => answer' = verdict' /\ stage' = "done"
    BY <1>1, <1>5, <2>1, StagesApart
    DEF Refuse, Sign, LogRwa, Record, RecordFails, Explained
  <2>7. verdict # None => stage \in {"sign", "log", "record", "done"}
    BY <1>1, <2>1 DEF Judged
  <2>8. Explained'
    BY <1>1, <1>2, <1>3, <2>4, <2>6, <2>7 DEF Explained
  <2> QED
    BY <2>3, <2>4, <2>5, <2>8 DEF DecisionSound
<1> QED
  BY <1>4, <1>5

LEMMA IInvHolds == Spec => []IInv
<1>1. Init => IInv
  <2> SUFFICES ASSUME Init PROVE IInv
    OBVIOUS
  <2>1. Inv
    BY DEF Init, Inv, Judged, Logged, RecordedAsAnswered, Verdicts, None
  <2>2. TypeOK
    <3>1. wired \subseteq Sources /\ locks \subseteq Locks /\ request \subseteq Fields /\ facts \subseteq Facts
      BY DeploymentsAssumption, LocksAssumption, RequestsAssumption, PaymentsAssumption DEF Init
    <3> QED
      BY <3>1 DEF Init, TypeOK
  <2>3. Advised
    <3>1. \A key \in DOMAIN Advisory : signals[key] # IsBad[key]
      BY GradesApart DEF Init
    <3> QED
      BY <3>1 DEF Init, Advised
  <2>4. Explained /\ DecisionSound
    BY StagesApart DEF Init, Explained, DecisionSound
  <2> QED
    BY <2>1, <2>2, <2>3, <2>4 DEF IInv
<1>2. IInv /\ [Next]_vars => IInv'
  <2> SUFFICES ASSUME IInv, [Next]_vars PROVE IInv'
    OBVIOUS
  <2>1. Inv'
    BY StepRaises DEF IInv
  <2>2. TypeOK' /\ Advised' /\ Explained' /\ DecisionSound'
    BY DecideExplains, FoldsExplain, AggregateExplains, SkipExplains, EndExplains DEF Next, Done
  <2> QED
    BY <2>1, <2>2 DEF IInv
<1> QED
  BY <1>1, <1>2, PTL DEF Spec

\* The types of the state forecast carries, whatever the server is wired with.
THEOREM ForecastTypes == Spec => []TypeOK
<1>1. IInv => TypeOK
  BY DEF IInv
<1> QED
  BY <1>1, IInvHolds, PTL

\* decide_payment's GO is earned, and its hard stop is a STOP, whatever is true of the
\* payment and whichever sources fail.
THEOREM DecisionIsSound == Spec => []DecisionSound
<1>1. IInv => DecisionSound
  BY DEF IInv
<1> QED
  BY <1>1, IInvHolds, PTL

\* The answer is decide_payment's verdict, held for a blocking grade or for two advisory
\* ones, whatever is wired, locked, asked or down.
THEOREM AnswerIsExplained == Spec => []AnswerExplained
<1>1. IInv => AnswerExplained
  <2> SUFFICES ASSUME IInv, answer \in Verdicts PROVE AnswerExplained
    BY DEF AnswerExplained
  <2>1. answer = verdict /\ stage = "done" /\ verdict # None
    BY StagesApart DEF IInv, Explained
  <2> QED
    BY <2>1 DEF IInv, Explained, Cleared, AnswerExplained
<1> QED
  BY <1>1, IInvHolds, PTL

-----------------------------------------------------------------------------
(* Billing.                                                                *)

(* The inductive invariant, in the order in which its parts are used.       *)

\* What a request carries follows from where it is.
JobShape ==
    \A t \in Threads :
       /\ job[t].pc \in {"verify", "reserve", "settle", "release"} => job[t].nonce \in Nonces
       /\ job[t].pc = "session" => job[t].sid \in Sids
       /\ job[t].pc = "open" => job[t].via = "payment"
       /\ job[t].via = "none" <=> job[t].pc \notin {"forecast", "open"}
       /\ job[t].via = "payment" => job[t].nonce \in Nonces
       /\ job[t].via = "session" => job[t].sid \in Sids /\ job[t].pc = "forecast"

Holds(t, n) == job[t].pc \in {"settle", "release"} /\ job[t].nonce = n

\* A reserved nonce is held by one request until its settlement is decided.
Reserved ==
    /\ \A t \in Threads, n \in Nonces : Holds(t, n) => n \in seen
    /\ \A t \in Threads, u \in Threads, n \in Nonces : Holds(t, n) /\ Holds(u, n) => t = u

\* Where every settle answer arrives, no payment in hand has moved money.
Calm == ~ world.lossy /\ ~ world.restarts

Undisturbed ==
    Calm => /\ late = {}
            /\ \A t \in Threads, n \in Nonces : Holds(t, n) => captured[n] = 0

Owed(t, n) == job[t].via = "payment" /\ job[t].nonce = n

\* What the chain or the undisturbed nonce ledger guarantees.
Paid ==
    world.replayProof \/ Calm =>
      /\ OnePerPayment
      /\ \A t \in Threads, n \in Nonces : Owed(t, n) => captured[n] = 1 /\ given[n] = 0
      /\ \A t \in Threads, u \in Threads, n \in Nonces : Owed(t, n) /\ Owed(u, n) => t = u

\* No request is served on a session that was never sold.
Unsold ==
    \A s \in Sids : sessions[s].state = "fresh" =>
      sessions[s].credits = 0 /\ used[s] = 0 /\ OnSession(s) = {}

NonceInv == Reserved /\ NonceNotStranded /\ Undisturbed /\ ReleasedIsUnspent
BillingInv == BillingTypeOK /\ JobShape /\ NonceInv /\ Paid /\ CreditsConserved /\ Unsold

-----------------------------------------------------------------------------
(* Types *)

LEMMA RequestTypes ==
    ASSUME BillingTypeOK, JobShape, NEW t \in Threads, Request(t), world' = world
    PROVE  BillingTypeOK' /\ JobShape'
  <1> USE DEF BillingTypeOK, JobShape, Idle, Pcs, Vias
  <1>1. ASSUME NEW price \in Prices, NEW valid \in BOOLEAN, FreeRequest(t, price, valid)
        PROVE  BillingTypeOK' /\ JobShape'
    BY <1>1 DEF FreeRequest
  <1>2. ASSUME NEW price \in Prices, NEW valid \in BOOLEAN, NEW s \in Sids, SessionRequest(t, price, s, valid)
        PROVE  BillingTypeOK' /\ JobShape'
    BY <1>2 DEF SessionRequest
  <1>3. ASSUME NEW n \in Nonces, NEW buys \in {"verdict", "session"}, NEW valid \in BOOLEAN, Pay(t, n, buys, valid)
        PROVE  BillingTypeOK' /\ JobShape'
    BY <1>3 DEF Pay
  <1>4. ASSUME NEW price \in Prices, NEW valid \in BOOLEAN, NEW n \in Nonces, PaymentRequest(t, n, price, valid)
        PROVE  BillingTypeOK' /\ JobShape'
    BY <1>3, <1>4 DEF PaymentRequest
  <1>5. ASSUME NEW n \in Nonces, BuySession(t, n)
        PROVE  BillingTypeOK' /\ JobShape'
    BY <1>3, <1>5 DEF BuySession
  <1> QED
    BY <1>1, <1>2, <1>4, <1>5 DEF Request

\* A request in the gate's hands moves on.
LEMMA GoTypes ==
    ASSUME BillingTypeOK, JobShape, NEW t \in Threads, NEW q \in {"reserve", "release"}, Go(t, q),
           job[t].pc \in {"verify", "settle"},
           UNCHANGED <<seen, sessions, now, captured, late, given, used, unanswered, world>>
    PROVE  BillingTypeOK' /\ JobShape'
  <1>1. job[t].nonce \in Nonces /\ job[t].via = "none"
    BY DEF JobShape
  <1>2. job' \in [Threads -> [pc : Pcs, buys : {"verdict", "session"}, via : Vias,
                             nonce : Nonces \cup {"none"}, sid : Sids \cup {"none"}, valid : BOOLEAN]]
    BY DEF BillingTypeOK, Go, Pcs
  <1>3. /\ \A u \in Threads \ {t} : job'[u] = job[u]
        /\ job'[t].pc = q /\ job'[t].via = job[t].via /\ job'[t].nonce = job[t].nonce
    BY DEF BillingTypeOK, Go
  <1> QED
    BY <1>1, <1>2, <1>3 DEF BillingTypeOK, JobShape

LEMMA StepTypes ==
    ASSUME BillingTypeOK, JobShape, NEW t \in Threads, Step(t), world' = world
    PROVE  BillingTypeOK' /\ JobShape'
  <1> USE DEF BillingTypeOK, JobShape, Idle, Pcs, Vias, Go, Answer
  <1>1. CASE Consume(t)
    <2>1. job[t].sid \in Sids /\ sessions[job[t].sid].credits - 1 \in Nat
      BY <1>1 DEF Consume, Spendable
    <2> QED
      BY <1>1, <2>1 DEF Consume
  <1>2. CASE ConsumeRefused(t)
    BY <1>2 DEF ConsumeRefused, Session
  <1>3. CASE VerifyOk(t)
    BY <1>3, GoTypes DEF VerifyOk
  <1>4. CASE VerifyRejected(t)
    BY <1>4 DEF VerifyRejected
  <1>5. CASE Reserve(t)
    BY <1>5 DEF Reserve
  <1>6. CASE Replayed(t)
    BY <1>6 DEF Replayed
  <1>7. CASE SettleOk(t)
    BY <1>7 DEF SettleOk, Capture, Delivered
  <1>8. CASE SettleRejected(t)
    BY <1>8, GoTypes DEF SettleRejected
  <1>9. CASE SettleLost(t)
    BY <1>9 DEF SettleLost, Capture
  <1>10. CASE SettleTimesOut(t)
    BY <1>10 DEF SettleTimesOut
  <1>11. CASE Release(t)
    BY <1>11 DEF Release
  <1>12. CASE Serve(t)
    BY <1>12 DEF Serve
  <1>13. CASE ServeNothing(t)
    BY <1>13 DEF ServeNothing
  <1>14. ASSUME NEW s \in Sids, OpenSession(t, s) PROVE BillingTypeOK' /\ JobShape'
    BY <1>14, BillingAssumption DEF OpenSession, Session
  <1> QED
    BY <1>1, <1>2, <1>3, <1>4, <1>5, <1>6, <1>7, <1>8, <1>9, <1>10, <1>11, <1>12, <1>13, <1>14 DEF Step

LEMMA OtherTypes ==
    ASSUME BillingTypeOK, JobShape, world' = world,
           (\E n \in Nonces : LateSettle(n)) \/ Restart \/ Tick \/ UNCHANGED billingVars
    PROVE  BillingTypeOK' /\ JobShape'
  <1> USE DEF BillingTypeOK, JobShape, Idle, Pcs, Vias
  <1>1. CASE \E n \in Nonces : LateSettle(n)
    BY <1>1 DEF LateSettle, Capture
  <1>2. CASE Restart
    BY <1>2 DEF Restart, Session
  <1>3. CASE Tick
    BY <1>3 DEF Tick
  <1>4. CASE UNCHANGED billingVars
    BY <1>4 DEF billingVars
  <1> QED
    BY <1>1, <1>2, <1>3, <1>4

LEMMA NextTypes == ASSUME BillingTypeOK, JobShape, [BillingNext]_billingVars PROVE BillingTypeOK' /\ JobShape' /\ world' = world
  BY RequestTypes, StepTypes, OtherTypes DEF BillingNext, billingVars

-----------------------------------------------------------------------------
(* The nonce ledger *)

LEMMA InHandHolds == \A n : InHand(n) <=> \E t \in Threads : Holds(t, n)
  BY DEF InHand, Holds

\* A step that neither takes a nonce in hand nor lets one go.
LEMMA SameHolders ==
    ASSUME NonceInv, UNCHANGED <<seen, captured, late, world>>,
           \A u \in Threads, n \in Nonces : Holds(u, n)' <=> Holds(u, n),
           BillingTypeOK
    PROVE  NonceInv'
  <1>1. Reserved'
    BY DEF NonceInv, Reserved
  <1>2. NonceNotStranded'
    BY DEF NonceInv, NonceNotStranded, InHand, Holds, BillingTypeOK
  <1>3. Undisturbed' /\ ReleasedIsUnspent'
    BY DEF NonceInv, Undisturbed, ReleasedIsUnspent, Calm
  <1> QED
    BY <1>1, <1>2, <1>3 DEF NonceInv

LEMMA RequestNonces ==
    ASSUME BillingTypeOK, NonceInv, NEW t \in Threads, Request(t), world' = world
    PROVE  NonceInv'
  <1>1. /\ UNCHANGED <<seen, captured, late>>
        /\ job[t].pc = "idle" /\ job'[t].pc \in {"forecast", "session", "verify"}
        /\ \A u \in Threads \ {t} : job'[u] = job[u]
    <2>1. CASE \E price \in Prices, valid \in BOOLEAN : FreeRequest(t, price, valid)
      BY <2>1 DEF FreeRequest, Idle, BillingTypeOK
    <2>2. CASE \E price \in Prices, valid \in BOOLEAN, s \in Sids : SessionRequest(t, price, s, valid)
      BY <2>2 DEF SessionRequest, Idle, BillingTypeOK
    <2>3. CASE \E n \in Nonces, buys \in {"verdict", "session"}, valid \in BOOLEAN :
                 job[t].pc = "idle" /\ Pay(t, n, buys, valid)
      BY <2>3 DEF Pay, Idle, BillingTypeOK
    <2> QED
      BY <2>1, <2>2, <2>3 DEF Request, PaymentRequest, BuySession
  <1>2. \A u \in Threads, n \in Nonces : Holds(u, n)' <=> Holds(u, n)
    BY <1>1 DEF Holds
  <1> QED
    BY <1>1, <1>2, SameHolders

LEMMA HandlerNonces ==
    ASSUME BillingTypeOK, JobShape, NonceInv, NEW t \in Threads, world' = world,
           \/ Consume(t) \/ ConsumeRefused(t) \/ VerifyOk(t) \/ VerifyRejected(t) \/ Replayed(t)
           \/ SettleRejected(t) \/ Serve(t) \/ ServeNothing(t) \/ \E s \in Sids : OpenSession(t, s)
    PROVE  NonceInv'
  <1> DEFINE Moved ==
               /\ UNCHANGED <<seen, captured, late>>
               /\ \A u \in Threads \ {t} : job'[u] = job[u]
               /\ \/ job[t].pc \notin {"settle", "release"} /\ job'[t].pc \notin {"settle", "release"}
                  \/ job[t].pc = "settle" /\ job'[t].pc = "release" /\ job'[t].nonce = job[t].nonce
  <1>1. ASSUME Consume(t) PROVE Moved
    BY <1>1 DEF Consume, BillingTypeOK
  <1>2. ASSUME ConsumeRefused(t) \/ VerifyRejected(t) \/ Replayed(t) PROVE Moved
    BY <1>2 DEF ConsumeRefused, VerifyRejected, Replayed, Answer, Idle, BillingTypeOK
  <1>3. ASSUME VerifyOk(t) \/ SettleRejected(t) PROVE Moved
    BY <1>3 DEF VerifyOk, SettleRejected, Go, BillingTypeOK
  <1>4. ASSUME Serve(t) \/ ServeNothing(t) PROVE Moved
    BY <1>4 DEF Serve, ServeNothing, Answer, Idle, BillingTypeOK
  <1>5. ASSUME \E s \in Sids : OpenSession(t, s) PROVE Moved
    BY <1>5 DEF OpenSession, Answer, Idle, BillingTypeOK
  <1>6. Moved
    BY <1>1, <1>2, <1>3, <1>4, <1>5
  <1>7. ASSUME NEW u \in Threads, NEW n \in Nonces PROVE Holds(u, n)' <=> Holds(u, n)
    <2>1. CASE u = t
      BY <1>6, <2>1 DEF Holds
    <2>2. CASE u # t
      BY <1>6, <2>2 DEF Holds
    <2> QED
      BY <2>1, <2>2
  <1> QED
    BY <1>6, <1>7, SameHolders

LEMMA ReserveNonces ==
    ASSUME BillingTypeOK, JobShape, NonceInv, NEW t \in Threads, Reserve(t), world' = world
    PROVE  NonceInv'
  <1> DEFINE m == job[t].nonce
  <1>1. /\ m \in Nonces \ seen /\ seen' = seen \cup {m} /\ UNCHANGED <<captured, late>>
        /\ ~ \E n \in Nonces : Holds(t, n)
    BY DEF Reserve, JobShape, Holds
  <1>2. \A u \in Threads, n \in Nonces : Holds(u, n)' <=> Holds(u, n) \/ (u = t /\ n = m)
    BY <1>1 DEF Reserve, Go, BillingTypeOK, Holds
  <1>3. Reserved'
    BY <1>1, <1>2 DEF NonceInv, Reserved
  <1>4. NonceNotStranded'
    <2> SUFFICES ASSUME NEW n \in seen' PROVE captured[n] > 0 \/ \E u \in Threads : Holds(u, n)'
      BY <1>1 DEF NonceNotStranded, InHand, Holds
    <2>1. CASE n = m
      BY <1>1, <1>2, <2>1
    <2>2. CASE n # m
      BY <1>1, <1>2, <2>2, InHandHolds DEF NonceInv, NonceNotStranded, BillingTypeOK
    <2> QED
      BY <2>1, <2>2
  <1>5. Undisturbed' /\ ReleasedIsUnspent'
    BY <1>1, <1>2 DEF NonceInv, Undisturbed, ReleasedIsUnspent, Calm, BillingTypeOK
  <1> QED
    BY <1>3, <1>4, <1>5 DEF NonceInv

\* The chain moved the money of n or it did not: what was captured only grows.
LEMMA CaptureGrows ==
    ASSUME BillingTypeOK, NEW n \in Nonces, Capture(n) \/ UNCHANGED captured
    PROVE  \A k \in Nonces : captured[k] > 0 => captured'[k] > 0
  BY DEF Capture, BillingTypeOK

LEMMA SettleOkNonces ==
    ASSUME BillingTypeOK, JobShape, NonceInv, NEW t \in Threads, SettleOk(t), world' = world
    PROVE  NonceInv'
  <1> DEFINE m == job[t].nonce
  <1>1. m \in Nonces /\ UNCHANGED <<seen, late>> /\ Capture(m) /\ Holds(t, m) /\ m \in seen
    BY DEF SettleOk, JobShape, NonceInv, Reserved, Holds
  <1>2. \A u \in Threads, n \in Nonces : Holds(u, n)' <=> Holds(u, n) /\ u # t
    BY DEF SettleOk, Delivered, BillingTypeOK, Holds
  <1>3. captured'[m] > 0 /\ \A n \in Nonces \ {m} : captured'[n] = captured[n]
    BY <1>1 DEF Capture, BillingTypeOK
  <1>4. Reserved'
    BY <1>1, <1>2 DEF NonceInv, Reserved
  <1>5. NonceNotStranded'
    <2> SUFFICES ASSUME NEW n \in seen PROVE captured'[n] > 0 \/ \E u \in Threads : Holds(u, n)'
      BY <1>1 DEF NonceNotStranded, InHand, Holds
    <2>1. n \in Nonces
      BY DEF BillingTypeOK
    <2>2. ASSUME n # m, NEW u \in Threads, Holds(u, n) PROVE Holds(u, n)'
      BY <1>1, <1>2, <2>1, <2>2 DEF Holds
    <2> QED
      BY <1>3, <2>1, <2>2, InHandHolds DEF NonceInv, NonceNotStranded
  <1>6. Undisturbed'
    BY <1>1, <1>2, <1>3 DEF NonceInv, Reserved, Undisturbed, Calm
  <1>7. ReleasedIsUnspent'
    BY <1>1, <1>3 DEF NonceInv, ReleasedIsUnspent
  <1> QED
    BY <1>4, <1>5, <1>6, <1>7 DEF NonceInv

LEMMA LossyNonces ==
    ASSUME BillingTypeOK, JobShape, NonceInv, NEW t \in Threads, SettleLost(t) \/ SettleTimesOut(t), world' = world
    PROVE  NonceInv'
  <1>1. ~ Calm /\ seen' = seen /\ job[t].nonce \in Nonces
    BY DEF SettleLost, SettleTimesOut, Calm, JobShape
  <1>2. \A u \in Threads, n \in Nonces : Holds(u, n)' <=> Holds(u, n)
    BY DEF SettleLost, SettleTimesOut, Go, BillingTypeOK, Holds
  <1>3. \A n \in Nonces : captured[n] > 0 => captured'[n] > 0
    BY <1>1, CaptureGrows DEF SettleLost, SettleTimesOut
  <1>4. Reserved'
    BY <1>1, <1>2 DEF NonceInv, Reserved
  <1>5. NonceNotStranded'
    BY <1>1, <1>2, <1>3, InHandHolds DEF NonceInv, NonceNotStranded, BillingTypeOK, InHand, Holds
  <1>6. Undisturbed' /\ ReleasedIsUnspent'
    BY <1>1 DEF Undisturbed, ReleasedIsUnspent, Calm
  <1> QED
    BY <1>4, <1>5, <1>6 DEF NonceInv

LEMMA ReleaseNonces ==
    ASSUME BillingTypeOK, JobShape, NonceInv, NEW t \in Threads, Release(t), world' = world
    PROVE  NonceInv'
  <1> DEFINE m == job[t].nonce
  <1>1. m \in Nonces /\ seen' = seen \ {m} /\ UNCHANGED <<captured, late>> /\ Holds(t, m)
    BY DEF Release, JobShape, Holds
  <1>2. \A u \in Threads, n \in Nonces : Holds(u, n)' <=> Holds(u, n) /\ u # t
    BY DEF Release, Answer, Idle, BillingTypeOK, Holds
  <1>3. \A u \in Threads, n \in Nonces : Holds(u, n)' => n # m
    BY <1>1, <1>2 DEF NonceInv, Reserved
  <1>4. Reserved'
    BY <1>1, <1>2, <1>3 DEF NonceInv, Reserved
  <1>5. NonceNotStranded'
    <2> SUFFICES ASSUME NEW n \in seen, n # m PROVE captured[n] > 0 \/ \E u \in Threads : Holds(u, n)'
      BY <1>1 DEF NonceNotStranded, InHand, Holds
    <2>1. n \in Nonces
      BY DEF BillingTypeOK
    <2>2. ASSUME NEW u \in Threads, Holds(u, n) PROVE Holds(u, n)'
      BY <1>1, <1>2, <2>1, <2>2 DEF Holds
    <2> QED
      BY <2>1, <2>2, InHandHolds DEF NonceInv, NonceNotStranded
  <1>6. Undisturbed'
    BY <1>1, <1>2 DEF NonceInv, Undisturbed, Calm
  <1>7. ReleasedIsUnspent'
    BY <1>1 DEF NonceInv, Undisturbed, ReleasedIsUnspent, Calm, BillingTypeOK
  <1> QED
    BY <1>4, <1>5, <1>6, <1>7 DEF NonceInv

LEMMA OtherNonces ==
    ASSUME BillingTypeOK, NonceInv, world' = world,
           (\E n \in Nonces : LateSettle(n)) \/ Restart \/ Tick \/ UNCHANGED billingVars
    PROVE  NonceInv'
  <1>1. ASSUME NEW n \in Nonces, LateSettle(n) PROVE NonceInv'
    <2>1. ~ Calm /\ UNCHANGED <<seen, job>> /\ (Capture(n) \/ UNCHANGED captured)
      BY <1>1 DEF LateSettle, NonceInv, Undisturbed
    <2>2. \A k \in Nonces : captured[k] > 0 => captured'[k] > 0
      BY <2>1, CaptureGrows
    <2> QED
      BY <2>1, <2>2 DEF NonceInv, Reserved, NonceNotStranded, Undisturbed, ReleasedIsUnspent, Calm,
                        Holds, InHand, BillingTypeOK
  <1>2. CASE Restart
    <2>1. ~ Calm /\ seen' = {} /\ \A u \in Threads, n \in Nonces : ~ Holds(u, n)'
      BY <1>2 DEF Restart, Calm, Idle, Holds
    <2> QED
      BY <2>1 DEF NonceInv, Reserved, NonceNotStranded, Undisturbed, ReleasedIsUnspent, Calm
  <1>3. CASE Tick \/ UNCHANGED billingVars
    BY <1>3, SameHolders DEF Tick, billingVars, Holds
  <1> QED
    BY <1>1, <1>2, <1>3

LEMMA NextNonces == ASSUME BillingTypeOK, JobShape, NonceInv, [BillingNext]_billingVars PROVE NonceInv'
  <1>1. world' = world
    BY DEF BillingNext, billingVars
  <1>2. ASSUME NEW t \in Threads, Step(t) PROVE NonceInv'
    BY <1>1, <1>2, HandlerNonces, ReserveNonces, SettleOkNonces, LossyNonces, ReleaseNonces DEF Step
  <1> QED
    BY <1>1, <1>2, RequestNonces, OtherNonces DEF BillingNext

-----------------------------------------------------------------------------
(* One capture and one delivery per payment *)

LEMMA SamePaid ==
    ASSUME Paid, UNCHANGED <<captured, given, world>>,
           \A u \in Threads, n \in Nonces : Owed(u, n)' => Owed(u, n)
    PROVE  Paid'
  BY DEF Paid, Calm, OnePerPayment

LEMMA RequestPaid ==
    ASSUME BillingTypeOK, Paid, NEW t \in Threads, Request(t), world' = world
    PROVE  Paid'
  <1>1. UNCHANGED <<captured, given>> /\ job'[t].via # "payment" /\ \A u \in Threads \ {t} : job'[u] = job[u]
    <2>1. CASE \E price \in Prices, valid \in BOOLEAN : FreeRequest(t, price, valid)
      BY <2>1 DEF FreeRequest, Idle, BillingTypeOK
    <2>2. CASE \E price \in Prices, valid \in BOOLEAN, s \in Sids : SessionRequest(t, price, s, valid)
      BY <2>2 DEF SessionRequest, Idle, BillingTypeOK
    <2>3. CASE \E n \in Nonces, buys \in {"verdict", "session"}, valid \in BOOLEAN :
                 job[t].pc = "idle" /\ Pay(t, n, buys, valid)
      BY <2>3 DEF Pay, Idle, BillingTypeOK
    <2> QED
      BY <2>1, <2>2, <2>3 DEF Request, PaymentRequest, BuySession
  <1>2. \A u \in Threads, n \in Nonces : Owed(u, n)' => Owed(u, n)
    BY <1>1 DEF Owed
  <1> QED
    BY <1>1, <1>2, SamePaid

LEMMA HandlerPaid ==
    ASSUME BillingTypeOK, JobShape, Paid, NEW t \in Threads, world' = world,
           \/ Consume(t) \/ ConsumeRefused(t) \/ VerifyOk(t) \/ VerifyRejected(t) \/ Reserve(t) \/ Replayed(t)
           \/ SettleRejected(t) \/ SettleTimesOut(t) \/ Release(t) \/ ServeNothing(t)
           \/ Serve(t) /\ job[t].via # "payment"
    PROVE  Paid'
  <1> DEFINE Unpaid ==
               /\ UNCHANGED <<captured, given>>
               /\ \A u \in Threads \ {t} : job'[u] = job[u]
               /\ job'[t].via = "payment" => job[t].via = "payment" /\ job'[t].nonce = job[t].nonce
  <1>1. ASSUME Consume(t) PROVE Unpaid
    BY <1>1 DEF Consume, BillingTypeOK
  <1>2. ASSUME ConsumeRefused(t) \/ VerifyRejected(t) \/ Replayed(t) PROVE Unpaid
    BY <1>2 DEF ConsumeRefused, VerifyRejected, Replayed, Answer, Idle, BillingTypeOK
  <1>3. ASSUME VerifyOk(t) \/ SettleRejected(t) PROVE Unpaid
    BY <1>3 DEF VerifyOk, SettleRejected, Go, BillingTypeOK
  <1>4. ASSUME Reserve(t) \/ SettleTimesOut(t) PROVE Unpaid
    BY <1>4 DEF Reserve, SettleTimesOut, Go, BillingTypeOK
  <1>5. ASSUME Release(t) \/ ServeNothing(t) PROVE Unpaid
    BY <1>5 DEF Release, ServeNothing, Answer, Idle, BillingTypeOK
  <1>6. ASSUME Serve(t), job[t].via # "payment" PROVE Unpaid
    BY <1>6 DEF Serve, Answer, Idle, BillingTypeOK
  <1>7. Unpaid
    BY <1>1, <1>2, <1>3, <1>4, <1>5, <1>6
  <1>8. ASSUME NEW u \in Threads, NEW n \in Nonces, Owed(u, n)' PROVE Owed(u, n)
    <2>1. CASE u = t
      BY <1>7, <1>8, <2>1 DEF Owed
    <2>2. CASE u # t
      BY <1>7, <1>8, <2>2 DEF Owed
    <2> QED
      BY <2>1, <2>2
  <1> QED
    BY <1>7, <1>8, SamePaid

\* What was owed is handed over.
LEMMA DeliveryPaid ==
    ASSUME BillingTypeOK, JobShape, Paid, NEW t \in Threads, world' = world,
           \/ Serve(t) /\ job[t].via = "payment"
           \/ \E s \in Sids : OpenSession(t, s)
    PROVE  Paid'
  <1> DEFINE m == job[t].nonce
  <1>1. job[t].via = "payment" /\ m \in Nonces /\ Owed(t, m)
    BY DEF JobShape, OpenSession, Owed
  <1>2. /\ captured' = captured /\ job' = [job EXCEPT ![t] = Idle]
        /\ given' = [given EXCEPT ![m] = IF given[m] = 2 THEN 2 ELSE given[m] + 1]
    BY <1>1 DEF Serve, OpenSession, Answer
  <1>3. /\ given'[m] = IF given[m] = 2 THEN 2 ELSE given[m] + 1
        /\ \A n \in Nonces \ {m} : given'[n] = given[n]
    BY <1>1, <1>2 DEF BillingTypeOK
  <1>4. \A u \in Threads, n \in Nonces : Owed(u, n)' => Owed(u, n) /\ u # t
    BY <1>2 DEF Idle, BillingTypeOK, Owed
  <1> SUFFICES ASSUME world.replayProof \/ Calm
               PROVE  /\ OnePerPayment'
                      /\ \A u \in Threads, n \in Nonces : Owed(u, n)' => captured'[n] = 1 /\ given'[n] = 0
                      /\ \A u \in Threads, v \in Threads, n \in Nonces : Owed(u, n)' /\ Owed(v, n)' => u = v
    BY DEF Paid, Calm
  <1>5. captured[m] = 1 /\ given[m] = 0
    BY <1>1 DEF Paid
  <1>6. OnePerPayment'
    BY <1>2, <1>3, <1>5 DEF Paid, OnePerPayment
  <1>7. ASSUME NEW u \in Threads, NEW n \in Nonces, Owed(u, n)' PROVE captured'[n] = 1 /\ given'[n] = 0
    <2>1. Owed(u, n) /\ n # m
      BY <1>1, <1>4, <1>7 DEF Paid
    <2> QED
      BY <1>2, <1>3, <2>1 DEF Paid
  <1>8. ASSUME NEW u \in Threads, NEW v \in Threads, NEW n \in Nonces, Owed(u, n)', Owed(v, n)' PROVE u = v
    BY <1>4, <1>8 DEF Paid
  <1> QED
    BY <1>6, <1>7, <1>8

\* Money moves for n, which nobody had captured; at most t comes to be owed for it.
LEMMA CapturePaid ==
    ASSUME BillingTypeOK, Paid, NEW t \in Threads, NEW m \in Nonces, Capture(m), UNCHANGED <<given, world>>,
           world.replayProof \/ Calm => captured[m] = 0,
           \A u \in Threads, n \in Nonces : Owed(u, n)' => Owed(u, n) \/ (u = t /\ n = m)
    PROVE  Paid'
  <1> SUFFICES ASSUME world.replayProof \/ Calm
               PROVE  /\ OnePerPayment'
                      /\ \A u \in Threads, n \in Nonces : Owed(u, n)' => captured'[n] = 1 /\ given'[n] = 0
                      /\ \A u \in Threads, v \in Threads, n \in Nonces : Owed(u, n)' /\ Owed(v, n)' => u = v
    BY DEF Paid, Calm
  <1>1. captured'[m] = 1 /\ \A n \in Nonces \ {m} : captured'[n] = captured[n]
    BY DEF Capture, BillingTypeOK
  <1>2. given[m] = 0 /\ \A u \in Threads : ~ Owed(u, m)
    BY DEF Paid, OnePerPayment, BillingTypeOK
  <1>3. OnePerPayment'
    BY <1>1, <1>2 DEF Paid, OnePerPayment
  <1>4. ASSUME NEW u \in Threads, NEW n \in Nonces, Owed(u, n)' PROVE captured'[n] = 1 /\ given'[n] = 0
    <2>1. CASE n = m
      BY <1>1, <1>2, <2>1
    <2>2. CASE n # m
      BY <1>1, <1>4, <2>2 DEF Paid
    <2> QED
      BY <2>1, <2>2
  <1>5. ASSUME NEW u \in Threads, NEW v \in Threads, NEW n \in Nonces, Owed(u, n)', Owed(v, n)' PROVE u = v
    BY <1>2, <1>5 DEF Paid
  <1> QED
    BY <1>3, <1>4, <1>5

LEMMA SettlePaid ==
    ASSUME BillingTypeOK, JobShape, NonceInv, Paid, NEW t \in Threads, SettleOk(t) \/ SettleLost(t), world' = world
    PROVE  Paid'
  <1> DEFINE m == job[t].nonce
  <1>1. m \in Nonces /\ Holds(t, m) /\ Capture(m) /\ given' = given /\ Capturable(m)
    BY DEF SettleOk, SettleLost, JobShape, Holds
  <1>2. world.replayProof \/ Calm => captured[m] = 0
    BY <1>1 DEF Capturable, NonceInv, Undisturbed
  <1>3. \A u \in Threads, n \in Nonces : Owed(u, n)' => Owed(u, n) \/ (u = t /\ n = m)
    <2>1. /\ \A u \in Threads \ {t} : job'[u] = job[u]
          /\ job'[t].nonce = m
      <3>1. CASE SettleOk(t)
        BY <3>1 DEF SettleOk, Delivered, BillingTypeOK
      <3>2. CASE SettleLost(t)
        BY <3>2 DEF SettleLost, Go, BillingTypeOK
      <3> QED
        BY <3>1, <3>2
    <2> QED
      BY <2>1 DEF Owed
  <1> QED
    BY <1>1, <1>2, <1>3, CapturePaid

LEMMA OtherPaid ==
    ASSUME BillingTypeOK, NonceInv, Paid, world' = world,
           (\E n \in Nonces : LateSettle(n)) \/ Restart \/ Tick \/ UNCHANGED billingVars
    PROVE  Paid'
  <1>1. ASSUME NEW n \in Nonces, LateSettle(n) PROVE Paid'
    <2>1. ~ Calm /\ UNCHANGED <<job, given>>
      BY <1>1 DEF LateSettle, NonceInv, Undisturbed
    <2>2. CASE ~ Capturable(n)
      BY <1>1, <2>1, <2>2, SamePaid DEF LateSettle, Owed
    <2>3. CASE Capturable(n)
      <3>1. CASE Threads = {}
        BY <1>1, <2>1, <2>3, <3>1 DEF LateSettle, Capturable, Capture, Paid, OnePerPayment, BillingTypeOK, Calm
      <3>2. ASSUME NEW t \in Threads PROVE Paid'
        BY <1>1, <2>1, <2>3, CapturePaid DEF LateSettle, Capturable, Owed
      <3> QED
        BY <3>1, <3>2
    <2> QED
      BY <2>2, <2>3
  <1>2. CASE Restart
    BY <1>2, SamePaid DEF Restart, Idle, Owed
  <1>3. CASE Tick \/ UNCHANGED billingVars
    BY <1>3, SamePaid DEF Tick, billingVars, Owed
  <1> QED
    BY <1>1, <1>2, <1>3

LEMMA NextPaid == ASSUME BillingTypeOK, JobShape, NonceInv, Paid, [BillingNext]_billingVars PROVE Paid'
  <1>1. world' = world
    BY DEF BillingNext, billingVars
  <1>2. ASSUME NEW t \in Threads, Step(t) PROVE Paid'
    BY <1>1, <1>2, HandlerPaid, DeliveryPaid, SettlePaid DEF Step
  <1> QED
    BY <1>1, <1>2, RequestPaid, OtherPaid DEF BillingNext

-----------------------------------------------------------------------------
(* Session credits *)

Spoken(s) == used[s] + sessions[s].credits + Cardinality(OnSession(s))

Credits == CreditsConserved /\ Unsold

LEMMA OnSessionIsFinite == \A s : IsFiniteSet(OnSession(s)) /\ Cardinality(OnSession(s)) \in Nat
  <1> TAKE s
  <1>1. OnSession(s) \in SUBSET Threads /\ IsFiniteSet(Threads)
    BY BillingAssumption DEF OnSession
  <1> QED
    BY <1>1, FS_Subset, FS_CardinalityType

\* CreditsConserved and Unsold speak of each session by itself.
CreditsOf(s) ==
    /\ Spoken(s) <= SessionCredits
    /\ sessions[s].state = "open" /\ s \notin unanswered => Spoken(s) = SessionCredits
    /\ sessions[s].state = "fresh" => sessions[s].credits = 0 /\ used[s] = 0 /\ OnSession(s) = {}

LEMMA CreditsByS == Credits <=> \A s \in Sids : CreditsOf(s)
  BY DEF Credits, CreditsConserved, Unsold, CreditsOf, Spoken

LEMMA CreditsBySAfter == Credits' <=> \A s \in Sids : CreditsOf(s)'
  BY DEF Credits, CreditsConserved, Unsold, CreditsOf, Spoken

\* A step that s does not notice.
LEMMA SameCredits ==
    ASSUME NEW s \in Sids, CreditsOf(s), sessions'[s] = sessions[s], used'[s] = used[s],
           OnSession(s)' = OnSession(s), unanswered \subseteq unanswered'
    PROVE  CreditsOf(s)'
  BY DEF CreditsOf, Spoken

LEMMA RequestCredits ==
    ASSUME BillingTypeOK, Credits, NEW t \in Threads, Request(t), JobShape
    PROVE  Credits'
  <1>1. /\ UNCHANGED <<sessions, used, unanswered>> /\ job'[t].via # "session" /\ job[t].via # "session"
        /\ \A u \in Threads \ {t} : job'[u] = job[u]
    <2>1. CASE \E price \in Prices, valid \in BOOLEAN : FreeRequest(t, price, valid)
      BY <2>1 DEF FreeRequest, Idle, BillingTypeOK, JobShape
    <2>2. CASE \E price \in Prices, valid \in BOOLEAN, s \in Sids : SessionRequest(t, price, s, valid)
      BY <2>2 DEF SessionRequest, Idle, BillingTypeOK, JobShape
    <2>3. CASE \E n \in Nonces, buys \in {"verdict", "session"}, valid \in BOOLEAN :
                 job[t].pc = "idle" /\ Pay(t, n, buys, valid)
      BY <2>3 DEF Pay, Idle, BillingTypeOK, JobShape
    <2> QED
      BY <2>1, <2>2, <2>3 DEF Request, PaymentRequest, BuySession
  <1>2. \A s \in Sids : OnSession(s)' = OnSession(s)
    BY <1>1 DEF OnSession
  <1> QED
    BY <1>1, <1>2, SameCredits, CreditsByS, CreditsBySAfter

LEMMA HandlerCredits ==
    ASSUME BillingTypeOK, JobShape, Credits, NEW t \in Threads,
           \/ VerifyOk(t) \/ VerifyRejected(t) \/ Reserve(t) \/ Replayed(t)
           \/ SettleOk(t) \/ SettleRejected(t) \/ SettleLost(t) \/ SettleTimesOut(t) \/ Release(t)
           \/ (Serve(t) \/ ServeNothing(t)) /\ job[t].via # "session"
    PROVE  Credits'
  <1> DEFINE Unnoticed ==
               /\ UNCHANGED <<sessions, used>> /\ unanswered \subseteq unanswered'
               /\ \A u \in Threads \ {t} : job'[u] = job[u]
               /\ job[t].via # "session" /\ job'[t].via # "session"
  <1>1. ASSUME VerifyOk(t) \/ SettleRejected(t) PROVE Unnoticed
    BY <1>1 DEF VerifyOk, SettleRejected, Go, BillingTypeOK, JobShape
  <1>2. ASSUME VerifyRejected(t) \/ Replayed(t) PROVE Unnoticed
    BY <1>2 DEF VerifyRejected, Replayed, Answer, Idle, BillingTypeOK, JobShape
  <1>3. ASSUME Reserve(t) \/ SettleTimesOut(t) \/ SettleLost(t) PROVE Unnoticed
    BY <1>3 DEF Reserve, SettleTimesOut, SettleLost, Go, BillingTypeOK, JobShape
  <1>4. ASSUME Release(t) PROVE Unnoticed
    BY <1>4 DEF Release, Answer, Idle, BillingTypeOK, JobShape
  <1>5. ASSUME SettleOk(t) PROVE Unnoticed
    BY <1>5 DEF SettleOk, Delivered, BillingTypeOK, JobShape
  <1>6. ASSUME Serve(t) \/ ServeNothing(t), job[t].via # "session" PROVE Unnoticed
    BY <1>6 DEF Serve, ServeNothing, Answer, Idle, BillingTypeOK
  <1>7. Unnoticed
    BY <1>1, <1>2, <1>3, <1>4, <1>5, <1>6
  <1>8. \A s \in Sids : OnSession(s)' = OnSession(s)
    BY <1>7 DEF OnSession
  <1> QED
    BY <1>7, <1>8, SameCredits, CreditsByS, CreditsBySAfter

LEMMA ConsumeCredits ==
    ASSUME BillingTypeOK, JobShape, Credits, NEW t \in Threads, Consume(t)
    PROVE  Credits'
  <1>0. PICK k \in Sids : k = job[t].sid
    BY DEF Consume, JobShape
  <1>1. /\ k \in Sids /\ sessions[k].state = "open" /\ sessions[k].credits \in Nat \ {0}
        /\ UNCHANGED <<used, unanswered>> /\ t \notin OnSession(k)
    BY <1>0 DEF Consume, Spendable, JobShape, BillingTypeOK, OnSession
  <1>2. /\ sessions'[k].state = "open" /\ sessions'[k].credits = sessions[k].credits - 1
        /\ \A s \in Sids \ {k} : sessions'[s] = sessions[s]
    BY <1>0, <1>1 DEF Consume, BillingTypeOK
  <1>3. /\ OnSession(k)' = OnSession(k) \cup {t}
        /\ \A s \in Sids \ {k} : OnSession(s)' = OnSession(s)
    <2>1. job'[t].pc = "forecast" /\ job'[t].via = "session" /\ job'[t].sid = k
                                 /\ job[t].pc = "session" /\ \A u \in Threads \ {t} : job'[u] = job[u]
      BY <1>0 DEF Consume, BillingTypeOK
    <2> QED
      BY <2>1 DEF OnSession
  <1>4. Cardinality(OnSession(k)') = Cardinality(OnSession(k)) + 1 /\ Cardinality(OnSession(k)) \in Nat
    BY <1>1, <1>3, OnSessionIsFinite, FS_AddElement
  <1>5. CreditsOf(k)'
    <2>1. Spoken(k)' = Spoken(k)
      <3>1. Spoken(k)' = used[k] + sessions'[k].credits + Cardinality(OnSession(k)')
        BY <1>1 DEF Spoken
      <3>2. used[k] \in Nat
        BY <1>1 DEF BillingTypeOK
      <3> QED
        BY <1>1, <1>2, <1>4, <3>1, <3>2 DEF Spoken
    <2> QED
      BY <1>1, <1>2, <2>1, CreditsByS DEF CreditsOf
  <1>6. \A s \in Sids \ {k} : CreditsOf(s)'
    BY <1>1, <1>2, <1>3, SameCredits, CreditsByS
  <1> QED
    BY <1>5, <1>6, CreditsBySAfter

LEMMA RefusedCredits ==
    ASSUME BillingTypeOK, JobShape, Credits, NEW t \in Threads, ConsumeRefused(t)
    PROVE  Credits'
  <1>0. PICK k \in Sids : k = job[t].sid
    BY DEF ConsumeRefused, JobShape
  <1>1. k \in Sids /\ UNCHANGED <<used, unanswered>> /\ \A s \in Sids \ {k} : sessions'[s] = sessions[s]
    BY <1>0 DEF ConsumeRefused, JobShape, BillingTypeOK
  <1>2. \A s \in Sids : OnSession(s)' = OnSession(s)
    BY DEF ConsumeRefused, Answer, Idle, BillingTypeOK, OnSession, JobShape
  <1>3. CASE sessions' = sessions
    BY <1>1, <1>2, <1>3, SameCredits, CreditsByS, CreditsBySAfter
  <1>4. CASE sessions'[k] = Session("gone", 0, 0)
    <2>1. sessions'[k].state = "gone" /\ sessions'[k].credits = 0 /\ sessions[k].credits \in Nat /\ used[k] \in Nat
      BY <1>1, <1>4 DEF Session, BillingTypeOK
    <2>2. Spoken(k)' = used[k] + 0 + Cardinality(OnSession(k)) /\ Cardinality(OnSession(k)) \in Nat
      BY <1>1, <1>2, <2>1, OnSessionIsFinite DEF Spoken
    <2>3. Spoken(k) <= SessionCredits /\ SessionCredits \in Nat
      BY <1>1, CreditsByS, BillingAssumption DEF CreditsOf
    <2>4. Spoken(k)' <= SessionCredits
      BY <2>1, <2>2, <2>3 DEF Spoken
    <2>5. CreditsOf(k)'
      BY <2>1, <2>4 DEF CreditsOf
    <2> QED
      BY <1>1, <1>2, <2>5, SameCredits, CreditsByS, CreditsBySAfter
  <1>5. sessions' = sessions \/ sessions'[k] = Session("gone", 0, 0)
    BY <1>0, <1>1 DEF ConsumeRefused, BillingTypeOK
  <1> QED
    BY <1>3, <1>4, <1>5

\* A session's request ends, with a verdict or without one.
LEMMA AnswerCredits ==
    ASSUME BillingTypeOK, JobShape, Credits, NEW t \in Threads, Serve(t) \/ ServeNothing(t), job[t].via = "session"
    PROVE  Credits'
  <1>0. PICK k \in Sids : k = job[t].sid
    BY DEF JobShape
  <1>1. k \in Sids /\ sessions' = sessions /\ unanswered \subseteq unanswered' /\ t \in OnSession(k)
    BY <1>0 DEF Serve, ServeNothing, JobShape, OnSession
  <1>2. /\ OnSession(k)' = OnSession(k) \ {t}
        /\ \A s \in Sids \ {k} : OnSession(s)' = OnSession(s)
    <2>1. job'[t].via # "session" /\ \A u \in Threads \ {t} : job'[u] = job[u]
      BY DEF Serve, ServeNothing, Answer, Idle, BillingTypeOK
    <2>2. \A s \in Sids \ {k} : t \notin OnSession(s)
      BY <1>0 DEF OnSession
    <2> QED
      BY <2>1, <2>2 DEF OnSession
  <1>3. /\ Cardinality(OnSession(k)') = Cardinality(OnSession(k)) - 1
        /\ Cardinality(OnSession(k)) \in Nat /\ Cardinality(OnSession(k)') \in Nat
    BY <1>1, <1>2, OnSessionIsFinite, FS_RemoveElement, FS_CardinalityType
  <1>4. used[k] \in Nat /\ sessions[k].credits \in Nat /\ SessionCredits \in Nat
    BY <1>1, BillingAssumption DEF BillingTypeOK
  <1>5. \A s \in Sids \ {k} : used'[s] = used[s]
    BY <1>0 DEF Serve, ServeNothing, BillingTypeOK
  <1>6. /\ Spoken(k)' = used'[k] + sessions[k].credits + Cardinality(OnSession(k)')
        /\ Spoken(k) = used[k] + sessions[k].credits + Cardinality(OnSession(k))
        /\ sessions[k].state # "fresh"
    BY <1>1, CreditsByS DEF Spoken, CreditsOf
  <1>7. CASE Serve(t)
    <2>1. used'[k] = used[k] + 1 /\ unanswered' = unanswered
      BY <1>0, <1>1, <1>7 DEF Serve, BillingTypeOK
    <2>2. Spoken(k)' = Spoken(k)
      BY <1>3, <1>4, <1>6, <2>1
    <2>3. CreditsOf(k)'
      BY <1>1, <1>6, <2>1, <2>2, CreditsByS DEF CreditsOf
    <2> QED
      BY <1>1, <1>2, <1>5, <2>3, SameCredits, CreditsByS, CreditsBySAfter
  <1>8. CASE ServeNothing(t)
    <2>1. used' = used /\ k \in unanswered'
      BY <1>0, <1>8 DEF ServeNothing
    <2>2. Spoken(k)' <= Spoken(k) /\ Spoken(k) <= SessionCredits /\ Spoken(k)' \in Int /\ Spoken(k) \in Int
      BY <1>1, <1>3, <1>4, <1>6, <2>1, CreditsByS DEF CreditsOf
    <2>3. CreditsOf(k)'
      BY <1>1, <1>4, <1>6, <2>1, <2>2 DEF CreditsOf
    <2> QED
      BY <1>1, <1>2, <1>5, <2>3, SameCredits, CreditsByS, CreditsBySAfter
  <1> QED
    BY <1>7, <1>8

LEMMA OpenCredits ==
    ASSUME BillingTypeOK, JobShape, Credits, NEW t \in Threads, NEW k \in Sids, OpenSession(t, k)
    PROVE  Credits'
  <1>1. /\ sessions[k].state = "fresh" /\ UNCHANGED <<used, unanswered>>
        /\ sessions'[k].state = "open" /\ sessions'[k].credits = SessionCredits
        /\ \A s \in Sids \ {k} : sessions'[s] = sessions[s]
    BY DEF OpenSession, Session, BillingTypeOK
  <1>2. \A s \in Sids : OnSession(s)' = OnSession(s)
    BY DEF OpenSession, Answer, Idle, BillingTypeOK, OnSession, JobShape
  <1>3. used[k] = 0 /\ OnSession(k) = {}
    BY <1>1, CreditsByS DEF CreditsOf
  <1>4. Spoken(k)' = SessionCredits
    <2>1. Spoken(k)' = used[k] + sessions'[k].credits + Cardinality(OnSession(k)')
      BY <1>1 DEF Spoken
    <2>2. OnSession(k)' = {}
      BY <1>2, <1>3
    <2>3. Cardinality({}) = 0
      BY FS_EmptySet
    <2>4. Spoken(k)' = 0 + SessionCredits + 0
      BY <1>1, <1>3, <2>1, <2>2, <2>3
    <2>5. SessionCredits \in Nat
      BY BillingAssumption
    <2> QED
      BY <2>4, <2>5
  <1>5. CreditsOf(k)'
    BY <1>1, <1>4, BillingAssumption DEF CreditsOf
  <1> QED
    BY <1>1, <1>2, <1>5, SameCredits, CreditsByS, CreditsBySAfter

LEMMA OtherCredits ==
    ASSUME BillingTypeOK, Credits, (\E n \in Nonces : LateSettle(n)) \/ Restart \/ Tick \/ UNCHANGED billingVars
    PROVE  Credits'
  <1>1. CASE (\E n \in Nonces : LateSettle(n)) \/ Tick \/ UNCHANGED billingVars
    <2>1. UNCHANGED <<sessions, used, unanswered, job>>
      BY <1>1 DEF LateSettle, Tick, billingVars
    <2>2. \A s \in Sids : OnSession(s)' = OnSession(s)
      BY <2>1 DEF OnSession
    <2> QED
      BY <2>1, <2>2, SameCredits, CreditsByS, CreditsBySAfter
  <1>2. CASE Restart
    <2> SUFFICES ASSUME NEW s \in Sids PROVE CreditsOf(s)'
      BY CreditsBySAfter
    <2>1. OnSession(s)' = {} /\ UNCHANGED <<used, unanswered>>
      BY <1>2 DEF Restart, Idle, OnSession
    <2>2. /\ used[s] \in Nat /\ sessions[s].credits \in Nat /\ SessionCredits \in Nat
          /\ Cardinality(OnSession(s)) \in Nat /\ Spoken(s) <= SessionCredits /\ CreditsOf(s)
      BY OnSessionIsFinite, CreditsByS, BillingAssumption DEF BillingTypeOK, CreditsOf
    <2>3. CASE sessions[s].state = "fresh"
      BY <1>2, <2>1, <2>2, <2>3, SameCredits DEF Restart, CreditsOf
    <2>4. CASE sessions[s].state # "fresh"
      <3>1. sessions'[s].state = "gone" /\ sessions'[s].credits = 0
        BY <1>2, <2>4 DEF Restart, Session
      <3>2. Spoken(s)' = used[s] + 0 + 0
        BY <2>1, <3>1, FS_EmptySet DEF Spoken
      <3>3. Spoken(s)' <= SessionCredits
        BY <2>2, <3>2 DEF Spoken
      <3> QED
        BY <3>1, <3>3 DEF CreditsOf
    <2> QED
      BY <2>3, <2>4
  <1> QED
    BY <1>1, <1>2

LEMMA NextCredits == ASSUME BillingTypeOK, JobShape, Credits, [BillingNext]_billingVars PROVE Credits'
  <1>1. ASSUME NEW t \in Threads, Step(t) PROVE Credits'
    BY <1>1, HandlerCredits, ConsumeCredits, RefusedCredits, AnswerCredits, OpenCredits DEF Step
  <1> QED
    BY <1>1, RequestCredits, OtherCredits DEF BillingNext

-----------------------------------------------------------------------------

LEMMA InitBillingInv == BillingInit => BillingInv
  <1> SUFFICES ASSUME BillingInit PROVE BillingInv
    OBVIOUS
  <1>1. BillingTypeOK
    BY DEF BillingInit, BillingTypeOK, Idle, Session, Pcs, Vias
  <1>2. JobShape /\ NonceInv /\ Paid
    BY DEF BillingInit, JobShape, NonceInv, Reserved, NonceNotStranded, Undisturbed, ReleasedIsUnspent, Paid,
           OnePerPayment, Holds, Owed, Idle
  <1>3. \A s \in Sids : CreditsOf(s)
    <2> TAKE s \in Sids
    <2>1. OnSession(s) = {} /\ used[s] = 0 /\ sessions[s].credits = 0 /\ sessions[s].state = "fresh"
      BY DEF BillingInit, OnSession, Idle, Session
    <2> QED
      BY <2>1, FS_EmptySet, BillingAssumption DEF CreditsOf, Spoken
  <1> QED
    BY <1>1, <1>2, <1>3, CreditsByS DEF BillingInv, Credits

LEMMA NextBillingInv == BillingInv /\ [BillingNext]_billingVars => BillingInv'
  <1> SUFFICES ASSUME BillingInv, [BillingNext]_billingVars PROVE BillingInv'
    OBVIOUS
  <1>1. BillingTypeOK' /\ JobShape'
    BY NextTypes DEF BillingInv
  <1>2. NonceInv' /\ Paid'
    BY NextNonces, NextPaid DEF BillingInv
  <1>3. Credits'
    BY NextCredits DEF BillingInv, Credits
  <1> QED
    BY <1>1, <1>2, <1>3 DEF BillingInv, Credits

LEMMA BillingInvariance == BillingSpec => []BillingInv
  BY InitBillingInv, NextBillingInv, PTL DEF BillingSpec

-----------------------------------------------------------------------------

\* Every variable keeps its type; no session ever owes credits.
THEOREM BillingTypes == BillingSpec => []BillingTypeOK
  BY BillingInvariance, PTL DEF BillingInv

\* In any deployment and for any number of requests, a failed settlement never locks a
\* payer out: a reserved nonce is in hand or its money moved.
THEOREM NoNonceStranded == BillingSpec => []NonceNotStranded
  BY BillingInvariance, PTL DEF BillingInv, NonceInv

\* Where settle answers arrive and the process lives, the nonce ledger alone remembers
\* every payment whose money moved.
THEOREM ReleasedNoncesAreUnspent == BillingSpec => []ReleasedIsUnspent
  BY BillingInvariance, PTL DEF BillingInv, NonceInv

\* Every credit of a session is spent on one verdict or one counted non-answer.
THEOREM CreditsAreConserved == BillingSpec => []CreditsConserved
  BY BillingInvariance, PTL DEF BillingInv

\* One capture and one delivery per payment and one verdict per credit, in every
\* deployment whose chain refuses a used nonce, or whose network loses nothing and whose
\* process never restarts: the one or the other is what the promise rests on.
THEOREM ChargesAreSound ==
    ASSUME \A w \in Worlds : w.replayProof \/ (~ w.lossy /\ ~ w.restarts)
    PROVE  BillingSpec => []ChargesSound
  <1>1. BillingInv => ChargesSound
    BY DEF BillingInv, BillingTypeOK, Paid, Calm, ChargesSound
  <1> QED
    BY <1>1, BillingInvariance, PTL
=============================================================================
