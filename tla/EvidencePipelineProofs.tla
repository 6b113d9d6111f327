----------------------- MODULE EvidencePipelineProofs -----------------------
(***************************************************************************)
(* Proofs about EvidencePipeline for any pages, requirements and budgets.  *)
(* ShapeInv ties the lengths of the checkpoint's sequences to its stage,   *)
(* EvidenceInv says where the kept evidence and the audits come from, and  *)
(* RouteInv what an unset review flag stands for at each node.             *)
(***************************************************************************)
EXTENDS EvidencePipeline, FiniteSetTheorems, SequenceTheorems, TLAPS

\* Rounds whose results have been joined, consolidated, and assessed.
JoinedRounds == IF stage \in {"none", "planned"} THEN Round - 1 ELSE Round
KeptRounds == IF stage \in {"none", "planned", "researched"} THEN Round - 1 ELSE Round
AuditedRounds == IF stage \in {"assessed", "complete"} THEN Round ELSE Round - 1

Stages == {"none", "planned", "researched", "consolidated", "assessed", "complete"}
ProgressType == [covered : BOOLEAN, met : SUBSET Kinds,
                 families : SUBSET SUBSET Pages, challenges : SUBSET Keys]
JoinedType == UNION {[R -> Result] : R \in SUBSET Roles}

ShapeInv ==
  /\ stage \in Stages
  /\ teams \in Seq(Seq(Roles))
  /\ joined \in Seq(JoinedType)
  /\ audits \in Seq(ProgressType)
  /\ kept \subseteq Keys
  /\ decision \in {"none", "sufficient", "budget_exhausted", "diminishing_return", "continue"}
  /\ stored \in [1 .. MaxRounds -> [Roles -> Result \union {NoResult}]]
  /\ active \subseteq Roles
  /\ raised \in BOOLEAN
  /\ crashes \in 0 .. MaxCrashes
  /\ Round <= MaxRounds
  /\ stage = "none" => Round = 0 /\ Len(joined) = 0 /\ Len(audits) = 0
  /\ stage # "none" => Round >= 1 /\ Len(joined) = JoinedRounds /\ Len(audits) = AuditedRounds
  /\ stage = "assessed" /\ decision = "continue" => Round < MaxRounds
  /\ active # {} => stage = "planned"
  /\ \A r \in active : stored[Round][r] = NoResult
  /\ \A n \in DOMAIN joined : \A r \in DOMAIN joined[n] : joined[n][r] = stored[n][r]

-----------------------------------------------------------------------------
(* Operators.                                                              *)

\* The smaller of two numbers is one of them and below the other.
LEMMA MinOfTwo ==
  ASSUME NEW a \in Int, NEW b \in Int
  PROVE  Min({a, b}) \in {a, b} /\ Min({a, b}) <= a /\ Min({a, b}) <= b
<1> DEFINE P(x) == x \in {a, b} /\ \A y \in {a, b} : x <= y
<1>1. \E x : P(x)
  <2>1. CASE a <= b
    BY <2>1
  <2>2. CASE ~(a <= b)
    BY <2>2
  <2> QED BY <2>1, <2>2
<1>2. Min({a, b}) = CHOOSE x : P(x)
  BY DEF Min
<1>3. P(CHOOSE x : P(x))
  BY <1>1
<1> QED BY <1>2, <1>3

\* The larger of two numbers is one of them and above the other.
LEMMA MaxOfTwo ==
  ASSUME NEW a \in Int, NEW b \in Int
  PROVE  Max({a, b}) \in {a, b} /\ Max({a, b}) >= a /\ Max({a, b}) >= b
<1> DEFINE P(x) == x \in {a, b} /\ \A y \in {a, b} : x >= y
<1>1. \E x : P(x)
  <2>1. CASE a <= b
    BY <2>1
  <2>2. CASE ~(a <= b)
    BY <2>2
  <2> QED BY <2>1, <2>2
<1>2. Max({a, b}) = CHOOSE x : P(x)
  BY DEF Max
<1>3. P(CHOOSE x : P(x))
  BY <1>1
<1> QED BY <1>2, <1>3

\* The first elements of a sequence, as many as a bound allows, are a sequence.
LEMMA PrefixType ==
  ASSUME NEW S, NEW s \in Seq(S), NEW m \in Int
  PROVE  SubSeq(s, 1, Min({Len(s), m})) \in Seq(S)
<1> DEFINE n == Min({Len(s), m})
<1>1. Len(s) \in Nat /\ \A i \in 1 .. Len(s) : s[i] \in S
  BY LenProperties
<1>2. Min({Len(s), m}) \in {Len(s), m} /\ Min({Len(s), m}) <= Len(s)
  BY <1>1, MinOfTwo
<1>3. n \in Int /\ n <= Len(s)
  BY <1>1, <1>2
<1>4. \A i \in 1 .. n : s[i] \in S
  BY <1>1, <1>3
<1> HIDE DEF n
<1>5. SubSeq(s, 1, n) \in Seq(S)
  BY <1>3, <1>4, SubSeqProperties
<1> QED BY <1>5 DEF n

\* The first team and the targeted roles are sequences of roles.
LEMMA InitialRolesType == (MinimumTeam \o Academic) \o FactCheck \in Seq(Roles)
<1>1. MinimumTeam \in Seq(Roles) /\ Academic \in Seq(Roles) /\ FactCheck \in Seq(Roles)
  <2>1. /\ "primary" \in Roles /\ "general" \in Roles /\ "challenger" \in Roles
        /\ "academic" \in Roles /\ "fact_check" \in Roles
    BY DEF Roles
  <2>2. MinimumTeam \in Seq(Roles)
    BY <2>1 DEF MinimumTeam
  <2>3. Academic \in Seq(Roles)
    BY <2>1 DEF Academic
  <2>4. FactCheck \in Seq(Roles)
    BY <2>1 DEF FactCheck
  <2> QED BY <2>2, <2>3, <2>4
<1>2. MinimumTeam \o Academic \in Seq(Roles)
  BY <1>1, ConcatProperties
<1> QED BY <1>1, <1>2, ConcatProperties

LEMMA InitialTeamType == InitialTeam \in Seq(Roles)
<1> DEFINE roles == (MinimumTeam \o Academic) \o FactCheck
<1>2. roles \in Seq(Roles)
  BY InitialRolesType
<1>3. InitialTeam = SubSeq(roles, 1, Min({Len(roles), MaxActivations}))
  BY DEF InitialTeam
<1> HIDE DEF roles
<1>4. MaxActivations \in Int
  BY ResearchAssumption
<1>5. SubSeq(roles, 1, Min({Len(roles), MaxActivations})) \in Seq(Roles)
  BY <1>2, <1>4, PrefixType
<1> QED BY <1>3, <1>5

LEMMA TargetedRolesType == TargetedRoles \in Seq(Roles)
<1>1. ASSUME NEW role \in Roles, NEW kind, NEW before
      PROVE  Add(role, kind, before) \in Seq(Roles)
  BY DEF Add
<1>2. /\ "primary" \in Roles /\ "general" \in Roles /\ "challenger" \in Roles
      /\ "academic" \in Roles /\ "fact_check" \in Roles
  BY DEF Roles
<1> DEFINE
      s1 == Add("primary", "primary", {})
      s2 == Add("general", "independent", {})
      s3 == Add("challenger", "challenge", {})
      s4 == Add("academic", "academic", {})
      s5 == Add("fact_check", "fact_check", {})
      s6 == Add("primary", "context", {"primary"})
      s7 == Add("general", "context", {"independent"})
      s8 == Add("primary", "coverage", {"primary", "context"})
      s9 == Add("general", "coverage", {"independent", "context"})
      s10 == Add("challenger", "coverage", {"challenge"})
<1>3. /\ s1 \in Seq(Roles) /\ s2 \in Seq(Roles) /\ s3 \in Seq(Roles) /\ s4 \in Seq(Roles)
      /\ s5 \in Seq(Roles) /\ s6 \in Seq(Roles) /\ s7 \in Seq(Roles) /\ s8 \in Seq(Roles)
      /\ s9 \in Seq(Roles) /\ s10 \in Seq(Roles)
  BY <1>1, <1>2
<1>4. TargetedRoles = s1 \o s2 \o s3 \o s4 \o s5 \o s6 \o s7 \o s8 \o s9 \o s10
  BY DEF TargetedRoles
<1> HIDE DEF s1, s2, s3, s4, s5, s6, s7, s8, s9, s10
<1> QED BY <1>3, <1>4, ConcatProperties

LEMMA RolesFinite == IsFiniteSet(Roles)
<1>1. IsFiniteSet({"primary"} \union {"general"})
  BY FS_Singleton, FS_Union
<1>2. IsFiniteSet(({"primary"} \union {"general"}) \union {"challenger"})
  BY <1>1, FS_Singleton, FS_Union
<1>3. IsFiniteSet({"academic"} \union {"fact_check"})
  BY FS_Singleton, FS_Union
<1>4. IsFiniteSet((({"primary"} \union {"general"}) \union {"challenger"})
                  \union ({"academic"} \union {"fact_check"}))
  BY <1>2, <1>3, FS_Union
<1>5. Roles = (({"primary"} \union {"general"}) \union {"challenger"})
              \union ({"academic"} \union {"fact_check"})
  BY DEF Roles
<1> QED BY <1>4, <1>5

\* The roles of a round number are finitely many.
LEMMA ActivationsType ==
  ASSUME ShapeInv
  PROVE  Activations \in Nat
<1>1. IsFiniteSet(Roles)
  BY RolesFinite
<1>2. IsFiniteSet(1 .. MaxRounds)
  BY FS_Interval, ResearchAssumption
<1>3. IsFiniteSet((1 .. MaxRounds) \X Roles)
  BY <1>1, <1>2, FS_Product
<1>4. Assigned \subseteq (1 .. MaxRounds) \X Roles
  BY DEF Assigned
<1>5. IsFiniteSet(Assigned)
  BY <1>3, <1>4, FS_Subset
<1> QED BY <1>5, FS_CardinalityType DEF Activations

\* What a worker returns is a result.
LEMMA OutcomesType ==
  ASSUME NEW r \in Roles
  PROVE  Outcomes(r) \union {FailedResult} \subseteq Result
<1>1. FailedResult \in Result
  BY DEF FailedResult, Result
<1>2. StancesOf(r) \subseteq Stances
  BY ResearchAssumption DEF StancesOf, Stances
<1>3. ASSUME NEW f \in Finds, NEW reading \in [f.pages -> StancesOf(r)]
      PROVE  Found(f, reading) \in Result
  <2>1. f.pages \subseteq Pages /\ f.fetched \in Nat
    BY ResearchAssumption
  <2>2. IsFiniteSet(f.pages)
    BY <2>1, ResearchAssumption, FS_Subset
  <2>3. Cardinality(f.pages) \in Nat
    BY <2>2, FS_CardinalityType
  <2>4. {[page |-> p, stance |-> reading[p]] : p \in f.pages} \subseteq Evidence
    BY <2>1, <1>2, <1>3 DEF Evidence
  <2> QED BY <2>1, <2>3, <2>4 DEF Found, Result
<1>4. Outcomes(r) \subseteq Result
  BY <1>3 DEF Outcomes
<1> QED BY <1>1, <1>4

-----------------------------------------------------------------------------
(* ShapeInv is inductive.                                                  *)

LEMMA ShapeInit == ResearchInit => ShapeInv
<1> SUFFICES ASSUME ResearchInit PROVE ShapeInv
  OBVIOUS
<1>1. teams \in Seq(Seq(Roles)) /\ joined \in Seq(JoinedType) /\ audits \in Seq(ProgressType)
  BY EmptySeq DEF ResearchInit
<1>2. Len(teams) = 0 /\ Len(joined) = 0 /\ Len(audits) = 0
  BY DEF ResearchInit
<1>3. stored \in [1 .. MaxRounds -> [Roles -> Result \union {NoResult}]]
  BY DEF ResearchInit
<1>4. DOMAIN joined = {}
  BY DEF ResearchInit
<1>5. /\ stage = "none" /\ kept = {} /\ decision = "none" /\ active = {}
      /\ raised = FALSE /\ crashes = 0
  BY DEF ResearchInit
<1>6. MaxRounds \in Nat /\ MaxCrashes \in Nat
  BY ResearchAssumption
<1>7. Round = 0 /\ Round <= MaxRounds /\ crashes \in 0 .. MaxCrashes
  BY <1>2, <1>5, <1>6 DEF Round
<1>8. stage \in Stages /\ raised \in BOOLEAN
  BY <1>5 DEF Stages
<1> QED BY <1>1, <1>2, <1>3, <1>4, <1>5, <1>7, <1>8 DEF ShapeInv

\* A step that changes neither the sequences, the tables nor the roles running.
LEMMA ShapeFramed ==
  ASSUME ShapeInv, UNCHANGED researchVars
  PROVE  ShapeInv'
BY DEF ShapeInv, researchVars, researchCheckpoint, Round, JoinedRounds, AuditedRounds

LEMMA ShapePlan ==
  ASSUME ShapeInv, Plan
  PROVE  ShapeInv'
<1>1. stage = "none" /\ Round = 0 /\ Len(joined) = 0 /\ Len(audits) = 0
  BY DEF ShapeInv, Plan
<1>2. teams' = <<InitialTeam>> /\ stage' = "planned"
  BY DEF Plan
<1>3. teams' \in Seq(Seq(Roles)) /\ Len(teams') = 1
  BY <1>2, InitialTeamType
<1>4. active = {}
  BY <1>1 DEF ShapeInv
<1>5. Round' = 1 /\ JoinedRounds' = 0 /\ AuditedRounds' = 0
  BY <1>2, <1>3 DEF Round, JoinedRounds, AuditedRounds
<1> QED BY <1>1, <1>2, <1>3, <1>4, <1>5, ResearchAssumption DEF ShapeInv, Plan, Stages

LEMMA ShapeStart ==
  ASSUME ShapeInv, NEW r \in Roles, Start(r)
  PROVE  ShapeInv'
<1>1. stage = "planned" /\ stored[Round][r] = NoResult /\ active' = active \union {r}
  BY DEF Start
<1>2. UNCHANGED <<stage, teams, joined, kept, audits, decision, stored, raised, crashes>>
  BY DEF Start, researchCheckpoint
<1> QED BY <1>1, <1>2 DEF ShapeInv, Round, JoinedRounds, AuditedRounds

LEMMA ShapeSettle ==
  ASSUME ShapeInv, NEW r \in Roles, Settle(r)
  PROVE  ShapeInv'
<1>1. PICK result \in Result : stored' = [stored EXCEPT ![Round][r] = result]
  BY OutcomesType DEF Settle
<1>2. /\ r \in active /\ active' = active \ {r} /\ stage = "planned"
      /\ UNCHANGED <<stage, teams, joined, kept, audits, decision, raised, crashes>>
  BY DEF Settle, researchCheckpoint, ShapeInv
<1>3. teams \in Seq(Seq(Roles)) /\ Round \in 1 .. MaxRounds /\ Len(joined) = Round - 1
  <2>1. teams \in Seq(Seq(Roles)) /\ Round >= 1 /\ Round <= MaxRounds /\ Len(joined) = Round - 1
    BY <1>2 DEF ShapeInv, JoinedRounds
  <2>2. Round \in Nat
    BY <2>1, LenProperties DEF Round
  <2> QED BY <2>1, <2>2, ResearchAssumption
<1>4. stored \in [1 .. MaxRounds -> [Roles -> Result \union {NoResult}]]
  BY DEF ShapeInv
<1>5. stored' \in [1 .. MaxRounds -> [Roles -> Result \union {NoResult}]]
  BY <1>1, <1>3, <1>4
<1>6. \A s \in active' : stored'[Round][s] = NoResult
  BY <1>1, <1>2, <1>3, <1>4 DEF ShapeInv
<1>7. \A n \in DOMAIN joined : n \in 1 .. Round - 1 /\ stored'[n] = stored[n]
  <2>1. joined \in Seq(JoinedType)
    BY DEF ShapeInv
  <2>2. DOMAIN joined = 1 .. Len(joined)
    BY <2>1, LenProperties
  <2> QED BY <1>1, <1>3, <1>4, <2>2
<1>8. \A n \in DOMAIN joined' : \A s \in DOMAIN joined'[n] : joined'[n][s] = stored'[n][s]
  <2> SUFFICES ASSUME NEW n \in DOMAIN joined, NEW s \in DOMAIN joined[n]
               PROVE  joined[n][s] = stored'[n][s]
    BY <1>2
  <2>1. stored'[n] = stored[n]
    BY <1>7
  <2>2. joined[n][s] = stored[n][s]
    BY DEF ShapeInv
  <2> QED BY <2>1, <2>2
<1> QED BY <1>2, <1>5, <1>6, <1>8 DEF ShapeInv, Round, JoinedRounds, AuditedRounds

\* The results the barrier joins are those settled in the round.
LEMMA JoinFacts ==
  ASSUME ShapeInv, Join, Admitted = ToSet(Team)
  PROVE  /\ Round \in 1 .. MaxRounds /\ Len(joined) = Round - 1
         /\ joined' = Append(joined, [r \in Admitted |-> stored[Round][r]])
         /\ [r \in Admitted |-> stored[Round][r]] \in JoinedType
         /\ joined' \in Seq(JoinedType) /\ DOMAIN joined' = 1 .. Round
         /\ \A n \in 1 .. Round - 1 : joined'[n] = joined[n]
         /\ joined'[Round] = [r \in Admitted |-> stored[Round][r]]
<1>1. stage = "planned" /\ joined' = Append(joined, [r \in Admitted |-> stored[Round][r]])
  BY DEF Join
<1>2. teams \in Seq(Seq(Roles)) /\ joined \in Seq(JoinedType)
  BY DEF ShapeInv
<1>3. Round \in 1 .. MaxRounds /\ Len(joined) = Round - 1
  <2>1. Round >= 1 /\ Round <= MaxRounds /\ Len(joined) = Round - 1
    BY <1>1 DEF ShapeInv, JoinedRounds
  <2>2. Round \in Nat
    BY <1>2, LenProperties DEF Round
  <2> QED BY <2>1, <2>2, ResearchAssumption
<1>4. Team \in Seq(Roles)
  BY <1>2, <1>3, LenProperties DEF Team, Round
<1>5. Admitted \subseteq Roles
  BY <1>4, LenProperties DEF ToSet
<1>6. \A r \in Admitted : stored[Round][r] \in Result
  <2>1. \A r \in Admitted : stored[Round][r] # NoResult
    BY DEF Join
  <2>2. \A r \in Roles : stored[Round][r] \in Result \union {NoResult}
    BY <1>3 DEF ShapeInv
  <2> QED BY <2>1, <2>2, <1>5
<1> DEFINE j == [r \in Admitted |-> stored[Round][r]]
<1>7. j \in [Admitted -> Result]
  BY <1>6
<1>8. j \in JoinedType
  BY <1>5, <1>7 DEF JoinedType
<1> HIDE DEF j
<1>9. /\ Append(joined, j) \in Seq(JoinedType) /\ Len(Append(joined, j)) = Round
      /\ \A n \in 1 .. Round - 1 : Append(joined, j)[n] = joined[n]
      /\ Append(joined, j)[Round] = j
  <2>1. /\ Append(joined, j) \in Seq(JoinedType) /\ Len(Append(joined, j)) = Len(joined) + 1
        /\ \A n \in 1 .. Len(joined) : Append(joined, j)[n] = joined[n]
        /\ Append(joined, j)[Len(joined) + 1] = j
    BY <1>2, <1>8, AppendProperties
  <2>2. Len(joined) + 1 = Round
    BY <1>3
  <2> QED BY <2>1, <2>2, <1>3
<1>10. joined' = Append(joined, j)
  BY <1>1 DEF j
<1>11. DOMAIN joined' = 1 .. Round
  BY <1>9, <1>10, LenProperties
<1> QED BY <1>3, <1>8, <1>9, <1>10, <1>11 DEF j

LEMMA ShapeJoin ==
  ASSUME ShapeInv, Join
  PROVE  ShapeInv'
<1>1. UNCHANGED <<teams, kept, audits, decision, stored, active, crashes>> /\ stage = "planned"
  BY DEF Join
<1>2. CASE Admitted # ToSet(Team)
  <2>1. raised' = TRUE /\ UNCHANGED <<stage, joined>>
    BY <1>2 DEF Join
  <2> QED BY <1>1, <2>1 DEF ShapeInv, Round, JoinedRounds, AuditedRounds
<1>3. CASE Admitted = ToSet(Team)
  <2>1. stage' = "researched" /\ UNCHANGED raised /\ active = {}
    BY <1>3 DEF Join
  <2>2. joined' \in Seq(JoinedType) /\ Len(joined') = Round
    BY <1>3, JoinFacts, LenProperties DEF ShapeInv
  <2>3. \A n \in DOMAIN joined' : \A r \in DOMAIN joined'[n] : joined'[n][r] = stored[n][r]
    <3> SUFFICES ASSUME NEW n \in DOMAIN joined', NEW r \in DOMAIN joined'[n]
                 PROVE  joined'[n][r] = stored[n][r]
      OBVIOUS
    <3>1. CASE n = Round
      BY <1>3, <3>1, JoinFacts
    <3>2. CASE n # Round
      <4>1. n \in 1 .. Round - 1 /\ joined'[n] = joined[n]
        BY <1>3, <3>2, JoinFacts
      <4>2. n \in DOMAIN joined
        <5>1. joined \in Seq(JoinedType)
          BY DEF ShapeInv
        <5>2. DOMAIN joined = 1 .. Round - 1
          BY <5>1, <1>3, JoinFacts, LenProperties
        <5> QED BY <4>1, <5>2
      <4> QED BY <4>1, <4>2 DEF ShapeInv
    <3> QED BY <3>1, <3>2
  <2>4. Round' = Round /\ JoinedRounds' = Round /\ AuditedRounds' = Round - 1
    BY <1>1, <2>1 DEF Round, JoinedRounds, AuditedRounds
  <2>5. Len(audits) = Round - 1 /\ Round >= 1
    BY <1>1 DEF ShapeInv, AuditedRounds
  <2> QED BY <1>1, <2>1, <2>2, <2>3, <2>4, <2>5 DEF ShapeInv, Stages
<1> QED BY <1>2, <1>3

\* The number of the round is one of the rounds the budget allows.
LEMMA RoundType ==
  ASSUME ShapeInv, stage # "none"
  PROVE  Round \in 1 .. MaxRounds
<1>1. Round >= 1 /\ Round <= MaxRounds /\ teams \in Seq(Seq(Roles))
  BY DEF ShapeInv
<1>2. Round \in Nat
  BY <1>1, LenProperties DEF Round
<1> QED BY <1>1, <1>2, ResearchAssumption

LEMMA FoundType ==
  ASSUME ShapeInv, NEW n \in 1 .. Len(joined)
  PROVE  FoundIn(n) \subseteq Evidence
<1>1. joined[n] \in JoinedType
  BY LenProperties DEF ShapeInv
<1>2. PICK R \in SUBSET Roles : joined[n] \in [R -> Result]
  BY <1>1 DEF JoinedType
<1>3. \A r \in DOMAIN joined[n] : joined[n][r].found \subseteq Evidence
  BY <1>2 DEF Result
<1> QED BY <1>3 DEF FoundIn

LEMMA ShapeConsolidate ==
  ASSUME ShapeInv, Consolidate
  PROVE  ShapeInv'
<1>1. /\ stage = "researched" /\ stage' = "consolidated"
      /\ UNCHANGED <<teams, joined, audits, decision, stored, active, raised, crashes>>
  BY DEF Consolidate
<1>2. Round \in 1 .. MaxRounds /\ Len(joined) = Round
  BY <1>1, RoundType DEF ShapeInv, JoinedRounds
<1>3. FoundIn(Round) \subseteq Evidence
  BY <1>2, FoundType
<1>4. kept' \subseteq Keys
  <2>1. PICK again : kept' = {IF k \in again THEN [k EXCEPT !.round = Round] ELSE k : k \in kept}
               \union {[page |-> e.page, stance |-> e.stance, round |-> Round] :
                         e \in {e \in FoundIn(Round) : \A k \in kept :
                                  k.page # e.page \/ k.stance # e.stance}}
    BY DEF Consolidate
  <2>2. kept \subseteq Keys
    BY DEF ShapeInv
  <2>3. \A k \in kept : (IF k \in again THEN [k EXCEPT !.round = Round] ELSE k) \in Keys
    BY <2>2, <1>2 DEF Keys
  <2>4. \A e \in FoundIn(Round) : [page |-> e.page, stance |-> e.stance, round |-> Round] \in Keys
    BY <1>2, <1>3 DEF Keys, Evidence
  <2> QED BY <2>1, <2>3, <2>4
<1>5. active = {}
  BY <1>1 DEF ShapeInv
<1> QED BY <1>1, <1>4, <1>5 DEF ShapeInv, Stages, Round, JoinedRounds, AuditedRounds

LEMMA ProgressTyped ==
  ASSUME ShapeInv
  PROVE  Progress \in ProgressType
<1>1. kept \subseteq Keys
  BY DEF ShapeInv
<1>2. Required \ Missing \subseteq Kinds
  BY ResearchAssumption
<1>3. Families \in SUBSET SUBSET Pages
  BY <1>1 DEF Families, Keys
<1>4. Challenges \subseteq Keys
  BY <1>1 DEF Challenges
<1>5. (kept # {}) \in BOOLEAN
  OBVIOUS
<1> QED BY <1>2, <1>3, <1>4, <1>5 DEF Progress, ProgressType

LEMMA ShapeAssess ==
  ASSUME ShapeInv, Assess
  PROVE  ShapeInv'
<1>1. /\ stage = "consolidated" /\ stage' = "assessed" /\ audits' = Append(audits, Progress)
      /\ UNCHANGED <<teams, joined, kept, stored, active, raised, crashes>>
  BY DEF Assess
<1>2. PICK late \in BOOLEAN : decision' = Assessment(late)
  BY DEF Assess
<1>3. Round \in 1 .. MaxRounds /\ Len(audits) = Round - 1 /\ Len(joined) = Round
  BY <1>1, RoundType DEF ShapeInv, AuditedRounds, JoinedRounds
<1>4. audits' \in Seq(ProgressType) /\ Len(audits') = Round
  BY <1>1, <1>3, ProgressTyped, AppendProperties DEF ShapeInv
<1>5. decision' \in {"none", "sufficient", "budget_exhausted", "diminishing_return", "continue"}
  BY <1>2 DEF Assessment
<1>6. decision' = "continue" => Round < MaxRounds
  <2>1. decision' = "continue" => ~BudgetExhausted
    BY <1>2 DEF Assessment
  <2>2. Round >= MaxRounds => BudgetExhausted
    BY DEF BudgetExhausted
  <2> QED BY <2>1, <2>2, <1>3, ResearchAssumption
<1>7. active = {}
  BY <1>1 DEF ShapeInv
<1> QED BY <1>1, <1>3, <1>4, <1>5, <1>6, <1>7 DEF ShapeInv, Stages, Round, JoinedRounds, AuditedRounds

LEMMA ShapeContinue ==
  ASSUME ShapeInv, ContinueOrStop
  PROVE  ShapeInv'
<1> DEFINE slots == Max({0, MaxActivations - Activations})
           next == SubSeq(TargetedRoles, 1, Min({slots, Len(TargetedRoles)}))
<1>1. /\ stage = "assessed" /\ UNCHANGED <<joined, kept, audits, stored, active, raised, crashes>>
      /\ \/ stage' = "complete" /\ UNCHANGED <<teams, decision>>
         \/ /\ decision = "continue" /\ stage' = "planned"
            /\ teams' = Append(teams, next) /\ decision' = "none"
  BY DEF ContinueOrStop
<1>2. Round \in 1 .. MaxRounds /\ Len(joined) = Round /\ Len(audits) = Round
  BY <1>1, RoundType DEF ShapeInv, AuditedRounds, JoinedRounds
<1>3. active = {}
  BY <1>1 DEF ShapeInv
<1>4. CASE stage' = "complete" /\ UNCHANGED <<teams, decision>>
  BY <1>1, <1>2, <1>3, <1>4 DEF ShapeInv, Stages, Round, JoinedRounds, AuditedRounds
<1>5. CASE /\ decision = "continue" /\ stage' = "planned"
           /\ teams' = Append(teams, next) /\ decision' = "none"
  <2>1. next \in Seq(Roles)
    <3>1. slots \in Int
      <4>1. MaxActivations - Activations \in Int
        BY ActivationsType, ResearchAssumption
      <4>2. \A d \in Int : Max({0, d}) \in Int
        <5> SUFFICES ASSUME NEW d \in Int PROVE Max({0, d}) \in Int
          OBVIOUS
        <5>1. 0 \in Int
          OBVIOUS
        <5>2. Max({0, d}) \in {0, d}
          BY <5>1, MaxOfTwo
        <5> QED BY <5>2
      <4> QED BY <4>1, <4>2
    <3>2. SubSeq(TargetedRoles, 1, Min({Len(TargetedRoles), slots})) \in Seq(Roles)
      BY <3>1, TargetedRolesType, PrefixType
    <3>3. {Len(TargetedRoles), slots} = {slots, Len(TargetedRoles)}
      OBVIOUS
    <3> QED BY <3>2, <3>3
  <2> HIDE DEF next
  <2>2. teams' \in Seq(Seq(Roles)) /\ Len(teams') = Round + 1
    BY <1>5, <2>1, AppendProperties DEF ShapeInv, Round
  <2>3. Round < MaxRounds
    BY <1>1, <1>5 DEF ShapeInv
  <2>4. Round' = Round + 1 /\ Round' <= MaxRounds /\ JoinedRounds' = Round /\ AuditedRounds' = Round
    BY <1>5, <2>2, <2>3, <1>2, ResearchAssumption DEF Round, JoinedRounds, AuditedRounds
  <2> QED BY <1>1, <1>2, <1>3, <1>5, <2>2, <2>4 DEF ShapeInv, Stages
<1> QED BY <1>1, <1>4, <1>5

LEMMA ShapeCrash ==
  ASSUME ShapeInv, CrashRound
  PROVE  ShapeInv'
BY ResearchAssumption DEF ShapeInv, CrashRound, researchCheckpoint, Round, JoinedRounds, AuditedRounds

LEMMA ShapeResearch ==
  ASSUME ShapeInv, ResearchNext
  PROVE  ShapeInv'
<1>1. CASE Controller
  BY <1>1, ShapePlan, ShapeJoin, ShapeConsolidate, ShapeAssess, ShapeContinue DEF Controller
<1>2. CASE CrashRound
  BY <1>2, ShapeCrash
<1>3. CASE \E r \in Roles : Start(r) \/ Settle(r)
  BY <1>3, ShapeStart, ShapeSettle
<1> QED BY <1>1, <1>2, <1>3 DEF ResearchNext

\* A step of the graph is a step of the research or leaves it alone.
LEMMA GraphStep ==
  ASSUME [PipelineNext]_pipelineVars
  PROVE  (node = "research" /\ ResearchNext) \/ UNCHANGED researchVars
BY DEF PipelineNext, pipelineVars, ResearchNode, ConsolidateNode, DefenderNode, ReconcileNode, RouteNode

LEMMA ShapeStep ==
  ASSUME ShapeInv, [PipelineNext]_pipelineVars
  PROVE  ShapeInv'
BY GraphStep, ShapeResearch, ShapeFramed

\* The checkpoint of the research keeps its shape.
THEOREM ShapeHolds == PipelineSpec => []ShapeInv
<1>1. PipelineInit => ShapeInv
  BY ShapeInit DEF PipelineInit
<1>2. ShapeInv /\ [PipelineNext]_pipelineVars => ShapeInv'
  BY ShapeStep
<1> QED BY <1>1, <1>2, PTL DEF PipelineSpec

-----------------------------------------------------------------------------
(* Results are settled once.                                               *)

\* Only a role that is under way, and so has no result, writes to the table.
LEMMA TableStep ==
  ASSUME ShapeInv, ResearchNext, NEW a \in Settled
  PROVE  stored'[a[1]][a[2]] = stored[a[1]][a[2]]
<1>1. CASE \E r \in Roles : Settle(r)
  <2>1. PICK r \in Roles : Settle(r)
    BY <1>1
  <2>2. r \in active /\ stored[Round][r] = NoResult
    BY <2>1 DEF Settle, ShapeInv
  <2>3. PICK result : stored' = [stored EXCEPT ![Round][r] = result]
    BY <2>1 DEF Settle
  <2>4. a \in (1 .. MaxRounds) \X Roles /\ stored[a[1]][a[2]] # NoResult
    BY DEF Settled
  <2>5. a[1] # Round \/ a[2] # r
    BY <2>2, <2>4
  <2>6. stored \in [1 .. MaxRounds -> [Roles -> Result \union {NoResult}]]
    BY DEF ShapeInv
  <2> QED BY <2>3, <2>4, <2>5, <2>6
<1>2. CASE UNCHANGED stored
  BY <1>2
<1>3. (\E r \in Roles : Settle(r)) \/ UNCHANGED stored
  BY DEF ResearchNext, Controller, Plan, Join, Consolidate, Assess, ContinueOrStop, CrashRound, Start
<1> QED BY <1>1, <1>2, <1>3

\* No resumed round replaces a result, and what is joined is what was settled.
THEOREM PipelineSettlesOnce == PipelineSpec => SettledOnce
<1> DEFINE Kept == /\ \A a \in Settled : stored'[a[1]][a[2]] = stored[a[1]][a[2]]
                   /\ \A n \in DOMAIN joined' : \A r \in DOMAIN joined'[n] : joined'[n][r] = stored'[n][r]
<1>1. ASSUME ShapeInv, [PipelineNext]_pipelineVars
      PROVE  [Kept]_researchVars
  <2>1. CASE UNCHANGED researchVars
    BY <2>1
  <2>2. CASE ResearchNext
    <3>1. \A a \in Settled : stored'[a[1]][a[2]] = stored[a[1]][a[2]]
      BY <1>1, <2>2, TableStep
    <3>2. ShapeInv'
      BY <1>1, ShapeStep
    <3>3. \A n \in DOMAIN joined' : \A r \in DOMAIN joined'[n] : joined'[n][r] = stored'[n][r]
      BY <3>2 DEF ShapeInv
    <3> QED BY <3>1, <3>3
  <2> QED BY <1>1, <2>1, <2>2, GraphStep
<1>2. PipelineSpec => []ShapeInv
  BY ShapeHolds
<1> QED BY <1>1, <1>2, PTL DEF PipelineSpec, SettledOnce

-----------------------------------------------------------------------------
(* What an unset review flag stands for.                                   *)

Nodes == {"research", "consolidate", "defender", "reconcile", "route", "review", "finalize"}

RouteInv ==
  /\ ArgumentTypeOK
  /\ node \in Nodes
  /\ approved \in BOOLEAN
  /\ reported \in BOOLEAN
  /\ flagged \in BOOLEAN
  /\ refused \in BOOLEAN
  /\ node # "research" => stage = "complete"
  /\ node # "research" /\ ~flagged => decision = "sufficient"
  /\ node \in {"reconcile", "route", "finalize"} /\ ~flagged => approved /\ BothBuilt /\ same
  /\ node = "finalize" => ~flagged

LEMMA RouteInit == PipelineInit => RouteInv
BY DEF PipelineInit, ArgumentInit, RouteInv, ArgumentTypeOK, Nodes, Sides

LEMMA RouteResearch ==
  ASSUME RouteInv, ResearchNode
  PROVE  RouteInv'
<1>1. node = "research" /\ UNCHANGED argumentVars
  BY DEF ResearchNode
<1>2. ArgumentTypeOK'
  BY <1>1 DEF RouteInv, ArgumentTypeOK, argumentVars
<1>3. CASE ResearchNext /\ UNCHANGED graphState
  BY <1>1, <1>2, <1>3 DEF RouteInv, graphState
<1>4. CASE /\ stage = "complete" /\ node' = "consolidate" /\ flagged' = ResearchNeedsReview
           /\ UNCHANGED <<approved, reported, refused, researchVars>>
  <2>1. stage' = "complete" /\ decision' = decision
    BY <1>4 DEF researchVars, researchCheckpoint
  <2> QED BY <1>2, <1>4, <2>1 DEF RouteInv, ResearchNeedsReview, Nodes
<1>5. CASE refused' = TRUE /\ UNCHANGED <<node, approved, reported, flagged, researchVars>>
  BY <1>1, <1>2, <1>5 DEF RouteInv
<1> QED BY <1>3, <1>4, <1>5 DEF ResearchNode

LEMMA ArgumentStepType ==
  ASSUME ArgumentTypeOK, ArgumentNext(approved)
  PROVE  ArgumentTypeOK'
<1>1. CASE PlanArguments(approved) \/ JoinArguments \/ ReconcileLedger
  BY <1>1 DEF ArgumentTypeOK, PlanArguments, JoinArguments, ReconcileLedger
<1>2. CASE \E s \in Sides : SettlePosition(s)
  <2>1. PICK s \in Sides : SettlePosition(s)
    BY <1>2
  <2>2. PICK outcome \in {"built", "failed"} : position' = [position EXCEPT ![s] = outcome]
    BY <2>1 DEF SettlePosition
  <2>3. UNCHANGED <<argument, same>>
    BY <2>1 DEF SettlePosition
  <2> QED BY <2>2, <2>3 DEF ArgumentTypeOK
<1> QED BY <1>1, <1>2 DEF ArgumentNext

LEMMA RouteDefender ==
  ASSUME RouteInv, DefenderNode
  PROVE  RouteInv'
<1>1. node = "defender" /\ stage' = stage /\ decision' = decision
  BY DEF DefenderNode, researchVars, researchCheckpoint
<1>2. CASE approved /\ ArgumentNext(approved) /\ UNCHANGED graphState
  <2>1. ArgumentTypeOK'
    BY <1>2, ArgumentStepType DEF RouteInv
  <2> QED BY <1>1, <1>2, <2>1 DEF RouteInv, graphState
<1>3. CASE /\ approved => argument = "reconciled"
           /\ node' = "reconcile" /\ reported' = approved
           /\ flagged' = (flagged \/ ~approved \/ ArgumentNeedsReview)
           /\ UNCHANGED <<approved, refused, argumentVars>>
  <2>1. ArgumentTypeOK' /\ BothBuilt' = BothBuilt /\ same' = same
    BY <1>3 DEF RouteInv, ArgumentTypeOK, BothBuilt, argumentVars
  <2>2. ArgumentNeedsReview \in BOOLEAN
    BY DEF ArgumentNeedsReview, BothBuilt
  <2>3. ~flagged' => ~flagged /\ approved /\ BothBuilt /\ same
    BY <1>3 DEF ArgumentNeedsReview
  <2>4. flagged' \in BOOLEAN /\ reported' \in BOOLEAN /\ approved' \in BOOLEAN
    BY <1>3, <2>2 DEF RouteInv
  <2> QED BY <1>1, <1>3, <2>1, <2>3, <2>4 DEF RouteInv, Nodes
<1> QED BY <1>2, <1>3 DEF DefenderNode

LEMMA RouteRest ==
  ASSUME RouteInv, ConsolidateNode \/ ReconcileNode \/ RouteNode \/ UNCHANGED pipelineVars
  PROVE  RouteInv'
<1>1. /\ UNCHANGED argumentVars /\ stage' = stage /\ decision' = decision
      /\ ArgumentTypeOK' /\ BothBuilt' = BothBuilt /\ same' = same
  <2>1. UNCHANGED argumentVars /\ stage' = stage /\ decision' = decision
    BY DEF ConsolidateNode, ReconcileNode, RouteNode, pipelineVars, researchVars, researchCheckpoint
  <2> QED BY <2>1 DEF RouteInv, ArgumentTypeOK, BothBuilt, argumentVars
<1>2. CASE ConsolidateNode
  <2>1. node = "consolidate" /\ node' = "defender" /\ approved' \in BOOLEAN /\ UNCHANGED <<reported, flagged, refused>>
    BY <1>2 DEF ConsolidateNode
  <2> QED BY <1>1, <2>1 DEF RouteInv, Nodes
<1>3. CASE ReconcileNode
  <2>1. node = "reconcile" /\ node' = "route" /\ UNCHANGED <<approved, reported, flagged, refused>>
    BY <1>3 DEF ReconcileNode
  <2> QED BY <1>1, <2>1 DEF RouteInv, Nodes
<1>4. CASE RouteNode
  <2>1. PICK policies \in BOOLEAN : /\ flagged' = (flagged \/ policies)
                                    /\ node' = IF flagged' THEN "review" ELSE "finalize"
    BY <1>4 DEF RouteNode
  <2>2. node = "route" /\ UNCHANGED <<approved, reported, refused>>
    BY <1>4 DEF RouteNode
  <2> QED BY <1>1, <2>1, <2>2 DEF RouteInv, Nodes
<1>5. CASE UNCHANGED pipelineVars
  BY <1>1, <1>5 DEF RouteInv, pipelineVars, graphState
<1> QED BY <1>2, <1>3, <1>4, <1>5

\* At each node an unset flag stands for what has been settled so far.
THEOREM RouteHolds == PipelineSpec => []RouteInv
<1>1. RouteInv /\ [PipelineNext]_pipelineVars => RouteInv'
  BY RouteResearch, RouteDefender, RouteRest DEF PipelineNext
<1> QED BY <1>1, RouteInit, PTL DEF PipelineSpec

\* Nothing unsettled is finalized without a person.
THEOREM PipelineEscalates == PipelineSpec => []Escalated
<1>1. RouteInv => Escalated
  BY DEF RouteInv, Escalated
<1> QED BY <1>1, RouteHolds, PTL

\* The variables keep their types.
THEOREM PipelineTypes == PipelineSpec => []PipelineTypeOK
<1>1. ASSUME ShapeInv PROVE ResearchTypeOK
  <2>1. Len(teams) <= MaxRounds
    BY <1>1 DEF ShapeInv, Round
  <2>2. \A n \in DOMAIN teams : ToSet(teams[n]) \subseteq Roles
    <3> SUFFICES ASSUME NEW n \in DOMAIN teams PROVE ToSet(teams[n]) \subseteq Roles
      OBVIOUS
    <3>1. teams[n] \in Seq(Roles)
      BY <1>1, LenProperties DEF ShapeInv
    <3> QED BY <3>1, LenProperties DEF ToSet
  <2>3. \A a \in Joined : joined[a[1]][a[2]] \in Result
    <3> SUFFICES ASSUME NEW a \in Joined PROVE joined[a[1]][a[2]] \in Result
      OBVIOUS
    <3>1. a[1] \in DOMAIN joined /\ a[2] \in DOMAIN joined[a[1]]
      BY DEF Joined
    <3>2. joined[a[1]] \in JoinedType
      BY <1>1, <3>1, LenProperties DEF ShapeInv
    <3> QED BY <3>1, <3>2 DEF JoinedType
  <2>4. Len(audits) <= Len(teams)
    <3>1. Len(teams) \in Nat /\ Len(audits) \in Nat
      BY <1>1, LenProperties DEF ShapeInv
    <3> QED BY <1>1, <3>1 DEF ShapeInv, AuditedRounds, Round
  <2> QED BY <1>1, <2>1, <2>2, <2>3, <2>4 DEF ShapeInv, Stages, ResearchTypeOK
<1>2. ShapeInv /\ RouteInv => PipelineTypeOK
  BY <1>1 DEF RouteInv, Nodes, PipelineTypeOK
<1> QED BY <1>2, ShapeHolds, RouteHolds, PTL

-----------------------------------------------------------------------------
(* Where the kept evidence and the audits come from.                       *)

\* The pages that the first n rounds brought.
Brought(n) == {e.page : e \in UNION {FoundIn(m) : m \in 1 .. n}}

EvidenceInv ==
  /\ \A k \in kept : \E n \in 1 .. KeptRounds : [page |-> k.page, stance |-> k.stance] \in FoundIn(n)
  /\ stage = "consolidated" =>
       \A e \in FoundIn(Round) : \E k \in kept : k.page = e.page
  /\ \A n \in DOMAIN audits : \A F \in audits[n].families : F \subseteq Brought(n)
  /\ stage \in {"assessed", "complete"} /\ decision = "sufficient" => Missing = {}
  /\ stage \in {"assessed", "complete"} /\ decision = "diminishing_return" =>
       {e.page : e \in FoundIn(Round)} \subseteq Brought(Round - 1)

LEMMA EvidenceInit == ResearchInit => EvidenceInv
BY DEF ResearchInit, EvidenceInv

\* A step that leaves the checkpoint alone.
LEMMA EvidenceFramed ==
  ASSUME EvidenceInv, UNCHANGED researchCheckpoint
  PROVE  EvidenceInv'
<1>1. UNCHANGED <<stage, teams, joined, kept, audits, decision>>
  BY DEF researchCheckpoint
<1>2. Round' = Round /\ KeptRounds' = KeptRounds
  BY <1>1 DEF Round, KeptRounds
<1>3. \A n : FoundIn(n)' = FoundIn(n)
  BY <1>1 DEF FoundIn
<1>4. \A n : Brought(n)' = Brought(n)
  BY <1>3 DEF Brought
<1>5. Missing' = Missing
  <2>1. /\ Relevant' = Relevant /\ Families' = Families
        /\ Attempted' = Attempted /\ Challenges' = Challenges
    BY <1>1 DEF Relevant, Families, Attempted, Challenges
  <2> QED BY <1>1, <2>1 DEF Missing, Satisfied
<1>6. \A k \in kept' : \E n \in 1 .. KeptRounds' : [page |-> k.page, stance |-> k.stance] \in FoundIn(n)'
  BY <1>1, <1>2, <1>3 DEF EvidenceInv
<1>7. stage' = "consolidated" =>
       \A e \in FoundIn(Round)' : \E k \in kept' : k.page = e.page
  BY <1>1, <1>2, <1>3 DEF EvidenceInv
<1>8. \A n \in DOMAIN audits' : \A F \in audits'[n].families : F \subseteq Brought(n)'
  BY <1>1, <1>4 DEF EvidenceInv
<1>9. stage' \in {"assessed", "complete"} /\ decision' = "sufficient" => Missing' = {}
  BY <1>1, <1>5 DEF EvidenceInv
<1>10. stage' \in {"assessed", "complete"} /\ decision' = "diminishing_return" =>
       {e.page : e \in FoundIn(Round)'} \subseteq Brought(Round - 1)'
  BY <1>1, <1>2, <1>3, <1>4 DEF EvidenceInv
<1> QED BY <1>6, <1>7, <1>8, <1>9, <1>10 DEF EvidenceInv

LEMMA EvidencePlan ==
  ASSUME ShapeInv, EvidenceInv, Plan
  PROVE  EvidenceInv'
<1>1. stage = "none" /\ stage' = "planned" /\ UNCHANGED <<kept, audits>>
  BY DEF Plan
<1>2. Round = 0 /\ Len(audits) = 0
  BY <1>1 DEF ShapeInv
<1>3. kept = {}
  <2>1. KeptRounds = -1
    BY <1>1, <1>2 DEF KeptRounds
  <2> QED BY <2>1 DEF EvidenceInv
<1>4. DOMAIN audits = {}
  BY <1>2, LenProperties DEF ShapeInv
<1> QED BY <1>1, <1>3, <1>4 DEF EvidenceInv

\* Joining a round leaves what the rounds before it found as it was.
LEMMA EvidenceJoin ==
  ASSUME ShapeInv, EvidenceInv, Join
  PROVE  EvidenceInv'
<1>1. stage = "planned" /\ UNCHANGED <<teams, kept, audits, decision>>
  BY DEF Join
<1>2. CASE Admitted # ToSet(Team)
  <2>1. UNCHANGED researchCheckpoint
    BY <1>1, <1>2 DEF Join, researchCheckpoint
  <2> QED BY <2>1, EvidenceFramed
<1>3. CASE Admitted = ToSet(Team)
  <2>1. stage' = "researched"
    BY <1>3 DEF Join
  <2>2. Round \in 1 .. MaxRounds /\ \A n \in 1 .. Round - 1 : joined'[n] = joined[n]
    BY <1>3, JoinFacts
  <2>3. \A n \in 1 .. Round - 1 : FoundIn(n)' = FoundIn(n)
    BY <2>2 DEF FoundIn
  <2>4. \A n \in 1 .. Round - 1 : Brought(n)' = Brought(n)
    <3> SUFFICES ASSUME NEW n \in 1 .. Round - 1 PROVE Brought(n)' = Brought(n)
      OBVIOUS
    <3>1. \A m \in 1 .. n : FoundIn(m)' = FoundIn(m)
      BY <2>2, <2>3, ResearchAssumption
    <3>2. UNION {FoundIn(m)' : m \in 1 .. n} = UNION {FoundIn(m) : m \in 1 .. n}
      BY <3>1
    <3> QED BY <3>2 DEF Brought
  <2>5. Round' = Round /\ KeptRounds = Round - 1 /\ KeptRounds' = Round - 1
    BY <1>1, <2>1 DEF Round, KeptRounds
  <2>6. DOMAIN audits = 1 .. Round - 1
    BY <1>1, LenProperties DEF ShapeInv, AuditedRounds
  <2>7. \A k \in kept' : \E n \in 1 .. KeptRounds' : [page |-> k.page, stance |-> k.stance] \in FoundIn(n)'
    BY <1>1, <2>3, <2>5 DEF EvidenceInv
  <2>8. \A n \in DOMAIN audits' : \A F \in audits'[n].families : F \subseteq Brought(n)'
    BY <1>1, <2>4, <2>6 DEF EvidenceInv
  <2> QED BY <2>1, <2>7, <2>8 DEF EvidenceInv
<1> QED BY <1>2, <1>3

LEMMA EvidenceConsolidate ==
  ASSUME ShapeInv, EvidenceInv, Consolidate
  PROVE  EvidenceInv'
<1>1. stage = "researched" /\ stage' = "consolidated" /\ UNCHANGED <<teams, joined, audits>>
  BY DEF Consolidate
<1>2. Round \in 1 .. MaxRounds /\ Round' = Round /\ KeptRounds = Round - 1 /\ KeptRounds' = Round
  BY <1>1, RoundType DEF Round, KeptRounds
<1>3. \A n : FoundIn(n)' = FoundIn(n)
  BY <1>1 DEF FoundIn
<1>4. \A n : Brought(n)' = Brought(n)
  BY <1>3 DEF Brought
<1>5. PICK again : kept' = {IF k \in again THEN [k EXCEPT !.round = Round] ELSE k : k \in kept}
             \union {[page |-> e.page, stance |-> e.stance, round |-> Round] :
                       e \in {e \in FoundIn(Round) : \A k \in kept :
                                k.page # e.page \/ k.stance # e.stance}}
  BY DEF Consolidate
<1>6. FoundIn(Round) \subseteq Evidence
  <2>1. Len(joined) = Round
    BY <1>1 DEF ShapeInv, JoinedRounds
  <2> QED BY <1>2, <2>1, FoundType
<1>7. kept \subseteq Keys
  BY DEF ShapeInv
<1>8. \A k \in kept : \E q \in kept' : q.page = k.page /\ q.stance = k.stance
  <2> SUFFICES ASSUME NEW k \in kept PROVE \E q \in kept' : q.page = k.page /\ q.stance = k.stance
    OBVIOUS
  <2> DEFINE q == IF k \in again THEN [k EXCEPT !.round = Round] ELSE k
  <2>1. q \in kept'
    BY <1>5
  <2>2. q.page = k.page /\ q.stance = k.stance
    BY <1>7 DEF Keys
  <2> QED BY <2>1, <2>2
<1>9. \A q \in kept' : \/ \E k \in kept : q.page = k.page /\ q.stance = k.stance
                       \/ \E e \in FoundIn(Round) : q.page = e.page /\ q.stance = e.stance
  <2> SUFFICES ASSUME NEW q \in kept'
               PROVE  \/ \E k \in kept : q.page = k.page /\ q.stance = k.stance
                      \/ \E e \in FoundIn(Round) : q.page = e.page /\ q.stance = e.stance
    OBVIOUS
  <2>1. CASE \E k \in kept : q = IF k \in again THEN [k EXCEPT !.round = Round] ELSE k
    BY <2>1, <1>7 DEF Keys
  <2>2. CASE \E e \in FoundIn(Round) : q = [page |-> e.page, stance |-> e.stance, round |-> Round]
    BY <2>2
  <2> QED BY <1>5, <2>1, <2>2
<1>10. \A q \in kept' : \E n \in 1 .. KeptRounds' : [page |-> q.page, stance |-> q.stance] \in FoundIn(n)'
  <2> SUFFICES ASSUME NEW q \in kept'
               PROVE  \E n \in 1 .. Round : [page |-> q.page, stance |-> q.stance] \in FoundIn(n)
    BY <1>2, <1>3
  <2>1. CASE \E k \in kept : q.page = k.page /\ q.stance = k.stance
    <3>1. PICK k \in kept : q.page = k.page /\ q.stance = k.stance
      BY <2>1
    <3>2. PICK n \in 1 .. Round - 1 : [page |-> k.page, stance |-> k.stance] \in FoundIn(n)
      BY <1>2 DEF EvidenceInv
    <3> QED BY <3>1, <3>2, <1>2, ResearchAssumption
  <2>2. CASE \E e \in FoundIn(Round) : q.page = e.page /\ q.stance = e.stance
    <3>1. PICK e \in FoundIn(Round) : q.page = e.page /\ q.stance = e.stance
      BY <2>2
    <3>2. e = [page |-> e.page, stance |-> e.stance]
      BY <1>6 DEF Evidence
    <3>3. Round \in 1 .. Round
      BY <1>2, ResearchAssumption
    <3> QED BY <3>1, <3>2, <3>3
  <2> QED BY <1>9, <2>1, <2>2
<1>11. \A e \in FoundIn(Round)' : \E k \in kept' : k.page = e.page
  <2> SUFFICES ASSUME NEW e \in FoundIn(Round) PROVE \E k \in kept' : k.page = e.page
    BY <1>2, <1>3
  <2>1. CASE \E k \in kept : k.page = e.page /\ k.stance = e.stance
    BY <2>1, <1>8
  <2>2. CASE \A k \in kept : k.page # e.page \/ k.stance # e.stance
    <3>1. [page |-> e.page, stance |-> e.stance, round |-> Round] \in kept'
      BY <1>5, <2>2
    <3> QED BY <3>1
  <2> QED BY <2>1, <2>2
<1>12. \A n \in DOMAIN audits' : \A F \in audits'[n].families : F \subseteq Brought(n)'
  BY <1>1, <1>4 DEF EvidenceInv
<1> QED BY <1>1, <1>10, <1>11, <1>12 DEF EvidenceInv

\* Without a gain, the pages of the round were audited before.
LEMMA NoGainNoPages ==
  ASSUME ShapeInv, EvidenceInv, stage = "consolidated", ~Gained
  PROVE  {e.page : e \in FoundIn(Round)} \subseteq Brought(Round - 1)
<1> DEFINE before == IF audits = <<>> THEN NoProgress ELSE Last(audits)
<1>1. Families \subseteq before.families
  <2>1. Progress.families \subseteq before.families
    BY DEF Gained
  <2> QED BY <2>1 DEF Progress
<1>2. Round \in 1 .. MaxRounds /\ Len(audits) = Round - 1 /\ audits \in Seq(ProgressType)
  BY RoundType DEF ShapeInv, AuditedRounds
<1>3. \A F \in before.families : F \subseteq Brought(Round - 1)
  <2>1. CASE audits = <<>>
    BY <2>1 DEF NoProgress
  <2>2. CASE audits # <<>>
    <3>1. Len(audits) \in DOMAIN audits
      BY <1>2, <2>2, EmptySeq, LenProperties
    <3>2. Last(audits) = audits[Round - 1]
      BY <1>2 DEF Last
    <3> QED BY <1>2, <2>2, <3>1, <3>2 DEF EvidenceInv
  <2> QED BY <2>1, <2>2
<1>4. ASSUME NEW e \in FoundIn(Round)
      PROVE  e.page \in Brought(Round - 1)
  <2>1. PICK k \in kept : k.page = e.page
    BY <1>4 DEF EvidenceInv
  <2> DEFINE F == {x.page : x \in {y \in kept : FamilyOf[y.page] = FamilyOf[k.page]}}
  <2>2. F \in Families
    BY DEF Families
  <2>3. k.page \in F
    OBVIOUS
  <2> QED BY <2>1, <2>2, <2>3, <1>1, <1>3
<1> QED BY <1>4

LEMMA EvidenceAssess ==
  ASSUME ShapeInv, EvidenceInv, Assess
  PROVE  EvidenceInv'
<1>1. /\ stage = "consolidated" /\ stage' = "assessed" /\ audits' = Append(audits, Progress)
      /\ UNCHANGED <<teams, joined, kept>>
  BY DEF Assess
<1>2. PICK late \in BOOLEAN : decision' = Assessment(late)
  BY DEF Assess
<1>3. Round \in 1 .. MaxRounds /\ Round' = Round /\ KeptRounds = Round /\ KeptRounds' = Round
      /\ audits \in Seq(ProgressType) /\ Len(audits) = Round - 1
  BY <1>1, RoundType DEF Round, KeptRounds, ShapeInv, AuditedRounds
<1>4. \A n : FoundIn(n)' = FoundIn(n)
  BY <1>1 DEF FoundIn
<1>5. \A n : Brought(n)' = Brought(n)
  BY <1>4 DEF Brought
<1>6. Missing' = Missing
  <2>1. /\ Relevant' = Relevant /\ Families' = Families
        /\ Attempted' = Attempted /\ Challenges' = Challenges
    BY <1>1 DEF Relevant, Families, Attempted, Challenges
  <2> QED BY <2>1 DEF Missing, Satisfied
<1>7. \A k \in kept' : \E n \in 1 .. KeptRounds' : [page |-> k.page, stance |-> k.stance] \in FoundIn(n)'
  BY <1>1, <1>3, <1>4 DEF EvidenceInv
<1>8. \A F \in Families : F \subseteq Brought(Round)
  <2> SUFFICES ASSUME NEW k \in kept PROVE k.page \in Brought(Round)
    BY DEF Families
  <2>1. PICK n \in 1 .. Round : [page |-> k.page, stance |-> k.stance] \in FoundIn(n)
    BY <1>3 DEF EvidenceInv
  <2>2. [page |-> k.page, stance |-> k.stance].page = k.page
    OBVIOUS
  <2> QED BY <2>1, <2>2 DEF Brought
<1>9. \A n \in DOMAIN audits' : \A F \in audits'[n].families : F \subseteq Brought(n)'
  <2> SUFFICES ASSUME NEW n \in DOMAIN audits', NEW F \in audits'[n].families
               PROVE  F \subseteq Brought(n)
    BY <1>5
  <2>1. /\ DOMAIN audits' = 1 .. Round /\ audits'[Round] = Progress
        /\ \A m \in 1 .. Round - 1 : audits'[m] = audits[m]
    <3>1. Append(audits, Progress) \in Seq(ProgressType) /\ Len(Append(audits, Progress)) = Round
      BY <1>3, ProgressTyped, AppendProperties
    <3>2. /\ Append(audits, Progress)[Round] = Progress
          /\ \A m \in 1 .. Round - 1 : Append(audits, Progress)[m] = audits[m]
      BY <1>3, ProgressTyped, AppendProperties
    <3> QED BY <1>1, <3>1, <3>2, LenProperties
  <2>2. CASE n = Round
    BY <2>1, <2>2, <1>8 DEF Progress
  <2>3. CASE n # Round
    <3>1. n \in DOMAIN audits /\ audits'[n] = audits[n]
      BY <2>1, <2>3, <1>3, LenProperties
    <3> QED BY <3>1 DEF EvidenceInv
  <2> QED BY <2>2, <2>3
<1>10. decision' = "sufficient" => Missing' = {}
  BY <1>2, <1>6 DEF Assessment
<1>11. decision' = "diminishing_return" =>
       {e.page : e \in FoundIn(Round)'} \subseteq Brought(Round - 1)'
  <2>1. decision' = "diminishing_return" => ~Gained
    BY <1>2 DEF Assessment
  <2> QED BY <2>1, <1>1, <1>3, <1>4, <1>5, NoGainNoPages
<1> QED BY <1>1, <1>7, <1>9, <1>10, <1>11 DEF EvidenceInv

LEMMA EvidenceContinue ==
  ASSUME ShapeInv, EvidenceInv, ContinueOrStop
  PROVE  EvidenceInv'
<1>1. stage = "assessed" /\ UNCHANGED <<joined, kept, audits>>
      /\ ((stage' = "complete" /\ UNCHANGED <<teams, decision>>) \/ stage' = "planned")
  BY DEF ContinueOrStop
<1>2. \A n : FoundIn(n)' = FoundIn(n)
  BY <1>1 DEF FoundIn
<1>3. \A n : Brought(n)' = Brought(n)
  BY <1>2 DEF Brought
<1>4. KeptRounds' = KeptRounds
  <2>1. ShapeInv'
    BY ShapeContinue
  <2>2. Len(joined) = Round /\ Len(joined') = Len(joined)
    BY <1>1 DEF ShapeInv, JoinedRounds
  <2>3. stage' = "planned" => Len(joined') = Round' - 1
    BY <2>1 DEF ShapeInv, JoinedRounds
  <2>4. stage' = "complete" => Round' = Round
    BY <1>1 DEF Round
  <2> QED BY <1>1, <2>2, <2>3, <2>4 DEF KeptRounds
<1>5. \A k \in kept' : \E n \in 1 .. KeptRounds' : [page |-> k.page, stance |-> k.stance] \in FoundIn(n)'
  BY <1>1, <1>2, <1>4 DEF EvidenceInv
<1>6. \A n \in DOMAIN audits' : \A F \in audits'[n].families : F \subseteq Brought(n)'
  BY <1>1, <1>3 DEF EvidenceInv
<1>7. CASE stage' = "complete" /\ UNCHANGED <<teams, decision>>
  <2>1. Round' = Round
    BY <1>7 DEF Round
  <2>2. Missing' = Missing
    <3>1. /\ Relevant' = Relevant /\ Families' = Families
          /\ Attempted' = Attempted /\ Challenges' = Challenges
      BY <1>1, <1>7 DEF Relevant, Families, Attempted, Challenges
    <3> QED BY <3>1 DEF Missing, Satisfied
  <2> QED BY <1>1, <1>2, <1>3, <1>5, <1>6, <1>7, <2>1, <2>2 DEF EvidenceInv
<1>8. CASE stage' = "planned"
  BY <1>5, <1>6, <1>8 DEF EvidenceInv
<1> QED BY <1>1, <1>7, <1>8

LEMMA EvidenceStep ==
  ASSUME ShapeInv, EvidenceInv, [PipelineNext]_pipelineVars
  PROVE  EvidenceInv'
<1>1. CASE UNCHANGED researchVars
  BY <1>1, EvidenceFramed DEF researchVars
<1>2. CASE Controller
  BY <1>2, EvidencePlan, EvidenceJoin, EvidenceConsolidate, EvidenceAssess, EvidenceContinue
  DEF Controller
<1>3. CASE CrashRound \/ \E r \in Roles : Start(r) \/ Settle(r)
  <2>1. UNCHANGED researchCheckpoint
    BY <1>3 DEF CrashRound, Start, Settle
  <2> QED BY <2>1, EvidenceFramed
<1> QED BY <1>1, <1>2, <1>3, GraphStep DEF ResearchNext

\* Kept evidence was found, audits tell the families of found pages, and a
\* decision to stop stands for what it says.
THEOREM EvidenceHolds == PipelineSpec => []EvidenceInv
<1>1. PipelineInit => EvidenceInv
  BY EvidenceInit DEF PipelineInit
<1>2. ShapeInv /\ EvidenceInv /\ [PipelineNext]_pipelineVars => EvidenceInv'
  BY EvidenceStep
<1> QED BY <1>1, <1>2, ShapeHolds, PTL DEF PipelineSpec

\* Research does not give up while rounds still bring new pages.
THEOREM PipelineGivesUpLate == PipelineSpec => []GivesUpLate
<1>1. EvidenceInv => GivesUpLate
  BY DEF EvidenceInv, GivesUpLate, Brought
<1> QED BY <1>1, EvidenceHolds, PTL

\* All that the settled roles have found.
AllFound == UNION {stored[a[1]][a[2]].found : a \in Settled}

LEMMA KeptWasFound ==
  ASSUME ShapeInv, EvidenceInv, stage = "complete", NEW k \in kept
  PROVE  [page |-> k.page, stance |-> k.stance] \in AllFound
<1>1. Round \in 1 .. MaxRounds /\ KeptRounds = Round /\ Len(joined) = Round
  BY RoundType DEF KeptRounds, ShapeInv, JoinedRounds
<1>2. PICK n \in 1 .. Round : [page |-> k.page, stance |-> k.stance] \in FoundIn(n)
  BY <1>1 DEF EvidenceInv
<1>3. PICK r \in DOMAIN joined[n] : [page |-> k.page, stance |-> k.stance] \in joined[n][r].found
  BY <1>2 DEF FoundIn
<1>4. n \in DOMAIN joined /\ joined[n] \in JoinedType
  BY <1>1, LenProperties DEF ShapeInv
<1>5. r \in Roles /\ joined[n][r] \in Result
  BY <1>3, <1>4 DEF JoinedType
<1>6. stored[n][r] = joined[n][r]
  BY <1>3, <1>4 DEF ShapeInv
<1>7. n \in 1 .. MaxRounds
  BY <1>1, ResearchAssumption
<1>8. <<n, r>> \in Settled
  BY <1>5, <1>6, <1>7, NoResultAssumption DEF Settled
<1> QED BY <1>3, <1>6, <1>8 DEF AllFound

\* As many families as required give as many pages, no two of one family.
LEMMA FamiliesGivePages ==
  ASSUME ShapeInv, Cardinality(Families) >= MinFamilies
  PROVE  \E f \in [1 .. MinFamilies -> {k.page : k \in kept}] :
           \A i, j \in 1 .. MinFamilies : i # j => FamilyOf[f[i]] # FamilyOf[f[j]]
<1>1. MinFamilies \in Nat
  BY ResearchAssumption
<1>2. IsFiniteSet(Families)
  <2>1. Families \subseteq SUBSET Pages
    BY DEF Families, ShapeInv, Keys
  <2>2. IsFiniteSet(SUBSET Pages)
    BY FS_SUBSET, ResearchAssumption
  <2> QED BY <2>1, <2>2, FS_Subset
<1>3. Cardinality(Families) \in Nat
  BY <1>2, FS_CardinalityType
<1>4. PICK b : b \in Bijection(1 .. Cardinality(Families), Families)
  BY <1>2, FS_CardinalityType DEF ExistsBijection
<1>5. \A i \in 1 .. MinFamilies : b[i] \in Families
  <2>1. b \in [1 .. Cardinality(Families) -> Families]
    BY <1>4 DEF Bijection, Injection
  <2> QED BY <2>1, <1>1, <1>3
<1>6. \A i, j \in 1 .. MinFamilies : i # j => b[i] # b[j]
  <2>1. 1 .. MinFamilies \subseteq 1 .. Cardinality(Families)
    BY <1>1, <1>3
  <2>2. b \in [1 .. Cardinality(Families) -> Families] /\ IsInjective(b)
    BY <1>4 DEF Bijection, Injection
  <2>3. \A i, j \in 1 .. Cardinality(Families) : b[i] = b[j] => i = j
    BY <2>2 DEF IsInjective
  <2> QED BY <2>1, <2>3
<1> DEFINE KeptPages == {k.page : k \in kept}
           FamilyPages(p) == {e.page : e \in {x \in kept : FamilyOf[x.page] = FamilyOf[p]}}
<1>7. \A i \in 1 .. MinFamilies : \E p \in KeptPages : b[i] = FamilyPages(p)
  <2>1. \A F \in Families : \E p \in KeptPages : F = FamilyPages(p)
    BY DEF Families
  <2> QED BY <1>5, <2>1
<1>8. \A p, q : FamilyOf[p] = FamilyOf[q] => FamilyPages(p) = FamilyPages(q)
  OBVIOUS
<1> HIDE DEF KeptPages, FamilyPages
<1> DEFINE f == [i \in 1 .. MinFamilies |-> CHOOSE p \in KeptPages : b[i] = FamilyPages(p)]
<1>9. \A i \in 1 .. MinFamilies : f[i] \in KeptPages /\ b[i] = FamilyPages(f[i])
  <2> SUFFICES ASSUME NEW i \in 1 .. MinFamilies
               PROVE  f[i] \in KeptPages /\ b[i] = FamilyPages(f[i])
    OBVIOUS
  <2>1. f[i] = CHOOSE p \in KeptPages : b[i] = FamilyPages(p)
    OBVIOUS
  <2>2. \E p \in KeptPages : b[i] = FamilyPages(p)
    BY <1>7
  <2> HIDE DEF f
  <2> QED BY <2>1, <2>2
<1>10. f \in [1 .. MinFamilies -> KeptPages]
  BY <1>9
<1>11. \A i, j \in 1 .. MinFamilies : i # j => FamilyOf[f[i]] # FamilyOf[f[j]]
  <2> HIDE DEF f
  <2> SUFFICES ASSUME NEW i \in 1 .. MinFamilies, NEW j \in 1 .. MinFamilies,
                      FamilyOf[f[i]] = FamilyOf[f[j]]
               PROVE  i = j
    OBVIOUS
  <2>1. FamilyPages(f[i]) = FamilyPages(f[j])
    BY <1>8
  <2> QED BY <2>1, <1>6, <1>9
<1> QED BY <1>10, <1>11 DEF KeptPages

\* Research that stops without asking for a person has what it claims.
THEOREM PipelineIsBacked == PipelineSpec => []SufficientIsBacked
<1>1. ASSUME ShapeInv, EvidenceInv, stage = "complete", ~ResearchNeedsReview
      PROVE  /\ "independent" \in Required =>
                  \E f \in [1 .. MinFamilies -> {e.page : e \in AllFound}] :
                    \A i, j \in 1 .. MinFamilies : i # j => FamilyOf[f[i]] # FamilyOf[f[j]]
             /\ "challenge" \in Required => \E e \in AllFound : e.stance = "challenges"
             /\ \A k \in Required \intersect {"primary", "academic", "fact_check"} :
                  \E p \in {e.page : e \in {x \in AllFound : x.stance # "irrelevant"}} : TypeOf[p] = k
             /\ "context" \notin Required
  <2>1. \A kind \in Required : Satisfied(kind)
    BY <1>1 DEF EvidenceInv, ResearchNeedsReview, Missing
  <2>2. \A k \in kept : \E e \in AllFound : e.page = k.page /\ e.stance = k.stance
    <3> SUFFICES ASSUME NEW k \in kept
                 PROVE  \E e \in AllFound : e.page = k.page /\ e.stance = k.stance
      OBVIOUS
    <3>1. [page |-> k.page, stance |-> k.stance] \in AllFound
      BY <1>1, KeptWasFound
    <3> QED BY <3>1
  <2>3. "independent" \in Required =>
                  \E f \in [1 .. MinFamilies -> {e.page : e \in AllFound}] :
                    \A i, j \in 1 .. MinFamilies : i # j => FamilyOf[f[i]] # FamilyOf[f[j]]
    <3> SUFFICES ASSUME "independent" \in Required
                 PROVE  \E f \in [1 .. MinFamilies -> {e.page : e \in AllFound}] :
                    \A i, j \in 1 .. MinFamilies : i # j => FamilyOf[f[i]] # FamilyOf[f[j]]
      OBVIOUS
    <3>1. Cardinality(Families) >= MinFamilies
      BY <2>1 DEF Satisfied
    <3>2. PICK f \in [1 .. MinFamilies -> {k.page : k \in kept}] :
            \A i, j \in 1 .. MinFamilies : i # j => FamilyOf[f[i]] # FamilyOf[f[j]]
      BY <3>1, <1>1, FamiliesGivePages
    <3>3. {k.page : k \in kept} \subseteq {e.page : e \in AllFound}
      BY <2>2
    <3> QED BY <3>2, <3>3
  <2>4. "challenge" \in Required => \E e \in AllFound : e.stance = "challenges"
    BY <2>1, <2>2 DEF Satisfied, Challenges
  <2>5. \A k \in Required \intersect {"primary", "academic", "fact_check"} :
                  \E p \in {e.page : e \in {x \in AllFound : x.stance # "irrelevant"}} : TypeOf[p] = k
    <3> SUFFICES ASSUME NEW k \in Required, k \in {"primary", "academic", "fact_check"}
                 PROVE  \E e \in AllFound : e.stance # "irrelevant" /\ TypeOf[e.page] = k
      OBVIOUS
    <3>1. \E e \in Relevant : TypeOf[e.page] = k
      BY <2>1 DEF Satisfied
    <3> QED BY <3>1, <2>2 DEF Relevant
  <2>6. "context" \notin Required
    BY <2>1 DEF Satisfied
  <2> QED BY <2>3, <2>4, <2>5, <2>6
<1>2. ShapeInv /\ EvidenceInv => SufficientIsBacked
  BY <1>1 DEF SufficientIsBacked, AllFound
<1> QED BY <1>2, ShapeHolds, EvidenceHolds, PTL

-----------------------------------------------------------------------------
(* The budget.  A sum over results is the size of a set of units, so that  *)
(* a bound of it is an injection into an interval of that length.          *)

Fields == {"fetched", "models"}

\* Settled results the barrier has joined, and those it has yet to join.
Earlier == {a \in Settled : a[1] \in DOMAIN joined}
Current == Settled \ Earlier

FitsShare(r) ==
  /\ r \in Admitted
  /\ stored[Round][r].fetched <= Share(r)
  /\ MaxModels > 0 => stored[Round][r].models <= Share(r)

\* What has been joined is within the limits, and every role of the round under
\* way keeps to a share of what they leave.
BudgetInv ==
  /\ \A a \in Settled : stage # "none" /\ a[1] <= Round
  /\ Joined = Earlier
  /\ Spent("fetched") <= MaxPages
  /\ MaxModels > 0 => Spent("models") <= MaxModels
  /\ stage = "planned" =>
       /\ active \subseteq Admitted
       /\ \A r \in Roles : stored[Round][r] # NoResult => FitsShare(r)
  /\ Activations <= MaxActivations
  /\ Cardinality(active) <= MaxConcurrent

\* Dealing out among n receivers: the k-th unit of receiver i.
Slot(k, i, n) == (k - 1) * n + i

\* With the remainder given to the first receivers, what is dealt out is in the
\* whole, and no unit is dealt out twice.
LEMMA DealtOut ==
  ASSUME NEW n \in Nat \ {0}, NEW whole \in Nat,
         NEW i \in 1 .. n, NEW k \in Nat \ {0},
         k <= (whole \div n) + (IF i <= whole % n THEN 1 ELSE 0)
  PROVE  Slot(k, i, n) \in 1 .. whole
<1> DEFINE d == whole \div n
           e == whole % n
<1>1. d \in Nat /\ e \in 0 .. n - 1 /\ whole = d * n + e
  OBVIOUS
<1> HIDE DEF d, e
<1>2. k <= d + (IF i <= e THEN 1 ELSE 0)
  BY DEF d, e
<1>3. (k - 1) * n \in Nat
  OBVIOUS
<1>4. CASE k - 1 = d
  BY <1>1, <1>2, <1>3, <1>4 DEF Slot
<1>5. CASE k <= d
  <2>1. (k - 1) * n + n <= d * n
    <3>1. PICK z \in Nat : d = k + z
      BY <1>1, <1>5
    <3>2. d * n = (k - 1) * n + n + z * n /\ z * n \in Nat
      BY <3>1
    <3> QED BY <3>2, <1>3
  <2> QED BY <1>1, <1>3, <2>1 DEF Slot
<1> QED BY <1>1, <1>2, <1>4, <1>5

LEMMA DealtApart ==
  ASSUME NEW n \in Nat \ {0}, NEW i \in 1 .. n, NEW j \in 1 .. n,
         NEW k \in Nat \ {0}, NEW m \in Nat \ {0},
         Slot(k, i, n) = Slot(m, j, n)
  PROVE  i = j /\ k = m
<1>0. (k - 1) * n + i = (m - 1) * n + j
  BY DEF Slot
<1>1. ASSUME NEW a \in 1 .. n, NEW b \in 1 .. n, NEW x \in Nat \ {0}, NEW y \in Nat \ {0}, x < y
      PROVE  (x - 1) * n + a < (y - 1) * n + b
  <2>1. PICK z \in Nat : y = x + 1 + z
    BY <1>1
  <2>2. (y - 1) * n = (x - 1) * n + n + z * n /\ z * n \in Nat /\ (x - 1) * n \in Nat
    BY <2>1
  <2> QED BY <2>2
<1>2. (k - 1) * n \in Nat /\ (m - 1) * n \in Nat
  OBVIOUS
<1>3. ~(k < m)
  BY <1>0, <1>1, <1>2
<1>4. ~(m < k)
  BY <1>0, <1>1, <1>2
<1>5. k = m
  BY <1>3, <1>4
<1> QED BY <1>0, <1>2, <1>5

\* A sequence has no more different elements than its length.
LEMMA MembersCounted ==
  ASSUME NEW S, NEW s \in Seq(S)
  PROVE  /\ IsFiniteSet(ToSet(s)) /\ Cardinality(ToSet(s)) \in Nat
         /\ Cardinality(ToSet(s)) <= Len(s)
<1>1. Len(s) \in Nat /\ DOMAIN s = 1 .. Len(s) /\ s \in [1 .. Len(s) -> S]
  BY LenProperties
<1>2. ToSet(s) = {s[i] : i \in 1 .. Len(s)}
  BY <1>1 DEF ToSet
<1>3. s \in Surjection(1 .. Len(s), ToSet(s))
  BY <1>1, <1>2 DEF Surjection
<1>4. IsFiniteSet(1 .. Len(s)) /\ Cardinality(1 .. Len(s)) = Len(s)
  BY <1>1, FS_Interval
<1>5. IsFiniteSet(ToSet(s)) /\ Cardinality(ToSet(s)) <= Len(s)
  BY <1>3, <1>4, FS_Surjection
<1> QED BY <1>5, FS_CardinalityType

\* The prefix that a bound allows is not longer than the bound.
LEMMA PrefixLength ==
  ASSUME NEW S, NEW s \in Seq(S), NEW m \in Nat
  PROVE  Len(SubSeq(s, 1, Min({Len(s), m}))) <= m
<1> DEFINE n == Min({Len(s), m})
<1>1. Len(s) \in Nat /\ \A i \in 1 .. Len(s) : s[i] \in S
  BY LenProperties
<1>2. /\ Min({Len(s), m}) \in {Len(s), m}
      /\ Min({Len(s), m}) <= Len(s) /\ Min({Len(s), m}) <= m
  <2>1. Len(s) \in Int /\ m \in Int
    BY <1>1
  <2> QED BY <2>1, MinOfTwo
<1>3. n \in Nat
  BY <1>1, <1>2
<1>n. n <= Len(s) /\ n <= m
  BY <1>2
<1> HIDE DEF n
<1>4. \A i \in 1 .. n : s[i] \in S
  BY <1>1, <1>3, <1>n
<1>5. Len(SubSeq(s, 1, n)) = n
  BY <1>3, <1>4, SubSeqProperties
<1> QED BY <1>5, <1>n DEF n

\* The units of the settled results are finitely many.
LEMMA UnitsFinite ==
  ASSUME ShapeInv, NEW S \in SUBSET Settled, NEW field \in Fields
  PROVE  /\ IsFiniteSet(Units(stored, S, field))
         /\ Cardinality(Units(stored, S, field)) \in Nat
<1> DEFINE Box(a) == {a} \X (1 .. stored[a[1]][a[2]][field])
           N == Cardinality((1 .. MaxRounds) \X Roles)
<1>1. \A a \in S : stored[a[1]][a[2]][field] \in Nat
  BY DEF Settled, ShapeInv, Result, Fields
<1>2. \A a \in S : IsFiniteSet(Box(a))
  <2> TAKE a \in S
  <2>1. IsFiniteSet(1 .. stored[a[1]][a[2]][field])
    BY <1>1, FS_Interval
  <2> QED BY <2>1, FS_Singleton, FS_Product
<1>3. IsFiniteSet(S)
  <2>1. IsFiniteSet((1 .. MaxRounds) \X Roles)
    <3>1. IsFiniteSet(1 .. MaxRounds)
      BY FS_Interval, ResearchAssumption
    <3> QED BY <3>1, RolesFinite, FS_Product
  <2>2. S \in SUBSET ((1 .. MaxRounds) \X Roles)
    BY DEF Settled
  <2> QED BY <2>1, <2>2, FS_Subset
<1> DEFINE Boxes == {Box(a) : a \in S}
<1>4. IsFiniteSet(Boxes)
  <2> DEFINE box == [a \in S |-> Box(a)]
  <2>1. box \in Surjection(S, Boxes)
    BY DEF Surjection
  <2> HIDE DEF box, Boxes
  <2> QED BY <2>1, <1>3, FS_Surjection
<1>5. \A B \in Boxes : IsFiniteSet(B)
  BY <1>2
<1>6. Units(stored, S, field) = UNION Boxes
  BY DEF Units
<1> HIDE DEF Boxes
<1>7. IsFiniteSet(Units(stored, S, field))
  BY <1>4, <1>5, <1>6, FS_UNION
<1> QED BY <1>7, FS_CardinalityType

\* What joined rounds have spent is what their settled results add up to.
LEMMA SpentIsEarlier ==
  ASSUME ShapeInv, Joined = Earlier, NEW field
  PROVE  Spent(field) = Cardinality(Units(stored, Earlier, field))
<1>1. \A a \in Joined : joined[a[1]][a[2]] = stored[a[1]][a[2]]
  BY DEF Joined, ShapeInv
<1>2. Units(joined, Joined, field) = Units(stored, Earlier, field)
  BY <1>1 DEF Units
<1> QED BY <1>2 DEF Spent

\* Everything settled is in a joined round or in the one under way.
LEMMA TotalIsBoth ==
  ASSUME ShapeInv, Joined = Earlier, NEW field \in Fields
  PROVE  /\ Total(field) = Spent(field) + Cardinality(Units(stored, Current, field))
         /\ Total(field) \in Nat /\ Spent(field) \in Nat
         /\ Cardinality(Units(stored, Current, field)) \in Nat
<1> DEFINE E == Units(stored, Earlier, field)
           C == Units(stored, Current, field)
<1>1. Earlier \in SUBSET Settled /\ Current \in SUBSET Settled
  BY DEF Earlier, Current
<1>2. /\ IsFiniteSet(E) /\ Cardinality(E) \in Nat
      /\ IsFiniteSet(C) /\ Cardinality(C) \in Nat
  BY <1>1, UnitsFinite
<1>3. Units(stored, Settled, field) = E \union C
  BY <1>1 DEF Units, Current
<1>4. E \intersect C = {}
  BY DEF Units, Current
<1>5. Spent(field) = Cardinality(E)
  BY SpentIsEarlier
<1> HIDE DEF E, C
<1>6. Cardinality(E \union C) = Cardinality(E) + Cardinality(C) - Cardinality(E \intersect C)
  BY <1>2, FS_Union
<1>7. Cardinality(E \intersect C) = 0
  BY <1>4, FS_EmptySet
<1> QED BY <1>2, <1>3, <1>5, <1>6, <1>7 DEF Total, C

\* The capacity of a round is what the joined rounds have left.
LEMMA CapacityLeft ==
  ASSUME ShapeInv, BudgetInv
  PROVE  /\ Capacity \in Nat
         /\ Spent("fetched") + Capacity <= MaxPages
         /\ MaxModels > 0 => Spent("models") + Capacity <= MaxModels
<1>1. /\ Spent("fetched") \in Nat /\ Spent("fetched") <= MaxPages
      /\ Spent("models") \in Nat /\ (MaxModels > 0 => Spent("models") <= MaxModels)
  BY TotalIsBoth DEF BudgetInv, Fields
<1>2. MaxPages \in Nat /\ MaxModels \in Nat
  BY ResearchAssumption
<1> DEFINE p == MaxPages - Spent("fetched")
           m == MaxModels - Spent("models")
<1>3. p \in Nat /\ m \in Int /\ (MaxModels > 0 => m \in Nat)
  BY <1>1, <1>2
<1>4. Max({0, p}) = p /\ (MaxModels > 0 => Max({0, m}) = m)
  <2>1. /\ Max({0, p}) \in {0, p} /\ Max({0, p}) >= 0 /\ Max({0, p}) >= p
        /\ Max({0, m}) \in {0, m} /\ Max({0, m}) >= 0 /\ Max({0, m}) >= m
    <3> HIDE DEF p, m
    <3>1. p \in Int /\ m \in Int /\ 0 \in Int
      BY <1>3
    <3> QED BY <3>1, MaxOfTwo
  <2> HIDE DEF p, m
  <2> QED BY <1>3, <2>1
<1>5. Capacity = IF MaxModels > 0 THEN Min({Max({0, p}), Max({0, m})}) ELSE Max({0, p})
  BY DEF Capacity
<1>6. MaxModels > 0 => Min({p, m}) \in Nat /\ Min({p, m}) <= p /\ Min({p, m}) <= m
  BY <1>3, MinOfTwo
<1>7. /\ Capacity \in Nat /\ Capacity <= p
      /\ MaxModels > 0 => Capacity <= m
  <2> HIDE DEF p, m
  <2> QED BY <1>3, <1>4, <1>5, <1>6
<1> QED BY <1>1, <1>2, <1>7

\* A role's share is its part of the capacity, dealt out in the order of the team.
LEMMA ShareIsDealt ==
  ASSUME ShapeInv, BudgetInv, stage = "planned", NEW r \in Admitted
  PROVE  /\ Len(Team) \in Nat \ {0}
         /\ \E i \in 1 .. Len(Team) :
              /\ i = (CHOOSE j \in DOMAIN Team : Team[j] = r) /\ Team[i] = r
              /\ Share(r) \in Nat
              /\ Share(r) <= (Capacity \div Len(Team))
                               + (IF i <= Capacity % Len(Team) THEN 1 ELSE 0)
<1>1. Team \in Seq(Roles)
  BY RoundType DEF ShapeInv, Team, Round
<1>2. DOMAIN Team = 1 .. Len(Team) /\ Len(Team) \in Nat
  BY <1>1, LenProperties
<1>3. \E j \in DOMAIN Team : Team[j] = r
  BY DEF Admitted
<1> DEFINE i == CHOOSE j \in DOMAIN Team : Team[j] = r
           part == (Capacity \div Len(Team)) + (IF i <= Capacity % Len(Team) THEN 1 ELSE 0)
<1>4. i \in 1 .. Len(Team) /\ Team[i] = r
  BY <1>2, <1>3
<1>5. Share(r) = Min({MaxCandidates, part})
  BY DEF Share, Allowance
<1> HIDE DEF i
<1>6. Len(Team) \in Nat \ {0}
  BY <1>2, <1>4
<1>7. Capacity \in Nat
  BY CapacityLeft
<1>8. part \in Nat
  BY <1>6, <1>7
<1> HIDE DEF part
<1>9. MaxCandidates \in Nat
  BY ResearchAssumption
<1>10. Share(r) \in Nat /\ Share(r) <= part
  BY <1>5, <1>8, <1>9, MinOfTwo
<1> QED BY <1>4, <1>6, <1>10 DEF part, i

\* A round spends no more than its capacity, whichever of its roles have settled.
LEMMA RoundFits ==
  ASSUME ShapeInv, BudgetInv, stage = "planned", NEW field \in Fields,
         field = "models" => MaxModels > 0
  PROVE  Cardinality(Units(stored, Current, field)) <= Capacity
<1> DEFINE C == Units(stored, Current, field)
           n == Len(Team)
           Index(r) == CHOOSE j \in DOMAIN Team : Team[j] = r
           f == [u \in C |-> Slot(u[2], Index(u[1][2]), n)]
<1>1. Round \in 1 .. MaxRounds /\ DOMAIN joined = 1 .. Round - 1
  <2>1. Round \in 1 .. MaxRounds /\ Len(joined) = Round - 1
    BY RoundType DEF ShapeInv, JoinedRounds
  <2> QED BY <2>1, LenProperties DEF ShapeInv
<1>2. \A a \in Current : a[1] = Round /\ a[2] \in Roles /\ stored[Round][a[2]] # NoResult
                         /\ a = <<Round, a[2]>>
  BY <1>1 DEF Current, Earlier, Settled, BudgetInv
<1>3. \A u \in C : /\ u = <<u[1], u[2]>> /\ u[1] \in Current
                   /\ u[2] \in 1 .. stored[Round][u[1][2]][field]
  BY <1>2 DEF Units
<1>4. ASSUME NEW u \in C
      PROVE  /\ n \in Nat \ {0} /\ Index(u[1][2]) \in 1 .. n /\ Team[Index(u[1][2])] = u[1][2]
             /\ u[2] \in Nat \ {0}
             /\ u[2] <= (Capacity \div n) + (IF Index(u[1][2]) <= Capacity % n THEN 1 ELSE 0)
  <2> DEFINE r == u[1][2]
  <2>1. r \in Roles /\ stored[Round][r] # NoResult /\ u[2] \in 1 .. stored[Round][r][field]
    BY <1>2, <1>3
  <2>2. FitsShare(r)
    BY <2>1 DEF BudgetInv
  <2>3. stored[Round][r][field] <= Share(r)
    BY <2>2 DEF FitsShare, Fields
  <2>4. stored[Round][r][field] \in Nat
    <3>1. stored \in [1 .. MaxRounds -> [Roles -> Result \union {NoResult}]]
      BY DEF ShapeInv
    <3>2. stored[Round][r] \in Result
      BY <1>1, <2>1, <3>1
    <3>3. field = "fetched" \/ field = "models"
      BY DEF Fields
    <3> QED BY <3>2, <3>3 DEF Result
  <2>5. r \in Admitted
    BY <2>2 DEF FitsShare
  <2>6. /\ n \in Nat \ {0} /\ Index(r) \in 1 .. n /\ Team[Index(r)] = r
        /\ Share(r) \in Nat
        /\ Share(r) <= (Capacity \div n) + (IF Index(r) <= Capacity % n THEN 1 ELSE 0)
    BY <2>5, ShareIsDealt
  <2>7. Capacity \in Nat
    BY CapacityLeft
  <2> DEFINE part == (Capacity \div n) + (IF Index(r) <= Capacity % n THEN 1 ELSE 0)
  <2>8. part \in Nat
    BY <2>6, <2>7
  <2>9. u[2] <= part
    <3> HIDE DEF part, r
    <3>1. Share(r) <= part BY <2>6 DEF part
    <3> QED BY <2>1, <2>3, <2>4, <2>6, <2>8, <3>1
  <2> QED BY <2>1, <2>4, <2>6, <2>9
<1> HIDE DEF n, Index
<1>5. Capacity \in Nat
  BY CapacityLeft
<1>6. \A u \in C : f[u] \in 1 .. Capacity
  BY <1>4, <1>5, DealtOut
<1>7. ASSUME NEW u \in C, NEW v \in C, f[u] = f[v] PROVE u = v
  <2>1. Index(u[1][2]) = Index(v[1][2]) /\ u[2] = v[2]
    <3>1. Slot(u[2], Index(u[1][2]), n) = Slot(v[2], Index(v[1][2]), n)
      BY <1>7
    <3>2. /\ n \in Nat \ {0} /\ Index(u[1][2]) \in 1 .. n /\ Index(v[1][2]) \in 1 .. n
          /\ u[2] \in Nat \ {0} /\ v[2] \in Nat \ {0}
      BY <1>4
    <3> QED BY <3>1, <3>2, DealtApart
  <2>2. u[1][2] = v[1][2]
    BY <2>1, <1>4
  <2>3. u[1] = v[1]
    BY <2>2, <1>2, <1>3
  <2> QED BY <2>1, <2>3, <1>3
<1>8. f \in [C -> 1 .. Capacity] /\ DOMAIN f = C
  BY <1>6
<1> HIDE DEF f, C
<1>9. f \in Injection(C, 1 .. Capacity)
  BY <1>7, <1>8 DEF Injection, IsInjective
<1>10. IsFiniteSet(1 .. Capacity) /\ Cardinality(1 .. Capacity) = Capacity
  BY <1>5, FS_Interval
<1> QED BY <1>9, <1>10, FS_Injection DEF C

\* The limits hold for all that is settled.
LEMMA TotalFits ==
  ASSUME ShapeInv, BudgetInv
  PROVE  /\ Total("fetched") <= MaxPages
         /\ MaxModels > 0 => Total("models") <= MaxModels
<1>1. "fetched" \in Fields /\ "models" \in Fields /\ MaxPages \in Nat /\ MaxModels \in Nat
  BY ResearchAssumption DEF Fields
<1>2. Joined = Earlier
  BY DEF BudgetInv
<1>3. CASE stage = "planned"
  <2>1. Cardinality(Units(stored, Current, "fetched")) <= Capacity
    BY <1>1, <1>3, RoundFits
  <2>2. MaxModels > 0 => Cardinality(Units(stored, Current, "models")) <= Capacity
    BY <1>1, <1>3, RoundFits
  <2> QED BY <1>1, <1>2, <2>1, <2>2, TotalIsBoth, CapacityLeft
<1>4. CASE stage # "planned"
  <2>1. Current = {}
    <3>1. teams \in Seq(Seq(Roles)) /\ joined \in Seq(JoinedType)
      BY DEF ShapeInv
    <3>2. stage # "none" => DOMAIN joined = 1 .. Round
      BY <1>4, <3>1, LenProperties DEF ShapeInv, JoinedRounds
    <3>3. Round \in Nat
      BY <3>1, LenProperties DEF Round
    <3> QED BY <3>2, <3>3 DEF Current, Earlier, Settled, BudgetInv
  <2>2. \A field \in Fields : Cardinality(Units(stored, Current, field)) = 0
    BY <2>1, FS_EmptySet DEF Units
  <2>3. \A field \in Fields : Total(field) = Spent(field)
    BY <1>2, <2>2, TotalIsBoth
  <2> QED BY <1>1, <2>3 DEF BudgetInv
<1> QED BY <1>3, <1>4

\* The shares of a round and what is spent depend on teams and joined results.
LEMMA SharesKept ==
  ASSUME UNCHANGED <<teams, joined>>
  PROVE  /\ Admitted' = Admitted /\ Round' = Round /\ Activations' = Activations
         /\ \A r : Share(r)' = Share(r)
         /\ \A field : Spent(field)' = Spent(field)
<1>1. Round' = Round /\ Team' = Team /\ Joined' = Joined
  BY DEF Round, Team, Joined
<1>2. \A field : Spent(field)' = Spent(field)
  BY <1>1 DEF Spent, Units
<1>3. Capacity' = Capacity
  BY <1>2 DEF Capacity
<1>4. \A i : Allowance(i)' = Allowance(i)
  BY <1>1, <1>3 DEF Allowance
<1>5. Admitted' = Admitted /\ \A r : Share(r)' = Share(r)
  BY <1>1, <1>4 DEF Admitted, Share
<1>6. Activations' = Activations
  BY <1>1 DEF Activations, Assigned
<1> QED BY <1>1, <1>2, <1>5, <1>6

\* A step that neither settles nor joins, and leaves the roles within limits.
LEMMA BudgetFramed ==
  ASSUME BudgetInv, UNCHANGED <<teams, joined, stored>>,
         stage = "planned" \/ stage' # "planned",
         stage' = "none" => stage = "none",
         stage' = "planned" => active' \subseteq Admitted,
         Cardinality(active') <= MaxConcurrent
  PROVE  BudgetInv'
<1>1. Settled' = Settled /\ Joined' = Joined /\ Earlier' = Earlier
  BY DEF Settled, Joined, Earlier
<1>2. \A r : FitsShare(r)' <=> FitsShare(r)
  BY SharesKept DEF FitsShare
<1> QED BY <1>1, <1>2, SharesKept DEF BudgetInv

LEMMA BudgetInit == ResearchInit => BudgetInv
<1> SUFFICES ASSUME ResearchInit PROVE BudgetInv
  OBVIOUS
<1>1. Settled = {} /\ Joined = {} /\ Earlier = {}
  BY DEF ResearchInit, Settled, Joined, Earlier
<1>2. \A field : Spent(field) = 0
  BY <1>1, FS_EmptySet DEF Spent, Units
<1>3. Activations = 0
  <2>1. Round = 0
    BY DEF ResearchInit, Round
  <2>2. Assigned = {}
    BY <2>1, ResearchAssumption DEF Assigned
  <2> QED BY <2>2, FS_EmptySet DEF Activations
<1>4. Cardinality(active) = 0
  BY FS_EmptySet DEF ResearchInit
<1> QED BY <1>1, <1>2, <1>3, <1>4, ResearchAssumption DEF BudgetInv, ResearchInit

\* A new round is within the slots left, and nothing of it is settled yet.
LEMMA BudgetNewRound ==
  ASSUME ShapeInv, BudgetInv, NEW team \in Seq(Roles), teams' = Append(teams, team),
         Activations + Len(team) <= MaxActivations,
         Round + 1 <= MaxRounds, stage \in {"none", "assessed"}, stage' = "planned",
         UNCHANGED <<joined, stored, active>>
  PROVE  BudgetInv'
<1>1. teams \in Seq(Seq(Roles)) /\ Round \in Nat
  BY LenProperties DEF ShapeInv, Round
<1>2. /\ Len(teams') = Round + 1 /\ teams'[Round + 1] = team
      /\ \A n \in 1 .. Round : teams'[n] = teams[n]
  BY <1>1, AppendProperties DEF Round
<1>3. Settled' = Settled /\ Joined' = Joined /\ Earlier' = Earlier
  BY DEF Settled, Joined, Earlier
<1>4. \A field : Spent(field)' = Spent(field)
  BY <1>3 DEF Spent, Units
<1>5. active' = {} /\ Cardinality(active') <= MaxConcurrent
  BY DEF ShapeInv, BudgetInv
<1>6. \A a \in Settled : a[1] <= Round
  BY DEF BudgetInv
<1>7. \A r \in Roles : stored'[Round'][r] = NoResult
  <2>1. Round' = Round + 1 /\ Round' \in 1 .. MaxRounds
    BY <1>1, <1>2, ResearchAssumption DEF Round
  <2> SUFFICES ASSUME NEW r \in Roles, stored[Round + 1][r] # NoResult PROVE FALSE
    BY <2>1
  <2>2. <<Round + 1, r>> \in Settled
    BY <2>1 DEF Settled
  <2> QED BY <1>1, <1>6, <2>2
<1>8. Activations' <= MaxActivations
  <2> DEFINE new == {Round + 1} \X ToSet(team)
  <2>1. IsFiniteSet(ToSet(team)) /\ Cardinality(ToSet(team)) <= Len(team)
        /\ Cardinality(ToSet(team)) \in Nat /\ Len(team) \in Nat
    BY MembersCounted, LenProperties
  <2>2. IsFiniteSet({Round + 1}) /\ Cardinality({Round + 1}) = 1
    BY FS_Singleton
  <2>3. /\ IsFiniteSet(new)
        /\ Cardinality(new) = Cardinality({Round + 1}) * Cardinality(ToSet(team))
    BY <2>1, <2>2, FS_Product
  <2>4. Cardinality(new) = Cardinality(ToSet(team))
    BY <2>1, <2>2, <2>3
  <2>5. Assigned' \subseteq Assigned \union new
    <3>1. Assigned' = {a \in (1 .. MaxRounds) \X Roles : a[1] <= Round + 1 /\ a[2] \in ToSet(teams'[a[1]])}
      BY <1>2 DEF Assigned, Round
    <3> SUFFICES ASSUME NEW a \in Assigned' PROVE a \in Assigned \union new
      OBVIOUS
    <3>2. /\ a \in (1 .. MaxRounds) \X Roles /\ a = <<a[1], a[2]>>
          /\ a[1] \in 1 .. Round + 1 /\ a[2] \in ToSet(teams'[a[1]])
      <4>1. /\ a \in (1 .. MaxRounds) \X Roles
            /\ a[1] <= Round + 1 /\ a[2] \in ToSet(teams'[a[1]])
        BY <3>1
      <4>2. a = <<a[1], a[2]>> /\ a[1] \in 1 .. MaxRounds
        BY <4>1
      <4>3. a[1] \in Nat /\ a[1] >= 1
        BY <4>2, ResearchAssumption
      <4>4. a[1] \in 1 .. Round + 1
        BY <1>1, <4>1, <4>3
      <4> QED BY <4>1, <4>2, <4>4
    <3>3. CASE a[1] = Round + 1
      BY <1>2, <3>2, <3>3
    <3>4. CASE a[1] # Round + 1
      <4>1. a[1] \in 1 .. Round
        BY <1>1, <3>2, <3>4
      <4> QED BY <1>2, <3>2, <4>1 DEF Assigned
    <3> QED BY <3>3, <3>4
  <2> HIDE DEF new
  <2>6. IsFiniteSet(Assigned) /\ Activations \in Nat
    <3>1. IsFiniteSet(1 .. MaxRounds)
      BY FS_Interval, ResearchAssumption
    <3>2. IsFiniteSet((1 .. MaxRounds) \X Roles)
      BY <3>1, RolesFinite, FS_Product
    <3>3. Assigned \in SUBSET ((1 .. MaxRounds) \X Roles)
      BY DEF Assigned
    <3> QED BY <3>2, <3>3, FS_Subset, ActivationsType
  <2>7. /\ IsFiniteSet(Assigned \union new)
        /\ Cardinality(Assigned \union new)
             = Cardinality(Assigned) + Cardinality(new) - Cardinality(Assigned \intersect new)
    BY <2>3, <2>6, FS_Union
  <2>8. Cardinality(Assigned \intersect new) \in Nat
    BY <2>6, FS_Intersection, FS_CardinalityType
  <2>9. Cardinality(Assigned') <= Cardinality(Assigned \union new)
        /\ Cardinality(Assigned') \in Nat /\ Cardinality(Assigned \union new) \in Nat
    BY <2>5, <2>7, FS_Subset, FS_CardinalityType
  <2>10. MaxActivations \in Nat
    BY ResearchAssumption
  <2> QED BY <2>1, <2>4, <2>6, <2>7, <2>8, <2>9, <2>10 DEF Activations
<1>9. \A a \in Settled' : stage' # "none" /\ a[1] <= Round'
  <2>1. Round' = Round + 1 /\ stage' # "none"
    BY <1>2 DEF Round
  <2>2. \A a \in Settled : a[1] \in Int
    BY DEF Settled
  <2>3. \A a \in Settled : a[1] <= Round + 1
    BY <1>1, <1>6, <2>2
  <2> QED BY <1>3, <2>1, <2>3
<1> QED BY <1>3, <1>4, <1>5, <1>7, <1>8, <1>9 DEF BudgetInv

LEMMA BudgetPlan ==
  ASSUME ShapeInv, BudgetInv, Plan
  PROVE  BudgetInv'
<1>1. /\ stage = "none" /\ stage' = "planned" /\ teams' = <<InitialTeam>>
      /\ UNCHANGED <<joined, stored, active>>
  BY DEF Plan
<1>2. teams = <<>> /\ Round = 0
  BY <1>1, EmptySeq DEF ShapeInv, Round
<1>3. InitialTeam \in Seq(Roles) /\ teams' = Append(teams, InitialTeam)
  BY <1>1, <1>2, InitialTeamType
<1>4. Len(InitialTeam) <= MaxActivations
  <2> DEFINE roles == (MinimumTeam \o Academic) \o FactCheck
  <2>2. roles \in Seq(Roles)
    BY InitialRolesType
  <2> HIDE DEF roles
  <2>3. MaxActivations \in Nat
    BY ResearchAssumption
  <2>4. Len(SubSeq(roles, 1, Min({Len(roles), MaxActivations}))) <= MaxActivations
    BY <2>2, <2>3, PrefixLength
  <2> QED BY <2>4 DEF InitialTeam, roles
<1>5. Activations = 0
  <2>1. Assigned = {}
    BY <1>2, ResearchAssumption DEF Assigned
  <2> QED BY <2>1, FS_EmptySet DEF Activations
<1>6. Activations + Len(InitialTeam) <= MaxActivations /\ Round + 1 <= MaxRounds
  BY <1>2, <1>3, <1>4, <1>5, LenProperties, ResearchAssumption
<1> QED BY <1>1, <1>3, <1>6, BudgetNewRound

LEMMA BudgetContinue ==
  ASSUME ShapeInv, BudgetInv, ContinueOrStop
  PROVE  BudgetInv'
<1> DEFINE slots == Max({0, MaxActivations - Activations})
           next == SubSeq(TargetedRoles, 1, Min({slots, Len(TargetedRoles)}))
<1>1. stage = "assessed" /\ UNCHANGED <<joined, stored, active>>
  BY DEF ContinueOrStop
<1>2. \/ stage' = "complete" /\ UNCHANGED teams
      \/ decision = "continue" /\ stage' = "planned" /\ teams' = Append(teams, next)
  BY DEF ContinueOrStop
<1>3. CASE stage' = "complete" /\ UNCHANGED teams
  <2>1. Cardinality(active') <= MaxConcurrent
    BY <1>1 DEF BudgetInv
  <2> QED BY <1>1, <1>3, <2>1, BudgetFramed
<1>4. CASE decision = "continue" /\ stage' = "planned" /\ teams' = Append(teams, next)
  <2>1. Activations \in Nat /\ Activations <= MaxActivations /\ MaxActivations \in Nat
    BY ActivationsType, ResearchAssumption DEF BudgetInv
  <2>2. slots \in Nat /\ Activations + slots <= MaxActivations
    <3> DEFINE left == MaxActivations - Activations
    <3>1. left \in Nat
      BY <2>1
    <3>2. Max({0, left}) \in {0, left} /\ Max({0, left}) >= left
      <4> HIDE DEF left
      <4>1. left \in Int /\ 0 \in Int
        BY <3>1
      <4> QED BY <4>1, MaxOfTwo
    <3>3. Max({0, left}) \in Nat /\ Activations + Max({0, left}) <= MaxActivations
      <4>1. Max({0, left}) = left
        <5> HIDE DEF left
        <5> QED BY <3>1, <3>2
      <4> QED BY <2>1, <3>1, <4>1
    <3> QED BY <3>3
  <2> HIDE DEF slots
  <2>3. next = SubSeq(TargetedRoles, 1, Min({Len(TargetedRoles), slots}))
    <3>1. {Len(TargetedRoles), slots} = {slots, Len(TargetedRoles)}
      OBVIOUS
    <3> QED BY <3>1
  <2>4. next \in Seq(Roles) /\ Len(next) <= slots
    <3>1. slots \in Int
      BY <2>2
    <3> HIDE DEF next
    <3> QED BY <2>2, <2>3, <3>1, TargetedRolesType, PrefixType, PrefixLength
  <2> HIDE DEF next
  <2>5. Round < MaxRounds /\ Round \in Nat /\ MaxRounds \in Nat
    BY <1>1, <1>4, RoundType, ResearchAssumption DEF ShapeInv
  <2>6. Activations + Len(next) <= MaxActivations /\ Round + 1 <= MaxRounds
    BY <2>1, <2>2, <2>4, <2>5, LenProperties
  <2> QED BY <1>1, <1>4, <2>4, <2>6, BudgetNewRound
<1> QED BY <1>2, <1>3, <1>4

LEMMA BudgetStart ==
  ASSUME ShapeInv, BudgetInv, NEW r \in Roles, Start(r)
  PROVE  BudgetInv'
<1>1. /\ stage = "planned" /\ r \in Admitted \ active /\ active' = active \union {r}
      /\ Cardinality(active) < MaxConcurrent
      /\ UNCHANGED <<stage, teams, joined, stored>>
  BY DEF Start, researchCheckpoint
<1>2. IsFiniteSet(active) /\ Cardinality(active) \in Nat
  BY RolesFinite, FS_Subset, FS_CardinalityType DEF ShapeInv
<1>3. Cardinality(active') = Cardinality(active) + 1
  BY <1>1, <1>2, FS_AddElement
<1>4. Cardinality(active') <= MaxConcurrent
  BY <1>1, <1>2, <1>3, ResearchAssumption
<1>5. active' \subseteq Admitted
  BY <1>1 DEF BudgetInv
<1> QED BY <1>1, <1>4, <1>5, BudgetFramed

\* Fewer roles are under way.
LEMMA FewerActive ==
  ASSUME ShapeInv, BudgetInv, active' \subseteq active
  PROVE  Cardinality(active') <= MaxConcurrent
<1>1. IsFiniteSet(active) /\ Cardinality(active) \in Nat
  BY RolesFinite, FS_Subset, FS_CardinalityType DEF ShapeInv
<1>2. Cardinality(active') <= Cardinality(active) /\ Cardinality(active') \in Nat
  BY <1>1, FS_Subset, FS_CardinalityType
<1> QED BY <1>1, <1>2, ResearchAssumption DEF BudgetInv

LEMMA BudgetSettle ==
  ASSUME ShapeInv, BudgetInv, NEW r \in Roles, Settle(r)
  PROVE  BudgetInv'
<1>1. /\ stage = "planned" /\ r \in active /\ active' = active \ {r}
      /\ UNCHANGED <<stage, teams, joined>>
  BY DEF Settle, researchCheckpoint, ShapeInv
<1>2. Round \in 1 .. MaxRounds /\ DOMAIN joined = 1 .. Round - 1
  <2>1. Round \in 1 .. MaxRounds /\ Len(joined) = Round - 1
    BY <1>1, RoundType DEF ShapeInv, JoinedRounds
  <2> QED BY <2>1, LenProperties DEF ShapeInv
<1>3. r \in Admitted /\ Share(r) \in Nat /\ active' \subseteq Admitted
  BY <1>1, ShareIsDealt DEF BudgetInv
<1>4. PICK result \in Outcomes(r) \union {FailedResult} :
         stored' = [stored EXCEPT ![Round][r] = result]
  BY DEF Settle
<1>5. result.fetched <= Share(r) /\ result.models <= Share(r)
  <2>1. CASE result = FailedResult
    BY <1>3, <2>1 DEF FailedResult
  <2>2. CASE result \in Outcomes(r)
    <3>1. PICK f \in Finds :
            /\ Cardinality(f.pages) <= Share(r) /\ f.fetched <= Share(r)
            /\ \E reading \in [f.pages -> StancesOf(r)] : result = Found(f, reading)
      BY <2>2 DEF Outcomes
    <3>2. result.fetched = f.fetched
      BY <3>1 DEF Found
    <3>3. result.models = IF Structured THEN Cardinality(f.pages) ELSE 0
      BY <3>1 DEF Found
    <3> QED BY <1>3, <3>1, <3>2, <3>3
  <2> QED BY <2>1, <2>2
<1>6. stored \in [1 .. MaxRounds -> [Roles -> Result \union {NoResult}]]
  BY DEF ShapeInv
<1>7. /\ stored'[Round][r] = result
      /\ \A n \in 1 .. MaxRounds, q \in Roles : n # Round \/ q # r => stored'[n][q] = stored[n][q]
  BY <1>2, <1>4, <1>6
<1>8. \A a \in Settled' : a \in Settled \/ a = <<Round, r>>
  BY <1>7 DEF Settled
<1>9. \A a \in Settled' : stage' # "none" /\ a[1] <= Round'
  <2>1. Round' = Round
    BY <1>1 DEF Round
  <2> QED BY <1>1, <1>2, <1>8, <2>1 DEF BudgetInv
<1>10. Joined' = Joined /\ Earlier' = Earlier
  <2>1. Joined' = Joined
    BY <1>1 DEF Joined
  <2>2. \A a \in (1 .. MaxRounds) \X Roles :
           a[1] \in DOMAIN joined => stored'[a[1]][a[2]] = stored[a[1]][a[2]]
    BY <1>2, <1>7
  <2>3. Earlier' = Earlier
    BY <1>1, <2>2 DEF Earlier, Settled
  <2> QED BY <2>1, <2>3
<1>11. /\ Admitted' = Admitted /\ Round' = Round /\ Activations' = Activations
       /\ \A q : Share(q)' = Share(q)
       /\ \A field : Spent(field)' = Spent(field)
  BY <1>1, SharesKept
<1>12. \A q \in Roles : stored'[Round'][q] # NoResult => FitsShare(q)'
  <2> SUFFICES ASSUME NEW q \in Roles, stored'[Round][q] # NoResult PROVE FitsShare(q)'
    BY <1>11
  <2>1. CASE q = r
    BY <1>3, <1>5, <1>7, <1>11, <2>1 DEF FitsShare
  <2>2. CASE q # r
    <3>1. stored'[Round][q] = stored[Round][q]
      BY <1>2, <1>7, <2>2
    <3>2. FitsShare(q)
      BY <1>1, <3>1 DEF BudgetInv
    <3> QED BY <1>11, <3>1, <3>2 DEF FitsShare
  <2> QED BY <2>1, <2>2
<1>13. Cardinality(active') <= MaxConcurrent
  BY <1>1, FewerActive
<1> QED BY <1>3, <1>9, <1>10, <1>11, <1>12, <1>13 DEF BudgetInv

LEMMA BudgetJoin ==
  ASSUME ShapeInv, BudgetInv, Join
  PROVE  BudgetInv'
<1>1. stage = "planned" /\ UNCHANGED <<teams, stored, active>>
  BY DEF Join
<1>2. CASE Admitted # ToSet(Team)
  <2>1. UNCHANGED <<stage, joined>>
    BY <1>2 DEF Join
  <2>2. active' \subseteq Admitted /\ Cardinality(active') <= MaxConcurrent
    BY <1>1 DEF BudgetInv
  <2> QED BY <1>1, <2>1, <2>2, BudgetFramed
<1>3. CASE Admitted = ToSet(Team)
  <2>1. /\ Round \in 1 .. MaxRounds /\ DOMAIN joined' = 1 .. Round
        /\ joined \in Seq(JoinedType) /\ Len(joined) = Round - 1
        /\ \A n \in 1 .. Round - 1 : joined'[n] = joined[n]
        /\ joined'[Round] = [r \in Admitted |-> stored[Round][r]]
    BY <1>3, JoinFacts DEF ShapeInv
  <2>2. DOMAIN joined = 1 .. Round - 1
    BY <2>1, LenProperties
  <2>3. stage' = "researched" /\ Settled' = Settled /\ Round' = Round
    BY <1>1, <1>3 DEF Join, Settled, Round
  <2>4. Earlier' = Settled
    BY <2>1, <2>3, ResearchAssumption DEF Earlier, BudgetInv, Settled
  <2>5. Joined' = Settled
    <3>1. ASSUME NEW n \in 1 .. Round, NEW r \in Roles
          PROVE  r \in DOMAIN joined'[n] <=> stored[n][r] # NoResult
      <4>1. CASE n = Round
        <5>1. stored[Round][r] # NoResult => r \in Admitted
          BY <1>1 DEF BudgetInv, FitsShare
        <5>2. r \in Admitted => stored[Round][r] # NoResult
          BY DEF Join
        <5> QED BY <2>1, <4>1, <5>1, <5>2
      <4>2. CASE n # Round
        <5>1. n \in 1 .. Round - 1 /\ joined'[n] = joined[n]
          BY <2>1, <4>2
        <5>2. n \in 1 .. MaxRounds
          BY <2>1, <5>1, ResearchAssumption
        <5>3. r \in DOMAIN joined[n] <=> <<n, r>> \in Joined
          BY <2>2, <5>1 DEF Joined
        <5>4. stored[n][r] # NoResult <=> <<n, r>> \in Earlier
          BY <2>2, <5>1, <5>2 DEF Earlier, Settled
        <5> QED BY <5>1, <5>3, <5>4 DEF BudgetInv
      <4> QED BY <4>1, <4>2
    <3>2. Joined' = {a \in (1 .. Round) \X Roles : a[2] \in DOMAIN joined'[a[1]]}
      BY <2>1 DEF Joined
    <3>3. Settled = {a \in (1 .. Round) \X Roles : stored[a[1]][a[2]] # NoResult}
      <4>1. \A a \in Settled : a[1] <= Round
        BY DEF BudgetInv
      <4> QED BY <2>1, <4>1, ResearchAssumption DEF Settled
    <3> QED BY <3>1, <3>2, <3>3
  <2>6. ShapeInv'
    BY ShapeJoin
  <2>7. \A field : Spent(field)' = Total(field)
    <3>1. \A a \in Joined' : joined'[a[1]][a[2]] = stored[a[1]][a[2]]
      BY <1>1, <2>6 DEF Joined, ShapeInv
    <3>2. \A field : Units(joined', Joined', field) = Units(stored, Settled, field)
      BY <2>5, <3>1 DEF Units
    <3> QED BY <3>2 DEF Spent, Total, Units
  <2>8. Spent("fetched")' <= MaxPages /\ (MaxModels > 0 => Spent("models")' <= MaxModels)
    BY <2>7, TotalFits
  <2>9. Activations' = Activations
    BY <1>1 DEF Activations, Assigned, Round
  <2> QED BY <1>1, <2>3, <2>4, <2>5, <2>8, <2>9 DEF BudgetInv
<1> QED BY <1>2, <1>3

LEMMA BudgetResearch ==
  ASSUME ShapeInv, BudgetInv, ResearchNext
  PROVE  BudgetInv'
<1>1. CASE Consolidate \/ Assess
  <2>1. /\ UNCHANGED <<teams, joined, stored, active>>
        /\ stage' \in {"consolidated", "assessed"}
    BY <1>1 DEF Consolidate, Assess
  <2> QED BY <2>1, FewerActive, BudgetFramed
<1>2. CASE CrashRound
  <2>1. UNCHANGED <<stage, teams, joined, stored>> /\ active' = {}
    BY <1>2 DEF CrashRound, researchCheckpoint
  <2> QED BY <2>1, FewerActive, BudgetFramed
<1>3. CASE \E r \in Roles : Start(r) \/ Settle(r)
  BY <1>3, BudgetStart, BudgetSettle
<1> QED BY <1>1, <1>2, <1>3, BudgetPlan, BudgetJoin, BudgetContinue DEF ResearchNext, Controller

\* The budget's invariant is inductive together with the shape of the checkpoint.
THEOREM BudgetInvHolds == PipelineSpec => []BudgetInv
<1>1. PipelineInit => BudgetInv
  BY BudgetInit DEF PipelineInit
<1>2. ShapeInv /\ BudgetInv /\ [PipelineNext]_pipelineVars => BudgetInv'
  <2> SUFFICES ASSUME ShapeInv, BudgetInv, [PipelineNext]_pipelineVars PROVE BudgetInv'
    OBVIOUS
  <2>1. CASE ResearchNext
    BY <2>1, BudgetResearch
  <2>2. CASE UNCHANGED researchVars
    <3>1. UNCHANGED <<stage, teams, joined, stored, active>>
      BY <2>2 DEF researchVars, researchCheckpoint
    <3>2. stage = "planned" => active' \subseteq Admitted
      BY <3>1 DEF BudgetInv
    <3> QED BY <3>1, <3>2, FewerActive, BudgetFramed
  <2> QED BY <2>1, <2>2, GraphStep
<1> QED BY <1>1, <1>2, ShapeHolds, PTL DEF PipelineSpec

\* The hard limits hold for all that is settled, for any number of pages, rounds
\* and roles at once: what a round deals out to its roles never exceeds what the
\* joined rounds have left.
THEOREM PipelineKeepsBudget == PipelineSpec => []BudgetHeld
<1>1. ShapeInv /\ BudgetInv => BudgetHeld
  BY TotalFits DEF BudgetHeld, BudgetInv, ShapeInv
<1> QED BY <1>1, ShapeHolds, BudgetInvHolds, PTL
=============================================================================
