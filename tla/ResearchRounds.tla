--------------------------- MODULE ResearchRounds ---------------------------
(***************************************************************************)
(* The research of one component: rounds of roles that run concurrently,   *)
(* a barrier that joins their results, and the sufficiency controller that *)
(* stops or plans another round.  One variable per field of the checkpoint *)
(* (each step saves it whole) and one for the table of settled results;    *)
(* only the roles under way are in memory and lost with the process.       *)
(*                                                                         *)
(* A page stands for a source with one passage, each on a host of its own. *)
(***************************************************************************)
EXTENDS Integers, Sequences, FiniteSets, FiniteSetsExt, SequencesExt

CONSTANTS
  Pages,         \* what searches can return
  FamilyOf,      \* the publisher or origin that makes pages dependent
  TypeOf,        \* the source type of a page, as far as requirements tell it
  Required,      \* the kinds of the declared requirements
  MinFamilies,   \* of the corroboration requirement
  AcademicClaim, \* the claim type calls for academic research
  Structured,    \* a model reads each passage, else the role sets the stance
  Readings,      \* the stances the model is given to answer
  Finds,         \* the search outcomes considered: [pages, fetched]
  MaxRounds, MaxConcurrent, MaxActivations, MaxSearches,
  MaxPages, MaxModels, MaxCandidates,   \* the fields of ResearchBudget
  MaxCrashes,    \* bound on the crashes of the process
  NoResult

Kinds == {"coverage", "primary", "independent", "challenge", "academic",
          "fact_check", "context"}
Roles == {"primary", "general", "challenger", "academic", "fact_check"}
Stances == {"supports", "challenges", "irrelevant"}

ASSUME ResearchAssumption ==
  /\ Required \subseteq Kinds /\ Required # {} /\ Readings \subseteq Stances
  /\ MinFamilies \in Nat \ {0} /\ MaxRounds \in 1 .. 5 /\ MaxConcurrent \in 1 .. 7
  /\ MaxActivations \in 3 .. 7 /\ MaxSearches \in Nat \ {0} /\ MaxPages \in Nat \ {0}
  /\ MaxModels \in Nat /\ MaxCandidates \in Nat \ {0} /\ MaxCrashes \in Nat
  /\ AcademicClaim \in BOOLEAN /\ Structured \in BOOLEAN
  /\ IsFiniteSet(Pages) /\ Finds \subseteq [pages : SUBSET Pages, fetched : Nat]

VARIABLES
  stage,    \* of the checkpoint
  teams,    \* the roles assigned in each round, in order
  joined,   \* the results of the rounds that have been joined
  kept,     \* the consolidated evidence
  audits,   \* the progress recorded with each assessed round
  decision, \* of the last assessment
  stored,   \* the table of settled results, by round and role
  active,   \* the roles inside the semaphore
  raised,   \* joining the round has raised
  crashes

researchCheckpoint == <<stage, teams, joined, kept, audits, decision>>
researchVars == <<researchCheckpoint, stored, active, raised, crashes>>

Evidence == [page : Pages, stance : Stances]
Result == [failed : BOOLEAN, found : SUBSET Evidence, fetched : Nat, models : Nat, searches : 0 .. 1]

ASSUME NoResultAssumption == NoResult \notin Result

\* Mutant of FailedResult: the fields without a default are left out.
FailedResultBare == [failed |-> TRUE, found |-> {}, fetched |-> 0]

FailedResult == [failed |-> TRUE, found |-> {}, fetched |-> 0, models |-> 0, searches |-> 0]

ResearchInit ==
  /\ stage = "none" /\ teams = <<>> /\ joined = <<>> /\ kept = {} /\ audits = <<>>
  /\ decision = "none"
  /\ stored = [n \in 1 .. MaxRounds |-> [r \in Roles |-> NoResult]]
  /\ active = {} /\ raised = FALSE /\ crashes = 0

Round == Len(teams)
Team == teams[Round]
Joined == {a \in (DOMAIN joined) \X Roles : a[2] \in DOMAIN joined[a[1]]}
Assigned == {a \in (1 .. MaxRounds) \X Roles : a[1] <= Round /\ a[2] \in ToSet(teams[a[1]])}
Activations == Cardinality(Assigned)

\* A sum over results is the number of the units they add up to, each counted
\* with the result it belongs to.
Units(table, results, field) ==
  UNION {{a} \X (1 .. table[a[1]][a[2]][field]) : a \in results}
Spent(field) == Cardinality(Units(joined, Joined, field))

-----------------------------------------------------------------------------
(* Planning the first round.                                               *)

MinimumTeam == <<"primary", "general", "challenger">>
Academic == IF AcademicClaim \/ "academic" \in Required THEN <<"academic">> ELSE <<>>
FactCheck == IF "fact_check" \in Required THEN <<"fact_check">> ELSE <<>>

InitialTeam ==
  LET roles == (MinimumTeam \o Academic) \o FactCheck
  IN SubSeq(roles, 1, Min({Len(roles), MaxActivations}))

Plan ==
  /\ stage = "none"
  /\ stage' = "planned" /\ teams' = <<InitialTeam>>
  /\ UNCHANGED <<joined, kept, audits, decision, stored, active, raised, crashes>>

-----------------------------------------------------------------------------
(* A round: the candidates left are divided among its roles.               *)

Capacity ==
  LET pages == Max({0, MaxPages - Spent("fetched")})
      models == Max({0, MaxModels - Spent("models")})
  IN IF MaxModels > 0 THEN Min({pages, models}) ELSE pages

\* Mutant of Allowance: the division is rounded up for every role.
AllowanceRoundedUp(i) ==
  Min({MaxCandidates, (Capacity + Len(Team) - 1) \div Len(Team)})

\* The first ones take the remainder.  Nothing is left for a role with zero.
Allowance(i) ==
  Min({MaxCandidates,
       (Capacity \div Len(Team)) + (IF i <= Capacity % Len(Team) THEN 1 ELSE 0)})

Admitted == {Team[i] : i \in {j \in DOMAIN Team : Allowance(j) >= 1}}
Share(r) == Allowance(CHOOSE i \in DOMAIN Team : Team[i] = r)

\* Mutant of Start: a resumed round runs its settled roles again.
StartAgain(r) ==
  /\ stage = "planned" /\ ~raised
  /\ r \in Admitted \ active /\ Cardinality(active) < MaxConcurrent
  /\ active' = active \union {r}
  /\ UNCHANGED <<researchCheckpoint, stored, raised, crashes>>

\* A settled role is not run again when the round is resumed.
Start(r) ==
  /\ stage = "planned" /\ ~raised
  /\ r \in Admitted \ active /\ stored[Round][r] = NoResult
  /\ Cardinality(active) < MaxConcurrent
  /\ active' = active \union {r}
  /\ UNCHANGED <<researchCheckpoint, stored, raised, crashes>>

\* What a role can come back with: one search, and evidence from candidates.
\* Inline and social candidates are not fetched, blank pages give no evidence.
StancesOf(r) ==
  IF Structured THEN Readings
  ELSE IF r = "challenger" THEN {"challenges"} ELSE {"supports"}

Found(f, reading) ==
  [failed |-> FALSE, found |-> {[page |-> p, stance |-> reading[p]] : p \in f.pages},
   fetched |-> f.fetched, searches |-> 1,
   models |-> IF Structured THEN Cardinality(f.pages) ELSE 0]

Outcomes(r) ==
  UNION {{Found(f, reading) : reading \in [f.pages -> StancesOf(r)]} :
           f \in {g \in Finds : Cardinality(g.pages) <= Share(r) /\ g.fetched <= Share(r)}}

\* Mutant of Settle: a worker that raises is not settled.
SettleUnlessFailed(r) ==
  /\ r \in active
  /\ \/ \E result \in Outcomes(r) : stored' = [stored EXCEPT ![Round][r] = result]
     \/ UNCHANGED stored
  /\ active' = active \ {r}
  /\ UNCHANGED <<researchCheckpoint, raised, crashes>>

\* A worker that raises is settled as a failure that used nothing.
Settle(r) ==
  /\ r \in active
  /\ \E result \in Outcomes(r) \union {FailedResult} :
       stored' = [stored EXCEPT ![Round][r] = result]
  /\ active' = active \ {r}
  /\ UNCHANGED <<researchCheckpoint, raised, crashes>>

\* The fan-in waits for every admitted role.  For a role without a share it
\* builds a result that lacks the fields ResearchResult requires, and raises:
\* what the admitted roles stored stays, the checkpoint stays planned.
Join ==
  /\ stage = "planned" /\ ~raised /\ active = {}
  /\ \A r \in Admitted : stored[Round][r] # NoResult
  /\ IF Admitted = ToSet(Team)
     THEN /\ stage' = "researched"
          /\ joined' = Append(joined, [r \in Admitted |-> stored[Round][r]])
          /\ UNCHANGED raised
     ELSE raised' = TRUE /\ UNCHANGED <<stage, joined>>
  /\ UNCHANGED <<teams, kept, audits, decision, stored, active, crashes>>

-----------------------------------------------------------------------------
(* Consolidation: one item per passage and stance.  The copy that is kept  *)
(* has the smallest of random identifiers: an earlier one, or one of this  *)
(* round.                                                                  *)

FoundIn(n) == UNION {joined[n][r].found : r \in DOMAIN joined[n]}
Keys == [page : Pages, stance : Stances, round : 1 .. MaxRounds]

Consolidate ==
  /\ stage = "researched" /\ stage' = "consolidated"
  /\ \E again \in SUBSET {k \in kept : [page |-> k.page, stance |-> k.stance] \in FoundIn(Round)} :
       kept' = {IF k \in again THEN [k EXCEPT !.round = Round] ELSE k : k \in kept}
               \union {[page |-> e.page, stance |-> e.stance, round |-> Round] :
                         e \in {e \in FoundIn(Round) : \A k \in kept :
                                  k.page # e.page \/ k.stance # e.stance}}
  /\ UNCHANGED <<teams, joined, audits, decision, stored, active, raised, crashes>>

-----------------------------------------------------------------------------
(* The sufficiency controller.                                             *)

Relevant == {e \in kept : e.stance # "irrelevant"}
Challenges == {e \in kept : e.stance = "challenges"}
Attempted == UNION {ToSet(teams[n]) : n \in DOMAIN teams}

\* A family is known by the hosts its evidence comes from.
Families == {{e.page : e \in {x \in kept : FamilyOf[x.page] = f}} :
               f \in {FamilyOf[e.page] : e \in kept}}

\* Mutant of Satisfied: corroboration counts pages, not families.
SatisfiedByPages(kind) ==
  \/ kind = "coverage" /\ Relevant # {}
  \/ kind \in {"primary", "academic", "fact_check"} /\ \E e \in Relevant : TypeOf[e.page] = kind
  \/ kind = "independent" /\ Cardinality({e.page : e \in kept}) >= MinFamilies
  \/ kind = "challenge" /\ "challenger" \in Attempted /\ Challenges # {}

\* No caller ever resolves a context requirement.
Satisfied(kind) ==
  \/ kind = "coverage" /\ Relevant # {}
  \/ kind \in {"primary", "academic", "fact_check"} /\ \E e \in Relevant : TypeOf[e.page] = kind
  \/ kind = "independent" /\ Cardinality(Families) >= MinFamilies
  \/ kind = "challenge" /\ "challenger" \in Attempted /\ Challenges # {}

Missing == {k \in Required : ~Satisfied(k)}

Progress == [covered |-> kept # {}, met |-> Required \ Missing,
             families |-> Families, challenges |-> Challenges]
NoProgress == [covered |-> FALSE, met |-> {}, families |-> {}, challenges |-> {}]

\* Some member is new since the last audit.
Gained ==
  LET before == IF audits = <<>> THEN NoProgress ELSE Last(audits)
  IN \/ Progress.covered /\ ~before.covered
     \/ \E field \in {"met", "families", "challenges"} :
          ~(Progress[field] \subseteq before[field])

BudgetExhausted ==
  \/ Round >= MaxRounds \/ Activations >= MaxActivations
  \/ Spent("searches") >= MaxSearches \/ Spent("fetched") >= MaxPages
  \/ MaxModels > 0 /\ Spent("models") >= MaxModels

\* late: the durations or the costs recorded so far add up to their limit.  No
\* caller names a review reason or requirements that cannot be resolved.
Assessment(late) ==
  IF Missing = {} THEN "sufficient"
  ELSE IF BudgetExhausted \/ late THEN "budget_exhausted"
  ELSE IF ~Gained THEN "diminishing_return"
  ELSE "continue"

Assess ==
  /\ stage = "consolidated" /\ stage' = "assessed"
  /\ \E late \in BOOLEAN : decision' = Assessment(late)
  /\ audits' = Append(audits, Progress)
  /\ UNCHANGED <<teams, joined, kept, stored, active, raised, crashes>>

\* The roles for the kinds missing, each where the first kind adds it.
Add(role, kind, before) ==
  IF kind \in Missing /\ before \intersect Missing = {} THEN <<role>> ELSE <<>>

TargetedRoles ==
  Add("primary", "primary", {}) \o Add("general", "independent", {})
  \o Add("challenger", "challenge", {}) \o Add("academic", "academic", {})
  \o Add("fact_check", "fact_check", {})
  \o Add("primary", "context", {"primary"}) \o Add("general", "context", {"independent"})
  \o Add("primary", "coverage", {"primary", "context"})
  \o Add("general", "coverage", {"independent", "context"})
  \o Add("challenger", "coverage", {"challenge"})

\* Only a continue decision plans another round, within the slots left.
ContinueOrStop ==
  /\ stage = "assessed"
  /\ LET slots == Max({0, MaxActivations - Activations})
         next == SubSeq(TargetedRoles, 1, Min({slots, Len(TargetedRoles)}))
     IN IF decision # "continue" \/ next = <<>>
        THEN stage' = "complete" /\ UNCHANGED <<teams, decision>>
        ELSE stage' = "planned" /\ teams' = Append(teams, next) /\ decision' = "none"
  /\ UNCHANGED <<joined, kept, audits, stored, active, raised, crashes>>

\* The report asks for a person unless every requirement is met.
ResearchNeedsReview == decision # "sufficient"

-----------------------------------------------------------------------------
\* The process dies while roles are under way: their calls are lost.
CrashRound ==
  /\ active # {} /\ crashes < MaxCrashes
  /\ crashes' = crashes + 1 /\ active' = {}
  /\ UNCHANGED <<researchCheckpoint, stored, raised>>

Controller == Plan \/ Join \/ Consolidate \/ Assess \/ ContinueOrStop

ResearchNext == Controller \/ CrashRound \/ \E r \in Roles : Start(r) \/ Settle(r)

-----------------------------------------------------------------------------
\* The checkpoint, the table and the running roles hold values of their types.
ResearchTypeOK ==
  /\ stage \in {"none", "planned", "researched", "consolidated", "assessed", "complete"}
  /\ Len(teams) <= MaxRounds /\ \A n \in DOMAIN teams : ToSet(teams[n]) \subseteq Roles
  /\ \A a \in Joined : joined[a[1]][a[2]] \in Result
  /\ kept \subseteq Keys /\ Len(audits) <= Len(teams)
  /\ decision \in {"none", "sufficient", "budget_exhausted", "diminishing_return", "continue"}
  /\ stored \in [1 .. MaxRounds -> [Roles -> Result \union {NoResult}]]
  /\ active \subseteq Roles
  /\ raised \in BOOLEAN /\ crashes \in 0 .. MaxCrashes

Settled == {a \in (1 .. MaxRounds) \X Roles : stored[a[1]][a[2]] # NoResult}
Total(field) == Cardinality(Units(stored, Settled, field))

\* The hard limits hold for everything settled, the results of roles that a
\* barrier has not joined yet included, however the roles interleave and
\* however often a round is resumed.
BudgetHeld ==
  /\ Total("fetched") <= MaxPages
  /\ MaxModels > 0 => Total("models") <= MaxModels
  /\ Activations <= MaxActivations /\ Round <= MaxRounds
  /\ Cardinality(active) <= MaxConcurrent

\* A result is settled once: no resumed round replaces what a role has found,
\* and what a joined round reports is what its roles have settled.
SettledOnce ==
  [][/\ \A a \in Settled : stored'[a[1]][a[2]] = stored[a[1]][a[2]]
     /\ \A n \in DOMAIN joined' : \A r \in DOMAIN joined'[n] : joined'[n][r] = stored'[n][r]]_researchVars

\* Research that stops without asking for a person has what it claims: enough
\* pages of different families, a challenge, sources of the required types.
SufficientIsBacked ==
  LET found == UNION {stored[a[1]][a[2]].found : a \in Settled}
      relevant == {e.page : e \in {x \in found : x.stance # "irrelevant"}}
  IN stage = "complete" /\ ~ResearchNeedsReview =>
       /\ "independent" \in Required =>
            \E f \in [1 .. MinFamilies -> {e.page : e \in found}] :
              \A i, j \in 1 .. MinFamilies : i # j => FamilyOf[f[i]] # FamilyOf[f[j]]
       /\ "challenge" \in Required => \E e \in found : e.stance = "challenges"
       /\ \A k \in Required \intersect {"primary", "academic", "fact_check"} :
            \E p \in relevant : TypeOf[p] = k
       /\ "context" \notin Required

\* Research does not give up early: it stops on a diminishing return only when
\* the last round brought no page that an earlier round had not brought.
GivesUpLate ==
  stage = "complete" /\ decision = "diminishing_return" =>
    {e.page : e \in FoundIn(Round)} \subseteq {e.page : e \in UNION {FoundIn(n) : n \in 1 .. Round - 1}}

\* The fan-in always hands the round to the controller, which then accounts
\* for the requirements a role without a share has left unmet.
ControllerReached == ~raised
=============================================================================
