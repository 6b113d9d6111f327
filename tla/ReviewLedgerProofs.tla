------------------------- MODULE ReviewLedgerProofs -------------------------
(***************************************************************************)
(* The chain and the separation of duties of ReviewLedger, for any         *)
(* requests, people and records, and that the API under GraphReview uses   *)
(* the ledger only in ways its specification allows.                       *)
(***************************************************************************)
EXTENDS GraphReview, TLAPS

\* One more event: the chain grows by one link and the rest stays.
LEMMA GrowTrail ==
  ASSUME LedgerTypeOK, NEW r \in Requests, Linear(events[r]),
         NEW action \in Actions, NEW entity \in Entities,
         AppendEvent(r, action, entity)
  PROVE  /\ events' \in [Requests -> Seq(Event)]
         /\ \A q \in Requests \ {r} : events'[q] = events[q]
         /\ Len(events'[r]) = Len(events[r]) + 1
         /\ \A i \in 1 .. Len(events[r]) : events'[r][i] = events[r][i]
         /\ events'[r][Len(events[r]) + 1]
              = [sequence |-> Len(events[r]) + 1, action |-> action,
                 entity |-> entity, previous |-> Len(events[r])]
<1> DEFINE e == [sequence |-> Len(events[r]) + 1, action |-> action,
                 entity |-> entity, previous |-> Current(r)]
<1>1. events[r] \in Seq(Event) /\ Len(events[r]) \in Nat
  BY DEF LedgerTypeOK
<1>2. Current(r) = Len(events[r])
  BY <1>1 DEF Current, Exists, Linear
<1>3. e \in Event
  BY <1>1, <1>2 DEF Event
<1>4. events' = [events EXCEPT ![r] = Append(events[r], e)]
  BY <1>1 DEF AppendEvent, LedgerTypeOK
<1> HIDE DEF e
<1>5. events'[r] = Append(events[r], e) /\ events' \in [Requests -> Seq(Event)]
  BY <1>1, <1>3, <1>4 DEF LedgerTypeOK
<1>6. \A q \in Requests \ {r} : events'[q] = events[q]
  BY <1>4 DEF LedgerTypeOK
<1>7. /\ Len(events'[r]) = Len(events[r]) + 1
      /\ \A i \in 1 .. Len(events[r]) : events'[r][i] = events[r][i]
      /\ events'[r][Len(events[r]) + 1] = e
  BY <1>1, <1>3, <1>5
<1> QED BY <1>2, <1>5, <1>6, <1>7 DEF e

\* What an operation on one request leaves true of the trails: the action is
\* new or a finding, and the row it tells of is the one just written.
LEMMA GrowChain ==
  ASSUME LedgerTypeOK, NEW r \in Requests, ChainAt(r),
         NEW action \in Actions, NEW entity \in Entities,
         AppendEvent(r, action, entity),
         ~Exists(r) <=> action = "request_created",
         action = "finding_added" => entity \in findings'[r],
         action = "decision_recorded" => entity = decision'[r],
         action = "approval_recorded" =>
           entity = approval'[r] /\ Recorded(r, "decision_recorded"),
         action = "revision_recorded" =>
           entity = revision'[r] /\ Recorded(r, "approval_recorded"),
         action # "finding_added" => ~Recorded(r, action),
         findings[r] \subseteq findings'[r],
         decision'[r] # decision[r] => action = "decision_recorded",
         approval'[r] # approval[r] => action = "approval_recorded",
         revision'[r] # revision[r] => action = "revision_recorded"
  PROVE  ChainAt(r)'
<1> DEFINE n == Len(events[r]) + 1
<1>0. Linear(events[r]) BY DEF ChainAt
<1>1. /\ Len(events'[r]) = n
      /\ \A i \in 1 .. Len(events[r]) : events'[r][i] = events[r][i]
      /\ events'[r][n] = [sequence |-> n, action |-> action,
                          entity |-> entity, previous |-> n - 1]
  <2>1. Len(events[r]) \in Nat BY DEF LedgerTypeOK
  <2> QED BY <1>0, <2>1, GrowTrail
<1>2. Len(events[r]) \in Nat /\ n \in Nat /\ n - 1 = Len(events[r])
  BY DEF LedgerTypeOK
<1>3. 1 .. n = (1 .. Len(events[r])) \union {n}
  BY <1>2
<1> HIDE DEF n
<1>4. Linear(events[r])'
  <2>1. \A i \in 1 .. Len(events[r]) :
          events'[r][i].sequence = i /\ events'[r][i].previous = i - 1
    BY <1>0, <1>1 DEF Linear
  <2>2. events'[r][n].sequence = n /\ events'[r][n].previous = n - 1
    BY <1>1
  <2> QED BY <1>1, <1>3, <2>1, <2>2 DEF Linear
<1>5. ASSUME NEW i \in 1 .. n PROVE ExplainedAt(r, i)'
  <2>1. CASE i \in 1 .. Len(events[r])
    <3>1. ExplainedAt(r, i) /\ events'[r][i] = events[r][i]
      BY <1>1, <2>1 DEF ChainAt
    <3>2. Recorded(r, events[r][i].action)
      BY <2>1 DEF Recorded
    <3>3. \A a : Preceded(events[r], i, a) => Preceded(events[r], i, a)'
      BY <1>1, <1>2, <2>1 DEF Preceded
    <3> QED BY <3>1, <3>2, <3>3 DEF ExplainedAt
  <2>2. CASE i = n
    <3>1. i = 1 <=> ~Exists(r)
      <4>1. Exists(r) <=> Len(events[r]) # 0 BY DEF Exists, LedgerTypeOK
      <4> QED BY <1>2, <2>2, <4>1
    <3>2. \A a : Recorded(r, a) => Preceded(events[r], i, a)'
      BY <1>1, <1>2, <2>2 DEF Recorded, Preceded
    <3> QED BY <1>1, <2>2, <3>1, <3>2 DEF ExplainedAt
  <2> QED BY <1>3, <2>1, <2>2
<1>6. \A a : Recorded(r, a) \/ a = action => Recorded(r, a)'
  BY <1>1, <1>2, <1>3 DEF Recorded
<1>7. Accounted(r)'
  BY <1>6 DEF ChainAt, Accounted
<1>8. OncePerRequest(r)'
  <2>1. \A i \in 1 .. Len(events[r]) :
          action # "finding_added" => events'[r][i].action # action
    BY <1>1 DEF Recorded
  <2>2. \A i, k \in 1 .. Len(events[r]) :
          /\ events'[r][i].action = events'[r][k].action
          /\ events'[r][i].action # "finding_added"
          => i = k
    BY <1>1 DEF ChainAt, OncePerRequest
  <2>3. events'[r][n].action = action
    BY <1>1
  <2> QED BY <1>1, <1>3, <2>1, <2>2, <2>3 DEF OncePerRequest
<1> QED BY <1>1, <1>4, <1>5, <1>7, <1>8 DEF ChainAt

-----------------------------------------------------------------------------
(* The ledger.                                                             *)

LedgerInv == LedgerTypeOK /\ ChainInv /\ SeparationOfDuties

\* A request the operation does not touch.
LEMMA OtherRequests ==
  ASSUME NEW q \in Requests, ChainAt(q), DutiesAt(q),
         events'[q] = events[q], findings'[q] = findings[q],
         decision'[q] = decision[q], approval'[q] = approval[q],
         revision'[q] = revision[q]
  PROVE  ChainAt(q)' /\ DutiesAt(q)'
BY DEF ChainAt, DutiesAt, ExplainedAt, Accounted, Recorded, OncePerRequest, Preceded, Linear

\* No event tells of a row that is not there.
LEMMA UnwrittenRow ==
  ASSUME LedgerTypeOK, NEW r \in Requests, ChainAt(r)
  PROVE  /\ decision[r] = None => ~Recorded(r, "decision_recorded")
         /\ approval[r] = None => ~Recorded(r, "approval_recorded")
         /\ revision[r] = None => ~Recorded(r, "revision_recorded")
<1>1. ASSUME NEW i \in 1 .. Len(events[r]) PROVE events[r][i].entity # None
  <2>1. events[r][i] \in Event BY DEF LedgerTypeOK
  <2> QED BY <2>1, NoneAssumption DEF Event
<1>2. \A i \in 1 .. Len(events[r]) : ExplainedAt(r, i) BY DEF ChainAt
<1> QED BY <1>1, <1>2 DEF Recorded, ExplainedAt

LEMMA LedgerInitially == LedgerInit => LedgerInv
<1> SUFFICES ASSUME LedgerInit PROVE LedgerInv
  OBVIOUS
<1>1. LedgerTypeOK
  <2>1. <<>> \in Seq(Event) OBVIOUS
  <2> QED BY <2>1 DEF LedgerInit, LedgerTypeOK
<1>2. ASSUME NEW r \in Requests PROVE ChainAt(r) /\ DutiesAt(r)
  <2>1. /\ events[r] = <<>> /\ Len(events[r]) = 0
        /\ decision[r] = None /\ approval[r] = None /\ revision[r] = None
    BY DEF LedgerInit
  <2> QED BY <2>1 DEF ChainAt, DutiesAt, Linear, Accounted, OncePerRequest
<1> QED BY <1>1, <1>2 DEF LedgerInv, ChainInv, SeparationOfDuties

LEMMA LedgerStep ==
  ASSUME LedgerInv, [LedgerNext]_ledgerVars
  PROVE  LedgerInv'
<1> USE DEF LedgerInv
<1> DEFINE Kept(r) == \A q \in Requests \ {r} : ChainAt(q)' /\ DutiesAt(q)'
<1>0. ASSUME NEW r \in Requests, LedgerTypeOK', Kept(r), ChainAt(r)', DutiesAt(r)'
      PROVE  LedgerInv'
  BY <1>0 DEF ChainInv, SeparationOfDuties
<1> HIDE DEF Kept
<1>1. ASSUME NEW r \in Requests, CreateRequest(r) PROVE LedgerInv'
  <2>1. AppendEvent(r, "request_created", r) /\ ~Exists(r)
    BY <1>1 DEF CreateRequest
  <2>2. ~Recorded(r, "request_created")
    <3>1. Len(events[r]) = 0 BY <2>1 DEF Exists, LedgerTypeOK
    <3> QED BY <3>1 DEF Recorded
  <2>3. /\ events' \in [Requests -> Seq(Event)]
        /\ \A q \in Requests \ {r} : events'[q] = events[q]
    BY <2>1, GrowTrail DEF ChainInv, ChainAt, Actions, Entities
  <2>4. ChainAt(r)'
    BY <1>1, <2>1, <2>2, GrowChain DEF CreateRequest, ChainInv, Actions, Entities
  <2>5. DutiesAt(r)'
    BY <1>1 DEF CreateRequest, SeparationOfDuties, DutiesAt
  <2>6. Kept(r)
    BY <1>1, <2>3, OtherRequests DEF CreateRequest, ChainInv, SeparationOfDuties, Kept
  <2>7. LedgerTypeOK'
    BY <1>1, <2>3 DEF CreateRequest, LedgerTypeOK
  <2> QED BY <1>0, <2>4, <2>5, <2>6, <2>7
<1>2. ASSUME NEW r \in Requests, NEW n \in Nat, NEW f \in Findings, AddFinding(r, f, n)
      PROVE  LedgerInv'
  <2>1. AppendEvent(r, "finding_added", f) /\ Exists(r)
    BY <1>2 DEF AddFinding
  <2>2. findings'[r] = findings[r] \union {f}
        /\ \A q \in Requests \ {r} : findings'[q] = findings[q]
    BY <1>2 DEF AddFinding, LedgerTypeOK
  <2>3. /\ events' \in [Requests -> Seq(Event)]
        /\ \A q \in Requests \ {r} : events'[q] = events[q]
    BY <2>1, GrowTrail DEF ChainInv, ChainAt, Actions, Entities
  <2>4. ChainAt(r)'
    BY <1>2, <2>1, <2>2, GrowChain DEF AddFinding, ChainInv, Actions, Entities
  <2>5. DutiesAt(r)'
    BY <1>2 DEF AddFinding, SeparationOfDuties, DutiesAt
  <2>6. Kept(r)
    BY <1>2, <2>2, <2>3, OtherRequests DEF AddFinding, ChainInv, SeparationOfDuties, Kept
  <2>7. LedgerTypeOK'
    BY <1>2, <2>3 DEF AddFinding, LedgerTypeOK
  <2> QED BY <1>0, <2>4, <2>5, <2>6, <2>7
<1>3. ASSUME NEW r \in Requests, NEW n \in Nat, NEW d \in Decisions, RecordDecision(r, d, n)
      PROVE  LedgerInv'
  <2>1. AppendEvent(r, "decision_recorded", d) /\ Exists(r) /\ decision[r] = None
    BY <1>3 DEF RecordDecision
  <2>2. decision'[r] = d /\ \A q \in Requests \ {r} : decision'[q] = decision[q]
    BY <1>3 DEF RecordDecision, LedgerTypeOK
  <2>a. ~Recorded(r, "decision_recorded")
    BY <2>1, UnwrittenRow DEF ChainInv
  <2>3. /\ events' \in [Requests -> Seq(Event)]
        /\ \A q \in Requests \ {r} : events'[q] = events[q]
    BY <2>1, GrowTrail DEF ChainInv, ChainAt, Actions, Entities
  <2>4. ChainAt(r)'
    BY <1>3, <2>1, <2>2, <2>a, GrowChain DEF RecordDecision, ChainInv, Actions, Entities
  <2>5. DutiesAt(r)'
    BY <1>3, <2>1, NoneAssumption, ContentAssumption
       DEF RecordDecision, SeparationOfDuties, DutiesAt, LedgerTypeOK, Entities
  <2>6. Kept(r)
    BY <1>3, <2>2, <2>3, OtherRequests DEF RecordDecision, ChainInv, SeparationOfDuties, Kept
  <2>7. LedgerTypeOK'
    BY <1>3, <2>3 DEF RecordDecision, LedgerTypeOK
  <2> QED BY <1>0, <2>4, <2>5, <2>6, <2>7
<1>4. ASSUME NEW r \in Requests, NEW n \in Nat, NEW a \in Approvals, RecordApproval(r, a, n)
      PROVE  LedgerInv'
  <2>1. /\ AppendEvent(r, "approval_recorded", a) /\ Exists(r) /\ approval[r] = None
        /\ decision[r] = Covers[a] /\ Distinct(a, Covers[a])
    BY <1>4 DEF RecordApproval
  <2>2. approval'[r] = a /\ \A q \in Requests \ {r} : approval'[q] = approval[q]
    BY <1>4 DEF RecordApproval, LedgerTypeOK
  <2>a. ~Recorded(r, "approval_recorded")
    BY <2>1, UnwrittenRow DEF ChainInv
  <2>b. decision[r] # None /\ Recorded(r, "decision_recorded")
    BY <2>1, NoneAssumption, ContentAssumption DEF ChainInv, ChainAt, Accounted, Entities
  <2>3. /\ events' \in [Requests -> Seq(Event)]
        /\ \A q \in Requests \ {r} : events'[q] = events[q]
    BY <2>1, GrowTrail DEF ChainInv, ChainAt, Actions, Entities
  <2>4. ChainAt(r)'
    BY <1>4, <2>1, <2>2, <2>a, <2>b, GrowChain DEF RecordApproval, ChainInv, Actions, Entities
  <2>5. DutiesAt(r)'
    <3>1. revision[r] = None
      BY <2>1, NoneAssumption, ContentAssumption
         DEF SeparationOfDuties, DutiesAt, Entities
    <3> QED BY <1>4, <2>1, <2>2, <3>1 DEF RecordApproval, DutiesAt, Distinct, Identity
  <2>6. Kept(r)
    BY <1>4, <2>2, <2>3, OtherRequests DEF RecordApproval, ChainInv, SeparationOfDuties, Kept
  <2>7. LedgerTypeOK'
    BY <1>4, <2>3 DEF RecordApproval, LedgerTypeOK
  <2> QED BY <1>0, <2>4, <2>5, <2>6, <2>7
<1>5. ASSUME NEW r \in Requests, NEW n \in Nat, NEW v \in Revisions, RecordRevision(r, v, n)
      PROVE  LedgerInv'
  <2>1. /\ AppendEvent(r, "revision_recorded", v) /\ Exists(r) /\ revision[r] = None
        /\ decision[r] = Revises[v] /\ approval[r] = Under[v] /\ Under[v] # None
    BY <1>5 DEF RecordRevision
  <2>2. revision'[r] = v /\ \A q \in Requests \ {r} : revision'[q] = revision[q]
    BY <1>5 DEF RecordRevision, LedgerTypeOK
  <2>a. ~Recorded(r, "revision_recorded")
    BY <2>1, UnwrittenRow DEF ChainInv
  <2>b. Recorded(r, "approval_recorded")
    BY <2>1 DEF ChainInv, ChainAt, Accounted
  <2>3. /\ events' \in [Requests -> Seq(Event)]
        /\ \A q \in Requests \ {r} : events'[q] = events[q]
    BY <2>1, GrowTrail DEF ChainInv, ChainAt, Actions, Entities
  <2>4. ChainAt(r)'
    BY <1>5, <2>1, <2>2, <2>a, <2>b, GrowChain DEF RecordRevision, ChainInv, Actions, Entities
  <2>5. DutiesAt(r)'
    BY <1>5, <2>1, <2>2 DEF RecordRevision, SeparationOfDuties, DutiesAt
  <2>6. Kept(r)
    BY <1>5, <2>2, <2>3, OtherRequests DEF RecordRevision, ChainInv, SeparationOfDuties, Kept
  <2>7. LedgerTypeOK'
    BY <1>5, <2>3 DEF RecordRevision, LedgerTypeOK
  <2> QED BY <1>0, <2>4, <2>5, <2>6, <2>7
<1>6. CASE UNCHANGED ledgerVars
  BY <1>6, OtherRequests DEF ledgerVars, LedgerTypeOK, ChainInv, SeparationOfDuties
<1> QED BY <1>1, <1>2, <1>3, <1>4, <1>5, <1>6 DEF LedgerNext

\* Type, chain and duties hold in every state of the ledger.
THEOREM LedgerInvariant == LedgerSpec => []LedgerInv
BY LedgerInitially, LedgerStep, PTL DEF LedgerSpec

\* The trail of every request is a linear chain that accounts for every row in
\* a permitted order, for any number of requests, people and records.
THEOREM LedgerChain == LedgerSpec => []ChainInv
<1>1. LedgerInv => ChainInv BY DEF LedgerInv
<1> QED BY <1>1, LedgerInvariant, PTL

\* No verdict is revised without the approval of another person.
THEOREM DutiesSeparated == LedgerSpec => []SeparationOfDuties
<1>1. LedgerInv => SeparationOfDuties BY DEF LedgerInv
<1> QED BY <1>1, LedgerInvariant, PTL

-----------------------------------------------------------------------------
(* Nothing is rewritten.                                                   *)

\* What a step may do to the records of a request.
AppendOnlyAt(r) ==
  /\ \/ events'[r] = events[r]
     \/ \E e \in Event : events'[r] = Append(events[r], e)
  /\ findings[r] \subseteq findings'[r]
  /\ decision[r] # None => decision'[r] = decision[r]
  /\ approval[r] # None => approval'[r] = approval[r]
  /\ revision[r] # None => revision'[r] = revision[r]

AppendOnly == \A r \in Requests : AppendOnlyAt(r)

LEMMA StepAppends ==
  ASSUME LedgerInv, LedgerNext
  PROVE  AppendOnly
<1>0. /\ events \in [Requests -> Seq(Event)] /\ findings \in [Requests -> SUBSET Findings]
      /\ decision \in [Requests -> Decisions \union {None}]
      /\ approval \in [Requests -> Approvals \union {None}]
      /\ revision \in [Requests -> Revisions \union {None}]
      /\ None \notin Decisions /\ Covers \in [Approvals -> Decisions]
  BY NoneAssumption, ContentAssumption DEF LedgerInv, LedgerTypeOK, Entities
<1>1. ASSUME NEW q \in Requests, NEW action \in Actions, NEW entity \in Entities,
             AppendEvent(q, action, entity)
      PROVE  \A r \in Requests : \/ events'[r] = events[r]
                                 \/ \E e \in Event : events'[r] = Append(events[r], e)
  <2> DEFINE new == [sequence |-> Len(events[q]) + 1, action |-> action,
                     entity |-> entity, previous |-> Current(q)]
  <2>1. events' = [events EXCEPT ![q] = Append(@, new)]
    BY <1>1 DEF AppendEvent
  <2>2. new \in Event
    <3>1. events[q] \in Seq(Event) /\ Len(events[q]) \in Nat
      BY <1>0
    <3>2. Current(q) \in Nat
      <4>1. CASE events[q] = <<>>
        BY <4>1 DEF Current, Exists
      <4>2. CASE events[q] # <<>>
        <5>1. Len(events[q]) \in 1 .. Len(events[q])
          BY <3>1, <4>2
        <5>2. events[q][Len(events[q])] \in Event
          BY <3>1, <5>1
        <5> QED BY <4>2, <5>2 DEF Current, Exists, Event
      <4> QED BY <4>1, <4>2
    <3> QED BY <3>1, <3>2 DEF Event
  <2> HIDE DEF new
  <2> QED BY <1>0, <2>1, <2>2
<1>2. ASSUME NEW q \in Requests, CreateRequest(q) PROVE AppendOnly
  <2>1. q \in Entities /\ "request_created" \in Actions
    BY DEF Entities, Actions
  <2> QED BY <1>1, <1>2, <2>1 DEF CreateRequest, AppendOnly, AppendOnlyAt
<1>3. ASSUME NEW q \in Requests, NEW n \in Nat, NEW f \in Findings, AddFinding(q, f, n)
      PROVE  AppendOnly
  <2>1. f \in Entities /\ "finding_added" \in Actions
    BY DEF Entities, Actions
  <2> QED BY <1>0, <1>1, <1>3, <2>1 DEF AddFinding, AppendOnly, AppendOnlyAt
<1>4. ASSUME NEW q \in Requests, NEW n \in Nat, NEW d \in Decisions, RecordDecision(q, d, n)
      PROVE  AppendOnly
  <2>1. d \in Entities /\ "decision_recorded" \in Actions
    BY DEF Entities, Actions
  <2> QED BY <1>0, <1>1, <1>4, <2>1 DEF RecordDecision, AppendOnly, AppendOnlyAt
<1>5. ASSUME NEW q \in Requests, NEW n \in Nat, NEW a \in Approvals, RecordApproval(q, a, n)
      PROVE  AppendOnly
  <2>1. a \in Entities /\ "approval_recorded" \in Actions
    BY DEF Entities, Actions
  <2> QED BY <1>0, <1>1, <1>5, <2>1 DEF RecordApproval, AppendOnly, AppendOnlyAt
<1>6. ASSUME NEW q \in Requests, NEW n \in Nat, NEW v \in Revisions, RecordRevision(q, v, n)
      PROVE  AppendOnly
  <2>1. v \in Entities /\ "revision_recorded" \in Actions
    BY DEF Entities, Actions
  <2> QED BY <1>0, <1>1, <1>6, <2>1 DEF RecordRevision, AppendOnly, AppendOnlyAt
<1> QED BY <1>2, <1>3, <1>4, <1>5, <1>6 DEF LedgerNext

\* The ledger is append-only: no step removes or replaces an event, a finding, a
\* decision, an approval or a revision, whatever is sent and in whatever order.
THEOREM LedgerIsAppendOnly == LedgerSpec => [][AppendOnly]_ledgerVars
<1>1. LedgerInv /\ [LedgerNext]_ledgerVars => [AppendOnly]_ledgerVars
  BY StepAppends
<1> QED BY <1>1, LedgerInvariant, PTL DEF LedgerSpec

-----------------------------------------------------------------------------
(* The API.                                                                *)

\* The places of a submitted decision.
Submitted == {"deciding", "invoking", "resuming", "recording"}

\* What a handler in flight knows, and what it knows of the thread unless two
\* calls ran the graph at once.
CallOK(c) ==
  /\ call[c].at \in Submitted =>
       call[c].request \in Requests /\ call[c].decision \in Decisions
  /\ call[c].at = "starting" => call[c].mine.at = "running" /\ call[c].mine.applied = None
  /\ ~raced =>
       /\ call[c].at = "invoking" => thread.at = "parked" /\ thread.applied = None
       /\ call[c].at = "resuming" =>
            \/ call[c].mine.at = "parked" /\ call[c].mine.applied = None
            \/ call[c].mine.at = "reviewed" /\ call[c].mine.applied = call[c].decision
       /\ call[c].at = "recording" => call[c].decision = thread.applied

\* As long as no two calls ran the graph at once, the one that does has the
\* values of the latest checkpoint.
SoleRunner ==
  ~raced =>
    /\ \A c, o \in Clients : UnderWay(c) /\ UnderWay(o) => c = o
    /\ \A c \in Clients : Running(c) => call[c].mine.applied = thread.applied

GraphInv ==
  /\ ReviewTypeOK /\ \A c \in Clients : CallOK(c)
  /\ SoleRunner /\ StoresAgree
  /\ thread.at = "none" => thread.applied = None

LEMMA ReviewStepIsLedgerStep ==
  ASSUME GraphInv, [ReviewNext]_reviewVars
  PROVE  [LedgerNext]_ledgerVars
<1>1. ASSUME NEW c \in Clients, Handler(c) PROVE [LedgerNext]_ledgerVars
  <2>1. CASE RecordStep(c)
    <3>1. /\ call[c].request \in Requests /\ call[c].decision \in Decisions
          /\ call[c].expected \in Nat
      BY <2>1 DEF RecordStep, GraphInv, CallOK, Submitted, ReviewTypeOK, Call
    <3> QED BY <2>1, <3>1 DEF RecordStep, LedgerNext
  <2>2. CASE RequestReview(c)
    BY <2>2 DEF RequestReview, LedgerNext
  <2> QED BY <1>1, <2>1, <2>2 DEF Handler, ReadSnapshot, RunNode, RunOutOfSteps, ResumeGraph, InvokeGraph
<1>2. ASSUME NEW r \in Requests, NEW n \in 0 .. MaxSequence,
             \/ \E a \in Approvals : SubmitApproval(r, a, n)
             \/ \E v \in Revisions : SubmitRevision(r, v, n)
      PROVE  [LedgerNext]_ledgerVars
  <2>1. n \in Nat OBVIOUS
  <2> QED BY <1>2, <2>1 DEF SubmitApproval, SubmitRevision, LedgerNext
<1>3. CASE \/ \E c \in Clients, budget \in Budgets, review \in BOOLEAN : StartGraph(c, budget, review)
           \/ \E c \in Clients, r \in Requests, d \in Decisions, n \in 0 .. MaxSequence :
                SubmitDecision(c, r, d, n)
           \/ Crash \/ UNCHANGED reviewVars
  BY <1>3 DEF StartGraph, SubmitDecision, Crash, reviewVars
<1> QED BY <1>1, <1>2, <1>3 DEF ReviewNext

LEMMA ReviewInitially == ReviewInit => GraphInv
<1> SUFFICES ASSUME ReviewInit PROVE GraphInv
  OBVIOUS
<1>1. NoThread \in Checkpoint
  BY DEF NoThread, Checkpoint
<1>2. Idle \in Call /\ Idle.at = "idle"
  BY <1>1, ReviewBoundsAssumption DEF Idle, Call, Places
<1>3. LedgerTypeOK
  BY LedgerInitially DEF ReviewInit, LedgerInv
<1>4. ReviewTypeOK
  <2>1. thread \in Checkpoint /\ call \in [Clients -> Call]
    BY <1>1, <1>2 DEF ReviewInit
  <2>2. crashes \in 0 .. MaxCrashes
    BY ReviewBoundsAssumption DEF ReviewInit
  <2>3. raced \in BOOLEAN
    BY DEF ReviewInit
  <2> QED BY <1>3, <2>1, <2>2, <2>3 DEF ReviewTypeOK
<1>5. \A c \in Clients : call[c].at = "idle"
  BY <1>2 DEF ReviewInit
<1>6. thread.applied = None /\ \A r \in Requests : decision[r] = None
  BY DEF ReviewInit, NoThread, LedgerInit
<1> QED BY <1>4, <1>5, <1>6 DEF GraphInv, CallOK, Submitted, SoleRunner, StoresAgree, Running, UnderWay

\* A handler goes to its next place and the thread stays as it is.
LEMMA CallMoves ==
  ASSUME GraphInv, LedgerTypeOK', StoresAgree',
         NEW c \in Clients, NEW x \in Call, call' = [call EXCEPT ![c] = x],
         UNCHANGED <<thread, crashes>>,
         raced' \in BOOLEAN, raced => raced',
         CallOK(c)',
         ~raced' /\ x.at \in {"starting", "invoking", "resuming"} =>
            \A o \in Clients \ {c} : ~UnderWay(o),
         ~raced' /\ x.at \in {"starting", "resuming"} => x.mine.applied = thread.applied
  PROVE  GraphInv'
<1>1. call \in [Clients -> Call] BY DEF GraphInv, ReviewTypeOK
<1>2. call'[c] = x /\ \A o \in Clients \ {c} : call'[o] = call[o]
  BY <1>1
<1>3. ReviewTypeOK'
  BY <1>1 DEF GraphInv, ReviewTypeOK
<1>4. \A o \in Clients : CallOK(o)'
  BY <1>2 DEF GraphInv, CallOK
<1>5. SoleRunner'
  <2>1. /\ UnderWay(c)' <=> x.at \in {"starting", "invoking", "resuming"}
        /\ Running(c)' <=> x.at \in {"starting", "resuming"}
    BY <1>2 DEF UnderWay, Running
  <2>2. \A o \in Clients \ {c} : (UnderWay(o)' <=> UnderWay(o)) /\ (Running(o)' <=> Running(o))
    BY <1>2 DEF UnderWay, Running
  <2> QED BY <1>2, <2>1, <2>2 DEF GraphInv, SoleRunner
<1> QED BY <1>3, <1>4, <1>5 DEF GraphInv

\* The ledger and the checkpoint stay as they are.
LEMMA StoresKept ==
  ASSUME StoresAgree, UNCHANGED <<decision, thread>>, raced => raced'
  PROVE  StoresAgree'
BY DEF StoresAgree

LEMMA ReviewStep ==
  ASSUME GraphInv, LedgerInv', [ReviewNext]_reviewVars
  PROVE  GraphInv'
<1>0. LedgerTypeOK' /\ ReviewTypeOK /\ StoresAgree /\ call \in [Clients -> Call]
      /\ raced \in BOOLEAN /\ thread \in Checkpoint
  BY DEF LedgerInv, GraphInv, ReviewTypeOK
<1>i. NoThread \in Checkpoint /\ Idle \in Call /\ Idle.at = "idle" /\ NoThread.applied = None
  <2>1. NoThread \in Checkpoint /\ NoThread.applied = None BY DEF NoThread, Checkpoint
  <2> QED BY <2>1, ReviewBoundsAssumption DEF Idle, Call, Places
<1>1. ASSUME NEW c \in Clients, NEW budget \in Budgets, NEW review \in BOOLEAN,
             StartGraph(c, budget, review)
      PROVE  GraphInv'
  <2> DEFINE new == [Idle EXCEPT !.at = "starting", !.mine = Fresh(budget, review)]
  <2>1. Fresh(budget, review) \in Checkpoint
        /\ Fresh(budget, review).at = "running" /\ Fresh(budget, review).applied = None
    BY ReviewBoundsAssumption DEF Fresh, NoThread, Checkpoint
  <2>2. new \in Call /\ new.at = "starting" /\ new.mine = Fresh(budget, review)
    BY <2>1, <1>i DEF Call, Places, Idle
  <2> HIDE DEF new
  <2>3. call' = [call EXCEPT ![c] = new] /\ call'[c] = new
    BY <1>0, <1>1 DEF StartGraph, new
  <2>4. CallOK(c)'
    BY <2>1, <2>2, <2>3 DEF CallOK, Submitted
  <2>5. StoresAgree'
    BY <1>0, <1>1, StoresKept DEF StartGraph, Races, ledgerVars
  <2>6. thread.applied = None
    BY <1>1 DEF StartGraph, GraphInv
  <2>7. /\ UNCHANGED <<thread, crashes>>
        /\ raced' = (raced \/ \E o \in Clients \ {c} : UnderWay(o))
    BY <1>1 DEF StartGraph, Races
  <2>8. raced' \in BOOLEAN /\ (raced => raced')
        /\ (~raced' => \A o \in Clients \ {c} : ~UnderWay(o))
    BY <1>0, <2>7
  <2> QED
    BY <1>0, <2>1, <2>2, <2>3, <2>4, <2>5, <2>6, <2>7, <2>8, CallMoves
<1>2. ASSUME NEW c \in Clients, RunOutOfSteps(c) \/ RequestReview(c) \/ RecordStep(c)
      PROVE  GraphInv'
  <2>1. /\ call' = [call EXCEPT ![c] = Idle] /\ call'[c] = Idle
        /\ UNCHANGED <<thread, raced, crashes>>
    BY <1>0, <1>2 DEF RunOutOfSteps, RequestReview, RecordStep, Answer
  <2>2. CallOK(c)'
    BY <1>i, <2>1 DEF CallOK, Submitted
  <2>3. StoresAgree'
    <3>1. CASE UNCHANGED decision
      BY <1>0, <2>1, <3>1, StoresKept
    <3>2. CASE RecordStep(c) /\ RecordDecision(call[c].request, call[c].decision, call[c].expected)
      <4>1. \A r \in Requests : decision'[r] = decision[r] \/ decision'[r] = call[c].decision
        BY <1>0, <3>2 DEF RecordDecision, ReviewTypeOK, LedgerTypeOK
      <4>2. CallOK(c) /\ call[c].at = "recording"
        BY <3>2 DEF RecordStep, GraphInv
      <4> QED BY <1>0, <2>1, <4>1, <4>2 DEF StoresAgree, CallOK
    <3> QED
      BY <1>2, <3>1, <3>2 DEF RunOutOfSteps, RequestReview, RecordStep, CreateRequest, ledgerVars
  <2> QED BY <1>0, <1>i, <2>1, <2>2, <2>3, CallMoves
<1>3. ASSUME NEW c \in Clients, NEW r \in Requests, NEW d \in Decisions,
             NEW n \in 0 .. MaxSequence, SubmitDecision(c, r, d, n)
      PROVE  GraphInv'
  <2> DEFINE new == [Idle EXCEPT !.at = "deciding", !.request = r, !.decision = d, !.expected = n]
  <2>1. new \in Call /\ new.at = "deciding" /\ new.request = r /\ new.decision = d
    BY <1>i DEF Call, Places, Idle
  <2> HIDE DEF new
  <2>2. /\ call' = [call EXCEPT ![c] = new] /\ call'[c] = new
        /\ UNCHANGED <<thread, raced, crashes, ledgerVars>>
    BY <1>0, <1>3 DEF SubmitDecision, new
  <2>3. CallOK(c)'
    BY <2>1, <2>2 DEF CallOK, Submitted
  <2>4. StoresAgree'
    BY <1>0, <2>2, StoresKept DEF ledgerVars
  <2> QED BY <1>0, <2>1, <2>2, <2>3, <2>4, CallMoves
<1>4. ASSUME NEW c \in Clients, ResumeGraph(c) \/ InvokeGraph(c) \/ ReadSnapshot(c)
      PROVE  GraphInv'
  <2>0. /\ UNCHANGED <<thread, crashes, ledgerVars>>
        /\ CallOK(c) /\ SoleRunner /\ call[c] \in Call
        /\ call[c].at \in {"deciding", "invoking", "returning"}
    BY <1>0, <1>4 DEF ResumeGraph, InvokeGraph, ReadSnapshot, GraphInv
  <2>a. ASSUME raced => raced' PROVE StoresAgree'
    BY <1>0, <2>0, <2>a, StoresKept DEF ledgerVars
  <2>1. CASE ResumeGraph(c) /\ thread.applied = call[c].decision /\ Go(c, "recording")
    <3> DEFINE new == [call[c] EXCEPT !.at = "recording"]
    <3>1. /\ new \in Call /\ new.at = "recording"
          /\ new.decision = call[c].decision /\ new.request = call[c].request
      BY <2>0 DEF Call, Places
    <3> HIDE DEF new
    <3>2. call' = [call EXCEPT ![c] = new] /\ call'[c] = new
      BY <1>0, <2>1 DEF Go, new
    <3>3. UNCHANGED raced
      BY <2>0, <2>1, NoneAssumption DEF ResumeGraph, CallOK, Submitted, Entities
    <3>4. CallOK(c)'
      BY <2>0, <2>1, <3>1, <3>2 DEF CallOK, Submitted, ResumeGraph
    <3> QED BY <1>0, <2>0, <2>a, <3>1, <3>2, <3>3, <3>4, CallMoves
  <2>2. CASE Answer(c) /\ UNCHANGED raced
    <3>1. call' = [call EXCEPT ![c] = Idle] /\ call'[c] = Idle
      BY <1>0, <2>2 DEF Answer
    <3>2. CallOK(c)'
      BY <1>i, <3>1 DEF CallOK, Submitted
    <3> QED BY <1>0, <1>i, <2>0, <2>2, <2>a, <3>1, <3>2, CallMoves
  <2>3. CASE /\ ResumeGraph(c) /\ thread.applied = None /\ thread.at = "parked"
             /\ Go(c, "invoking") /\ Races(c)
    <3> DEFINE new == [call[c] EXCEPT !.at = "invoking"]
    <3>1. /\ new \in Call /\ new.at = "invoking"
          /\ new.decision = call[c].decision /\ new.request = call[c].request
      BY <2>0 DEF Call, Places
    <3> HIDE DEF new
    <3>2. call' = [call EXCEPT ![c] = new] /\ call'[c] = new
      BY <1>0, <2>3 DEF Go, new
    <3>3. CallOK(c)'
      BY <2>0, <2>3, <3>1, <3>2 DEF CallOK, Submitted, ResumeGraph
    <3>4. raced' \in BOOLEAN /\ (raced => raced')
          /\ (~raced' => \A o \in Clients \ {c} : ~UnderWay(o))
      BY <1>0, <2>3 DEF Races
    <3> QED BY <1>0, <2>0, <2>a, <3>1, <3>2, <3>3, <3>4, CallMoves
  <2>4. CASE InvokeGraph(c)
    <3>1. /\ UNCHANGED raced /\ call[c].at = "invoking"
          /\ ~raced => /\ thread.at = "parked" /\ thread.applied = None
                       /\ \A o \in Clients \ {c} : ~UnderWay(o)
      BY <2>0, <2>4 DEF InvokeGraph, CallOK, SoleRunner, UnderWay
    <3>2. ASSUME NEW x \in Call, call' = [call EXCEPT ![c] = x],
                 x.decision = call[c].decision, x.request = call[c].request,
                 \/ x.at = "recording" /\ raced
                 \/ /\ x.at = "resuming" /\ x.mine.applied = thread.applied
                    /\ ~raced => x.mine.at = "parked"
          PROVE  GraphInv'
      <4>1. call'[c] = x
        BY <1>0, <3>2
      <4>2. CallOK(c)'
        BY <2>0, <3>1, <3>2, <4>1 DEF CallOK, Submitted
      <4> QED BY <1>0, <2>0, <2>a, <3>1, <3>2, <4>2, CallMoves
    <3>3. CASE thread.at = "closed"
      <4> DEFINE new == [call[c] EXCEPT !.at = "recording"]
      <4>1. /\ new \in Call /\ new.at = "recording"
            /\ new.decision = call[c].decision /\ new.request = call[c].request
        BY <2>0 DEF Call, Places
      <4>2. call' = [call EXCEPT ![c] = new] /\ raced
        BY <1>0, <2>4, <3>1, <3>3 DEF InvokeGraph, Go
      <4> HIDE DEF new
      <4> QED BY <3>2, <4>1, <4>2
    <3>4. CASE thread.at # "closed"
      <4> DEFINE place == IF Parks(thread) THEN "parked" ELSE thread.at
                 mine == [thread EXCEPT !.at = place]
                 new == [call[c] EXCEPT !.at = "resuming", !.mine = mine]
      <4>1. /\ mine \in Checkpoint /\ mine.applied = thread.applied
            /\ ~raced => mine.at = "parked"
        BY <1>0, <3>1 DEF Checkpoint
      <4>2. call' = [call EXCEPT ![c] = new]
        BY <1>0, <2>4, <3>4 DEF InvokeGraph
      <4> HIDE DEF mine
      <4>3. /\ new \in Call /\ new.at = "resuming" /\ new.mine = mine
            /\ new.decision = call[c].decision /\ new.request = call[c].request
        BY <2>0, <4>1 DEF Call, Places
      <4> HIDE DEF new
      <4> QED BY <3>2, <4>1, <4>2, <4>3
    <3> QED BY <3>3, <3>4
  <2>5. CASE ReadSnapshot(c) /\ Go(c, "requesting")
    <3> DEFINE new == [call[c] EXCEPT !.at = "requesting"]
    <3>1. new \in Call /\ new.at = "requesting"
      BY <2>0 DEF Call, Places
    <3> HIDE DEF new
    <3>2. call' = [call EXCEPT ![c] = new] /\ call'[c] = new /\ UNCHANGED raced
      BY <1>0, <2>5 DEF ReadSnapshot, Go, new
    <3>3. CallOK(c)'
      BY <3>1, <3>2 DEF CallOK, Submitted
    <3> QED BY <1>0, <2>0, <2>a, <3>1, <3>2, <3>3, CallMoves
  <2> QED BY <1>4, <2>1, <2>2, <2>3, <2>4, <2>5 DEF ResumeGraph, ReadSnapshot
<1>5. ASSUME NEW c \in Clients, RunNode(c) PROVE GraphInv'
  <2> DEFINE mine == call[c].mine
             m == Advanced(mine, call[c].decision)
             x == AfterNode(c, m)
  <2>0. /\ Running(c) /\ CallOK(c) /\ call[c] \in Call /\ mine \in Checkpoint
        /\ SoleRunner /\ StoresAgree
    BY <1>0, <1>5 DEF RunNode, GraphInv, Call
  <2>1. /\ thread' = m /\ call' = [call EXCEPT ![c] = x] /\ call'[c] = x
        /\ UNCHANGED <<raced, crashes, ledgerVars>>
    BY <1>0, <1>5 DEF RunNode
  <2>2. /\ m \in Checkpoint /\ m.at \in {"running", "parked", "reviewed", "closed"}
        /\ call[c].at = "starting" =>
             m.at \in {"running", "parked", "closed"} /\ m.applied = None
        /\ call[c].at = "resuming" /\ ~raced =>
             /\ m.at \in {"reviewed", "closed"} /\ m.applied = call[c].decision
             /\ mine.applied \in {None, call[c].decision}
    <3>1. mine.steps + 1 \in Nat
      BY <2>0 DEF Checkpoint
    <3>2. CASE call[c].at = "starting"
      <4>1. mine.at = "running" /\ mine.applied = None
        BY <2>0, <3>2 DEF CallOK
      <4>2. \/ m = [mine EXCEPT !.at = "parked"]
            \/ m = [mine EXCEPT !.steps = @ + 1]
            \/ m = [mine EXCEPT !.at = "closed", !.steps = @ + 1]
        BY <4>1 DEF Advanced
      <4> HIDE DEF m, mine
      <4> QED BY <2>0, <3>1, <3>2, <4>1, <4>2 DEF Checkpoint
    <3>3. CASE call[c].at = "resuming"
      <4> DEFINE reviewed == [mine EXCEPT !.at = "reviewed", !.steps = @ + 1,
                                          !.applied = call[c].decision]
                 closed == [mine EXCEPT !.at = "closed", !.steps = @ + 1]
      <4>1. ~raced => \/ mine.at = "parked" /\ mine.applied = None
                      \/ mine.at = "reviewed" /\ mine.applied = call[c].decision
        BY <2>0, <3>3 DEF CallOK
      <4>2. call[c].decision \in Decisions
        BY <2>0, <3>3 DEF CallOK, Submitted
      <4>3. \/ m = [mine EXCEPT !.at = "parked"] /\ mine.at = "running"
            \/ m = [mine EXCEPT !.steps = @ + 1] /\ mine.at = "running"
            \/ m = reviewed /\ mine.at = "parked"
            \/ m = closed /\ mine.at # "parked"
        BY DEF Advanced, Parks
      <4> HIDE DEF m, mine
      <4> QED BY <2>0, <3>1, <3>3, <4>1, <4>2, <4>3 DEF Checkpoint
    <3> QED BY <2>0, <3>2, <3>3 DEF Running
  <2> HIDE DEF m, mine
  <2>3. /\ x \in Call
        /\ call[c].at = "starting" =>
             \/ x.at = "returning"
             \/ x.at = "starting" /\ x.mine = m /\ m.at = "running"
        /\ call[c].at = "resuming" =>
             /\ x.decision = call[c].decision /\ x.request = call[c].request
             /\ \/ x.at = "resuming" /\ x.mine = m /\ m.at \notin {"parked", "closed"}
                \/ x.at = "recording"
    BY <1>i, <2>0, <2>2 DEF AfterNode, Call, Places, Running
  <2> HIDE DEF x
  <2>5. ReviewTypeOK'
    BY <1>0, <2>1, <2>2, <2>3 DEF ReviewTypeOK
  <2>6. ~raced => \/ thread.applied = None
                  \/ thread.applied = m.applied
    BY <2>0, <2>2 DEF SoleRunner, Running, mine, CallOK
  <2>7. CallOK(c)'
    BY <2>0, <2>1, <2>2, <2>3 DEF CallOK, Submitted, Running
  <2>a. ~raced => \A o \in Clients \ {c} : ~UnderWay(o)
    BY <2>0 DEF SoleRunner, UnderWay, Running
  <2>8. ASSUME NEW o \in Clients \ {c} PROVE CallOK(o)'
    <3>1. call'[o] = call[o] /\ CallOK(o) /\ None \notin Decisions
      BY <1>0, <2>1, NoneAssumption DEF GraphInv, Entities
    <3>2. ~raced => call[o].at \notin {"invoking", "resuming"}
      BY <2>a DEF UnderWay
    <3> QED BY <2>1, <2>6, <3>1, <3>2 DEF CallOK, Submitted
  <2>9. SoleRunner'
    <3>1. \A o \in Clients \ {c} : call'[o] = call[o]
      BY <1>0, <2>1
    <3>2. Running(c)' => x.mine = m
      BY <2>0, <2>1, <2>3 DEF Running
    <3> QED BY <2>1, <2>a, <3>1, <3>2 DEF SoleRunner, Running, UnderWay
  <2>10. StoresAgree'
    <3>1. ASSUME NEW r \in Requests, decision[r] # None, ~raced
          PROVE  decision[r] = m.applied
      <4>1. decision[r] = thread.applied
        BY <2>0, <3>1 DEF StoresAgree
      <4> QED BY <2>6, <3>1, <4>1
    <3> QED BY <2>1, <3>1 DEF StoresAgree, ledgerVars
  <2> QED BY <2>1, <2>2, <2>5, <2>7, <2>8, <2>9, <2>10 DEF GraphInv
<1>6. ASSUME NEW r \in Requests, NEW n \in 0 .. MaxSequence,
             \/ \E a \in Approvals : SubmitApproval(r, a, n)
             \/ \E v \in Revisions : SubmitRevision(r, v, n)
             \/ UNCHANGED reviewVars
      PROVE  GraphInv'
  <2>1. UNCHANGED graphVars /\ UNCHANGED decision
    BY <1>6 DEF SubmitApproval, SubmitRevision, RecordApproval, RecordRevision,
                reviewVars, ledgerVars
  <2> QED
    BY <1>0, <2>1 DEF GraphInv, ReviewTypeOK, CallOK, Submitted, SoleRunner, Running, UnderWay, StoresAgree, graphVars
<1>7. CASE UNCHANGED reviewVars
  BY <1>0, <1>7
  DEF GraphInv, ReviewTypeOK, CallOK, Submitted, SoleRunner, Running, UnderWay, StoresAgree, reviewVars, graphVars, ledgerVars
<1>8. CASE Crash
  <2>1. /\ call' \in [Clients -> Call] /\ \A c \in Clients : call'[c] = Idle
        /\ UNCHANGED <<thread, raced, decision>> /\ crashes' \in 0 .. MaxCrashes
    BY <1>0, <1>8, <1>i, ReviewBoundsAssumption DEF Crash, ledgerVars, ReviewTypeOK
  <2>2. \A c \in Clients : call'[c].at = "idle"
    BY <1>i, <2>1
  <2>3. (\A c \in Clients : CallOK(c)') /\ SoleRunner'
    BY <2>2 DEF CallOK, Submitted, SoleRunner, Running, UnderWay
  <2>4. StoresAgree'
    BY <1>0, <2>1, StoresKept
  <2> QED BY <1>0, <2>1, <2>3, <2>4 DEF GraphInv, ReviewTypeOK
<1> QED BY <1>1, <1>2, <1>3, <1>4, <1>5, <1>6, <1>7, <1>8 DEF ReviewNext, Handler

LEMMA ReviewInvariant == ReviewSpec => [](GraphInv /\ LedgerInv)
<1>1. ReviewInit => GraphInv /\ LedgerInv
  BY ReviewInitially, LedgerInitially DEF ReviewInit
<1>2. GraphInv /\ LedgerInv /\ [ReviewNext]_reviewVars => (GraphInv /\ LedgerInv)'
  BY ReviewStep, ReviewStepIsLedgerStep, LedgerStep
<1> QED BY <1>1, <1>2, PTL DEF ReviewSpec

\* The API uses the ledger only as its specification allows, so the chain and
\* the separation of duties hold under it too, whatever its requests race.
THEOREM ReviewImplementsLedger == ReviewSpec => LedgerSpec
<1>1. ReviewInit => LedgerInit BY DEF ReviewInit
<1>2. GraphInv /\ [ReviewNext]_reviewVars => [LedgerNext]_ledgerVars
  BY ReviewStepIsLedgerStep
<1> QED BY <1>1, <1>2, ReviewInvariant, PTL DEF ReviewSpec, LedgerSpec

\* The checkpoint, the calls and the tables hold values of their types.
THEOREM ReviewTypeCorrect == ReviewSpec => []ReviewTypeOK
<1>1. GraphInv => ReviewTypeOK BY DEF GraphInv
<1> QED BY <1>1, ReviewInvariant, PTL

\* A recorded decision is the one of the graph's latest checkpoint unless two
\* requests ran the graph at once, for any number of requests and reviewers.
THEOREM StoresAgreement == ReviewSpec => []StoresAgree
<1>1. GraphInv => StoresAgree BY DEF GraphInv
<1> QED BY <1>1, ReviewInvariant, PTL

-----------------------------------------------------------------------------
(* Reviews left half done.                                                 *)

\* A submission knows its request, and as long as that has no decision the
\* sequence number it was submitted with is still the one of the trail:
\* everything that is appended to a trail comes after the decision.
ExpectedFresh(c) ==
  call[c].at \in Submitted =>
    /\ Exists(call[c].request)
    /\ decision[call[c].request] = None =>
         Current(call[c].request) = call[c].expected

\* What is under way is in some call's hands: a thread between two nodes has the
\* call that runs it, a parked one the call that creates its request, and an
\* applied decision the call that records it.
RunsOn ==
  crashes = 0 /\ thread.at \in {"running", "reviewed"} =>
    OutOfSteps(thread) \/ \E c \in Clients : Running(c) /\ call[c].mine = thread

RequestComing ==
  crashes = 0 /\ thread.at = "parked" =>
    \/ \E r \in Requests : Exists(r)
    \/ \E c \in Clients : call[c].at \in {"returning", "requesting"}

RecordComing ==
  crashes = 0 /\ ~raced /\ thread.at = "closed" /\ thread.applied # None =>
    \/ \E r \in Requests : decision[r] = thread.applied
    \/ \E c \in Clients : call[c].at = "recording"

HandsInv ==
  /\ \A c \in Clients : ExpectedFresh(c)
  /\ RunsOn /\ RequestComing /\ RecordComing

\* What a step of the API may do to a request: it stays, its decision stays, and
\* until it has one its trail stays as it was created.
RequestKept(r) ==
  /\ Exists(r) => Exists(r)'
  /\ decision[r] # None => decision'[r] = decision[r]
  /\ Exists(r) /\ decision'[r] = None => events'[r] = events[r]

LEMMA UndecidedTrailKept ==
  ASSUME GraphInv, [ReviewNext]_reviewVars, NEW r \in Requests
  PROVE  RequestKept(r)
<1>0. /\ events \in [Requests -> Seq(Event)] /\ None \notin Decisions
      /\ decision \in [Requests -> Decisions \union {None}]
      /\ Covers \in [Approvals -> Decisions] /\ Revises \in [Revisions -> Decisions]
  BY NoneAssumption, ContentAssumption DEF GraphInv, ReviewTypeOK, LedgerTypeOK, Entities
<1>a. ASSUME NEW q \in Requests, NEW action, NEW e, AppendEvent(q, action, e)
      PROVE  (Exists(r) => Exists(r)') /\ (r # q => events'[r] = events[r])
  <2>1. events'[r] = IF r = q
                     THEN Append(events[q], [sequence |-> Len(events[q]) + 1, action |-> action,
                                             entity |-> e, previous |-> Current(q)])
                     ELSE events[r]
    BY <1>0, <1>a DEF AppendEvent
  <2>2. events[q] \in Seq(Event)
    BY <1>0
  <2>3. \A x : Len(Append(events[q], x)) = Len(events[q]) + 1 /\ Len(events[q]) \in Nat
    BY <2>2
  <2>4. \A x : Append(events[q], x) # <<>>
    BY <2>3
  <2> QED BY <2>1, <2>4 DEF Exists
<1>1. CASE UNCHANGED ledgerVars
  BY <1>1 DEF ledgerVars, Exists, RequestKept
<1>2. ASSUME NEW q \in Requests, CreateRequest(q) PROVE RequestKept(r)
  BY <1>0, <1>a, <1>2 DEF CreateRequest, RequestKept
<1>3. ASSUME NEW c \in Clients, RecordStep(c) PROVE RequestKept(r)
  <2>1. call[c].request \in Requests /\ call[c].decision \in Decisions
    BY <1>3 DEF RecordStep, GraphInv, CallOK, Submitted
  <2>2. CASE RecordDecision(call[c].request, call[c].decision, call[c].expected)
    BY <1>0, <1>a, <2>1, <2>2 DEF RecordDecision, RequestKept
  <2> QED BY <1>1, <1>3, <2>2 DEF RecordStep
<1>4. ASSUME NEW q \in Requests, NEW n \in 0 .. MaxSequence,
             \/ \E a \in Approvals : SubmitApproval(q, a, n)
             \/ \E v \in Revisions : SubmitRevision(q, v, n)
      PROVE  RequestKept(r)
  <2>1. /\ decision[q] # None /\ UNCHANGED decision
        /\ \E action, e : AppendEvent(q, action, e)
    BY <1>0, <1>4 DEF SubmitApproval, RecordApproval, SubmitRevision, RecordRevision
  <2> QED BY <1>a, <2>1 DEF RequestKept
<1>5. CASE \/ \E c \in Clients : \/ \E budget \in Budgets, review \in BOOLEAN : StartGraph(c, budget, review)
                                 \/ RunNode(c) \/ RunOutOfSteps(c)
                                 \/ ReadSnapshot(c) \/ ResumeGraph(c) \/ InvokeGraph(c)
                                 \/ \E q \in Requests, d \in Decisions, n \in 0 .. MaxSequence :
                                      SubmitDecision(c, q, d, n)
           \/ Crash
  BY <1>1, <1>5 DEF StartGraph, RunNode, RunOutOfSteps, ReadSnapshot, ResumeGraph,
                    InvokeGraph, SubmitDecision, Crash
<1>6. CASE \E c \in Clients : RequestReview(c)
  BY <1>2, <1>6 DEF RequestReview
<1>7. CASE UNCHANGED reviewVars
  BY <1>1, <1>7 DEF reviewVars
<1> QED BY <1>3, <1>4, <1>5, <1>6, <1>7 DEF ReviewNext, Handler

LEMMA HandsInitially == ReviewInit => HandsInv
BY DEF ReviewInit, HandsInv, ExpectedFresh, Submitted, RunsOn, RequestComing, RecordComing, NoThread, Idle

\* An existing request has an event, so its trail ends with its length.
LEMMA CurrentIsLength ==
  ASSUME LedgerInv, NEW r \in Requests, Exists(r)
  PROVE  Current(r) = Len(events[r])
<1>1. events[r] \in Seq(Event) /\ Linear(events[r])
  BY DEF LedgerInv, LedgerTypeOK, ChainInv, ChainAt
<1>2. Len(events[r]) \in 1 .. Len(events[r])
  BY <1>1 DEF Exists
<1> QED BY <1>1, <1>2 DEF Linear, Current

LEMMA ExpectedStep ==
  ASSUME GraphInv, LedgerInv, HandsInv, [ReviewNext]_reviewVars, NEW c \in Clients
  PROVE  ExpectedFresh(c)'
<1>0. call \in [Clients -> Call] /\ CallOK(c) /\ ExpectedFresh(c)
  BY DEF GraphInv, ReviewTypeOK, HandsInv
<1>1. CASE /\ call'[c].request = call[c].request /\ call'[c].expected = call[c].expected
           /\ call[c].at \in Submitted
  <2>1. call[c].request \in Requests
    BY <1>0, <1>1 DEF CallOK, Submitted
  <2>2. RequestKept(call[c].request)
    BY <2>1, UndecidedTrailKept
  <2> QED BY <1>0, <1>1, <2>2 DEF ExpectedFresh, RequestKept, Exists, Current
<1>2. CASE call'[c].at \notin Submitted
  BY <1>2 DEF ExpectedFresh
<1>3. ASSUME NEW r \in Requests, NEW d \in Decisions, NEW n \in 0 .. MaxSequence,
             SubmitDecision(c, r, d, n)
      PROVE  ExpectedFresh(c)'
  <2>1. /\ call'[c].request = r /\ call'[c].expected = n
        /\ UNCHANGED ledgerVars /\ Exists(r) /\ (decision[r] = None => Len(events[r]) = n)
    BY <1>0, <1>3 DEF SubmitDecision, Idle
  <2>2. Current(r) = Len(events[r])
    BY <2>1, CurrentIsLength
  <2> QED BY <2>1, <2>2 DEF ExpectedFresh, Exists, Current, ledgerVars
<1>4. CASE call'[c] = call[c]
  BY <1>1, <1>2, <1>4
<1>5. ASSUME NEW o \in Clients,
             \/ \E budget \in Budgets, review \in BOOLEAN : StartGraph(o, budget, review)
             \/ RequestReview(o) \/ RunOutOfSteps(o) \/ RecordStep(o)
      PROVE  ExpectedFresh(c)'
  <2>1. CASE o = c
    <3>1. \/ call'[c] = Idle
          \/ \E m : call'[c] = [Idle EXCEPT !.at = "starting", !.mine = m]
      BY <1>0, <1>5, <2>1 DEF StartGraph, RequestReview, RunOutOfSteps, RecordStep, Answer
    <3>2. \A m : /\ [Idle EXCEPT !.at = "starting", !.mine = m].at = "starting"
                 /\ Idle.at = "idle"
      BY DEF Idle
    <3>3. call'[c].at \in {"idle", "starting"}
      BY <3>1, <3>2
    <3> QED BY <1>2, <3>3 DEF Submitted
  <2>2. CASE o # c
    BY <1>0, <1>4, <1>5, <2>2 DEF StartGraph, RequestReview, RunOutOfSteps, RecordStep, Answer
  <2> QED BY <2>1, <2>2
<1>6. ASSUME NEW o \in Clients, ResumeGraph(o) \/ InvokeGraph(o) \/ ReadSnapshot(o)
      PROVE  ExpectedFresh(c)'
  <2>1. CASE o = c
    <3>1. \/ call'[c] = Idle \/ call'[c].at = "requesting"
          \/ /\ call[c].at \in {"deciding", "invoking"}
             /\ call'[c].request = call[c].request /\ call'[c].expected = call[c].expected
      BY <1>0, <1>6, <2>1 DEF ResumeGraph, InvokeGraph, ReadSnapshot, Answer, Go, Call
    <3> QED BY <1>1, <1>2, <3>1 DEF Idle, Submitted
  <2>2. CASE o # c
    BY <1>0, <1>4, <1>6, <2>2 DEF ResumeGraph, InvokeGraph, ReadSnapshot, Answer, Go
  <2> QED BY <2>1, <2>2
<1>7. ASSUME NEW o \in Clients, RunNode(o) PROVE ExpectedFresh(c)'
  <2>1. CASE o = c
    <3> DEFINE m == Advanced(call[c].mine, call[c].decision)
    <3>1. call'[c] = AfterNode(c, m) /\ call[c].at \in {"starting", "resuming"}
      BY <1>0, <1>7, <2>1 DEF RunNode, Running
    <3> HIDE DEF m
    <3>2. \/ call'[c].at \in {"returning", "starting"}
          \/ /\ call[c].at = "resuming"
             /\ call'[c].request = call[c].request /\ call'[c].expected = call[c].expected
      BY <1>0, <3>1 DEF AfterNode, Call
    <3> QED BY <1>1, <1>2, <3>2 DEF Submitted
  <2>2. CASE o # c
    BY <1>0, <1>4, <1>7, <2>2 DEF RunNode
  <2> QED BY <2>1, <2>2
<1>8. ASSUME NEW o \in Clients \ {c}, NEW r \in Requests, NEW d \in Decisions,
             NEW n \in 0 .. MaxSequence, SubmitDecision(o, r, d, n)
      PROVE  ExpectedFresh(c)'
  BY <1>0, <1>4, <1>8 DEF SubmitDecision
<1>9. CASE Crash
  BY <1>2, <1>9 DEF Crash, Idle, Submitted
<1>10. CASE \/ UNCHANGED reviewVars
            \/ \E r \in Requests, n \in 0 .. MaxSequence :
                 \/ \E a \in Approvals : SubmitApproval(r, a, n)
                 \/ \E v \in Revisions : SubmitRevision(r, v, n)
  BY <1>4, <1>10 DEF SubmitApproval, SubmitRevision, graphVars, reviewVars
<1>11. ASSUME NEW o \in Clients, NEW r \in Requests, NEW d \in Decisions,
              NEW n \in 0 .. MaxSequence, SubmitDecision(o, r, d, n)
       PROVE  ExpectedFresh(c)'
  <2>1. CASE o = c
    BY <1>3, <1>11, <2>1
  <2> QED BY <1>8, <1>11, <2>1
<1> QED BY <1>5, <1>6, <1>7, <1>9, <1>10, <1>11 DEF ReviewNext, Handler

LEMMA HandsStep ==
  ASSUME GraphInv, LedgerInv, HandsInv, [ReviewNext]_reviewVars
  PROVE  HandsInv'
<1>0. /\ call \in [Clients -> Call] /\ thread \in Checkpoint /\ \A c \in Clients : CallOK(c)
      /\ RunsOn /\ RequestComing /\ RecordComing /\ StoresAgree
      /\ \A r \in Requests : RequestKept(r)
  BY UndecidedTrailKept DEF GraphInv, ReviewTypeOK, HandsInv
<1>a. Idle.at = "idle" /\ None \notin Decisions
  BY NoneAssumption DEF Idle, Entities
\* A call that did not hold what is under way moves; the thread stays.
<1>b. ASSUME UNCHANGED <<thread, crashes>>, raced => raced', NEW c \in Clients,
             \A o \in Clients \ {c} : call'[o] = call[o],
             Running(c) => OutOfSteps(thread) \/ call[c].mine # thread,
             call[c].at \in {"returning", "requesting"} =>
               \/ thread.at # "parked" \/ call'[c].at = "requesting"
               \/ \E r \in Requests : Exists(r)',
             call[c].at = "recording" /\ ~raced => \E r \in Requests : decision'[r] = thread.applied
      PROVE  RunsOn' /\ RequestComing' /\ RecordComing'
  <2>1. RunsOn'
    BY <1>0, <1>b DEF RunsOn, Running, OutOfSteps, Parks
  <2>2. RequestComing'
    BY <1>0, <1>b DEF RequestComing, RequestKept
  <2>3. RecordComing'
    <3>1. SUFFICES ASSUME crashes = 0, ~raced, thread.at = "closed", thread.applied # None
                   PROVE  \/ \E r \in Requests : decision'[r] = thread.applied
                          \/ \E o \in Clients : call'[o].at = "recording"
      BY <1>b DEF RecordComing
    <3> QED BY <1>0, <1>b, <3>1 DEF RecordComing, RequestKept
  <2> QED BY <2>1, <2>2, <2>3
<1>1. ASSUME NEW c \in Clients,
             \/ \E budget \in Budgets, review \in BOOLEAN : StartGraph(c, budget, review)
             \/ \E r \in Requests, d \in Decisions, n \in 0 .. MaxSequence : SubmitDecision(c, r, d, n)
             \/ ReadSnapshot(c) \/ ResumeGraph(c) \/ InvokeGraph(c) \/ RunOutOfSteps(c)
      PROVE  RunsOn' /\ RequestComing' /\ RecordComing'
  <2>1. UNCHANGED <<thread, crashes>>
    BY <1>1 DEF StartGraph, SubmitDecision, ReadSnapshot, ResumeGraph, InvokeGraph, RunOutOfSteps
  <2>2. raced => raced'
    BY <1>1, Zenon DEF StartGraph, SubmitDecision, ReadSnapshot, ResumeGraph, InvokeGraph,
                       RunOutOfSteps, Races
  <2>3. \A o \in Clients \ {c} : call'[o] = call[o]
    <3>1. \/ \E x : call' = [call EXCEPT ![c] = x]
          \/ \E place : Go(c, place)
          \/ \E place, m : call' = [call EXCEPT ![c].at = place, ![c].mine = m]
      BY <1>1, Zenon DEF StartGraph, SubmitDecision, ReadSnapshot, ResumeGraph, InvokeGraph,
                         RunOutOfSteps, Answer
    <3> QED BY <1>0, <3>1 DEF Go
  <2>4. /\ Running(c) => OutOfSteps(call[c].mine)
        /\ call[c].at \notin {"requesting", "recording"}
    BY <1>a, <1>1 DEF StartGraph, SubmitDecision, ReadSnapshot, ResumeGraph, InvokeGraph,
                      RunOutOfSteps, Running
  <2>5. call[c].at = "returning" => thread.at # "parked" \/ call'[c].at = "requesting"
    <3>1. ASSUME ReadSnapshot(c) PROVE thread.at # "parked" \/ call'[c].at = "requesting"
      BY <1>0, <3>1 DEF ReadSnapshot, Go, Call
    <3>2. call[c].at = "returning" => ReadSnapshot(c)
      BY <1>a, <1>1 DEF StartGraph, SubmitDecision, ResumeGraph, InvokeGraph, RunOutOfSteps,
                        Running
    <3> QED BY <3>1, <3>2
  <2> QED BY <1>b, <2>1, <2>2, <2>3, <2>4, <2>5
<1>2. ASSUME NEW c \in Clients, RequestReview(c) PROVE RunsOn' /\ RequestComing' /\ RecordComing'
  <2>1. /\ UNCHANGED <<thread, crashes, raced>> /\ call[c].at = "requesting"
        /\ \A o \in Clients \ {c} : call'[o] = call[o]
    BY <1>0, <1>2 DEF RequestReview, Answer
  <2>2. \E r \in Requests : Exists(r)'
    <3>1. PICK r \in Requests : CreateRequest(r)
      BY <1>2 DEF RequestReview
    <3>2. events \in [Requests -> Seq(Event)] /\ events[r] = <<>>
      BY <3>1 DEF GraphInv, ReviewTypeOK, LedgerTypeOK, CreateRequest, Exists
    <3>3. \A x : Append(<<>>, x) # <<>>
      OBVIOUS
    <3> QED BY <3>1, <3>2, <3>3 DEF CreateRequest, AppendEvent, Exists
  <2> QED BY <1>b, <2>1, <2>2 DEF Running
<1>3. ASSUME NEW c \in Clients, RecordStep(c) PROVE RunsOn' /\ RequestComing' /\ RecordComing'
  <2> DEFINE r == call[c].request
             d == call[c].decision
  <2>1. /\ UNCHANGED <<thread, crashes, raced>> /\ call[c].at = "recording"
        /\ \A o \in Clients \ {c} : call'[o] = call[o]
    BY <1>0, <1>3 DEF RecordStep, Answer
  <2>2. /\ r \in Requests /\ d \in Decisions /\ (~raced => d = thread.applied)
        /\ decision[r] = None => Current(r) = call[c].expected
    BY <1>0, <2>1 DEF CallOK, Submitted, HandsInv, ExpectedFresh
  <2>3. ASSUME ~raced PROVE \E q \in Requests : decision'[q] = thread.applied
    <3>1. CASE RecordDecision(r, d, call[c].expected)
      <4>1. decision'[r] = d
        BY <2>2, <3>1 DEF RecordDecision, GraphInv, ReviewTypeOK, LedgerTypeOK
      <4> QED BY <2>2, <2>3, <4>1
    <3>2. CASE UNCHANGED ledgerVars /\ (Held(decision, d) \/ decision[r] # None)
      BY <1>0, <2>2, <2>3, <3>2 DEF Held, StoresAgree, ledgerVars
    <3> QED BY <1>3, <2>2, <3>1, <3>2 DEF RecordStep
  <2> QED BY <1>b, <2>1, <2>3 DEF Running
<1>4. ASSUME NEW c \in Clients, RunNode(c) PROVE RunsOn' /\ RequestComing' /\ RecordComing'
  <2> DEFINE mine == call[c].mine
             m == Advanced(mine, call[c].decision)
  <2>1. /\ Running(c) /\ CallOK(c) /\ thread' = m /\ call'[c] = AfterNode(c, m)
        /\ UNCHANGED <<raced, crashes, ledgerVars>> /\ mine \in Checkpoint
    BY <1>0, <1>4 DEF RunNode, Call
  <2>2. /\ call[c].at = "starting" => m.applied = None
        /\ m.at \in {"running", "parked", "reviewed", "closed"}
    <3>1. \/ m = [mine EXCEPT !.at = "parked"]
          \/ m = [mine EXCEPT !.steps = @ + 1] /\ mine.at = "running"
          \/ m = [mine EXCEPT !.at = "closed", !.steps = @ + 1]
          \/ /\ m = [mine EXCEPT !.at = "reviewed", !.steps = @ + 1, !.applied = call[c].decision]
             /\ mine.at = "parked"
      BY DEF Advanced
    <3> HIDE DEF m, mine
    <3>2. call[c].at = "starting" => mine.at = "running" /\ mine.applied = None
      BY <2>1 DEF CallOK, mine
    <3> QED BY <2>1, <3>1, <3>2 DEF Checkpoint
  <2> HIDE DEF m, mine
  <2>3. /\ m.at \in {"running", "reviewed"} => Running(c)' /\ call'[c].mine = m
        /\ m.at = "parked" => call'[c].at = "returning" \/ call[c].at = "resuming"
        /\ m.at = "closed" /\ m.applied # None => call'[c].at = "recording"
    BY <1>0, <2>1, <2>2 DEF AfterNode, Running, Call
  <2>4. call[c].at = "resuming" => \E r \in Requests : Exists(r)'
    BY <1>0, <2>1 DEF CallOK, Submitted, HandsInv, ExpectedFresh, RequestKept
  <2> QED BY <2>1, <2>3, <2>4 DEF RunsOn, RequestComing, RecordComing
<1>5. ASSUME \/ UNCHANGED reviewVars
             \/ \E r \in Requests, n \in 0 .. MaxSequence :
                  \/ \E a \in Approvals : SubmitApproval(r, a, n)
                  \/ \E v \in Revisions : SubmitRevision(r, v, n)
      PROVE  RunsOn' /\ RequestComing' /\ RecordComing'
  <2>1. UNCHANGED graphVars /\ UNCHANGED decision
    BY <1>5 DEF SubmitApproval, SubmitRevision, RecordApproval, RecordRevision,
                reviewVars, ledgerVars
  <2>2. RunsOn' /\ RecordComing'
    BY <1>0, <2>1 DEF RunsOn, RecordComing, Running, OutOfSteps, Parks, graphVars
  <2>3. RequestComing'
    BY <1>0, <2>1 DEF RequestComing, RequestKept, graphVars
  <2> QED BY <2>2, <2>3
<1>6. ASSUME Crash PROVE RunsOn' /\ RequestComing' /\ RecordComing'
  <2>1. crashes' # 0
    BY <1>6, ReviewBoundsAssumption DEF Crash, GraphInv, ReviewTypeOK
  <2> QED BY <2>1 DEF RunsOn, RequestComing, RecordComing
<1>7. RunsOn' /\ RequestComing' /\ RecordComing'
  <2>1. ASSUME NEW c \in Clients,
               \/ \E budget \in Budgets, review \in BOOLEAN : StartGraph(c, budget, review)
               \/ \E r \in Requests, d \in Decisions, n \in 0 .. MaxSequence :
                    SubmitDecision(c, r, d, n)
               \/ Handler(c)
        PROVE  RunsOn' /\ RequestComing' /\ RecordComing'
    BY <1>1, <1>2, <1>3, <1>4, <2>1, Zenon DEF Handler
  <2> QED BY <1>5, <1>6, <2>1, Zenon DEF ReviewNext
<1> QED BY <1>7, ExpectedStep DEF HandsInv

LEMMA HandsInvariant == ReviewSpec => []HandsInv
<1>1. GraphInv /\ LedgerInv /\ HandsInv /\ [ReviewNext]_reviewVars => HandsInv'
  BY HandsStep
<1> QED BY <1>1, HandsInitially, ReviewInvariant, PTL DEF ReviewSpec

\* Nothing but a crash, a race or the step budget leaves a review half done, for
\* any number of requests, reviewers and records: what no call has in its hands
\* is finished.
THEOREM ReviewsAreFinished == ReviewSpec => []HalfDoneOnlyByFault
<1>1. HandsInv => HalfDoneOnlyByFault
  <2> SUFFICES ASSUME HandsInv, AtRest, crashes = 0, ~raced
               PROVE  /\ thread.at = "parked" => \E r \in Requests : Exists(r)
                      /\ thread.at \in {"running", "reviewed"} => OutOfSteps(thread)
                      /\ thread.at = "closed" /\ thread.applied # None =>
                           \E r \in Requests : decision[r] = thread.applied
    BY DEF HalfDoneOnlyByFault
  <2>1. \A c \in Clients : call[c].at = "idle"
    BY DEF AtRest, Idle
  <2> QED BY <2>1 DEF HandsInv, RunsOn, RequestComing, RecordComing, Running
<1> QED BY <1>1, HandsInvariant, PTL
=============================================================================
