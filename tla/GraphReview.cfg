SPECIFICATION ReviewSpec
CONSTANTS
  confirm = confirm
  revise = revise
  byAnn = byAnn
  byBob = byBob
  refuse = refuse
  change = change
  None = None
  Requests = {q1, q2}
  Findings = {}
  Decisions = {confirm, revise}
  Approvals = {byAnn, byBob, refuse}
  Revisions = {change}
  Identities = {"ann", "Ann", "bob"}
  Verdicts = {"false", "supported"}
  Folded <- MCFolded
  Reviewer <- MCReviewer
  Proposal <- MCProposal
  Covers <- MCCovers
  Approver <- MCApprover
  Approving = {byAnn, byBob}
  Revises <- MCRevises
  Under <- MCUnder
  Revised <- MCRevised
  Clients = {c1, c2}
  Budgets = {5, 9, 10, 12}
  MaxCrashes = 1
  MaxSequence = 3
SYMMETRY ReviewSymmetry
INVARIANTS ReviewTypeOK ChainInv SeparationOfDuties StoresAgree HalfDoneOnlyByFault
CHECK_DEADLOCK FALSE
