SPECIFICATION Spec
CONSTANTS
  Items = {1, 2}
  Clauses = {"summary", "detail"}
  Critical = {"summary"}
  Overlap <- MCOverlap
  Packets <- MCPackets
  FactSets <- MCFactSets
  Drafts <- MCDrafts
  Wordings <- MCWordings
  NewLabels = {"supported", "mixed"}
  DisposedUses = {"decisive", "excluded"}
  MaxDispositions = 2
INVARIANTS PublicationTypeOK PublishedCitesClean UnreviewedIsBacked SocialBlockHolds EscalatedIsReviewed
PROPERTY ReleasedIsPublishable
CHECK_DEADLOCK FALSE
