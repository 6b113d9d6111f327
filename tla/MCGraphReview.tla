--------------------------- MODULE MCGraphReview ---------------------------
(***************************************************************************)
(* GraphReview with two reviewers, of whom one writes her name in two      *)
(* ways: she confirms, he revises, and either tries to approve.            *)
(***************************************************************************)
EXTENDS GraphReview, TLC

CONSTANTS confirm, revise, byAnn, byBob, refuse, change

MCFolded == ("ann" :> "ann" @@ "Ann" :> "ann" @@ "bob" :> "bob")
MCReviewer == (confirm :> "bob" @@ revise :> "ann")
MCProposal == (confirm :> None @@ revise :> "false")
MCCovers == (byAnn :> revise @@ byBob :> revise @@ refuse :> revise)
MCApprover == (byAnn :> "Ann" @@ byBob :> "bob" @@ refuse :> "bob")
MCRevises == (change :> revise)
MCUnder == (change :> byBob)
MCRevised == (change :> "false")

ReviewSymmetry == Permutations(Clients) \union Permutations(Requests)
=============================================================================
