--------------------------- MODULE MCPublication ---------------------------
(***************************************************************************)
(* Publication over two passages and a report of two clauses: one passage  *)
(* varies over every hygiene, use and kind of source, the other backs or   *)
(* disputes it.                                                            *)
(***************************************************************************)
EXTENDS Publication, TLC

MCOverlap == (1 :> 2 @@ 2 :> 1)

Page == [social |-> FALSE, eligible |-> TRUE, uses |-> {}, decides |-> FALSE]
Post(eligible, decides) ==
  [social |-> TRUE, eligible |-> eligible, uses |-> {"decisive"}, decides |-> decides]

Passage(stance) == [stance |-> stance, relevant |-> TRUE, hedged |-> FALSE,
                    hygiene |-> "clean", use |-> "decisive", source |-> Page]
Support == Passage("supports")

Firsts == {Support, [Support EXCEPT !.hedged = TRUE],
           [Support EXCEPT !.hygiene = "caution"], [Support EXCEPT !.hygiene = "contaminated"],
           [Support EXCEPT !.use = "unspecified"], [Support EXCEPT !.use = "excluded"],
           [Support EXCEPT !.source = Post(TRUE, FALSE)],
           [Support EXCEPT !.source = Post(FALSE, FALSE)], Passage("contradicts")}
MCPackets ==
  {(1 :> p @@ 2 :> q) : p \in Firsts, q \in {Support, Passage("contradicts")}}

Quiet == [numeric |-> {}, temporal |-> {"verified"}, requirement |-> "met",
          openDependencies |-> FALSE, unknownQuality |-> FALSE, socialRisk |-> {},
          absolute |-> FALSE, sweeping |-> FALSE, independent |-> TRUE,
          contextChecked |-> TRUE, escalated |-> FALSE, requested |-> FALSE]
MCFactSets == {Quiet, [Quiet EXCEPT !.escalated = TRUE], [Quiet EXCEPT !.independent = FALSE],
               [Quiet EXCEPT !.requirement = "uncertain"], [Quiet EXCEPT !.temporal = {"error"}],
               [Quiet EXCEPT !.numeric = {"qualified"}, !.socialRisk = {"caution"}],
               [Quiet EXCEPT !.requested = TRUE]}

Says(words) == [words |-> words, marked |-> FALSE]
Drafted(label, decisive, contrary, summary) ==
  [label |-> label, decisive |-> decisive, contrary |-> contrary, review |-> FALSE,
   questions |-> FALSE,
   text |-> ("summary" :> Says(summary) @@ "detail" :> Says({2}))]
MCDrafts == {Drafted("supported", {1, 2}, {}, {1}), Drafted("supported", {2}, {}, {2}),
             Drafted("supported", {1}, {2}, {1, 2}), Drafted("contradicted", {2}, {}, {2}),
             Drafted("mixed", {1}, {2}, {1}), Drafted("unverifiable", {}, {}, {})}
MCWordings == {[words |-> {1}, marked |-> TRUE]}
=============================================================================
