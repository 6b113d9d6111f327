------------------------- MODULE MCEvidencePipeline -------------------------
(***************************************************************************)
(* EvidencePipeline over three pages of two families, one of them of a     *)
(* primary source.                                                         *)
(***************************************************************************)
EXTENDS EvidencePipeline, TLC

CONSTANTS p1, p2, p3

MCFamily == (p1 :> "agency" @@ p2 :> "agency" @@ p3 :> "press")
MCType == (p1 :> "primary" @@ p2 :> "other" @@ p3 :> "other")

\* A blank page, an inline one, and two fetched ones of one family.
MCFinds == {[pages |-> {}, fetched |-> 2], [pages |-> {p3}, fetched |-> 0],
            [pages |-> {p1, p2}, fetched |-> 2]}
=============================================================================
