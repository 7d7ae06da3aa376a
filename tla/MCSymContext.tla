--------------------------- MODULE MCSymContext ---------------------------
(* Two base identifiers that clash: the second identifier generated for    *)
(* "x" is "x0", which is also the first one generated for "x0".            *)
EXTENDS SymContext

MCBaseIdent == {"x", "x0"}
MCIdent == {"x", "x0", "x00"}
MCIndex == [s \in MCBaseIdent |-> [n \in {0} |->
  IF s = "x" THEN "x0" ELSE "x00"]]

MCOneBase == {"x"}
MCOneIdent == {"x", "x0"}
MCOneIndex == [s \in MCOneBase |-> [n \in 0..0 |-> "x0"]]

(* Bound: at most two terms are registered or assumed at a time. *)
MaxTerms == 2
FewTerms ==
  Cardinality(path_condition) + Cardinality(dummy_frac_terms)
    + Cardinality(pred_ctor_applications) <= MaxTerms
===========================================================================
