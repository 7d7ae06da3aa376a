--------------------------- MODULE MCSimplexCycle ---------------------------
(* Eight inequalities in four unknowns, asserted one after the other.  Seven  *)
(* meet in the origin, so the constants of their rows are 0 and no pivot      *)
(* makes progress; the eighth does not.                                       *)
EXTENDS Simplex

VARIABLE seen  \* ghost: the tableaux met by the maximize_row in progress

Ge(c, a1, a2, a3, a4) == [kind |-> "ge", c |-> c, a |-> <<a1, a2, a3, a4>>]
Script == <<Ge(0, 2, -2, 0, 2), Ge(0, 0, -1, 1, 0), Ge(0, -2, -2, 2, -2), Ge(0, -2, 0, 2, 2),
            Ge(0, 0, 0, -2, 1), Ge(0, -2, -1, -2, -1), Ge(0, 1, -1, -2, -2), Ge(-1, -1, 0, -1, -2)>>
MCConstraint == Range(Script)

CycleInit == Init /\ seen = {}
CycleNext ==
  \/ AssertFac(Script[Len(asserted) + 1]) /\ seen' = {}
  \/ Maximize /\ seen' = IF pc' = "max" /\ goal' = goal THEN seen \union {solver.heap} ELSE {}
  \/ NextInQueue /\ seen' = {}
CycleSpec == CycleInit /\ [][CycleNext]_<<vars, seen>>

(* simplex.ml as "a decision procedure for linear rational arithmetic"        *)
(* (README.txt): every assertion is answered.  What maximize_row does next    *)
(* depends on the tableau alone, so it must never meet one again.             *)
Decides == pc = "max" => solver.heap \notin seen
=============================================================================
