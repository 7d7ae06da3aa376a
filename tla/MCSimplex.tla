----------------------------- MODULE MCSimplex -----------------------------
(* Three families of constraints, one of which a behaviour asserts.           *)
EXTENDS Simplex

VARIABLE family

Fac(kind, c, a1, a2) == [kind |-> kind, c |-> c, a |-> <<a1, a2>>]

(* The three kinds of constraint. *)
MCMixed ==
  {Fac("ge", c, a1, a2) : c \in {-1, 0}, a1 \in -1..1, a2 \in {-1, 1}} \union
  {Fac(kind, c, a1, 1) : kind \in {"eq", "neq"}, c \in {0, 1}, a1 \in -1..1}

(* Inequalities that meet in the origin, one that does not, and a line. *)
MCCone ==
  {Fac("ge", 0, a1, a2) : a1 \in -1..1, a2 \in {-1, 1}} \union
  {Fac("ge", -1, 1, 0), Fac("eq", 0, 1, -1), Fac("neq", 0, 1, -1)}

(* Upper bounds, which stay rows without a pivot and allow steps of different *)
(* lengths, and lower ones, which are reached by such steps.                  *)
MCBounds ==
  {Fac("ge", 1, -1, 0), Fac("ge", 2, -1, -1), Fac("ge", 2, 0, -1), Fac("ge", -1, 1, 1),
   Fac("ge", -2, 1, 0), Fac("ge", -1, 1, -1), Fac("eq", -2, 1, 1)}

MCConstraint == MCMixed \union MCCone \union MCBounds

\* three at a time of the many, four degenerate ones with backtracking, four bounds
MCInit == Init /\ family \in {"mixed", "cone", "bounds"}
MCNext == /\ UNCHANGED family
          /\ \/ /\ Push /\ family = "cone"
             \/ /\ family = "mixed" /\ Len(asserted) < 3
                /\ \E k \in MCMixed : AssertFac(k)
             \/ /\ family = "cone"
                /\ \E k \in MCCone : AssertFac(k)
             \/ /\ family = "bounds"
                /\ \E k \in MCBounds : AssertFac(k)
             \/ Pop \/ Maximize \/ NextInQueue
MCSpec == MCInit /\ [][MCNext]_<<vars, family>>
=============================================================================
