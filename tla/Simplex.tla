------------------------------ MODULE Simplex ------------------------------
(***************************************************************************)
(* The linear arithmetic solver of simplex.ml: a tableau of rows and       *)
(* columns, each owned by an unknown, with assert_ge, assert_eq and        *)
(* assert_neq, the pivoting loops they run, the closing of rows, the       *)
(* equalities reported to the listeners, and push and pop.                 *)
(*                                                                         *)
(* The mutable fields of the objects are cells of a heap, <<field, object>>*)
(* or <<"coef", row, column>>; popactions is the log of overwritten cells. *)
(* Objects are numbered in order of creation. A list used as a stack is a  *)
(* sequence with its head first. Rationals are pairs in lowest terms.      *)
(***************************************************************************)
EXTENDS Integers, FiniteSets, SequencesExt

CONSTANTS
  N,          \* tagged unknowns allocated at the start: 1..N
  Constraint, \* what can be asserted: [kind, c, a], a a function on 1..N
  MaxAsserts, \* bound: assertions in force
  MaxPush     \* bound: levels pushed

-----------------------------------------------------------------------------
(* Rationals *)

Abs(n) == IF n < 0 THEN -n ELSE n
Gcd(m, n) == Max({k \in 1..Max({Abs(m), Abs(n)}) : m % k = 0 /\ n % k = 0})
Rat(n, d) ==
  LET g == Gcd(n, d)
      s == IF d < 0 THEN -1 ELSE 1
  IN  IF n = 0 THEN <<0, 1>> ELSE <<s * (n \div g), s * (d \div g)>>
Int2Rat(n) == <<n, 1>>
Plus(p, q) == Rat(p[1] * q[2] + q[1] * p[2], p[2] * q[2])
Times(p, q) == Rat(p[1] * q[1], p[2] * q[2])
Divide(p, q) == Rat(p[1] * q[2], p[2] * q[1])
Minus(p) == <<-p[1], p[2]>>
Sign(p) == IF p[1] > 0 THEN 1 ELSE IF p[1] < 0 THEN -1 ELSE 0
LessEq(p, q) == p[1] * q[2] <= q[1] * p[2]

-----------------------------------------------------------------------------
(* A solver state S is a record of the heap, popactions, the unknowns, the   *)
(* numbers of rows and columns, unsat, the queue of close_row, the column of *)
(* the last pivot, the equalities reported, and whether an assert failed.    *)

NoPos == <<"none", 0>>
Get(S, cell) == S.heap[cell]
New(S, cell, v) == [S EXCEPT !.heap = (cell :> v) @@ @]
SetNoUndo(S, cell, v) == [S EXCEPT !.heap[cell] = v]
Set(S, cell, v) ==
  [S EXCEPT !.heap[cell] = v, !.popactions = <<<<cell, S.heap[cell]>>>> \o @]

Coef(S, r, c) == Get(S, <<"coef", r, c>>)
Const(S, r) == Get(S, <<"constant", r>>)
RowOwner(S, r) == S.unknowns[Get(S, <<"rowner", r>>)]
ColOwner(S, c) == S.unknowns[Get(S, <<"cowner", c>>)]
RowTerms(S, r) == Get(S, <<"rterms", r>>)
ColTerms(S, c) == Get(S, <<"cterms", c>>)
ColDead(S, c) == Get(S, <<"cdead", c>>)
Pos(S, u) == Get(S, <<"pos", u>>)
Dead(S, u) ==
  LET p == Pos(S, u) IN
  IF p[1] = "row" THEN Get(S, <<"closed", p[2]>>) ELSE ColDead(S, p[2])

(* new unknown; def is a ghost field, the value it stands for. *)
NewUnknown(S, restricted, tag, nonzero, def) ==
  LET u == Len(S.unknowns) + 1 IN
  New([S EXCEPT !.unknowns =
         Append(@, [restricted |-> restricted, tag |-> tag, nonzero |-> nonzero, def |-> def])],
      <<"pos", u>>, NoPos)

(* new column, owned by the unknown u that was created last. *)
NewColumn(S, u) ==
  LET c == S.columns + 1
      S1 == New(New(New([S EXCEPT !.columns = c], <<"cowner", c>>, u),
                    <<"cterms", c>>, <<>>), <<"cdead", c>>, FALSE)
  IN  Set(S1, <<"pos", u>>, <<"col", c>>)

NewRow(S, u, c) ==
  LET r == S.rows + 1
      S1 == New(New(New(New([S EXCEPT !.rows = r], <<"rowner", r>>, u),
                    <<"constant", r>>, c), <<"rterms", r>>, <<>>), <<"closed", r>>, FALSE)
  IN  Set(S1, <<"pos", u>>, <<"row", r>>)

(* row#add *)
Add(S, r, a, c) ==
  IF <<"coef", r, c>> \in DOMAIN S.heap /\ Contains(RowTerms(S, r), c)
    THEN Set(S, <<"coef", r, c>>, Plus(Coef(S, r, c), a))
    ELSE LET S1 == New(S, <<"coef", r, c>>, a)
             S2 == Set(S1, <<"rterms", r>>, <<c>> \o RowTerms(S1, r))
         IN  Set(S2, <<"cterms", c>>, <<r>> \o ColTerms(S2, c))

(* row#add_row *)
AddRow(S, r, a, r2) ==
  FoldLeft(LAMBDA T, c : Add(T, r, Times(Coef(T, r2, c), a), c),
           Set(S, <<"constant", r>>, Plus(Const(S, r), Times(Const(S, r2), a))),
           RowTerms(S, r2))

(* Mutant: the sign of the coefficient solved for. *)
SolveForSign(S, r, col) ==
  LET c0 == Minus(Coef(S, r, col)) IN
  FoldLeft(LAMBDA T, c : Set(T, <<"coef", r, c>>,
                             Divide(IF c = col THEN Int2Rat(1) ELSE Coef(T, r, c), c0)),
           Set(S, <<"constant", r>>, Divide(Const(S, r), c0)),
           RowTerms(S, r))

(* row#solve_for *)
SolveFor(S, r, col) ==
  LET c0 == Minus(Coef(S, r, col)) IN
  FoldLeft(LAMBDA T, c : Set(T, <<"coef", r, c>>,
                             Divide(IF c = col THEN Int2Rat(-1) ELSE Coef(T, r, c), c0)),
           Set(S, <<"constant", r>>, Divide(Const(S, r), c0)),
           RowTerms(S, r))

Pivot(S, r, c) ==
  LET rowOwner == Get(S, <<"rowner", r>>)
      colOwner == Get(S, <<"cowner", c>>)
      S1 == Set(Set(Set(Set([S EXCEPT !.pivotCol = c],
                  <<"rowner", r>>, colOwner), <<"pos", rowOwner>>, <<"col", c>>),
                  <<"cowner", c>>, rowOwner), <<"pos", colOwner>>, <<"row", r>>)
      eliminate(T, r1) ==
        IF r1 = r THEN T
        ELSE AddRow(Set(T, <<"coef", r1, c>>, Int2Rat(0)), r1, Coef(T, r1, c), r)
  IN  FoldLeft(eliminate, SolveFor(S1, r, c), ColTerms(S1, c))

-----------------------------------------------------------------------------
(* Closing rows. *)

LiveTerms(S, r) ==
  SelectSeq(RowTerms(S, r), LAMBDA c : ~ColDead(S, c) /\ Sign(Coef(S, r, c)) # 0)

(* Mutant: the constant has the wrong sign. *)
ReportMinus(S, u, v, k) == [S EXCEPT !.facts = @ \union {[u |-> u, v |-> v, k |-> Minus(k)]}]

(* propagate_equality and propagate_eq_constant: u = v + k. *)
Zero == [i \in 0..N |-> 0]
Report(S, u, v, k) == [S EXCEPT !.facts = @ \union {[u |-> u, v |-> v, k |-> k]}]

SameRow(S, r1, r2) ==
  LET t1 == LiveTerms(S, r1)
      t2 == LiveTerms(S, r2)
  IN  /\ Const(S, r1) = Const(S, r2) /\ Len(t1) = Len(t2)
      /\ \A c \in Range(t1) : c \in Range(t2) /\ Coef(S, r1, c) = Coef(S, r2, c)

(* Mutant: a constant row of a nonzero unknown is not looked at. *)
PropagateEqTagged(S, r) == S

(* row#propagate_eq *)
PropagateEq(S, r) ==
  LET u == RowOwner(S, r)
      live == LiveTerms(S, r)
      c0 == live[1]
      S1 == IF Len(live) = 1
              THEN IF /\ u.tag /\ ColOwner(S, c0).tag /\ Sign(Const(S, r)) = 0
                      /\ Coef(S, r, c0) = Int2Rat(1)
                     THEN Report(S, u.def, ColOwner(S, c0).def, Int2Rat(0)) ELSE S
            ELSE IF live = <<>>
              THEN IF u.tag THEN Report(S, u.def, Zero, Const(S, r))
                   ELSE IF u.nonzero /\ Sign(Const(S, r)) = 0 THEN [S EXCEPT !.unsat = TRUE]
                   ELSE S
            ELSE S
      other(T, r2) ==
        IF /\ r2 # r /\ RowOwner(T, r2).tag
           /\ Coef(T, r, c0) = Coef(T, r2, c0) /\ SameRow(T, r, r2)
          THEN Report(T, u.def, RowOwner(T, r2).def, Int2Rat(0)) ELSE T
  IN  IF u.tag /\ ~S1.unsat /\ live # <<>> THEN FoldLeft(other, S1, ColTerms(S1, c0)) ELSE S1

(* Mutant: rows in which the column has a negative coefficient. *)
ToRemaximizeNegative(S, c) ==
  SelectSeq(ColTerms(S, c), LAMBDA r : RowOwner(S, r).restricted /\ Sign(Coef(S, r, c)) < 0)

(* The rows that column#die enqueues. *)
ToRemaximize(S, c) ==
  SelectSeq(ColTerms(S, c), LAMBDA r : RowOwner(S, r).restricted /\ Sign(Coef(S, r, c)) > 0)

(* column#die *)
Die(S, c) ==
  LET u == ColOwner(S, c)
      S1 == Set([S EXCEPT !.ok = @ /\ ~ColDead(S, c)], <<"cdead", c>>, TRUE)
      S2 == IF u.tag THEN Report(S1, u.def, Zero, Int2Rat(0)) ELSE S1
      propagate(T, r) ==
        IF (RowOwner(T, r).tag \/ RowOwner(T, r).nonzero) /\ Sign(Coef(T, r, c)) # 0
          THEN PropagateEq(T, r) ELSE T
      S3 == FoldLeft(propagate, S2, ColTerms(S2, c))
      rs == Reverse(ToRemaximize(S3, c))
  IN  IF u.nonzero THEN [S1 EXCEPT !.unsat = TRUE]
      ELSE [S3 EXCEPT !.queue = [k \in DOMAIN rs |-> Get(S3, <<"rowner", rs[k]>>)] \o @]

(* Mutant: columns that are dead already die again. *)
CloseDead(S, r) ==
  FoldLeft(LAMBDA T, c : IF Sign(Coef(T, r, c)) < 0 THEN Die(T, c) ELSE T,
           Set([S EXCEPT !.ok = @ /\ ~Get(S, <<"closed", r>>)], <<"closed", r>>, TRUE),
           RowTerms(S, r))

(* Mutant: the flag is set without an undo action. *)
CloseNoUndo(S, r) ==
  FoldLeft(LAMBDA T, c : IF ~ColDead(T, c) /\ Sign(Coef(T, r, c)) < 0 THEN Die(T, c) ELSE T,
           SetNoUndo([S EXCEPT !.ok = @ /\ ~Get(S, <<"closed", r>>)], <<"closed", r>>, TRUE),
           RowTerms(S, r))

(* row#close *)
Close(S, r) ==
  FoldLeft(LAMBDA T, c : IF ~ColDead(T, c) /\ Sign(Coef(T, r, c)) < 0 THEN Die(T, c) ELSE T,
           Set([S EXCEPT !.ok = @ /\ ~Get(S, <<"closed", r>>)], <<"closed", r>>, TRUE),
           RowTerms(S, r))

-----------------------------------------------------------------------------
(* Maximizing a row or an unknown. *)

(* Mutant: the row that allows the largest step. *)
FindPivotRowLargest(S, sign, c) ==
  LET cands == SelectSeq(ColTerms(S, c),
        LAMBDA r : RowOwner(S, r).restricted /\ Sign(Coef(S, r, c)) * sign < 0)
      delta(r) == LET q == Coef(S, r, c) IN Divide(Const(S, r), Rat(Abs(q[1]), q[2]))
  IN  FoldLeft(LAMBDA best, r : IF best = 0 THEN r
                                ELSE IF LessEq(delta(r), delta(best)) THEN best ELSE r,
               0, cands)

(* find_pivot_row: 0 when there is none. *)
FindPivotRow(S, sign, c) ==
  LET cands == SelectSeq(ColTerms(S, c),
        LAMBDA r : RowOwner(S, r).restricted /\ Sign(Coef(S, r, c)) * sign < 0)
      delta(r) == LET q == Coef(S, r, c) IN Divide(Const(S, r), Rat(Abs(q[1]), q[2]))
  IN  FoldLeft(LAMBDA best, r : IF best = 0 THEN r
                                ELSE IF LessEq(delta(best), delta(r)) THEN best ELSE r,
               0, cands)

(* Mutant: an unrestricted column is only increased. *)
FindPivotColPositive(S, r) ==
  SelectSeq(RowTerms(S, r), LAMBDA c : ~ColDead(S, c) /\ Sign(Coef(S, r, c)) > 0)

(* find_pivot_col: <<>> when there is none. *)
FindPivotCol(S, r) ==
  SelectSeq(RowTerms(S, r),
    LAMBDA c : /\ ~ColDead(S, c)
               /\ LET s == Sign(Coef(S, r, c)) IN
                  s # 0 /\ (~ColOwner(S, c).restricted \/ s > 0))

(* One iteration of maximize_row: the new state, and the sign or 2 to go on. *)
MaximizeStep(S, r) ==
  IF Sign(Const(S, r)) > 0 THEN [S |-> S, sign |-> 1]
  ELSE LET cols == FindPivotCol(S, r) IN
    IF cols = <<>> THEN [S |-> S, sign |-> Sign(Const(S, r))]
    ELSE LET c == cols[1]
             r2 == FindPivotRow(S, Sign(Coef(S, r, c)), c)
         IN IF r2 = 0 THEN [S |-> Pivot(S, r, c), sign |-> 1]
            ELSE [S |-> Pivot(S, r2, c), sign |-> 2]

-----------------------------------------------------------------------------
VARIABLES
  solver,    \* the solver state
  popstack,  \* the levels pushed, each with the ghost fields solver, asserted
  pc,        \* "idle", "max" (in maximize_row) or "queue" (in close_row)
  goal,      \* what is being maximized: the operation, the unknown and its row
  answer,    \* of the last assertion
  asserted   \* ghost: the constraints in force

vars == <<solver, popstack, pc, goal, answer, asserted>>

NoGoal == [op |-> "none", u |-> 0, row |-> 0]
Goal(op, u, row) == [op |-> op, u |-> u, row |-> row]
Unit(i) == [j \in 0..N |-> IF i = j THEN 1 ELSE 0]

(* A new solver in which alloc_unknown has been called N times. *)
Empty == [heap |-> <<>>, popactions |-> <<>>, unknowns |-> <<>>, rows |-> 0, columns |-> 0,
          unsat |-> FALSE, queue |-> <<>>, pivotCol |-> 0, facts |-> {}, ok |-> TRUE]
AllocUnknown(S, i) == NewColumn(NewUnknown(S, FALSE, TRUE, FALSE, Unit(i)), Len(S.unknowns) + 1)

Init ==
  /\ solver = FoldLeft(AllocUnknown, Empty, [i \in 1..N |-> i])
  /\ popstack = <<>> /\ pc = "idle" /\ goal = NoGoal
  /\ answer = "sat" /\ asserted = <<>>

Push ==
  /\ pc = "idle" /\ answer = "sat" /\ Len(popstack) < MaxPush
  /\ popstack' = <<[popactions |-> solver.popactions, rows |-> solver.rows,
                     columns |-> solver.columns, solver |-> solver, asserted |-> asserted]>>
                   \o popstack
  /\ solver' = [solver EXCEPT !.popactions = <<>>]
  /\ UNCHANGED <<pc, goal, answer, asserted>>

(* Running the undo actions, the last one registered first, leaves in each   *)
(* cell what the first action for it saved.                                  *)
Undo(heap, log) ==
  [cell \in DOMAIN heap |->
     LET saved == {k \in DOMAIN log : log[k][1] = cell} IN
     IF saved = {} THEN heap[cell] ELSE log[Max(saved)][2]]

(* The cells of the objects that are left; the others are garbage. *)
Reachable(heap, unknowns, rows, columns) ==
  Restrict(heap, {k \in DOMAIN heap :
    CASE k[1] = "coef" -> k[2] <= rows /\ k[3] <= columns /\ Contains(heap[<<"rterms", k[2]>>], k[3])
      [] k[1] = "pos" -> k[2] <= unknowns
      [] k[1] \in {"rowner", "constant", "rterms", "closed"} -> k[2] <= rows
      [] OTHER -> k[2] <= columns})

(* Rows that refer to a column that is gone were created with it. *)
Pop ==
  /\ pc = "idle" /\ popstack # <<>>
  /\ LET top == Head(popstack)
         heap == Undo(solver.heap, solver.popactions)
         unknowns == SubSeq(solver.unknowns, 1, Len(top.solver.unknowns))
     IN solver' = [solver EXCEPT
          !.heap = Reachable(heap, Len(unknowns), top.rows, top.columns),
          !.unknowns = unknowns, !.rows = top.rows, !.columns = top.columns,
          !.popactions = top.popactions, !.unsat = FALSE, !.queue = <<>>,
          !.pivotCol = 0, !.facts = top.solver.facts]
  /\ popstack' = Tail(popstack)
  /\ asserted' = Head(popstack).asserted
  /\ answer' = "sat"
  /\ UNCHANGED <<pc, goal>>

-----------------------------------------------------------------------------
(* row_for_fac for c + the sum of a[u] * u, ts the unknowns with a # 0. *)
RowForFac(S, c, a, ts) ==
  LET y == Len(S.unknowns) + 1
      def == [i \in 0..N |-> (IF i = 0 THEN c ELSE 0) +
                FoldLeft(LAMBDA x, u : x + a[u] * S.unknowns[u].def[i], 0, ts)]
      S1 == NewRow(NewUnknown(S, TRUE, FALSE, FALSE, def), y, Int2Rat(c))
      r == S1.rows
      term(T, u) == LET p == Pos(T, u) IN
        IF p[1] = "row" THEN AddRow(T, r, Int2Rat(a[u]), p[2]) ELSE Add(T, r, Int2Rat(a[u]), p[2])
  IN  FoldLeft(term, S1, ts)

Terms(a) == SelectSeq([i \in 1..N |-> i], LAMBDA i : a[i] # 0)

(* assert_neq: a nonzero unknown nz with nz = c + the sum. *)
WithNonzero(S, k) ==
  LET nz == Len(S.unknowns) + 1
      S1 == NewColumn(NewUnknown(S, FALSE, FALSE, TRUE,
                        [i \in 0..N |-> IF i = 0 THEN k.c ELSE k.a[i]]), nz)
      a == [u \in 1..nz |-> IF u = nz THEN -1 ELSE IF u <= N THEN k.a[u] ELSE 0]
  IN  RowForFac(S1, k.c, a, <<nz>> \o Terms(k.a))

AssertFac(k) ==
  /\ pc = "idle" /\ answer = "sat" /\ Len(asserted) < MaxAsserts
  /\ solver' = IF k.kind = "neq" THEN WithNonzero(solver, k)
               ELSE RowForFac(solver, k.c, k.a, Terms(k.a))
  /\ goal' = Goal(IF k.kind = "ge" THEN "ge" ELSE "eq", Len(solver'.unknowns), solver'.rows)
  /\ pc' = "max"
  /\ asserted' = Append(asserted, k)
  /\ UNCHANGED <<popstack, answer>>

Return(S) ==
  /\ solver' = S /\ pc' = "idle" /\ goal' = NoGoal

(* The end of close_row: "if unsat then Unsat else Sat". *)
ReturnSat(S) == Return(S) /\ answer' = IF S.unsat THEN "unsat" ELSE "sat"

(* close_row for the row of the goal. *)
CloseRow(S) ==
  /\ solver' = Close(S, Pos(S, goal.u)[2])
  /\ pc' = "queue" /\ UNCHANGED <<goal, answer>>

(* assert_eq: u becomes -u, without registering undo actions. *)
Negate(S, u) ==
  LET p == Pos(S, u)
      S1 == [S EXCEPT !.unknowns[u].def = [i \in 0..N |-> -@[i]]]
  IN IF p[1] = "col"
    THEN FoldLeft(LAMBDA T, r : SetNoUndo(T, <<"coef", r, p[2]>>, Minus(Coef(T, r, p[2]))),
                  S1, ColTerms(S1, p[2]))
    ELSE FoldLeft(LAMBDA T, c : SetNoUndo(T, <<"coef", p[2], c>>, Minus(Coef(T, p[2], c))),
                  SetNoUndo(S1, <<"constant", p[2]>>, Minus(Const(S1, p[2]))), RowTerms(S1, p[2]))

(* assert_eq, when u can have both signs: its column dies. *)
KillColumn(S, u) ==
  LET p == Pos(S, u)
      S1 == IF p[1] = "col" THEN S ELSE Pivot(S, p[2], S.pivotCol)
      c == Pos(S1, u)[2]
  IN  [Die(S1, c) EXCEPT !.queue = S.queue]

(* sign_of_max_of_unknown up to maximize_row: whenUnbounded if u is a column *)
(* that nothing bounds.                                                      *)
StartMax(S, op, u, whenUnbounded) ==
  LET p == Pos(S, u)
      r == IF p[1] = "row" THEN p[2] ELSE FindPivotRow(S, 1, p[2])
  IN IF r = 0 THEN whenUnbounded
     ELSE /\ solver' = IF p[1] = "row" THEN S ELSE Pivot(S, r, p[2])
          /\ pc' = "max" /\ goal' = Goal(op, u, r)
          /\ UNCHANGED answer

(* One iteration of maximize_row, and what follows its last one. *)
Maximize ==
  /\ pc = "max"
  /\ LET m == MaximizeStep(solver, goal.row)
         S == m.S
     IN CASE m.sign = 2 -> solver' = S /\ UNCHANGED <<pc, goal, answer>>
          [] m.sign = -1 /\ goal.op # "again" -> Return(S) /\ answer' = "unsat"
          [] m.sign = 0 -> CloseRow(S)
          [] m.sign = 1 /\ goal.op = "ge" -> Return(S) /\ answer' = "sat"
          [] m.sign = 1 /\ goal.op = "eq" ->
               LET S1 == [Negate(S, goal.u) EXCEPT !.pivotCol = 0] IN
               StartMax(S1, "eq2", goal.u, ReturnSat(KillColumn(S1, goal.u)))
          [] m.sign = 1 /\ goal.op = "eq2" -> ReturnSat(KillColumn(S, goal.u))
          [] OTHER -> solver' = S /\ pc' = "queue" /\ UNCHANGED <<goal, answer>>
  /\ UNCHANGED <<popstack, asserted>>

(* The queue of close_row: unknowns to be maximized again. *)
NextInQueue ==
  /\ pc = "queue"
  /\ IF solver.queue = <<>> THEN ReturnSat(solver)
     ELSE LET u == Head(solver.queue)
              S == [solver EXCEPT !.queue = Tail(@)]
              skip == solver' = S /\ UNCHANGED <<pc, goal, answer>>
          IN IF Dead(S, u) THEN skip ELSE StartMax(S, "again", u, skip)
  /\ UNCHANGED <<popstack, asserted>>

Next == Push \/ Pop \/ (\E k \in Constraint : AssertFac(k)) \/ Maximize \/ NextInQueue

Spec == Init /\ [][Next]_vars

-----------------------------------------------------------------------------
(* Reference semantics, for N = 2, coefficients in -1..1 and constants in    *)
(* -1..1. The vertices of the polyhedra these describe are points with       *)
(* coordinates that are multiples of 1/2 in -1..1, and their directions are  *)
(* in {-1, 0, 1} \X {-1, 0, 1}; a point is scaled by 2.                     *)

Grid == {[i \in 0..N |-> IF i = 0 THEN 2 ELSE p[i]] : p \in [1..N -> -6..6]}
Value(def, p) == def[0] * p[0] + def[1] * p[1] + def[2] * p[2]
Def(k) == [i \in 0..N |-> IF i = 0 THEN k.c ELSE k.a[i]]
Polyhedron == {p \in Grid : \A k \in Range(asserted) :
                 /\ k.kind = "ge" => Value(Def(k), p) >= 0
                 /\ k.kind = "eq" => Value(Def(k), p) = 0}

(* A convex set is covered by hyperplanes only if it lies in one of them. *)
Feasible ==
  /\ Polyhedron # {}
  /\ \A k \in Range(asserted) : k.kind = "neq" => \E p \in Polyhedron : Value(Def(k), p) # 0

(* assert_ge, assert_eq, assert_neq: Unsat is answered only when the         *)
(* constraints asserted since the pushes in force have no solution. (A       *)
(* wrong Unsat would let VeriFast accept an incorrect program.)              *)
UnsatIsRight == pc = "idle" /\ answer = "unsat" => ~Feasible

(* And Sat only when they have one: no contradiction is missed, also not     *)
(* one with a disequality.                                                   *)
SatIsRight == pc = "idle" /\ answer = "sat" => Feasible

(* close_row, whose comment leaves open whether the unknowns it maximizes    *)
(* again are all that need it: when an assertion has been answered, every    *)
(* restricted unknown that is not dead can be positive.                      *)
AllRemaximized ==
  pc = "idle" /\ answer = "sat" =>
    \A u \in DOMAIN solver.unknowns :
      solver.unknowns[u].restricted /\ ~Dead(solver, u) =>
        \E p \in Polyhedron : Value(solver.unknowns[u].def, p) > 0

(* eq_listener and const_listener: every equality reported follows from the  *)
(* constraints.                                                              *)
ReportedEqualitiesHold ==
  pc = "idle" /\ answer = "sat" =>
    \A f \in solver.facts, p \in Polyhedron :
      (Value(f.u, p) - Value(f.v, p)) * f.k[2] = 2 * f.k[1]

(* pivot, add_row, solve_for and the negation in assert_eq: at every step    *)
(* each row expresses its owner by the owners of its columns.                *)
RowsAreEquations ==
  \A r \in 1..solver.rows, p \in {q \in Grid : \A i \in 1..N : q[i] \in {0, 2}} :
    Times(Int2Rat(Value(RowOwner(solver, r).def, p)), <<1, 1>>) =
    FoldLeft(LAMBDA x, c : Plus(x, Times(Coef(solver, r, c),
                                         Int2Rat(Value(ColOwner(solver, c).def, p)))),
             Times(Const(solver, r), Int2Rat(2)), RowTerms(solver, r))

(* find_pivot_row, the negation in assert_eq and the pivot with which it ends: *)
(* where every column is 0 the restricted unknowns are not negative, apart    *)
(* from the one that an assertion is maximizing.  Everything maximize_row     *)
(* concludes from signs (a row that is maximal, an unknown that is unbounded) *)
(* rests on this.                                                             *)
TableauFeasible ==
  answer = "sat" =>
    \A r \in 1..solver.rows :
      RowOwner(solver, r).restricted /\ (pc = "max" /\ goal.op # "again" => r # goal.row) =>
        Sign(Const(solver, r)) >= 0

(* The assertions of row#close and column#die.                               *)
AssertionsHold == solver.ok

(* pop: the undo actions bring back every object as it was at push, although *)
(* assert_eq negates coefficients without registering one.                   *)
PopRestores ==
  [][Len(popstack') < Len(popstack) =>
       solver'.heap = Head(popstack).solver.heap]_vars

=============================================================================
