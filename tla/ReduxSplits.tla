---------------------------- MODULE ReduxSplits ----------------------------
(***************************************************************************)
(* Case splits and implications in redux.ml: assume_core, the linked list  *)
(* of pending splits with its pop actions, perform_pending_splits,         *)
(* prune_pending_splits, perform_implications, assume, query, push, pop.   *)
(*                                                                         *)
(* The theory below the splits is Boolean: nodes are atoms, && and ||, and *)
(* a node is undetermined, TRUE or FALSE.  What the congruence closure     *)
(* does with them (module Egraph) is Forced, to a fixpoint.  An axiom is   *)
(* an implication that is added when the node of its trigger is made.      *)
(***************************************************************************)
EXTENDS Naturals, FiniteSets, SequencesExt

CONSTANTS
  Fact,       \* the terms that can be assumed
  Question,   \* the terms that can be queried
  Axiom,      \* [trigger terms -> implications]
  MaxAssumes, \* bound: assumptions in force
  MaxPush     \* bound: levels pushed by the caller

False == [op |-> "false"]
Atom(a) == [op |-> "atom", a |-> a]
TermNode(n) == [op |-> "node", n |-> n]
Not(t) == [op |-> "not", t |-> t]
And(t, u) == [op |-> "&&", l |-> t, r |-> u]
Or(t, u) == [op |-> "||", l |-> t, r |-> u]
Implies(t, u) == [op |-> "==>", l |-> t, r |-> u]
IsConnective(n) == n.op \in {"&&", "||"}

VARIABLES
  c,        \* the context: see NewContext
  asserted, \* ghost: the assumptions in force
  levels,   \* ghost: the contexts and assumptions at the caller's pushes
  answer,   \* the last answer of assume
  reply     \* the last question and its answer

vars == <<c, asserted, levels, answer, reply>>

(* val: the nodes made, with "?", TRUE or FALSE.  A split is a cell of     *)
(* splits, <<>> or [b1, b2, next]; front and back are positions in it.     *)
(* undo is popactionlist, popstack what push_internal saves.               *)
NewContext ==
  [val |-> <<>>, implications |-> <<>>, splits |-> <<<<>>>>, front |-> 1, back |-> 1,
   undo |-> <<>>, popstack |-> <<>>]

Result(ctx, r) == [c |-> ctx, r |-> r]

(* F(e), with e evaluated once. *)
With(e, F(_)) == CHOOSE y \in {F(x) : x \in {e}} : TRUE

-----------------------------------------------------------------------------
(* Pop actions. *)

register_popaction(ctx, field, saved) == [ctx EXCEPT !.undo = <<<<field, saved>>>> \o @]

(* The action of add_pending_split: the cell is empty and last again. *)
DropLast(ctx, back) == [ctx EXCEPT !.splits = Append(SubSeq(@, 1, back - 1), <<>>), !.back = back]

Undone(ctx, action) ==
  CASE action[1] = "front" -> [ctx EXCEPT !.front = action[2]]
    [] action[1] = "implications" -> [ctx EXCEPT !.implications = action[2]]
    [] action[1] = "back" -> DropLast(ctx, action[2])
    [] action[1] = "cell" -> [ctx EXCEPT !.splits[action[2][1]] = action[2][2]]

push_internal(ctx) ==
  [ctx EXCEPT !.popstack = <<[undo |-> ctx.undo, val |-> ctx.val]>> \o @, !.undo = <<>>]

pop_internal(ctx) ==
  LET saved == Head(ctx.popstack)
      back == FoldLeft(Undone, ctx, ctx.undo)
  IN  [back EXCEPT !.undo = saved.undo, !.val = saved.val, !.popstack = Tail(@)]

set_front(ctx, next) == [register_popaction(ctx, "front", ctx.front) EXCEPT !.front = next]

(* Mutant: no pop action. *)
add_implication_no_undo(ctx, p, q) == [ctx EXCEPT !.implications = <<<<p, q>>>> \o @]

add_implication(ctx, p, q) ==
  [register_popaction(ctx, "implications", ctx.implications) EXCEPT !.implications = <<<<p, q>>>> \o @]

add_pending_split(ctx, b1, b2) ==
  LET last == Len(ctx.splits) + 1 IN
  [register_popaction(ctx, "back", ctx.back) EXCEPT
     !.splits = Append([@ EXCEPT ![ctx.back] = [b1 |-> b1, b2 |-> b2, next |-> last]], <<>>),
     !.back = last]

-----------------------------------------------------------------------------
(* The theory. *)

(* The value that one argument of a connective decides it with. *)
Deciding(n) == IF n.op = "||" THEN "true" ELSE "false"
Other(v) == IF v = "true" THEN "false" ELSE "true"

(* What the nodes and their arguments say about each other: an argument    *)
(* decides the connective or the other argument does, and a connective     *)
(* that is not decided decides both, or the one when the other is against. *)
(* (Congruence of connectives adds nothing as long as each has one node.)  *)
Forced(val) ==
  LET up(n, x, y) == IF val[x] = Deciding(n) THEN {<<n, val[x]>>}
                     ELSE IF val[x] # "?" /\ val[y] # "?" THEN {<<n, val[y]>>} ELSE {}
      down(n, x, y) == IF val[n] = Other(Deciding(n)) \/ (val[n] # "?" /\ val[y] = Other(val[n]))
                       THEN {<<x, val[n]>>} ELSE {}
  IN  {f \in UNION {up(n, n.l, n.r) \cup up(n, n.r, n.l) \cup down(n, n.l, n.r) \cup down(n, n.r, n.l)
                    : n \in {m \in DOMAIN val : IsConnective(m)}} : val[f[1]] # f[2]}

(* parent_ctorchild_added: a true disjunction or a false conjunction is a  *)
(* pending split of its arguments.                                         *)
SplitOn(ctx, n) ==
  IF ~IsConnective(n) \/ ctx.val[n] # Deciding(n) THEN ctx
  ELSE IF n.op = "||" THEN add_pending_split(ctx, TermNode(n.l), TermNode(n.r))
  ELSE add_pending_split(ctx, Not(TermNode(n.l)), Not(TermNode(n.r)))

Determine(ctx, f) == SplitOn([ctx EXCEPT !.val[f[1]] = f[2]], f[1])

(* The answer to two assumptions in a row. *)
Worst(r, s) == IF "unsat" \in {r, s} THEN "unsat" ELSE IF r = s THEN r ELSE "unknown"

(* One determined node after the other; "unsat" when a node would have to  *)
(* be both.  The code takes the redexes in the order of its queue, the     *)
(* model in any fixed one: the fixpoint is the same.                       *)
RECURSIVE reduce(_)
reduce(ctx) ==
  With(Forced(ctx.val), LAMBDA forced :
    IF forced = {} THEN Result(ctx, "valid")
    ELSE IF \E f \in forced : ctx.val[f[1]] # "?" THEN Result(ctx, "unsat")
    ELSE With(reduce(Determine(ctx, CHOOSE f \in forced : TRUE)), LAMBDA R :
           Result(R.c, Worst(R.r, "unknown"))))

RECURSIVE termnode_of_term(_, _)
termnode_of_term(ctx, t) ==
  LET c1 == IF IsConnective(t) THEN termnode_of_term(termnode_of_term(ctx, t.l), t.r) ELSE ctx
      c2 == [c1 EXCEPT !.val = (t :> "?") @@ @]
  IN  IF t \in DOMAIN ctx.val THEN ctx
      ELSE IF t \in DOMAIN Axiom THEN add_implication(c2, Axiom[t].l, Axiom[t].r) ELSE c2

(* assume_eq of the node and true or false.  Reducing what new nodes       *)
(* caused is never contradictory here.                                     *)
assume_eq(ctx, n, b) ==
  With(reduce(ctx), LAMBDA R :
    IF R.c.val[n] # "?" THEN Result(R.c, IF R.c.val[n] = b THEN "valid" ELSE "unsat")
    ELSE With(reduce(Determine(R.c, <<n, b>>)), LAMBDA S : Result(S.c, Worst(S.r, "unknown"))))

(* A term under negations: [t, b], assumed to be b.  A conjunction assumed *)
(* true is assumed one argument after the other; any other term has a node.*)
RECURSIVE Stripped(_, _)
Stripped(t, b) == IF t.op = "not" THEN Stripped(t.t, Other(b)) ELSE [t |-> t, b |-> b]

RECURSIVE assume_core(_, _)
assume_core(ctx, u) ==
  LET t == Stripped(u, "true").t
      b == Stripped(u, "true").b
  IN  IF t = False THEN Result(ctx, "unsat")
      ELSE IF t.op = "&&" /\ b = "true"
      THEN With(assume_core(ctx, t.l), LAMBDA R :
             IF R.r = "unsat" THEN R
             ELSE With(assume_core(R.c, t.r), LAMBDA S : Result(S.c, Worst(R.r, S.r))))
      ELSE With(IF t.op = "node" THEN <<ctx, t.n>> ELSE <<termnode_of_term(ctx, t), t>>,
                LAMBDA X : assume_eq(X[1], X[2], b))

-----------------------------------------------------------------------------
(* Implications: each one is tried once, the last one added first, and     *)
(* forgotten whether its premise holds or not.                             *)

(* Mutant: the premise is not looked at. *)
HoldsAlways(ctx, p) == Result(ctx, TRUE)

RECURSIVE holds(_, _)
holds(ctx, p) ==
  IF p.op = "&&"
  THEN With(holds(ctx, p.l), LAMBDA R : IF R.r THEN holds(R.c, p.r) ELSE R)
  ELSE With(assume_core(push_internal(ctx), Not(p)), LAMBDA R :
         Result(pop_internal(R.c), R.r = "unsat"))

RECURSIVE perform_implications(_)
perform_implications(ctx) ==
  IF ctx.implications = <<>> THEN Result(ctx, FALSE)
  ELSE LET i == Head(ctx.implications) IN
       With(holds([register_popaction(ctx, "implications", ctx.implications)
                     EXCEPT !.implications = Tail(@)], i[1]), LAMBDA H :
       With(IF H.r THEN assume_core(H.c, i[2]) ELSE Result(H.c, "unknown"), LAMBDA Q :
         IF Q.r = "unsat" THEN Result(Q.c, TRUE) ELSE perform_implications(Q.c)))

assume_with_implications(ctx, t) ==
  With(assume_core(ctx, t), LAMBDA R :
    IF R.r # "unknown" THEN R
    ELSE With(perform_implications(R.c), LAMBDA I :
           Result(I.c, IF I.r THEN "unsat" ELSE "unknown")))

-----------------------------------------------------------------------------
(* Splits.  The result is TRUE when every case is contradictory.  Only at  *)
(* the top (no branch assumed yet) are splits dropped that are decided.    *)
(* A second branch that is contradictory at the top would put False and    *)
(* the first branch into the cell, for prune_pending_splits to assume; but *)
(* then B.r is TRUE, so neither the model nor the code gets there.         *)

RECURSIVE Iter(_, _, _)
RECURSIVE SecondBranch(_, _, _)
Iter(ctx, top, cell) ==
  LET s == ctx.splits[cell] IN
  IF s = <<>> THEN Result(ctx, FALSE)
  ELSE With(assume_with_implications(push_internal(ctx), s.b1), LAMBDA A :
       With(IF A.r = "unsat" \/ (A.r = "valid" /\ top) THEN Result(A.c, TRUE)
            ELSE Iter(A.c, FALSE, s.next), LAMBDA B :
       With(pop_internal(B.c), LAMBDA c1 :
         IF top /\ A.r # "unknown"
         THEN With(IF A.r = "unsat" THEN assume_with_implications(set_front(c1, s.next), s.b2)
                   ELSE Result(set_front(c1, s.next), "valid"), LAMBDA D :
                IF D.r = "unsat" THEN Result(D.c, TRUE) ELSE Iter(D.c, TRUE, s.next))
         ELSE IF ~B.r \/ A.r = "valid" THEN Result(c1, B.r)
         ELSE SecondBranch(c1, top, cell))))
SecondBranch(ctx, top, cell) ==
  LET s == ctx.splits[cell] IN
  With(assume_with_implications(push_internal(ctx), s.b2), LAMBDA A :
  With(IF A.r = "unsat" THEN Result(A.c, TRUE) ELSE Iter(A.c, FALSE, s.next), LAMBDA B :
  With(pop_internal(B.c), LAMBDA c1 :
    IF ~top \/ B.r \/ A.r = "unknown" THEN Result(c1, B.r)
    ELSE IF A.r = "valid" THEN Result(set_front(c1, s.next), FALSE)
    ELSE Result([register_popaction(c1, "cell", <<cell, s>>)
                   EXCEPT !.splits[cell] = [s EXCEPT !.b1 = False, !.b2 = s.b1]], FALSE))))

RECURSIVE prune_pending_splits(_)
prune_pending_splits(ctx) ==
  LET s == ctx.splits[ctx.front] IN
  IF s = <<>> THEN Result(ctx, FALSE)
  ELSE IF s.b1 # False THEN Result(ctx, FALSE)
  ELSE With(assume_with_implications(set_front(ctx, s.next), s.b2), LAMBDA R :
         IF R.r = "unsat" THEN Result(R.c, TRUE) ELSE prune_pending_splits(R.c))

(* Mutant: the splits wait for the next assumption. *)
perform_no_splits(ctx) == Result(ctx, FALSE)

perform_pending_splits(ctx) == Iter(ctx, TRUE, ctx.front)

assume_internal(ctx, t) ==
  With(assume_with_implications(ctx, t), LAMBDA R :
    IF R.r # "unknown" THEN Result(R.c, IF R.r = "unsat" THEN "unsat" ELSE "unknown")
    ELSE With(perform_pending_splits(R.c), LAMBDA S :
           Result(S.c, IF S.r THEN "unsat" ELSE "unknown")))

-----------------------------------------------------------------------------
(* What the caller does.  After "unsat" it pops. *)

NoReply == [t |-> False, r |-> FALSE]

Init ==
  /\ c = NewContext
  /\ asserted = <<>>
  /\ levels = <<>>
  /\ answer = "unknown"
  /\ reply = NoReply

assume(t) ==
  /\ answer # "unsat"
  /\ Len(asserted) < MaxAssumes
  /\ \E R \in {assume_internal(c, t)} : c' = R.c /\ answer' = R.r
  /\ asserted' = Append(asserted, t)
  /\ reply' = NoReply
  /\ UNCHANGED levels

query(t) ==
  /\ answer # "unsat"
  /\ \E P \in {prune_pending_splits(c)} :
     \E R \in {assume_internal(push_internal(P.c), Not(t))} :
       /\ c' = pop_internal(R.c)
       /\ reply' = [t |-> t, r |-> R.r = "unsat"]
       /\ answer' = IF P.r THEN "assertion failed" ELSE answer
  /\ UNCHANGED <<asserted, levels>>

push ==
  /\ answer # "unsat"
  /\ Len(levels) < MaxPush
  /\ c' = push_internal(c)
  /\ levels' = Append(levels, [c |-> c, asserted |-> asserted])
  /\ reply' = NoReply
  /\ UNCHANGED <<asserted, answer>>

pop ==
  /\ levels # <<>>
  /\ c' = pop_internal(c)
  /\ asserted' = Last(levels).asserted
  /\ levels' = Front(levels)
  /\ answer' = "unknown"
  /\ reply' = NoReply

Next ==
  \/ \E t \in Fact : assume(t)
  \/ \E t \in Question : query(t)
  \/ push
  \/ pop

Spec == Init /\ [][Next]_vars

-----------------------------------------------------------------------------
(* Properties.  The reference is the truth table. *)

RECURSIVE Atoms(_)
Atoms(t) ==
  IF t.op = "atom" THEN {t} ELSE IF t.op = "not" THEN Atoms(t.t)
  ELSE IF t.op = "false" THEN {} ELSE Atoms(t.l) \cup Atoms(t.r)

RECURSIVE Value(_, _)
Value(m, t) ==
  CASE t.op = "false" -> FALSE
    [] t.op = "atom" -> t \in m
    [] t.op = "not" -> ~Value(m, t.t)
    [] t.op = "&&" -> Value(m, t.l) /\ Value(m, t.r)
    [] t.op = "||" -> Value(m, t.l) \/ Value(m, t.r)
    [] t.op = "==>" -> Value(m, t.l) => Value(m, t.r)

Consistent(ts) ==
  \E m \in SUBSET UNION {Atoms(t) : t \in ts} : \A t \in ts : Value(m, t)

Axioms == Range(Axiom)
Assumptions == Range(asserted)

(* assume and query never refute what has a model: perform_pending_splits  *)
(* "returns true" only if "the current theory is unsatisfiable", and the   *)
(* assertion in query, that pruning finds no contradiction, holds.         *)
RefutationsSound ==
  /\ answer # "assertion failed"
  /\ answer = "unsat" => ~Consistent(Assumptions \cup Axioms)
  /\ reply.r => ~Consistent(Assumptions \cup Axioms \cup {Not(reply.t)})

(* Without axioms every contradiction is found, whatever splits earlier    *)
(* assumptions, queries and pops dropped, decided or brought back.         *)
RefutationsComplete ==
  LET triggered(ts) == \E t \in ts : \E n \in DOMAIN Axiom : Atoms(n) \cap Atoms(t) # {}
  IN  /\ answer = "unknown" => Consistent(Assumptions) \/ triggered(Assumptions)
      /\ reply # NoReply /\ ~reply.r =>
           Consistent(Assumptions \cup {Not(reply.t)}) \/ triggered(Assumptions \cup {reply.t})

(* pop_internal brings back the splits, implications and values that the   *)
(* caller's push found, whatever the pop actions of the level did.         *)
PopRestores == [][levels' # levels /\ Len(levels') < Len(levels) => c' = Last(levels).c]_vars
=============================================================================
