------------------------------- MODULE Egraph -------------------------------
(***************************************************************************)
(* The congruence closure of redux.ml: term nodes and value nodes, the     *)
(* merging of value nodes (merge_into), disequalities, constructors        *)
(* (distinct and injective), equality terms and the redexes they cause,    *)
(* and the backtracking of every node by its own pop stack.                *)
(*                                                                         *)
(* A term is <<symbol>> \o the sequence of its arguments. A term node is   *)
(* named by the term it was made for, with term nodes as arguments, and    *)
(* the value node made with it has the same name. Recursive calls of       *)
(* assert_eq are the entries of an agenda. OCaml lists are sequences with  *)
(* the head first.                                                         *)
(***************************************************************************)
EXTENDS Naturals, FiniteSets, SequencesExt

CONSTANTS
  Programs,  \* what is verified: [declared: the constant symbols declared
             \*   beforehand, in order, terms: the terms that may get a node,
             \*   facts: what may be assumed, maxAssumes, maxPush: bounds on the
             \*   assumptions in force and on the levels]
  Ctors,     \* [constructor symbol -> its inductive type], with true and false
  Fixpoints  \* [fixpoint symbol -> [type, k: the argument inspected,
             \*   clause: constructor symbol -> which of its arguments is the result,
             \*   or 0 for the constant base]]

True == <<"true">>
False == <<"false">>
BoolType == "bool"
Args(t) == Tail(t)
IsCtor(t) == t[1] \in DOMAIN Ctors
IsEq(t) == t[1] = "=="
IsFixpoint(t) == t[1] \in DOMAIN Fixpoints

VARIABLES
  program,   \* the one of Programs that is verified
  E,         \* the nodes and the fields of the context, see NewContext
  stack,     \* the context's popstack, with a ghost copy of the nodes
  pc,        \* "idle", "create", "reduce" (before an operation) or "run"
  agenda,    \* calls of assert_eq to make, innermost first
  goal,      \* the operation in progress
  answer,    \* of the last one: "unknown", "valid" or "unsat"
  asserted   \* ghost: the assumptions in force, in order

vars == <<program, E, stack, pc, agenda, goal, answer, asserted>>

Redex(op, t, u) == [op |-> op, t |-> t, u |-> u]
NoGoal == Redex("none", True, True)

-----------------------------------------------------------------------------
(* push of term nodes and value nodes: their fields are saved at their first *)
(* change on a level.                                                        *)

TPush(X, t) ==
  LET n == X.tn[t] IN
  IF n.pushdepth = X.pushdepth THEN X
  ELSE [X EXCEPT !.tn[t].popstack = <<[n EXCEPT !.popstack = <<>>]>> \o @,
                 !.tn[t].pushdepth = X.pushdepth,
                 !.popactions = <<<<"t", t>>>> \o @]

(* Mutant: a value node that was changed on an outer level is not saved. *)
VPushOnce(X, v) ==
  LET n == X.vn[v] IN
  IF n.pushdepth > 0 \/ X.pushdepth = 0 THEN X
  ELSE [X EXCEPT !.vn[v].popstack = <<[n EXCEPT !.popstack = <<>>]>> \o @,
                 !.vn[v].pushdepth = X.pushdepth,
                 !.popactions = <<<<"v", v>>>> \o @]

VPush(X, v) ==
  LET n == X.vn[v] IN
  IF n.pushdepth = X.pushdepth THEN X
  ELSE [X EXCEPT !.vn[v].popstack = <<[n EXCEPT !.popstack = <<>>]>> \o @,
                 !.vn[v].pushdepth = X.pushdepth,
                 !.popactions = <<<<"v", v>>>> \o @]

RestoreNode(n) == [Head(n.popstack) EXCEPT !.popstack = Tail(n.popstack)]
PopNode(X, a) ==
  IF a[1] = "t" THEN [X EXCEPT !.tn[a[2]] = RestoreNode(@)]
  ELSE [X EXCEPT !.vn[a[2]] = RestoreNode(@)]

-----------------------------------------------------------------------------
(* Fields *)

AddRedex(X, r) == [X EXCEPT !.redexes = Append(@, r)]
SetValue(X, t, v) == [TPush(X, t) EXCEPT !.tn[t].value = v]
AddChild(X, v, t) == [VPush(X, v) EXCEPT !.vn[v].children = <<t>> \o @]
AddParent(X, v, p) == [VPush(X, v) EXCEPT !.vn[v].parents = <<p>> \o @]
SetCtorchild(X, v, type, t) == [VPush(X, v) EXCEPT !.vn[v].ctor = (type :> t) @@ @]

SetChild(X, t, k, v) ==
  LET X1 == [TPush(X, t) EXCEPT !.tn[t].children[k] = v]
      vs == X1.tn[t].children
  IN  IF IsEq(t) /\ vs[1] = vs[2] THEN AddRedex(X1, Redex("eq", t, True)) ELSE X1

(* lookup_parent: a node with the symbol and children vs, or <<>>. *)
LookupParent(X, v, symbol, vs) ==
  LET found == SelectSeq(X.vn[v].parents,
                 LAMBDA p : p[1][1] = symbol /\ X.tn[p[1]].children = vs)
  IN  IF found = <<>> THEN <<>> ELSE found[1][1]

(* Mutant: only the recorded disequalities. *)
NeqRecorded(X, v, w) == Contains(X.vn[v].neqs, w)

(* Mutant: the constructor terms are compared, not their symbols. *)
NeqTerms(X, v, w) ==
  \/ \E type \in DOMAIN X.vn[v].ctor \intersect DOMAIN X.vn[w].ctor :
       X.vn[v].ctor[type] # X.vn[w].ctor[type]
  \/ Contains(X.vn[v].neqs, w)

Neq(X, v, w) ==
  \/ \E type \in DOMAIN X.vn[v].ctor \intersect DOMAIN X.vn[w].ctor :
       X.vn[v].ctor[type][1] # X.vn[w].ctor[type][1]
  \/ Contains(X.vn[v].neqs, w)

AddNeq(X, v, w) ==
  LET X1 == [VPush(X, v) EXCEPT !.vn[v].neqs = <<w>> \o @]
      t == LookupParent(X1, v, "==", <<v, w>>)
  IN  IF t = <<>> THEN X1 ELSE AddRedex(X1, Redex("eq", t, False))

(* Mutant: the other side keeps pointing at the value that goes away. *)
NeqMergingOneSide(X, self, old, new) == AddNeq(X, new, self)

NeqMergingInto(X, self, old, new) ==
  AddNeq([VPush(X, self) EXCEPT !.vn[self].neqs =
            [k \in DOMAIN @ |-> IF @[k] = old THEN new ELSE @[k]]], new, self)

-----------------------------------------------------------------------------
(* Consequences of a value getting a constructor of an inductive type. *)

(* Mutant: && treated as ||. *)
ConnectiveValueSwapped(t, c, other) == IF (t[1] = "||") = (c = True) THEN other ELSE c

(* The value of a connective with argument k known to be c, other being the  *)
(* other argument: && and || either become their other argument or c itself. *)
ConnectiveValue(t, c, other) == IF (t[1] = "&&") = (c = True) THEN other ELSE c

(* child_ctorchild_added: argument k of t has got a constructor. *)
ChildCtorchildAdded(X, t, k, type) ==
  LET vs == X.tn[t].children
      c(j) == X.vn[vs[j]].ctor
  IN  IF IsFixpoint(t) /\ type = Fixpoints[t[1]].type /\ k = Fixpoints[t[1]].k
        THEN AddRedex(X, Redex("reduce", t, t))
      ELSE IF IsEq(t) /\ type \in DOMAIN c(1) /\ type \in DOMAIN c(2) /\ c(1)[type][1] # c(2)[type][1]
        THEN AddRedex(X, Redex("eq", t, False))
      ELSE IF t[1] \in {"&&", "||"} /\ type = BoolType
        THEN AddRedex(X, Redex("eq", t, ConnectiveValue(t, c(k)[type], vs[3 - k])))
      ELSE X

(* parent_ctorchild_added: t itself has become true or false. The initial   *)
(* child of a value node has the same name as the value node.               *)
ParentCtorchildAdded(X, t, type) ==
  LET vs == X.tn[t].children
      isTrue == X.tn[t].value = X.tn[True].value
  IN  IF type # BoolType THEN X
      ELSE IF IsEq(t)
        THEN AddRedex(X, Redex(IF isTrue THEN "eq" ELSE "neq", vs[1], vs[2]))
      ELSE IF t[1] \in {"&&", "||"} /\ (t[1] = "&&") = isTrue
        THEN LET c == IF isTrue THEN True ELSE False
             IN  AddRedex(AddRedex(X, Redex("eq", vs[1], c)), Redex("eq", vs[2], c))
      ELSE IF t[1] \in {"&&", "||"}
        THEN [X EXCEPT !.splits = Append(@, <<t[1], vs[1], vs[2]>>)]
      ELSE X

CtorchildAdded(X, type, parents, children) ==
  FoldLeft(LAMBDA Y, t : ParentCtorchildAdded(Y, t, type),
           FoldLeft(LAMBDA Y, p : ChildCtorchildAdded(Y, p[1], p[2], type), X, parents),
           children)

(* match_ctorchildren for one type: the nodes, and the pair to be unified. *)
MatchCtorchild(R, type, v, self, target) ==
  LET inSelf == type \in DOMAIN self.ctor
      inTarget == type \in DOMAIN target.ctor
  IN  IF inSelf /\ ~inTarget
        THEN [R EXCEPT !.X = CtorchildAdded(SetCtorchild(@, v, type, self.ctor[type]),
                                            type, target.parents, target.children)]
      ELSE IF inTarget /\ ~inSelf
        THEN [R EXCEPT !.X = CtorchildAdded(@, type, self.parents, self.children)]
      ELSE IF inSelf
        THEN [R EXCEPT !.calls = Append(@, Redex("args", self.ctor[type], target.ctor[type]))]
      ELSE R

(* A parent that is now equivalent with a parent of v. *)
RedundantParent(R, v, p) ==
  LET n == LookupParent(R.X, v, p[1][1], R.X.tn[p[1]].children) IN
  [X |-> AddParent(R.X, v, p),
   calls |-> IF n = <<>> THEN R.calls ELSE Append(R.calls, Redex("eq", p[1], n))]

(* u#merge_into v: the nodes after it, and the calls of assert_eq it makes. *)
MergeInto(X, u, v) ==
  LET self == X.vn[u]
      target == X.vn[v]
      X1 == FoldLeft(LAMBDA Y, t : SetValue(Y, t, v), X, self.children)
      X2 == FoldLeft(LAMBDA Y, t : AddChild(Y, v, t), X1, self.children)
      X3 == FoldLeft(LAMBDA Y, w : NeqMergingInto(Y, w, u, v), X2, X2.vn[u].neqs)
      X4 == FoldLeft(LAMBDA Y, p : SetChild(Y, p[1], p[2], v), X3, self.parents)
      R0 == FoldLeft(LAMBDA R, type : MatchCtorchild(R, type, v, self, target),
                     [X |-> X4, calls |-> <<>>], SetToSeq(Range(Ctors)))
  IN  FoldLeft(LAMBDA R, p : RedundantParent(R, v, p), R0, self.parents)

(* true and false are never merged into another value. *)
Merge(X, u, v) ==
  LET keep == IF u \in {X.tn[True].value, X.tn[False].value} THEN u ELSE v
  IN  MergeInto(X, IF keep = u THEN v ELSE u, keep)

-----------------------------------------------------------------------------
(* assert_eq, assert_neq and the reduction of a fixpoint application: the   *)
(* nodes, the answer, and the calls still to be made.                       *)

Result(X, answer_, calls) == [X |-> X, answer |-> answer_, calls |-> calls]

AssertEq(X, u, v) ==
  IF u = v THEN Result(X, "valid", <<>>)
  ELSE IF Neq(X, u, v) THEN Result(X, "unsat", <<>>)
  ELSE LET R == Merge(X, u, v) IN Result(R.X, "unknown", R.calls)

(* To be different from true or false is to be equal to the other one. *)
AssertNeq(X, u, v) ==
  LET true == X.tn[True].value
      false == X.tn[False].value
  IN  IF u = v THEN Result(X, "unsat", <<>>)
      ELSE IF Neq(X, u, v) THEN Result(X, "valid", <<>>)
      ELSE IF u \in {true, false}
        THEN Result(X, "valid", <<Redex("eq", v, IF u = true THEN False ELSE True)>>)
      ELSE IF v \in {true, false}
        THEN Result(X, "valid", <<Redex("eq", u, IF v = true THEN False ELSE True)>>)
      ELSE Result(AddNeq(AddNeq(X, u, v), v, u), "unknown", <<>>)

(* What the clause of a fixpoint yields for the constructor term c. *)
Clause(X, fp, c) == IF fp.clause[c[1]] = 0 THEN fp.base ELSE X.tn[c].children[fp.clause[c[1]]]

Reduce(X, t) ==
  LET fp == Fixpoints[t[1]]
      c == X.vn[X.tn[t].children[fp.k]].ctor[fp.type]
      arg == Clause(X, fp, c)
  IN  IF X.tn[t].reduced THEN Result(X, "valid", <<>>)
      ELSE Result([TPush(X, t) EXCEPT !.tn[t].reduced = TRUE], "valid", <<Redex("eq", arg, t)>>)

(* The pairs of arguments of two equal constructor terms (injectiveness). *)
ArgPairs(X, t, u) ==
  [k \in DOMAIN X.tn[t].children |-> Redex("eq", X.tn[t].children[k], X.tn[u].children[k])]

Perform(X, r) ==
  CASE r.op = "eq" -> AssertEq(X, X.tn[r.t].value, X.tn[r.u].value)
    [] r.op = "neq" -> AssertNeq(X, X.tn[r.t].value, X.tn[r.u].value)
    [] r.op = "reduce" -> Reduce(X, r.t)
    [] r.op = "args" -> Result(X, "valid", ArgPairs(X, r.t, r.u))

-----------------------------------------------------------------------------
(* Nodes *)

(* The termnode object, and the calls its initializer makes. *)
NewNode(X, t) ==
  LET vs == [k \in DOMAIN Args(t) |-> X.tn[Args(t)[k]].value]
      tn == [children |-> vs, value |-> t, reduced |-> FALSE, pushdepth |-> 0, popstack |-> <<>>]
      vn == [children |-> <<t>>, parents |-> <<>>, neqs |-> <<>>, pushdepth |-> 0, popstack |-> <<>>,
             ctor |-> IF IsCtor(t) THEN Ctors[t[1]] :> t ELSE <<>>]
      X1 == [X EXCEPT !.tn = (t :> tn) @@ @, !.vn = (t :> vn) @@ @]
      X2 == FoldLeft(LAMBDA Y, k : AddParent(Y, vs[k], <<t, k>>), X1, [k \in DOMAIN vs |-> k])
      known(k) == \E c \in {True, False} : vs[k] = X.tn[c].value
      calls == IF IsEq(t) /\ vs[1] = vs[2] THEN <<Redex("eq", t, True)>>
               ELSE IF IsEq(t) /\ Neq(X2, vs[1], vs[2]) THEN <<Redex("eq", t, False)>>
               ELSE IF t[1] \in {"&&", "||"} /\ known(1)
                 THEN <<Redex("eq", t, ConnectiveValue(t, vs[1], vs[2]))>>
               ELSE IF t[1] \in {"&&", "||"} /\ known(2)
                 THEN <<Redex("eq", t, ConnectiveValue(t, vs[2], vs[1]))>>
               ELSE <<>>
      toReduce == IsFixpoint(t) /\ Fixpoints[t[1]].type \in DOMAIN X2.vn[vs[Fixpoints[t[1]].k]].ctor
  IN  [X |-> IF toReduce THEN AddRedex(X2, Redex("reduce", t, t)) ELSE X2, calls |-> calls]

(* The context with its nodes for true and false. *)
NewContext(declared) ==
  LET X0 == [tn |-> <<>>, vn |-> <<>>, redexes |-> <<>>, splits |-> <<>>,
             pushdepth |-> 0, popactions |-> <<>>, unsat |-> FALSE]
  IN  FoldLeft(LAMBDA X, t : NewNode(X, t).X, X0, <<True, False>> \o declared)

Init ==
  /\ program \in Programs
  /\ E = NewContext(program.declared)
  /\ stack = <<>>
  /\ pc = "idle"
  /\ agenda = <<>>
  /\ goal = NoGoal
  /\ answer = "unknown"
  /\ asserted = <<>>

Idle == pc = "idle" /\ answer # "unsat"

(* get_node: the existing node of an equivalent term, or a new one. *)
GetNode(t) ==
  /\ Idle
  /\ t \notin DOMAIN E.tn
  /\ Range(Args(t)) \subseteq DOMAIN E.tn
  /\ LET vs == [k \in DOMAIN Args(t) |-> E.tn[Args(t)[k]].value]
     IN  vs # <<>> => LookupParent(E, vs[1], t[1], vs) = <<>>
  /\ LET N == NewNode(E, t) IN E' = N.X /\ agenda' = N.calls
  /\ pc' = "create"
  /\ UNCHANGED <<program, stack, goal, answer, asserted>>

-----------------------------------------------------------------------------
(* Operations *)

(* assume_eq and assume_neq, which reduce first. *)
Assume(r) ==
  /\ Idle
  /\ Len(asserted) < program.maxAssumes
  /\ {r.t, r.u} \subseteq DOMAIN E.tn
  /\ pc' = "reduce"
  /\ goal' = r
  /\ UNCHANGED <<program, E, stack, agenda, answer, asserted>>

Push ==
  /\ Idle
  /\ E.pushdepth < program.maxPush
  /\ pc' = "reduce"
  /\ goal' = Redex("push", True, True)
  /\ UNCHANGED <<program, E, stack, agenda, answer, asserted>>

(* Mutant: the answer of the last step. *)
CombinedLast(old, new) == new

(* do_and_reduce and reduce0 combine answers: valid only if every step was. *)
Combined(old, new) == IF new = "unsat" THEN "unsat" ELSE IF old = "valid" THEN new ELSE "unknown"

(* The next call of assert_eq or assert_neq of the operation in progress. *)
Call ==
  /\ pc # "idle"
  /\ agenda # <<>>
  /\ LET R == Perform(E, Head(agenda)) IN
     /\ agenda' = IF R.answer = "unsat" THEN <<>> ELSE R.calls \o Tail(agenda)
     /\ E' = IF R.answer = "unsat" /\ pc = "reduce" THEN [R.X EXCEPT !.unsat = TRUE] ELSE R.X
     /\ answer' = IF pc = "run" THEN Combined(answer, R.answer) ELSE answer
     /\ pc' = IF pc = "run" /\ R.answer = "unsat" THEN "idle" ELSE pc
  /\ UNCHANGED <<program, stack, goal, asserted>>

(* reduce_step of reduce0 *)
ReduceStep ==
  /\ pc \in {"reduce", "run"}
  /\ agenda = <<>>
  /\ E.redexes # <<>>
  /\ ~E.unsat
  /\ agenda' = <<Head(E.redexes)>>
  /\ E' = [E EXCEPT !.redexes = Tail(@)]
  /\ UNCHANGED <<program, stack, pc, goal, answer, asserted>>

Reduced == agenda = <<>> /\ (E.redexes = <<>> \/ E.unsat)

Created ==
  /\ pc = "create"
  /\ agenda = <<>>
  /\ pc' = "idle"
  /\ UNCHANGED <<program, E, stack, agenda, goal, answer, asserted>>

(* The terms are reduced: the assumption itself is made. *)
Start ==
  /\ pc = "reduce" /\ Reduced
  /\ goal.op \in {"eq", "neq"}
  /\ pc' = "run"
  /\ agenda' = <<goal>>
  /\ answer' = "valid"
  /\ asserted' = Append(asserted, goal)
  /\ UNCHANGED <<program, E, stack, goal>>

Finish ==
  /\ pc = "run" /\ Reduced
  /\ pc' = "idle"
  /\ UNCHANGED <<program, E, stack, agenda, goal, answer, asserted>>

PushLevel ==
  /\ pc = "reduce" /\ Reduced
  /\ goal.op = "push"
  /\ stack' = <<[popactions |-> E.popactions, unsat |-> E.unsat, splits |-> E.splits,
                 asserted |-> asserted, tn |-> E.tn, vn |-> E.vn]>> \o stack
  /\ E' = [E EXCEPT !.pushdepth = @ + 1, !.popactions = <<>>]
  /\ pc' = "idle"
  /\ answer' = "unknown"
  /\ UNCHANGED <<program, agenda, goal, asserted>>

(* Every registered action runs, the last one first. Nodes made since, except *)
(* those of constant symbols, are unreachable.                               *)
Undone(X) == FoldLeft(PopNode, X, X.popactions)
Pop ==
  /\ pc = "idle"
  /\ stack # <<>>
  /\ LET saved == Head(stack)
         X == Undone(E)
         reachable == DOMAIN saved.tn \union {t \in DOMAIN X.tn : Len(t) = 1}
     IN  /\ E' = [tn |-> Restrict(X.tn, reachable), vn |-> Restrict(X.vn, reachable),
                  redexes |-> <<>>, splits |-> saved.splits, unsat |-> saved.unsat,
                  pushdepth |-> E.pushdepth - 1, popactions |-> saved.popactions]
         /\ asserted' = saved.asserted
  /\ stack' = Tail(stack)
  /\ answer' = "unknown"
  /\ UNCHANGED <<program, pc, agenda, goal>>

Next ==
  \/ \E t \in program.terms : GetNode(t)
  \/ \E r \in program.facts : Assume(r)
  \/ Call \/ ReduceStep \/ Created \/ Start \/ Finish
  \/ Push \/ PushLevel \/ Pop

Spec == Init /\ [][Next]_vars

-----------------------------------------------------------------------------
(* Reference: the congruence closure of a set of assumptions, as the         *)
(* representative of every term. The equality of different values is taken  *)
(* to be false only if "strong".                                            *)

Pairs(A, rep, strong) ==
  LET T == DOMAIN rep
      same(t, u) == rep[t] = rep[u]
      apart(t, u) == \E c, d \in T : /\ IsCtor(c) /\ IsCtor(d) /\ Ctors[c[1]] = Ctors[d[1]]
                                     /\ c[1] # d[1] /\ same(t, c) /\ same(u, d)
      neqs == {<<r.t, r.u>> : r \in {r \in A : r.op = "neq"}}
              \union {<<t[2], t[3]>> : t \in {t \in T : IsEq(t) /\ same(t, False)}}
      differ(t, u) == \E p \in neqs : \/ same(t, p[1]) /\ same(u, p[2])
                                      \/ same(t, p[2]) /\ same(u, p[1])
      connectives == {t \in T : t[1] \in {"&&", "||"}}
      one(t) == IF t[1] = "&&" THEN True ELSE False
      zero(t) == IF t[1] = "&&" THEN False ELSE True
      \* of applications of one constructor: all arguments; of any symbol: the terms
      injective == {p \in T \X T : IsCtor(p[1]) /\ p[1][1] = p[2][1] /\ same(p[1], p[2])}
      congruent == {p \in T \X T : /\ p[1][1] = p[2][1]
                                   /\ \A k \in 2..Len(p[1]) : same(p[1][k], p[2][k])}
      fixed == {p \in T \X T : /\ IsFixpoint(p[1]) /\ p[2][1] \in DOMAIN Fixpoints[p[1][1]].clause
                               /\ same(p[2], p[1][Fixpoints[p[1][1]].k + 1])}
  IN  {<<r.t, r.u>> : r \in {r \in A : r.op = "eq"}}
      \union congruent
      \union UNION {{<<p[1][k], p[2][k]>> : k \in 2..Len(p[1])} : p \in injective}
      \union {<<p[1], LET fp == Fixpoints[p[1][1]]
                          k == fp.clause[p[2][1]]
                      IN  IF k = 0 THEN fp.base ELSE p[2][k + 1]>> : p \in fixed}
      \union {<<t, True>> : t \in {t \in T : IsEq(t) /\ same(t[2], t[3])}}
      \union {<<t[2], t[3]>> : t \in {t \in T : IsEq(t) /\ same(t, True)}}
      \union {<<t, False>> : t \in {t \in T : IsEq(t) /\ apart(t[2], t[3])}}
      \union UNION {{<<t[2], one(t)>>, <<t[3], one(t)>>} : t \in {t \in connectives : same(t, one(t))}}
      \union UNION {{<<t, t[5 - k]>> : k \in {k \in {2, 3} : same(t[k], one(t))}} : t \in connectives}
      \union {<<t, zero(t)>> : t \in {t \in connectives : \E k \in {2, 3} : same(t[k], zero(t))}}
      \union (IF ~strong THEN {}
              ELSE {<<t, False>> : t \in {t \in T : IsEq(t) /\ differ(t[2], t[3])}}
                   \union {<<t, False>> : t \in {t \in T : differ(t, True)}}
                   \union {<<t, True>> : t \in {t \in T : differ(t, False)}})

RECURSIVE Closed(_, _, _)
Closed(A, rep, strong) ==
  LET todo == {p \in Pairs(A, rep, strong) : rep[p[1]] # rep[p[2]]} IN
  IF todo = {} THEN rep
  ELSE LET join(p, r) == [t \in DOMAIN r |-> IF r[t] = r[p[1]] THEN r[p[2]] ELSE r[t]]
       IN  Closed(A, FoldSet(join, rep, todo), strong)

Closure(A, strong) == Closed(A, [t \in DOMAIN E.tn |-> t], strong)

Inconsistent(A, rep) ==
  \/ \E c, d \in DOMAIN rep : /\ IsCtor(c) /\ IsCtor(d) /\ Ctors[c[1]] = Ctors[d[1]]
                              /\ c[1] # d[1] /\ rep[c] = rep[d]
  \/ \E r \in A : r.op = "neq" /\ rep[r.t] = rep[r.u]
  \/ \E t \in DOMAIN rep : IsEq(t) /\ rep[t] = rep[False] /\ rep[t[2]] = rep[t[3]]

Contradictory(A) == Inconsistent(A, Closure(A, TRUE))

-----------------------------------------------------------------------------
(* Properties *)

(* Terms that share a value node, at any point of any operation (nested     *)
(* merges and waiting redexes included), are equal in every model of the    *)
(* assumptions in force: no pop, redex or reduction leaves an equality      *)
(* behind that does not follow.                                             *)
MergesSound ==
  LET merged == {s \in (DOMAIN E.tn) \X (DOMAIN E.tn) :
                   s[1] # s[2] /\ E.tn[s[1]].value = E.tn[s[2]].value}
      rep == Closure(Range(asserted), TRUE)
  IN  \/ merged = {}
      \/ Inconsistent(Range(asserted), rep)
      \/ \A s \in merged : rep[s[1]] = rep[s[2]]

(* When assume_eq or assume_neq answers Unsat3, the assumptions in force are *)
(* contradictory.                                                           *)
UnsatSound == answer = "unsat" => Contradictory(Range(asserted))

(* When an assumption has been made without a contradiction, terms that are  *)
(* congruent, equal by injectiveness, by a fixpoint's clause or by the value *)
(* of an equality, && or || term share a value node, and there is no         *)
(* contradiction between constructors or with a disequality.                 *)
ClosureComplete ==
  pc = "idle" /\ answer # "unsat" /\ E.redexes = <<>> =>
    LET rep == Closure(Range(asserted), FALSE) IN
    /\ ~Inconsistent(Range(asserted), rep)
    /\ \A t, u \in DOMAIN E.tn : rep[t] = rep[u] => E.tn[t].value = E.tn[u].value

(* merge_into's comment "At this point self is referenced nowhere": between  *)
(* calls, a value node that was merged away is not the value or an argument  *)
(* of any term node, nor in the neqs of a value node, and the links go both   *)
(* ways (a value's children have that value, an argument lists its parents,   *)
(* a disequality is known on both sides).                                     *)
NoDanglingValue ==
  LET V == {E.tn[t].value : t \in DOMAIN E.tn} IN
  /\ \A t \in DOMAIN E.tn :
       /\ Contains(E.vn[E.tn[t].value].children, t)
       /\ \A k \in DOMAIN E.tn[t].children :
            LET v == E.tn[t].children[k] IN v \in V /\ Contains(E.vn[v].parents, <<t, k>>)
  /\ \A v \in V : \A w \in Range(E.vn[v].neqs) : w \in V /\ Contains(E.vn[w].neqs, v)
  /\ \A v \in V : \A t \in Range(E.vn[v].children) : E.tn[t].value = v

(* Valid3 tells perform_pending_splits that the assumption was already        *)
(* implied, so that it drops a split: the equality or disequality followed    *)
(* from the other assumptions in force.                                       *)
ValidWasImplied ==
  pc = "idle" /\ answer = "valid" =>
    LET negated == [Last(asserted) EXCEPT !.op = IF @ = "eq" THEN "neq" ELSE "eq"]
    IN  Contradictory(Range(Front(asserted)) \union {negated})

(* pop brings every node that was there back to its fields at push, whatever  *)
(* happened on the inner levels, and a constant made since to a value of its   *)
(* own.                                                                        *)
PopRestores ==
  [][Len(stack') < Len(stack) =>
       /\ \A t \in DOMAIN Head(stack).tn : /\ E'.tn[t] = Head(stack).tn[t]
                                            /\ E'.vn[t] = Head(stack).vn[t]
       /\ \A t \in DOMAIN E'.tn \ DOMAIN Head(stack).tn : E'.tn[t].value = t /\ E'.vn[t].children = <<t>>]_vars
=============================================================================
