------------------------------ MODULE MCRedux ------------------------------
(* Instances of the two parts of redux.ml that are modelled: a behaviour runs *)
(* one of them (part), Egraph on the programs below or ReduxSplits on         *)
(* disjunctions and negated conjunctions that share atoms.                    *)
EXTENDS Egraph

CONSTANTS MaxAssumes, MaxPush   \* the bounds of ReduxSplits

VARIABLES part, s_c, s_asserted, s_levels, s_answer, s_reply

a == <<"a">>
b == <<"b">>
c == <<"c">>
p == <<"p">>
nil == <<"nil">>
Eq(t, u) == <<"==", t, u>>
And(t, u) == <<"&&", t, u>>
Or(t, u) == <<"||", t, u>>
F(t) == <<"f", t>>
Cell(t, u) == <<"cons", t, u>>
Tl(t) == <<"tail", t>>
equal(t, u) == Redex("eq", t, u)
differ(t, u) == Redex("neq", t, u)

MCCtors == [x \in {"true", "false"} |-> "bool"] @@ [x \in {"nil", "cons"} |-> "list"]
MCFixpoints == "tail" :> [type |-> "list", k |-> 1, clause |-> ("nil" :> 0 @@ "cons" :> 2), base |-> nil]

(* Congruence, disequalities and the equality terms of constants. *)
MCEqDeclared == <<a, b, nil>>
MCEqTerms == {c, F(a), F(b), Eq(a, b)}
MCEqFacts ==
  {equal(a, b), equal(b, c), equal(F(a), a), differ(F(a), F(b)), differ(b, c),
   equal(Eq(a, b), True), differ(Eq(a, b), True)}

(* Constructors, and a fixpoint over them. *)
MCListDeclared == <<nil, a, b, c>>
MCListTerms == {Cell(a, nil), Cell(b, c), Tl(c), Eq(c, nil)}
MCListFacts ==
  {equal(Cell(a, nil), Cell(b, c)), equal(c, Cell(a, nil)), differ(a, b),
   differ(Tl(c), nil), equal(Eq(c, nil), False)}

(* Connectives of equality terms. *)
MCBoolDeclared == <<a, b, p, nil>>
MCBoolTerms == {Eq(a, b), And(p, Eq(a, b)), Or(p, Eq(a, b)), Eq(p, Eq(a, b))}
MCBoolFacts ==
  {equal(And(p, Eq(a, b)), True), equal(Or(p, Eq(a, b)), False), equal(Or(p, Eq(a, b)), True),
   differ(a, b), equal(p, False), equal(Eq(p, Eq(a, b)), True)}

(* Backtracking over levels. *)
MCPopDeclared == <<nil, a, b>>
MCPopTerms == {c, Cell(a, nil), Tl(b), Eq(b, c)}
MCPopFacts == {differ(b, c), equal(b, Cell(a, nil)), equal(Eq(b, c), True)}

Program(declared, terms, facts, maxAssumes, maxPush) ==
  [declared |-> declared, terms |-> terms, facts |-> facts,
   maxAssumes |-> maxAssumes, maxPush |-> maxPush]
MCPrograms ==
  {Program(MCEqDeclared, MCEqTerms, MCEqFacts, 3, 0),
   Program(MCListDeclared, MCListTerms, MCListFacts, 3, 0),
   Program(MCBoolDeclared, MCBoolTerms, MCBoolFacts, 2, 0),
   Program(MCPopDeclared, MCPopTerms, MCPopFacts, 2, 2)}

-----------------------------------------------------------------------------
(* An automatic lemma with trigger s; three exclusive disjunctions that       *)
(* contradict each other, as only a split shows, and other facts.             *)
P == [op |-> "atom", a |-> "p"]
Q == [op |-> "atom", a |-> "q"]
R == [op |-> "atom", a |-> "r"]
S == [op |-> "atom", a |-> "s"]
Negation(t) == [op |-> "not", t |-> t]
Formula(op, t, u) == [op |-> op, l |-> t, r |-> u]
Xor(t, u) == Formula("&&", Formula("||", t, u), Negation(Formula("&&", t, u)))

Axiom == S :> Formula("==>", Formula("&&", P, Q), R)
Fact == {P, Negation(P), Negation(R), Formula("||", P, Q), Xor(P, Q), Xor(Q, R), Xor(P, R),
         Formula("||", P, Formula("&&", Q, R)), Formula("||", S, P)}
Question == {P, R, Formula("||", P, R), Formula("&&", P, Q)}

Splits == INSTANCE ReduxSplits
  WITH c <- s_c, asserted <- s_asserted, levels <- s_levels, answer <- s_answer, reply <- s_reply

splitvars == <<s_c, s_asserted, s_levels, s_answer, s_reply>>

ReduxInit == /\ part \in {"egraph", "splits"} /\ Init /\ Splits!Init
             /\ part = "splits" => program.facts = MCPopFacts
ReduxNext == \/ part = "egraph" /\ Next /\ UNCHANGED <<part, splitvars>>
             \/ part = "splits" /\ Splits!Next /\ UNCHANGED <<part, vars>>
ReduxSpec == ReduxInit /\ [][ReduxNext]_<<part, vars, splitvars>>

(* assume and query never refute what has a model: perform_pending_splits     *)
(* answers true only when the assumptions in force contradict each other and  *)
(* the axioms, and the assertion in query, that pruning finds no              *)
(* contradiction, holds.                                                      *)
RefutationsSound == Splits!RefutationsSound

(* assume and query miss no contradiction, whatever splits earlier            *)
(* assumptions, queries and pops dropped, decided or brought back.            *)
RefutationsComplete == Splits!RefutationsComplete

(* pop and pop_internal: the nodes of the graph, and the splits, implications *)
(* and values, are again what the push of the level found, whatever the pop   *)
(* actions of the levels above it did.                                        *)
PopsRestore == PopRestores /\ Splits!PopRestores
=============================================================================
