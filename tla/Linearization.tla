---------------------------- MODULE Linearization ----------------------------
(* Linearizability of an object, decided along a behaviour.  An operation of a *)
(* concurrent object is to appear to take effect at one instant between its    *)
(* call and its return.  A possibility records one choice of these instants so *)
(* far: the abstract state st, the operations op in progress, and the results  *)
(* out of those that have already taken effect.  The set of the possibilities  *)
(* that agree with the results returned so far is the ghost variable lin of    *)
(* the modules that use this one; the behaviour so far is linearizable iff it  *)
(* is not empty.                                                               *)
EXTENDS FiniteSetsExt

CONSTANTS Threads,
          Apply(_, _)     \* Apply(st, op): the allowed [st, out] pairs

\* an operation not in progress, and a result not yet determined, are <<>>
Unused(st) == {[st |-> st, op |-> [t \in Threads |-> <<>>],
                out |-> [t \in Threads |-> <<>>]]}

Call(lin, t, op) == {[p EXCEPT !.op[t] = op] : p \in lin}

\* one more operation in progress takes effect
TakeEffect(p, t) == {[p EXCEPT !.st = a.st, !.out[t] = <<a.out>>] :
                       a \in Apply(p.st, p.op[t])}

Pending(p) == {t \in Threads : p.op[t] # <<>> /\ p.out[t] = <<>>}

Extended(lin) == lin \cup UNION {UNION {TakeEffect(p, t) : t \in Pending(p)} : p \in lin}

\* any number of operations in progress have taken effect
Closure(lin) == FoldSet(LAMBDA t, ps : Extended(ps), lin, Threads)

Return(lin, t, out) ==
  {[p EXCEPT !.op[t] = <<>>, !.out[t] = <<>>] :
     p \in {q \in Closure(lin) : q.out[t] = <<out>>}}
=============================================================================
