-------------------------------- MODULE Gcl --------------------------------
(* The Lisp interpreter of examples/gcl.c.  Objects that are allocated while  *)
(* others are in use may trigger the collector (module Collector), which      *)
(* frees what cannot be reached from the roots: the stacks, the global        *)
(* environments, and the locals that push_root has registered.  Here it runs  *)
(* at every allocation, or never: at every one it frees whatever collections  *)
(* at some of them would free before it is used.  Addresses are not used      *)
(* again, so that the use of an object that is gone shows.                    *)
EXTENDS Integers, Sequences, FiniteSets, Functions

CONSTANT Programs             \* expressions: [atom |-> a] or [fun |-> e, arg |-> e]
VARIABLES S,                  \* the heap, stacks and output; see Start
          input,              \* the tokens to come
          parent, expr,       \* locals of parse
          pc, program

vars == <<S, input, parent, expr, pc, program>>

With(e, F(_)) == CHOOSE y \in {F(z) : z \in {e}} : TRUE

nil_value == 0
Nil == [class |-> "nil"]
Cons(hd, tl) == [class |-> "cons", head |-> hd, tail |-> tl]
Function(apply, data) == [class |-> "function", apply |-> apply, data |-> data]
Atom(chars) == [class |-> "atom", chars |-> chars]

Fields(o) == CASE o.class = "cons" -> {o.head, o.tail}
               [] o.class = "function" -> {o.data}
               [] OTHER -> {}

RECURSIVE Reachable(_, _, _)
Reachable(heap, seen, todo) ==
  IF todo = {} THEN seen
  ELSE With(seen \cup todo,
         LAMBDA s : Reachable(heap, s, UNION {Fields(heap[o]) : o \in todo \cap DOMAIN heap} \ s))

\* gc(), with the roots of init_globals and main, and the locals in roots
gc(T, roots) ==
  [T EXCEPT !.heap = Restrict(@, DOMAIN @ \cap
     Reachable(@, {}, {nil_value, T.operand_stack, T.cont_stack, T.forms, T.env, T.envs}
                        \cup roots))]

\* register_object for a new object, whose fields the create functions make
\* roots; its address is T.next.  The error that it reports when 10000 objects
\* stay reachable is left out: the programs here need far fewer
create(T, o, roots) ==
  With(IF T.collects THEN gc(T, roots \cup Fields(o)) ELSE T,
       LAMBDA U : [U EXCEPT !.heap = [a \in DOMAIN @ \cup {U.next} |->
                                        IF a = U.next THEN o ELSE @[a]],
                            !.next = @ + 1])

push(T, o, roots) ==
  With(create(T, Cons(o, T.operand_stack), roots),
       LAMBDA U : [U EXCEPT !.operand_stack = T.next])
push_cont(T, o, roots) ==
  With(create(T, Cons(o, T.cont_stack), roots),
       LAMBDA U : [U EXCEPT !.cont_stack = T.next])

\* create_function, and push_cont or push of the new function
push_cont_function(T, apply, data, roots) ==
  With(create(T, Function(apply, data), roots), LAMBDA U : push_cont(U, T.next, roots))
push_function(T, apply, data, roots) ==
  With(create(T, Function(apply, data), roots), LAMBDA U : push(U, T.next, roots))

error(T) == [T EXCEPT !.status = "error"]
Dangling(T) == [T EXCEPT !.status = "dangling"]

\* an object that is used must still be there
Using(T, objects, U) == IF objects \subseteq DOMAIN T.heap THEN U ELSE Dangling(T)
IsA(T, o, class) == T.heap[o].class = class

\* destruct_cons
Destruct(T, o, F(_, _)) ==
  IF o \notin DOMAIN T.heap THEN Dangling(T)
  ELSE IF ~IsA(T, o, "cons") THEN error(T)
  ELSE F(T.heap[o].head, T.heap[o].tail)

\* assoc: the entry of the first key that is equal, and None when there is none
None == -1
RECURSIVE assoc(_, _, _)
assoc(T, key, map) ==
  IF map = nil_value THEN None
  ELSE LET entry == T.heap[T.heap[map].head] IN
       IF T.heap[entry.head].chars = T.heap[key].chars THEN entry.tail
       ELSE assoc(T, key, T.heap[map].tail)

\* map_cons for a key that exists, onto the map that is returned in map
map_cons(T, key, value, map, roots) ==
  With(create(T, Cons(key, value), roots \cup {map}),
       LAMBDA U : create(U, Cons(T.next, map), roots))
----------------------------------------------------------------------------
(* The functions that a function object can apply *)

HasOperand(T) == T.operand_stack \in DOMAIN T.heap /\ IsA(T, T.operand_stack, "cons")

\* pop(): the state without the top of the operand stack
pop(T) ==
  IF T.operand_stack \notin DOMAIN T.heap THEN Dangling(T)
  ELSE IF ~HasOperand(T) THEN error(T)
  ELSE [T EXCEPT !.operand_stack = T.heap[T.operand_stack].tail]

\* F gets the object that pop() returns and the state that it leaves
Pop(T, F(_, _)) ==
  IF HasOperand(T) THEN F(T.heap[T.operand_stack].head, pop(T)) ELSE pop(T)

\* mutant: the subexpressions are not made roots
LocalsForgotten(envs, f_expr, arg_expr) == {}

\* the locals that eval keeps as roots while it pushes the continuations
EvalRoots(envs, f_expr, arg_expr) == {envs, f_expr, arg_expr}

\* a form is applied to the unevaluated argument; otherwise the argument, the
\* function and the application are pushed to be evaluated in this order
eval(T, data) ==
  Destruct(T, data, LAMBDA envs, e : Destruct(T, envs, LAMBDA forms, env :
    IF e \notin DOMAIN T.heap THEN Dangling(T)
    ELSE IF IsA(T, e, "atom")
    THEN With(assoc(T, e, env), LAMBDA v : IF v = None THEN error(T) ELSE push(T, v, {}))
    ELSE IF ~IsA(T, e, "cons") THEN error(T)
    ELSE Destruct(T, e, LAMBDA f_expr, arg_expr :
      With(IF IsA(T, f_expr, "atom") THEN assoc(T, f_expr, forms) ELSE None, LAMBDA form :
        IF form # None
        THEN With(create(T, Cons(envs, arg_expr), {form}), LAMBDA U :
             With(push(U, T.next, {form}), LAMBDA V : [V EXCEPT !.apply = form]))
        ELSE LET roots == EvalRoots(envs, f_expr, arg_expr) IN
             With(push_cont_function(T, "pop_apply", nil_value, roots), LAMBDA U :
             With(create(U, Cons(envs, f_expr), roots), LAMBDA V :
             With(push_cont_function(V, "eval", U.next, roots), LAMBDA W :
             With(create(W, Cons(envs, arg_expr), roots), LAMBDA X :
                  push_cont_function(X, "eval", W.next, roots)))))))))

pop_apply(T) == Pop(T, LAMBDA f, U : [U EXCEPT !.apply = f])

print_atom(T) ==
  Pop(T, LAMBDA arg, U :
    IF arg \notin DOMAIN U.heap THEN Dangling(U)
    ELSE IF ~IsA(U, arg, "atom") THEN error(U)
    ELSE With([U EXCEPT !.output = Append(@, U.heap[arg].chars)],
              LAMBDA V : push(V, nil_value, {})))

quote_function(T) ==
  Pop(T, LAMBDA arg, U : Destruct(U, arg, LAMBDA envs, body : push(U, body, {})))

fun_function(T) ==
  Pop(T, LAMBDA arg, U : push_function(U, "fun_apply_function", arg, {}))

\* the body is evaluated where the parameter is bound to the argument
fun_apply_function(T, data) ==
  Pop(T, LAMBDA arg, U :
    Destruct(U, data, LAMBDA envs, e : Destruct(U, envs, LAMBDA forms, env :
    Destruct(U, e, LAMBDA param, body :
      IF ~IsA(U, param, "atom") THEN error(U)
      ELSE LET roots == {forms, body} IN
           With(map_cons(U, param, arg, env, roots), LAMBDA V :
           With(create(V, Cons(forms, V.next - 1), roots \cup {V.next - 1}), LAMBDA W :
           With(create(W, Cons(V.next, body), roots \cup {V.next - 1}), LAMBDA X :
                push_cont_function(X, "eval", W.next, roots))))))))

----------------------------------------------------------------------------
(* main *)

\* map_cons_s_func_nil("key", function, &map), to the end of the heap
Bind(T, key, function) ==
  With(create(T, Function(function, nil_value), {}), LAMBDA U :
  With(create(U, Atom(key), {T.next}), LAMBDA V :
       map_cons(V, U.next, T.next, V.map, {})))

Start(collects) ==
  With([heap |-> [o \in {nil_value} |-> Nil], next |-> 1, operand_stack |-> nil_value,
        cont_stack |-> nil_value, forms |-> nil_value, env |-> nil_value,
        envs |-> nil_value, map |-> nil_value, apply |-> None, output |-> <<>>,
        status |-> "running", collects |-> FALSE], LAMBDA A :
  With(Bind(A, "quote", "quote_function"), LAMBDA B0 :
  With([B0 EXCEPT !.map = B0.next - 1], LAMBDA B :
  With(Bind(B, "fun", "fun_function"), LAMBDA C0 :
  With([C0 EXCEPT !.forms = C0.next - 1, !.map = nil_value], LAMBDA C :
  With(Bind(C, "print_atom", "print_atom"), LAMBDA D0 :
  With([D0 EXCEPT !.env = D0.next - 1], LAMBDA D :
  With(create(D, Cons(D.forms, D.env), {}), LAMBDA E :
       [E EXCEPT !.envs = D.next, !.map = nil_value, !.collects = collects]))))))))

Init == /\ S = Start(FALSE) /\ input = <<>> /\ parent = nil_value /\ expr = nil_value
        /\ pc = "begin" /\ program = None

IsAtom(e) == DOMAIN e = {"atom"}

\* the text of an expression
RECURSIVE Tokens(_)
Tokens(e) == IF IsAtom(e) THEN <<e.atom>>
             ELSE <<"(">> \o Tokens(e.fun) \o Tokens(e.arg) \o <<")">>

\* the text may lack its last ')'
Begin(p, collects, closed) ==
  /\ pc = "begin" /\ pc' = "parse"
  /\ S' = Start(collects)
  /\ IF closed THEN input' = Tokens(p) /\ program' = p
     ELSE /\ ~IsAtom(p) /\ program' = [unclosed |-> p]
          /\ input' = SubSeq(Tokens(p), 1, Len(Tokens(p)) - 1)
  /\ UNCHANGED <<parent, expr>>

\* parse: '(' opens a cell on top of parent, which is linked by its tail
Open == /\ pc = "parse" /\ S.status = "running"
        /\ input # <<>> /\ Head(input) = "("
        /\ S' = create(S, Cons(nil_value, parent), {parent})
        /\ parent' = S.next /\ input' = Tail(input)
        /\ UNCHANGED <<expr, pc, program>>

Symbol == /\ pc = "parse" /\ S.status = "running"
          /\ input # <<>> /\ Head(input) \notin {"(", ")"}
          /\ S' = create(S, Atom(Head(input)), {parent})
          /\ expr' = S.next /\ input' = Tail(input) /\ pc' = "close"
          /\ UNCHANGED <<parent, program>>

\* the end of the input is neither, and main ends with a syntax error
EndOfInput == /\ pc = "parse" /\ S.status = "running" /\ input = <<>>
              /\ S' = [S EXCEPT !.status = "end"]
              /\ UNCHANGED <<input, parent, expr, pc, program>>

\* the next token
Peek == IF input = <<>> THEN "end" ELSE Head(input)

\* expr becomes the head of parent, or its tail, and then parent is complete
\* and its ')' must follow
Place ==
  /\ pc = "close" /\ S.status = "running" /\ parent # nil_value
  /\ IF S.heap[parent].head = nil_value
     THEN /\ S' = [S EXCEPT !.heap[parent].head = expr]
          /\ expr' = nil_value /\ pc' = "parse"
          /\ UNCHANGED <<input, parent>>
     ELSE /\ S' = Using(S, {parent, expr},
                        [S EXCEPT !.heap[parent].tail = expr,
                                  !.status = IF Peek = ")" THEN @ ELSE "error"])
          /\ expr' = parent /\ parent' = S.heap[parent].tail
          /\ input' = IF input = <<>> THEN input ELSE Tail(input)
          /\ UNCHANGED pc
  /\ UNCHANGED program

\* parse returns, and main pushes the expression to be evaluated
Parsed == /\ pc = "close" /\ S.status = "running" /\ parent = nil_value
          /\ S' = With(create(S, Cons(S.envs, expr), {}),
                       LAMBDA T : push_cont_function(T, "eval", S.next, {}))
          /\ expr' = nil_value /\ pc' = "run"
          /\ UNCHANGED <<input, parent, program>>

\* pop_cont; after the last continuation main pops the result
PopCont ==
  /\ pc = "run" /\ S.status = "running" /\ S.apply = None
  /\ IF IsA(S, S.cont_stack, "cons")
     THEN /\ S' = [S EXCEPT !.apply = S.heap[S.cont_stack].head,
                           !.cont_stack = S.heap[S.cont_stack].tail]
          /\ UNCHANGED pc
     ELSE S' = Pop(S, LAMBDA result, T : T) /\ pc' = "parse"
  /\ UNCHANGED <<input, parent, expr, program>>

Applied(T, f) ==
  IF f \notin DOMAIN T.heap THEN Dangling(T)
  ELSE IF ~IsA(T, f, "function") THEN error(T)
  ELSE LET data == T.heap[f].data IN
       CASE T.heap[f].apply = "eval" -> eval(T, data)
         [] T.heap[f].apply = "pop_apply" -> pop_apply(T)
         [] T.heap[f].apply = "print_atom" -> print_atom(T)
         [] T.heap[f].apply = "quote_function" -> quote_function(T)
         [] T.heap[f].apply = "fun_function" -> fun_function(T)
         [] T.heap[f].apply = "fun_apply_function" -> fun_apply_function(T, data)

apply == /\ pc = "run" /\ S.status = "running" /\ S.apply # None
         /\ S' = Applied([S EXCEPT !.apply = None], S.apply)
         /\ UNCHANGED <<input, parent, expr, pc, program>>

Next == \/ \E p \in Programs, collects, closed \in BOOLEAN : Begin(p, collects, closed)
        \/ Open \/ Symbol \/ EndOfInput \/ Place \/ Parsed \/ PopCont \/ apply

----------------------------------------------------------------------------
(* What a program means, without heap, stacks or continuations.  A result is  *)
(* a value, what was printed, and whether there was no error.                 *)

Error(out) == [value |-> None, out |-> out, ok |-> FALSE]
Result(v, out) == [value |-> v, out |-> out, ok |-> TRUE]
IsForm(e, a) == IsAtom(e.fun) /\ e.fun.atom = a

Lookup(env, a) == {i \in DOMAIN env : env[i].name = a}

RECURSIVE Meaning(_, _, _)
Meaning(e, env, out) ==
  IF IsAtom(e)
  THEN IF Lookup(env, e.atom) = {} THEN Error(out)
       ELSE Result(env[CHOOSE i \in Lookup(env, e.atom) :
                         \A j \in Lookup(env, e.atom) : i <= j].value, out)
  ELSE IF IsForm(e, "quote") THEN Result([kind |-> "data", e |-> e.arg], out)
  ELSE IF IsForm(e, "fun") THEN Result([kind |-> "closure", e |-> e.arg, env |-> env], out)
  ELSE With(Meaning(e.arg, env, out), LAMBDA r : IF ~r.ok THEN r ELSE
       With(Meaning(e.fun, env, r.out), LAMBDA f :
         IF ~f.ok THEN f
         ELSE IF f.value.kind = "closure"
         THEN IF IsAtom(f.value.e) THEN Error(f.out)
              ELSE IF ~IsAtom(f.value.e.fun) THEN Error(f.out)
              ELSE Meaning(f.value.e.arg,
                           <<[name |-> f.value.e.fun.atom, value |-> r.value]>> \o f.value.env,
                           f.out)
         ELSE IF f.value.kind = "print_atom" /\ r.value.kind = "data"
         THEN IF IsAtom(r.value.e) THEN Result([kind |-> "nil"], Append(f.out, r.value.e.atom))
              ELSE Error(f.out)
         ELSE Error(f.out)))

Expected ==
  IF DOMAIN program = {"unclosed"} THEN Error(<<>>)
  ELSE Meaning(program, <<[name |-> "print_atom", value |-> [kind |-> "print_atom"]]>>, <<>>)

\* the program printed what it is to print, and failed only if it is to
Right == S.status \in {"end", "error"} =>
           S.output = Expected.out /\ (S.status = "end" <=> Expected.ok)
=============================================================================
