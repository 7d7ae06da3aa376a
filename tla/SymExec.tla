------------------------------- MODULE SymExec -------------------------------
(***************************************************************************)
(* The symbolic executor of VeriFast for C functions: verify_func and      *)
(* verify_stmt (verifast.ml), verify_call and verify_expr (verify_expr.ml) *)
(* and the production and consumption of assertions (assertions.ml).       *)
(*                                                                         *)
(* The code is in continuation-passing style and explores the branches of  *)
(* a function depth first.  Here a branch is a record with its             *)
(* continuation k, a sequence of items, and todo is the stack of branches: *)
(* a step executes the first item of the first branch and puts what the    *)
(* branch becomes (nothing, one branch or two) in its place.  A branch     *)
(* with an inconsistent path condition is dropped, as assume does.         *)
(*                                                                         *)
(* A branch has a symbolic heap (assertions.ml): how a chunk is added to   *)
(* it, matched against an assertion and taken from it, under the path      *)
(* condition of the branch, comes first, as operators on the branch.       *)
(*                                                                         *)
(* The programs verified have one struct with one pointer field, so a term *)
(* is a pointer: 0 is the null pointer and every other number a symbol.  A *)
(* pointer is its address.  The field has two predicates: "f", an          *)
(* initialised field, and "f_", a field that may hold no value.  User      *)
(* predicates are declared without a semicolon: they have no input         *)
(* parameter count, are not merged and have no auto-open and auto-close    *)
(* rules.                                                                  *)
(***************************************************************************)
EXTENDS Integers, Sequences, SequencesExt

CONSTANT Programs   \* the programs: a set of [funs, order, preds]

VARIABLES
    prog,       \* the program being verified
    funcs,      \* the functions not verified yet, in the order of the file
    todo,       \* the branches not explored yet, the current one first
    verdict     \* "verifying", "failed" or "verified"

svars == <<prog, funcs, todo, verdict>>

----------------------------------------------------------------------------
(* The symbolic heap.                                                      *)

Null == 0

\* F(e), with e evaluated once.
With(e, F(_)) == CHOOSE y \in {F(x) : x \in {e}} : TRUE

Eq(s, t) == [eq |-> TRUE, l |-> s, r |-> t]

Neq(s, t) == [eq |-> FALSE, l |-> s, r |-> t]

Not(c) == [c EXCEPT !.eq = ~@]

----------------------------------------------------------------------------
(* The prover, as the executor uses it: a set of assumed (dis)equalities,  *)
(* whether it is consistent, and whether it implies another one.           *)

RECURSIVE EqualTo(_, _)
EqualTo(path, S) ==
    LET T == S \cup {c.l : c \in {d \in path : d.eq /\ d.r \in S}}
               \cup {c.r : c \in {d \in path : d.eq /\ d.l \in S}}
    IN  IF T = S THEN S ELSE EqualTo(path, T)

Unsat(path) == \E c \in path : ~c.eq /\ c.r \in EqualTo(path, {c.l})

Query(path, c) == Unsat(path \cup {Not(c)})

Contradiction == Neq(Null, Null)

definitely_equal(path, s, t) == s = t \/ Query(path, Eq(s, t))

----------------------------------------------------------------------------
(* Coefficients.  The code compares some of them by physical equality, so  *)
(* the kind is part of the value: "unit" is the term real_unit itself,     *)
(* "term" another term with a known value (in 1/Whole), "dummy" a          *)
(* registered dummy fraction, "blur" an unregistered sum of a known value  *)
(* and a dummy fraction.  A source literal other than 1 is a "term":       *)
(* mk_reallit_of_num makes a new one, never real_half.                    *)

Whole == 64

real_unit == [q |-> Whole, k |-> "unit"]

Term(q) == [q |-> q, k |-> "term"]

Dummy == [q |-> 0, k |-> "dummy"]

Known(c) == c.k \in {"unit", "term"}

real_mul(c, d) ==
    IF c = real_unit THEN d
    ELSE IF d = real_unit THEN c
    ELSE IF Dummy \in {c, d} THEN Dummy
    ELSE Term((c.q * d.q) \div Whole)

\* The sum of two coefficients in produce_chunk.
MergedCoef(c, d) ==
    IF c = Dummy /\ d = Dummy THEN d
    ELSE [q |-> c.q + d.q, k |-> IF Known(c) /\ Known(d) THEN "term" ELSE "blur"]

----------------------------------------------------------------------------
(* Producing.  A branch b has at least a heap h (a sequence, its head      *)
(* first), a path condition and the next symbol, fresh.                    *)

FieldPreds == {"f", "f_"}

IsUserPred(g) == g \notin FieldPreds \cup {"malloc_block"}

NoValue == -1

Assuming(b, c) == [b EXCEPT !.path = @ \cup {c}]

Push(b, ch) == [b EXCEPT !.h = <<ch>> \o @]

\* The field chunk at position i absorbs the new one.
MergeField(b, i, p, v, coef) ==
    LET old == b.h[i]
        got == IF coef = Dummy THEN old.coef
               ELSE IF old.coef = Dummy THEN coef
               ELSE Term(coef.q + old.coef.q)
        ch  == IF v # NoValue /\ old.g = "f_" THEN [g |-> "f", coef |-> got, ts |-> <<p, v>>]
               ELSE [old EXCEPT !.coef = got]
        b1  == IF v = NoValue THEN b ELSE Assuming(b, Eq(v, old.ts[2]))
        b2  == IF got.q > Whole THEN Assuming(b1, Contradiction) ELSE b1
    IN  Push([b2 EXCEPT !.h = RemoveAt(@, i)], ch)

\* assume_field from position i of the heap on: a chunk of the field that is,
\* or meets, a full one has another address; one with an equal address merges.
RECURSIVE AssumeFieldFrom(_, _, _, _, _)
AssumeFieldFrom(b, p, v, coef, i) ==
    IF i > Len(b.h)
    THEN IF v = NoValue
         THEN Push([b EXCEPT !.fresh = @ + 1], [g |-> "f_", coef |-> coef, ts |-> <<p, b.fresh>>])
         ELSE Push(b, [g |-> "f", coef |-> coef, ts |-> <<p, v>>])
    ELSE LET old == b.h[i] IN
         IF old.g \notin FieldPreds THEN AssumeFieldFrom(b, p, v, coef, i + 1)
         ELSE IF real_unit \in {coef, old.coef}
         THEN AssumeFieldFrom(Assuming(b, Neq(p, old.ts[1])), p, v, coef, i + 1)
         ELSE IF definitely_equal(b.path, p, old.ts[1]) THEN MergeField(b, i, p, v, coef)
         ELSE AssumeFieldFrom(b, p, v, coef, i + 1)

\* Mutant: addresses of full chunks are not assumed to differ.
assume_field_blind(b, p, v, coef) == AssumeFieldFrom(b, p, v, coef, Len(b.h) + 1)

assume_field(b, p, v, coef) == AssumeFieldFrom(b, p, v, coef, 1)

\* Only malloc_block chunks merge: they have one parameter, an input.
produce_chunk(b, g, ts, coef) ==
    LET i     == SelectInSeq(b.h, LAMBDA ch : ch.g = g /\ definitely_equal(b.path, ts[1], ch.ts[1]))
        hdone == Reverse(SubSeq(b.h, 1, i - 1))
        htodo == SubSeq(b.h, i + 1, Len(b.h))
    IN  IF IsUserPred(g) \/ coef = real_unit \/ i = 0
        THEN Push(b, [g |-> g, coef |-> coef, ts |-> ts])
        ELSE [b EXCEPT !.h =
                    <<[g |-> g, coef |-> MergedCoef(coef, b.h[i].coef), ts |-> ts]>>
                    \o (IF Len(hdone) < Len(htodo) THEN hdone \o htodo ELSE htodo \o hdone)]

----------------------------------------------------------------------------
(* Consuming.  A pattern is [k |-> "lit" | "var" | "any", x |-> name]; a   *)
(* coefficient pattern is a coefficient or AnyCoef, the pattern [_].       *)

AnyCoef == [q |-> 0, k |-> "any"]

\* The heap without position i: the code reverses the part before it.
Without(h, i) == Reverse(SubSeq(h, 1, i - 1)) \o SubSeq(h, i + 1, Len(h))

InputCount(g, n) == IF IsUserPred(g) THEN n ELSE 1

Agrees(b, env, pat, t) == pat.k = "lit" => definitely_equal(b.path, env[pat.x], t)

Bound(pats, ts) ==
    LET vars == {j \in DOMAIN pats : pats[j].k = "var"}
    IN  [x \in {pats[j].x : j \in vars} |-> ts[CHOOSE j \in vars : pats[j].x = x]]

\* What matching coefficient coef0 of a chunk gives: the coefficient taken
\* and the coefficients of the chunks left in its place, or no match.
match_coef(coef, coefpat, coef0) ==
    LET t    == real_mul(coef, coefpat)
        half == Term(coef0.q \div 2)
        took(c, rest) == [ok |-> TRUE, coef |-> c, rest |-> rest]
    IN  IF coefpat = AnyCoef
        THEN IF coef0 = Dummy THEN took(Dummy, <<Dummy>>) ELSE took(coef0, <<>>)
        ELSE IF Known(coef0) /\ t.q = coef0.q THEN took(coef0, <<>>)
        ELSE IF Known(coef0) /\ 2 * t.q = coef0.q THEN took(half, <<half>>)
        ELSE IF Known(coef0) /\ t.q < coef0.q THEN took(t, <<Term(coef0.q - t.q)>>)
        ELSE IF coef0.k = "blur" /\ t.q <= coef0.q
        THEN took(t, <<[coef0 EXCEPT !.q = @ - t.q]>>)
        ELSE [ok |-> FALSE]

match_chunk(b, env, g, coef, coefpat, pats, ch) ==
    LET n    == InputCount(g, Len(pats))
        ins  == {j \in DOMAIN pats : j <= n}
        outs == DOMAIN pats \ ins
        mc   == match_coef(coef, coefpat, ch.coef)
    IN  IF ch.g # g \/ \E j \in ins : ~Agrees(b, env, pats[j], ch.ts[j]) THEN "no"
        ELSE IF \E j \in outs : ~Agrees(b, env, pats[j], ch.ts[j]) THEN "error"
        ELSE IF mc.ok THEN "yes" ELSE "no"

\* What is left when position i of the heap was matched, with result mc.
Taken(b, env, pats, i, mc) ==
    LET ch == b.h[i]
    IN  [ok    |-> TRUE,
         chunk |-> [ch EXCEPT !.coef = mc.coef],
         env   |-> Bound(pats, ch.ts) @@ env,
         h     |-> [k \in DOMAIN mc.rest |-> [ch EXCEPT !.coef = mc.rest[k]]] \o Without(b.h, i)]

\* Takes the first chunk that matches.  When there is none and f_ is wanted,
\* field_chunk_to_field_chunk__rule turns the first initialised field chunk at
\* the address into an f_ chunk and the search starts again.  The result has
\* ok = FALSE when the code reports an error.
RECURSIVE consume_chunk(_, _, _, _, _, _)
consume_chunk(b, env, g, coef, coefpat, pats) ==
    LET i == SelectInSeq(b.h, LAMBDA ch : match_chunk(b, env, g, coef, coefpat, pats, ch) # "no")
        j == SelectInSeq(b.h, LAMBDA ch : ch.g = "f" /\ definitely_equal(b.path, env[pats[1].x], ch.ts[1]))
    IN  IF i # 0
        THEN IF match_chunk(b, env, g, coef, coefpat, pats, b.h[i]) = "error" THEN [ok |-> FALSE]
             ELSE Taken(b, env, pats, i, match_coef(coef, coefpat, b.h[i].coef))
        ELSE IF g = "f_" /\ pats[1].k = "lit" /\ j # 0
        THEN With(Push([b EXCEPT !.h = Without(@, j)],
                       [g |-> "f_", coef |-> b.h[j].coef, ts |-> <<env[pats[1].x], b.h[j].ts[2]>>]),
                  LAMBDA b1 : consume_chunk(b1, env, g, coef, coefpat, pats))
        ELSE [ok |-> FALSE]

\* lookup_points_to_chunk_core: the values of the field at p, in heap order.
lookup_points_to_chunk(b, p) ==
    SelectSeq(b.h, LAMBDA ch : ch.g = "f" /\ definitely_equal(b.path, ch.ts[1], p))

----------------------------------------------------------------------------
(* Items.  Statements come from the program; the others are the pieces of  *)
(* the code that run after a continuation.                                 *)

produce_asn(a, coef) == [op |-> "produce", a |-> a, coef |-> coef]

consume_asn(a, coef, check) == [op |-> "consume", a |-> a, coef |-> coef, check |-> check]

PopEnv == [op |-> "popenv"]

check_leaks == [op |-> "check_leaks"]

Env(b) == Head(b.envs)

SetEnv(b, env) == [b EXCEPT !.envs[1] = env]

PushEnv(b, env) == [b EXCEPT !.envs = <<env>> \o @]

Values(env, xs) == [i \in DOMAIN xs |-> env[xs[i]]]

Cond(env, c) == [eq |-> c.eq, l |-> env[c.l], r |-> env[c.r]]

\* The environment of a contract or a predicate body: its parameters.
Params(xs, ts) == [x \in {"null"} \cup Range(xs) |->
                     IF x = "null" THEN Null ELSE ts[CHOOSE i \in DOMAIN xs : xs[i] = x]]

\* The branch with its first item replaced by items.
Then(b, items) == [b EXCEPT !.k = items \o Tail(@)]

Become(bs) == /\ \E cs \in {bs} : todo' = SelectSeq(cs, LAMBDA b : ~Unsat(b.path)) \o Tail(todo)
              /\ UNCHANGED <<prog, funcs, verdict>>

assert_false == /\ verdict' = "failed"
                /\ todo' = <<>>
                /\ funcs' = <<>>
                /\ UNCHANGED prog

\* branch: the first continuation assumes c and the second its negation.
Branch(b, c, yes, no) == Become(<<Then(Assuming(b, c), yes), Then(Assuming(b, Not(c)), no)>>)

----------------------------------------------------------------------------
(* Assertions.  An assertion is a sequence of atoms: [a |-> "chunk", coef, *)
(* g, pats], [a |-> "pure", c] and [a |-> "if", c, yes, no].               *)

\* The patterns of a produced chunk: a variable that is not bound, and _,
\* are new symbols.
IsNew(env, pat) == pat.k = "any" \/ (pat.k = "var" /\ pat.x \notin DOMAIN env)

evalpats(b, pats) ==
    LET env == Env(b)
        ts  == [i \in DOMAIN pats |-> IF IsNew(env, pats[i]) THEN b.fresh + i ELSE env[pats[i].x]]
    IN  [ts |-> ts, b |-> SetEnv([b EXCEPT !.fresh = @ + Len(pats) + 1], env @@ Bound(pats, ts))]

ProduceAtom(b, at, coef) ==
    LET c == IF at.coef = AnyCoef THEN Dummy ELSE real_mul(coef, at.coef)
        p == evalpats(b, at.pats)
    IN  IF at.g # "f" THEN produce_chunk(p.b, at.g, p.ts, c)
        ELSE IF at.pats[2].k = "any" THEN assume_field(b, Env(b)[at.pats[1].x], NoValue, c)
        ELSE assume_field(p.b, p.ts[1], p.ts[2], c)

Produce(b) ==
    LET it == Head(b.k)
        at == Head(it.a)
        rest == <<produce_asn(Tail(it.a), it.coef)>>
    IN  /\ it.op = "produce"
        /\ \/ /\ it.a = <<>>
              /\ Become(<<Then(b, <<>>)>>)
           \/ /\ it.a # <<>> /\ at.a = "chunk"
              /\ Become(<<Then(ProduceAtom(b, at, it.coef), rest)>>)
           \/ /\ it.a # <<>> /\ at.a = "pure"
              /\ Become(<<Then(Assuming(b, Cond(Env(b), at.c)), rest)>>)
           \/ /\ it.a # <<>> /\ at.a = "if"
              /\ Branch(PushEnv(b, Env(b)), Cond(Env(b), at.c),
                        <<produce_asn(at.yes, it.coef), PopEnv>> \o rest,
                        <<produce_asn(at.no, it.coef), PopEnv>> \o rest)

\* p->next |-> _ is consumed with the predicate f_.
ConsumeAtom(b, at, coef) ==
    LET g == IF at.g = "f" /\ at.pats[2].k = "any" THEN "f_" ELSE at.g
    IN  consume_chunk(b, Env(b), g, coef, at.coef, at.pats)

\* check_dummy_coefpat: [_] does not match a fraction that was not leaked.
DummyMismatch(it, at, r) == it.check /\ at.coef = AnyCoef /\ r.chunk.coef # Dummy

Consume(b) ==
    LET it == Head(b.k)
        at == Head(it.a)
        rest == <<consume_asn(Tail(it.a), it.coef, it.check)>>
    IN  /\ it.op = "consume"
        /\ \/ /\ it.a = <<>>
              /\ Become(<<Then(b, <<>>)>>)
           \/ /\ it.a # <<>> /\ at.a = "chunk"
              /\ \E r \in {ConsumeAtom(b, at, it.coef)} :
                 IF ~r.ok THEN assert_false
                 ELSE IF DummyMismatch(it, at, r) THEN assert_false
                 ELSE Become(<<Then([SetEnv(b, r.env) EXCEPT !.h = r.h, !.taken = Append(@, r.chunk)],
                                    rest)>>)
           \/ /\ it.a # <<>> /\ at.a = "pure"
              /\ IF Query(b.path, Cond(Env(b), at.c)) THEN Become(<<Then(b, rest)>>) ELSE assert_false
           \/ /\ it.a # <<>> /\ at.a = "if"
              /\ Branch(PushEnv(b, Env(b)), Cond(Env(b), at.c),
                        <<consume_asn(at.yes, it.coef, it.check), PopEnv>> \o rest,
                        <<consume_asn(at.no, it.coef, it.check), PopEnv>> \o rest)

RestoreEnv(b) ==
    /\ Head(b.k).op = "popenv"
    /\ Become(<<Then([b EXCEPT !.envs = Tail(@)], <<>>)>>)

\* Variables declared in a block do not outlive it.
Scope(b) ==
    /\ Head(b.k).op = "scope"
    /\ Become(<<Then(SetEnv(b, Restrict(Env(b), Head(b.k).xs)), <<>>)>>)

\* Mutant: no check.
CheckLeaksNot(b) ==
    /\ Head(b.k).op = "check_leaks"
    /\ Become(<<>>)

\* Chunks with a dummy fraction may be leaked; any other one may not.
CheckLeaks(b) ==
    /\ Head(b.k).op = "check_leaks"
    /\ IF \A i \in DOMAIN b.h : b.h[i].coef = Dummy THEN Become(<<>>) ELSE assert_false

----------------------------------------------------------------------------
(* Statements.                                                             *)

Assigning(b, x, t) == SetEnv(b, (x :> t) @@ Env(b))

Fresh(b) == [b EXCEPT !.fresh = @ + 1]

Assign(b) ==
    LET s == Head(b.k)
    IN  /\ s.op = "assign"
        /\ Become(<<Then(Assigning(b, s.x, Env(b)[s.e]), <<>>)>>)

\* x = malloc(sizeof(struct s)): null, or a new object.
Malloc(b) ==
    LET s  == Head(b.k)
        t  == b.fresh
        b1 == Assigning(Fresh(b), s.x, t)
        b2 == assume_field(Assuming(b1, Neq(t, Null)), t, NoValue, real_unit)
    IN  /\ s.op = "malloc"
        /\ Become(<<Then(Assuming(b1, Eq(t, Null)), <<>>),
                    Then(Push(b2, [g |-> "malloc_block", coef |-> real_unit, ts |-> <<t>>]), <<>>)>>)

LitPat(x) == [k |-> "lit", x |-> x]

DummyPat == [k |-> "any", x |-> "_"]

\* free(e): takes the field, then the malloc_block chunk.
Free(b) ==
    LET s == Head(b.k)
    IN  /\ s.op = "free"
        /\ \E r \in {consume_chunk(b, Env(b), "f_", real_unit, real_unit, <<LitPat(s.e), DummyPat>>)} :
           IF ~r.ok THEN assert_false
           ELSE \E b1 \in {[b EXCEPT !.h = r.h]} :
                \E r1 \in {consume_chunk(b1, Env(b), "malloc_block", real_unit, real_unit, <<LitPat(s.e)>>)} :
                IF r1.ok THEN Become(<<Then([b EXCEPT !.h = r1.h], <<>>)>>) ELSE assert_false

\* x = e->next.  When no chunk is found, get_points_to fails: f has no rules here.
Read(b) ==
    LET s  == Head(b.k)
        cs == lookup_points_to_chunk(b, Env(b)[s.e])
    IN  /\ s.op = "read"
        /\ IF cs = <<>> THEN assert_false
           ELSE Become(<<Then(Assigning(b, s.x, cs[1].ts[2]), <<>>)>>)

\* e->next = v
Write(b) ==
    LET s == Head(b.k)
    IN  /\ s.op = "write"
        /\ \E r \in {consume_chunk(b, Env(b), "f_", real_unit, real_unit, <<LitPat(s.e), DummyPat>>)} :
           IF ~r.ok THEN assert_false
           ELSE Become(<<Then([b EXCEPT !.h = <<[g |-> "f", coef |-> real_unit,
                                               ts |-> Values(Env(b), <<s.e, s.v>>)]>> \o r.h], <<>>)>>)

If(b) ==
    LET s == Head(b.k)
        scope == <<[op |-> "scope", xs |-> DOMAIN Env(b)]>>
    IN  /\ s.op = "if"
        /\ Branch(b, Cond(Env(b), s.c), s.yes \o scope, s.no \o scope)

AssertStmt(b) ==
    LET s == Head(b.k)
    IN  /\ s.op = "assert"
        /\ IF Query(b.path, Cond(Env(b), s.c)) THEN Become(<<Then(b, <<>>)>>) ELSE assert_false

\* leak a: the chunks of a come back with a dummy fraction.
Leak(b) ==
    LET s == Head(b.k)
    IN  /\ s.op = "leak"
        /\ Become(<<Then([b EXCEPT !.taken = <<>>],
                         <<consume_asn(s.a, real_unit, FALSE), [op |-> "leaked"]>>)>>)

Leaked(b) ==
    /\ Head(b.k).op = "leaked"
    /\ Become(<<Then([b EXCEPT !.h = [i \in DOMAIN b.taken |-> [b.taken[i] EXCEPT !.coef = Dummy]] \o @],
                     <<>>)>>)

\* open g(pats): the chunk is replaced by the body, with the coefficient taken.
Open(b) ==
    LET s  == Head(b.k)
        pd == prog.preds[s.g]
    IN  /\ s.op = "open"
        /\ \E r \in {consume_chunk(b, Env(b), s.g, real_unit, s.coef, s.pats)} :
           IF ~r.ok THEN assert_false
           ELSE Become(<<Then(PushEnv(SetEnv([b EXCEPT !.h = r.h], r.env), Params(pd.params, r.chunk.ts)),
                             <<produce_asn(pd.body, r.chunk.coef), PopEnv>>)>>)

Close(b) ==
    LET s  == Head(b.k)
        pd == prog.preds[s.g]
        ts == Values(Env(b), s.args)
    IN  /\ s.op = "close"
        /\ Become(<<Then(PushEnv(b, Params(pd.params, ts)),
                         <<consume_asn(pd.body, s.coef, TRUE), PopEnv,
                           [op |-> "closed", g |-> s.g, ts |-> ts, coef |-> s.coef]>>)>>)

Closed(b) ==
    LET it == Head(b.k)
    IN  /\ it.op = "closed"
        /\ Become(<<Then(produce_chunk(b, it.g, it.ts, it.coef), <<>>)>>)

----------------------------------------------------------------------------
(* Calls: the callee's precondition is consumed and its postcondition      *)
(* produced, both in the callee's environment.                             *)

verify_call(b) ==
    LET s == Head(b.k)
        f == prog.funs[s.f]
    IN  /\ s.op = "call"
        /\ Become(<<Then(PushEnv(b, Params(f.params, Values(Env(b), s.args))),
                         <<consume_asn(f.pre, real_unit, TRUE), [op |-> "result"],
                           produce_asn(f.post, real_unit), [op |-> "returned", x |-> s.x]>>)>>)

CallResult(b) ==
    /\ Head(b.k).op = "result"
    /\ Become(<<Then(Assigning(Fresh(b), "result", b.fresh), <<>>)>>)

CallReturned(b) ==
    /\ Head(b.k).op = "returned"
    /\ Become(<<Then(Assigning([b EXCEPT !.envs = Tail(@)], Head(b.k).x, Env(b)["result"]), <<>>)>>)

----------------------------------------------------------------------------
(* Loops: the invariant is taken from the heap and the rest is framed; an  *)
(* arbitrary iteration starts from the invariant alone, with new values    *)
(* for the variables the loop assigns.                                     *)

RECURSIVE block_assigned_variables(_)
block_assigned_variables(ss) ==
    UNION {IF ss[i].op \in {"assign", "malloc", "read", "call"} THEN {ss[i].x}
           ELSE IF ss[i].op = "if"
           THEN block_assigned_variables(ss[i].yes) \cup block_assigned_variables(ss[i].no)
           ELSE IF ss[i].op = "while" THEN block_assigned_variables(ss[i].body)
           ELSE {} : i \in DOMAIN ss}

While(b) ==
    LET s == Head(b.k)
    IN  /\ s.op = "while"
        /\ Become(<<Then(PushEnv(b, Env(b)),
                         <<consume_asn(s.inv, real_unit, TRUE), PopEnv, [s EXCEPT !.op = "iteration"]>>)>>)

\* Mutant: the variables keep the values they have before the loop.
HavocNone(b, xs) == b

Havoc(b, xs) ==
    LET env == Env(b)
        ys  == SetToSeq(xs \cap DOMAIN env)
        new == [y \in Range(ys) |-> b.fresh + CHOOSE i \in DOMAIN ys : ys[i] = y]
    IN  SetEnv([b EXCEPT !.fresh = @ + Len(ys) + 1], new @@ env)

Iteration(b) ==
    LET s  == Head(b.k)
        b1 == [b EXCEPT !.framed = <<b.h>> \o @, !.h = <<>>]
    IN  /\ s.op = "iteration"
        /\ Become(<<Then(Havoc(b1, block_assigned_variables(s.body)),
                         <<produce_asn(s.inv, real_unit),
                           [op |-> "test", c |-> s.c, inv |-> s.inv, body |-> s.body,
                            xs |-> DOMAIN Env(b)]>>)>>)

\* The body's continuation is the end of the iteration, not the rest of the block.
LoopTest(b) ==
    LET it == Head(b.k)
        c  == Cond(Env(b), it.c)
        round == it.body \o <<[op |-> "scope", xs |-> it.xs],
                              consume_asn(it.inv, real_unit, TRUE), check_leaks>>
        exit == [b EXCEPT !.h = @ \o Head(b.framed), !.framed = Tail(@)]
    IN  /\ it.op = "test"
        /\ Become(<<[Assuming(b, c) EXCEPT !.k = round], Then(Assuming(exit, Not(c)), <<>>)>>)

----------------------------------------------------------------------------
(* Functions.                                                              *)

\* The environment after the precondition is kept for the postcondition.
Body(b) ==
    /\ Head(b.k).op = "body"
    /\ Become(<<Then(PushEnv(b, Env(b)), <<>>)>>)

\* Mutant: the environment at the return statement.
LastEnv(b) == Env(b)

\* The environment in which the postcondition is consumed.
EntryEnv(b) == b.envs[Len(b.envs)]

\* return e; the framed heaps of the loops around it come back.
Return(b) ==
    LET s   == Head(b.k)
        f   == prog.funs[b.f]
        env == IF f.void THEN EntryEnv(b) ELSE ("result" :> Env(b)[s.e]) @@ EntryEnv(b)
    IN  /\ s.op = "return"
        /\ IF f.void # (s.e = "void") THEN assert_false
           ELSE Become(<<[b EXCEPT !.h = @ \o FlattenSeq(b.framed), !.framed = <<>>, !.envs = <<env>>,
                                   !.k = <<consume_asn(f.post, real_unit, TRUE), check_leaks>>]>>)

\* The branch that verifies a function, from an empty heap and new symbols
\* for the parameters.
FirstBranch(name) ==
    LET f == prog.funs[name]
        n == Len(f.params)
    IN  [f |-> name, h |-> <<>>, framed |-> <<>>, path |-> {}, fresh |-> n + 1, taken |-> <<>>,
         envs |-> <<Params(f.params, [i \in 1..n |-> i])>>,
         k |-> <<produce_asn(f.pre, real_unit), [op |-> "body"]>> \o f.body
               \o <<[op |-> "return", e |-> "void"]>>]

\* Mutant: the function stays on the list.
verify_func_again ==
    /\ todo = <<>> /\ funcs # <<>> /\ verdict = "verifying"
    /\ todo' = <<FirstBranch(Head(funcs))>>
    /\ UNCHANGED <<prog, funcs, verdict>>

verify_func ==
    /\ todo = <<>> /\ funcs # <<>> /\ verdict = "verifying"
    /\ funcs' = Tail(funcs)
    /\ todo' = <<FirstBranch(Head(funcs))>>
    /\ UNCHANGED <<prog, verdict>>

Verified == /\ todo = <<>> /\ funcs = <<>> /\ verdict = "verifying"
            /\ verdict' = "verified"
            /\ UNCHANGED <<prog, funcs, todo>>

Init == /\ prog \in Programs
        /\ funcs = prog.order
        /\ todo = <<>>
        /\ verdict = "verifying"

verify_stmt(b) ==
    \/ Assign(b) \/ Malloc(b) \/ Free(b) \/ Read(b) \/ Write(b)
    \/ If(b) \/ AssertStmt(b) \/ Leak(b) \/ Open(b) \/ Close(b)
    \/ verify_call(b) \/ While(b) \/ Return(b)

Continue(b) ==
    \/ Produce(b) \/ Consume(b) \/ RestoreEnv(b) \/ Scope(b) \/ CheckLeaks(b)
    \/ Leaked(b) \/ Closed(b) \/ CallResult(b) \/ CallReturned(b)
    \/ Iteration(b) \/ LoopTest(b) \/ Body(b)

Verify == \/ verify_func \/ Verified
          \/ todo # <<>> /\ \E b \in {Head(todo)} : verify_stmt(b) \/ Continue(b)
=============================================================================
