----------------------------- MODULE MCSymSound -----------------------------
(***************************************************************************)
(* Small annotated C programs for SymSound: programs that are meant to     *)
(* verify, programs that must not, and every program obtained from one of  *)
(* the first by two edits of its statements and annotations.               *)
(***************************************************************************)
EXTENDS SymSound

Is(x, y) == [eq |-> TRUE, l |-> x, r |-> y]
IsNot(x, y) == [eq |-> FALSE, l |-> x, r |-> y]

Asg(x, e) == [op |-> "assign", x |-> x, e |-> e]
Mal(x) == [op |-> "malloc", x |-> x]
Fre(e) == [op |-> "free", e |-> e]
Rd(x, e) == [op |-> "read", x |-> x, e |-> e]
Wr(e, v) == [op |-> "write", e |-> e, v |-> v]
IfS(c, yes, no) == [op |-> "if", c |-> c, yes |-> yes, no |-> no]
Whl(c, inv, body) == [op |-> "while", c |-> c, inv |-> inv, body |-> body]
Call(x, f, args) == [op |-> "call", x |-> x, f |-> f, args |-> args]
Ast(c) == [op |-> "assert", c |-> c]
Lk(a) == [op |-> "leak", a |-> a]
Opn(coef, g, xs) == [op |-> "open", g |-> g, coef |-> coef, pats |-> [i \in DOMAIN xs |-> LitPat(xs[i])]]
Cls(coef, g, xs) == [op |-> "close", g |-> g, coef |-> coef, args |-> xs]
Ret(e) == [op |-> "return", e |-> e]

VarPat(x) == [k |-> "var", x |-> x]
Half == Term(Whole \div 2)
Pt(coef, x, pat) == [a |-> "chunk", coef |-> coef, g |-> "f", pats |-> <<LitPat(x), pat>>]
Blk(x) == [a |-> "chunk", coef |-> real_unit, g |-> "malloc_block", pats |-> <<LitPat(x)>>]
Prd(coef, g, x) == [a |-> "chunk", coef |-> coef, g |-> g, pats |-> <<LitPat(x)>>]
Pure(c) == [a |-> "pure", c |-> c]
IfA(c, yes, no) == [a |-> "if", c |-> c, yes |-> yes, no |-> no]

Fun(params, pre, post, body) ==
    [params |-> params, pre |-> pre, post |-> post, body |-> body, void |-> TRUE]
NonVoid(f) == [f EXCEPT !.void = FALSE]
Main(body) == Fun(<<>>, <<>>, <<>>, body)
Program(preds, funs, order) == [preds |-> preds, funs |-> funs, order |-> order]
NoPreds == <<>>

GiveUp(x) == IfS(Is(x, "null"), <<Ret("void")>>, <<>>)
Field(x) == Pt(real_unit, x, DummyPat)

----------------------------------------------------------------------------
\* Two objects at different addresses.
Cells == Program(NoPreds, [main |-> Main(<<
    Mal("p"), GiveUp("p"), Wr("p", "p"),
    Mal("q"), IfS(Is("q", "null"), <<Fre("p"), Ret("void")>>, <<>>),
    IfS(Is("p", "q"), <<Rd("x", "null")>>, <<>>),
    Wr("q", "null"), Rd("x", "p"), Ast(Is("x", "p")), Fre("p"),
    Rd("x", "q"), Ast(Is("x", "null")), Fre("q")>>)], <<"main">>)

\* A linked list, disposed of recursively and in a loop.
ListPred == [list |-> [params |-> <<"l">>, body |-> <<
    IfA(Is("l", "null"), <<>>,
        <<Pt(real_unit, "l", VarPat("n")), Blk("l"), Prd(real_unit, "list", "n")>>)>>]]
AList(x) == Prd(real_unit, "list", x)

cons == Fun(<<"t">>, <<AList("t")>>, <<AList("result")>>, <<
    Mal("n"), IfS(Is("n", "null"), <<Ret("t")>>, <<>>),
    Wr("n", "t"), Cls(real_unit, "list", <<"n">>), Ret("n")>>)

disposeRec == Fun(<<"l">>, <<AList("l")>>, <<>>, <<
    Opn(AnyCoef, "list", <<"l">>),
    IfS(IsNot("l", "null"), <<Rd("n", "l"), Call("_", "dispose", <<"n">>), Fre("l")>>, <<>>)>>)

disposeLoop == Fun(<<"l">>, <<AList("l")>>, <<>>, <<
    Whl(IsNot("l", "null"), <<AList("l")>>,
        <<Opn(AnyCoef, "list", <<"l">>), Rd("n", "l"), Fre("l"), Asg("l", "n")>>),
    Opn(AnyCoef, "list", <<"l">>)>>)

ListMain == Main(<<Asg("l", "null"), Cls(real_unit, "list", <<"l">>),
    Call("l", "cons", <<"l">>), Call("l", "cons", <<"l">>), Call("_", "dispose", <<"l">>)>>)

Lists == {Program(ListPred, [cons |-> NonVoid(cons), dispose |-> d, main |-> ListMain],
                  <<"cons", "dispose", "main">>) : d \in {disposeRec, disposeLoop}}

\* A function that only reads, with half of the permission.
reader == Fun(<<"p">>, <<Pt(Half, "p", VarPat("v"))>>,
              <<Pt(Half, "p", LitPat("v")), Pure(Is("result", "v"))>>,
              <<Rd("x", "p"), Ret("x")>>)
\* It writes, which needs the whole permission.
writer == [reader EXCEPT !.body = <<Rd("x", "p"), Wr("p", "p"), Ret("x")>>]
ReadMain == Main(<<Mal("p"), GiveUp("p"), Wr("p", "null"), Call("y", "get", <<"p">>),
                   Rd("x", "p"), Ast(Is("x", "y")), Ast(Is("x", "null")), Fre("p")>>)
Reads(f) == Program(NoPreds, [get |-> NonVoid(f), main |-> ReadMain], <<"get", "main">>)

\* Half predicates that are closed and opened again.
CellPred == [cell |-> [params |-> <<"p">>, body |-> <<Pt(real_unit, "p", LitPat("null"))>>]]
Halves == Program(CellPred, [main |-> Main(<<
    Mal("p"), GiveUp("p"), Wr("p", "null"), Cls(Half, "cell", <<"p">>), Cls(Half, "cell", <<"p">>),
    Opn(Half, "cell", <<"p">>), Rd("x", "p"), Ast(Is("x", "null")),
    Opn(AnyCoef, "cell", <<"p">>), Fre("p")>>)], <<"main">>)

\* A leaked object stays readable and is not given back.
leakReader == Fun(<<"p">>, <<Pt(AnyCoef, "p", VarPat("v"))>>, <<Pure(Is("result", "v"))>>,
                  <<Rd("x", "p"), Ret("x")>>)
Leaks == Program(CellPred, [get |-> NonVoid(leakReader), main |-> Main(<<
    Mal("p"), GiveUp("p"), Wr("p", "null"), Cls(real_unit, "cell", <<"p">>),
    Lk(<<Prd(real_unit, "cell", "p"), Blk("p")>>), Opn(AnyCoef, "cell", <<"p">>),
    Call("y", "get", <<"p">>), Rd("x", "p"), Ast(Is("x", "y")), Opn(AnyCoef, "cell", <<"p">>)>>)],
    <<"get", "main">>)

\* Part of a block is leaked: the half that a call gives back merges with it.
BlkOf(coef, x) == [Blk(x) EXCEPT !.coef = coef]
PartLeak == Program(NoPreds, [
    keep |-> Fun(<<"p">>, <<BlkOf(Half, "p")>>, <<BlkOf(Half, "p")>>, <<>>),
    main |-> Main(<<Mal("p"), GiveUp("p"), Lk(<<BlkOf(Half, "p"), Field("p")>>),
        Call("_", "keep", <<"p">>), Lk(<<BlkOf(AnyCoef, "p")>>)>>)], <<"keep", "main">>)

\* A contract with a conditional.
alloc == Fun(<<>>, <<>>, <<IfA(Is("result", "null"), <<>>, <<Field("result"), Blk("result")>>)>>,
             <<Mal("r"), Ret("r")>>)
Maybe == Program(NoPreds, [alloc |-> NonVoid(alloc), main |-> Main(<<
    Call("p", "alloc", <<>>),
    IfS(IsNot("p", "null"), <<Wr("p", "null"), Fre("p")>>, <<>>)>>)], <<"alloc", "main">>)

\* A parameter that is assigned, and a return from a loop that frames a chunk.
clear == Fun(<<"p">>, <<Field("p"), Blk("p")>>, <<Pt(real_unit, "p", LitPat("null")), Blk("p")>>, <<
    Asg("q", "p"), Whl(IsNot("q", "null"), <<Field("p")>>, <<Wr("p", "null"), Ret("void")>>),
    Wr("p", "null"), Asg("p", "null")>>)
Clears == Program(NoPreds, [clear |-> clear, main |-> Main(<<
    Mal("p"), GiveUp("p"), Call("_", "clear", <<"p">>), Rd("x", "p"), Ast(Is("x", "null")),
    Fre("p")>>)], <<"clear", "main">>)

\* The assertion holds for a loop that is not entered only.
LoopOnce == Program(NoPreds, [main |-> Main(<<
    Mal("z"), GiveUp("z"), Asg("x", "null"), Asg("y", "z"),
    Whl(IsNot("y", "null"), <<>>, <<Asg("x", "z"), Asg("y", "null")>>),
    Ast(Is("x", "null")), Fre("z")>>)], <<"main">>)

\* The postcondition holds for the value the parameter has at the end only.
lies == Fun(<<"p">>, <<>>, <<Pure(Is("p", "null"))>>, <<Asg("p", "null")>>)
Lying == Program(NoPreds, [lies |-> lies, main |-> Main(<<
    Mal("z"), GiveUp("z"), Call("_", "lies", <<"z">>), Ast(Is("z", "null")), Fre("z")>>)],
    <<"lies", "main">>)

Intended == {Cells, Reads(reader), Halves, Leaks, PartLeak, Maybe, Clears} \cup Lists
Wrong == {Reads(writer), LoopOnce, Lying}

----------------------------------------------------------------------------
\* One edit: a statement or a conjunct is left out, a statement is repeated,
\* or half of the permission of a conjunct is left out.  What is named later
\* on stays: a program with unknown names is rejected before it is executed.

Repeated(s, i) == SubSeq(s, 1, i) \o SubSeq(s, i, Len(s))

RECURSIVE AsnEdits(_)
AsnEdits(a) ==
    LET binds(i) == a[i].a = "chunk" /\ \E m \in DOMAIN a[i].pats : a[i].pats[m].k = "var"
        ops(o) == {i \in DOMAIN a : a[i].a = o}
    IN  {RemoveAt(a, i) : i \in {j \in DOMAIN a : ~binds(j)}}
        \cup {[a EXCEPT ![i].coef = real_mul(Half, @)] : i \in {j \in ops("chunk") : a[j].coef # AnyCoef}}
        \cup UNION {{[a EXCEPT ![i].yes = v] : v \in AsnEdits(a[i].yes)}
                    \cup {[a EXCEPT ![i].no = v] : v \in AsnEdits(a[i].no)} : i \in ops("if")}

RECURSIVE BlockEdits(_, _)
BlockEdits(ss, xs) ==
    LET known(i) == xs \cup {ss[j].x : j \in {m \in 1..i - 1 : "x" \in DOMAIN ss[m]}}
        optional(i) == "x" \in DOMAIN ss[i] => ss[i].x \in known(i) \cup {"_"}
        ops(o) == {i \in DOMAIN ss : ss[i].op = o}
    IN  {RemoveAt(ss, i) : i \in {j \in DOMAIN ss : optional(j)}}
        \cup {Repeated(ss, i) : i \in DOMAIN ss}
        \cup UNION {{[ss EXCEPT ![i].yes = v] : v \in BlockEdits(ss[i].yes, known(i))}
                    \cup {[ss EXCEPT ![i].no = v] : v \in BlockEdits(ss[i].no, known(i))} : i \in ops("if")}
        \cup UNION {{[ss EXCEPT ![i].body = v] : v \in BlockEdits(ss[i].body, known(i))}
                    \cup {[ss EXCEPT ![i].inv = v] : v \in AsnEdits(ss[i].inv)} : i \in ops("while")}

FunEdits(f) ==
    {[f EXCEPT !.body = v] : v \in BlockEdits(f.body, Range(f.params))}
    \cup {[f EXCEPT !.pre = v] : v \in AsnEdits(f.pre)}
    \cup {[f EXCEPT !.post = v] : v \in AsnEdits(f.post)}

Edits(p) ==
    UNION {{[p EXCEPT !.funs[f] = v] : v \in FunEdits(p.funs[f])} : f \in DOMAIN p.funs}
    \cup UNION {{[p EXCEPT !.preds[g].body = v] : v \in AsnEdits(p.preds[g].body)} : g \in DOMAIN p.preds}

OneEdit == Intended \cup UNION {Edits(p) : p \in Intended}

AllPrograms == Wrong \cup OneEdit \cup UNION {Edits(p) : p \in OneEdit}

\* verify_func accepts the programs whose annotations are right: consume_chunk finds
\* the chunks a contract asks for, however assume_field and produce_chunk split and
\* merged them, and check_leaks finds nothing.
AcceptsIntended == verdict = "failed" => prog \notin Intended
=============================================================================
