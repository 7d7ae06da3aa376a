-------------------------------- MODULE Mcas --------------------------------
(* examples/mcas/mcas.c: a compare-and-swap of several words at once.  mcas    *)
(* puts a call descriptor (cd) into each word in turn, then decides the cd's   *)
(* status, then replaces the cd in each word by the new or the old value.  A   *)
(* thread that meets another cd runs mcas_impl for it, recursively, and starts *)
(* over.  A cd is put into a word by rdcss, with the steps of rdcss.c: an      *)
(* rdcss descriptor goes into the word first, and whoever meets it completes   *)
(* it.  Descriptors of both kinds are never freed.  All calls list their words *)
(* in the same order: mcas.c leaves the order to the caller, and with two      *)
(* calls in opposite orders the recursion of mcas_impl never ends.             *)
EXTENDS Naturals, Sequences, FiniteSets

CONSTANTS Threads, Addrs,
          Calls,              \* the calls of mcas: sequences of [a, o, n]
          MaxCalls            \* bound on the operations of each thread
VARIABLES word,               \* <<v>>, a cd <<t, n>>, or an rdcss descriptor <<cd, i, k>>
          status, es,         \* the fields of the cds of each thread: es[t][n]
          stack,              \* the activations of each thread, innermost first
          lin

vars == <<word, status, es, stack, lin>>

IsCd(w) == Len(w) = 2
Es(cd) == es[cd[1]][cd[2]]
Status(cd) == status[cd[1]][cd[2]]

\* the k-th rdcss descriptor for entry i of cd: a1 is &cd->status, o1 is 0, a2
\* and o2 are those of the entry, and n2 is the cd
IsRdcss(w) == Len(w) = 3
Entry(d) == Es(d[1])[d[2]]

\* mcas_read and mcas on the values of the words
Apply(st, op) ==
  IF op[1] = "read" THEN {[st |-> st, out |-> st[op[2]]]}
  ELSE LET success == \A i \in DOMAIN op[2] : st[op[2][i].a] = op[2][i].o
           new(a) == IF \E i \in DOMAIN op[2] : op[2][i].a = a
                     THEN op[2][CHOOSE i \in DOMAIN op[2] : op[2][i].a = a].n
                     ELSE st[a]
       IN {IF success THEN [st |-> [a \in Addrs |-> new(a)], out |-> 1]
                      ELSE [st |-> st, out |-> 2]}

History == INSTANCE Linearization

\* the words may hold any values at first
Init == /\ word \in [Addrs -> {<<0>>, <<1>>}]
        /\ es = [t \in Threads |-> <<>>]
        /\ status = [t \in Threads |-> <<>>]
        /\ stack = [t \in Threads |-> <<>>]
        /\ lin = History!Unused([a \in Addrs |-> word[a][1]])

\* an activation of mcas_impl: its argument, place, index i and local s; in
\* rdcss_complete also its argument d, its local r and where it goes on after it
Frame(cd, at, s) == [cd |-> cd, at |-> at, i |-> 1, s |-> s,
                     d |-> <<>>, r |-> 0, back |-> at]
Activation(cd) == Frame(cd, "start", 1)
Top(t) == stack[t][1]
In(t, place) == stack[t] # <<>> /\ Top(t).at = place
Becomes(t, f) == stack' = [stack EXCEPT ![t] = <<f>> \o Tail(@)]

CallMcas(t) ==
  /\ stack[t] = <<>> /\ Len(es[t]) < MaxCalls
  /\ \E call \in Calls : /\ es' = [es EXCEPT ![t] = Append(@, call)]
                         /\ lin' = History!Call(lin, t, <<"mcas", call>>)
  /\ status' = [status EXCEPT ![t] = Append(@, 0)]
  /\ stack' = [stack EXCEPT ![t] = <<Activation(<<t, Len(es[t]) + 1>>)>>]
  /\ UNCHANGED word

\* mcas_read(a): an activation of its own kind; s holds the address
CallRead(t) ==
  /\ stack[t] = <<>> /\ Len(es[t]) < MaxCalls
  /\ \E a \in Addrs :
       /\ stack' = [stack EXCEPT ![t] = <<Frame(<<>>, "read", a)>>]
       /\ lin' = History!Call(lin, t, <<"read", a>>)
  /\ es' = [es EXCEPT ![t] = Append(@, <<>>)]
  /\ status' = [status EXCEPT ![t] = Append(@, 1)]
  /\ UNCHANGED word

\* the outermost call returns
ReturnFrom(t, out) == /\ lin' = History!Return(lin, t, out)
                      /\ stack' = [stack EXCEPT ![t] = <<>>]

\* rdcss returned e->o for entry i, or entry i holds the cd: on to the next one
Installed(f) == IF f.i = Len(Es(f.cd)) THEN [f EXCEPT !.at = "decide"]
                ELSE [f EXCEPT !.at = "install", !.i = @ + 1]

\* rdcss_complete(d), to go on at the given place
Complete(t, d, place) ==
  /\ Becomes(t, [Top(t) EXCEPT !.at = "loadA1", !.d = d, !.back = place])
  /\ UNCHANGED lin

\* rdcss_complete: the load of a1, then the compare-and-store of the outcome
LoadA1(t) == /\ In(t, "loadA1")
             /\ Becomes(t, [Top(t) EXCEPT !.at = "storeA2", !.r = Status(Top(t).d[1])])
             /\ UNCHANGED <<word, status, es, lin>>

\* mutant: the cd is stored even when its status has been decided
OutcomeDecided(d, r) == d[1]

Outcome(d, r) == IF r = 0 THEN d[1] ELSE <<Entry(d).o>>

StoreA2(t) ==
  /\ In(t, "storeA2")
  /\ LET d == Top(t).d
     IN word' = IF word[Entry(d).a] = d
                THEN [word EXCEPT ![Entry(d).a] = Outcome(d, Top(t).r)] ELSE word
  /\ LET f == [Top(t) EXCEPT !.at = Top(t).back, !.d = <<>>, !.r = 0]
     IN Becomes(t, IF f.at = "installed" THEN Installed(f) ELSE f)
  /\ UNCHANGED <<status, es, lin>>

\* the load of rdcss_read(a), then the help for what is found there, if any
Read(t) ==
  /\ In(t, "read")
  /\ LET w == word[Top(t).s]
     IN CASE IsRdcss(w) -> Complete(t, w, "read")
          [] IsCd(w) -> /\ stack' = [stack EXCEPT ![t] = <<Activation(w)>> \o @]
                        /\ UNCHANGED lin
          [] OTHER -> ReturnFrom(t, w[1])
  /\ UNCHANGED <<word, status, es>>

\* mcas_impl: the load of cd->status
LoadStatus(t) ==
  /\ In(t, "start")
  /\ Becomes(t, IF Status(Top(t).cd) = 0
                THEN [Top(t) EXCEPT !.at = "install", !.i = 1, !.s = 1]
                ELSE [Top(t) EXCEPT !.at = "replace", !.i = 1, !.s = Status(Top(t).cd)])
  /\ UNCHANGED <<word, status, es, lin>>

\* the rdcss descriptors that a word or a thread holds; rdcss allocates another
Held == {word[a] : a \in Addrs} \union
        UNION {{stack[t][k].d : k \in DOMAIN stack[t]} : t \in Threads}
NewRdcss(cd, i) ==
  LET taken == {k \in 1..Cardinality(Held) : <<cd, i, k>> \in Held}
  IN <<cd, i, CHOOSE k \in 1..(Cardinality(taken) + 1) : k \notin taken>>

\* rdcss(&cd->status, 0, e->a, e->o, cd + 2) in the loop over the entries: the
\* compare-and-store of the descriptor, and what mcas_impl does with the result
Install(t) ==
  /\ In(t, "install")
  /\ LET cd == Top(t).cd
         e == Es(cd)[Top(t).i]
         w == word[e.a]
         d == NewRdcss(cd, Top(t).i)
     IN CASE IsRdcss(w) -> Complete(t, w, "install") /\ UNCHANGED word
          [] w = <<e.o>> -> Complete(t, d, "installed") /\ word' = [word EXCEPT ![e.a] = d]
          [] w = cd -> Becomes(t, Installed(Top(t))) /\ UNCHANGED <<word, lin>>
          [] IsCd(w) /\ w # cd ->
               /\ stack' = [stack EXCEPT ![t] =
                              <<Activation(w), [Top(t) EXCEPT !.at = "start"]>> \o Tail(@)]
               /\ UNCHANGED <<word, lin>>
          [] OTHER -> /\ Becomes(t, [Top(t) EXCEPT !.at = "decide", !.s = 2])
                      /\ UNCHANGED <<word, lin>>
  /\ UNCHANGED <<status, es>>

\* tracked_cas(&cd->status, 0, s); the status it finds prevails
Decide(t) ==
  /\ In(t, "decide")
  /\ LET cd == Top(t).cd
         s == IF Status(cd) = 0 THEN Top(t).s ELSE Status(cd)
     IN /\ status' = [status EXCEPT ![cd[1]][cd[2]] = s]
        /\ Becomes(t, [Top(t) EXCEPT !.at = "replace", !.i = 1, !.s = s])
  /\ UNCHANGED <<word, es, lin>>

\* rdcss_compare_and_store(e->a, cd + 2, success ? e->n : e->o), entry by entry:
\* one compare-and-store on the word itself, which does nothing when an rdcss
\* descriptor is there; after the last entry mcas_impl returns
Replace(t) ==
  /\ In(t, "replace")
  /\ LET cd == Top(t).cd
         e == Es(cd)[Top(t).i]
     IN /\ word' = IF word[e.a] = cd
                   THEN [word EXCEPT ![e.a] = <<IF Top(t).s = 1 THEN e.n ELSE e.o>>]
                   ELSE word
        /\ IF Top(t).i < Len(Es(cd))
           THEN Becomes(t, [Top(t) EXCEPT !.i = @ + 1]) /\ UNCHANGED lin
           ELSE IF Len(stack[t]) = 1 THEN ReturnFrom(t, Top(t).s)
           ELSE stack' = [stack EXCEPT ![t] = Tail(@)] /\ UNCHANGED lin
  /\ UNCHANGED <<status, es>>

Next == \E t \in Threads : \/ CallMcas(t) \/ CallRead(t) \/ Read(t) \/ LoadStatus(t)
                           \/ Install(t) \/ LoadA1(t) \/ StoreA2(t)
                           \/ Decide(t) \/ Replace(t)
=============================================================================
