-------------------------------- MODULE Rdcss --------------------------------
(* examples/mcas/rdcss.c: rdcss(a1, o1, a2, o2, n2) stores n2 in a2 if a1 holds *)
(* o1 and a2 holds o2, and returns what a2 held.  It first puts a descriptor   *)
(* into a2; any thread that meets a descriptor completes the operation it      *)
(* stands for.  rdcss_compare_and_store(a2, o2, n2) is a single                *)
(* compare-and-store on the word a2, and fails whenever a descriptor is there. *)
(* Descriptors are never freed.  The word a1 is written by other code (mcas    *)
(* stores the status of an operation in it).                                   *)
EXTENDS Naturals, Sequences

CONSTANTS Threads, Writer,    \* Writer is the thread that writes a1
          MaxCalls            \* bound on the operations of each thread
VARIABLES a1, a2,             \* a2 holds <<v>>, or a descriptor <<t, n>>
          args,               \* the operations of each thread: [o1, o2, n2]
          d, back,            \* the descriptor a thread is completing, and where
                              \* it goes on when it has: "cas", "read" or "done"
          r,                  \* what rdcss_complete read from a1
          pc, lin

vars == <<a1, a2, args, d, back, r, pc, lin>>

Values == {0, 1}
All == Threads \cup {Writer}
IsDescriptor(w) == Len(w) = 2
Fields(e) == args[e[1]][e[2]]

\* a read is an rdcss that cannot store; both return what a2 held.  Of a
\* compare-and-store that fails rdcss.h says nothing, so it may always fail
Stores(st, op) == st.a2 = op[2].o2 /\ (op[1] = "rdcss" => st.a1 = op[2].o1)
Apply(st, op) ==
  LET stored == [st EXCEPT !.a2 = op[2].n2]
  IN CASE op[1] = "store" -> {[st |-> [st EXCEPT !.a1 = op[2]], out |-> 0]}
       [] op[1] = "read" -> {[st |-> st, out |-> st.a2]}
       [] op[1] = "rdcss" -> {[st |-> IF Stores(st, op) THEN stored ELSE st, out |-> st.a2]}
       [] op[1] = "cas" -> {[st |-> st, out |-> 0]} \union
                           (IF Stores(st, op) THEN {[st |-> stored, out |-> 1]} ELSE {})

History == INSTANCE Linearization WITH Threads <- All

Init == /\ a1 = 0 /\ a2 = <<0>>
        /\ args = [t \in All |-> <<>>]
        /\ d = [t \in Threads |-> <<>>]
        /\ back = [t \in Threads |-> "done"]
        /\ r = [t \in Threads |-> 0]
        /\ pc = [t \in Threads |-> "idle"]
        /\ lin = History!Unused([a1 |-> 0, a2 |-> 0])

\* code outside rdcss.c stores v in a1
StoreA1(v) == /\ Len(args[Writer]) < MaxCalls /\ v # a1
              /\ a1' = v
              /\ args' = [args EXCEPT ![Writer] = Append(@, v)]
              /\ lin' = History!Return(History!Call(lin, Writer, <<"store", v>>), Writer, 0)
              /\ UNCHANGED <<a2, d, back, r, pc>>

Own(t) == <<t, Len(args[t])>>

\* rdcss: the descriptor is filled in; mcas passes 0 for o1
CallRdcss(t) ==
  /\ pc[t] = "idle" /\ Len(args[t]) < MaxCalls
  /\ \E o2 \in Values :
       LET f == [o1 |-> 0, o2 |-> o2, n2 |-> 1 - o2]
       IN /\ args' = [args EXCEPT ![t] = Append(@, f)]
          /\ lin' = History!Call(lin, t, <<"rdcss", f>>)
  /\ pc' = [pc EXCEPT ![t] = "cas"]
  /\ UNCHANGED <<a1, a2, d, back, r>>

CallRead(t) ==
  /\ pc[t] = "idle" /\ Len(args[t]) < MaxCalls
  /\ args' = [args EXCEPT ![t] = Append(@, [o1 |-> 0, o2 |-> 0, n2 |-> 0])]
  /\ lin' = History!Call(lin, t, <<"read">>)
  /\ pc' = [pc EXCEPT ![t] = "read"]
  /\ UNCHANGED <<a1, a2, d, back, r>>

\* rdcss_compare_and_store
CallStore(t) ==
  /\ pc[t] = "idle" /\ Len(args[t]) < MaxCalls
  /\ \E o2 \in Values :
       LET f == [o1 |-> 0, o2 |-> o2, n2 |-> 1 - o2]
       IN /\ args' = [args EXCEPT ![t] = Append(@, f)]
          /\ lin' = History!Call(lin, t, <<"cas", f>>)
  /\ pc' = [pc EXCEPT ![t] = "store"]
  /\ UNCHANGED <<a1, a2, d, back, r>>

\* the operation returns what it found in a2, and its locals are gone
ReturnOld(t, w) == /\ lin' = History!Return(lin, t, w)
                   /\ pc' = [pc EXCEPT ![t] = "idle"]
                   /\ d' = [d EXCEPT ![t] = <<>>]
                   /\ back' = [back EXCEPT ![t] = "done"]
                   /\ r' = [r EXCEPT ![t] = 0]

\* rdcss_complete(e) is called, to go on at the given place
Complete(t, e, place) == /\ d' = [d EXCEPT ![t] = e]
                         /\ back' = [back EXCEPT ![t] = place]
                         /\ pc' = [pc EXCEPT ![t] = "loadA1"]
                         /\ UNCHANGED <<r, lin>>

\* the compare-and-store of the descriptor into a2
CompareAndStore(t) ==
  /\ pc[t] = "cas"
  /\ CASE IsDescriptor(a2) -> Complete(t, a2, "cas") /\ UNCHANGED a2
       [] a2 = <<Fields(Own(t)).o2>> -> Complete(t, Own(t), "done") /\ a2' = Own(t)
       [] OTHER -> ReturnOld(t, a2[1]) /\ UNCHANGED a2
  /\ UNCHANGED <<a1, args>>

\* rdcss_read
Read(t) ==
  /\ pc[t] = "read"
  /\ IF IsDescriptor(a2) THEN Complete(t, a2, "read") ELSE ReturnOld(t, a2[1])
  /\ UNCHANGED <<a1, a2, args>>

\* rdcss_compare_and_store: a compare-and-store on the word, descriptor or not
Store(t) ==
  /\ pc[t] = "store"
  /\ LET f == Fields(Own(t))
     IN /\ a2' = IF a2 = <<f.o2>> THEN <<f.n2>> ELSE a2
        /\ ReturnOld(t, IF a2 = <<f.o2>> THEN 1 ELSE 0)
  /\ UNCHANGED <<a1, args>>

\* rdcss_complete: the load of a1, then the compare-and-store of the outcome
\* into a2, which fails if another thread has completed the operation
LoadA1(t) == /\ pc[t] = "loadA1"
             /\ pc' = [pc EXCEPT ![t] = "storeA2"]
             /\ r' = [r EXCEPT ![t] = a1]
             /\ UNCHANGED <<a1, a2, args, d, back, lin>>

Outcome(t) == LET f == Fields(d[t]) IN IF r[t] = f.o1 THEN f.n2 ELSE f.o2

\* mutant: the outcome is stored whatever a2 holds
CompletedBlindly(t) == <<Outcome(t)>>

Completed(t) == IF a2 = d[t] THEN <<Outcome(t)>> ELSE a2

StoreA2(t) ==
  /\ pc[t] = "storeA2"
  /\ a2' = Completed(t)
  /\ IF back[t] = "done" THEN ReturnOld(t, Fields(d[t]).o2)
     ELSE /\ pc' = [pc EXCEPT ![t] = back[t]]
          /\ UNCHANGED <<d, back, r, lin>>
  /\ UNCHANGED <<a1, args>>

Next == \/ \E v \in Values : StoreA1(v)
        \/ \E t \in Threads : \/ CallRdcss(t) \/ CallRead(t) \/ CallStore(t)
                              \/ CompareAndStore(t) \/ Store(t) \/ Read(t)
                              \/ LoadA1(t) \/ StoreA2(t)
=============================================================================
