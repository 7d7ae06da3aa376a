-------------------------------- MODULE LcSet --------------------------------
(* The set of integers of examples/lcset/lcset.c, a sorted list with a lock in *)
(* each node: a thread that goes down the list holds the lock of a node until  *)
(* it has the lock of the next.  remove frees the node it unlinks, and malloc  *)
(* may return its address again.  An access to a freed node makes the thread   *)
(* fail ("fault").                                                             *)
EXTENDS Naturals, FiniteSets

CONSTANTS Threads, Nodes, First, Last,     \* Nodes holds the two sentinels
          Elements,                        \* a set of numbers above 0, below 9
          MaxCalls
VARIABLES next, value, lock,               \* the nodes; lock[x] is a thread or Free
          allocated,
          p, op,                           \* locals: the locked node, the call
          calls, pc, lin

vars == <<next, value, lock, allocated, p, op, calls, pc, lin>>

Free == "free"
IntMin == 0
IntMax == 9

\* contains, add and remove on a set of numbers
Apply(st, call) ==
  LET e == call[2]
  IN {[out |-> IF call[1] = "add" THEN e \notin st ELSE e \in st,
       st |-> CASE call[1] = "add" -> st \cup {e}
                [] call[1] = "remove" -> st \ {e}
                [] OTHER -> st]}

History == INSTANCE Linearization

\* create_set
Init == /\ next = [x \in Nodes |-> Last]
        /\ value = [x \in Nodes |-> IF x = Last THEN IntMax ELSE IntMin]
        /\ lock = [x \in Nodes |-> Free]
        /\ allocated = {First, Last}
        /\ p = [t \in Threads |-> First]
        /\ op = [t \in Threads |-> <<>>]
        /\ calls = [t \in Threads |-> 0]
        /\ pc = [t \in Threads |-> "idle"]
        /\ lin = History!Unused({})

c(t) == next[p[t]]
e(t) == op[t][2]

\* a step that uses node x fails if x has been freed
Goto(t, x, to) == pc' = [pc EXCEPT ![t] = IF x \in allocated THEN to ELSE "fault"]

\* locate(set, e), called by all operations: lock(&p->lock) for the head
Begin(t) == /\ pc[t] = "idle" /\ calls[t] < MaxCalls
            /\ lock[First] = Free
            /\ \E name \in {"contains", "add", "remove"}, el \in Elements :
                 /\ op' = [op EXCEPT ![t] = <<name, el>>]
                 /\ lin' = History!Call(lin, t, <<name, el>>)
            /\ lock' = [lock EXCEPT ![First] = t]
            /\ p' = [p EXCEPT ![t] = First]
            /\ calls' = [calls EXCEPT ![t] = @ + 1]
            /\ Goto(t, First, "loop")
            /\ UNCHANGED <<next, value, allocated>>

\* c = p->next is behind e: lock(&c->lock), and then unlock(&p->lock)
LockNext(t) == /\ pc[t] = "loop" /\ value[c(t)] < e(t)
               /\ lock[c(t)] = Free
               /\ lock' = [lock EXCEPT ![c(t)] = t]
               /\ Goto(t, c(t), "unlock")
               /\ UNCHANGED <<next, value, allocated, p, op, calls, lin>>

UnlockPrevious(t) == /\ pc[t] = "unlock"
                     /\ lock' = [lock EXCEPT ![p[t]] = Free]
                     /\ p' = [p EXCEPT ![t] = c(t)]
                     /\ Goto(t, p[t], "loop")
                     /\ UNCHANGED <<next, value, allocated, op, calls, lin>>

Located(t) == pc[t] = "loop" /\ value[c(t)] >= e(t)
Present(t) == value[c(t)] = e(t)

\* unlock(&x->lock) and return
Leave(t, out) == /\ lin' = History!Return(lin, t, out)
                 /\ Goto(t, p[t], "idle")
                 /\ p' = [p EXCEPT ![t] = First]
                 /\ op' = [op EXCEPT ![t] = <<>>]

contains(t) == /\ Located(t) /\ op[t][1] = "contains"
               /\ Leave(t, Present(t))
               /\ lock' = [lock EXCEPT ![p[t]] = Free]
               /\ UNCHANGED <<next, value, allocated, calls>>

add(t) ==
  /\ Located(t) /\ op[t][1] = "add"
  /\ IF Present(t) THEN UNCHANGED <<next, value, allocated>>
     ELSE \E y \in Nodes \ allocated :
            /\ allocated' = allocated \cup {y}
            /\ value' = [value EXCEPT ![y] = e(t)]
            /\ next' = [next EXCEPT ![y] = c(t), ![p[t]] = y]
  /\ lock' = [lock EXCEPT ![p[t]] = Free]
  /\ Leave(t, ~Present(t))
  /\ UNCHANGED calls

\* remove of an element that is not there
RemoveNothing(t) == /\ Located(t) /\ op[t][1] = "remove" /\ ~Present(t)
                    /\ Leave(t, FALSE)
                    /\ lock' = [lock EXCEPT ![p[t]] = Free]
                    /\ UNCHANGED <<next, value, allocated, calls>>

\* mutant: the node to be removed is not locked first
TakeVictim(t) == /\ Located(t) /\ op[t][1] = "remove" /\ Present(t)
                 /\ Goto(t, c(t), "remove")
                 /\ UNCHANGED <<next, value, lock, allocated, p, op, calls, lin>>

\* lock(&y->lock)
LockVictim(t) == /\ Located(t) /\ op[t][1] = "remove" /\ Present(t)
                 /\ lock[c(t)] = Free
                 /\ lock' = [lock EXCEPT ![c(t)] = t]
                 /\ Goto(t, c(t), "remove")
                 /\ UNCHANGED <<next, value, allocated, p, op, calls, lin>>

\* x->next = y->next; free(y); then the end of remove
remove(t) ==
  /\ pc[t] = "remove"
  /\ allocated' = allocated \ {c(t)}
  /\ next' = [next EXCEPT ![p[t]] = next[c(t)]]
  /\ lock' = [lock EXCEPT ![p[t]] = Free, ![c(t)] = Free]
  /\ Leave(t, TRUE)
  /\ UNCHANGED <<value, calls>>

Next == \E t \in Threads : \/ Begin(t) \/ LockNext(t) \/ UnlockPrevious(t)
                           \/ contains(t) \/ add(t) \/ RemoveNothing(t)
                           \/ LockVictim(t) \/ remove(t)
=============================================================================
