--------------------------- MODULE ReversedQueue ---------------------------
(* The lock-free queue of examples/queue/queue.c, for many enqueueing threads *)
(* and one that dequeues.  The nodes from last to middle are linked backwards *)
(* by queue_enqueue; the dequeuer turns them round when the front list, from  *)
(* first to middle, is used up.  It frees nodes, and malloc may return them   *)
(* again while an enqueueing thread still compares last with their address.   *)
EXTENDS Naturals, Sequences

CONSTANTS Enqueuers, Dequeuer, Nodes, Sentinel, Null, MaxCalls
VARIABLES first, middle, last,         \* of struct queue
          next, value, allocated,      \* of the nodes
          own, seen,                   \* locals of queue_enqueue
          node, prev, upto,            \* locals of queue_try_dequeue
          calls, pc, lin

vars == <<first, middle, last, next, value, allocated, own, seen, node, prev, upto,
          calls, pc, lin>>
nodes == <<next, value, allocated>>

Parties == Enqueuers \cup {Dequeuer}

\* queue_try_dequeue returns false (<<>>) or a value
Apply(st, op) ==
  IF op[1] = "enqueue" THEN {[st |-> Append(st, op[2]), out |-> <<>>]}
  ELSE IF st = <<>> THEN {[st |-> st, out |-> <<>>]}
  ELSE {[st |-> Tail(st), out |-> <<Head(st)>>]}

History == INSTANCE Linearization WITH Threads <- Parties

Init == /\ first = Sentinel /\ middle = Sentinel /\ last = Sentinel
        /\ next = [n \in Nodes |-> Null] /\ value = [n \in Nodes |-> Null]
        /\ allocated = {Sentinel}
        /\ own = [t \in Enqueuers |-> Null] /\ seen = [t \in Enqueuers |-> Null]
        /\ node = Null /\ prev = Null /\ upto = Null
        /\ calls = [t \in Parties |-> 0]
        /\ pc = [t \in Parties |-> "idle"]
        /\ lin = History!Unused(<<>>)

Begin(t, op) == /\ pc[t] = "idle" /\ calls[t] < MaxCalls
                /\ calls' = [calls EXCEPT ![t] = @ + 1]
                /\ lin' = History!Call(lin, t, op)
Goto(t, to) == pc' = [pc EXCEPT ![t] = to]

----------------------------------------------------------------------------
(* queue_enqueue *)

CallEnqueue(t) ==
  /\ Begin(t, <<"enqueue", <<t, calls[t]>>>>)
  /\ \E n \in Nodes \ allocated : /\ allocated' = allocated \cup {n}
                                  /\ value' = [value EXCEPT ![n] = <<t, calls[t]>>]
                                  /\ own' = [own EXCEPT ![t] = n]
  /\ Goto(t, "load")
  /\ UNCHANGED <<first, middle, last, next, seen, node, prev, upto>>

\* last = atomic_load_pointer(&queue->last), and n->next = last
LoadLast(t) == /\ pc[t] = "load"
               /\ seen' = [seen EXCEPT ![t] = last]
               /\ next' = [next EXCEPT ![own[t]] = last]
               /\ Goto(t, "store")
               /\ UNCHANGED <<first, middle, last, value, allocated, own, node, prev, upto,
                              calls, lin>>

\* mutant: a plain store of queue->last
StoreLast(t) ==
  /\ pc[t] = "store"
  /\ last' = own[t] /\ Goto(t, "idle")
  /\ own' = [own EXCEPT ![t] = Null]
  /\ lin' = History!Return(lin, t, <<>>)
  /\ seen' = [seen EXCEPT ![t] = Null]
  /\ UNCHANGED <<first, middle, nodes, node, prev, upto, calls>>

\* atomic_compare_and_store_pointer(&queue->last, last, n)
CompareAndStore(t) ==
  /\ pc[t] = "store"
  /\ IF last = seen[t] THEN /\ last' = own[t] /\ Goto(t, "idle")
                            /\ own' = [own EXCEPT ![t] = Null]
                            /\ lin' = History!Return(lin, t, <<>>)
     ELSE Goto(t, "load") /\ UNCHANGED <<last, own, lin>>
  /\ seen' = [seen EXCEPT ![t] = Null]
  /\ UNCHANGED <<first, middle, nodes, node, prev, upto, calls>>

----------------------------------------------------------------------------
(* queue_try_dequeue *)

CallDequeue == /\ Begin(Dequeuer, <<"dequeue">>)
               /\ Goto(Dequeuer, IF first = middle THEN "load" ELSE "take")
               /\ UNCHANGED <<first, middle, last, nodes, own, seen, node, prev, upto>>

\* a thread that uses a node that was freed goes wrong
Using(n, to) == Goto(Dequeuer, IF n \in allocated THEN to ELSE "fault")

LoadBack ==
  /\ pc[Dequeuer] = "load"
  /\ IF last = middle
     THEN /\ Goto(Dequeuer, "idle")
          /\ lin' = History!Return(lin, Dequeuer, <<>>)
          /\ UNCHANGED <<node, prev, upto>>
     ELSE /\ Using(last, "reverse")
          /\ node' = last /\ prev' = next[last] /\ upto' = last
          /\ UNCHANGED lin
  /\ UNCHANGED <<first, middle, last, nodes, own, seen, calls>>

\* while (prev != middle)
Reverse ==
  /\ pc[Dequeuer] = "reverse" /\ prev # middle
  /\ Using(prev, "reverse")
  /\ next' = [next EXCEPT ![prev] = node]
  /\ node' = prev /\ prev' = next[prev]
  /\ UNCHANGED <<first, middle, last, value, allocated, own, seen, upto, calls, lin>>

\* first->next = node; queue->middle = last
Reversed ==
  /\ pc[Dequeuer] = "reverse" /\ prev = middle
  /\ Using(first, "take")
  /\ next' = [next EXCEPT ![first] = node]
  /\ middle' = upto
  /\ node' = Null /\ prev' = Null /\ upto' = Null
  /\ UNCHANGED <<first, last, value, allocated, own, seen, calls, lin>>

\* *pvalue = first->next->value; queue->first = first->next; free(first)
Take ==
  LET n == next[first] IN
  /\ pc[Dequeuer] = "take"
  /\ IF {first, n} \subseteq allocated
     THEN /\ Goto(Dequeuer, "idle")
          /\ lin' = History!Return(lin, Dequeuer, <<value[n]>>)
          /\ first' = n
          /\ allocated' = allocated \ {first}
          /\ next' = [next EXCEPT ![first] = Null]
          /\ value' = [value EXCEPT ![first] = Null]
     ELSE Goto(Dequeuer, "fault") /\ UNCHANGED <<first, nodes, lin>>
  /\ UNCHANGED <<middle, last, own, seen, node, prev, upto, calls>>

Next == \/ \E t \in Enqueuers : CallEnqueue(t) \/ LoadLast(t) \/ CompareAndStore(t)
        \/ CallDequeue \/ LoadBack \/ Reverse \/ Reversed \/ Take
=============================================================================
