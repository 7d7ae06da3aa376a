------------------------------- MODULE ClhLock -------------------------------
(* The CLH queue lock of examples/busywaiting/clhlock/clhlock_as_ticketlock.c. *)
(* A thread announces itself with a node it exchanges for the tail of the      *)
(* queue, spins on the node it got back, and after its release keeps that node *)
(* for its next acquire.  Thread objects are created and disposed while other  *)
(* threads use the lock; dispose frees the node the object ends up with.       *)
EXTENDS Naturals, FiniteSets

CONSTANTS Threads, Nodes

VARIABLES tail,           \* lock->tail
          lock,           \* node->lock, for every node
          node, pred,     \* the fields of each thread object
          allocated,      \* the nodes that have been malloc'ed and not freed
          pc

vars == <<tail, lock, node, pred, allocated, pc>>

\* create_clhlock_as_ticketlock allocates the sentinel; no thread exists yet
Sentinel == CHOOSE n \in Nodes : TRUE

Init == /\ tail = Sentinel
        /\ allocated = {Sentinel}
        /\ lock = [n \in Nodes |-> 0]
        /\ node = [t \in Threads |-> Sentinel]
        /\ pred = [t \in Threads |-> Sentinel]
        /\ pc = [t \in Threads |-> "none"]

\* malloc returns any block that is not in use
create_thread(t) == /\ pc[t] = "none"
                    /\ \E n \in Nodes \ allocated :
                         /\ allocated' = allocated \cup {n}
                         /\ node' = [node EXCEPT ![t] = n]
                    /\ pc' = [pc EXCEPT ![t] = "out"]
                    /\ UNCHANGED <<tail, lock, pred>>

\* the fields of a disposed object and of its node mean nothing any more
dispose_thread(t) == /\ pc[t] = "out"
                     /\ allocated' = allocated \ {node[t]}
                     /\ lock' = [lock EXCEPT ![node[t]] = 0]
                     /\ node' = [node EXCEPT ![t] = Sentinel]
                     /\ pred' = [pred EXCEPT ![t] = Sentinel]
                     /\ pc' = [pc EXCEPT ![t] = "none"]
                     /\ UNCHANGED tail

\* mutant: the node is not marked
MarkNothing(t) == /\ pc[t] = "out"
                  /\ pc' = [pc EXCEPT ![t] = "marked"]
                  /\ UNCHANGED <<tail, lock, node, pred, allocated>>

\* acquire: node->lock = 1, with the thread's own node
MarkNode(t) == /\ pc[t] = "out"
               /\ lock' = [lock EXCEPT ![node[t]] = 1]
               /\ pc' = [pc EXCEPT ![t] = "marked"]
               /\ UNCHANGED <<tail, node, pred, allocated>>

\* pred = atomic_exchange_pointer(&lock->tail, node)
Exchange(t) == /\ pc[t] = "marked"
               /\ pred' = [pred EXCEPT ![t] = tail]
               /\ tail' = node[t]
               /\ pc' = [pc EXCEPT ![t] = "spin"]
               /\ UNCHANGED <<lock, node, allocated>>

\* acquire_helper: the load of pred->lock that ends the loop.  Reading a node
\* that has been freed is an error.
SeeUnlocked(t) == /\ pc[t] = "spin"
                  /\ lock[pred[t]] = 0
                  /\ pc' = [pc EXCEPT ![t] =
                              IF pred[t] \in allocated THEN "in" ELSE "fault"]
                  /\ UNCHANGED <<tail, lock, node, pred, allocated>>

\* release: the store that lets the successor in ...
Unlock(t) == /\ pc[t] = "in"
             /\ lock' = [lock EXCEPT ![node[t]] = 0]
             /\ pc' = [pc EXCEPT ![t] = "recycle"]
             /\ UNCHANGED <<tail, node, pred, allocated>>

\* ... and thread->node = thread->pred
Recycle(t) == /\ pc[t] = "recycle"
              /\ node' = [node EXCEPT ![t] = pred[t]]
              /\ pc' = [pc EXCEPT ![t] = "out"]
              /\ UNCHANGED <<tail, lock, pred, allocated>>

Step(t) == Exchange(t) \/ SeeUnlocked(t) \/ Unlock(t) \/ Recycle(t)

Next == \E t \in Threads :
          create_thread(t) \/ dispose_thread(t) \/ MarkNode(t) \/ Step(t)

Spec == Init /\ [][Next]_vars

----------------------------------------------------------------------------
(* The abstract lock: the threads between the exchange and the store of their *)
(* release, in the order of the chain of nodes.                               *)
Active == {t \in Threads : pc[t] \in {"spin", "in", "fault"}}

Place[t \in Active] ==
  IF \E u \in Active : node[u] = pred[t]
  THEN 1 + Place[CHOOSE u \in Active : node[u] = pred[t]]
  ELSE 1

Queue == [i \in 1..Cardinality(Active) |-> CHOOSE t \in Active : Place[t] = i]

Taken == \E t \in Threads : pc[t] = "in"
=============================================================================
