------------------------------ MODULE FifoLock ------------------------------
(* What the ticket lock and the CLH lock promise beyond mutual exclusion:     *)
(* threads get inside in the order in which they took their place in the      *)
(* queue.  There is one queue per lock, because the cohort lock uses several; *)
(* taken[l] says that the thread at the head of queue[l] has got in.  The     *)
(* lock may be released by another thread than the one that acquired it: the  *)
(* cohort lock hands the lock it shares with other cohorts to the next member *)
(* of the cohort, who may be the one to release it.                           *)
EXTENDS Naturals, Sequences

CONSTANTS Threads, Locks
VARIABLES queue, taken

Init == /\ queue = [l \in Locks |-> <<>>]
        /\ taken = [l \in Locks |-> FALSE]

\* the thread takes the last place in the queue of the lock
Join(l, t) == /\ queue' = [queue EXCEPT ![l] = Append(@, t)]
              /\ UNCHANGED taken

\* the lock is free and it is the thread's turn
MayEnter(l, t) == ~taken[l] /\ queue[l] # <<>> /\ Head(queue[l]) = t

Enter(l, t) == /\ MayEnter(l, t)
               /\ taken' = [taken EXCEPT ![l] = TRUE]
               /\ UNCHANGED queue

Leave(l) == /\ taken[l]
            /\ taken' = [taken EXCEPT ![l] = FALSE]
            /\ queue' = [queue EXCEPT ![l] = Tail(@)]

Next == \E l \in Locks : \/ \E t \in Threads : Join(l, t) \/ Enter(l, t)
                         \/ Leave(l)

Spec == Init /\ [][Next]_<<queue, taken>>
=============================================================================
