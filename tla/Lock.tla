-------------------------------- MODULE Lock --------------------------------
(* What every lock of the repository's examples promises its clients: at most *)
(* one thread is inside at any time, and a thread gets inside only by a call  *)
(* of acquire that it made and that has not returned before.  Nothing is said *)
(* about the order in which waiting threads get in.                           *)
CONSTANT Threads
VARIABLE phase        \* per thread: "out", "acquiring" or "in"

Init == phase = [t \in Threads |-> "out"]

\* the thread calls acquire
Call(t) == /\ phase[t] = "out"
           /\ phase' = [phase EXCEPT ![t] = "acquiring"]

\* acquire takes effect
Enter(t) == /\ phase[t] = "acquiring"
            /\ \A u \in Threads : phase[u] # "in"
            /\ phase' = [phase EXCEPT ![t] = "in"]

\* release takes effect
Leave(t) == /\ phase[t] = "in"
            /\ phase' = [phase EXCEPT ![t] = "out"]

Next == \E t \in Threads : Call(t) \/ Enter(t) \/ Leave(t)

Spec == Init /\ [][Next]_phase
=============================================================================
