----------------------------- MODULE FutexMutex -----------------------------
(* The futex-based mutex of examples/futexes/mutex.c.  The kernel's futex      *)
(* calls are modelled as futex.h uses them: futex_wait goes to sleep only if   *)
(* the word still has the expected value, in one atomic step; futex_wake_one   *)
(* wakes some sleeper, if there is one.  A weak compare-and-set may fail       *)
(* although the word is 0, at most MaxSpurious times in one acquire.           *)
EXTENDS Naturals

CONSTANTS Threads, MaxSpurious

VARIABLES held_,        \* the futex word
          spurious,     \* spurious failures in the current acquire
          pc

vars == <<held_, spurious, pc>>

Init == /\ held_ = 0
        /\ spurious = [t \in Threads |-> 0]
        /\ pc = [t \in Threads |-> "out"]

Call(t) == /\ pc[t] = "out"
           /\ pc' = [pc EXCEPT ![t] = "cas"]
           /\ spurious' = [spurious EXCEPT ![t] = 0]
           /\ UNCHANGED held_

\* atomic_weak_compare_and_set_futex_word(&mutex->held_, 0, 1)
CompareAndSet(t) ==
  /\ pc[t] = "cas"
  /\ \/ /\ held_ = 0
        /\ held_' = 1
        /\ pc' = [pc EXCEPT ![t] = "in"]
        /\ UNCHANGED spurious
     \/ /\ held_ # 0
        /\ pc' = [pc EXCEPT ![t] = "wait"]
        /\ UNCHANGED <<held_, spurious>>
     \/ /\ held_ = 0 /\ spurious[t] < MaxSpurious
        /\ spurious' = [spurious EXCEPT ![t] = @ + 1]
        /\ pc' = [pc EXCEPT ![t] = "wait"]
        /\ UNCHANGED held_

\* mutant: the sleep does not depend on the word
WaitAlways(t) == /\ pc[t] = "wait"
                 /\ pc' = [pc EXCEPT ![t] = "asleep"]
                 /\ UNCHANGED <<held_, spurious>>

\* futex_wait(&mutex->held_, 1)
Wait(t) == /\ pc[t] = "wait"
           /\ pc' = [pc EXCEPT ![t] = IF held_ = 1 THEN "asleep" ELSE "cas"]
           /\ UNCHANGED <<held_, spurious>>

\* release: atomic_store_futex_word(&mutex->held_, 0)
Store(t) == /\ pc[t] = "in"
            /\ held_' = 0
            /\ pc' = [pc EXCEPT ![t] = "wake"]
            /\ UNCHANGED spurious

\* futex_wake_one(&mutex->held_)
Wake(t) ==
  /\ pc[t] = "wake"
  /\ \/ /\ \A u \in Threads : pc[u] # "asleep"
        /\ pc' = [pc EXCEPT ![t] = "out"]
     \/ \E u \in Threads : /\ pc[u] = "asleep"
                           /\ pc' = [pc EXCEPT ![t] = "out", ![u] = "cas"]
  /\ UNCHANGED <<held_, spurious>>

Step(t) == CompareAndSet(t) \/ Wait(t) \/ Store(t) \/ Wake(t)

Next == \E t \in Threads : Call(t) \/ Step(t)

Spec == Init /\ [][Next]_vars

----------------------------------------------------------------------------
Phase == [t \in Threads |-> CASE pc[t] \in {"out", "wake"} -> "out"
                              [] pc[t] = "in" -> "in"
                              [] OTHER -> "acquiring"]

=============================================================================
