----------------------------- MODULE CohortLock -----------------------------
(* The cohort lock of examples/busywaiting/flexiblespecs/ticketlock-stronger/  *)
(* cohortlock.c.  Each cohort has a ticket lock of its own, and all cohorts    *)
(* share one.  A thread that releases may pass the shared lock on to the next  *)
(* thread of its cohort (passing), at most MaxPass times in a row, and passes  *)
(* only when it sees another member announced in queueSize.  The ticket locks  *)
(* are used through what they promise, the FIFO queues of FifoLock, which the  *)
(* ticket lock is shown to implement.                                          *)
EXTENDS Naturals, Sequences

CONSTANTS Threads, Cohorts, Shared,
          MaxPass                  \* MAX_PASS_COUNT, 100 in the code

VARIABLES queue, taken,            \* the ticket locks: one per cohort and Shared
          queueSize, passing, passedCount,      \* fields of struct cohort
          cohort,                  \* the argument of the call a thread is in
          pc

locals == <<queueSize, passing, passedCount>>
vars == <<queue, taken, locals, cohort, pc>>

Lock == INSTANCE FifoLock WITH Locks <- Cohorts \cup {Shared}

Init == /\ Lock!Init
        /\ queueSize = [c \in Cohorts |-> 0]
        /\ passing = [c \in Cohorts |-> FALSE]
        /\ passedCount = [c \in Cohorts |-> 0]
        /\ cohort = [t \in Threads |-> CHOOSE c \in Cohorts : TRUE]
        /\ pc = [t \in Threads |-> "out"]

Goto(t, from, to) == pc[t] = from /\ pc' = [pc EXCEPT ![t] = to]

\* acquire: atomic_increment_counter(&cohort->queueSize)
Announce(t) == \E c \in Cohorts :
                 /\ Goto(t, "out", "announced")
                 /\ cohort' = [cohort EXCEPT ![t] = c]
                 /\ queueSize' = [queueSize EXCEPT ![c] = @ + 1]
                 /\ UNCHANGED <<queue, taken, passing, passedCount>>

\* ticketlock_acquire(cohort->lock): a place in its queue, then the turn
JoinCohort(t) == /\ Goto(t, "announced", "queued")
                 /\ Lock!Join(cohort[t], t)
                 /\ UNCHANGED <<locals, cohort>>

EnterCohort(t) == /\ Goto(t, "queued", "leading")
                  /\ Lock!Enter(cohort[t], t)
                  /\ UNCHANGED <<locals, cohort>>

\* atomic_decrement_counter(&cohort->queueSize), then the test of passing, which
\* only the holder of the cohort's lock writes
Withdraw(t) == /\ pc[t] = "leading"
               /\ queueSize' = [queueSize EXCEPT ![cohort[t]] = @ - 1]
               /\ pc' = [pc EXCEPT ![t] =
                           IF passing[cohort[t]] THEN "in" ELSE "toshared"]
               /\ UNCHANGED <<queue, taken, passing, passedCount, cohort>>

\* ticketlock_acquire(cohort->cohortlock->lock)
JoinShared(t) == /\ Goto(t, "toshared", "contending")
                 /\ Lock!Join(Shared, t)
                 /\ UNCHANGED <<locals, cohort>>

EnterShared(t) == /\ Goto(t, "contending", "in")
                  /\ Lock!Enter(Shared, t)
                  /\ UNCHANGED <<locals, cohort>>

\* mutant: the passes in a row are not counted
PassesUncounted(c, pass) == IF pass THEN passedCount[c] ELSE 0

\* cohort->passedCount++ when the lock is passed on, else cohort->passedCount = 0
Passes(c, pass) == IF pass THEN passedCount[c] + 1 ELSE 0

\* release: the load of queueSize and the fields it decides
DecidePassing(t) ==
  /\ pc[t] = "in"
  /\ LET c == cohort[t]
         pass == passedCount[c] < MaxPass /\ queueSize[c] > 0
     IN /\ passing' = [passing EXCEPT ![c] = pass]
        /\ passedCount' = [passedCount EXCEPT ![c] = Passes(c, pass)]
        /\ pc' = [pc EXCEPT ![t] = IF pass THEN "leaving" ELSE "unshare"]
  /\ UNCHANGED <<queue, taken, queueSize, cohort>>

\* ticketlock_release(cohort->cohortlock->lock), not when the lock is passed on
LeaveShared(t) == /\ Goto(t, "unshare", "leaving")
                  /\ Lock!Leave(Shared)
                  /\ UNCHANGED <<locals, cohort>>

\* ticketlock_release(cohort->lock)
LeaveCohort(t) == /\ Goto(t, "leaving", "out")
                  /\ Lock!Leave(cohort[t])
                  /\ UNCHANGED <<locals, cohort>>

Step(t) == \/ JoinCohort(t) \/ EnterCohort(t) \/ Withdraw(t)
           \/ JoinShared(t) \/ EnterShared(t)
           \/ DecidePassing(t) \/ LeaveShared(t) \/ LeaveCohort(t)

Next == \E t \in Threads : Announce(t) \/ Step(t)

Spec == Init /\ [][Next]_vars

----------------------------------------------------------------------------
(* The abstract lock: a thread is inside from the end of its acquire until it *)
(* has passed the shared lock on or released it.                              *)
Phase == [t \in Threads |-> CASE pc[t] \in {"out", "leaving"} -> "out"
                              [] pc[t] \in {"in", "unshare"} -> "in"
                              [] OTHER -> "acquiring"]
=============================================================================
