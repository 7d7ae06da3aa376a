-------------------------- MODULE ConstructProofs --------------------------
(* Proofs about synchronisation constructs of the examples, each by itself    *)
(* and for every value of the constants.                                      *)
(*                                                                            *)
(* The cohort lock implements the abstract module Lock for any sets of        *)
(* threads and cohorts, any bound on the passes in a row, and any value that  *)
(* release reads from queueSize.  The shared ticket lock belongs to a cohort  *)
(* rather than to a thread: to the one whose passing flag is set or one of    *)
(* whose members is inside.  The invariant says that there is at most one     *)
(* such cohort, that the shared lock is then taken, and that within a cohort  *)
(* everything after the cohort's own lock was taken is done by the thread at  *)
(* the head of its queue.  The other constructs follow, each with its         *)
(* invariant: the USB keyboard driver, the channel of prodcons.c, the barrier *)
(* of barrier.c, and the futex mutex.                                         *)
EXTENDS CohortLock, SequenceTheorems, TLAPS

----------------------------------------------------------------------------
(* The cohort lock.                                                           *)
LockAbs == INSTANCE Lock WITH phase <- Phase

Distinct == Shared \notin Cohorts /\ Cohorts # {}

Locks == Cohorts \cup {Shared}

Leading == {"leading", "toshared", "contending", "in", "unshare", "leaving"}

Typed == /\ queue \in [Locks -> Seq(Threads)]
         /\ taken \in [Locks -> BOOLEAN]
         /\ passing \in [Cohorts -> BOOLEAN]
         /\ cohort \in [Threads -> Cohorts]
         /\ pc \in [Threads -> {"out", "announced", "queued"} \cup Leading]

\* the holder of a lock is in its queue, and of a cohort's lock the first there
LeaderIsFirst ==
  /\ \A l \in Locks : taken[l] => queue[l] # <<>>
  /\ \A t \in Threads : pc[t] \in Leading =>
       taken[cohort[t]] /\ queue[cohort[t]] # <<>> /\ Head(queue[cohort[t]]) = t

InsideOf(c) == \E t \in Threads : cohort[t] = c /\ pc[t] \in {"in", "unshare"}

Owns(c) == passing[c] \/ InsideOf(c)

SharedHasOneOwner ==
  /\ \A c \in Cohorts : Owns(c) => taken[Shared]
  /\ \A c, e \in Cohorts : Owns(c) /\ Owns(e) => c = e
  /\ \A t \in Threads : pc[t] \in {"toshared", "contending", "unshare"} => ~passing[cohort[t]]

IInv == Typed /\ LeaderIsFirst /\ SharedHasOneOwner

----------------------------------------------------------------------------
(* Of the members of a cohort one at most has taken its lock.                 *)
LEMMA OneLeader ==
  ASSUME IInv, NEW t \in Threads, NEW u \in Threads, cohort[t] = cohort[u],
         pc[t] \in Leading, pc[u] \in Leading
  PROVE  t = u
BY DEF IInv, LeaderIsFirst

(* Of all threads one at most is inside.                                      *)
LEMMA OneInside ==
  ASSUME IInv, NEW t \in Threads, NEW u \in Threads,
         pc[t] \in {"in", "unshare"}, pc[u] \in {"in", "unshare"}
  PROVE  t = u
<1>1. cohort[t] \in Cohorts /\ cohort[u] \in Cohorts
  BY DEF IInv, Typed
<1>2. Owns(cohort[t]) /\ Owns(cohort[u])
  BY DEF Owns, InsideOf
<1>3. cohort[t] = cohort[u]
  BY <1>1, <1>2 DEF IInv, SharedHasOneOwner
<1> QED
  BY <1>3, OneLeader DEF Leading

(* What a Join of the queue of any lock keeps: its first thread, if it had one. *)
LEMMA JoinKeepsHead ==
  ASSUME Typed, NEW l \in Locks, NEW t \in Threads, Lock!Join(l, t)
  PROVE  /\ queue' \in [Locks -> Seq(Threads)] /\ taken' = taken
         /\ \A g \in Locks : queue[g] # <<>> =>
              queue'[g] # <<>> /\ Head(queue'[g]) = Head(queue[g])
<1>1. queue' = [queue EXCEPT ![l] = Append(@, t)] /\ taken' = taken
  BY DEF Lock!Join
<1>2. ASSUME NEW s \in Seq(Threads)
      PROVE  /\ Append(s, t) \in Seq(Threads)
             /\ s # <<>> => Append(s, t) # <<>> /\ Head(Append(s, t)) = Head(s)
  <2>1. Append(s, t) \in Seq(Threads) /\ Len(Append(s, t)) = Len(s) + 1
    BY AppendProperties
  <2>2. s # <<>> => Len(s) > 0
    BY EmptySeq
  <2>3. s # <<>> => Append(s, t)[1] = s[1]
    BY <2>2
  <2> QED
    BY <2>1, <2>2, <2>3
<1> QED
  BY <1>1, <1>2 DEF Typed

----------------------------------------------------------------------------
(* A step by which no cohort comes to own the shared lock, and which leaves   *)
(* it taken if it was, keeps the owner unique.                                *)
LEMMA OwnerKept ==
  ASSUME IInv, taken'[Shared] = taken[Shared],
         \A c \in Cohorts : Owns(c)' => Owns(c),
         \A t \in Threads : pc'[t] \in {"toshared", "contending", "unshare"}
                              => ~passing'[cohort'[t]]
  PROVE  SharedHasOneOwner'
BY DEF IInv, SharedHasOneOwner

(* acquire announces itself in queueSize, before it has taken any lock.       *)
LEMMA AnnounceIInv ==
  ASSUME NEW t \in Threads, IInv, Announce(t)
  PROVE  IInv'
<1>0. PICK c \in Cohorts : /\ Goto(t, "out", "announced")
                           /\ cohort' = [cohort EXCEPT ![t] = c]
                           /\ UNCHANGED <<queue, taken, passing>>
  BY Zenon DEF Announce
<1> USE <1>0 DEF IInv, Goto
<1>1. Typed'
  BY DEF Typed
<1>2. \A u \in Threads : pc'[u] \in Leading => pc'[u] = pc[u] /\ cohort'[u] = cohort[u]
  BY DEF Typed, Leading
<1>3. LeaderIsFirst'
  BY <1>2 DEF LeaderIsFirst
<1>4. SharedHasOneOwner'
  <2>1. \A e \in Cohorts : Owns(e)' => Owns(e)
    BY <1>2 DEF Owns, InsideOf, Leading
  <2>2. \A u \in Threads : pc'[u] \in {"toshared", "contending", "unshare"}
                             => ~passing'[cohort'[u]]
    BY <1>2 DEF SharedHasOneOwner, Leading
  <2> QED
    BY <2>1, <2>2, OwnerKept
<1> QED
  BY <1>1, <1>3, <1>4

(* Joining the queue of a cohort or of the shared lock.                       *)
LEMMA JoinIInv ==
  ASSUME NEW t \in Threads, IInv, JoinCohort(t) \/ JoinShared(t), Distinct
  PROVE  IInv'
<1> USE DEF IInv
<1>1. /\ UNCHANGED <<passing, cohort>>
      /\ \/ Goto(t, "announced", "queued") /\ Lock!Join(cohort[t], t)
         \/ Goto(t, "toshared", "contending") /\ Lock!Join(Shared, t)
  BY DEF JoinCohort, JoinShared, locals
<1>2. /\ queue' \in [Locks -> Seq(Threads)] /\ taken' = taken
      /\ \A g \in Locks : queue[g] # <<>> =>
           queue'[g] # <<>> /\ Head(queue'[g]) = Head(queue[g])
  <2>1. cohort[t] \in Locks /\ Shared \in Locks
    BY DEF Typed, Locks
  <2> QED
    BY <2>1, <1>1, JoinKeepsHead
<1>3. Typed'
  BY <1>1, <1>2, Zenon DEF Typed, Goto, Leading
<1>4. \A u \in Threads : /\ pc'[u] \in Leading => pc[u] \in Leading
                         /\ pc'[u] \in {"in", "unshare"} => pc[u] = pc'[u]
                         /\ pc'[u] \in {"toshared", "contending", "unshare"}
                              => pc[u] \in {"toshared", "contending", "unshare"}
  BY <1>1 DEF Typed, Goto, Leading
<1>5. LeaderIsFirst'
  <2>0. \A l \in Locks : taken'[l] => queue'[l] # <<>>
    BY <1>2 DEF LeaderIsFirst
  <2> SUFFICES ASSUME NEW u \in Threads, pc'[u] \in Leading
               PROVE  taken'[cohort'[u]] /\ queue'[cohort'[u]] # <<>>
                        /\ Head(queue'[cohort'[u]]) = u
    BY <2>0 DEF LeaderIsFirst, Locks
  <2>1. cohort[u] \in Locks /\ cohort'[u] = cohort[u]
    BY <1>1 DEF Typed, Locks
  <2>2. taken[cohort[u]] /\ queue[cohort[u]] # <<>> /\ Head(queue[cohort[u]]) = u
    BY <1>4 DEF LeaderIsFirst
  <2> QED
    BY <2>1, <2>2, <1>2
<1>6. SharedHasOneOwner'
  <2>1. \A e \in Cohorts : Owns(e)' => Owns(e)
    BY <1>1, <1>4 DEF Owns, InsideOf
  <2>2. \A u \in Threads : pc'[u] \in {"toshared", "contending", "unshare"}
                             => ~passing'[cohort'[u]]
    BY <1>1, <1>4 DEF SharedHasOneOwner
  <2> QED
    BY <2>1, <2>2, <1>2, OwnerKept
<1> QED
  BY <1>3, <1>5, <1>6

(* The turn in the cohort's queue comes when nobody has taken its lock.       *)
LEMMA EnterCohortIInv ==
  ASSUME NEW t \in Threads, IInv, EnterCohort(t), Distinct
  PROVE  IInv'
<1> USE DEF IInv
<1>0. cohort[t] \in Cohorts /\ cohort[t] # Shared /\ cohort[t] \in Locks /\ Shared \in Locks
  BY DEF Typed, Distinct, Locks
<1>1. /\ UNCHANGED <<passing, cohort, queue>> /\ Goto(t, "queued", "leading")
      /\ queue[cohort[t]] # <<>> /\ Head(queue[cohort[t]]) = t
      /\ taken' = [taken EXCEPT ![cohort[t]] = TRUE]
  BY DEF EnterCohort, locals, Lock!Enter, Lock!MayEnter
<1>2. Typed'
  BY <1>0, <1>1 DEF Typed, Goto, Leading
<1>3. \A u \in Threads \ {t} : pc'[u] = pc[u]
  BY <1>1 DEF Typed, Goto
<1>4. pc'[t] = "leading"
  BY <1>1 DEF Typed, Goto
<1>5. LeaderIsFirst'
  BY <1>0, <1>1, <1>3, Zenon DEF LeaderIsFirst, Typed, Locks
<1>6. SharedHasOneOwner'
  <2>1. \A e \in Cohorts : Owns(e)' => Owns(e)
    BY <1>1, <1>3, <1>4 DEF Owns, InsideOf
  <2>2. \A u \in Threads : pc'[u] \in {"toshared", "contending", "unshare"}
                             => ~passing'[cohort'[u]]
    BY <1>1, <1>3, <1>4 DEF SharedHasOneOwner
  <2>3. taken'[Shared] = taken[Shared]
    BY <1>0, <1>1, Zenon DEF Typed
  <2> QED
    BY <2>1, <2>2, <2>3, OwnerKept
<1> QED
  BY <1>2, <1>5, <1>6

(* Whoever finds passing set takes over the shared lock with its cohort.      *)
LEMMA WithdrawIInv ==
  ASSUME NEW t \in Threads, IInv, Withdraw(t)
  PROVE  IInv'
<1> USE DEF IInv
<1>0. cohort[t] \in Cohorts
  BY DEF Typed
<1>1. /\ UNCHANGED <<passing, cohort, queue, taken>> /\ pc[t] = "leading"
      /\ pc' = [pc EXCEPT ![t] = IF passing[cohort[t]] THEN "in" ELSE "toshared"]
  BY DEF Withdraw
<1>2. Typed'
  BY <1>1 DEF Typed, Leading
<1>3. \A u \in Threads \ {t} : pc'[u] = pc[u]
  BY <1>1 DEF Typed
<1>4. pc'[t] = IF passing[cohort[t]] THEN "in" ELSE "toshared"
  BY <1>1 DEF Typed
<1>5. LeaderIsFirst'
  BY <1>1, <1>3 DEF LeaderIsFirst, Leading
<1>6. SharedHasOneOwner'
  <2>1. \A e \in Cohorts : Owns(e)' => Owns(e)
    BY <1>1, <1>3, <1>4 DEF Owns, InsideOf
  <2>2. \A u \in Threads : pc'[u] \in {"toshared", "contending", "unshare"}
                             => ~passing'[cohort'[u]]
    BY <1>1, <1>3, <1>4 DEF SharedHasOneOwner
  <2> QED
    BY <1>1, <2>1, <2>2, OwnerKept
<1> QED
  BY <1>2, <1>5, <1>6

(* The turn in the shared queue comes when no cohort owns the shared lock.    *)
LEMMA EnterSharedIInv ==
  ASSUME NEW t \in Threads, IInv, EnterShared(t), Distinct
  PROVE  IInv'
<1> USE DEF IInv
<1>0. cohort[t] \in Cohorts /\ Shared \notin Cohorts /\ Shared \in Locks
  BY DEF Typed, Distinct, Locks
<1>1. /\ UNCHANGED <<passing, cohort, queue>> /\ Goto(t, "contending", "in")
      /\ ~taken[Shared] /\ queue[Shared] # <<>>
      /\ taken' = [taken EXCEPT ![Shared] = TRUE]
  BY DEF EnterShared, locals, Lock!Enter, Lock!MayEnter
<1>2. Typed'
  BY <1>0, <1>1 DEF Typed, Goto, Leading
<1>3. \A u \in Threads \ {t} : pc'[u] = pc[u]
  BY <1>1 DEF Typed, Goto
<1>4. pc'[t] = "in" /\ pc[t] = "contending"
  BY <1>1 DEF Typed, Goto
<1>5. LeaderIsFirst'
  BY <1>0, <1>1, <1>3, <1>4 DEF LeaderIsFirst, Typed, Locks, Leading
<1>6. SharedHasOneOwner'
  <2>1. \A e \in Cohorts : ~Owns(e)
    BY <1>1 DEF SharedHasOneOwner
  <2>2. \A e \in Cohorts : Owns(e)' => e = cohort[t]
    BY <2>1, <1>1, <1>3 DEF Owns, InsideOf
  <2>3. taken'[Shared]
    BY <1>0, <1>1 DEF Typed
  <2>4. \A u \in Threads : pc'[u] \in {"toshared", "contending", "unshare"}
                             => ~passing'[cohort'[u]]
    BY <1>1, <1>3, <1>4 DEF SharedHasOneOwner
  <2> QED
    BY <2>2, <2>3, <2>4 DEF SharedHasOneOwner
<1> QED
  BY <1>2, <1>5, <1>6

(* release decides whether to pass on the shared lock; its cohort owns it     *)
(* either way.                                                                *)
LEMMA DecidePassingIInv ==
  ASSUME NEW t \in Threads, IInv, DecidePassing(t)
  PROVE  IInv'
<1> USE DEF IInv
<1>0. cohort[t] \in Cohorts
  BY DEF Typed
<1>1. PICK pass \in BOOLEAN :
        /\ UNCHANGED <<cohort, queue, taken>> /\ pc[t] = "in"
        /\ passing' = [passing EXCEPT ![cohort[t]] = pass]
        /\ pc' = [pc EXCEPT ![t] = IF pass THEN "leaving" ELSE "unshare"]
  <2> DEFINE pass == passedCount[cohort[t]] < MaxPass /\ queueSize[cohort[t]] > 0
  <2>1. pass \in BOOLEAN
    OBVIOUS
  <2>2. /\ UNCHANGED <<cohort, queue, taken>> /\ pc[t] = "in"
        /\ passing' = [passing EXCEPT ![cohort[t]] = pass]
        /\ pc' = [pc EXCEPT ![t] = IF pass THEN "leaving" ELSE "unshare"]
    BY DEF DecidePassing
  <2> HIDE DEF pass
  <2> QED
    BY <2>1, <2>2, Zenon
<1>2. Typed'
  BY <1>1 DEF Typed, Leading
<1>3. \A u \in Threads \ {t} : pc'[u] = pc[u]
  BY <1>1 DEF Typed
<1>4. pc'[t] = IF pass THEN "leaving" ELSE "unshare"
  BY <1>1 DEF Typed
<1>5. LeaderIsFirst'
  BY <1>1, <1>3, <1>4 DEF LeaderIsFirst, Leading
<1>6. SharedHasOneOwner'
  <2>1. \A e \in Cohorts : passing'[e] = IF e = cohort[t] THEN pass ELSE passing[e]
    BY <1>1 DEF Typed
  <2>2. \A e \in Cohorts : Owns(e)' => Owns(e)
    <3>1. Owns(cohort[t])
      BY <1>1 DEF Owns, InsideOf
    <3>2. \A e \in Cohorts \ {cohort[t]} : Owns(e)' => Owns(e)
      BY <2>1, <1>1, <1>3 DEF Owns, InsideOf
    <3> QED
      BY <3>1, <3>2
  <2>3. ASSUME NEW u \in Threads, pc'[u] \in {"toshared", "contending", "unshare"}
        PROVE  ~passing'[cohort'[u]]
    <3>1. CASE u = t
      BY <3>1, <2>3, <2>1, <1>0, <1>1, <1>4
    <3>2. CASE u # t
      <4>1. pc[u] \in Leading /\ pc[t] \in Leading
        BY <3>2, <2>3, <1>1, <1>3 DEF Leading
      <4>2. cohort[u] # cohort[t] /\ cohort[u] \in Cohorts
        BY <3>2, <4>1, OneLeader DEF Typed
      <4> QED
        BY <4>2, <3>2, <2>1, <2>3, <1>1, <1>3 DEF SharedHasOneOwner
    <3> QED
      BY <3>1, <3>2
  <2> QED
    BY <1>1, <2>2, <2>3, OwnerKept
<1> QED
  BY <1>2, <1>5, <1>6

(* What a Leave of any lock does to its queue.                                *)
LEMMA LeaveDrops ==
  ASSUME IInv, NEW l \in Locks, Lock!Leave(l)
  PROVE  /\ queue' \in [Locks -> Seq(Threads)]
         /\ taken' \in [Locks -> BOOLEAN]
         /\ ~taken'[l]
         /\ \A g \in Locks \ {l} : queue'[g] = queue[g] /\ taken'[g] = taken[g]
<1>1. /\ taken[l] /\ taken' = [taken EXCEPT ![l] = FALSE]
      /\ queue' = [queue EXCEPT ![l] = Tail(@)]
  BY DEF Lock!Leave
<1>2. queue[l] \in Seq(Threads) /\ queue[l] # <<>>
  BY <1>1 DEF IInv, Typed, LeaderIsFirst
<1>3. Tail(queue[l]) \in Seq(Threads)
  BY <1>2, HeadTailProperties
<1> QED
  BY <1>1, <1>3 DEF IInv, Typed

(* release of the shared lock: afterwards no cohort owns it.                  *)
LEMMA LeaveSharedIInv ==
  ASSUME NEW t \in Threads, IInv, LeaveShared(t), Distinct
  PROVE  IInv'
<1> USE DEF IInv
<1>0. cohort[t] \in Cohorts /\ Shared \notin Cohorts /\ Shared \in Locks
  BY DEF Typed, Distinct, Locks
<1>1. /\ UNCHANGED <<passing, cohort>> /\ Goto(t, "unshare", "leaving") /\ Lock!Leave(Shared)
  BY DEF LeaveShared, locals
<1>2. /\ queue' \in [Locks -> Seq(Threads)] /\ taken' \in [Locks -> BOOLEAN]
      /\ ~taken'[Shared]
      /\ \A c \in Cohorts : c \in Locks /\ queue'[c] = queue[c] /\ taken'[c] = taken[c]
  BY <1>0, <1>1, LeaveDrops, Zenon DEF Locks
<1>3. \A u \in Threads \ {t} : pc'[u] = pc[u]
  BY <1>1 DEF Typed, Goto
<1>4. pc[t] = "unshare" /\ pc'[t] = "leaving"
  BY <1>1 DEF Typed, Goto
<1>5. Typed'
  BY <1>1, <1>2 DEF Typed, Goto, Leading
<1>6. LeaderIsFirst'
  <2>1. \A l \in Locks : taken'[l] => queue'[l] # <<>>
    BY <1>2 DEF LeaderIsFirst, Locks
  <2>2. ASSUME NEW u \in Threads, pc'[u] \in Leading
        PROVE  taken'[cohort'[u]] /\ queue'[cohort'[u]] # <<>> /\ Head(queue'[cohort'[u]]) = u
    <3>1. pc[u] \in Leading /\ cohort[u] \in Cohorts /\ cohort'[u] = cohort[u]
      BY <2>2, <1>1, <1>3, <1>4 DEF Leading, Typed
    <3> QED
      BY <3>1, <1>2 DEF LeaderIsFirst
  <2> QED
    BY <2>1, <2>2 DEF LeaderIsFirst, Locks
<1>7. SharedHasOneOwner'
  <2>1. ASSUME NEW e \in Cohorts, Owns(e)' PROVE FALSE
    <3>1. ~passing[cohort[t]] /\ Owns(cohort[t])
      BY <1>4 DEF SharedHasOneOwner, Owns, InsideOf
    <3>2. Owns(e)
      BY <2>1, <1>1, <1>3, <1>4 DEF Owns, InsideOf
    <3>3. e = cohort[t]
      BY <3>1, <3>2, <1>0 DEF SharedHasOneOwner
    <3>4. PICK u \in Threads : cohort[u] = cohort[t] /\ pc'[u] \in {"in", "unshare"}
      BY <3>1, <3>3, <2>1, <1>1 DEF Owns, InsideOf
    <3>5. u # t /\ pc[u] \in Leading /\ pc[t] \in Leading
      BY <3>4, <1>3, <1>4 DEF Leading
    <3> QED
      BY <3>4, <3>5, OneLeader
  <2>2. \A u \in Threads : pc'[u] \in {"toshared", "contending", "unshare"}
                             => ~passing'[cohort'[u]]
    BY <1>1, <1>3, <1>4 DEF SharedHasOneOwner
  <2> QED
    BY <2>1, <2>2 DEF SharedHasOneOwner
<1> QED
  BY <1>5, <1>6, <1>7

(* release of the cohort's lock by the only member that had taken it.         *)
LEMMA LeaveCohortIInv ==
  ASSUME NEW t \in Threads, IInv, LeaveCohort(t), Distinct
  PROVE  IInv'
<1> USE DEF IInv
<1>0. cohort[t] \in Cohorts /\ cohort[t] # Shared /\ cohort[t] \in Locks /\ Shared \in Locks
  BY DEF Typed, Distinct, Locks
<1>1. /\ UNCHANGED <<passing, cohort>> /\ Goto(t, "leaving", "out")
      /\ Lock!Leave(cohort[t])
  BY DEF LeaveCohort, locals
<1>2. /\ queue' \in [Locks -> Seq(Threads)] /\ taken' \in [Locks -> BOOLEAN]
      /\ ~taken'[cohort[t]]
      /\ \A g \in Locks \ {cohort[t]} : queue'[g] = queue[g] /\ taken'[g] = taken[g]
  BY <1>0, <1>1, LeaveDrops
<1>3. \A u \in Threads \ {t} : pc'[u] = pc[u]
  BY <1>1 DEF Typed, Goto
<1>4. pc[t] = "leaving" /\ pc'[t] = "out"
  BY <1>1 DEF Typed, Goto
<1>5. Typed'
  BY <1>1, <1>2 DEF Typed, Goto, Leading
<1>6. LeaderIsFirst'
  <2>1. \A l \in Locks : taken'[l] => queue'[l] # <<>>
    BY <1>2 DEF LeaderIsFirst
  <2>2. ASSUME NEW u \in Threads, pc'[u] \in Leading
        PROVE  taken'[cohort'[u]] /\ queue'[cohort'[u]] # <<>> /\ Head(queue'[cohort'[u]]) = u
    <3>1. u # t /\ pc[u] \in Leading /\ pc[t] \in Leading
      BY <2>2, <1>3, <1>4 DEF Leading
    <3>2. cohort'[u] = cohort[u] /\ cohort[u] \in Locks /\ cohort[u] # cohort[t]
      BY <3>1, <1>1, OneLeader DEF Typed, Locks
    <3> QED
      BY <3>1, <3>2, <1>2 DEF LeaderIsFirst
  <2> QED
    BY <2>1, <2>2 DEF LeaderIsFirst, Locks
<1>7. SharedHasOneOwner'
  <2>1. \A e \in Cohorts : Owns(e)' => Owns(e)
    BY <1>1, <1>3, <1>4 DEF Owns, InsideOf
  <2>2. \A u \in Threads : pc'[u] \in {"toshared", "contending", "unshare"}
                             => ~passing'[cohort'[u]]
    BY <1>1, <1>3, <1>4 DEF SharedHasOneOwner
  <2>3. taken'[Shared] = taken[Shared]
    BY <1>0, <1>2
  <2> QED
    BY <2>1, <2>2, <2>3, OwnerKept
<1> QED
  BY <1>5, <1>6, <1>7

(* create_cohortlock and create_cohort: every lock is free.                   *)
LEMMA InitIInv ==
  ASSUME Distinct
  PROVE  Init => IInv
<1> SUFFICES ASSUME Init PROVE IInv
  OBVIOUS
<1>1. (CHOOSE c \in Cohorts : TRUE) \in Cohorts
  BY DEF Distinct
<1>2. /\ queue = [l \in Locks |-> <<>>] /\ taken = [l \in Locks |-> FALSE]
      /\ passing = [c \in Cohorts |-> FALSE]
      /\ cohort = [t \in Threads |-> CHOOSE c \in Cohorts : TRUE]
      /\ pc = [t \in Threads |-> "out"]
  BY DEF Init, Lock!Init, Locks
<1>3. Typed
  BY <1>1, <1>2 DEF Typed
<1>4. LeaderIsFirst
  BY <1>2 DEF LeaderIsFirst, Leading
<1>5. SharedHasOneOwner
  BY <1>2 DEF SharedHasOneOwner, Owns, InsideOf
<1> QED
  BY <1>3, <1>4, <1>5 DEF IInv

(* Every step of acquire and release keeps the owner of the shared lock       *)
(* unique.                                                                    *)
LEMMA NextIInv ==
  ASSUME Distinct
  PROVE  IInv /\ [Next]_vars => IInv'
<1> SUFFICES ASSUME IInv, [Next]_vars PROVE IInv'
  OBVIOUS
<1>1. CASE Next
  <2> PICK t \in Threads : Announce(t) \/ Step(t)
    BY <1>1 DEF Next
  <2> QED
    BY AnnounceIInv, JoinIInv, EnterCohortIInv, WithdrawIInv, EnterSharedIInv,
       DecidePassingIInv, LeaveSharedIInv, LeaveCohortIInv DEF Step
<1>2. CASE UNCHANGED vars
  BY <1>2 DEF vars, locals, IInv, Typed, LeaderIsFirst, SharedHasOneOwner, Owns, InsideOf
<1> QED
  BY <1>1, <1>2

(* A thread gets inside by its turn at the shared lock, or by finding passing *)
(* set; either way nobody else is inside then.  It leaves when it passes the  *)
(* shared lock on or releases it; all other steps are invisible.              *)
LEMMA StepSimulates ==
  ASSUME Distinct
  PROVE  IInv /\ [Next]_vars => [LockAbs!Next]_Phase
<1> SUFFICES ASSUME IInv, [Next]_vars PROVE [LockAbs!Next]_Phase
  OBVIOUS
<1>0. /\ pc \in [Threads -> {"out", "announced", "queued"} \cup Leading]
      /\ \A t \in Threads : cohort[t] \in Cohorts
  BY DEF IInv, Typed
<1>1. ASSUME NEW t \in Threads, Announce(t) PROVE LockAbs!Call(t)
  BY <1>0, <1>1, Zenon DEF Announce, Goto, LockAbs!Call, Phase
<1>2. ASSUME NEW t \in Threads,
             JoinCohort(t) \/ EnterCohort(t) \/ JoinShared(t) \/ LeaveCohort(t)
      PROVE  UNCHANGED Phase
  BY <1>0, <1>2 DEF JoinCohort, EnterCohort, JoinShared, LeaveCohort, Goto, Phase
<1>3. ASSUME NEW t \in Threads, \A u \in Threads : pc[u] \notin {"in", "unshare"},
             pc[t] \in {"leading", "contending"}, pc' = [pc EXCEPT ![t] = "in"]
      PROVE  LockAbs!Enter(t)
  <2>1. \A u \in Threads : Phase[u] # "in"
    BY <1>3 DEF Phase
  <2>2. Phase[t] = "acquiring" /\ Phase' = [Phase EXCEPT ![t] = "in"]
    BY <1>0, <1>3, Zenon DEF Phase
  <2> QED
    BY <2>1, <2>2 DEF LockAbs!Enter
<1>4. ASSUME NEW t \in Threads, Withdraw(t) PROVE LockAbs!Enter(t) \/ UNCHANGED Phase
  <2>1. CASE passing[cohort[t]]
    <3>1. pc[t] = "leading" /\ pc' = [pc EXCEPT ![t] = "in"]
      BY <2>1, <1>4 DEF Withdraw
    <3>2. ASSUME NEW u \in Threads, pc[u] \in {"in", "unshare"} PROVE FALSE
      <4>1. Owns(cohort[u]) /\ Owns(cohort[t])
        BY <3>2, <2>1 DEF Owns, InsideOf
      <4>2. cohort[u] = cohort[t]
        BY <4>1, <1>0 DEF IInv, SharedHasOneOwner
      <4>3. u = t
        BY <4>2, <3>1, <3>2, OneLeader DEF Leading
      <4> QED
        BY <4>3, <3>1, <3>2
    <3> QED
      BY <3>1, <3>2, <1>3, Zenon
  <2>2. CASE ~passing[cohort[t]]
    BY <2>2, <1>0, <1>4 DEF Withdraw, Phase
  <2> QED
    BY <2>1, <2>2
<1>5. ASSUME NEW t \in Threads, EnterShared(t) PROVE LockAbs!Enter(t)
  <2>1. pc[t] = "contending" /\ pc' = [pc EXCEPT ![t] = "in"] /\ ~taken[Shared]
    BY <1>5 DEF EnterShared, Goto, Lock!Enter, Lock!MayEnter
  <2>2. \A u \in Threads : pc[u] \notin {"in", "unshare"}
    BY <2>1, <1>0 DEF IInv, SharedHasOneOwner, Owns, InsideOf
  <2> QED
    BY <2>1, <2>2, <1>3, Zenon
<1>6. ASSUME NEW t \in Threads, DecidePassing(t) \/ LeaveShared(t)
      PROVE  LockAbs!Leave(t) \/ UNCHANGED Phase
  <2>1. CASE pc[t] \in {"in", "unshare"} /\ pc' = [pc EXCEPT ![t] = "leaving"]
    BY <2>1, <1>0, Zenon DEF LockAbs!Leave, Phase
  <2>2. CASE pc[t] = "in" /\ pc' = [pc EXCEPT ![t] = "unshare"]
    BY <2>2, <1>0 DEF Phase
  <2> QED
    BY <2>1, <2>2, <1>6 DEF DecidePassing, LeaveShared, Goto
<1>7. CASE UNCHANGED vars
  BY <1>7 DEF vars, Phase
<1> QED
  BY <1>1, <1>2, <1>4, <1>5, <1>6, <1>7 DEF Next, Step, LockAbs!Next

(* cohortlock.c implements the abstract lock, for any threads, cohorts and    *)
(* MAX_PASS_COUNT, given that its ticket locks are first-in first-out locks.  *)
THEOREM Refinement ==
  ASSUME Distinct
  PROVE  Spec => LockAbs!Spec
<1>1. Init => LockAbs!Init
  BY DEF Init, LockAbs!Init, Phase
<1> QED
  BY <1>1, InitIInv, NextIInv, StepSimulates, PTL DEF Spec, LockAbs!Spec

----------------------------------------------------------------------------
(* The USB keyboard driver.  What is allocated follows the progress of probe  *)
(* and disconnect; a URB is in flight or in its handler only while everything *)
(* that handler uses is allocated.  The URB of the reports can be submitted   *)
(* only from open until close or disconnect have killed it, and while         *)
(* disconnect kills it no open succeeds.  The URB of the LEDs is submitted by *)
(* whoever finds led_urb_submitted clear, or by its own handler.              *)

CONSTANTS Leds, MaxLeaving
VARIABLES live, module, usb, registered, input, flight, entered, leaving,
          killers, newleds, leds, led_urb_submitted, shown, lost, fault

Usb == INSTANCE UsbKbd

Made == {"kbd", "input_dev", "irq", "led", "new", "cr", "leds"}

UsbTyped ==
  /\ module \in {"unloaded", "loaded", "unloading"}
  /\ usb \in {"unbound", "register", "fail1", "fail2", "bound", "kill irq",
              "killed irq", "unregister", "kill led", "free"}
  /\ input \in {"open", "closing", "closed"}
  /\ flight \in [Usb!Urbs -> BOOLEAN]
  /\ entered \in [Usb!Urbs -> Nat] /\ leaving \in [Usb!Urbs -> Nat]
  /\ killers \in [Usb!Urbs -> SUBSET {"close", "disconnect"}]

UsbMemory ==
  /\ live \subseteq Usb!Tables \cup Made
  /\ module = "unloaded" => usb = "unbound" /\ live = {}
  /\ module # "unloaded" => Usb!Tables \subseteq live
  /\ usb = "unbound" => live \subseteq Usb!Tables
  /\ usb = "fail1" => live \subseteq Usb!Tables \cup {"kbd", "input_dev"}
  /\ usb \in {"register", "bound", "kill irq", "killed irq", "unregister"} => Made \subseteq live
  /\ usb \in {"kill led", "free"} => Made \ {"input_dev"} \subseteq live /\ "input_dev" \notin live

QuietUrb(u) == flight[u] = FALSE /\ entered[u] = 0 /\ leaving[u] = 0

UsbUrbs ==
  /\ \A u \in Usb!Urbs : entered[u] \in {0, 1} /\ (flight[u] => entered[u] = 0)
  /\ input = "closed" \/ usb \in {"kill led", "free"} => QuietUrb("irq")
  /\ usb \notin {"bound", "kill irq", "killed irq", "unregister", "kill led"}
       => QuietUrb("irq") /\ QuietUrb("led")
  /\ input # "closed" => usb \in {"bound", "kill irq", "killed irq", "unregister"}
  /\ registered => usb \in {"bound", "kill irq", "killed irq"}
  /\ usb = "kill irq" => "disconnect" \in killers["irq"]
  /\ ~led_urb_submitted => ~flight["led"] /\ entered["led"] = 0

UsbInv == UsbTyped /\ UsbMemory /\ UsbUrbs /\ fault = FALSE

(* The buffers that usb_kbd_alloc_mem allocates.                              *)
LEMMA AllBuffers ==
  /\ Usb!Mem(Len(Usb!Buffers)) = {"irq", "led", "new", "cr", "leds"}
  /\ Len(Usb!Buffers) = 5
  /\ \A n \in 0..5 : Usb!Mem(n) \subseteq {"irq", "led", "new", "cr", "leds"}
<1>1. /\ Len(Usb!Buffers) = 5 /\ Usb!Buffers[1] = "irq" /\ Usb!Buffers[2] = "led"
      /\ Usb!Buffers[3] = "new" /\ Usb!Buffers[4] = "cr" /\ Usb!Buffers[5] = "leds"
  BY DEF Usb!Buffers
<1>2. \A n \in 0..5 : \A j \in 1..n : j \in {1, 2, 3, 4, 5}
  OBVIOUS
<1>3. \A j \in 1..5 : j \in {1, 2, 3, 4, 5}
  OBVIOUS
<1>4. {1, 2, 3, 4, 5} \subseteq 1..5
  OBVIOUS
<1>5. ASSUME NEW n \in 0..5 PROVE Usb!Mem(n) \subseteq {"irq", "led", "new", "cr", "leds"}
  BY <1>1, <1>2 DEF Usb!Mem
<1>6. {"irq", "led", "new", "cr", "leds"} \subseteq Usb!Mem(5)
  BY <1>1, <1>4 DEF Usb!Mem
<1>7. Usb!Mem(5) = {"irq", "led", "new", "cr", "leds"}
  BY <1>5, <1>6
<1> QED
  BY <1>1, <1>5, <1>7

(* Every step of the driver and of the cores that call it keeps the           *)
(* invariant.                                                                 *)
LEMMA UsbNextInv ==
  ASSUME UsbInv, Usb!Next
  PROVE  UsbInv'
<1>0. UsbTyped /\ UsbMemory /\ UsbUrbs /\ fault = FALSE
  BY DEF UsbInv
<1>m. Usb!Mem(Len(Usb!Buffers)) = {"irq", "led", "new", "cr", "leds"}
  BY AllBuffers
<1> USE <1>0, <1>m DEF Usb!Urbs, Usb!Tables, Made, QuietUrb
<1>1. CASE Usb!usb_kbd_init
  <2>1. UsbTyped'
    BY <1>1 DEF UsbTyped, Usb!usb_kbd_init, Usb!urbvars, Usb!ledvars
  <2>2. UsbMemory'
    BY <1>1 DEF UsbTyped, UsbMemory, Usb!usb_kbd_init, Usb!urbvars, Usb!ledvars
  <2>3. UsbUrbs'
    BY <1>1 DEF UsbTyped, UsbUrbs, Usb!usb_kbd_init, Usb!urbvars, Usb!ledvars
  <2>4. fault' = FALSE
    BY <1>1 DEF UsbTyped, UsbMemory, UsbUrbs, Usb!usb_kbd_init, Usb!urbvars, Usb!ledvars
  <2> QED
    BY <2>1, <2>2, <2>3, <2>4 DEF UsbInv
<1>2. CASE Usb!usb_kbd_exit
  <2>1. UsbTyped'
    BY <1>2 DEF UsbTyped, Usb!usb_kbd_exit, Usb!urbvars, Usb!ledvars
  <2>2. UsbMemory'
    BY <1>2 DEF UsbTyped, UsbMemory, Usb!usb_kbd_exit, Usb!urbvars, Usb!ledvars
  <2>3. UsbUrbs'
    BY <1>2 DEF UsbTyped, UsbUrbs, Usb!usb_kbd_exit, Usb!urbvars, Usb!ledvars
  <2>4. fault' = FALSE
    BY <1>2 DEF UsbTyped, UsbMemory, UsbUrbs, Usb!usb_kbd_exit, Usb!urbvars, Usb!ledvars
  <2> QED
    BY <2>1, <2>2, <2>3, <2>4 DEF UsbInv
<1>3. CASE Usb!usb_kbd_probe
  <2>1. UsbTyped'
    BY <1>3, AllBuffers DEF UsbTyped, Usb!usb_kbd_probe, Usb!urbvars
  <2>2. UsbMemory'
    BY <1>3, AllBuffers DEF UsbTyped, UsbMemory, Usb!usb_kbd_probe, Usb!urbvars
  <2>3. UsbUrbs'
    BY <1>3 DEF UsbTyped, UsbUrbs, Usb!usb_kbd_probe, Usb!urbvars
  <2>4. fault' = FALSE
    BY <1>3 DEF UsbTyped, UsbMemory, UsbUrbs, Usb!usb_kbd_probe, Usb!urbvars
  <2> QED
    BY <2>1, <2>2, <2>3, <2>4 DEF UsbInv
<1>4. CASE Usb!usb_kbd_disconnect
  <2>1. UsbTyped'
    BY <1>4 DEF UsbTyped, Usb!usb_kbd_disconnect, Usb!StartKill, Usb!ledvars
  <2>2. UsbMemory'
    BY <1>4 DEF UsbTyped, UsbMemory, Usb!usb_kbd_disconnect, Usb!StartKill, Usb!ledvars
  <2>3. UsbUrbs'
    BY <1>4 DEF UsbTyped, UsbUrbs, Usb!usb_kbd_disconnect, Usb!StartKill, Usb!ledvars
  <2>4. fault' = FALSE
    BY <1>4 DEF UsbTyped, UsbMemory, UsbUrbs, Usb!usb_kbd_disconnect, Usb!StartKill, Usb!ledvars
  <2> QED
    BY <2>1, <2>2, <2>3, <2>4 DEF UsbInv
<1>5. CASE Usb!usb_kbd_open
  <2>1. UsbTyped'
    BY <1>5 DEF UsbTyped, Usb!usb_kbd_open, Usb!Submits, Usb!Resubmitted, Usb!ledvars
  <2>2. UsbMemory'
    BY <1>5 DEF UsbTyped, UsbMemory, Usb!usb_kbd_open, Usb!Submits, Usb!Resubmitted, Usb!ledvars
  <2>3. UsbUrbs'
    BY <1>5 DEF UsbTyped, UsbUrbs, Usb!usb_kbd_open, Usb!Submits, Usb!Resubmitted, Usb!ledvars
  <2>4. fault' = FALSE
    BY <1>5 DEF UsbTyped, UsbMemory, UsbUrbs, Usb!usb_kbd_open, Usb!Submits, Usb!Resubmitted, Usb!ledvars
  <2> QED
    BY <2>1, <2>2, <2>3, <2>4 DEF UsbInv
<1>6. CASE Usb!usb_kbd_close
  <2>1. UsbTyped'
    BY <1>6 DEF UsbTyped, Usb!usb_kbd_close, Usb!Close, Usb!StartKill, Usb!ledvars
  <2>2. UsbMemory'
    BY <1>6 DEF UsbTyped, UsbMemory, Usb!usb_kbd_close, Usb!Close, Usb!StartKill, Usb!ledvars
  <2>3. UsbUrbs'
    BY <1>6 DEF UsbTyped, UsbUrbs, Usb!usb_kbd_close, Usb!Close, Usb!StartKill, Usb!ledvars
  <2>4. fault' = FALSE
    BY <1>6 DEF UsbTyped, UsbMemory, UsbUrbs, Usb!usb_kbd_close, Usb!Close, Usb!StartKill, Usb!ledvars
  <2> QED
    BY <2>1, <2>2, <2>3, <2>4 DEF UsbInv
<1>7. CASE Usb!usb_kbd_event
  <2>1. UsbTyped'
    BY <1>7 DEF UsbTyped, Usb!usb_kbd_event, Usb!SendLeds, Usb!Submits
  <2>2. UsbMemory'
    BY <1>7 DEF UsbTyped, UsbMemory, Usb!usb_kbd_event
  <2>3. UsbUrbs'
    <3>0. /\ input = "open" /\ usb \in {"bound", "kill irq", "killed irq", "unregister"}
          /\ UNCHANGED <<usb, registered, input, entered, leaving, killers>>
      BY <1>7 DEF UsbUrbs, Usb!usb_kbd_event
    <3>1. CASE UNCHANGED <<flight, led_urb_submitted>>
      BY <3>0, <3>1 DEF UsbTyped, UsbUrbs
    <3>2. ASSUME ~led_urb_submitted, NEW ok \in BOOLEAN, Usb!Submits("led", ok),
                 led_urb_submitted' = ok
          PROVE  UsbUrbs'
      <4>1. /\ flight' \in [Usb!Urbs -> BOOLEAN] /\ flight'["irq"] = flight["irq"]
            /\ flight'["led"] => ok /\ ~flight["led"] /\ entered["led"] = 0
        BY <3>2 DEF Usb!Submits, UsbTyped, UsbUrbs
      <4> QED
        BY <4>1, <3>0, <3>2 DEF UsbTyped, UsbUrbs
    <3> QED
      BY <3>1, <3>2, <1>7 DEF Usb!usb_kbd_event, Usb!SendLeds
  <2>4. fault' = FALSE
    BY <1>7 DEF UsbTyped, UsbMemory, UsbUrbs, Usb!usb_kbd_event, Usb!SendLeds, Usb!Submits, Usb!Resubmitted, Usb!Uses
  <2> QED
    BY <2>1, <2>2, <2>3, <2>4 DEF UsbInv
<1>8. ASSUME NEW u \in Usb!Urbs, Usb!Complete(u) PROVE UsbInv'
  <2>0. /\ flight[u] /\ entered[u] = 0 /\ entered'[u] = 1 /\ flight'[u] = FALSE
        /\ \A v \in Usb!Urbs \ {u} : entered'[v] = entered[v] /\ flight'[v] = flight[v]
        /\ flight' \in [Usb!Urbs -> BOOLEAN] /\ entered' \in [Usb!Urbs -> Nat]
        /\ UNCHANGED <<live, module, usb, registered, input, leaving, killers,
                       led_urb_submitted>>
    <3>1. /\ flight[u] = TRUE /\ flight' = [flight EXCEPT ![u] = FALSE]
          /\ entered' = [entered EXCEPT ![u] = @ + 1]
          /\ UNCHANGED <<live, module, usb, registered, input, leaving, killers,
                         led_urb_submitted>>
      BY <1>8, Zenon DEF UsbTyped, Usb!Complete
    <3>2. entered[u] = 0 /\ entered \in [Usb!Urbs -> Nat] /\ flight \in [Usb!Urbs -> BOOLEAN]
      BY <3>1, Zenon DEF UsbTyped, UsbUrbs
    <3>3. /\ entered'[u] = 1 /\ entered' \in [Usb!Urbs -> Nat]
          /\ \A v \in Usb!Urbs \ {u} : entered'[v] = entered[v]
      BY ONLY u \in Usb!Urbs, <3>1, <3>2
    <3>4. /\ flight'[u] = FALSE /\ flight' \in [Usb!Urbs -> BOOLEAN]
          /\ \A v \in Usb!Urbs \ {u} : flight'[v] = flight[v]
      BY ONLY u \in Usb!Urbs, <3>1, <3>2
    <3> QED
      BY <3>1, <3>2, <3>3, <3>4
  <2>1. UsbTyped'
    BY <2>0 DEF UsbTyped
  <2>2. UsbMemory'
    BY <2>0 DEF UsbMemory
  <2>3. UsbUrbs'
    <3>1. CASE u = "irq"
      BY <2>0, <3>1 DEF UsbTyped, UsbUrbs
    <3>2. CASE u = "led"
      BY <2>0, <3>2 DEF UsbTyped, UsbUrbs
    <3> QED
      BY <3>1, <3>2
  <2>4. fault' = FALSE
    BY <1>8 DEF UsbTyped, UsbMemory, UsbUrbs, Usb!Complete, Usb!Uses
  <2> QED
    BY <2>1, <2>2, <2>3, <2>4 DEF UsbInv
<1>9. CASE Usb!Register
  <2>1. UsbTyped'
    BY <1>9 DEF UsbTyped, Usb!Register, Usb!urbvars, Usb!ledvars
  <2>2. UsbMemory'
    BY <1>9 DEF UsbTyped, UsbMemory, Usb!Register, Usb!urbvars, Usb!ledvars
  <2>3. UsbUrbs'
    <3>0. /\ usb = "register" /\ UNCHANGED <<input, Usb!urbvars, led_urb_submitted>>
          /\ \/ usb' = "bound" /\ registered' = TRUE
             \/ usb' = "fail2" /\ registered' = registered
      BY <1>9 DEF Usb!Register, Usb!ledvars
    <3>1. CASE usb' = "bound" /\ registered' = TRUE
      BY <3>0, <3>1 DEF UsbTyped, UsbUrbs, Usb!urbvars
    <3>2. CASE usb' = "fail2" /\ registered' = registered
      <4>1. registered = FALSE \/ ~registered
        BY <3>0 DEF UsbUrbs
      <4> QED
        BY <3>0, <3>2, <4>1 DEF UsbTyped, UsbUrbs, Usb!urbvars
    <3> QED
      BY <3>0, <3>1, <3>2
  <2>4. fault' = FALSE
    BY <1>9 DEF UsbTyped, UsbMemory, UsbUrbs, Usb!Register, Usb!urbvars, Usb!ledvars
  <2> QED
    BY <2>1, <2>2, <2>3, <2>4 DEF UsbInv
<1>10. CASE Usb!Fail
  <2>1. UsbTyped'
    BY <1>10 DEF UsbTyped, Usb!Fail, Usb!usb_kbd_free_mem, Usb!urbvars, Usb!ledvars
  <2>2. UsbMemory'
    BY <1>10 DEF UsbTyped, UsbMemory, Usb!Fail, Usb!usb_kbd_free_mem, Usb!urbvars, Usb!ledvars
  <2>3. UsbUrbs'
    <3>0. /\ usb \in {"fail1", "fail2"} /\ usb' \in {"fail1", "unbound"}
          /\ UNCHANGED <<registered, input, Usb!urbvars, led_urb_submitted>>
      BY <1>10 DEF Usb!Fail, Usb!ledvars
    <3> QED
      BY <3>0 DEF UsbTyped, UsbUrbs, Usb!urbvars
  <2>4. fault' = FALSE
    BY <1>10 DEF UsbTyped, UsbMemory, UsbUrbs, Usb!Fail, Usb!usb_kbd_free_mem, Usb!urbvars, Usb!ledvars
  <2> QED
    BY <2>1, <2>2, <2>3, <2>4 DEF UsbInv
<1>21. CASE Usb!KilledIrq
  <2>1. UsbTyped'
    BY <1>21 DEF UsbTyped, Usb!KilledIrq, Usb!Killed, Usb!ledvars
  <2>2. UsbMemory'
    BY <1>21 DEF UsbTyped, UsbMemory, Usb!KilledIrq, Usb!Killed, Usb!ledvars
  <2>3. UsbUrbs'
    BY <1>21 DEF UsbTyped, UsbUrbs, Usb!KilledIrq, Usb!Killed, Usb!ledvars
  <2>4. fault' = FALSE
    BY <1>21 DEF UsbTyped, UsbMemory, UsbUrbs, Usb!KilledIrq, Usb!Killed, Usb!ledvars
  <2> QED
    BY <2>1, <2>2, <2>3, <2>4 DEF UsbInv
<1>11. CASE Usb!Unregister
  <2>1. UsbTyped'
    BY <1>11 DEF UsbTyped, Usb!Unregister, Usb!urbvars, Usb!ledvars
  <2>2. UsbMemory'
    BY <1>11 DEF UsbTyped, UsbMemory, Usb!Unregister, Usb!urbvars, Usb!ledvars
  <2>3. UsbUrbs'
    BY <1>11 DEF UsbTyped, UsbUrbs, Usb!Unregister, Usb!urbvars, Usb!ledvars
  <2>4. fault' = FALSE
    BY <1>11 DEF UsbTyped, UsbMemory, UsbUrbs, Usb!Unregister, Usb!urbvars, Usb!ledvars
  <2> QED
    BY <2>1, <2>2, <2>3, <2>4 DEF UsbInv
<1>12. CASE Usb!UnregisterCloses
  <2>1. UsbTyped'
    BY <1>12 DEF UsbTyped, Usb!UnregisterCloses, Usb!Close, Usb!StartKill, Usb!ledvars
  <2>2. UsbMemory'
    BY <1>12 DEF UsbTyped, UsbMemory, Usb!UnregisterCloses, Usb!Close, Usb!StartKill, Usb!ledvars
  <2>3. UsbUrbs'
    BY <1>12 DEF UsbTyped, UsbUrbs, Usb!UnregisterCloses, Usb!Close, Usb!StartKill, Usb!ledvars
  <2>4. fault' = FALSE
    BY <1>12 DEF UsbTyped, UsbMemory, UsbUrbs, Usb!UnregisterCloses, Usb!Close, Usb!StartKill, Usb!ledvars
  <2> QED
    BY <2>1, <2>2, <2>3, <2>4 DEF UsbInv
<1>13. CASE Usb!Unregistered
  <2>1. UsbTyped'
    BY <1>13 DEF UsbTyped, Usb!Unregistered, Usb!StartKill, Usb!ledvars
  <2>2. UsbMemory'
    BY <1>13 DEF UsbTyped, UsbMemory, Usb!Unregistered, Usb!StartKill, Usb!ledvars
  <2>3. UsbUrbs'
    BY <1>13 DEF UsbTyped, UsbUrbs, Usb!Unregistered, Usb!StartKill, Usb!ledvars
  <2>4. fault' = FALSE
    BY <1>13 DEF UsbTyped, UsbMemory, UsbUrbs, Usb!Unregistered, Usb!StartKill, Usb!ledvars
  <2> QED
    BY <2>1, <2>2, <2>3, <2>4 DEF UsbInv
<1>14. CASE Usb!KilledLed
  <2>1. UsbTyped'
    BY <1>14 DEF UsbTyped, Usb!KilledLed, Usb!Killed, Usb!ledvars
  <2>2. UsbMemory'
    BY <1>14 DEF UsbTyped, UsbMemory, Usb!KilledLed, Usb!Killed, Usb!ledvars
  <2>3. UsbUrbs'
    BY <1>14 DEF UsbTyped, UsbUrbs, Usb!KilledLed, Usb!Killed, Usb!ledvars
  <2>4. fault' = FALSE
    BY <1>14 DEF UsbTyped, UsbMemory, UsbUrbs, Usb!KilledLed, Usb!Killed, Usb!ledvars
  <2> QED
    BY <2>1, <2>2, <2>3, <2>4 DEF UsbInv
<1>15. CASE Usb!Free
  <2>1. UsbTyped'
    BY <1>15 DEF UsbTyped, Usb!Free, Usb!Uses, Usb!usb_kbd_free_mem, Usb!urbvars, Usb!ledvars
  <2>2. UsbMemory'
    BY <1>15 DEF UsbTyped, UsbMemory, Usb!Free, Usb!Uses, Usb!usb_kbd_free_mem, Usb!urbvars, Usb!ledvars
  <2>3. UsbUrbs'
    BY <1>15 DEF UsbTyped, UsbUrbs, Usb!Free, Usb!Uses, Usb!usb_kbd_free_mem, Usb!urbvars, Usb!ledvars
  <2>4. fault' = FALSE
    BY <1>15 DEF UsbTyped, UsbMemory, UsbUrbs, Usb!Free, Usb!Uses, Usb!usb_kbd_free_mem, Usb!urbvars, Usb!ledvars
  <2> QED
    BY <2>1, <2>2, <2>3, <2>4 DEF UsbInv
<1>16. CASE Usb!Deregistered
  <2>1. UsbTyped'
    BY <1>16 DEF UsbTyped, Usb!Deregistered, Usb!urbvars, Usb!ledvars
  <2>2. UsbMemory'
    BY <1>16 DEF UsbTyped, UsbMemory, Usb!Deregistered, Usb!urbvars, Usb!ledvars
  <2>3. UsbUrbs'
    BY <1>16 DEF UsbTyped, UsbUrbs, Usb!Deregistered, Usb!urbvars, Usb!ledvars
  <2>4. fault' = FALSE
    BY <1>16 DEF UsbTyped, UsbMemory, UsbUrbs, Usb!Deregistered, Usb!urbvars, Usb!ledvars
  <2> QED
    BY <2>1, <2>2, <2>3, <2>4 DEF UsbInv
<1>17. CASE Usb!Closed
  <2>1. UsbTyped'
    BY <1>17 DEF UsbTyped, Usb!Closed, Usb!Killed, Usb!Uses, Usb!ledvars
  <2>2. UsbMemory'
    BY <1>17 DEF UsbTyped, UsbMemory, Usb!Closed, Usb!Killed, Usb!Uses, Usb!ledvars
  <2>3. UsbUrbs'
    BY <1>17 DEF UsbTyped, UsbUrbs, Usb!Closed, Usb!Killed, Usb!Uses, Usb!ledvars
  <2>4. fault' = FALSE
    BY <1>17 DEF UsbTyped, UsbMemory, UsbUrbs, Usb!Closed, Usb!Killed, Usb!Uses, Usb!ledvars
  <2> QED
    BY <2>1, <2>2, <2>3, <2>4 DEF UsbInv
<1>18. CASE Usb!usb_kbd_irq
  <2>0. /\ entered["irq"] = 1 /\ entered'["irq"] = 0 /\ entered'["led"] = entered["led"]
        /\ leaving'["irq"] \in Nat /\ leaving'["led"] = leaving["led"]
        /\ flight["irq"] = FALSE /\ input # "closed"
        /\ usb \in {"bound", "kill irq", "killed irq", "unregister"}
        /\ entered' \in [Usb!Urbs -> Nat] /\ leaving' \in [Usb!Urbs -> Nat]
        /\ UNCHANGED <<live, module, usb, registered, input, killers, led_urb_submitted>>
    <3>1. /\ entered["irq"] > 0 /\ entered' = [entered EXCEPT !["irq"] = @ - 1]
          /\ leaving' = [leaving EXCEPT !["irq"] = @ + 1]
          /\ UNCHANGED <<live, module, usb, registered, input, killers, led_urb_submitted>>
      BY <1>18, Zenon DEF Usb!usb_kbd_irq, Usb!Acted
    <3>2. entered \in [Usb!Urbs -> Nat] /\ leaving \in [Usb!Urbs -> Nat]
      BY DEF UsbTyped
    <3>3. entered["irq"] = 1 /\ flight["irq"] = FALSE
      <4>1. entered["irq"] \in {0, 1} /\ entered["irq"] # 0
        <5>1. entered["irq"] \in {0, 1}
          BY Zenon DEF UsbUrbs
        <5>2. entered["irq"] # 0
          BY ONLY <3>1, <5>1
        <5> QED
          BY <5>1, <5>2
      <4>2. flight["irq"] \in BOOLEAN /\ ~flight["irq"]
        BY <4>1 DEF UsbTyped, UsbUrbs
      <4> QED
        BY <4>1, <4>2
    <3>4. input # "closed" /\ usb \in {"bound", "kill irq", "killed irq", "unregister"}
      <4>1. entered["irq"] # 0
        BY <3>3
      <4> QED
        BY <4>1, Zenon DEF UsbTyped, UsbUrbs
    <3>5. /\ entered'["irq"] = 0 /\ entered'["led"] = entered["led"]
          /\ entered' \in [Usb!Urbs -> Nat]
      BY ONLY <3>1, <3>2, <3>3 DEF Usb!Urbs
    <3>6. /\ leaving'["irq"] \in Nat /\ leaving'["led"] = leaving["led"]
          /\ leaving' \in [Usb!Urbs -> Nat]
      BY ONLY <3>1, <3>2 DEF Usb!Urbs
    <3> QED
      BY <3>1, <3>3, <3>4, <3>5, <3>6
  <2>5. /\ flight' \in [Usb!Urbs -> BOOLEAN] /\ flight'["led"] = flight["led"]
    <3>1. CASE UNCHANGED flight
      BY <3>1 DEF UsbTyped
    <3>2. CASE flight' = [flight EXCEPT !["irq"] = TRUE]
      BY <3>2 DEF UsbTyped
    <3> QED
      BY <1>18, <3>1, <3>2, Zenon DEF Usb!usb_kbd_irq, Usb!Submits
  <2>1. UsbTyped'
    BY <2>0, <2>5 DEF UsbTyped
  <2>2. UsbMemory'
    BY <2>0 DEF UsbMemory
  <2>3. UsbUrbs'
    BY <2>0, <2>5 DEF UsbTyped, UsbUrbs
  <2>4. fault' = FALSE
    <3>1. {"kbd", "irq", "new", "input_dev", "usb_kbd_keycode"} \subseteq live
      BY <2>0 DEF UsbTyped, UsbMemory
    <3> QED
      BY <1>18, <2>0, <3>1, Zenon DEF Usb!usb_kbd_irq, Usb!Resubmitted
  <2> QED
    BY <2>1, <2>2, <2>3, <2>4 DEF UsbInv
<1>19. CASE Usb!usb_kbd_led
  <2>0. /\ entered["led"] = 1 /\ entered'["led"] = 0 /\ entered'["irq"] = entered["irq"]
        /\ leaving'["led"] \in Nat /\ leaving'["irq"] = leaving["irq"]
        /\ flight["led"] = FALSE
        /\ usb \in {"bound", "kill irq", "killed irq", "unregister", "kill led"}
        /\ entered' \in [Usb!Urbs -> Nat] /\ leaving' \in [Usb!Urbs -> Nat]
        /\ UNCHANGED <<live, module, usb, registered, input, killers>>
    <3>1. /\ entered["led"] > 0 /\ entered' = [entered EXCEPT !["led"] = @ - 1]
          /\ leaving' = [leaving EXCEPT !["led"] = @ + 1]
          /\ UNCHANGED <<live, module, usb, registered, input, killers>>
      BY <1>19, Zenon DEF Usb!usb_kbd_led, Usb!Acted
    <3>2. entered \in [Usb!Urbs -> Nat] /\ leaving \in [Usb!Urbs -> Nat]
      BY DEF UsbTyped
    <3>3. entered["led"] = 1 /\ flight["led"] = FALSE
      <4>1. entered["led"] \in {0, 1} /\ entered["led"] # 0
        <5>1. entered["led"] \in {0, 1}
          BY Zenon DEF UsbUrbs
        <5>2. entered["led"] # 0
          BY ONLY <3>1, <5>1
        <5> QED
          BY <5>1, <5>2
      <4>2. flight["led"] \in BOOLEAN /\ ~flight["led"]
        BY <4>1 DEF UsbTyped, UsbUrbs
      <4> QED
        BY <4>1, <4>2
    <3>4. usb \in {"bound", "kill irq", "killed irq", "unregister", "kill led"}
      <4>1. entered["led"] # 0
        BY <3>3
      <4> QED
        BY <4>1, Zenon DEF UsbTyped, UsbUrbs
    <3>5. /\ entered'["led"] = 0 /\ entered'["irq"] = entered["irq"]
          /\ entered' \in [Usb!Urbs -> Nat]
      BY ONLY <3>1, <3>2, <3>3 DEF Usb!Urbs
    <3>6. /\ leaving'["led"] \in Nat /\ leaving'["irq"] = leaving["irq"]
          /\ leaving' \in [Usb!Urbs -> Nat]
      BY ONLY <3>1, <3>2 DEF Usb!Urbs
    <3> QED
      BY <3>1, <3>3, <3>4, <3>5, <3>6
  <2>6. {"kbd", "led", "leds"} \subseteq live
    BY <2>0 DEF UsbTyped, UsbMemory
  <2>5. /\ flight' \in [Usb!Urbs -> BOOLEAN] /\ flight'["irq"] = flight["irq"]
        /\ flight'["led"] = led_urb_submitted' /\ fault' = FALSE
    <3>1. CASE led_urb_submitted' = FALSE /\ UNCHANGED flight /\ Usb!Uses({"kbd", "leds"})
      BY <3>1, <2>0, <2>6 DEF UsbTyped, Usb!Uses
    <3>2. ASSUME NEW ok \in BOOLEAN, Usb!SendLeds(ok)
          PROVE  /\ flight' \in [Usb!Urbs -> BOOLEAN] /\ flight'["irq"] = flight["irq"]
                 /\ flight'["led"] = led_urb_submitted' /\ fault' = FALSE
      <4>1. CASE ok = TRUE
        BY <3>2, <4>1, <2>0, <2>6 DEF UsbTyped, Usb!SendLeds, Usb!Submits, Usb!Resubmitted
      <4>2. CASE ok = FALSE
        BY <3>2, <4>2, <2>0, <2>6 DEF UsbTyped, Usb!SendLeds, Usb!Submits, Usb!Resubmitted
      <4> QED
        BY <4>1, <4>2
    <3> QED
      BY <1>19, <3>1, <3>2 DEF Usb!usb_kbd_led
  <2>1. UsbTyped'
    BY <2>0, <2>5 DEF UsbTyped
  <2>2. UsbMemory'
    BY <2>0 DEF UsbMemory
  <2>3. UsbUrbs'
    BY <2>0, <2>5 DEF UsbTyped, UsbUrbs
  <2>4. fault' = FALSE
    BY <2>5
  <2> QED
    BY <2>1, <2>2, <2>3, <2>4 DEF UsbInv
<1>20. ASSUME NEW u \in Usb!Urbs, Usb!Return(u) PROVE UsbInv'
  <2>0. /\ leaving[u] > 0 /\ leaving' \in [Usb!Urbs -> Nat]
        /\ \A v \in Usb!Urbs : leaving[v] = 0 => leaving'[v] = 0
        /\ UNCHANGED <<live, module, usb, registered, input, flight, entered, killers,
                       led_urb_submitted, fault>>
    <3>1. /\ leaving[u] > 0 /\ leaving' = [leaving EXCEPT ![u] = @ - 1]
          /\ UNCHANGED <<live, module, usb, registered, input, flight, entered, killers,
                         led_urb_submitted, fault>>
      BY <1>20, Zenon DEF Usb!Return, Usb!ledvars
    <3>2. leaving \in [Usb!Urbs -> Nat]
      BY DEF UsbTyped
    <3>3. /\ leaving' \in [Usb!Urbs -> Nat]
          /\ \A v \in Usb!Urbs : leaving[v] = 0 => leaving'[v] = 0
      BY ONLY u \in Usb!Urbs, <3>1, <3>2
    <3> QED
      BY <3>1, <3>3
  <2>1. UsbTyped'
    BY <2>0 DEF UsbTyped
  <2>2. UsbMemory'
    BY <2>0 DEF UsbMemory
  <2>3. UsbUrbs'
    BY <2>0 DEF UsbTyped, UsbUrbs
  <2>4. fault' = FALSE
    BY <2>0
  <2> QED
    BY <2>1, <2>2, <2>3, <2>4 DEF UsbInv
<1> QED
  BY <1>1, <1>2, <1>3, <1>4, <1>5, <1>6, <1>7, <1>8, <1>9, <1>10, <1>11, <1>12, <1>13, <1>14, <1>15, <1>16, <1>17, <1>18, <1>19, <1>20, <1>21
     DEF Usb!Next, Usb!Free_to_begin, Usb!Goes_on, Usb!Completes

(* Before the module is loaded the invariant holds.                           *)
LEMMA UsbInitInv ==
  ASSUME Usb!Init
  PROVE  UsbInv
<1> USE DEF Usb!Init, Usb!Urbs, Usb!Tables, Made, QuietUrb
<1>1. UsbTyped
  BY DEF UsbTyped
<1>2. UsbMemory
  BY DEF UsbMemory
<1>3. UsbUrbs
  BY DEF UsbUrbs
<1> QED
  BY <1>1, <1>2, <1>3 DEF UsbInv

(* No handler uses freed memory, and an unbound device leaves nothing behind. *)
LEMMA UsbInvSafe ==
  ASSUME UsbInv
  PROVE  /\ fault = FALSE
         /\ usb = "unbound" => Usb!Quiet
         /\ module = "unloaded" => live = {}
BY DEF UsbInv, UsbTyped, UsbMemory, UsbUrbs, QuietUrb, Usb!Quiet, Usb!Urbs

\* what the driver promises
UsbSafe == /\ fault = FALSE
           /\ usb = "unbound" => Usb!Quiet
           /\ module = "unloaded" => live = {}

(* usbkbd_verified.c: no handler uses memory that was freed, no URB is        *)
(* submitted while it is in flight, and a device that is not bound leaves     *)
(* neither memory nor a running handler behind, whatever the LED values and   *)
(* the number of handlers that have yet to return.                            *)
THEOREM UsbDriverSafe == Usb!Init /\ [][Usb!Next]_(Usb!vars) => []UsbSafe
<1>1. UsbInv /\ UNCHANGED Usb!vars => UsbInv'
  <2> SUFFICES ASSUME UsbInv, UNCHANGED Usb!vars PROVE UsbInv'
    OBVIOUS
  <2>1. UNCHANGED <<live, module, usb, registered, input, flight, entered, leaving,
                    killers, led_urb_submitted, fault>>
    BY DEF Usb!vars
  <2>2. UsbTyped'
    BY <2>1 DEF UsbInv, UsbTyped
  <2>3. UsbMemory'
    BY <2>1 DEF UsbInv, UsbMemory
  <2>4. UsbUrbs'
    BY <2>1 DEF UsbInv, UsbUrbs, QuietUrb
  <2> QED
    BY <2>1, <2>2, <2>3, <2>4 DEF UsbInv
<1>2. UsbInv /\ [Usb!Next]_(Usb!vars) => UsbInv'
  BY <1>1, UsbNextInv
<1>3. Usb!Init => UsbInv
  BY UsbInitInv
<1>4. UsbInv => UsbSafe
  BY UsbInvSafe DEF UsbSafe
<1> QED
  BY <1>2, <1>3, <1>4, PTL

----------------------------------------------------------------------------
(* prodcons.c.  The queue holds the messages from received on: those that     *)
(* were enqueued and not dequeued.  The semaphore counts those of them that   *)
(* the producer has announced and no consumer has claimed.                    *)

CONSTANTS Messages, Items, Window, Echoes, Rounds
VARIABLES mutex, sema, pqueue, disposed, sent, received, ppc, pfault,
          locked, done, d, tpc, producerNext, consumerNext, buffer, em, message,
          k, outgoing, bar, i, N, m, mpc

Wait == INSTANCE WaitingPrograms WITH queue <- pqueue, at <- ppc, fault <- pfault,
                                      pc <- mpc

Enqueued == IF ppc["producer"] = "release" THEN sent + 1 ELSE sent
Claimed == IF ppc["consumer"] \in {"lock", "dequeue"} THEN 1 ELSE 0
Critical == (IF ppc["producer"] = "enqueue" THEN 1 ELSE 0)
              + (IF ppc["consumer"] = "dequeue" THEN 1 ELSE 0)

ChannelTyped ==
  /\ mutex \in Nat /\ sema \in Nat /\ sent \in Nat /\ received \in Nat
  /\ pqueue \in Seq(Nat)
  /\ ppc \in [Wait!Parties -> {"lock", "enqueue", "release", "done",
                          "acquire", "dequeue", "dispose"}]
  /\ ppc["producer"] \in {"lock", "enqueue", "release", "done"}
  /\ ppc["consumer"] \in {"acquire", "lock", "dequeue", "dispose", "done"}

\* at most one thread is between mutex_acquire and mutex_release, and every
\* message that was announced is counted, claimed or received
ChannelCounts ==
  /\ mutex + Critical = 1
  /\ sema + Claimed + received = sent
  /\ IF ppc["producer"] = "done" THEN sent = Messages ELSE sent < Messages
  /\ IF ppc["consumer"] \in {"dispose", "done"} THEN received = Messages
                                                ELSE received < Messages
  /\ disposed => ppc["consumer"] = "done"

ChannelContents ==
  /\ Len(pqueue) + received = Enqueued
  /\ \A j \in 1..Len(pqueue) : pqueue[j] = received + j - 1

ChannelInv == ChannelTyped /\ ChannelCounts /\ ChannelContents /\ pfault = FALSE

(* channel_dispose comes after the last message was received, and the sender  *)
(* has announced that message by then: it does not use the channel again.     *)
LEMMA NotDisposed ==
  ASSUME Messages \in Nat \ {0}, ChannelInv,
         ppc["producer"] # "done" \/ ppc["consumer"] # "done"
  PROVE  ~disposed
BY DEF ChannelInv, ChannelTyped, ChannelCounts, Claimed

(* A step of one of the two threads leaves the other where it is.             *)
LEMMA ChannelGoes ==
  ASSUME ChannelTyped, NEW t \in Wait!Parties, NEW from, NEW to, Wait!Goes(t, from, to),
         IF t = "producer" THEN to \in {"lock", "enqueue", "release", "done"}
                           ELSE to \in {"acquire", "lock", "dequeue", "dispose", "done"}
  PROVE  /\ ppc[t] = from /\ ppc'[t] = to
         /\ \A u \in Wait!Parties : u # t => ppc'[u] = ppc[u]
         /\ ppc' \in [Wait!Parties -> {"lock", "enqueue", "release", "done",
                                       "acquire", "dequeue", "dispose"}]
         /\ ppc'["producer"] \in {"lock", "enqueue", "release", "done"}
         /\ ppc'["consumer"] \in {"acquire", "lock", "dequeue", "dispose", "done"}
BY DEF Wait!Goes, ChannelTyped, Wait!Parties

(* Every step of the producer and of the consumer keeps the invariant of the  *)
(* channel.                                                                   *)
LEMMA ChannelNextInv ==
  ASSUME Messages \in Nat \ {0}, ChannelInv, Wait!sends \/ Wait!main_term_scope
  PROVE  ChannelInv'
<1>0. /\ "producer" \in Wait!Parties /\ "consumer" \in Wait!Parties
      /\ ChannelTyped /\ ChannelCounts /\ ChannelContents /\ Messages \in Nat \ {0}
  BY DEF Wait!Parties, ChannelInv
<1>1. CASE Wait!mutex_acquire("producer", "lock", "enqueue")
  <2>1. Wait!Goes("producer", "lock", "enqueue")
    BY <1>1 DEF Wait!mutex_acquire
  <2>2. /\ ppc["producer"] = "lock" /\ ppc'["producer"] = "enqueue"
        /\ ppc'["consumer"] = ppc["consumer"]
    BY <2>1, <1>0, ChannelGoes
  <2>3. ~disposed
    BY <2>2, NotDisposed
  <2>4. /\ mutex > 0 /\ mutex' = mutex - 1 /\ pfault' = FALSE
        /\ UNCHANGED <<sema, pqueue, disposed, sent, received>>
    BY <1>1, <2>3 DEF Wait!mutex_acquire, Wait!Uses, ChannelInv
  <2>5. ChannelTyped'
    BY <2>1, <2>4, <1>0, ChannelGoes DEF ChannelTyped
  <2>6. ChannelCounts'
    BY <2>2, <2>4, <1>0 DEF ChannelTyped, ChannelCounts, Claimed, Critical
  <2>7. ChannelContents'
    BY <2>2, <2>4, <1>0 DEF ChannelTyped, ChannelContents, Enqueued
  <2> QED
    BY <2>4, <2>5, <2>6, <2>7 DEF ChannelInv
<1>2. CASE Wait!Enqueue
  <2>1. Wait!Goes("producer", "enqueue", "release")
    BY <1>2 DEF Wait!Enqueue
  <2>2. /\ ppc["producer"] = "enqueue" /\ ppc'["producer"] = "release"
        /\ ppc'["consumer"] = ppc["consumer"]
    BY <2>1, <1>0, ChannelGoes
  <2>3. ~disposed
    BY <2>2, NotDisposed
  <2>4. /\ pqueue' = Append(pqueue, sent) /\ mutex' = mutex + 1 /\ pfault' = FALSE
        /\ UNCHANGED <<sema, disposed, sent, received>>
    BY <1>2, <2>3 DEF Wait!Enqueue, Wait!Uses, ChannelInv
  <2>5. ChannelTyped'
    BY <2>1, <2>4, <1>0, ChannelGoes DEF ChannelTyped
  <2>6. ChannelCounts'
    BY <2>2, <2>4, <1>0 DEF ChannelTyped, ChannelCounts, Claimed, Critical
  <2>7. ChannelContents'
    <3>1. /\ Len(pqueue') = Len(pqueue) + 1
          /\ \A j \in 1..Len(pqueue) : pqueue'[j] = pqueue[j]
          /\ pqueue'[Len(pqueue) + 1] = sent
      BY <2>4, <1>0, AppendProperties DEF ChannelTyped
    <3> QED
      BY <3>1, <2>2, <2>4, <1>0 DEF ChannelTyped, ChannelContents, Enqueued
  <2> QED
    BY <2>4, <2>5, <2>6, <2>7 DEF ChannelInv
<1>3. CASE Wait!Release
  <2>1. Wait!Goes("producer", "release", (IF sent + 1 < Messages THEN "lock" ELSE "done"))
    BY <1>3 DEF Wait!Release
  <2>2. /\ ppc["producer"] = "release" /\ ppc'["producer"] = (IF sent + 1 < Messages THEN "lock" ELSE "done")
        /\ ppc'["consumer"] = ppc["consumer"]
    BY <2>1, <1>0, ChannelGoes
  <2>3. ~disposed
    BY <2>2, NotDisposed
  <2>4. /\ sema' = sema + 1 /\ sent' = sent + 1 /\ pfault' = FALSE
        /\ UNCHANGED <<mutex, pqueue, disposed, received>>
    BY <1>3, <2>3 DEF Wait!Release, Wait!Uses, ChannelInv
  <2>5. ChannelTyped'
    BY <2>1, <2>4, <1>0, ChannelGoes DEF ChannelTyped
  <2>6. ChannelCounts'
    BY <2>2, <2>4, <1>0 DEF ChannelTyped, ChannelCounts, Claimed, Critical
  <2>7. ChannelContents'
    BY <2>2, <2>4, <1>0 DEF ChannelTyped, ChannelContents, Enqueued
  <2> QED
    BY <2>4, <2>5, <2>6, <2>7 DEF ChannelInv
<1>4. CASE Wait!sema_acquire
  <2>1. Wait!Goes("consumer", "acquire", "lock")
    BY <1>4 DEF Wait!sema_acquire
  <2>2. /\ ppc["consumer"] = "acquire" /\ ppc'["consumer"] = "lock"
        /\ ppc'["producer"] = ppc["producer"]
    BY <2>1, <1>0, ChannelGoes
  <2>3. ~disposed
    BY <2>2, NotDisposed
  <2>4. /\ sema > 0 /\ sema' = sema - 1 /\ pfault' = FALSE
        /\ UNCHANGED <<mutex, pqueue, disposed, sent, received>>
    BY <1>4, <2>3 DEF Wait!sema_acquire, Wait!Uses, ChannelInv
  <2>5. ChannelTyped'
    BY <2>1, <2>4, <1>0, ChannelGoes DEF ChannelTyped
  <2>6. ChannelCounts'
    BY <2>2, <2>4, <1>0 DEF ChannelTyped, ChannelCounts, Claimed, Critical
  <2>7. ChannelContents'
    BY <2>2, <2>4, <1>0 DEF ChannelTyped, ChannelContents, Enqueued
  <2> QED
    BY <2>4, <2>5, <2>6, <2>7 DEF ChannelInv
<1>5. CASE Wait!mutex_acquire("consumer", "lock", "dequeue")
  <2>1. Wait!Goes("consumer", "lock", "dequeue")
    BY <1>5 DEF Wait!mutex_acquire
  <2>2. /\ ppc["consumer"] = "lock" /\ ppc'["consumer"] = "dequeue"
        /\ ppc'["producer"] = ppc["producer"]
    BY <2>1, <1>0, ChannelGoes
  <2>3. ~disposed
    BY <2>2, NotDisposed
  <2>4. /\ mutex > 0 /\ mutex' = mutex - 1 /\ pfault' = FALSE
        /\ UNCHANGED <<sema, pqueue, disposed, sent, received>>
    BY <1>5, <2>3 DEF Wait!mutex_acquire, Wait!Uses, ChannelInv
  <2>5. ChannelTyped'
    BY <2>1, <2>4, <1>0, ChannelGoes DEF ChannelTyped
  <2>6. ChannelCounts'
    BY <2>2, <2>4, <1>0 DEF ChannelTyped, ChannelCounts, Claimed, Critical
  <2>7. ChannelContents'
    BY <2>2, <2>4, <1>0 DEF ChannelTyped, ChannelContents, Enqueued
  <2> QED
    BY <2>4, <2>5, <2>6, <2>7 DEF ChannelInv
<1>6. CASE Wait!Dequeue
  <2>1. Wait!Goes("consumer", "dequeue", (IF received + 1 < Messages THEN "acquire" ELSE "dispose"))
    BY <1>6 DEF Wait!Dequeue
  <2>2. /\ ppc["consumer"] = "dequeue" /\ ppc'["consumer"] = (IF received + 1 < Messages THEN "acquire" ELSE "dispose")
        /\ ppc'["producer"] = ppc["producer"]
    BY <2>1, <1>0, ChannelGoes
  <2>3. ~disposed
    BY <2>2, NotDisposed
  <2>8. Len(pqueue) > 0 /\ pqueue # <<>> /\ Head(pqueue) = received
    <3>1. Len(pqueue) > 0 /\ pqueue # <<>>
      BY <2>2, <1>0 DEF ChannelTyped, ChannelCounts, ChannelContents, Enqueued, Claimed
    <3>2. Len(pqueue) \in Nat /\ received \in Nat
      BY <1>0 DEF ChannelTyped
    <3>3. pqueue[1] = received + 1 - 1
      BY <3>1, <3>2, <1>0 DEF ChannelContents
    <3> QED
      BY <3>1, <3>2, <3>3, <1>0 DEF ChannelTyped
  <2>4. /\ pqueue' = Tail(pqueue) /\ pfault' = FALSE
        /\ mutex' = mutex + 1 /\ received' = received + 1
        /\ UNCHANGED <<sema, disposed, sent>>
    BY <1>6, <2>3, <2>8 DEF Wait!Dequeue, Wait!Uses, ChannelInv
  <2>9. /\ pqueue' \in Seq(Nat) /\ Len(pqueue') = Len(pqueue) - 1
        /\ \A j \in 1..Len(pqueue') : pqueue'[j] = pqueue[j + 1]
    BY <2>4, <2>8, <1>0, HeadTailProperties DEF ChannelTyped
  <2>5. ChannelTyped'
    BY <2>1, <2>4, <2>9, <1>0, ChannelGoes DEF ChannelTyped
  <2>6. ChannelCounts'
    BY <2>2, <2>4, <1>0 DEF ChannelTyped, ChannelCounts, Claimed, Critical
  <2>7. ChannelContents'
    <3>1. Len(pqueue) \in Nat /\ received \in Nat /\ sent \in Nat
      BY <1>0 DEF ChannelTyped
    <3>2. ASSUME NEW j \in 1..Len(pqueue') PROVE pqueue'[j] = received' + j - 1
      <4>1. j + 1 \in 1..Len(pqueue)
        BY <2>9, <3>1
      <4>2. pqueue[j + 1] = received + (j + 1) - 1
        BY <4>1, <1>0 DEF ChannelContents
      <4> QED
        BY <4>2, <2>4, <2>9, <3>1
    <3>3. Len(pqueue') + received' = Enqueued'
      BY <3>1, <2>2, <2>4, <2>9, <1>0 DEF ChannelContents, Enqueued
    <3> QED
      BY <3>2, <3>3 DEF ChannelContents
  <2> QED
    BY <2>4, <2>5, <2>6, <2>7 DEF ChannelInv
<1>7. CASE Wait!channel_dispose
  <2>1. Wait!Goes("consumer", "dispose", "done")
    BY <1>7 DEF Wait!channel_dispose
  <2>2. /\ ppc["consumer"] = "dispose" /\ ppc'["consumer"] = "done"
        /\ ppc'["producer"] = ppc["producer"]
    BY <2>1, <1>0, ChannelGoes
  <2>3. ~disposed
    BY <2>2, NotDisposed
  <2>4. /\ disposed' = TRUE /\ pfault' = FALSE
        /\ UNCHANGED <<mutex, sema, pqueue, sent, received>>
    BY <1>7, <2>3 DEF Wait!channel_dispose, Wait!Uses, ChannelInv
  <2>5. ChannelTyped'
    BY <2>1, <2>4, <1>0, ChannelGoes DEF ChannelTyped
  <2>6. ChannelCounts'
    BY <2>2, <2>4, <1>0 DEF ChannelTyped, ChannelCounts, Claimed, Critical
  <2>7. ChannelContents'
    BY <2>2, <2>4, <1>0 DEF ChannelTyped, ChannelContents, Enqueued
  <2> QED
    BY <2>4, <2>5, <2>6, <2>7 DEF ChannelInv
<1> QED
  BY <1>1, <1>2, <1>3, <1>4, <1>5, <1>6, <1>7 DEF Wait!sends, Wait!main_term_scope

(* create_channel makes an empty channel.                                     *)
LEMMA ChannelInitInv ==
  ASSUME Messages \in Nat \ {0}, Wait!ProdconsInit
  PROVE  ChannelInv
BY DEF Wait!ProdconsInit, Wait!Parties, ChannelInv, ChannelTyped,
   ChannelCounts, ChannelContents, Enqueued, Claimed, Critical

(* prodcons.c: the consumer receives the messages in the order in which they  *)
(* were sent, never finds the queue empty, and disposes of a channel that the *)
(* producer has done with, for any number of messages.                        *)
THEOREM ChannelSafe ==
  ASSUME Messages \in Nat \ {0}
  PROVE  Wait!ProdconsInit /\ [][Wait!sends \/ Wait!main_term_scope]_(Wait!prodconsvars)
           => [](pfault = FALSE)
<1>1. ChannelInv /\ UNCHANGED Wait!prodconsvars => ChannelInv'
  BY DEF ChannelInv, ChannelTyped, ChannelCounts, ChannelContents, Enqueued, Claimed,
         Critical, Wait!prodconsvars
<1>2. ChannelInv /\ [Wait!sends \/ Wait!main_term_scope]_(Wait!prodconsvars) => ChannelInv'
  BY <1>1, ChannelNextInv
<1>3. Wait!ProdconsInit => ChannelInv
  BY ChannelInitInv
<1>4. ChannelInv => pfault = FALSE
  BY DEF ChannelInv
<1> QED
  BY <1>2, <1>3, <1>4, PTL

----------------------------------------------------------------------------
(* barrier.c.  The two threads go through their parts in step: at any time    *)
(* both are at the same one, or one of them has done it, has called barrier() *)
(* for the next and waits there.  Which of the two it is shows in the fields  *)
(* of the barrier: after the last thread to arrive has set outgoing, the one  *)
(* that waits is still in the last round, and the other may come back for the *)
(* next.  Both leave their loops in the same round because thread2 reads i    *)
(* before thread1 writes it again.                                            *)
BarrierTyped ==
  /\ bar \in [Wait!Both -> {"out", "enter", "wait"}]
  /\ mpc \in [Wait!Both -> {"start", "loop1", "write x1", "end1",
                            "loop2", "write x2", "read i", "end2", "done"}]
  /\ k \in {0, 1} /\ outgoing \in BOOLEAN

Waits(t) == bar[t] = "wait"

Shape(t, u) ==
  /\ k = 1 <=> Waits(t) \/ Waits(u)
  /\ ~(Waits(t) /\ Waits(u))
  /\ outgoing => Waits(t) \/ Waits(u)
  /\ mpc[t] = "done" => bar[t] = "out"
  /\ mpc[u] = "done" => bar[u] = "out"

\* t has done its part, and u has not
Ahead(t, u) == \/ ~outgoing /\ bar[t] # "out" /\ bar[u] = "out"
               \/ outgoing /\ bar[t] = "enter"
               \/ mpc[t] = "done" /\ mpc[u] # "done"

At(part1, part2) == mpc["thread1"] = part1 /\ mpc["thread2"] = part2

InStep == \/ At("start", "start") /\ N = m
          \/ At("loop1", "loop2") /\ N = m
          \/ At("write x1", "write x2")
          \/ At("loop1", "read i") /\ i = N
          \/ At("end1", "end2")
          \/ At("done", "done")

FirstAhead == \/ At("loop1", "start") /\ N = m
              \/ At("write x1", "loop2") /\ N = m /\ N < Rounds
              \/ At("end1", "loop2") /\ N = m /\ ~(N < Rounds)
              \/ At("loop1", "write x2") /\ i = N
              \/ At("write x1", "read i") /\ i = N /\ N < Rounds
              \/ At("end1", "read i") /\ i = N /\ ~(N < Rounds)
              \/ At("done", "end2")

SecondAhead == \/ At("start", "loop2") /\ N = m
               \/ At("loop1", "write x2") /\ N = m /\ m < Rounds
               \/ At("loop1", "end2") /\ N = m /\ ~(m < Rounds)
               \/ At("write x1", "read i")
               \/ At("end1", "done")

BarrierInv ==
  /\ BarrierTyped /\ Shape("thread1", "thread2")
  /\ ~(Ahead("thread1", "thread2") /\ Ahead("thread2", "thread1"))
  /\ Ahead("thread1", "thread2") => FirstAhead
  /\ Ahead("thread2", "thread1") => SecondAhead
  /\ Ahead("thread1", "thread2") \/ Ahead("thread2", "thread1") \/ InStep

(* What the invariant says of the two threads in either order.                *)
LEMMA ShapeOfBoth ==
  ASSUME NEW t \in Wait!Both, NEW u \in Wait!Both, t # u
  PROVE  Shape(t, u) <=> Shape("thread1", "thread2")
BY DEF Shape, Wait!Both

(* A step of one of the two threads leaves bar and pc of the other alone.     *)
(* Arriving at the barrier and leaving it keep the threads in step.           *)
LEMMA BarrierEnterInv ==
  ASSUME BarrierInv, NEW t \in Wait!Both, Wait!Enter(t) \/ Wait!Leave(t)
  PROVE  BarrierInv'
<1>1. BarrierTyped
  BY DEF BarrierInv
<1>2. UNCHANGED <<i, N, m, mpc>>
  BY DEF Wait!Enter, Wait!Leave
<1>4. PICK u \in Wait!Both : u # t /\ bar'[u] = bar[u] /\ \A v \in Wait!Both : v \in {t, u}
  BY <1>1 DEF Wait!Enter, Wait!Leave, BarrierTyped, Wait!Both
<1>3. Shape(t, u)
  BY <1>4, ShapeOfBoth DEF BarrierInv
<1>5. BarrierTyped' /\ Shape(t, u)' /\ (Ahead(t, u)' <=> Ahead(t, u)) /\ (Ahead(u, t)' <=> Ahead(u, t))
  <2>1. CASE Wait!Enter(t) /\ k = 0
    <3>0. k + 1 # Wait!n /\ k + 1 = 1
      BY <2>1 DEF Wait!n
    <3>1. /\ bar' = [bar EXCEPT ![t] = "wait"] /\ bar[t] = "enter" /\ k' = 1
          /\ outgoing = FALSE /\ outgoing' = FALSE
      BY <2>1, <3>0, <1>1, Zenon DEF Wait!Enter, BarrierTyped
    <3>2. bar'[t] = "wait"
      BY <3>1, <1>1 DEF BarrierTyped
    <3>5. BarrierTyped'
      BY <2>1, <3>1, <1>1, <1>2 DEF BarrierTyped
    <3>6. Shape(t, u)'
      BY <2>1, <3>1, <3>2, <1>2, <1>3, <1>4 DEF Shape, Waits
    <3>7. (Ahead(t, u)' <=> Ahead(t, u)) /\ (Ahead(u, t)' <=> Ahead(u, t))
      BY <2>1, <3>1, <3>2, <1>2, <1>3, <1>4, <1>1 DEF Ahead, Shape, Waits, BarrierTyped
    <3> QED
      BY <3>5, <3>6, <3>7
  <2>2. CASE Wait!Enter(t) /\ k = 1
    <3>0. k + 1 = Wait!n
      BY <2>2 DEF Wait!n
    <3>1. /\ bar' = [bar EXCEPT ![t] = "out"] /\ bar[t] = "enter" /\ k' = 1
          /\ outgoing = FALSE /\ outgoing' = TRUE
      BY <2>2, <3>0, <1>1, Zenon DEF Wait!Enter, BarrierTyped
    <3>2. bar'[t] = "out"
      BY <3>1, <1>1 DEF BarrierTyped
    <3>5. BarrierTyped'
      BY <2>2, <3>1, <1>1, <1>2 DEF BarrierTyped
    <3>6. Shape(t, u)'
      BY <2>2, <3>1, <3>2, <1>2, <1>3, <1>4 DEF Shape, Waits
    <3>7. (Ahead(t, u)' <=> Ahead(t, u)) /\ (Ahead(u, t)' <=> Ahead(u, t))
      BY <2>2, <3>1, <3>2, <1>2, <1>3, <1>4, <1>1 DEF Ahead, Shape, Waits, BarrierTyped
    <3> QED
      BY <3>5, <3>6, <3>7
  <2>3. CASE Wait!Leave(t)
    <3>3. bar[t] = "wait"
      BY <2>3 DEF Wait!Leave
    <3>4. k = 1
      BY <3>3, <1>3, Zenon DEF Shape, Waits
    <3>0. k - 1 = 0
      BY <3>4
    <3>1. /\ bar' = [bar EXCEPT ![t] = "out"] /\ bar[t] = "wait" /\ k' = 0
          /\ outgoing = TRUE /\ outgoing' = FALSE
      BY <2>3, <3>0, <1>1, Zenon DEF Wait!Leave, BarrierTyped
    <3>2. bar'[t] = "out"
      BY <3>1, <1>1 DEF BarrierTyped
    <3>5. BarrierTyped'
      BY <3>4, <3>1, <1>1, <1>2 DEF BarrierTyped
    <3>6. Shape(t, u)'
      BY <3>4, <3>1, <3>2, <1>2, <1>3, <1>4 DEF Shape, Waits
    <3>7. (Ahead(t, u)' <=> Ahead(t, u)) /\ (Ahead(u, t)' <=> Ahead(u, t))
      BY <3>4, <3>1, <3>2, <1>2, <1>3, <1>4, <1>1 DEF Ahead, Shape, Waits, BarrierTyped
    <3> QED
      BY <3>5, <3>6, <3>7
  <2> QED
    BY <2>1, <2>2, <2>3, <1>1 DEF BarrierTyped
<1>6. UNCHANGED <<InStep, FirstAhead, SecondAhead>>
  BY <1>2 DEF InStep, FirstAhead, SecondAhead, At
<1>7. Shape("thread1", "thread2")'
  BY <1>4, <1>5 DEF Shape, Waits, Wait!Both
<1> QED
  BY <1>4, <1>5, <1>6, <1>7 DEF BarrierInv, Wait!Both

\* t got ahead of u, or drew level with it
RunsPast(t, u) == /\ ~Ahead(t, u) /\ ~Ahead(u, t)'
                  /\ Ahead(t, u)' <=> ~Ahead(u, t)

(* A thread that does its part and calls barrier() gets ahead of the other,   *)
(* or draws level with it when the other was ahead.                           *)
LEMMA RunsInv ==
  ASSUME BarrierInv, NEW t \in Wait!Both, NEW u \in Wait!Both, t # u,
         NEW part, NEW next \in {"loop1", "write x1", "end1",
                                 "loop2", "write x2", "read i", "end2", "done"},
         Wait!Runs(t, part, next), part # "done",
         Ahead(u, t) => (next = "done" <=> mpc[u] = "done")
  PROVE  /\ BarrierTyped' /\ Shape("thread1", "thread2")'
         /\ RunsPast(t, u)
<1>1. BarrierTyped
  BY DEF BarrierInv
<1>2. Shape(t, u)
  BY ShapeOfBoth DEF BarrierInv
<1>3. /\ mpc[t] = part /\ mpc'[t] = next /\ mpc'[u] = mpc[u]
      /\ bar[t] = "out" /\ bar'[u] = bar[u] /\ k' = k /\ outgoing' = outgoing
      /\ bar'[t] = IF next = "done" THEN "out" ELSE "enter"
  BY <1>1 DEF Wait!Runs, BarrierTyped
<1>4. BarrierTyped'
  BY <1>1 DEF Wait!Runs, BarrierTyped
<1>5. Shape(t, u)'
  BY <1>2, <1>3 DEF Shape, Waits
<1>6. Shape("thread1", "thread2")'
  BY <1>5 DEF Shape, Waits, Wait!Both
<1>7. ~Ahead(t, u)
  BY <1>3 DEF Ahead
<1>8. ~Ahead(u, t)' /\ (Ahead(t, u)' <=> ~Ahead(u, t))
  <2>1. CASE Ahead(u, t)
    BY <2>1, <1>2, <1>3 DEF Ahead, Shape, Waits
  <2>2. CASE ~Ahead(u, t)
    BY <2>2, <1>1, <1>2, <1>3 DEF Ahead, Shape, Waits, BarrierTyped
  <2> QED
    BY <2>1, <2>2
<1> QED
  BY <1>4, <1>6, <1>7, <1>8 DEF RunsPast

(* thread1: it gets ahead of thread2 from a state in which the two are in     *)
(* step, and draws level with it from one in which thread2 was ahead.         *)
LEMMA FirstRuns ==
  ASSUME BarrierInv, NEW part \in {"start", "loop1", "write x1", "end1"},
         NEW next \in {"loop1", "write x1", "end1", "done"},
         Wait!Runs("thread1", part, next), next = "done" <=> part = "end1",
         InStep => FirstAhead', SecondAhead => InStep'
  PROVE  BarrierInv'
<1>1. /\ Ahead("thread1", "thread2") => FirstAhead
      /\ Ahead("thread2", "thread1") => SecondAhead
      /\ Ahead("thread1", "thread2") \/ Ahead("thread2", "thread1") \/ InStep
  BY DEF BarrierInv
<1>2. mpc["thread1"] = part
  BY DEF Wait!Runs
<1>3. Ahead("thread2", "thread1") => (next = "done" <=> mpc["thread2"] = "done")
  BY <1>1, <1>2 DEF SecondAhead, At
<1>4. /\ part # "done" /\ "thread1" # "thread2" /\ "thread2" # "thread1"
      /\ "thread1" \in Wait!Both /\ "thread2" \in Wait!Both
      /\ next \in {"loop1", "write x1", "end1", "loop2", "write x2", "read i", "end2", "done"}
  BY DEF Wait!Both
<1>5. /\ BarrierTyped' /\ Shape("thread1", "thread2")'
      /\ RunsPast("thread1", "thread2")
  BY <1>3, <1>4, RunsInv
<1> QED
  BY <1>1, <1>5 DEF BarrierInv, RunsPast

(* The parts of thread1.                                                    *)
LEMMA FirstRunsInv ==
  ASSUME BarrierInv, Wait!barrier_thread1
  PROVE  BarrierInv'
<1>0. BarrierTyped
  BY DEF BarrierInv
<1>1. ASSUME NEW part, NEW next, Wait!Runs("thread1", part, next)
      PROVE  /\ mpc["thread1"] = part /\ mpc'["thread1"] = next
             /\ mpc'["thread2"] = mpc["thread2"]
  BY <1>0, <1>1 DEF Wait!Runs, BarrierTyped, Wait!Both
<1>2. CASE Wait!Runs("thread1", "start", "loop1") /\ UNCHANGED <<i, N, m>>
  <2>1. /\ mpc["thread1"] = "start" /\ mpc'["thread1"] = "loop1"
        /\ mpc'["thread2"] = mpc["thread2"]
    BY <1>1, <1>2
  <2>2. InStep => FirstAhead'
    BY <2>1, <1>2 DEF InStep, FirstAhead, At
  <2>3. SecondAhead => InStep'
    BY <2>1, <1>2 DEF InStep, SecondAhead, At
  <2> QED
    BY <2>2, <2>3, <1>2, FirstRuns
<1>3. CASE Wait!Runs("thread1", "loop1", (IF N < Rounds THEN "write x1" ELSE "end1")) /\ UNCHANGED <<i, N, m>>
  <2>1. /\ mpc["thread1"] = "loop1" /\ mpc'["thread1"] = (IF N < Rounds THEN "write x1" ELSE "end1")
        /\ mpc'["thread2"] = mpc["thread2"]
    BY <1>1, <1>3
  <2>2. InStep => FirstAhead'
    BY <2>1, <1>3 DEF InStep, FirstAhead, At
  <2>3. SecondAhead => InStep'
    BY <2>1, <1>3 DEF InStep, SecondAhead, At
  <2> QED
    BY <2>2, <2>3, <1>3, FirstRuns
<1>4. CASE Wait!Runs("thread1", "write x1", "loop1") /\ N' = N + 1 /\ i' = N' /\ m' = m
  <2>1. /\ mpc["thread1"] = "write x1" /\ mpc'["thread1"] = "loop1"
        /\ mpc'["thread2"] = mpc["thread2"]
    BY <1>1, <1>4
  <2>2. InStep => FirstAhead'
    BY <2>1, <1>4 DEF InStep, FirstAhead, At
  <2>3. SecondAhead => InStep'
    BY <2>1, <1>4 DEF InStep, SecondAhead, At
  <2> QED
    BY <2>2, <2>3, <1>4, FirstRuns
<1>5. CASE Wait!Runs("thread1", "end1", "done") /\ i' = 0 /\ UNCHANGED <<N, m>>
  <2>1. /\ mpc["thread1"] = "end1" /\ mpc'["thread1"] = "done"
        /\ mpc'["thread2"] = mpc["thread2"]
    BY <1>1, <1>5
  <2>2. InStep => FirstAhead'
    BY <2>1, <1>5 DEF InStep, FirstAhead, At
  <2>3. SecondAhead => InStep'
    BY <2>1, <1>5 DEF InStep, SecondAhead, At
  <2> QED
    BY <2>2, <2>3, <1>5, FirstRuns
<1> QED
  BY <1>2, <1>3, <1>4, <1>5 DEF Wait!barrier_thread1

(* thread2: it gets ahead of thread1 from a state in which the two are in     *)
(* step, and draws level with it from one in which thread1 was ahead.         *)
LEMMA SecondRuns ==
  ASSUME BarrierInv, NEW part \in {"start", "loop2", "write x2", "read i", "end2"},
         NEW next \in {"loop2", "write x2", "read i", "end2", "done"},
         Wait!Runs("thread2", part, next), next = "done" <=> part = "end2",
         InStep => SecondAhead', FirstAhead => InStep'
  PROVE  BarrierInv'
<1>1. /\ Ahead("thread1", "thread2") => FirstAhead
      /\ Ahead("thread2", "thread1") => SecondAhead
      /\ Ahead("thread1", "thread2") \/ Ahead("thread2", "thread1") \/ InStep
  BY DEF BarrierInv
<1>2. mpc["thread2"] = part
  BY DEF Wait!Runs
<1>3. Ahead("thread1", "thread2") => (next = "done" <=> mpc["thread1"] = "done")
  BY <1>1, <1>2 DEF FirstAhead, At
<1>4. /\ part # "done" /\ "thread1" # "thread2" /\ "thread2" # "thread1"
      /\ "thread1" \in Wait!Both /\ "thread2" \in Wait!Both
      /\ next \in {"loop1", "write x1", "end1", "loop2", "write x2", "read i", "end2", "done"}
  BY DEF Wait!Both
<1>5. /\ BarrierTyped' /\ Shape("thread1", "thread2")'
      /\ RunsPast("thread2", "thread1")
  BY <1>3, <1>4, RunsInv
<1> QED
  BY <1>1, <1>5 DEF BarrierInv, RunsPast

(* The parts of thread2.                                                    *)
LEMMA SecondRunsInv ==
  ASSUME BarrierInv, Wait!barrier_thread2
  PROVE  BarrierInv'
<1>0. BarrierTyped
  BY DEF BarrierInv
<1>1. ASSUME NEW part, NEW next, Wait!Runs("thread2", part, next)
      PROVE  /\ mpc["thread2"] = part /\ mpc'["thread2"] = next
             /\ mpc'["thread1"] = mpc["thread1"]
  BY <1>0, <1>1 DEF Wait!Runs, BarrierTyped, Wait!Both
<1>2. CASE Wait!Runs("thread2", "start", "loop2") /\ UNCHANGED <<i, N, m>>
  <2>1. /\ mpc["thread2"] = "start" /\ mpc'["thread2"] = "loop2"
        /\ mpc'["thread1"] = mpc["thread1"]
    BY <1>1, <1>2
  <2>2. InStep => SecondAhead'
    BY <2>1, <1>2 DEF InStep, SecondAhead, At
  <2>3. FirstAhead => InStep'
    BY <2>1, <1>2 DEF InStep, FirstAhead, At
  <2> QED
    BY <2>2, <2>3, <1>2, SecondRuns
<1>3. CASE Wait!Runs("thread2", "loop2", (IF m < Rounds THEN "write x2" ELSE "end2")) /\ UNCHANGED <<i, N, m>>
  <2>1. /\ mpc["thread2"] = "loop2" /\ mpc'["thread2"] = (IF m < Rounds THEN "write x2" ELSE "end2")
        /\ mpc'["thread1"] = mpc["thread1"]
    BY <1>1, <1>3
  <2>2. InStep => SecondAhead'
    BY <2>1, <1>3 DEF InStep, SecondAhead, At
  <2>3. FirstAhead => InStep'
    BY <2>1, <1>3 DEF InStep, FirstAhead, At
  <2> QED
    BY <2>2, <2>3, <1>3, SecondRuns
<1>4. CASE Wait!Runs("thread2", "write x2", "read i") /\ UNCHANGED <<i, N, m>>
  <2>1. /\ mpc["thread2"] = "write x2" /\ mpc'["thread2"] = "read i"
        /\ mpc'["thread1"] = mpc["thread1"]
    BY <1>1, <1>4
  <2>2. InStep => SecondAhead'
    BY <2>1, <1>4 DEF InStep, SecondAhead, At
  <2>3. FirstAhead => InStep'
    BY <2>1, <1>4 DEF InStep, FirstAhead, At
  <2> QED
    BY <2>2, <2>3, <1>4, SecondRuns
<1>5. CASE Wait!Runs("thread2", "read i", (IF m' < Rounds THEN "write x2" ELSE "end2")) /\ m' = i /\ UNCHANGED <<i, N>>
  <2>1. /\ mpc["thread2"] = "read i" /\ mpc'["thread2"] = (IF m' < Rounds THEN "write x2" ELSE "end2")
        /\ mpc'["thread1"] = mpc["thread1"]
    BY <1>1, <1>5
  <2>2. InStep => SecondAhead'
    BY <2>1, <1>5 DEF InStep, SecondAhead, At
  <2>3. FirstAhead => InStep'
    BY <2>1, <1>5 DEF InStep, FirstAhead, At
  <2> QED
    BY <2>2, <2>3, <1>5, SecondRuns
<1>6. CASE Wait!Runs("thread2", "end2", "done") /\ UNCHANGED <<i, N, m>>
  <2>1. /\ mpc["thread2"] = "end2" /\ mpc'["thread2"] = "done"
        /\ mpc'["thread1"] = mpc["thread1"]
    BY <1>1, <1>6
  <2>2. InStep => SecondAhead'
    BY <2>1, <1>6 DEF InStep, SecondAhead, At
  <2>3. FirstAhead => InStep'
    BY <2>1, <1>6 DEF InStep, FirstAhead, At
  <2> QED
    BY <2>2, <2>3, <1>6, SecondRuns
<1> QED
  BY <1>2, <1>3, <1>4, <1>5, <1>6 DEF Wait!barrier_thread2

(* A thread that is out of the barrier uses no field that the other, out of   *)
(* it too, writes.                                                            *)
LEMMA BarrierNoRace == BarrierInv => Wait!NoRace
<1> SUFFICES ASSUME BarrierInv, bar["thread1"] = "out", bar["thread2"] = "out"
             PROVE  /\ Wait!Writes(mpc["thread1"]) \cap
                         (Wait!Reads(mpc["thread2"]) \cup Wait!Writes(mpc["thread2"])) = {}
                    /\ Wait!Writes(mpc["thread2"]) \cap
                         (Wait!Reads(mpc["thread1"]) \cup Wait!Writes(mpc["thread1"])) = {}
  BY DEF Wait!NoRace, Wait!Both
<1>1. InStep \/ At("done", "end2") \/ At("end1", "done")
  BY DEF BarrierInv, Shape, Waits, Ahead, InStep, At, FirstAhead, SecondAhead
<1> QED
  BY <1>1 DEF InStep, At, Wait!Writes, Wait!Reads

(* create_barrier(2), and both threads before their first part.               *)
LEMMA BarrierInitInv == Wait!BarrierInit => BarrierInv
<1> SUFFICES ASSUME Wait!BarrierInit PROVE BarrierInv
  OBVIOUS
<1>1. /\ \A t \in Wait!Both : bar[t] = "out" /\ mpc[t] = "start"
      /\ "thread1" \in Wait!Both /\ "thread2" \in Wait!Both
      /\ k = 0 /\ outgoing = FALSE /\ N = m
  BY DEF Wait!BarrierInit, Wait!Both
<1>2. BarrierTyped
  BY DEF Wait!BarrierInit, BarrierTyped
<1>3. Shape("thread1", "thread2")
  BY <1>1 DEF Shape, Waits
<1>5. InStep
  BY <1>1 DEF InStep, At
<1>4. ~Ahead("thread1", "thread2") /\ ~Ahead("thread2", "thread1")
  BY <1>1 DEF Ahead
<1> QED
  BY <1>2, <1>3, <1>4, <1>5 DEF BarrierInv

(* Every step of barrier.c keeps the threads in step.                         *)
LEMMA BarrierNextInv ==
  ASSUME BarrierInv, NEW t \in Wait!Both, Wait!barrier_step(t)
  PROVE  BarrierInv'
BY BarrierEnterInv, FirstRunsInv, SecondRunsInv DEF Wait!barrier_step

(* barrier.c: no thread writes a field of struct data while the other reads   *)
(* or writes it, for any number of rounds.                                    *)
THEOREM BarrierRaceFree ==
  Wait!BarrierInit /\ [][\E t \in Wait!Both : Wait!barrier_step(t)]_(Wait!barriervars)
    => []Wait!NoRace
<1>1. BarrierInv /\ UNCHANGED Wait!barriervars => BarrierInv'
  <2> SUFFICES ASSUME BarrierInv, UNCHANGED Wait!barriervars PROVE BarrierInv'
    OBVIOUS
  <2>1. UNCHANGED <<k, outgoing, bar, i, N, m, mpc>>
    BY DEF Wait!barriervars
  <2>2. BarrierTyped' /\ Shape("thread1", "thread2")'
    BY <2>1 DEF BarrierInv, BarrierTyped, Shape, Waits
  <2>3. /\ Ahead("thread1", "thread2")' <=> Ahead("thread1", "thread2")
        /\ Ahead("thread2", "thread1")' <=> Ahead("thread2", "thread1")
        /\ (FirstAhead' <=> FirstAhead) /\ (SecondAhead' <=> SecondAhead) /\ (InStep' <=> InStep)
    BY <2>1 DEF Ahead, FirstAhead, SecondAhead, InStep, At
  <2> QED
    BY <2>2, <2>3 DEF BarrierInv
<1>2. BarrierInv /\ [\E t \in Wait!Both : Wait!barrier_step(t)]_(Wait!barriervars)
        => BarrierInv'
  BY <1>1, BarrierNextInv
<1> QED
  BY <1>2, BarrierInitInv, BarrierNoRace, PTL

----------------------------------------------------------------------------
(* The futex mutex: a thread is inside only while the word is set, and only   *)
(* the thread inside clears it.                                               *)

CONSTANT MaxSpurious
VARIABLES held_, spurious, futexpc

Futex == INSTANCE FutexMutex WITH pc <- futexpc
FutexAbs == INSTANCE Lock WITH phase <- Futex!Phase

futexvars == <<held_, spurious, futexpc>>
FutexPositions == {"out", "cas", "in", "wait", "asleep", "wake"}

FutexInv == /\ futexpc \in [Threads -> FutexPositions]
            /\ \A t \in Threads : futexpc[t] = "in" => held_ # 0
            /\ \A t, u \in Threads : futexpc[t] = "in" /\ futexpc[u] = "in" => t = u

(* Every operation of the mutex and every futex call keeps the invariant.     *)
LEMMA FutexNextInv == FutexInv /\ [Futex!Next]_futexvars => FutexInv'
<1> SUFFICES ASSUME FutexInv, [Futex!Next]_futexvars PROVE FutexInv'
  OBVIOUS
<1> USE DEF FutexInv, FutexPositions
<1>1. ASSUME NEW t \in Threads, Futex!Call(t) PROVE FutexInv'
  BY <1>1 DEF Futex!Call
<1>2. ASSUME NEW t \in Threads, Futex!CompareAndSet(t) PROVE FutexInv'
  BY <1>2 DEF Futex!CompareAndSet
<1>3. ASSUME NEW t \in Threads, Futex!Wait(t) PROVE FutexInv'
  BY <1>3 DEF Futex!Wait
<1>4. ASSUME NEW t \in Threads, Futex!Store(t) PROVE FutexInv'
  BY <1>4 DEF Futex!Store
<1>5. ASSUME NEW t \in Threads, Futex!Wake(t) PROVE FutexInv'
  BY <1>5 DEF Futex!Wake
<1>6. CASE UNCHANGED futexvars
  BY <1>6 DEF futexvars
<1> QED
  BY <1>1, <1>2, <1>3, <1>4, <1>5, <1>6 DEF Futex!Next, Futex!Step

(* The successful compare-and-set of acquire is the instant at which a thread *)
(* gets in, the store of release the one at which it leaves; what futex_wait  *)
(* and futex_wake_one do to sleepers is invisible to the abstract lock.       *)
LEMMA FutexSimulates ==
  FutexInv /\ [Futex!Next]_futexvars => [FutexAbs!Next]_(Futex!Phase)
<1> SUFFICES ASSUME FutexInv, [Futex!Next]_futexvars
             PROVE  [FutexAbs!Next]_(Futex!Phase)
  OBVIOUS
<1>0. futexpc \in [Threads -> FutexPositions]
  BY DEF FutexInv
<1>1. ASSUME NEW t \in Threads, Futex!Call(t) PROVE FutexAbs!Call(t)
  BY <1>0, <1>1, Zenon DEF Futex!Call, FutexAbs!Call, Futex!Phase
<1>2. ASSUME NEW t \in Threads, Futex!CompareAndSet(t)
      PROVE  FutexAbs!Enter(t) \/ UNCHANGED Futex!Phase
  <2>1. CASE held_ = 0 /\ futexpc' = [futexpc EXCEPT ![t] = "in"]
    <3>1. \A u \in Threads : Futex!Phase[u] # "in"
      BY <2>1, <1>0 DEF FutexInv, Futex!Phase, FutexPositions
    <3>2. /\ Futex!Phase[t] = "acquiring"
          /\ Futex!Phase' = [Futex!Phase EXCEPT ![t] = "in"]
      BY <2>1, <1>0, <1>2, Zenon DEF Futex!CompareAndSet, Futex!Phase
    <3> QED
      BY <3>1, <3>2 DEF FutexAbs!Enter
  <2>2. CASE futexpc' = [futexpc EXCEPT ![t] = "wait"]
    BY <2>2, <1>0, <1>2 DEF Futex!CompareAndSet, Futex!Phase
  <2> QED
    BY <2>1, <2>2, <1>2 DEF Futex!CompareAndSet
<1>3. ASSUME NEW t \in Threads, Futex!Wait(t) PROVE UNCHANGED Futex!Phase
  BY <1>0, <1>3 DEF Futex!Wait, Futex!Phase
<1>4. ASSUME NEW t \in Threads, Futex!Store(t) PROVE FutexAbs!Leave(t)
  BY <1>0, <1>4, Zenon DEF Futex!Store, FutexAbs!Leave, Futex!Phase
<1>5. ASSUME NEW t \in Threads, Futex!Wake(t) PROVE UNCHANGED Futex!Phase
  BY <1>0, <1>5 DEF Futex!Wake, Futex!Phase
<1>6. CASE UNCHANGED futexvars
  BY <1>6 DEF futexvars, Futex!Phase
<1> QED
  BY <1>1, <1>2, <1>3, <1>4, <1>5, <1>6 DEF Futex!Next, Futex!Step, FutexAbs!Next

(* mutex.c implements the abstract lock, for any number of threads and of     *)
(* spurious failures.                                                         *)
THEOREM FutexRefinement ==
  Futex!Init /\ [][Futex!Next]_futexvars => FutexAbs!Spec
<1>1. Futex!Init => FutexInv
  BY DEF Futex!Init, FutexInv, FutexPositions
<1>2. Futex!Init => FutexAbs!Init
  BY DEF Futex!Init, FutexAbs!Init, Futex!Phase
<1> QED
  BY <1>1, <1>2, FutexNextInv, FutexSimulates, PTL DEF FutexAbs!Spec
============================================================================
