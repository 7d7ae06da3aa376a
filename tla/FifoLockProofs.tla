--------------------------- MODULE FifoLockProofs ---------------------------
(* Proofs about the two locks that let threads in first come, first served.   *)
(*                                                                            *)
(* The ticket lock, for any finite number of threads and any number W of      *)
(* counter values that is at least as large: mutual exclusion although the    *)
(* counters wrap around, the order in which threads get in, and that the lock *)
(* implements the abstract modules Lock and FifoLock.  Mutual exclusion is    *)
(* not inductive.  What makes it so is where the tickets lie on the circle of *)
(* the W counter values: those of the K threads that hold one are at          *)
(* different distances 0 .. K-1 ahead of owner, next is at distance K (modulo *)
(* W, so 0 when all W values are given out), and a thread that is inside has  *)
(* the ticket at distance 0.                                                  *)
(*                                                                            *)
(* The CLH lock, for any set of threads and any set of nodes: it implements   *)
(* FifoLock and reads no node that was freed.  Its queue exists only as the   *)
(* chain of pred and node fields, so the invariant says that some sequence of *)
(* threads is that chain, ending at the tail, and that every thread object    *)
(* and the tail own a node of their own: the one they may mark, recycle or    *)
(* free.                                                                      *)
EXTENDS TicketLock, Sequences, FiniteSetTheorems, SequenceTheorems, TLAPS

LockAbs == INSTANCE Lock WITH phase <- Phase

\* one lock, here named 0
FifoAbs == INSTANCE FifoLock WITH Locks <- {0}, queue <- [l \in {0} |-> Queue],
                                  taken <- [l \in {0} |-> Inside # {}]

Counters == 0..(W - 1)

Typed == /\ next \in Counters /\ owner \in Counters
         /\ ticket \in [Threads -> Counters]
         /\ ownerPlusOne \in [Threads -> Counters]
         /\ pc \in [Threads -> {"out", "spin", "in", "release"}]

\* how far counter value n is ahead of m
Ahead(n, m) == IF n >= m THEN n - m ELSE n - m + W

K == Cardinality(Active)

TicketsInWindow ==
  /\ Ahead(next, owner) = (IF K = W THEN 0 ELSE K)
  /\ \A t \in Active : Distance(t) < K
  /\ \A t, u \in Active : Distance(t) = Distance(u) => t = u

HolderIsFirst ==
  \A t \in Threads : /\ pc[t] \in {"in", "release"} => Distance(t) = 0
                     /\ pc[t] = "release" => ownerPlusOne[t] = PlusOne(owner)

IInv == Typed /\ TicketsInWindow /\ HolderIsFirst

QueueInPlace == /\ Queue \in Seq(Threads) /\ Len(Queue) = K
                /\ \A i \in 1..K : Queue[i] \in Active /\ Distance(Queue[i]) = i - 1

MutualExclusion == \A t, u \in Inside : t = u

\* of two threads that wait, the one whose ticket is nearer gets in first
InTurn == \A t, u \in Threads :
            pc[t] = "spin" /\ pc[u] = "spin" /\ pc'[u] = "in"
              => t = u \/ Distance(u) < Distance(t)

----------------------------------------------------------------------------
(* The number of threads that hold a ticket, which is at most W, and how it   *)
(* changes when a thread joins or leaves them.                                *)
LEMMA ActiveFinite == IsFiniteSet(Active) /\ K \in Nat /\ K <= W
<1>1. IsFiniteSet(Threads) /\ Active \subseteq Threads
  BY TicketsSuffice DEF Active
<1>2. IsFiniteSet(Active) /\ K <= Cardinality(Threads)
  BY <1>1, FS_Subset DEF K
<1>3. K \in Nat /\ Cardinality(Threads) \in Nat
  BY <1>1, <1>2, FS_CardinalityType DEF K
<1> QED
  BY <1>2, <1>3, TicketsSuffice

(* The same in the next state: the counts are of the same form there.         *)
LEMMA ActiveFiniteNext == IsFiniteSet(Active') /\ K' \in Nat /\ K' <= W
<1>1. IsFiniteSet(Threads) /\ Active' \subseteq Threads
  BY TicketsSuffice DEF Active
<1>2. IsFiniteSet(Active') /\ K' <= Cardinality(Threads)
  BY <1>1, FS_Subset DEF K
<1>3. K' \in Nat /\ Cardinality(Threads) \in Nat
  BY <1>1, <1>2, FS_CardinalityType DEF K
<1> QED
  BY <1>2, <1>3, TicketsSuffice

(* DrawTicket makes one more thread active, and so there was a value left.    *)
LEMMA JoinCounts ==
  ASSUME NEW t \in Threads, Typed, pc[t] = "out", pc' = [pc EXCEPT ![t] = "spin"]
  PROVE  Active' = Active \cup {t} /\ t \notin Active /\ K' = K + 1 /\ K < W
<1>1. Active' = Active \cup {t} /\ t \notin Active
  BY DEF Active, Typed
<1>2. K' = K + 1
  BY <1>1, ActiveFinite, FS_AddElement DEF K
<1> QED
  BY <1>1, <1>2, ActiveFinite, ActiveFiniteNext, TicketsSuffice

(* StoreOwner makes one thread less active.                                   *)
LEMMA LeaveCounts ==
  ASSUME NEW t \in Threads, Typed, pc[t] = "release", pc' = [pc EXCEPT ![t] = "out"]
  PROVE  Active' = Active \ {t} /\ t \in Active /\ K' = K - 1
<1>1. Active' = Active \ {t} /\ t \in Active
  BY DEF Active, Typed
<1>2. K' = K - 1
  BY <1>1, ActiveFinite, FS_RemoveElement DEF K
<1> QED
  BY <1>1, <1>2

(* No other step changes who is active.                                       *)
LEMMA StaysCounts ==
  ASSUME NEW t \in Threads, NEW s \in {"spin", "in", "release"}, Typed,
         pc[t] # "out", pc' = [pc EXCEPT ![t] = s]
  PROVE  Active' = Active /\ K' = K
<1>1. Active' = Active
  BY DEF Active, Typed
<1> QED
  BY <1>1 DEF K

----------------------------------------------------------------------------
(* Moving one of two counters by one changes their distance by one, with the  *)
(* wrap of get_counter_plus_one and atomic_fetch_and_increment_counter.       *)
LEMMA AheadMoves ==
  ASSUME NEW n \in Counters, NEW m \in Counters
  PROVE  /\ PlusOne(n) \in Counters /\ Ahead(n, m) \in Counters
         /\ Ahead(PlusOne(n), m) = IF Ahead(n, m) = W - 1 THEN 0 ELSE Ahead(n, m) + 1
         /\ Ahead(n, PlusOne(m)) = IF Ahead(n, m) = 0 THEN W - 1 ELSE Ahead(n, m) - 1
BY TicketsSuffice DEF Counters, Ahead, PlusOne

(* Distance is how far a ticket is ahead of owner.                            *)
LEMMA DistanceIsAhead ==
  ASSUME NEW t \in Threads, Typed
  PROVE  Distance(t) = Ahead(ticket[t], owner) /\ Distance(t) \in Counters
<1>1. ticket[t] \in Counters /\ owner \in Counters
  BY DEF Typed
<1> QED
  BY <1>1, TicketsSuffice DEF Distance, Ahead, Counters

(* Before any acquire no ticket is out.                                       *)
LEMMA InitIInv == Init => IInv
<1> SUFFICES ASSUME Init PROVE IInv
  OBVIOUS
<1>1. Typed
  BY TicketsSuffice DEF Init, Typed, Counters
<1>2. Active = {}
  BY DEF Init, Active
<1>3. K = 0
  BY <1>2, FS_EmptySet DEF K
<1>4. TicketsInWindow
  BY <1>2, <1>3, TicketsSuffice DEF Init, TicketsInWindow, Ahead
<1>5. HolderIsFirst
  BY DEF Init, HolderIsFirst
<1> QED
  BY <1>1, <1>4, <1>5 DEF IInv

(* acquire's fetch-and-increment of next gives out the value at distance K,   *)
(* which no thread holds.                                                     *)
LEMMA DrawTicketIInv ==
  ASSUME NEW t \in Threads, IInv, DrawTicket(t)
  PROVE  IInv'
<1> USE DEF IInv
<1>1. Typed'
  BY AheadMoves DEF Typed, DrawTicket
<1>2. Active' = Active \cup {t} /\ t \notin Active /\ K' = K + 1 /\ K < W /\ K \in Nat
  BY JoinCounts, ActiveFinite, Zenon DEF DrawTicket
<1>3. \A u \in Active : Distance(u)' = Distance(u) /\ Distance(u) \in Int /\ Distance(u) < K
  <2> SUFFICES ASSUME NEW u \in Active
               PROVE  Distance(u)' = Distance(u) /\ Distance(u) \in Int /\ Distance(u) < K
    OBVIOUS
  <2>1. u \in Threads /\ u # t
    BY <1>2 DEF Active
  <2>2. Distance(u)' = Distance(u)
    BY <2>1 DEF DrawTicket, Distance, Typed
  <2>3. Distance(u) \in Counters
    BY <2>1, DistanceIsAhead
  <2> QED
    BY <2>2, <2>3 DEF TicketsInWindow, Counters
<1>4. Distance(t)' = K
  <2>1. Distance(t)' = Ahead(next, owner)
    BY DEF Distance, Ahead, DrawTicket, Typed
  <2> QED
    BY <2>1, <1>2 DEF TicketsInWindow
<1>5. TicketsInWindow'
  <2>1. Ahead(next', owner') = IF K' = W THEN 0 ELSE K'
    <3>1. Ahead(next, owner) = K
      BY <1>2 DEF TicketsInWindow
    <3>2. Ahead(next', owner') = IF K = W - 1 THEN 0 ELSE K + 1
      BY <3>1, AheadMoves DEF DrawTicket, Typed
    <3> QED
      BY <3>2, <1>2, TicketsSuffice
  <2>2. \A u \in Active' : Distance(u)' < K'
    BY <1>2, <1>3, <1>4
  <2>3. \A u, v \in Active' : Distance(u)' = Distance(v)' => u = v
    BY <1>2, <1>3, <1>4 DEF TicketsInWindow
  <2> QED
    BY <2>1, <2>2, <2>3 DEF TicketsInWindow, Ahead
<1>6. HolderIsFirst'
  <2> SUFFICES ASSUME NEW u \in Threads, pc'[u] \in {"in", "release"}
               PROVE  /\ Distance(u)' = 0
                      /\ pc'[u] = "release" => ownerPlusOne'[u] = PlusOne(owner')
    BY DEF HolderIsFirst, PlusOne
  <2>1. u # t /\ pc[u] = pc'[u] /\ u \in Active
    BY DEF DrawTicket, Typed, Active
  <2> QED
    BY <2>1, <1>3 DEF HolderIsFirst, DrawTicket
<1> QED
  BY <1>1, <1>5, <1>6

(* The load that ends the loop of acquire saw the ticket itself.              *)
LEMMA SeeTurnIInv ==
  ASSUME NEW t \in Threads, IInv, SeeTurn(t)
  PROVE  IInv'
<1> USE DEF IInv
<1>1. Typed'
  BY DEF Typed, SeeTurn
<1>2. Active' = Active /\ K' = K
  BY StaysCounts, Zenon DEF SeeTurn
<1>3. \A u \in Threads : Distance(u)' = Distance(u)
  BY DEF SeeTurn, Distance
<1>4. TicketsInWindow'
  BY <1>2, <1>3 DEF TicketsInWindow, Active, SeeTurn, Ahead
<1>5. Distance(t) = 0
  BY TicketsSuffice DEF SeeTurn, Distance, Typed, Counters
<1>6. HolderIsFirst'
  BY <1>3, <1>5 DEF HolderIsFirst, SeeTurn, PlusOne, Typed
<1> QED
  BY <1>1, <1>4, <1>6

(* release reads owner, which nobody else changes while it is inside.         *)
LEMMA LoadOwnerIInv ==
  ASSUME NEW t \in Threads, IInv, LoadOwner(t)
  PROVE  IInv'
<1> USE DEF IInv
<1>1. Typed'
  BY AheadMoves DEF Typed, LoadOwner
<1>2. Active' = Active /\ K' = K
  BY StaysCounts, Zenon DEF LoadOwner
<1>3. \A u \in Threads : Distance(u)' = Distance(u)
  BY DEF LoadOwner, Distance
<1>4. TicketsInWindow'
  BY <1>2, <1>3 DEF TicketsInWindow, Active, LoadOwner, Ahead
<1>5. HolderIsFirst'
  BY <1>3 DEF HolderIsFirst, LoadOwner, PlusOne, Typed
<1> QED
  BY <1>1, <1>4, <1>5

(* The store of release brings every other ticket one nearer, and since it    *)
(* left nobody at distance 0 but its own thread, nobody else was inside.      *)
LEMMA StoreOwnerIInv ==
  ASSUME NEW t \in Threads, IInv, StoreOwner(t)
  PROVE  IInv'
<1> USE DEF IInv
<1>1. owner' = PlusOne(owner) /\ next' = next /\ ticket' = ticket
  BY DEF StoreOwner, HolderIsFirst
<1>2. Typed'
  BY <1>1, AheadMoves DEF Typed, StoreOwner
<1>3. Active' = Active \ {t} /\ t \in Active /\ K' = K - 1 /\ K \in Nat /\ K <= W
  BY LeaveCounts, ActiveFinite, Zenon DEF StoreOwner
<1>4. Distance(t) = 0
  BY DEF StoreOwner, HolderIsFirst
<1>5. \A u \in Active' : /\ u \in Active /\ Distance(u) \in Int /\ Distance(u) > 0
                         /\ Distance(u)' = Distance(u) - 1
  <2> SUFFICES ASSUME NEW u \in Active'
               PROVE  /\ u \in Active /\ Distance(u) \in Int /\ Distance(u) > 0
                      /\ Distance(u)' = Distance(u) - 1
    OBVIOUS
  <2>1. u \in Active /\ u \in Threads /\ u # t
    BY <1>3 DEF Active
  <2>2. Distance(u) = Ahead(ticket[u], owner) /\ Distance(u) \in Counters
    BY <2>1, DistanceIsAhead
  <2>3. Distance(u) # 0
    BY <2>1, <1>3, <1>4 DEF TicketsInWindow
  <2>4. Distance(u)' = Ahead(ticket[u], PlusOne(owner))
    BY <1>1 DEF Distance, Ahead
  <2>5. ticket[u] \in Counters /\ owner \in Counters
    BY <2>1 DEF Typed
  <2>6. Ahead(ticket[u], PlusOne(owner)) = Distance(u) - 1
    <3>1. Ahead(ticket[u], PlusOne(owner)) =
            IF Ahead(ticket[u], owner) = 0 THEN W - 1 ELSE Ahead(ticket[u], owner) - 1
      BY <2>5, AheadMoves, Zenon
    <3> QED
      BY <3>1, <2>2, <2>3
  <2> QED
    BY <2>1, <2>2, <2>3, <2>4, <2>6 DEF Counters
<1>6. TicketsInWindow'
  <2>1. Ahead(next', owner') = IF K' = W THEN 0 ELSE K'
    <3>1. Ahead(next, PlusOne(owner)) =
            IF Ahead(next, owner) = 0 THEN W - 1 ELSE Ahead(next, owner) - 1
      BY AheadMoves DEF Typed
    <3>2. K > 0
      <4>1. Distance(t) < K
        BY <1>3 DEF TicketsInWindow
      <4> QED
        BY <4>1, <1>4
    <3> QED
      BY <3>1, <3>2, <1>1, <1>3, TicketsSuffice DEF TicketsInWindow
  <2>2. \A u \in Active' : Distance(u)' < K'
    BY <1>3, <1>5 DEF TicketsInWindow
  <2>3. \A u, v \in Active' : Distance(u)' = Distance(v)' => u = v
    BY <1>5 DEF TicketsInWindow
  <2> QED
    BY <2>1, <2>2, <2>3 DEF TicketsInWindow, Ahead
<1>7. HolderIsFirst'
  <2> SUFFICES ASSUME NEW u \in Threads, pc'[u] \in {"in", "release"}
               PROVE  FALSE
    BY DEF HolderIsFirst
  <2>1. u # t /\ pc[u] \in {"in", "release"}
    BY DEF StoreOwner, Typed
  <2>2. u \in Active' /\ Distance(u) = 0
    BY <2>1, <1>3 DEF HolderIsFirst, Active
  <2> QED
    BY <2>2, <1>5
<1> QED
  BY <1>2, <1>6, <1>7

(* Every step of the ticket lock keeps the tickets in the window [owner,      *)
(* owner + K) of the circle of counter values.                                *)
LEMMA NextIInv == IInv /\ [Next]_vars => IInv'
<1> SUFFICES ASSUME IInv, [Next]_vars PROVE IInv'
  OBVIOUS
<1>1. CASE Next
  <2> PICK t \in Threads : DrawTicket(t) \/ Step(t)
    BY <1>1 DEF Next
  <2> QED
    BY DrawTicketIInv, SeeTurnIInv, LoadOwnerIInv, StoreOwnerIInv DEF Step
<1>2. CASE UNCHANGED vars
  BY <1>2 DEF vars, IInv, Typed, TicketsInWindow, HolderIsFirst, Active, K,
              Ahead, Distance, PlusOne
<1> QED
  BY <1>1, <1>2

(* The inductive invariant holds of the ticket lock.                          *)
THEOREM Invariance == Spec => []IInv
BY InitIInv, NextIInv, PTL DEF Spec

(* Two threads at distance 0 are the same thread.                             *)
LEMMA IInvExcludes == IInv => MutualExclusion
BY DEF IInv, MutualExclusion, TicketsInWindow, HolderIsFirst, Inside, Active

(* At most one thread is between the return of acquire and the return of      *)
(* release, for any number of threads up to the number of counter values.     *)
THEOREM Exclusion == Spec => []MutualExclusion
BY Invariance, IInvExcludes, PTL

(* A thread that sees its turn is the only active one at distance 0.          *)
LEMMA SeesTurnFirst ==
  ASSUME NEW t \in Threads, IInv, SeeTurn(t), NEW u \in Active, u # t
  PROVE  Distance(t) = 0 /\ Distance(u) \in Int /\ Distance(u) > 0
<1>1. Typed /\ t \in Active /\ u \in Threads
  BY DEF IInv, SeeTurn, Active
<1>2. Distance(t) = 0
  BY <1>1, TicketsSuffice DEF SeeTurn, Distance, Typed, Counters
<1>3. Distance(u) \in Counters
  BY <1>1, DistanceIsAhead
<1>4. Distance(u) # Distance(t)
  BY <1>1 DEF IInv, TicketsInWindow
<1> QED
  BY <1>2, <1>3, <1>4 DEF Counters

(* The threads that wait get in by the distance of their tickets from owner,  *)
(* which is the order in which acquire drew them.                             *)
THEOREM InOrder == Spec => [][InTurn]_vars
<1>1. IInv /\ [Next]_vars => [InTurn]_vars
  <2> SUFFICES ASSUME IInv, Next, NEW t \in Threads, NEW u \in Threads,
                      pc[t] = "spin", pc[u] = "spin", pc'[u] = "in", t # u
               PROVE  Distance(u) < Distance(t)
    BY DEF InTurn
  <2> PICK v \in Threads : DrawTicket(v) \/ Step(v)
    BY DEF Next
  <2>1. SeeTurn(u)
    BY DEF DrawTicket, Step, SeeTurn, LoadOwner, StoreOwner, IInv, Typed
  <2>2. t \in Active
    BY DEF Active
  <2> QED
    BY <2>1, <2>2, SeesTurnFirst
<1> QED
  BY <1>1, Invariance, PTL DEF Spec

(* Each step of the ticket lock is a step of the abstract lock or changes     *)
(* nothing there: drawing a ticket is the call, seeing it is getting in, and  *)
(* the store of owner is leaving; the load of owner is invisible.             *)
LEMMA StepSimulates == IInv /\ [Next]_vars => [LockAbs!Next]_Phase
<1> SUFFICES ASSUME IInv, [Next]_vars PROVE [LockAbs!Next]_Phase
  OBVIOUS
<1>0. pc \in [Threads -> {"out", "spin", "in", "release"}]
  BY DEF IInv, Typed
<1>1. ASSUME NEW t \in Threads, DrawTicket(t) PROVE LockAbs!Call(t)
  BY <1>0, <1>1, Zenon DEF DrawTicket, LockAbs!Call, Phase
<1>2. ASSUME NEW t \in Threads, SeeTurn(t) PROVE LockAbs!Enter(t)
  <2>1. \A u \in Threads : Phase[u] # "in"
    <3> SUFFICES ASSUME NEW u \in Threads, Phase[u] = "in" PROVE FALSE
      OBVIOUS
    <3>1. pc[u] \in {"in", "release"}
      BY <1>0 DEF Phase
    <3>2. u \in Active /\ u # t /\ Distance(u) = 0
      BY <3>1, <1>2 DEF Active, SeeTurn, IInv, HolderIsFirst
    <3> QED
      BY <3>2, <1>2, SeesTurnFirst
  <2>2. Phase[t] = "acquiring" /\ Phase' = [Phase EXCEPT ![t] = "in"]
    BY <1>0, <1>2, Zenon DEF SeeTurn, Phase
  <2> QED
    BY <2>1, <2>2 DEF LockAbs!Enter
<1>3. ASSUME NEW t \in Threads, LoadOwner(t) PROVE UNCHANGED Phase
  BY <1>0, <1>3 DEF LoadOwner, Phase
<1>4. ASSUME NEW t \in Threads, StoreOwner(t) PROVE LockAbs!Leave(t)
  BY <1>0, <1>4, Zenon DEF StoreOwner, LockAbs!Leave, Phase
<1>5. CASE UNCHANGED vars
  BY <1>5 DEF vars, Phase
<1>6. CASE Next
  <2> PICK t \in Threads : DrawTicket(t) \/ Step(t)
    BY <1>6 DEF Next
  <2> QED
    BY <1>1, <1>2, <1>3, <1>4 DEF Step, LockAbs!Next
<1> QED
  BY <1>5, <1>6

(* The ticket lock implements the abstract lock, for any number of threads up *)
(* to the number of counter values.                                           *)
THEOREM Refinement == Spec => LockAbs!Spec
<1>1. Init => LockAbs!Init
  BY DEF Init, LockAbs!Init, Phase
<1> QED
  BY <1>1, StepSimulates, Invariance, PTL DEF Spec, LockAbs!Spec

----------------------------------------------------------------------------
(* The queue of threads.  By the pigeonhole principle the K tickets are at    *)
(* all of the distances 0 .. K-1, so Queue names each active thread once.     *)
LEMMA TicketsFillWindow ==
  ASSUME IInv, NEW d \in 0..(K - 1)
  PROVE  \E t \in Active : Distance(t) = d
<1> DEFINE S == 0..(K - 1)
           f == [t \in Active |-> Distance(t)]
<1>1. K \in Nat
  BY ActiveFinite
<1>2. f \in [Active -> S]
  <2> SUFFICES ASSUME NEW t \in Active PROVE Distance(t) \in S
    OBVIOUS
  <2>1. Distance(t) \in Counters
    BY DistanceIsAhead DEF Active, IInv
  <2>2. Distance(t) < K
    BY DEF IInv, TicketsInWindow
  <2> QED
    BY <1>1, <2>1, <2>2 DEF Counters
<1>3. \A t, u \in Active : f[t] = f[u] => t = u
  BY DEF IInv, TicketsInWindow
<1>4. f \in Injection(Active, S)
  BY <1>2, <1>3 DEF Injection, IsInjective
<1>5. IsFiniteSet(S) /\ Cardinality(S) = K
  BY <1>1, FS_Interval
<1>6. f \in Surjection(Active, S)
  BY <1>4, <1>5, FS_Injection DEF K
<1>7. \E t \in Active : f[t] = d
  BY <1>6, Zenon DEF Surjection
<1> QED
  BY <1>7

(* The thread at place i of the queue is the one whose ticket is i - 1 ahead. *)
LEMMA QueuePlaces == IInv => QueueInPlace
<1> SUFFICES ASSUME IInv PROVE QueueInPlace
  OBVIOUS
<1>1. K \in Nat
  BY ActiveFinite
<1>2. ASSUME NEW i \in 1..K PROVE Queue[i] \in Active /\ Distance(Queue[i]) = i - 1
  <2>1. i - 1 \in 0..(K - 1)
    BY <1>1
  <2>2. \E t \in Active : Distance(t) = i - 1
    BY <2>1, TicketsFillWindow
  <2>3. Queue[i] = CHOOSE t \in Active : Distance(t) = i - 1
    BY DEF Queue, K
  <2> QED
    BY <2>2, <2>3
<1>3. Queue \in [1..K -> Threads]
  BY <1>2 DEF Queue, K, Active
<1> QED
  BY <1>1, <1>2, <1>3 DEF QueueInPlace

(* The same in the next state.                                                *)
LEMMA QueuePlacesNext == IInv' => QueueInPlace'
BY QueuePlaces, PTL

(* Drawing a ticket appends the thread to the queue.                          *)
LEMMA DrawTicketJoins ==
  ASSUME NEW t \in Threads, IInv, IInv', DrawTicket(t)
  PROVE  Queue' = Append(Queue, t)
<1>1. /\ Active' = Active \cup {t} /\ t \notin Active /\ K' = K + 1 /\ K \in Nat
  BY JoinCounts, ActiveFinite, Zenon DEF DrawTicket, IInv
<1>2. QueueInPlace /\ QueueInPlace'
  BY QueuePlaces, QueuePlacesNext
<1>3. /\ Append(Queue, t) \in Seq(Threads) /\ Len(Append(Queue, t)) = K + 1
      /\ \A i \in 1..K : Append(Queue, t)[i] = Queue[i]
      /\ Append(Queue, t)[K + 1] = t
  BY <1>1, <1>2, AppendProperties DEF QueueInPlace
<1>4. \A u \in Active : Distance(u)' = Distance(u)
  BY <1>1 DEF DrawTicket, Distance, Active, IInv, Typed
<1>5. Distance(t)' = K
  <2>1. Distance(t)' = Ahead(next, owner)
    BY DEF Distance, Ahead, DrawTicket, IInv, Typed
  <2>2. K < W
    BY JoinCounts, Zenon DEF DrawTicket, IInv
  <2> QED
    BY <2>1, <2>2, <1>1 DEF IInv, TicketsInWindow
<1>6. ASSUME NEW i \in 1..(K + 1) PROVE Queue'[i] = Append(Queue, t)[i]
  <2>1. PICK v : v = Queue'[i]
    OBVIOUS
  <2>2. PICK u : u = Append(Queue, t)[i]
    OBVIOUS
  <2>3. v \in Active' /\ Distance(v)' = i - 1
    BY <2>1, <1>1, <1>2 DEF QueueInPlace, Distance
  <2>4. u \in Active' /\ Distance(u)' = i - 1
    <3>1. CASE i \in 1..K
      <4>1. u = Queue[i]
        BY <3>1, <2>2, <1>3
      <4>2. u \in Active /\ Distance(u) = i - 1
        BY <4>1, <3>1, <1>2 DEF QueueInPlace
      <4> QED
        BY <4>2, <1>1, <1>4
    <3>2. CASE i = K + 1
      <4>1. u = t
        BY <3>2, <2>2, <1>3
      <4> QED
        BY <4>1, <3>2, <1>1, <1>5
    <3> QED
      BY <3>1, <3>2, <1>1
  <2>5. \A x, y \in Active' : Distance(x)' = Distance(y)' => x = y
    BY DEF IInv, TicketsInWindow
  <2> QED
    BY <2>1, <2>2, <2>3, <2>4, <2>5, Zenon
<1>7. Queue' \in Seq(Threads) /\ Len(Queue') = K + 1
  BY <1>1, <1>2 DEF QueueInPlace
<1> QED
  BY <1>3, <1>6, <1>7, SeqEqual

(* The store of owner removes the first thread of the queue.                  *)
LEMMA StoreOwnerLeaves ==
  ASSUME NEW t \in Threads, IInv, IInv', StoreOwner(t)
  PROVE  Queue' = Tail(Queue)
<1>1. /\ Active' = Active \ {t} /\ t \in Active /\ K' = K - 1 /\ K \in Nat
  BY LeaveCounts, ActiveFinite, Zenon DEF StoreOwner, IInv
<1>2. QueueInPlace /\ QueueInPlace'
  BY QueuePlaces, QueuePlacesNext
<1>3. Distance(t) = 0 /\ owner' = PlusOne(owner) /\ ticket' = ticket
  BY DEF StoreOwner, IInv, HolderIsFirst
<1>4. K > 0
  BY <1>1, <1>3 DEF IInv, TicketsInWindow
<1>5. /\ Tail(Queue) \in Seq(Threads) /\ Len(Tail(Queue)) = K - 1
      /\ \A i \in 1..(K - 1) : Tail(Queue)[i] = Queue[i + 1]
  <2>1. Queue # <<>>
    BY <1>2, <1>4 DEF QueueInPlace
  <2> QED
    BY <2>1, <1>2, HeadTailProperties DEF QueueInPlace
<1>6. ASSUME NEW i \in 1..(K - 1) PROVE Queue'[i] = Queue[i + 1]
  <2>1. PICK v : v = Queue'[i]
    OBVIOUS
  <2>2. PICK u : u = Queue[i + 1]
    OBVIOUS
  <2>3. v \in Active' /\ Distance(v)' = i - 1
    BY <2>1, <1>1, <1>2 DEF QueueInPlace, Distance
  <2>4. u \in Active /\ Distance(u) = i
    <3>1. i + 1 \in 1..K
      BY <1>1
    <3> QED
      BY <3>1, <2>2, <1>2 DEF QueueInPlace
  <2>5. u \in Active' /\ u \in Threads
    BY <2>4, <1>1, <1>3 DEF Active
  <2>6. Distance(u)' = i - 1
    <3>1. Distance(u) = Ahead(ticket[u], owner) /\ ticket[u] \in Counters /\ owner \in Counters
      BY <2>5, DistanceIsAhead DEF IInv, Typed
    <3>2. Distance(u)' = Ahead(ticket[u], PlusOne(owner))
      BY <1>3 DEF Distance, Ahead
    <3>3. Ahead(ticket[u], PlusOne(owner)) =
            IF Ahead(ticket[u], owner) = 0 THEN W - 1 ELSE Ahead(ticket[u], owner) - 1
      BY <3>1, AheadMoves
    <3> QED
      BY <3>1, <3>2, <3>3, <2>4
  <2>7. \A x, y \in Active' : Distance(x)' = Distance(y)' => x = y
    BY DEF IInv, TicketsInWindow
  <2> QED
    BY <2>1, <2>2, <2>3, <2>5, <2>6, <2>7
<1>7. Queue' \in Seq(Threads) /\ Len(Queue') = K - 1
  BY <1>1, <1>2 DEF QueueInPlace
<1> QED
  BY <1>5, <1>6, <1>7, SeqEqual

(* Drawing a ticket is joining the queue, seeing it is getting in at its      *)
(* head, and the store of owner is leaving it.                                *)
LEMMA StepSimulatesFifo ==
  IInv /\ IInv' /\ [Next]_vars
    => [FifoAbs!Next]_<<[l \in {0} |-> Queue], [l \in {0} |-> Inside # {}]>>
<1> DEFINE queue == [l \in {0} |-> Queue]
           taken == [l \in {0} |-> Inside # {}]
<1> SUFFICES ASSUME IInv, IInv', [Next]_vars
             PROVE  FifoAbs!Next \/ (queue' = queue /\ taken' = taken)
  OBVIOUS
<1>1. ASSUME NEW t \in Threads, DrawTicket(t) PROVE FifoAbs!Join(0, t)
  <2>1. Queue' = Append(Queue, t)
    BY <1>1, DrawTicketJoins
  <2>2. Inside' = Inside
    BY <1>1 DEF DrawTicket, Inside, IInv, Typed
  <2> QED
    BY <2>1, <2>2, Zenon DEF FifoAbs!Join
<1>2. ASSUME NEW t \in Threads, SeeTurn(t) PROVE FifoAbs!Enter(0, t)
  <2>1. t \in Active /\ Typed /\ pc[t] = "spin"
    BY <1>2 DEF SeeTurn, Active, IInv
  <2>2. Inside = {}
    <3> SUFFICES ASSUME NEW u \in Inside PROVE FALSE
      OBVIOUS
    <3>1. u \in Threads /\ u \in Active /\ u # t /\ Distance(u) = 0
      BY <2>1 DEF Inside, Active, IInv, HolderIsFirst
    <3> QED
      BY <3>1, <1>2, SeesTurnFirst
  <2>3. Inside' # {}
    BY <1>2 DEF SeeTurn, Inside, IInv, Typed
  <2>4. Queue # <<>> /\ Head(Queue) = t
    <3>1. Distance(t) = 0
      BY <1>2, <2>1, TicketsSuffice DEF SeeTurn, Distance, Typed, Counters
    <3>2. K \in Nat /\ 0 < K
      BY <2>1, <3>1, ActiveFinite DEF IInv, TicketsInWindow
    <3>3. PICK u : u = Queue[1]
      OBVIOUS
    <3>4. u \in Active /\ Distance(u) = 0 /\ Queue \in Seq(Threads) /\ Len(Queue) = K
      BY <3>2, <3>3, QueuePlaces DEF QueueInPlace
    <3>5. u = t
      BY <3>1, <3>4, <2>1 DEF IInv, TicketsInWindow
    <3>6. Queue # <<>>
      BY <3>2, <3>4
    <3>7. Head(Queue) = Queue[1]
      BY <3>4, <3>6
    <3> QED
      BY <3>3, <3>5, <3>6, <3>7
  <2>5. Queue' = Queue
    <3>1. Active' = Active
      BY <1>2, <2>1, StaysCounts, Zenon DEF SeeTurn
    <3> QED
      BY <3>1, <1>2 DEF Queue, Distance, SeeTurn
  <2> QED
    BY <2>2, <2>3, <2>4, <2>5 DEF FifoAbs!Enter, FifoAbs!MayEnter
<1>3. ASSUME NEW t \in Threads, LoadOwner(t) PROVE queue' = queue /\ taken' = taken
  <2>1. Active' = Active /\ Inside' = Inside
    BY <1>3 DEF LoadOwner, Active, Inside, IInv, Typed
  <2>2. Queue' = Queue
    BY <2>1, <1>3 DEF Queue, Distance, LoadOwner
  <2> QED
    BY <2>1, <2>2
<1>4. ASSUME NEW t \in Threads, StoreOwner(t) PROVE FifoAbs!Leave(0)
  <2>1. Queue' = Tail(Queue)
    BY <1>4, StoreOwnerLeaves
  <2>2. t \in Inside
    BY <1>4 DEF StoreOwner, Inside
  <2>3. Inside' = {}
    <3> SUFFICES ASSUME NEW u \in Inside' PROVE FALSE
      OBVIOUS
    <3>1. u \in Inside /\ u # t
      BY <1>4 DEF StoreOwner, Inside, IInv, Typed
    <3> QED
      BY <3>1, <2>2, IInvExcludes DEF MutualExclusion
  <2> QED
    BY <2>1, <2>2, <2>3 DEF FifoAbs!Leave
<1>5. CASE UNCHANGED vars
  BY <1>5 DEF vars, Queue, Inside, Active, Distance
<1>6. CASE Next
  <2> PICK t \in Threads : DrawTicket(t) \/ Step(t)
    BY <1>6 DEF Next
  <2> HIDE DEF queue, taken
  <2> QED
    BY <1>1, <1>2, <1>3, <1>4 DEF Step, FifoAbs!Next
<1> QED
  BY <1>5, <1>6

(* ticketlock_strong.c implements the first-in first-out lock that the cohort *)
(* lock is built on, although its counters wrap around.                       *)
THEOREM FifoRefinement == Spec => FifoAbs!Spec
<1>1. Init => FifoAbs!Init
  <2> SUFFICES ASSUME Init PROVE FifoAbs!Init
    OBVIOUS
  <2>1. Inside = {} /\ Active = {}
    BY DEF Init, Inside, Active
  <2>2. Queue = <<>>
    BY <2>1, FS_EmptySet DEF Queue
  <2> QED
    BY <2>1, <2>2, Zenon DEF FifoAbs!Init
<1> QED
  BY <1>1, StepSimulatesFifo, Invariance, PTL DEF Spec, FifoAbs!Spec

----------------------------------------------------------------------------
(* The CLH lock.                                                              *)
CONSTANT Nodes
VARIABLES tail, lock, node, pred, allocated, clhpc

Clh == INSTANCE ClhLock WITH pc <- clhpc
clhvars == <<tail, lock, node, pred, allocated, clhpc>>
ClhFifo == INSTANCE FifoLock WITH Locks <- {0}, queue <- [l \in {0} |-> Clh!Queue],
                                  taken <- [l \in {0} |-> Clh!Taken]

ClhTyped ==
  /\ tail \in Nodes /\ lock \in [Nodes -> {0, 1}]
  /\ node \in [Threads -> Nodes] /\ pred \in [Threads -> Nodes]
  /\ clhpc \in [Threads -> {"none", "out", "marked", "spin", "in", "recycle"}]

\* the node that the thread alone may use, mark or free
Own(t) == IF clhpc[t] \in {"out", "marked"} THEN node[t] ELSE pred[t]

NodesOwned ==
  /\ tail \in allocated
  /\ \A t \in Threads : clhpc[t] # "none" => Own(t) \in allocated /\ Own(t) # tail
  /\ \A t, u \in Threads :
       clhpc[t] # "none" /\ clhpc[u] # "none" /\ Own(t) = Own(u) => t = u

Marked == \A t \in Threads : clhpc[t] \in {"marked", "spin", "in"} => lock[node[t]] = 1

Waiting(t) == clhpc[t] \in {"spin", "in"}

\* sequence q is the chain of nodes from the one inside to the tail
Chain(q) ==
  /\ \A a, b \in 1..Len(q) : q[a] = q[b] => a = b
  /\ \A a \in 1..Len(q) : q[a] \in Threads /\ Waiting(q[a])
  /\ \A t \in Threads : Waiting(t) => \E a \in 1..Len(q) : q[a] = t
  /\ \A a \in 2..Len(q) : pred[q[a]] = node[q[a - 1]] /\ clhpc[q[a]] = "spin"
  /\ Len(q) > 0 => tail = node[q[Len(q)]]

ClhInv == ClhTyped /\ NodesOwned /\ Marked /\ \E q \in Seq(Threads) : Chain(q)

QueueIsChain == \A q \in Seq(Threads) : Chain(q) => Clh!Queue = q

----------------------------------------------------------------------------
(* The nodes of the waiting threads are all different, and nobody is the      *)
(* predecessor of the first.                                                  *)
LEMMA ChainNodes ==
  ASSUME ClhTyped, NodesOwned, NEW q \in Seq(Threads), Chain(q)
  PROVE  /\ \A a, b \in 1..Len(q) : node[q[a]] = node[q[b]] => a = b
         /\ \A a \in 1..Len(q) : pred[q[1]] # node[q[a]]
         /\ \A a \in 1..Len(q), t \in Threads :
              clhpc[t] \notin {"none", "spin", "in"} => Own(t) # node[q[a]]
<1>0. Len(q) \in Nat
  OBVIOUS
<1>1. ASSUME NEW a \in 1..Len(q), a # Len(q)
      PROVE  /\ a + 1 \in 2..Len(q) /\ q[a + 1] \in Threads /\ clhpc[q[a + 1]] = "spin"
             /\ node[q[a]] = Own(q[a + 1])
  <2>1. a + 1 \in 2..Len(q) /\ a + 1 \in 1..Len(q) /\ (a + 1) - 1 = a
    BY <1>0, <1>1
  <2>2. pred[q[a + 1]] = node[q[a]] /\ clhpc[q[a + 1]] = "spin"
    BY <2>1, Zenon DEF Chain
  <2> QED
    BY <2>1, <2>2 DEF Own, Chain
<1>2. ASSUME NEW a \in 1..Len(q), a = Len(q) PROVE node[q[a]] = tail
  BY <1>0, <1>2 DEF Chain
<1>3. ASSUME NEW a \in 1..Len(q), NEW b \in 1..Len(q), node[q[a]] = node[q[b]] PROVE a = b
  <2>1. CASE a # Len(q) /\ b # Len(q)
    <3>1. q[a + 1] = q[b + 1]
      BY <1>1, <1>3, <2>1 DEF NodesOwned
    <3>2. a + 1 \in 1..Len(q) /\ b + 1 \in 1..Len(q)
      BY <1>0, <2>1
    <3>3. a + 1 = b + 1
      BY <3>1, <3>2, Zenon DEF Chain
    <3> QED
      BY <3>3
  <2>2. CASE a = Len(q) /\ b # Len(q)
    BY <1>1, <1>2, <1>3, <2>2 DEF NodesOwned
  <2>3. CASE a # Len(q) /\ b = Len(q)
    BY <1>1, <1>2, <1>3, <2>3 DEF NodesOwned
  <2> QED
    BY <2>1, <2>2, <2>3
<1>4. ASSUME NEW a \in 1..Len(q) PROVE pred[q[1]] # node[q[a]]
  <2>1. 1 \in 1..Len(q)
    BY <1>0
  <2>2. q[1] \in Threads /\ Own(q[1]) = pred[q[1]] /\ clhpc[q[1]] # "none"
    BY <2>1 DEF Chain, Own, Waiting
  <2>3. CASE a = Len(q)
    BY <1>2, <2>2, <2>3 DEF NodesOwned
  <2>4. CASE a # Len(q)
    <3>1. q[1] = q[a + 1] \/ pred[q[1]] # node[q[a]]
      BY <1>1, <2>2, <2>4 DEF NodesOwned
    <3>2. a + 1 \in 1..Len(q) /\ a + 1 # 1
      BY <1>0, <2>4
    <3> QED
      BY <2>1, <3>1, <3>2 DEF Chain
  <2> QED
    BY <2>3, <2>4
<1>5. ASSUME NEW a \in 1..Len(q), NEW t \in Threads, clhpc[t] \notin {"none", "spin", "in"}
      PROVE  Own(t) # node[q[a]]
  <2>1. CASE a = Len(q)
    BY <1>2, <1>5, <2>1 DEF NodesOwned
  <2>2. CASE a # Len(q)
    BY <1>1, <1>5, <2>2 DEF NodesOwned
  <2> QED
    BY <2>1, <2>2
<1> QED
  BY <1>3, <1>4, <1>5

(* Along the chain, the thread before q[a] is q[a - 1].                       *)
LEMMA ChainBefore ==
  ASSUME ClhTyped, NodesOwned, NEW q \in Seq(Threads), Chain(q)
  PROVE  /\ Clh!Active = {q[a] : a \in 1..Len(q)}
         /\ ~ \E u \in Clh!Active : Len(q) > 0 /\ node[u] = pred[q[1]]
         /\ \A a \in 2..Len(q) :
              /\ \E u \in Clh!Active : node[u] = pred[q[a]]
              /\ (CHOOSE u \in Clh!Active : node[u] = pred[q[a]]) = q[a - 1]
<1>0. Len(q) \in Nat
  OBVIOUS
<1>1. Clh!Active = {q[a] : a \in 1..Len(q)}
  BY DEF Clh!Active, Chain, Waiting, ClhTyped
<1>2. ~ \E u \in Clh!Active : Len(q) > 0 /\ node[u] = pred[q[1]]
  BY <1>1, ChainNodes
<1>3. ASSUME NEW a \in 2..Len(q)
      PROVE  /\ \E u \in Clh!Active : node[u] = pred[q[a]]
             /\ (CHOOSE u \in Clh!Active : node[u] = pred[q[a]]) = q[a - 1]
  <2>1. a - 1 \in 1..Len(q)
    BY <1>0
  <2>2. q[a - 1] \in Clh!Active /\ node[q[a - 1]] = pred[q[a]]
    BY <1>1, <2>1 DEF Chain
  <2>3. ASSUME NEW u \in Clh!Active, node[u] = pred[q[a]] PROVE u = q[a - 1]
    <3>1. PICK b \in 1..Len(q) : u = q[b]
      BY <1>1
    <3>2. node[q[b]] = node[q[a - 1]]
      BY <2>2, <2>3, <3>1
    <3> QED
      BY <2>1, <3>1, <3>2, ChainNodes
  <2> QED
    BY <2>2, <2>3
<1> QED
  BY <1>1, <1>2, <1>3

(* The recursive definition of Place has a solution, so Place is one.         *)
LEMMA PlaceSolves ==
  ASSUME ClhTyped, NodesOwned, NEW q \in Seq(Threads), Chain(q)
  PROVE  Clh!Place = [t \in Clh!Active |->
                        IF \E u \in Clh!Active : node[u] = pred[t]
                        THEN 1 + Clh!Place[CHOOSE u \in Clh!Active : node[u] = pred[t]]
                        ELSE 1]
<1> DEFINE index == [t \in Clh!Active |-> CHOOSE a \in 1..Len(q) : q[a] = t]
<1>0. Len(q) \in Nat
  OBVIOUS
<1>1. ASSUME NEW a \in 1..Len(q) PROVE index[q[a]] = a
  <2>1. q[a] \in Clh!Active
    BY ChainBefore
  <2>2. \A b \in 1..Len(q) : q[b] = q[a] => b = a
    BY DEF Chain
  <2> QED
    BY <2>1, <2>2
<1> DEFINE Has(t) == \E u \in Clh!Active : node[u] = pred[t]
           Before(t) == CHOOSE u \in Clh!Active : node[u] = pred[t]
<1>4. /\ ~(Len(q) > 0 /\ Has(q[1]))
      /\ \A a \in 2..Len(q) : Has(q[a]) /\ Before(q[a]) = q[a - 1]
  BY ChainBefore
<1> HIDE DEF index, Has, Before
<1>2. ASSUME NEW t \in Clh!Active
      PROVE  index[t] = IF Has(t) THEN 1 + index[Before(t)] ELSE 1
  <2>1. PICK a \in 1..Len(q) : t = q[a]
    BY ChainBefore
  <2>2. CASE a = 1
    <3>1. index[t] = 1 /\ ~Has(t)
      BY <1>0, <1>1, <1>4, <2>1, <2>2
    <3> QED
      BY <3>1
  <2>3. CASE a # 1
    <3>1. a \in 2..Len(q) /\ a - 1 \in 1..Len(q)
      BY <1>0, <2>3
    <3>2. Has(t) /\ Before(t) = q[a - 1]
      BY <1>4, <2>1, <3>1
    <3>3. index[t] = a /\ index[q[a - 1]] = a - 1
      BY <1>1, <2>1, <3>1
    <3> QED
      BY <3>1, <3>2, <3>3
  <2> QED
    BY <2>2, <2>3
<1>3. index = [t \in Clh!Active |-> IF Has(t) THEN 1 + index[Before(t)] ELSE 1]
  <2>1. index = [t \in Clh!Active |-> index[t]]
    BY DEF index
  <2> QED
    BY <1>2, <2>1, Zenon
<1> QED
  BY <1>3, Zenon DEF Clh!Place, Has, Before

(* The thread at place a of the chain has place a in the queue.               *)
LEMMA ChainPlaces ==
  ASSUME ClhTyped, NodesOwned, NEW q \in Seq(Threads), Chain(q), NEW c \in 1..Len(q)
  PROVE  Clh!Place[q[c]] = c
<1> DEFINE T == {a \in 1..Len(q) : Clh!Place[q[a]] # a}
           Less == {p \in Nat \X Nat : p[1] < p[2]}
<1>0. IsWellFoundedOn(Less, Nat)
  BY NatLessThanWellFounded, Zenon DEF OpToRel
<1>1. T \subseteq Nat /\ Len(q) \in Nat
  OBVIOUS
<1> SUFFICES ASSUME T # {} PROVE FALSE
  OBVIOUS
<1>3. PICK a \in T : \A b \in T : ~(<<b, a>> \in Less)
  <2> HIDE DEF T, Less
  <2> QED
    BY <1>0, <1>1, WFMin, Zenon
<1>4. a \in 1..Len(q) /\ Clh!Place[q[a]] # a /\ q[a] \in Clh!Active
  BY <1>3, ChainBefore
<1>5. CASE a = 1
  <2>1. ~ \E u \in Clh!Active : node[u] = pred[q[a]]
    BY <1>1, <1>4, <1>5, ChainBefore
  <2>2. Clh!Place[q[a]] = 1
    BY <1>4, <2>1, PlaceSolves, Zenon
  <2> QED
    BY <1>4, <1>5, <2>2
<1>6. CASE a # 1
  <2>1. a \in 2..Len(q) /\ a - 1 \in 1..Len(q) /\ a - 1 \in Nat /\ a \in Nat /\ a - 1 < a
    BY <1>1, <1>4, <1>6
  <2>2. /\ \E u \in Clh!Active : node[u] = pred[q[a]]
        /\ (CHOOSE u \in Clh!Active : node[u] = pred[q[a]]) = q[a - 1]
    BY <2>1, ChainBefore, Zenon
  <2>3. Clh!Place[q[a]] = 1 + Clh!Place[q[a - 1]]
    BY <1>4, <2>2, PlaceSolves, Zenon
  <2>4. <<a - 1, a>> \in Less
    BY <2>1
  <2>5. Clh!Place[q[a - 1]] = a - 1
    BY <1>3, <2>1, <2>4
  <2> QED
    BY <1>4, <2>1, <2>3, <2>5
<1> QED
  BY <1>5, <1>6

(* The queue of the abstract lock is the chain.                               *)
LEMMA QueueOfChain == ClhTyped /\ NodesOwned => QueueIsChain
<1> SUFFICES ASSUME ClhTyped, NodesOwned, NEW q \in Seq(Threads), Chain(q)
             PROVE  Clh!Queue = q
  BY DEF QueueIsChain
<1>0. Len(q) \in Nat /\ q \in [1..Len(q) -> Threads]
  BY LenProperties
<1>1. Clh!Active = {q[a] : a \in 1..Len(q)}
  BY ChainBefore
<1>2. q \in Surjection(1..Len(q), Clh!Active)
  <2>1. q \in [1..Len(q) -> Clh!Active]
    BY <1>0, <1>1
  <2>2. \A t \in Clh!Active : \E a \in 1..Len(q) : q[a] = t
    BY <1>1
  <2> QED
    BY <2>1, <2>2, Zenon DEF Surjection
<1>3. q \in Injection(1..Len(q), Clh!Active)
  BY <1>2 DEF Surjection, Injection, IsInjective, Chain
<1>4. IsFiniteSet(1..Len(q)) /\ Cardinality(1..Len(q)) = Len(q)
  BY <1>0, FS_Interval
<1>5. Cardinality(Clh!Active) = Len(q)
  BY <1>2, <1>3, <1>4, FS_Surjection
<1> DEFINE Member(c) == CHOOSE t \in Clh!Active : Clh!Place[t] = c
<1>6. ASSUME NEW c \in 1..Len(q) PROVE Member(c) = q[c]
  <2>1. q[c] \in Clh!Active /\ Clh!Place[q[c]] = c
    BY <1>1, ChainPlaces
  <2>2. ASSUME NEW t \in Clh!Active, Clh!Place[t] = c PROVE t = q[c]
    <3>1. PICK b \in 1..Len(q) : t = q[b]
      BY <1>1
    <3> QED
      BY <2>2, <3>1, ChainPlaces
  <2> QED
    BY <2>1, <2>2
<1>7. Clh!Queue = [c \in 1..Len(q) |-> q[c]]
  <2>1. Clh!Queue = [c \in 1..Clh!Cardinality(Clh!Active) |-> Member(c)]
    BY Zenon DEF Clh!Queue
  <2>2. Clh!Cardinality(Clh!Active) = Cardinality(Clh!Active)
    BY Zenon DEF Clh!Cardinality, Cardinality
  <2> HIDE DEF Member
  <2> QED
    BY <1>5, <1>6, <2>1, <2>2
<1> QED
  BY <1>0, <1>7

(* The same in the next state.                                                *)
LEMMA QueueOfChainNext == ClhTyped' /\ NodesOwned' => QueueIsChain'
BY QueueOfChain, PTL

----------------------------------------------------------------------------
(* The chain depends only on the threads that wait, their nodes and the tail. *)
LEMMA ChainKept ==
  ASSUME NEW q \in Seq(Threads), Chain(q), tail' = tail,
         \A u \in Threads : /\ Waiting(u)' <=> Waiting(u)
                            /\ Waiting(u) => /\ node'[u] = node[u] /\ pred'[u] = pred[u]
                                             /\ clhpc[u] = "spin" => clhpc'[u] = "spin"
  PROVE  Chain(q)'
<1>0. Len(q) \in Nat /\ \A c \in 1..Len(q) : q[c] \in Threads /\ Waiting(q[c])
  BY DEF Chain
<1>1. \A c \in 1..Len(q) : /\ Waiting(q[c])' /\ node'[q[c]] = node[q[c]] /\ pred'[q[c]] = pred[q[c]]
                           /\ clhpc[q[c]] = "spin" => clhpc'[q[c]] = "spin"
  BY <1>0
<1>2. \A c \in 2..Len(q) : pred'[q[c]] = node'[q[c - 1]] /\ clhpc'[q[c]] = "spin"
  <2> SUFFICES ASSUME NEW c \in 2..Len(q)
               PROVE  pred'[q[c]] = node'[q[c - 1]] /\ clhpc'[q[c]] = "spin"
    OBVIOUS
  <2>1. c \in 1..Len(q) /\ c - 1 \in 1..Len(q)
    BY <1>0
  <2> QED
    BY <1>1, <2>1 DEF Chain
<1>3. Len(q) > 0 => tail' = node'[q[Len(q)]]
  BY <1>0, <1>1 DEF Chain
<1> QED
  BY <1>0, <1>1, <1>2, <1>3 DEF Chain, Waiting

(* malloc gives a new thread object a node of its own.                        *)
LEMMA CreateChain ==
  ASSUME ClhTyped, NodesOwned, Marked, NEW q \in Seq(Threads), Chain(q),
         NEW t \in Threads, Clh!create_thread(t)
  PROVE  ClhTyped' /\ NodesOwned' /\ Marked' /\ Chain(q)'
<1>0. PICK x \in Nodes \ allocated : /\ allocated' = allocated \cup {x}
                                     /\ node' = [node EXCEPT ![t] = x]
  BY Zenon DEF Clh!create_thread
<1>1. /\ clhpc[t] = "none" /\ clhpc' = [clhpc EXCEPT ![t] = "out"]
      /\ tail' = tail /\ lock' = lock /\ pred' = pred
  BY DEF Clh!create_thread
<1>2. ClhTyped'
  BY <1>0, <1>1 DEF ClhTyped
<1>3. /\ Own(t)' = x /\ clhpc'[t] = "out"
      /\ \A u \in Threads \ {t} : Own(u)' = Own(u) /\ clhpc'[u] = clhpc[u] /\ node'[u] = node[u]
  BY <1>0, <1>1 DEF ClhTyped, Own
<1>4. NodesOwned'
  BY <1>0, <1>1, <1>3 DEF NodesOwned
<1>5. Marked'
  BY <1>1, <1>3 DEF Marked
<1>6. Chain(q)'
  BY <1>1, <1>3, ChainKept DEF Waiting
<1> QED
  BY <1>2, <1>4, <1>5, <1>6

(* Only its own node is freed with a thread object; nobody reads it then.     *)
LEMMA DisposeChain ==
  ASSUME ClhTyped, NodesOwned, Marked, NEW q \in Seq(Threads), Chain(q),
         NEW t \in Threads, Clh!dispose_thread(t)
  PROVE  ClhTyped' /\ NodesOwned' /\ Marked' /\ Chain(q)'
<1>1. /\ clhpc[t] = "out" /\ clhpc' = [clhpc EXCEPT ![t] = "none"] /\ tail' = tail
      /\ lock' = [lock EXCEPT ![node[t]] = 0]
      /\ allocated' = allocated \ {node[t]}
      /\ node' = [node EXCEPT ![t] = Clh!Sentinel]
      /\ pred' = [pred EXCEPT ![t] = Clh!Sentinel]
  BY DEF Clh!dispose_thread
<1>s. Clh!Sentinel \in Nodes
  BY DEF Clh!Sentinel, ClhTyped
<1>2. ClhTyped'
  BY <1>1, <1>s DEF ClhTyped
<1>3. /\ Own(t) = node[t] /\ clhpc'[t] = "none"
      /\ \A u \in Threads \ {t} : /\ Own(u)' = Own(u) /\ clhpc'[u] = clhpc[u]
                                   /\ node'[u] = node[u] /\ pred'[u] = pred[u]
  BY <1>1 DEF ClhTyped, Own
<1>4. NodesOwned'
  BY <1>1, <1>3 DEF NodesOwned
<1>5. ASSUME NEW u \in Threads, clhpc'[u] \in {"marked", "spin", "in"} PROVE lock'[node'[u]] = 1
  <2>1. u # t /\ node'[u] = node[u] /\ clhpc[u] = clhpc'[u] /\ lock[node[u]] = 1
    BY <1>3, <1>5 DEF Marked
  <2>2. node[u] # node[t]
    <3>1. CASE clhpc[u] = "marked"
      BY <1>1, <1>3, <2>1, <3>1 DEF NodesOwned, Own
    <3>2. CASE Waiting(u)
      <4>1. PICK b \in 1..Len(q) : q[b] = u
        BY <3>2 DEF Chain
      <4> QED
        BY <1>1, <1>3, <4>1, ChainNodes
    <3> QED
      BY <1>5, <2>1, <3>1, <3>2 DEF Waiting
  <2> QED
    BY <2>1, <2>2, <1>1 DEF ClhTyped
<1>6. Chain(q)'
  BY <1>1, <1>3, ChainKept DEF Waiting
<1> QED
  BY <1>2, <1>4, <1>5, <1>6 DEF Marked

(* The thread marks its own node before it joins.                             *)
LEMMA MarkChain ==
  ASSUME ClhTyped, NodesOwned, Marked, NEW q \in Seq(Threads), Chain(q),
         NEW t \in Threads, Clh!MarkNode(t)
  PROVE  ClhTyped' /\ NodesOwned' /\ Marked' /\ Chain(q)'
<1>1. /\ clhpc[t] = "out" /\ clhpc' = [clhpc EXCEPT ![t] = "marked"]
      /\ lock' = [lock EXCEPT ![node[t]] = 1]
      /\ tail' = tail /\ node' = node /\ pred' = pred /\ allocated' = allocated
  BY DEF Clh!MarkNode
<1>2. ClhTyped'
  BY <1>1 DEF ClhTyped
<1>3. /\ clhpc'[t] = "marked" /\ Own(t)' = Own(t)
      /\ \A u \in Threads \ {t} : Own(u)' = Own(u) /\ clhpc'[u] = clhpc[u]
  BY <1>1 DEF ClhTyped, Own
<1>4. NodesOwned'
  BY <1>1, <1>3 DEF NodesOwned
<1>5. Marked'
  BY <1>1, <1>3 DEF Marked, ClhTyped
<1>6. Chain(q)'
  BY <1>1, <1>3, ChainKept DEF Waiting
<1> QED
  BY <1>2, <1>4, <1>5, <1>6

(* The exchange of the tail appends the thread to the chain.                  *)
LEMMA ExchangeChain ==
  ASSUME ClhTyped, NodesOwned, Marked, NEW q \in Seq(Threads), Chain(q),
         NEW t \in Threads, Clh!Exchange(t)
  PROVE  ClhTyped' /\ NodesOwned' /\ Marked' /\ Chain(Append(q, t))'
<1>1. /\ clhpc[t] = "marked" /\ clhpc' = [clhpc EXCEPT ![t] = "spin"]
      /\ pred' = [pred EXCEPT ![t] = tail] /\ tail' = node[t]
      /\ lock' = lock /\ node' = node /\ allocated' = allocated
  BY DEF Clh!Exchange
<1>2. ClhTyped'
  BY <1>1 DEF ClhTyped
<1>3. /\ Own(t) = node[t] /\ Own(t)' = tail /\ clhpc'[t] = "spin" /\ pred'[t] = tail
      /\ \A u \in Threads \ {t} : /\ Own(u)' = Own(u) /\ clhpc'[u] = clhpc[u]
                                   /\ pred'[u] = pred[u]
  BY <1>1 DEF ClhTyped, Own
<1>4. NodesOwned'
  BY <1>1, <1>3 DEF NodesOwned
<1>5. Marked'
  BY <1>1, <1>3 DEF Marked
<1> DEFINE s == Append(q, t)
<1>6. /\ s \in Seq(Threads) /\ Len(s) = Len(q) + 1 /\ Len(q) \in Nat
      /\ \A a \in 1..Len(q) : s[a] = q[a]
      /\ s[Len(q) + 1] = t
  BY AppendProperties
<1> HIDE DEF s
<1>7. \A a \in 1..Len(q) : q[a] \in Threads /\ q[a] # t /\ Waiting(q[a])
  BY <1>1 DEF Chain, Waiting
<1>8. \A a \in 1..Len(s) : a \in 1..Len(q) \/ a = Len(q) + 1
  BY <1>6
<1>9. \A a, b \in 1..Len(s) : s[a] = s[b] => a = b
  <2> SUFFICES ASSUME NEW a \in 1..Len(s), NEW b \in 1..Len(s), s[a] = s[b] PROVE a = b
    OBVIOUS
  <2>1. CASE a \in 1..Len(q) /\ b \in 1..Len(q)
    <3>1. q[a] = q[b]
      BY <1>6, <2>1
    <3> QED
      BY <2>1, <3>1, Zenon DEF Chain
  <2>2. CASE a = Len(q) + 1 /\ b \in 1..Len(q)
    BY <1>6, <1>7, <2>2
  <2>3. CASE a \in 1..Len(q) /\ b = Len(q) + 1
    BY <1>6, <1>7, <2>3
  <2> QED
    BY <1>8, <2>1, <2>2, <2>3
<1>10. \A a \in 1..Len(s) : s[a] \in Threads /\ Waiting(s[a])'
  BY <1>3, <1>6, <1>7, <1>8 DEF Waiting
<1>11. ASSUME NEW u \in Threads, Waiting(u)' PROVE \E a \in 1..Len(s) : s[a] = u
  <2>1. CASE u = t
    BY <1>6, <2>1
  <2>2. CASE u # t
    <3>1. Waiting(u)
      BY <1>3, <1>11, <2>2 DEF Waiting
    <3>2. PICK a \in 1..Len(q) : q[a] = u
      BY <3>1 DEF Chain
    <3> QED
      BY <1>6, <3>2
  <2> QED
    BY <2>1, <2>2
<1>12. ASSUME NEW a \in 2..Len(s)
       PROVE  pred'[s[a]] = node'[s[a - 1]] /\ clhpc'[s[a]] = "spin"
  <2>1. CASE a \in 2..Len(q)
    <3>1. a \in 1..Len(q) /\ a - 1 \in 1..Len(q)
      BY <1>6, <2>1
    <3>2. pred[q[a]] = node[q[a - 1]] /\ clhpc[q[a]] = "spin"
      BY <2>1 DEF Chain
    <3> QED
      BY <1>1, <1>3, <1>6, <1>7, <3>1, <3>2
  <2>2. CASE a = Len(q) + 1
    <3>1. Len(q) > 0 /\ a - 1 = Len(q) /\ Len(q) \in 1..Len(q) /\ s[a] = t /\ s[a - 1] = q[Len(q)]
      BY <1>6, <2>2
    <3>2. tail = node[q[Len(q)]]
      BY <3>1 DEF Chain
    <3> QED
      BY <1>1, <1>3, <3>1, <3>2
  <2> QED
    BY <1>6, <2>1, <2>2
<1>13. tail' = node'[s[Len(s)]]
  BY <1>1, <1>6
<1>14. Chain(s)'
  BY <1>9, <1>10, <1>11, <1>12, <1>13, Zenon DEF Chain
<1> QED
  BY <1>2, <1>4, <1>5, <1>14 DEF s

(* Whoever sees its predecessor's node unlocked is the first of the chain,    *)
(* and that node is allocated.                                                *)
LEMMA SeeUnlockedFirst ==
  ASSUME ClhTyped, NodesOwned, Marked, NEW q \in Seq(Threads), Chain(q),
         NEW t \in Threads, Clh!SeeUnlocked(t)
  PROVE  /\ Len(q) > 0 /\ q[1] = t /\ clhpc[t] = "spin"
         /\ clhpc' = [clhpc EXCEPT ![t] = "in"]
         /\ UNCHANGED <<tail, lock, node, pred, allocated>>
<1>1. clhpc[t] = "spin" /\ lock[pred[t]] = 0 /\ UNCHANGED <<tail, lock, node, pred, allocated>>
  BY DEF Clh!SeeUnlocked
<1>2. PICK a \in 1..Len(q) : q[a] = t
  BY <1>1 DEF Chain, Waiting
<1>3. a = 1
  <2> SUFFICES ASSUME a # 1 PROVE FALSE
    OBVIOUS
  <2>1. a \in 2..Len(q) /\ a - 1 \in 1..Len(q)
    OBVIOUS
  <2>2. pred[t] = node[q[a - 1]] /\ q[a - 1] \in Threads /\ Waiting(q[a - 1])
    BY <1>2, <2>1 DEF Chain
  <2> QED
    BY <1>1, <2>2 DEF Marked, Waiting
<1>4. pred[t] \in allocated
  BY <1>1 DEF NodesOwned, Own
<1> QED
  BY <1>1, <1>2, <1>3, <1>4 DEF Clh!SeeUnlocked

(* Getting in leaves the chain as it is.                                      *)
LEMMA SeeUnlockedChain ==
  ASSUME ClhTyped, NodesOwned, Marked, NEW q \in Seq(Threads), Chain(q),
         NEW t \in Threads, Clh!SeeUnlocked(t)
  PROVE  ClhTyped' /\ NodesOwned' /\ Marked' /\ Chain(q)'
<1>1. /\ Len(q) > 0 /\ q[1] = t /\ clhpc[t] = "spin" /\ clhpc' = [clhpc EXCEPT ![t] = "in"]
      /\ tail' = tail /\ lock' = lock /\ node' = node /\ pred' = pred /\ allocated' = allocated
  BY SeeUnlockedFirst
<1>2. ClhTyped'
  BY <1>1 DEF ClhTyped
<1>3. /\ clhpc'[t] = "in" /\ Own(t)' = Own(t)
      /\ \A u \in Threads \ {t} : Own(u)' = Own(u) /\ clhpc'[u] = clhpc[u]
  BY <1>1 DEF ClhTyped, Own
<1>4. NodesOwned'
  BY <1>1, <1>3 DEF NodesOwned
<1>5. Marked'
  BY <1>1, <1>3 DEF Marked
<1>6. Chain(q)'
  <2>1. \A c \in 1..Len(q) : q[c] \in Threads /\ Waiting(q[c])'
    BY <1>1, <1>3 DEF Chain, Waiting
  <2>2. \A u \in Threads : Waiting(u)' => \E c \in 1..Len(q) : q[c] = u
    BY <1>1, <1>3 DEF Chain, Waiting
  <2>3. ASSUME NEW c \in 2..Len(q)
        PROVE  pred'[q[c]] = node'[q[c - 1]] /\ clhpc'[q[c]] = "spin"
    <3>1. c \in 1..Len(q) /\ 1 \in 1..Len(q) /\ c # 1
      OBVIOUS
    <3>2. q[c] # t /\ q[c] \in Threads
      BY <1>1, <3>1 DEF Chain
    <3> QED
      BY <1>1, <1>3, <3>2 DEF Chain
  <2> QED
    BY <1>1, <2>1, <2>2, <2>3 DEF Chain
<1> QED
  BY <1>2, <1>4, <1>5, <1>6

(* The one inside is the first of the chain; its release removes it.          *)
LEMMA UnlockChain ==
  ASSUME ClhTyped, NodesOwned, Marked, NEW q \in Seq(Threads), Chain(q),
         NEW t \in Threads, Clh!Unlock(t)
  PROVE  /\ ClhTyped' /\ NodesOwned' /\ Marked'
         /\ q # <<>> /\ q[1] = t /\ Chain(Tail(q))'
<1>1. /\ clhpc[t] = "in" /\ clhpc' = [clhpc EXCEPT ![t] = "recycle"]
      /\ lock' = [lock EXCEPT ![node[t]] = 0]
      /\ tail' = tail /\ node' = node /\ pred' = pred /\ allocated' = allocated
  BY DEF Clh!Unlock
<1>2. ClhTyped'
  BY <1>1 DEF ClhTyped
<1>3. /\ clhpc'[t] = "recycle" /\ Own(t)' = Own(t)
      /\ \A u \in Threads \ {t} : Own(u)' = Own(u) /\ clhpc'[u] = clhpc[u]
  BY <1>1 DEF ClhTyped, Own
<1>4. NodesOwned'
  BY <1>1, <1>3 DEF NodesOwned
<1>6. PICK c \in 1..Len(q) : q[c] = t
  BY <1>1 DEF Chain, Waiting
<1>7. c = 1
  BY <1>1, <1>6 DEF Chain
<1>5. ASSUME NEW u \in Threads, clhpc'[u] \in {"marked", "spin", "in"} PROVE lock'[node'[u]] = 1
  <2>1. u # t /\ clhpc[u] = clhpc'[u] /\ lock[node[u]] = 1
    BY <1>3, <1>5 DEF Marked
  <2>2. node[u] # node[t]
    <3>1. CASE clhpc[u] = "marked"
      <4>1. Own(u) # node[q[c]]
        BY <3>1, ChainNodes
      <4> QED
        BY <1>6, <3>1, <4>1 DEF Own
    <3>2. CASE Waiting(u)
      <4>1. PICK b \in 1..Len(q) : q[b] = u
        BY <3>2 DEF Chain
      <4>2. node[q[b]] = node[q[c]] => b = c
        BY ChainNodes
      <4> QED
        BY <1>6, <2>1, <4>1, <4>2
    <3> QED
      BY <1>5, <2>1, <3>1, <3>2 DEF Waiting
  <2> QED
    BY <2>1, <2>2, <1>1 DEF ClhTyped
<1> DEFINE s == Tail(q)
<1>8. Len(q) \in Nat /\ q # <<>>
  BY <1>6
<1>9. /\ s \in Seq(Threads) /\ Len(s) = Len(q) - 1 /\ Len(q) > 0
      /\ \A a \in 1..Len(s) : s[a] = q[a + 1] /\ a + 1 \in 1..Len(q) /\ a + 1 \in 2..Len(q)
  BY <1>8, HeadTailProperties
<1> HIDE DEF s
<1>10. \A a \in 2..Len(q) : q[a] \in Threads /\ q[a] # t /\ Waiting(q[a])
  BY <1>6, <1>7 DEF Chain
<1>11. \A a, b \in 1..Len(s) : s[a] = s[b] => a = b
  <2> SUFFICES ASSUME NEW a \in 1..Len(s), NEW b \in 1..Len(s), s[a] = s[b] PROVE a = b
    OBVIOUS
  <2>0. a + 1 \in 1..Len(q) /\ b + 1 \in 1..Len(q) /\ q[a + 1] = q[b + 1]
    BY <1>9
  <2>1. a + 1 = b + 1
    BY <2>0, Zenon DEF Chain
  <2> QED
    BY <2>1
<1>12. \A a \in 1..Len(s) : s[a] \in Threads /\ Waiting(s[a])'
  BY <1>3, <1>9, <1>10 DEF Waiting
<1>13. ASSUME NEW u \in Threads, Waiting(u)' PROVE \E a \in 1..Len(s) : s[a] = u
  <2>1. u # t /\ Waiting(u)
    BY <1>3, <1>13 DEF Waiting
  <2>2. PICK a \in 1..Len(q) : q[a] = u
    BY <2>1 DEF Chain
  <2>3. a # 1
    BY <1>6, <1>7, <2>1, <2>2
  <2>4. a - 1 \in 1..Len(s) /\ (a - 1) + 1 = a
    BY <1>9, <2>3
  <2> QED
    BY <1>9, <2>2, <2>4, Zenon
<1>14. ASSUME NEW a \in 2..Len(s)
       PROVE  pred'[s[a]] = node'[s[a - 1]] /\ clhpc'[s[a]] = "spin"
  <2>1. /\ a + 1 \in 2..Len(q) /\ (a + 1) - 1 = a /\ a \in 2..Len(q)
        /\ s[a] = q[a + 1] /\ s[a - 1] = q[a]
    BY <1>9
  <2>0. pred[q[a + 1]] = node[q[(a + 1) - 1]] /\ clhpc[q[a + 1]] = "spin"
    BY <2>1, Zenon DEF Chain
  <2>2. pred[q[a + 1]] = node[q[a]] /\ clhpc[q[a + 1]] = "spin"
    BY <2>0, <2>1
  <2> QED
    BY <1>1, <1>3, <1>10, <2>1, <2>2
<1>15. Len(s) > 0 => tail' = node'[s[Len(s)]]
  <2> SUFFICES ASSUME Len(s) > 0 PROVE tail' = node'[s[Len(s)]]
    OBVIOUS
  <2>1. Len(s) \in 1..Len(s) /\ Len(s) + 1 = Len(q)
    BY <1>8, <1>9
  <2>2. s[Len(s)] = q[Len(q)]
    BY <1>9, <2>1
  <2>3. tail = node[q[Len(q)]]
    BY <1>9 DEF Chain
  <2> QED
    BY <1>1, <2>2, <2>3
<1>16. Chain(s)'
  BY <1>11, <1>12, <1>13, <1>14, <1>15 DEF Chain
<1> QED
  BY <1>2, <1>4, <1>5, <1>6, <1>7, <1>8, <1>16 DEF s, Marked

(* The node that the thread spun on becomes its own.                          *)
LEMMA RecycleChain ==
  ASSUME ClhTyped, NodesOwned, Marked, NEW q \in Seq(Threads), Chain(q),
         NEW t \in Threads, Clh!Recycle(t)
  PROVE  ClhTyped' /\ NodesOwned' /\ Marked' /\ Chain(q)'
<1>1. /\ clhpc[t] = "recycle" /\ clhpc' = [clhpc EXCEPT ![t] = "out"]
      /\ node' = [node EXCEPT ![t] = pred[t]]
      /\ tail' = tail /\ lock' = lock /\ pred' = pred /\ allocated' = allocated
  BY DEF Clh!Recycle
<1>2. ClhTyped'
  BY <1>1 DEF ClhTyped
<1>3. /\ clhpc'[t] = "out" /\ Own(t)' = Own(t)
      /\ \A u \in Threads \ {t} : Own(u)' = Own(u) /\ clhpc'[u] = clhpc[u] /\ node'[u] = node[u]
  BY <1>1 DEF ClhTyped, Own
<1>4. NodesOwned'
  BY <1>1, <1>3 DEF NodesOwned
<1>5. Marked'
  BY <1>1, <1>3 DEF Marked
<1>6. Chain(q)'
  BY <1>1, <1>3, ChainKept DEF Waiting
<1> QED
  BY <1>2, <1>4, <1>5, <1>6

(* create_clhlock_as_ticketlock makes a sentinel and no thread.               *)
LEMMA ClhInitInv ==
  ASSUME Nodes # {}, Clh!Init
  PROVE  ClhInv /\ Chain(<<>>)
<1>1. Clh!Sentinel \in Nodes
  BY DEF Clh!Sentinel
<1>2. ClhTyped
  BY <1>1 DEF ClhTyped, Clh!Init
<1>3. NodesOwned /\ Marked
  BY DEF NodesOwned, Marked, Clh!Init
<1>4. Chain(<<>>)
  BY DEF Chain, Waiting, Clh!Init
<1>5. <<>> \in Seq(Threads)
  OBVIOUS
<1> QED
  BY <1>2, <1>3, <1>4, <1>5, Zenon DEF ClhInv

(* Every step of the CLH lock keeps the chain, and is a step of the abstract  *)
(* lock: the exchange joins the queue, the load that ends the spinning gets   *)
(* in at its head, the store of the release leaves it.                        *)
LEMMA ClhStep ==
  ASSUME ClhInv, Clh!Next \/ UNCHANGED clhvars
  PROVE  /\ ClhInv'
         /\ \/ ClhFifo!Next
            \/ Clh!Queue' = Clh!Queue /\ Clh!Taken' = Clh!Taken
<1>0. PICK q \in Seq(Threads) : Chain(q)
  BY DEF ClhInv
<1>t. ClhTyped /\ NodesOwned /\ Marked
  BY DEF ClhInv
<1>q. Clh!Queue = q
  BY <1>0, <1>t, QueueOfChain DEF QueueIsChain
<1>n. ASSUME NEW s \in Seq(Threads), ClhTyped', NodesOwned', Chain(s)'
      PROVE  Clh!Queue' = s
  <2>1. QueueIsChain'
    BY <1>n, QueueOfChainNext
  <2>2. \A p \in Seq(Threads) : Chain(p)' => Clh!Queue' = p
    BY <2>1 DEF QueueIsChain
  <2> QED
    BY <1>n, <2>2
<1>s. ASSUME ClhTyped', NodesOwned', Marked', Chain(q)',
             \A u \in Threads : clhpc'[u] = "in" <=> clhpc[u] = "in"
      PROVE  ClhInv' /\ Clh!Queue' = Clh!Queue /\ Clh!Taken' = Clh!Taken
  <2>1. Clh!Taken' = Clh!Taken
    BY <1>s DEF Clh!Taken
  <2>2. Clh!Queue' = q
    BY <1>s, <1>n
  <2> QED
    BY <1>q, <1>s, <2>1, <2>2 DEF ClhInv
<1>1. ASSUME NEW t \in Threads, Clh!create_thread(t) \/ Clh!dispose_thread(t)
                                  \/ Clh!MarkNode(t) \/ Clh!Recycle(t)
      PROVE  ClhInv' /\ Clh!Queue' = Clh!Queue /\ Clh!Taken' = Clh!Taken
  <2>1. ClhTyped' /\ NodesOwned' /\ Marked' /\ Chain(q)'
    BY <1>0, <1>t, <1>1, CreateChain, DisposeChain, MarkChain, RecycleChain
  <2>2. \A u \in Threads : clhpc'[u] = "in" <=> clhpc[u] = "in"
    BY <1>t, <1>1 DEF ClhTyped, Clh!create_thread, Clh!dispose_thread, Clh!MarkNode,
                      Clh!Recycle
  <2> QED
    BY <1>s, <2>1, <2>2
<1>2. ASSUME NEW t \in Threads, Clh!Exchange(t) PROVE ClhInv' /\ ClhFifo!Join(0, t)
  <2>1. ClhTyped' /\ NodesOwned' /\ Marked' /\ Chain(Append(q, t))'
    BY <1>0, <1>t, <1>2, ExchangeChain
  <2>2. Append(q, t) \in Seq(Threads)
    BY AppendProperties
  <2>3. Clh!Queue' = Append(q, t)
    BY <1>n, <2>1, <2>2, Zenon
  <2>4. Clh!Taken' = Clh!Taken
    BY <1>t, <1>2 DEF Clh!Taken, ClhTyped, Clh!Exchange
  <2>5. ClhInv'
    BY <2>1, <2>2, Zenon DEF ClhInv
  <2> QED
    BY <1>q, <2>3, <2>4, <2>5, Zenon DEF ClhFifo!Join
<1>3. ASSUME NEW t \in Threads, Clh!SeeUnlocked(t) PROVE ClhInv' /\ ClhFifo!Enter(0, t)
  <2>1. ClhTyped' /\ NodesOwned' /\ Marked' /\ Chain(q)'
    BY <1>0, <1>t, <1>3, SeeUnlockedChain
  <2>2. /\ Len(q) > 0 /\ q[1] = t /\ clhpc[t] = "spin"
        /\ clhpc' = [clhpc EXCEPT ![t] = "in"]
    BY <1>0, <1>t, <1>3, SeeUnlockedFirst
  <2>3. Clh!Queue' = q
    BY <1>n, <2>1
  <2>4. Clh!Taken = FALSE
    <3> SUFFICES ASSUME NEW u \in Threads, clhpc[u] = "in" PROVE FALSE
      BY DEF Clh!Taken
    <3>1. PICK c \in 1..Len(q) : q[c] = u
      BY <1>0 DEF Chain, Waiting
    <3>2. c # 1
      BY <2>2, <3>1
    <3> QED
      BY <1>0, <3>1, <3>2 DEF Chain
  <2>5. Clh!Taken' = TRUE
    BY <1>t, <2>2 DEF Clh!Taken, ClhTyped
  <2>6. q # <<>> /\ Head(q) = t
    BY <2>2
  <2>7. ClhInv'
    BY <2>1 DEF ClhInv
  <2> QED
    BY <1>q, <2>3, <2>4, <2>5, <2>6, <2>7 DEF ClhFifo!Enter, ClhFifo!MayEnter
<1>4. ASSUME NEW t \in Threads, Clh!Unlock(t) PROVE ClhInv' /\ ClhFifo!Leave(0)
  <2>1. /\ ClhTyped' /\ NodesOwned' /\ Marked'
        /\ q # <<>> /\ q[1] = t /\ Chain(Tail(q))'
    BY <1>0, <1>t, <1>4, UnlockChain
  <2>2. Tail(q) \in Seq(Threads)
    BY <2>1, HeadTailProperties
  <2>3. Clh!Queue' = Tail(q)
    BY <1>n, <2>1, <2>2, Zenon
  <2>4. Clh!Taken = TRUE
    BY <1>4 DEF Clh!Taken, Clh!Unlock
  <2>5. Clh!Taken' = FALSE
    <3> SUFFICES ASSUME NEW u \in Threads, clhpc'[u] = "in" PROVE FALSE
      BY DEF Clh!Taken
    <3>1. u # t /\ clhpc[u] = "in"
      BY <1>t, <1>4 DEF ClhTyped, Clh!Unlock
    <3>2. PICK c \in 1..Len(q) : q[c] = u
      BY <1>0, <3>1 DEF Chain, Waiting
    <3>3. c # 1
      BY <2>1, <3>1, <3>2
    <3> QED
      BY <1>0, <3>1, <3>2, <3>3 DEF Chain
  <2>6. ClhInv'
    BY <2>1, <2>2, Zenon DEF ClhInv
  <2> QED
    BY <1>q, <2>3, <2>4, <2>5, <2>6 DEF ClhFifo!Leave
<1>5. CASE UNCHANGED clhvars
  <2>1. ClhTyped' /\ NodesOwned' /\ Marked' /\ clhpc' = clhpc
    BY <1>5, <1>t DEF clhvars, ClhTyped, NodesOwned, Marked, Own
  <2>2. Chain(q)'
    BY <1>0, <1>5, Zenon DEF clhvars, Chain, Waiting
  <2> QED
    BY <1>s, <2>1, <2>2
<1>6. CASE Clh!Next
  <2> PICK t \in Threads : Clh!create_thread(t) \/ Clh!dispose_thread(t) \/ Clh!MarkNode(t)
                             \/ Clh!Step(t)
    BY <1>6 DEF Clh!Next
  <2> QED
    BY <1>1, <1>2, <1>3, <1>4, Zenon DEF Clh!Step, ClhFifo!Next
<1> QED
  BY <1>5, <1>6

(* clhlock_as_ticketlock.c implements the first-in first-out lock, for any    *)
(* set of threads and any supply of nodes: threads get in one at a time in    *)
(* the order in which they exchanged the tail, although nodes are recycled,   *)
(* freed and allocated again while others spin.                               *)
THEOREM ClhRefinement ==
  ASSUME Nodes # {}
  PROVE  Clh!Init /\ [][Clh!Next]_clhvars => ClhFifo!Spec
<1>1. Clh!Init => ClhInv
  BY ClhInitInv
<1>2. Clh!Init => ClhFifo!Init
  <2> SUFFICES ASSUME Clh!Init PROVE ClhFifo!Init
    OBVIOUS
  <2>1. Clh!Queue = <<>>
    BY ClhInitInv, QueueOfChain, EmptySeq, Zenon DEF ClhInv, QueueIsChain
  <2>2. Clh!Taken = FALSE
    BY DEF Clh!Taken, Clh!Init
  <2> QED
    BY <2>1, <2>2, Zenon DEF ClhFifo!Init
<1>3. ClhInv /\ [Clh!Next]_clhvars => ClhInv'
  BY ClhStep
<1>4. ClhInv /\ [Clh!Next]_clhvars
        => [ClhFifo!Next]_<<[l \in {0} |-> Clh!Queue], [l \in {0} |-> Clh!Taken]>>
  BY ClhStep
<1> QED
  BY <1>1, <1>2, <1>3, <1>4, PTL DEF ClhFifo!Spec

NoFreedNodeRead == \A t \in Threads : clhpc[t] # "fault"

(* No thread of the CLH lock reads a node that                                *)
(* dispose_clhlock_as_ticketlock_thread has freed.                            *)
THEOREM ClhReadsAllocated ==
  ASSUME Nodes # {}
  PROVE  Clh!Init /\ [][Clh!Next]_clhvars => []NoFreedNodeRead
<1>1. Clh!Init => ClhInv
  BY ClhInitInv
<1>2. ClhInv /\ [Clh!Next]_clhvars => ClhInv'
  BY ClhStep
<1>3. ClhInv => NoFreedNodeRead
  BY DEF ClhInv, ClhTyped, NoFreedNodeRead
<1> QED
  BY <1>1, <1>2, <1>3, PTL
=============================================================================
