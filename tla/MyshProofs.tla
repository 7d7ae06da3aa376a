---------------------------- MODULE MyshProofs ----------------------------
(***************************************************************************)
(* Proofs about Mysh, for all scripts.                                     *)
(***************************************************************************)
EXTENDS MyshLemmas, FiniteSetTheorems

-----------------------------------------------------------------------------
(* Cardinalities. *)

LEMMA CardLe ==
  ASSUME NEW T, IsFiniteSet(T), NEW S, S \subseteq T
  PROVE  Cardinality(S) \in Nat /\ Cardinality(T) \in Nat /\ Cardinality(S) <= Cardinality(T)
BY FS_Subset, FS_CardinalityType

LEMMA CardAdd ==
  ASSUME NEW T, IsFiniteSet(T), NEW x, NEW S, S \subseteq T \union {x}
  PROVE  /\ Cardinality(S) \in Nat /\ Cardinality(T) \in Nat
         /\ Cardinality(S) <= Cardinality(T) + 1
<1>1. IsFiniteSet(T \union {x}) /\ Cardinality(T \union {x}) <= Cardinality(T) + 1
  <2>1. Cardinality(T) \in Nat
    BY FS_CardinalityType
  <2>2. /\ IsFiniteSet(T \union {x})
        /\ Cardinality(T \union {x}) = IF x \in T THEN Cardinality(T) ELSE Cardinality(T) + 1
    BY FS_AddElement
  <2> QED
    BY <2>1, <2>2
<1> QED
  BY <1>1, CardLe, FS_CardinalityType

LEMMA CardRemove ==
  ASSUME NEW T, IsFiniteSet(T), NEW x \in T, NEW S, S \subseteq T \ {x}
  PROVE  /\ Cardinality(S) \in Nat /\ Cardinality(T) \in Nat
         /\ Cardinality(S) + 1 <= Cardinality(T)
<1>1. IsFiniteSet(T \ {x}) /\ Cardinality(T \ {x}) = Cardinality(T) - 1
  BY FS_RemoveElement
<1> QED
  BY <1>1, CardLe, FS_CardinalityType

-----------------------------------------------------------------------------
(* Permits and counts. *)

Holders(P) == {b \in Block : P[b] = "launch"}
Occupying(R) == {p \in Process : R[p] \in Occupied}
Kids(b, P) ==
  {c \in Block : P[c] \notin {"idle", "returned"} /\ \E k \in Nat : Calls(b, k) /\ Arg(b, k) = c}
Watchers(b, R) ==
  {p \in Process : R[p] \in Watched /\ \E k \in Nat : Runs(b, k) /\ Arg(b, k) = p}

(* The permits left (m), the threads that hold one to launch a process, and  *)
(* the processes that run on one, are together at most M.                    *)
Budget(P, R, m, M) == m + Cardinality(Holders(P)) + Cardinality(Occupying(R)) <= M

(* Block b has counted (started, finished) its child threads. *)
Counted(b, P, R, started, finished) ==
  finished + Cardinality(Kids(b, P)) + Cardinality(Watchers(b, R)) <= started

LEMMA FiniteParts ==
  ASSUME NEW P, NEW R
  PROVE  /\ IsFiniteSet(Holders(P)) /\ Cardinality(Holders(P)) \in Nat
         /\ IsFiniteSet(Occupying(R)) /\ Cardinality(Occupying(R)) \in Nat
         /\ \A b : IsFiniteSet(Kids(b, P)) /\ Cardinality(Kids(b, P)) \in Nat
         /\ \A b : IsFiniteSet(Watchers(b, R)) /\ Cardinality(Watchers(b, R)) \in Nat
<1>1. IsFiniteSet(Block) /\ IsFiniteSet(Process)
  BY TreeAssumption
<1>2. Holders(P) \subseteq Block /\ Occupying(R) \subseteq Process
  BY DEF Holders, Occupying
<1>3. \A b : Kids(b, P) \subseteq Block /\ Watchers(b, R) \subseteq Process
  BY DEF Kids, Watchers
<1>4. \A S, U : IsFiniteSet(U) /\ S \subseteq U => IsFiniteSet(S) /\ Cardinality(S) \in Nat
  BY FS_Subset, FS_CardinalityType
<1> QED
  BY <1>1, <1>2, <1>3, <1>4, Zenon

LEMMA BudgetKept ==
  ASSUME NEW P, NEW R, NEW m \in Nat, NEW M \in Nat, Budget(P, R, m, M), NEW PP, NEW RR,
         Holders(PP) \subseteq Holders(P), Occupying(RR) \subseteq Occupying(R)
  PROVE  Budget(PP, RR, m, M)
BY FiniteParts, CardLe DEF Budget

LEMMA BudgetTaken ==
  ASSUME NEW P, NEW R, NEW m \in Nat, NEW M \in Nat, Budget(P, R, m, M), m # 0, NEW PP, NEW b,
         Holders(PP) \subseteq Holders(P) \union {b}
  PROVE  Budget(PP, R, m - 1, M)
<1>1. /\ Cardinality(Holders(PP)) \in Nat /\ Cardinality(Holders(P)) \in Nat
      /\ Cardinality(Holders(PP)) <= Cardinality(Holders(P)) + 1
  BY FiniteParts, CardAdd, Zenon
<1> QED
  BY <1>1, FiniteParts DEF Budget

LEMMA BudgetOpened ==
  ASSUME NEW P, NEW R, NEW m \in Nat, NEW M \in Nat, Budget(P, R, m, M), NEW PP, NEW RR,
         NEW b \in Holders(P), NEW p,
         Holders(PP) \subseteq Holders(P) \ {b}, Occupying(RR) \subseteq Occupying(R) \union {p}
  PROVE  Budget(PP, RR, m, M)
<1>1. /\ Cardinality(Holders(PP)) \in Nat /\ Cardinality(Holders(P)) \in Nat
      /\ Cardinality(Holders(PP)) + 1 <= Cardinality(Holders(P))
  BY FiniteParts, CardRemove
<1>2. /\ Cardinality(Occupying(RR)) \in Nat /\ Cardinality(Occupying(R)) \in Nat
      /\ Cardinality(Occupying(RR)) <= Cardinality(Occupying(R)) + 1
  BY FiniteParts, CardAdd
<1> QED
  BY <1>1, <1>2 DEF Budget

LEMMA BudgetReturned ==
  ASSUME NEW P, NEW R, NEW m \in Nat, NEW M \in Nat, Budget(P, R, m, M), NEW PP, NEW RR,
         NEW p \in Occupying(R),
         Holders(PP) \subseteq Holders(P), Occupying(RR) \subseteq Occupying(R) \ {p}
  PROVE  Budget(PP, RR, m + 1, M)
<1>1. /\ Cardinality(Holders(PP)) \in Nat /\ Cardinality(Holders(P)) \in Nat
      /\ Cardinality(Holders(PP)) <= Cardinality(Holders(P))
  BY FiniteParts, CardLe
<1>2. /\ Cardinality(Occupying(RR)) \in Nat /\ Cardinality(Occupying(R)) \in Nat
      /\ Cardinality(Occupying(RR)) + 1 <= Cardinality(Occupying(R))
  BY FiniteParts, CardRemove
<1> QED
  BY <1>1, <1>2 DEF Budget

LEMMA CountedKept ==
  ASSUME NEW b, NEW P, NEW R, NEW st \in Nat, NEW fi \in Nat, Counted(b, P, R, st, fi),
         NEW PP, NEW RR, Kids(b, PP) \subseteq Kids(b, P), Watchers(b, RR) \subseteq Watchers(b, R)
  PROVE  Counted(b, PP, RR, st, fi)
BY FiniteParts, CardLe DEF Counted

LEMMA CountedStarts ==
  ASSUME NEW b, NEW P, NEW R, NEW st \in Nat, NEW fi \in Nat, Counted(b, P, R, st, fi),
         NEW PP, NEW RR, NEW x,
         \/ Kids(b, PP) \subseteq Kids(b, P) \union {x} /\ Watchers(b, RR) \subseteq Watchers(b, R)
         \/ Kids(b, PP) \subseteq Kids(b, P) /\ Watchers(b, RR) \subseteq Watchers(b, R) \union {x}
  PROVE  Counted(b, PP, RR, st + 1, fi)
<1> DEFINE K == Cardinality(Kids(b, P))
<1> DEFINE W == Cardinality(Watchers(b, R))
<1> DEFINE KK == Cardinality(Kids(b, PP))
<1> DEFINE WW == Cardinality(Watchers(b, RR))
<1>1. K \in Nat /\ W \in Nat /\ KK \in Nat /\ WW \in Nat
  BY FiniteParts
<1>2. (KK <= K + 1 /\ WW <= W) \/ (KK <= K /\ WW <= W + 1)
  BY FiniteParts, CardAdd, CardLe, Zenon
<1>3. fi + K + W <= st
  BY DEF Counted
<1> HIDE DEF K, W, KK, WW
<1>4. fi + KK + WW <= st + 1
  BY <1>1, <1>2, <1>3
<1> QED
  BY <1>4 DEF Counted, KK, WW

LEMMA CountedFinishes ==
  ASSUME NEW b, NEW P, NEW R, NEW st \in Nat, NEW fi \in Nat, Counted(b, P, R, st, fi),
         NEW PP, NEW RR, NEW x,
         \/ x \in Kids(b, P) /\ Kids(b, PP) \subseteq Kids(b, P) \ {x}
            /\ Watchers(b, RR) \subseteq Watchers(b, R)
         \/ x \in Watchers(b, R) /\ Watchers(b, RR) \subseteq Watchers(b, R) \ {x}
            /\ Kids(b, PP) \subseteq Kids(b, P)
  PROVE  Counted(b, PP, RR, st, fi + 1)
<1> DEFINE K == Cardinality(Kids(b, P))
<1> DEFINE W == Cardinality(Watchers(b, R))
<1> DEFINE KK == Cardinality(Kids(b, PP))
<1> DEFINE WW == Cardinality(Watchers(b, RR))
<1>1. K \in Nat /\ W \in Nat /\ KK \in Nat /\ WW \in Nat
  BY FiniteParts
<1>2. (KK + 1 <= K /\ WW <= W) \/ (KK <= K /\ WW + 1 <= W)
  BY FiniteParts, CardRemove, CardLe, Zenon
<1>3. fi + K + W <= st
  BY DEF Counted
<1> HIDE DEF K, W, KK, WW
<1>4. fi + 1 + KK + WW <= st
  BY <1>1, <1>2, <1>3
<1> QED
  BY <1>4 DEF Counted, KK, WW

(* join_children waits for all of them. *)
LEMMA CountedOver ==
  ASSUME NEW b \in Block, NEW P, NEW R, NEW st \in Nat, NEW fi \in Nat, Counted(b, P, R, st, fi),
         st <= fi
  PROVE  Kids(b, P) = {} /\ Watchers(b, R) = {}
<1>1. Cardinality(Kids(b, P)) = 0 /\ Cardinality(Watchers(b, R)) = 0
  BY FiniteParts DEF Counted
<1> QED
  BY <1>1, FiniteParts, FS_EmptySet

-----------------------------------------------------------------------------
(* The invariant in a state, and what every step keeps. *)

Quiet == failed_processes_log = <<>>

CountsNow ==
  /\ children_started_count \in [Block -> Nat] /\ children_finished_count \in [Block -> Nat]
  /\ \A b \in Block : Parallel[b] =>
       Counted(b, pc, process, children_started_count[b], children_finished_count[b])

CoreNow == Core(pc, next, process, Quiet)

RInv ==
  /\ CoreNow
  /\ permits \in Nat /\ Budget(pc, process, permits, max_processes[Running])
  /\ CountsNow
  /\ failed_processes_log \in Seq(Process)

(* Running is the script that mysh runs. *)
LEMMA RunningIs ==
  ASSUME OneScript(pc)
  PROVE  Running \in Script /\ pc[Running] # "idle" /\ \A t \in Script : t # Running => pc[t] = "idle"
BY DEF OneScript, Running

LEMMA MaxIsNat ==
  ASSUME OneScript(pc)
  PROVE  max_processes[Running] \in Nat
BY RunningIs, ScriptAssumption

(* What keeps the invariant, apart from Core. *)
Keeps ==
  /\ \A c \in Block : pc[c] # "idle" => pc'[c] # "idle"
  /\ permits' \in Nat /\ Budget(pc', process', permits', max_processes[Running])
  /\ CountsNow'
  /\ failed_processes_log' \in Seq(Process)

(* A step that takes no permit and starts no block or watcher. *)
LEMMA Tame ==
  ASSUME RInv,
         \A c \in Block : /\ pc[c] # "idle" => pc'[c] # "idle"
                          /\ pc'[c] = "launch" => pc[c] = "launch"
                          /\ pc'[c] \notin {"idle", "returned"} => pc[c] \notin {"idle", "returned"},
         \A p \in Process : /\ process'[p] \in Occupied => process[p] \in Occupied
                            /\ process'[p] \in Watched => process[p] \in Watched,
         failed_processes_log' \in Seq(Process),
         UNCHANGED <<permits, childVars>>
  PROVE  Keeps
<1>1. Holders(pc') \subseteq Holders(pc) /\ Occupying(process') \subseteq Occupying(process)
  BY DEF Holders, Occupying
<1>2. \A b : Kids(b, pc') \subseteq Kids(b, pc) /\ Watchers(b, process') \subseteq Watchers(b, process)
  BY DEF Kids, Watchers
<1>3. permits' \in Nat /\ Budget(pc', process', permits', max_processes[Running])
  BY <1>1, BudgetKept, MaxIsNat DEF RInv, CoreNow, Core
<1>4. UNCHANGED <<children_started_count, children_finished_count>>
  BY DEF childVars
<1>5. ASSUME NEW b \in Block, Parallel[b]
      PROVE  Counted(b, pc', process', children_started_count'[b], children_finished_count'[b])
  BY <1>2, <1>4, <1>5, CountedKept, Zenon DEF RInv, CountsNow
<1>6. CountsNow'
  BY <1>4, <1>5 DEF RInv, CountsNow
<1> QED
  BY <1>3, <1>6 DEF Keeps

(* The command a block is about to execute. *)
LEMMA ExecAt ==
  ASSUME RInv, NEW b \in Block, pc[b] = "exec", Continues(b)
  PROVE  /\ Cmd(b).op \in {"run", "baddir"} => Runs(b, next[b]) /\ process[Arg(b, next[b])] = "idle"
         /\ Cmd(b).op = "block" => Calls(b, next[b]) /\ Cmd(b).arg = Arg(b, next[b])
         /\ Cmd(b).op \notin {"run", "baddir", "block"} => ~Runs(b, next[b]) /\ ~Calls(b, next[b])
<1>1. next[b] \in DOMAIN Cmds[b] /\ next[b] \in Nat
  BY CommandFacts DEF RInv, CoreNow, Core, Types, Continues, Size
<1>2. Cmd(b).op \in {"run", "baddir"} => Runs(b, next[b])
  BY <1>1 DEF Cmd, Runs
<1>3. Runs(b, next[b]) => process[Arg(b, next[b])] = "idle"
  BY <1>1 DEF RInv, CoreNow, Core, OfProcess, ProcessFits, Starting
<1>4. Cmd(b).op = "block" => Calls(b, next[b]) /\ Cmd(b).arg = Arg(b, next[b])
  BY <1>1 DEF Cmd, Calls, Arg
<1>5. Cmd(b).op \notin {"run", "baddir", "block"} => ~Runs(b, next[b]) /\ ~Calls(b, next[b])
  BY DEF Cmd, Runs, Calls
<1> QED
  BY <1>2, <1>3, <1>4, <1>5

-----------------------------------------------------------------------------
(* One lemma for each action. *)

LEMMA ExecProcessKeeps ==
  ASSUME RInv, NEW b \in Block, ExecProcess(b)
  PROVE  CoreNow' /\ Keeps
<1>1. /\ pc[b] = "exec" /\ pc \in [Block -> Labels] /\ Continues(b) /\ Cmd(b).op \in {"run", "baddir"}
      /\ pc' = [pc EXCEPT ![b] = "acquire"]
      /\ UNCHANGED <<next, process, permits, childVars, failed_processes_log>>
  BY DEF ExecProcess, At, Goto, RInv, CoreNow, Core, Types
<1>2. Runs(b, next[b]) /\ process[Arg(b, next[b])] = "idle"
  BY <1>1, ExecAt
<1>3. Core([pc EXCEPT ![b] = "acquire"], next, process, Quiet)
  BY <1>1, <1>2, Move, Zenon DEF RInv, CoreNow, Asking, Labels
<1>4. CoreNow'
  BY <1>1, <1>3 DEF CoreNow, Quiet
<1>5. Keeps
  BY <1>1, Tame DEF RInv
<1> QED
  BY <1>4, <1>5

LEMMA ExecDelKeeps ==
  ASSUME RInv, NEW b \in Block, ExecDel(b)
  PROVE  CoreNow' /\ Keeps
<1>1. /\ pc[b] = "exec" /\ pc \in [Block -> Labels] /\ Continues(b) /\ Cmd(b).op = "del"
      /\ pc' = [pc EXCEPT ![b] = "join"]
      /\ UNCHANGED <<next, process, permits, childVars, failed_processes_log>>
  BY DEF ExecDel, At, Goto, RInv, CoreNow, Core, Types
<1>2. ~Runs(b, next[b]) /\ ~Calls(b, next[b])
  BY <1>1, ExecAt
<1>3. Core([pc EXCEPT ![b] = "join"], next, process, Quiet)
  BY <1>1, <1>2, Move, Zenon DEF RInv, CoreNow, Labels
<1>4. CoreNow'
  BY <1>1, <1>3 DEF CoreNow, Quiet
<1>5. Keeps
  BY <1>1, Tame DEF RInv
<1> QED
  BY <1>4, <1>5

LEMMA ThreadDiesKeeps ==
  ASSUME RInv, NEW b \in Block, pc[b] \in {"exec", "launch"}, ThreadDies(b),
         UNCHANGED <<next, process, permits, childVars, failed_processes_log>>
  PROVE  CoreNow' /\ Keeps
<1>1. /\ pc \in [Block -> Labels]
      /\ pc' = [c \in Block |-> IF c \in CallStack[b] THEN "dead" ELSE pc[c]]
  BY DEF ThreadDies, RInv, CoreNow, Core, Types
<1>2. \A c \in CallStack[b] : c = b \/ pc[c] \in {"called", "dead"}
  BY OnStack DEF RInv, CoreNow
<1>3. Core([c \in Block |-> IF c \in CallStack[b] THEN "dead" ELSE pc[c]], next, process, Quiet)
  BY Dies DEF RInv, CoreNow
<1>4. CoreNow'
  BY <1>1, <1>3 DEF CoreNow, Quiet
<1>5. \A c \in Block : /\ pc[c] # "idle" => pc'[c] # "idle"
                       /\ pc'[c] = "launch" => pc[c] = "launch"
                       /\ pc'[c] \notin {"idle", "returned"} => pc[c] \notin {"idle", "returned"}
  BY <1>1, <1>2
<1>6. Keeps
  BY <1>5, Tame DEF RInv
<1> QED
  BY <1>4, <1>6

LEMMA ExecErrorKeeps ==
  ASSUME RInv, NEW b \in Block, ExecError(b)
  PROVE  CoreNow' /\ Keeps
BY ThreadDiesKeeps DEF ExecError, At

LEMMA ExecEndKeeps ==
  ASSUME RInv, NEW b \in Block, ExecEnd(b)
  PROVE  CoreNow' /\ Keeps
<1>1. /\ pc[b] = "exec" /\ pc \in [Block -> Labels] /\ ~Continues(b)
      /\ pc' = [pc EXCEPT ![b] = "join"] /\ next' = [next EXCEPT ![b] = Size(b) + 1]
      /\ UNCHANGED <<process, permits, childVars, failed_processes_log>>
  BY DEF ExecEnd, At, Goto, RInv, CoreNow, Core, Types, Size
<1>2. Quiet => next[b] > Size(b)
  BY <1>1, CommandFacts DEF Continues, Quiet, Size, RInv, CoreNow, Core, Types
<1>3. Core([pc EXCEPT ![b] = "join"], [next EXCEPT ![b] = Size(b) + 1], process, Quiet)
  BY <1>1, <1>2, Stop, Zenon DEF RInv, CoreNow
<1>4. CoreNow'
  BY <1>1, <1>3 DEF CoreNow, Quiet
<1>5. Keeps
  BY <1>1, Tame DEF RInv
<1> QED
  BY <1>4, <1>5

LEMMA ExecBlockKeeps ==
  ASSUME RInv, NEW b \in Block, ExecBlock(b)
  PROVE  CoreNow' /\ Keeps
<1> DEFINE a == Arg(b, next[b])
<1>1. /\ pc[b] = "exec" /\ pc \in [Block -> Labels] /\ Continues(b) /\ Cmd(b).op = "block"
      /\ UNCHANGED <<children_finished_count, process, permits, failed_processes_log>>
  BY DEF ExecBlock, At, RInv, CoreNow, Core, Types
<1>2. Calls(b, next[b]) /\ Cmd(b).arg = a /\ a \in Block
  BY <1>1, ExecAt, CommandFacts
<1>3. \A c \in Block : \A k : Calls(c, k) /\ Arg(c, k) = a => c = b
  BY <1>2, CallsOnce
<1>4. CASE Parallel[b]
  <2>1. /\ children_started_count' = [children_started_count EXCEPT ![b] = @ + 1]
        /\ pc' = [pc EXCEPT ![a] = "exec"] /\ next' = [next EXCEPT ![b] = @ + 1]
    BY <1>2, <1>4 DEF ExecBlock
  <2>2. pc[a] = "idle" /\ Core([pc EXCEPT ![a] = "exec"], [next EXCEPT ![b] = @ + 1], process, Quiet)
    BY <1>1, <1>2, <1>4, CallsThread, Zenon DEF RInv, CoreNow
  <2>3. CoreNow'
    BY <1>1, <2>1, <2>2 DEF CoreNow, Quiet
  <2> HIDE DEF a
  <2>4. \A c \in Block : c # a => pc'[c] = pc[c]
    BY <1>1, <1>2, <2>1
  <2>5. pc'[a] = "exec"
    BY <1>1, <1>2, <2>1
  <2>6. Holders(pc') \subseteq Holders(pc) /\ Occupying(process') = Occupying(process)
    BY <1>1, <2>4, <2>5 DEF Holders
  <2>7. Budget(pc', process', permits', max_processes[Running]) /\ permits' \in Nat
    BY <1>1, <2>6, BudgetKept, MaxIsNat, Zenon DEF RInv, CoreNow, Core
  <2>8. Kids(b, pc') \subseteq Kids(b, pc) \union {a}
    BY <2>4 DEF Kids
  <2>9. \A c \in Block : c # b => Kids(c, pc') \subseteq Kids(c, pc)
    BY <2>4, <1>3 DEF Kids
  <2>10. CountsNow'
    <3>1. ASSUME NEW c \in Block, Parallel[c]
          PROVE  Counted(c, pc', process', children_started_count'[c], children_finished_count'[c])
      <4>1. /\ Counted(c, pc, process, children_started_count[c], children_finished_count[c])
            /\ children_started_count[c] \in Nat /\ children_finished_count[c] \in Nat
        BY <3>1 DEF RInv, CountsNow
      <4>2. CASE c = b
        <5>1. children_started_count'[c] = children_started_count[c] + 1
          BY <4>2, <2>1 DEF RInv, CountsNow
        <5>2. /\ Kids(c, pc') \subseteq Kids(c, pc) \union {a}
              /\ Watchers(c, process') \subseteq Watchers(c, process)
              /\ children_finished_count'[c] = children_finished_count[c]
          BY <4>2, <2>8, <1>1
        <5>3. Counted(c, pc', process', children_started_count[c] + 1, children_finished_count[c])
          BY <4>1, <5>2, CountedStarts
        <5> QED
          BY <5>1, <5>2, <5>3
      <4>3. CASE c # b
        <5>1. children_started_count'[c] = children_started_count[c]
          BY <4>3, <2>1 DEF RInv, CountsNow
        <5> QED
          BY <4>1, <4>3, <5>1, <2>9, <1>1, CountedKept
      <4> QED
        BY <4>2, <4>3
    <3>2. children_started_count' \in [Block -> Nat] /\ children_finished_count' \in [Block -> Nat]
      BY <1>1, <2>1 DEF RInv, CountsNow
    <3> QED
      BY <3>1, <3>2 DEF CountsNow
  <2> QED
    BY <1>1, <2>2, <2>3, <2>4, <2>5, <2>7, <2>10 DEF Keeps, RInv
<1>5. CASE ~Parallel[b]
  <2>1. /\ pc' = [pc EXCEPT ![b] = "called", ![a] = "exec"]
        /\ UNCHANGED <<next, children_started_count>>
    BY <1>2, <1>5 DEF ExecBlock
  <2>2. pc[a] = "idle" /\ Core([pc EXCEPT ![b] = "called", ![a] = "exec"], next, process, Quiet)
    BY <1>1, <1>2, <1>5, CallsHere, Zenon DEF RInv, CoreNow
  <2>3. CoreNow'
    BY <1>1, <2>1, <2>2 DEF CoreNow, Quiet
  <2> HIDE DEF a
  <2>4. /\ pc'[a] = "exec" /\ pc'[b] \in {"called", "exec"}
        /\ \A c \in Block : c # a /\ c # b => pc'[c] = pc[c]
    BY <1>1, <1>2, <2>1
  <2>6. Holders(pc') \subseteq Holders(pc) /\ Occupying(process') = Occupying(process)
    BY <1>1, <2>4 DEF Holders
  <2>7. Budget(pc', process', permits', max_processes[Running]) /\ permits' \in Nat
    BY <1>1, <2>6, BudgetKept, MaxIsNat, Zenon DEF RInv, CoreNow, Core
  <2>9. \A c \in Block : Parallel[c] => Kids(c, pc') \subseteq Kids(c, pc)
    BY <2>4, <1>1, <1>3, <1>5 DEF Kids
  <2>10. CountsNow'
    BY <1>1, <2>1, <2>9, CountedKept, Zenon DEF RInv, CountsNow
  <2> QED
    BY <1>1, <2>2, <2>3, <2>4, <2>7, <2>10 DEF Keeps, RInv
<1> QED
  BY <1>4, <1>5

LEMMA JoinChildrenKeeps ==
  ASSUME RInv, NEW b \in Block, JoinChildren(b)
  PROVE  CoreNow' /\ Keeps
<1>1. /\ pc[b] = "join" /\ pc \in [Block -> Labels]
      /\ UNCHANGED <<process, permits, childVars, failed_processes_log>>
      /\ CoreNow /\ next[b] \in Nat /\ Size(b) \in Nat
  BY CommandFacts DEF JoinChildren, At, RInv, CoreNow, Core, Types
<1>2. CASE children_finished_count[b] < children_started_count[b]
  <2>1. pc' = [pc EXCEPT ![b] = "joinwait"] /\ next' = next
    BY <1>2 DEF JoinChildren, Goto
  <2>2. ~Runs(b, next[b]) /\ ~Calls(b, next[b])
    BY <1>1 DEF CoreNow, Core, AtCommand
  <2>3. Core([pc EXCEPT ![b] = "joinwait"], next, process, Quiet)
    BY <1>1, <2>2, Move, Zenon DEF CoreNow, Labels
  <2>4. Keeps
    BY <1>1, <2>1, Tame DEF RInv
  <2> QED
    BY <1>1, <2>1, <2>3, <2>4 DEF CoreNow, Quiet
<1>3. CASE ~(children_finished_count[b] < children_started_count[b]) /\ next[b] <= Size(b)
  <2>1. pc' = [pc EXCEPT ![b] = "exec"] /\ next' = [next EXCEPT ![b] = @ + 1]
    BY <1>3 DEF JoinChildren, Advance, Size
  <2>2. Core([pc EXCEPT ![b] = "exec"], [next EXCEPT ![b] = @ + 1], process, Quiet)
    BY <1>1, <1>3, Skip, Zenon DEF CoreNow
  <2>3. Keeps
    BY <1>1, <2>1, Tame DEF RInv
  <2> QED
    BY <1>1, <2>1, <2>2, <2>3 DEF CoreNow, Quiet
<1>4. CASE ~(children_finished_count[b] < children_started_count[b]) /\ ~(next[b] <= Size(b))
  <2>1. pc' = [pc EXCEPT ![b] = "done"] /\ next' = next
    BY <1>4 DEF JoinChildren, Goto, Size
  <2>2. Over(b, pc, process)
    <3>1. \A k \in Nat : Runs(b, k) => /\ process[Arg(b, k)] # "opened"
                                       /\ process[Arg(b, k)] \in Watched => Parallel[b]
      BY <1>1 DEF CoreNow, Core, OfProcess, ProcessFits, Starting
    <3>2. \A k \in Nat : Calls(b, k) /\ pc[Arg(b, k)] \notin {"idle", "returned"} => Parallel[b]
      BY <1>1 DEF CoreNow, Core, OfBlock, BlockFits
    <3>3. Parallel[b] => Kids(b, pc) = {} /\ Watchers(b, process) = {}
      <4>1. children_finished_count[b] \in Nat /\ children_started_count[b] \in Nat
        BY DEF RInv, CountsNow
      <4>2. children_started_count[b] <= children_finished_count[b]
        BY <1>4, <4>1
      <4>3. Parallel[b] =>
              Counted(b, pc, process, children_started_count[b], children_finished_count[b])
        BY DEF RInv, CountsNow
      <4> QED
        BY <4>1, <4>2, <4>3, CountedOver, Zenon
    <3>4. ASSUME NEW k \in Nat, Runs(b, k)
          PROVE  process[Arg(b, k)] \in {"idle", "done"}
      <4>1. Arg(b, k) \in Process
        BY <3>4, CommandFacts
      <4>2. process[Arg(b, k)] \in {"idle", "opened", "done"} \union Watched
        BY <1>1, <4>1 DEF CoreNow, Core, Types
      <4>3. process[Arg(b, k)] \notin Watched
        BY <3>1, <3>3, <3>4, <4>1 DEF Watchers
      <4> QED
        BY <3>1, <3>4, <4>2, <4>3
    <3>5. ASSUME NEW k \in Nat, Calls(b, k)
          PROVE  pc[Arg(b, k)] \in {"idle", "returned"}
      <4>1. Arg(b, k) \in Block
        BY <3>5, CommandFacts
      <4> QED
        BY <3>2, <3>3, <3>5, <4>1 DEF Kids
    <3> QED
      BY <3>4, <3>5 DEF Over
  <2>5. next[b] > Size(b)
    BY <1>1, <1>4
  <2>3. Core([pc EXCEPT ![b] = "done"], next, process, Quiet)
    BY <1>1, <2>2, <2>5, Finish, Zenon DEF CoreNow
  <2>4. Keeps
    BY <1>1, <2>1, Tame DEF RInv
  <2> QED
    BY <1>1, <2>1, <2>3, <2>4 DEF CoreNow, Quiet
<1> QED
  BY <1>2, <1>3, <1>4

(* child_finished: the count, and the parent woken. *)
LEMMA Signals ==
  ASSUME NEW P, NEW N, NEW R, NEW Q, Core(P, N, R, Q), NEW a \in Block, ChildFinished(a, P)
  PROVE  /\ Core(pc', N, R, Q)
         /\ \A c \in Block : pc'[c] = P[c] \/ (P[c] = "joinwait" /\ pc'[c] = "join")
         /\ children_finished_count' = [children_finished_count EXCEPT ![a] = @ + 1]
         /\ UNCHANGED children_started_count
<1>1. CASE pc' = P
  BY <1>1 DEF ChildFinished
<1>2. CASE P[a] = "joinwait" /\ pc' = [P EXCEPT ![a] = "join"]
  <2>1. ~Runs(a, N[a]) /\ ~Calls(a, N[a]) /\ P \in [Block -> Labels]
    BY <1>2 DEF Core, AtCommand, Types
  <2>2. Core([P EXCEPT ![a] = "join"], N, R, Q)
    BY <1>2, <2>1, Move, Zenon DEF Labels
  <2> QED
    BY <1>2, <2>1, <2>2 DEF ChildFinished
<1> QED
  BY <1>1, <1>2 DEF ChildFinished

LEMMA ReturnKeeps ==
  ASSUME RInv, NEW b \in Block, Return(b)
  PROVE  CoreNow' /\ Keeps
<1>1. /\ pc[b] = "done" /\ pc \in [Block -> Labels] /\ CoreNow
      /\ UNCHANGED <<process, permits, failed_processes_log>>
  BY DEF Return, At, RInv, CoreNow, Core, Types
<1>2. CASE b \in Script
  <2>1. pc' = [pc EXCEPT ![b] = "returned"] /\ UNCHANGED <<next, childVars>>
    BY <1>2 DEF Return, Goto, OwnThread
  <2>2. Core([pc EXCEPT ![b] = "returned"], next, process, Quiet)
    BY <1>1, <1>2, Ends, Zenon DEF CoreNow
  <2>3. Keeps
    BY <1>1, <2>1, Tame DEF RInv
  <2> QED
    BY <1>1, <2>1, <2>2, <2>3 DEF CoreNow, Quiet
<1>3. CASE b \notin Script /\ OwnThread(b)
  <2> DEFINE P == [pc EXCEPT ![b] = "returned"]
  <2>1. ChildFinished(Parent(b), P) /\ next' = next
    BY <1>3 DEF Return
  <2>2. Core(P, next, process, Quiet)
    BY <1>1, <1>3, Ends, Zenon DEF CoreNow
  <2>3. PICK a \in Block, k \in Nat : Calls(a, k) /\ Arg(a, k) = b
    BY <1>3, CalledBy
  <2>4. Parent(b) = a /\ Parallel[a] /\ \A c \in Block : \A j : Calls(c, j) /\ Arg(c, j) = b => c = a
    BY <1>3, <2>3, CallsOnce DEF OwnThread
  <2>5. P[b] = "returned" /\ \A c \in Block : c # b => P[c] = pc[c]
    BY <1>1
  <2> HIDE DEF P
  <2>6. /\ Core(pc', next, process, Quiet)
        /\ \A c \in Block : pc'[c] = P[c] \/ (P[c] = "joinwait" /\ pc'[c] = "join")
        /\ children_finished_count' = [children_finished_count EXCEPT ![a] = @ + 1]
        /\ UNCHANGED children_started_count
    BY <2>1, <2>2, <2>4, Signals
  <2>7. CoreNow'
    BY <1>1, <2>1, <2>6 DEF CoreNow, Quiet
  <2>8. Holders(pc') \subseteq Holders(pc) /\ Occupying(process') = Occupying(process)
    BY <1>1, <2>5, <2>6 DEF Holders
  <2>9. Budget(pc', process', permits', max_processes[Running]) /\ permits' \in Nat
    BY <1>1, <2>8, BudgetKept, MaxIsNat, Zenon DEF RInv, CoreNow, Core
  <2>10. \A c \in Block : Kids(c, pc') \subseteq Kids(c, pc)
    BY <2>5, <2>6 DEF Kids
  <2>11. b \in Kids(a, pc) /\ b \notin Kids(a, pc')
    BY <1>1, <2>3, <2>5, <2>6 DEF Kids
  <2>12. ASSUME NEW c \in Block, Parallel[c]
         PROVE  Counted(c, pc', process', children_started_count'[c], children_finished_count'[c])
    <3>1. /\ Counted(c, pc, process, children_started_count[c], children_finished_count[c])
          /\ children_started_count[c] \in Nat /\ children_finished_count[c] \in Nat
          /\ children_started_count'[c] = children_started_count[c]
          /\ Watchers(c, process') = Watchers(c, process)
      BY <1>1, <2>6, <2>12 DEF RInv, CountsNow
    <3>2. CASE c = a
      <4>1. children_finished_count'[c] = children_finished_count[c] + 1
        BY <3>2, <2>6 DEF RInv, CountsNow
      <4>2. b \in Kids(c, pc) /\ Kids(c, pc') \subseteq Kids(c, pc) \ {b}
        BY <3>2, <2>10, <2>11
      <4> QED
        BY <3>1, <4>1, <4>2, CountedFinishes
    <3>3. CASE c # a
      <4>1. children_finished_count'[c] = children_finished_count[c]
        BY <3>3, <2>6 DEF RInv, CountsNow
      <4> QED
        BY <3>1, <4>1, <2>10, CountedKept
    <3> QED
      BY <3>2, <3>3
  <2>13. CountsNow'
    BY <2>6, <2>12 DEF RInv, CountsNow
  <2>14. \A c \in Block : pc[c] # "idle" => pc'[c] # "idle"
    BY <2>5, <2>6
  <2> QED
    BY <1>1, <2>7, <2>9, <2>13, <2>14 DEF Keeps, RInv
<1>4. CASE b \notin Script /\ ~OwnThread(b)
  <2>1. PICK a \in Block, k \in Nat : Calls(a, k) /\ Arg(a, k) = b
    BY <1>4, CalledBy
  <2>2. Parent(b) = a /\ ~Parallel[a]
    BY <1>4, <2>1, CallsOnce DEF OwnThread
  <2>3. /\ pc' = [pc EXCEPT ![b] = "returned", ![a] = "exec"]
        /\ next' = [next EXCEPT ![a] = @ + 1] /\ UNCHANGED childVars
    BY <1>4, <2>2 DEF Return
  <2>4. /\ pc[a] \in {"called", "dead"}
        /\ Core([pc EXCEPT ![b] = "returned", ![a] = "exec"], [next EXCEPT ![a] = @ + 1], process, Quiet)
    BY <1>1, <2>1, <2>2, ReturnsTo, Zenon DEF CoreNow
  <2>5. Keeps
    BY <1>1, <2>3, <2>4, Tame DEF RInv
  <2> QED
    BY <1>1, <2>3, <2>4, <2>5 DEF CoreNow, Quiet
<1> QED
  BY <1>2, <1>3, <1>4

LEMMA AcquireKeeps ==
  ASSUME RInv, NEW b \in Block, Acquire(b)
  PROVE  CoreNow' /\ Keeps
<1>1. /\ pc[b] = "acquire" /\ pc \in [Block -> Labels] /\ CoreNow /\ permits \in Nat
      /\ UNCHANGED <<next, process, childVars, failed_processes_log>>
  BY DEF Acquire, At, RInv, CoreNow, Core, Types
<1>2. Runs(b, next[b]) /\ process[Arg(b, next[b])] = "idle"
  BY <1>1 DEF CoreNow, Core, AtCommand, Asking
<1>3. CASE permits = 0
  <2>1. pc' = [pc EXCEPT ![b] = "semwait"] /\ permits' = permits
    BY <1>3 DEF Acquire, Goto
  <2>2. Core([pc EXCEPT ![b] = "semwait"], next, process, Quiet)
    BY <1>1, <1>2, Move, Zenon DEF CoreNow, Asking, Labels
  <2>3. Keeps
    BY <1>1, <2>1, Tame DEF RInv
  <2> QED
    BY <1>1, <2>1, <2>2, <2>3 DEF CoreNow, Quiet
<1>4. CASE permits # 0
  <2>1. pc' = [pc EXCEPT ![b] = "launch"] /\ permits' = permits - 1
    BY <1>4 DEF Acquire, Goto
  <2>2. Core([pc EXCEPT ![b] = "launch"], next, process, Quiet)
    BY <1>1, <1>2, Move, Zenon DEF CoreNow, Asking, Labels
  <2>3. pc'[b] = "launch" /\ \A c \in Block : c # b => pc'[c] = pc[c]
    BY <1>1, <2>1
  <2>4. Holders(pc') \subseteq Holders(pc) \union {b} /\ \A c \in Block : Kids(c, pc') \subseteq Kids(c, pc)
    BY <1>1, <2>3 DEF Holders, Kids
  <2>5. Budget(pc', process, permits - 1, max_processes[Running])
    BY <1>1, <1>4, <2>4, BudgetTaken, MaxIsNat, Zenon DEF RInv, CoreNow, Core
  <2>6. permits' \in Nat
    BY <1>1, <1>4, <2>1
  <2>7. UNCHANGED <<children_started_count, children_finished_count>>
    BY <1>1 DEF childVars
  <2>8. CountsNow'
    BY <1>1, <2>4, <2>7, CountedKept, Zenon DEF RInv, CountsNow
  <2> QED
    BY <1>1, <2>1, <2>2, <2>3, <2>5, <2>6, <2>8 DEF CoreNow, Quiet, Keeps, RInv
<1> QED
  BY <1>3, <1>4

LEMMA LaunchKeeps ==
  ASSUME RInv, NEW b \in Block, Launch(b)
  PROVE  CoreNow' /\ Keeps
<1>1. /\ pc[b] = "launch" /\ pc \in [Block -> Labels] /\ CoreNow
      /\ UNCHANGED <<next, permits, childVars, failed_processes_log>>
  BY DEF Launch, At, RInv, CoreNow, Core, Types
<1>2. CASE Cmd(b).op # "run"
  BY <1>1, <1>2, ThreadDiesKeeps DEF Launch
<1>3. CASE Cmd(b).op = "run"
  <2> DEFINE p == Arg(b, next[b])
  <2>1. process' = [process EXCEPT ![p] = "opened"] /\ pc' = [pc EXCEPT ![b] = "alarm"]
    BY <1>3 DEF Launch, Goto, Cmd, Arg
  <2>2. /\ Runs(b, next[b]) /\ process[p] = "idle"
        /\ Core([pc EXCEPT ![b] = "alarm"], next, [process EXCEPT ![p] = "opened"], Quiet)
    BY <1>1, Opens, Zenon DEF CoreNow
  <2>3. CoreNow'
    BY <1>1, <2>1, <2>2 DEF CoreNow, Quiet
  <2>4. p \in Process /\ process \in [Process -> {"idle", "opened", "done"} \union Watched]
    BY <1>1, <2>2, CommandFacts DEF CoreNow, Core, Types
  <2> HIDE DEF p
  <2>5. /\ pc'[b] = "alarm" /\ \A c \in Block : c # b => pc'[c] = pc[c]
        /\ process'[p] = "opened" /\ \A q \in Process : q # p => process'[q] = process[q]
    BY <1>1, <2>1, <2>4
  <2>6. /\ b \in Holders(pc) /\ Holders(pc') \subseteq Holders(pc) \ {b}
        /\ Occupying(process') \subseteq Occupying(process) \union {p}
    BY <1>1, <2>5 DEF Holders, Occupying
  <2>7. Budget(pc', process', permits, max_processes[Running])
    BY <2>6, BudgetOpened, MaxIsNat, Zenon DEF RInv, CoreNow, Core
  <2>8. \A c \in Block : Kids(c, pc') \subseteq Kids(c, pc) /\ Watchers(c, process') \subseteq Watchers(c, process)
    BY <1>1, <2>5 DEF Kids, Watchers, Watched
  <2>9. UNCHANGED <<children_started_count, children_finished_count>>
    BY <1>1 DEF childVars
  <2>10. CountsNow'
    BY <2>8, <2>9, CountedKept, Zenon DEF RInv, CountsNow
  <2> QED
    BY <1>1, <2>3, <2>5, <2>7, <2>10 DEF Keeps, RInv
<1> QED
  BY <1>2, <1>3

(* The alarm is created and recorded. *)
LEMMA StartingKeeps ==
  ASSUME RInv, NEW b \in Block, pc[b] \in Starting, NEW l \in Starting, pc' = [pc EXCEPT ![b] = l],
         UNCHANGED <<next, process, permits, childVars, failed_processes_log>>
  PROVE  CoreNow' /\ Keeps
<1>1. pc \in [Block -> Labels] /\ l \in Labels
  BY DEF RInv, CoreNow, Core, Types, Labels, Starting
<1>2. Core([pc EXCEPT ![b] = l], next, process, Quiet)
  BY <1>1, Move, Zenon DEF RInv, CoreNow
<1>3. Keeps
  BY <1>1, Tame DEF RInv, Starting
<1> QED
  BY <1>2, <1>3 DEF CoreNow, Quiet

LEMMA CreateAlarmKeeps ==
  ASSUME RInv, NEW b \in Block, CreateAlarm(b)
  PROVE  CoreNow' /\ Keeps
BY StartingKeeps, Zenon DEF CreateAlarm, At, Goto, Starting

LEMMA SetAlarmKeeps ==
  ASSUME RInv, NEW b \in Block, SetAlarm(b)
  PROVE  CoreNow' /\ Keeps
BY StartingKeeps, Zenon DEF SetAlarm, At, Goto, Starting

LEMMA SpawnKeeps ==
  ASSUME RInv, NEW b \in Block, Spawn(b)
  PROVE  CoreNow' /\ Keeps
<1> DEFINE p == Arg(b, next[b])
<1>1. /\ pc[b] = "spawn" /\ pc \in [Block -> Labels] /\ CoreNow
      /\ process' = [process EXCEPT ![p] = "running"]
      /\ UNCHANGED <<children_finished_count, permits, failed_processes_log>>
  BY DEF Spawn, At, Cmd, Arg, RInv, CoreNow, Core, Types
<1>2. Runs(b, next[b]) /\ process[p] = "opened" /\ p \in Process
  BY <1>1, CommandFacts DEF CoreNow, Core, AtCommand, Starting
<1>3. \A c \in Block : \A k : Runs(c, k) /\ Arg(c, k) = p => c = b
  BY <1>2, RunsOnce
<1>4. process \in [Process -> {"idle", "opened", "done"} \union Watched]
  BY <1>1 DEF CoreNow, Core, Types
<1>5. CASE Parallel[b]
  <2>1. /\ children_started_count' = [children_started_count EXCEPT ![b] = @ + 1]
        /\ pc' = [pc EXCEPT ![b] = "exec"] /\ next' = [next EXCEPT ![b] = @ + 1]
    BY <1>5 DEF Spawn, Advance
  <2>2. Core([pc EXCEPT ![b] = "exec"], [next EXCEPT ![b] = @ + 1], [process EXCEPT ![p] = "running"], Quiet)
    BY <1>1, <1>5, WatchesThread, Zenon DEF CoreNow
  <2>3. CoreNow'
    BY <1>1, <2>1, <2>2 DEF CoreNow, Quiet
  <2> HIDE DEF p
  <2>4. /\ pc'[b] = "exec" /\ \A c \in Block : c # b => pc'[c] = pc[c]
        /\ process'[p] = "running" /\ \A q \in Process : q # p => process'[q] = process[q]
    BY <1>1, <1>2, <1>4, <2>1
  <2>5. Holders(pc') \subseteq Holders(pc) /\ Occupying(process') \subseteq Occupying(process)
    BY <1>2, <2>4 DEF Holders, Occupying, Occupied
  <2>6. Budget(pc', process', permits', max_processes[Running]) /\ permits' \in Nat
    BY <1>1, <2>5, BudgetKept, MaxIsNat, Zenon DEF RInv, CoreNow, Core
  <2>7. \A c \in Block : Kids(c, pc') \subseteq Kids(c, pc)
    BY <1>1, <2>4 DEF Kids
  <2>8. Watchers(b, process') \subseteq Watchers(b, process) \union {p}
    BY <2>4 DEF Watchers
  <2>9. \A c \in Block : c # b => Watchers(c, process') \subseteq Watchers(c, process)
    BY <2>4, <1>3 DEF Watchers
  <2>10. ASSUME NEW c \in Block, Parallel[c]
         PROVE  Counted(c, pc', process', children_started_count'[c], children_finished_count'[c])
    <3>1. /\ Counted(c, pc, process, children_started_count[c], children_finished_count[c])
          /\ children_started_count[c] \in Nat /\ children_finished_count[c] \in Nat
          /\ children_finished_count'[c] = children_finished_count[c]
      BY <1>1, <2>10 DEF RInv, CountsNow
    <3>2. CASE c = b
      <4>1. /\ children_started_count'[c] = children_started_count[c] + 1
            /\ Kids(c, pc') \subseteq Kids(c, pc)
            /\ Watchers(c, process') \subseteq Watchers(c, process) \union {p}
        BY <3>2, <2>1, <2>7, <2>8, Zenon DEF RInv, CountsNow
      <4>2. Counted(c, pc', process', children_started_count[c] + 1, children_finished_count[c])
        BY <3>1, <4>1, CountedStarts, Zenon
      <4> QED
        BY <3>1, <4>1, <4>2
    <3>3. CASE c # b
      <4>1. children_started_count'[c] = children_started_count[c]
        BY <3>3, <2>1 DEF RInv, CountsNow
      <4> QED
        BY <3>1, <3>3, <4>1, <2>7, <2>9, CountedKept
    <3> QED
      BY <3>2, <3>3
  <2>11. children_started_count' \in [Block -> Nat] /\ children_finished_count' \in [Block -> Nat]
    BY <1>1, <2>1 DEF RInv, CountsNow
  <2>12. CountsNow'
    BY <2>10, <2>11 DEF CountsNow
  <2> QED
    BY <1>1, <2>3, <2>4, <2>6, <2>12 DEF Keeps, RInv
<1>6. CASE ~Parallel[b]
  <2>1. pc' = [pc EXCEPT ![b] = "watch"] /\ UNCHANGED <<next, children_started_count>>
    BY <1>6 DEF Spawn, Goto
  <2>2. Core([pc EXCEPT ![b] = "watch"], next, [process EXCEPT ![p] = "running"], Quiet)
    BY <1>1, <1>6, Watches, Zenon DEF CoreNow
  <2>3. CoreNow'
    BY <1>1, <2>1, <2>2 DEF CoreNow, Quiet
  <2> HIDE DEF p
  <2>4. /\ pc'[b] = "watch" /\ \A c \in Block : c # b => pc'[c] = pc[c]
        /\ process'[p] = "running" /\ \A q \in Process : q # p => process'[q] = process[q]
    BY <1>1, <1>2, <1>4, <2>1
  <2>5. Holders(pc') \subseteq Holders(pc) /\ Occupying(process') \subseteq Occupying(process)
    BY <1>2, <2>4 DEF Holders, Occupying, Occupied
  <2>6. Budget(pc', process', permits', max_processes[Running]) /\ permits' \in Nat
    BY <1>1, <2>5, BudgetKept, MaxIsNat, Zenon DEF RInv, CoreNow, Core
  <2>7. \A c \in Block : Kids(c, pc') \subseteq Kids(c, pc)
    BY <1>1, <2>4 DEF Kids
  <2>8. \A c \in Block : Parallel[c] => Watchers(c, process') \subseteq Watchers(c, process)
    BY <1>3, <1>6, <2>4 DEF Watchers
  <2>9. CountsNow'
    BY <1>1, <2>1, <2>7, <2>8, CountedKept, Zenon DEF RInv, CountsNow
  <2> QED
    BY <1>1, <2>3, <2>4, <2>6, <2>9 DEF Keeps, RInv
<1> QED
  BY <1>5, <1>6

(* What is kept while no process has failed is kept when one has. *)
LEMMA LessQuiet ==
  ASSUME NEW P, NEW N, NEW R, NEW Q, Core(P, N, R, Q), NEW QQ, QQ => Q
  PROVE  Core(P, N, R, QQ)
BY DEF Core, NoneSkipped

(* A process that has started has one command. *)
LEMMA OwnedBy ==
  ASSUME RInv, NEW p \in Process, process[p] # "idle"
  PROVE  \E b \in Block, n \in Nat : /\ Runs(b, n) /\ Arg(b, n) = p /\ Owner(p) = b
                                     /\ \A c \in Block : \A k : Runs(c, k) /\ Arg(c, k) = p => c = b
<1>1. PICK b \in Block, n \in Nat : Runs(b, n) /\ Arg(b, n) = p
  BY DEF RInv, CoreNow, Core, OfProcess
<1> QED
  BY <1>1, RunsOnce

LEMMA ProcessExitKeeps ==
  ASSUME RInv, NEW p \in Process, ProcessExit(p)
  PROVE  CoreNow' /\ Keeps
<1>1. /\ process[p] = "running" /\ process' = [process EXCEPT ![p] = "exited"] /\ CoreNow
      /\ UNCHANGED <<pc, next, childVars, permits, failed_processes_log>>
      /\ process \in [Process -> {"idle", "opened", "done"} \union Watched]
  BY DEF ProcessExit, blockVars, RInv, CoreNow, Core, Types
<1>2. PICK b \in Block, n \in Nat : Runs(b, n) /\ Arg(b, n) = p
  BY <1>1, OwnedBy
<1>3. Core(pc, next, [process EXCEPT ![p] = "exited"], Quiet)
  BY <1>1, <1>2, WatcherGoes, Zenon DEF CoreNow, Watched
<1>4. Keeps
  BY <1>1, Tame DEF RInv, Occupied, Watched
<1> QED
  BY <1>1, <1>3, <1>4 DEF CoreNow, Quiet

LEMMA ReportKeeps ==
  ASSUME RInv, NEW p \in Process, NEW success \in BOOLEAN, Report(p, success)
  PROVE  CoreNow' /\ Keeps
<1>1. /\ process[p] = "exited" /\ process' = [process EXCEPT ![p] = "reported"] /\ CoreNow
      /\ UNCHANGED <<pc, next, childVars, permits>>
      /\ process \in [Process -> {"idle", "opened", "done"} \union Watched]
  BY DEF Report, blockVars, RInv, CoreNow, Core, Types
<1>2. /\ failed_processes_log \in Seq(Process)
      /\ failed_processes_log' = IF success THEN failed_processes_log ELSE Append(failed_processes_log, p)
  BY DEF Report, RInv
<1>3. failed_processes_log' \in Seq(Process) /\ (Quiet' => Quiet)
  BY <1>2 DEF Quiet
<1>4. PICK b \in Block, n \in Nat : Runs(b, n) /\ Arg(b, n) = p
  BY <1>1, OwnedBy
<1>5. Core(pc, next, [process EXCEPT ![p] = "reported"], Quiet)
  BY <1>1, <1>4, WatcherGoes, Zenon DEF CoreNow, Watched
<1>6. Core(pc', next', process', Quiet')
  BY <1>1, <1>3, <1>5, LessQuiet
<1>7. Keeps
  BY <1>1, <1>3, Tame DEF RInv, Occupied, Watched
<1> QED
  BY <1>6, <1>7 DEF CoreNow

(* Condition.signal of the semaphore. *)
LEMMA Wakes ==
  ASSUME NEW P, NEW N, NEW R, NEW Q, Core(P, N, R, Q), WakesOne(P)
  PROVE  /\ Core(pc', N, R, Q)
         /\ \A c \in Block : pc'[c] = P[c] \/ (P[c] = "semwait" /\ pc'[c] = "acquire")
<1>1. CASE pc' = P
  BY <1>1
<1>2. ASSUME NEW b \in Block, P[b] = "semwait", pc' = [P EXCEPT ![b] = "acquire"]
      PROVE  /\ Core(pc', N, R, Q)
             /\ \A c \in Block : pc'[c] = P[c] \/ (P[c] = "semwait" /\ pc'[c] = "acquire")
  <2>1. Runs(b, N[b]) /\ R[Arg(b, N[b])] = "idle" /\ P \in [Block -> Labels]
    BY <1>2 DEF Core, AtCommand, Asking, Types
  <2>2. Core([P EXCEPT ![b] = "acquire"], N, R, Q)
    BY <1>2, <2>1, Move, Zenon DEF Labels, Asking
  <2> QED
    BY <1>2, <2>1, <2>2
<1> QED
  BY <1>1, <1>2 DEF WakesOne

LEMMA ReleaseKeeps ==
  ASSUME RInv, NEW p \in Process, Release(p)
  PROVE  CoreNow' /\ Keeps
<1>1. /\ process[p] = "reported" /\ permits' = permits + 1 /\ CoreNow /\ permits \in Nat
      /\ UNCHANGED <<children_started_count, children_finished_count, failed_processes_log>>
      /\ process \in [Process -> {"idle", "opened", "done"} \union Watched]
      /\ pc \in [Block -> Labels]
  BY DEF Release, childVars, RInv, CoreNow, Core, Types
<1>2. PICK b \in Block, n \in Nat : Runs(b, n) /\ Arg(b, n) = p /\ Owner(p) = b
  BY <1>1, OwnedBy
<1>3. /\ CoreNow'
      /\ \A c \in Block : \/ pc'[c] = pc[c]
                          \/ pc[c] \in {"semwait", "watch"} /\ pc'[c] \in {"acquire", "exec"}
      /\ process'[p] \in {"released", "done"} /\ \A q \in Process : q # p => process'[q] = process[q]
      /\ process'[p] = "done" => ~Parallel[b]
  <2>1. CASE Parallel[b]
    <3>1. process' = [process EXCEPT ![p] = "released"] /\ WakesOne(pc) /\ next' = next
      BY <1>2, <2>1 DEF Release
    <3>2. Core(pc, next, [process EXCEPT ![p] = "released"], Quiet)
      BY <1>1, <1>2, <2>1, WatcherGoes, Zenon DEF CoreNow, Watched
    <3>3. /\ Core(pc', next, [process EXCEPT ![p] = "released"], Quiet)
          /\ \A c \in Block : pc'[c] = pc[c] \/ (pc[c] = "semwait" /\ pc'[c] = "acquire")
      BY <3>1, <3>2, Wakes
    <3> QED
      BY <1>1, <2>1, <3>1, <3>3 DEF CoreNow, Quiet
  <2>2. CASE ~Parallel[b]
    <3> DEFINE P == [pc EXCEPT ![b] = "exec"]
    <3>1. process' = [process EXCEPT ![p] = "done"] /\ WakesOne(P) /\ next' = [next EXCEPT ![b] = @ + 1]
      BY <1>2, <2>2 DEF Release
    <3>2. /\ pc[b] = "watch"
          /\ Core(P, [next EXCEPT ![b] = @ + 1], [process EXCEPT ![p] = "done"], Quiet)
      BY <1>1, <1>2, <2>2, ReleasesHere, Zenon DEF CoreNow, Watched
    <3>3. P[b] = "exec" /\ \A c \in Block : c # b => P[c] = pc[c]
      BY <1>1
    <3> HIDE DEF P
    <3>4. /\ Core(pc', [next EXCEPT ![b] = @ + 1], [process EXCEPT ![p] = "done"], Quiet)
          /\ \A c \in Block : pc'[c] = P[c] \/ (P[c] = "semwait" /\ pc'[c] = "acquire")
      BY <3>1, <3>2, Wakes
    <3>5. CoreNow'
      BY <1>1, <3>1, <3>4 DEF CoreNow, Quiet
    <3> QED
      BY <1>1, <2>2, <3>1, <3>2, <3>3, <3>4, <3>5
  <2> QED
    BY <2>1, <2>2
<1>4. /\ Holders(pc') \subseteq Holders(pc) /\ p \in Occupying(process)
      /\ Occupying(process') \subseteq Occupying(process) \ {p}
  BY <1>1, <1>3 DEF Holders, Occupying, Occupied
<1>5. Budget(pc', process', permits + 1, max_processes[Running])
  BY <1>1, <1>4, BudgetReturned, MaxIsNat, Zenon DEF RInv, CoreNow, Core
<1>6. permits' \in Nat
  BY <1>1
<1>7. \A c \in Block : Kids(c, pc') \subseteq Kids(c, pc) /\ Watchers(c, process') \subseteq Watchers(c, process)
  BY <1>1, <1>3 DEF Kids, Watchers, Watched
<1>8. CountsNow'
  BY <1>1, <1>7, CountedKept, Zenon DEF RInv, CountsNow
<1>9. \A c \in Block : pc[c] # "idle" => pc'[c] # "idle"
  BY <1>3
<1> QED
  BY <1>1, <1>3, <1>5, <1>6, <1>8, <1>9 DEF Keeps, RInv

LEMMA WatcherFinishedKeeps ==
  ASSUME RInv, NEW p \in Process, WatcherFinished(p)
  PROVE  CoreNow' /\ Keeps
<1>1. /\ process[p] = "released" /\ process' = [process EXCEPT ![p] = "done"] /\ CoreNow
      /\ ChildFinished(Owner(p), pc) /\ UNCHANGED <<next, permits, failed_processes_log>>
      /\ process \in [Process -> {"idle", "opened", "done"} \union Watched]
  BY DEF WatcherFinished, RInv, CoreNow, Core, Types
<1>2. PICK a \in Block, n \in Nat : /\ Runs(a, n) /\ Arg(a, n) = p /\ Owner(p) = a
                                    /\ \A c \in Block : \A k : Runs(c, k) /\ Arg(c, k) = p => c = a
  BY <1>1, OwnedBy
<1>3. Parallel[a]
  BY <1>1, <1>2 DEF CoreNow, Core, OfProcess, ProcessFits
<1>4. Core(pc, next, [process EXCEPT ![p] = "done"], Quiet)
  BY <1>1, <1>2, <1>3, WatcherGoes, Zenon DEF CoreNow, Watched
<1>5. /\ Core(pc', next, [process EXCEPT ![p] = "done"], Quiet)
      /\ \A c \in Block : pc'[c] = pc[c] \/ (pc[c] = "joinwait" /\ pc'[c] = "join")
      /\ children_finished_count' = [children_finished_count EXCEPT ![a] = @ + 1]
      /\ UNCHANGED children_started_count
  BY <1>1, <1>2, <1>4, Signals
<1>6. CoreNow'
  BY <1>1, <1>5 DEF CoreNow, Quiet
<1>7. process'[p] = "done" /\ \A q \in Process : q # p => process'[q] = process[q]
  BY <1>1
<1>8. Holders(pc') \subseteq Holders(pc) /\ Occupying(process') \subseteq Occupying(process)
  BY <1>5, <1>7 DEF Holders, Occupying, Occupied
<1>9. Budget(pc', process', permits', max_processes[Running]) /\ permits' \in Nat
  BY <1>1, <1>8, BudgetKept, MaxIsNat, Zenon DEF RInv, CoreNow, Core
<1>10. \A c \in Block : Kids(c, pc') \subseteq Kids(c, pc) /\ Watchers(c, process') \subseteq Watchers(c, process)
  BY <1>1, <1>5, <1>7 DEF Kids, Watchers, Watched
<1>11. p \in Watchers(a, process) /\ p \notin Watchers(a, process')
  BY <1>1, <1>2, <1>7 DEF Watchers, Watched
<1>12. ASSUME NEW c \in Block, Parallel[c]
       PROVE  Counted(c, pc', process', children_started_count'[c], children_finished_count'[c])
  <2>1. /\ Counted(c, pc, process, children_started_count[c], children_finished_count[c])
        /\ children_started_count[c] \in Nat /\ children_finished_count[c] \in Nat
        /\ children_started_count'[c] = children_started_count[c]
    BY <1>5, <1>12 DEF RInv, CountsNow
  <2>2. CASE c = a
    <3>1. children_finished_count'[c] = children_finished_count[c] + 1
      BY <2>2, <1>5 DEF RInv, CountsNow
    <3>2. /\ p \in Watchers(c, process) /\ Watchers(c, process') \subseteq Watchers(c, process) \ {p}
          /\ Kids(c, pc') \subseteq Kids(c, pc)
      BY <2>2, <1>10, <1>11
    <3> QED
      BY <2>1, <3>1, <3>2, CountedFinishes, Zenon
  <2>3. CASE c # a
    <3>1. children_finished_count'[c] = children_finished_count[c]
      BY <2>3, <1>5 DEF RInv, CountsNow
    <3> QED
      BY <2>1, <3>1, <1>10, CountedKept
  <2> QED
    BY <2>2, <2>3
<1>13. CountsNow'
  BY <1>5, <1>12 DEF RInv, CountsNow
<1> QED
  BY <1>1, <1>5, <1>6, <1>9, <1>13 DEF Keeps, RInv

(* The steps of the alarm thread and the clock change nothing of this. *)
LEMMA StillKeeps ==
  ASSUME RInv, UNCHANGED <<blockVars, childVars, process, permits, failed_processes_log>>
  PROVE  CoreNow' /\ Keeps
<1>1. UNCHANGED <<pc, next, process, permits, childVars, failed_processes_log>>
  BY DEF blockVars
<1>2. CoreNow'
  BY <1>1 DEF RInv, CoreNow, Quiet
<1>3. Keeps
  BY <1>1, Tame DEF RInv
<1> QED
  BY <1>2, <1>3

LEMMA NextKeeps ==
  ASSUME RInv, [Next]_vars
  PROVE  CoreNow' /\ Keeps
<1>1. ASSUME NEW b \in Block, BlockStep(b)
      PROVE  CoreNow' /\ Keeps
  BY <1>1, ExecProcessKeeps, ExecBlockKeeps, ExecDelKeeps, ExecErrorKeeps, ExecEndKeeps,
     JoinChildrenKeeps, ReturnKeeps, AcquireKeeps, LaunchKeeps, CreateAlarmKeeps, SetAlarmKeeps,
     SpawnKeeps DEF BlockStep
<1>2. ASSUME NEW p \in Process, ProcessExit(p) \/ WatcherStep(p)
      PROVE  CoreNow' /\ Keeps
  BY <1>2, ProcessExitKeeps, ReportKeeps, ReleaseKeeps, WatcherFinishedKeeps DEF WatcherStep
<1>3. CASE AlarmThread \/ AlarmHandler \/ Tick \/ UNCHANGED vars
  BY <1>3, StillKeeps DEF AlarmThread, AlarmHandler, Tick, vars
<1> QED
  BY <1>1, <1>2, <1>3 DEF Next, Step

LEMMA SameRunning ==
  ASSUME RInv, CoreNow', Keeps
  PROVE  Running' = Running
<1>1. OneScript(pc) /\ OneScript(pc') /\ Script \subseteq Block
  BY ScriptAssumption DEF RInv, CoreNow, Core
<1>2. Running \in Script /\ pc[Running] # "idle"
  BY <1>1, RunningIs
<1>3. pc'[Running] # "idle"
  BY <1>1, <1>2 DEF Keeps
<1>4. \A t \in Script : t # Running => pc'[t] = "idle"
  BY <1>1, <1>2, <1>3 DEF OneScript
<1> QED
  BY <1>2, <1>3, <1>4 DEF Running

LEMMA NextRInv ==
  ASSUME RInv, [Next]_vars
  PROVE  RInv' /\ Running' = Running
<1>1. CoreNow' /\ Keeps
  BY NextKeeps
<1>2. Running' = Running
  BY <1>1, SameRunning
<1> QED
  BY <1>1, <1>2 DEF RInv, Keeps

LEMMA InitRInv ==
  ASSUME Init
  PROVE  RInv
<1>1. PICK s \in Script : /\ pc = [b \in Block |-> IF b = s THEN "exec" ELSE "idle"]
                          /\ permits = max_processes[s]
  BY DEF Init
<1>2. /\ next = [b \in Block |-> 1] /\ process = [p \in Process |-> "idle"]
      /\ children_started_count = [b \in Block |-> 0]
      /\ children_finished_count = [b \in Block |-> 0]
      /\ failed_processes_log = <<>>
  BY DEF Init
<1>3. s \in Block /\ Script \subseteq Block
  BY ScriptAssumption
<1>4. \A b \in Block : 1 <= Size(b) + 1
  BY CommandFacts
<1>5. Types(pc, next, process)
  BY <1>1, <1>2, <1>4 DEF Types, Labels
<1>6. OneScript(pc)
  BY <1>1, <1>3 DEF OneScript
<1>7. AtCommand(pc, next, process)
  BY <1>1, <1>2 DEF AtCommand, Asking, Starting
<1>8. OfProcess(pc, next, process)
  <2>1. \A b \in Block, k \in Nat : Runs(b, k) => process[Arg(b, k)] = "idle"
    BY <1>2, CommandFacts
  <2> QED
    BY <1>2, <2>1 DEF OfProcess, ProcessFits, Watched
<1>9. \A b \in Block, k \in Nat : Calls(b, k) => pc[Arg(b, k)] = "idle"
  BY <1>1, CommandFacts
<1>10. OfBlock(pc, next)
  BY <1>9 DEF OfBlock, BlockFits
<1>11. Joined(pc, process)
  BY <1>1 DEF Joined
<1>12. NoneSkipped(pc, next, process, Quiet)
  <2>1. ASSUME NEW b \in Block, NEW k \in Nat, k < next[b]
        PROVE  ~Runs(b, k) /\ ~Calls(b, k)
    BY <1>2, <2>1, CommandFacts
  <2> QED
    BY <2>1 DEF NoneSkipped
<1>13. CoreNow
  BY <1>5, <1>6, <1>7, <1>8, <1>10, <1>11, <1>12 DEF CoreNow, Core
<1>14. Holders(pc) = {} /\ Occupying(process) = {}
  BY <1>1, <1>2 DEF Holders, Occupying, Occupied
<1>15. Running = s /\ permits \in Nat
  BY <1>1, <1>3, <1>6, RunningIs, ScriptAssumption
<1>16. Budget(pc, process, permits, max_processes[Running])
  BY <1>1, <1>14, <1>15, FS_EmptySet DEF Budget
<1>17. ASSUME NEW b \in Block
       PROVE  Kids(b, pc) = {} /\ Watchers(b, process) = {}
  <2>1. Kids(b, pc) = {}
    BY <1>9, <1>17 DEF Kids
  <2>2. Watchers(b, process) = {}
    BY <1>2 DEF Watchers, Watched
  <2> QED
    BY <2>1, <2>2
<1>18. CountsNow
  <2>1. ASSUME NEW b \in Block
        PROVE  Counted(b, pc, process, children_started_count[b], children_finished_count[b])
    <3>1. Cardinality(Kids(b, pc)) = 0 /\ Cardinality(Watchers(b, process)) = 0
      BY <1>17, FS_EmptySet
    <3>2. children_started_count[b] = 0 /\ children_finished_count[b] = 0
      BY <1>2
    <3> QED
      BY <3>1, <3>2 DEF Counted
  <2> QED
    BY <1>2, <2>1 DEF CountsNow
<1> QED
  BY <1>2, <1>13, <1>15, <1>16, <1>18 DEF RInv

LEMMA SpecRInv == Spec => []RInv
<1>1. Init => RInv
  BY InitRInv
<1>2. RInv /\ [Next]_vars => RInv'
  BY NextRInv
<1> QED
  BY <1>1, <1>2, PTL DEF Spec

(* The semaphore (mysh.ml:94): for every script and every value of -cpus,  *)
(* no more processes than -cpus are open at a time.                        *)
THEOREM PermitsBound == Spec => []AtMostMaxProcesses
<1>1. RInv => AtMostMaxProcesses
  <2> SUFFICES ASSUME RInv PROVE AtMostMaxProcesses
    OBVIOUS
  <2>1. /\ permits \in Nat /\ Cardinality(Holders(pc)) \in Nat
        /\ Cardinality(Occupying(process)) \in Nat /\ max_processes[Running] \in Nat
    BY FiniteParts, MaxIsNat DEF RInv, CoreNow, Core
  <2>2. permits + Cardinality(Holders(pc)) + Cardinality(Occupying(process)) <= max_processes[Running]
    BY DEF RInv, Budget
  <2>3. Cardinality(Occupying(process)) <= max_processes[Running]
    BY <2>1, <2>2
  <2> QED
    BY <2>3 DEF AtMostMaxProcesses, Occupying
<1> QED
  BY <1>1, SpecRInv, PTL

-----------------------------------------------------------------------------
(* The exit status. *)

(* mysh ends by itself only in the last step of the script. *)
LEMMA ExitStep ==
  ASSUME [Next]_vars, exit_status' \in {"0", "1"}
  PROVE  \/ UNCHANGED vars
         \/ \E s \in Script : /\ pc' = [pc EXCEPT ![s] = "returned"]
                              /\ exit_status' = IF failed_processes_log = <<>> THEN "0" ELSE "1"
                              /\ UNCHANGED failed_processes_log
<1>1. ASSUME NEW b \in Block, BlockStep(b), ~Return(b)
      PROVE  exit_status = "none" /\ exit_status' \in {exit_status, "uncaught"}
  BY <1>1, Zenon DEF BlockStep, ExecProcess, ExecBlock, ExecDel, ExecError, ExecEnd, JoinChildren,
     Acquire, Launch, CreateAlarm, SetAlarm, Spawn, At, Alive, ThreadDies
<1>2. ASSUME NEW b \in Block, Return(b)
      PROVE  /\ exit_status = "none"
             /\ b \notin Script => exit_status' = exit_status
             /\ b \in Script => /\ exit_status' = IF failed_processes_log = <<>> THEN "0" ELSE "1"
                                /\ pc' = [pc EXCEPT ![b] = "returned"]
                                /\ UNCHANGED failed_processes_log
  BY <1>2 DEF Return, At, Alive, Goto, OwnThread
<1>3. ASSUME NEW p \in Process, ProcessExit(p) \/ WatcherStep(p)
      PROVE  exit_status = "none" /\ exit_status' = exit_status
  BY <1>3 DEF ProcessExit, WatcherStep, Report, Release, WatcherFinished, Alive
<1>4. CASE AlarmThread \/ AlarmHandler \/ Tick
  BY <1>4 DEF AlarmThread, AlarmHandler, Tick, Alive
<1> QED
  BY <1>1, <1>2, <1>3, <1>4 DEF Next, Step

LEMMA NextExit ==
  ASSUME RInv, ExitStatusTruthful, [Next]_vars
  PROVE  ExitStatusTruthful'
<1>1. RInv' /\ Running' = Running
  BY NextRInv
<1>2. CASE UNCHANGED vars
  BY <1>1, <1>2 DEF vars, ExitStatusTruthful, Failed
<1>3. CASE exit_status' \notin {"0", "1"}
  BY <1>3 DEF ExitStatusTruthful
<1>4. ASSUME NEW s \in Script, pc' = [pc EXCEPT ![s] = "returned"],
             exit_status' = IF failed_processes_log = <<>> THEN "0" ELSE "1",
             UNCHANGED failed_processes_log
      PROVE  ExitStatusTruthful'
  <2>1. s \in Block /\ pc'[s] = "returned" /\ Core(pc', next', process', Quiet')
    BY <1>1, <1>4, ScriptAssumption, Zenon DEF RInv, CoreNow, Core, Types
  <2>2. Running' = s
    <3>1. OneScript(pc) /\ pc \in [Block -> Labels]
      BY DEF RInv, CoreNow, Core, Types
    <3>2. Running \in Script /\ pc[Running] # "idle" /\ \A t \in Script : t # Running => pc[t] = "idle"
      BY <3>1, RunningIs
    <3>3. Running \in Block /\ pc'[Running] # "idle" /\ OneScript(pc')
      BY <1>4, <3>1, <3>2, <2>1, ScriptAssumption DEF Core
    <3> QED
      BY <1>1, <2>1, <3>2, <3>3 DEF OneScript
  <2>3. \A p \in Process : process'[p] \in {"idle", "done"}
    BY <2>1, ReturnedOver
  <2>4. CASE failed_processes_log = <<>>
    <3>1. Quiet' = TRUE
      BY <1>4, <2>4 DEF Quiet
    <3>2. Core(pc', next', process', TRUE)
      BY <2>1, <3>1, Zenon
    <3>3. \A p \in Launches[s] : process'[p] = "done"
      BY <2>1, <3>2, ReturnedAll, Zenon
    <3>4. Failed' = {}
      BY <1>4, <2>4 DEF Failed
    <3> QED
      BY <1>4, <2>2, <2>4, <3>3, <3>4 DEF ExitStatusTruthful
  <2>5. CASE failed_processes_log # <<>>
    <3>1. failed_processes_log \in Seq(Process)
      BY DEF RInv
    <3>2. failed_processes_log[1] \in Failed
      BY <2>5, <3>1 DEF Failed
    <3>3. Failed' # {}
      BY <1>4, <3>2 DEF Failed
    <3> QED
      BY <1>4, <2>3, <2>5, <3>3 DEF ExitStatusTruthful
  <2> QED
    BY <2>4, <2>5
<1> QED
  BY <1>2, <1>3, <1>4, ExitStep

(* The exit status (mysh.ml:495): for every script, mysh reports success     *)
(* only if every process of the script ran to its end and succeeded, and it  *)
(* never ends by itself while a process it launched runs.                    *)
THEOREM ExitTruth == Spec => []ExitStatusTruthful
<1>1. Init => ExitStatusTruthful
  BY DEF Init, ExitStatusTruthful
<1>2. RInv /\ ExitStatusTruthful /\ [Next]_vars => ExitStatusTruthful'
  BY NextExit
<1> QED
  BY <1>1, <1>2, SpecRInv, PTL DEF Spec

-----------------------------------------------------------------------------
(* Stopping at a failure. *)

(* What command j of block b launches has ended and not failed. *)
Fine(b, j) == \A p \in LaunchedBy(b, j) : process[p] = "done" /\ p \notin Failed

(* Command m of the sequential block b reads the failure log first. *)
Checks(b, m) == ~Parallel[b] /\ m \in DOMAIN Cmds[b] /\ Cmds[b][m].line = 1

(* A sequential block has gone past such a command only when what is before *)
(* it is fine, unless the block was stopped.                                *)
PassedFine ==
  \A b \in Block, m \in Nat :
    (Checks(b, m) /\ next[b] <= Size(b) /\ (m < next[b] \/ (m = next[b] /\ pc[b] # "exec")))
    => \A j \in DOMAIN Cmds[b] : j < m => Fine(b, j)

(* So has a process of such a command, or of a later one, started. *)
StartedFine ==
  \A b \in Block, m \in Nat : \A k \in DOMAIN Cmds[b] :
    (Checks(b, m) /\ m <= k /\ \E q \in LaunchedBy(b, k) : process[q] # "idle")
    => \A j \in DOMAIN Cmds[b] : j < m => Fine(b, j)

(* A sequential block that is executing commands has run the ones before. *)
LEMMA BeforeDone ==
  ASSUME CoreNow, Quiet,
         NEW b \in Block, ~Parallel[b], pc[b] = "exec", NEW j \in DOMAIN Cmds[b], j < next[b],
         NEW p \in LaunchedBy(b, j)
  PROVE  process[p] = "done"
<1>1. j \in Nat /\ p \in Process
  BY CommandFacts, LaunchedByProcess
<1>2. CASE Runs(b, j) /\ Arg(b, j) = p
  <2>1. process[p] # "idle" /\ process[p] \in {"idle", "opened", "done"} \union Watched
    BY <1>1, <1>2 DEF CoreNow, Core, NoneSkipped, Types
  <2>2. process[p] # "opened" /\ process[p] \notin Watched
    BY <1>1, <1>2, Zenon DEF CoreNow, Core, OfProcess, ProcessFits, Starting
  <2> QED
    BY <2>1, <2>2
<1>3. CASE Calls(b, j) /\ p \in Launches[Arg(b, j)]
  <2>1. pc[Arg(b, j)] # "idle" /\ Arg(b, j) \in Block
    BY <1>1, <1>3, CommandFacts DEF CoreNow, Core, NoneSkipped
  <2>2. pc[Arg(b, j)] = "returned"
    BY <1>1, <1>3, <2>1, Zenon DEF CoreNow, Core, OfBlock, BlockFits
  <2>3. Core(pc, next, process, TRUE)
    BY Zenon DEF CoreNow
  <2> QED
    BY <1>3, <2>1, <2>2, <2>3, ReturnedAll, ZenonT(30)
<1> QED
  BY <1>2, <1>3, LaunchedByProcess

(* A process of command k of a sequential block is launched while the block *)
(* is at that command.                                                      *)
LEMMA LaunchIn ==
  ASSUME CoreNow, NEW b \in Block, ~Parallel[b],
         NEW k \in DOMAIN Cmds[b], NEW c \in Block, pc[c] = "launch", Arg(c, next[c]) \in LaunchedBy(b, k)
  PROVE  next[b] = k /\ pc[b] # "exec"
<1> DEFINE q == Arg(c, next[c])
<1>0. k \in Nat
  BY CommandFacts
<1>1. Runs(c, next[c])
  BY Zenon DEF CoreNow, Core, AtCommand, Asking
<1>2. \A d \in Block : \A j : Runs(d, j) /\ Arg(d, j) = q => d = c /\ j = next[c]
  BY <1>1, RunsOnce
<1>3. CASE Runs(b, k) /\ Arg(b, k) = q
  BY <1>2, <1>3
<1>4. CASE Calls(b, k) /\ q \in Launches[Arg(b, k)]
  <2> DEFINE a == Arg(b, k)
  <2> DEFINE S == {x \in Block : pc[x] \in {"idle", "returned"}}
  <2>1. a \in Block
    BY <1>4, CommandFacts
  <2>2. PICK d \in Within[a] : Has(d, {"run", "baddir"}, q)
    BY <1>4, <2>1 DEF Launches
  <2>3. d \in Block
    BY <2>1, <2>2 DEF Within
  <2>4. d = c
    BY <1>2, <2>2, <2>3 DEF Has, Runs, Arg
  <2>5. ASSUME NEW x \in S, NEW i, Calls(x, i)
        PROVE  Arg(x, i) \in S
    <3>1. i \in Nat /\ Arg(x, i) \in Block
      BY <2>5, CommandFacts
    <3>2. pc[x] = "idle" => pc[Arg(x, i)] = "idle"
      BY <2>5, <3>1 DEF CoreNow, Core, OfBlock, BlockFits
    <3>3. pc[x] = "returned" => pc[Arg(x, i)] \in {"idle", "returned"}
      BY <2>5, <3>1, Zenon DEF CoreNow, Core, Joined, Over
    <3> QED
      BY <3>1, <3>2, <3>3
  <2>6. a \notin S
    <3>1. SUFFICES ASSUME a \in S PROVE FALSE
      OBVIOUS
    <3>2. c \notin S /\ S \in SUBSET Block
      OBVIOUS
    <3> HIDE DEF S
    <3>3. Within[a] \subseteq S
      BY <2>1, <2>5, <3>1, <3>2, WithinIn
    <3> QED
      BY <2>2, <2>4, <3>2, <3>3
  <2>7. pc[a] \notin {"idle", "returned"}
    BY <2>1, <2>6
  <2> QED
    BY <1>0, <1>4, <2>7 DEF CoreNow, Core, OfBlock, BlockFits
<1> QED
  BY <1>3, <1>4, LaunchedByProcess

(* What a step does to the processes that have ended, which it launches, and *)
(* how it moves a sequential block: the block stays out of, or is back in,   *)
(* "exec" at the same command; goes on to the next; goes into a command, with *)
(* nothing failed if that is a first line; or is stopped.                    *)
Progress ==
  /\ \A p \in Process : process[p] = "done" =>
       process'[p] = "done" /\ (p \in Failed' => p \in Failed)
  /\ \A q \in Process : process[q] = "idle" /\ process'[q] # "idle" =>
       \E c \in Block : pc[c] = "launch" /\ Arg(c, next[c]) = q
  /\ \A b \in Block : ~Parallel[b] =>
       \/ next'[b] = next[b] /\ (pc'[b] = "exec" \/ pc[b] # "exec")
       \/ next'[b] = next[b] + 1 /\ pc'[b] = "exec" /\ pc[b] # "exec"
       \/ next'[b] = next[b] /\ pc[b] = "exec" /\ (Cmds[b][next[b]].line = 1 => Quiet)
       \/ next'[b] > Size(b)

(* A step of block b that moves no process. *)
LEMMA BlockMoves ==
  ASSUME RInv, NEW b \in Block, UNCHANGED <<process, failed_processes_log>>,
         \A c \in Block : c # b => next'[c] = next[c] /\ (pc'[c] = pc[c] \/ pc'[c] = "exec"),
         ~Parallel[b] =>
           \/ next'[b] = next[b] /\ (pc'[b] = "exec" \/ pc[b] # "exec")
           \/ next'[b] = next[b] + 1 /\ pc'[b] = "exec" /\ pc[b] # "exec"
           \/ next'[b] = next[b] /\ pc[b] = "exec" /\ (Cmds[b][next[b]].line = 1 => Quiet)
           \/ next'[b] > Size(b)
  PROVE  Progress
<1>1. Failed' = Failed
  BY DEF Failed
<1> QED
  BY <1>1 DEF Progress

LEMMA ContinuesQuiet ==
  ASSUME NEW b \in Block, ~Parallel[b], Continues(b)
  PROVE  Cmds[b][next[b]].line = 1 => Quiet
BY DEF Continues, Quiet, Cmd

LEMMA ExecProgress ==
  ASSUME RInv, NEW b \in Block,
         ExecProcess(b) \/ ExecDel(b) \/ ExecEnd(b) \/ JoinChildren(b)
         \/ CreateAlarm(b) \/ SetAlarm(b) \/ Acquire(b)
  PROVE  Progress
<1>1. pc \in [Block -> Labels] /\ next \in [Block -> Nat] /\ Size(b) \in Nat
  BY CommandFacts, Zenon DEF RInv, CoreNow, Core, Types
<1>2. CASE ExecProcess(b)
  BY <1>1, <1>2, BlockMoves, ContinuesQuiet, Zenon DEF ExecProcess, At, Goto
<1>3. CASE ExecDel(b)
  BY <1>1, <1>3, BlockMoves, ContinuesQuiet, Zenon DEF ExecDel, At, Goto
<1>4. CASE ExecEnd(b)
  <2>1. next'[b] = Size(b) + 1
    BY <1>1, <1>4 DEF ExecEnd, Size
  <2>2. next'[b] > Size(b)
    BY <1>1, <2>1
  <2> QED
    BY <1>1, <1>4, <2>2, BlockMoves, Zenon DEF ExecEnd, Goto
<1>5. CASE JoinChildren(b)
  BY <1>1, <1>5, BlockMoves DEF JoinChildren, At, Goto, Advance
<1>6. CASE CreateAlarm(b) \/ SetAlarm(b)
  BY <1>1, <1>6, BlockMoves, Zenon DEF CreateAlarm, SetAlarm, At, Goto
<1>7. CASE Acquire(b)
  BY <1>1, <1>7, BlockMoves DEF Acquire, At, Goto
<1> QED
  BY <1>2, <1>3, <1>4, <1>5, <1>6, <1>7

LEMMA ExecBlockProgress ==
  ASSUME RInv, NEW b \in Block, ExecBlock(b)
  PROVE  Progress
<1>1. pc \in [Block -> Labels] /\ next \in [Block -> Nat]
  BY DEF RInv, CoreNow, Core, Types
<1>2. CASE Parallel[b]
  BY <1>1, <1>2, BlockMoves, Zenon DEF ExecBlock
<1>3. CASE ~Parallel[b]
  BY <1>1, <1>3, BlockMoves, ContinuesQuiet DEF ExecBlock, At
<1> QED
  BY <1>2, <1>3

LEMMA ThreadDiesProgress ==
  ASSUME RInv, NEW b \in Block, ThreadDies(b), UNCHANGED <<next, process, failed_processes_log>>,
         pc[b] = "launch" \/ (pc[b] = "exec" /\ Continues(b))
  PROVE  Progress
<1>1. /\ pc \in [Block -> Labels] /\ Failed' = Failed
      /\ pc' = [c \in Block |-> IF c \in CallStack[b] THEN "dead" ELSE pc[c]]
  BY DEF ThreadDies, RInv, CoreNow, Core, Types, Failed
<1>2. \A c \in CallStack[b] : c = b \/ pc[c] \in {"called", "dead"}
  BY OnStack DEF RInv, CoreNow
<1>3. \A c \in Block : c # b => pc'[c] = pc[c] \/ pc[c] # "exec"
  BY <1>1, <1>2
<1>4. ~Parallel[b] => pc[b] # "exec" \/ (Cmds[b][next[b]].line = 1 => Quiet)
  BY ContinuesQuiet
<1> QED
  BY <1>1, <1>3, <1>4 DEF Progress

LEMMA ReturnProgress ==
  ASSUME RInv, NEW b \in Block, Return(b)
  PROVE  Progress
<1>1. /\ pc \in [Block -> Labels] /\ next \in [Block -> Nat] /\ pc[b] = "done" /\ CoreNow
      /\ UNCHANGED <<process, failed_processes_log>>
  BY DEF Return, At, RInv, CoreNow, Core, Types
<1>2. CASE b \in Script
  BY <1>1, <1>2, BlockMoves DEF Return, Goto, OwnThread
<1>3. CASE b \notin Script
  <2>1. PICK a \in Block, k \in Nat : Calls(a, k) /\ Arg(a, k) = b /\ Parent(b) = a
    BY <1>3, CalledBy, CallsOnce
  <2>2. CASE OwnThread(b)
    <3>1. /\ next' = next
          /\ \A c \in Block : c # a /\ c # b => pc'[c] = pc[c]
          /\ pc'[a] = "exec" \/ pc[a] # "exec"
      BY <1>1, <1>3, <2>1, <2>2 DEF Return, ChildFinished
    <3>2. Failed' = Failed /\ Parallel[a]
      BY <1>1, <2>1, <2>2 DEF Failed, OwnThread
    <3> QED
      BY <1>1, <3>1, <3>2 DEF Progress
  <2>3. CASE ~OwnThread(b)
    <3>1. /\ pc' = [pc EXCEPT ![b] = "returned", ![a] = "exec"]
          /\ next' = [next EXCEPT ![a] = @ + 1]
      BY <1>3, <2>1, <2>3 DEF Return
    <3>x. ~Parallel[a] /\ Core(pc, next, process, Quiet)
      BY <1>1, <1>3, <2>1, <2>3 DEF CoreNow, OwnThread
    <3>2. pc[a] \in {"called", "dead"}
      BY <1>1, <2>1, <3>x, ReturnsTo, Zenon
    <3>3. Failed' = Failed
      BY <1>1 DEF Failed
    <3> QED
      BY <1>1, <3>1, <3>2, <3>3 DEF Progress
  <2> QED
    BY <2>2, <2>3
<1> QED
  BY <1>2, <1>3

LEMMA LaunchProgress ==
  ASSUME RInv, NEW b \in Block, Launch(b) \/ Spawn(b)
  PROVE  Progress
<1> DEFINE p == Arg(b, next[b])
<1>1. /\ pc \in [Block -> Labels] /\ next \in [Block -> Nat] /\ CoreNow
      /\ process \in [Process -> {"idle", "opened", "done"} \union Watched]
  BY DEF RInv, CoreNow, Core, Types
<1>2. CASE Launch(b) /\ Cmd(b).op # "run"
  BY <1>2, ThreadDiesProgress DEF Launch, At
<1>3. CASE Launch(b) /\ Cmd(b).op = "run"
  <2>1. /\ pc[b] = "launch" /\ process' = [process EXCEPT ![p] = "opened"]
        /\ pc' = [pc EXCEPT ![b] = "alarm"] /\ next' = next /\ Failed' = Failed
    BY <1>3, Zenon DEF Launch, At, Goto, Cmd, Arg, Failed
  <2>2. process[p] = "idle"
    BY <1>1, <2>1 DEF CoreNow, Core, AtCommand, Asking
  <2> HIDE DEF p
  <2>3. \A q \in Process : process'[q] = process[q] \/ (q = p /\ process[q] = "idle")
    BY <1>1, <2>1, <2>2
  <2> QED
    BY <1>1, <2>1, <2>3 DEF Progress, p
<1>4. CASE Spawn(b)
  <2>1. /\ pc[b] = "spawn" /\ process' = [process EXCEPT ![p] = "running"] /\ Failed' = Failed
    BY <1>4 DEF Spawn, At, Cmd, Arg, Failed
  <2>2. process[p] = "opened"
    BY <1>1, <2>1 DEF CoreNow, Core, AtCommand, Starting
  <2> HIDE DEF p
  <2>3. \A q \in Process : process'[q] = process[q] \/ process[q] \notin {"idle", "done"}
    BY <1>1, <2>1, <2>2
  <2>4. /\ \A c \in Block : c # b => next'[c] = next[c] /\ pc'[c] = pc[c]
        /\ ~Parallel[b] => next'[b] = next[b]
    BY <1>1, <1>4 DEF Spawn, Goto, Advance
  <2> QED
    BY <2>1, <2>3, <2>4, Zenon DEF Progress
<1> QED
  BY <1>2, <1>3, <1>4

LEMMA WatcherProgress ==
  ASSUME RInv, NEW p \in Process, ProcessExit(p) \/ WatcherStep(p)
  PROVE  Progress
<1>1. /\ pc \in [Block -> Labels] /\ next \in [Block -> Nat] /\ CoreNow
      /\ process \in [Process -> {"idle", "opened", "done"} \union Watched]
      /\ failed_processes_log \in Seq(Process)
  BY DEF RInv, CoreNow, Core, Types
<1>2. CASE ProcessExit(p)
  BY <1>1, <1>2 DEF ProcessExit, Progress, blockVars, Failed
<1>3. ASSUME NEW success \in BOOLEAN, Report(p, success)
      PROVE  Progress
  <2>1. /\ process[p] = "exited" /\ process' = [process EXCEPT ![p] = "reported"] /\ UNCHANGED <<pc, next>>
        /\ failed_processes_log' = IF success THEN failed_processes_log ELSE Append(failed_processes_log, p)
    BY <1>3 DEF Report, blockVars
  <2>2. \A q \in Failed' : q \in Failed \/ q = p
    BY <1>1, <2>1 DEF Failed
  <2> QED
    BY <1>1, <2>1, <2>2 DEF Progress
<1>4. CASE Release(p)
  <2>1. process[p] = "reported" /\ Failed' = Failed
    BY <1>4 DEF Release, Failed
  <2>2. PICK b \in Block, n \in Nat : Runs(b, n) /\ Arg(b, n) = p /\ Owner(p) = b
    BY <2>1, OwnedBy
  <2>3. \A q \in Process : q # p => process'[q] = process[q]
    BY <1>1, <1>4 DEF Release
  <2>4. ~Parallel[b] => pc[b] = "watch"
    BY <1>1, <2>1, <2>2, ReleasesHere, Zenon DEF CoreNow, Watched
  <2>5. \A c \in Block : \/ next'[c] = next[c] /\ (pc'[c] = "exec" \/ pc[c] # "exec")
                         \/ next'[c] = next[c] + 1 /\ pc'[c] = "exec" /\ pc[c] # "exec"
    <3>1. CASE Parallel[b]
      BY <1>1, <1>4, <2>2, <3>1 DEF Release, WakesOne
    <3>2. CASE ~Parallel[b]
      <4> DEFINE P == [pc EXCEPT ![b] = "exec"]
      <4>1. WakesOne(P) /\ next' = [next EXCEPT ![b] = @ + 1]
        BY <1>4, <2>2, <3>2 DEF Release
      <4>2. P \in [Block -> Labels] /\ P[b] = "exec" /\ \A c \in Block : c # b => P[c] = pc[c]
        BY <1>1 DEF Labels
      <4> HIDE DEF P
      <4>3. \A c \in Block : pc'[c] = P[c] \/ (P[c] = "semwait" /\ pc'[c] = "acquire")
        BY <4>1, <4>2 DEF WakesOne
      <4> QED
        BY <1>1, <2>4, <3>2, <4>1, <4>2, <4>3
    <3> QED
      BY <3>1, <3>2
  <2> QED
    BY <2>1, <2>3, <2>5 DEF Progress
<1>5. CASE WatcherFinished(p)
  <2>1. /\ process[p] = "released" /\ process' = [process EXCEPT ![p] = "done"]
        /\ next' = next /\ Failed' = Failed /\ ChildFinished(Owner(p), pc)
    BY <1>5 DEF WatcherFinished, Failed
  <2>2. \A c \in Block : pc'[c] = pc[c] \/ pc[c] = "joinwait"
    BY <1>1, <2>1 DEF ChildFinished
  <2> QED
    BY <1>1, <2>1, <2>2 DEF Progress
<1> QED
  BY <1>2, <1>3, <1>4, <1>5 DEF WatcherStep

LEMMA NextProgress ==
  ASSUME RInv, [Next]_vars
  PROVE  Progress
<1>1. ASSUME NEW b \in Block, BlockStep(b)
      PROVE  Progress
  <2>1. CASE ExecError(b)
    BY <2>1, ThreadDiesProgress DEF ExecError, At
  <2> QED
    BY <1>1, <2>1, ExecProgress, ExecBlockProgress, ReturnProgress, LaunchProgress DEF BlockStep
<1>2. CASE UNCHANGED <<blockVars, process, failed_processes_log>>
  BY <1>2 DEF Progress, blockVars, Failed
<1>3. CASE AlarmThread \/ AlarmHandler \/ Tick \/ UNCHANGED vars
  BY <1>2, <1>3 DEF AlarmThread, AlarmHandler, Tick, vars
<1> QED
  BY <1>1, <1>3, WatcherProgress DEF Next, Step

(* What is fine stays so. *)
LEMMA FineStays ==
  ASSUME Progress, NEW b \in Block, NEW j \in DOMAIN Cmds[b], Fine(b, j)
  PROVE  Fine(b, j)'
BY LaunchedByProcess DEF Fine, Progress

LEMMA NextPassed ==
  ASSUME RInv, RInv', PassedFine, Progress
  PROVE  PassedFine'
<1> SUFFICES ASSUME NEW b \in Block, NEW m \in Nat, Checks(b, m), next'[b] <= Size(b),
                    m < next'[b] \/ (m = next'[b] /\ pc'[b] # "exec"),
                    NEW j \in DOMAIN Cmds[b], j < m
             PROVE  Fine(b, j)'
  BY Zenon DEF PassedFine, Checks
<1> SUFFICES Fine(b, j)
  BY FineStays
<1>0. next \in [Block -> Nat] /\ next' \in [Block -> Nat]
  BY Zenon DEF RInv, CoreNow, Core, Types
<1>1. next[b] \in Nat /\ next'[b] \in Nat /\ Size(b) \in Nat /\ ~Parallel[b] /\ j \in Nat
  BY <1>0, CommandFacts DEF Checks
<1>2. CASE next[b] <= Size(b) /\ (m < next[b] \/ (m = next[b] /\ pc[b] # "exec"))
  BY <1>2 DEF PassedFine
<1>3. CASE m = next[b] /\ pc[b] = "exec" /\ Quiet
  <2>1. CoreNow /\ Quiet
    BY <1>3 DEF RInv
  <2>2. ASSUME NEW p \in LaunchedBy(b, j)
        PROVE  process[p] = "done"
    <3>1. ~Parallel[b] /\ pc[b] = "exec" /\ j < next[b]
      BY <1>1, <1>3
    <3> HIDE <1>3
    <3> QED
      BY <2>1, <3>1, BeforeDone
  <2>3. Failed = {}
    BY <1>3 DEF Failed, Quiet
  <2> QED
    BY <2>2, <2>3 DEF Fine
<1>4. \/ next'[b] = next[b] /\ (pc'[b] = "exec" \/ pc[b] # "exec")
      \/ next'[b] = next[b] + 1 /\ pc'[b] = "exec" /\ pc[b] # "exec"
      \/ next'[b] = next[b] /\ pc[b] = "exec" /\ (Cmds[b][next[b]].line = 1 => Quiet)
      \/ next'[b] > Size(b)
  BY <1>1 DEF Progress
<1>5. Cmds[b][m].line = 1
  BY DEF Checks
<1>6. /\ next[b] <= Size(b)
      /\ m < next[b] \/ (m = next[b] /\ (pc[b] # "exec" \/ (pc[b] = "exec" /\ Quiet)))
  <2>1. next'[b] = next[b] => next[b] <= Size(b)
    OBVIOUS
  <2>2. /\ ~(next'[b] > Size(b))
        /\ next'[b] = next[b] + 1 /\ pc'[b] = "exec" => next[b] <= Size(b) /\ (m < next[b] \/ m = next[b])
    BY <1>1
  <2> QED
    BY <1>4, <1>5, <2>1, <2>2
<1> QED
  BY <1>2, <1>3, <1>6

LEMMA NextStarted ==
  ASSUME RInv, PassedFine, StartedFine, Progress
  PROVE  StartedFine'
<1> SUFFICES ASSUME NEW b \in Block, NEW m \in Nat, NEW k \in DOMAIN Cmds[b], Checks(b, m), m <= k,
                    NEW q \in LaunchedBy(b, k), process'[q] # "idle",
                    NEW j \in DOMAIN Cmds[b], j < m
             PROVE  Fine(b, j)'
  BY DEF StartedFine, Checks
<1> SUFFICES Fine(b, j)
  BY FineStays
<1>1. CASE process[q] # "idle"
  BY <1>1 DEF StartedFine
<1>2. CASE process[q] = "idle"
  <2>1. PICK c \in Block : pc[c] = "launch" /\ Arg(c, next[c]) = q
    BY <1>2, LaunchedByProcess DEF Progress
  <2>x. CoreNow /\ ~Parallel[b] /\ Arg(c, next[c]) \in LaunchedBy(b, k)
    BY <2>1, Zenon DEF RInv, Checks
  <2>2. next[b] = k /\ pc[b] # "exec"
    BY <2>1, <2>x, LaunchIn
  <2>y. k \in 1..Size(b) /\ Size(b) \in Nat
    BY CommandFacts
  <2>3. next[b] <= Size(b) /\ k \in Nat
    BY <2>2, <2>y
  <2>4. m < next[b] \/ m = next[b]
    BY <2>2, <2>3
  <2> QED
    BY <2>2, <2>3, <2>4 DEF PassedFine
<1> QED
  BY <1>1, <1>2

(* exec_cmds0 checks the failure log before every first line of a sequential *)
(* block: once a process launched by a command has failed, no process of a   *)
(* later command is launched, for every script and every number of permits.  *)
THEOREM StopsAtFailure == Spec => []SequentialStop
<1>1. Init => PassedFine /\ StartedFine
  <2> SUFFICES ASSUME Init
               PROVE  PassedFine /\ StartedFine
    OBVIOUS
  <2>1. \A b \in Block : next[b] = 1 /\ pc[b] \in {"idle", "exec"}
    BY DEF Init
  <2>2. \A q \in Process : process[q] = "idle"
    BY DEF Init
  <2>3. StartedFine
    BY <2>2, LaunchedByProcess DEF StartedFine
  <2>4. \A b \in Block, m \in Nat : \A j \in DOMAIN Cmds[b] : Checks(b, m) /\ m <= next[b] => ~(j < m)
    BY <2>1, CommandFacts
  <2> QED
    BY <2>1, <2>3, <2>4 DEF PassedFine
<1>2. RInv /\ PassedFine /\ StartedFine /\ [Next]_vars => PassedFine' /\ StartedFine'
  BY NextRInv, NextProgress, NextPassed, NextStarted
<1>3. StartedFine => SequentialStop
  <2> SUFFICES ASSUME StartedFine, NEW b \in Block, NEW j \in DOMAIN Cmds[b], NEW k \in DOMAIN Cmds[b],
                      ~Parallel[b], NEW m \in (j + 1)..k, Cmds[b][m].line = 1,
                      NEW q \in LaunchedBy(b, k), process[q] # "idle"
               PROVE  LaunchedBy(b, j) \intersect Failed = {}
    BY DEF SequentialStop
  <2>1. j \in Nat /\ k \in Nat /\ m \in DOMAIN Cmds[b] /\ m \in Nat /\ m <= k /\ j < m
    BY CommandFacts
  <2>2. Fine(b, j)
    BY <2>1 DEF StartedFine, Checks
  <2> QED
    BY <2>2 DEF Fine
<1> QED
  BY <1>1, <1>2, <1>3, SpecRInv, PTL DEF Spec
=============================================================================
