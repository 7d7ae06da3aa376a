---------------------------- MODULE MyshLemmas ----------------------------
(***************************************************************************)
(* Facts about the blocks, the threads and the processes of a script, for  *)
(* every script: what the proofs in MyshProofs rest on.                    *)
(***************************************************************************)
EXTENDS Mysh, TLAPS

-----------------------------------------------------------------------------
(* Commands by their place: command k of block b. *)

Runs(b, k) == k \in DOMAIN Cmds[b] /\ Cmds[b][k].op \in {"run", "baddir"}
Calls(b, k) == k \in DOMAIN Cmds[b] /\ Cmds[b][k].op = "block"
Arg(b, k) == Cmds[b][k].arg
Size(b) == Len(Cmds[b])

(* A command launches a process or runs a nested block. *)
LEMMA CommandFacts ==
  ASSUME NEW b \in Block
  PROVE  /\ Size(b) \in Nat
         /\ DOMAIN Cmds[b] = 1..Size(b)
         /\ \A k : Runs(b, k) => k \in Nat /\ 1 <= k /\ k <= Size(b) /\ Arg(b, k) \in Process
         /\ \A k : Calls(b, k) => k \in Nat /\ 1 <= k /\ k <= Size(b) /\ Arg(b, k) \in Block \ Script
<1>1. Cmds[b] \in Seq(Command)
  BY ScriptAssumption
<1>2. Len(Cmds[b]) \in Nat /\ DOMAIN Cmds[b] = 1..Len(Cmds[b])
  BY <1>1
<1>3. \A k \in DOMAIN Cmds[b] : Cmds[b][k] \in Command
  BY <1>1, <1>2
<1>4. ASSUME NEW k \in DOMAIN Cmds[b]
      PROVE  /\ Cmds[b][k].op \in {"run", "baddir"} => Cmds[b][k].arg \in Process
             /\ Cmds[b][k].op = "block" => Cmds[b][k].arg \in Block
  BY <1>3 DEF Command
<1>5. ASSUME NEW k, Runs(b, k)
      PROVE  k \in Nat /\ 1 <= k /\ k <= Size(b) /\ Arg(b, k) \in Process
  BY <1>2, <1>4, <1>5 DEF Runs, Arg, Size
<1>6. ASSUME NEW k, Calls(b, k)
      PROVE  k \in Nat /\ 1 <= k /\ k <= Size(b) /\ Arg(b, k) \in Block \ Script
  BY <1>2, <1>4, <1>6, TreeAssumption DEF Calls, Arg, Has, Size
<1> QED
  BY <1>2, <1>5, <1>6 DEF Size

(* A process is launched by one command, and a nested block run by one. *)
LEMMA RunsOnce ==
  ASSUME NEW b \in Block, NEW j, Runs(b, j)
  PROVE  /\ Owner(Arg(b, j)) = b
         /\ \A c \in Block : \A k : Runs(c, k) /\ Arg(c, k) = Arg(b, j) => c = b /\ k = j
<1>1. ASSUME NEW c \in Block, NEW k, Runs(c, k), Arg(c, k) = Arg(b, j)
      PROVE  c = b /\ k = j
  BY <1>1, TreeAssumption DEF Runs, Arg
<1>2. Has(b, {"run", "baddir"}, Arg(b, j))
  BY DEF Has, Runs, Arg
<1>3. \A c \in Block : Has(c, {"run", "baddir"}, Arg(b, j)) => c = b
  BY <1>1 DEF Has, Runs, Arg
<1>4. Owner(Arg(b, j)) = b
  BY <1>2, <1>3 DEF Owner
<1> QED
  BY <1>1, <1>4

LEMMA CallsOnce ==
  ASSUME NEW b \in Block, NEW j, Calls(b, j)
  PROVE  /\ Parent(Arg(b, j)) = b
         /\ \A c \in Block : \A k : Calls(c, k) /\ Arg(c, k) = Arg(b, j) => c = b /\ k = j
<1>1. ASSUME NEW c \in Block, NEW k, Calls(c, k), Arg(c, k) = Arg(b, j)
      PROVE  c = b /\ k = j
  BY <1>1, TreeAssumption DEF Calls, Arg
<1>2. Has(b, {"block"}, Arg(b, j))
  BY DEF Has, Calls, Arg
<1>3. \A c \in Block : Has(c, {"block"}, Arg(b, j)) => c = b
  BY <1>1 DEF Has, Calls, Arg
<1>4. Parent(Arg(b, j)) = b
  BY <1>2, <1>3 DEF Parent
<1> QED
  BY <1>1, <1>4

(* CallStack[b] is in every set that has b and, with a block that runs in  *)
(* its parent's thread, the parent.                                        *)
LEMMA StackIn ==
  ASSUME NEW b \in Block, NEW S \in SUBSET Block, b \in S,
         \A c \in S \ Script : OwnThread(c) \/ Parent(c) \in S
  PROVE  CallStack[b] \subseteq S
BY DEF CallStack

(* Within[b] is in every set that has b and, with a block, the blocks      *)
(* nested in it.                                                           *)
LEMMA WithinIn ==
  ASSUME NEW b \in Block, NEW S \in SUBSET Block, b \in S,
         \A c \in S : \A k : Calls(c, k) => Arg(c, k) \in S
  PROVE  Within[b] \subseteq S
<1>1. \A c \in S, d \in Block : Has(c, {"block"}, d) => d \in S
  BY DEF Has, Calls, Arg
<1> QED
  BY <1>1 DEF Within

(* A set that has the scripts and what is nested in its blocks has all. *)
LEMMA EveryBlock ==
  ASSUME NEW S \in SUBSET Block, Script \subseteq S,
         \A c \in S : \A k : Calls(c, k) => Arg(c, k) \in S
  PROVE  S = Block
<1>1. \A s \in Script : Within[s] \subseteq S
  BY WithinIn
<1> QED
  BY <1>1, TreeAssumption

(* Every block but the scripts is run by a command. *)
LEMMA CalledBy ==
  ASSUME NEW c \in Block, c \notin Script
  PROVE  \E b \in Block, k \in Nat : Calls(b, k) /\ Arg(b, k) = c
<1>1. SUFFICES ASSUME \A b \in Block, k \in Nat : ~(Calls(b, k) /\ Arg(b, k) = c)
               PROVE  FALSE
  OBVIOUS
<1> DEFINE S == Block \ {c}
<1>2. Script \subseteq S
  BY ScriptAssumption
<1>3. \A b \in S : \A k : Calls(b, k) => Arg(b, k) \in S
  BY <1>1, CommandFacts
<1> QED
  BY <1>2, <1>3, EveryBlock, Zenon

-----------------------------------------------------------------------------
(* The inductive invariant: of where the blocks are (P), at which command  *)
(* (N), how far the processes are (R), and whether none has failed (Q).    *)

Labels == {"idle", "exec", "acquire", "semwait", "launch", "alarm", "setalarm", "spawn",
           "watch", "called", "join", "joinwait", "done", "returned", "dead"}
Asking == {"acquire", "semwait", "launch"}
Starting == {"alarm", "setalarm", "spawn"}
Watched == {"running", "exited", "reported", "released"}

Types(P, N, R) ==
  /\ P \in [Block -> Labels]
  /\ N \in [Block -> Nat]
  /\ \A b \in Block : 1 <= N[b] /\ N[b] <= Size(b) + 1
  /\ R \in [Process -> {"idle", "opened", "done"} \union Watched]

(* One script is run. *)
OneScript(P) == \E s \in Script : P[s] # "idle" /\ \A t \in Script : t # s => P[t] = "idle"

(* Where a block is fits the command it is at. *)
AtCommand(P, N, R) ==
  \A b \in Block :
    /\ P[b] = "idle" => N[b] = 1
    /\ P[b] \in Asking => Runs(b, N[b]) /\ R[Arg(b, N[b])] = "idle"
    /\ P[b] \in Starting => Runs(b, N[b]) /\ R[Arg(b, N[b])] = "opened"
    /\ P[b] = "called" => Calls(b, N[b])
    /\ P[b] \in {"join", "joinwait"} => ~Runs(b, N[b]) /\ ~Calls(b, N[b])
    /\ P[b] \in {"done", "returned"} => N[b] > Size(b)

(* How far a process is (r) fits where its block is. *)
ProcessFits(b, k, P, N, r) ==
  /\ r # "idle" => P[b] # "idle" /\ k <= N[b]
  /\ r # "idle" /\ k = N[b] => P[b] \in Starting \union {"watch"}
  /\ r = "opened" => k = N[b] /\ P[b] \in Starting
  /\ ~Parallel[b] => r # "released"
  /\ ~Parallel[b] /\ r \in Watched => k = N[b] /\ P[b] = "watch"
OfProcess(P, N, R) ==
  /\ \A p \in Process : R[p] # "idle" => \E b \in Block, k \in Nat : Runs(b, k) /\ Arg(b, k) = p
  /\ \A b \in Block, k \in Nat : Runs(b, k) => ProcessFits(b, k, P, N, R[Arg(b, k)])

(* How far a nested block is (l) fits where its parent is. *)
BlockFits(b, k, P, N, l) ==
  /\ l # "idle" => P[b] # "idle" /\ k <= N[b]
  /\ l # "idle" /\ k = N[b] => ~Parallel[b] /\ P[b] \in {"called", "dead"}
  /\ ~Parallel[b] /\ l \notin {"idle", "returned"} => k = N[b]
OfBlock(P, N) ==
  \A b \in Block, k \in Nat : Calls(b, k) => BlockFits(b, k, P, N, P[Arg(b, k)])

(* What block b has started is over. *)
Over(b, P, R) ==
  /\ \A k \in Nat : Runs(b, k) => R[Arg(b, k)] \in {"idle", "done"}
  /\ \A k \in Nat : Calls(b, k) => P[Arg(b, k)] \in {"idle", "returned"}
Joined(P, R) == \A b \in Block : P[b] \in {"done", "returned"} => Over(b, P, R)

(* As long as no process has failed, no command is skipped. *)
NoneSkipped(P, N, R, Q) ==
  Q => \A b \in Block, k \in Nat : k < N[b] =>
         /\ Runs(b, k) => R[Arg(b, k)] # "idle"
         /\ Calls(b, k) => P[Arg(b, k)] # "idle"

Core(P, N, R, Q) ==
  /\ Types(P, N, R) /\ OneScript(P) /\ AtCommand(P, N, R) /\ OfProcess(P, N, R)
  /\ OfBlock(P, N) /\ Joined(P, R) /\ NoneSkipped(P, N, R, Q)

-----------------------------------------------------------------------------
(* The steps of the blocks keep it. *)

(* A block goes on within a command, or waits. *)
LEMMA Move ==
  ASSUME NEW P, NEW N, NEW R, NEW Q, Core(P, N, R, Q), NEW b \in Block, NEW l \in Labels,
         \/ P[b] \in Asking \union {"exec"} /\ l \in Asking
            /\ Runs(b, N[b]) /\ R[Arg(b, N[b])] = "idle"
         \/ P[b] \in Starting /\ l \in Starting
         \/ P[b] \in {"exec", "join", "joinwait"} /\ l \in {"join", "joinwait"}
            /\ ~Runs(b, N[b]) /\ ~Calls(b, N[b])
  PROVE  Core([P EXCEPT ![b] = l], N, R, Q)
<1> DEFINE PP == [P EXCEPT ![b] = l]
<1>0. /\ PP \in [Block -> Labels] /\ PP[b] = l /\ \A c \in Block : c # b => PP[c] = P[c]
      /\ P \in [Block -> Labels] /\ Script \subseteq Block
  BY ScriptAssumption DEF Core, Types
<1>1. P[b] \notin {"idle", "returned", "called", "dead", "watch", "done"}
      /\ l \notin {"idle", "returned", "called", "dead", "watch", "done"}
  BY DEF Asking, Starting
<1>2. \A c \in Block : /\ PP[c] = "idle" <=> P[c] = "idle"
                       /\ PP[c] \in {"idle", "returned"} <=> P[c] \in {"idle", "returned"}
                       /\ PP[c] \in {"done", "returned"} <=> P[c] \in {"done", "returned"}
                       /\ PP[c] \in {"called", "dead"} <=> P[c] \in {"called", "dead"}
                       /\ PP[c] \in Starting <=> P[c] \in Starting
                       /\ PP[c] = "watch" <=> P[c] = "watch"
  BY <1>0, <1>1 DEF Asking, Starting
<1> HIDE DEF PP
<1>3. Types(PP, N, R)
  BY <1>0 DEF Core, Types
<1>4. OneScript(PP)
  BY <1>0, <1>2 DEF Core, OneScript
<1>5. AtCommand(PP, N, R)
  BY <1>0, <1>2 DEF Core, AtCommand, Asking, Starting
<1>6. OfProcess(PP, N, R)
  BY <1>2 DEF Core, OfProcess, ProcessFits
<1>7. OfBlock(PP, N)
  BY <1>2, CommandFacts DEF Core, OfBlock, BlockFits
<1>8. Joined(PP, R)
  BY <1>2, CommandFacts DEF Core, Joined, Over
<1>9. NoneSkipped(PP, N, R, Q)
  BY <1>2, CommandFacts DEF Core, NoneSkipped
<1> QED
  BY <1>3, <1>4, <1>5, <1>6, <1>7, <1>8, <1>9 DEF Core, PP

(* exec_cmds0 is over: no command is left, or a process has failed. *)
LEMMA Stop ==
  ASSUME NEW P, NEW N, NEW R, NEW Q, Core(P, N, R, Q), NEW b \in Block,
         P[b] = "exec", Q => N[b] > Size(b)
  PROVE  Core([P EXCEPT ![b] = "join"], [N EXCEPT ![b] = Size(b) + 1], R, Q)
<1> DEFINE PP == [P EXCEPT ![b] = "join"]
<1> DEFINE NN == [N EXCEPT ![b] = Size(b) + 1]
<1>0. /\ PP \in [Block -> Labels] /\ PP[b] = "join" /\ \A c \in Block : c # b => PP[c] = P[c]
      /\ NN \in [Block -> Nat] /\ NN[b] = Size(b) + 1 /\ \A c \in Block : c # b => NN[c] = N[c]
      /\ P \in [Block -> Labels] /\ N \in [Block -> Nat] /\ Script \subseteq Block
      /\ Size(b) \in Nat /\ N[b] <= Size(b) + 1
  BY ScriptAssumption, CommandFacts DEF Core, Types, Labels
<1>2. 1 <= NN[b] /\ NN[b] <= Size(b) + 1
  BY <1>0
<1>1. \A k : (Runs(b, k) \/ Calls(b, k)) => k \in Nat /\ k < NN[b]
  BY <1>0, CommandFacts
<1> HIDE DEF PP, NN
<1>3. Types(PP, NN, R)
  BY <1>0, <1>2 DEF Core, Types
<1>4. OneScript(PP)
  BY <1>0 DEF Core, OneScript
<1>5. AtCommand(PP, NN, R)
  BY <1>0, <1>1 DEF Core, AtCommand, Asking, Starting
<1>6. OfProcess(PP, NN, R)
  BY <1>0, <1>1 DEF Core, OfProcess, ProcessFits, Starting
<1>7. OfBlock(PP, NN)
  <2> SUFFICES ASSUME NEW c \in Block, NEW k \in Nat, Calls(c, k)
               PROVE  BlockFits(c, k, PP, NN, PP[Arg(c, k)])
    BY DEF OfBlock
  <2>1. Arg(c, k) \in Block /\ BlockFits(c, k, P, N, P[Arg(c, k)])
    BY CommandFacts DEF Core, OfBlock
  <2> QED
    BY <2>1, <1>0, <1>1 DEF BlockFits
<1>8. Joined(PP, R)
  <2> SUFFICES ASSUME NEW c \in Block, PP[c] \in {"done", "returned"}
               PROVE  Over(c, PP, R)
    BY DEF Joined
  <2>1. /\ \A k : Runs(c, k) => Arg(c, k) \in Process
        /\ \A k : Calls(c, k) => Arg(c, k) \in Block
        /\ P[c] \in {"done", "returned"} => Over(c, P, R)
    BY CommandFacts DEF Core, Joined
  <2> QED
    BY <2>1, <1>0 DEF Over
<1>9. NoneSkipped(PP, NN, R, Q)
  <2> SUFFICES ASSUME Q, NEW c \in Block, NEW k \in Nat, k < NN[c]
               PROVE  /\ Runs(c, k) => R[Arg(c, k)] # "idle"
                      /\ Calls(c, k) => PP[Arg(c, k)] # "idle"
    BY DEF NoneSkipped
  <2>1. /\ Runs(c, k) => Arg(c, k) \in Process
        /\ Calls(c, k) => Arg(c, k) \in Block
        /\ k < N[c] => /\ Runs(c, k) => R[Arg(c, k)] # "idle"
                       /\ Calls(c, k) => P[Arg(c, k)] # "idle"
    BY CommandFacts DEF Core, NoneSkipped
  <2> QED
    BY <2>1, <1>0, <1>1
<1> QED
  BY <1>3, <1>4, <1>5, <1>6, <1>7, <1>8, <1>9 DEF Core, PP, NN

(* A command that starts nothing is done. *)
LEMMA Skip ==
  ASSUME NEW P, NEW N, NEW R, NEW Q, Core(P, N, R, Q), NEW b \in Block,
         P[b] = "join", N[b] <= Size(b)
  PROVE  Core([P EXCEPT ![b] = "exec"], [N EXCEPT ![b] = @ + 1], R, Q)
<1> DEFINE PP == [P EXCEPT ![b] = "exec"]
<1> DEFINE NN == [N EXCEPT ![b] = @ + 1]
<1>0. /\ PP \in [Block -> Labels] /\ PP[b] = "exec" /\ \A c \in Block : c # b => PP[c] = P[c]
      /\ NN \in [Block -> Nat] /\ NN[b] = N[b] + 1 /\ \A c \in Block : c # b => NN[c] = N[c]
      /\ P \in [Block -> Labels] /\ N \in [Block -> Nat] /\ Script \subseteq Block
      /\ Size(b) \in Nat
  BY ScriptAssumption, CommandFacts DEF Core, Types, Labels
<1>r. 1 <= NN[b] /\ NN[b] <= Size(b) + 1
  BY <1>0 DEF Core, Types
<1>1. ~Runs(b, N[b]) /\ ~Calls(b, N[b])
  BY DEF Core, AtCommand
<1>2. \A k \in Nat : (Runs(b, k) \/ Calls(b, k)) =>
        /\ k # N[b]
        /\ k <= N[b] => k < NN[b] /\ k # NN[b]
        /\ k < NN[b] => k < N[b]
  BY <1>0, <1>1
<1> HIDE DEF PP, NN
<1>3. Types(PP, NN, R)
  BY <1>0, <1>r DEF Core, Types
<1>4. OneScript(PP)
  BY <1>0 DEF Core, OneScript
<1>5. AtCommand(PP, NN, R)
  BY <1>0 DEF Core, AtCommand, Asking, Starting
<1>6. OfProcess(PP, NN, R)
  BY <1>0, <1>2 DEF Core, OfProcess, ProcessFits, Starting
<1>7. OfBlock(PP, NN)
  <2> SUFFICES ASSUME NEW c \in Block, NEW k \in Nat, Calls(c, k)
               PROVE  BlockFits(c, k, PP, NN, PP[Arg(c, k)])
    BY DEF OfBlock
  <2>1. Arg(c, k) \in Block /\ BlockFits(c, k, P, N, P[Arg(c, k)])
    BY CommandFacts DEF Core, OfBlock
  <2> QED
    BY <2>1, <1>0, <1>2 DEF BlockFits
<1>8. Joined(PP, R)
  <2> SUFFICES ASSUME NEW c \in Block, PP[c] \in {"done", "returned"}
               PROVE  Over(c, PP, R)
    BY DEF Joined
  <2>1. /\ \A k : Runs(c, k) => Arg(c, k) \in Process
        /\ \A k : Calls(c, k) => Arg(c, k) \in Block
        /\ P[c] \in {"done", "returned"} => Over(c, P, R)
    BY CommandFacts DEF Core, Joined
  <2> QED
    BY <2>1, <1>0 DEF Over
<1>9. NoneSkipped(PP, NN, R, Q)
  <2> SUFFICES ASSUME Q, NEW c \in Block, NEW k \in Nat, k < NN[c]
               PROVE  /\ Runs(c, k) => R[Arg(c, k)] # "idle"
                      /\ Calls(c, k) => PP[Arg(c, k)] # "idle"
    BY DEF NoneSkipped
  <2>1. /\ Runs(c, k) => Arg(c, k) \in Process
        /\ Calls(c, k) => Arg(c, k) \in Block
        /\ k < N[c] => /\ Runs(c, k) => R[Arg(c, k)] # "idle"
                       /\ Calls(c, k) => P[Arg(c, k)] # "idle"
    BY CommandFacts DEF Core, NoneSkipped
  <2>2. Runs(c, k) \/ Calls(c, k) => k < N[c]
    BY <1>0, <1>2
  <2> QED
    BY <2>1, <2>2, <1>0
<1> QED
  BY <1>3, <1>4, <1>5, <1>6, <1>7, <1>8, <1>9 DEF Core, PP, NN

(* join_children at the end returns: what the block started is over. *)
LEMMA Finish ==
  ASSUME NEW P, NEW N, NEW R, NEW Q, Core(P, N, R, Q), NEW b \in Block,
         P[b] = "join", N[b] > Size(b), Over(b, P, R)
  PROVE  Core([P EXCEPT ![b] = "done"], N, R, Q)
<1> DEFINE PP == [P EXCEPT ![b] = "done"]
<1>0. /\ PP \in [Block -> Labels] /\ PP[b] = "done" /\ \A c \in Block : c # b => PP[c] = P[c]
      /\ P \in [Block -> Labels] /\ N \in [Block -> Nat] /\ Script \subseteq Block
  BY ScriptAssumption, CommandFacts DEF Core, Types, Labels
<1> HIDE DEF PP
<1>3. Types(PP, N, R)
  BY <1>0 DEF Core, Types
<1>4. OneScript(PP)
  BY <1>0 DEF Core, OneScript
<1>5. AtCommand(PP, N, R)
  BY <1>0 DEF Core, AtCommand, Asking, Starting
<1>6. OfProcess(PP, N, R)
  BY <1>0 DEF Core, OfProcess, ProcessFits, Starting
<1>7. OfBlock(PP, N)
  <2> SUFFICES ASSUME NEW c \in Block, NEW k \in Nat, Calls(c, k)
               PROVE  BlockFits(c, k, PP, N, PP[Arg(c, k)])
    BY DEF OfBlock
  <2>1. Arg(c, k) \in Block /\ BlockFits(c, k, P, N, P[Arg(c, k)])
    BY CommandFacts DEF Core, OfBlock
  <2> QED
    BY <2>1, <1>0 DEF BlockFits
<1>8. Joined(PP, R)
  <2> SUFFICES ASSUME NEW c \in Block, PP[c] \in {"done", "returned"}
               PROVE  Over(c, PP, R)
    BY DEF Joined
  <2>1. /\ \A k : Runs(c, k) => Arg(c, k) \in Process
        /\ \A k : Calls(c, k) => Arg(c, k) \in Block
        /\ P[c] \in {"done", "returned"} => Over(c, P, R)
    BY CommandFacts DEF Core, Joined
  <2> QED
    BY <2>1, <1>0 DEF Over
<1>9. NoneSkipped(PP, N, R, Q)
  <2> SUFFICES ASSUME Q, NEW c \in Block, NEW k \in Nat, k < N[c]
               PROVE  /\ Runs(c, k) => R[Arg(c, k)] # "idle"
                      /\ Calls(c, k) => PP[Arg(c, k)] # "idle"
    BY DEF NoneSkipped
  <2>1. /\ Runs(c, k) => Arg(c, k) \in Process
        /\ Calls(c, k) => Arg(c, k) \in Block
        /\ k < N[c] => /\ Runs(c, k) => R[Arg(c, k)] # "idle"
                       /\ Calls(c, k) => P[Arg(c, k)] # "idle"
    BY CommandFacts DEF Core, NoneSkipped
  <2> QED
    BY <2>1, <1>0
<1> QED
  BY <1>3, <1>4, <1>5, <1>6, <1>7, <1>8, <1>9 DEF Core, PP

(* A script, or the thread of a block, is over. *)
LEMMA Ends ==
  ASSUME NEW P, NEW N, NEW R, NEW Q, Core(P, N, R, Q), NEW b \in Block,
         P[b] = "done", b \in Script \/ OwnThread(b)
  PROVE  Core([P EXCEPT ![b] = "returned"], N, R, Q)
<1> DEFINE PP == [P EXCEPT ![b] = "returned"]
<1>0. /\ PP \in [Block -> Labels] /\ PP[b] = "returned" /\ \A c \in Block : c # b => PP[c] = P[c]
      /\ P \in [Block -> Labels] /\ N \in [Block -> Nat] /\ Script \subseteq Block
  BY ScriptAssumption, CommandFacts DEF Core, Types, Labels
<1>1. \A c \in Block : \A k : Calls(c, k) /\ Arg(c, k) = b => Parallel[c]
  BY CallsOnce, CommandFacts DEF OwnThread
<1> HIDE DEF PP
<1>3. Types(PP, N, R)
  BY <1>0 DEF Core, Types
<1>4. OneScript(PP)
  BY <1>0 DEF Core, OneScript
<1>5. AtCommand(PP, N, R)
  BY <1>0 DEF Core, AtCommand, Asking, Starting
<1>6. OfProcess(PP, N, R)
  BY <1>0 DEF Core, OfProcess, ProcessFits, Starting
<1>7. OfBlock(PP, N)
  <2> SUFFICES ASSUME NEW c \in Block, NEW k \in Nat, Calls(c, k)
               PROVE  BlockFits(c, k, PP, N, PP[Arg(c, k)])
    BY DEF OfBlock
  <2>1. Arg(c, k) \in Block /\ BlockFits(c, k, P, N, P[Arg(c, k)])
    BY CommandFacts DEF Core, OfBlock
  <2> QED
    BY <2>1, <1>0, <1>1 DEF BlockFits
<1>8. Joined(PP, R)
  <2> SUFFICES ASSUME NEW c \in Block, PP[c] \in {"done", "returned"}
               PROVE  Over(c, PP, R)
    BY DEF Joined
  <2>1. /\ \A k : Runs(c, k) => Arg(c, k) \in Process
        /\ \A k : Calls(c, k) => Arg(c, k) \in Block
        /\ P[c] \in {"done", "returned"} => Over(c, P, R)
    BY CommandFacts DEF Core, Joined
  <2> QED
    BY <2>1, <1>0 DEF Over
<1>9. NoneSkipped(PP, N, R, Q)
  <2> SUFFICES ASSUME Q, NEW c \in Block, NEW k \in Nat, k < N[c]
               PROVE  /\ Runs(c, k) => R[Arg(c, k)] # "idle"
                      /\ Calls(c, k) => PP[Arg(c, k)] # "idle"
    BY DEF NoneSkipped
  <2>1. /\ Runs(c, k) => Arg(c, k) \in Process
        /\ Calls(c, k) => Arg(c, k) \in Block
        /\ k < N[c] => /\ Runs(c, k) => R[Arg(c, k)] # "idle"
                       /\ Calls(c, k) => P[Arg(c, k)] # "idle"
    BY CommandFacts DEF Core, NoneSkipped
  <2> QED
    BY <2>1, <1>0
<1> QED
  BY <1>3, <1>4, <1>5, <1>6, <1>7, <1>8, <1>9 DEF Core, PP

(* A block returns to the block that called it in the same thread. *)
LEMMA ReturnsTo ==
  ASSUME NEW P, NEW N, NEW R, NEW Q, Core(P, N, R, Q), NEW b \in Block,
         P[b] = "done", NEW a \in Block, NEW n, Calls(a, n), Arg(a, n) = b, ~Parallel[a]
  PROVE  /\ N[a] = n /\ P[a] \in {"called", "dead"}
         /\ Core([P EXCEPT ![b] = "returned", ![a] = "exec"], [N EXCEPT ![a] = @ + 1], R, Q)
<1> DEFINE PP == [P EXCEPT ![b] = "returned", ![a] = "exec"]
<1> DEFINE NN == [N EXCEPT ![a] = @ + 1]
<1>0. /\ N[a] = n /\ P[a] \in {"called", "dead"} /\ a # b
  BY CommandFacts DEF Core, OfBlock, BlockFits
<1>r. n \in Nat /\ 1 <= n /\ n <= Size(a) /\ Size(a) \in Nat
  BY CommandFacts
<1>s. 1 <= NN[a] /\ NN[a] <= Size(a) + 1
  BY <1>0, <1>r DEF Core, Types
<1>t. P \in [Block -> Labels] /\ N \in [Block -> Nat] /\ Script \subseteq Block
  BY ScriptAssumption DEF Core, Types
<1>1. /\ PP \in [Block -> Labels] /\ PP[b] = "returned" /\ PP[a] = "exec"
      /\ \A c \in Block : c # b /\ c # a => PP[c] = P[c]
      /\ NN \in [Block -> Nat] /\ NN[a] = n + 1 /\ \A c \in Block : c # a => NN[c] = N[c]
  BY <1>0, <1>r, <1>t DEF Labels
<1>2. /\ \A k \in Nat : k <= n <=> k < n + 1
      /\ \A k \in Nat : k = n \/ k < n + 1 => k # n + 1 /\ k <= n + 1
  BY <1>r
<1>a. \A c \in Block : \A k : Calls(c, k) /\ Arg(c, k) = b => c = a /\ k = n
  BY CallsOnce
<1>b. \A k : k = n => Arg(a, k) = b /\ ~Runs(a, k)
  BY DEF Runs, Calls
<1> HIDE DEF PP, NN
<1>3. Types(PP, NN, R)
  BY <1>t, <1>1, <1>s DEF Core, Types
<1>4. OneScript(PP)
  BY <1>0, <1>t, <1>1 DEF Core, OneScript
<1>5. AtCommand(PP, NN, R)
  BY <1>0, <1>t, <1>1 DEF Core, AtCommand, Asking, Starting
<1>6. OfProcess(PP, NN, R)
  BY <1>0, <1>t, <1>1, <1>2 DEF Core, OfProcess, ProcessFits, Starting
<1>7. OfBlock(PP, NN)
  <2> SUFFICES ASSUME NEW c \in Block, NEW k \in Nat, Calls(c, k)
               PROVE  BlockFits(c, k, PP, NN, PP[Arg(c, k)])
    BY DEF OfBlock
  <2>1. Arg(c, k) \in Block /\ BlockFits(c, k, P, N, P[Arg(c, k)])
    BY CommandFacts DEF Core, OfBlock
  <2> QED
    BY <2>1, <1>0, <1>t, <1>1, <1>2, <1>a, <1>b DEF BlockFits
<1>8. Joined(PP, R)
  <2> SUFFICES ASSUME NEW c \in Block, PP[c] \in {"done", "returned"}
               PROVE  Over(c, PP, R)
    BY DEF Joined
  <2>1. /\ \A k : Runs(c, k) => Arg(c, k) \in Process
        /\ \A k : Calls(c, k) => Arg(c, k) \in Block
        /\ P[c] \in {"done", "returned"} => Over(c, P, R)
    BY CommandFacts DEF Core, Joined
  <2> QED
    BY <2>1, <1>0, <1>t, <1>1, <1>a DEF Over
<1>9. NoneSkipped(PP, NN, R, Q)
  <2> SUFFICES ASSUME Q, NEW c \in Block, NEW k \in Nat, k < NN[c]
               PROVE  /\ Runs(c, k) => R[Arg(c, k)] # "idle"
                      /\ Calls(c, k) => PP[Arg(c, k)] # "idle"
    BY DEF NoneSkipped
  <2>1. /\ Runs(c, k) => Arg(c, k) \in Process
        /\ Calls(c, k) => Arg(c, k) \in Block
        /\ k < N[c] => /\ Runs(c, k) => R[Arg(c, k)] # "idle"
                       /\ Calls(c, k) => P[Arg(c, k)] # "idle"
    BY CommandFacts DEF Core, NoneSkipped
  <2> QED
    BY <2>1, <1>0, <1>t, <1>1, <1>2, <1>b
<1> QED
  BY <1>0, <1>3, <1>4, <1>5, <1>6, <1>7, <1>8, <1>9 DEF Core, PP, NN

(* run_child_cmds, in the same thread. *)
LEMMA CallsHere ==
  ASSUME NEW P, NEW N, NEW R, NEW Q, Core(P, N, R, Q), NEW b \in Block,
         P[b] = "exec", Calls(b, N[b]), ~Parallel[b]
  PROVE  /\ P[Arg(b, N[b])] = "idle"
         /\ Core([P EXCEPT ![b] = "called", ![Arg(b, N[b])] = "exec"], N, R, Q)
<1> DEFINE a == Arg(b, N[b])
<1> DEFINE PP == [P EXCEPT ![b] = "called", ![a] = "exec"]
<1>0. a \in Block \ Script /\ P[a] = "idle" /\ a # b
  BY CommandFacts DEF Core, OfBlock, BlockFits
<1>t. P \in [Block -> Labels] /\ N \in [Block -> Nat] /\ Script \subseteq Block
      /\ R \in [Process -> {"idle", "opened", "done"} \union Watched]
  BY ScriptAssumption DEF Core, Types
<1>1. /\ PP \in [Block -> Labels] /\ PP[b] = "called" /\ PP[a] = "exec"
      /\ \A c \in Block : c # b /\ c # a => PP[c] = P[c]
  BY <1>0, <1>t DEF Labels
<1>a. \A c \in Block : \A k : Calls(c, k) /\ Arg(c, k) = a => c = b /\ k = N[b]
  BY CallsOnce
<1>b. N[a] = 1 /\ \A k : Calls(a, k) => P[Arg(a, k)] = "idle"
  BY <1>0, CommandFacts DEF Core, AtCommand, OfBlock, BlockFits
<1> HIDE DEF a, PP
<1>3. Types(PP, N, R)
  BY <1>t, <1>1 DEF Core, Types
<1>4. OneScript(PP)
  BY <1>0, <1>t, <1>1 DEF Core, OneScript
<1>5. AtCommand(PP, N, R)
  BY <1>0, <1>1 DEF Core, AtCommand, Asking, Starting
<1>6. OfProcess(PP, N, R)
  <2>1. \A p \in Process : R[p] # "idle" => \E c \in Block, k \in Nat : Runs(c, k) /\ Arg(c, k) = p
    BY <1>0, <1>1 DEF Core, OfProcess
  <2>2. ASSUME NEW c \in Block, NEW k \in Nat, Runs(c, k)
        PROVE  ProcessFits(c, k, PP, N, R[Arg(c, k)])
    <3>1. Arg(c, k) \in Process /\ ProcessFits(c, k, P, N, R[Arg(c, k)])
      BY <2>2, CommandFacts DEF Core, OfProcess
    <3> QED
      BY <2>2, <3>1, <1>0, <1>1 DEF ProcessFits, Starting, Watched
  <2> QED
    BY <2>1, <2>2 DEF OfProcess
<1>7. OfBlock(PP, N)
  <2> SUFFICES ASSUME NEW c \in Block, NEW k \in Nat, Calls(c, k)
               PROVE  BlockFits(c, k, PP, N, PP[Arg(c, k)])
    BY DEF OfBlock
  <2>1. Arg(c, k) \in Block /\ BlockFits(c, k, P, N, P[Arg(c, k)])
    BY CommandFacts DEF Core, OfBlock
  <2> QED
    BY <2>1, <1>0, <1>1, <1>a, <1>b DEF BlockFits
<1>8. Joined(PP, R)
  <2> SUFFICES ASSUME NEW c \in Block, PP[c] \in {"done", "returned"}
               PROVE  Over(c, PP, R)
    BY DEF Joined
  <2>1. /\ \A k : Runs(c, k) => Arg(c, k) \in Process
        /\ \A k : Calls(c, k) => Arg(c, k) \in Block
        /\ P[c] \in {"done", "returned"} => Over(c, P, R)
    BY CommandFacts DEF Core, Joined
  <2> QED
    BY <2>1, <1>0, <1>t, <1>1, <1>a DEF Over
<1>9. NoneSkipped(PP, N, R, Q)
  <2> SUFFICES ASSUME Q, NEW c \in Block, NEW k \in Nat, k < N[c]
               PROVE  /\ Runs(c, k) => R[Arg(c, k)] # "idle"
                      /\ Calls(c, k) => PP[Arg(c, k)] # "idle"
    BY DEF NoneSkipped
  <2>1. /\ Runs(c, k) => Arg(c, k) \in Process
        /\ Calls(c, k) => Arg(c, k) \in Block
        /\ k < N[c] => /\ Runs(c, k) => R[Arg(c, k)] # "idle"
                       /\ Calls(c, k) => P[Arg(c, k)] # "idle"
    BY CommandFacts DEF Core, NoneSkipped
  <2> QED
    BY <2>1, <1>0, <1>1
<1> QED
  BY <1>0, <1>3, <1>4, <1>5, <1>6, <1>7, <1>8, <1>9 DEF Core, a, PP

(* run_child_cmds, in a thread of its own. *)
LEMMA CallsThread ==
  ASSUME NEW P, NEW N, NEW R, NEW Q, Core(P, N, R, Q), NEW b \in Block,
         P[b] = "exec", Calls(b, N[b]), Parallel[b]
  PROVE  /\ P[Arg(b, N[b])] = "idle"
         /\ Core([P EXCEPT ![Arg(b, N[b])] = "exec"], [N EXCEPT ![b] = @ + 1], R, Q)
<1> DEFINE n == N[b]
<1> DEFINE a == Arg(b, n)
<1> DEFINE PP == [P EXCEPT ![a] = "exec"]
<1> DEFINE NN == [N EXCEPT ![b] = n + 1]
<1>0. /\ a \in Block \ Script /\ P[a] = "idle" /\ a # b
      /\ n = N[b] /\ n \in Nat /\ 1 <= n /\ n <= Size(b) /\ Size(b) \in Nat
  BY CommandFacts DEF Core, OfBlock, BlockFits
<1>t. P \in [Block -> Labels] /\ N \in [Block -> Nat] /\ Script \subseteq Block
      /\ R \in [Process -> {"idle", "opened", "done"} \union Watched]
  BY ScriptAssumption DEF Core, Types
<1>1. /\ PP \in [Block -> Labels] /\ PP[a] = "exec" /\ \A c \in Block : c # a => PP[c] = P[c]
      /\ NN \in [Block -> Nat] /\ NN[b] = n + 1 /\ \A c \in Block : c # b => NN[c] = N[c]
  BY <1>0, <1>t DEF Labels
<1>s. 1 <= NN[b] /\ NN[b] <= Size(b) + 1
  BY <1>0, <1>1
<1>2. /\ \A k \in Nat : k <= n <=> k < n + 1
      /\ \A k \in Nat : k = n \/ k < n + 1 => k # n + 1 /\ k <= n + 1
  BY <1>0
<1>a. /\ \A c \in Block : \A k : Calls(c, k) /\ Arg(c, k) = a => c = b /\ k = n
      /\ \A k : k = n => Arg(b, k) = a /\ ~Runs(b, k)
  BY CallsOnce DEF Runs, Calls
<1>b. /\ N[a] = 1 /\ \A k : Calls(a, k) => P[Arg(a, k)] = "idle"
      /\ \A k : Runs(a, k) => R[Arg(a, k)] = "idle"
  BY <1>0, CommandFacts DEF Core, AtCommand, OfBlock, BlockFits, OfProcess, ProcessFits
<1> HIDE DEF n, a, PP, NN
<1>3. Types(PP, NN, R)
  BY <1>t, <1>1, <1>s DEF Core, Types
<1>4. OneScript(PP)
  BY <1>0, <1>t, <1>1 DEF Core, OneScript
<1>5. AtCommand(PP, NN, R)
  BY <1>0, <1>1 DEF Core, AtCommand, Asking, Starting
<1>6. OfProcess(PP, NN, R)
  <2>1. \A p \in Process : R[p] # "idle" => \E c \in Block, k \in Nat : Runs(c, k) /\ Arg(c, k) = p
    BY <1>0, <1>1, <1>2, <1>a, <1>b DEF Core, OfProcess
  <2>2. ASSUME NEW c \in Block, NEW k \in Nat, Runs(c, k)
        PROVE  ProcessFits(c, k, PP, NN, R[Arg(c, k)])
    <3>1. Arg(c, k) \in Process /\ ProcessFits(c, k, P, N, R[Arg(c, k)])
      BY <2>2, CommandFacts DEF Core, OfProcess
    <3> QED
      BY <2>2, <3>1, <1>0, <1>1, <1>2, <1>a, <1>b DEF ProcessFits, Starting, Watched
  <2> QED
    BY <2>1, <2>2 DEF OfProcess
<1>7. OfBlock(PP, NN)
  <2> SUFFICES ASSUME NEW c \in Block, NEW k \in Nat, Calls(c, k)
               PROVE  BlockFits(c, k, PP, NN, PP[Arg(c, k)])
    BY DEF OfBlock
  <2>1. Arg(c, k) \in Block /\ BlockFits(c, k, P, N, P[Arg(c, k)])
    BY CommandFacts DEF Core, OfBlock
  <2> QED
    BY <2>1, <1>0, <1>1, <1>2, <1>a, <1>b DEF BlockFits
<1>8. Joined(PP, R)
  <2> SUFFICES ASSUME NEW c \in Block, PP[c] \in {"done", "returned"}
               PROVE  Over(c, PP, R)
    BY DEF Joined
  <2>1. /\ \A k : Runs(c, k) => Arg(c, k) \in Process
        /\ \A k : Calls(c, k) => Arg(c, k) \in Block
        /\ P[c] \in {"done", "returned"} => Over(c, P, R)
    BY CommandFacts DEF Core, Joined
  <2> QED
    BY <2>1, <1>0, <1>t, <1>1, <1>a DEF Over
<1>9. NoneSkipped(PP, NN, R, Q)
  <2> SUFFICES ASSUME Q, NEW c \in Block, NEW k \in Nat, k < NN[c]
               PROVE  /\ Runs(c, k) => R[Arg(c, k)] # "idle"
                      /\ Calls(c, k) => PP[Arg(c, k)] # "idle"
    BY DEF NoneSkipped
  <2>1. /\ Runs(c, k) => Arg(c, k) \in Process
        /\ Calls(c, k) => Arg(c, k) \in Block
        /\ k < N[c] => /\ Runs(c, k) => R[Arg(c, k)] # "idle"
                       /\ Calls(c, k) => P[Arg(c, k)] # "idle"
    BY CommandFacts DEF Core, NoneSkipped
  <2> QED
    BY <2>1, <1>0, <1>1, <1>2, <1>a
<1> QED
  BY <1>0, <1>3, <1>4, <1>5, <1>6, <1>7, <1>8, <1>9 DEF Core, n, a, PP, NN

(* The callers of a block that is being executed have called, or died. *)
LEMMA OnStack ==
  ASSUME NEW P, NEW N, NEW R, NEW Q, Core(P, N, R, Q), NEW b \in Block,
         P[b] \in {"exec", "launch"}
  PROVE  CallStack[b] \subseteq {c \in Block : c = b \/ P[c] \in {"called", "dead"}}
<1> DEFINE S == {c \in Block : c = b \/ P[c] \in {"called", "dead"}}
<1>1. ASSUME NEW c \in S, c \notin Script, ~OwnThread(c)
      PROVE  Parent(c) \in S
  <2>1. PICK a \in Block, k \in Nat : Calls(a, k) /\ Arg(a, k) = c
    BY <1>1, CalledBy
  <2>2. Parent(c) = a /\ ~Parallel[a]
    BY <1>1, <2>1, CallsOnce DEF OwnThread
  <2>3. P[c] \notin {"idle", "returned"}
    BY <1>1
  <2> QED
    BY <2>1, <2>2, <2>3 DEF Core, OfBlock, BlockFits
<1>2. S \in SUBSET Block /\ b \in S /\ \A c \in S \ Script : OwnThread(c) \/ Parent(c) \in S
  BY <1>1
<1> HIDE DEF S
<1>3. CallStack[b] \subseteq S
  BY <1>2, StackIn
<1> QED
  BY <1>3 DEF S

(* An exception ends the thread of block b. *)
LEMMA Dies ==
  ASSUME NEW P, NEW N, NEW R, NEW Q, Core(P, N, R, Q), NEW b \in Block,
         P[b] \in {"exec", "launch"}
  PROVE  Core([c \in Block |-> IF c \in CallStack[b] THEN "dead" ELSE P[c]], N, R, Q)
<1> DEFINE PP == [c \in Block |-> IF c \in CallStack[b] THEN "dead" ELSE P[c]]
<1>0. \A c \in CallStack[b] : c = b \/ P[c] \in {"called", "dead"}
  BY OnStack
<1>t. P \in [Block -> Labels] /\ N \in [Block -> Nat] /\ Script \subseteq Block
      /\ R \in [Process -> {"idle", "opened", "done"} \union Watched]
  BY ScriptAssumption DEF Core, Types
<1>1. /\ PP \in [Block -> Labels]
      /\ \A c \in Block : PP[c] = P[c] \/ (PP[c] = "dead" /\ P[c] \in {"exec", "launch", "called", "dead"})
      /\ \A c \in Block : P[c] \in {"called", "dead"} => PP[c] \in {"called", "dead"}
  BY <1>0, <1>t DEF Labels
<1> HIDE DEF PP
<1>3. Types(PP, N, R)
  BY <1>t, <1>1 DEF Core, Types
<1>4. OneScript(PP)
  BY <1>t, <1>1 DEF Core, OneScript
<1>5. AtCommand(PP, N, R)
  BY <1>1 DEF Core, AtCommand, Asking, Starting
<1>6. OfProcess(PP, N, R)
  <2>1. \A p \in Process : R[p] # "idle" => \E c \in Block, k \in Nat : Runs(c, k) /\ Arg(c, k) = p
    BY <1>t, <1>1 DEF Core, OfProcess
  <2>2. ASSUME NEW c \in Block, NEW k \in Nat, Runs(c, k)
        PROVE  ProcessFits(c, k, PP, N, R[Arg(c, k)])
    <3>1. Arg(c, k) \in Process /\ ProcessFits(c, k, P, N, R[Arg(c, k)])
      BY <2>2, CommandFacts DEF Core, OfProcess
    <3> QED
      BY <2>2, <3>1, <1>t, <1>1 DEF ProcessFits, Starting, Watched
  <2> QED
    BY <2>1, <2>2 DEF OfProcess
<1>7. OfBlock(PP, N)
  <2> SUFFICES ASSUME NEW c \in Block, NEW k \in Nat, Calls(c, k)
               PROVE  BlockFits(c, k, PP, N, PP[Arg(c, k)])
    BY DEF OfBlock
  <2>1. Arg(c, k) \in Block /\ BlockFits(c, k, P, N, P[Arg(c, k)])
    BY CommandFacts DEF Core, OfBlock
  <2> QED
    BY <2>1, <1>1 DEF BlockFits
<1>8. Joined(PP, R)
  <2> SUFFICES ASSUME NEW c \in Block, PP[c] \in {"done", "returned"}
               PROVE  Over(c, PP, R)
    BY DEF Joined
  <2>1. /\ \A k : Runs(c, k) => Arg(c, k) \in Process
        /\ \A k : Calls(c, k) => Arg(c, k) \in Block
        /\ P[c] \in {"done", "returned"} => Over(c, P, R)
    BY CommandFacts DEF Core, Joined
  <2> QED
    BY <2>1, <1>1 DEF Over
<1>9. NoneSkipped(PP, N, R, Q)
  <2> SUFFICES ASSUME Q, NEW c \in Block, NEW k \in Nat, k < N[c]
               PROVE  /\ Runs(c, k) => R[Arg(c, k)] # "idle"
                      /\ Calls(c, k) => PP[Arg(c, k)] # "idle"
    BY DEF NoneSkipped
  <2>1. /\ Runs(c, k) => Arg(c, k) \in Process
        /\ Calls(c, k) => Arg(c, k) \in Block
        /\ k < N[c] => /\ Runs(c, k) => R[Arg(c, k)] # "idle"
                       /\ Calls(c, k) => P[Arg(c, k)] # "idle"
    BY CommandFacts DEF Core, NoneSkipped
  <2> QED
    BY <2>1, <1>1
<1> QED
  BY <1>3, <1>4, <1>5, <1>6, <1>7, <1>8, <1>9 DEF Core, PP

(* The process is opened. *)
LEMMA Opens ==
  ASSUME NEW P, NEW N, NEW R, NEW Q, Core(P, N, R, Q), NEW b \in Block,
         P[b] = "launch"
  PROVE  /\ Runs(b, N[b]) /\ R[Arg(b, N[b])] = "idle"
         /\ Core([P EXCEPT ![b] = "alarm"], N, [R EXCEPT ![Arg(b, N[b])] = "opened"], Q)
<1> DEFINE n == N[b]
<1> DEFINE p == Arg(b, n)
<1> DEFINE PP == [P EXCEPT ![b] = "alarm"]
<1> DEFINE RR == [R EXCEPT ![p] = "opened"]
<1>0. /\ n = N[b] /\ Runs(b, n) /\ n \in Nat /\ 1 <= n /\ n <= Size(b) /\ Size(b) \in Nat
      /\ p \in Process /\ p = Arg(b, n) /\ R[p] = "idle"
  BY CommandFacts DEF Core, AtCommand, Asking
<1>t. P \in [Block -> Labels] /\ N \in [Block -> Nat] /\ Script \subseteq Block
      /\ R \in [Process -> {"idle", "opened", "done"} \union Watched]
  BY ScriptAssumption DEF Core, Types
<1>1. /\ PP \in [Block -> Labels] /\ PP[b] = "alarm" /\ \A c \in Block : c # b => PP[c] = P[c]
      /\ RR[p] = "opened" /\ \A q \in Process : q # p => RR[q] = R[q]
      /\ RR \in [Process -> {"idle", "opened", "done"} \union Watched]
  BY <1>0, <1>t DEF Labels, Watched
<1>a. \A c \in Block : \A k : Runs(c, k) /\ Arg(c, k) = p => c = b /\ k = n
  BY <1>0, RunsOnce
<1> HIDE DEF n, p, PP, RR
<1>3. Types(PP, N, RR)
  BY <1>t, <1>1 DEF Core, Types
<1>4. OneScript(PP)
  BY <1>0, <1>t, <1>1 DEF Core, OneScript
<1>5. AtCommand(PP, N, RR)
  <2>1. ASSUME NEW c \in Block, c # b, Runs(c, N[c])
        PROVE  RR[Arg(c, N[c])] = R[Arg(c, N[c])]
    BY <2>1, <1>a, <1>1, CommandFacts
  <2> QED
    BY <2>1, <1>0, <1>1 DEF Core, AtCommand, Asking, Starting
<1>6. OfProcess(PP, N, RR)
  <2>1. \A q \in Process : RR[q] # "idle" => \E c \in Block, k \in Nat : Runs(c, k) /\ Arg(c, k) = q
    BY <1>0, <1>t, <1>1, <1>a DEF Core, OfProcess
  <2>2. ASSUME NEW c \in Block, NEW k \in Nat, Runs(c, k)
        PROVE  ProcessFits(c, k, PP, N, RR[Arg(c, k)])
    <3>1. Arg(c, k) \in Process /\ ProcessFits(c, k, P, N, R[Arg(c, k)])
      BY <2>2, CommandFacts DEF Core, OfProcess
    <3> QED
      BY <2>2, <3>1, <1>0, <1>t, <1>1, <1>a DEF ProcessFits, Starting, Watched
  <2> QED
    BY <2>1, <2>2 DEF OfProcess
<1>7. OfBlock(PP, N)
  <2> SUFFICES ASSUME NEW c \in Block, NEW k \in Nat, Calls(c, k)
               PROVE  BlockFits(c, k, PP, N, PP[Arg(c, k)])
    BY DEF OfBlock
  <2>1. Arg(c, k) \in Block /\ BlockFits(c, k, P, N, P[Arg(c, k)])
    BY CommandFacts DEF Core, OfBlock
  <2> QED
    BY <2>1, <1>0, <1>1 DEF BlockFits
<1>8. Joined(PP, RR)
  <2> SUFFICES ASSUME NEW c \in Block, PP[c] \in {"done", "returned"}
               PROVE  Over(c, PP, RR)
    BY DEF Joined
  <2>1. /\ \A k : Runs(c, k) => Arg(c, k) \in Process
        /\ \A k : Calls(c, k) => Arg(c, k) \in Block
        /\ P[c] \in {"done", "returned"} => Over(c, P, R)
    BY CommandFacts DEF Core, Joined
  <2> QED
    BY <2>1, <1>0, <1>t, <1>1, <1>a DEF Over
<1>9. NoneSkipped(PP, N, RR, Q)
  <2> SUFFICES ASSUME Q, NEW c \in Block, NEW k \in Nat, k < N[c]
               PROVE  /\ Runs(c, k) => RR[Arg(c, k)] # "idle"
                      /\ Calls(c, k) => PP[Arg(c, k)] # "idle"
    BY DEF NoneSkipped
  <2>1. /\ Runs(c, k) => Arg(c, k) \in Process
        /\ Calls(c, k) => Arg(c, k) \in Block
        /\ k < N[c] => /\ Runs(c, k) => R[Arg(c, k)] # "idle"
                       /\ Calls(c, k) => P[Arg(c, k)] # "idle"
    BY CommandFacts DEF Core, NoneSkipped
  <2> QED
    BY <2>1, <1>0, <1>1
<1> QED
  BY <1>0, <1>3, <1>4, <1>5, <1>6, <1>7, <1>8, <1>9 DEF Core, n, p, PP, RR

(* run_child: the block watches the process itself. *)
LEMMA Watches ==
  ASSUME NEW P, NEW N, NEW R, NEW Q, Core(P, N, R, Q), NEW b \in Block,
         P[b] = "spawn", ~Parallel[b]
  PROVE  /\ Runs(b, N[b]) /\ R[Arg(b, N[b])] = "opened"
         /\ Core([P EXCEPT ![b] = "watch"], N, [R EXCEPT ![Arg(b, N[b])] = "running"], Q)
<1> DEFINE n == N[b]
<1> DEFINE p == Arg(b, n)
<1> DEFINE PP == [P EXCEPT ![b] = "watch"]
<1> DEFINE RR == [R EXCEPT ![p] = "running"]
<1>0. /\ n = N[b] /\ Runs(b, n) /\ n \in Nat /\ 1 <= n /\ n <= Size(b) /\ Size(b) \in Nat
      /\ p \in Process /\ p = Arg(b, n) /\ R[p] = "opened"
  BY CommandFacts DEF Core, AtCommand, Starting
<1>t. P \in [Block -> Labels] /\ N \in [Block -> Nat] /\ Script \subseteq Block
      /\ R \in [Process -> {"idle", "opened", "done"} \union Watched]
  BY ScriptAssumption DEF Core, Types
<1>1. /\ PP \in [Block -> Labels] /\ PP[b] = "watch" /\ \A c \in Block : c # b => PP[c] = P[c]
      /\ RR[p] = "running" /\ \A q \in Process : q # p => RR[q] = R[q]
      /\ RR \in [Process -> {"idle", "opened", "done"} \union Watched]
  BY <1>0, <1>t DEF Labels, Watched
<1>a. \A c \in Block : \A k : Runs(c, k) /\ Arg(c, k) = p => c = b /\ k = n
  BY <1>0, RunsOnce
<1> HIDE DEF n, p, PP, RR
<1>3. Types(PP, N, RR)
  BY <1>t, <1>1 DEF Core, Types
<1>4. OneScript(PP)
  BY <1>0, <1>t, <1>1 DEF Core, OneScript
<1>5. AtCommand(PP, N, RR)
  <2>1. ASSUME NEW c \in Block, c # b, Runs(c, N[c])
        PROVE  RR[Arg(c, N[c])] = R[Arg(c, N[c])]
    BY <2>1, <1>a, <1>1, CommandFacts
  <2> QED
    BY <2>1, <1>0, <1>1, Zenon DEF Core, AtCommand, Asking, Starting
<1>6. OfProcess(PP, N, RR)
  <2>1. \A q \in Process : RR[q] # "idle" => \E c \in Block, k \in Nat : Runs(c, k) /\ Arg(c, k) = q
    BY <1>0, <1>t, <1>1, <1>a DEF Core, OfProcess
  <2>2. ASSUME NEW c \in Block, NEW k \in Nat, Runs(c, k)
        PROVE  ProcessFits(c, k, PP, N, RR[Arg(c, k)])
    <3>1. Arg(c, k) \in Process /\ ProcessFits(c, k, P, N, R[Arg(c, k)])
      BY <2>2, CommandFacts DEF Core, OfProcess
    <3> QED
      BY <2>2, <3>1, <1>0, <1>t, <1>1, <1>a DEF ProcessFits, Starting, Watched
  <2> QED
    BY <2>1, <2>2 DEF OfProcess
<1>7. OfBlock(PP, N)
  <2> SUFFICES ASSUME NEW c \in Block, NEW k \in Nat, Calls(c, k)
               PROVE  BlockFits(c, k, PP, N, PP[Arg(c, k)])
    BY DEF OfBlock
  <2>1. Arg(c, k) \in Block /\ BlockFits(c, k, P, N, P[Arg(c, k)])
    BY CommandFacts DEF Core, OfBlock
  <2> QED
    BY <2>1, <1>0, <1>1 DEF BlockFits
<1>8. Joined(PP, RR)
  <2> SUFFICES ASSUME NEW c \in Block, PP[c] \in {"done", "returned"}
               PROVE  Over(c, PP, RR)
    BY DEF Joined
  <2>1. /\ \A k : Runs(c, k) => Arg(c, k) \in Process
        /\ \A k : Calls(c, k) => Arg(c, k) \in Block
        /\ P[c] \in {"done", "returned"} => Over(c, P, R)
    BY CommandFacts DEF Core, Joined
  <2> QED
    BY <2>1, <1>0, <1>t, <1>1, <1>a DEF Over
<1>9. NoneSkipped(PP, N, RR, Q)
  <2> SUFFICES ASSUME Q, NEW c \in Block, NEW k \in Nat, k < N[c]
               PROVE  /\ Runs(c, k) => RR[Arg(c, k)] # "idle"
                      /\ Calls(c, k) => PP[Arg(c, k)] # "idle"
    BY DEF NoneSkipped
  <2>1. /\ Runs(c, k) => Arg(c, k) \in Process
        /\ Calls(c, k) => Arg(c, k) \in Block
        /\ k < N[c] => /\ Runs(c, k) => R[Arg(c, k)] # "idle"
                       /\ Calls(c, k) => P[Arg(c, k)] # "idle"
    BY CommandFacts DEF Core, NoneSkipped
  <2> QED
    BY <2>1, <1>0, <1>1
<1> QED
  BY <1>0, <1>3, <1>4, <1>5, <1>6, <1>7, <1>8, <1>9 DEF Core, n, p, PP, RR

(* run_child: a new thread watches the process. *)
LEMMA WatchesThread ==
  ASSUME NEW P, NEW N, NEW R, NEW Q, Core(P, N, R, Q), NEW b \in Block,
         P[b] = "spawn", Parallel[b]
  PROVE  /\ Runs(b, N[b]) /\ R[Arg(b, N[b])] = "opened"
         /\ Core([P EXCEPT ![b] = "exec"], [N EXCEPT ![b] = @ + 1],
                 [R EXCEPT ![Arg(b, N[b])] = "running"], Q)
<1> DEFINE n == N[b]
<1> DEFINE p == Arg(b, n)
<1> DEFINE PP == [P EXCEPT ![b] = "exec"]
<1> DEFINE NN == [N EXCEPT ![b] = n + 1]
<1> DEFINE RR == [R EXCEPT ![p] = "running"]
<1>0. /\ n = N[b] /\ Runs(b, n) /\ n \in Nat /\ 1 <= n /\ n <= Size(b) /\ Size(b) \in Nat
      /\ p \in Process /\ p = Arg(b, n) /\ R[p] = "opened"
  BY CommandFacts, Zenon DEF Core, AtCommand, Starting
<1>t. P \in [Block -> Labels] /\ N \in [Block -> Nat] /\ Script \subseteq Block
      /\ R \in [Process -> {"idle", "opened", "done"} \union Watched]
  BY ScriptAssumption DEF Core, Types
<1>1. /\ PP \in [Block -> Labels] /\ PP[b] = "exec" /\ \A c \in Block : c # b => PP[c] = P[c]
      /\ NN \in [Block -> Nat] /\ NN[b] = n + 1 /\ \A c \in Block : c # b => NN[c] = N[c]
      /\ RR[p] = "running" /\ \A q \in Process : q # p => RR[q] = R[q]
      /\ RR \in [Process -> {"idle", "opened", "done"} \union Watched]
  BY <1>0, <1>t DEF Labels, Watched
<1>a. \A c \in Block : \A k : Runs(c, k) /\ Arg(c, k) = p => c = b /\ k = n
  BY <1>0, RunsOnce
<1>s. 1 <= NN[b] /\ NN[b] <= Size(b) + 1
  BY <1>0, <1>1
<1>2. /\ \A k \in Nat : k <= n <=> k < n + 1
      /\ \A k \in Nat : k = n \/ k < n + 1 => k # n + 1 /\ k <= n + 1
  BY <1>0
<1>b. \A k : k = n => Arg(b, k) = p /\ ~Calls(b, k)
  BY <1>0 DEF Runs, Calls
<1> HIDE DEF n, p, PP, NN, RR
<1>3. Types(PP, NN, RR)
  BY <1>t, <1>1, <1>s DEF Core, Types
<1>4. OneScript(PP)
  BY <1>0, <1>t, <1>1 DEF Core, OneScript
<1>5. AtCommand(PP, NN, RR)
  <2>1. ASSUME NEW c \in Block, c # b, Runs(c, N[c])
        PROVE  RR[Arg(c, N[c])] = R[Arg(c, N[c])]
    BY <2>1, <1>a, <1>1, CommandFacts
  <2> QED
    BY <2>1, <1>0, <1>1, ZenonT(30) DEF Core, AtCommand, Asking, Starting
<1>6. OfProcess(PP, NN, RR)
  <2>1. \A q \in Process : RR[q] # "idle" => \E c \in Block, k \in Nat : Runs(c, k) /\ Arg(c, k) = q
    BY <1>0, <1>t, <1>1, <1>a, <1>2 DEF Core, OfProcess
  <2>2. ASSUME NEW c \in Block, NEW k \in Nat, Runs(c, k)
        PROVE  ProcessFits(c, k, PP, NN, RR[Arg(c, k)])
    <3>1. Arg(c, k) \in Process /\ ProcessFits(c, k, P, N, R[Arg(c, k)])
      BY <2>2, CommandFacts DEF Core, OfProcess
    <3> QED
      BY <2>2, <3>1, <1>0, <1>t, <1>1, <1>a, <1>2 DEF ProcessFits, Starting, Watched
  <2> QED
    BY <2>1, <2>2 DEF OfProcess
<1>7. OfBlock(PP, NN)
  <2> SUFFICES ASSUME NEW c \in Block, NEW k \in Nat, Calls(c, k)
               PROVE  BlockFits(c, k, PP, NN, PP[Arg(c, k)])
    BY DEF OfBlock
  <2>1. Arg(c, k) \in Block /\ BlockFits(c, k, P, N, P[Arg(c, k)])
    BY CommandFacts DEF Core, OfBlock
  <2> QED
    BY <2>1, <1>0, <1>1, <1>2, <1>b DEF BlockFits
<1>8. Joined(PP, RR)
  <2> SUFFICES ASSUME NEW c \in Block, PP[c] \in {"done", "returned"}
               PROVE  Over(c, PP, RR)
    BY DEF Joined
  <2>1. /\ \A k : Runs(c, k) => Arg(c, k) \in Process
        /\ \A k : Calls(c, k) => Arg(c, k) \in Block
        /\ P[c] \in {"done", "returned"} => Over(c, P, R)
    BY CommandFacts, Zenon DEF Core, Joined
  <2> QED
    BY <2>1, <1>0, <1>t, <1>1, <1>a DEF Over
<1>9. NoneSkipped(PP, NN, RR, Q)
  <2> SUFFICES ASSUME Q, NEW c \in Block, NEW k \in Nat, k < NN[c]
               PROVE  /\ Runs(c, k) => RR[Arg(c, k)] # "idle"
                      /\ Calls(c, k) => PP[Arg(c, k)] # "idle"
    BY DEF NoneSkipped
  <2>1. /\ Runs(c, k) => Arg(c, k) \in Process
        /\ Calls(c, k) => Arg(c, k) \in Block
        /\ k < N[c] => /\ Runs(c, k) => R[Arg(c, k)] # "idle"
                       /\ Calls(c, k) => P[Arg(c, k)] # "idle"
    BY CommandFacts DEF Core, NoneSkipped
  <2>2. CASE c = b
    BY <2>1, <2>2, <1>0, <1>1, <1>2, <1>b
  <2>3. CASE c # b
    BY <2>1, <2>3, <1>1
  <2> QED
    BY <2>2, <2>3
<1> QED
  BY <1>0, <1>3, <1>4, <1>5, <1>6, <1>7, <1>8, <1>9 DEF Core, n, p, PP, NN, RR

(* The process ends, or its watcher goes on. *)
LEMMA WatcherGoes ==
  ASSUME NEW P, NEW N, NEW R, NEW Q, Core(P, N, R, Q), NEW b \in Block,
         NEW n, Runs(b, n), R[Arg(b, n)] \in Watched, NEW r \in Watched \union {"done"},
         r \in {"released", "done"} => Parallel[b]
  PROVE  Core(P, N, [R EXCEPT ![Arg(b, n)] = r], Q)
<1> DEFINE p == Arg(b, n)
<1> DEFINE RR == [R EXCEPT ![p] = r]
<1>0. /\ p \in Process /\ p = Arg(b, n) /\ R[p] \in Watched
  BY CommandFacts
<1>t. P \in [Block -> Labels] /\ N \in [Block -> Nat] /\ Script \subseteq Block
      /\ R \in [Process -> {"idle", "opened", "done"} \union Watched]
  BY ScriptAssumption DEF Core, Types
<1>1. /\ RR[p] = r /\ \A q \in Process : q # p => RR[q] = R[q]
      /\ RR \in [Process -> {"idle", "opened", "done"} \union Watched]
      /\ r \notin {"idle", "opened"} /\ R[p] \notin {"idle", "opened", "done"}
  BY <1>0, <1>t DEF Watched
<1>a. \A c \in Block : \A k : Runs(c, k) /\ Arg(c, k) = p => c = b /\ k = n
  BY <1>0, RunsOnce
<1> HIDE DEF p, RR
<1>3. Types(P, N, RR)
  BY <1>t, <1>1 DEF Core, Types
<1>4. OneScript(P)
  BY DEF Core
<1>5. AtCommand(P, N, RR)
  <2>1. ASSUME NEW c \in Block, Runs(c, N[c])
        PROVE  \/ RR[Arg(c, N[c])] = R[Arg(c, N[c])]
               \/ R[Arg(c, N[c])] \notin {"idle", "opened"}
    BY <2>1, <1>1, CommandFacts
  <2> QED
    BY <2>1, Zenon DEF Core, AtCommand, Asking, Starting
<1>6. OfProcess(P, N, RR)
  <2>1. \A q \in Process : RR[q] # "idle" => \E c \in Block, k \in Nat : Runs(c, k) /\ Arg(c, k) = q
    BY <1>0, <1>t, <1>1, <1>a DEF Core, OfProcess
  <2>2. ASSUME NEW c \in Block, NEW k \in Nat, Runs(c, k)
        PROVE  ProcessFits(c, k, P, N, RR[Arg(c, k)])
    <3>1. Arg(c, k) \in Process /\ ProcessFits(c, k, P, N, R[Arg(c, k)])
      BY <2>2, CommandFacts, Zenon DEF Core, OfProcess
    <3> QED
      BY <2>2, <3>1, <1>0, <1>t, <1>1, <1>a DEF ProcessFits, Starting, Watched
  <2> QED
    BY <2>1, <2>2 DEF OfProcess
<1>7. OfBlock(P, N)
  BY DEF Core
<1>8. Joined(P, RR)
  <2> SUFFICES ASSUME NEW c \in Block, P[c] \in {"done", "returned"}
               PROVE  Over(c, P, RR)
    BY DEF Joined
  <2>1. /\ \A k : Runs(c, k) => Arg(c, k) \in Process
        /\ \A k : Calls(c, k) => Arg(c, k) \in Block
        /\ P[c] \in {"done", "returned"} => Over(c, P, R)
    BY CommandFacts, Zenon DEF Core, Joined
  <2> QED
    BY <2>1, <1>0, <1>t, <1>1, <1>a DEF Over
<1>9. NoneSkipped(P, N, RR, Q)
  <2> SUFFICES ASSUME Q, NEW c \in Block, NEW k \in Nat, k < N[c]
               PROVE  /\ Runs(c, k) => RR[Arg(c, k)] # "idle"
                      /\ Calls(c, k) => P[Arg(c, k)] # "idle"
    BY DEF NoneSkipped
  <2>1. /\ Runs(c, k) => Arg(c, k) \in Process
        /\ Calls(c, k) => Arg(c, k) \in Block
        /\ k < N[c] => /\ Runs(c, k) => R[Arg(c, k)] # "idle"
                       /\ Calls(c, k) => P[Arg(c, k)] # "idle"
    BY CommandFacts DEF Core, NoneSkipped
  <2> QED
    BY <2>1, <1>0, <1>1
<1> QED
  BY <1>0, <1>3, <1>4, <1>5, <1>6, <1>7, <1>8, <1>9 DEF Core, p, RR

(* The block that watched the process goes on with its next command. *)
LEMMA ReleasesHere ==
  ASSUME NEW P, NEW N, NEW R, NEW Q, Core(P, N, R, Q), NEW b \in Block,
         NEW n, Runs(b, n), R[Arg(b, n)] \in Watched, ~Parallel[b]
  PROVE  /\ N[b] = n /\ P[b] = "watch"
         /\ Core([P EXCEPT ![b] = "exec"], [N EXCEPT ![b] = @ + 1], [R EXCEPT ![Arg(b, n)] = "done"], Q)
<1> DEFINE p == Arg(b, n)
<1> DEFINE PP == [P EXCEPT ![b] = "exec"]
<1> DEFINE NN == [N EXCEPT ![b] = n + 1]
<1> DEFINE RR == [R EXCEPT ![p] = "done"]
<1>0. /\ n = N[b] /\ n \in Nat /\ 1 <= n /\ n <= Size(b) /\ Size(b) \in Nat
      /\ p \in Process /\ p = Arg(b, n) /\ R[p] \in Watched /\ P[b] = "watch"
  BY CommandFacts, Zenon DEF Core, OfProcess, ProcessFits
<1>t. P \in [Block -> Labels] /\ N \in [Block -> Nat] /\ Script \subseteq Block
      /\ R \in [Process -> {"idle", "opened", "done"} \union Watched]
  BY ScriptAssumption DEF Core, Types
<1>1. /\ PP \in [Block -> Labels] /\ PP[b] = "exec" /\ \A c \in Block : c # b => PP[c] = P[c]
      /\ NN \in [Block -> Nat] /\ NN[b] = n + 1 /\ \A c \in Block : c # b => NN[c] = N[c]
      /\ RR[p] = "done" /\ \A q \in Process : q # p => RR[q] = R[q]
      /\ RR \in [Process -> {"idle", "opened", "done"} \union Watched]
  BY <1>0, <1>t DEF Labels, Watched
<1>a. \A c \in Block : \A k : Runs(c, k) /\ Arg(c, k) = p => c = b /\ k = n
  BY <1>0, RunsOnce
<1>s. 1 <= NN[b] /\ NN[b] <= Size(b) + 1
  BY <1>0, <1>1
<1>2. /\ \A k \in Nat : k <= n <=> k < n + 1
      /\ \A k \in Nat : k = n \/ k < n + 1 => k # n + 1 /\ k <= n + 1
  BY <1>0
<1>b. \A k : k = n => Arg(b, k) = p /\ ~Calls(b, k)
  BY <1>0 DEF Runs, Calls
<1> HIDE DEF p, PP, NN, RR
<1>3. Types(PP, NN, RR)
  BY <1>t, <1>1, <1>s DEF Core, Types
<1>4. OneScript(PP)
  BY <1>0, <1>t, <1>1 DEF Core, OneScript
<1>5. AtCommand(PP, NN, RR)
  <2>1. ASSUME NEW c \in Block, c # b, Runs(c, N[c])
        PROVE  RR[Arg(c, N[c])] = R[Arg(c, N[c])]
    BY <2>1, <1>a, <1>1, CommandFacts
  <2> QED
    BY <2>1, <1>0, <1>1, Zenon DEF Core, AtCommand, Asking, Starting
<1>6. OfProcess(PP, NN, RR)
  <2>1. \A q \in Process : RR[q] # "idle" => \E c \in Block, k \in Nat : Runs(c, k) /\ Arg(c, k) = q
    BY <1>0, <1>t, <1>1, <1>a, <1>2 DEF Core, OfProcess
  <2>2. ASSUME NEW c \in Block, NEW k \in Nat, Runs(c, k)
        PROVE  ProcessFits(c, k, PP, NN, RR[Arg(c, k)])
    <3>1. Arg(c, k) \in Process /\ ProcessFits(c, k, P, N, R[Arg(c, k)])
      BY <2>2, CommandFacts, Zenon DEF Core, OfProcess
    <3> QED
      BY <2>2, <3>1, <1>0, <1>t, <1>1, <1>a, <1>2 DEF ProcessFits, Starting, Watched
  <2> QED
    BY <2>1, <2>2 DEF OfProcess
<1>7. OfBlock(PP, NN)
  <2> SUFFICES ASSUME NEW c \in Block, NEW k \in Nat, Calls(c, k)
               PROVE  BlockFits(c, k, PP, NN, PP[Arg(c, k)])
    BY DEF OfBlock
  <2>1. Arg(c, k) \in Block /\ BlockFits(c, k, P, N, P[Arg(c, k)])
    BY CommandFacts DEF Core, OfBlock
  <2> QED
    BY <2>1, <1>0, <1>1, <1>2, <1>b DEF BlockFits
<1>8. Joined(PP, RR)
  <2> SUFFICES ASSUME NEW c \in Block, PP[c] \in {"done", "returned"}
               PROVE  Over(c, PP, RR)
    BY DEF Joined
  <2>1. /\ \A k : Runs(c, k) => Arg(c, k) \in Process
        /\ \A k : Calls(c, k) => Arg(c, k) \in Block
        /\ P[c] \in {"done", "returned"} => Over(c, P, R)
    BY CommandFacts DEF Core, Joined
  <2> QED
    BY <2>1, <1>0, <1>t, <1>1, <1>a DEF Over
<1>9. NoneSkipped(PP, NN, RR, Q)
  <2> SUFFICES ASSUME Q, NEW c \in Block, NEW k \in Nat, k < NN[c]
               PROVE  /\ Runs(c, k) => RR[Arg(c, k)] # "idle"
                      /\ Calls(c, k) => PP[Arg(c, k)] # "idle"
    BY DEF NoneSkipped
  <2>1. /\ Runs(c, k) => Arg(c, k) \in Process
        /\ Calls(c, k) => Arg(c, k) \in Block
        /\ k < N[c] => /\ Runs(c, k) => R[Arg(c, k)] # "idle"
                       /\ Calls(c, k) => P[Arg(c, k)] # "idle"
    BY CommandFacts DEF Core, NoneSkipped
  <2>2. CASE c = b
    <3>1. k = n \/ k < N[c]
      BY <2>2, <1>0, <1>1, <1>2
    <3> QED
      BY <2>1, <2>2, <3>1, <1>0, <1>1, <1>b
  <2>3. CASE c # b
    BY <2>1, <2>3, <1>1
  <2> QED
    BY <2>2, <2>3
<1> QED
  BY <1>0, <1>3, <1>4, <1>5, <1>6, <1>7, <1>8, <1>9 DEF Core, p, PP, NN, RR

-----------------------------------------------------------------------------
(* What has ended, and what is launched when. *)

(* When nothing has failed, a block that has returned has run everything. *)
LEMMA ReturnedAll ==
  ASSUME NEW P, NEW N, NEW R, Core(P, N, R, TRUE), NEW b \in Block, P[b] = "returned"
  PROVE  \A p \in Launches[b] : R[p] = "done"
<1> DEFINE S == {c \in Block : P[c] = "returned"}
<1>1. ASSUME NEW c \in S
      PROVE  /\ \A k \in Nat : Runs(c, k) => R[Arg(c, k)] = "done"
             /\ \A k : Calls(c, k) => Arg(c, k) \in S
  <2>1. N[c] \in Nat /\ N[c] > Size(c) /\ Size(c) \in Nat /\ Over(c, P, R)
    BY CommandFacts DEF Core, Types, AtCommand, Joined
  <2>2. \A k : Runs(c, k) \/ Calls(c, k) => k \in Nat /\ k < N[c]
    BY <2>1, CommandFacts
  <2>3. /\ \A k \in Nat : Runs(c, k) => R[Arg(c, k)] # "idle"
        /\ \A k \in Nat : Calls(c, k) => P[Arg(c, k)] # "idle" /\ Arg(c, k) \in Block
    BY <2>2, CommandFacts DEF Core, NoneSkipped
  <2> QED
    BY <2>1, <2>2, <2>3 DEF Over
<1>2. b \in S /\ S \in SUBSET Block
  OBVIOUS
<1>3. Within[b] \subseteq S
  <2> HIDE DEF S
  <2> QED
    BY <1>1, <1>2, WithinIn
<1>4. ASSUME NEW p \in Launches[b]
      PROVE  \E c \in S, k \in Nat : Runs(c, k) /\ Arg(c, k) = p
  <2>1. PICK c \in Within[b] : Has(c, {"run", "baddir"}, p)
    BY DEF Launches
  <2>2. PICK k \in DOMAIN Cmds[c] : Cmds[c][k].op \in {"run", "baddir"} /\ Cmds[c][k].arg = p
    BY <2>1 DEF Has
  <2>3. Runs(c, k) /\ Arg(c, k) = p /\ c \in S
    BY <1>3, <2>2 DEF Runs, Arg
  <2> QED
    BY <2>3, CommandFacts
<1> QED
  BY <1>1, <1>4

(* When a script has returned, no process runs. *)
LEMMA ReturnedOver ==
  ASSUME NEW P, NEW N, NEW R, NEW Q, Core(P, N, R, Q), NEW s \in Script, P[s] = "returned"
  PROVE  \A p \in Process : R[p] \in {"idle", "done"}
<1> DEFINE S == {c \in Block : P[c] \in {"idle", "returned"}}
<1>1. ASSUME NEW c \in S
      PROVE  /\ \A k \in Nat : Runs(c, k) => R[Arg(c, k)] \in {"idle", "done"}
             /\ \A k : Calls(c, k) => Arg(c, k) \in S
  <2>1. /\ \A k \in Nat : Runs(c, k) /\ P[c] = "idle" => R[Arg(c, k)] = "idle"
        /\ \A k \in Nat : Calls(c, k) /\ P[c] = "idle" => P[Arg(c, k)] = "idle"
        /\ P[c] = "returned" => Over(c, P, R)
    BY DEF Core, OfProcess, ProcessFits, OfBlock, BlockFits, Joined
  <2> QED
    BY <2>1, CommandFacts DEF Over
<1>2. Script \subseteq S /\ S \in SUBSET Block
  BY ScriptAssumption, Zenon DEF Core, OneScript
<1>3. S = Block
  <2> HIDE DEF S
  <2> QED
    BY <1>1, <1>2, EveryBlock
<1>4. ASSUME NEW p \in Process, R[p] # "idle"
      PROVE  R[p] = "done"
  <2>1. PICK b \in Block, k \in Nat : Runs(b, k) /\ Arg(b, k) = p
    BY <1>4 DEF Core, OfProcess
  <2> QED
    BY <1>1, <1>3, <1>4, <2>1
<1> QED
  BY <1>4

LEMMA LaunchedByProcess ==
  ASSUME NEW b \in Block, NEW k \in DOMAIN Cmds[b]
  PROVE  /\ LaunchedBy(b, k) \subseteq Process
         /\ \A q \in LaunchedBy(b, k) : \/ Runs(b, k) /\ Arg(b, k) = q
                                        \/ Calls(b, k) /\ q \in Launches[Arg(b, k)]
<1>1. CASE Cmds[b][k].op = "block"
  <2>1. LaunchedBy(b, k) = Launches[Arg(b, k)] /\ Calls(b, k) /\ Arg(b, k) \in Block
    BY <1>1, CommandFacts DEF LaunchedBy, Calls, Arg
  <2>2. Launches[Arg(b, k)] \subseteq Process
    BY <2>1 DEF Launches
  <2> QED
    BY <2>1, <2>2
<1>2. CASE Cmds[b][k].op \in {"run", "baddir"}
  <2>1. LaunchedBy(b, k) = {Arg(b, k)} /\ Runs(b, k) /\ Arg(b, k) \in Process
    BY <1>2, CommandFacts DEF LaunchedBy, Runs, Arg
  <2> QED
    BY <2>1
<1>3. CASE Cmds[b][k].op \notin {"run", "baddir", "block"}
  BY <1>3 DEF LaunchedBy
<1> QED
  BY <1>1, <1>2, <1>3

=============================================================================
