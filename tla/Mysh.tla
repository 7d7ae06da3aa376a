------------------------------- MODULE Mysh -------------------------------
(***************************************************************************)
(* The shell mysh (src/mysh/mysh.ml) that runs VeriFast's test suites:     *)
(* sequential and parallel blocks of commands, the threads that run them,  *)
(* the semaphore that bounds the processes running at a time, the joining  *)
(* of child threads, the alarm thread that reports slow processes, and the *)
(* exit status.                                                            *)
(*                                                                         *)
(* A block is one call of exec_cmds: a begin_/end_ block, or the file of a *)
(* call or include command. A block whose parent is parallel runs in a     *)
(* thread of its own, others in the thread of their parent. Sections       *)
(* between Mutex.lock and Mutex.unlock that cannot block are one step.     *)
(***************************************************************************)
EXTENDS Naturals, FiniteSets, Sequences

CONSTANTS
  Block,         \* the blocks of the scripts
  Script,        \* the blocks that are main files; mysh runs one of them
  Process,       \* the processes the script launches
  Parallel,      \* [Block -> BOOLEAN]
  Cmds,          \* [Block -> Seq of commands]
  max_processes, \* [Script -> the argument of -cpus]
  MaxTime        \* bound: [Script -> alarm periods (of 5 seconds) that pass]

(* A command launches a process ("run", or "baddir" when the directory     *)
(* does not exist), runs a child block ("block"), waits for the children   *)
(* and removes a file ("del"), or is an error ("bad"). The lines a macro   *)
(* expands to are commands too; line numbers them.                         *)
Command == [op : {"run", "baddir"}, arg : Process, line : Nat] \union
           [op : {"block"}, arg : Block, line : Nat] \union
           [op : {"del", "bad"}, arg : Script, line : Nat]

ASSUME ScriptAssumption ==
  /\ Script \subseteq Block
  /\ Parallel \in [Block -> BOOLEAN] /\ \A s \in Script : ~Parallel[s]
  /\ Cmds \in [Block -> Seq(Command)]
  /\ max_processes \in [Script -> Nat \ {0}] /\ MaxTime \in [Script -> Nat]

Has(b, op, x) == \E k \in DOMAIN Cmds[b] : Cmds[b][k].op \in op /\ Cmds[b][k].arg = x
Parent(c) == CHOOSE b \in Block : Has(b, {"block"}, c)
Owner(p) == CHOOSE b \in Block : Has(b, {"run", "baddir"}, p)
OwnThread(c) == c \notin Script /\ Parallel[Parent(c)]

(* The calls of exec_cmds on the stack of the thread that runs block b: the  *)
(* smallest set that has b and the parent of every block in it that runs in  *)
(* its parent's thread.                                                      *)
CallStack ==
  LET HasCallers(S) == \A c \in S \ Script : OwnThread(c) \/ Parent(c) \in S IN
  [b \in Block |-> {c \in Block : \A S \in SUBSET Block : b \in S /\ HasCallers(S) => c \in S}]

(* Block b and the blocks nested in it, at any depth. *)
Within ==
  LET HasNested(S) == \A b \in S, c \in Block : Has(b, {"block"}, c) => c \in S IN
  [b \in Block |-> {c \in Block : \A S \in SUBSET Block : b \in S /\ HasNested(S) => c \in S}]

(* Every call of exec_cmds and every process launched has a name of its own: *)
(* no two commands have the same block or process. A script is no command's  *)
(* block, and every block is in a script.                                    *)
ASSUME TreeAssumption ==
  /\ IsFiniteSet(Block) /\ IsFiniteSet(Process)
  /\ \A b, c \in Block : \A j \in DOMAIN Cmds[b], k \in DOMAIN Cmds[c] :
       (/\ Cmds[b][j].arg = Cmds[c][k].arg
        /\ \E ops \in {{"run", "baddir"}, {"block"}} :
             Cmds[b][j].op \in ops /\ Cmds[c][k].op \in ops)
       => b = c /\ j = k
  /\ \A b \in Block, s \in Script : ~Has(b, {"block"}, s)
  /\ Block = UNION {Within[s] : s \in Script}

VARIABLES
  pc,                      \* [Block -> where the call of exec_cmds is]
  next,                    \* [Block -> index of the current command]
  children_started_count,  \* [Block -> Nat]
  children_finished_count, \* [Block -> Nat]
  process,                 \* [Process -> how far the process and its watcher are]
  permits,                 \* count of the semaphore
  failed_processes_log,
  global_mutex_lost,       \* whether a thread died holding global_mutex
  alarms,                  \* the alarm list, as a sequence of [p, i, time]
  current_alarm,           \* [Process -> the alarm cancelled at the end]
  alarm_thread,            \* "check", "wait", or "handler" of
  alarm_fired,             \* the alarm taken off the list last
  now, time0,              \* the clock, and [Process -> start time]
  exit_status              \* "none", "0", "1" or "uncaught"

blockVars == <<pc, next>>
childVars == <<children_started_count, children_finished_count>>
alarmVars == <<alarms, current_alarm, alarm_thread, alarm_fired>>
clockVars == <<now, time0>>
vars == <<blockVars, childVars, process, permits, failed_processes_log,
          global_mutex_lost, alarmVars, clockVars, exit_status>>

NoAlarm == [p |-> "none", i |-> 0, time |-> 0]

Init ==
  /\ \E s \in Script : /\ pc = [b \in Block |-> IF b = s THEN "exec" ELSE "idle"]
                       /\ permits = max_processes[s]
  /\ next = [b \in Block |-> 1]
  /\ children_started_count = [b \in Block |-> 0]
  /\ children_finished_count = [b \in Block |-> 0]
  /\ process = [p \in Process |-> "idle"]
  /\ failed_processes_log = <<>>
  /\ global_mutex_lost = FALSE
  /\ alarms = <<>>
  /\ current_alarm = [p \in Process |-> NoAlarm]
  /\ alarm_thread = "check"
  /\ alarm_fired = NoAlarm
  /\ now = 0
  /\ time0 = [p \in Process |-> 0]
  /\ exit_status = "none"

(* The script that is being run. *)
Running == CHOOSE s \in Script : pc[s] # "idle"

Alive == exit_status = "none"
At(b, label) == Alive /\ pc[b] = label
Goto(b, label) == pc' = [pc EXCEPT ![b] = label]
Advance(b) == /\ pc' = [pc EXCEPT ![b] = "exec"]
              /\ next' = [next EXCEPT ![b] = @ + 1]
Cmd(b) == Cmds[b][next[b]]
Lockable == ~global_mutex_lost

-----------------------------------------------------------------------------
(* The semaphore of run permissions. *)

Acquire(b) ==
  /\ At(b, "acquire")
  /\ IF permits = 0
       THEN Goto(b, "semwait") /\ UNCHANGED permits
       ELSE Goto(b, "launch") /\ permits' = permits - 1
  /\ UNCHANGED <<next, childVars, process, failed_processes_log,
                 global_mutex_lost, alarmVars, clockVars, exit_status>>

(* Mutant: a woken thread goes on without taking the permit. *)
WakesOneNoPermit(pcs) ==
  LET waiting == {b \in Block : pcs[b] = "semwait"} IN
  IF waiting = {} THEN pc' = pcs
  ELSE \E b \in waiting : pc' = [pcs EXCEPT ![b] = "launch"]

(* Condition.signal wakes one of the waiting threads, if there is one. *)
WakesOne(pcs) ==
  LET waiting == {b \in Block : pcs[b] = "semwait"} IN
  IF waiting = {} THEN pc' = pcs
  ELSE \E b \in waiting : pc' = [pcs EXCEPT ![b] = "acquire"]

-----------------------------------------------------------------------------
(* The alarm list. *)

(* create_alarm inserts after the last alarm that is not later. *)
Inserted(a) ==
  LET n == Cardinality({k \in DOMAIN alarms : alarms[k].time <= a.time}) IN
  SubSeq(alarms, 1, n) \o <<a>> \o SubSeq(alarms, n + 1, Len(alarms))

(* Mutant: cancelling leaves the alarm linked. *)
RemovedNot(a) == alarms

(* remove_alarm has no effect on an alarm that is not in the list. *)
Removed(a) == SelectSeq(alarms, LAMBDA x : x # a)

Woken == IF alarm_thread = "wait" THEN "check" ELSE alarm_thread
Alarm(p, i) == [p |-> p, i |-> i, time |-> time0[p] + i]

(* One iteration of the alarm thread, up to calling a handler. *)
AlarmThread ==
  /\ Alive /\ alarm_thread = "check"
  /\ \/ /\ alarms = <<>>
        /\ alarm_thread' = "wait"
        /\ UNCHANGED <<alarms, alarm_fired>>
     \/ /\ alarms # <<>> /\ Head(alarms).time <= now
        /\ alarm_thread' = "handler"
        /\ alarm_fired' = Head(alarms)
        /\ alarms' = Tail(alarms)
  /\ UNCHANGED <<blockVars, childVars, process, permits, failed_processes_log,
                 global_mutex_lost, current_alarm, clockVars, exit_status>>

(* The handler reports the process as slow and produces the next alarm. *)
AlarmHandler ==
  /\ Alive /\ alarm_thread = "handler" /\ Lockable
  /\ LET a == Alarm(alarm_fired.p, alarm_fired.i + 1) IN
       /\ alarms' = Inserted(a)
       /\ current_alarm' = [current_alarm EXCEPT ![a.p] = a]
  /\ alarm_thread' = "check"
  /\ UNCHANGED <<blockVars, childVars, process, permits, failed_processes_log,
                 global_mutex_lost, alarm_fired, clockVars, exit_status>>

Tick ==
  /\ Alive /\ now < MaxTime[Running]
  /\ now' = now + 1
  /\ UNCHANGED <<blockVars, childVars, process, permits, failed_processes_log,
                 global_mutex_lost, alarmVars, time0, exit_status>>

-----------------------------------------------------------------------------
(* exec_cmds *)

(* Mutant: sequential blocks ignore failures. *)
ContinuesAlways(b) == next[b] <= Len(Cmds[b])

(* The read of failed_processes_log takes no lock, and happens once for    *)
(* the lines of a macro.                                                   *)
Continues(b) ==
  /\ next[b] <= Len(Cmds[b])
  /\ Parallel[b] \/ failed_processes_log = <<>> \/ Cmd(b).line > 1

(* An uncaught exception ends the thread: no frame of it has a handler, so *)
(* the parent's count is not updated. In the main thread it ends mysh.     *)
ThreadDies(b) ==
  /\ pc' = [c \in Block |-> IF c \in CallStack[b] THEN "dead" ELSE pc[c]]
  /\ exit_status' = IF Script \intersect CallStack[b] # {} THEN "uncaught" ELSE exit_status

ExecProcess(b) ==
  /\ At(b, "exec") /\ Continues(b) /\ Cmd(b).op \in {"run", "baddir"}
  /\ Goto(b, "acquire")
  /\ UNCHANGED <<next, childVars, process, permits, failed_processes_log,
                 global_mutex_lost, alarmVars, clockVars, exit_status>>

(* run_child_cmds: in a thread of its own when b is parallel. *)
ExecBlock(b) ==
  /\ At(b, "exec") /\ Continues(b) /\ Cmd(b).op = "block"
  /\ LET c == Cmd(b).arg IN
     IF Parallel[b]
       THEN /\ Lockable
            /\ children_started_count' = [children_started_count EXCEPT ![b] = @ + 1]
            /\ pc' = [pc EXCEPT ![c] = "exec"]
            /\ next' = [next EXCEPT ![b] = @ + 1]
       ELSE /\ pc' = [pc EXCEPT ![b] = "called", ![c] = "exec"]
            /\ UNCHANGED <<next, children_started_count>>
  /\ UNCHANGED <<children_finished_count, process, permits, failed_processes_log,
                 global_mutex_lost, alarmVars, clockVars, exit_status>>

ExecDel(b) ==
  /\ At(b, "exec") /\ Continues(b) /\ Cmd(b).op = "del"
  /\ Goto(b, "join")
  /\ UNCHANGED <<next, childVars, process, permits, failed_processes_log,
                 global_mutex_lost, alarmVars, clockVars, exit_status>>

ExecError(b) ==
  /\ At(b, "exec") /\ Continues(b) /\ Cmd(b).op = "bad"
  /\ ThreadDies(b)
  /\ UNCHANGED <<next, childVars, process, permits, failed_processes_log,
                 global_mutex_lost, alarmVars, clockVars>>

(* No command left, or a process failed and the block is sequential. *)
ExecEnd(b) ==
  /\ At(b, "exec") /\ ~Continues(b)
  /\ Goto(b, "join")
  /\ next' = [next EXCEPT ![b] = Len(Cmds[b]) + 1]
  /\ UNCHANGED <<childVars, process, permits, failed_processes_log,
                 global_mutex_lost, alarmVars, clockVars, exit_status>>

(* Mutant: the children are not waited for. *)
JoinNoWait(b) ==
  /\ At(b, "join") /\ Lockable
  /\ IF next[b] <= Len(Cmds[b]) THEN Advance(b)
       ELSE Goto(b, "done") /\ UNCHANGED next
  /\ UNCHANGED <<childVars, process, permits, failed_processes_log,
                 global_mutex_lost, alarmVars, clockVars, exit_status>>

JoinChildren(b) ==
  /\ At(b, "join") /\ Lockable
  /\ IF children_finished_count[b] < children_started_count[b]
       THEN Goto(b, "joinwait") /\ UNCHANGED next
       ELSE IF next[b] <= Len(Cmds[b]) THEN Advance(b)
       ELSE Goto(b, "done") /\ UNCHANGED next
  /\ UNCHANGED <<childVars, process, permits, failed_processes_log,
                 global_mutex_lost, alarmVars, clockVars, exit_status>>

(* Mutant: the condition is not signalled. *)
ChildFinishedNoSignal(b, pcs) ==
  /\ children_finished_count' = [children_finished_count EXCEPT ![b] = @ + 1]
  /\ pc' = pcs
  /\ UNCHANGED children_started_count

(* child_finished, called by a child thread of block b. *)
ChildFinished(b, pcs) ==
  /\ children_finished_count' = [children_finished_count EXCEPT ![b] = @ + 1]
  /\ pc' = IF children_finished_count'[b] = children_started_count[b] /\ pcs[b] = "joinwait"
             THEN [pcs EXCEPT ![b] = "join"] ELSE pcs
  /\ UNCHANGED children_started_count

Return(b) ==
  /\ At(b, "done")
  /\ CASE b \in Script ->
            /\ exit_status' = IF failed_processes_log = <<>> THEN "0" ELSE "1"
            /\ Goto(b, "returned") /\ UNCHANGED <<next, childVars>>
       [] OwnThread(b) ->
            /\ Lockable
            /\ ChildFinished(Parent(b), [pc EXCEPT ![b] = "returned"])
            /\ UNCHANGED <<next, exit_status>>
       [] OTHER ->
            /\ pc' = [pc EXCEPT ![b] = "returned", ![Parent(b)] = "exec"]
            /\ next' = [next EXCEPT ![Parent(b)] = @ + 1]
            /\ UNCHANGED <<childVars, exit_status>>
  /\ UNCHANGED <<process, permits, failed_processes_log,
                 global_mutex_lost, alarmVars, clockVars>>

-----------------------------------------------------------------------------
(* Launching a process, with the permit held. *)

(* Sys.chdir raises inside the section when there is no such directory. *)
Launch(b) ==
  /\ At(b, "launch") /\ Lockable
  /\ IF Cmd(b).op = "run"
       THEN /\ process' = [process EXCEPT ![Cmd(b).arg] = "opened"]
            /\ time0' = [time0 EXCEPT ![Cmd(b).arg] = now]
            /\ Goto(b, "alarm")
            /\ UNCHANGED <<global_mutex_lost, exit_status>>
       ELSE /\ global_mutex_lost' = TRUE
            /\ ThreadDies(b)
            /\ UNCHANGED <<process, time0>>
  /\ UNCHANGED <<next, childVars, permits, failed_processes_log, alarmVars, now>>

(* produce_alarm 1: create_alarm, and then the assignment, with no lock. *)
CreateAlarm(b) ==
  /\ At(b, "alarm")
  /\ alarms' = Inserted(Alarm(Cmd(b).arg, 1))
  /\ alarm_thread' = Woken
  /\ Goto(b, "setalarm")
  /\ UNCHANGED <<next, childVars, process, permits, failed_processes_log,
                 global_mutex_lost, current_alarm, alarm_fired, clockVars, exit_status>>

SetAlarm(b) ==
  /\ At(b, "setalarm")
  /\ current_alarm' = [current_alarm EXCEPT ![Cmd(b).arg] = Alarm(Cmd(b).arg, 1)]
  /\ Goto(b, "spawn")
  /\ UNCHANGED <<next, childVars, process, permits, failed_processes_log,
                 global_mutex_lost, alarms, alarm_thread, alarm_fired, clockVars, exit_status>>

(* run_child: the watcher runs in a new thread when b is parallel. *)
Spawn(b) ==
  /\ At(b, "spawn")
  /\ process' = [process EXCEPT ![Cmd(b).arg] = "running"]
  /\ IF Parallel[b]
       THEN /\ Lockable
            /\ children_started_count' = [children_started_count EXCEPT ![b] = @ + 1]
            /\ Advance(b)
       ELSE Goto(b, "watch") /\ UNCHANGED <<next, children_started_count>>
  /\ UNCHANGED <<children_finished_count, permits, failed_processes_log,
                 global_mutex_lost, alarmVars, clockVars, exit_status>>

ProcessExit(p) ==
  /\ Alive /\ process[p] = "running"
  /\ process' = [process EXCEPT ![p] = "exited"]
  /\ UNCHANGED <<blockVars, childVars, permits, failed_processes_log,
                 global_mutex_lost, alarmVars, clockVars, exit_status>>

(* The watcher's section: cancel the alarm and record the outcome. *)
Report(p, success) ==
  /\ Alive /\ process[p] = "exited" /\ Lockable
  /\ alarms' = Removed(current_alarm[p])
  /\ failed_processes_log' =
       IF success THEN failed_processes_log ELSE Append(failed_processes_log, p)
  /\ process' = [process EXCEPT ![p] = "reported"]
  /\ UNCHANGED <<blockVars, childVars, permits, global_mutex_lost, current_alarm,
                 alarm_thread, alarm_fired, clockVars, exit_status>>

(* release_run_permission; a sequential block goes on with its next command. *)
Release(p) ==
  /\ Alive /\ process[p] = "reported"
  /\ permits' = permits + 1
  /\ LET b == Owner(p) IN
     IF Parallel[b]
       THEN /\ process' = [process EXCEPT ![p] = "released"]
            /\ WakesOne(pc)
            /\ UNCHANGED next
       ELSE /\ process' = [process EXCEPT ![p] = "done"]
            /\ WakesOne([pc EXCEPT ![b] = "exec"])
            /\ next' = [next EXCEPT ![b] = @ + 1]
  /\ UNCHANGED <<childVars, failed_processes_log, global_mutex_lost, alarmVars,
                 clockVars, exit_status>>

WatcherFinished(p) ==
  /\ Alive /\ process[p] = "released" /\ Lockable
  /\ process' = [process EXCEPT ![p] = "done"]
  /\ ChildFinished(Owner(p), pc)
  /\ UNCHANGED <<next, permits, failed_processes_log, global_mutex_lost, alarmVars,
                 clockVars, exit_status>>

BlockStep(b) ==
  \/ ExecProcess(b) \/ ExecBlock(b) \/ ExecDel(b) \/ ExecError(b) \/ ExecEnd(b)
  \/ JoinChildren(b) \/ Return(b)
  \/ Acquire(b) \/ Launch(b) \/ CreateAlarm(b) \/ SetAlarm(b) \/ Spawn(b)

WatcherStep(p) ==
  \/ \E success \in BOOLEAN : Report(p, success)
  \/ Release(p) \/ WatcherFinished(p)

Step ==
  \/ \E b \in Block : BlockStep(b)
  \/ \E p \in Process : ProcessExit(p) \/ WatcherStep(p)
  \/ AlarmThread \/ AlarmHandler

Next == Step \/ Tick

(* As long as some thread or process can take a step, one does. That every   *)
(* thread gets its turn need not be assumed, because none can loop for ever  *)
(* while the clock stands still.                                             *)
Fairness == WF_vars(Step)

Spec == Init /\ [][Next]_vars /\ Fairness

-----------------------------------------------------------------------------
(* Properties *)

Occupied == {"opened", "running", "exited", "reported"}
Reported == {"reported", "released", "done"}
Failed == {failed_processes_log[k] : k \in DOMAIN failed_processes_log}

(* The processes block b launches when nothing fails. *)
Launches ==
  [b \in Block |-> {p \in Process : \E c \in Within[b] : Has(c, {"run", "baddir"}, p)}]

LaunchedBy(b, k) ==
  LET c == Cmds[b][k] IN
  CASE c.op = "block" -> Launches[c.arg]
    [] c.op \in {"run", "baddir"} -> {c.arg}
    [] OTHER -> {}

Pending(p) == \E k \in DOMAIN alarms : alarms[k].p = p
Firing(p) == alarm_thread = "handler" /\ alarm_fired.p = p

(* The semaphore (mysh.ml:94): never more processes at a time than -cpus,   *)
(* however many parallel blocks compete for permits.                        *)
AtMostMaxProcesses ==
  Cardinality({p \in Process : process[p] \in Occupied}) <= max_processes[Running]

(* exec_cmds0 and join_children: in a sequential block, once a process that *)
(* a command launched (in nested parallel blocks too) has failed, no        *)
(* process of a later command of that block is ever launched.               *)
SequentialStop ==
  \A b \in Block : \A j, k \in DOMAIN Cmds[b] :
    (~Parallel[b] /\ j < k /\ \E m \in (j + 1)..k : Cmds[b][m].line = 1) =>
      (LaunchedBy(b, j) \intersect Failed = {} \/
       \A q \in LaunchedBy(b, k) : process[q] = "idle")

(* The exit status (mysh.ml:495): mysh reports success only if every process *)
(* of the script ran to its end and succeeded, whatever thread an error      *)
(* killed; and it never ends by itself while a process it launched runs.     *)
ExitStatusTruthful ==
  /\ exit_status = "0" => \A p \in Launches[Running] : process[p] = "done" /\ p \notin Failed
  /\ exit_status = "1" => Failed # {} /\ \A p \in Process : process[p] \in {"idle", "done"}

(* cancel_alarm by the watcher (mysh.ml:440): a process that ends while its  *)
(* first alarm is still pending is never reported as slow afterwards.        *)
PromptNotSlow ==
  [][\A p \in Process :
       (process'[p] \in Reported /\
        (IF process[p] = "exited" THEN \E k \in DOMAIN alarms : alarms[k] = Alarm(p, 1)
                                  ELSE ~Pending(p) /\ ~Firing(p)))
       => ~Pending(p)' /\ ~Firing(p)']_vars

(* join_children, the semaphore and the failure checks: a script ends,       *)
(* whichever of its processes fail, unless an error in it kills a thread.    *)
Termination == <>(exit_status \in {"0", "1"} \/ \E b \in Block : pc[b] = "dead")
=============================================================================
