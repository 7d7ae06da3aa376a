----------------------------- MODULE SyncProofs -----------------------------
(* Proofs about MCSync, for every value of its constants: SafeAccess, and     *)
(* that each lock implements its abstract specification.  The argument about  *)
(* each construct is in FifoLockProofs and ConstructProofs; here it is shown  *)
(* that what MCSync composes takes only steps of the constructs, in any       *)
(* order, and the two are put together.  Those modules instantiate the        *)
(* components a second time, so what they are about is first shown to be what *)
(* MCSync runs.                                                               *)
EXTENDS MCSync, TLAPS

----------------------------------------------------------------------------
\* what a step of the model does to each construct
EachSteps == /\ [Next]_vars
             /\ [Clh!Next]_(Clh!vars)
             /\ [Cohort!Next]_(Cohort!vars)
             /\ [Futex!Next]_(Futex!vars)
             /\ [Usb!Next]_(Usb!vars)
             /\ [Wait!sends \/ Wait!main_term_scope]_(Wait!prodconsvars)
             /\ [\E t \in Wait!Both : Wait!barrier_step(t)]_(Wait!barriervars)

(* The parts of a tuple of variables that does not change do not change.      *)
LEMMA LocksStay ==
  ASSUME UNCHANGED lockvars
  PROVE  /\ UNCHANGED vars /\ UNCHANGED Clh!vars
         /\ UNCHANGED Cohort!vars /\ UNCHANGED Futex!vars
<1>1. UNCHANGED <<vars, clhvars, cohortvars, futexvars>>
  BY Zenon DEF lockvars
<1>2. UNCHANGED clhvars /\ UNCHANGED cohortvars /\ UNCHANGED futexvars /\ UNCHANGED vars
  BY <1>1
<1> QED
  BY <1>2 DEF clhvars, cohortvars, futexvars, Clh!vars, Cohort!vars, Cohort!locals, Futex!vars

(* The variables of a construct, as MCSync and as its own module list them.   *)
LEMMA ClhStays == ASSUME UNCHANGED clhvars PROVE UNCHANGED Clh!vars
  BY DEF clhvars, Clh!vars
(* As ClhStays, for the cohort lock.                                          *)
LEMMA CohortStays == ASSUME UNCHANGED cohortvars PROVE UNCHANGED Cohort!vars
  BY DEF cohortvars, Cohort!vars, Cohort!locals
(* As ClhStays, for the futex mutex.                                          *)
LEMMA FutexStays == ASSUME UNCHANGED futexvars PROVE UNCHANGED Futex!vars
  BY DEF futexvars, Futex!vars
(* As ClhStays, for the keyboard driver.                                      *)
LEMMA UsbStays == ASSUME UNCHANGED usbvars PROVE UNCHANGED Usb!vars
  BY DEF usbvars, Usb!vars
(* As ClhStays, for prodcons.c and barrier.c.                                 *)
LEMMA ProgramsStay ==
  ASSUME UNCHANGED programvars
  PROVE  UNCHANGED Wait!prodconsvars /\ UNCHANGED Wait!barriervars
  BY DEF programvars, Wait!prodconsvars, Wait!barriervars

(* A thread that calls or goes on in acquire or release takes a step of its   *)
(* lock and leaves the others alone.                                          *)
LEMMA LockMoves ==
  ASSUME NEW t \in Threads,
         \/ TicketMoves(DrawTicket(t)) \/ TicketMoves(Step(t))
         \/ ClhMoves(Clh!create_thread(t)) \/ ClhMoves(Clh!dispose_thread(t))
         \/ ClhMoves(Clh!MarkNode(t)) \/ ClhMoves(Clh!Step(t))
         \/ CohortMoves(Cohort!Announce(t)) \/ CohortMoves(Cohort!Step(t))
         \/ FutexMoves(Futex!Call(t)) \/ FutexMoves(Futex!Step(t))
  PROVE  EachSteps
<1>1. CASE TicketMoves(DrawTicket(t)) \/ TicketMoves(Step(t))
  <2>1. /\ Next
        /\ UNCHANGED <<which, clhvars, cohortvars, futexvars, monitorvars, usbvars, programvars>>
    BY <1>1, Zenon DEF TicketMoves, Next
  <2>2. /\ UNCHANGED clhvars /\ UNCHANGED cohortvars /\ UNCHANGED futexvars
        /\ UNCHANGED usbvars /\ UNCHANGED programvars
    BY <2>1
  <2> QED
    BY <2>1, <2>2, ClhStays, CohortStays, FutexStays, UsbStays, ProgramsStay DEF EachSteps
<1>2. CASE \/ ClhMoves(Clh!create_thread(t)) \/ ClhMoves(Clh!dispose_thread(t))
           \/ ClhMoves(Clh!MarkNode(t)) \/ ClhMoves(Clh!Step(t))
  <2>1. /\ Clh!Next
        /\ UNCHANGED <<which, vars, cohortvars, futexvars, monitorvars, usbvars, programvars>>
    BY <1>2, Zenon DEF ClhMoves, Clh!Next
  <2>2. /\ UNCHANGED vars /\ UNCHANGED cohortvars /\ UNCHANGED futexvars
        /\ UNCHANGED usbvars /\ UNCHANGED programvars
    BY <2>1
  <2> QED
    BY <2>1, <2>2, CohortStays, FutexStays, UsbStays, ProgramsStay DEF EachSteps
<1>3. CASE CohortMoves(Cohort!Announce(t)) \/ CohortMoves(Cohort!Step(t))
  <2>1. /\ Cohort!Next
        /\ UNCHANGED <<which, vars, clhvars, futexvars, monitorvars, usbvars, programvars>>
    BY <1>3, Zenon DEF CohortMoves, Cohort!Next
  <2>2. /\ UNCHANGED vars /\ UNCHANGED clhvars /\ UNCHANGED futexvars
        /\ UNCHANGED usbvars /\ UNCHANGED programvars
    BY <2>1
  <2> QED
    BY <2>1, <2>2, ClhStays, FutexStays, UsbStays, ProgramsStay DEF EachSteps
<1>4. CASE FutexMoves(Futex!Call(t)) \/ FutexMoves(Futex!Step(t))
  <2>1. /\ Futex!Next
        /\ UNCHANGED <<which, vars, clhvars, cohortvars, monitorvars, usbvars, programvars>>
    BY <1>4, Zenon DEF FutexMoves, Futex!Next
  <2>2. /\ UNCHANGED vars /\ UNCHANGED clhvars /\ UNCHANGED cohortvars
        /\ UNCHANGED usbvars /\ UNCHANGED programvars
    BY <2>1
  <2> QED
    BY <2>1, <2>2, ClhStays, CohortStays, UsbStays, ProgramsStay DEF EachSteps
<1> QED
  BY <1>1, <1>2, <1>3, <1>4

\* all but the programs of WaitingPrograms keep still
OthersStay == UNCHANGED <<which, lockvars, monitorvars, usbvars>>

(* A step of one of the programs leaves the locks and the driver alone.       *)
LEMMA ProgramMoves ==
  ASSUME OthersStay,
         /\ [Wait!sends \/ Wait!main_term_scope]_(Wait!prodconsvars)
         /\ [\E t \in Wait!Both : Wait!barrier_step(t)]_(Wait!barriervars)
  PROVE  EachSteps
<1>1. UNCHANGED lockvars /\ UNCHANGED usbvars
  BY DEF OthersStay
<1> QED
  BY <1>1, LocksStay, UsbStays DEF EachSteps

(* A step of one of the programs is one of prodcons.c, of barrier.c or of     *)
(* neither.                                                                   *)
LEMMA WaitSteps ==
  ASSUME \/ \E n \in 1..3 : Program(n)
         \/ WaitMoves("echo", Wait!receive)
  PROVE  EachSteps
<1>1. CASE \/ WaitMoves("mutex_barrier", Wait!barrier_step("thread1"))
           \/ WaitMoves("mutex_barrier", Wait!barrier_step("thread2"))
  <2>1. PICK t \in Wait!Both : WaitMoves("mutex_barrier", Wait!barrier_step(t))
    BY <1>1 DEF Wait!Both
  <2>2. OthersStay /\ Wait!barrier_step(t)
    BY <2>1, Zenon DEF WaitMoves, OthersStay
  <2>3. UNCHANGED Wait!others
    BY <2>2 DEF Wait!barrier_step, Wait!Enter, Wait!Leave, Wait!barrier_thread1,
                Wait!barrier_thread2, Wait!Runs
  <2>4. UNCHANGED Wait!prodconsvars
    BY <2>3 DEF Wait!others
  <2> QED
    BY <2>2, <2>4, ProgramMoves
<1>2. CASE WaitMoves("prodcons", Wait!sends) \/ WaitMoves("prodcons", Wait!main_term_scope)
  <2>1. OthersStay /\ (Wait!sends \/ Wait!main_term_scope)
    BY <1>2, Zenon DEF WaitMoves, OthersStay
  <2>2. UNCHANGED <<Wait!trickyvars, Wait!fifovars, Wait!echovars, Wait!barriervars>>
    BY <2>1, Zenon DEF Wait!sends, Wait!main_term_scope, Wait!mutex_acquire, Wait!Enqueue,
       Wait!Release, Wait!sema_acquire, Wait!Dequeue, Wait!channel_dispose, Wait!Goes
  <2>3. UNCHANGED Wait!barriervars
    BY <2>2
  <2> QED
    BY <2>1, <2>3, ProgramMoves
<1>3. CASE WaitMoves("tricky", Wait!thread1 \/ Wait!thread2 \/ Wait!main)
  <2>1. OthersStay /\ (Wait!thread1 \/ Wait!thread2 \/ Wait!main)
    BY <1>3, Zenon DEF WaitMoves, OthersStay
  <2>2. UNCHANGED <<Wait!prodconsvars, Wait!fifovars, Wait!echovars, Wait!barriervars>>
    BY <2>1, Zenon DEF Wait!thread1, Wait!thread2, Wait!main, Wait!spinlock_acquire,
       Wait!spinlock_release, Wait!Goto
  <2>3. UNCHANGED Wait!prodconsvars /\ UNCHANGED Wait!barriervars
    BY <2>2
  <2> QED
    BY <2>1, <2>3, ProgramMoves
<1>4. CASE \/ WaitMoves("fifo", Wait!producer \/ Wait!consumer)
           \/ WaitMoves("echo", Wait!Put \/ Wait!Take \/ Wait!send \/ Wait!receive)
  <2>1. OthersStay /\ \/ Wait!producer \/ Wait!consumer
                      \/ Wait!Put \/ Wait!Take \/ Wait!send \/ Wait!receive
    BY <1>4, Zenon DEF WaitMoves, OthersStay
  <2>2. UNCHANGED Wait!prodconsvars /\ UNCHANGED Wait!barriervars
    BY <2>1 DEF Wait!producer, Wait!consumer, Wait!Put, Wait!Take, Wait!send, Wait!receive
  <2> QED
    BY <2>1, <2>2, ProgramMoves
<1> QED
  BY <1>1, <1>2, <1>3, <1>4, Zenon DEF Program, WaitMoves

(* A step of the model is a step, or none, of each of the constructs.         *)
LEMMA SyncStep == ASSUME [SyncNext]_syncvars PROVE EachSteps
<1>1. CASE \E t \in AllThreads : Begin(t) \/ Continue(t)
  <2>1. PICK t \in AllThreads : Begin(t) \/ Continue(t)
    BY <1>1
  <2>2. CASE MonitorMoves(Mon!Step(t))
    <3>1. UNCHANGED <<which, lockvars, usbvars, programvars>>
      BY <2>2, Zenon DEF MonitorMoves
    <3>2. UNCHANGED lockvars /\ UNCHANGED usbvars /\ UNCHANGED programvars
      BY <3>1
    <3> QED
      BY <3>2, LocksStay, UsbStays, ProgramsStay DEF EachSteps
  <2>3. CASE ~MonitorMoves(Mon!Step(t))
    <3>1. t \in Threads
      BY <2>1, <2>3, Zenon DEF Begin, Continue
    <3> QED
      BY <2>1, <2>3, <3>1, LockMoves, Zenon DEF Begin, Continue
  <2> QED
    BY <2>2, <2>3
<1>2. CASE UsbMoves(Usb!Next)
  <2>1. Usb!Next /\ UNCHANGED <<which, lockvars, monitorvars, programvars>>
    BY <1>2, Zenon DEF UsbMoves
  <2>2. UNCHANGED lockvars /\ UNCHANGED programvars
    BY <2>1
  <2> QED
    BY <2>1, <2>2, LocksStay, ProgramsStay DEF EachSteps
<1>3. CASE (\E n \in 1..3 : Program(n)) \/ WaitMoves("echo", Wait!receive)
  BY <1>3, WaitSteps
<1>4. CASE UNCHANGED syncvars
  <2>1. UNCHANGED lockvars /\ UNCHANGED usbvars /\ UNCHANGED programvars
    BY <1>4 DEF syncvars
  <2> QED
    BY <2>1, LocksStay, UsbStays, ProgramsStay DEF EachSteps
<1> QED
  BY <1>1, <1>2, <1>3, <1>4, Zenon DEF SyncNext

----------------------------------------------------------------------------
(* What the two modules prove is about the definitions MCSync uses.           *)

FifoP == INSTANCE FifoLockProofs
ConP == INSTANCE ConstructProofs WITH pc <- cohortpc

(* The keyboard driver of ConstructProofs is that of MCSync.                  *)
LEMMA UsbSame ==
  /\ Usb!Init = ConP!Usb!Init
  /\ Usb!Next = ConP!Usb!Next
  /\ Usb!Quiet = ConP!Usb!Quiet
  BY Zenon DEF Usb!vars, Usb!ledvars, Usb!urbvars, Usb!Urbs, Usb!Tables,
      Usb!Buffers, Usb!Mem, Usb!Init, Usb!Uses, Usb!Submits, Usb!Resubmitted,
      Usb!Complete, Usb!Acted, Usb!Return, Usb!StartKill, Usb!Killed,
      Usb!usb_kbd_irq, Usb!SendLeds, Usb!usb_kbd_led, Usb!usb_kbd_event,
      Usb!usb_kbd_open, Usb!Close, Usb!usb_kbd_close, Usb!Closed,
      Usb!usb_kbd_probe, Usb!Register, Usb!usb_kbd_free_mem, Usb!Fail,
      Usb!usb_kbd_disconnect, Usb!KilledIrq, Usb!Unregister, Usb!UnregisterCloses,
      Usb!Unregistered, Usb!KilledLed, Usb!Free, Usb!usb_kbd_init,
      Usb!usb_kbd_exit, Usb!Deregistered, Usb!Free_to_begin, Usb!Goes_on,
      Usb!Completes, Usb!Next, Usb!Quiet, ConP!Usb!vars, ConP!Usb!ledvars,
      ConP!Usb!urbvars, ConP!Usb!Urbs, ConP!Usb!Tables, ConP!Usb!Buffers,
      ConP!Usb!Mem, ConP!Usb!Init, ConP!Usb!Uses, ConP!Usb!Submits,
      ConP!Usb!Resubmitted, ConP!Usb!Complete, ConP!Usb!Acted,
      ConP!Usb!Return, ConP!Usb!StartKill, ConP!Usb!Killed,
      ConP!Usb!usb_kbd_irq, ConP!Usb!SendLeds, ConP!Usb!usb_kbd_led,
      ConP!Usb!usb_kbd_event, ConP!Usb!usb_kbd_open, ConP!Usb!Close,
      ConP!Usb!usb_kbd_close, ConP!Usb!Closed, ConP!Usb!usb_kbd_probe,
      ConP!Usb!Register, ConP!Usb!usb_kbd_free_mem, ConP!Usb!Fail,
      ConP!Usb!usb_kbd_disconnect, ConP!Usb!KilledIrq, ConP!Usb!Unregister,
      ConP!Usb!UnregisterCloses, ConP!Usb!Unregistered, ConP!Usb!KilledLed,
      ConP!Usb!Free, ConP!Usb!usb_kbd_init, ConP!Usb!usb_kbd_exit,
      ConP!Usb!Deregistered, ConP!Usb!Free_to_begin, ConP!Usb!Goes_on,
      ConP!Usb!Completes, ConP!Usb!Next, ConP!Usb!Quiet

(* And so are the cohort lock                                                 *)
LEMMA CohortSame ==
  /\ Cohort!Init = ConP!Init
  /\ Cohort!Next = ConP!Next
  /\ Cohort!Phase = ConP!Phase
  BY Zenon DEF Cohort!locals, Cohort!vars, Cohort!Init, Cohort!Goto,
      Cohort!Announce, Cohort!JoinCohort, Cohort!EnterCohort, Cohort!Withdraw,
      Cohort!JoinShared, Cohort!EnterShared, Cohort!Passes,
      Cohort!DecidePassing, Cohort!LeaveShared, Cohort!LeaveCohort,
      Cohort!Step, Cohort!Next, Cohort!Phase, ConP!locals, ConP!vars,
      ConP!Init, ConP!Goto, ConP!Announce, ConP!JoinCohort, ConP!EnterCohort,
      ConP!Withdraw, ConP!JoinShared, ConP!EnterShared, ConP!Passes,
      ConP!DecidePassing, ConP!LeaveShared, ConP!LeaveCohort, ConP!Step,
      ConP!Next, ConP!Phase, Cohort!Lock!Init, Cohort!Lock!Join,
      Cohort!Lock!MayEnter, Cohort!Lock!Enter, Cohort!Lock!Leave,
      Cohort!Lock!Next, ConP!Lock!Init, ConP!Lock!Join, ConP!Lock!MayEnter,
      ConP!Lock!Enter, ConP!Lock!Leave, ConP!Lock!Next

(* and its abstract lock,                                                     *)
LEMMA CohortAbsSame ==
  /\ CohortAbs!Init = ConP!LockAbs!Init
  /\ CohortAbs!Next = ConP!LockAbs!Next
  BY Zenon DEF CohortAbs!Init, CohortAbs!Call, CohortAbs!Enter,
      CohortAbs!Leave, CohortAbs!Next, ConP!LockAbs!Init, ConP!LockAbs!Call,
      ConP!LockAbs!Enter, ConP!LockAbs!Leave, ConP!LockAbs!Next, Cohort!Phase,
      ConP!Phase

(* the futex mutex                                                            *)
LEMMA FutexSame ==
  /\ Futex!Init = ConP!Futex!Init
  /\ Futex!Next = ConP!Futex!Next
  /\ Futex!Phase = ConP!Futex!Phase
  BY Zenon DEF Futex!vars, Futex!Init, Futex!Call, Futex!CompareAndSet,
      Futex!Wait, Futex!Store, Futex!Wake, Futex!Step, Futex!Next,
      Futex!Phase, ConP!Futex!vars, ConP!Futex!Init, ConP!Futex!Call,
      ConP!Futex!CompareAndSet, ConP!Futex!Wait, ConP!Futex!Store,
      ConP!Futex!Wake, ConP!Futex!Step, ConP!Futex!Next, ConP!Futex!Phase

(* and its abstract lock,                                                     *)
LEMMA FutexAbsSame ==
  /\ FutexAbs!Init = ConP!FutexAbs!Init
  /\ FutexAbs!Next = ConP!FutexAbs!Next
  BY Zenon DEF FutexAbs!Init, FutexAbs!Call, FutexAbs!Enter, FutexAbs!Leave,
      FutexAbs!Next, ConP!FutexAbs!Init, ConP!FutexAbs!Call,
      ConP!FutexAbs!Enter, ConP!FutexAbs!Leave, ConP!FutexAbs!Next,
      Futex!Phase, ConP!Futex!Phase

(* the CLH lock                                                               *)
LEMMA ClhSame ==
  /\ Clh!Init = FifoP!Clh!Init
  /\ Clh!Next = FifoP!Clh!Next
  /\ Clh!Queue = FifoP!Clh!Queue
  /\ Clh!Taken = FifoP!Clh!Taken
  BY Zenon DEF Clh!vars, Clh!Sentinel, Clh!Init, Clh!create_thread,
      Clh!dispose_thread, Clh!MarkNode, Clh!Exchange, Clh!SeeUnlocked,
      Clh!Unlock, Clh!Recycle, Clh!Step, Clh!Next, Clh!Active, Clh!Place,
      Clh!Queue, Clh!Taken, Clh!Cardinality, FifoP!Clh!vars,
      FifoP!Clh!Sentinel, FifoP!Clh!Init, FifoP!Clh!create_thread,
      FifoP!Clh!dispose_thread, FifoP!Clh!MarkNode, FifoP!Clh!Exchange,
      FifoP!Clh!SeeUnlocked, FifoP!Clh!Unlock, FifoP!Clh!Recycle,
      FifoP!Clh!Step, FifoP!Clh!Next, FifoP!Clh!Active, FifoP!Clh!Place,
      FifoP!Clh!Queue, FifoP!Clh!Taken, FifoP!Clh!Cardinality

(* and its abstract queue,                                                    *)
LEMMA ClhAbsSame ==
  /\ ClhFifo!Init = FifoP!ClhFifo!Init
  /\ ClhFifo!Next = FifoP!ClhFifo!Next
  BY Zenon DEF ClhFifo!Init, ClhFifo!Join, ClhFifo!MayEnter, ClhFifo!Enter,
      ClhFifo!Leave, ClhFifo!Next, FifoP!ClhFifo!Init, FifoP!ClhFifo!Join,
      FifoP!ClhFifo!MayEnter, FifoP!ClhFifo!Enter, FifoP!ClhFifo!Leave,
      FifoP!ClhFifo!Next, Clh!Queue, Clh!Taken, Clh!Active, Clh!Place,
      Clh!Cardinality, FifoP!Clh!Queue, FifoP!Clh!Taken, FifoP!Clh!Active,
      FifoP!Clh!Place, FifoP!Clh!Cardinality

(* the ticket lock                                                            *)
LEMMA TicketSame ==
  /\ Init = FifoP!Init
  /\ Next = FifoP!Next
  /\ Phase = FifoP!Phase
  /\ Queue = FifoP!Queue
  /\ Inside = FifoP!Inside
  BY Zenon DEF vars, PlusOne, Init, DrawTicket, SeeTurn, LoadOwner,
      StoreOwner, Step, Next, Distance, Active, Inside, Queue, Phase,
      Cardinality, FifoP!vars, FifoP!PlusOne, FifoP!Init, FifoP!DrawTicket,
      FifoP!SeeTurn, FifoP!LoadOwner, FifoP!StoreOwner, FifoP!Step,
      FifoP!Next, FifoP!Distance, FifoP!Active, FifoP!Inside, FifoP!Queue,
      FifoP!Phase, FifoP!Cardinality

(* and its abstract lock and queue,                                           *)
LEMMA TicketAbsSame ==
  /\ TicketAbs!Init = FifoP!LockAbs!Init
  /\ TicketAbs!Next = FifoP!LockAbs!Next
  /\ TicketFifo!Init = FifoP!FifoAbs!Init
  /\ TicketFifo!Next = FifoP!FifoAbs!Next
  BY Zenon DEF TicketAbs!Init, TicketAbs!Call, TicketAbs!Enter,
      TicketAbs!Leave, TicketAbs!Next, FifoP!LockAbs!Init, FifoP!LockAbs!Call,
      FifoP!LockAbs!Enter, FifoP!LockAbs!Leave, FifoP!LockAbs!Next,
      TicketFifo!Init, TicketFifo!Join, TicketFifo!MayEnter, TicketFifo!Enter,
      TicketFifo!Leave, TicketFifo!Next, FifoP!FifoAbs!Init,
      FifoP!FifoAbs!Join, FifoP!FifoAbs!MayEnter, FifoP!FifoAbs!Enter,
      FifoP!FifoAbs!Leave, FifoP!FifoAbs!Next, Phase, Queue, Inside, Active,
      Distance, Cardinality, FifoP!Phase, FifoP!Queue, FifoP!Inside,
      FifoP!Active, FifoP!Distance, FifoP!Cardinality

(* prodcons.c,                                                                *)
LEMMA ProdconsSame ==
  /\ Wait!ProdconsInit = ConP!Wait!ProdconsInit
  /\ Wait!sends = ConP!Wait!sends
  /\ Wait!main_term_scope = ConP!Wait!main_term_scope
  BY Zenon DEF Wait!ProdconsInit, Wait!prodconsvars, Wait!trickyvars,
      Wait!fifovars, Wait!echovars, Wait!barriervars, Wait!Parties, Wait!Goes,
      Wait!Uses, Wait!mutex_acquire, Wait!Enqueue, Wait!Release, Wait!sends,
      Wait!sema_acquire, Wait!Dequeue, Wait!channel_dispose,
      Wait!main_term_scope, ConP!Wait!ProdconsInit, ConP!Wait!prodconsvars,
      ConP!Wait!trickyvars, ConP!Wait!fifovars, ConP!Wait!echovars,
      ConP!Wait!barriervars, ConP!Wait!Parties, ConP!Wait!Goes,
      ConP!Wait!Uses, ConP!Wait!mutex_acquire, ConP!Wait!Enqueue,
      ConP!Wait!Release, ConP!Wait!sends, ConP!Wait!sema_acquire,
      ConP!Wait!Dequeue, ConP!Wait!channel_dispose, ConP!Wait!main_term_scope

(* and barrier.c.                                                             *)
LEMMA BarrierSame ==
  /\ Wait!BarrierInit = ConP!Wait!BarrierInit
  /\ Wait!Both = ConP!Wait!Both
  /\ Wait!NoRace = ConP!Wait!NoRace
  /\ \A t : Wait!barrier_step(t) = ConP!Wait!barrier_step(t)
  BY Zenon DEF Wait!BarrierInit, Wait!prodconsvars, Wait!trickyvars,
      Wait!fifovars, Wait!echovars, Wait!barriervars, Wait!others, Wait!Both,
      Wait!n, Wait!Enter, Wait!Leave, Wait!Runs, Wait!barrier_thread1,
      Wait!barrier_thread2, Wait!barrier_step, Wait!Reads, Wait!Writes,
      Wait!NoRace, ConP!Wait!BarrierInit, ConP!Wait!prodconsvars,
      ConP!Wait!trickyvars, ConP!Wait!fifovars, ConP!Wait!echovars,
      ConP!Wait!barriervars, ConP!Wait!others, ConP!Wait!Both, ConP!Wait!n,
      ConP!Wait!Enter, ConP!Wait!Leave, ConP!Wait!Runs,
      ConP!Wait!barrier_thread1, ConP!Wait!barrier_thread2,
      ConP!Wait!barrier_step, ConP!Wait!Reads, ConP!Wait!Writes,
      ConP!Wait!NoRace

(* SafeAccess, for any number of threads, nodes, LED values, messages and     *)
(* rounds: the USB driver, prodcons.c, barrier.c and the CLH lock use nothing *)
(* that was freed and have no race.                                           *)
THEOREM AccessIsSafe == SyncSpec => []SafeAccess
<1>1. SyncInit => /\ ConP!Usb!Init /\ ConP!Wait!ProdconsInit /\ ConP!Wait!BarrierInit
                  /\ FifoP!Clh!Init
  BY UsbSame, ProdconsSame, BarrierSame, ClhSame, Zenon DEF SyncInit, Wait!Init
<1>2. [SyncNext]_syncvars =>
        /\ [ConP!Usb!Next]_(ConP!Usb!vars)
        /\ [ConP!Wait!sends \/ ConP!Wait!main_term_scope]_(ConP!Wait!prodconsvars)
        /\ [\E t \in ConP!Wait!Both : ConP!Wait!barrier_step(t)]_(ConP!Wait!barriervars)
        /\ [FifoP!Clh!Next]_(FifoP!clhvars)
  <2> SUFFICES ASSUME [SyncNext]_syncvars
               PROVE  /\ [ConP!Usb!Next]_(ConP!Usb!vars)
                      /\ [ConP!Wait!sends \/ ConP!Wait!main_term_scope]_(ConP!Wait!prodconsvars)
                      /\ [\E t \in ConP!Wait!Both : ConP!Wait!barrier_step(t)]_(ConP!Wait!barriervars)
                      /\ [FifoP!Clh!Next]_(FifoP!clhvars)
    OBVIOUS
  <2>1. [ConP!Usb!Next]_(ConP!Usb!vars)
    BY SyncStep, UsbSame, Zenon DEF EachSteps, Usb!vars, ConP!Usb!vars
  <2>2. [ConP!Wait!sends \/ ConP!Wait!main_term_scope]_(ConP!Wait!prodconsvars)
    BY SyncStep, ProdconsSame, Zenon DEF EachSteps, Wait!prodconsvars, ConP!Wait!prodconsvars
  <2>3. [\E t \in ConP!Wait!Both : ConP!Wait!barrier_step(t)]_(ConP!Wait!barriervars)
    BY SyncStep, BarrierSame, Zenon DEF EachSteps, Wait!barriervars, ConP!Wait!barriervars
  <2>4. [FifoP!Clh!Next]_(FifoP!clhvars)
    BY SyncStep, ClhSame, Zenon DEF EachSteps, Clh!vars, FifoP!clhvars
  <2> QED
    BY <2>1, <2>2, <2>3, <2>4
<1>3. /\ ConP!Usb!Init /\ [][ConP!Usb!Next]_(ConP!Usb!vars) => []ConP!UsbSafe
      /\ ConP!Wait!BarrierInit
           /\ [][\E t \in ConP!Wait!Both : ConP!Wait!barrier_step(t)]_(ConP!Wait!barriervars)
         => []ConP!Wait!NoRace
  BY ConP!UsbDriverSafe, ConP!BarrierRaceFree
<1>4. ConP!Wait!ProdconsInit
        /\ [][ConP!Wait!sends \/ ConP!Wait!main_term_scope]_(ConP!Wait!prodconsvars)
      => [](pfault = FALSE)
  BY ConP!ChannelSafe, SyncAssumption
<1>5. FifoP!Clh!Init /\ [][FifoP!Clh!Next]_(FifoP!clhvars)
      => []FifoP!NoFreedNodeRead
  BY FifoP!ClhReadsAllocated, SyncAssumption, TicketsSuffice
     DEF IsFiniteSet, FifoP!IsFiniteSet, Cardinality, FifoP!Cardinality
<1>6. /\ ConP!UsbSafe /\ ConP!Wait!NoRace /\ pfault = FALSE
      /\ FifoP!NoFreedNodeRead
      => SafeAccess
  BY UsbSame, BarrierSame, Zenon DEF ConP!UsbSafe, FifoP!NoFreedNodeRead, SafeAccess
<1> QED
  BY <1>1, <1>2, <1>3, <1>4, <1>5, <1>6, PTL DEF SyncSpec

(* The ticket lock satisfies Lock and FifoLock, the CLH lock FifoLock, the    *)
(* cohort lock and the futex mutex Lock: for any finite number of threads, a  *)
(* counter that has a value for each of them, any set of nodes that is not    *)
(* empty, any cohorts and any MAX_PASS_COUNT.                                 *)
THEOREM LocksRefine == SyncSpec => LocksImplement
<1>1. SyncInit => FifoP!Init /\ FifoP!Clh!Init /\ ConP!Init /\ ConP!Futex!Init
  BY TicketSame, ClhSame, CohortSame, FutexSame, Zenon DEF SyncInit
<1>2. ASSUME [SyncNext]_syncvars
      PROVE  /\ [FifoP!Next]_(FifoP!vars) /\ [FifoP!Clh!Next]_(FifoP!clhvars)
             /\ [ConP!Next]_(ConP!vars) /\ [ConP!Futex!Next]_(ConP!futexvars)
  <2>1. [FifoP!Next]_(FifoP!vars)
    BY <1>2, SyncStep, TicketSame, Zenon DEF EachSteps, vars, FifoP!vars
  <2>2. [FifoP!Clh!Next]_(FifoP!clhvars)
    BY <1>2, SyncStep, ClhSame, Zenon DEF EachSteps, Clh!vars, FifoP!clhvars
  <2>3. [ConP!Next]_(ConP!vars)
    BY <1>2, SyncStep, CohortSame, Zenon
       DEF EachSteps, Cohort!vars, Cohort!locals, ConP!vars, ConP!locals
  <2>4. [ConP!Futex!Next]_(ConP!futexvars)
    BY <1>2, SyncStep, FutexSame, Zenon DEF EachSteps, Futex!vars, ConP!futexvars
  <2> QED
    BY <2>1, <2>2, <2>3, <2>4
<1>3. FifoP!Spec => FifoP!LockAbs!Spec /\ FifoP!FifoAbs!Spec
  BY FifoP!Refinement, FifoP!FifoRefinement, TicketsSuffice
     DEF IsFiniteSet, FifoP!IsFiniteSet, Cardinality, FifoP!Cardinality
<1>4. FifoP!Clh!Init /\ [][FifoP!Clh!Next]_(FifoP!clhvars) => FifoP!ClhFifo!Spec
  BY FifoP!ClhRefinement, SyncAssumption, TicketsSuffice
     DEF IsFiniteSet, FifoP!IsFiniteSet, Cardinality, FifoP!Cardinality
<1>5. ConP!Distinct
  BY SyncAssumption DEF ConP!Distinct
<1>6. ConP!Spec => ConP!LockAbs!Spec
  BY <1>5, ConP!Refinement
<1>7. ConP!Futex!Init /\ [][ConP!Futex!Next]_(ConP!futexvars) => ConP!FutexAbs!Spec
  BY ConP!FutexRefinement
<1>8. FifoP!LockAbs!Spec => TicketAbs!Spec
  <2>1. FifoP!LockAbs!Init => TicketAbs!Init
    BY TicketAbsSame
  <2>2. [FifoP!LockAbs!Next]_(FifoP!Phase) => [TicketAbs!Next]_Phase
    BY TicketAbsSame, Zenon DEF Phase, FifoP!Phase
  <2> QED
    BY <2>1, <2>2, PTL DEF FifoP!LockAbs!Spec, TicketAbs!Spec
<1>9. FifoP!FifoAbs!Spec => TicketFifo!Spec
  <2>1. FifoP!FifoAbs!Init => TicketFifo!Init
    BY TicketAbsSame
  <2>2. [FifoP!FifoAbs!Next]_<<[l \in {0} |-> FifoP!Queue], [l \in {0} |-> FifoP!Inside # {}]>>
        => [TicketFifo!Next]_<<[l \in {0} |-> Queue], [l \in {0} |-> Inside # {}]>>
    BY TicketAbsSame, Zenon
       DEF Queue, Inside, Active, Distance, Cardinality,
           FifoP!Queue, FifoP!Inside, FifoP!Active, FifoP!Distance, FifoP!Cardinality
  <2> QED
    BY <2>1, <2>2, PTL DEF FifoP!FifoAbs!Spec, TicketFifo!Spec
<1>10. FifoP!ClhFifo!Spec => ClhFifo!Spec
  <2>1. FifoP!ClhFifo!Init => ClhFifo!Init
    BY ClhAbsSame
  <2>2. [FifoP!ClhFifo!Next]_<<[l \in {0} |-> FifoP!Clh!Queue], [l \in {0} |-> FifoP!Clh!Taken]>>
        => [ClhFifo!Next]_<<[l \in {0} |-> Clh!Queue], [l \in {0} |-> Clh!Taken]>>
    BY ClhAbsSame, Zenon
       DEF Clh!Queue, Clh!Taken, Clh!Active, Clh!Place, Clh!Cardinality,
           FifoP!Clh!Queue, FifoP!Clh!Taken, FifoP!Clh!Active, FifoP!Clh!Place,
           FifoP!Clh!Cardinality
  <2> QED
    BY <2>1, <2>2, PTL DEF FifoP!ClhFifo!Spec, ClhFifo!Spec
<1>11. ConP!LockAbs!Spec => CohortAbs!Spec
  <2>1. ConP!LockAbs!Init => CohortAbs!Init
    BY CohortAbsSame
  <2>2. [ConP!LockAbs!Next]_(ConP!Phase) => [CohortAbs!Next]_(Cohort!Phase)
    BY CohortAbsSame, Zenon DEF Cohort!Phase, ConP!Phase
  <2> QED
    BY <2>1, <2>2, PTL DEF ConP!LockAbs!Spec, CohortAbs!Spec
<1>12. ConP!FutexAbs!Spec => FutexAbs!Spec
  <2>1. ConP!FutexAbs!Init => FutexAbs!Init
    BY FutexAbsSame
  <2>2. [ConP!FutexAbs!Next]_(ConP!Futex!Phase) => [FutexAbs!Next]_(Futex!Phase)
    BY FutexAbsSame, Zenon DEF Futex!Phase, ConP!Futex!Phase
  <2> QED
    BY <2>1, <2>2, PTL DEF ConP!FutexAbs!Spec, FutexAbs!Spec
<1>13. SyncSpec => /\ FifoP!Spec /\ FifoP!Clh!Init /\ [][FifoP!Clh!Next]_(FifoP!clhvars)
                   /\ ConP!Spec
                   /\ ConP!Futex!Init /\ [][ConP!Futex!Next]_(ConP!futexvars)
  BY <1>1, <1>2, PTL DEF SyncSpec, FifoP!Spec, ConP!Spec
<1> QED
  BY <1>3, <1>4, <1>6, <1>7, <1>8, <1>9, <1>10, <1>11, <1>12, <1>13, PTL DEF LocksImplement

=============================================================================
