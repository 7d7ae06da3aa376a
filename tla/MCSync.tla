------------------------------- MODULE MCSync -------------------------------
(* The synchronisation constructs of the examples, side by side: a behaviour  *)
(* picks one of them (which) and runs its threads.  Threads call acquire when *)
(* they please; once a thread is inside acquire or release, or holds a lock,  *)
(* it goes on (weak fairness of its steps): the examples' annotations demand  *)
(* of every client that it releases what it holds.                            *)
EXTENDS TicketLock, Sequences, Integers

CONSTANTS Nodes,                       \* of the CLH lock
          Cohorts, Shared, MaxPass,    \* of the cohort lock
          MaxSpurious,                 \* of the futex mutex
          Producers, Consumers, Max,   \* of the bounded buffer
          Readers, Writers,            \* of readers_writers
          Leds, MaxLeaving,            \* of the USB keyboard driver
          Rounds, Messages,            \* of barrier.c and prodcons.c
          Items, Window, Echoes        \* of bounded_fifo.c and echo_live_mt.c

\* the loops of prodcons.c run at least once; the lock that cohorts share is not
\* the lock of one of them
ASSUME SyncAssumption == /\ Messages \in Nat \ {0}
                         /\ Nodes # {}
                         /\ Cohorts # {} /\ Shared \notin Cohorts

VARIABLES which,
          tail, lock, node, pred, allocated, clhpc,
          queue, taken, queueSize, passing, passedCount, cohort, cohortpc,
          held_, spurious, futexpc,
          r, size, aw, ar, ww, waits, monitorpc,
          live, module, usb, registered, input, flight, entered, leaving,
          killers, newleds, leds, led_urb_submitted, shown, lost, fault,
          k, outgoing, bar, i, N, m, mpc,
          mutex, sema, pqueue, disposed, sent, received, ppc, pfault,
          locked, done, d, tpc,
          producerNext, consumerNext, buffer, em, message

Clh == INSTANCE ClhLock WITH pc <- clhpc
Cohort == INSTANCE CohortLock WITH pc <- cohortpc
Futex == INSTANCE FutexMutex WITH pc <- futexpc
Mon == INSTANCE Monitors WITH program <- which, pc <- monitorpc
Usb == INSTANCE UsbKbd
Wait == INSTANCE WaitingPrograms WITH queue <- pqueue, at <- ppc, fault <- pfault,
                                      pc <- mpc

clhvars == <<tail, lock, node, pred, allocated, clhpc>>
cohortvars == <<queue, taken, queueSize, passing, passedCount, cohort, cohortpc>>
futexvars == <<held_, spurious, futexpc>>
monitorvars == <<r, size, aw, ar, ww, waits, monitorpc>>
usbvars == <<live, module, usb, registered, input, flight, entered, leaving,
             killers, newleds, leds, led_urb_submitted, shown, lost, fault>>
programvars == <<mutex, sema, pqueue, disposed, sent, received, ppc, pfault,
                 locked, done, d, tpc, producerNext, consumerNext, buffer, em, message,
                 k, outgoing, bar, i, N, m, mpc>>
lockvars == <<vars, clhvars, cohortvars, futexvars>>
syncvars == <<which, lockvars, monitorvars, usbvars, programvars>>

SyncInit == /\ which \in {"ticket", "clh", "cohort", "futex",
                          "barrier", "bounded_buffer", "readers_writers", "usbkbd",
                          "mutex_barrier", "prodcons", "tricky", "fifo", "echo"}
            /\ Init /\ Clh!Init /\ Cohort!Init /\ Futex!Init
            /\ Mon!Init /\ Usb!Init
            /\ Wait!Init

\* the chosen construct moves, and no other
TicketMoves(A) ==
  /\ which = "ticket" /\ A
  /\ UNCHANGED <<which, clhvars, cohortvars, futexvars, monitorvars, usbvars, programvars>>
ClhMoves(A) ==
  /\ which = "clh" /\ A
  /\ UNCHANGED <<which, vars, cohortvars, futexvars, monitorvars, usbvars, programvars>>
CohortMoves(A) ==
  /\ which = "cohort" /\ A
  /\ UNCHANGED <<which, vars, clhvars, futexvars, monitorvars, usbvars, programvars>>
FutexMoves(A) ==
  /\ which = "futex" /\ A
  /\ UNCHANGED <<which, vars, clhvars, cohortvars, monitorvars, usbvars, programvars>>
MonitorMoves(A) ==
  /\ A
  /\ UNCHANGED <<which, lockvars, usbvars, programvars>>
UsbMoves(A) ==
  /\ which = "usbkbd" /\ A
  /\ UNCHANGED <<which, lockvars, monitorvars, programvars>>
WaitMoves(program, A) ==
  /\ which = program /\ A
  /\ UNCHANGED <<which, lockvars, monitorvars, usbvars>>

AllThreads == Threads \cup Producers \cup Consumers \cup Readers \cup Writers

\* a call of acquire, or of another function that a client is free not to call
Begin(t) ==
  /\ t \in Threads
  /\ \/ TicketMoves(DrawTicket(t))
     \/ ClhMoves(Clh!create_thread(t))
     \/ ClhMoves(Clh!dispose_thread(t))
     \/ ClhMoves(Clh!MarkNode(t))
     \/ CohortMoves(Cohort!Announce(t))
     \/ FutexMoves(Futex!Call(t))

\* what a running thread does next
Continue(t) ==
  \/ /\ t \in Threads
     /\ \/ TicketMoves(Step(t)) \/ ClhMoves(Clh!Step(t))
        \/ CohortMoves(Cohort!Step(t)) \/ FutexMoves(Futex!Step(t))
  \/ MonitorMoves(Mon!Step(t))

\* the two or three threads of the other programs
Program(n) ==
  \/ n = 1 /\ \/ WaitMoves("mutex_barrier", Wait!barrier_step("thread1"))
              \/ WaitMoves("prodcons", Wait!sends)
              \/ WaitMoves("tricky", Wait!thread1) \/ WaitMoves("fifo", Wait!producer)
              \/ WaitMoves("echo", Wait!Put)
  \/ n = 2 /\ \/ WaitMoves("mutex_barrier", Wait!barrier_step("thread2"))
              \/ WaitMoves("prodcons", Wait!main_term_scope)
              \/ WaitMoves("tricky", Wait!thread2) \/ WaitMoves("fifo", Wait!consumer)
              \/ WaitMoves("echo", Wait!Take) \/ WaitMoves("echo", Wait!send)
  \/ n = 3 /\ WaitMoves("tricky", Wait!main)

\* the programs that end
MonitorPrograms == {"barrier", "bounded_buffer", "readers_writers"}
Programs == MonitorPrograms \cup {"mutex_barrier", "prodcons", "tricky", "fifo"}
Finished == CASE which \in MonitorPrograms -> \A t \in Mon!Running : monitorpc[t] = "done"
              [] which = "mutex_barrier" -> \A t \in Wait!Both : mpc[t] = "done"
              [] which = "prodcons" -> Wait!Finished
              [] which = "tricky" -> tpc.main = "done"
              [] which = "fifo" -> Wait!Consumed
              [] OTHER -> FALSE

SyncNext == \/ \E t \in AllThreads : Begin(t) \/ Continue(t)
            \/ UsbMoves(Usb!Next)
            \/ \E n \in 1..3 : Program(n)
            \/ WaitMoves("echo", Wait!receive)
            \/ Finished /\ UNCHANGED syncvars

\* in the kernel, a call that waits goes on, a handler returns, and a URB that
\* was unlinked or that a keyboard has only to answer completes
UsbFairness ==
  /\ WF_syncvars(UsbMoves(Usb!Goes_on)) /\ WF_syncvars(UsbMoves(Usb!Closed))
  /\ WF_syncvars(UsbMoves(Usb!usb_kbd_irq))
  /\ WF_syncvars(UsbMoves(Usb!usb_kbd_led))
  /\ \A u \in Usb!Urbs : /\ WF_syncvars(UsbMoves(Usb!Return(u)))
                         /\ WF_syncvars(UsbMoves(Usb!Completes(u)))

SyncSpec == /\ SyncInit /\ [][SyncNext]_syncvars
            /\ \A t \in AllThreads : WF_syncvars(Continue(t))
            /\ UsbFairness
            /\ \A n \in 1..3 : WF_syncvars(Program(n))

----------------------------------------------------------------------------
TicketFifo == INSTANCE FifoLock
                WITH Locks <- {0}, queue <- [l \in {0} |-> Queue],
                     taken <- [l \in {0} |-> Inside # {}]
ClhFifo == INSTANCE FifoLock
             WITH Locks <- {0}, queue <- [l \in {0} |-> Clh!Queue],
                  taken <- [l \in {0} |-> Clh!Taken]
TicketAbs == INSTANCE Lock WITH phase <- Phase
CohortAbs == INSTANCE Lock WITH phase <- Cohort!Phase
FutexAbs == INSTANCE Lock WITH phase <- Futex!Phase

(* Each lock implements its abstract specification.  The ticket lock and the  *)
(* CLH lock let threads in one at a time in the order in which they drew      *)
(* their ticket or exchanged the tail, although counters wrap around and      *)
(* nodes are recycled, freed and allocated again.  The cohort lock, with two  *)
(* levels of locks and a lock handed from one thread to the next, and the     *)
(* futex mutex let one thread in at a time.                                   *)
LocksImplement == /\ TicketAbs!Spec /\ TicketFifo!Spec /\ ClhFifo!Spec
                  /\ CohortAbs!Spec /\ FutexAbs!Spec

(* Every acquire of the ticket, CLH and cohort lock returns: the cohort lock  *)
(* only because of MAX_PASS_COUNT, and the count of members that have         *)
(* announced themselves may be out of date when a release reads it.  Of the   *)
(* threads that wait for the futex mutex some thread gets it: a release       *)
(* between a failed compare-and-set and futex_wait is not missed.             *)
AcquireReturns ==
  /\ \A t \in Threads : /\ pc[t] = "spin" ~> pc[t] = "in"
                        /\ clhpc[t] = "spin" ~> clhpc[t] = "in"
                        /\ Cohort!Phase[t] = "acquiring" ~> cohortpc[t] = "in"
  /\ (\E t \in Threads : Futex!Phase[t] = "acquiring")
       ~> (\E t \in Threads : futexpc[t] = "in")

(* The programs come to their end whatever the schedule: in the monitor       *)
(* programs of examples/monitors no signal is lost, no thread waits for ever  *)
(* and no abort() is reached; the threads of barrier.c do not pass its        *)
(* barrier twice in one round; thread1 of tricky_client.c gets a spinlock     *)
(* that is not fair; producers and consumers do not wait for each other.      *)
(* usb_kbd_exit returns, whatever the keyboard was doing.  And every message  *)
(* that echo_live_mt.c receives it sends.                                     *)
Progress ==
  /\ which \in Programs ~> Finished
  /\ module = "unloading" ~> module = "unloaded"
  /\ \A v \in Echoes : em = v ~> message = v

(* No handler of the keyboard driver uses memory that was freed, no URB is    *)
(* submitted while it is in flight, and once usb_kbd_probe has failed or      *)
(* usb_kbd_disconnect has returned nothing stays allocated and no handler     *)
(* runs, whenever the keyboard is unplugged and whatever fails.  The threads  *)
(* of barrier.c have no data race; prodcons.c receives the messages in the    *)
(* order in which they were sent, and disposes of a channel nobody uses.  No  *)
(* thread of the CLH lock reads a node that                                   *)
(* dispose_clhlock_as_ticketlock_thread has freed.                            *)
SafeAccess == /\ ~fault
              /\ usb = "unbound" => Usb!Quiet
              /\ module = "unloaded" => live = {}
              /\ Wait!NoRace
              /\ ~pfault
              /\ \A t \in Threads : clhpc[t] # "fault"

(* usb_kbd_event and usb_kbd_led: the keyboard comes to show the LEDs of the  *)
(* last event, unless a transfer fails.  An event that finds the URB in       *)
(* flight leaves its LEDs to the completion handler, and neither forgets them *)
(* however the two interleave.                                                *)
LedsFollow ==
  \A v \in Leds : (usb = "bound" /\ newleds = v /\ ~lost)
                    ~> (shown = v \/ newleds # v \/ lost \/ usb # "bound")
=============================================================================
