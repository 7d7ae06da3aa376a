------------------------------ MODULE Monitors ------------------------------
(* The three programs of examples/monitors.  All keep one mutex from          *)
(* mutex_acquire to mutex_release, given up only inside condvar_wait; so what *)
(* a thread does between two such points is one step.  In barrier.c each      *)
(* thread waits until all have arrived.  In bounded_buffer.c producers wait   *)
(* on vf while the queue is full, consumers on ve while it is empty, and each *)
(* signals the other side; the elements are all the same (12), so the queue   *)
(* is its length.  In readers_writers.c readers let waiting writers go first; *)
(* main starts writers for ever, the model has the set Writers.               *)
EXTENDS Naturals, FiniteSets

CONSTANTS Threads,                 \* of barrier.c, which has three
          Producers, Consumers,
          Max,                     \* b->max, 1 in main
          Readers, Writers
VARIABLES program,                 \* the program that runs
          r,                       \* threads that the barrier waits for
          size,                    \* of the queue
          aw, ar, ww,              \* writers and readers at work, writers waiting
          waits, pc

Running == CASE program = "barrier" -> Threads
             [] program = "bounded_buffer" -> Producers \cup Consumers
             [] OTHER -> Readers \cup Writers

\* what each main sets up before it starts the threads
InitBarrier == r = Cardinality(Threads)
InitBuffer == size = 0
InitReadersWriters == aw = 0 /\ ar = 0 /\ ww = 0

Init == /\ InitBarrier /\ InitBuffer /\ InitReadersWriters
        /\ waits = [c \in {"v", "ve", "vf", "vr", "vw"} |-> {}]
        /\ pc = [t \in Running |-> "start"]

Goto(t, to) == pc' = [pc EXCEPT ![t] = to]

----------------------------------------------------------------------------
(* The condition variables of monitors.h, which leaves their implementation   *)
(* to the platform.  waits[c] is the set of threads asleep on c.  A thread    *)
(* that is woken goes on when it gets the mutex, after any number of steps of *)
(* other threads.  As in the header's contracts, no thread wakes unsignalled. *)
Asleep(w, t) == \E c \in DOMAIN w : t \in w[c]

\* condvar_wait(c, m), up to the point where the mutex has been released
Wait(w, c, t) == [w EXCEPT ![c] = @ \cup {t}]

\* condvar_signal(c): one of the threads asleep on c is woken, if there is one
Signal(w, c) == IF w[c] = {} THEN {w}
                    ELSE {[w EXCEPT ![c] = @ \ {t}] : t \in w[c]}

\* condvar_broadcast(c)
Broadcast(w, c) == [w EXCEPT ![c] = {}]

----------------------------------------------------------------------------
(* barrier.c *)

\* wait_barrier, up to its return or its first condvar_wait
Arrive(t) ==
  /\ pc[t] = "start"
  /\ IF r <= 0 THEN /\ Goto(t, "aborted")
                    /\ UNCHANGED <<r, waits>>
     ELSE /\ r' = r - 1
          /\ IF r = 1 THEN /\ waits' = Broadcast(waits, "v")
                           /\ Goto(t, "done")
             ELSE /\ waits' = Wait(waits, "v", t)
                  /\ Goto(t, "waiting")

\* the loop after condvar_wait
Resume(t) ==
  /\ pc[t] = "waiting"
  /\ IF r > 0 THEN /\ waits' = Wait(waits, "v", t)
                   /\ UNCHANGED pc
     ELSE /\ Goto(t, "done")
          /\ UNCHANGED waits
  /\ UNCHANGED r

----------------------------------------------------------------------------
(* bounded_buffer.c *)

\* the loop of consumer from the acquire, or from the return of condvar_wait
consumer(t) ==
  /\ t \in Consumers /\ pc[t] = "start"
  /\ IF size = 0 THEN /\ waits' = Wait(waits, "ve", t)
                      /\ UNCHANGED <<size, pc>>
     ELSE /\ size' = size - 1
          /\ waits' \in Signal(waits, "vf")
          /\ Goto(t, "done")

producer(t) ==
  /\ t \in Producers /\ pc[t] = "start"
  /\ IF size = Max THEN /\ waits' = Wait(waits, "vf", t)
                        /\ UNCHANGED <<size, pc>>
     ELSE /\ size' = size + 1
          /\ waits' \in Signal(waits, "ve")
          /\ Goto(t, "done")

----------------------------------------------------------------------------
(* readers_writers.c *)

\* the loop of writer, when n other writers wait
write_or_wait(t, n) ==
  /\ IF aw + ar > 0 THEN /\ ww' = n + 1
                         /\ waits' = Wait(waits, "vw", t)
                         /\ Goto(t, "waiting")
                         /\ UNCHANGED aw
     ELSE /\ ww' = n
          /\ aw' = aw + 1
          /\ Goto(t, "working")
          /\ UNCHANGED waits
  /\ UNCHANGED ar

writer_start(t) == /\ t \in Writers /\ pc[t] = "start"
                   /\ write_or_wait(t, ww)

\* condvar_wait(b->vw, b->m) has returned
writer_woken(t) ==
  /\ t \in Writers /\ pc[t] = "waiting"
  /\ IF ww = 0 THEN Goto(t, "aborted") /\ UNCHANGED <<aw, ar, ww, waits>>
     ELSE write_or_wait(t, ww - 1)

\* the second critical section of writer
writer_leave(t) ==
  /\ t \in Writers /\ pc[t] = "working"
  /\ IF aw # 1 THEN Goto(t, "aborted") /\ UNCHANGED <<aw, waits>>
     ELSE /\ aw' = 0
          /\ \E w \in Signal(waits, "vw") :
               waits' = IF ww = 0 THEN Broadcast(w, "vr") ELSE w
          /\ Goto(t, "done")
  /\ UNCHANGED <<ar, ww>>

reader_enter(t) ==
  /\ t \in Readers /\ pc[t] = "start"
  /\ IF aw + ww > 0 THEN /\ waits' = Wait(waits, "vr", t)
                         /\ UNCHANGED <<ar, pc>>
     ELSE /\ ar' = ar + 1
          /\ Goto(t, "working")
          /\ UNCHANGED waits
  /\ UNCHANGED <<aw, ww>>

\* the second critical section of reader
reader_leave(t) ==
  /\ t \in Readers /\ pc[t] = "working"
  /\ IF ar < 1 THEN Goto(t, "aborted") /\ UNCHANGED <<ar, waits>>
     ELSE /\ ar' = ar - 1
          /\ waits' \in Signal(waits, "vw")
          /\ Goto(t, "done")
  /\ UNCHANGED <<aw, ww>>

Step(t) ==
  /\ t \in Running /\ ~Asleep(waits, t)
  /\ \/ /\ program = "barrier"
        /\ Arrive(t) \/ Resume(t)
        /\ UNCHANGED <<size, aw, ar, ww>>
     \/ /\ program = "bounded_buffer"
        /\ consumer(t) \/ producer(t)
        /\ UNCHANGED <<r, aw, ar, ww>>
     \/ /\ program = "readers_writers"
        /\ \/ writer_start(t) \/ writer_woken(t) \/ writer_leave(t)
           \/ reader_enter(t) \/ reader_leave(t)
        /\ UNCHANGED <<r, size>>
=============================================================================
