-------------------------- MODULE WaitingPrograms --------------------------
(* Programs of the examples whose two or three threads wait for each other.   *)
(* examples/termination/concurrent: prodcons.c on top of channels.c, whose    *)
(* channel is a queue, a mutex (mutexes.c: a semaphore that starts at 1) and  *)
(* a semaphore that counts the messages (semas.c).                            *)
(* examples/busywaiting/flexiblespecs/spinlock: a spinlock, which is not      *)
(* fair, and the client tricky_client.c.  examples/busywaiting: two programs  *)
(* that wait by trying again, bounded_fifo.c, whose producer stays less than  *)
(* ten ahead of its consumer, and ioliveness/echo_live_mt.c, whose receiver   *)
(* and sender pass messages through a buffer of one.  examples/barrier.c: a   *)
(* barrier made of a mutex, a count and a flag, and two threads that use it   *)
(* to take turns at reading and writing shared data.  External: semaphores,   *)
(* the sequential queue, and the mutex of mutex.h, whose acquire terminates.  *)
EXTENDS Integers, Sequences

CONSTANTS Messages,           \* the bound of both loops, 10 in prodcons.c
          Items, Window,      \* 100 and 10 in bounded_fifo.c
          Echoes,             \* what receive() can return
          Rounds              \* of the loops of barrier.c

VARIABLES mutex, sema, queue, disposed,   \* the channel of prodcons.c
          sent, received,     \* its loop variables
          at, fault,          \* where each thread is; whether one went wrong
          locked, done, d,    \* of tricky_client.c
          tpc,                \* and where its threads are
          producerNext, consumerNext,     \* of bounded_fifo.c
          buffer, em, message,    \* of echo_live_mt.c; em: m of the receiver
          k, outgoing, bar,   \* the barrier; bar[t]: where t is in barrier()
          i, N, m,            \* d->i, and the loop counters of barrier.c
          pc                  \* what t does when it is out of barrier()

prodconsvars == <<mutex, sema, queue, disposed, sent, received, at, fault>>
trickyvars == <<locked, done, d, tpc>>
fifovars == <<producerNext, consumerNext>>
echovars == <<buffer, em, message>>
barriervars == <<k, outgoing, bar, i, N, m, pc>>

Parties == {"producer", "consumer"}

\* with create_channel
ProdconsInit == /\ mutex = 1 /\ sema = 0 /\ queue = <<>> /\ disposed = FALSE
                /\ sent = 0 /\ received = 0
                /\ at = [t \in Parties |-> IF t = "producer" THEN "lock" ELSE "acquire"]
                /\ fault = FALSE

TrickyInit == /\ locked = 0 /\ done = 0 /\ d = 0
              /\ tpc = [main |-> "store", thread1 |-> "acquire", thread2 |-> "acquire"]

FifoInit == producerNext = Items /\ consumerNext = Items

EchoInit == buffer = 0 /\ em = 0 /\ message = 0

Both == {"thread1", "thread2"}

\* create_barrier(2)
BarrierInit == /\ k = 0 /\ outgoing = FALSE
               /\ bar = [t \in Both |-> "out"]
               /\ i = 0 /\ N = 0 /\ m = 0
               /\ pc = [t \in Both |-> "start"]

Init == ProdconsInit /\ TrickyInit /\ FifoInit /\ EchoInit /\ BarrierInit

-----------------------------------------------------------------------------
(* prodcons.c: the consumer disposes of the channel when it has received all *)
(* messages.                                                                 *)

Goes(t, from, to) == /\ at[t] = from /\ at' = [at EXCEPT ![t] = to]
                     /\ UNCHANGED <<trickyvars, fifovars, echovars, barriervars>>
Uses == fault' = (fault \/ disposed)

mutex_acquire(t, from, to) == /\ Goes(t, from, to) /\ Uses
                              /\ mutex > 0 /\ mutex' = mutex - 1
                              /\ UNCHANGED <<sema, queue, disposed, sent, received>>

\* the queue is used between mutex_acquire and mutex_release
Enqueue == /\ Goes("producer", "enqueue", "release") /\ Uses
           /\ queue' = Append(queue, sent) /\ mutex' = mutex + 1
           /\ UNCHANGED <<sema, disposed, sent, received>>

\* sema_release, and the loop goes on; the last message may be received, and
\* the channel be gone, as soon as it is done
Release == /\ Goes("producer", "release", IF sent + 1 < Messages THEN "lock" ELSE "done")
           /\ Uses
           /\ sema' = sema + 1 /\ sent' = sent + 1
           /\ UNCHANGED <<mutex, queue, disposed, received>>

sends == mutex_acquire("producer", "lock", "enqueue") \/ Enqueue \/ Release

\* mutant: channel_receive does not wait for a message
sema_not_awaited == /\ Goes("consumer", "acquire", "lock") /\ Uses
                    /\ UNCHANGED <<mutex, sema, queue, disposed, sent, received>>

sema_acquire == /\ Goes("consumer", "acquire", "lock") /\ Uses
                /\ sema > 0 /\ sema' = sema - 1
                /\ UNCHANGED <<mutex, queue, disposed, sent, received>>

\* dequeue, mutex_release, and assert(x == (void *)i)
Dequeue ==
  /\ Goes("consumer", "dequeue", IF received + 1 < Messages THEN "acquire" ELSE "dispose")
  /\ fault' = (fault \/ disposed \/ queue = <<>> \/ Head(queue) # received)
  /\ queue' = IF queue = <<>> THEN queue ELSE Tail(queue)
  /\ mutex' = mutex + 1 /\ received' = received + 1
  /\ UNCHANGED <<sema, disposed, sent>>

channel_dispose == /\ Goes("consumer", "dispose", "done")
                   /\ disposed' = TRUE
                   /\ UNCHANGED <<mutex, sema, queue, sent, received, fault>>

main_term_scope == \/ sema_acquire \/ mutex_acquire("consumer", "lock", "dequeue")
                   \/ Dequeue \/ channel_dispose

Finished == at = [t \in Parties |-> "done"]

-----------------------------------------------------------------------------
(* tricky_client.c: thread1 could wait for ever while thread2 takes and      *)
(* releases the lock again and again, were it not for main, which sets done. *)
(* A compare-and-swap that fails changes nothing.                            *)

Goto(t, from, to) == /\ tpc[t] = from /\ tpc' = [tpc EXCEPT ![t] = to]
                     /\ UNCHANGED <<prodconsvars, fifovars, echovars, barriervars>>

\* the compare-and-swap of spinlock_acquire that finds 0
spinlock_acquire(t, to) == /\ Goto(t, "acquire", to)
                           /\ locked = 0 /\ locked' = 1
                           /\ UNCHANGED <<done, d>>

spinlock_release(t, to) == /\ Goto(t, "release", to)
                           /\ locked' = 0
                           /\ UNCHANGED <<done, d>>

thread1 == \/ spinlock_acquire("thread1", "store")
           \/ Goto("thread1", "store", "release") /\ done' = 1 /\ UNCHANGED <<locked, d>>
           \/ spinlock_release("thread1", "done")

thread2 == \/ spinlock_acquire("thread2", "load")
           \/ Goto("thread2", "load", "release") /\ d' = done /\ UNCHANGED <<locked, done>>
           \/ spinlock_release("thread2", IF d = 1 THEN "done" ELSE "acquire")

\* mutant: main leaves it to thread1 to set done
main_without_store == \/ Goto("main", "store", "join") /\ UNCHANGED <<locked, done, d>>
                      \/ /\ tpc.thread1 = "done" /\ tpc.thread2 = "done"
                         /\ Goto("main", "join", "done")
                         /\ UNCHANGED <<locked, done, d>>

\* main joins both threads before it disposes of the lock
main == \/ Goto("main", "store", "join") /\ done' = 1 /\ UNCHANGED <<locked, d>>
        \/ /\ tpc.thread1 = "done" /\ tpc.thread2 = "done"
           /\ Goto("main", "join", "done")
           /\ UNCHANGED <<locked, done, d>>

-----------------------------------------------------------------------------
(* bounded_fifo.c *)

producer == /\ producerNext # 0
            /\ consumerNext - producerNext < Window
            /\ producerNext' = producerNext - 1
            /\ UNCHANGED <<consumerNext, prodconsvars, trickyvars, echovars, barriervars>>

consumer == /\ consumerNext # 0
            /\ producerNext < consumerNext
            /\ consumerNext' = consumerNext - 1
            /\ UNCHANGED <<producerNext, prodconsvars, trickyvars, echovars, barriervars>>

Consumed == producerNext = 0 /\ consumerNext = 0

-----------------------------------------------------------------------------
(* echo_live_mt.c *)

receive == /\ em = 0 /\ em' \in Echoes
           /\ UNCHANGED <<prodconsvars, trickyvars, fifovars, barriervars, buffer, message>>

\* mutant: the receiver does not look whether the buffer is empty
Put_unchecked == /\ em # 0
                 /\ buffer' = em /\ em' = 0
                 /\ UNCHANGED <<prodconsvars, trickyvars, fifovars, barriervars, message>>

\* the receiver's critical section when buffer == 0; otherwise it tries again
Put == /\ em # 0 /\ buffer = 0
       /\ buffer' = em /\ em' = 0
       /\ UNCHANGED <<prodconsvars, trickyvars, fifovars, barriervars, message>>

\* the sender's, when buffer != 0
Take == /\ message = 0 /\ buffer # 0
        /\ message' = buffer /\ buffer' = 0
        /\ UNCHANGED <<prodconsvars, trickyvars, fifovars, barriervars, em>>

send == /\ message # 0 /\ message' = 0
        /\ UNCHANGED <<prodconsvars, trickyvars, fifovars, barriervars, buffer, em>>

-----------------------------------------------------------------------------
(* barrier.c: a round of a loop that releases and acquires the mutex again    *)
(* without effect is a step that is not taken.                                *)

n == 2
others == <<prodconsvars, trickyvars, fifovars, echovars>>

\* mutant: a thread does not wait until all have left the last time
EnterEarly(t) ==
  /\ bar[t] = "enter"
  /\ IF k + 1 = n THEN /\ outgoing' = TRUE /\ bar' = [bar EXCEPT ![t] = "out"]
                       /\ UNCHANGED k
     ELSE /\ k' = k + 1 /\ bar' = [bar EXCEPT ![t] = "wait"]
          /\ UNCHANGED outgoing
  /\ UNCHANGED <<others, i, N, m, pc>>

\* while (barrier->outgoing) has ended; the last to come opens the barrier
Enter(t) ==
  /\ bar[t] = "enter" /\ ~outgoing
  /\ IF k + 1 = n THEN /\ outgoing' = TRUE /\ bar' = [bar EXCEPT ![t] = "out"]
                       /\ UNCHANGED k
     ELSE /\ k' = k + 1 /\ bar' = [bar EXCEPT ![t] = "wait"]
          /\ UNCHANGED outgoing
  /\ UNCHANGED <<others, i, N, m, pc>>

\* while (!barrier->outgoing) has ended; the last to leave closes it again
Leave(t) ==
  /\ bar[t] = "wait" /\ outgoing
  /\ k' = k - 1
  /\ outgoing' = (k' # 0)
  /\ bar' = [bar EXCEPT ![t] = "out"]
  /\ UNCHANGED <<others, i, N, m, pc>>

\* t does its part and calls barrier() again, to go on at next
Runs(t, part, next) == /\ bar[t] = "out" /\ pc[t] = part
                       /\ pc' = [pc EXCEPT ![t] = next]
                       /\ bar' = [bar EXCEPT ![t] = IF next = "done" THEN "out" ELSE "enter"]
                       /\ UNCHANGED <<others, k, outgoing>>

barrier_thread1 ==
  \/ Runs("thread1", "start", "loop1") /\ UNCHANGED <<i, N, m>>
  \/ /\ Runs("thread1", "loop1", IF N < Rounds THEN "write x1" ELSE "end1")
     /\ UNCHANGED <<i, N, m>>
  \/ /\ Runs("thread1", "write x1", "loop1")
     /\ N' = N + 1 /\ i' = N' /\ UNCHANGED m
  \/ Runs("thread1", "end1", "done") /\ i' = 0 /\ UNCHANGED <<N, m>>

barrier_thread2 ==
  \/ Runs("thread2", "start", "loop2") /\ UNCHANGED <<i, N, m>>
  \/ /\ Runs("thread2", "loop2", IF m < Rounds THEN "write x2" ELSE "end2")
     /\ UNCHANGED <<i, N, m>>
  \/ Runs("thread2", "write x2", "read i") /\ UNCHANGED <<i, N, m>>
  \/ /\ m' = i
     /\ Runs("thread2", "read i", IF m' < Rounds THEN "write x2" ELSE "end2")
     /\ UNCHANGED <<i, N>>
  \/ Runs("thread2", "end2", "done") /\ UNCHANGED <<i, N, m>>

barrier_step(t) == \/ Enter(t) \/ Leave(t)
                   \/ t = "thread1" /\ barrier_thread1
                   \/ t = "thread2" /\ barrier_thread2

\* the fields of struct data that a part of a thread reads and writes
Reads(part) == CASE part \in {"loop1", "loop2"} -> {"x1", "x2"}
                 [] part \in {"write x1", "write x2"} -> {"y1", "y2"}
                 [] part = "read i" -> {"i", "x1", "x2"}
                 [] OTHER -> {}
Writes(part) == CASE part = "loop1" -> {"y1"}
                  [] part \in {"loop2", "read i"} -> {"y2"}
                  [] part = "write x1" -> {"x1", "i"}
                  [] part = "write x2" -> {"x2"}
                  [] part = "end1" -> {"i"}
                  [] OTHER -> {}

\* no thread writes a field that another one is using
NoRace == \A t \in Both : \A u \in Both \ {t} :
            bar[t] = "out" /\ bar[u] = "out" =>
              Writes(pc[t]) \cap (Reads(pc[u]) \cup Writes(pc[u])) = {}
=============================================================================
