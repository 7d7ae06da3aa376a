----------------------------- MODULE TicketLock -----------------------------
(* The ticket lock of examples/busywaiting/flexiblespecs/ticketlock-stronger/ *)
(* ticketlock_strong.c: acquire draws a ticket from the counter next and spins *)
(* until the counter owner shows it, release advances owner.  The counters are *)
(* C's unsigned long long and wrap around: W is the number of values they have *)
(* (2^64 in the code).  The C code never compares tickets by order, only for   *)
(* equality, so the wrap is harmless as long as there are at most W threads;   *)
(* the annotations of atomics.h reason about counters that never wrap.         *)
EXTENDS Integers, FiniteSets

CONSTANTS Threads, W

ASSUME TicketsSuffice == /\ IsFiniteSet(Threads)
                         /\ W \in Nat \ {0}
                         /\ Cardinality(Threads) <= W

VARIABLES next, owner,          \* the fields of struct ticketlock_strong
          ticket,               \* the local of acquire
          ownerPlusOne,         \* the local of release
          pc                    \* where each thread is

vars == <<next, owner, ticket, ownerPlusOne, pc>>

PlusOne(n) == IF n = W - 1 THEN 0 ELSE n + 1

Init == /\ next = 0
        /\ owner = 0
        /\ ticket = [t \in Threads |-> 0]
        /\ ownerPlusOne = [t \in Threads |-> 0]
        /\ pc = [t \in Threads |-> "out"]

\* ticket = atomic_fetch_and_increment_counter(&lock->next)
DrawTicket(t) == /\ pc[t] = "out"
                 /\ ticket' = [ticket EXCEPT ![t] = next]
                 /\ next' = PlusOne(next)
                 /\ pc' = [pc EXCEPT ![t] = "spin"]
                 /\ UNCHANGED <<owner, ownerPlusOne>>

\* mutant: the loop ends as soon as owner has passed the ticket
SeeTurnByOrder(t) == /\ pc[t] = "spin"
                     /\ owner >= ticket[t]
                     /\ pc' = [pc EXCEPT ![t] = "in"]
                     /\ UNCHANGED <<next, owner, ticket, ownerPlusOne>>

\* the load of owner that ends the loop; a load of another value changes nothing
SeeTurn(t) == /\ pc[t] = "spin"
              /\ owner = ticket[t]
              /\ pc' = [pc EXCEPT ![t] = "in"]
              /\ UNCHANGED <<next, owner, ticket, ownerPlusOne>>

\* release: get_counter_plus_one(&lock->owner) ...
LoadOwner(t) == /\ pc[t] = "in"
                /\ ownerPlusOne' = [ownerPlusOne EXCEPT ![t] = PlusOne(owner)]
                /\ pc' = [pc EXCEPT ![t] = "release"]
                /\ UNCHANGED <<next, owner, ticket>>

\* ... and the store of the result
StoreOwner(t) == /\ pc[t] = "release"
                 /\ owner' = ownerPlusOne[t]
                 /\ pc' = [pc EXCEPT ![t] = "out"]
                 /\ UNCHANGED <<next, ticket, ownerPlusOne>>

\* what the scheduler runs: a thread that has called acquire or release goes on
Step(t) == SeeTurn(t) \/ LoadOwner(t) \/ StoreOwner(t)

Next == \E t \in Threads : DrawTicket(t) \/ Step(t)

Spec == Init /\ [][Next]_vars

----------------------------------------------------------------------------
(* The abstract lock this code implements: the threads that hold a ticket, in *)
(* the order of their distance from owner.                                    *)
Distance(t) == IF ticket[t] >= owner THEN ticket[t] - owner
                                     ELSE ticket[t] - owner + W

Active == {t \in Threads : pc[t] # "out"}

Inside == {t \in Threads : pc[t] \in {"in", "release"}}

Queue == [i \in 1..Cardinality(Active) |->
            CHOOSE t \in Active : Distance(t) = i - 1]

Phase == [t \in Threads |-> CASE pc[t] = "out" -> "out"
                              [] pc[t] = "spin" -> "acquiring"
                              [] OTHER -> "in"]
=============================================================================
