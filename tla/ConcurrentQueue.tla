--------------------------- MODULE ConcurrentQueue ---------------------------
(* The lock-free queue of examples/shared_boxes/concurrentqueue.c, a list of   *)
(* nodes that starts with a sentinel.  tail may lag behind the last node:      *)
(* enqueue does not move it after its own node, and whoever finds it behind    *)
(* moves it on.  Nodes are never freed; they are numbered as they are          *)
(* allocated, 1 being the sentinel, and 0 is the null pointer.                 *)
EXTENDS Naturals, Sequences

CONSTANTS Threads, MaxCalls
VARIABLES head, tail, next, value,     \* next and value: sequences over the nodes
          own,                         \* the node an enqueue has allocated
          h, n,                        \* locals: the head or tail read, its next
          calls, pc, lin

locals == <<own, h, n>>
vars == <<head, tail, next, value, locals, calls, pc, lin>>

\* try_dequeue returns false (0) or a value
Apply(st, op) ==
  IF op[1] = "enqueue" THEN {[st |-> Append(st, op[2]), out |-> 0]}
  ELSE IF st = <<>> THEN {[st |-> st, out |-> 0]}
  ELSE {[st |-> Tail(st), out |-> Head(st)]}

History == INSTANCE Linearization

Init == /\ head = 1 /\ tail = 1
        /\ next = <<0>> /\ value = <<0>>
        /\ own = [t \in Threads |-> 0]
        /\ h = [t \in Threads |-> 0]
        /\ n = [t \in Threads |-> 0]
        /\ calls = [t \in Threads |-> 0]
        /\ pc = [t \in Threads |-> "idle"]
        /\ lin = History!Unused(<<>>)

Begin(t, op) == /\ pc[t] = "idle" /\ calls[t] < MaxCalls
                /\ calls' = [calls EXCEPT ![t] = @ + 1]
                /\ lin' = History!Call(lin, t, op)

Goto(t, to) == pc' = [pc EXCEPT ![t] = to]

\* the call returns and its locals are gone
Return(t, out) == /\ lin' = History!Return(lin, t, out)
                  /\ Goto(t, "idle")
                  /\ own' = [own EXCEPT ![t] = 0]
                  /\ h' = [h EXCEPT ![t] = 0]
                  /\ n' = [n EXCEPT ![t] = 0]

\* enqueue: the new node's value is its number
CallEnqueue(t) ==
  /\ Begin(t, <<"enqueue", Len(next) + 1>>)
  /\ next' = Append(next, 0) /\ value' = Append(value, Len(next) + 1)
  /\ own' = [own EXCEPT ![t] = Len(next) + 1]
  /\ Goto(t, "load_tail")
  /\ UNCHANGED <<head, tail, h, n>>

LoadTail(t) == /\ pc[t] = "load_tail"
               /\ h' = [h EXCEPT ![t] = tail]
               /\ Goto(t, "link")
               /\ UNCHANGED <<head, tail, next, value, own, n, calls, lin>>

\* atomic_compare_and_set_pointer(&t->next, 0, new_node)
Link(t) ==
  /\ pc[t] = "link"
  /\ IF next[h[t]] = 0 THEN next' = [next EXCEPT ![h[t]] = own[t]] /\ Return(t, 0)
     ELSE /\ n' = [n EXCEPT ![t] = next[h[t]]]
          /\ Goto(t, "help")
          /\ UNCHANGED <<next, own, h, lin>>
  /\ UNCHANGED <<head, tail, value, calls>>

\* atomic_compare_and_set_pointer(&q->tail, t, n), and the loop starts over
Help(t) == /\ pc[t] = "help"
           /\ tail' = IF tail = h[t] THEN n[t] ELSE tail
           /\ Goto(t, "load_tail")
           /\ UNCHANGED <<head, next, value, locals, calls, lin>>

\* try_dequeue
CallDequeue(t) == /\ Begin(t, <<"dequeue">>)
                  /\ Goto(t, "load_head")
                  /\ UNCHANGED <<head, tail, next, value, locals>>

LoadHead(t) == /\ pc[t] = "load_head"
               /\ h' = [h EXCEPT ![t] = head]
               /\ Goto(t, "load_next")
               /\ UNCHANGED <<head, tail, next, value, own, n, calls, lin>>

LoadNext(t) ==
  /\ pc[t] = "load_next"
  /\ IF next[h[t]] = 0 THEN Return(t, 0)
     ELSE /\ n' = [n EXCEPT ![t] = next[h[t]]]
          /\ Goto(t, "push_tail")
          /\ UNCHANGED <<own, h, lin>>
  /\ UNCHANGED <<head, tail, next, value, calls>>

\* atomic_compare_and_set_pointer(&q->tail, h, n): tail never stays behind head
PushTail(t) == /\ pc[t] = "push_tail"
               /\ tail' = IF tail = h[t] THEN n[t] ELSE tail
               /\ Goto(t, "unlink")
               /\ UNCHANGED <<head, next, value, locals, calls, lin>>

\* mutant: head is moved on by a plain store
UnlinkBlindly(t) == /\ pc[t] = "unlink"
                    /\ head' = n[t]
                    /\ Goto(t, "load_value")
                    /\ UNCHANGED <<tail, next, value, locals, calls, lin>>

\* atomic_compare_and_set_pointer(&q->head, h, n)
Unlink(t) == /\ pc[t] = "unlink"
             /\ IF head = h[t] THEN head' = n[t] /\ Goto(t, "load_value")
                ELSE Goto(t, "load_head") /\ UNCHANGED head
             /\ UNCHANGED <<tail, next, value, locals, calls, lin>>

LoadValue(t) == /\ pc[t] = "load_value"
                /\ Return(t, value[n[t]])
                /\ UNCHANGED <<head, tail, next, value, calls>>

Next == \E t \in Threads : \/ CallEnqueue(t) \/ LoadTail(t) \/ Link(t) \/ Help(t)
                           \/ CallDequeue(t) \/ LoadHead(t) \/ LoadNext(t)
                           \/ PushTail(t) \/ Unlink(t) \/ LoadValue(t)
=============================================================================
