--------------------------- MODULE ConcurrentStack ---------------------------
(* The lock-free stack with hazard pointers of                                 *)
(* examples/shared_boxes/concurrentstack.c.  A popped node is freed once no    *)
(* client's hazard pointer (hp) protects it, and malloc may return its address *)
(* again.  An access to a node that has been freed makes the thread fail       *)
(* ("fault").  Each thread has one client.  The list of clients only grows at  *)
(* its end: it is the sequence clients.                                        *)
EXTENDS Naturals, Sequences, FiniteSets

CONSTANTS Threads, Nodes, Null,
          R,                 \* the number of retired nodes that starts a scan
          MaxCalls           \* bound on the operations of each thread
VARIABLES top, data, next,          \* struct stack and the nodes
          allocated,                \* nodes malloc'ed and not freed
          clients, hp, rlist,       \* the clients, a sequence of threads
          t, n, plist,              \* locals: top, next and the pointers collected
          index,                    \* how far a walk over the clients has got
          calls, pc, lin

nodevars == <<top, data, next, allocated>>
clientvars == <<clients, hp, rlist>>
locals == <<t, n, plist, index>>
vars == <<nodevars, clientvars, locals, calls, pc, lin>>

\* stack_push stores its argument, stack_pop returns false (<<>>) or a value
Apply(st, op) ==
  IF op[1] = "push" THEN {[st |-> <<op[2]>> \o st, out |-> <<>>]}
  ELSE IF st = <<>> THEN {[st |-> st, out |-> <<>>]}
  ELSE {[st |-> Tail(st), out |-> Head(st)]}

History == INSTANCE Linearization

\* create_stack
Init == /\ top = Null
        /\ next = [m \in Nodes |-> Null]
        /\ data = [m \in Nodes |-> <<>>]
        /\ allocated = {}
        /\ clients = <<>>
        /\ hp = [c \in Threads |-> Null]
        /\ rlist = [c \in Threads |-> {}]
        /\ t = [c \in Threads |-> Null]
        /\ n = [c \in Threads |-> Null]
        /\ plist = [c \in Threads |-> {}]
        /\ index = [c \in Threads |-> 0]
        /\ calls = [c \in Threads |-> 0]
        /\ pc = [c \in Threads |-> "new"]
        /\ lin = History!Unused(<<>>)

Goto(c, from, to) == pc[c] = from /\ pc' = [pc EXCEPT ![c] = to]

\* create_client: compare-and-set of s->clients, then of the next field of one
\* client after the other, until one is null
create_client(c) ==
  /\ pc[c] = "new"
  /\ IF index[c] = Len(clients)
     THEN /\ clients' = Append(clients, c)
          /\ index' = [index EXCEPT ![c] = 0]
          /\ pc' = [pc EXCEPT ![c] = "idle"]
     ELSE /\ index' = [index EXCEPT ![c] = @ + 1]
          /\ UNCHANGED <<clients, pc>>
  /\ UNCHANGED <<nodevars, hp, rlist, t, n, plist, calls, lin>>

deactivate_client(c) ==
  /\ Goto(c, "idle", "inactive")
  /\ hp' = [hp EXCEPT ![c] = Null]
  /\ UNCHANGED <<nodevars, clients, rlist, locals, calls, lin>>

Return(c, out) == lin' = History!Return(lin, c, out)

\* stack_push: malloc returns any free address; the load of top
push_load(c) ==
  /\ \/ /\ calls[c] < MaxCalls /\ Goto(c, "idle", "push_cas")
        /\ calls' = [calls EXCEPT ![c] = @ + 1]
        /\ \E m \in Nodes \ allocated :
             /\ allocated' = allocated \cup {m}
             /\ n' = [n EXCEPT ![c] = m]
             /\ data' = [data EXCEPT ![m] = <<c, calls[c]>>]
        /\ lin' = History!Call(lin, c, <<"push", <<c, calls[c]>>>>)
     \/ /\ Goto(c, "push_load", "push_cas")
        /\ UNCHANGED <<allocated, n, data, calls, lin>>
  /\ t' = [t EXCEPT ![c] = top]
  /\ next' = [next EXCEPT ![n'[c]] = top]
  /\ UNCHANGED <<top, clientvars, plist, index>>

push_cas(c) ==
  /\ IF top = t[c] THEN /\ Goto(c, "push_cas", "idle")
                        /\ top' = n[c]
                        /\ t' = [t EXCEPT ![c] = Null]
                        /\ n' = [n EXCEPT ![c] = Null]
                        /\ Return(c, <<>>)
     ELSE Goto(c, "push_cas", "push_load") /\ UNCHANGED <<top, t, n, lin>>
  /\ UNCHANGED <<data, next, allocated, clientvars, plist, index, calls>>

\* stack_pop: the load of top; an empty stack ends the call
pop_load(c) ==
  /\ LET before == IF pc[c] = "idle" THEN History!Call(lin, c, <<"pop">>) ELSE lin
     IN IF top = Null
        THEN lin' = History!Return(before, c, <<>>) /\ pc' = [pc EXCEPT ![c] = "idle"]
        ELSE lin' = before /\ pc' = [pc EXCEPT ![c] = "pop_protect"]
  /\ \/ pc[c] = "idle" /\ calls[c] < MaxCalls /\ calls' = [calls EXCEPT ![c] = @ + 1]
     \/ pc[c] = "pop_load" /\ UNCHANGED calls
  /\ t' = [t EXCEPT ![c] = top]
  /\ UNCHANGED <<nodevars, clientvars, n, plist, index>>

\* atomic_set_pointer(&client->hp, t)
pop_protect(c) == /\ Goto(c, "pop_protect", "pop_validate")
                  /\ hp' = [hp EXCEPT ![c] = t[c]]
                  /\ UNCHANGED <<nodevars, clients, rlist, locals, calls, lin>>

\* mutant: the node is used although top may have changed before it was protected
pop_trust(c) == /\ Goto(c, "pop_validate", "pop_next")
                /\ UNCHANGED <<nodevars, clientvars, locals, calls, lin>>

\* the second load of top
pop_validate(c) == /\ IF top = t[c] THEN Goto(c, "pop_validate", "pop_next")
                                    ELSE Goto(c, "pop_validate", "pop_load")
                   /\ UNCHANGED <<nodevars, clientvars, locals, calls, lin>>

\* n = t->next
pop_next(c) == /\ Goto(c, "pop_next", IF t[c] \in allocated THEN "pop_cas" ELSE "fault")
               /\ n' = [n EXCEPT ![c] = next[t[c]]]
               /\ UNCHANGED <<nodevars, clientvars, t, plist, index, calls, lin>>

pop_cas(c) == /\ IF top = t[c] THEN Goto(c, "pop_cas", "pop_data") /\ top' = n[c]
                               ELSE Goto(c, "pop_cas", "pop_load") /\ UNCHANGED top
              /\ n' = [n EXCEPT ![c] = Null]
              /\ UNCHANGED <<data, next, allocated, clientvars, t, plist, index, calls, lin>>

\* data = t->data, then retire_node: the node joins rlist, and if rlist is too
\* long a scan follows.  What is left concerns the client alone, so the call is
\* taken to return here.
pop_data(c) ==
  /\ rlist' = [rlist EXCEPT ![c] = @ \cup {t[c]}]
  /\ Goto(c, "pop_data", IF t[c] \notin allocated THEN "fault"
                         ELSE IF Cardinality(rlist'[c]) > R THEN "scan" ELSE "idle")
  /\ Return(c, data[t[c]])
  /\ t' = [t EXCEPT ![c] = Null]
  /\ UNCHANGED <<nodevars, clients, hp, n, plist, index, calls>>

\* phase1 collects the hazard pointers, client by client
phase1(c) ==
  /\ pc[c] = "scan"
  /\ IF index[c] < Len(clients)
     THEN /\ index' = [index EXCEPT ![c] = @ + 1]
          /\ plist' = [plist EXCEPT ![c] = @ \cup ({hp[clients[index'[c]]]} \ {Null})]
          /\ UNCHANGED pc
     ELSE /\ pc' = [pc EXCEPT ![c] = "free"]
          /\ UNCHANGED <<index, plist>>
  /\ UNCHANGED <<nodevars, clientvars, t, n, calls, lin>>

\* phase2 frees the retired nodes that are not protected
phase2(c) ==
  /\ Goto(c, "free", "idle")
  /\ allocated' = allocated \ (rlist[c] \ plist[c])
  /\ rlist' = [rlist EXCEPT ![c] = @ \cap plist[c]]
  /\ plist' = [plist EXCEPT ![c] = {}]
  /\ index' = [index EXCEPT ![c] = 0]
  /\ UNCHANGED <<top, data, next, clients, hp, t, n, calls, lin>>

Next == \E c \in Threads :
          \/ create_client(c) \/ deactivate_client(c) \/ push_load(c) \/ push_cas(c)
          \/ pop_load(c) \/ pop_protect(c) \/ pop_validate(c) \/ pop_next(c)
          \/ pop_cas(c) \/ pop_data(c) \/ phase1(c) \/ phase2(c)
=============================================================================
