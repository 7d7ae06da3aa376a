------------------------------ MODULE CowList ------------------------------
(* The copy-on-write lists of examples/shared_boxes/cowl.c: copies share      *)
(* nodes, which have a lock and a reference count each.  A list is used by    *)
(* one thread at a time, but lists that share nodes by several.  A step takes *)
(* a lock and does what the code does until it needs the next one; the locks  *)
(* that the recursive calls hold are released one by one when they return.    *)
EXTENDS Naturals, Sequences

CONSTANTS Threads, Lists, Nodes, Null, Values, MaxCalls  \* Lists, Nodes \subseteq Nat
VARIABLES head,                        \* of the lists that exist
          lock, value, refcount, next, \* of the nodes
          allocated,
          l, index, x, n, new_node,    \* the arguments and locals of a call
          held,                        \* the locks a thread holds, the last one first released
          calls, pc,
          content                      \* ghost: what the lists are to contain

vars == <<head, lock, value, refcount, next, allocated, l, index, x, n, new_node, held,
          calls, pc, content>>
locals == <<l, index, x, n, new_node>>

Init == /\ head = <<>> /\ content = <<>>
        /\ lock = [a \in Nodes |-> Null] /\ value = [a \in Nodes |-> 0]
        /\ refcount = [a \in Nodes |-> 0] /\ next = [a \in Nodes |-> Null]
        /\ allocated = {}
        /\ l = [t \in Threads |-> 0] /\ index = [t \in Threads |-> 0]
        /\ x = [t \in Threads |-> 0] /\ n = [t \in Threads |-> Null]
        /\ new_node = [t \in Threads |-> Null]
        /\ held = [t \in Threads |-> <<>>]
        /\ calls = 0
        /\ pc = [t \in Threads |-> "idle"]

Exist == DOMAIN head
\* malloc: which of the free addresses it returns makes no difference
Fresh(free) == {a \in free : \A b \in free : a <= b}
Unused(a) == a \in Exist /\ \A t \in Threads : pc[t] # "idle" => l[t] # a

Call(t) == /\ pc[t] = "idle" /\ calls < MaxCalls
           /\ calls' = calls + 1

With(f, a, v) == [b \in DOMAIN f \cup {a} |-> IF b = a THEN v ELSE f[b]]
Without(f, a) == [b \in DOMAIN f \ {a} |-> f[b]]

create_cow_list(t, a) ==
  /\ Call(t) /\ a \in Fresh(Lists \ Exist)
  /\ head' = With(head, a, Null) /\ content' = With(content, a, <<>>)
  /\ UNCHANGED <<lock, value, refcount, next, allocated, locals, held, pc>>

\* the reference count of the first node is incremented under its lock
copy_cow_list(t, src, a) ==
  /\ Call(t) /\ Unused(src) /\ a \in Fresh(Lists \ Exist)
  /\ head' = With(head, a, head[src]) /\ content' = With(content, a, content[src])
  /\ IF head[src] = Null THEN UNCHANGED refcount
     ELSE /\ lock[head[src]] = Null
          /\ refcount' = [refcount EXCEPT ![head[src]] = @ + 1]
  /\ UNCHANGED <<lock, value, next, allocated, locals, held, pc>>

cow_list_insert(t, a, v) ==
  /\ Call(t) /\ Unused(a)
  /\ \E new \in Fresh(Nodes \ allocated) :
       /\ allocated' = allocated \cup {new}
       /\ value' = [value EXCEPT ![new] = v]
       /\ next' = [next EXCEPT ![new] = head[a]]
       /\ refcount' = [refcount EXCEPT ![new] = 1]
       /\ head' = [head EXCEPT ![a] = new]
  /\ content' = [content EXCEPT ![a] = <<v>> \o @]
  /\ UNCHANGED <<lock, locals, held, pc>>

----------------------------------------------------------------------------
(* cow_list_set *)

\* mutant: a node that is shared is written in place
Shared_ignored(a) == FALSE
Shared(a) == refcount[a] # 1

\* t goes on with node a, whose lock it takes, at position i; a shared node is
\* replaced by a copy, which is filled in next, and gets one reference less
Visit(t, a, i, keep) ==
  /\ lock[a] = Null
  /\ n' = [n EXCEPT ![t] = a] /\ index' = [index EXCEPT ![t] = i]
  /\ IF Shared(a)
     THEN \E new \in Fresh(Nodes \ allocated) :
            /\ allocated' = allocated \cup {new}
            /\ new_node' = [new_node EXCEPT ![t] = new]
            /\ refcount' = [refcount EXCEPT ![a] = @ - 1, ![new] = 1]
            /\ lock' = [lock EXCEPT ![a] = t, ![new] = t]
            /\ held' = [held EXCEPT ![t] = keep \o <<a, new>>]
            /\ IF keep = <<>> THEN head' = [head EXCEPT ![l'[t]] = new] /\ UNCHANGED next
               ELSE next' = [next EXCEPT ![keep[1]] = new] /\ UNCHANGED head
            /\ pc' = [pc EXCEPT ![t] = "copy"]
     ELSE /\ lock' = [b \in Nodes |-> IF b = a THEN t
                                      ELSE IF keep # <<>> /\ b = keep[1] THEN Null
                                      ELSE lock[b]]
          /\ held' = [held EXCEPT ![t] = <<a>>]
          /\ pc' = [pc EXCEPT ![t] = "set"]
          /\ UNCHANGED <<head, next, refcount, allocated, new_node>>

cow_list_set(t, a, i, v) ==
  /\ Call(t) /\ Unused(a) /\ i < Len(content[a])
  /\ l' = [l EXCEPT ![t] = a] /\ x' = [x EXCEPT ![t] = v]
  /\ content' = [content EXCEPT ![a][i + 1] = v]
  /\ Visit(t, head[a], i, <<>>)
  /\ UNCHANGED value

\* the calls return, and release their locks
Returns(t) == /\ pc' = [pc EXCEPT ![t] = "release"]
              /\ n' = [n EXCEPT ![t] = Null] /\ new_node' = [new_node EXCEPT ![t] = Null]

\* cow_list_node_set: n is not shared, nor is any node before it
cow_list_node_set(t) ==
  /\ pc[t] = "set"
  /\ IF index[t] = 0
     THEN /\ value' = [value EXCEPT ![n[t]] = x[t]]
          /\ Returns(t)
          /\ UNCHANGED <<head, lock, refcount, next, allocated, index, held>>
     ELSE Visit(t, next[n[t]], index[t] - 1, held[t]) /\ UNCHANGED value
  /\ UNCHANGED <<l, x, calls, content>>

\* cow_list_node_set_copy: new_node becomes the copy of n
cow_list_node_set_copy(t) ==
  LET a == n[t]
      new == new_node[t]
      nxt == next[a]
  IN
  /\ pc[t] = "copy"
  /\ nxt # Null => lock[nxt] = Null
  /\ IF index[t] = 0
     THEN /\ value' = [value EXCEPT ![new] = x[t]]
          /\ next' = [next EXCEPT ![new] = nxt]
          /\ refcount' = IF nxt = Null THEN refcount ELSE [refcount EXCEPT ![nxt] = @ + 1]
          /\ Returns(t)
          /\ UNCHANGED <<lock, allocated, index, held>>
     ELSE \E new2 \in Fresh(Nodes \ allocated) :
            /\ allocated' = allocated \cup {new2}
            /\ value' = [value EXCEPT ![new] = value[a]]
            /\ next' = [next EXCEPT ![new] = new2]
            /\ refcount' = [refcount EXCEPT ![new2] = 1]
            /\ lock' = [lock EXCEPT ![nxt] = t, ![new2] = t]
            /\ held' = [held EXCEPT ![t] = @ \o <<nxt, new2>>]
            /\ n' = [n EXCEPT ![t] = nxt] /\ new_node' = [new_node EXCEPT ![t] = new2]
            /\ index' = [index EXCEPT ![t] = @ - 1]
            /\ UNCHANGED pc
  /\ UNCHANGED <<head, l, x, calls, content>>

\* the call returns, and its locals are gone
Done(t) == /\ pc' = [pc EXCEPT ![t] = "idle"]
           /\ l' = [l EXCEPT ![t] = 0] /\ x' = [x EXCEPT ![t] = 0]
           /\ index' = [index EXCEPT ![t] = 0]
           /\ n' = [n EXCEPT ![t] = Null] /\ new_node' = [new_node EXCEPT ![t] = Null]

Release(t) ==
  /\ pc[t] = "release"
  /\ lock' = [lock EXCEPT ![held[t][Len(held[t])]] = Null]
  /\ held' = [held EXCEPT ![t] = SubSeq(@, 1, Len(@) - 1)]
  /\ IF Len(held[t]) = 1 THEN Done(t) ELSE UNCHANGED <<locals, pc>>
  /\ UNCHANGED <<head, value, refcount, next, allocated, calls, content>>

----------------------------------------------------------------------------
(* cow_list_dispose *)

cow_list_dispose(t, a) ==
  /\ Call(t) /\ Unused(a)
  /\ n' = [n EXCEPT ![t] = head[a]]
  /\ head' = Without(head, a) /\ content' = Without(content, a)
  /\ pc' = [pc EXCEPT ![t] = "dispose"]
  /\ UNCHANGED <<lock, value, refcount, next, allocated, l, index, x, new_node, held>>

\* a node whose last reference goes is freed, and the next one loses one
Drop(t) ==
  LET a == n[t] IN
  /\ pc[t] = "dispose"
  /\ IF a = Null THEN Done(t) /\ UNCHANGED <<value, refcount, next, allocated>>
     ELSE /\ lock[a] = Null
          /\ refcount' = [refcount EXCEPT ![a] = @ - 1]
          /\ IF refcount[a] = 1
             THEN /\ allocated' = allocated \ {a}
                  /\ next' = [next EXCEPT ![a] = Null]
                  /\ value' = [value EXCEPT ![a] = 0]
                  /\ n' = [n EXCEPT ![t] = next[a]]
                  /\ UNCHANGED <<l, index, x, new_node, pc>>
             ELSE Done(t) /\ UNCHANGED <<value, next, allocated>>
  /\ UNCHANGED <<head, lock, held, calls, content>>

Next == \E t \in Threads :
  \/ \E a \in Lists : \/ create_cow_list(t, a) \/ cow_list_dispose(t, a)
                      \/ \E b \in Lists : copy_cow_list(t, a, b)
                      \/ \E v \in Values : \/ cow_list_insert(t, a, v)
                                           \/ \E i \in 0..2 : cow_list_set(t, a, i, v)
  \/ cow_list_node_set(t) \/ cow_list_node_set_copy(t) \/ Release(t) \/ Drop(t)

----------------------------------------------------------------------------
\* the nodes of a list, and then Null
Path(a) == LET node[i \in 0..Len(content[a])] ==
                 IF i = 0 THEN head[a]
                 ELSE IF node[i - 1] = Null THEN Null ELSE next[node[i - 1]]
           IN node

\* a list that is not being changed contains what it is to contain
Right == \A a \in Exist : Unused(a) =>
           /\ Path(a)[Len(content[a])] = Null
           /\ \A i \in DOMAIN content[a] :
                Path(a)[i - 1] \in allocated /\ value[Path(a)[i - 1]] = content[a][i]

\* no call goes to a node that is free, and when all lists are gone all are
Safe == /\ \A t \in Threads : /\ pc[t] \in {"set", "copy", "dispose"} => n[t] \in allocated \cup {Null}
                               /\ \A i \in DOMAIN held[t] : held[t][i] \in allocated
        /\ (Exist = {} /\ \A t \in Threads : pc[t] = "idle") => allocated = {}
=============================================================================
