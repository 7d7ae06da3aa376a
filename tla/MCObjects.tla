----------------------------- MODULE MCObjects -----------------------------
(* Data structures of the examples, side by side: a behaviour picks one of    *)
(* them (which), and its threads call its operations as they please, a        *)
(* bounded number of times.  The kernel serves its connections for ever, the  *)
(* collector runs once on every small heap, and the interpreter runs one of   *)
(* the programs below.                                                        *)
EXTENDS Naturals, Sequences, TLC

CONSTANTS Threads, Writer, Nodes, Null, R, SnapshotCalls, CasCalls,
          ContainerCalls, Addrs, SetThreads, SetNodes, First, Last, Elements,
          SetCalls, Lists, ListNodes, ListCalls, HeapObjects

VARIABLES which,
          j_S, j_val, j_fwd, j_seen, j_late, j_calls, j_pc, j_lin,
          r_a1, r_a2, r_args, r_d, r_back, r_r, r_pc, r_lin,
          m_word, m_status, m_es, m_stack, m_lin,
          s_top, s_data, s_next, s_allocated, s_clients, s_hp, s_rlist, s_t,
          s_n, s_plist, s_index, s_calls, s_pc, s_lin,
          q_head, q_tail, q_next, q_value, q_own, q_h, q_n, q_calls, q_pc,
          q_lin,
          l_next, l_value, l_lock, l_allocated, l_p, l_op, l_calls, l_pc,
          l_lin,
          v_first, v_middle, v_last, v_next, v_value, v_allocated, v_own,
          v_seen, v_node, v_prev, v_upto, v_calls, v_pc, v_lin,
          c_head, c_lock, c_value, c_refcount, c_next, c_allocated, c_l,
          c_index, c_x, c_n, c_new_node, c_held, c_calls, c_pc, c_content,
          k_kernelLock, k_loaderLock, k_owner, k_leaked, k_references,
          k_fresh, k_loadedLibs, k_modules, k_library, k_ref_count,
          k_allocated, k_directory, k_device, k_name, k_m, k_pc,
          h_class, h_head, h_tail, h_tail_is_next, h_marked, h_heap,
          h_roots, h_rs, h_object, h_parent, h_swept, h_pc, h_before,
          g_S, g_input, g_parent, g_expr, g_pc, g_program

\* two addresses set from 0 to 1, set back, and one of them changed alone: so a
\* call can fail at the second one, which holds the expected value again before
\* the call is decided, while another thread helps it
Change(a, o, n) == [a |-> a, o |-> o, n |-> n]
Calls == {<<Change(1, 0, 1), Change(2, 0, 1)>>,
          <<Change(1, 1, 0), Change(2, 1, 0)>>, <<Change(2, 0, 1)>>, <<Change(2, 1, 0)>>}

QueueNodes == Nodes \cup {First}
KernelClients == Threads \cup {Writer}

\* every expression of at most three symbols, and applications of functions
Symb(a) == [atom |-> a]
App(f, e) == [fun |-> f, arg |-> e]
Quote(a) == App(Symb("quote"), Symb(a))
Fun(x, body) == App(Symb("fun"), App(Symb(x), body))
PrintAtom(e) == App(Symb("print_atom"), e)
One == {Symb(a) : a \in {"quote", "fun", "print_atom", "a"}}
Two == {App(f, e) : f \in One, e \in One}
Programs ==
  One \cup Two \cup {App(f, e) : f \in One, e \in Two} \cup {App(f, e) : f \in Two, e \in One}
  \cup {App(Fun("x", PrintAtom(Symb("x"))), Quote("a")),
        App(App(Fun("x", Fun("y", PrintAtom(Symb("x")))), Quote("a")), Quote("b")),
        App(App(Fun("x", Fun("x", PrintAtom(Symb("x")))), Quote("a")), Quote("b")),
        App(Fun("f", App(Symb("f"), Quote("a"))), Symb("print_atom")),
        PrintAtom(App(Fun("f", App(Symb("f"), App(Symb("f"), Quote("a")))), Fun("x", Symb("x")))),
        App(Fun("x", PrintAtom(Quote("b"))), PrintAtom(Quote("a")))}

Snapshot == INSTANCE Jayanti
  WITH MaxWrites <- SnapshotCalls, MaxScans <- SnapshotCalls, S <- j_S,
       val <- j_val, fwd <- j_fwd, seen <- j_seen, late <- j_late,
       calls <- j_calls, pc <- j_pc, lin <- j_lin
Cas2 == INSTANCE Rdcss
  WITH MaxCalls <- CasCalls, a1 <- r_a1, a2 <- r_a2, args <- r_args,
       d <- r_d, back <- r_back, r <- r_r, pc <- r_pc, lin <- r_lin
CasN == INSTANCE Mcas
  WITH MaxCalls <- CasCalls, word <- m_word, status <- m_status,
       es <- m_es, stack <- m_stack, lin <- m_lin
Stack == INSTANCE ConcurrentStack
  WITH MaxCalls <- ContainerCalls, top <- s_top, data <- s_data,
       next <- s_next, allocated <- s_allocated, clients <- s_clients,
       hp <- s_hp, rlist <- s_rlist, t <- s_t, n <- s_n, plist <- s_plist,
       index <- s_index, calls <- s_calls, pc <- s_pc, lin <- s_lin
Queue == INSTANCE ConcurrentQueue
  WITH MaxCalls <- ContainerCalls, head <- q_head, tail <- q_tail,
       next <- q_next, value <- q_value, own <- q_own, h <- q_h, n <- q_n,
       calls <- q_calls, pc <- q_pc, lin <- q_lin
Set == INSTANCE LcSet
  WITH Threads <- SetThreads, Nodes <- SetNodes, MaxCalls <- SetCalls,
       next <- l_next, value <- l_value, lock <- l_lock,
       allocated <- l_allocated, p <- l_p, op <- l_op, calls <- l_calls,
       pc <- l_pc, lin <- l_lin
Reversed == INSTANCE ReversedQueue
  WITH Enqueuers <- Threads, Dequeuer <- Writer, Nodes <- QueueNodes,
       Sentinel <- First, MaxCalls <- ContainerCalls, first <- v_first,
       middle <- v_middle, last <- v_last, next <- v_next,
       value <- v_value, allocated <- v_allocated, own <- v_own,
       seen <- v_seen, node <- v_node, prev <- v_prev, upto <- v_upto,
       calls <- v_calls, pc <- v_pc, lin <- v_lin
Cow == INSTANCE CowList
  WITH Nodes <- ListNodes, Values <- {0, 1}, MaxCalls <- ListCalls,
       head <- c_head, lock <- c_lock, value <- c_value,
       refcount <- c_refcount, next <- c_next, allocated <- c_allocated,
       l <- c_l, index <- c_index, x <- c_x, n <- c_n,
       new_node <- c_new_node, held <- c_held, calls <- c_calls,
       pc <- c_pc, content <- c_content
Kernel == INSTANCE MockKernel
  WITH Connections <- KernelClients, Libraries <- {First},
       Modules <- Nodes, None <- Null, kernelLock <- k_kernelLock,
       loaderLock <- k_loaderLock, owner <- k_owner, leaked <- k_leaked,
       references <- k_references, fresh <- k_fresh,
       loadedLibs <- k_loadedLibs, modules <- k_modules,
       library <- k_library, ref_count <- k_ref_count,
       allocated <- k_allocated, directory <- k_directory,
       device <- k_device, name <- k_name, m <- k_m, pc <- k_pc
Heap == INSTANCE Collector
  WITH Count <- HeapObjects, class <- h_class, head <- h_head, tail <- h_tail,
       tail_is_next <- h_tail_is_next, marked <- h_marked, heap <- h_heap,
       roots <- h_roots, rs <- h_rs, object <- h_object,
       parent <- h_parent, swept <- h_swept, pc <- h_pc, before <- h_before
Lisp == INSTANCE Gcl
  WITH S <- g_S, input <- g_input, parent <- g_parent, expr <- g_expr,
       pc <- g_pc, program <- g_program

jayantivars == <<j_S, j_val, j_fwd, j_seen, j_late, j_calls, j_pc, j_lin>>
rdcssvars == <<r_a1, r_a2, r_args, r_d, r_back, r_r, r_pc, r_lin>>
mcasvars == <<m_word, m_status, m_es, m_stack, m_lin>>
stackvars == <<s_top, s_data, s_next, s_allocated, s_clients, s_hp, s_rlist,
               s_t, s_n, s_plist, s_index, s_calls, s_pc, s_lin>>
queuevars == <<q_head, q_tail, q_next, q_value, q_own, q_h, q_n, q_calls, q_pc,
               q_lin>>
lcsetvars == <<l_next, l_value, l_lock, l_allocated, l_p, l_op, l_calls, l_pc,
               l_lin>>
reversedvars == <<v_first, v_middle, v_last, v_next, v_value, v_allocated, v_own,
                  v_seen, v_node, v_prev, v_upto, v_calls, v_pc, v_lin>>
cowlistvars == <<c_head, c_lock, c_value, c_refcount, c_next, c_allocated, c_l,
                 c_index, c_x, c_n, c_new_node, c_held, c_calls, c_pc, c_content>>
kernelvars == <<k_kernelLock, k_loaderLock, k_owner, k_leaked, k_references,
                k_fresh, k_loadedLibs, k_modules, k_library, k_ref_count,
                k_allocated, k_directory, k_device, k_name, k_m, k_pc>>
collectorvars == <<h_class, h_head, h_tail, h_tail_is_next, h_marked, h_heap,
                   h_roots, h_rs, h_object, h_parent, h_swept, h_pc, h_before>>
gclvars == <<g_S, g_input, g_parent, g_expr, g_pc, g_program>>
objectvars == <<which, jayantivars, rdcssvars, mcasvars, stackvars,
                queuevars, lcsetvars, reversedvars, cowlistvars,
                kernelvars, collectorvars, gclvars>>

\* the calls are the same with 0 and 1 exchanged: the first word holds 0
ObjectsInit == /\ which \in {"jayanti", "rdcss", "mcas", "stack", "queue",
                             "lcset", "reversed", "cowlist", "kernel",
                             "collector", "gcl"}
               /\ Snapshot!Init /\ Cas2!Init /\ CasN!Init /\ Stack!Init
               /\ Queue!Init /\ Set!Init /\ Reversed!Init /\ Cow!Init
               /\ Kernel!Init /\ Heap!Init /\ Lisp!Init
               /\ \A a \in Addrs : which # "mcas" \/ a = 1 => m_word[a] = <<0>>

\* no operation is going on; or malloc fails, where cowl.c aborts; or, in the
\* kernel, none can go on since load_library did not leave its critical section
MayStop ==
  CASE which = "jayanti" -> \A t \in Snapshot!Parties : j_pc[t] = "idle"
    [] which = "rdcss" -> \A t \in Threads : r_pc[t] = "idle"
    [] which = "mcas" -> \A t \in Threads : m_stack[t] = <<>>
    [] which = "stack" -> \A t \in Threads : s_pc[t] \in {"new", "idle", "inactive"}
    [] which = "queue" -> \A t \in Threads : q_pc[t] = "idle"
    [] which = "lcset" -> \A t \in SetThreads : l_pc[t] = "idle"
    [] which = "reversed" -> \A t \in Reversed!Parties : v_pc[t] = "idle"
    [] which = "cowlist" -> c_allocated = ListNodes \/ \A t \in Threads : c_pc[t] = "idle"
    [] which = "kernel" -> Kernel!Stuck /\ k_leaked
    [] which = "collector" -> h_pc = "done"
    [] which = "gcl" -> g_S.status # "running"

ObjectsNext ==
  \/ /\ which = "jayanti" /\ Snapshot!Next
     /\ UNCHANGED <<which, rdcssvars, mcasvars, stackvars, queuevars, lcsetvars,
                    reversedvars, cowlistvars, kernelvars, collectorvars,
                    gclvars>>
  \/ /\ which = "rdcss" /\ Cas2!Next
     /\ UNCHANGED <<which, jayantivars, mcasvars, stackvars, queuevars,
                    lcsetvars, reversedvars, cowlistvars, kernelvars,
                    collectorvars, gclvars>>
  \/ /\ which = "mcas" /\ CasN!Next
     /\ UNCHANGED <<which, jayantivars, rdcssvars, stackvars, queuevars,
                    lcsetvars, reversedvars, cowlistvars, kernelvars,
                    collectorvars, gclvars>>
  \/ /\ which = "stack" /\ Stack!Next
     /\ UNCHANGED <<which, jayantivars, rdcssvars, mcasvars, queuevars,
                    lcsetvars, reversedvars, cowlistvars, kernelvars,
                    collectorvars, gclvars>>
  \/ /\ which = "queue" /\ Queue!Next
     /\ UNCHANGED <<which, jayantivars, rdcssvars, mcasvars, stackvars,
                    lcsetvars, reversedvars, cowlistvars, kernelvars,
                    collectorvars, gclvars>>
  \/ /\ which = "lcset" /\ Set!Next
     /\ UNCHANGED <<which, jayantivars, rdcssvars, mcasvars, stackvars,
                    queuevars, reversedvars, cowlistvars, kernelvars,
                    collectorvars, gclvars>>
  \/ /\ which = "reversed" /\ Reversed!Next
     /\ UNCHANGED <<which, jayantivars, rdcssvars, mcasvars, stackvars,
                    queuevars, lcsetvars, cowlistvars, kernelvars,
                    collectorvars, gclvars>>
  \/ /\ which = "cowlist" /\ Cow!Next
     /\ UNCHANGED <<which, jayantivars, rdcssvars, mcasvars, stackvars,
                    queuevars, lcsetvars, reversedvars, kernelvars,
                    collectorvars, gclvars>>
  \/ /\ which = "kernel" /\ Kernel!Next
     /\ UNCHANGED <<which, jayantivars, rdcssvars, mcasvars, stackvars,
                    queuevars, lcsetvars, reversedvars, cowlistvars,
                    collectorvars, gclvars>>
  \/ /\ which = "collector" /\ Heap!Next
     /\ UNCHANGED <<which, jayantivars, rdcssvars, mcasvars, stackvars,
                    queuevars, lcsetvars, reversedvars, cowlistvars,
                    kernelvars, gclvars>>
  \/ /\ which = "gcl" /\ Lisp!Next
     /\ UNCHANGED <<which, jayantivars, rdcssvars, mcasvars, stackvars,
                    queuevars, lcsetvars, reversedvars, cowlistvars,
                    kernelvars, collectorvars>>
  \/ MayStop /\ UNCHANGED objectvars

ObjectsSpec == ObjectsInit /\ [][ObjectsNext]_objectvars

Symmetry == Permutations(Threads) \cup Permutations(Nodes)

(* Every operation of the concurrent objects appears to take effect at one    *)
(* instant between its call and its return, with the result that it returns,  *)
(* however the threads interleave: array_scan sees writes that were forwarded *)
(* to it, rdcss and mcas are atomic although any thread may finish the work   *)
(* of any other at any time, a push or pop of the stack is not fooled by a    *)
(* node that came back at the same address, a dequeue overtakes a tail that   *)
(* lags behind or reverses what was enqueued meanwhile, and the operations of *)
(* the set lock only two nodes at a time.                                     *)
Linearizable == /\ j_lin # {} /\ r_lin # {} /\ m_lin # {} /\ s_lin # {}
                /\ q_lin # {} /\ l_lin # {} /\ v_lin # {}

(* cow_list_set changes the one list it is called for and none that shares    *)
(* nodes with it; gc() frees exactly the objects that cannot be reached and   *)
(* restores every field that mark() reversed; and a program of the            *)
(* interpreter prints what it means.                                          *)
AsSpecified == Cow!Right /\ Heap!Collected /\ Lisp!Right

(* Nothing is used after it was freed.  In the stack a hazard pointer keeps a *)
(* node, in the set its lock does, in the queue that is reversed the dequeuer *)
(* is the only one to free, in the lists that share nodes a reference count   *)
(* decides, in the interpreter locals that are roots, and in the kernel a     *)
(* library that has modules, devices or open files is not unloaded.           *)
MemorySafe == /\ \A t \in Threads : s_pc[t] # "fault"
              /\ \A t \in SetThreads : l_pc[t] # "fault"
              /\ v_pc[Writer] # "fault"
              /\ Cow!Safe /\ Kernel!Safe /\ g_S.status # "dangling"
=============================================================================
