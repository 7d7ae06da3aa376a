----------------------------- MODULE Collector -----------------------------
(* The garbage collector of examples/gcl.c.  mark() goes down and up the      *)
(* graph without a stack: on its way down it stores the parent of an object   *)
(* in the field that it follows, and on its way up it puts the field back.    *)
(* Then gc() sweeps the list of all objects.  Object 0 is nil_value, the      *)
(* first to be registered; the others have no cycles, as an expression is     *)
(* only ever put in a cell that is not part of it.                            *)
EXTENDS Naturals, Sequences, SequencesExt

CONSTANT Count                \* of objects other than nil_value
VARIABLES class, head, tail,  \* head also stands for the data of a function
          tail_is_next, marked,
          heap, roots,        \* the lists heap_head and roots_head
          rs, object, parent, \* the roots left to mark, and the locals of mark()
          swept,              \* the objects that the sweep has passed and kept
          pc, before          \* ghost: the fields when gc() was called

vars == <<class, head, tail, tail_is_next, marked, heap, roots, rs, object, parent, swept,
          pc, before>>
fields == <<class, head, tail>>

Objects == 0..Count
None == Count + 1             \* a null pointer
nil_value == 0

Init == /\ class = [o \in Objects |-> "nil"]
        /\ head = [o \in Objects |-> None] /\ tail = [o \in Objects |-> None]
        /\ tail_is_next = [o \in Objects |-> FALSE]
        /\ marked = [o \in Objects |-> FALSE]
        /\ heap = <<nil_value>> /\ roots = <<nil_value>> /\ rs = <<>>
        /\ object = None /\ parent = None /\ swept = <<>>
        /\ pc = "create" /\ before = <<>>

\* create_cons, create_function and create_atom, after register_object; parse
\* also puts a new object in an older cell, so the order of the list is free
Create(o, c, hd, tl) ==
  /\ pc = "create"
  /\ o = Len(heap) /\ o <= Count
  /\ class' = [class EXCEPT ![o] = c]
  /\ head' = [head EXCEPT ![o] = IF c = "atom" THEN None ELSE hd]
  /\ tail' = [tail EXCEPT ![o] = IF c = "cons" THEN tl ELSE None]
  /\ \/ heap' = <<o>> \o heap
     \/ heap' = Front(heap) \o <<o, nil_value>>
  /\ UNCHANGED <<tail_is_next, marked, roots, rs, object, parent, swept, pc, before>>

\* gc() is called, with two more roots
gc(r1, r2) ==
  /\ pc = "create" /\ Len(heap) = Count + 1
  /\ roots' = <<r1, r2>> \o roots /\ rs' = roots'
  /\ pc' = "roots" /\ before' = <<class, head, tail, heap>>
  /\ UNCHANGED <<fields, tail_is_next, marked, heap, object, parent, swept>>

\* for (;;) { mark(rs->head); rs = rs->tail; }
NextRoot ==
  /\ pc = "roots"
  /\ IF rs = <<>> THEN pc' = "sweep" /\ UNCHANGED <<rs, object, parent>>
     ELSE /\ object' = Head(rs) /\ parent' = None /\ rs' = Tail(rs)
          /\ pc' = "start_marking"
  /\ UNCHANGED <<fields, tail_is_next, marked, heap, roots, swept, before>>

\* start_marking: cons_start_marking, function_start_marking, and the others,
\* which return false
start_marking ==
  /\ pc = "start_marking"
  /\ marked' = [marked EXCEPT ![object] = TRUE]
  /\ IF ~marked[object] /\ class[object] \in {"cons", "function"}
     THEN /\ object' = head[object]
          /\ head' = [head EXCEPT ![object] = parent]
          /\ parent' = object
          /\ tail_is_next' = [tail_is_next EXCEPT ![object] = class[object] = "cons"]
          /\ UNCHANGED pc
     ELSE /\ pc' = "mark_next"
          /\ UNCHANGED <<head, object, parent, tail_is_next>>
  /\ UNCHANGED <<class, tail, heap, roots, rs, swept, before>>

\* mutant: the head of a cell is not put back when its tail is next
cons_mark_next_lost ==
  /\ pc = "mark_next" /\ parent # None /\ class[parent] = "cons"
  /\ IF tail_is_next[parent]
     THEN /\ object' = tail[parent]
          /\ tail' = [tail EXCEPT ![parent] = head[parent]]
          /\ tail_is_next' = [tail_is_next EXCEPT ![parent] = FALSE]
          /\ pc' = "start_marking"
          /\ UNCHANGED <<head, parent>>
     ELSE /\ parent' = tail[parent]
          /\ tail' = [tail EXCEPT ![parent] = object]
          /\ object' = parent
          /\ UNCHANGED <<head, tail_is_next, pc>>
  /\ UNCHANGED <<class, marked, heap, roots, rs, swept, before>>

cons_mark_next ==
  /\ pc = "mark_next" /\ parent # None /\ class[parent] = "cons"
  /\ IF tail_is_next[parent]
     THEN /\ head' = [head EXCEPT ![parent] = object]
          /\ object' = tail[parent]
          /\ tail' = [tail EXCEPT ![parent] = head[parent]]
          /\ tail_is_next' = [tail_is_next EXCEPT ![parent] = FALSE]
          /\ pc' = "start_marking"
          /\ UNCHANGED parent
     ELSE /\ parent' = tail[parent]
          /\ tail' = [tail EXCEPT ![parent] = object]
          /\ object' = parent
          /\ UNCHANGED <<head, tail_is_next, pc>>
  /\ UNCHANGED <<class, marked, heap, roots, rs, swept, before>>

function_mark_next ==
  /\ pc = "mark_next" /\ parent # None /\ class[parent] = "function"
  /\ parent' = head[parent]
  /\ head' = [head EXCEPT ![parent] = object]
  /\ object' = parent
  /\ UNCHANGED <<class, tail, tail_is_next, marked, heap, roots, rs, swept, pc, before>>

\* mark() returns
Marked == /\ pc = "mark_next" /\ parent = None
          /\ object' = None /\ pc' = "roots"
          /\ UNCHANGED <<fields, tail_is_next, marked, heap, roots, rs, parent, swept, before>>

\* the second loop of gc(): h is at the first object of heap after swept
Sweep ==
  /\ pc = "sweep"
  /\ IF Len(swept) = Len(heap) THEN pc' = "done" /\ UNCHANGED <<heap, marked, swept, fields>>
     ELSE LET o == heap[Len(swept) + 1] IN
          IF marked[o]
          THEN /\ marked' = [marked EXCEPT ![o] = FALSE]
               /\ swept' = Append(swept, o)
               /\ UNCHANGED <<heap, pc, fields>>
          ELSE /\ heap' = RemoveAt(heap, Len(swept) + 1)
               /\ class' = [class EXCEPT ![o] = "free"]
               /\ head' = [head EXCEPT ![o] = None] /\ tail' = [tail EXCEPT ![o] = None]
               /\ UNCHANGED <<marked, swept, pc>>
  /\ UNCHANGED <<tail_is_next, roots, rs, object, parent, before>>

Next == \/ \E o \in Objects : \E hd, tl \in 0..(o - 1) :
             \E c \in {"cons", "function", "atom"} : Create(o, c, hd, tl)
        \/ \E r1, r2 \in Objects : gc(r1, r2)
        \/ NextRoot \/ start_marking \/ cons_mark_next \/ function_mark_next
        \/ Marked \/ Sweep

----------------------------------------------------------------------------
\* what the program can reach, in the graph as gc() found it
Fields(o) == {before[2][o], before[3][o]} \ {None}
Reached[n \in Nat] == IF n = 0 THEN Range(roots)
                      ELSE Reached[n - 1] \cup UNION {Fields(o) : o \in Reached[n - 1]}

\* gc() keeps exactly that, in its order, with its fields, and unmarked
Collected ==
  pc = "done" =>
    LET kept == Reached[Count] IN
    /\ heap = SelectSeq(before[4], LAMBDA o : o \in kept)
    /\ \A o \in kept : <<class[o], head[o], tail[o]>>
                         = <<before[1][o], before[2][o], before[3][o]>>
    /\ \A o \in Objects : ~marked[o]
=============================================================================
