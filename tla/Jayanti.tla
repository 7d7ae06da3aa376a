------------------------------- MODULE Jayanti -------------------------------
(* The snapshot of examples/jayanti/jayanti.c: one thread writes x, one writes *)
(* y, and one scans both.  A writer that sees a scan going on (S) forwards its *)
(* value to the scanner (fx, fy); Bottom stands for INT_MIN, which no writer   *)
(* writes.  array_write_x and array_write_y are the same code for the two      *)
(* components.                                                                 *)
EXTENDS Naturals, Sequences

CONSTANTS MaxWrites, MaxScans      \* bounds on the operations of each thread
VARIABLES S, val, fwd,             \* the array: S, <<x, y>> and <<fx, fy>>
          seen, late,              \* the scanner's vx, vy and ox, oy
          calls,                   \* operations begun by each thread
          pc, lin

vars == <<S, val, fwd, seen, late, calls, pc, lin>>

Components == {1, 2}
Scanner == 3
Parties == Components \cup {Scanner}
Bottom == 99

\* array_write_ghop and array_scan_ghop of jayanti.h
Apply(st, op) == IF op[1] = "scan" THEN {[st |-> st, out |-> st]}
                 ELSE {[st |-> [st EXCEPT ![op[2]] = op[3]], out |-> <<>>]}

History == INSTANCE Linearization WITH Threads <- Parties

Init == /\ S = 0
        /\ val = <<0, 0>> /\ fwd = <<Bottom, Bottom>>
        /\ seen = <<0, 0>> /\ late = <<Bottom, Bottom>>
        /\ calls = [t \in Parties |-> 0]
        /\ pc = [t \in Parties |-> "idle"]
        /\ lin = History!Unused(<<0, 0>>)

Goto(t, from, to) == pc[t] = from /\ pc' = [pc EXCEPT ![t] = to]

\* the value a writer writes: its n-th write writes n
StoreValue(c) == /\ calls[c] < MaxWrites
                 /\ Goto(c, "idle", "loadS")
                 /\ calls' = [calls EXCEPT ![c] = @ + 1]
                 /\ val' = [val EXCEPT ![c] = calls'[c]]
                 /\ lin' = History!Call(lin, c, <<"write", c, calls'[c]>>)
                 /\ UNCHANGED <<S, fwd, seen, late>>

\* mutant: a writer never forwards its value
LoadSAndReturn(c) == /\ Goto(c, "loadS", "idle")
                     /\ lin' = History!Return(lin, c, <<>>)
                     /\ UNCHANGED <<S, val, fwd, seen, late, calls>>

\* write_x_S = atomic_load_int(&array->S); without a scan the write is over
LoadS(c) == /\ IF S = 1 THEN /\ Goto(c, "loadS", "forward")
                             /\ UNCHANGED lin
               ELSE /\ Goto(c, "loadS", "idle")
                    /\ lin' = History!Return(lin, c, <<>>)
            /\ UNCHANGED <<S, val, fwd, seen, late, calls>>

\* atomic_store_int(&array->fx, value)
Forward(c) == /\ Goto(c, "forward", "idle")
              /\ fwd' = [fwd EXCEPT ![c] = calls[c]]
              /\ lin' = History!Return(lin, c, <<>>)
              /\ UNCHANGED <<S, val, seen, late, calls>>

\* array_scan
Announce == /\ calls[Scanner] < MaxScans
            /\ Goto(Scanner, "idle", "clear1")
            /\ S' = 1
            /\ calls' = [calls EXCEPT ![Scanner] = @ + 1]
            /\ lin' = History!Call(lin, Scanner, <<"scan">>)
            /\ UNCHANGED <<val, fwd, seen, late>>

Clear(c) == /\ IF c = 1 THEN Goto(Scanner, "clear1", "clear2")
                        ELSE Goto(Scanner, "clear2", "load1")
            /\ fwd' = [fwd EXCEPT ![c] = Bottom]
            /\ UNCHANGED <<S, val, seen, late, calls, lin>>

Load(c) == /\ IF c = 1 THEN Goto(Scanner, "load1", "load2")
                       ELSE Goto(Scanner, "load2", "close")
           /\ seen' = [seen EXCEPT ![c] = val[c]]
           /\ UNCHANGED <<S, val, fwd, late, calls, lin>>

Close == /\ Goto(Scanner, "close", "late1")
         /\ S' = 0
         /\ UNCHANGED <<val, fwd, seen, late, calls, lin>>

LoadForwarded(c) ==
  /\ late' = [late EXCEPT ![c] = fwd[c]]
  /\ IF c = 1 THEN /\ Goto(Scanner, "late1", "late2")
                   /\ UNCHANGED lin
     ELSE /\ Goto(Scanner, "late2", "idle")
          /\ lin' = History!Return(lin, Scanner,
                      [i \in 1..2 |-> IF late'[i] # Bottom THEN late'[i] ELSE seen[i]])
  /\ UNCHANGED <<S, val, fwd, seen, calls>>

Next == \/ Announce \/ Close
        \/ \E c \in Components : \/ StoreValue(c) \/ LoadS(c) \/ Forward(c)
                                 \/ Clear(c) \/ Load(c) \/ LoadForwarded(c)
=============================================================================
