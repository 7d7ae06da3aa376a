------------------------------ MODULE MCMysh ------------------------------
(* Scripts for the model of mysh. *)
EXTENDS Mysh

C(op, arg) == [op |-> op, arg |-> arg, line |-> 1]
M(n, op, arg) == [op |-> op, arg |-> arg, line |-> n]

MCScript == {"nested", "macro", "error"}
MCCmds ==
  [\* begin_parallel / begin_sequential / p2 / p3 / end / p1 / end / p4
   nested |-> <<C("block", "par"), C("run", "p4")>>,
   par |-> <<C("block", "seq"), C("run", "p1")>>,
   seq |-> <<C("run", "p2"), C("run", "p3")>>,
   \* A macro of two lines, the second a parallel block with a del in it.
   macro |-> <<M(1, "run", "m1"), M(2, "block", "mpar"), C("run", "m3")>>,
   mpar |-> <<C("run", "m2"), C("del", "macro")>>,
   \* Two child threads that die when their first process succeeds, and an
   \* error in the main thread.
   error |-> <<C("block", "epar"), C("bad", "error")>>,
   epar |-> <<C("block", "eseq"), C("block", "eseq2")>>,
   eseq |-> <<C("run", "e1"), C("baddir", "e2")>>,
   eseq2 |-> <<C("run", "e3"), C("bad", "error")>>]
MCBlock == DOMAIN MCCmds
MCParallel == [b \in MCBlock |-> b \in {"par", "mpar", "epar"}]
MCProcess == {"p1", "p2", "p3", "p4", "m1", "m2", "m3", "e1", "e2", "e3"}
MCMaxProcesses == [s \in MCScript |-> IF s = "nested" THEN 1 ELSE 2]
MCMaxTime == [s \in MCScript |-> IF s = "macro" THEN 2 ELSE 1]
=============================================================================
