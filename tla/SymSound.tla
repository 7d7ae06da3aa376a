------------------------------ MODULE SymSound ------------------------------
(***************************************************************************)
(* What a verdict of the symbolic executor is worth: the program is        *)
(* verified first, and when VeriFast accepts it, main is run on a concrete *)
(* C machine.  The machine is not VeriFast code: it is what the contracts  *)
(* and the proof obligations of verify_stmt are about.                     *)
(***************************************************************************)
EXTENDS SymExec

CONSTANTS Addr,         \* the addresses malloc may return
          MaxFrames     \* bound: a call that would nest deeper stops the machine

VARIABLES
    mem,        \* the allocated objects: a function from addresses to values
    frames,     \* the stack of calls, the current one first
    status      \* "idle", "running", "done", "cut" or "error"

mvars == <<mem, frames, status>>
vars == <<svars, mvars>>

ASSUME AddrAssumption == Addr \subseteq Nat \ {0} /\ MaxFrames \in Nat \ {0}

Uninit == -1

Frame(f, ts, x) == [env |-> Params(prog.funs[f].params, ts), k |-> prog.funs[f].body, x |-> x]

Start == /\ verdict = "verified" /\ status = "idle"
         /\ frames' = <<Frame("main", <<>>, "_")>>
         /\ status' = "running"
         /\ UNCHANGED <<svars, mem>>

Env1 == frames[1].env

Goto(env, k) == frames' = [frames EXCEPT ![1].env = env, ![1].k = k]

Holds(c) == (Env1[c.l] = Env1[c.r]) = c.eq

Err == /\ status' = "error" /\ UNCHANGED <<mem, frames>>

\* A statement of C; ghost statements do nothing.
Exec(s, rest) ==
    \/ /\ s.op = "assign"
       /\ Goto((s.x :> Env1[s.e]) @@ Env1, rest)
       /\ UNCHANGED <<mem, status>>
    \/ /\ s.op = "malloc"
       /\ \/ /\ Goto((s.x :> Null) @@ Env1, rest)
             /\ UNCHANGED <<mem, status>>
          \/ \E a \in Addr \ DOMAIN mem :
             /\ mem' = (a :> Uninit) @@ mem
             /\ Goto((s.x :> a) @@ Env1, rest)
             /\ UNCHANGED status
    \/ /\ s.op = "free"
       /\ IF Env1[s.e] \in DOMAIN mem
          THEN /\ mem' = Restrict(mem, DOMAIN mem \ {Env1[s.e]})
               /\ Goto(Env1, rest)
               /\ UNCHANGED status
          ELSE Err
    \/ /\ s.op = "read"
       /\ IF Env1[s.e] \notin DOMAIN mem THEN Err
          ELSE IF mem[Env1[s.e]] = Uninit THEN Err
          ELSE /\ Goto((s.x :> mem[Env1[s.e]]) @@ Env1, rest)
               /\ UNCHANGED <<mem, status>>
    \/ /\ s.op = "write"
       /\ IF Env1[s.e] \in DOMAIN mem
          THEN /\ mem' = [mem EXCEPT ![Env1[s.e]] = Env1[s.v]]
               /\ Goto(Env1, rest)
               /\ UNCHANGED status
          ELSE Err
    \/ /\ s.op = "if"
       /\ Goto(Env1, (IF Holds(s.c) THEN s.yes ELSE s.no) \o rest)
       /\ UNCHANGED <<mem, status>>
    \/ /\ s.op = "while"
       /\ Goto(Env1, IF Holds(s.c) THEN s.body \o <<s>> \o rest ELSE rest)
       /\ UNCHANGED <<mem, status>>
    \/ /\ s.op = "assert"
       /\ IF Holds(s.c) THEN Goto(Env1, rest) /\ UNCHANGED <<mem, status>> ELSE Err
    \/ /\ s.op = "call"
       /\ IF Len(frames) = MaxFrames
          THEN status' = "cut" /\ UNCHANGED frames
          ELSE /\ frames' = <<Frame(s.f, Values(Env1, s.args), s.x)>>
                            \o [frames EXCEPT ![1].k = rest]
               /\ UNCHANGED status
       /\ UNCHANGED mem
    \/ /\ s.op \in {"leak", "open", "close"}
       /\ Goto(Env1, rest)
       /\ UNCHANGED <<mem, status>>

\* The end of the body, or a return statement, returns to the caller.
Leave(v) ==
    /\ IF Len(frames) = 1
       THEN status' = "done" /\ frames' = <<>>
       ELSE /\ frames' = [Tail(frames) EXCEPT ![1].env = (frames[1].x :> v) @@ @]
            /\ UNCHANGED status
    /\ UNCHANGED mem

Run ==
    /\ status = "running"
    /\ LET k == frames[1].k IN
       \/ k = <<>> /\ Leave(Null)
       \/ k # <<>> /\ Head(k).op = "return"
          /\ Leave(IF Head(k).e = "void" THEN Null ELSE Env1[Head(k).e])
       \/ k # <<>> /\ Head(k).op # "return" /\ Exec(Head(k), Tail(k))
    /\ UNCHANGED svars

SoundInit == /\ Init
             /\ mem = <<>> /\ frames = <<>> /\ status = "idle"

Next == \/ Verify /\ UNCHANGED mvars
        \/ Start
        \/ Run

Spec == SoundInit /\ [][Next]_vars /\ WF_vars(Verify /\ UNCHANGED mvars)

----------------------------------------------------------------------------
(* Properties.                                                             *)

\* An accepted program never fails when it runs: verify_stmt asks for the
\* permissions and facts that every access, free and assert needs.
Sound == status # "error"

RECURSIVE HasLeak(_)
HasLeak(ss) == \E i \in DOMAIN ss :
    \/ ss[i].op = "leak"
    \/ ss[i].op = "if" /\ (HasLeak(ss[i].yes) \/ HasLeak(ss[i].no))
    \/ ss[i].op = "while" /\ HasLeak(ss[i].body)

\* An accepted program without a leak statement frees all its memory:
\* check_leaks at the end of every function and every loop body.
NoLeaks == (status = "done" /\ \A f \in DOMAIN prog.funs : ~HasLeak(prog.funs[f].body)) => DOMAIN mem = {}

\* Verification ends, also of a program with loops and recursive functions
\* that may run forever: a loop body is executed once and a call is its contract.
VerificationTerminates == <>(verdict # "verifying")
=============================================================================
