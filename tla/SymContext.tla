----------------------------- MODULE SymContext -----------------------------
(***************************************************************************)
(* The symbolic execution context of verifast1.ml: fresh identifiers       *)
(* (mk_ident), the dummy fraction terms and predicate constructor          *)
(* applications registered so far, the prover's path condition, and the    *)
(* context stack, together with the control structure that saves and       *)
(* restores them: verify_func, execute_branch/in_temporary_context,        *)
(* with_context, assume and branch, and the unwinding of these calls when  *)
(* a SymbolicExecutionError is caught by check_should_fail.                *)
(*                                                                         *)
(* A term is abstracted to the identifier of the fresh symbol it is about; *)
(* an OCaml list used as a stack is a sequence with its head last; the     *)
(* list used_ids_undo_stack, whose order does not matter, is the number of *)
(* occurrences of each cell.                                               *)
(***************************************************************************)
EXTENDS Naturals, FiniteSets, Sequences

(* Of SequencesExt, whose many other definitions only slow the proofs. *)
Front(s) == SubSeq(s, 1, Len(s) - 1)
Last(s) == s[Len(s)]

CONSTANTS
  Ident,       \* strings that can be identifiers
  BaseIdent,   \* the identifiers that mk_ident is called with
  DummyIdent,  \* "dummy", the base of dummy fraction symbols
  MaxIndex,    \* bound: the largest index sprintf "%s%d" appends
  Index,       \* Index[s][n]: the identifier s followed by the numeral n
  MaxFrames,   \* bound: nesting depth of the calls modelled
  MaxDepth,    \* bound: levels on the prover stack and the context stack stack
  MaxFresh,    \* bound: live identifiers
  ShouldFail   \* whether the program has should_fail directives

ASSUME IdentAssumption ==
  /\ BaseIdent \subseteq Ident
  /\ DummyIdent \in BaseIdent
  /\ MaxIndex \in Nat
  /\ Index \in [BaseIdent -> [0..MaxIndex -> Ident]]
  /\ \A s \in BaseIdent, n \in 0..MaxIndex : Index[s][n] # s

ASSUME BoundAssumption ==
  MaxFrames \in Nat /\ MaxDepth \in Nat /\ MaxFresh \in Nat /\ ShouldFail \in BOOLEAN

VARIABLES
  used_ids,                \* use count cell of each identifier
  used_ids_undo_stack,     \* decrements due at the next pop()
  dummy_frac_terms,
  pred_ctor_applications,
  used_ids_stack,          \* what push() saved, and the ghost fields ids, issued
  path_condition,          \* assumptions in force in the prover
  prover_stack,            \* path conditions saved by ctxt#push
  contextStack,
  contextStackStack,
  frames,                  \* the OCaml calls in progress, with ghost snapshots
  status,                  \* "run", "raise" or "aborted"
  issued                   \* ghost: live symbols that carry each identifier

idVars == <<used_ids, used_ids_undo_stack, dummy_frac_terms,
            pred_ctor_applications, used_ids_stack, issued>>
proverVars == <<path_condition, prover_stack>>
contextVars == <<contextStack, contextStackStack>>
vars == <<idVars, proverVars, contextVars, frames, status>>

Kinds == {"func", "temp", "with_context", "assume", "left", "right"}
Messages == {"Executing", "Assuming", "LeftBranch", "RightBranch"}
Zeros == [i \in Ident |-> 0]

Init ==
  /\ used_ids = Zeros
  /\ used_ids_undo_stack = Zeros
  /\ dummy_frac_terms = {}
  /\ pred_ctor_applications = {}
  /\ used_ids_stack = <<>>
  /\ path_condition = {}
  /\ prover_stack = <<>>
  /\ contextStack = <<>>
  /\ contextStackStack = <<>>
  /\ frames = <<>>
  /\ status = "run"
  /\ issued = Zeros

-----------------------------------------------------------------------------
(* The pieces of push() and pop(). *)

PushUsedIds ==
  /\ used_ids_stack' = Append(used_ids_stack,
       [undo |-> used_ids_undo_stack, fracs |-> dummy_frac_terms,
        ctors |-> pred_ctor_applications, ids |-> used_ids, issued |-> issued])
  /\ used_ids_undo_stack' = Zeros
  /\ UNCHANGED <<used_ids, dummy_frac_terms, pred_ctor_applications, issued>>

(* Mutant: the dummy fraction terms are not put back. *)
PopUsedIdsKeepsFracs ==
  LET saved == Last(used_ids_stack) IN
  /\ used_ids' = [i \in Ident |-> used_ids[i] - used_ids_undo_stack[i]]
  /\ used_ids_undo_stack' = saved.undo
  /\ pred_ctor_applications' = saved.ctors
  /\ issued' = saved.issued
  /\ used_ids_stack' = Front(used_ids_stack)
  /\ UNCHANGED dummy_frac_terms

PopUsedIds ==
  LET saved == Last(used_ids_stack) IN
  /\ used_ids' = [i \in Ident |-> used_ids[i] - used_ids_undo_stack[i]]
  /\ used_ids_undo_stack' = saved.undo
  /\ dummy_frac_terms' = saved.fracs
  /\ pred_ctor_applications' = saved.ctors
  /\ issued' = saved.issued
  /\ used_ids_stack' = Front(used_ids_stack)

ProverPush ==
  /\ prover_stack' = Append(prover_stack, path_condition)
  /\ UNCHANGED path_condition

ProverPop ==
  /\ path_condition' = Last(prover_stack)
  /\ prover_stack' = Front(prover_stack)

(* ctxt#push followed by ctxt#assume of a term about i. *)
ProverPushAssume(i) ==
  /\ prover_stack' = Append(prover_stack, path_condition)
  /\ path_condition' = path_condition \union {i}

(* push_contextStack () followed by push_context of the messages in msgs. *)
PushContextStack(msgs) ==
  /\ contextStackStack' = Append(contextStackStack, contextStack)
  /\ contextStack' = contextStack \o msgs

PopContextStack ==
  /\ contextStack' = Last(contextStackStack)
  /\ contextStackStack' = Front(contextStackStack)

Push == PushUsedIds /\ ProverPush /\ PushContextStack(<<>>)

Pop == PopUsedIds /\ ProverPop /\ PopContextStack

-----------------------------------------------------------------------------
(* Calls in progress. *)

Running == status = "run"
Kind == Last(frames).kind
InBody == frames # <<>> /\ Kind # "func"

Snapshot(kind) ==
  [kind |-> kind, ids |-> used_ids, fracs |-> dummy_frac_terms,
   ctors |-> pred_ctor_applications, pc |-> path_condition,
   context |-> contextStack, idsDepth |-> Len(used_ids_stack),
   proverDepth |-> Len(prover_stack), contextDepth |-> Len(contextStackStack)]

Enter(kind) ==
  /\ Running
  /\ Len(frames) < MaxFrames
  /\ Len(prover_stack) < MaxDepth /\ Len(contextStackStack) < MaxDepth
  /\ frames' = Append(frames, Snapshot(kind))
  /\ UNCHANGED status

Leave(kind) ==
  /\ Running
  /\ frames # <<>> /\ Kind = kind
  /\ frames' = Front(frames)
  /\ UNCHANGED status

Live == {i \in Ident : issued[i] > 0}

-----------------------------------------------------------------------------
(* Fresh identifiers and registered terms. *)

(* The identifier tried for count n of the loop find_unused_ident. Count 0 *)
(* is tried only when the cell of s is 0.                                  *)
IdentAt(s, n) == IF n = 0 THEN s ELSE Index[s][n - 1]

(* Mutant: an identifier with an index is taken without looking it up. *)
IsFreeUnchecked(s, n) == n > 0 \/ used_ids[s] = 0

IsFree(s, n) == used_ids[IdentAt(s, n)] = 0

(* mk_ident: every iteration increments the cell of s and records it for   *)
(* undoing, until the identifier at count n is not in use.                 *)
MkIdent(s, n) ==
  /\ Cardinality(Live) < MaxFresh
  /\ IsFree(s, n)
  /\ \A m \in used_ids[s]..(n - 1) : ~IsFree(s, m)
  /\ LET r == IdentAt(s, n) IN
       /\ used_ids' = [used_ids EXCEPT ![s] = n + 1, ![r] = 1]
       /\ used_ids_undo_stack' =
            [used_ids_undo_stack EXCEPT ![s] = @ + (n + 1 - used_ids[s]),
                                        ![r] = IF n = 0 THEN @ ELSE @ + 1]
       /\ issued' = [issued EXCEPT ![r] = @ + 1]

FreshSymbol(s) ==
  /\ Running
  /\ \E n \in used_ids[s]..(MaxIndex + 1) : MkIdent(s, n)
  /\ UNCHANGED <<dummy_frac_terms, pred_ctor_applications, used_ids_stack,
                 proverVars, contextVars, frames, status>>

FreshDummyFrac ==
  /\ Running
  /\ \E n \in used_ids[DummyIdent]..(MaxIndex + 1) :
       /\ MkIdent(DummyIdent, n)
       /\ dummy_frac_terms' = dummy_frac_terms \union {IdentAt(DummyIdent, n)}
  /\ UNCHANGED <<pred_ctor_applications, used_ids_stack,
                 proverVars, contextVars, frames, status>>

RegisterPredCtorApplication(i) ==
  /\ Running
  /\ pred_ctor_applications' = pred_ctor_applications \union {i}
  /\ UNCHANGED <<used_ids, used_ids_undo_stack, dummy_frac_terms,
                 used_ids_stack, issued, proverVars, contextVars, frames, status>>

(* ctxt#assert_term: an assumption added to the current prover level. *)
AssertTerm(i) ==
  /\ Running
  /\ path_condition' = path_condition \union {i}
  /\ UNCHANGED <<idVars, prover_stack, contextVars, frames, status>>

-----------------------------------------------------------------------------
(* Calls and returns. *)

StartFunc ==
  /\ frames = <<>>
  /\ Enter("func")
  /\ Push

EndFunc == Leave("func") /\ Pop

StartTemporary ==
  /\ frames # <<>>
  /\ Enter("temp")
  /\ Push

EndTemporary == Leave("temp") /\ Pop

StartWithContext ==
  /\ InBody
  /\ Enter("with_context")
  /\ PushContextStack(<<"Executing">>)
  /\ UNCHANGED <<idVars, proverVars>>

EndWithContext ==
  /\ Leave("with_context")
  /\ PopContextStack
  /\ UNCHANGED <<idVars, proverVars>>

(* assume t cont, when the prover answers Unknown; when it answers Unsat   *)
(* everything is undone at once.                                           *)
StartAssume(i) ==
  /\ InBody
  /\ Enter("assume")
  /\ ProverPushAssume(i)
  /\ contextStack' = Append(contextStack, "Assuming")
  /\ UNCHANGED <<idVars, contextStackStack>>

(* Mutant: the assumption stays in the prover. *)
EndAssumeNoPop ==
  /\ Leave("assume")
  /\ contextStack' = Front(contextStack)
  /\ UNCHANGED <<idVars, proverVars, contextStackStack>>

EndAssume ==
  /\ Leave("assume")
  /\ ProverPop
  /\ contextStack' = Front(contextStack)
  /\ UNCHANGED <<idVars, contextStackStack>>

(* branch cont1 cont2: cont1 runs in a temporary context under a           *)
(* LeftBranch message, then cont2 under a RightBranch message.             *)
StartBranch ==
  /\ InBody
  /\ Enter("left")
  /\ PushUsedIds /\ ProverPush
  /\ contextStack' = Append(contextStack, "LeftBranch")
  /\ contextStackStack' = Append(contextStackStack, contextStack')

SwitchBranch ==
  /\ Running /\ frames # <<>> /\ Kind = "left"
  /\ LET saved == Last(used_ids_stack) IN
       /\ used_ids' = [i \in Ident |-> used_ids[i] - used_ids_undo_stack[i]]
       /\ used_ids_undo_stack' = Zeros
       /\ dummy_frac_terms' = saved.fracs
       /\ pred_ctor_applications' = saved.ctors
       /\ issued' = saved.issued
  /\ path_condition' = Last(prover_stack)
  /\ contextStack' = Append(Front(Last(contextStackStack)), "RightBranch")
  /\ contextStackStack' = Append(Front(contextStackStack), contextStack')
  /\ frames' = [frames EXCEPT ![Len(frames)].kind = "right"]
  /\ UNCHANGED <<used_ids_stack, prover_stack, status>>

EndBranch ==
  /\ Leave("right")
  /\ PopUsedIds /\ ProverPop
  /\ contextStack' = Front(Last(contextStackStack))
  /\ contextStackStack' = Front(contextStackStack)

-----------------------------------------------------------------------------
(* Exceptions: assert_false raises SymbolicExecutionError. Only            *)
(* with_context has a finally clause; the other calls are abandoned. The   *)
(* kind "with_context" stands for with_context and with_context_force,     *)
(* which do the same except here: with_context_force has no finally.       *)

AssertFalse ==
  /\ Running /\ InBody
  /\ status' = "raise"
  /\ UNCHANGED <<idVars, proverVars, contextVars, frames>>

UnwindWithContext ==
  /\ status = "raise" /\ InBody /\ Kind = "with_context"
  /\ PopContextStack
  /\ frames' = Front(frames)
  /\ UNCHANGED <<idVars, proverVars, status>>

(* Mutant: every call has a finally clause like that of with_context. *)
UnwindOtherPops ==
  /\ status = "raise" /\ InBody
  /\ PopContextStack
  /\ frames' = Front(frames)
  /\ UNCHANGED <<idVars, proverVars, status>>

UnwindOther ==
  /\ status = "raise" /\ InBody
  /\ frames' = Front(frames)
  /\ UNCHANGED <<idVars, proverVars, contextVars, status>>

(* check_should_fail catches the error of a line with a directive; the     *)
(* pop() at the end of verify_func follows.                                *)
CatchShouldFail ==
  /\ status = "raise" /\ frames # <<>> /\ Kind = "func"
  /\ ShouldFail
  /\ Pop
  /\ frames' = Front(frames)
  /\ status' = "run"

Abort ==
  /\ status = "raise" /\ frames # <<>> /\ Kind = "func"
  /\ frames' = Front(frames)
  /\ status' = "aborted"
  /\ UNCHANGED <<idVars, proverVars, contextVars>>

Next ==
  \/ \E s \in BaseIdent : FreshSymbol(s)
  \/ FreshDummyFrac
  \/ \E i \in Live : \/ RegisterPredCtorApplication(i)
                     \/ AssertTerm(i)
                     \/ StartAssume(i)
  \/ StartFunc \/ EndFunc
  \/ StartTemporary \/ EndTemporary
  \/ StartWithContext \/ EndWithContext
  \/ EndAssume
  \/ StartBranch \/ SwitchBranch \/ EndBranch
  \/ AssertFalse \/ UnwindWithContext \/ UnwindOther
  \/ CatchShouldFail \/ Abort

Spec == Init /\ [][Next]_vars

-----------------------------------------------------------------------------
(* Type invariant: cells and undo counts are naturals (an undo never       *)
(* decrements a use count below zero), and stacks hold what was saved.     *)
Counts == [Ident -> Nat]
SavedIds == [undo : Counts, fracs : SUBSET Ident, ctors : SUBSET Ident,
             ids : Counts, issued : Counts]
Frame == [kind : Kinds, ids : Counts, fracs : SUBSET Ident, ctors : SUBSET Ident,
          pc : SUBSET Ident, context : Seq(Messages),
          idsDepth : Nat, proverDepth : Nat, contextDepth : Nat]
TypeOK ==
  /\ used_ids \in Counts
  /\ used_ids_undo_stack \in Counts
  /\ dummy_frac_terms \subseteq Ident
  /\ pred_ctor_applications \subseteq Ident
  /\ used_ids_stack \in Seq(SavedIds)
  /\ path_condition \subseteq Ident
  /\ prover_stack \in Seq(SUBSET Ident)
  /\ contextStack \in Seq(Messages)
  /\ contextStackStack \in Seq(Seq(Messages))
  /\ frames \in Seq(Frame)
  /\ status \in {"run", "raise", "aborted"}
  /\ issued \in Counts

(* mk_ident is fresh: no two live symbols ever carry the same identifier,  *)
(* whatever was pushed, popped, skipped by find_unused_ident or abandoned  *)
(* by an exception in between.                                             *)
NamesDistinct == \A i \in Ident : issued[i] <= 1

(* No dummy fraction term or predicate constructor application is about a  *)
(* symbol that pop() has forgotten, whose identifier could be handed out   *)
(* again for another symbol: not even after a caught error, whose pop()    *)
(* takes the topmost level and not the one verify_func pushed. push()      *)
(* saves them with used_ids; the prover has a stack of its own, which      *)
(* assume makes deeper, so the assumptions are about live symbols only as  *)
(* long as no caught error left a level of the prover over.                *)
NothingLeftOver ==
  IF frames = <<>> THEN prover_stack = <<>> ELSE frames[1].proverDepth = 0
TermsAreLive ==
  /\ dummy_frac_terms \union pred_ctor_applications \subseteq Live
  /\ NothingLeftOver => path_condition \subseteq Live

(* When a call returns normally, and when branch moves on to its second    *)
(* continuation, the path condition is the one at entry; the calls that    *)
(* use push() and pop() also give back the used identifiers, the dummy     *)
(* fraction terms and the predicate constructor applications.              *)
RestoresEntryState ==
  LET entry == Last(frames) IN
  /\ entry.kind # "with_context" => path_condition' = entry.pc
  /\ entry.kind # "left" => contextStack' = entry.context
  /\ entry.kind \notin {"with_context", "assume"} =>
       /\ used_ids' = entry.ids
       /\ dummy_frac_terms' = entry.fracs
       /\ pred_ctor_applications' = entry.ctors
RestoredOnReturn ==
  [][status = "run" /\ frames' # frames /\ Len(frames') <= Len(frames)
       => RestoresEntryState]_vars

(* pop(), ctxt#pop and pop_contextStack() take the head of a list without  *)
(* a case for the empty one. Whatever calls an exception abandoned, every  *)
(* call in progress still finds the level it pushed, or a later one.       *)
StacksSuffice ==
  \A j \in DOMAIN frames :
    LET f == frames[j] IN
    /\ f.kind \notin {"with_context", "assume"} => f.idsDepth < Len(used_ids_stack)
    /\ f.kind # "with_context" => f.proverDepth < Len(prover_stack)
    /\ f.kind # "assume" => f.contextDepth < Len(contextStackStack)

(* pop() is to "restore the previous path condition, set of used IDs, and  *)
(* set of dummy fraction terms": the pop() that ends verify_func restores  *)
(* those of its push(), also when check_should_fail caught an error.       *)
FuncRestores ==
  [][frames # <<>> /\ frames' = <<>> /\ status' = "run"
       => /\ path_condition' = frames[1].pc
          /\ used_ids' = frames[1].ids
          /\ dummy_frac_terms' = frames[1].fracs]_vars
=============================================================================
