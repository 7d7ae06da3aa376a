-------------------------- MODULE SymContextProofs --------------------------
(***************************************************************************)
(* Proofs about SymContext: type correctness, freshness of mk_ident, and   *)
(* that every pop finds a level to pop and every normal return restores    *)
(* the state at entry, also after errors that check_should_fail caught;    *)
(* and, as long as no such error left a level over, that what the prover   *)
(* and the executor know is about symbols that are still live.             *)
(***************************************************************************)
EXTENDS SymContextLemmas

(* The inductive invariant. *)

RestType ==
  /\ path_condition \subseteq Ident
  /\ contextStack \in Seq(Messages)
  /\ status \in {"run", "raise", "aborted"}

LEMMA TypeParts == TypeOK <=> IdsType /\ StacksType /\ RestType
BY DEF TypeOK, IdsType, StacksType, RestType

LEMMA InvParts ==
  IInv <=> IdsInv /\ StacksType /\ RestType /\ Depths /\ Aligned /\ FuncOutermost
<1>1. IdsInv => used_ids_stack \in Seq(SavedIds)
  BY DEF IdsInv, IdsType
<1> QED
  BY TypeParts DEF IInv, IdsInv

LEMMA FrontOutermost ==
  ASSUME frames \in Seq(Frame), FuncOutermost, frames # <<>>, frames' = Front(frames)
  PROVE  FuncOutermost'
<1>1. /\ Len(frames) \in Nat /\ Len(frames') = Len(frames) - 1
      /\ \A j \in 1..(Len(frames) - 1) : frames'[j] = frames[j]
  BY FrontFacts
<1> QED
  BY <1>1 DEF FuncOutermost

(* The invariant after a call starts. *)
LEMMA EnterInv ==
  ASSUME IInv, NEW kind \in Kinds, Enter(kind), EnterEffect(kind),
         IdsInv', path_condition' \subseteq Ident, kind = "func" => frames = <<>>
  PROVE  IInv'
<1>1. TypeOK /\ Depths /\ Aligned /\ FuncOutermost /\ status = "run" /\ status' = "run"
  BY DEF IInv, Enter, Running
<1>2. StacksType' /\ contextStack' \in Seq(Messages)
  BY <1>1, EnterStacks
<1>3. RestType'
  BY <1>1, <1>2 DEF RestType
<1>4. Depths' /\ Aligned'
  BY <1>1, EnterAligned
<1>5. FuncOutermost'
  <2>1. frames \in Seq(Frame) /\ Snapshot(kind) \in Frame
        /\ frames' = Append(frames, Snapshot(kind))
    BY <1>1, EnterStacks DEF EnterEffect, TypeOK
  <2>2. Snapshot(kind).kind = kind
    BY DEF Snapshot
  <2>3. /\ Len(frames) \in Nat /\ Len(frames') = Len(frames) + 1
        /\ \A j \in 1..Len(frames) : frames'[j] = frames[j]
        /\ frames'[Len(frames) + 1] = Snapshot(kind)
    BY <2>1, AppendFacts
  <2>4. SUFFICES ASSUME NEW j \in 1..Len(frames'), frames'[j].kind = "func"
                 PROVE  j = 1
    BY DEF FuncOutermost
  <2>5. CASE j = Len(frames) + 1
    <3>1. Len(frames) = 0
      BY <2>2, <2>3, <2>4, <2>5
    <3> QED
      BY <2>5, <3>1
  <2>6. CASE j # Len(frames) + 1
    <3>1. j \in 1..Len(frames)
      BY <2>3, <2>6
    <3> QED
      BY <1>1, <2>3, <2>4, <3>1 DEF FuncOutermost
  <2> QED
    BY <2>5, <2>6
<1> QED
  BY <1>2, <1>3, <1>4, <1>5, InvParts, PTL

(* The invariant after a call returns. *)
LEMMA LeaveInv ==
  ASSUME IInv, NEW kind \in Kinds, Leave(kind), LeaveEffect,
         IdsInv', path_condition' \subseteq Ident
  PROVE  IInv'
<1>1. TypeOK /\ Depths /\ Aligned /\ FuncOutermost /\ status = "run" /\ status' = "run"
  BY DEF IInv, Leave, Running
<1>2. StacksType' /\ Depths' /\ Aligned'
  BY <1>1, LeaveAligned
<1>3. RestType'
  <2>1. Last(frames) \in Frame
    BY <1>1, TopAligned DEF LeaveEffect
  <2> QED
    BY <1>1, <2>1 DEF RestType, LeaveEffect, Frame
<1>4. FuncOutermost'
  BY <1>1, FrontOutermost DEF LeaveEffect, TypeOK
<1> QED
  BY <1>2, <1>3, <1>4, InvParts, PTL

(* The invariant after a step that leaves the calls and the stacks alone. *)
LEMMA SameCalls ==
  ASSUME IInv, IdsInv', path_condition' \subseteq Ident,
         UNCHANGED <<used_ids_stack, prover_stack, contextStack, contextStackStack, frames>>,
         status' \in {"run", "raise", "aborted"}, status' = "run" => status = "run"
  PROVE  IInv'
<1>1. IdsInv /\ StacksType /\ RestType /\ Depths /\ Aligned /\ FuncOutermost
  BY InvParts
<1>2. StacksType' /\ RestType' /\ FuncOutermost'
  BY <1>1 DEF StacksType, RestType, FuncOutermost
<1>3. Depths'
  BY <1>1 DEF Depths, IdsDepthIn, ProverDepthIn, ContextDepthIn
<1>4. Aligned'
  BY <1>1 DEF Aligned, IdsAligned, ProverAligned, ContextAligned, BodyContext,
              IdsDepthIn, ProverDepthIn, ContextDepthIn, ContextIn
<1> QED
  BY <1>2, <1>3, <1>4, InvParts, PTL

LEMMA SameIds ==
  ASSUME IdsInv, UNCHANGED idVars
  PROVE  IdsInv'
BY DEF IdsInv, IdsType, UndoChain, FreshLevels, Fresh, IdsAbove, UndoAbove, idVars

LEMMA PushSaves ==
  ASSUME IdsInv, PushUsedIds
  PROVE  \E e \in SavedIds :
           /\ used_ids_stack' = Append(used_ids_stack, e)
           /\ e.ids = used_ids /\ e.fracs = dummy_frac_terms
           /\ e.ctors = pred_ctor_applications
<1> DEFINE e == [undo |-> used_ids_undo_stack, fracs |-> dummy_frac_terms,
                 ctors |-> pred_ctor_applications, ids |-> used_ids, issued |-> issued]
<1>1. e \in SavedIds
  BY DEF IdsInv, IdsType, SavedIds
<1>2. /\ used_ids_stack' = Append(used_ids_stack, e)
      /\ e.ids = used_ids /\ e.fracs = dummy_frac_terms
      /\ e.ctors = pred_ctor_applications
  BY DEF PushUsedIds
<1> QED
  BY <1>1, <1>2

(* What the context is while a call of each kind is in progress. *)
LEMMA BodyContextOf ==
  ASSUME NEW f
  PROVE  /\ f.kind \in {"func", "temp"} => BodyContext(f) = f.context
         /\ f.kind = "with_context" => BodyContext(f) = Append(f.context, "Executing")
         /\ f.kind = "assume" => BodyContext(f) = Append(f.context, "Assuming")
         /\ f.kind = "left" => BodyContext(f) = Append(f.context, "LeftBranch")
         /\ f.kind = "right" => BodyContext(f) = Append(f.context, "RightBranch")
BY DEF BodyContext

(* A normal return pops the level its call pushed, and so restores the     *)
(* state at entry.                                                         *)
LEMMA ReturnEffect ==
  ASSUME IInv,
         EndFunc \/ EndTemporary \/ EndWithContext \/ EndAssume \/ EndBranch
  PROVE  /\ LeaveEffect /\ RestoresEntryState
         /\ IdsInv' /\ path_condition' \subseteq Ident /\ status = "run" /\ status' = "run"
<1>0. IdsInv /\ StacksType /\ RestType /\ Aligned /\ TypeOK
  BY InvParts DEF IInv
<1>1. status = "run" /\ status' = "run" /\ frames # <<>> /\ frames' = Front(frames)
  BY DEF EndFunc, EndTemporary, EndWithContext, EndAssume, EndBranch, Leave, Running
<1>2. /\ Last(frames) \in Frame /\ Kind \in Kinds
      /\ contextStack = BodyContext(Last(frames))
      /\ TopIds /\ TopProver /\ TopContext
  BY <1>0, <1>1, TopAligned
<1>3. Last(frames).pc \subseteq Ident /\ Last(frames).context \in Seq(Messages)
  BY <1>2 DEF Frame
<1>4. ASSUME Kind \in IdKinds, PopUsedIds, ProverPop
      PROVE  /\ IdsInv' /\ path_condition' = Last(frames).pc
             /\ used_ids' = Last(frames).ids /\ dummy_frac_terms' = Last(frames).fracs
             /\ pred_ctor_applications' = Last(frames).ctors
             /\ used_ids_stack' = Front(used_ids_stack)
             /\ prover_stack' = Front(prover_stack)
  <2>1. used_ids_stack # <<>> /\ Kind # "with_context"
    BY <1>2, <1>4 DEF TopIds, IdKinds
  <2>2. IdsInv'
    BY <1>0, <1>4, <2>1, PopUsedIdsInv
  <2>3. used_ids' = Last(used_ids_stack).ids
    BY <1>0, <1>4, <2>1, UndoRestores DEF PopUsedIds
  <2> QED
    BY <1>2, <1>4, <2>1, <2>2, <2>3 DEF TopIds, TopProver, PopUsedIds, ProverPop
<1>5. CASE EndFunc \/ EndTemporary
  <2>1. Kind \in {"func", "temp"} /\ Pop
    BY <1>5 DEF EndFunc, EndTemporary, Leave
  <2>2. /\ Kind \in IdKinds /\ Kind # "assume" /\ Kind # "with_context"
        /\ BodyContext(Last(frames)) = Last(frames).context
    BY <2>1, BodyContextOf DEF Kind, IdKinds
  <2>3. contextStack' = Last(frames).context /\ contextStackStack' = Front(contextStackStack)
    BY <1>2, <2>1, <2>2 DEF TopContext, Pop, PopContextStack
  <2> QED
    BY <1>1, <1>3, <1>4, <2>1, <2>2, <2>3 DEF LeaveEffect, RestoresEntryState, Pop, Kind
<1>6. CASE EndBranch
  <2>1. Kind = "right" /\ Kind \in IdKinds
    BY <1>6 DEF EndBranch, Leave, IdKinds
  <2>2. BodyContext(Last(frames)) = Append(Last(frames).context, "RightBranch")
    BY <2>1, BodyContextOf DEF Kind
  <2>3. Front(BodyContext(Last(frames))) = Last(frames).context
    BY <1>3, <2>2, FrontAppend DEF Messages
  <2>4. contextStack' = Last(frames).context /\ contextStackStack' = Front(contextStackStack)
    BY <1>2, <1>6, <2>1, <2>3 DEF TopContext, EndBranch
  <2> QED
    BY <1>1, <1>3, <1>4, <1>6, <2>1, <2>4 DEF LeaveEffect, RestoresEntryState, EndBranch, Kind
<1>7. CASE EndWithContext
  <2>1. Kind = "with_context" /\ Kind \notin IdKinds
    BY <1>7 DEF EndWithContext, Leave, IdKinds
  <2>2. contextStack' = Last(frames).context /\ contextStackStack' = Front(contextStackStack)
    BY <1>2, <1>7, <2>1 DEF TopContext, EndWithContext, PopContextStack
  <2>3. IdsInv' /\ UNCHANGED <<used_ids_stack, path_condition, prover_stack>>
    BY <1>0, <1>7, SameIds DEF EndWithContext, idVars, proverVars
  <2> QED
    BY <1>0, <1>1, <2>1, <2>2, <2>3 DEF LeaveEffect, RestoresEntryState, RestType, Kind
<1>8. CASE EndAssume
  <2>1. Kind = "assume" /\ Kind \notin IdKinds
    BY <1>8 DEF EndAssume, Leave, IdKinds
  <2>2. contextStack = Append(Last(frames).context, "Assuming")
    BY <1>2, <2>1, BodyContextOf DEF Kind
  <2>3. contextStack' = Last(frames).context /\ UNCHANGED contextStackStack
    BY <1>3, <1>8, <2>2, FrontAppend DEF EndAssume, Messages
  <2>4. path_condition' = Last(frames).pc /\ prover_stack' = Front(prover_stack)
    BY <1>2, <1>8, <2>1 DEF TopProver, EndAssume, ProverPop
  <2>5. IdsInv' /\ UNCHANGED used_ids_stack
    BY <1>0, <1>8, SameIds DEF EndAssume, idVars
  <2> QED
    BY <1>1, <1>3, <2>1, <2>3, <2>4, <2>5 DEF LeaveEffect, RestoresEntryState, Kind
<1> QED
  BY <1>5, <1>6, <1>7, <1>8

(* Between its continuations branch restores the state at entry, and the   *)
(* second continuation runs as the first did.                              *)
LEMMA SwitchEffect ==
  ASSUME IInv, SwitchBranch
  PROVE  IInv' /\ RestoresEntryState
<1>0. /\ IdsInv /\ StacksType /\ RestType /\ Depths /\ Aligned /\ FuncOutermost
      /\ TypeOK
  BY InvParts DEF IInv
<1>1. status = "run" /\ status' = "run" /\ frames # <<>> /\ Kind = "left"
  BY DEF SwitchBranch, Running
<1>2. /\ Last(frames) \in Frame /\ TopIds /\ TopProver /\ TopContext
  BY <1>0, <1>1, TopAligned
<1>3. /\ Last(frames).pc \subseteq Ident /\ Last(frames).context \in Seq(Messages)
      /\ Last(frames).idsDepth \in Nat /\ Last(frames).proverDepth \in Nat
      /\ Last(frames).contextDepth \in Nat
  BY <1>2 DEF Frame
<1>4. /\ used_ids_stack # <<>> /\ prover_stack # <<>> /\ contextStackStack # <<>>
      /\ Last(contextStackStack) = Append(Last(frames).context, "LeftBranch")
      /\ Len(contextStackStack) = Last(frames).contextDepth + 1
  <2>1. BodyContext(Last(frames)) = Append(Last(frames).context, "LeftBranch")
    BY <1>1, BodyContextOf DEF Kind
  <2> QED
    BY <1>1, <1>2, <2>1 DEF TopIds, TopProver, TopContext, IdKinds
<1>5. IdsInv' /\ used_ids' = Last(frames).ids
  <2>1. IdsInv'
    BY <1>0, <1>4, SwitchUsedIdsInv DEF SwitchBranch
  <2>2. used_ids' = Last(used_ids_stack).ids
    BY <1>0, <1>4, UndoRestores DEF SwitchBranch
  <2> QED
    BY <1>1, <1>2, <2>1, <2>2 DEF TopIds, IdKinds
<1>6. RestoresEntryState
  BY <1>1, <1>2, <1>5
    DEF RestoresEntryState, SwitchBranch, TopIds, TopProver, IdKinds, Kind
<1>7. contextStack' = Append(Last(frames).context, "RightBranch")
  <2>1. Front(Last(contextStackStack)) = Last(frames).context
    BY <1>3, <1>4, FrontAppend DEF Messages
  <2> QED
    BY <2>1 DEF SwitchBranch
<1>8. contextStack' \in Seq(Messages)
  BY <1>3, <1>7, AppendFacts DEF Messages
<1>9. PICK d \in Nat : d = Last(frames).contextDepth
  BY <1>3
<1>10. /\ contextStackStack' \in Seq(Seq(Messages))
       /\ Len(contextStackStack') = d + 1
       /\ \A k \in 1..d : contextStackStack'[k] = contextStackStack[k]
       /\ contextStackStack'[d + 1] = contextStack'
  <2>1. /\ Front(contextStackStack) \in Seq(Seq(Messages))
        /\ Len(Front(contextStackStack)) = d
        /\ \A k \in 1..d : Front(contextStackStack)[k] = contextStackStack[k]
    <3>1. Len(contextStackStack) - 1 = d /\ contextStackStack \in Seq(Seq(Messages))
      BY <1>0, <1>4, <1>9 DEF StacksType
    <3> QED
      BY <1>4, <3>1, FrontFacts, Zenon
  <2>2. contextStackStack' = Append(Front(contextStackStack), contextStack')
    BY DEF SwitchBranch
  <2>3. \A k \in 1..d :
          Append(Front(contextStackStack), contextStack')[k] = Front(contextStackStack)[k]
    BY <1>8, <2>1, AppendFacts
  <2> QED
    BY <1>8, <2>1, <2>2, <2>3, AppendFacts
<1>11. PICK n \in Nat : n = Len(frames)
  BY <1>0 DEF StacksType
<1>12. n \in 1..n /\ frames[n] = Last(frames)
  <2>1. n > 0 /\ Last(frames) = frames[n]
    BY <1>0, <1>1, <1>11, FrontFacts, Zenon DEF StacksType
  <2> QED
    BY <2>1
<1>13. /\ frames' \in Seq(Frame) /\ Len(frames') = n
       /\ \A j \in 1..n : /\ frames'[j].idsDepth = frames[j].idsDepth
                         /\ frames'[j].proverDepth = frames[j].proverDepth
                         /\ frames'[j].contextDepth = frames[j].contextDepth
                         /\ frames'[j].context = frames[j].context
       /\ \A j \in 1..n : j # n => frames'[j] = frames[j]
       /\ frames'[n] = [frames[n] EXCEPT !.kind = "right"]
  <2>1. frames' = [frames EXCEPT ![n] = [frames[n] EXCEPT !.kind = "right"]]
    BY <1>11 DEF SwitchBranch
  <2>2. [frames[n] EXCEPT !.kind = "right"] \in Frame
    BY <1>2, <1>12 DEF Frame, Kinds
  <2>3. /\ [frames[n] EXCEPT !.kind = "right"].idsDepth = frames[n].idsDepth
        /\ [frames[n] EXCEPT !.kind = "right"].proverDepth = frames[n].proverDepth
        /\ [frames[n] EXCEPT !.kind = "right"].contextDepth = frames[n].contextDepth
        /\ [frames[n] EXCEPT !.kind = "right"].context = frames[n].context
    BY <1>2, <1>12 DEF Frame
  <2>4. /\ frames' \in Seq(Frame) /\ Len(frames') = n
        /\ \A j \in 1..n : frames'[j] = IF j = n THEN [frames[n] EXCEPT !.kind = "right"]
                                        ELSE frames[j]
    BY <1>0, <1>11, <1>12, <2>1, <2>2, ExceptSeq DEF StacksType
  <2> QED
    BY <1>12, <2>3, <2>4, Zenon
<1>14. ASSUME NEW j \in 1..n
       PROVE  /\ IdsDepthIn(j)' = IdsDepthIn(j) /\ ProverDepthIn(j)' = ProverDepthIn(j)
              /\ ContextDepthIn(j)' = ContextDepthIn(j)
              /\ j # n => ContextIn(j)' = ContextIn(j)
  <2>1. UNCHANGED <<used_ids_stack, prover_stack>>
        /\ Len(contextStackStack') = Len(contextStackStack)
    BY <1>4, <1>9, <1>10 DEF SwitchBranch
  <2>2. CASE j = n
    BY <1>11, <1>13, <2>1, <2>2 DEF IdsDepthIn, ProverDepthIn, ContextDepthIn
  <2>3. CASE j # n
    <3>1. j + 1 \in 1..n
      BY <2>3
    <3> QED
      BY <1>11, <1>13, <2>3, <3>1 DEF IdsDepthIn, ProverDepthIn, ContextDepthIn, ContextIn
  <2> QED
    BY <2>2, <2>3
<1>15. ASSUME NEW j \in 1..n
       PROVE  /\ IdsBump(frames'[j].kind) = IdsBump(frames[j].kind)
              /\ ProverBump(frames'[j].kind) = ProverBump(frames[j].kind)
              /\ ContextBump(frames'[j].kind) = ContextBump(frames[j].kind)
  <2>1. CASE j = n
    <3>1. frames'[j].kind = "right" /\ frames[j].kind = "left"
      BY <1>1, <1>2, <1>12, <1>13, <2>1 DEF Frame, Kind
    <3> QED
      BY <3>1 DEF IdsBump, ProverBump, ContextBump, IdKinds
  <2>2. CASE j # n
    BY <1>13, <2>2
  <2> QED
    BY <2>1, <2>2
<1>16. Depths'
  <2> SUFFICES ASSUME NEW j \in 1..n, NEW k \in j..n
               PROVE  (/\ frames[j].idsDepth + IdsBump(frames[j].kind) <= IdsDepthIn(k)
                       /\ frames[j].proverDepth + ProverBump(frames[j].kind)
                            <= ProverDepthIn(k)
                       /\ frames[j].contextDepth + ContextBump(frames[j].kind)
                            <= ContextDepthIn(k))'
    BY <1>13 DEF Depths
  <2>1. /\ frames[j].idsDepth + IdsBump(frames[j].kind) <= IdsDepthIn(k)
        /\ frames[j].proverDepth + ProverBump(frames[j].kind) <= ProverDepthIn(k)
        /\ frames[j].contextDepth + ContextBump(frames[j].kind) <= ContextDepthIn(k)
    BY <1>0, <1>11 DEF Depths
  <2>2. k \in 1..n
    OBVIOUS
  <2> QED
    BY <1>13, <1>14, <1>15, <2>1, <2>2
<1>17. ASSUME NEW j \in 1..n, j # n
       PROVE  IdsAligned(j)' /\ ProverAligned(j)' /\ ContextAligned(j)'
  <2>1. j \in 1..Len(frames) /\ IdsAligned(j) /\ ProverAligned(j) /\ ContextAligned(j)
    BY <1>0, <1>1, <1>11 DEF Aligned
  <2>2. ContextDepthIn(j) \in Nat /\ ContextDepthIn(j) <= d
    <3>1. j + 1 \in 1..n /\ ContextDepthIn(j) = frames[j + 1].contextDepth
      BY <1>11, <1>17 DEF ContextDepthIn
    <3>2. /\ frames[j + 1].contextDepth \in Nat
          /\ ContextBump(frames[j + 1].kind) \in {0, 1}
          /\ frames[j + 1].contextDepth + ContextBump(frames[j + 1].kind) <= d + 1
      BY <1>0, <1>4, <1>9, <1>11, <3>1, StackLengths, DepthBounds
    <3>3. CASE j + 1 = n
      BY <1>9, <1>12, <3>1, <3>2, <3>3
    <3>4. CASE j + 1 # n
      <4>1. n - 1 \in (j + 1)..n /\ n - 1 # n /\ (n - 1) + 1 = n
        BY <1>17, <3>1, <3>4
      <4>2. frames[j + 1].contextDepth + ContextBump(frames[j + 1].kind) <= d
        BY <1>0, <1>9, <1>11, <1>12, <3>1, <4>1, Zenon DEF Depths, ContextDepthIn
      <4> QED
        BY <3>1, <3>2, <4>2
    <3> QED
      BY <3>3, <3>4
  <2>3. /\ \A k \in 1..IdsDepthIn(j) : used_ids_stack'[k] = used_ids_stack[k]
        /\ \A k \in 1..ProverDepthIn(j) : prover_stack'[k] = prover_stack[k]
    BY DEF SwitchBranch
  <2>4. \A k \in 1..ContextDepthIn(j) : contextStackStack'[k] = contextStackStack[k]
    BY <1>10, <2>2
  <2> QED
    BY <1>0, <1>13, <1>14, <1>17, <2>1, <2>3, <2>4, StillAligned
<1>18. ASSUME NEW j, j = n
       PROVE  IdsAligned(j)' /\ ProverAligned(j)' /\ ContextAligned(j)'
  <2>1. /\ frames'[j].kind = "right" /\ frames'[j].ids = frames[j].ids
        /\ frames'[j].fracs = frames[j].fracs /\ frames'[j].ctors = frames[j].ctors
        /\ frames'[j].pc = frames[j].pc /\ frames[j].kind = "left"
    BY <1>1, <1>2, <1>12, <1>13, <1>18 DEF Frame, Kind
  <2>2. /\ frames'[j].idsDepth = frames[j].idsDepth
        /\ frames'[j].proverDepth = frames[j].proverDepth
        /\ frames'[j].contextDepth = frames[j].contextDepth
        /\ frames'[j].context = frames[j].context
    BY <1>12, <1>13, <1>18
  <2>3. IdsAligned(j) /\ ProverAligned(j) /\ ContextAligned(j)
    BY <1>0, <1>1, <1>11, <1>12, <1>18 DEF Aligned
  <2>4. UNCHANGED <<used_ids_stack, prover_stack>>
    BY DEF SwitchBranch
  <2>5. IdsAligned(j)' /\ ProverAligned(j)'
    BY <1>12, <1>14, <1>18, <2>1, <2>2, <2>3, <2>4 DEF IdsAligned, ProverAligned, IdKinds
  <2>6. BodyContext(frames[j])' = contextStack'
    BY <1>7, <1>12, <1>18, <2>1, <2>2 DEF BodyContext
  <2>7. ContextIn(j)' = contextStack' /\ ContextDepthIn(j)' = d + 1
    BY <1>10, <1>13, <1>18 DEF ContextIn, ContextDepthIn
  <2>8. frames'[j].contextDepth = d
    BY <1>9, <1>12, <1>18, <2>2
  <2>9. ContextAligned(j)'
    BY <1>10, <2>1, <2>6, <2>7, <2>8 DEF ContextAligned
  <2> QED
    BY <2>5, <2>9
<1>19. Aligned'
  BY <1>13, <1>17, <1>18 DEF Aligned
<1>20. FuncOutermost'
  <2>1. frames'[n].kind = "right"
    BY <1>2, <1>12, <1>13 DEF Frame
  <2> QED
    BY <1>0, <1>11, <1>13, <2>1, Zenon DEF FuncOutermost
<1>21. StacksType' /\ RestType'
  <2>1. path_condition' = Last(frames).pc
    BY <1>1, <1>2 DEF SwitchBranch, TopProver
  <2> QED
    BY <1>0, <1>1, <1>3, <1>8, <1>10, <1>13, <2>1 DEF StacksType, RestType, SwitchBranch
<1>22. IInv'
  BY <1>5, <1>16, <1>19, <1>20, <1>21, InvParts, PTL
<1> QED
  BY <1>6, <1>22

(* How the stacks change when a call of each kind starts. *)
LEMMA StartEffect ==
  ASSUME IInv
  PROVE  /\ StartFunc => EnterEffect("func")
         /\ StartTemporary => EnterEffect("temp")
         /\ StartWithContext => EnterEffect("with_context")
         /\ \A i \in Live : StartAssume(i) => EnterEffect("assume")
         /\ StartBranch => EnterEffect("left")
<1>1. IdsInv /\ TypeOK
  BY InvParts DEF IInv
<1>2. \A kind : Snapshot(kind).kind = kind /\ Snapshot(kind).context = contextStack
  BY DEF Snapshot
<1>3. /\ contextStack \o <<>> = contextStack
      /\ contextStack \o <<"Executing">> = Append(contextStack, "Executing")
  BY <1>1 DEF TypeOK
<1>4. ASSUME NEW kind \in {"func", "temp"}, Enter(kind), Push
      PROVE  EnterEffect(kind)
  <2>1. BodyContext(Snapshot(kind)) = contextStack
    BY <1>2, BodyContextOf
  <2>2. kind \in Kinds /\ kind \in IdKinds /\ kind # "with_context" /\ kind # "assume"
    BY DEF Kinds, IdKinds
  <2> QED
    BY <1>1, <1>3, <1>4, <2>1, <2>2, PushSaves
      DEF EnterEffect, Enter, Push, ProverPush, PushContextStack
<1>5. ASSUME StartWithContext PROVE EnterEffect("with_context")
  <2>1. BodyContext(Snapshot("with_context")) = Append(contextStack, "Executing")
    BY <1>2, BodyContextOf
  <2> QED
    BY <1>3, <1>5, <2>1
      DEF EnterEffect, Enter, StartWithContext, PushContextStack, idVars, proverVars, IdKinds
<1>6. ASSUME NEW i \in Live, StartAssume(i) PROVE EnterEffect("assume")
  <2>1. BodyContext(Snapshot("assume")) = Append(contextStack, "Assuming")
    BY <1>2, BodyContextOf
  <2> QED
    BY <1>6, <2>1 DEF EnterEffect, Enter, StartAssume, ProverPushAssume, idVars, IdKinds
<1>7. ASSUME StartBranch PROVE EnterEffect("left")
  <2>1. BodyContext(Snapshot("left")) = Append(contextStack, "LeftBranch")
    BY <1>2, BodyContextOf
  <2> QED
    BY <1>1, <1>7, <2>1, PushSaves DEF EnterEffect, Enter, StartBranch, ProverPush, IdKinds
<1> QED
  BY <1>4, <1>5, <1>6, <1>7 DEF StartFunc, StartTemporary

LEMMA InitInv == Init => IInv
<1> SUFFICES ASSUME Init
             PROVE  IInv
  OBVIOUS
<1>1. Len(frames) = 0 /\ Len(used_ids_stack) = 0
  BY DEF Init
<1>2. TypeOK
  BY DEF Init, TypeOK, Counts, Zeros
<1>3. UndoChain /\ FreshLevels
  BY <1>1 DEF Init, UndoChain, FreshLevels, Fresh, Zeros
<1>4. Depths /\ Aligned /\ FuncOutermost
  <2>1. \A j \in 1..Len(frames) : FALSE
    BY <1>1
  <2>2. Depths
    BY <2>1 DEF Depths
  <2>3. Aligned
    BY <2>1 DEF Aligned
  <2>4. FuncOutermost
    BY <2>1 DEF FuncOutermost
  <2> QED
    BY <2>2, <2>3, <2>4
<1> QED
  BY <1>2, <1>3, <1>4 DEF IInv

(* Every step preserves the invariant. *)
LEMMA NextInv == IInv /\ [Next]_vars => IInv'
<1> SUFFICES ASSUME IInv, [Next]_vars
             PROVE  IInv'
  OBVIOUS
<1>a. /\ IdsInv /\ StacksType /\ RestType /\ Depths /\ Aligned /\ FuncOutermost
      /\ TypeOK
  BY InvParts DEF IInv
<1>1. ASSUME NEW s \in BaseIdent, FreshSymbol(s)
      PROVE  IInv'
  <2>1. PICK n \in used_ids[s]..(MaxIndex + 1) : MkIdent(s, n)
    BY <1>1 DEF FreshSymbol
  <2>2. IdsInv'
    BY <1>1, <1>a, <2>1, MkIdentInv, Zenon DEF FreshSymbol, TypeOK
  <2> QED
    BY <1>1, <1>a, <2>2, SameCalls
      DEF FreshSymbol, Running, proverVars, contextVars, RestType
<1>2. CASE FreshDummyFrac
  <2>1. PICK n \in used_ids[DummyIdent]..(MaxIndex + 1) :
          /\ MkIdent(DummyIdent, n)
          /\ dummy_frac_terms' = dummy_frac_terms \union {IdentAt(DummyIdent, n)}
    BY <1>2 DEF FreshDummyFrac
  <2>2. DummyIdent \in BaseIdent /\ IdentAt(DummyIdent, n) \in Ident
    <3>1. DummyIdent \in Ident /\ used_ids[DummyIdent] \in Nat
      BY <1>a, IdentAssumption DEF TypeOK, Counts
    <3>2. n \in 0..(MaxIndex + 1)
      BY <3>1, IdentAssumption
    <3> QED
      BY <3>2, IdentAtFacts, IdentAssumption
  <2>3. IdsInv'
    BY <1>2, <1>a, <2>1, <2>2, MkIdentInv, Zenon DEF FreshDummyFrac, TypeOK
  <2> QED
    BY <1>2, <1>a, <2>3, SameCalls
      DEF FreshDummyFrac, Running, proverVars, contextVars, RestType
<1>3. ASSUME NEW i \in Live, RegisterPredCtorApplication(i)
      PROVE  IInv'
  <2>1. IdsInv'
    BY <1>3, <1>a DEF RegisterPredCtorApplication, Live, IdsInv, IdsType, UndoChain,
                      FreshLevels, Fresh, IdsAbove, UndoAbove
  <2> QED
    BY <1>3, <1>a, <2>1, SameCalls
      DEF RegisterPredCtorApplication, Running, proverVars, contextVars, RestType
<1>4. ASSUME NEW i \in Live, AssertTerm(i)
      PROVE  IInv'
  BY <1>4, <1>a, SameIds, SameCalls
    DEF AssertTerm, Running, contextVars, RestType, Live, idVars
<1>5. CASE AssertFalse
  BY <1>5, <1>a, SameIds, SameCalls
    DEF AssertFalse, idVars, proverVars, contextVars, RestType
<1>7. CASE StartFunc
  <2>1. IdsInv' /\ path_condition' \subseteq Ident /\ EnterEffect("func")
    BY <1>7, <1>a, PushUsedIdsInv, StartEffect DEF StartFunc, Push, ProverPush, TypeOK
  <2> QED
    BY <1>7, <2>1, EnterInv DEF StartFunc, Kinds
<1>8. CASE StartTemporary
  <2>1. IdsInv' /\ path_condition' \subseteq Ident /\ EnterEffect("temp")
    BY <1>8, <1>a, PushUsedIdsInv, StartEffect DEF StartTemporary, Push, ProverPush, TypeOK
  <2> QED
    BY <1>8, <2>1, EnterInv DEF StartTemporary, Kinds
<1>9. CASE StartWithContext
  <2>1. IdsInv' /\ path_condition' \subseteq Ident /\ EnterEffect("with_context")
    BY <1>9, <1>a, SameIds, StartEffect DEF StartWithContext, proverVars, TypeOK
  <2> QED
    BY <1>9, <2>1, EnterInv DEF StartWithContext, Kinds
<1>10. ASSUME NEW i \in Live, StartAssume(i)
       PROVE  IInv'
  <2>1. IdsInv' /\ path_condition' \subseteq Ident /\ EnterEffect("assume")
    BY <1>10, <1>a, SameIds, StartEffect DEF StartAssume, ProverPushAssume, TypeOK, Live
  <2> QED
    BY <1>10, <2>1, EnterInv DEF StartAssume, Kinds
<1>11. CASE StartBranch
  <2>1. IdsInv' /\ path_condition' \subseteq Ident /\ EnterEffect("left")
    BY <1>11, <1>a, PushUsedIdsInv, StartEffect DEF StartBranch, ProverPush, TypeOK
  <2> QED
    BY <1>11, <2>1, EnterInv DEF StartBranch, Kinds
<1>12. CASE EndFunc \/ EndTemporary \/ EndWithContext \/ EndAssume \/ EndBranch
  <2>1. LeaveEffect /\ IdsInv' /\ path_condition' \subseteq Ident
    BY <1>12, ReturnEffect
  <2>2. \E kind \in Kinds : Leave(kind)
    BY <1>12 DEF EndFunc, EndTemporary, EndWithContext, EndAssume, EndBranch, Kinds
  <2> QED
    BY <2>1, <2>2, LeaveInv
<1>13. CASE SwitchBranch
  BY <1>13, SwitchEffect
<1>14. CASE UnwindWithContext \/ UnwindOther
  <2>1. frames # <<>> /\ frames' = Front(frames) /\ status' = "raise"
    BY <1>14 DEF UnwindWithContext, UnwindOther, InBody
  <2>2. IdsInv' /\ UNCHANGED <<used_ids_stack, prover_stack, path_condition>>
    BY <1>14, <1>a, SameIds DEF UnwindWithContext, UnwindOther, idVars, proverVars
  <2>3. PICK n \in 1..Len(frames) : n = Len(frames) /\ frames[n] = Last(frames)
    <3>1. Len(frames) \in 1..Len(frames) /\ frames[Len(frames)] = Last(frames)
      BY <1>a, <2>1, LastFacts DEF StacksType
    <3> QED
      BY <3>1
  <2>4. /\ Last(frames).idsDepth \in Nat /\ Last(frames).proverDepth \in Nat
        /\ Last(frames).contextDepth \in Nat
        /\ IdsBump(Last(frames).kind) \in {0, 1} /\ ProverBump(Last(frames).kind) \in {0, 1}
        /\ ContextBump(Last(frames).kind) \in {0, 1}
        /\ Len(used_ids_stack) \in Nat /\ Len(prover_stack) \in Nat
        /\ Len(contextStackStack) \in Nat
    BY <1>a, <2>3, StackLengths
  <2>5. /\ Last(frames).idsDepth + IdsBump(Last(frames).kind) <= Len(used_ids_stack)
        /\ Last(frames).proverDepth + ProverBump(Last(frames).kind) <= Len(prover_stack)
        /\ Last(frames).contextDepth + ContextBump(Last(frames).kind)
             <= Len(contextStackStack)
    BY <1>a, <2>3, DepthBounds
  <2>6. \A a, c \in Nat, x \in {0, 1} : a + x <= c => c >= a
    OBVIOUS
  <2>7. /\ contextStackStack' \in Seq(Seq(Messages)) /\ contextStack' \in Seq(Messages)
        /\ Len(contextStackStack') >= Last(frames).contextDepth
    <3>1. CASE UnwindWithContext
      <4>1. ContextBump(Last(frames).kind) = 1
        BY <3>1 DEF UnwindWithContext, ContextBump, Kind
      <4>2. contextStackStack # <<>> /\ contextStackStack \in Seq(Seq(Messages))
        BY <1>a, <2>4, <2>5, <4>1 DEF StacksType
      <4>3. Len(contextStackStack) - 1 >= Last(frames).contextDepth
        BY <2>4, <2>5, <4>1
      <4> QED
        BY <3>1, <4>2, <4>3, FrontFacts, Zenon DEF UnwindWithContext, PopContextStack
    <3>2. CASE UnwindOther
      <4>1. UNCHANGED <<contextStack, contextStackStack>>
        BY <3>2 DEF UnwindOther, contextVars
      <4> QED
        BY <1>a, <2>4, <2>5, <2>6, <4>1 DEF StacksType, RestType
    <3> QED
      BY <1>14, <3>1, <3>2
  <2>8. StacksType'
    BY <1>a, <2>1, <2>2, <2>7, FrontFacts, Zenon DEF StacksType
  <2>9. Depths'
    <3>1. /\ Len(used_ids_stack') >= Last(frames).idsDepth
          /\ Len(prover_stack') >= Last(frames).proverDepth
      BY <2>2, <2>4, <2>5, <2>6
    <3> QED
      BY <1>a, <2>1, <2>7, <2>8, <3>1, LeaveDepths
  <2>10. Aligned' /\ FuncOutermost' /\ RestType'
    BY <1>a, <2>1, <2>2, <2>7, FrontOutermost DEF Aligned, RestType, StacksType
  <2> QED
    BY <2>2, <2>8, <2>9, <2>10, InvParts, PTL
<1>15. CASE CatchShouldFail \/ Abort
  <2>1. frames # <<>> /\ Kind = "func" /\ frames' = Front(frames)
    BY <1>15 DEF CatchShouldFail, Abort
  <2>2. Len(frames) = 1
    <3>1. Len(frames) \in 1..Len(frames) /\ frames[Len(frames)] = Last(frames)
      BY <1>a, <2>1, LastFacts DEF StacksType
    <3> QED
      BY <1>a, <2>1, <3>1, Zenon DEF FuncOutermost, Kind
  <2>3. /\ used_ids_stack # <<>> /\ prover_stack # <<>> /\ contextStackStack # <<>>
    <3>1. frames[1].kind = "func" /\ 1 \in 1..Len(frames)
      BY <2>1, <2>2 DEF Kind, Last
    <3>2. /\ frames[1].idsDepth + 1 <= Len(used_ids_stack)
          /\ frames[1].proverDepth + 1 <= Len(prover_stack)
          /\ frames[1].contextDepth + 1 <= Len(contextStackStack)
      BY <1>a, <3>1, DepthBounds DEF IdsBump, ProverBump, ContextBump, IdKinds
    <3>3. /\ frames[1].idsDepth \in Nat /\ frames[1].proverDepth \in Nat
          /\ frames[1].contextDepth \in Nat
      BY <1>a, <3>1, StackLengths
    <3>4. Len(used_ids_stack) > 0 /\ Len(prover_stack) > 0 /\ Len(contextStackStack) > 0
      BY <1>a, <3>2, <3>3, StackLengths
    <3> QED
      BY <3>4
  <2>4. /\ IdsInv' /\ prover_stack' \in Seq(SUBSET Ident)
        /\ contextStackStack' \in Seq(Seq(Messages)) /\ RestType'
    <3>1. CASE CatchShouldFail
      <4>1. IdsInv'
        BY <1>a, <2>3, <3>1, PopUsedIdsInv DEF CatchShouldFail, Pop
      <4>2. /\ prover_stack' \in Seq(SUBSET Ident) /\ path_condition' \in SUBSET Ident
        BY <1>a, <2>3, <3>1, FrontFacts, Zenon DEF CatchShouldFail, Pop, ProverPop, StacksType
      <4>3. contextStackStack' \in Seq(Seq(Messages)) /\ contextStack' \in Seq(Messages)
        BY <1>a, <2>3, <3>1, FrontFacts DEF CatchShouldFail, Pop, PopContextStack, StacksType
      <4> QED
        BY <3>1, <4>1, <4>2, <4>3 DEF CatchShouldFail, RestType
    <3>2. CASE Abort
      BY <1>a, <3>2, SameIds DEF Abort, proverVars, contextVars, RestType, StacksType
    <3> QED
      BY <1>15, <3>1, <3>2
  <2>5. frames' \in Seq(Frame) /\ Len(frames') = 0
    <3>1. frames' \in Seq(Frame) /\ Len(frames') = Len(frames) - 1
      BY <1>a, <2>1, FrontFacts, Zenon DEF StacksType
    <3> QED
      BY <2>2, <3>1
  <2>6. StacksType' /\ Depths' /\ Aligned' /\ FuncOutermost'
    BY <2>4, <2>5 DEF StacksType, Depths, Aligned, FuncOutermost, IdsInv, IdsType
  <2> QED
    BY <2>4, <2>6, InvParts, PTL
<1>16. CASE UNCHANGED vars
  BY <1>16, <1>a, SameIds, SameCalls DEF vars, idVars, proverVars, contextVars, RestType
<1> QED
  BY <1>1, <1>2, <1>3, <1>4, <1>5, <1>7, <1>8, <1>9, <1>10, <1>11, <1>12, <1>13, <1>14,
     <1>15, <1>16 DEF Next

-----------------------------------------------------------------------------
(* The theorems. *)

(* The inductive invariant holds of every run of the symbolic executor. *)
THEOREM Invariance == Spec => []IInv
BY InitInv, NextInv, PTL DEF Spec

(* Use counts never become negative, and what push(), ctxt#push and        *)
(* push_contextStack() save and restore is always well formed.             *)
THEOREM TypeCorrect == Spec => []TypeOK
<1>1. IInv => TypeOK
  BY DEF IInv
<1> QED
  BY <1>1, Invariance, PTL

(* mk_ident is fresh: no two live symbols carry the same identifier, also  *)
(* after errors that check_should_fail caught.                             *)
THEOREM Freshness == Spec => []NamesDistinct
<1>1. IInv => NamesDistinct
  BY DEF IInv, FreshLevels, Fresh, NamesDistinct
<1> QED
  BY <1>1, Invariance, PTL

(* Every call in progress finds a level to pop, also while an exception    *)
(* unwinds it and after exceptions abandoned others.                       *)
THEOREM PopsSucceed == Spec => []StacksSuffice
<1>1. ASSUME IInv
      PROVE  StacksSuffice
  <2>1. StacksType /\ Depths
    BY <1>1, InvParts
  <2>2. SUFFICES ASSUME NEW j \in 1..Len(frames)
                 PROVE  /\ frames[j].kind \notin {"with_context", "assume"}
                              => frames[j].idsDepth < Len(used_ids_stack)
                        /\ frames[j].kind # "with_context"
                              => frames[j].proverDepth < Len(prover_stack)
                        /\ frames[j].kind # "assume"
                              => frames[j].contextDepth < Len(contextStackStack)
    BY <2>1 DEF StacksSuffice, StacksType
  <2>3. /\ frames[j].idsDepth \in Nat /\ frames[j].proverDepth \in Nat
        /\ frames[j].contextDepth \in Nat /\ frames[j].kind \in Kinds
        /\ Len(used_ids_stack) \in Nat /\ Len(prover_stack) \in Nat
        /\ Len(contextStackStack) \in Nat
    BY <2>1, StackLengths
  <2>4. /\ frames[j].idsDepth + IdsBump(frames[j].kind) <= Len(used_ids_stack)
        /\ frames[j].proverDepth + ProverBump(frames[j].kind) <= Len(prover_stack)
        /\ frames[j].contextDepth + ContextBump(frames[j].kind) <= Len(contextStackStack)
    BY <2>1, DepthBounds
  <2>5. frames[j].kind \notin {"with_context", "assume"} => frames[j].kind \in IdKinds
    BY <2>3 DEF Kinds, IdKinds
  <2> QED
    BY <2>3, <2>4, <2>5 DEF IdsBump, ProverBump, ContextBump
<1> QED
  BY <1>1, Invariance, PTL

(* Every normal return from verify_func, in_temporary_context,             *)
(* with_context, assume and branch restores the state at entry.            *)
THEOREM ReturnsRestore == Spec => RestoredOnReturn
<1>1. ASSUME IInv, Next, status = "run", frames' # frames, Len(frames') <= Len(frames)
      PROVE  RestoresEntryState
  <2>1. frames \in Seq(Frame) /\ Len(frames) \in Nat
    BY <1>1 DEF IInv, TypeOK
  <2>2. ASSUME NEW kind, Enter(kind)
        PROVE  FALSE
    <3>1. Len(frames') = Len(frames) + 1
      BY <2>1, <2>2 DEF Enter
    <3> QED
      BY <1>1, <2>1, <3>1
  <2>3. \/ EndFunc \/ EndTemporary \/ EndWithContext \/ EndAssume \/ EndBranch
        \/ SwitchBranch
    BY <1>1, <2>2
      DEF Next, FreshSymbol, FreshDummyFrac, RegisterPredCtorApplication, AssertTerm,
          StartFunc, StartTemporary, StartWithContext, StartAssume, StartBranch,
          AssertFalse, UnwindWithContext, UnwindOther, CatchShouldFail, Abort
  <2> QED
    BY <1>1, <2>3, ReturnEffect, SwitchEffect
<1>2. IInv /\ [Next]_vars
        => [status = "run" /\ frames' # frames /\ Len(frames') <= Len(frames)
              => RestoresEntryState]_vars
  BY <1>1
<1> QED
  BY <1>2, Invariance, PTL DEF Spec, RestoredOnReturn

-----------------------------------------------------------------------------
(* The terms are about live symbols. *)

(* Nothing being left over, the path condition a call found is about       *)
(* symbols that are live at the level it was called at.                    *)
EntriesLive ==
  frames # <<>> /\ frames[1].proverDepth = 0 =>
    \A j \in 1..Len(frames) : frames[j].pc \subseteq LiveAt(frames[j].idsDepth)

(* The outermost call is verify_func, and the prover level it pushed is    *)
(* still there, also while an exception propagates.                        *)
OutermostSaved ==
  frames # <<>> => /\ frames[1].kind = "func"
                   /\ prover_stack[frames[1].proverDepth + 1] = frames[1].pc

(* The invariant, strengthened for the levels and the calls in progress. *)
PathLive == NothingLeftOver => path_condition \subseteq Live

TInv == IInv /\ LevelsLive /\ EntriesLive /\ OutermostSaved /\ PathLive

(* Steps within a call keep what is said of the calls. *)
LEMMA SameCallsLive ==
  ASSUME TInv, UNCHANGED <<frames, prover_stack, used_ids_stack>>,
         \A k \in 0..Len(used_ids_stack) : LiveAt(k) \subseteq LiveAt(k)',
         path_condition' \subseteq path_condition \union Live', Live \subseteq Live'
  PROVE  EntriesLive' /\ OutermostSaved' /\ PathLive'
<1>1. StacksType /\ Depths /\ EntriesLive /\ OutermostSaved /\ PathLive
  BY InvParts DEF TInv
<1>2. \A j \in 1..Len(frames) : frames[j].idsDepth \in 0..Len(used_ids_stack)
  BY <1>1, CallLevels
<1>3. EntriesLive'
  <2> SUFFICES ASSUME frames # <<>>, frames[1].proverDepth = 0, NEW j \in 1..Len(frames)
               PROVE  frames[j].pc \subseteq LiveAt(frames[j].idsDepth)'
    BY DEF EntriesLive
  <2>1. PICK d : d = frames[j].idsDepth
    OBVIOUS
  <2>2. frames[j].pc \subseteq LiveAt(d) /\ d \in 0..Len(used_ids_stack)
    BY <1>1, <1>2, <2>1 DEF EntriesLive
  <2>3. LiveAt(d) \subseteq LiveAt(d)'
    BY <2>2
  <2>4. LiveAt(frames[j].idsDepth)' = LiveAt(d)'
    BY <2>1 DEF LiveAt, IssuedAt
  <2> QED
    BY <2>2, <2>3, <2>4
<1>4. OutermostSaved'
  BY <1>1 DEF OutermostSaved
<1>5. PathLive'
  BY <1>1 DEF PathLive, NothingLeftOver
<1> QED
  BY <1>3, <1>4, <1>5

(* A call that starts finds a path condition about live symbols. *)
LEMMA EnterLive ==
  ASSUME TInv, NEW kind \in Kinds, EnterEffect(kind), kind = "func" <=> frames = <<>>,
         \A k \in 0..Len(used_ids_stack) : LiveAt(k)' = LiveAt(k), Live' = Live,
         path_condition' \subseteq path_condition \union Live'
  PROVE  EntriesLive' /\ OutermostSaved' /\ PathLive'
<1>1. StacksType /\ Depths /\ EntriesLive /\ OutermostSaved /\ PathLive /\ TypeOK /\ IdsType
  BY InvParts DEF TInv, IInv, IdsInv
<1>2. PICK n \in Nat : /\ n = Len(frames) /\ n + 1 = Len(frames') /\ frames' # <<>>
                       /\ \A j \in 1..n : frames'[j] = frames[j]
                       /\ frames'[n + 1] = Snapshot(kind)
  <2>1. frames \in Seq(Frame) /\ Snapshot(kind) \in Frame
    BY <1>1, EnterStacks DEF StacksType
  <2>2. frames' = Append(frames, Snapshot(kind))
    BY DEF EnterEffect
  <2>3. /\ Len(frames) \in Nat /\ Len(frames') = Len(frames) + 1 /\ frames' # <<>>
        /\ \A j \in 1..Len(frames) : frames'[j] = frames[j]
        /\ frames'[Len(frames) + 1] = Snapshot(kind)
    BY <2>1, <2>2, AppendFacts
  <2> QED
    BY <2>3, Zenon
<1>3. PICK d \in Nat : d = Len(used_ids_stack) /\ LiveAt(d) = Live
  BY <1>1, LevelFacts
<1>4. /\ Snapshot(kind).idsDepth = d /\ Snapshot(kind).proverDepth = Len(prover_stack)
      /\ Snapshot(kind).pc = path_condition /\ Snapshot(kind).kind = kind
  BY <1>3, SnapshotFields
<1>5. n = 0 <=> frames = <<>>
  BY <1>1, <1>2 DEF StacksType
<1>6. NothingLeftOver' => NothingLeftOver
  <2>1. CASE n = 0
    <3>1. NothingLeftOver' => Len(prover_stack) = 0
      BY <1>2, <1>4, <2>1 DEF NothingLeftOver
    <3> QED
      BY <3>1, <2>1, <1>1, <1>5 DEF NothingLeftOver, StacksType
  <2>2. CASE n # 0
    BY <2>2, <1>2, <1>5 DEF NothingLeftOver
  <2> QED
    BY <2>1, <2>2
<1>7. EntriesLive'
  <2> SUFFICES ASSUME frames'[1].proverDepth = 0, NEW j \in 1..(n + 1)
               PROVE  frames'[j].pc \subseteq LiveAt(frames[j].idsDepth)'
    BY <1>2 DEF EntriesLive
  <2>1. NothingLeftOver
    BY <1>2, <1>6 DEF NothingLeftOver
  <2>2. CASE j = n + 1
    <3>1. path_condition \subseteq LiveAt(d)'
      BY <1>1, <1>3, <2>1 DEF PathLive
    <3>2. LiveAt(frames[j].idsDepth)' = LiveAt(d)'
      BY <2>2, <1>2, <1>4 DEF LiveAt, IssuedAt
    <3> QED
      BY <3>1, <3>2, <2>2, <1>2, <1>4
  <2>3. CASE j \in 1..n
    <3>1. PICK c : c = frames[j].idsDepth
      OBVIOUS
    <3>2. frames[j].pc \subseteq LiveAt(c) /\ c \in 0..Len(used_ids_stack)
      BY <3>1, <2>1, <2>3, <1>1, <1>2, <1>5, CallLevels DEF EntriesLive, NothingLeftOver
    <3>3. LiveAt(frames[j].idsDepth)' = LiveAt(c)'
      BY <3>1, <2>3, <1>2 DEF LiveAt, IssuedAt
    <3> QED
      BY <3>2, <3>3, <2>3, <1>2
  <2> QED
    BY <2>2, <2>3
<1>8. OutermostSaved'
  <2>1. CASE n = 0
    <3>1. prover_stack' = Append(prover_stack, path_condition)
      BY <2>1, <1>5 DEF EnterEffect
    <3>2. prover_stack \in Seq(SUBSET Ident) /\ path_condition \in SUBSET Ident
      BY <1>1 DEF TypeOK
    <3>3. prover_stack'[Len(prover_stack) + 1] = path_condition
      BY ONLY <3>1, <3>2, AppendFacts
    <3> QED
      BY <3>3, <2>1, <1>2, <1>4, <1>5 DEF OutermostSaved
  <2>2. CASE n # 0
    <3>1. /\ 1 \in 1..n /\ frames[1].kind = "func"
          /\ prover_stack[frames[1].proverDepth + 1] = frames[1].pc
      BY <2>2, <1>1, <1>5 DEF OutermostSaved
    <3>2. frames[1].proverDepth + 1 \in 1..Len(prover_stack)
      BY <3>1, <1>1, <1>2, CallLevels
    <3>3. prover_stack'[frames[1].proverDepth + 1] = prover_stack[frames[1].proverDepth + 1]
      BY <3>2, <1>1, EnterStacks
    <3> QED
      BY <3>1, <3>3, <1>2 DEF OutermostSaved
  <2> QED
    BY <2>1, <2>2
<1>9. PathLive'
  BY <1>1, <1>6 DEF PathLive
<1> QED
  BY <1>7, <1>8, <1>9

(* What is said of the outer calls does not depend on the levels above the *)
(* ones that the innermost call found.                                     *)
LEMMA ShrinkLive ==
  ASSUME TInv, frames # <<>>, frames' = Front(frames),
         \A k \in 0..Last(frames).idsDepth : LiveAt(k)' = LiveAt(k),
         \A k \in 1..Last(frames).proverDepth : prover_stack'[k] = prover_stack[k]
  PROVE  /\ EntriesLive' /\ OutermostSaved'
         /\ frames' # <<>> /\ NothingLeftOver' => NothingLeftOver
<1>1. StacksType /\ Depths /\ EntriesLive /\ OutermostSaved
  BY InvParts DEF TInv
<1>2. PICK n \in Nat : /\ n + 1 = Len(frames) /\ n = Len(frames')
                       /\ Last(frames) = frames[n + 1]
                       /\ \A j \in 1..n : frames'[j] = frames[j]
  <2>1. /\ Len(frames) \in Nat /\ Len(frames) > 0 /\ Len(frames') = Len(frames) - 1
        /\ Last(frames) = frames[Len(frames)]
        /\ \A j \in 1..(Len(frames) - 1) : frames'[j] = frames[j]
    BY <1>1, FrontFacts, Zenon DEF StacksType
  <2>2. Len(frames) - 1 \in Nat /\ Len(frames) - 1 + 1 = Len(frames)
    BY <2>1
  <2> QED
    BY <2>1, <2>2
<1>3. \A j \in 1..n :
        /\ frames[j].idsDepth \in 0..frames[n + 1].idsDepth
        /\ frames[j].kind = "func"
             => frames[j].proverDepth + 1 \in 1..frames[n + 1].proverDepth
  <2>1. Len(frames) - 1 = n
    BY <1>2
  <2> QED
    BY <1>1, <1>2, <2>1, CallLevels, Zenon
<1>4. frames' # <<>> => 1 \in 1..n
  <2>1. frames' \in Seq(Frame)
    BY <1>1, FrontFacts DEF StacksType
  <2> QED
    BY <1>2, <2>1
<1>5. EntriesLive'
  <2> SUFFICES ASSUME frames' # <<>>, frames'[1].proverDepth = 0, NEW j \in 1..n
               PROVE  frames'[j].pc \subseteq LiveAt(frames[j].idsDepth)'
    BY <1>2 DEF EntriesLive
  <2>1. PICK d : d = frames[j].idsDepth
    OBVIOUS
  <2>2. j \in 1..Len(frames) /\ frames[1].proverDepth = 0
    BY <1>2, <1>4
  <2>3. frames[j].pc \subseteq LiveAt(d) /\ d \in 0..Last(frames).idsDepth
    BY <1>1, <1>2, <1>3, <2>1, <2>2 DEF EntriesLive
  <2>4. LiveAt(frames[j].idsDepth)' = LiveAt(d)'
    BY <2>1, <1>2 DEF LiveAt, IssuedAt
  <2> QED
    BY <2>3, <2>4, <1>2
<1>6. OutermostSaved'
  <2> SUFFICES ASSUME frames' # <<>>
               PROVE  /\ frames'[1].kind = "func"
                      /\ prover_stack'[frames'[1].proverDepth + 1] = frames'[1].pc
    BY DEF OutermostSaved
  <2>1. 1 \in 1..n /\ frames'[1] = frames[1]
    BY <1>2, <1>4
  <2>2. frames[1].kind = "func" /\ prover_stack[frames[1].proverDepth + 1] = frames[1].pc
    BY <1>1 DEF OutermostSaved
  <2>3. frames[1].proverDepth + 1 \in 1..Last(frames).proverDepth
    BY <1>2, <1>3, <2>1, <2>2
  <2> QED
    BY <2>1, <2>2, <2>3
<1>7. frames' # <<>> /\ NothingLeftOver' => NothingLeftOver
  BY <1>2, <1>4 DEF NothingLeftOver
<1> QED
  BY <1>5, <1>6, <1>7

(* A call that returns leaves the path condition it found. *)
LEMMA LeaveLive ==
  ASSUME TInv, status = "run", LeaveEffect, RestoresEntryState, IdsInv',
         IF Kind \in IdKinds THEN RestoresLevel
           ELSE UNCHANGED <<dummy_frac_terms, pred_ctor_applications, issued>>,
         Kind = "with_context" => UNCHANGED path_condition
  PROVE  LevelsLive' /\ EntriesLive' /\ OutermostSaved' /\ PathLive'
<1>1. /\ StacksType /\ Depths /\ Aligned /\ TypeOK /\ IdsInv /\ IdsType /\ LevelsLive
      /\ EntriesLive /\ OutermostSaved /\ PathLive /\ frames # <<>>
      /\ frames' = Front(frames)
  BY InvParts DEF TInv, IInv, IdsInv, LeaveEffect
<1>2. Last(frames) \in Frame /\ Kind \in Kinds /\ TopIds /\ TopProver
  BY <1>1, TopAligned
<1>3. PICK d \in Nat : d = Last(frames).idsDepth
  BY <1>2 DEF Frame
<1>4. LevelsLive' /\ (\A k \in 0..d : LiveAt(k)' = LiveAt(k)) /\ Live' = LiveAt(d)'
  <2>1. CASE Kind \in IdKinds
    <3>1. /\ used_ids_stack # <<>> /\ used_ids_stack' = Front(used_ids_stack)
          /\ Len(used_ids_stack) = d + 1
      BY <1>2, <1>3, <2>1 DEF TopIds, LeaveEffect
    <3>2. LevelsLive' /\ \A k \in 0..(Len(used_ids_stack) - 1) : LiveAt(k)' = LiveAt(k)
      BY <1>1, <2>1, <3>1, PopLevels
    <3>3. Len(used_ids_stack') = d
      <4>1. Len(used_ids_stack') = Len(used_ids_stack) - 1
        BY <1>1, <3>1, FrontFacts DEF IdsType
      <4> QED
        BY <4>1, <3>1
    <3>4. Len(used_ids_stack) - 1 = d
      BY <3>1
    <3>5. Live' = LiveAt(d)'
      BY <3>3 DEF Live, LiveAt, IssuedAt
    <3> QED
      BY <3>2, <3>4, <3>5
  <2>2. CASE Kind \notin IdKinds
    <3>1. /\ used_ids_stack' = used_ids_stack /\ Len(used_ids_stack) = d
          /\ UNCHANGED <<dummy_frac_terms, pred_ctor_applications, issued>>
      BY <1>2, <1>3, <2>2 DEF TopIds, LeaveEffect
    <3>2. \A k \in 0..d : LiveAt(k)' = LiveAt(k) /\ TermsAt(k)' = TermsAt(k)
      BY <3>1 DEF LiveAt, TermsAt, IssuedAt
    <3>3. LevelsLive'
      <4>1. Len(used_ids_stack') = d
        BY <3>1
      <4> SUFFICES ASSUME NEW k \in 0..d
                   PROVE  /\ TermsAt(k)' \subseteq LiveAt(k)'
                          /\ \A j \in 0..k : LiveAt(j)' \subseteq LiveAt(k)'
        BY <4>1 DEF LevelsLive
      <4>2. TermsAt(k) \subseteq LiveAt(k) /\ \A j \in 0..k : LiveAt(j) \subseteq LiveAt(k)
        BY <1>1, <3>1 DEF LevelsLive
      <4>3. \A j \in 0..k : j \in 0..d
        OBVIOUS
      <4> QED
        BY <4>2, <4>3, <3>2
    <3>4. Live' = LiveAt(d)'
      BY <3>1 DEF Live, LiveAt, IssuedAt
    <3> QED
      BY <3>2, <3>3, <3>4
  <2> QED
    BY <2>1, <2>2
<1>5. \A k \in 1..Last(frames).proverDepth : prover_stack'[k] = prover_stack[k]
  <2>1. CASE Kind = "with_context"
    BY <2>1 DEF LeaveEffect
  <2>2. CASE Kind # "with_context"
    <3>1. /\ prover_stack # <<>> /\ Len(prover_stack) = Last(frames).proverDepth + 1
          /\ prover_stack' = Front(prover_stack) /\ Last(frames).proverDepth \in Nat
      BY <1>2, <2>2 DEF TopProver, LeaveEffect, Frame
    <3>2. \A k \in 1..(Len(prover_stack) - 1) : prover_stack'[k] = prover_stack[k]
      BY <1>1, <3>1, FrontFacts, Zenon DEF StacksType
    <3>3. Len(prover_stack) - 1 = Last(frames).proverDepth
      BY <3>1
    <3> QED
      BY <3>2, <3>3
  <2> QED
    BY <2>1, <2>2
<1>6. /\ EntriesLive' /\ OutermostSaved'
      /\ frames' # <<>> /\ NothingLeftOver' => NothingLeftOver
  BY <1>1, <1>3, <1>4, <1>5, ShrinkLive
<1>7. NothingLeftOver' => NothingLeftOver
  <2>1. CASE frames' = <<>>
    <3>0. Len(frames) \in Nat /\ Len(frames) > 0 /\ Len(frames') = Len(frames) - 1
          /\ Last(frames) = frames[Len(frames)] /\ Len(frames') = 0
      BY <1>1, <2>1, FrontFacts, Zenon DEF StacksType
    <3>a. Len(frames) = 1
      BY ONLY <3>0
    <3>1. Len(frames) = 1 /\ Last(frames) = frames[1]
      BY ONLY <3>0, <3>a
    <3>2. Kind = "func"
      BY <1>1, <3>1 DEF OutermostSaved, Kind
    <3>3. /\ prover_stack # <<>> /\ Len(prover_stack) = frames[1].proverDepth + 1
          /\ prover_stack' = Front(prover_stack) /\ frames[1].proverDepth \in Nat
      BY <1>2, <3>1, <3>2 DEF TopProver, LeaveEffect, Frame
    <3>4. Len(prover_stack') = Len(prover_stack) - 1
      BY <1>1, <3>3, FrontFacts, Zenon DEF StacksType
    <3>5. NothingLeftOver' => Len(prover_stack') = 0
      BY <2>1 DEF NothingLeftOver
    <3> QED
      BY <1>1, <3>3, <3>4, <3>5 DEF NothingLeftOver
  <2> QED
    BY <2>1, <1>6
<1>8. PathLive'
  <2> SUFFICES ASSUME NothingLeftOver
               PROVE  path_condition' \subseteq Live'
    BY <1>7 DEF PathLive
  <2>1. CASE Kind = "with_context"
    <3>1. path_condition' = path_condition /\ path_condition \subseteq Live
      BY <1>1, <2>1 DEF PathLive
    <3>2. Kind \notin IdKinds
      BY <2>1 DEF IdKinds
    <3> QED
      BY <3>1, <3>2 DEF Live
  <2>2. CASE Kind # "with_context"
    <3>1. path_condition' = Last(frames).pc
      BY <2>2 DEF RestoresEntryState, Kind
    <3>2. Last(frames) = frames[Len(frames)] /\ Len(frames) \in 1..Len(frames)
      BY <1>1, LastFacts, Zenon DEF StacksType
    <3>3. frames[1].proverDepth = 0
      BY <1>1 DEF NothingLeftOver
    <3>4. Last(frames).pc \subseteq LiveAt(d)
      BY <1>1, <1>3, <3>2, <3>3 DEF EntriesLive
    <3> QED
      BY <1>4, <3>1, <3>4
  <2> QED
    BY <2>1, <2>2
<1> QED
  BY <1>4, <1>6, <1>8

(* The innermost call is the outermost one exactly when it is verify_func. *)
LEMMA TopIsFunc ==
  ASSUME frames \in Seq(Frame), frames # <<>>, FuncOutermost, OutermostSaved
  PROVE  /\ Kind = "func" => Len(frames) = 1 /\ Last(frames) = frames[1] /\ Front(frames) = <<>>
         /\ Kind # "func" => Front(frames) # <<>>
<1>1. /\ Len(frames) \in Nat /\ Len(frames) > 0 /\ Last(frames) = frames[Len(frames)]
      /\ Front(frames) \in Seq(Frame) /\ Len(Front(frames)) = Len(frames) - 1
  BY FrontFacts, Zenon
<1>2. Len(frames) \in 1..Len(frames)
  BY <1>1
<1>3. Kind = "func" => Len(frames) = 1
  BY <1>1, <1>2, Zenon DEF FuncOutermost, Kind
<1>4. Len(frames) = 1 => Front(frames) = <<>>
  BY <1>1
<1>5. Len(frames) = 1 => Kind = "func"
  BY <1>1 DEF OutermostSaved, Kind
<1>6. Front(frames) = <<>> => Len(Front(frames)) = 0
  OBVIOUS
<1>7. Front(frames) = <<>> => Len(frames) = 1
  BY ONLY <1>1, <1>6
<1> QED
  BY <1>1, <1>3, <1>4, <1>5, <1>7

(* An exception abandons a call and leaves its levels where they are. *)
LEMMA UnwindLive ==
  ASSUME TInv, InBody, frames' = Front(frames), UNCHANGED <<idVars, proverVars>>
  PROVE  LevelsLive' /\ EntriesLive' /\ OutermostSaved' /\ PathLive'
<1>1. /\ StacksType /\ Depths /\ FuncOutermost /\ IdsType /\ LevelsLive /\ PathLive
      /\ OutermostSaved /\ frames # <<>> /\ Kind # "func"
  BY InvParts DEF TInv, IdsInv, InBody
<1>2. /\ LevelsLive' /\ Live' = Live
      /\ \A k \in 0..Len(used_ids_stack) : LiveAt(k)' = LiveAt(k)
  BY <1>1, SameLevels DEF idVars
<1>3. Last(frames) = frames[Len(frames)] /\ Len(frames) \in 1..Len(frames)
  BY <1>1, LastFacts, Zenon DEF StacksType
<1>4. Last(frames).idsDepth \in 0..Len(used_ids_stack) /\ Len(used_ids_stack) \in Nat
  BY <1>1, <1>3, CallLevels, LevelFacts
<1>5. \A k \in 0..Last(frames).idsDepth : k \in 0..Len(used_ids_stack)
  BY <1>4
<1>6. \A k \in 0..Last(frames).idsDepth : LiveAt(k)' = LiveAt(k)
  BY <1>2, <1>5
<1>7. \A k \in 1..Last(frames).proverDepth : prover_stack'[k] = prover_stack[k]
  BY DEF proverVars
<1>8. /\ EntriesLive' /\ OutermostSaved'
      /\ frames' # <<>> /\ NothingLeftOver' => NothingLeftOver
  BY <1>1, <1>6, <1>7, ShrinkLive
<1>9. frames' # <<>>
  BY <1>1, TopIsFunc DEF StacksType
<1>10. PathLive'
  BY <1>1, <1>2, <1>8, <1>9 DEF PathLive, proverVars
<1> QED
  BY <1>2, <1>8, <1>10

(* The pop() after a caught error ends the outermost call. It leaves       *)
(* nothing over exactly when the call had the only level of the prover.    *)
LEMMA CatchLive ==
  ASSUME TInv, CatchShouldFail
  PROVE  LevelsLive' /\ EntriesLive' /\ OutermostSaved' /\ PathLive'
<1>1. /\ StacksType /\ Depths /\ FuncOutermost /\ IdsInv /\ IdsType /\ LevelsLive
      /\ EntriesLive /\ OutermostSaved /\ frames # <<>> /\ Kind = "func" /\ PopUsedIds
      /\ ProverPop /\ frames' = Front(frames)
  BY InvParts DEF TInv, IdsInv, CatchShouldFail, Pop
<1>2. Len(frames) = 1 /\ Last(frames) = frames[1] /\ frames' = <<>>
  BY <1>1, TopIsFunc DEF StacksType
<1>3. /\ frames[1].idsDepth \in 0..Len(used_ids_stack) /\ frames[1].proverDepth \in Nat
      /\ frames[1].proverDepth + 1 \in 1..Len(prover_stack) /\ frames[1].kind = "func"
      /\ 1 \in 1..Len(frames)
  BY <1>1, <1>2, CallLevels DEF Kind
<1>4. /\ Len(used_ids_stack) \in Nat /\ frames[1].idsDepth \in Nat
      /\ frames[1].idsDepth + 1 <= Len(used_ids_stack) /\ Len(prover_stack) \in Nat
  <2>1. IdsBump(frames[1].kind) = 1
    BY <1>3 DEF IdsBump, IdKinds
  <2> QED
    BY <1>1, <1>3, <2>1, DepthBounds, StackLengths
<1>5. used_ids_stack # <<>> /\ prover_stack # <<>>
  BY <1>1, <1>3, <1>4 DEF StacksType
<1>6. PICK m \in Nat : m + 1 = Len(used_ids_stack) /\ frames[1].idsDepth \in 0..m
  <2>1. /\ Len(used_ids_stack) - 1 \in Nat /\ Len(used_ids_stack) - 1 + 1 = Len(used_ids_stack)
        /\ frames[1].idsDepth \in 0..(Len(used_ids_stack) - 1)
    BY <1>4
  <2> QED
    BY <2>1, Zenon
<1>7. used_ids_stack' = Front(used_ids_stack) /\ RestoresLevel
  BY <1>1 DEF PopUsedIds, RestoresLevel
<1>8. LevelsLive' /\ (\A k \in 0..m : LiveAt(k)' = LiveAt(k))
  <2>1. Len(used_ids_stack) - 1 = m
    BY <1>6
  <2> QED
    BY <1>1, <1>5, <1>7, <2>1, PopLevels
<1>9. Live' = LiveAt(m)'
  <2>1. Len(used_ids_stack') = Len(used_ids_stack) - 1
    BY <1>1, <1>5, <1>7, FrontFacts DEF IdsType
  <2>2. Len(used_ids_stack') = m
    BY <1>6, <2>1
  <2> QED
    BY <2>2 DEF Live, LiveAt, IssuedAt
<1>10. EntriesLive' /\ OutermostSaved'
  BY <1>2 DEF EntriesLive, OutermostSaved
<1>11. PathLive'
  <2> SUFFICES ASSUME prover_stack' = <<>>
               PROVE  path_condition' \subseteq Live'
    BY <1>2 DEF PathLive, NothingLeftOver
  <2>1. /\ Len(prover_stack') = Len(prover_stack) - 1 /\ Len(prover_stack') = 0
        /\ path_condition' = prover_stack[Len(prover_stack)]
    BY <1>1, <1>5, FrontFacts, Zenon DEF StacksType, ProverPop
  <2>a. PICK l \in Nat : l = Len(prover_stack) /\ l - 1 = 0
    BY <1>4, <2>1, Zenon
  <2>b. PICK p \in Nat : p = frames[1].proverDepth /\ p + 1 \in 1..l
    BY <1>3, <2>a, Zenon
  <2>2. Len(prover_stack) = 1 /\ frames[1].proverDepth = 0
    <3>0. l - 1 = 0 /\ p + 1 \in 1..l
      BY <2>a, <2>b, Zenon
    <3>1. l = 1 /\ p = 0
      BY ONLY <3>0, l \in Nat, p \in Nat
    <3> QED
      BY <2>a, <2>b, <3>1
  <2>3. path_condition' = frames[1].pc
    BY <1>1, <2>1, <2>2 DEF OutermostSaved
  <2>4. PICK d : d = frames[1].idsDepth
    OBVIOUS
  <2>5. frames[1].pc \subseteq LiveAt(d)
    BY <1>1, <1>3, <2>2, <2>4 DEF EntriesLive
  <2>6. m \in 0..Len(used_ids_stack) /\ d \in 0..m
    BY <1>6, <2>4
  <2>7. LiveAt(d) \subseteq LiveAt(m)
    BY <1>1, <2>6 DEF LevelsLive
  <2>8. LiveAt(m)' = LiveAt(m)
    BY <1>8, <2>6
  <2> QED
    BY <1>9, <2>3, <2>5, <2>7, <2>8
<1> QED
  BY <1>8, <1>10, <1>11

(* An error nobody caught leaves the level of verify_func in the prover. *)
LEMMA AbortLive ==
  ASSUME TInv, Abort
  PROVE  LevelsLive' /\ EntriesLive' /\ OutermostSaved' /\ PathLive'
<1>1. /\ StacksType /\ Depths /\ FuncOutermost /\ IdsType /\ LevelsLive /\ OutermostSaved
      /\ frames # <<>> /\ Kind = "func" /\ frames' = Front(frames)
      /\ UNCHANGED <<idVars, proverVars>>
  BY InvParts DEF TInv, IdsInv, Abort
<1>2. Len(frames) = 1 /\ Last(frames) = frames[1] /\ frames' = <<>>
  BY <1>1, TopIsFunc DEF StacksType
<1>3. frames[1].proverDepth + 1 \in 1..Len(prover_stack)
  BY <1>1, <1>2, CallLevels DEF Kind
<1>4. prover_stack' # <<>>
  BY <1>1, <1>3 DEF StacksType, proverVars
<1>5. LevelsLive'
  BY <1>1, SameLevels DEF idVars
<1> QED
  BY <1>2, <1>4, <1>5 DEF EntriesLive, OutermostSaved, PathLive, NothingLeftOver

(* branch goes back to the level it pushed, which it keeps. *)
LEMMA SwitchLive ==
  ASSUME TInv, SwitchBranch
  PROVE  LevelsLive' /\ EntriesLive' /\ OutermostSaved' /\ PathLive'
<1>1. /\ StacksType /\ Depths /\ Aligned /\ TypeOK /\ IdsInv /\ IdsType /\ LevelsLive
      /\ EntriesLive /\ OutermostSaved /\ FuncOutermost
      /\ frames # <<>> /\ Kind = "left" /\ status = "run"
  BY InvParts DEF TInv, IInv, IdsInv, SwitchBranch, Running
<1>2. /\ Last(frames) \in Frame /\ used_ids_stack # <<>>
      /\ Len(used_ids_stack) = Last(frames).idsDepth + 1
      /\ path_condition' = Last(frames).pc
  BY <1>1, TopAligned DEF TopIds, TopProver, IdKinds, SwitchBranch
<1>3. PICK n \in Nat : n = Len(frames)
  BY <1>1 DEF StacksType
<1>4. n \in 1..n /\ frames[n] = Last(frames)
  BY <1>1, <1>3, LastFacts, Zenon DEF StacksType
<1>5. n # 1
  BY <1>1, <1>3, <1>4 DEF OutermostSaved, Kind
<1>6. /\ Len(frames') = n
      /\ \A j \in 1..n : /\ frames'[j].idsDepth = frames[j].idsDepth
                         /\ frames'[j].proverDepth = frames[j].proverDepth
                         /\ frames'[j].pc = frames[j].pc
                         /\ j # n => frames'[j] = frames[j]
  <2>1. frames' = [frames EXCEPT ![n] = [frames[n] EXCEPT !.kind = "right"]]
    BY <1>3 DEF SwitchBranch
  <2>2. [frames[n] EXCEPT !.kind = "right"] \in Frame
    BY <1>2, <1>4 DEF Frame, Kinds
  <2>3. /\ [frames[n] EXCEPT !.kind = "right"].idsDepth = frames[n].idsDepth
        /\ [frames[n] EXCEPT !.kind = "right"].proverDepth = frames[n].proverDepth
        /\ [frames[n] EXCEPT !.kind = "right"].pc = frames[n].pc
    BY <1>2, <1>4 DEF Frame
  <2>4. /\ Len(frames') = n
        /\ \A j \in 1..n : frames'[j] = IF j = n THEN [frames[n] EXCEPT !.kind = "right"]
                                        ELSE frames[j]
    BY <1>1, <1>3, <1>4, <2>1, <2>2, ExceptSeq DEF StacksType
  <2> QED
    BY <1>4, <2>3, <2>4, Zenon
<1>7. frames' # <<>> /\ 1 \in 1..n
  BY <1>4, <1>6
<1>8. PICK d \in Nat : d = Last(frames).idsDepth
  BY <1>2 DEF Frame
<1>9. LevelsLive' /\ (\A k \in 0..d : LiveAt(k)' = LiveAt(k)) /\ Live' = LiveAt(d)'
  <2>1. RestoresLevel /\ UNCHANGED used_ids_stack
    BY DEF SwitchBranch, RestoresLevel
  <2>2. Len(used_ids_stack) - 1 = d
    BY <1>2, <1>8
  <2>3. /\ LevelsLive'
        /\ \A k \in 0..(Len(used_ids_stack) - 1) : LiveAt(k)' = LiveAt(k)
        /\ Live' = LiveAt(Len(used_ids_stack) - 1)'
    BY <1>1, <1>2, <2>1, ResetLevels
  <2>4. Len(used_ids_stack)' - 1 = d
    BY <2>1, <2>2
  <2> QED
    BY <2>2, <2>3, <2>4
<1>10. \A j \in 1..n : frames[j].idsDepth \in 0..d
  <2>1. \A j \in 1..n : j = n \/ j \in 1..(n - 1)
    OBVIOUS
  <2>2. \A j \in 1..(n - 1) : frames[j].idsDepth \in 0..d
    BY <1>1, <1>3, <1>4, <1>8, CallLevels
  <2>3. frames[n].idsDepth \in 0..d
    BY <1>4, <1>8
  <2> QED
    BY <2>1, <2>2, <2>3
<1>11. EntriesLive'
  <2> SUFFICES ASSUME frames'[1].proverDepth = 0, NEW j \in 1..n
               PROVE  frames'[j].pc \subseteq LiveAt(frames[j].idsDepth)'
    BY <1>6 DEF EntriesLive
  <2>1. PICK c : c = frames[j].idsDepth
    OBVIOUS
  <2>a. /\ frames'[j].pc = frames[j].pc /\ frames'[j].idsDepth = c
        /\ frames[1].proverDepth = 0 /\ c \in 0..d
    <3>1. frames'[1].proverDepth = frames[1].proverDepth
      BY <1>6, <1>7
    <3>2. frames'[j].pc = frames[j].pc /\ frames'[j].idsDepth = frames[j].idsDepth
      BY <1>6
    <3> QED
      BY <1>10, <2>1, <3>1, <3>2
  <2>2. frames[j].pc \subseteq LiveAt(c)
    BY <1>1, <1>3, <2>a, <2>1, Zenon DEF EntriesLive
  <2>3. LiveAt(frames[j].idsDepth)' = LiveAt(c)'
    BY <2>a, Zenon
  <2>4. LiveAt(c)' = LiveAt(c)
    BY <1>9, <2>a
  <2> QED
    BY <2>2, <2>3, <2>4, <2>a, Zenon
<1>12. OutermostSaved'
  BY <1>1, <1>5, <1>6, <1>7 DEF OutermostSaved, SwitchBranch
<1>13. PathLive'
  <2> SUFFICES ASSUME frames'[1].proverDepth = 0
               PROVE  path_condition' \subseteq Live'
    BY <1>7 DEF PathLive, NothingLeftOver
  <2>1. frames[n].pc \subseteq LiveAt(d)
    <3>1. frames[1].proverDepth = 0 /\ frames[n].idsDepth = d
      <4>1. frames'[1].proverDepth = frames[1].proverDepth
        BY <1>6, <1>7
      <4> QED
        BY <1>4, <1>8, <4>1
    <3> QED
      BY <1>1, <1>3, <1>4, <3>1, Zenon DEF EntriesLive
  <2> QED
    BY <1>2, <1>4, <1>9, <2>1
<1> QED
  BY <1>9, <1>11, <1>12, <1>13

(* What mk_ident returns is live, and so is what was live before. *)
LEMMA MkIdentLive ==
  ASSUME TypeOK, NEW s \in BaseIdent, NEW n \in used_ids[s]..(MaxIndex + 1), MkIdent(s, n)
  PROVE  Live \subseteq Live' /\ IdentAt(s, n) \in Live'
<1>1. IdentAt(s, n) \in Ident
  <2>1. s \in Ident /\ used_ids[s] \in Nat
    BY IdentAssumption DEF TypeOK, Counts
  <2>2. n \in 0..(MaxIndex + 1)
    BY <2>1, IdentAssumption
  <2> QED
    BY <2>2, IdentAtFacts
<1>2. \A i \in Ident : /\ issued[i] \in Nat
                       /\ issued'[i] = IF i = IdentAt(s, n) THEN issued[i] + 1 ELSE issued[i]
  <2>1. issued \in [Ident -> Nat] /\ issued' = [issued EXCEPT ![IdentAt(s, n)] = @ + 1]
    BY DEF TypeOK, Counts, MkIdent
  <2> QED
    BY ONLY <2>1
<1>3. \A i \in Ident : issued[i] > 0 => issued'[i] > 0
  <2> SUFFICES ASSUME NEW i \in Ident, issued[i] > 0
               PROVE  issued'[i] > 0
    OBVIOUS
  <2>1. issued[i] \in Nat /\ (issued'[i] = issued[i] \/ issued'[i] = issued[i] + 1)
    BY <1>2, Zenon
  <2> QED
    BY ONLY <2>1, issued[i] > 0
<1>4. issued'[IdentAt(s, n)] > 0
  BY <1>1, <1>2
<1> QED
  BY <1>1, <1>3, <1>4 DEF Live

(* Every step keeps the terms live. *)
LEMMA NextLive == TInv /\ [Next]_vars => TInv'
<1> SUFFICES ASSUME TInv, [Next]_vars
             PROVE  TInv'
  OBVIOUS
<1>a. IInv' /\ IInv /\ IdsInv /\ IdsType /\ TypeOK /\ LevelsLive
  BY NextInv, InvParts DEF TInv, IInv, IdsInv
<1> SUFFICES LevelsLive' /\ EntriesLive' /\ OutermostSaved' /\ PathLive'
  BY <1>a DEF TInv
<1>b. ASSUME Live \subseteq Live', UNCHANGED <<frames, prover_stack, used_ids_stack>>,
             dummy_frac_terms' \union pred_ctor_applications'
               \subseteq dummy_frac_terms \union pred_ctor_applications \union Live',
             path_condition' \subseteq path_condition \union Live'
      PROVE  LevelsLive' /\ EntriesLive' /\ OutermostSaved' /\ PathLive'
  <2>1. LevelsLive' /\ \A k \in 0..Len(used_ids_stack) : LiveAt(k) \subseteq LiveAt(k)'
    BY <1>a, <1>b, GrowLevels
  <2> QED
    BY <1>b, <2>1, SameCallsLive
<1>1. ASSUME NEW s \in BaseIdent, FreshSymbol(s)
      PROVE  LevelsLive' /\ EntriesLive' /\ OutermostSaved' /\ PathLive'
  <2>1. PICK n \in used_ids[s]..(MaxIndex + 1) : MkIdent(s, n)
    BY <1>1 DEF FreshSymbol
  <2>2. Live \subseteq Live'
    BY <1>a, <2>1, MkIdentLive
  <2> QED
    BY <1>1, <1>b, <2>2 DEF FreshSymbol, proverVars
<1>2. CASE FreshDummyFrac
  <2>1. PICK n \in used_ids[DummyIdent]..(MaxIndex + 1) :
          /\ MkIdent(DummyIdent, n)
          /\ dummy_frac_terms' = dummy_frac_terms \union {IdentAt(DummyIdent, n)}
    BY <1>2 DEF FreshDummyFrac
  <2>2. Live \subseteq Live' /\ IdentAt(DummyIdent, n) \in Live'
    BY <1>a, <2>1, IdentAssumption, MkIdentLive
  <2> QED
    BY <1>2, <1>b, <2>1, <2>2 DEF FreshDummyFrac, proverVars
<1>3. ASSUME NEW i \in Live, RegisterPredCtorApplication(i)
      PROVE  LevelsLive' /\ EntriesLive' /\ OutermostSaved' /\ PathLive'
  <2>1. Live' = Live
    BY <1>3 DEF RegisterPredCtorApplication, Live
  <2> QED
    BY <1>3, <1>b, <2>1 DEF RegisterPredCtorApplication, proverVars
<1>4. ASSUME NEW i \in Live, AssertTerm(i)
      PROVE  LevelsLive' /\ EntriesLive' /\ OutermostSaved' /\ PathLive'
  <2>1. Live' = Live
    BY <1>4 DEF AssertTerm, Live, idVars
  <2> QED
    BY <1>4, <1>b, <2>1 DEF AssertTerm, idVars
<1>5. CASE AssertFalse \/ UNCHANGED vars
  <2>1. UNCHANGED <<idVars, proverVars, frames>>
    BY <1>5 DEF AssertFalse, vars
  <2>2. Live' = Live
    BY <2>1 DEF Live, idVars
  <2> QED
    BY <1>b, <2>1, <2>2 DEF idVars, proverVars
<1>c. ASSUME NEW kind \in Kinds, EnterEffect(kind), kind = "func" <=> frames = <<>>,
             \/ PushUsedIds
             \/ UNCHANGED idVars,
             path_condition' \subseteq path_condition \union Live
      PROVE  LevelsLive' /\ EntriesLive' /\ OutermostSaved' /\ PathLive'
  <2>1. /\ LevelsLive' /\ Live' = Live
        /\ \A k \in 0..Len(used_ids_stack) : LiveAt(k)' = LiveAt(k)
    <3>1. CASE PushUsedIds
      BY <1>a, <3>1, PushLevels
    <3>2. CASE UNCHANGED idVars
      BY <1>a, <3>2, SameLevels DEF idVars
    <3> QED
      BY <1>c, <3>1, <3>2
  <2> QED
    BY <1>c, <2>1, EnterLive
<1>6. CASE StartFunc
  <2>1. EnterEffect("func")
    BY <1>6, <1>a, StartEffect
  <2> QED
    BY <1>6, <1>c, <2>1 DEF StartFunc, Push, ProverPush, Kinds
<1>7. CASE StartTemporary
  <2>1. EnterEffect("temp")
    BY <1>7, <1>a, StartEffect
  <2> QED
    BY <1>7, <1>c, <2>1 DEF StartTemporary, Push, ProverPush, Kinds
<1>8. CASE StartWithContext
  <2>1. EnterEffect("with_context")
    BY <1>8, <1>a, StartEffect
  <2> QED
    BY <1>8, <1>c, <2>1 DEF StartWithContext, InBody, proverVars, Kinds
<1>9. ASSUME NEW i \in Live, StartAssume(i)
      PROVE  LevelsLive' /\ EntriesLive' /\ OutermostSaved' /\ PathLive'
  <2>1. EnterEffect("assume")
    BY <1>9, <1>a, StartEffect
  <2> QED
    BY <1>9, <1>c, <2>1 DEF StartAssume, InBody, ProverPushAssume, Kinds
<1>10. CASE StartBranch
  <2>1. EnterEffect("left")
    BY <1>10, <1>a, StartEffect
  <2> QED
    BY <1>10, <1>c, <2>1 DEF StartBranch, InBody, ProverPush, Kinds
<1>11. CASE EndFunc \/ EndTemporary \/ EndWithContext \/ EndAssume \/ EndBranch
  <2>1. LeaveEffect /\ RestoresEntryState /\ IdsInv' /\ status = "run"
    BY <1>11, <1>a, ReturnEffect
  <2>2. IF Kind \in IdKinds THEN RestoresLevel
          ELSE UNCHANGED <<dummy_frac_terms, pred_ctor_applications, issued>>
    BY <1>11 DEF EndFunc, EndTemporary, EndWithContext, EndAssume, EndBranch, Leave, Pop,
                 PopUsedIds, RestoresLevel, IdKinds, idVars
  <2>3. Kind = "with_context" => UNCHANGED path_condition
    BY <1>11 DEF EndFunc, EndTemporary, EndWithContext, EndAssume, EndBranch, Leave, proverVars
  <2> QED
    BY <2>1, <2>2, <2>3, LeaveLive
<1>12. CASE SwitchBranch
  BY <1>12, SwitchLive
<1>13. CASE UnwindWithContext \/ UnwindOther
  BY <1>13, UnwindLive DEF UnwindWithContext, UnwindOther
<1>14. CASE CatchShouldFail
  BY <1>14, CatchLive
<1>15. CASE Abort
  BY <1>15, AbortLive
<1> QED
  BY <1>1, <1>2, <1>3, <1>4, <1>5, <1>6, <1>7, <1>8, <1>9, <1>10, <1>11, <1>12, <1>13,
     <1>14, <1>15 DEF Next

LEMMA InitLive == Init => TInv
<1> SUFFICES ASSUME Init
             PROVE  TInv
  OBVIOUS
<1>1. IInv
  BY InitInv
<1>2. Len(used_ids_stack) = 0 /\ frames = <<>> /\ path_condition = {}
  BY DEF Init
<1>3. LevelsLive
  <2> SUFFICES ASSUME NEW k \in 0..0
               PROVE  /\ TermsAt(k) \subseteq LiveAt(k)
                      /\ \A j \in 0..k : LiveAt(j) \subseteq LiveAt(k)
    BY <1>2 DEF LevelsLive
  <2>1. k = 0 /\ \A j \in 0..k : j = 0
    OBVIOUS
  <2>2. TermsAt(0) = {}
    BY <1>2 DEF TermsAt, Init
  <2> QED
    BY <2>1, <2>2
<1> QED
  BY <1>1, <1>2, <1>3 DEF TInv, EntriesLive, OutermostSaved, PathLive

(* Whatever was pushed, popped, abandoned by an exception and caught,      *)
(* every dummy fraction term and predicate constructor application is      *)
(* about a symbol that pop() has not forgotten; so is every assumption as  *)
(* long as no caught error left a level of the prover over.                *)
THEOREM TermsStayLive == Spec => []TermsAreLive
<1>1. TInv => TermsAreLive
  <2> SUFFICES ASSUME TInv
               PROVE  TermsAreLive
    OBVIOUS
  <2>1. IdsType /\ LevelsLive /\ PathLive
    BY InvParts DEF TInv, IdsInv
  <2>2. PICK n \in Nat : n = Len(used_ids_stack) /\ LiveAt(n) = Live
    BY <2>1, LevelFacts
  <2>3. TermsAt(n) = dummy_frac_terms \union pred_ctor_applications
    BY <2>2 DEF TermsAt
  <2>4. n \in 0..Len(used_ids_stack)
    BY <2>2
  <2> QED
    BY <2>1, <2>2, <2>3, <2>4 DEF LevelsLive, PathLive, TermsAreLive
<1> QED
  BY <1>1, InitLive, NextLive, PTL DEF Spec
=============================================================================
