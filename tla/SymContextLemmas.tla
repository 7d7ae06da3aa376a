-------------------------- MODULE SymContextLemmas --------------------------
(* The inductive invariant of SymContext, and the lemmas that the proof that  *)
(* it is inductive rests on: what mk_ident and the pushes and pops do to the  *)
(* identifier levels, and what starting and ending a call do to the stacks.   *)
EXTENDS SymContext, SequenceTheorems, TLAPS

IdKinds == {"func", "temp", "left", "right"}

(* The ids and undo counts one level above saved level k. *)
IdsAbove(k) ==
  IF k = Len(used_ids_stack) THEN used_ids ELSE used_ids_stack[k + 1].ids
UndoAbove(k) ==
  IF k = Len(used_ids_stack) THEN used_ids_undo_stack ELSE used_ids_stack[k + 1].undo

(* The cells at one level are those of the level below plus the decrements *)
(* due when the level is popped, so a pop restores the cells it found.     *)
UndoChain ==
  \A k \in 1..Len(used_ids_stack), i \in Ident :
    IdsAbove(k)[i] = used_ids_stack[k].ids[i] + UndoAbove(k)[i]

(* A live symbol is unique and its identifier's cell is not 0, now and at  *)
(* every level that a pop can return to.                                   *)
Fresh(ids, iss) ==
  \A i \in Ident : iss[i] <= 1 /\ (iss[i] > 0 => ids[i] > 0)
FreshLevels ==
  /\ Fresh(used_ids, issued)
  /\ \A k \in 1..Len(used_ids_stack) :
       Fresh(used_ids_stack[k].ids, used_ids_stack[k].issued)

(* Stack depths while frame j's call runs the call of frame j + 1, or, for *)
(* the last frame, now.                                                    *)
IdsDepthIn(j) ==
  IF j = Len(frames) THEN Len(used_ids_stack) ELSE frames[j + 1].idsDepth
ProverDepthIn(j) ==
  IF j = Len(frames) THEN Len(prover_stack) ELSE frames[j + 1].proverDepth
ContextDepthIn(j) ==
  IF j = Len(frames) THEN Len(contextStackStack) ELSE frames[j + 1].contextDepth
ContextIn(j) ==
  IF j = Len(frames) THEN contextStack ELSE frames[j + 1].context

IdsBump(kind) == IF kind \in IdKinds THEN 1 ELSE 0
ProverBump(kind) == IF kind = "with_context" THEN 0 ELSE 1
ContextBump(kind) == IF kind = "assume" THEN 0 ELSE 1

(* The levels that call j pushed are there during every call inside it. *)
Depths ==
  \A j \in 1..Len(frames) : \A k \in j..Len(frames) :
    /\ frames[j].idsDepth + IdsBump(frames[j].kind) <= IdsDepthIn(k)
    /\ frames[j].proverDepth + ProverBump(frames[j].kind) <= ProverDepthIn(k)
    /\ frames[j].contextDepth + ContextBump(frames[j].kind) <= ContextDepthIn(k)

(* While no exception is propagating, the level that a call will pop is    *)
(* the one it pushed, and it holds the state at its entry.                 *)
IdsAligned(j) ==
  IF frames[j].kind \in IdKinds
    THEN /\ IdsDepthIn(j) = frames[j].idsDepth + 1
         /\ used_ids_stack[frames[j].idsDepth + 1].ids = frames[j].ids
         /\ used_ids_stack[frames[j].idsDepth + 1].fracs = frames[j].fracs
         /\ used_ids_stack[frames[j].idsDepth + 1].ctors = frames[j].ctors
    ELSE IdsDepthIn(j) = frames[j].idsDepth
ProverAligned(j) ==
  IF frames[j].kind = "with_context"
    THEN ProverDepthIn(j) = frames[j].proverDepth
    ELSE /\ ProverDepthIn(j) = frames[j].proverDepth + 1
         /\ prover_stack[frames[j].proverDepth + 1] = frames[j].pc
BodyContext(f) ==
  IF f.kind = "with_context" THEN Append(f.context, "Executing")
  ELSE IF f.kind = "assume" THEN Append(f.context, "Assuming")
  ELSE IF f.kind = "left" THEN Append(f.context, "LeftBranch")
  ELSE IF f.kind = "right" THEN Append(f.context, "RightBranch")
  ELSE f.context
ContextAligned(j) ==
  /\ ContextIn(j) = BodyContext(frames[j])
  /\ IF frames[j].kind = "assume"
       THEN ContextDepthIn(j) = frames[j].contextDepth
       ELSE /\ ContextDepthIn(j) = frames[j].contextDepth + 1
            /\ contextStackStack[frames[j].contextDepth + 1] =
                 IF frames[j].kind = "with_context"
                   THEN frames[j].context ELSE BodyContext(frames[j])
Aligned ==
  status = "run" =>
    \A j \in 1..Len(frames) : IdsAligned(j) /\ ProverAligned(j) /\ ContextAligned(j)

(* verify_func is not nested in any other call. *)
FuncOutermost == \A j \in 1..Len(frames) : frames[j].kind = "func" => j = 1

IInv == TypeOK /\ UndoChain /\ FreshLevels /\ Depths /\ Aligned /\ FuncOutermost

-----------------------------------------------------------------------------
(* Sequences used as stacks. *)

(* The length of a prefix. *)
LEMMA PrefixLen ==
  ASSUME NEW S, NEW s \in Seq(S), NEW n \in Nat, n <= Len(s)
  PROVE  Len(SubSeq(s, 1, n)) = n
OBVIOUS

(* Taking the last element of a stack off leaves the others in place. *)
LEMMA FrontFacts ==
  ASSUME NEW S, NEW s \in Seq(S), s # <<>>
  PROVE  /\ Len(s) \in Nat /\ Len(s) > 0
         /\ Front(s) \in Seq(S)
         /\ Len(Front(s)) = Len(s) - 1
         /\ \A k \in 1..(Len(s) - 1) : Front(s)[k] = s[k]
         /\ Last(s) = s[Len(s)]
         /\ Last(s) \in S
<1>1. Len(s) \in Nat /\ Len(s) > 0
  OBVIOUS
<1>2. Len(Front(s)) = Len(s) - 1
  <2>1. Len(s) - 1 \in Nat /\ Len(s) - 1 <= Len(s)
    BY <1>1
  <2> QED
    BY <2>1, PrefixLen, Zenon DEF Front
<1>3. Front(s) \in Seq(S)
  BY <1>1 DEF Front
<1>4. \A k \in 1..(Len(s) - 1) : Front(s)[k] = s[k]
  BY <1>1 DEF Front
<1>5. Last(s) = s[Len(s)] /\ Last(s) \in S
  BY <1>1 DEF Last
<1> QED
  BY <1>1, <1>2, <1>3, <1>4, <1>5

LEMMA LastFacts ==
  ASSUME NEW S, NEW s \in Seq(S), s # <<>>
  PROVE  Len(s) \in 1..Len(s) /\ s[Len(s)] = Last(s)
<1>1. Len(s) \in Nat /\ Len(s) > 0 /\ Last(s) = s[Len(s)]
  BY FrontFacts, Zenon
<1> QED
  BY <1>1

(* Pushing an element leaves the others in place. *)
LEMMA AppendFacts ==
  ASSUME NEW S, NEW s \in Seq(S), NEW e \in S
  PROVE  /\ Len(s) \in Nat
         /\ Append(s, e) \in Seq(S)
         /\ Append(s, e) # <<>>
         /\ Len(Append(s, e)) = Len(s) + 1
         /\ \A k \in 1..Len(s) : Append(s, e)[k] = s[k]
         /\ Append(s, e)[Len(s) + 1] = e
OBVIOUS

(* Pushing and taking off again gives back the stack. *)
LEMMA FrontAppend ==
  ASSUME NEW S, NEW s \in Seq(S), NEW e \in S
  PROVE  Front(Append(s, e)) = s
BY DEF Front

-----------------------------------------------------------------------------
(* The identifier cells. *)

IdsType ==
  /\ used_ids \in Counts
  /\ used_ids_undo_stack \in Counts
  /\ dummy_frac_terms \subseteq Ident
  /\ pred_ctor_applications \subseteq Ident
  /\ used_ids_stack \in Seq(SavedIds)
  /\ issued \in Counts

IdsInv == IdsType /\ UndoChain /\ FreshLevels

(* What mk_ident tries is an identifier, different from s when indexed. *)
LEMMA IdentAtFacts ==
  ASSUME NEW s \in BaseIdent, NEW n \in 0..(MaxIndex + 1)
  PROVE  s \in Ident /\ IdentAt(s, n) \in Ident /\ (n > 0 <=> IdentAt(s, n) # s)
<1>1. CASE n = 0
  BY <1>1, IdentAssumption DEF IdentAt
<1>2. CASE n # 0
  <2>1. MaxIndex \in Nat /\ n - 1 \in 0..MaxIndex
    BY <1>2, IdentAssumption
  <2> QED
    BY <1>2, <2>1, IdentAssumption DEF IdentAt
<1> QED
  BY <1>1, <1>2

(* mk_ident hands out an identifier that no live symbol carries, and       *)
(* records exactly the increments it makes.                                *)
LEMMA MkIdentInv ==
  ASSUME IdsInv, NEW s \in BaseIdent, NEW n \in used_ids[s]..(MaxIndex + 1),
         MkIdent(s, n), UNCHANGED used_ids_stack,
         dummy_frac_terms' \subseteq Ident, pred_ctor_applications' \subseteq Ident
  PROVE  IdsInv'
<1> DEFINE r == IdentAt(s, n)
<1>1. used_ids[s] \in Nat /\ n \in Nat /\ n >= used_ids[s]
  BY IdentAssumption DEF IdsInv, IdsType, Counts
<1>2. s \in Ident /\ r \in Ident /\ (n > 0 <=> r # s)
  BY <1>1, IdentAtFacts, IdentAssumption
<1>3. used_ids[r] = 0
  BY DEF MkIdent, IsFree
<1>4. /\ used_ids' = [used_ids EXCEPT ![s] = n + 1, ![r] = 1]
      /\ used_ids_undo_stack' =
           [used_ids_undo_stack EXCEPT ![s] = @ + (n + 1 - used_ids[s]),
                                       ![r] = IF n = 0 THEN @ ELSE @ + 1]
      /\ issued' = [issued EXCEPT ![r] = @ + 1]
  BY DEF MkIdent
<1> HIDE DEF r
<1>a. /\ used_ids \in [Ident -> Nat] /\ used_ids_undo_stack \in [Ident -> Nat]
      /\ issued \in [Ident -> Nat] /\ used_ids_stack \in Seq(SavedIds)
      /\ n + 1 - used_ids[s] \in Nat
  BY <1>1 DEF IdsInv, IdsType, Counts
<1>b. \A i \in Ident :
        /\ used_ids'[i] = IF i = s THEN n + 1 ELSE IF i = r THEN 1 ELSE used_ids[i]
        /\ used_ids_undo_stack'[i] =
             IF i = s THEN used_ids_undo_stack[i] + (n + 1 - used_ids[s])
             ELSE IF i = r THEN used_ids_undo_stack[i] + 1 ELSE used_ids_undo_stack[i]
        /\ issued'[i] = IF i = r THEN issued[i] + 1 ELSE issued[i]
  <2>1. CASE n = 0
    BY <2>1, <1>1, <1>2, <1>4, <1>a
  <2>2. CASE n # 0
    <3>1. r # s
      BY <1>1, <1>2, <2>2
    <3>2. \A i \in Ident : used_ids'[i] = IF i = s THEN n + 1 ELSE IF i = r THEN 1 ELSE used_ids[i]
      BY <3>1, <1>2, <1>4, <1>a
    <3>3. \A i \in Ident : used_ids_undo_stack'[i] =
            IF i = s THEN used_ids_undo_stack[i] + (n + 1 - used_ids[s])
            ELSE IF i = r THEN used_ids_undo_stack[i] + 1 ELSE used_ids_undo_stack[i]
      BY <2>2, <3>1, <1>2, <1>4, <1>a
    <3>4. \A i \in Ident : issued'[i] = IF i = r THEN issued[i] + 1 ELSE issued[i]
      BY <1>2, <1>4, <1>a
    <3> QED
      BY <3>2, <3>3, <3>4
  <2> QED
    BY <2>1, <2>2
<1>5. IdsType'
  <2>1. used_ids' \in [Ident -> Nat]
    <3>1. n + 1 \in Nat
      BY <1>1
    <3>2. [used_ids EXCEPT ![s] = n + 1] \in [Ident -> Nat]
      BY <3>1, <1>2, <1>a
    <3> QED
      BY <3>2, <1>2, <1>4
  <2>3. issued' \in [Ident -> Nat]
    <3>1. issued[r] \in Nat
      BY <1>2, <1>a
    <3>2. issued[r] + 1 \in Nat
      BY <3>1
    <3> QED
      BY <1>2, <1>4, <1>a, <3>2
  <2>2. used_ids_undo_stack' \in [Ident -> Nat]
    <3> DEFINE d == n + 1 - used_ids[s]
    <3>1. d \in Nat
      BY <1>a
    <3>2. used_ids_undo_stack' =
            [used_ids_undo_stack EXCEPT ![s] = @ + d, ![r] = IF n = 0 THEN @ ELSE @ + 1]
      BY <1>4
    <3> HIDE DEF d
    <3>3. [used_ids_undo_stack EXCEPT ![s] = @ + d] \in [Ident -> Nat]
      BY <3>1, <1>2, <1>a
    <3> QED
      BY <3>2, <3>3, <1>2
  <2> QED
    BY <1>a, <2>1, <2>2, <2>3 DEF IdsType, Counts
<1>6. \A i \in Ident :
        used_ids'[i] - used_ids[i] = used_ids_undo_stack'[i] - used_ids_undo_stack[i]
  <2> TAKE i \in Ident
  <2>1. used_ids[i] \in Nat /\ used_ids_undo_stack[i] \in Nat
    BY <1>a
  <2>2. CASE i = s
    BY <1>1, <1>b, <2>1, <2>2
  <2>3. CASE i # s /\ i = r
    BY <1>3, <1>b, <2>1, <2>3
  <2>4. CASE i # s /\ i # r
    BY <1>b, <2>1, <2>4
  <2> QED
    BY <2>2, <2>3, <2>4
<1>7. UndoChain'
  <2> SUFFICES ASSUME NEW k \in 1..Len(used_ids_stack), NEW i \in Ident
               PROVE  (IdsAbove(k)[i] = used_ids_stack[k].ids[i] + UndoAbove(k)[i])'
    BY DEF UndoChain
  <2>1. CASE k = Len(used_ids_stack)
    <3>1. used_ids[i] = used_ids_stack[k].ids[i] + used_ids_undo_stack[i]
      BY <2>1 DEF IdsInv, UndoChain, IdsAbove, UndoAbove
    <3>2. used_ids_stack[k].ids[i] \in Nat
      <4>1. used_ids_stack[k] \in SavedIds
        BY <1>a
      <4> QED
        BY <4>1 DEF SavedIds, Counts
    <3>3. used_ids'[i] = used_ids_stack[k].ids[i] + used_ids_undo_stack'[i]
      <4>1. /\ used_ids[i] \in Nat /\ used_ids'[i] \in Nat
            /\ used_ids_undo_stack[i] \in Nat /\ used_ids_undo_stack'[i] \in Nat
        BY <1>5, <1>a DEF IdsType, Counts
      <4>2. used_ids'[i] - used_ids[i]
              = used_ids_undo_stack'[i] - used_ids_undo_stack[i]
        BY <1>6
      <4> QED
        BY ONLY <3>1, <3>2, <4>1, <4>2
    <3> QED
      BY <2>1, <3>3 DEF IdsAbove, UndoAbove
  <2>2. CASE k # Len(used_ids_stack)
    BY <2>2 DEF IdsInv, UndoChain, IdsAbove, UndoAbove
  <2> QED
    BY <2>1, <2>2
<1>8. Fresh(used_ids, issued)'
  <2>1. Fresh(used_ids, issued)
    BY DEF IdsInv, FreshLevels
  <2>2. issued[r] = 0
    <3>1. issued[r] \in Nat
      BY <1>2, <1>a
    <3>2. issued[r] > 0 => used_ids[r] > 0
      BY <1>2, <2>1 DEF Fresh
    <3> QED
      BY ONLY <1>3, <3>1, <3>2
  <2> QED
    <3> SUFFICES ASSUME NEW i \in Ident
                 PROVE  issued'[i] <= 1 /\ (issued'[i] > 0 => used_ids'[i] > 0)
      BY DEF Fresh
    <3>1. used_ids[i] \in Nat /\ issued[i] \in Nat
      BY <1>a
    <3>2. CASE i = r
      BY <1>1, <1>b, <2>2, <3>2
    <3>3. CASE i # r
      BY <1>1, <1>b, <2>1, <3>1, <3>3 DEF Fresh
    <3> QED
      BY <3>2, <3>3
<1>9. FreshLevels'
  BY <1>8 DEF IdsInv, FreshLevels, Fresh
<1> QED
  BY <1>5, <1>7, <1>9 DEF IdsInv

(* push() starts a level with nothing to undo. *)
LEMMA PushUsedIdsInv ==
  ASSUME IdsInv, PushUsedIds
  PROVE  IdsInv'
<1> DEFINE e == [undo |-> used_ids_undo_stack, fracs |-> dummy_frac_terms,
                 ctors |-> pred_ctor_applications, ids |-> used_ids, issued |-> issued]
           n == Len(used_ids_stack)
<1>1. /\ used_ids_stack \in Seq(SavedIds) /\ e \in SavedIds
      /\ used_ids \in [Ident -> Nat] /\ n \in Nat
  BY DEF IdsInv, IdsType, SavedIds, Counts
<1>2. /\ used_ids_stack' = Append(used_ids_stack, e)
      /\ used_ids_undo_stack' = [i \in Ident |-> 0]
      /\ UNCHANGED <<used_ids, dummy_frac_terms, pred_ctor_applications, issued>>
  BY DEF PushUsedIds, Zeros
<1>3. /\ used_ids_stack' \in Seq(SavedIds)
      /\ Len(used_ids_stack') = n + 1
      /\ \A k \in 1..n : used_ids_stack'[k] = used_ids_stack[k]
      /\ used_ids_stack'[n + 1] = e
  BY <1>1, <1>2, AppendFacts
<1>a. e.ids = used_ids /\ e.undo = used_ids_undo_stack /\ e.issued = issued
  OBVIOUS
<1> HIDE DEF e, n
<1>4. IdsType'
  BY <1>2, <1>3 DEF IdsInv, IdsType, Counts
<1>5. UndoChain'
  <2> SUFFICES ASSUME NEW k \in 1..(n + 1), NEW i \in Ident
               PROVE  (IdsAbove(k)[i] = used_ids_stack[k].ids[i] + UndoAbove(k)[i])'
    BY <1>3 DEF UndoChain
  <2>1. CASE k = n + 1
    BY <1>1, <1>2, <1>3, <1>a, <2>1 DEF IdsAbove, UndoAbove
  <2>2. CASE k \in 1..n
    <3>1. IdsAbove(k)[i] = used_ids_stack[k].ids[i] + UndoAbove(k)[i]
      BY <2>2 DEF n, IdsInv, UndoChain
    <3>2. IdsAbove(k)' = IdsAbove(k) /\ UndoAbove(k)' = UndoAbove(k)
      <4>1. CASE k = n
        BY <1>1, <1>3, <1>a, <4>1 DEF n, IdsAbove, UndoAbove
      <4>2. CASE k # n
        <5>1. k + 1 \in 1..n /\ k # n + 1
          BY <1>1, <2>2, <4>2
        <5> QED
          BY <1>3, <4>2, <5>1 DEF n, IdsAbove, UndoAbove
      <4> QED
        BY <4>1, <4>2
    <3> QED
      BY <1>3, <2>2, <3>1, <3>2
  <2> QED
    BY <1>1, <2>1, <2>2
<1>6. FreshLevels'
  <2>1. Fresh(used_ids, issued)'
    BY <1>2 DEF IdsInv, FreshLevels, Fresh
  <2>2. \A k \in 1..n : Fresh(used_ids_stack[k].ids, used_ids_stack[k].issued)
    BY DEF n, IdsInv, FreshLevels
  <2>3. Fresh(used_ids, issued)
    BY DEF IdsInv, FreshLevels
  <2>4. ASSUME NEW k \in 1..(n + 1)
        PROVE  Fresh(used_ids_stack'[k].ids, used_ids_stack'[k].issued)
    <3>1. CASE k = n + 1
      BY <1>3, <1>a, <2>3, <3>1
    <3>2. CASE k \in 1..n
      BY <1>3, <2>2, <3>2
    <3> QED
      BY <1>1, <3>1, <3>2
  <2> QED
    BY <1>3, <2>1, <2>4 DEF FreshLevels, Fresh
<1> QED
  BY <1>4, <1>5, <1>6 DEF IdsInv

(* A pop makes the cells what they were when the level was pushed. *)
LEMMA UndoRestores ==
  ASSUME IdsInv, used_ids_stack # <<>>
  PROVE  /\ Last(used_ids_stack) \in SavedIds
         /\ [i \in Ident |-> used_ids[i] - used_ids_undo_stack[i]]
              = Last(used_ids_stack).ids
<1>1. /\ used_ids_stack \in Seq(SavedIds)
      /\ used_ids \in [Ident -> Nat] /\ used_ids_undo_stack \in [Ident -> Nat]
  BY DEF IdsInv, IdsType, Counts
<1>2. /\ Len(used_ids_stack) \in 1..Len(used_ids_stack)
      /\ Last(used_ids_stack) = used_ids_stack[Len(used_ids_stack)]
      /\ Last(used_ids_stack) \in SavedIds
  BY <1>1, FrontFacts
<1>3. Last(used_ids_stack).ids \in [Ident -> Nat]
  BY <1>2 DEF SavedIds, Counts
<1>4. \A i \in Ident :
        used_ids[i] = Last(used_ids_stack).ids[i] + used_ids_undo_stack[i]
  BY <1>2 DEF IdsInv, UndoChain, IdsAbove, UndoAbove
<1>5. \A i \in Ident :
        used_ids[i] - used_ids_undo_stack[i] = Last(used_ids_stack).ids[i]
  <2> TAKE i \in Ident
  <2>1. /\ used_ids[i] \in Nat /\ used_ids_undo_stack[i] \in Nat
        /\ Last(used_ids_stack).ids[i] \in Nat
    BY <1>1, <1>3
  <2>2. used_ids[i] = Last(used_ids_stack).ids[i] + used_ids_undo_stack[i]
    BY <1>4
  <2> QED
    BY ONLY <2>1, <2>2
<1> QED
  BY <1>2, <1>3, <1>5

(* pop() returns to the level below. *)
LEMMA PopUsedIdsInv ==
  ASSUME IdsInv, used_ids_stack # <<>>, PopUsedIds
  PROVE  IdsInv'
<1> DEFINE saved == Last(used_ids_stack)
           n == Len(used_ids_stack)
<1>1. /\ saved \in SavedIds
      /\ used_ids' = saved.ids /\ used_ids_undo_stack' = saved.undo
      /\ dummy_frac_terms' = saved.fracs /\ pred_ctor_applications' = saved.ctors
      /\ issued' = saved.issued
      /\ used_ids_stack' = Front(used_ids_stack)
  BY UndoRestores DEF PopUsedIds
<1>2. /\ n \in Nat /\ n > 0 /\ used_ids_stack[n] = saved
      /\ used_ids_stack' \in Seq(SavedIds)
      /\ Len(used_ids_stack') = n - 1
      /\ \A k \in 1..(n - 1) : used_ids_stack'[k] = used_ids_stack[k]
  BY <1>1, FrontFacts DEF IdsInv, IdsType
<1> HIDE DEF saved, n
<1>3. IdsType'
  BY <1>1, <1>2 DEF IdsType, SavedIds
<1>4. UndoChain'
  <2> SUFFICES ASSUME NEW k \in 1..(n - 1), NEW i \in Ident
               PROVE  (IdsAbove(k)[i] = used_ids_stack[k].ids[i] + UndoAbove(k)[i])'
    BY <1>2 DEF UndoChain
  <2>1. k \in 1..n /\ k # n
    BY <1>2
  <2>2. IdsAbove(k)[i] = used_ids_stack[k].ids[i] + UndoAbove(k)[i]
    BY <2>1 DEF n, IdsInv, UndoChain
  <2>3. IdsAbove(k)' = IdsAbove(k) /\ UndoAbove(k)' = UndoAbove(k)
    <3>1. CASE k = n - 1
      <4>1. k + 1 = n
        BY <1>2, <3>1
      <4> QED
        BY <1>1, <1>2, <2>1, <3>1, <4>1 DEF n, IdsAbove, UndoAbove
    <3>2. CASE k # n - 1
      <4>1. k + 1 \in 1..(n - 1)
        BY <1>2, <3>2
      <4> QED
        BY <1>2, <2>1, <3>2, <4>1 DEF n, IdsAbove, UndoAbove
    <3> QED
      BY <3>1, <3>2
  <2> QED
    BY <1>2, <2>2, <2>3
<1>5. FreshLevels'
  <2>1. \A k \in 1..n : Fresh(used_ids_stack[k].ids, used_ids_stack[k].issued)
    BY DEF n, IdsInv, FreshLevels
  <2>2. Fresh(saved.ids, saved.issued)
    BY <1>2, <2>1
  <2>3. \A k \in 1..(n - 1) : Fresh(used_ids_stack'[k].ids, used_ids_stack'[k].issued)
    BY <1>2, <2>1
  <2> QED
    BY <1>1, <1>2, <2>2, <2>3 DEF FreshLevels, Fresh
<1> QED
  BY <1>3, <1>4, <1>5 DEF IdsInv

(* branch's pop() and push() between its continuations. *)
LEMMA SwitchUsedIdsInv ==
  ASSUME IdsInv, used_ids_stack # <<>>,
         used_ids' = [i \in Ident |-> used_ids[i] - used_ids_undo_stack[i]],
         used_ids_undo_stack' = Zeros,
         dummy_frac_terms' = Last(used_ids_stack).fracs,
         pred_ctor_applications' = Last(used_ids_stack).ctors,
         issued' = Last(used_ids_stack).issued,
         UNCHANGED used_ids_stack
  PROVE  IdsInv'
<1> DEFINE saved == Last(used_ids_stack)
           n == Len(used_ids_stack)
<1>1. saved \in SavedIds /\ used_ids' = saved.ids
  BY UndoRestores
<1>2. n \in Nat /\ n > 0 /\ used_ids_stack[n] = saved /\ used_ids_stack \in Seq(SavedIds)
  BY FrontFacts, Zenon DEF IdsInv, IdsType
<1>3. /\ used_ids_undo_stack' = [i \in Ident |-> 0]
      /\ dummy_frac_terms' = saved.fracs /\ pred_ctor_applications' = saved.ctors
      /\ issued' = saved.issued
  BY DEF Zeros
<1> HIDE DEF saved, n
<1>4. IdsType'
  BY <1>1, <1>2, <1>3 DEF IdsType, SavedIds, Counts
<1>5. UndoChain'
  <2> SUFFICES ASSUME NEW k \in 1..n, NEW i \in Ident
               PROVE  (IdsAbove(k)[i] = used_ids_stack[k].ids[i] + UndoAbove(k)[i])'
    BY DEF n, UndoChain
  <2>1. CASE k = n
    <3>1. saved.ids[i] \in Nat
      BY <1>1 DEF SavedIds, Counts
    <3> QED
      BY <1>1, <1>2, <1>3, <2>1, <3>1 DEF n, IdsAbove, UndoAbove
  <2>2. CASE k # n
    BY <2>2 DEF n, IdsInv, UndoChain, IdsAbove, UndoAbove
  <2> QED
    BY <2>1, <2>2
<1>6. FreshLevels'
  <2>1. \A k \in 1..n : Fresh(used_ids_stack[k].ids, used_ids_stack[k].issued)
    BY DEF n, IdsInv, FreshLevels
  <2>2. Fresh(saved.ids, saved.issued)
    BY <1>2, <2>1
  <2> QED
    BY <1>1, <1>2, <1>3, <2>1, <2>2 DEF n, FreshLevels, Fresh
<1> QED
  BY <1>4, <1>5, <1>6 DEF IdsInv

-----------------------------------------------------------------------------
(* The calls in progress. *)

StacksType ==
  /\ used_ids_stack \in Seq(SavedIds)
  /\ prover_stack \in Seq(SUBSET Ident)
  /\ contextStackStack \in Seq(Seq(Messages))
  /\ frames \in Seq(Frame)

LEMMA StackLengths ==
  ASSUME StacksType
  PROVE  /\ Len(frames) \in Nat /\ Len(used_ids_stack) \in Nat
         /\ Len(prover_stack) \in Nat /\ Len(contextStackStack) \in Nat
         /\ \A j \in 1..Len(frames) :
              /\ frames[j] \in Frame /\ frames[j].kind \in Kinds
              /\ frames[j].idsDepth \in Nat /\ frames[j].proverDepth \in Nat
              /\ frames[j].contextDepth \in Nat
              /\ IdsBump(frames[j].kind) \in {0, 1}
              /\ ProverBump(frames[j].kind) \in {0, 1}
              /\ ContextBump(frames[j].kind) \in {0, 1}
<1>1. \A j \in 1..Len(frames) : frames[j] \in Frame
  BY DEF StacksType
<1>2. \A f \in Frame : /\ f.kind \in Kinds /\ f.idsDepth \in Nat
                       /\ f.proverDepth \in Nat /\ f.contextDepth \in Nat
  BY DEF Frame
<1>3. \A kind : /\ IdsBump(kind) \in {0, 1} /\ ProverBump(kind) \in {0, 1}
                /\ ContextBump(kind) \in {0, 1}
  BY DEF IdsBump, ProverBump, ContextBump
<1>4. /\ Len(frames) \in Nat /\ Len(used_ids_stack) \in Nat
      /\ Len(prover_stack) \in Nat /\ Len(contextStackStack) \in Nat
  BY DEF StacksType
<1> QED
  BY <1>1, <1>2, <1>3, <1>4

(* What a call that starts records about the state it starts in. *)
LEMMA SnapshotFields ==
  ASSUME NEW kind
  PROVE  /\ Snapshot(kind).kind = kind
         /\ Snapshot(kind).idsDepth = Len(used_ids_stack)
         /\ Snapshot(kind).ids = used_ids
         /\ Snapshot(kind).fracs = dummy_frac_terms
         /\ Snapshot(kind).ctors = pred_ctor_applications
         /\ Snapshot(kind).proverDepth = Len(prover_stack)
         /\ Snapshot(kind).pc = path_condition
         /\ Snapshot(kind).contextDepth = Len(contextStackStack)
         /\ Snapshot(kind).context = contextStack
BY DEF Snapshot

(* A call that starts records where the stacks stand. *)
LEMMA EnterDepths ==
  ASSUME StacksType, Depths, NEW kind \in Kinds, Snapshot(kind) \in Frame,
         frames' = Append(frames, Snapshot(kind)),
         Len(used_ids_stack') = Len(used_ids_stack) + IdsBump(kind),
         Len(prover_stack') = Len(prover_stack) + ProverBump(kind),
         Len(contextStackStack') = Len(contextStackStack) + ContextBump(kind)
  PROVE  Depths'
<1> DEFINE f == Snapshot(kind)
<1>0. PICK n \in Nat : n = Len(frames)
  BY StackLengths
<1>1. /\ n \in Nat /\ Len(frames') = n + 1
      /\ \A j \in 1..n : frames'[j] = frames[j]
      /\ frames'[n + 1] = f
  BY <1>0, AppendFacts DEF StacksType
<1>2. /\ f.kind = kind /\ f.idsDepth = Len(used_ids_stack)
      /\ f.proverDepth = Len(prover_stack) /\ f.contextDepth = Len(contextStackStack)
      /\ IdsBump(kind) \in {0, 1} /\ ProverBump(kind) \in {0, 1}
      /\ ContextBump(kind) \in {0, 1}
  BY DEF Snapshot, IdsBump, ProverBump, ContextBump
<1> HIDE DEF f
<1>3. /\ IdsDepthIn(n + 1)' = Len(used_ids_stack) + IdsBump(kind)
      /\ ProverDepthIn(n + 1)' = Len(prover_stack) + ProverBump(kind)
      /\ ContextDepthIn(n + 1)' = Len(contextStackStack) + ContextBump(kind)
  BY <1>1 DEF IdsDepthIn, ProverDepthIn, ContextDepthIn
<1>4. ASSUME NEW k \in 1..n
      PROVE  /\ IdsDepthIn(k)' = IdsDepthIn(k) /\ ProverDepthIn(k)' = ProverDepthIn(k)
             /\ ContextDepthIn(k)' = ContextDepthIn(k)
  <2>1. CASE k = n
    BY <1>0, <1>1, <1>2, <2>1 DEF IdsDepthIn, ProverDepthIn, ContextDepthIn
  <2>2. CASE k # n
    <3>1. k + 1 \in 1..n /\ k # n + 1
      BY <1>1, <2>2
    <3> QED
      BY <1>0, <1>1, <2>2, <3>1 DEF IdsDepthIn, ProverDepthIn, ContextDepthIn
  <2> QED
    BY <2>1, <2>2
<1> SUFFICES ASSUME NEW j \in 1..(n + 1), NEW k \in j..(n + 1)
             PROVE  (/\ frames[j].idsDepth + IdsBump(frames[j].kind) <= IdsDepthIn(k)
                     /\ frames[j].proverDepth + ProverBump(frames[j].kind)
                          <= ProverDepthIn(k)
                     /\ frames[j].contextDepth + ContextBump(frames[j].kind)
                          <= ContextDepthIn(k))'
  BY <1>1 DEF Depths
<1>5. CASE j = n + 1
  <2>1. k = n + 1
    BY <1>1, <1>5
  <2> QED
    BY <1>1, <1>2, <1>3, <1>5, <2>1, StackLengths
<1>6. CASE j # n + 1 /\ k \in 1..n
  <2>1. j \in 1..n /\ k \in j..n
    BY <1>1, <1>6
  <2>2. /\ frames[j].idsDepth + IdsBump(frames[j].kind) <= IdsDepthIn(k)
        /\ frames[j].proverDepth + ProverBump(frames[j].kind) <= ProverDepthIn(k)
        /\ frames[j].contextDepth + ContextBump(frames[j].kind) <= ContextDepthIn(k)
    BY <1>0, <2>1 DEF Depths
  <2> QED
    BY <1>1, <1>4, <1>6, <2>1, <2>2
<1>7. CASE j # n + 1 /\ k = n + 1
  <2>1. j \in 1..n /\ n \in j..n
    BY <1>1, <1>7
  <2>2. /\ frames[j].idsDepth + IdsBump(frames[j].kind) <= Len(used_ids_stack)
        /\ frames[j].proverDepth + ProverBump(frames[j].kind) <= Len(prover_stack)
        /\ frames[j].contextDepth + ContextBump(frames[j].kind)
             <= Len(contextStackStack)
    BY <1>0, <2>1 DEF Depths, IdsDepthIn, ProverDepthIn, ContextDepthIn
  <2>3. /\ frames[j].idsDepth + IdsBump(frames[j].kind) \in Nat
        /\ frames[j].proverDepth + ProverBump(frames[j].kind) \in Nat
        /\ frames[j].contextDepth + ContextBump(frames[j].kind) \in Nat
    <3>1. /\ frames[j].idsDepth \in Nat /\ IdsBump(frames[j].kind) \in Nat
          /\ frames[j].proverDepth \in Nat /\ ProverBump(frames[j].kind) \in Nat
          /\ frames[j].contextDepth \in Nat /\ ContextBump(frames[j].kind) \in Nat
      BY <1>0, <2>1, StackLengths DEF IdsBump, ProverBump, ContextBump
    <3> QED
      BY ONLY <3>1
  <2>4. /\ Len(used_ids_stack) \in Nat /\ Len(prover_stack) \in Nat
        /\ Len(contextStackStack) \in Nat
    BY StackLengths
  <2>5. frames'[j] = frames[j]
    BY <1>1, <2>1
  <2>6. /\ IdsDepthIn(k)' = Len(used_ids_stack) + IdsBump(kind)
        /\ ProverDepthIn(k)' = Len(prover_stack) + ProverBump(kind)
        /\ ContextDepthIn(k)' = Len(contextStackStack) + ContextBump(kind)
    BY <1>3, <1>7
  <2>7. \A a, b \in Nat, c \in {0, 1} : a <= b => a <= b + c
    OBVIOUS
  <2>8. /\ frames[j].idsDepth + IdsBump(frames[j].kind)
             <= Len(used_ids_stack) + IdsBump(kind)
        /\ frames[j].proverDepth + ProverBump(frames[j].kind)
             <= Len(prover_stack) + ProverBump(kind)
        /\ frames[j].contextDepth + ContextBump(frames[j].kind)
             <= Len(contextStackStack) + ContextBump(kind)
    BY ONLY <1>2, <2>2, <2>3, <2>4, <2>7, Zenon
  <2> QED
    BY <2>5, <2>6, <2>8
<1> QED
  BY <1>1, <1>5, <1>6, <1>7

(* A call that ends, normally or not, leaves at least the levels that were *)
(* there when it started.                                                  *)
LEMMA LeaveDepths ==
  ASSUME StacksType, Depths, frames # <<>>, frames' = Front(frames),
         Len(used_ids_stack') >= Last(frames).idsDepth,
         Len(prover_stack') >= Last(frames).proverDepth,
         Len(contextStackStack') >= Last(frames).contextDepth,
         StacksType'
  PROVE  Depths'
<1>0. PICK n \in Nat : n = Len(frames)
  BY StackLengths
<1>1. /\ n > 0 /\ Len(frames') = n - 1 /\ Last(frames) = frames[n]
      /\ \A j \in 1..(n - 1) : frames'[j] = frames[j]
  BY <1>0, FrontFacts, Zenon DEF StacksType
<1> SUFFICES ASSUME NEW j \in 1..(n - 1), NEW k \in j..(n - 1)
             PROVE  (/\ frames[j].idsDepth + IdsBump(frames[j].kind) <= IdsDepthIn(k)
                     /\ frames[j].proverDepth + ProverBump(frames[j].kind)
                          <= ProverDepthIn(k)
                     /\ frames[j].contextDepth + ContextBump(frames[j].kind)
                          <= ContextDepthIn(k))'
  BY <1>1 DEF Depths
<1>2. j \in 1..n /\ k \in j..n /\ k # n /\ k + 1 \in 1..n
  BY <1>1
<1>3. /\ frames[j].idsDepth + IdsBump(frames[j].kind) <= frames[k + 1].idsDepth
      /\ frames[j].proverDepth + ProverBump(frames[j].kind) <= frames[k + 1].proverDepth
      /\ frames[j].contextDepth + ContextBump(frames[j].kind)
           <= frames[k + 1].contextDepth
  BY <1>0, <1>2 DEF Depths, IdsDepthIn, ProverDepthIn, ContextDepthIn
<1>4. /\ frames[j].idsDepth + IdsBump(frames[j].kind) \in Nat
      /\ frames[j].proverDepth + ProverBump(frames[j].kind) \in Nat
      /\ frames[j].contextDepth + ContextBump(frames[j].kind) \in Nat
      /\ frames[k + 1].idsDepth \in Nat /\ frames[k + 1].proverDepth \in Nat
      /\ frames[k + 1].contextDepth \in Nat
  <2>1. \A i \in 1..n :
          /\ frames[i].idsDepth \in Nat /\ frames[i].proverDepth \in Nat
          /\ frames[i].contextDepth \in Nat
          /\ IdsBump(frames[i].kind) \in {0, 1} /\ ProverBump(frames[i].kind) \in {0, 1}
          /\ ContextBump(frames[i].kind) \in {0, 1}
    BY <1>0, StackLengths
  <2>2. \A a \in Nat, b \in {0, 1} : a + b \in Nat
    OBVIOUS
  <2> QED
    BY <1>2, <2>1, <2>2, Zenon
<1>5. /\ Len(used_ids_stack') \in Nat /\ Len(prover_stack') \in Nat
      /\ Len(contextStackStack') \in Nat
  BY DEF StacksType
<1>6. CASE k = n - 1
  <2>1. k + 1 = n
    BY <1>1, <1>6
  <2>2. /\ IdsDepthIn(k)' = Len(used_ids_stack')
        /\ ProverDepthIn(k)' = Len(prover_stack')
        /\ ContextDepthIn(k)' = Len(contextStackStack')
    BY <1>1, <1>6 DEF IdsDepthIn, ProverDepthIn, ContextDepthIn
  <2>3. \A a, b, c \in Nat : a <= b /\ c >= b => a <= c
    OBVIOUS
  <2>4. frames'[j] = frames[j] /\ Last(frames) = frames[k + 1]
    BY <1>1, <2>1
  <2> QED
    BY <1>3, <1>4, <1>5, <2>2, <2>3, <2>4
<1>7. CASE k # n - 1
  <2>1. k + 1 \in 1..(n - 1)
    BY <1>1, <1>7
  <2>2. /\ IdsDepthIn(k)' = frames[k + 1].idsDepth
        /\ ProverDepthIn(k)' = frames[k + 1].proverDepth
        /\ ContextDepthIn(k)' = frames[k + 1].contextDepth
    BY <1>1, <1>7, <2>1 DEF IdsDepthIn, ProverDepthIn, ContextDepthIn
  <2> QED
    BY <1>1, <1>3, <2>2
<1> QED
  BY <1>6, <1>7

(* The level that a call pushed is below the top during every inner call. *)
LEMMA DepthBounds ==
  ASSUME StacksType, Depths, NEW j \in 1..Len(frames)
  PROVE  /\ frames[j].idsDepth + IdsBump(frames[j].kind) <= Len(used_ids_stack)
         /\ frames[j].proverDepth + ProverBump(frames[j].kind) <= Len(prover_stack)
         /\ frames[j].contextDepth + ContextBump(frames[j].kind)
              <= Len(contextStackStack)
<1>1. Len(frames) \in j..Len(frames)
  BY StackLengths
<1> QED
  BY <1>1 DEF Depths, IdsDepthIn, ProverDepthIn, ContextDepthIn

(* The stacks never stand lower than during an outer call. *)
LEMMA DepthInBounds ==
  ASSUME StacksType, Depths, NEW j \in 1..Len(frames)
  PROVE  /\ IdsDepthIn(j) \in Nat /\ ProverDepthIn(j) \in Nat /\ ContextDepthIn(j) \in Nat
         /\ IdsDepthIn(j) <= Len(used_ids_stack)
         /\ ProverDepthIn(j) <= Len(prover_stack)
         /\ ContextDepthIn(j) <= Len(contextStackStack)
<1>1. CASE j = Len(frames)
  BY <1>1, StackLengths DEF IdsDepthIn, ProverDepthIn, ContextDepthIn
<1>2. CASE j # Len(frames)
  <2>1. j + 1 \in 1..Len(frames)
    BY <1>2, StackLengths
  <2>2. /\ frames[j + 1].idsDepth \in Nat /\ frames[j + 1].proverDepth \in Nat
        /\ frames[j + 1].contextDepth \in Nat
        /\ IdsBump(frames[j + 1].kind) \in {0, 1}
        /\ ProverBump(frames[j + 1].kind) \in {0, 1}
        /\ ContextBump(frames[j + 1].kind) \in {0, 1}
        /\ Len(used_ids_stack) \in Nat /\ Len(prover_stack) \in Nat
        /\ Len(contextStackStack) \in Nat
    BY <2>1, StackLengths
  <2>3. \A a, c \in Nat, b \in {0, 1} : a + b <= c => a <= c
    OBVIOUS
  <2>4. /\ frames[j + 1].idsDepth <= Len(used_ids_stack)
        /\ frames[j + 1].proverDepth <= Len(prover_stack)
        /\ frames[j + 1].contextDepth <= Len(contextStackStack)
    BY <2>1, <2>2, <2>3, DepthBounds
  <2> QED
    BY <1>2, <2>2, <2>4 DEF IdsDepthIn, ProverDepthIn, ContextDepthIn
<1> QED
  BY <1>1, <1>2

(* Entries up to a common depth are not disturbed by a push or a pop, so   *)
(* calls that were aligned with the stacks stay so.                        *)
LEMMA StillAligned ==
  ASSUME StacksType, NEW j \in 1..Len(frames),
         IdsAligned(j), ProverAligned(j), ContextAligned(j),
         IdsDepthIn(j)' = IdsDepthIn(j), ProverDepthIn(j)' = ProverDepthIn(j),
         ContextDepthIn(j)' = ContextDepthIn(j), ContextIn(j)' = ContextIn(j),
         frames'[j] = frames[j],
         \A k \in 1..IdsDepthIn(j) : used_ids_stack'[k] = used_ids_stack[k],
         \A k \in 1..ProverDepthIn(j) : prover_stack'[k] = prover_stack[k],
         \A k \in 1..ContextDepthIn(j) : contextStackStack'[k] = contextStackStack[k]
  PROVE  IdsAligned(j)' /\ ProverAligned(j)' /\ ContextAligned(j)'
<1>1. /\ frames[j].idsDepth \in Nat /\ frames[j].proverDepth \in Nat
      /\ frames[j].contextDepth \in Nat
  BY StackLengths
<1>2. IdsAligned(j)'
  <2>1. CASE frames[j].kind \in IdKinds
    <3>1. frames[j].idsDepth + 1 \in 1..IdsDepthIn(j)
      BY <1>1, <2>1 DEF IdsAligned
    <3>2. used_ids_stack'[frames[j].idsDepth + 1] = used_ids_stack[frames[j].idsDepth + 1]
      BY <3>1
    <3> QED
      BY <2>1, <3>2 DEF IdsAligned
  <2>2. CASE frames[j].kind \notin IdKinds
    BY <2>2 DEF IdsAligned
  <2> QED
    BY <2>1, <2>2
<1>3. ProverAligned(j)'
  <2>1. CASE frames[j].kind # "with_context"
    <3>1. frames[j].proverDepth + 1 \in 1..ProverDepthIn(j)
      BY <1>1, <2>1 DEF ProverAligned
    <3>2. prover_stack'[frames[j].proverDepth + 1] = prover_stack[frames[j].proverDepth + 1]
      BY <3>1
    <3> QED
      BY <2>1, <3>2 DEF ProverAligned
  <2>2. CASE frames[j].kind = "with_context"
    BY <2>2 DEF ProverAligned
  <2> QED
    BY <2>1, <2>2
<1>4. ContextAligned(j)'
  <2>1. BodyContext(frames[j])' = BodyContext(frames[j])
    BY DEF BodyContext
  <2>2. CASE frames[j].kind # "assume"
    <3>1. frames[j].contextDepth + 1 \in 1..ContextDepthIn(j)
      BY <1>1, <2>2 DEF ContextAligned
    <3>2. contextStackStack'[frames[j].contextDepth + 1]
            = contextStackStack[frames[j].contextDepth + 1]
      BY <3>1
    <3> QED
      BY <2>1, <2>2, <3>2 DEF ContextAligned
  <2>3. CASE frames[j].kind = "assume"
    BY <2>1, <2>3 DEF ContextAligned
  <2> QED
    BY <2>2, <2>3
<1> QED
  BY <1>2, <1>3, <1>4

(* What each kind of call does to the stacks when it starts. *)
EnterEffect(kind) ==
  /\ frames' = Append(frames, Snapshot(kind))
  /\ IF kind \in IdKinds
       THEN \E e \in SavedIds :
              /\ used_ids_stack' = Append(used_ids_stack, e)
              /\ e.ids = used_ids /\ e.fracs = dummy_frac_terms
              /\ e.ctors = pred_ctor_applications
       ELSE UNCHANGED used_ids_stack
  /\ IF kind = "with_context" THEN UNCHANGED prover_stack
       ELSE prover_stack' = Append(prover_stack, path_condition)
  /\ contextStack' = BodyContext(Snapshot(kind))
  /\ IF kind = "assume" THEN UNCHANGED contextStackStack
       ELSE contextStackStack' = Append(contextStackStack,
              IF kind = "with_context" THEN contextStack
                ELSE BodyContext(Snapshot(kind)))

LEMMA EnterStacks ==
  ASSUME TypeOK, NEW kind \in Kinds, EnterEffect(kind)
  PROVE  /\ StacksType' /\ contextStack' \in Seq(Messages)
         /\ Snapshot(kind) \in Frame
         /\ Len(used_ids_stack') = Len(used_ids_stack) + IdsBump(kind)
         /\ Len(prover_stack') = Len(prover_stack) + ProverBump(kind)
         /\ Len(contextStackStack') = Len(contextStackStack) + ContextBump(kind)
         /\ \A k \in 1..Len(used_ids_stack) : used_ids_stack'[k] = used_ids_stack[k]
         /\ \A k \in 1..Len(prover_stack) : prover_stack'[k] = prover_stack[k]
         /\ \A k \in 1..Len(contextStackStack) :
              contextStackStack'[k] = contextStackStack[k]
<1>1. Snapshot(kind) \in Frame
  BY DEF Snapshot, Frame, TypeOK
<1>2. BodyContext(Snapshot(kind)) \in Seq(Messages)
  <2>1. \A m \in Messages : Append(contextStack, m) \in Seq(Messages)
    BY DEF TypeOK
  <2>2. Snapshot(kind).context = contextStack
    BY DEF Snapshot
  <2>3. contextStack \in Seq(Messages)
    BY DEF TypeOK
  <2> QED
    BY <2>1, <2>2, <2>3 DEF BodyContext, Messages
<1>3. frames' \in Seq(Frame)
  BY <1>1, AppendFacts DEF EnterEffect, TypeOK
<1>4. /\ used_ids_stack' \in Seq(SavedIds)
      /\ Len(used_ids_stack') = Len(used_ids_stack) + IdsBump(kind)
      /\ \A k \in 1..Len(used_ids_stack) : used_ids_stack'[k] = used_ids_stack[k]
  <2>0. used_ids_stack \in Seq(SavedIds) /\ Len(used_ids_stack) \in Nat
    BY DEF TypeOK
  <2>1. CASE kind \in IdKinds
    <3>1. PICK e \in SavedIds : used_ids_stack' = Append(used_ids_stack, e)
      BY <2>1 DEF EnterEffect
    <3> QED
      BY <2>0, <2>1, <3>1, AppendFacts DEF IdsBump
  <2>2. CASE kind \notin IdKinds
    BY <2>0, <2>2 DEF IdsBump, EnterEffect
  <2> QED
    BY <2>1, <2>2
<1>5. /\ prover_stack' \in Seq(SUBSET Ident)
      /\ Len(prover_stack') = Len(prover_stack) + ProverBump(kind)
      /\ \A k \in 1..Len(prover_stack) : prover_stack'[k] = prover_stack[k]
  <2>0. /\ prover_stack \in Seq(SUBSET Ident) /\ Len(prover_stack) \in Nat
        /\ path_condition \in SUBSET Ident
    BY DEF TypeOK
  <2>1. CASE kind # "with_context"
    <3>1. prover_stack' = Append(prover_stack, path_condition) /\ ProverBump(kind) = 1
      BY <2>1 DEF EnterEffect, ProverBump
    <3> QED
      BY ONLY <2>0, <3>1, AppendFacts
  <2>2. CASE kind = "with_context"
    BY <2>0, <2>2 DEF ProverBump, EnterEffect
  <2> QED
    BY <2>1, <2>2
<1>6. /\ contextStackStack' \in Seq(Seq(Messages))
      /\ Len(contextStackStack') = Len(contextStackStack) + ContextBump(kind)
      /\ \A k \in 1..Len(contextStackStack) :
           contextStackStack'[k] = contextStackStack[k]
  <2>0. /\ contextStackStack \in Seq(Seq(Messages)) /\ Len(contextStackStack) \in Nat
        /\ contextStack \in Seq(Messages)
    BY DEF TypeOK
  <2>1. CASE kind # "assume"
    <3>1. PICK c \in Seq(Messages) : contextStackStack' = Append(contextStackStack, c)
      BY <1>2, <2>0, <2>1 DEF EnterEffect
    <3> QED
      BY <2>0, <2>1, <3>1, AppendFacts DEF ContextBump
  <2>2. CASE kind = "assume"
    BY <2>0, <2>2 DEF ContextBump, EnterEffect
  <2> QED
    BY <2>1, <2>2
<1> QED
  BY <1>1, <1>2, <1>3, <1>4, <1>5, <1>6 DEF StacksType, EnterEffect

(* A call that starts is aligned with the stacks, and so are the others. *)
LEMMA EnterAligned ==
  ASSUME TypeOK, Depths, Aligned, status = "run", NEW kind \in Kinds,
         EnterEffect(kind)
  PROVE  Depths' /\ Aligned'
<1>0. PICK n \in Nat : n = Len(frames)
  BY DEF TypeOK
<1>a. StacksType
  BY DEF TypeOK, StacksType
<1>1. /\ Len(frames') = n + 1
      /\ \A j \in 1..n : frames'[j] = frames[j]
      /\ frames'[n + 1] = Snapshot(kind)
  BY <1>0, <1>a, EnterStacks, AppendFacts DEF StacksType, EnterEffect
<1>2. Depths'
  BY <1>a, EnterStacks, EnterDepths DEF EnterEffect
<1>3. ASSUME NEW j \in 1..n
      PROVE  IdsAligned(j)' /\ ProverAligned(j)' /\ ContextAligned(j)'
  <2>1. j \in 1..Len(frames) /\ IdsAligned(j) /\ ProverAligned(j) /\ ContextAligned(j)
    BY <1>0 DEF Aligned
  <2>2. /\ IdsDepthIn(j)' = IdsDepthIn(j) /\ ProverDepthIn(j)' = ProverDepthIn(j)
        /\ ContextDepthIn(j)' = ContextDepthIn(j) /\ ContextIn(j)' = ContextIn(j)
    <3>1. CASE j = n
      <4>1. frames'[j + 1] = Snapshot(kind) /\ j # Len(frames')
        BY <1>0, <1>1, <3>1
      <4> QED
        BY <1>0, <3>1, <4>1
          DEF Snapshot, IdsDepthIn, ProverDepthIn, ContextDepthIn, ContextIn
    <3>2. CASE j # n
      <4>1. frames'[j + 1] = frames[j + 1] /\ j # Len(frames')
        BY <1>0, <1>1, <3>2
      <4> QED
        BY <1>0, <3>2, <4>1 DEF IdsDepthIn, ProverDepthIn, ContextDepthIn, ContextIn
    <3> QED
      BY <3>1, <3>2
  <2>3. /\ IdsDepthIn(j) \in Nat /\ ProverDepthIn(j) \in Nat /\ ContextDepthIn(j) \in Nat
        /\ IdsDepthIn(j) <= Len(used_ids_stack)
        /\ ProverDepthIn(j) <= Len(prover_stack)
        /\ ContextDepthIn(j) <= Len(contextStackStack)
    BY <1>a, <2>1, DepthInBounds
  <2>4. /\ \A k \in 1..IdsDepthIn(j) : used_ids_stack'[k] = used_ids_stack[k]
        /\ \A k \in 1..ProverDepthIn(j) : prover_stack'[k] = prover_stack[k]
        /\ \A k \in 1..ContextDepthIn(j) : contextStackStack'[k] = contextStackStack[k]
    <3>1. /\ Len(used_ids_stack) \in Nat /\ Len(prover_stack) \in Nat
          /\ Len(contextStackStack) \in Nat
      BY <1>a, StackLengths
    <3> QED
      BY <2>3, <3>1, EnterStacks
  <2> QED
    BY <1>1, <1>a, <2>1, <2>2, <2>4, StillAligned
<1>4. ASSUME NEW j, j = n + 1
      PROVE  IdsAligned(j)' /\ ProverAligned(j)' /\ ContextAligned(j)'
  <2>1. frames'[j] = Snapshot(kind) /\ j = Len(frames')
    BY <1>1, <1>4
  <2>2. /\ Len(used_ids_stack) \in Nat /\ Len(prover_stack) \in Nat
        /\ Len(contextStackStack) \in Nat
    BY <1>a, StackLengths
  <2>3. /\ IdsDepthIn(j)' = Len(used_ids_stack) + IdsBump(kind)
        /\ ProverDepthIn(j)' = Len(prover_stack) + ProverBump(kind)
        /\ ContextDepthIn(j)' = Len(contextStackStack) + ContextBump(kind)
        /\ ContextIn(j)' = BodyContext(Snapshot(kind))
    BY <2>1, EnterStacks
      DEF IdsDepthIn, ProverDepthIn, ContextDepthIn, ContextIn, EnterEffect
  <2>4. IdsAligned(j)'
    <3>1. CASE kind \in IdKinds
      <4>1. PICK e \in SavedIds :
              /\ used_ids_stack' = Append(used_ids_stack, e)
              /\ e.ids = used_ids /\ e.fracs = dummy_frac_terms
              /\ e.ctors = pred_ctor_applications
        BY <3>1 DEF EnterEffect
      <4>2. used_ids_stack'[Len(used_ids_stack) + 1] = e
        BY <1>a, <4>1, AppendFacts DEF StacksType
      <4>3. /\ frames'[j].kind = kind /\ frames'[j].idsDepth = Len(used_ids_stack)
            /\ frames'[j].ids = used_ids /\ frames'[j].fracs = dummy_frac_terms
            /\ frames'[j].ctors = pred_ctor_applications
        BY ONLY <2>1, SnapshotFields
      <4>4. IdsDepthIn(j)' = Len(used_ids_stack) + 1
        BY <2>3, <3>1 DEF IdsBump
      <4> QED
        BY <3>1, <4>1, <4>2, <4>3, <4>4 DEF IdsAligned
    <3>2. CASE kind \notin IdKinds
      <4>1. frames'[j].kind = kind /\ frames'[j].idsDepth = Len(used_ids_stack)
        BY ONLY <2>1, SnapshotFields
      <4>2. IdsDepthIn(j)' = Len(used_ids_stack)
        BY <2>2, <2>3, <3>2 DEF IdsBump
      <4> QED
        BY <3>2, <4>1, <4>2 DEF IdsAligned
    <3> QED
      BY <3>1, <3>2
  <2>5. ProverAligned(j)'
    <3>0. /\ frames'[j].kind = kind /\ frames'[j].proverDepth = Len(prover_stack)
          /\ frames'[j].pc = path_condition
      BY ONLY <2>1, SnapshotFields
    <3>1. CASE kind # "with_context"
      <4>1. prover_stack' = Append(prover_stack, path_condition)
        BY <3>1 DEF EnterEffect
      <4>2. prover_stack \in Seq(SUBSET Ident) /\ path_condition \in SUBSET Ident
        BY DEF TypeOK
      <4>3. prover_stack'[Len(prover_stack) + 1] = path_condition
        BY ONLY <4>1, <4>2, AppendFacts
      <4>4. ProverDepthIn(j)' = Len(prover_stack) + 1
        BY ONLY <2>3, <3>1 DEF ProverBump
      <4> QED
        BY ONLY <3>0, <3>1, <4>3, <4>4 DEF ProverAligned
    <3>2. CASE kind = "with_context"
      <4>1. ProverDepthIn(j)' = Len(prover_stack)
        BY ONLY <2>2, <2>3, <3>2 DEF ProverBump
      <4> QED
        BY ONLY <3>0, <3>2, <4>1 DEF ProverAligned
    <3> QED
      BY <3>1, <3>2
  <2>6. ContextAligned(j)'
    <3>0. BodyContext(Snapshot(kind)) \in Seq(Messages)
      BY EnterStacks DEF EnterEffect
    <3>1. CASE kind # "assume"
      <4>1. PICK c \in Seq(Messages) :
              /\ contextStackStack' = Append(contextStackStack, c)
              /\ c = IF kind = "with_context" THEN contextStack
                       ELSE BodyContext(Snapshot(kind))
        BY <3>0, <3>1 DEF EnterEffect, TypeOK
      <4>2. contextStackStack'[Len(contextStackStack) + 1] = c
        BY <1>a, <4>1, AppendFacts DEF StacksType
      <4>3. /\ Snapshot(kind).kind = kind /\ Snapshot(kind).context = contextStack
            /\ Snapshot(kind).contextDepth = Len(contextStackStack)
        BY ONLY SnapshotFields
      <4>4. BodyContext(frames[j])' = BodyContext(Snapshot(kind))
        BY <2>1 DEF BodyContext
      <4> QED
        BY <2>1, <2>3, <3>1, <4>1, <4>2, <4>3, <4>4 DEF ContextAligned, ContextBump
    <3>2. CASE kind = "assume"
      <4>3. Snapshot(kind).kind = kind /\ Snapshot(kind).contextDepth = Len(contextStackStack)
        BY ONLY SnapshotFields
      <4>4. BodyContext(frames[j])' = BodyContext(Snapshot(kind))
        BY <2>1 DEF BodyContext
      <4> QED
        BY <2>1, <2>2, <2>3, <3>2, <4>3, <4>4 DEF ContextAligned, ContextBump
    <3> QED
      BY <3>1, <3>2
  <2> QED
    BY <2>4, <2>5, <2>6
<1>5. ASSUME NEW j \in 1..Len(frames')
      PROVE  IdsAligned(j)' /\ ProverAligned(j)' /\ ContextAligned(j)'
  <2>1. j \in 1..n \/ j = n + 1
    BY <1>0, <1>1
  <2> QED
    BY <1>3, <1>4, <2>1
<1> QED
  BY <1>2, <1>5 DEF Aligned

(* The call in progress pops the level it pushed, which is the top one. *)
TopIds ==
  IF Kind \in IdKinds
    THEN /\ used_ids_stack # <<>>
         /\ Len(used_ids_stack) = Last(frames).idsDepth + 1
         /\ Last(used_ids_stack).ids = Last(frames).ids
         /\ Last(used_ids_stack).fracs = Last(frames).fracs
         /\ Last(used_ids_stack).ctors = Last(frames).ctors
    ELSE Len(used_ids_stack) = Last(frames).idsDepth
TopProver ==
  IF Kind = "with_context"
    THEN Len(prover_stack) = Last(frames).proverDepth
    ELSE /\ prover_stack # <<>>
         /\ Len(prover_stack) = Last(frames).proverDepth + 1
         /\ Last(prover_stack) = Last(frames).pc
TopContext ==
  IF Kind = "assume"
    THEN Len(contextStackStack) = Last(frames).contextDepth
    ELSE /\ contextStackStack # <<>>
         /\ Len(contextStackStack) = Last(frames).contextDepth + 1
         /\ Last(contextStackStack) =
              IF Kind = "with_context"
                THEN Last(frames).context ELSE BodyContext(Last(frames))

LEMMA TopAligned ==
  ASSUME TypeOK, Aligned, status = "run", frames # <<>>
  PROVE  /\ Last(frames) \in Frame /\ Kind \in Kinds
         /\ contextStack = BodyContext(Last(frames))
         /\ TopIds /\ TopProver /\ TopContext
<1>0. PICK n \in Nat : n = Len(frames)
  BY DEF TypeOK
<1>1. StacksType
  BY DEF TypeOK, StacksType
<1>2. n \in 1..Len(frames) /\ Last(frames) = frames[n] /\ Last(frames) \in Frame
  <2>1. n > 0 /\ Last(frames) = frames[n] /\ Last(frames) \in Frame
    BY <1>0, <1>1, FrontFacts, Zenon DEF StacksType
  <2> QED
    BY <1>0, <2>1
<1>3. /\ Kind \in Kinds /\ Last(frames).idsDepth \in Nat
      /\ Last(frames).proverDepth \in Nat /\ Last(frames).contextDepth \in Nat
  BY <1>1, <1>2, StackLengths DEF Kind
<1>4. IdsAligned(n) /\ ProverAligned(n) /\ ContextAligned(n)
  BY <1>2 DEF Aligned
<1>5. /\ IdsDepthIn(n) = Len(used_ids_stack) /\ ProverDepthIn(n) = Len(prover_stack)
      /\ ContextDepthIn(n) = Len(contextStackStack) /\ ContextIn(n) = contextStack
  BY <1>0 DEF IdsDepthIn, ProverDepthIn, ContextDepthIn, ContextIn
<1>6. ASSUME NEW S, NEW s \in Seq(S), NEW d \in Nat, Len(s) = d + 1
      PROVE  s # <<>> /\ Last(s) = s[d + 1]
  BY <1>6 DEF Last
<1>7. TopIds
  <2>1. CASE Kind \in IdKinds
    <3>1. /\ used_ids_stack # <<>>
          /\ Last(used_ids_stack) = used_ids_stack[frames[n].idsDepth + 1]
      BY <1>1, <1>2, <1>3, <1>4, <1>5, <1>6, <2>1 DEF Kind, IdsAligned, StacksType
    <3> QED
      BY <1>2, <1>4, <1>5, <2>1, <3>1 DEF Kind, IdsAligned, TopIds
  <2>2. CASE Kind \notin IdKinds
    BY <1>2, <1>4, <1>5, <2>2 DEF Kind, IdsAligned, TopIds
  <2> QED
    BY <2>1, <2>2
<1>8. TopProver
  <2>1. CASE Kind # "with_context"
    <3>1. /\ prover_stack # <<>>
          /\ Last(prover_stack) = prover_stack[frames[n].proverDepth + 1]
      BY <1>1, <1>2, <1>3, <1>4, <1>5, <1>6, <2>1 DEF Kind, ProverAligned, StacksType
    <3> QED
      BY <1>2, <1>4, <1>5, <2>1, <3>1 DEF Kind, ProverAligned, TopProver
  <2>2. CASE Kind = "with_context"
    BY <1>2, <1>4, <1>5, <2>2 DEF Kind, ProverAligned, TopProver
  <2> QED
    BY <2>1, <2>2
<1>9. TopContext
  <2>1. CASE Kind # "assume"
    <3>1. /\ contextStackStack # <<>>
          /\ Last(contextStackStack) = contextStackStack[frames[n].contextDepth + 1]
      BY <1>1, <1>2, <1>3, <1>4, <1>5, <1>6, <2>1 DEF Kind, ContextAligned, StacksType
    <3> QED
      BY <1>2, <1>4, <1>5, <2>1, <3>1 DEF Kind, ContextAligned, TopContext
  <2>2. CASE Kind = "assume"
    BY <1>2, <1>4, <1>5, <2>2 DEF Kind, ContextAligned, TopContext
  <2> QED
    BY <2>1, <2>2
<1> QED
  BY <1>2, <1>3, <1>4, <1>5, <1>7, <1>8, <1>9 DEF ContextAligned

(* What each kind of call does to the stacks when it returns. *)
LeaveEffect ==
  /\ frames # <<>> /\ frames' = Front(frames)
  /\ used_ids_stack' =
       IF Kind \in IdKinds THEN Front(used_ids_stack) ELSE used_ids_stack
  /\ prover_stack' = IF Kind = "with_context" THEN prover_stack ELSE Front(prover_stack)
  /\ contextStackStack' =
       IF Kind = "assume" THEN contextStackStack ELSE Front(contextStackStack)
  /\ contextStack' = Last(frames).context

(* After a normal return the calls left are aligned with the stacks. *)
LEMMA LeaveAligned ==
  ASSUME TypeOK, Depths, Aligned, status = "run", LeaveEffect
  PROVE  StacksType' /\ Depths' /\ Aligned'
<1>0. PICK n \in Nat : n = Len(frames)
  BY DEF TypeOK
<1>1. StacksType
  BY DEF TypeOK, StacksType
<1>2. /\ n > 0 /\ Last(frames) = frames[n] /\ Len(frames') = n - 1
      /\ frames' \in Seq(Frame)
      /\ \A j \in 1..(n - 1) : frames'[j] = frames[j]
  BY <1>0, <1>1, FrontFacts, Zenon DEF StacksType, LeaveEffect
<1>3. Last(frames) \in Frame /\ Kind \in Kinds /\ TopIds /\ TopProver /\ TopContext
  BY TopAligned DEF LeaveEffect
<1>4. /\ Last(frames).idsDepth \in Nat /\ Last(frames).proverDepth \in Nat
      /\ Last(frames).contextDepth \in Nat
  BY <1>3 DEF Frame
<1>5. /\ used_ids_stack' \in Seq(SavedIds)
      /\ Len(used_ids_stack') = Last(frames).idsDepth
      /\ \A k \in 1..Last(frames).idsDepth : used_ids_stack'[k] = used_ids_stack[k]
  <2>1. CASE Kind \in IdKinds
    <3>1. /\ used_ids_stack \in Seq(SavedIds) /\ used_ids_stack # <<>>
          /\ Len(used_ids_stack) = Last(frames).idsDepth + 1
      BY <1>1, <1>3, <2>1 DEF StacksType, TopIds
    <3>2. used_ids_stack' = Front(used_ids_stack)
      BY <2>1 DEF LeaveEffect
    <3>3. Len(used_ids_stack) - 1 = Last(frames).idsDepth
      BY <1>4, <3>1
    <3> QED
      BY <3>1, <3>2, <3>3, FrontFacts, Zenon
  <2>2. CASE Kind \notin IdKinds
    BY <1>1, <1>3, <1>4, <2>2 DEF StacksType, TopIds, LeaveEffect
  <2> QED
    BY <2>1, <2>2
<1>6. /\ prover_stack' \in Seq(SUBSET Ident)
      /\ Len(prover_stack') = Last(frames).proverDepth
      /\ \A k \in 1..Last(frames).proverDepth : prover_stack'[k] = prover_stack[k]
  <2>1. CASE Kind # "with_context"
    <3>1. /\ prover_stack \in Seq(SUBSET Ident) /\ prover_stack # <<>>
          /\ Len(prover_stack) = Last(frames).proverDepth + 1
      BY <1>1, <1>3, <2>1 DEF StacksType, TopProver
    <3>2. prover_stack' = Front(prover_stack)
      BY <2>1 DEF LeaveEffect
    <3>3. Len(prover_stack) - 1 = Last(frames).proverDepth
      BY <1>4, <3>1
    <3> QED
      BY <3>1, <3>2, <3>3, FrontFacts, Zenon
  <2>2. CASE Kind = "with_context"
    BY <1>1, <1>3, <1>4, <2>2 DEF StacksType, TopProver, LeaveEffect
  <2> QED
    BY <2>1, <2>2
<1>7. /\ contextStackStack' \in Seq(Seq(Messages))
      /\ Len(contextStackStack') = Last(frames).contextDepth
      /\ \A k \in 1..Last(frames).contextDepth :
           contextStackStack'[k] = contextStackStack[k]
  <2>1. CASE Kind # "assume"
    <3>1. /\ contextStackStack \in Seq(Seq(Messages)) /\ contextStackStack # <<>>
          /\ Len(contextStackStack) = Last(frames).contextDepth + 1
      BY <1>1, <1>3, <2>1 DEF StacksType, TopContext
    <3>2. contextStackStack' = Front(contextStackStack)
      BY <2>1 DEF LeaveEffect
    <3>3. Len(contextStackStack) - 1 = Last(frames).contextDepth
      BY <1>4, <3>1
    <3> QED
      BY <3>1, <3>2, <3>3, FrontFacts, Zenon
  <2>2. CASE Kind = "assume"
    BY <1>1, <1>3, <1>4, <2>2 DEF StacksType, TopContext, LeaveEffect
  <2> QED
    BY <2>1, <2>2
<1>8. StacksType'
  BY <1>2, <1>5, <1>6, <1>7 DEF StacksType
<1>9. Depths'
  BY <1>1, <1>4, <1>5, <1>6, <1>7, <1>8, LeaveDepths DEF LeaveEffect
<1>10. ASSUME NEW j \in 1..(n - 1)
       PROVE  IdsAligned(j)' /\ ProverAligned(j)' /\ ContextAligned(j)'
  <2>1. j \in 1..Len(frames) /\ j # Len(frames) /\ j + 1 \in 1..n
    BY <1>0, <1>2
  <2>2. IdsAligned(j) /\ ProverAligned(j) /\ ContextAligned(j)
    BY <2>1 DEF Aligned
  <2>3. /\ IdsDepthIn(j) = frames[j + 1].idsDepth
        /\ ProverDepthIn(j) = frames[j + 1].proverDepth
        /\ ContextDepthIn(j) = frames[j + 1].contextDepth
        /\ ContextIn(j) = frames[j + 1].context
    BY <2>1 DEF IdsDepthIn, ProverDepthIn, ContextDepthIn, ContextIn
  <2>4. /\ IdsDepthIn(j)' = IdsDepthIn(j) /\ ProverDepthIn(j)' = ProverDepthIn(j)
        /\ ContextDepthIn(j)' = ContextDepthIn(j) /\ ContextIn(j)' = ContextIn(j)
    <3>1. CASE j = n - 1
      <4>1. frames[j + 1] = Last(frames) /\ j = Len(frames')
        BY <1>2, <3>1
      <4> QED
        BY <1>5, <1>6, <1>7, <2>3, <4>1
          DEF IdsDepthIn, ProverDepthIn, ContextDepthIn, ContextIn, LeaveEffect
    <3>2. CASE j # n - 1
      <4>1. frames'[j + 1] = frames[j + 1] /\ j # Len(frames')
        BY <1>2, <2>1, <3>2
      <4> QED
        BY <2>3, <4>1 DEF IdsDepthIn, ProverDepthIn, ContextDepthIn, ContextIn
    <3> QED
      BY <3>1, <3>2
  <2>5. /\ IdsDepthIn(j) \in Nat /\ ProverDepthIn(j) \in Nat /\ ContextDepthIn(j) \in Nat
    BY <1>1, <2>1, DepthInBounds
  <2>6. /\ IdsDepthIn(j) <= Last(frames).idsDepth
        /\ ProverDepthIn(j) <= Last(frames).proverDepth
        /\ ContextDepthIn(j) <= Last(frames).contextDepth
    <3>1. CASE j + 1 = n
      BY <1>2, <1>4, <2>3, <3>1
    <3>2. CASE j + 1 # n
      <4>1. n - 1 \in (j + 1)..Len(frames) /\ n - 1 # Len(frames) /\ (n - 1) + 1 = n
            /\ j + 1 \in 1..Len(frames)
        BY <1>0, <1>2, <2>1, <3>2
      <4>2. /\ frames[j + 1].idsDepth + IdsBump(frames[j + 1].kind) <= frames[n].idsDepth
            /\ frames[j + 1].proverDepth + ProverBump(frames[j + 1].kind)
                 <= frames[n].proverDepth
            /\ frames[j + 1].contextDepth + ContextBump(frames[j + 1].kind)
                 <= frames[n].contextDepth
        BY <4>1 DEF Depths, IdsDepthIn, ProverDepthIn, ContextDepthIn
      <4>3. /\ IdsBump(frames[j + 1].kind) \in {0, 1}
            /\ ProverBump(frames[j + 1].kind) \in {0, 1}
            /\ ContextBump(frames[j + 1].kind) \in {0, 1}
        BY <1>1, <4>1, StackLengths
      <4>4. \A a, c \in Nat, b \in {0, 1} : a + b <= c => a <= c
        OBVIOUS
      <4> QED
        BY <1>2, <1>4, <2>3, <2>5, <4>2, <4>3, <4>4, Zenon
    <3> QED
      BY <3>1, <3>2
  <2>7. /\ \A k \in 1..IdsDepthIn(j) : used_ids_stack'[k] = used_ids_stack[k]
        /\ \A k \in 1..ProverDepthIn(j) : prover_stack'[k] = prover_stack[k]
        /\ \A k \in 1..ContextDepthIn(j) : contextStackStack'[k] = contextStackStack[k]
    <3>1. \A a, b \in Nat : a <= b => \A k \in 1..a : k \in 1..b
      OBVIOUS
    <3>2. \A k \in 1..IdsDepthIn(j) : k \in 1..Last(frames).idsDepth
      BY <1>4, <2>5, <2>6, <3>1
    <3>3. \A k \in 1..ProverDepthIn(j) : k \in 1..Last(frames).proverDepth
      BY <1>4, <2>5, <2>6, <3>1
    <3>4. \A k \in 1..ContextDepthIn(j) : k \in 1..Last(frames).contextDepth
      BY <1>4, <2>5, <2>6, <3>1
    <3> QED
      BY <1>5, <1>6, <1>7, <3>2, <3>3, <3>4, Zenon
  <2> QED
    BY <1>1, <1>2, <2>1, <2>2, <2>4, <2>7, StillAligned
<1> QED
  BY <1>2, <1>8, <1>9, <1>10 DEF Aligned

-----------------------------------------------------------------------------
(* The symbols live at the level used_ids_stack has for each push. *)

(* What is issued, and the terms registered, at level k: saved, or now. *)
IssuedAt(k) ==
  IF k = Len(used_ids_stack) THEN issued ELSE used_ids_stack[k + 1].issued
LiveAt(k) == {i \in Ident : IssuedAt(k)[i] > 0}
TermsAt(k) ==
  IF k = Len(used_ids_stack) THEN dummy_frac_terms \union pred_ctor_applications
  ELSE used_ids_stack[k + 1].fracs \union used_ids_stack[k + 1].ctors

(* The terms registered at a level are about symbols live at that level,   *)
(* which stay live at the levels above.                                    *)
LevelsLive ==
  \A k \in 0..Len(used_ids_stack) :
    TermsAt(k) \subseteq LiveAt(k) /\ \A j \in 0..k : LiveAt(j) \subseteq LiveAt(k)

(* The saved levels have their type. *)
LEMMA LevelFacts ==
  ASSUME IdsType
  PROVE  /\ Len(used_ids_stack) \in Nat
         /\ \A k \in 0..(Len(used_ids_stack) - 1) :
              k + 1 \in 1..Len(used_ids_stack) /\ k # Len(used_ids_stack)
         /\ LiveAt(Len(used_ids_stack)) = Live
<1>1. Len(used_ids_stack) \in Nat
  BY DEF IdsType
<1>2. LiveAt(Len(used_ids_stack)) = Live
  BY DEF LiveAt, Live, IssuedAt
<1> QED
  BY <1>1, <1>2

(* New symbols, and terms about live ones, at the current level. *)
LEMMA GrowLevels ==
  ASSUME IdsType, LevelsLive, UNCHANGED used_ids_stack, Live \subseteq Live',
         dummy_frac_terms' \union pred_ctor_applications'
           \subseteq dummy_frac_terms \union pred_ctor_applications \union Live'
  PROVE  /\ LevelsLive'
         /\ \A k \in 0..Len(used_ids_stack) : LiveAt(k) \subseteq LiveAt(k)'
<1>1. PICK n \in Nat : n = Len(used_ids_stack) /\ n = Len(used_ids_stack')
  BY LevelFacts
<1>2. LiveAt(n) = Live /\ LiveAt(n)' = Live'
  BY <1>1 DEF LiveAt, Live, IssuedAt
<1>3. \A k \in 0..n : k # n => LiveAt(k)' = LiveAt(k) /\ TermsAt(k)' = TermsAt(k)
  BY <1>1 DEF LiveAt, IssuedAt, TermsAt
<1>4. /\ TermsAt(n) = dummy_frac_terms \union pred_ctor_applications
      /\ TermsAt(n)' = dummy_frac_terms' \union pred_ctor_applications'
  BY <1>1 DEF TermsAt
<1>5. /\ \A k \in 0..n : TermsAt(k) \subseteq LiveAt(k)
      /\ \A k \in 0..n : \A j \in 0..k : LiveAt(j) \subseteq LiveAt(k)
  BY <1>1 DEF LevelsLive
<1>6. n \in 0..n
  OBVIOUS
<1>7. \A k \in 0..n : LiveAt(k) \subseteq LiveAt(k)'
  BY <1>2, <1>3
<1>8. ASSUME NEW k \in 0..n PROVE TermsAt(k)' \subseteq LiveAt(k)'
  BY <1>2, <1>3, <1>4, <1>5, <1>6
<1>9. ASSUME NEW k \in 0..n, NEW j \in 0..k PROVE LiveAt(j)' \subseteq LiveAt(k)'
  <2>1. LiveAt(j) \subseteq LiveAt(k) /\ j \in 0..n /\ (k # n => j # n)
    BY <1>5
  <2> QED
    BY <2>1, <1>2, <1>3
<1>10. LevelsLive'
  BY <1>1, <1>8, <1>9 DEF LevelsLive
<1> QED
  BY <1>1, <1>7, <1>10

(* push_used_ids: a new level that starts like the one below. *)
LEMMA PushLevels ==
  ASSUME IdsInv, LevelsLive, PushUsedIds
  PROVE  /\ LevelsLive' /\ Live' = Live
         /\ \A k \in 0..Len(used_ids_stack) : LiveAt(k)' = LiveAt(k)
<1> DEFINE e == [undo |-> used_ids_undo_stack, fracs |-> dummy_frac_terms,
                 ctors |-> pred_ctor_applications, ids |-> used_ids, issued |-> issued]
<1>0. /\ e \in SavedIds /\ used_ids_stack \in Seq(SavedIds)
      /\ used_ids_stack' = Append(used_ids_stack, e)
  BY DEF IdsInv, IdsType, SavedIds, PushUsedIds
<1>1. PICK n \in Nat : /\ n = Len(used_ids_stack) /\ n + 1 = Len(used_ids_stack')
                       /\ used_ids_stack'[n + 1] = e
                       /\ \A k \in 1..n : used_ids_stack'[k] = used_ids_stack[k]
  BY <1>0, AppendFacts
<1>2. e.issued = issued /\ e.fracs = dummy_frac_terms /\ e.ctors = pred_ctor_applications
  OBVIOUS
<1>3. UNCHANGED <<issued, dummy_frac_terms, pred_ctor_applications>>
  BY DEF PushUsedIds
<1> HIDE DEF e
<1>5. ASSUME NEW k \in 0..n PROVE IssuedAt(k)' = IssuedAt(k) /\ TermsAt(k)' = TermsAt(k)
  <2>1. k # n + 1
    OBVIOUS
  <2>2. CASE k = n
    BY <2>1, <2>2, <1>1, <1>2 DEF IssuedAt, TermsAt
  <2>3. CASE k # n
    <3>1. used_ids_stack'[k + 1] = used_ids_stack[k + 1]
      BY <1>1, <2>3
    <3> QED
      BY <3>1, <2>1, <2>3, <1>1 DEF IssuedAt, TermsAt
  <2> QED
    BY <2>2, <2>3
<1>6. IssuedAt(n + 1)' = IssuedAt(n) /\ TermsAt(n + 1)' = TermsAt(n)
  BY <1>1, <1>3 DEF IssuedAt, TermsAt
<1>7. /\ \A k \in 0..n : TermsAt(k) \subseteq LiveAt(k)
      /\ \A k \in 0..n : \A j \in 0..k : LiveAt(j) \subseteq LiveAt(k)
  BY <1>1 DEF LevelsLive
<1>8. /\ \A k \in 0..n : LiveAt(k)' = LiveAt(k)
      /\ LiveAt(n + 1)' = LiveAt(n)
  BY <1>5, <1>6 DEF LiveAt
<1>9. n \in 0..n /\ \A k \in 0..(n + 1) : k \in 0..n \/ k = n + 1
  OBVIOUS
<1>10. ASSUME NEW k \in 0..(n + 1) PROVE TermsAt(k)' \subseteq LiveAt(k)'
  BY <1>5, <1>6, <1>7, <1>8, <1>9
<1>11. ASSUME NEW k \in 0..(n + 1), NEW j \in 0..k PROVE LiveAt(j)' \subseteq LiveAt(k)'
  <2>1. CASE k \in 0..n
    <3>1. j \in 0..n
      BY <2>1
    <3> QED
      BY <2>1, <3>1, <1>7, <1>8
  <2>2. CASE k = n + 1
    <3>1. j \in 0..n \/ j = n + 1
      BY <2>2
    <3> QED
      BY <3>1, <2>2, <1>7, <1>8, <1>9
  <2> QED
    BY <2>1, <2>2, <1>9
<1>12. Live' = Live
  BY <1>3 DEF Live
<1>13. LevelsLive'
  BY <1>1, <1>10, <1>11 DEF LevelsLive
<1> QED
  BY <1>1, <1>8, <1>12, <1>13

(* What the current level becomes when it is popped, or started again by   *)
(* branch.                                                                 *)
RestoresLevel ==
  /\ issued' = Last(used_ids_stack).issued
  /\ dummy_frac_terms' = Last(used_ids_stack).fracs
  /\ pred_ctor_applications' = Last(used_ids_stack).ctors

(* pop_used_ids: back to the level below, as it was. *)
LEMMA PopLevels ==
  ASSUME IdsInv, LevelsLive, used_ids_stack # <<>>, used_ids_stack' = Front(used_ids_stack),
         RestoresLevel
  PROVE  /\ LevelsLive'
         /\ \A k \in 0..(Len(used_ids_stack) - 1) : LiveAt(k)' = LiveAt(k)
<1>0. used_ids_stack \in Seq(SavedIds)
  BY DEF IdsInv, IdsType
<1>1. PICK n \in Nat :
        /\ n + 1 = Len(used_ids_stack) /\ n = Len(used_ids_stack')
        /\ used_ids_stack[n + 1] = Last(used_ids_stack)
        /\ \A k \in 1..n : used_ids_stack'[k] = used_ids_stack[k]
  <2>1. /\ Len(used_ids_stack) \in Nat /\ Len(used_ids_stack) > 0
        /\ Len(used_ids_stack') = Len(used_ids_stack) - 1
        /\ \A k \in 1..(Len(used_ids_stack) - 1) : used_ids_stack'[k] = used_ids_stack[k]
        /\ Last(used_ids_stack) = used_ids_stack[Len(used_ids_stack)]
    BY <1>0, FrontFacts, Zenon
  <2>2. Len(used_ids_stack) - 1 \in Nat /\ Len(used_ids_stack) - 1 + 1 = Len(used_ids_stack)
    BY <2>1
  <2> QED
    BY <2>1, <2>2
<1>2. ASSUME NEW k \in 0..n PROVE IssuedAt(k)' = IssuedAt(k) /\ TermsAt(k)' = TermsAt(k)
  <2>1. k # n + 1
    OBVIOUS
  <2>2. CASE k = n
    BY <2>1, <2>2, <1>1 DEF IssuedAt, TermsAt, RestoresLevel
  <2>3. CASE k # n
    <3>1. used_ids_stack'[k + 1] = used_ids_stack[k + 1]
      BY <1>1, <2>3
    <3> QED
      BY <3>1, <2>1, <2>3, <1>1 DEF IssuedAt, TermsAt
  <2> QED
    BY <2>2, <2>3
<1>3. \A k \in 0..n : LiveAt(k)' = LiveAt(k)
  BY <1>2 DEF LiveAt
<1>4. ASSUME NEW k \in 0..n
      PROVE  TermsAt(k) \subseteq LiveAt(k) /\ \A j \in 0..k : LiveAt(j) \subseteq LiveAt(k)
  BY <1>1 DEF LevelsLive
<1>5. ASSUME NEW k \in 0..n
      PROVE  TermsAt(k)' \subseteq LiveAt(k)' /\ \A j \in 0..k : LiveAt(j)' \subseteq LiveAt(k)'
  <2>1. \A j \in 0..k : j \in 0..n
    OBVIOUS
  <2> QED
    BY <2>1, <1>2, <1>3, <1>4
<1>6. LevelsLive'
  BY <1>1, <1>5 DEF LevelsLive
<1> QED
  BY <1>1, <1>3, <1>6

(* The second continuation of branch starts from the level below. *)
LEMMA ResetLevels ==
  ASSUME IdsInv, LevelsLive, used_ids_stack # <<>>, UNCHANGED used_ids_stack, RestoresLevel
  PROVE  /\ LevelsLive'
         /\ \A k \in 0..(Len(used_ids_stack) - 1) : LiveAt(k)' = LiveAt(k)
         /\ Live' = LiveAt(Len(used_ids_stack) - 1)'
<1>0. used_ids_stack \in Seq(SavedIds)
  BY DEF IdsInv, IdsType
<1>1. PICK n \in Nat :
        /\ n + 1 = Len(used_ids_stack) /\ n + 1 = Len(used_ids_stack')
        /\ used_ids_stack[n + 1] = Last(used_ids_stack)
  <2>1. /\ Len(used_ids_stack) \in Nat /\ Len(used_ids_stack) > 0
        /\ Last(used_ids_stack) = used_ids_stack[Len(used_ids_stack)]
    BY <1>0, FrontFacts, Zenon
  <2>2. Len(used_ids_stack) - 1 \in Nat /\ Len(used_ids_stack) - 1 + 1 = Len(used_ids_stack)
    BY <2>1
  <2> QED
    BY <2>1, <2>2, Zenon
<1>2. /\ \A k \in 0..n : IssuedAt(k)' = IssuedAt(k) /\ TermsAt(k)' = TermsAt(k)
      /\ IssuedAt(n + 1)' = IssuedAt(n) /\ TermsAt(n + 1)' = TermsAt(n)
  BY <1>1 DEF IssuedAt, TermsAt, RestoresLevel
<1>3. /\ \A k \in 0..n : LiveAt(k)' = LiveAt(k)
      /\ LiveAt(n + 1)' = LiveAt(n)
  BY <1>2 DEF LiveAt
<1>4. ASSUME NEW k \in 0..n
      PROVE  TermsAt(k) \subseteq LiveAt(k) /\ \A j \in 0..k : LiveAt(j) \subseteq LiveAt(k)
  BY <1>1 DEF LevelsLive
<1>5. ASSUME NEW k \in 0..(n + 1)
      PROVE  TermsAt(k)' \subseteq LiveAt(k)' /\ \A j \in 0..k : LiveAt(j)' \subseteq LiveAt(k)'
  <2>1. n \in 0..n /\ (k \in 0..n \/ k = n + 1) /\ \A j \in 0..k : j \in 0..n \/ j = n + 1
    OBVIOUS
  <2>2. CASE k \in 0..n
    <3>1. \A j \in 0..k : j \in 0..n
      BY <2>2
    <3> QED
      BY <3>1, <2>2, <1>2, <1>3, <1>4
  <2>3. CASE k = n + 1
    <3>1. \A j \in 0..n : LiveAt(j) \subseteq LiveAt(n)
      BY <2>1, <1>4
    <3> QED
      BY <3>1, <2>1, <2>3, <1>2, <1>3, <1>4
  <2> QED
    BY <2>1, <2>2, <2>3
<1>6. LevelsLive'
  BY <1>1, <1>5 DEF LevelsLive
<1>7. Live' = LiveAt(n + 1)'
  BY <1>1 DEF Live, LiveAt, IssuedAt
<1>8. Len(used_ids_stack) - 1 = n /\ (Len(used_ids_stack) - 1)' = n
  BY <1>1
<1>9. Live' = LiveAt(n)'
  BY <1>3, <1>7
<1> QED
  BY <1>3, <1>6, <1>8, <1>9

(* Levels and the symbols live at them, when neither changes. *)
LEMMA SameLevels ==
  ASSUME IdsType, LevelsLive,
         UNCHANGED <<used_ids_stack, issued, dummy_frac_terms, pred_ctor_applications>>
  PROVE  /\ LevelsLive' /\ Live' = Live
         /\ \A k \in 0..Len(used_ids_stack) : LiveAt(k)' = LiveAt(k)
<1>1. \A k : LiveAt(k)' = LiveAt(k) /\ TermsAt(k)' = TermsAt(k)
  BY DEF LiveAt, TermsAt, IssuedAt
<1> QED
  BY <1>1 DEF LevelsLive, Live

(* The calls in progress: the levels a call found are below the one it is  *)
(* in, and those of an outer call below those of an inner one.             *)
LEMMA CallLevels ==
  ASSUME StacksType, Depths
  PROVE  /\ Len(frames) \in Nat
         /\ \A j \in 1..Len(frames) :
              /\ frames[j].idsDepth \in 0..Len(used_ids_stack)
              /\ frames[j].proverDepth \in Nat
              /\ frames[j].kind = "func"
                   => frames[j].proverDepth + 1 \in 1..Len(prover_stack)
         /\ \A j \in 1..(Len(frames) - 1) :
              /\ frames[j].idsDepth \in 0..frames[Len(frames)].idsDepth
              /\ frames[j].kind = "func"
                   => frames[j].proverDepth + 1 \in 1..frames[Len(frames)].proverDepth
<1>1. PICK n \in Nat : n = Len(frames)
  BY StackLengths
<1>2. ASSUME NEW j \in 1..n
      PROVE  /\ frames[j].idsDepth \in 0..Len(used_ids_stack)
             /\ frames[j].proverDepth \in Nat
             /\ frames[j].kind = "func"
                  => frames[j].proverDepth + 1 \in 1..Len(prover_stack)
  <2>1. /\ frames[j].idsDepth \in Nat /\ frames[j].proverDepth \in Nat
        /\ IdsBump(frames[j].kind) \in {0, 1} /\ Len(used_ids_stack) \in Nat
        /\ Len(prover_stack) \in Nat
    BY <1>1, StackLengths
  <2>2. /\ frames[j].idsDepth + IdsBump(frames[j].kind) <= Len(used_ids_stack)
        /\ frames[j].proverDepth + ProverBump(frames[j].kind) <= Len(prover_stack)
    BY <1>1, DepthBounds
  <2>3. frames[j].kind = "func" => ProverBump(frames[j].kind) = 1
    BY DEF ProverBump
  <2> QED
    BY ONLY <2>1, <2>2, <2>3
<1>3. ASSUME NEW j \in 1..(n - 1)
      PROVE  /\ frames[j].idsDepth \in 0..frames[n].idsDepth
             /\ frames[j].kind = "func"
                  => frames[j].proverDepth + 1 \in 1..frames[n].proverDepth
  <2>0. j \in 1..n /\ n \in 1..n /\ n - 1 \in j..n /\ n - 1 # n /\ n - 1 + 1 = n
    OBVIOUS
  <2>1. /\ frames[j].idsDepth \in Nat /\ frames[j].proverDepth \in Nat
        /\ IdsBump(frames[j].kind) \in {0, 1}
        /\ frames[n].idsDepth \in Nat /\ frames[n].proverDepth \in Nat
    BY <1>1, <2>0, StackLengths
  <2>2. IdsDepthIn(n - 1) = frames[n].idsDepth /\ ProverDepthIn(n - 1) = frames[n].proverDepth
    BY <1>1, <2>0 DEF IdsDepthIn, ProverDepthIn
  <2>3. /\ frames[j].idsDepth + IdsBump(frames[j].kind) <= IdsDepthIn(n - 1)
        /\ frames[j].proverDepth + ProverBump(frames[j].kind) <= ProverDepthIn(n - 1)
    BY <1>1, <2>0 DEF Depths
  <2>4. frames[j].kind = "func" => ProverBump(frames[j].kind) = 1
    BY DEF ProverBump
  <2> QED
    BY ONLY <2>1, <2>2, <2>3, <2>4
<1> QED
  BY <1>1, <1>2, <1>3
=============================================================================
