--------------------------- MODULE IrqWait_proofs ---------------------------
(***************************************************************************)
(* Proofs about IrqWait for any number of sources, waiters, interrupts and *)
(* clears.  The inductive invariant is IInv: the equation of Conservation  *)
(* with the debt of the waiters between decrement and undo made explicit.  *)
(***************************************************************************)
EXTENDS IrqWait, FiniteSetTheorems, TLAPS

\* Undoing(s) is finite, so its cardinality counts its members.
LEMMA UndoingFinite ==
    ASSUME NEW s \in Sources
    PROVE  IsFiniteSet(Undoing(s)) /\ Cardinality(Undoing(s)) \in Nat
  <1>1. Undoing(s) \subseteq Waiters
    BY DEF Undoing
  <1>2. QED
    BY <1>1, WaitersAssumption, FS_Subset, FS_CardinalityType

\* Initially nobody is between decrement and undo.
LEMMA UndoingInit ==
    ASSUME Init, NEW s \in Sources
    PROVE  Cardinality(Undoing(s)) = 0
  <1>1. Undoing(s) = {}
    BY DEF Undoing, Init
  <1>2. QED
    BY <1>1, FS_EmptySet

\* A failed decrement adds exactly the process that made it to the set of
\* its source (ioctl.c:349).
LEMMA UndoingMiss ==
    ASSUME TypeOK, NEW w \in Waiters, Miss(w), NEW s \in Sources
    PROVE  Cardinality(Undoing(s))' =
             IF s = src[w] THEN Cardinality(Undoing(s)) + 1
                           ELSE Cardinality(Undoing(s))
  <1>1. w \notin Undoing(s)
    BY DEF Undoing, Miss
  <1>2. CASE s = src[w]
    <2>1. Undoing(s)' = Undoing(s) \cup {w}
      BY <1>2 DEF Undoing, Miss, TypeOK
    <2>2. QED
      BY <1>1, <1>2, <2>1, UndoingFinite, FS_AddElement
  <1>3. CASE s # src[w]
    <2>1. Undoing(s)' = Undoing(s)
      BY <1>3 DEF Undoing, Miss, TypeOK
    <2>2. QED
      BY <1>3, <2>1
  <1>4. QED
    BY <1>2, <1>3

\* An undo removes exactly that process (ioctl.c:350).
LEMMA UndoingUndo ==
    ASSUME TypeOK, NEW w \in Waiters, Undo(w), NEW s \in Sources
    PROVE  Cardinality(Undoing(s))' =
             IF s = src[w] THEN Cardinality(Undoing(s)) - 1
                           ELSE Cardinality(Undoing(s))
  <1>1. CASE s = src[w]
    <2>1. w \in Undoing(s)
      BY <1>1 DEF Undoing, Undo
    <2>2. Undoing(s)' = Undoing(s) \ {w}
      BY <1>1 DEF Undoing, Undo, TypeOK
    <2>3. QED
      BY <1>1, <2>1, <2>2, UndoingFinite, FS_RemoveElement
  <1>2. CASE s # src[w]
    <2>1. Undoing(s)' = Undoing(s)
      BY <1>2 DEF Undoing, Undo, TypeOK
    <2>2. QED
      BY <1>2, <2>1
  <1>3. QED
    BY <1>1, <1>2

\* Every other step leaves the set of every source as it is.
LEMMA UndoingOther ==
    ASSUME TypeOK, NEW s \in Sources,
           \/ \E t \in Sources : Deliver(t) \/ Clear(t)
           \/ \E w \in Waiters : Take(w)
           \/ \E w \in Waiters, arg \in Args : Call(w, arg)
           \/ UNCHANGED vars
    PROVE  Undoing(s)' = Undoing(s)
  <1>1. CASE \E t \in Sources : Deliver(t) \/ Clear(t)
    BY <1>1 DEF Undoing, Deliver, Clear
  <1>2. CASE \E w \in Waiters : Take(w)
    BY <1>2 DEF Undoing, Take, TypeOK
  <1>3. CASE \E w \in Waiters, arg \in Args : Call(w, arg)
    BY <1>3 DEF Undoing, Call, TypeOK
  <1>4. CASE UNCHANGED vars
    BY <1>4 DEF Undoing, vars
  <1>5. QED
    BY <1>1, <1>2, <1>3, <1>4

-----------------------------------------------------------------------------
\* The variables keep their types for every value of the constants: no
\* process ever works on a source outside irq_outstanding (ioctl.c:335).
THEOREM TypeCorrect == Spec => []TypeOK
  <1>1. Init => TypeOK
    BY MaxSourcesAssumption, BoundsAssumption
    DEF Init, TypeOK, Sources, PC, Ret
  <1>2. TypeOK /\ [Next]_vars => TypeOK'
    <2> SUFFICES ASSUME TypeOK, [Next]_vars
                 PROVE  TypeOK'
      OBVIOUS
    <2> USE DEF TypeOK, PC, Ret
    <2>1. ASSUME NEW s \in Sources, Deliver(s)
          PROVE  TypeOK'
      BY <2>1, BoundsAssumption DEF Deliver
    <2>2. ASSUME NEW s \in Sources, Clear(s)
          PROVE  TypeOK'
      BY <2>2, BoundsAssumption DEF Clear
    <2>3. ASSUME NEW w \in Waiters, NEW arg \in Args, Call(w, arg)
          PROVE  TypeOK'
      <3>1. InRange(arg) => arg \in Sources
        BY ArgsAssumption, MaxSourcesAssumption DEF InRange, Sources
      <3>2. CASE InRange(arg)
        BY <2>3, <3>1, <3>2 DEF Call
      <3>3. CASE ~InRange(arg)
        BY <2>3, <3>3 DEF Call
      <3>4. QED
        BY <3>2, <3>3
    <2>4. ASSUME NEW w \in Waiters, Take(w)
          PROVE  TypeOK'
      BY <2>4 DEF Take
    <2>5. ASSUME NEW w \in Waiters, Miss(w)
          PROVE  TypeOK'
      BY <2>5 DEF Miss
    <2>6. ASSUME NEW w \in Waiters, Undo(w)
          PROVE  TypeOK'
      BY <2>6 DEF Undo
    <2>7. CASE UNCHANGED vars
      BY <2>7 DEF vars
    <2>8. QED
      BY <2>1, <2>2, <2>3, <2>4, <2>5, <2>6, <2>7 DEF Next, WaitStep
  <1>3. QED
    BY <1>1, <1>2, PTL DEF Spec
-----------------------------------------------------------------------------
\* The inductive invariant, step by step.  The proof of each action is the
\* same sum before and after, with the cardinality supplied by the lemmas.
LEMMA InvInit == Init => IInv
  <1> SUFFICES ASSUME Init
               PROVE  IInv
    OBVIOUS
  <1>1. TypeOK
    BY MaxSourcesAssumption, BoundsAssumption
    DEF Init, TypeOK, Sources, PC, Ret
  <1>2. QED
    BY <1>1, UndoingInit DEF Init, IInv, Conservation, NoDebtAtRest

\* No step breaks the invariant.
LEMMA InvNext ==
    ASSUME IInv, TypeOK', [Next]_vars
    PROVE  IInv'
  <1> DEFINE Balance(s) ==
        /\ outstanding[s] + Cardinality(Undoing(s)) + taken[s] + dropped[s]
             = delivered[s]
        /\ outstanding[s] + Cardinality(Undoing(s)) >= 0
        /\ s \notin ClearSources => dropped[s] = 0
  <1> SUFFICES ASSUME NEW s \in Sources
               PROVE  Balance(s)'
    BY DEF IInv, Conservation, NoDebtAtRest
  <1>0. TypeOK /\ Balance(s)
    BY DEF IInv, Conservation, NoDebtAtRest
  <1>t. /\ outstanding[s] \in Int /\ outstanding'[s] \in Int
        /\ taken[s] \in Int /\ dropped[s] \in Int /\ delivered[s] \in Int
        /\ Cardinality(Undoing(s)) \in Nat
    BY <1>0, BoundsAssumption, UndoingFinite DEF TypeOK
  <1>1. ASSUME NEW t \in Sources, Deliver(t)
        PROVE  Balance(s)'
    <2>1. Undoing(s)' = Undoing(s)
      BY <1>0, <1>1, UndoingOther
    <2>2. QED
      BY <1>0, <1>t, <1>1, <2>1 DEF Deliver, TypeOK
  <1>2. ASSUME NEW t \in Sources, Clear(t)
        PROVE  Balance(s)'
    <2>1. Undoing(s)' = Undoing(s)
      BY <1>0, <1>2, UndoingOther
    <2>2. QED
      BY <1>0, <1>t, <1>2, <2>1 DEF Clear, TypeOK
  <1>3. ASSUME NEW w \in Waiters, NEW arg \in Args, Call(w, arg)
        PROVE  Balance(s)'
    <2>1. Undoing(s)' = Undoing(s)
      BY <1>0, <1>3, UndoingOther
    <2>2. QED
      BY <1>0, <1>3, <2>1 DEF Call
  <1>4. ASSUME NEW w \in Waiters, Take(w)
        PROVE  Balance(s)'
    <2>1. Undoing(s)' = Undoing(s)
      BY <1>0, <1>4, UndoingOther
    <2>2. QED
      BY <1>0, <1>t, <1>4, <2>1 DEF Take, TypeOK
  <1>5. ASSUME NEW w \in Waiters, Miss(w)
        PROVE  Balance(s)'
    <2>1. Cardinality(Undoing(s))' =
            IF s = src[w] THEN Cardinality(Undoing(s)) + 1
                          ELSE Cardinality(Undoing(s))
      BY <1>0, <1>5, UndoingMiss
    <2>2. QED
      BY <1>0, <1>t, <1>5, <2>1 DEF Miss, TypeOK
  <1>6. ASSUME NEW w \in Waiters, Undo(w)
        PROVE  Balance(s)'
    <2>1. Cardinality(Undoing(s))' =
            IF s = src[w] THEN Cardinality(Undoing(s)) - 1
                          ELSE Cardinality(Undoing(s))
      BY <1>0, <1>6, UndoingUndo
    <2>2. QED
      BY <1>0, <1>t, <1>6, <2>1 DEF Undo, TypeOK
  <1>7. CASE UNCHANGED vars
    <2>1. Undoing(s)' = Undoing(s)
      BY <1>0, <1>7, UndoingOther
    <2>2. QED
      BY <1>0, <1>7, <2>1 DEF vars
  <1>8. QED
    BY <1>1, <1>2, <1>3, <1>4, <1>5, <1>6, <1>7 DEF Next, WaitStep

\* IInv holds in every reachable state.
THEOREM Invariance == Spec => []IInv
  <1>1. Spec => []TypeOK
    BY TypeCorrect
  <1>2. IInv /\ TypeOK' /\ [Next]_vars => IInv'
    BY InvNext
  <1>3. QED
    BY InvInit, <1>1, <1>2, PTL DEF Spec

\* No interrupt is lost or counted twice between handler, waits and clears.
THEOREM InterruptsConserved == Spec => []Conservation
  <1>1. IInv => Conservation
    BY DEF IInv
  <1>2. QED
    BY Invariance, <1>1, PTL

\* A counter below zero is always owed back by a process that is on its way
\* to the undo.
THEOREM DebtIsTransient == Spec => []NoDebtAtRest
  <1>1. IInv => NoDebtAtRest
    BY DEF IInv
  <1>2. QED
    BY Invariance, <1>1, PTL

\* A source that nobody clears gives at most one wait per interrupt.
THEOREM NoPhantom == Spec => []NoPhantomOnUncleared
  <1>1. IInv => NoPhantomOnUncleared
    <2> SUFFICES ASSUME IInv, NEW s \in Sources \ ClearSources
                 PROVE  taken[s] <= delivered[s]
      BY DEF NoPhantomOnUncleared
    <2>1. /\ outstanding[s] \in Int /\ taken[s] \in Nat
          /\ delivered[s] \in Int /\ dropped[s] = 0
          /\ Cardinality(Undoing(s)) \in Nat
      BY UndoingFinite, BoundsAssumption DEF IInv, TypeOK
    <2>2. QED
      BY <2>1 DEF IInv, Conservation, NoDebtAtRest
  <1>2. QED
    BY Invariance, <1>1, PTL

-----------------------------------------------------------------------------
\* On the sources that no process clears, the ioctl implements the counting
\* semaphore of IrqQueue, however the other sources are used.
LEMMA RefinementStep ==
    ASSUME IInv, [Next]_vars
    PROVE  \/ Abstract!Next
           \/ UNCHANGED [s \in Uncleared |-> Pending(s)]
  <1> DEFINE pend == [s \in Uncleared |-> Pending(s)]
  <1>0. TypeOK
    BY DEF IInv
  <1>t. \A s \in Uncleared : /\ s \in Sources
                             /\ outstanding[s] \in Int
                             /\ Cardinality(Undoing(s)) \in Nat
    BY <1>0, UndoingFinite DEF TypeOK, Uncleared
  <1>s. SUFFICES ASSUME ~ \A s \in Uncleared : Pending(s)' = Pending(s)
                 PROVE  Abstract!Next
    OBVIOUS
  <1>1. ASSUME NEW t \in Sources, Deliver(t)
        PROVE  Abstract!Next
    <2>1. \A s \in Uncleared : Undoing(s)' = Undoing(s)
      BY <1>0, <1>t, <1>1, UndoingOther
    <2>2. \A s \in Uncleared :
            Pending(s)' = IF s = t THEN Pending(s) + 1 ELSE Pending(s)
      BY <1>0, <1>t, <1>1, <2>1 DEF Deliver, TypeOK, Pending
    <2>3. t \in Uncleared
      BY <1>s, <2>2
    <2>4. pend' = [pend EXCEPT ![t] = @ + 1]
      BY <2>2, <2>3
    <2>5. Abstract!Deliver(t)
      BY <2>4 DEF Abstract!Deliver
    <2>6. QED
      BY <2>3, <2>5 DEF Abstract!Next
  <1>2. ASSUME NEW w \in Waiters, Take(w)
        PROVE  Abstract!Next
    <2>1. \A s \in Uncleared : Undoing(s)' = Undoing(s)
      BY <1>0, <1>t, <1>2, UndoingOther
    <2>2. \A s \in Uncleared :
            Pending(s)' = IF s = src[w] THEN Pending(s) - 1 ELSE Pending(s)
      BY <1>0, <1>t, <1>2, <2>1 DEF Take, TypeOK, Pending
    <2>3. src[w] \in Uncleared
      BY <1>s, <2>2
    <2>4. pend' = [pend EXCEPT ![src[w]] = @ - 1]
      BY <2>2, <2>3
    <2>5. pend[src[w]] > 0
      BY <1>t, <1>2, <2>3 DEF Take, Pending
    <2>6. Abstract!Take(src[w])
      BY <2>4, <2>5 DEF Abstract!Take
    <2>7. QED
      BY <2>3, <2>6 DEF Abstract!Next
  <1>3. ASSUME NEW w \in Waiters, Miss(w)
        PROVE  FALSE
    <2>1. ASSUME NEW s \in Uncleared
          PROVE  Pending(s)' = Pending(s)
      <3>1. Cardinality(Undoing(s))' =
              IF s = src[w] THEN Cardinality(Undoing(s)) + 1
                            ELSE Cardinality(Undoing(s))
        BY <1>0, <1>t, <1>3, UndoingMiss
      <3>2. outstanding'[s] = IF s = src[w] THEN outstanding[s] - 1
                                            ELSE outstanding[s]
        BY <1>0, <1>t, <1>3 DEF Miss, TypeOK
      <3>3. QED
        BY <1>t, <3>1, <3>2 DEF Pending
    <2>2. QED
      BY <1>s, <2>1
  <1>4. ASSUME NEW w \in Waiters, Undo(w)
        PROVE  FALSE
    <2>1. ASSUME NEW s \in Uncleared
          PROVE  Pending(s)' = Pending(s)
      <3>1. Cardinality(Undoing(s))' =
              IF s = src[w] THEN Cardinality(Undoing(s)) - 1
                            ELSE Cardinality(Undoing(s))
        BY <1>0, <1>t, <1>4, UndoingUndo
      <3>2. outstanding'[s] = IF s = src[w] THEN outstanding[s] + 1
                                            ELSE outstanding[s]
        BY <1>0, <1>t, <1>4 DEF Undo, TypeOK
      <3>3. QED
        BY <1>t, <3>1, <3>2 DEF Pending
    <2>2. QED
      BY <1>s, <2>1
  <1>5. ASSUME NEW w \in Waiters, NEW arg \in Args, Call(w, arg)
        PROVE  FALSE
    <2>1. \A s \in Uncleared : Undoing(s)' = Undoing(s)
      BY <1>0, <1>t, <1>5, UndoingOther
    <2>2. QED
      BY <1>s, <1>5, <2>1 DEF Call, Pending
  <1>6. ASSUME NEW t \in Sources, Clear(t)
        PROVE  FALSE
    <2>1. \A s \in Uncleared : Undoing(s)' = Undoing(s)
      BY <1>0, <1>t, <1>6, UndoingOther
    <2>2. \A s \in Uncleared : outstanding'[s] = outstanding[s]
      BY <1>0, <1>6 DEF Clear, TypeOK, Uncleared
    <2>3. QED
      BY <1>s, <2>1, <2>2 DEF Pending
  <1>7. CASE UNCHANGED vars
    <2>1. \A s \in Uncleared : Undoing(s)' = Undoing(s)
      BY <1>0, <1>t, <1>7, UndoingOther
    <2>2. QED
      BY <1>s, <1>7, <2>1 DEF vars, Pending
  <1>8. QED
    BY <1>1, <1>2, <1>3, <1>4, <1>5, <1>6, <1>7 DEF Next, WaitStep

\* The wait ioctl implements the counting semaphore.
THEOREM Refinement == Spec => ImplementsIrqQueue
  <1>1. Init => Abstract!Init
    <2> SUFFICES ASSUME Init, NEW s \in Uncleared
                 PROVE  Pending(s) = 0
      BY DEF Abstract!Init
    <2>1. s \in Sources
      BY DEF Uncleared
    <2>2. QED
      BY <2>1, UndoingInit DEF Init, Pending
  <1>2. IInv /\ [Next]_vars =>
          \/ Abstract!Next
          \/ UNCHANGED [s \in Uncleared |-> Pending(s)]
    BY RefinementStep
  <1>3. QED
    BY <1>1, <1>2, Invariance, PTL
    DEF Spec, ImplementsIrqQueue, Abstract!Spec
=============================================================================
