--------------------------- MODULE MemPhysProofs ---------------------------
(***************************************************************************)
(* PoolSound holds in every behaviour of MemPhys, for any number of frames *)
(* and any size of the stack's pages, and MemPhys implements FramePool.    *)
(***************************************************************************)
EXTENDS MemPhys, TLAPS

\* The induction hypothesis: the type invariant and PoolSound.
IInv == MemPhysTypeOK /\ PoolSound

\* memphys_push() of a frame that is nowhere keeps the two sequences sound.
LEMMA PushSound ==
  ASSUME IInv, NEW f \in Frames, memphys_push(f),
         f \notin held' , held' \subseteq held,
         \A i \in 1..Len(stack) : stack[i] # f,
         \A i \in 1..Len(own) : own[i] # f,
         booted' \in FREEPHYS..(LAST + 1), booted <= booted', f < booted'
  PROVE  /\ stack' \in Seq(Frames) /\ own' \in Seq(Frames)
         /\ PoolSound'
<1>1. CASE Len(stack) = SLOTS * Len(own)
  <2>1. own' = Append(own, f) /\ stack' = stack
    BY <1>1 DEF memphys_push
  <2>2. Len(own') = Len(own) + 1 /\ own' \in Seq(Frames)
    BY <2>1 DEF IInv, MemPhysTypeOK
  <2>3. SLOTS * Len(own') = SLOTS * Len(own) + SLOTS
    BY <2>2, MemPhysAssumption DEF IInv, MemPhysTypeOK
  <2>4. Len(stack') <= SLOTS * Len(own')
    BY <2>1, <2>3, <1>1, MemPhysAssumption DEF IInv, MemPhysTypeOK
  <2>5. Distinct(stack') /\ Distinct(own')
    BY <2>1 DEF IInv, MemPhysTypeOK, PoolSound, Distinct
  <2>6. \A i \in 1..Len(own') : own'[i] \notin held' /\ own'[i] < booted'
    <3> SUFFICES ASSUME NEW i \in 1..Len(own')
                 PROVE  own'[i] \notin held' /\ own'[i] < booted'
      OBVIOUS
    <3>1. CASE i = Len(own) + 1
      BY <3>1, <2>1 DEF IInv, MemPhysTypeOK
    <3>2. CASE i # Len(own) + 1
      <4>1. i \in 1..Len(own) /\ own'[i] = own[i]
        BY <3>2, <2>1, <2>2 DEF IInv, MemPhysTypeOK
      <4>2. own[i] \notin held /\ own[i] < booted /\ own[i] \in Nat
        BY <4>1, MemPhysAssumption DEF IInv, MemPhysTypeOK, PoolSound, Frames
      <4> QED BY <4>1, <4>2, MemPhysAssumption DEF IInv, MemPhysTypeOK
    <3> QED BY <3>1, <3>2
  <2>7. \A i \in 1..Len(stack') : stack'[i] \notin held' /\ stack'[i] < booted'
    BY <2>1, MemPhysAssumption DEF IInv, MemPhysTypeOK, PoolSound, Frames
  <2>8. \A i \in 1..Len(stack'), j \in 1..Len(own') : stack'[i] # own'[j]
    BY <2>1 DEF IInv, MemPhysTypeOK, PoolSound
  <2>9. \A g \in held' : g < booted'
    BY MemPhysAssumption DEF IInv, MemPhysTypeOK, PoolSound, Frames
  <2> QED
    BY <2>1, <2>2, <2>4, <2>5, <2>6, <2>7, <2>8, <2>9 DEF PoolSound, IInv, MemPhysTypeOK
<1>2. CASE Len(stack) # SLOTS * Len(own)
  <2>1. own' = own /\ stack' = Append(stack, f)
    BY <1>2 DEF memphys_push
  <2>2. Len(stack') = Len(stack) + 1 /\ stack' \in Seq(Frames)
    BY <2>1 DEF IInv, MemPhysTypeOK
  <2>3. SLOTS * Len(own) \in Nat
    BY MemPhysAssumption DEF IInv, MemPhysTypeOK
  <2>4. Len(stack') <= SLOTS * Len(own')
    BY <2>1, <2>2, <2>3, <1>2 DEF IInv, MemPhysTypeOK, PoolSound
  <2>5. Distinct(stack') /\ Distinct(own')
    BY <2>1 DEF IInv, MemPhysTypeOK, PoolSound, Distinct
  <2>6. \A i \in 1..Len(own') : own'[i] \notin held' /\ own'[i] < booted'
    BY <2>1, MemPhysAssumption DEF IInv, MemPhysTypeOK, PoolSound, Frames
  <2>7. \A i \in 1..Len(stack') : stack'[i] \notin held' /\ stack'[i] < booted'
    <3> SUFFICES ASSUME NEW i \in 1..Len(stack')
                 PROVE  stack'[i] \notin held' /\ stack'[i] < booted'
      OBVIOUS
    <3>1. CASE i = Len(stack) + 1
      BY <3>1, <2>1 DEF IInv, MemPhysTypeOK
    <3>2. CASE i # Len(stack) + 1
      <4>1. i \in 1..Len(stack) /\ stack'[i] = stack[i]
        BY <3>2, <2>1, <2>2 DEF IInv, MemPhysTypeOK
      <4>2. stack[i] \notin held /\ stack[i] < booted /\ stack[i] \in Nat
        BY <4>1, MemPhysAssumption DEF IInv, MemPhysTypeOK, PoolSound, Frames
      <4> QED BY <4>1, <4>2, MemPhysAssumption DEF IInv, MemPhysTypeOK
    <3> QED BY <3>1, <3>2
  <2>8. \A i \in 1..Len(stack'), j \in 1..Len(own') : stack'[i] # own'[j]
    BY <2>1 DEF IInv, MemPhysTypeOK, PoolSound
  <2>9. \A g \in held' : g < booted'
    BY MemPhysAssumption DEF IInv, MemPhysTypeOK, PoolSound, Frames
  <2> QED
    BY <2>1, <2>2, <2>4, <2>5, <2>6, <2>7, <2>8, <2>9 DEF PoolSound, IInv, MemPhysTypeOK
<1> QED BY <1>1, <1>2

\* Front and Last of a stack that is not empty.
LEMMA FrontLast ==
  ASSUME NEW s \in Seq(Frames), s # << >>
  PROVE  /\ Front(s) \in Seq(Frames) /\ Len(Front(s)) = Len(s) - 1
         /\ Len(s) \in Nat \ {0}
         /\ \A i \in 1..(Len(s) - 1) : Front(s)[i] = s[i]
         /\ Last(s) = s[Len(s)] /\ Last(s) \in Frames
BY DEF Front, Last

\* The inductive step.
LEMMA StepSound == IInv /\ [Next]_vars => IInv'
<1> SUFFICES ASSUME IInv, [Next]_vars PROVE IInv'
  OBVIOUS
<1>1. CASE memphys_init
  <2>1. booted \in Frames /\ booted' = booted + 1 /\ booted' \in FREEPHYS..(LAST + 1)
    BY <1>1, MemPhysAssumption DEF memphys_init, IInv, MemPhysTypeOK, Frames
  <2>2. memphys_push(booted) /\ held' = held /\ panic' = panic
    BY <1>1 DEF memphys_init
  <2>3. booted \notin held /\ \A i \in 1..Len(stack) : stack[i] # booted
    BY <2>1 DEF IInv, PoolSound, MemPhysTypeOK, Frames
  <2>4. \A i \in 1..Len(own) : own[i] # booted
    BY <2>1 DEF IInv, PoolSound, MemPhysTypeOK, Frames
  <2>5. booted <= booted' /\ booted < booted'
    BY <2>1, MemPhysAssumption DEF Frames
  <2>6. stack' \in Seq(Frames) /\ own' \in Seq(Frames) /\ PoolSound'
    BY <2>1, <2>2, <2>3, <2>4, <2>5, PushSound
  <2> QED BY <2>1, <2>2, <2>6 DEF IInv, MemPhysTypeOK
<1>2. CASE memphys_pop
  <2>1. CASE stack = << >>
    BY <1>2, <2>1 DEF memphys_pop, IInv, PoolSound, MemPhysTypeOK, Distinct, dma
  <2>2. CASE stack # << >>
    <3>1. stack' = Front(stack) /\ held' = held \cup {Last(stack)} /\ own' = own
          /\ booted' = booted /\ panic' = panic
      BY <1>2, <2>2 DEF memphys_pop
    <3>2. /\ stack' \in Seq(Frames) /\ Len(stack') = Len(stack) - 1 /\ Len(stack) \in Nat \ {0}
          /\ \A i \in 1..(Len(stack) - 1) : stack'[i] = stack[i]
          /\ Last(stack) = stack[Len(stack)] /\ Last(stack) \in Frames
      BY <3>1, <2>2, FrontLast DEF IInv, MemPhysTypeOK
    <3>3. Distinct(stack') /\ Distinct(own')
      BY <3>1, <3>2 DEF IInv, PoolSound, Distinct
    <3>4. \A i \in 1..Len(stack') : stack'[i] \notin held' /\ stack'[i] < booted'
      BY <3>1, <3>2 DEF IInv, PoolSound, Distinct
    <3>5. \A i \in 1..Len(own') : own'[i] \notin held' /\ own'[i] < booted'
      BY <3>1, <3>2 DEF IInv, PoolSound, Distinct
    <3>6. \A i \in 1..Len(stack'), j \in 1..Len(own') : stack'[i] # own'[j]
      BY <3>1, <3>2 DEF IInv, PoolSound
    <3>7. \A g \in held' : g < booted'
      BY <3>1, <3>2 DEF IInv, PoolSound
    <3>8. SLOTS * Len(own) \in Nat
      BY MemPhysAssumption DEF IInv, MemPhysTypeOK
    <3>9. Len(stack') <= SLOTS * Len(own')
      BY <3>1, <3>2, <3>8 DEF IInv, PoolSound
    <3> QED
      BY <3>1, <3>2, <3>3, <3>4, <3>5, <3>6, <3>7, <3>9 DEF IInv, PoolSound, MemPhysTypeOK
  <2> QED BY <2>1, <2>2
<1>3. ASSUME NEW f \in held, memphys_free(f) PROVE IInv'
  <2>1. f \in Frames /\ memphys_push(f) /\ held' = held \ {f} /\ booted' = booted /\ panic' = panic
    BY <1>3 DEF memphys_free, IInv, MemPhysTypeOK
  <2>2. f < booted /\ \A i \in 1..Len(stack) : stack[i] # f
    BY <1>3 DEF IInv, PoolSound
  <2>3. \A i \in 1..Len(own) : own[i] # f
    BY <1>3 DEF IInv, PoolSound
  <2>4. booted' \in FREEPHYS..(LAST + 1) /\ booted <= booted' /\ f < booted'
    BY <2>1, <2>2, MemPhysAssumption DEF IInv, MemPhysTypeOK
  <2>5. stack' \in Seq(Frames) /\ own' \in Seq(Frames) /\ PoolSound'
    BY <2>1, <2>2, <2>3, <2>4, PushSound
  <2> QED BY <2>1, <2>4, <2>5 DEF IInv, MemPhysTypeOK
<1>4. ASSUME NEW n \in 1..2, memphys_dma_alloc(n) PROVE IInv'
  BY <1>4 DEF memphys_dma_alloc, IInv, PoolSound, MemPhysTypeOK, Distinct
<1>5. ASSUME NEW i \in DOMAIN buffers, memphys_dma_free(i) PROVE IInv'
  BY <1>5 DEF memphys_dma_free, IInv, PoolSound, MemPhysTypeOK, Distinct
<1>6. CASE UNCHANGED vars
  BY <1>6 DEF vars, IInv, PoolSound, MemPhysTypeOK, Distinct
<1> QED BY <1>1, <1>2, <1>3, <1>4, <1>5, <1>6 DEF Next

\* The initial state.
LEMMA InitSound == Init => IInv
<1> SUFFICES ASSUME Init PROVE IInv
  OBVIOUS
<1>1. stack = << >> /\ own = << >> /\ held = {} /\ panic = FALSE /\ booted = FREEPHYS
  BY DEF Init
<1>2. Len(stack) = 0 /\ Len(own) = 0 /\ stack \in Seq(Frames) /\ own \in Seq(Frames)
  BY <1>1
<1>3. SLOTS * Len(own) = 0
  BY <1>2, MemPhysAssumption
<1>4. booted \in FREEPHYS..(LAST + 1)
  BY <1>1, MemPhysAssumption
<1>5. MemPhysTypeOK
  BY <1>1, <1>2, <1>4 DEF MemPhysTypeOK
<1>6. PoolSound
  BY <1>1, <1>2, <1>3 DEF PoolSound, Distinct
<1> QED BY <1>5, <1>6 DEF IInv

\* memphys_pop() never hands out a frame twice, and the stack of free frames
\* never runs over the pages that hold it.
THEOREM FramesHandedOutOnce == Spec => []PoolSound
<1>1. Init => IInv
  BY InitSound
<1>2. IInv /\ [Next]_vars => IInv'
  BY StepSound
<1>3. IInv => PoolSound
  BY DEF IInv
<1> QED BY <1>1, <1>2, <1>3, PTL DEF Spec

\* What memphys_push() and memphys_pop() do to the set of free frames.
LEMMA RangeAppend ==
  ASSUME NEW s \in Seq(Frames), NEW f \in Frames
  PROVE  Range(Append(s, f)) = Range(s) \cup {f}
<1> DEFINE t == Append(s, f)
<1>1. /\ Len(t) = Len(s) + 1 /\ Len(s) \in Nat /\ DOMAIN t = 1..Len(t) /\ DOMAIN s = 1..Len(s)
      /\ t[Len(s) + 1] = f /\ \A i \in 1..Len(s) : t[i] = s[i]
  OBVIOUS
<1> HIDE DEF t
<1>2. Range(t) \subseteq Range(s) \cup {f}
  BY <1>1 DEF Range
<1>3. Range(s) \cup {f} \subseteq Range(t)
  BY <1>1 DEF Range
<1> QED BY <1>2, <1>3 DEF t

LEMMA RangeFront ==
  ASSUME NEW s \in Seq(Frames), s # << >>, Distinct(s)
  PROVE  Range(Front(s)) = Range(s) \ {Last(s)} /\ Last(s) \in Range(s)
<1> DEFINE t == Front(s)
<1>1. /\ Len(t) = Len(s) - 1 /\ Len(s) \in Nat \ {0} /\ DOMAIN t = 1..Len(t)
      /\ DOMAIN s = 1..Len(s) /\ Last(s) = s[Len(s)] /\ \A i \in 1..(Len(s) - 1) : t[i] = s[i]
  BY FrontLast
<1> HIDE DEF t
<1>2. Range(t) \subseteq Range(s) \ {Last(s)}
  BY <1>1 DEF Range, Distinct
<1>3. Range(s) \ {Last(s)} \subseteq Range(t)
  BY <1>1 DEF Range
<1>4. Last(s) \in Range(s)
  BY <1>1 DEF Range
<1> QED BY <1>2, <1>3, <1>4 DEF t

\* Every step of MemPhys is a step of the pool or leaves it alone.
LEMMA StepRefines == IInv /\ [Next]_vars => [Pool!Next]_<< Range(stack), held >>
<1> SUFFICES ASSUME IInv, [Next]_vars PROVE [Pool!Next]_<< Range(stack), held >>
  OBVIOUS
<1> USE DEF Pool!Next
<1>0. stack \in Seq(Frames) /\ Distinct(stack) /\ held \subseteq Frames
  BY DEF IInv, MemPhysTypeOK, PoolSound
<1>1. CASE memphys_init
  <2>1. booted \in Frames /\ memphys_push(booted) /\ held' = held
    BY <1>1, MemPhysAssumption DEF memphys_init, IInv, MemPhysTypeOK, Frames
  <2>2. booted \notin held /\ booted \notin Range(stack)
    BY <2>1 DEF IInv, PoolSound, MemPhysTypeOK, Frames, Range
  <2>3. CASE stack' = stack
    BY <2>1, <2>3
  <2>4. CASE stack' = Append(stack, booted)
    <3>1. Range(stack') = Range(stack) \cup {booted}
      BY <2>4, <2>1, <1>0, RangeAppend
    <3>2. Pool!Found(booted)
      BY <3>1, <2>1, <2>2 DEF Pool!Found
    <3> QED BY <3>1, <3>2, <2>2
  <2> QED BY <2>1, <2>3, <2>4 DEF memphys_push
<1>2. CASE memphys_pop
  <2>1. CASE stack = << >>
    BY <1>2, <2>1 DEF memphys_pop
  <2>2. CASE stack # << >>
    <3>1. stack' = Front(stack) /\ held' = held \cup {Last(stack)}
      BY <1>2, <2>2 DEF memphys_pop
    <3>2. Range(stack') = Range(stack) \ {Last(stack)} /\ Last(stack) \in Range(stack)
      BY <3>1, <2>2, <1>0, RangeFront
    <3>3. Pool!Alloc(Last(stack))
      BY <3>1, <3>2 DEF Pool!Alloc
    <3> QED BY <3>2, <3>3
  <2> QED BY <2>1, <2>2
<1>3. ASSUME NEW f \in held, memphys_free(f) PROVE Pool!Next
  <2>1. f \in Frames /\ memphys_push(f) /\ held' = held \ {f}
    BY <1>0, <1>3 DEF memphys_free
  <2>2. Range(stack') \in {Range(stack), Range(stack) \cup {f}}
    BY <2>1, <1>0, RangeAppend DEF memphys_push
  <2>3. Pool!Release(f)
    BY <2>1, <2>2 DEF Pool!Release
  <2> QED BY <2>3
<1>4. ASSUME NEW n \in 1..2, memphys_dma_alloc(n) PROVE UNCHANGED << Range(stack), held >>
  BY <1>4 DEF memphys_dma_alloc
<1>5. ASSUME NEW i \in DOMAIN buffers, memphys_dma_free(i) PROVE UNCHANGED << Range(stack), held >>
  BY <1>5 DEF memphys_dma_free
<1>6. CASE UNCHANGED vars
  BY <1>6 DEF vars
<1> QED BY <1>1, <1>2, <1>3, <1>4, <1>5, <1>6 DEF Next

\* memphys.c implements the pool of frames that the rest of the kernel
\* takes it for, for any number of frames.
THEOREM PoolImplemented == Spec => PoolRefined
<1>1. Init => Pool!Init
  BY DEF Init, Pool!Init, Range
<1>2. Init => IInv
  BY InitSound
<1>3. IInv /\ [Next]_vars => IInv'
  BY StepSound
<1>4. IInv /\ [Next]_vars => [Pool!Next]_<< Range(stack), held >>
  BY StepRefines
<1> QED BY <1>1, <1>2, <1>3, <1>4, PTL DEF Spec, PoolRefined, Pool!Spec
=============================================================================
