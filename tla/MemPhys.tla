------------------------------ MODULE MemPhys ------------------------------
(***************************************************************************)
(* Physical page frames (kernel2/memphys.c): the stack of free frames and  *)
(* the bitmap of frames for DMA.                                           *)
(***************************************************************************)
EXTENDS Integers, Sequences, SequencesExt, FiniteSets

CONSTANTS
  FREEPHYS,   \* FREEPHYS_ADDRESS, as a frame number
  LAST,       \* the last frame of the machine
  SLOTS,      \* entries of the stack in a page: PAGE_SIZE/sizeof(void*)
  BITS,       \* bits of a byte of the bitmap (8)
  MAXDMA      \* bound: DMA buffers ever allocated

ASSUME MemPhysAssumption ==
  /\ FREEPHYS \in Nat \ {0} /\ LAST \in Nat /\ FREEPHYS <= LAST
  /\ SLOTS \in Nat \ {0} /\ BITS \in Nat \ {0} /\ MAXDMA \in Nat

VARIABLES
  stack,    \* the free frames; memphys_stackptr is at the right end
  own,      \* the frames that hold the stack: memphys_stackend is
            \* SLOTS * Len(own) entries above memphys_stackbase
  booted,   \* memphys_init() has gone through the frames below this one
  held,     \* history: the frames handed out and not yet given back
  panic,    \* panic() was called
  bitmap,   \* the frames whose bit is set in memphys_dma_bitmap
  buffers   \* history: the DMA buffers handed out, as sets of frames

vars == << stack, own, booted, held, panic, bitmap, buffers >>

dma == << bitmap, buffers >>

Frames == FREEPHYS..LAST

MemPhysTypeOK ==
  /\ stack \in Seq(Frames) /\ own \in Seq(Frames)
  /\ booted \in FREEPHYS..(LAST + 1) /\ held \in SUBSET Frames /\ panic \in BOOLEAN

\* memphys_dma_init(): whole bytes of the bitmap are set, as many as fit
\* below FREEPHYS.
memphys_dma_init == 0..(BITS * (FREEPHYS \div BITS) - 1)

Init ==
  /\ stack = << >> /\ own = << >> /\ booted = FREEPHYS
  /\ held = {} /\ panic = FALSE
  /\ bitmap = memphys_dma_init /\ buffers = << >>

\* Mutant: a frame that is taken for the stack is pushed as well.
memphys_push_twice(f) ==
  /\ own' = IF Len(stack) = SLOTS * Len(own) THEN Append(own, f) ELSE own
  /\ stack' = Append(stack, f)

\* memphys_push(addr): a full stack takes the frame for itself.
memphys_push(f) ==
  IF Len(stack) = SLOTS * Len(own)
  THEN own' = Append(own, f) /\ stack' = stack
  ELSE stack' = Append(stack, f) /\ own' = own

\* One round of memphys_init(); the frames below FREEPHYS are passed over.
memphys_init ==
  /\ booted <= LAST
  /\ memphys_push(booted)
  /\ booted' = booted + 1
  /\ UNCHANGED << held, panic, dma >>

Running == booted > LAST /\ ~panic

\* Mutant: the stack pointer moves by two.
memphys_pop_two ==
  /\ Running /\ Len(stack) > 1
  /\ stack' = Front(Front(stack))
  /\ held' = held \cup {Last(stack)}
  /\ UNCHANGED << own, booted, panic, dma >>

\* memphys_pop(), also memphys_alloc().  memphys_stackptr never exceeds
\* memphys_stackend, so the branch that gives a page of the stack back is
\* never taken.
memphys_pop ==
  /\ Running
  /\ \/ /\ stack # << >>
        /\ stack' = Front(stack)
        /\ held' = held \cup {Last(stack)}
        /\ UNCHANGED panic
     \/ /\ stack = << >>
        /\ panic' = TRUE
        /\ UNCHANGED << stack, held >>
  /\ UNCHANGED << own, booted, dma >>

\* memphys_free(addr), which is memphys_push(addr), by the holder of the frame.
memphys_free(f) ==
  /\ Running /\ f \in held
  /\ memphys_push(f)
  /\ held' = held \ {f}
  /\ UNCHANGED << booted, panic, dma >>

\* memphys_dma_alloc(n): the lowest n frames in a row whose bits are clear.
memphys_dma_alloc(n) ==
  LET runs == {f \in 0..(LAST - n + 1) : (f..(f + n - 1)) \cap bitmap = {}}
  IN  /\ Running /\ runs # {} /\ Len(buffers) < MAXDMA
      /\ LET f == CHOOSE f \in runs : \A g \in runs : f <= g
         IN  /\ bitmap' = bitmap \cup (f..(f + n - 1))
             /\ buffers' = Append(buffers, f..(f + n - 1))
      /\ UNCHANGED << stack, own, booted, held, panic >>

\* memphys_dma_free(addr) of every frame of buffer i.
memphys_dma_free(i) ==
  /\ Running
  /\ bitmap' = bitmap \ buffers[i]
  /\ buffers' = [buffers EXCEPT ![i] = {}]
  /\ UNCHANGED << stack, own, booted, held, panic >>

Next ==
  \/ memphys_init \/ memphys_pop
  \/ \E f \in held : memphys_free(f)
  \/ \E n \in 1..2 : memphys_dma_alloc(n)
  \/ \E i \in DOMAIN buffers : memphys_dma_free(i)

Spec == Init /\ [][Next]_vars

-----------------------------------------------------------------------------
(* Properties *)

\* The frames in the sequence s, without repetition.
Distinct(s) == \A i, j \in 1..Len(s) : s[i] = s[j] => i = j

\* Every frame that memphys_init() found is in one place: on the stack,
\* under the stack, or handed out.  So memphys_pop() never returns a frame
\* that is held, nor one that the stack lies in, and the stack never runs
\* over its pages.
PoolSound ==
  /\ Distinct(stack) /\ Distinct(own)
  /\ \A i \in 1..Len(stack) : stack[i] \notin held /\ stack[i] < booted
  /\ \A i \in 1..Len(own) : own[i] \notin held /\ own[i] < booted
  /\ \A i \in 1..Len(stack), j \in 1..Len(own) : stack[i] # own[j]
  /\ \A f \in held : f < booted
  /\ Len(stack) <= SLOTS * Len(own)

\* memphys_alloc() and memphys_free() are the pool of frames that the rest
\* of the kernel takes them for.
Pool == INSTANCE FramePool WITH free <- Range(stack)
PoolRefined == Pool!Spec

\* No frame is in two DMA buffers at a time.
DmaExclusive ==
  \A i, j \in DOMAIN buffers : i # j => buffers[i] \cap buffers[j] = {}

\* "memory until free memory (BDA, Kernel Code, Stack)": the bitmap keeps
\* DMA buffers off the frames below FREEPHYS, which hold the kernel and its
\* page directory.
DmaSparesKernel == \A i \in DOMAIN buffers : buffers[i] \subseteq Frames
=============================================================================
