------------------------------ MODULE MCKernel ------------------------------
(***************************************************************************)
(* Instances for TLC of the kernel's memory and of its System V objects,   *)
(* one of which, chosen at the start, runs: the frame pool (MemPhys), the  *)
(* kernel heap (Malloc), address spaces with shared memory (Memory), a     *)
(* semaphore (Sem) and a message queue (Msg).                              *)
(***************************************************************************)
EXTENDS MemPhys

CONSTANTS Parts,
          FRAMES, Users, Booted, NDATA, NSTACK, IMAGE,
          MAXPROC, CLOCK_MAX, MAXVAL, Types, Wanted, MAXUPCALLS,
          PAGE_SIZE, ENTRIES, HEADER, KERNELDATA_ADDRESS, KERNELDATA_END,
          PageTables, init_stacksize, Sizes, MAXUSED

VARIABLES part,
          mem, as, shm, next, job, calls, execd, clean,
          sched, sem, pc, ops, done, slept, upcalls, msq, rcv,
          firstfree, used, mapped, tables, want, rounds

Op(n)     == [op |-> n, nowait |-> FALSE]
MCOpLists == {<< Op(1) >>, << Op(0), Op(-1) >>, << [op |-> -1, nowait |-> TRUE] >>}

M == INSTANCE Memory WITH MAXCALLS <- 4
S == INSTANCE Sem WITH OpLists <- MCOpLists
Q == INSTANCE Msg WITH MAXCALLS <- 3
H == INSTANCE Malloc

ASSUME M!MemoryAssumption /\ S!SemAssumption /\ Q!MsgAssumption /\ H!MallocAssumption

semvars == << sem, pc, ops, done, slept >>
msgvars == << msq, rcv >>
memvars == << mem, as, shm, next, job, execd, clean >>

MCInit == /\ part \in Parts
          /\ Init /\ M!Init /\ S!Init /\ Q!Init /\ H!Init

heapvars == << firstfree, used, mapped, tables, want, rounds >>

MCNext ==
  \/ /\ part = "memphys" /\ Next
     /\ UNCHANGED << part, memvars, semvars, msgvars, heapvars, sched, calls, upcalls >>
  \/ /\ part = "memory" /\ M!Next
     /\ UNCHANGED << part, vars, semvars, msgvars, heapvars, sched, upcalls >>
  \/ /\ part = "sem" /\ S!Next
     /\ UNCHANGED << part, vars, memvars, msgvars, heapvars, calls >>
  \/ /\ part = "msg" /\ Q!Next
     /\ UNCHANGED << part, vars, memvars, semvars, heapvars >>
  \/ /\ part = "malloc" /\ H!Next
     /\ UNCHANGED << part, vars, memvars, semvars, msgvars, sched, calls, upcalls >>

MCSpec == MCInit /\ [][MCNext]_<< part, vars, memvars, semvars, msgvars, heapvars, sched, calls, upcalls >>

-----------------------------------------------------------------------------
\* The properties of the instances, under the names they have there.

\* The types of the part that runs.
KernelTypeOK == /\ part = "memphys" => MemPhysTypeOK
                /\ part = "memory" => M!MemTypeOK
                /\ part = "sem" => S!SemTypeOK
                /\ part = "msg" => Q!MsgTypeOK
                /\ part = "malloc" => H!TypeOK

\* No frame has two uses, neither in the address spaces and the segments nor
\* in the buffers that memphys_dma_alloc() gave out, and every page of a
\* segment is mapped to the segment's frame wherever it is attached.
FrameHasOneUse == /\ part = "memory" => M!FrameHasOneUse /\ M!SharedPagesBacked
                  /\ part = "memphys" => DmaExclusive

\* No frame is lost by any order of calls, forks and page faults, and a
\* process only hangs on a page that is shared.
NoFrameLost == part = "memory" => M!NoFrameLost /\ M!HangsOnlyOnShared

\* A fork copies every page that its caller has at the time.
ForkCopiesAll == M!ForkCopiesAll

\* A semaphore is never negative, and who is on one of its lists sleeps there.
ListedSleep == part = "sem" => S!ValueNotNegative /\ S!ListedSleep

\* No process sleeps in msgrcv() while a message for it is in the queue.
NoMissedMessage == part = "msg" => Q!NoMissedMessage

\* The blocks of the kernel heap and what is handed out tile the mapped pages;
\* the free list is sorted; a malloc() asks for a bounded number of pages.
HeapSound == part = "malloc" => H!HeapTiled /\ H!FreeListSorted /\ H!GrowthBounded
=============================================================================
