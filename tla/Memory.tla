------------------------------- MODULE Memory -------------------------------
(***************************************************************************)
(* Address spaces and shared memory: kernel2/memuser.c and the mapping     *)
(* functions of kernel2/paging.c, the proc_mem*() calls of kernel2/procm.c,*)
(* kernel2/shm.c, and the two users of them that move whole address spaces,*)
(* proc_fork() and proc_exec() of apps/init.                               *)
(*                                                                         *)
(* A system call is atomic (interrupts are disabled).  init serves one RPC *)
(* at a time and its client sleeps meanwhile, so fork and exec are a       *)
(* sequence of steps (job) during which only other processes act.  A page  *)
(* that init maps into its own address space while it copies or loads is   *)
(* unmapped again in the same step and is not recorded.                    *)
(***************************************************************************)
EXTENDS Integers, Sequences, SequencesExt, FiniteSets, FiniteSetsExt

CONSTANTS
  FRAMES,    \* the number of page frames that are free at the start
  Users,     \* processes other than init
  Booted,     \* the user processes that run from the start
  NDATA,     \* bound: pages of the data area that are used
  NSTACK,    \* bound: pages a stack may have (USERSTACK_MAXSIZE)
  IMAGE,     \* the data pages that an executable may occupy
  MAXCALLS   \* bound: system calls and page faults of the user processes

MemoryAssumption ==
  /\ Booted \subseteq Users /\ IMAGE \subseteq 1..NDATA
  /\ {FRAMES, NDATA, NSTACK, MAXCALLS} \subseteq Nat

VARIABLES
  mem,    \* free frames
  as,     \* the address space of each process
  shm,    \* the segments in ipc_objects, newest first
  next,   \* ipc_lastid
  job,    \* what init is doing
  calls,  \* the number of system calls and page faults so far
  execd,  \* history: some process has called exec
  clean   \* history: no segment was destroyed while another process was
          \* attached to it, and no shared page was freed as a private one

vars == << mem, as, shm, next, job, calls, execd, clean >>

\* The null pointer, also as a frame.
NULL == 0

Frames == 1..FRAMES
Virt  == 1..(NDATA + NSTACK)
Areas == {"data", "stack"}

\* The page table that holds v's entry.
Area(v) == IF v <= NDATA THEN "data" ELSE "stack"

\* A page table entry.  page = NULL: not in memory (an imaginary page).
\* kind is history: what the frame was mapped for.
Kinds  == {"none", "private", "shm", "dma"}
Absent == [exists |-> FALSE, page |-> NULL, kind |-> "none"]

\* memuser_create_addrspace(), but for the frame of the page directory.
NoSpace == [dir       |-> NULL,
            table     |-> [t \in Areas |-> NULL],
            pte       |-> [v \in Virt |-> Absent],
            loaded    |-> << >>,
            imaginary |-> << >>,
            stack     |-> NULL]

Idle == [call |-> "none", proc |-> NULL, from |-> NULL, pages |-> << >>]

MemTypeOK ==
  /\ mem \in [free : SUBSET Frames, dma : SUBSET Frames, twice : BOOLEAN, panic : BOOLEAN]
  /\ \A p \in Users :
       /\ as[p].dir \in Frames \cup {NULL}
       /\ as[p].table \in [Areas -> Frames \cup {NULL}]
       /\ as[p].pte \in [Virt -> [exists : BOOLEAN, page : 0..FRAMES, kind : Kinds]]
       /\ as[p].loaded \in Seq(Virt) /\ as[p].imaginary \in Seq(Virt)
       /\ as[p].stack \in Virt \cup {NULL}
  /\ \A i \in 1..Len(shm) :
       /\ shm[i].frames \in Seq(0..FRAMES) /\ shm[i].id \in 0..(next - 1)
       /\ shm[i].atts \in Seq([proc : Users, virt : Virt])
  /\ next \in 0..MAXCALLS /\ calls \in 0..MAXCALLS
  /\ job.call \in {"none", "fork", "free", "load", "hung"}
  /\ {execd, clean} \subseteq BOOLEAN

-----------------------------------------------------------------------------
(* Page frames: the pool that MemPhys implements, as a record m of the free *)
(* frames, the frames whose DMA bit is set, whether a frame was freed twice *)
(* and whether the kernel panicked.  Which free frame is handed out makes   *)
(* no difference here: it is the lowest.                                    *)

\* memphys_push(addr), also memphys_free(addr)
memphys_push(m, f) ==
  IF f = NULL THEN m
  ELSE [m EXCEPT !.free = @ \cup {f}, !.twice = @ \/ f \in m.free]

\* memphys_pop(), also memphys_alloc(): the frame that it returns ...
Popped(m) == IF m.free = {} THEN NULL ELSE Min(m.free)

\* ... and what is left.
memphys_pop(m) ==
  IF m.free = {} THEN [m EXCEPT !.panic = TRUE] ELSE [m EXCEPT !.free = @ \ {Popped(m)}]

\* memphys_dma_alloc(1): the lowest frame whose bit is clear, free or not.
memphys_dma_alloc(m) ==
  IF Frames \subseteq m.dma THEN NULL ELSE Min(Frames \ m.dma)

-----------------------------------------------------------------------------
(* Paging, on a pair st of the free frames m and an address space a.       *)

\* A frame for the page table of v, if it has none: memuser_create_pagetable()
\* and the first half of paging_map_pd().
WithTable(st, v) ==
  IF st.a.table[Area(v)] = NULL
  THEN [m |-> memphys_pop(st.m), a |-> [st.a EXCEPT !.table[Area(v)] = Popped(st.m)]]
  ELSE st

\* paging_map(virt,phys,...)
paging_map(st, v, f, kind) ==
  LET t == WithTable(st, v)
  IN  [t EXCEPT !.a.pte[v] = [exists |-> TRUE, page |-> f, kind |-> kind]]

\* Mapping of n frames from v on.
MapRun(st, v, frames, kind) ==
  FoldLeft(LAMBDA s, i : paging_map(s, v + i - 1, frames[i], kind),
           st, [i \in 1..Len(frames) |-> i])

\* paging_unmap(virt), in the address space a; the frame it returns is
\* a.pte[v].page.
paging_unmap(a, v) == [a EXCEPT !.pte[v] = Absent]

\* memuser_alloc_at(addrspace,addr,NULL,1)
memuser_alloc_at(st, v) ==
  LET t == WithTable(st, v)
  IN  [m |-> memphys_pop(t.m),
       a |-> [t.a EXCEPT !.pte[v] = [exists |-> TRUE, page |-> Popped(t.m),
                                     kind |-> "private"],
                         !.loaded = Cons(v, @)]]

\* memuser_findvirt(addrspace,pages): the lowest n pages in a row that have
\* no entry; NULL if there are none.
memuser_findvirt(a, n) ==
  LET runs == {v \in 1..(NDATA - n + 1) :
                 \A u \in v..(v + n - 1) : ~a.pte[u].exists}
  IN  IF runs = {} THEN NULL ELSE Min(runs)

\* proc_memmap(pid,virt,NULL,...) where virt # NULL.
proc_memmap(st, v) ==
  LET f  == Popped(st.m)
      st1 == [st EXCEPT !.m = memphys_pop(@)]
  IN  IF st.a.pte[v].exists
      THEN st1
      ELSE [paging_map(st1, v, f, "private") EXCEPT !.a.loaded = Cons(v, @)]

\* proc_memfree(pid,virt): the address stays in pages_loaded.
proc_memfree(st, v) ==
  [m |-> memphys_push(st.m, st.a.pte[v].page),
   a |-> [paging_unmap(st.a, v) EXCEPT !.imaginary = RemoveFirst(@, v)]]

\* Mutant: pages that were never touched are not listed.
proc_mempagelist_loaded(a) == a.loaded

\* proc_mempagelist(): pages_loaded, pages_imaginary (pages_swapped is empty).
proc_mempagelist(a) == a.loaded \o a.imaginary

-----------------------------------------------------------------------------
(* System calls of a user process p.                                       *)

Alive(p) == as[p].dir # NULL

\* p is not asleep in a call to init.
Free(p) == /\ Alive(p) /\ ~mem.panic /\ calls < MAXCALLS
           /\ (job.call # "none" => p \notin {job.proc, job.from})

Pair(p) == [m |-> mem, a |-> as[p]]

\* The result of a change to the pair of p.
Becomes(p, st) == mem' = st.m /\ as' = [as EXCEPT ![p] = st.a]

\* memuser_alloc(addrspace,count,swappable): n imaginary pages.
memuser_alloc(p, n) ==
  LET v == memuser_findvirt(as[p], n)
      One(st, i) == [paging_map(st, v + i - 1, NULL, "private")
                       EXCEPT !.a.imaginary = Cons(v + i - 1, @)]
  IN  /\ Free(p) /\ v # NULL
      /\ Becomes(p, FoldLeft(One, Pair(p), [i \in 1..n |-> i]))
      /\ calls' = calls + 1
      /\ UNCHANGED << shm, next, job, execd, clean >>

\* memuser_pagefault(addr) where addr is a page below the stack: the stack
\* grows by one page, whatever the distance.
GrowStack(p) ==
  LET v == as[p].stack - 1
  IN  /\ Free(p) /\ as[p].stack > NDATA + 1
      /\ Becomes(p, LET st == memuser_alloc_at(Pair(p), v)
                    IN  [st EXCEPT !.a.stack = v])
      /\ calls' = calls + 1
      /\ UNCHANGED << shm, next, job, execd, clean >>

\* memuser_pagefault(addr) where addr is on the imaginary page v.
TouchImaginary(p, v) ==
  /\ Free(p) /\ as[p].pte[v].exists /\ as[p].pte[v].page = NULL
  /\ mem' = memphys_pop(mem)
  /\ as' = [as EXCEPT ![p].pte[v].page = Popped(mem),
                      ![p].imaginary = RemoveFirst(@, v),
                      ![p].loaded = Cons(v, @)]
  /\ calls' = calls + 1
  /\ UNCHANGED << shm, next, job, execd, clean >>

\* memuser_dma_alloc(PAGE_SIZE): the bit stays set when there is no room to map.
memuser_dma_alloc(p) ==
  LET f  == memphys_dma_alloc(mem)
      v  == memuser_findvirt(as[p], 1)
      st == [Pair(p) EXCEPT !.m.dma = @ \cup {f}]
  IN  /\ Free(p) /\ f # NULL
      /\ Becomes(p, IF v = NULL THEN st ELSE paging_map(st, v, f, "dma"))
      /\ calls' = calls + 1
      /\ UNCHANGED << shm, next, job, execd, clean >>

\* memuser_dma_free(addr,PAGE_SIZE)
memuser_dma_free(p, v) ==
  /\ Free(p) /\ as[p].pte[v].kind = "dma"
  /\ mem' = [mem EXCEPT !.dma = @ \ {as[p].pte[v].page}]
  /\ as' = [as EXCEPT ![p] = paging_unmap(@, v)]
  /\ calls' = calls + 1
  /\ UNCHANGED << shm, next, job, execd, clean >>

\* Mutant: ipc_lastid is not advanced.
ipc_shm_create_same_id(p, n) ==
  LET One(r, i) == [m |-> memphys_pop(r.m), fs |-> Append(r.fs, Popped(r.m))]
      r == FoldLeft(One, [m |-> mem, fs |-> << >>], [i \in 1..n |-> i])
  IN  /\ Free(p)
      /\ mem' = r.m
      /\ shm' = Cons([id |-> next, frames |-> r.fs, atts |-> << >>], shm)
      /\ calls' = calls + 1
      /\ UNCHANGED << as, next, job, execd, clean >>

\* ipc_shm_create(IPC_PRIVATE,size,...): n frames, taken one by one.
ipc_shm_create(p, n) ==
  LET One(r, i) == [m |-> memphys_pop(r.m), fs |-> Append(r.fs, Popped(r.m))]
      r == FoldLeft(One, [m |-> mem, fs |-> << >>], [i \in 1..n |-> i])
  IN  /\ Free(p)
      /\ mem' = r.m
      /\ shm' = Cons([id |-> next, frames |-> r.fs, atts |-> << >>], shm)
      /\ next' = next + 1
      /\ calls' = calls + 1
      /\ UNCHANGED << as, job, execd, clean >>

\* ipc_shm_attach(id,NULL,...)
ipc_shm_attach(p, i) ==
  LET v == memuser_findvirt(as[p], Len(shm[i].frames))
  IN  /\ Free(p) /\ v # NULL
      /\ Becomes(p, MapRun(Pair(p), v, shm[i].frames, "shm"))
      /\ shm' = [shm EXCEPT ![i].atts = Cons([proc |-> p, virt |-> v], @)]
      /\ calls' = calls + 1
      /\ UNCHANGED << next, job, execd, clean >>

\* The pages of n frames that start at v are unmapped from a.
UnmapRun(a, v, n) ==
  FoldLeft(paging_unmap, a, [i \in 1..n |-> v + i - 1])

\* ipc_shm_detach(virt): the attachment at virt, which is attachment j of
\* segment i.
ipc_shm_detach(p, i, j) ==
  /\ Free(p) /\ shm[i].atts[j].proc = p
  /\ as' = [as EXCEPT ![p] = UnmapRun(@, shm[i].atts[j].virt, Len(shm[i].frames))]
  /\ shm' = [shm EXCEPT ![i].atts = RemoveAt(@, j)]
  /\ calls' = calls + 1
  /\ UNCHANGED << mem, next, job, execd, clean >>

\* Mutant: the last frame is not freed.
ipc_shm_destroy_but_last(p, i) ==
  LET n == Len(shm[i].frames)
  IN  /\ Free(p)
      /\ as' = [as EXCEPT ![p] =
                  FoldLeft(LAMBDA a, att : UnmapRun(a, att.virt, n), @, shm[i].atts)]
      /\ mem' = FoldLeft(memphys_push, mem, Front(shm[i].frames))
      /\ shm' = RemoveAt(shm, i)
      /\ clean' = (clean /\ \A j \in 1..Len(shm[i].atts) : shm[i].atts[j].proc = p)
      /\ calls' = calls + 1
      /\ UNCHANGED << next, job, execd >>

\* ipc_shm_destroy(id): every attachment is unmapped from the address space
\* of the caller, which is the only one that is loaded.
ipc_shm_destroy(p, i) ==
  LET n == Len(shm[i].frames)
  IN  /\ Free(p)
      /\ as' = [as EXCEPT ![p] =
                  FoldLeft(LAMBDA a, att : UnmapRun(a, att.virt, n), @, shm[i].atts)]
      /\ mem' = FoldLeft(memphys_push, mem, shm[i].frames)
      /\ shm' = RemoveAt(shm, i)
      /\ clean' = (clean /\ \A j \in 1..Len(shm[i].atts) : shm[i].atts[j].proc = p)
      /\ calls' = calls + 1
      /\ UNCHANGED << next, job, execd >>

-----------------------------------------------------------------------------
(* init: proc_fork() and proc_exec(), for the process that called.         *)

\* proc_fork(): proc_create() and the list of the caller's pages.
BeginFork(p, c) ==
  /\ Free(p) /\ job = Idle /\ ~Alive(c)
  /\ mem' = memphys_pop(mem)
  /\ as' = [as EXCEPT ![c] = [NoSpace EXCEPT !.dir = Popped(mem)]]
  /\ job' = [call |-> "fork", proc |-> c, from |-> p, pages |-> proc_mempagelist(as[p])]
  /\ calls' = calls + 1
  /\ UNCHANGED << shm, next, execd, clean >>

\* Mutant: the child is given the frame of its parent.
ForkPage_shares ==
  LET v == Head(job.pages)
      f == as[job.from].pte[v].page
  IN  /\ job.call = "fork" /\ job.pages # << >>
      /\ Becomes(job.proc,
                 IF f = NULL \/ as[job.proc].pte[v].exists
                 THEN proc_memmap(Pair(job.proc), v)
                 ELSE [paging_map(Pair(job.proc), v, f, "private") EXCEPT !.a.loaded = Cons(v, @)])
      /\ job' = [job EXCEPT !.pages = Tail(@)]
      /\ UNCHANGED << shm, next, calls, execd, clean >>

\* The loop body of proc_fork(): the child gets a frame of its own at the
\* address, with the content of the parent's page if that is in memory.
ForkPage ==
  /\ job.call = "fork" /\ job.pages # << >> /\ ~mem.panic
  /\ Becomes(job.proc, proc_memmap(Pair(job.proc), Head(job.pages)))
  /\ job' = [job EXCEPT !.pages = Tail(@)]
  /\ UNCHANGED << shm, next, calls, execd, clean >>

\* The end of proc_fork().
EndFork ==
  /\ job.call = "fork" /\ job.pages = << >>
  /\ as' = [as EXCEPT ![job.proc].stack = as[job.from].stack]
  /\ job' = Idle
  /\ UNCHANGED << mem, shm, next, calls, execd, clean >>

\* proc_exec() up to the list of the pages to be freed.
BeginExec(p) ==
  /\ Free(p) /\ job = Idle
  /\ execd' = TRUE
  /\ job' = [call |-> "free", proc |-> p, from |-> p, pages |-> proc_mempagelist(as[p])]
  /\ calls' = calls + 1
  /\ UNCHANGED << mem, as, shm, next, clean >>

\* "Remove old addrspace": proc_memfree() of one listed page.
ExecFree ==
  LET v == Head(job.pages)
  IN  /\ job.call = "free" /\ job.pages # << >>
      /\ Becomes(job.proc, proc_memfree(Pair(job.proc), v))
      /\ job' = [job EXCEPT !.pages = Tail(@)]
      /\ clean' = (clean /\ as[job.proc].pte[v].kind \in {"none", "private"})
      /\ UNCHANGED << shm, next, calls, execd >>

\* exe_load() of an image that occupies the pages 1..n.
ExecLoad(n) ==
  /\ job.call = "free" /\ job.pages = << >>
  /\ job' = [job EXCEPT !.call = "load", !.pages = [i \in 1..n |-> i]]
  /\ UNCHANGED << mem, as, shm, next, calls, execd, clean >>

\* One page of elf_loadseg(): a page of init becomes the page v of the
\* process.  If v is taken init frees its page, and proc_exec() hangs.
LoadPage ==
  LET v == Head(job.pages)
  IN  /\ job.call = "load" /\ job.pages # << >> /\ ~mem.panic
      /\ IF as[job.proc].pte[v].exists
         THEN /\ job' = [job EXCEPT !.call = "hung"]
              /\ UNCHANGED << mem, as >>
         ELSE /\ Becomes(job.proc, proc_memmap(Pair(job.proc), v))
              /\ job' = [job EXCEPT !.pages = Tail(@)]
      /\ UNCHANGED << shm, next, calls, execd, clean >>

\* proc_createstack(): a new stack of one page at USERSTACK_END.
EndExec ==
  /\ job.call = "load" /\ job.pages = << >> /\ ~mem.panic
  /\ Becomes(job.proc, LET st == memuser_alloc_at(Pair(job.proc), NDATA + NSTACK)
                       IN  [st EXCEPT !.a.stack = NDATA + NSTACK])
  /\ job' = Idle
  /\ UNCHANGED << shm, next, calls, execd, clean >>

-----------------------------------------------------------------------------
\* The processes of Booted have been created with a stack and nothing else.
Started(r, p) ==
  LET st == memuser_alloc_at([m |-> memphys_pop(r.m),
                              a |-> [NoSpace EXCEPT !.dir = Popped(r.m)]],
                             NDATA + NSTACK)
  IN  [m |-> st.m, as |-> [r.as EXCEPT ![p] = [st.a EXCEPT !.stack = NDATA + NSTACK]]]

Init ==
  /\ LET r == FoldLeft(Started, [m |-> [free |-> Frames, dma |-> {}, twice |-> FALSE, panic |-> FALSE],
                        as |-> [p \in Users |-> NoSpace]],
                       SetToSortSeq(Booted, <))
     IN  mem = r.m /\ as = r.as
  /\ shm = << >> /\ next = 0 /\ job = Idle
  /\ calls = 0 /\ execd = FALSE /\ clean = TRUE

Next ==
  \/ \E p \in Users :
       \/ \E n \in 1..2 : memuser_alloc(p, n)
       \/ GrowStack(p)
       \/ \E v \in 1..NDATA : TouchImaginary(p, v)
       \/ memuser_dma_alloc(p)
       \/ \E v \in 1..NDATA : memuser_dma_free(p, v)
       \/ \E n \in 1..2 : ipc_shm_create(p, n)
       \/ \E i \in DOMAIN shm :
            \/ ipc_shm_attach(p, i)
            \/ \E j \in DOMAIN shm[i].atts : ipc_shm_detach(p, i, j)
            \/ ipc_shm_destroy(p, i)
       \/ \E c \in Users : BeginFork(p, c)
       \/ BeginExec(p)
  \/ ForkPage \/ EndFork
  \/ ExecFree \/ (\E n \in IMAGE : ExecLoad(n)) \/ LoadPage \/ EndExec

Spec == Init /\ [][Next]_vars

-----------------------------------------------------------------------------
(* Properties *)

\* How often the frame f is in use, each use being exclusive: free, a page
\* directory, a page table, a private page or a page of a segment.
Uses(f) ==
  LET In(s) == Cardinality({i \in DOMAIN s : s[i] = f})
  IN  (IF f \in mem.free THEN 1 ELSE 0)
      + Cardinality({p \in Users : as[p].dir = f})
      + Cardinality({pt \in Users \X Areas : as[pt[1]].table[pt[2]] = f})
      + Cardinality({pv \in Users \X Virt : /\ as[pv[1]].pte[pv[2]].page = f
                                            /\ as[pv[1]].pte[pv[2]].kind = "private"})
      + FoldLeft(LAMBDA n, o : n + In(o.frames), 0, shm)

\* A frame has one use: memphys_alloc() never hands out a frame that is
\* still a page directory, a page table, a private page or a page of a
\* segment, through any order of page faults, fork, exec and shared memory
\* calls, unless a segment was destroyed under another process or a shared
\* page was freed by proc_exec().
FrameHasOneUse == clean => ~mem.twice /\ \A f \in Frames : Uses(f) <= 1

\* No frame is lost: as long as nobody has called exec, every frame that
\* memphys_init() found is free or in use.
NoFrameLost ==
  clean /\ ~execd => \A f \in Frames : Uses(f) >= 1

\* A page that is mapped as shared memory or for DMA is a frame that the
\* segment it was attached to, or the DMA bitmap, still holds, and no two
\* DMA pages are the same frame.
SharedPagesBacked ==
  clean =>
    \A p \in Users, v \in Virt :
      /\ as[p].pte[v].kind = "shm" =>
           \E i \in DOMAIN shm : \E j \in DOMAIN shm[i].atts :
             LET k == v - shm[i].atts[j].virt + 1
             IN  /\ shm[i].atts[j].proc = p
                 /\ k \in DOMAIN shm[i].frames
                 /\ shm[i].frames[k] = as[p].pte[v].page
      /\ as[p].pte[v].kind = "dma" =>
           /\ as[p].pte[v].page \in mem.dma
           /\ \A q \in Users, u \in Virt :
                as[q].pte[u].kind = "dma" /\ as[q].pte[u].page = as[p].pte[v].page
                  => <<q, u>> = <<p, v>>

\* A fork that has ended gave the child every private page of the parent:
\* the page lists that init copies from are complete.
ForkCopiesAll ==
  [][job.call = "fork" /\ job' = Idle =>
       \A v \in Virt : as[job.from].pte[v].kind = "private" =>
                         as'[job.proc].pte[v].kind = "private"]_vars

\* proc_exec() fails to load, and hangs, only over an attachment or a DMA
\* page that its caller had left: "Remove old addrspace" leaves no private
\* page behind.
HangsOnlyOnShared ==
  job.call = "hung" => as[job.proc].pte[Head(job.pages)].kind \in {"shm", "dma"}

\* libmeinos/proc.c calls the result of proc_mempagelist() the list of used
\* pages: every page that it lists is mapped.
ListedPagesExist ==
  \A p \in Users : \A v \in Range(proc_mempagelist(as[p])) : as[p].pte[v].exists
=============================================================================
