------------------------------- MODULE Malloc -------------------------------
(***************************************************************************)
(* The kernel's heap: the allocator (kernel2/malloc.c) and the page source *)
(* below it (kernel2/memkernel.c, on the page tables of kernel2/paging.c). *)
(*                                                                         *)
(* An address is a number of units; a unit stands for the smallest step in *)
(* which blocks grow.  A free block is a record of the list that starts at *)
(* _malloc_firstfree; a used one is a member of `used'.  The kernel runs   *)
(* with interrupts off, so nothing happens between the rounds of one       *)
(* malloc(); each round is a step, and `want' is the size malloc() still   *)
(* looks for.                                                              *)
(***************************************************************************)
EXTENDS Integers, Sequences, FiniteSetsExt, SequencesExt

CONSTANTS
  PAGE_SIZE,
  ENTRIES,             \* pages that one page table maps (1024 in the code)
  HEADER,              \* sizeof(struct _malloc_header)
  KERNELDATA_ADDRESS,
  KERNELDATA_END,      \* KERNELDATA_ADDRESS + KERNELDATA_SIZE
  PageTables,          \* page tables that exist when the heap is set up
  init_stacksize,
  Sizes,               \* sizes asked for
  MAXUSED              \* bound: blocks in use at a time

MallocAssumption ==
  /\ PAGE_SIZE \in Nat \ {0} /\ ENTRIES \in Nat \ {0} /\ HEADER \in Nat \ {0}
  /\ KERNELDATA_ADDRESS % PAGE_SIZE = 0 /\ KERNELDATA_END \in Nat
  /\ init_stacksize \in Nat /\ init_stacksize < KERNELDATA_ADDRESS - HEADER
  /\ Sizes \subseteq Nat \ {0} /\ MAXUSED \in Nat

NULL == 0

\* crt0.asm: init_stack lies in the kernel image, below the kernel's data.
init_stack == HEADER

VARIABLES
  firstfree,   \* the list of free blocks
  used,        \* blocks handed out
  mapped,      \* numbers of the kernel data pages that are mapped
  tables,      \* numbers of the page tables that exist
  want,        \* size the running malloc() looks for, or 0
  rounds       \* pages this malloc() has asked for

vars == << firstfree, used, mapped, tables, want, rounds >>

ADDR2PAGE(a) == a \div PAGE_SIZE
ADDR2PDE(a)  == ADDR2PAGE(a) \div ENTRIES

Block(a, n) == [addr |-> a, size |-> n]
End(b)      == b.addr + b.size

-----------------------------------------------------------------------------
\* The last test of _malloc_insertlist(): b, in front of list l, is joined
\* with the block that follows it.
JoinNext(b, l) ==
  IF l # << >> /\ End(b) = Head(l).addr
  THEN Cons(Block(b.addr, b.size + Head(l).size), Tail(l))
  ELSE Cons(b, l)

\* Mutant: the joined block has only the size of its second half.
malloc_insertlist_size(l, b) ==
  LET i == Cardinality({j \in 1..Len(l) : l[j].addr < b.addr})
  IN  IF i > 0 /\ End(l[i]) = b.addr
      THEN [l EXCEPT ![i].size = b.size]
      ELSE SubSeq(l, 1, i) \o JoinNext(b, SubSeq(l, i + 1, Len(l)))

\* _malloc_insertlist(): b is inserted behind the last block in front of it,
\* or joined with that one.  In the second case the code goes on to look at
\* the nextfree of b, which is no block any more: what it writes there is
\* free memory.
malloc_insertlist(l, b) ==
  IF l = << >> \/ b.addr < l[1].addr
  THEN JoinNext(b, l)
  ELSE LET i == CHOOSE j \in 1..Len(l) :
                  l[j].addr < b.addr /\ (j = Len(l) \/ l[j + 1].addr > b.addr)
       IN  IF End(l[i]) = b.addr
           THEN [l EXCEPT ![i].size = @ + b.size]
           ELSE SubSeq(l, 1, i) \o JoinNext(b, SubSeq(l, i + 1, Len(l)))

\* malloc_donatemem()
malloc_donatemem(l, a, n) == IF a = NULL THEN l ELSE malloc_insertlist(l, Block(a, n))

Init ==
  /\ firstfree = malloc_donatemem(<< >>, init_stack, init_stacksize)
  /\ used = {} /\ mapped = {} /\ tables = PageTables
  /\ want = 0 /\ rounds = 0

-----------------------------------------------------------------------------
\* memkernel_findvirt(1): the loop stops one turn after it has met the first
\* page p that is not mapped.  Where a whole page table is missing it skips
\* that table: ENTRIES pages found, and virt advanced by ENTRIES*(PAGE_SIZE-1)
\* and then by the loop's own PAGE_SIZE.
memkernel_findvirt ==
  LET p     == Min({q \in ADDR2PAGE(KERNELDATA_ADDRESS)..ADDR2PAGE(KERNELDATA_END) :
                      q \notin mapped})
      skips == p % ENTRIES = 0 /\ p \div ENTRIES \notin tables
      found == IF skips THEN ENTRIES ELSE 1
      virt  == p * PAGE_SIZE + PAGE_SIZE
               + (IF skips THEN ENTRIES * (PAGE_SIZE - 1) ELSE 0)
  IN  IF virt < KERNELDATA_END THEN virt - found * PAGE_SIZE ELSE NULL

\* _malloc_getfree(): the first block that has exactly the size, or that
\* leaves room for a header.
Fits(b, n) == b.size = n \/ b.size >= n + HEADER
Found(n)   == \E i \in 1..Len(firstfree) : Fits(firstfree[i], n)
First(n)   == CHOOSE i \in 1..Len(firstfree) :
                Fits(firstfree[i], n) /\ \A j \in 1..(i - 1) : ~Fits(firstfree[j], n)

\* malloc(): the call.
malloc(n) ==
  /\ want = 0 /\ Cardinality(used) < MAXUSED
  /\ want' = n + HEADER
  /\ rounds' = 0
  /\ UNCHANGED << firstfree, used, mapped, tables >>

\* _malloc_getfree(): a block is taken, the rest of a larger one stays free.
malloc_getfree ==
  /\ want # 0 /\ Found(want)
  /\ LET i == First(want)
         b == firstfree[i]
     IN  /\ used' = used \cup {Block(b.addr, want)}
         /\ firstfree' =
              IF b.size = want THEN RemoveAt(firstfree, i)
              ELSE [firstfree EXCEPT ![i] = Block(b.addr + want, b.size - want)]
  /\ want' = 0 /\ rounds' = 0
  /\ UNCHANGED << mapped, tables >>

\* _malloc_getmem() and memkernel_alloc(): one more page.
malloc_getmem ==
  LET virt == memkernel_findvirt
  IN  /\ want # 0 /\ ~Found(want)
      /\ virt # NULL
      /\ mapped' = mapped \cup {ADDR2PAGE(virt)}
      /\ tables' = tables \cup {ADDR2PDE(virt)}
      /\ firstfree' = malloc_donatemem(firstfree, virt, PAGE_SIZE)
      /\ rounds' = rounds + 1
      /\ UNCHANGED << used, want >>

\* free()
free(b) ==
  /\ want = 0
  /\ used' = used \ {b}
  /\ firstfree' = malloc_insertlist(firstfree, b)
  /\ UNCHANGED << mapped, tables, want, rounds >>

\* There is no page left: malloc() goes on asking until the kernel panics.
Halted ==
  /\ want # 0 /\ ~Found(want) /\ memkernel_findvirt = NULL
  /\ UNCHANGED vars

Next ==
  \/ \E n \in Sizes : malloc(n)
  \/ malloc_getfree
  \/ malloc_getmem
  \/ \E b \in used : free(b)
  \/ Halted

Spec == Init /\ [][Next]_vars

-----------------------------------------------------------------------------
(* Properties *)

AllBlocks == used \cup Range(firstfree)
Memory(b) == b.addr..(End(b) - 1)

\* The memory that was given to the heap.
Donated ==
  Memory(Block(init_stack, init_stacksize))
    \cup UNION {Memory(Block(p * PAGE_SIZE, PAGE_SIZE)) : p \in mapped}

\* The type of the heap.
TypeOK ==
  /\ firstfree \in Seq([addr : Nat, size : Nat])
  /\ \A b \in used : b.addr \in Nat /\ b.size > HEADER
  /\ mapped \subseteq ADDR2PAGE(KERNELDATA_ADDRESS)..(ADDR2PAGE(KERNELDATA_END) - 1)
  /\ want \in Nat /\ rounds \in Nat

\* Used and free blocks cover the donated memory exactly: no byte belongs to
\* two blocks, none is lost, and none lies outside the mapped pages, whatever
\* malloc() splits and free() joins.
HeapTiled ==
  /\ UNION {Memory(b) : b \in AllBlocks} = Donated
  /\ \A a, b \in AllBlocks : a # b => Memory(a) \cap Memory(b) = {}
  /\ used \cap Range(firstfree) = {}

\* The list of free blocks stays sorted by address, which is what
\* _malloc_insertlist() relies on to find neighbours.
FreeListSorted ==
  \A i, j \in 1..Len(firstfree) : i < j => firstfree[i].addr < firstfree[j].addr

\* malloc() does not eat memory: it asks for no more pages than cover the size
\* and one header, because pages donated one after the other are joined.
GrowthBounded == want # 0 => rounds * PAGE_SIZE < want + HEADER + PAGE_SIZE

\* "join next block and new one": no two free blocks are neighbours.
Coalesced ==
  \A i \in 1..(Len(firstfree) - 1) : End(firstfree[i]) # firstfree[i + 1].addr
=============================================================================
