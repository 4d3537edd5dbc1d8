------------------------------- MODULE Cache -------------------------------
(***************************************************************************)
(* The block cache of the driver library (apps/lib/libcdi/cache.c), used   *)
(* by the file system servers: a bounded pool of blocks found through a    *)
(* search tree and a ring of hints, replaced in LRU order, and a buffer    *)
(* that reads several blocks ahead.                                        *)
(*                                                                         *)
(* A struct block is named by its slot; `freed' holds the slots whose      *)
(* memory was given back.  The contents of a block are one value of Data.  *)
(* The caller's part: data is changed and the block marked dirty while a   *)
(* reference is held, and a block fetched with noread is overwritten       *)
(* before its reference is given back (`scratch' holds the others).        *)
(* Spec is the cache on a device that works; FaultySpec adds reads and     *)
(* writes that fail.                                                       *)
(***************************************************************************)
EXTENDS Integers, Sequences, SequencesExt

CONSTANTS
  NBLOCKS,      \* block numbers are 0..NBLOCKS-1
  Data,         \* contents of a block
  BLOCK_COUNT,  \* cache->block_count (256 in the code)
  READBUF_SZ,
  HINTCNT,
  MAXREF        \* bound: references held on one block

ASSUME CacheAssumption ==
  /\ NBLOCKS \in Nat \ {0} /\ BLOCK_COUNT \in Nat \ {0}
  /\ READBUF_SZ \in Nat \ {0} /\ HINTCNT \in Nat \ {0} /\ MAXREF \in Nat
  /\ Data # {}

Blocks == 0..(NBLOCKS - 1)
Slots  == 1..BLOCK_COUNT
NULL   == 0

VARIABLES
  disk,                     \* contents of the device
  tree,                     \* the slots in the search tree
  lru,                      \* the LRU list, from lru_first to lru_last
  freed,                    \* slots whose memory was freed
  blocks_used,
  number, data, ref_count, dirty,   \* fields of struct block, by slot
  scratch,                  \* slots fetched with noread and not yet written
  read_buffer,              \* first block, and what was read from there on
  hints, prev_hint

vars == << disk, tree, lru, freed, blocks_used, number, data, ref_count, dirty,
           scratch, read_buffer, hints, prev_hint >>

\* read_buffer_block..read_buffer_block+read_buffer_cnt-1
Buffered(rb) == {b \in Blocks : rb.block <= b /\ b < rb.block + Len(rb.data)}

Init ==
  /\ disk \in [Blocks -> Data]
  /\ tree = {} /\ lru = << >> /\ freed = {} /\ blocks_used = 0
  /\ number = [s \in Slots |-> 0]
  /\ data \in [Slots -> Data]
  /\ ref_count = [s \in Slots |-> 0]
  /\ dirty = [s \in Slots |-> FALSE]
  /\ scratch = {}
  /\ read_buffer = [block |-> 0, data |-> << >>]
  /\ hints = [i \in 0..(HINTCNT - 1) |-> NULL]
  /\ prev_hint = 0

-----------------------------------------------------------------------------
\* Mutant: only the hints are searched.
Holds_hinted(s, b) == number[s] = b /\ \E i \in DOMAIN hints : hints[i] = s

\* Slot s holds block b: get_hint() or tree_search() finds it.
Holds(s, b) == number[s] = b /\ (s \in tree \/ \E i \in DOMAIN hints : hints[i] = s)
Cached(b)   == \E s \in Slots : Holds(s, b)

\* Mutant: references are not looked at.
find_replaceable_any(s) == lru # << >> /\ s = lru[1]

\* find_replaceable(): the least recently used block without references.
find_replaceable(s) ==
  \E i \in 1..Len(lru) :
    /\ lru[i] = s /\ ref_count[s] = 0
    /\ \A j \in 1..(i - 1) : ref_count[lru[j]] > 0

\* cdi_cache_sync() and cache_sync_block(): each dirty block goes to the read
\* buffer, if it lies there, and to the device; `ok' are the slots whose
\* write succeeds.
Dirty == {s \in tree : dirty[s]}

\* Mutant: the blocks are marked clean and not written.
SyncDisk_lost(ok) == disk

SyncDisk(ok) ==
  [b \in Blocks |-> IF \E s \in ok : number[s] = b
                    THEN data[CHOOSE s \in ok : number[s] = b]
                    ELSE disk[b]]

SyncDirty(ok) == [s \in Slots |-> dirty[s] /\ s \notin ok]

SyncBuffer ==
  [read_buffer EXCEPT !.data =
     [i \in 1..Len(@) |->
        LET b == read_buffer.block + i - 1
        IN  IF \E s \in Dirty : number[s] = b
            THEN data[CHOOSE s \in Dirty : number[s] = b]
            ELSE @[i]]]

\* load_block(): the read buffer from which block b is copied; n blocks are
\* read from device d if b is not in buffer rb.
load_block(rb, d, b, n) ==
  IF b \in Buffered(rb)
  THEN rb
  ELSE [block |-> b, data |-> [i \in 1..n |-> d[b + i - 1]]]

ReadSizes(b) == {n \in 1..READBUF_SZ : b + n <= NBLOCKS}

\* Mutant: the ring of hints has no end.
Touch_unbounded(s) ==
  /\ prev_hint' = prev_hint + 1
  /\ hints' = [hints EXCEPT ![prev_hint + 1] = s]
  /\ ref_count' = [ref_count EXCEPT ![s] = @ + 1]
  /\ lru' = Append(RemoveFirst(lru, s), s)

\* The end of cdi_cache_block_get(): hint, reference and LRU position.
Touch(s) ==
  /\ prev_hint' = (prev_hint + 1) % HINTCNT
  /\ hints' = [hints EXCEPT ![(prev_hint + 1) % HINTCNT] = s]
  /\ ref_count' = [ref_count EXCEPT ![s] = @ + 1]
  /\ lru' = Append(RemoveFirst(lru, s), s)

\* Slot s becomes block b, read from the device unless noread.
Fetch(s, b, noread, rb, d) ==
  /\ number' = [number EXCEPT ![s] = b]
  /\ IF noread
     THEN /\ scratch' = scratch \cup {s}
          /\ read_buffer' = rb
          /\ UNCHANGED data
     ELSE \E n \in ReadSizes(b) :
            LET new == load_block(rb, d, b, n)
            IN  /\ read_buffer' = new
                /\ data' = [data EXCEPT ![s] = new.data[b - new.block + 1]]
                /\ UNCHANGED scratch

\* cdi_cache_block_get(), the block is in the cache.
block_get_hit(b) ==
  \E s \in Slots :
    /\ Holds(s, b)
    /\ ref_count[s] < MAXREF
    /\ Touch(s)
    /\ UNCHANGED << disk, tree, freed, blocks_used, number, data, dirty, scratch,
                    read_buffer >>

\* cdi_cache_block_get(), the cache may still grow.
block_get_new(b, noread) ==
  LET s == blocks_used + 1
  IN  /\ ~Cached(b)
      /\ blocks_used < BLOCK_COUNT
      /\ blocks_used' = blocks_used + 1
      /\ tree' = tree \cup {s}
      /\ Fetch(s, b, noread, read_buffer, disk)
      /\ Touch(s)
      /\ UNCHANGED << disk, freed, dirty >>

\* cdi_cache_block_get(), a block is replaced; if that one is dirty, the
\* whole cache is written back first, and whether that works is not looked at.
block_get_replace(b, noread, ok) ==
  \E s \in Slots :
    /\ ~Cached(b)
    /\ blocks_used = BLOCK_COUNT
    /\ find_replaceable(s)
    /\ IF dirty[s]
       THEN /\ disk' = SyncDisk(ok)
            /\ dirty' = SyncDirty(ok)
            /\ Fetch(s, b, noread, SyncBuffer, SyncDisk(ok))
       ELSE /\ Fetch(s, b, noread, read_buffer, disk)
            /\ UNCHANGED << disk, dirty >>
    /\ Touch(s)
    /\ UNCHANGED << tree, freed, blocks_used >>

\* cdi_cache_block_release()
block_release(s) ==
  /\ s \in tree /\ ref_count[s] > 0
  /\ ref_count[s] = 1 => s \notin scratch
  /\ ref_count' = [ref_count EXCEPT ![s] = @ - 1]
  /\ UNCHANGED << disk, tree, lru, freed, blocks_used, number, data, dirty, scratch,
                  read_buffer, hints, prev_hint >>

\* The user changes a block and calls cdi_cache_block_dirty().
block_dirty(s, v) ==
  /\ s \in tree /\ ref_count[s] > 0
  /\ data' = [data EXCEPT ![s] = v]
  /\ dirty' = [dirty EXCEPT ![s] = TRUE]
  /\ scratch' = scratch \ {s}
  /\ UNCHANGED << disk, tree, lru, freed, blocks_used, number, ref_count,
                  read_buffer, hints, prev_hint >>

\* cdi_cache_sync()
cache_sync(ok) ==
  /\ disk' = SyncDisk(ok)
  /\ dirty' = SyncDirty(ok)
  /\ read_buffer' = SyncBuffer
  /\ UNCHANGED << tree, lru, freed, blocks_used, number, data, ref_count, scratch,
                  hints, prev_hint >>

Next ==
  \/ \E b \in Blocks : block_get_hit(b)
  \/ \E b \in Blocks, noread \in BOOLEAN : block_get_new(b, noread)
  \/ \E b \in Blocks, noread \in BOOLEAN : block_get_replace(b, noread, Dirty)
  \/ \E s \in Slots : block_release(s)
  \/ \E s \in Slots, v \in Data : block_dirty(s, v)
  \/ cache_sync(Dirty)

Spec == Init /\ [][Next]_vars

-----------------------------------------------------------------------------
(* A device that fails *)

\* read_block() fails in cdi_cache_block_get(): the error path takes only a
\* replaced block off the tree, not a new one, and frees either.
block_get_new_fails(b) ==
  LET s == blocks_used + 1
  IN  /\ ~Cached(b)
      /\ blocks_used < BLOCK_COUNT
      /\ b \notin Buffered(read_buffer)
      /\ tree' = tree \cup {s}
      /\ number' = [number EXCEPT ![s] = b]
      /\ freed' = freed \cup {s}
      /\ read_buffer' = [block |-> b, data |-> << >>]
      /\ UNCHANGED << disk, lru, blocks_used, data, ref_count, dirty, scratch,
                      hints, prev_hint >>

block_get_replace_fails(b) ==
  \E s \in Slots, ok \in SUBSET Dirty :
    /\ ~Cached(b)
    /\ blocks_used = BLOCK_COUNT
    /\ find_replaceable(s)
    /\ b \notin Buffered(read_buffer)
    /\ IF dirty[s]
       THEN disk' = SyncDisk(ok) /\ dirty' = SyncDirty(ok)
       ELSE UNCHANGED << disk, dirty >>
    /\ tree' = tree \ {s}
    /\ number' = [number EXCEPT ![s] = b]
    /\ freed' = freed \cup {s}
    /\ blocks_used' = blocks_used - 1
    /\ read_buffer' = [block |-> b, data |-> << >>]
    /\ UNCHANGED << lru, data, ref_count, scratch, hints, prev_hint >>

FaultyNext ==
  \/ Next
  \/ \E b \in Blocks : block_get_new_fails(b) \/ block_get_replace_fails(b)
  \/ \E ok \in SUBSET Dirty :
       \/ cache_sync(ok)
       \/ \E b \in Blocks, noread \in BOOLEAN : block_get_replace(b, noread, ok)

FaultySpec == Init /\ [][FaultyNext]_vars

-----------------------------------------------------------------------------
(* Properties *)

\* The type of the cache.
TypeOK ==
  /\ disk \in [Blocks -> Data]
  /\ tree \subseteq Slots /\ freed \subseteq Slots /\ scratch \subseteq Slots
  /\ lru \in Seq(Slots)
  /\ blocks_used \in 0..BLOCK_COUNT
  /\ number \in [Slots -> Blocks] /\ data \in [Slots -> Data]
  /\ ref_count \in [Slots -> Nat] /\ dirty \in [Slots -> BOOLEAN]
  /\ read_buffer \in [block : Blocks, data : Seq(Data)]
  /\ hints \in [0..(HINTCNT - 1) -> Slots \cup {NULL}]
  /\ prev_hint \in 0..(HINTCNT - 1)

\* Tree, LRU list and hints describe the same set of blocks, and no block
\* number is in the cache twice: replacing a block renumbers it in place
\* while hints still point to it (cdi_cache_block_get).
IndexConsistent ==
  /\ \A s, t \in tree : number[s] = number[t] => s = t
  /\ \A s \in Slots : Contains(lru, s) <=> s \in tree
  /\ \A i, j \in 1..Len(lru) : lru[i] = lru[j] => i = j
  /\ \A i \in DOMAIN hints : hints[i] # NULL => hints[i] \in tree

\* A handle stays valid while its reference is held: the block behind it is
\* not replaced, whatever else is fetched ("sodass der Block nicht freigegeben
\* wird, solange er benutzt wird").
HandlesStable ==
  [][\A s \in Slots : ref_count[s] > 0 => number'[s] = number[s] /\ s \in tree']_vars

\* The device and the references as the user of the cache sees them.
InPool(b) == {s \in tree : number[s] = b}
View == [b \in Blocks |-> IF InPool(b) # {}
                          THEN data[CHOOSE s \in InPool(b) : TRUE] ELSE disk[b]]
Refs == [b \in Blocks |-> IF InPool(b) # {}
                          THEN ref_count[CHOOSE s \in InPool(b) : TRUE] ELSE 0]

\* The cache implements a plain array of blocks: no write is lost when its
\* block is replaced, and no block read again is older than its last write,
\* although device, read buffer and pool hold copies of their own.
Array == INSTANCE Storage WITH content <- View, refs <- Refs
ImplementsStorage == Array!Spec

\* "Wenn der Knoten bis jetzt im Baum war, muss er rausgeworfen werden": after
\* a failed read no freed block is left in the tree, the LRU list or the hints.
NoDangling ==
  \A s \in freed :
    /\ s \notin tree /\ ~Contains(lru, s)
    /\ \A i \in DOMAIN hints : hints[i] # s
=============================================================================
