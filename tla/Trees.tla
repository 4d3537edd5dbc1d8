------------------------------- MODULE Trees --------------------------------
(***************************************************************************)
(* A table of apps/lib/libavl in use: one tree of any of the twelve kinds  *)
(* and one traverser, under every sequence of operations.                  *)
(*                                                                         *)
(* The item a traverser is at is not deleted: the traverser would point to *)
(* freed memory.                                                           *)
(***************************************************************************)
EXTENDS BinTree

CONSTANTS BST_MAX_HEIGHT, Kinds,
          ParamSet, TagSet     \* what lies behind X_root in a table

\* vine_to_tree() of bst.c ends the program when even a balanced tree is
\* too tall for the traversers' stacks; smaller trees are assumed.
ASSUME TreesAssumption == BST_MAX_HEIGHT \in Nat /\ N < 2^BST_MAX_HEIGHT

B == INSTANCE Bst
A == INSTANCE Avl
R == INSTANCE Rb
TB == INSTANCE Tbst
TA == INSTANCE Tavl
TR == INSTANCE Trb
RTB == INSTANCE Rtbst
RTA == INSTANCE Rtavl
RTR == INSTANCE Rtrb
PB == INSTANCE Pbst
PA == INSTANCE Pavl
PR == INSTANCE Prb

Searching == {"bst", "tbst", "rtbst", "pbst"}
AvlTrees == {"avl", "tavl", "rtavl", "pavl"}
RedBlackTrees == {"rb", "trb", "rtrb", "prb"}

VARIABLES kind, t, trav,
          set        \* the items t should hold, for the properties

vars == <<kind, t, trav, set>>

CreateOf(k) ==
    CASE k = "bst" -> B!bst_create
      [] k = "avl" -> A!avl_create
      [] k = "rb" -> R!rb_create
      [] k = "tbst" -> TB!tbst_create
      [] k = "tavl" -> TA!tavl_create
      [] k = "trb" -> TR!trb_create
      [] k = "rtbst" -> RTB!rtbst_create
      [] k = "rtavl" -> RTA!rtavl_create
      [] k = "rtrb" -> RTR!rtrb_create
      [] k = "pbst" -> PB!pbst_create
      [] k = "pavl" -> PA!pavl_create
      [] k = "prb" -> PR!prb_create

Init == kind \in Kinds /\ t = CreateOf(kind) /\ trav = TravNull /\ set = {}

ProbeOf(x) ==
    CASE kind = "bst" -> B!bst_probe(t, x)
      [] kind = "avl" -> A!avl_probe(t, x)
      [] kind = "rb" -> R!rb_probe(t, x)
      [] kind = "tbst" -> TB!tbst_probe(t, x)
      [] kind = "tavl" -> TA!tavl_probe(t, x)
      [] kind = "trb" -> TR!trb_probe(t, x)
      [] kind = "rtbst" -> RTB!rtbst_probe(t, x)
      [] kind = "rtavl" -> RTA!rtavl_probe(t, x)
      [] kind = "rtrb" -> RTR!rtrb_probe(t, x)
      [] kind = "pbst" -> PB!pbst_probe(t, x)
      [] kind = "pavl" -> PA!pavl_probe(t, x)
      [] kind = "prb" -> PR!prb_probe(t, x)

DeleteOf(x) ==
    CASE kind = "bst" -> B!bst_delete(t, x)
      [] kind = "avl" -> A!avl_delete(t, x)
      [] kind = "rb" -> R!rb_delete(t, x)
      [] kind = "tbst" -> TB!tbst_delete(t, x)
      [] kind = "tavl" -> TA!tavl_delete(t, x)
      [] kind = "trb" -> TR!trb_delete(t, x)
      [] kind = "rtbst" -> RTB!rtbst_delete(t, x)
      [] kind = "rtavl" -> RTA!rtavl_delete(t, x)
      [] kind = "rtrb" -> RTR!rtrb_delete(t, x)
      [] kind = "pbst" -> PB!pbst_delete(t, x)
      [] kind = "pavl" -> PA!pavl_delete(t, x)
      [] kind = "prb" -> PR!prb_delete(t, x)

\* What a traverser does: the tree, which only bst.c changes, and itself.
InsertOf(x) ==
    CASE kind = "bst" -> B!bst_t_insert(t, x)
      [] kind = "avl" -> A!avl_t_insert(t, x)
      [] kind = "rb" -> R!rb_t_insert(t, x)
      [] kind = "tbst" -> TB!tbst_t_insert(t, x)
      [] kind = "tavl" -> TA!tavl_t_insert(t, x)
      [] kind = "trb" -> TR!trb_t_insert(t, x)
      [] kind = "rtbst" -> RTB!rtbst_t_insert(t, x)
      [] kind = "rtavl" -> RTA!rtavl_t_insert(t, x)
      [] kind = "rtrb" -> RTR!rtrb_t_insert(t, x)
      [] kind = "pbst" -> PB!pbst_t_insert(t, x)
      [] kind = "pavl" -> PA!pavl_t_insert(t, x)
      [] kind = "prb" -> PR!prb_t_insert(t, x)

FindOf(x) ==
    CASE kind = "bst" -> B!bst_t_find(t, x)
      [] kind = "avl" -> <<t, A!avl_t_find(t, x)>>
      [] kind = "rb" -> <<t, R!rb_t_find(t, x)>>
      [] kind = "tbst" -> <<t, TB!tbst_t_find(t, x)>>
      [] kind = "tavl" -> <<t, TA!tavl_t_find(t, x)>>
      [] kind = "trb" -> <<t, TR!trb_t_find(t, x)>>
      [] kind = "rtbst" -> <<t, RTB!rtbst_t_find(t, x)>>
      [] kind = "rtavl" -> <<t, RTA!rtavl_t_find(t, x)>>
      [] kind = "rtrb" -> <<t, RTR!rtrb_t_find(t, x)>>
      [] kind = "pbst" -> <<t, PB!pbst_t_find(t, x)>>
      [] kind = "pavl" -> <<t, PA!pavl_t_find(t, x)>>
      [] kind = "prb" -> <<t, PR!prb_t_find(t, x)>>

FirstOf ==
    CASE kind = "bst" -> B!bst_t_first(t)
      [] kind = "avl" -> <<t, A!avl_t_first(t)>>
      [] kind = "rb" -> <<t, R!rb_t_first(t)>>
      [] kind = "tbst" -> <<t, TB!tbst_t_first(t)>>
      [] kind = "tavl" -> <<t, TA!tavl_t_first(t)>>
      [] kind = "trb" -> <<t, TR!trb_t_first(t)>>
      [] kind = "rtbst" -> <<t, RTB!rtbst_t_first(t)>>
      [] kind = "rtavl" -> <<t, RTA!rtavl_t_first(t)>>
      [] kind = "rtrb" -> <<t, RTR!rtrb_t_first(t)>>
      [] kind = "pbst" -> <<t, PB!pbst_t_first(t)>>
      [] kind = "pavl" -> <<t, PA!pavl_t_first(t)>>
      [] kind = "prb" -> <<t, PR!prb_t_first(t)>>

LastOf ==
    CASE kind = "bst" -> B!bst_t_last(t)
      [] kind = "avl" -> <<t, A!avl_t_last(t)>>
      [] kind = "rb" -> <<t, R!rb_t_last(t)>>
      [] kind = "tbst" -> <<t, TB!tbst_t_last(t)>>
      [] kind = "tavl" -> <<t, TA!tavl_t_last(t)>>
      [] kind = "trb" -> <<t, TR!trb_t_last(t)>>
      [] kind = "rtbst" -> <<t, RTB!rtbst_t_last(t)>>
      [] kind = "rtavl" -> <<t, RTA!rtavl_t_last(t)>>
      [] kind = "rtrb" -> <<t, RTR!rtrb_t_last(t)>>
      [] kind = "pbst" -> <<t, PB!pbst_t_last(t)>>
      [] kind = "pavl" -> <<t, PA!pavl_t_last(t)>>
      [] kind = "prb" -> <<t, PR!prb_t_last(t)>>

NextOf ==
    CASE kind = "bst" -> B!bst_t_next(t, trav)
      [] kind = "avl" -> <<t, A!avl_t_next(t, trav)>>
      [] kind = "rb" -> <<t, R!rb_t_next(t, trav)>>
      [] kind = "tbst" -> <<t, TB!tbst_t_next(t, trav)>>
      [] kind = "tavl" -> <<t, TA!tavl_t_next(t, trav)>>
      [] kind = "trb" -> <<t, TR!trb_t_next(t, trav)>>
      [] kind = "rtbst" -> <<t, RTB!rtbst_t_next(t, trav)>>
      [] kind = "rtavl" -> <<t, RTA!rtavl_t_next(t, trav)>>
      [] kind = "rtrb" -> <<t, RTR!rtrb_t_next(t, trav)>>
      [] kind = "pbst" -> <<t, PB!pbst_t_next(t, trav)>>
      [] kind = "pavl" -> <<t, PA!pavl_t_next(t, trav)>>
      [] kind = "prb" -> <<t, PR!prb_t_next(t, trav)>>

PrevOf ==
    CASE kind = "bst" -> B!bst_t_prev(t, trav)
      [] kind = "avl" -> <<t, A!avl_t_prev(t, trav)>>
      [] kind = "rb" -> <<t, R!rb_t_prev(t, trav)>>
      [] kind = "tbst" -> <<t, TB!tbst_t_prev(t, trav)>>
      [] kind = "tavl" -> <<t, TA!tavl_t_prev(t, trav)>>
      [] kind = "trb" -> <<t, TR!trb_t_prev(t, trav)>>
      [] kind = "rtbst" -> <<t, RTB!rtbst_t_prev(t, trav)>>
      [] kind = "rtavl" -> <<t, RTA!rtavl_t_prev(t, trav)>>
      [] kind = "rtrb" -> <<t, RTR!rtrb_t_prev(t, trav)>>
      [] kind = "pbst" -> <<t, PB!pbst_t_prev(t, trav)>>
      [] kind = "pavl" -> <<t, PA!pavl_t_prev(t, trav)>>
      [] kind = "prb" -> <<t, PR!prb_t_prev(t, trav)>>

CopyOf(left) ==
    CASE kind = "bst" -> B!bst_copy(t, left)
      [] kind = "avl" -> <<t, A!avl_copy(t, left)>>
      [] kind = "rb" -> <<t, R!rb_copy(t, left)>>
      [] kind = "tbst" -> <<t, TB!tbst_copy(t, left)>>
      [] kind = "tavl" -> <<t, TA!tavl_copy(t, left)>>
      [] kind = "trb" -> <<t, TR!trb_copy(t, left)>>
      [] kind = "rtbst" -> <<t, RTB!rtbst_copy(t, left)>>
      [] kind = "rtavl" -> <<t, RTA!rtavl_copy(t, left)>>
      [] kind = "rtrb" -> <<t, RTR!rtrb_copy(t, left)>>
      [] kind = "pbst" -> <<t, PB!pbst_copy(t, left)>>
      [] kind = "pavl" -> <<t, PA!pavl_copy(t, left)>>
      [] kind = "prb" -> <<t, PR!prb_copy(t, left)>>

DestroyOf ==
    CASE kind = "bst" -> B!bst_destroy(t)
      [] kind = "avl" -> A!avl_destroy(t)
      [] kind = "rb" -> R!rb_destroy(t)
      [] kind = "tbst" -> TB!tbst_destroy(t)
      [] kind = "tavl" -> TA!tavl_destroy(t)
      [] kind = "trb" -> TR!trb_destroy(t)
      [] kind = "rtbst" -> RTB!rtbst_destroy(t)
      [] kind = "rtavl" -> RTA!rtavl_destroy(t)
      [] kind = "rtrb" -> RTR!rtrb_destroy(t)
      [] kind = "pbst" -> PB!pbst_destroy(t)
      [] kind = "pavl" -> PA!pavl_destroy(t)
      [] kind = "prb" -> PR!prb_destroy(t)

BalanceOf ==
    CASE kind = "bst" -> B!bst_balance(t)
      [] kind = "tbst" -> TB!tbst_balance(t)
      [] kind = "rtbst" -> RTB!rtbst_balance(t)
      [] kind = "pbst" -> PB!pbst_balance(t)

\* The tree changes under the traverser; its items should be S.
Change(new, S) == /\ t' = [new EXCEPT !.moved = FALSE]
                  /\ trav' = IF new.moved THEN Stale(trav.node) ELSE trav
                  /\ set' = S
                  /\ UNCHANGED kind

\* The traverser does r, which may change the tree; its items should be S.
Walks(r, S) == /\ t' = [r[1] EXCEPT !.moved = FALSE]
               /\ trav' = r[2]
               /\ set' = S
               /\ UNCHANGED kind

probe(x) == Change(ProbeOf(x), set \cup {x})
delete(x) == x # trav.node /\ Change(DeleteOf(x), set \ {x})
t_insert(x) == Walks(InsertOf(x), set \cup {x})
t_find(x) == Walks(FindOf(x), set)
t_first == Walks(FirstOf, set)
t_last == Walks(LastOf, set)
t_next == Walks(NextOf, set)
t_prev == Walks(PrevOf, set)

\* X_t_init, and X_t_insert when no node can be allocated.
t_init == trav' = TravNull /\ UNCHANGED <<kind, t, set>>

balance == kind \in Searching /\ Change(BalanceOf, set)
copy == kind = "bst" /\ Change(CopyOf(2 * N + 1)[1], set)

Next == \/ \E x \in Items : probe(x) \/ delete(x) \/ t_insert(x) \/ t_find(x)
        \/ t_first \/ t_last \/ t_next \/ t_prev \/ t_init \/ balance \/ copy

Spec == Init /\ [][Next]_vars

-----------------------------------------------------------------------------
TreesTypeOK ==
    /\ kind \in Kinds
    /\ trav.node \in Contents(t) \cup {NULL} /\ trav.stale \in BOOLEAN
    /\ \A p \in Node : \A d \in {0, 1} : L(t, p, d) \in Items \cup {NULL}
    /\ \A p \in Items \ set : t.link[p] = <<NULL, NULL>>
    /\ t.moved = FALSE

\* Whatever tree it is kept in, the table is a set whose traversers walk in
\* order and are not disturbed by rotations, deletions and rebalancing under
\* them.
TableOfTree == INSTANCE Table WITH cur <- trav.node
TableKept == TableOfTree!Spec

\* The tree holds the items put in and not taken out again, in search order,
\* and no node is linked to twice.
SearchOrder ==
    LET s == InOrder(t, Root(t))
    IN ToSet(s) = set /\ \A i \in 1..Len(s) - 1 : s[i] < s[i + 1]

\* Every link without a child on a threaded side leads to the node before or
\* after in order, and every node's parent is the one that links to it.
LinkageKept ==
    LET s == InOrder(t, Root(t))
        next(i, d) == LET j == IF d = 1 THEN i + 1 ELSE i - 1
                      IN IF j \in DOMAIN s THEN s[j] ELSE NULL
    IN /\ \A i \in DOMAIN s : \A d \in t.threads :
             ~Child(t, s[i], d) => Thread(t, s[i], d) /\ L(t, s[i], d) = next(i, d)
       /\ \A p \in Node : \A d \in {0, 1} \ t.threads : ~Thread(t, p, d)
       /\ t.parents => \A p \in set :
             IF Par(t, p) = NULL THEN p = Root(t) ELSE \E d \in {0, 1} : L(t, Par(t, p), d) = p

\* Every tree is a search tree of exactly the items probed and not deleted
\* since, and keeps its threads and parent links.  AVL
\* trees: the two sides of every node differ by at most one level, and
\* X_balance says which is taller.  Red-black trees: no red node has a red
\* child, all paths have as many black nodes, and the root is black.
ShapeKept ==
    /\ SearchOrder /\ LinkageKept
    /\ kind \in AvlTrees =>
         \A p \in set : /\ Bal(t, p) = Depth(t, p, 1) - Depth(t, p, 0)
                        /\ Bal(t, p) \in {-1, 0, 1}
    /\ kind \in RedBlackTrees /\ Root(t) # NULL =>
         Bal(t, Root(t)) = BLACK /\ BlackHeight(t, Root(t)) # -1

\* A traverser whose generation is the tree's has exactly the ancestors of
\* its node on its stack, and no more than fit.
StackIsPath ==
    kind \in {"bst", "avl", "rb"} /\ ~trav.stale /\ trav.node # NULL =>
        /\ trav.stack = Ancestors(Search(t, trav.node))
        /\ kind = "bst" => Len(trav.stack) <= BST_MAX_HEIGHT

\* However the tree has changed since a traverser last moved, X_t_next and
\* X_t_prev lead to its item's neighbour in the set as it is now, X_t_first
\* and X_t_last to its ends, and X_t_find to the item or to none; its stack
\* is the path to its node whenever it is used.
TraversersExact ==
    /\ StackIsPath
    /\ NextOf[2].node = TableOfTree!After(set, trav.node)
    /\ PrevOf[2].node = TableOfTree!Before(set, trav.node)
    /\ FirstOf[2].node = TableOfTree!Least(set) /\ LastOf[2].node = TableOfTree!Greatest(set)
    /\ \A x \in Items : FindOf(x)[2].node = IF x \in set THEN x ELSE NULL

\* Items are only compared, so a tree of other items is like one of the first
\* ones; and each tree is looked at once, with the traverser at no item.
Quiet == trav = TravNull /\ set = 1..Cardinality(set)

\* A balanced tree has the same items and is as low as their number allows.
\* Destroying a tree frees its nodes in order, each once.
OperationsExact ==
    Quiet =>
        /\ kind \in Searching =>
              LET b == BalanceOf IN
              Contents(b) = set /\ 2^Height(b, Root(b)) <= 2 * Cardinality(set) + 1
        /\ DestroyOf = InOrder(t, Root(t))

\* A copy has the same nodes, links, threads, parents, balances or colours.
\* A copy that runs out of memory at any point frees every node it has
\* allocated, once, and follows no link that was never written.
CopyExact ==
    Quiet => \A left \in 0..2 * Cardinality(set) + 1 :
        LET r == CopyOf(left)
            c == r[2]
        IN IF c.is = "copied"
           THEN /\ c.new.link = r[1].link /\ c.new.tag = r[1].tag
                /\ kind \notin Searching => c.new.bal = [r[1].bal EXCEPT ![ROOT] = 0]
                /\ t.parents => c.new.parent = t.parent
           ELSE ToSet(c.freed) = c.got /\ Len(c.freed) = Cardinality(c.got)

\* The items a failed copy destroys were all copied before.
CopyReadsWritten ==
    Quiet => \A left \in 0..2 * Cardinality(set) + 1 :
        LET c == CopyOf(left)[2] IN ToSet(c.freed) \subseteq c.data
=============================================================================
