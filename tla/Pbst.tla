-------------------------------- MODULE Pbst --------------------------------
(***************************************************************************)
(* apps/lib/libavl/pbst.c: binary search trees with parent pointers.       *)
(***************************************************************************)
EXTENDS ParentTree, Vine

pbst_create == Empty({}, TRUE)

pbst_probe(t, x) ==
    LET q == Last(Search(t, x)) IN IF q = x THEN t ELSE Attach(t, q, Side(x, q), x)

pbst_delete(t, x) ==
    LET q == Last(Above(t, x)) IN
    IF Found(t, x) THEN Freed(Unlink(t, x, q[1], q[2]), x) ELSE t

\* The first node from p up that has a right child not told yet.
RECURSIVE Open(_, _)
Open(t, p) == IF p = NULL \/ L(t, p, 1) # NULL THEN p ELSE Open(t, Climb(t, p, 1))

\* The children on the left side of p are told their parent, then the next
\* right child and those below it.
RECURSIVE Tell(_, _)
Tell(t, p) ==
    LET tell(t1, q, d) == SetP(t1, L(t, q, d), q)
        spine == Spine(t, p, 0)
        t2 == FoldLeft(LAMBDA t1, q : tell(t1, q, 0), t, Front(spine))
        q == Open(t2, Last(spine))
    IN IF q = NULL THEN t2 ELSE Tell(tell(t2, q, 1), L(t, q, 1))

update_parents(t) ==
    IF Root(t) = NULL THEN t ELSE Tell(SetP(t, Root(t), NULL), Root(t))

pbst_balance(t) == update_parents(vine_to_tree(tree_to_vine(t)))

pbst_t_first(t) == ParentEnd(t, 0)
pbst_t_last(t) == ParentEnd(t, 1)
pbst_t_find(t, x) == ParentFind(t, x)
pbst_t_insert(t, x) == <<pbst_probe(t, x), At(x, <<>>)>>
pbst_t_next(t, trav) == ParentStep(t, trav, 1)
pbst_t_prev(t, trav) == ParentStep(t, trav, 0)
pbst_destroy(t) == ParentDestroy(t)
pbst_copy(t, left) == ParentCopy(t, left)
=============================================================================
