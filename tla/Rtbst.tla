------------------------------- MODULE Rtbst --------------------------------
(***************************************************************************)
(* apps/lib/libavl/rtbst.c: right-threaded binary search trees.            *)
(***************************************************************************)
EXTENDS RightTree, ThreadVine

rtbst_create == Empty({1}, FALSE)

rtbst_probe(t, x) ==
    LET p == Last(Search(t, x)) IN IF p = x THEN t ELSE Attach(t, p, Side(x, p), x)

rtbst_delete(t, x) ==
    LET path == Search(t, x)
        q == path[Len(path) - 1]
    IN IF Last(path) # x THEN t ELSE Freed(RightUnlink(t, x, q, Side(x, q)), x)

rtbst_balance(t) == vine_to_tree(tree_to_vine(t))

rtbst_t_first(t) == ThreadEnd(t, 0)
rtbst_t_last(t) == ThreadEnd(t, 1)
rtbst_t_find(t, x) == ThreadFind(t, x)
rtbst_t_insert(t, x) == <<rtbst_probe(t, x), At(x, <<>>)>>
rtbst_t_next(t, trav) == RightStep(t, trav, 1)
rtbst_t_prev(t, trav) == RightStep(t, trav, 0)
rtbst_destroy(t) == ThreadDestroy(t)
rtbst_copy(t, left) == ThreadCopy(t, left)
=============================================================================
