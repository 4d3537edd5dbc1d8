-------------------------------- MODULE Tbst --------------------------------
(***************************************************************************)
(* apps/lib/libavl/tbst.c: threaded binary search trees.                   *)
(***************************************************************************)
EXTENDS ThreadVine

tbst_create == Empty({0, 1}, FALSE)

tbst_probe(t, x) ==
    LET p == Last(Search(t, x)) IN IF p = x THEN t ELSE Attach(t, p, Side(x, p), x)

tbst_delete(t, x) ==
    LET path == Search(t, x)
        q == path[Len(path) - 1]
    IN IF Last(path) # x THEN t ELSE Freed(ThreadUnlink(t, x, q, Side(x, q)), x)

tbst_balance(t) == vine_to_tree(tree_to_vine(t))

tbst_t_first(t) == ThreadEnd(t, 0)
tbst_t_last(t) == ThreadEnd(t, 1)
tbst_t_find(t, x) == ThreadFind(t, x)
tbst_t_insert(t, x) == <<tbst_probe(t, x), At(x, <<>>)>>
tbst_t_next(t, trav) == ThreadStep(t, trav, 1)
tbst_t_prev(t, trav) == ThreadStep(t, trav, 0)
tbst_destroy(t) == ThreadDestroy(t)
tbst_copy(t, left) == ThreadCopy(t, left)
=============================================================================
