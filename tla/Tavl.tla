-------------------------------- MODULE Tavl --------------------------------
(***************************************************************************)
(* apps/lib/libavl/tavl.c: threaded AVL trees.                             *)
(***************************************************************************)
EXTENDS ThreadTree, AvlBalance

tavl_create == Empty({0, 1}, FALSE)

\* The rest of tavl_probe() once x has been added below the path.
tavl_grow(t, path, x) == IF Last(path) = ROOT THEN t ELSE Grow(t, path, x)

tavl_probe(t, x) ==
    LET path == Search(t, x)
        p == Last(path)
    IN IF p = x THEN t ELSE tavl_grow(Attach(t, p, Side(x, p), x), path, x)

\* The parent of node, from its threads: down both sides at once until one
\* ends; the thread there leads to the parent, or the other side's does.
RECURSIVE ParentBelow(_, _, _, _)
ParentBelow(t, node, x, y) ==
    LET outer(d, p) == L(t, Extreme(t, p, d), d) IN
    IF Thread(t, y, 1)
    THEN IF L(t, y, 1) = NULL \/ L(t, L(t, y, 1), 0) # node THEN outer(0, x) ELSE L(t, y, 1)
    ELSE IF Thread(t, x, 0)
    THEN IF L(t, x, 0) = NULL \/ L(t, L(t, x, 0), 1) # node THEN outer(1, y) ELSE L(t, x, 0)
    ELSE ParentBelow(t, node, L(t, x, 0), L(t, y, 1))

find_parent(t, node) == IF node = Root(t) THEN ROOT ELSE ParentBelow(t, node, node, node)

\* The loop of tavl_delete(): side d of y has become one lower.
RECURSIVE LighterUp(_, _, _)
LighterUp(t, y, d) ==
    LET q == find_parent(t, y)
        at == IF L(t, q, 0) # y THEN 1 ELSE 0
        o == 1 - d
        t1 == SetB(t, y, Bal(t, y) + Sign(o))
        x == L(t1, y, o)
    IN IF y = ROOT THEN t
       ELSE IF Bal(t1, y) = Sign(o) THEN t1
       ELSE IF Bal(t1, y) = 0 THEN LighterUp(t1, q, at)
       ELSE IF Bal(t1, x) = Sign(d)
       THEN LighterUp(SetL(RaiseInner(t1, y, o), q, at, L(t1, x, d)), q, at)
       ELSE IF Bal(t1, x) = 0 THEN SetL(RaiseEven(t1, y, o), q, at, x)
       ELSE LighterUp(SetL(Raise(t1, y, o), q, at, x), q, at)

tavl_delete(t, x) ==
    LET path == Search(t, x)
        q == path[Len(path) - 1]
        h == Heir(t, x, 1)
        t1 == ThreadUnlink(t, x, q, Side(x, q))
        t2 == IF h = NULL THEN t1 ELSE SetB(t1, h, Bal(t, x))
        lost == Last(LossPath(t, x, 1))
    IN IF Last(path) # x THEN t ELSE LighterUp(Freed(t2, x), lost[1], lost[2])

tavl_t_first(t) == ThreadEnd(t, 0)
tavl_t_last(t) == ThreadEnd(t, 1)
tavl_t_find(t, x) == ThreadFind(t, x)
tavl_t_insert(t, x) == <<tavl_probe(t, x), At(x, <<>>)>>
tavl_t_next(t, trav) == ThreadStep(t, trav, 1)
tavl_t_prev(t, trav) == ThreadStep(t, trav, 0)
tavl_destroy(t) == ThreadDestroy(t)
tavl_copy(t, left) == ThreadCopy(t, left)
=============================================================================
