----------------------------- MODULE ParentTree -----------------------------
(***************************************************************************)
(* What pbst.c, pavl.c and prb.c of apps/lib/libavl share: nodes know      *)
(* their parent, NULL for the root.  The lines given are those of pbst.c.  *)
(***************************************************************************)
EXTENDS BinTree

\* X_param of a table, which lies where a node has its X_parent, is not NULL.
CONSTANT ParamSet

\* The parent of p, or the table's pseudo node.
Up(t, p) == IF Par(t, p) = NULL THEN ROOT ELSE Par(t, p)

\* The nodes above p by their parent links, each with the side p is on.
RECURSIVE Above(_, _)
Above(t, p) ==
    LET q == Up(t, p)
        d == IF L(t, q, 0) = p THEN 0 ELSE 1
    IN IF q = ROOT THEN <<<<ROOT, d>>>> ELSE Append(Above(t, q), <<q, d>>)

Attach(t, q, d, x) == SetP(SetL(t, q, d, x), x, IF q = ROOT THEN NULL ELSE q)

\* p, the child d of q, is taken out.
Unlink(t, p, q, d) ==
    LET r == L(t, p, 1)
        s == Extreme(t, r, 0)
        above == Par(t, s)
        hung(t1, x) == SetP(SetL(t1, q, d, x), x, Par(t, p))
        left(t1, x) == SetP(SetL(t1, x, 0, L(t, p, 0)), L(t, p, 0), x)
        t2 == SetP(SetL(t, above, 0, L(t, s, 1)), L(t, s, 1), above)
    IN IF r = NULL THEN hung(t, L(t, p, 0))
       ELSE IF L(t, r, 0) = NULL THEN left(hung(t, r), r)
       ELSE left(hung(SetP(SetL(t2, s, 1, r), r, s), s), s)

\* Where the tree lost a level when p was taken out, and on which side.
Lost(t, p) ==
    LET r == L(t, p, 1) IN
    IF r = NULL THEN Last(Above(t, p))
    ELSE IF L(t, r, 0) = NULL THEN <<r, 1>> ELSE <<Par(t, Extreme(t, r, 0)), 0>>

\* The way up from there, in the tree t without p.
LostPath(t, lost) ==
    IF lost[1] = ROOT THEN <<lost>> ELSE Append(Above(t, lost[1]), lost)

ParentEnd(t, d) ==
    IF Root(t) = NULL THEN TravNull ELSE At(Extreme(t, Root(t), d), <<>>)
ParentFind(t, x) == IF Found(t, x) THEN At(x, <<>>) ELSE TravNull

\* The first node above p that has p on its other side than d.
RECURSIVE Climb(_, _, _)
Climb(t, p, d) ==
    LET q == Par(t, p) IN IF q = NULL \/ L(t, q, 1 - d) = p THEN q ELSE Climb(t, q, d)

\* X_t_next (d = 1) and X_t_prev (d = 0).
ParentStep(t, trav, d) ==
    LET x == trav.node IN
    IF x = NULL THEN ParentEnd(t, 1 - d)
    ELSE IF L(t, x, d) = NULL THEN At(Climb(t, x, d), <<>>)
    ELSE At(Extreme(t, L(t, x, d), 1 - d), <<>>)

\* X_destroy frees the nodes from p on, rotating left children up.
RECURSIVE FreeAll(_, _, _)
FreeAll(t, p, freed) ==
    IF p = NULL THEN freed
    ELSE IF p = JUNK \/ L(t, p, 0) = JUNK THEN Append(freed, JUNK)
    ELSE IF L(t, p, 0) = NULL
    THEN FreeAll([t EXCEPT !.link[p] = <<JUNK, JUNK>>], L(t, p, 1), Append(freed, p))
    ELSE LET q == L(t, p, 0)
         IN FreeAll(SetL(SetL(t, p, 0, L(t, q, 1)), q, 1, p), q, freed)

ParentDestroy(t) == FreeAll(t, Root(t), <<>>)

\* A copy in progress; the parent of its root is the pseudo node until the
\* end, and the parent of that is what lies there.
CopyStart(t, left) ==
    [Copying(t, left) EXCEPT !.new.parent[ROOT] = IF ParamSet THEN JUNK ELSE NULL]

\* The right links above q that are not written yet are set to NULL.
RECURSIVE Sealed(_, _)
Sealed(new, q) ==
    LET up == new.parent[q] IN
    IF up \in {NULL, JUNK} THEN new
    ELSE Sealed(IF L(new, up, 0) = q THEN SetL(new, up, 1, NULL) ELSE new, up)

\* The climb ends at a NULL parent; past the pseudo node it is X_param.
copy_error_recovery(c, y) ==
    LET new == Sealed(c.new, y) IN
    Failed([c EXCEPT !.new = new],
           IF ParamSet THEN <<JUNK>> ELSE ParentDestroy(new))

\* The loop of X_copy at node x and its copy y: down the left side, then,
\* `up', with the left side done.
RECURSIVE CopyLoop(_, _, _, _, _)
CopyLoop(t, c, x, y, up) ==
    LET l == L(t, x, 0)
        r == L(t, x, 1)
        none(e, d) == [e EXCEPT !.new = SetL(@, y, d, NULL)]
        noData(e) == IF y = ROOT THEN e ELSE none([e EXCEPT !.data = @ \cup {y}], 1)
        link(e, d, z) == [Fresh([e EXCEPT !.new = SetL(@, y, d, z)], z)
                          EXCEPT !.new.parent[z] = y]
        copied == [c EXCEPT !.new = SetB(@, y, Bal(t, x)), !.data = @ \cup {y},
                            !.left = @ - 1]
        x1 == Climb(t, x, 1)
        done == none(copied, 1)
    IN CASE ~up /\ l = NULL -> CopyLoop(t, none(c, 0), x, y, TRUE)
         [] ~up /\ l # NULL /\ c.left = 0 -> copy_error_recovery(noData(none(c, 0)), y)
         [] ~up /\ l # NULL /\ c.left # 0 -> CopyLoop(t, link(c, 0, l), l, l, FALSE)
         [] up /\ c.left = 0 -> copy_error_recovery(noData(c), y)
         [] up /\ c.left # 0 /\ r # NULL ->
               IF copied.left = 0 THEN copy_error_recovery(done, y)
               ELSE CopyLoop(t, link(copied, 1, r), r, r, FALSE)
         [] up /\ c.left # 0 /\ r = NULL ->
               IF x1 = NULL
               THEN Copied([done EXCEPT !.new.parent = [@ EXCEPT ![Root(c.new)] = NULL,
                                                                 ![ROOT] = NULL]])
               ELSE CopyLoop(t, done, x1, Climb(c.new, y, 1), TRUE)

ParentCopy(t, left) ==
    IF Root(t) = NULL THEN Copied(Copying(t, left))
    ELSE CopyLoop(t, CopyStart(t, left), ROOT, ROOT, FALSE)
=============================================================================
