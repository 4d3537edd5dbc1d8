----------------------------- MODULE PlainTree ------------------------------
(***************************************************************************)
(* What bst.c, avl.c and rb.c of apps/lib/libavl share: nodes with two     *)
(* links only, traversers with a stack of ancestors, and the copy and the  *)
(* destruction of a tree.  The lines given are those of avl.c.             *)
(***************************************************************************)
EXTENDS BinTree

\* The links after p, the link d of q, is taken out: its place goes to its
\* left child, to its right child r if that has no left child, else to the
\* least node s below r.
Unlink(t, p, q, d) ==
    LET r == L(t, p, 1)
        spine == Spine(t, r, 0)
        s == Last(spine)
        above == spine[Len(spine) - 1]
    IN IF r = NULL THEN SetL(t, q, d, L(t, p, 0))
       ELSE IF L(t, r, 0) = NULL
       THEN SetL(SetL(t, r, 0, L(t, p, 0)), q, d, r)
       ELSE LET t1 == SetL(t, above, 0, L(t, s, 1))
            IN SetL([t1 EXCEPT !.link[s] = t1.link[p]], q, d, s)

trav_refresh(t, trav) ==
    IF trav.stale THEN At(trav.node, Ancestors(Search(t, trav.node))) ELSE trav

\* X_t_first (d = 0) and X_t_last (d = 1).
PlainEnd(t, d) == IF Root(t) = NULL THEN TravNull ELSE DownFrom(t, Root(t), d, <<>>)

PlainFind(t, x) ==
    IF Found(t, x) THEN At(x, Ancestors(Search(t, x))) ELSE TravNull

\* X_t_next (d = 1) and X_t_prev (d = 0).
PlainStep(t, old, d) ==
    LET trav == trav_refresh(t, old)
        x == trav.node
    IN IF x = NULL THEN PlainEnd(t, 1 - d)
       ELSE IF L(t, x, d) # NULL
       THEN DownFrom(t, L(t, x, d), 1 - d, Append(trav.stack, x))
       ELSE UpFrom(t, x, d, trav.stack)

\* X_destroy: frees the nodes from p on, rotating left children up.  A JUNK
\* link ends it: there is no telling what follows.
RECURSIVE FreeAll(_, _, _)
FreeAll(t, p, freed) ==
    IF p = NULL THEN freed
    ELSE IF p = JUNK \/ L(t, p, 0) = JUNK THEN Append(freed, JUNK)
    ELSE IF L(t, p, 0) = NULL
    THEN FreeAll([t EXCEPT !.link[p] = <<JUNK, JUNK>>], L(t, p, 1), Append(freed, p))
    ELSE LET q == L(t, p, 0)
         IN FreeAll(SetL(SetL(t, p, 0, L(t, q, 1)), q, 1, p), q, freed)

PlainDestroy(t) == FreeAll(t, Root(t), <<>>)

\* Mutant: the right links are left as they are.
copy_error_recovery_none(c, stack) == Failed(c, PlainDestroy(c.new))

\* The right links of the nodes on the stack are set to NULL, but ROOT's.
copy_error_recovery(c, stack) ==
    LET null(t, p) == IF p = ROOT THEN t ELSE SetL(t, p, 1, NULL)
        new == FoldLeft(null, c.new, stack)
    IN Failed([c EXCEPT !.new = new], PlainDestroy(new))

\* The loop of X_copy at node x: on the way down its left side and then,
\* `up', with its left side done.
RECURSIVE CopyLoop(_, _, _, _, _, _)
CopyLoop(t, c, x, stack, up, limit) ==
    LET l == L(t, x, 0)
        r == L(t, x, 1)
        noLeft(e) == [e EXCEPT !.new = SetL(@, x, 0, NULL)]
        noRight(e) == [e EXCEPT !.new = SetL(@, x, 1, NULL)]
        noData(e) == [e EXCEPT !.data = @ \cup {x}]
        link(e, d, y) == Fresh([e EXCEPT !.new = SetL(@, x, d, y)], y)
        copied == [c EXCEPT !.new = SetB(@, x, Bal(t, x)), !.data = @ \cup {x},
                            !.left = @ - 1]
    IN CASE ~up /\ l = NULL -> CopyLoop(t, noLeft(c), x, stack, TRUE, limit)
         [] ~up /\ l # NULL /\ Len(stack) >= limit ->
               [copy_error_recovery(noData(noLeft(noRight(c))), stack)
                EXCEPT !.is = "too tall"]
         [] ~up /\ l # NULL /\ Len(stack) < limit /\ c.left = 0 ->
               copy_error_recovery(IF x = ROOT THEN noLeft(c)
                                   ELSE noData(noLeft(noRight(c))), stack)
         [] ~up /\ l # NULL /\ Len(stack) < limit /\ c.left # 0 ->
               CopyLoop(t, link(c, 0, l), l, Append(stack, x), FALSE, limit)
         [] up /\ c.left = 0 -> copy_error_recovery(noData(noRight(c)), stack)
         [] up /\ c.left # 0 /\ r # NULL ->
               IF copied.left = 0 THEN copy_error_recovery(noRight(copied), stack)
               ELSE CopyLoop(t, link(copied, 1, r), r, stack, FALSE, limit)
         [] up /\ c.left # 0 /\ r = NULL ->
               IF Len(stack) <= 1 THEN Copied(noRight(copied))
               ELSE CopyLoop(t, noRight(copied), Last(stack), Front(stack), TRUE, limit)

PlainCopy(t, left, limit) ==
    IF Root(t) = NULL THEN Copied(Copying(t, left))
    ELSE CopyLoop(t, Copying(t, left), ROOT, <<>>, FALSE, limit)
=============================================================================
