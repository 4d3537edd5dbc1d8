----------------------------- MODULE ThreadTree -----------------------------
(***************************************************************************)
(* What the threaded trees of apps/lib/libavl share: a link with no child  *)
(* is a thread to the node before or after in order, so a traverser is     *)
(* just a node.  In tbst.c, tavl.c and trb.c both links can be threads, in *)
(* rtbst.c, rtavl.c and rtrb.c the right one.  The lines given are those   *)
(* of tbst.c.                                                              *)
(***************************************************************************)
EXTENDS BinTree

\* x is added as the child d of p, its own links threads.
Attach(t, p, d, x) ==
    LET to(s) == IF p = ROOT THEN NULL ELSE IF s = d THEN L(t, p, d) ELSE p
        n == NoChild(NoChild(t, x, 0, to(0)), x, 1, to(1))
    IN SetL(SetT(n, p, d, FALSE), p, d, x)

\* The thread from the greatest node on the left side of p leads to s.
Rethread(t, p, s) ==
    IF Child(t, p, 0) THEN SetL(t, Extreme(t, L(t, p, 0), 1), 1, s) ELSE t

\* p, the child d of q, is taken out of a tree with threads on both sides.
ThreadUnlink(t, p, q, d) ==
    LET r == L(t, p, 1)
        spine == Spine(t, r, 0)
        s == Last(spine)
        above == spine[Len(spine) - 1]
        t1 == IF Child(t, s, 1) THEN SetL(t, above, 0, L(t, s, 1))
              ELSE SetT(SetL(t, above, 0, s), above, 0, TRUE)
        t2 == Rethread(SetT(t1, s, 1, FALSE), p, s)
    IN IF ~Child(t, p, 1) /\ Child(t, p, 0)
       THEN SetL(Rethread(t, p, L(t, p, 1)), q, d, L(t, p, 0))
       ELSE IF ~Child(t, p, 1)
       THEN SetT(SetL(t, q, d, L(t, p, d)), q, d, q # ROOT)
       ELSE IF ~Child(t, r, 0)
       THEN SetL(SetT(SetL(Rethread(t, p, r), r, 0, L(t, p, 0)),
                      r, 0, Thread(t, p, 0)), q, d, r)
       ELSE SetL(SetT([t2 EXCEPT !.link[s] = <<L(t, p, 0), r>>],
                      s, 0, Thread(t, p, 0)), q, d, s)

ThreadEnd(t, d) ==
    IF Root(t) = NULL THEN TravNull ELSE At(Extreme(t, Root(t), d), <<>>)
ThreadFind(t, x) == IF Found(t, x) THEN At(x, <<>>) ELSE TravNull
ThreadStep(t, trav, d) ==
    LET x == trav.node IN
    IF x = NULL THEN ThreadEnd(t, 1 - d)
    ELSE IF Thread(t, x, d) THEN At(L(t, x, d), <<>>)
    ELSE At(Extreme(t, L(t, x, d), 1 - d), <<>>)

\* X_destroy: from p on in order; a walk through a JUNK or freed node ends.
RECURSIVE FreeFrom(_, _, _)
FreeFrom(t, p, freed) ==
    IF p = NULL THEN freed
    ELSE IF p \in {JUNK, ROOT} \cup ToSet(freed) THEN Append(freed, JUNK)
    ELSE LET n == L(t, p, 1)
         IN FreeFrom(t, IF Thread(t, p, 1) THEN n ELSE Extreme(t, n, 0), Append(freed, p))

ThreadDestroy(t) ==
    IF Root(t) = NULL THEN <<>> ELSE FreeFrom(t, Extreme(t, Root(t), 0), <<>>)

\* A copy in progress: ROOT of the new tree is the temporary node the code
\* hangs it from, with a right link that is never written.
CopyStart(t, left) ==
    [Copying(t, left) EXCEPT !.new.link[ROOT] = <<NULL, JUNK>>,
                             !.new.tag[ROOT] = <<0 \in t.threads, FALSE>>]

\* A new node for x under dst on side d.  It fails at once if no node can be
\* allocated (c.left = 0), and with the node linked if the copy function does
\* (c.left = 1).
copy_node(t, c, dst, d, x) ==
    LET to(s) == IF s = d THEN L(c.new, dst, d) ELSE dst
        n == SetB(NoChild(NoChild(c.new, x, 0, to(0)), x, 1, to(1)), x, Bal(t, x))
    IN IF c.left = 0 THEN c
       ELSE [c EXCEPT !.new = SetL(SetT(n, dst, d, FALSE), dst, d, x),
                      !.got = @ \cup {x}, !.data = @ \cup {x}, !.left = @ - 2]
NodeFails(c) == c.left \in {0, 1}

\* The finished tree, hung from its table.
Hung(new) == [new EXCEPT !.link[ROOT][2] = NULL, !.tag[ROOT] = <<FALSE, FALSE>>]

\* The thread of the greatest node leads to the temporary node; it is made
\* NULL first.
copy_error_recovery(c) ==
    LET h == Hung(c.new)
        new == IF Root(h) = NULL THEN h ELSE SetL(h, Extreme(h, Root(h), 1), 1, NULL)
    IN Failed([c EXCEPT !.new = new], ThreadDestroy(new))

\* Along the threads, in the old tree from p and in the new one from q, to
\* the next right child.
RECURSIVE Climb(_, _, _, _)
Climb(t, new, p, q) ==
    IF ~Thread(t, p, 1) THEN <<L(t, p, 1), L(new, q, 1)>>
    ELSE IF L(t, p, 1) = NULL THEN <<NULL, q>>
    ELSE Climb(t, new, L(t, p, 1), L(new, q, 1))

\* The loop of X_copy: q is the copy of p, whose left side is not copied.
RECURSIVE CopyLoop(_, _, _, _)
CopyLoop(t, c, p, q) ==
    LET left == p = ROOT \/ Child(t, p, 0)
        c1 == IF left THEN copy_node(t, c, q, 0, L(t, p, 0)) ELSE c
        to == IF left THEN <<L(t, p, 0), L(c1.new, q, 0)>> ELSE Climb(t, c.new, p, q)
        right == Child(t, to[1], 1)
        c2 == IF right THEN copy_node(t, c1, to[2], 1, L(t, to[1], 1)) ELSE c1
    IN IF left /\ NodeFails(c) THEN copy_error_recovery(c1)
       ELSE IF to[1] = NULL THEN Copied([c EXCEPT !.new = Hung(SetL(@, to[2], 1, NULL))])
       ELSE IF right /\ NodeFails(c1) THEN copy_error_recovery(c2)
       ELSE CopyLoop(t, c2, to[1], to[2])

ThreadCopy(t, left) ==
    IF Root(t) = NULL THEN Copied(Copying(t, left))
    ELSE CopyLoop(t, CopyStart(t, left), ROOT, ROOT)
=============================================================================
