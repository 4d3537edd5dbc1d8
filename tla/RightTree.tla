----------------------------- MODULE RightTree ------------------------------
(***************************************************************************)
(* Where the right-threaded trees rtbst.c, rtavl.c and rtrb.c of           *)
(* apps/lib/libavl differ from the other threaded ones: a deleted node's   *)
(* place goes to the greatest node on its left, and the way back from a    *)
(* node without a left child is a new search.  The lines given are those   *)
(* of rtbst.c.                                                             *)
(***************************************************************************)
EXTENDS ThreadTree

\* p, the child d of q, is taken out.
RightUnlink(t, p, q, d) ==
    LET r == L(t, p, 0)
        spine == Spine(t, r, 1)
        s == Last(spine)
        above == spine[Len(spine) - 1]
        t1 == IF Child(t, s, 0) THEN SetL(t, above, 1, L(t, s, 0))
              ELSE NoChild(t, above, 1, s)
        took(t2, x) == SetT(SetL(t2, x, 1, L(t, p, 1)), x, 1, Thread(t, p, 1))
    IN IF ~Child(t, p, 0)
       THEN IF Child(t, p, 1) THEN SetL(t, q, d, L(t, p, 1))
            ELSE NoChild(t, q, d, L(t, p, d))
       ELSE IF Thread(t, r, 1) THEN SetL(took(t, r), q, d, r)
       ELSE SetL(SetL(took(t1, s), s, 0, r), q, d, s)

\* The node before x: where the search for x last turned right.
Before(t, x) ==
    LET less == SelectSeq(Search(t, x), LAMBDA p : p < x)
    IN IF less = <<>> THEN NULL ELSE Last(less)

\* X_t_next (d = 1) and X_t_prev (d = 0).
RightStep(t, trav, d) ==
    LET x == trav.node IN
    IF d = 0 /\ x # NULL /\ ~Child(t, x, 0) THEN At(Before(t, x), <<>>)
    ELSE ThreadStep(t, trav, d)
=============================================================================
