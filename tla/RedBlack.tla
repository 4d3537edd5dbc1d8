------------------------------ MODULE RedBlack ------------------------------
(***************************************************************************)
(* The recolouring and rotations rb.c, trb.c, rtrb.c and prb.c of          *)
(* apps/lib/libavl have in common.  A node's colour is in its field bal.   *)
(* The code writes each case out once for each side; here the side is a    *)
(* parameter.  The lines given are those of rb.c.                          *)
(***************************************************************************)
EXTENDS BinTree

RedChild(t, p, d) == Child(t, p, d) /\ Bal(t, L(t, p, d)) = RED

Nth(pa, i) == pa[Len(pa) - i][1]
NthSide(pa, i) == pa[Len(pa) - i][2]

\* p takes the place of the link to it in the node Nth(pa, i).
Hang(t, pa, i, p) == SetL(t, Nth(pa, i), NthSide(pa, i), p)

\* The loop of X_probe(): the node below the path pa is red.
RECURSIVE Redden(_, _)
Redden(t, pa) ==
    LET p == Nth(pa, 0)
        g == Nth(pa, 1)
        d == NthSide(pa, 1)
        uncle == L(t, g, 1 - d)
        inner == NthSide(pa, 0) # d
        t1 == IF inner THEN SetL(Rotate(t, p, 1 - d), g, d, L(t, p, 1 - d)) ELSE t
        y == L(t1, g, d)
    IN IF Len(pa) < 3 \/ Bal(t, p) # RED THEN t
       ELSE IF RedChild(t, g, 1 - d)
       THEN Redden(SetB(SetB(SetB(t, p, BLACK), uncle, BLACK), g, RED),
                   SubSeq(pa, 1, Len(pa) - 2))
       ELSE Hang(Rotate(SetB(SetB(t1, g, RED), y, BLACK), g, d), pa, 2, y)

Blacken(t) == SetB(t, Root(t), BLACK)

\* The loop of X_delete() up the path pa: side Last(pa)[2] of Last(pa)[1]
\* is one black node short.
RECURSIVE Short(_, _)
Short(t, pa) ==
    LET p == Nth(pa, 0)
        d == NthSide(pa, 0)
        o == 1 - d
        w0 == L(t, p, o)
        lift == RedChild(t, p, o)
        t1 == IF lift
              THEN Hang(Rotate(SetB(SetB(t, w0, BLACK), p, RED), p, o), pa, 1, w0)
              ELSE t
        pa1 == IF lift THEN Front(pa) \o <<<<w0, d>>, <<p, d>>>> ELSE pa
        w1 == L(t1, p, o)
        near == L(t1, w1, d)
        t2 == IF RedChild(t1, w1, o) THEN t1
              ELSE SetL(Rotate(SetB(SetB(t1, near, BLACK), w1, RED), w1, d), p, o, near)
        w == L(t2, p, o)
        t3 == SetB(SetB(SetB(t2, w, Bal(t2, p)), p, BLACK), L(t2, w, o), BLACK)
    IN IF RedChild(t, p, d) THEN SetB(t, L(t, p, d), BLACK)
       ELSE IF Len(pa) < 2 THEN t
       ELSE IF ~RedChild(t1, w1, d) /\ ~RedChild(t1, w1, o)
       THEN Short(SetB(t1, w1, RED), Front(pa1))
       ELSE Hang(Rotate(t3, p, o), pa1, 1, w)
=============================================================================
