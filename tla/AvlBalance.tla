----------------------------- MODULE AvlBalance -----------------------------
(***************************************************************************)
(* The rebalancing avl.c, tavl.c, rtavl.c and pavl.c of apps/lib/libavl    *)
(* have in common.  The code writes it out once for each side; here the    *)
(* side is a parameter.  The lines given are those of avl.c.               *)
(***************************************************************************)
EXTENDS BinTree

\* The balances of x, y and w after w was raised above both.
DoubleBalance(t, x, y, w, d) ==
    [t EXCEPT !.bal[x] = IF Bal(t, w) = -Sign(d) THEN Sign(d) ELSE 0,
              !.bal[y] = IF Bal(t, w) = Sign(d) THEN -Sign(d) ELSE 0,
              !.bal[w] = 0]

\* Where the search for x last passed a node that is not balanced, the
\* second node of the path if none: only nodes from there on change.
Unbalanced(t, path) ==
    Greatest({2} \cup {i \in 2..Len(path) : Bal(t, path[i]) # 0})

\* The balances after a node was added under the path, from index i on.
Heavier(t, path, x, i) ==
    [t EXCEPT !.bal = [p \in Node |->
        IF \E j \in i..Len(path) : path[j] = p THEN @[p] + Sign(Side(x, p)) ELSE @[p]]]

\* The three ways in which y, two levels taller on side d, gets even: its
\* child x on that side is raised, and is even after it or (only when a
\* deletion made y uneven) leans back; or the inner child of x is raised.
Raise(t, y, d) == SetB(SetB(Rotate(t, y, d), L(t, y, d), 0), y, 0)
RaiseEven(t, y, d) ==
    SetB(SetB(Rotate(t, y, d), L(t, y, d), -Sign(d)), y, Sign(d))
RaiseInner(t, y, d) ==
    LET x == L(t, y, d)
    IN DoubleBalance(RotateTwice(t, y, d), x, y, L(t, x, 1 - d), d)

\* The rest of X_probe() once x has been added below the path.
Grow(t, path, x) ==
    LET i == Unbalanced(t, path)
        y == path[i]
        z == path[i - 1]
        t1 == Heavier(t, path, x, i)
        d == Side(x, y)
        c == L(t1, y, d)
        at == IF L(t1, z, 0) = y THEN 0 ELSE 1
    IN IF Bal(t1, y) \notin {-2, 2} THEN t1
       ELSE Moved(IF Bal(t1, c) = Sign(d) THEN SetL(Raise(t1, y, d), z, at, c)
                  ELSE SetL(RaiseInner(t1, y, d), z, at, L(t1, c, 1 - d)))

\* The loop of X_delete() up the path pa: side Last(pa)[2] of Last(pa)[1]
\* has become one lower.
RECURSIVE Lighter(_, _)
Lighter(t, pa) ==
    LET y == Last(pa)[1]
        d == Last(pa)[2]
        o == 1 - d
        t1 == SetB(t, y, Bal(t, y) + Sign(o))
        x == L(t1, y, o)
        w == L(t1, x, d)
        above == Front(pa)
        hang(t2, p) == SetL(t2, Last(above)[1], Last(above)[2], p)
    IN IF Len(pa) = 1 THEN t
       ELSE IF Bal(t1, y) = Sign(o) THEN t1
       ELSE IF Bal(t1, y) = 0 THEN Lighter(t1, above)
       ELSE IF Bal(t1, x) = Sign(d)
       THEN Lighter(hang(RaiseInner(t1, y, o), w), above)
       ELSE IF Bal(t1, x) = 0 THEN hang(RaiseEven(t1, y, o), x)
       ELSE Lighter(hang(Raise(t1, y, o), x), above)
=============================================================================
