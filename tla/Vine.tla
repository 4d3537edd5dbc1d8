-------------------------------- MODULE Vine --------------------------------
(***************************************************************************)
(* The balancing bst.c and pbst.c of apps/lib/libavl have in common: the   *)
(* tree becomes a vine of left links, which is folded up level by level.   *)
(* The lines given are those of bst.c.                                     *)
(***************************************************************************)
EXTENDS BinTree

RECURSIVE Vine(_, _, _)
Vine(t, q, p) ==
    IF p = NULL THEN t
    ELSE LET r == L(t, p, 1) IN
         IF r = NULL THEN Vine(t, p, L(t, p, 0))
         ELSE Vine(SetL(SetL(SetL(t, p, 1, L(t, r, 0)), r, 0, p), q, 0, r), q, r)

tree_to_vine(t) == Vine(t, ROOT, Root(t))

RECURSIVE compress(_, _, _)
compress(t, root, count) ==
    LET red == L(t, root, 0)
        black == L(t, red, 0)
    IN IF count = 0 THEN t
       ELSE compress(SetL(SetL(SetL(t, root, 0, black), red, 0, L(t, black, 1)),
                          black, 1, red), black, count - 1)

RECURSIVE Halve(_, _)
Halve(t, vine) ==
    IF vine <= 1 THEN t ELSE Halve(compress(t, ROOT, vine \div 2), vine \div 2)

\* Mutant: the lowest level is counted without the node that completes it.
vine_to_tree_off(t) ==
    LET count == Cardinality(Contents(t))
        leaves == count - HighBit(count)
    IN Halve(compress(t, ROOT, leaves), count - leaves)

vine_to_tree(t) ==
    LET count == Cardinality(Contents(t))
        leaves == count + 1 - HighBit(count + 1)
    IN Halve(compress(t, ROOT, leaves), count - leaves)
=============================================================================
