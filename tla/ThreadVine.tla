----------------------------- MODULE ThreadVine -----------------------------
(***************************************************************************)
(* The balancing tbst.c and rtbst.c of apps/lib/libavl have in common.     *)
(* The lines given are those of tbst.c.                                    *)
(***************************************************************************)
EXTENDS ThreadTree

\* From the least node p on, each node becomes the left child of the next.
RECURSIVE Vine(_, _)
Vine(t, p) ==
    LET q == ThreadStep(t, At(p, <<>>), 1).node
        t1 == SetL(SetT(t, p, 1, TRUE), p, 1, q)
    IN IF q = NULL THEN SetL(t1, ROOT, 0, p)
       ELSE Vine(SetL(SetT(t1, q, 0, FALSE), q, 0, p), q)

tree_to_vine(t) == IF Root(t) = NULL THEN t ELSE Vine(t, Extreme(t, Root(t), 0))

RECURSIVE compress(_, _, _, _)
compress(t, root, nonthread, thread) ==
    LET red == L(t, root, 0)
        black == L(t, red, 0)
        t1 == SetL(t, root, 0, black)
    IN IF nonthread + thread = 0 THEN t
       ELSE IF nonthread > 0
       THEN compress(SetL(SetL(t1, red, 0, L(t, black, 1)), black, 1, red),
                     black, nonthread - 1, thread)
       ELSE compress(SetT(NoChild(t1, red, 0, black), black, 1, FALSE),
                     black, 0, thread - 1)

RECURSIVE Halve(_, _)
Halve(t, vine) ==
    IF vine <= 1 THEN t ELSE Halve(compress(t, ROOT, vine \div 2, 0), vine \div 2)

\* The second pass has the nodes the first one filled, then threaded ones.
vine_to_tree(t) ==
    LET count == Cardinality(Contents(t))
        leaves == count + 1 - HighBit(count + 1)
        t1 == compress(t, ROOT, 0, leaves)
        half == (count - leaves) \div 2
        filled == IF leaves \div 2 > half THEN half ELSE leaves \div 2
        t2 == IF leaves \div 2 > half THEN compress(t1, ROOT, half, 0)
              ELSE compress(t1, ROOT, filled, half - filled)
    IN IF count - leaves <= 1 THEN t1 ELSE Halve(t2, half)
=============================================================================
