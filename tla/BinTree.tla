------------------------------- MODULE BinTree -------------------------------
(***************************************************************************)
(* What the twelve tree libraries of apps/lib/libavl have in common: a     *)
(* heap of nodes with two links each, and the walks over it.               *)
(*                                                                         *)
(* A node is named by its item, an item by its rank in the tree's          *)
(* comparison order, so `compare' is > on naturals.  ROOT is the pseudo    *)
(* node at &tree->X_root whose link 0 is the root.  It is greater than     *)
(* every item, so the search from it always goes to side 0.                *)
(*                                                                         *)
(* A tree is a record of the node fields, each a function of the node:     *)
(*   link    X_link[2], a node or NULL;                                    *)
(*   tag     X_tag[2] (threaded trees; tag[1] is X_rtag in right-threaded  *)
(*           ones), TRUE for X_THREAD;                                     *)
(*   bal     X_balance, or X_color with BLACK = 0 and RED = 1;             *)
(*   parent  X_parent;                                                     *)
(*   moved   the step incremented X_generation;                            *)
(*   threads, parents   what the node type has: the sides that may be      *)
(*           threads, and whether there is an X_parent.                    *)
(* The fields of a node not in the tree have their value in the empty one. *)
(* X_count is the number of nodes.                                         *)
(***************************************************************************)
EXTENDS Integers, Sequences, FiniteSets, SequencesExt

CONSTANT N          \* items are 1..N

ASSUME BinTreeAssumption == N \in Nat \ {0}

NULL == 0
ROOT == N + 1
Items == 1..N
Node == 1..N+1
BLACK == 0
RED == 1

Empty(threads, parents) ==
    [link |-> [p \in Node |-> <<NULL, NULL>>],
     tag |-> [p \in Node |-> <<FALSE, FALSE>>],
     bal |-> [p \in Node |-> 0],
     parent |-> [p \in Node |-> NULL],
     moved |-> FALSE, threads |-> threads, parents |-> parents]

\* X_link[d] and X_tag[d] of p; sides are 0 and 1.
L(t, p, d) == t.link[p][d + 1]
Thread(t, p, d) == t.tag[p][d + 1]
Child(t, p, d) == ~Thread(t, p, d) /\ L(t, p, d) # NULL
Bal(t, p) == t.bal[p]
Par(t, p) == t.parent[p]

SetL(t, p, d, x) == [t EXCEPT !.link[p][d + 1] = x]
SetT(t, p, d, b) == [t EXCEPT !.tag[p][d + 1] = b]
SetB(t, p, b) == [t EXCEPT !.bal[p] = b]
SetP(t, p, q) == IF t.parents /\ p # NULL THEN [t EXCEPT !.parent[p] = q] ELSE t
Moved(t) == [t EXCEPT !.moved = TRUE]

\* The storage of p is freed.
Freed(t, p) == [t EXCEPT !.link[p] = <<NULL, NULL>>, !.tag[p] = <<FALSE, FALSE>>,
                         !.bal[p] = 0, !.parent[p] = NULL]

\* Link d of p, which leads to no child any more, is a thread to q or NULL.
NoChild(t, p, d, q) ==
    IF d \in t.threads THEN SetT(SetL(t, p, d, q), p, d, TRUE) ELSE SetL(t, p, d, NULL)

Side(x, p) == IF x > p THEN 1 ELSE 0
Sign(d) == IF d = 0 THEN -1 ELSE 1

\* The nodes a search for x passes, from ROOT to x or to the leaf below
\* which x belongs.
RECURSIVE Walk(_, _, _)
Walk(t, x, path) ==
    LET p == Last(path) IN
    IF p = x \/ ~Child(t, p, Side(x, p)) THEN path
    ELSE Walk(t, x, Append(path, L(t, p, Side(x, p))))

Search(t, x) == Walk(t, x, <<ROOT>>)
Found(t, x) == Last(Search(t, x)) = x

\* The nodes from p down along side d.
RECURSIVE Spine(_, _, _)
Spine(t, p, d) == IF Child(t, p, d) THEN <<p>> \o Spine(t, L(t, p, d), d) ELSE <<p>>
Extreme(t, p, d) == Last(Spine(t, p, d))

\* The node that takes the place of p when p is deleted: the nearest to it on
\* its side d, NULL if it has none.
Heir(t, p, d) == IF Child(t, p, d) THEN Extreme(t, L(t, p, d), 1 - d) ELSE NULL

\* The arrays pa[] and da[] once p is taken out: the nodes from ROOT down to
\* where the tree lost a level, each with the side on which.
LossPath(t, p, d) ==
    LET above == Front(Search(t, p))
        sides == [i \in DOMAIN above |-> <<above[i], Side(p, above[i])>>]
        spine == Front(Spine(t, L(t, p, d), 1 - d))
    IN IF Heir(t, p, d) = NULL THEN sides
       ELSE Append(sides, <<Heir(t, p, d), d>>)
            \o [i \in DOMAIN spine |-> <<spine[i], 1 - d>>]

\* x, the link d of y, is raised above y, which takes over the inner child of
\* x; if there is none, the thread there becomes the link to y.
Rotate(t, y, d) ==
    LET x == L(t, y, d)
        inner == L(t, x, 1 - d)
        t1 == IF Child(t, x, 1 - d) THEN SetP(SetL(t, y, d, inner), inner, y)
              ELSE NoChild(SetT(t, x, 1 - d, FALSE), y, d, x)
    IN SetP(SetP(SetL(t1, x, 1 - d, y), x, Par(t, y)), y, x)

\* The inner child w of x, the link d of y, is raised above both.
RotateTwice(t, y, d) ==
    LET x == L(t, y, d)
        w == L(t, x, 1 - d)
    IN Rotate(SetL(Rotate(t, x, 1 - d), y, d, w), y, d)

RECURSIVE InOrder(_, _)
InOrder(t, p) ==
    IF p = NULL THEN <<>>
    ELSE (IF Child(t, p, 0) THEN InOrder(t, L(t, p, 0)) ELSE <<>>) \o <<p>>
         \o (IF Child(t, p, 1) THEN InOrder(t, L(t, p, 1)) ELSE <<>>)

Root(t) == L(t, ROOT, 0)
Contents(t) == ToSet(InOrder(t, Root(t)))

RECURSIVE Height(_, _)
Height(t, p) ==
    IF p = NULL THEN 0
    ELSE LET below(d) == IF Child(t, p, d) THEN Height(t, L(t, p, d)) ELSE 0
         IN 1 + (IF below(0) > below(1) THEN below(0) ELSE below(1))
Depth(t, p, d) == IF Child(t, p, d) THEN Height(t, L(t, p, d)) ELSE 0

\* Red nodes' children are black, and every path down from p passes the
\* same number of black nodes, which is this value; -1 if not.
RECURSIVE BlackHeight(_, _)
BlackHeight(t, p) ==
    LET below(d) == IF Child(t, p, d) THEN BlackHeight(t, L(t, p, d)) ELSE 0
        redChild(d) == Child(t, p, d) /\ Bal(t, L(t, p, d)) = RED
    IN IF \/ below(0) = -1 \/ below(0) # below(1)
          \/ Bal(t, p) = RED /\ (redChild(0) \/ redChild(1))
       THEN -1
       ELSE below(0) + (IF Bal(t, p) = BLACK THEN 1 ELSE 0)

Greatest(S) == CHOOSE x \in S : \A y \in S : y <= x
Least(S) == CHOOSE x \in S : \A y \in S : x <= y

\* The highest bit of n, what clearing the lowest bit again and again leaves.
RECURSIVE HighBit(_)
HighBit(n) == IF n <= 1 THEN n ELSE 2 * HighBit(n \div 2)

(***************************************************************************)
(* X_traverser: the current node and, in the trees without threads or      *)
(* parent links, the stack of its ancestors; `stale' when its generation   *)
(* is not the tree's.  A stale stack is never read (trav_refresh and       *)
(* X_t_copy both test the generation first), so it is kept empty.          *)
(***************************************************************************)
At(x, stack) == [node |-> x, stack |-> stack, stale |-> FALSE]
Stale(x) == [node |-> x, stack |-> <<>>, stale |-> x # NULL]
TravNull == At(NULL, <<>>)

\* All nodes of the path between ROOT and the last.
Ancestors(path) == SubSeq(path, 2, Len(path) - 1)

\* Down the tree from x along side d, pushing what is left behind.
DownFrom(t, x, d, stack) ==
    LET s == Spine(t, x, d) IN At(Last(s), stack \o Front(s))

\* Up the stack while x is the link d of the node above.
RECURSIVE UpFrom(_, _, _, _)
UpFrom(t, x, d, stack) ==
    IF stack = <<>> THEN TravNull
    ELSE IF L(t, Last(stack), d) = x THEN UpFrom(t, Last(stack), d, Front(stack))
    ELSE At(Last(stack), Front(stack))

(***************************************************************************)
(* X_copy: the new tree's node for p is again called p.  JUNK is the       *)
(* content of a field of a freshly allocated node that was not written.    *)
(* `left' counts down to the allocation or the copy function call that     *)
(* fails.                                                                  *)
(***************************************************************************)
JUNK == -1

Fresh(c, p) == [c EXCEPT !.new.link[p] = <<JUNK, JUNK>>, !.new.bal[p] = JUNK,
                         !.new.parent[p] = JUNK, !.got = @ \cup {p}, !.left = @ - 1]
Copying(t, left) == [new |-> Empty(t.threads, t.parents), got |-> {}, data |-> {}, left |-> left]

\* What X_copy returned: the new tree, or NULL after X_destroy has freed the
\* nodes in `freed', in that order.  `got' are the nodes that were allocated
\* and `data' those whose X_data was written.
Copied(c) == [is |-> "copied", new |-> c.new, got |-> c.got, freed |-> <<>>, data |-> c.data]
Failed(c, freed) ==
    [is |-> "failed", new |-> c.new, got |-> c.got, freed |-> freed, data |-> c.data]
=============================================================================
