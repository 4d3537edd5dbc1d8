------------------------------- MODULE Table --------------------------------
(***************************************************************************)
(* What a table of apps/lib/libavl promises, whichever tree it is kept in: *)
(* a set of items and traversers that walk it in order, however the set    *)
(* changes under them, as long as the item they are at stays.              *)
(***************************************************************************)
EXTENDS Integers

CONSTANT N

VARIABLES set,      \* the items
          cur       \* the item a traverser is at, 0 for none

vars == <<set, cur>>

Items == 1..N

\* The item before or after x; from no item, the last or the first one.
Greatest(S) == IF S = {} THEN 0 ELSE CHOOSE x \in S : \A y \in S : y <= x
Least(S) == IF S = {} THEN 0 ELSE CHOOSE x \in S : \A y \in S : x <= y
After(S, x) == Least({y \in S : y > x})
Before(S, x) == Greatest({y \in S : x = 0 \/ y < x})

Init == set = {} /\ cur = 0

Insert(x) == set' = set \cup {x} /\ cur' \in {cur, x}
Delete(x) == x # cur /\ set' = set \ {x} /\ UNCHANGED cur
Find(x) == cur' = (IF x \in set THEN x ELSE 0) /\ UNCHANGED set

Next == cur' = After(set, cur) /\ UNCHANGED set
Prev == cur' = Before(set, cur) /\ UNCHANGED set
First == cur' = Least(set) /\ UNCHANGED set
LastItem == cur' = Greatest(set) /\ UNCHANGED set

\* X_t_init, and a traversing insertion that finds no memory.
Reset == cur' = 0 /\ UNCHANGED set

Step == \/ \E x \in Items : Insert(x) \/ Delete(x) \/ Find(x)
        \/ Next \/ Prev \/ First \/ LastItem \/ Reset

Spec == Init /\ [][Step]_vars
=============================================================================
