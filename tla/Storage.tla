------------------------------ MODULE Storage ------------------------------
(***************************************************************************)
(* What a block cache promises its user: the device seen through it is a   *)
(* plain array of blocks, each with the number of references held on it.   *)
(* Fetching a block and giving it back change no contents; a block changes *)
(* only when a holder writes it, or when it is fetched to be overwritten   *)
(* completely (noread), which gives up its old contents.                   *)
(***************************************************************************)
EXTENDS Naturals

CONSTANTS Blocks, Data

VARIABLES content, refs

Init == content \in [Blocks -> Data] /\ refs = [b \in Blocks |-> 0]

Get(b) == refs' = [refs EXCEPT ![b] = @ + 1] /\ UNCHANGED content

GetToOverwrite(b, v) ==
  /\ refs[b] = 0
  /\ refs' = [refs EXCEPT ![b] = 1]
  /\ content' = [content EXCEPT ![b] = v]

Release(b) ==
  /\ refs[b] > 0
  /\ refs' = [refs EXCEPT ![b] = @ - 1]
  /\ UNCHANGED content

Write(b, v) ==
  /\ refs[b] > 0
  /\ content' = [content EXCEPT ![b] = v]
  /\ UNCHANGED refs

Next ==
  \E b \in Blocks :
    \/ Get(b) \/ Release(b)
    \/ \E v \in Data : Write(b, v) \/ GetToOverwrite(b, v)

Spec == Init /\ [][Next]_<< content, refs >>
=============================================================================
