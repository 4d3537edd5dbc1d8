----------------------------- MODULE FramePool -----------------------------
(***************************************************************************)
(* What the kernel expects of memphys_alloc() and memphys_free(): frames   *)
(* are handed out one at a time, each to one holder, and a frame that is   *)
(* given back may be handed out again or be kept by the pool.              *)
(***************************************************************************)
VARIABLES
  free,   \* frames that may be handed out
  held    \* frames that have been handed out

Init == free = {} /\ held = {}

\* A frame is found at boot; the pool may keep it for itself.
Found(f) == f \notin free \cup held /\ free' \in {free, free \cup {f}} /\ UNCHANGED held

Alloc(f) == f \in free /\ free' = free \ {f} /\ held' = held \cup {f}

Release(f) == f \in held /\ held' = held \ {f} /\ free' \in {free, free \cup {f}}

Next == \/ \E f \in free : Alloc(f)
        \/ \E f \in held : Release(f)
        \/ \E f \in free' \ free : Found(f)

Spec == Init /\ [][Next]_<< free, held >>
=============================================================================
