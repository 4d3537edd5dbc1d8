------------------------------ MODULE MCProcm ------------------------------
(***************************************************************************)
(* Instance of Procm for TLC: init and one boot module, and room for one   *)
(* more process; init is root, the others share a group and not a user.    *)
(***************************************************************************)
EXTENDS Procm

MCUid == [p \in Procs |-> p]
MCGid == [p \in Procs |-> IF p = 1 THEN 1 ELSE 2]

\* A malloc'ed proc_t: zeroed memory, or memory with stale contents.
MCGarbage == {<<FALSE, 0>>, <<TRUE, -1>>}

\* waitpid arguments: a process, any child, own group, group 2.
MCWaitArgs == {2, 3, -1, 0, -2}

\* Every process has a group of its own, and the allocation is zeroed.
MCGroups == [p \in Procs |-> p]
MCZero == {<<FALSE, 0>>}
=============================================================================
