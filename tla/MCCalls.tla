------------------------------ MODULE MCCalls -------------------------------
(***************************************************************************)
(* Two instances of Rpc for TLC, one of which runs: "server", one server   *)
(* of two functions, the second called without waiting, and an upcall that *)
(* may wake it; and "chain", where the handler of open calls stat, which   *)
(* another process serves.                                                 *)
(***************************************************************************)
EXTENDS Integers

CONSTANTS open, stat

VARIABLES part, sched, rpc_functions, calls, current, pc, vcall, error, ret,
          id, serving, ran, upcalls

rpc == << sched, rpc_functions, calls, current, pc, vcall, error, ret, id,
          serving, ran, upcalls >>

MCOneServer == [x \in {open, stat} |-> 1]
MCNoNeeds   == [x \in {open, stat} |-> 0]
MCClients   == [p \in 1..3 |-> IF p = 1 THEN 0 ELSE 1]

MCChain      == [x \in {open, stat} |-> IF x = open THEN 1 ELSE 2]
MCChainNeeds == [x \in {open, stat} |-> IF x = open THEN stat ELSE 0]
MCChainReqs  == [p \in 1..4 |-> IF p = 1 THEN 2 ELSE IF p = 2 THEN 0 ELSE 1]

\* func->current in fresh memory: zeros, or a wild pointer.
MCStale == {[caller |-> c, req |-> << 0, 0 >>, noret |-> FALSE] : c \in {0, -1}}

S == INSTANCE Rpc WITH MAXPROC <- 3, CLOCK_MAX <- 3, Funcs <- {open, stat},
       Owner <- MCOneServer, Needs <- MCNoNeeds, NoRet <- {stat}, Stale <- MCStale,
       RPC_TRIES_MAXNUM <- 2, MaxReq <- MCClients, MAXUPCALLS <- 1
C == INSTANCE Rpc WITH MAXPROC <- 4, CLOCK_MAX <- 3, Funcs <- {open, stat},
       Owner <- MCChain, Needs <- MCChainNeeds, NoRet <- {}, Stale <- MCStale,
       RPC_TRIES_MAXNUM <- 2, MaxReq <- MCChainReqs, MAXUPCALLS <- 0

Init == \/ part = "server" /\ S!Init
        \/ part = "chain" /\ C!Init

Next == \/ part = "server" /\ S!Next /\ UNCHANGED part
        \/ part = "chain" /\ C!Next /\ UNCHANGED part

Spec == Init /\ [][Next]_<< part, rpc >>

-----------------------------------------------------------------------------
\* The properties of Rpc, for the instance that runs.

\* The types of the RPC state.
TypeOK == IF part = "server" THEN S!TypeOK ELSE C!TypeOK

\* No wake-up is lost between rpc_function_call() and the server.
NoLostCall == IF part = "server" THEN S!NoLostCall ELSE C!NoLostCall

\* A process asleep in rpc_function_call() can still be answered, if each
\* server has one function.
CallerAwaited == part = "chain" => C!CallerAwaited

\* rpc_call_return() answers the call that rpc_call_poll() delivered, again
\* with one function per server.
ReturnsServedCall == part = "chain" => C!ReturnsServedCall
=============================================================================
