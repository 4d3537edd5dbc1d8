------------------------------- MODULE MCRpc -------------------------------
(* Instances of Rpc for TLC: the functions are open and stat, process 1 serves.  *)
EXTENDS Rpc

CONSTANTS open, stat

\* Both functions belong to server 1; clients are the other processes.
MCOneServer == [x \in {open, stat} |-> 1]
MCNoNeeds   == [x \in {open, stat} |-> NULL]
MCClients2  == [p \in Procs |-> IF p = 1 THEN 0 ELSE 2]
MCClients1  == [p \in Procs |-> IF p = 1 THEN 0 ELSE 1]

\* A chain: open is served by 1, whose handler calls stat, served by 2.
MCChain      == [x \in {open, stat} |-> IF x = open THEN 1 ELSE 2]
MCChainNeeds == [x \in {open, stat} |-> IF x = open THEN stat ELSE NULL]
MCChainReqs  == [p \in Procs |-> IF p = 1 THEN 2 ELSE IF p = 2 THEN 0 ELSE 1]

\* One function only.
MCOnlyF      == [x \in {open} |-> 1]
MCOnlyFNeeds == [x \in {open} |-> NULL]

MCStale  == {NoCall, Wild}
=============================================================================
