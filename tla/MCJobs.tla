------------------------------- MODULE MCJobs -------------------------------
(***************************************************************************)
(* The instance MCProcm with one of three kinds of behaviours: processes   *)
(* create, wait for and signal each other; or the two boot modules use     *)
(* timed sleeps and IRQs; or they wait and use IRQs.  All at once are too  *)
(* many states.                                                            *)
(***************************************************************************)
EXTENDS MCProcm

VARIABLE part

NoIrqs   == loop'.in # "irq" /\ \A n \in Irqs : interrupt_irq'[n] = << >>
NoTimers == interrupt_sleep' = << >>
NoWaits  == \A p \in Procs : ~wait'[p]
NoNew    == proc_nextpid' = proc_nextpid

MCInit == Init /\ part \in {"jobs", "timers", "irqs"}
               /\ (part # "jobs" => wait = [p \in Procs |-> FALSE])
MCNext == /\ Next /\ UNCHANGED part
          /\ CASE part = "jobs"   -> NoIrqs /\ NoTimers
               [] part = "timers" -> NoNew /\ NoWaits
               [] part = "irqs"   -> NoNew /\ NoTimers
MCSpec == MCInit /\ [][MCNext]_<< vars, part >>
=============================================================================
