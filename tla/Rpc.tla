-------------------------------- MODULE Rpc --------------------------------
(***************************************************************************)
(* Remote procedure calls: the kernel's function and call lists            *)
(* (kernel2/rpc.c) together with the two user-space loops that drive them, *)
(* rpc_vcall() in the caller and rpc_poll()/rpc_mainloop() in the server   *)
(* (apps/lib/libmeinos/rpc.c).                                             *)
(*                                                                         *)
(* Each system call is one atomic action of proc_current; between two of   *)
(* them the timer may preempt the process and an upcall (a signal or an    *)
(* IRQ handler, through proc_call) may wake it.  Parameters and results    *)
(* are abstracted to the request they belong to, <<caller, number>>.       *)
(***************************************************************************)
EXTENDS Sched

CONSTANTS
  Funcs,             \* names of the functions that servers register
  Owner,             \* the server of each function
  Needs,             \* the function a handler calls in turn, or NULL
  NoRet,             \* functions called with RPC_FLAG_NORET
  Stale,             \* contents of func->current in fresh memory
  RPC_TRIES_MAXNUM,
  MaxReq,            \* bound: rpc_vcall()s of each process
  MAXUPCALLS         \* bound: upcalls in a behaviour

\* Values of func->current: the null pointer and one never assigned.
NoCall == [caller |-> NULL, req |-> << NULL, 0 >>, noret |-> FALSE]
Wild   == [caller |-> -1,   req |-> << NULL, 0 >>, noret |-> FALSE]

ASSUME RpcAssumption ==
  /\ Owner \in [Funcs -> Procs]
  /\ NULL \notin Funcs
  /\ Needs \in [Funcs -> Funcs \cup {NULL}]
  /\ NoRet \subseteq Funcs
  /\ Stale \subseteq {NoCall, Wild} /\ Stale # {}
  /\ RPC_TRIES_MAXNUM \in Nat \ {0}
  /\ MaxReq \in [Procs -> Nat] /\ MAXUPCALLS \in Nat

VARIABLES
  sched,          \* the scheduler
  rpc_functions,  \* the registered functions, front of the list first
  calls,          \* func->calls, front first
  current,        \* func->current
  pc,             \* where each process is in its loop
  vcall,          \* the rpc_vcall() a process is in: target, request, tries
  error, ret,     \* its local variables that the kernel writes for the callee
  id,             \* rpc_poll(): the id that GETINFO returned
  serving,        \* rpc_poll(): the request POLL delivered
  ran,            \* history: how often each request was executed
  upcalls         \* upcalls so far

vars == << sched, rpc_functions, calls, current, pc, vcall, error, ret, id,
           serving, ran, upcalls >>

kernel == << rpc_functions, calls, current >>
client == << vcall, error, ret >>
server == << id, serving, ran >>

Servers  == {Owner[f] : f \in Funcs}
Requests == UNION {{p} \X (1..MaxReq[p]) : p \in Procs}
NoReq    == << NULL, 0 >>
CallType == [caller : Procs, req : Requests, noret : BOOLEAN]

Init ==
  /\ sched = [running     |-> [i \in Procs |-> i],
              sleeping    |-> << >>,
              is_sleeping |-> [p \in Procs |-> FALSE],
              ticks_rem   |-> [p \in Procs |-> NICE2TICKS],
              current     |-> NULL,
              frame       |-> NULL,
              saved       |-> Procs,
              why         |-> [p \in Procs |-> "awake"],
              power       |-> TRUE]
  /\ rpc_functions = << >>
  /\ calls = [f \in Funcs |-> << >>]
  /\ current \in [Funcs -> Stale]
  /\ pc = [p \in Procs |-> IF p \in Servers THEN "start" ELSE "user"]
  /\ vcall = [p \in Procs |-> [target |-> NULL, n |-> 0, try |-> 0]]
  /\ error = [p \in Procs |-> TRUE]
  /\ ret = [p \in Procs |-> NoReq]
  /\ id = [p \in Procs |-> NULL]
  /\ serving = [p \in Procs |-> [func |-> NULL, req |-> NoReq]]
  /\ ran = [r \in Requests |-> 0]
  /\ upcalls = 0

\* p is proc_current and its next system call is the one at label l.
At(p, l) == sched.power /\ sched.current = p /\ pc[p] = l

Registered(f) == Contains(rpc_functions, f)

\* rpc_find(-1,NULL,p,0,1): the first function of p that has calls.
rpc_find(p, f) ==
  \E i \in 1..Len(rpc_functions) :
    /\ rpc_functions[i] = f /\ Owner[f] = p /\ calls[f] # << >>
    /\ \A j \in 1..(i - 1) :
         ~(Owner[rpc_functions[j]] = p /\ calls[rpc_functions[j]] # << >>)

-----------------------------------------------------------------------------
\* rpc_function_create(): a server registers its functions, in any order,
\* and then enters rpc_mainloop().
rpc_function_create(p) ==
  \E f \in Funcs :
    /\ At(p, "start")
    /\ Owner[f] = p /\ ~Registered(f)
    /\ rpc_functions' = Cons(f, rpc_functions)
    /\ pc' = [pc EXCEPT ![p] =
                IF \E g \in Funcs \ {f} : Owner[g] = p /\ ~Registered(g)
                THEN "start" ELSE "getinfo"]
    /\ UNCHANGED << sched, calls, current, client, server, upcalls >>

\* Mutant: the error flag of the previous call is left standing.
rpc_vcall_no_reset(p, f) ==
  /\ \/ At(p, "user")
     \/ At(p, "handler") /\ f = Needs[serving[p].func]
  /\ Registered(f)
  /\ vcall[p].n < MaxReq[p]
  /\ vcall' = [vcall EXCEPT ![p] = [target |-> f, n |-> @.n + 1, try |-> 0]]
  /\ pc' = [pc EXCEPT ![p] = "call"]
  /\ UNCHANGED << sched, kernel, error, ret, server, upcalls >>

\* Start of rpc_vcall(f): GETINFO finds the function by name.
rpc_vcall(p, f) ==
  /\ \/ At(p, "user")
     \/ At(p, "handler") /\ f = Needs[serving[p].func]
  /\ Registered(f)
  /\ vcall[p].n < MaxReq[p]
  /\ vcall' = [vcall EXCEPT ![p] = [target |-> f, n |-> @.n + 1, try |-> 0]]
  /\ error' = [error EXCEPT ![p] = TRUE]
  /\ pc' = [pc EXCEPT ![p] = "call"]
  /\ UNCHANGED << sched, kernel, ret, server, upcalls >>

\* Mutant: the server is not woken.
rpc_function_call_no_wake(p) ==
  LET f   == vcall[p].target
      new == [caller |-> p, req |-> << p, vcall[p].n >>, noret |-> f \in NoRet]
  IN  /\ At(p, "call")
      /\ error[p] /\ vcall[p].try < RPC_TRIES_MAXNUM
      /\ calls' = [calls EXCEPT ![f] = Cons(new, @)]
      /\ vcall' = [vcall EXCEPT ![p].try = @ + 1]
      /\ sched' = proc_sleep(sched, p, "rpc")
      /\ UNCHANGED << rpc_functions, current, pc, error, ret, server, upcalls >>

\* Mutant: the number of tries is not limited.
rpc_function_call_unlimited(p) ==
  LET f   == vcall[p].target
      new == [caller |-> p, req |-> << p, vcall[p].n >>, noret |-> f \in NoRet]
  IN  /\ At(p, "call")
      /\ error[p]
      /\ calls' = [calls EXCEPT ![f] = Cons(new, @)]
      /\ vcall' = [vcall EXCEPT ![p].try = @ + 1]
      /\ sched' = proc_sleep(proc_wake(sched, Owner[f]), p, "rpc")
      /\ UNCHANGED << rpc_functions, current, pc, error, ret, server, upcalls >>

\* rpc_function_call(), as one round of the retry loop of rpc_vcall(): the
\* call is pushed, the server woken, the caller sleeps.  (The kernel's
\* *error = 1 writes what the loop has just tested.)
rpc_function_call(p) ==
  LET f   == vcall[p].target
      new == [caller |-> p, req |-> << p, vcall[p].n >>, noret |-> f \in NoRet]
  IN  /\ At(p, "call")
      /\ error[p] /\ vcall[p].try < RPC_TRIES_MAXNUM
      /\ calls' = [calls EXCEPT ![f] = Cons(new, @)]
      /\ vcall' = [vcall EXCEPT ![p].try = @ + 1]
      /\ sched' = proc_sleep(proc_wake(sched, Owner[f]), p, "rpc")
      /\ UNCHANGED << rpc_functions, current, pc, error, ret, server, upcalls >>

\* End of the loop of rpc_vcall(): the answer is in ret, or it gives up.
rpc_vcall_end(p) ==
  /\ At(p, "call")
  /\ ~error[p] \/ vcall[p].try = RPC_TRIES_MAXNUM
  /\ pc' = [pc EXCEPT ![p] = IF p \in Servers THEN "return" ELSE "user"]
  /\ UNCHANGED << sched, kernel, client, server, upcalls >>

-----------------------------------------------------------------------------
\* rpc_function_getinfo(id,..,sleep = 1) of rpc_poll(): sleep while none of
\* the server's functions has a call.
rpc_function_getinfo(p) ==
  /\ At(p, "getinfo")
  /\ \/ \E f \in Funcs :
          /\ rpc_find(p, f)
          /\ id' = [id EXCEPT ![p] = f]
          /\ pc' = [pc EXCEPT ![p] = "poll"]
          /\ UNCHANGED sched
     \/ /\ \A f \in Funcs : ~rpc_find(p, f)
        /\ sched' = proc_sleep(sched, p, "rpc")
        /\ UNCHANGED << id, pc >>
  /\ UNCHANGED << kernel, client, serving, ran, upcalls >>

\* Mutant: the call stays in the list.
rpc_call_poll_keeps(p) ==
  /\ At(p, "poll")
  /\ \E f \in Funcs :
       /\ rpc_find(p, f)
       /\ LET call == Head(calls[f])
          IN  /\ current' = [current EXCEPT ![f] = call]
              /\ serving' = [serving EXCEPT ![p] = [func |-> f, req |-> call.req]]
              /\ ran'     = [ran EXCEPT ![call.req] = @ + 1]
  /\ pc' = [pc EXCEPT ![p] = "handler"]
  /\ UNCHANGED << sched, rpc_functions, calls, client, id, upcalls >>

\* Mutant: the call is popped but not made current.
rpc_call_poll_not_current(p) ==
  /\ At(p, "poll")
  /\ \E f \in Funcs :
       /\ rpc_find(p, f)
       /\ LET call == Head(calls[f])
          IN  /\ calls'   = [calls EXCEPT ![f] = Tail(@)]
              /\ serving' = [serving EXCEPT ![p] = [func |-> f, req |-> call.req]]
              /\ ran'     = [ran EXCEPT ![call.req] = @ + 1]
  /\ pc' = [pc EXCEPT ![p] = "handler"]
  /\ UNCHANGED << sched, rpc_functions, current, client, id, upcalls >>

\* rpc_call_poll(id,..): pops a call of the first function of the server
\* that has one, whatever id is; the handler will then run.
rpc_call_poll(p) ==
  /\ At(p, "poll")
  /\ \E f \in Funcs :
       /\ rpc_find(p, f)
       /\ LET call == Head(calls[f])
          IN  /\ calls'   = [calls EXCEPT ![f] = Tail(@)]
              /\ current' = [current EXCEPT ![f] = call]
              /\ serving' = [serving EXCEPT ![p] = [func |-> f, req |-> call.req]]
              /\ ran'     = [ran EXCEPT ![call.req] = @ + 1]
  /\ pc' = [pc EXCEPT ![p] = "handler"]
  /\ UNCHANGED << sched, rpc_functions, client, id, upcalls >>

\* dyn_call(func,..): the handler returns without a call of its own (which
\* would be rpc_vcall above): it needs none, or nobody serves it.
dyn_call(p) ==
  /\ At(p, "handler")
  /\ ~\E f \in Funcs : f = Needs[serving[p].func] /\ Registered(f)
  /\ pc' = [pc EXCEPT ![p] = "return"]
  /\ UNCHANGED << sched, kernel, client, server, upcalls >>

\* Mutant: the caller is not woken.
rpc_call_return_no_wake(p) ==
  /\ At(p, "return")
  /\ pc' = [pc EXCEPT ![p] = "getinfo"]
  /\ error' = [error EXCEPT ![current[id[p]].caller] = FALSE]
  /\ ret' = [ret EXCEPT ![current[id[p]].caller] = serving[p].req]
  /\ current' = [current EXCEPT ![id[p]] = NoCall]
  /\ UNCHANGED << sched, rpc_functions, calls, vcall, server, upcalls >>

\* rpc_call_return(id,ret,..): the result of the handler is stored in the
\* caller of the function's current call, which is woken; without a current
\* call nothing happens (EINVAL).  Following a pointer that was never
\* assigned ends in an exception in kernel mode, which halts the machine.
rpc_call_return(p) ==
  LET call == current[id[p]]
  IN  /\ At(p, "return")
      /\ pc' = [pc EXCEPT ![p] = "getinfo"]
      /\ CASE call = NoCall -> UNCHANGED << sched, current, error, ret >>
           [] call = Wild   -> /\ sched' = [sched EXCEPT !.power = FALSE]
                               /\ UNCHANGED << current, error, ret >>
           [] OTHER ->
                /\ IF call.noret
                   THEN UNCHANGED << error, ret >>
                   ELSE /\ error' = [error EXCEPT ![call.caller] = FALSE]
                        /\ ret' = [ret EXCEPT ![call.caller] = serving[p].req]
                /\ sched' = proc_wake(sched, call.caller)
                /\ current' = [current EXCEPT ![id[p]] = NoCall]
      /\ UNCHANGED << rpc_functions, calls, vcall, server, upcalls >>

-----------------------------------------------------------------------------
\* interrupt_timer(), with no timed sleeper
interrupt_timer ==
  /\ sched.power
  /\ sched' = proc_shedule(sched)
  /\ UNCHANGED << kernel, pc, client, server, upcalls >>

\* A signal or an IRQ makes an upcall into p (proc_call): p is woken,
\* whatever it sleeps in, and after the handler continues where it was.
proc_call(p) ==
  /\ sched.power
  /\ upcalls < MAXUPCALLS
  /\ upcalls' = upcalls + 1
  /\ sched' = LeaveIdle(proc_wake(sched, p))
  /\ UNCHANGED << kernel, pc, client, server >>

\* The machine is halted.
Halted == ~sched.power /\ UNCHANGED vars

Step(p) ==
  \/ rpc_function_create(p)
  \/ \E f \in Funcs : rpc_vcall(p, f)
  \/ rpc_function_call(p) \/ rpc_vcall_end(p)
  \/ rpc_function_getinfo(p) \/ rpc_call_poll(p)
  \/ dyn_call(p) \/ rpc_call_return(p)

\* The machine at work: processes make system calls, and the timer ticks.
Work == (\E p \in Procs : Step(p)) \/ interrupt_timer

Next == Work \/ (\E p \in Procs : proc_call(p)) \/ Halted

Spec == Init /\ [][Next]_vars

\* Without upcalls.  The timer keeps ticking, and a process that gets the CPU
\* again and again also reaches its next system call: a time slice is never
\* too short for the finitely many instructions in between.
FairSpec == Init /\ [][Work]_vars /\ WF_vars(interrupt_timer)
            /\ \A p \in Procs : SF_vars(Step(p))

-----------------------------------------------------------------------------
(* Properties *)

\* The type of the RPC state.
TypeOK ==
  /\ sched \in SchedType
  /\ rpc_functions \in Seq(Funcs)
  /\ calls \in [Funcs -> Seq(CallType)]
  /\ current \in [Funcs -> CallType \cup {NoCall, Wild}]
  /\ pc \in [Procs -> {"start", "user", "call", "getinfo", "poll", "handler", "return"}]
  /\ vcall \in [Procs -> [target : Funcs \cup {NULL}, n : Nat, try : 0..RPC_TRIES_MAXNUM]]
  /\ error \in [Procs -> BOOLEAN]
  /\ ret \in [Procs -> Requests \cup {NoReq}]
  /\ id \in [Procs -> Funcs \cup {NULL}]
  /\ serving \in [Procs -> [func : Funcs \cup {NULL}, req : Requests \cup {NoReq}]]
  /\ ran \in [Requests -> Nat]
  /\ upcalls \in 0..MAXUPCALLS

Asleep(p, l) == sched.is_sleeping[p] /\ pc[p] = l

\* The call a process waits for is queued, or its function's current one.
Outstanding(p) ==
  \E f \in Funcs :
    \/ \E i \in 1..Len(calls[f]) : calls[f][i].caller = p
    \/ current[f].caller = p

\* No wake-up is lost between rpc_function_call() and the server: a server
\* asleep in rpc_function_getinfo() has no queued call, whatever upcalls,
\* preemptions and calls to its other functions came between.
NoLostCall ==
  \A f \in Funcs : Asleep(Owner[f], "getinfo") => calls[f] = << >>

\* A process asleep in rpc_function_call() can still be answered: its server
\* has a call of it queued or as the current one (rpc_call_poll() and
\* rpc_call_return() drop none), if each server has one function.
CallerAwaited == \A p \in Procs : Asleep(p, "call") => Outstanding(p)

\* rpc_call_return() answers the call that rpc_call_poll() delivered, although
\* the two system calls only share a function id and the server may have
\* slept in a call of its own in between; again with one function per server.
ReturnsServedCall ==
  \A p \in Procs :
    pc[p] = "return" => current[id[p]].req = serving[p].req

\* A request is executed at most once, although rpc_vcall() repeats its call
\* in a loop, as long as nothing but the answer wakes the caller.
RunsOnce == \A r \in Requests : ran[r] <= 1

\* When rpc_vcall() leaves its loop with error = 0, ret is the result of this
\* very request and not of an earlier one: "@param ret Reference for return
\* value" of rpc_function_call().
OwnResult ==
  \A p \in Procs :
    pc[p] = "call" /\ ~error[p] => ret[p] = << p, vcall[p].n >>

\* Every rpc_vcall() comes to an end: caller, server and scheduler never wait
\* for each other in a circle.
CallReturns ==
  \A p \in Procs : pc[p] = "call" ~> pc[p] # "call"

-----------------------------------------------------------------------------
(* What the comments of the code promise and the code does not keep *)

\* "@param id Function ID (or -1)" of rpc_call_poll(): the call delivered is
\* one of the function asked for.
PollServesId ==
  [][\A p \in Procs :
        pc[p] = "poll" /\ pc'[p] = "handler" => serving'[p].func = id[p]]_vars
=============================================================================
