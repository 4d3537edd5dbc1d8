------------------------------- MODULE Procm -------------------------------
(***************************************************************************)
(* Process management of the kernel: creation, sleeping and waking, the    *)
(* timer and IRQ handlers, signals, waitpid and exit                       *)
(* (kernel2/procm.c, kernel2/interrupt.c, kernel2/signal.c).               *)
(*                                                                         *)
(* A system call or an interrupt handler runs with interrupts disabled, so *)
(* each is one atomic action of the process that is proc_current.  The two *)
(* handlers with a loop over a list of waiters (interrupt_time_check and   *)
(* interrupt_irq_check) take one step per list element; while such a loop  *)
(* runs (loop.in # "none") nothing else can.                               *)
(***************************************************************************)
EXTENDS Sched

CONSTANTS
  NBOOT,      \* processes main() creates from the boot modules
  System,     \* processes with the system flag
  Uid, Gid,   \* credentials of each process
  Garbage,    \* <<wait, wait_pid>> contents of a freshly malloc'ed proc_t
  Irqs,       \* the IRQ lines in use (other than the timer's)
  Ticks,      \* durations of a sleep, in timer periods (rounded up)
  WaitArgs,   \* pid arguments of waitpid
  MAXWAITERS  \* bound: entries of interrupt_sleep and of each interrupt_irq[]

ASSUME ProcmAssumption ==
  /\ NBOOT \in Procs
  /\ System \subseteq Procs
  /\ Uid \in [Procs -> Nat] /\ Gid \in [Procs -> Nat]
  /\ Garbage \subseteq BOOLEAN \X Int /\ Garbage # {}
  /\ Ticks \subseteq Nat
  /\ WaitArgs \subseteq Int
  /\ MAXWAITERS \in Nat

VARIABLES
  sched,           \* the scheduler (module Sched)
  proc_nextpid,    \* next pid; the processes in proc_all are 1..proc_nextpid-1
  parent,          \* proc->parent
  defunc,          \* proc->defunc
  wait, wait_pid,  \* proc->wait, proc->wait_pid
  signal,          \* processes with a signal handler (proc->signal # NULL)
  interrupt_sleep, \* pending timed sleeps
  interrupt_irq,   \* per IRQ line, its handlers and sleepers
  loop             \* progress of a handler's list loop

vars == << sched, proc_nextpid, parent, defunc, wait, wait_pid, signal,
           interrupt_sleep, interrupt_irq, loop >>

PERM_ROOTUID == 1
PERM_ROOTGID == 1

SleepType == [proc : Procs, usec : Nat]
IrqType   == [proc : Procs, type : {"IRQ_HANDLER", "IRQ_SLEEP"}]

\* No list loop in progress.
NoLoop   == [in |-> "none", irq |-> 0, i |-> 0]
LoopType == [in : {"none", "time", "irq"}, irq : Irqs \cup {0}, i : Nat]

\* proc_all: a process is taken off it by proc_destroy() alone, which main()
\* calls for a boot module it cannot load and no program calls.
proc_all == 1..(proc_nextpid - 1)

\* The processes that have not exited.
Live == {p \in proc_all : ~defunc[p]}

\* Process p sleeps in the system call named.
AsleepIn(p, call) == sched.why[p] = call

-----------------------------------------------------------------------------
\* main(): init (pid 1) is running, the other boot modules sleep as its
\* children, pushed in pid order; then the boot CPU enters the idle loop.
Init ==
  /\ sched = [running     |-> <<1>>,
              sleeping    |-> [i \in 1..(NBOOT - 1) |-> NBOOT + 1 - i],
              is_sleeping |-> [p \in Procs |-> p # 1],
              ticks_rem   |-> [p \in Procs |-> NICE2TICKS],
              current     |-> NULL,
              frame       |-> NULL,
              saved       |-> 1..NBOOT,
              why         |-> [p \in Procs |-> IF p = 1 THEN "awake" ELSE "start"],
              power       |-> TRUE]
  /\ proc_nextpid = NBOOT + 1
  /\ parent = [p \in Procs |-> IF p = 1 THEN NULL ELSE 1]
  /\ defunc = [p \in Procs |-> FALSE]
  /\ \E g \in [Procs -> Garbage] :
        /\ wait     = [p \in Procs |-> g[p][1]]
        /\ wait_pid = [p \in Procs |-> g[p][2]]
  /\ signal = {}
  /\ interrupt_sleep = << >>
  /\ interrupt_irq = [n \in Irqs |-> << >>]
  /\ loop = NoLoop

\* A system call of the current process can happen now.
InUser == sched.power /\ loop.in = "none" /\ sched.current # NULL

\* proc_create_syscall(.., parent_pid) and proc_create()
proc_create(q) ==
  LET new == proc_nextpid
  IN  /\ InUser
      /\ sched.current \in System
      /\ q \in proc_all
      /\ new <= MAXPROC
      /\ proc_nextpid' = new + 1
      /\ parent' = [parent EXCEPT ![new] = q]
      /\ sched' = [sched EXCEPT !.sleeping = Cons(new, @),
                                !.is_sleeping[new] = TRUE,
                                !.why[new] = "start",
                                !.ticks_rem[new] = NICE2TICKS,
                                !.saved = @ \cup {new}]
      /\ UNCHANGED << defunc, wait, wait_pid, signal, interrupt_sleep,
                      interrupt_irq, loop >>

\* proc_stop()
proc_stop ==
  /\ InUser
  /\ sched' = proc_sleep(sched, sched.current, "stop")
  /\ UNCHANGED << proc_nextpid, parent, defunc, wait, wait_pid, signal,
                  interrupt_sleep, interrupt_irq, loop >>

\* Mutant: a child that has already exited is not noticed.
proc_waitpid_unchecked(pid) ==
  /\ InUser
  /\ pid > 0 => pid \in proc_all
  /\ wait'     = [wait EXCEPT ![sched.current] = TRUE]
  /\ wait_pid' = [wait_pid EXCEPT ![sched.current] = pid]
  /\ sched' = proc_sleep(sched, sched.current, "waitpid")
  /\ UNCHANGED << proc_nextpid, parent, defunc, signal, interrupt_sleep,
                  interrupt_irq, loop >>

\* proc_waitpid(pid,..): an unknown pid, or a child that has already exited,
\* returns at once and changes nothing; otherwise the caller sleeps.
proc_waitpid(pid) ==
  /\ InUser
  /\ pid > 0 => pid \in proc_all /\ ~defunc[pid]
  /\ wait'     = [wait EXCEPT ![sched.current] = TRUE]
  /\ wait_pid' = [wait_pid EXCEPT ![sched.current] = pid]
  /\ sched' = proc_sleep(sched, sched.current, "waitpid")
  /\ UNCHANGED << proc_nextpid, parent, defunc, signal, interrupt_sleep,
                  interrupt_irq, loop >>

\* The parent's wait condition in proc_exit(): does the exit of p answer it?
ExitMatches(p, q) ==
  /\ wait[q]
  /\ \/ wait_pid[q] = -1
     \/ wait_pid[q] = p
     \/ wait_pid[q] = 0 /\ Gid[p] = Gid[q]
     \/ wait_pid[q] < -1 /\ -wait_pid[q] = Gid[p]

\* Mutant: the exited process stays on the run list.
proc_exit_still_running ==
  /\ InUser
  /\ defunc' = [defunc EXCEPT ![sched.current] = TRUE]
  /\ sched' = [sched EXCEPT !.current = NULL, !.frame = NULL]
  /\ UNCHANGED << proc_nextpid, parent, wait, wait_pid, signal, interrupt_sleep,
                  interrupt_irq, loop >>

\* proc_exit(ret), also through proc_abort(): the process leaves the run
\* list for good and the CPU idles until the next interrupt.
proc_exit ==
  LET p == sched.current
      q == parent[p]
      hit == q # NULL /\ ExitMatches(p, q)
      woken == IF hit THEN proc_wake(sched, q) ELSE sched
  IN  /\ InUser
      /\ wait' = IF hit THEN [wait EXCEPT ![q] = FALSE] ELSE wait
      /\ defunc' = [defunc EXCEPT ![p] = TRUE]
      /\ sched' = [woken EXCEPT !.running = RemoveFirst(@, p),
                                !.current = NULL,
                                !.frame   = NULL]
      /\ UNCHANGED << proc_nextpid, parent, wait_pid, signal, interrupt_sleep,
                      interrupt_irq, loop >>

-----------------------------------------------------------------------------
\* signal_setup(handler)
signal_setup ==
  /\ InUser
  /\ signal' = signal \cup {sched.current}
  /\ UNCHANGED << sched, proc_nextpid, parent, defunc, wait, wait_pid,
                  interrupt_sleep, interrupt_irq, loop >>

\* proc_call(proc,func,..): the upcall frame is pushed on the stack of the
\* process, which then continues in func; it is woken for that.
proc_call(k, p) == IF defunc[p] THEN k ELSE proc_wake(k, p)

\* The permission test of signal_send_syscall().
MaySignal(p, q) ==
  \/ Uid[q] = Uid[p] \/ Gid[q] = Gid[p]
  \/ Uid[p] = PERM_ROOTUID \/ Gid[p] = PERM_ROOTGID

\* signal_send(proc,sig)
signal_send(k, p, cont) ==
  LET kc == IF cont THEN proc_wake(k, p) ELSE k
  IN  IF p \in signal THEN proc_call(kc, p) ELSE kc

\* signal_send_syscall(pid,sig); cont: sig = SIGCONT
signal_send_syscall(q, cont) ==
  /\ InUser
  /\ q \in proc_all
  /\ MaySignal(sched.current, q)
  /\ sched' = signal_send(sched, q, cont)
  /\ UNCHANGED << proc_nextpid, parent, defunc, wait, wait_pid, signal,
                  interrupt_sleep, interrupt_irq, loop >>

-----------------------------------------------------------------------------
\* interrupt_time_sleep(sec), interrupt_time_usleep(usec); t counts timer
\* periods, rounded up.
interrupt_time_sleep(t) ==
  /\ InUser
  /\ Len(interrupt_sleep) < MAXWAITERS
  /\ interrupt_sleep' = Cons([proc |-> sched.current, usec |-> t], interrupt_sleep)
  /\ sched' = proc_sleep(sched, sched.current, "time")
  /\ UNCHANGED << proc_nextpid, parent, defunc, wait, wait_pid, signal,
                  interrupt_irq, loop >>

\* interrupt_irq_reghandler(irq,func) and interrupt_irq_sleep(irq): both only
\* put an entry on the list of the IRQ.
interrupt_irq_add(n, type) ==
  /\ InUser
  /\ Len(interrupt_irq[n]) < MAXWAITERS
  /\ interrupt_irq' = [interrupt_irq EXCEPT
                         ![n] = Cons([proc |-> sched.current, type |-> type], @)]
  /\ UNCHANGED << sched, proc_nextpid, parent, defunc, wait, wait_pid, signal,
                  interrupt_sleep, loop >>

\* An interrupt can arrive: in user mode or in the idle loop.
Interruptible == sched.power /\ loop.in = "none"

\* Mutant: the scan starts before the first entry.
interrupt_timer_from_0 ==
  /\ Interruptible
  /\ loop' = [NoLoop EXCEPT !.in = "time"]
  /\ UNCHANGED << sched, proc_nextpid, parent, defunc, wait, wait_pid, signal,
                  interrupt_sleep, interrupt_irq >>

\* interrupt_timer(): entry, up to the loop of interrupt_time_check()
interrupt_timer ==
  /\ Interruptible
  /\ loop' = [NoLoop EXCEPT !.in = "time", !.i = 1]
  /\ UNCHANGED << sched, proc_nextpid, parent, defunc, wait, wait_pid, signal,
                  interrupt_sleep, interrupt_irq >>

\* Mutant: an expired entry is dropped without waking its process.
interrupt_time_check_no_wake ==
  /\ loop.in = "time"
  /\ loop.i <= Len(interrupt_sleep)
  /\ IF interrupt_sleep[loop.i].usec <= 1
     THEN /\ interrupt_sleep' = RemoveAt(interrupt_sleep, loop.i)
          /\ UNCHANGED loop
     ELSE /\ interrupt_sleep' = [interrupt_sleep EXCEPT ![loop.i].usec = @ - 1]
          /\ loop' = [loop EXCEPT !.i = @ + 1]
  /\ UNCHANGED << sched, proc_nextpid, parent, defunc, wait, wait_pid, signal,
                  interrupt_irq >>

\* One round of the loop of interrupt_time_check().
interrupt_time_check ==
  /\ loop.in = "time"
  /\ loop.i <= Len(interrupt_sleep)
  /\ LET s == interrupt_sleep[loop.i]
     IN  IF s.usec <= 1
         THEN /\ sched' = proc_wake(sched, s.proc)
              /\ interrupt_sleep' = RemoveAt(interrupt_sleep, loop.i)
              /\ UNCHANGED loop
         ELSE /\ interrupt_sleep' = [interrupt_sleep EXCEPT ![loop.i].usec = @ - 1]
              /\ loop' = [loop EXCEPT !.i = @ + 1]
              /\ UNCHANGED sched
  /\ UNCHANGED << proc_nextpid, parent, defunc, wait, wait_pid, signal,
                  interrupt_irq >>

\* End of interrupt_timer(): the list is done, the next process is chosen.
interrupt_timer_end ==
  /\ loop.in = "time"
  /\ loop.i > Len(interrupt_sleep)
  /\ sched' = proc_shedule(sched)
  /\ loop' = NoLoop
  /\ UNCHANGED << proc_nextpid, parent, defunc, wait, wait_pid, signal,
                  interrupt_sleep, interrupt_irq >>

\* interrupt_irq_handler(irq), irq # 0: entry of interrupt_irq_check()
interrupt_irq_handler(n) ==
  /\ Interruptible
  /\ loop' = [in |-> "irq", irq |-> n, i |-> 1]
  /\ UNCHANGED << sched, proc_nextpid, parent, defunc, wait, wait_pid, signal,
                  interrupt_sleep, interrupt_irq >>

\* One round of the loop of interrupt_irq_check().
interrupt_irq_check ==
  /\ loop.in = "irq"
  /\ loop.i <= Len(interrupt_irq[loop.irq])
  /\ LET e == interrupt_irq[loop.irq][loop.i]
     IN  IF e.type = "IRQ_SLEEP"
         THEN /\ sched' = proc_wake(sched, e.proc)
              /\ interrupt_irq' = [interrupt_irq EXCEPT
                                     ![loop.irq] = RemoveAt(@, loop.i)]
              /\ UNCHANGED loop
         ELSE /\ sched' = proc_call(sched, e.proc)
              /\ loop' = [loop EXCEPT !.i = @ + 1]
              /\ UNCHANGED interrupt_irq
  /\ UNCHANGED << proc_nextpid, parent, defunc, wait, wait_pid, signal,
                  interrupt_sleep >>

\* End of the IRQ: interrupt_handler() schedules if the machine was idle.
interrupt_irq_end ==
  /\ loop.in = "irq"
  /\ loop.i > Len(interrupt_irq[loop.irq])
  /\ sched' = LeaveIdle(sched)
  /\ loop' = NoLoop
  /\ UNCHANGED << proc_nextpid, parent, defunc, wait, wait_pid, signal,
                  interrupt_sleep, interrupt_irq >>

-----------------------------------------------------------------------------
\* cpu_shutdown(): interrupts are off and the CPU is halted for good.
Halted == ~sched.power /\ UNCHANGED vars

Syscall ==
  \/ \E q \in Procs : proc_create(q)
  \/ proc_stop
  \/ \E pid \in WaitArgs : proc_waitpid(pid)
  \/ proc_exit
  \/ signal_setup
  \/ \E q \in Procs, cont \in BOOLEAN : signal_send_syscall(q, cont)
  \/ \E t \in Ticks : interrupt_time_sleep(t)
  \/ \E n \in Irqs, type \in {"IRQ_HANDLER", "IRQ_SLEEP"} : interrupt_irq_add(n, type)

Interrupt ==
  \/ interrupt_timer \/ interrupt_time_check \/ interrupt_timer_end
  \/ \E n \in Irqs : interrupt_irq_handler(n)
  \/ interrupt_irq_check \/ interrupt_irq_end

Next == Syscall \/ Interrupt \/ Halted

Spec == Init /\ [][Next]_vars

\* A handler that has begun runs to its end, and the timer interrupt keeps
\* coming: the PIT is periodic, IRQ 0 has the highest priority at the PIC and
\* stays pending while another handler runs, hence strong fairness.
Fairness ==
  /\ SF_vars(interrupt_timer)
  /\ WF_vars(interrupt_time_check) /\ WF_vars(interrupt_timer_end)
  /\ WF_vars(interrupt_irq_check)  /\ WF_vars(interrupt_irq_end)

FairSpec == Spec /\ Fairness

-----------------------------------------------------------------------------
(* Properties *)

\* The type of the kernel's process state.
TypeOK ==
  /\ sched \in SchedType
  /\ proc_nextpid \in (NBOOT + 1)..(MAXPROC + 1)
  /\ parent \in [Procs -> Procs \cup {NULL}]
  /\ defunc \in [Procs -> BOOLEAN]
  /\ wait \in [Procs -> BOOLEAN]
  /\ wait_pid \in [Procs -> Int]
  /\ signal \subseteq Procs
  /\ interrupt_sleep \in Seq(SleepType)
  /\ interrupt_irq \in [Irqs -> Seq(IrqType)]
  /\ loop \in LoopType
  /\ loop.in # "none" => loop.i > 0
  /\ loop.in = "irq" => loop.irq \in Irqs

\* proc_sleep, proc_wake, proc_exit and proc_create keep the two lists and
\* is_sleeping in agreement: a process that lives is in exactly the list its
\* flag says, once, and one that exited or was never created is in neither;
\* and between handlers and inside them proc_current is on the run list.
\* (proc_sleep and proc_wake trust the flag to know which list to remove
\* from, so one disagreement would put a process into both lists.)
ListsConsistent == ListsMatch(sched, Live) /\ CurrentRuns(sched)

\* The unsigned tick budget of proc_shedule() never wraps below zero: a
\* process is only made current with a positive budget, so the decrement at
\* the end of its turn (by the timer or by going to sleep) is safe.
TicksNeverWrap == TicksInRange(sched)

\* No context is lost or mixed up: the interrupt frame always belongs to
\* proc_current, and every other process that can still run has exactly its
\* own registers in its process structure, whatever interleaving of sleeps,
\* wakes, exits, idling and preemption led here.
ContextSafe == ContextsKept(sched, Live)

\* A parent asleep in waitpid(pid) still has its wait flag up, and if pid is a
\* child of its own, that child has not exited: no order of exit, signals and
\* spurious wake-ups loses the exit the parent waits for.
ChildExitNotMissed ==
  \A p \in proc_all :
    AsleepIn(p, "waitpid") /\ ~defunc[p] =>
      /\ wait[p]
      /\ wait_pid[p] \in Procs /\ parent[wait_pid[p]] = p => ~defunc[wait_pid[p]]

\* A process asleep in sleep()/usleep() has a pending timer entry: neither the
\* removal of other entries during the scan of interrupt_time_check() nor a
\* stale entry of an earlier sleep can leave it without one.
NoLostTimer ==
  \A p \in proc_all :
    AsleepIn(p, "time") =>
      \E i \in 1..Len(interrupt_sleep) : interrupt_sleep[i].proc = p

\* A process that has exited is never scheduled, woken or put to sleep again,
\* although timer entries, IRQ entries and its parent still refer to it.
StaysDead ==
  \A p \in Procs : defunc[p] =>
     /\ defunc'[p]
     /\ sched'.current # p
     /\ sched'.is_sleeping[p] = sched.is_sleeping[p]
DefunctStaysDead == [][StaysDead]_vars

\* The last-eligible-wins choice of proc_shedule() with newly woken processes
\* pushed at the front starves nobody: a runnable process gets the CPU, goes
\* to sleep, or the machine is shut down.
NoStarvation ==
  \A p \in Procs :
    Contains(sched.running, p) ~> sched.current = p \/ ~Contains(sched.running, p)

\* A timed sleep ends.
TimedSleepEnds ==
  \A p \in Procs : AsleepIn(p, "time") ~> ~AsleepIn(p, "time")

-----------------------------------------------------------------------------
(* What the comments of the code promise and the code does not keep *)

\* "Waits for child(ren), pid: -1 for all childs": a process with children
\* does not sleep in waitpid(-1) when none of them is left to exit.
WaitAnyReturns ==
  \A p \in proc_all :
    LET Children == {c \in proc_all : parent[c] = p}
    IN  AsleepIn(p, "waitpid") /\ wait_pid[p] = -1 /\ Children # {} =>
          \E c \in Children : ~defunc[c]

\* "Sleeps until an time elapsed": the exit of a child does not end a timed
\* sleep of its parent; proc_exit() wakes parents out of waitpid() only.
ExitEndsNoTimedSleep ==
  [][\A p \in Procs :
        defunc' # defunc /\ AsleepIn(p, "time") => sched'.is_sleeping[p]]_vars

\* "Sleeps until an IRQ is fired": the caller of interrupt_irq_sleep() sleeps
\* when its entry is on the list of the IRQ.
IrqSleepSleeps ==
  [][\A n \in Irqs :
        /\ Len(interrupt_irq'[n]) > Len(interrupt_irq[n])
        /\ interrupt_irq'[n][1].type = "IRQ_SLEEP"
        => sched'.is_sleeping[interrupt_irq'[n][1].proc]]_vars

\* "Sleeps until an time elapsed": the timer ends a sleep only when the entry
\* of that sleep expires (the first of the process, entries being pushed at
\* the front), not on the entry of an earlier, interrupted sleep.
OwnTimerWakes ==
  [][\A p \in Procs :
        loop.in = "time" /\ AsleepIn(p, "time") /\ sched'.why[p] = "awake"
          => \A i \in 1..(loop.i - 1) : interrupt_sleep[i].proc # p]_vars

\* "Save registers of process": proc_shedule() stores registers of processes
\* only; going idle again while already idle has no process to store.
IdleSavesProcess ==
  [][loop.in # "none" /\ loop'.in = "none" /\ sched.running = << >> /\ sched.sleeping # << >>
       => sched.current # NULL]_vars
=============================================================================
