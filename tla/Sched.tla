------------------------------- MODULE Sched -------------------------------
(***************************************************************************)
(* The process scheduler of kernel2/procm.c: the lists proc_running and    *)
(* proc_sleeping, the tick budget, proc_current, and the register contexts *)
(* that are moved between the interrupt frame and the process structures.  *)
(*                                                                         *)
(* The kernel runs on one CPU with interrupts disabled, so these functions *)
(* are pieces of larger atomic handlers.  They are operators on a record k *)
(* (the scheduler's part of the kernel state) that return the new record;  *)
(* the modules of the kernel's services call them from their actions just  *)
(* as the C functions are called from the syscall handlers.                *)
(*                                                                         *)
(*   running, sleeping  the two llists, front first                        *)
(*   is_sleeping        proc->is_sleeping                                  *)
(*   ticks_rem          proc->ticks_rem, a clock_t (unsigned): it wraps    *)
(*   current            proc_current                                       *)
(*   frame              the process whose registers are in the interrupt   *)
(*                      frame (and on the CPU after iret), NULL if they    *)
(*                      belong to no process (the idle loop)               *)
(*   saved              the processes whose proc->registers hold the       *)
(*                      registers they will continue with                  *)
(*   why                history: the call a process sleeps in, "awake" if  *)
(*                      it does not sleep                                  *)
(*   power              FALSE after cpu_shutdown()                         *)
(***************************************************************************)
EXTENDS Integers, Sequences, SequencesExt

CONSTANTS
  MAXPROC,    \* bound: number of processes ever created
  CLOCK_MAX   \* the largest clock_t (2^32 - 1 in the code)

ASSUME SchedAssumption ==
  /\ MAXPROC \in Nat \ {0}
  /\ CLOCK_MAX \in Nat \ {0, 1}

\* Process identifiers; a process structure is named by its pid.
Procs == 1..MAXPROC

\* The null pointer.
NULL == 0

\* NICE2TICKS(nice): every nice value yields one tick.
NICE2TICKS == 1

\* Why a process sleeps.
Reasons == {"awake", "start", "stop", "waitpid", "time", "rpc", "sem", "msg"}

SchedType ==
  [running     : Seq(Procs),
   sleeping    : Seq(Procs),
   is_sleeping : [Procs -> BOOLEAN],
   ticks_rem   : [Procs -> 0..CLOCK_MAX],
   current     : Procs \cup {NULL},
   frame       : Procs \cup {NULL},
   saved       : SUBSET Procs,
   why         : [Procs -> Reasons],
   power       : BOOLEAN]

-----------------------------------------------------------------------------
\* x-- on a clock_t.
Dec(x) == IF x = 0 THEN CLOCK_MAX ELSE x - 1

\* Mutant: the registers are not stored.
proc_regs_save_dropped(k, p) == k

\* proc_regs_save(proc): the frame is copied into proc->registers.  With
\* proc = NULL the copy goes to the bottom of memory and no process changes.
proc_regs_save(k, p) ==
  IF p = NULL
  THEN k
  ELSE [k EXCEPT !.saved = IF k.frame = p THEN @ \cup {p} ELSE @ \ {p}]

\* proc_regs_load(proc): proc->registers are copied into the frame.
proc_regs_load(k, p) ==
  [k EXCEPT !.frame = IF p \in k.saved THEN p ELSE NULL,
            !.saved = @ \ {p}]

\* Mutant: the process stays on proc_sleeping.
proc_wake_both_lists(k, p) ==
  IF k.is_sleeping[p]
  THEN [k EXCEPT !.is_sleeping[p] = FALSE,
                 !.why[p]   = "awake",
                 !.running  = Cons(p, @)]
  ELSE k

\* proc_wake(proc)
proc_wake(k, p) ==
  IF k.is_sleeping[p]
  THEN [k EXCEPT !.is_sleeping[p] = FALSE,
                 !.why[p]   = "awake",
                 !.sleeping = RemoveFirst(@, p),
                 !.running  = Cons(p, @)]
  ELSE k

\* Mutant: the turn is not paid for.
TicksAfterTurn_free(k) == k.ticks_rem

\* The tick budgets once the current process has paid for its turn.
TicksAfterTurn(k) ==
  IF k.current = NULL
  THEN k.ticks_rem
  ELSE [k.ticks_rem EXCEPT ![k.current] = Dec(@)]

\* Mutant: a process without ticks is eligible.
Eligible_any(l, ticks) == {i \in 1..Len(l) : ticks[l[i]] >= 0}

\* Positions of the run list whose process has ticks left.
Eligible(l, ticks) == {i \in 1..Len(l) : ticks[l[i]] > 0}

\* proc_shedule(): the loop has no break, so the last eligible process of
\* the list wins; with no eligible one all budgets are refilled and the
\* first process of the list runs.
proc_shedule(k) ==
  IF k.running = << >>
  THEN IF k.sleeping = << >>
       THEN [k EXCEPT !.power = FALSE]
       ELSE [proc_regs_save(k, k.current) EXCEPT !.current = NULL, !.frame = NULL]
  ELSE LET ticks == TicksAfterTurn(k)
           el    == Eligible(k.running, ticks)
           next  == IF el # {} THEN k.running[Max(el)] ELSE k.running[1]
           kt    == [k EXCEPT !.current = next,
                              !.ticks_rem =
                                 [p \in Procs |->
                                    IF el = {} /\ Contains(k.running, p)
                                    THEN NICE2TICKS ELSE ticks[p]]]
           ks    == IF k.current # NULL THEN proc_regs_save(kt, k.current) ELSE kt
       IN  IF next = k.current THEN kt ELSE proc_regs_load(ks, next)

\* proc_sleep(proc), called from the function named by call.
proc_sleep(k, p, call) ==
  IF ~k.is_sleeping[p]
  THEN LET ks == [k EXCEPT !.is_sleeping[p] = TRUE,
                           !.why[p]   = call,
                           !.running  = RemoveFirst(@, p),
                           !.sleeping = Cons(p, @)]
       IN  IF p = k.current THEN proc_shedule(ks) ELSE ks
  ELSE k

\* What interrupt_handler() does last: leave the idle loop if it can.
LeaveIdle(k) == IF k.current = NULL THEN proc_shedule(k) ELSE k

-----------------------------------------------------------------------------
(* What the operators above keep true of the scheduler's state, given the  *)
(* set of processes that live (created and not exited).                    *)

\* No process twice in a list.
NoDuplicates(l) == \A i, j \in 1..Len(l) : l[i] = l[j] => i = j

\* A living process is in exactly the list its is_sleeping says; no other
\* process is in a list.
ListsMatch(k, live) ==
  /\ NoDuplicates(k.running) /\ NoDuplicates(k.sleeping)
  /\ \A p \in Procs :
       /\ Contains(k.running, p)  <=> p \in live /\ ~k.is_sleeping[p]
       /\ Contains(k.sleeping, p) <=> p \in live /\ k.is_sleeping[p]

\* The current process is on the run list.
CurrentRuns(k) == k.current # NULL => Contains(k.running, k.current)

\* Budgets are at most one slice, and the current process has some left.
TicksInRange(k) ==
  /\ \A p \in Procs : k.ticks_rem[p] <= NICE2TICKS
  /\ k.current # NULL => k.ticks_rem[k.current] > 0

\* The frame is the current process's; every other living process has its
\* registers saved.
ContextsKept(k, live) ==
  /\ k.frame = k.current
  /\ \A p \in live : p # k.current => p \in k.saved
=============================================================================
