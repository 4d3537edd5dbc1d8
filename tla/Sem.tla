-------------------------------- MODULE Sem --------------------------------
(***************************************************************************)
(* A semaphore set of one semaphore: kernel2/sem.c and the loop of semop() *)
(* in apps/lib/stdlibc/sem.c, on the scheduler.                            *)
(*                                                                         *)
(* ipc_sem_op() performs a list of operations in one system call.  It goes *)
(* on after proc_sleep(), by then on behalf of the process that was        *)
(* scheduled next, and breaks off where proc_sleep() enters the idle loop. *)
(***************************************************************************)
EXTENDS Sched

CONSTANTS
  OpLists,    \* the lists of operations that programs pass to semop()
  MAXVAL,     \* bound: value of the semaphore
  MAXUPCALLS  \* bound: upcalls in a behaviour

SemAssumption ==
  /\ OpLists \subseteq Seq([op : Int, nowait : BOOLEAN])
  /\ MAXVAL \in Nat /\ MAXUPCALLS \in Nat

VARIABLES
  sched,    \* the scheduler
  sem,      \* the semaphore: val, waitn and waitz (front first), exists
  pc,       \* "user", or "semop" in the loop of semop()
  ops,      \* the operations of that semop()
  done,     \* history: its operations have been performed since it started
  slept,    \* its last ipc_sem_op() slept: the result is what eax held
  upcalls   \* upcalls so far

vars == << sched, sem, pc, ops, done, slept, upcalls >>

Init ==
  /\ sched = [running     |-> [i \in Procs |-> i],
              sleeping    |-> << >>,
              is_sleeping |-> [p \in Procs |-> FALSE],
              ticks_rem   |-> [p \in Procs |-> NICE2TICKS],
              current     |-> NULL,
              frame       |-> NULL,
              saved       |-> Procs,
              why         |-> [p \in Procs |-> "awake"],
              power       |-> TRUE]
  /\ sem = [exists |-> TRUE, val |-> 0, waitn |-> << >>, waitz |-> << >>]
  /\ pc = [p \in Procs |-> "user"]
  /\ ops = [p \in Procs |-> << >>]
  /\ done = [p \in Procs |-> FALSE]
  /\ slept = [p \in Procs |-> FALSE]
  /\ upcalls = 0

At(p, l) == sched.power /\ sched.current = p /\ pc[p] = l

-----------------------------------------------------------------------------
(* ipc_sem_op(), on a record r: the scheduler k, the semaphore s, and       *)
(* whether the call goes on.                                                *)

\* Waiters for an increase are popped; those that need less than the value
\* are woken.
WakeN(r) ==
  [r EXCEPT !.k = FoldLeft(LAMBDA k, w : IF w.val < r.s.val THEN proc_wake(k, w.proc) ELSE k,
                           @, r.s.waitn),
            !.s.waitn = << >>]

\* Waiters for zero are popped and woken.
WakeZ(r) == [r EXCEPT !.k = FoldLeft(proc_wake, @, r.s.waitz), !.s.waitz = << >>]

\* The end of the loop body.
WakeWaiters(r) ==
  IF r.s.val = 0 THEN WakeZ(r) ELSE IF r.s.val > 0 THEN WakeN(r) ELSE r

\* Mutant: a process waits without being asleep.
OneOp_no_sleep(r, o) ==
  LET k == r.k  p == r.k.current
  IN  IF ~r.on THEN r
      ELSE IF o.op < 0
      THEN IF -o.op <= r.s.val THEN WakeWaiters([r EXCEPT !.s.val = @ + o.op])
           ELSE IF o.nowait THEN [r EXCEPT !.on = FALSE]
           ELSE [r EXCEPT !.s.waitn = Cons([proc |-> p, val |-> -o.op], @), !.on = FALSE]
      ELSE IF o.op > 0 THEN WakeWaiters([r EXCEPT !.s.val = @ + o.op])
      ELSE LET z == [r EXCEPT !.s.waitz = Cons(p, @), !.k = proc_sleep(k, p, "sem")]
           IN  IF z.k.current = NULL THEN [z EXCEPT !.on = FALSE] ELSE WakeWaiters(z)

\* One operation, by the process that is current now.
OneOp(r, o) ==
  LET k == r.k  p == r.k.current
  IN  IF ~r.on THEN r
      ELSE IF o.op < 0
      THEN IF -o.op <= r.s.val THEN WakeWaiters([r EXCEPT !.s.val = @ + o.op])
           ELSE IF o.nowait THEN [r EXCEPT !.on = FALSE]
           ELSE [r EXCEPT !.s.waitn = Cons([proc |-> p, val |-> -o.op], @),
                          !.k = proc_sleep(k, p, "sem"), !.on = FALSE]
      ELSE IF o.op > 0 THEN WakeWaiters([r EXCEPT !.s.val = @ + o.op])
      ELSE LET z == [r EXCEPT !.s.waitz = Cons(p, @), !.k = proc_sleep(k, p, "sem")]
           IN  IF z.k.current = NULL THEN [z EXCEPT !.on = FALSE] ELSE WakeWaiters(z)

-----------------------------------------------------------------------------
\* semop(id,ops,nops): the start of its loop.
semop(p, os) ==
  /\ At(p, "user")
  /\ pc' = [pc EXCEPT ![p] = "semop"] /\ ops' = [ops EXCEPT ![p] = os]
  /\ done' = [done EXCEPT ![p] = FALSE] /\ slept' = [slept EXCEPT ![p] = FALSE]
  /\ UNCHANGED << sched, sem, upcalls >>

\* ipc_sem_op(id,ops,nops): the result is 0 when all operations were
\* performed, and less than nops in any case, so semop() repeats it.
ipc_sem_op(p) ==
  LET r == FoldLeft(OneOp, [k |-> sched, s |-> sem, on |-> TRUE], ops[p])
  IN  /\ At(p, "semop") /\ sem.exists
      /\ r.s.val <= MAXVAL
      /\ sched' = r.k /\ sem' = r.s
      /\ done' = [done EXCEPT ![p] = @ \/ r.on]
      /\ slept' = [slept EXCEPT ![p] = r.k.current # p]
      /\ UNCHANGED << pc, ops, upcalls >>

\* semop() returns: ipc_sem_op() found no semaphore, or the caller has slept
\* in it and eax held a negative value or one that is not less than nops.
semop_end(p) ==
  /\ At(p, "semop") /\ (~sem.exists \/ slept[p])
  /\ pc' = [pc EXCEPT ![p] = "user"]
  /\ UNCHANGED << sched, sem, ops, done, slept, upcalls >>

\* ipc_sem_setval(id,0,val): nobody is woken.  ipc_sem_setall() does the same.
ipc_sem_setval(p, v) ==
  /\ At(p, "user") /\ sem.exists
  /\ sem' = [sem EXCEPT !.val = v]
  /\ UNCHANGED << sched, pc, ops, done, slept, upcalls >>

\* ipc_sem_destroy(id)
ipc_sem_destroy(p) ==
  LET r == WakeN(WakeZ([k |-> sched, s |-> sem, on |-> TRUE]))
  IN  /\ At(p, "user") /\ sem.exists
      /\ sched' = r.k /\ sem' = [r.s EXCEPT !.exists = FALSE]
      /\ UNCHANGED << pc, ops, done, slept, upcalls >>

\* interrupt_timer(), with no timed sleeper
interrupt_timer ==
  /\ sched.power /\ sched' = proc_shedule(sched)
  /\ UNCHANGED << sem, pc, ops, done, slept, upcalls >>

\* An upcall (proc_call) wakes p, whatever it sleeps in.
proc_call(p) ==
  /\ sched.power /\ upcalls < MAXUPCALLS
  /\ upcalls' = upcalls + 1
  /\ sched' = LeaveIdle(proc_wake(sched, p))
  /\ UNCHANGED << sem, pc, ops, done, slept >>

Step(p) == ipc_sem_op(p) \/ semop_end(p)

Next ==
  \/ \E p \in Procs :
       \/ \E os \in OpLists : semop(p, os)
       \/ Step(p)
       \/ \E v \in 0..1 : ipc_sem_setval(p, v)
       \/ ipc_sem_destroy(p)
       \/ proc_call(p)
  \/ interrupt_timer

Spec == Init /\ [][Next]_vars

\* The timer keeps ticking, and a process that gets the CPU again and again
\* reaches its next system call.
FairSpec == Spec /\ WF_vars(interrupt_timer) /\ \A p \in Procs : SF_vars(Step(p))

-----------------------------------------------------------------------------
(* Properties *)

\* The type of the semaphore and of the scheduler it works on.
SemTypeOK ==
  /\ sched \in SchedType
  /\ sem.exists \in BOOLEAN /\ sem.val \in Int
  /\ sem.waitn \in Seq([proc : Procs, val : Nat]) /\ sem.waitz \in Seq(Procs)
  /\ pc \in [Procs -> {"user", "semop"}] /\ ops \in [Procs -> OpLists \cup {<< >>}]
  /\ {done, slept} \subseteq [Procs -> BOOLEAN]

\* A list of operations never takes more than there is, whatever other
\* processes do while one of them sleeps in the middle of its list.
ValueNotNegative == sem.val >= 0

\* Whoever is in a wait list is asleep in ipc_sem_op(): as long as nobody is
\* woken from outside, ipc_sem_op() takes a process off the list before it
\* wakes it, and sleeps after it has put one on.
ListedSleep ==
  upcalls = 0 =>
    /\ \A i \in DOMAIN sem.waitn : sched.why[sem.waitn[i].proc] = "sem"
    /\ \A i \in DOMAIN sem.waitz : sched.why[sem.waitz[i]] = "sem"

\* "@return Number of operations progressed" of ipc_sem_op(), which the loop
\* of semop() relies on: once its operations have been performed, semop()
\* returns.
SemopReturns == \A p \in Procs : pc[p] = "semop" /\ done[p] ~> pc[p] = "user"
=============================================================================
