-------------------------------- MODULE Msg --------------------------------
(***************************************************************************)
(* A message queue: kernel2/msg.c and the loop of msgrcv() in              *)
(* apps/lib/stdlibc/msg.c, on the scheduler.  Messages are abstracted to   *)
(* their type and number.  msgsnd() is called with flags 0 or IPC_NOWAIT,  *)
(* for both of which the sender does not sleep.                            *)
(***************************************************************************)
EXTENDS Sched, FiniteSets

CONSTANTS
  Types,      \* message types (positive)
  Wanted,     \* values of msgrcv()'s type parameter
  MAXCALLS,   \* bound: msgsnd() and msgrcv() calls
  MAXUPCALLS  \* bound: upcalls in a behaviour

MsgAssumption ==
  /\ Types \subseteq Nat \ {0} /\ Wanted \subseteq Int
  /\ MAXCALLS \in Nat /\ MAXUPCALLS \in Nat

VARIABLES
  sched,    \* the scheduler
  msq,      \* the queue: whether it exists, msgs and waiting, front first
  rcv,      \* what each process is receiving, and whether it has slept in it
  calls,    \* msgsnd() and msgrcv() calls so far
  upcalls   \* upcalls so far

vars == << sched, msq, rcv, calls, upcalls >>

Idle    == [on |-> FALSE, type |-> 0, nowait |-> FALSE, slept |-> FALSE]
Message == [type : Types, sender : Procs, nowait : BOOLEAN, freed : BOOLEAN]

Init ==
  /\ sched = [running     |-> [i \in Procs |-> i],
              sleeping    |-> << >>,
              is_sleeping |-> [p \in Procs |-> FALSE],
              ticks_rem   |-> [p \in Procs |-> NICE2TICKS],
              current     |-> NULL,
              frame       |-> NULL,
              saved       |-> Procs,
              why         |-> [p \in Procs |-> "awake"],
              power       |-> TRUE]
  /\ msq = [exists |-> FALSE, msgs |-> << >>, waiting |-> << >>]
  /\ rcv = [p \in Procs |-> Idle]
  /\ calls = 0 /\ upcalls = 0

\* p is proc_current, in msgrcv() or not.
At(p, on) == sched.power /\ sched.current = p /\ rcv[p].on = on

\* All of the list are woken, front first.
WakeAll(k, l) == FoldLeft(proc_wake, k, l)

\* ipc_msg_create(key,...), of the one key.
ipc_msg_create(p) ==
  /\ At(p, FALSE) /\ ~msq.exists
  /\ msq' = [exists |-> TRUE, msgs |-> << >>, waiting |-> << >>]
  /\ UNCHANGED << sched, rcv, calls, upcalls >>

\* ipc_msg_destroy(id): no sender sleeps; all waiters are woken.
ipc_msg_destroy(p) ==
  /\ At(p, FALSE) /\ msq.exists
  /\ sched' = WakeAll(sched, msq.waiting)
  /\ msq' = [exists |-> FALSE, msgs |-> << >>, waiting |-> << >>]
  /\ UNCHANGED << rcv, calls, upcalls >>

\* Mutant: only the first waiter is woken, whatever it waits for.
ipc_msg_send_wakes_one(p, type, nowait) ==
  /\ At(p, FALSE) /\ msq.exists /\ calls < MAXCALLS
  /\ calls' = calls + 1
  /\ msq' = [msq EXCEPT !.msgs = Cons([type |-> type, sender |-> p, nowait |-> nowait,
                                       freed |-> FALSE], @),
                        !.waiting = IF @ = << >> THEN @ ELSE Tail(@)]
  /\ sched' = IF msq.waiting = << >> THEN sched ELSE proc_wake(sched, Head(msq.waiting))
  /\ UNCHANGED << rcv, upcalls >>

\* ipc_msg_send(id,data,msgsz,type,flags)
ipc_msg_send(p, type, nowait) ==
  /\ At(p, FALSE) /\ msq.exists /\ calls < MAXCALLS
  /\ calls' = calls + 1
  /\ msq' = [msq EXCEPT !.msgs = Cons([type |-> type, sender |-> p, nowait |-> nowait,
                                       freed |-> FALSE], @),
                        !.waiting = << >>]
  /\ sched' = WakeAll(sched, msq.waiting)
  /\ UNCHANGED << rcv, upcalls >>

\* msgrcv(id,buf,size,type,flags): the start of its loop.
msgrcv(p, type, nowait) ==
  /\ At(p, FALSE) /\ calls < MAXCALLS
  /\ calls' = calls + 1
  /\ rcv' = [rcv EXCEPT ![p] = [on |-> TRUE, type |-> type, nowait |-> nowait,
                                   slept |-> FALSE]]
  /\ UNCHANGED << sched, msq, upcalls >>

\* The condition under which ipc_msg_recv() takes a message.
Matches(msg, type) ==
  msg.type = type \/ type = 0 \/ (type < 0 /\ msg.type <= -type)

\* No message that has not been taken matches.
Nothing(type) == \A i \in DOMAIN msq.msgs : msq.msgs[i].freed \/ ~Matches(msq.msgs[i], type)

\* ipc_msg_recv() takes message i, the first that matches.  The message is
\* freed and stays in the list: what a later call finds there is what it was,
\* or no longer matches.  The sender is woken when its flags equal the
\* receiver's.
Take(p, i) ==
  /\ At(p, TRUE) /\ msq.exists
  /\ Matches(msq.msgs[i], rcv[p].type)
  /\ \A j \in 1..(i - 1) : msq.msgs[j].freed \/ ~Matches(msq.msgs[j], rcv[p].type)
  /\ msq' = [msq EXCEPT !.msgs[i].freed = TRUE]
  /\ sched' = IF msq.msgs[i].nowait = rcv[p].nowait
              THEN proc_wake(sched, msq.msgs[i].sender) ELSE sched
  /\ rcv' = [rcv EXCEPT ![p] = Idle]
  /\ UNCHANGED << calls, upcalls >>

\* ipc_msg_recv() finds nothing and sleeps.  Its result is lost
\* (syscall_handler() stores it only for the process that is current), so
\* msgrcv() continues with whatever eax holds: it repeats the call, returns
\* an error, or returns although nothing was received.
Wait(p) ==
  /\ At(p, TRUE) /\ msq.exists /\ ~rcv[p].nowait
  /\ Nothing(rcv[p].type)
  /\ msq' = [msq EXCEPT !.waiting = Cons(p, @)]
  /\ sched' = proc_sleep(sched, p, "msg")
  /\ rcv' = [rcv EXCEPT ![p].slept = TRUE]
  /\ UNCHANGED << calls, upcalls >>

\* msgrcv() returns: with ENOMSG or EINVAL, or with what eax held after the
\* sleep.
Fail(p) ==
  /\ At(p, TRUE)
  /\ ~msq.exists \/ rcv[p].slept \/ (rcv[p].nowait /\ Nothing(rcv[p].type))
  /\ rcv' = [rcv EXCEPT ![p] = Idle]
  /\ UNCHANGED << sched, msq, calls, upcalls >>

\* interrupt_timer(), with no timed sleeper
interrupt_timer ==
  /\ sched.power /\ sched' = proc_shedule(sched)
  /\ UNCHANGED << msq, rcv, calls, upcalls >>

\* An upcall (proc_call) wakes p, whatever it sleeps in.
proc_call(p) ==
  /\ sched.power /\ upcalls < MAXUPCALLS
  /\ upcalls' = upcalls + 1
  /\ sched' = LeaveIdle(proc_wake(sched, p))
  /\ UNCHANGED << msq, rcv, calls >>

Next ==
  \/ \E p \in Procs :
       \/ ipc_msg_create(p) \/ ipc_msg_destroy(p)
       \/ \E t \in Types, b \in BOOLEAN : ipc_msg_send(p, t, b)
       \/ \E t \in Wanted, b \in BOOLEAN : msgrcv(p, t, b)
       \/ \E i \in DOMAIN msq.msgs : Take(p, i)
       \/ Wait(p) \/ Fail(p) \/ proc_call(p)
  \/ interrupt_timer

Spec == Init /\ [][Next]_vars

-----------------------------------------------------------------------------
(* Properties *)

\* The type of the queue and of the scheduler it works on.
MsgTypeOK ==
  /\ sched \in SchedType
  /\ msq.exists \in BOOLEAN /\ msq.msgs \in Seq(Message) /\ msq.waiting \in Seq(Procs)
  /\ rcv \in [Procs -> [on : BOOLEAN, type : Wanted \cup {0}, nowait : BOOLEAN,
                    slept : BOOLEAN]]
  /\ calls \in 0..MAXCALLS /\ upcalls \in 0..MAXUPCALLS

Asleep(p) == sched.is_sleeping[p] /\ rcv[p].on

\* No wake-up is lost between ipc_msg_recv() and ipc_msg_send(): a receiver
\* that sleeps is in the list of the existing queue, which the next
\* ipc_msg_send() or ipc_msg_destroy() wakes, and no message that it would
\* take has arrived.
NoMissedMessage ==
  \A p \in Procs : Asleep(p) =>
    msq.exists /\ Contains(msq.waiting, p) /\ Nothing(rcv[p].type)
=============================================================================
