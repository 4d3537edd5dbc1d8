----------------------------- MODULE ProcmProofs -----------------------------
(***************************************************************************)
(* Machine-checked safety of Procm for any number of processes, IRQ lines, *)
(* list entries and any clock width.  The inductive invariant IInv adds to *)
(* the properties of Procm that every pointer held by a list or a process  *)
(* is to a process on proc_all, and that an exited process is never marked *)
(* asleep: that is what makes the late proc_wake() calls of timers, IRQs   *)
(* and signals harmless.                                                   *)
(***************************************************************************)
EXTENDS Procm, SchedProofs

\* The pointers of the waiter lists and of parents are to created processes.
RefsExist ==
  /\ \A i \in 1..Len(interrupt_sleep) : interrupt_sleep[i].proc \in proc_all
  /\ \A n \in Irqs : \A i \in 1..Len(interrupt_irq[n]) : interrupt_irq[n][i].proc \in proc_all
  /\ \A p \in proc_all : parent[p] \in proc_all \cup {NULL}

\* Only created processes exit, and an exited one is not marked asleep.
DefunctAwake == \A p \in Procs : defunc[p] => p \in proc_all /\ ~sched.is_sleeping[p]

\* The inductive invariant.
IInv ==
  /\ TypeOK
  /\ SchedInv(sched, Live)
  /\ RefsExist
  /\ DefunctAwake
  /\ ChildExitNotMissed
  /\ NoLostTimer

-----------------------------------------------------------------------------
\* The ranges of proc_all and Live.
LEMMA ProcSets ==
  ASSUME TypeOK
  PROVE  /\ NULL \notin Procs /\ Procs \subseteq Int
         /\ proc_all \subseteq Procs /\ Live \subseteq proc_all /\ Live \in SUBSET Procs
         /\ 1 \in Procs
  BY SchedAssumption, ProcmAssumption DEF TypeOK, Procs, NULL, proc_all, Live

\* A process that makes a system call lives and is awake.
LEMMA CallerLives ==
  ASSUME IInv, InUser
  PROVE  /\ sched.current \in Procs /\ sched.current \in Live /\ sched.current \in proc_all
         /\ ~sched.is_sleeping[sched.current]
<1>1. sched.current \in Procs
  BY DEF IInv, TypeOK, InUser, SchedType
<1>2. QED
  BY <1>1, ProcSets DEF IInv, InUser, SchedInv, SchedOK, CurrentRuns, ListsMatch

\* The boot state satisfies the invariant.
LEMMA InitOK == Init => IInv
<1> SUFFICES ASSUME Init PROVE IInv
  OBVIOUS
<1> DEFINE sl == [i \in 1..(NBOOT - 1) |-> NBOOT + 1 - i]
<1>1. NBOOT \in 1..MAXPROC /\ MAXPROC \in Nat /\ NBOOT \in Nat /\ 1 \in Procs
  BY SchedAssumption, ProcmAssumption DEF Procs
<1>2. sl \in Seq(Procs) /\ Len(sl) = NBOOT - 1
  <2>1. sl \in [1..(NBOOT - 1) -> Procs] /\ NBOOT - 1 \in Nat
    BY <1>1 DEF Procs
  <2>2. QED BY <2>1
<1>3. proc_all = 1..NBOOT /\ Live = 1..NBOOT
  BY <1>1 DEF Init, proc_all, Live, Procs
<1>4. wait \in [Procs -> BOOLEAN] /\ wait_pid \in [Procs -> Int]
  <2>1. PICK g \in [Procs -> Garbage] :
          /\ wait     = [p \in Procs |-> g[p][1]]
          /\ wait_pid = [p \in Procs |-> g[p][2]]
    BY DEF Init
  <2>2. \A p \in Procs : g[p] \in BOOLEAN \X Int
    BY ProcmAssumption
  <2>3. QED BY <2>1, <2>2
<1>5. sched \in SchedType
  <2>1. <<1>> \in Seq(Procs)
    BY <1>1
  <2>2. 1..NBOOT \in SUBSET Procs
    BY <1>1 DEF Procs
  <2>3. [p \in Procs |-> NICE2TICKS] \in [Procs -> 0..CLOCK_MAX]
    BY SchedAssumption DEF NICE2TICKS
  <2>4. [p \in Procs |-> IF p = 1 THEN "awake" ELSE "start"] \in [Procs -> Reasons]
    BY DEF Reasons
  <2>5. QED BY <1>2, <2>1, <2>2, <2>3, <2>4 DEF Init, SchedType
<1>6. TypeOK
  BY <1>1, <1>4, <1>5 DEF Init, TypeOK, NoLoop, LoopType, NULL, Procs
<1>7. ListsMatch(sched, Live)
  <2>1. sched.running = <<1>> /\ sched.sleeping = sl
        /\ sched.is_sleeping = [p \in Procs |-> p # 1]
    BY DEF Init
  <2>2. NoDuplicates(<<1>>) /\ \A p : Contains(<<1>>, p) <=> p = 1
    BY DEF NoDuplicates, Contains
  <2>3. NoDuplicates(sl)
    BY <1>1, <1>2 DEF NoDuplicates
  <2>4. ASSUME NEW p \in Procs PROVE Contains(sl, p) <=> p \in 2..NBOOT
    <3>1. ASSUME NEW i \in 1..Len(sl), sl[i] = p PROVE p \in 2..NBOOT
      BY <3>1, <1>1, <1>2
    <3>2. ASSUME p \in 2..NBOOT PROVE NBOOT + 1 - p \in 1..Len(sl) /\ sl[NBOOT + 1 - p] = p
      <4>1. NBOOT + 1 - p \in 1..(NBOOT - 1) /\ NBOOT + 1 - (NBOOT + 1 - p) = p
        BY <3>2, <1>1
      <4>2. QED BY <4>1, <1>2
    <3>3. QED BY <3>1, <3>2 DEF Contains
  <2> HIDE DEF sl
  <2>5. ASSUME NEW p \in Procs
        PROVE  /\ Contains(sched.running, p)  <=> p \in Live /\ ~sched.is_sleeping[p]
               /\ Contains(sched.sleeping, p) <=> p \in Live /\ sched.is_sleeping[p]
    <3>1. sched.is_sleeping[p] <=> p # 1
      BY <2>1
    <3>2. p \in Int /\ (p \in Live <=> p \in 1..NBOOT)
      BY <1>1, <1>3 DEF Procs
    <3>3. Contains(sched.running, p) <=> p = 1
      BY <2>1, <2>2
    <3>4. Contains(sched.sleeping, p) <=> p \in 2..NBOOT
      BY <2>1, <2>4
    <3>5. QED BY <1>1, <3>1, <3>2, <3>3, <3>4
  <2>6. QED BY <2>1, <2>2, <2>3, <2>5 DEF ListsMatch
<1>8. SchedInv(sched, Live)
  <2>1. /\ sched.is_sleeping = [p \in Procs |-> p # 1]
        /\ sched.why = [p \in Procs |-> IF p = 1 THEN "awake" ELSE "start"]
        /\ sched.ticks_rem = [p \in Procs |-> NICE2TICKS]
        /\ sched.current = NULL /\ sched.frame = NULL /\ sched.saved = 1..NBOOT
    BY DEF Init
  <2>2. TicksInRange(sched) /\ CurrentRuns(sched)
    BY <2>1 DEF TicksInRange, CurrentRuns, NICE2TICKS
  <2>3. ContextsKept(sched, Live)
    BY <1>3, <2>1 DEF ContextsKept
  <2>4. WhyMatches(sched)
    <3>1. ASSUME NEW p \in Procs PROVE sched.why[p] = "awake" <=> ~sched.is_sleeping[p]
      <4>1. sched.why[p] = IF p = 1 THEN "awake" ELSE "start"
        BY <2>1
      <4>2. sched.is_sleeping[p] <=> p # 1
        BY <2>1
      <4>3. QED BY <4>1, <4>2
    <3>2. QED BY <3>1 DEF WhyMatches
  <2>5. QED BY <1>5, <1>7, <2>2, <2>3, <2>4 DEF SchedInv, SchedOK
<1>9. RefsExist /\ DefunctAwake /\ ChildExitNotMissed /\ NoLostTimer
  BY <1>1, <1>3 DEF Init, RefsExist, DefunctAwake, ChildExitNotMissed, NoLostTimer, AsleepIn, Procs, NULL
<1>10. QED
  BY <1>6, <1>8, <1>9 DEF IInv

-----------------------------------------------------------------------------
\* A late proc_wake() is safe: a created process lives or is not asleep.
LEMMA WakeIsSafe ==
  ASSUME IInv, NEW q \in proc_all
  PROVE  LET w == proc_wake(sched, q)
         IN  /\ SchedInv(w, Live)
             /\ w.current = sched.current /\ w.power = sched.power
             /\ w.is_sleeping = [sched.is_sleeping EXCEPT ![q] = FALSE]
             /\ w.why = IF sched.is_sleeping[q] THEN [sched.why EXCEPT ![q] = "awake"] ELSE sched.why
<1>1. q \in Procs /\ Live \in SUBSET Procs
  BY ProcSets DEF IInv
<1>2. q \in Live \/ ~sched.is_sleeping[q]
  BY <1>1 DEF IInv, DefunctAwake, Live
<1>3. QED
  BY <1>1, <1>2, WakeKeeps DEF IInv

\* Steps that change nothing but the scheduler, and there only put living
\* processes to sleep or wake processes up, keep everything but SchedInv.
LEMMA WakesKeepRest ==
  ASSUME IInv, SchedInv(sched', Live'),
         UNCHANGED << proc_nextpid, parent, defunc, wait, wait_pid, signal >>,
         \A p \in Procs : sched'.why[p] # "awake" => sched'.why[p] = sched.why[p]
  PROVE  /\ Live' = Live /\ proc_all' = proc_all
         /\ DefunctAwake'
         /\ ChildExitNotMissed'
<1>1. Live' = Live /\ proc_all' = proc_all
  BY DEF Live, proc_all
<1>2. \A p \in Procs : sched'.is_sleeping[p] => sched.is_sleeping[p]
  BY DEF IInv, SchedInv, SchedOK, WhyMatches, SchedType, Reasons
<1>3. DefunctAwake'
  BY <1>1, <1>2 DEF IInv, DefunctAwake
<1>4. ChildExitNotMissed'
  BY <1>1, ProcSets DEF IInv, ChildExitNotMissed, AsleepIn
<1>5. QED
  BY <1>1, <1>3, <1>4

\* A sleep of the caller: the scheduler's part.
LEMMA CallerSleeps ==
  ASSUME IInv, InUser, NEW call \in Reasons, call # "awake",
         sched' = proc_sleep(sched, sched.current, call)
  PROVE  /\ SchedInv(sched', Live)
         /\ sched'.is_sleeping = [sched.is_sleeping EXCEPT ![sched.current] = TRUE]
         /\ sched'.why = [sched.why EXCEPT ![sched.current] = call]
<1>1. /\ Live \in SUBSET Procs /\ SchedInv(sched, Live) /\ sched.current \in Live
      /\ ~sched.is_sleeping[sched.current]
  BY CallerLives, ProcSets DEF IInv
<1>2. QED
  BY <1>1, SleepKeeps

-----------------------------------------------------------------------------
(* One lemma per action: it preserves the inductive invariant. *)

\* proc_create() adds a sleeping process under a new pid.
LEMMA CreateKeeps ==
  ASSUME IInv, NEW q \in Procs, proc_create(q)
  PROVE  IInv'
<1> DEFINE new == proc_nextpid
<1>1. /\ new \in Procs /\ new \notin proc_all /\ proc_all' = proc_all \cup {new}
      /\ proc_all \subseteq Procs /\ proc_nextpid' \in (NBOOT + 1)..(MAXPROC + 1)
      /\ NULL \notin Procs
  <2>1. /\ new \in Int /\ new >= NBOOT + 1 /\ new <= MAXPROC /\ NBOOT \in 1..MAXPROC
        /\ MAXPROC \in Nat /\ proc_nextpid' = new + 1
    BY SchedAssumption, ProcmAssumption DEF proc_create, IInv, TypeOK, Procs
  <2>2. proc_all = 1..(new - 1) /\ proc_all' = 1..new
    BY <2>1 DEF proc_all
  <2> HIDE DEF new
  <2>3. QED BY <2>1, <2>2 DEF Procs, NULL
<1>2. ~defunc[new] /\ Live' = Live \cup {new} /\ new \notin Live
  BY <1>1 DEF proc_create, IInv, DefunctAwake, Live
<1>3. /\ sched \in SchedType /\ SchedInv(sched, Live)
  BY DEF IInv, TypeOK
<1> DEFINE c == Cons(new, sched.sleeping)
<1>4. ~Contains(sched.sleeping, new) /\ ~Contains(sched.running, new)
  BY <1>1, <1>2 DEF IInv, SchedInv, SchedOK, ListsMatch
<1>5. /\ c \in Seq(Procs) /\ NoDuplicates(c)
      /\ \A x \in Procs : Contains(c, x) <=> (Contains(sched.sleeping, x) \/ x = new)
  <2>1. sched.sleeping \in Seq(Procs) /\ NoDuplicates(sched.sleeping)
    BY <1>3 DEF SchedType, SchedInv, SchedOK, ListsMatch
  <2>2. QED BY <1>1, <1>4, <2>1, ConsKeeps
<1>6. /\ sched'.running = sched.running /\ sched'.sleeping = c
      /\ sched'.is_sleeping = [sched.is_sleeping EXCEPT ![new] = TRUE]
      /\ sched'.why = [sched.why EXCEPT ![new] = "start"]
      /\ sched'.ticks_rem = [sched.ticks_rem EXCEPT ![new] = NICE2TICKS]
      /\ sched'.current = sched.current /\ sched'.frame = sched.frame
      /\ sched'.saved = sched.saved \cup {new} /\ sched'.power = sched.power
      /\ sched' \in SchedType
  <2> DEFINE z == [sched.is_sleeping EXCEPT ![new] = TRUE]
             y == [sched.why EXCEPT ![new] = "start"]
             t == [sched.ticks_rem EXCEPT ![new] = NICE2TICKS]
             u == sched.saved \cup {new}
  <2>1. sched' = [sched EXCEPT !.sleeping = c, !.is_sleeping = z, !.why = y, !.ticks_rem = t,
                               !.saved = u]
    BY <1>3 DEF proc_create, SchedType
  <2>2. /\ z \in [Procs -> BOOLEAN] /\ y \in [Procs -> Reasons]
        /\ t \in [Procs -> 0..CLOCK_MAX] /\ u \in SUBSET Procs
    BY <1>1, <1>3, SchedAssumption DEF SchedType, Reasons, NICE2TICKS
  <2> HIDE DEF z, y, t, u, c
  <2>3. /\ sched' \in SchedType
        /\ sched'.running = sched.running /\ sched'.sleeping = c
        /\ sched'.is_sleeping = z /\ sched'.why = y /\ sched'.ticks_rem = t
        /\ sched'.current = sched.current /\ sched'.frame = sched.frame
        /\ sched'.saved = u /\ sched'.power = sched.power
    BY <1>3, <1>5, <2>1, <2>2 DEF SchedType
  <2>4. QED BY <2>3 DEF z, y, t, u
<1> HIDE DEF new, c
<1>7. TypeOK'
  BY <1>1, <1>6 DEF proc_create, IInv, TypeOK, new
<1>a. ASSUME NEW x \in Procs PROVE sched'.is_sleeping[x] <=> x = new \/ sched.is_sleeping[x]
  <2>1. sched.is_sleeping \in [Procs -> BOOLEAN]
    BY <1>3 DEF SchedType
  <2>2. CASE x = new
    BY <1>1, <1>6, <2>1, <2>2
  <2>3. CASE x # new
    BY <1>1, <1>6, <2>1, <2>3
  <2>4. QED BY <2>2, <2>3
<1>8. ListsMatch(sched', Live')
  BY <1>1, <1>2, <1>3, <1>4, <1>5, <1>6, <1>a DEF SchedInv, SchedOK, ListsMatch
<1>9. TicksInRange(sched')
  BY <1>1, <1>3, <1>6 DEF SchedInv, SchedOK, TicksInRange, SchedType, NICE2TICKS
<1>10. ContextsKept(sched', Live')
  BY <1>2, <1>3, <1>6 DEF SchedInv, SchedOK, ContextsKept
<1>11. WhyMatches(sched')
  BY <1>1, <1>3, <1>6 DEF SchedInv, SchedOK, WhyMatches, SchedType
<1>12. CurrentRuns(sched')
  BY <1>3, <1>6 DEF SchedInv, CurrentRuns
<1>13. RefsExist'
  <2>1. parent' = [parent EXCEPT ![new] = q] /\ q \in proc_all
    BY DEF proc_create, new
  <2>2. \A p \in proc_all' : parent'[p] \in proc_all' \cup {NULL}
    BY <1>1, <2>1 DEF IInv, TypeOK, RefsExist
  <2>3. QED BY <1>1, <2>2 DEF proc_create, IInv, RefsExist
<1>14. DefunctAwake'
  BY <1>1, <1>2, <1>a DEF proc_create, IInv, DefunctAwake
<1>15. ChildExitNotMissed'
  <2>1. \A p \in proc_all' : AsleepIn(p, "waitpid")' => p # new /\ p \in proc_all /\ AsleepIn(p, "waitpid")
    BY <1>1, <1>3, <1>6 DEF AsleepIn, SchedType
  <2>2. \A c2 \in Procs : c2 # new => parent'[c2] = parent[c2]
    BY DEF proc_create, new, IInv, TypeOK
  <2>3. defunc' = defunc /\ wait' = wait /\ wait_pid' = wait_pid
    BY DEF proc_create
  <2>4. QED BY <1>2, <2>1, <2>2, <2>3 DEF IInv, ChildExitNotMissed
<1>16. NoLostTimer'
  BY <1>1, <1>3, <1>6 DEF proc_create, IInv, NoLostTimer, AsleepIn, SchedType
<1>17. QED
  BY <1>6, <1>7, <1>8, <1>9, <1>10, <1>11, <1>12, <1>13, <1>14, <1>15, <1>16
     DEF IInv, SchedInv, SchedOK

\* A caller that goes to sleep stays a living process; nobody else changes.
LEMMA SleeperFacts ==
  ASSUME IInv, InUser, NEW call \in Reasons, call # "awake",
         sched' = proc_sleep(sched, sched.current, call),
         UNCHANGED << proc_nextpid, parent, defunc, signal, interrupt_irq, loop >>
  PROVE  /\ sched' \in SchedType /\ SchedInv(sched', Live') /\ DefunctAwake'
         /\ Live' = Live /\ proc_all' = proc_all
         /\ \A p \in Procs : sched'.why[p] = IF p = sched.current THEN call ELSE sched.why[p]
<1>1. Live' = Live /\ proc_all' = proc_all
  BY DEF Live, proc_all
<1>2. /\ SchedInv(sched', Live)
      /\ sched'.is_sleeping = [sched.is_sleeping EXCEPT ![sched.current] = TRUE]
      /\ sched'.why = [sched.why EXCEPT ![sched.current] = call]
  BY CallerSleeps
<1>3. sched.current \in Live /\ sched.current \in Procs /\ sched \in SchedType
  BY CallerLives DEF IInv, TypeOK
<1>4. \A p \in Procs : p # sched.current => sched'.is_sleeping[p] = sched.is_sleeping[p]
  BY <1>2, <1>3 DEF SchedType
<1>5. DefunctAwake'
  BY <1>1, <1>3, <1>4 DEF IInv, DefunctAwake, Live
<1>6. \A p \in Procs : sched'.why[p] = IF p = sched.current THEN call ELSE sched.why[p]
  BY <1>2, <1>3 DEF SchedType
<1>7. QED
  BY <1>1, <1>2, <1>5, <1>6 DEF SchedInv, SchedOK

\* proc_stop()
LEMMA StopKeeps ==
  ASSUME IInv, proc_stop
  PROVE  IInv'
<1>1. /\ sched' \in SchedType /\ SchedInv(sched', Live') /\ DefunctAwake'
      /\ Live' = Live /\ proc_all' = proc_all
      /\ \A p \in Procs : sched'.why[p] = IF p = sched.current THEN "stop" ELSE sched.why[p]
  BY SleeperFacts DEF proc_stop, Reasons
<1>2. TypeOK' /\ RefsExist'
  BY <1>1 DEF proc_stop, IInv, TypeOK, RefsExist
<1>3. ChildExitNotMissed' /\ NoLostTimer'
  BY <1>1, ProcSets DEF proc_stop, IInv, ChildExitNotMissed, NoLostTimer, AsleepIn
<1>4. QED
  BY <1>1, <1>2, <1>3 DEF IInv

\* proc_waitpid(): the test of defunc before sleeping is what keeps
\* ChildExitNotMissed.
LEMMA WaitpidKeeps ==
  ASSUME IInv, NEW pid \in WaitArgs, proc_waitpid(pid)
  PROVE  IInv'
<1>1. /\ sched' \in SchedType /\ SchedInv(sched', Live') /\ DefunctAwake'
      /\ Live' = Live /\ proc_all' = proc_all
      /\ \A p \in Procs : sched'.why[p] = IF p = sched.current THEN "waitpid" ELSE sched.why[p]
  BY SleeperFacts DEF proc_waitpid, Reasons
<1>2. sched.current \in Procs
  BY CallerLives DEF proc_waitpid
<1>3. TypeOK' /\ RefsExist'
  BY <1>1, <1>2, ProcmAssumption DEF proc_waitpid, IInv, TypeOK, RefsExist
<1>4. ChildExitNotMissed'
  <2>1. SUFFICES ASSUME NEW p \in proc_all', AsleepIn(p, "waitpid")', ~defunc'[p]
                 PROVE  /\ wait'[p]
                        /\ wait_pid'[p] \in Procs /\ parent'[wait_pid'[p]] = p
                             => ~defunc'[wait_pid'[p]]
    BY DEF ChildExitNotMissed
  <2>2. p \in Procs
    BY <1>1, ProcSets DEF IInv
  <2>3. CASE p = sched.current
    <3>1. wait'[p] /\ wait_pid'[p] = pid
      BY <1>2, <2>3 DEF proc_waitpid, IInv, TypeOK
    <3>2. pid \in Procs => ~defunc[pid]
      BY DEF proc_waitpid, Procs
    <3>3. QED BY <3>1, <3>2 DEF proc_waitpid
  <2>4. CASE p # sched.current
    <3>1. wait'[p] = wait[p] /\ wait_pid'[p] = wait_pid[p]
      BY <1>2, <2>2, <2>4 DEF proc_waitpid, IInv, TypeOK
    <3>2. AsleepIn(p, "waitpid")
      BY <1>1, <2>1, <2>2, <2>4 DEF AsleepIn
    <3>3. QED BY <1>1, <2>1, <3>1, <3>2 DEF proc_waitpid, IInv, ChildExitNotMissed
  <2>5. QED BY <2>3, <2>4
<1>5. NoLostTimer'
  BY <1>1, ProcSets DEF proc_waitpid, IInv, NoLostTimer, AsleepIn
<1>6. QED
  BY <1>1, <1>3, <1>4, <1>5 DEF IInv

\* List t is list s with e pushed at its front.
Pushed(S, s, e, t) ==
  /\ t \in Seq(S) /\ 1 \in 1..Len(t) /\ t[1] = e
  /\ \A i \in 1..Len(s) : i + 1 \in 1..Len(t) /\ t[i + 1] = s[i]
  /\ \A j \in 1..Len(t) : t[j] = e \/ \E i \in 1..Len(s) : t[j] = s[i]

\* A timer or IRQ entry is pushed: it is at position 1, the others move up.
LEMMA PushEntry ==
  ASSUME NEW S, NEW s \in Seq(S), NEW e \in S
  PROVE  Pushed(S, s, e, Cons(e, s))
<1> DEFINE t == Cons(e, s)
<1>1. /\ t \in Seq(S) /\ Len(t) = Len(s) + 1 /\ t[1] = e
      /\ \A i \in 1..Len(s) : i + 1 \in 1..Len(t) /\ t[i+1] = s[i]
  BY DEF Cons
<1> HIDE DEF t
<1>2. ASSUME NEW j \in 1..Len(t) PROVE t[j] = e \/ \E i \in 1..Len(s) : t[j] = s[i]
  <2>1. CASE j = 1
    BY <1>1, <2>1
  <2>2. CASE j # 1
    <3>1. j - 1 \in 1..Len(s) /\ (j - 1) + 1 = j
      BY <1>1, <2>2
    <3>2. t[j] = s[j - 1]
      BY <1>1, <3>1
    <3>3. QED BY <3>1, <3>2
  <2>3. QED BY <2>1, <2>2
<1>3. 1 \in 1..Len(t)
  BY <1>1
<1>4. Pushed(S, s, e, t)
  BY <1>1, <1>2, <1>3 DEF Pushed
<1>5. QED
  BY <1>4 DEF t

\* interrupt_time_sleep(), interrupt_time_usleep()
LEMMA TimeSleepKeeps ==
  ASSUME IInv, NEW t \in Ticks, interrupt_time_sleep(t)
  PROVE  IInv'
<1> DEFINE e == [proc |-> sched.current, usec |-> t]
<1>1. /\ sched' \in SchedType /\ SchedInv(sched', Live') /\ DefunctAwake'
      /\ Live' = Live /\ proc_all' = proc_all
      /\ \A p \in Procs : sched'.why[p] = IF p = sched.current THEN "time" ELSE sched.why[p]
  BY SleeperFacts DEF interrupt_time_sleep, Reasons
<1>2. sched.current \in Procs /\ sched.current \in proc_all
  BY CallerLives DEF interrupt_time_sleep
<1>3. e \in SleepType /\ e.proc = sched.current
  BY <1>2, ProcmAssumption DEF SleepType
<1>4. interrupt_sleep \in Seq(SleepType) /\ interrupt_sleep' = Cons(e, interrupt_sleep)
  BY DEF interrupt_time_sleep, IInv, TypeOK
<1> HIDE DEF e
<1>5. /\ interrupt_sleep' \in Seq(SleepType)
      /\ 1 \in 1..Len(interrupt_sleep') /\ interrupt_sleep'[1] = e
      /\ \A i \in 1..Len(interrupt_sleep) :
           i + 1 \in 1..Len(interrupt_sleep') /\ interrupt_sleep'[i + 1] = interrupt_sleep[i]
      /\ \A j \in 1..Len(interrupt_sleep') :
           interrupt_sleep'[j] = e \/ \E i \in 1..Len(interrupt_sleep) : interrupt_sleep'[j] = interrupt_sleep[i]
  <2>1. Pushed(SleepType, interrupt_sleep, e, interrupt_sleep')
    BY <1>3, <1>4, PushEntry
  <2>2. QED BY <2>1 DEF Pushed
<1>6. TypeOK'
  BY <1>1, <1>5 DEF interrupt_time_sleep, IInv, TypeOK
<1>7. RefsExist'
  BY <1>1, <1>2, <1>3, <1>5 DEF interrupt_time_sleep, IInv, RefsExist
<1>8. ChildExitNotMissed'
  BY <1>1, ProcSets DEF interrupt_time_sleep, IInv, ChildExitNotMissed, AsleepIn
<1>9. NoLostTimer'
  <2>1. SUFFICES ASSUME NEW p \in proc_all', AsleepIn(p, "time")'
                 PROVE  \E i \in 1..Len(interrupt_sleep') : interrupt_sleep'[i].proc = p
    BY DEF NoLostTimer
  <2>2. CASE p = sched.current
    BY <1>3, <1>5, <2>2
  <2>3. CASE p # sched.current
    <3>1. AsleepIn(p, "time") /\ p \in proc_all
      BY <1>1, <2>1, <2>3, ProcSets DEF AsleepIn, IInv
    <3>2. PICK i \in 1..Len(interrupt_sleep) : interrupt_sleep[i].proc = p
      BY <3>1 DEF IInv, NoLostTimer
    <3>3. QED BY <1>5, <3>2
  <2>4. QED BY <2>2, <2>3
<1>10. QED
  BY <1>1, <1>6, <1>7, <1>8, <1>9 DEF IInv

\* proc_exit(): the parent that waits for this exit is woken in the same step,
\* so ChildExitNotMissed survives; the process leaves both lists for good.
LEMMA ExitKeeps ==
  ASSUME IInv, proc_exit
  PROVE  IInv'
<1> DEFINE p == sched.current
           q == parent[p]
           hit == q # NULL /\ ExitMatches(p, q)
           w == IF hit THEN proc_wake(sched, q) ELSE sched
<1>1. p \in Procs /\ p \in Live /\ p \in proc_all /\ ~sched.is_sleeping[p] /\ ~defunc[p]
  BY CallerLives DEF proc_exit, Live
<1>2. q # NULL => q \in proc_all
  BY <1>1 DEF IInv, RefsExist
<1>3. /\ SchedInv(w, Live) /\ w.current = p
      /\ \A x \in Procs : w.is_sleeping[x] => sched.is_sleeping[x]
      /\ \A x \in Procs : w.why[x] # "awake" => w.why[x] = sched.why[x]
      /\ hit => w.why[q] = "awake"
  <2>1. CASE hit
    <3> DEFINE v == proc_wake(sched, q)
    <3>1. q \in proc_all /\ q \in Procs
      BY <1>2, <2>1, ProcSets DEF IInv
    <3> HIDE DEF q
    <3>2. /\ SchedInv(v, Live) /\ v.current = p
          /\ v.is_sleeping = [sched.is_sleeping EXCEPT ![q] = FALSE]
          /\ v.why = IF sched.is_sleeping[q] THEN [sched.why EXCEPT ![q] = "awake"] ELSE sched.why
      BY <3>1, WakeIsSafe
    <3>3. w = v
      BY <2>1
    <3>4. sched \in SchedType /\ WhyMatches(sched)
      BY DEF IInv, SchedInv, SchedOK
    <3>5. \A x \in Procs : v.is_sleeping[x] => sched.is_sleeping[x]
      BY <3>1, <3>2, <3>4 DEF SchedType
    <3>6. v.why[q] = "awake" /\ \A x \in Procs : v.why[x] # "awake" => v.why[x] = sched.why[x]
      BY <3>1, <3>2, <3>4 DEF SchedType, WhyMatches
    <3>7. QED BY <3>2, <3>3, <3>5, <3>6
  <2>2. CASE ~hit
    BY <2>2 DEF IInv
  <2>3. QED BY <2>1, <2>2
<1>4. /\ proc_all' = proc_all /\ Live' = Live \ {p}
      /\ \A x \in Procs : defunc'[x] <=> defunc[x] \/ x = p
      /\ NULL \notin Procs /\ Live \in SUBSET Procs
  <2>1. defunc' = [defunc EXCEPT ![p] = TRUE] /\ proc_nextpid' = proc_nextpid
    BY DEF proc_exit
  <2>2. \A x \in Procs : defunc'[x] <=> defunc[x] \/ x = p
    BY <1>1, <2>1 DEF IInv, TypeOK
  <2>3. proc_all' = proc_all /\ proc_all \subseteq Procs
    BY <2>1, ProcSets DEF proc_all, IInv
  <2> HIDE DEF p
  <2>4. QED BY <2>2, <2>3, ProcSets DEF Live, IInv
<1>5. sched' = [w EXCEPT !.running = RemoveFirst(@, p), !.current = NULL, !.frame = NULL]
  BY DEF proc_exit
<1>6. w \in SchedType /\ ListsMatch(w, Live) /\ TicksInRange(w) /\ ContextsKept(w, Live) /\ WhyMatches(w)
  BY <1>3 DEF SchedInv, SchedOK
<1> DEFINE r == RemoveFirst(w.running, p)
<1>7. /\ r \in Seq(Procs) /\ NoDuplicates(r)
      /\ \A x \in Procs : Contains(r, x) <=> (Contains(w.running, x) /\ x # p)
  <2>1. w.running \in Seq(Procs) /\ NoDuplicates(w.running)
    BY <1>6 DEF SchedType, ListsMatch
  <2> HIDE DEF w, p
  <2>2. QED BY <1>1, <2>1, RemoveFirstKeeps
<1> HIDE DEF w, r
<1>8. /\ sched' \in SchedType /\ sched'.running = r /\ sched'.sleeping = w.sleeping
      /\ sched'.is_sleeping = w.is_sleeping /\ sched'.why = w.why
      /\ sched'.ticks_rem = w.ticks_rem /\ sched'.current = NULL /\ sched'.frame = NULL
      /\ sched'.saved = w.saved
  <2>1. sched' = [w EXCEPT !.running = r, !.current = NULL, !.frame = NULL]
    BY <1>5, <1>6 DEF r
  <2>2. QED BY <1>6, <1>7, <2>1 DEF SchedType
<1> HIDE DEF p, q, hit
<1>9. ~w.is_sleeping[p]
  BY <1>1, <1>3
<1>10. SchedInv(sched', Live')
  <2>1. ListsMatch(sched', Live')
    BY <1>1, <1>4, <1>6, <1>7, <1>8, <1>9 DEF ListsMatch
  <2>2. TicksInRange(sched') /\ WhyMatches(sched') /\ CurrentRuns(sched')
    BY <1>6, <1>8 DEF TicksInRange, WhyMatches, CurrentRuns
  <2>3. ContextsKept(sched', Live')
    BY <1>3, <1>4, <1>6, <1>8 DEF ContextsKept
  <2>4. QED BY <1>8, <2>1, <2>2, <2>3 DEF SchedInv, SchedOK
<1>11. TypeOK'
  <2>1. wait' \in [Procs -> BOOLEAN]
    BY DEF proc_exit, IInv, TypeOK
  <2>2. defunc' \in [Procs -> BOOLEAN]
    BY DEF proc_exit, IInv, TypeOK
  <2>3. QED BY <1>8, <2>1, <2>2 DEF proc_exit, IInv, TypeOK
<1>12. RefsExist'
  BY <1>4 DEF proc_exit, IInv, RefsExist
<1>13. DefunctAwake'
  BY <1>1, <1>3, <1>4, <1>8, <1>9 DEF IInv, DefunctAwake
<1>14. ChildExitNotMissed'
  <2>1. SUFFICES ASSUME NEW x \in proc_all', AsleepIn(x, "waitpid")', ~defunc'[x]
                 PROVE  /\ wait'[x]
                        /\ wait_pid'[x] \in Procs /\ parent'[wait_pid'[x]] = x
                             => ~defunc'[wait_pid'[x]]
    BY DEF ChildExitNotMissed
  <2>2. x \in Procs /\ x \in proc_all /\ AsleepIn(x, "waitpid") /\ ~defunc[x]
    <3>1. x \in Procs /\ x \in proc_all
      BY <1>4, ProcSets DEF IInv
    <3>2. w.why[x] = "waitpid"
      BY <1>8, <2>1 DEF AsleepIn
    <3>3. QED BY <1>3, <1>4, <2>1, <3>1, <3>2 DEF AsleepIn
  <2>3. /\ wait[x]
        /\ wait_pid[x] \in Procs /\ parent[wait_pid[x]] = x => ~defunc[wait_pid[x]]
    BY <2>2 DEF IInv, ChildExitNotMissed
  <2>4. ~(hit /\ x = q)
    BY <1>3, <1>8, <2>1 DEF AsleepIn
  <2>5. wait'[x]
    <3>1. wait' = IF hit THEN [wait EXCEPT ![q] = FALSE] ELSE wait
      BY DEF proc_exit, hit, q, p
    <3>2. QED BY <2>2, <2>3, <2>4, <3>1 DEF IInv, TypeOK
  <2>6. ASSUME wait_pid[x] \in Procs, parent[wait_pid[x]] = x, wait_pid[x] = p PROVE FALSE
    <3>1. x = q /\ q # NULL
      BY <1>4, <2>2, <2>6 DEF q
    <3>2. ExitMatches(p, q)
      BY <2>3, <2>6, <3>1 DEF ExitMatches
    <3>3. QED BY <2>4, <3>1, <3>2 DEF hit
  <2>7. QED BY <1>4, <2>3, <2>5, <2>6 DEF proc_exit
<1>15. NoLostTimer'
  <2>1. \A x \in proc_all' : AsleepIn(x, "time")' => x \in proc_all /\ AsleepIn(x, "time")
    BY <1>3, <1>4, <1>8, ProcSets DEF AsleepIn, IInv
  <2>2. QED BY <2>1 DEF proc_exit, IInv, NoLostTimer
<1>16. QED
  BY <1>10, <1>11, <1>12, <1>13, <1>14, <1>15 DEF IInv

\* signal_setup()
LEMMA SetupKeeps ==
  ASSUME IInv, signal_setup
  PROVE  IInv'
<1>1. sched.current \in Procs
  BY CallerLives DEF signal_setup
<1>2. TypeOK'
  BY <1>1 DEF signal_setup, IInv, TypeOK
<1>3. QED
  BY <1>2 DEF signal_setup, IInv, RefsExist, DefunctAwake, ChildExitNotMissed, NoLostTimer,
              AsleepIn, Live, proc_all

\* A step that does no more to the scheduler than wake one created process
\* and leaves the rest of the process state alone.
LEMMA WakeStep ==
  ASSUME IInv, NEW q \in proc_all, sched' = proc_wake(sched, q) \/ sched' = sched,
         UNCHANGED << proc_nextpid, parent, defunc, wait, wait_pid, signal >>
  PROVE  /\ sched' \in SchedType /\ SchedInv(sched', Live')
         /\ Live' = Live /\ proc_all' = proc_all
         /\ DefunctAwake' /\ ChildExitNotMissed'
         /\ \A p \in Procs : sched'.why[p] # "awake" => sched'.why[p] = sched.why[p]
         /\ sched' = proc_wake(sched, q) => sched'.why[q] = "awake"
<1> DEFINE w == proc_wake(sched, q)
<1>1. /\ SchedInv(w, Live)
      /\ w.why = IF sched.is_sleeping[q] THEN [sched.why EXCEPT ![q] = "awake"] ELSE sched.why
  BY WakeIsSafe
<1> HIDE DEF w
<1>2. sched \in SchedType /\ WhyMatches(sched) /\ q \in Procs /\ SchedInv(sched, Live)
  BY ProcSets DEF IInv, SchedInv, SchedOK
<1>3. w.why[q] = "awake" /\ \A p \in Procs : w.why[p] # "awake" => w.why[p] = sched.why[p]
  BY <1>1, <1>2 DEF SchedType, WhyMatches
<1>4. Live' = Live
  BY DEF Live, proc_all
<1>5. SchedInv(sched', Live') /\ \A p \in Procs : sched'.why[p] # "awake" => sched'.why[p] = sched.why[p]
  BY <1>1, <1>2, <1>3, <1>4 DEF w
<1>6. Live' = Live /\ proc_all' = proc_all /\ DefunctAwake' /\ ChildExitNotMissed'
  BY <1>5, WakesKeepRest
<1>7. QED
  BY <1>3, <1>5, <1>6 DEF SchedInv, SchedOK, w

\* signal_send_syscall(): SIGCONT, or the upcall of a handler, wakes the
\* process out of whatever call it sleeps in.
LEMMA SignalKeeps ==
  ASSUME IInv, NEW q \in Procs, NEW cont \in BOOLEAN, signal_send_syscall(q, cont)
  PROVE  IInv'
<1>1. q \in proc_all
  BY DEF signal_send_syscall
<1>2. sched' = proc_wake(sched, q) \/ sched' = sched
  <2>1. proc_wake(proc_wake(sched, q), q) = proc_wake(sched, q)
    <3>1. ~proc_wake(sched, q).is_sleeping[q]
      BY <1>1, WakeIsSafe, ProcSets DEF IInv, TypeOK, SchedType
    <3> DEFINE w == proc_wake(sched, q)
    <3>2. ~w.is_sleeping[q]
      BY <3>1
    <3> HIDE DEF w
    <3>3. proc_wake(w, q) = w
      BY <3>2 DEF proc_wake
    <3>4. QED BY <3>3 DEF w
  <2>2. sched' = signal_send(sched, q, cont)
    BY DEF signal_send_syscall
  <2>3. QED BY <2>1, <2>2 DEF signal_send, proc_call
<1>3. UNCHANGED << proc_nextpid, parent, defunc, wait, wait_pid, signal,
                   interrupt_sleep, interrupt_irq, loop >>
  BY DEF signal_send_syscall
<1>4. /\ sched' \in SchedType /\ SchedInv(sched', Live')
      /\ Live' = Live /\ proc_all' = proc_all
      /\ DefunctAwake' /\ ChildExitNotMissed'
      /\ \A p \in Procs : sched'.why[p] # "awake" => sched'.why[p] = sched.why[p]
  BY <1>1, <1>2, <1>3, WakeStep
<1>5. TypeOK' /\ RefsExist'
  BY <1>3, <1>4 DEF IInv, TypeOK, RefsExist
<1>6. NoLostTimer'
  BY <1>3, <1>4, ProcSets DEF IInv, NoLostTimer, AsleepIn
<1>7. QED
  BY <1>4, <1>5, <1>6 DEF IInv

\* interrupt_irq_reghandler() and interrupt_irq_sleep()
LEMMA IrqAddKeeps ==
  ASSUME IInv, NEW n \in Irqs, NEW type \in {"IRQ_HANDLER", "IRQ_SLEEP"},
         interrupt_irq_add(n, type)
  PROVE  IInv'
<1> DEFINE e == [proc |-> sched.current, type |-> type]
           l == interrupt_irq[n]
           c == Cons(e, l)
<1>1. sched.current \in Procs /\ sched.current \in proc_all
  BY CallerLives DEF interrupt_irq_add
<1>2. e \in IrqType /\ e.proc \in proc_all
  BY <1>1 DEF IrqType
<1>3. l \in Seq(IrqType) /\ interrupt_irq \in [Irqs -> Seq(IrqType)]
  BY DEF IInv, TypeOK
<1>4. interrupt_irq' = [interrupt_irq EXCEPT ![n] = c]
  BY DEF interrupt_irq_add
<1>5. UNCHANGED << sched, proc_nextpid, parent, defunc, wait, wait_pid, signal,
                   interrupt_sleep, loop >>
  BY DEF interrupt_irq_add
<1> HIDE DEF e
<1>6. /\ c \in Seq(IrqType)
      /\ \A j \in 1..Len(c) : c[j] = e \/ \E i \in 1..Len(l) : c[j] = l[i]
  <2>1. Pushed(IrqType, l, e, c)
    BY <1>2, <1>3, PushEntry
  <2> HIDE DEF c, l
  <2>2. QED BY <2>1 DEF Pushed
<1> HIDE DEF c
<1>7. TypeOK'
  BY <1>3, <1>4, <1>5, <1>6 DEF IInv, TypeOK
<1>8. RefsExist'
  <2>1. proc_all' = proc_all
    BY <1>5 DEF proc_all
  <2>2. \A j \in 1..Len(c) : c[j].proc \in proc_all
    BY <1>2, <1>6 DEF IInv, RefsExist
  <2>3. \A m \in Irqs : \A i \in 1..Len(interrupt_irq'[m]) : interrupt_irq'[m][i].proc \in proc_all
    BY <1>3, <1>4, <2>2 DEF IInv, RefsExist
  <2>4. QED BY <1>5, <2>1, <2>3 DEF IInv, RefsExist
<1>9. QED
  BY <1>5, <1>7, <1>8 DEF IInv, DefunctAwake, ChildExitNotMissed, NoLostTimer, AsleepIn, Live, proc_all

\* List t is list s without its element at position k.
Removed(S, s, k, t) ==
  /\ t \in Seq(S)
  /\ \A j \in 1..Len(t) : \E i \in 1..Len(s) : t[j] = s[i]
  /\ \A i \in 1..Len(s) : i # k => \E j \in 1..Len(t) : t[j] = s[i]

\* An expired entry is removed: every other entry stays.
LEMMA RemoveEntry ==
  ASSUME NEW S, NEW s \in Seq(S), NEW k \in 1..Len(s)
  PROVE  Removed(S, s, k, RemoveAt(s, k))
<1> DEFINE t == RemoveAt(s, k)
<1>1. /\ t \in Seq(S) /\ Len(t) = Len(s) - 1
      /\ \A i \in 1..(Len(s)-1) : t[i] = IF i < k THEN s[i] ELSE s[i+1]
  BY RemoveAtElements
<1> HIDE DEF t
<1>2. ASSUME NEW j \in 1..Len(t) PROVE \E i \in 1..Len(s) : t[j] = s[i]
  <2>1. CASE j < k
    BY <1>1, <2>1
  <2>2. CASE ~(j < k)
    <3>1. j + 1 \in 1..Len(s) /\ t[j] = s[j+1]
      BY <1>1, <2>2
    <3>2. QED BY <3>1
  <2>3. QED BY <2>1, <2>2
<1>3. ASSUME NEW i \in 1..Len(s), i # k PROVE \E j \in 1..Len(t) : t[j] = s[i]
  <2>1. CASE i < k
    BY <1>1, <2>1
  <2>2. CASE i > k
    <3>1. i - 1 \in 1..Len(t) /\ t[i-1] = s[i]
      BY <1>1, <2>2
    <3>2. QED BY <3>1
  <2>3. QED BY <1>3, <2>1, <2>2
<1>4. Removed(S, s, k, t)
  BY <1>1, <1>2, <1>3 DEF Removed
<1>5. QED
  BY <1>4 DEF t

\* Entry of the timer and IRQ handlers: only loop changes.
LEMMA EntryKeeps ==
  ASSUME IInv, interrupt_timer \/ \E n \in Irqs : interrupt_irq_handler(n)
  PROVE  IInv'
<1>1. loop' \in LoopType /\ loop'.i > 0 /\ (loop'.in = "irq" => loop'.irq \in Irqs)
  <2>1. CASE interrupt_timer
    <3>1. loop' = [in |-> "time", irq |-> 0, i |-> 1]
      BY <2>1 DEF interrupt_timer, NoLoop
    <3>2. QED BY <3>1 DEF LoopType
  <2>2. CASE \E n \in Irqs : interrupt_irq_handler(n)
    <3>1. PICK n \in Irqs : loop' = [in |-> "irq", irq |-> n, i |-> 1]
      BY <2>2 DEF interrupt_irq_handler
    <3>2. QED BY <3>1 DEF LoopType
  <2>3. QED BY <2>1, <2>2
<1>2. UNCHANGED << sched, proc_nextpid, parent, defunc, wait, wait_pid, signal,
                   interrupt_sleep, interrupt_irq >>
  BY DEF interrupt_timer, interrupt_irq_handler
<1>3. TypeOK'
  BY <1>1, <1>2 DEF IInv, TypeOK
<1>4. QED
  BY <1>2, <1>3 DEF IInv, RefsExist, DefunctAwake, ChildExitNotMissed, NoLostTimer,
                    AsleepIn, Live, proc_all

\* One round of interrupt_time_check(): an entry is removed together with the
\* wake-up of its process, so NoLostTimer survives.
LEMMA TimeCheckKeeps ==
  ASSUME IInv, interrupt_time_check
  PROVE  IInv'
<1> DEFINE k == loop.i
           e == interrupt_sleep[k]
<1>1. /\ k \in 1..Len(interrupt_sleep) /\ interrupt_sleep \in Seq(SleepType)
      /\ k \in Nat /\ loop \in LoopType /\ loop.in = "time"
  <2>1. k \in Nat /\ k > 0 /\ interrupt_sleep \in Seq(SleepType) /\ loop \in LoopType
    BY DEF interrupt_time_check, IInv, TypeOK, LoopType
  <2>2. QED BY <2>1 DEF interrupt_time_check
<1>2. e \in SleepType /\ e.proc \in proc_all
  BY <1>1 DEF IInv, RefsExist
<1>3. UNCHANGED << proc_nextpid, parent, defunc, wait, wait_pid, signal, interrupt_irq >>
  BY DEF interrupt_time_check
<1>4. CASE e.usec <= 1
  <2>1. /\ sched' = proc_wake(sched, e.proc) /\ loop' = loop
        /\ interrupt_sleep' = RemoveAt(interrupt_sleep, k)
    BY <1>4 DEF interrupt_time_check
  <2>2. Removed(SleepType, interrupt_sleep, k, interrupt_sleep')
    BY <1>1, <2>1, RemoveEntry
  <2> DEFINE q == e.proc
  <2>3. q \in proc_all /\ sched' = proc_wake(sched, q)
    BY <1>2, <2>1
  <2> HIDE DEF q
  <2>4. /\ sched' \in SchedType /\ SchedInv(sched', Live')
        /\ Live' = Live /\ proc_all' = proc_all
        /\ DefunctAwake' /\ ChildExitNotMissed'
        /\ \A p \in Procs : sched'.why[p] # "awake" => sched'.why[p] = sched.why[p]
        /\ sched'.why[q] = "awake"
    BY <1>3, <2>3, WakeStep
  <2>5. TypeOK'
    BY <1>3, <2>1, <2>2, <2>4 DEF IInv, TypeOK, Removed
  <2>6. RefsExist'
    BY <1>3, <2>2, <2>4 DEF IInv, RefsExist, Removed
  <2>7. NoLostTimer'
    <3>1. SUFFICES ASSUME NEW p \in proc_all', AsleepIn(p, "time")'
                   PROVE  \E i \in 1..Len(interrupt_sleep') : interrupt_sleep'[i].proc = p
      BY DEF NoLostTimer
    <3>2. p # q /\ AsleepIn(p, "time") /\ p \in proc_all
      BY <2>4, <3>1, ProcSets DEF AsleepIn, IInv
    <3>3. PICK i \in 1..Len(interrupt_sleep) : interrupt_sleep[i].proc = p
      BY <3>2 DEF IInv, NoLostTimer
    <3>4. i # k
      BY <3>2, <3>3 DEF q
    <3>5. PICK j \in 1..Len(interrupt_sleep') : interrupt_sleep'[j] = interrupt_sleep[i]
      BY <2>2, <3>4 DEF Removed
    <3>6. QED BY <3>3, <3>5
  <2>8. QED BY <2>4, <2>5, <2>6, <2>7 DEF IInv
<1>5. CASE ~(e.usec <= 1)
  <2>1. /\ interrupt_sleep' = [interrupt_sleep EXCEPT ![k].usec = @ - 1]
        /\ loop' = [loop EXCEPT !.i = @ + 1] /\ sched' = sched
    BY <1>5 DEF interrupt_time_check
  <2> DEFINE d == [e EXCEPT !.usec = @ - 1]
  <2>2. d \in SleepType /\ d.proc = e.proc
    <3>1. e.usec \in Nat /\ e.usec - 1 \in Nat
      BY <1>2, <1>5 DEF SleepType
    <3>2. QED BY <1>2, <3>1 DEF SleepType
  <2>3. interrupt_sleep' = [interrupt_sleep EXCEPT ![k] = d]
    BY <2>1
  <2> HIDE DEF d
  <2>4. /\ interrupt_sleep' \in Seq(SleepType) /\ Len(interrupt_sleep') = Len(interrupt_sleep)
        /\ \A i \in 1..Len(interrupt_sleep) : interrupt_sleep'[i].proc = interrupt_sleep[i].proc
    BY <1>1, <2>2, <2>3
  <2>5. loop' \in LoopType /\ loop'.i > 0 /\ loop'.in = "time"
    BY <1>1, <2>1 DEF LoopType
  <2>6. TypeOK'
    BY <1>3, <2>1, <2>4, <2>5 DEF IInv, TypeOK
  <2>7. QED
    BY <1>3, <2>1, <2>4, <2>6 DEF IInv, RefsExist, DefunctAwake, ChildExitNotMissed, NoLostTimer,
                                  AsleepIn, Live, proc_all
<1>6. QED
  BY <1>4, <1>5

\* One round of interrupt_irq_check().
LEMMA IrqCheckKeeps ==
  ASSUME IInv, interrupt_irq_check
  PROVE  IInv'
<1> DEFINE k == loop.i
           n == loop.irq
           l == interrupt_irq[n]
           q == l[k].proc
<1>1. /\ n \in Irqs /\ k \in 1..Len(l) /\ l \in Seq(IrqType) /\ k \in Nat
      /\ loop \in LoopType /\ loop.in = "irq" /\ interrupt_irq \in [Irqs -> Seq(IrqType)]
  <2>1. k \in Nat /\ k > 0 /\ n \in Irqs /\ loop \in LoopType
        /\ interrupt_irq \in [Irqs -> Seq(IrqType)]
    BY DEF interrupt_irq_check, IInv, TypeOK, LoopType
  <2>2. l \in Seq(IrqType)
    BY <2>1
  <2>3. QED BY <2>1, <2>2 DEF interrupt_irq_check
<1>2. q \in proc_all
  BY <1>1 DEF IInv, RefsExist
<1>3. UNCHANGED << proc_nextpid, parent, defunc, wait, wait_pid, signal, interrupt_sleep >>
  BY DEF interrupt_irq_check
<1>4. sched' = proc_wake(sched, q) \/ sched' = sched
  BY DEF interrupt_irq_check, proc_call
<1>5. /\ sched' \in SchedType /\ SchedInv(sched', Live')
      /\ Live' = Live /\ proc_all' = proc_all
      /\ DefunctAwake' /\ ChildExitNotMissed'
      /\ \A p \in Procs : sched'.why[p] # "awake" => sched'.why[p] = sched.why[p]
  <2> HIDE DEF q
  <2>1. QED BY <1>2, <1>3, <1>4, WakeStep
<1>6. NoLostTimer'
  BY <1>3, <1>5, ProcSets DEF IInv, NoLostTimer, AsleepIn
<1>7. CASE l[k].type = "IRQ_SLEEP"
  <2> DEFINE r == RemoveAt(l, k)
  <2>1. interrupt_irq' = [interrupt_irq EXCEPT ![n] = r] /\ loop' = loop
    BY <1>7 DEF interrupt_irq_check
  <2>2. Removed(IrqType, l, k, r)
    <3> HIDE DEF l, k
    <3>1. QED BY <1>1, RemoveEntry
  <2> HIDE DEF r
  <2>3. TypeOK'
    BY <1>1, <1>3, <1>5, <2>1, <2>2 DEF IInv, TypeOK, Removed
  <2>4. \A j \in 1..Len(r) : r[j].proc \in proc_all
    BY <1>1, <2>2 DEF IInv, RefsExist, Removed
  <2>5. \A m \in Irqs : \A i \in 1..Len(interrupt_irq'[m]) : interrupt_irq'[m][i].proc \in proc_all
    BY <1>1, <2>1, <2>4 DEF IInv, RefsExist
  <2>6. RefsExist'
    BY <1>3, <1>5, <2>5 DEF IInv, RefsExist
  <2>7. QED BY <1>5, <1>6, <2>3, <2>6 DEF IInv
<1>8. CASE l[k].type # "IRQ_SLEEP"
  <2>1. loop' = [loop EXCEPT !.i = @ + 1] /\ interrupt_irq' = interrupt_irq
    BY <1>8 DEF interrupt_irq_check
  <2>2. loop' \in LoopType /\ loop'.i > 0 /\ loop'.in = "irq" /\ loop'.irq = n
    BY <1>1, <2>1 DEF LoopType
  <2>3. TypeOK'
    BY <1>1, <1>3, <1>5, <2>1, <2>2 DEF IInv, TypeOK
  <2>4. RefsExist'
    BY <1>3, <1>5, <2>1 DEF IInv, RefsExist
  <2>5. QED BY <1>5, <1>6, <2>3, <2>4 DEF IInv
<1>9. QED
  BY <1>7, <1>8

\* The end of both handlers: at most proc_shedule() runs.
LEMMA HandlerEndKeeps ==
  ASSUME IInv, interrupt_timer_end \/ interrupt_irq_end
  PROVE  IInv'
<1>1. /\ sched' = proc_shedule(sched) \/ sched' = sched
      /\ loop' = NoLoop
      /\ UNCHANGED << proc_nextpid, parent, defunc, wait, wait_pid, signal,
                      interrupt_sleep, interrupt_irq >>
  BY DEF interrupt_timer_end, interrupt_irq_end, LeaveIdle
<1>2. Live' = Live /\ proc_all' = proc_all /\ Live \in SUBSET Procs
  BY <1>1, ProcSets DEF Live, proc_all, IInv
<1>3. sched.current # NULL => sched.current \in Live
  BY ProcSets DEF IInv, TypeOK, SchedType, SchedInv, SchedOK, CurrentRuns, ListsMatch
<1> DEFINE t == proc_shedule(sched)
<1>4. SchedInv(t, Live) /\ t.is_sleeping = sched.is_sleeping /\ t.why = sched.why
  <2>1. SchedOK(sched, Live)
    BY DEF IInv, SchedInv
  <2>2. QED BY <1>2, <1>3, <2>1, SheduleKeeps
<1> HIDE DEF t
<1>5. SchedInv(sched', Live') /\ sched'.is_sleeping = sched.is_sleeping /\ sched'.why = sched.why
  BY <1>1, <1>2, <1>4 DEF t, IInv
<1>6. TypeOK'
  <2>1. loop' \in LoopType /\ loop'.in = "none"
    BY <1>1 DEF NoLoop, LoopType
  <2>2. QED BY <1>1, <1>5, <2>1 DEF IInv, TypeOK, SchedInv, SchedOK
<1>7. RefsExist' /\ DefunctAwake' /\ ChildExitNotMissed' /\ NoLostTimer'
  BY <1>1, <1>2, <1>5 DEF IInv, RefsExist, DefunctAwake, ChildExitNotMissed, NoLostTimer, AsleepIn
<1>8. QED
  BY <1>5, <1>6, <1>7 DEF IInv

\* IInv is inductive.
LEMMA NextKeeps == IInv /\ [Next]_vars => IInv'
<1> SUFFICES ASSUME IInv, [Next]_vars PROVE IInv'
  OBVIOUS
<1>1. CASE UNCHANGED vars
  BY <1>1 DEF vars, IInv, TypeOK, RefsExist, DefunctAwake, ChildExitNotMissed, NoLostTimer,
              AsleepIn, Live, proc_all
<1>2. CASE Syscall
  BY <1>2, CreateKeeps, StopKeeps, WaitpidKeeps, ExitKeeps, SetupKeeps, SignalKeeps,
     TimeSleepKeeps, IrqAddKeeps DEF Syscall
<1>3. CASE Interrupt
  BY <1>3, EntryKeeps, TimeCheckKeeps, IrqCheckKeeps, HandlerEndKeeps DEF Interrupt
<1>4. CASE Halted
  BY <1>1, <1>4 DEF Halted
<1>5. QED
  BY <1>1, <1>2, <1>3, <1>4 DEF Next

-----------------------------------------------------------------------------
\* The inductive invariant holds in every reachable state of the process
\* manager.
THEOREM Invariance == Spec => []IInv
  BY InitOK, NextKeeps, PTL DEF Spec

\* Type correctness of the kernel's process state.
THEOREM TypeCorrect == Spec => []TypeOK
<1>1. IInv => TypeOK
  BY DEF IInv
<1>2. QED BY Invariance, <1>1, PTL

\* The lists proc_running and proc_sleeping agree with is_sleeping in every
\* interleaving of system calls, timer and IRQs.
THEOREM ListsAlwaysConsistent == Spec => []ListsConsistent
<1>1. IInv => ListsConsistent
  BY DEF IInv, SchedInv, SchedOK, ListsConsistent
<1> QED BY <1>1, Invariance, PTL

\* The tick budget never wraps.
THEOREM TicksAlwaysInRange == Spec => []TicksNeverWrap
<1>1. IInv => TicksNeverWrap
  BY DEF IInv, SchedInv, SchedOK, TicksNeverWrap
<1>2. QED BY Invariance, <1>1, PTL

\* No register context is lost or given to another process.
THEOREM ContextsAlwaysSafe == Spec => []ContextSafe
<1>1. IInv => ContextSafe
  BY DEF IInv, SchedInv, SchedOK, ContextSafe
<1>2. QED BY Invariance, <1>1, PTL

\* The exit of a child for which its parent sleeps in waitpid(pid) is never
\* missed, for any number of processes and any contents of fresh memory.
THEOREM NoExitMissed == Spec => []ChildExitNotMissed
<1>1. IInv => ChildExitNotMissed
  BY DEF IInv
<1>2. QED BY Invariance, <1>1, PTL

\* A process in a timed sleep always has a timer entry.
THEOREM NoTimerLost == Spec => []NoLostTimer
<1>1. IInv => NoLostTimer
  BY DEF IInv
<1>2. QED BY Invariance, <1>1, PTL

\* An exited process is never scheduled, woken or put to sleep again.
THEOREM DefunctNeverReturns == Spec => DefunctStaysDead
<1> DEFINE Dead == \A p \in Procs : defunc[p] =>
                      /\ defunc'[p]
                      /\ sched'.current # p
                      /\ sched'.is_sleeping[p] = sched.is_sleeping[p]
<1>1. IInv /\ IInv' /\ [Next]_vars => [Dead]_vars
  <2> SUFFICES ASSUME IInv, IInv', Next PROVE Dead
    BY DEF vars
  <2>1. \A p \in Procs : defunc[p] => defunc'[p]
    <3>1. CASE proc_exit
      BY <3>1 DEF proc_exit, IInv, TypeOK
    <3>2. CASE ~proc_exit
      <4>1. defunc' = defunc
        BY <3>2 DEF Next, Syscall, Interrupt, Halted, vars, proc_create, proc_stop, proc_waitpid,
             signal_setup, signal_send_syscall, interrupt_time_sleep, interrupt_irq_add,
             interrupt_timer, interrupt_time_check, interrupt_timer_end, interrupt_irq_handler,
             interrupt_irq_check, interrupt_irq_end
      <4>2. QED BY <4>1
    <3>3. QED BY <3>1, <3>2
  <2>2. SUFFICES ASSUME NEW p \in Procs, defunc[p]
                 PROVE  sched'.current # p /\ sched'.is_sleeping[p] = sched.is_sleeping[p]
    BY <2>1
  <2>3. defunc'[p] /\ p \notin Live' /\ sched'.current \in Procs \cup {NULL} /\ NULL \notin Procs
    BY <2>1, <2>2, ProcSets DEF Live, IInv, TypeOK, SchedType
  <2>4. ~sched.is_sleeping[p] /\ ~sched'.is_sleeping[p]
    BY <2>2, <2>3 DEF IInv, DefunctAwake
  <2>5. sched.is_sleeping[p] \in BOOLEAN /\ sched'.is_sleeping[p] \in BOOLEAN
    BY DEF IInv, TypeOK, SchedType
  <2>6. ~Contains(sched'.running, p)
    BY <2>3 DEF IInv, SchedInv, SchedOK, ListsMatch
  <2>7. sched'.current # p
    BY <2>3, <2>6 DEF IInv, SchedInv, CurrentRuns
  <2>8. QED BY <2>4, <2>5, <2>7
<1>2. QED
  BY Invariance, <1>1, PTL DEF Spec, DefunctStaysDead, StaysDead
=============================================================================
