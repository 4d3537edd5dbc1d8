----------------------------- MODULE SchedProofs -----------------------------
(***************************************************************************)
(* Lemmas about the operators of Sched: what proc_wake, proc_sleep and     *)
(* proc_shedule preserve, for any number of processes.                     *)
(***************************************************************************)
EXTENDS Sched, TLAPS, SequenceTheorems, WellFoundedInduction

\* llist_remove(l,k): the elements behind position k move up by one.
LEMMA RemoveAtElements ==
  ASSUME NEW S, NEW s \in Seq(S), NEW k \in 1..Len(s)
  PROVE  /\ RemoveAt(s, k) \in Seq(S) /\ Len(RemoveAt(s, k)) = Len(s) - 1
         /\ \A i \in 1..(Len(s)-1) : RemoveAt(s, k)[i] = IF i < k THEN s[i] ELSE s[i+1]
<1>1. /\ SubSeq(s, 1, k-1) \in Seq(S) /\ Len(SubSeq(s, 1, k-1)) = k-1
      /\ \A i \in 1..(k-1) : SubSeq(s, 1, k-1)[i] = s[i]
  BY SubSeqProperties
<1>2. /\ SubSeq(s, k+1, Len(s)) \in Seq(S) /\ Len(SubSeq(s, k+1, Len(s))) = Len(s) - k
      /\ \A i \in 1..(Len(s)-k) : SubSeq(s, k+1, Len(s))[i] = s[i+k]
  BY SubSeqProperties
<1> DEFINE u == SubSeq(s, 1, k-1)
           v == SubSeq(s, k+1, Len(s))
<1> HIDE DEF u, v
<1>3. /\ u \o v \in Seq(S) /\ Len(u \o v) = Len(s) - 1
      /\ \A i \in 1..(Len(s)-1) : (u \o v)[i] = IF i < k THEN s[i] ELSE s[i+1]
  <2>1. /\ u \in Seq(S) /\ Len(u) = k-1 /\ \A i \in 1..(k-1) : u[i] = s[i]
    BY <1>1 DEF u
  <2>2. /\ v \in Seq(S) /\ Len(v) = Len(s)-k /\ \A i \in 1..(Len(s)-k) : v[i] = s[i+k]
    BY <1>2 DEF v
  <2>3. u \o v \in Seq(S) /\ Len(u \o v) = Len(s) - 1
    BY <2>1, <2>2
  <2>4. ASSUME NEW i \in 1..(Len(s)-1) PROVE (u \o v)[i] = IF i < k THEN s[i] ELSE s[i+1]
    <3>1. CASE i < k
      BY <2>1, <2>2, <3>1
    <3>2. CASE ~(i < k)
      <4>1. (u \o v)[i] = v[i - (k-1)]
        BY <2>1, <2>2, <3>2
      <4>2. i - (k-1) \in 1..(Len(s)-k) /\ (i - (k-1)) + k = i + 1
        BY <3>2
      <4>3. QED BY <4>1, <4>2, <2>2, <3>2
    <3>3. QED BY <3>1, <3>2
  <2>5. QED BY <2>3, <2>4
<1>4. RemoveAt(s, k) = u \o v
  BY DEF RemoveAt, u, v
<1>5. QED
  BY <1>3, <1>4

\* llist_remove(l,llist_find(l,e)) on a list without duplicates: e is gone,
\* the others stay, and there are still no duplicates.
LEMMA RemoveFirstKeeps ==
  ASSUME NEW S, NEW s \in Seq(S), NoDuplicates(s), NEW e \in S
  PROVE  /\ RemoveFirst(s, e) \in Seq(S)
         /\ NoDuplicates(RemoveFirst(s, e))
         /\ \A x \in S : Contains(RemoveFirst(s, e), x) <=> (Contains(s, x) /\ x # e)
<1>1. CASE ~ Contains(s, e)
  BY <1>1 DEF RemoveFirst, Contains
<1>2. CASE Contains(s, e)
  <2>1. PICK k \in 1..Len(s) : s[k] = e
    BY <1>2 DEF Contains
  <2>2. SelectInSeq(s, LAMBDA v : v = e) = k
    BY <2>1 DEF SelectInSeq, Min, NoDuplicates
  <2>3. RemoveFirst(s, e) = RemoveAt(s, k)
    BY <2>1, <2>2 DEF RemoveFirst
  <2> DEFINE t == RemoveFirst(s, e)
  <2>4. /\ t \in Seq(S) /\ Len(t) = Len(s) - 1
        /\ \A i \in 1..Len(t) : t[i] = IF i < k THEN s[i] ELSE s[i+1]
    BY <2>3, RemoveAtElements
  <2> HIDE DEF t
  <2>5. NoDuplicates(t)
    <3>1. SUFFICES ASSUME NEW i \in 1..Len(t), NEW j \in 1..Len(t), t[i] = t[j] PROVE i = j
      BY DEF NoDuplicates
    <3> DEFINE f(m) == IF m < k THEN m ELSE m + 1
    <3>2. /\ f(i) \in 1..Len(s) /\ t[i] = s[f(i)]
          /\ f(j) \in 1..Len(s) /\ t[j] = s[f(j)]
      BY <2>1, <2>4
    <3>3. f(i) = f(j)
      BY <3>1, <3>2 DEF NoDuplicates
    <3>4. QED BY <3>3, <2>4
  <2>6. ASSUME NEW x \in S PROVE Contains(t, x) <=> (Contains(s, x) /\ x # e)
    <3>1. ASSUME NEW i \in 1..Len(t), t[i] = x PROVE Contains(s, x) /\ x # e
      BY <3>1, <2>1, <2>4 DEF Contains, NoDuplicates
    <3>2. ASSUME NEW i \in 1..Len(s), s[i] = x, x # e PROVE Contains(t, x)
      <4>1. CASE i < k
        BY <3>2, <4>1, <2>1, <2>4 DEF Contains
      <4>2. CASE i > k
        <5>1. i-1 \in 1..Len(t) /\ t[i-1] = x
          BY <3>2, <4>2, <2>1, <2>4
        <5>2. QED BY <5>1 DEF Contains
      <4>3. QED BY <3>2, <4>1, <4>2, <2>1
    <3>3. QED BY <3>1, <3>2 DEF Contains
  <2>7. QED
    BY <2>4, <2>5, <2>6 DEF t
<1>3. QED
  BY <1>1, <1>2

\* llist_push of a new element: it is in the list and duplicates do not arise.
LEMMA ConsKeeps ==
  ASSUME NEW S, NEW s \in Seq(S), NoDuplicates(s), NEW e \in S, ~Contains(s, e)
  PROVE  /\ Cons(e, s) \in Seq(S)
         /\ NoDuplicates(Cons(e, s))
         /\ \A x \in S : Contains(Cons(e, s), x) <=> (Contains(s, x) \/ x = e)
<1> DEFINE t == Cons(e, s)
<1>1. /\ t \in Seq(S) /\ Len(t) = Len(s) + 1 /\ t[1] = e
      /\ \A i \in 1..Len(s) : t[i+1] = s[i]
  BY DEF Cons
<1> HIDE DEF t
<1>2. \A j \in 1..Len(t) : j # 1 => j - 1 \in 1..Len(s) /\ t[j] = s[j-1]
  <2>1. ASSUME NEW j \in 1..Len(t), j # 1 PROVE j - 1 \in 1..Len(s) /\ t[j] = s[j-1]
    <3>1. j - 1 \in 1..Len(s) /\ (j - 1) + 1 = j
      BY <2>1, <1>1
    <3>2. QED BY <3>1, <1>1
  <2>2. QED BY <2>1
<1>3. NoDuplicates(t)
  <2>1. SUFFICES ASSUME NEW i \in 1..Len(t), NEW j \in 1..Len(t), t[i] = t[j] PROVE i = j
    BY DEF NoDuplicates
  <2>2. CASE i = 1
    BY <2>1, <2>2, <1>1, <1>2 DEF Contains
  <2>3. CASE j = 1
    BY <2>1, <2>3, <1>1, <1>2 DEF Contains
  <2>4. CASE i # 1 /\ j # 1
    <3>1. i - 1 = j - 1
      BY <2>1, <2>4, <1>2 DEF NoDuplicates
    <3>2. QED BY <3>1, <1>1
  <2>5. QED BY <2>2, <2>3, <2>4
<1>4. ASSUME NEW x \in S PROVE Contains(t, x) <=> (Contains(s, x) \/ x = e)
  <2>1. ASSUME NEW j \in 1..Len(t), t[j] = x PROVE Contains(s, x) \/ x = e
    BY <2>1, <1>1, <1>2 DEF Contains
  <2>2. ASSUME NEW i \in 1..Len(s), s[i] = x PROVE Contains(t, x)
    <3>1. i + 1 \in 1..Len(t) /\ t[i+1] = x
      BY <2>2, <1>1
    <3>2. QED BY <3>1 DEF Contains
  <2>3. Contains(t, e)
    BY <1>1 DEF Contains
  <2>4. QED BY <2>1, <2>2, <2>3 DEF Contains
<1>5. QED
  BY <1>1, <1>3, <1>4 DEF t

\* A non-empty set of list positions has a largest element.
LEMMA MaxOfPositions ==
  ASSUME NEW n \in Nat, NEW S \in SUBSET (1..n), S # {}
  PROVE  Max(S) \in S
<1> DEFINE D == {n - i : i \in S}
<1>1. D \subseteq Nat /\ D # {}
  OBVIOUS
<1> DEFINE R == {ss \in Nat \X Nat : ss[1] < ss[2]}
<1>a. IsWellFoundedOn(R, Nat)
  BY NatLessThanWellFounded, Zenon DEF OpToRel
<1>2. PICK d \in D : \A e \in D : ~(<<e, d>> \in R)
  <2> HIDE DEF R, D
  <2>1. QED BY <1>1, <1>a, WFMin
<1>3. ASSUME NEW e \in D PROVE d <= e
  <2>1. e \in Nat /\ d \in Nat
    BY <1>1
  <2>2. ~(e < d)
    BY <1>2, <2>1
  <2>3. QED BY <2>1, <2>2
<1>4. PICK x \in S : d = n - x
  OBVIOUS
<1>5. \A y \in S : x >= y
  <2>1. ASSUME NEW y \in S PROVE x >= y
    <3>1. n - y \in D
      OBVIOUS
    <3>2. d <= n - y
      BY <3>1, <1>3
    <3>3. QED BY <3>2, <1>4
  <2>2. QED BY <2>1
<1>6. QED
  BY <1>4, <1>5 DEF Max

-----------------------------------------------------------------------------
\* The history variable why agrees with is_sleeping.
WhyMatches(k) == \A p \in Procs : k.why[p] = "awake" <=> ~k.is_sleeping[p]

\* What holds whenever proc_shedule() is called; the current process may
\* just have left the run list.
SchedOK(k, live) ==
  /\ k \in SchedType
  /\ ListsMatch(k, live)
  /\ TicksInRange(k)
  /\ ContextsKept(k, live)
  /\ WhyMatches(k)

\* The inductive invariant of the scheduler.
SchedInv(k, live) == SchedOK(k, live) /\ CurrentRuns(k)

\* proc_wake() keeps the scheduler's invariant when the process lives or is
\* not marked asleep, and touches nothing but the lists and the process's flag.
LEMMA WakeKeeps ==
  ASSUME NEW live \in SUBSET Procs, NEW k, SchedInv(k, live),
         NEW p \in Procs, p \in live \/ ~k.is_sleeping[p]
  PROVE  LET w == proc_wake(k, p)
         IN  /\ SchedInv(w, live)
             /\ w.current = k.current /\ w.power = k.power
             /\ w.is_sleeping = [k.is_sleeping EXCEPT ![p] = FALSE]
             /\ w.why = IF k.is_sleeping[p] THEN [k.why EXCEPT ![p] = "awake"] ELSE k.why
<1>1. CASE ~k.is_sleeping[p]
  BY <1>1 DEF proc_wake, SchedInv, SchedOK, SchedType
<1>2. CASE k.is_sleeping[p]
  <2> DEFINE w == proc_wake(k, p)
  <2>1. k \in SchedType
    BY DEF SchedInv, SchedOK
  <2>3. /\ w = [running |-> Cons(p, k.running), sleeping |-> RemoveFirst(k.sleeping, p),
                is_sleeping |-> [k.is_sleeping EXCEPT ![p] = FALSE],
                ticks_rem |-> k.ticks_rem, current |-> k.current, frame |-> k.frame,
                saved |-> k.saved, why |-> [k.why EXCEPT ![p] = "awake"],
                power |-> k.power]
    BY <1>2, <2>1 DEF proc_wake, SchedType
  <2>4. p \in live /\ ~Contains(k.running, p) /\ k.running \in Seq(Procs)
        /\ k.sleeping \in Seq(Procs) /\ NoDuplicates(k.running) /\ NoDuplicates(k.sleeping)
    BY <1>2, <2>1 DEF SchedInv, SchedOK, ListsMatch, SchedType
  <2>5. /\ w.running \in Seq(Procs) /\ NoDuplicates(w.running)
        /\ \A x \in Procs : Contains(w.running, x) <=> (Contains(k.running, x) \/ x = p)
    BY <2>3, <2>4, ConsKeeps
  <2>6. /\ w.sleeping \in Seq(Procs) /\ NoDuplicates(w.sleeping)
        /\ \A x \in Procs : Contains(w.sleeping, x) <=> (Contains(k.sleeping, x) /\ x # p)
    <3> DEFINE r == RemoveFirst(k.sleeping, p)
    <3>1. /\ r \in Seq(Procs) /\ NoDuplicates(r)
          /\ \A x \in Procs : Contains(r, x) <=> (Contains(k.sleeping, x) /\ x # p)
      BY <2>4, RemoveFirstKeeps
    <3>2. w.sleeping = r
      BY <2>3
    <3>3. QED BY <3>1, <3>2
  <2>7. w \in SchedType
    BY <2>1, <2>3, <2>5, <2>6 DEF SchedType, Reasons
  <2>8. ListsMatch(w, live)
    BY <2>1, <2>3, <2>4, <2>5, <2>6 DEF ListsMatch, SchedInv, SchedOK, SchedType
  <2>9. TicksInRange(w) /\ ContextsKept(w, live)
    BY <2>1, <2>3 DEF TicksInRange, ContextsKept, SchedInv, SchedOK
  <2>10. WhyMatches(w)
    BY <2>1, <2>3 DEF WhyMatches, SchedInv, SchedOK, SchedType
  <2>11. CurrentRuns(w)
    BY <2>1, <2>3, <2>5 DEF CurrentRuns, SchedInv, SchedType
  <2>12. QED
    BY <1>2, <2>3, <2>7, <2>8, <2>9, <2>10, <2>11 DEF SchedInv, SchedOK
<1>3. QED
  BY <1>1, <1>2

\* proc_shedule() re-establishes the whole invariant, also when the current
\* process has just left the run list, and moves no process between lists.
LEMMA SheduleKeeps ==
  ASSUME NEW live \in SUBSET Procs, NEW k, SchedOK(k, live),
         k.current # NULL => k.current \in live
  PROVE  LET s == proc_shedule(k)
         IN  /\ SchedInv(s, live)
             /\ s.is_sleeping = k.is_sleeping /\ s.why = k.why
<1> DEFINE s == proc_shedule(k)
<1>1. k \in SchedType /\ NULL \notin Procs
  BY DEF SchedOK, Procs, NULL
<1>2. CASE k.running = << >> /\ k.sleeping = << >>
  <2>1. s = [k EXCEPT !.power = FALSE]
    BY <1>2 DEF proc_shedule
  <2>2. /\ s \in SchedType
        /\ s.running = k.running /\ s.sleeping = k.sleeping /\ s.is_sleeping = k.is_sleeping
        /\ s.ticks_rem = k.ticks_rem /\ s.current = k.current /\ s.frame = k.frame
        /\ s.saved = k.saved /\ s.why = k.why
    BY <1>1, <2>1 DEF SchedType
  <2>3. k.current = NULL
    BY <1>1, <1>2 DEF SchedOK, ListsMatch, Contains
  <2>4. QED
    BY <2>2, <2>3 DEF SchedOK, SchedInv, ListsMatch, TicksInRange, ContextsKept,
                      WhyMatches, CurrentRuns
<1>3. CASE k.running = << >> /\ k.sleeping # << >>
  <2>1. s = [proc_regs_save(k, k.current) EXCEPT !.current = NULL, !.frame = NULL]
    BY <1>3 DEF proc_shedule
  <2>2. k.current # NULL => proc_regs_save(k, k.current) = [k EXCEPT !.saved = @ \cup {k.current}]
    BY DEF proc_regs_save, SchedOK, ContextsKept
  <2>3. k.current = NULL => proc_regs_save(k, k.current) = k
    BY DEF proc_regs_save
  <2>4. /\ s \in SchedType
        /\ s.running = k.running /\ s.sleeping = k.sleeping /\ s.is_sleeping = k.is_sleeping
        /\ s.ticks_rem = k.ticks_rem /\ s.current = NULL /\ s.frame = NULL
        /\ s.saved = (IF k.current # NULL THEN k.saved \cup {k.current} ELSE k.saved)
        /\ s.why = k.why
    <3>1. CASE k.current # NULL
      <4> DEFINE u == k.saved \cup {k.current}
      <4>1. s = [k EXCEPT !.saved = u, !.current = NULL, !.frame = NULL]
        BY <1>1, <3>1, <2>1, <2>2
      <4>2. u \in SUBSET Procs
        BY <1>1, <3>1 DEF SchedType
      <4> HIDE DEF u
      <4>3. /\ s \in SchedType
            /\ s.running = k.running /\ s.sleeping = k.sleeping /\ s.is_sleeping = k.is_sleeping
            /\ s.ticks_rem = k.ticks_rem /\ s.current = NULL /\ s.frame = NULL
            /\ s.saved = u /\ s.why = k.why
        BY <1>1, <4>1, <4>2 DEF SchedType
      <4>4. QED BY <3>1, <4>3 DEF u
    <3>2. CASE k.current = NULL
      <4>1. s = [k EXCEPT !.current = NULL, !.frame = NULL]
        BY <1>1, <3>2, <2>1, <2>3
      <4>2. QED BY <1>1, <3>2, <4>1 DEF SchedType
    <3>3. QED BY <3>1, <3>2
  <2>5. ContextsKept(s, live)
    BY <1>1, <2>4 DEF ContextsKept, SchedOK
  <2>6. QED
    BY <2>4, <2>5 DEF SchedOK, SchedInv, ListsMatch, TicksInRange, WhyMatches, CurrentRuns
<1>4. CASE k.running # << >>
  <2> DEFINE ticks == TicksAfterTurn(k)
             el    == Eligible(k.running, ticks)
             next  == IF el # {} THEN k.running[Max(el)] ELSE k.running[1]
             new   == [p \in Procs |-> IF el = {} /\ Contains(k.running, p)
                                       THEN NICE2TICKS ELSE ticks[p]]
             kt    == [k EXCEPT !.current = next, !.ticks_rem = new]
             ks    == IF k.current # NULL THEN proc_regs_save(kt, k.current) ELSE kt
  <2>1. s = IF next = k.current THEN kt ELSE proc_regs_load(ks, next)
    BY <1>4 DEF proc_shedule
  <2>2. \A p \in Procs : ticks[p] \in 0..1
    BY <1>1, SchedAssumption
       DEF TicksAfterTurn, Dec, SchedOK, TicksInRange, SchedType, NICE2TICKS
  <2>3. \E i \in 1..Len(k.running) : next = k.running[i] /\ (el # {} => ticks[next] > 0)
    <3>1. CASE el = {}
      <4>1. 1 \in 1..Len(k.running)
        BY <1>1, <1>4 DEF SchedType
      <4>2. QED BY <3>1, <4>1
    <3>2. CASE el # {}
      <4>1. el \in SUBSET (1..Len(k.running)) /\ Len(k.running) \in Nat
        BY <1>1 DEF Eligible, SchedType
      <4> HIDE DEF el
      <4>2. Max(el) \in el
        BY <3>2, <4>1, MaxOfPositions
      <4> USE DEF el
      <4>3. ticks[k.running[Max(el)]] > 0
        BY <4>2 DEF Eligible
      <4> HIDE DEF el
      <4>4. QED BY <3>2, <4>1, <4>2, <4>3
    <3>3. QED BY <3>1, <3>2
  <2> HIDE DEF ticks, el, next
  <2>4. next \in Procs /\ Contains(k.running, next) /\ next \in live
    <3>1. next \in Procs
      BY <1>1, <2>3 DEF SchedType
    <3>2. Contains(k.running, next)
      BY <2>3 DEF Contains
    <3>3. QED BY <3>1, <3>2 DEF SchedOK, ListsMatch
  <2>5. new \in [Procs -> 0..1] /\ new[next] > 0
    BY <2>2, <2>3, <2>4 DEF NICE2TICKS
  <2> HIDE DEF new
  <2>6. /\ kt \in SchedType
        /\ kt.running = k.running /\ kt.sleeping = k.sleeping /\ kt.is_sleeping = k.is_sleeping
        /\ kt.ticks_rem = new /\ kt.current = next /\ kt.frame = k.frame
        /\ kt.saved = k.saved /\ kt.why = k.why
    <3>1. new \in [Procs -> 0..CLOCK_MAX]
      BY <2>5, SchedAssumption
    <3>2. QED BY <1>1, <2>4, <3>1 DEF SchedType
  <2> HIDE DEF kt
  <2>7. CASE next = k.current
    <3>1. s = kt
      BY <2>1, <2>7
    <3>2. ListsMatch(kt, live) /\ WhyMatches(kt)
      BY <2>6 DEF SchedOK, ListsMatch, WhyMatches
    <3>3. TicksInRange(kt)
      BY <2>5, <2>6 DEF TicksInRange, NICE2TICKS
    <3>4. ContextsKept(kt, live)
      BY <2>6, <2>7 DEF ContextsKept, SchedOK
    <3>5. CurrentRuns(kt)
      BY <2>4, <2>6 DEF CurrentRuns
    <3>6. QED BY <2>6, <3>1, <3>2, <3>3, <3>4, <3>5 DEF SchedOK, SchedInv
  <2>8. CASE next # k.current
    <3>1. s = proc_regs_load(ks, next)
      BY <2>1, <2>8
    <3>2. k.current # NULL => ks = [kt EXCEPT !.saved = @ \cup {k.current}]
      BY <2>6 DEF proc_regs_save, SchedOK, ContextsKept
    <3>3. k.current = NULL => ks = kt
      OBVIOUS
    <3>4. /\ ks \in SchedType
          /\ ks.running = k.running /\ ks.sleeping = k.sleeping /\ ks.is_sleeping = k.is_sleeping
          /\ ks.ticks_rem = new /\ ks.current = next /\ ks.why = k.why
          /\ ks.saved = (IF k.current # NULL THEN k.saved \cup {k.current} ELSE k.saved)
      <4>1. CASE k.current # NULL
        <5> DEFINE u == k.saved \cup {k.current}
        <5>1. ks = [kt EXCEPT !.saved = u]
          BY <2>6, <3>2, <4>1
        <5>2. u \in SUBSET Procs
          BY <1>1, <4>1 DEF SchedType
        <5> HIDE DEF u, ks
        <5>3. /\ ks \in SchedType
              /\ ks.running = k.running /\ ks.sleeping = k.sleeping
              /\ ks.is_sleeping = k.is_sleeping
              /\ ks.ticks_rem = new /\ ks.current = next /\ ks.why = k.why /\ ks.saved = u
          BY <2>6, <5>1, <5>2 DEF SchedType
        <5>4. QED BY <4>1, <5>3 DEF u
      <4>2. CASE k.current = NULL
        BY <2>6, <3>3, <4>2
      <4>3. QED BY <4>1, <4>2
    <3> HIDE DEF ks
    <3>5. next \in ks.saved
      BY <2>4, <2>8, <3>4 DEF SchedOK, ContextsKept
    <3>6. /\ s \in SchedType
          /\ s.running = k.running /\ s.sleeping = k.sleeping /\ s.is_sleeping = k.is_sleeping
          /\ s.ticks_rem = new /\ s.current = next /\ s.why = k.why
          /\ s.frame = next /\ s.saved = ks.saved \ {next}
      BY <2>4, <3>1, <3>4, <3>5 DEF proc_regs_load, SchedType
    <3> HIDE DEF s
    <3>7. ListsMatch(s, live) /\ WhyMatches(s)
      BY <3>6 DEF SchedOK, ListsMatch, WhyMatches
    <3>8. TicksInRange(s)
      BY <2>5, <3>6 DEF TicksInRange, NICE2TICKS
    <3>9. ContextsKept(s, live)
      BY <1>1, <3>4, <3>6 DEF ContextsKept, SchedOK
    <3>10. CurrentRuns(s)
      BY <2>4, <3>6 DEF CurrentRuns
    <3>11. QED BY <3>6, <3>7, <3>8, <3>9, <3>10 DEF SchedOK, SchedInv, s
  <2>9. QED BY <2>7, <2>8
<1>5. QED
  BY <1>2, <1>3, <1>4

\* proc_sleep() of a living process keeps the invariant: if the process is the
\* current one, another process (or the idle loop) gets the CPU.
LEMMA SleepKeeps ==
  ASSUME NEW live \in SUBSET Procs, NEW k, SchedInv(k, live),
         NEW p \in live, ~k.is_sleeping[p], NEW call \in Reasons, call # "awake"
  PROVE  LET s == proc_sleep(k, p, call)
         IN  /\ SchedInv(s, live)
             /\ s.is_sleeping = [k.is_sleeping EXCEPT ![p] = TRUE]
             /\ s.why = [k.why EXCEPT ![p] = call]
<1> DEFINE ks == [k EXCEPT !.is_sleeping[p] = TRUE,
                           !.why[p]   = call,
                           !.running  = RemoveFirst(@, p),
                           !.sleeping = Cons(p, @)]
           s  == proc_sleep(k, p, call)
<1>1. k \in SchedType /\ p \in Procs
  BY DEF SchedInv, SchedOK
<1>2. s = IF p = k.current THEN proc_shedule(ks) ELSE ks
  BY DEF proc_sleep
<1>3. ks = [running |-> RemoveFirst(k.running, p), sleeping |-> Cons(p, k.sleeping),
            is_sleeping |-> [k.is_sleeping EXCEPT ![p] = TRUE],
            ticks_rem |-> k.ticks_rem, current |-> k.current, frame |-> k.frame,
            saved |-> k.saved, why |-> [k.why EXCEPT ![p] = call], power |-> k.power]
  <2> DEFINE r == RemoveFirst(k.running, p)
             c == Cons(p, k.sleeping)
             z == [k.is_sleeping EXCEPT ![p] = TRUE]
             y == [k.why EXCEPT ![p] = call]
  <2>1. ks = [k EXCEPT !.is_sleeping = z, !.why = y, !.running = r, !.sleeping = c]
    BY <1>1 DEF SchedType
  <2> HIDE DEF r, c, z, y, ks
  <2>2. ks = [running |-> r, sleeping |-> c, is_sleeping |-> z, ticks_rem |-> k.ticks_rem,
              current |-> k.current, frame |-> k.frame, saved |-> k.saved, why |-> y,
              power |-> k.power]
    BY <1>1, <2>1 DEF SchedType
  <2>3. QED BY <2>2 DEF r, c, z, y
<1> HIDE DEF ks
<1>4. /\ ~Contains(k.sleeping, p) /\ k.running \in Seq(Procs) /\ k.sleeping \in Seq(Procs)
      /\ NoDuplicates(k.running) /\ NoDuplicates(k.sleeping)
  BY <1>1 DEF SchedInv, SchedOK, ListsMatch, SchedType
<1>5. /\ ks.sleeping \in Seq(Procs) /\ NoDuplicates(ks.sleeping)
      /\ \A x \in Procs : Contains(ks.sleeping, x) <=> (Contains(k.sleeping, x) \/ x = p)
  BY <1>1, <1>3, <1>4, ConsKeeps
<1>6. /\ ks.running \in Seq(Procs) /\ NoDuplicates(ks.running)
      /\ \A x \in Procs : Contains(ks.running, x) <=> (Contains(k.running, x) /\ x # p)
  <2> DEFINE r == RemoveFirst(k.running, p)
  <2>1. /\ r \in Seq(Procs) /\ NoDuplicates(r)
        /\ \A x \in Procs : Contains(r, x) <=> (Contains(k.running, x) /\ x # p)
    BY <1>1, <1>4, RemoveFirstKeeps
  <2>2. ks.running = r
    BY <1>3
  <2>3. QED BY <2>1, <2>2
<1>7. SchedOK(ks, live)
  <2>1. ks \in SchedType
    BY <1>1, <1>3, <1>5, <1>6 DEF SchedType
  <2>2. ListsMatch(ks, live)
    BY <1>1, <1>3, <1>5, <1>6 DEF ListsMatch, SchedInv, SchedOK, SchedType
  <2>3. TicksInRange(ks) /\ ContextsKept(ks, live)
    BY <1>1, <1>3 DEF TicksInRange, ContextsKept, SchedInv, SchedOK
  <2>4. WhyMatches(ks)
    BY <1>1, <1>3 DEF WhyMatches, SchedInv, SchedOK, SchedType
  <2>5. QED BY <2>1, <2>2, <2>3, <2>4 DEF SchedOK
<1>8. ks.is_sleeping = [k.is_sleeping EXCEPT ![p] = TRUE] /\ ks.why = [k.why EXCEPT ![p] = call]
      /\ ks.current = k.current
  BY <1>3
<1>9. CASE p = k.current
  <2> DEFINE t == proc_shedule(ks)
  <2>1. SchedInv(t, live) /\ t.is_sleeping = ks.is_sleeping /\ t.why = ks.why
    BY <1>7, <1>8, <1>9, SheduleKeeps
  <2>2. s = t
    BY <1>2, <1>9
  <2>3. QED BY <1>8, <2>1, <2>2
<1>10. CASE p # k.current
  <2>1. CurrentRuns(ks)
    BY <1>1, <1>6, <1>8, <1>10 DEF CurrentRuns, SchedInv, SchedType
  <2>2. s = ks
    BY <1>2, <1>10
  <2>3. QED BY <1>7, <1>8, <2>1, <2>2 DEF SchedInv
<1>11. QED
  BY <1>9, <1>10
=============================================================================
