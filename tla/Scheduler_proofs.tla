-------------------------- MODULE Scheduler_proofs --------------------------
(***************************************************************************)
(* The safety properties of the scheduler for any set of processes.  Their *)
(* conjunction is inductive: schedule is right about where a process goes  *)
(* because its state matches its place, and the states stay right because  *)
(* a process is in one place only.                                         *)
(***************************************************************************)
EXTENDS Scheduler, SequenceTheorems, TLAPS

SchedInv ==
    /\ TypeOK
    /\ OnePlace
    /\ StateMatchesPlace
    /\ QueuedHasContext
    /\ NoBorrowPanic
    /\ CurrentMatchesCpu

(* What is in a queue after push_back.                                     *)
LEMMA AppendQueue ==
    ASSUME NEW q \in Seq(Procs), NEW x \in Procs
    PROVE  /\ Append(q, x) \in Seq(Procs)
           /\ \A p : InQueue(p, Append(q, x)) <=> InQueue(p, q) \/ p = x
           /\ Distinct(q) /\ ~InQueue(x, q) => Distinct(Append(q, x))
<1> DEFINE a == Append(q, x)
<1>1. /\ a \in Seq(Procs)
      /\ Len(a) = Len(q) + 1
      /\ \A i \in 1..Len(q) : a[i] = q[i]
      /\ a[Len(q) + 1] = x
  BY AppendProperties
<1>2. Len(q) \in Nat
  BY LenProperties
<1> HIDE DEF a
<1>3. \A i \in 1..Len(a) : i \in 1..Len(q) \/ i = Len(q) + 1
  BY <1>1, <1>2
<1>4. \A i \in 1..Len(q) : i \in 1..Len(a)
  BY <1>1, <1>2
<1>5. Len(q) + 1 \in 1..Len(a)
  BY <1>1, <1>2
<1>6. \A p : InQueue(p, a) <=> InQueue(p, q) \/ p = x
  BY <1>1, <1>3, <1>4, <1>5 DEF InQueue
<1>7. Distinct(q) /\ ~InQueue(x, q) => Distinct(a)
  BY <1>1, <1>3 DEF InQueue, Distinct
<1> QED
  BY <1>1, <1>6, <1>7 DEF a

(* What is in a queue after pop_front.                                     *)
LEMMA TailQueue ==
    ASSUME NEW q \in Seq(Procs), q # << >>
    PROVE  /\ Head(q) \in Procs
           /\ Tail(q) \in Seq(Procs)
           /\ \A p : InQueue(p, q) <=> InQueue(p, Tail(q)) \/ p = Head(q)
           /\ Distinct(q) => Distinct(Tail(q)) /\ ~InQueue(Head(q), Tail(q))
<1> DEFINE t == Tail(q)
<1>1. /\ Head(q) \in Procs
      /\ t \in Seq(Procs)
      /\ Len(t) = Len(q) - 1
      /\ \A i \in 1..Len(t) : t[i] = q[i + 1]
  BY HeadTailProperties
<1>2. Len(q) \in Nat \ {0} /\ Head(q) = q[1]
  BY EmptySeq
<1> HIDE DEF t
<1>3. \A i \in 1..Len(q) : i = 1 \/ (i - 1 \in 1..Len(t) /\ (i - 1) + 1 = i)
  BY <1>1, <1>2
<1>4. 1 \in 1..Len(q) /\ \A i \in 1..Len(t) : i + 1 \in 1..Len(q) /\ i + 1 # 1
  BY <1>1, <1>2
<1>5. ASSUME NEW p PROVE InQueue(p, q) <=> InQueue(p, t) \/ p = Head(q)
  <2>1. ASSUME NEW i \in 1..Len(q), q[i] = p PROVE InQueue(p, t) \/ p = Head(q)
    <3>1. CASE i = 1
      BY <1>2, <2>1, <3>1
    <3>2. CASE i - 1 \in 1..Len(t) /\ (i - 1) + 1 = i
      BY <1>1, <2>1, <3>2, Zenon DEF InQueue
    <3> QED BY <1>3, <3>1, <3>2
  <2>2. InQueue(p, t) => InQueue(p, q)
    BY <1>1, <1>4 DEF InQueue
  <2>3. p = Head(q) => InQueue(p, q)
    BY <1>2, <1>4 DEF InQueue
  <2> QED BY <2>1, <2>2, <2>3 DEF InQueue
<1>6. Distinct(q) => Distinct(t)
  <2> SUFFICES ASSUME Distinct(q), NEW i \in 1..Len(t), NEW j \in 1..Len(t), t[i] = t[j]
               PROVE  i = j
    BY DEF Distinct
  <2>1. q[i + 1] = q[j + 1]
    BY <1>1
  <2>2. i + 1 = j + 1
    BY <1>4, <2>1 DEF Distinct
  <2> QED BY <2>2
<1>7. Distinct(q) => ~InQueue(Head(q), t)
  BY <1>1, <1>2, <1>4 DEF InQueue, Distinct
<1> QED
  BY <1>1, <1>5, <1>6, <1>7 DEF t

LEMMA EmptyQueue == Distinct(<< >>) /\ \A p : ~InQueue(p, << >>)
  BY DEF Distinct, InQueue

LEMMA InitSched == Init => SchedInv
<1> SUFFICES ASSUME Init PROVE SchedInv
  OBVIOUS
<1>1. TypeOK
  BY ProcsAssumption, LimitAssumption
  DEF Init, TypeOK, States, Contexts, CpuStates
<1>2. OnePlace /\ StateMatchesPlace /\ QueuedHasContext
  BY EmptyQueue, ProcsAssumption DEF Init, OnePlace, StateMatchesPlace, QueuedHasContext
<1> QED
  BY <1>1, <1>2 DEF Init, SchedInv, NoBorrowPanic, CurrentMatchesCpu

(* The switch keeps the invariant, given that the process put away (if     *)
(* any) is already in the wait queue wq, and st and ctx say so.            *)
LEMMA SwitchKeepsInv ==
    ASSUME TypeOK, Distinct(runqueue),
           NEW wq \in Seq(Procs), Distinct(wq), waitqueue' = wq,
           NEW st \in [Procs -> States], NEW ctx \in [Procs -> Contexts],
           \A p \in Procs :
              /\ ~(InQueue(p, runqueue) /\ InQueue(p, wq))
              /\ st[p] # "NONE" => InQueue(p, runqueue) \/ InQueue(p, wq)
              /\ InQueue(p, runqueue) => /\ st[p] = "RUNNABLE"
                                         /\ ctx[p] \in {"new", "saved"}
              /\ InQueue(p, wq) => st[p] = "WAITING" /\ ctx[p] = "saved",
           SwitchToNext(st, ctx), UNCHANGED events
    PROVE  SchedInv'
<1>1. CASE runqueue # << >>
  <2> DEFINE n == Head(runqueue)
  <2>1. /\ current' = n /\ runqueue' = Tail(runqueue) /\ cpu' = "user"
        /\ state' = [st EXCEPT ![n] = "RUNNING"]
        /\ context' = [ctx EXCEPT ![n] = "stale"]
    BY <1>1 DEF SwitchToNext
  <2>2. /\ n \in Procs /\ Tail(runqueue) \in Seq(Procs) /\ Distinct(Tail(runqueue))
        /\ ~InQueue(n, Tail(runqueue)) /\ InQueue(n, runqueue) /\ ~InQueue(n, wq)
        /\ \A p : InQueue(p, runqueue) <=> InQueue(p, Tail(runqueue)) \/ p = n
    BY <1>1, TailQueue DEF TypeOK
  <2> HIDE DEF n
  <2>3. TypeOK'
    BY <2>1, <2>2, Zenon DEF TypeOK, States, Contexts, CpuStates
  <2>4. /\ \A p \in Procs : p # n => state'[p] = st[p] /\ context'[p] = ctx[p]
        /\ state'[n] = "RUNNING"
    BY <2>1, <2>2
  <2>5. OnePlace'
    BY <2>1, <2>2, <2>4 DEF OnePlace
  <2>6. StateMatchesPlace'
    BY <2>1, <2>2, <2>4 DEF StateMatchesPlace
  <2>7. QueuedHasContext'
    BY <2>1, <2>2, <2>4 DEF QueuedHasContext
  <2>8. n # NoProc
    BY <2>2, ProcsAssumption
  <2> QED
    BY <2>1, <2>3, <2>5, <2>6, <2>7, <2>8 DEF SchedInv, NoBorrowPanic, CurrentMatchesCpu
<1>2. CASE runqueue = << >>
  <2>1. /\ current' = NoProc /\ runqueue' = << >> /\ cpu' = "idle"
        /\ state' = st /\ context' = ctx
    BY <1>2 DEF SwitchToNext
  <2>2. TypeOK'
    BY <2>1, EmptySeq, Zenon DEF TypeOK, CpuStates
  <2>3. OnePlace' /\ StateMatchesPlace' /\ QueuedHasContext'
    BY <1>2, <2>1, ProcsAssumption DEF OnePlace, StateMatchesPlace, QueuedHasContext
  <2> QED
    BY <2>1, <2>2, <2>3 DEF SchedInv, NoBorrowPanic, CurrentMatchesCpu
<1> QED
  BY <1>1, <1>2

LEMMA SchedStep == SchedInv /\ [Next]_vars => SchedInv'
<1> SUFFICES ASSUME SchedInv, [Next]_vars PROVE SchedInv'
  OBVIOUS
<1> USE DEF SchedInv
<1>1. ASSUME NEW p \in Procs, Spawn(p) PROVE SchedInv'
  <2>1. ~InQueue(p, runqueue) /\ ~InQueue(p, waitqueue) /\ current = NoProc
    BY <1>1 DEF Spawn, StateMatchesPlace, CurrentMatchesCpu
  <2>2. /\ runqueue' \in Seq(Procs) /\ Distinct(runqueue')
        /\ \A r : InQueue(r, runqueue') <=> InQueue(r, runqueue) \/ r = p
    BY <1>1, <2>1, AppendQueue DEF Spawn, TypeOK, OnePlace
  <2>3. TypeOK'
    BY <1>1, <2>2 DEF Spawn, TypeOK, States, Contexts
  <2>4. OnePlace'
    BY <1>1, <2>1, <2>2, ProcsAssumption DEF Spawn, OnePlace, TypeOK
  <2>5. StateMatchesPlace' /\ QueuedHasContext'
    BY <1>1, <2>1, <2>2, ProcsAssumption DEF Spawn, StateMatchesPlace, QueuedHasContext, TypeOK
  <2> QED
    BY <1>1, <2>3, <2>4, <2>5 DEF Spawn, NoBorrowPanic, CurrentMatchesCpu
<1>2. ASSUME NEW p \in Procs, DeviceInterrupt(p) PROVE SchedInv'
  <2>a. events' \in [Procs -> 0..EventLimit]
    <3>1. events \in [Procs -> 0..EventLimit] /\ EventLimit \in Nat
      BY LimitAssumption DEF TypeOK
    <3>2. events[p] \in 0..EventLimit
      BY <3>1
    <3>3. (IF events[p] < EventLimit THEN events[p] + 1 ELSE events[p]) \in 0..EventLimit
      BY <3>1, <3>2
    <3>4. events' = [events EXCEPT ![p] =
                       IF events[p] < EventLimit THEN events[p] + 1 ELSE events[p]]
      BY <1>2 DEF DeviceInterrupt
    <3> QED BY <3>1, <3>3, <3>4
  <2>1. TypeOK'
    BY <1>2, <2>a, Zenon DEF DeviceInterrupt, ResumeAfterInterrupt, TypeOK, CpuStates
  <2> QED
    BY <1>2, <2>1, Zenon DEF DeviceInterrupt, ResumeAfterInterrupt, OnePlace,
       StateMatchesPlace, QueuedHasContext, NoBorrowPanic, CurrentMatchesCpu
<1>3. ASSUME ScheduleFirst PROVE SchedInv'
  <2>1. current = NoProc
    BY <1>3 DEF ScheduleFirst, CurrentMatchesCpu
  <2>2. /\ waitqueue' = waitqueue /\ waitqueue \in Seq(Procs) /\ UNCHANGED events
        /\ SwitchToNext(state, context)
        /\ state \in [Procs -> States] /\ context \in [Procs -> Contexts]
    BY <1>3 DEF ScheduleFirst, TypeOK
  <2>3. \A p \in Procs :
          /\ ~(InQueue(p, runqueue) /\ InQueue(p, waitqueue))
          /\ state[p] # "NONE" => InQueue(p, runqueue) \/ InQueue(p, waitqueue)
          /\ InQueue(p, runqueue) => /\ state[p] = "RUNNABLE"
                                     /\ context[p] \in {"new", "saved"}
          /\ InQueue(p, waitqueue) => state[p] = "WAITING" /\ context[p] = "saved"
    BY <2>1, ProcsAssumption DEF OnePlace, StateMatchesPlace, QueuedHasContext
  <2>4. Distinct(runqueue) /\ Distinct(waitqueue)
    BY DEF OnePlace
  <2> QED
    BY <2>2, <2>3, <2>4, SwitchKeepsInv
<1>4. ASSUME ProcessWait PROVE SchedInv'
  <2>1. current \in Procs /\ state' = [state EXCEPT ![current] = "WAITING"]
    BY <1>4 DEF ProcessWait, CurrentMatchesCpu, TypeOK
  <2>2. TypeOK'
    BY <1>4, Zenon DEF ProcessWait, TypeOK, States, CpuStates
  <2>3. state[current] = "RUNNING"
    BY <1>4, <2>1 DEF ProcessWait, StateMatchesPlace
  <2>4. OnePlace'
    BY <1>4, <2>1, <2>3 DEF ProcessWait, OnePlace, TypeOK
  <2>5. StateMatchesPlace' /\ QueuedHasContext'
    BY <1>4, <2>1, <2>3 DEF ProcessWait, StateMatchesPlace, QueuedHasContext, OnePlace, TypeOK
  <2> QED
    BY <1>4, <2>2, <2>4, <2>5 DEF ProcessWait, NoBorrowPanic, CurrentMatchesCpu
<1>5. ASSUME Schedule PROVE SchedInv'
  <2> DEFINE wq == Append(waitqueue, current)
             ctx == [context EXCEPT ![current] = "saved"]
  <2>1. current \in Procs /\ state[current] = "WAITING"
    BY <1>5, Zenon DEF Schedule, CurrentMatchesCpu, TypeOK, StateMatchesPlace
  <2>2. /\ waitqueue' = wq /\ SwitchToNext(state, ctx) /\ UNCHANGED events
    BY <1>5, <2>1 DEF Schedule
  <2>3. ~InQueue(current, runqueue) /\ ~InQueue(current, waitqueue)
    BY <2>1 DEF OnePlace
  <2>4. /\ wq \in Seq(Procs) /\ Distinct(wq)
        /\ \A p : InQueue(p, wq) <=> InQueue(p, waitqueue) \/ p = current
    BY <2>1, <2>3, AppendQueue DEF TypeOK, OnePlace
  <2>5. /\ ctx \in [Procs -> Contexts] /\ ctx[current] = "saved"
        /\ \A p \in Procs : p # current => ctx[p] = context[p]
    BY <2>1 DEF TypeOK, Contexts
  <2> HIDE DEF wq, ctx
  <2>6. \A p \in Procs :
          /\ ~(InQueue(p, runqueue) /\ InQueue(p, wq))
          /\ state[p] # "NONE" => InQueue(p, runqueue) \/ InQueue(p, wq)
          /\ InQueue(p, runqueue) => /\ state[p] = "RUNNABLE"
                                     /\ ctx[p] \in {"new", "saved"}
          /\ InQueue(p, wq) => state[p] = "WAITING" /\ ctx[p] = "saved"
    BY <2>1, <2>3, <2>4, <2>5 DEF OnePlace, StateMatchesPlace, QueuedHasContext
  <2>7. Distinct(runqueue) /\ state \in [Procs -> States]
    BY DEF OnePlace, TypeOK
  <2> QED
    BY <2>2, <2>4, <2>5, <2>6, <2>7, SwitchKeepsInv
<1>6. ASSUME TakeEvents PROVE SchedInv'
  <2>a. 0 \in 0..EventLimit
    BY LimitAssumption
  <2>b. events' \in [Procs -> 0..EventLimit]
    BY <1>6, <2>a, Zenon DEF TakeEvents, TypeOK
  <2>1. TypeOK'
    BY <1>6, <2>b DEF TakeEvents, TypeOK
  <2> QED
    BY <1>6, <2>1 DEF TakeEvents, OnePlace, StateMatchesPlace, QueuedHasContext,
       NoBorrowPanic, CurrentMatchesCpu
<1>7. ASSUME Exit \/ Halt \/ TimerInterrupt PROVE SchedInv'
  BY <1>7, Zenon DEF Exit, Halt, TimerInterrupt, ResumeAfterInterrupt, TypeOK, CpuStates,
     OnePlace, StateMatchesPlace, QueuedHasContext, NoBorrowPanic, CurrentMatchesCpu
<1>8. ASSUME WakeUpProcesses PROVE SchedInv'
  <2>1. /\ runqueue = << >> /\ current = NoProc
    BY <1>8 DEF WakeUpProcesses, CurrentMatchesCpu
  <2>2. runqueue' = waitqueue /\ waitqueue' = << >>
    BY <1>8, <2>1, ConcatEmptySeq DEF WakeUpProcesses, TypeOK
  <2>3. \A p \in Procs :
          state'[p] = IF InQueue(p, waitqueue) THEN "RUNNABLE" ELSE state[p]
    BY <1>8 DEF WakeUpProcesses, InQueue
  <2>4. TypeOK'
    BY <1>8, <2>2, EmptySeq DEF WakeUpProcesses, TypeOK, States, CpuStates
  <2>5. \A p \in Procs : ~InQueue(p, runqueue)
    BY <2>1, EmptyQueue
  <2>6. OnePlace'
    BY <1>8, <2>1, <2>2, <2>3, <2>5, EmptyQueue, ProcsAssumption DEF WakeUpProcesses, OnePlace
  <2>7. StateMatchesPlace' /\ QueuedHasContext'
    BY <1>8, <2>1, <2>2, <2>3, EmptyQueue, ProcsAssumption
    DEF WakeUpProcesses, StateMatchesPlace, QueuedHasContext
  <2> QED
    BY <1>8, <2>4, <2>6, <2>7 DEF WakeUpProcesses, NoBorrowPanic, CurrentMatchesCpu
<1>9. ASSUME UNCHANGED vars PROVE SchedInv'
  BY <1>9, Zenon DEF vars, TypeOK, OnePlace, StateMatchesPlace, QueuedHasContext,
     NoBorrowPanic, CurrentMatchesCpu
<1> QED
  BY <1>1, <1>2, <1>3, <1>4, <1>5, <1>6, <1>7, <1>8, <1>9 DEF Next

(* The scheduler's invariants hold in every reachable state.               *)
THEOREM SchedulerInvariant == Spec => []SchedInv
  BY InitSched, SchedStep, PTL DEF Spec

(* The variables keep their types; an event queue never holds more events  *)
(* than it has room for.                                                   *)
THEOREM SchedulerTypeCorrect == Spec => []TypeOK
<1>1. SchedInv => TypeOK
  BY DEF SchedInv
<1> QED
  BY <1>1, SchedulerInvariant, PTL

(* No process is lost, queued twice or both queued and running.            *)
THEOREM ProcessesHaveOnePlace == Spec => []OnePlace
<1>1. SchedInv => OnePlace
  BY DEF SchedInv
<1> QED
  BY <1>1, SchedulerInvariant, PTL

(* Every process schedule may choose has a context that can be resumed.    *)
THEOREM SwitchTargetsAreValid == Spec => []QueuedHasContext
<1>1. SchedInv => QueuedHasContext
  BY DEF SchedInv
<1> QED
  BY <1>1, SchedulerInvariant, PTL

(* schedule never panics on the borrow of the previous process's state.    *)
THEOREM ScheduleDoesNotPanic == Spec => []NoBorrowPanic
<1>1. SchedInv => NoBorrowPanic
  BY DEF SchedInv
<1> QED
  BY <1>1, SchedulerInvariant, PTL
-----------------------------------------------------------------------------
(* The order of the processes in line for the CPU, which are those in the  *)
(* run queue and behind them those in the wait queue, when a process joins *)
(* the end of the line ...                                                 *)
LEMMA LineGrows ==
    ASSUME NEW s \in Seq(Procs), NEW t \in Seq(Procs), NEW x \in Procs,
           NEW p, NEW q, Ahead(p, q, s \o t)
    PROVE  Ahead(p, q, s \o Append(t, x))
<1> DEFINE l == s \o t
           u == Append(t, x)
           m == s \o u
<1>1. /\ Len(l) = Len(s) + Len(t)
      /\ \A i \in 1..Len(s) + Len(t) : l[i] = IF i <= Len(s) THEN s[i] ELSE t[i - Len(s)]
  BY ConcatProperties
<1>2. /\ u \in Seq(Procs) /\ Len(u) = Len(t) + 1
      /\ \A i \in 1..Len(t) : u[i] = t[i]
  BY AppendProperties
<1> HIDE DEF u
<1>3. /\ Len(m) = Len(s) + Len(u)
      /\ \A i \in 1..Len(s) + Len(u) :
            m[i] = IF i <= Len(s) THEN s[i] ELSE u[i - Len(s)]
  BY <1>2, ConcatProperties
<1>4. Len(s) \in Nat /\ Len(t) \in Nat
  BY LenProperties
<1>5. \A i \in 1..Len(l) : i \in 1..Len(m) /\ m[i] = l[i]
  BY <1>1, <1>2, <1>3, <1>4
<1> HIDE DEF l, m
<1>6. Ahead(p, q, l)
  BY DEF l
<1>7. PICK i \in 1..Len(l) : l[i] = p /\ \A j \in 1..i : l[j] # q
  BY <1>6 DEF Ahead
<1>8. \A j \in 1..i : j \in 1..Len(l)
  BY <1>1, <1>4
<1>9. Ahead(p, q, m)
  BY <1>5, <1>7, <1>8, Zenon DEF Ahead
<1> QED
  BY <1>9 DEF m, u

(* ... and when the first of the run queue leaves it.                      *)
LEMMA LineMovesUp ==
    ASSUME NEW s \in Seq(Procs), NEW t \in Seq(Procs), s # << >>,
           NEW p, NEW q, Ahead(p, q, s \o t), p # Head(s)
    PROVE  Ahead(p, q, Tail(s) \o t) /\ q # Head(s)
<1> DEFINE l == s \o t
           m == Tail(s) \o t
<1>1. /\ Len(l) = Len(s) + Len(t)
      /\ \A i \in 1..Len(s) + Len(t) : l[i] = IF i <= Len(s) THEN s[i] ELSE t[i - Len(s)]
  BY ConcatProperties
<1>2. /\ Tail(s) \in Seq(Procs) /\ Len(Tail(s)) = Len(s) - 1
      /\ \A i \in 1..Len(Tail(s)) : Tail(s)[i] = s[i + 1]
  BY HeadTailProperties
<1>3. /\ Len(m) = (Len(s) - 1) + Len(t)
      /\ \A i \in 1..(Len(s) - 1) + Len(t) :
            m[i] = IF i <= Len(s) - 1 THEN Tail(s)[i] ELSE t[i - (Len(s) - 1)]
  BY <1>2, ConcatProperties
<1>4. Len(s) \in Nat \ {0} /\ Len(t) \in Nat /\ Head(s) = s[1]
  BY LenProperties, EmptySeq
<1>5. l[1] = Head(s)
  BY <1>1, <1>4
<1>6. \A i \in 1..Len(l) : i > 1 => i - 1 \in 1..Len(m) /\ m[i - 1] = l[i]
  <2> TAKE i \in 1..Len(l)
  <2> HAVE i > 1
  <2>1. i - 1 \in 1..Len(m) /\ i - 1 \in Nat
    BY <1>1, <1>3, <1>4
  <2>2. CASE i <= Len(s)
    BY <1>1, <1>2, <1>3, <1>4, <2>1, <2>2
  <2>3. CASE i > Len(s)
    <3>1. i - 1 - (Len(s) - 1) = i - Len(s)
      BY <1>1, <1>4
    <3> QED
      BY <1>1, <1>3, <1>4, <2>1, <2>3, <3>1
  <2> QED
    BY <1>1, <1>4, <2>2, <2>3
<1> HIDE DEF l, m
<1>7. PICK i \in 1..Len(l) : l[i] = p /\ \A j \in 1..i : l[j] # q
  BY Zenon DEF Ahead, l
<1>8. /\ i > 1 /\ 1 \in 1..i
      /\ \A j \in 1..(i - 1) : j + 1 \in 1..i /\ j + 1 \in 1..Len(l) /\ j + 1 > 1
                               /\ (j + 1) - 1 = j
  <2>1. i # 1
    BY <1>5, <1>7
  <2>2. Len(l) \in Nat
    BY <1>1, <1>4
  <2> QED
    BY <2>1, <2>2
<1>9. \A j \in 1..(i - 1) : m[j] # q
  <2> TAKE j \in 1..(i - 1)
  <2>1. m[j] = l[j + 1]
    BY <1>6, <1>8
  <2> QED
    BY <1>7, <1>8, <2>1
<1>10. Ahead(p, q, m)
  BY <1>6, <1>7, <1>8, <1>9, Zenon DEF Ahead
<1>11. q # Head(s)
  BY <1>5, <1>7, <1>8
<1> QED
  BY <1>10, <1>11 DEF m

(* Nobody waits before the first call of schedule.                         *)
LEMMA NobodyWaitsAtBoot == Spec => [](cpu = "boot" => waitqueue = << >>)
<1> DEFINE Boot == cpu = "boot" => waitqueue = << >>
<1>1. Init => Boot
  BY DEF Init
<1>2. Boot /\ [Next]_vars => Boot'
  BY DEF Next, vars, Spawn, DeviceInterrupt, ScheduleFirst, SwitchToNext, ProcessWait,
     Schedule, TakeEvents, Exit, Halt, WakeUpProcesses, TimerInterrupt, ResumeAfterInterrupt
<1> HIDE DEF Boot
<1>3. Spec => []Boot
  BY <1>1, <1>2, PTL DEF Spec
<1> QED
  BY <1>3 DEF Boot

(* The same for schedule's choice of the next process, which takes the     *)
(* first of the run queue out of the line.                                 *)
LEMMA SwitchKeepsOrder ==
    ASSUME TypeOK, NEW st, NEW ctx, NEW wq \in Seq(Procs), SwitchToNext(st, ctx),
           NEW p, NEW q \in Procs, Ahead(p, q, runqueue \o wq)
    PROVE  current' = p \/ (Ahead(p, q, runqueue' \o wq) /\ current' # q)
<1>1. runqueue \in Seq(Procs)
  BY DEF TypeOK
<1>2. CASE runqueue # << >>
  BY <1>1, <1>2, LineMovesUp DEF SwitchToNext
<1>3. CASE runqueue = << >>
  BY <1>3, ProcsAssumption DEF SwitchToNext
<1> QED
  BY <1>2, <1>3

(* Processes get the CPU in the order in which they stand in line, for any *)
(* number of them: schedule, process_wait and wake_up_processes keep that  *)
(* order, so that a process is passed by none that came after it.          *)
THEOREM FirstComeFirstServed == Spec => NoOvertaking
<1> DEFINE Boot == cpu = "boot" => waitqueue = << >>
           Step == \A p, q \in Procs :
                     Ahead(p, q, runqueue \o waitqueue)
                       => \/ current' = p
                          \/ /\ Ahead(p, q, runqueue' \o waitqueue')
                             /\ current' # q \/ UNCHANGED current
<1>1. SchedInv /\ Boot /\ [Next]_vars => [Step]_vars
  <2> SUFFICES ASSUME SchedInv, Boot, Next,
                      NEW p \in Procs, NEW q \in Procs,
                      Ahead(p, q, runqueue \o waitqueue)
               PROVE  \/ current' = p
                      \/ /\ Ahead(p, q, runqueue' \o waitqueue')
                         /\ current' # q \/ UNCHANGED current
    BY Zenon
  <2>1. TypeOK /\ runqueue \in Seq(Procs) /\ waitqueue \in Seq(Procs)
    BY DEF SchedInv, TypeOK
  <2>2. ASSUME NEW r \in Procs, Spawn(r)
        PROVE  Ahead(p, q, runqueue' \o waitqueue') /\ UNCHANGED current
    <3>1. UNCHANGED current /\ waitqueue = << >> /\ waitqueue' = << >> /\ runqueue' = Append(runqueue, r)
      BY <2>2 DEF Spawn
    <3>2. Append(runqueue, r) \in Seq(Procs) /\ << >> \in Seq(Procs)
      BY <2>1, AppendProperties, EmptySeq
    <3>3. runqueue \o waitqueue = << >> \o runqueue
      BY <2>1, <3>1, ConcatEmptySeq
    <3>4. runqueue' \o waitqueue' = << >> \o Append(runqueue, r)
      BY <3>1, <3>2, ConcatEmptySeq
    <3> QED
      BY <2>1, <3>1, <3>2, <3>3, <3>4, LineGrows
  <2>3. CASE ScheduleFirst
    BY <2>1, <2>3, SwitchKeepsOrder, Zenon DEF ScheduleFirst
  <2>4. CASE Schedule
    <3>1. current \in Procs /\ state[current] = "WAITING"
      BY <2>4, Zenon DEF Schedule, SchedInv, CurrentMatchesCpu, TypeOK, StateMatchesPlace
    <3>2. /\ waitqueue' = Append(waitqueue, current)
          /\ SwitchToNext(state, [context EXCEPT ![current] = "saved"])
      BY <2>4, <3>1 DEF Schedule
    <3>3. /\ Append(waitqueue, current) \in Seq(Procs)
          /\ Ahead(p, q, runqueue \o Append(waitqueue, current))
      BY <2>1, <3>1, LineGrows, AppendProperties
    <3> QED
      BY <2>1, <3>2, <3>3, SwitchKeepsOrder, Zenon
  <2>5. CASE WakeUpProcesses
    <3>1. runqueue \o waitqueue \in Seq(Procs)
      BY <2>1, ConcatProperties
    <3>2. (runqueue \o waitqueue) \o << >> = runqueue \o waitqueue
      BY <3>1, ConcatEmptySeq
    <3> QED
      BY <2>5, <3>2, Zenon DEF WakeUpProcesses
  <2>6. ASSUME UNCHANGED <<runqueue, waitqueue, current>>
        PROVE  Ahead(p, q, runqueue' \o waitqueue') /\ UNCHANGED current
    BY <2>6
  <2> QED
    BY <2>2, <2>3, <2>4, <2>5, <2>6
    DEF Next, DeviceInterrupt, ProcessWait, TakeEvents, Exit, Halt, TimerInterrupt
<1>2. Spec => []Boot
  BY NobodyWaitsAtBoot
<1> HIDE DEF Boot, Step
<1>3. Spec => [][Step]_vars
  BY <1>1, <1>2, SchedulerInvariant, PTL DEF Spec
<1> QED
  BY <1>3 DEF Step, NoOvertaking
=============================================================================
