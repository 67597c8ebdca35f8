----------------------------- MODULE Scheduler -----------------------------
(***************************************************************************)
(* The process scheduler of kernel/sched.rs together with the idle task of *)
(* kernel/init.c and the context switch of arch/x86_64/thread.c.           *)
(*                                                                         *)
(* There is one CPU and no preemption.  Interrupts are enabled nearly      *)
(* everywhere (also in system calls and in the idle task), but no handler  *)
(* touches the scheduler's state: a handler only queues events, and its    *)
(* return ends a hlt.  A call of schedule is therefore one step.           *)
(* initrd_load spawns a single process; the code, and this module, allow   *)
(* for any number of them.                                                 *)
(***************************************************************************)
EXTENDS Naturals, Sequences

CONSTANTS Procs,       \* the processes that may be spawned
          NoProc,      \* None, as the value of CURRENT
          EventLimit   \* the number of events an event queue holds

ASSUME ProcsAssumption == NoProc \notin Procs
ASSUME LimitAssumption == EventLimit \in Nat \ {0}

VARIABLES current,     \* CURRENT
          runqueue,    \* RUNQUEUE
          waitqueue,   \* WAITQUEUE
          state,       \* Process::state
          context,     \* what task_state holds: an entry point not yet used,
                       \* a stack saved by switch_to, or a stale stack
          events,      \* the number of events in each process's event queue
          cpu          \* the code the CPU is executing

vars == <<current, runqueue, waitqueue, state, context, events, cpu>>

States == {"NONE", "RUNNABLE", "RUNNING", "WAITING"}
Contexts == {"none", "new", "saved", "stale"}
CpuStates == {"boot", "user", "wait", "idle", "halted", "woken", "reschedule",
              "exit panic", "borrow panic"}

Init ==
    /\ current = NoProc
    /\ runqueue = << >> /\ waitqueue = << >>
    /\ state = [p \in Procs |-> "NONE"]
    /\ context = [p \in Procs |-> "none"]
    /\ events = [p \in Procs |-> 0]
    /\ cpu = "boot"
-----------------------------------------------------------------------------
(* process_spawn, which ends in enqueue.                                   *)
Spawn(p) ==
    /\ cpu = "boot"
    /\ state[p] = "NONE"
    /\ state' = [state EXCEPT ![p] = "RUNNABLE"]
    /\ runqueue' = Append(runqueue, p)
    /\ context' = [context EXCEPT ![p] = "new"]
    /\ UNCHANGED <<current, waitqueue, events, cpu>>

(* The second half of schedule: give the CPU to the first process of the   *)
(* run queue, or to the idle task.  st and ctx are the states and contexts *)
(* once the previous process has been put away.  Whatever its context, the *)
(* next process goes on in user mode: at its entry point if TIF_NEW is     *)
(* set, else by returning from the wait in which switch_to saved it.       *)
SwitchToNext(st, ctx) ==
    \/ /\ runqueue # << >>
       /\ current' = Head(runqueue)
       /\ runqueue' = Tail(runqueue)
       /\ state' = [st EXCEPT ![Head(runqueue)] = "RUNNING"]
       /\ context' = [ctx EXCEPT ![Head(runqueue)] = "stale"]
       /\ cpu' = "user"
    \/ /\ runqueue = << >>
       /\ current' = NoProc
       /\ state' = st
       /\ context' = ctx
       /\ cpu' = "idle"
       /\ UNCHANGED runqueue

(* schedule with no current process: at boot and in the idle task, whose   *)
(* own context is never saved, so that it always starts again at its top.  *)
ScheduleFirst ==
    /\ cpu \in {"boot", "reschedule"}
    /\ SwitchToNext(state, context)
    /\ UNCHANGED <<waitqueue, events>>

(* Faulty: the process is not marked as waiting.                           *)
ProcessWaitUnmarked ==
    /\ cpu = "user"
    /\ cpu' = "wait"
    /\ UNCHANGED <<current, runqueue, waitqueue, state, context, events>>

(* process_wait up to the end of process_io, which interrupts may enter.   *)
ProcessWait ==
    /\ cpu = "user"
    /\ state' = [state EXCEPT ![current] = "WAITING"]
    /\ cpu' = "wait"
    /\ UNCHANGED <<current, runqueue, waitqueue, context, events>>

(* Faulty: the context switch does not save the previous task.             *)
ScheduleUnsaved ==
    /\ cpu = "wait"
    /\ waitqueue' = Append(waitqueue, current)
    /\ SwitchToNext(state, context)
    /\ UNCHANGED events

(* schedule at the end of process_wait.  Its branch for a process that is  *)
(* not waiting calls enqueue, which writes prev.state while the match in   *)
(* schedule still borrows it: RefCell panics.                              *)
Schedule ==
    /\ cpu = "wait"
    /\ IF state[current] = "WAITING"
       THEN /\ waitqueue' = Append(waitqueue, current)
            /\ SwitchToNext(state, [context EXCEPT ![current] = "saved"])
       ELSE /\ cpu' = "borrow panic"
            /\ UNCHANGED <<current, runqueue, waitqueue, state, context>>
    /\ UNCHANGED events

(* The process drains its event queue, or exits (sys_exit panics).         *)
TakeEvents ==
    /\ cpu = "user"
    /\ events' = [events EXCEPT ![current] = 0]
    /\ UNCHANGED <<current, runqueue, waitqueue, state, context, cpu>>

Exit ==
    /\ cpu = "user"
    /\ cpu' = "exit panic"
    /\ UNCHANGED <<current, runqueue, waitqueue, state, context, events>>
-----------------------------------------------------------------------------
(* The idle task: hlt, wake_up_processes, schedule.                        *)
Halt ==
    /\ cpu = "idle"
    /\ cpu' = "halted"
    /\ UNCHANGED <<current, runqueue, waitqueue, state, context, events>>

(* Faulty: the processes stay in the wait queue.                           *)
WakeUpWithoutPop ==
    /\ cpu = "woken"
    /\ runqueue' = runqueue \o waitqueue
    /\ cpu' = "reschedule"
    /\ UNCHANGED <<current, waitqueue, state, context, events>>

WakeUpProcesses ==
    /\ cpu = "woken"
    /\ runqueue' = runqueue \o waitqueue
    /\ waitqueue' = << >>
    /\ state' = [p \in Procs |->
                   IF \E i \in 1..Len(waitqueue) : waitqueue[i] = p
                   THEN "RUNNABLE" ELSE state[p]]
    /\ cpu' = "reschedule"
    /\ UNCHANGED <<current, context, events>>

Panicked == cpu \in {"exit panic", "borrow panic"}

(* Faulty: the idle task halts again without waking anyone up.             *)
ResumeWithoutWakeUp == cpu' = IF cpu = "halted" THEN "idle" ELSE cpu

(* What the end of any interrupt handler does to the code it interrupted:  *)
(* only a hlt that has already begun is cut short.                         *)
ResumeAfterInterrupt == cpu' = IF cpu = "halted" THEN "woken" ELSE cpu

(* The APIC timer (apic_timer_intr does nothing) ...                       *)
TimerInterrupt ==
    /\ cpu = "halted"
    /\ ResumeAfterInterrupt
    /\ UNCHANGED <<current, runqueue, waitqueue, state, context, events>>

(* ... and a device interrupt that notifies process p of an event, which   *)
(* is lost if the event queue is full.                                     *)
DeviceInterrupt(p) ==
    /\ ~Panicked
    /\ state[p] # "NONE"
    /\ events' = [events EXCEPT ![p] = IF @ < EventLimit THEN @ + 1 ELSE @]
    /\ ResumeAfterInterrupt
    /\ UNCHANGED <<current, runqueue, waitqueue, state, context>>
-----------------------------------------------------------------------------
Next ==
    \/ \E p \in Procs : Spawn(p) \/ DeviceInterrupt(p)
    \/ ScheduleFirst
    \/ ProcessWait \/ Schedule \/ TakeEvents \/ Exit
    \/ Halt \/ WakeUpProcesses \/ TimerInterrupt

Spec == Init /\ [][Next]_vars

(* The kernel keeps executing, the timer is periodic, and a process that   *)
(* runs eventually waits (there is no preemption) or exits.                *)
Fairness ==
    /\ WF_vars(ScheduleFirst)
    /\ WF_vars(Schedule)
    /\ WF_vars(Halt)
    /\ WF_vars(WakeUpProcesses)
    /\ WF_vars(TimerInterrupt)
    /\ WF_vars(ProcessWait \/ Exit)

FairSpec == Spec /\ Fairness
-----------------------------------------------------------------------------
(* The queues hold processes, a process is in one of its states, and the   *)
(* event queue, to which DeviceInterrupt adds, stays within its capacity.  *)
TypeOK ==
    /\ current \in Procs \union {NoProc}
    /\ runqueue \in Seq(Procs)
    /\ waitqueue \in Seq(Procs)
    /\ state \in [Procs -> States]
    /\ context \in [Procs -> Contexts]
    /\ events \in [Procs -> 0..EventLimit]
    /\ cpu \in CpuStates

Distinct(q) == \A i, j \in 1..Len(q) : q[i] = q[j] => i = j
InQueue(p, q) == \E i \in 1..Len(q) : q[i] = p

(* A process is current, in the run queue or in the wait queue, and never  *)
(* in two of these places or twice in a queue: its one intrusive link      *)
(* allows for one list.                                                    *)
OnePlace ==
    /\ Distinct(runqueue) /\ Distinct(waitqueue)
    /\ \A p \in Procs :
        /\ ~(InQueue(p, runqueue) /\ InQueue(p, waitqueue))
        /\ current = p => ~InQueue(p, runqueue) /\ ~InQueue(p, waitqueue)
        /\ state[p] # "NONE" =>
               current = p \/ InQueue(p, runqueue) \/ InQueue(p, waitqueue)

(* The state of a process agrees with the place it is in.  schedule and    *)
(* wake_up_processes choose what to do by the one and assume the other.    *)
StateMatchesPlace ==
    \A p \in Procs :
        /\ InQueue(p, runqueue) => state[p] = "RUNNABLE"
        /\ InQueue(p, waitqueue) => state[p] = "WAITING"
        /\ current = p => /\ cpu = "user" => state[p] = "RUNNING"
                          /\ cpu = "wait" => state[p] = "WAITING"

(* A process in a queue has a context the next switch may jump to: it has  *)
(* not run yet, or switch_to has saved its stack since it last ran.  A     *)
(* waiting process in particular resumes its wait, and no process is       *)
(* started twice.                                                          *)
QueuedHasContext ==
    \A p \in Procs :
        /\ InQueue(p, runqueue) => context[p] \in {"new", "saved"}
        /\ InQueue(p, waitqueue) => context[p] = "saved"

(* schedule is not called by a process that is still running, which would  *)
(* panic on the borrow of its state.                                       *)
NoBorrowPanic == cpu # "borrow panic"

(* get_current does not panic: in user mode and in process_wait there is a *)
(* current process.  At boot and in the idle task there is none, and no    *)
(* process is left runnable while the CPU halts.                           *)
CurrentMatchesCpu ==
    /\ cpu \in {"user", "wait"} => current # NoProc
    /\ cpu \in {"boot", "idle", "halted", "woken", "reschedule"} => current = NoProc
    /\ cpu \in {"idle", "halted", "woken"} => runqueue = << >>

(* p is in a queue, and q is behind it or not there.                       *)
Ahead(p, q, queue) ==
    \E i \in 1..Len(queue) : queue[i] = p /\ \A j \in 1..i : queue[j] # q

(* No process overtakes another on its way to the CPU: while a process is  *)
(* in the run queue, or behind it in the wait queue, none that is not yet  *)
(* ahead of it gets ahead or is made current, through wake_up_processes,   *)
(* which moves the wait queue behind the run queue, and whoever is spawned *)
(* or waits meanwhile.                                                     *)
NoOvertaking ==
    [][\A p, q \in Procs :
         Ahead(p, q, runqueue \o waitqueue)
           => \/ current' = p
              \/ /\ Ahead(p, q, runqueue' \o waitqueue')
                 /\ current' # q \/ UNCHANGED current]_vars

(* An event for a waiting process makes its wait system call return, also  *)
(* if the event comes after the process has looked at its queue and before *)
(* the idle task halts.                                                    *)
EventWakesWaiter ==
    \A p \in Procs :
        (InQueue(p, waitqueue) /\ events[p] > 0)
            ~> ((cpu = "user" /\ current = p) \/ Panicked)
=============================================================================
