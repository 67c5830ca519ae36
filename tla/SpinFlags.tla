------------------------------ MODULE SpinFlags ------------------------------
(***************************************************************************)
(* The scheduler with the interrupt flag.  spin_lock() (spinlock.h) keeps  *)
(* EFLAGS in the lock, which all who take it share, and clears IF only in  *)
(* the instruction after that: an interrupt in between that takes the same *)
(* lock leaves its own IF = 0 there, and the task restores that in         *)
(* spin_unlock() and goes on with interrupts off.  It keeps them off while *)
(* it runs, across switch_to(), and hands them down to the threads that it *)
(* creates.  Sched has the steps of the tasks without their flags: here    *)
(* each of them that takes task_q_lock comes after one that saves the      *)
(* flag, and interrupts need IF of the current task.                       *)
(*                                                                         *)
(* The threads here do not wait.  One that sleeps and is woken before its  *)
(* slice is spent goes ahead of all others of its priority, and if it does *)
(* so for ever they starve: that is what the priorities ask for.           *)
(***************************************************************************)
EXTENDS Sched

ASSUME NobodyWaits == Waiters = {}

VARIABLES
    irq,        \* IF of each task, when it runs
    saved,      \* the tasks that have saved their flag, with IF still set
    lockFlag    \* task_q_lock.flag

spinVars == <<vars, irq, saved, lockFlag>>

\* Task t may be about to call spin_lock(&task_q_lock).
Locks(t) == \/ pc[t] \in {"exit_pick", "kt_insert", "reap_unlink"}
            \/ pc[t] = "user" /\ t \in Quitters

\* The first half of raw_local_irq_save(lock->flag).
SaveFlag(t) ==
    /\ Running(t)
    /\ t \notin saved /\ Locks(t)
    /\ saved' = saved \union {t}
    /\ lockFlag' = irq[t]
    /\ UNCHANGED <<vars, irq>>

\* cli, the stretch of code under the lock, and spin_unlock().  Nobody looks at
\* the flag again before somebody saves his own.
WithLock(t) ==
    /\ t \in saved
    /\ irq' = [irq EXCEPT ![t] = lockFlag]
    /\ saved' = saved \ {t}
    /\ lockFlag' = (lockFlag /\ saved' # {})
    /\ SchedulePick(t) \/ Exit(t) \/ KtInsert(t) \/ (t = Idle /\ ReapUnlink)

\* A new thread starts with the flags of its creator.
WithoutLock(t) ==
    /\ t \notin saved
    /\ \/ /\ \/ ScheduleSwitch(t) \/ ExitReturned(t)
             \/ \E n \in Threads : KtAlloc(t, n)
             \/ KtPri(t) \/ KtSlice(t) \/ KtSliceInit(t)
             \/ t = Idle /\ (BootDone \/ IdleWalk \/ IdleSpin \/ ReapStack \/ ReapDesc \/ ReapPgd)
          /\ UNCHANGED irq
       \/ KtContext(t) /\ irq' = [irq EXCEPT ![newtask[t]] = irq[t]]
    /\ UNCHANGED <<saved, lockFlag>>

\* getnexttask() in tail_sched() takes the lock with IF clear.  The interrupt
\* returns with the flags of the task that it returns to.
SpinTick ==
    /\ irq[cpu]
    /\ lockFlag' = (lockFlag /\ ~Spent)
    /\ UNCHANGED <<irq, saved>>
    /\ Tick

SpinTaskStep(t) == SaveFlag(t) \/ WithLock(t) \/ WithoutLock(t)

SpinInit ==
    /\ Init
    /\ irq = [t \in Task |-> TRUE]
    /\ saved = {}
    /\ lockFlag = FALSE

SpinNext == SpinTick \/ \E t \in Task : SpinTaskStep(t)

SpinSpec == SpinInit /\ [][SpinNext]_spinVars

\* Irq 0 stays pending in the 8259 while IF is clear, and is taken when it is
\* set.  A task that gets the processor again and again gets on with the
\* kernel function it is in: a step takes far less than a tick.  Boot ends.
\* Threads in their own code may do anything or nothing.
InKernel(t) == (pc[t] # "user" \/ t \in saved) /\ SpinTaskStep(t)

BootStep == pc[Idle] = "user" /\ WithoutLock(Idle)

FairSpec ==
    /\ SpinSpec
    /\ SF_spinVars(SpinTick)
    /\ SF_spinVars(BootStep)
    /\ \A t \in Task : SF_spinVars(InKernel(t))
-----------------------------------------------------------------------------
(* Properties.                                                             *)

Ready(t) == t \in ToSet(queue["running"]) \union ToSet(queue["backup"])

\* Interrupts are on again and again: no task goes on for ever with IF clear.
ClockGoesOn == []<>irq[cpu]

\* Rotation by time slices: as long as the clock goes on, each tick charges the
\* current task, and a task without slice waits for the others in task_backup,
\* so every ready task gets the processor.
ReadyRuns ==
    ClockGoesOn => \A t \in Task : Ready(t) ~> (cpu = t \/ fate # "ok")

\* idleloop() reclaims every task that has exited, as long as the clock goes on.
ExitedReclaimed ==
    ClockGoesOn =>
        \A t \in Threads : t \in ToSet(queue["exit"]) ~> (desc[t] = "free" \/ fate # "ok")
=============================================================================
