--------------------------------- MODULE Sem ---------------------------------
(***************************************************************************)
(* The semaphores of core/sem.c over the scheduler.  A semaphore is named  *)
(* by the wait queue inside it.  sem_wait() runs in a task: it decrements  *)
(* ticket, an interruptible instruction of its own, and then calls         *)
(* wait_task() if it must block.  sem_signal() runs in interrupt handlers  *)
(* only, so it is one step with the wakeup and tail_sched() that follow.   *)
(***************************************************************************)
EXTENDS Sched

CONSTANTS
    MaxTicket       \* sem_init(sem, max_ticket)

ASSUME SemAssumption ==
    /\ MaxTicket \in [WaitQueues -> Nat]
    /\ Waiters \cap (Creators \union Quitters) = {}
    /\ IsFiniteSet(Threads)

VARIABLES
    ticket,         \* sem_t.ticket
    semOf,          \* the semaphore a task has called sem_wait() on
    semAt,          \* "out" of sem_wait(), about to "block", in the "wait"
    stray           \* history: a task asleep in task_wait has run, or has
                    \* left it, without being woken

semVars == <<ticket, semOf, semAt, stray>>

\* sem->ticket -= 1; wait_task() follows if it is negative now.
TakeTicket(t, s) ==
    /\ ticket' = [ticket EXCEPT ![s] = @ - 1]
    /\ semOf' = [semOf EXCEPT ![t] = s]
    /\ semAt' = [semAt EXCEPT ![t] = IF ticket[s] > 0 THEN "out" ELSE "block"]
    /\ UNCHANGED stray

\* A task in its own code may call sem_wait(sem, TIMEOUT_INFINIT).
MayWait(t) == t \in Waiters /\ Running(t) /\ pc[t] = "user" /\ semAt[t] = "out"

SemWait(t, s) == MayWait(t) /\ TakeTicket(t, s) /\ UNCHANGED vars

\* The call of wait_task() ...
SemBlock(t) ==
    /\ semAt[t] = "block"
    /\ WaitEnter(t)
    /\ semAt' = [semAt EXCEPT ![t] = "wait"]
    /\ UNCHANGED <<ticket, semOf, stray>>

SemLink(t) ==
    /\ semAt[t] = "wait"
    /\ WaitSet(t, semOf[t], INFINIT) \/ WaitLink(t)
    /\ UNCHANGED semVars

\* ... and its return, for whatever reason.  MLD_RET_OK or MLD_RET_TIMEOUT is
\* reason[t]; no caller looks.
Returned(t) == semAt[t] = "wait" /\ pc[t] = "user"

SemReturn(t) ==
    /\ Running(t)
    /\ Returned(t)
    /\ semAt' = [semAt EXCEPT ![t] = "out"]
    /\ UNCHANGED <<vars, ticket, semOf, stray>>

\* Mutants: the ticket goes back only when nobody waits, only when somebody
\* waits, or beyond max_ticket.
GiveTicketIfIdle(s) ==
    ticket' = [ticket EXCEPT ![s] =
                 IF @ >= 0 /\ @ < MaxTicket[s] THEN @ + 1 ELSE @]
GiveTicketIfWaiting(s) ==
    ticket' = [ticket EXCEPT ![s] = IF @ < 0 THEN @ + 1 ELSE @]
GiveTicketAlways(s) == ticket' = [ticket EXCEPT ![s] = @ + 1]

GiveTicket(s) ==
    ticket' = [ticket EXCEPT ![s] = IF @ < MaxTicket[s] THEN @ + 1 ELSE @]

\* sem_signal(), the last call of an interrupt handler: with somebody waiting
\* it asserts that wlh is not empty.
SemSignal(s) ==
    /\ fate = "ok"
    /\ IF ticket[s] >= 0
       THEN GiveTicket(s) /\ UNCHANGED vars
       ELSE IF wlist[s] = <<>>
       THEN Fail("no_waiter") /\ UNCHANGED ticket
       ELSE WakeFirst(s) /\ GiveTicket(s)
    /\ UNCHANGED <<semOf, semAt, stray>>
-----------------------------------------------------------------------------
\* sem_init()
SemInit ==
    /\ Init
    /\ ticket = [s \in WaitQueues |-> 0]
    /\ semOf = [t \in Task |-> NIL]
    /\ semAt = [t \in Task |-> "out"]
    /\ stray = FALSE

\* systick() charges a task that is inside wait_task() and puts it in
\* task_backup: nobody has woken it, and it is still in wlh or on its way.
SemTick ==
    /\ Tick
    /\ stray' = (stray \/ cpu \in ToSet(queue["wait"]) \ ToSet(queue'["wait"]))
    /\ UNCHANGED <<ticket, semOf, semAt>>

\* schedule() does not look at next again after it has given the lock back: it
\* switches to a task that has gone to sleep since.
SemSchedule(t) ==
    /\ Schedule(t)
    /\ stray' = \/ stray
                \/ /\ pc[t] \in {"wait_switch", "exit_switch"}
                   /\ next[t] \in ToSet(queue["wait"])
    /\ UNCHANGED <<ticket, semOf, semAt>>

\* What else goes on in the scheduler whoever uses semaphores.
SchedStep ==
    \/ \E t \in Task : SemSchedule(t)
    \/ /\ \/ BootDone
          \/ IdleLoop
          \/ \E t \in Task : KernelThread(t) \/ Exit(t) \/ ExitReturned(t)
       /\ UNCHANGED semVars

SemStep(t) == SemBlock(t) \/ SemLink(t) \/ SemReturn(t)

SemNext ==
    \/ SemTick
    \/ SchedStep
    \/ \E t \in Task : SemStep(t)
    \/ \E t \in Task, s \in WaitQueues : SemWait(t, s)
    \/ \E s \in WaitQueues : SemSignal(s)

SemSpec == SemInit /\ [][SemNext]_<<vars, semVars>>

\* The fairness of the scheduler, with the steps sem_wait() takes, for the
\* modules that say who calls it.  That irq 0 keeps coming supposes that no task
\* has lost its interrupt flag in spin_lock() (SpinFlags).
SemProgress(t) ==
    \/ SemStep(t)
    \/ /\ pc[t] # "user"
       /\ SemSchedule(t) \/ (KernelThread(t) /\ UNCHANGED semVars)

SemFairness ==
    /\ WF_<<vars, semVars>>(SemTick)
    /\ SF_<<vars, semVars>>(Boot /\ UNCHANGED semVars)
    /\ SF_<<vars, semVars>>(IdleLoop /\ UNCHANGED semVars)
    /\ \A t \in Task : SF_<<vars, semVars>>(SemProgress(t))

-----------------------------------------------------------------------------
(* Properties.                                                             *)

\* The type of the semaphores' variables.
SemTypeOK ==
    /\ ticket \in [WaitQueues -> Int]
    /\ \A s \in WaitQueues : ticket[s] <= MaxTicket[s]
    /\ semOf \in [Task -> WaitQueues \union {NIL}]
    /\ semAt \in [Task -> {"out", "block", "wait"}]
    /\ stray \in BOOLEAN

\* The tasks between the decrement of ticket and their place in wlh.
Entering(s) ==
    {t \in Task : /\ semOf[t] = s
                  /\ \/ semAt[t] = "block"
                     \/ semAt[t] = "wait" /\ pc[t] \in {"wait_set", "wait_link"}}

\* sem_wait() and sem_signal() keep one account in two places: a negative
\* ticket is the number of tasks in wlh and of those that have still to get
\* there, and with tickets left nobody waits.  sem_signal() relies on it when
\* it takes the head of wlh because ticket is negative.
TicketsAccounted ==
    /\ SemTypeOK
    /\ \A s \in WaitQueues :
        Len(wlist[s]) + Cardinality(Entering(s)) =
            IF ticket[s] < 0 THEN -ticket[s] ELSE 0

\* A task that is in task_wait and in the list of its semaphore.
Asleep(t) == t \in ToSet(queue["wait"]) /\ pc[t] \notin {"wait_set", "wait_link"}

\* sem_signal(): "the queue of waiting tasks is surely not empty".
SignalFindsWaiter == fate # "no_waiter"
=============================================================================
