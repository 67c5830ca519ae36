-------------------------------- MODULE Sched --------------------------------
(***************************************************************************)
(* The task scheduler of core/task.c on the one processor the code is      *)
(* built for (CONFIG_SMP is off).                                          *)
(*                                                                         *)
(* Interrupt gates clear IF, so a whole interrupt, handler plus            *)
(* tail_sched(), is one step; exp_pubpath calls tail_sched() before every  *)
(* return, so a task can lose the processor between any two of its own     *)
(* steps.  A task's step is a stretch of code that spin_lock() makes       *)
(* uninterruptible, or one that no interrupt can tell apart.  pc[t] is     *)
(* where t stands in the kernel functions it has called; "user" is any     *)
(* code outside them.                                                      *)
(*                                                                         *)
(* spin_lock() has a gap of its own, in which an interrupt can leave the   *)
(* task with interrupts off: SpinFlags adds the flag.  Here the interrupts *)
(* may always come, which is more than the code allows, never less.        *)
(*                                                                         *)
(* A failed ASSERT ends in die(), and some paths leave the lists or a      *)
(* context unusable: fate then names the cause and nothing moves again.    *)
(***************************************************************************)
EXTENDS TaskQueues

CONSTANTS
    Idle,           \* task 0
    Threads,        \* the descriptors kernel_thread() can hand out
    Creators,       \* the tasks that call kernel_thread()
    BootThreads,    \* the threads that init_module() is sure to create
    Waiters,        \* the threads that call wait_task()
    Quitters,       \* the threads whose entry function returns
    WaitQueues,     \* wait_queue_t objects
    Timeouts,       \* finite timeouts passed to wait_task(), in ticks
    IdlePri,        \* 100 in sched_init()
    NIL, INFINIT    \* the null pointer, TIMEOUT_INFINIT

Task == {Idle} \union Threads

ASSUME SchedAssumption ==
    /\ Idle \notin Threads
    /\ Creators \subseteq Task
    /\ BootThreads \subseteq Threads
    /\ Waiters \subseteq Threads
    /\ Quitters \subseteq Threads
    /\ Timeouts \subseteq Nat
    /\ NIL \notin Task \union WaitQueues
    /\ INFINIT \notin Nat
    /\ IdlePri \in Int

VARIABLES
    queue,      \* the four task lists
    info,       \* pri, pri_init, slice, slice_init of every descriptor
    desc,       \* "free", "new" until ctx_ip and ctx_sp are set, "ready",
                \* "unstacked" once idleloop() has freed the stack
    cpu,        \* current
    pc,         \* where each task stands
    next,       \* schedule()'s local: the task it is about to switch to
    newtask,    \* kernel_thread()'s local
    reap,       \* idleloop()'s locals p and pn
    wlist,      \* wait_queue_t.wlh, linked through task_t.wait.q
    wqOf,       \* task_t.wait.wq
    timeout,    \* task_t.wait.timeout
    reason,     \* task_t.wait.wu_r
    fate        \* "ok", or what stopped the machine

vars == <<queue, info, desc, cpu, pc, next, newtask, reap, wlist, wqOf,
          timeout, reason, fate>>

lists  == <<queue, info>>
waits  == <<wlist, wqOf, timeout, reason>>
locals == <<next, newtask, reap>>

Label == {"user", "wait_set", "wait_link", "wait_pick", "wait_switch",
          "exit_pick", "exit_switch", "exit_returned",
          "kt_insert", "kt_pri", "kt_slice", "kt_slice_init", "kt_context",
          "idle", "spin", "reap_unlink", "reap_stack", "reap_desc", "reap_pgd"}

Fates == {"ok", "no_task", "no_context", "freed_context", "not_in_list",
          "linked_twice", "exit_returned", "walk_left_list", "wrong_pgd",
          "no_waiter", "no_char"}

Fail(f) == fate' = f /\ UNCHANGED <<lists, desc, cpu, pc, locals, waits>>

Running(t) == fate = "ok" /\ cpu = t

Goto(t, l) == pc' = [pc EXCEPT ![t] = l]
-----------------------------------------------------------------------------
(* getnexttask(), schedule(), switch_to() and tail_sched().                *)

\* getnexttask() swaps task_running and task_backup when the former is
\* empty, and then re-evaluates the tasks that are waiting.
EpochOver(q) == q["running"] = <<>>

PickQueue(q) ==
    IF EpochOver(q)
    THEN [q EXCEPT !["running"] = q["backup"], !["backup"] = <<>>]
    ELSE q

PickInfo(q, i) ==
    [t \in Task |-> IF EpochOver(q) /\ t \in ToSet(q["wait"])
                    THEN Reassess(i[t]) ELSE i[t]]

Picked(q) == Head(PickQueue(q)["running"])

NothingToPick(q) == PickQueue(q)["running"] = <<>>

\* switch_to() loads ctx_sp and ctx_ip of the task it is given.
BadContext(t) ==
    CASE desc[t] = "new"                    -> "no_context"
      [] desc[t] \in {"unstacked", "free"}  -> "freed_context"
      [] OTHER                              -> "ok"

\* The end of an interrupt that leaves the lists as q and i.  The interrupted
\* task keeps its place; resched says that TASKFLAG_NEEDSCHED was set.
InterruptReturn(q, i, resched) ==
    \/ /\ ~resched
       /\ queue' = q
       /\ info' = i
       /\ UNCHANGED <<cpu, fate>>
    \/ /\ resched
       /\ NothingToPick(q)
       /\ fate' = "no_task"
       /\ UNCHANGED <<queue, info, cpu>>
    \/ /\ resched
       /\ ~NothingToPick(q)
       /\ queue' = PickQueue(q)
       /\ info' = PickInfo(q, i)
       /\ cpu' = Picked(q)
       /\ fate' = IF Picked(q) = cpu THEN fate ELSE BadContext(Picked(q))

\* The places schedule() returns to.
AfterSchedule(l) == IF l \in {"wait_pick", "wait_switch"}
                    THEN "user" ELSE "exit_returned"

SwitchLabel(l) == IF l = "wait_pick" THEN "wait_switch" ELSE "exit_switch"

\* schedule(), called by wait_task() and exit(): getnexttask() gives the lock
\* back before switch_to() runs, and next is not looked at again.
SchedulePick(t) ==
    /\ Running(t)
    /\ pc[t] \in {"wait_pick", "exit_pick"}
    /\ IF NothingToPick(queue)
       THEN Fail("no_task")
       ELSE /\ queue' = PickQueue(queue)
            /\ info' = PickInfo(queue, info)
            /\ IF Picked(queue) = t
               THEN Goto(t, AfterSchedule(pc[t])) /\ UNCHANGED next
               ELSE /\ Goto(t, SwitchLabel(pc[t]))
                    /\ next' = [next EXCEPT ![t] = Picked(queue)]
            /\ UNCHANGED <<desc, cpu, newtask, reap, waits, fate>>

ScheduleSwitch(t) ==
    /\ Running(t)
    /\ pc[t] \in {"wait_switch", "exit_switch"}
    /\ cpu' = next[t]
    /\ fate' = BadContext(next[t])
    /\ Goto(t, AfterSchedule(pc[t]))
    /\ next' = [next EXCEPT ![t] = NIL]
    /\ UNCHANGED <<lists, desc, newtask, reap, waits>>
-----------------------------------------------------------------------------
(* wait_task() and wakeup_task().                                          *)

\* The caller takes itself off its list; the wait queue and the timeout it
\* asked for are still in its registers, kept here in wqOf' and timeout' of
\* the next step.
WaitEnter(t) ==
    /\ Running(t)
    /\ t \in Waiters
    /\ pc[t] = "user"
    /\ IF Queued(queue, t)
       THEN /\ queue' = AddTail(Unlink(queue, t), "wait", t)
            /\ Goto(t, "wait_set")
            /\ UNCHANGED <<info, desc, cpu, locals, waits, fate>>
       ELSE Fail("not_in_list")

WaitSet(t, w, d) ==
    /\ Running(t)
    /\ pc[t] = "wait_set"
    /\ timeout' = [timeout EXCEPT ![t] = d]
    /\ wqOf' = [wqOf EXCEPT ![t] = w]
    /\ Goto(t, "wait_link")
    /\ UNCHANGED <<lists, desc, cpu, locals, wlist, reason, fate>>

\* wait.q is added without asking whether it is in a list already.
WaitLink(t) ==
    /\ Running(t)
    /\ pc[t] = "wait_link"
    /\ IF \E w \in WaitQueues : t \in ToSet(wlist[w])
       THEN Fail("linked_twice")
       ELSE /\ wlist' = [wlist EXCEPT ![wqOf[t]] = Append(@, t)]
            /\ Goto(t, "wait_pick")
            /\ UNCHANGED <<lists, desc, cpu, locals, wqOf, timeout, reason,
                           fate>>

\* wakeup_task(t, r): off its task list into task_running by priority, off
\* the wait queue whichever holds it.  Both list_remove() calls assert that
\* the node is linked.
Wakeable(t) ==
    /\ Queued(queue, t)
    /\ wqOf[t] # NIL
    /\ \E w \in WaitQueues : t \in ToSet(wlist[w])

Woken(t) == AddByPri(Unlink(queue, t), "running", t, info)

\* Mutant: the wait queue is emptied, and only one waiter woken.
WakeupWaiterClears(t, r) ==
    /\ wlist' = [w \in WaitQueues |->
                    IF t \in ToSet(wlist[w]) THEN <<>> ELSE wlist[w]]
    /\ reason' = [reason EXCEPT ![t] = r]
    /\ UNCHANGED <<wqOf, timeout>>

WakeupWaiter(t, r) ==
    /\ wlist' = [w \in WaitQueues |-> RemoveFirst(wlist[w], t)]
    /\ reason' = [reason EXCEPT ![t] = r]
    /\ UNCHANGED <<wqOf, timeout>>

\* The task that sem_signal() finds at the front of wlh.
\* Mutant: the one at the back.
LastWaiter(w)  == Last(wlist[w])
FirstWaiter(w) == Head(wlist[w])

\* sem_signal() in an interrupt handler, as far as the scheduler sees it.  The
\* wakeup sets TASKFLAG_NEEDSCHED of the interrupted task.
WakeFirst(w) ==
    IF Wakeable(FirstWaiter(w))
    THEN /\ WakeupWaiter(FirstWaiter(w), "wakeup")
         /\ InterruptReturn(Woken(FirstWaiter(w)), info, TRUE)
         /\ UNCHANGED <<desc, pc, locals>>
    ELSE Fail("not_in_list")

WakeInterrupt(w) == fate = "ok" /\ wlist[w] # <<>> /\ WakeFirst(w)
-----------------------------------------------------------------------------
(* systick(), the handler of irq 0.                                        *)

\* A task without slice left is charged to task_backup, whatever list it is
\* in; the others pay one tick.
\* Mutant: one tick too early.
SpentOneLeft == info[cpu].slice < 2
Spent        == info[cpu].slice = 0

\* Mutant: the slice runs below zero.
ChargedUnchecked(i) == [i EXCEPT !.slice = @ - 1]

Charged(i) == IF i.slice = 0 THEN Reassess(i) ELSE [i EXCEPT !.slice = @ - 1]

TickInfo == [info EXCEPT ![cpu] = Charged(info[cpu])]

\* Mutants: the spent task is not put back, or put back in the same epoch.
TickQueueDrops == IF Spent THEN Unlink(queue, cpu) ELSE queue
TickQueueKeeps ==
    IF Spent THEN AddByPri(Unlink(queue, cpu), "running", cpu, TickInfo)
             ELSE queue

TickQueue ==
    IF Spent THEN AddByPri(Unlink(queue, cpu), "backup", cpu, TickInfo)
             ELSE queue

\* The tasks the walk over task_wait counts down.  A timeout is decremented
\* in place: one of d ticks is found expired on the d+1st.
Counting == {t \in ToSet(TickQueue["wait"]) : timeout[t] # INFINIT}

\* The walk reads the next node out of the current one after wakeup_task()
\* moved that one to task_running: once a timeout has expired it never meets
\* the head of task_wait again.  wakeup_task() asserts that the task hangs on
\* a wait queue, which a zeroed descriptor does not.
Tick ==
    /\ fate = "ok"
    /\ IF Spent /\ ~Queued(queue, cpu)
       THEN Fail("not_in_list")
       ELSE IF \E t \in Counting : timeout[t] = 0
       THEN \E t \in Counting :
               /\ timeout[t] = 0
               /\ Fail(IF Wakeable(t) THEN "walk_left_list" ELSE "not_in_list")
       ELSE /\ timeout' = [t \in Task |-> IF t \in Counting
                                         THEN timeout[t] - 1 ELSE timeout[t]]
            /\ \E q \in {TickQueue}, i \in {TickInfo} :
                   InterruptReturn(q, i, Spent)
            /\ UNCHANGED <<desc, pc, locals, wlist, wqOf, reason>>
-----------------------------------------------------------------------------
(* exit() and what thread_entrance() does when schedule() comes back.      *)

Exit(t) ==
    /\ Running(t)
    /\ t \in Quitters
    /\ pc[t] = "user"
    /\ IF Queued(queue, t)
       THEN /\ queue' = AddHead(Unlink(queue, t), "exit", t)
            /\ Goto(t, "exit_pick")
            /\ UNCHANGED <<info, desc, cpu, locals, waits, fate>>
       ELSE Fail("not_in_list")

ExitReturned(t) ==
    /\ Running(t)
    /\ pc[t] = "exit_returned"
    /\ Fail("exit_returned")
-----------------------------------------------------------------------------
(* kernel_thread().                                                        *)

\* Stack, zeroed descriptor and page directory.
KtAlloc(t, n) ==
    /\ Running(t)
    /\ t \in Creators
    /\ pc[t] = "user"
    /\ desc[n] = "free"
    /\ desc' = [desc EXCEPT ![n] = "new"]
    /\ info' = [info EXCEPT ![n] = ZeroInfo]
    /\ wqOf' = [wqOf EXCEPT ![n] = NIL]
    /\ timeout' = [timeout EXCEPT ![n] = 0]
    /\ reason' = [reason EXCEPT ![n] = "timeout"]
    /\ newtask' = [newtask EXCEPT ![t] = n]
    /\ Goto(t, "kt_insert")
    /\ UNCHANGED <<queue, cpu, next, reap, wlist, fate>>

\* list_add_comp() with the priority still zero.
\* Mutant: in task_backup.
KtInsertBackup(t) ==
    /\ Running(t)
    /\ pc[t] = "kt_insert"
    /\ queue' = AddByPri(queue, "backup", newtask[t], info)
    /\ Goto(t, "kt_pri")
    /\ UNCHANGED <<info, desc, cpu, locals, waits, fate>>

\* With the lock taken and given back; its flag is in SpinFlags.
KtInsert(t) ==
    /\ Running(t)
    /\ pc[t] = "kt_insert"
    /\ queue' = AddByPri(queue, "running", newtask[t], info)
    /\ Goto(t, "kt_pri")
    /\ UNCHANGED <<info, desc, cpu, locals, waits, fate>>

\* The priorities, the slice and slice_init are copied from current one
\* after the other.
KtInherit(t, at, then, fields) ==
    /\ Running(t)
    /\ pc[t] = at
    /\ info' = [info EXCEPT ![newtask[t]] =
                  [f \in DOMAIN @ |-> IF f \in fields THEN info[t][f] ELSE @[f]]]
    /\ Goto(t, then)
    /\ UNCHANGED <<queue, desc, cpu, locals, waits, fate>>

KtPri(t)       == KtInherit(t, "kt_pri", "kt_slice", {"pri", "priInit"})
KtSlice(t)     == KtInherit(t, "kt_slice", "kt_slice_init", {"slice"})
KtSliceInit(t) == KtInherit(t, "kt_slice_init", "kt_context", {"sliceInit"})

\* The first frame on the new stack, then ctx_ip and ctx_sp.
KtContext(t) ==
    /\ Running(t)
    /\ pc[t] = "kt_context"
    /\ desc' = [desc EXCEPT ![newtask[t]] = "ready"]
    /\ pc' = [pc EXCEPT ![t] = "user", ![newtask[t]] = "user"]
    /\ newtask' = [newtask EXCEPT ![t] = NIL]
    /\ UNCHANGED <<lists, cpu, next, reap, waits, fate>>
-----------------------------------------------------------------------------
(* idleloop(): task 0 after boot.                                          *)

FirstOf(s)     == IF s = <<>> THEN NIL ELSE Head(s)
SecondOf(s)    == IF Len(s) < 2 THEN NIL ELSE s[2]
Follower(s, t) == LET i == SelectInSeq(s, LAMBDA x : x = t)
                  IN  IF i = 0 \/ i = Len(s) THEN NIL ELSE s[i + 1]

BootDone ==
    /\ Running(Idle)
    /\ pc[Idle] = "user"
    /\ \A t \in BootThreads : desc[t] # "free"
    /\ Goto(Idle, "idle")
    /\ UNCHANGED <<lists, desc, cpu, locals, waits, fate>>

\* The walk over task_exit starts, with p and pn, or is over at once.
\* Mutant: a list of one task counts as empty.
NoneOrOneExited == Len(queue["exit"]) < 2
NoneExited      == queue["exit"] = <<>>

IdleWalk ==
    /\ Running(Idle)
    /\ pc[Idle] = "idle"
    /\ reap' = <<FirstOf(queue["exit"]), SecondOf(queue["exit"])>>
    /\ Goto(Idle, IF NoneExited THEN "spin" ELSE "reap_unlink")
    /\ UNCHANGED <<lists, desc, cpu, next, newtask, waits, fate>>

\* The walk is over: task 0 gives the rest of its slice up.
IdleSpin ==
    /\ Running(Idle)
    /\ pc[Idle] = "spin"
    /\ info' = [info EXCEPT ![Idle].slice = 0]
    /\ Goto(Idle, "idle")
    /\ UNCHANGED <<queue, desc, cpu, locals, waits, fate>>

\* With the lock taken and given back; its flag is in SpinFlags.
ReapUnlink ==
    /\ Running(Idle)
    /\ pc[Idle] = "reap_unlink"
    /\ IF Queued(queue, reap[1])
       THEN /\ queue' = Unlink(queue, reap[1])
            /\ Goto(Idle, "reap_stack")
            /\ UNCHANGED <<info, desc, cpu, locals, waits, fate>>
       ELSE Fail("not_in_list")

ReapStack ==
    /\ Running(Idle)
    /\ pc[Idle] = "reap_stack"
    /\ desc' = [desc EXCEPT ![reap[1]] = "unstacked"]
    /\ Goto(Idle, "reap_desc")
    /\ UNCHANGED <<lists, cpu, locals, waits, fate>>

ReapDesc ==
    /\ Running(Idle)
    /\ pc[Idle] = "reap_desc"
    /\ desc' = [desc EXCEPT ![reap[1]] = "free"]
    /\ Goto(Idle, "reap_pgd")
    /\ UNCHANGED <<lists, cpu, locals, waits, fate>>

\* t->pgd_pa is read after memcache_free(t): if kernel_thread() has taken the
\* descriptor meanwhile, the page freed is not the dead task's directory.
\* Then p = pn, pn = pn->next.
ReapPgd ==
    /\ Running(Idle)
    /\ pc[Idle] = "reap_pgd"
    /\ IF desc[reap[1]] # "free"
       THEN Fail("wrong_pgd")
       ELSE IF reap[2] # NIL /\ reap[2] \notin ToSet(queue["exit"])
       THEN Fail("walk_left_list")
       ELSE /\ IF reap[2] = NIL
               THEN Goto(Idle, "spin") /\ reap' = <<NIL, NIL>>
               ELSE /\ Goto(Idle, "reap_unlink")
                    /\ reap' = <<reap[2], Follower(queue["exit"], reap[2])>>
            /\ UNCHANGED <<lists, desc, cpu, next, newtask, waits, fate>>
-----------------------------------------------------------------------------
(* sched_init() has run; task 0 is in init_module(), interrupts are on.    *)
Init ==
    /\ queue = [n \in QName |-> IF n = "running" THEN <<Idle>> ELSE <<>>]
    /\ info = [t \in Task |->
                 IF t = Idle
                 THEN Reassess([pri |-> 0, priInit |-> IdlePri,
                                slice |-> 1, sliceInit |-> 1])
                 ELSE ZeroInfo]
    /\ desc = [t \in Task |-> IF t = Idle THEN "ready" ELSE "free"]
    /\ cpu = Idle
    /\ pc = [t \in Task |-> "user"]
    /\ next = [t \in Task |-> NIL]
    /\ newtask = [t \in Task |-> NIL]
    /\ reap = <<NIL, NIL>>
    /\ wlist = [w \in WaitQueues |-> <<>>]
    /\ wqOf = [t \in Task |-> NIL]
    /\ timeout = [t \in Task |-> 0]
    /\ reason = [t \in Task |-> "timeout"]
    /\ fate = "ok"

Wait(t) ==
    \/ WaitEnter(t)
    \/ \E w \in WaitQueues, d \in Timeouts \union {INFINIT} : WaitSet(t, w, d)
    \/ WaitLink(t)

Schedule(t) == SchedulePick(t) \/ ScheduleSwitch(t)

KernelThread(t) ==
    \/ \E n \in Threads : KtAlloc(t, n)
    \/ KtInsert(t) \/ KtPri(t) \/ KtSlice(t) \/ KtSliceInit(t) \/ KtContext(t)

Boot == BootDone \/ \E n \in Threads : KtAlloc(Idle, n)

IdleLoop ==
    \/ IdleWalk \/ IdleSpin
    \/ ReapUnlink \/ ReapStack \/ ReapDesc \/ ReapPgd

TaskStep(t) ==
    \/ Wait(t) \/ Schedule(t) \/ KernelThread(t)
    \/ Exit(t) \/ ExitReturned(t)

Interrupt == Tick \/ \E w \in WaitQueues : WakeInterrupt(w)

Next == Interrupt \/ BootDone \/ IdleLoop \/ \E t \in Task : TaskStep(t)

Spec == Init /\ [][Next]_vars
-----------------------------------------------------------------------------
(* Properties.                                                             *)

\* The type of every variable.
TypeOK ==
    /\ queue \in [QName -> Seq(Task)]
    /\ info \in [Task -> SchedInfo]
    /\ desc \in [Task -> {"free", "new", "ready", "unstacked"}]
    /\ cpu \in Task
    /\ pc \in [Task -> Label]
    /\ next \in [Task -> Task \union {NIL}]
    /\ newtask \in [Task -> Threads \union {NIL}]
    /\ reap \in (Task \union {NIL}) \X (Task \union {NIL})
    /\ wlist \in [WaitQueues -> Seq(Task)]
    /\ wqOf \in [Task -> WaitQueues \union {NIL}]
    /\ timeout \in [Task -> Nat \union {INFINIT}]
    /\ reason \in [Task -> {"timeout", "wakeup"}]
    /\ fate \in Fates

\* task_t has one link field for the task lists: whatever interrupt falls
\* between the steps of wait_task(), exit(), kernel_thread() and idleloop(),
\* no descriptor is in two task lists, or twice in one.
OneList == Separate(queue)

\* getnexttask() takes the head of task_running after at most one swap and
\* never looks whether there is one.  That is safe because task 0 never
\* waits and never exits: it is always in task_running or task_backup.
IdleReady == Idle \in ToSet(queue["running"]) \union ToSet(queue["backup"])

\* task_schedinfo_modify() computes (slice_init - slice) * 10 / slice_init in
\* u32: it must not wrap around or divide by zero, although kernel_thread()
\* copies the two fields in two steps and idleloop() clears one of them.
SliceWithinGrant ==
    \A t \in Task : desc[t] = "ready" =>
        info[t].slice <= info[t].sliceInit /\ info[t].sliceInit > 0

\* Every task that wait_task() has put to sleep hangs on the wait queue it
\* names, so that some waker can find it: no sleeper is lost.
SleeperReachable ==
    \A t \in ToSet(queue["wait"]) :
        \/ pc[t] \in {"wait_set", "wait_link"}
        \/ wqOf[t] # NIL /\ t \in ToSet(wlist[wqOf[t]])

\* task_backup holds the tasks that have used up a slice, each with the
\* priority of a task that used all of it, whatever has happened to it since:
\* nobody gets ahead in the next epoch by what it did in this one.
BackupSpent ==
    \A t \in ToSet(queue["backup"]) :
        info[t].pri = info[t].priInit + NiceScale - NiceBias

\* A task other than the current one leaves task_wait only as the first
\* waiter of some wait queue.
WokenFromHead ==
    [][\A t \in Task :
         t \in ToSet(queue["wait"]) \ ToSet(queue'["wait"]) =>
             \/ t = cpu
             \/ \E w \in WaitQueues : wlist[w] # <<>> /\ t = Head(wlist[w])]_vars

\* What the assertions and comments of the code say and the code does not
\* keep.

\* thread_entrance(): "it cannot get here" after exit().
ExitNeverReturns == fate # "exit_returned"

\* A new thread is entered at thread_start.
ThreadsStartReady == fate # "no_context"
=============================================================================
