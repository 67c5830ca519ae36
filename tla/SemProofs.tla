------------------------------ MODULE SemProofs ------------------------------
(***************************************************************************)
(* Semaphores over the scheduler: the steps of sem_wait() and sem_signal() *)
(* keep the scheduler's invariant, and the ticket and the wait queue of a  *)
(* semaphore stay one account.                                             *)
(***************************************************************************)
EXTENDS Sem, SchedProofs

AtWait == {"wait_set", "wait_link"}

\* Where the tasks that use semaphores stand: they never exit, so they stay in
\* a task list once they are ready, and what hangs on a wait queue can be woken.
WaiterInv ==
    /\ SemTypeOK
    /\ \A t \in Task : semAt[t] # "out" => t \in Waiters /\ semOf[t] \in WaitQueues
    /\ \A t \in Task : semAt[t] = "block" => pc[t] = "user"
    /\ \A t \in Task : pc[t] \in AtWait => semAt[t] = "wait"
    /\ \A t \in Task : pc[t] = "wait_link" => wqOf[t] = semOf[t]
    /\ \A t \in Waiters : pc[t] \notin ExitLabel \union KtLabel
    /\ \A t \in Waiters : desc[t] = "ready" => Queued(queue, t)
    /\ \A s \in WaitQueues : \A t \in ToSet(wlist[s]) :
           t \in Waiters /\ desc[t] = "ready" /\ wqOf[t] \in WaitQueues

\* What the ticket of s counts.
Owed(s) == IF ticket[s] < 0 THEN -ticket[s] ELSE 0

Accounts == \A s \in WaitQueues : Len(wlist[s]) + Cardinality(Entering(s)) = Owed(s)

SemInv == IInv /\ WaiterInv /\ Accounts

LEMMA TicketsFromInv == SemInv => TicketsAccounted
  BY DEF SemInv, WaiterInv, Accounts, Owed, TicketsAccounted

LEMMA TasksFinite == \A s \in WaitQueues : IsFiniteSet(Entering(s))
<1>1. IsFiniteSet(Task)
  BY SemAssumption, FS_Singleton, FS_Union DEF Task
<1> QED
  BY <1>1, FS_Subset DEF Entering

\* A waiter is neither task 0 nor a task that creates threads or exits.
LEMMA WaitersApart ==
    /\ Waiters \subseteq Task /\ Idle \notin Waiters
    /\ Waiters \cap Creators = {} /\ Waiters \cap Quitters = {}
  BY SchedAssumption, SemAssumption DEF Task

\* Ready tasks that are about to wait are complete.
LEMMA AtWaitReady == ASSUME SemInv, NEW t \in Task, pc[t] \in AtWait
                     PROVE  desc[t] = "ready" /\ t \in Waiters
  BY DEF SemInv, IInv, LocalInv, WaiterInv, AtWait, ExitLabel
-----------------------------------------------------------------------------
(* Steps of the scheduler that leave the account alone.                    *)

\* The step moves no task in or out of the places before wlh, and every waiter
\* stays as ready, as queued and as blocked as it was.
LEMMA SchedFrame ==
    ASSUME SemInv, IInv', UNCHANGED <<ticket, semOf, semAt, wlist>>, stray' \in BOOLEAN,
           \A t \in Task : \A l \in AtWait : pc'[t] = l <=> pc[t] = l,
           \A t \in Waiters : pc'[t] \notin ExitLabel \union KtLabel,
           \A t \in Waiters : semAt[t] = "block" => pc'[t] = "user",
           \A t \in Waiters : desc[t] = "ready" => desc'[t] = "ready" /\ wqOf'[t] = wqOf[t],
           \A t \in Waiters : desc'[t] = "ready" => Queued(queue', t)
    PROVE  SemInv'
<1>1. SemTypeOK'
  BY DEF SemInv, WaiterInv, SemTypeOK
<1>2. \A t \in Task : pc'[t] \in AtWait <=> pc[t] \in AtWait
  BY DEF AtWait
<1>3. \A s \in WaitQueues : Entering(s)' = Entering(s)
  BY <1>2 DEF Entering, AtWait
<1>4. Accounts'
  BY <1>3 DEF SemInv, Accounts, Owed
<1>5. \A t \in Task : pc'[t] = "wait_link" => wqOf'[t] = semOf'[t]
  <2>1. SUFFICES ASSUME NEW t \in Task, pc'[t] = "wait_link" PROVE wqOf'[t] = semOf'[t]
    OBVIOUS
  <2>2. pc[t] = "wait_link" /\ pc[t] \in AtWait
    BY <2>1 DEF AtWait
  <2>3. desc[t] = "ready" /\ t \in Waiters
    BY <2>2, AtWaitReady
  <2> QED
    BY <2>2, <2>3 DEF SemInv, WaiterInv
<1>6. \A s \in WaitQueues : \A t \in ToSet(wlist'[s]) :
         t \in Waiters /\ desc'[t] = "ready" /\ wqOf'[t] \in WaitQueues
  BY DEF SemInv, WaiterInv
<1>7. WaiterInv'
  BY <1>1, <1>2, <1>5, <1>6 DEF SemInv, WaiterInv
<1> QED
  BY <1>4, <1>7 DEF SemInv

\* A step of a task that is no waiter.
LEMMA OtherMoves ==
    ASSUME SemInv, IInv', UNCHANGED <<semVars, wlist>>,
           NEW u \in Task \ Waiters, NEW l \in Label \ AtWait,
           pc' = [pc EXCEPT ![u] = l],
           \A t \in Waiters : desc'[t] = "ready" <=> desc[t] = "ready",
           \A t \in Waiters : desc[t] = "ready" => wqOf'[t] = wqOf[t],
           \A t \in Waiters : Queued(queue, t) => Queued(queue', t)
    PROVE  SemInv'
<1>1. pc \in [Task -> Label] /\ Waiters \subseteq Task
  BY WaitersApart DEF SemInv, IInv, LocalInv
<1>2. pc[u] \notin AtWait
  BY DEF SemInv, WaiterInv
<1>3. \A t \in Task : \A k \in AtWait : pc'[t] = k <=> pc[t] = k
  BY <1>1, <1>2
<1>4. \A t \in Waiters : pc'[t] = pc[t]
  BY <1>1
<1>5. \A t \in Waiters : semAt[t] = "block" => pc'[t] = "user"
  BY <1>1, <1>4 DEF SemInv, WaiterInv
<1>6. UNCHANGED <<ticket, semOf, semAt, wlist>> /\ stray' \in BOOLEAN
  BY DEF semVars, SemInv, WaiterInv, SemTypeOK
<1>7. \A t \in Waiters : pc'[t] \notin ExitLabel \union KtLabel
  BY <1>4 DEF SemInv, WaiterInv
<1>8. \A t \in Waiters : desc'[t] = "ready" => Queued(queue', t)
  BY DEF SemInv, WaiterInv
<1> QED
  BY <1>3, <1>5, <1>6, <1>7, <1>8, SchedFrame

\* A step that changes nothing but fate and, it may be, stray.
LEMMA NothingMoves ==
    ASSUME SemInv, IInv', UNCHANGED <<ticket, semOf, semAt, wlist>>, stray' \in BOOLEAN,
           UNCHANGED <<pc, desc, wqOf>>,
           \A t \in Waiters : Queued(queue, t) => Queued(queue', t)
    PROVE  SemInv'
<1>1. \A t \in Waiters : pc'[t] \notin ExitLabel \union KtLabel
  BY DEF SemInv, WaiterInv
<1>2. \A t \in Waiters : semAt[t] = "block" => pc'[t] = "user"
  BY WaitersApart DEF SemInv, WaiterInv
<1>3. \A t \in Waiters : desc'[t] = "ready" => Queued(queue', t)
  BY DEF SemInv, WaiterInv
<1> QED
  BY <1>1, <1>2, <1>3, SchedFrame

LEMMA FailFrame ==
    ASSUME SemInv, NEW f \in Fates \ {"ok"}, Fail(f),
           UNCHANGED <<ticket, semOf, semAt>>, stray' \in BOOLEAN
    PROVE  SemInv'
<1>1. IInv'
  BY FailInv DEF SemInv
<1>2. UNCHANGED <<queue, pc, desc, wlist, wqOf>>
  BY DEF Fail, lists, waits
<1> QED
  BY <1>1, <1>2, NothingMoves

\* getnexttask() keeps whoever is in some list in some list.
LEMMA PickQueued ==
    ASSUME NEW q \in [QName -> Seq(Task)], NEW t, Queued(q, t)
    PROVE  Queued(PickQueue(q), t)
<1>1. PICK n \in QName : t \in ToSet(q[n])
  BY DEF Queued
<1>2. CASE EpochOver(q)
  <2>1. n # "running"
    BY <1>1, <1>2 DEF EpochOver, ToSet
  <2>2. PickQueue(q)["running"] = q["backup"]
        /\ \A m \in QName \ {"running", "backup"} : PickQueue(q)[m] = q[m]
    BY <1>2 DEF PickQueue, QName
  <2> QED
    BY <1>1, <2>1, <2>2 DEF Queued, QName
<1> QED
  BY <1>2 DEF PickQueue

\* The end of an interrupt, likewise.
LEMMA ReturnQueued ==
    ASSUME NEW q \in [QName -> Seq(Task)], NEW i, NEW r, InterruptReturn(q, i, r),
           ListInv(q), NEW t, Queued(q, t)
    PROVE  Queued(queue', t)
  BY PickQueued, PickLists DEF InterruptReturn
-----------------------------------------------------------------------------
(* The scheduler's own steps.                                              *)

LEMMA SemTickStep ==
    ASSUME SemInv, SemTick
    PROVE  SemInv'
<1>1. Tick /\ UNCHANGED <<ticket, semOf, semAt>> /\ stray' \in BOOLEAN
  BY DEF SemTick, SemInv, WaiterInv, SemTypeOK
<1>2. IInv'
  BY <1>1, TickStep DEF SemInv
<1>3. fate = "ok" /\ cpu \in Task /\ desc[cpu] = "ready"
  BY <1>1 DEF Tick, SemInv, IInv, CpuInv
<1>4. CASE \E f \in Fates \ {"ok"} : Fail(f)
  BY <1>1, <1>4, FailFrame
<1>5. CASE ~ \E f \in Fates \ {"ok"} : Fail(f)
  <2>1. ~ (Spent /\ ~ Queued(queue, cpu))
    BY <1>1, <1>5 DEF Tick, Fates
  <2>2. ~ \E t \in Counting : timeout[t] = 0
    BY <1>1, <1>5, <2>1 DEF Tick, Fates
  <2>3. /\ InterruptReturn(TickQueue, TickInfo, Spent)
        /\ UNCHANGED <<desc, pc, wlist, wqOf>>
    BY <1>1, <2>1, <2>2 DEF Tick
  <2>4. ListInv(TickQueue) /\ \A t : Queued(queue, t) => Queued(TickQueue, t)
    <3>1. CASE Spent
      <4>1. TickQueue = AddByPri(Unlink(queue, cpu), "backup", cpu, TickInfo)
        BY <3>1 DEF TickQueue
      <4>2. Moved(queue, "backup", cpu, TickQueue)
        BY <1>3, <4>1, MoveSets DEF SemInv, IInv, QName
      <4>3. ListInv(TickQueue)
        BY <1>3, <2>1, <3>1, <4>1, MoveToReady DEF SemInv, IInv
      <4> QED
        BY <4>2, <4>3 DEF Moved
    <3>2. CASE ~ Spent
      BY <3>2 DEF TickQueue, SemInv, IInv
    <3> QED
      BY <3>1, <3>2
  <2>5. TickQueue \in [QName -> Seq(Task)]
    BY <2>4 DEF ListInv
  <2>6. \A t \in Waiters : Queued(queue, t) => Queued(queue', t)
    BY <2>3, <2>4, <2>5, ReturnQueued
  <2> QED
    BY <1>1, <1>2, <2>3, <2>6, NothingMoves
<1> QED
  BY <1>4, <1>5

LEMMA ScheduleStep ==
    ASSUME SemInv, NEW t \in Task, SemSchedule(t)
    PROVE  SemInv'
<1>1. IInv'
  BY SchedulePickStep, ScheduleSwitchStep DEF SemSchedule, Schedule, SemInv
<1>2. Schedule(t) /\ UNCHANGED <<ticket, semOf, semAt>> /\ stray' \in BOOLEAN
  BY DEF SemSchedule, SemInv, WaiterInv, SemTypeOK
<1>3. CASE \E f \in Fates \ {"ok"} : Fail(f)
  BY <1>2, <1>3, FailFrame
<1>4. CASE ~ \E f \in Fates \ {"ok"} : Fail(f)
  <2>1. PICK l \in Label :
            /\ pc' = [pc EXCEPT ![t] = l]
            /\ \/ pc[t] \in {"wait_pick", "wait_switch"} /\ l \in {"user", "wait_switch"}
               \/ pc[t] \in {"exit_pick", "exit_switch"} /\ l \in {"exit_returned", "exit_switch"}
            /\ UNCHANGED <<desc, wlist, wqOf>>
            /\ queue' = queue \/ queue' = PickQueue(queue)
    <3>1. CASE SchedulePick(t)
      BY <1>4, <3>1 DEF SchedulePick, Goto, AfterSchedule, SwitchLabel, Label, Fates, waits
    <3>2. CASE ScheduleSwitch(t)
      BY <3>2 DEF ScheduleSwitch, Goto, AfterSchedule, Label, lists, waits
    <3> QED
      BY <1>2, <3>1, <3>2 DEF Schedule
  <2>2. pc \in [Task -> Label] /\ queue \in [QName -> Seq(Task)]
    BY DEF SemInv, IInv, LocalInv, ListInv
  <2>3. \A x \in Task : \A k \in AtWait : pc'[x] = k <=> pc[x] = k
    BY <2>1, <2>2 DEF AtWait
  <2>4. \A x \in Waiters : pc'[x] \notin ExitLabel \union KtLabel
    <3>1. SUFFICES ASSUME NEW x \in Waiters PROVE pc'[x] \notin ExitLabel \union KtLabel
      OBVIOUS
    <3>2. x \in Task /\ pc[x] \notin ExitLabel \union KtLabel
      BY WaitersApart DEF SemInv, WaiterInv
    <3>3. CASE x # t
      BY <2>1, <2>2, <3>2, <3>3
    <3>4. CASE x = t
      BY <2>1, <2>2, <3>2, <3>4 DEF ExitLabel, KtLabel
    <3> QED
      BY <3>3, <3>4
  <2>5. \A x \in Waiters : semAt[x] = "block" => pc'[x] = "user"
    BY <2>1, <2>2, WaitersApart DEF SemInv, WaiterInv
  <2>6. \A x \in Waiters : desc'[x] = "ready" => Queued(queue', x)
    BY <2>1, <2>2, PickQueued DEF SemInv, WaiterInv
  <2> QED
    BY <1>1, <1>2, <2>1, <2>3, <2>4, <2>5, <2>6, SchedFrame
<1> QED
  BY <1>3, <1>4

LEMMA ExitSteps ==
    ASSUME SemInv, NEW t \in Task, Exit(t) \/ ExitReturned(t), UNCHANGED semVars
    PROVE  SemInv'
<1>1. UNCHANGED <<ticket, semOf, semAt>> /\ stray' \in BOOLEAN
  BY DEF semVars, SemInv, WaiterInv, SemTypeOK
<1>2. CASE \E f \in Fates \ {"ok"} : Fail(f)
  BY <1>1, <1>2, FailFrame
<1>3. CASE ~ \E f \in Fates \ {"ok"} : Fail(f)
  <2>1. Exit(t)
    BY <1>3 DEF ExitReturned, Fates
  <2>2. IInv'
    BY <2>1, ExitStep DEF SemInv
  <2>3. /\ t \notin Waiters
        /\ queue' = AddHead(Unlink(queue, t), "exit", t)
        /\ pc' = [pc EXCEPT ![t] = "exit_pick"]
        /\ UNCHANGED <<desc, wlist, wqOf>>
    BY <1>3, <2>1, WaitersApart DEF Exit, Fates, Goto, waits
  <2>4. Moved(queue, "exit", t, queue')
    BY <2>3, MoveSets DEF SemInv, IInv, QName
  <2>5. \A x : Queued(queue, x) => Queued(queue', x)
    BY <2>4 DEF Moved
  <2>6. "exit_pick" \in Label \ AtWait
    BY DEF Label, AtWait
  <2> QED
    BY <2>2, <2>3, <2>5, <2>6, OtherMoves
<1> QED
  BY <1>2, <1>3

\* idleloop() only takes away tasks that have exited.
LEMMA IdleSteps ==
    ASSUME SemInv, BootDone \/ IdleLoop, UNCHANGED semVars
    PROVE  SemInv'
<1>1. UNCHANGED <<ticket, semOf, semAt>> /\ stray' \in BOOLEAN
  BY DEF semVars, SemInv, WaiterInv, SemTypeOK
<1>2. CASE \E f \in Fates \ {"ok"} : Fail(f)
  BY <1>1, <1>2, FailFrame
<1>3. CASE ~ \E f \in Fates \ {"ok"} : Fail(f)
  <2>1. IInv'
    BY BootDoneStep, IdleWalkStep, IdleSpinStep, ReapUnlinkStep, ReapStackStep,
       ReapDescStep, ReapPgdStep DEF IdleLoop, SemInv
  <2>2. Idle \in Task \ Waiters
    BY WaitersApart DEF Task
  <2>3. PICK l \in Label \ AtWait :
            /\ pc' = [pc EXCEPT ![Idle] = l]
            /\ UNCHANGED <<wlist, wqOf>>
    <3>1. CASE BootDone
      BY <3>1 DEF BootDone, Goto, waits, Label, AtWait
    <3>2. CASE IdleWalk \/ IdleSpin
      BY <3>2 DEF IdleWalk, IdleSpin, Goto, waits, Label, AtWait
    <3>3. CASE ReapUnlink \/ ReapStack \/ ReapDesc
      BY <1>3, <3>3 DEF ReapUnlink, ReapStack, ReapDesc, Goto, waits, Label, AtWait, Fates
    <3>4. CASE ReapPgd
      BY <1>3, <3>4 DEF ReapPgd, Goto, waits, Label, AtWait, Fates
    <3> QED
      BY <3>1, <3>2, <3>3, <3>4 DEF IdleLoop
  <2>4. /\ \A t \in Waiters : desc'[t] = "ready" <=> desc[t] = "ready"
        /\ \A t \in Waiters : Queued(queue, t) => Queued(queue', t)
    <3>1. CASE UNCHANGED <<desc, queue>>
      BY <3>1
    <3>2. CASE ReapUnlink
      <4>1. queue' = Unlink(queue, reap[1]) /\ UNCHANGED desc /\ reap[1] \notin Waiters
        BY <1>3, <3>2 DEF ReapUnlink, Fates, SemInv, IInv, LocalInv, WaiterInv
      <4>2. queue \in [QName -> Seq(Task)] /\ Separate(queue)
        BY DEF SemInv, IInv, ListInv
      <4>3. \A n \in QName : ToSet(queue'[n]) = ToSet(queue[n]) \ {reap[1]}
        BY <4>1, <4>2, UnlinkSeparate
      <4> QED
        BY <4>1, <4>3 DEF Queued
    <3>3. CASE ReapStack
      <4>1. desc' = [desc EXCEPT ![reap[1]] = "unstacked"] /\ UNCHANGED queue
            /\ reap[1] \notin Waiters
        BY <3>3 DEF ReapStack, lists, SemInv, IInv, LocalInv, WaiterInv
      <4>2. desc \in [Task -> {"free", "new", "ready", "unstacked"}] /\ Waiters \subseteq Task
        BY WaitersApart DEF SemInv, IInv, LocalInv
      <4> QED
        BY <4>1, <4>2
    <3>4. CASE ReapDesc
      <4>1. desc' = [desc EXCEPT ![reap[1]] = "free"] /\ UNCHANGED queue
            /\ desc[reap[1]] = "unstacked"
        BY <3>4 DEF ReapDesc, lists, SemInv, IInv, LocalInv
      <4>2. desc \in [Task -> {"free", "new", "ready", "unstacked"}] /\ Waiters \subseteq Task
        BY WaitersApart DEF SemInv, IInv, LocalInv
      <4> QED
        BY <4>1, <4>2
    <3>5. BootDone \/ IdleWalk \/ IdleSpin \/ ReapPgd => UNCHANGED <<desc, queue>>
      BY <1>3 DEF BootDone, IdleWalk, IdleSpin, ReapPgd, lists, Fates
    <3> QED
      BY <3>1, <3>2, <3>3, <3>4, <3>5 DEF IdleLoop
  <2>5. UNCHANGED <<semVars, wlist>> /\ \A t \in Waiters : desc[t] = "ready" => wqOf'[t] = wqOf[t]
    BY <2>3
  <2> QED
    BY <2>1, <2>2, <2>3, <2>4, <2>5, OtherMoves
<1> QED
  BY <1>2, <1>3

\* kernel_thread() fills in a descriptor that no waiter has, and makes it ready
\* while it is in task_running.
LEMMA KernelThreadSteps ==
    ASSUME SemInv, NEW t \in Task, KernelThread(t), UNCHANGED semVars
    PROVE  SemInv'
<1>1. pc \in [Task -> Label] /\ Waiters \subseteq Task
      /\ desc \in [Task -> {"free", "new", "ready", "unstacked"}]
      /\ wqOf \in [Task -> WaitQueues \union {NIL}]
  BY WaitersApart DEF SemInv, IInv, LocalInv, WaitInv
<1>2. t \notin Waiters
  BY WaitersApart DEF KernelThread, KtAlloc, KtInsert, KtPri, KtSlice, KtSliceInit,
     KtInherit, KtContext, KtLabel, SemInv, WaiterInv
<1>3. ASSUME NEW n \in Threads, KtAlloc(t, n) PROVE SemInv'
  <2>1. IInv'
    BY <1>3, KtAllocStep DEF SemInv
  <2>2. /\ pc' = [pc EXCEPT ![t] = "kt_insert"] /\ desc[n] = "free"
        /\ desc' = [desc EXCEPT ![n] = "new"] /\ wqOf' = [wqOf EXCEPT ![n] = NIL]
        /\ UNCHANGED <<queue, wlist>>
    BY <1>3 DEF KtAlloc, Goto
  <2>3. "kt_insert" \in Label \ AtWait
    BY DEF Label, AtWait
  <2>4. \A x \in Waiters : (desc'[x] = "ready" <=> desc[x] = "ready")
                          /\ (desc[x] = "ready" => wqOf'[x] = wqOf[x])
    BY <1>1, <2>2
  <2> QED
    BY <1>2, <2>1, <2>2, <2>3, <2>4, OtherMoves
<1>4. CASE KtInsert(t)
  <2>1. IInv'
    BY <1>4, KtInsertStep DEF SemInv
  <2>2. /\ pc' = [pc EXCEPT ![t] = "kt_pri"] /\ pc[t] = "kt_insert"
        /\ queue' = AddByPri(queue, "running", newtask[t], info)
        /\ UNCHANGED <<desc, wlist, wqOf>>
    BY <1>4 DEF KtInsert, Goto, waits
  <2>3. "kt_pri" \in Label \ AtWait
    BY DEF Label, AtWait
  <2>4. /\ queue \in [QName -> Seq(Task)] /\ Separate(queue)
        /\ ~ Queued(queue, newtask[t]) /\ newtask[t] \in Task
    BY <2>2 DEF SemInv, IInv, ListInv, LocalInv, KtLabel, Task
  <2>5. Linked(Task, queue, "running", newtask[t], queue')
    BY <2>2, <2>4, AddByPriSeparate DEF QName
  <2>6. \A x : Queued(queue, x) => Queued(queue', x)
    BY <2>5 DEF Linked, Queued
  <2> QED
    BY <1>2, <2>1, <2>2, <2>3, <2>6, OtherMoves
<1>5. CASE KtPri(t) \/ KtSlice(t) \/ KtSliceInit(t)
  <2>1. IInv'
    BY <1>5, KtCopySteps DEF SemInv
  <2>2. PICK l \in Label \ AtWait :
            pc' = [pc EXCEPT ![t] = l] /\ UNCHANGED <<queue, desc, wlist, wqOf>>
    BY <1>5 DEF KtPri, KtSlice, KtSliceInit, KtInherit, Goto, waits, Label, AtWait
  <2> QED
    BY <1>2, <2>1, <2>2, OtherMoves
<1>6. CASE KtContext(t)
  <2>1. IInv'
    BY <1>6, KtContextStep DEF SemInv
  <2>2. /\ pc[t] = "kt_context"
        /\ desc' = [desc EXCEPT ![newtask[t]] = "ready"]
        /\ pc' = [pc EXCEPT ![t] = "user", ![newtask[t]] = "user"]
        /\ UNCHANGED <<queue, wlist, wqOf>>
    BY <1>6 DEF KtContext, lists, waits
  <2>3. /\ newtask[t] \in Task /\ desc[newtask[t]] = "new" /\ Queued(queue, newtask[t])
        /\ pc[newtask[t]] \in ExitLabel \union {"user"}
    <3>1. newtask[t] \in ToSet(queue["running"])
      BY <2>2 DEF SemInv, IInv, ListInv, KtLabel
    <3>2. newtask[t] \in Task /\ desc[newtask[t]] = "new"
      BY <2>2 DEF SemInv, IInv, LocalInv, KtLabel, Task
    <3> QED
      BY <3>1, <3>2 DEF SemInv, IInv, LocalInv, Queued, QName
  <2>4. \A x \in Task : \A k \in AtWait : pc'[x] = k <=> pc[x] = k
    BY <1>1, <2>2, <2>3 DEF AtWait, ExitLabel
  <2>5. \A x \in Waiters : pc'[x] = pc[x]
    <3>1. SUFFICES ASSUME NEW x \in Waiters PROVE pc'[x] = pc[x]
      OBVIOUS
    <3>2. CASE x = newtask[t]
      BY <1>1, <2>2, <2>3, <3>2 DEF SemInv, WaiterInv
    <3> QED
      BY <1>1, <1>2, <2>2, <3>2
  <2>6. /\ \A x \in Waiters : pc'[x] \notin ExitLabel \union KtLabel
        /\ \A x \in Waiters : semAt[x] = "block" => pc'[x] = "user"
    BY <1>1, <2>5 DEF SemInv, WaiterInv
  <2>7. \A x \in Waiters : desc[x] = "ready" => desc'[x] = "ready" /\ wqOf'[x] = wqOf[x]
    BY <1>1, <2>2, <2>3
  <2>8. \A x \in Waiters : desc'[x] = "ready" => Queued(queue', x)
    BY <1>1, <2>2, <2>3 DEF SemInv, WaiterInv
  <2>9. UNCHANGED <<ticket, semOf, semAt, wlist>> /\ stray' \in BOOLEAN
    BY <2>2 DEF semVars, SemInv, WaiterInv, SemTypeOK
  <2> QED
    BY <2>1, <2>4, <2>6, <2>7, <2>8, <2>9, SchedFrame
<1> QED
  BY <1>3, <1>4, <1>5, <1>6 DEF KernelThread
-----------------------------------------------------------------------------
(* The steps of sem_wait() and sem_signal().                               *)

\* The ticket is one less: either there was one to take, or there is one task
\* more on its way to wlh.
LEMMA SemWaitStep ==
    ASSUME SemInv, NEW t \in Task, NEW s \in WaitQueues, SemWait(t, s)
    PROVE  SemInv'
<1>1. /\ t \in Waiters /\ pc[t] = "user" /\ semAt[t] = "out"
      /\ ticket' = [ticket EXCEPT ![s] = @ - 1]
      /\ semOf' = [semOf EXCEPT ![t] = s]
      /\ semAt' = [semAt EXCEPT ![t] = IF ticket[s] > 0 THEN "out" ELSE "block"]
      /\ UNCHANGED <<stray, vars>>
  BY DEF SemWait, MayWait, TakeTicket
<1>2. UNCHANGED <<queue, info, desc, cpu, pc, next, newtask, reap>>
      /\ UNCHANGED <<wlist, wqOf, timeout, reason, fate>>
  BY <1>1 DEF vars
<1>3. IInv'
  BY <1>2 DEF SemInv, IInv, ListInv, InfoInv, SleepInv, CpuInv, LocalInv, WaitInv
<1>4. SemTypeOK
  BY DEF SemInv, WaiterInv
<1>5. MaxTicket \in [WaitQueues -> Nat]
  BY SemAssumption
<1>6. SemTypeOK'
  BY <1>1, <1>4, <1>5 DEF SemTypeOK
<1>7. WaiterInv'
  BY <1>1, <1>2, <1>4, <1>6 DEF SemInv, WaiterInv, AtWait, SemTypeOK
<1>8. ASSUME NEW r \in WaitQueues
      PROVE  Len(wlist'[r]) + Cardinality(Entering(r)') = Owed(r)'
  <2>1. Len(wlist[r]) + Cardinality(Entering(r)) = Owed(r)
    BY DEF SemInv, Accounts
  <2>2. t \notin Entering(r)
    BY <1>1 DEF Entering
  <2>3. CASE r = s /\ ticket[s] <= 0
    <3>1. Entering(r)' = Entering(r) \union {t}
      BY <1>1, <1>2, <1>4, <2>3 DEF Entering, SemTypeOK
    <3>2. Cardinality(Entering(r)') = Cardinality(Entering(r)) + 1
      BY <2>2, <3>1, TasksFinite, FS_AddElement
    <3>3. Cardinality(Entering(r)) \in Nat /\ Len(wlist[r]) \in Nat /\ ticket[r] \in Int
      BY <1>4, TasksFinite, FS_CardinalityType DEF SemInv, IInv, SleepInv, SemTypeOK
    <3> QED
      BY <1>1, <1>2, <1>4, <2>1, <2>3, <3>2, <3>3 DEF Owed, SemTypeOK
  <2>4. CASE ~ (r = s /\ ticket[s] <= 0)
    <3>1. Entering(r)' = Entering(r)
      BY <1>1, <1>2, <1>4, <2>2, <2>4 DEF Entering, SemTypeOK
    <3>2. Owed(r)' = Owed(r)
      BY <1>1, <1>4, <2>4 DEF Owed, SemTypeOK
    <3> QED
      BY <1>2, <2>1, <3>1, <3>2
  <2> QED
    BY <2>3, <2>4
<1> QED
  BY <1>3, <1>7, <1>8 DEF SemInv, Accounts

\* wait_task(): a waiter is in a task list, so the removal succeeds; it stays
\* on its way until it is linked into wlh.
LEMMA SemBlockStep ==
    ASSUME SemInv, NEW t \in Task, SemBlock(t)
    PROVE  SemInv'
<1>1. /\ semAt[t] = "block" /\ pc[t] = "user" /\ t \in Waiters /\ Running(t)
      /\ semAt' = [semAt EXCEPT ![t] = "wait"] /\ UNCHANGED <<ticket, semOf, stray>>
  BY DEF SemBlock, WaitEnter
<1>2. desc[t] = "ready" /\ Queued(queue, t)
  BY <1>1 DEF Running, SemInv, IInv, CpuInv, WaiterInv
<1>3. /\ queue' = AddTail(Unlink(queue, t), "wait", t)
      /\ pc' = [pc EXCEPT ![t] = "wait_set"]
      /\ UNCHANGED <<desc, wlist, wqOf>>
  BY <1>2 DEF SemBlock, WaitEnter, Goto, waits
<1>4. IInv'
  BY WaitEnterStep DEF SemBlock, SemInv
<1>5. SemTypeOK /\ pc \in [Task -> Label]
  BY DEF SemInv, WaiterInv, IInv, LocalInv
<1>6. Moved(queue, "wait", t, queue')
  BY <1>3, MoveSets DEF SemInv, IInv, QName
<1>7. WaiterInv'
  <2>1. SemTypeOK'
    BY <1>1, <1>5 DEF SemTypeOK
  <2>2. \A x \in Waiters : pc'[x] \notin ExitLabel \union KtLabel
    BY <1>3, <1>5, WaitersApart DEF SemInv, WaiterInv, ExitLabel, KtLabel
  <2>3. \A x \in Waiters : desc'[x] = "ready" => Queued(queue', x)
    BY <1>3, <1>6 DEF SemInv, WaiterInv, Moved
  <2>4. /\ \A x \in Task : semAt'[x] # "out" => x \in Waiters /\ semOf'[x] \in WaitQueues
        /\ \A x \in Task : semAt'[x] = "block" => pc'[x] = "user"
        /\ \A x \in Task : pc'[x] \in AtWait => semAt'[x] = "wait"
        /\ \A x \in Task : pc'[x] = "wait_link" => wqOf'[x] = semOf'[x]
    BY <1>1, <1>3, <1>5 DEF SemInv, WaiterInv, AtWait, SemTypeOK
  <2> QED
    BY <1>1, <1>3, <2>1, <2>2, <2>3, <2>4 DEF SemInv, WaiterInv
<1>8. \A s \in WaitQueues : Entering(s)' = Entering(s)
  BY <1>1, <1>3, <1>5 DEF Entering, SemTypeOK
<1> QED
  BY <1>1, <1>3, <1>4, <1>7, <1>8 DEF SemInv, Accounts, Owed

LEMMA SemSetStep ==
    ASSUME SemInv, NEW t \in Task, semAt[t] = "wait", WaitSet(t, semOf[t], INFINIT),
           UNCHANGED semVars
    PROVE  SemInv'
<1>1. semOf[t] \in WaitQueues /\ t \in Waiters
  BY DEF SemInv, WaiterInv
<1>2. IInv'
  BY <1>1, WaitSetStep DEF SemInv
<1>3. /\ pc[t] = "wait_set" /\ pc' = [pc EXCEPT ![t] = "wait_link"]
      /\ wqOf' = [wqOf EXCEPT ![t] = semOf[t]]
      /\ UNCHANGED <<queue, desc, wlist, ticket, semOf, semAt, stray>>
  BY DEF WaitSet, Goto, lists, semVars
<1>4. /\ SemTypeOK /\ pc \in [Task -> Label] /\ wqOf \in [Task -> WaitQueues \union {NIL}]
      /\ Waiters \subseteq Task
  BY WaitersApart DEF SemInv, WaiterInv, IInv, LocalInv, WaitInv
<1>5. WaiterInv'
  <2>1. SemTypeOK'
    BY <1>3, <1>4 DEF SemTypeOK
  <2>2. \A x \in Waiters : pc'[x] \notin ExitLabel \union KtLabel
    BY <1>3, <1>4 DEF SemInv, WaiterInv, ExitLabel, KtLabel
  <2>3. /\ \A x \in Task : semAt'[x] = "block" => pc'[x] = "user"
        /\ \A x \in Task : pc'[x] \in AtWait => semAt'[x] = "wait"
        /\ \A x \in Task : pc'[x] = "wait_link" => wqOf'[x] = semOf'[x]
    BY <1>3, <1>4 DEF SemInv, WaiterInv, AtWait
  <2>4. \A s \in WaitQueues : \A x \in ToSet(wlist'[s]) :
            x \in Waiters /\ desc'[x] = "ready" /\ wqOf'[x] \in WaitQueues
    BY <1>1, <1>3, <1>4 DEF SemInv, WaiterInv
  <2> QED
    BY <1>3, <2>1, <2>2, <2>3, <2>4 DEF SemInv, WaiterInv
<1>6. \A s \in WaitQueues : Entering(s)' = Entering(s)
  BY <1>3, <1>4 DEF Entering
<1> QED
  BY <1>2, <1>3, <1>5, <1>6 DEF SemInv, Accounts, Owed

\* The task has arrived in wlh.
LEMMA SemLinkStep ==
    ASSUME SemInv, NEW t \in Task, semAt[t] = "wait", WaitLink(t), UNCHANGED semVars
    PROVE  SemInv'
<1>1. UNCHANGED <<ticket, semOf, semAt>> /\ stray' \in BOOLEAN
  BY DEF semVars, SemInv, WaiterInv, SemTypeOK
<1>2. CASE \E w \in WaitQueues : t \in ToSet(wlist[w])
  BY <1>1, <1>2, FailFrame DEF WaitLink, Fates
<1>3. CASE ~ \E w \in WaitQueues : t \in ToSet(wlist[w])
  <2>1. PICK u \in WaitQueues : u = semOf[t]
    BY DEF SemInv, WaiterInv
  <2>2. /\ pc[t] = "wait_link" /\ pc' = [pc EXCEPT ![t] = "wait_pick"]
        /\ wqOf[t] = u /\ wlist' = [wlist EXCEPT ![u] = Append(@, t)]
        /\ UNCHANGED <<queue, desc, wqOf>>
    BY <1>3, <2>1 DEF WaitLink, Goto, lists, SemInv, WaiterInv
  <2>3. IInv'
    BY WaitLinkStep DEF SemInv
  <2>4. /\ SemTypeOK /\ pc \in [Task -> Label] /\ wlist \in [WaitQueues -> Seq(Task)]
        /\ Waiters \subseteq Task
    BY WaitersApart DEF SemInv, WaiterInv, IInv, LocalInv, SleepInv
  <2>5. desc[t] = "ready" /\ t \in Waiters
    BY <2>2, AtWaitReady DEF AtWait
  <2>6. ToSet(wlist'[u]) = ToSet(wlist[u]) \union {t} /\ Len(wlist'[u]) = Len(wlist[u]) + 1
    <3>1. IsInjective(wlist[u]) /\ t \notin ToSet(wlist[u])
      BY <1>3 DEF SemInv, IInv, SleepInv
    <3>2. ToSet(Append(wlist[u], t)) = ToSet(wlist[u]) \union {t}
      BY <2>4, <3>1, AppendMembers
    <3>3. Len(Append(wlist[u], t)) = Len(wlist[u]) + 1
      BY <2>4
    <3> QED
      BY <2>2, <2>4, <3>2, <3>3
  <2>7. WaiterInv'
    <3>1. SemTypeOK'
      BY <1>1, <2>4 DEF SemTypeOK
    <3>2. \A x \in Waiters : pc'[x] \notin ExitLabel \union KtLabel
      BY <2>2, <2>4 DEF SemInv, WaiterInv, ExitLabel, KtLabel
    <3>3. /\ \A x \in Task : semAt'[x] # "out" => x \in Waiters /\ semOf'[x] \in WaitQueues
          /\ \A x \in Task : semAt'[x] = "block" => pc'[x] = "user"
          /\ \A x \in Task : pc'[x] \in AtWait => semAt'[x] = "wait"
          /\ \A x \in Task : pc'[x] = "wait_link" => wqOf'[x] = semOf'[x]
      BY <1>1, <2>2, <2>4 DEF SemInv, WaiterInv, AtWait
    <3>4. \A s \in WaitQueues : \A x \in ToSet(wlist'[s]) :
              x \in Waiters /\ desc'[x] = "ready" /\ wqOf'[x] \in WaitQueues
      <4>1. SUFFICES ASSUME NEW s \in WaitQueues, NEW x \in ToSet(wlist'[s])
                     PROVE  x \in Waiters /\ desc'[x] = "ready" /\ wqOf'[x] \in WaitQueues
        OBVIOUS
      <4>2. x = t \/ x \in ToSet(wlist[s])
        BY <2>2, <2>4, <2>6, <4>1
      <4> QED
        BY <2>2, <2>5, <4>2 DEF SemInv, WaiterInv
    <3>5. \A x \in Waiters : desc'[x] = "ready" => Queued(queue', x)
      BY <2>2 DEF SemInv, WaiterInv
    <3> QED
      BY <3>1, <3>2, <3>3, <3>4, <3>5 DEF WaiterInv
  <2>8. ASSUME NEW r \in WaitQueues
        PROVE  Len(wlist'[r]) + Cardinality(Entering(r)') = Owed(r)'
    <3>1. Len(wlist[r]) + Cardinality(Entering(r)) = Owed(r) /\ Owed(r)' = Owed(r)
      BY <1>1 DEF SemInv, Accounts, Owed
    <3>2. CASE r = u
      <4>1. t \in Entering(r)
        BY <2>1, <2>2, <3>2 DEF Entering
      <4>2. Entering(r)' = Entering(r) \ {t}
        BY <1>1, <2>2, <2>4, <3>2 DEF Entering
      <4>3. Cardinality(Entering(r)') = Cardinality(Entering(r)) - 1
        BY <4>1, <4>2, TasksFinite, FS_RemoveElement
      <4>4. Cardinality(Entering(r)) \in Nat /\ Len(wlist[r]) \in Nat
        BY <2>4, TasksFinite, FS_CardinalityType
      <4> QED
        BY <2>6, <3>1, <3>2, <4>3, <4>4
    <3>3. CASE r # u
      <4>1. Entering(r)' = Entering(r)
        BY <1>1, <2>1, <2>2, <2>4, <3>3 DEF Entering
      <4> QED
        BY <2>2, <3>1, <3>3, <4>1
    <3> QED
      BY <3>2, <3>3
  <2> QED
    BY <2>3, <2>7, <2>8 DEF SemInv, Accounts
<1> QED
  BY <1>2, <1>3

LEMMA SemReturnStep ==
    ASSUME SemInv, NEW t \in Task, SemReturn(t)
    PROVE  SemInv'
<1>1. /\ semAt[t] = "wait" /\ pc[t] = "user" /\ semAt' = [semAt EXCEPT ![t] = "out"]
      /\ UNCHANGED <<ticket, semOf, stray>>
      /\ UNCHANGED <<queue, info, desc, cpu, pc, next, newtask, reap>>
      /\ UNCHANGED <<wlist, wqOf, timeout, reason, fate>>
  BY DEF SemReturn, Returned, vars
<1>2. IInv'
  BY <1>1 DEF SemInv, IInv, ListInv, InfoInv, SleepInv, CpuInv, LocalInv, WaitInv
<1>3. SemTypeOK
  BY DEF SemInv, WaiterInv
<1>4. WaiterInv'
  BY <1>1, <1>3 DEF SemInv, WaiterInv, SemTypeOK, AtWait
<1>5. \A s \in WaitQueues : Entering(s)' = Entering(s)
  BY <1>1, <1>3 DEF Entering, SemTypeOK
<1> QED
  BY <1>1, <1>2, <1>4, <1>5 DEF SemInv, Accounts, Owed

\* Taking out what is not there leaves a sequence as it was.
LEMMA RemoveAbsent ==
    ASSUME NEW T, NEW s \in Seq(T), NEW t, t \notin ToSet(s)
    PROVE  RemoveFirst(s, t) = s
<1>1. Len(s) \in Nat /\ DOMAIN s = 1 .. Len(s)
  BY SequenceMembers
<1> QED
  BY <1>1 DEF RemoveFirst, ToSet

\* The ticket that goes back is the woken task's: it was the first in wlh, can
\* be woken, and hangs on no other queue.
LEMMA SemSignalStep ==
    ASSUME SemInv, NEW s \in WaitQueues, SemSignal(s)
    PROVE  SemInv'
<1>1. fate = "ok" /\ UNCHANGED <<semOf, semAt, stray>>
  BY DEF SemSignal
<1>2. SemTypeOK /\ MaxTicket \in [WaitQueues -> Nat]
  BY SemAssumption DEF SemInv, WaiterInv
<1>3. CASE ticket[s] >= 0
  <2>1. GiveTicket(s) /\ UNCHANGED vars
    BY <1>3 DEF SemSignal
  <2>2. UNCHANGED <<queue, info, desc, cpu, pc, next, newtask, reap>>
        /\ UNCHANGED <<wlist, wqOf, timeout, reason, fate>>
    BY <2>1 DEF vars
  <2>3. IInv'
    BY <2>2 DEF SemInv, IInv, ListInv, InfoInv, SleepInv, CpuInv, LocalInv, WaitInv
  <2>4. SemTypeOK'
    BY <1>1, <1>2, <2>1 DEF SemTypeOK, GiveTicket
  <2>5. WaiterInv'
    BY <1>1, <2>2, <2>4 DEF SemInv, WaiterInv
  <2>6. \A r \in WaitQueues : Owed(r)' = Owed(r)
    BY <1>2, <1>3, <2>1 DEF Owed, GiveTicket, SemTypeOK
  <2>7. \A r \in WaitQueues : Entering(r)' = Entering(r)
    BY <1>1, <2>2 DEF Entering
  <2> QED
    BY <2>2, <2>3, <2>5, <2>6, <2>7 DEF SemInv, Accounts
<1>4. CASE ticket[s] < 0 /\ wlist[s] = <<>>
  BY <1>1, <1>2, <1>4, FailFrame DEF SemSignal, SemTypeOK, Fates
<1>5. CASE ticket[s] < 0 /\ wlist[s] # <<>>
  <2>1. WakeFirst(s) /\ GiveTicket(s)
    BY <1>2, <1>5 DEF SemSignal, SemTypeOK
  <2>2. wlist \in [WaitQueues -> Seq(Task)] /\ wlist[s] \in Seq(Task)
    BY DEF SemInv, IInv, SleepInv
  <2>3. PICK t \in Task : t = FirstWaiter(s) /\ t = wlist[s][1]
    BY <1>5, <2>2, HeadTailProperties DEF FirstWaiter
  <2>4. t \in ToSet(wlist[s]) /\ Len(wlist[s]) \in Nat /\ 1 \in 1 .. Len(wlist[s])
    BY <1>5, <2>2, <2>3, SequenceMembers, EmptySeq
  <2>5. Wakeable(t) /\ t \in Waiters
    BY <2>4, SchedAssumption DEF Wakeable, SemInv, WaiterInv
  <2>6. /\ WakeupWaiter(t, "wakeup")
        /\ InterruptReturn(Woken(t), info, TRUE)
        /\ UNCHANGED <<desc, pc, wqOf>>
    BY <2>1, <2>3, <2>5 DEF WakeFirst, WakeupWaiter
  <2>7. IInv'
    BY <1>1, <1>5, <2>1, WakeInterruptStep DEF WakeInterrupt, SemInv
  <2>8. ticket' = [ticket EXCEPT ![s] = @ + 1]
    <3>1. ticket[s] \in Int /\ MaxTicket[s] \in Nat
      BY <1>2, SemAssumption DEF SemTypeOK
    <3>2. ticket[s] < MaxTicket[s]
      BY <1>5, <3>1
    <3> QED
      BY <2>1, <3>2 DEF GiveTicket
  <2>9. \A x \in Waiters : Queued(queue, x) => Queued(queue', x)
    <3>1. ListInv(Woken(t))
      BY <2>5, MoveToReady DEF SemInv, IInv, Woken, Wakeable
    <3>2. Moved(queue, "running", t, Woken(t))
      BY MoveSets DEF SemInv, IInv, Woken, QName
    <3> QED
      BY <2>6, <3>1, <3>2, ReturnQueued DEF Moved, ListInv
  <2>10. ASSUME NEW r \in WaitQueues
         PROVE  /\ ToSet(wlist'[r]) \subseteq ToSet(wlist[r])
                /\ Len(wlist'[r]) = IF r = s THEN Len(wlist[r]) - 1 ELSE Len(wlist[r])
    <3>1. wlist'[r] = RemoveFirst(wlist[r], t) /\ wlist[r] \in Seq(Task) /\ IsInjective(wlist[r])
      BY <2>2, <2>6 DEF WakeupWaiter, SemInv, IInv, SleepInv
    <3>2. ToSet(wlist'[r]) = ToSet(wlist[r]) \ {t}
      BY <3>1, RemoveFirstProperties
    <3>3. CASE r = s
      <4>1. wlist'[r] = SubSeq(wlist[r], 1, 1 - 1) \o SubSeq(wlist[r], 1 + 1, Len(wlist[r]))
        BY <2>3, <2>4, <3>1, <3>3, RemoveFirstPosition
      <4>2. Len(wlist'[r]) = Len(wlist[r]) - 1
        BY <2>4, <3>1, <3>3, <4>1, CutProperties
      <4> QED
        BY <3>2, <3>3, <4>2
    <3>4. CASE r # s
      <4>1. t \notin ToSet(wlist[r])
        BY <2>4, <3>4 DEF SemInv, IInv, SleepInv
      <4>2. wlist'[r] = wlist[r]
        BY <3>1, <4>1, RemoveAbsent
      <4> QED
        BY <3>4, <4>2
    <3> QED
      BY <3>3, <3>4
  <2>11. WaiterInv'
    <3>1. SemTypeOK'
      BY <1>1, <1>2, <1>5, <2>8 DEF SemTypeOK
    <3>2. \A x \in Waiters : desc'[x] = "ready" => Queued(queue', x)
      BY <2>6, <2>9 DEF SemInv, WaiterInv
    <3>3. \A r \in WaitQueues : \A x \in ToSet(wlist'[r]) :
              x \in Waiters /\ desc'[x] = "ready" /\ wqOf'[x] \in WaitQueues
      BY <2>6, <2>10 DEF SemInv, WaiterInv
    <3> QED
      BY <1>1, <2>6, <3>1, <3>2, <3>3 DEF SemInv, WaiterInv
  <2>12. ASSUME NEW r \in WaitQueues
         PROVE  Len(wlist'[r]) + Cardinality(Entering(r)') = Owed(r)'
    <3>1. Entering(r)' = Entering(r)
      BY <1>1, <2>6 DEF Entering
    <3>2. Len(wlist[r]) + Cardinality(Entering(r)) = Owed(r)
      BY DEF SemInv, Accounts
    <3>3. Cardinality(Entering(r)) \in Nat /\ Len(wlist[r]) \in Nat
      BY <2>2, TasksFinite, FS_CardinalityType
    <3> QED
      BY <1>2, <1>5, <2>8, <2>10, <3>1, <3>2, <3>3 DEF Owed, SemTypeOK
  <2> QED
    BY <2>7, <2>11, <2>12 DEF SemInv, Accounts
<1> QED
  BY <1>2, <1>3, <1>4, <1>5 DEF SemTypeOK
-----------------------------------------------------------------------------
LEMMA SemInitInv == SemInit => SemInv
<1> SUFFICES ASSUME SemInit PROVE SemInv
  OBVIOUS
<1>1. IInv
  BY InitInv DEF SemInit
<1>2. /\ wlist = [w \in WaitQueues |-> <<>>] /\ pc = [t \in Task |-> "user"]
      /\ desc = [t \in Task |-> IF t = Idle THEN "ready" ELSE "free"]
      /\ ticket = [w \in WaitQueues |-> 0] /\ semAt = [t \in Task |-> "out"]
      /\ semOf = [t \in Task |-> NIL] /\ stray = FALSE
  BY DEF SemInit, Init
<1>3. SemTypeOK
  <2>1. 0 \in Int /\ \A s \in WaitQueues : 0 <= MaxTicket[s]
    BY SemAssumption
  <2>2. semOf \in [Task -> WaitQueues \union {NIL}]
    BY <1>2
  <2>3. semAt \in [Task -> {"out", "block", "wait"}]
    BY <1>2
  <2> QED
    BY <1>2, <2>1, <2>2, <2>3 DEF SemTypeOK
<1>4. WaiterInv
  BY <1>2, <1>3, WaitersApart DEF WaiterInv, AtWait, ExitLabel, KtLabel, ToSet
<1>5. \A s \in WaitQueues : Entering(s) = {}
  BY <1>2 DEF Entering
<1>6. Accounts
  <2>1. Cardinality({}) = 0
    BY FS_EmptySet
  <2>2. \A s \in WaitQueues : Len(wlist[s]) = 0 /\ Owed(s) = 0
    BY <1>2, SMTT(20) DEF Owed
  <2> QED
    BY <1>5, <2>1, <2>2 DEF Accounts
<1> QED
  BY <1>1, <1>4, <1>6 DEF SemInv

LEMMA SemNextInv == SemInv /\ [SemNext]_<<vars, semVars>> => SemInv'
<1> SUFFICES ASSUME SemInv, [SemNext]_<<vars, semVars>> PROVE SemInv'
  OBVIOUS
<1>1. CASE SemTick
  BY <1>1, SemTickStep
<1>2. CASE SchedStep
  BY <1>2, IdleSteps, ScheduleStep, KernelThreadSteps, ExitSteps DEF SchedStep
<1>3. ASSUME NEW t \in Task, SemStep(t) PROVE SemInv'
  BY <1>3, SemBlockStep, SemSetStep, SemLinkStep, SemReturnStep DEF SemStep, SemLink
<1>4. ASSUME NEW t \in Task, NEW s \in WaitQueues, SemWait(t, s) PROVE SemInv'
  BY <1>4, SemWaitStep
<1>5. ASSUME NEW s \in WaitQueues, SemSignal(s) PROVE SemInv'
  BY <1>5, SemSignalStep
<1>6. CASE UNCHANGED <<vars, semVars>>
  <2>1. /\ UNCHANGED <<queue, info, desc, cpu, pc, next, newtask, reap>>
        /\ UNCHANGED <<wlist, wqOf, timeout, reason, fate, ticket, semOf, semAt, stray>>
    BY <1>6 DEF vars, semVars
  <2>2. IInv'
    BY <2>1 DEF SemInv, IInv, ListInv, InfoInv, SleepInv, CpuInv, LocalInv, WaitInv
  <2>3. WaiterInv' /\ Accounts'
    BY <2>1 DEF SemInv, WaiterInv, SemTypeOK, Accounts, Owed, Entering
  <2> QED
    BY <2>2, <2>3 DEF SemInv
<1> QED
  BY <1>1, <1>2, <1>3, <1>4, <1>5, <1>6 DEF SemNext

THEOREM SemInvariance == SemSpec => []SemInv
<1>1. SemInit => SemInv
  BY SemInitInv
<1>2. SemInv /\ [SemNext]_<<vars, semVars>> => SemInv'
  BY SemNextInv
<1> QED
  BY <1>1, <1>2, PTL DEF SemSpec

\* sem_wait() and sem_signal(), for any number of tasks and semaphores and any
\* max_ticket: a negative ticket is the number of tasks in wlh and of those on
\* their way there, whatever interrupts fall in between.
THEOREM TicketsAccountedHolds == SemSpec => []TicketsAccounted
<1>1. SemInv => TicketsAccounted
  BY TicketsFromInv
<1> QED
  BY <1>1, SemInvariance, PTL

\* The scheduler's promise is kept under semaphores: a task asleep in
\* sem_wait() is on the wait queue of its semaphore.
THEOREM SemSleeperReachable == SemSpec => []SleeperReachable
<1>1. SemInv => SleeperReachable
  BY SchedAssumption DEF SemInv, IInv, SleepInv, SleeperReachable
<1> QED
  BY <1>1, SemInvariance, PTL

\* To the scheduler a step of a semaphore is a step of its own, nothing, or
\* the assertion of sem_signal().
LEMMA SemNextOrder ==
    ASSUME SemInv, OrderInv, [SemNext]_<<vars, semVars>>
    PROVE  OrderInv' /\ (HeadStep \/ UNCHANGED vars)
<1>1. CASE [Next]_vars
  BY <1>1, OrderNext
<1>2. CASE SemTick
  BY <1>1, <1>2 DEF SemTick, Next, Interrupt
<1>3. CASE SchedStep
  BY <1>1, <1>3 DEF SchedStep, SemSchedule, Next, TaskStep
<1>4. ASSUME NEW t \in Task, SemStep(t) PROVE [Next]_vars
  <2>1. SemLink(t) => semOf[t] \in WaitQueues
    BY DEF SemLink, SemInv, WaiterInv
  <2> QED
    BY <1>4, <2>1 DEF SemStep, SemBlock, SemLink, SemReturn, Next, TaskStep, Wait
<1>5. ASSUME NEW t \in Task, NEW s \in WaitQueues, SemWait(t, s) PROVE [Next]_vars
  BY <1>5 DEF SemWait
<1>6. ASSUME NEW s \in WaitQueues, SemSignal(s)
      PROVE  [Next]_vars \/ \E f \in Fates \ {"ok"} : Fail(f)
  BY <1>6 DEF SemSignal, WakeInterrupt, Next, Interrupt, Fates
<1>7. CASE UNCHANGED <<vars, semVars>>
  BY <1>1, <1>7
<1> QED
  BY <1>1, <1>2, <1>3, <1>4, <1>5, <1>6, <1>7, OrderFail DEF SemNext

THEOREM SemOrderInvariance == SemSpec => []OrderInv
<1>1. SemInit => OrderInv
  BY OrderInit DEF SemInit
<1>2. SemInv /\ OrderInv /\ [SemNext]_<<vars, semVars>> => OrderInv'
  BY SemNextOrder
<1> QED
  BY <1>1, <1>2, SemInvariance, PTL DEF SemSpec

\* sem_signal() serves in the order of arrival: for any number of tasks and
\* semaphores, a sleeper is woken from the head of a wait queue.
THEOREM SemWokenFromHead == SemSpec => WokenFromHead
<1>1. SemInv /\ OrderInv /\ [SemNext]_<<vars, semVars>> => [HeadStep]_vars
  BY SemNextOrder
<1> QED
  BY <1>1, SemInvariance, SemOrderInvariance, PTL DEF SemSpec, WokenFromHead, HeadStep
-----------------------------------------------------------------------------
(* Who is asleep, as long as no task has run without being woken.          *)

WaitLabel == AtWait \union {"wait_pick", "wait_switch"}

\* A task in task_wait is in sem_wait(), and when it has the processor it has
\* not yet given it up; it has its place in task_wait from the first step of
\* wait_task() on, and in wlh from the last but one, until it is woken.
Awake ==
    /\ \A t \in ToSet(queue["wait"]) : semAt[t] = "wait" /\ (cpu = t => pc[t] \in WaitLabel)
    /\ \A t \in Task : pc[t] \in AtWait => t \in ToSet(queue["wait"])
    /\ \A s \in WaitQueues : \A t \in ToSet(wlist[s]) :
           t \in ToSet(queue["wait"]) /\ pc[t] \notin AtWait

AwakeInv == SemInv /\ (stray \/ Awake)

\* A step that wakes nobody and puts nobody to sleep.
SleepersStay == stray' \/ ToSet(queue'["wait"]) = ToSet(queue["wait"])

LEMMA HangTasks ==
    ASSUME SemInv
    PROVE  /\ ToSet(queue["wait"]) \subseteq Task
           /\ \A s \in WaitQueues : ToSet(wlist[s]) \subseteq Task
<1>1. queue["wait"] \in Seq(Task) /\ \A s \in WaitQueues : wlist[s] \in Seq(Task)
  BY DEF SemInv, IInv, ListInv, SleepInv, QName
<1> QED
  BY <1>1, SequenceMembers

\* Steps that leave task_wait and the wait queues alone.
LEMMA AwakeFrame ==
    ASSUME AwakeInv, SemInv', stray => stray', UNCHANGED <<wlist, semAt>>,
           ToSet(queue'["wait"]) = ToSet(queue["wait"]),
           \A t \in Task : pc'[t] \in AtWait <=> pc[t] \in AtWait,
           stray' \/ \A t \in ToSet(queue["wait"]) : cpu' = t => pc'[t] \in WaitLabel
    PROVE  AwakeInv'
BY HangTasks DEF AwakeInv, Awake

LEMMA AwakeFail ==
    ASSUME AwakeInv, SemInv', NEW f \in Fates \ {"ok"}, Fail(f), stray => stray',
           UNCHANGED semAt
    PROVE  AwakeInv' /\ SleepersStay
<1>1. UNCHANGED <<queue, cpu, pc, wlist>>
  BY DEF Fail, lists, waits
<1> QED
  BY <1>1, AwakeFrame DEF AwakeInv, Awake, SleepersStay

\* getnexttask() does not choose a sleeper.
LEMMA PickAwake ==
    ASSUME NEW q, ListInv(q)
    PROVE  Picked(q) \notin ToSet(q["wait"])
<1>1. /\ ListInv(PickQueue(q)) /\ ~ NothingToPick(q)
      /\ PickQueue(q)["wait"] = q["wait"]
  BY PickLists
<1>2. PickQueue(q)["running"] \in Seq(Task) /\ PickQueue(q)["running"] # <<>>
  BY <1>1 DEF ListInv, NothingToPick, QName
<1>3. PickQueue(q)["running"][1] \in ToSet(PickQueue(q)["running"])
  BY <1>2, SequenceMembers, EmptySeq
<1>4. Picked(q) = PickQueue(q)["running"][1]
  BY <1>2, HeadTailProperties DEF Picked
<1> QED
  BY <1>1, <1>3, <1>4 DEF ListInv, Separate, QName

LEMMA ReturnAwake ==
    ASSUME NEW q, ListInv(q), NEW i, NEW r, InterruptReturn(q, i, r)
    PROVE  /\ queue'["wait"] = q["wait"]
           /\ cpu' = cpu \/ cpu' \notin ToSet(q["wait"])
BY PickLists, PickAwake DEF InterruptReturn

LEMMA TickAwake ==
    ASSUME AwakeInv, SemTick
    PROVE  AwakeInv' /\ SleepersStay
<1>1. /\ SemInv /\ SemInv' /\ Tick /\ UNCHANGED semAt
      /\ stray' = (stray \/ cpu \in ToSet(queue["wait"]) \ ToSet(queue'["wait"]))
  BY SemTickStep DEF SemTick, AwakeInv
<1>2. fate = "ok" /\ cpu \in Task /\ desc[cpu] = "ready"
  BY <1>1 DEF Tick, SemInv, IInv, CpuInv
<1>3. CASE \E f \in Fates \ {"ok"} : Fail(f)
  BY <1>1, <1>3, AwakeFail
<1>4. CASE ~ \E f \in Fates \ {"ok"} : Fail(f)
  <2>1. ~ (Spent /\ ~ Queued(queue, cpu))
    BY <1>1, <1>4 DEF Tick, Fates
  <2>2. ~ \E t \in Counting : timeout[t] = 0
    BY <1>1, <1>4, <2>1 DEF Tick, Fates
  <2>3. /\ InterruptReturn(TickQueue, TickInfo, Spent)
        /\ UNCHANGED <<pc, wlist>>
    BY <1>1, <2>1, <2>2 DEF Tick
  <2>4. /\ ListInv(TickQueue)
        /\ ToSet(TickQueue["wait"]) \subseteq ToSet(queue["wait"])
        /\ ToSet(queue["wait"]) \ ToSet(TickQueue["wait"]) \subseteq {cpu}
    <3>1. CASE Spent
      <4>1. TickQueue = AddByPri(Unlink(queue, cpu), "backup", cpu, TickInfo)
        BY <3>1 DEF TickQueue
      <4>2. Moved(queue, "backup", cpu, TickQueue)
        BY <1>1, <1>2, <4>1, MoveSets DEF SemInv, IInv, QName
      <4>3. ListInv(TickQueue)
        BY <1>1, <1>2, <2>1, <3>1, <4>1, MoveToReady DEF SemInv, IInv
      <4> QED
        BY <4>2, <4>3 DEF Moved, QName
    <3>2. CASE ~ Spent
      BY <1>1, <3>2 DEF TickQueue, SemInv, IInv
    <3> QED
      BY <3>1, <3>2
  <2>5. /\ queue'["wait"] = TickQueue["wait"]
        /\ cpu' = cpu \/ cpu' \notin ToSet(queue'["wait"])
    BY <2>3, <2>4, ReturnAwake
  <2>6. CASE stray'
    BY <1>1, <2>6 DEF AwakeInv, SleepersStay
  <2>7. CASE ~ stray'
    <3>1. ToSet(queue'["wait"]) = ToSet(queue["wait"])
      <4>1. cpu \notin ToSet(queue["wait"]) \ ToSet(queue'["wait"])
        BY ONLY <1>1, <2>7, Zenon
      <4>2. PICK a, b : a = ToSet(queue["wait"]) /\ b = ToSet(queue'["wait"])
        OBVIOUS
      <4>3. b \subseteq a /\ a \ b \subseteq {cpu}
        BY <2>4, <2>5, <4>2
      <4> QED
        BY <4>1, <4>2, <4>3
    <3>2. \A t \in ToSet(queue["wait"]) : cpu' = t => pc'[t] \in WaitLabel
      BY <1>1, <2>3, <2>5, <2>7, <3>1 DEF AwakeInv, Awake
    <3> QED
      BY <1>1, <2>3, <3>1, <3>2, AwakeFrame DEF SleepersStay
  <2> QED
    BY <2>6, <2>7
<1> QED
  BY <1>3, <1>4

\* schedule() switches to a sleeper only if next has become stale.
LEMMA ScheduleAwake ==
    ASSUME AwakeInv, NEW t \in Task, SemSchedule(t)
    PROVE  AwakeInv' /\ SleepersStay
<1>1. /\ SemInv /\ SemInv' /\ Schedule(t) /\ UNCHANGED semAt
      /\ stray' = \/ stray
                  \/ /\ pc[t] \in {"wait_switch", "exit_switch"}
                     /\ next[t] \in ToSet(queue["wait"])
  BY ScheduleStep DEF SemSchedule, AwakeInv
<1>2. pc \in [Task -> Label] /\ ListInv(queue)
  BY <1>1 DEF SemInv, IInv, LocalInv
<1>3. CASE SchedulePick(t)
  <2>1. CASE \E f \in Fates \ {"ok"} : Fail(f)
    BY <1>1, <2>1, AwakeFail
  <2>2. CASE ~ \E f \in Fates \ {"ok"} : Fail(f)
    <3>1. /\ cpu = t /\ pc[t] \in {"wait_pick", "exit_pick"}
          /\ queue' = PickQueue(queue) /\ UNCHANGED <<cpu, wlist>>
          /\ \/ Picked(queue) = t /\ pc' = [pc EXCEPT ![t] = AfterSchedule(pc[t])]
             \/ pc' = [pc EXCEPT ![t] = SwitchLabel(pc[t])]
      BY <1>3, <2>2 DEF SchedulePick, Running, Goto, Fates, waits
    <3>2. queue'["wait"] = queue["wait"] /\ Picked(queue) \notin ToSet(queue["wait"])
      BY <1>2, <3>1, PickLists, PickAwake
    <3>3. \A x \in Task : pc'[x] \in AtWait <=> pc[x] \in AtWait
      BY <1>2, <3>1 DEF AtWait, AfterSchedule, SwitchLabel
    <3>4. t \in ToSet(queue["wait"]) /\ ~ stray => pc'[t] \in WaitLabel
      BY <1>2, <3>1, <3>2 DEF AwakeInv, Awake, WaitLabel, AtWait, SwitchLabel
    <3> QED
      BY <1>1, <3>1, <3>2, <3>3, <3>4, AwakeFrame DEF SleepersStay
  <2> QED
    BY <2>1, <2>2
<1>4. CASE ScheduleSwitch(t)
  <2>1. /\ pc[t] \in {"wait_switch", "exit_switch"} /\ cpu' = next[t]
        /\ pc' = [pc EXCEPT ![t] = AfterSchedule(pc[t])]
        /\ UNCHANGED <<queue, wlist>>
    BY <1>4 DEF ScheduleSwitch, Goto, lists, waits
  <2>2. \A x \in Task : pc'[x] \in AtWait <=> pc[x] \in AtWait
    BY <1>2, <2>1 DEF AtWait, AfterSchedule
  <2>3. stray' \/ cpu' \notin ToSet(queue["wait"])
    BY <1>1, <2>1
  <2> QED
    BY <1>1, <2>1, <2>2, <2>3, AwakeFrame DEF SleepersStay
<1> QED
  BY <1>1, <1>3, <1>4 DEF Schedule

\* The other steps of the scheduler are taken by tasks that do not wait.
LEMMA OtherAwake ==
    ASSUME AwakeInv, SemInv', UNCHANGED <<semVars, wlist>>,
           NEW u \in Task \ Waiters, cpu' = u,
           \A t \in Task : pc'[t] \in AtWait <=> pc[t] \in AtWait,
           ToSet(queue'["wait"]) = ToSet(queue["wait"])
    PROVE  AwakeInv' /\ SleepersStay
<1>1. stray \/ \A t \in ToSet(queue["wait"]) : t \in Waiters
  BY HangTasks DEF AwakeInv, Awake, SemInv, WaiterInv
<1> QED
  BY <1>1, AwakeFrame DEF semVars, SleepersStay

LEMMA ExitAwake ==
    ASSUME AwakeInv, NEW t \in Task, Exit(t) \/ ExitReturned(t), UNCHANGED semVars
    PROVE  AwakeInv' /\ SleepersStay
<1>1. SemInv /\ SemInv' /\ UNCHANGED <<semAt, stray>>
  BY ExitSteps DEF AwakeInv, semVars
<1>2. CASE \E f \in Fates \ {"ok"} : Fail(f)
  BY <1>1, <1>2, AwakeFail
<1>3. CASE ~ \E f \in Fates \ {"ok"} : Fail(f)
  <2>1. Exit(t)
    BY <1>3 DEF ExitReturned, Fates
  <2>2. /\ t \notin Waiters /\ cpu' = t /\ pc[t] = "user"
        /\ queue' = AddHead(Unlink(queue, t), "exit", t)
        /\ pc' = [pc EXCEPT ![t] = "exit_pick"]
        /\ UNCHANGED wlist
    BY <1>3, <2>1, WaitersApart DEF Exit, Running, Fates, Goto, waits
  <2>3. Moved(queue, "exit", t, queue')
    BY <1>1, <2>2, MoveSets DEF SemInv, IInv, QName
  <2>4. CASE stray
    BY <1>1, <2>4 DEF AwakeInv, SleepersStay
  <2>5. CASE ~ stray
    <3>1. t \notin ToSet(queue["wait"])
      BY <1>1, <2>2, <2>5 DEF AwakeInv, Awake, SemInv, WaiterInv
    <3>2. t \notin ToSet(queue'["wait"]) /\
          ToSet(queue'["wait"]) \ {t} = ToSet(queue["wait"]) \ {t}
      BY <2>3 DEF Moved, QName
    <3>3. ToSet(queue'["wait"]) = ToSet(queue["wait"])
      BY <3>1, <3>2
    <3>4. \A x \in Task : pc'[x] \in AtWait <=> pc[x] \in AtWait
      BY <1>1, <2>2 DEF SemInv, IInv, LocalInv, AtWait
    <3> QED
      BY <1>1, <2>2, <3>3, <3>4, OtherAwake
  <2> QED
    BY <2>4, <2>5
<1> QED
  BY <1>2, <1>3

LEMMA IdleAwake ==
    ASSUME AwakeInv, BootDone \/ IdleLoop, UNCHANGED semVars
    PROVE  AwakeInv' /\ SleepersStay
<1>1. SemInv /\ SemInv' /\ UNCHANGED <<semAt, stray>>
  BY IdleSteps DEF AwakeInv, semVars
<1>2. CASE \E f \in Fates \ {"ok"} : Fail(f)
  BY <1>1, <1>2, AwakeFail
<1>3. CASE ~ \E f \in Fates \ {"ok"} : Fail(f)
  <2>1. Idle \in Task \ Waiters
    BY WaitersApart DEF Task
  <2>2. PICK l \in Label \ AtWait :
            /\ pc' = [pc EXCEPT ![Idle] = l] /\ pc[Idle] \notin AtWait
            /\ cpu' = Idle /\ UNCHANGED wlist
    <3>1. CASE BootDone
      BY <3>1 DEF BootDone, Running, Goto, waits, Label, AtWait
    <3>2. CASE IdleWalk \/ IdleSpin
      BY <3>2 DEF IdleWalk, IdleSpin, Running, Goto, waits, Label, AtWait
    <3>3. CASE ReapUnlink \/ ReapStack \/ ReapDesc
      BY <1>3, <3>3 DEF ReapUnlink, ReapStack, ReapDesc, Running, Goto, waits, Label,
         AtWait, Fates
    <3>4. CASE ReapPgd
      BY <1>3, <3>4 DEF ReapPgd, Running, Goto, waits, Label, AtWait, Fates
    <3> QED
      BY <3>1, <3>2, <3>3, <3>4 DEF IdleLoop
  <2>3. stray \/ ToSet(queue'["wait"]) = ToSet(queue["wait"])
    <3>1. CASE ReapUnlink
      <4>1. queue' = Unlink(queue, reap[1]) /\ reap[1] \notin Waiters
        BY <1>1, <1>3, <3>1 DEF ReapUnlink, Fates, SemInv, IInv, LocalInv, WaiterInv
      <4>2. queue \in [QName -> Seq(Task)] /\ Separate(queue)
        BY <1>1 DEF SemInv, IInv, ListInv
      <4>3. ToSet(queue'["wait"]) = ToSet(queue["wait"]) \ {reap[1]}
        <5>1. "wait" \in QName
          BY DEF QName
        <5>2. ToSet(Unlink(queue, reap[1])["wait"]) = ToSet(queue["wait"]) \ {reap[1]}
          BY <4>2, <5>1, UnlinkSeparate
        <5> QED
          BY <4>1, <5>2
      <4>4. stray \/ reap[1] \notin ToSet(queue["wait"])
        BY <1>1, <4>1, HangTasks DEF AwakeInv, Awake, SemInv, WaiterInv
      <4> QED
        BY <4>3, <4>4
    <3>2. BootDone \/ IdleWalk \/ IdleSpin \/ ReapStack \/ ReapDesc \/ ReapPgd
             => UNCHANGED queue
      BY <1>3 DEF BootDone, IdleWalk, IdleSpin, ReapStack, ReapDesc, ReapPgd, lists, Fates
    <3> QED
      BY <3>1, <3>2 DEF IdleLoop
  <2>4. \A x \in Task : pc'[x] \in AtWait <=> pc[x] \in AtWait
    BY <1>1, <2>2 DEF SemInv, IInv, LocalInv
  <2>5. CASE stray
    BY <1>1, <2>5 DEF AwakeInv, SleepersStay
  <2> QED
    BY <1>1, <2>1, <2>2, <2>3, <2>4, <2>5, OtherAwake
<1> QED
  BY <1>2, <1>3

LEMMA KernelThreadAwake ==
    ASSUME AwakeInv, NEW t \in Task, KernelThread(t), UNCHANGED semVars
    PROVE  AwakeInv' /\ SleepersStay
<1>1. SemInv /\ SemInv' /\ UNCHANGED <<semAt, stray>>
  BY KernelThreadSteps DEF AwakeInv, semVars
<1>2. pc \in [Task -> Label]
  BY <1>1 DEF SemInv, IInv, LocalInv
<1>3. t \notin Waiters
  BY <1>1, WaitersApart DEF KernelThread, KtAlloc, KtInsert, KtPri, KtSlice, KtSliceInit,
     KtInherit, KtContext, KtLabel, SemInv, WaiterInv
<1>4. cpu' = t /\ UNCHANGED wlist
  BY DEF KernelThread, KtAlloc, KtInsert, KtPri, KtSlice, KtSliceInit, KtInherit,
     KtContext, Running, waits
<1>5. ToSet(queue'["wait"]) = ToSet(queue["wait"])
  <2>1. CASE KtInsert(t)
    <3>1. queue' = AddByPri(queue, "running", newtask[t], info)
      BY <2>1 DEF KtInsert
    <3> QED
      BY <1>1, <3>1 DEF AddByPri, SemInv, IInv, ListInv, QName
  <2>2. CASE ~ KtInsert(t)
    BY <2>2 DEF KernelThread, KtAlloc, KtPri, KtSlice, KtSliceInit, KtInherit,
       KtContext, lists
  <2> QED
    BY <2>1, <2>2
<1>6. \A x \in Task : pc'[x] \in AtWait <=> pc[x] \in AtWait
  <2>1. CASE KtContext(t)
    <3>1. pc[t] = "kt_context" /\ pc' = [pc EXCEPT ![t] = "user", ![newtask[t]] = "user"]
      BY <2>1 DEF KtContext
    <3>2. newtask[t] \in Task /\ pc[newtask[t]] \in ExitLabel \union {"user"}
      BY <1>1, <3>1 DEF SemInv, IInv, LocalInv, KtLabel, Task
    <3> QED
      BY <1>2, <3>1, <3>2 DEF AtWait, ExitLabel
  <2>2. CASE ~ KtContext(t)
    <3>1. PICK l \in Label \ AtWait : pc' = [pc EXCEPT ![t] = l] /\ pc[t] \notin AtWait
      BY <2>2 DEF KernelThread, KtAlloc, KtInsert, KtPri, KtSlice, KtSliceInit, KtInherit,
         Goto, Label, AtWait
    <3> QED
      BY <1>2, <3>1
  <2> QED
    BY <2>1, <2>2
<1> QED
  BY <1>1, <1>3, <1>4, <1>5, <1>6, OtherAwake

LEMMA SchedAwake ==
    ASSUME AwakeInv, SchedStep
    PROVE  AwakeInv' /\ SleepersStay
BY ScheduleAwake, KernelThreadAwake, ExitAwake, IdleAwake DEF SchedStep

\* Falling asleep: the caller of sem_wait() was not asleep yet, so it hangs
\* nowhere.
LEMMA BlockAwake ==
    ASSUME AwakeInv, NEW t \in Task, SemBlock(t)
    PROVE  /\ AwakeInv'
           /\ ToSet(queue'["wait"]) = ToSet(queue["wait"]) \union {t}
           /\ UNCHANGED <<cpu, wlist, fate>> /\ pc' = [pc EXCEPT ![t] = "wait_set"]
<1>1. /\ semAt[t] = "block" /\ pc[t] = "user" /\ t \in Waiters /\ Running(t)
      /\ semAt' = [semAt EXCEPT ![t] = "wait"] /\ UNCHANGED stray
  BY DEF SemBlock, WaitEnter
<1>2. SemInv /\ SemInv'
  BY SemBlockStep DEF AwakeInv
<1>3. Queued(queue, t) /\ cpu = t
  BY <1>1, <1>2 DEF Running, SemInv, IInv, CpuInv, WaiterInv
<1>4. /\ queue' = AddTail(Unlink(queue, t), "wait", t)
      /\ pc' = [pc EXCEPT ![t] = "wait_set"]
      /\ UNCHANGED <<cpu, wlist, fate>>
  BY <1>3 DEF SemBlock, WaitEnter, Goto, waits
<1>5. Moved(queue, "wait", t, queue')
  BY <1>2, <1>4, MoveSets DEF SemInv, IInv, QName
<1>6. ToSet(queue'["wait"]) = ToSet(queue["wait"]) \union {t}
  BY <1>5 DEF Moved, QName
<1>7. CASE stray
  BY <1>1, <1>2, <1>4, <1>6, <1>7 DEF AwakeInv
<1>8. CASE ~ stray
  <2>1. /\ pc \in [Task -> Label] /\ semAt \in [Task -> {"out", "block", "wait"}]
        /\ Awake
    BY <1>2, <1>8 DEF SemInv, IInv, LocalInv, WaiterInv, SemTypeOK, AwakeInv
  <2>2. \A s \in WaitQueues : t \notin ToSet(wlist[s])
    BY <1>1, <2>1 DEF Awake
  <2>3. \A x \in ToSet(queue'["wait"]) :
            semAt'[x] = "wait" /\ (cpu' = x => pc'[x] \in WaitLabel)
    BY <1>1, <1>2, <1>3, <1>4, <1>6, <2>1, HangTasks DEF Awake, WaitLabel, AtWait
  <2>4. \A x \in Task : pc'[x] \in AtWait => x \in ToSet(queue'["wait"])
    BY <1>4, <1>6, <2>1 DEF Awake
  <2>5. \A s \in WaitQueues : \A x \in ToSet(wlist'[s]) :
            x \in ToSet(queue'["wait"]) /\ pc'[x] \notin AtWait
    BY <1>2, <1>4, <1>6, <2>1, <2>2, HangTasks DEF Awake
  <2> QED
    BY <1>2, <1>4, <1>6, <2>3, <2>4, <2>5 DEF AwakeInv, Awake
<1> QED
  BY <1>7, <1>8

LEMMA LinkAwake ==
    ASSUME AwakeInv, NEW t \in Task, SemLink(t)
    PROVE  AwakeInv' /\ SleepersStay
<1>1. /\ semAt[t] = "wait" /\ UNCHANGED <<semAt, stray>>
      /\ WaitSet(t, semOf[t], INFINIT) \/ WaitLink(t)
  BY DEF SemLink, semVars
<1>2. SemInv /\ SemInv'
  BY SemSetStep, SemLinkStep DEF SemLink, AwakeInv
<1>3. pc \in [Task -> Label] /\ wlist \in [WaitQueues -> Seq(Task)]
  BY <1>2 DEF SemInv, IInv, LocalInv, SleepInv
<1>4. CASE WaitSet(t, semOf[t], INFINIT)
  <2>1. /\ pc[t] = "wait_set" /\ pc' = [pc EXCEPT ![t] = "wait_link"]
        /\ UNCHANGED <<queue, cpu, wlist>>
    BY <1>4 DEF WaitSet, Goto, lists
  <2>2. \A x \in Task : pc'[x] \in AtWait <=> pc[x] \in AtWait
    BY <1>3, <2>1 DEF AtWait
  <2>3. stray \/ \A x \in ToSet(queue["wait"]) : cpu' = x => pc'[x] \in WaitLabel
    BY <1>2, <1>3, <2>1, HangTasks DEF AwakeInv, Awake, WaitLabel, AtWait
  <2> QED
    BY <1>1, <1>2, <2>1, <2>2, <2>3, AwakeFrame DEF SleepersStay
<1>5. CASE WaitLink(t)
  <2>1. CASE \E w \in WaitQueues : t \in ToSet(wlist[w])
    <3>1. Fail("linked_twice")
      BY <1>5, <2>1 DEF WaitLink
    <3> QED
      BY <1>1, <1>2, <3>1, AwakeFail DEF Fates
  <2>2. CASE ~ \E w \in WaitQueues : t \in ToSet(wlist[w])
    <3>1. PICK u \in WaitQueues : u = semOf[t]
      BY <1>1, <1>2 DEF SemInv, WaiterInv
    <3>2. /\ pc[t] = "wait_link" /\ pc' = [pc EXCEPT ![t] = "wait_pick"]
          /\ wlist' = [wlist EXCEPT ![u] = Append(@, t)]
          /\ UNCHANGED <<queue, cpu>>
      BY <1>2, <1>5, <2>2, <3>1 DEF WaitLink, Goto, lists, SemInv, WaiterInv
    <3>3. CASE stray
      BY <1>1, <1>2, <3>2, <3>3 DEF AwakeInv, SleepersStay
    <3>4. CASE ~ stray
      <4>1. Awake
        BY <3>4 DEF AwakeInv
      <4>2. ToSet(Append(wlist[u], t)) = ToSet(wlist[u]) \union {t}
        BY <1>2, <1>3, <2>2, AppendMembers DEF SemInv, IInv, SleepInv
      <4>3. \A s \in WaitQueues : \A x \in ToSet(wlist'[s]) : x = t \/ x \in ToSet(wlist[s])
        BY <1>3, <3>2, <4>2
      <4>4. \A s \in WaitQueues : \A x \in ToSet(wlist'[s]) :
                x \in ToSet(queue'["wait"]) /\ pc'[x] \notin AtWait
        BY <1>2, <1>3, <2>2, <3>2, <4>1, <4>3, HangTasks DEF Awake, AtWait
      <4>5. \A x \in ToSet(queue'["wait"]) :
                semAt'[x] = "wait" /\ (cpu' = x => pc'[x] \in WaitLabel)
        BY <1>1, <1>2, <1>3, <3>2, <4>1, HangTasks DEF Awake, WaitLabel
      <4>6. \A x \in Task : pc'[x] \in AtWait => x \in ToSet(queue'["wait"])
        BY <1>3, <3>2, <4>1 DEF Awake, AtWait
      <4> QED
        BY <1>2, <3>2, <4>4, <4>5, <4>6 DEF AwakeInv, Awake, SleepersStay
    <3> QED
      BY <3>3, <3>4
  <2> QED
    BY <2>1, <2>2
<1> QED
  BY <1>1, <1>4, <1>5

\* A task that returns from sem_wait() is not asleep.
LEMMA BackAwake ==
    ASSUME AwakeInv, NEW t \in Task, SemReturn(t)
    PROVE  /\ AwakeInv' /\ UNCHANGED vars
           /\ stray' \/ t \notin ToSet(queue["wait"])
<1>1. /\ pc[t] = "user" /\ cpu = t /\ UNCHANGED <<vars, stray>>
      /\ semAt' = [semAt EXCEPT ![t] = "out"]
  BY DEF SemReturn, Running, Returned
<1>2. UNCHANGED <<queue, cpu, pc, wlist>>
  BY <1>1 DEF vars
<1>3. SemInv /\ SemInv' /\ semAt \in [Task -> {"out", "block", "wait"}]
  BY SemReturnStep DEF AwakeInv, SemInv, WaiterInv, SemTypeOK
<1>4. stray \/ t \notin ToSet(queue["wait"])
  BY <1>1 DEF AwakeInv, Awake, WaitLabel, AtWait
<1>5. Awake /\ t \notin ToSet(queue["wait"]) => Awake'
  BY <1>1, <1>2, <1>3, HangTasks DEF Awake
<1> QED
  BY <1>1, <1>3, <1>4, <1>5 DEF AwakeInv

LEMMA TakeAwake ==
    ASSUME AwakeInv, NEW t \in Task, NEW s \in WaitQueues, SemWait(t, s)
    PROVE  /\ AwakeInv' /\ UNCHANGED vars
           /\ stray' \/ t \notin ToSet(queue["wait"])
<1>1. /\ semAt[t] = "out" /\ UNCHANGED <<vars, stray>>
      /\ semAt' = [semAt EXCEPT ![t] = IF ticket[s] > 0 THEN "out" ELSE "block"]
  BY DEF SemWait, MayWait, TakeTicket
<1>2. UNCHANGED <<queue, cpu, pc, wlist>>
  BY <1>1 DEF vars
<1>3. SemInv /\ SemInv' /\ semAt \in [Task -> {"out", "block", "wait"}]
  BY SemWaitStep DEF AwakeInv, SemInv, WaiterInv, SemTypeOK
<1>4. stray \/ t \notin ToSet(queue["wait"])
  BY <1>1 DEF AwakeInv, Awake
<1>5. Awake /\ t \notin ToSet(queue["wait"]) => Awake'
  BY <1>1, <1>2, <1>3, HangTasks DEF Awake
<1> QED
  BY <1>1, <1>3, <1>4, <1>5 DEF AwakeInv

\* sem_signal() with a sleeper in wlh wakes one of them.
LEMMA SignalAwake ==
    ASSUME AwakeInv, NEW s \in WaitQueues, SemSignal(s)
    PROVE  /\ AwakeInv'
           /\ ticket[s] < 0 /\ wlist[s] # <<>> =>
                  \E t \in ToSet(wlist[s]) :
                      ToSet(queue'["wait"]) = ToSet(queue["wait"]) \ {t}
<1>1. fate = "ok" /\ UNCHANGED <<semOf, semAt, stray>>
  BY DEF SemSignal
<1>2. SemInv /\ SemInv' /\ ticket[s] \in Int
  BY SemSignalStep DEF AwakeInv, SemInv, WaiterInv, SemTypeOK
<1>3. CASE ticket[s] >= 0
  <2>1. UNCHANGED vars
    BY <1>3 DEF SemSignal
  <2>2. UNCHANGED <<queue, cpu, pc, wlist>>
    BY <2>1 DEF vars
  <2> QED
    BY <1>1, <1>2, <1>3, <2>2 DEF AwakeInv, Awake
<1>4. CASE ticket[s] < 0 /\ wlist[s] = <<>>
  <2>1. Fail("no_waiter")
    BY <1>2, <1>4 DEF SemSignal
  <2> QED
    BY <1>1, <1>2, <1>4, <2>1, AwakeFail DEF Fates
<1>5. CASE ticket[s] < 0 /\ wlist[s] # <<>>
  <2>1. WakeFirst(s)
    BY <1>2, <1>5 DEF SemSignal
  <2>2. wlist \in [WaitQueues -> Seq(Task)] /\ wlist[s] \in Seq(Task)
    BY <1>2 DEF SemInv, IInv, SleepInv
  <2>3. PICK t \in Task : t = FirstWaiter(s) /\ t = wlist[s][1]
    BY <1>5, <2>2, HeadTailProperties DEF FirstWaiter
  <2>4. t \in ToSet(wlist[s])
    BY <1>5, <2>2, <2>3, SequenceMembers, EmptySeq
  <2>5. Wakeable(t)
    BY <1>2, <2>4, SchedAssumption DEF Wakeable, SemInv, WaiterInv
  <2>6. /\ WakeupWaiter(t, "wakeup")
        /\ InterruptReturn(Woken(t), info, TRUE)
        /\ UNCHANGED pc
    BY <2>1, <2>3, <2>5 DEF WakeFirst
  <2>7. ListInv(Woken(t)) /\ Moved(queue, "running", t, Woken(t))
    BY <1>2, <2>5, MoveToReady, MoveSets DEF SemInv, IInv, Woken, Wakeable, QName
  <2>8. /\ queue'["wait"] = Woken(t)["wait"]
        /\ cpu' = cpu \/ cpu' \notin ToSet(queue'["wait"])
    BY <2>6, <2>7, ReturnAwake
  <2>9. ToSet(queue'["wait"]) = ToSet(queue["wait"]) \ {t}
    BY <2>7, <2>8 DEF Moved, QName
  <2>10. \A r \in WaitQueues : ToSet(wlist'[r]) = ToSet(wlist[r]) \ {t}
    BY <1>2, <2>2, <2>6, RemoveFirstProperties DEF WakeupWaiter, SemInv, IInv, SleepInv
  <2>11. Awake => Awake'
    BY <1>1, <2>4, <2>6, <2>8, <2>9, <2>10 DEF Awake
  <2> QED
    BY <1>1, <1>2, <2>4, <2>9, <2>11 DEF AwakeInv
<1> QED
  BY <1>2, <1>3, <1>4, <1>5

LEMMA AwakeInitially == SemInit => AwakeInv
<1> SUFFICES ASSUME SemInit PROVE AwakeInv
  OBVIOUS
<1>1. /\ queue["wait"] = <<>> /\ wlist = [w \in WaitQueues |-> <<>>]
      /\ pc = [t \in Task |-> "user"]
  BY DEF SemInit, Init, QName
<1>2. ToSet(<<>>) = {}
  BY DEF ToSet
<1> QED
  BY <1>1, <1>2, SemInitInv DEF AwakeInv, Awake, AtWait

\* Nothing moves any more once fate is set.
LEMMA SchedRuns ==
    ASSUME SemTick \/ SchedStep \/ \E t \in Task : SemStep(t)
    PROVE  fate = "ok" /\ (stray => stray')
<1>1. CASE SemTick
  BY <1>1 DEF SemTick, Tick
<1>2. ASSUME NEW t \in Task, SemSchedule(t) PROVE fate = "ok" /\ (stray => stray')
  BY <1>2 DEF SemSchedule, Schedule, SchedulePick, ScheduleSwitch, Running
<1>3. CASE (BootDone \/ IdleLoop) /\ UNCHANGED semVars
  BY <1>3 DEF BootDone, IdleLoop, IdleWalk, IdleSpin, ReapUnlink, ReapStack, ReapDesc,
     ReapPgd, Running, semVars
<1>4. ASSUME NEW t \in Task, KernelThread(t), UNCHANGED semVars
      PROVE  fate = "ok" /\ (stray => stray')
  BY <1>4 DEF KernelThread, KtAlloc, KtInsert, KtPri, KtSlice, KtSliceInit, KtInherit,
     KtContext, Running, semVars
<1>5. ASSUME NEW t \in Task, Exit(t) \/ ExitReturned(t), UNCHANGED semVars
      PROVE  fate = "ok" /\ (stray => stray')
  BY <1>5 DEF Exit, ExitReturned, Running, semVars
<1>6. ASSUME NEW t \in Task, SemStep(t) PROVE fate = "ok" /\ (stray => stray')
  BY <1>6 DEF SemStep, SemBlock, WaitEnter, SemLink, WaitSet, WaitLink, SemReturn, Running,
     semVars
<1> QED
  BY <1>1, <1>2, <1>3, <1>4, <1>5, <1>6 DEF SchedStep
=============================================================================
