------------------------------ MODULE SchedInv ------------------------------
(***************************************************************************)
(* The inductive invariant behind the safety properties of Sched: what is  *)
(* true between any two steps and makes the next one preserve TypeOK,      *)
(* OneList, IdleReady, SliceWithinGrant and SleeperReachable.  The parts   *)
(* about the lists, the slices and the sleepers are stated of any q, i and *)
(* wl, because an interrupt computes them before the processor changes     *)
(* hands.                                                                  *)
(***************************************************************************)
EXTENDS Sched

KtLabel   == {"kt_insert", "kt_pri", "kt_slice", "kt_slice_init", "kt_context"}
ExitLabel == {"exit_pick", "exit_switch", "exit_returned"}

\* What the lists hold, by the state of the descriptors and by where the
\* tasks stand.  A descriptor that kernel_thread() has queued stays in
\* task_running until it is complete, so the epoch does not end meanwhile.
ListInv(q) ==
    /\ q \in [QName -> Seq(Task)]
    /\ Separate(q)
    /\ Idle \in ToSet(q["running"]) \union ToSet(q["backup"])
    /\ \A t \in Task : Queued(q, t) => desc[t] \in {"new", "ready"}
    /\ \A t \in Task : desc[t] = "new" =>
           \A n \in {"backup", "wait", "exit"} : t \notin ToSet(q[n])
    /\ \A t \in Task : pc[t] = "kt_insert" => ~ Queued(q, newtask[t])
    /\ \A t \in Task : pc[t] \in KtLabel \ {"kt_insert"} =>
           newtask[t] \in ToSet(q["running"])
    /\ \A t \in ToSet(q["exit"]) : pc[t] \in ExitLabel
    /\ pc[Idle] = "reap_stack" => ~ Queued(q, reap[1])

\* The most that task_schedinfo_modify() grants.
MaxGrant == SliceBase + SliceStep * NiceScale

WithinGrant(i) ==
    /\ i.slice <= i.sliceInit
    /\ i.sliceInit > 0
    /\ i.sliceInit <= MaxGrant

\* The slice copied first is not above the slice_init copied next.
InfoInv(i) ==
    /\ i \in [Task -> SchedInfo]
    /\ \A t \in Task : desc[t] = "ready" => WithinGrant(i[t])
    /\ \A t \in Task : pc[t] = "kt_slice_init" =>
           i[newtask[t]].slice <= i[t].sliceInit
    /\ \A t \in Task : pc[t] = "kt_context" => WithinGrant(i[newtask[t]])

\* wait.q is in one wait queue at most, so taking it out of one is enough.
SleepInv(q, wl) ==
    /\ wl \in [WaitQueues -> Seq(Task)]
    /\ \A w \in WaitQueues : IsInjective(wl[w])
    /\ \A v, w \in WaitQueues : v # w => ToSet(wl[v]) \cap ToSet(wl[w]) = {}
    /\ \A t \in ToSet(q["wait"]) :
           \/ pc[t] \in {"wait_set", "wait_link"}
           \/ wqOf[t] \in WaitQueues /\ t \in ToSet(wl[wqOf[t]])

\* The processor runs a complete task.
CpuInv == cpu \in Task /\ fate \in Fates /\ (fate = "ok" => desc[cpu] = "ready")

\* What the locals of the kernel functions stand for: kernel_thread()'s
\* descriptor is its own, idleloop()'s is dead.
LocalInv ==
    /\ desc \in [Task -> {"free", "new", "ready", "unstacked"}]
    /\ desc[Idle] = "ready"
    /\ pc \in [Task -> Label]
    /\ next \in [Task -> Task \union {NIL}]
    /\ newtask \in [Task -> Threads \union {NIL}]
    /\ reap \in (Task \union {NIL}) \X (Task \union {NIL})
    /\ \A t \in Task : pc[t] \in {"wait_switch", "exit_switch"} =>
           next[t] \in Task
    /\ \A t \in Task : desc[t] # "ready" => pc[t] \in ExitLabel \union {"user"}
    /\ \A t \in Task : pc[t] \in KtLabel =>
           /\ desc[t] = "ready"
           /\ newtask[t] \in Threads
           /\ desc[newtask[t]] = "new"
    /\ \A t, u \in Task :
           pc[t] \in KtLabel /\ pc[u] \in KtLabel /\ newtask[t] = newtask[u]
               => t = u
    /\ pc[Idle] \in {"reap_unlink", "reap_stack"} =>
           /\ reap[1] \in Threads
           /\ desc[reap[1]] = "ready"
           /\ pc[reap[1]] \in ExitLabel
    /\ pc[Idle] = "reap_desc" =>
           reap[1] \in Threads /\ desc[reap[1]] = "unstacked"

\* The fields of wait_t.
WaitInv ==
    /\ wqOf \in [Task -> WaitQueues \union {NIL}]
    /\ timeout \in [Task -> Nat \union {INFINIT}]
    /\ reason \in [Task -> {"timeout", "wakeup"}]
    /\ \A t \in Task : pc[t] = "wait_link" => wqOf[t] \in WaitQueues

\* The interrupts that fall between the steps of the kernel functions find
\* the lists, the slices, the wait queues and those functions' locals in
\* agreement.
IInv ==
    /\ ListInv(queue)
    /\ InfoInv(info)
    /\ SleepInv(queue, wlist)
    /\ CpuInv
    /\ LocalInv
    /\ WaitInv
=============================================================================
