----------------------------- MODULE SchedProofs -----------------------------
(***************************************************************************)
(* Spec => []IInv, step by step, and what follows from it.                 *)
(***************************************************************************)
EXTENDS SchedInv, DataLemmas
-----------------------------------------------------------------------------
(* The four task lists together.                                           *)

\* list_remove(&t->q): lists without a common node stay so, and t is in none.
LEMMA UnlinkSeparate ==
    ASSUME NEW T, NEW q \in [QName -> Seq(T)], Separate(q), NEW t
    PROVE  /\ Unlink(q, t) \in [QName -> Seq(T)]
           /\ Separate(Unlink(q, t))
           /\ ~ Queued(Unlink(q, t), t)
           /\ \A n \in QName : ToSet(Unlink(q, t)[n]) = ToSet(q[n]) \ {t}
<1>1. ASSUME NEW n \in QName
      PROVE  /\ Unlink(q, t)[n] \in Seq(T)
             /\ IsInjective(Unlink(q, t)[n])
             /\ ToSet(Unlink(q, t)[n]) = ToSet(q[n]) \ {t}
  <2>1. q[n] \in Seq(T) /\ IsInjective(q[n])
    BY DEF Separate
  <2>2. Unlink(q, t)[n] = RemoveFirst(q[n], t)
    BY DEF Unlink
  <2> QED
    BY <2>1, <2>2, RemoveFirstProperties
<1>2. Unlink(q, t) \in [QName -> Seq(T)]
  BY <1>1 DEF Unlink
<1>3. Separate(Unlink(q, t))
  BY <1>1 DEF Separate
<1>4. ~ Queued(Unlink(q, t), t)
  BY <1>1 DEF Queued
<1> QED
  BY <1>1, <1>2, <1>3, <1>4

\* r is q with t in list n, too.
Linked(T, q, n, t, r) ==
    /\ r \in [QName -> Seq(T)]
    /\ Separate(r)
    /\ ToSet(r[n]) = ToSet(q[n]) \union {t}
    /\ \A m \in QName \ {n} : r[m] = q[m]

\* Linking a task that is in no list into one of them.
LEMMA LinkSeparate ==
    ASSUME NEW T, NEW q \in [QName -> Seq(T)], Separate(q), NEW t \in T,
           ~ Queued(q, t), NEW n \in QName, NEW s \in Seq(T), IsInjective(s),
           ToSet(s) = ToSet(q[n]) \union {t}, NEW r, r = [q EXCEPT ![n] = s]
    PROVE  Linked(T, q, n, t, r)
<1>1. r \in [QName -> Seq(T)]
  OBVIOUS
<1>2. r[n] = s /\ \A m \in QName \ {n} : r[m] = q[m]
  OBVIOUS
<1>3. \A m \in QName : IsInjective(r[m])
  BY <1>2 DEF Separate
<1>4. \A m \in QName : t \notin ToSet(q[m])
  BY DEF Queued
<1>5. ASSUME NEW m \in QName, NEW k \in QName, m # k
      PROVE  ToSet(r[m]) \cap ToSet(r[k]) = {}
  <2>1. ToSet(q[m]) \cap ToSet(q[k]) = {}
    BY <1>5 DEF Separate
  <2> QED
    BY <1>2, <1>4, <1>5, <2>1
<1> QED
  BY <1>1, <1>2, <1>3, <1>5 DEF Linked, Separate

LEMMA AddHeadSeparate ==
    ASSUME NEW T, NEW q \in [QName -> Seq(T)], Separate(q), NEW t \in T,
           ~ Queued(q, t), NEW n \in QName
    PROVE  Linked(T, q, n, t, AddHead(q, n, t))
<1>1. q[n] \in Seq(T) /\ IsInjective(q[n]) /\ t \notin ToSet(q[n])
  BY DEF Separate, Queued
<1>2. PICK s \in Seq(T) : /\ s = <<t>> \o q[n]
                          /\ IsInjective(s)
                          /\ ToSet(s) = ToSet(q[n]) \union {t}
  <2>1. /\ <<t>> \o q[n] \in Seq(T)
        /\ IsInjective(<<t>> \o q[n])
        /\ ToSet(<<t>> \o q[n]) = ToSet(q[n]) \union {t}
    BY ONLY <1>1, t \in T, ConsMembers
  <2> QED
    BY ONLY <2>1
<1>3. AddHead(q, n, t) = [q EXCEPT ![n] = s]
  BY <1>2 DEF AddHead
<1> QED
  BY <1>2, <1>3, LinkSeparate

LEMMA AddTailSeparate ==
    ASSUME NEW T, NEW q \in [QName -> Seq(T)], Separate(q), NEW t \in T,
           ~ Queued(q, t), NEW n \in QName
    PROVE  Linked(T, q, n, t, AddTail(q, n, t))
<1>1. q[n] \in Seq(T) /\ IsInjective(q[n]) /\ t \notin ToSet(q[n])
  BY DEF Separate, Queued
<1>2. PICK s \in Seq(T) : /\ s = Append(q[n], t)
                          /\ IsInjective(s)
                          /\ ToSet(s) = ToSet(q[n]) \union {t}
  <2>1. /\ Append(q[n], t) \in Seq(T)
        /\ IsInjective(Append(q[n], t))
        /\ ToSet(Append(q[n], t)) = ToSet(q[n]) \union {t}
    BY ONLY <1>1, t \in T, AppendMembers
  <2> QED
    BY ONLY <2>1
<1>3. AddTail(q, n, t) = [q EXCEPT ![n] = s]
  BY <1>2 DEF AddTail
<1> QED
  BY <1>2, <1>3, LinkSeparate

LEMMA AddByPriSeparate ==
    ASSUME NEW T, NEW q \in [QName -> Seq(T)], Separate(q), NEW t \in T,
           ~ Queued(q, t), NEW n \in QName, NEW i
    PROVE  Linked(T, q, n, t, AddByPri(q, n, t, i))
<1>1. q[n] \in Seq(T) /\ IsInjective(q[n]) /\ t \notin ToSet(q[n])
  BY DEF Separate, Queued
<1>2. PICK places :
          places = {j \in DOMAIN q[n] : i[q[n][j]].pri >= i[t].pri}
                       \union {Len(q[n]) + 1}
  OBVIOUS
<1>3. Len(q[n]) \in Nat /\ DOMAIN q[n] = 1 .. Len(q[n])
  BY <1>1, SequenceMembers
<1>4. /\ places \subseteq 1 .. Len(q[n]) + 1
      /\ places \in SUBSET Nat
      /\ places # {}
  BY <1>2, <1>3
<1>5. PICK k \in 1 .. Len(q[n]) + 1 : k = Min(places)
  BY <1>4, MinIsMember
<1>6. PICK s \in Seq(T) : /\ s = InsertAt(q[n], k, t)
                          /\ IsInjective(s)
                          /\ ToSet(s) = ToSet(q[n]) \union {t}
  BY <1>1, InsertAtProperties
<1>7. AddByPri(q, n, t, i) = [q EXCEPT ![n] = s]
  BY <1>2, <1>5, <1>6 DEF AddByPri
<1> QED
  BY <1>6, <1>7, LinkSeparate
-----------------------------------------------------------------------------
\* The share of the slice consumed, in NiceScale parts.
LEMMA ShareBounds ==
    ASSUME NEW used \in Nat, NEW grant \in Nat, grant > 0, used <= grant,
           NEW k \in Nat
    PROVE  /\ (used * k) \div grant \in 0 .. k
           /\ (grant * k) \div grant = k
OBVIOUS

\* task_schedinfo_modify() on a slice within its grant: no division by zero,
\* no wrap, and a task that used everything gets the most there is.
LEMMA ReassessWithinGrant ==
    ASSUME NEW i \in SchedInfo, WithinGrant(i)
    PROVE  /\ Reassess(i) \in SchedInfo
           /\ WithinGrant(Reassess(i))
           /\ i.slice = 0 => Reassess(i).sliceInit = MaxGrant
<1>1. /\ i.slice \in Nat /\ i.sliceInit \in Nat
      /\ i.pri \in Int /\ i.priInit \in Int
      /\ i.slice <= i.sliceInit /\ i.sliceInit > 0
  BY DEF SchedInfo, WithinGrant
<1>2. /\ SliceBase \in Nat \ {0} /\ SliceStep \in Nat
      /\ NiceScale \in Nat /\ NiceBias \in Int
  BY SliceAssumption
<1>3. Nice(i) \in 0 .. NiceScale
  <2>1. i.sliceInit - i.slice \in Nat /\ i.sliceInit - i.slice <= i.sliceInit
    BY <1>1
  <2> QED
    BY <1>1, <1>2, <2>1, ShareBounds DEF Nice
<1>4. i.slice = 0 => Nice(i) = NiceScale
  <2>1. SUFFICES ASSUME i.slice = 0 PROVE Nice(i) = NiceScale
    OBVIOUS
  <2>2. i.sliceInit - i.slice = i.sliceInit
    BY <1>1, <2>1
  <2>3. (i.sliceInit * NiceScale) \div i.sliceInit = NiceScale
    BY <1>1, <1>2, ShareBounds
  <2> QED
    BY <2>2, <2>3 DEF Nice
<1>5. PICK n \in 0 .. NiceScale : n = Nice(i)
  BY <1>3
<1>6. PICK g : g = SliceBase + SliceStep * n
  OBVIOUS
<1>7. g \in Nat /\ g > 0 /\ g <= MaxGrant
  <2>1. n \in Nat /\ n <= NiceScale
    BY <1>2
  <2>2. SliceStep * n \in Nat /\ SliceStep * n <= SliceStep * NiceScale
    BY <1>2, <2>1
  <2> QED
    BY <1>2, <1>6, <2>2 DEF MaxGrant
<1>8. Reassess(i) = [i EXCEPT !.pri = i.priInit + n - NiceBias,
                              !.slice = g, !.sliceInit = g]
  BY <1>5, <1>6 DEF Reassess
<1>9. i.priInit + n - NiceBias \in Int
  BY <1>1, <1>2
<1>10. Reassess(i) \in SchedInfo
  BY <1>7, <1>8, <1>9 DEF SchedInfo
<1>11. Reassess(i).slice = g /\ Reassess(i).sliceInit = g
  BY <1>8 DEF SchedInfo
<1>12. WithinGrant(Reassess(i))
  BY <1>7, <1>11 DEF WithinGrant
<1>13. i.slice = 0 => Reassess(i).sliceInit = MaxGrant
  BY <1>4, <1>5, <1>6, <1>11 DEF MaxGrant
<1> QED
  BY <1>10, <1>12, <1>13

\* getnexttask() always finds a task, because task 0 is ready, and the lists
\* it leaves behind are as good as before.
LEMMA PickLists ==
    ASSUME NEW q, ListInv(q)
    PROVE  /\ ~ NothingToPick(q)
           /\ Picked(q) \in Task
           /\ ListInv(PickQueue(q))
           /\ PickQueue(q)["wait"] = q["wait"]
           /\ EpochOver(q) => \A t \in Task : pc[t] \notin KtLabel \ {"kt_insert"}
<1>1. /\ q \in [QName -> Seq(Task)]
      /\ Separate(q)
      /\ Idle \in ToSet(q["running"]) \union ToSet(q["backup"])
  BY DEF ListInv
<1>2. CASE q["running"] # <<>>
  <2>1. PickQueue(q) = q /\ ~ EpochOver(q)
    BY <1>2 DEF PickQueue, EpochOver
  <2>2. Head(q["running"]) \in Task
    BY <1>1, <1>2, HeadTailProperties DEF QName
  <2> QED
    BY <1>2, <2>1, <2>2 DEF NothingToPick, Picked
<1>3. CASE q["running"] = <<>>
  <2> DEFINE p == PickQueue(q)
  <2>1. p = [q EXCEPT !["running"] = q["backup"], !["backup"] = <<>>]
    BY <1>3 DEF PickQueue, EpochOver
  <2>2. /\ p \in [QName -> Seq(Task)]
        /\ p["running"] = q["backup"] /\ p["backup"] = <<>>
        /\ p["wait"] = q["wait"] /\ p["exit"] = q["exit"]
    BY <1>1, <2>1 DEF QName
  <2> HIDE DEF p
  <2>3. ToSet(<<>>) = {}
    BY DEF ToSet
  <2>4. IsInjective(<<>>)
    BY DEF IsInjective
  <2>5. Separate(p)
    BY <1>1, <2>2, <2>3, <2>4 DEF Separate, QName
  <2>6. Idle \in ToSet(p["running"])
    BY <1>1, <1>3, <2>2, <2>3
  <2>7. p["running"] # <<>>
    BY <2>3, <2>6
  <2>8. Head(p["running"]) \in Task
    BY <2>2, <2>7, HeadTailProperties DEF QName
  <2>9. \A t : Queued(p, t) <=> Queued(q, t)
    BY <1>3, <2>2, <2>3 DEF Queued, QName
  <2>10. \A t \in Task : pc[t] \notin KtLabel \ {"kt_insert"}
    BY <1>3, <2>3 DEF ListInv
  <2>11. ListInv(p)
    BY <2>2, <2>3, <2>5, <2>6, <2>9, <2>10 DEF ListInv
  <2> QED
    BY <2>2, <2>7, <2>8, <2>10, <2>11 DEF p, NothingToPick, Picked
<1> QED
  BY <1>2, <1>3

\* At the end of an epoch it re-evaluates the tasks in task_wait.
LEMMA PickSlices ==
    ASSUME NEW q, ListInv(q), NEW i, InfoInv(i)
    PROVE  InfoInv(PickInfo(q, i))
<1> DEFINE r == PickInfo(q, i)
<1>1. CASE ~ EpochOver(q)
  <2>1. r = i
    BY <1>1 DEF PickInfo, InfoInv
  <2> QED
    BY <2>1
<1>2. CASE EpochOver(q)
  <2>1. \A t \in Task : pc[t] \notin KtLabel \ {"kt_insert"}
    BY <1>2, PickLists
  <2>2. ASSUME NEW t \in Task
        PROVE  /\ r[t] \in SchedInfo
               /\ desc[t] = "ready" => WithinGrant(r[t])
    <3>1. i[t] \in SchedInfo /\ (desc[t] = "ready" => WithinGrant(i[t]))
      BY DEF InfoInv
    <3>2. CASE t \in ToSet(q["wait"])
      <4>1. desc[t] = "ready"
        BY <3>2 DEF ListInv, Queued, QName
      <4>2. r[t] = Reassess(i[t])
        BY <1>2, <3>2 DEF PickInfo
      <4> QED
        BY <3>1, <4>1, <4>2, ReassessWithinGrant
    <3>3. CASE t \notin ToSet(q["wait"])
      <4>1. r[t] = i[t]
        BY <3>3 DEF PickInfo
      <4> QED
        BY <3>1, <4>1
    <3> QED
      BY <3>2, <3>3
  <2>3. r \in [Task -> SchedInfo]
    BY <2>2 DEF PickInfo
  <2> QED
    BY <2>1, <2>2, <2>3 DEF InfoInv, KtLabel
<1> QED
  BY <1>1, <1>2

\* switch_to() to a task: either its context is good or the machine stops.
LEMMA BadContextFate ==
    ASSUME NEW t \in Task, LocalInv
    PROVE  BadContext(t) \in Fates /\ (BadContext(t) = "ok" => desc[t] = "ready")
BY DEF BadContext, LocalInv, Fates

\* The end of an interrupt, whatever it has done to the lists.
LEMMA InterruptReturnInv ==
    ASSUME CpuInv, LocalInv, fate = "ok",
           NEW q, NEW i, ListInv(q), InfoInv(i), SleepInv(q, wlist'),
           NEW r \in BOOLEAN, InterruptReturn(q, i, r)
    PROVE  /\ ListInv(queue')
           /\ InfoInv(info')
           /\ SleepInv(queue', wlist')
           /\ cpu' \in Task /\ fate' \in Fates
           /\ fate' = "ok" => desc[cpu'] = "ready"
<1>1. CASE ~ r
  BY <1>1 DEF InterruptReturn, CpuInv
<1>2. CASE r
  <2>1. ~ NothingToPick(q) /\ Picked(q) \in Task /\ ListInv(PickQueue(q))
        /\ PickQueue(q)["wait"] = q["wait"]
    BY PickLists
  <2>2. /\ queue' = PickQueue(q)
        /\ info' = PickInfo(q, i)
        /\ cpu' = Picked(q)
        /\ fate' = IF Picked(q) = cpu THEN fate ELSE BadContext(Picked(q))
    BY <1>2, <2>1 DEF InterruptReturn
  <2>3. InfoInv(info')
    BY <2>2, PickSlices
  <2>4. SleepInv(queue', wlist')
    BY <2>1, <2>2 DEF SleepInv
  <2>5. fate' \in Fates /\ (fate' = "ok" => desc[cpu'] = "ready")
    BY <2>1, <2>2, BadContextFate DEF CpuInv
  <2> QED
    BY <2>1, <2>2, <2>3, <2>4, <2>5
<1> QED
  BY <1>1, <1>2
-----------------------------------------------------------------------------
(* What an action leaves alone.                                            *)

LEMMA ListFrame ==
    ASSUME ListInv(queue'), UNCHANGED <<desc, pc, newtask, reap>>
    PROVE  ListInv(queue)'
BY DEF ListInv

LEMMA InfoFrame ==
    ASSUME InfoInv(info'), UNCHANGED <<desc, pc, newtask>>
    PROVE  InfoInv(info)'
BY DEF InfoInv

LEMMA SleepFrame ==
    ASSUME SleepInv(queue', wlist'), UNCHANGED <<pc, wqOf>>
    PROVE  SleepInv(queue, wlist)'
BY DEF SleepInv

LEMMA LocalFrame ==
    ASSUME LocalInv, UNCHANGED <<desc, pc, locals>>
    PROVE  LocalInv'
BY DEF LocalInv, locals

LEMMA WaitFrame ==
    ASSUME WaitInv, UNCHANGED <<pc, wqOf>>,
           timeout' \in [Task -> Nat \union {INFINIT}],
           reason' \in [Task -> {"timeout", "wakeup"}]
    PROVE  WaitInv'
BY DEF WaitInv

\* A failed assertion stops the machine and changes nothing else.
LEMMA FailInv ==
    ASSUME IInv, NEW f \in Fates \ {"ok"}, Fail(f)
    PROVE  IInv'
<1>1. /\ UNCHANGED <<queue, info, desc, cpu, pc, next, newtask, reap>>
      /\ UNCHANGED <<wlist, wqOf, timeout, reason>>
      /\ fate' = f
  BY DEF Fail, lists, locals, waits
<1>2. ListInv(queue)' /\ InfoInv(info)' /\ SleepInv(queue, wlist)'
  BY <1>1, ListFrame, InfoFrame, SleepFrame DEF IInv
<1>3. LocalInv' /\ WaitInv'
  BY <1>1, LocalFrame, WaitFrame DEF IInv, locals, WaitInv
<1>4. CpuInv'
  BY <1>1 DEF IInv, CpuInv
<1> QED
  BY <1>2, <1>3, <1>4 DEF IInv
-----------------------------------------------------------------------------
(* Moving a task from the list that holds it to another one.               *)

\* r is q with t moved to list n.
Moved(q, n, t, r) ==
    /\ r \in [QName -> Seq(Task)]
    /\ Separate(r)
    /\ t \in ToSet(r[n])
    /\ \A m \in QName : ToSet(r[m]) \ {t} = ToSet(q[m]) \ {t}
    /\ \A m \in QName \ {n} : t \notin ToSet(r[m])
    /\ \A x : Queued(r, x) <=> (Queued(q, x) \/ x = t)

LEMMA MoveSets ==
    ASSUME NEW q, ListInv(q), NEW t \in Task, NEW n \in QName
    PROVE  /\ Moved(q, n, t, AddHead(Unlink(q, t), n, t))
           /\ Moved(q, n, t, AddTail(Unlink(q, t), n, t))
           /\ \A i : Moved(q, n, t, AddByPri(Unlink(q, t), n, t, i))
<1>1. PICK u : u = Unlink(q, t)
  OBVIOUS
<1>2. /\ u \in [QName -> Seq(Task)]
      /\ Separate(u)
      /\ ~ Queued(u, t)
      /\ \A m \in QName : ToSet(u[m]) = ToSet(q[m]) \ {t}
  <2>1. q \in [QName -> Seq(Task)] /\ Separate(q)
    BY DEF ListInv
  <2>2. /\ Unlink(q, t) \in [QName -> Seq(Task)]
        /\ Separate(Unlink(q, t))
        /\ ~ Queued(Unlink(q, t), t)
        /\ \A n1 \in QName : ToSet(Unlink(q, t)[n1]) = ToSet(q[n1]) \ {t}
    BY ONLY <2>1, UnlinkSeparate, ZenonT(30)
  <2> QED
    BY ONLY <1>1, <2>2, ZenonT(30)
<1>3. ASSUME NEW r, Linked(Task, u, n, t, r) PROVE Moved(q, n, t, r)
  <2>1. \A m \in QName : ToSet(r[m]) \ {t} = ToSet(q[m]) \ {t}
    BY <1>2, <1>3 DEF Linked
  <2>2. \A m \in QName \ {n} : t \notin ToSet(r[m])
    BY <1>2, <1>3 DEF Linked
  <2>3. \A x : Queued(r, x) <=> (Queued(q, x) \/ x = t)
    BY <1>2, <1>3 DEF Linked, Queued
  <2> QED
    BY <1>3, <2>1, <2>2, <2>3 DEF Linked, Moved
<1>4. Linked(Task, u, n, t, AddHead(u, n, t))
  BY <1>2, AddHeadSeparate
<1>5. Linked(Task, u, n, t, AddTail(u, n, t))
  BY <1>2, AddTailSeparate
<1>6. ASSUME NEW i PROVE Linked(Task, u, n, t, AddByPri(u, n, t, i))
  BY <1>2, AddByPriSeparate
<1> QED
  BY <1>1, <1>3, <1>4, <1>5, <1>6

\* A ready task goes to task_running or task_backup.
LEMMA MoveToReady ==
    ASSUME NEW q, ListInv(q), NEW t \in Task, Queued(q, t),
           NEW n \in {"running", "backup"},
           n = "running" \/ (LocalInv /\ desc[t] = "ready"), NEW i
    PROVE  ListInv(AddByPri(Unlink(q, t), n, t, i))
<1>1. PICK r : r = AddByPri(Unlink(q, t), n, t, i)
  OBVIOUS
<1>2. n \in QName
  BY DEF QName
<1>3. Moved(q, n, t, r)
  BY <1>1, <1>2, MoveSets
<1>4. r \in [QName -> Seq(Task)] /\ Separate(r)
  BY <1>3 DEF Moved
<1>5. \A x : Queued(r, x) <=> Queued(q, x)
  BY <1>3 DEF Moved
<1>6. Idle \in ToSet(r["running"]) \union ToSet(r["backup"])
  BY <1>2, <1>3 DEF Moved, ListInv, QName
<1>7. ASSUME NEW x \in Task, desc[x] = "new",
             NEW m \in {"backup", "wait", "exit"}
      PROVE  x \notin ToSet(r[m])
  BY <1>2, <1>3, <1>7 DEF Moved, ListInv, QName
<1>8. ASSUME NEW x \in Task, pc[x] \in KtLabel \ {"kt_insert"}
      PROVE  newtask[x] \in ToSet(r["running"])
  <2>1. newtask[x] \in ToSet(q["running"])
    BY <1>8 DEF ListInv
  <2>2. n = "running" \/ newtask[x] # t
    BY <1>8 DEF LocalInv
  <2> QED
    BY <1>3, <2>1, <2>2 DEF Moved, QName
<1>9. ASSUME NEW x \in ToSet(r["exit"]) PROVE pc[x] \in ExitLabel
  BY <1>2, <1>3 DEF Moved, ListInv, QName
<1>10. ListInv(r)
  BY <1>4, <1>5, <1>6, <1>7, <1>8, <1>9 DEF ListInv
<1> QED
  BY <1>1, <1>10
-----------------------------------------------------------------------------
(* The interrupts.                                                         *)

\* Leaving the wait queue, wherever t hangs.
LEMMA LeaveWaitQueue ==
    ASSUME NEW q, NEW r, NEW wl, NEW wm, NEW t, SleepInv(q, wl),
           ToSet(r["wait"]) \subseteq ToSet(q["wait"]) \ {t},
           wm = [w \in WaitQueues |-> RemoveFirst(wl[w], t)]
    PROVE  SleepInv(r, wm)
<1>1. ASSUME NEW w \in WaitQueues
      PROVE  /\ wm[w] \in Seq(Task)
             /\ IsInjective(wm[w])
             /\ ToSet(wm[w]) = ToSet(wl[w]) \ {t}
  <2>1. wl[w] \in Seq(Task) /\ IsInjective(wl[w])
    BY DEF SleepInv
  <2> QED
    BY <2>1, RemoveFirstProperties
<1>2. wm \in [WaitQueues -> Seq(Task)]
  BY <1>1
<1>3. \A v, w \in WaitQueues : v # w => ToSet(wm[v]) \cap ToSet(wm[w]) = {}
  BY <1>1 DEF SleepInv
<1>4. ASSUME NEW x \in ToSet(r["wait"])
      PROVE  \/ pc[x] \in {"wait_set", "wait_link"}
             \/ wqOf[x] \in WaitQueues /\ x \in ToSet(wm[wqOf[x]])
  <2>1. x # t /\ x \in ToSet(q["wait"])
    OBVIOUS
  <2>2. CASE x \in ToSet(wl[wqOf[x]]) /\ wqOf[x] \in WaitQueues
    BY <2>1, <2>2, <1>1
  <2> QED
    BY <2>1, <2>2 DEF SleepInv
<1> QED
  BY <1>1, <1>2, <1>3, <1>4 DEF SleepInv

LEMMA WakeInterruptStep ==
    ASSUME IInv, NEW w \in WaitQueues, WakeInterrupt(w)
    PROVE  IInv'
<1>1. fate = "ok" /\ wlist[w] # <<>> /\ WakeFirst(w)
  BY DEF WakeInterrupt
<1>2. PICK t \in Task : t = FirstWaiter(w)
  BY <1>1, HeadTailProperties DEF IInv, SleepInv, FirstWaiter
<1>3. CASE ~ Wakeable(t)
  BY <1>1, <1>2, <1>3, FailInv DEF WakeFirst, Fates
<1>4. CASE Wakeable(t)
  <2>1. /\ WakeupWaiter(t, "wakeup")
        /\ InterruptReturn(Woken(t), info, TRUE)
        /\ UNCHANGED <<desc, pc, locals>>
    BY <1>1, <1>2, <1>4 DEF WakeFirst
  <2>2. Queued(queue, t)
    BY <1>4 DEF Wakeable
  <2>3. ListInv(Woken(t))
    BY <2>2, MoveToReady DEF IInv, Woken
  <2>4. Moved(queue, "running", t, Woken(t))
    BY MoveSets DEF IInv, Woken, QName
  <2>5. ToSet(Woken(t)["wait"]) \subseteq ToSet(queue["wait"]) \ {t}
    BY <2>4 DEF Moved, QName
  <2>6. SleepInv(Woken(t), wlist')
    BY <2>1, <2>5, LeaveWaitQueue DEF IInv, WakeupWaiter
  <2>7. /\ ListInv(queue')
        /\ InfoInv(info')
        /\ SleepInv(queue', wlist')
        /\ cpu' \in Task /\ fate' \in Fates
        /\ fate' = "ok" => desc[cpu'] = "ready"
    BY <1>1, <2>1, <2>3, <2>6, InterruptReturnInv DEF IInv
  <2>8. ListInv(queue)' /\ InfoInv(info)' /\ SleepInv(queue, wlist)'
    BY <2>1, <2>7, ListFrame, InfoFrame, SleepFrame DEF locals, WakeupWaiter
  <2>9. CpuInv'
    BY <2>1, <2>7 DEF CpuInv
  <2>10. LocalInv'
    BY <2>1, LocalFrame DEF IInv
  <2>11. WaitInv'
    BY <2>1, WaitFrame DEF IInv, WaitInv, WakeupWaiter
  <2> QED
    BY <2>8, <2>9, <2>10, <2>11 DEF IInv
<1> QED
  BY <1>3, <1>4

\* The current task pays: its slice goes down by one, or starts again.
LEMMA TickSlices ==
    ASSUME IInv, fate = "ok"
    PROVE  InfoInv(TickInfo)
<1> DEFINE r == TickInfo
<1>1. /\ cpu \in Task /\ desc[cpu] = "ready"
      /\ info \in [Task -> SchedInfo]
      /\ WithinGrant(info[cpu]) /\ info[cpu] \in SchedInfo
  BY DEF IInv, CpuInv, InfoInv
<1>2. PICK c : c = Charged(info[cpu])
  OBVIOUS
<1>3. r = [info EXCEPT ![cpu] = c]
  BY <1>2 DEF TickInfo
<1>4. /\ c \in SchedInfo /\ WithinGrant(c)
      /\ c.sliceInit = IF Spent THEN MaxGrant ELSE info[cpu].sliceInit
  <2>1. CASE Spent
    BY <1>1, <1>2, <2>1, ReassessWithinGrant DEF Spent, Charged
  <2>2. CASE ~ Spent
    BY <1>1, <1>2, <2>2 DEF Spent, Charged, SchedInfo, WithinGrant
  <2> QED
    BY <2>1, <2>2
<1>5. r \in [Task -> SchedInfo]
  BY <1>1, <1>3, <1>4
<1>6. r[cpu] = c /\ \A x \in Task \ {cpu} : r[x] = info[x]
  BY <1>1, <1>3
<1>7. ASSUME NEW x \in Task, desc[x] = "ready" PROVE WithinGrant(r[x])
  BY <1>4, <1>6, <1>7 DEF IInv, InfoInv
<1>8. ASSUME NEW x \in Task, pc[x] \in KtLabel
      PROVE  newtask[x] \in Task /\ newtask[x] # cpu
  BY <1>1, <1>8 DEF IInv, LocalInv, Task
<1>9. ASSUME NEW x \in Task, pc[x] = "kt_slice_init"
      PROVE  r[newtask[x]].slice <= r[x].sliceInit
  <2>1. pc[x] \in KtLabel
    BY <1>9 DEF KtLabel
  <2>2. info[newtask[x]].slice <= info[x].sliceInit
    BY <1>9 DEF IInv, InfoInv
  <2>3. r[newtask[x]] = info[newtask[x]]
    BY <1>6, <1>8, <2>1
  <2>4. CASE x # cpu
    BY <1>6, <2>2, <2>3, <2>4
  <2>5. CASE x = cpu /\ ~ Spent
    BY <1>4, <1>6, <2>2, <2>3, <2>5
  <2>6. CASE x = cpu /\ Spent
    <3>1. info[x].sliceInit <= MaxGrant
      BY <1>1, <2>6 DEF WithinGrant
    <3>2. r[x].sliceInit = MaxGrant
      BY <1>4, <1>6, <2>6
    <3>3. /\ info[newtask[x]].slice \in Int
          /\ info[x].sliceInit \in Int /\ MaxGrant \in Int
      BY <1>1, <1>8, <2>1, SliceAssumption DEF SchedInfo, MaxGrant
    <3> QED
      BY <2>2, <2>3, <3>1, <3>2, <3>3
  <2> QED
    BY <2>4, <2>5, <2>6
<1>10. ASSUME NEW x \in Task, pc[x] = "kt_context"
       PROVE  WithinGrant(r[newtask[x]])
  BY <1>6, <1>8, <1>10 DEF IInv, InfoInv, KtLabel
<1> QED
  BY <1>5, <1>7, <1>9, <1>10 DEF InfoInv

LEMMA TickStep ==
    ASSUME IInv, Tick
    PROVE  IInv'
<1>1. fate = "ok" /\ cpu \in Task /\ desc[cpu] = "ready"
  BY DEF Tick, IInv, CpuInv
<1>2. CASE Spent /\ ~ Queued(queue, cpu)
  BY <1>2, FailInv DEF Tick, Fates
<1>3. CASE /\ ~ (Spent /\ ~ Queued(queue, cpu))
           /\ \E t \in Counting : timeout[t] = 0
  <2>1. PICK t \in Counting :
            Fail(IF Wakeable(t) THEN "walk_left_list" ELSE "not_in_list")
    BY <1>3 DEF Tick
  <2> QED
    BY <2>1, FailInv DEF Fates
<1>4. CASE /\ ~ (Spent /\ ~ Queued(queue, cpu))
           /\ ~ \E t \in Counting : timeout[t] = 0
  <2>1. /\ timeout' = [t \in Task |-> IF t \in Counting
                                      THEN timeout[t] - 1 ELSE timeout[t]]
        /\ InterruptReturn(TickQueue, TickInfo, Spent)
        /\ UNCHANGED <<desc, pc, locals, wlist, wqOf, reason>>
    BY <1>4 DEF Tick
  <2>2. ListInv(TickQueue) /\ ToSet(TickQueue["wait"]) \subseteq ToSet(queue["wait"])
    <3>1. CASE Spent
      <4>1. TickQueue = AddByPri(Unlink(queue, cpu), "backup", cpu, TickInfo)
        BY <3>1 DEF TickQueue
      <4>2. Moved(queue, "backup", cpu, TickQueue)
        BY <1>1, <4>1, MoveSets DEF IInv, QName
      <4>3. ListInv(TickQueue)
        BY <1>1, <1>4, <3>1, <4>1, MoveToReady DEF IInv
      <4> QED
        BY <4>2, <4>3 DEF Moved, QName
    <3>2. CASE ~ Spent
      BY <3>2 DEF TickQueue, IInv
    <3> QED
      BY <3>1, <3>2
  <2>3. InfoInv(TickInfo)
    BY <1>1, TickSlices
  <2>4. SleepInv(TickQueue, wlist')
    BY <2>1, <2>2 DEF IInv, SleepInv
  <2>5. Spent \in BOOLEAN
    BY DEF Spent
  <2>6. /\ ListInv(queue')
        /\ InfoInv(info')
        /\ SleepInv(queue', wlist')
        /\ cpu' \in Task /\ fate' \in Fates
        /\ fate' = "ok" => desc[cpu'] = "ready"
    BY <1>1, <2>1, <2>2, <2>3, <2>4, <2>5, InterruptReturnInv DEF IInv
  <2>7. ListInv(queue)' /\ InfoInv(info)' /\ SleepInv(queue, wlist)'
    BY <2>1, <2>6, ListFrame, InfoFrame, SleepFrame DEF locals
  <2>8. CpuInv'
    BY <2>1, <2>6 DEF CpuInv
  <2>9. LocalInv'
    BY <2>1, LocalFrame DEF IInv
  <2>10. timeout' \in [Task -> Nat \union {INFINIT}]
    <3>1. ASSUME NEW t \in Task PROVE timeout'[t] \in Nat \union {INFINIT}
      <4>1. timeout[t] \in Nat \union {INFINIT}
        BY DEF IInv, WaitInv
      <4>2. CASE t \in Counting
        BY <1>4, <2>1, <4>1, <4>2 DEF Counting
      <4>3. CASE t \notin Counting
        BY <2>1, <4>1, <4>3
      <4> QED
        BY <4>2, <4>3
    <3> QED
      BY <2>1, <3>1
  <2>11. WaitInv'
    BY <2>1, <2>10, WaitFrame DEF IInv, WaitInv
  <2> QED
    BY <2>7, <2>8, <2>9, <2>11 DEF IInv
<1> QED
  BY <1>2, <1>3, <1>4
-----------------------------------------------------------------------------
(* Task 0: the end of boot, and idleloop().                                *)

LEMMA BootDoneStep ==
    ASSUME IInv, BootDone
    PROVE  IInv'
<1>1. /\ pc[Idle] = "user" /\ pc' = [pc EXCEPT ![Idle] = "idle"]
      /\ UNCHANGED <<queue, info, desc, cpu, next, newtask, reap>>
      /\ UNCHANGED <<wlist, wqOf, timeout, reason, fate>>
  BY DEF BootDone, Goto, lists, locals, waits
<1>2. Idle \in Task /\ pc \in [Task -> Label]
  BY DEF Task, IInv, LocalInv
<1>3. pc'[Idle] = "idle" /\ \A x \in Task \ {Idle} : pc'[x] = pc[x]
  BY <1>1, <1>2
<1>4. ListInv(queue)'
  BY <1>1, <1>2, <1>3 DEF IInv, ListInv, KtLabel, ExitLabel
<1>5. InfoInv(info)'
  BY <1>1, <1>2, <1>3 DEF IInv, InfoInv
<1>6. SleepInv(queue, wlist)'
  BY <1>1, <1>2, <1>3 DEF IInv, SleepInv
<1>7. CpuInv'
  BY <1>1 DEF IInv, CpuInv
<1>8. LocalInv'
  BY <1>1, <1>2, <1>3 DEF IInv, LocalInv, KtLabel, ExitLabel, Label
<1>9. WaitInv'
  BY <1>1, <1>2, <1>3 DEF IInv, WaitInv
<1> QED
  BY <1>4, <1>5, <1>6, <1>7, <1>8, <1>9 DEF IInv

LEMMA IdleWalkStep ==
    ASSUME IInv, IdleWalk
    PROVE  IInv'
<1>1. PICK l \in {"spin", "reap_unlink"} :
          /\ l = IF NoneExited THEN "spin" ELSE "reap_unlink"
          /\ pc[Idle] = "idle" /\ pc' = [pc EXCEPT ![Idle] = l]
          /\ reap' = <<FirstOf(queue["exit"]), SecondOf(queue["exit"])>>
          /\ UNCHANGED <<queue, info, desc, cpu, next, newtask>>
          /\ UNCHANGED <<wlist, wqOf, timeout, reason, fate>>
  BY DEF IdleWalk, Goto, lists, waits
<1>2. Idle \in Task /\ pc \in [Task -> Label]
  BY DEF Task, IInv, LocalInv
<1>3. pc'[Idle] = l /\ \A x \in Task \ {Idle} : pc'[x] = pc[x]
  BY <1>1, <1>2
<1>4. PICK s \in Seq(Task) : s = queue["exit"]
  BY DEF IInv, ListInv, QName
<1>5. FirstOf(s) \in Task \union {NIL} /\ SecondOf(s) \in Task \union {NIL}
  <2>1. s # <<>> => Head(s) \in Task
    BY HeadTailProperties
  <2>2. ~ (Len(s) < 2) => s[2] \in Task
    BY SequenceMembers
  <2> QED
    BY <2>1, <2>2 DEF FirstOf, SecondOf
<1>6. l = "reap_unlink" =>
          /\ reap'[1] \in Threads
          /\ desc[reap'[1]] = "ready"
          /\ pc[reap'[1]] \in ExitLabel
  <2>1. SUFFICES ASSUME l = "reap_unlink"
                 PROVE  /\ reap'[1] \in Threads
                        /\ desc[reap'[1]] = "ready"
                        /\ pc[reap'[1]] \in ExitLabel
    OBVIOUS
  <2>2. s # <<>>
    BY <1>1, <1>4, <2>1 DEF NoneExited
  <2>3. PICK t : t = Head(s)
    OBVIOUS
  <2>4. t = s[1] /\ 1 \in DOMAIN s
    BY <1>4, <2>2, <2>3
  <2>5. t \in ToSet(queue["exit"])
    BY <1>4, <2>4 DEF ToSet
  <2>6. t \in Task
    BY <2>2, <2>3, HeadTailProperties
  <2>7. t # Idle
    BY <2>5 DEF IInv, ListInv, Separate, QName
  <2>8. desc[t] = "ready" /\ pc[t] \in ExitLabel
    BY <2>5, <2>6 DEF IInv, ListInv, Queued, QName
  <2>9. reap'[1] = t
    BY <1>1, <1>4, <2>2, <2>3 DEF FirstOf
  <2> QED
    BY <2>6, <2>7, <2>8, <2>9 DEF Task
<1>7. ListInv(queue)'
  BY <1>1, <1>2, <1>3 DEF IInv, ListInv, KtLabel, ExitLabel
<1>8. InfoInv(info)'
  BY <1>1, <1>2, <1>3 DEF IInv, InfoInv
<1>9. SleepInv(queue, wlist)'
  BY <1>1, <1>2, <1>3 DEF IInv, SleepInv
<1>10. CpuInv'
  BY <1>1 DEF IInv, CpuInv
<1>11. reap' \in (Task \union {NIL}) \X (Task \union {NIL})
  BY <1>1, <1>4, <1>5
<1>12. pc'[Idle] \in {"reap_unlink", "reap_stack"} =>
           /\ reap'[1] \in Threads
           /\ desc'[reap'[1]] = "ready"
           /\ pc'[reap'[1]] \in ExitLabel
  BY <1>1, <1>2, <1>3, <1>6, SchedAssumption DEF Task
<1>13. LocalInv'
  BY <1>1, <1>2, <1>3, <1>11, <1>12 DEF IInv, LocalInv, KtLabel, Label
<1>14. WaitInv'
  BY <1>1, <1>2, <1>3 DEF IInv, WaitInv
<1> QED
  BY <1>7, <1>8, <1>9, <1>10, <1>13, <1>14 DEF IInv

LEMMA IdleSpinStep ==
    ASSUME IInv, IdleSpin
    PROVE  IInv'
<1>1. /\ pc[Idle] = "spin" /\ pc' = [pc EXCEPT ![Idle] = "idle"]
      /\ info' = [info EXCEPT ![Idle].slice = 0]
      /\ UNCHANGED <<queue, desc, cpu, next, newtask, reap>>
      /\ UNCHANGED <<wlist, wqOf, timeout, reason, fate>>
  BY DEF IdleSpin, Goto, locals, waits
<1>2. Idle \in Task /\ pc \in [Task -> Label]
  BY DEF Task, IInv, LocalInv
<1>3. pc'[Idle] = "idle" /\ \A x \in Task \ {Idle} : pc'[x] = pc[x]
  BY <1>1, <1>2
<1>4. ListInv(queue)'
  BY <1>1, <1>2, <1>3 DEF IInv, ListInv, KtLabel, ExitLabel
<1>5. /\ info \in [Task -> SchedInfo]
      /\ WithinGrant(info[Idle])
  BY <1>2 DEF IInv, InfoInv, LocalInv
<1>6. PICK i : i = [info[Idle] EXCEPT !.slice = 0]
  OBVIOUS
<1>7. i \in SchedInfo /\ WithinGrant(i)
  BY <1>2, <1>5, <1>6 DEF SchedInfo, WithinGrant
<1>8. /\ info' \in [Task -> SchedInfo]
      /\ info'[Idle] = i
      /\ \A x \in Task \ {Idle} : info'[x] = info[x]
  BY <1>1, <1>2, <1>5, <1>6, <1>7
<1>9. \A x \in Task : pc[x] \in KtLabel =>
          newtask[x] \in Task /\ newtask[x] # Idle
  BY SchedAssumption DEF IInv, LocalInv, Task
<1>10. InfoInv(info)'
  BY <1>1, <1>2, <1>3, <1>7, <1>8, <1>9 DEF IInv, InfoInv, KtLabel
<1>11. SleepInv(queue, wlist)'
  BY <1>1, <1>2, <1>3 DEF IInv, SleepInv
<1>12. CpuInv'
  BY <1>1 DEF IInv, CpuInv
<1>13. LocalInv'
  BY <1>1, <1>2, <1>3 DEF IInv, LocalInv, KtLabel, ExitLabel, Label
<1>14. WaitInv'
  BY <1>1, <1>2, <1>3 DEF IInv, WaitInv
<1> QED
  BY <1>4, <1>10, <1>11, <1>12, <1>13, <1>14 DEF IInv

LEMMA ReapUnlinkStep ==
    ASSUME IInv, ReapUnlink
    PROVE  IInv'
<1>1. CASE ~ Queued(queue, reap[1])
  BY <1>1, FailInv DEF ReapUnlink, Fates
<1>2. CASE Queued(queue, reap[1])
  <2>1. /\ pc[Idle] = "reap_unlink"
        /\ pc' = [pc EXCEPT ![Idle] = "reap_stack"]
        /\ queue' = Unlink(queue, reap[1])
        /\ UNCHANGED <<info, desc, cpu, next, newtask, reap>>
        /\ UNCHANGED <<wlist, wqOf, timeout, reason, fate>>
    BY <1>2 DEF ReapUnlink, Goto, locals, waits
  <2>2. Idle \in Task /\ pc \in [Task -> Label]
    BY DEF Task, IInv, LocalInv
  <2>3. pc'[Idle] = "reap_stack" /\ \A x \in Task \ {Idle} : pc'[x] = pc[x]
    BY <2>1, <2>2
  <2>4. PICK t \in Task : /\ t = reap[1] /\ t # Idle
                          /\ desc[t] = "ready" /\ pc[t] \in ExitLabel
    BY <2>1, SchedAssumption DEF IInv, LocalInv, Task
  <2>5. /\ queue' \in [QName -> Seq(Task)]
        /\ Separate(queue')
        /\ ~ Queued(queue', t)
        /\ \A n \in QName : ToSet(queue'[n]) = ToSet(queue[n]) \ {t}
    <3>1. queue \in [QName -> Seq(Task)] /\ Separate(queue)
      BY DEF IInv, ListInv
    <3>2. queue' = Unlink(queue, t)
      BY <2>1, <2>4
    <3> QED
      BY ONLY <3>1, <3>2, UnlinkSeparate
  <2>6. \A x : Queued(queue', x) => Queued(queue, x)
    BY <2>5 DEF Queued
  <2>7. \A x \in Task : pc[x] \in KtLabel => newtask[x] # t
    BY <2>4 DEF IInv, LocalInv
  <2>8. ListInv(queue)'
    <3>1. Idle \in ToSet(queue'["running"]) \union ToSet(queue'["backup"])
      BY <2>4, <2>5 DEF IInv, ListInv, QName
    <3>2. \A x \in Task : Queued(queue', x) => desc'[x] \in {"new", "ready"}
      BY <2>1, <2>6 DEF IInv, ListInv
    <3>3. \A x \in Task : desc'[x] = "new" =>
              \A n \in {"backup", "wait", "exit"} : x \notin ToSet(queue'[n])
      BY <2>1, <2>5 DEF IInv, ListInv, QName
    <3>4. \A x \in Task : pc'[x] = "kt_insert" => ~ Queued(queue', newtask'[x])
      BY <2>1, <2>3, <2>6 DEF IInv, ListInv
    <3>5. \A x \in Task : pc'[x] \in KtLabel \ {"kt_insert"} =>
              newtask'[x] \in ToSet(queue'["running"])
      BY <2>1, <2>3, <2>5, <2>7 DEF IInv, ListInv, KtLabel, QName
    <3>6. \A x \in ToSet(queue'["exit"]) : pc'[x] \in ExitLabel
      BY <2>1, <2>2, <2>3, <2>5 DEF IInv, ListInv, ExitLabel, QName
    <3>7. ~ Queued(queue', reap'[1])
      BY <2>1, <2>4, <2>5
    <3> QED
      BY <2>5, <3>1, <3>2, <3>3, <3>4, <3>5, <3>6, <3>7 DEF ListInv
  <2>9. InfoInv(info)'
    BY <2>1, <2>2, <2>3 DEF IInv, InfoInv
  <2>10. SleepInv(queue, wlist)'
    BY <2>1, <2>2, <2>3, <2>5 DEF IInv, SleepInv, QName
  <2>11. CpuInv'
    BY <2>1 DEF IInv, CpuInv
  <2>12. LocalInv'
    BY <2>1, <2>2, <2>3, <2>4 DEF IInv, LocalInv, KtLabel, ExitLabel, Label
  <2>13. WaitInv'
    BY <2>1, <2>2, <2>3 DEF IInv, WaitInv
  <2> QED
    BY <2>8, <2>9, <2>10, <2>11, <2>12, <2>13 DEF IInv
<1> QED
  BY <1>1, <1>2

LEMMA ReapStackStep ==
    ASSUME IInv, ReapStack
    PROVE  IInv'
<1>1. /\ pc[Idle] = "reap_stack" /\ pc' = [pc EXCEPT ![Idle] = "reap_desc"]
      /\ desc' = [desc EXCEPT ![reap[1]] = "unstacked"]
      /\ cpu = Idle
      /\ UNCHANGED <<queue, info, cpu, next, newtask, reap>>
      /\ UNCHANGED <<wlist, wqOf, timeout, reason, fate>>
  BY DEF ReapStack, Running, Goto, lists, locals, waits
<1>2. Idle \in Task /\ pc \in [Task -> Label]
  BY DEF Task, IInv, LocalInv
<1>3. pc'[Idle] = "reap_desc" /\ \A x \in Task \ {Idle} : pc'[x] = pc[x]
  BY <1>1, <1>2
<1>4. PICK t \in Threads : /\ t = reap[1] /\ t # Idle /\ t \in Task
                           /\ desc[t] = "ready" /\ pc[t] \in ExitLabel
                           /\ ~ Queued(queue, t)
  BY <1>1, SchedAssumption DEF IInv, LocalInv, ListInv, Task
<1>5. /\ desc' \in [Task -> {"free", "new", "ready", "unstacked"}]
      /\ desc'[t] = "unstacked"
      /\ \A x \in Task \ {t} : desc'[x] = desc[x]
  BY <1>1, <1>4 DEF IInv, LocalInv
<1>6. ListInv(queue)'
  BY <1>1, <1>2, <1>3, <1>4, <1>5 DEF IInv, ListInv, KtLabel, ExitLabel
<1>7. InfoInv(info)'
  BY <1>1, <1>2, <1>3, <1>5 DEF IInv, InfoInv
<1>8. SleepInv(queue, wlist)'
  BY <1>1, <1>2, <1>3 DEF IInv, SleepInv
<1>9. CpuInv'
  BY <1>1, <1>2, <1>4, <1>5 DEF IInv, CpuInv
<1>10. \A x \in Task : pc'[x] \in KtLabel =>
           /\ desc'[x] = "ready"
           /\ newtask'[x] \in Threads
           /\ desc'[newtask'[x]] = "new"
  BY <1>1, <1>2, <1>3, <1>4, <1>5 DEF IInv, LocalInv, KtLabel, ExitLabel, Task
<1>11. LocalInv'
  BY <1>1, <1>2, <1>3, <1>4, <1>5, <1>10 DEF IInv, LocalInv, KtLabel, Label
<1>12. WaitInv'
  BY <1>1, <1>2, <1>3 DEF IInv, WaitInv
<1> QED
  BY <1>6, <1>7, <1>8, <1>9, <1>11, <1>12 DEF IInv

LEMMA ReapDescStep ==
    ASSUME IInv, ReapDesc
    PROVE  IInv'
<1>1. /\ pc[Idle] = "reap_desc" /\ pc' = [pc EXCEPT ![Idle] = "reap_pgd"]
      /\ desc' = [desc EXCEPT ![reap[1]] = "free"]
      /\ cpu = Idle
      /\ UNCHANGED <<queue, info, cpu, next, newtask, reap>>
      /\ UNCHANGED <<wlist, wqOf, timeout, reason, fate>>
  BY DEF ReapDesc, Running, Goto, lists, locals, waits
<1>2. Idle \in Task /\ pc \in [Task -> Label]
  BY DEF Task, IInv, LocalInv
<1>3. pc'[Idle] = "reap_pgd" /\ \A x \in Task \ {Idle} : pc'[x] = pc[x]
  BY <1>1, <1>2
<1>4. PICK t \in Threads : /\ t = reap[1] /\ t # Idle /\ t \in Task
                           /\ desc[t] = "unstacked"
  BY <1>1, SchedAssumption DEF IInv, LocalInv, Task
<1>5. /\ desc' \in [Task -> {"free", "new", "ready", "unstacked"}]
      /\ desc'[t] = "free"
      /\ \A x \in Task \ {t} : desc'[x] = desc[x]
  BY <1>1, <1>4 DEF IInv, LocalInv
<1>6. ListInv(queue)'
  BY <1>1, <1>2, <1>3, <1>4, <1>5 DEF IInv, ListInv, KtLabel, ExitLabel
<1>7. InfoInv(info)'
  BY <1>1, <1>2, <1>3, <1>5 DEF IInv, InfoInv
<1>8. SleepInv(queue, wlist)'
  BY <1>1, <1>2, <1>3 DEF IInv, SleepInv
<1>9. CpuInv'
  BY <1>1, <1>2, <1>4, <1>5 DEF IInv, CpuInv
<1>10. \A x \in Task : pc'[x] \in KtLabel =>
           /\ desc'[x] = "ready"
           /\ newtask'[x] \in Threads
           /\ desc'[newtask'[x]] = "new"
  BY <1>1, <1>2, <1>3, <1>4, <1>5 DEF IInv, LocalInv, KtLabel, Task
<1>11. LocalInv'
  BY <1>1, <1>2, <1>3, <1>4, <1>5, <1>10 DEF IInv, LocalInv, KtLabel, Label
<1>12. WaitInv'
  BY <1>1, <1>2, <1>3 DEF IInv, WaitInv
<1> QED
  BY <1>6, <1>7, <1>8, <1>9, <1>11, <1>12 DEF IInv

\* p = pn, pn = pn->next
LEMMA FollowerProperties ==
    ASSUME NEW s \in Seq(Task), NEW t
    PROVE  Follower(s, t) \in Task \union {NIL}
<1>1. PICK i : i = SelectInSeq(s, LAMBDA x : x = t)
  OBVIOUS
<1>2. i \in 0 .. Len(s)
  <2> DEFINE I == {j \in 1 .. Len(s) : s[j] = t}
  <2>1. i = IF I # {} THEN Min(I) ELSE 0
    BY <1>1 DEF SelectInSeq
  <2>2. Len(s) \in Nat /\ I \in SUBSET Nat
    BY SequenceMembers
  <2>3. I # {} => Min(I) \in I
    BY <2>2, MinIsMember
  <2> QED
    BY <2>1, <2>2, <2>3
<1>3. i # 0 /\ i # Len(s) => s[i + 1] \in Task
  BY <1>2, SequenceMembers
<1> QED
  BY <1>1, <1>3 DEF Follower

LEMMA ReapPgdStep ==
    ASSUME IInv, ReapPgd
    PROVE  IInv'
<1>1. CASE fate' # fate
  BY <1>1, FailInv DEF ReapPgd, Fates
<1>2. CASE fate' = fate
  <2>1. PICK l \in {"spin", "reap_unlink"} :
          /\ fate = "ok"
          /\ pc[Idle] = "reap_pgd" /\ pc' = [pc EXCEPT ![Idle] = l]
          /\ \/ l = "spin" /\ reap' = <<NIL, NIL>>
             \/ /\ l = "reap_unlink" /\ reap[2] \in ToSet(queue["exit"])
                /\ reap' = <<reap[2], Follower(queue["exit"], reap[2])>>
          /\ UNCHANGED <<queue, info, desc, cpu, next, newtask>>
          /\ UNCHANGED <<wlist, wqOf, timeout, reason, fate>>
    BY <1>2 DEF ReapPgd, Running, Fail, Goto, lists, waits
  <2>2. Idle \in Task /\ pc \in [Task -> Label]
    BY DEF Task, IInv, LocalInv
  <2>3. pc'[Idle] = l /\ \A x \in Task \ {Idle} : pc'[x] = pc[x]
    BY <2>1, <2>2
  <2>4. queue["exit"] \in Seq(Task)
    BY DEF IInv, ListInv, QName
  <2>5. reap' \in (Task \union {NIL}) \X (Task \union {NIL})
    <3>1. CASE l = "spin"
      BY <2>1, <3>1
    <3>2. CASE l = "reap_unlink"
      <4>1. reap[2] \in Task
        BY <2>1, <2>4, <3>2, SequenceMembers
      <4>2. Follower(queue["exit"], reap[2]) \in Task \union {NIL}
        BY <2>4, FollowerProperties
      <4> QED
        BY <2>1, <3>2, <4>1, <4>2
    <3> QED
      BY <3>1, <3>2
  <2>6. ASSUME l = "reap_unlink"
        PROVE  /\ reap'[1] \in Threads
               /\ desc[reap'[1]] = "ready"
               /\ pc[reap'[1]] \in ExitLabel
    <3>1. PICK t : t = reap[2] /\ t = reap'[1]
      BY <2>1, <2>6
    <3>2. t \in ToSet(queue["exit"]) /\ t \in Task
      BY <2>1, <2>4, <2>6, <3>1, SequenceMembers
    <3>3. t # Idle
      BY <3>2 DEF IInv, ListInv, Separate, QName
    <3>4. desc[t] = "ready" /\ pc[t] \in ExitLabel
      BY <3>2 DEF IInv, ListInv, Queued, QName
    <3> QED
      BY <3>1, <3>2, <3>3, <3>4 DEF Task
  <2>7. ListInv(queue)'
    BY <2>1, <2>2, <2>3 DEF IInv, ListInv, KtLabel, ExitLabel
  <2>8. InfoInv(info)'
    BY <2>1, <2>2, <2>3 DEF IInv, InfoInv
  <2>9. SleepInv(queue, wlist)'
    BY <2>1, <2>2, <2>3 DEF IInv, SleepInv
  <2>10. CpuInv'
    BY <2>1 DEF IInv, CpuInv
  <2>11. pc'[Idle] \in {"reap_unlink", "reap_stack"} =>
           /\ reap'[1] \in Threads
           /\ desc'[reap'[1]] = "ready"
           /\ pc'[reap'[1]] \in ExitLabel
    BY <2>1, <2>2, <2>3, <2>6, SchedAssumption DEF Task
  <2>12. LocalInv'
    BY <2>1, <2>2, <2>3, <2>5, <2>11 DEF IInv, LocalInv, KtLabel, Label
  <2>13. WaitInv'
    BY <2>1, <2>2, <2>3 DEF IInv, WaitInv
  <2> QED
    BY <2>7, <2>8, <2>9, <2>10, <2>12, <2>13 DEF IInv
<1> QED
  BY <1>1, <1>2
-----------------------------------------------------------------------------
(* wait_task() and exit().                                                 *)

\* The current task puts itself into task_wait or task_exit.
LEMMA LeaveReady ==
    ASSUME IInv, NEW t \in Threads, Running(t), pc[t] = "user",
           Queued(queue, t), NEW n \in {"wait", "exit"}, NEW l \in Label,
           (n = "wait" /\ l = "wait_set") \/ (n = "exit" /\ l = "exit_pick"),
           Moved(queue, n, t, queue'), Goto(t, l),
           UNCHANGED <<info, desc, cpu, locals, waits, fate>>
    PROVE  IInv'
<1>1. /\ UNCHANGED <<info, desc, cpu, next, newtask, reap>>
      /\ UNCHANGED <<wlist, wqOf, timeout, reason, fate>>
      /\ pc' = [pc EXCEPT ![t] = l]
  BY DEF Goto, locals, waits
<1>2. /\ t \in Task /\ t # Idle /\ Idle \in Task /\ pc \in [Task -> Label]
      /\ desc[t] = "ready"
  BY SchedAssumption DEF Task, Running, IInv, CpuInv, LocalInv
<1>3. pc'[t] = l /\ \A x \in Task \ {t} : pc'[x] = pc[x]
  BY <1>1, <1>2
<1>4. n \in QName
  BY DEF QName
<1>5. \A x : Queued(queue', x) <=> Queued(queue, x)
  BY DEF Moved
<1>6. \A x \in Task : pc[x] \in KtLabel => newtask[x] # t
  BY <1>2 DEF IInv, LocalInv
<1>7. ListInv(queue)'
  <2>1. queue' \in [QName -> Seq(Task)] /\ Separate(queue')
    BY DEF Moved
  <2>2. Idle \in ToSet(queue'["running"]) \union ToSet(queue'["backup"])
    BY <1>2 DEF IInv, ListInv, Moved, QName
  <2>3. \A x \in Task : Queued(queue', x) => desc'[x] \in {"new", "ready"}
    BY <1>1, <1>5 DEF IInv, ListInv
  <2>4. ASSUME NEW x \in Task, desc'[x] = "new",
               NEW m \in {"backup", "wait", "exit"}
        PROVE  x \notin ToSet(queue'[m])
    <3>1. x # t /\ x \notin ToSet(queue[m])
      BY <1>1, <1>2, <2>4 DEF IInv, ListInv
    <3> QED
      BY <3>1 DEF Moved, QName
  <2>5. \A x \in Task : pc'[x] = "kt_insert" => ~ Queued(queue', newtask'[x])
    BY <1>1, <1>3, <1>5 DEF IInv, ListInv, Label
  <2>6. ASSUME NEW x \in Task, pc'[x] \in KtLabel \ {"kt_insert"}
        PROVE  newtask'[x] \in ToSet(queue'["running"])
    <3>1. x # t /\ pc[x] \in KtLabel \ {"kt_insert"}
      BY <1>3, <2>6 DEF KtLabel
    <3>2. newtask[x] \in ToSet(queue["running"]) /\ newtask[x] # t
      BY <1>6, <3>1 DEF IInv, ListInv
    <3> QED
      BY <1>1, <3>2 DEF Moved, QName
  <2>7. ASSUME NEW x \in ToSet(queue'["exit"]) PROVE pc'[x] \in ExitLabel
    <3>1. CASE x = t
      BY <1>3, <1>4, <3>1 DEF Moved, ExitLabel, QName
    <3>2. CASE x # t
      <4>1. x \in ToSet(queue["exit"]) /\ x \in Task
        BY <2>1, <3>2, SequenceMembers DEF Moved, QName
      <4> QED
        BY <1>3, <3>2, <4>1 DEF IInv, ListInv
    <3> QED
      BY <3>1, <3>2
  <2>8. pc'[Idle] = "reap_stack" => ~ Queued(queue', reap'[1])
    BY <1>1, <1>2, <1>3, <1>5 DEF IInv, ListInv
  <2> QED
    BY <2>1, <2>2, <2>3, <2>4, <2>5, <2>6, <2>7, <2>8 DEF ListInv
<1>8. InfoInv(info)'
  BY <1>1, <1>3 DEF IInv, InfoInv
<1>9. SleepInv(queue, wlist)'
  <2>1. ASSUME NEW x \in ToSet(queue'["wait"])
        PROVE  \/ pc'[x] \in {"wait_set", "wait_link"}
               \/ wqOf[x] \in WaitQueues /\ x \in ToSet(wlist[wqOf[x]])
    <3>1. CASE x = t
      BY <1>3, <1>4, <3>1 DEF Moved, QName
    <3>2. CASE x # t
      <4>1. x \in ToSet(queue["wait"]) /\ x \in Task
        BY <3>2, SequenceMembers DEF Moved, QName
      <4> QED
        BY <1>3, <3>2, <4>1 DEF IInv, SleepInv
    <3> QED
      BY <3>1, <3>2
  <2> QED
    BY <1>1, <2>1 DEF IInv, SleepInv
<1>10. CpuInv'
  BY <1>1 DEF IInv, CpuInv
<1>11. LocalInv'
  BY <1>1, <1>2, <1>3 DEF IInv, LocalInv, KtLabel, ExitLabel
<1>12. WaitInv'
  BY <1>1, <1>3 DEF IInv, WaitInv
<1> QED
  BY <1>7, <1>8, <1>9, <1>10, <1>11, <1>12 DEF IInv

LEMMA WaitEnterStep ==
    ASSUME IInv, NEW t \in Task, WaitEnter(t)
    PROVE  IInv'
<1>1. CASE ~ Queued(queue, t)
  BY <1>1, FailInv DEF WaitEnter, Fates
<1>2. CASE Queued(queue, t)
  <2>1. /\ t \in Threads /\ Running(t) /\ pc[t] = "user"
        /\ queue' = AddTail(Unlink(queue, t), "wait", t)
        /\ Goto(t, "wait_set")
        /\ UNCHANGED <<info, desc, cpu, locals, waits, fate>>
    BY <1>2, SchedAssumption DEF WaitEnter
  <2>2. Moved(queue, "wait", t, queue')
    BY <2>1, MoveSets DEF IInv, QName
  <2>3. "wait_set" \in Label
    BY DEF Label
  <2> QED
    BY <1>2, <2>1, <2>2, <2>3, LeaveReady
<1> QED
  BY <1>1, <1>2

LEMMA ExitStep ==
    ASSUME IInv, NEW t \in Task, Exit(t)
    PROVE  IInv'
<1>1. CASE ~ Queued(queue, t)
  BY <1>1, FailInv DEF Exit, Fates
<1>2. CASE Queued(queue, t)
  <2>1. /\ t \in Threads /\ Running(t) /\ pc[t] = "user"
        /\ queue' = AddHead(Unlink(queue, t), "exit", t)
        /\ Goto(t, "exit_pick")
        /\ UNCHANGED <<info, desc, cpu, locals, waits, fate>>
    BY <1>2, SchedAssumption DEF Exit
  <2>2. Moved(queue, "exit", t, queue')
    BY <2>1, MoveSets DEF IInv, QName
  <2>3. "exit_pick" \in Label
    BY DEF Label
  <2> QED
    BY <1>2, <2>1, <2>2, <2>3, LeaveReady
<1> QED
  BY <1>1, <1>2

LEMMA ExitReturnedStep ==
    ASSUME IInv, NEW t \in Task, ExitReturned(t)
    PROVE  IInv'
BY FailInv DEF ExitReturned, Fates

LEMMA WaitSetStep ==
    ASSUME IInv, NEW t \in Task, NEW w \in WaitQueues,
           NEW d \in Timeouts \union {INFINIT}, WaitSet(t, w, d)
    PROVE  IInv'
<1>1. /\ pc[t] = "wait_set" /\ pc' = [pc EXCEPT ![t] = "wait_link"]
      /\ timeout' = [timeout EXCEPT ![t] = d]
      /\ wqOf' = [wqOf EXCEPT ![t] = w]
      /\ UNCHANGED <<queue, info, desc, cpu, next, newtask, reap>>
      /\ UNCHANGED <<wlist, reason, fate>>
  BY DEF WaitSet, Goto, lists, locals
<1>2. /\ pc \in [Task -> Label]
      /\ wqOf \in [Task -> WaitQueues \union {NIL}]
      /\ timeout \in [Task -> Nat \union {INFINIT}]
      /\ d \in Nat \union {INFINIT}
  BY SchedAssumption DEF IInv, LocalInv, WaitInv
<1>3. pc'[t] = "wait_link" /\ \A x \in Task \ {t} : pc'[x] = pc[x]
  BY <1>1, <1>2
<1>4. wqOf'[t] = w /\ \A x \in Task \ {t} : wqOf'[x] = wqOf[x]
  BY <1>1, <1>2
<1>5. ListInv(queue)'
  BY <1>1, <1>3 DEF IInv, ListInv, KtLabel, ExitLabel
<1>6. InfoInv(info)'
  BY <1>1, <1>3 DEF IInv, InfoInv
<1>7. SleepInv(queue, wlist)'
  <2>1. ASSUME NEW x \in ToSet(queue["wait"])
        PROVE  \/ pc'[x] \in {"wait_set", "wait_link"}
               \/ wqOf'[x] \in WaitQueues /\ x \in ToSet(wlist[wqOf'[x]])
    <3>1. x \in Task
      BY SequenceMembers DEF IInv, ListInv, QName
    <3> QED
      BY <1>3, <1>4, <3>1 DEF IInv, SleepInv
  <2> QED
    BY <1>1, <2>1 DEF IInv, SleepInv
<1>8. CpuInv'
  BY <1>1 DEF IInv, CpuInv
<1>9. LocalInv'
  BY <1>1, <1>2, <1>3 DEF IInv, LocalInv, KtLabel, ExitLabel, Label
<1>10. WaitInv'
  BY <1>1, <1>2, <1>3, <1>4 DEF IInv, WaitInv
<1> QED
  BY <1>5, <1>6, <1>7, <1>8, <1>9, <1>10 DEF IInv

LEMMA WaitLinkStep ==
    ASSUME IInv, NEW t \in Task, WaitLink(t)
    PROVE  IInv'
<1>1. CASE \E w \in WaitQueues : t \in ToSet(wlist[w])
  BY <1>1, FailInv DEF WaitLink, Fates
<1>2. CASE ~ \E w \in WaitQueues : t \in ToSet(wlist[w])
  <2>1. /\ pc[t] = "wait_link" /\ pc' = [pc EXCEPT ![t] = "wait_pick"]
        /\ wlist' = [wlist EXCEPT ![wqOf[t]] = Append(@, t)]
        /\ UNCHANGED <<queue, info, desc, cpu, next, newtask, reap>>
        /\ UNCHANGED <<wqOf, timeout, reason, fate>>
    BY <1>2 DEF WaitLink, Goto, lists, locals
  <2>2. PICK w \in WaitQueues : w = wqOf[t]
    BY <2>1 DEF IInv, WaitInv
  <2>3. /\ pc \in [Task -> Label]
        /\ wlist \in [WaitQueues -> Seq(Task)]
        /\ IsInjective(wlist[w]) /\ t \notin ToSet(wlist[w])
    BY <1>2 DEF IInv, LocalInv, SleepInv
  <2>4. pc'[t] = "wait_pick" /\ \A x \in Task \ {t} : pc'[x] = pc[x]
    BY <2>1, <2>3
  <2>5. PICK s : s = Append(wlist[w], t)
    OBVIOUS
  <2>6. /\ s \in Seq(Task)
        /\ IsInjective(s)
        /\ ToSet(s) = ToSet(wlist[w]) \union {t}
    BY <2>3, <2>5, AppendMembers
  <2>7. /\ wlist' \in [WaitQueues -> Seq(Task)]
        /\ wlist'[w] = s
        /\ \A v \in WaitQueues \ {w} : wlist'[v] = wlist[v]
    BY <2>1, <2>2, <2>3, <2>5, <2>6
  <2>8. ListInv(queue)'
    BY <2>1, <2>4 DEF IInv, ListInv, KtLabel, ExitLabel
  <2>9. InfoInv(info)'
    BY <2>1, <2>4 DEF IInv, InfoInv
  <2>10. SleepInv(queue, wlist)'
    <3>1. \A v \in WaitQueues : IsInjective(wlist'[v])
      BY <2>6, <2>7 DEF IInv, SleepInv
    <3>2. ASSUME NEW u \in WaitQueues, NEW v \in WaitQueues, u # v
          PROVE  ToSet(wlist'[u]) \cap ToSet(wlist'[v]) = {}
      <4>1. ToSet(wlist[u]) \cap ToSet(wlist[v]) = {}
        BY <3>2 DEF IInv, SleepInv
      <4>2. t \notin ToSet(wlist[u]) /\ t \notin ToSet(wlist[v])
        BY <1>2
      <4>3. CASE u = w
        <5>1. wlist'[u] = s /\ wlist'[v] = wlist[v]
          BY <2>7, <3>2, <4>3
        <5> QED
          BY <2>6, <4>1, <4>2, <4>3, <5>1
      <4>4. CASE u # w
        BY <2>6, <2>7, <4>1, <4>2, <4>4
      <4> QED
        BY <4>3, <4>4
    <3>3. ASSUME NEW x \in ToSet(queue["wait"])
          PROVE  \/ pc'[x] \in {"wait_set", "wait_link"}
                 \/ wqOf[x] \in WaitQueues /\ x \in ToSet(wlist'[wqOf[x]])
      <4>1. x \in Task
        BY SequenceMembers DEF IInv, ListInv, QName
      <4>2. CASE x = t
        BY <2>2, <2>6, <2>7, <4>2
      <4>3. CASE x # t
        BY <2>4, <2>6, <2>7, <4>1, <4>3 DEF IInv, SleepInv
      <4> QED
        BY <4>2, <4>3
    <3> QED
      BY <2>1, <2>7, <3>1, <3>2, <3>3 DEF SleepInv
  <2>11. CpuInv'
    BY <2>1 DEF IInv, CpuInv
  <2>12. LocalInv'
    BY <2>1, <2>3, <2>4 DEF IInv, LocalInv, KtLabel, ExitLabel, Label
  <2>13. WaitInv'
    BY <2>1, <2>3, <2>4 DEF IInv, WaitInv
  <2> QED
    BY <2>8, <2>9, <2>10, <2>11, <2>12, <2>13 DEF IInv
<1> QED
  BY <1>1, <1>2
-----------------------------------------------------------------------------
(* schedule().                                                             *)

LEMMA SchedulePickStep ==
    ASSUME IInv, NEW t \in Task, SchedulePick(t)
    PROVE  IInv'
<1>1. /\ ~ NothingToPick(queue) /\ Picked(queue) \in Task
      /\ ListInv(PickQueue(queue))
      /\ PickQueue(queue)["wait"] = queue["wait"]
  BY PickLists DEF IInv
<1>2. PICK l \in Label :
          /\ pc[t] \in {"wait_pick", "exit_pick"}
          /\ l \in IF pc[t] = "wait_pick" THEN {"user", "wait_switch"}
                   ELSE {"exit_switch", "exit_returned"}
          /\ pc' = [pc EXCEPT ![t] = l]
          /\ \/ l \notin {"wait_switch", "exit_switch"} /\ next' = next
             \/ next' = [next EXCEPT ![t] = Picked(queue)]
          /\ queue' = PickQueue(queue) /\ info' = PickInfo(queue, info)
          /\ UNCHANGED <<desc, cpu, newtask, reap>>
          /\ UNCHANGED <<wlist, wqOf, timeout, reason, fate>>
  BY <1>1 DEF SchedulePick, Goto, AfterSchedule, SwitchLabel, Label, waits
<1>3. pc \in [Task -> Label] /\ next \in [Task -> Task \union {NIL}]
  BY DEF IInv, LocalInv
<1>4. pc'[t] = l /\ \A x \in Task \ {t} : pc'[x] = pc[x]
  BY <1>2, <1>3
<1>5. /\ next' \in [Task -> Task \union {NIL}]
      /\ \A x \in Task \ {t} : next'[x] = next[x]
      /\ l \in {"wait_switch", "exit_switch"} => next'[t] \in Task
  BY <1>1, <1>2, <1>3
<1>6. ListInv(queue)'
  BY <1>1, <1>2, <1>4 DEF ListInv, KtLabel, ExitLabel
<1>7. InfoInv(info)'
  <2>1. InfoInv(info')
    BY <1>2, PickSlices DEF IInv
  <2> QED
    BY <1>2, <1>4, <2>1 DEF InfoInv
<1>8. SleepInv(queue, wlist)'
  BY <1>1, <1>2, <1>4 DEF IInv, SleepInv
<1>9. CpuInv'
  BY <1>2 DEF IInv, CpuInv
<1>10. LocalInv'
  BY <1>2, <1>3, <1>4, <1>5 DEF IInv, LocalInv, KtLabel, ExitLabel
<1>11. WaitInv'
  BY <1>2, <1>4 DEF IInv, WaitInv
<1> QED
  BY <1>6, <1>7, <1>8, <1>9, <1>10, <1>11 DEF IInv

LEMMA ScheduleSwitchStep ==
    ASSUME IInv, NEW t \in Task, ScheduleSwitch(t)
    PROVE  IInv'
<1>1. PICK l \in Label :
          /\ \/ pc[t] = "wait_switch" /\ l = "user"
             \/ pc[t] = "exit_switch" /\ l = "exit_returned"
          /\ pc' = [pc EXCEPT ![t] = l]
          /\ next' = [next EXCEPT ![t] = NIL]
          /\ cpu' = next[t] /\ fate' = BadContext(next[t])
          /\ UNCHANGED <<queue, info, desc, newtask, reap>>
          /\ UNCHANGED <<wlist, wqOf, timeout, reason>>
  BY DEF ScheduleSwitch, Goto, AfterSchedule, Label, lists, waits
<1>2. pc \in [Task -> Label] /\ next \in [Task -> Task \union {NIL}]
  BY DEF IInv, LocalInv
<1>3. pc'[t] = l /\ \A x \in Task \ {t} : pc'[x] = pc[x]
  BY <1>1, <1>2
<1>4. /\ next' \in [Task -> Task \union {NIL}]
      /\ \A x \in Task \ {t} : next'[x] = next[x]
  BY <1>1, <1>2
<1>5. ListInv(queue)'
  BY <1>1, <1>3 DEF IInv, ListInv, KtLabel, ExitLabel
<1>6. InfoInv(info)'
  BY <1>1, <1>3 DEF IInv, InfoInv
<1>7. SleepInv(queue, wlist)'
  BY <1>1, <1>3 DEF IInv, SleepInv
<1>8. CpuInv'
  <2>1. next[t] \in Task
    BY <1>1 DEF IInv, LocalInv
  <2> QED
    BY <1>1, <2>1, BadContextFate DEF IInv, CpuInv
<1>9. LocalInv'
  BY <1>1, <1>2, <1>3, <1>4 DEF IInv, LocalInv, KtLabel, ExitLabel
<1>10. WaitInv'
  BY <1>1, <1>3 DEF IInv, WaitInv
<1> QED
  BY <1>5, <1>6, <1>7, <1>8, <1>9, <1>10 DEF IInv
-----------------------------------------------------------------------------
(* kernel_thread().                                                        *)

LEMMA KtAllocStep ==
    ASSUME IInv, NEW t \in Task, NEW n \in Threads, KtAlloc(t, n)
    PROVE  IInv'
<1>1. /\ fate = "ok" /\ cpu = t /\ pc[t] = "user" /\ desc[n] = "free"
      /\ desc' = [desc EXCEPT ![n] = "new"]
      /\ info' = [info EXCEPT ![n] = ZeroInfo]
      /\ wqOf' = [wqOf EXCEPT ![n] = NIL]
      /\ timeout' = [timeout EXCEPT ![n] = 0]
      /\ reason' = [reason EXCEPT ![n] = "timeout"]
      /\ newtask' = [newtask EXCEPT ![t] = n]
      /\ pc' = [pc EXCEPT ![t] = "kt_insert"]
      /\ UNCHANGED <<queue, cpu, next, reap, wlist, fate>>
  BY DEF KtAlloc, Running, Goto
<1>2. /\ n \in Task /\ n # Idle /\ t # n /\ desc[t] = "ready"
      /\ ~ Queued(queue, n) /\ pc[n] \in ExitLabel \union {"user"}
  BY <1>1, SchedAssumption DEF Task, IInv, CpuInv, LocalInv, ListInv
<1>3. /\ pc \in [Task -> Label]
      /\ desc \in [Task -> {"free", "new", "ready", "unstacked"}]
      /\ newtask \in [Task -> Threads \union {NIL}]
      /\ info \in [Task -> SchedInfo]
      /\ wqOf \in [Task -> WaitQueues \union {NIL}]
      /\ timeout \in [Task -> Nat \union {INFINIT}]
      /\ reason \in [Task -> {"timeout", "wakeup"}]
  BY DEF IInv, LocalInv, InfoInv, WaitInv
<1>4. pc'[t] = "kt_insert" /\ \A x \in Task \ {t} : pc'[x] = pc[x]
  BY <1>1, <1>3
<1>5. /\ desc' \in [Task -> {"free", "new", "ready", "unstacked"}]
      /\ desc'[n] = "new"
      /\ \A x \in Task \ {n} : desc'[x] = desc[x]
  BY <1>1, <1>2, <1>3
<1>6. /\ newtask' \in [Task -> Threads \union {NIL}]
      /\ newtask'[t] = n
      /\ \A x \in Task \ {t} : newtask'[x] = newtask[x]
  BY <1>1, <1>3
<1>7. \A x \in Task : pc[x] \in KtLabel =>
          newtask[x] \in Threads /\ newtask[x] # n /\ x # n /\ x # t
  BY <1>1, <1>2 DEF IInv, LocalInv, KtLabel
<1>8. ListInv(queue)'
  <2>1. \A x \in Task : Queued(queue, x) => x # n
    BY <1>2
  <2>2. \A x \in Task : Queued(queue, x) => desc'[x] \in {"new", "ready"}
    BY <1>5, <2>1 DEF IInv, ListInv
  <2>3. \A x \in Task : desc'[x] = "new" =>
            \A m \in {"backup", "wait", "exit"} : x \notin ToSet(queue[m])
    BY <1>2, <1>5 DEF IInv, ListInv, Queued, QName
  <2>4. \A x \in Task : pc'[x] = "kt_insert" => ~ Queued(queue, newtask'[x])
    BY <1>2, <1>4, <1>6 DEF IInv, ListInv
  <2>5. \A x \in Task : pc'[x] \in KtLabel \ {"kt_insert"} =>
            newtask'[x] \in ToSet(queue["running"])
    BY <1>4, <1>6 DEF IInv, ListInv
  <2>6. ASSUME NEW x \in ToSet(queue["exit"]) PROVE pc'[x] \in ExitLabel
    <3>1. x \in Task /\ pc[x] \in ExitLabel
      BY SequenceMembers DEF IInv, ListInv, QName
    <3>2. x # t
      BY <1>1, <3>1 DEF ExitLabel
    <3> QED
      BY <1>4, <3>1, <3>2
  <2>7. pc'[Idle] = "reap_stack" => ~ Queued(queue, reap[1])
    BY <1>4 DEF IInv, ListInv, Task
  <2> QED
    BY <1>1, <2>2, <2>3, <2>4, <2>5, <2>6, <2>7 DEF IInv, ListInv
<1>9. InfoInv(info)'
  <2>1. /\ info' \in [Task -> SchedInfo]
        /\ \A x \in Task \ {n} : info'[x] = info[x]
    <3>1. PICK z : z = ZeroInfo
      OBVIOUS
    <3>2. z \in SchedInfo
      BY <3>1 DEF ZeroInfo, SchedInfo
    <3>3. info' = [info EXCEPT ![n] = z]
      BY <1>1, <3>1
    <3> QED
      BY <1>3, <3>2, <3>3
  <2>2. \A x \in Task : desc'[x] = "ready" => WithinGrant(info'[x])
    BY <1>5, <2>1 DEF IInv, InfoInv
  <2>3. ASSUME NEW x \in Task, pc'[x] \in {"kt_slice_init", "kt_context"}
        PROVE  /\ newtask'[x] = newtask[x] /\ pc'[x] = pc[x]
               /\ info'[newtask'[x]] = info[newtask[x]]
               /\ info'[x] = info[x]
    <3>1. x # t /\ pc[x] \in KtLabel
      BY <1>4, <2>3 DEF KtLabel
    <3>2. newtask[x] \in Task /\ newtask[x] # n /\ x # n
      BY <1>7, <3>1 DEF Task
    <3> QED
      BY <1>4, <1>6, <2>1, <3>1, <3>2
  <2> QED
    BY <2>1, <2>2, <2>3 DEF IInv, InfoInv
<1>10. SleepInv(queue, wlist)'
  <2>1. ASSUME NEW x \in ToSet(queue["wait"])
        PROVE  \/ pc'[x] \in {"wait_set", "wait_link"}
               \/ wqOf'[x] \in WaitQueues /\ x \in ToSet(wlist[wqOf'[x]])
    <3>1. x \in Task /\ x # n
      BY <1>2, SequenceMembers DEF IInv, ListInv, Queued, QName
    <3>2. wqOf'[x] = wqOf[x]
      BY <1>1, <1>3, <3>1
    <3> QED
      BY <1>1, <1>4, <3>1, <3>2 DEF IInv, SleepInv
  <2> QED
    BY <1>1, <2>1 DEF IInv, SleepInv
<1>11. CpuInv'
  BY <1>1, <1>2, <1>5 DEF IInv, CpuInv
<1>12. LocalInv'
  <2>1. \A x \in Task : desc'[x] # "ready" => pc'[x] \in ExitLabel \union {"user"}
    BY <1>2, <1>4, <1>5 DEF IInv, LocalInv
  <2>2. ASSUME NEW x \in Task, pc'[x] \in KtLabel
        PROVE  /\ desc'[x] = "ready"
               /\ newtask'[x] \in Threads
               /\ desc'[newtask'[x]] = "new"
    <3>1. CASE x = t
      BY <1>2, <1>5, <1>6, <3>1
    <3>2. CASE x # t
      <4>1. pc[x] \in KtLabel /\ newtask'[x] = newtask[x]
        BY <1>4, <1>6, <2>2, <3>2
      <4>2. newtask[x] \in Threads /\ newtask[x] # n /\ x # n
        BY <1>7, <4>1
      <4>3. newtask[x] \in Task
        BY <4>2 DEF Task
      <4> QED
        BY <1>5, <4>1, <4>2, <4>3 DEF IInv, LocalInv
    <3> QED
      BY <3>1, <3>2
  <2>3. \A x, y \in Task :
            pc'[x] \in KtLabel /\ pc'[y] \in KtLabel /\ newtask'[x] = newtask'[y]
                => x = y
    BY <1>4, <1>6, <1>7 DEF IInv, LocalInv
  <2>4. pc'[Idle] \in {"reap_unlink", "reap_stack"} =>
            /\ reap[1] \in Threads
            /\ desc'[reap[1]] = "ready"
            /\ pc'[reap[1]] \in ExitLabel
    BY <1>1, <1>4, <1>5 DEF IInv, LocalInv, Task, ExitLabel
  <2>5. pc'[Idle] = "reap_desc" =>
            reap[1] \in Threads /\ desc'[reap[1]] = "unstacked"
    BY <1>1, <1>4, <1>5 DEF IInv, LocalInv, Task
  <2>6. desc'[Idle] = "ready" /\ pc' \in [Task -> Label]
    BY <1>1, <1>2, <1>3, <1>5 DEF IInv, LocalInv, Task, Label
  <2>7. \A x \in Task : pc'[x] \in {"wait_switch", "exit_switch"} =>
            next[x] \in Task
    BY <1>4 DEF IInv, LocalInv
  <2> QED
    BY <1>1, <1>5, <1>6, <2>1, <2>2, <2>3, <2>4, <2>5, <2>6, <2>7
    DEF IInv, LocalInv
<1>13. WaitInv'
  <2>1. /\ wqOf' \in [Task -> WaitQueues \union {NIL}]
        /\ timeout' \in [Task -> Nat \union {INFINIT}]
        /\ reason' \in [Task -> {"timeout", "wakeup"}]
        /\ \A x \in Task \ {n} : wqOf'[x] = wqOf[x]
    BY <1>1, <1>2, <1>3
  <2>2. \A x \in Task : pc'[x] = "wait_link" => x # n /\ pc[x] = "wait_link"
    BY <1>2, <1>4 DEF ExitLabel
  <2> QED
    BY <2>1, <2>2 DEF IInv, WaitInv
<1> QED
  BY <1>8, <1>9, <1>10, <1>11, <1>12, <1>13 DEF IInv

LEMMA KtInsertStep ==
    ASSUME IInv, NEW t \in Task, KtInsert(t)
    PROVE  IInv'
<1>1. /\ pc[t] = "kt_insert" /\ pc' = [pc EXCEPT ![t] = "kt_pri"]
      /\ queue' = AddByPri(queue, "running", newtask[t], info)
      /\ UNCHANGED <<info, desc, cpu, next, newtask, reap>>
      /\ UNCHANGED <<wlist, wqOf, timeout, reason, fate>>
  BY DEF KtInsert, Goto, locals, waits
<1>2. PICK n \in Task : /\ n = newtask[t] /\ desc[n] = "new"
                        /\ ~ Queued(queue, n)
  BY <1>1 DEF IInv, LocalInv, ListInv, KtLabel, Task
<1>3. pc \in [Task -> Label]
  BY DEF IInv, LocalInv
<1>4. pc'[t] = "kt_pri" /\ \A x \in Task \ {t} : pc'[x] = pc[x]
  BY <1>1, <1>3
<1>5. Linked(Task, queue, "running", n, queue')
  <2>1. queue \in [QName -> Seq(Task)] /\ Separate(queue)
    BY DEF IInv, ListInv
  <2>2. queue' = AddByPri(queue, "running", n, info) /\ "running" \in QName
    BY <1>1, <1>2 DEF QName
  <2> QED
    BY <1>2, <2>1, <2>2, AddByPriSeparate
<1>6. /\ queue' \in [QName -> Seq(Task)]
      /\ Separate(queue')
      /\ ToSet(queue'["running"]) = ToSet(queue["running"]) \union {n}
      /\ \A m \in {"backup", "wait", "exit"} : queue'[m] = queue[m]
  BY <1>5 DEF Linked, QName
<1>7. \A x : Queued(queue', x) <=> (Queued(queue, x) \/ x = n)
  BY <1>6 DEF Queued, QName
<1>8. ListInv(queue)'
  <2>1. Idle \in ToSet(queue'["running"]) \union ToSet(queue'["backup"])
    BY <1>6 DEF IInv, ListInv
  <2>2. \A x \in Task : Queued(queue', x) => desc'[x] \in {"new", "ready"}
    BY <1>1, <1>2, <1>7 DEF IInv, ListInv
  <2>3. \A x \in Task : desc'[x] = "new" =>
            \A m \in {"backup", "wait", "exit"} : x \notin ToSet(queue'[m])
    BY <1>1, <1>6 DEF IInv, ListInv
  <2>4. ASSUME NEW x \in Task, pc'[x] = "kt_insert"
        PROVE  ~ Queued(queue', newtask'[x])
    <3>1. x # t /\ pc[x] = "kt_insert"
      BY <1>4, <2>4
    <3>2. newtask[x] # n /\ ~ Queued(queue, newtask[x])
      BY <1>1, <1>2, <3>1 DEF IInv, LocalInv, ListInv, KtLabel
    <3> QED
      BY <1>1, <1>7, <3>2
  <2>5. ASSUME NEW x \in Task, pc'[x] \in KtLabel \ {"kt_insert"}
        PROVE  newtask'[x] \in ToSet(queue'["running"])
    <3>1. CASE x = t
      BY <1>1, <1>2, <1>6, <3>1
    <3>2. CASE x # t
      BY <1>1, <1>4, <1>6, <2>5, <3>2 DEF IInv, ListInv
    <3> QED
      BY <3>1, <3>2
  <2>6. ASSUME NEW x \in ToSet(queue'["exit"]) PROVE pc'[x] \in ExitLabel
    <3>1. x \in ToSet(queue["exit"])
      BY <1>6
    <3>2. queue["exit"] \in Seq(Task)
      BY DEF IInv, ListInv, QName
    <3>3. x \in Task
      BY ONLY <3>1, <3>2, SequenceMembers
    <3>4. pc[x] \in ExitLabel
      BY <3>1, <3>3 DEF IInv, ListInv
    <3> QED
      BY <1>1, <1>4, <3>3, <3>4 DEF ExitLabel
  <2>7. pc'[Idle] = "reap_stack" => ~ Queued(queue', reap'[1])
    <3>1. SUFFICES ASSUME pc'[Idle] = "reap_stack"
                   PROVE  ~ Queued(queue', reap'[1])
      OBVIOUS
    <3>2. pc[Idle] = "reap_stack"
      BY <1>4, <3>1 DEF Task
    <3>3. reap[1] # n /\ ~ Queued(queue, reap[1])
      BY <1>2, <3>2 DEF IInv, LocalInv, ListInv
    <3> QED
      BY <1>1, <1>7, <3>3
  <2> QED
    BY <1>6, <2>1, <2>2, <2>3, <2>4, <2>5, <2>6, <2>7 DEF ListInv
<1>9. InfoInv(info)'
  BY <1>1, <1>4 DEF IInv, InfoInv
<1>10. SleepInv(queue, wlist)'
  <2>1. ASSUME NEW x \in ToSet(queue'["wait"])
        PROVE  \/ pc'[x] \in {"wait_set", "wait_link"}
               \/ wqOf[x] \in WaitQueues /\ x \in ToSet(wlist[wqOf[x]])
    <3>1. x \in ToSet(queue["wait"])
      BY <1>6
    <3>2. x \in Task
      BY <3>1, SequenceMembers DEF IInv, ListInv, QName
    <3> QED
      BY <1>1, <1>4, <3>1, <3>2 DEF IInv, SleepInv
  <2> QED
    BY <1>1, <2>1 DEF IInv, SleepInv
<1>11. CpuInv'
  BY <1>1 DEF IInv, CpuInv
<1>12. LocalInv'
  BY <1>1, <1>3, <1>4 DEF IInv, LocalInv, KtLabel, ExitLabel, Label
<1>13. WaitInv'
  BY <1>1, <1>4 DEF IInv, WaitInv
<1> QED
  BY <1>8, <1>9, <1>10, <1>11, <1>12, <1>13 DEF IInv

\* A descriptor that takes some of another's fields.
LEMMA CopyFields ==
    ASSUME NEW a \in SchedInfo, NEW b \in SchedInfo, NEW F,
           NEW c, c = [f \in DOMAIN b |-> IF f \in F THEN a[f] ELSE b[f]]
    PROVE  /\ c \in SchedInfo
           /\ c.slice = IF "slice" \in F THEN a.slice ELSE b.slice
           /\ c.sliceInit = IF "sliceInit" \in F THEN a.sliceInit
                            ELSE b.sliceInit
<1>1. DOMAIN b = {"pri", "priInit", "slice", "sliceInit"}
  BY DEF SchedInfo
<1>2. /\ c.pri = IF "pri" \in F THEN a.pri ELSE b.pri
      /\ c.priInit = IF "priInit" \in F THEN a.priInit ELSE b.priInit
      /\ c.slice = IF "slice" \in F THEN a.slice ELSE b.slice
      /\ c.sliceInit = IF "sliceInit" \in F THEN a.sliceInit ELSE b.sliceInit
  BY <1>1
<1>3. /\ a.pri \in Int /\ b.pri \in Int
      /\ a.priInit \in Int /\ b.priInit \in Int
      /\ a.slice \in Nat /\ b.slice \in Nat
      /\ a.sliceInit \in Nat /\ b.sliceInit \in Nat
  BY DEF SchedInfo
<1>4. c = [pri |-> c.pri, priInit |-> c.priInit,
           slice |-> c.slice, sliceInit |-> c.sliceInit]
  BY <1>1
<1>5. /\ c.pri \in Int /\ c.priInit \in Int
      /\ c.slice \in Nat /\ c.sliceInit \in Nat
  BY <1>2, <1>3
<1>6. c \in SchedInfo
  BY <1>4, <1>5 DEF SchedInfo
<1> QED
  BY <1>2, <1>6

\* One copying step of kernel_thread() with what it makes of the slices.
LEMMA InheritStep ==
    ASSUME IInv, NEW t \in Task, NEW at, NEW then, NEW fields,
           KtInherit(t, at, then, fields),
           at \in KtLabel \ {"kt_insert"}, then \in KtLabel \ {"kt_insert"},
           then = "kt_slice_init" => fields = {"slice"},
           then = "kt_context" => at = "kt_slice_init" /\ fields = {"sliceInit"}
    PROVE  IInv'
<1>1. /\ fate = "ok" /\ cpu = t /\ pc[t] = at
      /\ pc' = [pc EXCEPT ![t] = then]
      /\ UNCHANGED <<queue, desc, cpu, next, newtask, reap>>
      /\ UNCHANGED <<wlist, wqOf, timeout, reason, fate>>
  BY DEF KtInherit, Running, Goto, locals, waits
<1>2. /\ newtask[t] \in Task /\ desc[newtask[t]] = "new" /\ desc[t] = "ready"
      /\ newtask[t] \in ToSet(queue["running"])
  BY <1>1 DEF IInv, LocalInv, ListInv, Task
<1>3. PICK n \in Task : n = newtask[t]
  BY <1>2
<1>4. /\ pc \in [Task -> Label] /\ info \in [Task -> SchedInfo]
      /\ then \in Label /\ at # "user"
  BY DEF IInv, LocalInv, InfoInv, KtLabel, Label
<1>5. pc'[t] = then /\ \A x \in Task \ {t} : pc'[x] = pc[x]
  BY <1>1, <1>4
<1>6. PICK c \in SchedInfo :
          /\ info' = [info EXCEPT ![n] = c]
          /\ c.slice = IF "slice" \in fields THEN info[t].slice
                       ELSE info[n].slice
          /\ c.sliceInit = IF "sliceInit" \in fields THEN info[t].sliceInit
                           ELSE info[n].sliceInit
  <2>1. PICK c : c = [f \in DOMAIN info[n] |->
                        IF f \in fields THEN info[t][f] ELSE info[n][f]]
    OBVIOUS
  <2>2. info' = [info EXCEPT ![n] = c]
    BY <1>3, <2>1 DEF KtInherit
  <2>3. info[t] \in SchedInfo /\ info[n] \in SchedInfo
    BY <1>4
  <2>4. /\ c \in SchedInfo
        /\ c.slice = IF "slice" \in fields THEN info[t].slice
                     ELSE info[n].slice
        /\ c.sliceInit = IF "sliceInit" \in fields THEN info[t].sliceInit
                         ELSE info[n].sliceInit
    BY ONLY <2>1, <2>3, CopyFields
  <2> QED
    BY ONLY <2>2, <2>4
<1>7. /\ info' \in [Task -> SchedInfo] /\ info'[n] = c
      /\ \A x \in Task \ {n} : info'[x] = info[x]
  BY <1>4, <1>6
<1>8. n # t /\ info'[t] = info[t] /\ WithinGrant(info[t])
  BY <1>2, <1>3, <1>7 DEF IInv, InfoInv
<1>9. ListInv(queue)'
  <2>1. \A x \in Task : pc'[x] \in KtLabel \ {"kt_insert"} =>
            newtask[x] \in ToSet(queue["running"])
    BY <1>2, <1>5 DEF IInv, ListInv
  <2>2. \A x \in Task : pc'[x] = "kt_insert" => pc[x] = "kt_insert"
    BY <1>5
  <2>3. ASSUME NEW x \in ToSet(queue["exit"]) PROVE pc'[x] \in ExitLabel
    <3>1. queue \in [QName -> Seq(Task)] /\ "exit" \in QName
      BY DEF IInv, ListInv, QName
    <3>2. x \in Task
      BY <3>1, SequenceMembers
    <3>3. pc[x] \in ExitLabel
      BY DEF IInv, ListInv
    <3> QED
      BY <1>1, <1>5, <3>2, <3>3 DEF ExitLabel, KtLabel
  <2>4. pc'[Idle] = "reap_stack" => pc[Idle] = "reap_stack"
    BY <1>5 DEF KtLabel, Task
  <2> QED
    BY <1>1, <2>1, <2>2, <2>3, <2>4 DEF IInv, ListInv
<1>10. InfoInv(info)'
  <2>1. \A x \in Task : desc'[x] = "ready" => WithinGrant(info'[x])
    BY <1>1, <1>2, <1>3, <1>7 DEF IInv, InfoInv
  <2>2. \A x \in Task \ {t} : pc[x] \in KtLabel =>
            newtask[x] \in Task \ {n} /\ x # n
    BY <1>1, <1>2, <1>3 DEF IInv, LocalInv, Task
  <2>3. ASSUME NEW x \in Task, pc'[x] = "kt_slice_init"
        PROVE  info'[newtask'[x]].slice <= info'[x].sliceInit
    <3>1. CASE x = t
      <4>1. c.slice = info[t].slice
        BY <1>5, <1>6, <2>3, <3>1
      <4> QED
        BY <1>1, <1>3, <1>7, <1>8, <3>1, <4>1 DEF WithinGrant
    <3>2. CASE x # t
      <4>1. pc[x] = "kt_slice_init" /\ pc[x] \in KtLabel
        BY <1>5, <2>3, <3>2 DEF KtLabel
      <4> QED
        BY <1>1, <1>7, <2>2, <3>2, <4>1 DEF IInv, InfoInv
    <3> QED
      BY <3>1, <3>2
  <2>4. ASSUME NEW x \in Task, pc'[x] = "kt_context"
        PROVE  WithinGrant(info'[newtask'[x]])
    <3>1. CASE x = t
      <4>1. c.slice = info[n].slice /\ c.sliceInit = info[t].sliceInit
        BY <1>5, <1>6, <2>4, <3>1
      <4>2. info[n].slice <= info[t].sliceInit
        BY <1>1, <1>3, <1>5, <2>4, <3>1 DEF IInv, InfoInv
      <4>3. WithinGrant(c)
        BY <1>8, <4>1, <4>2 DEF WithinGrant
      <4> QED
        BY <1>1, <1>3, <1>7, <3>1, <4>3
    <3>2. CASE x # t
      <4>1. pc[x] = "kt_context" /\ pc[x] \in KtLabel
        BY <1>5, <2>4, <3>2 DEF KtLabel
      <4> QED
        BY <1>1, <1>7, <2>2, <3>2, <4>1 DEF IInv, InfoInv
    <3> QED
      BY <3>1, <3>2
  <2> QED
    BY <1>7, <2>1, <2>3, <2>4 DEF InfoInv
<1>11. SleepInv(queue, wlist)'
  <2>1. ASSUME NEW x \in ToSet(queue["wait"])
        PROVE  \/ pc'[x] \in {"wait_set", "wait_link"}
               \/ wqOf[x] \in WaitQueues /\ x \in ToSet(wlist[wqOf[x]])
    <3>1. x \in Task
      BY SequenceMembers DEF IInv, ListInv, QName
    <3> QED
      BY <1>1, <1>5, <3>1 DEF IInv, SleepInv, KtLabel
  <2> QED
    BY <1>1, <2>1 DEF IInv, SleepInv
<1>12. CpuInv'
  BY <1>1 DEF IInv, CpuInv
<1>13. LocalInv'
  BY <1>1, <1>4, <1>5 DEF IInv, LocalInv, KtLabel, ExitLabel
<1>14. WaitInv'
  BY <1>1, <1>5 DEF IInv, WaitInv, KtLabel
<1> QED
  BY <1>9, <1>10, <1>11, <1>12, <1>13, <1>14 DEF IInv

\* The three copying steps.
LEMMA KtCopySteps ==
    ASSUME IInv, NEW t \in Task, KtPri(t) \/ KtSlice(t) \/ KtSliceInit(t)
    PROVE  IInv'
<1>1. CASE KtPri(t)
  <2>1. KtInherit(t, "kt_pri", "kt_slice", {"pri", "priInit"})
    BY <1>1 DEF KtPri
  <2> QED
    BY <2>1, InheritStep DEF KtLabel
<1>2. CASE KtSlice(t)
  <2>1. KtInherit(t, "kt_slice", "kt_slice_init", {"slice"})
    BY <1>2 DEF KtSlice
  <2> QED
    BY <2>1, InheritStep DEF KtLabel
<1>3. CASE KtSliceInit(t)
  <2>1. KtInherit(t, "kt_slice_init", "kt_context", {"sliceInit"})
    BY <1>3 DEF KtSliceInit
  <2> QED
    BY <2>1, InheritStep DEF KtLabel
<1> QED
  BY <1>1, <1>2, <1>3

\* The descriptor is complete: its slices are within the grant by now.
LEMMA KtContextStep ==
    ASSUME IInv, NEW t \in Task, KtContext(t)
    PROVE  IInv'
<1>1. /\ fate = "ok" /\ cpu = t /\ pc[t] = "kt_context"
      /\ desc' = [desc EXCEPT ![newtask[t]] = "ready"]
      /\ pc' = [pc EXCEPT ![t] = "user", ![newtask[t]] = "user"]
      /\ newtask' = [newtask EXCEPT ![t] = NIL]
      /\ UNCHANGED <<queue, info, cpu, next, reap>>
      /\ UNCHANGED <<wlist, wqOf, timeout, reason, fate>>
  BY DEF KtContext, Running, lists, waits
<1>2. PICK n \in Threads : n = newtask[t]
  BY <1>1 DEF IInv, LocalInv, KtLabel
<1>3. /\ n \in Task /\ desc[n] = "new" /\ desc[t] = "ready" /\ n # t
      /\ n # Idle /\ n \in ToSet(queue["running"])
      /\ WithinGrant(info[n]) /\ pc[n] \in ExitLabel \union {"user"}
  BY <1>1, <1>2, SchedAssumption
  DEF IInv, LocalInv, ListInv, InfoInv, KtLabel, Task
<1>4. /\ pc \in [Task -> Label]
      /\ desc \in [Task -> {"free", "new", "ready", "unstacked"}]
      /\ newtask \in [Task -> Threads \union {NIL}]
      /\ queue \in [QName -> Seq(Task)] /\ "user" \in Label
  BY DEF IInv, LocalInv, ListInv, Label
<1>5. /\ pc' \in [Task -> Label] /\ pc'[t] = "user" /\ pc'[n] = "user"
      /\ \A x \in Task \ {t, n} : pc'[x] = pc[x]
  BY <1>1, <1>2, <1>3, <1>4
<1>6. /\ desc' \in [Task -> {"free", "new", "ready", "unstacked"}]
      /\ desc'[n] = "ready" /\ \A x \in Task \ {n} : desc'[x] = desc[x]
  BY <1>1, <1>2, <1>3, <1>4
<1>7. /\ newtask' \in [Task -> Threads \union {NIL}]
      /\ \A x \in Task \ {t} : newtask'[x] = newtask[x]
  BY <1>1, <1>4
<1>8. \A x \in Task : pc'[x] # "user" => x # t /\ x # n /\ pc'[x] = pc[x]
  BY <1>5
<1>9. \A x \in Task : pc'[x] \in KtLabel =>
          /\ x # t /\ x # n /\ pc'[x] = pc[x] /\ newtask'[x] = newtask[x]
          /\ newtask[x] \in Threads /\ newtask[x] # n
  BY <1>1, <1>2, <1>3, <1>7, <1>8 DEF IInv, LocalInv, KtLabel
<1>10. ListInv(queue)'
  <2>1. \A x \in Task : Queued(queue, x) => desc'[x] \in {"new", "ready"}
    BY <1>6 DEF IInv, ListInv
  <2>2. \A x \in Task : desc'[x] = "new" =>
            \A m \in {"backup", "wait", "exit"} : x \notin ToSet(queue[m])
    BY <1>6 DEF IInv, ListInv
  <2>3. \A x \in Task : pc'[x] = "kt_insert" => ~ Queued(queue, newtask'[x])
    BY <1>9 DEF IInv, ListInv, KtLabel
  <2>4. \A x \in Task : pc'[x] \in KtLabel \ {"kt_insert"} =>
            newtask'[x] \in ToSet(queue["running"])
    BY <1>9 DEF IInv, ListInv
  <2>5. ASSUME NEW x \in ToSet(queue["exit"]) PROVE pc'[x] \in ExitLabel
    <3>1. x \in Task /\ pc[x] \in ExitLabel
      BY <1>4, SequenceMembers DEF IInv, ListInv, QName
    <3>2. x # t /\ x # n
      BY <1>1, <1>3, <3>1 DEF IInv, ListInv, ExitLabel
    <3> QED
      BY <1>5, <3>1, <3>2
  <2>6. pc'[Idle] = "reap_stack" => ~ Queued(queue, reap[1])
    BY <1>8 DEF IInv, ListInv, Task
  <2> QED
    BY <1>1, <2>1, <2>2, <2>3, <2>4, <2>5, <2>6 DEF IInv, ListInv
<1>11. InfoInv(info)'
  <2>1. \A x \in Task : desc'[x] = "ready" => WithinGrant(info[x])
    BY <1>3, <1>6 DEF IInv, InfoInv
  <2>2. \A x \in Task : pc'[x] = "kt_slice_init" =>
            info[newtask'[x]].slice <= info[x].sliceInit
    BY <1>9 DEF IInv, InfoInv, KtLabel
  <2>3. \A x \in Task : pc'[x] = "kt_context" => WithinGrant(info[newtask'[x]])
    BY <1>9 DEF IInv, InfoInv, KtLabel
  <2> QED
    BY <1>1, <2>1, <2>2, <2>3 DEF IInv, InfoInv
<1>12. SleepInv(queue, wlist)'
  <2>1. ASSUME NEW x \in ToSet(queue["wait"])
        PROVE  \/ pc'[x] \in {"wait_set", "wait_link"}
               \/ wqOf[x] \in WaitQueues /\ x \in ToSet(wlist[wqOf[x]])
    <3>1. x \in Task /\ x # n
      BY <1>3, <1>4, SequenceMembers DEF IInv, ListInv, QName
    <3> QED
      BY <1>1, <1>5, <3>1 DEF IInv, SleepInv
  <2> QED
    BY <1>1, <2>1 DEF IInv, SleepInv
<1>13. CpuInv'
  BY <1>1, <1>3, <1>6 DEF IInv, CpuInv
<1>14. LocalInv'
  <2>1. desc'[Idle] = "ready"
    BY <1>3, <1>6 DEF IInv, LocalInv, Task
  <2>2. \A x \in Task : pc'[x] \in {"wait_switch", "exit_switch"} =>
            next[x] \in Task
    BY <1>8 DEF IInv, LocalInv
  <2>3. \A x \in Task : desc'[x] # "ready" => pc'[x] \in ExitLabel \union {"user"}
    BY <1>5, <1>6 DEF IInv, LocalInv
  <2>4. ASSUME NEW x \in Task, pc'[x] \in KtLabel
        PROVE  /\ desc'[x] = "ready"
               /\ newtask'[x] \in Threads
               /\ desc'[newtask'[x]] = "new"
    <3>1. /\ pc[x] \in KtLabel /\ x # n /\ newtask'[x] = newtask[x]
          /\ newtask[x] \in Threads /\ newtask[x] # n
      BY <1>9, <2>4
    <3>2. newtask[x] \in Task
      BY <3>1 DEF Task
    <3> QED
      BY <1>6, <3>1, <3>2 DEF IInv, LocalInv
  <2>5. \A x, y \in Task :
            pc'[x] \in KtLabel /\ pc'[y] \in KtLabel /\ newtask'[x] = newtask'[y]
                => x = y
    BY <1>9 DEF IInv, LocalInv
  <2>6. pc'[Idle] \in {"reap_unlink", "reap_stack"} =>
            /\ reap[1] \in Threads
            /\ desc'[reap[1]] = "ready"
            /\ pc'[reap[1]] \in ExitLabel
    BY <1>1, <1>3, <1>5, <1>6, <1>8 DEF IInv, LocalInv, Task, ExitLabel
  <2>7. pc'[Idle] = "reap_desc" =>
            reap[1] \in Threads /\ desc'[reap[1]] = "unstacked"
    BY <1>3, <1>6, <1>8 DEF IInv, LocalInv, Task
  <2> QED
    BY <1>1, <1>5, <1>6, <1>7, <2>1, <2>2, <2>3, <2>4, <2>5, <2>6, <2>7
    DEF IInv, LocalInv
<1>15. WaitInv'
  BY <1>1, <1>8 DEF IInv, WaitInv
<1> QED
  BY <1>10, <1>11, <1>12, <1>13, <1>14, <1>15 DEF IInv
-----------------------------------------------------------------------------
(* The invariant, and the properties it implies.                           *)

\* What sched_init() leaves behind satisfies the invariant.
LEMMA InitInv ==
    ASSUME Init
    PROVE  IInv
<1>1. /\ Idle \in Task /\ Idle \notin Threads
      /\ \A t \in Task : t # NIL
  BY SchedAssumption DEF Task
<1>2. queue = [n \in QName |-> IF n = "running" THEN <<Idle>> ELSE <<>>]
  BY DEF Init
<1>3. /\ queue["running"] = <<Idle>>
      /\ \A n \in QName \ {"running"} : queue[n] = <<>>
  BY <1>2 DEF QName
<1>4. /\ \A n \in QName : queue[n] \in Seq(Task) /\ IsInjective(queue[n])
      /\ ToSet(queue["running"]) = {Idle}
      /\ \A n \in QName \ {"running"} : ToSet(queue[n]) = {}
  <2>1. /\ <<Idle>> \in Seq(Task) /\ DOMAIN <<Idle>> = {1}
        /\ <<Idle>>[1] = Idle
    BY <1>1
  <2>2. IsInjective(<<Idle>>) /\ ToSet(<<Idle>>) = {Idle}
    BY ONLY <2>1 DEF IsInjective, ToSet
  <2>3. <<>> \in Seq(Task) /\ IsInjective(<<>>) /\ ToSet(<<>>) = {}
    BY DEF IsInjective, ToSet
  <2> QED
    BY ONLY <1>3, <2>1, <2>2, <2>3
<1>5. queue \in [QName -> Seq(Task)] /\ Separate(queue)
  BY <1>2, <1>4 DEF Separate
<1>6. \A t \in Task : Queued(queue, t) => t = Idle
  BY <1>4 DEF Queued
<1>7. /\ desc = [t \in Task |-> IF t = Idle THEN "ready" ELSE "free"]
      /\ pc = [t \in Task |-> "user"]
      /\ next = [t \in Task |-> NIL] /\ newtask = [t \in Task |-> NIL]
      /\ reap = <<NIL, NIL>> /\ cpu = Idle /\ fate = "ok"
      /\ wqOf = [t \in Task |-> NIL] /\ timeout = [t \in Task |-> 0]
      /\ reason = [t \in Task |-> "timeout"]
      /\ wlist = [w \in WaitQueues |-> <<>>]
  BY DEF Init
<1>8. ListInv(queue)
  BY <1>1, <1>4, <1>5, <1>6, <1>7 DEF ListInv, KtLabel, QName
<1>9. InfoInv(info)
  <2>1. PICK i : i = [pri |-> 0, priInit |-> IdlePri,
                      slice |-> 1, sliceInit |-> 1]
    OBVIOUS
  <2>2. i \in SchedInfo /\ WithinGrant(i)
    <3>1. SliceStep * NiceScale \in Nat
      BY SliceAssumption
    <3>2. MaxGrant \in Nat /\ MaxGrant >= 1
      BY <3>1, SliceAssumption DEF MaxGrant
    <3>3. IdlePri \in Int
      BY SchedAssumption
    <3> QED
      BY <2>1, <3>2, <3>3 DEF SchedInfo, WithinGrant
  <2>3. PICK g : g = Reassess(i)
    OBVIOUS
  <2>4. g \in SchedInfo /\ WithinGrant(g)
    BY <2>2, <2>3, ReassessWithinGrant
  <2>5. ZeroInfo \in SchedInfo
    BY DEF ZeroInfo, SchedInfo
  <2>6. info = [t \in Task |-> IF t = Idle THEN g ELSE ZeroInfo]
    BY <2>1, <2>3 DEF Init
  <2>7. info \in [Task -> SchedInfo] /\ info[Idle] = g
    BY <1>1, <2>4, <2>5, <2>6
  <2> QED
    BY <1>7, <2>4, <2>7 DEF InfoInv
<1>10. SleepInv(queue, wlist)
  <2>1. <<>> \in Seq(Task) /\ IsInjective(<<>>) /\ ToSet(<<>>) = {}
    BY DEF IsInjective, ToSet
  <2>2. ToSet(queue["wait"]) = {}
    BY <1>4 DEF QName
  <2> QED
    BY <1>7, <2>1, <2>2 DEF SleepInv
<1>11. CpuInv
  BY <1>1, <1>7 DEF CpuInv, Fates
<1>12. LocalInv
  BY <1>1, <1>7 DEF LocalInv, KtLabel, ExitLabel, Label
<1>13. WaitInv
  BY <1>7 DEF WaitInv
<1> QED
  BY <1>8, <1>9, <1>10, <1>11, <1>12, <1>13 DEF IInv

\* Every step preserves the invariant, and so does none.
LEMMA NextInv ==
    ASSUME IInv, [Next]_vars
    PROVE  IInv'
<1>1. CASE Tick
  BY <1>1, TickStep
<1>2. ASSUME NEW w \in WaitQueues, WakeInterrupt(w) PROVE IInv'
  BY <1>2, WakeInterruptStep
<1>3. CASE BootDone
  BY <1>3, BootDoneStep
<1>4. CASE IdleLoop
  BY <1>4, IdleWalkStep, IdleSpinStep, ReapUnlinkStep, ReapStackStep,
     ReapDescStep, ReapPgdStep DEF IdleLoop
<1>5. ASSUME NEW t \in Task, TaskStep(t) PROVE IInv'
  <2>1. CASE Wait(t)
    BY <2>1, WaitEnterStep, WaitSetStep, WaitLinkStep DEF Wait
  <2>2. CASE Schedule(t)
    BY <2>2, SchedulePickStep, ScheduleSwitchStep DEF Schedule
  <2>3. CASE KernelThread(t)
    BY <2>3, KtAllocStep, KtInsertStep, KtCopySteps, KtContextStep
    DEF KernelThread
  <2>4. CASE Exit(t)
    BY <2>4, ExitStep
  <2>5. CASE ExitReturned(t)
    BY <2>5, ExitReturnedStep
  <2> QED
    BY <1>5, <2>1, <2>2, <2>3, <2>4, <2>5 DEF TaskStep
<1>6. CASE UNCHANGED vars
  <2>1. /\ UNCHANGED <<queue, info, desc, cpu, pc, next, newtask, reap>>
        /\ UNCHANGED <<wlist, wqOf, timeout, reason, fate>>
    BY <1>6 DEF vars
  <2> QED
    BY <2>1 DEF IInv, ListInv, InfoInv, SleepInv, CpuInv, LocalInv, WaitInv
<1> QED
  BY <1>1, <1>2, <1>3, <1>4, <1>5, <1>6 DEF Next, Interrupt

\* The inductive invariant holds in every reachable state.
THEOREM Invariance == Spec => []IInv
<1>1. Init => IInv
  BY InitInv
<1>2. IInv /\ [Next]_vars => IInv'
  BY NextInv
<1> QED
  BY <1>1, <1>2, PTL DEF Spec

\* Every variable keeps its type: no field is read that was not written with
\* a value of its kind, whatever the interleaving.
THEOREM TypeCorrectness == Spec => []TypeOK
<1>1. IInv => TypeOK
  BY DEF IInv, ListInv, InfoInv, SleepInv, CpuInv, LocalInv, WaitInv, TypeOK
<1> QED
  BY <1>1, Invariance, PTL

\* list_add_*() and list_remove() of core/task.c: whatever interrupts fall
\* between the steps of wait_task(), exit(), kernel_thread() and idleloop(),
\* no descriptor is in two task lists or twice in one.
THEOREM OneListHolds == Spec => []OneList
<1>1. IInv => OneList
  BY DEF IInv, ListInv, OneList
<1> QED
  BY <1>1, Invariance, PTL

\* getnexttask() may take the head of task_running after one swap: task 0 is
\* always in task_running or in task_backup.
THEOREM IdleReadyHolds == Spec => []IdleReady
<1>1. IInv => IdleReady
  BY DEF IInv, ListInv, IdleReady
<1> QED
  BY <1>1, Invariance, PTL

\* task_schedinfo_modify() neither divides by zero nor wraps around, for any
\* values of its constants.
THEOREM SliceWithinGrantHolds == Spec => []SliceWithinGrant
<1>1. IInv => SliceWithinGrant
  BY DEF IInv, InfoInv, WithinGrant, SliceWithinGrant
<1> QED
  BY <1>1, Invariance, PTL

\* A task that wait_task() has put to sleep is on the wait queue it names.
THEOREM SleeperReachableHolds == Spec => []SleeperReachable
<1>1. IInv => SleeperReachable
  BY SchedAssumption DEF IInv, SleepInv, SleeperReachable
<1> QED
  BY <1>1, Invariance, PTL
-----------------------------------------------------------------------------
(* The order in which the scheduler serves: what task_backup holds has     *)
(* used up a slice, and a sleeper is woken from the head of a wait queue.  *)

SpentPri(i) == i.pri = i.priInit + NiceScale - NiceBias

SpentIn(q, i) == \A t \in ToSet(q["backup"]) : SpentPri(i[t])

\* A task that exits has left task_wait for good: so the task that idleloop()
\* unlinks is no sleeper.
Departed == \A t \in ToSet(queue["wait"]) : pc[t] \notin ExitLabel

OrderInv == IInv /\ SpentIn(queue, info) /\ Departed

HeadStep ==
    \A t \in Task :
        t \in ToSet(queue["wait"]) \ ToSet(queue'["wait"]) =>
            \/ t = cpu
            \/ \E w \in WaitQueues : wlist[w] # <<>> /\ t = Head(wlist[w])

\* Steps after which task_backup holds no more, with the priorities it had,
\* and task_wait holds no more and has lost no task but to its waker.
LEMMA OrderFrame ==
    ASSUME OrderInv, IInv',
           ToSet(queue'["backup"]) \subseteq ToSet(queue["backup"]),
           ToSet(queue'["wait"]) \subseteq ToSet(queue["wait"]),
           \A t \in ToSet(queue["wait"]) \ ToSet(queue'["wait"]) :
               \/ t = cpu
               \/ \E w \in WaitQueues : wlist[w] # <<>> /\ t = Head(wlist[w]),
           \A t \in ToSet(queue["backup"]) :
               info'[t].pri = info[t].pri /\ info'[t].priInit = info[t].priInit,
           \A t \in ToSet(queue["wait"]) : pc'[t] \in ExitLabel => pc[t] \in ExitLabel
    PROVE  OrderInv' /\ HeadStep
BY DEF OrderInv, SpentIn, SpentPri, Departed, HeadStep

LEMMA QueuesUnchanged ==
    ASSUME OrderInv, IInv', UNCHANGED queue,
           \A t \in ToSet(queue["backup"]) :
               info'[t].pri = info[t].pri /\ info'[t].priInit = info[t].priInit,
           \A t \in ToSet(queue["wait"]) : pc'[t] \in ExitLabel => pc[t] \in ExitLabel
    PROVE  OrderInv' /\ HeadStep
BY OrderFrame

LEMMA Members ==
    ASSUME IInv, NEW n \in QName
    PROVE  ToSet(queue[n]) \subseteq Task
BY SequenceMembers DEF IInv, ListInv

\* getnexttask() empties task_backup or leaves it, and leaves task_wait.
LEMMA PickSpent ==
    ASSUME NEW q, ListInv(q), NEW i, SpentIn(q, i)
    PROVE  /\ SpentIn(PickQueue(q), PickInfo(q, i))
           /\ PickQueue(q)["wait"] = q["wait"]
<1>1. PickQueue(q)["wait"] = q["wait"]
  BY PickLists
<1>2. CASE EpochOver(q)
  <2>1. PickQueue(q)["backup"] = <<>>
    BY <1>2 DEF PickQueue, ListInv, QName
  <2> QED
    BY <1>1, <2>1 DEF SpentIn, ToSet
<1>3. CASE ~ EpochOver(q)
  <2>1. PickQueue(q) = q /\ \A t \in Task : PickInfo(q, i)[t] = i[t]
    BY <1>3 DEF PickQueue, PickInfo
  <2>2. ToSet(q["backup"]) \subseteq Task
    BY SequenceMembers, SMTT(30) DEF ListInv, QName
  <2> QED
    BY <2>1, <2>2 DEF SpentIn
<1> QED
  BY <1>2, <1>3

LEMMA ReturnSpent ==
    ASSUME NEW q, ListInv(q), NEW i, SpentIn(q, i), NEW r, InterruptReturn(q, i, r)
    PROVE  SpentIn(queue', info') /\ queue'["wait"] = q["wait"]
<1>1. ~ NothingToPick(q)
  BY PickLists
<1> QED
  BY <1>1, PickSpent DEF InterruptReturn

LEMMA OrderFail ==
    ASSUME OrderInv, NEW f \in Fates \ {"ok"}, Fail(f)
    PROVE  OrderInv' /\ HeadStep
<1>1. UNCHANGED <<queue, info, pc>>
  BY DEF Fail, lists
<1>2. IInv'
  BY FailInv DEF OrderInv
<1> QED
  BY <1>1, <1>2, QueuesUnchanged

\* A task that used its whole slice gets the priority of one that did.
LEMMA SpentCharged ==
    ASSUME NEW i \in SchedInfo, WithinGrant(i), i.slice = 0
    PROVE  SpentPri(Reassess(i))
<1>1. i.sliceInit \in Nat /\ i.sliceInit > 0 /\ i.sliceInit - i.slice = i.sliceInit
  BY DEF SchedInfo, WithinGrant
<1>2. (i.sliceInit * NiceScale) \div i.sliceInit = NiceScale
  BY <1>1, ShareBounds, SliceAssumption
<1>3. Nice(i) = NiceScale
  BY <1>1, <1>2 DEF Nice
<1>4. /\ Reassess(i).pri = i.priInit + Nice(i) - NiceBias
      /\ Reassess(i).priInit = i.priInit
  BY DEF Reassess, SchedInfo
<1> QED
  BY <1>3, <1>4 DEF SpentPri

LEMMA TickOrder ==
    ASSUME OrderInv, Tick
    PROVE  OrderInv' /\ HeadStep
<1>1. IInv'
  BY TickStep DEF OrderInv
<1>2. fate = "ok" /\ cpu \in Task /\ desc[cpu] = "ready"
  BY DEF Tick, OrderInv, IInv, CpuInv
<1>3. CASE \E f \in Fates \ {"ok"} : Fail(f)
  BY <1>3, OrderFail
<1>4. CASE ~ \E f \in Fates \ {"ok"} : Fail(f)
  <2>1. ~ (Spent /\ ~ Queued(queue, cpu))
    BY <1>4 DEF Tick, Fates
  <2>2. ~ \E t \in Counting : timeout[t] = 0
    BY <1>4, <2>1 DEF Tick, Fates
  <2>3. InterruptReturn(TickQueue, TickInfo, Spent) /\ UNCHANGED pc
    BY <2>1, <2>2 DEF Tick
  <2>4. info \in [Task -> SchedInfo] /\ WithinGrant(info[cpu])
    BY <1>2 DEF OrderInv, IInv, InfoInv
  <2>5. /\ TickInfo[cpu] = Charged(info[cpu])
        /\ \A t \in Task \ {cpu} : TickInfo[t] = info[t]
    BY <1>2, <2>4 DEF TickInfo
  <2>6. /\ ListInv(TickQueue)
        /\ SpentIn(TickQueue, TickInfo)
        /\ ToSet(TickQueue["wait"]) \subseteq ToSet(queue["wait"])
        /\ ToSet(queue["wait"]) \ ToSet(TickQueue["wait"]) \subseteq {cpu}
    <3>1. CASE Spent
      <4>1. TickQueue = AddByPri(Unlink(queue, cpu), "backup", cpu, TickInfo)
        BY <3>1 DEF TickQueue
      <4>2. Moved(queue, "backup", cpu, TickQueue)
        BY <1>2, <4>1, MoveSets DEF OrderInv, IInv, QName
      <4>3. ListInv(TickQueue)
        BY <1>2, <2>1, <3>1, <4>1, MoveToReady DEF OrderInv, IInv
      <4>4. SpentPri(TickInfo[cpu])
        BY <1>2, <2>4, <2>5, <3>1, SpentCharged DEF Spent, Charged
      <4>5. ASSUME NEW t \in ToSet(TickQueue["backup"]) PROVE SpentPri(TickInfo[t])
        <5>1. t \in Task
          BY <4>3, SequenceMembers DEF ListInv, QName
        <5>2. t # cpu => t \in ToSet(queue["backup"])
          BY <4>2 DEF Moved, QName
        <5> QED
          BY <2>5, <4>4, <5>1, <5>2 DEF OrderInv, SpentIn
      <4> QED
        BY <4>2, <4>3, <4>5 DEF Moved, QName, SpentIn
    <3>2. CASE ~ Spent
      <4>1. TickQueue = queue
        BY <3>2 DEF TickQueue
      <4>2. Charged(info[cpu]) = [info[cpu] EXCEPT !.slice = @ - 1]
        BY <3>2 DEF Spent, Charged
      <4>3. \A t \in Task : TickInfo[t].pri = info[t].pri
                            /\ TickInfo[t].priInit = info[t].priInit
        BY <1>2, <2>4, <2>5, <4>2 DEF SchedInfo
      <4>4. ToSet(queue["backup"]) \subseteq Task
        BY Members DEF OrderInv, QName
      <4> QED
        BY <4>1, <4>3, <4>4 DEF OrderInv, IInv, SpentIn, SpentPri
    <3> QED
      BY <3>1, <3>2
  <2>7. SpentIn(queue', info') /\ queue'["wait"] = TickQueue["wait"]
    BY <2>3, <2>6, ReturnSpent
  <2>8. Departed' /\ HeadStep
    BY <2>3, <2>6, <2>7 DEF OrderInv, Departed, HeadStep
  <2> QED
    BY <1>1, <2>7, <2>8 DEF OrderInv, SpentIn
<1> QED
  BY <1>3, <1>4

LEMMA WakeOrder ==
    ASSUME OrderInv, NEW w \in WaitQueues, WakeInterrupt(w)
    PROVE  OrderInv' /\ HeadStep
<1>1. IInv'
  BY WakeInterruptStep DEF OrderInv
<1>2. fate = "ok" /\ wlist[w] # <<>> /\ WakeFirst(w)
  BY DEF WakeInterrupt
<1>3. PICK t \in Task : t = FirstWaiter(w) /\ t = Head(wlist[w])
  BY <1>2, HeadTailProperties DEF OrderInv, IInv, SleepInv, FirstWaiter
<1>4. CASE ~ Wakeable(t)
  BY <1>2, <1>3, <1>4, OrderFail DEF WakeFirst, Fates
<1>5. CASE Wakeable(t)
  <2>1. InterruptReturn(Woken(t), info, TRUE) /\ UNCHANGED pc
    BY <1>2, <1>3, <1>5 DEF WakeFirst
  <2>2. ListInv(Woken(t))
    BY <1>5, MoveToReady DEF OrderInv, IInv, Woken, Wakeable
  <2>3. Moved(queue, "running", t, Woken(t))
    BY MoveSets DEF OrderInv, IInv, Woken, QName
  <2>4. /\ ToSet(Woken(t)["backup"]) \subseteq ToSet(queue["backup"])
        /\ ToSet(Woken(t)["wait"]) \subseteq ToSet(queue["wait"])
        /\ ToSet(queue["wait"]) \ ToSet(Woken(t)["wait"]) \subseteq {t}
    BY <2>3 DEF Moved, QName
  <2>5. SpentIn(Woken(t), info)
    BY <2>4 DEF OrderInv, SpentIn
  <2>6. SpentIn(queue', info') /\ queue'["wait"] = Woken(t)["wait"]
    BY <2>1, <2>2, <2>5, ReturnSpent
  <2>7. Departed' /\ HeadStep
    BY <1>2, <1>3, <2>1, <2>4, <2>6 DEF OrderInv, Departed, HeadStep
  <2> QED
    BY <1>1, <2>6, <2>7 DEF OrderInv, SpentIn
<1> QED
  BY <1>4, <1>5

LEMMA IdleOrder ==
    ASSUME OrderInv, BootDone \/ IdleLoop
    PROVE  OrderInv' /\ HeadStep
<1>1. IInv'
  BY BootDoneStep, IdleWalkStep, IdleSpinStep, ReapUnlinkStep, ReapStackStep,
     ReapDescStep, ReapPgdStep DEF IdleLoop, OrderInv
<1>2. CASE \E f \in Fates \ {"ok"} : Fail(f)
  BY <1>2, OrderFail
<1>3. CASE ~ \E f \in Fates \ {"ok"} : Fail(f)
  <2>1. PICK l \in Label \ ExitLabel : pc' = [pc EXCEPT ![Idle] = l]
    BY <1>3 DEF BootDone, IdleLoop, IdleWalk, IdleSpin, ReapUnlink, ReapStack, ReapDesc,
                ReapPgd, Goto, Label, ExitLabel, Fates
  <2>2. \A t \in Task : pc'[t] \in ExitLabel => pc[t] \in ExitLabel
    BY <2>1 DEF OrderInv, IInv, LocalInv
  <2>3. ToSet(queue["wait"]) \subseteq Task /\ ToSet(queue["backup"]) \subseteq Task
    BY Members DEF OrderInv, QName
  <2>4. CASE ReapUnlink
    <3>1. queue' = Unlink(queue, reap[1]) /\ UNCHANGED info /\ pc[Idle] = "reap_unlink"
      BY <1>3, <2>4 DEF ReapUnlink, Fates
    <3>2. \A n \in QName : ToSet(queue'[n]) = ToSet(queue[n]) \ {reap[1]}
      <4>1. queue \in [QName -> Seq(Task)] /\ Separate(queue)
        BY DEF OrderInv, IInv, ListInv
      <4>2. \A n \in QName : ToSet(Unlink(queue, reap[1])[n]) = ToSet(queue[n]) \ {reap[1]}
        BY ONLY <4>1, UnlinkSeparate
      <4> QED
        BY <3>1, <4>2
    <3>3. reap[1] \notin ToSet(queue["wait"])
      BY <3>1 DEF OrderInv, IInv, LocalInv, Departed
    <3> QED
      BY <1>1, <2>2, <2>3, <3>1, <3>2, <3>3, OrderFrame DEF QName
  <2>5. CASE ~ ReapUnlink
    <3>1. /\ UNCHANGED queue
          /\ \/ UNCHANGED info
             \/ info' = [info EXCEPT ![Idle].slice = 0]
      BY <1>3, <2>5 DEF BootDone, IdleLoop, IdleWalk, IdleSpin, ReapStack, ReapDesc,
                        ReapPgd, lists, Fates
    <3>2. \A t \in Task : info'[t].pri = info[t].pri /\ info'[t].priInit = info[t].priInit
      BY <3>1 DEF OrderInv, IInv, InfoInv, SchedInfo
    <3> QED
      BY <1>1, <2>2, <2>3, <3>1, <3>2, QueuesUnchanged
  <2> QED
    BY <2>4, <2>5
<1> QED
  BY <1>2, <1>3

\* wait_task() and exit() take the caller, which is not asleep, off its list.
LEMMA LeaveOrder ==
    ASSUME OrderInv, NEW t \in Task, WaitEnter(t) \/ Exit(t)
    PROVE  OrderInv' /\ HeadStep
<1>1. IInv'
  BY WaitEnterStep, ExitStep DEF OrderInv
<1>2. CASE \E f \in Fates \ {"ok"} : Fail(f)
  BY <1>2, OrderFail
<1>3. CASE ~ \E f \in Fates \ {"ok"} : Fail(f)
  <2>1. PICK n \in {"wait", "exit"}, l \in Label :
            /\ Moved(queue, n, t, queue')
            /\ pc' = [pc EXCEPT ![t] = l]
            /\ n = "wait" => l = "wait_set"
            /\ cpu = t /\ UNCHANGED info
    <3>1. CASE WaitEnter(t)
      <4>1. /\ queue' = AddTail(Unlink(queue, t), "wait", t)
            /\ pc' = [pc EXCEPT ![t] = "wait_set"] /\ cpu = t /\ UNCHANGED info
        BY <1>3, <3>1 DEF WaitEnter, Running, Goto, Fates
      <4>2. Moved(queue, "wait", t, queue')
        BY <4>1, MoveSets DEF OrderInv, IInv, QName
      <4> QED
        BY <4>1, <4>2 DEF Label
    <3>2. CASE Exit(t)
      <4>1. /\ queue' = AddHead(Unlink(queue, t), "exit", t)
            /\ pc' = [pc EXCEPT ![t] = "exit_pick"] /\ cpu = t /\ UNCHANGED info
        BY <1>3, <3>2 DEF Exit, Running, Goto, Fates
      <4>2. Moved(queue, "exit", t, queue')
        BY <4>1, MoveSets DEF OrderInv, IInv, QName
      <4> QED
        BY <4>1, <4>2 DEF Label
    <3> QED
      BY <3>1, <3>2
  <2>2. /\ ToSet(queue'["backup"]) \subseteq ToSet(queue["backup"])
        /\ ToSet(queue["wait"]) \ {t} \subseteq ToSet(queue'["wait"])
        /\ ToSet(queue'["wait"]) \subseteq ToSet(queue["wait"]) \union {t}
        /\ n # "wait" => t \notin ToSet(queue'["wait"])
    BY <2>1 DEF Moved, QName
  <2>3. pc'[t] = l /\ \A x \in Task \ {t} : pc'[x] = pc[x]
    BY <2>1 DEF OrderInv, IInv, LocalInv
  <2>4. ToSet(queue'["wait"]) \subseteq Task
    BY <1>1, SequenceMembers DEF QName, IInv, ListInv
  <2>5. Departed'
    BY <2>1, <2>2, <2>3, <2>4 DEF OrderInv, Departed, ExitLabel
  <2>6. HeadStep /\ SpentIn(queue', info')
    BY <2>1, <2>2 DEF OrderInv, HeadStep, SpentIn
  <2> QED
    BY <1>1, <2>5, <2>6 DEF OrderInv, SpentIn
<1> QED
  BY <1>2, <1>3

LEMMA WaitOrder ==
    ASSUME OrderInv, NEW t \in Task,
           WaitLink(t) \/ ExitReturned(t)
           \/ \E w \in WaitQueues, d \in Timeouts \union {INFINIT} : WaitSet(t, w, d)
    PROVE  OrderInv' /\ HeadStep
<1>1. IInv'
  BY WaitSetStep, WaitLinkStep, ExitReturnedStep DEF OrderInv
<1>2. CASE \E f \in Fates \ {"ok"} : Fail(f)
  BY <1>2, OrderFail
<1>3. CASE ~ \E f \in Fates \ {"ok"} : Fail(f)
  <2>1. PICK l \in {"wait_link", "wait_pick"} :
            pc' = [pc EXCEPT ![t] = l] /\ UNCHANGED <<queue, info>>
    BY <1>3 DEF WaitSet, WaitLink, ExitReturned, Goto, Fates, lists
  <2>2. \A x \in Task : pc'[x] \in ExitLabel => pc[x] \in ExitLabel
    BY <2>1 DEF OrderInv, IInv, LocalInv, ExitLabel
  <2>3. ToSet(queue["wait"]) \subseteq Task
    BY Members DEF OrderInv, QName
  <2> QED
    BY <1>1, <2>1, <2>2, <2>3, QueuesUnchanged
<1> QED
  BY <1>2, <1>3

LEMMA ScheduleOrder ==
    ASSUME OrderInv, NEW t \in Task, Schedule(t)
    PROVE  OrderInv' /\ HeadStep
<1>1. IInv'
  BY SchedulePickStep, ScheduleSwitchStep DEF OrderInv, Schedule
<1>2. CASE \E f \in Fates \ {"ok"} : Fail(f)
  BY <1>2, OrderFail
<1>3. CASE ~ \E f \in Fates \ {"ok"} : Fail(f)
  <2>1. PICK l \in Label :
            /\ pc' = [pc EXCEPT ![t] = l]
            /\ l \in ExitLabel => pc[t] \in ExitLabel
            /\ \/ UNCHANGED <<queue, info>>
               \/ queue' = PickQueue(queue) /\ info' = PickInfo(queue, info)
    <3>1. CASE SchedulePick(t)
      BY <1>3, <3>1 DEF SchedulePick, Goto, AfterSchedule, SwitchLabel, Label, ExitLabel, Fates
    <3>2. CASE ScheduleSwitch(t)
      BY <3>2 DEF ScheduleSwitch, Goto, AfterSchedule, Label, ExitLabel, lists
    <3> QED
      BY <3>1, <3>2 DEF Schedule
  <2>2. \A x \in Task : pc'[x] \in ExitLabel => pc[x] \in ExitLabel
    BY <2>1 DEF OrderInv, IInv, LocalInv
  <2>3. SpentIn(queue', info') /\ queue'["wait"] = queue["wait"]
    BY <2>1, PickSpent DEF OrderInv, IInv
  <2>4. ToSet(queue["wait"]) \subseteq Task
    BY Members DEF OrderInv, QName
  <2> QED
    BY <1>1, <2>2, <2>3, <2>4 DEF OrderInv, SpentIn, Departed, HeadStep
<1> QED
  BY <1>2, <1>3

\* kernel_thread() writes to a descriptor that is in no list or in
\* task_running only.
LEMMA CreateOrder ==
    ASSUME OrderInv, NEW t \in Task, KernelThread(t)
    PROVE  OrderInv' /\ HeadStep
<1>1. IInv'
  BY KtAllocStep, KtInsertStep, KtCopySteps, KtContextStep DEF KernelThread, OrderInv
<1>2. ToSet(queue["wait"]) \subseteq Task /\ ToSet(queue["backup"]) \subseteq Task
  BY Members DEF OrderInv, QName
<1>3. pc \in [Task -> Label] /\ info \in [Task -> SchedInfo] /\ newtask \in [Task -> Threads \union {NIL}]
  BY DEF OrderInv, IInv, LocalInv, InfoInv
<1>4. CASE \E n \in Threads : KtAlloc(t, n)
  <2>1. PICK n \in Threads : KtAlloc(t, n)
    BY <1>4
  <2>2. /\ desc[n] = "free" /\ info' = [info EXCEPT ![n] = ZeroInfo]
        /\ pc' = [pc EXCEPT ![t] = "kt_insert"] /\ UNCHANGED queue
    BY <2>1 DEF KtAlloc, Goto
  <2>3. n \notin ToSet(queue["backup"])
    BY <2>2 DEF OrderInv, IInv, ListInv, Queued, QName, Task
  <2>4. \A x \in Task : pc'[x] \in ExitLabel => pc[x] \in ExitLabel
    BY <1>3, <2>2 DEF ExitLabel
  <2>5. \A x \in ToSet(queue["backup"]) : info'[x] = info[x]
    BY <1>2, <1>3, <2>2, <2>3
  <2> QED
    BY <1>1, <1>2, <2>2, <2>4, <2>5, QueuesUnchanged
<1>5. CASE KtInsert(t)
  <2>1. /\ queue' = AddByPri(queue, "running", newtask[t], info)
        /\ pc' = [pc EXCEPT ![t] = "kt_pri"] /\ UNCHANGED info
    BY <1>5 DEF KtInsert, Goto
  <2>2. queue'["wait"] = queue["wait"] /\ queue'["backup"] = queue["backup"]
    BY <2>1 DEF AddByPri, OrderInv, IInv, ListInv, QName
  <2>3. \A x \in Task : pc'[x] \in ExitLabel => pc[x] \in ExitLabel
    BY <1>3, <2>1 DEF ExitLabel
  <2> QED
    BY <1>1, <1>2, <2>1, <2>2, <2>3, OrderFrame
<1>6. CASE KtPri(t) \/ KtSlice(t) \/ KtSliceInit(t)
  <2>1. PICK l \in KtLabel :
            /\ pc[t] \in KtLabel \ {"kt_insert"} /\ pc' = [pc EXCEPT ![t] = l]
            /\ \A x \in Task \ {newtask[t]} : info'[x] = info[x]
            /\ UNCHANGED queue
    <3>1. PICK at \in KtLabel \ {"kt_insert"}, l \in KtLabel, F \in SUBSET DOMAIN ZeroInfo :
              KtInherit(t, at, l, F)
      BY <1>6 DEF KtPri, KtSlice, KtSliceInit, KtLabel, ZeroInfo
    <3> QED
      BY <1>3, <3>1 DEF KtInherit, Goto
  <2>2. newtask[t] \in Task /\ newtask[t] \notin ToSet(queue["backup"])
    BY <2>1 DEF OrderInv, IInv, ListInv, LocalInv, KtLabel, Task
  <2>3. \A x \in Task : pc'[x] \in ExitLabel => pc[x] \in ExitLabel
    BY <1>3, <2>1 DEF ExitLabel, KtLabel
  <2>4. \A x \in ToSet(queue["backup"]) : info'[x] = info[x]
    BY <1>2, <2>1, <2>2
  <2> QED
    BY <1>1, <1>2, <2>1, <2>3, <2>4, QueuesUnchanged
<1>7. CASE KtContext(t)
  <2>1. pc' = [pc EXCEPT ![t] = "user", ![newtask[t]] = "user"] /\ UNCHANGED <<queue, info>>
    BY <1>7 DEF KtContext, lists
  <2>2. \A x \in Task : pc'[x] \in ExitLabel => pc[x] \in ExitLabel
    BY <1>3, <2>1 DEF ExitLabel
  <2> QED
    BY <1>1, <1>2, <2>1, <2>2, QueuesUnchanged
<1> QED
  BY <1>4, <1>5, <1>6, <1>7 DEF KernelThread

LEMMA OrderNext ==
    ASSUME OrderInv, [Next]_vars
    PROVE  OrderInv' /\ (HeadStep \/ UNCHANGED vars)
<1>1. CASE UNCHANGED vars
  <2>1. UNCHANGED <<queue, info, pc>> /\ IInv'
    BY <1>1, NextInv DEF vars, OrderInv
  <2> QED
    BY <2>1, QueuesUnchanged
<1>2. CASE Interrupt
  BY <1>2, TickOrder, WakeOrder DEF Interrupt
<1>3. CASE BootDone \/ IdleLoop
  BY <1>3, IdleOrder
<1>4. ASSUME NEW t \in Task, TaskStep(t) PROVE OrderInv' /\ HeadStep
  BY <1>4, LeaveOrder, WaitOrder, ScheduleOrder, CreateOrder DEF TaskStep, Wait
<1> QED
  BY <1>1, <1>2, <1>3, <1>4 DEF Next

LEMMA OrderInit == Init => OrderInv
<1> SUFFICES ASSUME Init PROVE OrderInv
  OBVIOUS
<1>1. queue["wait"] = <<>> /\ queue["backup"] = <<>>
  BY DEF Init, QName
<1> QED
  BY <1>1, InitInv DEF OrderInv, SpentIn, Departed, ToSet

THEOREM OrderInvariance == Spec => []OrderInv
<1>1. OrderInv /\ [Next]_vars => OrderInv'
  BY OrderNext
<1> QED
  BY <1>1, OrderInit, PTL DEF Spec

\* systick() and getnexttask(): for any number of tasks and any slice
\* constants, task_backup holds only tasks with the priority of one that used
\* all of its slice.
THEOREM BackupSpentHolds == Spec => []BackupSpent
<1>1. OrderInv => BackupSpent
  BY DEF OrderInv, SpentIn, SpentPri, BackupSpent
<1> QED
  BY <1>1, OrderInvariance, PTL

\* wakeup_task() by sem_signal(): for any number of tasks, a task other than
\* the current one leaves task_wait only as the first of its wait queue.
THEOREM WokenFromHeadHolds == Spec => WokenFromHead
<1>1. OrderInv /\ [Next]_vars => [HeadStep]_vars
  BY OrderNext
<1> QED
  BY <1>1, OrderInvariance, PTL DEF Spec, WokenFromHead, HeadStep
=============================================================================
