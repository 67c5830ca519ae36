----------------------------- MODULE NetworkProofs -----------------------------
(***************************************************************************)
(* The network from the cards to the protocols.  Its parts share no state; *)
(* each section proves what one of them promises:                          *)
(*   NetRx       NoSleepOnFrames: net_proc and the interrupts              *)
(*   E1000Rx     RxComplete: the receive ring of e1000.c                   *)
(*   Rtl8139     FramesWhole: the receive ring of rtl8139.c                *)
(*   NetStack    ArpSound and AnswersAsker: ARP, UDP and ICMP              *)
(*   E1000Link   OwnBits: the registers of the PHY                         *)
(*   Upload      RamWritten: the client and the server of the upload       *)
(***************************************************************************)
EXTENDS NetRx, E1000Link, E1000Rx, Rtl8139, NetStack, Upload, SemProofs, FunctionTheorems

(***************************************************************************)
(* NoSleepOnFrames of NetRx.                                               *)
(***************************************************************************)

\* rxef_sem is the only semaphore anybody waits for, and net_proc the only one
\* who does, on its way to the test of rxef_list.
Alone ==
    /\ \A t \in Task : semAt[t] # "out" => t = NetProc /\ semOf[t] = RxefSem
    /\ \A s \in WaitQueues \ {RxefSem} : ticket[s] = 0
    /\ semAt[NetProc] # "out" => rxPc = "check"

\* With frames in the list a ticket keeps net_proc from blocking, and it is not
\* about to; in task_wait it is only if the machine stopped while it entered.
Told ==
    rxefList # <<>> =>
        /\ fate = "ok" /\ semAt[NetProc] = "out" /\ rxPc = "wait" => ticket[RxefSem] > 0
        /\ fate = "ok" => semAt[NetProc] # "block"
        /\ NetProc \in ToSet(queue["wait"]) => fate # "ok" /\ pc[NetProc] \in AtWait

ToldInv == AwakeInv /\ Alone /\ (stray \/ Told)

LEMMA ProcIsTask == NetProc \in Task /\ RxefSem \in WaitQueues
  BY NetAssumption, SchedAssumption DEF Task

LEMMA SemTypes ==
    ASSUME AwakeInv
    PROVE  /\ semAt \in [Task -> {"out", "block", "wait"}] /\ ticket \in [WaitQueues -> Int]
           /\ semOf \in [Task -> WaitQueues \union {NIL}]
           /\ \A s \in WaitQueues : ticket[s] <= MaxTicket[s]
BY DEF AwakeInv, SemInv, WaiterInv, SemTypeOK

LEMMA NetSchedTold ==
    ASSUME ToldInv, NetSched
    PROVE  ToldInv'
<1>1. /\ UNCHANGED <<rxefList, rxPc>> /\ fate = "ok" /\ (stray => stray')
      /\ SemTick \/ SchedStep \/ \E t \in Task : SemStep(t)
  BY SchedRuns DEF NetSched, netVars
<1>2. semAt \in [Task -> {"out", "block", "wait"}]
  BY SemTypes DEF ToldInv
<1>3. stray \/ (rxefList # <<>> => /\ semAt[NetProc] # "block"
                                    /\ NetProc \notin ToSet(queue["wait"]))
  BY <1>1 DEF ToldInv, Told
<1>4. CASE SemTick \/ SchedStep
  <2>1. AwakeInv' /\ SleepersStay /\ UNCHANGED <<semAt, semOf, ticket>>
    BY <1>4, TickAwake, SchedAwake
       DEF ToldInv, SemTick, SchedStep, SemSchedule, semVars
  <2> QED
    BY <1>1, <1>3, <2>1 DEF ToldInv, Alone, Told, SleepersStay
<1>5. ASSUME NEW t \in Task, SemLink(t) PROVE ToldInv'
  <2>1. AwakeInv' /\ SleepersStay /\ UNCHANGED <<semAt, semOf, ticket>>
    BY <1>5, LinkAwake DEF ToldInv, SemLink, semVars
  <2> QED
    BY <1>1, <1>3, <2>1 DEF ToldInv, Alone, Told, SleepersStay
<1>6. ASSUME NEW t \in Task, SemBlock(t) PROVE ToldInv'
  <2>1. AwakeInv' /\ semAt[t] = "block" /\ semAt' = [semAt EXCEPT ![t] = "wait"]
        /\ UNCHANGED <<ticket, semOf, stray>>
    BY <1>6, BlockAwake DEF ToldInv, SemBlock
  <2>2. t = NetProc
    BY <2>1 DEF ToldInv, Alone
  <2>3. stray \/ rxefList = <<>>
    BY <1>3, <2>1, <2>2
  <2>4. Alone'
    BY <1>1, <1>2, <2>1, <2>2 DEF ToldInv, Alone
  <2> QED
    BY <1>1, <2>1, <2>3, <2>4 DEF ToldInv, Told
<1>7. ASSUME NEW t \in Task, SemReturn(t) PROVE ToldInv'
  <2>1. /\ AwakeInv' /\ semAt' = [semAt EXCEPT ![t] = "out"] /\ semAt[t] = "wait"
        /\ UNCHANGED <<queue, ticket, semOf, stray>>
    BY <1>7, BackAwake DEF ToldInv, SemReturn, Returned, vars
  <2>2. t = NetProc /\ rxPc' = "check"
    BY <1>1, <2>1 DEF ToldInv, Alone
  <2>3. Alone'
    BY <1>1, <1>2, <2>1, <2>2 DEF ToldInv, Alone
  <2> QED
    BY <1>1, <1>2, <1>3, <2>1, <2>2, <2>3 DEF ToldInv, Told
<1> QED
  BY <1>1, <1>4, <1>5, <1>6, <1>7 DEF SemStep

\* net_proc tests the list again after each frame, and calls sem_wait() only
\* when it has found the list empty.
LEMMA ProcTold ==
    ASSUME ToldInv, Proc
    PROVE  ToldInv'
<1>1. fate = "ok" /\ semAt[NetProc] = "out"
  BY DEF Proc, ProcWait, ProcCheck, ProcTake, ProcFrame, InProc, Running
<1>2. stray \/ NetProc \notin ToSet(queue["wait"])
  BY <1>1, ProcIsTask DEF ToldInv, AwakeInv, Awake
<1>3. CASE ProcWait
  <2>1. /\ rxPc = "wait" /\ rxPc' = "check" /\ UNCHANGED rxefList
        /\ SemWait(NetProc, RxefSem)
    BY <1>3 DEF ProcWait, InProc
  <2>2. AwakeInv' /\ UNCHANGED vars
    BY <2>1, TakeAwake, ProcIsTask DEF ToldInv
  <2>3. /\ semAt' = [semAt EXCEPT ![NetProc] = IF ticket[RxefSem] > 0 THEN "out" ELSE "block"]
        /\ semOf' = [semOf EXCEPT ![NetProc] = RxefSem]
        /\ ticket' = [ticket EXCEPT ![RxefSem] = @ - 1]
        /\ UNCHANGED <<stray, queue>>
    BY <2>1, <2>2 DEF SemWait, TakeTicket, vars
  <2>4. /\ semAt \in [Task -> {"out", "block", "wait"}]
        /\ semOf \in [Task -> WaitQueues \union {NIL}] /\ ticket \in [WaitQueues -> Int]
    BY SemTypes DEF ToldInv
  <2>5. Alone'
    BY <2>1, <2>3, <2>4, ProcIsTask DEF ToldInv, Alone
  <2>6. stray \/ (rxefList # <<>> => semAt'[NetProc] = "out")
    BY <1>1, <2>1, <2>3, <2>4, ProcIsTask DEF ToldInv, Told
  <2> QED
    BY <1>2, <2>1, <2>2, <2>3, <2>5, <2>6 DEF ToldInv, Told
<1>4. CASE ProcCheck \/ ProcTake \/ ProcFrame
  <2>1. /\ UNCHANGED <<vars, semVars>>
        /\ rxPc' \in {"wait", "check", "take", "process"}
        /\ rxPc' = "wait" => rxefList' = <<>>
    BY <1>4 DEF ProcCheck, ProcTake, ProcFrame
  <2>2. UNCHANGED <<queue, cpu, pc, wlist, fate, semAt, semOf, ticket, stray>>
    BY <2>1 DEF vars, semVars
  <2>3. AwakeInv'
    <3>1. SemInv'
      BY <2>1, SemNextInv DEF ToldInv, AwakeInv
    <3> QED
      BY <2>2, <3>1 DEF ToldInv, AwakeInv, Awake
  <2> QED
    BY <1>1, <1>2, <2>1, <2>2, <2>3 DEF ToldInv, Told, Alone
<1> QED
  BY <1>3, <1>4 DEF Proc

\* Whoever finds net_proc asleep wakes it, and otherwise leaves a ticket.
LEMMA ArrivalTold ==
    ASSUME ToldInv, NEW f \in Frames, RxInterrupt(f)
    PROVE  ToldInv'
<1>1. /\ SemSignal(RxefSem) /\ fate = "ok" /\ UNCHANGED rxPc
      /\ UNCHANGED <<semOf, semAt, stray>>
  BY DEF RxInterrupt, RxefInsert, SemSignal
<1>2. AwakeInv'
  BY <1>1, SignalAwake, ProcIsTask DEF ToldInv
<1>3. /\ ticket \in [WaitQueues -> Int] /\ semAt \in [Task -> {"out", "block", "wait"}]
      /\ ticket[RxefSem] <= 1
  BY SemTypes, ProcIsTask, NetAssumption DEF ToldInv
<1>4. /\ Alone'
      /\ ticket[RxefSem] >= 0 => ticket'[RxefSem] > 0
  <2>1. CASE Fail("no_waiter") /\ UNCHANGED ticket /\ ticket[RxefSem] < 0
    BY <1>1, <1>3, <2>1, ProcIsTask DEF ToldInv, Alone
  <2>2. CASE GiveTicket(RxefSem)
    BY <1>1, <1>3, <2>2, ProcIsTask, NetAssumption DEF ToldInv, Alone, GiveTicket
  <2> QED
    BY <1>1, <1>3, <2>1, <2>2, ProcIsTask DEF SemSignal
<1>5. CASE stray
  BY <1>1, <1>2, <1>4, <1>5 DEF ToldInv
<1>6. CASE ~ stray
  <2>1. SemInv /\ Awake /\ Alone
    BY <1>6 DEF ToldInv, AwakeInv
  <2>2. \A s \in WaitQueues : /\ wlist[s] \in Seq(Task) /\ IsFiniteSet(Entering(s))
                              /\ Len(wlist[s]) \in Nat /\ Cardinality(Entering(s)) \in Nat
    BY <2>1, TasksFinite, FS_CardinalityType DEF SemInv, IInv, SleepInv
  <2>3. ASSUME NEW s \in WaitQueues, ticket[s] >= 0
        PROVE  wlist[s] = <<>> /\ Entering(s) = {}
    <3>1. Len(wlist[s]) = 0 /\ Cardinality(Entering(s)) = 0
      BY <1>3, <2>1, <2>2, <2>3 DEF SemInv, Accounts, Owed
    <3> QED
      BY <2>2, <3>1, FS_EmptySet, EmptySeq
  <2>4. \A t \in Task : t \in ToSet(queue["wait"]) /\ pc[t] \notin AtWait
                            => t = NetProc /\ t \in ToSet(wlist[RxefSem])
    <3> SUFFICES ASSUME NEW t \in Task, t \in ToSet(queue["wait"]), pc[t] \notin AtWait
                 PROVE  t = NetProc /\ t \in ToSet(wlist[RxefSem])
      OBVIOUS
    <3>1. PICK w \in WaitQueues : t \in ToSet(wlist[w])
      BY <2>1 DEF SemInv, IInv, SleepInv, AtWait
    <3>2. w = RxefSem
      <4>1. wlist[w] # <<>>
        BY <3>1 DEF ToSet
      <4> QED
        BY <1>3, <2>1, <2>3, <4>1 DEF Alone
    <3>3. t = NetProc
      BY <2>1 DEF Awake, Alone
    <3> QED
      BY <3>1, <3>2, <3>3
  <2>5. CASE ticket[RxefSem] >= 0
    <3>1. UNCHANGED <<queue, pc, fate>> /\ ticket'[RxefSem] > 0
      BY <1>1, <1>4, <2>5 DEF SemSignal, vars
    <3>2. wlist[RxefSem] = <<>> /\ Entering(RxefSem) = {}
      BY <2>3, <2>5, ProcIsTask
    <3>3. semAt[NetProc] # "block" /\ ~ (semAt[NetProc] = "wait" /\ pc[NetProc] \in AtWait)
      BY <2>1, <3>2, ProcIsTask DEF Entering, AtWait, Alone
    <3>4. NetProc \notin ToSet(queue["wait"])
      BY <2>1, <2>4, <3>2, <3>3, ProcIsTask, EmptySeq DEF Awake, ToSet
    <3> QED
      BY <1>1, <1>2, <1>4, <3>1, <3>3, <3>4 DEF ToldInv, Told
  <2>6. CASE ticket[RxefSem] < 0 /\ wlist[RxefSem] = <<>>
    <3>1. fate' = "no_waiter" /\ UNCHANGED <<queue, pc>>
      BY <1>1, <1>3, <2>6, ProcIsTask DEF SemSignal, Fail, lists
    <3>2. NetProc \in ToSet(queue["wait"]) => pc[NetProc] \in AtWait
      BY <2>4, <2>6, ProcIsTask DEF ToSet
    <3> QED
      BY <1>1, <1>2, <1>4, <3>1, <3>2 DEF ToldInv, Told
  <2>7. CASE ticket[RxefSem] < 0 /\ wlist[RxefSem] # <<>>
    <3>1. PICK t \in ToSet(wlist[RxefSem]) :
              ToSet(queue'["wait"]) = ToSet(queue["wait"]) \ {t}
      BY <1>1, <2>7, SignalAwake, ProcIsTask DEF ToldInv
    <3>2. t \in Task /\ t \in ToSet(queue["wait"]) /\ pc[t] \notin AtWait
      BY <2>1, ProcIsTask, HangTasks DEF Awake
    <3>3. t = NetProc /\ semAt[t] = "wait"
      BY <2>1, <2>4, <3>2 DEF Awake
    <3> QED
      BY <1>1, <1>2, <1>4, <3>1, <3>3 DEF ToldInv, Told
  <2> QED
    BY <1>3, <2>5, <2>6, <2>7, ProcIsTask
<1> QED
  BY <1>5, <1>6

LEMMA ToldNext == ToldInv /\ [NetNext]_allVars => ToldInv'
<1> SUFFICES ASSUME ToldInv, [NetNext]_allVars PROVE ToldInv'
  OBVIOUS
<1>1. CASE UNCHANGED allVars
  <2>1. /\ UNCHANGED <<queue, cpu, pc, wlist, fate, ticket, semOf, semAt, stray, rxefList, rxPc>>
        /\ UNCHANGED <<vars, semVars>>
    BY <1>1 DEF allVars, vars, semVars, netVars
  <2>2. SemInv'
    BY <2>1, SemNextInv DEF ToldInv, AwakeInv
  <2> QED
    BY <2>1, <2>2 DEF ToldInv, AwakeInv, Awake, Alone, Told
<1> QED
  BY <1>1, NetSchedTold, ProcTold, ArrivalTold DEF NetNext

\* net_proc tests rxef_list with interrupts on before it sleeps: with any number
\* of tasks, frames and other semaphores, no frame that arrives meanwhile is
\* left lying, as long as sleepers run only after they were woken.
THEOREM NoSleepOnFramesHolds == NetSpec => []NoSleepOnFrames
<1>1. NetInit => ToldInv
  <2>1. NetInit => /\ semAt = [t \in Task |-> "out"] /\ rxefList = <<>>
                   /\ ticket = [s \in WaitQueues |-> 0]
    BY DEF NetInit, SemInit
  <2> QED
    BY <2>1, AwakeInitially, ProcIsTask DEF NetInit, ToldInv, Alone, Told
<1>2. ToldInv => NoSleepOnFrames
  BY DEF ToldInv, Told, NoSleepOnFrames, Asleep, AtWait
<1> QED
  BY <1>1, <1>2, ToldNext, PTL DEF NetSpec
-----------------------------------------------------------------------------
(***************************************************************************)
(* RxComplete of E1000Rx for rings of every size: head and tail, counted   *)
(* without wrapping, say which frames lie in the ring.                     *)
(***************************************************************************)

\* With head and tail counted without wrapping: the tail has passed r
\* descriptors, h was the head the handler has read, and the descriptors
\* between tail and head hold the frames that have arrived.
Counts(r, h) ==
    /\ rdt = r % NRxDesc
    /\ r <= rxArrived /\ rxArrived <= r + NRxDesc
    /\ rxArrived > 0 => r < rxArrived
    /\ \A k \in r .. rxArrived - 1 : rxdesc[k % NRxDesc] = k + 1
    /\ isrAt = "head" => rxArrived > 0
    /\ isrAt \in {"hand", "tail"} =>
           /\ isrRdh = h % NRxDesc /\ r < h /\ h <= rxArrived
           /\ icr \/ h = rxArrived
    /\ Len(rxPassed) = IF isrAt = "tail" THEN h - 1 ELSE r
    /\ isrAt = "out" /\ ~icr /\ rxArrived > 0 => r = rxArrived - 1

RxRingInv ==
    /\ rxArrived \in Nat /\ rdh = rxArrived % NRxDesc
    /\ icr \in BOOLEAN /\ isrAt \in {"out", "head", "hand", "tail"}
    /\ icr => rxArrived > 0
    /\ DOMAIN rxdesc = 0 .. NRxDesc - 1
    /\ rxPassed \in Seq(Nat) /\ \A i \in 1 .. Len(rxPassed) : rxPassed[i] = i + 1
    /\ \E r, h \in Nat : Counts(r, h)

LEMMA Descriptors == NRxDesc \in Nat \ {0} /\ NRxDesc > 1
  BY RxRingAssumption

\* The card stops before the head meets the tail, so it leaves the frames that
\* wait alone.
LEMMA StoreStep ==
    ASSUME RxRingInv, CardStores
    PROVE  RxRingInv'
<1> USE Descriptors
<1>1. PICK r \in Nat, h \in Nat : Counts(r, h)
  BY DEF RxRingInv
<1>2. PICK a \in Nat : a = rxArrived /\ rdh = a % NRxDesc
  BY DEF RxRingInv
<1>3. a < r + NRxDesc
  <2>1. CASE a = r + NRxDesc
    <3>1. a = r + 1 * NRxDesc /\ a \in Int /\ r \in Int /\ 1 \in Int
      BY <2>1
    <3>2. a % NRxDesc = r % NRxDesc
      BY ONLY <3>1, Descriptors, SameRemainder, Zenon
    <3> QED
      BY <1>1, <1>2, <2>1, <3>2 DEF CardStores, Counts
  <2> QED
    BY <1>1, <1>2, <2>1 DEF Counts
<1>4. /\ rdh' = (a + 1) % NRxDesc
      /\ a + 1 \in Nat
  <2>1. a \in Int /\ 1 \in Int /\ a + 1 \in Nat
    OBVIOUS
  <2>2. ((a % NRxDesc) + 1) % NRxDesc = (a + 1) % NRxDesc
    BY ONLY <2>1, Descriptors, RemainderPlus, Zenon
  <2>3. rdh' = (rdh + 1) % NRxDesc
    BY DEF CardStores, NextDesc
  <2> QED
    BY ONLY <1>2, <2>1, <2>2, <2>3, Zenon
<1>5. a % NRxDesc \in 0 .. NRxDesc - 1
  OBVIOUS
<1>6. \A k \in r .. a : rxdesc'[k % NRxDesc] = k + 1
  <2> SUFFICES ASSUME NEW k \in r .. a PROVE rxdesc'[k % NRxDesc] = k + 1
    OBVIOUS
  <2>1. rxdesc' = [rxdesc EXCEPT ![a % NRxDesc] = a + 1]
    BY <1>2 DEF CardStores
  <2>2. CASE k = a
    BY <1>5, <2>1, <2>2 DEF RxRingInv
  <2>3. CASE k # a
    <3>0. k \in Int /\ a \in Int /\ k < a /\ a < k + NRxDesc /\ k \in r .. a - 1
      BY <1>3, <2>3
    <3>1. k % NRxDesc # a % NRxDesc
      BY ONLY <3>0, Descriptors, OtherRemainder, Zenon
    <3>2. rxdesc[k % NRxDesc] = k + 1
      BY ONLY <1>1, <1>2, <3>0, Zenon DEF Counts
    <3>3. k % NRxDesc \in 0 .. NRxDesc - 1
      OBVIOUS
    <3> QED
      BY <2>1, <3>1, <3>2, <3>3 DEF RxRingInv
  <2> QED
    BY <2>2, <2>3
<1>7. /\ rxArrived' = a + 1 /\ icr' = TRUE /\ DOMAIN rxdesc' = DOMAIN rxdesc
      /\ UNCHANGED <<rdt, isrAt, isrRdh, rxPassed>>
  BY <1>2 DEF CardStores
<1>8. Counts(r, h)'
  <2>1. \A k \in r .. rxArrived' - 1 : rxdesc'[k % NRxDesc] = k + 1
    BY <1>2, <1>6, <1>7
  <2> QED
    BY <1>1, <1>2, <1>3, <1>7, <2>1 DEF Counts
<1> QED
  BY <1>2, <1>4, <1>7, <1>8 DEF RxRingInv

\* The handler reads the causes and the head.
LEMMA ReadStep ==
    ASSUME RxRingInv, IsrReadIcr \/ IsrReadHead
    PROVE  RxRingInv'
<1>1. PICK r \in Nat, h \in Nat : Counts(r, h)
  BY DEF RxRingInv
<1>2. CASE IsrReadIcr
  <2>1. Counts(r, h)'
    BY <1>1, <1>2 DEF IsrReadIcr, Counts, RxRingInv
  <2> QED
    BY <1>2, <2>1 DEF IsrReadIcr, RxRingInv
<1>3. CASE IsrReadHead
  <2>1. Counts(r, rxArrived)'
    BY <1>1, <1>3 DEF IsrReadHead, Counts, RxRingInv
  <2> QED
    BY <1>3, <2>1 DEF IsrReadHead, RxRingInv
<1> QED
  BY <1>2, <1>3

\* It hands on the frames between the tail and the head it has read.
LEMMA HandStep ==
    ASSUME RxRingInv, IsrHand
    PROVE  RxRingInv'
<1> USE Descriptors
<1>1. PICK r \in Nat, h \in Nat : Counts(r, h)
  BY DEF RxRingInv
<1>2. /\ rdt = r % NRxDesc /\ isrRdh = h % NRxDesc /\ r < h /\ h <= rxArrived
      /\ rxArrived <= r + NRxDesc /\ Len(rxPassed) = r /\ rxArrived \in Nat
      /\ \A k \in r .. rxArrived - 1 : rxdesc[k % NRxDesc] = k + 1
  BY <1>1 DEF IsrHand, Counts, RxRingInv
<1>3. PICK n \in Nat : n = h - r - 1 /\ n < NRxDesc
  BY <1>2
<1>4. (isrRdh - rdt - 1) % NRxDesc = n
  <2>0. h \in Int /\ r \in Int /\ n \in Int /\ h % NRxDesc \in Int /\ r % NRxDesc \in Int
    BY ONLY Descriptors, h \in Nat, r \in Nat, n \in Nat
  <2>1. PICK t \in Int : t = isrRdh /\ isrRdh = h % NRxDesc
    BY ONLY <1>2, <2>0, Zenon
  <2>2. PICK u \in Int : u = rdt /\ rdt = r % NRxDesc
    BY ONLY <1>2, <2>0, Zenon
  <2>3. PICK c \in Int, d \in Int, v \in Int :
            /\ v = t - 1 /\ c = v - r /\ d = -1 - r
            /\ t - u - 1 = v - u /\ c = t + d /\ h + d = n
    BY ONLY <1>3, t \in Int, u \in Int, h \in Nat, r \in Nat, n \in Nat
  <2>4. (v - (r % NRxDesc)) % NRxDesc = c % NRxDesc
    <3>1. (v - (r % NRxDesc)) % NRxDesc = (v - r) % NRxDesc
      BY ONLY <2>0, v \in Int, Descriptors, RemainderMinus, Zenon
    <3> QED
      BY ONLY <2>3, <3>1, Zenon
  <2>5. ((h % NRxDesc) + d) % NRxDesc = n % NRxDesc
    BY ONLY <2>0, <2>3, Descriptors, RemainderPlus, Zenon
  <2>6. n % NRxDesc = n
    <3>1. n \in 0 .. NRxDesc - 1
      BY <1>3
    <3> QED
      BY ONLY <2>0, <3>1, Descriptors, Remainder, Zenon
  <2> QED
    BY ONLY <2>1, <2>2, <2>3, <2>4, <2>5, <2>6, Zenon
<1>5. \A i \in 1 .. n : rxdesc[(rdt + i) % NRxDesc] = r + i + 1
  <2> SUFFICES ASSUME NEW i \in 1 .. n PROVE rxdesc[(rdt + i) % NRxDesc] = r + i + 1
    OBVIOUS
  <2>1. r \in Int /\ i \in Int
    OBVIOUS
  <2>2. ((r % NRxDesc) + i) % NRxDesc = (r + i) % NRxDesc
    BY ONLY <2>1, Descriptors, RemainderPlus, Zenon
  <2>3. r + i \in r .. rxArrived - 1
    BY <1>2, <1>3
  <2> QED
    BY ONLY <1>2, <2>2, <2>3, Zenon
<1>6. PICK s \in Seq(Nat) : s = Handed /\ Len(s) = n /\ \A i \in 1 .. n : s[i] = r + i + 1
  <2>1. Handed = [i \in 1 .. n |-> rxdesc[(rdt + i) % NRxDesc]]
    BY <1>4, Zenon DEF Handed
  <2>2. \A i \in 1 .. n : rxdesc[(rdt + i) % NRxDesc] \in Nat
    BY <1>5
  <2> QED
    <3>1. \A i \in 1 .. n : Handed[i] = r + i + 1 /\ r + i + 1 \in Nat
      BY <1>5, <2>1
    <3>2. Handed = [i \in 1 .. n |-> Handed[i]]
      BY <2>1, Zenon
    <3> QED
      BY ONLY <3>1, <3>2, n \in Nat
<1>7. /\ rxPassed' \in Seq(Nat) /\ Len(rxPassed') = h - 1
      /\ \A i \in 1 .. h - 1 : rxPassed'[i] = i + 1
  <2>1. PICK p \in Seq(Nat) : p = rxPassed /\ Len(p) = r /\ rxPassed' = p \o s
    BY <1>2, <1>6, Zenon DEF IsrHand, RxRingInv
  <2>2. /\ p \o s \in Seq(Nat) /\ Len(p \o s) = r + n
        /\ \A i \in 1 .. r + n : (p \o s)[i] = IF i <= r THEN p[i] ELSE s[i - r]
    <3>1. Len(s) = n /\ Len(p) = r
      BY ONLY <1>6, <2>1, Zenon
    <3> QED
      BY ONLY <3>1, p \in Seq(Nat), s \in Seq(Nat), ConcatProperties, Zenon
  <2>3. \A i \in 1 .. r + n : (p \o s)[i] = i + 1
    <3>1. \A i \in 1 .. r : p[i] = i + 1
      BY <2>1, Zenon DEF RxRingInv
    <3> QED
      BY ONLY <1>6, <2>2, <3>1, r \in Nat, n \in Nat
  <2>4. r + n = h - 1
    BY ONLY <1>3, r \in Nat, h \in Nat
  <2> QED
    BY ONLY <2>1, <2>2, <2>3, <2>4, Zenon
<1>8. /\ isrAt = "hand" /\ isrAt' = "tail"
      /\ UNCHANGED <<rdh, rdt, icr, rxdesc, isrRdh, rxArrived>>
  BY DEF IsrHand
<1>9. Counts(r, h)'
  BY <1>1, <1>7, <1>8 DEF Counts
<1> QED
  BY <1>7, <1>8, <1>9 DEF RxRingInv

\* The tail moves on by what was handed on.
LEMMA TailStep ==
    ASSUME RxRingInv, IsrWriteTail
    PROVE  RxRingInv'
<1> USE Descriptors
<1>1. PICK r \in Nat, h \in Nat : Counts(r, h)
  BY DEF RxRingInv
<1>2. isrAt = "tail" /\ isrRdh = h % NRxDesc /\ r < h /\ h <= rxArrived
  BY <1>1 DEF IsrWriteTail, Counts
<1>3. PICK g \in Nat : g = h - 1
  BY <1>2
<1>4. rdt' = g % NRxDesc
  <2>1. PICK t \in Int : t = isrRdh
    BY <1>2
  <2>2. t + (-1) = t - 1 /\ h + (-1) = g /\ -1 \in Int /\ h \in Int
    BY <1>3, <2>1
  <2>3. ((h % NRxDesc) + (-1)) % NRxDesc = (h + (-1)) % NRxDesc
    BY ONLY <2>2, Descriptors, RemainderPlus, Zenon
  <2> QED
    BY ONLY <1>2, <2>1, <2>2, <2>3, IsrWriteTail, Zenon DEF IsrWriteTail
<1>5. isrAt' = "out" /\ UNCHANGED <<rdh, icr, rxdesc, isrRdh, rxArrived, rxPassed>>
  BY DEF IsrWriteTail
<1>6. Counts(g, h)'
  <2>1. /\ r <= rxArrived /\ rxArrived <= r + NRxDesc /\ (icr \/ h = rxArrived)
        /\ \A k \in r .. rxArrived - 1 : rxdesc[k % NRxDesc] = k + 1
        /\ Len(rxPassed) = g /\ rxArrived \in Nat
    BY <1>1, <1>2, <1>3, Zenon DEF Counts, RxRingInv
  <2>2. /\ r <= g /\ g < rxArrived /\ rxArrived <= g + NRxDesc
        /\ h = rxArrived => g = rxArrived - 1
    BY ONLY <1>2, <1>3, <2>1, Descriptors, r \in Nat, h \in Nat
  <2>3. \A k \in g .. rxArrived - 1 : k \in r .. rxArrived - 1
    BY ONLY <2>1, <2>2, r \in Nat, g \in Nat
  <2>4. /\ g <= rxArrived'
        /\ rxArrived' > 0 => g < rxArrived'
        /\ isrAt' # "head" /\ isrAt' \notin {"hand", "tail"} /\ isrAt' # "tail"
    BY ONLY <1>5, <2>1, <2>2, g \in Nat
  <2> QED
    BY ONLY <1>4, <1>5, <2>1, <2>2, <2>3, <2>4, Zenon DEF Counts
<1> QED
  BY <1>5, <1>6 DEF RxRingInv

\* However long the ring is and however many frames arrive while the handler
\* runs, those behind the first reach the stack in order, and none is left when
\* it has returned and no cause is pending.
THEOREM RxCompleteHolds == RxRingSpec => []RxComplete
<1>1. RxRingInit => RxRingInv
  <2> SUFFICES ASSUME RxRingInit PROVE RxRingInv
    OBVIOUS
  <2>1. 0 % NRxDesc = 0
    BY Descriptors, Remainder
  <2>2. Counts(0, 0)
    BY <2>1, Descriptors DEF RxRingInit, Counts
  <2> QED
    <3>1. /\ rxArrived = 0 /\ rdh = 0 /\ icr = FALSE /\ isrAt = "out"
          /\ DOMAIN rxdesc = 0 .. NRxDesc - 1 /\ rxPassed = <<>>
      BY DEF RxRingInit
    <3>2. rxPassed \in Seq(Nat) /\ 1 .. Len(rxPassed) = {} /\ 0 \in Nat
      BY <3>1
    <3> QED
      BY ONLY <2>1, <2>2, <3>1, <3>2, Zenon DEF RxRingInv
<1>2. RxRingInv /\ [RxRingNext]_rxRingVars => RxRingInv'
  <2> SUFFICES ASSUME RxRingInv, [RxRingNext]_rxRingVars PROVE RxRingInv'
    OBVIOUS
  <2>1. CASE UNCHANGED rxRingVars
    BY <2>1 DEF rxRingVars, RxRingInv, Counts
  <2> QED
    BY <2>1, StoreStep, ReadStep, HandStep, TailStep DEF RxRingNext
<1>3. RxRingInv => RxComplete
  <2> SUFFICES ASSUME RxRingInv PROVE RxComplete
    OBVIOUS
  <2>1. PICK r \in Nat, h \in Nat : Counts(r, h)
    BY DEF RxRingInv
  <2> QED
    BY <2>1 DEF RxRingInv, RxComplete, Counts
<1> QED
  BY <1>1, <1>2, <1>3, PTL DEF RxRingSpec
-----------------------------------------------------------------------------
(***************************************************************************)
(* FramesWhole of Rtl8139 for rings of every size and frames of every      *)
(* length: driver and card agree where each frame begins.                  *)
(***************************************************************************)

\* st says in which cell each frame begins, and the next one will, had the ring
\* no end.
Laid(st) ==
    /\ st \in [1 .. Len(rtlLens) + 1 -> Nat]
    /\ \A i, j \in 1 .. Len(rtlLens) + 1 : i < j => st[i] < st[j]
    /\ \A i \in 1 .. Len(rtlLens) : st[i + 1] = st[i] + 1 + DataCells(rtlLens[i])
    /\ st[Len(rtlLens) + 1] < st[Len(rtlPassed) + 1] + RxCells
    /\ rtlCbr = st[Len(rtlLens) + 1] % RxCells
    /\ rtlCapr = st[Len(rtlPassed) + 1] % RxCells
    /\ \A f \in Len(rtlPassed) + 1 .. Len(rtlLens) :
           \A j \in 0 .. DataCells(rtlLens[f]) : rtlRing[(st[f] + j) % RxCells] = <<f, j>>

Whole(f) == [i \in 1 .. DataCells(rtlLens[f]) |-> <<f, i>>]

RtlInv ==
    /\ rtlLens \in Seq(FrameLens) /\ rtlPassed \in Seq(Seq(Nat \X Nat))
    /\ Len(rtlPassed) <= Len(rtlLens) /\ rxCur = rtlCapr
    /\ \A f \in 1 .. Len(rtlPassed) : rtlPassed[f] = Whole(f)
    /\ \E st : Laid(st)

LEMMA Cells == RxCells \in Nat \ {0}
  BY RtlAssumption

LEMMA CellCount == ASSUME NEW len \in FrameLens PROVE DataCells(len) \in Nat
  BY RtlAssumption DEF DataCells

\* The card stores only what fits between its position and the driver's.
LEMMA RoomLeft ==
    ASSUME NEW b \in Nat, NEW e \in Nat, b <= e, e < b + RxCells, NEW n \in Nat,
           rtlCbr = e % RxCells, rtlCapr = b % RxCells, n < RtlFree
    PROVE  e + n < b + RxCells
<1>1. b \in Int /\ e \in Int
  OBVIOUS
<1>2. CASE b = e
  BY <1>2, Cells DEF RtlFree
<1>3. CASE b # e
  <2>1. PICK u \in Int : u = b - e /\ u < 0 /\ u >= - RxCells
    BY <1>3, Cells
  <2>2. rtlCbr # rtlCapr
    <3>1. b < e /\ e < b + RxCells
      BY <1>3
    <3> QED
      BY ONLY <1>1, <3>1, Cells, OtherRemainder, rtlCbr = e % RxCells, rtlCapr = b % RxCells,
         Zenon
  <2>3. RtlFree = u + RxCells
    <3>1. PICK p \in Int, q \in Int : p = b % RxCells /\ q = e % RxCells
      BY ONLY <1>1, Cells
    <3>2. (p - (e % RxCells)) % RxCells = (p - e) % RxCells
      BY ONLY <1>1, <3>1, Cells, RemainderMinus, Zenon
    <3>3. PICK c \in Int : c = -e /\ b + c = u /\ p + c = p - e
      BY <2>1
    <3>4. ((b % RxCells) + c) % RxCells = (b + c) % RxCells
      BY ONLY <1>1, <3>3, Cells, RemainderPlus, Zenon
    <3>5. u % RxCells = u + RxCells
      BY <2>1, Cells, Remainder
    <3>6. (p - q) % RxCells = u + RxCells
      BY ONLY <3>1, <3>2, <3>3, <3>4, <3>5, Zenon
    <3> QED
      BY ONLY <2>2, <3>1, <3>6, rtlCbr = e % RxCells, rtlCapr = b % RxCells, Zenon
         DEF RtlFree
  <2> QED
    BY ONLY <2>1, <2>3, n < RtlFree, n \in Nat, b \in Nat, e \in Nat, Cells
<1> QED
  BY <1>2, <1>3

\* How far behind the card's position a cell is.
LEMMA Distance ==
    ASSUME NEW e \in Nat, NEW x \in Nat, x < e + RxCells, e < x + RxCells
    PROVE  ((x % RxCells) - (e % RxCells)) % RxCells =
               IF x >= e THEN x - e ELSE x - e + RxCells
<1>1. x \in Int /\ e \in Int
  OBVIOUS
<1>2. PICK p \in Int, c \in Int, u \in Int :
          /\ p = x % RxCells /\ c = -e /\ u = x - e
          /\ p + c = p - e /\ x + c = x - e
  <2>1. PICK p \in Int : p = x % RxCells
    BY ONLY <1>1, Cells
  <2>2. -e \in Int /\ x - e \in Int /\ p + (-e) = p - e /\ x + (-e) = x - e
    BY <2>1
  <2> QED
    BY ONLY <2>1, <2>2, Zenon
<1>3. (p - (e % RxCells)) % RxCells = (p - e) % RxCells
  BY ONLY <1>1, <1>2, Cells, RemainderMinus, Zenon
<1>4. ((x % RxCells) + c) % RxCells = (x + c) % RxCells
  BY ONLY <1>1, <1>2, Cells, RemainderPlus, Zenon
<1>5. u % RxCells = IF x >= e THEN u ELSE u + RxCells
  <2>1. IF x >= e THEN u \in 0 .. RxCells - 1 ELSE u < 0 /\ u >= - RxCells
    BY <1>2, Cells
  <2>2. /\ u \in 0 .. RxCells - 1 => u % RxCells = u
        /\ u < 0 /\ u >= - RxCells => u % RxCells = u + RxCells
    BY Cells, Remainder
  <2> QED
    BY ONLY <2>1, <2>2, Zenon
<1> QED
  BY ONLY <1>2, <1>3, <1>4, <1>5, Zenon

\* The cells of the frames that wait lie between the two positions.
LEMMA Between ==
    ASSUME RtlInv, NEW st, Laid(st), NEW f \in Len(rtlPassed) + 1 .. Len(rtlLens),
           NEW j \in 0 .. DataCells(rtlLens[f])
    PROVE  /\ st[f] + j \in Nat
           /\ st[Len(rtlPassed) + 1] <= st[f] + j /\ st[f] + j < st[Len(rtlLens) + 1]
<1>1. PICK F \in Nat, P \in Nat : F = Len(rtlLens) /\ P = Len(rtlPassed) /\ P <= F
  BY DEF RtlInv
<1>2. PICK d \in Nat : d = DataCells(rtlLens[f])
  BY <1>1, CellCount DEF RtlInv
<1>3. /\ st \in [1 .. F + 1 -> Nat] /\ st[f + 1] = st[f] + 1 + d
      /\ \A i, k \in 1 .. F + 1 : i < k => st[i] < st[k]
  <2>1. /\ st \in [1 .. F + 1 -> Nat]
        /\ \A i, k \in 1 .. F + 1 : i < k => st[i] < st[k]
        /\ \A i \in 1 .. F : st[i + 1] = st[i] + 1 + DataCells(rtlLens[i])
    BY <1>1, Laid(st), Zenon DEF Laid
  <2>2. f \in 1 .. F
    BY ONLY <1>1, f \in Len(rtlPassed) + 1 .. Len(rtlLens)
  <2> QED
    BY ONLY <1>2, <2>1, <2>2, Zenon
<1>4. f \in P + 1 .. F /\ j \in 0 .. d
  BY <1>1, <1>2
<1>5. st[P + 1] <= st[f] /\ st[f + 1] <= st[F + 1]
  <2>1. P + 1 = f \/ P + 1 < f
    BY ONLY <1>1, <1>4
  <2>2. f + 1 = F + 1 \/ f + 1 < F + 1
    BY ONLY <1>1, <1>4
  <2>3. P + 1 \in 1 .. F + 1 /\ f \in 1 .. F + 1 /\ f + 1 \in 1 .. F + 1 /\ F + 1 \in 1 .. F + 1
    BY ONLY <1>1, <1>4
  <2>4. /\ st[P + 1] \in Nat /\ st[f] \in Nat /\ st[f + 1] \in Nat /\ st[F + 1] \in Nat
        /\ st[P + 1] = st[f] \/ st[P + 1] < st[f]
        /\ st[f + 1] = st[F + 1] \/ st[f + 1] < st[F + 1]
    BY ONLY <1>3, <2>1, <2>2, <2>3, Zenon
  <2> QED
    BY ONLY <2>4
<1>6. st[f] \in Nat /\ st[P + 1] \in Nat /\ st[F + 1] \in Nat
  <2>1. P + 1 \in 1 .. F + 1 /\ f \in 1 .. F + 1 /\ F + 1 \in 1 .. F + 1
    BY ONLY <1>1, <1>4
  <2> QED
    BY ONLY <1>3, <2>1, Zenon
<1>7. st[P + 1] <= st[f] + j /\ st[f] + j < st[F + 1] /\ st[f] + j \in Nat
  <2>1. j \in Nat /\ j <= d
    BY ONLY <1>2, <1>4
  <2>2. PICK a \in Nat, b \in Nat, c \in Nat :
            /\ a = st[P + 1] /\ b = st[f] /\ c = st[F + 1]
            /\ a <= b /\ b + 1 + d <= c
    BY ONLY <1>3, <1>5, <1>6, Zenon
  <2>3. a <= b + j /\ b + j < c /\ b + j \in Nat
    <3>1. a <= b /\ b + 1 + d <= c
      BY ONLY <2>2, Zenon
    <3> QED
      BY ONLY <2>1, <3>1, a \in Nat, b \in Nat, c \in Nat, d \in Nat
  <2> QED
    BY ONLY <2>2, <2>3, Zenon
<1> QED
  BY ONLY <1>1, <1>7, Zenon

LEMMA RtlStoreStep ==
    ASSUME RtlInv, NEW len \in FrameLens, RtlStores(len)
    PROVE  RtlInv'
<1>1. PICK st : Laid(st)
  BY DEF RtlInv
<1>2. PICK F \in Nat, P \in Nat : F = Len(rtlLens) /\ P = Len(rtlPassed) /\ P <= F
  BY DEF RtlInv
<1>3. /\ st \in [1 .. F + 1 -> Nat]
      /\ \A i, k \in 1 .. F + 1 : i < k => st[i] < st[k]
      /\ \A i \in 1 .. F : st[i + 1] = st[i] + 1 + DataCells(rtlLens[i])
  BY <1>1, <1>2, Zenon DEF Laid
<1>3a. /\ rtlCbr = st[F + 1] % RxCells /\ rtlCapr = st[P + 1] % RxCells
       /\ st[F + 1] < st[P + 1] + RxCells
       /\ \A f \in P + 1 .. F : \A j \in 0 .. DataCells(rtlLens[f]) :
              rtlRing[(st[f] + j) % RxCells] = <<f, j>>
  BY <1>1, <1>2, Zenon DEF Laid
<1>4. PICK b \in Nat, e \in Nat : b = st[P + 1] /\ e = st[F + 1] /\ b <= e
  <2>1. /\ P + 1 \in 1 .. F + 1 /\ F + 1 \in 1 .. F + 1
        /\ P + 1 = F + 1 \/ P + 1 < F + 1
    BY ONLY <1>2
  <2>2. st[P + 1] \in Nat /\ st[F + 1] \in Nat
    BY ONLY <1>3, <2>1, Zenon
  <2>3. st[P + 1] = st[F + 1] \/ st[P + 1] < st[F + 1]
    BY ONLY <1>3, <2>1, Zenon
  <2> QED
    BY ONLY <2>2, <2>3
<1>5. PICK n \in Nat, d \in Nat : d = DataCells(len) /\ n = d + 1
  BY CellCount
<1>6. e + n < b + RxCells
  <2>1. n < RtlFree
    BY <1>5 DEF RtlStores
  <2>2. rtlCbr = e % RxCells /\ rtlCapr = b % RxCells /\ e < b + RxCells
    BY ONLY <1>3a, <1>4, Zenon
  <2> QED
    BY ONLY <1>4, <2>1, <2>2, RoomLeft, n \in Nat, b \in Nat, e \in Nat, Zenon
<1>7. /\ rtlRing' = [c \in 0 .. RxCells - 1 |->
                        IF (c - rtlCbr) % RxCells < n
                        THEN <<F + 1, (c - rtlCbr) % RxCells>> ELSE rtlRing[c]]
      /\ rtlCbr' = (rtlCbr + n) % RxCells
      /\ rtlLens' = Append(rtlLens, len)
      /\ UNCHANGED <<rtlCapr, rtlAt, rxCur, rtlPassed>>
  BY ONLY <1>2, <1>5, RtlStores(len), Zenon DEF RtlStores
<1>8. /\ rtlLens' \in Seq(FrameLens) /\ Len(rtlLens') = F + 1
      /\ rtlLens'[F + 1] = len /\ \A i \in 1 .. F : rtlLens'[i] = rtlLens[i]
  BY <1>2, <1>7 DEF RtlInv
<1>9. PICK nst : nst = [i \in 1 .. F + 2 |-> IF i = F + 2 THEN e + n ELSE st[i]]
  OBVIOUS
<1>10. /\ nst \in [1 .. F + 2 -> Nat] /\ nst[F + 2] = e + n
       /\ \A i \in 1 .. F + 1 : nst[i] = st[i]
  BY ONLY <1>3, <1>4, <1>9, F \in Nat, n \in Nat
<1>11. \A i, k \in 1 .. F + 2 : i < k => nst[i] < nst[k]
  <2> SUFFICES ASSUME NEW i \in 1 .. F + 2, NEW k \in 1 .. F + 2, i < k
               PROVE  nst[i] < nst[k]
    OBVIOUS
  <2>1. i \in 1 .. F + 1 /\ st[i] <= e /\ st[i] \in Nat /\ nst[i] = st[i]
    BY ONLY <1>3, <1>4, <1>10, F \in Nat, i \in 1 .. F + 2, k \in 1 .. F + 2, i < k
  <2>2. CASE k = F + 2
    BY ONLY <1>4, <1>5, <1>10, <2>1, <2>2
  <2>3. CASE k # F + 2
    <3>1. k \in 1 .. F + 1
      BY ONLY <2>3, F \in Nat, k \in 1 .. F + 2
    <3> QED
      BY ONLY <1>3, <1>10, <2>1, <3>1, i < k, Zenon
  <2> QED
    BY ONLY <2>2, <2>3
<1>12. \A i \in 1 .. F + 1 : nst[i + 1] = nst[i] + 1 + DataCells(rtlLens'[i])
  <2> SUFFICES ASSUME NEW i \in 1 .. F + 1
               PROVE  nst[i + 1] = nst[i] + 1 + DataCells(rtlLens'[i])
    OBVIOUS
  <2>1. CASE i = F + 1
    <3>1. nst[i] = e /\ nst[i + 1] = e + n /\ DataCells(rtlLens'[i]) = d
      BY ONLY <1>4, <1>5, <1>8, <1>10, <2>1, F \in Nat
    <3> QED
      BY ONLY <1>5, <3>1, e \in Nat
  <2>2. CASE i # F + 1
    <3>1. i \in 1 .. F /\ i \in 1 .. F + 1 /\ i + 1 \in 1 .. F + 1
      BY ONLY <2>2, F \in Nat, i \in 1 .. F + 1
    <3> QED
      BY ONLY <1>3, <1>8, <1>10, <3>1, Zenon
  <2> QED
    BY <2>1, <2>2
<1>13. rtlCbr' = (e + n) % RxCells
  <2>1. e \in Int /\ n \in Int
    OBVIOUS
  <2>2. ((e % RxCells) + n) % RxCells = (e + n) % RxCells
    BY ONLY <2>1, Cells, RemainderPlus, Zenon
  <2> QED
    BY ONLY <1>3a, <1>4, <1>7, <2>2, Zenon
\* A cell of a frame that waits is too far behind to be written, ...
<1>14. ASSUME NEW f \in P + 1 .. F, NEW j \in 0 .. DataCells(rtlLens[f])
       PROVE  rtlRing'[(nst[f] + j) % RxCells] = <<f, j>>
  <2>1. PICK x \in Nat : x = st[f] + j /\ b <= x /\ x < e
    <3>1. f \in Len(rtlPassed) + 1 .. Len(rtlLens)
      BY <1>2
    <3>2. /\ st[f] + j \in Nat
          /\ st[Len(rtlPassed) + 1] <= st[f] + j /\ st[f] + j < st[Len(rtlLens) + 1]
      BY ONLY <1>1, <3>1, RtlInv, j \in 0 .. DataCells(rtlLens[f]), Between, Zenon
    <3> QED
      BY ONLY <1>2, <1>4, <3>2, Zenon
  <2>2. nst[f] + j = x
    <3>1. f \in 1 .. F + 1
      BY ONLY <1>2, f \in P + 1 .. F
    <3> QED
      BY ONLY <1>10, <2>1, <3>1, Zenon
  <2>3. PICK c \in 0 .. RxCells - 1 : c = x % RxCells
    BY Cells
  <2>4. (c - rtlCbr) % RxCells = x - e + RxCells
    <3>1. x < e + RxCells /\ e < x + RxCells /\ ~ (x >= e)
      BY <1>6, <2>1, Cells
    <3>2. ((x % RxCells) - (e % RxCells)) % RxCells = x - e + RxCells
      BY ONLY <3>1, Distance, x \in Nat, e \in Nat, Zenon
    <3> QED
      BY ONLY <1>3a, <1>4, <2>3, <3>2, Zenon
  <2>5. ~ (x - e + RxCells < n)
    BY ONLY <1>6, <2>1, Cells, x \in Nat, e \in Nat, n \in Nat, b \in Nat
  <2>6. rtlRing'[c] = rtlRing[c]
    BY ONLY <1>7, <2>3, <2>4, <2>5, Zenon
  <2> QED
    BY ONLY <1>3a, <2>1, <2>2, <2>3, <2>6, Zenon
\* ... and those in front of the card hold the new one.
<1>15. ASSUME NEW j \in 0 .. d
       PROVE  rtlRing'[(nst[F + 1] + j) % RxCells] = <<F + 1, j>>
  <2>1. PICK x \in Nat : x = e + j /\ x >= e /\ x < e + RxCells /\ e < x + RxCells
                         /\ x - e = j /\ j < n
    BY <1>4, <1>5, <1>6, Cells
  <2>2. nst[F + 1] + j = x
    BY ONLY <1>4, <1>10, <2>1, F \in Nat
  <2>3. PICK c \in 0 .. RxCells - 1 : c = x % RxCells
    BY Cells
  <2>4. (c - rtlCbr) % RxCells = j
    <3>1. ((x % RxCells) - (e % RxCells)) % RxCells = x - e
      BY ONLY <2>1, Distance, x \in Nat, e \in Nat, Zenon
    <3> QED
      BY ONLY <1>3a, <1>4, <2>1, <2>3, <3>1, Zenon
  <2>5. rtlRing'[c] = <<F + 1, j>>
    BY ONLY <1>7, <2>1, <2>3, <2>4, Zenon
  <2> QED
    BY ONLY <2>2, <2>3, <2>5, Zenon
<1>16. Laid(nst)'
  <2>1. /\ Len(rtlLens') = F + 1 /\ F + 1 + 1 = F + 2 /\ Len(rtlPassed') = P
        /\ nst[P + 1] = b
    <3>0. Len(rtlPassed') = P
      BY ONLY <1>2, <1>7, Zenon
    <3>1. Len(rtlPassed') = P /\ F + 1 + 1 = F + 2 /\ P + 1 \in 1 .. F + 1
      BY ONLY <1>2, <3>0
    <3> QED
      BY ONLY <1>4, <1>8, <1>10, <3>1, Zenon
  <2>2. \A f \in P + 1 .. F + 1 : \A j \in 0 .. DataCells(rtlLens'[f]) :
            rtlRing'[(nst[f] + j) % RxCells] = <<f, j>>
    <3> SUFFICES ASSUME NEW f \in P + 1 .. F + 1, NEW j \in 0 .. DataCells(rtlLens'[f])
                 PROVE  rtlRing'[(nst[f] + j) % RxCells] = <<f, j>>
      OBVIOUS
    <3>1. CASE f = F + 1
      BY ONLY <1>5, <1>8, <1>15, <3>1, j \in 0 .. DataCells(rtlLens'[f]), Zenon
    <3>2. CASE f # F + 1
      <4>1. f \in P + 1 .. F /\ rtlLens'[f] = rtlLens[f]
        BY ONLY <1>2, <1>8, <3>2, f \in P + 1 .. F + 1
      <4> QED
        BY ONLY <1>14, <4>1, j \in 0 .. DataCells(rtlLens'[f]), Zenon
    <3> QED
      BY <3>1, <3>2
  <2>3. e + n < b + RxCells /\ rtlCapr' = b % RxCells
    BY ONLY <1>3a, <1>4, <1>6, <1>7, Zenon
  <2> QED
    BY ONLY <1>10, <1>11, <1>12, <1>13, <2>1, <2>2, <2>3, Zenon DEF Laid
<1>17. \A f \in 1 .. Len(rtlPassed') : rtlPassed'[f] = Whole(f)'
  <2>1. \A f \in 1 .. P : Whole(f)' = Whole(f)
    BY ONLY <1>2, <1>8 DEF Whole
  <2> QED
    BY <1>2, <1>7, <2>1 DEF RtlInv
<1>18. Len(rtlPassed') <= Len(rtlLens')
  <2>1. Len(rtlPassed') = P
    BY ONLY <1>2, <1>7, Zenon
  <2> QED
    BY ONLY <1>2, <1>8, <2>1
<1> QED
  BY <1>7, <1>8, <1>16, <1>17, <1>18, Zenon DEF RtlInv

\* Steps that touch neither ring nor positions.
LEMMA RtlIdleStep ==
    ASSUME RtlInv, UNCHANGED <<rtlRing, rtlCbr, rtlCapr, rxCur, rtlLens, rtlPassed>>
    PROVE  RtlInv'
<1>1. PICK st : Laid(st)
  BY DEF RtlInv
<1>2. Laid(st)'
  BY <1>1, Zenon DEF Laid
<1>3. \A f : Whole(f)' = Whole(f)
  BY DEF Whole
<1> QED
  BY ONLY RtlInv, UNCHANGED <<rxCur, rtlCapr, rtlLens, rtlPassed>>, <1>2, <1>3, Zenon
     DEF RtlInv

\* The driver finds the header where it looks, and what the two memcpy() take
\* is the frame behind it.
LEMMA RtlTakeStep ==
    ASSUME RtlInv, RtlTake
    PROVE  RtlInv'
<1>1. PICK st : Laid(st)
  BY DEF RtlInv
<1>2. PICK F \in Nat, P \in Nat : F = Len(rtlLens) /\ P = Len(rtlPassed) /\ P <= F
  BY DEF RtlInv
<1>3. /\ st \in [1 .. F + 1 -> Nat]
      /\ \A i, k \in 1 .. F + 1 : i < k => st[i] < st[k]
      /\ \A i \in 1 .. F : st[i + 1] = st[i] + 1 + DataCells(rtlLens[i])
  BY <1>1, <1>2, Zenon DEF Laid
<1>4. /\ rtlCbr = st[F + 1] % RxCells /\ rtlCapr = st[P + 1] % RxCells
      /\ st[F + 1] < st[P + 1] + RxCells
      /\ \A f \in P + 1 .. F : \A j \in 0 .. DataCells(rtlLens[f]) :
             rtlRing[(st[f] + j) % RxCells] = <<f, j>>
  BY <1>1, <1>2, Zenon DEF Laid
<1>5. P < F
  <2>1. P # F
    BY <1>4, Zenon DEF RtlTake, Bufe
  <2> QED
    BY ONLY <1>2, <2>1
<1>6. PICK Q \in Nat : Q = P + 1 /\ Q \in 1 .. F /\ Q \in P + 1 .. F /\ Q \in 1 .. F + 1
                       /\ Q + 1 \in 1 .. F + 1
  BY ONLY <1>5, <1>2
<1>7. PICK d \in Nat : d = DataCells(rtlLens[Q])
  BY <1>2, <1>6, CellCount DEF RtlInv
<1>8. PICK b \in Nat, e \in Nat : b = st[Q] /\ e = st[Q + 1] /\ e = b + 1 + d
  <2>1. st[Q] \in Nat /\ st[Q + 1] \in Nat
    BY ONLY <1>3, <1>6, Zenon
  <2>2. st[Q + 1] = st[Q] + 1 + d
    BY ONLY <1>3, <1>6, <1>7, Zenon
  <2> QED
    BY <2>1, <2>2
<1>9. e <= st[F + 1] /\ e < b + RxCells /\ d < RxCells
  <2>1. Q + 1 = F + 1 \/ Q + 1 < F + 1
    BY ONLY <1>2, <1>6
  <2>2. F + 1 \in 1 .. F + 1
    BY <1>2
  <2>3. st[F + 1] \in Nat
    BY ONLY <1>3, <2>2, Zenon
  <2>4. e = st[F + 1] \/ e < st[F + 1]
    BY ONLY <1>3, <1>6, <1>8, <2>1, <2>2, Zenon
  <2>5. st[F + 1] < b + RxCells
    BY ONLY <1>4, <1>6, <1>8, Zenon
  <2> QED
    BY ONLY <1>8, <2>3, <2>4, <2>5, Cells
<1>10. rxCur = b % RxCells
  BY ONLY <1>4, <1>6, <1>8, RtlInv, Zenon DEF RtlInv
<1>11. rtlRing[rxCur] = <<Q, 0>>
  <2>1. 0 \in 0 .. d /\ b + 0 = b
    BY <1>7
  <2>2. rtlRing[(b + 0) % RxCells] = <<Q, 0>>
    BY ONLY <1>4, <1>6, <1>7, <1>8, <2>1, Zenon
  <2> QED
    BY ONLY <1>10, <2>1, <2>2, Zenon
<1>12. PICK len : len = rtlLens[Q] /\ DataCells(len) = d
  BY <1>7
<1>13. /\ rtlPassed' = Append(rtlPassed, Copied(len))
       /\ rxCur' = Advanced(len) /\ rtlCapr' = Advanced(len)
       /\ UNCHANGED <<rtlRing, rtlCbr, rxOk, rtlAt, rtlLens>>
  BY ONLY <1>11, <1>12, RtlTake DEF RtlTake
<1>14. Advanced(len) = e % RxCells
  <2>1. PICK c \in Int : c = 1 + d /\ b + c = e /\ \A x \in Int : x + 1 + d = x + c
    BY ONLY <1>7, <1>8
  <2>2. b \in Int /\ rxCur \in Int
    BY <1>10, Cells
  <2>3. ((b % RxCells) + c) % RxCells = (b + c) % RxCells
    BY ONLY <2>1, <2>2, Cells, RemainderPlus, Zenon
  <2> QED
    BY ONLY <1>10, <1>12, <2>1, <2>2, <2>3, Zenon DEF Advanced
\* The copy starts behind the header and goes round the end at most once.
<1>15. PICK p1 \in 0 .. RxCells - 1 : p1 = (rxCur + 1) % RxCells /\ p1 = (b + 1) % RxCells
  <2>1. b \in Int /\ 1 \in Int
    OBVIOUS
  <2>2. ((b % RxCells) + 1) % RxCells = (b + 1) % RxCells
    BY ONLY <2>1, Cells, RemainderPlus, Zenon
  <2>3. PICK p1 \in 0 .. RxCells - 1 : p1 = (b + 1) % RxCells
    BY Cells
  <2> QED
    BY ONLY <1>10, <2>2, <2>3, Zenon
<1>16. ASSUME NEW i \in 1 .. d
       PROVE  IF i <= (IF RxCells - p1 >= d THEN d ELSE RxCells - p1)
              THEN rtlRing[p1 + i - 1] = <<Q, i>>
              ELSE rtlRing[i - (IF RxCells - p1 >= d THEN d ELSE RxCells - p1) - 1] = <<Q, i>>
  <2>1. PICK c \in Int, x \in Int : c = i - 1 /\ b + 1 \in Int /\ p1 \in Int
                                 /\ b + 1 + c = b + i /\ p1 + c = x /\ x = p1 + i - 1
                                 /\ c \in 0 .. d - 1 /\ x >= 0
    BY <1>7
  <2>2. x % RxCells = (b + i) % RxCells
    <3>1. (((b + 1) % RxCells) + c) % RxCells = (b + 1 + c) % RxCells
      BY ONLY <2>1, Cells, RemainderPlus, Zenon
    <3> QED
      BY ONLY <1>15, <2>1, <3>1, Zenon
  <2>3. rtlRing[x % RxCells] = <<Q, i>>
    <3>1. i \in 0 .. d
      BY <1>7
    <3>2. rtlRing[(b + i) % RxCells] = <<Q, i>>
      BY ONLY <1>4, <1>6, <1>7, <1>8, <3>1, Zenon
    <3> QED
      BY ONLY <2>2, <3>2, Zenon
  <2>4. CASE x < RxCells
    <3>1. x \in 0 .. RxCells - 1
      BY <2>1, <2>4, Cells
    <3>2. x % RxCells = x
      BY ONLY <3>1, x \in Int, Cells, Remainder, Zenon
    <3>3. i <= (IF RxCells - p1 >= d THEN d ELSE RxCells - p1)
      BY ONLY <2>1, <2>4, <1>7, Cells, i \in 1 .. d
    <3> QED
      BY ONLY <2>1, <2>3, <3>2, <3>3, Zenon
  <2>5. CASE ~ (x < RxCells)
    <3>1. x >= RxCells /\ x < RxCells + RxCells
      BY ONLY <2>1, <2>5, <1>7, <1>9, <1>15, Cells
    <3>2. x % RxCells = x - RxCells
      BY ONLY <3>1, x \in Int, Cells, Remainder, Zenon
    <3>3. /\ ~ (i <= (IF RxCells - p1 >= d THEN d ELSE RxCells - p1))
          /\ i - (IF RxCells - p1 >= d THEN d ELSE RxCells - p1) - 1 = x - RxCells
      BY ONLY <2>1, <2>5, <1>7, Cells, i \in 1 .. d
    <3> QED
      BY ONLY <2>3, <3>2, <3>3, Zenon
  <2> QED
    BY <2>4, <2>5
<1>17. Copied(len) = [i \in 1 .. d |-> <<Q, i>>]
  <2>1. Copied(len) = [i \in 1 .. d |->
            IF i <= (IF RxCells - p1 >= d THEN d ELSE RxCells - p1)
            THEN rtlRing[p1 + i - 1]
            ELSE rtlRing[i - (IF RxCells - p1 >= d THEN d ELSE RxCells - p1) - 1]]
    BY ONLY <1>12, <1>15, Zenon DEF Copied
  <2>2. \A i \in 1 .. d :
            (IF i <= (IF RxCells - p1 >= d THEN d ELSE RxCells - p1)
             THEN rtlRing[p1 + i - 1]
             ELSE rtlRing[i - (IF RxCells - p1 >= d THEN d ELSE RxCells - p1) - 1]) = <<Q, i>>
    BY ONLY <1>16, Zenon
  <2> QED
    BY ONLY <2>1, <2>2, Zenon
<1>18. Copied(len) \in Seq(Nat \X Nat)
  <2>1. \A i \in 1 .. d : <<Q, i>> \in Nat \X Nat
    BY <1>7
  <2>2. [i \in 1 .. d |-> <<Q, i>>] \in Seq(Nat \X Nat)
    BY <2>1, <1>7
  <2> QED
    BY <1>17, <2>2
<1>19. /\ rtlPassed' \in Seq(Seq(Nat \X Nat)) /\ Len(rtlPassed') = Q
       /\ rtlPassed'[Q] = Copied(len) /\ \A f \in 1 .. P : rtlPassed'[f] = rtlPassed[f]
  <2>1. rtlPassed \in Seq(Seq(Nat \X Nat))
    BY DEF RtlInv
  <2> QED
    BY ONLY <1>2, <1>6, <1>13, <1>18, <2>1
<1>20. \A f \in 1 .. Len(rtlPassed') : rtlPassed'[f] = Whole(f)'
  <2> SUFFICES ASSUME NEW f \in 1 .. Q PROVE rtlPassed'[f] = Whole(f)'
    BY <1>19
  <2>1. CASE f = Q
    BY ONLY <1>7, <1>13, <1>17, <1>19, <2>1, Zenon DEF Whole
  <2>2. CASE f # Q
    <3>1. f \in 1 .. P
      BY ONLY <1>2, <1>6, <2>2, f \in 1 .. Q
    <3>2. rtlPassed[f] = Whole(f)
      BY ONLY <1>2, <3>1, RtlInv, Zenon DEF RtlInv
    <3> QED
      BY ONLY <1>13, <1>19, <3>1, <3>2, Zenon DEF Whole
  <2> QED
    BY <2>1, <2>2
<1>21. Laid(st)'
  <2>1. Len(rtlLens') = F /\ Len(rtlPassed') = Q
    BY ONLY <1>2, <1>13, <1>19, Zenon
  <2>2. st[F + 1] < st[Q + 1] + RxCells
    <3>1. F + 1 \in 1 .. F + 1
      BY <1>2
    <3>2. st[F + 1] \in Nat
      BY ONLY <1>3, <3>1, Zenon
    <3>3. st[F + 1] < b + RxCells
      BY ONLY <1>4, <1>6, <1>8, Zenon
    <3>4. st[F + 1] < e + RxCells
      BY ONLY <1>8, <3>2, <3>3, Cells
    <3> QED
      BY ONLY <1>8, <3>4, Zenon
  <2>3. \A f \in Q + 1 .. F : \A j \in 0 .. DataCells(rtlLens[f]) :
            rtlRing[(st[f] + j) % RxCells] = <<f, j>>
    <3>1. \A f \in Q + 1 .. F : f \in P + 1 .. F
      BY ONLY <1>2, <1>6
    <3> QED
      BY ONLY <1>4, <3>1, Zenon
  <2>4. rtlCapr' = st[Q + 1] % RxCells /\ rtlCbr' = st[F + 1] % RxCells
    BY ONLY <1>4, <1>8, <1>13, <1>14, Zenon
  <2> QED
    BY ONLY <1>3, <1>13, <2>1, <2>2, <2>3, <2>4, Zenon DEF Laid
<1>22. rtlLens' \in Seq(FrameLens) /\ Len(rtlPassed') <= Len(rtlLens')
  <2>1. rtlLens' = rtlLens
    BY ONLY <1>13, Zenon
  <2> QED
    BY ONLY <1>2, <1>6, <1>19, <2>1, RtlInv DEF RtlInv
<1> QED
  BY ONLY <1>13, <1>19, <1>20, <1>21, <1>22, Zenon DEF RtlInv

LEMMA RtlStart == RtlInit => RtlInv
<1> SUFFICES ASSUME RtlInit PROVE RtlInv
  OBVIOUS
<1>1. /\ rtlLens = <<>> /\ rtlPassed = <<>> /\ Len(rtlLens) = 0 /\ Len(rtlPassed) = 0
      /\ rtlCbr = 0 /\ rtlCapr = 0 /\ rxCur = 0
  BY DEF RtlInit
<1>2. PICK st : st = [i \in 1 .. 1 |-> 0]
  OBVIOUS
<1>3. 0 % RxCells = 0
  <2>1. 0 \in Int /\ 0 \in 0 .. RxCells - 1
    BY Cells
  <2> QED
    BY ONLY <2>1, Cells, Remainder, Zenon
<1>4. 0 + 1 = 1 /\ st[1] = 0 /\ 0 < 0 + RxCells /\ st \in [1 .. 1 -> Nat]
      /\ \A i, j \in 1 .. 1 : ~ (i < j)
  BY <1>2, Cells
<1>5. 1 .. 0 = {}
  OBVIOUS
<1>6. Laid(st)
  BY ONLY <1>1, <1>3, <1>4, <1>5, Zenon DEF Laid
<1> QED
  BY <1>1, <1>6 DEF RtlInv

LEMMA RtlStep == RtlInv /\ [RtlNext]_rtlVars => RtlInv'
<1> SUFFICES ASSUME RtlInv, [RtlNext]_rtlVars PROVE RtlInv'
  OBVIOUS
<1>1. CASE \E len \in FrameLens : RtlStores(len)
  BY <1>1, RtlStoreStep
<1>2. CASE RtlIsr
  BY ONLY <1>2, RtlInv, RtlIdleStep, Zenon DEF RtlIsr
<1>3. CASE RtlTake
  BY <1>3, RtlTakeStep
<1>4. CASE RtlEmpty
  BY ONLY <1>4, RtlInv, RtlIdleStep, Zenon DEF RtlEmpty
<1>5. CASE RtlClear
  BY ONLY <1>5, RtlInv, RtlIdleStep, Zenon DEF RtlClear
<1>6. CASE UNCHANGED rtlVars
  BY ONLY <1>6, RtlInv, RtlIdleStep, Zenon DEF rtlVars
<1> QED
  BY <1>1, <1>2, <1>3, <1>4, <1>5, <1>6 DEF RtlNext

\* When the positions are equal every frame has been passed: they are never a
\* whole ring apart.
LEMMA RtlCaughtUp == ASSUME RtlInv, rtlCbr = rxCur PROVE Len(rtlPassed) = Len(rtlLens)
<1>1. PICK st : Laid(st)
  BY DEF RtlInv
<1>2. PICK F \in Nat, P \in Nat : F = Len(rtlLens) /\ P = Len(rtlPassed) /\ P <= F
  BY DEF RtlInv
<1>3. /\ st \in [1 .. F + 1 -> Nat]
      /\ \A i, k \in 1 .. F + 1 : i < k => st[i] < st[k]
      /\ rtlCbr = st[F + 1] % RxCells /\ rtlCapr = st[P + 1] % RxCells
      /\ st[F + 1] < st[P + 1] + RxCells
  BY <1>1, <1>2, Zenon DEF Laid
<1> SUFFICES ASSUME P # F PROVE FALSE
  BY <1>2
<1>4. P + 1 \in 1 .. F + 1 /\ F + 1 \in 1 .. F + 1 /\ P + 1 < F + 1
  BY <1>2
<1>5. PICK b \in Nat, e \in Nat : b = st[P + 1] /\ e = st[F + 1] /\ b < e
  BY ONLY <1>3, <1>4, Zenon
<1>6. b \in Int /\ e \in Int
  OBVIOUS
<1>7. (b % RxCells) # (e % RxCells)
  BY ONLY <1>3, <1>5, <1>6, Cells, OtherRemainder, Zenon
<1> QED
  BY ONLY <1>3, <1>5, <1>7, RtlInv, rtlCbr = rxCur, Zenon DEF RtlInv

\* Every frame the 8139 stores reaches the stack in order and whole, also one
\* that goes round the end of the ring, and the interrupt handler stops only
\* when it has them all.
THEOREM FramesWholeHolds == RtlSpec => []FramesWhole
<1>1. RtlInv => FramesWhole
  BY RtlCaughtUp DEF RtlInv, FramesWhole, Whole
<1> QED
  BY <1>1, RtlStart, RtlStep, PTL DEF RtlSpec
-----------------------------------------------------------------------------
(***************************************************************************)
(* ArpSound and AnswersAsker of NetStack for every number of hosts, frames *)
(* and slots of the cache.                                                 *)
(***************************************************************************)

Entry == [valid : BOOLEAN, ip : Hosts \union {AnyIp}, mac : Macs \union {OwnMac}]

Used(c)     == {i \in 1 .. ListSize : c[i].valid}
Bindings(c) == {<<c[i].ip, c[i].mac>> : i \in Used(c)}

\* No address and no card is in two slots.
Apart(c) ==
    \A i, j \in Used(c) : c[i].ip = c[j].ip \/ c[i].mac = c[j].mac => i = j

CacheInv ==
    /\ arpcache \in [1 .. ListSize -> Entry]
    /\ Apart(arpcache)
    /\ heard = Bindings(arpcache)

\* What a part of the socket can be.
Part == Hosts \union Ports \union {OwnIp, AnyIp, PortAll}

AtUdp == {"any", "same", "greet", "send", "lookup", "unbind"}

\* A part is that of nobody or that of the frame's sender.
Theirs(k, v) == v = Unbound[k] \/ v = Greeted(datagram)[k]

\* The parts that have been compared with the frame.
Checked ==
    {k \in 1 .. 5 : netAt \in {"any", "same"} => IF k = 1 THEN netStep > 1 ELSE k <= 3 /\ netStep > 2}

\* What has been compared stays the sender's or nobody's, whenever a reset
\* comes; without one the socket is all of the sender's or all of nobody's.
SockInv ==
    netAt \in AtUdp =>
        /\ datagram \in UdpFrames /\ asker = Sender(datagram)
        /\ \A k \in Checked : Theirs(k, sock[k])
        /\ netAt \in {"any", "same"} => netStep <= 3
        /\ netAt \in {"greet", "unbind"} => netStep <= 5
        /\ ~crossed /\ netAt \in {"any", "same", "send", "lookup"} => Settled(sock)
        /\ ~crossed /\ netAt = "greet" =>
             \A k \in 1 .. 5 : k < netStep => sock[k] = Greeted(datagram)[k]

HdrInv ==
    /\ hdr \in Seq(Part)
    /\ netAt \notin {"send", "lookup"} => hdr = <<>>
    /\ netAt = "send" => Len(hdr) < 5
    /\ netAt = "lookup" => Len(hdr) = 5
    /\ netAt \in AtUdp =>
         \A k \in 1 .. Len(hdr) : Theirs(k, hdr[k]) /\ (~crossed => hdr[k] = sock[k])

UdpTypes ==
    /\ sock \in [1 .. 5 -> Part]
    /\ netAt \in AtUdp \union {"idle", "done"}
    /\ netStep \in Nat \ {0}
    /\ netAt \in {"idle", "done"} => netStep = 1

StackInv == CacheInv /\ UdpTypes /\ SockInv /\ HdrInv /\ AnswersAsker

\* p is c without the bindings of ip and of mac.
IsPurge(c, ip, mac, p) ==
    /\ p \in [1 .. ListSize -> Entry]
    /\ \A i \in Used(p) : i \in Used(c) /\ c[i].ip # ip /\ c[i].mac # mac /\ p[i] = c[i]
    /\ \A i \in Used(c) : c[i].ip # ip /\ c[i].mac # mac => i \in Used(p)

LEMMA PurgedCache ==
    ASSUME NEW c \in [1 .. ListSize -> Entry], NEW ip, NEW mac
    PROVE  IsPurge(c, ip, mac, Purged(c, ip, mac))
<1>1. PICK p : p = Purged(c, ip, mac)
  OBVIOUS
<1>2. \A i \in 1 .. ListSize :
          /\ p[i] \in Entry
          /\ p[i].valid <=> c[i].valid /\ c[i].ip # ip /\ c[i].mac # mac
          /\ p[i].valid => p[i] = c[i]
  BY <1>1 DEF Purged, Entry, NoEntry
<1>3. p = [i \in 1 .. ListSize |-> p[i]]
  BY <1>1 DEF Purged
<1>4. p \in [1 .. ListSize -> Entry]
  BY <1>2, <1>3
<1>5. IsPurge(c, ip, mac, p)
  BY <1>2, <1>4 DEF Used, IsPurge
<1> QED
  BY <1>1, <1>5

LEMMA LowestSlotIn ==
    ASSUME NEW S \in SUBSET (1 .. ListSize), S # {}
    PROVE  LowestSlot(S) \in S
<1>1. PICK i \in S : \A j \in S : i <= j
  <2>1. S \subseteq Nat
    BY StackAssumption
  <2> QED
    BY <2>1, LeastElement
<1> QED
  BY <1>1 DEF LowestSlot

\* A binding is put into a slot that is free once those it contradicts are
\* purged; a cache that stays full has contradicted nothing.
LEMMA InsertCache ==
    ASSUME CacheInv, NEW ip \in Hosts \union {AnyIp}, NEW mac \in Macs, ArpInsert(ip, mac)
    PROVE  CacheInv'
<1>0. PICK c : c = Purged(arpcache, ip, mac)
  OBVIOUS
<1>1. /\ c \in [1 .. ListSize -> Entry]
      /\ \A i \in Used(c) : /\ i \in Used(arpcache) /\ c[i] = arpcache[i]
                            /\ arpcache[i].ip # ip /\ arpcache[i].mac # mac
      /\ \A i \in Used(arpcache) :
             arpcache[i].ip # ip /\ arpcache[i].mac # mac => i \in Used(c)
  <2>1. arpcache \in [1 .. ListSize -> Entry]
    BY DEF CacheInv
  <2>2. IsPurge(arpcache, ip, mac, c)
    BY <1>0, <2>1, PurgedCache, Zenon
  <2> QED
    BY <2>2 DEF IsPurge
<1>2. Apart(c)
  BY <1>1 DEF CacheInv, Apart
<1>3. CASE FreeSlots(c) = {}
  <2>1. arpcache' = c /\ UNCHANGED heard
    BY <1>0, <1>3 DEF ArpInsert
  <2>2. Used(c) = 1 .. ListSize
    BY <1>3 DEF FreeSlots, Used
  <2>3. c = arpcache
    <3>1. \A i \in 1 .. ListSize : c[i] = arpcache[i]
      BY <1>1, <2>2
    <3>2. /\ c = [i \in 1 .. ListSize |-> c[i]]
          /\ arpcache = [i \in 1 .. ListSize |-> arpcache[i]]
      BY <1>1 DEF CacheInv
    <3> QED
      BY <3>1, <3>2, Zenon
  <2> QED
    BY <2>1, <2>3 DEF CacheInv
<1>4. CASE FreeSlots(c) # {}
  <2>1. PICK k : k = LowestSlot(FreeSlots(c))
    OBVIOUS
  <2>2. k \in 1 .. ListSize /\ k \notin Used(c)
    BY <1>4, <2>1, LowestSlotIn DEF FreeSlots, Used
  <2>3. PICK e \in Entry : e = [valid |-> TRUE, ip |-> ip, mac |-> mac]
    BY DEF Entry
  <2>4. /\ arpcache' = [c EXCEPT ![k] = e]
        /\ heard' = {b \in heard : b[1] # ip /\ b[2] # mac} \union {<<ip, mac>>}
    BY <1>0, <1>4, <2>1, <2>3 DEF ArpInsert
  <2>5. /\ arpcache' \in [1 .. ListSize -> Entry]
        /\ arpcache'[k] = e /\ e.valid /\ e.ip = ip /\ e.mac = mac
        /\ \A i \in 1 .. ListSize : i # k => arpcache'[i] = c[i]
    BY <1>1, <2>2, <2>3, <2>4
  <2>6. /\ Used(arpcache') = Used(c) \union {k}
        /\ \A i \in Used(c) : /\ arpcache'[i] = arpcache[i] /\ i \in Used(arpcache)
                              /\ arpcache[i].ip # ip /\ arpcache[i].mac # mac
    BY <1>1, <2>2, <2>5 DEF Used
  <2>7. Apart(arpcache')
    BY <2>5, <2>6 DEF CacheInv, Apart
  <2>8. heard' = Bindings(arpcache')
    <3>1. \A b : b \in heard /\ b[1] # ip /\ b[2] # mac <=>
                 \E i \in Used(c) : b = <<arpcache[i].ip, arpcache[i].mac>>
      BY <1>1, <2>6 DEF CacheInv, Bindings
    <3>2. \A b : b \in Bindings(arpcache') <=>
                 b = <<ip, mac>> \/ \E i \in Used(c) : b = <<arpcache[i].ip, arpcache[i].mac>>
      BY <2>5, <2>6 DEF Bindings
    <3> QED
      BY <2>4, <3>1, <3>2
  <2> QED
    BY <2>5, <2>7, <2>8 DEF CacheInv
<1> QED
  BY <1>3, <1>4

LEMMA Peers ==
    ASSUME NEW f \in UdpFrames
    PROVE  /\ f.l2 = "udp" /\ f.sip \in Hosts /\ f.sip # AnyIp
           /\ f.sport \in Ports /\ f.sport # PortAll
           /\ Sender(f) = <<f.sip, f.sport>>
           /\ Unbound \in [1 .. 5 -> Part] /\ Greeted(f) \in [1 .. 5 -> Part]
           /\ \A k \in 1 .. 5 : Greeted(f)[k] # Unbound[k]
<1>1. f.l2 = "udp" /\ f.sip \in Hosts /\ f.sport \in Ports /\ f.dip = OwnIp
  BY DEF UdpFrames
<1>2. f.sip # AnyIp /\ f.sport # PortAll /\ OwnIp # AnyIp
  BY <1>1, StackAssumption
<1>3. Unbound \in [1 .. 5 -> Part] /\ Greeted(f) \in [1 .. 5 -> Part]
  BY <1>1 DEF Unbound, Greeted, Part
<1>4. \A k \in 1 .. 5 : Greeted(f)[k] # Unbound[k]
  BY <1>1, <1>2 DEF Unbound, Greeted
<1> QED
  BY <1>1, <1>2, <1>3, <1>4 DEF Sender

LEMMA SentKept ==
    ASSUME AnswersAsker, UNCHANGED <<sent, asker, heard>>, crossed => crossed'
    PROVE  AnswersAsker'
BY DEF AnswersAsker, Deserved

LEMMA SentNothing == sent' = <<>> => AnswersAsker'
<1> SUFFICES ASSUME sent' = <<>> PROVE AnswersAsker'
  OBVIOUS
<1>1. 1 .. Len(sent') = {}
  OBVIOUS
<1> QED
  BY <1>1, Zenon DEF AnswersAsker

LEMMA SentOne == ASSUME NEW m, sent' = <<m>>, Deserved(m)' PROVE AnswersAsker'
<1>1. 1 .. Len(sent') = {1} /\ sent'[1] = m
  OBVIOUS
<1> QED
  BY <1>1 DEF AnswersAsker, Deserved

\* Between two frames nothing is asked of the socket and the headers.
LEMMA Freed ==
    ASSUME UdpTypes, netAt' \in {"idle", "done"}, hdr' = <<>>, netStep' = 1,
           sock' \in [1 .. 5 -> Part]
    PROVE  UdpTypes' /\ SockInv' /\ HdrInv'
BY DEF UdpTypes, SockInv, HdrInv, AtUdp

\* A request that is answered, once the binding of its sender is kept.
LEMMA ReplyStep ==
    ASSUME StackInv, NEW ip \in Hosts \union {AnyIp}, NEW mac \in Macs, NEW l2 \in {"arp", "icmp"},
           ArpInsert(ip, mac), Replies([l2 |-> l2, dmac |-> mac, dip |-> Both(ip)]),
           asker' = <<ip, PortAll>>
    PROVE  CacheInv' /\ AnswersAsker'
<1>1. CacheInv'
  BY InsertCache DEF StackInv
<1>2. CASE stackFate' = "ok"
  <2>1. <<ip, mac>> \in heard' \/ stackFate' = "arp_assert"
    BY DEF ArpInsert
  <2>2. PICK m : m = [l2 |-> l2, dmac |-> mac, dip |-> Both(ip)]
    OBVIOUS
  <2>3. Deserved(m)' /\ sent' = <<m>>
    BY <1>2, <2>1, <2>2 DEF Deserved, Replies
  <2> QED
    BY <1>1, <2>3, SentOne
<1>3. CASE stackFate' # "ok"
  BY <1>1, <1>3, SentNothing DEF Replies
<1> QED
  BY <1>2, <1>3

\* A frame that efproc() is done with at once.
LEMMA IdleStep ==
    ASSUME StackInv, netAt = "idle", netAt' = "done",
           UNCHANGED <<sock, netStep, datagram, hdr, resetAt>>
    PROVE  UdpTypes' /\ SockInv' /\ HdrInv'
BY DEF StackInv, UdpTypes, SockInv, HdrInv, AtUdp

LEMMA EfprocStep == StackInv /\ Efproc => StackInv'
<1> SUFFICES ASSUME StackInv, Efproc PROVE StackInv'
  OBVIOUS
<1>0. netAt = "idle"
  BY DEF Efproc
<1>1. ASSUME NEW f \in ArpFrames, RecvArp(f), asker' = Sender(f) PROVE StackInv'
  <2>1. f.l2 = "arp" /\ f.sip \in Hosts \union {AnyIp} /\ f.smac \in Macs /\ asker' = <<f.sip, PortAll>>
    BY <1>1 DEF ArpFrames, Sender
  <2>2. UdpTypes' /\ SockInv' /\ HdrInv'
    BY <1>0, <1>1, IdleStep DEF RecvArp
  <2>3. CASE f.request /\ f.dip = OwnIp
    <3>1. ArpInsert(f.sip, f.smac) /\ Replies([l2 |-> "arp", dmac |-> f.smac, dip |-> Both(f.sip)])
      BY <1>1, <2>3 DEF RecvArp
    <3> QED
      BY <2>1, <2>2, <3>1, ReplyStep DEF StackInv
  <2>4. CASE ~(f.request /\ f.dip = OwnIp)
    BY <1>1, <2>2, <2>4, SentNothing DEF RecvArp, StackInv, CacheInv
  <2> QED
    BY <2>3, <2>4
<1>2. ASSUME NEW f \in IcmpFrames, RecvIcmp(f), asker' = Sender(f) PROVE StackInv'
  <2>1. f.l2 = "icmp" /\ f.sip \in Hosts \union {AnyIp} /\ f.smac \in Macs /\ asker' = <<f.sip, PortAll>>
    BY <1>2 DEF IcmpFrames, Sender
  <2>2. UdpTypes' /\ SockInv' /\ HdrInv'
    BY <1>0, <1>2, IdleStep DEF RecvIcmp
  <2>3. CASE f.sumOk /\ f.request
    <3>1. ArpInsert(f.sip, f.smac) /\ Replies([l2 |-> "icmp", dmac |-> f.smac, dip |-> Both(f.sip)])
      BY <1>2, <2>3 DEF RecvIcmp
    <3> QED
      BY <2>1, <2>2, <3>1, ReplyStep DEF StackInv
  <2>4. CASE ~(f.sumOk /\ f.request)
    BY <1>2, <2>2, <2>4, SentNothing DEF RecvIcmp, StackInv, CacheInv
  <2> QED
    BY <2>3, <2>4
<1>3. ASSUME NEW f \in UdpFrames, RecvUdp(f), asker' = Sender(f) PROVE StackInv'
  <2>1. CacheInv' /\ AnswersAsker'
    BY <1>3, SentNothing DEF RecvUdp, StackInv, CacheInv
  <2>2. CASE f.sumOk /\ f.dport = ServerPort
    <3>1. /\ netAt' = "any" /\ datagram' = f /\ crossed' = ~Settled(sock)
          /\ UNCHANGED <<sock, netStep, hdr>>
      BY <1>3, <2>2 DEF RecvUdp
    <3>2. netStep' = 1 /\ Checked' = {}
      BY <1>0, <3>1 DEF StackInv, UdpTypes, Checked
    <3>3. UdpTypes' /\ HdrInv'
      BY <1>0, <3>1 DEF StackInv, UdpTypes, HdrInv, AtUdp
    <3>4. crossed' \/ Settled(sock)'
      BY <3>1 DEF Settled
    <3>5. SockInv'
      <4>1. netAt' = "any" /\ datagram' = f /\ asker' = Sender(f) /\ netStep' <= 3
        BY <1>3, <3>1, <3>2
      <4> QED
        BY ONLY <4>1, <3>2, <3>4, f \in UdpFrames DEF SockInv
    <3> QED
      BY <2>1, <3>3, <3>5 DEF StackInv
  <2>3. CASE ~(f.sumOk /\ f.dport = ServerPort)
    BY <1>0, <1>3, <2>1, <2>3, IdleStep DEF RecvUdp, StackInv
  <2> QED
    BY <2>2, <2>3
<1>4. ASSUME NEW f, RecvOther(f) PROVE StackInv'
  BY <1>0, <1>4, IdleStep, SentNothing DEF RecvOther, StackInv, CacheInv
<1>5. ASSUME NEW f \in ArpFrames \union IcmpFrames \union UdpFrames \union OtherFrames
      PROVE  /\ f.l2 = "arp" => f \in ArpFrames
             /\ f.l2 = "icmp" => f \in IcmpFrames
             /\ f.l2 = "udp" => f \in UdpFrames
  BY <1>5 DEF ArpFrames, IcmpFrames, UdpFrames, OtherFrames
<1> QED
  BY <1>1, <1>2, <1>3, <1>4, <1>5 DEF Efproc, RecvArp, RecvIcmp, RecvUdp

\* The field compared is the sender's or nobody's as well.
LEMMA CompareStep == StackInv /\ NetCompare => StackInv'
<1> SUFFICES ASSUME StackInv, NetCompare PROVE StackInv'
  OBVIOUS
<1> DEFINE wanted == IF netAt = "any" THEN Unbound ELSE Greeted(datagram)
           same   == \A k \in Fields[netStep] : sock[k] = wanted[k]
<1>1. /\ netAt \in {"any", "same"} /\ UNCHANGED <<arpcache, sock, asker, sent, crossed, heard, stackFate>>
      /\ IF same
         THEN IF netStep < Len(Fields)
              THEN netAt' = "any" /\ netStep' = netStep + 1 /\ UNCHANGED <<datagram, hdr>>
              ELSE Dispatched(datagram.data)
         ELSE IF netAt = "any"
              THEN netAt' = "same" /\ UNCHANGED <<netStep, datagram, hdr>>
              ELSE Returns
  BY DEF NetCompare
<1>2. /\ datagram \in UdpFrames /\ asker = Sender(datagram)
      /\ \A k \in Checked : Theirs(k, sock[k])
      /\ netStep \in 1 .. 3 /\ (~crossed => Settled(sock)) /\ hdr = <<>>
  BY <1>1 DEF StackInv, SockInv, HdrInv, UdpTypes, AtUdp
<1>3. Len(Fields) = 3 /\ Fields[1] = {1} /\ Fields[2] = {2, 3} /\ Fields[3] = {4, 5}
  BY DEF Fields
<1>4. CacheInv' /\ AnswersAsker'
  BY <1>1, SentKept DEF StackInv, CacheInv
<1>5. CASE same
  <2>1. \A k \in Checked \union Fields[netStep] : Theirs(k, sock[k])
    BY <1>2, <1>5 DEF Theirs
  <2>2. CASE netStep < 3
    <3>1. netAt' = "any" /\ netStep' = netStep + 1 /\ UNCHANGED <<datagram, hdr>>
      BY <1>1, <1>3, <1>5, <2>2
    <3>2. Checked' \subseteq Checked \union Fields[netStep]
      BY <1>1, <1>2, <1>3, <2>2, <3>1 DEF Checked
    <3>3. SockInv'
      BY <1>1, <1>2, <2>1, <2>2, <3>1, <3>2 DEF SockInv, Theirs, Settled
    <3>4. UdpTypes' /\ HdrInv'
      BY <1>1, <1>2, <3>1 DEF StackInv, UdpTypes, HdrInv, AtUdp
    <3> QED
      BY <1>4, <3>3, <3>4 DEF StackInv
  <2>3. CASE netStep = 3
    <3>1. Checked \union Fields[netStep] = 1 .. 5
      BY <1>1, <1>3, <2>3 DEF Checked
    <3>2. Dispatched(datagram.data)
      BY <1>1, <1>3, <1>5, <2>3
    <3>3. CASE Goes("greet") /\ UNCHANGED <<datagram, hdr>>
      <4>1. SockInv'
        BY <1>1, <1>2, <2>1, <3>1, <3>3 DEF SockInv, Theirs, Goes, Checked
      <4>2. UdpTypes' /\ HdrInv'
        BY <1>1, <1>2, <3>3 DEF StackInv, UdpTypes, HdrInv, AtUdp, Goes
      <4> QED
        BY <1>4, <4>1, <4>2 DEF StackInv
    <3>4. CASE Goes("send") /\ UNCHANGED <<datagram, hdr>>
      <4>1. SockInv'
        BY <1>1, <1>2, <2>1, <3>1, <3>4 DEF SockInv, Theirs, Goes, Checked, Settled
      <4>2. UdpTypes' /\ HdrInv'
        BY <1>1, <1>2, <3>4 DEF StackInv, UdpTypes, HdrInv, AtUdp, Goes
      <4> QED
        BY <1>4, <4>1, <4>2 DEF StackInv
    <3>5. CASE Returns
      BY <1>1, <1>4, <3>5, Freed DEF StackInv, Returns, Goes, UdpTypes
    <3> QED
      BY <3>2, <3>3, <3>4, <3>5 DEF Dispatched
  <2> QED
    BY <1>2, <2>2, <2>3
<1>6. CASE ~same /\ netAt = "any"
  <2>1. netAt' = "same" /\ UNCHANGED <<netStep, datagram, hdr>>
    BY <1>1, <1>6
  <2>2. Checked' = Checked
    BY <1>6, <2>1 DEF Checked
  <2>3. SockInv'
    BY <1>1, <1>2, <2>1, <2>2 DEF SockInv, Theirs, Settled
  <2>4. UdpTypes' /\ HdrInv'
    BY <1>1, <1>2, <2>1 DEF StackInv, UdpTypes, HdrInv, AtUdp
  <2> QED
    BY <1>4, <2>3, <2>4 DEF StackInv
<1>7. CASE ~same /\ netAt # "any"
  BY <1>1, <1>4, <1>7, Freed DEF StackInv, Returns, Goes, UdpTypes
<1> QED
  BY <1>5, <1>6, <1>7

\* One part of a value of 1 .. 5 is written.
LEMMA WritesPart ==
    ASSUME StackInv, NEW value \in [1 .. 5 -> Part], netStep <= 5,
           sock' = [sock EXCEPT ![netStep] = value[netStep]],
           UNCHANGED <<arpcache, asker, sent, crossed, heard>>
    PROVE  /\ sock' \in [1 .. 5 -> Part] /\ netStep \in 1 .. 5
           /\ sock'[netStep] = value[netStep]
           /\ \A k \in 1 .. 5 : k # netStep => sock'[k] = sock[k]
           /\ CacheInv' /\ AnswersAsker'
<1>1. netStep \in 1 .. 5
  BY DEF StackInv, UdpTypes
<1>2. CacheInv' /\ AnswersAsker'
  BY SentKept DEF StackInv, CacheInv
<1> QED
  BY <1>1, <1>2 DEF StackInv, UdpTypes

LEMMA GreetStep == StackInv /\ NetGreets => StackInv'
<1> SUFFICES ASSUME StackInv, NetGreets PROVE StackInv'
  OBVIOUS
<1>1. netAt = "greet" /\ datagram \in UdpFrames /\ netStep <= 5 /\ asker = Sender(datagram)
  BY DEF NetGreets, StackInv, SockInv, AtUdp
<1>2. PICK g \in [1 .. 5 -> Part] : g = Greeted(datagram)
  BY <1>1, Peers
<1>3. /\ sock' = [sock EXCEPT ![netStep] = g[netStep]]
      /\ IF netStep < 5
         THEN netStep' = netStep + 1 /\ UNCHANGED <<netAt, datagram, hdr>>
         ELSE Goes("send") /\ UNCHANGED <<datagram, hdr>>
      /\ UNCHANGED <<arpcache, asker, sent, crossed, heard>>
  BY <1>2 DEF NetGreets, Writes
<1>4. /\ sock' \in [1 .. 5 -> Part] /\ netStep \in 1 .. 5
      /\ sock'[netStep] = g[netStep]
      /\ \A k \in 1 .. 5 : k # netStep => sock'[k] = sock[k]
      /\ CacheInv' /\ AnswersAsker'
  BY <1>1, <1>2, <1>3, WritesPart
<1>5. /\ Checked = 1 .. 5 /\ \A k \in 1 .. 5 : Theirs(k, sock[k])
      /\ hdr = <<>> /\ (~crossed => \A k \in 1 .. 5 : k < netStep => sock[k] = g[k])
  BY <1>1, <1>2 DEF StackInv, SockInv, HdrInv, AtUdp, Checked
<1>6. /\ datagram' = datagram /\ hdr' = hdr /\ netStep' \in 1 .. 5
      /\ \/ netAt' = "greet" /\ netStep' = netStep + 1
         \/ netAt' = "send" /\ netStep = 5 /\ netStep' = 1
  BY <1>1, <1>3, <1>4 DEF Goes
<1>7. /\ \A k \in 1 .. 5 : Theirs(k, sock'[k])
      /\ ~crossed => \A k \in 1 .. 5 : k <= netStep => sock'[k] = g[k]
  BY <1>2, <1>4, <1>5 DEF Theirs
<1>8. UdpTypes' /\ HdrInv'
  BY <1>4, <1>5, <1>6 DEF UdpTypes, HdrInv, AtUdp, StackInv
<1>9. ~crossed /\ netStep = 5 => Settled(sock')
  <2>1. \A k \in 1 .. 5 : g[k] # Unbound[k]
    BY <1>1, <1>2, Peers
  <2> QED
    BY <1>7, <2>1 DEF Settled
<1>10. SockInv'
  <2>1. Settled(sock') <=> Settled(sock)'
    BY DEF Settled
  <2> QED
    BY <1>1, <1>2, <1>3, <1>4, <1>6, <1>7, <1>9, <2>1 DEF SockInv, Theirs, Checked
<1> QED
  BY <1>4, <1>8, <1>10 DEF StackInv

LEMMA SendStep == StackInv /\ NetSends => StackInv'
<1> SUFFICES ASSUME StackInv, NetSends PROVE StackInv'
  OBVIOUS
<1>1. /\ netAt = "send" /\ datagram \in UdpFrames /\ asker = Sender(datagram)
      /\ hdr \in Seq(Part) /\ Len(hdr) < 5 /\ sock \in [1 .. 5 -> Part]
      /\ \A k \in 1 .. Len(hdr) : Theirs(k, hdr[k]) /\ (~crossed => hdr[k] = sock[k])
      /\ ~crossed => Settled(sock)
  BY DEF NetSends, StackInv, SockInv, HdrInv, UdpTypes, AtUdp
<1>2. Checked = 1 .. 5 /\ \A k \in 1 .. 5 : Theirs(k, sock[k])
  BY <1>1 DEF StackInv, SockInv, AtUdp, Checked
<1>3. PICK n \in 1 .. 5 : n = Len(hdr) + 1
  BY <1>1
<1>4. /\ hdr' = Append(hdr, sock[n])
      /\ IF Len(hdr') = 5 THEN netAt' = "lookup" ELSE UNCHANGED netAt
      /\ UNCHANGED <<arpcache, sock, netStep, datagram, asker, sent, crossed, heard, stackFate>>
  BY <1>3 DEF NetSends
<1>5. /\ hdr' \in Seq(Part) /\ Len(hdr') = n /\ hdr'[n] = sock[n]
      /\ \A k \in 1 .. n : k # n => k \in 1 .. Len(hdr) /\ hdr'[k] = hdr[k]
  BY <1>1, <1>3, <1>4
<1>6. \A k \in 1 .. n : Theirs(k, hdr'[k]) /\ (~crossed => hdr'[k] = sock[k])
  BY <1>1, <1>2, <1>5
<1>7. netAt' = (IF n = 5 THEN "lookup" ELSE "send")
  BY <1>1, <1>4, <1>5
<1>8. HdrInv' /\ UdpTypes'
  BY <1>1, <1>3, <1>4, <1>5, <1>6, <1>7 DEF HdrInv, UdpTypes, AtUdp, Theirs, StackInv
<1>9. SockInv'
  BY <1>1, <1>2, <1>4, <1>7 DEF SockInv, Theirs, Settled, Checked
<1>10. CacheInv' /\ AnswersAsker'
  BY <1>4, SentKept DEF StackInv, CacheInv
<1> QED
  BY <1>8, <1>9, <1>10 DEF StackInv

\* The address looked up is the sender's or nobody's, and so is each part of the
\* headers; without a reset they are all of the one or all of the other.
LEMMA LookedUp ==
    ASSUME StackInv, netAt = "lookup", netStep \in ArpSlots(<<sock[4], sock[5]>>),
           NEW m, m = [l2 |-> "udp", dmac |-> arpcache[netStep].mac,
                       dip |-> <<hdr[4], hdr[5]>>, dport |-> hdr[1]]
    PROVE  Deserved(m)
<1>1. /\ datagram \in UdpFrames /\ Len(hdr) = 5
      /\ \A k \in 1 .. 5 : Theirs(k, sock[k]) /\ Theirs(k, hdr[k]) /\ (~crossed => hdr[k] = sock[k])
      /\ ~crossed => Settled(sock)
  BY DEF StackInv, SockInv, HdrInv, AtUdp, Checked
<1>2. PICK ip \in Hosts, port \in Ports : asker = <<ip, port>> /\ datagram.sip = ip /\ datagram.sport = port
  BY <1>1, Peers DEF StackInv, SockInv, AtUdp
<1>3. /\ Unbound[1] = PortAll /\ Unbound[4] = AnyIp /\ Unbound[5] = AnyIp
      /\ Greeted(datagram)[1] = port /\ Greeted(datagram)[4] = ip /\ Greeted(datagram)[5] = ip
  BY <1>2 DEF Unbound, Greeted
<1>4. /\ hdr[1] \in {port, PortAll} /\ hdr[4] \in {ip, AnyIp} /\ hdr[5] \in {ip, AnyIp}
      /\ sock[4] \in {ip, AnyIp} /\ sock[5] \in {ip, AnyIp}
  BY <1>1, <1>3 DEF Theirs
<1>5. PICK a : a = arpcache[netStep].ip /\ sock[4] = a /\ sock[5] = a
               /\ <<a, arpcache[netStep].mac>> \in heard
  <2>1. netStep \in Used(arpcache) /\ Both(arpcache[netStep].ip) = <<sock[4], sock[5]>>
    BY DEF ArpSlots, Used
  <2>2. <<arpcache[netStep].ip, arpcache[netStep].mac>> \in heard
    BY <2>1 DEF StackInv, CacheInv, Bindings
  <2> QED
    BY <2>1, <2>2 DEF Both
<1>6. ASSUME ~crossed
      PROVE  \E to \in {asker, Nobody} : /\ m.dip = Both(to[1]) /\ m.dport = to[2]
                                        /\ <<to[1], m.dmac>> \in heard
  <2>1. hdr[1] = sock[1] /\ hdr[4] = sock[4] /\ hdr[5] = sock[5] /\ Settled(sock)
    BY <1>1, <1>6
  <2>2. CASE sock = Unbound
    BY <1>3, <1>5, <2>1, <2>2 DEF Nobody, Both
  <2>3. CASE \A k \in 1 .. 5 : sock[k] # Unbound[k]
    <3>1. sock[1] = port /\ sock[4] = ip
      BY <1>1, <1>3, <2>3 DEF Theirs
    <3> QED
      BY <1>2, <1>5, <2>1, <3>1 DEF Both
  <2> QED
    BY <2>1, <2>2, <2>3 DEF Settled
<1>7. /\ \A h \in 1 .. 2 : m.dip[h] \in {asker[1], AnyIp}
      /\ m.dport \in {asker[2], PortAll}
  BY <1>2, <1>4
<1>8. \E x \in {asker[1], AnyIp} : <<x, m.dmac>> \in heard
  BY <1>2, <1>4, <1>5
<1> QED
  BY <1>6, <1>7, <1>8 DEF Deserved

LEMMA LookUpStep == StackInv /\ NetLooksUp => StackInv'
<1> SUFFICES ASSUME StackInv, NetLooksUp PROVE StackInv'
  OBVIOUS
<1>1. /\ netAt = "lookup" /\ UNCHANGED <<arpcache, sock, asker, crossed, heard, stackFate>>
      /\ netStep \in Nat \ {0}
  BY DEF NetLooksUp, StackInv, UdpTypes
<1>2. CacheInv'
  BY <1>1 DEF StackInv, CacheInv
<1>3. AnswersAsker'
  <2>1. CASE netStep \in ArpSlots(<<sock[4], sock[5]>>)
    <3>1. PICK m : m = [l2 |-> "udp", dmac |-> arpcache[netStep].mac,
                        dip |-> <<hdr[4], hdr[5]>>, dport |-> hdr[1]]
      OBVIOUS
    <3>2. sent' = <<m>>
      BY <2>1, <3>1 DEF NetLooksUp
    <3>3. Deserved(m)
      BY <1>1, <2>1, <3>1, LookedUp
    <3>4. Deserved(m)'
      BY <1>1, <3>3 DEF Deserved
    <3> QED
      BY <3>2, <3>4, SentOne
  <2>2. CASE netStep \notin ArpSlots(<<sock[4], sock[5]>>)
    <3>1. UNCHANGED sent
      BY <2>2 DEF NetLooksUp
    <3> QED
      BY <1>1, <3>1, SentKept DEF StackInv
  <2> QED
    BY <2>1, <2>2
<1>4. UdpTypes' /\ SockInv' /\ HdrInv'
  <2>1. CASE netStep' = netStep + 1 /\ UNCHANGED <<netAt, datagram, hdr>>
    <3>1. UdpTypes' /\ HdrInv'
      BY <1>1, <2>1 DEF StackInv, UdpTypes, HdrInv, AtUdp, Theirs
    <3>2. SockInv'
      BY <1>1, <2>1 DEF StackInv, SockInv, Theirs, Settled, Checked
    <3> QED
      BY <3>1, <3>2
  <2>2. CASE Goes("unbind") /\ hdr' = <<>> /\ UNCHANGED datagram
    <3>1. UdpTypes' /\ HdrInv'
      BY <1>1, <2>2 DEF StackInv, UdpTypes, HdrInv, AtUdp, Goes
    <3>2. SockInv'
      BY <1>1, <2>2 DEF StackInv, SockInv, Theirs, Checked, Goes, AtUdp
    <3> QED
      BY <3>1, <3>2
  <2>3. CASE Returns
    BY <1>1, <2>3, Freed DEF StackInv, Returns, Goes, UdpTypes
  <2> QED
    BY <2>1, <2>2, <2>3 DEF NetLooksUp, AfterAnswer
<1> QED
  BY <1>2, <1>3, <1>4 DEF StackInv

LEMMA UnbindStep == StackInv /\ NetUnbinds => StackInv'
<1> SUFFICES ASSUME StackInv, NetUnbinds PROVE StackInv'
  OBVIOUS
<1>1. netAt = "unbind" /\ datagram \in UdpFrames /\ netStep <= 5 /\ hdr = <<>>
  BY DEF NetUnbinds, StackInv, SockInv, HdrInv, AtUdp
<1>2. PICK u \in [1 .. 5 -> Part] : u = Unbound
  BY <1>1, Peers
<1>3. /\ sock' = [sock EXCEPT ![netStep] = u[netStep]]
      /\ IF netStep < 5
         THEN netStep' = netStep + 1 /\ UNCHANGED <<netAt, datagram, hdr>>
         ELSE Returns
      /\ UNCHANGED <<arpcache, asker, sent, crossed, heard>>
  BY <1>2 DEF NetUnbinds, Writes
<1>4. /\ sock' \in [1 .. 5 -> Part] /\ netStep \in 1 .. 5
      /\ sock'[netStep] = u[netStep]
      /\ \A k \in 1 .. 5 : k # netStep => sock'[k] = sock[k]
      /\ CacheInv' /\ AnswersAsker'
  BY <1>1, <1>2, <1>3, WritesPart
<1>5. CASE netStep < 5
  <2>1. netStep' = netStep + 1 /\ UNCHANGED <<netAt, datagram, hdr>>
    BY <1>3, <1>5
  <2>2. \A k \in 1 .. 5 : Theirs(k, sock'[k])
    BY <1>1, <1>2, <1>4 DEF Theirs, StackInv, SockInv, AtUdp, Checked
  <2>3. Checked' \subseteq 1 .. 5 /\ netStep' <= 5
    BY <1>4, <1>5, <2>1 DEF Checked
  <2>4. asker = Sender(datagram)
    BY <1>1 DEF StackInv, SockInv, AtUdp
  <2>5. SockInv'
    BY <1>1, <1>3, <2>1, <2>2, <2>3, <2>4 DEF SockInv, Theirs
  <2>6. UdpTypes' /\ HdrInv'
    BY <1>1, <1>4, <2>1 DEF StackInv, UdpTypes, HdrInv, AtUdp
  <2> QED
    BY <1>4, <2>5, <2>6 DEF StackInv
<1>6. CASE ~(netStep < 5)
  <2>1. Returns
    BY <1>3, <1>6
  <2> QED
    BY <1>4, <2>1, Freed DEF StackInv, Returns, Goes
<1> QED
  BY <1>5, <1>6

\* A reset while a frame is handled takes parts away, and adds none.
LEMMA ResetStep == StackInv /\ resetAt \in 0 .. 4 /\ UdpcliReset => StackInv'
<1> SUFFICES ASSUME StackInv, resetAt \in 0 .. 4, UdpcliReset PROVE StackInv'
  OBVIOUS
<1>1. PICK r \in 1 .. 5 : r = resetAt + 1
  OBVIOUS
<1>2. /\ sock' = [sock EXCEPT ![r] = Unbound[r]]
      /\ crossed' = (crossed \/ netAt \notin {"idle", "done"})
      /\ UNCHANGED <<arpcache, netAt, netStep, datagram, hdr, asker, sent, heard, stackFate>>
  BY <1>1 DEF UdpcliReset
<1>3. Unbound \in [1 .. 5 -> Part]
  BY DEF Unbound, Part
<1>4. /\ sock' \in [1 .. 5 -> Part] /\ sock'[r] = Unbound[r]
      /\ \A k \in 1 .. 5 : k # r => sock'[k] = sock[k]
  BY <1>2, <1>3 DEF StackInv, UdpTypes
<1>5. CacheInv' /\ AnswersAsker' /\ Checked' = Checked
  BY <1>2, SentKept DEF StackInv, CacheInv, Checked
<1>6. netAt \in AtUdp => crossed'
  BY <1>2 DEF AtUdp
<1>7. SockInv'
  <2>1. netAt \in AtUdp => \A k \in Checked : Theirs(k, sock'[k])
    BY <1>4 DEF StackInv, SockInv, Theirs, Checked
  <2> QED
    BY <1>2, <1>5, <1>6, <2>1 DEF StackInv, SockInv, Theirs
<1>8. UdpTypes' /\ HdrInv'
  BY <1>2, <1>4, <1>6 DEF StackInv, UdpTypes, HdrInv, Theirs
<1> QED
  BY <1>5, <1>7, <1>8 DEF StackInv

LEMMA FreeStep == StackInv /\ NetFrees => StackInv'
<1> SUFFICES ASSUME StackInv, NetFrees PROVE StackInv'
  OBVIOUS
<1>1. CacheInv' /\ AnswersAsker'
  BY SentNothing DEF NetFrees, StackInv, CacheInv
<1> QED
  BY <1>1 DEF NetFrees, StackInv, UdpTypes, SockInv, HdrInv, AtUdp

\* The command line is at one of the five parts.
Resets == resetAt \in 0 .. 4

LEMMA StackStep == StackInv /\ Resets /\ [StackNext]_stackVars => StackInv' /\ Resets'
<1> SUFFICES ASSUME StackInv, Resets, [StackNext]_stackVars PROVE StackInv' /\ Resets'
  OBVIOUS
<1>1. CASE UNCHANGED stackVars
  <2>1. CacheInv' /\ AnswersAsker' /\ Checked' = Checked
    BY <1>1, SentKept DEF stackVars, udpVars, StackInv, CacheInv, Checked
  <2>2. UdpTypes' /\ SockInv' /\ HdrInv'
    BY <1>1, <2>1 DEF stackVars, udpVars, StackInv, UdpTypes, SockInv, HdrInv, Theirs, Settled
  <2> QED
    BY <1>1, <2>1, <2>2 DEF StackInv, Resets, stackVars, udpVars
<1>2. CASE UdpcliReset
  <2>1. Resets'
    BY <1>2 DEF UdpcliReset, Resets
  <2> QED
    BY <1>2, <2>1, ResetStep DEF Resets
<1>3. Efproc \/ NetCompare \/ NetGreets \/ NetSends \/ NetLooksUp \/ NetUnbinds \/ NetFrees
      => UNCHANGED resetAt
  BY DEF Efproc, RecvArp, RecvIcmp, RecvUdp, RecvOther, NetCompare, NetGreets, NetSends,
     NetLooksUp, NetUnbinds, NetFrees, Writes
<1> QED
  BY <1>1, <1>2, <1>3, EfprocStep, CompareStep, GreetStep, SendStep, LookUpStep, UnbindStep,
     FreeStep DEF StackNext, Resets

LEMMA StackInitially == StackInit => StackInv /\ Resets
<1> SUFFICES ASSUME StackInit PROVE StackInv /\ Resets
  OBVIOUS
<1>1. arpcache \in [1 .. ListSize -> Entry] /\ Used(arpcache) = {}
  BY DEF StackInit, NoEntry, Entry, Used
<1>2. CacheInv
  BY <1>1 DEF StackInit, CacheInv, Apart, Bindings
<1>3. UdpTypes /\ SockInv /\ HdrInv
  BY DEF StackInit, UdpTypes, SockInv, HdrInv, AtUdp, Unbound, Part
<1>4. 1 .. Len(sent) = {} /\ Resets
  BY DEF StackInit, Resets
<1>5. AnswersAsker
  BY <1>4, Zenon DEF AnswersAsker
<1> QED
  BY <1>2, <1>3, <1>4, <1>5 DEF StackInv

THEOREM StackInvariance == StackSpec => []StackInv
<1>1. StackInit => StackInv /\ Resets
  BY StackInitially
<1>2. (StackInv /\ Resets) /\ [StackNext]_stackVars => (StackInv /\ Resets)'
  BY StackStep
<1> QED
  BY <1>1, <1>2, PTL DEF StackSpec

\* A binding is purged with all it contradicts: for any number of hosts and
\* slots the cache holds each of the last bindings heard in exactly one slot.
THEOREM ArpSoundHolds == StackSpec => []ArpSound
<1>1. ASSUME StackInv PROVE ArpSound
  <2>1. Used(arpcache) \in SUBSET (1 .. ListSize) /\ IsFiniteSet(1 .. ListSize)
    BY StackAssumption, FS_Interval DEF Used
  <2>2. PICK B : B = [i \in Used(arpcache) |-> <<arpcache[i].ip, arpcache[i].mac>>]
    OBVIOUS
  <2>3. B \in Bijection(Used(arpcache), heard)
    <3>1. heard = Bindings(arpcache) /\ Apart(arpcache)
      BY <1>1 DEF StackInv, CacheInv
    <3>2. B \in [Used(arpcache) -> heard]
      BY <2>2, <3>1 DEF Bindings
    <3>3. \A a, b \in Used(arpcache) : B[a] = B[b] => a = b
      BY <2>2, <3>1 DEF Apart
    <3>4. \A t \in heard : \E s \in Used(arpcache) : B[s] = t
      BY <2>2, <3>1 DEF Bindings
    <3> QED
      BY <3>2, <3>3, <3>4, Fun_IsBij
  <2>4. Cardinality(heard) = Cardinality(Used(arpcache))
    <3>1. IsFiniteSet(Used(arpcache))
      BY <2>1, FS_Subset
    <3> QED
      BY <2>3, <3>1, FS_Bijection DEF ExistsBijection
  <2>5. \A b, c \in heard : (b[1] = c[1] \/ b[2] = c[2]) => b = c
    <3> SUFFICES ASSUME NEW b \in heard, NEW c \in heard, b[1] = c[1] \/ b[2] = c[2]
                 PROVE  b = c
      OBVIOUS
    <3>1. PICK i \in Used(arpcache) : b = <<arpcache[i].ip, arpcache[i].mac>>
      BY <1>1 DEF StackInv, CacheInv, Bindings
    <3>2. PICK j \in Used(arpcache) : c = <<arpcache[j].ip, arpcache[j].mac>>
      BY <1>1 DEF StackInv, CacheInv, Bindings
    <3>3. arpcache[i].ip = arpcache[j].ip \/ arpcache[i].mac = arpcache[j].mac
      BY <3>1, <3>2
    <3>4. i = j
      BY <1>1, <3>3 DEF StackInv, CacheInv, Apart
    <3> QED
      BY <3>1, <3>2, <3>4
  <2> QED
    BY <1>1, <2>4, <2>5 DEF ArpSound, StackInv, CacheInv, Bindings, Used
<1> QED
  BY <1>1, StackInvariance, PTL

\* Whatever frames come from whom, and whenever the command line resets the
\* socket: the answer goes to the host that asked and to its port, or where a
\* reset has come in between, in part to nobody.
THEOREM AnswersAskerHolds == StackSpec => []AnswersAsker
<1>1. StackInv => AnswersAsker
  BY DEF StackInv
<1> QED
  BY <1>1, StackInvariance, PTL
-----------------------------------------------------------------------------
(***************************************************************************)
(* OwnBits of E1000Link for every number of polls: what is written to a    *)
(* register of the PHY was read from it, unless that read failed.          *)
(***************************************************************************)

PhyBits == {"crs_on_tx", "auto_x", "tx_clk", "downshift", "reset", "10_100",
            "1000_full", "restart"}
PhyValues == [of : PhyRegs \union {"zero"}, bits : SUBSET PhyBits]

\* What phy_data is worth at a write to r: it comes from r, or reading r has
\* failed.
Owned(v, r) == v.of = r \/ r \in failedReads

LinkTypeOK ==
    /\ phyReg \in [PhyRegs -> PhyValues]
    /\ phyData \in PhyValues /\ gigaData \in PhyValues

\* The locals at each access.
LocalsOwned ==
    /\ linkAt = "mgp_write"   => Owned(phyData, "pscr")
    /\ linkAt = "ext_write"   => Owned(phyData, "ext")
    /\ linkAt \in {"reset_write", "neg_write"} => Owned(phyData, "ctrl")
    /\ linkAt \in {"giga_read", "adv_write"} => phyData.of = "adv"
    /\ linkAt \in {"adv_write", "giga_write"} => gigaData.of = "giga"

LinkInv == LinkTypeOK /\ LocalsOwned /\ OwnBits

USE DEF LinkInv, LinkTypeOK, Owned

LEMMA ZeroIsValue == ZeroData \in PhyValues
  BY DEF ZeroData, PhyValues

\* A write keeps the register its data come from.
LEMMA WriteOwn ==
    ASSUME LinkInv, NEW r \in PhyRegs, NEW v \in PhyValues, NEW b \in SUBSET PhyBits,
           MdicWrite(r, v, b)
    PROVE  /\ phyReg' \in [PhyRegs -> PhyValues]
           /\ \A q \in PhyRegs : phyReg'[q].of = IF q = r THEN v.of ELSE phyReg[q].of
  <1>1. [v EXCEPT !.bits = @ \union b] \in PhyValues
    BY DEF PhyValues
  <1>2. [v EXCEPT !.bits = @ \union b].of = v.of
    BY DEF PhyValues
  <1>3. phyReg' = [phyReg EXCEPT ![r] = [v EXCEPT !.bits = @ \union b]]
    BY DEF MdicWrite
  <1> QED
    BY <1>1, <1>2, <1>3

\* The two kinds of step that several functions take.
LEMMA ReadIgnoredStep ==
    ASSUME LinkInv, NEW l, NEW r \in PhyRegs, NEW l2, ReadIgnored(l, r, l2)
    PROVE  /\ LinkTypeOK' /\ OwnBits'
           /\ linkAt = l /\ linkAt' = l2 /\ UNCHANGED <<phyReg, gigaData>>
           /\ Owned(phyData, r)'
  <1>1. phyReg[r] \in PhyValues /\ (phyReg[r].of # r => r \in failedReads)
    BY DEF OwnBits
  <1>2. CASE MdicRead(r, phyData)
    BY <1>1, <1>2 DEF ReadIgnored, MdicRead, OwnBits, Owned
  <1>3. CASE MdicReadFails(r) /\ UNCHANGED phyData
    BY <1>1, <1>3 DEF ReadIgnored, MdicReadFails, OwnBits, Owned
  <1> QED
    BY <1>2, <1>3 DEF ReadIgnored

LEMMA WriteThenStep ==
    ASSUME LinkInv, NEW l, NEW r \in PhyRegs, NEW b \in SUBSET PhyBits, NEW l2,
           NEW other, NEW data \in PhyValues, WriteThen(l, r, b, l2, other, data),
           IF r \in {"adv", "giga"} THEN phyData.of = r ELSE Owned(phyData, r)
    PROVE  /\ LinkTypeOK' /\ OwnBits'
           /\ linkAt' \in {l2, other} /\ phyData' = data /\ UNCHANGED gigaData
  <1>1. UNCHANGED <<gigaData, failedReads>> /\ phyData' = data /\ linkAt' \in {l2, other}
    BY DEF WriteThen
  <1>2. CASE UNCHANGED phyReg
    BY <1>1, <1>2 DEF OwnBits
  <1>3. CASE MdicWrite(r, phyData, b)
    <2>1. /\ phyReg' \in [PhyRegs -> PhyValues]
          /\ \A q \in PhyRegs : phyReg'[q].of = IF q = r THEN phyData.of ELSE phyReg[q].of
      BY <1>3, WriteOwn
    <2> QED
      BY <1>1, <2>1 DEF OwnBits, Owned, PhyRegs
  <1> QED
    BY <1>1, <1>2, <1>3 DEF WriteThen

LEMMA LinkInitInv == LinkInit => LinkInv
  BY DEF LinkInit, LocalsOwned, OwnBits, ZeroData, PhyValues, PhyRegs

LEMMA LinkStepInv == LinkInv /\ [LinkNext]_linkVars => LinkInv'
<1> SUFFICES ASSUME LinkInv, [LinkNext]_linkVars PROVE LinkInv'
  OBVIOUS
<1> USE ZeroIsValue
<1>1. CASE MgpSetup
  <2>1. CASE ReadIgnored("mgp_read", "pscr", "mgp_write")
    <3>1. LinkTypeOK' /\ OwnBits' /\ linkAt' = "mgp_write" /\ Owned(phyData, "pscr")'
      BY <2>1, ReadIgnoredStep DEF PhyRegs
    <3> QED
      BY <3>1 DEF LocalsOwned
  <2>2. CASE WriteThen("mgp_write", "pscr", {"crs_on_tx", "auto_x"}, "ext_read",
                       "ext_read", phyData)
    <3>1. Owned(phyData, "pscr")
      BY <2>2 DEF WriteThen, LocalsOwned
    <3>2. LinkTypeOK' /\ OwnBits' /\ linkAt' = "ext_read"
      BY <2>2, <3>1, WriteThenStep DEF PhyRegs, PhyBits
    <3> QED
      BY <3>2 DEF LocalsOwned
  <2>3. CASE ReadIgnored("ext_read", "ext", "ext_write")
    <3>1. LinkTypeOK' /\ OwnBits' /\ linkAt' = "ext_write" /\ Owned(phyData, "ext")'
      BY <2>3, ReadIgnoredStep DEF PhyRegs
    <3> QED
      BY <3>1 DEF LocalsOwned
  <2>4. CASE WriteThen("ext_write", "ext", {"tx_clk", "downshift"}, "reset_read",
                       "reset_read", ZeroData)
    <3>1. Owned(phyData, "ext")
      BY <2>4 DEF WriteThen, LocalsOwned
    <3>2. LinkTypeOK' /\ OwnBits' /\ linkAt' = "reset_read"
      BY <2>4, <3>1, WriteThenStep DEF PhyRegs, PhyBits
    <3> QED
      BY <3>2 DEF LocalsOwned
  <2> QED
    BY <1>1, <2>1, <2>2, <2>3, <2>4 DEF MgpSetup
<1>2. CASE PhyReset
  <2>1. CASE ReadIgnored("reset_read", "ctrl", "reset_write")
    BY <2>1, ReadIgnoredStep DEF LocalsOwned, PhyRegs
  <2>2. CASE WriteThen("reset_write", "ctrl", {"reset"}, "adv_read", "adv_read", ZeroData)
    <3>1. Owned(phyData, "ctrl")
      BY <2>2 DEF WriteThen, LocalsOwned
    <3>2. LinkTypeOK' /\ OwnBits' /\ linkAt' = "adv_read"
      BY <2>2, <3>1, WriteThenStep DEF PhyRegs, PhyBits
    <3> QED
      BY <3>2 DEF LocalsOwned
  <2> QED
    BY <1>2, <2>1, <2>2 DEF PhyReset
<1>3. CASE AdvRead
  <2>1. phyReg["adv"] \in PhyValues /\ phyReg["adv"].of = "adv"
    BY DEF OwnBits, PhyRegs
  <2> QED
    BY <1>3, <2>1 DEF AdvRead, MdicRead, MdicReadFails, LocalsOwned, OwnBits
<1>4. CASE GigaRead
  <2>1. phyReg["giga"] \in PhyValues /\ phyReg["giga"].of = "giga"
    BY DEF OwnBits, PhyRegs
  <2> QED
    BY <1>4, <2>1 DEF GigaRead, MdicRead, MdicReadFails, LocalsOwned, OwnBits
<1>5. CASE AdvWrite
  <2>1. phyData.of = "adv" /\ gigaData.of = "giga"
    BY <1>5 DEF AdvWrite, WriteThen, LocalsOwned
  <2>2. /\ LinkTypeOK' /\ OwnBits' /\ linkAt' \in {"giga_write", "neg_read"}
        /\ UNCHANGED gigaData
    BY <1>5, <2>1, WriteThenStep DEF AdvWrite, PhyRegs, PhyBits
  <2> QED
    BY <2>1, <2>2 DEF LocalsOwned
<1>6. CASE GigaWrite
  <2>1. gigaData.of = "giga" /\ linkAt' = "neg_read"
        /\ UNCHANGED <<phyData, gigaData, failedReads>>
    BY <1>6 DEF GigaWrite, LocalsOwned
  <2>2. CASE UNCHANGED phyReg
    BY <2>1, <2>2 DEF LocalsOwned, OwnBits
  <2>3. CASE MdicWrite("giga", gigaData, {"1000_full"})
    <3>1. /\ phyReg' \in [PhyRegs -> PhyValues]
          /\ \A q \in PhyRegs :
                phyReg'[q].of = IF q = "giga" THEN gigaData.of ELSE phyReg[q].of
      BY <2>3, WriteOwn DEF PhyRegs, PhyBits
    <3> QED
      BY <2>1, <3>1 DEF LocalsOwned, OwnBits, PhyRegs
  <2> QED
    BY <1>6, <2>2, <2>3 DEF GigaWrite
<1>7. CASE RestartRead
  <2>1. phyReg["ctrl"] \in PhyValues /\ Owned(phyReg["ctrl"], "ctrl")
    BY DEF OwnBits, PhyRegs, Owned
  <2> QED
    BY <1>7, <2>1 DEF RestartRead, MdicRead, MdicReadFails, LocalsOwned, OwnBits, Owned
<1>8. CASE RestartAutoneg
  <2>1. Owned(phyData, "ctrl")
    BY <1>8 DEF RestartAutoneg, WriteThen, LocalsOwned
  <2>2. LinkTypeOK' /\ OwnBits' /\ linkAt' = "status"
    BY <1>8, <2>1, WriteThenStep DEF RestartAutoneg, PhyRegs, PhyBits
  <2> QED
    BY <2>2 DEF LocalsOwned
<1>9. CASE PollStatus
  BY <1>9 DEF PollStatus, LocalsOwned, OwnBits, Owned
<1>10. CASE UNCHANGED linkVars
  BY <1>10 DEF linkVars, LocalsOwned, OwnBits, Owned
<1> QED
  BY <1>1, <1>2, <1>3, <1>4, <1>5, <1>6, <1>7, <1>8, <1>9, <1>10 DEF LinkNext

\* Whatever accesses to the PHY fail during intele1000_reset(): what is
\* advertised is the register's own content with the speeds set, and no other
\* register gets a neighbour's bits unless reading it has failed.
THEOREM LinkOwnBits == LinkSpec => []OwnBits
<1>1. LinkInit => LinkInv
  BY LinkInitInv
<1>2. LinkInv /\ [LinkNext]_linkVars => LinkInv'
  BY LinkStepInv
<1>3. LinkInv => OwnBits
  OBVIOUS
<1> QED
  BY <1>1, <1>2, <1>3, PTL DEF LinkSpec
-----------------------------------------------------------------------------
(***************************************************************************)
(* RamWritten of Upload for files of every length, every number of retries *)
(* and of mishaps.                                                         *)
(***************************************************************************)

\* What RamWritten speaks about, and what it promises of it.
Counted(c) == mode = "ramwrite" \/ c = 1
InPlace(c) == stored[c] \in {"right", "strayed"}

Commands == [type : CmdTypes, of : Nat, len : Lengths, head : BOOLEAN, copy : BOOLEAN,
             body : {"right", "damaged", "absent"}]
Answers  == [ack : {"ACK", "RETRY", "REQ", "error"}, type : CmdTypes, of : Nat, len : Lengths,
             head : BOOLEAN, copy : BOOLEAN]

\* The client's command belongs to its mode; the data of a chunk that counts
\* are sent with their length.
ClientInv ==
    /\ mode \in UploadModes /\ chunk \in Nat /\ totalLen \in Lengths
    /\ cmdType \in {mode, "ramwrite_pre"}
    /\ IF cmdType = "ramwrite_pre" THEN mode = "ramwrite" /\ chunk = 0
       ELSE /\ chunk >= 1 /\ (clientAt # "bye" => chunk <= Chunks)
            /\ Counted(chunk) => totalLen = "full"

\* A command to write with its own header is of some chunk, and one that
\* counts says how long it is, so that its data are checked.
CommandOK(m) ==
    m.head /\ m.type # "ramwrite_pre" => m.of \in 1 .. Chunks /\ (Counted(m.of) => m.len = "full")

\* An acknowledgement that is as the server sent it, of a command as the
\* client sent it, stands for data in place.
AnswerOK(a) ==
    a.head /\ a.ack = "ACK" /\ a.type # "ramwrite_pre" =>
        a.of \in 1 .. Chunks /\ (Counted(a.of) => InPlace(a.of))

WireInv ==
    /\ requests \subseteq Commands /\ \A m \in requests : CommandOK(m)
    /\ answers \subseteq Answers /\ \A a \in answers : AnswerOK(a)

UploadInv == ClientInv /\ WireInv /\ reported \subseteq 1 .. Chunks /\ RamWritten

\* What the server, or the client's own kernel, makes of a command.
AnswerTo(m, ack) ==
    [ack |-> ack, type |-> m.type, of |-> m.of, len |-> "header", head |-> m.head, copy |-> FALSE]

LEMMA AnswerToOK ==
    ASSUME NEW m \in Commands, NEW ack \in {"ACK", "RETRY", "error"},
           ack = "ACK" => m.type = "ramwrite_pre"
    PROVE  AnswerTo(m, ack) \in Answers /\ AnswerOK(AnswerTo(m, ack))
<1>1. /\ m.type \in CmdTypes /\ m.of \in Nat /\ m.head \in BOOLEAN
      /\ "header" \in Lengths /\ FALSE \in BOOLEAN
  BY DEF Commands, Lengths
<1>2. AnswerTo(m, ack) \in Answers
  BY <1>1 DEF AnswerTo, Answers
<1>3. AnswerTo(m, ack).ack = ack /\ AnswerTo(m, ack).type = m.type
  BY DEF AnswerTo
<1> QED
  BY <1>2, <1>3 DEF AnswerOK

LEMMA UploadInitInv == UploadInit => UploadInv
  BY UploadAssumption DEF UploadInit, UploadInv, ClientInv, WireInv, Counted, RamWritten,
     UploadModes, Lengths

\* The client goes on to the next chunk.
LEMMA NextChunkInv ==
    ASSUME ClientInv, NEW len \in Lengths, NextChunk(len), clientAt = "recv", UNCHANGED mode
    PROVE  ClientInv'
<1>1. chunk' = chunk + 1 /\ cmdType' = mode
      /\ totalLen' = (IF mode = "hdwrite" THEN len ELSE "full")
      /\ clientAt' = (IF chunk = Chunks THEN "bye" ELSE "send")
  BY DEF NextChunk
<1>2. mode \in UploadModes /\ chunk \in Nat /\ chunk <= Chunks /\ Chunks \in Nat \ {0}
  BY UploadAssumption DEF ClientInv
<1>3. mode = "hdwrite" => chunk >= 1
  BY DEF ClientInv, UploadModes
<1> QED
  BY <1>1, <1>2, <1>3 DEF ClientInv, Counted, UploadModes, Lengths

\* The data stay where they are: what was said of them is still true.
LEMMA StoredKept ==
    ASSUME UploadInv, UNCHANGED <<mode, stored>>
    PROVE  /\ \A m : CommandOK(m) => CommandOK(m)'
           /\ \A a : AnswerOK(a) => AnswerOK(a)'
           /\ \A c : Counted(c)' = Counted(c) /\ InPlace(c)' = InPlace(c)
  BY DEF CommandOK, AnswerOK, Counted, InPlace

LEMMA ClientSendsInv == UploadInv /\ ClientSends => UploadInv'
<1> SUFFICES ASSUME UploadInv, ClientSends PROVE UploadInv'
  OBVIOUS
<1> DEFINE m == [type |-> cmdType, of |-> chunk, len |-> totalLen, head |-> TRUE, copy |-> FALSE,
                 body |-> IF totalLen = "full" THEN "right" ELSE "absent"]
<1>1. /\ clientAt = "send" /\ clientAt' = "recv" /\ requests' = requests \union {m}
      /\ UNCHANGED <<mode, chunk, cmdType, totalLen, answers, stored, reported, unsure>>
  BY DEF ClientSends
<1>2. ClientInv' /\ RamWritten'
  BY <1>1 DEF UploadInv, ClientInv, Counted, RamWritten
<1>3. m \in Commands
  BY DEF UploadInv, ClientInv, Commands, UploadModes, CmdTypes
<1>4. CommandOK(m)
  BY <1>1, UploadAssumption DEF UploadInv, ClientInv, CommandOK, UploadModes
<1>5. WireInv'
  BY <1>1, <1>3, <1>4, StoredKept DEF UploadInv, WireInv
<1> QED
  BY <1>1, <1>2, <1>5 DEF UploadInv

LEMMA ClientAckedInv ==
    ASSUME UploadInv, NEW a \in answers, ClientAcked(a)
    PROVE  UploadInv'
<1>1. /\ clientAt = "recv" /\ a.ack = "ACK" /\ a.type = cmdType /\ answers' = answers \ {a}
      /\ NextChunk(a.len) /\ UNCHANGED <<mode, requests, stored>>
  BY DEF ClientAcked, Acknowledges
<1>2. a \in Answers /\ AnswerOK(a)
  BY DEF UploadInv, WireInv
<1>3. ClientInv'
  BY <1>1, <1>2, NextChunkInv DEF UploadInv, Answers
<1>4. WireInv'
  BY <1>1, StoredKept DEF UploadInv, WireInv
<1>5. CASE cmdType = "ramwrite_pre"
  <2>1. UNCHANGED reported /\ (unsure' = unsure \/ unsure' = 1 .. Chunks)
    BY <1>5 DEF ClientAcked
  <2>2. RamWritten'
    BY <1>1, <2>1 DEF UploadInv, RamWritten
  <2> QED
    BY <1>3, <1>4, <2>1, <2>2 DEF UploadInv
<1>6. CASE cmdType # "ramwrite_pre"
  <2>1. /\ reported' = reported \union {chunk}
        /\ unsure' = IF a.head /\ a.of = chunk THEN unsure ELSE unsure \union {chunk}
    BY <1>6 DEF ClientAcked
  <2>2. chunk \in 1 .. Chunks
    BY <1>1, <1>6, UploadAssumption DEF UploadInv, ClientInv
  <2>3. a.head /\ a.of = chunk => (Counted(chunk) => InPlace(chunk))
    BY <1>1, <1>2, <1>6 DEF AnswerOK
  <2>4. RamWritten'
    BY <1>1, <2>1, <2>3 DEF UploadInv, RamWritten, Counted, InPlace
  <2> QED
    BY <1>3, <1>4, <2>1, <2>2, <2>4 DEF UploadInv
<1> QED
  BY <1>5, <1>6

LEMMA ClientRetriesInv ==
    ASSUME UploadInv, NEW a \in answers, ClientRetries(a)
    PROVE  UploadInv'
<1>1. /\ clientAt = "recv" /\ answers' = answers \ {a}
      /\ UNCHANGED <<mode, requests, stored, reported, unsure>>
  BY DEF ClientRetries
<1>2. WireInv' /\ RamWritten'
  BY <1>1, StoredKept DEF UploadInv, WireInv, RamWritten
<1>3. CASE UNCHANGED <<chunk, cmdType, totalLen>> /\ clientAt' \in {"send", "bye"}
  <2>1. ClientInv'
    BY <1>1, <1>3 DEF UploadInv, ClientInv, Counted
  <2> QED
    BY <1>1, <1>2, <2>1 DEF UploadInv
<1>4. CASE NextChunk(totalLen)
  <2>1. ClientInv'
    BY <1>1, <1>4, NextChunkInv DEF UploadInv, ClientInv
  <2> QED
    BY <1>1, <1>2, <2>1 DEF UploadInv
<1> QED
  BY <1>3, <1>4 DEF ClientRetries

\* A command that is written: one with its own header puts its data in its
\* place, one with a damaged header only makes places "strayed".
LEMMA StoreDataInv ==
    ASSUME UploadInv, NEW m \in requests, m.type # "ramwrite_pre", CrcPasses(m), StoreData(m),
           UNCHANGED mode
    PROVE  /\ \A c \in 1 .. Chunks : Counted(c) /\ InPlace(c) => InPlace(c)'
           /\ m.head => m.of \in 1 .. Chunks /\ (Counted(m.of) => InPlace(m.of)')
<1>1. PICK places \in Places(m) :
        stored' = [c \in 1 .. Chunks |-> IF c \in places THEN Written(m) ELSE stored[c]]
  BY DEF StoreData
<1>2. m \in Commands /\ CommandOK(m)
  BY DEF UploadInv, WireInv
<1>3. CASE m.head
  <2>1. places = {m.of} /\ m.of \in 1 .. Chunks
    BY <1>1, <1>2, <1>3 DEF Places, CommandOK
  <2>2. Counted(m.of) => Written(m) = "right"
    BY <1>2, <1>3 DEF CommandOK, CrcPasses, Written
  <2> QED
    BY <1>1, <2>1, <2>2 DEF InPlace
<1>4. CASE ~m.head
  <2>1. Written(m) = "strayed"
    BY <1>4 DEF Written
  <2> QED
    BY <1>1, <1>4, <2>1 DEF InPlace
<1> QED
  BY <1>3, <1>4

LEMMA ServerInv ==
    ASSUME UploadInv, NEW m \in requests, Server(m)
    PROVE  UploadInv'
<1>1. /\ requests' = requests \ {m}
      /\ UNCHANGED <<mode, chunk, cmdType, totalLen, clientAt, reported, unsure>>
  BY DEF Server
<1>2. m \in Commands /\ CommandOK(m)
  BY DEF UploadInv, WireInv
<1>3. ClientInv'
  BY <1>1 DEF UploadInv, ClientInv, Counted
<1>4. ASSUME UNCHANGED stored,
             \/ UNCHANGED answers
             \/ Answered(m, "RETRY")
             \/ m.type = "ramwrite_pre" /\ Answered(m, "ACK")
      PROVE  UploadInv'
  <2>1. RamWritten'
    BY <1>1, <1>4 DEF UploadInv, RamWritten
  <2>2. answers' \subseteq Answers /\ \A a \in answers' : AnswerOK(a)
    <3>1. CASE UNCHANGED answers
      BY <3>1 DEF UploadInv, WireInv
    <3>2. CASE Answered(m, "RETRY")
      <4>1. answers' = answers \union {AnswerTo(m, "RETRY")}
        BY <3>2 DEF Answered, AnswerTo
      <4> QED
        BY <1>2, <4>1, AnswerToOK DEF UploadInv, WireInv
    <3>3. CASE m.type = "ramwrite_pre" /\ Answered(m, "ACK")
      <4>1. answers' = answers \union {AnswerTo(m, "ACK")}
        BY <3>3 DEF Answered, AnswerTo
      <4> QED
        BY <1>2, <3>3, <4>1, AnswerToOK DEF UploadInv, WireInv
    <3> QED
      BY <1>4, <3>1, <3>2, <3>3
  <2>3. WireInv'
    BY <1>1, <1>4, <2>2, StoredKept DEF UploadInv, WireInv
  <2> QED
    BY <1>1, <1>3, <2>1, <2>3 DEF UploadInv
<1>5. ASSUME m.type # "ramwrite_pre", CrcPasses(m), StoreData(m), Answered(m, "ACK")
      PROVE  UploadInv'
  <2>1. /\ \A c \in 1 .. Chunks : Counted(c) /\ InPlace(c) => InPlace(c)'
        /\ m.head => m.of \in 1 .. Chunks /\ (Counted(m.of) => InPlace(m.of)')
        /\ \A c : Counted(c)' = Counted(c)
    BY <1>1, <1>5, StoreDataInv DEF Counted
  <2>2. RamWritten'
    BY <1>1, <2>1 DEF UploadInv, RamWritten, Counted, InPlace
  <2> DEFINE b == [ack |-> "ACK", type |-> m.type, of |-> m.of, len |-> "header",
                   head |-> m.head, copy |-> FALSE]
  <2>3. answers' = answers \union {b} /\ b \in Answers
    BY <1>2, <1>5 DEF Answered, Answers, Commands, Lengths
  <2>4. \A a \in answers : AnswerOK(a)'
    BY <2>1 DEF UploadInv, WireInv, AnswerOK
  <2>5. AnswerOK(b)'
    BY <2>1 DEF AnswerOK
  <2>6. \A n \in requests' : CommandOK(n)'
    BY <1>1, <2>1 DEF UploadInv, WireInv, CommandOK
  <2>7. WireInv'
    BY <1>1, <2>3, <2>4, <2>5, <2>6 DEF UploadInv, WireInv
  <2> QED
    BY <1>1, <1>3, <2>2, <2>7 DEF UploadInv
<1>6. CASE ServerHdwrite(m)
  BY <1>4, <1>5, <1>6 DEF ServerHdwrite
<1>7. CASE ServerNoDisk(m)
  BY <1>4, <1>7 DEF ServerNoDisk
<1>8. CASE ServerRamwrite(m)
  BY <1>4, <1>5, <1>8 DEF ServerRamwrite
<1>9. CASE ServerRamwritePre(m)
  BY <1>4, <1>9 DEF ServerRamwritePre
<1>10. CASE ServerIgnores(m)
  BY <1>4, <1>10 DEF ServerIgnores
<1> QED
  BY <1>6, <1>7, <1>8, <1>9, <1>10 DEF Server

\* What the network makes of messages says no more than they did.
LEMMA NetworkInv == UploadInv /\ Network => UploadInv'
<1> SUFFICES ASSUME UploadInv, Network PROVE UploadInv'
  OBVIOUS
<1>1. UNCHANGED <<mode, chunk, cmdType, totalLen, clientAt, stored, reported, unsure>>
  BY DEF Network
<1>2. ClientInv' /\ RamWritten'
  BY <1>1 DEF UploadInv, ClientInv, Counted, RamWritten
<1>3. SUFFICES /\ requests' \subseteq Commands /\ \A n \in requests' : CommandOK(n)
               /\ answers' \subseteq Answers /\ \A b \in answers' : AnswerOK(b)
  BY <1>1, <1>2, StoredKept DEF UploadInv, WireInv
<1>4. \A m \in requests : m \in Commands /\ CommandOK(m)
  BY DEF UploadInv, WireInv
<1>5. \A a \in answers : a \in Answers /\ AnswerOK(a)
  BY DEF UploadInv, WireInv
<1>6. ASSUME NEW m \in requests,
             \/ DataDamaged(m) \/ HeaderDamaged(m) \/ RequestRepeated(m) \/ RequestLost(m)
      PROVE  /\ requests' \subseteq Commands /\ \A n \in requests' : CommandOK(n)
             /\ UNCHANGED answers
  <2>1. CASE DataDamaged(m)
    BY <1>4, <2>1 DEF DataDamaged, Commands, CommandOK
  <2>2. CASE HeaderDamaged(m)
    <3>1. PICK type \in CmdTypes, len \in Lengths :
            requests' = (requests \ {m}) \union {[m EXCEPT !.type = type, !.len = len, !.head = FALSE]}
      BY <2>2 DEF HeaderDamaged
    <3> QED
      BY <1>4, <2>2, <3>1 DEF HeaderDamaged, Commands, CommandOK
  <2>3. CASE RequestRepeated(m)
    BY <1>4, <2>3 DEF RequestRepeated, Commands, CommandOK
  <2>4. CASE RequestLost(m)
    BY <1>4, <2>4 DEF RequestLost
  <2> QED
    BY <1>6, <2>1, <2>2, <2>3, <2>4
<1>7. ASSUME NEW a \in answers, AnswerDamaged(a) \/ AnswerRepeated(a) \/ AnswerLost(a)
      PROVE  /\ answers' \subseteq Answers /\ \A b \in answers' : AnswerOK(b)
             /\ UNCHANGED requests
  <2>1. CASE AnswerDamaged(a)
    <3>1. PICK ack \in {"ACK", "RETRY", "REQ"}, type \in CmdTypes, len \in Lengths :
            answers' = (answers \ {a}) \union
                {[a EXCEPT !.ack = ack, !.type = type, !.len = len, !.head = FALSE]}
      BY <2>1 DEF AnswerDamaged
    <3> QED
      BY <1>5, <2>1, <3>1 DEF AnswerDamaged, Answers, AnswerOK
  <2>2. CASE AnswerRepeated(a)
    BY <1>5, <2>2 DEF AnswerRepeated, Answers, AnswerOK
  <2>3. CASE AnswerLost(a)
    BY <1>5, <2>3 DEF AnswerLost
  <2> QED
    BY <1>7, <2>1, <2>2, <2>3
<1>8. ASSUME NEW m \in requests, Refused(m)
      PROVE  /\ requests' \subseteq requests
             /\ answers' \subseteq Answers /\ \A b \in answers' : AnswerOK(b)
  <2>1. requests' \subseteq requests /\ answers' = answers \union {AnswerTo(m, "error")}
    BY <1>8 DEF Refused, AnswerTo
  <2> QED
    BY <1>4, <1>5, <2>1, AnswerToOK
<1> QED
  BY <1>4, <1>5, <1>6, <1>7, <1>8 DEF Network, Mishap

\* udpcli_sendandwait() and udpcli_recv(): for files of every length, every
\* number of retries and every number of losses, refusals, repetitions and
\* damages, a chunk that is reported is in place, unless the client took a
\* damaged answer, or one to an earlier command, for its own, or a command with a
\* damaged header, which no CRC covers, was written there.
THEOREM UploadWritten == UploadSpec => []RamWritten
<1>1. UploadInv /\ [UploadNext]_uploadVars => UploadInv'
  <2> SUFFICES ASSUME UploadInv, [UploadNext]_uploadVars PROVE UploadInv'
    OBVIOUS
  <2>1. CASE UNCHANGED uploadVars
    BY <2>1 DEF uploadVars, UploadInv, ClientInv, WireInv, CommandOK, AnswerOK, Counted, InPlace, RamWritten
  <2> QED
    BY <2>1, ClientSendsInv, ClientAckedInv, ClientRetriesInv, ServerInv, NetworkInv DEF UploadNext
<1>2. UploadInv => RamWritten
  BY DEF UploadInv
<1> QED
  BY <1>1, <1>2, UploadInitInv, PTL DEF UploadSpec
=============================================================================
