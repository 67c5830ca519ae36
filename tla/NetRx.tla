-------------------------------- MODULE NetRx --------------------------------
(***************************************************************************)
(* The receive path of core/net.c: the interrupt handlers of the network   *)
(* drivers put frames in rxef_list and signal rxef_sem; the thread         *)
(* net_proc takes them out, processes them and frees them.  A frame is the *)
(* page it lies in: the driver has it while it is neither in the list nor  *)
(* net_proc's.                                                             *)
(***************************************************************************)
EXTENDS Sem

CONSTANTS
    NetProc,        \* the thread that runs do_fbproc()
    RxefSem,        \* rxef_sem
    Frames          \* the pages the drivers receive into

ASSUME NetAssumption ==
    /\ NetProc \in Waiters
    /\ RxefSem \in WaitQueues
    /\ MaxTicket[RxefSem] = 1       \* sem_init(&rxef_sem, 1)
    /\ NIL \notin Frames

VARIABLES
    rxefList,       \* rxef_list
    rxPc,           \* where net_proc stands in do_fbproc()
    frame           \* its local ef

netVars == <<rxefList, rxPc, frame>>

allVars == <<vars, semVars, netVars>>

\* net_proc executes code of do_fbproc(), not of the functions it calls.
InProc(l) ==
    /\ Running(NetProc)
    /\ pc[NetProc] = "user"
    /\ semAt[NetProc] = "out"
    /\ rxPc = l

\* Mutant: no signal follows.
RxefListOnly(f) == rxefList' = Append(rxefList, f) /\ UNCHANGED <<vars, semVars>>

\* rxef_insert(), called by the handler of a driver.
RxefInsert(f) == rxefList' = Append(rxefList, f) /\ SemSignal(RxefSem)

RxInterrupt(f) ==
    /\ fate = "ok"
    /\ f \notin ToSet(rxefList) \union {frame}
    /\ RxefInsert(f)
    /\ UNCHANGED <<rxPc, frame>>

\* sem_wait(&rxef_sem, TIMEOUT_INFINIT)
ProcWait ==
    /\ InProc("wait")
    /\ SemWait(NetProc, RxefSem)
    /\ rxPc' = "check"
    /\ UNCHANGED <<rxefList, frame>>

\* while (!CHECK_LIST_EMPTY(&rxef_list))
ProcCheck ==
    /\ InProc("check")
    /\ rxPc' = IF rxefList = <<>> THEN "wait" ELSE "take"
    /\ UNCHANGED <<vars, semVars, rxefList, frame>>

\* list_remove_head(), interrupts off.
ProcTake ==
    /\ InProc("take")
    /\ frame' = Head(rxefList)
    /\ rxefList' = Tail(rxefList)
    /\ rxPc' = "process"
    /\ UNCHANGED <<vars, semVars>>

\* efproc(ef) and page_free(ef).
ProcFrame ==
    /\ InProc("process")
    /\ frame' = NIL
    /\ rxPc' = "check"
    /\ UNCHANGED <<vars, semVars, rxefList>>

Proc == ProcWait \/ ProcCheck \/ ProcTake \/ ProcFrame
-----------------------------------------------------------------------------
NetInit ==
    /\ SemInit
    /\ rxefList = <<>>
    /\ rxPc = "wait"
    /\ frame = NIL

NetSched == (SemTick \/ SchedStep \/ \E t \in Task : SemStep(t)) /\ UNCHANGED netVars

NetNext == NetSched \/ Proc \/ \E f \in Frames : RxInterrupt(f)

NetSpec == NetInit /\ [][NetNext]_allVars

\* do_fbproc() never stops in code of its own.
NetFairSpec == NetSpec /\ SemFairness /\ SF_allVars(Proc)
-----------------------------------------------------------------------------
(* Properties.                                                             *)

\* net_proc tests rxef_list with interrupts on and then calls sem_wait(): a
\* frame that arrives in between leaves a ticket, so net_proc does not sleep
\* while frames wait for it, unless the clock has ended a sleep of its own.
NoSleepOnFrames == Asleep(NetProc) /\ rxefList # <<>> => stray

\* With the same exception, every frame put in rxef_list is taken out.
FramesTaken ==
    \A f \in Frames :
        f \in ToSet(rxefList) ~> (f \notin ToSet(rxefList) \/ stray \/ fate # "ok")
=============================================================================
