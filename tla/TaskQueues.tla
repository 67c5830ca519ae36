----------------------------- MODULE TaskQueues -----------------------------
(***************************************************************************)
(* The intrusive lists of include/list.h as core/task.c uses them, and the *)
(* dynamic priority of core/task.c.  A task descriptor has one link field  *)
(* q, so list_remove(&t->q) takes a task out of whichever of the four task *)
(* lists holds it: the lists are one function from list names to           *)
(* sequences and Unlink works on all of it.                                *)
(***************************************************************************)
EXTENDS Integers, Sequences, SequencesExt, FiniteSetsExt

CONSTANTS
    SliceBase,      \* 20 in task.c: the slice of a task that used nothing
    SliceStep,      \*  5 in task.c: what each point of nice adds to it
    NiceScale,      \* 10 in task.c: nice of a task that used all of it
    NiceBias        \*  5 in task.c: subtracted from the priority

ASSUME SliceAssumption ==
    /\ SliceBase \in Nat \ {0}
    /\ SliceStep \in Nat
    /\ NiceScale \in Nat
    /\ NiceBias \in Int

\* LIST_HEAD(task_running), task_backup, task_wait, task_exit; task_stop has
\* no user.
QName == {"running", "backup", "wait", "exit"}

\* CHECK_NODE_INLIST(&t->q)
Queued(q, t) == \E n \in QName : t \in ToSet(q[n])

\* No node is in two lists, or twice in one.
Separate(q) ==
    /\ \A n \in QName : IsInjective(q[n])
    /\ \A m, n \in QName : m # n => ToSet(q[m]) \cap ToSet(q[n]) = {}

\* list_remove(&t->q)
\* Mutant: the node stays where it is.
UnlinkNothing(q, t) == q
Unlink(q, t) == [n \in QName |-> RemoveFirst(q[n], t)]

\* list_add_head(&t->q, n) and list_add_tail(&t->q, n)
AddHead(q, n, t) == [q EXCEPT ![n] = <<t>> \o @]
AddTail(q, n, t) == [q EXCEPT ![n] = Append(@, t)]

\* list_add_comp(&t->q, n, task_pri_comp): before the first task whose
\* priority is not below t's.
AddByPri(q, n, t, info) ==
    LET notBelow == {i \in DOMAIN q[n] : info[q[n][i]].pri >= info[t].pri}
        end      == Len(q[n]) + 1
    IN  [q EXCEPT ![n] = InsertAt(@, Min(notBelow \union {end}), t)]

\* The fields of task_t that the scheduler computes with.
SchedInfo == [pri : Int, priInit : Int, slice : Nat, sliceInit : Nat]

\* memcache_alloc() hands out zeroed descriptors.
ZeroInfo == [pri |-> 0, priInit |-> 0, slice |-> 0, sliceInit |-> 0]

\* task_schedinfo_modify(): nice grows with the share of the slice consumed.
Nice(i) == ((i.sliceInit - i.slice) * NiceScale) \div i.sliceInit

\* Mutant: slice_init is not renewed with slice.
ReassessSlice(i) ==
    [i EXCEPT !.pri = i.priInit + Nice(i) - NiceBias,
              !.slice = SliceBase + SliceStep * Nice(i)]

Reassess(i) ==
    LET grant == SliceBase + SliceStep * Nice(i)
    IN  [i EXCEPT !.pri = i.priInit + Nice(i) - NiceBias,
                  !.slice = grant, !.sliceInit = grant]
=============================================================================
