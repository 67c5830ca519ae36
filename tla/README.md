# Verification of the Porcelix kernel (myLoader)

`src/myLoader` is a small 32-bit kernel for one x86 processor: it is loaded by
its own boot sector, sets memory and interrupts up, starts a few kernel threads
and offers a command line, network reception, disk access and loadable modules.
This directory holds TLA+ models of its scheduler, its memory management, its
drivers and what is built on them, the TLC configurations that check the models,
and TLAPS proofs for those whose promises do not depend on a small instance.

1. [Inventory](#1-inventory)
2. [Modules and how they correspond to the code](#2-modules)
3. [Runs: bounds, results, fairness](#3-runs)
4. [Disagreements between the code and what it says of itself](#4-findings)
5. [Proofs](#5-proofs)
6. [What is not modelled, and what could follow](#6-not-modelled)

A note on line numbers: `core/task.c` and `core/timer.c` end their lines with a
carriage return alone, so tools that count line feeds see one line. References
to them say line 1, and give the number counted in carriage returns in words;
"task.c CR 443" below is line 443 in that count. Read the file with
`tr '\r' '\n' < core/task.c | cat -n`.

## 1. Inventory

| Component | State | Operations | What makes it correct |
|---|---|---|---|
| Scheduler, `core/task.c` | four intrusive lists `task_running`, `task_backup`, `task_wait`, `task_exit`; per task priority, slice, context, wait record; `current` | `schedule`, `tail_sched`, `switch_to`, `systick`, `wait_task`, `wakeup_task`, `kernel_thread`, `exit`, `idleloop` | a descriptor is in one list; there is always a task to run; ready tasks run; sleepers can be found; dead tasks are reclaimed |
| Interrupts and clock, `io/interrupt.c`, `core/entrance.S`, `core/timer.c` | handler lists | every handler runs with interrupts off and ends in `tail_sched` | handlers see consistent lists |
| Semaphores, `core/sem.c` | `ticket`, wait queue `wlh` | `sem_wait` in tasks, `sem_signal` in interrupt handlers | `ticket` and `wlh` are one account; sleepers are woken in order |
| Network reception, `core/net.c` | `rxef_list`, `rxef_sem` | `rxef_insert` (drivers), `do_fbproc` (thread `net_proc`) | each frame is processed; no sleep on a waiting frame |
| Protocols, `core/net.c` | ARP cache, UDP socket | `efproc` for ARP, ICMP echo, UDP; `udp_send` | the cache is what was heard last; answers go to who asked |
| Network cards, `drv/pci` | descriptor and byte rings, PHY registers | receive interrupt, transmit, link set-up | driver and card agree on every position; frames come whole and in order |
| Upload, `udp_cli` | chunk, retries; memory of the server | commands and answers over UDP | what is reported as sent is stored |
| Keyboard, `io/kbd.c` | ring of 256 bytes, shift and caps state | `kbd_int`, `kbd_get_char` | characters arrive in order, a key wakes the reader |
| Command line, `core/cmdlist.c` | line buffer and position | `cmd_loop`, `cmd_parse_impl` | what is run is what was shown |
| Page allocator, `mm/page.c` | free list per area and rank, `struct page` | `page_alloc`, `page_free`, `sysram_online` | no page lost or given twice, buddies joined |
| Memory map, `mm/memory.c` | table of ranges | `resoure_add_range`, `mem_init` | the table tiles the RAM; refusals have a cause |
| Paging, `mm/memory.c`, `core/task.c` | directories, page tables | `mmap`, `mmap1page`, copies in `kernel_thread` | what is mapped stays mapped; mappings reach all who need them |
| Slab allocator, `mm/slab.c` | slabs by fill, free chain, tree | `memcache_alloc`, `memcache_free` | blocks disjoint; lists, counts and tree agree |
| AVL tree, `lib/avl` | links and heights | insert, remove, look up | balanced; a set of ranges to its caller |
| Modules, `core/module.c` | module list | `insmod`, `rmmod` | no page or descriptor lost |
| Disk, `io/hd.c` | the request, the drive | read, write, interrupt | each sector in its place |
| Mounting, files, `io/hd.c`, `fs/` | partitions, directory stack | mount, select, `cd`, read | the pages are those of mounted partitions; blocks read in order, whatever the length |
| Library, `core/func.c` | - | `sort`, `bsearch`, `alg_bsch` | sorted permutation; found if there |
| Display, boot, tools | output; none | - | - |

How they interact: drivers call `rxef_insert` and `page_alloc` from interrupt
handlers; `kbd_int` and `rxef_insert` call `sem_signal`, that calls
`wakeup_task`, and `exp_pubpath` calls `tail_sched` before the interrupt
returns; threads call `sem_wait`, that calls `wait_task` and `schedule`;
`kernel_thread` and `idleloop` allocate and free descriptors and pages.

What is hard: there is no lock other than "interrupts off" (`CONFIG_SMP` is not
set, `spin_lock` saves and clears the interrupt flag, and saves it in the lock
itself, where an interrupt can overwrite it), critical sections are short, and the functions between them - `wait_task`, `exit`, `kernel_thread`,
`idleloop`, `schedule`, `sem_wait`, `page_alloc` - leave their work half done
while interrupts are on. The clock may charge, requeue and switch away a task in
each of those gaps. PROJECT.json lists these places as hazards, with the
properties that watch them.

## 2. Modules

```
TaskQueues   lists and priorities          AvlTree      links, rotations
  Sched      scheduler                       Avl        tree of ranges, implements
    SchedInv   its inductive invariant         RangeSet
    SpinFlags  with the interrupt flag     Slab         one memory cache
    Sem        semaphores                  PagePool     what an allocator promises
      NetRx      reception thread            Buddy      page allocator, implements it
      Kbd        keyboard, implements      Ranges       memory map
        BoundedFifo                        AddressSpace directories, page tables

NetStack     ARP, echo, UDP                HdTransfer   one disk request
E1000Rx, E1000Tx, E1000Link, Rtl8139       Mounts       partitions, cd
Upload       client and server             Ext2File     blocks of a file
LineEditor   command line                  Modules      insmod, rmmod
Library      sort and searches

MCSched, MCSem, MCNetRx, MCMemory, MCDevices, MCSpace      instances for TLC
DataLemmas, SchedProofs, SemProofs, ConsoleProofs,
NetworkProofs, StorageProofs, MemoryProofs, AvlProofs      theorems
```

**TaskQueues.** The lists of `include/list.h` as `task.c` uses them. One link
field `q` per descriptor means that `list_remove(&t->q)` works on whichever list
holds the task, so the lists are one function from names to sequences and
`Unlink` acts on all of them. `Reassess` is `task_schedinfo_modify()`; its
numbers (20, 5, 10, 5) are constants.

**Sched.** One task runs, `cpu`; `pc[t]` says where `t` stands in the kernel
function it has called. A step of a task is a section that `spin_lock` protects,
or code no interrupt handler can distinguish from one step. An interrupt is one
step: handler, then `InterruptReturn`, which is `tail_sched()` with
`getnexttask()` and `switch_to()`.

| Actions | Code |
|---|---|
| `SchedulePick`, `ScheduleSwitch` | `schedule()`: the choice under the lock, then `switch_to()` outside of it |
| `WaitEnter`, `WaitSet`, `WaitLink` | `wait_task()`: into `task_wait`; timeout and queue; into `wlh` |
| `WakeInterrupt` | `sem_signal()` in a handler as far as lists are concerned: `wakeup_task()` of the first waiter |
| `Tick` | `systick()`: charge or requeue `current`, count the waiters down |
| `Exit`, `ExitReturned` | `exit()`; `thread_entrance()` after it |
| `KtAlloc` .. `KtContext` | `kernel_thread()`: descriptor, queueing, priority, slice, `slice_init`, context |
| `BootDone`, `IdleWalk`, `IdleSpin`, `Reap*` | the end of boot and `idleloop()` with its locals `p` and `pn` |

A failed `ASSERT` calls `die()`, and some paths use memory that is not theirs any
more: `fate` then names the cause and the model stops, which is why the
configurations switch the deadlock check off. `fate` is no repair: whatever the
code would do afterwards is outside of what it defines. `NetStack`, `Slab` and
`Modules` have a `fate` of their own with the same meaning.

**SpinFlags** adds what `Sched` leaves out of `spin_lock()`: it stores EFLAGS in
`task_q_lock.flag`, which all share, and clears IF in the next instruction. A tick
between the two that takes the lock too, in `getnexttask()`, leaves its own IF = 0
there, and `spin_unlock()` gives that to the task, which from then on runs with
interrupts off, keeps the flag across `switch_to()`, and hands it down to the
threads it creates. `SaveFlag` is the first half, `WithLock` the rest of the
section, in which a step of `Sched` happens; `WithoutLock` are the other steps, and
`SpinTick` needs IF of the current task. Every behaviour of `SpinFlags` is one of
`Sched` with stuttering, as `Sched` lets the clock tick always: so its safety
properties do not depend on the flag, and liveness is stated in `SpinFlags`. Other
locks (`wlock`, `sem->lock`) are written in the same way and left as they are.

**Sem** adds `ticket` and the steps of `sem_wait()`. The decrement is a step of
its own because it is one instruction outside of any lock. `stray` is a history
variable: it is set when a task that is asleep in `task_wait` runs, or leaves it,
although nobody woke it. It marks the one cause that several properties name as
their exception; section 3 says how the code gets there.

**NetRx** and **Kbd** add the two users of semaphores. `NetRx` identifies a frame
with the page it lies in. `Kbd` keeps the two key states, the ring with both
positions modulo its size, and the three steps of `kbd_get_char()`. A handler
that inserts several frames is several interrupts in a row here: nothing but
`tail_sched()` lies between, and it chooses the same task either way.

**Buddy** names a block by its first page. `page_alloc()` is the call, one step
per free list it looks at, and the take with interrupts off (`Cut` is the whole
loop that splits). `page_free()` is one step (`FinalRank` is where its loop ends).
`LooksBeyond` is a buddy past the end of the page list: what lies there is not a
`struct page`, so both outcomes of the comparison are allowed.

**BoundedFifo**, **PagePool** and **RangeSet** are abstract specifications;
`RingIsFifo`, `IsPool` and `AvlIsSet` state that `Kbd`, `Buddy` and `Avl` implement
them under the refinement mappings given there.

**AvlTree** is what `avl.c` does to links, as operators on the value of all link
fields: `Turned` is one turn of the loop in `avl_ab()`, `Linked`, `Ndcut` and `Seated`
what insertion and removal write. **Avl** has one step for each turn of a loop - the
search for a place, the search for a substitute, the walk upwards, the look-up - so
that it needs no recursion; calls do not overlap, as nothing locks a tree. Nodes are
compared as `slabcmp()` does, by the addresses they stand for, which may overlap.
`members` is a history variable, what has been inserted and not removed, and `result`
the answer of the last call: these two are what `RangeSet` speaks of.

**Slab** takes `memcache_alloc()` apart into the steps between which a tick can
switch to another caller; the other functions are one step, as with one caller
nothing can come in between. The loss of a block by two callers is what the run
`slab_race` shows; what holds is stated for one caller. The tree of slabs is a set
here: that a tree serves as one is what `AvlIsSet` says.

**Ranges** has one action for each call that `mem_init()` makes, in its order, and
then grants whatever fits; **AddressSpace** has `pgmode_enable()`, the copies that
`kernel_thread()` makes of the directory in use, the switch of directories, and
`mmap()` with one `mmap1page()` per step, so that other tasks run, copy directories
and lose theirs between two pages.

**NetStack** takes an ARP or an echo frame in one step, since nothing else in the
kernel touches what those use. For a UDP frame, the socket is also written by the
command `udpcli_reset` in the thread of the command line, with interrupts on: so
`net_proc` compares it field by field, binds it part by part on a greeting, reads it
part by part into the answer, looks the address up slot by slot and unbinds it, and
between any two of these steps the reset writes a part. An address that `memcpy()`
copies byte by byte is two parts here: one of two different halves is nobody's. The
cache is an array of slots, searched and overwritten in the order of the code. **E1000Rx** and
**Rtl8139** interleave the handler, in the steps between which the card can see
or change something, with a card that goes on storing. **E1000Tx** is the transmit
ring, with the length the driver writes to TDLEN and the one it counts with.
**E1000Link** keeps, for every value that travels through `phy_data`, which
register its bits were read from.

**Upload** has client and server in one module and the messages under way between
them: a command that came late or was repeated can still be served. The network
loses, refuses, repeats and damages: data, which the CRC covers, and the header of a
command and the answer, which nothing covers, so that data go to a wrong place, a
command becomes another, or the client believes an answer that is not its own. A
CRC that fails makes the server call `netdev->down`, which only the rtl8139 sets.
**HdTransfer** is one request with the drive as an external component. The copy of
the first sector, `sect_num--` and `buff = data` are three steps because interrupts
are on; `wait_DRQ()` may give up and the command be given again; the sector count
register is a `u8`, `sect_num` a `u16`. `wait_DRQ()` in `hd_int()` is taken to
succeed, and cylinders to fit in their `u16`. **Mounts**, **Ext2File**, **LineEditor**, **Library** and
**Modules** are sequential: one action per command, key, loop turn or block. A
directory, a file and a module are what the code looks at in them.

Cards, drive and network are external: they are modelled from how the drivers use
them, with every order of events the drivers do not exclude.

## 3. Runs

All bounds are constants of the configurations. Slices use `SliceBase` 1,
`SliceStep` 1 (or 0), `NiceScale` 1 (or 0) in place of 20, 5, 10: slices of one or
two ticks reach every branch of `systick()` and both orders of any two priorities.
The proofs do without this reduction. Timeouts are infinite, because no caller in
the repository passes another (`kbd.c:146`, `net.c:433`).

| Run | Instance | Shows |
|---|---|---|
| `sched_core` | task 0, `a` that waits and creates, `b` that exits, one wait queue | `IInv`, the inductive invariant; `TypeOK`, `OneList`, `IdleReady`, `SliceWithinGrant`, `BackupSpent` |
| `sched_rotation` | `SpinFlags` with two threads that exit, priorities that differ, under fairness | `ReadyRuns`, `ExitedReclaimed` |
| `sem_tickets` | two waiters on one semaphore, `max_ticket` 1 | `TicketsAccounted` (with the types), `SleeperReachable`, `WokenFromHead` |
| `net_rx` | `net_proc` and two frames, under fairness | `NoSleepOnFrames`, `FramesTaken` |
| `memory` | `Buddy`, `Slab`, `Avl`, `Ranges`, `AddressSpace` | `Partitioned` (with the types), `ListsConsistent`, `Coalesced`, `IsPool`; `BlocksAccounted`, `SlabListsAgree`; `AvlBalanced`, `AvlIsSet` (with the answers); `RangesTile`, `RefusedForCause`; `MappedAtCreation`, `MappingsKept` |
| `devices` | the keyboard and the eleven modules of devices, network, files and command line | `RingIsFifo`, `KeyWakesReader`, `NoCharOnlyIfStray`; `ArpSound`, `AnswersAsker`; `RxComplete`, `OwnBits`, `FramesWhole`; `RamWritten`; `TransferWhole`; `MountsOwnPages`, `FileWhole`; `LineAsShown`, `LibraryRight`; `ModulesAccounted` |
| `sched_exit`, `sched_start`, `sem_assert`, `slab_race`, `mmio_fault`, `tx_ring` | as above or smaller | counterexamples, section 4 |

`memory` and `devices` check several components in one run: a variable chooses one
at the start, and the behaviour is that component's own. Nothing is lost by this,
because these components share no state that the models keep - pages, blocks and
frames are names whose content no property tells apart - and a product of their
states would only repeat each of them.

Bounds of the parts, and why they are enough:

* Scheduler: two threads and task 0 are the smallest set in which a task can be
  preempted by one task while a third is queued, and lists of two and three
  elements show every position an insertion or removal can have. Descriptors are
  reused, so creation after reclaiming is included. No counter needs a bound:
  slices are bounded by the grant, tickets by the waiters and `max_ticket`.
* Keyboard: three slots give an empty, a partly filled and a full ring with
  wrap-around; a letter and a mute key are the two ways a key is treated.
* `Buddy`: nine pages in areas of two and seven give unaligned ends, a page without
  a buddy, blocks of every rank, and a list beyond which the next buddy lies; two
  callers. `Slab`: four slabs of two blocks, so that every list can hold two slabs
  and the tree three; one caller. `Avl`: ten ranges of two addresses, of which two
  overlap and the others touch: all four rotations occur, on insertion and on removal,
  at the root and below it, and five addresses are looked up, in ranges and outside.
* `Ranges`: a RAM of 12 or 16 pages with the system, the BIOS and the page list in it,
  and ten table entries, which later grants do fill. `AddressSpace`: five regions of two
  pages, two of them normal memory, twelve page tables, three threads, three
  devices of which one lies across two regions.
* `NetStack`: two hosts and ports, three cards, so that hosts can exchange addresses,
  and an ARP table of two slots; with the frames of address 0.0.0.0 it gets full, and
  the assertion behind a full table is reached. `E1000Rx`: four descriptors and nine frames, twice around.
  `Rtl8139`: seven cells and frames that end on, before and across the end. `E1000Link`:
  every access fails or not, ten polls. `Upload`: three chunks, three retries, as in
  `client.c`; at most two messages are damaged or repeated (`MaxMishaps`; losses and
  refusals are not bounded), which is enough to damage a command and the answer to it,
  and none of it bounds the proof.
* `HdTransfer`: two heads, three sectors, a partition that does not begin on a track,
  requests that cross tracks and cylinders, one of them longer than the sector count
  register holds (four here). `Mounts`: two partitions, three pages, a
  tree three deep with one name the prefix of another. `Ext2File`: three direct
  blocks and three entries per index block, and every length from 0 to 26 blocks, which
  is through every level and its edges, into the triple index and past the length that
  loses its end. `LineEditor`: a buffer of seven characters and two words in
  `argv`, both of which are overrun; two commands, of which one is the beginning of
  nothing else. `Library`: all arrays of up to five of four values.
  `Modules`: two modules, files with one flaw each, three buffers.

Fairness. In `SpinFlags` the clock is strongly fair: irq 0 stays pending in the 8259
while IF is clear and is taken when it is set. What is not assumed is that IF is ever
set again. It need not be: a tick in the gap of `spin_lock()` can leave task 0 with
interrupts off in `idleloop()`, where it spins for ever; TLC finds that `ReadyRuns`
fails then. So both properties of that run begin with `ClockGoesOn`, that the current
task has interrupts on again and again, and say what the scheduler does as long as
that is so, with tasks that have lost their flag among the others. Threads do not wait
in that run: one that sleeps and is woken before its slice is spent, again and again,
runs ahead of all others of its priority and starves them (TLC shows that too), as
priorities ask for. In `Sem` and what is built on it the clock is weakly fair, which
supposes that nobody has lost the flag; `net_proc`, once woken, goes on without it.

A task's step is strongly fair: preemption disables a task again and again, but
whenever a task has the processor it executes many instructions before the next
tick, so one that gets the processor infinitely often gets on. Boot is fair because module init
functions end; `do_fbproc()` is fair because it never stops in code of its own.
Threads in other code of their own are not fair at all: they may compute for
ever, and `ReadyRuns` has to hold nevertheless. Interrupts of devices are not
fair. Liveness properties end in "or `fate` is not ok": after a failed assertion
nothing moves.

`NoSleepOnFrames`, `FramesTaken` and `NoCharOnlyIfStray` state their promise with
the exception `stray`, and are false without it. Two steps set it. A tick between the
steps of `wait_task()` that finds the slice spent puts the task in `task_backup`
(`systick()` does not ask which list it is in), so that a sleep ends that nobody
ended, and a link stays behind in `wlh` that the next signal may take. And
`schedule()` picks `next` and lets go of the lock before `switch_to()`: a task
preempted in between may later give the processor to one that has gone to sleep
since (`SemSchedule`). The second takes a third task that calls `schedule()` by
itself; the instances of `NetRx` and `Kbd` are too small for it, that of `Sem` is
not, and the theorems of section 5 are for any number of tasks: without it in
`stray` they would not hold. Other properties have exceptions of the same kind, where
the code fails, each told at its hazard:

* `TransferWhole`: `earlyInt`, an interrupt for the first sector of a write before
  both `sect_num--` and `buff = data`. The sector is sent twice.
* `MountsOwnPages`: `remountFailed`, a mounted partition that fails to mount again.
* `RamWritten`: `unsure`, a chunk reported on an answer that was damaged or another
  command's; and data of a command whose damaged header named this place.
* `AnswersAsker`: `crossed`, a reset between the steps for a frame, or a socket left half
  bound by one. Such an answer may go to nobody, and still not to a third.
* `FileWhole`: a file of D + P + 2 P^2 blocks (D direct blocks, P addresses in an index
  block) loses its last P^2 blocks: nothing is read for the triple index, but `n_block`
  is counted down by what the double index had. Every other file that reaches the
  triple index fails the assertion at `ext2.c:512`, and so does the empty file, whose `n_block` wraps: all slots are read over memory before. `insmod` does not
  keep an empty file out.
* `LineAsShown`: nothing is said of a line whose end goes behind the 256 bytes of
  `cmdBuff`, or that has more words than the 16 pointers of `argv` (`cmdlist.c:142`;
  `parse_str_by_inteflag()` does not count, so 17 words in a short line are enough):
  the stack is overwritten.
* `ModulesAccounted`: nothing is said once a function at address 0 is called or the
  assertion of `do_relocate()` has failed.

Each property of a passing run has a mutant, a plausible bug in a mapped
definition, under which TLC finds it violated.

`BackupSpent` is worth a remark. All threads inherit `pri_init` from task 0, so
all of `task_backup` has one priority, and `list_add_comp()`, that inserts before
the first task not below, puts the last task charged first: priorities only order
tasks within `task_running`, where sleepers are reassessed and woken, and where a new
thread has the priority zero until it is given its creator's.

## 4. Findings

Six statements of the code about itself do not hold. Each has a run whose
counterexample TLC prints. Failures that contradict no such statement are the
exceptions of section 3.

* `sched_exit`: "control cannot get here" after `exit()`. A tick between
  `list_add_head(&t->q, &task_exit)` and the end of `schedule()` finds the slice
  spent and requeues the task in `task_backup`; `exit()` returns.
* `sched_start`: `kernel_thread()` queues the descriptor before it sets the
  context; a tick in between switches to address zero.
* `sem_assert`: a signal between the decrement of `ticket` and the link finds a
  negative ticket and nobody in `wlh`.
* `slab_race`: two tasks that are preempted inside `memcache_alloc()` get the same
  block; after both have freed it, a block that was allocated is not found
  ("we can't find blk in AVL, the block is not alloced from this sh").
* `mmio_fault`: `mmap1page()` adds a page table to the directory in use only. The
  network thread has a copy of the directory from before the cards were probed, and
  does not reach their registers, in interrupt handlers that meet it and in its own
  calls of the transmit function.
* `tx_ring`: `intele1000_tx()` goes round 32 descriptors, TDLEN tells the card of
  16. The seventeenth frame is not sent; the card sends old ones again.

## 5. Proofs

Seven modules hold the theorems about one layer of the system each, and `DataLemmas` the
facts about numbers and sequences they share. Every theorem is for all values of the
constants that the named assumptions of its modules allow.

**The scheduler.** `SchedProofs` proves, for any set of threads, creators, waiters, quitters and wait
queues, any timeouts and any slice constants that satisfy the assumptions of
`TaskQueues` and `Sched`:

    Spec => []IInv    and, from it,
    Spec => []TypeOK, []OneList, []IdleReady, []SliceWithinGrant, []SleeperReachable

The assumptions are that task 0 is not a thread, that `NIL` and `INFINIT` are not
values of the kind they stand apart from, that `SliceBase` is positive and the
other constants are numbers of their kind.

None of the properties is inductive alone, because each depends on where the tasks
stand. `IInv` (module `SchedInv`) adds what is needed:

* `ListInv`: `OneList` is kept by an insertion only if the descriptor is in no
  list. For `kernel_thread()` this follows from its descriptor being its own and
  not yet queued; for `wait_task()`, `exit()` and `systick()` from the removal just
  before, since a removal takes the node out of every list that could hold it. Only
  descriptors in state "new" or "ready" are queued, tasks in `task_exit` stand in
  `exit()`, and the one that `idleloop()` has taken out is in no list.
* `InfoInv`: `slice <= slice_init`, `0 < slice_init`, and `slice_init` is at most
  the largest grant. The interesting case is `kernel_thread()`, which copies
  `slice` and then `slice_init` from `current` and may be charged in between. If
  the epoch ended in between, `slice_init` could shrink under the `slice` already
  copied. It cannot: the new descriptor is in `task_running` while it is "new",
  hence `task_running` is not empty and the epoch goes on; and if `current` itself
  is charged, its slice was spent, so its new grant is the largest there is
  (`ReassessWithinGrant`).
* `SleepInv`: a waiter is in one wait queue at most, so removing a task from the
  queue that holds it leaves no other link.
* `CpuInv`, `LocalInv`, `WaitInv`: the processor runs a complete task; the locals of
  `kernel_thread()`, `schedule()` and `idleloop()` name descriptors in the state
  those functions rely on; two calls of `kernel_thread()` never share one.

One lemma per action shows that the step preserves `IInv`; `MoveToReady`,
`LeaveReady` and `LeaveWaitQueue` share what several actions do to the lists, and
`PickLists` and `PickSlices` do so for `getnexttask()`. `DataLemmas` and the first part of `SchedProofs` prove
what the operators on sequences do: `RemoveFirst` removes the only occurrence in an
injective sequence and nothing else, `InsertAt` adds one element, and so
`Unlink`, `AddHead`, `AddTail` and `AddByPri` keep the lists separate.

**The order of the lists.** The last part of `SchedProofs` adds `BackupSpent` and `WokenFromHead`.
The first needs that no task in `task_backup` has its priority changed: `wakeup_task()`
and `kernel_thread()` reassess tasks that are not there, and an epoch ends only by
emptying it (`SpentIn`). The second needs `Departed`: a task that has entered `exit()`
is not in `task_wait`, so that `idleloop()`, which takes descriptors out of any list,
never takes out a sleeper.

**Semaphores.** `SemProofs` proves `TicketsAccounted` for any finite set of threads, any
number of semaphores and any `max_ticket`, and carries `IInv`, `SleeperReachable` and
`WokenFromHead` over to the specification with semaphores: each step of `Sem` is a step
of `Sched`, nothing to it, or the assertion of `sem_signal()`. The invariant `SemInv` is
`IInv` with `WaiterInv` - where a task stands in `sem_wait()` and in `wait_task()` agree,
waiters never exit, a wakeable waiter hangs on the queue of its semaphore - and the
account itself (`Accounts`). A step of `sem_wait()` moves one task within `Entering` or
from there to `wlh`; cardinalities follow from `FiniteSetTheorems`.

**Keyboard.** `ConsoleProofs` proves that `Kbd` implements `BoundedFifo` for every size of
the ring. `Remainder` gets the positions modulo the size without division; `Held` is the
content written without remainders, over the places from `readpos` up to `writepos`;
`InsertAppends` and `TakeHead` are what `kbd_rawbuff_insert()` and `kbd_get_char()` do to
it; and every other step of the keyboard, of the reader, of the semaphores and of the
scheduler stutters. The invariant needed is only that both positions are places of the
ring, whatever the scheduler does, which is why no lock is needed.

`NoCharOnlyIfStray` does depend on the scheduler. `AwakeInv` (`SemProofs`) says of all
waiters that, unless `stray`, whoever is in `task_wait` is inside `sem_wait()` and, if it
has the processor, still on its way to sleep; and that whoever hangs in `wlh` is in
`task_wait`. So every sleep ends by a signal. `ReaderInv` adds `Supplied`: wherever the
reader is past the test it has to pass, the ring is not empty. `MaxTicket` of the
semaphore is 0, as in `sem_init(&kbd_sem, 0)`: a ticket left over would let the reader
through.

**The line.** `EditorInv`: the buffer up to `cmdPos` is the line on the screen, there is no
NUL in it, and behind it there is at most one character that was deleted before the NULs
begin, which the end of the line overwrites; so the line that is parsed is the one shown,
and whether it overruns an array depends on that line alone. The assumptions say that NUL
and the end of the line are not typed and that no command is empty, has a space in its
name, or is longer than the buffer.

**Modules.** `LoadInv`: no descriptor is twice in the list, no two share pages, and what
is in use is what they hold.

**Reception.** `NoSleepOnFrames` (`NetworkProofs`) uses `AwakeInv` as above, `Alone`, that
`net_proc` is the only task that waits for `rxef_sem`, and `Told`: if frames wait and
`net_proc` has seen an empty list, a ticket keeps it from blocking. `MaxTicket` is 1, as in
`sem_init(&rxef_sem, 1)`; with 0 the signal between the test and `sem_wait()` is lost.

**The receive ring of the e1000.** `RxRingInv` says that there are positions of head and
tail, counted without wrapping, of which the registers are the remainders (`Counts`);
between them the descriptors hold the frames that have arrived, and what has been passed on
is what lies before. It holds for every ring of at least two descriptors.

**The receive ring of the rtl8139.** `Laid(st)`: `st` is the cell in which each frame
begins, had the ring no end; frames not yet taken lie there, header first, and the card's
and the driver's position are the remainders of the last and of the next to take.
`RoomLeft` and `Distance` show that the card stores only what fits between the two. A frame
of any length that fits into the ring is covered, wherever it meets the end.

**Protocols.** `StackInv`: the slots in use hold the bindings heard last, one for each
address and one for each card (`CacheInv`). `SockInv` says, for each step `net_proc` can
stand at, which parts of the socket are the sender's and which nobody's: what has been
compared or written is the sender's unless a reset has written it since. `HdrInv` says
the same of the parts read into the answer. So no part is ever a third host's, and
without a reset in between all parts are of one.

**Disk.** `StorageProofs`: `ChsRight`, that cylinder, head and sector lead back to the
logical sector for every geometry (quotients and remainders are unique); and
`TransferWhole`, from `HdInv`: in a read the driver is one sector behind the drive while
its interrupt is pending (`ReadInv`); in a write, nothing has moved while the command is
given, however often, the first sector is accounted for with the drive at most one sector
on (`WriteBegins`), and from there the driver is one sector ahead (`WriteGoesOn`) - or else
the first interrupt came early. `DriveCountBound` is the 8-bit sector count, by which the
drive never gets a longer request than was asked for.

**Mounts.** `MountsInv` adds that, until a remount fails, no two mounted partitions share
their pages (`OwnPages`): a partition mounted again gives up its pages before it takes
others, and those are not in use.

**Files.** `FileInv` says at each level of index how many blocks have been read: what is
left and what `addr` has moved add up to the length of the file, or to 2^32 for the empty
one, whose `n_block` wraps (`FileEnd`), and what the double index has read is a whole
number of index blocks (`InDouble`). Memory holds as many blocks, each at its place.
`LoadedBlocks` and `Advanced` are the steps that are the same at every level.

**Address spaces.** `MemoryProofs`, from `SpaceInv`: a page table serves one region of
addresses, whoever uses it, and holds there pages at their own address or nothing
(`TablesInv`). So an entry that `mmap1page()` overwrites had that value before, or none,
and a table it adds was in no directory; from that follow `Kept`, the body of
`MappingsKept`, and `MappedAtCreation`. `MmapInv` says which pages a call of `mmap()` has
come past. The assumptions: devices lie above the normal memory and within the
directory, and there are tables for the normal memory.

**Memory map.** `RangesInv` looks at the table in two ways: its entries are in order
(`OrderedTable`), and as a set they tile the RAM, each ending where another begins, no two
idle ones in touch (`Tiles`). `CutTiles` is the step on the set, whatever the order: the
range that is granted and the holes before and behind it replace the idle one.
`SortedByBeginOrders` then puts the table in order: the place of a range is the number of
those that begin below it, and a rank that nobody had would leave two with the same
(`FS_PigeonHole`). That no two idle ranges touch is what `RefusedForCause` needs. The
assumptions added are that the BIOS and the table have a positive size.

**Page allocator.** `BuddyInv`: the free and the allocated blocks are the pages handed
over, each in one of them (`Laid`), and an allocated block is aligned and within its area,
so that it can be joined when it comes back (`BlocksWhole`). `Exchange` is the argument
behind every step: some blocks are replaced by others with the same pages. `CutBlocks` says
so of the loop that splits in `page_alloc()`, `JoinedBlocks` of the loop that joins in
`page_free()`, for any number of turns. Both rest on `Halves` and `PairOf`, that a block is
the lower or the upper half of the next rank and its buddy the other half: the code computes
the buddy with an exclusive or, the proof with remainders. `1 << k` is the function
`PagesOf`, that doubles from rank to rank; induction is over sets of numbers. `CallsRight`
keeps what a caller knows from its search, which is not that the list is still filled:
`IsPool` holds although another call may come between. The assumptions are that areas do
not overlap, as `mmarea_init()` lays them out, and cover the pages.

**Slabs.** In `MemoryProofs`, for any slabs of any number of blocks and one caller at a time
(`SingleCaller`; two lose blocks, section 4). A free chain is a sequence of blocks without
repetition that the links follow (`Chains`); `NewChain`, `ChainTake` and `ChainPut` say what
`initslab()`, `memcache_alloc()` and `memcache_free()` make of it, and `FullChain` that a slab
which counts all of its blocks as free has none handed out. `SlabInv` holds between the steps of a call, where
the block is off the chain and not yet counted (`Taking`, `FreeLeft`): from there come both
`BlocksAccounted` and `SlabListsAgree`. The tree is a set of slabs.

**Trees.** `AvlProofs`, for any nodes and any length of a range. The shape of a tree is
stated without recursion: `Shape(t, M, D, O)` says that `D[n]` are the nodes that hang
below `n`, itself and what hangs below its children, all on their side in the order `O`,
and that fathers and children agree. `AvlInv` says that there is such a `D`, that heights
are right but at the node `avl_ab()` looks at next, where a subtree has grown or shrunk by
one (`HeightsFrom`), and what a search has found out on its way (`Inserting`, `Looking`,
`Rightmost`). Each operation is shown to give a `D` for what it makes of the tree:
`RotationKeepsShape`, `LinkedShape`, `CutShape`, and `RenamedShape` for the neighbour that
takes the place of a node with two children. `TurnOnce` and `TurnTwice` are the heights
that one turn leaves. Each is proved for one side; the other is the same in the `Mirror`,
with the order reversed (`Back`). `NdcutIs` and the like say which links and heights the
code has written. `WalkVisits` is by induction over the height: `avl_walk()` visits what hangs
below a node once and in the order asked for. `SetSteps` puts it together: each step of
the tree is a step of `RangeSet`, with its answer, or none.

**Sorting and searching.** `LibraryRight` for arrays of any length. In the first loop of
`sort()` the array is a heap from `idxL` on but for the node that is being sifted down
(`HeapBut`); in the second it is one up to `idxL`, and behind that sorted (`SortedFrom`).
Each swap keeps the number of each element (`SwappedValues`), which makes the result a
permutation. `SearchInv`: what is outside the bounds of a search is not what it looks for.

**PHY access.** `OwnBits` for any number of polls: each local
holds bits of the register it is written to next, unless the read failed (`LocalsOwned`).

**Upload.** `RamWritten` for any number of chunks, retries and mishaps:
`ClientInv` says what the client has sent; `WireInv` that a command whose header is as
sent says how long its data are, so that the CRC looks at them (`CommandOK`), and that an
undamaged acknowledgement of such a command stands for a chunk that is in place, unless
strayed data have come there (`AnswerOK`).

The assumptions are those of the modules: besides the ones above, that waiters neither
exit nor create threads, that the keyboard ring has a positive size and letters are no
mute keys, that a drive has heads and sectors, that frames fit into the ring of the
rtl8139 with their header, that no host has the address of this machine, that the number
of blocks of a file fits in its word, and that requests to the disk have fewer sectors
than `sect_num` can count.

Only model-checked: liveness, which is under fairness (`ReadyRuns`, `ExitedReclaimed`,
`FramesTaken`, `KeyWakesReader`); and the transmit ring. The
induction theorems of the library take an operator, which the provers cannot
instantiate; so inductions (as in `WalksExist`) are over sets of numbers.

## 6. Not modelled

Left out, with the reason:

* Display, PCI configuration, 8042, PIC and PIT programming: register-level I/O whose
  result nothing here depends on. Boot code runs once, alone, with interrupts off;
  `Sched` begins where it ends. System calls are a table, the Linux loader is a jump.
  Build tools and user-mode samples are not part of the kernel.
* Finite timeouts in `Sem`: no caller uses them. `Sched` has them, with the walk of
  `systick()` over `task_wait`; a `sem_wait()` that times out would keep its ticket.
* Running out of memory in `kernel_thread()` and in the receive handlers: they write
  through the null pointer, and what that does is not defined by the code.
* `idleloop()` reads the directory out of a descriptor it has freed: `Sched` has the
  outcome as `fate` "wrong_pgd", but a property needs descriptors and pages in one
  model, which is too large to check.
* The four transmit buffers of the rtl8139: the driver does not ask whether they are
  sent, so there is no state to state a property of.
* `checksum_calc()` and its `u8` index, and the bytes of headers, inodes and directory
  entries: checksums are right or wrong, and fields are members of small sets.
* What a line does that overruns `cmdBuff` or `argv`: the model ends there.
* `mmap1page()` goes on with a null table when no page is free for one (`memory.c:589`):
  the tables of `AddressSpace` do not run out. Frames that reach the e1000 between the
  enabling of its receiver and the first read of its causes (`e1000.c:1756` to 1774)
  lose their cause; `E1000Rx` begins behind that. `Mounts` carries the stack of
  directories, of which no property speaks.
* `hd_init()` is commented out of the module table at this commit (`hd.c:515`):
  `HdTransfer` and `Mounts` are of the driver once it has run. Requests are one at a
  time, although `hd_cur_rq` is shared by all tasks.
* `NetStack` receives frames addressed to this machine only. Of an upload to the disk,
  only the first sector carries data: `*cmd = ack` leaves the length of the answer in
  the next command (`client.c:77`), which `RamWritten` says.

What could follow: descriptors and page directories in one model, small enough to
check; and finite timeouts of semaphores.
