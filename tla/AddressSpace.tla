---------------------------- MODULE AddressSpace ----------------------------
(***************************************************************************)
(* Page directories and page tables (mm/memory.c, core/task.c).  Addresses *)
(* are page numbers; a directory entry maps a region of TableSize pages    *)
(* through a page table.  pgmode_enable() maps the normal memory to itself *)
(* in the first directory, kernel_thread() copies the directory in use,    *)
(* mmap() enters one page after the other into the directory in use, each  *)
(* a step, and adds a page table to that directory alone.                  *)
(* exec_test() of core/cmdlist.c, which maps a user page, is not called.   *)
(***************************************************************************)
EXTENDS Integers, Sequences, SequencesExt, FiniteSets

CONSTANTS
    Tasks0, NewTasks,       \* task 0, and the threads there can be
    Regions,                \* directory entries 0 .. Regions - 1
    NormalRegions,          \* how many of them are below MM_NORMALMEM_RANGE
    TableSize,              \* N_PTEENTRY_PERPAGE
    PageTables,             \* the pages page tables can be made of
    Devices,                \* where the registers of devices are: <<page, pages>>
    NoTable

ASSUME SpaceAssumption ==
    /\ Tasks0 \notin NewTasks /\ NoTable \notin PageTables
    /\ TableSize \in Nat \ {0} /\ Regions \in Nat /\ NormalRegions \in 0 .. Regions
    /\ Devices \subseteq Nat \X Nat
    /\ \A d \in Devices :
          NormalRegions * TableSize <= d[1] /\ d[1] + d[2] <= Regions * TableSize
    /\ \E f \in [0 .. NormalRegions - 1 -> PageTables] : IsInjective(f)

VARIABLES
    pgd,            \* the directory of each task that exists
    ptab,           \* the entries of each page table in use
    running,        \* the task whose directory is in CR3
    mmapAt,         \* <<d, i>>: mmap() has entered i pages of device d
    mapped,         \* history: the devices that have been mapped
    inherited       \* history: <<t, d>> if the creator of t reached d by then

spaceVars == <<pgd, ptab, running, mmapAt, mapped, inherited>>

Pte(pa, us) == [pg_base |-> pa, us |-> us]
NoPte == Pte(-1, FALSE)
Pde(pt, us) == [pt_base |-> pt, us |-> us]
NoPde == Pde(NoTable, FALSE)

\* What address va is under directory d and page tables p.
Walked(d, p, va) ==
    IF d[va \div TableSize].pt_base = NoTable THEN NoPte
    ELSE p[d[va \div TableSize].pt_base][va % TableSize]

Reaches(t, va) == Walked(pgd[t], ptab, va).pg_base = va

ReachesDevice(t, d) == \A va \in d[1] .. d[1] + d[2] - 1 : Reaches(t, va)

FreeTables == {x \in PageTables : ptab[x] = <<>>}

\* Mutant: a new page table even where there is one.
PresentNever(r) == FALSE
Present(r) == pgd[running][r].pt_base # NoTable

Mmap1Page(va, pa, us) ==
    LET r   == va \div TableSize
        pt  == CHOOSE x \in FreeTables : TRUE
        pte == Pte(pa, us)
    IN  \/ /\ Present(r)
           /\ ptab' = [ptab EXCEPT ![pgd[running][r].pt_base][va % TableSize] = pte]
           /\ UNCHANGED pgd
        \/ /\ ~Present(r) /\ FreeTables # {}
           /\ pgd' = [pgd EXCEPT ![running][r] = Pde(pt, us)]
           /\ ptab' = [ptab EXCEPT ![pt] =
                          [i \in 0 .. TableSize - 1 |->
                               IF i = va % TableSize THEN pte ELSE NoPte]]

\* The PCI probe of a driver, in task 0 at boot, calls mmap().
ProbeMmap(d) ==
    /\ running = Tasks0 /\ mmapAt = <<>> /\ d \notin mapped
    /\ mmapAt' = <<d, 0>>
    /\ UNCHANGED <<pgd, ptab, running, mapped, inherited>>

MmapTurn ==
    /\ running = Tasks0 /\ mmapAt # <<>>
    /\ LET d  == mmapAt[1]
           va == d[1] + mmapAt[2]
       IN  IF mmapAt[2] < d[2]
           THEN /\ Mmap1Page(va, va, FALSE)
                /\ mmapAt' = <<d, mmapAt[2] + 1>>
                /\ UNCHANGED mapped
           ELSE /\ mmapAt' = <<>>
                /\ mapped' = mapped \union {d}
                /\ UNCHANGED <<pgd, ptab>>
    /\ UNCHANGED <<running, inherited>>

\* The directory of a new thread.
\* Mutant: the part below MM_NORMALMEM_RANGE alone, as in the line of
\* kernel_thread() that is commented out.
NewDirectoryNormal(d) ==
    [r \in 0 .. Regions - 1 |-> IF r < NormalRegions THEN d[r] ELSE NoPde]

NewDirectory(d) == d

CreateThread(t) ==
    /\ t \notin DOMAIN pgd
    /\ running = Tasks0 => mmapAt = <<>>
    /\ pgd' = [x \in DOMAIN pgd \union {t} |->
                  IF x = t THEN NewDirectory(pgd[running]) ELSE pgd[x]]
    /\ inherited' = {x \in inherited : x[1] # t}
                    \union {<<t, d>> : d \in {e \in Devices : ReachesDevice(running, e)}}
    /\ UNCHANGED <<ptab, running, mmapAt, mapped>>

SwitchTo(t) ==
    /\ t \in DOMAIN pgd /\ t # running
    /\ running' = t
    /\ UNCHANGED <<pgd, ptab, mmapAt, mapped, inherited>>

\* idleloop() frees the page of the directory, not what it points to.
ReapDirectory(t) ==
    /\ running = Tasks0 /\ mmapAt = <<>> /\ t \in DOMAIN pgd \ {Tasks0}
    /\ pgd' = [x \in DOMAIN pgd \ {t} |-> pgd[x]]
    /\ UNCHANGED <<ptab, running, mmapAt, mapped, inherited>>

\* The page tables of the normal memory are one block of pages.
NormalTables == CHOOSE f \in [0 .. NormalRegions - 1 -> PageTables] : IsInjective(f)

PgmodeEnable ==
    /\ pgd = [x \in {Tasks0} |->
                 [r \in 0 .. Regions - 1 |->
                      IF r < NormalRegions THEN Pde(NormalTables[r], FALSE) ELSE NoPde]]
    /\ ptab = [x \in PageTables |->
                  IF \E r \in 0 .. NormalRegions - 1 : NormalTables[r] = x
                  THEN LET r == CHOOSE q \in 0 .. NormalRegions - 1 : NormalTables[q] = x
                       IN  [i \in 0 .. TableSize - 1 |-> Pte(r * TableSize + i, FALSE)]
                  ELSE <<>>]

SpaceInit ==
    /\ PgmodeEnable
    /\ running = Tasks0
    /\ mmapAt = <<>>
    /\ mapped = {}
    /\ inherited = {}

SpaceNext ==
    \/ MmapTurn \/ \E d \in Devices : ProbeMmap(d)
    \/ \E t \in NewTasks : CreateThread(t) \/ ReapDirectory(t)
    \/ \E t \in DOMAIN pgd : SwitchTo(t)

SpaceSpec == SpaceInit /\ [][SpaceNext]_spaceVars
-----------------------------------------------------------------------------
(* Properties.                                                             *)

\* Every task sees the normal memory at its own address, whoever created it;
\* and the registers of a device are reached by task 0 from the mapping on
\* and by every thread whose creator reached them: a copied directory keeps
\* working after its original is freed.
MappedAtCreation ==
    \A t \in DOMAIN pgd :
        /\ \A va \in 0 .. NormalRegions * TableSize - 1 : Reaches(t, va)
        /\ \A d \in Devices :
             (<<t, d>> \in inherited \/ (t = Tasks0 /\ d \in mapped)) => ReachesDevice(t, d)

\* mmap() takes nothing away: what a task reaches it reaches as long as it
\* exists, although tasks share page tables, mmap() of several pages goes
\* through several regions, and other tasks run and copy directories between.
MappingsKept ==
    [][\A t \in DOMAIN pgd : t \in DOMAIN pgd' =>
         \A va \in 0 .. Regions * TableSize - 1 :
             LET e == Walked(pgd[t], ptab, va)
             IN  e # NoPte => Walked(pgd'[t], ptab', va) = e]_spaceVars

\* A driver runs in whatever task an interrupt meets and in net_proc, so
\* once its registers are mapped every task has to reach them.
DeviceReached == \A d \in mapped, t \in DOMAIN pgd : ReachesDevice(t, d)
=============================================================================
