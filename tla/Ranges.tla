------------------------------- MODULE Ranges -------------------------------
(***************************************************************************)
(* The physical memory map of mm/memory.c: a table of ranges that are idle *)
(* or granted.  mem_init() puts the whole RAM in it, grants the system, the *)
(* BIOS and the page list, and gives what is idle to the page allocator.   *)
(* Nobody else grants a range yet; the grants that follow, with any        *)
(* arguments that do not wrap around, exercise what the header offers.     *)
(***************************************************************************)
EXTENDS Integers, Sequences, FiniteSetsExt

CONSTANTS
    RamSizes,           \* what the BIOS may report, in pages
    SystemEnds,         \* where the system may end
    BiosBegin, BiosSize,
    ExtentRam,          \* EXTENT_RAM_ADDR, where the page list goes
    MaxRanges           \* MM_RANGERESOURCE_MAXNUM

ASSUME RangesAssumption ==
    /\ RamSizes \subseteq Nat \ {0} /\ SystemEnds \subseteq Nat
    /\ BiosBegin \in Nat /\ ExtentRam \in Nat
    /\ BiosSize \in Nat \ {0} /\ MaxRanges \in Nat \ {0}

VARIABLES
    rd,                 \* mem_resource
    ramSize,
    grants,             \* history: what has been granted
    memBoot             \* how far mem_init() is, or the assertion that failed

rangeVars == <<rd, ramSize, grants, memBoot>>

RangeDesc(b, s, f) == [begin |-> b, size |-> s, flag |-> f]

\* The two holes that a grant leaves of an idle range.
HoleBefore(r, b) ==
    IF b > r.begin THEN <<RangeDesc(r.begin, b - r.begin, "idle")>> ELSE <<>>

\* Mutant: a hole of one page behind the grant is forgotten.
HoleBehindButLast(r, b, s) ==
    IF b + s + 1 < r.begin + r.size
    THEN <<RangeDesc(b + s, r.begin + r.size - b - s, "idle")>> ELSE <<>>

HoleBehind(r, b, s) ==
    IF b + s < r.begin + r.size
    THEN <<RangeDesc(b + s, r.begin + r.size - b - s, "idle")>> ELSE <<>>

\* Mutant: a range of exactly the size is not used.
FitsLoosely(r, b, s) == r.flag = "idle" /\ r.begin <= b /\ r.begin + r.size > b + s

Fits(r, b, s) == r.flag = "idle" /\ r.begin <= b /\ r.begin + r.size >= b + s

\* rr_cmp().  No two ranges begin at one place, so that the order in which
\* sort() would leave them does not matter.
Precedes(t, i, j) ==
    t[i].begin < t[j].begin \/ (t[i].begin = t[j].begin /\ i < j)

SortedByBegin(t) ==
    LET place(i) == Cardinality({j \in DOMAIN t : Precedes(t, j, i)}) + 1
    IN  [k \in DOMAIN t |-> t[CHOOSE i \in DOMAIN t : place(i) = k]]

\* The first idle range that holds the new one is cut; the holes go to the
\* end of the table, which is then sorted.
AddedTo(t, b, s, f) ==
    LET i == Min({j \in DOMAIN t : Fits(t[j], b, s)})
    IN  SortedByBegin([t EXCEPT ![i] = RangeDesc(b, s, f)]
                      \o HoleBefore(t[i], b) \o HoleBehind(t[i], b, s))

TableFull(t) == Len(t) + 2 > MaxRanges

AddRangeResult(t, b, s) ==
    CASE TableFull(t)                                        -> -2
      [] ~TableFull(t) /\ ~\E i \in 1 .. Len(t) : Fits(t[i], b, s) -> -1
      [] OTHER                                               -> 0

ResoureAddRange(b, s, f) ==
    IF AddRangeResult(rd, b, s) = 0
    THEN /\ rd' = AddedTo(rd, b, s, f)
         /\ grants' = grants \union {RangeDesc(b, s, f)}
    ELSE UNCHANGED <<rd, grants>>

\* ASSERT(0 == resoure_add_range(...)).
AddAsserted(b, s, f, next) ==
    /\ ResoureAddRange(b, s, f)
    /\ memBoot' = IF AddRangeResult(rd, b, s) = 0 THEN next ELSE "assert"
    /\ UNCHANGED ramSize

\* The system range goes up to the next page after a hole of one page.
MemInitSystem ==
    \E e \in SystemEnds :
        memBoot = "system" /\ AddAsserted(0, e + 1, "used", "bios")

MemInitBios ==
    memBoot = "bios" /\ AddAsserted(BiosBegin, BiosSize, "reserve", "pagelist")

\* buddy_init(): the descriptors of four pages fill one page here.
PageListSize == (ramSize + 3) \div 4

MemInitPageList ==
    memBoot = "pagelist" /\ AddAsserted(ExtentRam, PageListSize, "used", "online")

\* sysram_online() of the idle ranges; then later grants.
MemInitOnline ==
    /\ memBoot = "online"
    /\ memBoot' = "done"
    /\ UNCHANGED <<rd, ramSize, grants>>

LaterGrant ==
    \E b \in 0 .. ramSize, s \in 1 .. 3 :
        /\ memBoot = "done"
        /\ ResoureAddRange(b, s, "used")
        /\ UNCHANGED <<ramSize, memBoot>>

RangesInit ==
    /\ ramSize \in RamSizes
    /\ rd = <<RangeDesc(0, ramSize, "idle")>>
    /\ grants = {}
    /\ memBoot = "system"

RangesNext ==
    \/ MemInitSystem \/ MemInitBios \/ MemInitPageList \/ MemInitOnline
    \/ LaterGrant

RangesSpec == RangesInit /\ [][RangesNext]_rangeVars
-----------------------------------------------------------------------------
(* Properties.                                                             *)

\* Whatever is granted or refused, in whatever order, the table is the RAM:
\* in order, without a gap or an overlap, within its bound, and what is not
\* idle is exactly what was granted.  Otherwise memory.c:546 would put a used
\* page online, or lose one.
RangesTile ==
    /\ Len(rd) <= MaxRanges
    /\ \A i \in 1 .. Len(rd) :
         /\ rd[i].size > 0
         /\ rd[i].begin + rd[i].size
              = IF i = Len(rd) THEN ramSize ELSE rd[i + 1].begin
    /\ rd[1].begin = 0
    /\ {rd[i] : i \in {j \in 1 .. Len(rd) : rd[j].flag # "idle"}} = grants

\* A request is refused only where it meets something granted or the end of
\* the RAM, or for want of two entries: a table that has been cut up does not
\* hide memory that is free.
RefusedForCause ==
    \A b \in 0 .. ramSize, s \in 1 .. 3 :
        AddRangeResult(rd, b, s) = -1 =>
            \/ b + s > ramSize
            \/ \E g \in grants : g.begin < b + s /\ b < g.begin + g.size
=============================================================================
