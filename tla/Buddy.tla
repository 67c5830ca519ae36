-------------------------------- MODULE Buddy --------------------------------
(***************************************************************************)
(* The page allocator of mm/page.c.  A block of rank k is 2^k pages, named *)
(* by the first one, whose struct page holds the rank and the link in the  *)
(* free list.  page_alloc() looks through the free lists with interrupts   *)
(* on and takes the block with interrupts off; page_free() joins buddies   *)
(* with interrupts off, one step.  A call from an interrupt handler is a   *)
(* call whose steps nothing comes between.                                 *)
(***************************************************************************)
EXTENDS Integers, Sequences, SequencesExt, FiniteSetsExt

CONSTANTS
    NPages,         \* n_pages
    RankNum,        \* BUDDY_RANKNUM
    Areas,          \* g_mmarea
    Begin, Size,    \* begin and size of each area, in pages
    Usable,         \* the pages in idle ranges of mem_resource
    Callers,        \* the contexts that call page_alloc() and page_free()
    NIL

Page == 0 .. NPages - 1
Rank == 0 .. RankNum - 1

ASSUME BuddyAssumption ==
    /\ NPages \in Nat \ {0}
    /\ RankNum \in Nat \ {0}
    /\ Begin \in [Areas -> Nat] /\ Size \in [Areas -> Nat]
    /\ \A p \in Page : \E a \in Areas : p \in Begin[a] .. Begin[a] + Size[a] - 1
    /\ \A a, b \in Areas :
          a # b => Begin[a] + Size[a] <= Begin[b] \/ Begin[b] + Size[b] <= Begin[a]
    /\ Usable \subseteq Page
    /\ NIL \notin {"list_empty", "no_area"}

VARIABLES
    fpageList,      \* fpage_list of each area
    buddyRank,      \* page.buddy_rank
    online,         \* the page sysram_online() has reached
    held,           \* the first pages of the blocks that are allocated
    allocAt,        \* where each caller stands in page_alloc()
    request,        \* its arguments: the area and the rank
    scan,           \* its local i
    panic           \* the assertion that has failed

buddyVars == <<fpageList, buddyRank, online, held, allocAt, request, scan, panic>>

\* 1 << k, the pages of a block of rank k.
PagesOf[k \in Nat] == IF k = 0 THEN 1 ELSE 2 * PagesOf[k - 1]

Block(p, k) == p .. p + PagesOf[k] - 1

AreaPages(a) == Begin[a] .. Begin[a] + Size[a] - 1

\* get_pagearea()
AreaOf(p) == CHOOSE a \in Areas : p \in AreaPages(a)

\* CHECK_NODE_INLIST(&page->freepage)
InList(p) == \E a \in Areas, k \in Rank : p \in ToSet(fpageList[a][k])

\* The first page of the block of rank k around p, and GET_BUDDY_PAGE().
HeadOf(p, k)  == p - (p % PagesOf[k])
BuddyOf(p, k) == IF (p \div PagesOf[k]) % 2 = 0 THEN HeadOf(p, k) + PagesOf[k]
                                                ELSE HeadOf(p, k) - PagesOf[k]
-----------------------------------------------------------------------------
(* page_alloc().                                                           *)

AllocCall(c, a, k) ==
    /\ allocAt[c] = "out"
    /\ Size[a] > 0
    /\ request' = [request EXCEPT ![c] = <<a, k>>]
    /\ scan' = [scan EXCEPT ![c] = k]
    /\ allocAt' = [allocAt EXCEPT ![c] = "search"]
    /\ UNCHANGED <<fpageList, buddyRank, online, held, panic>>

\* One free list is looked at; past the last one the call returns NULL.
AllocSearch(c) ==
    /\ allocAt[c] = "search"
    /\ \/ /\ scan[c] = RankNum
          /\ allocAt' = [allocAt EXCEPT ![c] = "out"]
          /\ UNCHANGED scan
       \/ /\ scan[c] < RankNum
          /\ fpageList[request[c][1]][scan[c]] # <<>>
          /\ allocAt' = [allocAt EXCEPT ![c] = "take"]
          /\ UNCHANGED scan
       \/ /\ scan[c] < RankNum
          /\ fpageList[request[c][1]][scan[c]] = <<>>
          /\ scan' = [scan EXCEPT ![c] = @ + 1]
          /\ UNCHANGED allocAt
    /\ UNCHANGED <<fpageList, buddyRank, online, held, request, panic>>

\* The lists of area a once its block p of rank i is cut down to rank k: the
\* second half goes to its list at every rank on the way.
\* Mutants: the halves are lost; the block stays in its list.
CutAndLose(a, p, i, k) == [fpageList EXCEPT ![a][i] = Tail(@)]
CutAndKeep(a, p, i, k) ==
    [fpageList EXCEPT ![a] = [r \in Rank |->
        IF r \in k .. i - 1 THEN <<p + PagesOf[r]>> \o @[r] ELSE @[r]]]

Cut(a, p, i, k) ==
    [fpageList EXCEPT ![a] = [r \in Rank |->
        IF r = i THEN Tail(@[r])
        ELSE IF r \in k .. i - 1 THEN <<p + PagesOf[r]>> \o @[r] ELSE @[r]]]

\* list_remove_head() asserts that the list found in the search is not empty
\* now.
AllocTake(c) ==
    LET a    == request[c][1]
        k    == request[c][2]
        i    == scan[c]
        p    == Head(fpageList[a][i])
        half == {p + PagesOf[r] : r \in k .. i - 1}
    IN  /\ allocAt[c] = "take"
        /\ IF fpageList[a][i] = <<>>
           THEN /\ panic' = "list_empty"
                /\ UNCHANGED <<fpageList, buddyRank, held, allocAt>>
           ELSE /\ fpageList' = Cut(a, p, i, k)
                /\ buddyRank' = [q \in Page |->
                      IF q = p THEN k
                      ELSE IF q \in half THEN CHOOSE r \in k .. i - 1 : q = p + PagesOf[r]
                      ELSE buddyRank[q]]
                /\ held' = held \union {p}
                /\ allocAt' = [allocAt EXCEPT ![c] = "out"]
                /\ UNCHANGED panic
        /\ UNCHANGED <<online, request, scan>>
-----------------------------------------------------------------------------
(* page_free() and sysram_online().                                        *)

\* The block of rank k around p can be joined with its buddy.
\* Mutants: the rank of the buddy is not compared; nothing is joined.
JoinsAnyRank(p, k) ==
    LET b == BuddyOf(p, k)
    IN  b < NPages /\ InList(b) /\ AreaOf(b) = AreaOf(p)

NeverJoins(p, k) == FALSE

Joins(p, k) ==
    LET b == BuddyOf(p, k)
    IN  b < NPages /\ InList(b) /\ buddyRank[b] = k /\ AreaOf(b) = AreaOf(p)

\* The rank at which the loop ends when p has rank k.
FinalRank(p, k) ==
    Min({r \in k .. RankNum - 1 : r = RankNum - 1 \/ ~Joins(p, r)})

\* The buddy looked at last lies beyond the page list: whatever is there may
\* look like a free block of this rank, and then no area contains it.
LooksBeyond(p, k) ==
    /\ FinalRank(p, k) < RankNum - 1
    /\ BuddyOf(p, FinalRank(p, k)) >= NPages

\* The free lists once p, of rank k, is freed: list_remove() takes each buddy
\* out of the list it stands in, which is that of its rank, and the block that
\* comes of it goes to the head of its own.
Joined(p, k) ==
    LET last == FinalRank(p, k) IN
        [fpageList EXCEPT ![AreaOf(p)] = [r \in Rank |->
            IF r = last THEN <<HeadOf(p, last)>> \o @[r]
            ELSE IF r \in k .. last - 1 THEN RemoveFirst(@[r], BuddyOf(p, r)) ELSE @[r]]]

\* The block p, whose rank is k, becomes free.
FreePage(p, k) ==
    \/ /\ LooksBeyond(p, k)
       /\ panic' = "no_area"
       /\ UNCHANGED <<fpageList, buddyRank>>
    \/ /\ fpageList' = Joined(p, k)
       /\ buddyRank' = [q \in Page |->
             IF q \in {HeadOf(p, r) : r \in k .. FinalRank(p, k)}
             THEN Max({r \in k .. FinalRank(p, k) : q = HeadOf(p, r)})
             ELSE buddyRank[q]]
       /\ UNCHANGED panic

PageFree(c, p) ==
    /\ allocAt[c] = "out"
    /\ p \in held
    /\ held' = held \ {p}
    /\ FreePage(p, buddyRank[p])
    /\ UNCHANGED <<online, allocAt, request, scan>>

\* mem_init() hands the idle ranges over, page by page.
SysramOnline ==
    /\ online < NPages
    /\ online' = online + 1
    /\ IF online \in Usable
       THEN FreePage(online, 0)
       ELSE UNCHANGED <<fpageList, buddyRank, panic>>
    /\ UNCHANGED <<held, allocAt, request, scan>>
-----------------------------------------------------------------------------
\* buddy_init() and mmarea_init().
BuddyInit ==
    /\ fpageList = [a \in Areas |-> [k \in Rank |-> <<>>]]
    /\ buddyRank = [p \in Page |-> 0]
    /\ online = 0
    /\ held = {}
    /\ allocAt = [c \in Callers |-> "out"]
    /\ request = [c \in Callers |-> NIL]
    /\ scan = [c \in Callers |-> 0]
    /\ panic = NIL

CallerStep(c) ==
    \/ \E a \in Areas, k \in Rank : AllocCall(c, a, k)
    \/ AllocSearch(c)
    \/ AllocTake(c)
    \/ \E p \in Page : PageFree(c, p)

BuddyNext ==
    /\ panic = NIL
    /\ \/ SysramOnline
       \/ online = NPages /\ \E c \in Callers : CallerStep(c)

BuddySpec == BuddyInit /\ [][BuddyNext]_buddyVars
-----------------------------------------------------------------------------
(* Properties.                                                             *)

\* The type of every variable.
BuddyTypeOK ==
    /\ fpageList \in [Areas -> [Rank -> Seq(Page)]]
    /\ buddyRank \in [Page -> Rank]
    /\ online \in 0 .. NPages
    /\ held \subseteq Page
    /\ allocAt \in [Callers -> {"out", "search", "take"}]
    /\ request \in [Callers -> {NIL} \union Areas \X Rank]
    /\ scan \in [Callers -> 0 .. RankNum]
    /\ panic \in {NIL, "list_empty", "no_area"}

Free == {p \in Page : InList(p)}

\* No page is lost and none is in two blocks, free or allocated: what
\* page_alloc() cuts and page_free() joins always adds up to the RAM that
\* mem_init() handed over.
Partitioned ==
    /\ BuddyTypeOK
    /\ panic = NIL =>
        /\ Free \cap held = {}
        /\ \A p, q \in Free \union held :
              p # q => Block(p, buddyRank[p]) \cap Block(q, buddyRank[q]) = {}
        /\ UNION {Block(p, buddyRank[p]) : p \in Free \union held} =
              Usable \cap 0 .. online - 1

\* A block is in the list of its area and of its rank, once, it is aligned,
\* and it does not reach into another area.
ListsConsistent ==
    \A a \in Areas, k \in Rank :
        /\ IsInjective(fpageList[a][k])
        /\ \A p \in ToSet(fpageList[a][k]) :
              buddyRank[p] = k /\ p % PagesOf[k] = 0 /\ Block(p, k) \subseteq AreaPages(a)

\* Two free buddies of one rank and one area have always been joined.
Coalesced ==
    \A a \in Areas, k \in 0 .. RankNum - 2 :
        \A p \in ToSet(fpageList[a][k]) :
            BuddyOf(p, k) \notin ToSet(fpageList[a][k])

\* The allocator is a pool of pages, whatever comes between the steps of its
\* callers.
Pool == INSTANCE PagePool WITH
            Pages  <- Page,
            Blocks <- {Block(p, k) : p \in Page, k \in Rank},
            owned  <- Usable \cap 0 .. online - 1,
            taken  <- {Block(p, buddyRank[p]) : p \in held}

IsPool == Pool!PoolSpec
=============================================================================
