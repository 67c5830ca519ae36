-------------------------------- MODULE Slab --------------------------------
(***************************************************************************)
(* One memory cache of mm/slab.c.  A slab is a block of pages cut into     *)
(* BlocksPerSlab blocks, free ones chained through their first word.  The  *)
(* cache lists its slabs by whether all, some or none of their blocks are  *)
(* free, and keeps those with allocated blocks in a tree by address: a set *)
(* of slabs here, which is what Avl shows such a tree to be.               *)
(*                                                                         *)
(* Nothing is locked and interrupts stay on: memcache_alloc() is the steps *)
(* between which a tick can give the processor to another caller.          *)
(* memcache_free(), memcache_create() and memcache_destroy() are one step  *)
(* each, which is all their behaviour when there is one caller.            *)
(***************************************************************************)
EXTENDS Integers, Sequences, SequencesExt, FiniteSets

CONSTANTS
    Slabs,          \* the addresses page_alloc() can return
    BlocksPerSlab,  \* bps
    SlabCallers,    \* the tasks that use the cache
    NULL

ASSUME SlabAssumption ==
    /\ Slabs \subseteq Nat
    /\ BlocksPerSlab \in Nat \ {0}
    /\ NULL \notin Slabs \union (Slabs \X Nat)

VARIABLES
    cache,          \* afh, hfh, nfh, the tree slbtroot, and n_blk
    slab,           \* freepos and n_fblk of every slab
    nextFree,       \* the first word of every block
    handedOut,      \* history: the blocks callers hold
    allocStep,      \* where each caller stands in memcache_alloc()
    mySlab, fp,     \* its locals
    slabFate        \* "ok", or the assertion that has failed

slabVars == <<cache, slab, nextFree, handedOut, allocStep, mySlab, fp, slabFate>>

Blocks == Slabs \X (1 .. BlocksPerSlab)

NewCache == [afh |-> <<>>, hfh |-> <<>>, nfh |-> <<>>, slbtroot |-> {},
             n_blk |-> 0]

Listed(c) == ToSet(c.afh) \union ToSet(c.hfh) \union ToSet(c.nfh)

\* list_remove() and list_add_head() of the link curslb.
OffLists(c, s) ==
    [c EXCEPT !.afh = RemoveFirst(@, s),
              !.hfh = RemoveFirst(@, s),
              !.nfh = RemoveFirst(@, s)]

ToAfh(c, s) == [OffLists(c, s) EXCEPT !.afh = <<s>> \o @]
ToHfh(c, s) == [OffLists(c, s) EXCEPT !.hfh = <<s>> \o @]
ToNfh(c, s) == [OffLists(c, s) EXCEPT !.nfh = <<s>> \o @]

StepTo(k, l) == allocStep' = [allocStep EXCEPT ![k] = l]

SlabFail(f) ==
    /\ slabFate' = f
    /\ UNCHANGED <<cache, slab, nextFree, handedOut, allocStep, mySlab, fp>>
-----------------------------------------------------------------------------
(* memcache_alloc().                                                       *)

\* A slab that is partly free, or else one that is all free.
AllocChoose(k) ==
    LET c == cache.hfh \o cache.afh
    IN  /\ allocStep[k] = "out"
        /\ IF c = <<>>
           THEN StepTo(k, "grow") /\ UNCHANGED mySlab
           ELSE StepTo(k, "read") /\ mySlab' = [mySlab EXCEPT ![k] = Head(c)]
        /\ UNCHANGED <<cache, slab, nextFree, handedOut, fp, slabFate>>

\* How many blocks the loop of initslab() chains; n_fblk is set to bps, which
\* memcache_create() has computed on its own.
\* Mutant: the last block that fits is left out.
ChainedShort == BlocksPerSlab - 1
Chained == BlocksPerSlab

\* page_alloc() and initslab(), which chains the blocks from the last one.
AllocGrow(k) ==
    /\ allocStep[k] = "grow"
    /\ \/ \E s \in Slabs \ Listed(cache) :
             /\ cache' = ToAfh(cache, s)
             /\ slab' = [slab EXCEPT ![s] = [freepos |-> <<s, Chained>>,
                                             n_fblk  |-> BlocksPerSlab]]
             /\ nextFree' = [b \in Blocks |->
                                IF b[1] # s THEN nextFree[b]
                                ELSE IF b[2] = 1 THEN NULL ELSE <<s, b[2] - 1>>]
             /\ mySlab' = [mySlab EXCEPT ![k] = s]
             /\ StepTo(k, "read")
       \/ /\ Slabs \subseteq Listed(cache)
          /\ StepTo(k, "out")
          /\ UNCHANGED <<cache, slab, nextFree, mySlab>>
    /\ UNCHANGED <<handedOut, fp, slabFate>>

AllocRead(k) ==
    /\ allocStep[k] = "read"
    /\ IF slab[mySlab[k]].freepos = NULL
       THEN SlabFail("null_block")
       ELSE /\ fp' = [fp EXCEPT ![k] = slab[mySlab[k]].freepos]
            /\ StepTo(k, "advance")
            /\ UNCHANGED <<cache, slab, nextFree, handedOut, mySlab, slabFate>>

\* slab->freepos = fp->next, and the block is zeroed.
AllocAdvance(k) ==
    /\ allocStep[k] = "advance"
    /\ slab' = [slab EXCEPT ![mySlab[k]].freepos = nextFree[fp[k]]]
    /\ nextFree' = [nextFree EXCEPT ![fp[k]] = NULL]
    /\ StepTo(k, "list")
    /\ UNCHANGED <<cache, handedOut, mySlab, fp, slabFate>>

\* The first block of a slab brings it into the tree.
\* Mutant: the slab is listed, not put in the tree.
AllocListNoTree(k) ==
    /\ allocStep[k] = "list"
    /\ cache' = IF slab[mySlab[k]].n_fblk = BlocksPerSlab
                THEN ToHfh(cache, mySlab[k]) ELSE cache
    /\ StepTo(k, "count")
    /\ UNCHANGED <<slab, nextFree, handedOut, mySlab, fp, slabFate>>

AllocList(k) ==
    LET s == mySlab[k]
    IN  /\ allocStep[k] = "list"
        /\ IF slab[s].n_fblk # BlocksPerSlab
           THEN StepTo(k, "count") /\ UNCHANGED <<cache, slabFate>>
           ELSE IF s \in cache.slbtroot
           THEN slabFate' = "in_tree" /\ UNCHANGED <<cache, allocStep>>
           ELSE /\ cache' = [ToHfh(cache, s) EXCEPT !.slbtroot = @ \union {s}]
                /\ StepTo(k, "count")
                /\ UNCHANGED slabFate
        /\ UNCHANGED <<slab, nextFree, handedOut, mySlab, fp>>

AllocCount(k) ==
    LET s == mySlab[k]
        c == IF slab[s].n_fblk = 1 THEN ToNfh(cache, s) ELSE cache
    IN  /\ allocStep[k] = "count"
        /\ slab' = [slab EXCEPT ![s].n_fblk = @ - 1]
        /\ cache' = [c EXCEPT !.n_blk = @ + 1]
        /\ handedOut' = handedOut \union {fp[k]}
        /\ StepTo(k, "out")
        /\ mySlab' = [mySlab EXCEPT ![k] = NULL]
        /\ fp' = [fp EXCEPT ![k] = NULL]
        /\ UNCHANGED <<nextFree, slabFate>>
-----------------------------------------------------------------------------
\* The cache once a block of s is free again: s may become partly free, or
\* all free and leave the tree, or both.
AfterFree(s) ==
    LET c == IF slab[s].n_fblk = 0 THEN ToHfh(cache, s) ELSE cache
    IN  IF slab[s].n_fblk + 1 = BlocksPerSlab
        THEN [ToAfh(c, s) EXCEPT !.slbtroot = @ \ {s}]
        ELSE c

\* memcache_free(): a block that no slab in the tree contains ends in die().
MemcacheFree(k, b) ==
    LET s == b[1]
    IN  /\ allocStep[k] = "out"
        /\ b \in handedOut
        /\ IF s \notin cache.slbtroot
           THEN SlabFail("error_block")
           ELSE /\ nextFree' = [nextFree EXCEPT ![b] = slab[s].freepos]
                /\ slab' = [slab EXCEPT ![s] = [freepos |-> b, n_fblk |-> @.n_fblk + 1]]
                /\ cache' = [AfterFree(s) EXCEPT !.n_blk = @ - 1]
                /\ handedOut' = handedOut \ {b}
                /\ UNCHANGED <<allocStep, mySlab, fp, slabFate>>

\* memcache_destroy() gives the pages of all three lists back, whoever holds
\* their blocks; memcache_create() starts again.
MemcacheDestroy ==
    /\ \A k \in SlabCallers : allocStep[k] = "out"
    /\ cache' = NewCache
    /\ handedOut' = {}
    /\ slab' = [s \in Slabs |-> [freepos |-> NULL, n_fblk |-> 0]]
    /\ nextFree' = [b \in Blocks |-> NULL]
    /\ UNCHANGED <<allocStep, mySlab, fp, slabFate>>
-----------------------------------------------------------------------------
SlabInit ==
    /\ cache = NewCache
    /\ slab = [s \in Slabs |-> [freepos |-> NULL, n_fblk |-> 0]]
    /\ nextFree = [b \in Blocks |-> NULL]
    /\ handedOut = {}
    /\ allocStep = [k \in SlabCallers |-> "out"]
    /\ mySlab = [k \in SlabCallers |-> NULL]
    /\ fp = [k \in SlabCallers |-> NULL]
    /\ slabFate = "ok"

AllocStep(k) ==
    \/ AllocChoose(k) \/ AllocGrow(k) \/ AllocRead(k)
    \/ AllocAdvance(k) \/ AllocList(k) \/ AllocCount(k)

SlabNext ==
    /\ slabFate = "ok"
    /\ \/ \E k \in SlabCallers : AllocStep(k) \/ \E b \in Blocks : MemcacheFree(k, b)
       \/ MemcacheDestroy

SlabSpec == SlabInit /\ [][SlabNext]_slabVars
-----------------------------------------------------------------------------
(* Properties.                                                             *)

AtRest == slabFate = "ok" /\ \A k \in SlabCallers : allocStep[k] = "out"

\* The n blocks that c names are the chain from the block fr on.
IsChain(c, fr, n) ==
    /\ fr = IF n = 0 THEN NULL ELSE c[1]
    /\ \A i \in 1 .. n : nextFree[c[i]] = IF i = n THEN NULL ELSE c[i + 1]

\* Between the calls of a single caller, every block of a slab is either in
\* the slab's free chain, once, or handed out: none is given twice, and none
\* is lost.
BlocksAccounted ==
    AtRest => \A s \in Listed(cache) :
        \E c \in [1 .. slab[s].n_fblk -> {s} \X (1 .. BlocksPerSlab)] :
            /\ IsChain(c, slab[s].freepos, slab[s].n_fblk)
            /\ IsInjective(c)
            /\ ToSet(c) = ({s} \X (1 .. BlocksPerSlab)) \ handedOut

\* The three lists and the tree agree with the counts, so that every block a
\* caller holds is found by memcache_free(), and no call ends in die().
SlabListsAgree ==
    /\ AtRest =>
         /\ \A s \in Listed(cache) :
              /\ s \in ToSet(cache.afh) <=> slab[s].n_fblk = BlocksPerSlab
              /\ s \in ToSet(cache.nfh) <=> slab[s].n_fblk = 0
              /\ s \in ToSet(cache.afh) <=> s \notin cache.slbtroot
         /\ IsInjective(cache.afh \o cache.hfh \o cache.nfh)
         /\ cache.n_blk = Cardinality(handedOut)
    /\ slabFate = "ok"

\* "we can't find blk in AVL, the block is not alloced from this sh": so a
\* block that memcache_alloc() has returned is found.
FreeFindsSlab == slabFate # "error_block"
=============================================================================
