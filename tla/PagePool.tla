------------------------------ MODULE PagePool ------------------------------
(***************************************************************************)
(* What a page allocator promises: it hands out blocks of the pages it was *)
(* given, never a page that somebody holds already.                        *)
(***************************************************************************)
CONSTANTS
    Pages,          \* the pages of the machine
    Blocks          \* the sets of pages that may be handed out

VARIABLES
    owned,          \* the pages given to the allocator so far
    taken           \* the blocks that have been handed out

poolVars == <<owned, taken>>

PoolInit == owned = {} /\ taken = {}

Give(p) == p \notin owned /\ owned' = owned \union {p} /\ UNCHANGED taken

Grant(b) ==
    /\ b \subseteq owned \ UNION taken
    /\ taken' = taken \union {b}
    /\ UNCHANGED owned

Release(b) == b \in taken /\ taken' = taken \ {b} /\ UNCHANGED owned

PoolNext ==
    \/ \E p \in Pages : Give(p)
    \/ \E b \in Blocks : Grant(b) \/ Release(b)

PoolSpec == PoolInit /\ [][PoolNext]_poolVars
=============================================================================
