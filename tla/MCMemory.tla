------------------------------ MODULE MCMemory ------------------------------
(***************************************************************************)
(* The memory components side by side.  They share no state that the       *)
(* models keep, so each behaviour exercises the one named by component.    *)
(***************************************************************************)
EXTENDS Buddy, Slab, Avl, Ranges, AddressSpace, TLC

VARIABLE component

\* Two pages of low memory, the first of them the kernel's; seven of normal
\* memory, the first two of them the page list.  Nine pages is not a power of
\* two.
MCBegin  == [a \in Areas |-> IF a = "low" THEN 0 ELSE 2]
MCSize   == [a \in Areas |-> IF a = "low" THEN 2 ELSE 7]
MCUsable == {1, 4, 5, 6, 7, 8}

\* Three devices: one across two directory entries, and one in each of these.
MCDevices == {<<7, 2>>, <<6, 1>>, <<9, 1>>}

MCSymmetry == Permutations(Callers)

MemoryInit ==
    /\ BuddyInit /\ SlabInit /\ AvlInit /\ RangesInit /\ SpaceInit
    /\ component \in {"buddy", "slab", "avl", "ranges", "space"}
    /\ component # "ranges" => ramSize = CHOOSE r \in RamSizes : TRUE

BuddyPart  == component = "buddy" /\ BuddyNext
              /\ UNCHANGED <<slabVars, avlVars, rangeVars, spaceVars>>
SlabPart   == component = "slab" /\ SlabNext
              /\ UNCHANGED <<buddyVars, avlVars, rangeVars, spaceVars>>
AvlPart    == component = "avl" /\ AvlNext
              /\ UNCHANGED <<buddyVars, slabVars, rangeVars, spaceVars>>
RangesPart == component = "ranges" /\ RangesNext
              /\ UNCHANGED <<buddyVars, slabVars, avlVars, spaceVars>>
SpacePart  == component = "space" /\ SpaceNext
              /\ UNCHANGED <<buddyVars, slabVars, avlVars, rangeVars>>

MemoryNext ==
    /\ UNCHANGED component
    /\ BuddyPart \/ SlabPart \/ AvlPart \/ RangesPart \/ SpacePart

MemorySpec ==
    /\ MemoryInit
    /\ [][MemoryNext]_<<component, buddyVars, slabVars, avlVars, rangeVars, spaceVars>>
=============================================================================
