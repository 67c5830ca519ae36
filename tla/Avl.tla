--------------------------------- MODULE Avl ---------------------------------
(***************************************************************************)
(* avl_insert(), avl_remove(), avl_lkup() and avl_walk() of lib/avl/avl.c, *)
(* with the comparison of their only user, mm/slab.c: a node n stands for   *)
(* the addresses n .. n + Span - 1.  The loops of a call are taken turn by  *)
(* turn; calls do not overlap.                                             *)
(***************************************************************************)
EXTENDS AvlTree

CONSTANTS
    Span,           \* the length of a range
    Probes          \* the addresses that are looked up

ASSUME AvlAssumption ==
    /\ Node \subseteq Nat
    /\ Span \in Nat \ {0}
    /\ Probes \subseteq Nat

VARIABLES
    tree,
    members,        \* history: what has been put in and not taken out
    phase,          \* the loop the call is in, or "idle"
    arg,            \* the node or address the call is about
    cn,             \* the node the loop has come to
    up,             \* the father of cn while a place is searched
    result          \* what the last call has returned

avlVars == <<tree, members, phase, arg, cn, up, result>>

\* slabcmp() of node n with the range of q addresses from a on.
\* Mutant: ranges that touch overlap.
RangeCmpTouching(n, a, q) ==
    CASE n + Span < a                                   -> "1lt2"
      [] n > a + q                                      -> "1bt2"
      [] n = a /\ Span = q                              -> "1eq2"
      [] Span < q /\ n >= a /\ n + Span <= a + q        -> "1in2"
      [] Span > q /\ n <= a /\ n + Span >= a + q        -> "2in1"
      [] OTHER                                          -> "ovlp"

RangeCmp(n, a, q) ==
    CASE n + Span <= a                                  -> "1lt2"
      [] n >= a + q                                     -> "1bt2"
      [] n = a /\ Span = q                              -> "1eq2"
      [] Span < q /\ n >= a /\ n + Span <= a + q        -> "1in2"
      [] Span > q /\ n <= a /\ n + Span >= a + q        -> "2in1"
      [] OTHER                                          -> "ovlp"

Return == phase' = "idle" /\ arg' = 0 /\ cn' = Nil /\ up' = Nil

\* avl_ab() is called for node n.
BalanceFrom(n) == phase' = "balance" /\ arg' = 0 /\ cn' = n /\ up' = Nil
-----------------------------------------------------------------------------
(* avl_insert(): the search goes down to a free place, or meets a node that *)
(* overlaps.                                                               *)

InsertCall(k) ==
    /\ phase = "idle"
    /\ k \notin members
    /\ phase' = "insert"
    /\ arg' = k
    /\ cn' = tree.root
    /\ up' = Nil
    /\ result' = <<"none", 0, 0>>
    /\ UNCHANGED <<tree, members>>

InsertDown ==
    /\ phase = "insert"
    /\ cn # Nil
    /\ \/ RangeCmp(cn, arg, Span) = "1lt2" /\ cn' = tree.rc[cn]
       \/ RangeCmp(cn, arg, Span) = "1bt2" /\ cn' = tree.lc[cn]
    /\ up' = cn
    /\ UNCHANGED <<tree, members, phase, arg, result>>

InsertRefused ==
    /\ phase = "insert"
    /\ cn # Nil
    /\ RangeCmp(cn, arg, Span) \notin {"1lt2", "1bt2"}
    /\ Return
    /\ result' = <<"insert", arg, -1>>
    /\ UNCHANGED <<tree, members>>

InsertLink ==
    /\ phase = "insert"
    /\ cn = Nil
    /\ tree' = Linked(tree, arg, up, up # Nil /\ RangeCmp(up, arg, Span) = "1lt2")
    /\ members' = members \union {arg}
    /\ BalanceFrom(up)
    /\ result' = <<"insert", arg, 0>>
-----------------------------------------------------------------------------
(* avl_remove(): a node with two children is replaced by its neighbour from *)
(* the higher subtree.                                                     *)

CutOff(n, t, at) ==
    /\ tree' = Cleared(t, n)
    /\ members' = members \ {n}
    /\ BalanceFrom(at)
    /\ result' = <<"remove", n, 0>>

RemoveCall(n) ==
    /\ phase = "idle"
    /\ n \in members
    /\ IF tree.lc[n] = Nil \/ tree.rc[n] = Nil
       THEN CutOff(n, Ndcut(tree, n), tree.f[n])
       ELSE /\ IF Subth(tree, tree.lc[n]) > Subth(tree, tree.rc[n])
               THEN phase' = "rightmost" /\ cn' = tree.lc[n]
               ELSE phase' = "leftmost" /\ cn' = tree.rc[n]
            /\ arg' = n
            /\ result' = <<"none", 0, 0>>
            /\ UNCHANGED <<tree, members, up>>

SubstituteDown ==
    /\ \/ phase = "rightmost" /\ tree.rc[cn] # Nil /\ cn' = tree.rc[cn]
       \/ phase = "leftmost" /\ tree.lc[cn] # Nil /\ cn' = tree.lc[cn]
    /\ UNCHANGED <<tree, members, phase, arg, up, result>>

\* Mutant: rebalancing starts above a substitute that was a child of n.
SubstituteStartsAbove ==
    /\ \/ phase = "rightmost" /\ tree.rc[cn] = Nil
       \/ phase = "leftmost" /\ tree.lc[cn] = Nil
    /\ CutOff(arg, Seated(Ndcut(tree, cn), arg, cn),
           IF tree.f[cn] = arg THEN tree.f[arg] ELSE tree.f[cn])

Substitute ==
    /\ \/ phase = "rightmost" /\ tree.rc[cn] = Nil
       \/ phase = "leftmost" /\ tree.lc[cn] = Nil
    /\ CutOff(arg, Seated(Ndcut(tree, cn), arg, cn),
           IF tree.f[cn] = arg THEN cn ELSE tree.f[cn])
-----------------------------------------------------------------------------
(* avl_ab(), from the node cn upwards.                                     *)

BalanceTurn ==
    /\ phase = "balance"
    /\ cn # Nil
    /\ NeedsAb(tree, cn)
    /\ tree' = Turned(Rfh(tree, cn), cn)
    /\ cn' = tree.f[cn]
    /\ UNCHANGED <<members, phase, arg, up, result>>

BalanceEnd ==
    /\ phase = "balance"
    /\ ~(cn # Nil /\ NeedsAb(tree, cn))
    /\ Return
    /\ UNCHANGED <<tree, members, result>>
-----------------------------------------------------------------------------
(* avl_lkup() of a block of one address, and avl_walk().                   *)

LookupCall(p) ==
    /\ phase = "idle"
    /\ phase' = "lookup"
    /\ arg' = p
    /\ cn' = tree.root
    /\ result' = <<"none", 0, 0>>
    /\ UNCHANGED <<tree, members, up>>

LookupDown ==
    /\ phase = "lookup"
    /\ cn # Nil
    /\ \/ RangeCmp(cn, arg, 1) = "1lt2" /\ cn' = tree.rc[cn]
       \/ RangeCmp(cn, arg, 1) = "1bt2" /\ cn' = tree.lc[cn]
    /\ UNCHANGED <<tree, members, phase, arg, up, result>>

LookupEnd ==
    /\ phase = "lookup"
    /\ ~(cn # Nil /\ RangeCmp(cn, arg, 1) \in {"1lt2", "1bt2"})
    /\ Return
    /\ result' = <<"lookup", arg, IF cn # Nil /\ RangeCmp(cn, arg, 1) \in {"2in1", "1eq2"}
                                  THEN cn ELSE Nil>>
    /\ UNCHANGED <<tree, members>>

\* The six orders of avlwt_t.
Orders == {wt \in [1 .. 3 -> {"L", "M", "R"}] : \A i, j \in 1 .. 3 : i # j => wt[i] # wt[j]}

WalkCall(wt) ==
    /\ phase = "idle"
    /\ result' = <<"walk", wt, Walk(tree, wt)>>
    /\ UNCHANGED <<tree, members, phase, arg, cn, up>>
-----------------------------------------------------------------------------
AvlInit ==
    /\ tree = NoTree
    /\ members = {}
    /\ phase = "idle"
    /\ arg = 0
    /\ cn = Nil
    /\ up = Nil
    /\ result = <<"none", 0, 0>>

AvlNext ==
    \/ \E k \in Node : InsertCall(k) \/ RemoveCall(k)
    \/ InsertDown \/ InsertRefused \/ InsertLink
    \/ SubstituteDown \/ Substitute
    \/ BalanceTurn \/ BalanceEnd
    \/ \E p \in Probes : LookupCall(p)
    \/ LookupDown \/ LookupEnd
    \/ \E wt \in Orders : WalkCall(wt)

AvlSpec == AvlInit /\ [][AvlNext]_avlVars
-----------------------------------------------------------------------------
(* Properties.                                                             *)

Fathered(n) ==
    /\ \A c \in {tree.lc[n], tree.rc[n]} \ {Nil} : tree.f[c] = n
    /\ tree.f[n] = Nil <=> tree.root = n

\* After any insertions and removals the father links agree with the child
\* links, the stored heights are the real ones, and no node is out of
\* balance: the early end of the walk in avl_ab() never leaves a node behind
\* that it should have turned.
AvlBalanced ==
    phase # "balance" => \A n \in members :
        /\ Fathered(n)
        /\ Rfh(tree, n) = tree
        /\ Inbf(tree, n) \in -1 .. 1

\* The tree is a set of ranges, as a caller sees it: avl_insert() refuses
\* exactly what overlaps, avl_lkup() finds the node that covers an address
\* whenever there is one, and avl_walk() visits each once, in order.
Set == INSTANCE RangeSet WITH contents <- members, answer <- result

AvlIsSet == Set!RangeSetSpec
=============================================================================
