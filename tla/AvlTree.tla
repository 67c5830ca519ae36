------------------------------- MODULE AvlTree -------------------------------
(***************************************************************************)
(* The links of the balanced trees of lib/avl/avl.c.  Nodes are embedded in *)
(* the caller's structures, so a tree is the value of the link fields of   *)
(* all nodes and of the root pointer.                                      *)
(***************************************************************************)
EXTENDS Integers, Sequences

CONSTANTS
    Node,           \* the nodes a tree may consist of
    Nil             \* the null pointer

ASSUME NodeAssumption == Nil \notin Node

NoTree == [root  |-> Nil,
           f     |-> [n \in Node |-> Nil],
           lc    |-> [n \in Node |-> Nil],
           rc    |-> [n \in Node |-> Nil],
           subth |-> [n \in Node |-> 0]]

Subth(t, n) == IF n = Nil THEN 0 ELSE t.subth[n]

\* avl_inbf(), avl_rfh(): rfh() also says whether the walk upwards goes on.
Inbf(t, n) == Subth(t, t.lc[n]) - Subth(t, t.rc[n])

Rfh(t, n) ==
    [t EXCEPT !.subth[n] = 1 + Subth(t, IF Inbf(t, n) > 0 THEN t.lc[n] ELSE t.rc[n])]

NeedsAb(t, n) == Inbf(t, n) \notin -1 .. 1 \/ Rfh(t, n) # t

SetFather(t, n, up) == IF n = Nil THEN t ELSE [t EXCEPT !.f[n] = up]

\* The pointer that refers to node n, whose father is up, refers to m.
Relink(t, up, n, m) ==
    CASE up = Nil                     -> [t EXCEPT !.root = m]
      [] up # Nil /\ t.lc[up] = n     -> [t EXCEPT !.lc[up] = m]
      [] OTHER                        -> [t EXCEPT !.rc[up] = m]

\* avl_lr() and avl_rr(), on the pointer that refers to r.
\* Mutant: the inner subtree keeps its old father.
LrKeepsFather(t, r) ==
    LET c == t.rc[r]
        u == [t EXCEPT !.f[c] = t.f[r], !.f[r] = c, !.rc[r] = t.lc[c]]
        v == [Rfh(u, r) EXCEPT !.lc[c] = r]
    IN  Relink(Rfh(v, c), t.f[r], r, c)

Lr(t, r) ==
    LET c == t.rc[r]
        u == [t EXCEPT !.f[c] = t.f[r], !.f[r] = c, !.rc[r] = t.lc[c]]
        v == [Rfh(SetFather(u, u.rc[r], r), r) EXCEPT !.lc[c] = r]
    IN  Relink(Rfh(v, c), t.f[r], r, c)

Rr(t, r) ==
    LET c == t.lc[r]
        u == [t EXCEPT !.f[c] = t.f[r], !.f[r] = c, !.lc[r] = t.rc[c]]
        v == [Rfh(SetFather(u, u.lc[r], r), r) EXCEPT !.rc[c] = r]
    IN  Relink(Rfh(v, c), t.f[r], r, c)

\* One turn of the loop of avl_ab().
Turned(t, n) ==
    CASE Inbf(t, n) < -1 -> Lr(IF Inbf(t, t.rc[n]) > 0 THEN Rr(t, t.rc[n]) ELSE t, n)
      [] Inbf(t, n) > 1  -> Rr(IF Inbf(t, t.lc[n]) < 0 THEN Lr(t, t.lc[n]) ELSE t, n)
      [] OTHER           -> t

\* What avl_insert() does with its new node n, at the place the search has
\* found: below up, on the right or on the left.
Linked(t, n, up, right) ==
    LET u == [t EXCEPT !.f[n] = up, !.lc[n] = Nil, !.rc[n] = Nil, !.subth[n] = 1]
    IN  CASE up = Nil  -> [u EXCEPT !.root = n]
          [] up # Nil /\ right  -> [u EXCEPT !.rc[up] = n]
          [] OTHER     -> [u EXCEPT !.lc[up] = n]

\* avl_ndcut(): n has one child at most.
Ndcut(t, n) ==
    LET nc == IF t.lc[n] = Nil THEN t.rc[n] ELSE t.lc[n]
    IN  Relink(SetFather(t, nc, t.f[n]), t.f[n], n, nc)

\* m, already cut, with the links of n.
Seated(t, n, m) ==
    LET u == [t EXCEPT !.f[m] = t.f[n], !.lc[m] = t.lc[n], !.rc[m] = t.rc[n],
                       !.subth[m] = t.subth[n]]
    IN  Relink(SetFather(SetFather(u, u.lc[m], m), u.rc[m], m), t.f[n], n, m)

\* Nothing reads the links of a node outside of the tree.
Cleared(t, n) ==
    [t EXCEPT !.f[n] = Nil, !.lc[n] = Nil, !.rc[n] = Nil, !.subth[n] = 0]

\* avl_walk() from node n in the order wt, with an operation that never returns
\* -1; a node of height one is visited alone. below is what the calls for the
\* children do.
WalkOnce(t, wt, below, n) ==
    LET part(x) == CASE x = "L" -> below[t.lc[n]]
                     [] x = "R" -> below[t.rc[n]]
                     [] OTHER   -> <<n>>
    IN  IF n = Nil THEN <<>>
        ELSE IF t.subth[n] = 1 THEN <<n>>
        ELSE part(wt[1]) \o part(wt[2]) \o part(wt[3])

\* Calls nest as deep as the tree is high.
Walk(t, wt) ==
    LET from[h \in Nat] ==
            IF h = 0 THEN [n \in Node \union {Nil} |-> <<>>]
            ELSE [n \in Node \union {Nil} |-> WalkOnce(t, wt, from[h - 1], n)]
    IN  from[Subth(t, t.root)][t.root]
=============================================================================
