----------------------------- MODULE AvlProofs -----------------------------
(***************************************************************************)
(* The trees of lib/avl/avl.c: between two steps of a call a tree has its  *)
(* shape, its nodes are in order, and the heights are right but where      *)
(* avl_ab() is on its way to; so each step of a call is a step of a set of *)
(* ranges.                                                                 *)
(*                                                                         *)
(* The shape of a tree is stated without recursion: D says of each node    *)
(* what hangs below it.  Each operation is shown to give a D for what it   *)
(* makes of the tree.  What turns to the right is what turns to the left   *)
(* in a mirror, where the order of the nodes is reversed.                  *)
(***************************************************************************)
EXTENDS Avl, DataLemmas

\* What a link points to.
Places == Node \union {Nil}

\* The memory of a tree and of its nodes, whatever the links are.
Trees == [root : Places, f : [Node -> Places], lc : [Node -> Places],
          rc : [Node -> Places], subth : [Node -> Nat]]

Higher(a, b) == IF a > b THEN a ELSE b

\* The proofs about one side are those about the other in a mirror: the order
\* of the nodes is a parameter, and so is which link is which.
Order(O) ==
    /\ O \subseteq Node \X Node
    /\ \A x \in Node : <<x, x>> \notin O
    /\ \A x, y, z \in Node : <<x, y>> \in O /\ <<y, z>> \in O => <<x, z>> \in O

Back(O) == {p \in Node \X Node : <<p[2], p[1]>> \in O}

Mirror(t) == [root |-> t.root, f |-> t.f, lc |-> t.rc, rc |-> t.lc, subth |-> t.subth]

\* D[n] is what hangs below n, n included; node n of the tree t of the nodes M.
Hangs(t, M, D, O, n) ==
    /\ t.lc[n] \in M \union {Nil} /\ t.rc[n] \in M \union {Nil} /\ t.f[n] \in M \union {Nil}
    /\ D[n] = {n} \union D[t.lc[n]] \union D[t.rc[n]]
    /\ \A x \in D[t.lc[n]] : <<x, n>> \in O
    /\ \A x \in D[t.rc[n]] : <<n, x>> \in O
    /\ t.lc[n] # Nil => t.f[t.lc[n]] = n
    /\ t.rc[n] # Nil => t.f[t.rc[n]] = n
    /\ t.f[n] = Nil <=> t.root = n
    /\ t.f[n] # Nil => n = t.lc[t.f[n]] \/ n = t.rc[t.f[n]]

\* t is a tree of the nodes M, in the order O.
Shape(t, M, D, O) ==
    /\ t \in Trees
    /\ M \subseteq Node
    /\ D \in [Places -> SUBSET M]
    /\ D[Nil] = {}
    /\ t.root \in M \union {Nil}
    /\ D[t.root] = M
    /\ \A n \in M : Hangs(t, M, D, O, n)

LEMMA TreeParts ==
    ASSUME NEW t \in Trees
    PROVE  /\ t.root \in Places /\ t.f \in [Node -> Places] /\ t.lc \in [Node -> Places]
           /\ t.rc \in [Node -> Places] /\ t.subth \in [Node -> Nat]
           /\ \A n \in Node : /\ t.f[n] \in Places /\ t.lc[n] \in Places
                              /\ t.rc[n] \in Places /\ t.subth[n] \in Nat
           /\ \A n \in Places : Subth(t, n) \in Nat
BY DEF Trees, Places, Subth

LEMMA MirrorTree ==
    ASSUME NEW t \in Trees
    PROVE  /\ Mirror(t) \in Trees
           /\ Mirror(Mirror(t)) = t
           /\ Mirror(t).root = t.root /\ Mirror(t).f = t.f /\ Mirror(t).lc = t.rc
           /\ Mirror(t).rc = t.lc /\ Mirror(t).subth = t.subth
           /\ \A n : Subth(Mirror(t), n) = Subth(t, n)
BY DEF Mirror, Trees, Subth

LEMMA MirrorOrder ==
    ASSUME NEW O, Order(O)
    PROVE  Order(Back(O)) /\ Back(Back(O)) = O
BY DEF Order, Back

LEMMA MirrorShape ==
    ASSUME NEW t, NEW M, NEW D, NEW O, Shape(t, M, D, O)
    PROVE  Shape(Mirror(t), M, D, Back(O))
<1>1. /\ Mirror(t) \in Trees
      /\ Mirror(t).root = t.root /\ Mirror(t).f = t.f /\ Mirror(t).lc = t.rc
      /\ Mirror(t).rc = t.lc
  BY MirrorTree DEF Shape
<1>2. \A x, y \in Node : <<x, y>> \in O => <<y, x>> \in Back(O)
  BY DEF Back
<1>3. ASSUME NEW n \in M PROVE Hangs(Mirror(t), M, D, Back(O), n)
  <2>1. Hangs(t, M, D, O, n) /\ n \in Node /\ M \subseteq Node
    BY DEF Shape
  <2>2. D[t.lc[n]] \subseteq Node /\ D[t.rc[n]] \subseteq Node
    BY <2>1 DEF Hangs, Shape, Places
  <2> QED
    BY <1>1, <1>2, <2>1, <2>2 DEF Hangs
<1> QED
  BY <1>1, <1>3 DEF Shape

\* Where the nodes around r and its child c are.
Around(t, r, c) ==
    /\ r \in Node /\ c \in Node /\ c = t.rc[r] /\ c # r
    /\ t.f[r] \notin {r, c} /\ t.lc[c] \notin {r, c} /\ t.rc[c] \notin {r, c}
    /\ t.lc[r] \notin {r, c} /\ t.f[c] = r
    /\ t.f[r] # Nil => \/ t.lc[t.f[r]] = r /\ t.rc[t.f[r]] # r
                       \/ t.lc[t.f[r]] # r /\ t.rc[t.f[r]] = r

LEMMA ShapeAround ==
    ASSUME NodeAssumption, NEW t, NEW M, NEW D, NEW O, Order(O), Shape(t, M, D, O),
           NEW r \in M, NEW c, c = t.rc[r], c # Nil
    PROVE  Around(t, r, c) /\ c \in M
<1>1. /\ r \in Node /\ c \in M /\ c \in Node /\ Hangs(t, M, D, O, r) /\ Hangs(t, M, D, O, c)
  BY DEF Shape, Hangs
<1>2. \A n \in M : n \in D[n] /\ n \in Node /\ <<n, n>> \notin O /\ Hangs(t, M, D, O, n)
  <2>1. \A n \in M : n \in Node /\ Hangs(t, M, D, O, n)
    BY DEF Shape
  <2>2. \A n \in M : n \in D[n]
    BY <2>1 DEF Hangs
  <2>3. \A n \in M : <<n, n>> \notin O
    BY <2>1 DEF Order
  <2> QED
    BY <2>1, <2>2, <2>3
<1>3. \A n \in M : /\ t.lc[n] # n /\ t.rc[n] # n
                   /\ t.lc[n] # Nil => <<t.lc[n], n>> \in O
                   /\ t.rc[n] # Nil => <<n, t.rc[n]>> \in O
  BY <1>2 DEF Hangs
<1>4. \A n \in M : t.lc[n] # Nil => t.lc[n] # t.rc[n]
  <2>1. \A x, y \in Node : ~(<<x, y>> \in O /\ <<y, x>> \in O)
    BY DEF Order
  <2> QED
    BY <1>2, <1>3, <2>1 DEF Hangs
<1>5. <<r, c>> \in O
  BY <1>3
<1>6. \A x, y \in Node : ~(<<x, y>> \in O /\ <<y, x>> \in O)
  BY DEF Order
<1>7. D[c] \subseteq D[r] /\ \A x \in D[c] : <<r, x>> \in O
  BY <1>1 DEF Hangs
<1>8. r \notin D[c]
  BY <1>2, <1>7
<1>9. \A x \in M : x = t.lc[c] \/ x = t.rc[c] => x \in D[c]
  BY <1>1, <1>2 DEF Hangs
<1>10. t.lc[c] \notin {r, c} /\ t.rc[c] \notin {r, c}
  BY <1>1, <1>3, <1>8, <1>9
<1>11. t.lc[r] \notin {r, c}
  BY <1>1, <1>3, <1>4
<1>12. t.f[r] \notin {r, c}
  <2>1. t.f[r] # r
    BY <1>1, <1>3, NodeAssumption DEF Hangs
  <2>2. t.f[r] # c
    BY <1>1, <1>10, NodeAssumption DEF Hangs
  <2> QED
    BY <2>1, <2>2
<1>13. t.f[r] # Nil => \/ t.lc[t.f[r]] = r /\ t.rc[t.f[r]] # r
                       \/ t.lc[t.f[r]] # r /\ t.rc[t.f[r]] = r
  <2>1. t.f[r] # Nil => t.f[r] \in M
    BY <1>1 DEF Hangs
  <2>2. r # Nil
    BY <1>1, NodeAssumption
  <2> QED
    BY <1>1, <1>4, <2>1, <2>2 DEF Hangs
<1>14. t.f[c] = r
  BY <1>1 DEF Hangs
<1> QED
  BY <1>1, <1>3, <1>10, <1>11, <1>12, <1>13, <1>14 DEF Around
-----------------------------------------------------------------------------
(* What the operations on links do, link by link.                          *)

LEMMA RfhIs ==
    ASSUME NodeAssumption, NEW t \in Trees, NEW n \in Node
    PROVE  /\ Rfh(t, n) \in Trees
           /\ Rfh(t, n) = [t EXCEPT !.subth[n] =
                              1 + Higher(Subth(t, t.lc[n]), Subth(t, t.rc[n]))]
           /\ Rfh(t, n).root = t.root /\ Rfh(t, n).f = t.f /\ Rfh(t, n).lc = t.lc
           /\ Rfh(t, n).rc = t.rc
           /\ \A m \in Node : Rfh(t, n).subth[m] =
                 IF m = n THEN 1 + Higher(Subth(t, t.lc[n]), Subth(t, t.rc[n]))
                 ELSE t.subth[m]
<1>1. Subth(t, t.lc[n]) \in Nat /\ Subth(t, t.rc[n]) \in Nat
  BY TreeParts
<1>2. Subth(t, IF Inbf(t, n) > 0 THEN t.lc[n] ELSE t.rc[n])
        = Higher(Subth(t, t.lc[n]), Subth(t, t.rc[n]))
  BY <1>1 DEF Inbf, Higher
<1>3. PICK h : h = 1 + Higher(Subth(t, t.lc[n]), Subth(t, t.rc[n]))
  OBVIOUS
<1>4. h \in Nat
  BY <1>1, <1>3 DEF Higher
<1>5. Rfh(t, n) = [t EXCEPT !.subth[n] = h]
  BY <1>2, <1>3 DEF Rfh
<1>6. PICK u : u = [t EXCEPT !.subth[n] = h]
  OBVIOUS
<1>7. /\ u \in Trees /\ u.root = t.root /\ u.f = t.f /\ u.lc = t.lc /\ u.rc = t.rc
      /\ \A m \in Node : u.subth[m] = IF m = n THEN h ELSE t.subth[m]
  BY ONLY <1>4, <1>6, t \in Trees, n \in Node DEF Trees
<1> QED
  BY <1>3, <1>5, <1>6, <1>7

\* What p had for n, it has for m.
Swung(t, u, p, n, m) ==
    /\ u \in Trees
    /\ u.root = IF p = Nil THEN m ELSE t.root
    /\ u.f = t.f /\ u.subth = t.subth
    /\ \A x \in Node : u.lc[x] = IF x = p /\ t.lc[x] = n THEN m ELSE t.lc[x]
    /\ \A x \in Node : u.rc[x] = IF x = p /\ t.lc[x] # n THEN m ELSE t.rc[x]

LEMMA RelinkIs ==
    ASSUME NodeAssumption, NEW t \in Trees, NEW p \in Places, NEW n, NEW m \in Places
    PROVE  Swung(t, Relink(t, p, n, m), p, n, m)
<1>1. PICK u : u = Relink(t, p, n, m)
  OBVIOUS
<1>2. CASE p = Nil
  <2>1. u = [t EXCEPT !.root = m]
    BY <1>1, <1>2 DEF Relink
  <2>2. u \in Trees /\ u.root = m /\ u.f = t.f /\ u.subth = t.subth /\ u.lc = t.lc /\ u.rc = t.rc
    BY ONLY <2>1, t \in Trees, m \in Places DEF Trees
  <2>3. \A x \in Node : x # p
    BY <1>2, NodeAssumption
  <2> QED
    BY <1>1, <1>2, <2>2, <2>3 DEF Swung
<1>3. CASE p # Nil /\ t.lc[p] = n
  <2>0. p \in Node
    BY <1>3 DEF Places
  <2>1. u = [t EXCEPT !.lc[p] = m]
    BY <1>1, <1>3 DEF Relink
  <2>2. /\ u \in Trees /\ u.root = t.root /\ u.f = t.f /\ u.subth = t.subth /\ u.rc = t.rc
        /\ \A x \in Node : u.lc[x] = IF x = p THEN m ELSE t.lc[x]
    BY ONLY <2>0, <2>1, t \in Trees, m \in Places DEF Trees
  <2> QED
    BY <1>1, <1>3, <2>2 DEF Swung
<1>4. CASE p # Nil /\ t.lc[p] # n
  <2>0. p \in Node
    BY <1>4 DEF Places
  <2>1. u = [t EXCEPT !.rc[p] = m]
    BY <1>1, <1>4 DEF Relink
  <2>2. /\ u \in Trees /\ u.root = t.root /\ u.f = t.f /\ u.subth = t.subth /\ u.lc = t.lc
        /\ \A x \in Node : u.rc[x] = IF x = p THEN m ELSE t.rc[x]
    BY ONLY <2>0, <2>1, t \in Trees, m \in Places DEF Trees
  <2> QED
    BY <1>1, <1>4, <2>2 DEF Swung
<1> QED
  BY <1>2, <1>3, <1>4

\* Node n, if there is one, has the father p.
Refathered(t, u, n, p) ==
    /\ u \in Trees
    /\ u.root = t.root /\ u.lc = t.lc /\ u.rc = t.rc /\ u.subth = t.subth
    /\ \A x \in Node : u.f[x] = IF x = n THEN p ELSE t.f[x]

LEMMA SetFatherIs ==
    ASSUME NodeAssumption, NEW t \in Trees, NEW n \in Places, NEW p \in Places
    PROVE  Refathered(t, SetFather(t, n, p), n, p)
<1>1. CASE n = Nil
  BY <1>1, NodeAssumption DEF SetFather, Refathered
<1>2. CASE n # Nil
  <2>1. n \in Node
    BY <1>2 DEF Places
  <2>2. PICK u : u = [t EXCEPT !.f[n] = p]
    OBVIOUS
  <2>3. /\ u \in Trees /\ u.root = t.root /\ u.lc = t.lc /\ u.rc = t.rc /\ u.subth = t.subth
        /\ \A x \in Node : u.f[x] = IF x = n THEN p ELSE t.f[x]
    BY ONLY <2>1, <2>2, t \in Trees, p \in Places DEF Trees
  <2>4. SetFather(t, n, p) = u
    BY <1>2, <2>2 DEF SetFather
  <2> QED
    BY <2>3, <2>4 DEF Refathered
<1> QED
  BY <1>1, <1>2

\* A rotation that puts c, on the right of r, in the place of r.
Rotated(t, u, r, c) ==
    /\ u \in Trees
    /\ u.root = IF t.f[r] = Nil THEN c ELSE t.root
    /\ \A x \in Node : u.f[x] = IF x = c THEN t.f[r] ELSE IF x = r THEN c
                                ELSE IF x = t.lc[c] THEN r ELSE t.f[x]
    /\ \A x \in Node : u.lc[x] = IF x = c THEN r
                                 ELSE IF x = t.f[r] /\ t.lc[x] = r THEN c ELSE t.lc[x]
    /\ \A x \in Node : u.rc[x] = IF x = r THEN t.lc[c]
                                 ELSE IF x = t.f[r] /\ t.rc[x] = r THEN c ELSE t.rc[x]
    /\ \A x \in Node \ {r, c} : u.subth[x] = t.subth[x]
    /\ u.subth[r] = 1 + Higher(Subth(t, t.lc[r]), Subth(t, t.lc[c]))
    /\ u.subth[c] = 1 + Higher(u.subth[r], Subth(t, t.rc[c]))

LEMMA LrIs ==
    ASSUME NodeAssumption, NEW t \in Trees, NEW r, NEW c, Around(t, r, c)
    PROVE  Rotated(t, Lr(t, r), r, c)
<1>a. PICK p, b : p = t.f[r] /\ b = t.lc[c]
  OBVIOUS
<1>0. /\ r \in Node /\ c \in Node /\ c = t.rc[r] /\ c # r /\ p \in Places /\ b \in Places
      /\ p \notin {r, c} /\ b \notin {r, c} /\ t.rc[c] \notin {r, c} /\ t.lc[r] \notin {r, c}
  BY <1>a, TreeParts DEF Around
<1>1. PICK u : u = [t EXCEPT !.f[c] = p, !.f[r] = c, !.rc[r] = b]
  OBVIOUS
<1>2. /\ u \in Trees /\ u.root = t.root /\ u.lc = t.lc /\ u.subth = t.subth
      /\ \A x \in Node : u.f[x] = IF x = r THEN c ELSE IF x = c THEN p ELSE t.f[x]
      /\ \A x \in Node : u.rc[x] = IF x = r THEN b ELSE t.rc[x]
  <2>1. PICK u1 : u1 = [t EXCEPT !.f[c] = p]
    OBVIOUS
  <2>2. /\ u1 \in Trees /\ u1.root = t.root /\ u1.lc = t.lc /\ u1.rc = t.rc /\ u1.subth = t.subth
        /\ \A x \in Node : u1.f[x] = IF x = c THEN p ELSE t.f[x]
    BY ONLY <1>0, <2>1, t \in Trees DEF Trees
  <2>3. PICK u2 : u2 = [u1 EXCEPT !.f[r] = c]
    OBVIOUS
  <2>4. /\ u2 \in Trees /\ u2.root = u1.root /\ u2.lc = u1.lc /\ u2.rc = u1.rc
        /\ u2.subth = u1.subth
        /\ \A x \in Node : u2.f[x] = IF x = r THEN c ELSE u1.f[x]
    BY ONLY <1>0, <2>2, <2>3 DEF Trees, Places
  <2>5. u = [u2 EXCEPT !.rc[r] = b]
    BY <1>1, <2>1, <2>3
  <2>6. /\ u \in Trees /\ u.root = u2.root /\ u.lc = u2.lc /\ u.f = u2.f /\ u.subth = u2.subth
        /\ \A x \in Node : u.rc[x] = IF x = r THEN b ELSE u2.rc[x]
    BY ONLY <1>0, <2>4, <2>5 DEF Trees
  <2> QED
    BY <2>2, <2>4, <2>6
<1>3. u.rc[r] = b
  BY <1>0, <1>2
<1>4. PICK u3 : u3 = SetFather(u, b, r)
  OBVIOUS
<1>5. /\ u3 \in Trees /\ u3.root = u.root /\ u3.lc = u.lc /\ u3.rc = u.rc /\ u3.subth = u.subth
      /\ \A x \in Node : u3.f[x] = IF x = b THEN r ELSE u.f[x]
  <2>1. r \in Places
    BY <1>0 DEF Places
  <2>2. Refathered(u, u3, b, r)
    BY <1>0, <1>2, <1>4, <2>1, SetFatherIs
  <2> QED
    BY <2>2 DEF Refathered
<1>6. PICK u4 : u4 = Rfh(u3, r)
  OBVIOUS
<1>7. /\ u4 \in Trees /\ u4.root = u3.root /\ u4.f = u3.f /\ u4.lc = u3.lc /\ u4.rc = u3.rc
      /\ \A m \in Node : u4.subth[m] =
            IF m = r THEN 1 + Higher(Subth(u3, u3.lc[r]), Subth(u3, u3.rc[r])) ELSE u3.subth[m]
  BY <1>0, <1>5, <1>6, RfhIs
<1>8. PICK v : v = [u4 EXCEPT !.lc[c] = r]
  OBVIOUS
<1>9. /\ v \in Trees /\ v.root = u4.root /\ v.f = u4.f /\ v.rc = u4.rc /\ v.subth = u4.subth
      /\ \A x \in Node : v.lc[x] = IF x = c THEN r ELSE u4.lc[x]
  BY ONLY <1>0, <1>7, <1>8 DEF Trees, Places
<1>10. PICK w : w = Rfh(v, c)
  OBVIOUS
<1>11. /\ w \in Trees /\ w.root = v.root /\ w.f = v.f /\ w.lc = v.lc /\ w.rc = v.rc
       /\ \A m \in Node : w.subth[m] =
             IF m = c THEN 1 + Higher(Subth(v, v.lc[c]), Subth(v, v.rc[c])) ELSE v.subth[m]
  BY <1>0, <1>9, <1>10, RfhIs
<1>12. PICK z : z = Relink(w, p, r, c)
  OBVIOUS
<1>13. Swung(w, z, p, r, c)
  BY <1>0, <1>11, <1>12, RelinkIs DEF Places
<1>14. Lr(t, r) = z
  BY <1>0, <1>1, <1>3, <1>4, <1>6, <1>8, <1>10, <1>12, <1>a DEF Lr
<1>15. /\ w.root = t.root
       /\ \A x \in Node : w.f[x] = IF x = c THEN p ELSE IF x = r THEN c
                                   ELSE IF x = b THEN r ELSE t.f[x]
       /\ \A x \in Node : w.lc[x] = IF x = c THEN r ELSE t.lc[x]
       /\ \A x \in Node : w.rc[x] = IF x = r THEN b ELSE t.rc[x]
  BY <1>0, <1>2, <1>5, <1>7, <1>9, <1>11
<1>16. Nil # r /\ Nil # c
  BY <1>0, NodeAssumption
<1>17. Subth(u3, u3.lc[r]) = Subth(t, t.lc[r]) /\ Subth(u3, u3.rc[r]) = Subth(t, b)
  BY <1>0, <1>2, <1>5 DEF Subth
<1>18. /\ w.subth[r] = 1 + Higher(Subth(t, t.lc[r]), Subth(t, b))
       /\ \A x \in Node \ {r, c} : w.subth[x] = t.subth[x]
       /\ v.subth[r] = w.subth[r]
       /\ \A x \in Node \ {r} : v.subth[x] = t.subth[x]
  BY <1>0, <1>2, <1>5, <1>7, <1>9, <1>11, <1>17
<1>19. Subth(v, v.lc[c]) = w.subth[r] /\ Subth(v, v.rc[c]) = Subth(t, t.rc[c])
  <2>1. v.lc[c] = r /\ v.rc[c] = t.rc[c]
    BY <1>0, <1>2, <1>5, <1>7, <1>9
  <2>2. t.rc[c] \in Places /\ t.rc[c] # r
    BY <1>0, TreeParts
  <2> QED
    BY <1>0, <1>16, <1>18, <2>1, <2>2 DEF Subth, Places
<1>20. w.subth[c] = 1 + Higher(w.subth[r], Subth(t, t.rc[c]))
  BY <1>0, <1>11, <1>19
<1>21. z.root = IF p = Nil THEN c ELSE t.root
  BY <1>13, <1>15 DEF Swung
<1>22. \A x \in Node : z.lc[x] = IF x = c THEN r
                                 ELSE IF x = p /\ t.lc[x] = r THEN c ELSE t.lc[x]
  <2>1. \A x \in Node : z.lc[x] = IF x = p /\ w.lc[x] = r THEN c ELSE w.lc[x]
    BY <1>13 DEF Swung
  <2> QED
    BY ONLY <1>0, <1>15, <2>1
<1>23. \A x \in Node : z.rc[x] = IF x = r THEN b
                                 ELSE IF x = p /\ t.rc[x] = r THEN c ELSE t.rc[x]
  <2>1. p # Nil => (t.lc[p] # r <=> t.rc[p] = r)
    BY <1>a DEF Around
  <2>2. \A x \in Node : x = p => p # Nil /\ w.lc[p] = t.lc[p]
    BY <1>0, <1>15, NodeAssumption
  <2>3. \A x \in Node : z.rc[x] = IF x = p /\ w.lc[x] # r THEN c ELSE w.rc[x]
    BY <1>13 DEF Swung
  <2>4. \A x \in Node : x = p => (w.lc[x] # r <=> t.rc[x] = r)
    BY <2>1, <2>2
  <2> QED
    BY ONLY <1>0, <1>15, <2>3, <2>4
<1> QED
  BY <1>13, <1>14, <1>15, <1>18, <1>20, <1>21, <1>22, <1>23, <1>a DEF Rotated, Swung

\* avl_rr() is avl_lr() in the mirror.
LEMMA MirrorRfh ==
    ASSUME NodeAssumption, NEW t \in Trees, NEW n \in Node
    PROVE  Rfh(Mirror(t), n) = Mirror(Rfh(t, n))
<1>1. Mirror(t) \in Trees
  BY MirrorTree
<1>a. PICK m : m = Mirror(t)
  OBVIOUS
<1>2. /\ m.lc = t.rc /\ m.rc = t.lc /\ m.subth = t.subth /\ m.root = t.root /\ m.f = t.f
      /\ \A x : Subth(m, x) = Subth(t, x)
  BY <1>a, MirrorTree
<1>3. PICK h : h = 1 + Higher(Subth(t, t.lc[n]), Subth(t, t.rc[n]))
  OBVIOUS
<1>4. 1 + Higher(Subth(m, m.lc[n]), Subth(m, m.rc[n])) = h
  <2>1. Subth(t, t.lc[n]) \in Nat /\ Subth(t, t.rc[n]) \in Nat
    BY TreeParts
  <2> QED
    BY <1>2, <1>3, <2>1 DEF Higher
<1>5. Rfh(m, n) = [m EXCEPT !.subth[n] = h]
  BY <1>1, <1>4, <1>a, RfhIs
<1>6. Rfh(t, n) = [t EXCEPT !.subth[n] = h]
  BY <1>3, RfhIs
<1>7. [Mirror(t) EXCEPT !.subth[n] = h] = Mirror([t EXCEPT !.subth[n] = h])
  BY DEF Mirror, Trees
<1> QED
  BY <1>5, <1>6, <1>7, <1>a

LEMMA MirrorSetFather ==
    ASSUME NEW t \in Trees, NEW n, NEW p
    PROVE  SetFather(Mirror(t), n, p) = Mirror(SetFather(t, n, p))
BY DEF Mirror, Trees, SetFather

LEMMA MirrorRelink ==
    ASSUME NEW t \in Trees, NEW p, NEW n, NEW m,
           p # Nil => (t.lc[p] = n <=> t.rc[p] # n)
    PROVE  Relink(Mirror(t), p, n, m) = Mirror(Relink(t, p, n, m))
<1>1. CASE p = Nil
  BY <1>1 DEF Mirror, Trees, Relink
<1>2. CASE p # Nil /\ t.lc[p] = n
  <2>1. Relink(t, p, n, m) = [t EXCEPT !.lc[p] = m]
    BY <1>2 DEF Relink
  <2>2. Relink(Mirror(t), p, n, m) = [Mirror(t) EXCEPT !.rc[p] = m]
    BY <1>2, MirrorTree DEF Relink
  <2>3. [Mirror(t) EXCEPT !.rc[p] = m] = Mirror([t EXCEPT !.lc[p] = m])
    BY DEF Mirror, Trees
  <2> QED
    BY <2>1, <2>2, <2>3
<1>3. CASE p # Nil /\ t.lc[p] # n
  <2>1. Relink(t, p, n, m) = [t EXCEPT !.rc[p] = m]
    BY <1>3 DEF Relink
  <2>2. Relink(Mirror(t), p, n, m) = [Mirror(t) EXCEPT !.lc[p] = m]
    BY <1>3, MirrorTree DEF Relink
  <2>3. [Mirror(t) EXCEPT !.lc[p] = m] = Mirror([t EXCEPT !.rc[p] = m])
    BY DEF Mirror, Trees
  <2> QED
    BY <2>1, <2>2, <2>3
<1> QED
  BY <1>1, <1>2, <1>3

LEMMA RrIs ==
    ASSUME NodeAssumption, NEW t \in Trees, NEW r, NEW c, Around(Mirror(t), r, c)
    PROVE  Rr(t, r) \in Trees /\ Rotated(Mirror(t), Mirror(Rr(t, r)), r, c)
<1>m. PICK m : m = Mirror(t)
  OBVIOUS
<1>n. /\ m \in Trees /\ m.root = t.root /\ m.f = t.f /\ m.lc = t.rc /\ m.rc = t.lc
      /\ m.subth = t.subth
  BY <1>m, MirrorTree
<1>a. PICK p, b : p = t.f[r] /\ b = t.rc[c]
  OBVIOUS
<1>0. /\ r \in Node /\ c \in Node /\ c = t.lc[r] /\ c # r /\ p \in Places /\ b \in Places
      /\ p \notin {r, c} /\ b \notin {r, c}
      /\ p # Nil => (t.lc[p] = r <=> t.rc[p] # r)
  BY <1>a, <1>m, <1>n, TreeParts DEF Around
<1>1. PICK u : u = [t EXCEPT !.f[c] = p, !.f[r] = c, !.lc[r] = b]
  OBVIOUS
<1>2. /\ u \in Trees /\ u.rc = t.rc /\ u.lc[r] = b
      /\ \A x \in Node : x # r => u.lc[x] = t.lc[x]
      /\ Mirror(u) = [m EXCEPT !.f[c] = p, !.f[r] = c, !.rc[r] = b]
  <2>1. PICK u1 : u1 = [t EXCEPT !.f[c] = p]
    OBVIOUS
  <2>2. /\ u1 \in Trees /\ u1.lc = t.lc /\ u1.rc = t.rc
        /\ Mirror(u1) = [m EXCEPT !.f[c] = p]
    BY ONLY <1>0, <1>m, <2>1, t \in Trees DEF Trees, Mirror
  <2>3. PICK u2 : u2 = [u1 EXCEPT !.f[r] = c]
    OBVIOUS
  <2>4. /\ u2 \in Trees /\ u2.lc = u1.lc /\ u2.rc = u1.rc
        /\ Mirror(u2) = [Mirror(u1) EXCEPT !.f[r] = c]
    BY ONLY <1>0, <2>2, <2>3 DEF Trees, Places, Mirror
  <2>5. u = [u2 EXCEPT !.lc[r] = b]
    BY <1>1, <2>1, <2>3
  <2>6. /\ u \in Trees /\ u.rc = u2.rc
        /\ \A x \in Node : u.lc[x] = IF x = r THEN b ELSE u2.lc[x]
        /\ Mirror(u) = [Mirror(u2) EXCEPT !.rc[r] = b]
    BY ONLY <1>0, <2>4, <2>5 DEF Trees, Mirror
  <2>7. Mirror(u) = [m EXCEPT !.f[c] = p, !.f[r] = c, !.rc[r] = b]
    BY <2>2, <2>4, <2>6
  <2> QED
    BY <1>0, <2>2, <2>4, <2>6, <2>7
<1>3. Mirror(u).rc[r] = b
  BY <1>2, MirrorTree
<1>4. PICK u3 : u3 = SetFather(u, b, r)
  OBVIOUS
<1>5. u3 \in Trees /\ u3.lc = u.lc /\ u3.rc = u.rc
  <2>1. r \in Places
    BY <1>0 DEF Places
  <2>2. Refathered(u, u3, b, r)
    BY <1>0, <1>2, <1>4, <2>1, SetFatherIs
  <2> QED
    BY <2>2 DEF Refathered
<1>6. SetFather(Mirror(u), b, r) = Mirror(u3)
  BY <1>2, <1>4, MirrorSetFather
<1>7. PICK u4 : u4 = Rfh(u3, r)
  OBVIOUS
<1>8. u4 \in Trees /\ u4.lc = u3.lc /\ u4.rc = u3.rc
  BY <1>0, <1>5, <1>7, RfhIs
<1>9. Rfh(Mirror(u3), r) = Mirror(u4)
  BY <1>0, <1>5, <1>7, MirrorRfh
<1>10. PICK v : v = [u4 EXCEPT !.rc[c] = r]
  OBVIOUS
<1>11. /\ v \in Trees /\ v.lc = u4.lc
       /\ \A x \in Node : x # c => v.rc[x] = u4.rc[x]
       /\ Mirror(v) = [Mirror(u4) EXCEPT !.lc[c] = r]
  BY ONLY <1>0, <1>8, <1>10 DEF Trees, Places, Mirror
<1>12. PICK w : w = Rfh(v, c)
  OBVIOUS
<1>13. w \in Trees /\ w.lc = v.lc /\ w.rc = v.rc
  BY <1>0, <1>11, <1>12, RfhIs
<1>14. Rfh(Mirror(v), c) = Mirror(w)
  BY <1>0, <1>11, <1>12, MirrorRfh
<1>15. p # Nil => (w.lc[p] = r <=> w.rc[p] # r)
  BY <1>0, <1>2, <1>5, <1>8, <1>11, <1>13 DEF Places
<1>16. Relink(Mirror(w), p, r, c) = Mirror(Relink(w, p, r, c))
  BY <1>13, <1>15, MirrorRelink
<1>17. Rr(t, r) = Relink(w, p, r, c)
  BY <1>0, <1>1, <1>2, <1>4, <1>7, <1>10, <1>12, <1>a DEF Rr
<1>18. Lr(m, r) = Relink(Mirror(w), p, r, c)
  BY <1>0, <1>2, <1>3, <1>6, <1>9, <1>11, <1>14, <1>a, <1>n DEF Lr
<1>19. Rotated(m, Lr(m, r), r, c)
  BY <1>m, <1>n, LrIs
<1>20. Relink(w, p, r, c) \in Trees
  <2>1. c \in Places
    BY <1>0 DEF Places
  <2>2. Swung(w, Relink(w, p, r, c), p, r, c)
    BY <1>0, <1>13, <2>1, RelinkIs
  <2> QED
    BY <2>2 DEF Swung
<1> QED
  BY <1>16, <1>17, <1>18, <1>19, <1>20, <1>m
-----------------------------------------------------------------------------
(* A rotation keeps the shape.                                             *)

\* A rotation gives r what c had on its left, and c all that r had.
LEMMA RotationKeepsShape ==
    ASSUME NodeAssumption, NEW t, NEW M, NEW D, NEW O, Order(O), Shape(t, M, D, O),
           NEW r \in M, NEW c, c = t.rc[r], c # Nil, NEW u, Rotated(t, u, r, c),
           NEW E, E = [D EXCEPT ![r] = {r} \union D[t.lc[r]] \union D[t.lc[c]], ![c] = D[r]]
    PROVE  Shape(u, M, E, O)
<1>a. PICK a, b, d, p : a = t.lc[r] /\ b = t.lc[c] /\ d = t.rc[c] /\ p = t.f[r]
  OBVIOUS
<1>1. Around(t, r, c) /\ c \in M
  BY ShapeAround
<1>2. /\ t \in Trees /\ M \subseteq Node /\ D \in [Places -> SUBSET M] /\ D[Nil] = {}
      /\ t.root \in M \union {Nil} /\ D[t.root] = M
      /\ \A n \in M : Hangs(t, M, D, O, n)
  BY DEF Shape
<1>3. /\ r \in Node /\ c \in Node /\ c # r /\ {a, b, d, p} \intersect {r, c} = {}
      /\ a \in M \union {Nil} /\ b \in M \union {Nil} /\ d \in M \union {Nil}
      /\ p \in M \union {Nil} /\ t.f[c] = r
      /\ p # Nil => \/ t.lc[p] = r /\ t.rc[p] # r
                    \/ t.lc[p] # r /\ t.rc[p] = r
  BY <1>1, <1>2, <1>a DEF Around, Hangs
<1>4. r # Nil /\ c # Nil
  BY <1>3, NodeAssumption
<1>5. /\ E \in [Places -> SUBSET M]
      /\ \A n \in Places : n \notin {r, c} => E[n] = D[n]
      /\ E[r] = {r} \union D[a] \union D[b]
      /\ E[c] = D[r]
  BY <1>2, <1>3, <1>a DEF Places
<1>6. /\ D[r] = {r} \union D[a] \union D[c] /\ D[c] = {c} \union D[b] \union D[d]
      /\ \A x \in D[a] : <<x, r>> \in O
      /\ \A x \in D[c] : <<r, x>> \in O
      /\ \A x \in D[b] : <<x, c>> \in O
      /\ \A x \in D[d] : <<c, x>> \in O
      /\ a # Nil => t.f[a] = r
      /\ b # Nil => t.f[b] = c
      /\ d # Nil => t.f[d] = c
      /\ p = Nil <=> t.root = r
  BY <1>1, <1>2, <1>a DEF Hangs
<1>7. <<r, c>> \in O /\ \A x \in D[a] : <<x, c>> \in O
  <2>1. <<r, c>> \in O /\ \A x \in D[a] : x \in Node
    BY <1>2, <1>3, <1>6 DEF Places
  <2> QED
    BY <1>3, <1>6, <2>1 DEF Order
<1>8. \A n \in M : n \in Node /\ n # Nil /\ t.lc[n] \in Places /\ t.rc[n] \in Places
  BY <1>2, NodeAssumption DEF Hangs, Places
<1>9. /\ u \in Trees
      /\ u.root = IF p = Nil THEN c ELSE t.root
      /\ \A x \in Node : u.f[x] = IF x = c THEN p ELSE IF x = r THEN c
                                  ELSE IF x = b THEN r ELSE t.f[x]
      /\ \A x \in Node : u.lc[x] = IF x = c THEN r
                                   ELSE IF x = p /\ t.lc[x] = r THEN c ELSE t.lc[x]
      /\ \A x \in Node : u.rc[x] = IF x = r THEN b
                                   ELSE IF x = p /\ t.rc[x] = r THEN c ELSE t.rc[x]
  BY <1>a DEF Rotated
<1>10. u.root \in M \union {Nil} /\ E[u.root] = M
  <2>1. CASE p = Nil
    BY <1>1, <1>2, <1>5, <1>6, <1>9, <2>1
  <2>2. CASE p # Nil
    <3>1. t.root # r /\ t.root # c
      BY <1>1, <1>2, <1>3, <1>4, <1>6, <2>2 DEF Hangs
    <3> QED
      BY <1>2, <1>5, <1>9, <2>2, <3>1 DEF Places
  <2> QED
    BY <2>1, <2>2
<1>11. Hangs(u, M, E, O, r)
  <2>1. u.f[r] = c /\ u.lc[r] = a /\ u.rc[r] = b
    BY <1>3, <1>9, <1>a
  <2>2. E[a] = D[a] /\ E[b] = D[b]
    BY <1>3, <1>5, <1>2 DEF Places
  <2>3. \A x \in D[b] : <<r, x>> \in O
    BY <1>6
  <2>4. a # Nil => u.f[a] = r
    <3>1. a # Nil => a \in Node /\ a # b
      <4>1. a # Nil => a \in D[a] /\ <<a, r>> \in O
        BY <1>2, <1>3, <1>6 DEF Hangs
      <4>2. b # Nil => b \in D[c] /\ <<r, b>> \in O
        BY <1>2, <1>3, <1>6 DEF Hangs
      <4> QED
        BY <1>2, <1>3, <4>1, <4>2 DEF Order
    <3> QED
      BY <1>3, <1>6, <1>9, <3>1
  <2>5. b # Nil => u.f[b] = r
    BY <1>2, <1>3, <1>9
  <2>6. u.root # r
    BY <1>3, <1>6, <1>9
  <2>7. u.lc[c] = r
    BY <1>3, <1>9
  <2> QED
    BY <1>1, <1>3, <1>4, <1>5, <1>6, <2>1, <2>2, <2>3, <2>4, <2>5, <2>6, <2>7 DEF Hangs
<1>12. Hangs(u, M, E, O, c)
  <2>1. u.f[c] = p /\ u.lc[c] = r /\ u.rc[c] = d
    BY <1>3, <1>9, <1>a
  <2>2. E[d] = D[d]
    BY <1>2, <1>3, <1>5 DEF Places
  <2>3. E[c] = {c} \union E[r] \union E[d]
    BY <1>5, <1>6, <2>2
  <2>4. \A x \in E[r] : <<x, c>> \in O
    BY <1>5, <1>6, <1>7
  <2>5. u.f[r] = c
    BY <1>3, <1>9
  <2>6. d # Nil => u.f[d] = c
    <3>1. d # Nil => d \in Node /\ d # b
      <4>1. d # Nil => d \in D[d] /\ <<c, d>> \in O
        BY <1>2, <1>3, <1>6 DEF Hangs
      <4>2. b # Nil => b \in D[b] /\ <<b, c>> \in O
        BY <1>2, <1>3, <1>6 DEF Hangs
      <4> QED
        BY <1>2, <1>3, <4>1, <4>2 DEF Order
    <3> QED
      BY <1>3, <1>6, <1>9, <3>1
  <2>7. p = Nil <=> u.root = c
    BY <1>1, <1>2, <1>3, <1>4, <1>9 DEF Hangs
  <2>8. p # Nil => p \in Node /\ (c = u.lc[p] \/ c = u.rc[p])
    BY <1>2, <1>3, <1>9
  <2> QED
    BY <1>1, <1>3, <1>6, <2>1, <2>2, <2>3, <2>4, <2>5, <2>6, <2>7, <2>8 DEF Hangs
<1>13. ASSUME NEW n \in M, n # r, n # c PROVE Hangs(u, M, E, O, n)
  <2>1. /\ n \in Node /\ Hangs(t, M, D, O, n) /\ E[n] = D[n]
    BY <1>2, <1>5, <1>13 DEF Places
  <2>2. /\ t.lc[n] # c /\ t.rc[n] # c
    BY <1>3, <1>4, <1>13, <2>1 DEF Hangs
  <2>3. (t.lc[n] = r \/ t.rc[n] = r) => n = p
    BY <1>4, <1>a, <2>1 DEF Hangs
  <2>4. /\ u.lc[n] = IF t.lc[n] = r THEN c ELSE t.lc[n]
        /\ u.rc[n] = IF t.rc[n] = r THEN c ELSE t.rc[n]
    BY <1>9, <1>13, <2>1, <2>3
  <2>5. E[u.lc[n]] = D[t.lc[n]] /\ E[u.rc[n]] = D[t.rc[n]]
    BY <1>5, <1>8, <2>2, <2>4
  <2>6. u.f[n] = IF n = b THEN r ELSE t.f[n]
    BY <1>9, <1>13, <2>1
  <2>7. u.lc[n] # Nil => u.f[u.lc[n]] = n
    <3>1. CASE t.lc[n] = r
      BY <1>3, <1>9, <2>3, <2>4, <3>1
    <3>2. CASE t.lc[n] # r
      <4>1. t.lc[n] # Nil => t.f[t.lc[n]] = n /\ t.lc[n] \in M /\ t.lc[n] # b /\ t.lc[n] # r
        BY <1>6, <1>13, <2>1, <3>2 DEF Hangs
      <4> QED
        BY <1>8, <1>9, <2>2, <2>4, <3>2, <4>1
    <3> QED
      BY <3>1, <3>2
  <2>8. u.rc[n] # Nil => u.f[u.rc[n]] = n
    <3>1. CASE t.rc[n] = r
      BY <1>3, <1>9, <2>3, <2>4, <3>1
    <3>2. CASE t.rc[n] # r
      <4>1. t.rc[n] # Nil => t.f[t.rc[n]] = n /\ t.rc[n] \in M /\ t.rc[n] # b /\ t.rc[n] # r
        BY <1>6, <1>13, <2>1, <3>2 DEF Hangs
      <4> QED
        BY <1>8, <1>9, <2>2, <2>4, <3>2, <4>1
    <3> QED
      BY <3>1, <3>2
  <2>9. u.f[n] = Nil <=> u.root = n
    <3>1. CASE n = b
      <4>1. t.root # b
        BY <1>3, <1>4, <1>6, <1>13, <2>1, <3>1 DEF Hangs
      <4> QED
        BY <1>3, <1>4, <1>9, <2>6, <3>1, <4>1
    <3>2. CASE n # b
      BY <1>6, <1>9, <1>13, <2>1, <2>6, <3>2 DEF Hangs
    <3> QED
      BY <3>1, <3>2
  <2>10. u.f[n] # Nil => n = u.lc[u.f[n]] \/ n = u.rc[u.f[n]]
    <3>1. CASE n = b
      BY <1>3, <1>9, <2>6, <3>1
    <3>2. CASE n # b /\ t.f[n] # Nil
      <4>1. PICK q : q = t.f[n]
        OBVIOUS
      <4>2. q \in M /\ q \in Node /\ (n = t.lc[q] \/ n = t.rc[q])
        BY <1>2, <2>1, <3>2, <4>1 DEF Hangs
      <4>3. n = t.lc[q] => n = u.lc[q]
        BY <1>9, <1>13, <1>a, <3>2, <4>2
      <4>4. n = t.rc[q] => n = u.rc[q]
        BY <1>9, <1>13, <1>a, <3>2, <4>2
      <4> QED
        BY <2>6, <3>2, <4>1, <4>2, <4>3, <4>4
    <3> QED
      BY <2>6, <3>1, <3>2
  <2>11. u.lc[n] \in M \union {Nil} /\ u.rc[n] \in M \union {Nil} /\ u.f[n] \in M \union {Nil}
    BY <1>1, <2>1, <2>4, <2>6 DEF Hangs
  <2>12. /\ E[n] = {n} \union E[u.lc[n]] \union E[u.rc[n]]
         /\ \A x \in E[u.lc[n]] : <<x, n>> \in O
         /\ \A x \in E[u.rc[n]] : <<n, x>> \in O
    BY <2>1, <2>5 DEF Hangs
  <2> QED
    BY <2>7, <2>8, <2>9, <2>10, <2>11, <2>12 DEF Hangs
<1> QED
  BY <1>2, <1>4, <1>5, <1>9, <1>10, <1>11, <1>12, <1>13 DEF Shape, Places
-----------------------------------------------------------------------------
(* Heights.                                                                *)

\* The height that n keeps is right for those its children keep.
Tall(t, n) == t.subth[n] = 1 + Higher(Subth(t, t.lc[n]), Subth(t, t.rc[n]))

Balanced(t, n) == Tall(t, n) /\ Subth(t, t.lc[n]) - Subth(t, t.rc[n]) \in -1 .. 1

\* From t to u nothing has changed for the height of n, ...
KeptAt(t, u, n) ==
    /\ u.subth[n] = t.subth[n]
    /\ Subth(u, u.lc[n]) = Subth(t, t.lc[n])
    /\ Subth(u, u.rc[n]) = Subth(t, t.rc[n])

\* ... or p has w for a child instead of n.
Instead(t, u, p, n, w) ==
    /\ u.subth[p] = t.subth[p]
    /\ \/ t.lc[p] = n /\ u.lc[p] = w /\ Subth(u, u.rc[p]) = Subth(t, t.rc[p])
       \/ t.rc[p] = n /\ u.rc[p] = w /\ Subth(u, u.lc[p]) = Subth(t, t.lc[p])

\* A rotation renews the heights of r and c; others keep theirs.
RotatedHeights(t, u, M, r, c) ==
    /\ \A n \in M \ {r, c, t.f[r]} : KeptAt(t, u, n)
    /\ t.f[r] # Nil => Instead(t, u, t.f[r], r, c)
    /\ Subth(u, u.lc[r]) = Subth(t, t.lc[r])
    /\ Subth(u, u.rc[r]) = Subth(t, t.lc[c])
    /\ Subth(u, u.lc[c]) = u.subth[r]
    /\ Subth(u, u.rc[c]) = Subth(t, t.rc[c])
    /\ Tall(u, r) /\ Tall(u, c)

LEMMA MirrorHeights ==
    ASSUME NEW t \in Trees, NEW u \in Trees, NEW M, M \subseteq Node
    PROVE  /\ \A n \in Node : Balanced(Mirror(t), n) <=> Balanced(t, n)
           /\ \A n \in Node : Tall(Mirror(t), n) <=> Tall(t, n)
           /\ \A n : KeptAt(Mirror(t), Mirror(u), n) <=> KeptAt(t, u, n)
           /\ \A p, n, w : Instead(Mirror(t), Mirror(u), p, n, w) <=> Instead(t, u, p, n, w)
<1>1. /\ Mirror(t).lc = t.rc /\ Mirror(t).rc = t.lc /\ Mirror(t).subth = t.subth
      /\ \A n : Subth(Mirror(t), n) = Subth(t, n)
  BY MirrorTree
<1>2. /\ Mirror(u).lc = u.rc /\ Mirror(u).rc = u.lc /\ Mirror(u).subth = u.subth
      /\ \A n : Subth(Mirror(u), n) = Subth(u, n)
  BY MirrorTree
<1>3. \A n \in Node : Subth(t, t.lc[n]) \in Nat /\ Subth(t, t.rc[n]) \in Nat
  BY TreeParts
<1>4. \A a, b \in Nat : Higher(a, b) = Higher(b, a)
  BY DEF Higher
<1>5. \A n \in Node : Tall(Mirror(t), n) <=> Tall(t, n)
  BY <1>1, <1>3, <1>4 DEF Tall
<1>6. \A n \in Node : Balanced(Mirror(t), n) <=> Balanced(t, n)
  <2> TAKE n \in Node
  <2>1. PICK a, b : a = Subth(t, t.lc[n]) /\ b = Subth(t, t.rc[n])
    OBVIOUS
  <2>2. a \in Nat /\ b \in Nat
    BY <1>3, <2>1
  <2>3. Subth(Mirror(t), Mirror(t).lc[n]) = b /\ Subth(Mirror(t), Mirror(t).rc[n]) = a
    BY <1>1, <2>1
  <2>4. b - a \in -1 .. 1 <=> a - b \in -1 .. 1
    BY <2>2
  <2> QED
    BY <1>5, <2>1, <2>3, <2>4 DEF Balanced
<1> QED
  BY <1>1, <1>2, <1>5, <1>6 DEF KeptAt, Instead

LEMMA RotationHeights ==
    ASSUME NodeAssumption, NEW t, NEW M, NEW D, NEW O, Order(O), Shape(t, M, D, O),
           NEW r \in M, NEW c, c = t.rc[r], c # Nil, NEW u, Rotated(t, u, r, c)
    PROVE  RotatedHeights(t, u, M, r, c)
<1>a. PICK a, b, d, p : a = t.lc[r] /\ b = t.lc[c] /\ d = t.rc[c] /\ p = t.f[r]
  OBVIOUS
<1>1. Around(t, r, c) /\ c \in M
  BY ShapeAround
<1>2. t \in Trees /\ M \subseteq Node /\ \A n \in M : Hangs(t, M, D, O, n)
  BY DEF Shape
<1>3. /\ r \in Node /\ c \in Node /\ c # r /\ {a, b, d, p} \intersect {r, c} = {}
      /\ a \in Places /\ b \in Places /\ d \in Places /\ p \in M \union {Nil}
      /\ t.f[c] = r
      /\ p # Nil => \/ t.lc[p] = r /\ t.rc[p] # r
                    \/ t.lc[p] # r /\ t.rc[p] = r
  BY <1>1, <1>2, <1>a DEF Around, Hangs, Places
<1>4. r # Nil /\ c # Nil
  BY <1>3, NodeAssumption
<1>5. /\ u \in Trees
      /\ \A x \in Node : u.lc[x] = IF x = c THEN r
                                   ELSE IF x = p /\ t.lc[x] = r THEN c ELSE t.lc[x]
      /\ \A x \in Node : u.rc[x] = IF x = r THEN b
                                   ELSE IF x = p /\ t.rc[x] = r THEN c ELSE t.rc[x]
      /\ \A x \in Node \ {r, c} : u.subth[x] = t.subth[x]
      /\ u.subth[r] = 1 + Higher(Subth(t, a), Subth(t, b))
      /\ u.subth[c] = 1 + Higher(u.subth[r], Subth(t, d))
  BY <1>a DEF Rotated
<1>6. \A x \in Places : x \notin {r, c} => Subth(u, x) = Subth(t, x)
  BY <1>5 DEF Subth, Places
<1>7. /\ u.lc[r] = a /\ u.rc[r] = b /\ u.lc[c] = r /\ u.rc[c] = d
  BY <1>3, <1>5, <1>a
<1>8. /\ Subth(u, a) = Subth(t, a) /\ Subth(u, b) = Subth(t, b) /\ Subth(u, d) = Subth(t, d)
      /\ Subth(u, r) = u.subth[r]
  BY <1>3, <1>4, <1>6 DEF Subth
<1>9. ASSUME NEW n \in M \ {r, c, p} PROVE KeptAt(t, u, n)
  <2>1. n \in Node /\ t.lc[n] \notin {r, c} /\ t.rc[n] \notin {r, c}
    BY <1>2, <1>3, <1>4, <1>a DEF Hangs
  <2>2. u.lc[n] = t.lc[n] /\ u.rc[n] = t.rc[n]
    BY <1>5, <2>1
  <2>3. t.lc[n] \in Places /\ t.rc[n] \in Places
    BY <1>2, TreeParts, <2>1
  <2> QED
    BY <1>5, <1>6, <2>1, <2>2, <2>3 DEF KeptAt
<1>10. ASSUME p # Nil PROVE Instead(t, u, p, r, c)
  <2>1. p \in Node /\ p \in M /\ p # r /\ p # c /\ u.subth[p] = t.subth[p]
    BY <1>2, <1>3, <1>5, <1>10
  <2>2. t.lc[p] # c /\ t.rc[p] # c
    BY <1>2, <1>3, <1>4, <2>1 DEF Hangs
  <2>3. t.lc[p] \in Places /\ t.rc[p] \in Places
    BY <1>2, TreeParts, <2>1
  <2>4. CASE t.lc[p] = r /\ t.rc[p] # r
    BY <1>5, <1>6, <2>1, <2>2, <2>3, <2>4 DEF Instead
  <2>5. CASE t.lc[p] # r /\ t.rc[p] = r
    BY <1>5, <1>6, <2>1, <2>2, <2>3, <2>5 DEF Instead
  <2> QED
    BY <1>3, <1>10, <2>4, <2>5
<1> QED
  BY <1>5, <1>7, <1>8, <1>9, <1>10, <1>a DEF RotatedHeights, Tall

\* What a turn of avl_ab() makes of the tree: w is where n was.
Redone(t, u, M, E, O, n, w) ==
    /\ Shape(u, M, E, O)
    /\ w \in M
    /\ \A m \in M \ {t.f[n]} : Balanced(u, m)
    /\ t.f[n] # Nil => Instead(t, u, t.f[n], n, w)
    /\ u.subth[w] \in {t.subth[n] - 1, t.subth[n]}

LEMMA KeptBalanced ==
    ASSUME NEW t, NEW u, NEW n, KeptAt(t, u, n), Balanced(t, n)
    PROVE  Balanced(u, n)
BY DEF KeptAt, Balanced, Tall

\* avl_ab() turns once, with the heavier child to the same side or even.
LEMMA TurnOnce ==
    ASSUME NodeAssumption, NEW t, NEW M, NEW D, NEW O, Order(O), Shape(t, M, D, O),
           NEW n \in M, Tall(t, n), \A m \in M \ {n, t.f[n]} : Balanced(t, m),
           NEW c, c = t.rc[n], c # Nil,
           Subth(t, t.lc[n]) - Subth(t, t.rc[n]) = -2,
           Subth(t, t.lc[c]) - Subth(t, t.rc[c]) \in {-1, 0},
           NEW u, Rotated(t, u, n, c)
    PROVE  \E E : Redone(t, u, M, E, O, n, c)
<1>a. PICK p : p = t.f[n]
  OBVIOUS
<1>b. PICK E : E = [D EXCEPT ![n] = {n} \union D[t.lc[n]] \union D[t.lc[c]], ![c] = D[n]]
  OBVIOUS
<1>1. Shape(u, M, E, O)
  BY <1>b, RotationKeepsShape
<1>2. RotatedHeights(t, u, M, n, c)
  BY RotationHeights
<1>3. Around(t, n, c) /\ c \in M /\ n \in Node
  BY ShapeAround DEF Around
<1>4. t \in Trees /\ u \in Trees /\ M \subseteq Node
  BY <1>1 DEF Shape
<1>5. PICK x, y, v, z : /\ x = Subth(t, t.lc[n]) /\ y = Subth(t, t.rc[n])
                        /\ v = Subth(t, t.lc[c]) /\ z = Subth(t, t.rc[c])
  OBVIOUS
<1>6. x \in Nat /\ y \in Nat /\ v \in Nat /\ z \in Nat
  BY <1>3, <1>4, <1>5, TreeParts DEF Around
<1>7. /\ y = x + 2 /\ v - z \in {-1, 0} /\ y = 1 + Higher(v, z) /\ t.subth[n] = 1 + Higher(x, y)
  <2>1. Balanced(t, c) /\ Subth(t, c) = t.subth[c]
    BY <1>3, NodeAssumption DEF Around, Subth
  <2> QED
    BY <1>5, <1>6, <2>1 DEF Balanced, Tall
<1>8. z = x + 1 /\ (v = x \/ v = x + 1) /\ t.subth[n] = x + 3
  BY <1>6, <1>7 DEF Higher
<1>9. /\ Subth(u, u.lc[n]) = x /\ Subth(u, u.rc[n]) = v
      /\ Subth(u, u.lc[c]) = u.subth[n] /\ Subth(u, u.rc[c]) = z
      /\ u.subth[n] = 1 + Higher(x, v) /\ u.subth[c] = 1 + Higher(u.subth[n], z)
  BY <1>2, <1>5 DEF RotatedHeights, Tall
<1>10. u.subth[n] = v + 1
  BY <1>6, <1>8, <1>9 DEF Higher
<1>11. u.subth[c] \in {x + 2, x + 3}
  BY <1>6, <1>8, <1>9, <1>10 DEF Higher
<1>12. Balanced(u, n) /\ Balanced(u, c)
  BY <1>2, <1>6, <1>8, <1>9, <1>10 DEF RotatedHeights, Balanced
<1>13. \A m \in M \ {p} : Balanced(u, m)
  <2> TAKE m \in M \ {p}
  <2>1. CASE m \notin {n, c}
    BY <1>2, <1>a, <2>1, KeptBalanced DEF RotatedHeights
  <2> QED
    BY <1>12, <2>1
<1> QED
  BY <1>1, <1>2, <1>3, <1>6, <1>8, <1>11, <1>13, <1>a DEF Redone, RotatedHeights

\* avl_ab() turns the child first, when that leans the other way.
LEMMA TurnTwice ==
    ASSUME NodeAssumption, NEW t, NEW M, NEW D, NEW O, Order(O), Shape(t, M, D, O),
           NEW n \in M, Tall(t, n), \A m \in M \ {n, t.f[n]} : Balanced(t, m),
           NEW c, c = t.rc[n], c # Nil, NEW g, g = t.lc[c], g # Nil,
           Subth(t, t.lc[n]) - Subth(t, t.rc[n]) = -2,
           Subth(t, t.lc[c]) - Subth(t, t.rc[c]) = 1,
           NEW t2, Rotated(Mirror(t), Mirror(t2), c, g), t2 \in Trees,
           NEW u, Rotated(t2, u, n, g)
    PROVE  \E E : Redone(t, u, M, E, O, n, g)
<1>a. PICK p : p = t.f[n]
  OBVIOUS
<1>b. PICK m, m2 : m = Mirror(t) /\ m2 = Mirror(t2)
  OBVIOUS
<1>1. /\ t \in Trees /\ m \in Trees
      /\ m.root = t.root /\ m.f = t.f /\ m.lc = t.rc /\ m.rc = t.lc /\ m.subth = t.subth
      /\ m2.f = t2.f /\ m2.lc = t2.rc /\ m2.rc = t2.lc /\ m2.subth = t2.subth
      /\ Mirror(m2) = t2
      /\ \A x : Subth(m, x) = Subth(t, x) /\ Subth(m2, x) = Subth(t2, x)
  BY <1>b, MirrorTree DEF Shape
<1>2. Order(Back(O)) /\ Back(Back(O)) = O /\ Shape(m, M, D, Back(O))
  BY <1>b, MirrorOrder, MirrorShape
<1>3. Around(t, n, c) /\ c \in M
  BY ShapeAround
<1>4. Around(m, c, g) /\ g \in M /\ g = m.rc[c]
  BY <1>1, <1>2, <1>3, ShapeAround
<1>5. /\ n \in Node /\ c \in Node /\ g \in Node /\ c # n /\ g # c /\ g # n /\ t.f[c] = n
      /\ p \notin {n, c} /\ t.lc[n] # c /\ M \subseteq Node
  BY <1>1, <1>3, <1>4, <1>a DEF Around, Shape
<1>6. Rotated(m, m2, c, g)
  BY <1>b
<1>7. \E E1 : Shape(m2, M, E1, Back(O))
  <2>1. PICK E1 : E1 = [D EXCEPT ![c] = {c} \union D[m.lc[c]] \union D[m.lc[g]], ![g] = D[c]]
    OBVIOUS
  <2> QED
    BY <1>2, <1>3, <1>4, <1>6, <2>1, RotationKeepsShape
<1>8. PICK E1 : Shape(m2, M, E1, Back(O))
  BY <1>7
<1>9. Shape(t2, M, E1, O)
  <2>1. Shape(Mirror(m2), M, E1, Back(Back(O)))
    BY <1>8, MirrorShape
  <2> QED
    BY <1>1, <1>2, <2>1
<1>10. RotatedHeights(m, m2, M, c, g)
  BY <1>2, <1>3, <1>4, <1>6, RotationHeights
<1>11. \A x \in M \ {c, g, n} : KeptAt(t, t2, x)
  BY <1>1, <1>5, <1>10, <1>b, MirrorHeights DEF RotatedHeights
<1>12. /\ t2.subth[n] = t.subth[n] /\ t2.rc[n] = g
       /\ Subth(t2, t2.lc[n]) = Subth(t, t.lc[n])
  <2>1. n # Nil
    BY <1>5, NodeAssumption
  <2>2. Instead(m, m2, n, c, g)
    BY <1>1, <1>5, <1>10, <2>1 DEF RotatedHeights
  <2> QED
    BY <1>1, <1>5, <2>2 DEF Instead
<1>13. /\ Subth(t2, t2.rc[c]) = Subth(t, t.rc[c])
       /\ Subth(t2, t2.lc[c]) = Subth(t, t.rc[g])
       /\ Subth(t2, t2.rc[g]) = t2.subth[c]
       /\ Subth(t2, t2.lc[g]) = Subth(t, t.lc[g])
  BY <1>1, <1>10 DEF RotatedHeights
<1>14. Tall(t2, c)
  BY <1>1, <1>5, <1>10, <1>b, MirrorHeights DEF RotatedHeights
<1>15. t2.f[n] = p
  <2>1. n # t.rc[g]
    <3>1. /\ Hangs(t, M, D, O, n) /\ Hangs(t, M, D, O, c) /\ Hangs(t, M, D, O, g)
          /\ \A x \in M : x \in D[x]
      <4>1. \A x \in M : Hangs(t, M, D, O, x)
        BY DEF Shape
      <4> QED
        BY <1>3, <1>4, <4>1 DEF Hangs
    <3>2. \A x \in D[c] : <<n, x>> \in O
      BY <3>1 DEF Hangs
    <3>3. t.rc[g] \in M => t.rc[g] \in D[c]
      BY <3>1 DEF Hangs
    <3>4. <<n, n>> \notin O
      BY <1>5 DEF Order
    <3> QED
      BY <3>2, <3>3, <3>4
  <2>2. m2.f[n] = IF n = g THEN m.f[c] ELSE IF n = c THEN g
                  ELSE IF n = m.lc[g] THEN c ELSE m.f[n]
    BY <1>5, <1>6 DEF Rotated
  <2> QED
    BY <1>1, <1>5, <1>a, <2>1, <2>2
<1>16. \A x \in Node : x \notin {c, g, n} => t2.lc[x] = t.lc[x] /\ t2.rc[x] = t.rc[x]
  <2> TAKE x \in Node
  <2> HAVE x \notin {c, g, n}
  <2>1. m.f[c] = n
    BY <1>1, <1>5
  <2>2. m2.lc[x] = m.lc[x]
    BY <1>6, <2>1 DEF Rotated
  <2>3. m2.rc[x] = m.rc[x]
    BY <1>6, <2>1 DEF Rotated
  <2> QED
    BY <1>1, <2>2, <2>3
<1>17. Around(t2, n, g)
  BY <1>5, <1>9, <1>12, ShapeAround
<1>18. p # g
  BY <1>15, <1>17 DEF Around
<1>19. RotatedHeights(t2, u, M, n, g)
  BY <1>9, <1>12, RotationHeights
<1>20. \E E : Shape(u, M, E, O)
  <2>1. PICK E : E = [E1 EXCEPT ![n] = {n} \union E1[t2.lc[n]] \union E1[t2.lc[g]], ![g] = E1[n]]
    OBVIOUS
  <2> QED
    BY <1>9, <1>12, <2>1, RotationKeepsShape
<1>21. PICK E : Shape(u, M, E, O)
  BY <1>20
<1>22. u \in Trees
  BY <1>21 DEF Shape
<1>23. PICK x, z, v1, v2 : /\ x = Subth(t, t.lc[n]) /\ z = Subth(t, t.rc[c])
                           /\ v1 = Subth(t, t.lc[g]) /\ v2 = Subth(t, t.rc[g])
  OBVIOUS
<1>24. /\ x \in Nat /\ z \in Nat /\ v1 \in Nat /\ v2 \in Nat
       /\ t.subth[c] \in Nat /\ t.subth[g] \in Nat
  BY <1>1, <1>5, <1>23, TreeParts
<1>25. /\ t.subth[c] = x + 2 /\ t.subth[c] = 1 + Higher(t.subth[g], z)
       /\ t.subth[g] - z = 1
       /\ t.subth[g] = 1 + Higher(v1, v2) /\ v1 - v2 \in -1 .. 1
       /\ t.subth[n] = 1 + Higher(x, t.subth[c])
  <2>1. Balanced(t, c) /\ Balanced(t, g)
    BY <1>3, <1>4, <1>5, <1>18, <1>a
  <2>2. Subth(t, c) = t.subth[c] /\ Subth(t, g) = t.subth[g]
    BY DEF Subth
  <2>3. /\ t.subth[c] = 1 + Higher(Subth(t, t.lc[c]), Subth(t, t.rc[c]))
        /\ t.subth[g] = 1 + Higher(Subth(t, t.lc[g]), Subth(t, t.rc[g]))
        /\ Subth(t, t.lc[g]) - Subth(t, t.rc[g]) \in -1 .. 1
    BY <2>1 DEF Balanced, Tall
  <2>4. t.subth[n] = 1 + Higher(Subth(t, t.lc[n]), Subth(t, t.rc[n]))
    BY DEF Tall
  <2>5. t.subth[n] = 1 + Higher(x, t.subth[c])
    BY <1>23, <2>2, <2>4
  <2>6. Subth(t, t.lc[c]) = t.subth[g]
    BY <1>5, <2>2
  <2>7. /\ t.subth[c] = 1 + Higher(t.subth[g], z)
        /\ t.subth[g] = 1 + Higher(v1, v2) /\ v1 - v2 \in -1 .. 1
    BY <1>23, <2>3, <2>6
  <2>8. t.subth[c] = x + 2 /\ t.subth[g] - z = 1
    BY <1>23, <1>24, <2>2, <2>6
  <2> QED
    BY <2>5, <2>7, <2>8
<1>26. /\ z = x /\ t.subth[g] = x + 1 /\ t.subth[n] = x + 3
       /\ v1 \in {x - 1, x} /\ v2 \in {x - 1, x}
  BY <1>24, <1>25 DEF Higher
<1>27. KeptAt(t2, u, c)
  BY <1>3, <1>5, <1>15, <1>19 DEF RotatedHeights
<1>28. /\ Subth(u, u.lc[c]) = v2 /\ Subth(u, u.rc[c]) = z
       /\ u.subth[c] = t2.subth[c] /\ u.subth[c] = 1 + Higher(v2, z)
  BY <1>13, <1>14, <1>23, <1>27 DEF KeptAt, Tall
<1>29. /\ Subth(u, u.lc[n]) = x /\ Subth(u, u.rc[n]) = v1
       /\ Subth(u, u.lc[g]) = u.subth[n] /\ Subth(u, u.rc[g]) = u.subth[c]
       /\ u.subth[n] = 1 + Higher(x, v1) /\ u.subth[g] = 1 + Higher(u.subth[n], u.subth[c])
  BY <1>12, <1>13, <1>19, <1>23, <1>28 DEF RotatedHeights, Tall
<1>30. u.subth[c] = x + 1 /\ u.subth[n] = x + 1 /\ u.subth[g] = x + 2
  <2>1. u.subth[c] = x + 1
    BY <1>24, <1>26, <1>28 DEF Higher
  <2>2. u.subth[n] = x + 1
    BY <1>24, <1>26, <1>29 DEF Higher
  <2> QED
    BY <1>24, <1>29, <2>1, <2>2 DEF Higher
<1>31. Balanced(u, n) /\ Balanced(u, c) /\ Balanced(u, g)
  <2>1. Tall(u, n) /\ Tall(u, g)
    BY <1>19 DEF RotatedHeights
  <2>2. Tall(u, c)
    BY <1>28 DEF Tall
  <2>3. x - v1 \in -1 .. 1 /\ v2 - z \in -1 .. 1 /\ u.subth[n] - u.subth[c] \in -1 .. 1
    BY <1>24, <1>26, <1>30
  <2> QED
    BY <1>28, <1>29, <2>1, <2>2, <2>3 DEF Balanced
<1>32. \A y \in M \ {p} : Balanced(u, y)
  <2> TAKE y \in M \ {p}
  <2>1. CASE y \notin {n, c, g}
    <3>1. KeptAt(t, t2, y) /\ KeptAt(t2, u, y)
      BY <1>11, <1>15, <1>19, <2>1 DEF RotatedHeights
    <3>2. Balanced(t, y)
      BY <1>a, <2>1
    <3> QED
      BY <3>1, <3>2, KeptBalanced
  <2> QED
    BY <1>31, <2>1
<1>33. p # Nil => Instead(t, u, p, n, g)
  <2> SUFFICES ASSUME p # Nil PROVE Instead(t, u, p, n, g)
    OBVIOUS
  <2>1. p \in M /\ p \in Node /\ p \notin {c, g, n}
    BY <1>5, <1>18, <1>a DEF Shape, Hangs
  <2>2. Instead(t2, u, p, n, g)
    BY <1>15, <1>19 DEF RotatedHeights
  <2>3. KeptAt(t, t2, p) /\ t2.lc[p] = t.lc[p] /\ t2.rc[p] = t.rc[p]
    BY <1>11, <1>16, <2>1
  <2> QED
    BY <2>2, <2>3 DEF Instead, KeptAt
<1> QED
  BY <1>4, <1>21, <1>24, <1>26, <1>30, <1>32, <1>33, <1>a DEF Redone

LEMMA MirrorRedone ==
    ASSUME NodeAssumption, NEW t \in Trees, NEW u \in Trees, NEW M, M \subseteq Node,
           NEW E, NEW O, Order(O), NEW n, NEW w,
           Redone(Mirror(t), Mirror(u), M, E, Back(O), n, w)
    PROVE  Redone(t, u, M, E, O, n, w)
<1>1. Shape(Mirror(Mirror(u)), M, E, Back(Back(O)))
  BY MirrorShape DEF Redone
<1>2. Shape(u, M, E, O)
  BY <1>1, MirrorTree, MirrorOrder
<1>3. /\ Mirror(t).f = t.f /\ Mirror(t).subth = t.subth /\ Mirror(u).subth = u.subth
      /\ \A m \in Node : Balanced(Mirror(u), m) <=> Balanced(u, m)
      /\ \A p, x, y : Instead(Mirror(t), Mirror(u), p, x, y) <=> Instead(t, u, p, x, y)
  BY MirrorTree, MirrorHeights
<1> QED
  BY <1>2, <1>3 DEF Redone

\* A turn to the left with what comes before it, in the tree or in its mirror.
TurnedLeft(t, t2, u, n, c) ==
    /\ c = t.rc[n]
    /\ \/ Subth(t, t.lc[c]) - Subth(t, t.rc[c]) \in {-1, 0} /\ Rotated(t, u, n, c)
       \/ /\ Subth(t, t.lc[c]) - Subth(t, t.rc[c]) = 1
          /\ Rotated(Mirror(t), Mirror(t2), c, t.lc[c])
          /\ Rotated(t2, u, n, t.lc[c])

LEMMA TurnLeft ==
    ASSUME NodeAssumption, NEW t, NEW M, NEW D, NEW O, Order(O), Shape(t, M, D, O),
           NEW n \in M, Tall(t, n), \A m \in M \ {n, t.f[n]} : Balanced(t, m),
           Subth(t, t.lc[n]) - Subth(t, t.rc[n]) = -2,
           NEW c, NEW t2 \in Trees, NEW u, TurnedLeft(t, t2, u, n, c)
    PROVE  \E E, w : Redone(t, u, M, E, O, n, w)
<1>1. c = t.rc[n]
  BY DEF TurnedLeft
<1>2. t \in Trees /\ M \subseteq Node /\ n \in Node
  BY DEF Shape
<1>3. c # Nil
  BY <1>1, <1>2, TreeParts DEF Subth
<1>4. CASE Subth(t, t.lc[c]) - Subth(t, t.rc[c]) \in {-1, 0} /\ Rotated(t, u, n, c)
  BY <1>1, <1>3, <1>4, TurnOnce
<1>5. CASE /\ Subth(t, t.lc[c]) - Subth(t, t.rc[c]) = 1
           /\ Rotated(Mirror(t), Mirror(t2), c, t.lc[c])
           /\ Rotated(t2, u, n, t.lc[c])
  <2>1. PICK g : g = t.lc[c]
    OBVIOUS
  <2>2. c \in Node
    BY <1>1, <1>3, ShapeAround DEF Around
  <2>3. g # Nil
    BY <1>2, <1>5, <2>1, <2>2, TreeParts DEF Subth
  <2>4. \E E : Redone(t, u, M, E, O, n, g)
    BY <1>1, <1>3, <1>5, <2>1, <2>3, TurnTwice
  <2> QED
    BY <2>4
<1> QED
  BY <1>4, <1>5 DEF TurnedLeft

LEMMA FirstTurn ==
    ASSUME NodeAssumption, NEW t, NEW M, NEW D, NEW O, Order(O), Shape(t, M, D, O),
           NEW n \in M, NEW c, c = t.rc[n], c # Nil, NEW g, g = t.lc[c], g # Nil,
           NEW t2 \in Trees, Rotated(Mirror(t), Mirror(t2), c, g)
    PROVE  Around(t2, n, g)
<1>b. PICK m, m2 : m = Mirror(t) /\ m2 = Mirror(t2)
  OBVIOUS
<1>1. /\ t \in Trees /\ m \in Trees
      /\ m.f = t.f /\ m.lc = t.rc /\ m.rc = t.lc /\ m2.lc = t2.rc /\ Mirror(m2) = t2
  BY <1>b, MirrorTree DEF Shape
<1>2. Order(Back(O)) /\ Back(Back(O)) = O /\ Shape(m, M, D, Back(O))
  BY <1>b, MirrorOrder, MirrorShape
<1>3. Around(t, n, c) /\ c \in M
  BY ShapeAround
<1>4. Around(m, c, g) /\ g \in M
  BY <1>1, <1>2, <1>3, ShapeAround
<1>5. n \in Node /\ g # n /\ c # n
  BY <1>1, <1>3, <1>4 DEF Around
<1>6. Rotated(m, m2, c, g)
  BY <1>b
<1>7. PICK E1 : E1 = [D EXCEPT ![c] = {c} \union D[m.lc[c]] \union D[m.lc[g]], ![g] = D[c]]
  OBVIOUS
<1>8. Shape(m2, M, E1, Back(O))
  BY <1>1, <1>2, <1>3, <1>6, <1>7, RotationKeepsShape
<1>9. Shape(t2, M, E1, O)
  BY <1>1, <1>2, <1>8, MirrorShape
<1>10. t2.rc[n] = g
  <2>1. m.f[c] = n /\ m.lc[n] = c
    BY <1>1, <1>3 DEF Around
  <2>2. m2.lc[n] = IF n = g THEN c ELSE IF n = m.f[c] /\ m.lc[n] = c THEN g ELSE m.lc[n]
    BY <1>5, <1>6 DEF Rotated
  <2> QED
    BY <1>1, <1>5, <2>1, <2>2
<1> QED
  BY <1>9, <1>10, ShapeAround

LEMMA TurnedIsLeft ==
    ASSUME NodeAssumption, NEW t, NEW M, NEW D, NEW O, Order(O), Shape(t, M, D, O),
           NEW n \in M, \A m \in M \ {n, t.f[n]} : Balanced(t, m), Inbf(t, n) = -2
    PROVE  \E c : \E t2 \in Trees : TurnedLeft(t, t2, Turned(t, n), n, c)
<1>1. PICK c : c = t.rc[n]
  OBVIOUS
<1>2. t \in Trees /\ M \subseteq Node /\ n \in Node
  BY DEF Shape
<1>3. c # Nil
  BY <1>1, <1>2, TreeParts DEF Subth, Inbf
<1>4. Around(t, n, c) /\ c \in M /\ c \in Node
  BY <1>1, <1>3, ShapeAround DEF Around
<1>5. Balanced(t, c) /\ Inbf(t, c) \in -1 .. 1
  <2>1. c # n /\ c # t.f[n]
    BY <1>4 DEF Around
  <2> QED
    BY <1>4, <2>1 DEF Balanced, Inbf
<1>6. CASE ~ (Inbf(t, c) > 0)
  <2>1. Turned(t, n) = Lr(t, n)
    BY <1>1, <1>6 DEF Turned
  <2>2. Rotated(t, Turned(t, n), n, c)
    BY <1>2, <1>4, <2>1, LrIs
  <2>3. Subth(t, t.lc[c]) - Subth(t, t.rc[c]) \in {-1, 0}
    BY <1>5, <1>6 DEF Inbf
  <2>4. TurnedLeft(t, t, Turned(t, n), n, c)
    BY <1>1, <2>2, <2>3 DEF TurnedLeft
  <2> QED
    BY <1>2, <1>4, <2>4
<1>7. CASE Inbf(t, c) > 0
  <2>1. PICK g, t2 : g = t.lc[c] /\ t2 = Rr(t, c)
    OBVIOUS
  <2>2. g # Nil
    BY <1>2, <1>4, <1>7, <2>1, TreeParts DEF Subth, Inbf
  <2>3. /\ Shape(Mirror(t), M, D, Back(O)) /\ Order(Back(O)) /\ Mirror(t).rc = t.lc
        /\ Mirror(t) \in Trees
    BY <1>2, MirrorShape, MirrorOrder, MirrorTree
  <2>4. Around(Mirror(t), c, g)
    BY <1>4, <2>1, <2>2, <2>3, ShapeAround
  <2>5. Rotated(Mirror(t), Mirror(t2), c, g)
    BY <1>2, <2>1, <2>4, RrIs
  <2>6. t2 \in Trees
    BY <1>2, <2>1, <2>4, RrIs
  <2>7. Around(t2, n, g)
    BY <1>1, <1>3, <2>1, <2>2, <2>5, <2>6, FirstTurn
  <2>8. Turned(t, n) = Lr(t2, n)
    BY <1>1, <1>7, <2>1 DEF Turned
  <2>9. Rotated(t2, Turned(t, n), n, g)
    BY <2>6, <2>7, <2>8, LrIs
  <2>10. Subth(t, t.lc[c]) - Subth(t, t.rc[c]) = 1
    BY <1>5, <1>7 DEF Inbf
  <2>11. TurnedLeft(t, t2, Turned(t, n), n, c)
    BY <1>1, <2>1, <2>5, <2>9, <2>10 DEF TurnedLeft
  <2> QED
    BY <1>4, <2>6, <2>11
<1> QED
  BY <1>6, <1>7

LEMMA TurnedIsRight ==
    ASSUME NodeAssumption, NEW t, NEW M, NEW D, NEW O, Order(O), Shape(t, M, D, O),
           NEW n \in M, \A m \in M \ {n, t.f[n]} : Balanced(t, m), Inbf(t, n) = 2
    PROVE  /\ Turned(t, n) \in Trees
           /\ \E c : \E t2 \in Trees :
                TurnedLeft(Mirror(t), t2, Mirror(Turned(t, n)), n, c)
<1>0. PICK m : m = Mirror(t)
  OBVIOUS
<1>1. PICK c : c = t.lc[n]
  OBVIOUS
<1>2. t \in Trees /\ M \subseteq Node /\ n \in Node
  BY DEF Shape
<1>3. /\ Shape(m, M, D, Back(O)) /\ Order(Back(O))
      /\ m.f = t.f /\ m.rc = t.lc /\ m.lc = t.rc /\ Mirror(m) = t /\ m \in Trees
      /\ \A x : Subth(m, x) = Subth(t, x)
  BY <1>0, <1>2, MirrorShape, MirrorOrder, MirrorTree
<1>4. c # Nil
  BY <1>1, <1>2, TreeParts DEF Subth, Inbf
<1>5. Around(m, n, c) /\ c \in M /\ c \in Node
  BY <1>1, <1>3, <1>4, ShapeAround DEF Around
<1>6. Balanced(t, c) /\ Inbf(t, c) \in -1 .. 1
  <2>1. c # n /\ c # t.f[n]
    BY <1>3, <1>5 DEF Around
  <2> QED
    BY <1>5, <2>1 DEF Balanced, Inbf
<1>7. Subth(t, t.lc[c]) \in Nat /\ Subth(t, t.rc[c]) \in Nat
  BY <1>2, <1>5, TreeParts
<1>8. CASE ~ (Inbf(t, c) < 0)
  <2>1. Turned(t, n) = Rr(t, n)
    BY <1>1, <1>8 DEF Turned
  <2>2. Turned(t, n) \in Trees /\ Rotated(m, Mirror(Turned(t, n)), n, c)
    BY <1>0, <1>2, <1>5, <2>1, RrIs
  <2>3. Subth(m, m.lc[c]) - Subth(m, m.rc[c]) \in {-1, 0}
    BY <1>3, <1>6, <1>7, <1>8 DEF Inbf
  <2>4. TurnedLeft(m, m, Mirror(Turned(t, n)), n, c)
    BY <1>1, <1>3, <2>2, <2>3 DEF TurnedLeft
  <2> QED
    BY <1>0, <1>3, <2>2, <2>4
<1>9. CASE Inbf(t, c) < 0
  <2>1. PICK g, t2 : g = t.rc[c] /\ t2 = Lr(t, c)
    OBVIOUS
  <2>2. g # Nil
    BY <1>2, <1>5, <1>9, <2>1, TreeParts DEF Subth, Inbf
  <2>3. Around(t, c, g)
    BY <1>5, <2>1, <2>2, ShapeAround
  <2>4. Rotated(t, t2, c, g)
    BY <1>2, <2>1, <2>3, LrIs
  <2>5. /\ t2 \in Trees /\ Mirror(t2) \in Trees /\ Mirror(Mirror(t2)) = t2
    BY <2>4, MirrorTree DEF Rotated
  <2>6. Rotated(Mirror(m), Mirror(Mirror(t2)), c, g)
    BY <1>3, <2>4, <2>5
  <2>7. Around(Mirror(t2), n, g)
    BY <1>1, <1>3, <1>4, <2>1, <2>2, <2>5, <2>6, FirstTurn
  <2>8. Turned(t, n) = Rr(t2, n)
    BY <1>1, <1>9, <2>1, <1>6 DEF Turned
  <2>9. Turned(t, n) \in Trees /\ Rotated(Mirror(t2), Mirror(Turned(t, n)), n, g)
    BY <2>5, <2>7, <2>8, RrIs
  <2>10. Subth(m, m.lc[c]) - Subth(m, m.rc[c]) = 1
    BY <1>3, <1>6, <1>7, <1>9 DEF Inbf
  <2>11. TurnedLeft(m, Mirror(t2), Mirror(Turned(t, n)), n, c)
    BY <1>1, <1>3, <2>1, <2>6, <2>9, <2>10 DEF TurnedLeft
  <2> QED
    BY <1>0, <2>5, <2>9, <2>11
<1> QED
  BY <1>8, <1>9

\* One turn of avl_ab(), whatever it has to do.
TurnsTo(t, u, M, O, n) ==
    \E E, w : /\ Redone(t, u, M, E, O, n, w)
              /\ Inbf(t, n) \in -1 .. 1 => u.subth[w] = t.subth[n]

LEMMA Turns ==
    ASSUME NodeAssumption, NEW t, NEW M, NEW D, NEW O, Order(O), Shape(t, M, D, O),
           NEW n \in M, Tall(t, n), \A m \in M \ {n, t.f[n]} : Balanced(t, m),
           Inbf(t, n) \in -2 .. 2
    PROVE  TurnsTo(t, Turned(t, n), M, O, n)
<1>1. t \in Trees /\ M \subseteq Node /\ n \in Node
  BY DEF Shape
<1>2. CASE Inbf(t, n) = -2
  <2>1. Subth(t, t.lc[n]) - Subth(t, t.rc[n]) = -2
    BY <1>2 DEF Inbf
  <2>2. PICK c : \E t2 \in Trees : TurnedLeft(t, t2, Turned(t, n), n, c)
    BY <1>2, TurnedIsLeft
  <2>3. \E E, w : Redone(t, Turned(t, n), M, E, O, n, w)
    BY <2>1, <2>2, TurnLeft
  <2> QED
    BY <1>2, <2>3 DEF TurnsTo
<1>3. CASE Inbf(t, n) = 2
  <2>0. PICK m : m = Mirror(t)
    OBVIOUS
  <2>1. /\ Shape(m, M, D, Back(O)) /\ Order(Back(O)) /\ m \in Trees /\ m.f = t.f
        /\ m.lc = t.rc /\ m.rc = t.lc /\ \A x : Subth(m, x) = Subth(t, x)
        /\ \A x \in Node : (Tall(m, x) <=> Tall(t, x)) /\ (Balanced(m, x) <=> Balanced(t, x))
    BY <1>1, <2>0, MirrorShape, MirrorOrder, MirrorTree, MirrorHeights
  <2>2. Subth(m, m.lc[n]) - Subth(m, m.rc[n]) = -2
    <3>1. Subth(t, t.lc[n]) \in Nat /\ Subth(t, t.rc[n]) \in Nat
      BY <1>1, TreeParts
    <3> QED
      BY <1>3, <2>1, <3>1 DEF Inbf
  <2>3. PICK u : u = Turned(t, n)
    OBVIOUS
  <2>4. u \in Trees /\ \E c : \E t2 \in Trees : TurnedLeft(m, t2, Mirror(u), n, c)
    BY <1>3, <2>0, <2>3, TurnedIsRight
  <2>5. Tall(m, n) /\ \A x \in M \ {n, m.f[n]} : Balanced(m, x)
    BY <1>1, <2>1
  <2>6. \E E, w : Redone(m, Mirror(u), M, E, Back(O), n, w)
    BY <2>1, <2>2, <2>4, <2>5, TurnLeft
  <2>7. \E E, w : Redone(t, u, M, E, O, n, w)
    BY <1>1, <2>0, <2>4, <2>6, MirrorRedone
  <2> QED
    BY <1>3, <2>3, <2>7 DEF TurnsTo
<1>4. CASE Inbf(t, n) \in -1 .. 1
  <2>1. Turned(t, n) = t
    BY <1>4 DEF Turned
  <2>2. Balanced(t, n)
    BY <1>4 DEF Balanced, Inbf
  <2>3. \A x \in M \ {t.f[n]} : Balanced(t, x)
    BY <2>2
  <2>4. t.f[n] # Nil => Instead(t, t, t.f[n], n, n)
    <3>1. t.f[n] # Nil => n = t.lc[t.f[n]] \/ n = t.rc[t.f[n]]
      BY DEF Shape, Hangs
    <3> QED
      BY <3>1 DEF Instead
  <2>5. t.subth[n] \in {t.subth[n] - 1, t.subth[n]}
    OBVIOUS
  <2>6. Redone(t, t, M, D, O, n, n)
    BY <2>3, <2>4, <2>5 DEF Redone
  <2> QED
    BY <2>1, <2>6 DEF TurnsTo
<1> QED
  BY <1>2, <1>3, <1>4
-----------------------------------------------------------------------------
(* The walk upwards.                                                       *)

LEMMA Kids ==
    ASSUME NodeAssumption, NEW t, NEW M, NEW D, NEW O, Order(O), Shape(t, M, D, O),
           NEW n \in M
    PROVE  /\ t \in Trees /\ M \subseteq Node /\ n \in Node /\ n \in D[n]
           /\ t.lc[n] \in M \union {Nil} /\ t.rc[n] \in M \union {Nil}
           /\ t.f[n] \in M \union {Nil}
           /\ t.lc[n] # n /\ t.rc[n] # n /\ t.f[n] # n
           /\ t.lc[n] # Nil => t.lc[n] # t.rc[n] /\ t.f[t.lc[n]] = n
           /\ t.rc[n] # Nil => t.f[t.rc[n]] = n
           /\ t.f[n] = Nil <=> t.root = n
           /\ t.f[n] # Nil => n = t.lc[t.f[n]] \/ n = t.rc[t.f[n]]
           /\ n # Nil
<1>1. t \in Trees /\ M \subseteq Node /\ n \in Node /\ Hangs(t, M, D, O, n) /\ n \in D[n]
  BY DEF Shape, Hangs
<1>2. \A x \in M : x \in D[x] /\ x \in Node
  BY DEF Shape, Hangs
<1>3. \A x, y \in Node : ~(<<x, y>> \in O /\ <<y, x>> \in O)
  BY DEF Order
<1>4. t.lc[n] # Nil => <<t.lc[n], n>> \in O /\ t.lc[n] \in Node
  BY <1>1, <1>2 DEF Hangs
<1>5. t.rc[n] # Nil => <<n, t.rc[n]>> \in O /\ t.rc[n] \in Node
  BY <1>1, <1>2 DEF Hangs
<1>6. n # Nil
  BY <1>1, NodeAssumption
<1>7. t.lc[n] # n /\ t.rc[n] # n /\ (t.lc[n] # Nil => t.lc[n] # t.rc[n])
  BY <1>1, <1>3, <1>4, <1>5, <1>6
<1>8. t.f[n] # n
  BY <1>1, <1>6, <1>7 DEF Hangs
<1> QED
  BY <1>1, <1>6, <1>7, <1>8 DEF Hangs

\* The height of n is that of before one of its subtrees has changed by one.
OneOff(t, n) ==
    \E a, b \in Nat :
        /\ t.subth[n] = 1 + Higher(a, b)
        /\ a - b \in -1 .. 1
        /\ \/ a = Subth(t, t.lc[n]) /\ b - Subth(t, t.rc[n]) \in -1 .. 1
           \/ b = Subth(t, t.rc[n]) /\ a - Subth(t, t.lc[n]) \in -1 .. 1

\* What avl_ab() finds when it comes to the node at.
HeightsFrom(t, M, at) ==
    /\ at \in M \union {Nil}
    /\ \A n \in M \ {at} : Balanced(t, n)
    /\ at # Nil => OneOff(t, at)

LEMMA Refreshed ==
    ASSUME NodeAssumption, NEW t, NEW M, NEW D, NEW O, Order(O), Shape(t, M, D, O),
           NEW n \in M, NEW v, v = Rfh(t, n)
    PROVE  /\ Shape(v, M, D, O) /\ v.f = t.f /\ v.lc = t.lc /\ v.rc = t.rc
           /\ Tall(v, n)
           /\ Subth(v, v.lc[n]) = Subth(t, t.lc[n]) /\ Subth(v, v.rc[n]) = Subth(t, t.rc[n])
           /\ \A x \in M : x # n => v.subth[x] = t.subth[x]
           /\ \A x \in M \union {Nil} : x # n => Subth(v, x) = Subth(t, x)
           /\ \A x \in M \ {n, t.f[n]} : Balanced(t, x) => Balanced(v, x)
<1>1. t \in Trees /\ M \subseteq Node /\ n \in Node
  BY DEF Shape
<1>2. /\ v \in Trees /\ v.root = t.root /\ v.f = t.f /\ v.lc = t.lc /\ v.rc = t.rc
      /\ \A m \in Node : v.subth[m] =
            IF m = n THEN 1 + Higher(Subth(t, t.lc[n]), Subth(t, t.rc[n])) ELSE t.subth[m]
  BY <1>1, RfhIs
<1>3. Shape(v, M, D, O)
  BY <1>2 DEF Shape, Hangs
<1>4. \A x \in M \union {Nil} : x # n => Subth(v, x) = Subth(t, x)
  BY <1>1, <1>2 DEF Subth
<1>5. /\ Subth(v, v.lc[n]) = Subth(t, t.lc[n]) /\ Subth(v, v.rc[n]) = Subth(t, t.rc[n])
  BY <1>2, <1>4, Kids
<1>6. Tall(v, n)
  BY <1>1, <1>2, <1>5 DEF Tall
<1>7. ASSUME NEW x \in M \ {n, t.f[n]}, Balanced(t, x) PROVE Balanced(v, x)
  <2>1. /\ t.lc[x] \in M \union {Nil} /\ t.rc[x] \in M \union {Nil}
        /\ t.lc[x] # n /\ t.rc[x] # n
    BY <1>7, Kids
  <2>2. KeptAt(t, v, x)
    BY <1>1, <1>2, <1>4, <1>7, <2>1 DEF KeptAt
  <2> QED
    BY <1>7, <2>2, KeptBalanced
<1> QED
  BY <1>1, <1>2, <1>3, <1>4, <1>5, <1>6, <1>7

LEMMA TurnKeeps ==
    ASSUME NodeAssumption, NEW t, NEW M, NEW D, NEW O, Order(O), Shape(t, M, D, O),
           NEW n \in M, HeightsFrom(t, M, n), NEW u, u = Turned(Rfh(t, n), n)
    PROVE  \E E : Shape(u, M, E, O) /\ HeightsFrom(u, M, t.f[n])
<1>1. PICK v : v = Rfh(t, n)
  OBVIOUS
<1>2. /\ Shape(v, M, D, O) /\ v.f = t.f /\ v.lc = t.lc /\ v.rc = t.rc
      /\ Tall(v, n)
      /\ Subth(v, v.lc[n]) = Subth(t, t.lc[n]) /\ Subth(v, v.rc[n]) = Subth(t, t.rc[n])
      /\ \A x \in M : x # n => v.subth[x] = t.subth[x]
      /\ \A x \in M \union {Nil} : x # n => Subth(v, x) = Subth(t, x)
      /\ \A x \in M \ {n, t.f[n]} : Balanced(t, x) => Balanced(v, x)
  BY <1>1, Refreshed
<1>3. \A x \in M \ {n} : Balanced(t, x)
  BY DEF HeightsFrom
<1>4. PICK x, y : x = Subth(t, t.lc[n]) /\ y = Subth(t, t.rc[n])
  OBVIOUS
<1>5. x \in Nat /\ y \in Nat /\ n # Nil
  BY <1>4, Kids, TreeParts
<1>6. PICK a, b \in Nat :
        /\ t.subth[n] = 1 + Higher(a, b)
        /\ a - b \in -1 .. 1
        /\ \/ a = x /\ b - y \in -1 .. 1
           \/ b = y /\ a - x \in -1 .. 1
  BY <1>4, <1>5 DEF HeightsFrom, OneOff
<1>7. v.subth[n] = 1 + Higher(x, y) /\ Inbf(v, n) = x - y
  BY <1>2, <1>4 DEF Tall, Inbf
<1>8. x - y \in -2 .. 2
  BY <1>5, <1>6
<1>9. PICK E, w : /\ Redone(v, u, M, E, O, n, w)
                  /\ Inbf(v, n) \in -1 .. 1 => u.subth[w] = v.subth[n]
  <2>1. Inbf(v, n) \in -2 .. 2
    BY <1>7, <1>8
  <2>2. \A z \in M \ {n, v.f[n]} : Balanced(v, z)
    BY <1>2, <1>3
  <2>3. Shape(v, M, D, O) /\ Tall(v, n)
    BY <1>2
  <2>4. TurnsTo(v, Turned(v, n), M, O, n)
    BY <2>1, <2>2, <2>3, Turns
  <2>5. TurnsTo(v, u, M, O, n)
    BY <1>1, <2>4
  <2> QED
    BY ONLY <2>5 DEF TurnsTo
<1>10. Shape(u, M, E, O) /\ w \in M /\ w # Nil /\ u.subth[w] \in Nat
  <2>1. Shape(u, M, E, O) /\ w \in M
    BY <1>9 DEF Redone
  <2>2. w \in Node /\ w # Nil /\ u \in Trees
    BY <2>1, Kids
  <2> QED
    BY <2>1, <2>2, TreeParts
<1>11. t.subth[n] - u.subth[w] \in -1 .. 1
  <2>1. u.subth[w] \in {v.subth[n] - 1, v.subth[n]}
    BY <1>9 DEF Redone
  <2>2. PICK h, k, g : h = u.subth[w] /\ k = t.subth[n] /\ g = v.subth[n]
    OBVIOUS
  <2>3. /\ k = 1 + (IF a > b THEN a ELSE b)
        /\ g = 1 + (IF x > y THEN x ELSE y)
        /\ h \in {g - 1, g}
        /\ x - y \in -1 .. 1 => h = g
    BY <1>6, <1>7, <1>9, <2>1, <2>2 DEF Higher
  <2>4. k - h \in -1 .. 1
    BY ONLY <1>5, <1>6, <1>8, <2>3
  <2> QED
    BY <2>2, <2>4
<1>12. PICK p : p = t.f[n]
  OBVIOUS
<1>13. p \in M \union {Nil} /\ \A z \in M \ {p} : Balanced(u, z)
  BY <1>2, <1>9, <1>12, Kids DEF Redone
<1>14. ASSUME p # Nil PROVE OneOff(u, p)
  <2>1. p \in M /\ p # n
    BY <1>12, <1>13, <1>14, Kids
  <2>2. PICK c, d : c = Subth(t, t.lc[p]) /\ d = Subth(t, t.rc[p])
    OBVIOUS
  <2>3. c \in Nat /\ d \in Nat
    BY <2>1, <2>2, Kids, TreeParts
  <2>4. t.subth[p] = 1 + Higher(c, d) /\ c - d \in -1 .. 1
    BY <1>3, <2>1, <2>2 DEF Balanced, Tall
  <2>5. Instead(v, u, p, n, w)
    BY <1>2, <1>9, <1>12, <1>14 DEF Redone
  <2>6. u.subth[p] = t.subth[p] /\ Subth(u, w) = u.subth[w] /\ Subth(t, n) = t.subth[n]
    BY <1>2, <1>5, <1>10, <2>1, <2>5 DEF Instead, Subth
  <2>7. /\ t.lc[p] \in M \union {Nil} /\ t.rc[p] \in M \union {Nil}
        /\ t.lc[p] # Nil => t.lc[p] # t.rc[p]
    BY <2>1, Kids
  <2>8. CASE v.lc[p] = n /\ u.lc[p] = w /\ Subth(u, u.rc[p]) = Subth(v, v.rc[p])
    <3>1. c = t.subth[n] /\ Subth(u, u.rc[p]) = d
      BY <1>2, <1>5, <2>2, <2>6, <2>7, <2>8
    <3>2. c - Subth(u, u.lc[p]) \in -1 .. 1
      BY <1>11, <2>6, <2>8, <3>1
    <3> QED
      BY <2>3, <2>4, <2>6, <3>1, <3>2 DEF OneOff
  <2>9. CASE v.rc[p] = n /\ u.rc[p] = w /\ Subth(u, u.lc[p]) = Subth(v, v.lc[p])
    <3>1. d = t.subth[n] /\ Subth(u, u.lc[p]) = c
      BY <1>2, <1>5, <2>2, <2>6, <2>7, <2>9
    <3>2. d - Subth(u, u.rc[p]) \in -1 .. 1
      BY <1>11, <2>6, <2>9, <3>1
    <3> QED
      BY <2>3, <2>4, <2>6, <3>1, <3>2 DEF OneOff
  <2> QED
    BY <2>5, <2>8, <2>9 DEF Instead
<1> QED
  BY <1>10, <1>12, <1>13, <1>14 DEF HeightsFrom

\* avl_ab() stops where nothing has changed.
LEMMA StopKeeps ==
    ASSUME NodeAssumption, NEW t, NEW M, NEW D, NEW O, Order(O), Shape(t, M, D, O),
           NEW at, HeightsFrom(t, M, at), ~(at # Nil /\ NeedsAb(t, at))
    PROVE  \A n \in M : Balanced(t, n)
<1>1. CASE at = Nil
  BY <1>1, Kids DEF HeightsFrom
<1>2. CASE at # Nil /\ Inbf(t, at) \in -1 .. 1 /\ Rfh(t, at) = t
  <2>1. at \in M
    BY <1>2 DEF HeightsFrom
  <2>2. Tall(t, at)
    BY <1>2, <2>1, Refreshed
  <2>3. Balanced(t, at)
    BY <1>2, <2>2 DEF Balanced, Inbf
  <2> QED
    BY <2>3 DEF HeightsFrom
<1> QED
  BY <1>1, <1>2 DEF NeedsAb
-----------------------------------------------------------------------------
(* Insertion.                                                              *)

\* avl_insert() has linked n below p.
IsLinked(t, u, n, p, right) ==
    /\ u \in Trees
    /\ u.root = IF p = Nil THEN n ELSE t.root
    /\ \A x \in Node :
         /\ u.f[x] = IF x = n THEN p ELSE t.f[x]
         /\ u.lc[x] = IF x = n THEN Nil ELSE IF x = p /\ ~right THEN n ELSE t.lc[x]
         /\ u.rc[x] = IF x = n THEN Nil ELSE IF x = p /\ right THEN n ELSE t.rc[x]
         /\ u.subth[x] = IF x = n THEN 1 ELSE t.subth[x]

LEMMA LinkedIs ==
    ASSUME NodeAssumption, NEW t \in Trees, NEW n \in Node, NEW p \in Places, p # n,
           NEW right \in BOOLEAN
    PROVE  IsLinked(t, Linked(t, n, p, right), n, p, right)
<1>1. PICK u1 : u1 = [t EXCEPT !.f[n] = p]
  OBVIOUS
<1>2. /\ u1 \in Trees /\ u1.root = t.root /\ u1.lc = t.lc /\ u1.rc = t.rc /\ u1.subth = t.subth
      /\ \A x \in Node : u1.f[x] = IF x = n THEN p ELSE t.f[x]
  BY ONLY <1>1, t \in Trees, n \in Node, p \in Places DEF Trees
<1>3. PICK u2 : u2 = [u1 EXCEPT !.lc[n] = Nil]
  OBVIOUS
<1>4. /\ u2 \in Trees /\ u2.root = u1.root /\ u2.f = u1.f /\ u2.rc = u1.rc /\ u2.subth = u1.subth
      /\ \A x \in Node : u2.lc[x] = IF x = n THEN Nil ELSE u1.lc[x]
  BY ONLY <1>2, <1>3, n \in Node DEF Trees, Places
<1>5. PICK u3 : u3 = [u2 EXCEPT !.rc[n] = Nil]
  OBVIOUS
<1>6. /\ u3 \in Trees /\ u3.root = u2.root /\ u3.f = u2.f /\ u3.lc = u2.lc /\ u3.subth = u2.subth
      /\ \A x \in Node : u3.rc[x] = IF x = n THEN Nil ELSE u2.rc[x]
  BY ONLY <1>4, <1>5, n \in Node DEF Trees, Places
<1>7. PICK u : u = [u3 EXCEPT !.subth[n] = 1]
  OBVIOUS
<1>8. /\ u \in Trees /\ u.root = u3.root /\ u.f = u3.f /\ u.lc = u3.lc /\ u.rc = u3.rc
      /\ \A x \in Node : u.subth[x] = IF x = n THEN 1 ELSE u3.subth[x]
  BY ONLY <1>6, <1>7, n \in Node DEF Trees
<1>9. u = [t EXCEPT !.f[n] = p, !.lc[n] = Nil, !.rc[n] = Nil, !.subth[n] = 1]
  BY <1>1, <1>3, <1>5, <1>7
<1>10. /\ u \in Trees /\ u.root = t.root
       /\ \A x \in Node :
            /\ u.f[x] = IF x = n THEN p ELSE t.f[x]
            /\ u.lc[x] = IF x = n THEN Nil ELSE t.lc[x]
            /\ u.rc[x] = IF x = n THEN Nil ELSE t.rc[x]
            /\ u.subth[x] = IF x = n THEN 1 ELSE t.subth[x]
  BY <1>2, <1>4, <1>6, <1>8
<1>11. PICK w : w = Linked(t, n, p, right)
  OBVIOUS
<1>12. CASE p = Nil
  <2>1. w = [u EXCEPT !.root = n]
    BY <1>9, <1>11, <1>12 DEF Linked
  <2>2. w \in Trees /\ w.root = n /\ w.f = u.f /\ w.lc = u.lc /\ w.rc = u.rc /\ w.subth = u.subth
    BY ONLY <1>10, <2>1, n \in Node DEF Trees, Places
  <2>3. \A x \in Node : x # p
    BY <1>12, NodeAssumption
  <2> QED
    BY <1>10, <1>11, <1>12, <2>2, <2>3 DEF IsLinked
<1>13. CASE p # Nil /\ right
  <2>1. w = [u EXCEPT !.rc[p] = n]
    BY <1>9, <1>11, <1>13 DEF Linked
  <2>2. p \in Node
    BY <1>13 DEF Places
  <2>3. /\ w \in Trees /\ w.root = u.root /\ w.f = u.f /\ w.lc = u.lc /\ w.subth = u.subth
        /\ \A x \in Node : w.rc[x] = IF x = p THEN n ELSE u.rc[x]
    BY ONLY <1>10, <2>1, <2>2, n \in Node DEF Trees, Places
  <2> QED
    BY <1>10, <1>11, <1>13, <2>3 DEF IsLinked
<1>14. CASE p # Nil /\ ~right
  <2>1. w = [u EXCEPT !.lc[p] = n]
    BY <1>9, <1>11, <1>14 DEF Linked
  <2>2. p \in Node
    BY <1>14 DEF Places
  <2>3. /\ w \in Trees /\ w.root = u.root /\ w.f = u.f /\ w.rc = u.rc /\ w.subth = u.subth
        /\ \A x \in Node : w.lc[x] = IF x = p THEN n ELSE u.lc[x]
    BY ONLY <1>10, <2>1, <2>2, n \in Node DEF Trees, Places
  <2> QED
    BY <1>10, <1>11, <1>14, <2>3 DEF IsLinked
<1> QED
  BY <1>12, <1>13, <1>14

\* Node k belongs where x is: on its side of whatever x hangs below.
Beside(t, M, D, O, x, k) ==
    \A y \in M : /\ x \in D[t.lc[y]] => <<k, y>> \in O
                 /\ x \in D[t.rc[y]] => <<y, k>> \in O

\* The place below p, on the right or on the left, is free and right for k.
FreePlace(t, M, D, O, k, p, right) ==
    /\ p \in M \union {Nil}
    /\ p = Nil => t.root = Nil
    /\ p # Nil => IF right THEN t.rc[p] = Nil /\ <<p, k>> \in O
                  ELSE t.lc[p] = Nil /\ <<k, p>> \in O
    /\ Beside(t, M, D, O, p, k)

LEMMA LinkedShape ==
    ASSUME NodeAssumption, NEW t, NEW M, NEW D, NEW O, Order(O), Shape(t, M, D, O),
           NEW k \in Node \ M, NEW p, NEW right \in BOOLEAN,
           FreePlace(t, M, D, O, k, p, right), NEW u, IsLinked(t, u, k, p, right)
    PROVE  \E E : Shape(u, M \union {k}, E, O)
<1>1. /\ t \in Trees /\ M \subseteq Node /\ D \in [Places -> SUBSET M] /\ D[Nil] = {}
      /\ t.root \in M \union {Nil} /\ D[t.root] = M /\ \A n \in M : Hangs(t, M, D, O, n)
  BY DEF Shape
<1>2. PICK E : E = [x \in Places |-> IF x = k THEN {k}
                                   ELSE IF p \in D[x] THEN D[x] \union {k} ELSE D[x]]
  OBVIOUS
<1>3. k \in Node /\ k # Nil /\ k \notin M /\ p \in M \union {Nil} /\ p # k
  BY NodeAssumption DEF FreePlace
<1>4. /\ E \in [Places -> SUBSET (M \union {k})] /\ E[k] = {k}
      /\ \A x \in M \union {Nil} : E[x] = IF p \in D[x] THEN D[x] \union {k} ELSE D[x]
  BY <1>1, <1>2, <1>3 DEF Places
<1>5. /\ u \in Trees /\ u.root = IF p = Nil THEN k ELSE t.root
      /\ u.f[k] = p /\ u.lc[k] = Nil /\ u.rc[k] = Nil
      /\ \A x \in M : /\ u.f[x] = t.f[x]
                      /\ u.lc[x] = IF x = p /\ ~right THEN k ELSE t.lc[x]
                      /\ u.rc[x] = IF x = p /\ right THEN k ELSE t.rc[x]
  BY <1>1, <1>3 DEF IsLinked
<1>6. E[Nil] = {}
  BY <1>1, <1>4
<1>7. p = Nil => M = {}
  BY <1>1 DEF FreePlace
<1>8. u.root \in M \union {k} /\ E[u.root] = M \union {k}
  <2>1. CASE p = Nil
    BY <1>4, <1>5, <1>7, <2>1
  <2>2. CASE p # Nil
    <3>1. p \in M /\ p \in D[t.root] /\ t.root \in M
      BY <1>1, <1>3, <2>2
    <3> QED
      BY <1>1, <1>4, <1>5, <2>2, <3>1
  <2> QED
    BY <2>1, <2>2
<1>9. Hangs(u, M \union {k}, E, O, k)
  <2>1. p # Nil => k = u.lc[p] \/ k = u.rc[p]
    BY <1>3, <1>5
  <2>2. p = Nil <=> u.root = k
    BY <1>1, <1>3, <1>5
  <2> QED
    BY <1>3, <1>4, <1>5, <1>6, <2>1, <2>2 DEF Hangs
<1>10. ASSUME NEW n \in M PROVE Hangs(u, M \union {k}, E, O, n)
  <2>1. Hangs(t, M, D, O, n) /\ n \in D[n] /\ n \in Node /\ n # k /\ n # Nil
    BY <1>1, <1>3, NodeAssumption DEF Hangs
  <2>2. PICK a, b : a = t.lc[n] /\ b = t.rc[n]
    OBVIOUS
  <2>3. /\ a \in M \union {Nil} /\ b \in M \union {Nil}
        /\ D[n] = {n} \union D[a] \union D[b]
        /\ \A x \in D[a] : <<x, n>> \in O
        /\ \A x \in D[b] : <<n, x>> \in O
        /\ a # Nil => t.f[a] = n
        /\ b # Nil => t.f[b] = n
    BY <2>1, <2>2 DEF Hangs
  <2>4. /\ E[a] = IF p \in D[a] THEN D[a] \union {k} ELSE D[a]
        /\ E[b] = IF p \in D[b] THEN D[b] \union {k} ELSE D[b]
        /\ E[n] = IF p \in D[n] THEN D[n] \union {k} ELSE D[n]
    BY <1>4, <2>3
  <2>5. (p \in D[a] => <<k, n>> \in O) /\ (p \in D[b] => <<n, k>> \in O)
    BY <2>2 DEF FreePlace, Beside
  <2>6. (\A x \in E[a] : <<x, n>> \in O) /\ (\A x \in E[b] : <<n, x>> \in O)
    BY <2>3, <2>4, <2>5
  <2>7. u.f[n] = t.f[n] /\ u.f[n] \in M \union {Nil}
    BY <1>5, <2>1 DEF Hangs
  <2>8. u.f[n] = Nil <=> u.root = n
    <3>1. p # Nil => u.root = t.root
      BY <1>5
    <3>2. p # Nil
      BY <1>7
    <3> QED
      BY <2>1, <2>7, <3>1, <3>2 DEF Hangs
  <2>9. u.f[n] # Nil => n = u.lc[u.f[n]] \/ n = u.rc[u.f[n]]
    <3>1. PICK q : q = t.f[n]
      OBVIOUS
    <3>2. q # Nil => q \in M /\ (n = t.lc[q] \/ n = t.rc[q])
      BY <2>1, <3>1 DEF Hangs
    <3>3. q # Nil /\ n = t.lc[q] => n = u.lc[q]
      BY <1>5, <2>1, <3>2 DEF FreePlace
    <3>4. q # Nil /\ n = t.rc[q] => n = u.rc[q]
      BY <1>5, <2>1, <3>2 DEF FreePlace
    <3> QED
      BY <2>7, <3>1, <3>2, <3>3, <3>4
  <2>10. CASE n # p
    <3>1. u.lc[n] = a /\ u.rc[n] = b
      BY <1>5, <2>2, <2>10
    <3>2. E[n] = {n} \union E[a] \union E[b]
      BY <2>3, <2>4, <2>10
    <3>3. (a # Nil => u.f[a] = n) /\ (b # Nil => u.f[b] = n)
      BY <1>5, <2>3
    <3> QED
      BY <2>3, <2>6, <2>7, <2>8, <2>9, <3>1, <3>2, <3>3 DEF Hangs
  <2>11. CASE n = p /\ right
    <3>1. u.lc[n] = a /\ u.rc[n] = k /\ b = Nil /\ <<n, k>> \in O
      BY <1>5, <2>1, <2>2, <2>11 DEF FreePlace
    <3>2. E[n] = {n} \union E[a] \union E[k]
      BY <1>1, <1>4, <2>1, <2>3, <2>4, <2>11, <3>1
    <3>3. (a # Nil => u.f[a] = n) /\ u.f[k] = n
      BY <1>5, <2>3, <2>11
    <3> QED
      BY <1>4, <2>3, <2>6, <2>7, <2>8, <2>9, <3>1, <3>2, <3>3 DEF Hangs
  <2>12. CASE n = p /\ ~right
    <3>1. u.lc[n] = k /\ u.rc[n] = b /\ a = Nil /\ <<k, n>> \in O
      BY <1>5, <2>1, <2>2, <2>12 DEF FreePlace
    <3>2. E[n] = {n} \union E[k] \union E[b]
      BY <1>1, <1>4, <2>1, <2>3, <2>4, <2>12, <3>1
    <3>3. (b # Nil => u.f[b] = n) /\ u.f[k] = n
      BY <1>5, <2>3, <2>12
    <3> QED
      BY <1>4, <2>3, <2>6, <2>7, <2>8, <2>9, <3>1, <3>2, <3>3 DEF Hangs
  <2> QED
    BY <2>10, <2>11, <2>12
<1>11. Shape(u, M \union {k}, E, O)
  BY <1>1, <1>3, <1>4, <1>5, <1>6, <1>8, <1>9, <1>10 DEF Shape
<1> QED
  BY <1>11

LEMMA LinkedHeights ==
    ASSUME NodeAssumption, NEW t, NEW M, NEW D, NEW O, Order(O), Shape(t, M, D, O),
           \A n \in M : Balanced(t, n),
           NEW k \in Node \ M, NEW p, NEW right \in BOOLEAN,
           FreePlace(t, M, D, O, k, p, right), NEW u, IsLinked(t, u, k, p, right)
    PROVE  HeightsFrom(u, M \union {k}, p)
<1>1. /\ k \in Node /\ k # Nil /\ k \notin M /\ p \in M \union {Nil} /\ M \subseteq Node
      /\ t \in Trees
  BY NodeAssumption DEF FreePlace, Shape
<1>2. /\ u.lc[k] = Nil /\ u.rc[k] = Nil /\ u.subth[k] = 1
      /\ \A x \in M : /\ u.lc[x] = IF x = p /\ ~right THEN k ELSE t.lc[x]
                      /\ u.rc[x] = IF x = p /\ right THEN k ELSE t.rc[x]
                      /\ u.subth[x] = t.subth[x]
  BY <1>1 DEF IsLinked
<1>3. Balanced(u, k)
  BY <1>2 DEF Balanced, Tall, Higher, Subth
<1>4. \A x \in M \union {Nil} : Subth(u, x) = Subth(t, x)
  BY <1>1, <1>2 DEF Subth
<1>5. \A x \in M : t.lc[x] \in M \union {Nil} /\ t.rc[x] \in M \union {Nil}
  BY Kids
<1>6. ASSUME NEW x \in M, x # p PROVE Balanced(u, x)
  <2>1. KeptAt(t, u, x)
    BY <1>2, <1>4, <1>5, <1>6 DEF KeptAt
  <2> QED
    BY <2>1, KeptBalanced
<1>7. ASSUME p # Nil PROVE OneOff(u, p)
  <2>1. p \in M /\ p \in Node
    BY <1>1, <1>7
  <2>2. PICK a, b : a = Subth(t, t.lc[p]) /\ b = Subth(t, t.rc[p])
    OBVIOUS
  <2>3. a \in Nat /\ b \in Nat /\ u.subth[p] = 1 + Higher(a, b) /\ a - b \in -1 .. 1
    BY <1>1, <1>2, <2>1, <2>2, TreeParts DEF Balanced, Tall
  <2>4. Subth(u, k) = 1
    BY <1>1, <1>2 DEF Subth
  <2>5. CASE right
    <3>1. Subth(u, u.lc[p]) = a /\ Subth(u, u.rc[p]) = 1 /\ b = 0
      BY <1>2, <1>4, <1>5, <1>7, <2>1, <2>2, <2>4, <2>5 DEF FreePlace, Subth
    <3> QED
      BY <2>3, <3>1 DEF OneOff
  <2>6. CASE ~right
    <3>1. Subth(u, u.lc[p]) = 1 /\ Subth(u, u.rc[p]) = b /\ a = 0
      BY <1>2, <1>4, <1>5, <1>7, <2>1, <2>2, <2>4, <2>6 DEF FreePlace, Subth
    <3> QED
      BY <2>3, <3>1 DEF OneOff
  <2> QED
    BY <2>5, <2>6
<1> QED
  BY <1>1, <1>3, <1>6, <1>7 DEF HeightsFrom
-----------------------------------------------------------------------------
(* avl_ndcut().                                                            *)

\* avl_ndcut() has taken n out, and its child c has its place.
IsCut(t, u, n, c) ==
    /\ u \in Trees
    /\ u.root = IF t.f[n] = Nil THEN c ELSE t.root
    /\ u.subth = t.subth
    /\ \A x \in Node :
         /\ u.f[x] = IF x = c THEN t.f[n] ELSE t.f[x]
         /\ u.lc[x] = IF x = t.f[n] /\ t.lc[x] = n THEN c ELSE t.lc[x]
         /\ u.rc[x] = IF x = t.f[n] /\ t.lc[x] # n THEN c ELSE t.rc[x]

\* The child that node n, which has no other, leaves in its place.
Only(t, n) == IF t.lc[n] = Nil THEN t.rc[n] ELSE t.lc[n]

LEMMA NdcutIs ==
    ASSUME NodeAssumption, NEW t \in Trees, NEW n \in Node
    PROVE  IsCut(t, Ndcut(t, n), n, Only(t, n))
<1>1. PICK c, p : c = Only(t, n) /\ p = t.f[n]
  OBVIOUS
<1>2. c \in Places /\ p \in Places
  BY <1>1, TreeParts DEF Only
<1>3. PICK v : v = SetFather(t, c, p)
  OBVIOUS
<1>4. Refathered(t, v, c, p)
  BY <1>2, <1>3, SetFatherIs
<1>5. v \in Trees
  BY <1>4 DEF Refathered
<1>6. Swung(v, Relink(v, p, n, c), p, n, c)
  BY <1>2, <1>5, RelinkIs
<1>7. Ndcut(t, n) = Relink(v, p, n, c)
  BY <1>1, <1>3 DEF Ndcut, Only
<1>8. PICK u : u = Ndcut(t, n)
  OBVIOUS
<1>9. Swung(v, u, p, n, c)
  BY <1>6, <1>7, <1>8
<1>10. IsCut(t, u, n, c)
  BY <1>1, <1>4, <1>9 DEF Swung, Refathered, IsCut
<1> QED
  BY <1>1, <1>8, <1>10

\* Between the nodes that stay, c takes the place of n.
CutLinks(t, u, M, D, n, c) ==
    /\ n \in M /\ c \in (M \ {n}) \union {Nil}
    /\ D[n] = {n} \union D[c] /\ n \notin D[c]
    /\ c # Nil => t.f[c] = n
    /\ \A x \in M \ {n} :
         /\ u.lc[x] = IF t.lc[x] = n THEN c ELSE t.lc[x]
         /\ u.rc[x] = IF t.rc[x] = n THEN c ELSE t.rc[x]
         /\ u.f[x] = IF x = c THEN t.f[n] ELSE t.f[x]
         /\ x = t.f[n] <=> t.lc[x] = n \/ t.rc[x] = n
         /\ t.f[x] = n => x = c
    /\ u.root = IF t.f[n] = Nil THEN c ELSE t.root
    /\ u.subth = t.subth

LEMMA CutLinked ==
    ASSUME NodeAssumption, NEW t, NEW M, NEW D, NEW O, Order(O), Shape(t, M, D, O),
           NEW n \in M, t.lc[n] = Nil \/ t.rc[n] = Nil,
           NEW c, c = Only(t, n), NEW u, IsCut(t, u, n, c)
    PROVE  CutLinks(t, u, M, D, n, c)
<1>1. /\ t \in Trees /\ M \subseteq Node /\ n \in Node /\ n \in D[n] /\ n # Nil
      /\ t.lc[n] \in M \union {Nil} /\ t.rc[n] \in M \union {Nil}
      /\ t.f[n] \in M \union {Nil} /\ t.lc[n] # n /\ t.rc[n] # n /\ t.f[n] # n
      /\ t.lc[n] # Nil => t.f[t.lc[n]] = n
      /\ t.rc[n] # Nil => t.f[t.rc[n]] = n
      /\ t.f[n] # Nil => n = t.lc[t.f[n]] \/ n = t.rc[t.f[n]]
  BY Kids
<1>2. c \in (M \ {n}) \union {Nil} /\ (c # Nil => t.f[c] = n)
  BY <1>1 DEF Only
<1>3. D[n] = {n} \union D[c] /\ n \notin D[c]
  <2>1. Hangs(t, M, D, O, n) /\ D[Nil] = {} /\ <<n, n>> \notin O
    BY <1>1 DEF Shape, Order
  <2> QED
    BY <2>1 DEF Hangs, Only
<1>4. ASSUME NEW x \in M \ {n}
      PROVE  /\ u.lc[x] = IF t.lc[x] = n THEN c ELSE t.lc[x]
             /\ u.rc[x] = IF t.rc[x] = n THEN c ELSE t.rc[x]
             /\ u.f[x] = IF x = c THEN t.f[n] ELSE t.f[x]
             /\ x = t.f[n] <=> t.lc[x] = n \/ t.rc[x] = n
             /\ t.f[x] = n => x = c
  <2>1. /\ x \in Node /\ x # Nil
        /\ t.lc[x] # Nil => t.lc[x] # t.rc[x] /\ t.f[t.lc[x]] = x
        /\ t.rc[x] # Nil => t.f[t.rc[x]] = x
        /\ t.f[x] # Nil => x = t.lc[t.f[x]] \/ x = t.rc[t.f[x]]
    BY Kids
  <2>2. /\ u.f[x] = IF x = c THEN t.f[n] ELSE t.f[x]
        /\ u.lc[x] = IF x = t.f[n] /\ t.lc[x] = n THEN c ELSE t.lc[x]
        /\ u.rc[x] = IF x = t.f[n] /\ t.lc[x] # n THEN c ELSE t.rc[x]
    BY <2>1 DEF IsCut
  <2>3. x = t.f[n] <=> t.lc[x] = n \/ t.rc[x] = n
    BY <1>1, <2>1
  <2>4. t.f[x] = n => x = c
    BY <1>1, <2>1 DEF Only
  <2> QED
    BY <1>1, <2>1, <2>2, <2>3, <2>4
<1> QED
  BY <1>2, <1>3, <1>4 DEF CutLinks, IsCut

LEMMA CutShape ==
    ASSUME NodeAssumption, NEW t, NEW M, NEW D, NEW O, Order(O), Shape(t, M, D, O),
           NEW n, NEW c, NEW u \in Trees, CutLinks(t, u, M, D, n, c)
    PROVE  Shape(u, M \ {n}, [x \in Places |-> D[x] \ {n}], O)
<1>1. /\ t \in Trees /\ M \subseteq Node /\ D \in [Places -> SUBSET M] /\ D[Nil] = {}
      /\ t.root \in M \union {Nil} /\ D[t.root] = M /\ \A x \in M : Hangs(t, M, D, O, x)
  BY DEF Shape
<1>2. PICK N : N = M \ {n}
  OBVIOUS
<1>3. PICK E : E = [x \in Places |-> D[x] \ {n}]
  OBVIOUS
<1>4. N \subseteq Node /\ n \in M /\ c \in N \union {Nil} /\ n # Nil
  BY <1>1, <1>2, NodeAssumption DEF CutLinks
<1>5. /\ E \in [Places -> SUBSET N] /\ E[Nil] = {}
      /\ \A x \in M \union {Nil} : E[x] = D[x] \ {n}
  BY <1>1, <1>2, <1>3 DEF Places
<1>6. E[c] = D[n] \ {n}
  BY <1>4, <1>5 DEF CutLinks
<1>7. /\ t.f[n] \in M \union {Nil} /\ t.f[n] # n
      /\ t.f[n] = Nil <=> t.root = n
  BY <1>4, Kids
<1>8. u.root \in N \union {Nil} /\ E[u.root] = N
  <2>1. CASE t.f[n] = Nil
    BY <1>1, <1>2, <1>4, <1>6, <1>7, <2>1 DEF CutLinks
  <2>2. CASE t.f[n] # Nil
    BY <1>1, <1>2, <1>5, <1>7, <2>2 DEF CutLinks
  <2> QED
    BY <2>1, <2>2
<1>9. ASSUME NEW x \in N PROVE Hangs(u, N, E, O, x)
  <2>1. /\ x \in Node /\ x # Nil /\ x \in M
        /\ t.lc[x] \in M \union {Nil} /\ t.rc[x] \in M \union {Nil}
        /\ t.f[x] \in M \union {Nil} /\ t.f[x] # x
        /\ t.lc[x] # Nil => t.lc[x] # t.rc[x] /\ t.f[t.lc[x]] = x
        /\ t.rc[x] # Nil => t.f[t.rc[x]] = x
        /\ t.f[x] = Nil <=> t.root = x
        /\ t.f[x] # Nil => x = t.lc[t.f[x]] \/ x = t.rc[t.f[x]]
    BY <1>2, Kids
  <2>2. /\ D[x] = {x} \union D[t.lc[x]] \union D[t.rc[x]]
        /\ \A y \in D[t.lc[x]] : <<y, x>> \in O
        /\ \A y \in D[t.rc[x]] : <<x, y>> \in O
    BY <1>1, <2>1 DEF Hangs
  <2>3. /\ u.lc[x] = IF t.lc[x] = n THEN c ELSE t.lc[x]
        /\ u.rc[x] = IF t.rc[x] = n THEN c ELSE t.rc[x]
        /\ u.f[x] = IF x = c THEN t.f[n] ELSE t.f[x]
        /\ x = t.f[n] <=> t.lc[x] = n \/ t.rc[x] = n
        /\ t.f[x] = n => x = c
    BY <1>2 DEF CutLinks
  <2>4. /\ u.lc[x] \in N \union {Nil} /\ E[u.lc[x]] = D[t.lc[x]] \ {n}
        /\ u.rc[x] \in N \union {Nil} /\ E[u.rc[x]] = D[t.rc[x]] \ {n}
    BY <1>2, <1>4, <1>5, <1>6, <2>1, <2>3
  <2>5. E[x] = {x} \union E[u.lc[x]] \union E[u.rc[x]]
    BY <1>2, <1>5, <2>1, <2>2, <2>4
  <2>6. c # Nil => t.f[c] = n /\ u.f[c] = t.f[n]
    BY <1>2, <1>4 DEF CutLinks
  <2>7. /\ u.lc[x] # Nil => u.f[u.lc[x]] = x
        /\ u.rc[x] # Nil => u.f[u.rc[x]] = x
    <3>1. \A a \in N : a # c => u.f[a] = t.f[a]
      BY <1>2 DEF CutLinks
    <3>2. /\ t.lc[x] = n /\ c # Nil => u.f[c] = x
          /\ t.rc[x] = n /\ c # Nil => u.f[c] = x
      BY <2>3, <2>6
    <3>3. /\ t.lc[x] # Nil => t.lc[x] # c
          /\ t.rc[x] # Nil => t.rc[x] # c
      BY <1>2, <1>4, <2>1, <2>6
    <3> QED
      BY <1>2, <2>1, <2>3, <2>4, <3>1, <3>2, <3>3
  <2>8. u.f[x] \in N \union {Nil}
    BY <1>2, <1>7, <2>1, <2>3
  <2>9. u.f[x] = Nil <=> u.root = x
    BY <1>2, <1>4, <1>7, <2>1, <2>3, <2>6 DEF CutLinks
  <2>10. u.f[x] # Nil => x = u.lc[u.f[x]] \/ x = u.rc[u.f[x]]
    <3>1. PICK q : q = u.f[x]
      OBVIOUS
    <3>2. q \in N => /\ u.lc[q] = IF t.lc[q] = n THEN c ELSE t.lc[q]
                     /\ u.rc[q] = IF t.rc[q] = n THEN c ELSE t.rc[q]
                     /\ q = t.f[n] <=> t.lc[q] = n \/ t.rc[q] = n
      BY <1>2 DEF CutLinks
    <3> QED
      BY <1>2, <2>1, <2>3, <2>8, <3>1, <3>2
  <2>11. /\ \A y \in E[u.lc[x]] : <<y, x>> \in O
         /\ \A y \in E[u.rc[x]] : <<x, y>> \in O
    BY <2>2, <2>4
  <2> QED
    BY <2>4, <2>5, <2>7, <2>8, <2>9, <2>10, <2>11 DEF Hangs
<1>10. Shape(u, N, E, O)
  BY <1>4, <1>5, <1>8, <1>9 DEF Shape
<1> QED
  BY <1>2, <1>3, <1>10

LEMMA CutHeights ==
    ASSUME NodeAssumption, NEW t, NEW M, NEW D, NEW O, Order(O), Shape(t, M, D, O),
           \A x \in M : Balanced(t, x),
           NEW n \in M, t.lc[n] = Nil \/ t.rc[n] = Nil,
           NEW c, c = Only(t, n), NEW u \in Trees, CutLinks(t, u, M, D, n, c)
    PROVE  HeightsFrom(u, M \ {n}, t.f[n])
<1>1. /\ t \in Trees /\ M \subseteq Node /\ n \in Node /\ n # Nil
      /\ t.lc[n] \in M \union {Nil} /\ t.rc[n] \in M \union {Nil}
      /\ t.f[n] \in M \union {Nil} /\ t.f[n] # n
  BY Kids
<1>2. \A x : Subth(u, x) = Subth(t, x)
  BY DEF CutLinks, Subth
<1>3. t.subth[n] = 1 + Subth(t, c)
  <2>1. t.subth[n] = 1 + Higher(Subth(t, t.lc[n]), Subth(t, t.rc[n]))
    BY DEF Balanced, Tall
  <2>2. \A a \in Nat : Higher(a, 0) = a /\ Higher(0, a) = a
    BY DEF Higher
  <2>3. Subth(t, Nil) = 0 /\ Subth(t, t.lc[n]) \in Nat /\ Subth(t, t.rc[n]) \in Nat
    BY <1>1, TreeParts DEF Subth
  <2> QED
    BY <2>1, <2>2, <2>3 DEF Only
<1>4. ASSUME NEW x \in M \ {n}, x # t.f[n] PROVE Balanced(u, x)
  <2>1. u.lc[x] = t.lc[x] /\ u.rc[x] = t.rc[x] /\ u.subth[x] = t.subth[x]
    BY <1>4 DEF CutLinks
  <2>2. KeptAt(t, u, x)
    BY <1>2, <2>1 DEF KeptAt
  <2> QED
    BY <2>2, KeptBalanced
<1>5. ASSUME t.f[n] # Nil PROVE OneOff(u, t.f[n])
  <2>1. PICK p : p = t.f[n]
    OBVIOUS
  <2>2. p \in M \ {n} /\ p \in Node
    BY <1>1, <1>5, <2>1
  <2>3. PICK a, b : a = Subth(t, t.lc[p]) /\ b = Subth(t, t.rc[p])
    OBVIOUS
  <2>4. a \in Nat /\ b \in Nat /\ t.subth[p] = 1 + Higher(a, b) /\ a - b \in -1 .. 1
    BY <1>1, <2>2, <2>3, TreeParts DEF Balanced, Tall
  <2>5. /\ u.lc[p] = IF t.lc[p] = n THEN c ELSE t.lc[p]
        /\ u.rc[p] = IF t.rc[p] = n THEN c ELSE t.rc[p]
        /\ t.lc[p] = n \/ t.rc[p] = n
        /\ u.subth[p] = t.subth[p]
    BY <2>1, <2>2 DEF CutLinks
  <2>6. t.lc[p] # Nil => t.lc[p] # t.rc[p]
    BY <2>2, Kids
  <2>7. Subth(t, c) \in Nat /\ Subth(t, n) = 1 + Subth(t, c)
    <3>1. c \in Places
      BY <1>1, TreeParts DEF Only
    <3> QED
      BY <1>1, <1>3, <3>1, TreeParts DEF Subth
  <2>8. CASE t.lc[p] = n
    <3>1. Subth(u, u.rc[p]) = b /\ a = 1 + Subth(u, u.lc[p])
      BY <1>1, <1>2, <2>3, <2>5, <2>6, <2>7, <2>8
    <3>2. a - Subth(u, u.lc[p]) \in -1 .. 1
      BY <1>2, <2>5, <2>7, <2>8, <3>1
    <3> QED
      BY <2>1, <2>4, <2>5, <3>1, <3>2 DEF OneOff
  <2>9. CASE t.rc[p] = n
    <3>1. Subth(u, u.lc[p]) = a /\ b = 1 + Subth(u, u.rc[p])
      BY <1>1, <1>2, <2>3, <2>5, <2>6, <2>7, <2>9
    <3>2. b - Subth(u, u.rc[p]) \in -1 .. 1
      BY <1>2, <2>5, <2>7, <2>9, <3>1
    <3> QED
      BY <2>1, <2>4, <2>5, <3>1, <3>2 DEF OneOff
  <2> QED
    BY <2>5, <2>8, <2>9
<1> QED
  BY <1>1, <1>4, <1>5 DEF HeightsFrom
-----------------------------------------------------------------------------
(* A node in the place of another.                                         *)

\* m has been given the links of n.
IsSeated(t, u, n, m) ==
    /\ u \in Trees
    /\ u.root = IF t.f[n] = Nil THEN m ELSE t.root
    /\ \A x \in Node :
         /\ u.f[x] = IF x \in {t.lc[n], t.rc[n]} THEN m ELSE IF x = m THEN t.f[n] ELSE t.f[x]
         /\ u.lc[x] = IF x = t.f[n] /\ t.lc[x] = n THEN m
                      ELSE IF x = m THEN t.lc[n] ELSE t.lc[x]
         /\ u.rc[x] = IF x = t.f[n] /\ t.lc[x] # n THEN m
                      ELSE IF x = m THEN t.rc[n] ELSE t.rc[x]
         /\ u.subth[x] = IF x = m THEN t.subth[n] ELSE t.subth[x]

LEMMA SeatedIs ==
    ASSUME NodeAssumption, NEW t \in Trees, NEW n \in Node, NEW m \in Node, m # t.f[n]
    PROVE  IsSeated(t, Seated(t, n, m), n, m)
<1>a. PICK p, a, b, h : p = t.f[n] /\ a = t.lc[n] /\ b = t.rc[n] /\ h = t.subth[n]
  OBVIOUS
<1>b. p \in Places /\ a \in Places /\ b \in Places /\ h \in Nat /\ m \in Places /\ m # p
  BY <1>a, TreeParts DEF Places
<1>1. PICK u1 : u1 = [t EXCEPT !.f[m] = p]
  OBVIOUS
<1>2. /\ u1 \in Trees /\ u1.root = t.root /\ u1.lc = t.lc /\ u1.rc = t.rc /\ u1.subth = t.subth
      /\ \A x \in Node : u1.f[x] = IF x = m THEN p ELSE t.f[x]
  BY ONLY <1>1, <1>b, t \in Trees, m \in Node DEF Trees
<1>3. PICK u2 : u2 = [u1 EXCEPT !.lc[m] = a]
  OBVIOUS
<1>4. /\ u2 \in Trees /\ u2.root = u1.root /\ u2.f = u1.f /\ u2.rc = u1.rc /\ u2.subth = u1.subth
      /\ \A x \in Node : u2.lc[x] = IF x = m THEN a ELSE u1.lc[x]
  BY ONLY <1>2, <1>3, <1>b, m \in Node DEF Trees
<1>5. PICK u3 : u3 = [u2 EXCEPT !.rc[m] = b]
  OBVIOUS
<1>6. /\ u3 \in Trees /\ u3.root = u2.root /\ u3.f = u2.f /\ u3.lc = u2.lc /\ u3.subth = u2.subth
      /\ \A x \in Node : u3.rc[x] = IF x = m THEN b ELSE u2.rc[x]
  BY ONLY <1>4, <1>5, <1>b, m \in Node DEF Trees
<1>7. PICK u : u = [u3 EXCEPT !.subth[m] = h]
  OBVIOUS
<1>8. /\ u \in Trees /\ u.root = u3.root /\ u.f = u3.f /\ u.lc = u3.lc /\ u.rc = u3.rc
      /\ \A x \in Node : u.subth[x] = IF x = m THEN h ELSE u3.subth[x]
  BY ONLY <1>6, <1>7, <1>b, m \in Node DEF Trees
<1>9. u = [t EXCEPT !.f[m] = p, !.lc[m] = a, !.rc[m] = b, !.subth[m] = h]
  BY <1>1, <1>3, <1>5, <1>7
<1>10. u.lc[m] = a /\ u.rc[m] = b
  BY <1>2, <1>4, <1>6, <1>8
<1>11. PICK v : v = SetFather(u, a, m)
  OBVIOUS
<1>12. Refathered(u, v, a, m)
  BY <1>8, <1>11, <1>b, SetFatherIs
<1>13. PICK w : w = SetFather(v, b, m)
  OBVIOUS
<1>14. v \in Trees
  BY <1>12 DEF Refathered
<1>15. Refathered(v, w, b, m)
  BY <1>13, <1>14, <1>b, SetFatherIs
<1>16. PICK z : z = Relink(w, p, n, m)
  OBVIOUS
<1>17. w \in Trees
  BY <1>15 DEF Refathered
<1>18. Swung(w, z, p, n, m)
  BY <1>16, <1>17, <1>b, RelinkIs
<1>19. v.rc[m] = b
  BY <1>10, <1>12 DEF Refathered
<1>20. SetFather(u, u.lc[m], m).rc[m] = b
  BY <1>10, <1>11, <1>19
<1>21. Seated(t, n, m) = z
  <2>1. u = [t EXCEPT !.f[m] = t.f[n], !.lc[m] = t.lc[n], !.rc[m] = t.rc[n],
                      !.subth[m] = t.subth[n]]
    BY <1>9, <1>a
  <2>2. Seated(t, n, m) = Relink(SetFather(SetFather(u, u.lc[m], m), u.rc[m], m), t.f[n], n, m)
    BY <2>1 DEF Seated
  <2> QED
    BY <2>2, <1>10, <1>11, <1>13, <1>16, <1>a
<1>22. /\ w.root = t.root
       /\ \A x \in Node :
            /\ w.f[x] = IF x \in {a, b} THEN m ELSE IF x = m THEN p ELSE t.f[x]
            /\ w.lc[x] = IF x = m THEN a ELSE t.lc[x]
            /\ w.rc[x] = IF x = m THEN b ELSE t.rc[x]
            /\ w.subth[x] = IF x = m THEN h ELSE t.subth[x]
  BY <1>2, <1>4, <1>6, <1>8, <1>12, <1>15 DEF Refathered
<1>23. /\ z \in Trees
       /\ z.root = IF p = Nil THEN m ELSE t.root
       /\ z.f = w.f /\ z.subth = w.subth
       /\ \A x \in Node :
            /\ z.lc[x] = IF x = p /\ w.lc[x] = n THEN m ELSE w.lc[x]
            /\ z.rc[x] = IF x = p /\ w.lc[x] # n THEN m ELSE w.rc[x]
  BY <1>18, <1>22 DEF Swung
<1>24. IsSeated(t, z, n, m)
  BY <1>22, <1>23, <1>a, <1>b DEF IsSeated
<1> QED
  BY <1>21, <1>24

\* m stands where n stood.
At(n, m, x) == IF x = n THEN m ELSE x

\* u is t with m for n.
Renamed(t, u, M, n, m) ==
    /\ n \in M /\ m \notin M /\ m \in Node
    /\ u.root = At(n, m, t.root)
    /\ \A x \in M : /\ u.lc[At(n, m, x)] = At(n, m, t.lc[x])
                    /\ u.rc[At(n, m, x)] = At(n, m, t.rc[x])
                    /\ u.f[At(n, m, x)] = At(n, m, t.f[x])
                    /\ u.subth[At(n, m, x)] = t.subth[x]

LEMMA SeatedRenames ==
    ASSUME NodeAssumption, NEW t, NEW M, NEW D, NEW O, Order(O), Shape(t, M, D, O),
           NEW n \in M, NEW m \in Node \ M, NEW u, IsSeated(t, u, n, m)
    PROVE  Renamed(t, u, M, n, m)
<1>1. /\ t \in Trees /\ M \subseteq Node /\ n \in Node /\ n # Nil /\ m # Nil
      /\ t.lc[n] \in M \union {Nil} /\ t.rc[n] \in M \union {Nil}
      /\ t.f[n] \in M \union {Nil} /\ t.lc[n] # n /\ t.rc[n] # n /\ t.f[n] # n
      /\ t.lc[n] # Nil => t.lc[n] # t.rc[n] /\ t.f[t.lc[n]] = n
      /\ t.rc[n] # Nil => t.f[t.rc[n]] = n
      /\ t.f[n] = Nil <=> t.root = n
      /\ t.f[n] # Nil => n = t.lc[t.f[n]] \/ n = t.rc[t.f[n]]
  BY Kids, NodeAssumption
<1>2. u.root = At(n, m, t.root)
  BY <1>1 DEF IsSeated, At
<1>3. /\ u.lc[m] = At(n, m, t.lc[n]) /\ u.rc[m] = At(n, m, t.rc[n])
      /\ u.f[m] = At(n, m, t.f[n]) /\ u.subth[m] = t.subth[n]
  <2>1. m # t.f[n] /\ m \notin {t.lc[n], t.rc[n]}
    BY <1>1
  <2> QED
    BY <1>1, <2>1 DEF IsSeated, At
<1>4. ASSUME NEW x \in M, x # n
      PROVE  /\ u.lc[x] = At(n, m, t.lc[x]) /\ u.rc[x] = At(n, m, t.rc[x])
             /\ u.f[x] = At(n, m, t.f[x]) /\ u.subth[x] = t.subth[x]
  <2>1. /\ x \in Node /\ x # Nil /\ x # m
        /\ t.lc[x] # Nil => t.lc[x] # t.rc[x] /\ t.f[t.lc[x]] = x
        /\ t.rc[x] # Nil => t.f[t.rc[x]] = x
        /\ t.f[x] # Nil => x = t.lc[t.f[x]] \/ x = t.rc[t.f[x]]
    BY Kids
  <2>2. /\ u.f[x] = IF x \in {t.lc[n], t.rc[n]} THEN m ELSE t.f[x]
        /\ u.lc[x] = IF x = t.f[n] /\ t.lc[x] = n THEN m ELSE t.lc[x]
        /\ u.rc[x] = IF x = t.f[n] /\ t.lc[x] # n THEN m ELSE t.rc[x]
        /\ u.subth[x] = t.subth[x]
    BY <2>1 DEF IsSeated
  <2>3. x = t.f[n] <=> t.lc[x] = n \/ t.rc[x] = n
    BY <1>1, <2>1
  <2>4. x \in {t.lc[n], t.rc[n]} <=> t.f[x] = n
    BY <1>1, <2>1
  <2>5. t.lc[x] = n => t.rc[x] # n
    BY <1>1, <2>1
  <2> QED
    BY <2>2, <2>3, <2>4, <2>5 DEF At
<1> QED
  BY <1>2, <1>3, <1>4 DEF Renamed, At

\* m fits where n stands.
Fits(t, M, D, O, n, m) ==
    /\ \A x \in D[t.lc[n]] : <<x, m>> \in O
    /\ \A x \in D[t.rc[n]] : <<m, x>> \in O
    /\ Beside(t, M, D, O, n, m)

LEMMA RenamedShape ==
    ASSUME NodeAssumption, NEW t, NEW M, NEW D, NEW O, Order(O), Shape(t, M, D, O),
           NEW n \in M, NEW m \in Node \ M, NEW u \in Trees, Renamed(t, u, M, n, m),
           Fits(t, M, D, O, n, m)
    PROVE  \E E : Shape(u, (M \ {n}) \union {m}, E, O)
<1>1. /\ t \in Trees /\ M \subseteq Node /\ D \in [Places -> SUBSET M] /\ D[Nil] = {}
      /\ t.root \in M \union {Nil} /\ D[t.root] = M /\ \A x \in M : Hangs(t, M, D, O, x)
  BY DEF Shape
<1>2. PICK N : N = (M \ {n}) \union {m}
  OBVIOUS
<1>3. PICK E : E = [x \in Places |-> IF x \in N THEN {At(n, m, y) : y \in D[At(m, n, x)]}
                                     ELSE {}]
  OBVIOUS
<1>4. N \subseteq Node /\ Nil \notin N /\ Nil \notin M
  BY <1>1, <1>2, NodeAssumption
<1>5. /\ \A x \in M : At(n, m, x) \in N /\ At(m, n, At(n, m, x)) = x
      /\ \A x \in N : At(m, n, x) \in M /\ At(n, m, At(m, n, x)) = x
      /\ At(n, m, Nil) = Nil
      /\ \A x, y \in M \union {Nil} : At(n, m, x) = At(n, m, y) => x = y
  BY <1>2, <1>4 DEF At
<1>6. \A x \in M \union {Nil} : E[At(n, m, x)] = {At(n, m, y) : y \in D[x]}
  <2>1. E[Nil] = {}
    BY <1>3, <1>4 DEF Places
  <2>2. \A x \in M : E[At(n, m, x)] = {At(n, m, y) : y \in D[x]}
    BY <1>3, <1>4, <1>5 DEF Places
  <2>3. {At(n, m, y) : y \in {}} = {}
    OBVIOUS
  <2> QED
    BY <1>1, <1>5, <2>1, <2>2, <2>3
<1>7. E \in [Places -> SUBSET N] /\ E[Nil] = {}
  <2>1. \A x \in N : D[At(m, n, x)] \subseteq M
    BY <1>1, <1>5 DEF Places
  <2> QED
    BY <1>3, <1>4, <1>5, <2>1 DEF Places
<1>8. u.root \in N \union {Nil} /\ E[u.root] = N
  <2>1. u.root = At(n, m, t.root)
    BY DEF Renamed
  <2>2. {At(n, m, y) : y \in M} = N
    BY <1>2 DEF At
  <2>3. t.root \in M \union {Nil} /\ D[t.root] = M
    BY <1>1
  <2>4. E[u.root] = {At(n, m, y) : y \in D[t.root]}
    BY <1>6, <2>1, <2>3
  <2>5. u.root \in N \union {Nil}
    BY <1>5, <2>1, <2>3
  <2> QED
    BY <2>2, <2>3, <2>4, <2>5
<1>9. ASSUME NEW z \in M PROVE Hangs(u, N, E, O, At(n, m, z))
  <2>1. PICK a, b, p : a = t.lc[z] /\ b = t.rc[z] /\ p = t.f[z]
    OBVIOUS
  <2>2. PICK x : x = At(n, m, z)
    OBVIOUS
  <2>3. /\ a \in M \union {Nil} /\ b \in M \union {Nil} /\ p \in M \union {Nil}
        /\ D[z] = {z} \union D[a] \union D[b]
        /\ \A y \in D[a] : <<y, z>> \in O
        /\ \A y \in D[b] : <<z, y>> \in O
        /\ a # Nil => t.f[a] = z
        /\ b # Nil => t.f[b] = z
        /\ p = Nil <=> t.root = z
        /\ p # Nil => z = t.lc[p] \/ z = t.rc[p]
    BY <1>1, <2>1 DEF Hangs
  <2>4. /\ u.lc[x] = At(n, m, a) /\ u.rc[x] = At(n, m, b) /\ u.f[x] = At(n, m, p)
        /\ u.root = At(n, m, t.root)
    BY <2>1, <2>2 DEF Renamed
  <2>5. /\ u.lc[x] \in N \union {Nil} /\ u.rc[x] \in N \union {Nil} /\ u.f[x] \in N \union {Nil}
    BY <1>5, <2>3, <2>4
  <2>6. E[x] = {x} \union E[u.lc[x]] \union E[u.rc[x]]
    <3>1. /\ E[x] = {At(n, m, y) : y \in D[z]}
          /\ E[u.lc[x]] = {At(n, m, y) : y \in D[a]}
          /\ E[u.rc[x]] = {At(n, m, y) : y \in D[b]}
      BY <1>6, <2>2, <2>3, <2>4
    <3> QED
      BY <2>2, <2>3, <3>1
  <2>7. /\ \A y \in E[u.lc[x]] : <<y, x>> \in O
        /\ \A y \in E[u.rc[x]] : <<x, y>> \in O
    <3>1. /\ E[u.lc[x]] = {At(n, m, y) : y \in D[a]}
          /\ E[u.rc[x]] = {At(n, m, y) : y \in D[b]}
      BY <1>6, <2>3, <2>4
    <3>2. (n \in D[a] => <<m, z>> \in O) /\ (n \in D[b] => <<z, m>> \in O)
      BY <2>1 DEF Fits, Beside
    <3>3. CASE z = n
      <4>1. n \notin D[a] /\ n \notin D[b]
        BY <1>1, <2>3, <3>3 DEF Order
      <4>2. /\ \A y \in D[a] : <<y, m>> \in O
            /\ \A y \in D[b] : <<m, y>> \in O
        BY <2>1, <3>3 DEF Fits
      <4> QED
        BY <2>2, <3>1, <3>3, <4>1, <4>2 DEF At
    <3>4. CASE z # n
      BY <2>2, <2>3, <3>1, <3>2, <3>4 DEF At
    <3> QED
      BY <3>3, <3>4
  <2>8. (u.lc[x] # Nil => u.f[u.lc[x]] = x) /\ (u.rc[x] # Nil => u.f[u.rc[x]] = x)
    <3>1. \A y \in M : u.f[At(n, m, y)] = At(n, m, t.f[y])
      BY DEF Renamed
    <3> QED
      BY <1>5, <2>2, <2>3, <2>4, <3>1
  <2>9. u.f[x] = Nil <=> u.root = x
    BY <1>1, <1>4, <1>5, <2>2, <2>3, <2>4
  <2>10. u.f[x] # Nil => x = u.lc[u.f[x]] \/ x = u.rc[u.f[x]]
    <3>1. p # Nil => p \in M
      BY <2>3
    <3>2. p \in M => /\ u.lc[At(n, m, p)] = At(n, m, t.lc[p])
                     /\ u.rc[At(n, m, p)] = At(n, m, t.rc[p])
      BY DEF Renamed
    <3>3. u.f[x] # Nil => p # Nil
      BY <1>5, <2>4
    <3> QED
      BY <2>2, <2>3, <2>4, <3>1, <3>2, <3>3
  <2>11. Hangs(u, N, E, O, x)
    BY <2>5, <2>6, <2>7, <2>8, <2>9, <2>10 DEF Hangs
  <2> QED
    BY <2>2, <2>11
<1>10. \A x \in N : Hangs(u, N, E, O, x)
  BY <1>5, <1>9
<1>11. Shape(u, N, E, O)
  BY <1>4, <1>7, <1>8, <1>10 DEF Shape
<1> QED
  BY <1>2, <1>11

LEMMA RenamedHeights ==
    ASSUME NodeAssumption, NEW t, NEW M, NEW D, NEW O, Order(O), Shape(t, M, D, O),
           NEW n \in M, NEW m \in Node \ M, NEW u \in Trees, Renamed(t, u, M, n, m),
           NEW at, HeightsFrom(t, M, at)
    PROVE  HeightsFrom(u, (M \ {n}) \union {m}, At(n, m, at))
<1>1. m # Nil /\ Nil \notin M /\ n # Nil
  BY NodeAssumption DEF Shape
<1>2. \A x \in M \union {Nil} : Subth(u, At(n, m, x)) = Subth(t, x)
  BY <1>1 DEF Renamed, Subth, At
<1>3. \A x \in M : /\ u.subth[At(n, m, x)] = t.subth[x]
                   /\ Subth(u, u.lc[At(n, m, x)]) = Subth(t, t.lc[x])
                   /\ Subth(u, u.rc[At(n, m, x)]) = Subth(t, t.rc[x])
  BY <1>2, Kids DEF Renamed
<1>4. at \in M \union {Nil} /\ At(n, m, at) \in (M \ {n}) \union {m, Nil}
  BY DEF HeightsFrom, At
<1>5. ASSUME NEW x \in M, x # at PROVE Balanced(u, At(n, m, x))
  <2>1. Balanced(t, x)
    BY <1>5 DEF HeightsFrom
  <2> QED
    BY <1>3, <2>1 DEF Balanced, Tall
<1>6. \A y \in ((M \ {n}) \union {m}) \ {At(n, m, at)} :
          \E x \in M : y = At(n, m, x) /\ x # at
  BY <1>1, <1>4 DEF At
<1>7. ASSUME at # Nil PROVE OneOff(u, At(n, m, at))
  <2>1. at \in M /\ OneOff(t, at)
    BY <1>4, <1>7 DEF HeightsFrom
  <2> QED
    BY <1>3, <2>1 DEF OneOff
<1>8. At(n, m, at) # Nil => at # Nil
  BY <1>1 DEF At
<1> QED
  BY <1>4, <1>5, <1>6, <1>7, <1>8 DEF HeightsFrom
-----------------------------------------------------------------------------
(* Removal.                                                                *)

\* t and u differ outside M only.
SameOn(t, u, M) ==
    /\ u.root = t.root
    /\ \A x \in M : /\ u.f[x] = t.f[x] /\ u.lc[x] = t.lc[x]
                    /\ u.rc[x] = t.rc[x] /\ u.subth[x] = t.subth[x]

LEMMA ClearedIs ==
    ASSUME NodeAssumption, NEW t \in Trees, NEW n \in Node
    PROVE  Cleared(t, n) \in Trees /\ SameOn(t, Cleared(t, n), Node \ {n})
<1>1. PICK u1 : u1 = [t EXCEPT !.f[n] = Nil]
  OBVIOUS
<1>2. /\ u1 \in Trees /\ u1.root = t.root /\ u1.lc = t.lc /\ u1.rc = t.rc /\ u1.subth = t.subth
      /\ \A x \in Node : u1.f[x] = IF x = n THEN Nil ELSE t.f[x]
  BY ONLY <1>1, t \in Trees, n \in Node DEF Trees, Places
<1>3. PICK u2 : u2 = [u1 EXCEPT !.lc[n] = Nil]
  OBVIOUS
<1>4. /\ u2 \in Trees /\ u2.root = u1.root /\ u2.f = u1.f /\ u2.rc = u1.rc /\ u2.subth = u1.subth
      /\ \A x \in Node : u2.lc[x] = IF x = n THEN Nil ELSE u1.lc[x]
  BY ONLY <1>2, <1>3, n \in Node DEF Trees, Places
<1>5. PICK u3 : u3 = [u2 EXCEPT !.rc[n] = Nil]
  OBVIOUS
<1>6. /\ u3 \in Trees /\ u3.root = u2.root /\ u3.f = u2.f /\ u3.lc = u2.lc /\ u3.subth = u2.subth
      /\ \A x \in Node : u3.rc[x] = IF x = n THEN Nil ELSE u2.rc[x]
  BY ONLY <1>4, <1>5, n \in Node DEF Trees, Places
<1>7. PICK u : u = [u3 EXCEPT !.subth[n] = 0]
  OBVIOUS
<1>8. /\ u \in Trees /\ u.root = u3.root /\ u.f = u3.f /\ u.lc = u3.lc /\ u.rc = u3.rc
      /\ \A x \in Node : u.subth[x] = IF x = n THEN 0 ELSE u3.subth[x]
  BY ONLY <1>6, <1>7, n \in Node DEF Trees
<1>9. Cleared(t, n) = u
  BY <1>1, <1>3, <1>5, <1>7 DEF Cleared
<1> QED
  BY <1>2, <1>4, <1>6, <1>8, <1>9 DEF SameOn

LEMMA SameShape ==
    ASSUME NodeAssumption, NEW t, NEW M, NEW D, NEW O, Order(O), Shape(t, M, D, O),
           NEW u \in Trees, SameOn(t, u, M)
    PROVE  /\ Shape(u, M, D, O)
           /\ \A at : HeightsFrom(t, M, at) => HeightsFrom(u, M, at)
<1>1. ASSUME NEW n \in M PROVE Hangs(u, M, D, O, n)
  <2>1. /\ t.f[n] \in M \union {Nil} /\ t.lc[n] \in M \union {Nil} /\ t.rc[n] \in M \union {Nil}
        /\ Hangs(t, M, D, O, n)
    BY DEF Shape, Hangs
  <2> QED
    BY <2>1 DEF SameOn, Hangs
<1>2. Shape(u, M, D, O)
  BY <1>1 DEF Shape, SameOn
<1>3. \A n \in M : KeptAt(t, u, n)
  <2>1. \A x \in M \union {Nil} : Subth(u, x) = Subth(t, x)
    BY DEF Subth, SameOn
  <2> QED
    BY <2>1, Kids DEF KeptAt, SameOn
<1>4. \A n \in M : Balanced(t, n) => Balanced(u, n)
  BY <1>3, KeptBalanced
<1>5. \A n \in M : OneOff(t, n) => OneOff(u, n)
  BY <1>3 DEF OneOff, KeptAt
<1> QED
  BY <1>2, <1>4, <1>5 DEF HeightsFrom

\* What hangs below a node is below all that the node hangs below. Heights
\* decrease downwards, so there would be a lowest node for which this fails.
Nested(t, M, D) ==
    \A z \in M : \A x \in D[z] : D[x] \subseteq D[z] /\ (x # z => t.f[x] \in D[z])

LEMMA BelowIsNested ==
    ASSUME NodeAssumption, NEW t, NEW M, NEW D, NEW O, Order(O), Shape(t, M, D, O),
           \A n \in M : Balanced(t, n)
    PROVE  Nested(t, M, D)
<1> DEFINE Good(z) == \A x \in D[z] : D[x] \subseteq D[z] /\ (x # z => t.f[x] \in D[z])
<1>1. SUFFICES ASSUME NEW w \in M, ~Good(w) PROVE FALSE
  BY DEF Nested
<1>2. PICK T : T = {h \in Nat : \E z \in M : t.subth[z] = h /\ ~Good(z)}
  OBVIOUS
<1>3. \A z \in M : t.subth[z] \in Nat
  BY Kids, TreeParts
<1>4. T \subseteq Nat /\ T # {}
  BY <1>1, <1>2, <1>3
<1>5. PICK h \in T : \A g \in T : h <= g
  BY <1>4, LeastElement
<1>6. PICK z \in M : t.subth[z] = h /\ ~Good(z)
  BY <1>2
<1>7. PICK a, b : a = t.lc[z] /\ b = t.rc[z]
  OBVIOUS
<1>8. /\ a \in M \union {Nil} /\ b \in M \union {Nil}
      /\ D[z] = {z} \union D[a] \union D[b] /\ z \in D[z]
      /\ a # Nil => t.f[a] = z
      /\ b # Nil => t.f[b] = z
      /\ D[Nil] = {}
  BY <1>7 DEF Shape, Hangs
<1>9. /\ a # Nil => t.subth[a] < h
      /\ b # Nil => t.subth[b] < h
  <2>1. h = 1 + Higher(Subth(t, a), Subth(t, b))
    BY <1>6, <1>7 DEF Balanced, Tall
  <2>2. Subth(t, a) \in Nat /\ Subth(t, b) \in Nat
    BY <1>7, Kids, TreeParts
  <2>3. (a # Nil => t.subth[a] = Subth(t, a)) /\ (b # Nil => t.subth[b] = Subth(t, b))
    BY DEF Subth
  <2> QED
    BY <2>1, <2>2, <2>3 DEF Higher
<1>10. \A y \in M : t.subth[y] < h => Good(y)
  <2>1. h \in Nat
    BY <1>4
  <2>2. ASSUME NEW y \in M, t.subth[y] < h, ~Good(y) PROVE FALSE
    <3>1. t.subth[y] \in T
      BY <1>2, <1>3, <2>2
    <3> QED
      BY <1>3, <1>5, <2>1, <2>2, <3>1
  <2> QED
    BY <2>2
<1>11. (a # Nil => Good(a)) /\ (b # Nil => Good(b))
  BY <1>8, <1>9, <1>10
<1>12. ASSUME NEW x \in D[z] PROVE D[x] \subseteq D[z] /\ (x # z => t.f[x] \in D[z])
  <2>1. CASE x = z
    BY <2>1
  <2>2. CASE x \in D[a]
    BY <1>8, <1>11, <2>2
  <2>3. CASE x \in D[b]
    BY <1>8, <1>11, <2>3
  <2> QED
    BY <1>8, <2>1, <2>2, <2>3
<1> QED
  BY <1>6, <1>12

LEMMA CutBelow ==
    ASSUME NodeAssumption, NEW t, NEW M, NEW D, NEW u, NEW n, NEW c,
           CutLinks(t, u, M, D, n, c)
    PROVE  \A x \in M \ {n} : /\ D[u.lc[x]] \ {n} = D[t.lc[x]] \ {n}
                              /\ D[u.rc[x]] \ {n} = D[t.rc[x]] \ {n}
<1>1. D[c] \ {n} = D[n] \ {n}
  BY DEF CutLinks
<1> QED
  BY <1>1 DEF CutLinks

\* c is on the way to the last node before n.
Rightmost(t, M, D, O, n, c) ==
    /\ n \in M /\ c \in M /\ t.lc[n] # Nil /\ t.rc[n] # Nil
    /\ D[c] \subseteq D[t.lc[n]]
    /\ \A x \in D[t.lc[n]] \ D[c] : \A y \in D[c] : <<x, y>> \in O

LEMMA RightmostStart ==
    ASSUME NodeAssumption, NEW t, NEW M, NEW D, NEW O, Order(O), Shape(t, M, D, O),
           NEW n \in M, t.lc[n] # Nil, t.rc[n] # Nil
    PROVE  Rightmost(t, M, D, O, n, t.lc[n])
BY Kids DEF Rightmost

LEMMA RightmostDown ==
    ASSUME NodeAssumption, NEW t, NEW M, NEW D, NEW O, Order(O), Shape(t, M, D, O),
           NEW n, NEW c, Rightmost(t, M, D, O, n, c), t.rc[c] # Nil
    PROVE  Rightmost(t, M, D, O, n, t.rc[c])
<1>1. PICK a, b : a = t.lc[c] /\ b = t.rc[c]
  OBVIOUS
<1>2. /\ c \in M /\ b \in M /\ a \in M \union {Nil} /\ M \subseteq Node
      /\ D[c] = {c} \union D[a] \union D[b]
      /\ \A x \in D[a] : <<x, c>> \in O
      /\ \A x \in D[b] : <<c, x>> \in O
      /\ D[c] \subseteq Node
  <2>1. c \in M /\ M \subseteq Node /\ Hangs(t, M, D, O, c) /\ D \in [Places -> SUBSET M]
    BY DEF Rightmost, Shape
  <2>2. D[c] \subseteq Node
    BY <2>1 DEF Places
  <2> QED
    BY <1>1, <2>1, <2>2 DEF Hangs
<1>3. \A x \in D[c] \ D[b] : \A y \in D[b] : <<x, y>> \in O
  BY <1>2 DEF Order
<1>4. \A x \in D[t.lc[n]] \ D[b] : \A y \in D[b] : <<x, y>> \in O
  BY <1>2, <1>3 DEF Rightmost
<1>5. D[b] \subseteq D[t.lc[n]]
  BY <1>2 DEF Rightmost
<1> QED
  BY <1>1, <1>2, <1>4, <1>5 DEF Rightmost

LEMMA RightmostFits ==
    ASSUME NodeAssumption, NEW t, NEW M, NEW D, NEW O, Order(O), Shape(t, M, D, O),
           \A x \in M : Balanced(t, x),
           NEW n, NEW c, Rightmost(t, M, D, O, n, c), t.rc[c] = Nil,
           NEW u, NEW d, CutLinks(t, u, M, D, c, d),
           NEW E, E = [x \in Places |-> D[x] \ {c}]
    PROVE  n \in M \ {c} /\ Fits(u, M \ {c}, E, O, n, c)
<1>1. /\ n \in M /\ c \in M /\ M \subseteq Node /\ c \in D[c] /\ n \in D[n]
      /\ D \in [Places -> SUBSET M] /\ D[Nil] = {}
      /\ D[c] \subseteq D[t.lc[n]]
      /\ \A z \in M : Hangs(t, M, D, O, z)
  BY Kids DEF Rightmost, Shape
<1>2. /\ D[n] = {n} \union D[t.lc[n]] \union D[t.rc[n]]
      /\ \A x \in D[t.lc[n]] : <<x, n>> \in O
      /\ \A x \in D[t.rc[n]] : <<n, x>> \in O
      /\ D[n] \subseteq Node
  <2>1. D[n] \subseteq Node
    BY <1>1 DEF Places
  <2> QED
    BY <1>1, <2>1 DEF Hangs
<1>3. <<c, n>> \in O /\ c # n /\ c \in D[n]
  BY <1>1, <1>2 DEF Order
<1>4. \A x \in D[t.lc[n]] \ {c} : <<x, c>> \in O
  <2>1. D[c] = {c} \union D[t.lc[c]] /\ \A x \in D[t.lc[c]] : <<x, c>> \in O
    BY <1>1 DEF Hangs
  <2> QED
    BY <1>1, <2>1 DEF Rightmost
<1>5. \A x \in D[t.rc[n]] : <<c, x>> \in O
  BY <1>1, <1>2, <1>3 DEF Order
<1>6. Nested(t, M, D)
  BY BelowIsNested
<1>7. \A y \in M \ {c} : /\ y \in Places
                         /\ u.lc[y] \in Places /\ u.rc[y] \in Places
                         /\ t.lc[y] \in M \union {Nil} /\ t.rc[y] \in M \union {Nil}
                         /\ E[u.lc[y]] = D[t.lc[y]] \ {c}
                         /\ E[u.rc[y]] = D[t.rc[y]] \ {c}
  <2>1. \A y \in M \ {c} : /\ D[u.lc[y]] \ {c} = D[t.lc[y]] \ {c}
                           /\ D[u.rc[y]] \ {c} = D[t.rc[y]] \ {c}
    BY CutBelow
  <2>2. \A y \in M \ {c} : /\ t.lc[y] \in M \union {Nil} /\ t.rc[y] \in M \union {Nil}
                           /\ u.lc[y] \in M \union {Nil} /\ u.rc[y] \in M \union {Nil}
    BY Kids DEF CutLinks
  <2> QED
    BY <1>1, <2>1, <2>2 DEF Places
<1>8. /\ \A x \in E[u.lc[n]] : <<x, c>> \in O
      /\ \A x \in E[u.rc[n]] : <<c, x>> \in O
  BY <1>1, <1>3, <1>4, <1>5, <1>7
<1>9. ASSUME NEW y \in M \ {c}
      PROVE  /\ n \in E[u.lc[y]] => <<c, y>> \in O
             /\ n \in E[u.rc[y]] => <<y, c>> \in O
  <2>1. /\ \A x \in D[t.lc[y]] : <<x, y>> \in O
        /\ \A x \in D[t.rc[y]] : <<y, x>> \in O
    BY <1>1 DEF Hangs
  <2>2. /\ n \in D[t.lc[y]] => c \in D[t.lc[y]]
        /\ n \in D[t.rc[y]] => c \in D[t.rc[y]]
    BY <1>1, <1>3, <1>6, <1>7 DEF Nested
  <2> QED
    BY <1>7, <2>1, <2>2
<1> QED
  BY <1>1, <1>3, <1>8, <1>9 DEF Fits, Beside

LEMMA MirrorCut ==
    ASSUME NodeAssumption, NEW t \in Trees, NEW u \in Trees, NEW M, NEW D, NEW n, NEW c
    PROVE  CutLinks(Mirror(t), Mirror(u), M, D, n, c) <=> CutLinks(t, u, M, D, n, c)
<1>1. /\ Mirror(t).root = t.root /\ Mirror(t).f = t.f /\ Mirror(t).lc = t.rc
      /\ Mirror(t).rc = t.lc /\ Mirror(t).subth = t.subth
      /\ Mirror(u).root = u.root /\ Mirror(u).f = u.f /\ Mirror(u).lc = u.rc
      /\ Mirror(u).rc = u.lc /\ Mirror(u).subth = u.subth
  BY MirrorTree
<1> QED
  BY <1>1 DEF CutLinks

LEMMA MirrorFits ==
    ASSUME NodeAssumption, NEW t \in Trees, NEW M, M \subseteq Node, NEW D,
           D \in [Places -> SUBSET Node], NEW O, NEW n \in M, NEW m \in Node,
           t.lc[n] \in Places, t.rc[n] \in Places,
           Fits(Mirror(t), M, D, Back(O), n, m)
    PROVE  Fits(t, M, D, O, n, m)
<1>1. Mirror(t).lc = t.rc /\ Mirror(t).rc = t.lc
  BY MirrorTree
<1>2. \A x, y \in Node : <<x, y>> \in Back(O) => <<y, x>> \in O
  BY DEF Back
<1>3. D[t.lc[n]] \subseteq Node /\ D[t.rc[n]] \subseteq Node
  OBVIOUS
<1> QED
  BY <1>1, <1>2, <1>3 DEF Fits, Beside

\* The node n makes room for its neighbour c.
LEMMA Substituted ==
    ASSUME NodeAssumption, NEW t, NEW M, NEW D, NEW O, Order(O), Shape(t, M, D, O),
           \A x \in M : Balanced(t, x), NEW n, NEW c,
           \/ Rightmost(t, M, D, O, n, c) /\ t.rc[c] = Nil
           \/ Rightmost(Mirror(t), M, D, Back(O), n, c) /\ t.lc[c] = Nil
    PROVE  \E E : /\ Shape(Cleared(Seated(Ndcut(t, c), n, c), n), M \ {n}, E, O)
                  /\ HeightsFrom(Cleared(Seated(Ndcut(t, c), n, c), n), M \ {n},
                                 IF t.f[c] = n THEN c ELSE t.f[c])
<1>1. /\ t \in Trees /\ M \subseteq Node /\ c \in M /\ c \in Node /\ n \in M /\ n \in Node
      /\ D \in [Places -> SUBSET M]
      /\ t.lc[c] = Nil \/ t.rc[c] = Nil
  BY DEF Shape, Rightmost
<1>2. PICK d : d = Only(t, c)
  OBVIOUS
<1>3. PICK v : v = Ndcut(t, c)
  OBVIOUS
<1>4. IsCut(t, v, c, d) /\ v \in Trees
  <2>1. IsCut(t, v, c, d)
    BY <1>1, <1>2, <1>3, NdcutIs
  <2> QED
    BY <2>1 DEF IsCut
<1>5. CutLinks(t, v, M, D, c, d)
  BY <1>1, <1>2, <1>4, CutLinked
<1>6. PICK N : N = M \ {c}
  OBVIOUS
<1>7. PICK F : F = [x \in Places |-> D[x] \ {c}]
  OBVIOUS
<1>8. Shape(v, N, F, O)
  BY <1>4, <1>5, <1>6, <1>7, CutShape
<1>9. HeightsFrom(v, N, t.f[c])
  BY <1>1, <1>2, <1>4, <1>5, <1>6, CutHeights
<1>10. n \in N /\ Fits(v, N, F, O, n, c)
  <2>1. CASE Rightmost(t, M, D, O, n, c) /\ t.rc[c] = Nil
    <3>1. PICK s, w, P : s = t /\ w = v /\ P = O
      OBVIOUS
    <3>2. Shape(s, M, D, P) /\ Order(P) /\ s.rc[c] = Nil /\ Rightmost(s, M, D, P, n, c)
      BY <2>1, <3>1
    <3>3. (\A x \in M : Balanced(s, x)) /\ CutLinks(s, w, M, D, c, d)
      BY <1>5, <3>1
    <3>4. n \in N /\ Fits(w, N, F, P, n, c)
      BY <1>6, <1>7, <3>2, <3>3, RightmostFits
    <3> QED
      BY <3>1, <3>4
  <2>2. CASE Rightmost(Mirror(t), M, D, Back(O), n, c) /\ t.lc[c] = Nil
    <3>1. PICK s, w, P : s = Mirror(t) /\ w = Mirror(v) /\ P = Back(O)
      OBVIOUS
    <3>2. Shape(s, M, D, P) /\ Order(P) /\ s.rc[c] = Nil
      BY <1>1, <2>2, <3>1, MirrorShape, MirrorOrder, MirrorTree
    <3>3. \A x \in M : Balanced(s, x)
      BY <1>1, <3>1, MirrorHeights
    <3>4. CutLinks(s, w, M, D, c, d)
      BY <1>1, <1>4, <1>5, <3>1, MirrorCut
    <3>5. Rightmost(s, M, D, P, n, c)
      BY <2>2, <3>1
    <3>6. n \in N /\ Fits(w, N, F, P, n, c)
      BY <1>6, <1>7, <3>2, <3>3, <3>4, <3>5, RightmostFits
    <3>7. N \subseteq Node /\ F \in [Places -> SUBSET Node]
      BY <1>1, <1>6, <1>7
    <3>8. v.lc[n] \in Places /\ v.rc[n] \in Places
      BY <1>1, <1>4, TreeParts
    <3> QED
      BY <1>1, <1>4, <3>1, <3>6, <3>7, <3>8, MirrorFits
  <2> QED
    BY <2>1, <2>2
<1>11. c \in Node \ N
  BY <1>1, <1>6
<1>12. v.f[n] # c
  BY <1>6, <1>8, <1>10, <1>11, Kids, NodeAssumption
<1>13. PICK w : w = Seated(v, n, c)
  OBVIOUS
<1>14. IsSeated(v, w, n, c) /\ w \in Trees
  <2>1. IsSeated(v, w, n, c)
    BY <1>1, <1>4, <1>12, <1>13, SeatedIs
  <2> QED
    BY <2>1 DEF IsSeated
<1>15. Renamed(v, w, N, n, c)
  BY <1>8, <1>10, <1>11, <1>14, SeatedRenames
<1>16. (N \ {n}) \union {c} = M \ {n}
  BY <1>1, <1>6, <1>10
<1>17. PICK E : Shape(w, (N \ {n}) \union {c}, E, O)
  BY <1>8, <1>10, <1>11, <1>14, <1>15, RenamedShape
<1>18. HeightsFrom(w, (N \ {n}) \union {c}, At(n, c, t.f[c]))
  BY <1>8, <1>9, <1>10, <1>11, <1>14, <1>15, RenamedHeights
<1>19. PICK u : u = Cleared(w, n)
  OBVIOUS
<1>20. u \in Trees /\ SameOn(w, u, M \ {n})
  <2>1. u \in Trees /\ SameOn(w, u, Node \ {n})
    BY <1>1, <1>14, <1>19, ClearedIs
  <2> QED
    BY <1>1, <2>1 DEF SameOn
<1>21. Shape(w, M \ {n}, E, O) /\ HeightsFrom(w, M \ {n}, At(n, c, t.f[c]))
  BY <1>16, <1>17, <1>18
<1>22. Shape(u, M \ {n}, E, O) /\ HeightsFrom(u, M \ {n}, At(n, c, t.f[c]))
  BY <1>20, <1>21, SameShape
<1>23. u = Cleared(Seated(Ndcut(t, c), n, c), n)
  BY <1>3, <1>13, <1>19
<1> QED
  BY <1>22, <1>23 DEF At

\* A node with one child at most is taken out.
LEMMA TakenOut ==
    ASSUME NodeAssumption, NEW t, NEW M, NEW D, NEW O, Order(O), Shape(t, M, D, O),
           \A x \in M : Balanced(t, x), NEW n \in M, t.lc[n] = Nil \/ t.rc[n] = Nil
    PROVE  \E E : /\ Shape(Cleared(Ndcut(t, n), n), M \ {n}, E, O)
                  /\ HeightsFrom(Cleared(Ndcut(t, n), n), M \ {n}, t.f[n])
<1>1. t \in Trees /\ M \subseteq Node /\ n \in Node
  BY DEF Shape
<1>2. PICK c, v : c = Only(t, n) /\ v = Ndcut(t, n)
  OBVIOUS
<1>3. IsCut(t, v, n, c) /\ v \in Trees
  <2>1. IsCut(t, v, n, c)
    BY <1>1, <1>2, NdcutIs
  <2> QED
    BY <2>1 DEF IsCut
<1>4. CutLinks(t, v, M, D, n, c)
  BY <1>2, <1>3, CutLinked
<1>5. PICK E : E = [x \in Places |-> D[x] \ {n}]
  OBVIOUS
<1>6. Shape(v, M \ {n}, E, O)
  BY <1>3, <1>4, <1>5, CutShape
<1>7. HeightsFrom(v, M \ {n}, t.f[n])
  BY <1>2, <1>3, <1>4, CutHeights
<1>8. PICK u : u = Cleared(v, n)
  OBVIOUS
<1>9. u \in Trees /\ SameOn(v, u, M \ {n})
  <2>1. u \in Trees /\ SameOn(v, u, Node \ {n})
    BY <1>1, <1>3, <1>8, ClearedIs
  <2> QED
    BY <1>1, <2>1 DEF SameOn
<1>10. Shape(u, M \ {n}, E, O) /\ HeightsFrom(u, M \ {n}, t.f[n])
  BY <1>6, <1>7, <1>9, SameShape
<1> QED
  BY <1>2, <1>8, <1>10
-----------------------------------------------------------------------------
(* avl_walk().                                                             *)

\* What comes first in w is before the rest in the order R.
Ordered(w, R) == \A i, j \in 1 .. Len(w) : i < j => <<w[i], w[j]>> \in R

\* w visits each of S once, in the order R.
Visits(w, S, R) ==
    w \in Seq(Node) /\ IsInjective(w) /\ ToSet(w) = S /\ Ordered(w, R)

LEMMA VisitsFew ==
    ASSUME NEW n \in Node, NEW R
    PROVE  Visits(<<>>, {}, R) /\ Visits(<<n>>, {n}, R)
<1>1. <<>> \in Seq(Node) /\ <<n>> \in Seq(Node) /\ Len(<<>>) = 0 /\ Len(<<n>>) = 1
  OBVIOUS
<1>2. ToSet(<<>>) = {} /\ ToSet(<<n>>) = {n}
  BY DEF ToSet
<1>3. IsInjective(<<>>) /\ IsInjective(<<n>>)
  BY DEF IsInjective
<1>4. Ordered(<<>>, R) /\ Ordered(<<n>>, R)
  BY <1>1 DEF Ordered
<1> QED
  BY <1>1, <1>2, <1>3, <1>4 DEF Visits

LEMMA VisitsTwo ==
    ASSUME NEW R, NEW v, NEW w, NEW S, NEW T, Visits(v, S, R), Visits(w, T, R),
           S \intersect T = {}, \A x \in S : \A y \in T : <<x, y>> \in R
    PROVE  Visits(v \o w, S \union T, R)
<1>1. /\ v \in Seq(Node) /\ IsInjective(v) /\ ToSet(v) = S /\ Ordered(v, R)
      /\ w \in Seq(Node) /\ IsInjective(w) /\ ToSet(w) = T /\ Ordered(w, R)
  BY DEF Visits
<1>2. PICK u : u = v \o w
  OBVIOUS
<1>3. u \in Seq(Node) /\ IsInjective(u) /\ ToSet(u) = S \union T
  BY <1>1, <1>2, TwoInjective
<1>4. PICK k, l : k = Len(v) /\ l = Len(w)
  OBVIOUS
<1>5. /\ k \in Nat /\ l \in Nat
      /\ \A i \in 1 .. k : v[i] \in S
      /\ \A i \in 1 .. l : w[i] \in T
  BY <1>1, <1>4, SequenceMembers
<1>6. /\ Len(u) = k + l
      /\ \A i \in 1 .. k : u[i] = v[i]
      /\ \A i \in 1 .. l : u[k + i] = w[i]
  BY <1>1, <1>2, <1>4
<1>7. ASSUME NEW i \in 1 .. Len(u), NEW j \in 1 .. Len(u), i < j
      PROVE  <<u[i], u[j]>> \in R
  <2>1. CASE j <= k
    BY <1>1, <1>4, <1>5, <1>6, <1>7, <2>1 DEF Ordered
  <2>2. CASE i <= k /\ j > k
    <3>1. PICK b \in 1 .. l : j = k + b
      <4>1. j - k \in 1 .. l /\ j = k + (j - k)
        BY <1>5, <1>6, <2>2
      <4> QED
        BY <4>1
    <3>2. i \in 1 .. k
      BY <1>5, <1>6, <2>2
    <3> QED
      BY <1>5, <1>6, <3>1, <3>2
  <2>3. CASE i > k
    <3>1. PICK a \in 1 .. l, b \in 1 .. l : i = k + a /\ j = k + b /\ a < b
      <4>1. /\ i - k \in 1 .. l /\ i = k + (i - k)
            /\ j - k \in 1 .. l /\ j = k + (j - k) /\ i - k < j - k
        BY <1>5, <1>6, <1>7, <2>3
      <4> QED
        BY <4>1
    <3> QED
      BY <1>1, <1>4, <1>6, <3>1 DEF Ordered
  <2> QED
    BY <1>5, <1>6, <2>1, <2>2, <2>3
<1>8. Ordered(u, R)
  BY <1>7 DEF Ordered
<1> QED
  BY <1>2, <1>3, <1>8 DEF Visits

\* The order that a walk keeps to.
OrderOf(wt, O) ==
    CASE wt = <<"L", "M", "R">> -> O
      [] wt = <<"R", "M", "L">> -> Back(O)
      [] OTHER                  -> Node \X Node

\* The part of what hangs below n that comes with x.
Share(t, D, n, x) ==
    CASE x = "L" -> D[t.lc[n]]
      [] x = "R" -> D[t.rc[n]]
      [] OTHER   -> {n}

LEMMA Shares ==
    ASSUME NodeAssumption, NEW t, NEW M, NEW D, NEW O, Order(O), Shape(t, M, D, O),
           NEW n \in M, NEW wt \in Orders
    PROVE  /\ Share(t, D, n, wt[1]) \union Share(t, D, n, wt[2]) \union Share(t, D, n, wt[3])
                = D[n]
           /\ \A i, j \in 1 .. 3 : i < j =>
                /\ Share(t, D, n, wt[i]) \intersect Share(t, D, n, wt[j]) = {}
                /\ \A x \in Share(t, D, n, wt[i]) : \A y \in Share(t, D, n, wt[j]) :
                       <<x, y>> \in OrderOf(wt, O)
<1>1. PICK a, b : a = D[t.lc[n]] /\ b = D[t.rc[n]]
  OBVIOUS
<1>2. /\ n \in Node /\ a \subseteq Node /\ b \subseteq Node
      /\ D[n] = {n} \union a \union b
      /\ \A x \in a : <<x, n>> \in O
      /\ \A x \in b : <<n, x>> \in O
  <2>1. /\ n \in Node /\ Hangs(t, M, D, O, n) /\ D \in [Places -> SUBSET M] /\ M \subseteq Node
        /\ t.lc[n] \in Places /\ t.rc[n] \in Places
    BY TreeParts DEF Shape
  <2> QED
    BY <1>1, <2>1 DEF Hangs
<1>3. \A x \in a : \A y \in b : <<x, y>> \in O
  BY <1>2 DEF Order
<1>4. a \intersect b = {} /\ n \notin a /\ n \notin b
  BY <1>2, <1>3 DEF Order
<1>5. /\ Share(t, D, n, "L") = a /\ Share(t, D, n, "R") = b /\ Share(t, D, n, "M") = {n}
  BY <1>1 DEF Share
<1>6. /\ wt \in [1 .. 3 -> {"L", "M", "R"}]
      /\ wt[1] # wt[2] /\ wt[1] # wt[3] /\ wt[2] # wt[3]
  BY DEF Orders
<1>7. /\ wt[1] \in {"L", "M", "R"} /\ wt[2] \in {"L", "M", "R"} /\ wt[3] \in {"L", "M", "R"}
  BY <1>6
<1>8. Share(t, D, n, wt[1]) \union Share(t, D, n, wt[2]) \union Share(t, D, n, wt[3]) = D[n]
  <2>1. /\ "L" \in {wt[1], wt[2], wt[3]}
        /\ "M" \in {wt[1], wt[2], wt[3]}
        /\ "R" \in {wt[1], wt[2], wt[3]}
    BY <1>6, <1>7
  <2>2. \A x \in {wt[1], wt[2], wt[3]} : x \in {"L", "M", "R"}
    BY <1>7
  <2> QED
    BY <1>2, <1>5, <2>1, <2>2
<1>9. ASSUME NEW i \in 1 .. 3, NEW j \in 1 .. 3, i < j
      PROVE  /\ Share(t, D, n, wt[i]) \intersect Share(t, D, n, wt[j]) = {}
             /\ \A x \in Share(t, D, n, wt[i]) : \A y \in Share(t, D, n, wt[j]) :
                    <<x, y>> \in OrderOf(wt, O)
  <2>1. wt[i] \in {"L", "M", "R"} /\ wt[j] \in {"L", "M", "R"} /\ wt[i] # wt[j]
    BY <1>6, <1>9 DEF Orders
  <2>2. Share(t, D, n, wt[i]) \intersect Share(t, D, n, wt[j]) = {}
    BY <1>4, <1>5, <2>1
  <2>3. Share(t, D, n, wt[i]) \subseteq Node /\ Share(t, D, n, wt[j]) \subseteq Node
    BY <1>2, <1>5, <2>1
  <2>4. CASE wt = <<"L", "M", "R">>
    <3>1. OrderOf(wt, O) = O
      BY <2>4 DEF OrderOf
    <3>2. <<wt[i], wt[j]>> \in {<<"L", "M">>, <<"L", "R">>, <<"M", "R">>}
      <4>1. (i = 1 /\ j = 2) \/ (i = 1 /\ j = 3) \/ (i = 2 /\ j = 3)
        BY <1>9
      <4>2. wt[1] = "L" /\ wt[2] = "M" /\ wt[3] = "R"
        BY <2>4
      <4> QED
        BY <4>1, <4>2
    <3> QED
      BY <1>2, <1>3, <1>5, <2>2, <3>1, <3>2
  <2>5. CASE wt = <<"R", "M", "L">>
    <3>1. OrderOf(wt, O) = Back(O)
      <4>1. wt # <<"L", "M", "R">>
        BY <2>5
      <4> QED
        BY <2>5, <4>1 DEF OrderOf
    <3>2. <<wt[i], wt[j]>> \in {<<"R", "M">>, <<"R", "L">>, <<"M", "L">>}
      <4>1. (i = 1 /\ j = 2) \/ (i = 1 /\ j = 3) \/ (i = 2 /\ j = 3)
        BY <1>9
      <4>2. wt[1] = "R" /\ wt[2] = "M" /\ wt[3] = "L"
        BY <2>5
      <4> QED
        BY <4>1, <4>2
    <3>3. \A x \in Share(t, D, n, wt[i]) : \A y \in Share(t, D, n, wt[j]) : <<y, x>> \in O
      BY <1>2, <1>3, <1>5, <3>2
    <3> QED
      BY <2>2, <2>3, <3>1, <3>3 DEF Back
  <2>6. CASE wt # <<"L", "M", "R">> /\ wt # <<"R", "M", "L">>
    <3>1. OrderOf(wt, O) = Node \X Node
      BY <2>6 DEF OrderOf
    <3> QED
      BY <2>2, <2>3, <3>1
  <2> QED
    BY <2>4, <2>5, <2>6
<1> QED
  BY <1>8, <1>9

LEMMA WalkOnceVisits ==
    ASSUME NodeAssumption, NEW t, NEW M, NEW D, NEW O, Order(O), Shape(t, M, D, O),
           \A x \in M : Balanced(t, x), NEW n \in M, NEW wt \in Orders, NEW below,
           Visits(below[t.lc[n]], D[t.lc[n]], OrderOf(wt, O)),
           Visits(below[t.rc[n]], D[t.rc[n]], OrderOf(wt, O))
    PROVE  Visits(WalkOnce(t, wt, below, n), D[n], OrderOf(wt, O))
<1> DEFINE part(x) == CASE x = "L" -> below[t.lc[n]]
                        [] x = "R" -> below[t.rc[n]]
                        [] OTHER   -> <<n>>
<1>1. PICK R : R = OrderOf(wt, O)
  OBVIOUS
<1>2. n # Nil /\ n \in Node
  BY Kids
<1>3. \A x : Visits(part(x), Share(t, D, n, x), R)
  <2>1. Visits(<<n>>, {n}, R)
    BY <1>2, VisitsFew
  <2> QED
    BY <1>1, <2>1 DEF Share
<1>4. CASE t.subth[n] = 1
  <2>1. D[n] = {n}
    <3>1. /\ t.lc[n] \in M \union {Nil} /\ t.rc[n] \in M \union {Nil} /\ D[Nil] = {}
          /\ D[n] = {n} \union D[t.lc[n]] \union D[t.rc[n]]
      BY DEF Shape, Hangs
    <3>2. \A x \in M : t.subth[x] \in Nat \ {0}
      <4>1. ASSUME NEW x \in M PROVE t.subth[x] \in Nat \ {0}
        <5>1. t.subth[x] = 1 + Higher(Subth(t, t.lc[x]), Subth(t, t.rc[x]))
          BY DEF Balanced, Tall
        <5>2. Subth(t, t.lc[x]) \in Nat /\ Subth(t, t.rc[x]) \in Nat
          BY Kids, TreeParts
        <5> QED
          BY <5>1, <5>2 DEF Higher
      <4> QED
        BY <4>1
    <3>3. Higher(Subth(t, t.lc[n]), Subth(t, t.rc[n])) = 0
      <4>1. Subth(t, t.lc[n]) \in Nat /\ Subth(t, t.rc[n]) \in Nat
        BY Kids, TreeParts
      <4> QED
        BY <1>4, <4>1 DEF Balanced, Tall, Higher
    <3>4. Subth(t, t.lc[n]) = 0 /\ Subth(t, t.rc[n]) = 0
      <4>1. Subth(t, t.lc[n]) \in Nat /\ Subth(t, t.rc[n]) \in Nat
        BY Kids, TreeParts
      <4> QED
        BY <3>3, <4>1 DEF Higher
    <3>5. t.lc[n] = Nil /\ t.rc[n] = Nil
      BY <3>1, <3>2, <3>4 DEF Subth
    <3> QED
      BY <3>1, <3>5
  <2>2. WalkOnce(t, wt, below, n) = <<n>>
    BY <1>2, <1>4 DEF WalkOnce
  <2> QED
    BY <1>1, <1>2, <2>1, <2>2, VisitsFew
<1>5. CASE t.subth[n] # 1
  <2>1. WalkOnce(t, wt, below, n) = part(wt[1]) \o part(wt[2]) \o part(wt[3])
    BY <1>2, <1>5 DEF WalkOnce
  <2> HIDE DEF part
  <2>2. PICK p, q, r : p = part(wt[1]) /\ q = part(wt[2]) /\ r = part(wt[3])
    OBVIOUS
  <2>3. PICK S, T, U : /\ S = Share(t, D, n, wt[1]) /\ T = Share(t, D, n, wt[2])
                       /\ U = Share(t, D, n, wt[3])
    OBVIOUS
  <2>4. Visits(p, S, R) /\ Visits(q, T, R) /\ Visits(r, U, R)
    BY <1>3, <2>2, <2>3
  <2>5. /\ S \union T \union U = D[n]
        /\ S \intersect T = {} /\ S \intersect U = {} /\ T \intersect U = {}
        /\ \A x \in S : \A y \in T : <<x, y>> \in R
        /\ \A x \in S : \A y \in U : <<x, y>> \in R
        /\ \A x \in T : \A y \in U : <<x, y>> \in R
    <3>1. /\ S \union T \union U = D[n]
          /\ \A i, j \in 1 .. 3 : i < j =>
               /\ Share(t, D, n, wt[i]) \intersect Share(t, D, n, wt[j]) = {}
               /\ \A x \in Share(t, D, n, wt[i]) : \A y \in Share(t, D, n, wt[j]) :
                      <<x, y>> \in R
      BY <1>1, <2>3, Shares
    <3>2. 1 \in 1 .. 3 /\ 2 \in 1 .. 3 /\ 3 \in 1 .. 3 /\ 1 < 2 /\ 1 < 3 /\ 2 < 3
      OBVIOUS
    <3> QED
      BY <2>3, <3>1, <3>2
  <2>6. Visits(p \o q, S \union T, R)
    BY ONLY <2>4, <2>5, VisitsTwo
  <2>7. (S \union T) \intersect U = {} /\ \A x \in S \union T : \A y \in U : <<x, y>> \in R
    BY <2>5
  <2>8. Visits((p \o q) \o r, S \union T \union U, R)
    BY ONLY <2>4, <2>6, <2>7, VisitsTwo
  <2> QED
    BY <1>1, <2>1, <2>2, <2>5, <2>8
<1> QED
  BY <1>4, <1>5

\* What the calls of avl_walk() do, by how deep they may nest.  There is such a
\* function: found by induction over the bound of its domain.
IsWalks(t, wt, f) ==
    f = [h \in Nat |-> IF h = 0 THEN [n \in Places |-> <<>>]
                       ELSE [n \in Places |-> WalkOnce(t, wt, f[h - 1], n)]]

LEMMA WalksExist ==
    ASSUME NEW t, NEW wt
    PROVE  \E f : IsWalks(t, wt, f)
<1> DEFINE Next1(b) == [n \in Places |-> WalkOnce(t, wt, b, n)]
<1> DEFINE Walks(n, g) ==
        /\ g[0] = [x \in Places |-> <<>>]
        /\ \A k \in 0 .. n - 1 : g[k + 1] = Next1(g[k])
<1>a. ASSUME NEW b, NEW c, b = c PROVE Next1(b) = Next1(c)
  BY <1>a
<1> HIDE DEF Next1
<1>1. \A n \in Nat : \E g : Walks(n, g)
  <2> DEFINE S == {n \in Nat : \E g : Walks(n, g)}
  <2>1. 0 \in S
    <3>1. PICK g : g = [k \in {0} |-> [x \in Places |-> <<>>]]
      OBVIOUS
    <3>2. g[0] = [x \in Places |-> <<>>]
      BY <3>1
    <3>3. Walks(0, g)
      BY <3>2
    <3> QED
      BY <3>3
  <2>2. ASSUME NEW n \in Nat, n \in S PROVE n + 1 \in S
    <3>1. PICK g : Walks(n, g)
      BY <2>2
    <3>2. PICK h : h = [k \in 0 .. n + 1 |-> IF k = n + 1 THEN Next1(g[n]) ELSE g[k]]
      OBVIOUS
    <3>3. h[n + 1] = Next1(g[n]) /\ \A k \in 0 .. n : h[k] = g[k]
      BY <3>2
    <3>4. \A k \in 0 .. n : h[k + 1] = Next1(h[k])
      <4>1. SUFFICES ASSUME NEW k \in 0 .. n PROVE h[k + 1] = Next1(h[k])
        OBVIOUS
      <4>2. CASE k = n
        BY <3>3, <4>2
      <4>3. CASE k # n
        <5>1. k \in 0 .. n - 1 /\ k + 1 \in 0 .. n
          BY <4>3
        <5> QED
          BY <3>1, <3>3, <5>1
      <4> QED
        BY <4>2, <4>3
    <3>5. n + 1 - 1 = n /\ n + 1 \in Nat /\ 0 \in 0 .. n
      OBVIOUS
    <3>6. Walks(n + 1, h)
      BY <3>1, <3>3, <3>4, <3>5
    <3> QED
      BY <3>5, <3>6
  <2> HIDE DEF S
  <2>3. Nat \subseteq S
    BY <2>1, <2>2, SetInduction
  <2> QED
    BY <2>3 DEF S
<1>2. ASSUME NEW n \in Nat, NEW g, NEW h, Walks(n, g), Walks(n + 1, h) PROVE g[n] = h[n]
  <2> DEFINE S == {k \in Nat : k <= n => g[k] = h[k]}
  <2>1. 0 \in S
    BY <1>2
  <2>2. ASSUME NEW k \in Nat, k \in S PROVE k + 1 \in S
    <3>1. SUFFICES ASSUME k + 1 <= n PROVE g[k + 1] = h[k + 1]
      OBVIOUS
    <3>2. g[k] = h[k] /\ k \in 0 .. n - 1 /\ k \in 0 .. n + 1 - 1
      BY <2>2, <3>1
    <3> QED
      BY <1>2, <3>2
  <2> HIDE DEF S
  <2>3. Nat \subseteq S
    BY <2>1, <2>2, SetInduction
  <2> QED
    BY <2>3 DEF S
<1> DEFINE c == [n \in Nat |-> CHOOSE g : Walks(n, g)]
<1>3. \A n \in Nat : Walks(n, c[n])
  <2>1. SUFFICES ASSUME NEW n \in Nat PROVE Walks(n, c[n])
    OBVIOUS
  <2>2. \E g : Walks(n, g)
    BY <1>1
  <2> HIDE DEF Walks
  <2>3. Walks(n, CHOOSE g : Walks(n, g))
    BY <2>2, Zenon
  <2> QED
    BY <2>3
<1> DEFINE f == [n \in Nat |-> c[n][n]]
<1> HIDE DEF c
<1>5. f[0] = [x \in Places |-> <<>>]
  BY <1>3
<1>6. \A k \in Nat \ {0} : f[k] = Next1(f[k - 1])
  <2>1. SUFFICES ASSUME NEW k \in Nat \ {0} PROVE f[k] = Next1(f[k - 1])
    OBVIOUS
  <2>2. PICK n \in Nat : k = n + 1 /\ k - 1 = n
    <3>1. k - 1 \in Nat /\ k = (k - 1) + 1
      OBVIOUS
    <3> QED
      BY <3>1
  <2>3. Walks(n, c[n]) /\ Walks(n + 1, c[n + 1])
    <3>1. n + 1 \in Nat
      OBVIOUS
    <3> HIDE DEF Walks
    <3> QED
      BY ONLY <1>3, <3>1, n \in Nat, Zenon
  <2>4. c[n + 1][n + 1] = Next1(c[n + 1][n])
    <3>1. n \in 0 .. n + 1 - 1
      OBVIOUS
    <3> QED
      BY <2>3, <3>1
  <2>5. c[n][n] = c[n + 1][n]
    <3> HIDE DEF Walks
    <3> QED
      BY ONLY <1>2, <2>3, n \in Nat
  <2> QED
    BY <2>2, <2>4, <2>5
<1>7. f = [k \in Nat |-> IF k = 0 THEN [x \in Places |-> <<>>] ELSE Next1(f[k - 1])]
  <2> HIDE DEF f
  <2>1. \A k \in Nat : f[k] = IF k = 0 THEN [x \in Places |-> <<>>] ELSE Next1(f[k - 1])
    BY <1>5, <1>6
  <2>2. f = [k \in Nat |-> f[k]]
    BY DEF f
  <2> QED
    BY <2>1, <2>2
<1> HIDE DEF f
<1> QED
  BY <1>7 DEF Next1, IsWalks

LEMMA WalkVisits ==
    ASSUME NodeAssumption, NEW t, NEW M, NEW D, NEW O, Order(O), Shape(t, M, D, O),
           \A x \in M : Balanced(t, x), NEW wt \in Orders
    PROVE  Visits(Walk(t, wt), M, OrderOf(wt, O))
<1>1. PICK f : IsWalks(t, wt, f) /\ Walk(t, wt) = f[Subth(t, t.root)][t.root]
  <2>1. \E f : IsWalks(t, wt, f)
    BY WalksExist
  <2>2. Walk(t, wt) = (CHOOSE f : IsWalks(t, wt, f))[Subth(t, t.root)][t.root]
    BY DEF Walk, Places, IsWalks
  <2>3. IsWalks(t, wt, CHOOSE f : IsWalks(t, wt, f))
    BY ONLY <2>1, Zenon
  <2> QED
    BY <2>2, <2>3
<1>2. /\ f[0] = [n \in Places |-> <<>>]
      /\ \A h \in Nat : f[h + 1] = [n \in Places |-> WalkOnce(t, wt, f[h], n)]
  <2>1. f[0] = [n \in Places |-> <<>>]
    BY <1>1 DEF IsWalks
  <2>2. ASSUME NEW h \in Nat PROVE f[h + 1] = [n \in Places |-> WalkOnce(t, wt, f[h], n)]
    <3>1. h + 1 \in Nat /\ h + 1 # 0 /\ h + 1 - 1 = h
      OBVIOUS
    <3> QED
      BY <1>1, <3>1 DEF IsWalks
  <2> QED
    BY <2>1, <2>2
<1>3. PICK R : R = OrderOf(wt, O)
  OBVIOUS
<1>4. /\ M \union {Nil} \subseteq Places /\ D[Nil] = {} /\ t \in Trees
      /\ t.root \in M \union {Nil} /\ D[t.root] = M /\ Nil \notin M
  BY NodeAssumption DEF Shape, Places
<1>5. Visits(<<>>, {}, R)
  <2>1. <<>> \in Seq(Node) /\ Len(<<>>) = 0
    OBVIOUS
  <2> QED
    BY <2>1 DEF Visits, Ordered, ToSet, IsInjective
<1> DEFINE Good(h) == \A n \in M \union {Nil} : Subth(t, n) <= h => Visits(f[h][n], D[n], R)
<1> DEFINE S == {h \in Nat : Good(h)}
<1>6. 0 \in S
  <2>1. ASSUME NEW n \in M \union {Nil}, Subth(t, n) <= 0 PROVE Visits(f[0][n], D[n], R)
    <3>1. n = Nil
      <4>0. Subth(t, n) \in Nat
        BY <1>4, TreeParts
      <4>1. SUFFICES ASSUME n \in M PROVE Subth(t, n) > 0
        BY <2>1, <4>0
      <4>a. Subth(t, n) = t.subth[n]
        BY <1>4, <4>1 DEF Subth
      <4>2. t.subth[n] = 1 + Higher(Subth(t, t.lc[n]), Subth(t, t.rc[n]))
        BY <4>1 DEF Balanced, Tall
      <4>3. Subth(t, t.lc[n]) \in Nat /\ Subth(t, t.rc[n]) \in Nat
        BY <4>1, Kids, TreeParts
      <4> QED
        BY <4>2, <4>3, <4>a DEF Higher
    <3> QED
      BY <1>2, <1>4, <1>5, <3>1
  <2> QED
    BY <2>1
<1>7. ASSUME NEW h \in Nat, h \in S PROVE h + 1 \in S
  <2>1. ASSUME NEW n \in M \union {Nil}, Subth(t, n) <= h + 1
        PROVE  Visits(f[h + 1][n], D[n], R)
    <3>1. f[h + 1][n] = WalkOnce(t, wt, f[h], n)
      BY <1>2, <1>4
    <3>2. CASE n = Nil
      <4>1. WalkOnce(t, wt, f[h], n) = <<>>
        BY <3>2 DEF WalkOnce
      <4> QED
        BY <1>4, <1>5, <3>1, <3>2, <4>1
    <3>3. CASE n \in M
      <4>1. PICK a, b : a = t.lc[n] /\ b = t.rc[n]
        OBVIOUS
      <4>2. a \in M \union {Nil} /\ b \in M \union {Nil} /\ n # Nil
        BY <3>3, <4>1, Kids
      <4>3. Subth(t, a) <= h /\ Subth(t, b) <= h
        <5>1. t.subth[n] = 1 + Higher(Subth(t, a), Subth(t, b))
          BY <3>3, <4>1 DEF Balanced, Tall
        <5>2. Subth(t, a) \in Nat /\ Subth(t, b) \in Nat /\ t.subth[n] <= h + 1
          BY <1>4, <2>1, <4>2, TreeParts DEF Subth
        <5> QED
          BY <5>1, <5>2 DEF Higher
      <4>4. Visits(f[h][a], D[a], R) /\ Visits(f[h][b], D[b], R)
        BY <1>7, <4>2, <4>3
      <4>5. /\ Visits(f[h][t.lc[n]], D[t.lc[n]], OrderOf(wt, O))
            /\ Visits(f[h][t.rc[n]], D[t.rc[n]], OrderOf(wt, O))
        BY <1>3, <4>1, <4>4
      <4>6. Visits(WalkOnce(t, wt, f[h], n), D[n], OrderOf(wt, O))
        BY <3>3, <4>5, WalkOnceVisits
      <4> QED
        BY <1>3, <3>1, <4>6
    <3> QED
      BY <3>2, <3>3
  <2> QED
    BY <2>1
<1>8. PICK h \in Nat : h = Subth(t, t.root)
  BY <1>4, TreeParts
<1>9. Good(h)
  <2> HIDE DEF S
  <2>1. Nat \subseteq S
    BY <1>6, <1>7, SetInduction
  <2>2. h \in S
    BY <2>1
  <2> QED
    BY <2>2 DEF S
<1>10. Visits(f[h][t.root], D[t.root], R)
  BY <1>4, <1>8, <1>9
<1> QED
  BY <1>1, <1>3, <1>4, <1>8, <1>10
-----------------------------------------------------------------------------
(* The invariant.                                                          *)

\* The order of ranges: one ends before the other begins.
Before == {p \in Node \X Node : p[1] + Span <= p[2]}

\* What a search for a place for arg knows.
Inserting(D) ==
    /\ arg \in Node \ members
    /\ cn \in members \union {Nil}
    /\ up \in members \union {Nil}
    /\ Beside(tree, members, D, Before, cn, arg)
    /\ Beside(tree, members, D, Before, up, arg)
    /\ \A y \in members : y \in D[cn] \/ <<y, arg>> \in Before \/ <<arg, y>> \in Before
    /\ up = Nil => cn = tree.root
    /\ up # Nil => \/ <<up, arg>> \in Before /\ cn = tree.rc[up]
                   \/ <<arg, up>> \in Before /\ cn = tree.lc[up]

\* What a search for the node around the address arg knows.
Looking(D) ==
    /\ arg \in Probes
    /\ cn \in members \union {Nil}
    /\ \A y \in members : y \in D[cn] \/ y > arg \/ y + Span <= arg

\* The memory of a tree with what the call that is under way knows of it.
AvlState(D) ==
    /\ Shape(tree, members, D, Before)
    /\ phase \in {"idle", "insert", "lookup", "rightmost", "leftmost", "balance"}
    /\ phase # "balance" => \A n \in members : Balanced(tree, n)
    /\ phase = "balance" => HeightsFrom(tree, members, cn)
    /\ phase = "insert" => Inserting(D)
    /\ phase = "lookup" => Looking(D)
    /\ phase = "rightmost" => Rightmost(tree, members, D, Before, arg, cn)
    /\ phase = "leftmost" => Rightmost(Mirror(tree), members, D, Back(Before), arg, cn)

AvlInv == \E D : AvlState(D)

LEMMA BeforeOrders == Order(Before)
BY AvlAssumption DEF Order, Before

LEMMA CmpMeans ==
    ASSUME NEW n \in Nat, NEW a \in Nat, NEW q \in Nat \ {0}
    PROVE  /\ RangeCmp(n, a, q) = "1lt2" <=> n + Span <= a
           /\ RangeCmp(n, a, q) = "1bt2" <=> n >= a + q
<1>1. Span \in Nat \ {0}
  BY AvlAssumption
<1>2. CASE n + Span <= a
  <2>1. RangeCmp(n, a, q) = "1lt2"
    BY <1>1, <1>2 DEF RangeCmp
  <2> QED
    BY <1>1, <1>2, <2>1
<1>3. CASE ~(n + Span <= a) /\ n >= a + q
  <2>1. RangeCmp(n, a, q) = "1bt2"
    BY <1>1, <1>3 DEF RangeCmp
  <2> QED
    BY <1>3, <2>1
<1>4. CASE ~(n + Span <= a) /\ ~(n >= a + q)
  <2>1. RangeCmp(n, a, q) \in {"1eq2", "1in2", "2in1", "ovlp"}
    BY <1>1, <1>4 DEF RangeCmp
  <2> QED
    BY <1>4, <2>1
<1> QED
  BY <1>2, <1>3, <1>4

\* A range of one address that is neither to the right nor to the left is in n.
LEMMA CmpFinds ==
    ASSUME NEW n \in Nat, NEW a \in Nat, ~(n + Span <= a), ~(n >= a + 1)
    PROVE  RangeCmp(n, a, 1) \in {"2in1", "1eq2"}
<1>1. Span \in Nat \ {0}
  BY AvlAssumption
<1>2. CASE n = a /\ Span = 1
  BY <1>1, <1>2 DEF RangeCmp
<1>3. CASE ~(n = a /\ Span = 1)
  <2>1. ~(n >= a /\ n + Span <= a + 1) /\ n <= a /\ n + Span >= a + 1
    BY <1>1, <1>3
  <2> QED
    BY <1>1, <1>3, <2>1 DEF RangeCmp
<1> QED
  BY <1>2, <1>3

LEMMA InitState == AvlInit => AvlInv
<1> SUFFICES ASSUME AvlInit PROVE AvlInv
  OBVIOUS
<1>1. PICK D : D = [x \in Places |-> {}]
  OBVIOUS
<1>2. tree \in Trees
  BY DEF AvlInit, NoTree, Trees, Places
<1>3. /\ members = {} /\ phase = "idle" /\ tree.root = Nil /\ Nil \in Places
      /\ D \in [Places -> SUBSET members] /\ D[Nil] = {}
  BY <1>1 DEF AvlInit, NoTree, Places
<1>4. Shape(tree, members, D, Before)
  BY <1>2, <1>3 DEF Shape
<1> QED
  BY <1>3, <1>4 DEF AvlInv, AvlState

\* A loop that goes down from x to the child c keeps beside what it came by.
LEMMA BesideDown ==
    ASSUME NodeAssumption, NEW t, NEW M, NEW D, NEW O, Order(O), Shape(t, M, D, O),
           \A n \in M : Balanced(t, n), NEW x \in M, NEW k, Beside(t, M, D, O, x, k),
           NEW c, \/ c = t.lc[x] /\ <<k, x>> \in O
                  \/ c = t.rc[x] /\ <<x, k>> \in O
    PROVE  Beside(t, M, D, O, c, k)
<1>1. /\ D \in [Places -> SUBSET M] /\ M \subseteq Node /\ D[Nil] = {} /\ Nil \notin M
  BY NodeAssumption DEF Shape
<1>2. Nested(t, M, D)
  BY BelowIsNested
<1>3. \A y \in M : /\ t.lc[y] \in M \union {Nil} /\ t.rc[y] \in M \union {Nil}
                   /\ t.lc[y] # Nil => t.lc[y] # t.rc[y] /\ t.f[t.lc[y]] = y
                   /\ t.rc[y] # Nil => t.f[t.rc[y]] = y
  BY Kids
<1>4. ASSUME c # Nil PROVE t.f[c] = x
  BY <1>3, <1>4
<1>5. ASSUME NEW y \in M, c \in D[t.lc[y]] PROVE <<k, y>> \in O
  <2>1. t.lc[y] \in M /\ c # Nil
    BY <1>1, <1>3, <1>5 DEF Places
  <2>2. CASE c = t.lc[y]
    BY <1>3, <1>4, <2>1, <2>2
  <2>3. CASE c # t.lc[y]
    <3>1. x \in D[t.lc[y]]
      BY <1>2, <1>4, <1>5, <2>1, <2>3 DEF Nested
    <3> QED
      BY <3>1 DEF Beside
  <2> QED
    BY <2>2, <2>3
<1>6. ASSUME NEW y \in M, c \in D[t.rc[y]] PROVE <<y, k>> \in O
  <2>1. t.rc[y] \in M /\ c # Nil
    BY <1>1, <1>3, <1>6 DEF Places
  <2>2. CASE c = t.rc[y]
    BY <1>3, <1>4, <2>1, <2>2
  <2>3. CASE c # t.rc[y]
    <3>1. x \in D[t.rc[y]]
      BY <1>2, <1>4, <1>6, <2>1, <2>3 DEF Nested
    <3> QED
      BY <3>1 DEF Beside
  <2> QED
    BY <2>2, <2>3
<1> QED
  BY <1>5, <1>6 DEF Beside

LEMMA StateFacts ==
    ASSUME NEW D, AvlState(D)
    PROVE  /\ tree \in Trees /\ members \subseteq Node /\ Node \subseteq Nat
           /\ Nil \notin members /\ Nil \notin Node /\ Span \in Nat \ {0}
           /\ tree.root \in members \union {Nil} /\ D[tree.root] = members /\ D[Nil] = {}
           /\ Order(Before) /\ Shape(tree, members, D, Before)
           /\ \A n \in members :
                /\ n \in Nat
                /\ tree.lc[n] \in members \union {Nil} /\ tree.rc[n] \in members \union {Nil}
                /\ D[n] = {n} \union D[tree.lc[n]] \union D[tree.rc[n]]
                /\ \A x \in D[tree.lc[n]] : <<x, n>> \in Before
                /\ \A x \in D[tree.rc[n]] : <<n, x>> \in Before
           /\ \A x, y \in Node : <<x, y>> \in Before <=> x + Span <= y
<1>1. Order(Before) /\ Shape(tree, members, D, Before)
  BY BeforeOrders DEF AvlState
<1>2. \A x, y \in Node : <<x, y>> \in Before <=> x + Span <= y
  BY DEF Before
<1>3. members \subseteq Node /\ Node \subseteq Nat /\ Nil \notin Node
  BY <1>1, NodeAssumption, AvlAssumption DEF Shape
<1> QED
  BY <1>1, <1>2, <1>3, AvlAssumption DEF Shape, Hangs

LEMMA InsertCallKeeps ==
    ASSUME NEW D, AvlState(D), NEW k \in Node, InsertCall(k)
    PROVE  AvlInv'
<1>1. /\ tree' = tree /\ members' = members /\ phase' = "insert" /\ phase = "idle"
      /\ arg' = k /\ cn' = tree.root /\ up' = Nil /\ k \in Node \ members
  BY DEF InsertCall
<1>2. /\ tree.root \in members \union {Nil} /\ D[tree.root] = members /\ D[Nil] = {}
      /\ D \in [Places -> SUBSET members] /\ Nil \notin members
      /\ \A y \in members : tree.lc[y] \in Places /\ tree.rc[y] \in Places
  BY StateFacts DEF Shape, Places
<1>3. Beside(tree, members, D, Before, Nil, k)
  BY <1>2 DEF Beside
<1>4. Beside(tree, members, D, Before, tree.root, k)
  <2>1. ASSUME NEW y \in members, tree.root \in D[tree.lc[y]] \union D[tree.rc[y]] PROVE FALSE
    <3>1. tree.root \in members /\ tree.f[tree.root] = Nil
      BY <1>2, <2>1, StateFacts, Kids, NodeAssumption
    <3>2. \A n \in members : Balanced(tree, n)
      BY <1>1 DEF AvlState
    <3>3. Nested(tree, members, D)
      BY <3>2, StateFacts, BelowIsNested, NodeAssumption
    <3>4. /\ tree.lc[y] # Nil => tree.f[tree.lc[y]] = y
          /\ tree.rc[y] # Nil => tree.f[tree.rc[y]] = y
          /\ y # Nil
      BY StateFacts, Kids, NodeAssumption
    <3>5. /\ tree.lc[y] # Nil => tree.lc[y] \in members
          /\ tree.rc[y] # Nil => tree.rc[y] \in members
      BY StateFacts
    <3> QED
      BY <1>2, <2>1, <3>1, <3>3, <3>4, <3>5 DEF Nested
  <2> QED
    BY <2>1 DEF Beside
<1>5. AvlState(D)'
  BY <1>1, <1>2, <1>3, <1>4 DEF AvlState, Inserting
<1> QED
  BY <1>5 DEF AvlInv

LEMMA InsertDownKeeps ==
    ASSUME NEW D, AvlState(D), InsertDown
    PROVE  AvlInv'
<1>1. /\ tree' = tree /\ members' = members /\ phase' = "insert" /\ phase = "insert"
      /\ arg' = arg /\ up' = cn /\ cn # Nil /\ Inserting(D)
      /\ \A n \in members : Balanced(tree, n)
  BY DEF InsertDown, AvlState
<1>2. PICK c : c = cn'
  OBVIOUS
<1>3. cn \in members /\ cn \in Node /\ arg \in Node /\ cn \in Nat /\ arg \in Nat
  BY <1>1, StateFacts DEF Inserting
<1>4. \/ c = tree.rc[cn] /\ <<cn, arg>> \in Before
      \/ c = tree.lc[cn] /\ <<arg, cn>> \in Before
  <2>1. /\ RangeCmp(cn, arg, Span) = "1lt2" <=> cn + Span <= arg
        /\ RangeCmp(cn, arg, Span) = "1bt2" <=> cn >= arg + Span
    BY <1>3, AvlAssumption, CmpMeans
  <2>2. \/ RangeCmp(cn, arg, Span) = "1lt2" /\ c = tree.rc[cn]
        \/ RangeCmp(cn, arg, Span) = "1bt2" /\ c = tree.lc[cn]
    BY <1>2 DEF InsertDown
  <2>3. cn >= arg + Span <=> arg + Span <= cn
    BY <1>3, AvlAssumption
  <2> QED
    BY <1>3, <2>1, <2>2, <2>3, StateFacts
<1>5. c \in members \union {Nil}
  BY <1>3, <1>4, StateFacts
<1>6. Beside(tree, members, D, Before, c, arg)
  BY <1>1, <1>3, <1>4, StateFacts, BesideDown, NodeAssumption DEF Inserting
<1>7. ASSUME NEW y \in members
      PROVE  y \in D[c] \/ <<y, arg>> \in Before \/ <<arg, y>> \in Before
  <2>1. y \in D[cn] \/ <<y, arg>> \in Before \/ <<arg, y>> \in Before
    BY <1>1 DEF Inserting
  <2>2. CASE y \in D[cn]
    <3>1. y = cn \/ y \in D[tree.lc[cn]] \/ y \in D[tree.rc[cn]]
      BY <1>3, <2>2, StateFacts
    <3>2. \A u, v, w \in Node : <<u, v>> \in Before /\ <<v, w>> \in Before => <<u, w>> \in Before
      BY BeforeOrders DEF Order
    <3>3. y \in Node /\ /\ y \in D[tree.lc[cn]] => <<y, cn>> \in Before
                        /\ y \in D[tree.rc[cn]] => <<cn, y>> \in Before
      BY <1>3, StateFacts
    <3> QED
      BY <1>3, <1>4, <3>1, <3>2, <3>3
  <2> QED
    BY <2>1, <2>2
<1>8. AvlState(D)'
  BY <1>1, <1>2, <1>3, <1>4, <1>5, <1>6, <1>7 DEF AvlState, Inserting
<1> QED
  BY <1>8 DEF AvlInv


LEMMA InsertLinkKeeps ==
    ASSUME NEW D, AvlState(D), InsertLink
    PROVE  AvlInv' /\ \A y \in members : <<y, arg>> \in Before \/ <<arg, y>> \in Before
<1>1. PICK right \in BOOLEAN : right <=> (up # Nil /\ RangeCmp(up, arg, Span) = "1lt2")
  OBVIOUS
<1>2. /\ tree' = Linked(tree, arg, up, right) /\ members' = members \union {arg}
      /\ phase = "insert" /\ phase' = "balance" /\ cn' = up /\ cn = Nil /\ Inserting(D)
      /\ \A n \in members : Balanced(tree, n)
  BY <1>1 DEF InsertLink, BalanceFrom, AvlState
<1>3. /\ arg \in Node \ members /\ up \in members \union {Nil} /\ up \in Places /\ up # arg
      /\ tree \in Trees /\ Order(Before) /\ Shape(tree, members, D, Before)
  BY <1>2, StateFacts DEF Inserting, Places
<1>4. \A y \in members : <<y, arg>> \in Before \/ <<arg, y>> \in Before
  BY <1>2, StateFacts DEF Inserting
<1>5. ASSUME up # Nil
      PROVE  IF right THEN tree.rc[up] = Nil /\ <<up, arg>> \in Before
             ELSE tree.lc[up] = Nil /\ <<arg, up>> \in Before
  <2>1. /\ up \in Node /\ up \in Nat /\ arg \in Node /\ arg \in Nat /\ Span \in Nat \ {0}
        /\ \A x, y \in Node : <<x, y>> \in Before <=> x + Span <= y
    BY <1>3, <1>5, StateFacts
  <2>2. right <=> up + Span <= arg
    <3>1. RangeCmp(up, arg, Span) = "1lt2" <=> up + Span <= arg
      BY <2>1, CmpMeans
    <3>2. right <=> RangeCmp(up, arg, Span) = "1lt2"
      BY <1>1, <1>5
    <3> QED
      BY <3>1, <3>2
  <2>3. \/ <<up, arg>> \in Before /\ tree.rc[up] = Nil
        \/ <<arg, up>> \in Before /\ tree.lc[up] = Nil
    BY <1>2, <1>5 DEF Inserting
  <2> QED
    BY <2>1, <2>2, <2>3
<1>6. FreePlace(tree, members, D, Before, arg, up, right)
  <2>1. up = Nil => tree.root = Nil
    BY <1>2 DEF Inserting
  <2>2. Beside(tree, members, D, Before, up, arg)
    BY <1>2 DEF Inserting
  <2> QED
    BY <1>3, <1>5, <2>1, <2>2 DEF FreePlace
<1>7. PICK u : u = tree'
  OBVIOUS
<1>8. IsLinked(tree, u, arg, up, right)
  <2>1. IsLinked(tree, Linked(tree, arg, up, right), arg, up, right)
    BY <1>3, LinkedIs, NodeAssumption
  <2> QED
    BY <1>2, <1>7, <2>1
<1>9. PICK E : Shape(u, members \union {arg}, E, Before)
  BY <1>3, <1>6, <1>8, LinkedShape, NodeAssumption
<1>10. HeightsFrom(u, members \union {arg}, up)
  BY <1>2, <1>3, <1>6, <1>8, LinkedHeights, NodeAssumption
<1>11. AvlState(E)'
  BY <1>2, <1>7, <1>9, <1>10 DEF AvlState
<1> QED
  BY <1>4, <1>11 DEF AvlInv

LEMMA RemoveCallKeeps ==
    ASSUME NEW D, AvlState(D), NEW n \in Node, RemoveCall(n)
    PROVE  AvlInv'
<1>1. /\ phase = "idle" /\ n \in members /\ tree \in Trees
      /\ Order(Before) /\ Shape(tree, members, D, Before)
      /\ \A x \in members : Balanced(tree, x)
  BY StateFacts DEF RemoveCall, AvlState
<1>2. CASE tree.lc[n] = Nil \/ tree.rc[n] = Nil
  <2>1. /\ tree' = Cleared(Ndcut(tree, n), n) /\ members' = members \ {n}
        /\ phase' = "balance" /\ cn' = tree.f[n]
    BY <1>2 DEF RemoveCall, CutOff, BalanceFrom
  <2>2. PICK u : u = tree'
    OBVIOUS
  <2>3. PICK E : Shape(u, members \ {n}, E, Before) /\ HeightsFrom(u, members \ {n}, tree.f[n])
    BY <1>1, <1>2, <2>1, <2>2, TakenOut, NodeAssumption
  <2>4. AvlState(E)'
    BY <2>1, <2>2, <2>3 DEF AvlState
  <2> QED
    BY <2>4 DEF AvlInv
<1>3. CASE ~(tree.lc[n] = Nil \/ tree.rc[n] = Nil)
  <2>1. /\ tree' = tree /\ members' = members /\ arg' = n
        /\ \/ phase' = "rightmost" /\ cn' = tree.lc[n]
           \/ phase' = "leftmost" /\ cn' = tree.rc[n]
    BY <1>3 DEF RemoveCall
  <2>2. CASE phase' = "rightmost" /\ cn' = tree.lc[n]
    <3>1. Rightmost(tree, members, D, Before, n, tree.lc[n])
      BY <1>1, <1>3, RightmostStart, NodeAssumption
    <3>2. AvlState(D)'
      BY <1>1, <2>1, <2>2, <3>1 DEF AvlState
    <3> QED
      BY <3>2 DEF AvlInv
  <2>3. CASE phase' = "leftmost" /\ cn' = tree.rc[n]
    <3>1. PICK s, P : s = Mirror(tree) /\ P = Back(Before)
      OBVIOUS
    <3>2. /\ Shape(s, members, D, P) /\ Order(P) /\ s.lc = tree.rc /\ s.rc = tree.lc
      BY <1>1, <3>1, MirrorShape, MirrorOrder, MirrorTree
    <3>3. s.lc[n] # Nil /\ s.rc[n] # Nil
      BY <1>3, <3>2
    <3>4. Rightmost(s, members, D, P, n, s.lc[n])
      BY <1>1, <3>2, <3>3, RightmostStart, NodeAssumption
    <3>5. Rightmost(Mirror(tree), members, D, Back(Before), n, tree.rc[n])
      BY <3>1, <3>2, <3>4
    <3>6. AvlState(D)'
      BY <1>1, <2>1, <2>3, <3>5 DEF AvlState
    <3> QED
      BY <3>6 DEF AvlInv
  <2> QED
    BY <2>1, <2>2, <2>3
<1> QED
  BY <1>2, <1>3

LEMMA SubstituteDownKeeps ==
    ASSUME NEW D, AvlState(D), SubstituteDown
    PROVE  AvlInv'
<1>1. /\ tree' = tree /\ members' = members /\ arg' = arg /\ phase' = phase /\ tree \in Trees
      /\ Order(Before) /\ Shape(tree, members, D, Before)
  BY StateFacts DEF SubstituteDown
<1>2. CASE phase = "rightmost" /\ tree.rc[cn] # Nil /\ cn' = tree.rc[cn]
  <2>1. Rightmost(tree, members, D, Before, arg, cn)
    BY <1>2 DEF AvlState
  <2>2. Rightmost(tree, members, D, Before, arg, tree.rc[cn])
    BY <1>1, <1>2, <2>1, RightmostDown, NodeAssumption
  <2>3. AvlState(D)'
    BY <1>1, <1>2, <2>2 DEF AvlState
  <2> QED
    BY <2>3 DEF AvlInv
<1>3. CASE phase = "leftmost" /\ tree.lc[cn] # Nil /\ cn' = tree.lc[cn]
  <2>1. PICK s, P : s = Mirror(tree) /\ P = Back(Before)
    OBVIOUS
  <2>2. Shape(s, members, D, P) /\ Order(P) /\ s.rc = tree.lc
    BY <1>1, <2>1, MirrorShape, MirrorOrder, MirrorTree
  <2>3. Rightmost(s, members, D, P, arg, cn)
    BY <1>3, <2>1 DEF AvlState
  <2>4. s.rc[cn] # Nil
    BY <1>3, <2>2
  <2>5. Rightmost(s, members, D, P, arg, s.rc[cn])
    BY <2>2, <2>3, <2>4, RightmostDown, NodeAssumption
  <2>6. Rightmost(Mirror(tree), members, D, Back(Before), arg, tree.lc[cn])
    BY <2>1, <2>2, <2>5
  <2>7. AvlState(D)'
    BY <1>1, <1>3, <2>6 DEF AvlState
  <2> QED
    BY <2>7 DEF AvlInv
<1> QED
  BY <1>2, <1>3 DEF SubstituteDown

LEMMA SubstituteKeeps ==
    ASSUME NEW D, AvlState(D), Substitute
    PROVE  AvlInv' /\ arg \in members
<1>1. PICK at : at = IF tree.f[cn] = arg THEN cn ELSE tree.f[cn]
  OBVIOUS
<1>2. /\ tree' = Cleared(Seated(Ndcut(tree, cn), arg, cn), arg) /\ members' = members \ {arg}
      /\ phase' = "balance" /\ cn' = at
      /\ Order(Before) /\ Shape(tree, members, D, Before)
  BY <1>1, StateFacts DEF Substitute, CutOff, BalanceFrom
<1>3. \A x \in members : Balanced(tree, x)
  BY DEF Substitute, AvlState
<1>4. \/ Rightmost(tree, members, D, Before, arg, cn) /\ tree.rc[cn] = Nil
      \/ Rightmost(Mirror(tree), members, D, Back(Before), arg, cn) /\ tree.lc[cn] = Nil
  BY DEF Substitute, AvlState
<1>5. PICK u : u = tree'
  OBVIOUS
<1>6. PICK E : Shape(u, members \ {arg}, E, Before) /\ HeightsFrom(u, members \ {arg}, at)
  BY <1>1, <1>2, <1>3, <1>4, <1>5, Substituted, NodeAssumption
<1>7. AvlState(E)'
  BY <1>2, <1>5, <1>6 DEF AvlState
<1>8. arg \in members
  BY <1>4 DEF Rightmost
<1> QED
  BY <1>7, <1>8 DEF AvlInv

LEMMA BalanceTurnKeeps ==
    ASSUME NEW D, AvlState(D), BalanceTurn
    PROVE  AvlInv'
<1>1. /\ tree' = Turned(Rfh(tree, cn), cn) /\ members' = members
      /\ phase' = "balance" /\ cn' = tree.f[cn]
      /\ Order(Before) /\ Shape(tree, members, D, Before)
      /\ HeightsFrom(tree, members, cn)
  BY StateFacts DEF BalanceTurn, AvlState
<1>2. cn \in members
  BY <1>1 DEF BalanceTurn, HeightsFrom
<1>3. PICK u : u = tree'
  OBVIOUS
<1>4. PICK E : Shape(u, members, E, Before) /\ HeightsFrom(u, members, tree.f[cn])
  BY <1>1, <1>2, <1>3, TurnKeeps, NodeAssumption
<1>5. AvlState(E)'
  BY <1>1, <1>3, <1>4 DEF AvlState
<1> QED
  BY <1>5 DEF AvlInv

LEMMA BalanceEndKeeps ==
    ASSUME NEW D, AvlState(D), BalanceEnd
    PROVE  AvlInv'
<1>1. /\ tree' = tree /\ members' = members /\ phase' = "idle"
      /\ Order(Before) /\ Shape(tree, members, D, Before)
      /\ HeightsFrom(tree, members, cn) /\ ~(cn # Nil /\ NeedsAb(tree, cn))
  BY StateFacts DEF BalanceEnd, AvlState, Return
<1>2. \A n \in members : Balanced(tree, n)
  BY <1>1, StopKeeps, NodeAssumption
<1>3. AvlState(D)'
  BY <1>1, <1>2 DEF AvlState
<1> QED
  BY <1>3 DEF AvlInv

LEMMA LookupCallKeeps ==
    ASSUME NEW D, AvlState(D), NEW p \in Probes, LookupCall(p)
    PROVE  AvlInv'
<1>1. /\ tree' = tree /\ members' = members /\ phase' = "lookup" /\ phase = "idle"
      /\ arg' = p /\ cn' = tree.root
  BY DEF LookupCall
<1>2. tree.root \in members \union {Nil} /\ D[tree.root] = members
  BY StateFacts
<1>3. AvlState(D)'
  BY <1>1, <1>2 DEF AvlState, Looking
<1> QED
  BY <1>3 DEF AvlInv

LEMMA LookupDownKeeps ==
    ASSUME NEW D, AvlState(D), LookupDown
    PROVE  AvlInv'
<1>1. /\ tree' = tree /\ members' = members /\ phase' = "lookup" /\ phase = "lookup"
      /\ arg' = arg /\ Looking(D)
  BY DEF LookupDown, AvlState
<1>2. cn \in members /\ cn \in Node /\ cn \in Nat /\ arg \in Nat /\ Span \in Nat \ {0}
  BY <1>1, StateFacts, AvlAssumption DEF LookupDown, Looking
<1>3. \/ cn' = tree.rc[cn] /\ cn + Span <= arg
      \/ cn' = tree.lc[cn] /\ cn >= arg + 1
  <2>1. /\ RangeCmp(cn, arg, 1) = "1lt2" <=> cn + Span <= arg
        /\ RangeCmp(cn, arg, 1) = "1bt2" <=> cn >= arg + 1
    BY <1>2, CmpMeans
  <2> QED
    BY <2>1 DEF LookupDown
<1>4. PICK c : c = cn'
  OBVIOUS
<1>5. c \in members \union {Nil}
  BY <1>2, <1>3, <1>4, StateFacts
<1>6. ASSUME NEW y \in members PROVE y \in D[c] \/ y > arg \/ y + Span <= arg
  <2>1. y \in D[cn] \/ y > arg \/ y + Span <= arg
    BY <1>1 DEF Looking
  <2>2. CASE y \in D[cn]
    <3>1. y = cn \/ y \in D[tree.lc[cn]] \/ y \in D[tree.rc[cn]]
      BY <1>2, <2>2, StateFacts
    <3>2. /\ y \in D[tree.lc[cn]] => y + Span <= cn
          /\ y \in D[tree.rc[cn]] => cn + Span <= y
          /\ y \in Nat
      BY <1>2, StateFacts
    <3> QED
      BY <1>2, <1>3, <1>4, <3>1, <3>2
  <2> QED
    BY <2>1, <2>2
<1>7. AvlState(D)'
  BY <1>1, <1>4, <1>5, <1>6 DEF AvlState, Looking
<1> QED
  BY <1>7 DEF AvlInv

LEMMA QuietSteps ==
    ASSUME NEW D, AvlState(D),
           InsertRefused \/ LookupEnd \/ (\E wt \in Orders : WalkCall(wt)) \/ UNCHANGED avlVars
    PROVE  AvlInv'
<1>1. CASE InsertRefused \/ LookupEnd
  <2>1. AvlState(D)'
    BY <1>1 DEF InsertRefused, LookupEnd, Return, AvlState
  <2> QED
    BY <2>1 DEF AvlInv
<1>2. CASE (\E wt \in Orders : WalkCall(wt)) \/ UNCHANGED avlVars
  <2>1. tree' = tree /\ members' = members /\ phase' = phase /\ arg' = arg /\ cn' = cn /\ up' = up
    BY <1>2 DEF WalkCall, avlVars
  <2>2. AvlState(D)'
    BY <2>1 DEF AvlState, Inserting, Looking
  <2> QED
    BY <2>2 DEF AvlInv
<1> QED
  BY <1>1, <1>2

LEMMA StepKeeps == AvlInv /\ [AvlNext]_avlVars => AvlInv'
<1> SUFFICES ASSUME AvlInv, [AvlNext]_avlVars PROVE AvlInv'
  OBVIOUS
<1>1. PICK D : AvlState(D)
  BY DEF AvlInv
<1>2. CASE \E k \in Node : InsertCall(k) \/ RemoveCall(k)
  BY <1>1, <1>2, InsertCallKeeps, RemoveCallKeeps
<1>3. CASE InsertDown
  BY <1>1, <1>3, InsertDownKeeps
<1>4. CASE InsertLink
  BY <1>1, <1>4, InsertLinkKeeps
<1>5. CASE SubstituteDown
  BY <1>1, <1>5, SubstituteDownKeeps
<1>6. CASE Substitute
  BY <1>1, <1>6, SubstituteKeeps
<1>7. CASE BalanceTurn
  BY <1>1, <1>7, BalanceTurnKeeps
<1>8. CASE BalanceEnd
  BY <1>1, <1>8, BalanceEndKeeps
<1>9. CASE \E p \in Probes : LookupCall(p)
  BY <1>1, <1>9, LookupCallKeeps
<1>10. CASE LookupDown
  BY <1>1, <1>10, LookupDownKeeps
<1>11. CASE InsertRefused \/ LookupEnd \/ (\E wt \in Orders : WalkCall(wt)) \/ UNCHANGED avlVars
  BY <1>1, <1>11, QuietSteps
<1> QED
  BY <1>2, <1>3, <1>4, <1>5, <1>6, <1>7, <1>8, <1>9, <1>10, <1>11 DEF AvlNext

\* The trees of lib/avl/avl.c keep their shape: between the calls and during
\* all searches each node is linked to its father and to two ordered subtrees,
\* and all heights are right up to the node that avl_ab() looks at next.
THEOREM AvlInvariant == AvlSpec => []AvlInv
<1>1. AvlInit => AvlInv
  BY InitState
<1>2. AvlInv /\ [AvlNext]_avlVars => AvlInv'
  BY StepKeeps
<1> QED
  BY <1>1, <1>2, PTL DEF AvlSpec

LEMMA InvBalanced == AvlInv => AvlBalanced
<1> SUFFICES ASSUME AvlInv, phase # "balance", NEW n \in members
             PROVE  Fathered(n) /\ Rfh(tree, n) = tree /\ Inbf(tree, n) \in -1 .. 1
  BY DEF AvlBalanced
<1>1. PICK D : AvlState(D)
  BY DEF AvlInv
<1>2. /\ Order(Before) /\ Shape(tree, members, D, Before) /\ tree \in Trees /\ n \in Node
      /\ Balanced(tree, n)
  BY <1>1, StateFacts DEF AvlState
<1>3. Fathered(n)
  BY <1>2, Kids, NodeAssumption DEF Fathered
<1>4. Inbf(tree, n) \in -1 .. 1
  BY <1>2 DEF Balanced, Inbf
<1>5. Rfh(tree, n) = tree
  <2>1. Rfh(tree, n) = [tree EXCEPT !.subth[n] = tree.subth[n]]
    BY <1>2, RfhIs, NodeAssumption DEF Balanced, Tall
  <2> QED
    BY <1>2, <2>1 DEF Trees
<1> QED
  BY <1>3, <1>4, <1>5

\* No node of a tree is out of balance once a call has returned.
THEOREM AvlBalancedHolds == AvlSpec => []AvlBalanced
BY AvlInvariant, InvBalanced, PTL

-----------------------------------------------------------------------------
(* The tree is a set of ranges.                                            *)

\* The actions of the set, for the ranges of the tree.
LEMMA SetActions ==
    ASSUME NEW n, NEW p, NEW wt
    PROVE  /\ Set!rangeSetVars = <<members, result>>
           /\ (Set!rangeSetVars)' = <<members', result'>>
           /\ Set!Asked <=> result' = <<"none", 0, 0>> /\ members' = members
           /\ Set!Insert(n) <=> /\ \A m \in members : m + Span <= n \/ n + Span <= m
                                /\ members' = members \union {n}
                                /\ result' = <<"insert", n, 0>>
           /\ Set!Refuse(n) <=> /\ \E m \in members : ~(m + Span <= n \/ n + Span <= m)
                                /\ result' = <<"insert", n, -1>>
                                /\ members' = members
           /\ Set!TakeOut(n) <=> /\ n \in members
                                 /\ members' = members \ {n}
                                 /\ result' = <<"remove", n, 0>>
           /\ Set!Find(p, n) <=> /\ IF n = Nil THEN \A m \in members : ~(m <= p /\ p < m + Span)
                                    ELSE n \in members /\ n <= p /\ p < n + Span
                                 /\ result' = <<"lookup", p, n>>
                                 /\ members' = members
BY DEF Set!rangeSetVars, Set!Asked, Set!NoAnswer, Set!Insert, Set!Refuse, Set!TakeOut, Set!Find,
       Set!Apart, Set!Covers

LEMMA InsertLinkInserts ==
    ASSUME NEW D, AvlState(D), InsertLink
    PROVE  arg \in Node /\ Set!Insert(arg)
<1>1. Inserting(D) /\ members' = members \union {arg} /\ result' = <<"insert", arg, 0>>
  BY DEF InsertLink, AvlState
<1>2. arg \in Node /\ members \subseteq Node
  BY <1>1, StateFacts DEF Inserting
<1>3. \A y \in members : y + Span <= arg \/ arg + Span <= y
  BY <1>2, InsertLinkKeeps, StateFacts
<1> QED
  BY <1>1, <1>2, <1>3, SetActions

LEMMA InsertRefusedRefuses ==
    ASSUME NEW D, AvlState(D), InsertRefused
    PROVE  arg \in Node /\ Set!Refuse(arg)
<1>1. Inserting(D) /\ members' = members /\ result' = <<"insert", arg, -1>> /\ cn # Nil
  BY DEF InsertRefused, AvlState
<1>2. /\ arg \in Node /\ arg \in Nat /\ cn \in members /\ cn \in Nat /\ Span \in Nat \ {0}
  BY <1>1, StateFacts DEF Inserting
<1>3. ~(cn + Span <= arg) /\ ~(cn >= arg + Span)
  <2>1. /\ RangeCmp(cn, arg, Span) = "1lt2" <=> cn + Span <= arg
        /\ RangeCmp(cn, arg, Span) = "1bt2" <=> cn >= arg + Span
    BY <1>2, CmpMeans
  <2> QED
    BY <2>1 DEF InsertRefused
<1>4. ~(cn + Span <= arg \/ arg + Span <= cn)
  BY <1>2, <1>3
<1> QED
  BY <1>1, <1>2, <1>4, SetActions

LEMMA LookupEndFinds ==
    ASSUME NEW D, AvlState(D), LookupEnd
    PROVE  \E p \in Probes, n \in Node \union {Nil} : Set!Find(p, n)
<1>1. Looking(D) /\ members' = members
  BY DEF LookupEnd, AvlState
<1>2. CASE cn = Nil
  <2>1. result' = <<"lookup", arg, Nil>>
    BY <1>2 DEF LookupEnd
  <2>2. arg \in Probes /\ \A y \in members : y > arg \/ y + Span <= arg
    BY <1>1, <1>2, StateFacts DEF Looking
  <2>3. arg \in Nat /\ \A y \in members : y \in Nat
    BY <2>2, StateFacts, AvlAssumption
  <2>4. \A y \in members : ~(y <= arg /\ arg < y + Span)
    BY <2>2, <2>3, AvlAssumption
  <2>5. Set!Find(arg, Nil)
    BY <1>1, <2>1, <2>4, SetActions
  <2> QED
    BY <2>2, <2>5
<1>3. CASE cn # Nil
  <2>1. /\ cn \in members /\ cn \in Node /\ cn \in Nat /\ arg \in Nat /\ arg \in Probes
        /\ Span \in Nat \ {0}
    BY <1>1, <1>3, StateFacts, AvlAssumption DEF Looking
  <2>2. /\ RangeCmp(cn, arg, 1) = "1lt2" <=> cn + Span <= arg
        /\ RangeCmp(cn, arg, 1) = "1bt2" <=> cn >= arg + 1
    BY <2>1, CmpMeans
  <2>3. ~(cn + Span <= arg) /\ ~(cn >= arg + 1)
    BY <1>3, <2>2 DEF LookupEnd
  <2>4. RangeCmp(cn, arg, 1) \in {"2in1", "1eq2"}
    BY <2>1, <2>3, CmpFinds
  <2>5. result' = <<"lookup", arg, cn>>
    BY <1>3, <2>4 DEF LookupEnd
  <2>6. cn <= arg /\ arg < cn + Span
    BY <2>1, <2>3
  <2>7. Set!Find(arg, cn)
    BY <1>1, <1>3, <2>1, <2>5, <2>6, SetActions
  <2> QED
    BY <2>1, <2>7
<1> QED
  BY <1>2, <1>3

LEMMA WalkCallVisits ==
    ASSUME NEW D, AvlState(D), NEW wt \in Orders, WalkCall(wt)
    PROVE  Set!Visit(wt)
<1>1. /\ Order(Before) /\ Shape(tree, members, D, Before)
      /\ \A n \in members : Balanced(tree, n)
  BY StateFacts DEF WalkCall, AvlState
<1>2. PICK w : w = Walk(tree, wt)
  OBVIOUS
<1>3. Visits(w, members, OrderOf(wt, Before))
  BY <1>1, <1>2, WalkVisits, NodeAssumption
<1>4. w \in Seq(Node) /\ IsInjective(w) /\ ToSet(w) = members /\ Ordered(w, OrderOf(wt, Before))
  BY <1>3 DEF Visits
<1>5. result' = <<"walk", wt, w>> /\ result'[3] = w /\ members' = members
  BY <1>2 DEF WalkCall
<1>6. \A i \in 1 .. Len(w) : w[i] \in Node /\ w[i] \in Nat
  BY <1>4, SequenceMembers, AvlAssumption
<1>7. ASSUME wt = <<"L", "M", "R">>, NEW i \in 1 .. Len(w), NEW j \in 1 .. Len(w), i < j
      PROVE  w[i] < w[j]
  <2>1. OrderOf(wt, Before) = Before
    BY <1>7 DEF OrderOf
  <2>2. w[i] + Span <= w[j]
    BY <1>4, <1>7, <2>1 DEF Ordered, Before
  <2> QED
    BY <1>6, <2>2, AvlAssumption
<1>8. ASSUME wt = <<"R", "M", "L">>, NEW i \in 1 .. Len(w), NEW j \in 1 .. Len(w), i < j
      PROVE  w[i] > w[j]
  <2>1. OrderOf(wt, Before) = Back(Before)
    <3>1. <<"R", "M", "L">> # <<"L", "M", "R">>
      OBVIOUS
    <3> QED
      BY <1>8, <3>1 DEF OrderOf
  <2>2. w[j] + Span <= w[i]
    BY <1>4, <1>8, <2>1 DEF Ordered, Before, Back
  <2> QED
    BY <1>6, <2>2, AvlAssumption
<1> QED
  BY <1>4, <1>5, <1>7, <1>8 DEF Set!Visit, Set!IsInjective, Set!ToSet, IsInjective, ToSet

\* Each step of the tree is a step of the set, or none.
LEMMA SetSteps == AvlInv /\ [AvlNext]_avlVars => [Set!RangeSetNext]_(Set!rangeSetVars)
<1> SUFFICES ASSUME AvlInv, [AvlNext]_avlVars
             PROVE  Set!RangeSetNext \/ (members' = members /\ result' = result)
  BY SetActions
<1>1. PICK D : AvlState(D)
  BY DEF AvlInv
<1>2. CASE Set!Asked
  BY <1>2 DEF Set!RangeSetNext
<1>3. ASSUME NEW n \in Node, Set!Insert(n) \/ Set!Refuse(n) \/ Set!TakeOut(n)
      PROVE  Set!RangeSetNext
  BY <1>3 DEF Set!RangeSetNext
<1>4. ASSUME NEW k \in Node, InsertCall(k) PROVE Set!Asked
  BY <1>4, SetActions DEF InsertCall
<1>5. ASSUME NEW n \in Node, RemoveCall(n) PROVE Set!TakeOut(n) \/ Set!Asked
  BY <1>5, SetActions DEF RemoveCall, CutOff
<1>6. CASE Substitute
  <2>1. arg \in members /\ arg \in Node
    BY <1>1, <1>6, SubstituteKeeps, StateFacts
  <2>2. Set!TakeOut(arg)
    BY <1>6, <2>1, SetActions DEF Substitute, CutOff
  <2> QED
    BY <1>3, <2>1, <2>2
<1>7. CASE InsertLink
  BY <1>1, <1>3, <1>7, InsertLinkInserts
<1>8. CASE InsertRefused
  BY <1>1, <1>3, <1>8, InsertRefusedRefuses
<1>9. CASE LookupEnd
  BY <1>1, <1>9, LookupEndFinds DEF Set!RangeSetNext
<1>10. ASSUME NEW p \in Probes, LookupCall(p) PROVE Set!Asked
  BY <1>10, SetActions DEF LookupCall
<1>11. ASSUME NEW wt \in Orders, WalkCall(wt) PROVE Set!RangeSetNext
  <2>1. wt \in [1 .. 3 -> {"L", "M", "R"}]
    BY DEF Orders
  <2>2. Set!Visit(wt)
    BY <1>1, <1>11, WalkCallVisits
  <2> QED
    BY <2>1, <2>2 DEF Set!RangeSetNext
<1>12. CASE InsertDown \/ SubstituteDown \/ BalanceTurn \/ BalanceEnd \/ LookupDown
            \/ UNCHANGED avlVars
  BY <1>12 DEF InsertDown, SubstituteDown, BalanceTurn, BalanceEnd, LookupDown, avlVars
<1> QED
  BY <1>2, <1>3, <1>4, <1>5, <1>6, <1>7, <1>8, <1>9, <1>10, <1>11, <1>12 DEF AvlNext

\* The trees of lib/avl/avl.c implement a set of ranges.
THEOREM AvlIsSetHolds == AvlSpec => AvlIsSet
<1>1. AvlInit => Set!RangeSetInit
  BY DEF AvlInit, Set!RangeSetInit, Set!NoAnswer
<1>2. AvlInv /\ [AvlNext]_avlVars => [Set!RangeSetNext]_(Set!rangeSetVars)
  BY SetSteps
<1> QED
  BY <1>1, <1>2, AvlInvariant, PTL DEF AvlSpec, AvlIsSet, Set!RangeSetSpec
=============================================================================
