------------------------------ MODULE DataLemmas ------------------------------
(***************************************************************************)
(* Facts about numbers and sequences that the proofs of several components *)
(* need: induction in terms of sets, quotients and remainders, and what it *)
(* means for a sequence to gain or lose an element.                        *)
(***************************************************************************)
EXTENDS Integers, Sequences, SequencesExt, FiniteSetsExt, SequenceTheorems,
        FiniteSetTheorems, WellFoundedInduction, TLAPS

\* Every nonempty set of natural numbers has a least element, ...
LEMMA LeastElement ==
    ASSUME NEW T, T \subseteq Nat, T # {}
    PROVE  \E x \in T : \A y \in T : x <= y
<1> DEFINE R == {ss \in Nat \X Nat : ss[1] < ss[2]}
<1>1. IsWellFoundedOn(R, Nat)
  BY NatLessThanWellFounded, Zenon DEF OpToRel
<1>2. \A x, y \in Nat : y < x => <<y, x>> \in R
  OBVIOUS
<1> HIDE DEF R
<1>3. PICK x \in T : \A y \in T : <<y, x>> \notin R
  BY <1>1, WFMin
<1>4. \A y \in T : ~ (y < x)
  BY <1>2, <1>3
<1> QED
  BY <1>4

\* ... which is induction, said of a set of numbers.
LEMMA SetInduction ==
    ASSUME NEW S, 0 \in S, \A n \in Nat : n \in S => n + 1 \in S
    PROVE  Nat \subseteq S
<1>1. SUFFICES ASSUME Nat \ S # {} PROVE FALSE
  OBVIOUS
<1>2. PICK x \in Nat \ S : \A y \in Nat \ S : x <= y
  BY <1>1, LeastElement
<1>3. x # 0 /\ x - 1 \in Nat
  BY <1>2
<1>4. x - 1 \in S
  BY <1>2, <1>3
<1> QED
  BY <1>2, <1>3, <1>4

\* Min() names the least element: list_add_comp() has a place to insert at.
LEMMA MinIsMember ==
    ASSUME NEW S \in SUBSET Nat, S # {}
    PROVE  Min(S) \in S
<1>1. PICK x \in S : \A y \in S : x <= y
  BY LeastElement
<1> QED
  BY <1>1 DEF Min

\* What determines a remainder, also of a negative number.
LEMMA RemainderIs ==
    ASSUME NEW a \in Int, NEW N \in Nat \ {0}, NEW k \in Int, NEW s \in 0 .. N - 1,
           a = k * N + s
    PROVE  a % N = s
<1>1. PICK q \in Int : q = a \div N
  OBVIOUS
<1>2. PICK r \in 0 .. N - 1 : r = a % N
  OBVIOUS
<1>3. a = q * N + r
  BY <1>1, <1>2
<1>4. CASE q = k
  BY <1>2, <1>3, <1>4
<1>5. CASE q > k
  <2>1. PICK e \in Nat : q = k + 1 + e
    <3>1. q - k - 1 \in Nat /\ q = k + 1 + (q - k - 1)
      BY <1>5
    <3> QED
      BY <3>1
  <2>2. q * N = k * N + N + e * N /\ e * N >= 0
    BY <2>1
  <2> QED
    BY <1>3, <2>2
<1>6. CASE k > q
  <2>1. PICK e \in Nat : k = q + 1 + e
    <3>1. k - q - 1 \in Nat /\ k = q + 1 + (k - q - 1)
      BY <1>6
    <3> QED
      BY <3>1
  <2>2. k * N = q * N + N + e * N /\ e * N >= 0
    BY <2>1
  <2> QED
    BY <1>3, <2>2
<1> QED
  BY <1>4, <1>5, <1>6

LEMMA RemainderExists ==
    ASSUME NEW a \in Int, NEW N \in Nat \ {0}
    PROVE  \E k \in Int, s \in 0 .. N - 1 : a % N = s /\ a = k * N + s
<1>1. PICK q \in Int : q = a \div N
  OBVIOUS
<1>2. PICK r \in 0 .. N - 1 : r = a % N
  OBVIOUS
<1>3. a = q * N + r
  BY <1>1, <1>2
<1> QED
  BY <1>2, <1>3

LEMMA SameRemainder ==
    ASSUME NEW N \in Nat \ {0}, NEW a \in Int, NEW b \in Int, NEW j \in Int, a = b + j * N
    PROVE  a % N = b % N
<1>1. PICK k \in Int, s \in 0 .. N - 1 : b % N = s /\ b = k * N + s
  BY RemainderExists
<1>2. a = (k + j) * N + s /\ k + j \in Int
  BY <1>1
<1>3. a % N = s
  BY ONLY <1>2, RemainderIs, N \in Nat \ {0}, a \in Int, s \in 0 .. N - 1
<1> QED
  BY ONLY <1>1, <1>3, Zenon

LEMMA OtherRemainder ==
    ASSUME NEW N \in Nat \ {0}, NEW a \in Int, NEW b \in Int, a < b, b < a + N
    PROVE  a % N # b % N
<1>1. PICK k \in Int, s \in 0 .. N - 1 : a % N = s /\ a = k * N + s
  BY RemainderExists
<1>2. PICK d \in 1 .. N - 1 : b = a + d
  <2>1. b - a \in 1 .. N - 1 /\ b = a + (b - a)
    OBVIOUS
  <2> QED
    BY <2>1
<1>3. CASE s + d < N
  <2>1. b = k * N + (s + d) /\ s + d \in 0 .. N - 1
    BY <1>1, <1>2, <1>3
  <2>2. b % N = s + d
    BY ONLY <2>1, RemainderIs, N \in Nat \ {0}, b \in Int, k \in Int
  <2> QED
    BY <1>1, <1>2, <2>2
<1>4. CASE s + d >= N
  <2>1. b = (k + 1) * N + (s + d - N) /\ s + d - N \in 0 .. N - 1 /\ k + 1 \in Int
    BY <1>1, <1>2, <1>4
  <2>2. b % N = s + d - N
    BY ONLY <2>1, RemainderIs, N \in Nat \ {0}, b \in Int
  <2> QED
    BY <1>1, <1>2, <2>2
<1> QED
  BY <1>1, <1>2, <1>3, <1>4

\* Remainders may be taken before or after adding.
LEMMA RemainderPlus ==
    ASSUME NEW N \in Nat \ {0}, NEW a \in Int, NEW c \in Int
    PROVE  ((a % N) + c) % N = (a + c) % N
<1>1. PICK k \in Int, s \in 0 .. N - 1 : a % N = s /\ a = k * N + s
  BY RemainderExists
<1>2. PICK x \in Int, y \in Int : x = a + c /\ y = s + c /\ x = y + k * N
  BY <1>1
<1>3. x % N = y % N
  BY <1>2, SameRemainder
<1> QED
  BY ONLY <1>1, <1>2, <1>3, Zenon

LEMMA RemainderMinus ==
    ASSUME NEW N \in Nat \ {0}, NEW a \in Int, NEW b \in Int
    PROVE  (a - (b % N)) % N = (a - b) % N
<1>1. PICK k \in Int, s \in 0 .. N - 1 : b % N = s /\ b = k * N + s
  BY RemainderExists
<1>2. PICK x \in Int, y \in Int : x = a - b /\ y = a - s /\ x = y + (-k) * N /\ -k \in Int
  BY <1>1
<1>3. x % N = y % N
  BY <1>2, SameRemainder
<1> QED
  BY ONLY <1>1, <1>2, <1>3, Zenon

\* Positions go once round the ring.
LEMMA Remainder ==
    ASSUME NEW a \in Int, NEW N \in Nat \ {0}
    PROVE  /\ a \in 0 .. N - 1 => a % N = a
           /\ a >= N /\ a < N + N => a % N = a - N
           /\ a < 0 /\ a >= -N => a % N = a + N
<1>1. a \in 0 .. N - 1 => a % N = a
  <2>1. a = 0 * N + a
    OBVIOUS
  <2> QED
    BY <2>1, RemainderIs
<1>2. a >= N /\ a < N + N => a % N = a - N
  <2>1. a = 1 * N + (a - N)
    OBVIOUS
  <2> QED
    BY <2>1, RemainderIs
<1>3. a < 0 /\ a >= -N => a % N = a + N
  <2>1. a = (-1) * N + (a + N)
    OBVIOUS
  <2> QED
    BY <2>1, RemainderIs
<1> QED
  BY <1>1, <1>2, <1>3, Zenon

\* A quotient and a remainder determine each other.
LEMMA RemainderUnique ==
    ASSUME NEW d \in Nat \ {0}, NEW p \in Nat, NEW q \in Nat,
           NEW r \in 0 .. d - 1, NEW s \in 0 .. d - 1, p * d + r = q * d + s
    PROVE  r = s
<1>1. PICK a \in Int : a = p * d + r /\ a = q * d + s
  OBVIOUS
<1>2. a % d = r
  BY <1>1, RemainderIs
<1>3. a % d = s
  BY <1>1, RemainderIs
<1> QED
  BY <1>2, <1>3

LEMMA Division ==
    ASSUME NEW l \in Nat, NEW d \in Nat \ {0}
    PROVE  \E q \in Nat, r \in 0 .. d - 1 : q = l \div d /\ r = l % d /\ l = q * d + r
<1>1. PICK q \in Nat : q = l \div d
  OBVIOUS
<1>2. PICK r \in 0 .. d - 1 : r = l % d
  OBVIOUS
<1>3. l = q * d + r
  BY <1>1, <1>2
<1> QED
  BY ONLY <1>1, <1>2, <1>3, Zenon

LEMMA Products ==
    ASSUME NEW x \in Int, NEW y \in Int, NEW z \in Int, NEW v \in Int, NEW w \in Int,
           w = y * z, v = x * y
    PROVE  x * w = v * z
  OBVIOUS

-----------------------------------------------------------------------------
\* What a sequence is made of, as used below.
LEMMA SequenceMembers ==
    ASSUME NEW T, NEW s \in Seq(T)
    PROVE  /\ Len(s) \in Nat
           /\ DOMAIN s = 1 .. Len(s)
           /\ \A i \in 1 .. Len(s) : s[i] \in T
           /\ \A t : t \in ToSet(s) <=> \E i \in 1 .. Len(s) : s[i] = t
BY LenProperties, ElementOfSeq DEF ToSet

\* A node that occurs once is what list_remove() leaves out.
LEMMA RemoveFirstPosition ==
    ASSUME NEW T, NEW s \in Seq(T), NEW k \in 1 .. Len(s), IsInjective(s)
    PROVE  RemoveFirst(s, s[k]) =
               SubSeq(s, 1, k - 1) \o SubSeq(s, k + 1, Len(s))
<1>1. {i \in 1 .. Len(s) : s[i] = s[k]} = {k}
  BY DEF IsInjective
<1>2. Min({k}) = k
  BY DEF Min
<1>3. SelectInSeq(s, LAMBDA x : x = s[k]) = k
  BY <1>1, <1>2 DEF SelectInSeq
<1> QED
  BY <1>3 DEF RemoveFirst, RemoveAt

\* A piece of a sequence, possibly empty.
LEMMA PieceProperties ==
    ASSUME NEW T, NEW s \in Seq(T), NEW a \in 1 .. Len(s) + 1,
           NEW b \in a - 1 .. Len(s)
    PROVE  /\ SubSeq(s, a, b) \in Seq(T)
           /\ Len(SubSeq(s, a, b)) = b - a + 1
           /\ \A i \in 1 .. b - a + 1 : SubSeq(s, a, b)[i] = s[a + i - 1]
<1>1. Len(s) \in Nat /\ \A i \in 1 .. Len(s) : s[i] \in T
  BY SequenceMembers
<1>2. a \in Int /\ b \in Int /\ \A i \in a .. b : s[i] \in T
  BY <1>1
<1>3. /\ SubSeq(s, a, b) \in Seq(T)
      /\ Len(SubSeq(s, a, b)) = IF a <= b THEN b - a + 1 ELSE 0
      /\ \A i \in 1 .. b - a + 1 : SubSeq(s, a, b)[i] = s[a + i - 1]
  BY <1>2, SubSeqProperties
<1> QED
  BY <1>1, <1>3

\* The sequence left when position k is cut out.
LEMMA CutProperties ==
    ASSUME NEW T, NEW s \in Seq(T), NEW k \in 1 .. Len(s),
           NEW r, r = SubSeq(s, 1, k - 1) \o SubSeq(s, k + 1, Len(s))
    PROVE  /\ r \in Seq(T)
           /\ Len(r) = Len(s) - 1
           /\ \A i \in 1 .. Len(s) - 1 : r[i] = IF i < k THEN s[i] ELSE s[i + 1]
<1>1. Len(s) \in Nat
  BY SequenceMembers
<1>2. PICK f : f = SubSeq(s, 1, k - 1)
  OBVIOUS
<1>3. PICK g : g = SubSeq(s, k + 1, Len(s))
  OBVIOUS
<1>4. /\ f \in Seq(T)
      /\ Len(f) = k - 1
      /\ \A i \in 1 .. k - 1 : f[i] = s[i]
  <2>1. 1 \in 1 .. Len(s) + 1 /\ k - 1 \in 1 - 1 .. Len(s)
    BY <1>1
  <2>2. /\ f \in Seq(T)
        /\ Len(f) = k - 1 - 1 + 1
        /\ \A i \in 1 .. k - 1 - 1 + 1 : f[i] = s[1 + i - 1]
    BY <1>2, <2>1, PieceProperties
  <2> QED
    BY <2>2, <1>1
<1>5. /\ g \in Seq(T)
      /\ Len(g) = Len(s) - k
      /\ \A i \in 1 .. Len(s) - k : g[i] = s[k + i]
  <2>1. k + 1 \in 1 .. Len(s) + 1 /\ Len(s) \in (k + 1) - 1 .. Len(s)
    BY <1>1
  <2>2. /\ g \in Seq(T)
        /\ Len(g) = Len(s) - (k + 1) + 1
        /\ \A i \in 1 .. Len(s) - (k + 1) + 1 : g[i] = s[(k + 1) + i - 1]
    BY <1>3, <2>1, PieceProperties
  <2>3. Len(s) - (k + 1) + 1 = Len(s) - k
    BY <1>1
  <2>4. ASSUME NEW i \in 1 .. Len(s) - k PROVE g[i] = s[k + i]
    <3>1. i \in 1 .. Len(s) - (k + 1) + 1 /\ (k + 1) + i - 1 = k + i
      BY <1>1, <2>3
    <3> QED
      BY <2>2, <3>1
  <2> QED
    BY <2>2, <2>3, <2>4
<1>6. /\ r \in Seq(T)
      /\ Len(r) = Len(f) + Len(g)
      /\ \A i \in 1 .. Len(f) + Len(g) :
            r[i] = IF i <= Len(f) THEN f[i] ELSE g[i - Len(f)]
  <2>1. f \in Seq(T) /\ g \in Seq(T)
    BY <1>4, <1>5
  <2>2. r = f \o g
    BY <1>2, <1>3
  <2> QED
    BY ONLY <2>1, <2>2, ConcatProperties
<1>7. ASSUME NEW i \in 1 .. Len(s) - 1
      PROVE  r[i] = IF i < k THEN s[i] ELSE s[i + 1]
  <2>1. CASE i < k
    <3>1. i \in 1 .. k - 1 /\ i <= Len(f) /\ i \in 1 .. Len(f) + Len(g)
      BY <2>1, <1>1, <1>4, <1>5
    <3>2. r[i] = f[i]
      BY ONLY <3>1, <1>6
    <3>3. f[i] = s[i]
      BY ONLY <3>1, <1>4
    <3> QED
      BY ONLY <2>1, <3>2, <3>3
  <2>2. CASE ~(i < k)
    <3>1. /\ i - (k - 1) \in 1 .. Len(s) - k
          /\ ~(i <= Len(f)) /\ i \in 1 .. Len(f) + Len(g)
          /\ i - Len(f) = i - (k - 1)
          /\ k + (i - (k - 1)) = i + 1
      BY <2>2, <1>1, <1>4, <1>5
    <3>2. r[i] = g[i - Len(f)]
      BY ONLY <3>1, <1>6
    <3>3. g[i - (k - 1)] = s[k + (i - (k - 1))]
      BY ONLY <3>1, <1>5
    <3> QED
      BY ONLY <2>2, <3>1, <3>2, <3>3
  <2> QED
    BY <2>1, <2>2
<1>8. Len(r) = Len(s) - 1
  <2>1. k \in Nat
    BY <1>1
  <2> QED
    BY ONLY <1>1, <2>1, <1>4, <1>5, <1>6
<1> QED
  BY <1>6, <1>7, <1>8

\* r is the sequence s with e put in at position k.
Inserted(T, s, k, e, r) ==
    /\ r \in Seq(T)
    /\ Len(r) = Len(s) + 1
    /\ \A i \in 1 .. Len(s) + 1 :
          r[i] = IF i < k THEN s[i] ELSE IF i = k THEN e ELSE s[i - 1]

\* What InsertAt makes: every node but e keeps its order.
LEMMA InsertProperties ==
    ASSUME NEW T, NEW s \in Seq(T), NEW e \in T, NEW k \in 1 .. Len(s) + 1,
           NEW r, r = InsertAt(s, k, e)
    PROVE  Inserted(T, s, k, e, r)
<1>1. Len(s) \in Nat
  BY SequenceMembers
<1>2. PICK f : f = SubSeq(s, 1, k - 1)
  OBVIOUS
<1>3. PICK g : g = SubSeq(s, k, Len(s))
  OBVIOUS
<1>4. /\ f \in Seq(T)
      /\ Len(f) = k - 1
      /\ \A i \in 1 .. k - 1 : f[i] = s[i]
  <2>1. 1 \in 1 .. Len(s) + 1 /\ k - 1 \in 1 - 1 .. Len(s)
    BY <1>1
  <2>2. /\ f \in Seq(T)
        /\ Len(f) = k - 1 - 1 + 1
        /\ \A i \in 1 .. k - 1 - 1 + 1 : f[i] = s[1 + i - 1]
    BY <1>2, <2>1, PieceProperties
  <2> QED
    BY <2>2, <1>1
<1>5. /\ g \in Seq(T)
      /\ Len(g) = Len(s) - k + 1
      /\ \A i \in 1 .. Len(s) - k + 1 : g[i] = s[k + i - 1]
  <2>1. Len(s) \in k - 1 .. Len(s)
    BY <1>1
  <2> QED
    BY <1>3, <2>1, PieceProperties
<1>6. PICK h : h = f \o <<e>>
  OBVIOUS
<1>7. /\ h \in Seq(T)
      /\ Len(h) = k
      /\ \A i \in 1 .. k : h[i] = IF i < k THEN s[i] ELSE e
  <2>1. <<e>> \in Seq(T) /\ Len(<<e>>) = 1 /\ <<e>>[1] = e
    OBVIOUS
  <2>2. /\ h \in Seq(T)
        /\ Len(h) = Len(f) + Len(<<e>>)
        /\ \A i \in 1 .. Len(f) + Len(<<e>>) :
              h[i] = IF i <= Len(f) THEN f[i] ELSE <<e>>[i - Len(f)]
    BY <1>4, <1>6, <2>1, ConcatProperties
  <2> QED
    BY <1>1, <1>4, <2>1, <2>2
<1>8. r = h \o g
  BY <1>2, <1>3, <1>6 DEF InsertAt
<1>9. /\ r \in Seq(T)
      /\ Len(r) = Len(h) + Len(g)
      /\ \A i \in 1 .. Len(h) + Len(g) :
            r[i] = IF i <= Len(h) THEN h[i] ELSE g[i - Len(h)]
  <2>1. h \in Seq(T) /\ g \in Seq(T)
    BY <1>5, <1>7
  <2> QED
    BY ONLY <1>8, <2>1, ConcatProperties
<1> QED
  BY <1>1, <1>5, <1>7, <1>9 DEF Inserted

\* Taking a node out of one list.
LEMMA RemoveFirstProperties ==
    ASSUME NEW T, NEW s \in Seq(T), IsInjective(s), NEW t
    PROVE  /\ RemoveFirst(s, t) \in Seq(T)
           /\ IsInjective(RemoveFirst(s, t))
           /\ ToSet(RemoveFirst(s, t)) = ToSet(s) \ {t}
<1> DEFINE r == RemoveFirst(s, t)
<1>0. Len(s) \in Nat /\ DOMAIN s = 1 .. Len(s)
  BY SequenceMembers
<1>1. CASE t \notin ToSet(s)
  <2>1. r = s
    BY <1>1, <1>0 DEF RemoveFirst, ToSet
  <2> QED
    BY <2>1, <1>1
<1>2. CASE t \in ToSet(s)
  <2>1. PICK k \in 1 .. Len(s) : s[k] = t
    BY <1>2, SequenceMembers
  <2>2. r = SubSeq(s, 1, k - 1) \o SubSeq(s, k + 1, Len(s))
    BY <2>1, RemoveFirstPosition
  <2>3. /\ r \in Seq(T)
        /\ Len(r) = Len(s) - 1
        /\ \A i \in 1 .. Len(s) - 1 : r[i] = IF i < k THEN s[i] ELSE s[i + 1]
    BY <2>2, CutProperties
  <2> HIDE DEF r
  <2>4. DOMAIN r = 1 .. Len(s) - 1
    BY <2>3, SequenceMembers
  <2>5. \A i, j \in 1 .. Len(s) : s[i] = s[j] => i = j
    BY <1>0 DEF IsInjective
  <2>6. IsInjective(r)
    BY <1>0, <2>3, <2>4, <2>5 DEF IsInjective
  <2>7. \A x : x \in ToSet(r) <=> x \in ToSet(s) \ {t}
    <3>1. SUFFICES ASSUME NEW x PROVE x \in ToSet(r) <=> x \in ToSet(s) \ {t}
      OBVIOUS
    <3>2. ASSUME x \in ToSet(r) PROVE x \in ToSet(s) \ {t}
      <4>1. PICK i \in 1 .. Len(s) - 1 : r[i] = x
        BY <3>2, <2>4 DEF ToSet
      <4>2. \E j \in 1 .. Len(s) : j # k /\ s[j] = x
        BY <4>1, <2>3, <1>0
      <4> QED
        BY <4>2, <2>1, <2>5, <1>0 DEF ToSet
    <3>3. ASSUME x \in ToSet(s) \ {t} PROVE x \in ToSet(r)
      <4>1. PICK j \in 1 .. Len(s) : s[j] = x /\ j # k
        BY <3>3, <1>0, <2>1 DEF ToSet
      <4>2. \E i \in 1 .. Len(s) - 1 : r[i] = x
        <5>1. CASE j < k
          BY <5>1, <4>1, <2>3, <1>0
        <5>2. CASE j > k
          <6>1. j - 1 \in 1 .. Len(s) - 1 /\ ~(j - 1 < k) /\ (j - 1) + 1 = j
            BY <5>2, <1>0
          <6>2. r[j - 1] = x
            BY <6>1, <2>3, <4>1
          <6> QED
            BY <6>1, <6>2
        <5> QED
          BY <5>1, <5>2, <4>1
      <4> QED
        BY <4>2, <2>4 DEF ToSet
    <3> QED
      BY <3>2, <3>3
  <2> QED
    BY <2>3, <2>6, <2>7 DEF r
<1> QED
  BY <1>1, <1>2

\* Putting a node in at position k.
LEMMA InsertAtProperties ==
    ASSUME NEW T, NEW s \in Seq(T), IsInjective(s), NEW e \in T,
           e \notin ToSet(s), NEW k \in 1 .. Len(s) + 1
    PROVE  /\ InsertAt(s, k, e) \in Seq(T)
           /\ IsInjective(InsertAt(s, k, e))
           /\ ToSet(InsertAt(s, k, e)) = ToSet(s) \union {e}
<1>1. Len(s) \in Nat /\ DOMAIN s = 1 .. Len(s)
  BY SequenceMembers
<1>2. PICK r : r = InsertAt(s, k, e)
  OBVIOUS
<1>3. /\ r \in Seq(T)
      /\ Len(r) = Len(s) + 1
      /\ \A i \in 1 .. Len(s) + 1 :
            r[i] = IF i < k THEN s[i] ELSE IF i = k THEN e ELSE s[i - 1]
  <2>1. Inserted(T, s, k, e, r)
    BY <1>2, InsertProperties
  <2> QED
    BY ONLY <2>1 DEF Inserted
<1>4. DOMAIN r = 1 .. Len(s) + 1
  BY <1>3, SequenceMembers
<1>5. /\ \A i, j \in 1 .. Len(s) : s[i] = s[j] => i = j
      /\ \A i \in 1 .. Len(s) : s[i] # e
  BY <1>1 DEF IsInjective, ToSet
<1>6. IsInjective(r)
  BY <1>1, <1>3, <1>4, <1>5 DEF IsInjective
<1>7. \A x : x \in ToSet(r) <=> x \in ToSet(s) \union {e}
  <2>1. SUFFICES ASSUME NEW x
                 PROVE  x \in ToSet(r) <=> x \in ToSet(s) \union {e}
    OBVIOUS
  <2>2. ASSUME x \in ToSet(r) PROVE x \in ToSet(s) \union {e}
    <3>1. PICK i \in 1 .. Len(s) + 1 : r[i] = x
      BY <2>2, <1>4 DEF ToSet
    <3>2. x = e \/ \E j \in 1 .. Len(s) : s[j] = x
      BY <3>1, <1>3, <1>1
    <3> QED
      BY <3>2, <1>1 DEF ToSet
  <2>3. ASSUME x \in ToSet(s) PROVE x \in ToSet(r)
    <3>1. PICK j \in 1 .. Len(s) : s[j] = x
      BY <2>3, <1>1 DEF ToSet
    <3>2. CASE j < k
      BY <3>1, <3>2, <1>1, <1>3, <1>4 DEF ToSet
    <3>3. CASE j >= k
      <4>1. /\ j + 1 \in 1 .. Len(s) + 1
            /\ ~(j + 1 < k) /\ j + 1 # k /\ (j + 1) - 1 = j
        BY <3>3, <1>1
      <4>2. r[j + 1] = x
        BY <4>1, <1>3, <3>1
      <4> QED
        BY <4>1, <4>2, <1>4 DEF ToSet
    <3> QED
      BY <3>2, <3>3, <1>1
  <2>4. e \in ToSet(r)
    BY <1>1, <1>3, <1>4 DEF ToSet
  <2> QED
    BY <2>2, <2>3, <2>4
<1> QED
  BY <1>2, <1>3, <1>6, <1>7

\* Putting a node in at the end, and at the front.
LEMMA AppendMembers ==
    ASSUME NEW T, NEW s \in Seq(T), IsInjective(s), NEW e \in T,
           e \notin ToSet(s)
    PROVE  /\ Append(s, e) \in Seq(T)
           /\ IsInjective(Append(s, e))
           /\ ToSet(Append(s, e)) = ToSet(s) \union {e}
<1>1. PICK k \in 1 .. Len(s) + 1 : k = Len(s) + 1 /\ Len(s) \in Nat
  BY SequenceMembers
<1>2. PICK r : r = InsertAt(s, k, e)
  OBVIOUS
<1>3. /\ r \in Seq(T)
      /\ Len(r) = Len(s) + 1
      /\ \A i \in 1 .. Len(s) + 1 :
            r[i] = IF i < k THEN s[i] ELSE IF i = k THEN e ELSE s[i - 1]
  <2>1. Inserted(T, s, k, e, r)
    BY <1>2, InsertProperties
  <2> QED
    BY ONLY <2>1 DEF Inserted
<1>4. PICK a : a = Append(s, e)
  OBVIOUS
<1>5. /\ a \in Seq(T)
      /\ Len(a) = Len(s) + 1
      /\ \A i \in 1 .. Len(s) : a[i] = s[i]
      /\ a[Len(s) + 1] = e
  BY <1>4, AppendProperties
<1>6. \A i \in 1 .. Len(a) : a[i] = r[i]
  BY <1>1, <1>3, <1>5
<1>7. Len(a) = Len(r)
  BY <1>3, <1>5
<1>8. a = r
  <2>1. a \in Seq(T) /\ r \in Seq(T)
    BY <1>3, <1>5
  <2> QED
    BY ONLY <2>1, <1>6, <1>7, SeqEqual
<1>9. /\ r \in Seq(T)
      /\ IsInjective(r)
      /\ ToSet(r) = ToSet(s) \union {e}
  BY <1>2, InsertAtProperties
<1> QED
  BY <1>4, <1>8, <1>9

LEMMA ConsMembers ==
    ASSUME NEW T, NEW s \in Seq(T), IsInjective(s), NEW e \in T,
           e \notin ToSet(s)
    PROVE  /\ <<e>> \o s \in Seq(T)
           /\ IsInjective(<<e>> \o s)
           /\ ToSet(<<e>> \o s) = ToSet(s) \union {e}
<1>1. Len(s) \in Nat /\ 1 \in 1 .. Len(s) + 1
  BY SequenceMembers
<1>2. SubSeq(s, 1, 1 - 1) = <<>>
  BY SubSeqEmpty
<1>3. SubSeq(s, 1, Len(s)) = s
  BY SubSeqFull
<1>4. <<e>> \in Seq(T)
  OBVIOUS
<1>5. <<>> \o <<e>> = <<e>>
  BY <1>4, ConcatEmptySeq
<1>6. PICK k \in 1 .. Len(s) + 1 : InsertAt(s, k, e) = <<e>> \o s
  BY <1>1, <1>2, <1>3, <1>5 DEF InsertAt
<1>7. /\ InsertAt(s, k, e) \in Seq(T)
      /\ IsInjective(InsertAt(s, k, e))
      /\ ToSet(InsertAt(s, k, e)) = ToSet(s) \union {e}
  BY InsertAtProperties
<1> QED
  BY <1>6, <1>7

\* Two sequences without repetition that have nothing in common.
LEMMA TwoInjective ==
    ASSUME NEW T, NEW p \in Seq(T), NEW q \in Seq(T), IsInjective(p), IsInjective(q),
           ToSet(p) \intersect ToSet(q) = {}
    PROVE  /\ p \o q \in Seq(T)
           /\ IsInjective(p \o q)
           /\ ToSet(p \o q) = ToSet(p) \union ToSet(q)
<1> DEFINE r == p \o q
<1>1. /\ Len(p) \in Nat /\ DOMAIN p = 1 .. Len(p)
      /\ Len(q) \in Nat /\ DOMAIN q = 1 .. Len(q)
  BY SequenceMembers
<1>2. /\ r \in Seq(T) /\ Len(r) = Len(p) + Len(q) /\ DOMAIN r = 1 .. Len(p) + Len(q)
      /\ \A i \in 1 .. Len(p) : r[i] = p[i]
      /\ \A i \in 1 .. Len(q) : r[Len(p) + i] = q[i]
  BY <1>1
<1> HIDE DEF r
<1>3. \A i \in DOMAIN r : \/ i \in DOMAIN p /\ r[i] = p[i]
                          \/ i - Len(p) \in DOMAIN q /\ r[i] = q[i - Len(p)]
  <2> TAKE i \in DOMAIN r
  <2>1. CASE i \in DOMAIN p
    BY <1>1, <1>2, <2>1
  <2>2. CASE i \notin DOMAIN p
    <3>1. i - Len(p) \in 1 .. Len(q) /\ Len(p) + (i - Len(p)) = i
      BY <1>1, <1>2, <2>2
    <3> QED
      BY <1>1, <1>2, <3>1
  <2> QED
    BY <2>1, <2>2
<1>4. \A i \in DOMAIN p, j \in DOMAIN q : p[i] # q[j]
  BY DEF ToSet
<1>5. IsInjective(r)
  <2>1. \A i, j \in DOMAIN r : r[i] = r[j] => i = j
    <3> TAKE i, j \in DOMAIN r
    <3> HAVE r[i] = r[j]
    <3>1. i \in Int /\ j \in Int
      BY <1>1, <1>2
    <3>2. CASE i \in DOMAIN p /\ r[i] = p[i] /\ j \in DOMAIN p /\ r[j] = p[j]
      BY <3>2 DEF IsInjective
    <3>3. CASE /\ i - Len(p) \in DOMAIN q /\ r[i] = q[i - Len(p)]
               /\ j - Len(p) \in DOMAIN q /\ r[j] = q[j - Len(p)]
      <4>1. i - Len(p) = j - Len(p)
        BY <3>3 DEF IsInjective
      <4> QED
        BY <1>1, <3>1, <4>1
    <3> QED
      BY <1>3, <1>4, <3>2, <3>3
  <2> QED
    BY <2>1 DEF IsInjective
<1>6. ToSet(r) = ToSet(p) \union ToSet(q)
  <2>1. \A i \in DOMAIN r : r[i] \in ToSet(p) \union ToSet(q)
    BY <1>3 DEF ToSet
  <2>2. \A i \in DOMAIN p : i \in DOMAIN r /\ r[i] = p[i]
    BY <1>1, <1>2
  <2>3. \A i \in DOMAIN q : Len(p) + i \in DOMAIN r /\ r[Len(p) + i] = q[i]
    BY <1>1, <1>2
  <2> QED
    BY <2>1, <2>2, <2>3 DEF ToSet
<1> QED
  BY <1>2, <1>5, <1>6 DEF r
=============================================================================
