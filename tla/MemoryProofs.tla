---------------------------- MODULE MemoryProofs ----------------------------
(***************************************************************************)
(* Memory, and the functions its set-up uses.  The parts share no state;   *)
(* each section proves what one of them promises:                          *)
(*   Library       LibraryRight: sort(), bsearch() and alg_bsch()           *)
(*   AddressSpace  MappedAtCreation and MappingsKept: page tables           *)
(*   Ranges        RangesTile and RefusedForCause: the table of ranges      *)
(*   Buddy         Partitioned, ListsConsistent, Coalesced, IsPool          *)
(*   Slab          BlocksAccounted and SlabListsAgree                       *)
(***************************************************************************)
EXTENDS Library, AddressSpace, Ranges, Buddy, Slab, DataLemmas

\* The children of node i in the heap.
IsChild(i, j) == j = 2 * i + 1 \/ j = 2 * i + 2

\* From lo on a is a heap up to hi, but for node r, which may be less than its
\* children; these are not above the father of r.
HeapBut(a, lo, hi, r) ==
    \A i, j \in 0 .. hi - 1 :
        i >= lo /\ IsChild(i, j) =>
            /\ i # r => a[j] <= a[i]
            /\ i = r => \A h \in 0 .. hi - 1 : h >= lo /\ IsChild(h, r) => a[j] <= a[h]

\* From lo on a is a heap up to hi.
Heap(a, lo, hi) ==
    \A i, j \in 0 .. hi - 1 : i >= lo /\ IsChild(i, j) => a[j] <= a[i]

\* What is behind i is in order, and nothing before it is greater.
SortedFrom(a, i, n) ==
    \A p, q \in 0 .. n - 1 : p < q /\ q >= i => a[p] <= a[q]

\* a and b hold each element as often.
SameElements(a, b, n) ==
    \A x \in Elements :
        Cardinality({i \in 0 .. n - 1 : a[i] = x}) = Cardinality({i \in 0 .. n - 1 : b[i] = x})

\* Where sort() stands: what is sifted down is all that is wrong with the
\* heap, and what has been taken out is in its place.
SortInv(n) ==
    /\ SameElements(array, unsorted, n)
    /\ call = "heapify" =>
          /\ idxL \in 0 .. n - 1 /\ idxR \in idxL .. n - 1 /\ n > 1
          /\ HeapBut(array, idxL, n, idxR)
    /\ call = "extract" =>
          /\ idxL \in 1 .. n - 1 /\ idxR \in 0 .. idxL - 1
          /\ HeapBut(array, 0, idxL, idxR)
          /\ SortedFrom(array, idxL, n)
    /\ call = "sorted" => SortedFrom(array, 0, n)

\* Where a search stands: what it looks for is between its bounds, if anywhere.
SearchInv(n) ==
    /\ call \in {"bsearch", "alg_bsch"} =>
          /\ Ascending(array)
          /\ idxL \in 0 .. n /\ idxR \in idxL .. n
    /\ call = "bsearch" /\ foundAt = Searching =>
          /\ \A i \in 0 .. n - 1 : i < idxL => array[i] < key
          /\ \A i \in 0 .. n - 1 : i >= idxR => array[i] > key
    /\ call = "alg_bsch" /\ foundAt = Searching =>
          /\ idxL < idxR
          /\ idxL = 0 \/ array[idxL] <= key
          /\ \A i \in 0 .. n - 1 : i >= idxR => array[i] > key

\* The inductive invariant.
LibraryInv ==
    /\ call \in {"heapify", "extract", "sorted", "bsearch", "alg_bsch"}
    /\ key \in Int
    /\ \E n \in Nat :
          /\ array \in [0 .. n - 1 -> Elements] /\ unsorted \in [0 .. n - 1 -> Elements]
          /\ SortInv(n) /\ SearchInv(n)
    /\ LibraryRight

\* A swap exchanges two elements and leaves the number of each as it was.
LEMMA SwappedValues ==
    ASSUME NEW n \in Nat, NEW a \in [0 .. n - 1 -> Elements],
           NEW i \in 0 .. n - 1, NEW j \in 0 .. n - 1
    PROVE  /\ Swapped(a, i, j) \in [0 .. n - 1 -> Elements]
           /\ Swapped(a, i, j)[i] = a[j] /\ Swapped(a, i, j)[j] = a[i]
           /\ \A k \in 0 .. n - 1 : k # i /\ k # j => Swapped(a, i, j)[k] = a[k]
BY DEF Swapped

\* An exchange keeps how often each element occurs.
LEMMA SwappedSame ==
    ASSUME NEW n \in Nat, NEW a \in [0 .. n - 1 -> Elements],
           NEW i \in 0 .. n - 1, NEW j \in 0 .. n - 1
    PROVE  SameElements(Swapped(a, i, j), a, n)
<1> DEFINE b    == Swapped(a, i, j)
           S(x) == {k \in 0 .. n - 1 : a[k] = x}
           T(x) == {k \in 0 .. n - 1 : b[k] = x}
<1>1. /\ b[i] = a[j] /\ b[j] = a[i]
      /\ \A k \in 0 .. n - 1 : k # i /\ k # j => b[k] = a[k]
  BY SwappedValues
<1> HIDE DEF b
<1>2. SUFFICES ASSUME NEW x \in Elements PROVE Cardinality(T(x)) = Cardinality(S(x))
  BY DEF SameElements, b
<1>3. IsFiniteSet(S(x)) /\ Cardinality(S(x)) \in Nat
  <2>1. IsFiniteSet(0 .. n - 1) /\ S(x) \subseteq 0 .. n - 1
    BY FS_Interval
  <2> QED
    BY <2>1, FS_Subset, FS_CardinalityType
<1>4. CASE a[i] = x <=> a[j] = x
  <2>1. T(x) = S(x)
    BY <1>1, <1>4
  <2> QED
    BY <2>1
<1>5. CASE a[i] = x /\ a[j] # x
  <2>1. T(x) = (S(x) \ {i}) \union {j} /\ i \in S(x) /\ j \notin S(x) \ {i}
    BY <1>1, <1>5
  <2>2. IsFiniteSet(S(x) \ {i}) /\ Cardinality(S(x) \ {i}) = Cardinality(S(x)) - 1
    BY <1>3, <2>1, FS_RemoveElement
  <2>3. Cardinality(T(x)) = Cardinality(S(x) \ {i}) + 1
    BY <2>1, <2>2, FS_AddElement
  <2> QED
    BY <1>3, <2>2, <2>3
<1>6. CASE a[j] = x /\ a[i] # x
  <2>1. T(x) = (S(x) \ {j}) \union {i} /\ j \in S(x) /\ i \notin S(x) \ {j}
    BY <1>1, <1>6
  <2>2. IsFiniteSet(S(x) \ {j}) /\ Cardinality(S(x) \ {j}) = Cardinality(S(x)) - 1
    BY <1>3, <2>1, FS_RemoveElement
  <2>3. Cardinality(T(x)) = Cardinality(S(x) \ {j}) + 1
    BY <2>1, <2>2, FS_AddElement
  <2> QED
    BY <1>3, <2>2, <2>3
<1> QED
  BY <1>4, <1>5, <1>6

\* Elements can be compared.
LEMMA ElementsAreNumbers ==
    ASSUME NEW n \in Nat, NEW a \in [0 .. n - 1 -> Elements]
    PROVE  \A i \in 0 .. n - 1 : a[i] \in Int
BY LibraryAssumption

\* Sinking one step moves the hole to the larger child.
LEMMA SiftKeeps ==
    ASSUME NEW n \in Nat, NEW a \in [0 .. n - 1 -> Elements], NEW hi \in 0 .. n, NEW lo \in Nat,
           NEW r \in lo .. hi - 1, NEW c \in 0 .. hi - 1,
           HeapBut(a, lo, hi, r), IsChild(r, c), a[r] < a[c],
           \A d \in 0 .. hi - 1 : IsChild(r, d) => a[d] <= a[c]
    PROVE  HeapBut(Swapped(a, r, c), lo, hi, c)
<1>1. PICK b \in [0 .. n - 1 -> Elements] :
         /\ b = Swapped(a, r, c) /\ b[r] = a[c] /\ b[c] = a[r]
         /\ \A k \in 0 .. n - 1 : k # r /\ k # c => b[k] = a[k]
  BY SwappedValues
<1>2. \A k \in 0 .. n - 1 : a[k] \in Int /\ b[k] \in Int
  BY ElementsAreNumbers
<1>3. r < c
  BY DEF IsChild
<1>4. SUFFICES ASSUME NEW i \in 0 .. hi - 1, NEW j \in 0 .. hi - 1, i >= lo, IsChild(i, j)
               PROVE  /\ i # c => b[j] <= b[i]
                      /\ i = c => \A h \in 0 .. hi - 1 : h >= lo /\ IsChild(h, c) => b[j] <= b[h]
  BY <1>1, Zenon DEF HeapBut
<1>5. i < j
  BY <1>4 DEF IsChild
<1>6. /\ i # r => a[j] <= a[i]
      /\ i = r => \A h \in 0 .. hi - 1 : h >= lo /\ IsChild(h, r) => a[j] <= a[h]
  BY <1>4, Zenon DEF HeapBut
<1>7. ASSUME i # c PROVE b[j] <= b[i]
  <2>1. CASE i = r
    <3>1. a[j] <= a[c]
      BY <1>4, <2>1
    <3> QED
      BY <1>1, <1>2, <1>3, <1>5, <2>1, <3>1
  <2>2. CASE i # r /\ j = r
    <3>1. a[c] <= a[i]
      BY <1>4, <2>2 DEF HeapBut
    <3> QED
      BY <1>1, <1>2, <1>3, <1>7, <2>2, <3>1
  <2>3. CASE i # r /\ j # r
    <3>1. j # c
      BY <1>4, <2>3 DEF IsChild
    <3> QED
      BY <1>1, <1>6, <1>7, <2>3, <3>1
  <2> QED
    BY <2>1, <2>2, <2>3
<1>8. ASSUME i = c, NEW h \in 0 .. hi - 1, h >= lo, IsChild(h, c) PROVE b[j] <= b[h]
  <2>1. h = r
    BY <1>8 DEF IsChild
  <2>2. a[j] <= a[c]
    BY <1>3, <1>6, <1>8
  <2> QED
    BY <1>1, <1>3, <1>5, <1>8, <2>1, <2>2
<1> QED
  BY <1>7, <1>8

\* It happens before what is in order already.
LEMMA SiftSorted ==
    ASSUME NEW n \in Nat, NEW a \in [0 .. n - 1 -> Elements],
           NEW r \in 0 .. n - 1, NEW c \in 0 .. n - 1, NEW hi \in Int, r < hi, c < hi,
           SortedFrom(a, hi, n)
    PROVE  SortedFrom(Swapped(a, r, c), hi, n)
<1>1. PICK b \in [0 .. n - 1 -> Elements] :
         /\ b = Swapped(a, r, c) /\ b[r] = a[c] /\ b[c] = a[r]
         /\ \A k \in 0 .. n - 1 : k # r /\ k # c => b[k] = a[k]
  BY SwappedValues
<1>2. ASSUME NEW p \in 0 .. n - 1, NEW q \in 0 .. n - 1, p < q, q >= hi PROVE b[p] <= b[q]
  <2>1. \A k \in 0 .. n - 1 : k < q => a[k] <= a[q]
    BY <1>2 DEF SortedFrom
  <2>2. b[q] = a[q] /\ r < q /\ c < q
    BY <1>1, <1>2
  <2> QED
    BY <1>1, <1>2, <2>1, <2>2
<1> QED
  BY <1>1, <1>2 DEF SortedFrom

\* Where the node is not less than its larger child, the heap is whole.
LEMMA SiftEnds ==
    ASSUME NEW a, NEW hi, NEW lo, NEW r, HeapBut(a, lo, hi, r),
           \A d \in 0 .. hi - 1 : IsChild(r, d) => a[d] <= a[r]
    PROVE  Heap(a, lo, hi)
BY Zenon DEF HeapBut, Heap

\* The first element of a heap is not less than any other.
LEMMA HeapTop ==
    ASSUME NEW n \in Nat, NEW a \in [0 .. n - 1 -> Elements], NEW hi \in 1 .. n, Heap(a, 0, hi)
    PROVE  \A p \in 0 .. hi - 1 : a[p] <= a[0]
<1> DEFINE T == {p \in 0 .. hi - 1 : ~ (a[p] <= a[0])}
<1>1. SUFFICES ASSUME T # {} PROVE FALSE
  OBVIOUS
<1>2. T \subseteq Nat
  OBVIOUS
<1>3. PICK p \in T : \A q \in T : p <= q
  BY <1>1, <1>2, LeastElement
<1>4. \A k \in 0 .. n - 1 : a[k] \in Int
  BY ElementsAreNumbers
<1>5. p # 0 /\ p \in 0 .. hi - 1
  BY <1>4
<1>6. PICK i \in 0 .. p - 1 : IsChild(i, p)
  <2>1. (p - 1) \div 2 \in 0 .. p - 1 /\ IsChild((p - 1) \div 2, p)
    BY <1>5 DEF IsChild
  <2> QED
    BY <2>1
<1>7. i \notin T /\ i \in 0 .. hi - 1
  BY <1>3, <1>5, <1>6
<1>8. a[i] <= a[0] /\ a[p] <= a[i]
  BY <1>5, <1>6, <1>7 DEF Heap
<1> QED
  BY <1>4, <1>5, <1>7, <1>8

\* The greatest element of the heap goes to its end.
LEMMA ExtractKeeps ==
    ASSUME NEW n \in Nat, NEW a \in [0 .. n - 1 -> Elements], NEW m \in 1 .. n - 1,
           Heap(a, 0, m + 1), SortedFrom(a, m + 1, n)
    PROVE  /\ HeapBut(Swapped(a, 0, m), 0, m, 0)
           /\ SortedFrom(Swapped(a, 0, m), m, n)
<1>1. PICK b \in [0 .. n - 1 -> Elements] :
         /\ b = Swapped(a, 0, m) /\ b[0] = a[m] /\ b[m] = a[0]
         /\ \A k \in 0 .. n - 1 : k # 0 /\ k # m => b[k] = a[k]
  BY SwappedValues
<1>2. \A k \in 0 .. n - 1 : a[k] \in Int /\ b[k] \in Int
  BY ElementsAreNumbers
<1>3. \A p \in 0 .. m : a[p] <= a[0]
  BY HeapTop
<1>4. HeapBut(b, 0, m, 0)
  <2>1. ASSUME NEW i \in 0 .. m - 1, NEW j \in 0 .. m - 1, IsChild(i, j), i # 0
        PROVE  b[j] <= b[i]
    <3>1. j # 0
      BY <2>1 DEF IsChild
    <3>2. a[j] <= a[i]
      BY <2>1 DEF Heap
    <3> QED
      BY <1>1, <2>1, <3>1, <3>2
  <2>2. ~ \E h \in 0 .. m - 1 : IsChild(h, 0)
    BY DEF IsChild
  <2> QED
    BY <2>1, <2>2 DEF HeapBut
<1>5. ASSUME NEW p \in 0 .. n - 1, NEW q \in 0 .. n - 1, p < q, q >= m PROVE b[p] <= b[q]
  <2>1. CASE q = m
    BY <1>1, <1>2, <1>3, <1>5, <2>1
  <2>2. CASE q # m
    <3>1. \A k \in 0 .. n - 1 : k < q => a[k] <= a[q]
      BY <1>5, <2>2 DEF SortedFrom
    <3> QED
      BY <1>1, <1>5, <2>2, <3>1
  <2> QED
    BY <2>1, <2>2
<1> QED
  BY <1>1, <1>4, <1>5 DEF SortedFrom

\* The number of elements.
LEMMA NumIs ==
    ASSUME NEW n \in Nat, DOMAIN array = 0 .. n - 1
    PROVE  Num = n
BY FS_Interval DEF Num

\* What sort() finds at the children of idxR.
LEMMA Children ==
    ASSUME NEW n \in Nat, array \in [0 .. n - 1 -> Elements], NEW hi \in 0 .. n, HeapEnd = hi,
           idxR \in 0 .. hi - 1
    PROVE  /\ Sinks =>
                /\ LargerChild \in 0 .. hi - 1 /\ IsChild(idxR, LargerChild)
                /\ array[idxR] < array[LargerChild]
                /\ \A d \in 0 .. hi - 1 : IsChild(idxR, d) => array[d] <= array[LargerChild]
           /\ ~Sinks => \A d \in 0 .. hi - 1 : IsChild(idxR, d) => array[d] <= array[idxR]
<1>1. \A k \in 0 .. n - 1 : array[k] \in Int
  BY ElementsAreNumbers
<1>2. PICK r \in 0 .. hi - 1 : r = idxR /\ Child = 2 * r + 1
  BY DEF Child
<1>3. \A d : IsChild(idxR, d) <=> d = Child \/ d = Child + 1
  BY <1>2 DEF IsChild
<1>4. CASE Child < hi
  <2>1. /\ LargerChild \in {Child, Child + 1} /\ LargerChild \in 0 .. hi - 1
        /\ \A d \in 0 .. hi - 1 : d \in {Child, Child + 1} => array[d] <= array[LargerChild]
    <3>1. Child \in 0 .. hi - 1 /\ array[Child] \in Int
      BY <1>1, <1>2, <1>4
    <3>2. CASE Child < hi - 1
      <4>1. Child + 1 \in 0 .. hi - 1 /\ array[Child + 1] \in Int
        BY <1>1, <1>2, <3>2
      <4> QED
        BY <3>1, <3>2, <4>1 DEF LargerChild
    <3>3. CASE ~ (Child < hi - 1)
      <4>1. Child + 1 \notin 0 .. hi - 1 /\ LargerChild = Child
        BY <1>2, <3>3 DEF LargerChild
      <4> QED
        BY <3>1, <4>1
    <3> QED
      BY <3>2, <3>3
  <2>2. Sinks <=> array[idxR] < array[LargerChild]
    BY <1>4 DEF Sinks
  <2>3. array[idxR] \in Int /\ array[LargerChild] \in Int
    BY <1>1, <2>1
  <2>4. ASSUME ~Sinks, NEW d \in 0 .. hi - 1, IsChild(idxR, d) PROVE array[d] <= array[idxR]
    <3>1. array[d] <= array[LargerChild] /\ array[d] \in Int
      BY <1>1, <1>3, <2>1, <2>4
    <3> QED
      BY <2>2, <2>3, <2>4, <3>1
  <2>5. ASSUME NEW d \in 0 .. hi - 1, IsChild(idxR, d) PROVE array[d] <= array[LargerChild]
    BY <1>3, <2>1, <2>5
  <2>6. IsChild(idxR, LargerChild)
    BY <1>3, <2>1
  <2> QED
    BY <2>1, <2>2, <2>4, <2>5, <2>6
<1>5. CASE ~ (Child < hi)
  <2>1. ~Sinks
    BY <1>5 DEF Sinks
  <2>2. \A d \in 0 .. hi - 1 : ~ IsChild(idxR, d)
    BY <1>2, <1>3, <1>5
  <2> QED
    BY <2>1, <2>2
<1> QED
  BY <1>4, <1>5

\* An exchange in the array leaves the elements what they were at first.
LEMMA ExchangeKeeps ==
    ASSUME NEW n \in Nat, array \in [0 .. n - 1 -> Elements], SameElements(array, unsorted, n),
           NEW i \in 0 .. n - 1, NEW j \in 0 .. n - 1, array' = Swapped(array, i, j),
           UNCHANGED unsorted
    PROVE  array' \in [0 .. n - 1 -> Elements] /\ SameElements(array, unsorted, n)'
<1>1. SameElements(array', array, n)
  BY SwappedSame, Zenon
<1>2. SameElements(array', unsorted, n)
  BY <1>1 DEF SameElements
<1> QED
  BY <1>2, SwappedValues, Zenon

\* The last step of each proof about a step of sort().
LEMMA SortGoesOn ==
    ASSUME LibraryInv, NEW n \in Nat, array' \in [0 .. n - 1 -> Elements],
           unsorted' \in [0 .. n - 1 -> Elements], SortInv(n)',
           call' \in {"heapify", "extract"}, UNCHANGED key
    PROVE  LibraryInv'
<1>1. SearchInv(n)'
  BY DEF SearchInv
<1>2. LibraryRight'
  BY DEF LibraryRight
<1> QED
  BY <1>1, <1>2 DEF LibraryInv

\* One turn of the loop that sifts a node down.
LEMMA SiftDownStep ==
    ASSUME LibraryInv, SiftDown
    PROVE  LibraryInv'
<1>1. PICK n \in Nat : /\ array \in [0 .. n - 1 -> Elements] /\ SortInv(n)
                       /\ unsorted \in [0 .. n - 1 -> Elements]
  BY DEF LibraryInv
<1>2. Num = n
  BY <1>1, NumIs
<1>3. PICK hi \in 0 .. n, lo \in Nat :
         /\ hi = HeapEnd /\ idxR \in lo .. hi - 1 /\ HeapBut(array, lo, hi, idxR)
         /\ lo = IF call = "heapify" THEN idxL ELSE 0
  <2>1. CASE call = "heapify"
    <3>1. n \in 0 .. n /\ idxL \in Nat /\ HeapEnd = n /\ idxR \in idxL .. n - 1
          /\ HeapBut(array, idxL, n, idxR)
      BY <1>1, <1>2, <2>1 DEF SortInv, HeapEnd
    <3> QED
      BY <2>1, <3>1
  <2>2. CASE call = "extract"
    <3>1. idxL \in 0 .. n /\ 0 \in Nat /\ HeapEnd = idxL /\ idxR \in 0 .. idxL - 1
          /\ HeapBut(array, 0, idxL, idxR)
      BY <1>1, <2>2 DEF SortInv, HeapEnd
    <3> QED
      BY <2>2, <3>1
  <2> QED
    BY <2>1, <2>2 DEF SiftDown
<1>4. PICK c \in 0 .. hi - 1 :
         /\ c = LargerChild /\ IsChild(idxR, c) /\ array[idxR] < array[c]
         /\ \A d \in 0 .. hi - 1 : IsChild(idxR, d) => array[d] <= array[c]
  <2>1. idxR \in 0 .. hi - 1 /\ Sinks
    BY <1>3 DEF SiftDown
  <2> QED
    BY <1>1, <1>3, <2>1, Children
<1>5. /\ array' = Swapped(array, idxR, c) /\ idxR' = c
      /\ UNCHANGED <<unsorted, call, key, idxL, foundAt>>
  BY <1>4 DEF SiftDown
<1>6. HeapBut(array', lo, hi, c)
  BY <1>1, <1>3, <1>4, <1>5, SiftKeeps
<1>7. idxR \in 0 .. n - 1 /\ c \in 0 .. n - 1 /\ idxR < c
  BY <1>3, <1>4 DEF IsChild
<1>8. array' \in [0 .. n - 1 -> Elements] /\ SameElements(array, unsorted, n)'
  BY <1>1, <1>5, <1>7, ExchangeKeeps DEF SortInv
<1>9. CASE call = "heapify"
  <2>1. hi = n /\ lo = idxL
    BY <1>2, <1>3, <1>9 DEF HeapEnd
  <2>2. SortInv(n)'
    BY <1>1, <1>3, <1>5, <1>6, <1>7, <1>8, <1>9, <2>1 DEF SortInv
  <2> QED
    BY <1>1, <1>5, <1>8, <1>9, <2>2, SortGoesOn
<1>10. CASE call = "extract"
  <2>1. hi = idxL /\ lo = 0
    BY <1>3, <1>10 DEF HeapEnd
  <2>2. SortedFrom(array', idxL, n)
    <3>1. idxR < idxL /\ c < idxL /\ idxL \in Int /\ SortedFrom(array, idxL, n)
      BY <1>1, <1>3, <1>4, <1>10, <2>1 DEF SortInv
    <3> QED
      BY <1>1, <1>5, <1>7, <3>1, SiftSorted
  <2>3. SortInv(n)'
    BY <1>1, <1>4, <1>5, <1>6, <1>8, <1>10, <2>1, <2>2 DEF SortInv
  <2> QED
    BY <1>1, <1>5, <1>8, <1>10, <2>3, SortGoesOn
<1> QED
  BY <1>9, <1>10 DEF SiftDown

\* The second loop of sort(), at its beginning and then.
LEMMA ExtractStep ==
    ASSUME LibraryInv, NEW n \in Nat, array \in [0 .. n - 1 -> Elements],
           unsorted \in [0 .. n - 1 -> Elements], SameElements(array, unsorted, n),
           NEW m \in 0 .. n - 1, n > 1, Heap(array, 0, m + 1), SortedFrom(array, m + 1, n),
           Extract(m), UNCHANGED <<unsorted, key, foundAt>>
    PROVE  LibraryInv'
<1>1. CASE m > 0
  <2>1. /\ array' = Swapped(array, 0, m) /\ call' = "extract" /\ idxL' = m /\ idxR' = 0
    BY <1>1 DEF Extract
  <2>2. m \in 1 .. n - 1 /\ 0 \in 0 .. n - 1
    BY <1>1
  <2>3. HeapBut(array', 0, m, 0) /\ SortedFrom(array', m, n)
    BY <2>1, <2>2, ExtractKeeps
  <2>4. array' \in [0 .. n - 1 -> Elements] /\ SameElements(array, unsorted, n)'
    BY <2>1, <2>2, ExchangeKeeps
  <2>5. SortInv(n)'
    BY <2>1, <2>2, <2>3, <2>4 DEF SortInv
  <2> QED
    BY <2>1, <2>4, <2>5, SortGoesOn
<1>2. CASE ~ (m > 0)
  <2>1. m = 0 /\ call' = "sorted" /\ UNCHANGED <<array, unsorted, key, idxL, idxR, foundAt>>
    BY <1>2 DEF Extract
  <2>2. SortedFrom(array, 0, n)
    BY <2>1 DEF SortedFrom
  <2>3. SortInv(n)' /\ SearchInv(n)'
    BY <2>1, <2>2 DEF SortInv, SearchInv
  <2>4. LibraryRight'
    <3>1. \A i, j \in DOMAIN array : i < j => array[i] <= array[j]
      BY <2>2 DEF SortedFrom
    <3>2. \A x \in Elements : Times(array, x) = Times(unsorted, x)
      BY DEF SameElements, Times
    <3> QED
      BY <2>1, <3>1, <3>2 DEF LibraryRight, Times
  <2> QED
    BY <2>1, <2>3, <2>4 DEF LibraryInv
<1> QED
  BY <1>1, <1>2

\* The next node of the first loop of sort(), or its end.
LEMMA HeapifyStep ==
    ASSUME LibraryInv, HeapifyNext
    PROVE  LibraryInv'
<1>1. PICK n \in Nat : /\ array \in [0 .. n - 1 -> Elements] /\ SortInv(n)
                       /\ unsorted \in [0 .. n - 1 -> Elements]
  BY DEF LibraryInv
<1>2. Num = n /\ HeapEnd = n
  BY <1>1, NumIs DEF HeapifyNext, HeapEnd
<1>3. idxL \in 0 .. n - 1 /\ idxR \in idxL .. n - 1 /\ n > 1 /\ HeapBut(array, idxL, n, idxR)
  BY <1>1 DEF HeapifyNext, SortInv
<1>4. Heap(array, idxL, n)
  <2>1. idxR \in 0 .. n - 1 /\ n \in 0 .. n
    BY <1>3
  <2>2. \A d \in 0 .. n - 1 : IsChild(idxR, d) => array[d] <= array[idxR]
    BY <1>1, <1>2, <2>1, Children DEF HeapifyNext
  <2> QED
    BY <1>3, <2>2, SiftEnds
<1>5. CASE idxL > 0
  <2>1. /\ idxL' = idxL - 1 /\ idxR' = idxL - 1 /\ call' = "heapify"
        /\ UNCHANGED <<array, unsorted, key, foundAt>>
    BY <1>5 DEF HeapifyNext
  <2>2. HeapBut(array, idxL - 1, n, idxL - 1)
    <3>1. ASSUME NEW i \in 0 .. n - 1, NEW j \in 0 .. n - 1, i >= idxL - 1, IsChild(i, j),
                 i # idxL - 1
          PROVE  array[j] <= array[i]
      <4>1. i >= idxL
        BY <1>3, <3>1
      <4> QED
        BY <1>4, <3>1, <4>1 DEF Heap
    <3>2. ASSUME NEW h \in 0 .. n - 1, h >= idxL - 1 PROVE ~ IsChild(h, idxL - 1)
      BY <1>3, <3>2 DEF IsChild
    <3> QED
      BY <3>1, <3>2 DEF HeapBut
  <2>3. SortInv(n)'
    BY <1>1, <1>3, <1>5, <2>1, <2>2 DEF SortInv
  <2> QED
    BY <1>1, <2>1, <2>3, SortGoesOn
<1>6. CASE ~ (idxL > 0)
  <2>1. Extract(n - 1) /\ UNCHANGED <<unsorted, key, foundAt>>
    BY <1>2, <1>6 DEF HeapifyNext
  <2>2. PICK m \in 0 .. n - 1 : m = n - 1 /\ m + 1 = n
    BY <1>3
  <2>3. Heap(array, 0, m + 1) /\ SortedFrom(array, m + 1, n)
    <3>1. idxL = 0
      BY <1>3, <1>6
    <3> QED
      BY <1>4, <2>2, <3>1 DEF SortedFrom
  <2>4. SameElements(array, unsorted, n)
    BY <1>1 DEF SortInv
  <2> QED
    BY <1>1, <1>3, <2>1, <2>2, <2>3, <2>4, ExtractStep
<1> QED
  BY <1>5, <1>6

\* The next element taken out by the second loop, or its end.
LEMMA ExtractNextStep ==
    ASSUME LibraryInv, ExtractNext
    PROVE  LibraryInv'
<1>1. PICK n \in Nat : /\ array \in [0 .. n - 1 -> Elements] /\ SortInv(n)
                       /\ unsorted \in [0 .. n - 1 -> Elements]
  BY DEF LibraryInv
<1>2. /\ idxL \in 1 .. n - 1 /\ idxR \in 0 .. idxL - 1 /\ HeapBut(array, 0, idxL, idxR)
      /\ SortedFrom(array, idxL, n) /\ SameElements(array, unsorted, n)
  BY <1>1 DEF ExtractNext, SortInv
<1>3. Heap(array, 0, idxL)
  <2>1. idxL \in 0 .. n /\ HeapEnd = idxL
    BY <1>2 DEF ExtractNext, HeapEnd
  <2>2. \A d \in 0 .. idxL - 1 : IsChild(idxR, d) => array[d] <= array[idxR]
    BY <1>1, <1>2, <2>1, Children DEF ExtractNext
  <2> QED
    BY <1>2, <2>2, SiftEnds
<1>4. PICK m \in 0 .. n - 1 : m = idxL - 1 /\ m + 1 = idxL /\ n > 1
  BY <1>2
<1>5. Extract(m) /\ UNCHANGED <<unsorted, key, foundAt>>
  BY <1>4 DEF ExtractNext
<1> QED
  BY <1>1, <1>2, <1>3, <1>4, <1>5, ExtractStep

\* One turn of bsearch().
LEMMA BsearchStep ==
    ASSUME LibraryInv, Bsearch
    PROVE  LibraryInv'
<1>1. PICK n \in Nat : /\ array \in [0 .. n - 1 -> Elements] /\ SearchInv(n) /\ SortInv(n)
                       /\ unsorted \in [0 .. n - 1 -> Elements]
  BY DEF LibraryInv
<1>2. /\ Ascending(array) /\ idxL \in 0 .. n /\ idxR \in idxL .. n
      /\ \A i \in 0 .. n - 1 : i < idxL => array[i] < key
      /\ \A i \in 0 .. n - 1 : i >= idxR => array[i] > key
      /\ call = "bsearch" /\ foundAt = Searching
  BY <1>1 DEF SearchInv, Bsearch
<1>3. key \in Int /\ \A k \in 0 .. n - 1 : array[k] \in Int
  BY <1>1, ElementsAreNumbers DEF LibraryInv
<1>4. SUFFICES SearchInv(n)' /\ LibraryRight'
  <2>1. UNCHANGED <<array, unsorted, call, key>>
    BY DEF Bsearch, Gives
  <2>2. SortInv(n)'
    BY <1>1, <1>2, <2>1 DEF SortInv
  <2> QED
    BY <1>1, <1>2, <1>3, <1>4, <2>1, <2>2 DEF LibraryInv
<1>5. CASE idxL >= idxR
  <2>1. Gives(-1)
    BY <1>2, <1>5 DEF Bsearch
  <2>2. ~ \E i \in 0 .. n - 1 : array[i] = key
    <3>1. ASSUME NEW i \in 0 .. n - 1 PROVE array[i] # key
      <4>1. array[i] < key \/ array[i] > key
        BY <1>2, <1>5
      <4> QED
        BY <1>3, <4>1
    <3> QED
      BY <3>1
  <2>3. DOMAIN array = 0 .. n - 1
    BY <1>1
  <2> QED
    BY <1>2, <2>1, <2>2, <2>3 DEF Gives, SearchInv, LibraryRight, Searching, Ascending
<1>6. CASE ~ (idxL >= idxR)
  <2>1. PICK m \in 0 .. n - 1 : m = Middle /\ idxL <= m /\ m < idxR
    BY <1>2, <1>6 DEF Middle
  <2>2. \A i \in 0 .. n - 1 : (i < m => array[i] < array[m]) /\ (i > m => array[m] < array[i])
    BY <1>1, <1>2 DEF Ascending
  <2>3. CASE array[m] = key
    <3>1. Gives(m)
      BY <1>2, <1>6, <2>1, <2>3 DEF Bsearch
    <3>2. DOMAIN array = 0 .. n - 1 /\ m # -2
      BY <1>1
    <3> QED
      BY <1>2, <2>3, <3>1, <3>2 DEF Gives, SearchInv, LibraryRight, Searching, Ascending
  <2>4. CASE key < array[m]
    <3>1. array[m] # key
      BY <1>3, <2>4
    <3>2. idxR' = m /\ UNCHANGED <<array, unsorted, call, key, idxL, foundAt>>
      BY <1>2, <1>6, <2>1, <2>4, <3>1 DEF Bsearch
    <3>3. \A i \in 0 .. n - 1 : i >= m => array[i] > key
      BY <1>3, <2>2, <2>4
    <3> QED
      BY <1>2, <2>1, <3>2, <3>3 DEF SearchInv, LibraryRight, Ascending
  <2>5. CASE array[m] # key /\ ~ (key < array[m])
    <3>1. idxL' = m + 1 /\ UNCHANGED <<array, unsorted, call, key, idxR, foundAt>>
      BY <1>2, <1>6, <2>1, <2>5 DEF Bsearch
    <3>2. ASSUME NEW i \in 0 .. n - 1, i < m + 1 PROVE array[i] < key
      BY <1>3, <2>1, <2>2, <2>5, <3>2
    <3>3. m + 1 \in 0 .. n /\ idxR \in m + 1 .. n
      BY <1>2, <2>1
    <3> QED
      BY <1>2, <3>1, <3>2, <3>3 DEF SearchInv, LibraryRight, Ascending
  <2> QED
    BY <2>3, <2>4, <2>5
<1> QED
  BY <1>5, <1>6

\* One turn of alg_bsch().
LEMMA AlgBschStep ==
    ASSUME LibraryInv, AlgBsch
    PROVE  LibraryInv'
<1>1. PICK n \in Nat : /\ array \in [0 .. n - 1 -> Elements] /\ SearchInv(n) /\ SortInv(n)
                       /\ unsorted \in [0 .. n - 1 -> Elements]
  BY DEF LibraryInv
<1>2. /\ Ascending(array) /\ idxL \in 0 .. n /\ idxR \in idxL .. n /\ idxL < idxR
      /\ idxL = 0 \/ array[idxL] <= key
      /\ \A i \in 0 .. n - 1 : i >= idxR => array[i] > key
      /\ call = "alg_bsch" /\ foundAt = Searching
  BY <1>1 DEF SearchInv, AlgBsch
<1>3. key \in Int /\ \A k \in 0 .. n - 1 : array[k] \in Int
  BY <1>1, ElementsAreNumbers DEF LibraryInv
<1>4. SUFFICES SearchInv(n)' /\ LibraryRight'
  <2>1. UNCHANGED <<array, unsorted, call, key>>
    BY DEF AlgBsch, Gives
  <2>2. SortInv(n)'
    BY <1>1, <1>2, <2>1 DEF SortInv
  <2> QED
    BY <1>1, <1>2, <1>3, <1>4, <2>1, <2>2 DEF LibraryInv
<1>5. CASE idxL + 1 = idxR
  <2>1. Gives(idxL)
    BY <1>2, <1>5 DEF AlgBsch
  <2>2. \A i \in 0 .. n - 1 : i > idxL => array[i] > key
    BY <1>2, <1>5
  <2>3. DOMAIN array = 0 .. n - 1 /\ idxL \in 0 .. n - 1 /\ idxL # -2
    BY <1>1, <1>2
  <2> QED
    BY <1>2, <2>1, <2>2, <2>3 DEF Gives, SearchInv, LibraryRight, Searching, Ascending
<1>6. CASE idxL + 1 # idxR
  <2>1. PICK m \in 0 .. n - 1 : m = Middle /\ idxL < m /\ m < idxR
    BY <1>2, <1>6 DEF Middle
  <2>2. \A i \in 0 .. n - 1 : i > m => array[m] < array[i]
    BY <1>1, <1>2 DEF Ascending
  <2>3. CASE array[m] = key
    <3>1. Gives(m)
      BY <1>2, <1>6, <2>1, <2>3 DEF AlgBsch
    <3>2. DOMAIN array = 0 .. n - 1 /\ m # -2 /\ array[m] <= key
          /\ \A i \in 0 .. n - 1 : i > m => array[i] > key
      BY <1>1, <1>3, <2>2, <2>3
    <3> QED
      BY <1>2, <3>1, <3>2 DEF Gives, SearchInv, LibraryRight, Searching, Ascending
  <2>4. CASE key < array[m]
    <3>1. array[m] # key
      BY <1>3, <2>4
    <3>2. idxR' = m /\ UNCHANGED <<array, unsorted, call, key, idxL, foundAt>>
      BY <1>2, <1>6, <2>1, <2>4, <3>1 DEF AlgBsch
    <3>3. \A i \in 0 .. n - 1 : i >= m => array[i] > key
      BY <1>3, <2>2, <2>4
    <3> QED
      BY <1>2, <2>1, <3>2, <3>3 DEF SearchInv, LibraryRight, Ascending
  <2>5. CASE array[m] # key /\ ~ (key < array[m])
    <3>1. idxL' = m /\ UNCHANGED <<array, unsorted, call, key, idxR, foundAt>>
      BY <1>2, <1>6, <2>1, <2>5 DEF AlgBsch
    <3>2. array[m] <= key /\ m \in 0 .. n /\ idxR \in m .. n /\ m < idxR
      BY <1>2, <1>3, <2>1, <2>5
    <3> QED
      BY <1>2, <3>1, <3>2 DEF SearchInv, LibraryRight, Ascending
  <2> QED
    BY <2>3, <2>4, <2>5
<1> QED
  BY <1>5, <1>6

\* A call.
LEMMA LibraryStart ==
    ASSUME LibraryInit
    PROVE  LibraryInv
<1>1. PICK n \in 0 .. MaxElements : array \in [0 .. n - 1 -> Elements]
  BY Zenon DEF LibraryInit, Arrays
<1>2. n \in Nat /\ Num = n /\ unsorted = array /\ foundAt = Searching
  <2>1. n \in Nat
    BY <1>1, LibraryAssumption
  <2> QED
    BY <1>1, <2>1, NumIs DEF LibraryInit
<1>3. key \in Int /\ call \in {"heapify", "bsearch", "alg_bsch"}
  <2>1. /\ call \in {"heapify", "bsearch", "alg_bsch"}
        /\ call = "heapify" => key = 0
        /\ call # "heapify" => key \in Elements
    BY DEF LibraryInit
  <2>2. key \in Int
    <3>1. key = 0 \/ key \in Elements
      BY <2>1
    <3>2. 0 \in Int /\ Elements \subseteq Int
      BY LibraryAssumption
    <3> QED
      BY ONLY <3>1, <3>2
  <2> QED
    BY ONLY <2>1, <2>2, Zenon
<1>4. SortInv(n)
  <2>1. SameElements(array, unsorted, n)
    BY <1>2 DEF SameElements
  <2>2. CASE call = "heapify"
    <3>1. PICK l \in 0 .. n - 1 : l = idxL /\ l = idxR /\ n > 1 /\ 2 * l + 3 >= n
                                  /\ l = n \div 2 - 1
      BY <1>2, <2>2 DEF LibraryInit
    <3>2. HeapBut(array, l, n, l)
      <4>1. ASSUME NEW i \in 0 .. n - 1, NEW j \in 0 .. n - 1, i >= l, IsChild(i, j) PROVE i = l
        BY <3>1, <4>1 DEF IsChild
      <4>2. ASSUME NEW h \in 0 .. n - 1, h >= l PROVE ~ IsChild(h, l)
        BY <4>2 DEF IsChild
      <4> QED
        BY <4>1, <4>2 DEF HeapBut
    <3> QED
      BY <2>1, <2>2, <3>1, <3>2 DEF SortInv
  <2>3. CASE call # "heapify"
    BY <1>3, <2>1, <2>3 DEF SortInv
  <2> QED
    BY <2>2, <2>3
<1>5. SearchInv(n)
  <2>1. CASE call \in {"bsearch", "alg_bsch"}
    <3>1. Ascending(array) /\ idxL = 0 /\ idxR = n /\ (call = "alg_bsch" => n > 0)
      BY <1>2, <2>1 DEF LibraryInit
    <3> QED
      BY <1>2, <2>1, <3>1 DEF SearchInv
  <2>2. CASE call = "heapify"
    BY <2>2 DEF SearchInv
  <2> QED
    BY <1>3, <2>1, <2>2
<1>6. LibraryRight
  BY <1>2, <1>3 DEF LibraryRight
<1> QED
  BY <1>1, <1>2, <1>3, <1>4, <1>5, <1>6 DEF LibraryInv

\* sort() puts the elements it was given in order, bsearch() and alg_bsch()
\* find what they are asked for: for arrays of every length.
THEOREM LibraryRightHolds == LibrarySpec => []LibraryRight
<1>1. ASSUME LibraryInv, [LibraryNext]_libraryVars PROVE LibraryInv'
  <2>1. CASE UNCHANGED libraryVars
    BY <1>1, <2>1 DEF libraryVars, LibraryInv, SortInv, SearchInv, LibraryRight, Ascending, Times
  <2> QED
    BY <1>1, <2>1, SiftDownStep, HeapifyStep, ExtractNextStep, BsearchStep, AlgBschStep
       DEF LibraryNext
<1>2. LibraryInv => LibraryRight
  BY DEF LibraryInv
<1> QED
  BY <1>1, <1>2, LibraryStart, PTL DEF LibrarySpec

-----------------------------------------------------------------------------
(* Address spaces.                                                         *)

\* A directory.
Directory == [0 .. Regions - 1 -> [pt_base : PageTables \union {NoTable}, us : BOOLEAN]]

\* What a page table may hold that is used for region r: pages at their own
\* address.
TableOf(x, r) ==
    /\ x \in PageTables /\ DOMAIN ptab[x] = 0 .. TableSize - 1
    /\ \A i \in 0 .. TableSize - 1 : ptab[x][i] \in {NoPte, Pte(r * TableSize + i, FALSE)}

\* A table is used for one region, by whoever uses it.
TablesInv ==
    /\ DOMAIN ptab = PageTables
    /\ \A t \in DOMAIN pgd : pgd[t] \in Directory
    /\ \A t \in DOMAIN pgd, r \in 0 .. Regions - 1 :
          pgd[t][r].pt_base # NoTable => TableOf(pgd[t][r].pt_base, r)
    /\ \A t, u \in DOMAIN pgd, r, q \in 0 .. Regions - 1 :
          pgd[t][r].pt_base = pgd[u][q].pt_base /\ pgd[t][r].pt_base # NoTable => r = q

\* mmap() has entered the pages it has come past.
MmapInv ==
    mmapAt # <<>> =>
        \E d \in Devices : \E i \in 0 .. d[2] :
            /\ mmapAt = <<d, i>>
            /\ \A va \in d[1] .. d[1] + i - 1 : Reaches(Tasks0, va)

\* The inductive invariant.
SpaceInv ==
    /\ Tasks0 \in DOMAIN pgd /\ running \in DOMAIN pgd
    /\ TablesInv
    /\ MmapInv
    /\ mapped \subseteq Devices
    /\ MappedAtCreation

\* The pages that directories have entries for.
Addresses == 0 .. Regions * TableSize - 1

\* The constants as numbers.
LEMMA Sizes ==
    /\ TableSize \in Nat \ {0} /\ Regions \in Nat /\ NormalRegions \in Nat
    /\ NormalRegions <= Regions /\ NoTable \notin PageTables
    /\ NormalRegions * TableSize \in Nat /\ Regions * TableSize \in Nat
    /\ NormalRegions * TableSize <= Regions * TableSize
<1>1. /\ TableSize \in Nat \ {0} /\ Regions \in Nat /\ NormalRegions \in Nat
      /\ NormalRegions <= Regions /\ NoTable \notin PageTables
  BY SpaceAssumption
<1>2. PICK e \in Nat : Regions = NormalRegions + e
  <2>1. Regions - NormalRegions \in Nat /\ Regions = NormalRegions + (Regions - NormalRegions)
    BY <1>1
  <2> QED
    BY <2>1
<1>3. Regions * TableSize = NormalRegions * TableSize + e * TableSize /\ e * TableSize \in Nat
  BY <1>1, <1>2
<1> QED
  BY <1>1, <1>3

\* An address is a region and a place in the table of the region.
LEMMA Split ==
    ASSUME NEW va \in Addresses
    PROVE  \E r \in 0 .. Regions - 1, i \in 0 .. TableSize - 1 :
              va \div TableSize = r /\ va % TableSize = i /\ va = r * TableSize + i
<1>1. PICK q \in Nat, i \in 0 .. TableSize - 1 :
         q = va \div TableSize /\ i = va % TableSize /\ va = q * TableSize + i
  <2>1. va \in Nat /\ TableSize \in Nat \ {0}
    BY Sizes DEF Addresses
  <2> QED
    BY ONLY <2>1, Division
<1>2. q < Regions
  <2>1. SUFFICES ASSUME q >= Regions PROVE FALSE
    BY Sizes
  <2>2. PICK e \in Nat : q = Regions + e
    <3>1. q - Regions \in Nat /\ q = Regions + (q - Regions)
      BY <2>1, Sizes
    <3> QED
      BY <3>1
  <2>3. q * TableSize = Regions * TableSize + e * TableSize /\ e * TableSize \in Nat
    BY <2>2, Sizes
  <2>4. va < Regions * TableSize
    BY Sizes DEF Addresses
  <2> QED
    BY <1>1, <2>3, <2>4, Sizes
<1>3. q \in 0 .. Regions - 1
  BY <1>2, Sizes
<1> QED
  BY ONLY <1>1, <1>3, Zenon

\* Each place of a region is an address.
LEMMA Joint ==
    ASSUME NEW r \in 0 .. Regions - 1, NEW i \in 0 .. TableSize - 1
    PROVE  /\ r * TableSize + i \in Addresses
           /\ (r * TableSize + i) \div TableSize = r /\ (r * TableSize + i) % TableSize = i
<1>1. PICK va \in Nat : va = r * TableSize + i
  BY Sizes
<1>2. PICK e \in Nat : Regions = r + 1 + e
  <2>1. Regions - 1 - r \in Nat /\ Regions = r + 1 + (Regions - 1 - r)
    BY Sizes
  <2> QED
    BY <2>1
<1>3. Regions * TableSize = r * TableSize + TableSize + e * TableSize /\ e * TableSize \in Nat
  BY <1>2, Sizes
<1>4. va \in Addresses
  BY <1>1, <1>3, Sizes DEF Addresses
<1>5. PICK q \in 0 .. Regions - 1, j \in 0 .. TableSize - 1 :
         va \div TableSize = q /\ va % TableSize = j /\ va = q * TableSize + j
  BY <1>4, Split
<1>6. va % TableSize = i
  <2>1. r \in Int /\ va \in Int /\ TableSize \in Nat \ {0}
    BY Sizes
  <2> QED
    BY ONLY <1>1, <2>1, RemainderIs, i \in 0 .. TableSize - 1
<1>7. q * TableSize = r * TableSize /\ q \in Int /\ r \in Int
  <2>1. j = i
    BY <1>5, <1>6
  <2>2. q * TableSize \in Int /\ r * TableSize \in Int /\ q \in Int /\ r \in Int
    BY Sizes
  <2>3. q * TableSize + i = r * TableSize + i
    BY <1>1, <1>5, <2>1
  <2> QED
    BY ONLY <2>2, <2>3, i \in 0 .. TableSize - 1, Sizes
<1>8. q = r
  <2>1. PICK c \in Int : q = r + c
    <3>1. q - r \in Int /\ q = r + (q - r)
      BY <1>7
    <3> QED
      BY <3>1
  <2>2. c * TableSize = 0
    BY <1>7, <2>1, Sizes
  <2>3. c = 0
    BY <2>2, Sizes
  <2> QED
    BY <1>7, <2>1, <2>3
<1> QED
  BY <1>1, <1>4, <1>5, <1>6, <1>8

\* What a task finds at place i of region r.
LEMMA WalkedAt ==
    ASSUME NEW d, NEW p, NEW r \in 0 .. Regions - 1, NEW i \in 0 .. TableSize - 1
    PROVE  /\ d[r].pt_base = NoTable => Walked(d, p, r * TableSize + i) = NoPte
           /\ d[r].pt_base # NoTable =>
                  Walked(d, p, r * TableSize + i) = p[d[r].pt_base][i]
<1>1. (r * TableSize + i) \div TableSize = r /\ (r * TableSize + i) % TableSize = i
  BY Joint
<1> QED
  BY ONLY <1>1, Zenon DEF Walked

\* What a task finds at an address is nothing or the page of this address.
LEMMA FoundIsSame ==
    ASSUME TablesInv, NEW t \in DOMAIN pgd, NEW va \in Addresses
    PROVE  Walked(pgd[t], ptab, va) \in {NoPte, Pte(va, FALSE)}
<1>1. PICK r \in 0 .. Regions - 1, i \in 0 .. TableSize - 1 : va = r * TableSize + i
  BY Split
<1>2. pgd[t][r].pt_base # NoTable =>
         ptab[pgd[t][r].pt_base][i] \in {NoPte, Pte(r * TableSize + i, FALSE)}
  BY Zenon DEF TablesInv, TableOf
<1>3. /\ pgd[t][r].pt_base = NoTable => Walked(pgd[t], ptab, r * TableSize + i) = NoPte
      /\ pgd[t][r].pt_base # NoTable =>
             Walked(pgd[t], ptab, r * TableSize + i) = ptab[pgd[t][r].pt_base][i]
  BY WalkedAt
<1> QED
  BY ONLY <1>1, <1>2, <1>3, Zenon

\* What a task finds at an address, it reaches.
LEMMA ReachesIsFound ==
    ASSUME TablesInv, NEW t \in DOMAIN pgd, NEW va \in Addresses
    PROVE  /\ Reaches(t, va) <=> Walked(pgd[t], ptab, va) # NoPte
           /\ Reaches(t, va) <=> Walked(pgd[t], ptab, va) = Pte(va, FALSE)
<1>1. Walked(pgd[t], ptab, va) \in {NoPte, Pte(va, FALSE)}
  BY FoundIsSame
<1>2. Pte(va, FALSE).pg_base = va /\ NoPte.pg_base = -1 /\ va # -1
  BY Sizes DEF Pte, NoPte, Addresses
<1> QED
  BY <1>1, <1>2 DEF Reaches

\* Nothing that was found is lost.
Kept ==
    \A t \in DOMAIN pgd : t \in DOMAIN pgd' =>
        \A va \in Addresses :
            Walked(pgd[t], ptab, va) # NoPte =>
                Walked(pgd'[t], ptab', va) = Walked(pgd[t], ptab, va)

\* Nothing is lost if no entry of a directory or table in use is.
LEMMA KeptByPlace ==
    ASSUME \A t \in DOMAIN pgd : t \in DOMAIN pgd' =>
              \A r \in 0 .. Regions - 1 : pgd[t][r].pt_base # NoTable =>
                  /\ pgd'[t][r].pt_base = pgd[t][r].pt_base
                  /\ \A i \in 0 .. TableSize - 1 :
                        ptab[pgd[t][r].pt_base][i] # NoPte =>
                            ptab'[pgd[t][r].pt_base][i] = ptab[pgd[t][r].pt_base][i]
    PROVE  Kept
<1>1. SUFFICES ASSUME NEW t \in DOMAIN pgd, t \in DOMAIN pgd', NEW va \in Addresses,
                      Walked(pgd[t], ptab, va) # NoPte
               PROVE  Walked(pgd'[t], ptab', va) = Walked(pgd[t], ptab, va)
  BY DEF Kept
<1>2. PICK r \in 0 .. Regions - 1, i \in 0 .. TableSize - 1 : va = r * TableSize + i
  BY Split
<1>3. PICK x : x = pgd[t][r].pt_base
  OBVIOUS
<1>4. x # NoTable /\ ptab[x][i] # NoPte /\ Walked(pgd[t], ptab, va) = ptab[x][i]
  <2>1. /\ pgd[t][r].pt_base = NoTable => Walked(pgd[t], ptab, r * TableSize + i) = NoPte
        /\ pgd[t][r].pt_base # NoTable =>
               Walked(pgd[t], ptab, r * TableSize + i) = ptab[pgd[t][r].pt_base][i]
    BY WalkedAt
  <2> QED
    BY ONLY <1>1, <1>2, <1>3, <2>1, Zenon
<1>5. pgd'[t][r].pt_base = x /\ ptab'[x][i] = ptab[x][i]
  BY <1>1, <1>3, <1>4, Zenon
<1>6. pgd'[t][r].pt_base # NoTable =>
         Walked(pgd'[t], ptab', r * TableSize + i) = ptab'[pgd'[t][r].pt_base][i]
  BY WalkedAt
<1> QED
  BY ONLY <1>2, <1>4, <1>5, <1>6, Zenon

\* mmap1page() where there is a page table.
LEMMA PresentStep ==
    ASSUME TablesInv, running \in DOMAIN pgd,
           NEW r \in 0 .. Regions - 1, NEW k \in 0 .. TableSize - 1,
           NEW x, x = pgd[running][r].pt_base, x # NoTable,
           ptab' = [ptab EXCEPT ![x][k] = Pte(r * TableSize + k, FALSE)], UNCHANGED pgd
    PROVE  /\ TablesInv' /\ Kept
           /\ Walked(pgd'[running], ptab', r * TableSize + k) = Pte(r * TableSize + k, FALSE)
<1>1. TableOf(x, r) /\ x \in DOMAIN ptab
  BY Zenon DEF TablesInv, TableOf
<1>2. /\ DOMAIN ptab' = PageTables /\ DOMAIN ptab'[x] = 0 .. TableSize - 1
      /\ \A y \in PageTables : y # x => ptab'[y] = ptab[y]
      /\ \A i \in 0 .. TableSize - 1 :
            ptab'[x][i] = IF i = k THEN Pte(r * TableSize + k, FALSE) ELSE ptab[x][i]
  BY <1>1 DEF TablesInv, TableOf
<1>3. TableOf(x, r)'
  BY <1>1, <1>2, Zenon DEF TableOf
<1>4. ASSUME NEW t \in DOMAIN pgd, NEW q \in 0 .. Regions - 1, pgd[t][q].pt_base # NoTable
      PROVE  TableOf(pgd[t][q].pt_base, q)'
  <2>1. CASE pgd[t][q].pt_base = x
    <3>1. q = r
      BY <1>4, <2>1, Zenon DEF TablesInv
    <3> QED
      BY <1>3, <2>1, <3>1
  <2>2. CASE pgd[t][q].pt_base # x
    <3>1. TableOf(pgd[t][q].pt_base, q)
      BY <1>4, Zenon DEF TablesInv
    <3> QED
      BY <1>2, <2>2, <3>1 DEF TableOf
  <2> QED
    BY <2>1, <2>2
<1>5. TablesInv'
  BY <1>2, <1>4 DEF TablesInv
<1>6. Kept
  <2>1. ASSUME NEW t \in DOMAIN pgd, NEW q \in 0 .. Regions - 1, pgd[t][q].pt_base # NoTable,
               NEW i \in 0 .. TableSize - 1, ptab[pgd[t][q].pt_base][i] # NoPte
        PROVE  ptab'[pgd[t][q].pt_base][i] = ptab[pgd[t][q].pt_base][i]
    <3>1. CASE pgd[t][q].pt_base = x
      <4>1. ptab[x][i] = Pte(r * TableSize + i, FALSE)
        BY <1>1, <2>1, <3>1, Zenon DEF TableOf
      <4> QED
        BY <1>2, <3>1, <4>1, Zenon
    <3>2. CASE pgd[t][q].pt_base # x
      <4>1. pgd[t][q].pt_base \in PageTables
        BY <2>1, Zenon DEF TablesInv, TableOf
      <4> QED
        BY <1>2, <3>2, <4>1, Zenon
    <3> QED
      BY <3>1, <3>2
  <2> QED
    BY <2>1, KeptByPlace, Zenon
<1>7. Walked(pgd[running], ptab', r * TableSize + k) = ptab'[x][k]
  BY ONLY WalkedAt, x = pgd[running][r].pt_base, x # NoTable, r \in 0 .. Regions - 1,
     k \in 0 .. TableSize - 1, Zenon
<1> QED
  BY <1>2, <1>5, <1>6, <1>7, Zenon

\* mmap1page() where it adds a page table.
LEMMA AbsentStep ==
    ASSUME TablesInv, running \in DOMAIN pgd,
           NEW r \in 0 .. Regions - 1, NEW k \in 0 .. TableSize - 1, NEW x \in FreeTables,
           pgd[running][r].pt_base = NoTable,
           pgd' = [pgd EXCEPT ![running][r] = Pde(x, FALSE)],
           ptab' = [ptab EXCEPT ![x] = [i \in 0 .. TableSize - 1 |->
                       IF i = k THEN Pte(r * TableSize + k, FALSE) ELSE NoPte]]
    PROVE  /\ TablesInv' /\ Kept
           /\ Walked(pgd'[running], ptab', r * TableSize + k) = Pte(r * TableSize + k, FALSE)
<1>1. x \in PageTables /\ ptab[x] = <<>> /\ x # NoTable /\ x \in DOMAIN ptab
  BY Sizes DEF FreeTables, TablesInv
<1>2. \A t \in DOMAIN pgd, q \in 0 .. Regions - 1 : pgd[t][q].pt_base # x
  <2>1. SUFFICES ASSUME NEW q \in 0 .. Regions - 1, TableOf(x, q) PROVE FALSE
    BY <1>1, Zenon DEF TablesInv
  <2>2. DOMAIN <<>> = 0 .. TableSize - 1
    BY <1>1, <2>1 DEF TableOf
  <2>3. 0 \in 0 .. TableSize - 1 /\ 0 \notin DOMAIN <<>>
    BY Sizes
  <2> QED
    BY ONLY <2>2, <2>3
<1>3. /\ DOMAIN ptab' = PageTables /\ DOMAIN ptab'[x] = 0 .. TableSize - 1
      /\ \A y \in PageTables : y # x => ptab'[y] = ptab[y]
      /\ \A i \in 0 .. TableSize - 1 :
            ptab'[x][i] = IF i = k THEN Pte(r * TableSize + k, FALSE) ELSE NoPte
      /\ ptab'[x][k] = Pte(r * TableSize + k, FALSE)
  BY <1>1 DEF TablesInv
<1>4. pgd[running] \in Directory
  BY DEF TablesInv
<1>5. /\ DOMAIN pgd' = DOMAIN pgd
      /\ pgd'[running] \in Directory /\ pgd'[running][r].pt_base = x
      /\ \A t \in DOMAIN pgd : t # running => pgd'[t] = pgd[t]
      /\ \A q \in 0 .. Regions - 1 : q # r => pgd'[running][q] = pgd[running][q]
  BY <1>1, <1>4 DEF Directory, Pde
<1>6. TableOf(x, r)'
  BY <1>1, <1>3, Zenon DEF TableOf
<1>7. \A t \in DOMAIN pgd, q \in 0 .. Regions - 1 :
         \/ t = running /\ q = r /\ pgd'[t][q].pt_base = x
         \/ pgd'[t][q].pt_base = pgd[t][q].pt_base
  BY ONLY <1>5, Zenon
<1>8. ASSUME NEW t \in DOMAIN pgd, NEW q \in 0 .. Regions - 1, pgd'[t][q].pt_base # NoTable
      PROVE  TableOf(pgd[t][q].pt_base, q)'
  <2>1. CASE t = running /\ q = r
    BY <1>5, <1>6, <2>1
  <2>2. CASE ~ (t = running /\ q = r)
    <3>1. pgd'[t][q].pt_base = pgd[t][q].pt_base
      BY ONLY <1>7, <2>2, t \in DOMAIN pgd, q \in 0 .. Regions - 1, Zenon
    <3>2. TableOf(pgd[t][q].pt_base, q) /\ pgd[t][q].pt_base # x
      BY <1>2, <1>8, <3>1, Zenon DEF TablesInv
    <3> QED
      BY <1>3, <3>1, <3>2 DEF TableOf
  <2> QED
    BY <2>1, <2>2
<1>9. ASSUME NEW t \in DOMAIN pgd, NEW u \in DOMAIN pgd, NEW p \in 0 .. Regions - 1,
             NEW q \in 0 .. Regions - 1, pgd'[t][p].pt_base = pgd'[u][q].pt_base,
             pgd'[t][p].pt_base # NoTable
      PROVE  p = q
  <2>1. CASE pgd'[t][p].pt_base = x
    BY ONLY <1>2, <1>7, <1>9, <2>1, t \in DOMAIN pgd, u \in DOMAIN pgd,
       p \in 0 .. Regions - 1, q \in 0 .. Regions - 1, Zenon
  <2>2. CASE pgd'[t][p].pt_base # x
    <3>1. pgd'[t][p].pt_base = pgd[t][p].pt_base /\ pgd'[u][q].pt_base = pgd[u][q].pt_base
      BY ONLY <1>7, <1>9, <2>2, t \in DOMAIN pgd, u \in DOMAIN pgd,
         p \in 0 .. Regions - 1, q \in 0 .. Regions - 1, Zenon
    <3>2. \A a, b \in DOMAIN pgd, c, d \in 0 .. Regions - 1 :
             pgd[a][c].pt_base = pgd[b][d].pt_base /\ pgd[a][c].pt_base # NoTable => c = d
      BY DEF TablesInv
    <3> QED
      BY ONLY <1>9, <3>1, <3>2, t \in DOMAIN pgd, u \in DOMAIN pgd,
         p \in 0 .. Regions - 1, q \in 0 .. Regions - 1, Zenon
  <2> QED
    BY <2>1, <2>2
<1>10. TablesInv'
  <2>1. \A t \in DOMAIN pgd : pgd'[t] \in Directory
    <3>1. \A t \in DOMAIN pgd : pgd[t] \in Directory
      BY DEF TablesInv
    <3> QED
      BY ONLY <1>5, <3>1, Zenon
  <2>2. \A t \in DOMAIN pgd, q \in 0 .. Regions - 1 :
           pgd'[t][q].pt_base # NoTable => TableOf(pgd[t][q].pt_base, q)'
    BY <1>8
  <2>4. \A t, u \in DOMAIN pgd, p, q \in 0 .. Regions - 1 :
           pgd'[t][p].pt_base = pgd'[u][q].pt_base /\ pgd'[t][p].pt_base # NoTable => p = q
    BY <1>9
  <2>3. \A t \in DOMAIN pgd' : pgd'[t] \in Directory
    BY ONLY <1>5, <2>1, Zenon
  <2> QED
    BY <1>3, <1>5, <2>2, <2>3, <2>4 DEF TablesInv
<1>11. Kept
  <2>1. ASSUME NEW t \in DOMAIN pgd, NEW q \in 0 .. Regions - 1, pgd[t][q].pt_base # NoTable
        PROVE  /\ pgd'[t][q].pt_base = pgd[t][q].pt_base
               /\ ptab'[pgd[t][q].pt_base] = ptab[pgd[t][q].pt_base]
    <3>1. pgd'[t][q].pt_base = pgd[t][q].pt_base
      <4>1. pgd[running][r].pt_base = NoTable
        OBVIOUS
      <4> QED
        BY ONLY <1>7, <2>1, <4>1, t \in DOMAIN pgd, q \in 0 .. Regions - 1, Zenon
    <3>2. pgd[t][q].pt_base # x /\ pgd[t][q].pt_base \in PageTables
      BY <1>2, <2>1, Zenon DEF TablesInv, TableOf
    <3> QED
      BY <1>3, <3>1, <3>2, Zenon
  <2> QED
    BY <2>1, KeptByPlace, Zenon
<1>12. Walked(pgd'[running], ptab', r * TableSize + k) = ptab'[x][k]
  <2>1. (r * TableSize + k) \div TableSize = r /\ (r * TableSize + k) % TableSize = k
    BY Joint
  <2> QED
    BY ONLY <1>1, <1>5, <2>1, Zenon DEF Walked
<1> QED
  BY ONLY <1>3, <1>10, <1>11, <1>12, Zenon

\* mmap1page() loses nothing and enters the page.
LEMMA Mmap1PageStep ==
    ASSUME TablesInv, running \in DOMAIN pgd, NEW va \in Addresses, Mmap1Page(va, va, FALSE)
    PROVE  /\ TablesInv' /\ Kept
           /\ DOMAIN pgd' = DOMAIN pgd
           /\ Walked(pgd'[running], ptab', va) = Pte(va, FALSE)
<1>1. PICK r \in 0 .. Regions - 1, k \in 0 .. TableSize - 1 :
         va \div TableSize = r /\ va % TableSize = k /\ va = r * TableSize + k
  BY Split
<1>2. CASE Present(r)
  <2>1. PICK x : x = pgd[running][r].pt_base /\ x # NoTable
    BY <1>2 DEF Present
  <2>2. ptab' = [ptab EXCEPT ![x][k] = Pte(va, FALSE)] /\ UNCHANGED pgd
    BY <1>1, <1>2, <2>1, Zenon DEF Mmap1Page
  <2>3. ptab' = [ptab EXCEPT ![x][k] = Pte(r * TableSize + k, FALSE)]
    BY ONLY <1>1, <2>2, Zenon
  <2>4. /\ TablesInv' /\ Kept
        /\ Walked(pgd'[running], ptab', r * TableSize + k) = Pte(r * TableSize + k, FALSE)
    BY <2>1, <2>2, <2>3, PresentStep, Zenon
  <2> QED
    BY ONLY <1>1, <2>2, <2>4, Zenon
<1>3. CASE ~ Present(r)
  <2>1. PICK x \in FreeTables : x = CHOOSE y \in FreeTables : TRUE
    BY <1>1, <1>3, Zenon DEF Mmap1Page
  <2>2. /\ pgd[running][r].pt_base = NoTable
        /\ pgd' = [pgd EXCEPT ![running][r] = Pde(x, FALSE)]
        /\ ptab' = [ptab EXCEPT ![x] = [i \in 0 .. TableSize - 1 |->
                       IF i = k THEN Pte(va, FALSE) ELSE NoPte]]
    BY <1>1, <1>3, <2>1 DEF Mmap1Page, Present
  <2>3. ptab' = [ptab EXCEPT ![x] = [i \in 0 .. TableSize - 1 |->
                    IF i = k THEN Pte(r * TableSize + k, FALSE) ELSE NoPte]]
    BY ONLY <1>1, <2>2
  <2>4. /\ TablesInv' /\ Kept
        /\ Walked(pgd'[running], ptab', r * TableSize + k) = Pte(r * TableSize + k, FALSE)
    BY <2>2, <2>3, AbsentStep
  <2>5. DOMAIN pgd' = DOMAIN pgd
    BY <2>2
  <2> QED
    BY ONLY <1>1, <2>4, <2>5, Zenon
<1> QED
  BY <1>2, <1>3

\* What was reached is reached still.
LEMMA KeptReaches ==
    ASSUME Kept, NEW t \in DOMAIN pgd, t \in DOMAIN pgd', NEW va \in Addresses, Reaches(t, va)
    PROVE  Reaches(t, va)'
<1>1. NoPte.pg_base = -1 /\ va # -1
  BY Sizes DEF Pte, NoPte, Addresses
<1>2. Walked(pgd[t], ptab, va).pg_base = va
  BY DEF Reaches
<1>3. Walked(pgd'[t], ptab', va) = Walked(pgd[t], ptab, va)
  BY <1>1, <1>2, Zenon DEF Kept
<1> QED
  BY <1>2, <1>3 DEF Reaches

\* The registers of a device are within the directory.
LEMMA DeviceAddresses ==
    ASSUME NEW d \in Devices
    PROVE  /\ d[1] \in Nat /\ d[2] \in Nat
           /\ d[1] .. d[1] + d[2] - 1 \subseteq Addresses
<1>1. d[1] \in Nat /\ d[2] \in Nat /\ d[1] + d[2] <= Regions * TableSize
  BY SpaceAssumption
<1> QED
  BY <1>1, Sizes DEF Addresses

\* So is the normal memory.
LEMMA NormalAddresses == 0 .. NormalRegions * TableSize - 1 \subseteq Addresses
BY Sizes DEF Addresses

\* Where nothing is lost and no task is new, what was promised stays promised.
LEMMA KeptMapped ==
    ASSUME Kept, DOMAIN pgd' \subseteq DOMAIN pgd, UNCHANGED inherited,
           MappedAtCreation,
           \A d \in Devices : Tasks0 \in DOMAIN pgd' /\ d \in mapped' /\ d \notin mapped
              => ReachesDevice(Tasks0, d)'
    PROVE  MappedAtCreation'
<1>1. SUFFICES ASSUME NEW t \in DOMAIN pgd'
               PROVE  /\ \A va \in 0 .. NormalRegions * TableSize - 1 : Reaches(t, va)'
                      /\ \A d \in Devices :
                           (<<t, d>> \in inherited' \/ (t = Tasks0 /\ d \in mapped')) =>
                               ReachesDevice(t, d)'
  BY DEF MappedAtCreation
<1>2. t \in DOMAIN pgd
  OBVIOUS
<1>3. ASSUME NEW va \in 0 .. NormalRegions * TableSize - 1 PROVE Reaches(t, va)'
  <2>1. va \in Addresses
    BY NormalAddresses
  <2>2. Reaches(t, va)
    BY <1>2, Zenon DEF MappedAtCreation
  <2> QED
    BY <1>2, <2>1, <2>2, KeptReaches
<1>4. ASSUME NEW d \in Devices, ReachesDevice(t, d) PROVE ReachesDevice(t, d)'
  <2>1. SUFFICES ASSUME NEW va \in d[1] .. d[1] + d[2] - 1 PROVE Reaches(t, va)'
    BY DEF ReachesDevice
  <2>2. va \in Addresses
    BY DeviceAddresses
  <2>3. Reaches(t, va)
    BY <1>4 DEF ReachesDevice
  <2> QED
    BY <1>2, <2>2, <2>3, KeptReaches
<1>5. ASSUME NEW d \in Devices, <<t, d>> \in inherited' \/ (t = Tasks0 /\ d \in mapped')
      PROVE  ReachesDevice(t, d)'
  <2>1. CASE <<t, d>> \in inherited \/ (t = Tasks0 /\ d \in mapped)
    BY <1>2, <1>4, <2>1, Zenon DEF MappedAtCreation
  <2>2. CASE t = Tasks0 /\ d \in mapped' /\ d \notin mapped
    BY <2>2
  <2> QED
    BY <1>5, <2>1, <2>2
<1> QED
  BY <1>3, <1>5

\* pgmode_enable() establishes the invariant.
LEMMA SpaceInitStep == SpaceInit => SpaceInv
<1>1. SUFFICES ASSUME SpaceInit PROVE SpaceInv
  OBVIOUS
<1>2. PICK f \in [0 .. NormalRegions - 1 -> PageTables] : f = NormalTables /\ IsInjective(f)
  <2>1. \E f \in [0 .. NormalRegions - 1 -> PageTables] : IsInjective(f)
    BY SpaceAssumption
  <2> QED
    BY ONLY <2>1, Zenon DEF NormalTables
<1>3. \A r, q \in 0 .. NormalRegions - 1 : f[r] = f[q] => r = q
  BY <1>2 DEF IsInjective
<1>4. /\ DOMAIN pgd = {Tasks0} /\ pgd[Tasks0] \in Directory
      /\ \A r \in 0 .. NormalRegions - 1 : pgd[Tasks0][r].pt_base = f[r] /\ f[r] # NoTable
      /\ \A r \in 0 .. Regions - 1 : r \notin 0 .. NormalRegions - 1 => pgd[Tasks0][r].pt_base = NoTable
      /\ 0 .. NormalRegions - 1 \subseteq 0 .. Regions - 1
  <2>1. pgd = [x \in {Tasks0} |->
                 [r \in 0 .. Regions - 1 |->
                      IF r < NormalRegions THEN Pde(f[r], FALSE) ELSE NoPde]]
    BY <1>1, <1>2 DEF SpaceInit, PgmodeEnable
  <2>2. \A r \in 0 .. NormalRegions - 1 : f[r] \in PageTables /\ f[r] # NoTable
    BY <1>2, Sizes
  <2> QED
    BY <2>1, <2>2, Sizes DEF Directory, Pde, NoPde
<1>5. DOMAIN ptab = PageTables
  BY <1>1 DEF SpaceInit, PgmodeEnable
<1>6. \A r \in 0 .. NormalRegions - 1 :
         ptab[f[r]] = [i \in 0 .. TableSize - 1 |-> Pte(r * TableSize + i, FALSE)]
  <2>1. SUFFICES ASSUME NEW r \in 0 .. NormalRegions - 1
                 PROVE  ptab[f[r]] = [i \in 0 .. TableSize - 1 |-> Pte(r * TableSize + i, FALSE)]
    OBVIOUS
  <2>2. (CHOOSE q \in 0 .. NormalRegions - 1 : NormalTables[q] = f[r]) = r
    BY <1>2, <1>3
  <2>3. f[r] \in PageTables /\ \E q \in 0 .. NormalRegions - 1 : NormalTables[q] = f[r]
    BY <1>2
  <2> QED
    BY <1>1, <2>2, <2>3 DEF SpaceInit, PgmodeEnable
<1>7. TablesInv
  <2>1. ASSUME NEW r \in 0 .. Regions - 1, pgd[Tasks0][r].pt_base # NoTable
        PROVE  /\ r \in 0 .. NormalRegions - 1 /\ pgd[Tasks0][r].pt_base = f[r]
               /\ TableOf(pgd[Tasks0][r].pt_base, r)
    <3>1. r \in 0 .. NormalRegions - 1 /\ pgd[Tasks0][r].pt_base = f[r]
      BY <1>4, <2>1
    <3>2. ptab[f[r]] = [i \in 0 .. TableSize - 1 |-> Pte(r * TableSize + i, FALSE)]
      BY <1>6, <3>1
    <3>3. f[r] \in PageTables
      BY <1>2, <3>1
    <3>4. TableOf(f[r], r)
      BY <3>2, <3>3 DEF TableOf
    <3> QED
      BY <3>1, <3>4
  <2>2. ASSUME NEW r \in 0 .. Regions - 1, NEW q \in 0 .. Regions - 1,
               pgd[Tasks0][r].pt_base = pgd[Tasks0][q].pt_base, pgd[Tasks0][r].pt_base # NoTable
        PROVE  r = q
    <3>1. /\ r \in 0 .. NormalRegions - 1 /\ pgd[Tasks0][r].pt_base = f[r]
          /\ q \in 0 .. NormalRegions - 1 /\ pgd[Tasks0][q].pt_base = f[q]
      BY <2>1, <2>2
    <3> QED
      BY <1>3, <2>2, <3>1
  <2> QED
    BY <1>4, <1>5, <2>1, <2>2 DEF TablesInv
<1>8. ASSUME NEW va \in 0 .. NormalRegions * TableSize - 1 PROVE Reaches(Tasks0, va)
  <2>1. va \in Addresses
    BY NormalAddresses
  <2>2. PICK r \in 0 .. Regions - 1, i \in 0 .. TableSize - 1 : va = r * TableSize + i
    BY <2>1, Split
  <2>3. r \in 0 .. NormalRegions - 1
    <3>1. SUFFICES ASSUME r >= NormalRegions PROVE FALSE
      BY Sizes
    <3>2. PICK e \in Nat : r = NormalRegions + e
      <4>1. r - NormalRegions \in Nat /\ r = NormalRegions + (r - NormalRegions)
        BY <3>1, Sizes
      <4> QED
        BY <4>1
    <3>3. r * TableSize = NormalRegions * TableSize + e * TableSize /\ e * TableSize \in Nat
      BY <3>2, Sizes
    <3> QED
      BY <2>2, <3>3, Sizes
  <2>4. pgd[Tasks0][r].pt_base = f[r] /\ pgd[Tasks0][r].pt_base # NoTable
    BY <1>4, <2>3
  <2>5. ptab[f[r]][i] = Pte(va, FALSE)
    BY <1>6, <2>2, <2>3
  <2>6. (r * TableSize + i) \div TableSize = r /\ (r * TableSize + i) % TableSize = i
    BY Joint
  <2>7. Walked(pgd[Tasks0], ptab, va) = Pte(va, FALSE)
    BY ONLY <2>2, <2>4, <2>5, <2>6, Zenon DEF Walked
  <2> QED
    BY <2>7 DEF Reaches, Pte
<1>9. MappedAtCreation
  BY <1>1, <1>4, <1>8 DEF MappedAtCreation, SpaceInit
<1> QED
  BY <1>1, <1>4, <1>7, <1>9 DEF SpaceInv, SpaceInit, MmapInv

\* Copies and releases of directories leave the tables in order.
LEMMA TablesSame ==
    ASSUME TablesInv, UNCHANGED ptab,
           \A t \in DOMAIN pgd' : \E u \in DOMAIN pgd : pgd'[t] = pgd[u]
    PROVE  TablesInv'
<1>1. ASSUME NEW t \in DOMAIN pgd', NEW r \in 0 .. Regions - 1, pgd'[t][r].pt_base # NoTable
      PROVE  TableOf(pgd[t][r].pt_base, r)'
  <2>1. PICK u \in DOMAIN pgd : pgd'[t] = pgd[u]
    BY <1>1
  <2>2. TableOf(pgd[u][r].pt_base, r)
    BY <1>1, <2>1 DEF TablesInv
  <2> QED
    BY <2>1, <2>2 DEF TableOf
<1>2. DOMAIN ptab' = PageTables /\ \A t \in DOMAIN pgd' : pgd'[t] \in Directory
  BY DEF TablesInv
<1>3. ASSUME NEW t \in DOMAIN pgd', NEW u \in DOMAIN pgd', NEW r \in 0 .. Regions - 1,
             NEW q \in 0 .. Regions - 1, pgd'[t][r].pt_base = pgd'[u][q].pt_base,
             pgd'[t][r].pt_base # NoTable
      PROVE  r = q
  <2>1. PICK x \in DOMAIN pgd : pgd'[t] = pgd[x]
    BY <1>3
  <2>2. PICK y \in DOMAIN pgd : pgd'[u] = pgd[y]
    BY <1>3
  <2> QED
    BY <1>3, <2>1, <2>2 DEF TablesInv
<1> QED
  BY <1>1, <1>2, <1>3 DEF TablesInv

\* mmap() begins.
LEMMA ProbeMmapStep ==
    ASSUME SpaceInv, NEW d \in Devices, ProbeMmap(d)
    PROVE  SpaceInv' /\ Kept
<1>1. UNCHANGED <<pgd, ptab, running, mapped, inherited>> /\ mmapAt' = <<d, 0>>
  BY DEF ProbeMmap
<1>2. Kept
  BY <1>1 DEF Kept
<1>3. TablesInv' /\ MappedAtCreation'
  BY <1>1, <1>2, TablesSame, KeptMapped DEF SpaceInv
<1>4. 0 \in 0 .. d[2] /\ d[1] .. d[1] + 0 - 1 = {}
  BY DeviceAddresses
<1>5. MmapInv'
  BY <1>1, <1>4 DEF MmapInv
<1> QED
  BY <1>1, <1>2, <1>3, <1>5 DEF SpaceInv, MmapInv

\* Another directory comes into use.
LEMMA SwitchToStep ==
    ASSUME SpaceInv, NEW t \in DOMAIN pgd, SwitchTo(t)
    PROVE  SpaceInv' /\ Kept
<1>1. UNCHANGED <<pgd, ptab, mmapAt, mapped, inherited>> /\ running' = t
  BY DEF SwitchTo
<1>2. Kept
  BY <1>1 DEF Kept
<1>3. TablesInv' /\ MappedAtCreation' /\ MmapInv'
  <2>1. MmapInv'
    BY <1>1 DEF SpaceInv, MmapInv, Reaches, Walked
  <2> QED
    BY <1>1, <1>2, <2>1, TablesSame, KeptMapped DEF SpaceInv
<1> QED
  BY <1>1, <1>2, <1>3 DEF SpaceInv, MmapInv

\* A directory is freed.
LEMMA ReapDirectoryStep ==
    ASSUME SpaceInv, NEW t \in NewTasks, ReapDirectory(t)
    PROVE  SpaceInv' /\ Kept
<1>1. /\ UNCHANGED <<ptab, running, mmapAt, mapped, inherited>> /\ mmapAt = <<>>
      /\ running = Tasks0 /\ t # Tasks0
      /\ pgd' = [x \in DOMAIN pgd \ {t} |-> pgd[x]]
  BY SpaceAssumption DEF ReapDirectory
<1>2. Kept
  BY <1>1 DEF Kept
<1>3. TablesInv'
  BY <1>1, TablesSame DEF SpaceInv
<1>4. MappedAtCreation'
  BY <1>1, <1>2, KeptMapped DEF SpaceInv
<1> QED
  BY <1>1, <1>2, <1>3, <1>4 DEF SpaceInv, MmapInv

\* A new thread reaches what its creator reaches.
LEMMA CreateThreadStep ==
    ASSUME SpaceInv, NEW t \in NewTasks, CreateThread(t)
    PROVE  SpaceInv' /\ Kept
<1>1. /\ UNCHANGED <<ptab, running, mmapAt, mapped>> /\ t \notin DOMAIN pgd /\ t # Tasks0
      /\ DOMAIN pgd' = DOMAIN pgd \union {t} /\ pgd'[t] = pgd[running]
      /\ \A x \in DOMAIN pgd : pgd'[x] = pgd[x]
      /\ running \in DOMAIN pgd
      /\ inherited' = {x \in inherited : x[1] # t}
                      \union {<<t, d>> : d \in {e \in Devices : ReachesDevice(running, e)}}
  BY SpaceAssumption DEF CreateThread, NewDirectory, SpaceInv
<1>2. \A x \in DOMAIN pgd', va \in Addresses :
         Walked(pgd'[x], ptab', va) = Walked(pgd[IF x = t THEN running ELSE x], ptab, va)
  BY <1>1 DEF Walked
<1>3. \A x \in DOMAIN pgd', va \in Addresses :
         Reaches(x, va)' <=> Reaches(IF x = t THEN running ELSE x, va)
  BY <1>2 DEF Reaches
<1>4. Kept
  BY <1>1, <1>2 DEF Kept
<1>5. TablesInv'
  BY <1>1, TablesSame DEF SpaceInv
<1>6. \A x \in DOMAIN pgd', d \in Devices :
         ReachesDevice(x, d)' <=> ReachesDevice(IF x = t THEN running ELSE x, d)
  BY <1>3, DeviceAddresses DEF ReachesDevice
<1>7. MappedAtCreation'
  <2>1. SUFFICES ASSUME NEW x \in DOMAIN pgd'
                 PROVE  /\ \A va \in 0 .. NormalRegions * TableSize - 1 : Reaches(x, va)'
                        /\ \A d \in Devices :
                             (<<x, d>> \in inherited' \/ (x = Tasks0 /\ d \in mapped')) =>
                                 ReachesDevice(x, d)'
    BY DEF MappedAtCreation
  <2>2. ASSUME NEW va \in 0 .. NormalRegions * TableSize - 1 PROVE Reaches(x, va)'
    BY <1>1, <1>3, NormalAddresses DEF SpaceInv, MappedAtCreation
  <2>3. ASSUME NEW d \in Devices, <<x, d>> \in inherited' \/ (x = Tasks0 /\ d \in mapped')
        PROVE  ReachesDevice(x, d)'
    <3>1. CASE x = t
      <4>1. ReachesDevice(running, d)
        BY <1>1, <2>3, <3>1
      <4> QED
        BY <1>6, <3>1, <4>1
    <3>2. CASE x # t
      <4>1. x \in DOMAIN pgd /\ (<<x, d>> \in inherited \/ (x = Tasks0 /\ d \in mapped))
        BY <1>1, <2>3, <3>2
      <4>2. ReachesDevice(x, d)
        BY <4>1 DEF SpaceInv, MappedAtCreation
      <4> QED
        BY <1>6, <3>2, <4>2
    <3> QED
      BY <3>1, <3>2
  <2> QED
    BY <2>2, <2>3
<1>8. MmapInv'
  <2>1. SUFFICES ASSUME mmapAt # <<>>
                 PROVE  \E d \in Devices : \E i \in 0 .. d[2] :
                            /\ mmapAt = <<d, i>>
                            /\ \A va \in d[1] .. d[1] + i - 1 : Reaches(Tasks0, va)'
    BY <1>1 DEF MmapInv
  <2>0. PICK d \in Devices : \E i \in 0 .. d[2] :
           /\ mmapAt = <<d, i>>
           /\ \A va \in d[1] .. d[1] + i - 1 : Reaches(Tasks0, va)
    BY <2>1 DEF SpaceInv, MmapInv
  <2>2. PICK i \in 0 .. d[2] :
           /\ mmapAt = <<d, i>>
           /\ \A va \in d[1] .. d[1] + i - 1 : Reaches(Tasks0, va)
    BY <2>0
  <2>3. \A va \in d[1] .. d[1] + i - 1 : va \in Addresses
    BY DeviceAddresses
  <2> QED
    BY <1>1, <1>3, <2>2, <2>3 DEF SpaceInv
<1> QED
  BY <1>1, <1>4, <1>5, <1>7, <1>8 DEF SpaceInv, MmapInv

\* The next page of mmap(), or its end.
LEMMA MmapTurnStep ==
    ASSUME SpaceInv, MmapTurn
    PROVE  SpaceInv' /\ Kept
<1>0. PICK d \in Devices : \E i \in 0 .. d[2] :
         /\ mmapAt = <<d, i>>
         /\ \A va \in d[1] .. d[1] + i - 1 : Reaches(Tasks0, va)
  BY DEF SpaceInv, MmapInv, MmapTurn
<1>1. PICK i \in 0 .. d[2] :
         /\ mmapAt = <<d, i>>
         /\ \A va \in d[1] .. d[1] + i - 1 : Reaches(Tasks0, va)
  BY <1>0
<1>2. d[1] \in Nat /\ d[2] \in Nat /\ d[1] .. d[1] + d[2] - 1 \subseteq Addresses
  BY DeviceAddresses
<1>3. running = Tasks0 /\ UNCHANGED <<running, inherited>>
  BY DEF MmapTurn
<1>4. CASE i < d[2]
  <2>1. PICK va \in Addresses : va = d[1] + i
    BY <1>2, <1>4
  <2>2. Mmap1Page(va, va, FALSE) /\ mmapAt' = <<d, i + 1>> /\ UNCHANGED mapped
    BY <1>1, <1>4, <2>1 DEF MmapTurn
  <2>3. /\ TablesInv' /\ Kept /\ DOMAIN pgd' = DOMAIN pgd
        /\ Walked(pgd'[running], ptab', va) = Pte(va, FALSE)
    BY <2>2, Mmap1PageStep DEF SpaceInv
  <2>4. MappedAtCreation'
    BY <1>3, <2>2, <2>3, KeptMapped DEF SpaceInv
  <2>5. Reaches(Tasks0, va)'
    BY <1>3, <2>3 DEF Reaches, Pte
  <2>6. \A w \in d[1] .. d[1] + (i + 1) - 1 : Reaches(Tasks0, w)'
    <3>1. SUFFICES ASSUME NEW w \in d[1] .. d[1] + i - 1 PROVE Reaches(Tasks0, w)'
      BY <1>2, <2>1, <2>5
    <3>2. w \in Addresses /\ Reaches(Tasks0, w)
      BY <1>1, <1>2
    <3>3. Tasks0 \in DOMAIN pgd /\ Tasks0 \in DOMAIN pgd'
      BY <2>3 DEF SpaceInv
    <3> QED
      BY <2>3, <3>2, <3>3, KeptReaches
  <2>7. i + 1 \in 0 .. d[2]
    BY <1>2, <1>4
  <2>8. MmapInv'
    BY <2>2, <2>6, <2>7 DEF MmapInv
  <2> QED
    BY <1>3, <2>2, <2>3, <2>4, <2>8 DEF SpaceInv, MmapInv
<1>5. CASE ~ (i < d[2])
  <2>1. mmapAt' = <<>> /\ mapped' = mapped \union {d} /\ UNCHANGED <<pgd, ptab>>
    BY <1>1, <1>5 DEF MmapTurn
  <2>2. Kept
    BY <2>1 DEF Kept
  <2>3. TablesInv'
    BY <2>1, TablesSame DEF SpaceInv
  <2>4. ReachesDevice(Tasks0, d)
    <3>1. i = d[2]
      BY <1>2, <1>5
    <3> QED
      BY <1>1, <3>1 DEF ReachesDevice
  <2>5. ReachesDevice(Tasks0, d)'
    BY <2>1, <2>4 DEF ReachesDevice, Reaches, Walked
  <2>6. MappedAtCreation'
    BY <1>3, <2>1, <2>2, <2>5, KeptMapped DEF SpaceInv
  <2> QED
    BY <1>3, <2>1, <2>2, <2>3, <2>6 DEF SpaceInv, MmapInv
<1> QED
  BY <1>4, <1>5

\* Every step keeps the invariant and loses nothing.
LEMMA SpaceStep ==
    ASSUME SpaceInv, [SpaceNext]_spaceVars
    PROVE  SpaceInv' /\ Kept
<1>1. CASE MmapTurn
  BY <1>1, MmapTurnStep
<1>2. CASE \E d \in Devices : ProbeMmap(d)
  BY <1>2, ProbeMmapStep
<1>3. CASE \E t \in NewTasks : CreateThread(t) \/ ReapDirectory(t)
  BY <1>3, CreateThreadStep, ReapDirectoryStep
<1>4. CASE \E t \in DOMAIN pgd : SwitchTo(t)
  BY <1>4, SwitchToStep
<1>5. CASE UNCHANGED spaceVars
  <2>1. UNCHANGED <<pgd, ptab, running, mmapAt, mapped, inherited>>
    BY <1>5 DEF spaceVars
  <2>2. Kept
    BY <2>1 DEF Kept
  <2>3. MmapInv'
    BY <2>1 DEF SpaceInv, MmapInv, Reaches, Walked
  <2> QED
    BY <2>1, <2>2, <2>3, TablesSame, KeptMapped DEF SpaceInv
<1> QED
  BY <1>1, <1>2, <1>3, <1>4, <1>5 DEF SpaceNext

\* For any number of threads and devices and tables of any size: every task
\* reaches the normal memory at its own address and the devices its creator
\* reached, whatever kernel_thread(), idleloop() and mmap() do between.
THEOREM MappedAtCreationHolds == SpaceSpec => []MappedAtCreation
<1>1. SpaceInit => SpaceInv
  BY SpaceInitStep
<1>2. SpaceInv /\ [SpaceNext]_spaceVars => SpaceInv'
  BY SpaceStep
<1>3. SpaceInv => MappedAtCreation
  BY DEF SpaceInv
<1> QED
  BY <1>1, <1>2, <1>3, PTL DEF SpaceSpec

\* No step of mmap() or of another task takes a page from a task that can
\* reach it, although tasks share page tables.
THEOREM MappingsKeptHolds == SpaceSpec => MappingsKept
<1>1. SpaceInit => SpaceInv
  BY SpaceInitStep
<1>2. SpaceInv /\ [SpaceNext]_spaceVars => SpaceInv'
  BY SpaceStep
<1>3. SpaceInv /\ [SpaceNext]_spaceVars =>
         [\A t \in DOMAIN pgd : t \in DOMAIN pgd' =>
            \A va \in 0 .. Regions * TableSize - 1 :
                LET e == Walked(pgd[t], ptab, va)
                IN  e # NoPte => Walked(pgd'[t], ptab', va) = e]_spaceVars
  BY SpaceStep DEF Kept, Addresses
<1> QED
  BY <1>1, <1>2, <1>3, PTL DEF SpaceSpec, MappingsKept

-----------------------------------------------------------------------------
(* The memory map.                                                         *)

\* A range of the table.
Desc == [begin : Nat, size : Nat \ {0}, flag : {"idle", "used", "reserve"}]

\* The page behind a range.
EndOf(r) == r.begin + r.size

\* The ranges of T are the RAM up to n: no two overlap, each ends where another
\* begins or where the RAM ends, and no two idle ones touch.
Tiles(T, n) ==
    /\ T \subseteq Desc
    /\ \A r, q \in T : r # q => EndOf(r) <= q.begin \/ EndOf(q) <= r.begin
    /\ \A r \in T :
          \/ EndOf(r) = n
          \/ \E q \in T : q.begin = EndOf(r) /\ (r.flag # "idle" \/ q.flag # "idle")
    /\ \A r \in T : EndOf(r) <= n
    /\ \E r \in T : r.begin = 0

\* The ranges in a table.
Entries(t) == {t[i] : i \in DOMAIN t}

\* A table: as many entries as it says, in order.
OrderedTable(t) ==
    /\ t \in Seq(Desc) /\ Len(t) # 0
    /\ \A i, j \in DOMAIN t : i < j => t[i].begin < t[j].begin

\* The inductive invariant.
RangesInv ==
    /\ ramSize \in RamSizes
    /\ OrderedTable(rd) /\ Len(rd) <= MaxRanges
    /\ Tiles(Entries(rd), ramSize)
    /\ {r \in Entries(rd) : r.flag # "idle"} = grants

\* sort() keeps what is in a table and puts it in order.
LEMMA SortedByBeginOrders ==
    ASSUME NEW n \in Nat, NEW u, DOMAIN u = 1 .. n,
           \A i \in 1 .. n : u[i].begin \in Nat,
           \A i, j \in 1 .. n : i # j => u[i].begin # u[j].begin
    PROVE  /\ DOMAIN SortedByBegin(u) = 1 .. n
           /\ Entries(SortedByBegin(u)) = Entries(u)
           /\ \A k, l \in 1 .. n : k < l => SortedByBegin(u)[k].begin < SortedByBegin(u)[l].begin
<1> DEFINE Lower(i) == {j \in 1 .. n : u[j].begin < u[i].begin}
<1>0. PICK place : place = [i \in 1 .. n |-> Cardinality(Lower(i)) + 1]
  OBVIOUS
<1>1. \A i \in 1 .. n : {j \in DOMAIN u : Precedes(u, j, i)} = Lower(i)
  BY DEF Precedes
<1>2. IsFiniteSet(1 .. n) /\ Cardinality(1 .. n) = n
  <2>1. 1 \in Int /\ n \in Int
    OBVIOUS
  <2>2. IsFiniteSet(1 .. n) /\ Cardinality(1 .. n) = IF 1 > n THEN 0 ELSE n - 1 + 1
    BY ONLY <2>1, FS_Interval
  <2> QED
    BY <2>2
<1>3. \A i \in 1 .. n : (1 .. n) \ {i} \in SUBSET (1 .. n) /\ Lower(i) \in SUBSET ((1 .. n) \ {i})
  OBVIOUS
<1>12. \A i \in 1 .. n : IsFiniteSet((1 .. n) \ {i}) /\ Cardinality((1 .. n) \ {i}) = n - 1
  BY <1>2, FS_RemoveElement
<1>13. \A i, j \in 1 .. n : u[i].begin < u[j].begin => Lower(i) \in SUBSET Lower(j) /\ Lower(i) # Lower(j)
  <2>1. SUFFICES ASSUME NEW i \in 1 .. n, NEW j \in 1 .. n, u[i].begin < u[j].begin
                 PROVE  Lower(i) \in SUBSET Lower(j) /\ Lower(i) # Lower(j)
    OBVIOUS
  <2>2. i \in Lower(j) /\ i \notin Lower(i)
    BY <2>1
  <2>3. \A k \in Lower(i) : k \in Lower(j)
    BY <2>1
  <2> QED
    BY <2>2, <2>3
<1> HIDE DEF Lower
<1>14. \A i \in 1 .. n :
          IsFiniteSet(Lower(i)) /\ Cardinality(Lower(i)) \in Nat /\ Cardinality(Lower(i)) <= n - 1
  <2>1. SUFFICES ASSUME NEW i \in 1 .. n
                 PROVE  /\ IsFiniteSet(Lower(i)) /\ Cardinality(Lower(i)) \in Nat
                        /\ Cardinality(Lower(i)) <= n - 1
    OBVIOUS
  <2>2. PICK S : S = (1 .. n) \ {i} /\ IsFiniteSet(S) /\ Cardinality(S) = n - 1
    BY <1>12
  <2>3. Lower(i) \in SUBSET S
    BY <1>3, <2>2
  <2>4. IsFiniteSet(Lower(i)) /\ Cardinality(Lower(i)) <= n - 1
    BY ONLY <2>2, <2>3, FS_Subset
  <2> QED
    BY <2>4, FS_CardinalityType
<1>15. \A i \in 1 .. n : place[i] \in 1 .. n
  <2>1. SUFFICES ASSUME NEW i \in 1 .. n PROVE place[i] \in 1 .. n
    OBVIOUS
  <2>2. PICK z : /\ z = Cardinality(Lower(i)) /\ z \in Nat /\ z <= n - 1
                 /\ place[i] = z + 1
    BY <1>0, <1>14, <2>1
  <2> QED
    BY ONLY n \in Nat, <2>2
<1>4. \A i, j \in 1 .. n : u[i].begin < u[j].begin => place[i] < place[j]
  <2>1. SUFFICES ASSUME NEW i \in 1 .. n, NEW j \in 1 .. n, u[i].begin < u[j].begin
                 PROVE  Cardinality(Lower(i)) < Cardinality(Lower(j))
    BY <1>0, <1>14
  <2>2. Cardinality(Lower(i)) <= Cardinality(Lower(j)) /\ Cardinality(Lower(i)) # Cardinality(Lower(j))
    BY <1>13, <1>14, <2>1, FS_Subset
  <2> QED
    BY <1>14, <2>2
<1>5. \A i, j \in 1 .. n : place[i] = place[j] => i = j
  <2>1. \A i \in 1 .. n : place[i] \in Int
    BY <1>15
  <2>2. \A i, j \in 1 .. n : i # j => u[i].begin < u[j].begin \/ u[j].begin < u[i].begin
    OBVIOUS
  <2> QED
    BY ONLY <1>4, <2>1, <2>2
<1>6. \A k \in 1 .. n : \E i \in 1 .. n : place[i] = k
  <2>1. SUFFICES ASSUME NEW k \in 1 .. n, \A i \in 1 .. n : place[i] # k PROVE FALSE
    OBVIOUS
  <2>2. PICK S, T : /\ S = 1 .. n /\ IsFiniteSet(S) /\ Cardinality(S) = n
                    /\ T = (1 .. n) \ {k} /\ IsFiniteSet(T) /\ Cardinality(T) = n - 1
    BY <1>2, <1>12
  <2>3. place \in [S -> T] /\ Cardinality(T) < Cardinality(S)
    BY <1>0, <1>15, <2>1, <2>2
  <2>4. \E i, j \in S : i # j /\ place[i] = place[j]
    <3>1. IsFiniteSet(S) /\ IsFiniteSet(T) /\ Cardinality(T) < Cardinality(S) /\ place \in [S -> T]
      BY <2>2, <2>3
    <3> QED
      BY ONLY <3>1, FS_PigeonHole, Zenon
  <2>5. \E i, j \in 1 .. n : i # j /\ place[i] = place[j]
    BY <2>2, <2>4
  <2> QED
    BY <1>5, <2>5
<1>16. PICK at : at = [k \in DOMAIN u |->
          CHOOSE i \in DOMAIN u : Cardinality({j \in DOMAIN u : Precedes(u, j, i)}) + 1 = k]
  OBVIOUS
<1>7. SortedByBegin(u) = [k \in 1 .. n |-> u[at[k]]]
  <2>1. SortedByBegin(u) = [k \in DOMAIN u |-> u[CHOOSE i \in DOMAIN u :
               Cardinality({j \in DOMAIN u : Precedes(u, j, i)}) + 1 = k]]
    BY ONLY Zenon DEF SortedByBegin
  <2>2. \A k \in DOMAIN u :
           at[k] = CHOOSE i \in DOMAIN u : Cardinality({j \in DOMAIN u : Precedes(u, j, i)}) + 1 = k
    BY ONLY <1>16, Zenon
  <2>3. SortedByBegin(u) = [k \in DOMAIN u |-> u[at[k]]]
    BY ONLY <2>1, <2>2, Zenon
  <2> QED
    BY <2>3
<1>8. \A k \in 1 .. n : at[k] \in 1 .. n /\ place[at[k]] = k
  <2>1. \A k \in DOMAIN u : \E i \in DOMAIN u :
           Cardinality({j \in DOMAIN u : Precedes(u, j, i)}) + 1 = k
    <3>1. SUFFICES ASSUME NEW k \in 1 .. n
                   PROVE  \E i \in 1 .. n : Cardinality({j \in DOMAIN u : Precedes(u, j, i)}) + 1 = k
      OBVIOUS
    <3>2. PICK i \in 1 .. n : place[i] = k
      BY <1>6
    <3>3. {j \in DOMAIN u : Precedes(u, j, i)} = Lower(i) /\ Cardinality(Lower(i)) + 1 = k
      BY <1>0, <1>1, <3>2
    <3> QED
      BY ONLY <3>3, i \in 1 .. n, Zenon
  <2>2. ASSUME NEW k \in DOMAIN u
        PROVE  at[k] \in DOMAIN u /\ Cardinality({j \in DOMAIN u : Precedes(u, j, at[k])}) + 1 = k
    <3> DEFINE P(i) == Cardinality({j \in DOMAIN u : Precedes(u, j, i)}) + 1 = k
    <3>1. at[k] = CHOOSE i \in DOMAIN u : P(i)
      BY <1>16, Zenon
    <3>2. \E i \in DOMAIN u : P(i)
      BY <2>1
    <3> HIDE DEF P
    <3>3. at[k] \in DOMAIN u /\ P(at[k])
      BY ONLY <3>1, <3>2, Zenon
    <3> QED
      BY <3>3 DEF P
  <2> QED
    BY <1>0, <1>1, <2>2
<1>9. Entries(SortedByBegin(u)) = Entries(u)
  <2>1. \A i \in 1 .. n : \E k \in 1 .. n : at[k] = i
    <3>1. SUFFICES ASSUME NEW i \in 1 .. n PROVE at[place[i]] = i
      BY <1>15
    <3> QED
      BY <1>5, <1>8, <1>15
  <2>2. Entries(SortedByBegin(u)) = {u[at[k]] : k \in 1 .. n}
    BY <1>7 DEF Entries
  <2>3. Entries(u) = {u[i] : i \in 1 .. n}
    BY DEF Entries
  <2> QED
    BY ONLY <1>8, <2>1, <2>2, <2>3
<1>10. \A k, l \in 1 .. n : k < l => u[at[k]].begin < u[at[l]].begin
  <2>1. SUFFICES ASSUME NEW k \in 1 .. n, NEW l \in 1 .. n, k < l
                 PROVE  u[at[k]].begin < u[at[l]].begin
    OBVIOUS
  <2>2. at[k] \in 1 .. n /\ at[l] \in 1 .. n /\ place[at[k]] = k /\ place[at[l]] = l
    BY <1>8
  <2>3. u[at[k]].begin # u[at[l]].begin
    BY <2>1, <2>2
  <2>4. ~ (u[at[l]].begin < u[at[k]].begin)
    <3>1. SUFFICES ASSUME u[at[l]].begin < u[at[k]].begin PROVE FALSE
      OBVIOUS
    <3>2. place[at[l]] < place[at[k]]
      BY <1>4, <2>2, <3>1
    <3> QED
      BY <2>1, <2>2, <3>2
  <2> QED
    BY <2>2, <2>3, <2>4
<1> QED
  BY <1>7, <1>9, <1>10

\* What remains of idle range o when s pages from b are granted.
LeftOf(o, b, s) ==
    {r \in {RangeDesc(o.begin, b - o.begin, "idle")} : b > o.begin}
    \union {r \in {RangeDesc(b + s, EndOf(o) - b - s, "idle")} : b + s < EndOf(o)}

\* The ranges after the grant.
CutOut(T, o, b, s, f) == (T \ {o}) \union {RangeDesc(b, s, f)} \union LeftOf(o, b, s)

\* A grant within an idle range leaves no gap and no overlap.
LEMMA CutTiles ==
    ASSUME NEW m \in Nat, NEW T, Tiles(T, m), NEW o \in T, o.flag = "idle",
           NEW b \in Nat, NEW s \in Nat \ {0}, NEW f \in {"used", "reserve"},
           o.begin <= b, b + s <= EndOf(o)
    PROVE  Tiles(CutOut(T, o, b, s, f), m)
<1>1. PICK x, y, z : /\ x = RangeDesc(o.begin, b - o.begin, "idle")
                     /\ y = RangeDesc(b, s, f)
                     /\ z = RangeDesc(b + s, EndOf(o) - b - s, "idle")
  OBVIOUS
<1>2. PICK N : N = CutOut(T, o, b, s, f)
  OBVIOUS
<1>3. \A r : r \in N <=> \/ r \in T /\ r # o
                         \/ r = y
                         \/ r = x /\ b > o.begin
                         \/ r = z /\ b + s < EndOf(o)
  BY <1>1, <1>2 DEF CutOut, LeftOf
<1>4. /\ o \in Desc /\ o.begin \in Nat /\ EndOf(o) \in Nat
      /\ EndOf(o) <= m
  BY DEF Tiles, Desc, EndOf
<1>5. /\ y \in Desc /\ y.begin = b /\ EndOf(y) = b + s /\ y.flag = f /\ y.flag # "idle"
      /\ x.begin = o.begin /\ EndOf(x) = b /\ x.flag = "idle"
      /\ z.begin = b + s /\ EndOf(z) = EndOf(o) /\ z.flag = "idle"
      /\ b > o.begin => x \in Desc
      /\ b + s < EndOf(o) => z \in Desc
  BY <1>1, <1>4 DEF RangeDesc, EndOf, Desc
<1>6. \A r \in T : /\ r \in Desc /\ r.begin \in Nat /\ EndOf(r) \in Nat /\ r.begin < EndOf(r)
                   /\ r # o => EndOf(r) <= o.begin \/ EndOf(o) <= r.begin
  BY DEF Tiles, Desc, EndOf
<1>7. N \subseteq Desc
  BY <1>3, <1>5, <1>6
<1>8. ASSUME NEW r \in N, NEW q \in N, r # q PROVE EndOf(r) <= q.begin \/ EndOf(q) <= r.begin
  <2>1. ASSUME NEW g \in N, g \notin T \/ g = o
        PROVE  g.begin \in Nat /\ EndOf(g) \in Nat /\ o.begin <= g.begin /\ EndOf(g) <= EndOf(o)
    BY <1>3, <1>4, <1>5, <2>1
  <2>2. CASE (r \in T /\ r # o) /\ (q \in T /\ q # o)
    BY <1>8, <2>2 DEF Tiles
  <2>3. CASE (r \in T /\ r # o) /\ ~ (q \in T /\ q # o)
    BY <1>4, <1>6, <2>1, <2>3
  <2>4. CASE ~ (r \in T /\ r # o) /\ (q \in T /\ q # o)
    BY <1>4, <1>6, <2>1, <2>4
  <2>5. CASE ~ (r \in T /\ r # o) /\ ~ (q \in T /\ q # o)
    BY <1>3, <1>4, <1>5, <1>8, <2>5
  <2> QED
    BY <2>2, <2>3, <2>4, <2>5
<1>9. ASSUME NEW r \in N
      PROVE  \/ EndOf(r) = m
             \/ \E q \in N : q.begin = EndOf(r) /\ (r.flag # "idle" \/ q.flag # "idle")
  <2>1. ASSUME NEW g \in N, EndOf(g) = EndOf(o)
        PROVE  \/ EndOf(g) = m
               \/ \E q \in N : q.begin = EndOf(g) /\ (g.flag # "idle" \/ q.flag # "idle")
    <3>1. CASE EndOf(o) = m
      BY <2>1, <3>1
    <3>2. CASE EndOf(o) # m
      <4>1. PICK q \in T : q.begin = EndOf(o) /\ q.flag # "idle"
        BY <3>2 DEF Tiles
      <4>2. q # o
        BY <4>1
      <4> QED
        BY <1>3, <2>1, <4>1, <4>2
    <3> QED
      BY <3>1, <3>2
  <2>2. CASE r \in T /\ r # o
    <3>1. CASE EndOf(r) = m
      BY <3>1
    <3>2. CASE EndOf(r) # m
      <4>1. PICK q \in T : q.begin = EndOf(r) /\ (r.flag # "idle" \/ q.flag # "idle")
        BY <2>2, <3>2 DEF Tiles
      <4>2. CASE q # o
        BY <1>3, <4>1, <4>2
      <4>3. CASE q = o
        <5>1. r.flag # "idle" /\ EndOf(r) = o.begin
          BY <4>1, <4>3
        <5>2. CASE b > o.begin
          BY <1>3, <1>5, <5>1, <5>2
        <5>3. CASE ~ (b > o.begin)
          <6>1. b = o.begin
            BY <1>4, <5>3
          <6> QED
            BY <1>3, <1>5, <5>1, <6>1
        <5> QED
          BY <5>2, <5>3
      <4> QED
        BY <4>2, <4>3
    <3> QED
      BY <3>1, <3>2
  <2>3. CASE r = y
    <3>1. CASE b + s < EndOf(o)
      BY <1>3, <1>5, <2>3, <3>1
    <3>2. CASE ~ (b + s < EndOf(o))
      <4>1. EndOf(r) = EndOf(o)
        BY <1>4, <1>5, <2>3, <3>2
      <4> QED
        BY <2>1, <4>1
    <3> QED
      BY <3>1, <3>2
  <2>4. CASE r = x
    BY <1>3, <1>5, <2>4
  <2>5. CASE r = z
    BY <1>5, <2>1, <2>5
  <2> QED
    BY <1>3, <2>2, <2>3, <2>4, <2>5
<1>10. ASSUME NEW r \in N PROVE EndOf(r) <= m
  <2>1. \A g \in T : EndOf(g) <= m
    BY DEF Tiles
  <2> QED
    BY <1>3, <1>4, <1>5, <2>1
<1>11. \E r \in N : r.begin = 0
  <2>1. PICK r \in T : r.begin = 0
    BY DEF Tiles
  <2>2. CASE r # o
    BY <1>3, <2>1, <2>2
  <2>3. CASE r = o /\ b > o.begin
    BY <1>3, <1>5, <2>1, <2>3
  <2>4. CASE r = o /\ ~ (b > o.begin)
    <3>1. b = 0
      BY <1>4, <2>1, <2>4
    <3> QED
      BY <1>3, <1>5, <3>1
  <2> QED
    BY <2>2, <2>3, <2>4
<1>12. Tiles(N, m)
  BY <1>7, <1>8, <1>9, <1>10, <1>11 DEF Tiles
<1> QED
  BY <1>2, <1>12

\* Tables of up to two ranges, which are what is appended.
LEMMA ShortTables ==
    /\ <<>> \in Seq(Desc) /\ Len(<<>>) = 0
    /\ \A x \in Desc : <<x>> \in Seq(Desc) /\ Len(<<x>>) = 1 /\ <<x>>[1] = x
    /\ \A x, z \in Desc :
          <<x>> \o <<z>> \in Seq(Desc) /\ Len(<<x>> \o <<z>>) = 2
          /\ (<<x>> \o <<z>>)[1] = x /\ (<<x>> \o <<z>>)[2] = z
OBVIOUS

\* So does resoure_add_range() to the table, which grows by two at most.
LEMMA AddedTiles ==
    ASSUME NEW m \in Nat, NEW t, OrderedTable(t), Tiles(Entries(t), m),
           NEW b \in Nat, NEW s \in Nat \ {0}, NEW f \in {"used", "reserve"},
           NEW j \in DOMAIN t, Fits(t[j], b, s)
    PROVE  /\ OrderedTable(AddedTo(t, b, s, f))
           /\ Len(AddedTo(t, b, s, f)) <= Len(t) + 2
           /\ Tiles(Entries(AddedTo(t, b, s, f)), m)
           /\ {r \in Entries(AddedTo(t, b, s, f)) : r.flag # "idle"}
                 = {r \in Entries(t) : r.flag # "idle"} \union {RangeDesc(b, s, f)}
<1>1. PICK n \in Nat \ {0} : n = Len(t) /\ DOMAIN t = 1 .. n /\ t \in [1 .. n -> Desc]
  BY DEF OrderedTable
<1>2. PICK i \in 1 .. n : i = Min({k \in DOMAIN t : Fits(t[k], b, s)}) /\ Fits(t[i], b, s)
  <2>1. {k \in DOMAIN t : Fits(t[k], b, s)} \in SUBSET Nat /\ {k \in DOMAIN t : Fits(t[k], b, s)} # {}
    BY <1>1
  <2>2. Min({k \in DOMAIN t : Fits(t[k], b, s)}) \in {k \in DOMAIN t : Fits(t[k], b, s)}
    BY ONLY <2>1, MinIsMember
  <2> QED
    BY <1>1, <2>2
<1>3. PICK o \in Entries(t) : /\ o = t[i] /\ o.flag = "idle" /\ o.begin <= b /\ b + s <= EndOf(o)
                              /\ o \in Desc /\ o.begin \in Nat /\ EndOf(o) \in Nat
                              /\ o.size \in Nat
  <2>1. t[i] \in Desc /\ t[i] \in Entries(t)
    BY <1>1 DEF Entries
  <2>2. t[i].begin \in Nat /\ t[i].size \in Nat
    BY <2>1 DEF Desc
  <2>3. t[i].flag = "idle" /\ t[i].begin <= b /\ b + s <= t[i].begin + t[i].size
    BY <1>2, <2>2 DEF Fits
  <2> QED
    BY <2>1, <2>2, <2>3 DEF EndOf
<1>4. PICK x, y, z : /\ x = RangeDesc(o.begin, b - o.begin, "idle")
                     /\ y = RangeDesc(b, s, f)
                     /\ z = RangeDesc(b + s, o.begin + o.size - b - s, "idle")
                     /\ EndOf(o) = o.begin + o.size
  BY DEF EndOf
<1>5. PICK g, h : g = HoleBefore(o, b) /\ h = HoleBehind(o, b, s)
  OBVIOUS
<1>6. /\ b > o.begin => g = <<x>>
      /\ ~ (b > o.begin) => g = <<>>
      /\ b + s < EndOf(o) => h = <<z>>
      /\ ~ (b + s < EndOf(o)) => h = <<>>
  <2>1. (b > o.begin => g = <<x>>) /\ (~ (b > o.begin) => g = <<>>)
    BY ONLY <1>4, <1>5 DEF HoleBefore
  <2>2. h = IF b + s < o.begin + o.size
            THEN <<RangeDesc(b + s, o.begin + o.size - b - s, "idle")>> ELSE <<>>
    BY ONLY <1>5, Zenon DEF HoleBehind
  <2>3. PICK e : e = o.begin + o.size
    OBVIOUS
  <2>4. (b + s < e => h = <<z>>) /\ (~ (b + s < e) => h = <<>>)
    BY ONLY <1>4, <2>2, <2>3
  <2> QED
    BY ONLY <1>4, <2>1, <2>3, <2>4, Zenon
<1>7. PICK u : u = [t EXCEPT ![i] = y] \o g \o h
  OBVIOUS
<1>8. AddedTo(t, b, s, f) = SortedByBegin(u)
  <2>1. AddedTo(t, b, s, f) = SortedByBegin([t EXCEPT ![i] = RangeDesc(b, s, f)]
                                              \o HoleBefore(t[i], b) \o HoleBehind(t[i], b, s))
    BY <1>2, Zenon DEF AddedTo
  <2> QED
    BY ONLY <1>3, <1>4, <1>5, <1>7, <2>1, Zenon
<1>9. y \in Desc /\ (b > o.begin => x \in Desc) /\ (b + s < EndOf(o) => z \in Desc)
  BY <1>3, <1>4 DEF RangeDesc, Desc
<1>10. PICK N : N = CutOut(Entries(t), o, b, s, f)
  OBVIOUS
<1>11. \A r : r \in N <=> \/ r \in Entries(t) /\ r # o
                          \/ r = y
                          \/ r = x /\ b > o.begin
                          \/ r = z /\ b + s < EndOf(o)
  <2>1. z = RangeDesc(b + s, EndOf(o) - b - s, "idle")
    BY <1>4, <1>3
  <2> QED
    BY <1>4, <1>10, <2>1 DEF CutOut, LeftOf
<1>12. PICK w \in Seq(Desc) : w = [t EXCEPT ![i] = y] /\ w \in [1 .. n -> Desc] /\ Len(w) = n
  <2>1. [t EXCEPT ![i] = y] \in [1 .. n -> Desc]
    BY <1>1, <1>9
  <2>2. t \in Seq(Desc) /\ i \in 1 .. Len(t) /\ y \in Desc
    BY <1>1, <1>9 DEF OrderedTable
  <2>3. [t EXCEPT ![i] = y] \in Seq(Desc) /\ Len([t EXCEPT ![i] = y]) = n
    BY ONLY <1>1, <2>2, ExceptSeq
  <2> QED
    BY <2>1, <2>3
<1>13. \A k \in 1 .. n : (k = i => w[k] = y) /\ (k # i => w[k] = t[k])
  BY <1>1, <1>12
<1>14. \A k, l \in 1 .. n : k # l => t[k].begin # t[l].begin
  <2>1. \A k \in 1 .. n : t[k].begin \in Nat
    BY <1>1 DEF Desc
  <2> QED
    BY <1>1, <2>1 DEF OrderedTable
<1>15. \A k \in 1 .. n : k # i => t[k] \in Entries(t) /\ t[k] # o
  BY <1>1, <1>3, <1>14 DEF Entries
<1>16. \A k \in 1 .. n : k # i =>
          /\ t[k].begin # y.begin /\ t[k].begin # x.begin
          /\ b + s < EndOf(o) => t[k].begin # z.begin
  <2>1. SUFFICES ASSUME NEW k \in 1 .. n, k # i
                 PROVE  /\ t[k].begin # y.begin /\ t[k].begin # x.begin
                        /\ b + s < EndOf(o) => t[k].begin # z.begin
    OBVIOUS
  <2>2. EndOf(t[k]) <= o.begin \/ EndOf(o) <= t[k].begin
    BY <1>15, <2>1 DEF Tiles
  <2>3. t[k] \in Desc /\ t[k].begin \in Nat /\ EndOf(t[k]) \in Nat /\ t[k].begin < EndOf(t[k])
    <3>1. t[k] \in Desc
      BY ONLY <1>1, k \in 1 .. n
    <3> QED
      BY ONLY <3>1 DEF Desc, EndOf
  <2>4. y.begin = b /\ x.begin = o.begin /\ z.begin = b + s
    BY <1>4 DEF RangeDesc
  <2>5. PICK p \in Nat, q \in Nat, e \in Nat, o0 \in Nat :
           p = t[k].begin /\ q = EndOf(t[k]) /\ e = EndOf(o) /\ o0 = o.begin
    BY <1>3, <2>3 DEF Desc, EndOf
  <2>6. o0 <= b /\ b + s <= e /\ (q <= o0 \/ e <= p) /\ p < q
    BY <1>3, <2>2, <2>3, <2>5
  <2>7. p # b /\ p # o0 /\ (b + s < e => p # b + s)
    BY ONLY <2>5, <2>6, b \in Nat, s \in Nat \ {0}
  <2> QED
    BY ONLY <2>4, <2>5, <2>7, Zenon
<1>17. \A k \in 1 .. n, l \in 1 .. n : k # l => w[k].begin # w[l].begin
  BY <1>13, <1>14, <1>16
<1>18. y.begin # x.begin \/ ~ (b > o.begin)
  BY <1>3, <1>4 DEF RangeDesc
<1>19. b + s < EndOf(o) => z.begin # y.begin /\ z.begin # x.begin
  BY <1>3, <1>4 DEF RangeDesc
<1>20. u = w \o g \o h
  BY <1>7, <1>12
<1>21. PICK d \in Seq(Desc) :
          /\ u = w \o d /\ Len(d) <= 2
          /\ \A k \in 1 .. Len(d) : (d[k] = x /\ b > o.begin) \/ (d[k] = z /\ b + s < EndOf(o))
          /\ \A k, l \in 1 .. Len(d) : k # l => d[k].begin # d[l].begin
          /\ b > o.begin => \E k \in 1 .. Len(d) : d[k] = x
          /\ b + s < EndOf(o) => \E k \in 1 .. Len(d) : d[k] = z
  <2>1. \A v \in Seq(Desc) : v \o <<>> = v
    BY ConcatEmptySeq
  <2>2. CASE b > o.begin /\ b + s < EndOf(o)
    <3>0. PICK v \in Seq(Desc) : v = <<x>> \o <<z>>
      BY ONLY <1>9, <2>2, ShortTables
    <3>1. v \in Seq(Desc) /\ v = <<x>> \o <<z>> /\ Len(v) = 2 /\ v[1] = x /\ v[2] = z
      BY ONLY <1>9, <2>2, <3>0, ShortTables
    <3>2. u = w \o v
      <4>1. <<x>> \in Seq(Desc) /\ <<z>> \in Seq(Desc)
        BY <1>9, <2>2
      <4>2. u = (w \o <<x>>) \o <<z>>
        BY <1>6, <1>20, <2>2, Zenon
      <4> QED
        BY ONLY <3>1, <4>1, <4>2, w \in Seq(Desc), ConcatAssociative
    <3>3. \A k \in 1 .. Len(v) : k = 1 \/ k = 2
      BY <3>1
    <3>4. 1 \in 1 .. Len(v) /\ 2 \in 1 .. Len(v)
      BY <3>1
    <3>5. z.begin # x.begin
      BY <1>19, <2>2
    <3> WITNESS v \in Seq(Desc)
    <3> QED
      BY ONLY <2>2, <3>1, <3>2, <3>3, <3>4, <3>5
  <2>3. CASE b > o.begin /\ ~ (b + s < EndOf(o))
    <3>1. PICK v \in Seq(Desc) : v = <<x>> /\ Len(v) = 1 /\ v[1] = x
      BY <1>9, <2>3, ShortTables, Zenon
    <3>2. u = w \o v
      <4>1. u = (w \o v) \o <<>> /\ w \o v \in Seq(Desc)
        BY <1>6, <1>20, <2>3, <3>1, ConcatProperties
      <4> QED
        BY ONLY <2>1, <4>1, Zenon
    <3>3. \A k \in 1 .. Len(v) : k = 1
      BY <3>1
    <3>4. 1 \in 1 .. Len(v)
      BY <3>1
    <3>5. \A k \in 1 .. Len(v) : v[k] = x
      BY <3>1, <3>3, Zenon
    <3>6. Len(v) <= 2 /\ \A k, l \in 1 .. Len(v) : k = l
      BY <3>1, <3>3
    <3> WITNESS v \in Seq(Desc)
    <3> QED
      BY ONLY <2>3, <3>1, <3>2, <3>4, <3>5, <3>6, Zenon
  <2>4. CASE ~ (b > o.begin) /\ b + s < EndOf(o)
    <3>1. PICK v \in Seq(Desc) : v = <<z>> /\ Len(v) = 1 /\ v[1] = z
      BY <1>9, <2>4, ShortTables, Zenon
    <3>2. u = w \o v
      <4>1. u = (w \o <<>>) \o v
        BY <1>6, <1>20, <2>4, <3>1, Zenon
      <4> QED
        BY ONLY <2>1, <4>1, w \in Seq(Desc), Zenon
    <3>3. \A k \in 1 .. Len(v) : k = 1
      BY <3>1
    <3>4. 1 \in 1 .. Len(v)
      BY <3>1
    <3> WITNESS v \in Seq(Desc)
    <3> QED
      BY ONLY <2>4, <3>1, <3>2, <3>3, <3>4
  <2>5. CASE ~ (b > o.begin) /\ ~ (b + s < EndOf(o))
    <3>1. PICK v \in Seq(Desc) : v = <<>> /\ Len(v) = 0
      BY ShortTables, Zenon
    <3>2. u = w \o v
      <4>1. u = (w \o v) \o v
        BY <1>6, <1>20, <2>5, <3>1, Zenon
      <4> QED
        BY ONLY <2>1, <3>1, <4>1, w \in Seq(Desc), Zenon
    <3>3. \A k \in 1 .. Len(v) : FALSE
      BY <3>1
    <3> WITNESS v \in Seq(Desc)
    <3> QED
      BY ONLY <2>5, <3>1, <3>2, <3>3
  <2> QED
    BY <2>2, <2>3, <2>4, <2>5
<1>22. PICK c \in Nat : c = Len(d) /\ c <= 2
  BY <1>21
<1>23. /\ u \in Seq(Desc) /\ Len(u) = n + c /\ DOMAIN u = 1 .. n + c
       /\ \A k \in 1 .. n : k \in 1 .. n + c /\ u[k] = w[k]
       /\ \A k \in 1 .. c : n + k \in 1 .. n + c /\ u[n + k] = d[k]
       /\ \A k \in 1 .. n + c : k \notin 1 .. n => k - n \in 1 .. c /\ u[k] = d[k - n]
  <2>1. /\ u \in Seq(Desc) /\ Len(u) = n + c
        /\ \A k \in 1 .. n + c : u[k] = IF k <= n THEN w[k] ELSE d[k - n]
    <3>1. /\ w \o d \in Seq(Desc) /\ Len(w \o d) = Len(w) + Len(d)
          /\ \A k \in 1 .. Len(w) + Len(d) : (w \o d)[k] = IF k <= Len(w) THEN w[k] ELSE d[k - Len(w)]
      BY ONLY w \in Seq(Desc), d \in Seq(Desc), ConcatProperties
    <3> QED
      BY <1>12, <1>21, <1>22, <3>1
  <2>2. \A k \in 1 .. c : n + k - n = k /\ ~ (n + k <= n) /\ n + k \in 1 .. n + c
    OBVIOUS
  <2> QED
    BY <2>1, <2>2
<1>24. \A r : r \in N <=> \E k \in 1 .. n + c : u[k] = r
  <2>1. ASSUME NEW k \in 1 .. n + c PROVE u[k] \in N
    <3>1. CASE k \in 1 .. n
      BY <1>11, <1>13, <1>15, <1>23, <3>1
    <3>2. CASE k \notin 1 .. n
      <4>1. PICK p \in 1 .. c : u[k] = d[p]
        BY ONLY <1>23, <2>1, <3>2, Zenon
      <4>2. (d[p] = x /\ b > o.begin) \/ (d[p] = z /\ b + s < EndOf(o))
        BY <1>21, <1>22, <4>1
      <4> QED
        BY ONLY <1>11, <4>1, <4>2, Zenon
    <3> QED
      BY <3>1, <3>2
  <2>2. ASSUME NEW r \in N PROVE \E k \in 1 .. n + c : u[k] = r
    <3>0. \/ r \in Entries(t) /\ r # o
          \/ r = y
          \/ (r = x /\ b > o.begin) \/ (r = z /\ b + s < EndOf(o))
      BY <1>11, <2>2
    <3>1. CASE r \in Entries(t) /\ r # o
      <4>1. PICK k \in 1 .. n : r = t[k]
        BY <1>1, <3>1 DEF Entries
      <4>2. k # i
        BY <1>3, <3>1, <4>1
      <4> QED
        BY <1>13, <1>23, <4>1, <4>2
    <3>2. CASE r = y
      BY <1>13, <1>23, <3>2
    <3>3. CASE (r = x /\ b > o.begin) \/ (r = z /\ b + s < EndOf(o))
      <4>1. PICK k \in 1 .. c : d[k] = r
        BY <1>21, <1>22, <3>3
      <4> QED
        BY <1>23, <4>1
    <3> QED
      BY <3>0, <3>1, <3>2, <3>3
  <2> QED
    BY <2>1, <2>2
<1>25. \A k \in 1 .. n + c : u[k].begin \in Nat
  <2>1. \A k \in 1 .. n + c : u[k] \in Desc
    BY <1>23
  <2> QED
    BY <2>1 DEF Desc
<1>26. ASSUME NEW k \in 1 .. n + c, NEW l \in 1 .. n + c, k # l
       PROVE  u[k].begin # u[l].begin
  <2>1. ASSUME NEW p \in 1 .. n, NEW q \in 1 .. c PROVE w[p].begin # d[q].begin
    <3>1. \/ d[q] = x /\ b > o.begin
          \/ d[q] = z /\ b + s < EndOf(o)
      BY <1>21, <1>22
    <3>2. CASE p = i
      BY <1>13, <1>18, <1>19, <3>1, <3>2
    <3>3. CASE p # i
      BY <1>13, <1>16, <3>1, <3>3
    <3> QED
      BY <3>2, <3>3
  <2>2. CASE k \in 1 .. n /\ l \in 1 .. n
    BY <1>17, <1>23, <1>26, <2>2
  <2>3. CASE k \in 1 .. n /\ l \notin 1 .. n
    <3>1. PICK q \in 1 .. c : u[l] = d[q]
      BY ONLY <1>23, <1>26, <2>3, Zenon
    <3>2. w[k].begin # d[q].begin /\ u[k] = w[k]
      BY ONLY <1>23, <2>1, <2>3, <3>1, Zenon
    <3> QED
      BY ONLY <3>1, <3>2, Zenon
  <2>4. CASE k \notin 1 .. n /\ l \in 1 .. n
    <3>1. PICK q \in 1 .. c : u[k] = d[q]
      BY ONLY <1>23, <1>26, <2>4, Zenon
    <3>2. w[l].begin # d[q].begin /\ u[l] = w[l]
      BY ONLY <1>23, <2>1, <2>4, <3>1, Zenon
    <3> QED
      BY ONLY <3>1, <3>2, Zenon
  <2>5. CASE k \notin 1 .. n /\ l \notin 1 .. n
    <3>1. PICK p \in 1 .. c : p = k - n /\ u[k] = d[p]
      BY <1>23, <2>5
    <3>2. PICK q \in 1 .. c : q = l - n /\ u[l] = d[q]
      BY <1>23, <2>5
    <3>3. p # q
      BY <1>26, <3>1, <3>2
    <3>4. d[p].begin # d[q].begin
      BY <1>21, <1>22, <3>3, Zenon
    <3> QED
      BY ONLY <3>1, <3>2, <3>4, Zenon
  <2> QED
    BY <2>2, <2>3, <2>4, <2>5
<1>27. PICK v : v = AddedTo(t, b, s, f)
  OBVIOUS
<1>28. /\ DOMAIN v = 1 .. n + c /\ Entries(v) = Entries(u)
       /\ \A k, l \in 1 .. n + c : k < l => v[k].begin < v[l].begin
  <2>1. n + c \in Nat /\ DOMAIN u = 1 .. n + c
    BY <1>23
  <2> QED
    BY ONLY <1>8, <1>25, <1>26, <1>27, <2>1, SortedByBeginOrders
<1>29. Entries(v) = N
  <2>1. Entries(u) = {u[k] : k \in 1 .. n + c}
    BY ONLY <1>23, Zenon DEF Entries
  <2>2. \A r : r \in {u[k] : k \in 1 .. n + c} <=> r \in N
    BY ONLY <1>24, Zenon
  <2> QED
    BY ONLY <1>28, <2>1, <2>2, Zenon
<1>31. Tiles(N, m)
  BY <1>3, <1>10, CutTiles
<1>30. v \in Seq(Desc) /\ Len(v) = n + c
  <2>1. \A k \in 1 .. n + c : v[k] \in Desc
    <3>1. N \subseteq Desc
      BY <1>31 DEF Tiles
    <3> QED
      BY <1>28, <1>29, <3>1 DEF Entries
  <2>2. v = [k \in 1 .. n + c |-> v[k]]
    BY <1>8, <1>23, <1>27, <1>28 DEF SortedByBegin
  <2>3. v \in [1 .. n + c -> Desc] /\ n + c \in Nat
    BY <1>23, <2>1, <2>2
  <2> QED
    BY ONLY <2>3
<1>32. {r \in N : r.flag # "idle"} = {r \in Entries(t) : r.flag # "idle"} \union {RangeDesc(b, s, f)}
  <2>1. x.flag = "idle" /\ z.flag = "idle" /\ y.flag = f /\ f # "idle"
    BY <1>4 DEF RangeDesc
  <2> QED
    BY <1>3, <1>4, <1>11, <2>1
<1> QED
  BY <1>1, <1>22, <1>27, <1>28, <1>29, <1>30, <1>31, <1>32 DEF OrderedTable

\* The whole RAM is one idle range.
LEMMA RangesStart == RangesInit => RangesInv
<1>1. SUFFICES ASSUME RangesInit PROVE RangesInv
  OBVIOUS
<1>2. PICK r : r = RangeDesc(0, ramSize, "idle")
  OBVIOUS
<1>3. ramSize \in RamSizes /\ ramSize \in Nat \ {0} /\ rd = <<r>> /\ grants = {}
  BY <1>1, <1>2, RangesAssumption DEF RangesInit
<1>4. r \in Desc /\ r.begin = 0 /\ EndOf(r) = ramSize /\ r.flag = "idle"
  BY <1>2, <1>3 DEF RangeDesc, EndOf, Desc
<1>5. Entries(rd) = {r}
  BY <1>3 DEF Entries
<1>6. OrderedTable(rd) /\ Len(rd) <= MaxRanges
  BY <1>3, <1>4, RangesAssumption DEF OrderedTable
<1>7. Tiles({r}, ramSize)
  BY <1>3, <1>4 DEF Tiles
<1> QED
  BY <1>3, <1>4, <1>5, <1>6, <1>7 DEF RangesInv

\* A call of resoure_add_range(), granted or refused.
LEMMA ResoureAddRangeStep ==
    ASSUME RangesInv, NEW b \in Nat, NEW s \in Nat \ {0}, NEW f \in {"used", "reserve"},
           ResoureAddRange(b, s, f), UNCHANGED ramSize
    PROVE  RangesInv'
<1>1. CASE AddRangeResult(rd, b, s) = 0
  <2>1. rd' = AddedTo(rd, b, s, f) /\ grants' = grants \union {RangeDesc(b, s, f)}
    BY <1>1 DEF ResoureAddRange
  <2>2. ~ TableFull(rd) /\ \E i \in 1 .. Len(rd) : Fits(rd[i], b, s)
    BY <1>1 DEF AddRangeResult
  <2>3. PICK i \in DOMAIN rd : Fits(rd[i], b, s)
    BY <2>2 DEF RangesInv, OrderedTable
  <2>4. ramSize \in Nat
    BY RangesAssumption DEF RangesInv
  <2>5. /\ OrderedTable(AddedTo(rd, b, s, f))
        /\ Len(AddedTo(rd, b, s, f)) <= Len(rd) + 2
        /\ Tiles(Entries(AddedTo(rd, b, s, f)), ramSize)
        /\ {r \in Entries(AddedTo(rd, b, s, f)) : r.flag # "idle"}
              = {r \in Entries(rd) : r.flag # "idle"} \union {RangeDesc(b, s, f)}
    BY <2>3, <2>4, AddedTiles DEF RangesInv
  <2>6. Len(rd) + 2 <= MaxRanges /\ Len(rd) \in Nat /\ MaxRanges \in Nat
    BY <2>2, RangesAssumption DEF TableFull, RangesInv, OrderedTable
  <2>7. Len(rd') <= MaxRanges
    BY <2>1, <2>5, <2>6 DEF OrderedTable
  <2>8. OrderedTable(rd') /\ Tiles(Entries(rd'), ramSize')
    BY <2>1, <2>5
  <2>9. {r \in Entries(rd') : r.flag # "idle"} = grants'
    <3>1. grants = {r \in Entries(rd) : r.flag # "idle"}
      BY DEF RangesInv
    <3> QED
      BY <2>1, <2>5, <3>1
  <2>10. ramSize' \in RamSizes
    BY DEF RangesInv
  <2> QED
    BY <2>7, <2>8, <2>9, <2>10 DEF RangesInv
<1>2. CASE AddRangeResult(rd, b, s) # 0
  BY <1>2 DEF ResoureAddRange, RangesInv, OrderedTable, Tiles, Entries
<1> QED
  BY <1>1, <1>2

\* Every step keeps the invariant.
LEMMA RangesStep == RangesInv /\ [RangesNext]_rangeVars => RangesInv'
<1>1. SUFFICES ASSUME RangesInv, [RangesNext]_rangeVars PROVE RangesInv'
  OBVIOUS
<1>2. CASE MemInitSystem
  <2>1. PICK e \in SystemEnds : AddAsserted(0, e + 1, "used", "bios")
    BY <1>2 DEF MemInitSystem
  <2>2. 0 \in Nat /\ e + 1 \in Nat \ {0}
    BY RangesAssumption
  <2> QED
    BY <1>1, <2>1, <2>2, ResoureAddRangeStep DEF AddAsserted
<1>3. CASE MemInitBios
  <2>1. AddAsserted(BiosBegin, BiosSize, "reserve", "pagelist")
    BY <1>3 DEF MemInitBios
  <2> QED
    BY <1>1, <2>1, RangesAssumption, ResoureAddRangeStep DEF AddAsserted
<1>4. CASE MemInitPageList
  <2>1. AddAsserted(ExtentRam, PageListSize, "used", "online")
    BY <1>4 DEF MemInitPageList
  <2>2. PageListSize \in Nat \ {0}
    BY <1>1, RangesAssumption DEF PageListSize, RangesInv
  <2> QED
    BY <1>1, <2>1, <2>2, RangesAssumption, ResoureAddRangeStep DEF AddAsserted
<1>5. CASE LaterGrant
  <2>1. PICK b \in 0 .. ramSize, s \in 1 .. 3 : ResoureAddRange(b, s, "used") /\ UNCHANGED ramSize
    BY <1>5 DEF LaterGrant
  <2>2. b \in Nat /\ s \in Nat \ {0}
    BY <1>1, RangesAssumption DEF RangesInv
  <2> QED
    BY <1>1, <2>1, <2>2, ResoureAddRangeStep
<1>6. CASE MemInitOnline \/ UNCHANGED rangeVars
  <2>1. UNCHANGED <<rd, ramSize, grants>>
    BY <1>6 DEF MemInitOnline, rangeVars
  <2> QED
    BY <1>1, <2>1 DEF RangesInv, OrderedTable, Tiles, Entries
<1> QED
  BY <1>1, <1>2, <1>3, <1>4, <1>5, <1>6 DEF RangesNext

\* What tiles and is in order follows one upon the other.
LEMMA InvTile == RangesInv => RangesTile
<1>1. SUFFICES ASSUME RangesInv PROVE RangesTile
  OBVIOUS
<1>2. PICK n \in Nat \ {0} : n = Len(rd) /\ DOMAIN rd = 1 .. n /\ n <= MaxRanges
  BY <1>1 DEF RangesInv, OrderedTable
<1>3. \A i \in 1 .. n : rd[i] \in Entries(rd) /\ rd[i] \in Desc
  BY <1>1, <1>2 DEF RangesInv, Tiles, Entries
<1>4. \A i \in 1 .. n : /\ rd[i].begin \in Nat /\ rd[i].size \in Nat \ {0}
                        /\ EndOf(rd[i]) = rd[i].begin + rd[i].size /\ EndOf(rd[i]) \in Nat
  BY <1>3 DEF Desc, EndOf
<1>5. \A i, j \in 1 .. n : i < j => rd[i].begin < rd[j].begin
  BY <1>1, <1>2 DEF RangesInv, OrderedTable
<1>6. ASSUME NEW i \in 1 .. n, NEW j \in 1 .. n, i < j PROVE EndOf(rd[i]) <= rd[j].begin
  <2>1. rd[i] # rd[j] /\ rd[i].begin < rd[j].begin
    BY <1>4, <1>5, <1>6
  <2>2. EndOf(rd[i]) <= rd[j].begin \/ EndOf(rd[j]) <= rd[i].begin
    BY <1>1, <1>3, <2>1 DEF RangesInv, Tiles
  <2> QED
    BY <1>4, <2>1, <2>2
<1>7. ASSUME NEW i \in 1 .. n, i # n PROVE EndOf(rd[i]) = rd[i + 1].begin
  <2>1. i + 1 \in 1 .. n
    BY <1>7
  <2>2. EndOf(rd[i]) <= rd[i + 1].begin
    BY <1>6, <2>1
  <2>3. EndOf(rd[i + 1]) <= ramSize /\ ramSize \in Nat
    BY <1>1, <1>3, <2>1, RangesAssumption DEF RangesInv, Tiles
  <2>4. EndOf(rd[i]) # ramSize
    BY <1>4, <2>1, <2>2, <2>3
  <2>5. PICK q \in Entries(rd) : q.begin = EndOf(rd[i])
    BY <1>1, <1>3, <2>4 DEF RangesInv, Tiles
  <2>6. PICK k \in 1 .. n : rd[k].begin = EndOf(rd[i])
    BY <1>2, <2>5 DEF Entries
  <2>7. k > i
    <3>1. rd[i].begin < rd[k].begin
      BY <1>4, <2>6
    <3> QED
      BY <1>4, <1>5, <3>1
  <2>8. k = i + 1 \/ rd[i + 1].begin < rd[k].begin
    BY <1>5, <2>1, <2>7
  <2> QED
    BY <1>4, <2>1, <2>2, <2>6, <2>8
<1>8. EndOf(rd[n]) = ramSize
  <2>1. SUFFICES ASSUME EndOf(rd[n]) # ramSize PROVE FALSE
    OBVIOUS
  <2>2. n \in 1 .. n
    OBVIOUS
  <2>3. PICK q \in Entries(rd) : q.begin = EndOf(rd[n])
    BY <1>1, <1>3, <2>1, <2>2 DEF RangesInv, Tiles
  <2>4. PICK k \in 1 .. n : rd[k].begin = EndOf(rd[n])
    BY <1>2, <2>3 DEF Entries
  <2>5. k = n \/ rd[k].begin < rd[n].begin
    BY <1>5, <2>2
  <2> QED
    BY <1>4, <2>2, <2>4, <2>5
<1>9. rd[1].begin = 0
  <2>1. PICK q \in Entries(rd) : q.begin = 0
    BY <1>1 DEF RangesInv, Tiles
  <2>2. PICK k \in 1 .. n : rd[k].begin = 0
    BY <1>2, <2>1 DEF Entries
  <2>3. 1 \in 1 .. n /\ (k = 1 \/ rd[1].begin < rd[k].begin)
    BY <1>5
  <2> QED
    BY <1>4, <2>2, <2>3
<1>10. {rd[i] : i \in {j \in 1 .. Len(rd) : rd[j].flag # "idle"}} = grants
  <2>1. grants = {r \in Entries(rd) : r.flag # "idle"}
    BY <1>1 DEF RangesInv
  <2> QED
    BY <1>2, <2>1 DEF Entries
<1> QED
  BY <1>2, <1>4, <1>7, <1>8, <1>9, <1>10 DEF RangesTile

\* Where no idle range holds the request, the range that holds its first page
\* is granted, or the one behind it is, since no two idle ones touch.
LEMMA InvRefused == RangesInv => RefusedForCause
<1>1. SUFFICES ASSUME RangesInv, NEW b \in 0 .. ramSize, NEW s \in 1 .. 3,
                      AddRangeResult(rd, b, s) = -1, b + s <= ramSize
               PROVE  \E g \in grants : g.begin < b + s /\ b < g.begin + g.size
  BY RangesAssumption DEF RefusedForCause, RangesInv
<1>2. PICK n \in Nat \ {0} : n = Len(rd) /\ DOMAIN rd = 1 .. n /\ ramSize \in Nat
  <2>1. ramSize \in Nat
    BY <1>1, RangesAssumption DEF RangesInv
  <2>2. rd \in Seq(Desc) /\ Len(rd) # 0
    BY <1>1 DEF RangesInv, OrderedTable
  <2>3. Len(rd) \in Nat \ {0} /\ DOMAIN rd = 1 .. Len(rd)
    BY ONLY <2>2
  <2> QED
    BY <2>1, <2>3
<1>3. RangesTile
  BY <1>1, InvTile
<1>4. \A i \in 1 .. n : /\ rd[i] \in Entries(rd) /\ rd[i].begin \in Nat /\ rd[i].size \in Nat \ {0}
                        /\ EndOf(rd[i]) = rd[i].begin + rd[i].size /\ EndOf(rd[i]) \in Nat
  <2>1. \A i \in 1 .. n : rd[i] \in Entries(rd) /\ rd[i] \in Desc
    BY <1>1, <1>2 DEF RangesInv, Tiles, Entries
  <2> QED
    BY <2>1 DEF Desc, EndOf
<1>5. /\ \A i \in 1 .. n : i # n => EndOf(rd[i]) = rd[i + 1].begin
      /\ EndOf(rd[n]) = ramSize /\ rd[1].begin = 0
  <2>1. /\ \A i \in 1 .. n :
              rd[i].begin + rd[i].size = IF i = n THEN ramSize ELSE rd[i + 1].begin
        /\ rd[1].begin = 0
    BY <1>2, <1>3 DEF RangesTile
  <2>2. n \in 1 .. n
    OBVIOUS
  <2> QED
    BY <1>4, <2>1, <2>2
<1>6. PICK i \in 1 .. n : b < EndOf(rd[i]) /\ rd[i].begin <= b
  <2>1. n \in {k \in 1 .. n : b < EndOf(rd[k])}
    BY <1>1, <1>2, <1>5
  <2>2. PICK i \in {k \in 1 .. n : b < EndOf(rd[k])} :
           \A k \in {k \in 1 .. n : b < EndOf(rd[k])} : i <= k
    <3>1. {k \in 1 .. n : b < EndOf(rd[k])} \subseteq Nat
      OBVIOUS
    <3> QED
      BY ONLY <2>1, <3>1, LeastElement
  <2>3. CASE i = 1
    BY <1>5, <2>2, <2>3
  <2>4. CASE i # 1
    <3>1. i - 1 \in 1 .. n /\ i - 1 # n /\ (i - 1) + 1 = i
      BY <2>2, <2>4
    <3>2. ~ (b < EndOf(rd[i - 1]))
      BY <2>2, <3>1
    <3>3. EndOf(rd[i - 1]) = rd[i].begin
      BY <1>5, <3>1
    <3> QED
      BY <1>4, <2>2, <3>1, <3>2, <3>3
  <2> QED
    BY <2>3, <2>4
<1>7. \A k \in 1 .. n : rd[k].flag # "idle" => rd[k] \in grants
  BY <1>1, <1>4 DEF RangesInv
<1>8. CASE rd[i].flag # "idle"
  <2>1. rd[i] \in grants /\ rd[i].begin < b + s /\ b < rd[i].begin + rd[i].size
    BY <1>4, <1>6, <1>7, <1>8
  <2> QED
    BY <2>1
<1>9. CASE rd[i].flag = "idle"
  <2>1. ~ Fits(rd[i], b, s)
    BY <1>1, <1>2 DEF AddRangeResult
  <2>2. EndOf(rd[i]) < b + s
    BY <1>2, <1>4, <1>6, <1>9, <2>1 DEF Fits
  <2>3. EndOf(rd[i]) # ramSize
    BY <1>1, <1>2, <1>4, <2>2
  <2>4. PICK q \in Entries(rd) : q.begin = EndOf(rd[i]) /\ q.flag # "idle"
    BY <1>1, <1>4, <1>9, <2>3 DEF RangesInv, Tiles
  <2>5. PICK k \in 1 .. n : q = rd[k]
    BY <1>2, <2>4 DEF Entries
  <2>6. rd[k] \in grants /\ rd[k].begin < b + s /\ b < rd[k].begin + rd[k].size
    BY <1>2, <1>4, <1>6, <1>7, <2>2, <2>4, <2>5
  <2> QED
    BY <2>6
<1> QED
  BY <1>8, <1>9

\* For RAM of any size and tables of any length: whatever is granted or
\* refused, the table is the RAM, in order, without gap or overlap, and what is
\* not idle is what was granted.
THEOREM RangesTileHolds == RangesSpec => []RangesTile
BY RangesStart, RangesStep, InvTile, PTL DEF RangesSpec

\* resoure_add_range() returns -1 only where the request meets something
\* granted or the end of the RAM: no idle memory is hidden by the way the table
\* has been cut.
THEOREM RefusedForCauseHolds == RangesSpec => []RefusedForCause
BY RangesStart, RangesStep, InvRefused, PTL DEF RangesSpec

-----------------------------------------------------------------------------
(* The page allocator.                                                     *)

\* There is a function that doubles from one number to the next: PagesOf is
\* one. Found by induction over the bound of its domain.
LEMMA PowersExist ==
    \E f : f = [k \in Nat |-> IF k = 0 THEN 1 ELSE 2 * f[k - 1]]
<1> DEFINE Powers(n, g) ==
        g \in [0 .. n -> Nat] /\ g[0] = 1 /\ \A k \in 0 .. n - 1 : g[k + 1] = 2 * g[k]
<1>1. \A n \in Nat : \E g : Powers(n, g)
  <2> DEFINE S == {n \in Nat : \E g : Powers(n, g)}
  <2>1. 0 \in S
    <3>1. Powers(0, [k \in 0 .. 0 |-> 1])
      OBVIOUS
    <3> QED
      BY <3>1
  <2>2. ASSUME NEW n \in Nat, n \in S PROVE n + 1 \in S
    <3>1. PICK g : Powers(n, g)
      BY <2>2
    <3>2. PICK h : h = [k \in 0 .. n + 1 |-> IF k = n + 1 THEN 2 * g[n] ELSE g[k]]
      OBVIOUS
    <3>3. \A k \in 0 .. n + 1 : h[k] \in Nat
      <4>1. SUFFICES ASSUME NEW k \in 0 .. n + 1 PROVE h[k] \in Nat
        OBVIOUS
      <4> QED
        BY <3>1, <3>2
    <3>4. \A k \in 0 .. n : h[k + 1] = 2 * h[k]
      <4>1. SUFFICES ASSUME NEW k \in 0 .. n PROVE h[k + 1] = 2 * h[k]
        OBVIOUS
      <4>2. CASE k = n
        BY <3>1, <3>2, <4>2
      <4>3. CASE k # n
        BY <3>1, <3>2, <4>3
      <4> QED
        BY <4>2, <4>3
    <3>5. n + 1 - 1 = n
      OBVIOUS
    <3>6. Powers(n + 1, h)
      BY <3>1, <3>2, <3>3, <3>4, <3>5
    <3> QED
      BY <3>6
  <2> HIDE DEF S
  <2>3. Nat \subseteq S
    BY <2>1, <2>2, SetInduction
  <2> QED
    BY <2>3 DEF S
<1>2. ASSUME NEW n \in Nat, NEW g, NEW h, Powers(n, g), Powers(n + 1, h) PROVE g[n] = h[n]
  <2> DEFINE S == {k \in Nat : k <= n => g[k] = h[k]}
  <2>1. 0 \in S
    BY <1>2
  <2>2. ASSUME NEW k \in Nat, k \in S PROVE k + 1 \in S
    <3>1. SUFFICES ASSUME k + 1 <= n PROVE g[k + 1] = h[k + 1]
      OBVIOUS
    <3>2. g[k] = h[k] /\ k \in 0 .. n - 1 /\ k \in 0 .. n + 1 - 1
      BY <2>2, <3>1
    <3> QED
      BY <1>2, <3>2
  <2> HIDE DEF S
  <2>3. Nat \subseteq S
    BY <2>1, <2>2, SetInduction
  <2> QED
    BY <2>3 DEF S
<1> DEFINE c == [n \in Nat |-> CHOOSE g : Powers(n, g)]
<1>3. \A n \in Nat : Powers(n, c[n])
  <2>1. SUFFICES ASSUME NEW n \in Nat PROVE Powers(n, c[n])
    OBVIOUS
  <2>2. \E g : Powers(n, g)
    BY <1>1
  <2> HIDE DEF Powers
  <2>3. Powers(n, CHOOSE g : Powers(n, g))
    BY <2>2, Zenon
  <2> QED
    BY <2>3
<1> DEFINE f == [n \in Nat |-> c[n][n]]
<1> HIDE DEF c
<1>4. \A n \in Nat : f[n] \in Nat
  <2>1. SUFFICES ASSUME NEW n \in Nat PROVE c[n][n] \in Nat
    OBVIOUS
  <2> QED
    BY <1>3
<1>5. f[0] = 1
  BY <1>3
<1>6. \A k \in Nat \ {0} : f[k] = 2 * f[k - 1]
  <2>1. SUFFICES ASSUME NEW k \in Nat \ {0} PROVE f[k] = 2 * f[k - 1]
    OBVIOUS
  <2>2. PICK n \in Nat : k = n + 1 /\ k - 1 = n
    <3>1. k - 1 \in Nat /\ k = (k - 1) + 1
      OBVIOUS
    <3> QED
      BY <3>1
  <2>3. Powers(n, c[n]) /\ Powers(n + 1, c[n + 1])
    <3>1. n + 1 \in Nat
      OBVIOUS
    <3> HIDE DEF Powers
    <3> QED
      BY ONLY <1>3, <3>1, n \in Nat, Zenon
  <2>4. c[n + 1][n + 1] = 2 * c[n + 1][n]
    <3>1. n \in 0 .. n + 1 - 1
      OBVIOUS
    <3> QED
      BY <2>3, <3>1
  <2>5. c[n][n] = c[n + 1][n]
    BY <1>2, <2>3
  <2> QED
    BY <2>2, <2>4, <2>5
<1>7. f = [k \in Nat |-> IF k = 0 THEN 1 ELSE 2 * f[k - 1]]
  <2> HIDE DEF f
  <2>1. \A k \in Nat : f[k] = IF k = 0 THEN 1 ELSE 2 * f[k - 1]
    BY <1>5, <1>6
  <2>2. f = [k \in Nat |-> f[k]]
    BY DEF f
  <2> QED
    BY <2>1, <2>2
<1> QED
  BY <1>7

\* PagesOf by its two equations.
LEMMA PagesOfStep ==
    /\ PagesOf[0] = 1
    /\ \A k \in Nat : PagesOf[k] \in Nat \ {0} /\ PagesOf[k + 1] = 2 * PagesOf[k]
<1> DEFINE Is(f) == f = [k \in Nat |-> IF k = 0 THEN 1 ELSE 2 * f[k - 1]]
<1>1. Is(PagesOf)
  <2>1. \E f : Is(f)
    BY PowersExist
  <2>2. PagesOf = CHOOSE f : Is(f)
    BY DEF PagesOf
  <2> HIDE DEF Is
  <2> QED
    BY ONLY <2>1, <2>2, Zenon
<1>2. PagesOf = [k \in Nat |-> IF k = 0 THEN 1 ELSE 2 * PagesOf[k - 1]]
  BY <1>1
<1> HIDE DEF Is
<1>3. PagesOf[0] = 1
  BY <1>2
<1>4. \A k \in Nat : PagesOf[k + 1] = 2 * PagesOf[k]
  <2>1. SUFFICES ASSUME NEW k \in Nat PROVE PagesOf[k + 1] = 2 * PagesOf[k]
    OBVIOUS
  <2>2. k + 1 \in Nat /\ k + 1 # 0 /\ k + 1 - 1 = k
    OBVIOUS
  <2> QED
    BY <1>2, <2>2
<1>5. \A k \in Nat : PagesOf[k] \in Nat \ {0}
  <2> DEFINE S == {k \in Nat : PagesOf[k] \in Nat \ {0}}
  <2>1. 0 \in S
    BY <1>3
  <2>2. ASSUME NEW n \in Nat, n \in S PROVE n + 1 \in S
    BY <1>4, <2>2
  <2> HIDE DEF S
  <2>3. Nat \subseteq S
    BY <2>1, <2>2, SetInduction
  <2> QED
    BY <2>3 DEF S
<1> QED
  BY <1>3, <1>4, <1>5

\* A block of a higher rank is at least twice as large.
LEMMA PagesOfGrows ==
    ASSUME NEW k \in Nat, NEW j \in Nat, k < j
    PROVE  PagesOf[k + 1] <= PagesOf[j] /\ PagesOf[k] < PagesOf[j]
<1> DEFINE S == {n \in Nat : PagesOf[k + 1] <= PagesOf[k + 1 + n]}
<1>1. 0 \in S
  BY PagesOfStep
<1>2. ASSUME NEW n \in Nat, n \in S PROVE n + 1 \in S
  <2>1. k + 1 + n \in Nat /\ k + 1 + (n + 1) = k + 1 + n + 1 /\ k + 1 \in Nat
    OBVIOUS
  <2>2. PagesOf[k + 1 + (n + 1)] = 2 * PagesOf[k + 1 + n] /\ PagesOf[k + 1 + n] \in Nat
    BY ONLY <2>1, PagesOfStep
  <2>3. PagesOf[k + 1] <= PagesOf[k + 1 + n] /\ PagesOf[k + 1] \in Nat
    BY <1>2, <2>1, PagesOfStep
  <2> QED
    BY <2>2, <2>3
<1> HIDE DEF S
<1>3. Nat \subseteq S
  BY <1>1, <1>2, SetInduction
<1>4. PICK n \in Nat : j = k + 1 + n
  <2>1. j - k - 1 \in Nat /\ j = k + 1 + (j - k - 1)
    OBVIOUS
  <2> QED
    BY <2>1
<1>5. PagesOf[k + 1] <= PagesOf[j]
  BY <1>3, <1>4 DEF S
<1>6. PagesOf[k + 1] = 2 * PagesOf[k] /\ PagesOf[k] \in Nat \ {0} /\ PagesOf[j] \in Nat
  BY PagesOfStep
<1> QED
  BY <1>5, <1>6

\* The page p is in one half of the block of rank k + 1 around it, and its buddy
\* of rank k is the other half.
LEMMA Halves ==
    ASSUME NEW p \in Nat, NEW k \in Nat, NEW w, w = PagesOf[k]
    PROVE  /\ HeadOf(p, k + 1) \in Nat /\ HeadOf(p, k + 1) % (2 * w) = 0
           /\ HeadOf(p, k) <= p /\ p < HeadOf(p, k) + w
           /\ \/ /\ HeadOf(p, k) = HeadOf(p, k + 1)
                 /\ BuddyOf(p, k) = HeadOf(p, k + 1) + w
              \/ /\ HeadOf(p, k) = HeadOf(p, k + 1) + w
                 /\ BuddyOf(p, k) = HeadOf(p, k + 1)
<1>1. w \in Nat \ {0} /\ PagesOf[k + 1] = 2 * w /\ 2 * w \in Nat \ {0}
  BY PagesOfStep
<1>2. PICK q \in Nat, s \in 0 .. w - 1 : q = p \div w /\ s = p % w /\ p = q * w + s
  BY ONLY <1>1, p \in Nat, Division
<1>3. PICK j \in Nat, e \in 0 .. 1 : e = q % 2 /\ q = j * 2 + e
  <2>1. \E j \in Nat, e \in 0 .. 2 - 1 : j = q \div 2 /\ e = q % 2 /\ q = j * 2 + e
    BY ONLY q \in Nat, 2 \in Nat \ {0}, Division
  <2> QED
    BY <2>1
<1>4. PICK v \in Nat : v = j * (2 * w)
  BY <1>1
<1>5. PICK c \in 0 .. 2 * w - 1 : (e = 0 => c = s) /\ (e = 1 => c = w + s)
  <2>1. s \in 0 .. 2 * w - 1 /\ w + s \in 0 .. 2 * w - 1
    BY <1>1
  <2> QED
    BY <2>1
<1>6. p = v + c
  <2>1. q * w = v + e * w
    BY ONLY <1>1, <1>3, <1>4
  <2>2. CASE e = 0
    BY <1>1, <1>2, <1>5, <2>1, <2>2
  <2>3. CASE e = 1
    BY <1>1, <1>2, <1>5, <2>1, <2>3
  <2> QED
    BY <2>2, <2>3
<1>7. p % (2 * w) = c
  <2>1. p = j * (2 * w) + c /\ j \in Int /\ p \in Int
    BY <1>4, <1>6
  <2> QED
    BY ONLY <1>1, <2>1, RemainderIs
<1>8. v % (2 * w) = 0
  <2>1. v = j * (2 * w) + 0 /\ j \in Int /\ v \in Int /\ 0 \in 0 .. 2 * w - 1
    BY <1>1, <1>4
  <2> QED
    BY ONLY <1>1, <2>1, RemainderIs
<1>9. HeadOf(p, k + 1) = v /\ HeadOf(p, k) = p - s
  <2>1. HeadOf(p, k + 1) = p - c
    BY <1>1, <1>7 DEF HeadOf
  <2>2. HeadOf(p, k) = p - s
    BY ONLY <1>2, w = PagesOf[k], Zenon DEF HeadOf
  <2>3. c \in Int
    OBVIOUS
  <2>4. p - c = v
    BY ONLY <1>6, <2>3, v \in Nat
  <2> QED
    BY ONLY <2>1, <2>2, <2>4, Zenon
<1>10. BuddyOf(p, k) = IF e = 0 THEN p - s + w ELSE p - s - w
  BY <1>2, <1>3, <1>9 DEF BuddyOf
<1>11. /\ s \in Int /\ c \in Int /\ w \in Nat \ {0} /\ v \in Nat /\ p \in Nat
       /\ 0 <= s /\ s < w
  BY <1>1
<1>12. CASE e = 0
  <2>1. p = v + s /\ c = s
    BY ONLY <1>5, <1>6, <1>12
  <2>2. p - s = v /\ p - s + w = v + w /\ p - s <= p /\ p < p - s + w
    BY ONLY <1>11, <2>1
  <2> QED
    BY ONLY <1>8, <1>9, <1>10, <1>11, <1>12, <2>2
<1>13. CASE e = 1
  <2>1. p = v + (w + s)
    BY ONLY <1>5, <1>6, <1>13
  <2>2. p - s = v + w /\ p - s - w = v /\ p - s <= p /\ p < p - s + w
    BY ONLY <1>11, <2>1
  <2> QED
    BY ONLY <1>8, <1>9, <1>10, <1>11, <1>13, <2>2
<1> QED
  BY <1>12, <1>13

\* The two halves of a block are each other's buddies.
LEMMA PairOf ==
    ASSUME NEW h \in Nat, NEW k \in Nat, NEW w, w = PagesOf[k], h % (2 * w) = 0
    PROVE  /\ h % w = 0 /\ (h + w) % w = 0
           /\ HeadOf(h, k + 1) = h /\ HeadOf(h + w, k + 1) = h
           /\ BuddyOf(h, k) = h + w /\ BuddyOf(h + w, k) = h
<1>1. w \in Nat \ {0} /\ PagesOf[k + 1] = 2 * w /\ 2 * w \in Nat \ {0} /\ h + w \in Nat
  BY PagesOfStep
<1>2. PICK m \in Nat, s \in 0 .. 2 * w - 1 : s = h % (2 * w) /\ h = m * (2 * w) + s
  <2>1. PICK d \in Nat \ {0} : d = 2 * w
    BY <1>1
  <2>2. \E m \in Nat, s \in 0 .. d - 1 : m = h \div d /\ s = h % d /\ h = m * d + s
    BY ONLY <2>1, h \in Nat, Division
  <2> QED
    BY ONLY <2>1, <2>2, Zenon
<1>3. PICK v \in Nat : v = m * w
  BY <1>1
<1>4. h = m * (2 * w) /\ h = (2 * m) * w /\ h + w = (2 * m + 1) * w
  <2>1. m * (2 * w) = 2 * v /\ (2 * m) * w = 2 * v /\ (2 * m + 1) * w = 2 * v + w
    BY ONLY <1>1, <1>3, m \in Nat
  <2>2. s = 0
    BY ONLY <1>2, h % (2 * w) = 0
  <2>3. h = 2 * v
    BY ONLY <1>2, <2>1, <2>2, v \in Nat
  <2> QED
    BY ONLY <2>1, <2>3, Zenon
<1>5. h % w = 0 /\ (h + w) % w = 0
  <2>1. h = (2 * m) * w + 0 /\ h + w = (2 * m + 1) * w + 0 /\ 0 \in 0 .. w - 1
    <3>1. h + 0 = h /\ (h + w) + 0 = h + w /\ 0 \in 0 .. w - 1
      BY ONLY <1>1, h \in Nat
    <3> QED
      BY ONLY <1>4, <3>1, Zenon
  <2>2. 2 * m \in Int /\ 2 * m + 1 \in Int /\ h \in Int /\ h + w \in Int
    BY <1>1
  <2> QED
    BY ONLY <1>1, <2>1, <2>2, RemainderIs
<1>6. (h + w) % (2 * w) = w
  <2>1. h + w = m * (2 * w) + w /\ w \in 0 .. 2 * w - 1 /\ h + w \in Int /\ m \in Int
    <3>1. w \in 0 .. 2 * w - 1 /\ h + w \in Int /\ m \in Int
      BY ONLY <1>1, m \in Nat
    <3> QED
      BY ONLY <1>4, <3>1, Zenon
  <2> QED
    BY ONLY <1>1, <2>1, RemainderIs
<1>7. HeadOf(h, k + 1) = h /\ HeadOf(h + w, k + 1) = h
  <2>1. HeadOf(h, k + 1) = h - 0 /\ HeadOf(h + w, k + 1) = (h + w) - w
    BY ONLY <1>1, <1>6, h % (2 * w) = 0, Zenon DEF HeadOf
  <2>2. h - 0 = h /\ (h + w) - w = h
    BY <1>1
  <2> QED
    BY ONLY <2>1, <2>2, Zenon
<1>8. BuddyOf(h, k) = h + w
  <2>1. /\ HeadOf(h, k) <= h
        /\ \/ HeadOf(h, k) = h /\ BuddyOf(h, k) = h + w
           \/ HeadOf(h, k) = h + w
    BY ONLY Halves, <1>7, h \in Nat, k \in Nat, w = PagesOf[k]
  <2> QED
    BY <1>1, <2>1
<1>9. BuddyOf(h + w, k) = h
  <2>1. /\ h + w < HeadOf(h + w, k) + w
        /\ \/ HeadOf(h + w, k) = h
           \/ BuddyOf(h + w, k) = h
    BY ONLY Halves, <1>1, <1>7, k \in Nat, w = PagesOf[k]
  <2> QED
    BY <1>1, <2>1
<1> QED
  BY <1>5, <1>7, <1>8, <1>9

\* A block that is aligned is named by its first page.
LEMMA AlignedHead ==
    ASSUME NEW p \in Nat, NEW k \in Nat, p % PagesOf[k] = 0
    PROVE  HeadOf(p, k) = p
BY DEF HeadOf

\* The blocks of the two buddies around p are the block of the next rank.
LEMMA Buddies ==
    ASSUME NEW p \in Nat, NEW k \in Nat
    PROVE  /\ HeadOf(p, k) \in Nat /\ HeadOf(p, k) % PagesOf[k] = 0
           /\ BuddyOf(p, k) \in Nat /\ BuddyOf(p, k) % PagesOf[k] = 0
           /\ BuddyOf(HeadOf(p, k), k) = BuddyOf(p, k)
           /\ BuddyOf(BuddyOf(p, k), k) = HeadOf(p, k)
           /\ Block(HeadOf(p, k + 1), k + 1) = Block(HeadOf(p, k), k) \union Block(BuddyOf(p, k), k)
           /\ Block(HeadOf(p, k), k) \cap Block(BuddyOf(p, k), k) = {}
<1>1. PICK w \in Nat \ {0} : w = PagesOf[k] /\ PagesOf[k + 1] = 2 * w
  BY PagesOfStep
<1>2. PICK h : h = HeadOf(p, k + 1)
  OBVIOUS
<1>3. /\ h \in Nat /\ h % (2 * w) = 0
      /\ \/ HeadOf(p, k) = h /\ BuddyOf(p, k) = h + w
         \/ HeadOf(p, k) = h + w /\ BuddyOf(p, k) = h
  BY ONLY <1>1, <1>2, p \in Nat, k \in Nat, Halves
<1>4. h % w = 0 /\ (h + w) % w = 0 /\ BuddyOf(h, k) = h + w /\ BuddyOf(h + w, k) = h
  BY ONLY <1>1, <1>3, k \in Nat, PairOf
<1>5. /\ Block(h, k + 1) = Block(h, k) \union Block(h + w, k)
      /\ Block(h, k) \cap Block(h + w, k) = {}
  <2>1. h .. h + 2 * w - 1 = (h .. h + w - 1) \union (h + w .. h + w + w - 1)
    BY <1>1, <1>3
  <2>2. (h .. h + w - 1) \cap (h + w .. h + w + w - 1) = {}
    BY <1>1, <1>3
  <2> QED
    BY ONLY <1>1, <2>1, <2>2, Zenon DEF Block
<1>6. h + w \in Nat
  BY <1>3
<1>7. CASE HeadOf(p, k) = h /\ BuddyOf(p, k) = h + w
  BY ONLY <1>1, <1>2, <1>3, <1>4, <1>5, <1>6, <1>7, Zenon
<1>8. CASE HeadOf(p, k) = h + w /\ BuddyOf(p, k) = h
  BY ONLY <1>1, <1>2, <1>3, <1>4, <1>5, <1>6, <1>8
<1> QED
  BY <1>3, <1>7, <1>8

\* What is aligned to a rank is aligned to every lower one.
LEMMA AlignedBelow ==
    ASSUME NEW p \in Nat, NEW k \in Nat, NEW j \in Nat, k <= j, p % PagesOf[j] = 0
    PROVE  p % PagesOf[k] = 0
<1> DEFINE S == {n \in Nat : n <= j => p % PagesOf[j - n] = 0}
<1>1. 0 \in S
  BY DEF S
<1>2. ASSUME NEW n \in Nat, n \in S PROVE n + 1 \in S
  <2>1. SUFFICES ASSUME n + 1 <= j PROVE p % PagesOf[j - (n + 1)] = 0
    OBVIOUS
  <2>2. PICK i \in Nat : i = j - (n + 1) /\ i + 1 = j - n
    BY <2>1
  <2>3. p % PagesOf[i + 1] = 0
    BY <1>2, <2>1, <2>2
  <2>4. PagesOf[i + 1] = 2 * PagesOf[i]
    BY PagesOfStep
  <2>5. p % PagesOf[i] = 0
    BY ONLY <2>3, <2>4, p \in Nat, i \in Nat, PairOf
  <2> QED
    BY <2>2, <2>5
<1> HIDE DEF S
<1>3. Nat \subseteq S
  BY <1>1, <1>2, SetInduction
<1>4. PICK n \in Nat : n = j - k /\ j - n = k
  OBVIOUS
<1> QED
  BY <1>3, <1>4 DEF S

\* The pieces of a block of rank i cut down to rank k.
LEMMA CutBlocks ==
    ASSUME NEW p \in Nat, NEW k \in Nat, NEW i \in Nat, k <= i
    PROVE  Block(p, i) = Block(p, k) \union UNION {Block(p + PagesOf[r], r) : r \in k .. i - 1}
<1> DEFINE Pieces(j) == UNION {Block(p + PagesOf[r], r) : r \in k .. j - 1}
           S == {n \in Nat : Block(p, k + n) = Block(p, k) \union Pieces(k + n)}
<1>1. 0 \in S
  <2>1. Pieces(k + 0) = {} /\ k + 0 = k
    OBVIOUS
  <2> QED
    BY <2>1
<1>2. ASSUME NEW n \in Nat, n \in S PROVE n + 1 \in S
  <2>1. PICK j \in Nat : j = k + n /\ j + 1 = k + (n + 1) /\ k <= j
    OBVIOUS
  <2>2. PICK w \in Nat \ {0} : w = PagesOf[j] /\ PagesOf[j + 1] = 2 * w
    BY PagesOfStep
  <2>3. Block(p, j + 1) = Block(p, j) \union Block(p + PagesOf[j], j)
    <3>1. p .. p + 2 * w - 1 = (p .. p + w - 1) \union (p + w .. p + w + w - 1)
      BY <2>2
    <3> QED
      BY ONLY <2>2, <3>1, Zenon DEF Block
  <2>4. k .. j + 1 - 1 = (k .. j - 1) \union {j}
    BY <2>1
  <2>5. Pieces(j + 1) = Pieces(j) \union Block(p + PagesOf[j], j)
    BY <2>4
  <2>6. Block(p, j) = Block(p, k) \union Pieces(j)
    BY <1>2, <2>1
  <2> HIDE DEF Pieces
  <2> QED
    BY <2>1, <2>3, <2>5, <2>6
<1> HIDE DEF S
<1>3. Nat \subseteq S
  BY <1>1, <1>2, SetInduction
<1>4. PICK n \in Nat : i = k + n
  <2>1. i - k \in Nat /\ i = k + (i - k)
    OBVIOUS
  <2> QED
    BY <2>1
<1> QED
  BY <1>3, <1>4 DEF S

\* The halves that are cut off have no page in common, with each other or with
\* what is left.
LEMMA CutApart ==
    ASSUME NEW p \in Nat, NEW k \in Nat, NEW r \in Nat
    PROVE  /\ k <= r => Block(p, k) \cap Block(p + PagesOf[r], r) = {}
           /\ k < r => Block(p + PagesOf[k], k) \cap Block(p + PagesOf[r], r) = {}
<1>1. PICK v \in Nat \ {0}, w \in Nat \ {0} :
         v = PagesOf[k] /\ w = PagesOf[r] /\ PagesOf[k + 1] = 2 * v
  BY PagesOfStep
<1>2. k <= r => v <= w
  BY <1>1, PagesOfGrows
<1>3. k < r => 2 * v <= w
  BY <1>1, PagesOfGrows
<1>4. v <= w => (p .. p + v - 1) \cap (p + w .. p + w + w - 1) = {}
  BY <1>1
<1>5. 2 * v <= w => (p + v .. p + v + v - 1) \cap (p + w .. p + w + w - 1) = {}
  BY <1>1
<1> QED
  BY ONLY <1>1, <1>2, <1>3, <1>4, <1>5, Zenon DEF Block

\* The pieces that joining puts together.
LEMMA JoinedBlocks ==
    ASSUME NEW p \in Nat, NEW k \in Nat, NEW j \in Nat, k <= j
    PROVE  Block(HeadOf(p, j), j)
             = Block(HeadOf(p, k), k) \union UNION {Block(BuddyOf(p, r), r) : r \in k .. j - 1}
<1> DEFINE Pieces(i) == UNION {Block(BuddyOf(p, r), r) : r \in k .. i - 1}
           S == {n \in Nat : Block(HeadOf(p, k + n), k + n)
                               = Block(HeadOf(p, k), k) \union Pieces(k + n)}
<1>1. 0 \in S
  <2>1. Pieces(k + 0) = {} /\ k + 0 = k
    OBVIOUS
  <2> QED
    BY <2>1
<1>2. ASSUME NEW n \in Nat, n \in S PROVE n + 1 \in S
  <2>1. PICK i \in Nat : i = k + n /\ i + 1 = k + (n + 1) /\ k <= i
    OBVIOUS
  <2>3. Block(HeadOf(p, i + 1), i + 1) = Block(HeadOf(p, i), i) \union Block(BuddyOf(p, i), i)
    BY Buddies
  <2>4. k .. i + 1 - 1 = (k .. i - 1) \union {i}
    BY <2>1
  <2>5. Pieces(i + 1) = Pieces(i) \union Block(BuddyOf(p, i), i)
    BY <2>4
  <2>6. Block(HeadOf(p, i), i) = Block(HeadOf(p, k), k) \union Pieces(i)
    BY <1>2, <2>1
  <2> HIDE DEF Pieces
  <2> QED
    BY <2>1, <2>3, <2>5, <2>6
<1> HIDE DEF S
<1>3. Nat \subseteq S
  BY <1>1, <1>2, SetInduction
<1>4. PICK n \in Nat : j = k + n
  <2>1. j - k \in Nat /\ j = k + (j - k)
    OBVIOUS
  <2> QED
    BY <2>1
<1> QED
  BY <1>3, <1>4 DEF S

\* The blocks at S, of the ranks R, are the pages of U, each in one of them.
Laid(S, R, U) ==
    /\ \A p, q \in S : p # q => Block(p, R[p]) \cap Block(q, R[q]) = {}
    /\ UNION {Block(p, R[p]) : p \in S} = U

\* Some blocks are replaced by others with the same pages.
LEMMA Exchange ==
    ASSUME NEW S, NEW X \in SUBSET S, NEW Y, NEW R, NEW Q, NEW U,
           Laid(S, R, U),
           \A p, q \in Y : p # q => Block(p, Q[p]) \cap Block(q, Q[q]) = {},
           \A p \in S \ X : Q[p] = R[p],
           UNION {Block(p, R[p]) : p \in X} = UNION {Block(p, Q[p]) : p \in Y}
    PROVE  Laid((S \ X) \union Y, Q, U)
<1> DEFINE B(p) == Block(p, R[p])
           C(p) == Block(p, Q[p])
<1>1. \A p, q \in S : p # q => B(p) \cap B(q) = {}
  BY DEF Laid
<1>2. UNION {B(p) : p \in S} = U
  BY DEF Laid
<1>3. \A p, q \in Y : p # q => C(p) \cap C(q) = {}
  OBVIOUS
<1>4. \A p \in S \ X : C(p) = B(p)
  OBVIOUS
<1>5. UNION {B(p) : p \in X} = UNION {C(p) : p \in Y}
  OBVIOUS
<1> HIDE DEF B, C
<1>6. ASSUME NEW p \in S \ X, NEW q \in Y PROVE C(p) \cap C(q) = {}
  <2>1. SUFFICES ASSUME NEW x \in C(p), x \in C(q) PROVE FALSE
    OBVIOUS
  <2>2. PICK z \in X : x \in B(z)
    BY <1>5, <2>1
  <2>3. z \in S /\ p \in S /\ z # p /\ x \in B(p)
    BY <1>4, <2>1
  <2> QED
    BY <1>1, <2>2, <2>3
<1>7. \A p, q \in (S \ X) \union Y : p # q => C(p) \cap C(q) = {}
  <2>1. \A p, q \in S \ X : p # q => C(p) \cap C(q) = {}
    BY <1>1, <1>4
  <2> QED
    BY <1>3, <1>6, <2>1
<1>8. UNION {C(p) : p \in (S \ X) \union Y} = U
  <2>1. ASSUME NEW x \in U PROVE \E p \in (S \ X) \union Y : x \in C(p)
    <3>1. PICK p \in S : x \in B(p)
      BY <1>2, <2>1
    <3>2. CASE p \in X
      <4>1. PICK q \in Y : x \in C(q)
        BY <1>5, <3>1, <3>2
      <4> QED
        BY <4>1
    <3>3. CASE p \notin X
      BY <1>4, <3>1, <3>3
    <3> QED
      BY <3>2, <3>3
  <2>2. ASSUME NEW p \in (S \ X) \union Y, NEW x \in C(p) PROVE x \in U
    <3>1. CASE p \in S \ X
      BY <1>2, <1>4, <2>2, <3>1
    <3>2. CASE p \in Y
      <4>1. PICK q \in X : x \in B(q)
        BY <1>5, <2>2, <3>2
      <4> QED
        BY <1>2, <4>1
    <3> QED
      BY <3>1, <3>2
  <2> QED
    BY <2>1, <2>2
<1> QED
  BY <1>7, <1>8 DEF Laid, B, C

\* Min of the community modules.
LEMMA MinIsLeast ==
    ASSUME NEW S \in SUBSET Nat, S # {}
    PROVE  Min(S) \in S /\ \A x \in S : Min(S) <= x
<1>1. PICK x \in S : \A y \in S : x <= y
  BY LeastElement
<1> QED
  BY <1>1 DEF Min

\* Max of the community modules.
LEMMA MaxIsGreatest ==
    ASSUME NEW n \in Nat, NEW S \in SUBSET (0 .. n), S # {}
    PROVE  Max(S) \in S /\ \A x \in S : x <= Max(S)
<1> DEFINE T == {n - x : x \in S}
<1>1. T \in SUBSET Nat /\ T # {}
  <2>1. \A x \in S : n - x \in Nat
    OBVIOUS
  <2>2. PICK x \in S : n - x \in T
    OBVIOUS
  <2> QED
    BY <2>1, <2>2
<1>2. PICK y \in T : \A z \in T : y <= z
  BY <1>1, LeastElement
<1>3. PICK m \in S : y = n - m
  BY <1>2
<1>4. \A x \in S : m >= x
  BY <1>2, <1>3
<1>5. \E a \in S : \A b \in S : a >= b
  BY <1>4
<1>6. Max(S) \in S /\ \A x \in S : Max(S) >= x
  BY <1>5 DEF Max
<1> QED
  BY <1>6

\* A block has its first page.
LEMMA OwnBlock ==
    ASSUME NEW p \in Nat, NEW k \in Nat
    PROVE  p \in Block(p, k)
<1>1. PagesOf[k] \in Nat \ {0}
  BY PagesOfStep
<1> QED
  BY <1>1 DEF Block

\* Ranks and pages are numbers.
LEMMA RanksArePlaces ==
    /\ RankNum \in Nat \ {0} /\ Rank \subseteq Nat
    /\ NPages \in Nat \ {0} /\ Page \subseteq Nat
BY BuddyAssumption DEF Rank, Page

\* Areas do not overlap: a page tells its area.
LEMMA AreaIs ==
    ASSUME NEW a \in Areas, NEW p \in AreaPages(a)
    PROVE  AreaOf(p) = a
<1>1. \A b \in Areas : Begin[b] \in Nat /\ Size[b] \in Nat
  BY BuddyAssumption
<1>2. \A b \in Areas : p \in AreaPages(b) => b = a
  <2>1. SUFFICES ASSUME NEW b \in Areas, p \in AreaPages(b), b # a PROVE FALSE
    OBVIOUS
  <2>2. Begin[a] + Size[a] <= Begin[b] \/ Begin[b] + Size[b] <= Begin[a]
    BY <2>1, BuddyAssumption
  <2>3. p \in Begin[a] .. Begin[a] + Size[a] - 1 /\ p \in Begin[b] .. Begin[b] + Size[b] - 1
    BY <2>1 DEF AreaPages
  <2> QED
    BY <1>1, <2>2, <2>3
<1>3. AreaOf(p) \in Areas /\ p \in AreaPages(AreaOf(p))
  <2>1. \E b \in Areas : p \in AreaPages(b)
    OBVIOUS
  <2> DEFINE P(b) == b \in Areas /\ p \in AreaPages(b)
  <2>2. AreaOf(p) = CHOOSE b \in Areas : p \in AreaPages(b)
    BY DEF AreaOf
  <2> QED
    BY ONLY <2>1, <2>2, Zenon
<1> QED
  BY <1>2, <1>3

\* Every page has an area.
LEMMA AreaFound ==
    ASSUME NEW p \in Page
    PROVE  AreaOf(p) \in Areas /\ p \in AreaPages(AreaOf(p))
<1>1. PICK a \in Areas : p \in AreaPages(a)
  BY BuddyAssumption DEF AreaPages
<1> QED
  BY <1>1, AreaIs

\* A free block stands in one list, that of its area and of its rank.
LEMMA FreeBlock ==
    ASSUME BuddyTypeOK, ListsConsistent, NEW p, InList(p)
    PROVE  /\ p \in Page /\ buddyRank[p] \in Rank /\ AreaOf(p) \in Areas
           /\ p \in ToSet(fpageList[AreaOf(p)][buddyRank[p]])
           /\ p % PagesOf[buddyRank[p]] = 0
           /\ Block(p, buddyRank[p]) \subseteq AreaPages(AreaOf(p))
<1>1. PICK a \in Areas, k \in Rank : p \in ToSet(fpageList[a][k])
  BY DEF InList
<1>2. fpageList[a][k] \in Seq(Page)
  BY DEF BuddyTypeOK
<1>3. p \in Page
  BY <1>1, <1>2, SequenceMembers
<1>4. buddyRank[p] = k /\ p % PagesOf[k] = 0 /\ Block(p, k) \subseteq AreaPages(a)
  BY <1>1 DEF ListsConsistent
<1>5. p \in AreaPages(a)
  BY <1>3, <1>4, OwnBlock, RanksArePlaces
<1>6. AreaOf(p) = a
  BY <1>5, AreaIs
<1> QED
  BY <1>1, <1>3, <1>4, <1>6

\* The same of a block met in a list.
LEMMA FreeWhere ==
    ASSUME BuddyTypeOK, ListsConsistent, NEW a \in Areas, NEW k \in Rank,
           NEW p \in ToSet(fpageList[a][k])
    PROVE  InList(p) /\ p \in Page /\ buddyRank[p] = k /\ AreaOf(p) = a
<1>1. InList(p)
  BY DEF InList
<1>2. p \in Page /\ buddyRank[p] = k /\ Block(p, k) \subseteq AreaPages(a)
  BY <1>1, FreeBlock DEF ListsConsistent
<1>3. p \in AreaPages(a)
  BY <1>2, OwnBlock, RanksArePlaces
<1> QED
  BY <1>1, <1>2, <1>3, AreaIs

\* The rank at which the loop of page_free() ends.
LEMMA LoopEnds ==
    ASSUME NEW p, NEW k \in Rank
    PROVE  /\ FinalRank(p, k) \in Rank /\ FinalRank(p, k) \in Nat /\ k <= FinalRank(p, k)
           /\ FinalRank(p, k) = RankNum - 1 \/ ~ Joins(p, FinalRank(p, k))
           /\ \A r \in k .. FinalRank(p, k) - 1 : r \in Rank /\ Joins(p, r)
<1> DEFINE S == {r \in k .. RankNum - 1 : r = RankNum - 1 \/ ~ Joins(p, r)}
<1>1. RankNum \in Nat \ {0} /\ k \in Nat /\ k <= RankNum - 1
  BY RanksArePlaces DEF Rank
<1>2. S \in SUBSET Nat /\ RankNum - 1 \in S
  BY <1>1
<1>3. FinalRank(p, k) = Min(S)
  BY DEF FinalRank
<1>4. PICK m \in S : m = FinalRank(p, k) /\ \A r \in S : m <= r
  <2>1. S # {}
    BY <1>2
  <2> HIDE DEF S
  <2> QED
    BY <1>2, <1>3, <2>1, MinIsLeast
<1>5. m \in Nat /\ k <= m /\ m <= RankNum - 1 /\ (m = RankNum - 1 \/ ~ Joins(p, m))
  BY <1>1
<1>6. ASSUME NEW r \in k .. m - 1 PROVE r \in Rank /\ Joins(p, r)
  <2>1. r \in k .. RankNum - 1 /\ r # RankNum - 1 /\ r < m
    BY <1>1, <1>5
  <2>2. r \notin S
    BY <1>4, <2>1
  <2> QED
    BY <1>1, <2>1, <2>2 DEF Rank
<1> QED
  BY <1>1, <1>4, <1>5, <1>6 DEF Rank

\* The head of the block that p becomes.
LastHead(p, k) == HeadOf(p, FinalRank(p, k))
\* The buddies it is joined with.
Gone(p, k) == {BuddyOf(p, r) : r \in k .. FinalRank(p, k) - 1}

\* The members of the lists L after joining.
MembersJoined(L, p, k, A, last, h) ==
    /\ \A a \in Areas, r \in Rank :
          a # A \/ (r # last /\ r \notin k .. last - 1) =>
             ToSet(L[a][r]) = ToSet(fpageList[a][r])
    /\ \A r \in k .. last - 1 :
          ToSet(L[A][r]) = ToSet(fpageList[A][r]) \ {BuddyOf(p, r)}
    /\ ToSet(L[A][last]) = ToSet(fpageList[A][last]) \union {h}

\* What joining does to the lists.
LEMMA JoinedLists ==
    ASSUME BuddyTypeOK, ListsConsistent,
           NEW p \in Page, NEW k \in Rank, ~ InList(p), LastHead(p, k) \in Page,
           ~ InList(LastHead(p, k)) \/ LastHead(p, k) \in Gone(p, k)
    PROVE  /\ Joined(p, k) \in [Areas -> [Rank -> Seq(Page)]]
           /\ \A a \in Areas, r \in Rank : IsInjective(Joined(p, k)[a][r])
           /\ MembersJoined(Joined(p, k), p, k, AreaOf(p), FinalRank(p, k), LastHead(p, k))
<1>0. PICK L, A, last, h :
         L = Joined(p, k) /\ A = AreaOf(p) /\ last = FinalRank(p, k) /\ h = HeadOf(p, last)
  OBVIOUS
<1>10. h = LastHead(p, k) /\ h \in Page /\ (~ InList(h) \/ \E r \in k .. last - 1 : h = BuddyOf(p, r))
  BY <1>0 DEF LastHead, Gone
<1>1. /\ A \in Areas
      /\ \A a \in Areas, r \in Rank :
            fpageList[a][r] \in Seq(Page) /\ IsInjective(fpageList[a][r])
  BY <1>0, AreaFound DEF BuddyTypeOK, ListsConsistent
<1>2. /\ last \in Rank /\ last \in Nat /\ k <= last
      /\ \A r \in k .. last - 1 : r \in Rank /\ Joins(p, r)
  BY <1>0, LoopEnds
<1>3. /\ DOMAIN L = Areas /\ DOMAIN L[A] = Rank
      /\ \A a \in Areas : a # A => L[a] = fpageList[a]
      /\ L[A] = [r \in Rank |->
                   IF r = last THEN <<h>> \o fpageList[A][r]
                   ELSE IF r \in k .. last - 1 THEN RemoveFirst(fpageList[A][r], BuddyOf(p, r))
                   ELSE fpageList[A][r]]
  BY <1>0, <1>1 DEF Joined, BuddyTypeOK
<1>4. h \notin ToSet(fpageList[A][last])
  <2>1. SUFFICES ASSUME h \in ToSet(fpageList[A][last]) PROVE FALSE
    OBVIOUS
  <2>2. InList(h) /\ buddyRank[h] = last
    BY <1>1, <1>2, <2>1, FreeWhere
  <2>3. PICK r \in k .. last - 1 : h = BuddyOf(p, r)
    BY <1>10, <2>2
  <2>4. buddyRank[h] = r
    BY <1>2, <2>3 DEF Joins
  <2>5. r # last
    BY <1>2, <2>3, RanksArePlaces
  <2> QED
    BY <2>2, <2>4, <2>5
<1>5. /\ L[A][last] \in Seq(Page) /\ IsInjective(L[A][last])
      /\ ToSet(L[A][last]) = ToSet(fpageList[A][last]) \union {h}
  <2>1. L[A][last] = <<h>> \o fpageList[A][last]
    BY <1>2, <1>3
  <2>2. fpageList[A][last] \in Seq(Page) /\ IsInjective(fpageList[A][last])
    BY <1>1, <1>2
  <2>3. /\ <<h>> \o fpageList[A][last] \in Seq(Page) /\ IsInjective(<<h>> \o fpageList[A][last])
        /\ ToSet(<<h>> \o fpageList[A][last]) = ToSet(fpageList[A][last]) \union {h}
    BY ONLY <1>4, <1>10, <2>2, ConsMembers
  <2> QED
    BY ONLY <2>1, <2>3, Zenon
<1>6. ASSUME NEW r \in k .. last - 1
      PROVE  /\ L[A][r] \in Seq(Page) /\ IsInjective(L[A][r])
             /\ ToSet(L[A][r]) = ToSet(fpageList[A][r]) \ {BuddyOf(p, r)}
  <2>1. r \in Rank /\ r # last
    BY <1>2, RanksArePlaces
  <2>2. L[A][r] = RemoveFirst(fpageList[A][r], BuddyOf(p, r))
    BY <1>3, <2>1
  <2>3. fpageList[A][r] \in Seq(Page) /\ IsInjective(fpageList[A][r])
    BY <1>1, <2>1
  <2>4. /\ RemoveFirst(fpageList[A][r], BuddyOf(p, r)) \in Seq(Page)
        /\ IsInjective(RemoveFirst(fpageList[A][r], BuddyOf(p, r)))
        /\ ToSet(RemoveFirst(fpageList[A][r], BuddyOf(p, r)))
              = ToSet(fpageList[A][r]) \ {BuddyOf(p, r)}
    BY ONLY <2>3, RemoveFirstProperties
  <2> QED
    BY ONLY <2>2, <2>4, Zenon
<1>7. ASSUME NEW a \in Areas, NEW r \in Rank, a # A \/ (r # last /\ r \notin k .. last - 1)
      PROVE  L[a][r] = fpageList[a][r]
  BY <1>1, <1>3, <1>7
<1>8. \A a \in Areas, r \in Rank : L[a][r] \in Seq(Page) /\ IsInjective(L[a][r])
  BY <1>1, <1>5, <1>6, <1>7
<1>9. L \in [Areas -> [Rank -> Seq(Page)]]
  <2>1. \A a \in Areas : L[a] \in [Rank -> Seq(Page)]
    <3>1. SUFFICES ASSUME NEW a \in Areas PROVE L[a] \in [Rank -> Seq(Page)]
      OBVIOUS
    <3>2. CASE a = A
      BY <1>3, <1>8, <3>2
    <3>3. CASE a # A
      BY <1>3, <3>3 DEF BuddyTypeOK
    <3> QED
      BY <3>2, <3>3
  <2>2. L = [a \in Areas |-> L[a]]
    BY <1>0, <1>1 DEF Joined, BuddyTypeOK
  <2> QED
    BY ONLY <2>1, <2>2
<1>11. MembersJoined(L, p, k, A, last, h)
  BY <1>5, <1>6, <1>7 DEF MembersJoined
<1> QED
  BY ONLY <1>0, <1>8, <1>9, <1>10, <1>11, Zenon

\* The ranks once p, of rank k, is freed.
RanksJoined(p, k) ==
    [q \in Page |->
        IF q \in {HeadOf(p, r) : r \in k .. FinalRank(p, k)}
        THEN Max({r \in k .. FinalRank(p, k) : q = HeadOf(p, r)})
        ELSE buddyRank[q]]

\* The block that p becomes lies where p and the buddies were.
PlaceJoined(p, k, A, last, h, gone) ==
    /\ h \in Nat /\ h % PagesOf[last] = 0
    /\ Block(h, last) = Block(p, k) \union UNION {Block(q, buddyRank[q]) : q \in gone}
    /\ Block(h, last) \subseteq AreaPages(A)
    /\ gone \subseteq {q \in Page : InList(q)}
    /\ \A r \in k .. last - 1 : BuddyOf(p, r) \in ToSet(fpageList[A][r])
    /\ \A r \in k .. last : HeadOf(p, r) \in Block(h, last)

\* The buddies are free, and with p they are the block that p becomes.
LEMMA JoinedPlace ==
    ASSUME BuddyTypeOK, ListsConsistent,
           NEW p \in Page, NEW k \in Rank, p % PagesOf[k] = 0,
           Block(p, k) \subseteq AreaPages(AreaOf(p))
    PROVE  PlaceJoined(p, k, AreaOf(p), FinalRank(p, k), LastHead(p, k), Gone(p, k))
<1>0. PICK last, h, gone :
         /\ last = FinalRank(p, k) /\ h = HeadOf(p, last) /\ h = LastHead(p, k)
         /\ gone = {BuddyOf(p, r) : r \in k .. last - 1} /\ gone = Gone(p, k)
  BY DEF LastHead, Gone
<1>1. /\ last \in Rank /\ last \in Nat /\ k \in Nat /\ p \in Nat /\ k <= last
      /\ \A r \in k .. last - 1 : r \in Rank /\ r \in Nat /\ Joins(p, r)
  BY <1>0, LoopEnds, RanksArePlaces
<1>2. ASSUME NEW r \in k .. last - 1
      PROVE  /\ InList(BuddyOf(p, r)) /\ BuddyOf(p, r) \in Page /\ buddyRank[BuddyOf(p, r)] = r
             /\ AreaOf(BuddyOf(p, r)) = AreaOf(p)
             /\ BuddyOf(p, r) \in ToSet(fpageList[AreaOf(p)][r])
             /\ Block(BuddyOf(p, r), r) \subseteq AreaPages(AreaOf(p))
  <2>1. InList(BuddyOf(p, r)) /\ buddyRank[BuddyOf(p, r)] = r /\ AreaOf(BuddyOf(p, r)) = AreaOf(p)
    BY <1>1 DEF Joins
  <2> QED
    BY <2>1, FreeBlock
<1>3. HeadOf(p, k) = p
  BY <1>1, AlignedHead
<1>4. Block(h, last) = Block(p, k) \union UNION {Block(BuddyOf(p, r), r) : r \in k .. last - 1}
  <2>1. Block(HeadOf(p, last), last)
           = Block(HeadOf(p, k), k) \union UNION {Block(BuddyOf(p, r), r) : r \in k .. last - 1}
    BY ONLY <1>1, JoinedBlocks
  <2> QED
    BY ONLY <1>0, <1>3, <2>1, Zenon
<1>5. UNION {Block(BuddyOf(p, r), r) : r \in k .. last - 1}
         = UNION {Block(q, buddyRank[q]) : q \in gone}
  <2>1. \A r \in k .. last - 1 : Block(BuddyOf(p, r), r) = Block(BuddyOf(p, r), buddyRank[BuddyOf(p, r)])
    BY <1>2
  <2>2. ASSUME NEW x, NEW r \in k .. last - 1, x \in Block(BuddyOf(p, r), r)
        PROVE  \E q \in gone : x \in Block(q, buddyRank[q])
    BY <1>0, <2>1, <2>2
  <2>3. ASSUME NEW q \in gone, NEW x \in Block(q, buddyRank[q])
        PROVE  \E r \in k .. last - 1 : x \in Block(BuddyOf(p, r), r)
    <3>1. PICK r \in k .. last - 1 : q = BuddyOf(p, r)
      BY <1>0
    <3> QED
      BY <2>1, <2>3, <3>1
  <2> QED
    BY <2>2, <2>3
<1>6. h \in Nat /\ h % PagesOf[last] = 0
  <2>1. HeadOf(p, last) \in Nat /\ HeadOf(p, last) % PagesOf[last] = 0
    BY ONLY <1>1, Buddies
  <2> QED
    BY ONLY <1>0, <2>1, Zenon
<1>7. Block(h, last) \subseteq AreaPages(AreaOf(p))
  BY <1>2, <1>4
<1>8. ASSUME NEW r \in k .. last PROVE HeadOf(p, r) \in Block(h, last)
  <2>1. r \in Nat /\ r <= last
    BY <1>1
  <2>2. Block(HeadOf(p, r), r) \subseteq Block(h, last)
    <3>1. Block(HeadOf(p, last), last)
             = Block(HeadOf(p, r), r) \union UNION {Block(BuddyOf(p, q), q) : q \in r .. last - 1}
      BY ONLY <1>1, <2>1, JoinedBlocks
    <3> QED
      BY <1>0, <3>1
  <2>3. HeadOf(p, r) \in Nat
    BY <1>1, <2>1, Buddies
  <2>4. HeadOf(p, r) \in Block(HeadOf(p, r), r)
    BY <2>1, <2>3, OwnBlock
  <2> QED
    BY <2>2, <2>4
<1>9. gone \subseteq {q \in Page : InList(q)}
  BY <1>0, <1>2
<1>10. PlaceJoined(p, k, AreaOf(p), last, h, gone)
  BY ONLY <1>2, <1>4, <1>5, <1>6, <1>7, <1>8, <1>9, Zenon DEF PlaceJoined
<1> QED
  BY ONLY <1>0, <1>10, Zenon

\* The ranks once p is freed: that of the new head is the last one.
LEMMA JoinedRanks ==
    ASSUME BuddyTypeOK, NEW p \in Page, NEW k \in Rank,
           LastHead(p, k) \in Page
    PROVE  /\ RanksJoined(p, k) \in [Page -> Rank]
           /\ RanksJoined(p, k)[LastHead(p, k)] = FinalRank(p, k)
           /\ \A q \in Page : (\A r \in k .. FinalRank(p, k) : q # HeadOf(p, r))
                                  => RanksJoined(p, k)[q] = buddyRank[q]
<1>0. PICK Q, last : Q = RanksJoined(p, k) /\ last = FinalRank(p, k) /\ HeadOf(p, last) = LastHead(p, k)
  BY DEF LastHead
<1>1. last \in Rank /\ last \in Nat /\ k \in Nat /\ k <= last
  BY <1>0, LoopEnds, RanksArePlaces
<1> DEFINE S(q) == {r \in k .. last : q = HeadOf(p, r)}
<1>2. ASSUME NEW q \in Page, NEW r \in k .. last, q = HeadOf(p, r)
      PROVE  Max(S(q)) \in S(q) /\ \A x \in S(q) : x <= Max(S(q))
  <2>1. S(q) \in SUBSET (0 .. last) /\ S(q) # {}
    BY <1>1, <1>2
  <2> HIDE DEF S
  <2> QED
    BY <1>1, <2>1, MaxIsGreatest
<1>3. k .. last \subseteq Rank
  BY <1>1, RanksArePlaces DEF Rank
<1>4. ASSUME NEW q \in Page PROVE Q[q] \in Rank
  <2>1. CASE \E r \in k .. last : q = HeadOf(p, r)
    <3>1. PICK r \in k .. last : q = HeadOf(p, r)
      BY <2>1
    <3>2. Max(S(q)) \in k .. last
      BY <1>2, <3>1
    <3>3. Q[q] = Max(S(q))
      BY <1>0, <3>1 DEF RanksJoined
    <3> QED
      BY <1>3, <3>2, <3>3
  <2>2. CASE ~ \E r \in k .. last : q = HeadOf(p, r)
    <3>1. Q[q] = buddyRank[q]
      BY <1>0, <2>2 DEF RanksJoined
    <3> QED
      BY <3>1 DEF BuddyTypeOK
  <2> QED
    BY <2>1, <2>2
<1>5. Q[HeadOf(p, last)] = last
  <2>1. last \in k .. last
    BY <1>1
  <2>2. Q[HeadOf(p, last)] = Max(S(HeadOf(p, last)))
    BY <1>0, <2>1 DEF RanksJoined
  <2>3. /\ Max(S(HeadOf(p, last))) \in k .. last /\ last <= Max(S(HeadOf(p, last)))
    BY <1>0, <1>2, <2>1
  <2> QED
    BY <1>1, <2>2, <2>3
<1>6. ASSUME NEW q \in Page, \A r \in k .. last : q # HeadOf(p, r) PROVE Q[q] = buddyRank[q]
  BY <1>0, <1>6 DEF RanksJoined
<1>7. Q \in [Page -> Rank]
  BY <1>0, <1>4 DEF RanksJoined
<1> QED
  BY ONLY <1>0, <1>5, <1>6, <1>7, Zenon

\* A block p of rank k that is in no list becomes free: what page_free() does
\* to lists and ranks, H being the blocks that stay allocated.
LEMMA Freed ==
    ASSUME BuddyTypeOK, ListsConsistent, Coalesced,
           NEW p \in Page, NEW k \in Rank, p % PagesOf[k] = 0,
           Block(p, k) \subseteq AreaPages(AreaOf(p)),
           NEW H \in SUBSET Page, p \notin Free \union H, Free \cap H = {},
           NEW R, R[p] = k, \A q \in Free \union H : R[q] = buddyRank[q],
           NEW U \in SUBSET Page, Laid(Free \union H \union {p}, R, U),
           fpageList' = Joined(p, k), buddyRank' = RanksJoined(p, k)
    PROVE  /\ fpageList' \in [Areas -> [Rank -> Seq(Page)]] /\ buddyRank' \in [Page -> Rank]
           /\ ListsConsistent' /\ Coalesced'
           /\ Free' \cap H = {} /\ Laid(Free' \union H, buddyRank', U)
           /\ \A q \in H : buddyRank'[q] = buddyRank[q]
<1>1. PICK last : last = FinalRank(p, k)
  OBVIOUS
<1>2. PICK h : h = HeadOf(p, last) /\ h = LastHead(p, k)
  BY <1>1 DEF LastHead
<1>3. PICK gone : gone = {BuddyOf(p, r) : r \in k .. last - 1} /\ gone = Gone(p, k)
  BY <1>1 DEF Gone
<1>4. PICK A \in Areas : A = AreaOf(p)
  BY AreaFound
<1>5. /\ last \in Rank /\ last \in Nat /\ k \in Nat /\ p \in Nat /\ k <= last
      /\ last = RankNum - 1 \/ ~ Joins(p, last)
      /\ \A r \in k .. last - 1 : r \in Rank /\ r \in Nat /\ Joins(p, r)
  BY <1>1, LoopEnds, RanksArePlaces
<1>6. /\ h \in Nat /\ h % PagesOf[last] = 0
      /\ Block(h, last) = Block(p, k) \union UNION {Block(q, buddyRank[q]) : q \in gone}
      /\ Block(h, last) \subseteq AreaPages(A)
      /\ gone \subseteq Free
      /\ \A r \in k .. last - 1 : BuddyOf(p, r) \in ToSet(fpageList[A][r])
      /\ \A r \in k .. last : HeadOf(p, r) \in Block(h, last)
  <2>1. PlaceJoined(p, k, AreaOf(p), FinalRank(p, k), LastHead(p, k), Gone(p, k))
    BY JoinedPlace
  <2>2. PlaceJoined(p, k, A, last, h, gone)
    BY ONLY <1>1, <1>2, <1>3, <1>4, <2>1, Zenon
  <2> QED
    BY ONLY <2>2, Zenon DEF PlaceJoined, Free
<1> DEFINE S == Free \union H \union {p}
           X == gone \union {p}
<1>7. \A q \in S : q \in Nat /\ R[q] \in Nat /\ q \in Block(q, R[q])
  <2>1. \A q \in S : q \in Nat /\ R[q] \in Nat
    BY RanksArePlaces DEF Free, BuddyTypeOK
  <2> QED
    BY <2>1, OwnBlock
<1>8. X \in SUBSET S /\ S \ X = (Free \ gone) \union H
  BY <1>6
<1>9. Block(h, last) = UNION {Block(q, R[q]) : q \in X}
  <2>1. \A q \in gone : R[q] = buddyRank[q]
    BY <1>6
  <2>2. UNION {Block(q, R[q]) : q \in X} = Block(p, k) \union UNION {Block(q, R[q]) : q \in gone}
    <3>1. \A x : x \in UNION {Block(q, R[q]) : q \in X} <=> x \in Block(p, k) \/ \E q \in gone : x \in Block(q, R[q])
      OBVIOUS
    <3> QED
      BY <3>1
  <2>3. UNION {Block(q, R[q]) : q \in gone} = UNION {Block(q, buddyRank[q]) : q \in gone}
    BY <2>1
  <2> QED
    BY <1>6, <2>2, <2>3
<1>10. \A q \in S \ X : q \notin Block(h, last)
  <2>1. SUFFICES ASSUME NEW q \in S \ X, q \in Block(h, last) PROVE FALSE
    OBVIOUS
  <2>2. PICK x \in X : q \in Block(x, R[x])
    BY <1>9, <2>1
  <2>3. q # x /\ q \in S /\ x \in S /\ q \in Block(q, R[q])
    BY <1>7, <1>8
  <2> QED
    BY <2>2, <2>3 DEF Laid
<1>11. h \in Block(h, last) /\ h \in Page /\ h \notin S \ X
  <2>1. h \in Block(h, last)
    BY <1>5, <1>6, OwnBlock
  <2>2. Block(h, last) \subseteq U
    BY <1>8, <1>9 DEF Laid
  <2> QED
    BY <1>10, <2>1, <2>2
<1>12. /\ buddyRank' \in [Page -> Rank] /\ buddyRank'[h] = last
       /\ \A q \in S \ X : buddyRank'[q] = buddyRank[q]
  <2>1. /\ buddyRank' \in [Page -> Rank] /\ buddyRank'[h] = last
        /\ \A q \in Page : (\A r \in k .. last : q # HeadOf(p, r)) => buddyRank'[q] = buddyRank[q]
    <3>1. /\ RanksJoined(p, k) \in [Page -> Rank]
          /\ RanksJoined(p, k)[LastHead(p, k)] = FinalRank(p, k)
          /\ \A q \in Page : (\A r \in k .. FinalRank(p, k) : q # HeadOf(p, r))
                                 => RanksJoined(p, k)[q] = buddyRank[q]
      BY <1>2, <1>11, JoinedRanks
    <3> QED
      BY ONLY <1>1, <1>2, <3>1, buddyRank' = RanksJoined(p, k), Zenon
  <2>2. \A q \in S \ X : q \in Page /\ \A r \in k .. last : q # HeadOf(p, r)
    BY <1>6, <1>10 DEF Free
  <2> QED
    BY <2>1, <2>2
<1>13. /\ fpageList' \in [Areas -> [Rank -> Seq(Page)]]
       /\ \A a \in Areas, r \in Rank : IsInjective(fpageList'[a][r])
       /\ MembersJoined(fpageList', p, k, A, last, h)
  <2>1. ~ InList(p)
    BY DEF Free
  <2>2. LastHead(p, k) \in Page /\ (~ InList(LastHead(p, k)) \/ LastHead(p, k) \in Gone(p, k))
    BY <1>2, <1>3, <1>8, <1>11 DEF Free
  <2>3. /\ Joined(p, k) \in [Areas -> [Rank -> Seq(Page)]]
        /\ \A a \in Areas, r \in Rank : IsInjective(Joined(p, k)[a][r])
        /\ MembersJoined(Joined(p, k), p, k, AreaOf(p), FinalRank(p, k), LastHead(p, k))
    BY <2>1, <2>2, JoinedLists
  <2> QED
    BY ONLY <1>1, <1>2, <1>4, <2>3, fpageList' = Joined(p, k), Zenon
<1>14. ASSUME NEW a \in Areas, NEW r \in Rank, NEW q \in ToSet(fpageList'[a][r])
       PROVE  \/ a = A /\ r = last /\ q = h
              \/ q \in ToSet(fpageList[a][r]) /\ q \in Free \ gone
  <2>0. \A x \in k .. last - 1 : buddyRank[BuddyOf(p, x)] = x /\ AreaOf(BuddyOf(p, x)) = A /\ x # last
    BY <1>4, <1>5 DEF Joins
  <2>1. CASE a = A /\ r = last
    <3>1. q = h \/ q \in ToSet(fpageList[A][last])
      BY <1>13, <2>1 DEF MembersJoined
    <3>2. CASE q \in ToSet(fpageList[A][last])
      <4>1. q \in Page /\ InList(q) /\ buddyRank[q] = last
        BY <1>5, <3>2, FreeWhere
      <4>2. q \notin gone
        BY <1>3, <2>0, <4>1
      <4> QED
        BY <2>1, <3>2, <4>1, <4>2 DEF Free
    <3> QED
      BY <2>1, <3>1, <3>2
  <2>2. CASE a = A /\ r \in k .. last - 1
    <3>1. q \in ToSet(fpageList[A][r]) /\ q # BuddyOf(p, r)
      <4>1. ToSet(fpageList'[A][r]) = ToSet(fpageList[A][r]) \ {BuddyOf(p, r)}
        BY ONLY <1>13, <2>2, Zenon DEF MembersJoined
      <4> QED
        BY <2>2, <4>1
    <3>2. q \in Page /\ InList(q) /\ buddyRank[q] = r
      BY <3>1, FreeWhere
    <3>3. q \notin gone
      BY <1>3, <2>0, <3>1, <3>2
    <3> QED
      BY <2>2, <3>1, <3>2, <3>3 DEF Free
  <2>3. CASE a # A \/ (r # last /\ r \notin k .. last - 1)
    <3>1. q \in ToSet(fpageList[a][r])
      BY <1>13, <2>3 DEF MembersJoined
    <3>2. q \in Page /\ InList(q) /\ buddyRank[q] = r /\ AreaOf(q) = a
      BY <3>1, FreeWhere
    <3>3. q \notin gone
      BY <1>3, <2>0, <2>3, <3>2
    <3> QED
      BY <3>1, <3>2, <3>3 DEF Free
  <2> QED
    BY <2>1, <2>2, <2>3
<1>16. ASSUME NEW q \in Free \ gone
       PROVE  \E a \in Areas, r \in Rank : q \in ToSet(fpageList'[a][r])
  <2>1. InList(q) /\ q \notin gone
    BY DEF Free
  <2>2. /\ AreaOf(q) \in Areas /\ buddyRank[q] \in Rank
        /\ q \in ToSet(fpageList[AreaOf(q)][buddyRank[q]])
    BY <2>1, FreeBlock
  <2>3. PICK a \in Areas, r \in Rank : q \in ToSet(fpageList[a][r])
    BY <2>2
  <2>4. CASE a # A \/ (r # last /\ r \notin k .. last - 1)
    BY <1>13, <2>3, <2>4 DEF MembersJoined
  <2>5. CASE a = A /\ r = last
    BY <1>13, <2>3, <2>5 DEF MembersJoined
  <2>6. CASE a = A /\ r \in k .. last - 1
    <3>1. q # BuddyOf(p, r)
      BY <1>3, <2>1, <2>6
    <3>2. ToSet(fpageList'[A][r]) = ToSet(fpageList[A][r]) \ {BuddyOf(p, r)}
      BY ONLY <1>13, <2>6, Zenon DEF MembersJoined
    <3> QED
      BY <2>3, <2>6, <3>1, <3>2
  <2> QED
    BY <2>4, <2>5, <2>6
<1>17. Free' = (Free \ gone) \union {h}
  <2>1. Free' = {q \in Page : \E a \in Areas, r \in Rank : q \in ToSet(fpageList'[a][r])}
    BY DEF Free, InList
  <2>2. \E a \in Areas, r \in Rank : h \in ToSet(fpageList'[a][r])
    BY <1>5, <1>13 DEF MembersJoined
  <2>3. ASSUME NEW q \in Free' PROVE q \in (Free \ gone) \union {h}
    BY <1>14, <2>1
  <2>4. Free \ gone \subseteq Free'
    BY <1>16, <2>1 DEF Free
  <2> QED
    BY <1>11, <2>1, <2>2, <2>3, <2>4
<1>15. Laid(Free' \union H, buddyRank', U) /\ Free' \cap H = {}
  <2>1. Laid((S \ X) \union {h}, buddyRank', U)
    <3>1. \A q \in S \ X : buddyRank'[q] = R[q]
      <4>1. S \ X \subseteq Free \union H
        BY <1>8
      <4> QED
        BY <1>12, <4>1
    <3>2. UNION {Block(q, buddyRank'[q]) : q \in {h}} = Block(h, last)
      BY <1>12
    <3>3. \A q, x \in {h} : q # x => Block(q, buddyRank'[q]) \cap Block(x, buddyRank'[x]) = {}
      OBVIOUS
    <3>4. Laid(S, R, U)
      OBVIOUS
    <3>5. UNION {Block(q, R[q]) : q \in X} = UNION {Block(q, buddyRank'[q]) : q \in {h}}
      BY <1>9, <3>2
    <3> HIDE DEF S, X
    <3> QED
      BY ONLY <1>8, <3>1, <3>3, <3>4, <3>5, Exchange
  <2>2. (S \ X) \union {h} = Free' \union H
    BY <1>8, <1>17
  <2>3. Free' \cap H = {}
    BY <1>8, <1>11, <1>17
  <2> QED
    BY ONLY <2>1, <2>2, <2>3, Zenon
<1>18. ListsConsistent'
  <2>1. ASSUME NEW a \in Areas, NEW r \in Rank, NEW q \in ToSet(fpageList'[a][r])
        PROVE  /\ buddyRank'[q] = r /\ q % PagesOf[r] = 0 /\ Block(q, r) \subseteq AreaPages(a)
    <3>1. CASE a = A /\ r = last /\ q = h
      BY <1>6, <1>12, <3>1
    <3>2. CASE q \in ToSet(fpageList[a][r]) /\ q \in Free \ gone
      <4>1. q \in S \ X
        BY <1>8, <3>2
      <4>2. buddyRank'[q] = buddyRank[q]
        BY <1>12, <4>1
      <4> QED
        BY <3>2, <4>2 DEF ListsConsistent
    <3> QED
      BY <1>14, <3>1, <3>2
  <2> QED
    BY <1>13, <2>1 DEF ListsConsistent
<1>19. ASSUME last # RankNum - 1 PROVE BuddyOf(h, last) # h /\ BuddyOf(h, last) \notin ToSet(fpageList[A][last])
  <2>1. BuddyOf(h, last) = BuddyOf(p, last) /\ Block(h, last) \cap Block(BuddyOf(p, last), last) = {}
    BY <1>2, <1>5, Buddies
  <2>2. BuddyOf(h, last) # h
    BY <1>11, <2>1
  <2>3. ASSUME BuddyOf(p, last) \in ToSet(fpageList[A][last]) PROVE FALSE
    <3>1. /\ InList(BuddyOf(p, last)) /\ BuddyOf(p, last) \in Page
          /\ buddyRank[BuddyOf(p, last)] = last /\ AreaOf(BuddyOf(p, last)) = A
      BY <1>5, <2>3, FreeWhere
    <3>2. BuddyOf(p, last) < NPages
      BY <3>1, RanksArePlaces DEF Page
    <3>3. Joins(p, last)
      BY <1>4, <3>1, <3>2 DEF Joins
    <3> QED
      BY <1>5, <1>19, <3>3
  <2> QED
    BY <2>1, <2>2, <2>3
<1>20. Coalesced'
  <2>1. SUFFICES ASSUME NEW a \in Areas, NEW r \in 0 .. RankNum - 2, NEW q \in ToSet(fpageList'[a][r]),
                        BuddyOf(q, r) \in ToSet(fpageList'[a][r])
                 PROVE  FALSE
    BY DEF Coalesced
  <2>2. r \in Rank /\ r # RankNum - 1 /\ r \in Nat
    BY RanksArePlaces DEF Rank
  <2>3. \/ a = A /\ r = last /\ q = h
        \/ q \in ToSet(fpageList[a][r])
    BY <1>14, <2>2
  <2>4. \/ a = A /\ r = last /\ BuddyOf(q, r) = h
        \/ BuddyOf(q, r) \in ToSet(fpageList[a][r])
    BY <1>14, <2>1, <2>2
  <2>5. CASE a = A /\ r = last /\ q = h
    BY <1>19, <2>2, <2>4, <2>5
  <2>6. CASE q \in ToSet(fpageList[a][r]) /\ BuddyOf(q, r) \in ToSet(fpageList[a][r])
    BY <2>6 DEF Coalesced
  <2>7. CASE q \in ToSet(fpageList[a][r]) /\ a = A /\ r = last /\ BuddyOf(q, r) = h
    <3>1. q \in Nat /\ q % PagesOf[r] = 0
      BY <2>2, <2>7, FreeWhere, RanksArePlaces DEF ListsConsistent
    <3>2. HeadOf(q, r) = q /\ BuddyOf(BuddyOf(q, r), r) = HeadOf(q, r)
      BY <2>2, <3>1, AlignedHead, Buddies
    <3> QED
      BY <1>19, <2>2, <2>7, <3>2
  <2> QED
    BY <2>3, <2>4, <2>5, <2>6, <2>7
<1> QED
  BY <1>12, <1>13, <1>15, <1>18, <1>20, <1>8

\* What taking the head off leaves.
LEMMA TailMembers ==
    ASSUME NEW T, NEW s \in Seq(T), IsInjective(s), s # <<>>
    PROVE  /\ Head(s) \in ToSet(s)
           /\ Tail(s) \in Seq(T) /\ IsInjective(Tail(s))
           /\ ToSet(Tail(s)) = ToSet(s) \ {Head(s)}
<1>1. /\ Tail(s) \in Seq(T) /\ Len(s) \in Nat \ {0} /\ Len(Tail(s)) = Len(s) - 1
      /\ \A j \in 1 .. Len(Tail(s)) : Tail(s)[j] = s[j + 1]
      /\ Head(s) = s[1]
  <2>1. /\ Tail(s) \in Seq(T) /\ Len(Tail(s)) = Len(s) - 1
        /\ \A j \in 1 .. Len(Tail(s)) : Tail(s)[j] = s[j + 1]
    BY HeadTailProperties
  <2>2. Len(s) \in Nat /\ Len(s) # 0
    BY SequenceMembers, EmptySeq
  <2>3. Head(s) = s[1]
    OBVIOUS
  <2> QED
    BY <2>1, <2>2, <2>3
<1>2. PICK n \in Nat : Len(s) = n + 1 /\ Len(Tail(s)) = n
  <2>1. Len(s) - 1 \in Nat /\ Len(s) = (Len(s) - 1) + 1
    BY <1>1
  <2> QED
    BY <1>1, <2>1
<1>3. /\ DOMAIN s = 1 .. n + 1 /\ DOMAIN Tail(s) = 1 .. n
      /\ \A x : x \in ToSet(s) <=> \E j \in 1 .. n + 1 : s[j] = x
      /\ \A x : x \in ToSet(Tail(s)) <=> \E j \in 1 .. n : Tail(s)[j] = x
  <2>1. PICK t \in Seq(T) : t = Tail(s) /\ Len(t) = n
    BY <1>1, <1>2
  <2>2. /\ DOMAIN s = 1 .. Len(s)
        /\ \A x : x \in ToSet(s) <=> \E j \in 1 .. Len(s) : s[j] = x
    BY ONLY s \in Seq(T), SequenceMembers
  <2>3. /\ DOMAIN t = 1 .. Len(t)
        /\ \A x : x \in ToSet(t) <=> \E j \in 1 .. Len(t) : t[j] = x
    BY ONLY t \in Seq(T), SequenceMembers
  <2> QED
    BY ONLY <1>2, <2>1, <2>2, <2>3, Zenon
<1>4. \A j \in 1 .. n : Tail(s)[j] = s[j + 1] /\ j + 1 \in 1 .. n + 1 /\ j + 1 # 1
  BY <1>1, <1>2
<1>5. \A i, j \in 1 .. n + 1 : s[i] = s[j] => i = j
  BY <1>3 DEF IsInjective
<1>6. IsInjective(Tail(s))
  <2>1. \A i, j \in 1 .. n : Tail(s)[i] = Tail(s)[j] => i = j
    <3>1. SUFFICES ASSUME NEW i \in 1 .. n, NEW j \in 1 .. n, Tail(s)[i] = Tail(s)[j] PROVE i = j
      OBVIOUS
    <3>2. i + 1 = j + 1
      BY <1>4, <1>5, <3>1
    <3> QED
      BY <3>2
  <2> QED
    BY <1>3, <2>1 DEF IsInjective
<1>7. 1 \in 1 .. n + 1
  OBVIOUS
<1>8. ASSUME NEW x PROVE x \in ToSet(Tail(s)) <=> x \in ToSet(s) /\ x # Head(s)
  <2>1. ASSUME NEW j \in 1 .. n, Tail(s)[j] = x PROVE x \in ToSet(s) /\ x # Head(s)
    <3>1. s[j + 1] = x /\ j + 1 \in 1 .. n + 1 /\ j + 1 # 1
      BY <1>4, <2>1
    <3>2. s[1] # x
      BY <1>5, <1>7, <3>1
    <3> QED
      BY <1>1, <1>3, <3>1, <3>2
  <2>2. ASSUME NEW i \in 1 .. n + 1, s[i] = x, x # Head(s) PROVE x \in ToSet(Tail(s))
    <3>1. i # 1
      BY <1>1, <2>2
    <3>2. i - 1 \in 1 .. n /\ (i - 1) + 1 = i
      BY <3>1
    <3>3. Tail(s)[i - 1] = x
      BY <1>4, <2>2, <3>2
    <3> QED
      BY <1>3, <3>2, <3>3
  <2> QED
    BY <1>3, <2>1, <2>2
<1> QED
  BY <1>1, <1>3, <1>6, <1>7, <1>8

\* The ranks once a block p of rank i is cut down to rank k.
RanksCut(p, i, k) ==
    [q \in Page |->
        IF q = p THEN k
        ELSE IF q \in {p + PagesOf[r] : r \in k .. i - 1}
             THEN CHOOSE r \in k .. i - 1 : q = p + PagesOf[r]
             ELSE buddyRank[q]]

\* What cutting the block p of rank i down to rank k gives.
HalvesRight(p, i, k) ==
    /\ p % PagesOf[k] = 0 /\ Block(p, k) \subseteq Block(p, i)
    /\ \A r \in k .. i - 1 :
          /\ p + PagesOf[r] \in Nat /\ p + PagesOf[r] \in Block(p, i) /\ p + PagesOf[r] # p
          /\ (p + PagesOf[r]) % PagesOf[r] = 0
          /\ BuddyOf(p, r) = p + PagesOf[r] /\ BuddyOf(p + PagesOf[r], r) = p
          /\ Block(p + PagesOf[r], r) \subseteq Block(p, i)
          /\ Block(p + PagesOf[r], r) \cap Block(p, k) = {}
    /\ \A r, q \in k .. i - 1 : r # q =>
          /\ p + PagesOf[r] # p + PagesOf[q]
          /\ Block(p + PagesOf[r], r) \cap Block(p + PagesOf[q], q) = {}

\* The halves that cutting sets free.
LEMMA HalvesOf ==
    ASSUME NEW p \in Nat, NEW i \in Nat, NEW k \in Nat, k <= i, p % PagesOf[i] = 0
    PROVE  HalvesRight(p, i, k)
<1>1. p % PagesOf[k] = 0
  BY AlignedBelow
<1>2. Block(p, i) = Block(p, k) \union UNION {Block(p + PagesOf[r], r) : r \in k .. i - 1}
  BY CutBlocks
<1>3. ASSUME NEW r \in k .. i - 1
      PROVE  /\ p + PagesOf[r] \in Nat /\ p + PagesOf[r] # p /\ r \in Nat
             /\ (p + PagesOf[r]) % PagesOf[r] = 0
             /\ BuddyOf(p, r) = p + PagesOf[r] /\ BuddyOf(p + PagesOf[r], r) = p
             /\ p + PagesOf[r] \in Block(p + PagesOf[r], r)
             /\ Block(p + PagesOf[r], r) \cap Block(p, k) = {}
  <2>1. r \in Nat /\ r + 1 \in Nat /\ r + 1 <= i /\ k <= r
    OBVIOUS
  <2>2. PICK w \in Nat \ {0} : w = PagesOf[r] /\ PagesOf[r + 1] = 2 * w
    BY <2>1, PagesOfStep
  <2>3. p % PagesOf[r + 1] = 0
    BY ONLY <2>1, p \in Nat, i \in Nat, p % PagesOf[i] = 0, AlignedBelow
  <2>4. p % (2 * w) = 0
    BY <2>2, <2>3
  <2>5. (p + w) % w = 0 /\ BuddyOf(p, r) = p + w /\ BuddyOf(p + w, r) = p
    BY ONLY <2>1, <2>2, <2>4, p \in Nat, PairOf
  <2>6. p + w \in Nat /\ p + w # p
    BY <2>2
  <2>7. p + w \in Block(p + w, r)
    BY <2>1, <2>6, OwnBlock
  <2>8. Block(p, k) \cap Block(p + PagesOf[r], r) = {}
    BY <2>1, CutApart
  <2> QED
    BY <2>1, <2>2, <2>5, <2>6, <2>7, <2>8
<1>4. ASSUME NEW r \in k .. i - 1, NEW q \in k .. i - 1, r < q
      PROVE  Block(p + PagesOf[r], r) \cap Block(p + PagesOf[q], q) = {}
  BY <1>4, CutApart
<1>5. ASSUME NEW r \in k .. i - 1, NEW q \in k .. i - 1, r # q
      PROVE  /\ p + PagesOf[r] # p + PagesOf[q]
             /\ Block(p + PagesOf[r], r) \cap Block(p + PagesOf[q], q) = {}
  <2>1. r < q \/ q < r
    BY <1>5
  <2>2. Block(p + PagesOf[r], r) \cap Block(p + PagesOf[q], q) = {}
    BY <1>4, <2>1
  <2> QED
    BY <1>3, <2>2
<1>6. Block(p, k) \subseteq Block(p, i) /\ \A r \in k .. i - 1 : Block(p + PagesOf[r], r) \subseteq Block(p, i)
  BY <1>2
<1> QED
  BY <1>1, <1>3, <1>5, <1>6 DEF HalvesRight

\* What page_alloc() does to lists and ranks when it cuts the block p of rank i
\* of area A down to rank k, H being the blocks allocated before.
BlockTaken(p, i, k, A, H, U) ==
    /\ fpageList' \in [Areas -> [Rank -> Seq(Page)]] /\ buddyRank' \in [Page -> Rank]
    /\ ListsConsistent' /\ Coalesced'
    /\ p \in Free /\ buddyRank[p] = i /\ Free' \cap (H \union {p}) = {}
    /\ Laid(Free' \union (H \union {p}), buddyRank', U)
    /\ \A q \in H : buddyRank'[q] = buddyRank[q]
    /\ buddyRank'[p] = k /\ p % PagesOf[k] = 0
    /\ Block(p, k) \subseteq AreaPages(A) /\ Block(p, k) \subseteq Block(p, i)

\* A block p of rank i is taken out of its list and cut down to rank k.
LEMMA Taken ==
    ASSUME BuddyTypeOK, ListsConsistent, Coalesced,
           NEW H \in SUBSET Page, Free \cap H = {},
           NEW U \in SUBSET Page, Laid(Free \union H, buddyRank, U),
           NEW A \in Areas, NEW i \in Rank, NEW k \in Rank, k <= i,
           fpageList[A][i] # <<>>, NEW p, p = Head(fpageList[A][i]),
           fpageList' = Cut(A, p, i, k), buddyRank' = RanksCut(p, i, k)
    PROVE  BlockTaken(p, i, k, A, H, U)
<1> DEFINE half(r) == p + PagesOf[r]
           Half == {half(r) : r \in k .. i - 1}
<1>1. /\ fpageList[A][i] \in Seq(Page) /\ IsInjective(fpageList[A][i])
      /\ \A a \in Areas, r \in Rank : fpageList[a][r] \in Seq(Page) /\ IsInjective(fpageList[a][r])
  BY DEF BuddyTypeOK, ListsConsistent
<1>2. /\ p \in ToSet(fpageList[A][i])
      /\ Tail(fpageList[A][i]) \in Seq(Page) /\ IsInjective(Tail(fpageList[A][i]))
      /\ ToSet(Tail(fpageList[A][i])) = ToSet(fpageList[A][i]) \ {p}
  BY <1>1, TailMembers
<1>3. /\ p \in Page /\ InList(p) /\ buddyRank[p] = i /\ AreaOf(p) = A /\ p \in Free
      /\ p % PagesOf[i] = 0 /\ Block(p, i) \subseteq AreaPages(A)
  <2>1. p \in Page /\ InList(p) /\ buddyRank[p] = i /\ AreaOf(p) = A
    BY <1>2, FreeWhere
  <2> QED
    BY <1>2, <2>1 DEF Free, ListsConsistent
<1>4. /\ i \in Nat /\ k \in Nat /\ p \in Nat
      /\ \A r \in k .. i - 1 : r \in Rank /\ r \in Nat /\ r # i
  BY <1>3, RanksArePlaces DEF Rank
<1>5. /\ p % PagesOf[k] = 0 /\ Block(p, k) \subseteq Block(p, i)
      /\ \A r \in k .. i - 1 :
            /\ half(r) \in Nat /\ half(r) \in Block(p, i) /\ half(r) # p
            /\ half(r) % PagesOf[r] = 0
            /\ BuddyOf(p, r) = half(r) /\ BuddyOf(half(r), r) = p
            /\ Block(half(r), r) \subseteq Block(p, i)
            /\ Block(half(r), r) \cap Block(p, k) = {}
      /\ \A r, q \in k .. i - 1 : r # q =>
            half(r) # half(q) /\ Block(half(r), r) \cap Block(half(q), q) = {}
  <2>1. i \in Nat /\ k \in Nat /\ p \in Nat /\ k <= i /\ p % PagesOf[i] = 0
    BY <1>3, <1>4
  <2>2. HalvesRight(p, i, k)
    BY ONLY <2>1, HalvesOf
  <2> QED
    BY ONLY <2>2 DEF HalvesRight
<1>6. \A q \in Free \union H : q \in Block(q, buddyRank[q])
  <2>1. \A q \in Free \union H : q \in Nat /\ buddyRank[q] \in Nat
    BY RanksArePlaces DEF Free, BuddyTypeOK
  <2> QED
    BY <2>1, OwnBlock
<1>7. /\ \A r \in k .. i - 1 : half(r) \in Page /\ half(r) \notin Free \union H
      /\ p \notin H
  <2>1. Block(p, i) \subseteq U
    BY <1>3 DEF Laid
  <2>2. \A q \in Free \union H : q # p => Block(q, buddyRank[q]) \cap Block(p, i) = {}
    BY <1>3 DEF Laid
  <2>3. ASSUME NEW r \in k .. i - 1 PROVE half(r) \in Page /\ half(r) \notin Free \union H
    BY <1>5, <1>6, <2>1, <2>2
  <2> QED
    BY <1>3, <2>3
<1> HIDE DEF half
<1>8. /\ buddyRank' \in [Page -> Rank] /\ buddyRank'[p] = k
      /\ \A r \in k .. i - 1 : buddyRank'[half(r)] = r
      /\ \A q \in (Free \union H) \ {p} : buddyRank'[q] = buddyRank[q]
  <2>1. buddyRank' = [q \in Page |->
            IF q = p THEN k
            ELSE IF q \in Half THEN CHOOSE r \in k .. i - 1 : q = half(r) ELSE buddyRank[q]]
    BY DEF RanksCut, half
  <2>2. ASSUME NEW r \in k .. i - 1
        PROVE  half(r) \in Half /\ (CHOOSE x \in k .. i - 1 : half(r) = half(x)) = r
    <3>1. \A x \in k .. i - 1 : half(r) = half(x) => x = r
      BY <1>5
    <3> QED
      BY <3>1
  <2>3. \A r \in k .. i - 1 : buddyRank'[half(r)] = r
    BY <1>5, <1>7, <2>1, <2>2
  <2>4. \A q \in (Free \union H) \ {p} : q \in Page /\ q \notin Half
    BY <1>7 DEF Free
  <2>5. \A q \in (Free \union H) \ {p} : buddyRank'[q] = buddyRank[q]
    BY <2>1, <2>4
  <2>6. ASSUME NEW q \in Page PROVE buddyRank'[q] \in Rank
    <3>1. CASE q = p
      BY <2>1, <3>1
    <3>2. CASE q # p /\ q \in Half
      <4>1. PICK r \in k .. i - 1 : q = half(r)
        BY <3>2
      <4> QED
        BY <1>4, <2>3, <4>1
    <3>3. CASE q # p /\ q \notin Half
      BY <2>1, <3>3 DEF BuddyTypeOK
    <3> QED
      BY <3>1, <3>2, <3>3
  <2>7. buddyRank' \in [Page -> Rank]
    BY <2>1, <2>6
  <2> QED
    BY <1>3, <2>1, <2>3, <2>5, <2>7
<1>9. /\ DOMAIN fpageList' = Areas /\ DOMAIN fpageList'[A] = Rank
      /\ \A a \in Areas : a # A => fpageList'[a] = fpageList[a]
      /\ fpageList'[A] = [r \in Rank |->
            IF r = i THEN Tail(fpageList[A][r])
            ELSE IF r \in k .. i - 1 THEN <<half(r)>> \o fpageList[A][r] ELSE fpageList[A][r]]
  BY DEF Cut, BuddyTypeOK, half
<1>10. /\ fpageList'[A][i] \in Seq(Page) /\ IsInjective(fpageList'[A][i])
       /\ ToSet(fpageList'[A][i]) = ToSet(fpageList[A][i]) \ {p}
  <2>1. fpageList'[A][i] = Tail(fpageList[A][i])
    BY <1>9
  <2> QED
    BY ONLY <1>2, <2>1, Zenon
<1>11. ASSUME NEW r \in k .. i - 1
       PROVE  /\ fpageList'[A][r] \in Seq(Page) /\ IsInjective(fpageList'[A][r])
              /\ ToSet(fpageList'[A][r]) = ToSet(fpageList[A][r]) \union {half(r)}
  <2>1. r \in Rank /\ r # i /\ half(r) \in Page /\ half(r) \notin Free
    BY <1>4, <1>7
  <2>2. fpageList'[A][r] = <<half(r)>> \o fpageList[A][r]
    BY <1>9, <2>1
  <2>3. half(r) \notin ToSet(fpageList[A][r])
    BY <2>1, FreeWhere DEF Free
  <2>4. fpageList[A][r] \in Seq(Page) /\ IsInjective(fpageList[A][r])
    BY <1>1, <2>1
  <2>5. /\ <<half(r)>> \o fpageList[A][r] \in Seq(Page)
        /\ IsInjective(<<half(r)>> \o fpageList[A][r])
        /\ ToSet(<<half(r)>> \o fpageList[A][r]) = ToSet(fpageList[A][r]) \union {half(r)}
    BY ONLY <2>1, <2>3, <2>4, ConsMembers
  <2> QED
    BY ONLY <2>2, <2>5, Zenon
<1>12. ASSUME NEW a \in Areas, NEW r \in Rank, a # A \/ (r # i /\ r \notin k .. i - 1)
       PROVE  fpageList'[a][r] = fpageList[a][r]
  <2>1. CASE a # A
    BY <1>9, <2>1
  <2>2. CASE a = A
    <3>1. r # i /\ r \notin k .. i - 1
      BY <1>12, <2>2
    <3>2. fpageList'[A][r] = fpageList[A][r]
      BY ONLY <1>9, <3>1, r \in Rank
    <3> QED
      BY <2>2, <3>2
  <2> QED
    BY <2>1, <2>2
<1>13. \A a \in Areas, r \in Rank : fpageList'[a][r] \in Seq(Page) /\ IsInjective(fpageList'[a][r])
  BY <1>1, <1>10, <1>11, <1>12
<1>14. fpageList' \in [Areas -> [Rank -> Seq(Page)]]
  <2>1. \A a \in Areas : fpageList'[a] \in [Rank -> Seq(Page)]
    <3>1. SUFFICES ASSUME NEW a \in Areas PROVE fpageList'[a] \in [Rank -> Seq(Page)]
      OBVIOUS
    <3>2. CASE a = A
      BY <1>9, <1>13, <3>2
    <3>3. CASE a # A
      BY <1>9, <3>3 DEF BuddyTypeOK
    <3> QED
      BY <3>2, <3>3
  <2>2. fpageList' = [a \in Areas |-> fpageList'[a]]
    BY DEF Cut, BuddyTypeOK
  <2> QED
    BY ONLY <2>1, <2>2
<1>15. ASSUME NEW a \in Areas, NEW r \in Rank, NEW q \in ToSet(fpageList'[a][r])
       PROVE  \/ a = A /\ r \in k .. i - 1 /\ q = half(r)
              \/ q \in ToSet(fpageList[a][r]) /\ q # p
  <2>1. CASE a = A /\ r = i
    BY <1>10, <2>1
  <2>2. CASE a = A /\ r \in k .. i - 1
    <3>1. q \in ToSet(fpageList[A][r]) => q # p
      BY <1>3, <1>4, <2>2, FreeWhere
    <3> QED
      BY <1>11, <2>2, <3>1
  <2>3. CASE a # A \/ (r # i /\ r \notin k .. i - 1)
    <3>1. q \in ToSet(fpageList[a][r])
      BY <1>12, <2>3
    <3>2. buddyRank[q] = r /\ AreaOf(q) = a
      BY <3>1, FreeWhere
    <3>3. q # p
      BY <1>3, <2>3, <3>2
    <3> QED
      BY <3>1, <3>3
  <2> QED
    BY <2>1, <2>2, <2>3
<1>16. ASSUME NEW q \in Free \ {p}
       PROVE  \E a \in Areas, r \in Rank : q \in ToSet(fpageList'[a][r])
  <2>1. InList(q) /\ q # p
    BY DEF Free
  <2>2. PICK a \in Areas, r \in Rank : q \in ToSet(fpageList[a][r])
    BY <2>1 DEF InList
  <2>3. CASE a = A /\ r = i
    BY <1>10, <2>1, <2>2, <2>3
  <2>4. CASE a = A /\ r \in k .. i - 1
    BY <1>11, <2>2, <2>4
  <2>5. CASE a # A \/ (r # i /\ r \notin k .. i - 1)
    BY <1>12, <2>2, <2>5
  <2> QED
    BY <2>3, <2>4, <2>5
<1>17. Free' = (Free \ {p}) \union Half
  <2>1. Free' = {q \in Page : \E a \in Areas, r \in Rank : q \in ToSet(fpageList'[a][r])}
    BY DEF Free, InList
  <2>2. \A r \in k .. i - 1 : half(r) \in Page /\ \E x \in Rank : half(r) \in ToSet(fpageList'[A][x])
    BY <1>4, <1>7, <1>11
  <2>3. ASSUME NEW q \in Free' PROVE q \in (Free \ {p}) \union Half
    <3>1. PICK a \in Areas, r \in Rank : q \in ToSet(fpageList'[a][r])
      BY <2>1
    <3>2. CASE q \in ToSet(fpageList[a][r]) /\ q # p
      BY <3>2, FreeWhere DEF Free
    <3> QED
      BY <1>15, <3>1, <3>2
  <2>4. Free \ {p} \subseteq Free'
    BY <1>16, <2>1 DEF Free
  <2>5. Half \subseteq Free'
    BY <2>1, <2>2
  <2> QED
    BY <2>3, <2>4, <2>5
<1>18. Laid(Free' \union (H \union {p}), buddyRank', U) /\ Free' \cap (H \union {p}) = {}
  <2> DEFINE S == Free \union H
             Y == Half \union {p}
  <2>1. \A q \in S \ {p} : buddyRank'[q] = buddyRank[q]
    BY <1>8
  <2>2. Block(p, buddyRank'[p]) = Block(p, k) /\ \A r \in k .. i - 1 : Block(half(r), buddyRank'[half(r)]) = Block(half(r), r)
    BY <1>8
  <2>3. \A q, x \in Y : q # x => Block(q, buddyRank'[q]) \cap Block(x, buddyRank'[x]) = {}
    <3>1. SUFFICES ASSUME NEW q \in Y, NEW x \in Y, q # x
                   PROVE  Block(q, buddyRank'[q]) \cap Block(x, buddyRank'[x]) = {}
      OBVIOUS
    <3>2. CASE q = p \/ x = p
      BY <1>5, <2>2, <3>1, <3>2
    <3>3. CASE q # p /\ x # p
      <4>1. PICK r \in k .. i - 1 : q = half(r)
        BY <3>3
      <4>2. PICK y \in k .. i - 1 : x = half(y)
        BY <3>3
      <4> QED
        BY <1>5, <2>2, <3>1, <4>1, <4>2
    <3> QED
      BY <3>2, <3>3
  <2>4. UNION {Block(q, buddyRank[q]) : q \in {p}} = UNION {Block(q, buddyRank'[q]) : q \in Y}
    <3>1. Block(p, i) = Block(p, k) \union UNION {Block(half(r), r) : r \in k .. i - 1}
      BY <1>4, CutBlocks DEF half
    <3>2. UNION {Block(q, buddyRank[q]) : q \in {p}} = Block(p, i)
      BY <1>3
    <3>3. ASSUME NEW x \in Block(p, i) PROVE \E q \in Y : x \in Block(q, buddyRank'[q])
      <4>1. CASE x \in Block(p, k)
        BY <2>2, <4>1
      <4>2. CASE x \notin Block(p, k)
        <5>1. PICK r \in k .. i - 1 : x \in Block(half(r), r)
          BY <3>1, <4>2
        <5> QED
          BY <2>2, <5>1
      <4> QED
        BY <4>1, <4>2
    <3>4. ASSUME NEW q \in Y PROVE Block(q, buddyRank'[q]) \subseteq Block(p, i)
      BY <1>5, <2>2
    <3> QED
      BY <3>2, <3>3, <3>4
  <2>5. {p} \in SUBSET S /\ Laid(S, buddyRank, U)
    BY <1>3
  <2>6. (S \ {p}) \union Y = Free' \union (H \union {p})
    BY <1>7, <1>17
  <2>7. Free' \cap (H \union {p}) = {}
    BY <1>5, <1>7, <1>17
  <2> HIDE DEF S, Y
  <2>8. Laid((S \ {p}) \union Y, buddyRank', U)
    BY ONLY <2>1, <2>3, <2>4, <2>5, Exchange
  <2> QED
    BY ONLY <2>6, <2>7, <2>8, Zenon
<1>19. ListsConsistent'
  <2>1. ASSUME NEW a \in Areas, NEW r \in Rank, NEW q \in ToSet(fpageList'[a][r])
        PROVE  /\ buddyRank'[q] = r /\ q % PagesOf[r] = 0 /\ Block(q, r) \subseteq AreaPages(a)
    <3>1. CASE a = A /\ r \in k .. i - 1 /\ q = half(r)
      BY <1>3, <1>5, <1>8, <3>1
    <3>2. CASE q \in ToSet(fpageList[a][r]) /\ q # p
      <4>1. q \in (Free \union H) \ {p}
        BY <3>2, FreeWhere DEF Free
      <4>2. buddyRank'[q] = buddyRank[q]
        BY <1>8, <4>1
      <4> QED
        BY <3>2, <4>2 DEF ListsConsistent
    <3> QED
      BY <1>15, <3>1, <3>2
  <2> QED
    BY <1>13, <2>1 DEF ListsConsistent
<1>20. Coalesced'
  <2>1. SUFFICES ASSUME NEW a \in Areas, NEW r \in 0 .. RankNum - 2, NEW q \in ToSet(fpageList'[a][r]),
                        BuddyOf(q, r) \in ToSet(fpageList'[a][r])
                 PROVE  FALSE
    BY DEF Coalesced
  <2>2. r \in Rank /\ r \in Nat
    BY RanksArePlaces DEF Rank
  <2>3. \/ r \in k .. i - 1 /\ q = half(r)
        \/ q \in ToSet(fpageList[a][r]) /\ q # p
    BY <1>15, <2>2
  <2>4. \/ r \in k .. i - 1 /\ BuddyOf(q, r) = half(r)
        \/ BuddyOf(q, r) \in ToSet(fpageList[a][r]) /\ BuddyOf(q, r) # p
    BY <1>15, <2>1, <2>2
  <2>5. CASE r \in k .. i - 1 /\ q = half(r)
    BY <1>5, <2>4, <2>5
  <2>6. CASE q \in ToSet(fpageList[a][r]) /\ BuddyOf(q, r) \in ToSet(fpageList[a][r])
    BY <2>6 DEF Coalesced
  <2>7. CASE q \in ToSet(fpageList[a][r]) /\ q # p /\ r \in k .. i - 1 /\ BuddyOf(q, r) = half(r)
    <3>1. q \in Nat /\ q % PagesOf[r] = 0
      BY <2>2, <2>7, FreeWhere, RanksArePlaces DEF ListsConsistent
    <3>2. HeadOf(q, r) = q /\ BuddyOf(BuddyOf(q, r), r) = HeadOf(q, r)
      BY <2>2, <3>1, AlignedHead, Buddies
    <3> QED
      BY <1>5, <2>7, <3>2
  <2> QED
    BY <2>3, <2>4, <2>5, <2>6, <2>7
<1> QED
  BY <1>3, <1>5, <1>8, <1>14, <1>18, <1>19, <1>20, <1>7 DEF BlockTaken

\* What a call of page_alloc() has asked for, and how far it has looked.
CallsRight ==
    \A c \in Callers : allocAt[c] # "out" =>
        /\ request[c] \in Areas \X Rank
        /\ scan[c] \in request[c][2] .. RankNum
        /\ allocAt[c] = "take" => scan[c] \in Rank

\* The blocks, free and allocated, are the pages handed over, and those that
\* are allocated are aligned and keep to one area: that is what lets them be
\* joined when they come back.
BlocksWhole ==
    panic = NIL =>
        /\ Free \cap held = {}
        /\ Laid(Free \union held, buddyRank, Usable \cap 0 .. online - 1)
        /\ \A p \in held :
              /\ p % PagesOf[buddyRank[p]] = 0
              /\ \E a \in Areas : Block(p, buddyRank[p]) \subseteq AreaPages(a)

\* The inductive invariant.
BuddyInv == BuddyTypeOK /\ ListsConsistent /\ Coalesced /\ BlocksWhole /\ CallsRight

\* A block in use has its first page in no list and in no other block.
LEMMA HeldBlock ==
    ASSUME BuddyInv, panic = NIL, NEW p \in held
    PROVE  /\ p \in Page /\ p \in Nat /\ buddyRank[p] \in Rank /\ buddyRank[p] \in Nat
           /\ p \notin Free /\ p % PagesOf[buddyRank[p]] = 0
           /\ Block(p, buddyRank[p]) \subseteq AreaPages(AreaOf(p))
<1>1. p \in Page /\ p \in Nat /\ buddyRank[p] \in Rank /\ buddyRank[p] \in Nat
  BY RanksArePlaces DEF BuddyInv, BuddyTypeOK
<1>2. p \notin Free /\ p % PagesOf[buddyRank[p]] = 0
  BY DEF BuddyInv, BlocksWhole
<1>3. PICK a \in Areas : Block(p, buddyRank[p]) \subseteq AreaPages(a)
  BY DEF BuddyInv, BlocksWhole
<1>4. p \in AreaPages(a)
  BY <1>1, <1>3, OwnBlock
<1>5. AreaOf(p) = a
  BY <1>4, AreaIs
<1> QED
  BY <1>1, <1>2, <1>3, <1>5

\* What a step of page_free() does.
LEMMA PageFreed ==
    ASSUME BuddyInv, panic = NIL, NEW c \in Callers, NEW p \in Page, PageFree(c, p)
    PROVE  /\ BuddyTypeOK' /\ ListsConsistent' /\ Coalesced' /\ BlocksWhole'
           /\ \A q \in held \ {p} : buddyRank'[q] = buddyRank[q]
<1> DEFINE k == buddyRank[p]
           H == held \ {p}
           U == Usable \cap 0 .. online - 1
<1>1. /\ p \in held /\ held' = H /\ FreePage(p, k)
      /\ UNCHANGED <<online, allocAt, request, scan>>
  BY DEF PageFree
<1>2. /\ p \in Nat /\ k \in Rank /\ p \notin Free /\ p % PagesOf[k] = 0
      /\ Block(p, k) \subseteq AreaPages(AreaOf(p))
  BY <1>1, HeldBlock
<1>3. BuddyTypeOK /\ ListsConsistent /\ Coalesced /\ BlocksWhole
  BY DEF BuddyInv
<1>4. H \in SUBSET Page /\ U \in SUBSET Page
  BY <1>3, BuddyAssumption DEF BuddyTypeOK
<1>5. CASE LooksBeyond(p, k) /\ panic' = "no_area" /\ UNCHANGED <<fpageList, buddyRank>>
  <2>1. BuddyTypeOK'
    BY <1>1, <1>3, <1>4, <1>5 DEF BuddyTypeOK
  <2>2. ListsConsistent' /\ Coalesced'
    BY <1>3, <1>5 DEF ListsConsistent, Coalesced
  <2>3. panic' # NIL
    BY <1>5, BuddyAssumption
  <2> QED
    BY <1>5, <2>1, <2>2, <2>3 DEF BlocksWhole
<1>6. CASE fpageList' = Joined(p, k) /\ buddyRank' = RanksJoined(p, k) /\ panic' = panic
  <2>1. Free \cap H = {} /\ p \notin Free \union H /\ Free \union H \union {p} = Free \union held
    BY <1>1, <1>2, <1>3 DEF BlocksWhole
  <2>2. Laid(Free \union H \union {p}, buddyRank, U)
    BY <1>3, <2>1 DEF BlocksWhole
  <2>3. /\ fpageList' \in [Areas -> [Rank -> Seq(Page)]] /\ buddyRank' \in [Page -> Rank]
        /\ ListsConsistent' /\ Coalesced'
        /\ Free' \cap H = {} /\ Laid(Free' \union H, buddyRank', U)
        /\ \A q \in H : buddyRank'[q] = buddyRank[q]
    <3>1. buddyRank[p] = k /\ \A q \in Free \union H : buddyRank[q] = buddyRank[q]
      OBVIOUS
    <3> HIDE DEF k, H, U
    <3> QED
      BY ONLY <1>2, <1>3, <1>4, <1>6, <2>1, <2>2, <3>1, p \in Page, Freed
  <2>4. BuddyTypeOK'
    BY <1>1, <1>3, <1>4, <1>6, <2>3 DEF BuddyTypeOK
  <2>5. BlocksWhole'
    BY <1>1, <1>3, <2>3 DEF BlocksWhole
  <2> QED
    BY <2>3, <2>4, <2>5
<1> QED
  BY <1>1, <1>5, <1>6 DEF FreePage, RanksJoined

\* What a step of page_alloc() that takes a block does.
LEMMA PageTaken ==
    ASSUME BuddyInv, panic = NIL, NEW c \in Callers, AllocTake(c), panic' = NIL
    PROVE  /\ BuddyTypeOK' /\ ListsConsistent' /\ Coalesced' /\ BlocksWhole'
           /\ online' = online
           /\ \E p \in Page, k \in Rank :
                 /\ p \in Free /\ Block(p, k) \subseteq Block(p, buddyRank[p])
                 /\ held' = held \union {p} /\ buddyRank'[p] = k
                 /\ \A q \in held : buddyRank'[q] = buddyRank[q]
<1>1. PICK A \in Areas, k \in Rank : request[c] = <<A, k>>
  BY DEF BuddyInv, CallsRight, AllocTake
<1>2. PICK i \in Rank : i = scan[c] /\ k <= i
  BY <1>1 DEF BuddyInv, CallsRight, AllocTake
<1>3. PICK p : p = Head(fpageList[A][i])
  OBVIOUS
<1>4. /\ fpageList[A][i] # <<>>
      /\ fpageList' = Cut(A, p, i, k) /\ buddyRank' = RanksCut(p, i, k)
      /\ held' = held \union {p} /\ allocAt' = [allocAt EXCEPT ![c] = "out"]
      /\ UNCHANGED <<online, request, scan>>
  <2>1. request[c][1] = A /\ request[c][2] = k
    BY <1>1
  <2>2. panic' # "list_empty"
    BY BuddyAssumption
  <2> QED
    BY <1>2, <1>3, <2>1, <2>2 DEF AllocTake, RanksCut
<1>5. BuddyTypeOK /\ ListsConsistent /\ Coalesced /\ BlocksWhole
  BY DEF BuddyInv
<1> DEFINE U == Usable \cap 0 .. online - 1
<1>6. /\ Free \cap held = {} /\ Laid(Free \union held, buddyRank, U)
      /\ held \in SUBSET Page /\ U \in SUBSET Page
  BY <1>5, BuddyAssumption DEF BlocksWhole, BuddyTypeOK
<1>7. /\ fpageList' \in [Areas -> [Rank -> Seq(Page)]] /\ buddyRank' \in [Page -> Rank]
      /\ ListsConsistent' /\ Coalesced'
      /\ p \in Free /\ buddyRank[p] = i /\ Free' \cap (held \union {p}) = {}
      /\ Laid(Free' \union (held \union {p}), buddyRank', U)
      /\ \A q \in held : buddyRank'[q] = buddyRank[q]
      /\ buddyRank'[p] = k /\ p % PagesOf[k] = 0
      /\ Block(p, k) \subseteq AreaPages(A) /\ Block(p, k) \subseteq Block(p, i)
  <2> HIDE DEF U
  <2>1. BlockTaken(p, i, k, A, held, U)
    BY ONLY <1>2, <1>3, <1>4, <1>5, <1>6, Taken, A \in Areas, i \in Rank, k \in Rank
  <2> QED
    BY ONLY <2>1 DEF BlockTaken
<1>8. p \in Page
  BY <1>7 DEF Free
<1>9. BuddyTypeOK'
  BY <1>4, <1>5, <1>7, <1>8, panic' = NIL DEF BuddyTypeOK
<1>10. BlocksWhole'
  <2>1. ASSUME NEW q \in held'
        PROVE  q % PagesOf[buddyRank'[q]] = 0 /\ \E a \in Areas : Block(q, buddyRank'[q]) \subseteq AreaPages(a)
    BY <1>4, <1>5, <1>7 DEF BlocksWhole
  <2> QED
    BY <1>4, <1>7, <2>1 DEF BlocksWhole
<1> QED
  BY <1>4, <1>7, <1>8, <1>9, <1>10

\* What a step of sysram_online() does.
LEMMA PageOnline ==
    ASSUME BuddyInv, panic = NIL, SysramOnline
    PROVE  /\ BuddyTypeOK' /\ ListsConsistent' /\ Coalesced' /\ BlocksWhole'
           /\ \A q \in held : buddyRank'[q] = buddyRank[q]
<1> DEFINE p == online
           R == [buddyRank EXCEPT ![p] = 0]
           V == Usable \cap 0 .. p - 1
           U == V \union {p}
<1>1. /\ p \in Page /\ p \in Nat /\ 0 \in Rank /\ p < NPages
      /\ held' = held /\ online' = p + 1 /\ online' \in 0 .. NPages
      /\ UNCHANGED <<allocAt, request, scan>>
  <2>1. p \in 0 .. NPages /\ p < NPages
    BY DEF BuddyInv, BuddyTypeOK, SysramOnline
  <2> QED
    BY <2>1, BuddyAssumption DEF SysramOnline, Page, Rank
<1>2. BuddyTypeOK /\ ListsConsistent /\ Coalesced /\ BlocksWhole
  BY DEF BuddyInv
<1>3. /\ Free \cap held = {} /\ Laid(Free \union held, buddyRank, V)
      /\ held \in SUBSET Page /\ V \in SUBSET Page /\ p \notin V
      /\ Free \in SUBSET Page /\ buddyRank \in [Page -> Rank]
  BY <1>1, <1>2, BuddyAssumption DEF BlocksWhole, BuddyTypeOK, Free
<1>4. CASE online \notin Usable
  <2>1. UNCHANGED <<fpageList, buddyRank, panic>>
    BY <1>4 DEF SysramOnline
  <2>2. Usable \cap 0 .. online' - 1 = V
    BY <1>1, <1>4
  <2>3. BuddyTypeOK'
    BY <1>1, <1>2, <2>1 DEF BuddyTypeOK
  <2>4. ListsConsistent' /\ Coalesced'
    BY <1>2, <2>1 DEF ListsConsistent, Coalesced
  <2>5. Free' = Free
    BY <2>1 DEF Free, InList
  <2>6. BlocksWhole'
    BY <1>1, <1>2, <2>1, <2>2, <2>5 DEF BlocksWhole
  <2> QED
    BY <2>1, <2>3, <2>4, <2>6
<1>5. CASE online \in Usable
  <2>1. FreePage(p, 0)
    BY <1>5 DEF SysramOnline
  <2>2. Usable \cap 0 .. online' - 1 = U
    BY <1>1, <1>5
  <2>3. CASE LooksBeyond(p, 0) /\ panic' = "no_area" /\ UNCHANGED <<fpageList, buddyRank>>
    <3>1. BuddyTypeOK'
      BY <1>1, <1>2, <2>3 DEF BuddyTypeOK
    <3>2. ListsConsistent' /\ Coalesced'
      BY <1>2, <2>3 DEF ListsConsistent, Coalesced
    <3>3. panic' # NIL
      BY <2>3, BuddyAssumption
    <3> QED
      BY <2>3, <3>1, <3>2, <3>3 DEF BlocksWhole
  <2>4. CASE fpageList' = Joined(p, 0) /\ buddyRank' = RanksJoined(p, 0) /\ panic' = panic
    <3>1. PagesOf[0] = 1 /\ p % PagesOf[0] = 0 /\ Block(p, 0) = {p}
      <4>1. PagesOf[0] = 1
        BY PagesOfStep
      <4>2. p % 1 = 0
        BY <1>1
      <4> QED
        BY <1>1, <4>1, <4>2 DEF Block
    <3>2. Block(p, 0) \subseteq AreaPages(AreaOf(p))
      BY <1>1, <3>1, AreaFound
    <3>3. \A q \in Free \union held : q \in Block(q, buddyRank[q]) /\ Block(q, buddyRank[q]) \subseteq V
      <4>1. \A q \in Free \union held : q \in Nat /\ buddyRank[q] \in Nat
        BY <1>3, RanksArePlaces
      <4>2. \A q \in Free \union held : q \in Block(q, buddyRank[q])
        BY <4>1, OwnBlock
      <4> QED
        BY <1>3, <4>2 DEF Laid
    <3>4. p \notin Free \union held
      BY <1>3, <3>3
    <3>5. R[p] = 0 /\ \A q \in Free \union held : R[q] = buddyRank[q]
      BY <1>1, <1>3, <3>4
    <3>6. Laid(Free \union held \union {p}, R, U)
      <4> DEFINE S == Free \union held
      <4> HIDE DEF S, R, V
      <4>1. Block(p, R[p]) = {p} /\ \A q \in S : Block(q, R[q]) = Block(q, buddyRank[q])
        BY <3>1, <3>5 DEF S
      <4>2. \A q \in S : Block(q, buddyRank[q]) \cap {p} = {}
        BY <1>3, <3>3 DEF S
      <4>3. /\ \A q, r \in S : q # r => Block(q, buddyRank[q]) \cap Block(r, buddyRank[r]) = {}
            /\ UNION {Block(q, buddyRank[q]) : q \in S} = V
        BY <1>3 DEF S, Laid
      <4>4. \A q, r \in S \union {p} : q # r => Block(q, R[q]) \cap Block(r, R[r]) = {}
        BY <4>1, <4>2, <4>3
      <4>5. UNION {Block(q, R[q]) : q \in S \union {p}} = U
        <5>1. ASSUME NEW x \in U PROVE x \in UNION {Block(q, R[q]) : q \in S \union {p}}
          BY <4>1, <4>3
        <5>2. ASSUME NEW q \in S \union {p} PROVE Block(q, R[q]) \subseteq U
          BY <4>1, <4>3
        <5> QED
          BY <5>1, <5>2
      <4> QED
        BY <4>4, <4>5 DEF Laid, S
    <3>7. /\ fpageList' \in [Areas -> [Rank -> Seq(Page)]] /\ buddyRank' \in [Page -> Rank]
          /\ ListsConsistent' /\ Coalesced'
          /\ Free' \cap held = {} /\ Laid(Free' \union held, buddyRank', U)
          /\ \A q \in held : buddyRank'[q] = buddyRank[q]
      <4>1. U \in SUBSET Page
        BY <1>1, <1>3
      <4> HIDE DEF p, R, U, V
      <4> QED
        BY ONLY <1>1, <1>2, <1>3, <2>4, <3>1, <3>2, <3>4, <3>5, <3>6, <4>1, Freed
    <3>8. BuddyTypeOK'
      BY <1>1, <1>2, <2>4, <3>7 DEF BuddyTypeOK
    <3>9. BlocksWhole'
      BY <1>1, <1>2, <2>2, <3>7 DEF BlocksWhole
    <3> QED
      BY <3>7, <3>8, <3>9
  <2> QED
    BY <2>1, <2>3, <2>4 DEF FreePage, RanksJoined
<1> QED
  BY <1>4, <1>5

\* It holds before any page is handed over.
LEMMA BuddyInitial ==
    ASSUME BuddyInit
    PROVE  BuddyInv
<1>1. /\ NPages \in Nat \ {0} /\ RankNum \in Nat \ {0} /\ 0 \in Rank /\ 0 .. 0 - 1 = {}
  BY BuddyAssumption DEF Rank
<1>2. \A a \in Areas, k \in Rank : fpageList[a][k] = <<>> /\ ToSet(fpageList[a][k]) = {}
  BY DEF BuddyInit, ToSet
<1>3. BuddyTypeOK
  BY <1>1 DEF BuddyInit, BuddyTypeOK
<1>4. ListsConsistent
  BY <1>2 DEF ListsConsistent, IsInjective
<1>5. Coalesced
  <2>1. \A k \in 0 .. RankNum - 2 : k \in Rank
    BY <1>1 DEF Rank
  <2> QED
    BY <1>2, <2>1 DEF Coalesced
<1>6. Free = {} /\ held = {}
  BY <1>2 DEF Free, InList, BuddyInit
<1>7. BlocksWhole
  BY <1>1, <1>6 DEF BlocksWhole, Laid, BuddyInit
<1>8. CallsRight
  BY DEF CallsRight, BuddyInit
<1> QED
  BY <1>3, <1>4, <1>5, <1>7, <1>8 DEF BuddyInv

\* The steps of page_alloc() before it takes a block leave the pages alone.
LEMMA PagesAlone ==
    ASSUME BuddyInv, UNCHANGED <<fpageList, buddyRank, online, held, panic>>,
           allocAt' \in [Callers -> {"out", "search", "take"}],
           request' \in [Callers -> {NIL} \union Areas \X Rank],
           scan' \in [Callers -> 0 .. RankNum], CallsRight'
    PROVE  BuddyInv'
<1>1. BuddyTypeOK' /\ ListsConsistent' /\ Coalesced'
  BY DEF BuddyInv, BuddyTypeOK, ListsConsistent, Coalesced
<1>2. Free' = Free
  BY DEF Free, InList
<1>3. BlocksWhole'
  BY <1>2 DEF BuddyInv, BlocksWhole
<1> QED
  BY <1>1, <1>3 DEF BuddyInv

\* Every step keeps it.
LEMMA BuddyStep ==
    ASSUME BuddyInv, [BuddyNext]_buddyVars
    PROVE  BuddyInv'
<1>1. CASE UNCHANGED buddyVars
  <2>1. CallsRight'
    BY <1>1 DEF BuddyInv, CallsRight, buddyVars
  <2> QED
    BY <1>1, <2>1, PagesAlone DEF BuddyInv, BuddyTypeOK, buddyVars
<1>2. ASSUME panic = NIL, NEW c \in Callers, NEW a \in Areas, NEW k \in Rank, AllocCall(c, a, k)
      PROVE  BuddyInv'
  <2>1. /\ allocAt' = [allocAt EXCEPT ![c] = "search"]
        /\ request' = [request EXCEPT ![c] = <<a, k>>] /\ scan' = [scan EXCEPT ![c] = k]
        /\ k \in 0 .. RankNum /\ k \in k .. RankNum
    BY <1>2, RanksArePlaces DEF AllocCall, Rank
  <2>2. /\ allocAt' \in [Callers -> {"out", "search", "take"}]
        /\ request' \in [Callers -> {NIL} \union Areas \X Rank]
        /\ scan' \in [Callers -> 0 .. RankNum]
    BY <2>1 DEF BuddyInv, BuddyTypeOK
  <2>3. CallsRight'
    <3>1. SUFFICES ASSUME NEW d \in Callers, allocAt'[d] # "out"
                   PROVE  /\ request'[d] \in Areas \X Rank
                          /\ scan'[d] \in request'[d][2] .. RankNum
                          /\ allocAt'[d] = "take" => scan'[d] \in Rank
      BY DEF CallsRight
    <3>2. CASE d = c
      BY <2>1, <3>2 DEF BuddyInv, BuddyTypeOK
    <3>3. CASE d # c
      BY <2>1, <3>1, <3>3 DEF BuddyInv, BuddyTypeOK, CallsRight
    <3> QED
      BY <3>2, <3>3
  <2> QED
    BY <1>2, <2>2, <2>3, PagesAlone DEF AllocCall
<1>3. ASSUME panic = NIL, NEW c \in Callers, AllocSearch(c)
      PROVE  BuddyInv'
  <2>1. /\ request[c] \in Areas \X Rank /\ scan[c] \in request[c][2] .. RankNum
        /\ request[c][2] \in Nat /\ RankNum \in Nat /\ Rank = 0 .. RankNum - 1
    BY <1>3, RanksArePlaces DEF BuddyInv, CallsRight, AllocSearch, Rank
  <2>2. /\ request' = request
        /\ \/ allocAt' = [allocAt EXCEPT ![c] = "out"] /\ scan' = scan
           \/ allocAt' = [allocAt EXCEPT ![c] = "take"] /\ scan' = scan /\ scan[c] \in Rank
           \/ allocAt' = allocAt /\ scan' = [scan EXCEPT ![c] = scan[c] + 1] /\ scan[c] < RankNum
                /\ allocAt[c] = "search"
    BY <1>3, <2>1 DEF AllocSearch
  <2>3. /\ allocAt' \in [Callers -> {"out", "search", "take"}]
        /\ request' \in [Callers -> {NIL} \union Areas \X Rank]
        /\ scan' \in [Callers -> 0 .. RankNum]
    <3>1. scan[c] < RankNum => scan[c] + 1 \in 0 .. RankNum
      BY <2>1
    <3>2. /\ allocAt \in [Callers -> {"out", "search", "take"}]
          /\ request \in [Callers -> {NIL} \union Areas \X Rank]
          /\ scan \in [Callers -> 0 .. RankNum]
      BY DEF BuddyInv, BuddyTypeOK
    <3>3. scan' \in [Callers -> 0 .. RankNum]
      BY ONLY <2>2, <3>1, <3>2
    <3>4. allocAt' \in [Callers -> {"out", "search", "take"}]
      BY ONLY <2>2, <3>2
    <3> QED
      BY <2>2, <3>2, <3>3, <3>4
  <2>4. CallsRight'
    <3>1. SUFFICES ASSUME NEW d \in Callers, allocAt'[d] # "out"
                   PROVE  /\ request'[d] \in Areas \X Rank
                          /\ scan'[d] \in request'[d][2] .. RankNum
                          /\ allocAt'[d] = "take" => scan'[d] \in Rank
      BY DEF CallsRight
    <3>2. CASE d = c
      BY <2>1, <2>2, <3>1, <3>2 DEF BuddyInv, BuddyTypeOK
    <3>3. CASE d # c
      BY <2>2, <3>1, <3>3 DEF BuddyInv, BuddyTypeOK, CallsRight
    <3> QED
      BY <3>2, <3>3
  <2> QED
    BY <1>3, <2>3, <2>4, PagesAlone DEF AllocSearch
<1>4. ASSUME panic = NIL, NEW c \in Callers, AllocTake(c)
      PROVE  BuddyInv'
  <2>1. CallsRight'
    BY <1>4 DEF BuddyInv, BuddyTypeOK, CallsRight, AllocTake
  <2>2. CASE panic' = NIL
    BY <1>4, <2>1, <2>2, PageTaken DEF BuddyInv
  <2>3. CASE panic' # NIL
    <3>1. /\ panic' = "list_empty"
          /\ UNCHANGED <<fpageList, buddyRank, held, allocAt, online, request, scan>>
      BY <1>4, <2>3 DEF AllocTake
    <3>2. BuddyTypeOK' /\ ListsConsistent' /\ Coalesced'
      BY <3>1 DEF BuddyInv, BuddyTypeOK, ListsConsistent, Coalesced
    <3> QED
      BY <2>1, <2>3, <3>2 DEF BuddyInv, BlocksWhole
  <2> QED
    BY <2>2, <2>3
<1>5. ASSUME panic = NIL, NEW c \in Callers, NEW p \in Page, PageFree(c, p)
      PROVE  BuddyInv'
  <2>1. CallsRight'
    BY <1>5 DEF BuddyInv, CallsRight, PageFree
  <2> QED
    BY <1>5, <2>1, PageFreed DEF BuddyInv
<1>6. ASSUME panic = NIL, SysramOnline
      PROVE  BuddyInv'
  <2>1. CallsRight'
    BY <1>6 DEF BuddyInv, CallsRight, SysramOnline
  <2> QED
    BY <1>6, <2>1, PageOnline DEF BuddyInv
<1> QED
  BY <1>1, <1>2, <1>3, <1>4, <1>5, <1>6 DEF BuddyNext, CallerStep

\* So it always holds.
THEOREM BuddyInvHolds == BuddySpec => []BuddyInv
<1>1. BuddyInit => BuddyInv
  BY BuddyInitial
<1>2. BuddyInv /\ [BuddyNext]_buddyVars => BuddyInv'
  BY BuddyStep
<1> QED
  BY <1>1, <1>2, PTL DEF BuddySpec

\* No page is lost and none is in two blocks, however page_alloc() and
\* page_free() cut and join.
THEOREM PartitionedHolds == BuddySpec => []Partitioned
<1>1. BuddyInv => Partitioned
  BY DEF BuddyInv, BlocksWhole, Laid, Partitioned
<1> QED
  BY <1>1, BuddyInvHolds, PTL

\* A free block stands once, in the list of its area and rank, aligned.
THEOREM ListsConsistentHolds == BuddySpec => []ListsConsistent
<1>1. BuddyInv => ListsConsistent
  BY DEF BuddyInv
<1> QED
  BY <1>1, BuddyInvHolds, PTL

\* Two free buddies of one rank and one area have always been joined.
THEOREM CoalescedHolds == BuddySpec => []Coalesced
<1>1. BuddyInv => Coalesced
  BY DEF BuddyInv
<1> QED
  BY <1>1, BuddyInvHolds, PTL

\* What every step of the allocator does, seen as a pool of pages.
LEMMA PoolStep ==
    ASSUME BuddyInv, [BuddyNext]_buddyVars
    PROVE  [Pool!PoolNext]_(Pool!poolVars)
<1> DEFINE owned == Usable \cap 0 .. online - 1
           taken == {Block(p, buddyRank[p]) : p \in held}
           owned2 == Usable \cap 0 .. online' - 1
           taken2 == {Block(p, buddyRank'[p]) : p \in held'}
           PageBlocks == {Block(p, k) : p \in Page, k \in Rank}
<1>0. /\ Pool!poolVars = <<owned, taken>> /\ (Pool!poolVars)' = <<owned2, taken2>>
      /\ \A p : Pool!Give(p) <=> p \notin owned /\ owned2 = owned \union {p} /\ taken2 = taken
      /\ \A b : Pool!Grant(b) <=>
            b \subseteq owned \ UNION taken /\ taken2 = taken \union {b} /\ owned2 = owned
      /\ \A b : Pool!Release(b) <=> b \in taken /\ taken2 = taken \ {b} /\ owned2 = owned
      /\ Pool!PoolNext <=> \/ \E p \in Page : Pool!Give(p)
                           \/ \E b \in PageBlocks : Pool!Grant(b) \/ Pool!Release(b)
  BY DEF Pool!poolVars, Pool!Give, Pool!Grant, Pool!Release, Pool!PoolNext
<1>1. CASE owned2 = owned /\ taken2 = taken
  BY <1>0, <1>1
<1>2. ASSUME UNCHANGED <<buddyRank, online, held>> PROVE owned2 = owned /\ taken2 = taken
  BY <1>2
<1>3. ASSUME panic = NIL, NEW c \in Callers, AllocTake(c), panic' = NIL
      PROVE  Pool!PoolNext
  <2>1. /\ online' = online
        /\ \E p \in Page, k \in Rank :
              /\ p \in Free /\ Block(p, k) \subseteq Block(p, buddyRank[p])
              /\ held' = held \union {p} /\ buddyRank'[p] = k
              /\ \A q \in held : buddyRank'[q] = buddyRank[q]
    BY ONLY <1>3, BuddyInv, PageTaken
  <2>2. PICK p \in Page, k \in Rank :
              /\ p \in Free /\ Block(p, k) \subseteq Block(p, buddyRank[p])
              /\ held' = held \union {p} /\ buddyRank'[p] = k
              /\ \A q \in held : buddyRank'[q] = buddyRank[q]
    BY <2>1
  <2>3. /\ Free \cap held = {} /\ Laid(Free \union held, buddyRank, owned)
    BY <1>3 DEF BuddyInv, BlocksWhole
  <2>4. Block(p, buddyRank[p]) \subseteq owned
    BY <2>2, <2>3 DEF Laid
  <2>5. \A q \in held : Block(q, buddyRank[q]) \cap Block(p, buddyRank[p]) = {}
    BY <2>2, <2>3 DEF Laid
  <2>6. Block(p, k) \subseteq owned \ UNION taken
    BY <2>2, <2>4, <2>5
  <2>7. taken2 = taken \union {Block(p, k)}
    BY <2>2
  <2>8. owned2 = owned
    BY <2>1
  <2>9. Block(p, k) \in PageBlocks
    OBVIOUS
  <2> HIDE DEF owned, taken, owned2, taken2, PageBlocks
  <2> QED
    BY ONLY <1>0, <2>6, <2>7, <2>8, <2>9
<1>4. ASSUME panic = NIL, NEW c \in Callers, NEW p \in Page, PageFree(c, p)
      PROVE  Pool!PoolNext
  <2>1. /\ p \in held /\ held' = held \ {p} /\ online' = online
    BY <1>4 DEF PageFree
  <2>2. \A q \in held \ {p} : buddyRank'[q] = buddyRank[q]
    BY ONLY <1>4, BuddyInv, PageFreed, p \in Page, c \in Callers
  <2>3. taken2 = {Block(q, buddyRank[q]) : q \in held \ {p}}
    BY <2>1, <2>2
  <2>4. \A q \in held \ {p} : Block(q, buddyRank[q]) # Block(p, buddyRank[p])
    <3>1. p \in Block(p, buddyRank[p])
      BY <1>4, <2>1, HeldBlock, OwnBlock
    <3>2. \A q \in held \ {p} : Block(q, buddyRank[q]) \cap Block(p, buddyRank[p]) = {}
      BY <1>4, <2>1 DEF BuddyInv, BlocksWhole, Laid
    <3> QED
      BY <3>1, <3>2
  <2>5. taken2 = taken \ {Block(p, buddyRank[p])} /\ Block(p, buddyRank[p]) \in taken
    BY <2>1, <2>3, <2>4
  <2>6. Block(p, buddyRank[p]) \in PageBlocks
    BY <1>4, <2>1, HeldBlock
  <2>7. owned2 = owned
    BY <2>1
  <2> HIDE DEF owned, taken, owned2, taken2, PageBlocks
  <2> QED
    BY ONLY <1>0, <2>5, <2>6, <2>7
<1>5. ASSUME panic = NIL, SysramOnline
      PROVE  Pool!PoolNext \/ (owned2 = owned /\ taken2 = taken)
  <2>1. \A q \in held : buddyRank'[q] = buddyRank[q]
    BY ONLY <1>5, BuddyInv, PageOnline
  <2>2. held' = held /\ online' = online + 1 /\ online \in Page /\ online \in Nat
    BY <1>5, BuddyAssumption DEF SysramOnline, BuddyInv, BuddyTypeOK, Page
  <2>3. taken2 = taken
    BY <2>1, <2>2
  <2>4. online \notin owned
    BY <2>2
  <2>5. owned2 = owned \/ owned2 = owned \union {online}
    BY <2>2
  <2> HIDE DEF owned, taken, owned2, taken2, PageBlocks
  <2> QED
    BY ONLY <1>0, <2>2, <2>3, <2>4, <2>5
<1>6. CASE UNCHANGED buddyVars
  BY <1>1, <1>2, <1>6 DEF buddyVars
<1>7. ASSUME NEW c \in Callers, NEW a \in Areas, NEW k \in Rank, AllocCall(c, a, k)
      PROVE  owned2 = owned /\ taken2 = taken
  BY <1>2, <1>7 DEF AllocCall
<1>8. ASSUME NEW c \in Callers, AllocSearch(c)
      PROVE  owned2 = owned /\ taken2 = taken
  BY <1>2, <1>8 DEF AllocSearch
<1>9. ASSUME NEW c \in Callers, AllocTake(c), panic = NIL, panic' # NIL
      PROVE  owned2 = owned /\ taken2 = taken
  BY <1>2, <1>9 DEF AllocTake
<1> HIDE DEF owned, taken, owned2, taken2, PageBlocks
<1> QED
  BY <1>0, <1>1, <1>3, <1>4, <1>5, <1>6, <1>7, <1>8, <1>9 DEF BuddyNext, CallerStep

\* The allocator is a pool of pages, whatever comes between the steps of its
\* callers.
THEOREM IsPoolHolds == BuddySpec => IsPool
<1>1. BuddyInit => Pool!PoolInit
  <2>1. 0 .. 0 - 1 = {}
    OBVIOUS
  <2> QED
    BY <2>1 DEF BuddyInit, Pool!PoolInit
<1>2. BuddyInv /\ [BuddyNext]_buddyVars => [Pool!PoolNext]_(Pool!poolVars)
  BY PoolStep
<1> QED
  BY <1>1, <1>2, BuddyInvHolds, PTL DEF BuddySpec, IsPool, Pool!PoolSpec
-----------------------------------------------------------------------------
(* Slabs, with one caller at a time.  First the free chain of a slab.      *)

BlocksOf(s) == {s} \X (1 .. BlocksPerSlab)

\* The n free blocks F of slab s are chained from fr on, by the links nf.
ChainRight(c, nf, fr, n, F) ==
    /\ fr = IF n = 0 THEN NULL ELSE c[1]
    /\ \A i \in 1 .. n : nf[c[i]] = IF i = n THEN NULL ELSE c[i + 1]
    /\ IsInjective(c)
    /\ ToSet(c) = F

Chains(nf, fr, s, n, F) ==
    \E c \in [1 .. n -> BlocksOf(s)] : ChainRight(c, nf, fr, n, F)

\* What a chain is made of.
Enumerates(c, s, n, F) ==
    /\ \A i \in 1 .. n : c[i] \in F /\ c[i] \in BlocksOf(s)
    /\ \A b \in F : \E i \in 1 .. n : c[i] = b
    /\ \A i, j \in 1 .. n : c[i] = c[j] => i = j

LEMMA ChainParts ==
    ASSUME NEW nf, NEW fr, NEW s, NEW n \in Nat, NEW F,
           NEW c \in [1 .. n -> BlocksOf(s)], ChainRight(c, nf, fr, n, F)
    PROVE  Enumerates(c, s, n, F)
BY DEF ChainRight, IsInjective, ToSet, Enumerates

\* initslab() chains all blocks, the last one first.
LEMMA NewChain ==
    ASSUME SlabAssumption, NEW s \in Slabs, NEW nf,
           \A b \in BlocksOf(s) : nf[b] = IF b[2] = 1 THEN NULL ELSE <<s, b[2] - 1>>
    PROVE  Chains(nf, <<s, BlocksPerSlab>>, s, BlocksPerSlab, BlocksOf(s))
<1> DEFINE n == BlocksPerSlab
           c == [i \in 1 .. n |-> <<s, n + 1 - i>>]
<1>1. n \in Nat \ {0}
  BY DEF SlabAssumption
<1>2. c \in [1 .. n -> BlocksOf(s)]
  BY <1>1 DEF BlocksOf
<1>3. c[1] = <<s, n>>
  BY <1>1
<1>4. \A i \in 1 .. n : nf[c[i]] = IF i = n THEN NULL ELSE c[i + 1]
  <2> TAKE i \in 1 .. n
  <2>1. c[i] \in BlocksOf(s) /\ c[i][2] = n + 1 - i
    BY <1>1, <1>2
  <2>2. CASE i = n
    <3>1. c[i][2] = 1
      BY <1>1, <2>1, <2>2
    <3> QED
      BY <2>1, <2>2, <3>1
  <2>3. CASE i # n
    <3>1. i + 1 \in 1 .. n /\ n + 1 - (i + 1) = n - i /\ n + 1 - i # 1 /\ n + 1 - i - 1 = n - i
      BY <1>1, <2>3
    <3>2. c[i + 1] = <<s, n - i>>
      BY <3>1
    <3> QED
      BY <1>1, <2>1, <2>3, <3>1, <3>2
  <2> QED
    BY <2>2, <2>3
<1>5. IsInjective(c)
  BY <1>1 DEF IsInjective
<1>6. ToSet(c) = BlocksOf(s)
  <2>1. \A b \in BlocksOf(s) : n + 1 - b[2] \in 1 .. n /\ c[n + 1 - b[2]] = b
    BY <1>1 DEF BlocksOf
  <2> HIDE DEF c
  <2>2. DOMAIN c = 1 .. n /\ \A i \in 1 .. n : c[i] \in BlocksOf(s)
    BY <1>2
  <2> QED
    BY <2>1, <2>2 DEF ToSet
<1> HIDE DEF c
<1> QED
  BY <1>1, <1>2, <1>3, <1>4, <1>5, <1>6 DEF Chains, ChainRight

\* memcache_alloc() takes the first block of a chain.
LEMMA ChainTake ==
    ASSUME SlabAssumption, NEW s \in Slabs, NEW n \in Nat \ {0}, NEW nf, NEW fr, NEW F,
           Chains(nf, fr, s, n, F), nf \in [Blocks -> Blocks \union {NULL}]
    PROVE  /\ fr \in F /\ fr \in BlocksOf(s)
           /\ Chains([nf EXCEPT ![fr] = NULL], nf[fr], s, n - 1, F \ {fr})
<1>1. PICK c \in [1 .. n -> BlocksOf(s)] : ChainRight(c, nf, fr, n, F)
  BY DEF Chains
<1>a. Enumerates(c, s, n, F)
  BY ONLY n \in Nat, c \in [1 .. n -> BlocksOf(s)], <1>1, ChainParts
<1>2. /\ \A i \in 1 .. n : c[i] \in F /\ c[i] \in BlocksOf(s)
      /\ \A b \in F : \E i \in 1 .. n : c[i] = b
      /\ \A i, j \in 1 .. n : c[i] = c[j] => i = j
  BY <1>a DEF Enumerates
<1>3. fr = c[1] /\ fr \in F /\ fr \in BlocksOf(s)
  BY <1>1, <1>2 DEF ChainRight
<1>4. \A b \in BlocksOf(s) : b \in Blocks
  BY DEF BlocksOf, Blocks
<1> DEFINE d == [i \in 1 .. n - 1 |-> c[i + 1]]
           g == [nf EXCEPT ![fr] = NULL]
<1>5. d \in [1 .. n - 1 -> BlocksOf(s)]
  BY <1>2
<1>6. nf[fr] = IF n - 1 = 0 THEN NULL ELSE d[1]
  BY <1>1, <1>3 DEF ChainRight
<1>7. \A i \in 1 .. n - 1 : g[d[i]] = IF i = n - 1 THEN NULL ELSE d[i + 1]
  <2> TAKE i \in 1 .. n - 1
  <2>1. i + 1 \in 1 .. n /\ 1 \in 1 .. n /\ i + 1 # 1 /\ d[i] = c[i + 1]
    OBVIOUS
  <2>2. d[i] # fr /\ d[i] \in Blocks
    BY <1>2, <1>3, <1>4, <2>1
  <2>3. g[d[i]] = nf[c[i + 1]]
    BY <2>1, <2>2
  <2>4. nf[c[i + 1]] = IF i + 1 = n THEN NULL ELSE c[i + 2]
    BY <1>1, <2>1 DEF ChainRight
  <2> QED
    BY <2>3, <2>4
<1>8. IsInjective(d)
  BY <1>2 DEF IsInjective
<1>9. ToSet(d) = F \ {fr}
  <2>1. \A i \in 1 .. n - 1 : d[i] \in F \ {fr}
    BY <1>2, <1>3
  <2>2. \A b \in F \ {fr} : \E i \in 1 .. n - 1 : d[i] = b
    <3> TAKE b \in F \ {fr}
    <3>1. PICK i \in 1 .. n : c[i] = b
      BY <1>2
    <3>2. i # 1 /\ i - 1 \in 1 .. n - 1 /\ d[i - 1] = b
      BY <1>3, <3>1
    <3> QED
      BY <3>2
  <2> QED
    BY <2>1, <2>2 DEF ToSet
<1> HIDE DEF d, g
<1>10. ChainRight(d, g, nf[fr], n - 1, F \ {fr})
  BY <1>6, <1>7, <1>8, <1>9 DEF ChainRight
<1> QED
  BY <1>3, <1>5, <1>10 DEF Chains, g

\* memcache_free() puts a block before the chain.
LEMMA ChainPut ==
    ASSUME SlabAssumption, NEW s \in Slabs, NEW n \in Nat, NEW nf, NEW fr, NEW F,
           Chains(nf, fr, s, n, F), nf \in [Blocks -> Blocks \union {NULL}],
           NEW b \in BlocksOf(s), b \notin F
    PROVE  Chains([nf EXCEPT ![b] = fr], b, s, n + 1, F \union {b})
<1>1. PICK c \in [1 .. n -> BlocksOf(s)] : ChainRight(c, nf, fr, n, F)
  BY DEF Chains
<1>a. Enumerates(c, s, n, F)
  BY ONLY n \in Nat, c \in [1 .. n -> BlocksOf(s)], <1>1, ChainParts
<1>2. /\ \A i \in 1 .. n : c[i] \in F /\ c[i] \in BlocksOf(s)
      /\ \A x \in F : \E i \in 1 .. n : c[i] = x
      /\ \A i, j \in 1 .. n : c[i] = c[j] => i = j
  BY <1>a DEF Enumerates
<1>4. \A x \in BlocksOf(s) : x \in Blocks
  BY DEF BlocksOf, Blocks
<1> DEFINE d == [i \in 1 .. n + 1 |-> IF i = 1 THEN b ELSE c[i - 1]]
           g == [nf EXCEPT ![b] = fr]
<1>5. d \in [1 .. n + 1 -> BlocksOf(s)]
  BY <1>2
<1>6. d[1] = b /\ \A i \in 1 .. n : d[i + 1] = c[i]
  OBVIOUS
<1>7. \A i \in 1 .. n + 1 : g[d[i]] = IF i = n + 1 THEN NULL ELSE d[i + 1]
  <2> TAKE i \in 1 .. n + 1
  <2>1. CASE i = 1
    <3>1. g[d[i]] = fr
      BY <1>4, <1>6, <2>1
    <3> QED
      BY <1>1, <1>6, <2>1, <3>1 DEF ChainRight
  <2>2. CASE i # 1
    <3>1. i - 1 \in 1 .. n /\ d[i] = c[i - 1]
      BY <2>2
    <3>2. g[d[i]] = nf[c[i - 1]]
      BY <1>2, <1>4, <3>1
    <3>3. nf[c[i - 1]] = IF i - 1 = n THEN NULL ELSE c[i]
      BY <1>1, <3>1 DEF ChainRight
    <3>4. i # n + 1 => i \in 1 .. n /\ d[i + 1] = c[i]
      BY <1>6
    <3> QED
      BY <3>2, <3>3, <3>4
  <2> QED
    BY <2>1, <2>2
<1>8. IsInjective(d)
  <2>1. \A i \in 1 .. n + 1 : i # 1 => i - 1 \in 1 .. n /\ d[i] = c[i - 1] /\ d[i] # b
    BY <1>2
  <2>2. \A i, j \in 1 .. n + 1 : d[i] = d[j] => i = j
    BY <1>2, <1>6, <2>1
  <2> QED
    BY <2>2 DEF IsInjective
<1>9. ToSet(d) = F \union {b}
  <2>1. \A i \in 1 .. n + 1 : d[i] \in F \union {b}
    BY <1>2
  <2>2. \A x \in F \union {b} : \E i \in 1 .. n + 1 : d[i] = x
    <3> TAKE x \in F \union {b}
    <3>1. CASE x = b
      BY <1>6, <3>1
    <3>2. CASE x \in F
      <4>1. PICK i \in 1 .. n : c[i] = x
        BY <1>2, <3>2
      <4>2. i + 1 \in 1 .. n + 1 /\ d[i + 1] = x
        BY <1>6, <4>1
      <4> QED
        BY <4>2
    <3> QED
      BY <3>1, <3>2
  <2> QED
    BY <2>1, <2>2 DEF ToSet
<1> HIDE DEF d, g
<1>10. ChainRight(d, g, b, n + 1, F \union {b})
  BY <1>6, <1>7, <1>8, <1>9 DEF ChainRight
<1> QED
  BY <1>5, <1>10 DEF Chains, g

\* A chain does not depend on the links of other slabs.
LEMMA ChainElsewhere ==
    ASSUME NEW s, NEW n \in Nat, NEW nf, NEW fr, NEW F, NEW g,
           Chains(nf, fr, s, n, F), \A b \in BlocksOf(s) : g[b] = nf[b]
    PROVE  Chains(g, fr, s, n, F)
<1>1. PICK c \in [1 .. n -> BlocksOf(s)] : ChainRight(c, nf, fr, n, F)
  BY DEF Chains
<1>2. ChainRight(c, g, fr, n, F)
  BY <1>1 DEF ChainRight
<1> QED
  BY <1>2 DEF Chains

\* A chain as long as the slab has blocks holds all of them.
LEMMA FullChain ==
    ASSUME SlabAssumption, NEW s, NEW nf, NEW fr, NEW F, F \subseteq BlocksOf(s),
           Chains(nf, fr, s, BlocksPerSlab, F)
    PROVE  F = BlocksOf(s)
<1> DEFINE n == BlocksPerSlab
<1>0. n \in Nat
  BY DEF SlabAssumption
<1>1. PICK c \in [1 .. n -> BlocksOf(s)] : ChainRight(c, nf, fr, n, F)
  BY DEF Chains
<1>a. Enumerates(c, s, n, F)
  BY ONLY n \in Nat, c \in [1 .. n -> BlocksOf(s)], <1>1, ChainParts
<1>2. /\ \A i \in 1 .. n : c[i] \in F
      /\ \A b \in F : \E i \in 1 .. n : c[i] = b
      /\ \A i, j \in 1 .. n : c[i] = c[j] => i = j
  BY <1>a DEF Enumerates
<1>3. c \in Bijection(1 .. n, F)
  <2>1. c \in [1 .. n -> F] /\ DOMAIN c = 1 .. n
    BY <1>2
  <2>2. IsInjective(c)
    BY <1>2, <2>1 DEF IsInjective
  <2> QED
    BY <1>2, <2>1, <2>2 DEF Bijection, Injection, Surjection
<1>4. ExistsBijection(1 .. n, F)
  BY <1>3 DEF ExistsBijection
<1> DEFINE d == [i \in 1 .. n |-> <<s, i>>]
<1>5. d \in Bijection(1 .. n, BlocksOf(s))
  <2>1. d \in [1 .. n -> BlocksOf(s)] /\ DOMAIN d = 1 .. n
    BY DEF BlocksOf
  <2>2. IsInjective(d)
    BY DEF IsInjective
  <2>3. \A b \in BlocksOf(s) : b[2] \in 1 .. n /\ d[b[2]] = b
    BY DEF BlocksOf
  <2> QED
    BY <2>1, <2>2, <2>3 DEF Bijection, Injection, Surjection
<1>6. ExistsBijection(1 .. n, BlocksOf(s))
  BY <1>5 DEF ExistsBijection
<1> HIDE DEF n, d
<1>7. IsFiniteSet(1 .. n) /\ Cardinality(1 .. n) = n
  BY <1>0, FS_Interval
<1>8. IsFiniteSet(F) /\ Cardinality(F) = n
  BY <1>4, <1>7, FS_Bijection
<1>9. IsFiniteSet(BlocksOf(s)) /\ Cardinality(BlocksOf(s)) = n
  BY <1>6, <1>7, FS_Bijection
<1> QED
  BY <1>8, <1>9, FS_Subset
-----------------------------------------------------------------------------
\* The head of two sequences in a row is in one of them.
LEMMA HeadOfTwo ==
    ASSUME NEW T, NEW p \in Seq(T), NEW q \in Seq(T), p \o q # <<>>
    PROVE  Head(p \o q) \in ToSet(p) \union ToSet(q)
<1>1. CASE p = <<>>
  <2>1. p \o q = q /\ q # <<>>
    BY <1>1
  <2>2. Head(q) = q[1] /\ 1 \in DOMAIN q
    BY <2>1
  <2> QED
    BY <2>1, <2>2 DEF ToSet
<1>2. CASE p # <<>>
  <2>1. Len(p) \in Nat /\ Len(p) > 0 /\ 1 \in DOMAIN p /\ (p \o q)[1] = p[1]
    BY <1>2
  <2>2. p \o q \in Seq(T) /\ Head(p \o q) = (p \o q)[1]
    BY <1>2
  <2> QED
    BY <2>1, <2>2 DEF ToSet
<1> QED
  BY <1>1, <1>2

-----------------------------------------------------------------------------
(* The lists.                                                              *)

Caches == [afh : Seq(Slabs), hfh : Seq(Slabs), nfh : Seq(Slabs),
           slbtroot : SUBSET Slabs, n_blk : Int]

\* No slab is listed twice.
ListsApart(c) ==
    /\ IsInjective(c.afh) /\ IsInjective(c.hfh) /\ IsInjective(c.nfh)
    /\ ToSet(c.afh) \intersect ToSet(c.hfh) = {}
    /\ ToSet(c.afh) \intersect ToSet(c.nfh) = {}
    /\ ToSet(c.hfh) \intersect ToSet(c.nfh) = {}

\* From c to d, slab s has been moved to the lists that a, h and n tell.
Moved(c, d, s, a, h, n) ==
    /\ d \in Caches
    /\ ListsApart(d)
    /\ d.slbtroot = c.slbtroot
    /\ d.n_blk = c.n_blk
    /\ ToSet(d.afh) = (ToSet(c.afh) \ {s}) \union a
    /\ ToSet(d.hfh) = (ToSet(c.hfh) \ {s}) \union h
    /\ ToSet(d.nfh) = (ToSet(c.nfh) \ {s}) \union n

LEMMA Moves ==
    ASSUME NEW c \in Caches, ListsApart(c), NEW s \in Slabs
    PROVE  /\ Moved(c, OffLists(c, s), s, {}, {}, {})
           /\ Moved(c, ToAfh(c, s), s, {s}, {}, {})
           /\ Moved(c, ToHfh(c, s), s, {}, {s}, {})
           /\ Moved(c, ToNfh(c, s), s, {}, {}, {s})
<1> DEFINE o == OffLists(c, s)
<1>1. /\ c.afh \in Seq(Slabs) /\ c.hfh \in Seq(Slabs) /\ c.nfh \in Seq(Slabs)
      /\ c.slbtroot \in SUBSET Slabs /\ c.n_blk \in Int
  BY DEF Caches
<1>2. IsInjective(c.afh) /\ IsInjective(c.hfh) /\ IsInjective(c.nfh)
  BY DEF ListsApart
<1>3. /\ RemoveFirst(c.afh, s) \in Seq(Slabs) /\ IsInjective(RemoveFirst(c.afh, s))
      /\ ToSet(RemoveFirst(c.afh, s)) = ToSet(c.afh) \ {s}
  BY ONLY <1>1, <1>2, RemoveFirstProperties
<1>4. /\ RemoveFirst(c.hfh, s) \in Seq(Slabs) /\ IsInjective(RemoveFirst(c.hfh, s))
      /\ ToSet(RemoveFirst(c.hfh, s)) = ToSet(c.hfh) \ {s}
  BY ONLY <1>1, <1>2, RemoveFirstProperties
<1>5. /\ RemoveFirst(c.nfh, s) \in Seq(Slabs) /\ IsInjective(RemoveFirst(c.nfh, s))
      /\ ToSet(RemoveFirst(c.nfh, s)) = ToSet(c.nfh) \ {s}
  BY ONLY <1>1, <1>2, RemoveFirstProperties
<1>6. /\ o.afh = RemoveFirst(c.afh, s) /\ o.hfh = RemoveFirst(c.hfh, s)
      /\ o.nfh = RemoveFirst(c.nfh, s) /\ o.slbtroot = c.slbtroot /\ o.n_blk = c.n_blk
  BY DEF OffLists, Caches
<1>7. o \in Caches
  BY <1>1, <1>3, <1>4, <1>5 DEF OffLists, Caches
<1> HIDE DEF o
<1>8. Moved(c, o, s, {}, {}, {})
  BY <1>3, <1>4, <1>5, <1>6, <1>7 DEF Moved, ListsApart
<1>9. s \notin ToSet(o.afh) /\ s \notin ToSet(o.hfh) /\ s \notin ToSet(o.nfh)
  BY <1>3, <1>4, <1>5, <1>6
<1>10. /\ o.afh \in Seq(Slabs) /\ o.hfh \in Seq(Slabs) /\ o.nfh \in Seq(Slabs)
       /\ IsInjective(o.afh) /\ IsInjective(o.hfh) /\ IsInjective(o.nfh)
  BY <1>3, <1>4, <1>5, <1>6
<1>11. Moved(c, ToAfh(c, s), s, {s}, {}, {})
  <2> DEFINE d == ToAfh(c, s)
  <2>1. /\ d.afh = <<s>> \o o.afh /\ d.hfh = o.hfh /\ d.nfh = o.nfh
        /\ d.slbtroot = o.slbtroot /\ d.n_blk = o.n_blk
    BY <1>7 DEF ToAfh, o, Caches
  <2>2. /\ <<s>> \o o.afh \in Seq(Slabs) /\ IsInjective(<<s>> \o o.afh)
        /\ ToSet(<<s>> \o o.afh) = ToSet(o.afh) \union {s}
    BY ONLY <1>9, <1>10, s \in Slabs, ConsMembers
  <2>3. d \in Caches
    BY <1>7, <2>2 DEF ToAfh, o, Caches
  <2> HIDE DEF d
  <2>4. Moved(c, d, s, {s}, {}, {})
    BY <1>8, <1>9, <2>1, <2>2, <2>3 DEF Moved, ListsApart
  <2> QED
    BY <2>4 DEF d
<1>12. Moved(c, ToHfh(c, s), s, {}, {s}, {})
  <2> DEFINE d == ToHfh(c, s)
  <2>1. /\ d.hfh = <<s>> \o o.hfh /\ d.afh = o.afh /\ d.nfh = o.nfh
        /\ d.slbtroot = o.slbtroot /\ d.n_blk = o.n_blk
    BY <1>7 DEF ToHfh, o, Caches
  <2>2. /\ <<s>> \o o.hfh \in Seq(Slabs) /\ IsInjective(<<s>> \o o.hfh)
        /\ ToSet(<<s>> \o o.hfh) = ToSet(o.hfh) \union {s}
    BY ONLY <1>9, <1>10, s \in Slabs, ConsMembers
  <2>3. d \in Caches
    BY <1>7, <2>2 DEF ToHfh, o, Caches
  <2> HIDE DEF d
  <2>4. Moved(c, d, s, {}, {s}, {})
    BY <1>8, <1>9, <2>1, <2>2, <2>3 DEF Moved, ListsApart
  <2> QED
    BY <2>4 DEF d
<1>13. Moved(c, ToNfh(c, s), s, {}, {}, {s})
  <2> DEFINE d == ToNfh(c, s)
  <2>1. /\ d.nfh = <<s>> \o o.nfh /\ d.afh = o.afh /\ d.hfh = o.hfh
        /\ d.slbtroot = o.slbtroot /\ d.n_blk = o.n_blk
    BY <1>7 DEF ToNfh, o, Caches
  <2>2. /\ <<s>> \o o.nfh \in Seq(Slabs) /\ IsInjective(<<s>> \o o.nfh)
        /\ ToSet(<<s>> \o o.nfh) = ToSet(o.nfh) \union {s}
    BY ONLY <1>9, <1>10, s \in Slabs, ConsMembers
  <2>3. d \in Caches
    BY <1>7, <2>2 DEF ToNfh, o, Caches
  <2> HIDE DEF d
  <2>4. Moved(c, d, s, {}, {}, {s})
    BY <1>8, <1>9, <2>1, <2>2, <2>3 DEF Moved, ListsApart
  <2> QED
    BY <2>4 DEF d
<1> QED
  BY <1>8, <1>11, <1>12, <1>13 DEF o
-----------------------------------------------------------------------------
(* The invariant, for one caller at a time.                                *)

\* With two callers blocks are lost: see FreeFindsSlab.
SingleCaller == \A j, k \in SlabCallers : j = k

\* Caller k has taken a block off the chain and not yet counted it.
Taking(k) == allocStep[k] \in {"list", "count"}

\* The blocks that are in no chain.
OutOrTaken == handedOut \union {fp[k] : k \in {j \in SlabCallers : Taking(j)}}

FreeLeft(s) ==
    IF \E k \in SlabCallers : Taking(k) /\ mySlab[k] = s
    THEN slab[s].n_fblk - 1 ELSE slab[s].n_fblk

SlabTypes ==
    /\ cache \in Caches
    /\ slab \in [Slabs -> [freepos : Blocks \union {NULL}, n_fblk : Nat]]
    /\ nextFree \in [Blocks -> Blocks \union {NULL}]
    /\ handedOut \in SUBSET Blocks
    /\ allocStep \in [SlabCallers -> {"out", "grow", "read", "advance", "list", "count"}]
    /\ mySlab \in [SlabCallers -> Slabs \union {NULL}]
    /\ fp \in [SlabCallers -> Blocks \union {NULL}]
    /\ slabFate = "ok"

\* A slab is all free, but for the caller that is about to count it down.
CountedFree(s) ==
    /\ slab[s].n_fblk = BlocksPerSlab
    /\ ~ \E k \in SlabCallers : allocStep[k] = "count" /\ mySlab[k] = s

\* The list and the tree that s belongs to by its count.
ListedRight(s) ==
    /\ s \in ToSet(cache.afh) <=> CountedFree(s)
    /\ s \in ToSet(cache.nfh) <=> slab[s].n_fblk = 0
    /\ s \in ToSet(cache.afh) <=> s \notin cache.slbtroot

\* What is not taken of s is in its chain, once.
ChainKept(s) ==
    Chains(nextFree, slab[s].freepos, s, FreeLeft(s), BlocksOf(s) \ OutOrTaken)

\* A caller has a slab that is listed and has a free block.
CallerRight(k) ==
    /\ allocStep[k] \in {"read", "advance", "list", "count"} =>
         mySlab[k] \in Listed(cache) /\ slab[mySlab[k]].n_fblk # 0
    /\ allocStep[k] = "advance" => fp[k] = slab[mySlab[k]].freepos
    /\ Taking(k) => fp[k] \in BlocksOf(mySlab[k]) \ handedOut

SlabInv ==
    /\ SlabTypes
    /\ ListsApart(cache)
    /\ IsFiniteSet(handedOut)
    /\ cache.n_blk = Cardinality(handedOut)
    /\ cache.slbtroot \subseteq Listed(cache)
    /\ \A b \in handedOut : b[1] \in Listed(cache)
    /\ \A s \in Listed(cache) : ListedRight(s) /\ ChainKept(s)
    /\ \A k \in SlabCallers : CallerRight(k)

LEMMA NullIsNoBlock ==
    ASSUME SlabAssumption
    PROVE  NULL \notin Blocks
BY DEF SlabAssumption, Blocks

LEMMA ListedAreSlabs ==
    ASSUME NEW c \in Caches
    PROVE  Listed(c) \subseteq Slabs
<1>1. c.afh \in Seq(Slabs) /\ c.hfh \in Seq(Slabs) /\ c.nfh \in Seq(Slabs)
  BY DEF Caches
<1>2. /\ DOMAIN c.afh = 1 .. Len(c.afh) /\ \A i \in 1 .. Len(c.afh) : c.afh[i] \in Slabs
  BY <1>1, SequenceMembers
<1>3. /\ DOMAIN c.hfh = 1 .. Len(c.hfh) /\ \A i \in 1 .. Len(c.hfh) : c.hfh[i] \in Slabs
  BY <1>1, SequenceMembers
<1>4. /\ DOMAIN c.nfh = 1 .. Len(c.nfh) /\ \A i \in 1 .. Len(c.nfh) : c.nfh[i] \in Slabs
  BY <1>1, SequenceMembers
<1> QED
  BY <1>2, <1>3, <1>4 DEF Listed, ToSet

\* The only caller there is.
LEMMA OneCaller ==
    ASSUME SingleCaller, NEW k \in SlabCallers
    PROVE  /\ \A j \in SlabCallers : j = k
           /\ OutOrTaken = IF Taking(k) THEN handedOut \union {fp[k]} ELSE handedOut
           /\ \A s : FreeLeft(s) = IF Taking(k) /\ mySlab[k] = s
                                   THEN slab[s].n_fblk - 1 ELSE slab[s].n_fblk
           /\ \A s : CountedFree(s) <=> /\ slab[s].n_fblk = BlocksPerSlab
                                        /\ ~(allocStep[k] = "count" /\ mySlab[k] = s)
<1>1. \A j \in SlabCallers : j = k
  BY DEF SingleCaller
<1>2. {j \in SlabCallers : Taking(j)} = IF Taking(k) THEN {k} ELSE {}
  BY <1>1
<1>3. OutOrTaken = IF Taking(k) THEN handedOut \union {fp[k]} ELSE handedOut
  BY <1>2 DEF OutOrTaken
<1> QED
  BY <1>1, <1>3 DEF FreeLeft, CountedFree

LEMMA SlabInitially ==
    ASSUME SlabAssumption, SlabInit
    PROVE  SlabInv
<1>1. /\ cache.afh = <<>> /\ cache.hfh = <<>> /\ cache.nfh = <<>> /\ cache.slbtroot = {}
      /\ cache.n_blk = 0
  BY DEF SlabInit, NewCache
<1>2. SlabTypes
  BY DEF SlabInit, NewCache, SlabTypes, Caches
<1>3. \A q : q = <<>> => IsInjective(q) /\ ToSet(q) = {}
  BY DEF IsInjective, ToSet
<1>4. ListsApart(cache) /\ Listed(cache) = {}
  BY <1>1, <1>3 DEF ListsApart, Listed
<1>5. IsFiniteSet(handedOut) /\ Cardinality(handedOut) = 0 /\ handedOut = {}
  BY FS_EmptySet DEF SlabInit
<1>6. \A k \in SlabCallers : CallerRight(k)
  BY DEF SlabInit, CallerRight, Taking
<1> QED
  BY <1>1, <1>2, <1>4, <1>5, <1>6 DEF SlabInv
-----------------------------------------------------------------------------
(* One lemma for each step.                                                *)

LEMMA ChoosePreserves ==
    ASSUME SlabAssumption, SingleCaller, SlabInv, NEW k \in SlabCallers, AllocChoose(k)
    PROVE  SlabInv'
<1> DEFINE c == cache.hfh \o cache.afh
<1>0. SlabTypes /\ ListsApart(cache) /\ cache \in Caches
  BY DEF SlabInv, SlabTypes
<1>1. /\ allocStep[k] = "out"
      /\ UNCHANGED <<cache, slab, nextFree, handedOut, fp, slabFate>>
      /\ c = <<>> => allocStep' = [allocStep EXCEPT ![k] = "grow"] /\ mySlab' = mySlab
      /\ c # <<>> => /\ allocStep' = [allocStep EXCEPT ![k] = "read"]
                     /\ mySlab' = [mySlab EXCEPT ![k] = Head(c)]
  BY DEF AllocChoose, StepTo
<1>2. allocStep'[k] \in {"grow", "read"}
  BY <1>0, <1>1 DEF SlabTypes
<1>3. cache.afh \in Seq(Slabs) /\ cache.hfh \in Seq(Slabs)
  BY <1>0 DEF Caches
<1>4. c # <<>> => Head(c) \in ToSet(cache.hfh) \union ToSet(cache.afh)
  BY ONLY <1>3, HeadOfTwo
<1> HIDE DEF c
<1>5. c # <<>> => Head(c) \in Listed(cache) /\ slab[Head(c)].n_fblk # 0
  BY <1>0, <1>4 DEF SlabInv, ListedRight, ListsApart, Listed
<1>6. /\ \A j \in SlabCallers : j = k
      /\ OutOrTaken = handedOut
      /\ \A s : FreeLeft(s) = slab[s].n_fblk
      /\ \A s : CountedFree(s) <=> slab[s].n_fblk = BlocksPerSlab
  BY <1>1, OneCaller DEF Taking
<1>8. /\ OutOrTaken' = handedOut'
      /\ \A s : FreeLeft(s)' = slab'[s].n_fblk
      /\ \A s : CountedFree(s)' <=> slab'[s].n_fblk = BlocksPerSlab
  BY <1>2, <1>6 DEF OutOrTaken, FreeLeft, CountedFree, Taking
<1>9. SlabTypes'
  BY <1>0, <1>1, <1>5, ListedAreSlabs DEF SlabTypes
<1>10. \A s \in Listed(cache) : ListedRight(s)' /\ ChainKept(s)'
  BY <1>1, <1>6, <1>8 DEF SlabInv, ListedRight, ChainKept
<1>11. CallerRight(k)'
  BY <1>0, <1>1, <1>2, <1>5 DEF CallerRight, Taking, SlabTypes
<1> QED
  BY <1>1, <1>6, <1>9, <1>10, <1>11 DEF SlabInv, ListsApart, Listed

LEMMA GrowPreserves ==
    ASSUME SlabAssumption, SingleCaller, SlabInv, NEW k \in SlabCallers, AllocGrow(k)
    PROVE  SlabInv'
<1>0. SlabTypes /\ ListsApart(cache) /\ cache \in Caches /\ Listed(cache) \subseteq Slabs
  BY ListedAreSlabs DEF SlabInv, SlabTypes
<1>1. /\ \A j \in SlabCallers : j = k
      /\ OutOrTaken = handedOut
      /\ \A s : FreeLeft(s) = slab[s].n_fblk
      /\ \A s : CountedFree(s) <=> slab[s].n_fblk = BlocksPerSlab
  BY OneCaller DEF Taking, AllocGrow
<1>2. CASE Slabs \subseteq Listed(cache) /\ StepTo(k, "out") /\ UNCHANGED <<cache, slab, nextFree, mySlab>>
  <2>1. UNCHANGED <<cache, slab, nextFree, mySlab, handedOut, fp, slabFate>>
    BY <1>2 DEF AllocGrow
  <2>2. allocStep' \in [SlabCallers -> {"out", "grow", "read", "advance", "list", "count"}]
        /\ allocStep'[k] = "out"
    BY <1>0, <1>2 DEF SlabTypes, StepTo
  <2>3. /\ OutOrTaken' = handedOut'
        /\ \A s : FreeLeft(s)' = slab'[s].n_fblk
        /\ \A s : CountedFree(s)' <=> slab'[s].n_fblk = BlocksPerSlab
    BY <2>2, <1>1 DEF OutOrTaken, FreeLeft, CountedFree, Taking
  <2>4. SlabTypes'
    BY <1>0, <2>1, <2>2 DEF SlabTypes
  <2>5. \A s \in Listed(cache) : ListedRight(s)' /\ ChainKept(s)'
    BY <1>1, <2>1, <2>3 DEF SlabInv, ListedRight, ChainKept
  <2>6. CallerRight(k)'
    BY <2>2 DEF CallerRight, Taking
  <2> QED
    BY <1>1, <2>1, <2>4, <2>5, <2>6 DEF SlabInv, ListsApart, Listed
<1>3. ASSUME NEW s \in Slabs \ Listed(cache),
             cache' = ToAfh(cache, s),
             slab' = [slab EXCEPT ![s] = [freepos |-> <<s, Chained>>,
                                          n_fblk  |-> BlocksPerSlab]],
             nextFree' = [b \in Blocks |->
                             IF b[1] # s THEN nextFree[b]
                             ELSE IF b[2] = 1 THEN NULL ELSE <<s, b[2] - 1>>],
             mySlab' = [mySlab EXCEPT ![k] = s],
             StepTo(k, "read")
      PROVE  SlabInv'
  <2>1. UNCHANGED <<handedOut, fp, slabFate>>
    BY DEF AllocGrow
  <2>2. allocStep' \in [SlabCallers -> {"out", "grow", "read", "advance", "list", "count"}]
        /\ allocStep'[k] = "read"
    BY <1>0, <1>3 DEF SlabTypes, StepTo
  <2>3. /\ OutOrTaken' = handedOut'
        /\ \A x : FreeLeft(x)' = slab'[x].n_fblk
        /\ \A x : CountedFree(x)' <=> slab'[x].n_fblk = BlocksPerSlab
    BY <2>2, <1>1 DEF OutOrTaken, FreeLeft, CountedFree, Taking
  <2>4. Moved(cache, ToAfh(cache, s), s, {s}, {}, {})
    BY ONLY <1>0, s \in Slabs, Moves
  <2>5. /\ cache' \in Caches /\ ListsApart(cache)'
        /\ cache'.slbtroot = cache.slbtroot /\ cache'.n_blk = cache.n_blk
        /\ ToSet(cache'.afh) = ToSet(cache.afh) \union {s}
        /\ ToSet(cache'.hfh) = ToSet(cache.hfh)
        /\ ToSet(cache'.nfh) = ToSet(cache.nfh)
    BY <1>3, <2>4 DEF Moved, ListsApart, Listed
  <2>6. Listed(cache)' = Listed(cache) \union {s}
    BY <2>5 DEF Listed
  <2>7. /\ BlocksPerSlab \in Nat \ {0} /\ Chained = BlocksPerSlab
        /\ <<s, BlocksPerSlab>> \in Blocks
    BY DEF SlabAssumption, Chained, Blocks
  <2>8. /\ slab'[s] = [freepos |-> <<s, Chained>>, n_fblk |-> BlocksPerSlab]
        /\ \A x \in Slabs : x # s => slab'[x] = slab[x]
        /\ slab' \in [Slabs -> [freepos : Blocks \union {NULL}, n_fblk : Nat]]
    BY <1>0, <1>3, <2>7 DEF SlabTypes
  <2>9. nextFree' \in [Blocks -> Blocks \union {NULL}]
    <3>1. \A b \in Blocks : b[1] = s => b[2] \in 1 .. BlocksPerSlab
      BY DEF Blocks
    <3>2. \A b \in Blocks : b[1] = s /\ b[2] # 1 => <<s, b[2] - 1>> \in Blocks
      BY <2>7, <3>1 DEF Blocks
    <3> QED
      BY <1>0, <1>3, <3>2 DEF SlabTypes
  <2>10. SlabTypes'
    BY <1>0, <1>3, <2>1, <2>2, <2>5, <2>8, <2>9 DEF SlabTypes
  <2>11. \A x \in Slabs : \A b \in BlocksOf(x) : b \in Blocks /\ b[1] = x
    BY DEF BlocksOf, Blocks
  <2>12. ASSUME NEW x \in Listed(cache)
         PROVE  ListedRight(x)' /\ ChainKept(x)'
    <3>1. x # s /\ x \in Slabs /\ slab'[x] = slab[x] /\ slab[x].n_fblk \in Nat
      BY <1>0, <2>8 DEF SlabTypes
    <3>2. ListedRight(x)'
      BY <1>1, <2>3, <2>5, <3>1 DEF SlabInv, ListedRight
    <3>3. Chains(nextFree, slab[x].freepos, x, slab[x].n_fblk, BlocksOf(x) \ handedOut)
      BY <1>1 DEF SlabInv, ChainKept
    <3>4. \A b \in BlocksOf(x) : nextFree'[b] = nextFree[b]
      BY <1>3, <2>11, <3>1
    <3>5. Chains(nextFree', slab[x].freepos, x, slab[x].n_fblk, BlocksOf(x) \ handedOut)
      BY ONLY <3>1, <3>3, <3>4, ChainElsewhere
    <3> QED
      BY <2>1, <2>3, <3>1, <3>2, <3>5 DEF ChainKept
  <2>13. ListedRight(s)'
    BY <2>3, <2>5, <2>7, <2>8 DEF SlabInv, ListedRight, ListsApart, Listed
  <2>14. ChainKept(s)'
    <3>0. \A b \in handedOut : b[1] # s
      BY DEF SlabInv
    <3>1. BlocksOf(s) \ handedOut = BlocksOf(s)
      BY <2>11, <3>0
    <3>2. \A b \in BlocksOf(s) : nextFree'[b] = IF b[2] = 1 THEN NULL ELSE <<s, b[2] - 1>>
      BY <1>3, <2>11
    <3>3. Chains(nextFree', <<s, BlocksPerSlab>>, s, BlocksPerSlab, BlocksOf(s))
      BY ONLY SlabAssumption, s \in Slabs, <3>2, NewChain
    <3>4. slab'[s].freepos = <<s, BlocksPerSlab>> /\ slab'[s].n_fblk = BlocksPerSlab
      BY <2>7, <2>8
    <3> QED
      BY <2>1, <2>3, <3>1, <3>3, <3>4 DEF ChainKept
  <2>15. CallerRight(k)'
    BY <1>0, <1>3, <2>2, <2>6, <2>7, <2>8 DEF CallerRight, Taking, SlabTypes
  <2> QED
    BY <1>1, <2>1, <2>5, <2>6, <2>10, <2>12, <2>13, <2>14, <2>15 DEF SlabInv
<1> QED
  BY <1>2, <1>3 DEF AllocGrow

LEMMA ReadPreserves ==
    ASSUME SlabAssumption, SingleCaller, SlabInv, NEW k \in SlabCallers, AllocRead(k)
    PROVE  SlabInv'
<1> DEFINE s == mySlab[k]
<1>0. SlabTypes /\ ListsApart(cache) /\ cache \in Caches /\ Listed(cache) \subseteq Slabs
  BY ListedAreSlabs DEF SlabInv, SlabTypes
<1>1. /\ \A j \in SlabCallers : j = k
      /\ OutOrTaken = handedOut
      /\ \A x : FreeLeft(x) = slab[x].n_fblk
      /\ \A x : CountedFree(x) <=> slab[x].n_fblk = BlocksPerSlab
  BY OneCaller DEF Taking, AllocRead
<1>2. s \in Listed(cache) /\ s \in Slabs /\ slab[s].n_fblk \in Nat \ {0}
  BY <1>0 DEF SlabInv, CallerRight, AllocRead, SlabTypes
<1>3. Chains(nextFree, slab[s].freepos, s, slab[s].n_fblk, BlocksOf(s) \ handedOut)
  BY <1>1, <1>2 DEF SlabInv, ChainKept
<1> HIDE DEF s
<1>4. nextFree \in [Blocks -> Blocks \union {NULL}]
  BY <1>0 DEF SlabTypes
<1>5. /\ slab[s].freepos \in BlocksOf(s) \ handedOut /\ slab[s].freepos \in BlocksOf(s)
      /\ Chains([nextFree EXCEPT ![slab[s].freepos] = NULL], nextFree[slab[s].freepos],
                s, slab[s].n_fblk - 1, (BlocksOf(s) \ handedOut) \ {slab[s].freepos})
  BY ONLY SlabAssumption, <1>2, <1>3, <1>4, ChainTake
<1>6. slab[s].freepos \in Blocks /\ slab[s].freepos # NULL
  BY <1>2, <1>5, NullIsNoBlock DEF BlocksOf, Blocks
<1>7. /\ fp' = [fp EXCEPT ![k] = slab[s].freepos]
      /\ allocStep' = [allocStep EXCEPT ![k] = "advance"]
      /\ UNCHANGED <<cache, slab, nextFree, handedOut, mySlab, slabFate>>
  BY <1>6 DEF AllocRead, StepTo, s
<1>8. allocStep'[k] = "advance"
  BY <1>0, <1>7 DEF SlabTypes
<1>9. /\ OutOrTaken' = handedOut'
      /\ \A x : FreeLeft(x)' = slab'[x].n_fblk
      /\ \A x : CountedFree(x)' <=> slab'[x].n_fblk = BlocksPerSlab
  BY <1>1, <1>8 DEF OutOrTaken, FreeLeft, CountedFree, Taking
<1>10. SlabTypes'
  BY <1>0, <1>6, <1>7 DEF SlabTypes
<1>11. \A x \in Listed(cache) : ListedRight(x)' /\ ChainKept(x)'
  BY <1>1, <1>7, <1>9 DEF SlabInv, ListedRight, ChainKept
<1>12. CallerRight(k)'
  <2>1. mySlab'[k] = s /\ fp'[k] = slab[s].freepos
    BY <1>0, <1>7 DEF SlabTypes, s
  <2> QED
    BY <1>2, <1>7, <1>8, <2>1 DEF CallerRight, Taking, Listed
<1> QED
  BY <1>1, <1>7, <1>10, <1>11, <1>12 DEF SlabInv, ListsApart, Listed

\* Slabs do not share blocks.
LEMMA BlocksApart ==
    ASSUME NEW x \in Slabs, NEW b \in BlocksOf(x)
    PROVE  b \in Blocks /\ b[1] = x /\ \A y : b \in BlocksOf(y) => y = x
BY DEF BlocksOf, Blocks

LEMMA AdvancePreserves ==
    ASSUME SlabAssumption, SingleCaller, SlabInv, NEW k \in SlabCallers, AllocAdvance(k)
    PROVE  SlabInv'
<1>a. PICK s, n, fr : s = mySlab[k] /\ n = slab[s].n_fblk /\ fr = slab[s].freepos
  OBVIOUS
<1>0. SlabTypes /\ ListsApart(cache) /\ cache \in Caches /\ Listed(cache) \subseteq Slabs
  BY ListedAreSlabs DEF SlabInv, SlabTypes
<1>1. /\ \A j \in SlabCallers : j = k
      /\ OutOrTaken = handedOut
      /\ \A x : FreeLeft(x) = slab[x].n_fblk
      /\ \A x : CountedFree(x) <=> slab[x].n_fblk = BlocksPerSlab
  BY OneCaller DEF Taking, AllocAdvance
<1>2. s \in Listed(cache) /\ s \in Slabs /\ n \in Nat \ {0} /\ fp[k] = fr
  BY <1>0, <1>a DEF SlabInv, CallerRight, AllocAdvance, SlabTypes
<1>3. Chains(nextFree, fr, s, n, BlocksOf(s) \ handedOut)
  BY <1>1, <1>2, <1>a DEF SlabInv, ChainKept
<1>4. nextFree \in [Blocks -> Blocks \union {NULL}]
  BY <1>0 DEF SlabTypes
<1>5. /\ allocStep' = [allocStep EXCEPT ![k] = "list"]
      /\ slab' = [slab EXCEPT ![s].freepos = nextFree[fr]]
      /\ nextFree' = [nextFree EXCEPT ![fr] = NULL]
      /\ UNCHANGED <<cache, handedOut, mySlab, fp, slabFate>>
  BY <1>2, <1>a DEF AllocAdvance, StepTo
<1>6. /\ slab'[s].n_fblk = n /\ slab'[s].freepos = nextFree[fr]
      /\ \A x \in Slabs : x # s => slab'[x] = slab[x]
      /\ \A x \in Slabs : slab'[x].n_fblk = slab[x].n_fblk
  BY <1>0, <1>2, <1>5, <1>a DEF SlabTypes
<1>7. /\ fr \in BlocksOf(s) \ handedOut /\ fr \in BlocksOf(s)
      /\ Chains([nextFree EXCEPT ![fr] = NULL], nextFree[fr], s, n - 1,
                (BlocksOf(s) \ handedOut) \ {fr})
  BY ONLY SlabAssumption, <1>2, <1>3, <1>4, ChainTake
<1>8. fr \in Blocks /\ nextFree[fr] \in Blocks \union {NULL}
  BY <1>2, <1>4, <1>7, BlocksApart
<1>9. allocStep'[k] = "list" /\ mySlab'[k] = s /\ fp'[k] = fr
  BY <1>0, <1>2, <1>5, <1>a DEF SlabTypes
<1>10. /\ OutOrTaken' = handedOut \union {fr}
       /\ \A x : FreeLeft(x)' = IF s = x THEN slab'[x].n_fblk - 1 ELSE slab'[x].n_fblk
       /\ \A x : CountedFree(x)' <=> slab'[x].n_fblk = BlocksPerSlab
  <2>1. {j \in SlabCallers : Taking(j)'} = {k}
    BY <1>1, <1>9 DEF Taking
  <2>2. OutOrTaken' = handedOut \union {fr}
    BY <1>5, <1>9, <2>1 DEF OutOrTaken
  <2> QED
    BY <1>1, <1>9, <2>2 DEF FreeLeft, CountedFree, Taking
<1>11. SlabTypes'
  <2>1. slab' \in [Slabs -> [freepos : Blocks \union {NULL}, n_fblk : Nat]]
    BY <1>0, <1>2, <1>5, <1>8 DEF SlabTypes
  <2>2. nextFree' \in [Blocks -> Blocks \union {NULL}]
    BY <1>4, <1>5
  <2> QED
    BY <1>0, <1>5, <2>1, <2>2 DEF SlabTypes
<1>12. ASSUME NEW x \in Listed(cache), x # s
       PROVE  ChainKept(x)'
  <2>1. x \in Slabs /\ slab'[x] = slab[x] /\ slab[x].n_fblk \in Nat
    BY <1>0, <1>6, <1>12 DEF SlabTypes
  <2>2. Chains(nextFree, slab[x].freepos, x, slab[x].n_fblk, BlocksOf(x) \ handedOut)
    BY <1>1 DEF SlabInv, ChainKept
  <2>3. fr \notin BlocksOf(x)
    BY <1>2, <1>7, <1>12, BlocksApart
  <2>4. \A b \in BlocksOf(x) : nextFree'[b] = nextFree[b]
    BY <1>4, <1>5, <2>1, <2>3, BlocksApart
  <2>5. Chains(nextFree', slab[x].freepos, x, slab[x].n_fblk, BlocksOf(x) \ handedOut)
    BY ONLY <2>1, <2>2, <2>4, ChainElsewhere
  <2>6. BlocksOf(x) \ handedOut = BlocksOf(x) \ OutOrTaken'
    BY <1>10, <2>3
  <2> QED
    BY <1>10, <1>12, <2>1, <2>5, <2>6 DEF ChainKept
<1>13. ChainKept(s)'
  <2>1. (BlocksOf(s) \ handedOut) \ {fr} = BlocksOf(s) \ OutOrTaken'
    BY <1>10
  <2>2. FreeLeft(s)' = n - 1
    BY <1>6, <1>10
  <2> QED
    BY <1>5, <1>6, <1>7, <2>1, <2>2 DEF ChainKept
<1>14. \A x \in Listed(cache) : ListedRight(x)'
  BY <1>0, <1>1, <1>5, <1>6, <1>10 DEF SlabInv, ListedRight
<1>15. CallerRight(k)'
  BY <1>2, <1>5, <1>6, <1>7, <1>9 DEF CallerRight, Taking, Listed
<1>16. \A x \in Listed(cache)' : ListedRight(x)' /\ ChainKept(x)'
  BY <1>5, <1>12, <1>13, <1>14 DEF Listed
<1> QED
  BY <1>1, <1>5, <1>11, <1>15, <1>16 DEF SlabInv, ListsApart, Listed

LEMMA ListPreserves ==
    ASSUME SlabAssumption, SingleCaller, SlabInv, NEW k \in SlabCallers, AllocList(k)
    PROVE  SlabInv'
<1>0. SlabTypes /\ ListsApart(cache) /\ cache \in Caches /\ Listed(cache) \subseteq Slabs
  BY ListedAreSlabs DEF SlabInv, SlabTypes
<1>a. PICK s, n, b : s = mySlab[k] /\ n = slab[s].n_fblk /\ b = fp[k]
  OBVIOUS
<1>1. /\ \A j \in SlabCallers : j = k
      /\ OutOrTaken = handedOut \union {b}
      /\ \A x : FreeLeft(x) = IF s = x THEN slab[x].n_fblk - 1 ELSE slab[x].n_fblk
      /\ \A x : CountedFree(x) <=> slab[x].n_fblk = BlocksPerSlab
  BY <1>a, OneCaller DEF Taking, AllocList
<1>2. s \in Listed(cache) /\ s \in Slabs /\ n \in Nat \ {0} /\ b \in BlocksOf(s) \ handedOut
  BY <1>0, <1>a DEF SlabInv, CallerRight, AllocList, SlabTypes, Taking
<1>3. ListedRight(s)
  BY <1>2 DEF SlabInv
<1>4. n = BlocksPerSlab => s \in ToSet(cache.afh) /\ s \notin cache.slbtroot
  BY <1>1, <1>3, <1>a DEF ListedRight
<1>5. /\ n # BlocksPerSlab => cache' = cache
      /\ n = BlocksPerSlab =>
            cache' = [ToHfh(cache, s) EXCEPT !.slbtroot = @ \union {s}]
      /\ allocStep' = [allocStep EXCEPT ![k] = "count"]
      /\ UNCHANGED <<slab, nextFree, handedOut, mySlab, fp, slabFate>>
  BY <1>4, <1>a DEF AllocList, StepTo
<1>6. allocStep'[k] = "count" /\ mySlab'[k] = s /\ fp'[k] = b
  BY <1>0, <1>5, <1>a DEF SlabTypes
<1>7. /\ OutOrTaken' = handedOut \union {b}
      /\ \A x : FreeLeft(x)' = FreeLeft(x)
      /\ \A x : CountedFree(x)' <=> slab[x].n_fblk = BlocksPerSlab /\ x # s
  <2>1. {j \in SlabCallers : Taking(j)'} = {k}
    BY <1>1, <1>6 DEF Taking
  <2>2. OutOrTaken' = handedOut \union {b}
    BY <1>5, <1>6, <2>1 DEF OutOrTaken
  <2>3. \A x : FreeLeft(x)' = FreeLeft(x)
    BY <1>1, <1>5, <1>6 DEF FreeLeft, Taking
  <2>4. \A x : CountedFree(x)' <=> slab[x].n_fblk = BlocksPerSlab /\ x # s
    BY <1>1, <1>5, <1>6 DEF CountedFree
  <2> QED
    BY <2>2, <2>3, <2>4
<1>8. /\ cache' \in Caches /\ ListsApart(cache)'
      /\ cache'.n_blk = cache.n_blk
      /\ Listed(cache)' = Listed(cache)
      /\ \A x : x # s => /\ x \in ToSet(cache.afh) <=> x \in ToSet(cache'.afh)
                         /\ x \in ToSet(cache.nfh) <=> x \in ToSet(cache'.nfh)
                         /\ x \in cache.slbtroot <=> x \in cache'.slbtroot
      /\ s \notin ToSet(cache'.afh) /\ s \notin ToSet(cache'.nfh) /\ s \in cache'.slbtroot
  <2>1. CASE n # BlocksPerSlab
    BY <1>0, <1>1, <1>2, <1>3, <1>5, <1>a, <2>1 DEF ListedRight, ListsApart, Listed
  <2>2. CASE n = BlocksPerSlab
    <3>1. Moved(cache, ToHfh(cache, s), s, {}, {s}, {})
      BY ONLY <1>0, <1>2, Moves
    <3>2. PICK d : d = ToHfh(cache, s)
      OBVIOUS
    <3>3. d \in Caches /\ cache' = [d EXCEPT !.slbtroot = @ \union {s}]
      BY <1>5, <2>2, <3>1, <3>2 DEF Moved
    <3>4. /\ cache'.afh = d.afh /\ cache'.hfh = d.hfh /\ cache'.nfh = d.nfh
          /\ cache'.n_blk = d.n_blk /\ cache'.slbtroot = d.slbtroot \union {s}
          /\ cache' \in Caches
      BY <1>2, <3>3 DEF Caches
    <3>5. /\ ListsApart(d)
          /\ ToSet(d.afh) = ToSet(cache.afh) \ {s}
          /\ ToSet(d.hfh) = (ToSet(cache.hfh) \ {s}) \union {s}
          /\ ToSet(d.nfh) = ToSet(cache.nfh) \ {s}
          /\ d.slbtroot = cache.slbtroot /\ d.n_blk = cache.n_blk
      BY <3>1, <3>2 DEF Moved
    <3>6. ListsApart(cache)'
      BY <3>4, <3>5 DEF ListsApart
    <3>7. Listed(cache)' = Listed(cache)
      BY <1>2, <3>4, <3>5 DEF Listed
    <3> QED
      BY <3>4, <3>5, <3>6, <3>7
  <2> QED
    BY <2>1, <2>2
<1>9. SlabTypes'
  BY <1>0, <1>5, <1>8 DEF SlabTypes
<1>10. \A x \in Listed(cache) : ChainKept(x)'
  <2> TAKE x \in Listed(cache)
  <2>1. FreeLeft(x)' = FreeLeft(x) /\ OutOrTaken' = OutOrTaken
    BY <1>1, <1>7
  <2>2. Chains(nextFree, slab[x].freepos, x, FreeLeft(x), BlocksOf(x) \ OutOrTaken)
    BY DEF SlabInv, ChainKept
  <2> QED
    BY <1>5, <2>1, <2>2 DEF ChainKept
<1>11. \A x \in Listed(cache) : ListedRight(x)'
  <2>1. ASSUME NEW x \in Listed(cache), x # s PROVE ListedRight(x)'
    <3>1. ListedRight(x)
      BY DEF SlabInv
    <3> QED
      BY <1>1, <1>5, <1>7, <1>8, <2>1, <3>1 DEF ListedRight
  <2>2. ListedRight(s)'
    BY <1>2, <1>5, <1>7, <1>8, <1>a DEF ListedRight
  <2> QED
    BY <2>1, <2>2
<1>12. cache'.slbtroot \subseteq Listed(cache)
  BY <1>2, <1>8 DEF SlabInv
<1>13. CallerRight(k)'
  BY <1>2, <1>5, <1>6, <1>8, <1>a DEF CallerRight, Taking
<1> QED
  BY <1>1, <1>5, <1>8, <1>9, <1>10, <1>11, <1>12, <1>13 DEF SlabInv

LEMMA CountPreserves ==
    ASSUME SlabAssumption, SingleCaller, SlabInv, NEW k \in SlabCallers, AllocCount(k)
    PROVE  SlabInv'
<1>0. SlabTypes /\ ListsApart(cache) /\ cache \in Caches /\ Listed(cache) \subseteq Slabs
  BY ListedAreSlabs DEF SlabInv, SlabTypes
<1>a. PICK s, n, b : s = mySlab[k] /\ n = slab[s].n_fblk /\ b = fp[k]
  OBVIOUS
<1>1. /\ \A j \in SlabCallers : j = k
      /\ OutOrTaken = handedOut \union {b}
      /\ \A x : FreeLeft(x) = IF s = x THEN slab[x].n_fblk - 1 ELSE slab[x].n_fblk
      /\ \A x : CountedFree(x) <=> slab[x].n_fblk = BlocksPerSlab /\ x # s
  BY <1>a, OneCaller DEF Taking, AllocCount
<1>2. s \in Listed(cache) /\ s \in Slabs /\ n \in Nat \ {0} /\ b \in BlocksOf(s) \ handedOut
  BY <1>0, <1>a DEF SlabInv, CallerRight, AllocCount, SlabTypes, Taking
<1>3. ListedRight(s) /\ ChainKept(s)
  BY <1>2 DEF SlabInv
<1>4. Chains(nextFree, slab[s].freepos, s, n - 1, BlocksOf(s) \ OutOrTaken)
  BY <1>1, <1>3, <1>a DEF ChainKept
<1>5. n - 1 # BlocksPerSlab
  <2>1. SUFFICES ASSUME n - 1 = BlocksPerSlab PROVE FALSE
    OBVIOUS
  <2>2. BlocksOf(s) \ OutOrTaken \subseteq BlocksOf(s)
    OBVIOUS
  <2>3. BlocksOf(s) \ OutOrTaken = BlocksOf(s)
    BY ONLY SlabAssumption, <1>4, <2>1, <2>2, FullChain
  <2> QED
    BY <1>1, <1>2, <2>3
<1>6. PICK c : c = IF n = 1 THEN ToNfh(cache, s) ELSE cache
  OBVIOUS
<1>7. /\ allocStep' = [allocStep EXCEPT ![k] = "out"]
      /\ slab' = [slab EXCEPT ![s].n_fblk = @ - 1]
      /\ cache' = [c EXCEPT !.n_blk = @ + 1]
      /\ handedOut' = handedOut \union {b}
      /\ mySlab' = [mySlab EXCEPT ![k] = NULL]
      /\ fp' = [fp EXCEPT ![k] = NULL]
      /\ UNCHANGED <<nextFree, slabFate>>
  BY <1>6, <1>a DEF AllocCount, StepTo
<1>8. /\ slab'[s].n_fblk = n - 1 /\ slab'[s].freepos = slab[s].freepos
      /\ \A x \in Slabs : x # s => slab'[x] = slab[x]
      /\ slab' \in [Slabs -> [freepos : Blocks \union {NULL}, n_fblk : Nat]]
  <2>1. slab \in [Slabs -> [freepos : Blocks \union {NULL}, n_fblk : Nat]]
    BY <1>0 DEF SlabTypes
  <2>2. PICK r : r = [slab[s] EXCEPT !.n_fblk = @ - 1]
    OBVIOUS
  <2>3. /\ r \in [freepos : Blocks \union {NULL}, n_fblk : Nat]
        /\ r.n_fblk = n - 1 /\ r.freepos = slab[s].freepos
    BY <1>2, <1>a, <2>1, <2>2
  <2>4. slab' = [slab EXCEPT ![s] = r]
    BY <1>2, <1>7, <2>1, <2>2
  <2> QED
    BY ONLY <1>2, <2>1, <2>3, <2>4
<1>9. allocStep'[k] = "out"
  BY <1>0, <1>7 DEF SlabTypes
<1>10. /\ OutOrTaken' = handedOut \union {b}
       /\ \A x : FreeLeft(x)' = slab'[x].n_fblk
       /\ \A x : CountedFree(x)' <=> slab'[x].n_fblk = BlocksPerSlab
  <2>1. {j \in SlabCallers : Taking(j)'} = {}
    BY <1>1, <1>9 DEF Taking
  <2>2. OutOrTaken' = handedOut \union {b}
    BY <1>7, <2>1 DEF OutOrTaken
  <2> QED
    BY <1>1, <1>9, <2>2 DEF FreeLeft, CountedFree, Taking
<1>11. /\ c \in Caches /\ ListsApart(c) /\ c.n_blk = cache.n_blk /\ c.slbtroot = cache.slbtroot
       /\ Listed(c) = Listed(cache)
       /\ ToSet(c.afh) = ToSet(cache.afh)
       /\ \A x : x # s => (x \in ToSet(cache.nfh) <=> x \in ToSet(c.nfh))
       /\ s \in ToSet(c.nfh) <=> n = 1
  <2>0. s \notin ToSet(cache.afh) /\ s \notin ToSet(cache.nfh)
    BY <1>1, <1>2, <1>3, <1>a DEF ListedRight
  <2>1. CASE n # 1
    BY <1>0, <1>6, <2>0, <2>1
  <2>2. CASE n = 1
    <3>1. Moved(cache, ToNfh(cache, s), s, {}, {}, {s})
      BY ONLY <1>0, <1>2, Moves
    <3>2. c = ToNfh(cache, s)
      BY <1>6, <2>2
    <3>3. /\ c \in Caches /\ ListsApart(c)
          /\ ToSet(c.afh) = ToSet(cache.afh) \ {s}
          /\ ToSet(c.hfh) = ToSet(cache.hfh) \ {s}
          /\ ToSet(c.nfh) = (ToSet(cache.nfh) \ {s}) \union {s}
          /\ c.slbtroot = cache.slbtroot /\ c.n_blk = cache.n_blk
      BY <3>1, <3>2 DEF Moved
    <3>4. Listed(c) = Listed(cache)
      BY <1>2, <3>3 DEF Listed
    <3> QED
      BY <2>0, <2>2, <3>3, <3>4
  <2> QED
    BY <2>1, <2>2
<1>12. /\ cache'.afh = c.afh /\ cache'.hfh = c.hfh /\ cache'.nfh = c.nfh
       /\ cache'.slbtroot = c.slbtroot /\ cache'.n_blk = c.n_blk + 1 /\ cache' \in Caches
  <2>1. /\ c.afh \in Seq(Slabs) /\ c.hfh \in Seq(Slabs) /\ c.nfh \in Seq(Slabs)
        /\ c.slbtroot \in SUBSET Slabs /\ c.n_blk + 1 \in Int
        /\ c \in [afh : Seq(Slabs), hfh : Seq(Slabs), nfh : Seq(Slabs),
                  slbtroot : SUBSET Slabs, n_blk : Int]
    BY <1>11 DEF Caches
  <2>2. cache' = [c EXCEPT !.n_blk = c.n_blk + 1]
    BY <1>7
  <2> QED
    BY ONLY <2>1, <2>2 DEF Caches
<1>13. ListsApart(cache)' /\ Listed(cache)' = Listed(cache)
  BY <1>11, <1>12 DEF ListsApart, Listed
<1>14. SlabTypes'
  BY <1>0, <1>2, <1>7, <1>8, <1>12, BlocksApart DEF SlabTypes
<1>15. IsFiniteSet(handedOut)' /\ Cardinality(handedOut') = Cardinality(handedOut) + 1
  BY <1>2, <1>7, FS_AddElement DEF SlabInv
<1>16. ASSUME NEW x \in Listed(cache), x # s PROVE ListedRight(x)' /\ ChainKept(x)'
  <2>1. x \in Slabs /\ slab'[x] = slab[x] /\ ListedRight(x) /\ ChainKept(x)
    BY <1>0, <1>8, <1>16 DEF SlabInv
  <2>2. ListedRight(x)'
    BY <1>1, <1>10, <1>11, <1>12, <1>16, <2>1 DEF ListedRight
  <2>3. FreeLeft(x)' = FreeLeft(x) /\ OutOrTaken' = OutOrTaken
    BY <1>1, <1>10, <1>16, <2>1
  <2>4. ChainKept(x)'
    BY <1>7, <2>1, <2>3 DEF ChainKept
  <2> QED
    BY <2>2, <2>4
<1>17. ListedRight(s)'
  BY <1>1, <1>2, <1>3, <1>5, <1>8, <1>10, <1>11, <1>12 DEF ListedRight
<1>18. ChainKept(s)'
  BY <1>1, <1>4, <1>7, <1>8, <1>10 DEF ChainKept
<1>19. CallerRight(k)'
  BY <1>9 DEF CallerRight, Taking
<1>20. /\ \A x \in handedOut' : x[1] \in Listed(cache)
       /\ cache'.slbtroot \subseteq Listed(cache)
  BY <1>2, <1>7, <1>11, <1>12, BlocksApart DEF SlabInv
<1>21. cache'.n_blk = Cardinality(handedOut')
  BY <1>11, <1>12, <1>15 DEF SlabInv
<1> QED
  BY <1>1, <1>13, <1>14, <1>15, <1>16, <1>17, <1>18, <1>19, <1>20, <1>21 DEF SlabInv

\* What memcache_free() does to the lists, of a slab that was not all free.
LEMMA FreeMoves ==
    ASSUME SlabTypes, ListsApart(cache), cache \in Caches, NEW s \in Slabs, s \in Listed(cache),
           s \notin ToSet(cache.afh),
           s \in ToSet(cache.nfh) <=> slab[s].n_fblk = 0
    PROVE  /\ AfterFree(s) \in Caches
           /\ ListsApart(AfterFree(s))
           /\ AfterFree(s).n_blk = cache.n_blk
           /\ Listed(AfterFree(s)) = Listed(cache)
           /\ AfterFree(s).slbtroot = IF slab[s].n_fblk + 1 = BlocksPerSlab
                                      THEN cache.slbtroot \ {s} ELSE cache.slbtroot
           /\ \A x : x # s => /\ x \in ToSet(cache.afh) <=> x \in ToSet(AfterFree(s).afh)
                              /\ x \in ToSet(cache.nfh) <=> x \in ToSet(AfterFree(s).nfh)
           /\ s \in ToSet(AfterFree(s).afh) <=> slab[s].n_fblk + 1 = BlocksPerSlab
           /\ s \notin ToSet(AfterFree(s).nfh)
<1>a. PICK n : n = slab[s].n_fblk
  OBVIOUS
<1>b. PICK c : c = IF n = 0 THEN ToHfh(cache, s) ELSE cache
  OBVIOUS
<1>1. /\ c \in Caches /\ ListsApart(c) /\ c.n_blk = cache.n_blk /\ c.slbtroot = cache.slbtroot
      /\ Listed(c) = Listed(cache)
      /\ ToSet(c.afh) = ToSet(cache.afh)
      /\ ToSet(c.nfh) = ToSet(cache.nfh) \ {s}
  <2>1. CASE n # 0
    BY <1>a, <1>b, <2>1
  <2>2. CASE n = 0
    <3>1. Moved(cache, ToHfh(cache, s), s, {}, {s}, {})
      BY ONLY cache \in Caches, ListsApart(cache), s \in Slabs, Moves
    <3>2. c = ToHfh(cache, s)
      BY <1>b, <2>2
    <3>3. /\ c \in Caches /\ ListsApart(c)
          /\ ToSet(c.afh) = ToSet(cache.afh) \ {s}
          /\ ToSet(c.hfh) = (ToSet(cache.hfh) \ {s}) \union {s}
          /\ ToSet(c.nfh) = ToSet(cache.nfh) \ {s}
          /\ c.slbtroot = cache.slbtroot /\ c.n_blk = cache.n_blk
      BY <3>1, <3>2 DEF Moved
    <3>4. Listed(c) = Listed(cache)
      BY <3>3 DEF Listed
    <3> QED
      BY <3>3, <3>4
  <2> QED
    BY <2>1, <2>2
<1>2. PICK e : e = AfterFree(s)
  OBVIOUS
<1>3. e = IF n + 1 = BlocksPerSlab
          THEN [ToAfh(c, s) EXCEPT !.slbtroot = @ \ {s}] ELSE c
  BY <1>2, <1>a, <1>b DEF AfterFree
<1>4. CASE n + 1 # BlocksPerSlab
  BY <1>1, <1>2, <1>3, <1>4, <1>a
<1>5. CASE n + 1 = BlocksPerSlab
  <2>1. Moved(c, ToAfh(c, s), s, {s}, {}, {})
    BY ONLY <1>1, s \in Slabs, Moves
  <2>2. PICK d : d = ToAfh(c, s)
    OBVIOUS
  <2>3. /\ d \in Caches /\ ListsApart(d)
        /\ ToSet(d.afh) = (ToSet(c.afh) \ {s}) \union {s}
        /\ ToSet(d.hfh) = ToSet(c.hfh) \ {s}
        /\ ToSet(d.nfh) = ToSet(c.nfh) \ {s}
        /\ d.slbtroot = c.slbtroot /\ d.n_blk = c.n_blk
    BY <2>1, <2>2 DEF Moved
  <2>4. Listed(d) = Listed(c)
    BY <1>1, <2>3 DEF Listed
  <2>5. e = [d EXCEPT !.slbtroot = d.slbtroot \ {s}]
    BY <1>3, <1>5, <2>2
  <2>6. /\ e.afh = d.afh /\ e.hfh = d.hfh /\ e.nfh = d.nfh /\ e.n_blk = d.n_blk
        /\ e.slbtroot = d.slbtroot \ {s} /\ e \in Caches
    BY <2>3, <2>5 DEF Caches
  <2>7. ListsApart(e) /\ Listed(e) = Listed(d)
    BY <2>3, <2>6 DEF ListsApart, Listed
  <2>8. \A x : x # s => /\ x \in ToSet(cache.afh) <=> x \in ToSet(e.afh)
                        /\ x \in ToSet(cache.nfh) <=> x \in ToSet(e.nfh)
    BY <1>1, <2>3, <2>6
  <2>9. s \in ToSet(e.afh) /\ s \notin ToSet(e.nfh)
    BY <2>3, <2>6
  <2> QED
    BY <1>1, <1>2, <1>5, <1>a, <2>3, <2>4, <2>6, <2>7, <2>8, <2>9
<1> QED
  BY <1>4, <1>5

LEMMA FreePreserves ==
    ASSUME SlabAssumption, SingleCaller, SlabInv, NEW k \in SlabCallers, NEW b \in Blocks,
           MemcacheFree(k, b)
    PROVE  SlabInv'
<1>0. SlabTypes /\ ListsApart(cache) /\ cache \in Caches /\ Listed(cache) \subseteq Slabs
  BY ListedAreSlabs DEF SlabInv, SlabTypes
<1>a. PICK s, n, fr : s = b[1] /\ n = slab[s].n_fblk /\ fr = slab[s].freepos
  OBVIOUS
<1>1. /\ \A j \in SlabCallers : j = k
      /\ OutOrTaken = handedOut
      /\ \A x : FreeLeft(x) = slab[x].n_fblk
      /\ \A x : CountedFree(x) <=> slab[x].n_fblk = BlocksPerSlab
  BY OneCaller DEF Taking, MemcacheFree
<1>2. /\ b \in handedOut /\ s \in Listed(cache) /\ s \in Slabs /\ b \in BlocksOf(s)
      /\ n \in Nat /\ fr \in Blocks \union {NULL}
  BY <1>0, <1>a DEF SlabInv, MemcacheFree, SlabTypes, Blocks, BlocksOf
<1>3. ListedRight(s) /\ Chains(nextFree, fr, s, n, BlocksOf(s) \ handedOut)
  BY <1>1, <1>2, <1>a DEF SlabInv, ChainKept
<1>4. n # BlocksPerSlab
  <2>1. SUFFICES ASSUME n = BlocksPerSlab PROVE FALSE
    OBVIOUS
  <2>2. BlocksOf(s) \ handedOut \subseteq BlocksOf(s)
    OBVIOUS
  <2>3. BlocksOf(s) \ handedOut = BlocksOf(s)
    BY ONLY SlabAssumption, <1>3, <2>1, <2>2, FullChain
  <2> QED
    BY <1>2, <2>3
<1>5. /\ s \in cache.slbtroot /\ s \notin ToSet(cache.afh)
      /\ s \in ToSet(cache.nfh) <=> slab[s].n_fblk = 0
  BY <1>1, <1>3, <1>4, <1>a DEF ListedRight
<1>6. PICK c : c = AfterFree(s)
  OBVIOUS
<1>7. /\ slab' = [slab EXCEPT ![s] = [freepos |-> b, n_fblk |-> n + 1]]
      /\ nextFree' = [nextFree EXCEPT ![b] = fr]
      /\ cache' = [c EXCEPT !.n_blk = @ - 1]
      /\ handedOut' = handedOut \ {b}
      /\ UNCHANGED <<allocStep, mySlab, fp, slabFate>>
  <2>1. slab \in [Slabs -> [freepos : Blocks \union {NULL}, n_fblk : Nat]]
    BY <1>0 DEF SlabTypes
  <2> QED
    BY <1>2, <1>5, <1>6, <1>a, <2>1 DEF MemcacheFree
<1>8. /\ c \in Caches
      /\ ListsApart(c)
      /\ c.n_blk = cache.n_blk
      /\ Listed(c) = Listed(cache)
      /\ c.slbtroot = IF n + 1 = BlocksPerSlab THEN cache.slbtroot \ {s} ELSE cache.slbtroot
      /\ \A x : x # s => /\ x \in ToSet(cache.afh) <=> x \in ToSet(c.afh)
                         /\ x \in ToSet(cache.nfh) <=> x \in ToSet(c.nfh)
      /\ s \in ToSet(c.afh) <=> n + 1 = BlocksPerSlab
      /\ s \notin ToSet(c.nfh)
  BY <1>0, <1>2, <1>5, <1>6, <1>a, FreeMoves
<1>9. /\ cache'.afh = c.afh /\ cache'.hfh = c.hfh /\ cache'.nfh = c.nfh
      /\ cache'.slbtroot = c.slbtroot /\ cache'.n_blk = c.n_blk - 1 /\ cache' \in Caches
  <2>1. /\ c.afh \in Seq(Slabs) /\ c.hfh \in Seq(Slabs) /\ c.nfh \in Seq(Slabs)
        /\ c.slbtroot \in SUBSET Slabs /\ c.n_blk - 1 \in Int
        /\ c \in [afh : Seq(Slabs), hfh : Seq(Slabs), nfh : Seq(Slabs),
                  slbtroot : SUBSET Slabs, n_blk : Int]
    BY <1>8 DEF Caches
  <2>2. cache' = [c EXCEPT !.n_blk = c.n_blk - 1]
    BY <1>7
  <2> QED
    BY ONLY <2>1, <2>2 DEF Caches
<1>10. ListsApart(cache)' /\ Listed(cache)' = Listed(cache)
  BY <1>8, <1>9 DEF ListsApart, Listed
<1>11. nextFree \in [Blocks -> Blocks \union {NULL}]
  BY <1>0 DEF SlabTypes
<1>12. /\ slab'[s].freepos = b /\ slab'[s].n_fblk = n + 1
       /\ \A x \in Slabs : x # s => slab'[x] = slab[x]
       /\ slab' \in [Slabs -> [freepos : Blocks \union {NULL}, n_fblk : Nat]]
  <2>1. slab \in [Slabs -> [freepos : Blocks \union {NULL}, n_fblk : Nat]]
    BY <1>0 DEF SlabTypes
  <2> QED
    BY <1>2, <1>7, <2>1
<1>13. SlabTypes'
  BY <1>0, <1>2, <1>7, <1>9, <1>11, <1>12 DEF SlabTypes
<1>14. /\ OutOrTaken' = handedOut'
       /\ \A x : FreeLeft(x)' = slab'[x].n_fblk
       /\ \A x : CountedFree(x)' <=> slab'[x].n_fblk = BlocksPerSlab
  <2>1. allocStep'[k] = "out"
    BY <1>7 DEF MemcacheFree
  <2>2. {j \in SlabCallers : Taking(j)'} = {}
    BY <1>1, <2>1 DEF Taking
  <2>3. OutOrTaken' = handedOut'
    BY <1>7, <2>2 DEF OutOrTaken
  <2> QED
    BY <1>1, <2>1, <2>3 DEF FreeLeft, CountedFree, Taking
<1>15. /\ IsFiniteSet(handedOut)' /\ Cardinality(handedOut') = Cardinality(handedOut) - 1
  BY <1>2, <1>7, FS_RemoveElement DEF SlabInv
<1>16. ChainKept(s)'
  <2>1. Chains([nextFree EXCEPT ![b] = fr], b, s, n + 1, (BlocksOf(s) \ handedOut) \union {b})
    BY ONLY SlabAssumption, <1>2, <1>3, <1>11, ChainPut, b \notin BlocksOf(s) \ handedOut
  <2>2. (BlocksOf(s) \ handedOut) \union {b} = BlocksOf(s) \ handedOut'
    BY <1>2, <1>7
  <2> QED
    BY <1>7, <1>12, <1>14, <2>1, <2>2 DEF ChainKept
<1>17. ASSUME NEW x \in Listed(cache), x # s PROVE ListedRight(x)' /\ ChainKept(x)'
  <2>1. x \in Slabs /\ slab'[x] = slab[x] /\ ListedRight(x) /\ slab[x].n_fblk \in Nat
    BY <1>0, <1>12, <1>17 DEF SlabInv, SlabTypes
  <2>2. ListedRight(x)'
    BY <1>1, <1>8, <1>9, <1>14, <1>17, <2>1 DEF ListedRight
  <2>3. Chains(nextFree, slab[x].freepos, x, slab[x].n_fblk, BlocksOf(x) \ handedOut)
    BY <1>1 DEF SlabInv, ChainKept
  <2>4. b \notin BlocksOf(x)
    BY <1>2, <1>17, BlocksApart
  <2>5. \A y \in BlocksOf(x) : nextFree'[y] = nextFree[y]
    BY <1>7, <1>11, <2>1, <2>4, BlocksApart
  <2>6. Chains(nextFree', slab[x].freepos, x, slab[x].n_fblk, BlocksOf(x) \ handedOut)
    BY ONLY <2>1, <2>3, <2>5, ChainElsewhere
  <2>7. BlocksOf(x) \ handedOut = BlocksOf(x) \ handedOut'
    BY <1>7, <2>4
  <2>8. ChainKept(x)'
    BY <1>14, <2>1, <2>6, <2>7 DEF ChainKept
  <2> QED
    BY <2>2, <2>8
<1>18. ListedRight(s)'
  BY <1>2, <1>5, <1>8, <1>9, <1>12, <1>14 DEF ListedRight
<1>19. CallerRight(k)'
  BY <1>7 DEF CallerRight, Taking, MemcacheFree
<1>20. /\ \A x \in handedOut' : x[1] \in Listed(cache)
       /\ cache'.slbtroot \subseteq Listed(cache)
  BY <1>7, <1>8, <1>9 DEF SlabInv
<1>21. cache'.n_blk = Cardinality(handedOut')
  BY <1>8, <1>9, <1>15 DEF SlabInv
<1> QED
  BY <1>1, <1>10, <1>13, <1>15, <1>16, <1>17, <1>18, <1>19, <1>20, <1>21 DEF SlabInv

LEMMA DestroyPreserves ==
    ASSUME SlabAssumption, SlabInv, MemcacheDestroy
    PROVE  SlabInv'
<1>1. /\ cache' = NewCache /\ handedOut' = {} /\ UNCHANGED <<allocStep, mySlab, fp, slabFate>>
      /\ slab' = [s \in Slabs |-> [freepos |-> NULL, n_fblk |-> 0]]
      /\ nextFree' = [b \in Blocks |-> NULL]
      /\ \A k \in SlabCallers : allocStep[k] = "out"
  BY DEF MemcacheDestroy
<1>2. /\ cache'.afh = <<>> /\ cache'.hfh = <<>> /\ cache'.nfh = <<>> /\ cache'.slbtroot = {}
      /\ cache'.n_blk = 0 /\ cache' \in Caches
  BY <1>1 DEF NewCache, Caches
<1>3. SlabTypes'
  BY <1>1, <1>2 DEF SlabInv, SlabTypes
<1>4. \A q : q = <<>> => IsInjective(q) /\ ToSet(q) = {}
  BY DEF IsInjective, ToSet
<1>5. ListsApart(cache)' /\ Listed(cache)' = {}
  BY <1>2, <1>4 DEF ListsApart, Listed
<1>6. IsFiniteSet(handedOut)' /\ Cardinality(handedOut') = 0
  BY <1>1, FS_EmptySet
<1>7. \A k \in SlabCallers : CallerRight(k)'
  BY <1>1 DEF CallerRight, Taking
<1> QED
  BY <1>1, <1>2, <1>3, <1>5, <1>6, <1>7 DEF SlabInv
-----------------------------------------------------------------------------
(* The theorems.                                                           *)

LEMMA SlabStep ==
    ASSUME SlabAssumption, SingleCaller, SlabInv, [SlabNext]_slabVars
    PROVE  SlabInv'
<1>1. CASE UNCHANGED slabVars
  <2>1. UNCHANGED <<cache, slab, nextFree, handedOut, allocStep, mySlab, fp, slabFate>>
    BY <1>1 DEF slabVars
  <2>2. SlabTypes' /\ ListsApart(cache)' /\ Listed(cache)' = Listed(cache)
    BY <2>1 DEF SlabInv, SlabTypes, ListsApart, Listed
  <2>3. \A k \in SlabCallers : CallerRight(k)' /\ (Taking(k)' <=> Taking(k))
    BY <2>1 DEF SlabInv, CallerRight, Taking, Listed
  <2>4. OutOrTaken' = OutOrTaken
    BY <2>1, <2>3 DEF OutOrTaken
  <2>5. \A s : FreeLeft(s)' = FreeLeft(s) /\ (CountedFree(s)' <=> CountedFree(s))
    BY <2>1, <2>3 DEF FreeLeft, CountedFree
  <2>6. \A s \in Listed(cache) : ListedRight(s)' /\ ChainKept(s)'
    BY <2>1, <2>4, <2>5 DEF SlabInv, ListedRight, ChainKept
  <2> QED
    BY <2>1, <2>2, <2>3, <2>6 DEF SlabInv
<1>2. CASE SlabNext
  <2>1. ASSUME NEW k \in SlabCallers, AllocStep(k) PROVE SlabInv'
    BY <2>1, ChoosePreserves, GrowPreserves, ReadPreserves, AdvancePreserves, ListPreserves,
       CountPreserves DEF AllocStep
  <2>2. ASSUME NEW k \in SlabCallers, NEW b \in Blocks, MemcacheFree(k, b) PROVE SlabInv'
    BY <2>2, FreePreserves
  <2> QED
    BY <1>2, <2>1, <2>2, DestroyPreserves DEF SlabNext
<1> QED
  BY <1>1, <1>2

\* SlabInv is inductive: it says of every step of memcache_alloc() which block
\* and which slab the caller is about to change.
THEOREM SlabInvariant ==
    ASSUME SlabAssumption, SingleCaller
    PROVE  SlabSpec => []SlabInv
<1>1. SlabInit => SlabInv
  BY SlabInitially
<1>2. SlabInv /\ [SlabNext]_slabVars => SlabInv'
  BY SlabStep
<1> QED
  BY <1>1, <1>2, PTL DEF SlabSpec

LEMMA AtRestIsOut ==
    ASSUME SlabInv, AtRest
    PROVE  /\ OutOrTaken = handedOut
           /\ \A s : FreeLeft(s) = slab[s].n_fblk
           /\ \A s : CountedFree(s) <=> slab[s].n_fblk = BlocksPerSlab
<1>1. \A k \in SlabCallers : ~Taking(k) /\ allocStep[k] # "count"
  BY DEF AtRest, Taking
<1>2. OutOrTaken = handedOut
  BY <1>1 DEF OutOrTaken
<1> QED
  BY <1>1, <1>2 DEF FreeLeft, CountedFree

\* BlocksAccounted: between the calls of one caller a block is in its slab's free chain once or is
\* handed out, never both and never neither.
THEOREM SlabBlocksAccountedHolds ==
    ASSUME SlabAssumption, SingleCaller
    PROVE  SlabSpec => []BlocksAccounted
<1>1. SlabInv => BlocksAccounted
  <2> SUFFICES ASSUME SlabInv, AtRest, NEW s \in Listed(cache)
               PROVE  \E c \in [1 .. slab[s].n_fblk -> {s} \X (1 .. BlocksPerSlab)] :
                         /\ IsChain(c, slab[s].freepos, slab[s].n_fblk)
                         /\ IsInjective(c)
                         /\ ToSet(c) = ({s} \X (1 .. BlocksPerSlab)) \ handedOut
    BY DEF BlocksAccounted
  <2>1. Chains(nextFree, slab[s].freepos, s, slab[s].n_fblk, BlocksOf(s) \ handedOut)
    BY AtRestIsOut DEF SlabInv, ChainKept
  <2> QED
    BY <2>1 DEF Chains, ChainRight, IsChain, BlocksOf
<1> QED
  BY <1>1, SlabInvariant, PTL

\* SlabListsAgree: the lists, the tree and the counts agree, memcache_free() finds the slab of
\* each block that is handed out, and no assertion fails.
THEOREM SlabListsAgreeHolds ==
    ASSUME SlabAssumption, SingleCaller
    PROVE  SlabSpec => []SlabListsAgree
<1>1. SlabInv => SlabListsAgree
  <2> SUFFICES ASSUME SlabInv PROVE SlabListsAgree
    OBVIOUS
  <2>1. /\ cache.afh \in Seq(Slabs) /\ cache.hfh \in Seq(Slabs) /\ cache.nfh \in Seq(Slabs)
    BY DEF SlabInv, SlabTypes, Caches
  <2>2. /\ IsInjective(cache.afh) /\ IsInjective(cache.hfh) /\ IsInjective(cache.nfh)
        /\ ToSet(cache.afh) \intersect ToSet(cache.hfh) = {}
        /\ (ToSet(cache.afh) \union ToSet(cache.hfh)) \intersect ToSet(cache.nfh) = {}
    BY DEF SlabInv, ListsApart
  <2>3. /\ cache.afh \o cache.hfh \in Seq(Slabs)
        /\ IsInjective(cache.afh \o cache.hfh)
        /\ ToSet(cache.afh \o cache.hfh) = ToSet(cache.afh) \union ToSet(cache.hfh)
    BY ONLY <2>1, <2>2, TwoInjective
  <2>4. PICK p : p = cache.afh \o cache.hfh
    OBVIOUS
  <2>5. p \in Seq(Slabs) /\ IsInjective(p) /\ ToSet(p) \intersect ToSet(cache.nfh) = {}
    BY <2>2, <2>3, <2>4
  <2>6. /\ p \o cache.nfh \in Seq(Slabs)
        /\ IsInjective(p \o cache.nfh)
        /\ ToSet(p \o cache.nfh) = ToSet(p) \union ToSet(cache.nfh)
    BY ONLY <2>1, <2>2, <2>5, TwoInjective
  <2>7. IsInjective(cache.afh \o cache.hfh \o cache.nfh)
    BY <2>4, <2>6
  <2>8. ASSUME AtRest
        PROVE  \A s \in Listed(cache) :
                 /\ s \in ToSet(cache.afh) <=> slab[s].n_fblk = BlocksPerSlab
                 /\ s \in ToSet(cache.nfh) <=> slab[s].n_fblk = 0
                 /\ s \in ToSet(cache.afh) <=> s \notin cache.slbtroot
    BY <2>8, AtRestIsOut DEF SlabInv, ListedRight
  <2>9. cache.n_blk = Cardinality(handedOut) /\ slabFate = "ok"
    BY DEF SlabInv, SlabTypes
  <2> QED
    BY <2>7, <2>8, <2>9 DEF SlabListsAgree
<1> QED
  BY <1>1, SlabInvariant, PTL
=============================================================================
