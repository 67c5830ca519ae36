------------------------------- MODULE Library -------------------------------
(***************************************************************************)
(* sort(), bsearch() and alg_bsch() of core/func.c, one turn of their      *)
(* loops at a time: the memory map is sorted with the first, exported      *)
(* symbols are found with the second and the symbol of an address with the *)
(* third.  Elements are numbers, and indices count elements and not bytes. *)
(***************************************************************************)
EXTENDS Integers, Sequences, FiniteSets

CONSTANTS
    Elements,           \* the values in the arrays
    MaxElements         \* bound on the length of arrays

ASSUME LibraryAssumption == Elements \subseteq Int /\ MaxElements \in Nat \ {0}

VARIABLES
    array, unsorted,    \* the array from 0, and what it was at first
    call,               \* the function called, and where it stands
    key,                \* what is looked for
    idxL, idxR,         \* bounds of the searches; i and r of sort()
    foundAt             \* the index a search returns, -1 for NULL; Searching before

libraryVars == <<array, unsorted, call, key, idxL, idxR, foundAt>>

Searching == -2
Num      == Cardinality(DOMAIN array)
Arrays   == UNION {[0 .. n - 1 -> Elements] : n \in 0 .. MaxElements}
Ascending(a) == \A i, j \in DOMAIN a : i < j => a[i] < a[j]
Swapped(a, i, j) == [a EXCEPT ![i] = a[j], ![j] = a[i]]
Gives(i) == foundAt' = i /\ UNCHANGED <<array, unsorted, call, key, idxL, idxR>>
-----------------------------------------------------------------------------
(* sort(): idxL is i and idxR is r.                                        *)

HeapEnd == IF call = "heapify" THEN Num ELSE idxL
Child   == 2 * idxR + 1

\* Mutant: the left child is taken.
LeftChild == Child

LargerChild ==
    IF Child < HeapEnd - 1 /\ array[Child] < array[Child + 1] THEN Child + 1 ELSE Child

Sinks == Child < HeapEnd /\ array[idxR] < array[LargerChild]

SiftDown ==
    /\ call \in {"heapify", "extract"} /\ Sinks
    /\ array' = Swapped(array, idxR, LargerChild)
    /\ idxR' = LargerChild
    /\ UNCHANGED <<unsorted, call, key, idxL, foundAt>>

\* The next turn of the second loop for i, which begins with a swap.
Extract(i) ==
    IF i > 0
    THEN array' = Swapped(array, 0, i) /\ call' = "extract" /\ idxL' = i /\ idxR' = 0
    ELSE call' = "sorted" /\ UNCHANGED <<array, idxL, idxR>>

HeapifyNext ==
    /\ call = "heapify" /\ ~Sinks
    /\ IF idxL > 0
       THEN idxL' = idxL - 1 /\ idxR' = idxL - 1 /\ UNCHANGED <<array, call>>
       ELSE Extract(Num - 1)
    /\ UNCHANGED <<unsorted, key, foundAt>>

ExtractNext ==
    /\ call = "extract" /\ ~Sinks
    /\ Extract(idxL - 1)
    /\ UNCHANGED <<unsorted, key, foundAt>>
-----------------------------------------------------------------------------
(* The searches.                                                           *)

Middle == idxL + (idxR - idxL) \div 2

Bsearch ==
    /\ call = "bsearch" /\ foundAt = Searching
    /\ IF idxL >= idxR THEN Gives(-1)
       ELSE IF array[Middle] = key THEN Gives(Middle)
       ELSE /\ IF key < array[Middle]
               THEN idxR' = Middle /\ UNCHANGED idxL
               ELSE idxL' = Middle + 1 /\ UNCHANGED idxR
            /\ UNCHANGED <<array, unsorted, call, key, foundAt>>

AlgBsch ==
    /\ call = "alg_bsch" /\ foundAt = Searching
    /\ IF idxL + 1 = idxR THEN Gives(idxL)
       ELSE IF array[Middle] = key THEN Gives(Middle)
       ELSE /\ IF key < array[Middle]
               THEN idxR' = Middle /\ UNCHANGED idxL
               ELSE idxL' = Middle /\ UNCHANGED idxR
            /\ UNCHANGED <<array, unsorted, call, key, foundAt>>

\* Searched arrays are in strictly ascending order: symbols and addresses are
\* different.  alg_bsch() is not called for an empty array.
LibraryInit ==
    /\ array \in Arrays /\ unsorted = array
    /\ call \in {"heapify", "bsearch", "alg_bsch"}
    /\ call = "heapify" => Num > 1
    /\ call # "heapify" => Ascending(array)
    /\ call = "alg_bsch" => Num > 0
    /\ IF call = "heapify" THEN key = 0 ELSE key \in Elements
    /\ idxL = IF call = "heapify" THEN Num \div 2 - 1 ELSE 0
    /\ idxR = IF call = "heapify" THEN idxL ELSE Num
    /\ foundAt = Searching

LibraryNext == SiftDown \/ HeapifyNext \/ ExtractNext \/ Bsearch \/ AlgBsch

LibrarySpec == LibraryInit /\ [][LibraryNext]_libraryVars
-----------------------------------------------------------------------------
Times(a, x) == Cardinality({i \in DOMAIN a : a[i] = x})

\* sort() puts the elements it was given in order; bsearch() finds an element
\* just if it is there; alg_bsch() finds the last element that is not above
\* the key, if there is one, and the first otherwise.
LibraryRight ==
    /\ call = "sorted" =>
         /\ \A i, j \in DOMAIN array : i < j => array[i] <= array[j]
         /\ \A x \in Elements : Times(array, x) = Times(unsorted, x)
    /\ call = "bsearch" /\ foundAt # Searching =>
         IF \E i \in DOMAIN array : array[i] = key
         THEN foundAt \in DOMAIN array /\ array[foundAt] = key
         ELSE foundAt = -1
    /\ call = "alg_bsch" /\ foundAt # Searching =>
         /\ foundAt \in DOMAIN array
         /\ array[foundAt] <= key \/ foundAt = 0
         /\ \A i \in DOMAIN array : i > foundAt => array[i] > key
=============================================================================
