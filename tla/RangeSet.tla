------------------------------ MODULE RangeSet ------------------------------
(***************************************************************************)
(* What a tree of address ranges promises: it is a set of ranges that do   *)
(* not overlap.  A range is named by its left end.                         *)
(***************************************************************************)
EXTENDS Integers, Sequences, SequencesExt

CONSTANTS
    Node,           \* the ranges
    Nil,            \* no range
    Span,           \* the length of a range
    Probes          \* the addresses that are looked up

VARIABLES
    contents,       \* the ranges in the set
    answer          \* what the last call has returned

rangeSetVars == <<contents, answer>>

Apart(m, n) == m + Span <= n \/ n + Span <= m

Covers(n, p) == n <= p /\ p < n + Span

NoAnswer == <<"none", 0, 0>>

RangeSetInit == contents = {} /\ answer = NoAnswer

\* A call begins.
Asked ==
    /\ answer' = NoAnswer
    /\ UNCHANGED contents

Insert(n) ==
    /\ \A m \in contents : Apart(m, n)
    /\ contents' = contents \union {n}
    /\ answer' = <<"insert", n, 0>>

Refuse(n) ==
    /\ \E m \in contents : ~Apart(m, n)
    /\ answer' = <<"insert", n, -1>>
    /\ UNCHANGED contents

TakeOut(n) ==
    /\ n \in contents
    /\ contents' = contents \ {n}
    /\ answer' = <<"remove", n, 0>>

\* The range that covers p, if there is one.
Find(p, n) ==
    /\ IF n = Nil THEN \A m \in contents : ~Covers(m, p)
                  ELSE n \in contents /\ Covers(n, p)
    /\ answer' = <<"lookup", p, n>>
    /\ UNCHANGED contents

\* Each range once, from left to right or from right to left if that is asked.
Visit(wt) ==
    LET w == answer'[3]
    IN  /\ answer' = <<"walk", wt, w>>
        /\ IsInjective(w)
        /\ ToSet(w) = contents
        /\ wt = <<"L", "M", "R">> => \A i, j \in 1 .. Len(w) : i < j => w[i] < w[j]
        /\ wt = <<"R", "M", "L">> => \A i, j \in 1 .. Len(w) : i < j => w[i] > w[j]
        /\ UNCHANGED contents

RangeSetNext ==
    \/ Asked
    \/ \E n \in Node : Insert(n) \/ Refuse(n) \/ TakeOut(n)
    \/ \E p \in Probes, n \in Node \union {Nil} : Find(p, n)
    \/ \E wt \in [1 .. 3 -> {"L", "M", "R"}] : Visit(wt)

RangeSetSpec == RangeSetInit /\ [][RangeSetNext]_rangeSetVars
=============================================================================
