------------------------------- MODULE Rtl8139 -------------------------------
(***************************************************************************)
(* The receive ring of the driver rtl8139.c against the card, here in      *)
(* cells of four bytes: the card writes a header and the frame wherever    *)
(* the last one ended.  A cell holds the frame it belongs to and its place *)
(* in it, place 0 being the header.  The card is external.                 *)
(***************************************************************************)
EXTENDS Integers, Sequences

CONSTANTS
    RxCells,            \* 2048 in the driver: 8 KB
    FrameLens,          \* lengths of frames, in bytes
    MaxRtlFrames        \* bound on the frames that arrive

ASSUME RtlAssumption ==
    /\ RxCells \in Nat \ {0} /\ MaxRtlFrames \in Nat
    /\ FrameLens \subseteq 1 .. 4 * (RxCells - 2)

VARIABLES
    rtlRing,            \* the memory at rxDMA
    rtlCbr, rtlCapr,    \* the card's write position; the driver's, as told
    rxOk,               \* RxOK in the interrupt status register
    rtlAt, rxCur,       \* where realtek8139_isr() stands; rx_cur
    rtlLens,            \* history: the lengths of the frames that came,
    rtlPassed           \* and the contents given to rxef_insert()

rtlVars == <<rtlRing, rtlCbr, rtlCapr, rxOk, rtlAt, rxCur, rtlLens, rtlPassed>>

DataCells(len) == (len + 3) \div 4
RtlFree == IF rtlCbr = rtlCapr THEN RxCells ELSE (rtlCapr - rtlCbr) % RxCells
Bufe    == rtlCbr = rtlCapr     \* BUFE in the command register

\* The card writes header and frame, round the end of the ring, if there is
\* room, and sets RxOK.
RtlStores(len) ==
    LET n == DataCells(len) + 1
        f == Len(rtlLens) + 1
    IN  /\ f <= MaxRtlFrames
        /\ n < RtlFree
        /\ rtlRing' = [c \in 0 .. RxCells - 1 |->
                          IF (c - rtlCbr) % RxCells < n
                          THEN <<f, (c - rtlCbr) % RxCells>> ELSE rtlRing[c]]
        /\ rtlCbr' = (rtlCbr + n) % RxCells
        /\ rxOk' = TRUE
        /\ rtlLens' = Append(rtlLens, len)
        /\ UNCHANGED <<rtlCapr, rtlAt, rxCur, rtlPassed>>

\* realtek8139_isr() reads the causes.
RtlIsr ==
    /\ rtlAt = "out" /\ rxOk
    /\ rtlAt' = "loop"
    /\ UNCHANGED <<rtlRing, rtlCbr, rtlCapr, rxOk, rxCur, rtlLens, rtlPassed>>

\* Mutant: the header is four bytes, and nothing is rounded up.
AdvancedByLen(len) == (rxCur + 1 + len \div 4) % RxCells

\* rx_cur += (len + 4 + 3) & ~3
Advanced(len) == (rxCur + 1 + DataCells(len)) % RxCells

\* The cells that the one or two memcpy() take: from behind the header to the
\* end of the ring, and the rest from its beginning.
Copied(len) ==
    LET p1   == (rxCur + 1) % RxCells
        len1 == IF RxCells - p1 >= DataCells(len) THEN DataCells(len) ELSE RxCells - p1
    IN  [i \in 1 .. DataCells(len) |->
            IF i <= len1 THEN rtlRing[p1 + i - 1] ELSE rtlRing[i - len1 - 1]]

\* While BUFE is clear: one frame, whose header holds the length.
RtlTake ==
    /\ rtlAt = "loop" /\ ~Bufe
    /\ LET header == rtlRing[rxCur]
           len    == IF header[2] = 0 THEN rtlLens[header[1]] ELSE 1
       IN  /\ rtlPassed' = Append(rtlPassed, Copied(len))
           /\ rxCur' = Advanced(len)
           /\ rtlCapr' = Advanced(len)
    /\ UNCHANGED <<rtlRing, rtlCbr, rxOk, rtlAt, rtlLens>>

RtlEmpty ==
    /\ rtlAt = "loop" /\ Bufe
    /\ rtlAt' = "clear"
    /\ UNCHANGED <<rtlRing, rtlCbr, rtlCapr, rxOk, rxCur, rtlLens, rtlPassed>>

\* RxOK is cleared at the end, also for a frame that has come since.
RtlClear ==
    /\ rtlAt = "clear"
    /\ rxOk' = FALSE
    /\ rtlAt' = "out"
    /\ UNCHANGED <<rtlRing, rtlCbr, rtlCapr, rxCur, rtlLens, rtlPassed>>

\* realtek8139_devinit()
RtlInit ==
    /\ rtlRing = [c \in 0 .. RxCells - 1 |-> <<0, 1>>]
    /\ rtlCbr = 0 /\ rtlCapr = 0 /\ rxOk = FALSE
    /\ rtlAt = "out" /\ rxCur = 0
    /\ rtlLens = <<>> /\ rtlPassed = <<>>

RtlNext ==
    \/ \E len \in FrameLens : RtlStores(len)
    \/ RtlIsr \/ RtlTake \/ RtlEmpty \/ RtlClear

RtlSpec == RtlInit /\ [][RtlNext]_rtlVars
-----------------------------------------------------------------------------
\* Driver and card agree where a frame begins, also when it, its header or the
\* padding reaches the end of the ring: the stack gets the frames in order,
\* each whole, and those behind one for which no interrupt came get up with
\* the next.
FramesWhole ==
    /\ Len(rtlPassed) <= Len(rtlLens)
    /\ \A f \in 1 .. Len(rtlPassed) :
          rtlPassed[f] = [i \in 1 .. DataCells(rtlLens[f]) |-> <<f, i>>]
    /\ rtlAt = "clear" /\ rtlCbr = rxCur => Len(rtlPassed) = Len(rtlLens)
=============================================================================
