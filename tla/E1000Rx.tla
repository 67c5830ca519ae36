------------------------------- MODULE E1000Rx -------------------------------
(***************************************************************************)
(* The receive ring of the driver e1000.c against the card, which stores   *)
(* frames and raises causes while intele1000_isr() runs.  Frames are       *)
(* numbered in the order of their arrival.  The card is external: it       *)
(* stores as long as head and tail differ and, when nothing has arrived    *)
(* yet, also with both at zero, as intele1000_devinit() leaves them.       *)
(***************************************************************************)
EXTENDS Integers, Sequences

CONSTANTS
    NRxDesc,            \* n_rxdesc: 32 in the driver
    MaxRxFrames         \* bound on the frames that arrive

ASSUME RxRingAssumption == NRxDesc \in Nat \ {0, 1} /\ MaxRxFrames \in Nat

VARIABLES
    rdh, rdt, icr,      \* the registers RDH and RDT, and RXT0 in ICR
    rxdesc,             \* the frames in the buffers of the descriptors
    isrAt, isrRdh,      \* where the handler stands, and its local rdh
    rxArrived,          \* history: how many frames were stored,
    rxPassed            \* and those given to rxef_insert()

rxRingVars == <<rdh, rdt, icr, rxdesc, isrAt, isrRdh, rxArrived, rxPassed>>

NextDesc(i) == (i + 1) % NRxDesc
RxFilled    == (rdh - rdt - 1) % NRxDesc

\* The card stores a frame and sets the cause.
CardStores ==
    /\ rxArrived < MaxRxFrames
    /\ rdh # rdt \/ rxArrived = 0
    /\ rxdesc' = [rxdesc EXCEPT ![rdh] = rxArrived + 1]
    /\ rdh' = NextDesc(rdh)
    /\ icr' = TRUE
    /\ rxArrived' = rxArrived + 1
    /\ UNCHANGED <<rdt, isrAt, isrRdh, rxPassed>>

\* The handler reads ICR, which clears it, ...
IsrReadIcr ==
    /\ isrAt = "out" /\ icr
    /\ icr' = FALSE
    /\ isrAt' = "head"
    /\ UNCHANGED <<rdh, rdt, rxdesc, isrRdh, rxArrived, rxPassed>>

\* ... then RDH, ...
IsrReadHead ==
    /\ isrAt = "head"
    /\ isrRdh' = rdh
    /\ isrAt' = "hand"
    /\ UNCHANGED <<rdh, rdt, icr, rxdesc, rxArrived, rxPassed>>

\* ... hands on the frames between RDT and that head, which the card does not
\* touch, ...
Handed == [i \in 1 .. (isrRdh - rdt - 1) % NRxDesc |-> rxdesc[(rdt + i) % NRxDesc]]

IsrHand ==
    /\ isrAt = "hand"
    /\ rxPassed' = rxPassed \o Handed
    /\ isrAt' = "tail"
    /\ UNCHANGED <<rdh, rdt, icr, rxdesc, isrRdh, rxArrived>>

\* Mutant: the causes are acknowledged at the end.
IsrAckLate ==
    /\ isrAt = "tail"
    /\ rdt' = (isrRdh - 1) % NRxDesc
    /\ icr' = FALSE
    /\ isrAt' = "out"
    /\ UNCHANGED <<rdh, rxdesc, isrRdh, rxArrived, rxPassed>>

\* ... and gives the descriptors back.
IsrWriteTail ==
    /\ isrAt = "tail"
    /\ rdt' = (isrRdh - 1) % NRxDesc
    /\ isrAt' = "out"
    /\ UNCHANGED <<rdh, icr, rxdesc, isrRdh, rxArrived, rxPassed>>

\* intele1000_devinit(): head and tail are zero.
RxRingInit ==
    /\ rdh = 0 /\ rdt = 0 /\ icr = FALSE
    /\ rxdesc = [i \in 0 .. NRxDesc - 1 |-> 0]
    /\ isrAt = "out" /\ isrRdh = 0
    /\ rxArrived = 0 /\ rxPassed = <<>>

RxRingNext == CardStores \/ IsrReadIcr \/ IsrReadHead \/ IsrHand \/ IsrWriteTail

RxRingSpec == RxRingInit /\ [][RxRingNext]_rxRingVars
-----------------------------------------------------------------------------
\* Frames that arrive while the handler runs are neither lost, nor doubled, nor
\* reordered: the stack gets them in order, all but the first, which lies in
\* the descriptor the initial tail points at; and when no cause is left and the
\* handler has returned, none is left in the ring.
RxComplete ==
    /\ \A i \in 1 .. Len(rxPassed) : rxPassed[i] = i + 1
    /\ isrAt = "out" /\ ~icr /\ rxArrived > 0 => Len(rxPassed) = rxArrived - 1
=============================================================================
