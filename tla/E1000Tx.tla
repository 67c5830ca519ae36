------------------------------- MODULE E1000Tx -------------------------------
(***************************************************************************)
(* The transmit ring of the driver e1000.c: intele1000_tx(), which counts  *)
(* n_txdesc descriptors, against the card, which was told a ring of TDLEN  *)
(* bytes.  Frames are numbered in the order net_proc sends them.           *)
(***************************************************************************)
EXTENDS Integers, Sequences

CONSTANTS
    NTxDesc,            \* n_txdesc
    CardTxDesc,         \* TDLEN / sizeof(e1000_txdesc_t): what the card counts
    MaxTxFrames         \* bound on the frames to send

VARIABLES
    tdh, tdt,           \* the registers TDH and TDT
    txdesc,             \* the frames in the buffers of the descriptors
    txTaken,            \* history: how many frames the driver has accepted,
    txSent              \* and those the card has put on the wire

txRingVars == <<tdh, tdt, txdesc, txTaken, txSent>>

TxFull == (tdt + 1) % NTxDesc = tdh

\* intele1000_tx(): "no enough transmit descriptor" is an error.
IntelTx ==
    /\ txTaken < MaxTxFrames
    /\ ~TxFull
    /\ txdesc' = [txdesc EXCEPT ![tdt] = txTaken + 1]
    /\ tdt' = (tdt + 1) % NTxDesc
    /\ txTaken' = txTaken + 1
    /\ UNCHANGED <<tdh, txSent>>

\* The card sends from its head until that is the tail; its ring ends at TDLEN.
CardSends ==
    /\ tdh # tdt
    /\ Len(txSent) <= MaxTxFrames
    /\ txSent' = Append(txSent, txdesc[tdh])
    /\ tdh' = (tdh + 1) % CardTxDesc
    /\ UNCHANGED <<tdt, txdesc, txTaken>>

TxRingInit ==
    /\ tdh = 0 /\ tdt = 0
    /\ txdesc = [i \in 0 .. NTxDesc - 1 |-> 0]
    /\ txTaken = 0 /\ txSent = <<>>

TxRingNext == IntelTx \/ CardSends

TxRingSpec == TxRingInit /\ [][TxRingNext]_txRingVars
-----------------------------------------------------------------------------
\* Every frame that intele1000_tx() has taken goes out once, in order: the
\* descriptors it counts are those the card goes through.
SentInOrder == \A i \in 1 .. Len(txSent) : txSent[i] = i
=============================================================================
