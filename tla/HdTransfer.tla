----------------------------- MODULE HdTransfer -----------------------------
(***************************************************************************)
(* One request of the disk driver io/hd.c: hd_drv_read() and               *)
(* hd_drv_write() start the drive and wait, hd_int() moves one sector for  *)
(* every interrupt.  The drive is external: it addresses sectors by        *)
(* cylinder, head and sector, asks for the first sector of a write with    *)
(* DRQ, and interrupts when a sector is ready to be read, or has been      *)
(* written.                                                                *)
(***************************************************************************)
EXTENDS Integers

CONSTANTS
    Heads, TrackSects,      \* n_header and n_sect of the drive
    PartStart,              \* start_logicsect of the partition
    NSectorSize,            \* 256: the sector count register is a u8, 0 counts as 256
    SectNumSize,            \* 2^16: sect_num is a u16
    Addrs, Sizes            \* blocks that requests begin at, and their lengths

ASSUME HdAssumption ==
    /\ Heads \in Nat \ {0} /\ TrackSects \in Nat \ {0} /\ PartStart \in Nat
    /\ NSectorSize \in Nat \ {0} /\ SectNumSize \in Nat \ {0}
    /\ Addrs \subseteq Nat /\ Sizes \subseteq Nat \ {0}
    /\ \A size \in Sizes : size * 2 < SectNumSize

BlockSects == 2             \* LOGIC_BLOCK_SIZE / HD_SECTOR_SIZE

VARIABLES
    hdAt,                   \* where the caller stands
    hdReq,                  \* what was asked for
    sectNum, buffPos, hdFlag,   \* the hd_request: what is left, the next place
    driveLba, driveLeft,    \* the sector the drive is at, and how many follow
    driveDrq,               \* its DRQ before the first sector of a write
    driveInt,               \* its interrupt
    driveData,              \* the sector in its buffer
    hdBuff,                 \* the caller's memory, sector by sector
    diskPut,                \* the sectors written, and with what
    earlyInt                \* history: an interrupt came before sect_num and buff were right

hdVars == <<hdAt, hdReq, sectNum, buffPos, hdFlag, driveLba, driveLeft, driveDrq, driveInt,
            driveData, hdBuff, diskPut, earlyInt>>

Empty == <<"empty", 0>>

\* Mutant: sectors counted from zero.
ChsFromZero(lba) ==
    [cyl  |-> lba \div (Heads * TrackSects),
     head |-> (lba % (Heads * TrackSects)) \div TrackSects,
     sect |-> lba % TrackSects]

\* hd_partsec2chs(); sectors are counted from one.
Chs(lba) ==
    [cyl  |-> lba \div (Heads * TrackSects),
     head |-> (lba % (Heads * TrackSects)) \div TrackSects,
     sect |-> 1 + (lba % TrackSects)]

DriveSector(chs) == (chs.cyl * Heads + chs.head) * TrackSects + chs.sect - 1

FirstSector(addr) == PartStart + addr * BlockSects

\* What the drive makes of the sector count that outb() leaves.
DriveCount(n) == IF n % NSectorSize = 0 THEN NSectorSize ELSE n % NSectorSize

\* sect_num--
Decremented(n) == IF n = 0 THEN SectNumSize - 1 ELSE n - 1

\* The registers and the command, for rq as it is.
Command(addr, sects) ==
    /\ driveLba' = DriveSector(Chs(FirstSector(addr)))
    /\ driveLeft' = DriveCount(sects)
    /\ driveDrq' = FALSE
    /\ hdFlag' = 1

\* The request and its command; a write then waits for DRQ.
HdStart(op, addr, size) ==
    /\ hdAt = "idle"
    /\ hdReq' = [op |-> op, addr |-> addr, sects |-> size * BlockSects]
    /\ sectNum' = size * BlockSects /\ buffPos' = 0
    /\ Command(addr, size * BlockSects)
    /\ hdAt' = IF op = "read" THEN "wait" ELSE "drq"
    /\ hdBuff' = [i \in 0 .. size * BlockSects - 1 |->
                     IF op = "read" THEN Empty ELSE <<"memory", i>>]
    /\ UNCHANGED <<driveInt, driveData, diskPut, earlyInt>>

\* wait_DRQ() of hd_drv_write() has polled 100000 times; DRQ may still come
\* before the command is given again.
HdGiveUp ==
    /\ hdAt = "drq" /\ ~driveDrq
    /\ hdAt' = "again"
    /\ UNCHANGED <<hdReq, sectNum, buffPos, hdFlag, driveLba, driveLeft, driveDrq, driveInt,
                   driveData, hdBuff, diskPut, earlyInt>>

\* hd_drv_write_retry
HdCommandAgain ==
    /\ hdAt = "again"
    /\ Command(hdReq.addr, sectNum)
    /\ hdAt' = "drq"
    /\ UNCHANGED <<hdReq, sectNum, buffPos, driveInt, driveData, hdBuff, diskPut, earlyInt>>

\* hd_drv_write(): the first sector is copied with interrupts on, ...
HdWriteFirst ==
    /\ hdAt = "drq" /\ driveDrq
    /\ driveData' = hdBuff[0] /\ driveDrq' = FALSE
    /\ hdAt' = "copied"
    /\ UNCHANGED <<hdReq, sectNum, buffPos, hdFlag, driveLba, driveLeft, driveInt,
                   hdBuff, diskPut, earlyInt>>

\* ... and accounted for afterwards, in two steps: sect_num--, ...
HdWriteCount ==
    /\ hdAt = "copied"
    /\ sectNum' = Decremented(sectNum)
    /\ hdAt' = "counted"
    /\ UNCHANGED <<hdReq, buffPos, hdFlag, driveLba, driveLeft, driveDrq, driveInt, driveData,
                   hdBuff, diskPut, earlyInt>>

\* ... and buff = data.
HdWriteMove ==
    /\ hdAt = "counted"
    /\ buffPos' = 1
    /\ hdAt' = "wait"
    /\ UNCHANGED <<hdReq, sectNum, hdFlag, driveLba, driveLeft, driveDrq, driveInt, driveData,
                   hdBuff, diskPut, earlyInt>>

HdReturn ==
    /\ hdAt = "wait" /\ hdFlag = 0
    /\ hdAt' = "done"
    /\ UNCHANGED <<hdReq, sectNum, buffPos, hdFlag, driveLba, driveLeft, driveDrq, driveInt,
                   driveData, hdBuff, diskPut, earlyInt>>

\* The drive.
DriveAsks ==
    /\ hdAt \in {"drq", "again"} /\ ~driveDrq
    /\ driveDrq' = TRUE
    /\ UNCHANGED <<hdAt, hdReq, sectNum, buffPos, hdFlag, driveLba, driveLeft, driveInt,
                   driveData, hdBuff, diskPut, earlyInt>>

DriveReads ==
    /\ hdAt # "idle" /\ hdReq.op = "read" /\ ~driveInt
    /\ driveLeft > 0 /\ driveData = Empty
    /\ driveData' = <<"disk", driveLba>>
    /\ driveLba' = driveLba + 1 /\ driveLeft' = driveLeft - 1
    /\ driveInt' = TRUE
    /\ UNCHANGED <<hdAt, hdReq, sectNum, buffPos, hdFlag, driveDrq, hdBuff, diskPut, earlyInt>>

DriveWrites ==
    /\ hdAt # "idle" /\ hdReq.op = "write" /\ ~driveInt
    /\ driveLeft > 0 /\ driveData # Empty
    /\ diskPut' = diskPut \union {<<driveLba, driveData>>}
    /\ driveLba' = driveLba + 1 /\ driveLeft' = driveLeft - 1
    /\ driveData' = Empty
    /\ driveInt' = TRUE
    /\ UNCHANGED <<hdAt, hdReq, sectNum, buffPos, hdFlag, driveDrq, hdBuff, earlyInt>>

\* hd_int()
HdIntRead ==
    /\ driveInt /\ hdReq.op = "read"
    /\ hdBuff' = [hdBuff EXCEPT ![buffPos] = driveData]
    /\ driveData' = Empty
    /\ sectNum' = Decremented(sectNum)
    /\ buffPos' = buffPos + 1
    /\ hdFlag' = IF sectNum' = 0 THEN 0 ELSE hdFlag
    /\ UNCHANGED earlyInt

HdIntWrite ==
    /\ driveInt /\ hdReq.op = "write"
    /\ IF sectNum = 0
       THEN hdFlag' = 0 /\ UNCHANGED <<driveData, sectNum, buffPos>>
       ELSE /\ driveData' = hdBuff[buffPos]
            /\ sectNum' = Decremented(sectNum)
            /\ buffPos' = buffPos + 1
            /\ UNCHANGED hdFlag
    /\ earlyInt' = (earlyInt \/ hdAt \in {"copied", "counted"})
    /\ UNCHANGED hdBuff

HdInt ==
    /\ HdIntRead \/ HdIntWrite
    /\ driveInt' = FALSE
    /\ UNCHANGED <<hdAt, hdReq, driveLba, driveLeft, driveDrq, diskPut>>

HdInit ==
    /\ hdAt = "idle" /\ hdReq = [op |-> "none", addr |-> 0, sects |-> 0]
    /\ sectNum = 0 /\ buffPos = 0 /\ hdFlag = 0
    /\ driveLba = 0 /\ driveLeft = 0 /\ driveDrq = FALSE /\ driveInt = FALSE
    /\ driveData = Empty
    /\ hdBuff = [i \in {} |-> Empty] /\ diskPut = {}
    /\ earlyInt = FALSE

HdNext ==
    \/ \E op \in {"read", "write"}, addr \in Addrs, size \in Sizes : HdStart(op, addr, size)
    \/ HdGiveUp \/ HdCommandAgain \/ HdWriteFirst \/ HdWriteCount \/ HdWriteMove \/ HdReturn
    \/ DriveAsks \/ DriveReads \/ DriveWrites \/ HdInt

HdSpec == HdInit /\ [][HdNext]_hdVars
-----------------------------------------------------------------------------
\* When the driver returns, every sector of the request has gone to its place,
\* in the memory or on the disk, and no other, also after a command that was
\* given again; a write is only wrong if the interrupt for its first sector came
\* before both sect_num and buff were set behind that sector: then it is sent
\* twice.  (A request longer than the sector count register never returns.)
TransferWhole ==
    hdAt = "done" =>
        LET first == FirstSector(hdReq.addr)
        IN  IF hdReq.op = "read"
            THEN \A i \in 0 .. hdReq.sects - 1 : hdBuff[i] = <<"disk", first + i>>
            ELSE earlyInt \/ diskPut = {<<first + i, hdBuff[i]>> : i \in 0 .. hdReq.sects - 1}
=============================================================================
