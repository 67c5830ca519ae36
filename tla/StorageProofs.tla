--------------------------- MODULE StorageProofs ---------------------------
(***************************************************************************)
(* Disks and files.  The parts share no state; each section proves what    *)
(* one of them promises:                                                   *)
(*   HdTransfer  ChsRight and TransferWhole: sectors and requests          *)
(*   Mounts      MountsOwnPages: the pages of mounted partitions           *)
(*   Ext2File    FileWhole: the blocks of a file                           *)
(***************************************************************************)
EXTENDS HdTransfer, Mounts, Ext2File, DataLemmas

\* hd_partsec2chs() is right for a drive of any geometry: the drive finds the
\* sector that was meant.
THEOREM ChsRight ==
    ASSUME NEW l \in Nat
    PROVE  DriveSector(Chs(l)) = l
<1>1. PICK T \in Nat \ {0}, H \in Nat \ {0} : T = TrackSects /\ H = Heads
  BY HdAssumption
<1>2. PICK W \in Nat \ {0} : W = H * T
  OBVIOUS
<1>3. PICK c \in Nat, m \in 0 .. W - 1 : c = l \div W /\ m = l % W /\ l = c * W + m
  BY Division
<1>4. m \in Nat
  BY <1>2
<1>5. PICK h \in Nat, n \in 0 .. T - 1 : h = m \div T /\ n = m % T /\ m = h * T + n
  BY <1>4, Division
<1>6. PICK p \in Nat, s \in 0 .. T - 1 : p = l \div T /\ s = l % T /\ l = p * T + s
  BY Division
<1>7. Chs(l) = [cyl |-> c, head |-> h, sect |-> 1 + s]
  BY ONLY <1>1, <1>2, <1>3, <1>5, <1>6, Zenon DEF Chs
<1>8. DriveSector(Chs(l)) = (c * H + h) * T + (1 + s) - 1
  <2>1. /\ [cyl |-> c, head |-> h, sect |-> 1 + s].cyl = c
        /\ [cyl |-> c, head |-> h, sect |-> 1 + s].head = h
        /\ [cyl |-> c, head |-> h, sect |-> 1 + s].sect = 1 + s
    OBVIOUS
  <2> QED
    BY ONLY <1>1, <1>7, <2>1, Zenon DEF DriveSector
<1>9. l = (c * H + h) * T + n
  <2>1. PICK g \in Nat : g = c * H
    OBVIOUS
  <2>2. c * W = g * T
    BY ONLY <1>1, <1>2, <1>3, <2>1, Products
  <2>3. (c * H + h) * T = g * T + h * T
    BY ONLY <1>1, <1>5, <2>1
  <2>4. l = g * T + (h * T + n)
    BY ONLY <1>3, <1>5, <2>2, Zenon
  <2>5. PICK a \in Nat, b \in Nat : a = g * T /\ b = h * T
    BY ONLY <1>1, <1>5, <2>1
  <2>6. l = a + (b + n) /\ (c * H + h) * T = a + b
    BY ONLY <2>3, <2>4, <2>5, Zenon
  <2>7. a + (b + n) = (a + b) + n
    BY <1>5, <2>5
  <2> QED
    BY ONLY <2>6, <2>7, Zenon
<1>10. PICK k \in Nat : k = c * H + h
  OBVIOUS
<1>11. n = s
  <2>1. k * T + n = p * T + s
    BY ONLY <1>6, <1>9, <1>10, Zenon
  <2> QED
    BY <2>1, RemainderUnique, Zenon
<1>12. (c * H + h) * T + (1 + s) - 1 = (c * H + h) * T + s
  OBVIOUS
<1> QED
  BY ONLY <1>8, <1>9, <1>11, <1>12, Zenon
-----------------------------------------------------------------------------
First == FirstSector(hdReq.addr)
Total == hdReq.sects

\* How many sectors the drive has read or written.
Passed == driveLba - First

HdTypeOK ==
    /\ hdAt \in {"idle", "drq", "again", "copied", "counted", "wait", "done"}
    /\ hdReq \in [op : {"none", "read", "write"}, addr : Nat, sects : Nat]
    /\ driveLba \in Nat /\ driveLeft \in Nat
    /\ sectNum \in Nat /\ buffPos \in Nat /\ hdFlag \in {0, 1}
    /\ driveDrq \in BOOLEAN /\ driveInt \in BOOLEAN /\ earlyInt \in BOOLEAN
    /\ hdAt # "idle" => /\ Total > 0 /\ hdReq.op # "none"
                        /\ Passed \in Nat /\ Passed + driveLeft <= Total
    /\ hdAt \in {"idle", "drq", "again"} => ~earlyInt
    /\ hdAt = "idle" => ~driveInt /\ driveData = Empty /\ diskPut = {}
    /\ hdAt = "done" => hdFlag = 0

\* The driver is one sector behind the drive while the interrupt is pending.
ReadInv ==
    /\ hdAt \in {"wait", "done"}
    /\ buffPos = IF driveInt THEN Passed - 1 ELSE Passed
    /\ sectNum = Total - buffPos
    /\ driveData = IF driveInt THEN <<"disk", First + buffPos>> ELSE Empty
    /\ hdFlag = IF sectNum = 0 THEN 0 ELSE 1
    /\ DOMAIN hdBuff = 0 .. Total - 1
    /\ \A i \in 0 .. Total - 1 : i < buffPos => hdBuff[i] = <<"disk", First + i>>

Memory == [i \in 0 .. Total - 1 |-> <<"memory", i>>]

\* Up to the first sector, which the drive may write before it is accounted for.
WriteBegins ==
    /\ hdAt \in {"drq", "again", "copied", "counted"}
    /\ buffPos = 0 /\ hdFlag = 1
    /\ sectNum = IF hdAt = "counted" THEN Total - 1 ELSE Total
    /\ hdAt \in {"drq", "again"} => Passed = 0 /\ ~driveInt /\ driveData = Empty
    /\ hdAt \in {"copied", "counted"} =>
         \/ Passed = 0 /\ ~driveInt /\ driveData = <<"memory", 0>>
         \/ Passed = 1 /\ driveInt /\ driveData = Empty

\* The driver is one sector ahead of the drive, up to the last.
WriteGoesOn ==
    /\ hdAt \in {"wait", "done"}
    /\ sectNum = Total - buffPos
    /\ \/ /\ ~driveInt /\ driveData = <<"memory", Passed>> /\ hdFlag = 1
          /\ buffPos = Passed + 1 /\ buffPos <= Total
       \/ driveInt /\ driveData = Empty /\ buffPos = Passed /\ hdFlag = 1
       \/ ~driveInt /\ driveData = Empty /\ buffPos = Passed /\ Passed = Total /\ hdFlag = 0

WriteInv ==
    /\ hdBuff = Memory
    /\ diskPut = {<<First + i, <<"memory", i>>>> : i \in 0 .. Passed - 1}
    /\ WriteBegins \/ WriteGoesOn

HdInv ==
    /\ HdTypeOK
    /\ hdAt # "idle" /\ hdReq.op = "read" => ReadInv
    /\ hdAt # "idle" /\ hdReq.op = "write" => earlyInt \/ WriteInv

LEMMA FirstNat == HdTypeOK => First \in Nat /\ Total \in Nat
  BY HdAssumption DEF HdTypeOK, First, FirstSector, BlockSects, Total

\* The drive never takes a command for more sectors than were asked for.
LEMMA DriveCountBound ==
    ASSUME NEW n \in Nat \ {0}
    PROVE  DriveCount(n) \in 1 .. n
<1>1. PICK S \in Nat \ {0} : S = NSectorSize
  BY HdAssumption
<1>2. PICK q \in Nat, r \in 0 .. S - 1 : q = n \div S /\ r = n % S /\ n = q * S + r
  BY Division
<1>3. DriveCount(n) = IF r = 0 THEN S ELSE r
  BY ONLY <1>1, <1>2, Zenon DEF DriveCount
<1>4. PICK p \in Nat : p = q * S
  OBVIOUS
<1>5. r = 0 => S <= p
  <2> SUFFICES ASSUME r = 0 PROVE S <= p
    OBVIOUS
  <2>1. q # 0
    BY <1>2, <1>4
  <2>2. PICK k \in Nat : q = k + 1
    BY <1>2, <2>1, q - 1 \in Nat
  <2>3. q * S = k * S + S
    BY <2>2
  <2>4. PICK a \in Nat : a = k * S
    OBVIOUS
  <2>5. p = a + S
    BY ONLY <1>4, <2>3, <2>4, Zenon
  <2> QED
    BY <2>4, <2>5
<1>6. n = p + r
  BY ONLY <1>2, <1>4, Zenon
<1> QED
  BY ONLY <1>2, <1>3, <1>4, <1>5, <1>6, S \in Nat \ {0}, n \in Nat

LEMMA HdInitInv == HdInit => HdInv
<1> SUFFICES ASSUME HdInit PROVE HdInv
  OBVIOUS
<1>1. driveDrq \in BOOLEAN /\ driveInt \in BOOLEAN /\ earlyInt \in BOOLEAN
  BY Zenon DEF HdInit
<1>2. Total = 0 /\ hdReq \in [op : {"none", "read", "write"}, addr : Nat, sects : Nat]
  BY DEF HdInit, Total
<1> QED
  BY <1>1, <1>2 DEF HdInit, HdInv, HdTypeOK

LEMMA StartStep ==
    ASSUME HdInv, NEW op \in {"read", "write"}, NEW addr \in Addrs, NEW size \in Sizes,
           HdStart(op, addr, size)
    PROVE  HdInv'
<1>1. PICK n \in Nat \ {0} : n = size * BlockSects
  BY HdAssumption DEF BlockSects
<1>2. PICK f \in Nat : f = FirstSector(addr)
  BY HdAssumption DEF FirstSector, BlockSects
<1>3. DriveSector(Chs(f)) = f
  BY ChsRight
<1>4. PICK d \in 1 .. n : d = DriveCount(n)
  BY DriveCountBound
<1>5. /\ hdAt = "idle" /\ ~driveInt /\ driveData = Empty /\ diskPut = {} /\ ~earlyInt
      /\ hdReq' = [op |-> op, addr |-> addr, sects |-> n]
      /\ sectNum' = n /\ buffPos' = 0 /\ hdFlag' = 1
      /\ driveLeft' = d /\ driveLba' = f /\ driveDrq' = FALSE
      /\ hdAt' = IF op = "read" THEN "wait" ELSE "drq"
      /\ UNCHANGED <<driveInt, driveData, diskPut, earlyInt>>
  <2>1. driveLeft' = d /\ driveLba' = f /\ driveDrq' = FALSE /\ hdFlag' = 1
    BY ONLY HdStart(op, addr, size), <1>1, <1>2, <1>3, <1>4, Zenon DEF HdStart, Command
  <2> QED
    BY <1>1, <2>1 DEF HdStart, HdInv, HdTypeOK
<1>6. hdBuff' = [i \in 0 .. n - 1 |-> IF op = "read" THEN Empty ELSE <<"memory", i>>]
  BY <1>1 DEF HdStart
<1>7. First' = f /\ Total' = n /\ hdReq'.op = op
  <2>1. hdReq'.addr = addr /\ hdReq'.sects = n /\ hdReq'.op = op
    BY <1>5
  <2>2. First' = FirstSector(hdReq'.addr)
    BY Zenon DEF First, FirstSector
  <2> QED
    BY ONLY <1>2, <2>1, <2>2, Zenon DEF Total
<1>8. Passed' = 0
  BY <1>5, <1>7 DEF Passed
<1>9. HdTypeOK'
  <2>1. driveInt' \in BOOLEAN /\ earlyInt' \in BOOLEAN /\ driveDrq' \in BOOLEAN
    BY <1>5, Zenon DEF HdInv, HdTypeOK
  <2>2. hdReq' \in [op : {"none", "read", "write"}, addr : Nat, sects : Nat]
    BY <1>1, <1>5, HdAssumption
  <2> QED
    BY <1>1, <1>4, <1>5, <1>7, <1>8, <2>1, <2>2 DEF HdTypeOK
<1>10. CASE op = "read"
  <2>1. ReadInv'
    BY <1>1, <1>5, <1>6, <1>7, <1>8, <1>10 DEF ReadInv
  <2> QED
    BY <1>7, <1>9, <1>10, <2>1 DEF HdInv
<1>11. CASE op = "write"
  <2>1. hdBuff' = Memory'
    BY <1>6, <1>7, <1>11 DEF Memory
  <2>2. diskPut' = {<<First' + i, <<"memory", i>>>> : i \in 0 .. Passed' - 1}
    <3>1. 0 .. Passed' - 1 = {}
      BY <1>8
    <3> QED
      BY <1>5, <3>1
  <2>3. WriteBegins'
    BY <1>1, <1>5, <1>7, <1>8, <1>11 DEF WriteBegins
  <2> QED
    BY <1>7, <1>9, <1>11, <2>1, <2>2, <2>3 DEF HdInv, WriteInv
<1> QED
  BY <1>10, <1>11

\* The drive asks for the first sector, or the caller gives up waiting for that.
LEMMA DrqStep ==
    ASSUME HdInv, DriveAsks \/ HdGiveUp
    PROVE  HdInv'
<1>1. /\ hdAt \in {"drq", "again"} /\ hdAt' \in {"drq", "again"} /\ driveDrq' \in BOOLEAN
      /\ UNCHANGED <<hdReq, sectNum, buffPos, hdFlag, driveLba, driveLeft, driveInt,
                     driveData, hdBuff, diskPut, earlyInt>>
  BY DEF DriveAsks, HdGiveUp, HdInv, HdTypeOK
<1>2. First' = First /\ Total' = Total /\ Passed' = Passed /\ Memory' = Memory
  BY <1>1 DEF First, Total, Passed, Memory
<1>3. HdTypeOK' /\ hdReq.op # "read"
  BY <1>1, <1>2 DEF HdInv, HdTypeOK, ReadInv
<1>4. WriteInv
  BY <1>1, <1>3 DEF HdInv, HdTypeOK
<1>5. WriteBegins'
  BY <1>1, <1>2, <1>4 DEF WriteInv, WriteBegins, WriteGoesOn
<1> QED
  BY <1>1, <1>2, <1>3, <1>4, <1>5 DEF HdInv, WriteInv

\* The command given again is the first command.
LEMMA AgainStep ==
    ASSUME HdInv, HdCommandAgain
    PROVE  HdInv'
<1>1. /\ hdAt = "again" /\ hdAt' = "drq" /\ hdFlag' = 1 /\ driveDrq' = FALSE
      /\ driveLba' = DriveSector(Chs(First)) /\ driveLeft' = DriveCount(sectNum)
      /\ UNCHANGED <<hdReq, sectNum, buffPos, driveInt, driveData, hdBuff, diskPut, earlyInt>>
  BY Zenon DEF HdCommandAgain, Command, First
<1>2. First \in Nat /\ Total \in Nat /\ HdTypeOK
  BY FirstNat DEF HdInv
<1>3. hdReq.op = "write" /\ WriteInv /\ sectNum = Total /\ Passed = 0 /\ Total > 0
  BY <1>1, <1>2 DEF HdInv, HdTypeOK, ReadInv, WriteInv, WriteBegins, WriteGoesOn
<1>4. driveLba' = First /\ driveLba = First
  BY <1>1, <1>2, <1>3, ChsRight DEF Passed, HdTypeOK
<1>5. PICK d \in 1 .. Total : d = driveLeft'
  BY <1>1, <1>2, <1>3, DriveCountBound
<1>6. First' = First /\ Total' = Total /\ Passed' = Passed /\ Memory' = Memory
  BY <1>1, <1>4 DEF First, Total, Passed, Memory
<1>7. HdTypeOK'
  <2>1. driveDrq' \in BOOLEAN /\ driveInt' \in BOOLEAN /\ earlyInt' \in BOOLEAN
    BY <1>1, <1>2, Zenon DEF HdTypeOK
  <2> QED
    BY <1>1, <1>2, <1>3, <1>4, <1>5, <1>6, <2>1 DEF HdTypeOK
<1>8. WriteBegins'
  BY <1>1, <1>3, <1>6 DEF WriteInv, WriteBegins, WriteGoesOn
<1> QED
  BY <1>1, <1>3, <1>6, <1>7, <1>8 DEF HdInv, WriteInv

\* The steps of the caller from the first sector of a write to the end.
LEMMA CallerStep ==
    ASSUME HdInv, HdWriteFirst \/ HdWriteCount \/ HdWriteMove \/ HdReturn
    PROVE  HdInv'
<1>1. UNCHANGED <<hdReq, hdFlag, driveLba, driveLeft, driveInt, hdBuff, diskPut, earlyInt>>
  BY DEF HdWriteFirst, HdWriteCount, HdWriteMove, HdReturn
<1>2. First' = First /\ Total' = Total /\ Passed' = Passed /\ Memory' = Memory
  BY <1>1 DEF First, Total, Passed, Memory
<1>3. First \in Nat /\ Total \in Nat /\ HdTypeOK
  BY FirstNat DEF HdInv
<1>4. driveDrq' \in BOOLEAN /\ earlyInt' \in BOOLEAN /\ driveInt' \in BOOLEAN
  BY <1>1, <1>3, Zenon DEF HdWriteFirst, HdWriteCount, HdWriteMove, HdReturn, HdTypeOK
<1>5. CASE HdReturn
  BY <1>1, <1>2, <1>3, <1>5 DEF HdReturn, HdInv, HdTypeOK, ReadInv, WriteInv, WriteBegins, WriteGoesOn
<1>6. CASE HdWriteFirst
  <2>1. HdTypeOK' /\ hdReq.op # "read"
    BY <1>1, <1>2, <1>3, <1>4, <1>6 DEF HdWriteFirst, HdInv, HdTypeOK, ReadInv
  <2>2. WriteInv
    BY <1>6, <2>1 DEF HdWriteFirst, HdInv, HdTypeOK
  <2>3. WriteBegins'
    BY <1>1, <1>2, <1>3, <1>6, <2>2 DEF HdWriteFirst, HdTypeOK, WriteInv, WriteBegins, WriteGoesOn, Memory
  <2> QED
    BY <1>1, <1>2, <2>1, <2>2, <2>3 DEF HdInv, WriteInv
<1>7. CASE HdWriteCount
  <2>1. sectNum' \in Nat /\ (sectNum > 0 => sectNum' = sectNum - 1)
    BY <1>3, <1>7, HdAssumption DEF HdWriteCount, Decremented, HdTypeOK
  <2>2. HdTypeOK' /\ hdReq.op # "read"
    BY <1>1, <1>2, <1>3, <1>4, <1>7, <2>1 DEF HdWriteCount, HdInv, HdTypeOK, ReadInv
  <2>3. CASE WriteInv
    <3>1. WriteBegins'
      BY <1>1, <1>2, <1>3, <1>7, <2>1, <2>3 DEF HdWriteCount, HdTypeOK, WriteInv, WriteBegins, WriteGoesOn
    <3> QED
      BY <1>1, <1>2, <2>2, <2>3, <3>1 DEF HdInv, WriteInv
  <2> QED
    BY <1>1, <1>7, <2>2, <2>3 DEF HdInv, HdTypeOK, HdWriteCount
<1>8. CASE HdWriteMove
  <2>1. HdTypeOK' /\ hdReq.op # "read"
    BY <1>1, <1>2, <1>3, <1>4, <1>8 DEF HdWriteMove, HdInv, HdTypeOK, ReadInv
  <2>2. CASE WriteInv
    <3>1. WriteGoesOn'
      BY <1>1, <1>2, <1>3, <1>8, <2>2 DEF HdWriteMove, HdTypeOK, WriteInv, WriteBegins, WriteGoesOn
    <3> QED
      BY <1>1, <1>2, <2>1, <2>2, <3>1 DEF HdInv, WriteInv
  <2> QED
    BY <1>1, <1>8, <2>1, <2>2 DEF HdInv, HdTypeOK, HdWriteMove
<1> QED
  BY <1>5, <1>6, <1>7, <1>8

LEMMA DriveStep ==
    ASSUME HdInv, DriveReads \/ DriveWrites
    PROVE  HdInv'
<1>1. UNCHANGED <<hdAt, hdReq, sectNum, buffPos, hdFlag, hdBuff, earlyInt>>
  BY DEF DriveReads, DriveWrites
<1>2. /\ driveLeft > 0 /\ ~driveInt /\ driveInt' = TRUE /\ hdAt # "idle"
      /\ driveLba' = driveLba + 1 /\ driveLeft' = driveLeft - 1 /\ UNCHANGED driveDrq
  BY Zenon DEF DriveReads, DriveWrites
<1>3. /\ First \in Nat /\ Total \in Nat /\ HdTypeOK /\ driveLba \in Nat /\ driveLeft \in Nat
      /\ Passed \in 0 .. Total /\ Passed + driveLeft <= Total /\ driveLba = First + Passed
  BY <1>2, FirstNat DEF HdInv, HdTypeOK, Passed
<1>4. First' = First /\ Total' = Total /\ Passed' = Passed + 1 /\ Memory' = Memory
  BY <1>1, <1>2, <1>3 DEF First, Total, Passed, Memory
<1>5. HdTypeOK'
  <2>1. driveDrq' \in BOOLEAN /\ driveInt' \in BOOLEAN /\ earlyInt' \in BOOLEAN
    BY <1>1, <1>2, <1>3, Zenon DEF HdTypeOK
  <2> QED
    BY <1>1, <1>2, <1>3, <1>4, <2>1 DEF HdTypeOK
<1>6. CASE DriveReads
  <2>1. ReadInv /\ hdReq.op = "read" /\ driveData' = <<"disk", First + Passed>>
    BY <1>2, <1>3, <1>6 DEF DriveReads, HdInv
  <2>2. buffPos = Passed /\ buffPos' = Passed' - 1 /\ hdBuff' = hdBuff
    BY <1>1, <1>2, <1>3, <1>4, <2>1 DEF ReadInv
  <2>3. ReadInv'
    BY <1>1, <1>2, <1>4, <2>1, <2>2, Zenon DEF ReadInv
  <2> QED
    BY <1>1, <1>5, <2>1, <2>3 DEF HdInv
<1>7. CASE DriveWrites
  <2>1. hdReq.op = "write" /\ driveData # Empty /\ driveData' = Empty
        /\ diskPut' = diskPut \union {<<driveLba, driveData>>}
    BY <1>7 DEF DriveWrites
  <2>2. CASE WriteInv
    <3>1. driveData = <<"memory", Passed>>
      BY <1>2, <1>3, <2>1, <2>2 DEF WriteInv, WriteBegins, WriteGoesOn
    <3>2. diskPut' = {<<First + i, <<"memory", i>>>> : i \in 0 .. Passed' - 1}
      <4>1. 0 .. Passed' - 1 = (0 .. Passed - 1) \union {Passed}
        BY <1>3, <1>4
      <4> QED
        BY <1>3, <2>1, <2>2, <3>1, <4>1 DEF WriteInv
    <3>3. WriteBegins' \/ WriteGoesOn'
      <4>1. CASE WriteBegins
        <5>1. hdAt \in {"copied", "counted"} /\ Passed = 0
          BY <1>2, <2>1, <4>1 DEF WriteBegins
        <5> QED
          BY <1>1, <1>2, <1>3, <1>4, <2>1, <4>1, <5>1 DEF WriteBegins
      <4>2. CASE WriteGoesOn
        BY <1>1, <1>2, <1>3, <1>4, <2>1, <4>2 DEF WriteGoesOn
      <4> QED
        BY <2>2, <4>1, <4>2 DEF WriteInv
    <3>4. hdBuff' = Memory'
      BY <1>1, <1>4, <2>2 DEF WriteInv
    <3>5. diskPut' = {<<First' + i, <<"memory", i>>>> : i \in 0 .. Passed' - 1}
      BY ONLY <1>4, <3>2, Zenon
    <3>6. WriteInv'
      BY <3>3, <3>4, <3>5, Zenon DEF WriteInv
    <3> QED
      BY <1>1, <1>5, <2>1, <3>6 DEF HdInv
  <2> QED
    BY <1>1, <1>3, <1>5, <2>1, <2>2 DEF HdInv
<1> QED
  BY <1>6, <1>7

LEMMA InterruptStep ==
    ASSUME HdInv, HdInt
    PROVE  HdInv'
<1>1. UNCHANGED <<hdAt, hdReq, driveLba, driveLeft, diskPut>> /\ driveInt
  BY DEF HdInt, HdIntRead, HdIntWrite
<1>0. driveInt' = FALSE /\ UNCHANGED driveDrq
  BY Zenon DEF HdInt
<1>2. First \in Nat /\ Total \in Nat /\ Passed \in 0 .. Total /\ HdTypeOK /\ hdAt # "idle"
  BY <1>1, FirstNat DEF HdInv, HdTypeOK
<1>3. First' = First /\ Total' = Total /\ Passed' = Passed /\ Memory' = Memory
  BY <1>1 DEF First, Total, Passed, Memory
<1>4. CASE HdIntRead
  <2>1. /\ hdReq.op = "read" /\ ReadInv /\ UNCHANGED earlyInt
        /\ hdBuff' = [hdBuff EXCEPT ![buffPos] = driveData]
        /\ driveData' = Empty /\ sectNum' = Decremented(sectNum) /\ buffPos' = buffPos + 1
        /\ hdFlag' = IF sectNum' = 0 THEN 0 ELSE hdFlag
    BY <1>2, <1>4 DEF HdIntRead, HdInv
  <2>2. /\ buffPos = Passed - 1 /\ buffPos \in 0 .. Total - 1 /\ sectNum = Total - buffPos
        /\ sectNum' = sectNum - 1
    BY <1>1, <1>2, <2>1 DEF ReadInv, HdTypeOK, Decremented
  <2>3. HdTypeOK'
    <3>1. driveDrq' \in BOOLEAN /\ driveInt' \in BOOLEAN /\ earlyInt' \in BOOLEAN
      BY <1>0, <1>2, <2>1, Zenon DEF HdTypeOK
    <3> QED
      BY <1>0, <1>1, <1>2, <1>3, <2>1, <2>2, <3>1 DEF HdTypeOK
  <2>4. /\ DOMAIN hdBuff' = 0 .. Total - 1
        /\ \A i \in 0 .. Total - 1 : i < buffPos + 1 => hdBuff'[i] = <<"disk", First + i>>
    <3>1. /\ driveData = <<"disk", First + buffPos>> /\ DOMAIN hdBuff = 0 .. Total - 1
          /\ \A i \in 0 .. Total - 1 : i < buffPos => hdBuff[i] = <<"disk", First + i>>
      BY <1>1, <2>1, Zenon DEF ReadInv
    <3>2. \A i \in 0 .. Total - 1 :
             hdBuff'[i] = IF i = buffPos THEN <<"disk", First + buffPos>> ELSE hdBuff[i]
      BY <2>1, <3>1
    <3>3. \A i \in 0 .. Total - 1 : i < buffPos + 1 => i = buffPos \/ i < buffPos
      BY <1>2, <2>2
    <3> QED
      BY <2>1, <3>1, <3>2, <3>3
  <2>5. hdFlag' = IF sectNum' = 0 THEN 0 ELSE 1
    BY <1>2, <2>1, <2>2 DEF ReadInv
  <2>6. /\ hdAt' \in {"wait", "done"}
        /\ buffPos' = Passed /\ buffPos' = buffPos + 1
        /\ sectNum' = Total - buffPos'
    BY <1>1, <1>2, <2>1, <2>2 DEF ReadInv
  <2>7. ReadInv'
    BY <1>0, <1>3, <2>1, <2>4, <2>5, <2>6, Zenon DEF ReadInv
  <2> QED
    BY <1>1, <2>1, <2>3, <2>7 DEF HdInv
<1>5. CASE HdIntWrite
  <2>1. /\ hdReq.op = "write" /\ UNCHANGED hdBuff
        /\ earlyInt' = (earlyInt \/ hdAt \in {"copied", "counted"})
        /\ IF sectNum = 0
           THEN hdFlag' = 0 /\ UNCHANGED <<driveData, sectNum, buffPos>>
           ELSE /\ driveData' = hdBuff[buffPos] /\ sectNum' = sectNum - 1
                /\ buffPos' = buffPos + 1 /\ UNCHANGED hdFlag
    BY <1>2, <1>5 DEF HdIntWrite, Decremented, HdTypeOK
  <2>2. HdTypeOK'
    <3>1. driveDrq' \in BOOLEAN /\ driveInt' \in BOOLEAN /\ earlyInt' \in BOOLEAN
      BY <1>0, <1>2, <2>1, Zenon DEF HdTypeOK
    <3> QED
      BY <1>0, <1>1, <1>2, <1>3, <2>1, <3>1 DEF HdTypeOK
  <2>3. CASE WriteInv /\ hdAt \notin {"copied", "counted"}
    <3>1. sectNum = Total - Passed /\ driveData = Empty /\ buffPos = Passed /\ hdFlag = 1
          /\ hdAt \in {"wait", "done"}
      <4>1. WriteGoesOn
        BY <1>1, <2>3 DEF WriteInv, WriteBegins
      <4> QED
        BY <1>1, <4>1 DEF WriteGoesOn
    <3>2. CASE Passed = Total
      <4>1. hdFlag' = 0 /\ UNCHANGED <<driveData, sectNum, buffPos>>
        BY <1>2, <2>1, <3>1, <3>2
      <4>2. WriteGoesOn'
        BY <1>0, <1>1, <1>2, <1>3, <3>1, <3>2, <4>1 DEF WriteGoesOn
      <4> QED
        BY <1>1, <1>3, <2>1, <2>2, <2>3, <4>2 DEF HdInv, WriteInv
    <3>3. CASE Passed # Total
      <4>1. hdBuff[Passed] = <<"memory", Passed>>
        BY <1>2, <2>3, <3>3 DEF WriteInv, Memory
      <4>2. /\ driveData' = <<"memory", Passed>> /\ hdFlag' = 1
            /\ sectNum' = sectNum - 1 /\ buffPos' = Passed + 1
        BY <1>2, <2>1, <3>1, <3>3, <4>1
      <4>3. WriteGoesOn'
        BY <1>0, <1>1, <1>2, <1>3, <3>1, <3>3, <4>2 DEF WriteGoesOn
      <4> QED
        BY <1>1, <1>3, <2>1, <2>2, <2>3, <4>3 DEF HdInv, WriteInv
    <3> QED
      BY <3>2, <3>3
  <2> QED
    BY <1>1, <1>2, <2>1, <2>2, <2>3 DEF HdInv, HdTypeOK
<1> QED
  BY <1>4, <1>5, <1>1 DEF HdInt

THEOREM HdInvariance == HdSpec => []HdInv
<1>1. HdInv /\ [HdNext]_hdVars => HdInv'
  <2> SUFFICES ASSUME HdInv, [HdNext]_hdVars PROVE HdInv'
    OBVIOUS
  <2>1. CASE UNCHANGED hdVars
    <3>1. First' = First /\ Total' = Total /\ Passed' = Passed /\ Memory' = Memory
      BY <2>1 DEF hdVars, First, Total, Passed, Memory
    <3>2. HdTypeOK'
      BY <2>1, <3>1 DEF hdVars, HdInv, HdTypeOK
    <3>3. ReadInv => ReadInv'
      BY <2>1, <3>1 DEF hdVars, ReadInv
    <3>4. WriteInv => WriteInv'
      BY <2>1, <3>1 DEF hdVars, WriteInv, WriteBegins, WriteGoesOn
    <3> QED
      BY <2>1, <3>2, <3>3, <3>4 DEF hdVars, HdInv
  <2> QED
    BY <2>1, StartStep, DrqStep, AgainStep, CallerStep, DriveStep, InterruptStep DEF HdNext
<1> QED
  BY <1>1, HdInitInv, PTL DEF HdSpec

\* hd_drv_read(), hd_drv_write() and hd_int(): however the interrupts of the
\* drive fall between the steps of the caller, and however often the command of
\* a write is given again, a request that ends has left every sector in its
\* place, whatever its length below 2^16 sectors; a write whose first interrupt
\* comes before both sect_num-- and buff = data is excepted.
THEOREM TransferWholeHolds == HdSpec => []TransferWhole
<1>1. HdInv => TransferWhole
  <2> SUFFICES ASSUME HdInv, hdAt = "done" PROVE TransferWhole
    BY DEF TransferWhole
  <2>1. First \in Nat /\ Total \in Nat /\ Passed \in 0 .. Total /\ HdTypeOK
    BY FirstNat DEF HdInv, HdTypeOK
  <2>2. CASE hdReq.op = "read"
    <3>1. buffPos = Total
      BY <2>1, <2>2 DEF HdInv, HdTypeOK, ReadInv
    <3> QED
      BY <2>1, <2>2, <3>1 DEF HdInv, ReadInv, TransferWhole, First, Total
  <2>3. CASE hdReq.op = "write" /\ ~earlyInt
    <3>1. WriteInv /\ Passed = Total
      BY <2>1, <2>3 DEF HdInv, HdTypeOK, WriteInv, WriteBegins, WriteGoesOn
    <3>2. \A i \in 0 .. Total - 1 : hdBuff[i] = <<"memory", i>>
      BY <3>1 DEF WriteInv, Memory
    <3>3. diskPut = {<<First + i, hdBuff[i]>> : i \in 0 .. Total - 1}
      BY <3>1, <3>2 DEF WriteInv
    <3> QED
      BY <2>3, <3>3 DEF TransferWhole, First, Total
  <2> QED
    BY <2>1, <2>2, <2>3 DEF HdTypeOK, TransferWhole
<1> QED
  BY <1>1, HdInvariance, PTL
-----------------------------------------------------------------------------
(***************************************************************************)
(* MountsOwnPages of Mounts for any number of partitions and pages.        *)
(***************************************************************************)

Mounted == {p \in Partitions : partFs[p]}

\* No two mounted partitions have the same pages.
OwnPages == \A p, r \in Mounted : partParam[p] = partParam[r] => p = r

MountsInv ==
    /\ DOMAIN partFs = Partitions /\ DOMAIN partParam = Partitions
    /\ ~remountFailed =>
          /\ IsFiniteSet(Mounted) /\ OwnPages
          /\ fsAlloc = {partParam[p] : p \in Mounted} /\ IsFiniteSet(fsAlloc)
          /\ Cardinality(fsAlloc) = Cardinality(Mounted)
          /\ cursel # NoPart => cursel \in Mounted

\* A partition mounted again gives up its pages before it takes others.
LEMMA MountSucceedsStep ==
    ASSUME MountsInv, NEW p \in Partitions, NEW q \in FsPages, MountSucceeds(p, q)
    PROVE  MountsInv'
<1>1. /\ q \notin Unmounted(p) /\ fsAlloc' = Unmounted(p) \union {q}
      /\ partParam' = [partParam EXCEPT ![p] = q] /\ partFs' = [partFs EXCEPT ![p] = TRUE]
      /\ cursel' = p /\ UNCHANGED remountFailed
  BY DEF MountSucceeds
<1>2. /\ DOMAIN partFs' = Partitions /\ DOMAIN partParam' = Partitions
      /\ Mounted' = Mounted \union {p} /\ partParam'[p] = q
      /\ \A r \in Partitions : r # p => partParam'[r] = partParam[r]
  BY <1>1 DEF MountsInv, Mounted
<1> SUFFICES ASSUME ~remountFailed
             PROVE  /\ IsFiniteSet(Mounted') /\ OwnPages'
                    /\ fsAlloc' = {partParam'[r] : r \in Mounted'} /\ IsFiniteSet(fsAlloc')
                    /\ Cardinality(fsAlloc') = Cardinality(Mounted')
                    /\ cursel' \in Mounted'
  BY <1>1, <1>2, Zenon DEF MountsInv, Mounted
<1>3. /\ IsFiniteSet(Mounted) /\ OwnPages /\ IsFiniteSet(fsAlloc)
      /\ fsAlloc = {partParam[r] : r \in Mounted}
      /\ Cardinality(fsAlloc) = Cardinality(Mounted)
  BY DEF MountsInv
<1>4. Unmounted(p) = {partParam[r] : r \in Mounted \ {p}}
  BY <1>3 DEF Unmounted, Mounted, OwnPages
<1>5. OwnPages'
  BY <1>1, <1>2, <1>3, <1>4 DEF OwnPages
<1>6. fsAlloc' = {partParam'[r] : r \in Mounted'}
  BY <1>1, <1>2, <1>4 DEF Mounted
<1>7. IsFiniteSet(Mounted') /\ IsFiniteSet(Unmounted(p))
  BY <1>2, <1>3, FS_AddElement, FS_RemoveElement DEF Unmounted
<1>8. IsFiniteSet(fsAlloc') /\ Cardinality(fsAlloc') = Cardinality(Unmounted(p)) + 1
  BY <1>1, <1>7, FS_AddElement
<1>9. Cardinality(Mounted') = Cardinality(Unmounted(p)) + 1
  <2>1. CASE partFs[p]
    <3>1. Mounted' = Mounted /\ Unmounted(p) = fsAlloc \ {partParam[p]}
          /\ partParam[p] \in fsAlloc
      BY <1>2, <1>3, <2>1 DEF Unmounted, Mounted
    <3>2. Cardinality(Unmounted(p)) = Cardinality(fsAlloc) - 1 /\ Cardinality(fsAlloc) \in Nat
      BY <1>3, <3>1, FS_RemoveElement, FS_CardinalityType
    <3> QED
      BY ONLY <1>3, <3>1, <3>2
  <2>2. CASE ~ partFs[p]
    <3>1. p \notin Mounted /\ Unmounted(p) = fsAlloc
      BY <2>2 DEF Unmounted, Mounted
    <3> QED
      BY <1>2, <1>3, <3>1, FS_AddElement
  <2> QED
    BY <2>1, <2>2
<1> QED
  BY <1>1, <1>2, <1>5, <1>6, <1>7, <1>8, <1>9, Zenon

\* A partition that was not mounted and does not mount leaves the pages as they
\* were.
LEMMA MountFailsStep ==
    ASSUME MountsInv, NEW p \in Partitions, MountFails(p)
    PROVE  MountsInv'
<1>1. /\ remountFailed' = (remountFailed \/ partFs[p])
      /\ UNCHANGED <<partFs, partParam, cursel>>
  BY DEF MountFails
<1>2. ASSUME ~remountFailed' PROVE fsAlloc' = fsAlloc /\ ~remountFailed
  BY <1>1, <1>2 DEF MountFails, Unmounted, FreedOnError
<1> QED
  BY <1>1, <1>2, Zenon DEF MountsInv, Mounted, OwnPages

LEMMA MountsStep == MountsInv /\ [MountsNext]_mountVars => MountsInv'
<1> SUFFICES ASSUME MountsInv, [MountsNext]_mountVars PROVE MountsInv'
  OBVIOUS
<1>1. CASE \E p \in Partitions : Mount(p)
  BY <1>1, MountSucceedsStep, MountFailsStep DEF Mount
<1>2. CASE \E p \in Partitions : Select(p)
  BY <1>2 DEF Select, MountsInv, Mounted, OwnPages
<1>3. CASE \E path \in Paths : Cd(path)
  <2>1. UNCHANGED <<partFs, partParam, cursel, fsAlloc, remountFailed>>
    BY <1>3 DEF Cd
  <2> QED
    BY <2>1 DEF MountsInv, Mounted, OwnPages
<1>4. CASE UNCHANGED mountVars
  BY <1>4 DEF mountVars, MountsInv, Mounted, OwnPages
<1> QED
  BY <1>1, <1>2, <1>3, <1>4 DEF MountsNext

\* The pages of the file system in use are those of the mounted partitions, one
\* each, for any number of partitions and pages and any directories, until a
\* mounted partition fails to mount again.
THEOREM MountsOwnPagesHolds == MountsSpec => []MountsOwnPages
<1>1. MountsInit => MountsInv
  <2> SUFFICES ASSUME MountsInit PROVE MountsInv
    OBVIOUS
  <2>1. Mounted = {} /\ fsAlloc = {}
    BY DEF MountsInit, Mounted
  <2>2. IsFiniteSet({})
    BY FS_EmptySet
  <2> QED
    BY <2>1, <2>2 DEF MountsInit, MountsInv, OwnPages
<1>2. MountsInv => MountsOwnPages
  BY DEF MountsInv, MountsOwnPages, Mounted
<1> QED
  BY <1>1, <1>2, MountsStep, PTL DEF MountsSpec
-----------------------------------------------------------------------------
(***************************************************************************)
(* FileWhole of Ext2File for files of every length and blocks of every     *)
(* size, the empty file and the ones that reach the triple index included. *)
(***************************************************************************)

\* The first m blocks of the file, as memory should hold them.
Blocks(m) == [n \in 0 .. m - 1 |-> BlockPath(n)]

\* Where n_block gets to zero: the empty file's wraps around first.
FileEnd == IF fileBlocks = 0 THEN WordSize ELSE fileBlocks

\* How many blocks the turns of ext2_readfile_dind() have read.
InDouble ==
    IF fileSlot = DindSlot THEN AtMost(blocksLeft, PerBlock * PerBlock) - indLeft ELSE 0

\* While the loop runs, addr is where the slots before have brought it, n_block
\* is what is left from there, and memory holds the blocks before addr.
Reading ==
    /\ fileSlot <= TindSlot
    /\ fileSlot = 0 => blocksLeft = fileBlocks
    /\ fileSlot # 0 => blocksLeft # 0 /\ fileAddr + blocksLeft = FileEnd
    /\ fileAddr = IF fileSlot <= IndSlot THEN fileSlot
                  ELSE IF fileSlot = DindSlot THEN DirectBlocks + PerBlock ELSE Reachable
    /\ fileSlot = DindSlot =>
          /\ indLeft <= AtMost(blocksLeft, PerBlock * PerBlock)
          /\ indLeft # 0 => InDouble = indIdx * PerBlock
    /\ fileMem = Blocks(fileAddr + InDouble)

FileInv ==
    /\ fileBlocks \in Nat /\ blocksLeft \in Nat /\ fileSlot \in Nat /\ fileAddr \in Nat
    /\ indIdx \in Nat /\ indLeft \in Nat
    /\ fileFate \in {"reading", "done", "assert"}
    /\ fileBlocks < WordSize
    /\ fileFate = "reading" => Reading
    /\ FileWhole

LEMMA IndexSizes ==
    /\ DirectBlocks \in Nat /\ PerBlock \in Nat /\ DirectBlocks > 0 /\ PerBlock > 0
    /\ PerBlock * PerBlock \in Nat /\ Reachable \in Nat /\ WordSize \in Nat
    /\ Reachable = DirectBlocks + PerBlock + PerBlock * PerBlock
    /\ Reachable + PerBlock * PerBlock < WordSize
    /\ IndSlot = DirectBlocks /\ DindSlot = DirectBlocks + 1 /\ TindSlot = DirectBlocks + 2
    /\ SlotsEnd = DirectBlocks + 3
<1>1. PICK p : p = PerBlock * PerBlock
  OBVIOUS
<1>2. p \in Nat /\ WordSize > DirectBlocks + PerBlock + 2 * p
  BY <1>1, FileAssumption
<1> QED
  BY <1>1, <1>2, FileAssumption DEF Reachable, IndSlot, DindSlot, TindSlot, SlotsEnd

\* The end of the body, when the blocks it read were left: n_block reaches zero
\* exactly at the end of a file that has blocks.
LEMMA Advanced ==
    ASSUME FileInv, fileFate = "reading", NEW n \in Nat \ {0},
           fileAddr + n <= FileEnd, fileAddr + n <= Reachable, Advance(n),
           fileBlocks' = fileBlocks
    PROVE  /\ fileAddr' = fileAddr + n /\ blocksLeft' \in Nat
           /\ FileEnd' = FileEnd /\ fileAddr' + blocksLeft' = FileEnd
           /\ \/ /\ fileFate' = "done" /\ fileSlot' = fileSlot
                 /\ fileAddr' = fileBlocks /\ fileBlocks # 0
              \/ /\ fileFate' = (IF fileSlot + 1 = SlotsEnd THEN "assert" ELSE "reading")
                 /\ fileSlot' = fileSlot + 1 /\ blocksLeft' # 0
<1>1. fileAddr' = fileAddr + n /\ FileEnd' = FileEnd
  BY DEF Advance, FileEnd
<1>2. blocksLeft' \in Nat /\ fileAddr' + blocksLeft' = FileEnd
  <2>1. CASE fileSlot = 0
    <3>1. fileAddr = 0 /\ blocksLeft = fileBlocks
      BY <2>1, IndexSizes DEF FileInv, Reading
    <3> QED
      BY <1>1, <3>1, IndexSizes DEF Advance, FileInv, FileEnd, Wrapped
  <2>2. CASE fileSlot # 0
    <3>1. fileAddr + blocksLeft = FileEnd
      BY <2>2 DEF FileInv, Reading
    <3> QED
      BY <1>1, <3>1, IndexSizes DEF Advance, FileInv, Wrapped
  <2> QED
    BY <2>1, <2>2
<1>3. CASE blocksLeft' = 0
  <2>1. fileAddr' = FileEnd /\ fileAddr' <= Reachable
    BY <1>1, <1>2, <1>3 DEF FileInv
  <2>2. FileEnd # WordSize
    BY <2>1, IndexSizes
  <2> QED
    BY <1>1, <1>2, <1>3, <2>1, <2>2 DEF Advance, FileEnd
<1>4. CASE blocksLeft' # 0
  BY <1>1, <1>2, <1>4 DEF Advance
<1> QED
  BY <1>3, <1>4

\* What is in memory while the first m blocks are read, when no more are left
\* than the file has.
LEMMA BlocksWithin ==
    ASSUME NEW m \in Nat, m <= FileEnd, fileBlocks \in Nat
    PROVE  fileBlocks # 0 => DOMAIN Blocks(m) \subseteq 0 .. fileBlocks - 1
<1>1. DOMAIN Blocks(m) = 0 .. m - 1
  BY DEF Blocks
<1> QED
  BY <1>1 DEF FileEnd

\* FileInv after a body that has read up to addr.
LEMMA AfterBody ==
    ASSUME FileInv, fileFate = "reading", NEW n \in Nat \ {0},
           fileAddr + n <= FileEnd, fileAddr + n <= Reachable, Advance(n),
           fileBlocks' = fileBlocks, fileSlot < TindSlot,
           indIdx' \in Nat, indLeft' \in Nat,
           fileMem' = Blocks(fileAddr + n),
           blocksLeft' # 0 =>
              fileAddr + n = IF fileSlot < IndSlot THEN fileSlot + 1
                             ELSE IF fileSlot = IndSlot THEN DirectBlocks + PerBlock
                             ELSE Reachable,
           fileSlot = IndSlot /\ blocksLeft' # 0 =>
              indIdx' = 0 /\ indLeft' = AtMost(blocksLeft', PerBlock * PerBlock)
    PROVE  FileInv'
<1>1. /\ fileAddr' = fileAddr + n /\ blocksLeft' \in Nat
      /\ FileEnd' = FileEnd /\ fileAddr' + blocksLeft' = FileEnd
      /\ \/ /\ fileFate' = "done" /\ fileSlot' = fileSlot
            /\ fileAddr' = fileBlocks /\ fileBlocks # 0
         \/ /\ fileFate' = (IF fileSlot + 1 = SlotsEnd THEN "assert" ELSE "reading")
            /\ fileSlot' = fileSlot + 1 /\ blocksLeft' # 0
  BY Advanced
<1>2. fileAddr' \in Nat /\ fileSlot' \in Nat /\ fileBlocks \in Nat
  BY <1>1 DEF FileInv
<1>3. fileMem' = Blocks(fileAddr')
  BY <1>1
<1>4. fileBlocks # 0 => DOMAIN Blocks(fileAddr') \subseteq 0 .. fileBlocks - 1
  BY <1>1, <1>2, BlocksWithin
<1>5. CASE fileFate' = "done"
  <2>1. FileWhole'
    BY <1>1, <1>2, <1>3, <1>4, <1>5 DEF FileWhole, Blocks
  <2> QED
    BY <1>1, <1>2, <1>5, <2>1 DEF FileInv
<1>6. CASE fileFate' # "done"
  <2>1. fileFate' = "reading" /\ fileSlot' = fileSlot + 1 /\ blocksLeft' # 0
    BY <1>1, <1>6, IndexSizes DEF FileInv
  <2>2. InDouble' = 0 /\ fileAddr' + 0 = fileAddr'
    <3>1. InDouble' = (IF fileSlot' = DindSlot
                       THEN AtMost(blocksLeft', PerBlock * PerBlock) - indLeft' ELSE 0)
      BY DEF InDouble
    <3>2. fileSlot' = DindSlot => fileSlot = IndSlot
      BY <2>1, IndexSizes DEF FileInv
    <3>3. ASSUME fileSlot = IndSlot
          PROVE  AtMost(blocksLeft', PerBlock * PerBlock) - indLeft' = 0
      <4>1. PICK c \in Nat : c = AtMost(blocksLeft', PerBlock * PerBlock)
        BY <1>1, IndexSizes DEF AtMost
      <4>2. indLeft' = c /\ c - c = 0
        BY <2>1, <3>3, <4>1
      <4> QED
        BY ONLY <4>1, <4>2, Zenon
    <3>4. fileAddr' + 0 = fileAddr'
      <4>1. PICK x \in Nat : x = fileAddr'
        BY <1>2
      <4>2. x + 0 = x
        OBVIOUS
      <4> QED
        BY ONLY <4>1, <4>2, Zenon
    <3> QED
      BY ONLY <3>1, <3>2, <3>3, <3>4, Zenon
  <2>3. fileMem' = Blocks(fileAddr' + InDouble')
    BY <1>3, <2>2
  <2>4. fileSlot' = DindSlot =>
           /\ indLeft' <= AtMost(blocksLeft', PerBlock * PerBlock)
           /\ indLeft' # 0 => InDouble' = indIdx' * PerBlock
    <3>1. ASSUME fileSlot' = DindSlot PROVE fileSlot = IndSlot
      BY <2>1, <3>1, IndexSizes DEF FileInv
    <3>2. AtMost(blocksLeft', PerBlock * PerBlock) \in Nat /\ 0 * PerBlock = 0
      BY <1>1, IndexSizes DEF AtMost
    <3> QED
      BY <2>1, <2>2, <3>1, <3>2
  <2>5. fileAddr' = IF fileSlot' <= IndSlot THEN fileSlot'
                    ELSE IF fileSlot' = DindSlot THEN DirectBlocks + PerBlock ELSE Reachable
    BY <1>1, <2>1, IndexSizes DEF FileInv
  <2>6. Reading'
    BY <1>1, <1>2, <2>1, <2>3, <2>4, <2>5, IndexSizes DEF Reading, FileInv
  <2>7. FileWhole'
    BY <1>3, <1>4, <2>1 DEF FileWhole
  <2> QED
    BY <1>1, <1>2, <2>1, <2>6, <2>7 DEF FileInv
<1> QED
  BY <1>5, <1>6

\* Reading on where memory ends makes the file longer.
LEMMA LoadedBlocks ==
    ASSUME NEW m \in Nat, NEW n \in Nat, NEW blocks, DOMAIN blocks = 0 .. n - 1,
           \A k \in 0 .. n - 1 : blocks[k] = BlockPath(m + k)
    PROVE  Loaded(Blocks(m), m, blocks) = Blocks(m + n)
<1>1. DOMAIN Blocks(m) = 0 .. m - 1 /\ \A a \in 0 .. m - 1 : Blocks(m)[a] = BlockPath(a)
  BY DEF Blocks
<1>2. (0 .. m - 1) \union {m + k : k \in 0 .. n - 1} = 0 .. m + n - 1
  <2>1. \A a \in m .. m + n - 1 : a - m \in 0 .. n - 1 /\ a = m + (a - m)
    OBVIOUS
  <2>2. \A k \in 0 .. n - 1 : m + k \in m .. m + n - 1
    OBVIOUS
  <2>3. {m + k : k \in 0 .. n - 1} = m .. m + n - 1
    BY ONLY <2>1, <2>2, Zenon
  <2>4. (0 .. m - 1) \union (m .. m + n - 1) = 0 .. m + n - 1
    OBVIOUS
  <2> QED
    BY ONLY <2>3, <2>4, Zenon
<1>3. ASSUME NEW a \in 0 .. m + n - 1
      PROVE  (IF a - m \in 0 .. n - 1 THEN blocks[a - m] ELSE Blocks(m)[a]) = BlockPath(a)
  <2>1. CASE a - m \in 0 .. n - 1
    <3>1. m + (a - m) = a
      OBVIOUS
    <3> QED
      BY <2>1, <3>1
  <2>2. CASE a - m \notin 0 .. n - 1
    <3>1. a \in 0 .. m - 1
      BY <2>2
    <3> QED
      BY <1>1, <2>2, <3>1
  <2> QED
    BY <2>1, <2>2
<1>4. Loaded(Blocks(m), m, blocks) =
        [a \in 0 .. m + n - 1 |->
            IF a - m \in 0 .. n - 1 THEN blocks[a - m] ELSE Blocks(m)[a]]
  BY ONLY <1>1, <1>2, DOMAIN blocks = 0 .. n - 1, Zenon DEF Loaded
<1>5. Blocks(m + n) = [a \in 0 .. m + n - 1 |-> BlockPath(a)]
  BY DEF Blocks
<1> QED
  BY ONLY <1>3, <1>4, <1>5, Zenon

LEMMA ReadDirectStep ==
    ASSUME FileInv, ReadDirect
    PROVE  FileInv'
<1>1. /\ fileSlot < DirectBlocks /\ fileAddr = fileSlot /\ InDouble = 0
      /\ fileAddr + 0 = fileAddr /\ fileFate = "reading" /\ Reading
  BY IndexSizes DEF FileInv, Reading, ReadDirect, InDouble
<1>2. fileMem' = Blocks(fileAddr + 1)
  <2>1. PICK blocks : blocks = [k \in {0} |-> <<fileSlot>>]
    OBVIOUS
  <2>2. DOMAIN blocks = 0 .. 1 - 1 /\ \A k \in 0 .. 1 - 1 : blocks[k] = BlockPath(fileAddr + k)
    BY <1>1, <2>1, IndexSizes DEF BlockPath, FileInv
  <2>3. Loaded(Blocks(fileAddr), fileAddr, blocks) = Blocks(fileAddr + 1)
    BY <2>2, LoadedBlocks DEF FileInv
  <2> QED
    BY <1>1, <2>1, <2>3 DEF ReadDirect, Reading
<1>3. fileAddr + 1 <= FileEnd /\ fileAddr + 1 <= Reachable
  <2>1. CASE fileSlot = 0
    BY <1>1, <2>1, IndexSizes DEF FileInv, FileEnd
  <2>2. CASE fileSlot # 0
    <3>1. blocksLeft # 0 /\ fileAddr + blocksLeft = FileEnd
      BY <1>1, <2>2 DEF Reading
    <3> QED
      BY <1>1, <3>1, IndexSizes DEF FileInv
  <2> QED
    BY <2>1, <2>2
<1>4. /\ Advance(1) /\ UNCHANGED <<fileBlocks, indIdx, indLeft>>
      /\ indIdx \in Nat /\ indLeft \in Nat
  BY DEF ReadDirect, FileInv
<1>5. fileSlot < TindSlot /\ fileSlot # IndSlot /\ fileSlot < IndSlot
  BY <1>1, IndexSizes DEF FileInv
<1>6. fileAddr + 1 = fileSlot + 1 /\ 1 \in Nat \ {0}
      /\ indIdx' \in Nat /\ indLeft' \in Nat /\ fileBlocks' = fileBlocks
  BY <1>1, <1>4
<1> QED
  BY ONLY FileInv, <1>1, <1>2, <1>3, <1>4, <1>5, <1>6, AfterBody

LEMMA ReadIndirectStep ==
    ASSUME FileInv, ReadIndirect
    PROVE  FileInv'
<1>1. /\ fileSlot = DirectBlocks /\ fileAddr = DirectBlocks /\ InDouble = 0
      /\ fileAddr + 0 = fileAddr /\ fileFate = "reading" /\ Reading
      /\ blocksLeft # 0 /\ fileAddr + blocksLeft = FileEnd
  BY IndexSizes DEF FileInv, Reading, ReadIndirect, InDouble
<1>2. PICK n \in Nat : n = AtMost(blocksLeft, PerBlock) /\ n <= PerBlock /\ n <= blocksLeft
                       /\ (n < blocksLeft => n = PerBlock) /\ n # 0
  BY <1>1, IndexSizes DEF AtMost, FileInv
<1>3. fileMem' = Blocks(fileAddr + n)
  <2>1. PICK blocks : blocks = [k \in 0 .. n - 1 |-> <<fileSlot, k>>]
    OBVIOUS
  <2>2. \A k \in 0 .. n - 1 : blocks[k] = BlockPath(fileAddr + k)
    <3> SUFFICES ASSUME NEW k \in 0 .. n - 1 PROVE blocks[k] = BlockPath(fileAddr + k)
      OBVIOUS
    <3>1. PICK x \in Nat : /\ x = fileAddr + k /\ x - DirectBlocks = k
                           /\ ~ (x < DirectBlocks) /\ x < DirectBlocks + PerBlock
      BY <1>1, <1>2, IndexSizes
    <3>2. BlockPath(x) = <<DirectBlocks, k>>
      BY ONLY <3>1, Zenon DEF BlockPath
    <3> QED
      BY ONLY <1>1, <2>1, <3>1, <3>2, k \in 0 .. n - 1, Zenon
  <2>3. Loaded(Blocks(fileAddr), fileAddr, blocks) = Blocks(fileAddr + n)
    BY <2>1, <2>2, LoadedBlocks DEF FileInv
  <2> QED
    BY <1>1, <1>2, <2>1, <2>3 DEF ReadIndirect, Reading
<1>4. /\ Advance(n) /\ UNCHANGED fileBlocks
      /\ indIdx' = 0 /\ indLeft' = AtMost(blocksLeft', PerBlock * PerBlock)
  BY <1>2 DEF ReadIndirect
<1>5. fileAddr + n <= FileEnd /\ fileAddr + n <= Reachable
  BY <1>1, <1>2, IndexSizes DEF FileInv
<1>6. blocksLeft' \in Nat /\ fileAddr' = fileAddr + n /\ fileAddr' + blocksLeft' = FileEnd
  BY <1>1, <1>2, <1>4, <1>5, Advanced
<1>7. indLeft' \in Nat
  BY <1>4, <1>6, IndexSizes DEF AtMost
<1>8. blocksLeft' # 0 => n = PerBlock
  BY <1>1, <1>2, <1>6 DEF FileInv
<1> QED
  BY <1>1, <1>2, <1>3, <1>4, <1>5, <1>7, <1>8, AfterBody, IndexSizes

\* Block k of index block i is at i * PerBlock + k behind the first.
LEMMA DoublePath ==
    ASSUME NEW i \in Nat, NEW k \in 0 .. PerBlock - 1
    PROVE  BlockPath(DirectBlocks + PerBlock + i * PerBlock + k) = <<DindSlot, i, k>>
<1>1. PICK m \in Nat : m = i * PerBlock + k
  BY IndexSizes
<1>2. m % PerBlock = k
  BY <1>1, IndexSizes, RemainderIs
<1>3. m \div PerBlock = i
  <2>1. PICK q \in Nat, r \in 0 .. PerBlock - 1 :
            q = m \div PerBlock /\ r = m % PerBlock /\ m = q * PerBlock + r
    BY IndexSizes, Division
  <2>2. q * PerBlock = i * PerBlock
    BY <1>1, <1>2, <2>1, IndexSizes
  <2>3. q = i
    BY ONLY <2>2, IndexSizes, q \in Nat, i \in Nat
  <2> QED
    BY <2>1, <2>3
<1>4. PICK x \in Nat : /\ x = DirectBlocks + PerBlock + i * PerBlock + k
                       /\ ~ (x < DirectBlocks) /\ ~ (x < DirectBlocks + PerBlock)
                       /\ x - DirectBlocks - PerBlock = m
  BY <1>1, IndexSizes
<1> QED
  BY ONLY <1>2, <1>3, <1>4, Zenon DEF BlockPath, DindSlot

\* One index block more; the last may be shorter.
LEMMA ReadDoubleStep ==
    ASSUME FileInv, ReadDouble
    PROVE  FileInv'
<1>1. PICK c \in Nat : c = AtMost(blocksLeft, PerBlock * PerBlock) /\ c <= blocksLeft
                       /\ c <= PerBlock * PerBlock
  BY IndexSizes DEF AtMost, FileInv
<1>2. /\ fileFate = "reading" /\ Reading /\ fileSlot = DindSlot /\ fileSlot # 0
      /\ indLeft # 0 /\ indLeft <= c
  BY <1>1, IndexSizes DEF FileInv, ReadDouble, Reading
<1>3. /\ fileAddr = DirectBlocks + PerBlock /\ fileAddr + blocksLeft = FileEnd
      /\ c - indLeft = indIdx * PerBlock /\ InDouble = indIdx * PerBlock
  BY <1>1, <1>2, IndexSizes DEF Reading, InDouble
<1>4. PICK n \in Nat : n = AtMost(indLeft, PerBlock) /\ n <= PerBlock /\ n <= indLeft
                       /\ (n < indLeft => n = PerBlock)
  BY IndexSizes DEF AtMost, FileInv
<1>5. PICK m \in Nat : m = fileAddr + indIdx * PerBlock
  BY IndexSizes DEF FileInv
<1>6. fileMem' = Blocks(m + n)
  <2>1. PICK blocks : blocks = [k \in 0 .. n - 1 |-> <<fileSlot, indIdx, k>>]
    OBVIOUS
  <2>2. \A k \in 0 .. n - 1 : blocks[k] = BlockPath(m + k)
    <3> SUFFICES ASSUME NEW k \in 0 .. n - 1 PROVE blocks[k] = BlockPath(m + k)
      OBVIOUS
    <3>1. k \in 0 .. PerBlock - 1
      BY <1>4, IndexSizes
    <3>2. BlockPath(DirectBlocks + PerBlock + indIdx * PerBlock + k) =
              <<DindSlot, indIdx, k>>
      BY <3>1, DoublePath DEF FileInv
    <3> QED
      BY <1>2, <1>3, <1>5, <2>1, <3>2
  <2>3. Loaded(Blocks(m), m, blocks) = Blocks(m + n)
    BY <2>1, <2>2, LoadedBlocks
  <2>4. fileMem = Blocks(m) /\ DindAddr = m
    BY <1>2, <1>3, <1>5 DEF Reading, DindAddr
  <2> QED
    BY <1>4, <2>1, <2>3, <2>4 DEF ReadDouble
<1>7. /\ indLeft' = indLeft - n /\ indIdx' = indIdx + 1
      /\ UNCHANGED <<fileBlocks, blocksLeft, fileSlot, fileAddr, fileFate>>
  BY <1>4 DEF ReadDouble
<1>8. indLeft' \in Nat /\ indLeft' <= c /\ indIdx' \in Nat
  BY <1>2, <1>4, <1>7 DEF FileInv
<1>9. InDouble' = c - indLeft' /\ fileAddr' + InDouble' = m + n
  <2>1. InDouble' = c - indLeft'
    BY <1>1, <1>2, <1>7 DEF InDouble
  <2>2. PICK x \in Nat : x = indIdx * PerBlock
    BY IndexSizes DEF FileInv
  <2> QED
    BY <1>3, <1>4, <1>5, <1>7, <2>1, <2>2 DEF FileInv
<1>10. indLeft' # 0 => InDouble' = indIdx' * PerBlock
  <2>1. PICK x \in Nat : x = indIdx * PerBlock /\ (indIdx + 1) * PerBlock = x + PerBlock
    BY IndexSizes DEF FileInv
  <2> QED
    BY <1>2, <1>3, <1>4, <1>7, <1>9, <2>1, IndexSizes DEF FileInv
<1>11. Reading'
  <2>1. AtMost(blocksLeft', PerBlock * PerBlock) = c /\ blocksLeft # 0
    BY <1>1, <1>2, <1>7 DEF Reading
  <2> QED
    BY <1>2, <1>3, <1>6, <1>7, <1>8, <1>9, <1>10, <2>1, IndexSizes
    DEF Reading, FileEnd
<1>12. FileWhole'
  <2>1. m + n <= FileEnd
    <3>1. PICK x \in Nat : x = indIdx * PerBlock
      BY IndexSizes DEF FileInv
    <3> QED
      BY <1>1, <1>2, <1>3, <1>4, <1>5, <3>1 DEF FileInv
  <2>2. fileBlocks # 0 => DOMAIN Blocks(m + n) \subseteq 0 .. fileBlocks - 1
    BY <2>1, BlocksWithin DEF FileInv
  <2> QED
    BY <1>2, <1>6, <1>7, <2>2 DEF FileWhole
<1> QED
  BY <1>2, <1>7, <1>8, <1>11, <1>12 DEF FileInv

LEMMA ReadDoubleEndStep ==
    ASSUME FileInv, ReadDoubleEnd
    PROVE  FileInv'
<1>1. PICK c \in Nat : c = AtMost(blocksLeft, PerBlock * PerBlock) /\ c <= blocksLeft
                       /\ c <= PerBlock * PerBlock /\ (c < blocksLeft => c = PerBlock * PerBlock)
                       /\ (blocksLeft # 0 => c # 0)
  BY IndexSizes DEF AtMost, FileInv
<1>2. /\ fileFate = "reading" /\ Reading /\ fileSlot = DindSlot /\ fileSlot # 0 /\ indLeft = 0
      /\ fileAddr = DirectBlocks + PerBlock /\ fileAddr + blocksLeft = FileEnd
      /\ blocksLeft # 0
  BY IndexSizes DEF FileInv, ReadDoubleEnd, Reading
<1>3. InDouble = c
  BY <1>1, <1>2 DEF InDouble
<1>4. fileMem = Blocks(fileAddr + c)
  BY <1>2, <1>3 DEF Reading
<1>5. Advance(c) /\ UNCHANGED <<fileBlocks, indIdx, indLeft, fileMem>>
  BY <1>1 DEF ReadDoubleEnd
<1>6. fileAddr + c <= FileEnd /\ fileAddr + c <= Reachable
  BY <1>1, <1>2, IndexSizes DEF FileInv
<1>7. fileAddr' = fileAddr + c /\ fileAddr' + blocksLeft' = FileEnd /\ blocksLeft' \in Nat
  BY <1>1, <1>2, <1>5, <1>6, Advanced
<1>8. blocksLeft' # 0 => fileAddr + c = Reachable
  BY <1>1, <1>2, <1>7, IndexSizes DEF FileInv
<1>9. indIdx' \in Nat /\ indLeft' \in Nat /\ fileMem' = Blocks(fileAddr + c) /\ fileSlot < TindSlot
  BY <1>2, <1>4, <1>5, IndexSizes DEF FileInv
<1> QED
  BY <1>1, <1>2, <1>5, <1>6, <1>8, <1>9, AfterBody, IndexSizes

\* Behind the triple index the loop is over, by the assertion or, for one
\* length, without it.
LEMMA ReadTripleStep ==
    ASSUME FileInv, ReadTriple
    PROVE  FileInv'
<1>1. PICK p \in Nat : p = PerBlock * PerBlock /\ p # 0
  BY IndexSizes
<1>2. /\ fileFate = "reading" /\ Reading /\ fileSlot = TindSlot /\ fileSlot # 0
      /\ fileAddr = Reachable /\ fileAddr + blocksLeft = FileEnd /\ blocksLeft # 0
      /\ InDouble = 0 /\ fileAddr + 0 = fileAddr
  BY IndexSizes DEF FileInv, ReadTriple, Reading, InDouble
<1>3. /\ fileAddr' = fileAddr + p /\ blocksLeft' = Wrapped(blocksLeft - p)
      /\ fileSlot' = (IF blocksLeft' = 0 THEN fileSlot ELSE fileSlot + 1)
      /\ fileFate' = (IF blocksLeft' = 0 THEN "done" ELSE "assert")
      /\ UNCHANGED <<fileBlocks, indIdx, indLeft, fileMem>>
  BY <1>1, <1>2, IndexSizes DEF ReadTriple, Advance
<1>4. blocksLeft' \in Nat /\ (blocksLeft' = 0 => blocksLeft = p)
  BY <1>1, <1>2, <1>3, IndexSizes DEF Wrapped, FileInv
<1>5. blocksLeft' = 0 => fileBlocks = Reachable + p
  BY <1>1, <1>2, <1>4, IndexSizes DEF FileEnd, FileInv
<1>6. fileBlocks = 0 \/ fileBlocks > Reachable
  BY <1>2, IndexSizes DEF FileEnd, FileInv
<1>7. FileWhole'
  <2>1. fileBlocks # 0 => DOMAIN fileMem \subseteq 0 .. fileBlocks - 1
    BY DEF FileInv, FileWhole
  <2>2. fileFate' = "done" => fileBlocks = Reachable + PerBlock * PerBlock
    BY <1>1, <1>3, <1>5
  <2>3. Reachable' = Reachable
    BY DEF Reachable
  <2> QED
    BY <1>3, <1>6, <2>1, <2>2, <2>3 DEF FileWhole
<1>8. fileAddr' \in Nat /\ fileSlot' \in Nat /\ fileFate' \in {"done", "assert"}
  BY <1>3 DEF FileInv
<1> QED
  BY <1>3, <1>4, <1>7, <1>8 DEF FileInv

\* Whatever the number of blocks in a file and of addresses in an index block,
\* and wherever n_block wraps around: when ext2_readfile() returns, memory holds
\* the file, but for the one length that loses its end; it writes nothing behind
\* a file that has blocks; and it stops at the assertion for no other file than
\* the empty one and those that reach the triple index.
THEOREM FileWholeHolds == FileSpec => []FileWhole
<1>1. FileInit => FileInv
  <2> SUFFICES ASSUME FileInit PROVE FileInv
    OBVIOUS
  <2>1. fileBlocks \in Nat /\ fileBlocks < WordSize
    BY FileAssumption, IndexSizes DEF FileInit
  <2>2. InDouble = 0 /\ 0 .. 0 + 0 - 1 = {}
    BY IndexSizes DEF FileInit, InDouble
  <2>3. fileMem = Blocks(0 + 0) /\ DOMAIN fileMem = {}
    BY <2>2 DEF FileInit, Blocks
  <2>4. Reading
    BY <2>1, <2>2, <2>3, IndexSizes DEF FileInit, Reading
  <2>5. FileWhole
    BY <2>3 DEF FileInit, FileWhole
  <2> QED
    BY <2>1, <2>4, <2>5 DEF FileInit, FileInv
<1>2. FileInv /\ [FileNext]_fileVars => FileInv'
  <2>1. ASSUME FileInv, UNCHANGED fileVars PROVE FileInv'
    BY <2>1 DEF FileInv, Reading, FileWhole, FileEnd, fileVars, InDouble
  <2> QED
    BY <2>1, ReadDirectStep, ReadIndirectStep, ReadDoubleStep, ReadDoubleEndStep,
       ReadTripleStep DEF FileNext
<1>3. FileInv => FileWhole
  BY DEF FileInv
<1> QED
  BY <1>1, <1>2, <1>3, PTL DEF FileSpec
=============================================================================
