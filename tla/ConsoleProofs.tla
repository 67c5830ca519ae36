--------------------------- MODULE ConsoleProofs ---------------------------
(***************************************************************************)
(* From the keyboard to the commands.  Each section proves what one part   *)
(* promises:                                                               *)
(*   Kbd         RingIsFifo and NoCharOnlyIfStray: the ring, its reader    *)
(*   LineEditor  LineAsShown: the line that is run is the one shown        *)
(*   Modules     ModulesAccounted: insmod and rmmod                        *)
(***************************************************************************)
EXTENDS Kbd, LineEditor, Modules, SemProofs

Place == 0 .. RingSize - 1

RingInv ==
    /\ readpos \in Place /\ writepos \in Place
    /\ buff \in [Place -> Char \union {NIL}]
    /\ stateShift \in BOOLEAN /\ stateCap \in BOOLEAN

\* The characters from r up to w, oldest first.
Length(r, w) == IF w >= r THEN w - r ELSE w - r + RingSize
At(r, i)     == IF r + i - 1 < RingSize THEN r + i - 1 ELSE r + i - 1 - RingSize
Held(b, r, w) == [i \in 1 .. Length(r, w) |-> b[At(r, i)]]

LEMMA RingSizePositive == RingSize \in Nat /\ RingSize > 0
  BY KbdAssumption

\* The place after p.
After(p) == IF p + 1 = RingSize THEN 0 ELSE p + 1

LEMMA NextPlace ==
    ASSUME NEW p \in Place
    PROVE  (p + 1) % RingSize = After(p)
<1>1. p + 1 \in Int /\ RingSize \in Nat \ {0} /\ p \in 0 .. RingSize - 1
  BY RingSizePositive DEF Place
<1>2. /\ p + 1 \in 0 .. RingSize - 1 => (p + 1) % RingSize = p + 1
      /\ p + 1 >= RingSize /\ p + 1 < RingSize + RingSize
           => (p + 1) % RingSize = p + 1 - RingSize
  BY <1>1, Remainder
<1>3. CASE p + 1 = RingSize
  <2>1. p + 1 >= RingSize /\ p + 1 < RingSize + RingSize /\ p + 1 - RingSize = 0
    BY <1>1, <1>3
  <2> QED
    BY ONLY <1>2, <1>3, <2>1, Zenon DEF After
<1>4. CASE p + 1 # RingSize
  <2>1. p + 1 \in 0 .. RingSize - 1
    BY <1>1, <1>4
  <2> QED
    BY ONLY <1>2, <1>4, <2>1, Zenon DEF After
<1> QED
  BY <1>3, <1>4 DEF After

LEMMA HeldByRemainders ==
    ASSUME NEW b, NEW r \in Place, NEW w \in Place
    PROVE  [i \in 1 .. (w - r) % RingSize |-> b[(r + i - 1) % RingSize]] = Held(b, r, w)
<1>1. RingSize \in Nat \ {0}
  BY RingSizePositive
<1>2. (w - r) % RingSize = Length(r, w)
  <2>1. PICK a \in Int : a = w - r /\ a < RingSize /\ a >= -RingSize
    BY <1>1 DEF Place
  <2>2. /\ a \in 0 .. RingSize - 1 => a % RingSize = a
        /\ a < 0 /\ a >= -RingSize => a % RingSize = a + RingSize
    BY <1>1, Remainder
  <2>3. IF w >= r THEN a \in 0 .. RingSize - 1 ELSE a < 0
    BY <1>1, <2>1 DEF Place
  <2>4. a % RingSize = IF w >= r THEN a ELSE a + RingSize
    BY ONLY <2>1, <2>2, <2>3, Zenon
  <2> QED
    BY ONLY <2>1, <2>4, Zenon DEF Length
<1>3. ASSUME NEW i \in 1 .. Length(r, w)
      PROVE  (r + i - 1) % RingSize = At(r, i)
  <2>1. i \in 1 .. RingSize
    BY <1>1 DEF Place, Length
  <2>2. PICK a \in Int : a = r + i - 1 /\ a >= 0 /\ a < RingSize + RingSize
    BY <1>1, <2>1 DEF Place
  <2>3. /\ a \in 0 .. RingSize - 1 => a % RingSize = a
        /\ a >= RingSize /\ a < RingSize + RingSize => a % RingSize = a - RingSize
    BY <1>1, Remainder
  <2>4. IF a < RingSize THEN a \in 0 .. RingSize - 1 ELSE a >= RingSize
    BY <1>1, <2>2
  <2>5. a % RingSize = IF a < RingSize THEN a ELSE a - RingSize
    BY ONLY <2>2, <2>3, <2>4, Zenon
  <2>6. At(r, i) = IF a < RingSize THEN a ELSE a - RingSize
    BY ONLY <1>1, <2>1, <2>2, r \in Place DEF At, Place
  <2> QED
    BY ONLY <2>2, <2>5, <2>6, Zenon
<1> DEFINE n == (w - r) % RingSize
           f == [i \in 1 .. n |-> b[(r + i - 1) % RingSize]]
<1>4. f = Held(b, r, w)
  <2>1. n = Length(r, w)
    BY <1>2
  <2> HIDE DEF n
  <2>2. \A i \in 1 .. n : (r + i - 1) % RingSize = At(r, i)
    BY ONLY <1>3, <2>1, Zenon
  <2> QED
    BY ONLY <2>1, <2>2, Zenon DEF f, Held
<1> QED
  BY <1>4
LEMMA ContentIsHeld ==
    ASSUME readpos \in Place, writepos \in Place
    PROVE  Content = Held(buff, readpos, writepos)
BY HeldByRemainders, Zenon DEF Content

LEMMA ContentAfter ==
    ASSUME readpos' \in Place, writepos' \in Place
    PROVE  Content' = Held(buff', readpos', writepos')
BY HeldByRemainders, Zenon DEF Content

-----------------------------------------------------------------------------
\* What kbd_rawbuff_insert() does to the array, ...
Stored(b, w, c, d) == d = [b EXCEPT ![w] = c]

\* ... and to the content.
LEMMA InsertAppends ==
    ASSUME NEW T, NEW b \in [Place -> T], NEW c \in T, NEW r \in Place, NEW w \in Place,
           NEW v \in Place, v = After(w), v # r, NEW d \in [Place -> T], Stored(b, w, c, d)
    PROVE  /\ Held(d, r, v) = Append(Held(b, r, w), c)
           /\ Len(Held(b, r, w)) < RingSize - 1
<1>1. RingSize \in Nat /\ RingSize > 0
  BY RingSizePositive
<1>2. PICK n \in Nat : n = Length(r, w)
  <2>1. Length(r, w) \in Nat
    BY <1>1 DEF Length, Place
  <2> QED
    BY <2>1
<1>3. Length(r, v) = n + 1 /\ n + 1 < RingSize
  BY <1>1, <1>2 DEF Length, Place, After
<1>4. At(r, n + 1) = w
  BY <1>1, <1>2 DEF Length, At, Place
<1>5. ASSUME NEW i \in 1 .. n PROVE At(r, i) \in Place /\ At(r, i) # w
  <2>1. CASE r + i - 1 < RingSize
    BY <1>1, <1>2, <2>1 DEF Length, At, Place
  <2>2. CASE ~ (r + i - 1 < RingSize)
    BY <1>1, <1>2, <2>2 DEF Length, At, Place
  <2> QED
    BY <2>1, <2>2
<1>7. d[w] = c /\ \A p \in Place : p # w => d[p] = b[p]
  BY DEF Stored
<1>8. PICK s : s = [i \in 1 .. n |-> b[At(r, i)]]
  OBVIOUS
<1>9. s \in Seq(T) /\ Len(s) = n /\ \A i \in 1 .. n : s[i] = b[At(r, i)]
  <2>1. \A i \in 1 .. n : b[At(r, i)] \in T
    BY <1>5
  <2> QED
    BY <1>8, <2>1
<1>10. PICK e : e = [i \in 1 .. n + 1 |-> d[At(r, i)]]
  OBVIOUS
<1>11. ASSUME NEW i \in 1 .. n PROVE d[At(r, i)] = s[i]
  BY <1>5, <1>7, <1>9
<1>12. e = Append(s, c)
  <2>1. Append(s, c) \in Seq(T) /\ Len(Append(s, c)) = n + 1
    BY <1>9, AppendProperties
  <2>2. \A i \in 1 .. n : Append(s, c)[i] = s[i]
    BY <1>9, AppendProperties
  <2>3. Append(s, c)[n + 1] = c
    BY <1>9, AppendProperties
  <2>4. e \in Seq(T) /\ Len(e) = n + 1
    <3>1. \A i \in 1 .. n + 1 : d[At(r, i)] \in T
      BY <1>4, <1>7, <1>9, <1>11
    <3> QED
      BY <1>10, <3>1
  <2>5. \A i \in 1 .. n + 1 : e[i] = Append(s, c)[i]
    <3> SUFFICES ASSUME NEW i \in 1 .. n + 1 PROVE e[i] = Append(s, c)[i]
      OBVIOUS
    <3>1. CASE i = n + 1
      BY <1>4, <1>7, <1>10, <2>3, <3>1
    <3>2. CASE i # n + 1
      <4>1. i \in 1 .. n
        BY <3>2
      <4> QED
        BY <1>10, <1>11, <2>2, <4>1
    <3> QED
      BY <3>1, <3>2
  <2> QED
    BY <2>1, <2>4, <2>5
<1>13. Held(b, r, w) = s /\ Held(d, r, v) = e
  BY <1>2, <1>3, <1>8, <1>10, Zenon DEF Held
<1>14. n < RingSize - 1
  BY <1>1, <1>3
<1> QED
  BY ONLY <1>9, <1>12, <1>13, <1>14, Zenon

\* What kbd_get_char() does to it.
LEMMA TakeHead ==
    ASSUME NEW T, NEW b \in [Place -> T], NEW r \in Place, NEW w \in Place, r # w,
           NEW u \in Place, u = After(r)
    PROVE  /\ Held(b, r, w) # <<>>
           /\ Held(b, u, w) = Tail(Held(b, r, w))
<1>1. RingSize \in Nat /\ RingSize > 0
  BY RingSizePositive
<1>2. PICK n \in Nat : n = Length(u, w) /\ Length(r, w) = n + 1
  BY <1>1 DEF Length, Place, After
<1>3. \A i \in 1 .. n + 1 : At(r, i) \in Place
  BY <1>1, <1>2 DEF Length, At, Place, After
<1>4. \A i \in 1 .. n : At(u, i) = At(r, i + 1)
  BY <1>1, <1>2 DEF Length, At, Place, After
<1>5. PICK s : s = [i \in 1 .. n + 1 |-> b[At(r, i)]]
  OBVIOUS
<1>6. PICK e : e = [i \in 1 .. n |-> b[At(u, i)]]
  OBVIOUS
<1>7. s \in Seq(T) /\ Len(s) = n + 1 /\ s # <<>>
  BY <1>3, <1>5
<1>8. \A i \in 1 .. n : e[i] = s[i + 1]
  BY <1>4, <1>5, <1>6
<1>9. e \in Seq(T) /\ Len(e) = n
  <2>1. \A i \in 1 .. n : s[i + 1] \in T
    BY <1>7
  <2>2. e \in [1 .. n -> T]
    BY <1>6, <1>8, <2>1
  <2> QED
    BY <2>2
<1>10. e = Tail(s)
  <2>1. /\ Tail(s) \in Seq(T) /\ Len(Tail(s)) = n
        /\ \A i \in 1 .. n : Tail(s)[i] = s[i + 1]
    BY <1>7, HeadTailProperties
  <2>2. \A i \in 1 .. Len(e) : e[i] = Tail(s)[i]
    BY <1>8, <1>9, <2>1
  <2> QED
    BY <1>9, <2>1, <2>2, SeqEqual, Zenon
<1>11. Held(b, r, w) = s /\ Held(b, u, w) = e
  BY <1>2, <1>5, <1>6, Zenon DEF Held
<1> QED
  BY <1>7, <1>10, <1>11
-----------------------------------------------------------------------------
LEMMA RingInitial == KbdInit => RingInv /\ Fifo!FifoInit
<1> SUFFICES ASSUME KbdInit PROVE RingInv /\ Fifo!FifoInit
  OBVIOUS
<1>1. readpos = 0 /\ writepos = 0 /\ 0 \in Place
  BY RingSizePositive DEF KbdInit, Place
<1>2. stateShift \in BOOLEAN /\ stateCap \in BOOLEAN
  BY Zenon DEF KbdInit
<1>3. buff \in [Place -> Char \union {NIL}]
  BY DEF KbdInit, Place
<1>4. Content = <<>>
  <2>1. Content = Held(buff, readpos, writepos) /\ Length(readpos, writepos) = 0
    BY <1>1, ContentIsHeld DEF Length
  <2>2. Length(readpos, writepos) = 0 => Held(buff, readpos, writepos) = <<>>
    BY DEF Held
  <2> QED
    BY ONLY <2>1, <2>2, Zenon
<1> QED
  BY <1>1, <1>2, <1>3, <1>4, Zenon DEF RingInv, Fifo!FifoInit

\* Most steps leave the ring alone.
LEMMA RingStays ==
    ASSUME RingInv, UNCHANGED ring, stateShift' \in BOOLEAN, stateCap' \in BOOLEAN
    PROVE  RingInv' /\ UNCHANGED Content
<1>1. buff' = buff /\ readpos' = readpos /\ writepos' = writepos
  BY DEF ring
<1>2. RingInv'
  BY <1>1, Zenon DEF RingInv
<1>3. Content' = Content
  BY <1>1, Zenon DEF Content
<1> QED
  BY <1>2, <1>3

LEMMA InsertStep ==
    ASSUME RingInv, NEW c \in Char, Insert(c), UNCHANGED states
    PROVE  RingInv' /\ (UNCHANGED Content \/ Fifo!Put(c))
<1>1. stateShift' \in BOOLEAN /\ stateCap' \in BOOLEAN
  BY DEF states, RingInv
<1>2. CASE RingFull
  BY <1>1, <1>2, RingStays DEF Insert
<1>3. CASE ~ RingFull
  <2>1. PICK v : v = After(writepos)
    OBVIOUS
  <2>2. v = (writepos + 1) % RingSize
    BY <2>1, NextPlace, Zenon DEF RingInv
  <2>3. v \in Place
    BY <2>1, RingSizePositive DEF RingInv, Place, After
  <2>4. v # readpos /\ buff' = [buff EXCEPT ![writepos] = c] /\ writepos' = v
        /\ readpos' = readpos
    BY ONLY <1>3, <2>2, Insert(c), Zenon DEF Insert, RingFull
  <2>5. RingInv'
    BY <1>1, <2>3, <2>4 DEF RingInv
  <2>6. /\ Held(buff', readpos, v) = Append(Held(buff, readpos, writepos), c)
        /\ Len(Held(buff, readpos, writepos)) < RingSize - 1
    <3>1. PICK T : T = Char \union {NIL}
      OBVIOUS
    <3>2. PICK b \in [Place -> T], d \in [Place -> T], r \in Place, w \in Place :
              b = buff /\ d = buff' /\ r = readpos /\ w = writepos
      <4>1. buff' \in [Place -> T]
        BY <2>4, <3>1 DEF RingInv
      <4> QED
        BY <3>1, <4>1 DEF RingInv
    <3>3. c \in T /\ Stored(b, w, c, d) /\ v # r /\ v = After(w)
      BY <2>1, <2>4, <3>1, <3>2 DEF Stored
    <3>4. Held(d, r, v) = Append(Held(b, r, w), c) /\ Len(Held(b, r, w)) < RingSize - 1
      BY ONLY <2>3, <3>2, <3>3, InsertAppends, SMTT(40)
    <3> QED
      BY ONLY <3>2, <3>4, Zenon
  <2>7. Content = Held(buff, readpos, writepos)
    BY ContentIsHeld DEF RingInv
  <2>8. Content' = Held(buff', readpos', writepos')
    BY <2>5, ContentAfter DEF RingInv
  <2>9. Fifo!Put(c)
    BY ONLY <2>4, <2>6, <2>7, <2>8, Zenon DEF Fifo!Put
  <2> QED
    BY <2>5, <2>9
<1> QED
  BY <1>2, <1>3

LEMMA TakeStep ==
    ASSUME RingInv, GetTake
    PROVE  RingInv' /\ (UNCHANGED Content \/ Fifo!Take)
<1>1. CASE writepos = readpos
  <2>1. UNCHANGED ring /\ UNCHANGED <<stateShift, stateCap>>
    BY <1>1, Zenon DEF GetTake, kbdVars, states
  <2> QED
    BY <2>1, RingStays DEF RingInv
<1>2. CASE writepos # readpos
  <2>1. PICK u : u = After(readpos)
    OBVIOUS
  <2>2. u = (readpos + 1) % RingSize
    BY <2>1, NextPlace, Zenon DEF RingInv
  <2>3. u \in Place
    BY <2>1, RingSizePositive DEF RingInv, Place, After
  <2>4. readpos' = u /\ UNCHANGED <<buff, writepos, stateShift, stateCap>>
    BY ONLY <1>2, <2>2, GetTake, Zenon DEF GetTake, states
  <2>5. RingInv'
    BY <2>3, <2>4 DEF RingInv
  <2>6. /\ Held(buff, readpos, writepos) # <<>>
        /\ Held(buff, u, writepos) = Tail(Held(buff, readpos, writepos))
    BY <1>2, <2>1, <2>3, TakeHead DEF RingInv
  <2>7. Content = Held(buff, readpos, writepos)
    BY ContentIsHeld DEF RingInv
  <2>8. Content' = Held(buff', readpos', writepos')
    BY <2>5, ContentAfter DEF RingInv
  <2>9. Fifo!Take
    BY ONLY <2>4, <2>6, <2>7, <2>8, Zenon DEF Fifo!Take
  <2> QED
    BY <2>5, <2>9
<1> QED
  BY <1>1, <1>2

LEMMA InterruptStep ==
    ASSUME RingInv, KbdInterrupt
    PROVE  RingInv' /\ (UNCHANGED Content \/ \E c \in Char : Fifo!Put(c))
<1>1. ASSUME NEW down \in BOOLEAN, ShiftKey(down)
      PROVE  RingInv' /\ UNCHANGED Content
  <2>1. stateShift' \in BOOLEAN /\ stateCap' \in BOOLEAN /\ UNCHANGED ring
    BY <1>1, Zenon DEF ShiftKey, RingInv
  <2> QED
    BY <2>1, RingStays
<1>2. ASSUME NEW down \in BOOLEAN, CapKey(down)
      PROVE  RingInv' /\ UNCHANGED Content
  <2>1. stateShift' \in BOOLEAN /\ stateCap' \in BOOLEAN /\ UNCHANGED ring
    BY <1>2, Zenon DEF CapKey, RingInv
  <2> QED
    BY <2>1, RingStays
<1>3. ASSUME NEW k \in Keys, KeyDown(k)
      PROVE  RingInv' /\ (UNCHANGED Content \/ \E c \in Char : Fifo!Put(c))
  <2>1. CASE k \in Mute
    <3>1. UNCHANGED ring /\ UNCHANGED states
      BY <1>3, <2>1, Zenon DEF KeyDown
    <3> QED
      BY <3>1, RingStays DEF RingInv, states
  <2>2. CASE k \notin Mute
    <3>1. PICK up \in BOOLEAN :
              up = IF k \in Letters THEN stateShift # stateCap ELSE stateShift
      BY Zenon DEF RingInv
    <3>2. CharOf(k) = [key |-> k, upper |-> up]
      BY <3>1, Zenon DEF CharOf
    <3>3. CharOf(k) \in Char
      BY <2>2, <3>1, <3>2 DEF Char
    <3>4. Insert(CharOf(k)) /\ UNCHANGED states
      BY <1>3, <2>2, Zenon DEF KeyDown
    <3> QED
      BY <3>3, <3>4, InsertStep
  <2> QED
    BY <2>1, <2>2
<1> QED
  BY <1>1, <1>2, <1>3, Zenon DEF KbdInterrupt

\* Every step of the keyboard is a step of the queue, or nothing to it.
LEMMA RingStep ==
    ASSUME RingInv, [KbdNext]_allVars
    PROVE  RingInv' /\ [Fifo!FifoNext]_Content
<1>1. CASE UNCHANGED kbdVars
  <2>1. UNCHANGED ring /\ UNCHANGED <<stateShift, stateCap>>
    BY <1>1, Zenon DEF kbdVars, states
  <2> QED
    BY <2>1, RingStays DEF RingInv
<1>2. CASE GetCheck \/ GetWait
  <2>1. UNCHANGED ring /\ UNCHANGED <<stateShift, stateCap>>
    BY <1>2, Zenon DEF GetCheck, GetWait, states
  <2> QED
    BY <2>1, RingStays DEF RingInv
<1>3. CASE GetTake
  BY <1>3, TakeStep DEF Fifo!FifoNext
<1>4. CASE KbdInterrupt
  BY <1>4, InterruptStep DEF Fifo!FifoNext
<1> QED
  BY <1>1, <1>2, <1>3, <1>4, Zenon DEF KbdNext, KbdSched, GetChar, allVars

\* Whatever the size of the ring, and in whatever order keys, the reader and
\* the scheduler take their steps: the characters come out in the order in
\* which they went in, none twice, and none is lost but to a full ring.
THEOREM RingIsFifoHolds == KbdSpec => RingIsFifo
<1>1. KbdSpec => []RingInv
  <2>1. RingInv /\ [KbdNext]_allVars => RingInv'
    BY RingStep
  <2> QED
    BY RingInitial, <2>1, PTL DEF KbdSpec
<1>2. RingInv /\ [KbdNext]_allVars => [Fifo!FifoNext]_Content
  BY RingStep
<1> QED
  BY RingInitial, <1>1, <1>2, PTL DEF KbdSpec, RingIsFifo, Fifo!FifoSpec
-----------------------------------------------------------------------------
(* The reader finds a character after sem_wait().                          *)

LEMMA ReturnFate ==
    ASSUME NEW q, NEW i, NEW r, InterruptReturn(q, i, r)
    PROVE  fate' # "no_char" \/ UNCHANGED fate
BY DEF InterruptReturn, BadContext

\* Only kbd_get_char() asserts that there is a character.
LEMMA OthersAssertElse ==
    ASSUME SemTick \/ SchedStep \/ (\E t \in Task : SemStep(t))
           \/ \E s \in WaitQueues : SemSignal(s)
    PROVE  fate' # "no_char" \/ UNCHANGED fate
<1>1. CASE SemTick
  <2>1. CASE \E f \in Fates \ {"ok", "no_char"} : Fail(f)
    BY <2>1 DEF Fail
  <2>2. CASE ~ \E f \in Fates \ {"ok", "no_char"} : Fail(f)
    <3>1. InterruptReturn(TickQueue, TickInfo, Spent)
      BY <1>1, <2>2 DEF SemTick, Tick, Fates
    <3> QED
      BY <3>1, ReturnFate
  <2> QED
    BY <2>1, <2>2
<1>2. ASSUME NEW t \in Task, SemSchedule(t) PROVE fate' # "no_char" \/ UNCHANGED fate
  BY <1>2 DEF SemSchedule, Schedule, SchedulePick, ScheduleSwitch, BadContext, Fail
<1>3. CASE BootDone \/ IdleLoop
  BY <1>3 DEF BootDone, IdleLoop, IdleWalk, IdleSpin, ReapUnlink, ReapStack, ReapDesc,
     ReapPgd, Fail
<1>4. ASSUME NEW t \in Task, KernelThread(t) PROVE UNCHANGED fate
  BY <1>4 DEF KernelThread, KtAlloc, KtInsert, KtPri, KtSlice, KtSliceInit, KtInherit,
     KtContext
<1>5. ASSUME NEW t \in Task, Exit(t) \/ ExitReturned(t)
      PROVE  fate' # "no_char" \/ UNCHANGED fate
  BY <1>5 DEF Exit, ExitReturned, Fail
<1>6. ASSUME NEW t \in Task, SemStep(t) PROVE fate' # "no_char" \/ UNCHANGED fate
  BY <1>6 DEF SemStep, SemBlock, WaitEnter, SemLink, WaitSet, WaitLink, SemReturn, vars, Fail
<1>7. ASSUME NEW s \in WaitQueues, SemSignal(s) PROVE fate' # "no_char" \/ UNCHANGED fate
  <2>1. CASE WakeFirst(s)
    <3>1. CASE Fail("not_in_list")
      BY <3>1 DEF Fail
    <3>2. CASE InterruptReturn(Woken(FirstWaiter(s)), info, TRUE)
      BY <3>2, ReturnFate
    <3> QED
      BY <2>1, <3>1, <3>2 DEF WakeFirst
  <2>2. CASE ~ WakeFirst(s)
    BY <1>7, <2>2 DEF SemSignal, Fail, vars
  <2> QED
    BY <2>1, <2>2
<1> QED
  BY <1>1, <1>2, <1>3, <1>4, <1>5, <1>6, <1>7 DEF SchedStep

\* Wherever the reader is past the test that it has to pass, the ring is not
\* empty: it has found a character, or been woken for one.
Supplied ==
    /\ fate # "no_char"
    /\ getAt = "take" /\ semAt[Reader] = "out" => writepos # readpos
    /\ semAt[Reader] = "wait" /\ Reader \notin ToSet(queue["wait"]) => writepos # readpos

ReaderInv == AwakeInv /\ RingInv /\ (stray \/ Supplied)

LEMMA ReaderIsTask == Reader \in Task /\ KbdSem \in WaitQueues
  BY KbdAssumption, SchedAssumption DEF Task

\* The scheduler's steps, and those of a task inside sem_wait().
LEMMA KbdSchedSupplied ==
    ASSUME ReaderInv, KbdSched
    PROVE  ReaderInv'
<1>1. /\ UNCHANGED <<getAt, readpos, writepos>> /\ RingInv'
      /\ SemTick \/ SchedStep \/ \E t \in Task : SemStep(t)
  <2>1. UNCHANGED <<readpos, writepos, stateShift, stateCap, getAt>> /\ UNCHANGED ring
    BY DEF KbdSched, kbdVars, ring, states
  <2> QED
    BY <2>1, RingStays DEF KbdSched, ReaderInv, RingInv
<1>2. /\ stray => stray'
      /\ fate' # "no_char" \/ UNCHANGED fate
  BY <1>1, SchedRuns, OthersAssertElse
<1>3. semAt \in [Task -> {"out", "block", "wait"}]
  BY DEF ReaderInv, AwakeInv, SemInv, WaiterInv, SemTypeOK
<1>4. CASE SemTick \/ SchedStep
  <2>1. AwakeInv' /\ SleepersStay /\ UNCHANGED semAt
    BY <1>4, TickAwake, SchedAwake DEF ReaderInv, SemTick, SchedStep, SemSchedule, semVars
  <2> QED
    BY <1>1, <1>2, <2>1 DEF ReaderInv, Supplied, SleepersStay
<1>5. ASSUME NEW t \in Task, SemLink(t) PROVE ReaderInv'
  <2>1. AwakeInv' /\ SleepersStay /\ UNCHANGED semAt
    BY <1>5, LinkAwake DEF ReaderInv, SemLink, semVars
  <2> QED
    BY <1>1, <1>2, <2>1 DEF ReaderInv, Supplied, SleepersStay
<1>6. ASSUME NEW t \in Task, SemBlock(t) PROVE ReaderInv'
  <2>1. /\ AwakeInv' /\ semAt' = [semAt EXCEPT ![t] = "wait"]
        /\ ToSet(queue'["wait"]) = ToSet(queue["wait"]) \union {t}
    BY <1>6, BlockAwake DEF ReaderInv, SemBlock
  <2> QED
    BY <1>1, <1>2, <1>3, <2>1, ReaderIsTask DEF ReaderInv, Supplied
<1>7. ASSUME NEW t \in Task, SemReturn(t) PROVE ReaderInv'
  <2>1. /\ AwakeInv' /\ semAt' = [semAt EXCEPT ![t] = "out"] /\ semAt[t] = "wait"
        /\ UNCHANGED queue /\ (stray' \/ t \notin ToSet(queue["wait"]))
    BY <1>7, BackAwake DEF ReaderInv, SemReturn, Returned, vars
  <2> QED
    BY <1>1, <1>2, <1>3, <2>1, ReaderIsTask DEF ReaderInv, Supplied
<1> QED
  BY <1>1, <1>4, <1>5, <1>6, <1>7 DEF SemStep

\* kbd_get_char(): it tests the ring, or takes no ticket, because kbd_sem never
\* has one to give.
LEMMA GetCharSupplied ==
    ASSUME ReaderInv, GetChar
    PROVE  ReaderInv'
<1>1. RingInv'
  <2>1. CASE GetTake
    BY <2>1, TakeStep DEF ReaderInv
  <2>2. CASE GetCheck \/ GetWait
    BY <2>2, RingStays DEF GetCheck, GetWait, states, ReaderInv, RingInv
  <2> QED
    BY <2>1, <2>2 DEF GetChar
<1>2. CASE UNCHANGED <<vars, semVars>>
  <2>1. UNCHANGED <<queue, fate, semAt, stray>>
    BY <1>2 DEF vars, semVars
  <2>2. AwakeInv'
    <3>1. SemInv'
      BY <1>2, SemNextInv DEF ReaderInv, AwakeInv
    <3>2. UNCHANGED <<queue, cpu, pc, wlist, semAt, stray>>
      BY <1>2 DEF vars, semVars
    <3> QED
      BY <3>1, <3>2 DEF ReaderInv, AwakeInv, Awake
  <2>3. CASE GetCheck
    BY <1>1, <2>1, <2>2, <2>3 DEF GetCheck, ring, ReaderInv, Supplied
  <2>4. CASE GetTake /\ writepos # readpos
    <3>1. semAt[Reader] = "out" /\ getAt' = "check"
      BY <2>4 DEF GetTake, InGetChar
    <3> QED
      BY <1>1, <2>1, <2>2, <3>1 DEF ReaderInv, Supplied
  <2>5. CASE GetWait
    <3>1. semAt[Reader] = "out" /\ semAt'[Reader] # "out"
      <4>1. /\ semAt[Reader] = "out"
            /\ semAt' = [semAt EXCEPT ![Reader] = IF ticket[KbdSem] > 0 THEN "out" ELSE "block"]
        BY <2>5 DEF GetWait, SemWait, MayWait, TakeTicket
      <4>2. ticket[KbdSem] \in Int /\ ticket[KbdSem] <= 0
            /\ semAt \in [Task -> {"out", "block", "wait"}]
        BY KbdAssumption DEF ReaderInv, AwakeInv, SemInv, WaiterInv, SemTypeOK
      <4> QED
        BY <4>1, <4>2, ReaderIsTask
    <3> QED
      BY <2>1, <3>1
  <2>6. CASE GetTake /\ writepos = readpos
    <3>1. Fail("no_char") /\ fate = "ok"
      BY <2>6 DEF GetTake, InGetChar, Running
    <3> QED
      BY <2>1, <3>1 DEF Fail
  <2> QED
    BY <2>3, <2>4, <2>5, <2>6 DEF GetChar
<1>3. CASE GetWait
  <2>1. /\ semAt[Reader] = "out"
        /\ semAt' = [semAt EXCEPT ![Reader] = IF ticket[KbdSem] > 0 THEN "out" ELSE "block"]
        /\ UNCHANGED <<stray, vars>> /\ UNCHANGED <<readpos, writepos>>
    BY <1>3 DEF GetWait, SemWait, MayWait, TakeTicket, ring
  <2>2. ticket[KbdSem] \in Int /\ ticket[KbdSem] <= 0
        /\ semAt \in [Task -> {"out", "block", "wait"}]
    BY KbdAssumption DEF ReaderInv, AwakeInv, SemInv, WaiterInv, SemTypeOK
  <2>3. semAt'[Reader] = "block"
    BY <2>1, <2>2, ReaderIsTask
  <2>4. AwakeInv'
    BY <1>3, TakeAwake, ReaderIsTask DEF GetWait, ReaderInv
  <2> QED
    BY <1>1, <2>1, <2>3, <2>4 DEF ReaderInv, Supplied, vars
<1>4. CASE GetTake /\ writepos = readpos
  <2>1. Fail("no_char") /\ UNCHANGED semVars /\ semAt[Reader] = "out" /\ getAt = "take"
    BY <1>4 DEF GetTake, InGetChar
  <2>2. stray
    BY <1>4, <2>1 DEF ReaderInv, Supplied
  <2>3. SemInv'
    BY <2>1, FailFrame DEF semVars, Fates, ReaderInv, AwakeInv, SemInv, WaiterInv, SemTypeOK
  <2>4. AwakeInv'
    BY <2>1, <2>3, AwakeFail DEF semVars, Fates, ReaderInv
  <2> QED
    BY <1>1, <2>1, <2>2, <2>4 DEF ReaderInv, semVars
<1> QED
  BY <1>2, <1>3, <1>4 DEF GetChar, GetCheck, GetTake

\* kbd_int() signals only after it has put a character in the ring.
LEMMA KeySupplied ==
    ASSUME ReaderInv, KbdInterrupt
    PROVE  ReaderInv'
<1>1. RingInv' /\ UNCHANGED getAt
  BY InterruptStep DEF ReaderInv, KbdInterrupt
<1>2. CASE UNCHANGED <<vars, semVars>> /\ UNCHANGED ring
  <2>1. UNCHANGED <<queue, cpu, pc, wlist, fate, semAt, stray, readpos, writepos>>
    BY <1>2 DEF vars, semVars, ring
  <2>2. SemInv'
    BY <1>2, SemNextInv DEF ReaderInv, AwakeInv
  <2> QED
    BY <1>1, <2>1, <2>2 DEF ReaderInv, AwakeInv, Awake, Supplied
<1>3. ASSUME NEW k \in Keys, Insert(CharOf(k)), ~ RingFull PROVE ReaderInv'
  <2>1. /\ SemSignal(KbdSem) /\ writepos' = (writepos + 1) % RingSize
        /\ UNCHANGED readpos /\ UNCHANGED <<stray, semAt>>
    BY <1>3 DEF Insert, KbdSignal, SemSignal
  <2>2. writepos' # readpos'
    BY <1>3, <2>1 DEF RingFull
  <2>3. AwakeInv'
    BY <2>1, SignalAwake, ReaderIsTask DEF ReaderInv
  <2>4. fate' # "no_char" \/ UNCHANGED fate
    BY <2>1, OthersAssertElse, ReaderIsTask
  <2> QED
    BY <1>1, <2>1, <2>2, <2>3, <2>4 DEF ReaderInv, Supplied
<1> QED
  BY <1>2, <1>3 DEF KbdInterrupt, ShiftKey, CapKey, KeyDown, Insert, ring

LEMMA ReaderNext == ReaderInv /\ [KbdNext]_allVars => ReaderInv'
<1> SUFFICES ASSUME ReaderInv, [KbdNext]_allVars PROVE ReaderInv'
  OBVIOUS
<1>1. CASE UNCHANGED allVars
  <2>1. /\ UNCHANGED <<queue, cpu, pc, wlist, fate, semAt, stray, readpos, writepos, getAt>>
        /\ UNCHANGED <<vars, semVars>> /\ UNCHANGED ring /\ UNCHANGED <<stateShift, stateCap>>
    BY <1>1 DEF allVars, vars, semVars, kbdVars, ring, states
  <2>2. SemInv' /\ RingInv'
    BY <2>1, SemNextInv, RingStays DEF ReaderInv, AwakeInv, RingInv
  <2> QED
    BY <2>1, <2>2 DEF ReaderInv, AwakeInv, Awake, Supplied
<1> QED
  BY <1>1, KbdSchedSupplied, GetCharSupplied, KeySupplied DEF KbdNext

\* kbd_get_char() tests the ring before it sleeps and only asserts afterwards:
\* for any number of tasks and a ring of any size, the assertion holds whenever
\* sleepers run only after they were woken.
THEOREM NoCharOnlyIfStrayHolds == KbdSpec => []NoCharOnlyIfStray
<1>1. KbdInit => ReaderInv
  <2>1. KbdInit => fate = "ok" /\ semAt = [t \in Task |-> "out"] /\ getAt = "check"
    BY DEF KbdInit, SemInit, Init
  <2> QED
    BY <2>1, AwakeInitially, RingInitial, ReaderIsTask DEF KbdInit, ReaderInv, Supplied
<1>2. ReaderInv => NoCharOnlyIfStray
  BY DEF ReaderInv, Supplied, NoCharOnlyIfStray
<1> QED
  BY <1>1, <1>2, ReaderNext, PTL DEF KbdSpec
-----------------------------------------------------------------------------
(***************************************************************************)
(* LineAsShown of LineEditor for buffers of every size and any commands.   *)
(***************************************************************************)

\* What the buffer holds, but for NULs.
Chars == Typed \union {SP, NL}

\* The buffer holds what is shown, without a NUL in it; behind it may be one
\* character that was deleted, and then there are NULs.
EditorInv ==
    /\ cmdPos \in Nat /\ cmdPos <= BuffSize
    /\ shown \in Seq(Chars) /\ Len(shown) = cmdPos
    /\ DOMAIN cmdBuff = 0 .. BuffSize - 1
    /\ \A i \in 0 .. cmdPos - 1 : cmdBuff[i] = shown[i + 1]
    /\ \A i \in cmdPos + 1 .. BuffSize - 1 : cmdBuff[i] = NUL
    /\ LineAsShown

LEMMA Codes ==
    /\ NUL \notin Chars /\ NL \in Chars /\ SP \in Chars /\ Typed \subseteq Chars
    /\ BuffSize \in Nat /\ BuffSize > 1
  BY EditorAssumption DEF Chars

LEMMA CommandChars ==
    ASSUME NEW k \in DOMAIN Commands
    PROVE  Commands[k] \in Seq(Chars)
  BY EditorAssumption DEF Chars

\* r is b with the characters of s from position p on.
IsPut(b, p, s, r) ==
    /\ DOMAIN r = 0 .. BuffSize - 1
    /\ \A i \in 0 .. p - 1 : r[i] = b[i]
    /\ \A i \in p .. p + Len(s) - 1 : r[i] = s[i - p + 1]
    /\ \A i \in p + Len(s) .. BuffSize - 1 : r[i] = b[i]

LEMMA PutChars ==
    ASSUME NEW b, DOMAIN b = 0 .. BuffSize - 1, NEW p \in Nat, NEW s \in Seq(Chars),
           p + Len(s) <= BuffSize
    PROVE  IsPut(b, p, s, Put(b, p, s))
  BY Codes DEF Put, IsPut

\* Characters put at the position and shown.
LEMMA PutShown ==
    ASSUME EditorInv, NEW s \in Seq(Chars), s # <<>>,
           cmdPos + Len(s) <= BuffSize, editorFate = "ok",
           cmdBuff' = Put(cmdBuff, cmdPos, s), cmdPos' = cmdPos + Len(s),
           shown' = shown \o s, NextKey, UNCHANGED editorFate
    PROVE  EditorInv'
<1>1. /\ cmdPos' \in Nat /\ cmdPos' <= BuffSize
      /\ shown' \in Seq(Chars) /\ Len(shown') = cmdPos'
  <2>1. shown \in Seq(Chars) /\ Len(shown) = cmdPos /\ cmdPos \in Nat
    BY DEF EditorInv
  <2>2. Len(s) \in Nat /\ shown \o s \in Seq(Chars)
        /\ Len(shown \o s) = Len(shown) + Len(s)
    BY <2>1, LenProperties, ConcatProperties, Zenon
  <2> QED
    BY <2>1, <2>2
<1>2. /\ DOMAIN cmdBuff' = 0 .. BuffSize - 1
      /\ \A i \in 0 .. cmdPos - 1 : cmdBuff'[i] = cmdBuff[i]
      /\ \A i \in cmdPos .. cmdPos + Len(s) - 1 : cmdBuff'[i] = s[i - cmdPos + 1]
      /\ \A i \in cmdPos + Len(s) .. BuffSize - 1 : cmdBuff'[i] = cmdBuff[i]
  <2>1. /\ DOMAIN cmdBuff = 0 .. BuffSize - 1 /\ cmdPos \in Nat
        /\ cmdPos + Len(s) <= BuffSize
    BY Codes DEF EditorInv
  <2> QED
    <3>1. IsPut(cmdBuff, cmdPos, s, cmdBuff')
      BY <2>1, PutChars, Zenon
    <3> QED
      BY ONLY <3>1, Zenon DEF IsPut
<1>3. ASSUME NEW i \in 0 .. cmdPos' - 1 PROVE cmdBuff'[i] = shown'[i + 1]
  <2>1. CASE i < cmdPos
    BY <1>2, <2>1 DEF EditorInv
  <2>2. CASE i >= cmdPos
    BY <1>2, <2>2 DEF EditorInv
  <2> QED
    BY <2>1, <2>2 DEF EditorInv
<1>4. \A i \in cmdPos' + 1 .. BuffSize - 1 : cmdBuff'[i] = NUL
  BY <1>2 DEF EditorInv
<1> QED
  BY <1>1, <1>2, <1>3, <1>4 DEF EditorInv, LineAsShown, NextKey

LEMMA BackspaceStep == ASSUME EditorInv, Backspace PROVE EditorInv'
<1>1. CASE cmdPos = 0
  BY <1>1 DEF Backspace, EditorInv, LineAsShown, NextKey
<1>2. CASE cmdPos # 0
  <2>1. /\ cmdBuff' = [cmdBuff EXCEPT ![cmdPos] = NUL] /\ cmdPos' = cmdPos - 1
        /\ shown' = Front(shown) /\ NextKey /\ editorFate = "ok" /\ UNCHANGED editorFate
    BY <1>2 DEF Backspace, Erase
  <2>2. /\ shown' \in Seq(Chars) /\ Len(shown') = cmdPos'
        /\ \A i \in 1 .. cmdPos - 1 : shown'[i] = shown[i]
    BY <1>2, <2>1 DEF EditorInv, Front
  <2>3. /\ DOMAIN cmdBuff' = 0 .. BuffSize - 1
        /\ \A i \in 0 .. cmdPos' - 1 : cmdBuff'[i] = shown'[i + 1]
        /\ \A i \in cmdPos' + 1 .. BuffSize - 1 : cmdBuff'[i] = NUL
    BY <1>2, <2>1, <2>2, Codes DEF EditorInv
  <2>4. cmdPos' \in Nat /\ cmdPos' <= BuffSize
    BY <1>2, <2>1, Codes DEF EditorInv
  <2> QED
    BY <2>1, <2>2, <2>3, <2>4 DEF EditorInv, LineAsShown, NextKey
<1> QED
  BY <1>1, <1>2

LEMMA TypeStep == ASSUME EditorInv, NEW c \in Typed, Type(c) PROVE EditorInv'
<1>1. /\ <<c>> \in Seq(Chars) /\ <<c>> # <<>> /\ Len(<<c>>) = 1
      /\ shown \o <<c>> = Append(shown, c)
  <2>1. c \in Chars /\ shown \in Seq(Chars)
    BY Codes DEF EditorInv
  <2>2. <<c>> \in Seq(Chars) /\ <<c>> # <<>> /\ Len(<<c>>) = 1
    BY <2>1
  <2>3. shown \o <<c>> = Append(shown, c)
    BY <2>1, AppendIsConcat
  <2> QED
    BY <2>2, <2>3
<1>2. cmdPos + Len(<<c>>) <= BuffSize /\ editorFate = "ok"
  BY <1>1, Codes DEF Type, EditorInv
<1>3. /\ cmdBuff' = Put(cmdBuff, cmdPos, <<c>>) /\ cmdPos' = cmdPos + Len(<<c>>)
      /\ shown' = shown \o <<c>> /\ NextKey /\ UNCHANGED editorFate
  BY ONLY <1>1, Type(c) DEF Type
<1> QED
  BY ONLY <1>1, <1>2, <1>3, PutShown, EditorInv

LEMMA TabStep == ASSUME EditorInv, Tab PROVE EditorInv'
<1>1. CASE Completions = {}
  BY <1>1 DEF Tab, EditorInv, LineAsShown, NextKey
<1>2. CASE Completions # {}
  <2>1. PICK k \in Completions : \A l \in Completions : k <= l
    <3>1. Completions \subseteq Nat
      BY EditorAssumption DEF Completions
    <3> QED
      BY <1>2, <3>1, LeastElement
  <2>2. PICK m \in Completions :
            LET name == Commands[m]
                rest == SubSeq(name, cmdPos + 1, Len(name)) \o <<SP>>
            IN  /\ cmdBuff' = Put(cmdBuff, cmdPos, rest)
                /\ cmdPos' = Len(name) + 1
                /\ shown' = shown \o rest
    BY <1>2, <2>1 DEF Tab
  <2>3. PICK name \in Seq(Chars) : name = Commands[m] /\ Len(name) < BuffSize
    BY CommandChars, EditorAssumption DEF Completions
  <2>4. cmdPos <= Len(name)
    BY <2>3 DEF Completions, IsPrefix, Line, EditorInv
  <2>5. PICK rest : rest = SubSeq(name, cmdPos + 1, Len(name)) \o <<SP>>
    OBVIOUS
  <2>6. rest \in Seq(Chars) /\ rest # <<>> /\ Len(rest) = Len(name) - cmdPos + 1
    <3>1. PICK end : end = SubSeq(name, cmdPos + 1, Len(name))
      OBVIOUS
    <3>2. end \in Seq(Chars) /\ Len(end) = Len(name) - cmdPos
      BY <2>4, <3>1 DEF EditorInv
    <3>3. <<SP>> \in Seq(Chars) /\ Len(<<SP>>) = 1
      BY Codes
    <3>4. rest \in Seq(Chars) /\ Len(rest) = Len(end) + 1
      BY ONLY <2>5, <3>1, <3>2, <3>3, ConcatProperties
    <3> QED
      BY <2>3, <3>2, <3>4
  <2>7. /\ cmdPos + Len(rest) <= BuffSize /\ cmdBuff' = Put(cmdBuff, cmdPos, rest)
        /\ cmdPos' = cmdPos + Len(rest) /\ shown' = shown \o rest
    BY <2>2, <2>3, <2>5, <2>6, Codes DEF EditorInv
  <2> QED
    BY <1>2, <2>6, <2>7, PutShown DEF Tab
<1> QED
  BY <1>1, <1>2

\* The string in the buffer is the line on the screen: the end of line takes the
\* place of the character that was deleted.
LEMMA LineIsShown ==
    ASSUME EditorInv, cmdPos + 1 < BuffSize
    PROVE  LineTyped = Append(shown, NL)
<1>1. PICK b : b = Put(cmdBuff, cmdPos, <<NL>>)
  OBVIOUS
<1>2. /\ DOMAIN b = 0 .. BuffSize - 1
      /\ \A i \in 0 .. cmdPos - 1 : b[i] = shown[i + 1]
      /\ b[cmdPos] = NL /\ b[cmdPos + 1] = NUL
  <2>1. <<NL>> \in Seq(Chars) /\ Len(<<NL>>) = 1 /\ <<NL>>[1] = NL
    BY Codes
  <2>2. /\ DOMAIN cmdBuff = 0 .. BuffSize - 1 /\ cmdPos \in Nat
        /\ cmdPos + Len(<<NL>>) <= BuffSize
    BY <2>1, Codes DEF EditorInv
  <2>3. IsPut(cmdBuff, cmdPos, <<NL>>, b)
    BY <1>1, <2>1, <2>2, PutChars, Zenon
  <2> QED
    BY <2>1, <2>2, <2>3, Codes DEF IsPut, EditorInv
<1>3. CString(b) = Append(shown, NL)
  <2>1. \A i \in 0 .. cmdPos : b[i] # NUL
    BY <1>2, Codes DEF EditorInv
  <2>2. PICK nuls : nuls = {i \in DOMAIN b : b[i] = NUL}
    OBVIOUS
  <2>3. cmdPos + 1 \in nuls /\ \A i \in nuls : cmdPos + 1 <= i /\ i \in Nat
    <3>1. cmdPos \in Nat /\ cmdPos + 1 \in 0 .. BuffSize - 1
      BY Codes DEF EditorInv
    <3>2. cmdPos + 1 \in nuls
      BY ONLY <1>2, <2>2, <3>1
    <3>3. ASSUME NEW i \in nuls PROVE cmdPos + 1 <= i /\ i \in Nat
      <4>1. i \in 0 .. BuffSize - 1 /\ i \notin 0 .. cmdPos
        BY ONLY <1>2, <2>1, <2>2, i \in nuls
      <4> QED
        BY ONLY <3>1, <4>1, Codes
    <3> QED
      BY ONLY <3>2, <3>3
  <2>4. PICK n \in nuls : n = (CHOOSE n1 \in nuls : \A i \in nuls : n1 <= i)
                          /\ \A i \in nuls : n <= i
    BY ONLY <2>3
  <2>4a. n = cmdPos + 1
    BY <2>3, <2>4 DEF EditorInv
  <2>5. Line(b, cmdPos + 1) = Append(shown, NL)
    <3>3. \A i \in 1 .. cmdPos + 1 : b[i - 1] = IF i <= cmdPos THEN shown[i] ELSE NL
      <4> SUFFICES ASSUME NEW i \in 1 .. cmdPos + 1
                   PROVE  b[i - 1] = IF i <= cmdPos THEN shown[i] ELSE NL
        OBVIOUS
      <4>1. CASE i <= cmdPos
        <5>1. i - 1 \in 0 .. cmdPos - 1 /\ i - 1 + 1 = i
          BY <4>1 DEF EditorInv
        <5> QED
          BY ONLY <1>2, <4>1, <5>1, Zenon
      <4>2. CASE ~ (i <= cmdPos)
        <5>1. i - 1 = cmdPos
          BY <4>2 DEF EditorInv
        <5> QED
          BY ONLY <1>2, <4>2, <5>1, Zenon
      <4> QED
        BY <4>1, <4>2
    <3>4. /\ Append(shown, NL) \in Seq(Chars) /\ Len(Append(shown, NL)) = cmdPos + 1
          /\ \A i \in 1 .. cmdPos + 1 :
                Append(shown, NL)[i] = IF i <= cmdPos THEN shown[i] ELSE NL
      BY Codes DEF EditorInv
    <3>5. /\ Line(b, cmdPos + 1) \in Seq(Chars) /\ Len(Line(b, cmdPos + 1)) = cmdPos + 1
          /\ \A i \in 1 .. cmdPos + 1 : Line(b, cmdPos + 1)[i] = b[i - 1]
      <4>1. \A i \in 1 .. cmdPos + 1 : b[i - 1] \in Chars
        BY <3>3, Codes DEF EditorInv
      <4> QED
        BY <4>1 DEF Line, EditorInv
    <3> QED
      BY ONLY <3>3, <3>4, <3>5, SeqEqual
  <2> QED
    BY <2>2, <2>4, <2>4a, <2>5 DEF CString
<1> QED
  BY <1>1, <1>3 DEF LineTyped

LEMMA EndOfLineStep == ASSUME EditorInv, EndOfLine PROVE EditorInv'
<1>1. lineShown' = Append(shown, NL) /\ parsed' = WordsOf(lineShown')
  BY LineIsShown DEF EndOfLine, InBounds
<1>2. ranCommand' # 0 => parsed'[1] = Commands[ranCommand']
  <2>1. ranCommand' = Called(parsed')
    BY DEF EndOfLine
  <2>2. PICK found : found = {k \in DOMAIN Commands : parsed' # <<>> /\ Commands[k] = parsed'[1]}
    OBVIOUS
  <2>3. found # {} => \E k \in found : \A l \in found : k <= l
    <3>1. found \subseteq Nat
      BY <2>2, EditorAssumption
    <3> QED
      BY <3>1, LeastElement
  <2> QED
    BY <2>1, <2>2, <2>3 DEF Called
<1> QED
  BY <1>1, <1>2, Codes DEF EndOfLine, EditorInv, EmptyBuff, LineAsShown

\* Behind the arrays nothing is said but which line was shown.
LEMMA OverrunStep ==
    ASSUME EditorInv, KeyBehindBuffer \/ LineTooLong
    PROVE  EditorInv'
<1>1. \/ Len(shown) + 2 > BuffSize
      \/ ~ WordsFit(Append(shown, NL))
  <2>1. CASE cmdPos + 1 < BuffSize
    <3>1. LineTooLong /\ ~ WordsFit(LineTyped)
      BY <2>1, Codes DEF KeyBehindBuffer, LineTooLong, InBounds, EditorInv
    <3> QED
      BY <2>1, <3>1, LineIsShown
  <2>2. CASE ~ (cmdPos + 1 < BuffSize)
    BY <2>2, Codes DEF EditorInv
  <2> QED
    BY <2>1, <2>2
<1>2. UNCHANGED <<cmdBuff, cmdPos, shown, lineShown, parsed, ranCommand>>
  BY DEF KeyBehindBuffer, LineTooLong, Overrun
<1> QED
  BY <1>1, <1>2 DEF EditorInv, LineAsShown

\* What is run is what the screen showed, for any commands and every way to
\* type, erase and complete a line; and for buffers and argv of every size, they
\* are overrun only by a line that is longer, or has more words, than they hold.
THEOREM LineAsShownHolds == EditorSpec => []LineAsShown
<1>1. EditorInit => EditorInv
  BY Codes DEF EditorInit, EditorInv, EmptyBuff, LineAsShown
<1>2. EditorInv /\ [EditorNext]_editorVars => EditorInv'
  <2>1. ASSUME EditorInv, UNCHANGED editorVars PROVE EditorInv'
    BY <2>1 DEF EditorInv, editorVars, LineAsShown
  <2> QED
    BY <2>1, BackspaceStep, TabStep, TypeStep, EndOfLineStep, OverrunStep DEF EditorNext
<1>3. EditorInv => LineAsShown
  BY DEF EditorInv
<1> QED
  BY <1>1, <1>2, <1>3, PTL DEF EditorSpec
-----------------------------------------------------------------------------
(***************************************************************************)
(* ModulesAccounted of Modules for any files and any number of pages.         *)
(***************************************************************************)

Descriptor == [name : {f.name : f \in ModFiles}, file : ModFiles, modbuff : ModBuffs]

\* Each listed module has pages of its own, and no others are in use.
ModInv ==
    /\ kmodlist \in Seq(Descriptor) /\ IsInjective(kmodlist)
    /\ \A m, n \in ToSet(kmodlist) : m.modbuff = n.modbuff => m = n
    /\ buffsUsed = {m.modbuff : m \in ToSet(kmodlist)}
    /\ IsFiniteSet(buffsUsed) /\ Cardinality(buffsUsed) = Len(kmodlist)
    /\ descsUsed = Len(kmodlist)

LoadInv == modFate = "ok" => ModInv

LEMMA InsmodFailsStep ==
    ASSUME ModInv, NEW f \in ModFiles, InsmodFails(f)
    PROVE  ModInv'
<1>1. UNCHANGED <<kmodlist, descsUsed>>
  BY DEF InsmodFails
<1>2. buffsUsed' = buffsUsed
  BY DEF InsmodFails, FreedOnFailure
<1> QED
  BY <1>1, <1>2, Zenon DEF ModInv

LEMMA InsmodLoadsStep ==
    ASSUME ModInv, NEW f \in ModFiles, InsmodLoads(f), modFate' = "ok", modFate = "ok"
    PROVE  ModInv'
<1>1. PICK b \in ModBuffs \ buffsUsed :
          /\ Loads(f) /\ buffsUsed' = buffsUsed \union {b} /\ descsUsed' = descsUsed + 1
          /\ kmodlist' = <<[name |-> f.name, file |-> f, modbuff |-> b]>> \o kmodlist
  BY DEF InsmodLoads
<1>2. PICK m : m = [name |-> f.name, file |-> f, modbuff |-> b]
  OBVIOUS
<1>3. m \in Descriptor /\ m.modbuff = b
  BY <1>2 DEF Descriptor
<1>4. m \notin ToSet(kmodlist)
  BY <1>1, <1>3 DEF ModInv
<1>5. /\ kmodlist' \in Seq(Descriptor) /\ IsInjective(kmodlist')
      /\ ToSet(kmodlist') = ToSet(kmodlist) \union {m}
  BY <1>1, <1>2, <1>3, <1>4, ConsMembers DEF ModInv
<1>6. Len(kmodlist') = Len(kmodlist) + 1
  <2>1. kmodlist' = <<m>> \o kmodlist /\ kmodlist \in Seq(Descriptor)
    BY <1>1, <1>2 DEF ModInv
  <2>2. <<m>> \in Seq(Descriptor) /\ Len(<<m>>) = 1
    BY <1>3
  <2>3. Len(kmodlist') = 1 + Len(kmodlist) /\ Len(kmodlist) \in Nat
    BY <2>1, <2>2, ConcatProperties, LenProperties
  <2> QED
    BY <2>3
<1>7. IsFiniteSet(buffsUsed') /\ Cardinality(buffsUsed') = Cardinality(buffsUsed) + 1
  BY <1>1, FS_AddElement DEF ModInv
<1>8. \A x, y \in ToSet(kmodlist') : x.modbuff = y.modbuff => x = y
  BY <1>1, <1>3, <1>5 DEF ModInv
<1>9. buffsUsed' = {x.modbuff : x \in ToSet(kmodlist')}
  BY <1>1, <1>3, <1>5 DEF ModInv
<1> QED
  BY <1>1, <1>5, <1>6, <1>7, <1>8, <1>9 DEF ModInv

LEMMA RmmodStep ==
    ASSUME ModInv, NEW n, Rmmod(n), modFate' = "ok", modFate = "ok"
    PROVE  ModInv'
<1>1. /\ DOMAIN kmodlist = 1 .. Len(kmodlist) /\ Len(kmodlist) \in Nat
      /\ \A i \in 1 .. Len(kmodlist) : kmodlist[i] \in ToSet(kmodlist)
  BY SequenceMembers DEF ModInv
<1>2. PICK i \in 1 .. Len(kmodlist) :
          /\ kmodlist' = RemoveAt(kmodlist, i)
          /\ buffsUsed' = buffsUsed \ {kmodlist[i].modbuff} /\ descsUsed' = descsUsed - 1
  <2>1. PICK k \in Named(n) : \A j \in Named(n) : k <= j
    <3>1. Named(n) \subseteq Nat /\ Named(n) # {}
      BY <1>1 DEF Named, Rmmod
    <3> QED
      BY <3>1, LeastElement
  <2>2. PICK i \in Named(n) : i = CHOOSE k1 \in Named(n) : \A j \in Named(n) : k1 <= j
    BY <2>1
  <2>3. i \in 1 .. Len(kmodlist)
    BY <1>1 DEF Named
  <2> QED
    BY <2>2, <2>3 DEF Rmmod
<1>3. PICK m \in ToSet(kmodlist) : m = kmodlist[i]
  BY <1>1
<1>4. kmodlist' = RemoveFirst(kmodlist, m)
  BY <1>2, <1>3, RemoveFirstPosition DEF ModInv, RemoveAt
<1>5. /\ kmodlist' \in Seq(Descriptor) /\ IsInjective(kmodlist')
      /\ ToSet(kmodlist') = ToSet(kmodlist) \ {m}
  BY <1>4, RemoveFirstProperties DEF ModInv
<1>6. Len(kmodlist') = Len(kmodlist) - 1
  BY <1>2, CutProperties DEF ModInv, RemoveAt
<1>7. IsFiniteSet(buffsUsed') /\ Cardinality(buffsUsed') = Cardinality(buffsUsed) - 1
  <2>1. m.modbuff \in buffsUsed /\ buffsUsed' = buffsUsed \ {m.modbuff}
    BY <1>2, <1>3 DEF ModInv
  <2> QED
    BY <2>1, FS_RemoveElement DEF ModInv
<1>8. buffsUsed' = {x.modbuff : x \in ToSet(kmodlist')}
  BY <1>2, <1>3, <1>5 DEF ModInv
<1> QED
  BY <1>2, <1>5, <1>6, <1>7, <1>8 DEF ModInv

\* Whatever is loaded, refused, loaded twice and removed, with any files and any
\* number of pages: no page and no descriptor is lost or shared, as long as no
\* call of address 0 and no assertion stops the machine.
THEOREM ModulesAccountedHolds == ModulesSpec => []ModulesAccounted
<1>1. ModulesInit => LoadInv
  <2> SUFFICES ASSUME ModulesInit PROVE ModInv
    BY DEF LoadInv
  <2>1. kmodlist = <<>> /\ ToSet(kmodlist) = {} /\ Len(kmodlist) = 0
    BY DEF ModulesInit, ToSet
  <2>2. kmodlist \in Seq(Descriptor) /\ IsInjective(kmodlist)
    BY <2>1 DEF IsInjective
  <2>3. IsFiniteSet({}) /\ Cardinality({}) = 0
    BY FS_EmptySet
  <2>4. buffsUsed = {} /\ descsUsed = 0
    BY DEF ModulesInit
  <2> QED
    BY <2>1, <2>2, <2>3, <2>4 DEF ModInv
<1>2. LoadInv /\ [ModulesNext]_moduleVars => LoadInv'
  <2> SUFFICES ASSUME LoadInv, [ModulesNext]_moduleVars, modFate' = "ok" PROVE ModInv'
    BY DEF LoadInv
  <2>1. CASE UNCHANGED moduleVars
    BY <2>1, Zenon DEF moduleVars, LoadInv, ModInv
  <2>2. CASE ModulesNext
    <3>1. modFate = "ok" /\ ModInv
      BY <2>2 DEF ModulesNext, LoadInv
    <3>2. PICK f \in ModFiles : Insmod(f) \/ Rmmod(f.name)
      BY <2>2 DEF ModulesNext
    <3>3. ~ InsmodAsserts(f)
      BY DEF InsmodAsserts
    <3> QED
      BY <3>1, <3>2, <3>3, InsmodFailsStep, InsmodLoadsStep, RmmodStep DEF Insmod
  <2> QED
    BY <2>1, <2>2
<1>3. LoadInv => ModulesAccounted
  BY DEF LoadInv, ModInv, ModulesAccounted
<1> QED
  BY <1>1, <1>2, <1>3, PTL DEF ModulesSpec
=============================================================================
