--------------------------------- MODULE Kbd ---------------------------------
(***************************************************************************)
(* The keyboard of io/kbd.c: kbd_int() turns scancodes into characters in  *)
(* a ring and signals kbd_sem; the thread cmdline takes them out with      *)
(* kbd_get_char().  A key is a letter, which CAPS and SHIFT both turn to   *)
(* the other case, a symbol, which only SHIFT changes, or mute: the maps   *)
(* have no character for it.                                               *)
(***************************************************************************)
EXTENDS Sem

CONSTANTS
    Reader,         \* the thread that runs cmd_loop()
    KbdSem,         \* kbd_sem
    RingSize,       \* 256 in kbd.c: KBD_RAWINPUTBUFF_SIZE
    Keys,           \* the keys other than SHIFT and CAPS, ...
    Letters,        \* ... those that give letters, ...
    Mute            \* ... and those that give nothing

ASSUME KbdAssumption ==
    /\ Reader \in Waiters
    /\ KbdSem \in WaitQueues
    /\ MaxTicket[KbdSem] = 0        \* sem_init(&kbd_sem, 0)
    /\ RingSize \in Nat \ {0}
    /\ Letters \subseteq Keys /\ Mute \subseteq Keys \ Letters

VARIABLES
    buff, readpos, writepos,    \* kbd_rawinput_buff
    stateShift, stateCap,       \* the statics of kbd_int()
    getAt                       \* where the reader stands in kbd_get_char()

ring   == <<buff, readpos, writepos>>
states == <<stateShift, stateCap>>

kbdVars == <<ring, states, getAt>>
allVars == <<vars, semVars, kbdVars>>

\* A character: its key, and which of the two the key has.
Char == [key : Keys \ Mute, upper : BOOLEAN]

\* kbd_shiftup_map or kbd_shiftdown_map, then the case switched by CAPS.
CharOf(k) ==
    [key |-> k, upper |-> IF k \in Letters THEN stateShift # stateCap
                                            ELSE stateShift]

\* Mutants: the ring is filled to the last slot; nobody is told.
NeverFull   == FALSE
RingFull    == (writepos + 1) % RingSize = readpos
QuietSignal == UNCHANGED <<vars, semVars>>
KbdSignal   == SemSignal(KbdSem)

\* kbd_rawbuff_insert(): a full ring drops the character.
Insert(c) ==
    IF RingFull
    THEN UNCHANGED <<vars, semVars, ring>>
    ELSE /\ buff' = [buff EXCEPT ![writepos] = c]
         /\ writepos' = (writepos + 1) % RingSize
         /\ KbdSignal
         /\ UNCHANGED readpos

\* kbd_int() for each kind of scancode.  Break codes of other keys do nothing.
ShiftKey(down) ==
    /\ stateShift' = down
    /\ UNCHANGED <<vars, semVars, ring, stateCap>>

CapKey(down) ==
    /\ stateCap' = (down # stateCap)
    /\ UNCHANGED <<vars, semVars, ring, stateShift>>

KeyDown(k) ==
    /\ IF k \in Mute THEN UNCHANGED <<vars, semVars, ring>> ELSE Insert(CharOf(k))
    /\ UNCHANGED states

KbdInterrupt ==
    /\ fate = "ok"
    /\ UNCHANGED getAt
    /\ \/ \E down \in BOOLEAN : ShiftKey(down) \/ CapKey(down)
       \/ \E k \in Keys : KeyDown(k)

\* The reader executes code of kbd_get_char(), not of the functions it calls.
InGetChar(l) ==
    /\ Running(Reader)
    /\ pc[Reader] = "user"
    /\ semAt[Reader] = "out"
    /\ getAt = l

\* if (writepos == readpos)
GetCheck ==
    /\ InGetChar("check")
    /\ getAt' = IF writepos = readpos THEN "wait" ELSE "take"
    /\ UNCHANGED <<vars, semVars, ring, states>>

\* sem_wait(&kbd_sem, TIMEOUT_INFINIT)
GetWait ==
    /\ InGetChar("wait")
    /\ SemWait(Reader, KbdSem)
    /\ getAt' = "take"
    /\ UNCHANGED <<ring, states>>

\* The assertion, the character and the new read position.
GetTake ==
    /\ InGetChar("take")
    /\ IF writepos = readpos
       THEN Fail("no_char") /\ UNCHANGED <<semVars, kbdVars>>
       ELSE /\ readpos' = (readpos + 1) % RingSize
            /\ getAt' = "check"
            /\ UNCHANGED <<vars, semVars, buff, writepos, states>>

GetChar == GetCheck \/ GetWait \/ GetTake
-----------------------------------------------------------------------------
\* kbd_init()
KbdInit ==
    /\ SemInit
    /\ buff \in [0 .. RingSize - 1 -> {NIL}]
    /\ readpos = 0
    /\ writepos = 0
    /\ stateShift = FALSE
    /\ stateCap = FALSE
    /\ getAt = "check"

KbdSched == (SemTick \/ SchedStep \/ \E t \in Task : SemStep(t)) /\ UNCHANGED kbdVars

KbdNext == KbdSched \/ GetChar \/ KbdInterrupt

KbdSpec == KbdInit /\ [][KbdNext]_allVars
-----------------------------------------------------------------------------
(* Properties.                                                             *)

\* The characters in the ring, oldest first.
Content ==
    [i \in 1 .. (writepos - readpos) % RingSize |->
        buff[(readpos + i - 1) % RingSize]]

\* The ring, written by an interrupt handler and read by a task that holds no
\* lock, is a queue of RingSize - 1 characters.
Fifo == INSTANCE BoundedFifo WITH
            items <- Content, Item <- Char, Capacity <- RingSize - 1

RingIsFifo == Fifo!FifoSpec

\* A character that arrives while the reader is asleep in sem_wait() makes it
\* ready in the same interrupt.
KeyWakesReader ==
    [][Asleep(Reader) /\ Content' # Content => Reader \notin ToSet(queue'["wait"])]_allVars

\* kbd_get_char() tests the ring before sem_wait() and not after: it finds a
\* character nevertheless, unless it has run without being woken.
NoCharOnlyIfStray == fate = "no_char" => stray
=============================================================================
