----------------------------- MODULE LineEditor -----------------------------
(***************************************************************************)
(* The command line of cmd_loop() (core/cmdlist.c): a buffer and a         *)
(* position, edited with backspace and TAB, next to what the screen shows; *)
(* and the words that cmd_parse_impl() takes from the buffer at the end of *)
(* the line.  The code checks neither pos against the 256 bytes of cmdBuff *)
(* nor the number of words against the 16 pointers of argv: what is behind *)
(* either on the stack is overwritten then, and nothing is said from there *)
(* on (editorFate).                                                        *)
(***************************************************************************)
EXTENDS Integers, Sequences, FiniteSets, SequencesExt

CONSTANTS
    Typed,              \* the characters of the keyboard, without the three below
    NUL, SP, NL,        \* 0, the blank and the end of line
    Commands,           \* the names in cmddesc_array, in its order
    BuffSize,           \* 256 in the code
    ArgvSize            \* 16: argv of cmd_parse_impl()

ASSUME EditorAssumption ==
    /\ BuffSize \in Nat \ {0, 1} /\ ArgvSize \in Nat
    /\ Commands \in Seq(Seq(Typed \ {SP})) /\ <<>> \notin ToSet(Commands)
    /\ \A k \in DOMAIN Commands : Len(Commands[k]) < BuffSize
    /\ NUL \notin Typed \union {SP, NL} /\ NL \notin Typed

VARIABLES
    cmdBuff, cmdPos,
    shown,              \* what is on the screen behind the title
    lineShown, parsed,  \* history, until the next key: the whole line, and its words
    ranCommand,         \* the command called for it, 0 if none
    editorFate          \* "ok", or "overrun": the stack behind an array is overwritten

editorVars == <<cmdBuff, cmdPos, shown, lineShown, parsed, ranCommand, editorFate>>

EmptyBuff == [i \in 0 .. BuffSize - 1 |-> NUL]

\* cmdBuff with the characters of s from position p on.
Put(b, p, s) ==
    [i \in DOMAIN b |-> IF i \in p .. p + Len(s) - 1 THEN s[i - p + 1] ELSE b[i]]

\* The prefix of the buffer that TAB and parsing look at.
Line(b, n) == [i \in 1 .. n |-> b[i - 1]]

\* The words of a line, as parse_str_by_inteflag() cuts them.
AddChar(words, c) ==
    IF c \in {SP, NL} THEN IF Last(words) = <<>> THEN words ELSE Append(words, <<>>)
    ELSE Append(Front(words), Append(Last(words), c))

WordsOf(line) ==
    SelectSeq(FoldLeft(AddChar, << <<>> >>, line), LAMBDA w : w # <<>>)

\* The string in the buffer: up to the first NUL.
CString(b) ==
    LET nuls == {i \in DOMAIN b : b[i] = NUL}
    IN  Line(b, CHOOSE n \in nuls : \A i \in nuls : n <= i)
-----------------------------------------------------------------------------
\* The line that was run is no longer looked at.
NextKey == lineShown' = <<>> /\ parsed' = WordsOf(<<>>) /\ ranCommand' = 0

Overrun ==
    /\ editorFate' = "overrun"
    /\ UNCHANGED <<cmdBuff, cmdPos, shown, lineShown, parsed, ranCommand>>

\* Mutant: the backspace only moves the position.
EraseMoves(b, p) == b

\* The character behind the one that is deleted is cleared.
Erase(b, p) == [b EXCEPT ![p] = NUL]

Backspace ==
    /\ editorFate = "ok" /\ cmdPos < BuffSize
    /\ IF cmdPos # 0
       THEN /\ cmdBuff' = Erase(cmdBuff, cmdPos)
            /\ cmdPos' = cmdPos - 1
            /\ shown' = Front(shown)
       ELSE UNCHANGED <<cmdBuff, cmdPos, shown>>
    /\ NextKey /\ UNCHANGED editorFate

\* The commands that begin with the line so far; the first one is taken.
Completions == {k \in DOMAIN Commands : IsPrefix(Line(cmdBuff, cmdPos), Commands[k])}

Tab ==
    /\ editorFate = "ok"
    /\ IF Completions = {} THEN UNCHANGED <<cmdBuff, cmdPos, shown>>
       ELSE LET name == Commands[CHOOSE k \in Completions : \A l \in Completions : k <= l]
                rest == SubSeq(name, cmdPos + 1, Len(name)) \o <<SP>>
            IN  /\ cmdBuff' = Put(cmdBuff, cmdPos, rest)
                /\ cmdPos' = Len(name) + 1
                /\ shown' = shown \o rest
    /\ NextKey /\ UNCHANGED editorFate

Type(c) ==
    /\ editorFate = "ok" /\ cmdPos < BuffSize
    /\ cmdBuff' = Put(cmdBuff, cmdPos, <<c>>)
    /\ cmdPos' = cmdPos + 1
    /\ shown' = Append(shown, c)
    /\ NextKey /\ UNCHANGED editorFate

\* A character or a backspace at pos 256.
KeyBehindBuffer == editorFate = "ok" /\ cmdPos = BuffSize /\ Overrun

\* cmd_parse_impl(): the command whose name is the first word.
Called(words) ==
    LET found == {k \in DOMAIN Commands : words # <<>> /\ Commands[k] = words[1]}
    IN  IF found = {} THEN 0 ELSE CHOOSE k \in found : \A l \in found : k <= l

LineTyped == CString(Put(cmdBuff, cmdPos, <<NL>>))

\* There is a pointer in argv for every word.
WordsFit(line) == Len(WordsOf(line)) <= ArgvSize

\* The string ends in the buffer, and its words fit in argv.
InBounds == cmdPos + 1 < BuffSize /\ WordsFit(LineTyped)

EndOfLine ==
    /\ editorFate = "ok" /\ InBounds
    /\ parsed' = WordsOf(LineTyped)
    /\ ranCommand' = Called(parsed')
    /\ lineShown' = Append(shown, NL)
    /\ cmdBuff' = EmptyBuff /\ cmdPos' = 0 /\ shown' = <<>>
    /\ UNCHANGED editorFate

\* The end of line, or the pointer to a word, goes behind its array.
LineTooLong == editorFate = "ok" /\ ~ InBounds /\ Overrun

EditorInit ==
    /\ cmdBuff = EmptyBuff /\ cmdPos = 0 /\ shown = <<>>
    /\ lineShown = <<>> /\ parsed = WordsOf(<<>>) /\ ranCommand = 0
    /\ editorFate = "ok"

EditorNext ==
    \/ Backspace \/ Tab \/ (\E c \in Typed : Type(c)) \/ KeyBehindBuffer
    \/ EndOfLine \/ LineTooLong

EditorSpec == EditorInit /\ [][EditorNext]_editorVars
-----------------------------------------------------------------------------
\* What is run is what the screen showed: the words taken from the buffer are
\* those of the line, however it was edited and completed, and the command
\* called is the one its first word names.  The arrays are overrun by no line
\* that is shown with room for its end in the buffer and no more words than argv
\* holds.
LineAsShown ==
    /\ parsed = WordsOf(lineShown)
    /\ ranCommand # 0 => parsed[1] = Commands[ranCommand]
    /\ editorFate = "overrun" =>
          \/ Len(shown) + 2 > BuffSize
          \/ ~ WordsFit(Append(shown, NL))
=============================================================================
