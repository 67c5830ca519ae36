------------------------------- MODULE Upload -------------------------------
(***************************************************************************)
(* The upload of a file: the client of udp_cli/client.c, which sends one   *)
(* command at a time and waits for its answer, and the server of           *)
(* udp_cli/server.c.  The network loses, refuses, repeats and damages what *)
(* it carries: the CRC covers the data of a command, nothing covers its    *)
(* header (type, totallen, address, size) or the answer.  A command names  *)
(* no chunk that the client would look for in the answer; the field of     *)
(* says which chunk a message is of, head whether its header is as sent,   *)
(* copy tells a message from its repetition.                               *)
(***************************************************************************)
EXTENDS Integers, FiniteSets

CONSTANTS
    Chunks,             \* how many pieces of 1 KB the file has
    MaxRetry,           \* 3 in udpcli_sendandwait()
    MaxMishaps          \* bound: how many messages are damaged or repeated

ASSUME UploadAssumption == Chunks \in Nat \ {0} /\ MaxRetry \in Nat /\ MaxMishaps \in Nat

UploadModes == {"hdwrite", "ramwrite"}
CmdTypes    == {"hdwrite", "ramwrite", "ramwrite_pre", "other"}
Lengths     == {"full", "header", "other"}      \* "header": totallen is that of the bare struct

VARIABLES
    mode,               \* the client's command line
    chunk, retry,       \* the loop of the upload, and udpcli_sendandwait()'s
    cmdType, totalLen,  \* of the client's command
    clientAt,
    requests, answers,  \* what is under way
    mishaps,            \* how many messages have been damaged or repeated
    stored,             \* what the server has put in the place of each chunk
    serverAt,           \* "up", or "down" or "wild" after a call of netdev->down
    reported,           \* history: the chunks udpcli_sendandwait() returned 0 for
    unsure              \* history: those it did so for on an answer that is not theirs

uploadVars == <<mode, chunk, retry, cmdType, totalLen, clientAt,
                requests, answers, mishaps, stored, serverAt, reported, unsure>>

\* The next turn of the loop: totallen is set before the loop of
\* updcli_hdwrite() and in the loop of updcli_ramwrite().
NextChunk(len) ==
    /\ chunk' = chunk + 1
    /\ retry' = MaxRetry
    /\ cmdType' = mode
    /\ totalLen' = IF mode = "hdwrite" THEN len ELSE "full"
    /\ clientAt' = IF chunk = Chunks THEN "bye" ELSE "send"

\* A command is sent as long as totallen says.
ClientSends ==
    /\ clientAt = "send"
    /\ requests' = requests \union
           {[type |-> cmdType, of |-> chunk, len |-> totalLen, head |-> TRUE, copy |-> FALSE,
             body |-> IF totalLen = "full" THEN "right" ELSE "absent"]}
    /\ clientAt' = "recv"
    /\ UNCHANGED <<mode, chunk, retry, cmdType, totalLen, answers, mishaps, stored, serverAt,
                   reported, unsure>>

Acknowledges(a) == a.ack = "ACK" /\ a.type = cmdType

\* An ACK of the same type; the command becomes a copy of it, with its length.
ClientAcked(a) ==
    /\ clientAt = "recv" /\ Acknowledges(a)
    /\ answers' = answers \ {a}
    /\ NextChunk(a.len)
    /\ IF cmdType = "ramwrite_pre"
       THEN /\ unsure' = IF a.head THEN unsure ELSE 1 .. Chunks
            /\ UNCHANGED reported
       ELSE /\ unsure' = IF a.head /\ a.of = chunk THEN unsure ELSE unsure \union {chunk}
            /\ reported' = reported \union {chunk}
    /\ UNCHANGED <<mode, requests, mishaps, stored, serverAt>>

\* Any other answer, or an error of recv(): again, and in the end given up.
\* Only a RAMWRITE_PRE that fails ends the upload.
ClientRetries(a) ==
    /\ clientAt = "recv" /\ ~Acknowledges(a)
    /\ answers' = answers \ {a}
    /\ IF retry > 0
       THEN retry' = retry - 1 /\ clientAt' = "send" /\ UNCHANGED <<chunk, cmdType, totalLen>>
       ELSE IF cmdType = "ramwrite_pre"
            THEN clientAt' = "bye" /\ UNCHANGED <<chunk, retry, cmdType, totalLen>>
            ELSE NextChunk(totalLen)
    /\ UNCHANGED <<mode, requests, mishaps, stored, serverAt, reported, unsure>>

\* Mutant: the result of crc32_raw() is not looked at.
CrcIgnored(m) == TRUE

\* crc32_raw() over totallen - sizeof(udpcli_cmd) bytes, none for a bare header.
\* (A damaged totallen that passes by chance has the effect of "header".)
CrcPasses(m) == m.len = "header" \/ (m.len = "full" /\ m.body = "right")

\* Where the data go: to the chunk's place, or wherever a damaged address and
\* size say.
Places(m) == IF m.head THEN {{m.of}} ELSE SUBSET (1 .. Chunks)

\* Behind the header of a command without data is the old content of the
\* frame's page.
Written(m) ==
    CASE ~m.head                       -> "strayed"
      [] m.head /\ m.body = "right"    -> "right"
      [] m.head /\ m.body # "right"    -> "wrong"

StoreData(m) ==
    \E places \in Places(m) :
        stored' = [c \in 1 .. Chunks |-> IF c \in places THEN Written(m) ELSE stored[c]]

\* The answer is the command's own header.
Answered(m, ack) ==
    answers' = answers \union
        {[ack |-> ack, type |-> m.type, of |-> m.of, len |-> "header", head |-> m.head, copy |-> FALSE]}

\* udpcli_recv(), the commands.
ServerHdwrite(m) ==
    /\ m.type = "hdwrite"
    /\ IF CrcPasses(m) THEN StoreData(m) /\ Answered(m, "ACK")
                       ELSE UNCHANGED stored /\ Answered(m, "RETRY")
    /\ UNCHANGED serverAt

\* hdidx is neither 0 nor 1: the write of a null driver is called.
ServerNoDisk(m) ==
    /\ m.type = "hdwrite" /\ CrcPasses(m) /\ ~m.head
    /\ serverAt' = "wild"
    /\ UNCHANGED <<stored, answers>>

\* A CRC that fails makes the server call netdev->down, which the rtl8139
\* driver sets (there is no answer through a card that is down) and the e1000
\* driver does not.
ServerRamwrite(m) ==
    /\ m.type = "ramwrite"
    /\ IF CrcPasses(m) THEN StoreData(m) /\ Answered(m, "ACK") /\ UNCHANGED serverAt
                       ELSE serverAt' \in {"down", "wild"} /\ UNCHANGED <<stored, answers>>

ServerRamwritePre(m) ==
    /\ m.type = "ramwrite_pre"
    /\ Answered(m, "ACK")
    /\ UNCHANGED <<stored, serverAt>>

\* cmd_ack is not REQ, or cmdtype unknown: no answer.
ServerIgnores(m) ==
    /\ m.type = "other"
    /\ UNCHANGED <<stored, serverAt, answers>>

Server(m) ==
    /\ serverAt = "up"
    /\ \/ ServerHdwrite(m) \/ ServerNoDisk(m) \/ ServerRamwrite(m)
       \/ ServerRamwritePre(m) \/ ServerIgnores(m)
    /\ requests' = requests \ {m}
    /\ UNCHANGED <<mode, chunk, retry, cmdType, totalLen, clientAt, mishaps, reported, unsure>>

\* The network: what it does to a command, ...
DataDamaged(m) ==
    /\ m.body = "right"
    /\ requests' = (requests \ {m}) \union {[m EXCEPT !.body = "damaged"]}
    /\ UNCHANGED answers

HeaderDamaged(m) ==
    /\ m.head
    /\ \E type \in CmdTypes, len \in Lengths :
          requests' = (requests \ {m}) \union {[m EXCEPT !.type = type, !.len = len, !.head = FALSE]}
    /\ UNCHANGED answers

RequestLost(m) == requests' = requests \ {m} /\ UNCHANGED answers

Refused(m) ==
    /\ requests' = requests \ {m}
    /\ answers' = answers \union {[ack |-> "error", type |-> m.type, of |-> m.of, len |-> "header",
                                   head |-> m.head, copy |-> FALSE]}

RequestRepeated(m) ==
    /\ requests' = requests \union {[m EXCEPT !.copy = ~m.copy]}
    /\ UNCHANGED answers

\* ... and to an answer.
AnswerDamaged(a) ==
    /\ a.head /\ a.ack # "error"
    /\ \E ack \in {"ACK", "RETRY", "REQ"}, type \in CmdTypes, len \in Lengths :
          answers' = (answers \ {a}) \union
              {[a EXCEPT !.ack = ack, !.type = type, !.len = len, !.head = FALSE]}
    /\ UNCHANGED requests

AnswerLost(a) == answers' = answers \ {a} /\ UNCHANGED requests

AnswerRepeated(a) ==
    /\ a.ack # "error"
    /\ answers' = answers \union {[a EXCEPT !.copy = ~a.copy]}
    /\ UNCHANGED requests

Mishap ==
    /\ mishaps < MaxMishaps
    /\ mishaps' = mishaps + 1
    /\ \/ \E m \in requests : DataDamaged(m) \/ HeaderDamaged(m) \/ RequestRepeated(m)
       \/ \E a \in answers : AnswerDamaged(a) \/ AnswerRepeated(a)

Network ==
    /\ \/ Mishap
       \/ /\ \/ \E m \in requests : RequestLost(m) \/ Refused(m)
             \/ \E a \in answers : AnswerLost(a)
          /\ UNCHANGED mishaps
    /\ UNCHANGED <<mode, chunk, retry, cmdType, totalLen, clientAt, stored, serverAt, reported, unsure>>

UploadInit ==
    /\ mode \in UploadModes
    /\ cmdType \in IF mode = "hdwrite" THEN {"hdwrite"} ELSE {"ramwrite", "ramwrite_pre"}
    /\ chunk = IF cmdType = "ramwrite_pre" THEN 0 ELSE 1
    /\ retry = MaxRetry
    /\ totalLen = IF cmdType = "ramwrite_pre" THEN "header" ELSE "full"
    /\ clientAt = "send" /\ requests = {} /\ answers = {} /\ mishaps = 0
    /\ stored = [c \in 1 .. Chunks |-> "old"]
    /\ serverAt = "up" /\ reported = {} /\ unsure = {}

UploadNext ==
    \/ ClientSends
    \/ \E a \in answers : ClientAcked(a) \/ ClientRetries(a)
    \/ \E m \in requests : Server(m)
    \/ Network

UploadSpec == UploadInit /\ [][UploadNext]_uploadVars
-----------------------------------------------------------------------------
\* Whatever the network loses, refuses or repeats, and whatever data it damages:
\* a chunk that udpcli_sendandwait() has reported to updcli_ramwrite() is in
\* memory, and so is the first sector it has reported to updcli_hdwrite().  (Of
\* the later sectors the client sends the bare header: totallen is the
\* answer's.)  The exceptions are what the protocol does not guard: the answer
\* was one to an earlier command or had a damaged header, its own or the
\* command's; or a command with a damaged header was written over the place.
RamWritten ==
    \A c \in reported \ unsure :
        mode = "ramwrite" \/ c = 1 => stored[c] \in {"right", "strayed"}
=============================================================================
