------------------------------ MODULE NetStack ------------------------------
(***************************************************************************)
(* What net_proc does with a frame (efproc() of core/net.c): the ARP cache,*)
(* the answers to ARP and echo requests, and the UDP socket of the upload  *)
(* server (udp_cli/server.c) with udp_send().  The thread of the command   *)
(* line resets that socket whenever udpcli_reset is typed: both work on    *)
(* its fields one after another, with interrupts on.  An address is read   *)
(* and written byte by byte; two parts stand for its bytes, and an address *)
(* of two parts that differ is nobody's.  Addresses and ports are members  *)
(* of small sets; checksums are right or wrong.                            *)
(***************************************************************************)
EXTENDS Integers, Sequences, FiniteSets

CONSTANTS
    Hosts, Macs,        \* the addresses of the other hosts
    OwnIp, OwnMac,
    AnyIp, PortAll,     \* 0.0.0.0 and PORT_ALL
    ServerPort, Ports,
    ListSize            \* the slots of the ARP cache

ASSUME StackAssumption ==
    /\ OwnIp \notin Hosts /\ AnyIp \notin Hosts \union {OwnIp}
    /\ PortAll \notin Ports \union {ServerPort} /\ ListSize \in Nat \ {0}

VARIABLES
    arpcache,
    sock,               \* udpcli_sockctx: destport, localip and destip, part by part
    netAt, netStep,     \* where net_proc is with a UDP frame, and how far there
    datagram, hdr,      \* that frame, and the fields of its answer written so far
    resetAt,            \* how many parts the command line's udpcli_reset() has written
    asker, sent,        \* the sender of the last frame, and what was sent for it
    crossed,            \* history: a reset got between the steps for that frame
    heard,              \* history: the bindings the cache should hold
    stackFate

udpVars   == <<sock, netAt, netStep, datagram, hdr, resetAt>>
stackVars == <<arpcache, udpVars, asker, sent, crossed, heard, stackFate>>

ArpFrames  == [l2 : {"arp"}, request : BOOLEAN, sip : Hosts \union {AnyIp},
               dip : {OwnIp} \union Hosts, smac : Macs]
IcmpFrames == [l2 : {"icmp"}, request : BOOLEAN, sumOk : BOOLEAN, sip : Hosts,
               dip : {OwnIp}, smac : Macs]
UdpFrames  == [l2 : {"udp"}, sumOk : BOOLEAN, sip : Hosts, dip : {OwnIp},
               sport : Ports, dport : {ServerPort} \union Ports,
               data : {"hello", "bye", "command", "nothing"}]
OtherFrames == [l2 : {"8021q", "ipv4_other", "other"}]

NoFrame == [l2 |-> "none"]

Both(a) == <<a, a>>

\* The socket of nobody, and that of the host that sent frame f.
Unbound    == <<PortAll, AnyIp, AnyIp, AnyIp, AnyIp>>
Greeted(f) == <<f.sport, f.dip, f.dip, f.sip, f.sip>>

NoEntry == [valid |-> FALSE, ip |-> AnyIp, mac |-> OwnMac]
-----------------------------------------------------------------------------
(* The ARP cache.  Nothing looks into a slot that is not valid.            *)

\* Mutant: only the address is looked for.
PurgedByIp(c, ip, mac) ==
    [i \in 1 .. ListSize |-> IF c[i].valid /\ c[i].ip = ip
                             THEN NoEntry ELSE c[i]]

\* "each entry with ip match or mac match, should be remove".
Purged(c, ip, mac) ==
    [i \in 1 .. ListSize |-> IF c[i].valid /\ (c[i].ip = ip \/ c[i].mac = mac)
                             THEN NoEntry ELSE c[i]]

FreeSlots(c) == {i \in 1 .. ListSize : ~c[i].valid}

LowestSlot(S) == CHOOSE i \in S : \A j \in S : i <= j

\* arp_insert(): count is never incremented, so that a full cache is found out
\* by the assertion at the end.
ArpInsert(ip, mac) ==
    LET c == Purged(arpcache, ip, mac)
    IN  IF FreeSlots(c) = {}
        THEN arpcache' = c /\ stackFate' = "arp_assert" /\ UNCHANGED heard
        ELSE /\ arpcache' = [c EXCEPT ![LowestSlot(FreeSlots(c))] =
                                [valid |-> TRUE, ip |-> ip, mac |-> mac]]
             /\ heard' = {b \in heard : b[1] # ip /\ b[2] # mac} \union {<<ip, mac>>}
             /\ UNCHANGED stackFate

ArpSlots(addr) == {i \in 1 .. ListSize : arpcache[i].valid /\ Both(arpcache[i].ip) = addr}
-----------------------------------------------------------------------------
Nobody == <<AnyIp, PortAll>>

\* The address and the port that an answer to the frame goes to.
Sender(f) == CASE f.l2 = "udp"            -> <<f.sip, f.sport>>
               [] f.l2 \in {"arp", "icmp"} -> <<f.sip, PortAll>>
               [] OTHER                   -> Nobody

\* Nothing is sent once an assertion has stopped the machine.
Replies(m) == sent' = IF stackFate' = "ok" THEN <<m>> ELSE <<>>

\* An ARP request for our address is learnt from and answered.
RecvArp(f) ==
    /\ f.l2 = "arp"
    /\ IF f.request /\ f.dip = OwnIp
       THEN /\ ArpInsert(f.sip, f.smac)
            /\ Replies([l2 |-> "arp", dmac |-> f.smac, dip |-> Both(f.sip)])
       ELSE sent' = <<>> /\ UNCHANGED <<arpcache, heard, stackFate>>
    /\ netAt' = "done" /\ crossed' = FALSE
    /\ UNCHANGED <<sock, netStep, datagram, hdr, resetAt>>

\* An echo request with good checksums is learnt from and sent back with the
\* addresses swapped.
RecvIcmp(f) ==
    /\ f.l2 = "icmp"
    /\ IF f.sumOk /\ f.request
       THEN /\ ArpInsert(f.sip, f.smac)
            /\ Replies([l2 |-> "icmp", dmac |-> f.smac, dip |-> Both(f.sip)])
       ELSE sent' = <<>> /\ UNCHANGED <<arpcache, heard, stackFate>>
    /\ netAt' = "done" /\ crossed' = FALSE
    /\ UNCHANGED <<sock, netStep, datagram, hdr, resetAt>>

\* 802.1q frames, other protocols and other types are dropped.
RecvOther(f) ==
    /\ f.l2 \in {"8021q", "ipv4_other", "other"}
    /\ sent' = <<>>
    /\ netAt' = "done" /\ crossed' = FALSE
    /\ UNCHANGED <<arpcache, sock, netStep, datagram, hdr, resetAt, heard, stackFate>>

\* All of one peer or of nobody.
Settled(s) == s = Unbound \/ \A k \in 1 .. 5 : s[k] # Unbound[k]

\* A UDP frame with a good IP header for the server's port is compared with the
\* socket; any other is dropped.  The checksum of UDP is not looked at.
RecvUdp(f) ==
    /\ f.l2 = "udp"
    /\ IF f.sumOk /\ f.dport = ServerPort
       THEN netAt' = "any" /\ datagram' = f
       ELSE netAt' = "done" /\ UNCHANGED datagram
    /\ sent' = <<>>
    /\ crossed' = ~Settled(sock)
    /\ UNCHANGED <<arpcache, sock, netStep, hdr, resetAt, heard, stackFate>>

Efproc ==
    /\ netAt = "idle"
    /\ \E f \in ArpFrames \union IcmpFrames \union UdpFrames \union OtherFrames :
        /\ asker' = Sender(f)
        /\ RecvArp(f) \/ RecvIcmp(f) \/ RecvUdp(f) \/ RecvOther(f)
-----------------------------------------------------------------------------
(* The rest of efproc() for a UDP frame.                                   *)

\* Mutant: the port of the peer is not looked at.
FieldsWithoutPort == << {}, {2, 3}, {4, 5} >>

\* The parts of each field that is compared: destport, localip, destip.
Fields == << {1}, {2, 3}, {4, 5} >>

Goes(at) == netAt' = at /\ netStep' = 1

\* efproc() returns.
Returns == Goes("done") /\ datagram' = NoFrame /\ hdr' = <<>>

Dispatched(data) == CASE data = "hello"            -> Goes("greet") /\ UNCHANGED <<datagram, hdr>>
                      [] data \in {"bye", "command"} -> Goes("send") /\ UNCHANGED <<datagram, hdr>>
                      [] OTHER                     -> Returns

\* A field has to be open or the sender's; each is asked on its own, so that a
\* reset can come in between.
NetCompare ==
    /\ netAt \in {"any", "same"}
    /\ LET wanted == IF netAt = "any" THEN Unbound ELSE Greeted(datagram)
       IN  IF \A k \in Fields[netStep] : sock[k] = wanted[k]
           THEN IF netStep < Len(Fields)
                THEN netAt' = "any" /\ netStep' = netStep + 1 /\ UNCHANGED <<datagram, hdr>>
                ELSE Dispatched(datagram.data)
           ELSE IF netAt = "any"
                THEN netAt' = "same" /\ UNCHANGED <<netStep, datagram, hdr>>
                ELSE Returns
    /\ UNCHANGED <<arpcache, sock, resetAt, asker, sent, crossed, heard, stackFate>>

\* One part of a value is written to the socket.
Writes(value, next) ==
    /\ sock' = [sock EXCEPT ![netStep] = value[netStep]]
    /\ IF netStep < 5
       THEN netStep' = netStep + 1 /\ UNCHANGED <<netAt, datagram, hdr>>
       ELSE next
    /\ UNCHANGED <<arpcache, resetAt, asker, sent, crossed, heard, stackFate>>

\* udpcli_recv(): a greeting binds the socket to its sender.
NetGreets ==
    /\ netAt = "greet"
    /\ Writes(Greeted(datagram), Goes("send") /\ UNCHANGED <<datagram, hdr>>)

\* udp_send() writes the headers of the answer.  (The addresses are read once
\* more before, for the checksum.)
NetSends ==
    /\ netAt = "send"
    /\ hdr' = Append(hdr, sock[Len(hdr) + 1])
    /\ IF Len(hdr') = 5 THEN netAt' = "lookup" ELSE UNCHANGED netAt
    /\ UNCHANGED <<arpcache, sock, netStep, datagram, resetAt, asker, sent, crossed, heard,
                   stackFate>>

\* A farewell is answered and unbinds the socket.
AfterAnswer ==
    IF datagram.data = "bye" THEN Goes("unbind") /\ hdr' = <<>> /\ UNCHANGED datagram
    ELSE Returns

\* arp_getmacaddr(): the slots are compared with the socket's address as it is
\* by then.  An address that is in none is an error that no caller looks at.
NetLooksUp ==
    /\ netAt = "lookup"
    /\ IF netStep \in ArpSlots(<<sock[4], sock[5]>>)
       THEN /\ sent' = <<[l2 |-> "udp", dmac |-> arpcache[netStep].mac,
                          dip |-> <<hdr[4], hdr[5]>>, dport |-> hdr[1]]>>
            /\ AfterAnswer
       ELSE /\ UNCHANGED sent
            /\ IF netStep < ListSize
               THEN netStep' = netStep + 1 /\ UNCHANGED <<netAt, datagram, hdr>>
               ELSE AfterAnswer
    /\ UNCHANGED <<arpcache, sock, resetAt, asker, crossed, heard, stackFate>>

\* udpcli_reset() after a farewell.
NetUnbinds ==
    /\ netAt = "unbind"
    /\ Writes(Unbound, Returns)

\* The page of the frame is given back.
NetFrees ==
    /\ netAt = "done"
    /\ netAt' = "idle" /\ asker' = Nobody /\ sent' = <<>> /\ crossed' = FALSE
    /\ UNCHANGED <<arpcache, sock, netStep, datagram, hdr, resetAt, heard, stackFate>>

\* The command udpcli_reset, in the thread of the command line.
UdpcliReset ==
    /\ sock' = [sock EXCEPT ![resetAt + 1] = Unbound[resetAt + 1]]
    /\ resetAt' = (resetAt + 1) % 5
    /\ crossed' = (crossed \/ netAt \notin {"idle", "done"})
    /\ UNCHANGED <<arpcache, netAt, netStep, datagram, hdr, asker, sent, heard, stackFate>>

StackInit ==
    /\ arpcache = [i \in 1 .. ListSize |-> NoEntry]
    /\ sock = Unbound
    /\ netAt = "idle" /\ netStep = 1 /\ datagram = NoFrame /\ hdr = <<>>
    /\ resetAt = 0
    /\ asker = Nobody /\ sent = <<>> /\ crossed = FALSE
    /\ heard = {}
    /\ stackFate = "ok"

StackNext ==
    /\ stackFate = "ok"
    /\ \/ Efproc \/ NetCompare \/ NetGreets \/ NetSends \/ NetLooksUp \/ NetUnbinds \/ NetFrees
       \/ UdpcliReset

StackSpec == StackInit /\ [][StackNext]_stackVars
-----------------------------------------------------------------------------
(* Properties.                                                             *)

\* The cache is the set of the last bindings heard, whatever hosts change
\* their addresses or exchange them: no address and no card is in two slots,
\* and none that is still right has been dropped.
ArpSound ==
    LET used == {i \in 1 .. ListSize : arpcache[i].valid}
    IN  /\ {<<arpcache[i].ip, arpcache[i].mac>> : i \in used} = heard
        /\ Cardinality(used) = Cardinality(heard)
        /\ \A b, c \in heard : (b[1] = c[1] \/ b[2] = c[2]) => b = c

\* Message m may be sent for what asker has asked.
Deserved(m) ==
    IF m.l2 = "udp"
    THEN /\ \A h \in 1 .. 2 : m.dip[h] \in {asker[1], AnyIp}
         /\ m.dport \in {asker[2], PortAll}
         /\ \E ip \in {asker[1], AnyIp} : <<ip, m.dmac>> \in heard
         /\ ~crossed => \E to \in {asker, Nobody} : /\ m.dip = Both(to[1]) /\ m.dport = to[2]
                                                  /\ <<to[1], m.dmac>> \in heard
    ELSE m.dip = Both(asker[1]) /\ <<asker[1], m.dmac>> \in heard

\* Whoever is served is answered: nobody gets an answer for what another host
\* has sent, neither at an address nor at a port of his.  Where a reset comes
\* between the steps, or has left the socket half bound, a part of the answer
\* may belong to nobody, but none to a third.
AnswersAsker == \A i \in 1 .. Len(sent) : Deserved(sent[i])
=============================================================================
