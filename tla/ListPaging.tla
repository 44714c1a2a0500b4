----------------------------- MODULE ListPaging -----------------------------
(***************************************************************************)
(* How the answer to a list query is cut into packets: the end of          *)
(* ServerStoreRAM::QueryServers computes the layout, which stays in the    *)
(* session with the results, and sendListResponse (masterd/TorqueIO.cc)    *)
(* makes one packet of it, for the query itself and for every resend.      *)
(*                                                                         *)
(* One client repeats one query: the packets have the same session and     *)
(* key.  Datagrams may be lost, duplicated and reordered, so the model     *)
(* keeps the set of the packets sent and a client may have any of them.    *)
(***************************************************************************)
EXTENDS PacketBuffer, Sequences, FiniteSets

CONSTANTS
    LIST_PACKET_SIZE,
    ByteSize,       \* 2^8: packTotal and index are U8
    WordSize,       \* 2^16: total, packNum, packLast, count and start are U16
    SESSION_MAX,
    Listing,        \* the sequences of servers a query may find
    Garbage,        \* what is read past the end of the results
    MaxAnswers      \* bound of the model: the number of different answers

\* LIST_PACKET_MAX_SERVERS, 242 in the code.  12 bytes are set aside for the
\* header, and an index is never 0xFF.
PerPacket == LET most == (LIST_PACKET_SIZE - 12) \div 6
             IN  IF most > ByteSize - 2 THEN ByteSize - 2 ELSE most

ASSUME SizeAssumption == /\ {LIST_PACKET_SIZE, ByteSize, WordSize} \subseteq Nat
                         /\ LIST_PACKET_SIZE >= 18 /\ ByteSize >= 3
                         /\ ByteSize * ByteSize <= WordSize
                         /\ SESSION_MAX \in Nat \ {0}

ASSUME ListingAssumption ==
    \A list \in Listing : /\ list \in Seq(Nat)
                          /\ Garbage \notin {list[i] : i \in 1 .. Len(list)}

VARIABLES
    sessions,   \* the sessions of the client's (session, key), oldest first
    sent        \* the packets sent, each with the results it is about

vars == <<sessions, sent>>

-----------------------------------------------------------------------------
\* Fault for ShortListWhole: no packet for the remainder.
LayoutNoRemainder(list) ==
    LET total == Len(list) % WordSize
    IN  [results   |-> list,
         packTotal |-> (total \div PerPacket) % ByteSize,
         packNum   |-> total \div PerPacket,
         packLast  |-> total % PerPacket]

\* The end of QueryServers.
Layout(list) ==
    LET total == Len(list) % WordSize
    IN  [results   |-> list,
         packTotal |-> ((total \div PerPacket) + 1) % ByteSize,
         packNum   |-> total \div PerPacket,
         packLast  |-> total % PerPacket]

\* Fault for ReadsInRange: the last packet is like the others.
CountOfFull(s, index) == s.packNum

Count(s, index) == IF index = s.packTotal - 1 THEN s.packLast ELSE s.packNum

\* Fault for PagesDisjoint: the last server is repeated on the next packet.
StartOverlapping(s, index) == IF index = 0 THEN 0 ELSE (s.packNum * index - 1) % WordSize

Start(s, index) == (s.packNum * index) % WordSize

\* The buffer of a packet with count servers, an address and a port each.
Reply(count) ==
    LET head == WriteU16(WriteU8(WriteU8(WriteHeader(NewPacket(LIST_PACKET_SIZE)))))
        written[n \in 0 .. count] ==
            IF n = 0 THEN head ELSE WriteU16(WriteU32(written[n - 1]))
    IN  written[count]

\* sendListResponse: no packet for an index that is out of range.
ListResponse(s, index) ==
    IF index >= s.packTotal THEN {}
    ELSE {[of        |-> s.results,
           index     |-> index,
           packTotal |-> s.packTotal,
           servers   |-> [i \in 1 .. Count(s, index) |->
                             IF Start(s, index) + i <= Len(s.results)
                             THEN s.results[Start(s, index) + i]
                             ELSE Garbage]]}

-----------------------------------------------------------------------------
Init == sessions = <<>> /\ sent = {}

\* handleListRequest, index 0xFF: the query is answered with every packet.
Query(list) ==
    /\ Len(sessions) < SESSION_MAX
    /\ Cardinality({p.of : p \in sent} \cup {list}) <= MaxAnswers
    /\ sessions' = Append(sessions, Layout(list))
    /\ sent' = sent \cup UNION {ListResponse(Layout(list), i) : i \in 0 .. Layout(list).packTotal - 1}

\* handleListRequest, another index: the oldest of the sessions answers.
Resend(index) ==
    /\ sessions # <<>>
    /\ sent' = sent \cup ListResponse(Head(sessions), index)
    /\ UNCHANGED sessions

\* CheckSessions.  Every resend renews the oldest session and no other, so any
\* of them may be the next to expire.
Expire(n) ==
    /\ sessions' = SubSeq(sessions, 1, n - 1) \o SubSeq(sessions, n + 1, Len(sessions))
    /\ UNCHANGED sent

Next == \/ \E list \in Listing : Query(list)
        \/ \E index \in 0 .. ByteSize - 2 : Resend(index)
        \/ \E n \in 1 .. Len(sessions) : Expire(n)

Spec == Init /\ [][Next]_vars

-----------------------------------------------------------------------------
(***************************************************************************)
(* Properties                                                              *)
(***************************************************************************)

\* The positions of the results that a packet takes its servers from.
Slice(p) == LET start == Start(Layout(p.of), p.index)
            IN  start + 1 .. start + Len(p.servers)

\* However large the list and however its sizes wrap, no two packets of an
\* answer take the same server: a client that adds them up lists none twice.
PagesDisjoint ==
    \A p, q \in sent : p.of = q.of /\ p.index # q.index => Slice(p) \cap Slice(q) = {}

\* Up to PerPacket full packets, sendListResponse stays inside the results and
\* inside its buffer.  (With more, it leaves both.)
ReadsInRange ==
    \A p \in sent :
        Len(p.of) < PerPacket * (PerPacket + 1) =>
            Slice(p) \subseteq 1 .. Len(p.of) /\ ~Overrun(Reply(Len(p.servers)))

ServersIn(packets) == UNION {{p.servers[i] : i \in 1 .. Len(p.servers)} : p \in packets}

SentWhole(list) ==
    ServersIn({p \in sent : p.of = list}) = {list[i] : i \in 1 .. Len(list)}

\* A list shorter than one packet is sent whole, and in one packet: a client
\* that mixes the answers to a query and to its repetition still shows servers
\* that were all listed at one time.
ShortListWhole ==
    /\ \A i \in 1 .. Len(sessions) :
           Len(sessions[i].results) < PerPacket => SentWhole(sessions[i].results)
    /\ \A p \in sent : Len(p.of) < PerPacket => p.packTotal = 1

\* What the comment on sendListResponse documents: a packet takes as many
\* servers as fit, so that the packets of an answer carry the whole list.
WholeListSent == \A i \in 1 .. Len(sessions) : SentWhole(sessions[i].results)

=============================================================================
