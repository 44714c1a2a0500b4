---------------------------- MODULE PacketBuffer ----------------------------
(***************************************************************************)
(* A Packet (network/Packet.cc, include/Packet.h).  Of one that is written *)
(* only the place of its pointer matters here; one that is read holds the  *)
(* bytes of a datagram.                                                    *)
(***************************************************************************)
EXTENDS Integers, Sequences

NewPacket(size) == [size |-> size, length |-> 0, statusOK |-> TRUE]

Moved(p, n) == [size |-> p.size, length |-> p.length + n, statusOK |-> p.statusOK]

Failed(p) == [size |-> p.size, length |-> p.length, statusOK |-> FALSE]

WriteU8(p) == IF p.length < p.size THEN Moved(p, 1) ELSE Failed(p)

\* The ! operator of C++ on a number.
Negated(n) == IF n = 0 THEN 1 ELSE 0

\* The test binds as (!(getLength() + length)) > size.
WriteBytes(p, n) == IF n = 0 THEN p
                    ELSE IF Negated(p.length + n) > p.size THEN Failed(p)
                    ELSE Moved(p, n)

WriteU16(p) == WriteBytes(p, 2)

WriteU32(p) == WriteBytes(p, 4)

MaxString == 255

\* A string of n characters: at most 255 of them are written.
WriteCString(p, n) == WriteBytes(WriteU8(p), IF n > MaxString THEN MaxString ELSE n)

\* type, flags, session and key
WriteHeader(p) == WriteU16(WriteU16(WriteU8(WriteU8(p))))

HeaderSize == 6    \* PACKET_HEADER_SIZE

Overrun(p) == p.length > p.size

-----------------------------------------------------------------------------
(***************************************************************************)
(* Reading.  A value of n bytes is n cells, each of which knows its value  *)
(* and its place in it.  A read that fails leaves the pointer where it is  *)
(* and whatever it was to fill unset.                                      *)
(***************************************************************************)
Bytes(value, n) == [i \in 1 .. n |-> [value |-> value, place |-> i, of |-> n]]

\* The packet of a datagram that was received.
Received(data) == NewPacket(Len(data))

ReadU8(p) == IF p.length < p.size THEN Moved(p, 1) ELSE Failed(p)

ReadBytes(p, n) == IF n = 0 THEN p
                   ELSE IF p.length + n > p.size THEN Failed(p)
                   ELSE Moved(p, n)

\* What lies in the n bytes from the pointer on.  Zero stands for the number
\* that pieces of several values make, and for what is left unset.
ValueAt(data, p, n) ==
    LET cells == SubSeq(data, p.length + 1, p.length + n)
    IN  IF n > 0 /\ p.length + n <= p.size /\ cells = Bytes(cells[1].value, n)
        THEN cells[1].value
        ELSE 0

=============================================================================
