------------------------------ MODULE Ev3Packet ------------------------------
(***************************************************************************)
(* The wire format of all transports (src/src/protocol/ev3Packet.ts) and   *)
(* what pendingReply.ts makes of a stream of it.  A packet is a sequence   *)
(* of bytes; the bytes of a payload may be anything.                       *)
(***************************************************************************)
EXTENDS Integers, Sequences

CONSTANT None

Byte == 0..255

\* DataView.setUint16(value & 0xffff, little endian), and getUint16() of the
\* bytes at position i, counted from 1.
LowByte(n) == n % 256
HighByte(n) == (n \div 256) % 256
Uint16(bytes, i) == bytes[i] + 256 * bytes[i + 1]

\* Command and reply types.
DirectCommandReply == 0
SystemCommandReply == 1
DirectReply == 2
SystemReply == 3
DirectReplyError == 4
SystemReplyError == 5

\* encodeEv3Packet(): bodyLength is cut to 16 bits by setUint16(), the type to 8.
EncodePacket(counter, type, payload) ==
    LET bodyLength == 3 + Len(payload)
    IN  <<LowByte(bodyLength), HighByte(bodyLength),
          LowByte(counter), HighByte(counter), LowByte(type)>> \o payload

\* decodeEv3Packet() does not throw; and what it returns.
Decodes(packet) == Len(packet) >= 5 /\ Uint16(packet, 1) = Len(packet) - 2
DecodePacket(packet) ==
    [messageCounter |-> Uint16(packet, 3), type |-> packet[5],
     payload |-> SubSeq(packet, 6, Len(packet))]

\* getMessageCounter()
GetMessageCounter(packet) == IF Len(packet) < 4 THEN -1 ELSE Uint16(packet, 3)

-----------------------------------------------------------------------------
(* extractLengthPrefixedPacket(): the buffer begins with a whole packet, that *)
(* packet, and what remains.                                                 *)

TotalLength(buffer) == Uint16(buffer, 1) + 2

HasPacket(buffer) == Len(buffer) >= 2 /\ Len(buffer) >= TotalLength(buffer)
FirstPacket(buffer) == SubSeq(buffer, 1, TotalLength(buffer))
AfterFirst(buffer) == SubSeq(buffer, TotalLength(buffer) + 1, Len(buffer))

\* A packet that is not the reply expected: drainPendingReply() drops it.
Stale(expected, buffer) ==
    HasPacket(buffer) /\ GetMessageCounter(FirstPacket(buffer)) # expected

\* drainPendingReply() with a reply awaited: the buffer from the first packet on
\* that is not stale.  Fewer than MAX_DRAIN_ITERATIONS are buffered.
Drain(expected, buffer) ==
    LET Rest(from) == SubSeq(buffer, from + 1, Len(buffer))
        skip[from \in 0..Len(buffer)] ==
            IF Stale(expected, Rest(from)) THEN skip[from + TotalLength(Rest(from))] ELSE from
    IN  IF Stale(expected, buffer) THEN Rest(skip[0]) ELSE buffer
=============================================================================
