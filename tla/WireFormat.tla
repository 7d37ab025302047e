----------------------------- MODULE WireFormat ------------------------------
(***************************************************************************)
(* What travels between a client and the gateway: the packet of            *)
(* game-gateway/pkg/protocol (a header of sixteen bytes and a payload),    *)
(* and, in the payload, one of the two protobuf messages of                *)
(* game-protocols/chat that the chat service publishes.                    *)
(*                                                                         *)
(* Every operator here is a function of its arguments.  A byte string is a *)
(* sequence of numbers 0..255.  A protobuf message is a function from the  *)
(* numbers of its fields to numbers: 0 is the default value of a field,    *)
(* which proto3 does not send, TRUE is 1, and other values stand for       *)
(* texts, IDs and times.                                                   *)
(***************************************************************************)
EXTENDS Integers, Sequences

CONSTANTS
    MaxPacketSize,  \* the longest payload that DecodeHeader accepts (16 MB)
    ReadLimit,      \* the longest frame that the connection accepts (16 MB)
    ReceiveBuffer,  \* the buffer of the C# client (1 MB)
    Invalid         \* a decoding function returns an error

LargestLength == 2147483647                 \* 2^31 - 1: TLC reads no larger number

(* The length of a payload has 32 bits: MaxPacketSize, and one byte more,  *)
(* fit into them.                                                          *)
ASSUME WireAssumption ==
    /\ MaxPacketSize \in Nat /\ MaxPacketSize < LargestLength
    /\ ReadLimit \in Nat /\ ReceiveBuffer \in Nat

-----------------------------------------------------------------------------
(* Packets *)

Byte == 0..255
MagicNumber == 305419896                    \* 0x12345678
HeaderSize == 16
RouteChat == 2

PacketOf(route, flags, seq, payload) ==
    [Route |-> route, Flags |-> flags, Sequence |-> seq, Payload |-> payload]

(* An error is not taken for a packet. *)
ASSUME InvalidAssumption ==
    Invalid \notin [Route : Byte, Flags : Byte, Sequence : Nat, Payload : Seq(Byte)]

(* The gateway makes its packets without a sequence number: the number of  *)
(* a request is not in its answer.                                         *)
NewPacket(route, payload) == PacketOf(route, 0, 0, payload)

NewPacketWithSeq(route, seq, payload) == PacketOf(route, 0, seq, payload)

PutUint32(n) ==
    <<(n \div 16777216) % 256, (n \div 65536) % 256, (n \div 256) % 256, n % 256>>

Uint32(b, i) == ((b[i] * 256 + b[i + 1]) * 256 + b[i + 2]) * 256 + b[i + 3]

(* Mutant: the length of the whole packet. *)
EncodeWholeLength(p) ==
    PutUint32(MagicNumber) \o <<p.Route, p.Flags, 0, 0>>
        \o PutUint32(HeaderSize + Len(p.Payload)) \o PutUint32(p.Sequence) \o p.Payload

(* Encode does not look at the size of the payload. *)
Encode(p) ==
    PutUint32(MagicNumber) \o <<p.Route, p.Flags, 0, 0>>
        \o PutUint32(Len(p.Payload)) \o PutUint32(p.Sequence) \o p.Payload

(* What DecodeHeader accepts: magic number (compared byte by byte, which   *)
(* keeps TLC's integers small), then the limit on the length.              *)
HeaderOK(data) ==
    /\ Len(data) >= HeaderSize
    /\ SubSeq(data, 1, 4) = PutUint32(MagicNumber)
    /\ Uint32(data, 9) <= MaxPacketSize

(* Mutant: takes what there is of a payload that is cut short. *)
DecodeShort(data) ==
    IF HeaderOK(data)
    THEN PacketOf(data[5], data[6], Uint32(data, 13), SubSeq(data, HeaderSize + 1, Len(data)))
    ELSE Invalid

(* Bytes after the payload are left out. *)
Decode(data) ==
    IF HeaderOK(data) /\ Len(data) >= HeaderSize + Uint32(data, 9)
    THEN PacketOf(data[5], data[6], Uint32(data, 13),
                  SubSeq(data, HeaderSize + 1, HeaderSize + Uint32(data, 9)))
    ELSE Invalid

(* ReadPacket of a stream: the packet, and what is left of the stream.     *)
ReadStream(data) ==
    [packet |-> Decode(data),
     rest |-> IF Decode(data) = Invalid
              THEN <<>>
              ELSE SubSeq(data, HeaderSize + Uint32(data, 9) + 1, Len(data))]

(* ReadPacket of a WebSocket: one frame, one packet.  The limit is on the  *)
(* frame, header included; a text frame is refused.                        *)
ReadFrame(binary, data) ==
    IF binary /\ Len(data) <= ReadLimit THEN Decode(data) ELSE Invalid

(* The first call of ReceiveAsync for a frame returns what the buffer      *)
(* holds of it; the rest is left to the calls after it.                    *)
ReceiveAsync(frame) ==
    IF Len(frame) <= ReceiveBuffer THEN frame ELSE SubSeq(frame, 1, ReceiveBuffer)

(* The C# client does not look at the length: everything after the header  *)
(* of what one call returned is the payload.                               *)
CsDecode(data) ==
    IF Len(data) >= HeaderSize /\ SubSeq(data, 1, 4) = PutUint32(MagicNumber)
    THEN PacketOf(data[5], data[6], Uint32(data, 13), SubSeq(data, HeaderSize + 1, Len(data)))
    ELSE Invalid

CsReceive(frame) == CsDecode(ReceiveAsync(frame))

-----------------------------------------------------------------------------
(* Payloads: the numbers and wire types of the fields *)

ChatResponse ==
    [base |-> 1, success |-> 2, error_message |-> 3, message_id |-> 4,
     timestamp |-> 5, target_user_id |-> 10, target_session_id |-> 11]

MessageBroadcast ==
    [message_id |-> 1, sender_id |-> 2, sender_name |-> 3, channel_id |-> 4,
     content |-> 5, timestamp |-> 6, type |-> 7, target_user_id |-> 10]

(* The wire type of every field: two kinds of message, one number, and     *)
(* often two types.                                                        *)
BroadcastTypes ==
    [n \in (1..7) \cup {10} |-> IF n \in {3, 5} THEN "bytes" ELSE "varint"]

(* Mutant: the two fields that say where the response goes are swapped. *)
ResponseTypesSwapped ==
    [n \in (1..5) \cup {10, 11} |-> IF n \in {1, 3, 10} THEN "bytes" ELSE "varint"]

ResponseTypes ==
    [n \in (1..5) \cup {10, 11} |-> IF n \in {1, 3, 11} THEN "bytes" ELSE "varint"]

WireTypes == [ChatResponse |-> ResponseTypes, MessageBroadcast |-> BroadcastTypes]

(* External: proto.Marshal sends the fields that are set ...               *)
Marshal(kind, m) ==
    {[number |-> n, type |-> WireTypes[kind][n], value |-> m[n]] :
        n \in {i \in DOMAIN WireTypes[kind] : m[i] # 0}}

(* ... and proto.Unmarshal skips a field that it does not know, or whose   *)
(* wire type is not the one it expects: between these two kinds it never   *)
(* fails.                                                                  *)
Unmarshal(kind, fields) ==
    [n \in DOMAIN WireTypes[kind] |->
        IF \E f \in fields : f.number = n /\ f.type = WireTypes[kind][n]
        THEN (CHOOSE f \in fields : f.number = n).value
        ELSE 0]
=============================================================================
