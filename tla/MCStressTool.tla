---------------------------- MODULE MCStressTool -----------------------------
(* The stress tool on a small instance; and before it starts, one sample   *)
(* that a codec is tried on: a packet, or the fields of a ChatResponse.    *)
EXTENDS StressTool

VARIABLE sample

Payloads == UNION {[1..n -> {0, 255}] : n \in 0..(MaxPacketSize + 1)}
SamplePackets ==
    {PacketOf(r, 3, seq, payload) :
        r \in {RouteChat, 255}, seq \in {0, 1, 256, 65536, 2147483647}, payload \in Payloads}
SampleResponses == [DOMAIN WireTypes.ChatResponse -> 0..1]

MCInit ==
    /\ Init
    /\ \/ \E p \in SamplePackets : sample = [kind |-> "packet", value |-> p]
       \/ \E m \in SampleResponses : sample = [kind |-> "ChatResponse", value |-> m]

(* The sample has been looked at, and the tool starts. *)
StartTool ==
    /\ sample.kind # "none"
    /\ sample' = [kind |-> "none"]
    /\ UNCHANGED vars

MCNext ==
    \/ StartTool
    \/ sample.kind = "none" /\ Next /\ UNCHANGED sample

MCSpec ==
    /\ MCInit /\ [][MCNext]_<<vars, sample>>
    /\ WF_<<vars, sample>>(StartTool)
    /\ Fairness

(* Decode and ReadPacket give back the packet that was encoded, whatever   *)
(* follows it, and a stream goes on behind it; so does the C# client with  *)
(* a frame that fits into its buffer.  (Of a longer one, which the gateway *)
(* may send, it makes a packet with a part of the payload.)                *)
RoundTrip ==
    sample.kind = "packet" =>
        LET p == sample.value IN
        Len(p.Payload) <= MaxPacketSize =>
            /\ \A rest \in {<<>>, <<0>>, Encode(NewPacket(RouteChat, <<1>>))} :
                   ReadStream(Encode(p) \o rest) = [packet |-> p, rest |-> rest]
            /\ HeaderSize + Len(p.Payload) <= ReceiveBuffer => CsReceive(Encode(p)) = p

(* A frame gives its own packet or an error, never another packet: an      *)
(* error when it is cut short, is longer than the limit of the connection, *)
(* or has a payload longer than MaxPacketSize, which Encode lets pass.     *)
FrameOrError ==
    sample.kind = "packet" =>
        LET p == sample.value
            frame == Encode(p) IN
        /\ \A n \in 0..(Len(frame) - 1) : ReadFrame(TRUE, SubSeq(frame, 1, n)) = Invalid
        /\ ReadFrame(TRUE, frame) = IF /\ Len(p.Payload) <= MaxPacketSize
                                       /\ HeaderSize + Len(p.Payload) <= ReadLimit
                                    THEN p ELSE Invalid
        /\ ReadFrame(FALSE, frame) = Invalid

(* The gateway reads every answer as a MessageBroadcast: it finds the      *)
(* target of a ChatResponse as well.  And a client that does the same      *)
(* never takes a ChatResponse for a message, whatever its fields hold.     *)
ResponseReadAsBroadcast ==
    sample.kind = "ChatResponse" =>
        LET bc == Unmarshal("MessageBroadcast", Marshal("ChatResponse", sample.value)) IN
        /\ bc[MessageBroadcast.target_user_id] = sample.value[ChatResponse.target_user_id]
        /\ bc[MessageBroadcast.content] = 0
=============================================================================
