---------------------------- MODULE MCConnections ----------------------------
(* The WebSocket connections of both servers under fairness, for TLC: of a *)
(* gateway, or of the entrance of the chat service.  They are two programs *)
(* and share nothing; an execution is one of the one or one of the other,  *)
(* and the part of the other stays as it is at the start.                  *)
EXTENDS WSTransport

CONSTANTS
    Sessions, Users, NoSession, NoUser,             \* of Gateway
    Unroutable, Damaged, NoPacket, SendCap, MaxBroadcasts

VARIABLES
    server,                                         \* "gateway" or "chat"
    sessions, userSessions, userID,                 \* of Gateway
    wsconn, rpc, packet, pump, send, held, delivered, arrived, taken, csess

gatewayVars == <<sessions, userSessions, userID, wsconn, rpc, packet, pump, send, held,
                 delivered, arrived, taken, csess>>

G == INSTANCE Gateway WITH conn <- wsconn, wpc <- pump, wmsg <- held

MCInit ==
    /\ server \in {"gateway", "chat"}
    /\ Init
    /\ G!Init

MCNext ==
    /\ UNCHANGED server
    /\ \/ server = "chat" /\ Next /\ UNCHANGED gatewayVars
       \/ server = "gateway" /\ G!Next /\ UNCHANGED vars

MCSpec ==
    /\ MCInit /\ [][MCNext]_<<server, vars, gatewayVars>>
    /\ server = "chat" => Fairness
    /\ server = "gateway" => G!Fairness

CleanedUp == G!CleanedUp
ConsumerProgress == G!ConsumerProgress
QueueDrains == G!QueueDrains
=============================================================================
