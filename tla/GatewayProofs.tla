--------------------------- MODULE GatewayProofs ----------------------------
(***************************************************************************)
(* Proofs about Gateway, for any number of sessions, users and downstream  *)
(* messages and any queue capacity.                                        *)
(*                                                                         *)
(* Inv is the inductive invariant.  The registry properties of Gateway are *)
(* inductive together with Registration, which ties the place of a read    *)
(* pump to the two maps; NoMisrouting needs Addressing, which also covers  *)
(* the message that the consumer has looked up a session for and not yet   *)
(* queued.  OrderedAtMostOnce is proved on top of Inv, together with       *)
(* Fresh, which says of that message that no queue holds it yet.  Counting *)
(* adds the connection counters, for ReportRight, and the last part shows  *)
(* that the gateway implements MessageRouting.                             *)
(***************************************************************************)
EXTENDS GatewayMetrics, SortedQueues, FiniteSetTheorems, TLAPS

(* A session is registered from its creation to the second half of its     *)
(* removal, and one that was never created has never been bound.           *)
Registration ==
    /\ \A s \in Sessions :
           s \in sessions <=>
               rpc[s] \in {"read", "handle", "publish", "unbind", "unlist"}
    /\ \A s \in Sessions : conn[s] = "none" => rpc[s] = "off"
    /\ \A s \in Sessions : rpc[s] = "off" => userID[s] = NoUser

(* Message i has been taken and was addressed to the user of session s. *)
IsFor(i, s) ==
    /\ i \in 1..taken
    /\ arrived[i] = userID[s]
    /\ userID[s] # NoUser

Addressing ==
    /\ \A s \in Sessions :
           /\ \A k \in DOMAIN send[s] : IsFor(send[s][k], s)
           /\ wmsg[s] # 0 => IsFor(wmsg[s], s)
           /\ \A k \in DOMAIN delivered[s] : IsFor(delivered[s][k], s)
    /\ csess # NoSession => IsFor(taken, csess)

(* A write pump runs only for a connection that was made, and it holds a   *)
(* message exactly while it writes.                                        *)
Writing ==
    \A s \in Sessions :
        /\ conn[s] = "none" => wpc[s] = "off"
        /\ wpc[s] = "write" <=> wmsg[s] # 0

Inv ==
    /\ TypeOK
    /\ Writing
    /\ Registration
    /\ NoStaleEntry
    /\ SoleSessionReachable
    /\ BoundBeforePublish
    /\ Addressing

USE NoSessionAssumption, NoUserAssumption, PacketAssumption, SendCapAssumption,
    MaxBroadcastsAssumption

(* Binding a session to a user keeps the types of the maps and the field. *)
LEMMA BindType ==
    ASSUME NEW u \in Users, NEW s \in Sessions, RegistryTypeOK, Bind(u, s)
    PROVE  RegistryTypeOK'
BY DEF Bind, RegistryTypeOK, registryVars

(* The initial state satisfies every part of the invariant. *)
LEMMA InitInv == Init => Inv
<1> SUFFICES ASSUME Init PROVE Inv
  OBVIOUS
<1>1. TypeOK
  BY DEF Init, RegistryInit, TypeOK, RegistryTypeOK, Packets, Targets, Message
<1>2. Registration
  BY DEF Init, RegistryInit, Registration
<1>3. NoStaleEntry /\ SoleSessionReachable /\ BoundBeforePublish
  BY DEF Init, RegistryInit, NoStaleEntry, SoleSessionReachable, BoundBeforePublish, Live
<1>4. Addressing /\ Writing
  BY DEF Init, Addressing, Writing
<1> QED  BY <1>1, <1>2, <1>3, <1>4 DEF Inv

-----------------------------------------------------------------------------
(* Every step keeps the types.  A message a write pump takes is one that   *)
(* was queued, and a message that is queued has been taken before.         *)
LEMMA TypeStep == Inv /\ [Next]_vars => TypeOK'
<1> SUFFICES ASSUME Inv, [Next]_vars PROVE TypeOK'
  OBVIOUS
<1> USE DEF TypeOK, RegistryTypeOK, Packets, Targets
<1>0. TypeOK
  BY DEF Inv
<1>1. ASSUME NEW s \in Sessions, HandleConnection(s) PROVE TypeOK'
  BY <1>0, <1>1 DEF HandleConnection, Add, consumerVars
<1>2. ASSUME NEW s \in Sessions, Disconnect(s) PROVE TypeOK'
  BY <1>0, <1>2 DEF Disconnect, registryVars, readVars, writeVars, consumerVars
<1>3. ASSUME NEW s \in Sessions, ReadPump(s) PROVE TypeOK'
  <2> USE <1>0 DEF OnlyReadPump, registryVars, writeVars, consumerVars
  <2>1. CASE ReadPacket(s)
    BY <2>1 DEF ReadPacket
  <2>2. CASE ReadError(s)
    BY <2>2 DEF ReadError
  <2>3. CASE DecodeError(s) \/ Unrouted(s)
    BY <2>3 DEF DecodeError, Unrouted
  <2>4. CASE RouteChat(s)
    <3>1. CASE UNCHANGED registryVars
      BY <2>4, <3>1 DEF RouteChat
    <3>2. CASE packet[s] # NoUser /\ s \in sessions /\ Bind(packet[s], s)
      <4>1. packet[s] \in Users
        BY <2>4, <3>2 DEF RouteChat
      <4>2. RegistryTypeOK'
        BY <1>0, <3>2, <4>1, BindType
      <4> QED  BY <2>4, <4>2 DEF RouteChat
    <3> QED  BY <2>4, <3>1, <3>2 DEF RouteChat, Bind
  <2>5. CASE Publish(s)
    BY <2>5 DEF Publish
  <2>6. CASE Unbind(s)
    BY <2>6 DEF Unbind, RemoveUser
  <2>7. CASE Unlist(s)
    BY <2>7 DEF Unlist, RemoveSession
  <2>8. CASE CloseRead(s)
    BY <2>8 DEF CloseRead
  <2> QED  BY <1>3, <2>1, <2>2, <2>3, <2>4, <2>5, <2>6, <2>7, <2>8
           DEF ReadPump, ReadPumpStep
<1>4. ASSUME NEW s \in Sessions, WritePump(s) PROVE TypeOK'
  <2> USE <1>0 DEF OnlyWritePump, registryVars, readVars, consumerVars
  <2>1. CASE TakeSend(s)
    <3>1. Head(send[s]) \in Message /\ Tail(send[s]) \in Seq(Message)
      BY <2>1 DEF TakeSend
    <3>2. Len(Tail(send[s])) <= SendCap
      BY <2>1 DEF TakeSend
    <3> QED  BY <2>1, <3>1, <3>2 DEF TakeSend
  <2>2. CASE WriteOk(s)
    <3>1. wmsg[s] \in Message
      BY <2>2 DEF WriteOk, Inv, Writing
    <3>2. Append(delivered[s], wmsg[s]) \in Seq(Message)
      BY <3>1
    <3> QED  BY <2>2, <3>2 DEF WriteOk
  <2>3. CASE WriteError(s)
    BY <2>3 DEF WriteError
  <2>4. CASE PingError(s)
    BY <2>4 DEF PingError
  <2>5. CASE CloseWrite(s)
    BY <2>5 DEF CloseWrite
  <2> QED  BY <1>4, <2>1, <2>2, <2>3, <2>4, <2>5 DEF WritePump, WritePumpStep
<1>5. CASE Arrive
  BY <1>0, <1>5 DEF Arrive, OnlyConsumer, registryVars, readVars, writeVars, consumerVars
<1>6. CASE Lookup
  <2>1. GetByUserID(arrived[taken + 1]) \in Sessions \cup {NoSession}
    BY <1>0, <1>6 DEF Lookup, GetByUserID
  <2> QED  BY <1>0, <1>6, <2>1 DEF Lookup, OnlyConsumer, registryVars, readVars, writeVars
<1>7. CASE Enqueue
  <2>1. taken \in Message
    BY <1>0, <1>7 DEF Enqueue, Inv, Addressing, IsFor, Message
  <2>2. csess \in Sessions /\ Append(send[csess], taken) \in Seq(Message)
    BY <1>0, <1>7, <2>1 DEF Enqueue
  <2>3. Len(send[csess]) < SendCap => Len(Append(send[csess], taken)) <= SendCap
    BY <1>0, <2>2
  <2> QED  BY <1>0, <1>7, <2>2, <2>3
           DEF Enqueue, OnlyConsumer, registryVars, readVars, writeVars
<1>8. CASE UNCHANGED vars
  BY <1>0, <1>8 DEF vars, registryVars, readVars, writeVars, consumerVars
<1> QED  BY <1>1, <1>2, <1>3, <1>4, <1>5, <1>6, <1>7, <1>8 DEF Next, Consumer

-----------------------------------------------------------------------------
(* The registry: what a step may do to the two maps, the UserID fields and *)
(* the places of the read pumps.                                           *)

(* A step inside the read loop, or out of it to the deferred function,     *)
(* that leaves the registry alone.                                         *)
Loop(s) ==
    /\ rpc[s] \in {"read", "handle", "publish"}
    /\ \E l \in {"read", "handle", "publish", "unbind"} : rpc' = [rpc EXCEPT ![s] = l]
    /\ UNCHANGED registryVars

(* What one step may do to the registry: nothing, or one of the four calls. *)
LEMMA RegistryCases ==
    ASSUME [Next]_vars
    PROVE  \/ \E s \in Sessions :
                  \/ HandleConnection(s) \/ RouteChat(s) \/ Unbind(s)
                  \/ Unlist(s) \/ CloseRead(s) \/ Loop(s)
           \/ UNCHANGED <<registryVars, rpc>>
<1>1. ASSUME NEW s \in Sessions, ReadPump(s)
      PROVE  RouteChat(s) \/ Unbind(s) \/ Unlist(s) \/ CloseRead(s) \/ Loop(s)
  <2>1. CASE ReadPacket(s) \/ ReadError(s)
    BY <2>1 DEF ReadPacket, ReadError, Loop
  <2>2. CASE DecodeError(s) \/ Unrouted(s) \/ Publish(s)
    BY <2>2 DEF DecodeError, Unrouted, Publish, Loop
  <2> QED  BY <1>1, <2>1, <2>2 DEF ReadPump, ReadPumpStep
<1>2. ASSUME NEW s \in Sessions, WritePump(s) PROVE UNCHANGED <<registryVars, rpc>>
  BY <1>2 DEF WritePump, WritePumpStep, TakeSend, WriteOk, WriteError, PingError,
              CloseWrite, OnlyWritePump, readVars
<1>3. ASSUME NEW s \in Sessions, Disconnect(s) PROVE UNCHANGED <<registryVars, rpc>>
  BY <1>3 DEF Disconnect, readVars
<1>4. CASE Arrive \/ Consumer
  BY <1>4 DEF Arrive, Consumer, Lookup, Enqueue, OnlyConsumer, readVars
<1>5. CASE UNCHANGED vars
  BY <1>5 DEF vars, readVars
<1> QED  BY <1>1, <1>2, <1>3, <1>4, <1>5 DEF Next

(* The only step that binds a session binds a registered one, in its read  *)
(* loop and not bound yet, to a user.                                      *)
LEMMA BindingStep ==
    ASSUME Inv, NEW s \in Sessions, RouteChat(s)
    PROVE  /\ rpc[s] = "handle" /\ rpc' = [rpc EXCEPT ![s] = "publish"]
           /\ UNCHANGED <<packet, sessions>>
           /\ \/ UNCHANGED registryVars /\ (packet[s] \in Users => userID[s] # NoUser)
              \/ /\ userID[s] = NoUser /\ packet[s] \in Users
                 /\ userID' = [userID EXCEPT ![s] = packet[s]]
                 /\ userSessions' = [userSessions EXCEPT ![packet[s]] = s]
<1>1. s \in sessions
  BY DEF RouteChat, Inv, Registration
<1>2. packet[s] \in Users \/ packet[s] = NoUser
  BY DEF RouteChat, Targets
<1> QED  BY <1>1, <1>2 DEF RouteChat, Bind, registryVars

(* No connection returns to the state before it was made. *)
LEMMA ConnectionStep ==
    ASSUME Inv, [Next]_vars
    PROVE  \A s \in Sessions : conn'[s] = "none" => conn[s] = "none"
<1> SUFFICES ASSUME NEW s \in Sessions, conn'[s] = "none" PROVE conn[s] = "none"
  OBVIOUS
<1> USE DEF TypeOK
<1>0. TypeOK
  BY DEF Inv
<1>1. ASSUME NEW t \in Sessions, HandleConnection(t) \/ Disconnect(t)
      PROVE  conn[s] = "none"
  BY <1>0, <1>1 DEF HandleConnection, Disconnect
<1>2. ASSUME NEW t \in Sessions, ReadPump(t) PROVE conn[s] = "none"
  BY <1>0, <1>2 DEF ReadPump, ReadPumpStep, ReadPacket, ReadError, DecodeError, Unrouted,
                    RouteChat, Publish, Unbind, Unlist, CloseRead, OnlyReadPump
<1>3. ASSUME NEW t \in Sessions, WritePump(t) PROVE conn[s] = "none"
  BY <1>0, <1>3 DEF WritePump, WritePumpStep, TakeSend, WriteOk, WriteError, PingError,
                    CloseWrite
<1>4. CASE Arrive \/ Consumer \/ UNCHANGED vars
  BY <1>0, <1>4 DEF Arrive, Consumer, Lookup, Enqueue, OnlyConsumer, vars
<1> QED  BY <1>1, <1>2, <1>3, <1>4 DEF Next

(* Add and Remove happen where the read pump says they do, whatever the    *)
(* other goroutines are at.                                                *)
LEMMA RegistrationStep == Inv /\ [Next]_vars => Registration'
<1> SUFFICES ASSUME Inv, [Next]_vars PROVE Registration'
  OBVIOUS
<1>0. TypeOK /\ Registration
  BY DEF Inv
<1>1. \A s \in Sessions : conn'[s] = "none" => conn[s] = "none"
  BY ConnectionStep
<1>2. ASSUME NEW s \in Sessions, HandleConnection(s) PROVE Registration'
  BY <1>0, <1>1, <1>2 DEF HandleConnection, Add, TypeOK, RegistryTypeOK, Registration
<1>3. ASSUME NEW s \in Sessions, RouteChat(s) PROVE Registration'
  <2>1. /\ rpc[s] = "handle" /\ sessions' = sessions
        /\ \A t \in Sessions : rpc'[t] = IF t = s THEN "publish" ELSE rpc[t]
    BY <1>0, <1>3, BindingStep DEF TypeOK
  <2>2. \A t \in Sessions : t # s => userID'[t] = userID[t]
    <3>1. userID' = userID \/ userID' = [userID EXCEPT ![s] = packet[s]]
      BY <1>3, BindingStep DEF registryVars
    <3> QED  BY <1>0, <3>1 DEF TypeOK, RegistryTypeOK
  <2> QED  BY <1>0, <1>1, <2>1, <2>2 DEF Registration
<1>4. ASSUME NEW s \in Sessions, Unbind(s) PROVE Registration'
  BY <1>0, <1>1, <1>4 DEF Unbind, RemoveUser, TypeOK, RegistryTypeOK, Registration
<1>5. ASSUME NEW s \in Sessions, Unlist(s) PROVE Registration'
  BY <1>0, <1>1, <1>5 DEF Unlist, RemoveSession, TypeOK, RegistryTypeOK, Registration
<1>6. ASSUME NEW s \in Sessions, CloseRead(s) \/ Loop(s) PROVE Registration'
  <2>1. UNCHANGED registryVars
    BY <1>6 DEF CloseRead, Loop
  <2>2. \A t \in Sessions : t # s => rpc'[t] = rpc[t]
    BY <1>0, <1>6 DEF CloseRead, Loop, TypeOK
  <2>3. \/ rpc[s] = "close" /\ rpc'[s] = "done"
        \/ /\ rpc[s] \in {"read", "handle", "publish"}
           /\ rpc'[s] \in {"read", "handle", "publish", "unbind"}
    BY <1>0, <1>6 DEF CloseRead, Loop, TypeOK
  <2> QED  BY <1>0, <1>1, <2>1, <2>2, <2>3 DEF Registration, registryVars
<1>7. CASE UNCHANGED <<registryVars, rpc>>
  BY <1>0, <1>1, <1>7 DEF registryVars, Registration
<1> QED  BY <1>2, <1>3, <1>4, <1>5, <1>6, <1>7, RegistryCases

(* Only Bind makes an entry, for the session whose pump calls it, and both *)
(* halves of Remove come after the entry of that session is gone.          *)
LEMMA NoStaleEntryStep == Inv /\ [Next]_vars => NoStaleEntry'
<1> SUFFICES ASSUME Inv, [Next]_vars, NEW u \in Users, userSessions'[u] # NoSession
             PROVE  /\ userSessions'[u] \in sessions'
                    /\ userID'[userSessions'[u]] = u
                    /\ rpc'[userSessions'[u]] \in {"handle", "read", "publish", "unbind"}
  BY DEF NoStaleEntry
<1>0. TypeOK /\ Registration /\ NoStaleEntry
  BY DEF Inv
<1> DEFINE e == userSessions'[u]
           Fresh == /\ e \in sessions'
                    /\ userID'[e] = u
                    /\ rpc'[e] \in {"handle", "read", "publish", "unbind"}
<1>1. e \in Sessions
  BY TypeStep DEF TypeOK, RegistryTypeOK
<1>2. userSessions[u] = e => /\ e \in sessions /\ userID[e] = u
                             /\ rpc[e] \in {"handle", "read", "publish", "unbind"}
  BY <1>0 DEF NoStaleEntry
<1>3. ASSUME NEW s \in Sessions, HandleConnection(s) PROVE Fresh
  BY <1>0, <1>1, <1>2, <1>3 DEF HandleConnection, Add, TypeOK
<1>4. ASSUME NEW s \in Sessions, RouteChat(s) PROVE Fresh
  <2>1. rpc[s] = "handle" /\ s \in sessions /\ sessions' = sessions
    BY <1>0, <1>4, BindingStep DEF Registration
  <2>2. \A t \in Sessions : rpc'[t] = IF t = s THEN "publish" ELSE rpc[t]
    BY <1>0, <1>4, BindingStep DEF TypeOK
  <2>3. CASE UNCHANGED registryVars
    BY <1>1, <1>2, <2>1, <2>2, <2>3 DEF registryVars
  <2>4. CASE /\ userID[s] = NoUser /\ packet[s] \in Users
             /\ userID' = [userID EXCEPT ![s] = packet[s]]
             /\ userSessions' = [userSessions EXCEPT ![packet[s]] = s]
    <3>1. CASE u = packet[s]
      BY <1>0, <1>1, <2>1, <2>2, <2>4, <3>1 DEF TypeOK, RegistryTypeOK
    <3>2. CASE u # packet[s]
      <4>1. userSessions[u] = e
        BY <1>0, <2>4, <3>2 DEF TypeOK, RegistryTypeOK
      <4>2. e # s
        BY <1>2, <2>4, <4>1
      <4> QED  BY <1>0, <1>1, <1>2, <2>1, <2>2, <2>4, <4>1, <4>2 DEF TypeOK, RegistryTypeOK
    <3> QED  BY <3>1, <3>2
  <2> QED  BY <1>4, <2>3, <2>4, BindingStep
<1>5. ASSUME NEW s \in Sessions, Unbind(s) PROVE Fresh
  <2>1. userSessions[u] = e
    BY <1>0, <1>1, <1>5 DEF Unbind, RemoveUser, TypeOK, RegistryTypeOK
  <2>2. e # s
    BY <1>0, <1>2, <1>5, <2>1 DEF Unbind, RemoveUser, TypeOK, RegistryTypeOK
  <2> QED  BY <1>0, <1>1, <1>2, <1>5, <2>1, <2>2 DEF Unbind, RemoveUser, TypeOK
<1>6. ASSUME NEW s \in Sessions, Unlist(s) PROVE Fresh
  BY <1>0, <1>1, <1>2, <1>6 DEF Unlist, RemoveSession, TypeOK
<1>7. ASSUME NEW s \in Sessions, CloseRead(s) \/ Loop(s) PROVE Fresh
  BY <1>0, <1>1, <1>2, <1>7 DEF CloseRead, Loop, registryVars, TypeOK
<1>8. CASE UNCHANGED <<registryVars, rpc>>
  BY <1>2, <1>8 DEF registryVars
<1> QED  BY <1>3, <1>4, <1>5, <1>6, <1>7, <1>8, RegistryCases

(* An entry is lost only to a Bind or a Remove of a session of that user.  *)
LEMMA SoleSessionStep == Inv /\ [Next]_vars => SoleSessionReachable'
<1> SUFFICES ASSUME Inv, [Next]_vars, NEW r \in Sessions,
                    userID'[r] # NoUser, Live(r)',
                    \A t \in Sessions \ {r} : userID'[t] # userID'[r]
             PROVE  GetByUserID(userID[r])' = r
  BY DEF SoleSessionReachable
<1> DEFINE Found == userSessions'[userID'[r]] = r
<1>0. TypeOK /\ Registration /\ SoleSessionReachable
  BY DEF Inv
<1>1. SUFFICES Found
  BY <1>0, TypeStep DEF GetByUserID, TypeOK, RegistryTypeOK
<1>2. ASSUME UNCHANGED <<userID, userSessions>>, Live(r) PROVE Found
  BY <1>0, <1>2 DEF SoleSessionReachable, GetByUserID, TypeOK, RegistryTypeOK
<1>3. ASSUME NEW s \in Sessions, HandleConnection(s) PROVE Found
  <2>1. r # s
    BY <1>0, <1>3 DEF HandleConnection, Add, Registration
  <2> QED  BY <1>0, <1>2, <1>3, <2>1 DEF HandleConnection, Add, Live, TypeOK
<1>4. ASSUME NEW s \in Sessions, RouteChat(s) PROVE Found
  <2>1. Live(r)
    BY <1>0, <1>4, BindingStep DEF Live, TypeOK
  <2>2. CASE UNCHANGED registryVars
    BY <1>2, <2>1, <2>2 DEF registryVars
  <2>3. CASE /\ userID[s] = NoUser /\ packet[s] \in Users
             /\ userID' = [userID EXCEPT ![s] = packet[s]]
             /\ userSessions' = [userSessions EXCEPT ![packet[s]] = s]
    <3>1. CASE r = s
      BY <1>0, <2>3, <3>1 DEF TypeOK, RegistryTypeOK
    <3>2. CASE r # s
      <4>1. /\ userID'[r] = userID[r] /\ userID'[s] = packet[s]
            /\ userID[r] # packet[s]
        BY <1>0, <2>3, <3>2 DEF TypeOK, RegistryTypeOK
      <4>2. \A t \in Sessions \ {r} : userID[t] # userID[r]
        BY <1>0, <2>3, <4>1 DEF TypeOK, RegistryTypeOK
      <4>3. GetByUserID(userID[r]) = r
        BY <1>0, <2>1, <4>1, <4>2 DEF SoleSessionReachable
      <4> QED  BY <1>0, <2>3, <4>1, <4>3 DEF GetByUserID, TypeOK, RegistryTypeOK
    <3> QED  BY <3>1, <3>2
  <2> QED  BY <1>4, <2>2, <2>3, BindingStep
<1>5. ASSUME NEW s \in Sessions, Unbind(s) PROVE Found
  <2>1. r # s /\ Live(r) /\ userID' = userID
    BY <1>0, <1>5 DEF Unbind, RemoveUser, Live, TypeOK
  <2>2. GetByUserID(userID[r]) = r /\ userID[s] # userID[r]
    BY <1>0, <2>1 DEF SoleSessionReachable
  <2> QED  BY <1>0, <1>5, <2>1, <2>2 DEF Unbind, RemoveUser, GetByUserID, TypeOK, RegistryTypeOK
<1>6. ASSUME NEW s \in Sessions, Unlist(s) PROVE Found
  BY <1>0, <1>2, <1>6 DEF Unlist, RemoveSession, Live, TypeOK
<1>7. ASSUME NEW s \in Sessions, CloseRead(s) \/ Loop(s) PROVE Found
  <2>1. UNCHANGED registryVars /\ Live(r)
    BY <1>0, <1>7 DEF CloseRead, Loop, registryVars, Live, TypeOK
  <2> QED  BY <1>2, <2>1 DEF registryVars
<1>8. CASE UNCHANGED <<registryVars, rpc>>
  BY <1>2, <1>8 DEF registryVars, Live
<1> QED  BY <1>3, <1>4, <1>5, <1>6, <1>7, <1>8, RegistryCases

(* Only routeChatPacket leads to a publication, and it has bound by then.  *)
LEMMA BoundBeforePublishStep == Inv /\ [Next]_vars => BoundBeforePublish'
<1> SUFFICES ASSUME Inv, [Next]_vars, NEW r \in Sessions,
                    rpc'[r] = "publish", packet'[r] \in Users
             PROVE  userID'[r] # NoUser /\ r \in sessions'
  BY DEF BoundBeforePublish
<1>0. TypeOK /\ Registration /\ BoundBeforePublish /\ Registration'
  BY RegistrationStep DEF Inv
<1>1. r \in sessions'
  BY <1>0 DEF Registration
<1>2. ASSUME NEW s \in Sessions, RouteChat(s) PROVE userID'[r] # NoUser
  <2>1. packet'[r] = packet[r] /\ (r # s => rpc[r] = "publish")
    BY <1>0, <1>2, BindingStep DEF TypeOK
  <2>2. CASE UNCHANGED registryVars /\ (packet[s] \in Users => userID[s] # NoUser)
    BY <1>0, <2>1, <2>2 DEF BoundBeforePublish, registryVars
  <2>3. CASE userID[s] = NoUser /\ packet[s] \in Users
             /\ userID' = [userID EXCEPT ![s] = packet[s]]
    <3>1. r # s => userID[r] # NoUser
      BY <1>0, <2>1 DEF BoundBeforePublish
    <3> QED  BY <1>0, <2>3, <3>1 DEF TypeOK, RegistryTypeOK
  <2> QED  BY <1>2, <2>2, <2>3, BindingStep
<1>3. ASSUME UNCHANGED userID, rpc[r] = "publish", packet[r] = packet'[r]
      PROVE  userID'[r] # NoUser
  BY <1>0, <1>3 DEF BoundBeforePublish
<1>4. ASSUME NEW s \in Sessions, ReadPump(s), ~ RouteChat(s) PROVE userID'[r] # NoUser
  <2>1. CASE ReadPacket(s) \/ ReadError(s)
    BY <1>0, <1>3, <2>1 DEF ReadPacket, ReadError, registryVars, TypeOK
  <2>2. CASE DecodeError(s) \/ Unrouted(s) \/ Publish(s)
    BY <1>0, <1>3, <2>2 DEF DecodeError, Unrouted, Publish, registryVars, TypeOK
  <2>3. CASE Unbind(s) \/ Unlist(s) \/ CloseRead(s)
    BY <1>0, <1>3, <2>3 DEF Unbind, RemoveUser, Unlist, RemoveSession, CloseRead,
                            registryVars, TypeOK
  <2> QED  BY <1>4, <2>1, <2>2, <2>3 DEF ReadPump, ReadPumpStep
<1>5. ASSUME NEW s \in Sessions, HandleConnection(s) \/ Disconnect(s) \/ WritePump(s)
      PROVE  userID'[r] # NoUser
  BY <1>0, <1>3, <1>5
     DEF HandleConnection, Add, Disconnect, WritePump, WritePumpStep, TakeSend, WriteOk,
         WriteError, PingError, CloseWrite, OnlyWritePump, readVars, registryVars, TypeOK
<1>6. CASE Arrive \/ Consumer \/ UNCHANGED vars
  <2>1. userID' = userID /\ rpc' = rpc /\ packet' = packet
    BY <1>6 DEF Arrive, Consumer, Lookup, Enqueue, OnlyConsumer, vars, readVars, registryVars
  <2> QED  BY <1>1, <1>3, <2>1
<1> QED  BY <1>1, <1>2, <1>4, <1>5, <1>6 DEF Next

-----------------------------------------------------------------------------
(* The messages *)

(* An element of a concatenation is an element of one of the two parts. *)
LEMMA ConcatElement ==
    ASSUME NEW S, NEW p \in Seq(S), NEW q \in Seq(S), NEW e \in Elements(p \o q)
    PROVE  e \in Elements(p) \/ e \in Elements(q)
<1>1. PICK k \in 1..Len(p) + Len(q) : e = (p \o q)[k]
  BY DEF Elements
<1>2. CASE k <= Len(p)
  BY <1>1, <1>2 DEF Elements
<1>3. CASE k > Len(p)
  <2>1. k - Len(p) \in DOMAIN q /\ e = q[k - Len(p)]
    BY <1>1, <1>3
  <2> QED  BY <2>1 DEF Elements
<1> QED  BY <1>1, <1>2, <1>3

(* A write pump starts with its connection, and holds a message exactly    *)
(* from taking it off Session.Send to the end of the write.                *)
LEMMA WritingStep == Inv /\ [Next]_vars => Writing'
<1> SUFFICES ASSUME Inv, [Next]_vars PROVE Writing'
  OBVIOUS
<1>0. TypeOK /\ Writing
  BY DEF Inv
<1>1. \A s \in Sessions : conn'[s] = "none" => conn[s] = "none"
  BY ConnectionStep
<1>2. ASSUME UNCHANGED <<wpc, wmsg>> PROVE Writing'
  BY <1>0, <1>1, <1>2 DEF Writing
<1>3. ASSUME NEW s \in Sessions, HandleConnection(s) PROVE Writing'
  <2>1. wmsg[s] = 0
    BY <1>0, <1>3 DEF HandleConnection, Writing
  <2>2. \A t \in Sessions : /\ wmsg'[t] = wmsg[t]
                            /\ wpc'[t] = IF t = s THEN "select" ELSE wpc[t]
                            /\ conn'[s] = "open"
    BY <1>0, <1>3 DEF HandleConnection, TypeOK
  <2> QED  BY <1>0, <1>1, <2>1, <2>2 DEF Writing
<1>4. ASSUME NEW s \in Sessions, WritePump(s) PROVE Writing'
  <2>1. CASE TakeSend(s)
    <3>1. Head(send[s]) \in Message
      BY <1>0, <2>1 DEF TakeSend, TypeOK
    <3> QED  BY <1>0, <1>1, <2>1, <3>1 DEF TakeSend, TypeOK, Writing, Message
  <2>2. CASE WriteOk(s) \/ WriteError(s)
    BY <1>0, <1>1, <2>2 DEF WriteOk, WriteError, TypeOK, Writing
  <2>3. CASE PingError(s) \/ CloseWrite(s)
    BY <1>0, <1>1, <2>3 DEF PingError, CloseWrite, TypeOK, Writing
  <2> QED  BY <1>4, <2>1, <2>2, <2>3 DEF WritePump, WritePumpStep
<1>5. ASSUME NEW s \in Sessions, Disconnect(s) \/ ReadPump(s) PROVE Writing'
  BY <1>2, <1>5 DEF Disconnect, ReadPump, ReadPumpStep, ReadPacket, ReadError, DecodeError,
                    Unrouted, RouteChat, Publish, Unbind, Unlist, CloseRead, OnlyReadPump,
                    writeVars
<1>6. CASE Arrive \/ Consumer \/ UNCHANGED vars
  BY <1>2, <1>6 DEF Arrive, Consumer, Lookup, Enqueue, OnlyConsumer, vars, writeVars
<1> QED  BY <1>3, <1>4, <1>5, <1>6 DEF Next

(* A step that leaves the queues and the order of arrival alone, and binds *)
(* at most a session that was not bound, keeps every message where it is.  *)
LEMMA QuietStep ==
    ASSUME Inv, UNCHANGED <<send, wmsg, delivered, arrived, taken, csess>>,
           \A s \in Sessions : userID[s] # NoUser => userID'[s] = userID[s]
    PROVE  Addressing'
<1>1. ASSUME NEW i, NEW s \in Sessions, IsFor(i, s) PROVE IsFor(i, s)'
  BY <1>1 DEF IsFor
<1>2. csess # NoSession => csess \in Sessions
  BY DEF Inv, TypeOK
<1> QED  BY <1>1, <1>2 DEF Inv, Addressing

(* A message stays addressed to the user of its session on the way from    *)
(* the lookup through Session.Send to the connection: a user is bound once.*)
LEMMA AddressingStep == Inv /\ [Next]_vars => Addressing'
<1> SUFFICES ASSUME Inv, [Next]_vars PROVE Addressing'
  OBVIOUS
<1>0. TypeOK /\ Addressing
  BY DEF Inv
<1>1. ASSUME NEW s \in Sessions, HandleConnection(s) \/ Disconnect(s) PROVE Addressing'
  BY <1>1, QuietStep DEF HandleConnection, Add, Disconnect, registryVars, writeVars,
                         consumerVars
<1>2. ASSUME NEW s \in Sessions, ReadPump(s) PROVE Addressing'
  <2>1. UNCHANGED <<send, wmsg, delivered, arrived, taken, csess>>
    BY <1>2 DEF ReadPump, ReadPumpStep, ReadPacket, ReadError, DecodeError, Unrouted,
                RouteChat, Publish, Unbind, Unlist, CloseRead, OnlyReadPump, writeVars,
                consumerVars
  <2>2. CASE RouteChat(s)
    <3>1. \/ UNCHANGED registryVars
          \/ userID[s] = NoUser /\ userID' = [userID EXCEPT ![s] = packet[s]]
      BY <2>2, BindingStep
    <3>2. \A t \in Sessions : userID[t] # NoUser => userID'[t] = userID[t]
      BY <1>0, <3>1 DEF TypeOK, RegistryTypeOK, registryVars
    <3> QED  BY <2>1, <3>2, QuietStep
  <2>3. CASE ~ RouteChat(s)
    <3>1. UNCHANGED userID
      BY <1>2, <2>3 DEF ReadPump, ReadPumpStep, ReadPacket, ReadError, DecodeError, Unrouted,
                        Publish, Unbind, RemoveUser, Unlist, RemoveSession, CloseRead,
                        registryVars
    <3> QED  BY <2>1, <3>1, QuietStep
  <2> QED  BY <2>2, <2>3
<1>3. ASSUME NEW s \in Sessions, WritePump(s) PROVE Addressing'
  <2>1. UNCHANGED <<userID, arrived, taken, csess>>
    BY <1>3 DEF WritePump, WritePumpStep, TakeSend, WriteOk, WriteError, PingError,
                CloseWrite, OnlyWritePump, registryVars, consumerVars
  <2>2. \A i, t : IsFor(i, t) => IsFor(i, t)'
    BY <2>1 DEF IsFor
  <2>3. CASE TakeSend(s)
    <3>1. send[s] # <<>> /\ send[s] \in Seq(Message)
      BY <1>0, <2>3 DEF TakeSend, TypeOK
    <3>2. IsFor(Head(send[s]), s) /\ \A k \in DOMAIN Tail(send[s]) : IsFor(Tail(send[s])[k], s)
      BY <1>0, <3>1 DEF Addressing
    <3>3. \A t \in Sessions : /\ send'[t] = IF t = s THEN Tail(send[s]) ELSE send[t]
                              /\ wmsg'[t] = IF t = s THEN Head(send[s]) ELSE wmsg[t]
                              /\ delivered'[t] = delivered[t]
      BY <1>0, <2>3 DEF TakeSend, TypeOK
    <3> QED  BY <1>0, <2>1, <2>2, <3>2, <3>3 DEF Addressing, TypeOK
  <2>4. CASE WriteOk(s)
    <3>1. wmsg[s] # 0 /\ delivered[s] \in Seq(Message)
      BY <1>0, <2>4 DEF WriteOk, Inv, Writing, TypeOK
    <3>2. \A k \in DOMAIN Append(delivered[s], wmsg[s]) : IsFor(Append(delivered[s], wmsg[s])[k], s)
      BY <1>0, <3>1 DEF Addressing
    <3>3. \A t \in Sessions : /\ send'[t] = send[t]
                              /\ wmsg'[t] = IF t = s THEN 0 ELSE wmsg[t]
                              /\ delivered'[t] = IF t = s THEN Append(delivered[s], wmsg[s])
                                                          ELSE delivered[t]
      BY <1>0, <2>4 DEF WriteOk, TypeOK
    <3> QED  BY <1>0, <2>1, <2>2, <3>2, <3>3 DEF Addressing, TypeOK
  <2>5. CASE WriteError(s)
    <3>1. \A t \in Sessions : /\ send'[t] = send[t] /\ delivered'[t] = delivered[t]
                              /\ wmsg'[t] = IF t = s THEN 0 ELSE wmsg[t]
      BY <1>0, <2>5 DEF WriteError, TypeOK
    <3> QED  BY <1>0, <2>1, <2>2, <3>1 DEF Addressing, TypeOK
  <2>6. CASE PingError(s) \/ CloseWrite(s)
    BY <2>6, <2>1, QuietStep DEF PingError, CloseWrite
  <2> QED  BY <1>3, <2>3, <2>4, <2>5, <2>6 DEF WritePump, WritePumpStep
<1>4. CASE Arrive
  <2>1. UNCHANGED <<userID, send, wmsg, delivered, taken, csess>>
    BY <1>4 DEF Arrive, OnlyConsumer, registryVars, writeVars, consumerVars
  <2>2. ASSUME NEW i, NEW s, IsFor(i, s) PROVE IsFor(i, s)'
    <3>1. i \in 1..Len(arrived)
      BY <1>0, <2>2 DEF IsFor, TypeOK
    <3>2. arrived'[i] = arrived[i]
      BY <1>0, <1>4, <3>1 DEF Arrive, TypeOK
    <3> QED  BY <2>1, <2>2, <3>2 DEF IsFor
  <2> QED  BY <1>0, <2>1, <2>2 DEF Addressing
<1>5. CASE Lookup
  <2>1. /\ UNCHANGED <<userID, send, wmsg, delivered, arrived>>
        /\ taken' = taken + 1 /\ taken \in Nat /\ csess = NoSession
    BY <1>0, <1>5 DEF Lookup, OnlyConsumer, registryVars, writeVars, TypeOK
  <2>2. \A i, s : IsFor(i, s) => IsFor(i, s)'
    BY <2>1 DEF IsFor
  <2>3. ASSUME csess' # NoSession PROVE IsFor(taken, csess)'
    <3>1. arrived[taken + 1] \in Users /\ csess' = userSessions[arrived[taken + 1]]
      BY <1>5, <2>3 DEF Lookup, GetByUserID
    <3>2. userID[csess'] = arrived[taken + 1]
      BY <2>3, <3>1 DEF Inv, NoStaleEntry
    <3> QED  BY <2>1, <3>1, <3>2 DEF IsFor
  <2> QED  BY <1>0, <2>1, <2>2, <2>3 DEF Addressing
<1>6. CASE Enqueue
  <2>1. /\ UNCHANGED <<userID, wmsg, delivered, arrived, taken>>
        /\ csess \in Sessions /\ csess' = NoSession
    BY <1>0, <1>6 DEF Enqueue, OnlyConsumer, registryVars, writeVars, TypeOK
  <2>2. \A i, s : IsFor(i, s) => IsFor(i, s)'
    BY <2>1 DEF IsFor
  <2>3. IsFor(taken, csess)
    BY <1>0, <2>1 DEF Addressing
  <2>4. send[csess] \in Seq(Message)
    BY <1>0, <2>1 DEF TypeOK
  <2>5. \A k \in DOMAIN Append(send[csess], taken) : IsFor(Append(send[csess], taken)[k], csess)
    BY <1>0, <2>1, <2>3, <2>4 DEF Addressing
  <2>6. \A s \in Sessions : \A k \in DOMAIN send'[s] : IsFor(send'[s][k], s)
    <3>1. \A s \in Sessions :
              send'[s] = send[s] \/ (s = csess /\ send'[s] = Append(send[csess], taken))
      BY <1>0, <1>6, <2>1 DEF Enqueue, TypeOK
    <3> QED  BY <1>0, <2>5, <3>1 DEF Addressing
  <2> QED  BY <1>0, <2>1, <2>2, <2>6 DEF Addressing
<1>7. CASE UNCHANGED vars
  BY <1>7, QuietStep DEF vars, registryVars, writeVars, consumerVars
<1> QED  BY <1>1, <1>2, <1>3, <1>4, <1>5, <1>6, <1>7 DEF Next, Consumer

-----------------------------------------------------------------------------
(* The order of the messages *)

Queued == \A s \in Sessions : Sorted(Pipeline(s)) /\ UpTo(Pipeline(s), taken)

Apart ==
    \A s, t \in Sessions :
        s # t => Elements(Pipeline(s)) \cap Elements(Pipeline(t)) = {}

Fresh == csess # NoSession => \A s \in Sessions : taken \notin Elements(Pipeline(s))

Order == Queued /\ Apart /\ Fresh

(* What a session holds, in one piece. *)
LEMMA PipelineParts ==
    ASSUME TypeOK, NEW s \in Sessions
    PROVE  /\ delivered[s] \in Seq(Message) /\ send[s] \in Seq(Message)
           /\ delivered[s] \in Seq(Nat) /\ send[s] \in Seq(Nat)
           /\ Pipeline(s) \in Seq(Message) /\ Pipeline(s) \in Seq(Nat)
           /\ wmsg[s] = 0 => Pipeline(s) = delivered[s] \o send[s]
           /\ wmsg[s] # 0 => /\ wmsg[s] \in Message /\ wmsg[s] \in Nat
                            /\ Pipeline(s) = (delivered[s] \o <<wmsg[s]>>) \o send[s]
<1>1. /\ delivered[s] \in Seq(Message) /\ send[s] \in Seq(Message)
      /\ wmsg[s] \in Message \cup {0}
  BY DEF TypeOK
<1>2. Message \subseteq Nat
  BY DEF Message
<1>3. \A q \in Seq(Message) : q \in Seq(Nat)
  BY <1>2, SeqMonotonic
<1>4. CASE wmsg[s] = 0
  <2>1. delivered[s] \o Holding(s) = delivered[s]
    BY <1>1, <1>4 DEF Holding
  <2> QED  BY <1>1, <1>3, <1>4, <2>1 DEF Pipeline
<1>5. CASE wmsg[s] # 0
  <2>1. Pipeline(s) = (delivered[s] \o <<wmsg[s]>>) \o send[s]
    BY <1>5 DEF Pipeline, Holding
  <2>a. wmsg[s] \in Message /\ wmsg[s] \in Nat
    BY <1>1, <1>2, <1>5
  <2>2. <<wmsg[s]>> \in Seq(Message)
    BY <2>a
  <2>3. Pipeline(s) \in Seq(Message)
    BY <1>1, <2>1, <2>2
  <2> QED  BY <1>1, <1>3, <1>5, <2>1, <2>a, <2>3
<1> QED  BY <1>4, <1>5

(* A step of a write pump passes a message on or loses it. *)
LEMMA WritePumpOrder ==
    ASSUME Inv, Inv', Queued, NEW s \in Sessions, WritePump(s)
    PROVE  /\ \A t \in Sessions \ {s} : Pipeline(t)' = Pipeline(t)
           /\ Sorted(Pipeline(s)') /\ UpTo(Pipeline(s)', taken)
           /\ Elements(Pipeline(s)') \subseteq Elements(Pipeline(s))
<1>0. TypeOK /\ TypeOK' /\ Writing
  BY DEF Inv
<1> USE <1>0
<1>1. \A t \in Sessions \ {s} :
          UNCHANGED <<delivered[t], wmsg[t], send[t]>>
  BY DEF WritePump, WritePumpStep, TakeSend, WriteOk, WriteError, PingError, CloseWrite, TypeOK
<1>2. \A t \in Sessions \ {s} : Pipeline(t)' = Pipeline(t)
  BY <1>1 DEF Pipeline, Holding
<1>3. ASSUME Pipeline(s)' = Pipeline(s)
      PROVE  /\ Sorted(Pipeline(s)') /\ UpTo(Pipeline(s)', taken)
             /\ Elements(Pipeline(s)') \subseteq Elements(Pipeline(s))
  BY <1>3 DEF Queued
<1>4. CASE TakeSend(s)
  <2>1. wmsg[s] = 0 /\ send[s] # <<>>
    BY <1>4 DEF TakeSend, Writing
  <2>2. /\ wmsg'[s] = Head(send[s]) /\ send'[s] = Tail(send[s])
        /\ delivered'[s] = delivered[s]
    BY <1>4 DEF TakeSend, TypeOK
  <2>3. Head(send[s]) \in Message
    BY <2>1, MoveHead, PipelineParts
  <2>4. wmsg'[s] # 0
    BY <2>2, <2>3 DEF Message
  <2>5. Pipeline(s)' = (delivered[s] \o <<Head(send[s])>>) \o Tail(send[s])
    BY <2>2, <2>4 DEF Pipeline, Holding
  <2>6. /\ Pipeline(s) = delivered[s] \o send[s]
        /\ delivered[s] \in Seq(Message) /\ send[s] \in Seq(Message)
    BY <2>1, PipelineParts
  <2>7. (delivered[s] \o <<Head(send[s])>>) \o Tail(send[s]) = delivered[s] \o send[s]
    <3>1. delivered[s] \in Seq(Message)
      BY <2>6
    <3>2. send[s] \in Seq(Message)
      BY <2>6
    <3>3. send[s] # <<>>
      BY <2>1
    <3> QED  BY ONLY <3>1, <3>2, <3>3, MoveHead
  <2>8. Pipeline(s)' = Pipeline(s)
    BY <2>5, <2>6, <2>7
  <2> QED  BY <1>2, <1>3, <2>8
<1>5. CASE WriteOk(s)
  <2>1. wmsg[s] # 0
    BY <1>5 DEF WriteOk, Writing
  <2>2. /\ wmsg'[s] = 0 /\ send'[s] = send[s]
        /\ delivered'[s] = Append(delivered[s], wmsg[s])
    BY <1>5 DEF WriteOk, TypeOK
  <2>a. delivered[s] \in Seq(Message) /\ wmsg[s] \in Message
    BY <2>1, PipelineParts
  <2>3. delivered'[s] = delivered[s] \o <<wmsg[s]>>
    BY <2>2, <2>a, AppendIsConcat
  <2>4. delivered'[s] \in Seq(Message)
    BY DEF TypeOK
  <2>5. Pipeline(s)' = delivered'[s] \o send[s]
    BY <2>2, <2>4 DEF Pipeline, Holding
  <2>6. Pipeline(s) = (delivered[s] \o <<wmsg[s]>>) \o send[s]
    BY <2>1, PipelineParts
  <2>7. Pipeline(s)' = Pipeline(s)
    BY <2>3, <2>5, <2>6
  <2> QED  BY <1>2, <1>3, <2>7
<1>6. CASE WriteError(s)
  <2>1. wmsg[s] # 0
    BY <1>6 DEF WriteError, Writing
  <2>2. wmsg'[s] = 0 /\ send'[s] = send[s] /\ delivered'[s] = delivered[s]
    BY <1>6 DEF WriteError, TypeOK
  <2>3. delivered[s] \in Seq(Nat) /\ send[s] \in Seq(Nat) /\ wmsg[s] \in Nat
    BY <2>1, PipelineParts
  <2>4. Pipeline(s) = (delivered[s] \o <<wmsg[s]>>) \o send[s]
    BY <2>1, PipelineParts
  <2>5. Pipeline(s)' = delivered[s] \o send[s]
    BY <2>2, <2>3 DEF Pipeline, Holding
  <2>6. /\ Sorted((delivered[s] \o <<wmsg[s]>>) \o send[s])
        /\ UpTo((delivered[s] \o <<wmsg[s]>>) \o send[s], taken)
    BY <2>4 DEF Queued
  <2>a. taken \in Nat
    BY DEF TypeOK
  <2>b. /\ Sorted(delivered[s] \o send[s]) /\ UpTo(delivered[s] \o send[s], taken)
        /\ \A i \in DOMAIN (delivered[s] \o send[s]) :
               \E k \in DOMAIN ((delivered[s] \o <<wmsg[s]>>) \o send[s]) :
                   (delivered[s] \o send[s])[i] = ((delivered[s] \o <<wmsg[s]>>) \o send[s])[k]
    BY <2>3, <2>6, <2>a, LossSorted
  <2>7. Sorted(Pipeline(s)') /\ UpTo(Pipeline(s)', taken)
    BY <2>5, <2>b
  <2>c. \A i \in DOMAIN (Pipeline(s)') : \E k \in DOMAIN Pipeline(s) :
            (Pipeline(s)')[i] = Pipeline(s)[k]
    BY <2>4, <2>5, <2>b
  <2>8. Elements(Pipeline(s)') \subseteq Elements(Pipeline(s))
    BY <2>c DEF Elements
  <2> QED  BY <1>2, <2>7, <2>8
<1>7. CASE PingError(s) \/ CloseWrite(s)
  <2>1. UNCHANGED <<delivered, wmsg, send>>
    BY <1>7 DEF PingError, CloseWrite
  <2> QED  BY <1>3, <2>1 DEF Pipeline, Holding
<1> QED  BY <1>2, <1>4, <1>5, <1>6, <1>7 DEF WritePump, WritePumpStep

(* A step that adds nothing to any pipeline, and after which the message   *)
(* that waits to be queued, if there is one, is the same as before.        *)
LEMMA OrderKept ==
    ASSUME Order,
           \A s \in Sessions : /\ Sorted(Pipeline(s)') /\ UpTo(Pipeline(s)', taken')
                               /\ Elements(Pipeline(s)') \subseteq Elements(Pipeline(s)),
           csess' # NoSession => csess # NoSession /\ taken' = taken
    PROVE  Order'
<1>1. Queued'
  BY DEF Queued
<1>2. Apart'
  BY DEF Apart, Order
<1>3. Fresh'
  BY DEF Fresh, Order
<1> QED  BY <1>1, <1>2, <1>3 DEF Order

(* A step that leaves every pipeline alone. *)
LEMMA OrderSame ==
    ASSUME Order, UNCHANGED <<send, wmsg, delivered, taken, csess>>
    PROVE  Order'
BY DEF Order, Queued, Apart, Fresh, Pipeline, Holding

(* A message is new to every session when it is queued, and greater than   *)
(* all those that were queued before.                                      *)
LEMMA OrderStep == Inv /\ Inv' /\ Order /\ [Next]_vars => Order'
<1> SUFFICES ASSUME Inv, Inv', Order, [Next]_vars PROVE Order'
  OBVIOUS
<1>0. TypeOK /\ Queued /\ Apart /\ Fresh /\ taken \in Nat
  BY DEF Inv, TypeOK, Order
<1>1. ASSUME NEW s \in Sessions, HandleConnection(s) \/ Disconnect(s) PROVE Order'
  BY <1>1, OrderSame DEF HandleConnection, Disconnect, writeVars, consumerVars
<1>2. ASSUME NEW s \in Sessions, ReadPump(s) PROVE Order'
  BY <1>2, OrderSame DEF ReadPump, ReadPumpStep, ReadPacket, ReadError, DecodeError,
                         Unrouted, RouteChat, Publish, Unbind, Unlist, CloseRead,
                         OnlyReadPump, writeVars, consumerVars
<1>3. ASSUME NEW s \in Sessions, WritePump(s) PROVE Order'
  <2>1. UNCHANGED <<taken, csess>>
    BY <1>3 DEF WritePump, WritePumpStep, TakeSend, WriteOk, WriteError, PingError,
                CloseWrite, OnlyWritePump, consumerVars
  <2>2. /\ \A t \in Sessions \ {s} : Pipeline(t)' = Pipeline(t)
        /\ Sorted(Pipeline(s)') /\ UpTo(Pipeline(s)', taken)
        /\ Elements(Pipeline(s)') \subseteq Elements(Pipeline(s))
    BY <1>0, <1>3, WritePumpOrder
  <2>3. \A t \in Sessions : /\ Sorted(Pipeline(t)') /\ UpTo(Pipeline(t)', taken')
                            /\ Elements(Pipeline(t)') \subseteq Elements(Pipeline(t))
    BY <1>0, <2>1, <2>2 DEF Queued
  <2> QED  BY <2>1, <2>3, OrderKept
<1>4. CASE Arrive
  BY <1>4, OrderSame DEF Arrive, OnlyConsumer, writeVars, consumerVars
<1>5. CASE Lookup
  <2>1. /\ csess = NoSession /\ taken' = taken + 1
        /\ UNCHANGED <<send, wmsg, delivered>>
    BY <1>5 DEF Lookup, OnlyConsumer, writeVars
  <2>2. \A s \in Sessions : Pipeline(s)' = Pipeline(s)
    BY <2>1 DEF Pipeline, Holding
  <2>3. ASSUME NEW s \in Sessions, NEW i \in DOMAIN Pipeline(s)
        PROVE  Pipeline(s)[i] <= taken + 1 /\ Pipeline(s)[i] # taken + 1
    <3>1. Pipeline(s)[i] <= taken
      BY <1>0 DEF Queued, UpTo
    <3>2. Pipeline(s)[i] \in Nat
      <4>1. Pipeline(s) \in Seq(Nat)
        BY <1>0, PipelineParts
      <4> QED  BY <4>1, ElementIn
    <3> QED  BY <1>0, <3>1, <3>2
  <2>4. Queued'
    BY <1>0, <2>1, <2>2, <2>3 DEF Queued, UpTo
  <2>5. Apart'
    BY <1>0, <2>2 DEF Apart
  <2>6. Fresh'
    BY <2>1, <2>2, <2>3 DEF Fresh, Elements
  <2> QED  BY <2>4, <2>5, <2>6 DEF Order
<1>6. CASE Enqueue
  <2>0. csess # NoSession /\ csess' = NoSession
    BY <1>6 DEF Enqueue
  <2>c. PICK c \in Sessions : c = csess
    BY <1>0, <2>0 DEF TypeOK
  <2>1. /\ c \in Sessions /\ csess' = NoSession /\ csess = c /\ c # NoSession
        /\ UNCHANGED <<wmsg, delivered, taken>>
    BY <1>6, <2>0, <2>c DEF Enqueue, OnlyConsumer, writeVars
  <2>2. \A s \in Sessions \ {c} : send'[s] = send[s]
    BY <1>0, <1>6, <2>1 DEF Enqueue, TypeOK
  <2>3. \A s \in Sessions \ {c} : Pipeline(s)' = Pipeline(s)
    BY <2>1, <2>2 DEF Pipeline, Holding
  <2>4. send'[c] = send[c] \/ send'[c] = Append(send[c], taken)
    BY <1>0, <1>6, <2>1 DEF Enqueue, TypeOK
  <2>5. CASE send'[c] = send[c]
    <3>1. \A s \in Sessions : Pipeline(s)' = Pipeline(s)
      BY <2>1, <2>3, <2>5 DEF Pipeline, Holding
    <3>2. \A s \in Sessions : /\ Sorted(Pipeline(s)') /\ UpTo(Pipeline(s)', taken')
                              /\ Elements(Pipeline(s)') \subseteq Elements(Pipeline(s))
      BY <1>0, <2>1, <3>1 DEF Queued
    <3> QED  BY <2>1, <3>2, OrderKept
  <2>6. CASE send'[c] = Append(send[c], taken)
    <3> DEFINE P == Pipeline(c)
               D == delivered[c] \o Holding(c)
    <3>1. /\ delivered[c] \in Seq(Nat) /\ send[c] \in Seq(Nat)
          /\ Holding(c) \in Seq(Nat) /\ P \in Seq(Nat)
      <4>1. /\ delivered[c] \in Seq(Nat) /\ send[c] \in Seq(Nat) /\ P \in Seq(Nat)
        BY <1>0, <2>1, PipelineParts
      <4>2. wmsg[c] \in Nat
        BY <1>0, <2>1 DEF TypeOK, Message
      <4> QED  BY <4>1, <4>2 DEF Holding
    <3>2. D \in Seq(Nat)
      BY <3>1
    <3>3. P = D \o send[c]
      BY DEF Pipeline
    <3>a. Holding(c)' = Holding(c) /\ delivered'[c] = delivered[c]
      BY <2>1 DEF Holding
    <3>b. Pipeline(c)' = delivered'[c] \o Holding(c)' \o send'[c]
      BY <2>1 DEF Pipeline
    <3>c. Pipeline(c)' = D \o Append(send[c], taken)
      BY <2>6, <3>a, <3>b
    <3> HIDE DEF P, D
    <3>d. send[c] \in Seq(Nat) /\ taken \in Nat
      BY <1>0, <3>1
    <3>4. D \o Append(send[c], taken) = Append(D \o send[c], taken)
      BY ONLY <3>2, <3>d, AppendLast
    <3>5. Pipeline(c)' = Append(P, taken)
      BY <3>3, <3>c, <3>4
    <3>6. Sorted(P) /\ \A i \in DOMAIN P : P[i] < taken
      <4>1. Sorted(P) /\ UpTo(P, taken)
        BY <1>0, <2>1 DEF Queued, P
      <4>2. \A i \in DOMAIN P : P[i] # taken
        BY <1>0, <2>1 DEF Fresh, Elements, P
      <4>3. P \in Seq(Nat)
        BY <3>1
      <4>4. \A i \in DOMAIN P : P[i] \in Nat
        BY ONLY <4>3, ElementIn
      <4> QED  BY <3>d, <4>1, <4>2, <4>4 DEF UpTo
    <3>7. /\ Sorted(Append(P, taken)) /\ UpTo(Append(P, taken), taken)
          /\ \A i \in DOMAIN Append(P, taken) :
                 Append(P, taken)[i] = taken \/ \E k \in DOMAIN P : Append(P, taken)[i] = P[k]
      <4>1. P \in Seq(Nat) /\ taken \in Nat
        BY <3>1, <3>d
      <4> QED  BY ONLY <3>6, <4>1, AppendSorted
    <3>8. Queued'
      <4>1. ASSUME NEW s \in Sessions
            PROVE  Sorted(Pipeline(s)') /\ UpTo(Pipeline(s)', taken)
        <5>1. CASE s = c
          BY <3>5, <3>7, <5>1
        <5>2. CASE s # c
          BY <1>0, <2>3, <5>2 DEF Queued
        <5> QED  BY <5>1, <5>2
      <4> QED  BY <2>1, <4>1 DEF Queued
    <3>9. Elements(Append(P, taken)) \subseteq Elements(P) \cup {taken}
      BY <3>7 DEF Elements
    <3>10. ASSUME NEW s \in Sessions, s # c
           PROVE  Elements(Pipeline(s)') \cap Elements(Pipeline(c)') = {}
      <4>1. Elements(Pipeline(s)) \cap Elements(P) = {}
        BY <1>0, <2>1, <3>10 DEF Apart, P
      <4>2. taken \notin Elements(Pipeline(s))
        BY <1>0, <2>1 DEF Fresh
      <4>3. Elements(Pipeline(s)') = Elements(Pipeline(s))
        BY <2>3, <3>10
      <4>4. Elements(Pipeline(c)') \subseteq Elements(P) \cup {taken}
        BY <3>5, <3>9
      <4> QED  BY <4>1, <4>2, <4>3, <4>4
    <3>11. ASSUME NEW s \in Sessions, NEW t \in Sessions, s # t
           PROVE  Elements(Pipeline(s)') \cap Elements(Pipeline(t)') = {}
      <4>1. CASE s = c
        BY <3>10, <3>11, <4>1
      <4>2. CASE t = c
        BY <3>10, <3>11, <4>2
      <4>3. CASE s # c /\ t # c
        BY <1>0, <2>3, <3>11, <4>3 DEF Apart
      <4> QED  BY <4>1, <4>2, <4>3
    <3>12. Apart'
      BY <3>11 DEF Apart
    <3>13. Fresh'
      BY <2>1 DEF Fresh
    <3> QED  BY <3>8, <3>12, <3>13 DEF Order
  <2> QED  BY <2>4, <2>5, <2>6
<1>7. CASE UNCHANGED vars
  BY <1>7, OrderSame DEF vars, writeVars, consumerVars
<1> QED  BY <1>1, <1>2, <1>3, <1>4, <1>5, <1>6, <1>7 DEF Next, Consumer

(* There is nothing in any queue at the start. *)
LEMMA OrderInit == Init => Order
<1> SUFFICES ASSUME Init PROVE Order
  OBVIOUS
<1>1. \A s \in Sessions : Pipeline(s) = <<>>
  <2> SUFFICES ASSUME NEW s \in Sessions PROVE Pipeline(s) = <<>>
    OBVIOUS
  <2>1. delivered[s] = <<>> /\ send[s] = <<>> /\ wmsg[s] = 0
    BY DEF Init
  <2>2. Holding(s) = <<>>
    BY <2>1 DEF Holding
  <2> QED  BY <2>1, <2>2 DEF Pipeline
<1>2. csess = NoSession
  BY DEF Init
<1> QED  BY <1>1, <1>2 DEF Order, Queued, Apart, Fresh, Sorted, UpTo, Elements

-----------------------------------------------------------------------------
(* The theorems *)

(* The inductive invariant holds in every reachable state. *)
LEMMA Invariance == Spec => []Inv
<1>1. Inv /\ [Next]_vars => Inv'
  BY TypeStep, WritingStep, RegistrationStep, NoStaleEntryStep, SoleSessionStep,
     BoundBeforePublishStep, AddressingStep DEF Inv
<1> QED  BY <1>1, InitInv, PTL DEF Spec

(* The state keeps its types, and Session.Send its capacity. *)
THEOREM TypeCorrect == Spec => []TypeOK
<1>1. Inv => TypeOK
  BY DEF Inv
<1> QED  BY <1>1, Invariance, PTL

(* However the removals of some sessions and the bindings of others        *)
(* interleave, the user map never points to a dead or foreign session.     *)
THEOREM RegistryConsistent == Spec => []NoStaleEntry
<1>1. Inv => NoStaleEntry
  BY DEF Inv
<1> QED  BY <1>1, Invariance, PTL

(* A live session whose user no other session claimed is always found. *)
THEOREM SoleSessionFound == Spec => []SoleSessionReachable
<1>1. Inv => SoleSessionReachable
  BY DEF Inv
<1> QED  BY <1>1, Invariance, PTL

(* No request of a user overtakes the binding of its session. *)
THEOREM BindingPrecedesPublication == Spec => []BoundBeforePublish
<1>1. Inv => BoundBeforePublish
  BY DEF Inv
<1> QED  BY <1>1, Invariance, PTL

(* No message is ever queued for or written to a session of another user,  *)
(* although the session may have been removed since it was looked up.      *)
THEOREM NothingMisrouted == Spec => []NoMisrouting
<1>1. Inv => NoMisrouting
  <2> SUFFICES ASSUME Inv, NEW s \in Sessions, NEW i \in Elements(Pipeline(s))
               PROVE  arrived[i] = userID[s]
    BY DEF NoMisrouting
  <2>1. /\ delivered[s] \in Seq(Message) /\ send[s] \in Seq(Message)
        /\ wmsg[s] \in Message \cup {0}
    BY DEF Inv, TypeOK
  <2>2. \/ i \in Elements(delivered[s])
        \/ wmsg[s] # 0 /\ i = wmsg[s]
        \/ i \in Elements(send[s])
    <3>1. CASE wmsg[s] = 0
      <4>1. delivered[s] \o Holding(s) = delivered[s]
        BY <2>1, <3>1 DEF Holding
      <4>2. i \in Elements(delivered[s] \o send[s])
        BY <4>1 DEF Pipeline
      <4> QED  BY <2>1, <4>2, ConcatElement
    <3>2. CASE wmsg[s] # 0
      <4>1. <<wmsg[s]>> \in Seq(Message) /\ delivered[s] \o <<wmsg[s]>> \in Seq(Message)
        BY <2>1, <3>2
      <4>2. i \in Elements((delivered[s] \o <<wmsg[s]>>) \o send[s])
        BY <3>2 DEF Pipeline, Holding
      <4>3. i \in Elements(delivered[s] \o <<wmsg[s]>>) \/ i \in Elements(send[s])
        BY <2>1, <4>1, <4>2, ConcatElement
      <4>4. Elements(<<wmsg[s]>>) = {wmsg[s]}
        BY DEF Elements
      <4> QED  BY <2>1, <3>2, <4>1, <4>3, <4>4, ConcatElement
    <3> QED  BY <3>1, <3>2
  <2> QED  BY <2>2 DEF Inv, Addressing, IsFor, Elements
<1> QED  BY <1>1, Invariance, PTL

(* Whatever sessions come and go, and whatever is dropped or lost, a       *)
(* message reaches one session at most, once and in its turn.              *)
THEOREM DeliveredInOrder == Spec => []OrderedAtMostOnce
<1>1. Order => OrderedAtMostOnce
  BY DEF Order, Queued, Apart, Sorted, OrderedAtMostOnce
<1> QED  BY <1>1, Invariance, OrderInit, OrderStep, PTL DEF Spec

(* With its counters the gateway does nothing that it does not do without  *)
(* them, so all of this holds of GatewayMetrics as well.                   *)
THEOREM CountersOnlyWatch == MetricsSpec => Spec
<1>1. MetricsInit => Init
  BY DEF MetricsInit
<1>2. [MetricsNext]_allVars => [Next]_vars
  <2> SUFFICES ASSUME [MetricsNext]_allVars PROVE [Next]_vars
    OBVIOUS
  <2>1. CASE UNCHANGED vars
    BY <2>1
  <2>2. ASSUME NEW s \in Sessions, HandleConnection(s) PROVE Next
    BY <2>2 DEF Next
  <2>3. CASE Uncounted
    BY <2>3 DEF Uncounted, Pumps, Next
  <2> QED  BY <2>1, <2>2, <2>3 DEF MetricsNext, allVars
<1> QED  BY <1>1, <1>2, PTL DEF MetricsSpec, Spec

-----------------------------------------------------------------------------
(* The counters *)

(* A step of a read pump by itself: it never goes back to its start, and   *)
(* it leaves the loop only for its deferred function.                      *)
LEMMA ReadPumpMoves ==
    ASSUME Inv, NEW s \in Sessions, ReadPump(s)
    PROVE  /\ \A t \in Sessions : t # s => rpc'[t] = rpc[t]
           /\ rpc[s] # "off" /\ rpc'[s] # "off"
           /\ Live(s) => rpc'[s] \in {"read", "handle", "publish", "unbind"}
<1>0. rpc \in [Sessions -> {"off", "read", "handle", "publish", "unbind", "unlist", "close", "done"}]
  BY DEF Inv, TypeOK
<1>1. CASE ReadPacket(s) \/ ReadError(s) \/ DecodeError(s)
  BY <1>0, <1>1 DEF ReadPacket, ReadError, DecodeError, Live
<1>2. CASE Unrouted(s) \/ RouteChat(s) \/ Publish(s)
  BY <1>0, <1>2 DEF Unrouted, RouteChat, Publish, Live
<1>3. CASE Unbind(s) \/ Unlist(s) \/ CloseRead(s)
  BY <1>0, <1>3 DEF Unbind, Unlist, CloseRead, Live
<1> QED  BY <1>1, <1>2, <1>3 DEF ReadPump, ReadPumpStep

At(L) == {s \in Sessions : cpc[s] \in L}
InTotal == {"total", "counted", "ended", "gone"}
InActive == {"counted", "ended"}
InEnded == {"ended", "gone"}

(* How far a connection is counted, and what its read pump may do then. *)
Place ==
    \A s \in Sessions :
        /\ rpc[s] = "off" => cpc[s] = "none"
        /\ cpc[s] \in {"added", "total"} => rpc[s] = "read"
        /\ cpc[s] = "counted" => Live(s) \/ rpc[s] = "unbind"
        /\ cpc[s] = "ended" => rpc[s] = "unbind"

(* What the report can still lose: between the loads only what it has not  *)
(* loaded yet grows.                                                       *)
Loaded ==
    /\ ppc \in {"total", "active", "ended"}
    /\ report \in [total : Nat, active : Nat, starting : Nat, ended : Nat]
    /\ ppc = "active" => report.total <= TotalConnections
    /\ ppc = "ended" => report.total <= report.active + report.starting + TotalDisconnections
    /\ ppc = "total" => report.total <= report.active + report.starting + report.ended

Counting ==
    /\ cpc \in [Sessions -> {"none", "added", "total", "counted", "ended", "gone"}]
    /\ Place
    /\ TotalConnections = Cardinality(At(InTotal))
    /\ ActiveConnections = Cardinality(At(InActive))
    /\ TotalDisconnections = Cardinality(At(InEnded))
    /\ Loaded

(* The connections that have come to one of some places: finitely many,    *)
(* and how a step of one connection changes their number.                  *)
LEMMA AtFinite ==
    ASSUME NEW L
    PROVE  /\ IsFiniteSet(At(L)) /\ Cardinality(At(L)) \in Nat
           /\ Cardinality(At(L)) < CounterRange
<1>1. At(L) \subseteq Sessions
  BY DEF At
<1> QED  BY <1>1, CounterAssumption, FS_Subset, FS_CardinalityType

LEMMA AtStep ==
    ASSUME cpc \in [Sessions -> {"none", "added", "total", "counted", "ended", "gone"}],
           NEW s \in Sessions, NEW l, Goto(s, l), NEW L
    PROVE  /\ (cpc[s] \in L <=> l \in L) => At(L)' = At(L)
           /\ cpc[s] \notin L /\ l \in L =>
                  Cardinality(At(L)') = Cardinality(At(L)) + 1
           /\ cpc[s] \in L /\ l \notin L =>
                  /\ Cardinality(At(L)') = Cardinality(At(L)) - 1
                  /\ Cardinality(At(L)) # 0
<1>1. \A t \in Sessions : cpc'[t] = IF t = s THEN l ELSE cpc[t]
  BY DEF Goto
<1>2. CASE cpc[s] \in L <=> l \in L
  BY <1>1, <1>2 DEF At
<1>3. CASE cpc[s] \notin L /\ l \in L
  <2>1. At(L)' = At(L) \cup {s} /\ s \notin At(L)
    BY <1>1, <1>3 DEF At
  <2> QED  BY <1>3, <2>1, AtFinite, FS_AddElement
<1>4. CASE cpc[s] \in L /\ l \notin L
  <2>1. At(L)' = At(L) \ {s} /\ s \in At(L)
    BY <1>1, <1>4 DEF At
  <2>2. At(L) # {}
    BY <2>1
  <2> QED  BY <1>4, <2>1, <2>2, AtFinite, FS_RemoveElement, FS_EmptySet
<1> QED  BY <1>2, <1>3, <1>4

(* Every connection that was counted in is active or has ended, or is      *)
(* between its two additions.                                              *)
LEMMA Parts ==
    /\ Cardinality(At(InTotal)) <=
           Cardinality(At(InActive)) + Cardinality(At({"total"})) + Cardinality(At(InEnded))
    /\ At({"total", "ended"}) = {} =>
           Cardinality(At(InTotal)) = Cardinality(At(InActive)) + Cardinality(At(InEnded))
<1> DEFINE A == At(InActive)
           S == At({"total"})
           E == At(InEnded)
<1>1. /\ IsFiniteSet(A) /\ Cardinality(A) \in Nat
      /\ IsFiniteSet(S) /\ Cardinality(S) \in Nat
      /\ IsFiniteSet(E) /\ Cardinality(E) \in Nat
  BY AtFinite
<1>2. At(InTotal) = (A \cup S) \cup E
  BY DEF At, InTotal, InActive, InEnded
<1>3. At({"total", "ended"}) = {} => S = {} /\ A \cap E = {}
  BY DEF At, InActive, InEnded
<1> HIDE DEF A, S, E
<1>4. /\ IsFiniteSet(A \cup S) /\ Cardinality(A \cup S) \in Nat
      /\ Cardinality(A \cup S) <= Cardinality(A) + Cardinality(S)
  <2>1. /\ IsFiniteSet(A \cup S)
        /\ Cardinality(A \cup S) = Cardinality(A) + Cardinality(S) - Cardinality(A \cap S)
    BY <1>1, FS_Union
  <2>2. Cardinality(A \cap S) \in Nat /\ Cardinality(A \cup S) \in Nat
    BY <1>1, <2>1, FS_Intersection, FS_CardinalityType
  <2> QED  BY <1>1, <2>1, <2>2
<1>5. Cardinality((A \cup S) \cup E) <= Cardinality(A \cup S) + Cardinality(E)
  <2>1. Cardinality((A \cup S) \cup E) =
            Cardinality(A \cup S) + Cardinality(E) - Cardinality((A \cup S) \cap E)
    BY <1>1, <1>4, FS_Union
  <2>2. Cardinality((A \cup S) \cap E) \in Nat
    BY <1>1, <1>4, FS_Intersection, FS_CardinalityType
  <2>3. Cardinality((A \cup S) \cup E) \in Int
    BY <1>1, <1>4, <2>1, <2>2
  <2> QED  BY <1>1, <1>4, <2>1, <2>2
<1>6. Cardinality(At(InTotal)) <= Cardinality(A) + Cardinality(S) + Cardinality(E)
  <2>1. Cardinality(At(InTotal)) \in Nat
    BY AtFinite
  <2> QED  BY <1>1, <1>2, <1>4, <1>5, <2>1
<1>7. At({"total", "ended"}) = {} => Cardinality(At(InTotal)) = Cardinality(A) + Cardinality(E)
  <2> SUFFICES ASSUME At({"total", "ended"}) = {}
               PROVE  Cardinality(At(InTotal)) = Cardinality(A) + Cardinality(E)
    OBVIOUS
  <2>1. At(InTotal) = A \cup E /\ A \cap E = {}
    BY <1>2, <1>3
  <2>2. Cardinality(A \cup E) = Cardinality(A) + Cardinality(E) - Cardinality(A \cap E)
    BY <1>1, FS_Union
  <2>3. Cardinality(A \cap E) = 0
    BY <2>1, FS_EmptySet
  <2> QED  BY <1>1, <2>1, <2>2, <2>3
<1> QED  BY <1>6, <1>7 DEF A, S, E

(* A counter that is not at its end, and one that is not at zero. *)
LEMMA Wrap ==
    ASSUME NEW a \in Nat
    PROVE  /\ a + 1 < CounterRange => (a + 1) % CounterRange = a + 1
           /\ a # 0 /\ a < CounterRange => (a + (CounterRange - 1)) % CounterRange = a - 1
<1>0. CounterRange \in Nat
  BY CounterAssumption
<1>1. ASSUME NEW b \in Nat, b < CounterRange, NEW n \in Nat
      PROVE  (b + n * CounterRange) % CounterRange = b
  BY <1>0, <1>1
<1>2. CASE a + 1 < CounterRange
  <2>1. (a + 1 + 0 * CounterRange) % CounterRange = a + 1
    BY <1>1, <1>2
  <2>2. a + 1 + 0 * CounterRange = a + 1
    BY <1>0
  <2> QED  BY <2>1, <2>2, <1>0, <1>2
<1>3. CASE a # 0 /\ a < CounterRange
  <2>1. (a - 1 + 1 * CounterRange) % CounterRange = a - 1
    BY <1>0, <1>1, <1>3
  <2>2. a - 1 + 1 * CounterRange = a + (CounterRange - 1)
    BY <1>0
  <2> QED  BY <1>0, <1>3, <2>1, <2>2
<1> QED  BY <1>0, <1>2, <1>3

(* The counters tell what they count, and a report what it has loaded. *)
LEMMA CountingStep == Inv /\ Counting /\ [MetricsNext]_allVars => Counting'
<1> SUFFICES ASSUME Inv, Counting, [MetricsNext]_allVars PROVE Counting'
  OBVIOUS
<1> DEFINE T == TotalConnections
           A == ActiveConnections
           D == TotalDisconnections
<1>0. /\ T \in Nat /\ A \in Nat /\ D \in Nat
      /\ T = Cardinality(At(InTotal)) /\ A = Cardinality(At(InActive))
      /\ D = Cardinality(At(InEnded))
      /\ T < CounterRange /\ A < CounterRange /\ D < CounterRange
  BY AtFinite DEF Counting
<1>1. /\ cpc \in [Sessions -> {"none", "added", "total", "counted", "ended", "gone"}]
      /\ Place /\ Loaded
  BY DEF Counting
<1>2. rpc \in [Sessions -> {"off", "read", "handle", "publish", "unbind", "unlist", "close", "done"}]
  BY DEF Inv, TypeOK
<1> HIDE DEF T, A, D
<1>3. ASSUME NEW s \in Sessions, HandleConnection(s), Goto(s, "added"),
             UNCHANGED <<counters, reportVars>>
      PROVE  Counting'
  <2>1. rpc[s] = "off" /\ cpc[s] = "none" /\ rpc' = [rpc EXCEPT ![s] = "read"]
    BY <1>1, <1>3 DEF HandleConnection, Inv, Registration, Place
  <2>2. At(InTotal)' = At(InTotal) /\ At(InActive)' = At(InActive) /\ At(InEnded)' = At(InEnded)
    BY <1>1, <1>3, <2>1, AtStep DEF InTotal, InActive, InEnded
  <2>3. Place'
    BY <1>1, <1>2, <1>3, <2>1 DEF Goto, Place, Live
  <2>4. Loaded'
    BY <1>1, <1>3 DEF Loaded, counters, reportVars
  <2>5. cpc' \in [Sessions -> {"none", "added", "total", "counted", "ended", "gone"}]
    BY <1>1, <1>3 DEF Goto
  <2> QED  BY <1>0, <1>3, <2>2, <2>3, <2>4, <2>5 DEF Counting, counters, T, A, D
<1>4. ASSUME NEW s \in Sessions, IncrementConnections(s), UNCHANGED vars PROVE Counting'
  <2>1. UNCHANGED <<rpc, TotalDisconnections, ppc, report>>
    BY <1>4 DEF vars, readVars, IncrementConnections, reportVars
  <2>2. CASE /\ cpc[s] = "added" /\ Goto(s, "total")
             /\ TotalConnections' = (TotalConnections + 1) % CounterRange
             /\ UNCHANGED ActiveConnections
    <3>1. Cardinality(At(InTotal)') = T + 1
      BY <1>0, <1>1, <2>2, AtStep DEF InTotal
    <3>2. At(InActive)' = At(InActive) /\ At(InEnded)' = At(InEnded)
      BY <1>1, <2>2, AtStep DEF InActive, InEnded
    <3>3. T + 1 < CounterRange
      <4>1. Cardinality({t \in Sessions : cpc'[t] \in InTotal}) < CounterRange
        <5>1. {t \in Sessions : cpc'[t] \in InTotal} \subseteq Sessions
          OBVIOUS
        <5> QED  BY <5>1, CounterAssumption, FS_Subset, FS_CardinalityType
      <4> QED  BY <3>1, <4>1 DEF At
    <3>4. TotalConnections' = T + 1
      BY <1>0, <2>2, <3>3, Wrap DEF T
    <3>5. Place' /\ cpc' \in [Sessions -> {"none", "added", "total", "counted", "ended", "gone"}]
      BY <1>1, <2>1, <2>2 DEF Goto, Place, Live
    <3>6. Loaded'
      BY <1>0, <1>1, <2>1, <3>4 DEF Loaded, T
    <3> QED  BY <1>0, <2>1, <2>2, <3>1, <3>2, <3>4, <3>5, <3>6 DEF Counting, A, D
  <2>3. CASE /\ cpc[s] = "total" /\ Goto(s, "counted")
             /\ ActiveConnections' = (ActiveConnections + 1) % CounterRange
             /\ UNCHANGED TotalConnections
    <3>1. Cardinality(At(InActive)') = A + 1
      BY <1>0, <1>1, <2>3, AtStep DEF InActive
    <3>2. At(InTotal)' = At(InTotal) /\ At(InEnded)' = At(InEnded)
      BY <1>1, <2>3, AtStep DEF InTotal, InEnded
    <3>3. A + 1 < CounterRange
      <4>1. Cardinality({t \in Sessions : cpc'[t] \in InActive}) < CounterRange
        <5>1. {t \in Sessions : cpc'[t] \in InActive} \subseteq Sessions
          OBVIOUS
        <5> QED  BY <5>1, CounterAssumption, FS_Subset, FS_CardinalityType
      <4> QED  BY <3>1, <4>1 DEF At
    <3>4. ActiveConnections' = A + 1
      BY <1>0, <2>3, <3>3, Wrap DEF A
    <3>5. Place' /\ cpc' \in [Sessions -> {"none", "added", "total", "counted", "ended", "gone"}]
      BY <1>1, <2>1, <2>3 DEF Goto, Place, Live
    <3>6. Loaded'
      BY <1>1, <2>1, <2>3 DEF Loaded
    <3> QED  BY <1>0, <2>1, <2>3, <3>1, <3>2, <3>4, <3>5, <3>6 DEF Counting, T, D
  <2> QED  BY <1>4, <2>2, <2>3 DEF IncrementConnections
<1>5. ASSUME NEW s \in Sessions, DecrementConnections(s), UNCHANGED vars PROVE Counting'
  <2>1. UNCHANGED <<rpc, TotalConnections, ppc, report>> /\ rpc[s] = "unbind"
    BY <1>5 DEF vars, readVars, DecrementConnections, reportVars
  <2>2. CASE /\ cpc[s] = "counted" /\ Goto(s, "ended")
             /\ TotalDisconnections' = (TotalDisconnections + 1) % CounterRange
             /\ UNCHANGED ActiveConnections
    <3>1. Cardinality(At(InEnded)') = D + 1
      BY <1>0, <1>1, <2>2, AtStep DEF InEnded
    <3>2. At(InTotal)' = At(InTotal) /\ At(InActive)' = At(InActive)
      BY <1>1, <2>2, AtStep DEF InTotal, InActive
    <3>3. D + 1 < CounterRange
      <4>1. Cardinality({t \in Sessions : cpc'[t] \in InEnded}) < CounterRange
        <5>1. {t \in Sessions : cpc'[t] \in InEnded} \subseteq Sessions
          OBVIOUS
        <5> QED  BY <5>1, CounterAssumption, FS_Subset, FS_CardinalityType
      <4> QED  BY <3>1, <4>1 DEF At
    <3>4. TotalDisconnections' = D + 1
      BY <1>0, <2>2, <3>3, Wrap DEF D
    <3>5. Place' /\ cpc' \in [Sessions -> {"none", "added", "total", "counted", "ended", "gone"}]
      BY <1>1, <2>1, <2>2 DEF Goto, Place, Live
    <3>6. Loaded'
      BY <1>0, <1>1, <2>1, <3>4 DEF Loaded, D
    <3> QED  BY <1>0, <2>1, <2>2, <3>1, <3>2, <3>4, <3>5, <3>6 DEF Counting, T, A
  <2>3. CASE /\ cpc[s] = "ended" /\ Goto(s, "gone")
             /\ ActiveConnections' = (ActiveConnections + (CounterRange - 1)) % CounterRange
             /\ UNCHANGED TotalDisconnections
    <3>1. Cardinality(At(InActive)') = A - 1 /\ A # 0
      BY <1>0, <1>1, <2>3, AtStep DEF InActive
    <3>2. At(InTotal)' = At(InTotal) /\ At(InEnded)' = At(InEnded)
      BY <1>1, <2>3, AtStep DEF InTotal, InEnded
    <3>4. ActiveConnections' = A - 1
      BY <1>0, <2>3, <3>1, Wrap DEF A
    <3>5. Place' /\ cpc' \in [Sessions -> {"none", "added", "total", "counted", "ended", "gone"}]
      BY <1>1, <2>1, <2>3 DEF Goto, Place, Live
    <3>6. Loaded'
      BY <1>1, <2>1, <2>3 DEF Loaded
    <3> QED  BY <1>0, <2>1, <2>3, <3>1, <3>2, <3>4, <3>5, <3>6 DEF Counting, T, D
  <2> QED  BY <1>5, <2>2, <2>3 DEF DecrementConnections
<1>6. ASSUME PrintStats, UNCHANGED vars PROVE Counting'
  <2>1. UNCHANGED <<rpc, cpc, TotalConnections, ActiveConnections, TotalDisconnections>>
    BY <1>6 DEF vars, readVars, PrintStats, counters
  <2>2. Loaded'
    <3>1. CASE ppc = "total"
      BY <1>0, <1>6, <2>1, <3>1 DEF PrintStats, NewReport, Loaded, T
    <3>2. CASE ppc = "active"
      <4>1. PICK starting \in Nat :
                /\ report' = [report EXCEPT !.active = ActiveConnections, !.starting = starting]
                /\ T <= A + starting + D
        <5>1. Cardinality({s \in Sessions : cpc[s] = "total"}) = Cardinality(At({"total"}))
          <6>1. {s \in Sessions : cpc[s] = "total"} = At({"total"})
            BY DEF At
          <6> QED  BY <6>1
        <5> QED  BY <1>0, <1>6, <3>2, <5>1, AtFinite, Parts DEF PrintStats
      <4>2. ppc' = "ended"
        BY <1>6, <3>2 DEF PrintStats
      <4>3. /\ report \in [total : Nat, active : Nat, starting : Nat, ended : Nat]
            /\ report.total <= T
        BY <1>1, <3>2 DEF Loaded, T
      <4>4. report' = [total |-> report.total, active |-> A, starting |-> starting,
                       ended |-> report.ended]
        BY <4>1, <4>3 DEF A
      <4>5. report.total \in Nat /\ report.total <= A + starting + D
        BY <1>0, <4>1, <4>3
      <4>6. report' \in [total : Nat, active : Nat, starting : Nat, ended : Nat]
        BY <1>0, <4>3, <4>4
      <4> QED  BY <2>1, <4>2, <4>4, <4>5, <4>6 DEF Loaded, D
    <3>3. CASE ppc = "ended"
      <4>1. report' = [report EXCEPT !.ended = TotalDisconnections] /\ ppc' = "total"
        BY <1>6, <3>3 DEF PrintStats
      <4> QED  BY <1>0, <1>1, <3>3, <4>1 DEF Loaded, D
    <3> QED  BY <1>1, <3>1, <3>2, <3>3 DEF Loaded
  <2>3. Place'
    BY <1>1, <2>1 DEF Place, Live
  <2>4. At(InTotal)' = At(InTotal) /\ At(InActive)' = At(InActive) /\ At(InEnded)' = At(InEnded)
    BY <2>1 DEF At
  <2> QED  BY <1>0, <1>1, <2>1, <2>2, <2>3, <2>4 DEF Counting, T, A, D
<1>7. ASSUME UNCHANGED metricsVars, Place' PROVE Counting'
  <2>1. UNCHANGED <<cpc, ppc, report, TotalConnections, ActiveConnections, TotalDisconnections>>
    BY <1>7 DEF metricsVars, counters, reportVars
  <2>2. At(InTotal)' = At(InTotal) /\ At(InActive)' = At(InActive) /\ At(InEnded)' = At(InEnded)
    BY <2>1 DEF At
  <2>3. Loaded'
    BY <1>1, <2>1 DEF Loaded
  <2> QED  BY <1>0, <1>1, <1>7, <2>1, <2>2, <2>3 DEF Counting, T, A, D
<1>8. CASE (Uncounted \/ UNCHANGED vars) /\ UNCHANGED metricsVars
  <2>0. UNCHANGED cpc
    BY <1>8 DEF metricsVars
  <2>1. CASE UNCHANGED rpc
    BY <1>1, <1>7, <1>8, <2>0, <2>1 DEF Place, Live
  <2>2. ASSUME NEW s \in Sessions, ReadPump(s), cpc[s] \in {"counted", "ended", "gone"},
               rpc[s] = "unbind" => cpc[s] = "gone"
        PROVE  Counting'
    <3>1. /\ \A t \in Sessions : t # s => rpc'[t] = rpc[t]
          /\ rpc'[s] # "off"
          /\ Live(s) => rpc'[s] \in {"read", "handle", "publish", "unbind"}
      BY <2>2, ReadPumpMoves
    <3>2. cpc[s] = "gone" \/ (cpc[s] = "counted" /\ Live(s))
      BY <1>1, <2>2 DEF Place
    <3> QED  BY <1>1, <1>7, <1>8, <2>0, <3>1, <3>2 DEF Place, Live
  <2>3. ASSUME NEW s \in Sessions, Disconnect(s) \/ WritePump(s) PROVE UNCHANGED rpc
    BY <2>3 DEF Disconnect, WritePump, WritePumpStep, TakeSend, WriteOk, WriteError, PingError,
                CloseWrite, OnlyWritePump, readVars
  <2>4. CASE Arrive \/ Consumer
    BY <2>1, <2>4 DEF Arrive, Consumer, Lookup, Enqueue, OnlyConsumer, readVars
  <2>5. CASE UNCHANGED vars
    BY <2>1, <2>5 DEF vars, readVars
  <2> QED  BY <1>8, <2>1, <2>2, <2>3, <2>4, <2>5 DEF Uncounted, Pumps
<1> QED  BY <1>3, <1>4, <1>5, <1>6, <1>8 DEF MetricsNext, allVars

(* However the connections come and go between the additions and the       *)
(* loads, no counter runs below zero, the counters add up again when no    *)
(* connection is being counted, and no report loses a connection but those *)
(* between their two additions.                                            *)
THEOREM ReportsRight == MetricsSpec => []ReportRight
<1>1. MetricsInit => Counting
  <2> SUFFICES ASSUME MetricsInit PROVE Counting
    OBVIOUS
  <2>1. At(InTotal) = {} /\ At(InActive) = {} /\ At(InEnded) = {}
    BY DEF MetricsInit, At, InTotal, InActive, InEnded
  <2>2. Place /\ Loaded
    BY DEF MetricsInit, Place, Loaded, NewReport
  <2> QED  BY <2>1, <2>2, FS_EmptySet DEF MetricsInit, Counting
<1>2. Inv /\ Counting => ReportRight
  <2> SUFFICES ASSUME Inv, Counting PROVE ReportRight
    OBVIOUS
  <2>1. ActiveConnections <= Cardinality(sessions)
    <3>1. At(InActive) \subseteq sessions
      BY DEF Inv, Registration, Counting, Place, Live, At, InActive
    <3>2. sessions \subseteq Sessions
      BY DEF Inv, TypeOK, RegistryTypeOK
    <3>3. IsFiniteSet(sessions)
      BY <3>2, CounterAssumption, FS_Subset
    <3> QED  BY <3>1, <3>3, FS_Subset DEF Counting
  <2>2. ASSUME \A s \in Sessions : cpc[s] \in {"none", "added", "counted", "gone"}
        PROVE  TotalConnections = ActiveConnections + TotalDisconnections
    <3>1. At({"total", "ended"}) = {}
      BY <2>2 DEF At
    <3> QED  BY <3>1, Parts DEF Counting
  <2>3. ppc = "total" => report.total <= report.active + report.ended + report.starting
    BY DEF Counting, Loaded
  <2> QED  BY <2>1, <2>2, <2>3 DEF ReportRight
<1> QED  BY <1>1, <1>2, Invariance, CountersOnlyWatch, CountingStep, PTL DEF MetricsSpec

-----------------------------------------------------------------------------
(* The refinement of MessageRouting *)

(* Lines of numbers: what stands in front, in the middle and behind. *)
LEMMA LineParts ==
    ASSUME NEW h \in Seq(Nat), NEW q \in Seq(Nat), NEW e \in Seq(Nat)
    PROVE  /\ h \o q \o e \in Seq(Nat)
           /\ Len(h \o q \o e) = Len(h) + Len(q) + Len(e)
           /\ h \o q \o <<>> = h \o q
           /\ <<>> \o q = q
<1>1. h \o q \in Seq(Nat) /\ Len(h \o q) = Len(h) + Len(q)
  BY ConcatProperties
<1>2. h \o q \o e \in Seq(Nat) /\ Len(h \o q \o e) = Len(h \o q) + Len(e)
  BY <1>1, ConcatProperties
<1>3. h \o q \o <<>> = h \o q /\ <<>> \o q = q
  BY <1>1, ConcatEmptySeq
<1> QED  BY <1>1, <1>2, <1>3

(* The head of a queue is still in front when it has been taken. *)
LEMMA HeadInFront ==
    ASSUME NEW q \in Seq(Nat), q # <<>>
    PROVE  <<Head(q)>> \o Tail(q) = q
<1>1. /\ Head(q) \in Nat /\ Tail(q) \in Seq(Nat) /\ Len(Tail(q)) = Len(q) - 1
      /\ \A i \in 1..Len(Tail(q)) : Tail(q)[i] = q[i + 1]
  BY HeadTailProperties
<1> DEFINE t == Tail(q)
           h == <<Head(q)>>
           x == h \o t
<1>2. h \in Seq(Nat) /\ Len(h) = 1 /\ h[1] = q[1] /\ Len(q) \in Nat \ {0}
  BY <1>1
<1> HIDE DEF h, t
<1>3. /\ x \in Seq(Nat) /\ Len(x) = 1 + Len(t)
      /\ \A i \in 1..1 + Len(t) : x[i] = IF i <= 1 THEN h[i] ELSE t[i - 1]
  <2>1. t \in Seq(Nat)
    BY <1>1 DEF t
  <2>2. /\ x \in Seq(Nat) /\ Len(x) = Len(h) + Len(t)
        /\ \A i \in 1..Len(h) + Len(t) : x[i] = IF i <= Len(h) THEN h[i] ELSE t[i - Len(h)]
    BY <1>2, <2>1, ConcatProperties
  <2> HIDE DEF x
  <2> QED  BY <1>2, <2>2
<1> HIDE DEF x
<1>4. ASSUME NEW i \in 1..Len(x) PROVE x[i] = q[i]
  <2>1. CASE i = 1
    BY <1>2, <1>3, <2>1
  <2>2. CASE i # 1
    <3>1. i - 1 \in 1..Len(t) /\ (i - 1) + 1 = i /\ i \in 1..1 + Len(t) /\ ~ (i <= 1)
      BY <1>1, <1>2, <1>3, <2>2 DEF t
    <3> QED  BY <1>1, <1>3, <3>1 DEF t
  <2> QED  BY <2>1, <2>2
<1>5. Len(x) = Len(q)
  BY <1>1, <1>2, <1>3 DEF t
<1>6. x = q
  BY <1>3, <1>4, <1>5, SeqEqual
<1> QED  BY <1>6 DEF x, h, t

(* The message that is written leaves the front of its line. *)
LEMMA FrontLeaves ==
    ASSUME NEW m \in Nat, NEW q \in Seq(Nat), NEW e \in Seq(Nat)
    PROVE  /\ <<m>> \o q \o e # <<>>
           /\ Head(<<m>> \o q \o e) = m
           /\ Tail(<<m>> \o q \o e) = <<>> \o q \o e
<1> DEFINE r == q \o e
           h == <<m>>
           x == h \o r
<1>1. r \in Seq(Nat) /\ Len(r) \in Nat
  BY ConcatProperties
<1>2. h \in Seq(Nat) /\ Len(h) = 1 /\ h[1] = m
  OBVIOUS
<1>3. <<m>> \o q \o e = x /\ <<>> \o q \o e = r
  <2>1. (<<m>> \o q) \o e = <<m>> \o (q \o e)
    BY <1>2, ConcatAssociative
  <2>2. <<>> \o q = q
    BY ConcatEmptySeq
  <2> QED  BY <2>1, <2>2
<1> HIDE DEF r, h
<1>4. /\ x \in Seq(Nat) /\ Len(x) = 1 + Len(r)
      /\ \A i \in 1..1 + Len(r) : x[i] = IF i <= 1 THEN h[i] ELSE r[i - 1]
  <2>1. /\ x \in Seq(Nat) /\ Len(x) = Len(h) + Len(r)
        /\ \A i \in 1..Len(h) + Len(r) : x[i] = IF i <= Len(h) THEN h[i] ELSE r[i - Len(h)]
    BY <1>1, <1>2, ConcatProperties
  <2> HIDE DEF x
  <2> QED  BY <1>2, <2>1
<1> HIDE DEF x
<1>5. x # <<>> /\ Head(x) = m
  BY <1>1, <1>2, <1>4
<1>6. Tail(x) \in Seq(Nat) /\ Len(Tail(x)) = Len(r)
      /\ \A i \in 1..Len(r) : Tail(x)[i] = r[i]
  <2>1. /\ Tail(x) \in Seq(Nat) /\ Len(Tail(x)) = Len(x) - 1
        /\ \A i \in 1..Len(Tail(x)) : Tail(x)[i] = x[i + 1]
    BY <1>4, <1>5, HeadTailProperties
  <2>2. Len(Tail(x)) = Len(r)
    BY <1>1, <1>4, <2>1
  <2>3. ASSUME NEW i \in 1..Len(r) PROVE Tail(x)[i] = r[i]
    <3>1. i + 1 \in 1..1 + Len(r) /\ ~ (i + 1 <= 1) /\ (i + 1) - 1 = i
      BY <1>1
    <3> QED  BY <1>4, <2>1, <2>2, <3>1
  <2> QED  BY <2>1, <2>2, <2>3
<1>7. Tail(x) = r
  BY <1>1, <1>6, SeqEqual
<1> QED  BY <1>3, <1>5, <1>7

(* A line and one message more. *)
Behind(h, q, n) == h \o q \o <<n>>

(* The message that the consumer has in hand is the last of its line,      *)
(* before it is queued and after it; if it is dropped, the others stay.    *)
LEMMA LastInLine ==
    ASSUME NEW h \in Seq(Nat), NEW q \in Seq(Nat), NEW n \in Nat
    PROVE  /\ Append(h \o q \o <<>>, n) = Behind(h, q, n)
           /\ h \o Append(q, n) \o <<>> = Behind(h, q, n)
           /\ Len(Behind(h, q, n)) = Len(h) + Len(q) + 1
           /\ Behind(h, q, n)[Len(Behind(h, q, n))] = n
           /\ SubSeq(Behind(h, q, n), 1, Len(Behind(h, q, n)) - 1) = h \o q \o <<>>
<1> DEFINE p == h \o q
           e == <<n>>
           x == Behind(h, q, n)
<1>0. x = p \o e
  BY DEF Behind
<1> HIDE DEF x
<1>1. p \in Seq(Nat) /\ Len(p) = Len(h) + Len(q) /\ Len(p) \in Nat
  BY ConcatProperties
<1>2. e \in Seq(Nat) /\ Len(e) = 1 /\ e[1] = n
  OBVIOUS
<1>3. p \o <<>> = p
  BY <1>1, ConcatEmptySeq
<1>4. Append(p, n) = x
  BY <1>0, <1>1, AppendIsConcat
<1>5. h \o Append(q, n) \o <<>> = x
  <2>1. Append(q, n) = q \o <<n>>
    BY AppendIsConcat
  <2>2. h \o (q \o e) = (h \o q) \o e
    BY <1>2, ConcatAssociative
  <2>3. p \o e \in Seq(Nat)
    <3> HIDE DEF p, e
    <3> QED  BY <1>1, <1>2, ConcatProperties
  <2>4. (p \o e) \o <<>> = p \o e
    BY <2>3, ConcatEmptySeq
  <2> QED  BY <1>0, <2>1, <2>2, <2>4
<1> HIDE DEF p, e
<1>6. /\ x \in Seq(Nat) /\ Len(x) = Len(p) + 1
      /\ \A i \in 1..Len(p) + 1 : x[i] = IF i <= Len(p) THEN p[i] ELSE e[i - Len(p)]
  <2>1. p \in Seq(Nat) /\ e \in Seq(Nat)
    BY <1>1, <1>2
  <2>2. /\ x \in Seq(Nat) /\ Len(x) = Len(p) + Len(e)
        /\ \A i \in 1..Len(p) + Len(e) : x[i] = IF i <= Len(p) THEN p[i] ELSE e[i - Len(p)]
    BY ONLY <1>0, <2>1, ConcatProperties
  <2> QED  BY <1>2, <2>2
<1>7. x[Len(x)] = n
  <2>1. Len(x) \in 1..Len(p) + 1 /\ ~ (Len(x) <= Len(p)) /\ Len(x) - Len(p) = 1
    BY <1>1, <1>6
  <2> QED  BY <1>2, <1>6, <2>1
<1>8. SubSeq(x, 1, Len(x) - 1) = p
  <2> DEFINE y == SubSeq(x, 1, Len(p))
  <2>1. \A i \in 1..Len(p) : x[i] \in Nat /\ x[i] = p[i]
    <3>1. \A i \in 1..Len(p) : i \in 1..Len(p) + 1 /\ i <= Len(p)
      BY <1>1
    <3> QED  BY <1>1, <1>6, <3>1
  <2>2. 1 \in Int /\ Len(p) \in Int
    BY <1>1
  <2>3. /\ y \in Seq(Nat) /\ Len(y) = IF 1 <= Len(p) THEN Len(p) - 1 + 1 ELSE 0
        /\ \A i \in 1..(Len(p) - 1 + 1) : y[i] = x[1 + i - 1]
    BY <2>1, <2>2, SubSeqProperties
  <2> HIDE DEF y
  <2>4. Len(y) = Len(p)
    BY <1>1, <2>3
  <2>5. ASSUME NEW i \in 1..Len(p) PROVE y[i] = p[i]
    <3>1. i \in 1..(Len(p) - 1 + 1) /\ 1 + i - 1 = i
      BY <1>1
    <3> QED  BY <2>1, <2>3, <3>1
  <2>6. y = p
    BY <1>1, <2>3, <2>4, <2>5, SeqEqual
  <2>7. Len(x) - 1 = Len(p)
    BY <1>1, <1>6
  <2> QED  BY <2>6, <2>7 DEF y
<1>9. h \o q \o <<>> = p
  BY <1>3 DEF p
<1> QED  BY <1>1, <1>4, <1>5, <1>6, <1>7, <1>8, <1>9 DEF x

(* The parts of a line. *)
LEMMA LineTypes ==
    ASSUME TypeOK, NEW s \in Sessions
    PROVE  /\ send[s] \in Seq(Nat) /\ Len(send[s]) \in Nat
           /\ Holding(s) \in Seq(Nat) /\ InHand(s) \in Seq(Nat)
           /\ taken \in Nat
<1>1. send[s] \in Seq(Nat) /\ (wmsg[s] # 0 => wmsg[s] \in Nat)
  BY PipelineParts
<1>2. taken \in Nat
  BY DEF TypeOK
<1>3. Holding(s) \in Seq(Nat)
  BY <1>1 DEF Holding
<1>4. InHand(s) \in Seq(Nat)
  BY <1>2 DEF InHand
<1> QED  BY <1>1, <1>2, <1>3, <1>4

(* What a step of one read pump does to Gone. *)
LEMMA GoneStep ==
    ASSUME TypeOK, NEW s \in Sessions, NEW l, rpc' = [rpc EXCEPT ![s] = l]
    PROVE  /\ l \in {"unlist", "close", "done"} => Gone' = Gone \cup {s}
           /\ l \notin {"unlist", "close", "done"} => Gone' = Gone \ {s}
BY DEF TypeOK, Gone

(* The write pumps, likewise. *)
LEMMA FailedStep ==
    ASSUME TypeOK, NEW s \in Sessions, NEW l, wpc' = [wpc EXCEPT ![s] = l]
    PROVE  /\ l \in {"close", "done"} => Failed' = Failed \cup {s}
           /\ l \notin {"close", "done"} => Failed' = Failed \ {s}
BY DEF TypeOK, Failed

(* A step that leaves the parts of the lines alone leaves the lines alone. *)
LEMMA SameLines ==
    ASSUME UNCHANGED <<send, wmsg, taken, csess>>
    PROVE  Lines' = Lines
BY DEF Lines, Line, Holding, InHand

(* A step that touches one line. *)
LEMMA OneLine ==
    ASSUME NEW s \in Sessions, \A t \in Sessions \ {s} : Line(t)' = Line(t)
    PROVE  /\ Lines' = [Lines EXCEPT ![s] = Line(s)']
           /\ Lines[s] = Line(s)
BY DEF Lines

(* A step that MessageRouting does not see. *)
LEMMA RoutingStutter ==
    ASSUME UNCHANGED <<userID, userSessions, arrived, taken, delivered>>,
           Gone' = Gone, Failed' = Failed, Lines' = Lines
    PROVE  UNCHANGED Routing!vars
BY DEF Routing!vars, Routing!sessionVars, Routing!messageVars

(* The initial state of the gateway is one of MessageRouting. *)
LEMMA ImplementsInit == Init => Routing!Init
<1> SUFFICES ASSUME Init PROVE Routing!Init
  OBVIOUS
<1>1. Gone = {} /\ Failed = {}
  BY DEF Init, Gone, Failed
<1>2. ASSUME NEW s \in Sessions PROVE Line(s) = <<>>
  <2>1. Holding(s) = <<>> /\ send[s] = <<>> /\ InHand(s) = <<>>
    BY DEF Init, Holding, InHand
  <2> QED  BY <2>1 DEF Line
<1>3. Lines = [s \in Sessions |-> <<>>]
  BY <1>2 DEF Lines
<1> QED  BY <1>1, <1>3 DEF Init, RegistryInit, Routing!Init

(* A connection and its read pump: the first request of a user enters the  *)
(* session, the first half of Remove is where it leaves, and nothing else  *)
(* that the read pump does is seen.                                        *)
LEMMA RegistryRouting ==
    ASSUME Inv, NEW s \in Sessions, HandleConnection(s) \/ Disconnect(s) \/ ReadPump(s)
    PROVE  [Routing!Next]_Routing!vars
<1>0. TypeOK /\ Registration /\ Writing
  BY DEF Inv
<1>1. UNCHANGED <<send, wmsg, taken, csess, arrived, delivered>>
  BY DEF HandleConnection, Disconnect, ReadPump, ReadPumpStep, ReadPacket, ReadError,
         DecodeError, Unrouted, RouteChat, Publish, Unbind, Unlist, CloseRead,
         OnlyReadPump, writeVars, consumerVars
<1>2. Lines' = Lines
  BY <1>1, SameLines
<1>3. Failed' = Failed
  <2>1. CASE HandleConnection(s)
    <3>1. wpc[s] = "off" /\ wpc' = [wpc EXCEPT ![s] = "select"]
      BY <1>0, <2>1 DEF HandleConnection, Writing
    <3> QED  BY <1>0, <3>1, FailedStep DEF Failed
  <2>2. CASE Disconnect(s) \/ ReadPump(s)
    BY <2>2 DEF Disconnect, ReadPump, ReadPumpStep, ReadPacket, ReadError, DecodeError,
                Unrouted, RouteChat, Publish, Unbind, Unlist, CloseRead, OnlyReadPump,
                writeVars, Failed
  <2> QED  BY <2>1, <2>2
<1>4. CASE HandleConnection(s)
  <2>1. rpc[s] = "off" /\ rpc' = [rpc EXCEPT ![s] = "read"]
    BY <1>0, <1>4 DEF HandleConnection, Registration
  <2>2. Gone' = Gone
    BY <1>0, <2>1, GoneStep DEF Gone
  <2>3. UNCHANGED <<userID, userSessions>>
    BY <1>4 DEF HandleConnection, Add
  <2> QED  BY <1>1, <1>2, <1>3, <2>2, <2>3, RoutingStutter
<1>5. CASE Disconnect(s)
  BY <1>1, <1>2, <1>3, <1>5, RoutingStutter DEF Disconnect, registryVars, readVars, Gone
<1>6. CASE Loop(s)
  <2>1. PICK l \in {"read", "handle", "publish", "unbind"} : rpc' = [rpc EXCEPT ![s] = l]
    BY <1>6 DEF Loop
  <2>2. Gone' = Gone
    BY <1>0, <1>6, <2>1, GoneStep DEF Gone, Loop
  <2> QED  BY <1>1, <1>2, <1>3, <1>6, <2>2, RoutingStutter DEF Loop, registryVars
<1>7. CASE RouteChat(s)
  <2>1. /\ rpc[s] = "handle" /\ rpc' = [rpc EXCEPT ![s] = "publish"]
        /\ \/ UNCHANGED registryVars
           \/ /\ userID[s] = NoUser /\ packet[s] \in Users
              /\ userID' = [userID EXCEPT ![s] = packet[s]]
              /\ userSessions' = [userSessions EXCEPT ![packet[s]] = s]
    BY <1>7, BindingStep
  <2>2. Gone' = Gone /\ s \notin Gone
    BY <1>0, <2>1, GoneStep DEF Gone
  <2>3. CASE UNCHANGED registryVars
    BY <1>1, <1>2, <1>3, <2>2, <2>3, RoutingStutter DEF registryVars
  <2>4. CASE /\ userID[s] = NoUser /\ packet[s] \in Users
             /\ userID' = [userID EXCEPT ![s] = packet[s]]
             /\ userSessions' = [userSessions EXCEPT ![packet[s]] = s]
    <3>1. Routing!Enter(s, packet[s])
      BY <1>1, <1>2, <1>3, <2>2, <2>4 DEF Routing!Enter, Routing!messageVars
    <3> QED  BY <2>4, <3>1 DEF Routing!Next
  <2> QED  BY <2>1, <2>3, <2>4
<1>8. CASE Unbind(s)
  <2>1. /\ s \in sessions /\ s \notin Gone
        /\ rpc' = [rpc EXCEPT ![s] = "unlist"]
    BY <1>0, <1>8 DEF Unbind, Registration, Gone
  <2>2. Gone' = Gone \cup {s}
    BY <1>0, <2>1, GoneStep
  <2>3. /\ userID' = userID
        /\ userSessions' = IF userID[s] = NoUser THEN userSessions
                           ELSE [userSessions EXCEPT ![userID[s]] = NoSession]
    BY <1>8, <2>1 DEF Unbind, RemoveUser
  <2>4. Routing!Leave(s)
    BY <1>1, <1>2, <1>3, <2>1, <2>2, <2>3 DEF Routing!Leave, Routing!messageVars
  <2> QED  BY <2>4 DEF Routing!Next
<1>9. CASE Unlist(s) \/ CloseRead(s)
  <2>1. PICK l \in {"close", "done"} : rpc' = [rpc EXCEPT ![s] = l]
    BY <1>9 DEF Unlist, CloseRead
  <2>2. s \in Gone
    BY <1>9 DEF Unlist, CloseRead, Gone
  <2>3. Gone' = Gone
    <3>1. Gone' = Gone \cup {s}
      BY <1>0, <2>1, GoneStep
    <3> QED  BY <2>2, <3>1
  <2>4. UNCHANGED <<userID, userSessions>>
    BY <1>9 DEF Unlist, RemoveSession, CloseRead, registryVars
  <2> QED  BY <1>1, <1>2, <1>3, <2>3, <2>4, RoutingStutter
<1>10. ReadPump(s) => RouteChat(s) \/ Unbind(s) \/ Unlist(s) \/ CloseRead(s) \/ Loop(s)
  <2>1. CASE ReadPacket(s) \/ ReadError(s)
    BY <2>1 DEF ReadPacket, ReadError, Loop
  <2>2. CASE DecodeError(s) \/ Unrouted(s) \/ Publish(s)
    BY <2>2 DEF DecodeError, Unrouted, Publish, Loop
  <2> QED  BY <2>1, <2>2 DEF ReadPump, ReadPumpStep
<1> QED  BY <1>4, <1>5, <1>6, <1>7, <1>8, <1>9, <1>10

(* A write pump passes the first message of its line on, or fails.         *)
LEMMA WritePumpRouting ==
    ASSUME Inv, NEW s \in Sessions, WritePump(s)
    PROVE  [Routing!Next]_Routing!vars
<1>0. TypeOK /\ Writing
  BY DEF Inv
<1>1. /\ UNCHANGED <<userID, userSessions, arrived, taken, csess, rpc>>
      /\ Gone' = Gone
  BY DEF WritePump, WritePumpStep, TakeSend, WriteOk, WriteError, PingError, CloseWrite,
         OnlyWritePump, registryVars, readVars, consumerVars, Gone
<1>2. InHand(s)' = InHand(s)
  BY <1>1 DEF InHand
<1>3. /\ send[s] \in Seq(Nat) /\ InHand(s) \in Seq(Nat) /\ Holding(s) \in Seq(Nat)
      /\ wmsg[s] # 0 => wmsg[s] \in Nat
  BY <1>0, LineTypes, PipelineParts
<1>4. ASSUME UNCHANGED <<send, wmsg>> PROVE Lines' = Lines
  BY <1>1, <1>4, SameLines
<1>5. \A t \in Sessions \ {s} : Line(t)' = Line(t)
  BY <1>0, <1>1 DEF TypeOK, WritePump, WritePumpStep, TakeSend, WriteOk, WriteError,
         PingError, CloseWrite, Line, Holding, InHand
<1>6. Lines' = [Lines EXCEPT ![s] = Line(s)'] /\ Lines[s] = Line(s)
  BY <1>5, OneLine
<1>7. CASE TakeSend(s)
  <2>1. /\ wpc[s] = "select" /\ send[s] # <<>>
        /\ wmsg'[s] = Head(send[s]) /\ send'[s] = Tail(send[s])
        /\ wpc' = [wpc EXCEPT ![s] = "write"] /\ delivered' = delivered
    BY <1>0, <1>7 DEF TakeSend, TypeOK
  <2>2. Failed' = Failed
    BY <1>0, <2>1, FailedStep DEF Failed
  <2>3. Holding(s) = <<>>
    BY <1>0, <2>1 DEF Writing, Holding
  <2>4. Head(send[s]) # 0
    <3>1. send[s] \in Seq(Message)
      BY <1>0 DEF TypeOK
    <3>2. Head(send[s]) \in Message
      BY <2>1, <3>1, HeadTailProperties
    <3> QED  BY <3>2 DEF Message
  <2>5. Holding(s)' = <<Head(send[s])>>
    BY <2>1, <2>4 DEF Holding
  <2>6. Line(s)' = Line(s)
    <3>1. Holding(s)' \o send'[s] = Holding(s) \o send[s]
      BY <1>3, <2>1, <2>3, <2>5, HeadInFront, LineParts
    <3> QED  BY <1>2, <3>1 DEF Line
  <2>7. Lines' = Lines
    BY <1>5, <2>6 DEF Lines
  <2> QED  BY <1>1, <2>1, <2>2, <2>7, RoutingStutter
<1>8. ASSUME wpc[s] = "write", wmsg' = [wmsg EXCEPT ![s] = 0], send' = send
      PROVE  /\ wmsg[s] \in Nat /\ Lines[s] # <<>> /\ Head(Lines[s]) = wmsg[s]
             /\ Lines' = [Lines EXCEPT ![s] = Tail(@)]
             /\ s \notin Failed
  <2>1. wmsg[s] # 0 /\ wmsg[s] \in Nat
    BY <1>0, <1>3, <1>8 DEF Writing
  <2>2. Line(s) = <<wmsg[s]>> \o send[s] \o InHand(s)
    BY <2>1 DEF Line, Holding
  <2>3. Line(s)' = <<>> \o send[s] \o InHand(s)
    BY <1>0, <1>2, <1>8 DEF Line, Holding, TypeOK
  <2>4. Line(s) # <<>> /\ Head(Line(s)) = wmsg[s] /\ Tail(Line(s)) = Line(s)'
    <3>1. /\ <<wmsg[s]>> \o send[s] \o InHand(s) # <<>>
          /\ Head(<<wmsg[s]>> \o send[s] \o InHand(s)) = wmsg[s]
          /\ Tail(<<wmsg[s]>> \o send[s] \o InHand(s)) = <<>> \o send[s] \o InHand(s)
      BY <1>3, <2>1, FrontLeaves
    <3> QED  BY ONLY <2>2, <2>3, <3>1, Zenon
  <2>5. s \notin Failed
    BY <1>8 DEF Failed
  <2> QED  BY <1>6, <2>1, <2>4, <2>5
<1>9. CASE WriteOk(s)
  <2>1. /\ wpc[s] = "write" /\ wmsg' = [wmsg EXCEPT ![s] = 0] /\ send' = send
        /\ wpc' = [wpc EXCEPT ![s] = "select"]
        /\ delivered' = [delivered EXCEPT ![s] = Append(@, wmsg[s])]
    BY <1>9 DEF WriteOk
  <2>2. Failed' = Failed
    BY <1>0, <2>1, FailedStep DEF Failed
  <2>3. Routing!Deliver(s)
    BY <1>1, <1>8, <2>1, <2>2 DEF Routing!Deliver, Routing!sessionVars
  <2> QED  BY <2>3 DEF Routing!Next
<1>10. CASE WriteError(s)
  <2>1. /\ wpc[s] = "write" /\ wmsg' = [wmsg EXCEPT ![s] = 0] /\ send' = send
        /\ wpc' = [wpc EXCEPT ![s] = "close"] /\ delivered' = delivered
    BY <1>10 DEF WriteError
  <2>2. Failed' = Failed \cup {s}
    BY <1>0, <2>1, FailedStep
  <2>3. Routing!Fail(s)
    BY <1>1, <1>8, <2>1, <2>2 DEF Routing!Fail, Routing!sessionVars
  <2> QED  BY <2>3 DEF Routing!Next
<1>11. CASE PingError(s)
  <2>1. /\ s \notin Failed /\ UNCHANGED <<send, wmsg, delivered>>
        /\ wpc' = [wpc EXCEPT ![s] = "close"]
    BY <1>11 DEF PingError, Failed
  <2>2. Failed' = Failed \cup {s} /\ Lines' = Lines
    BY <1>0, <1>4, <2>1, FailedStep
  <2>3. Routing!Fail(s)
    BY <1>1, <2>1, <2>2 DEF Routing!Fail, Routing!sessionVars
  <2> QED  BY <2>3 DEF Routing!Next
<1>12. CASE CloseWrite(s)
  <2>1. /\ s \in Failed /\ UNCHANGED <<send, wmsg, delivered>>
        /\ wpc' = [wpc EXCEPT ![s] = "done"]
    BY <1>12 DEF CloseWrite, Failed
  <2>2. Failed' = Failed /\ Lines' = Lines
    <3>1. Failed' = Failed \cup {s}
      BY <1>0, <2>1, FailedStep
    <3> QED  BY <1>4, <2>1, <3>1
  <2> QED  BY <1>1, <2>1, <2>2, RoutingStutter
<1> QED  BY <1>7, <1>9, <1>10, <1>11, <1>12 DEF WritePump, WritePumpStep

(* The lookup and the send after it.  From the lookup on, the message has  *)
(* its place behind the others of its session; a full channel refuses it,  *)
(* and with it no other.                                                   *)
LEMMA ConsumerRouting ==
    ASSUME Inv, Arrive \/ Consumer
    PROVE  [Routing!Next]_Routing!vars
<1>0. TypeOK
  BY DEF Inv
<1>1. /\ UNCHANGED <<userID, userSessions, delivered, wmsg>>
      /\ Gone' = Gone /\ Failed' = Failed
  BY DEF Arrive, Consumer, Lookup, Enqueue, OnlyConsumer, registryVars, readVars, writeVars,
         Gone, Failed
<1>2. CASE Arrive
  <2>1. UNCHANGED <<send, taken, csess>>
    BY <1>2 DEF Arrive, consumerVars
  <2>2. Lines' = Lines
    BY <1>1, <2>1, SameLines
  <2>3. PICK u \in Targets : arrived' = Append(arrived, u)
    BY <1>2 DEF Arrive
  <2>4. Routing!Arrive(u)
    BY <1>1, <2>1, <2>2, <2>3 DEF Routing!Arrive, Routing!sessionVars
  <2> QED  BY <2>3, <2>4 DEF Routing!Next, Targets
<1>3. CASE Lookup
  <2>1. /\ csess = NoSession /\ taken < Len(arrived) /\ taken' = taken + 1
        /\ csess' = GetByUserID(arrived[taken + 1]) /\ UNCHANGED <<send, arrived>>
    BY <1>3 DEF Lookup
  <2>2. csess' = Routing!Reached(arrived[taken + 1])
    BY <2>1 DEF GetByUserID, Routing!Reached
  <2>3. csess' \in Sessions \cup {NoSession}
    BY <1>0, <2>1 DEF TypeOK, RegistryTypeOK, GetByUserID
  <2>4. ASSUME NEW t \in Sessions
        PROVE  Line(t)' = IF csess' = t THEN Append(Line(t), taken + 1) ELSE Line(t)
    <3>1. Holding(t)' = Holding(t) /\ InHand(t) = <<>>
      BY <1>1, <2>1 DEF Holding, InHand
    <3>2. CASE csess' = t
      <4>1. InHand(t)' = <<taken + 1>>
        BY <2>1, <3>2 DEF InHand
      <4>2. Append(Holding(t) \o send[t] \o <<>>, taken + 1)
                = Behind(Holding(t), send[t], taken + 1)
        <5>1. Holding(t) \in Seq(Nat) /\ send[t] \in Seq(Nat) /\ taken + 1 \in Nat
          BY <1>0, LineTypes
        <5> QED  BY <5>1, LastInLine
      <4> QED  BY <2>1, <3>1, <3>2, <4>1, <4>2 DEF Line, Behind
    <3>3. CASE csess' # t
      BY <2>1, <3>1, <3>3 DEF Line, InHand
    <3> QED  BY <3>2, <3>3
  <2>5. Lines' = IF csess' = NoSession THEN Lines
                 ELSE [Lines EXCEPT ![csess'] = Append(@, taken + 1)]
    BY <2>3, <2>4 DEF Lines
  <2>6. Routing!Route
    BY <1>1, <2>1, <2>2, <2>5 DEF Routing!Route, Routing!sessionVars
  <2> QED  BY <2>6 DEF Routing!Next
<1>4. CASE Enqueue
  <2>0. PICK s \in Sessions : s = csess
    BY <1>0, <1>4 DEF Enqueue, TypeOK
  <2>1. UNCHANGED <<taken, arrived>> /\ csess' = NoSession
    BY <1>4 DEF Enqueue
  <2>2. /\ Holding(s) \in Seq(Nat) /\ send[s] \in Seq(Nat) /\ taken \in Nat
        /\ Len(Holding(s)) \in Nat /\ Len(send[s]) \in Nat
    BY <1>0, <2>1, LineTypes
  <2>3. Line(s) = Behind(Holding(s), send[s], taken)
    BY <2>0 DEF Line, InHand, Behind
  <2>4. ASSUME NEW t \in Sessions PROVE Line(t)' = Holding(t) \o send'[t] \o <<>>
    BY <1>1, <2>1 DEF Line, Holding, InHand
  <2>5. ASSUME NEW t \in Sessions, t # s, send'[t] = send[t] PROVE Line(t)' = Line(t)
    BY <2>0, <2>4, <2>5 DEF Line, InHand
  <2>6. CASE Len(send[s]) < SendCap
    <3>1. send' = [send EXCEPT ![s] = Append(@, taken)]
      BY <1>4, <2>0, <2>6 DEF Enqueue
    <3>2. send'[s] = Append(send[s], taken) /\ \A t \in Sessions \ {s} : send'[t] = send[t]
      BY <1>0, <2>1, <3>1 DEF TypeOK
    <3>3. Holding(s) \o Append(send[s], taken) \o <<>> = Behind(Holding(s), send[s], taken)
      BY ONLY <2>2, LastInLine
    <3>4. Line(s)' = Line(s)
      <4>1. Line(s)' = Holding(s) \o Append(send[s], taken) \o <<>>
        BY <2>4, <3>2
      <4> QED  BY <2>3, <3>3, <4>1
    <3>5. Lines' = Lines
      BY <2>5, <3>2, <3>4 DEF Lines
    <3> QED  BY <1>1, <2>1, <3>5, RoutingStutter
  <2>7. CASE ~ (Len(send[s]) < SendCap)
    <3>1. send' = send
      BY <1>4, <2>0, <2>7 DEF Enqueue
    <3>2. /\ Len(Line(s)) = Len(Holding(s)) + Len(send[s]) + 1
          /\ Line(s)[Len(Line(s))] = taken
          /\ SubSeq(Line(s), 1, Len(Line(s)) - 1) = Line(s)'
      <4>1. Line(s)' = Holding(s) \o send[s] \o <<>>
        BY <2>4, <3>1
      <4>2. /\ Len(Behind(Holding(s), send[s], taken)) = Len(Holding(s)) + Len(send[s]) + 1
            /\ Behind(Holding(s), send[s], taken)[Len(Behind(Holding(s), send[s], taken))] = taken
            /\ SubSeq(Behind(Holding(s), send[s], taken), 1,
                      Len(Behind(Holding(s), send[s], taken)) - 1) = Holding(s) \o send[s] \o <<>>
        BY ONLY <2>2, LastInLine
      <4> QED  BY ONLY <2>3, <4>1, <4>2
    <3>3. Len(Line(s)) > SendCap
      BY <2>2, <2>7, <3>2
    <3>4. Lines' = [Lines EXCEPT ![s] = Line(s)'] /\ Lines[s] = Line(s)
      BY <2>1, <2>5, <3>1, OneLine
    <3>5. Routing!Overflow(s)
      BY <1>1, <2>1, <3>2, <3>3, <3>4 DEF Routing!Overflow, Routing!sessionVars
    <3> QED  BY <2>1, <3>5 DEF Routing!Next
  <2> QED  BY <2>6, <2>7
<1> QED  BY <1>2, <1>3, <1>4 DEF Consumer

(* Every step of the gateway is a step of MessageRouting or a stutter. *)
LEMMA ImplementsStep == Inv /\ [Next]_vars => [Routing!Next]_Routing!vars
<1> SUFFICES ASSUME Inv, [Next]_vars PROVE [Routing!Next]_Routing!vars
  OBVIOUS
<1>1. CASE UNCHANGED vars
  <2>1. UNCHANGED <<userID, userSessions, arrived, taken, delivered, send, wmsg, csess>>
    BY <1>1 DEF vars, registryVars, writeVars, consumerVars
  <2>2. Gone' = Gone /\ Failed' = Failed
    BY <1>1 DEF vars, readVars, writeVars, Gone, Failed
  <2> QED  BY <2>1, <2>2, SameLines, RoutingStutter
<1> QED  BY <1>1, RegistryRouting, WritePumpRouting, ConsumerRouting DEF Next

(* Every behaviour of the gateway is one of MessageRouting, in which a     *)
(* lookup and the send after it are one step, and so are the two halves of *)
(* Remove: what comes between them in the code sends no message elsewhere, *)
(* moves none in its line and loses none but the ones said there.          *)
THEOREM Implementation == Spec => RoutesAtOnce
BY ImplementsInit, ImplementsStep, Invariance, PTL DEF Spec, RoutesAtOnce, Routing!Spec
=============================================================================
