--------------------------- MODULE SessionManager ---------------------------
(***************************************************************************)
(* The session registry of one gateway process:                            *)
(* game-gateway/internal/session/manager.go.                               *)
(*                                                                         *)
(* The registry is two concurrent maps, sessions (by session ID) and       *)
(* userSessions (by user ID), and the UserID field of the Session structs  *)
(* the maps point to.  An operation on one map is atomic; a method that    *)
(* touches both maps is not, so Remove is two actions here.  A Session     *)
(* struct outlives its map entries, so userID keeps its value after the    *)
(* session has been removed.                                               *)
(***************************************************************************)
CONSTANTS
    Sessions,   \* the sessions that are ever created: IDs are fresh UUIDs
    Users,      \* the user IDs greater than 0
    NoSession,  \* a nil *Session
    NoUser      \* a user ID that names nobody: 0 or a negative number

ASSUME NoSessionAssumption == NoSession \notin Sessions
ASSUME NoUserAssumption == NoUser \notin Users

VARIABLES
    sessions,       \* the IDs that sessions maps to a Session
    userSessions,   \* user ID -> Session
    userID          \* the UserID field of every Session struct

registryVars == <<sessions, userSessions, userID>>

RegistryTypeOK ==
    /\ sessions \subseteq Sessions
    /\ userSessions \in [Users -> Sessions \cup {NoSession}]
    /\ userID \in [Sessions -> Users \cup {NoUser}]

RegistryInit ==
    /\ sessions = {}
    /\ userSessions = [u \in Users |-> NoSession]
    /\ userID = [s \in Sessions |-> NoUser]

Add(s) ==
    /\ sessions' = sessions \cup {s}
    /\ UNCHANGED <<userSessions, userID>>

(* Mutant: leaves the entry to the caller, which also sets the field. *)
BindFieldOnly(u, s) ==
    IF s \in sessions
    THEN /\ userID' = [userID EXCEPT ![s] = u]
         /\ UNCHANGED <<sessions, userSessions>>
    ELSE UNCHANGED registryVars

(* Bind is called by the read pump of s alone, and UserID is read by that  *)
(* goroutine alone, so its two writes cannot be told apart from one.       *)
Bind(u, s) ==
    IF s \in sessions
    THEN /\ userID' = [userID EXCEPT ![s] = u]
         /\ userSessions' = [userSessions EXCEPT ![u] = s]
         /\ UNCHANGED sessions
    ELSE UNCHANGED registryVars

(* Mutant: forgets the entry of the user. *)
KeepUser(s) == UNCHANGED registryVars

(* The first half of Remove.  The entry of the user goes whatever session  *)
(* it points to.                                                           *)
RemoveUser(s) ==
    /\ userSessions' = IF s \in sessions /\ userID[s] # NoUser
                       THEN [userSessions EXCEPT ![userID[s]] = NoSession]
                       ELSE userSessions
    /\ UNCHANGED <<sessions, userID>>

(* The second half of Remove. *)
RemoveSession(s) ==
    /\ sessions' = sessions \ {s}
    /\ UNCHANGED <<userSessions, userID>>

GetByUserID(u) == IF u \in Users THEN userSessions[u] ELSE NoSession
=============================================================================
