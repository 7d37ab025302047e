---------------------------- MODULE MCChatSystem -----------------------------
(* An instance of ChatSystem for TLC with two gateways.  The first client  *)
(* writes to the user of the second, who plays another game and sits at    *)
(* the other gateway; the third has the user ID and the gateway of the     *)
(* first.                                                                  *)
EXTENDS ChatSystem, TLC

CONSTANTS c1, c2, c3, g1, g2, u1, u2, r1, r2, r3, mmo, rpg

MCGate == c1 :> g1 @@ c2 :> g2 @@ c3 :> g1
MCUserOf == c1 :> u1 @@ c2 :> u2 @@ c3 :> u1
MCFrom == r1 :> c1 @@ r2 :> c2 @@ r3 :> c3
MCReceiver == r1 :> u2 @@ r2 :> u1 @@ r3 :> NoUser
MCGameOf == r1 :> mmo @@ r2 :> rpg @@ r3 :> rpg
=============================================================================
