---------------------------- MODULE MCChatClient ----------------------------
(* Instances of module ChatClient for TLC. *)
EXTENDS ChatClient, TLC

CONSTANTS a, b

OwnNicks == a :> 1 @@ b :> 2
=============================================================================
