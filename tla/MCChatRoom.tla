---------------------------- MODULE MCChatRoom ----------------------------
(* Instances of ChatRoom for TLC. *)
EXTENDS ChatRoom, TLC

CONSTANTS c1, c2

\* Two users with names of their own.
MCTwoUsers == c1 :> 1 @@ c2 :> 2
=============================================================================
