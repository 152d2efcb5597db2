---------------------------- MODULE MCMessaging ----------------------------
(* Two messages, two consumer processes with a buffered delivery each, and  *)
(* one interruption that may hit in any state.                               *)
EXTENDS Messaging

=============================================================================
