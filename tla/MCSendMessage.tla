---------------------------- MODULE MCSendMessage ---------------------------
(***************************************************************************)
(* SendMessage for TLC: messages one shorter than, as long as and longer   *)
(* than what the buffer holds with its line feed; protocols that are, or   *)
(* become in eight bits, TLS, UDP and neither; other integers wider than   *)
(* every field they go to; texts that fit every array, that fit all but    *)
(* the token's, and that reach past each array into the next.              *)
(***************************************************************************)
EXTENDS SendMessage

MCProtos == {-1, 0, 1, 2, 256, 257}
=============================================================================
