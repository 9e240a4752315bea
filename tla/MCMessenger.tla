---------------------------- MODULE MCMessenger ----------------------------
(***************************************************************************)
(* Small instance of Messenger for TLC: three delays, the last two alike.  *)
(***************************************************************************)
EXTENDS Messenger

MCRetryDelays == <<2, 3, 3>>
=============================================================================
