------------------------------ MODULE MCMessaging ------------------------------
(***************************************************************************)
(* Small instance of Messenger and MessageExchange for TLC.  In a          *)
(* behaviour of the part "own" we send messages and nobody sends us any;   *)
(* in one of the part "exchange" it is the other way round.                *)
(*                                                                         *)
(* In "exchange" one unit of time is 10 s and more: the holdoff is two     *)
(* units, retries come after three.                                        *)
(***************************************************************************)
EXTENDS MessageExchange, TLC

CONSTANTS A, B, w1, w2

VARIABLE part

MCRetryDelays == <<2, 3, 3>>
WorkerSymmetry == Permutations({w1, w2})

\* Our messages go to A, and no text arrives.
OwnOnly ==
    /\ inbox' = inbox
    /\ \A w \in Workers: thr'[w].peer # B

AllInit == XInit /\ part \in {"own", "exchange"}

AllNext ==
    \/ part = "own" /\ Next /\ OwnOnly /\ UNCHANGED <<part, peerVars>>
    \/ part = "exchange" /\ XNext /\ UNCHANGED part

AllSpec == AllInit /\ [][AllNext]_<<part, allVars>>
===============================================================================
