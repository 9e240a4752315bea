------------------------------ MODULE MCDelivery ------------------------------
(***************************************************************************)
(* Small instances of MeshDm and Messenger for TLC: whether what we send   *)
(* is settled, over the mesh and over APRS.                                *)
(*                                                                         *)
(* The two share no variables.  In a behaviour one of them moves, the part *)
(* it is about; the other stays in its initial state.                      *)
(***************************************************************************)
EXTENDS MeshDm, Sequences

VARIABLES
    part,
    seq, out, inbox, replyAck, holdoff, thr, link, mRestarts, txs, mQuiet

M == INSTANCE Messenger WITH
        Peers <- {"A"}, Workers <- {"w"}, MaxSeq <- 1, MsgnoSpace <- 2,
        RetryDelays <- <<2, 3, 3>>, TxWait <- 1, PeerNos <- {"7"}, Texts <- {"x"},
        DupeWindow <- 2, DupeWindowUnnumbered <- 1, AckHoldoff <- 1, MaxRestarts <- 1,
        Horizon <- 3, restarts <- mRestarts, quiet <- mQuiet

mVars == <<seq, out, inbox, replyAck, holdoff, thr, link, mRestarts, txs, mQuiet>>
allVars == <<part, vars, mVars>>

AllInit == part \in {"mesh", "aprs"} /\ Init /\ M!Init

AllNext ==
    \/ part = "mesh" /\ Next /\ UNCHANGED <<part, mVars>>
    \/ part = "aprs" /\ M!Next /\ UNCHANGED <<part, vars>>

\* The fairness of each.
AllSpec ==
    /\ AllInit /\ [][AllNext]_allVars
    /\ WF_vars(part = "mesh" /\ TickStart)
    /\ WF_vars(part = "mesh" /\ Select)
    /\ WF_vars(part = "mesh" /\ Advance)
    /\ \A t \in Tasks: WF_vars(part = "mesh" /\ Resume(t))
    /\ WF_mVars(part = "aprs" /\ M!Tick)
    /\ WF_mVars(part = "aprs" /\ M!Advance)
    /\ WF_mVars(part = "aprs" /\ M!Finish("w"))

-----------------------------------------------------------------------------
\* The properties; those of MeshDm have their names there

\* See Messenger: every message is settled once the link stays up.
EventuallyResolved == M!EventuallyResolved
===============================================================================
