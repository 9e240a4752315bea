------------------------------ MODULE MCMeshLoop ------------------------------
(***************************************************************************)
(* Small instances of Wardrive and MeshSync for TLC: what the mesh loop    *)
(* does besides the messages.                                              *)
(*                                                                         *)
(* The two share no variables.  In a behaviour one of them moves, the part *)
(* it is about; the other stays in an initial state.                       *)
(***************************************************************************)
EXTENDS Wardrive, MeshSync

VARIABLE part

ASSUME WardriveConstants
ASSUME SyncConstants

-----------------------------------------------------------------------------
allVars == <<part, vars, syncVars>>

AllInit ==
    \/ part = "sync" /\ Init /\ SyncInit
    \/ part = "wardrive" /\ Init /\ SyncInit /\ place = "p1"

\* Bound: once a start or a stop has run beside another, one ping at most, and no observation.
OverlapRows == overlap => Len(pings) <= 1 /\ obs = <<>>

\* The threads are numbered, and a request goes to the first that is idle: which one it is
\* makes no difference.
FirstIdle ==
    \A v, w \in Threads:
        v < w /\ worker[w].next = "idle" /\ worker'[w].next # "idle" => worker[v].next # "idle"

AllNext ==
    \/ part = "sync" /\ SyncNext /\ UNCHANGED <<part, vars>>
    \/ part = "wardrive" /\ Next /\ FirstIdle /\ OverlapRows'
       /\ UNCHANGED <<part, syncVars>>

\* The fairness of each; none of the steps it is about adds a row that must come.
AllSpec ==
    /\ AllInit /\ [][AllNext]_allVars
    /\ WF_syncVars(part = "sync" /\ SyncStarts)
    /\ WF_syncVars(part = "sync" /\ Answered)
    /\ WF_syncVars(part = "sync" /\ SyncAdvance)
    /\ WF_vars(part = "wardrive" /\ TicksUnready)
    /\ WF_vars(part = "wardrive" /\ Resumes)
    /\ \A w \in Threads: WF_vars(part = "wardrive" /\ Works(w))
    /\ WF_vars(part = "wardrive" /\ Advance)

\* The properties are those of the two modules.
===============================================================================
