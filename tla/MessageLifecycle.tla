-------------------------- MODULE MessageLifecycle --------------------------
(***************************************************************************)
(* What messaging promises about an outgoing message, whatever threads,    *)
(* retries, restarts and lost packets do underneath: it is created         *)
(* pending, it may be transmitted while pending, and it ends in one of     *)
(* three states for good.  An answer can only come after a transmission,   *)
(* and giving up only after the whole budget of tries went on the air.     *)
(*                                                                         *)
(* Messages move independently, and the code may move several in one step  *)
(* (one tick serves every due message), so a step is a product of          *)
(* per-message moves.                                                      *)
(***************************************************************************)
EXTENDS Naturals

CONSTANTS
    Id,       \* message ids
    Budget    \* transmissions a message gets before it may be given up

VARIABLES
    phase,    \* [Id -> "absent", "pending" or a terminal state]
    onAir     \* [Id -> Nat], how often each message was transmitted

Terminal == {"acked", "rejected", "failed"}

Init ==
    /\ phase = [i \in Id |-> "absent"]
    /\ onAir = [i \in Id |-> 0]

Create(i) == phase[i] = "absent" /\ phase'[i] = "pending" /\ onAir'[i] = onAir[i]

Transmit(i) == /\ phase[i] # "absent" /\ phase'[i] = phase[i]
               /\ onAir'[i] = onAir[i] + 1

Answer(i) == /\ phase[i] = "pending" /\ onAir[i] > 0
             /\ phase'[i] \in {"acked", "rejected"} /\ onAir'[i] = onAir[i]

GiveUp(i) == /\ phase[i] = "pending" /\ onAir[i] >= Budget
             /\ phase'[i] = "failed" /\ onAir'[i] = onAir[i]

Keep(i) == phase'[i] = phase[i] /\ onAir'[i] = onAir[i]

Next ==
    /\ phase' \in [Id -> {"absent", "pending"} \cup Terminal]
    /\ onAir' \in [Id -> Nat]
    /\ \A i \in Id: Create(i) \/ Transmit(i) \/ Answer(i) \/ GiveUp(i) \/ Keep(i)

Spec == Init /\ [][Next]_<<phase, onAir>>
=============================================================================
