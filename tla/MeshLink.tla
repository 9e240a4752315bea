------------------------------- MODULE MeshLink -------------------------------
(***************************************************************************)
(* The link to the MeshCore radio: MeshLink.run (aprsx/core/meshlink.py)   *)
(* and the part of Core that starts and cancels it, update_config and      *)
(* _sync_mesh (aprsx/core/service.py).                                     *)
(*                                                                         *)
(* Every start of the link is a task; a cancelled one lives on while it    *)
(* closes its port, beside the task that replaced it, and all of them      *)
(* share the attributes _mc and connected.  A PUT of the settings saves    *)
(* them, may await Direwolf, and then calls _sync_mesh: two PUTs can       *)
(* interleave there.                                                       *)
(*                                                                         *)
(* asyncio delivers a cancellation in the next turn of the event loop,     *)
(* before a task created after it can have opened a port, so the handlers  *)
(* up to their first await are part of the cancelling step.                *)
(*                                                                         *)
(* Bounds: MaxTasks starts of the link, MaxPuts settings changes.          *)
(***************************************************************************)
EXTENDS Naturals

CONSTANTS
    Devices,    \* serial devices that can be set
    MaxTasks,   \* bound: tasks created for the link
    MaxPuts,    \* bound: settings changes
    NoTask      \* Core._mesh_task is None; MeshLink._mc is None

ASSUME LinkAssumption ==
    /\ MaxTasks \in Nat /\ MaxPuts \in Nat
    /\ MaxTasks > MaxPuts       \* Core.start and each PUT create one at most
    /\ NoTask \notin Nat

VARIABLES
    config,     \* Core.config.meshcore: enabled and device
    puts,       \* the PUTs so far: whether each changed the device, and whether it is done
    current,    \* Core._mesh_task
    task,       \* what each task is doing, and the device it opened
    mc,         \* the task whose radio MeshLink._mc is
    connected,  \* MeshLink.connected
    plugged     \* the devices that are plugged in

vars == <<config, puts, current, task, mc, connected, plugged>>

Task == 1..MaxTasks
Put == 1..MaxPuts
Config == [enabled: BOOLEAN, device: Devices]

\* "new": created, not run yet; "open": awaiting connect(); "fetch": awaiting
\* start_auto_message_fetching(); "session": the radio is in use; "closing": awaiting
\* its disconnect(), then the pause before the next attempt; "pause": that pause;
\* "shut": cancelled while opening, closing the port; "leaving": cancelled, closing the
\* radio it used; "ended": done.
States == {"absent", "new", "open", "fetch", "session", "closing", "pause",
           "shut", "leaving", "ended"}
Alive == {"new", "open", "fetch", "session", "closing", "pause"}
HoldsPort == {"open", "fetch", "session", "closing", "shut", "leaving"}

\* Core.start has called _sync_mesh.
Init ==
    /\ config \in Config
    /\ puts = [p \in Put |-> "new"]
    /\ current = IF config.enabled THEN 1 ELSE NoTask
    /\ task = [t \in Task |-> [pc |-> IF t = current THEN "new" ELSE "absent",
                                device |-> config.device]]
    /\ mc = NoTask
    /\ connected = FALSE
    /\ plugged = Devices

-----------------------------------------------------------------------------
\* Core: settings and the link task

\* Mutants of AfterCancel: the task is not cancelled; an unknown state.
NotCancelled(pc) == pc
CancelledState(pc) == IF pc = "open" THEN "shut" ELSE "cancelled"

\* What a task does when it is cancelled, up to its next await.
AfterCancel(pc) ==
    CASE pc = "open" -> "shut"                      \* except BaseException: await _close
      [] pc \in {"fetch", "session"} -> "leaving"   \* finally: await _close
      [] OTHER -> "ended"

Created == {t \in Task: task[t].pc # "absent"}
Running == current # NoTask /\ task[current].pc # "ended"

\* Mutant of Stops: switching the link off does not stop it.
StopsOnRestart(restart) == Running /\ restart

Stops(restart) == Running /\ (restart \/ ~config.enabled)

\* _sync_mesh.  The cancelled task clears _mc in its finally, unless it is still opening.
SyncMesh(restart) ==
    LET stop == Stops(restart)
        start == config.enabled /\ (stop \/ ~Running)
        new == CHOOSE t \in Task: t \notin Created /\ \A u \in Task \ Created: t <= u
        stopped == IF stop THEN [task EXCEPT ![current].pc = AfterCancel(@)] ELSE task
    IN
    /\ task' = IF start THEN [stopped EXCEPT ![new] = [pc |-> "new", device |-> config.device]]
                        ELSE stopped
    /\ current' = IF start THEN new ELSE IF stop THEN NoTask ELSE current
    /\ mc' = IF stop /\ task[current].pc \in {"fetch", "session"} THEN NoTask ELSE mc
    /\ connected' = (connected /\ ~stop)

\* update_config up to its await: the settings are saved and in force.
Save(p, new) ==
    /\ puts[p] = "new"
    /\ new # config
    /\ config' = new
    /\ puts' = [puts EXCEPT ![p] = IF new.device # config.device THEN "restart" ELSE "sync"]
    /\ UNCHANGED <<current, task, mc, connected, plugged>>

\* Mutant of Apply: it compares the settings in force with themselves.
ApplyNoRestart(p) ==
    /\ puts[p] \in {"restart", "sync"}
    /\ puts' = [puts EXCEPT ![p] = "done"]
    /\ SyncMesh(FALSE)
    /\ UNCHANGED <<config, plugged>>

\* update_config after its await.
Apply(p) ==
    /\ puts[p] \in {"restart", "sync"}
    /\ puts' = [puts EXCEPT ![p] = "done"]
    /\ SyncMesh(puts[p] = "restart")
    /\ UNCHANGED <<config, plugged>>

-----------------------------------------------------------------------------
\* MeshLink.run

Goes(t, pc) == task' = [task EXCEPT ![t].pc = pc]
Env == <<config, puts, current, plugged>>

\* While another task has the port of t open, opening it and using it may fail.
Free(t) == \A u \in Task \ {t}: task[u].pc \in HoldsPort => task[u].device # task[t].device

\* The address is read at each attempt.
Attempt(t) ==
    /\ task[t].pc \in {"new", "pause"}
    /\ task' = [task EXCEPT ![t] = [pc |-> "open", device |-> config.device]]
    /\ UNCHANGED <<Env, mc, connected>>

Opened(t) ==
    /\ task[t].pc = "open"
    /\ task[t].device \in plugged
    /\ Goes(t, "fetch")
    /\ UNCHANGED <<Env, mc, connected>>

SessionStarts(t) ==
    /\ task[t].pc = "fetch"
    /\ Goes(t, "session")
    /\ mc' = t
    /\ connected' = TRUE
    /\ UNCHANGED Env

\* An attempt or a session ends; run's finally clears the shared attributes.
OpenFails(t) ==
    /\ task[t].pc = "open"
    /\ task[t].device \notin plugged \/ ~Free(t)
    /\ Goes(t, "pause")
    /\ mc' = NoTask
    /\ connected' = FALSE
    /\ UNCHANGED Env

\* Mutant of SessionEnds: _mc is left set.
SessionEndsKeepsMc(t) ==
    /\ task[t].pc \in {"fetch", "session"}
    /\ task[t].device \notin plugged
    /\ Goes(t, "closing")
    /\ connected' = FALSE
    /\ UNCHANGED <<Env, mc>>

SessionEnds(t) ==
    /\ task[t].pc \in {"fetch", "session"}
    /\ task[t].device \notin plugged \/ ~Free(t)
    /\ Goes(t, "closing")
    /\ mc' = NoTask
    /\ connected' = FALSE
    /\ UNCHANGED Env

Closed(t) ==
    /\ task[t].pc \in {"closing", "leaving"}
    /\ Goes(t, IF task[t].pc = "closing" THEN "pause" ELSE "ended")
    /\ UNCHANGED <<Env, mc, connected>>

\* A task cancelled while opening has closed the port: only now is its finally run.
LateFinally(t) ==
    /\ task[t].pc = "shut"
    /\ Goes(t, "ended")
    /\ mc' = NoTask
    /\ connected' = FALSE
    /\ UNCHANGED Env

\* The user plugs a device in or pulls it.
Plug(d) ==
    /\ plugged' = IF d \in plugged THEN plugged \ {d} ELSE plugged \cup {d}
    /\ UNCHANGED <<config, puts, current, task, mc, connected>>

-----------------------------------------------------------------------------
Step(t) == \/ Attempt(t) \/ Opened(t) \/ SessionStarts(t) \/ OpenFails(t)
           \/ SessionEnds(t) \/ Closed(t) \/ LateFinally(t)

Next ==
    \/ \E p \in Put, new \in Config: Save(p, new)
    \/ \E p \in Put: Apply(p)
    \/ \E t \in Task: Step(t)
    \/ \E d \in Devices: Plug(d)

Spec == Init /\ [][Next]_vars

\* Tasks run, PUTs finish; nothing makes the user plug a device in.
FairSpec == /\ Spec
            /\ \A p \in Put: WF_vars(Apply(p))
            /\ \A t \in Task: WF_vars(Step(t))

-----------------------------------------------------------------------------
\* Properties

TypeOK ==
    /\ config \in Config
    /\ puts \in [Put -> {"new", "restart", "sync", "done"}]
    /\ current \in Task \cup {NoTask}
    /\ task \in [Task -> [pc: States, device: Devices]]
    /\ mc \in Task \cup {NoTask}
    /\ connected \in BOOLEAN
    /\ plugged \subseteq Devices

\* Whatever the order of settings changes, no two tasks run the link, and the one that
\* does is the one Core holds and can cancel (service.py:153-162).
OneRunner == \A t \in Task: task[t].pc \in Alive => t = current

\* connected is never shown for a radio that commands do not reach or that is not the
\* running task's: it goes together with _mc (meshlink.py:136-173, 219-220).
ConnectedIsUsable ==
    /\ connected <=> mc # NoTask
    /\ connected => mc = current /\ task[current].pc = "session"

\* With the settings at rest and the device in, the link ends up with a session on the
\* device that is set, however the PUTs that set it interleaved (service.py:153-162,
\* 261-287, meshlink.py:142-173).
FollowsSettings ==
    \A d \in Devices:
        <>[](config.enabled /\ config.device = d /\ d \in plugged)
            => <>[](current # NoTask /\ task[current].pc = "session" /\ task[current].device = d)

\* Switched off for good, the link stops for good (service.py:153-162).
OffMeansOff == <>[](~config.enabled) => <>[](current = NoTask /\ ~connected)

\* What meshlink.py:143 says, "Connect and stay connected": while the running task has a
\* session the link is connected.  A task cancelled while it was opening a port closes it
\* first and then clears the attributes, those of its successor's session by then.
StaysConnected ==
    (current # NoTask /\ task[current].pc = "session") => connected /\ mc = current

===============================================================================
