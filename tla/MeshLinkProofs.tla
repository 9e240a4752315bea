---------------------------- MODULE MeshLinkProofs ----------------------------
(***************************************************************************)
(* Theorems about MeshLink, for every set of devices, every bound on the   *)
(* starts of the link and every number of settings changes.                *)
(***************************************************************************)
EXTENDS MeshLink, FiniteSetTheorems, TLAPS

Done == {p \in Put: puts[p] = "done"}

\* Tasks are created in order, one at most by Core.start and by each PUT.
CreatedPrefix == \E n \in 0..MaxTasks: Created = 1..n /\ n <= 1 + Cardinality(Done)

\* Core never holds a task it has cancelled: it forgets it or replaces it in the same step
\* (service.py:153-162).
CurrentAlive == current # NoTask => task[current].pc \in Alive

\* The shared attributes go together, and are those of the running task's session.
AttributesAgree ==
    /\ connected <=> mc # NoTask
    /\ mc # NoTask => mc = current /\ task[current].pc = "session"

IInv == TypeOK /\ CreatedPrefix /\ CurrentAlive /\ OneRunner /\ AttributesAgree

-----------------------------------------------------------------------------
\* Creating a task

\* The set of PUTs is finite, and so are its subsets.
LEMMA PutsFinite ==
  /\ IsFiniteSet(Put) /\ Cardinality(Put) = MaxPuts
  /\ \A D \in SUBSET Put: IsFiniteSet(D) /\ Cardinality(D) \in Nat
  <1>1. IsFiniteSet(Put) /\ Cardinality(Put) = MaxPuts
    BY FS_Interval, LinkAssumption DEF Put
  <1>2. QED
    BY <1>1, FS_Subset, FS_CardinalityType

\* A PUT that is under way finds a task that was never created: the next number.
LEMMA NextTask ==
  ASSUME CreatedPrefix, NEW p \in Put, puts[p] # "done"
  PROVE  \E n \in 0..MaxTasks:
           /\ Created = 1..n /\ n <= 1 + Cardinality(Done) /\ n + 1 \in Task
           /\ n + 1 = CHOOSE t \in Task: t \notin Created /\ \A u \in Task \ Created: t <= u
  <1>1. PICK n \in 0..MaxTasks: Created = 1..n /\ n <= 1 + Cardinality(Done)
    BY DEF CreatedPrefix
  <1>2. Cardinality(Done) < MaxPuts
    <2>1. Done \subseteq Put /\ Done # Put
      BY DEF Done
    <2>2. Cardinality(Done) <= Cardinality(Put) /\ Cardinality(Done) # Cardinality(Put)
      BY <2>1, PutsFinite, FS_Subset
    <2>3. QED
      BY <2>1, <2>2, PutsFinite, LinkAssumption
  <1>3. n + 1 \in Task
    BY <1>1, <1>2, PutsFinite, LinkAssumption DEF Task, Done
  <1>4. n + 1 \notin Created /\ \A u \in Task \ Created: n + 1 <= u
    BY <1>1, LinkAssumption DEF Task
  <1>5. ASSUME NEW t \in Task, t \notin Created, \A u \in Task \ Created: t <= u
        PROVE  t = n + 1
    BY <1>3, <1>4, <1>5, LinkAssumption DEF Task
  <1>6. n + 1 = CHOOSE t \in Task: t \notin Created /\ \A u \in Task \ Created: t <= u
    BY <1>3, <1>4, <1>5
  <1>7. QED
    BY <1>1, <1>3, <1>6

\* What a cancelled task does next is one of the link's states and none of a running task's.
LEMMA CancelledStops ==
  ASSUME NEW pc \in States
  PROVE  AfterCancel(pc) \in States \ (Alive \cup {"absent"})
  BY DEF AfterCancel, States, Alive

\* Holding no task is apart from holding one.
LEMMA NoTaskApart == NoTask \notin Task
  BY LinkAssumption DEF Task

-----------------------------------------------------------------------------
\* The invariant holds initially and every action keeps it

LEMMA InitInv == Init => IInv
  <1> SUFFICES ASSUME Init PROVE IInv
    OBVIOUS
  <1>1. 1 \in Task
    BY LinkAssumption DEF Task
  <1>2. TypeOK
    BY <1>1 DEF Init, TypeOK, Config, States
  <1>3. CreatedPrefix
    <2>1. Done = {}
      BY DEF Init, Done
    <2>2. Cardinality(Done) = 0
      BY <2>1, FS_EmptySet
    <2>3. CASE config.enabled
      <3>1. Created = 1..1
        BY <1>1, <2>3 DEF Init, Created, Task
      <3>2. QED
        BY <2>2, <3>1, LinkAssumption DEF CreatedPrefix
    <2>4. CASE ~config.enabled
      <3>1. Created = {}
        BY <2>4, NoTaskApart DEF Init, Created
      <3>2. Created = 1..0
        BY <3>1
      <3>3. QED
        BY <2>2, <3>2, LinkAssumption DEF CreatedPrefix
    <2>5. QED
      BY <2>3, <2>4
  <1>4. CurrentAlive /\ OneRunner
    BY <1>1 DEF Init, CurrentAlive, OneRunner, Alive
  <1>5. AttributesAgree
    BY DEF Init, AttributesAgree
  <1>6. QED
    BY <1>2, <1>3, <1>4, <1>5 DEF IInv

\* Saving the settings changes no task.
LEMMA SaveInv ==
  ASSUME IInv, NEW p \in Put, NEW new \in Config, Save(p, new)
  PROVE  IInv'
  <1> USE DEF IInv
  <1>1. TypeOK'
    BY DEF TypeOK, Save
  <1>2. CreatedPrefix'
    <2>1. Created' = Created /\ Done' = Done
      BY DEF Save, Created, Done, TypeOK
    <2>2. QED
      BY <2>1 DEF CreatedPrefix
  <1>3. CurrentAlive' /\ OneRunner' /\ AttributesAgree'
    BY DEF Save, CurrentAlive, OneRunner, AttributesAgree
  <1>4. QED
    BY <1>1, <1>2, <1>3

\* Applying them stops the running task, starts the next one, or both, in one step.
LEMMA ApplyInv ==
  ASSUME IInv, NEW p \in Put, Apply(p)
  PROVE  IInv'
  <1> USE DEF IInv
  <1> DEFINE restart == puts[p] = "restart"
             stop == Stops(restart)
             start == config.enabled /\ (stop \/ ~Running)
             new == CHOOSE t \in Task: t \notin Created /\ \A u \in Task \ Created: t <= u
             stopped == IF stop THEN [task EXCEPT ![current].pc = AfterCancel(@)] ELSE task
  <1>1. puts[p] # "done"
    BY DEF Apply
  <1>2. PICK n \in 0..MaxTasks: /\ Created = 1..n /\ n <= 1 + Cardinality(Done)
                                /\ n + 1 \in Task /\ new = n + 1
    BY <1>1, NextTask
  <1> HIDE DEF new
  <1>3. new \in Task /\ task[new].pc = "absent" /\ new # current
    <2>1. new \in Task
      BY <1>2
    <2>2. new \notin Created
      BY <1>2
    <2>3. task[new].pc = "absent"
      BY <2>1, <2>2 DEF Created
    <2>4. QED
      BY <2>1, <2>3, NoTaskApart DEF CurrentAlive, Alive
  <1>4. /\ task' = IF start THEN [stopped EXCEPT ![new] = [pc |-> "new", device |-> config.device]]
                            ELSE stopped
        /\ current' = IF start THEN new ELSE IF stop THEN NoTask ELSE current
        /\ mc' = IF stop /\ task[current].pc \in {"fetch", "session"} THEN NoTask ELSE mc
        /\ connected' = (connected /\ ~stop)
        /\ UNCHANGED <<config, plugged>>
        /\ puts' = [puts EXCEPT ![p] = "done"]
    BY DEF Apply, SyncMesh, new
  <1>5. Running <=> current # NoTask
    BY DEF Running, CurrentAlive, Alive
  <1>6. stop => current \in Task
    BY DEF Stops, Running, TypeOK
  <1>7. /\ stopped \in [Task -> [pc: States, device: Devices]]
        /\ \A t \in Task: /\ stopped[t].pc \in Alive => t = current /\ ~stop
                          /\ stopped[t].pc = "absent" <=> task[t].pc = "absent"
        /\ ~stop => stopped = task
    <2>1. CASE stop
      <3>1. AfterCancel(task[current].pc) \in States \ (Alive \cup {"absent"})
        BY <1>6, <2>1, CancelledStops DEF TypeOK
      <3>2. task[current].pc # "absent"
        BY <1>5, <1>6, <2>1, NoTaskApart DEF CurrentAlive, Alive
      <3>3. QED
        BY <1>6, <2>1, <3>1, <3>2 DEF TypeOK, OneRunner
    <2>2. CASE ~stop
      BY <2>2 DEF TypeOK, OneRunner
    <2>3. QED
      BY <2>1, <2>2
  <1> HIDE DEF stopped
  <1>8. TypeOK'
    <2>1. task' \in [Task -> [pc: States, device: Devices]]
      BY <1>3, <1>4, <1>7 DEF TypeOK, Config, States
    <2>2. QED
      BY <1>3, <1>4, <2>1 DEF TypeOK
  <1>9. \A t \in Task: task'[t].pc \in Alive => t = current'
    <2> SUFFICES ASSUME NEW t \in Task, task'[t].pc \in Alive PROVE t = current'
      OBVIOUS
    <2>1. CASE start
      <3>1. t # new => stopped[t].pc \in Alive
        BY <1>3, <1>4, <1>7, <2>1
      <3>2. t # new => t = current /\ ~stop
        BY <3>1, <1>7
      <3>3. QED
        BY <1>4, <1>5, <2>1, <3>2, NoTaskApart
    <2>2. CASE ~start
      BY <1>4, <1>7, <2>2
    <2>3. QED
      BY <2>1, <2>2
  <1>10. CurrentAlive'
    <2>1. CASE start
      BY <1>3, <1>4, <1>7, <2>1 DEF CurrentAlive, Alive
    <2>2. CASE ~start
      BY <1>4, <1>7, <2>2 DEF CurrentAlive
    <2>3. QED
      BY <2>1, <2>2
  <1>11. CreatedPrefix'
    <2>1. Done' = Done \cup {p} /\ p \notin Done
      BY <1>1, <1>4 DEF Done, TypeOK
    <2>2. Cardinality(Done') = Cardinality(Done) + 1 /\ Cardinality(Done) \in Nat
      <3>1. Done \in SUBSET Put
        BY DEF Done
      <3>2. IsFiniteSet(Done) /\ Cardinality(Done) \in Nat
        BY <3>1, PutsFinite
      <3>3. QED
        BY <2>1, <3>2, FS_AddElement
    <2>3. CASE start
      <3>1. Created' = Created \cup {new}
        BY <1>3, <1>4, <1>7, <2>3 DEF Created
      <3>2. Created' = 1..(n + 1)
        BY <1>2, <3>1
      <3>3. n + 1 \in 0..MaxTasks
        BY <1>2, LinkAssumption DEF Task
      <3>4. n + 1 <= 1 + Cardinality(Done')
        BY <1>2, <2>2
      <3>5. QED
        BY <3>2, <3>3, <3>4 DEF CreatedPrefix
    <2>4. CASE ~start
      <3>1. Created' = Created
        BY <1>4, <1>7, <2>4 DEF Created
      <3>2. n <= 1 + Cardinality(Done')
        BY <1>2, <2>2
      <3>3. QED
        BY <1>2, <3>1, <3>2 DEF CreatedPrefix
    <2>5. QED
      BY <2>3, <2>4
  <1>12. AttributesAgree'
    <2>1. CASE stop
      <3>1. mc' = NoTask
        BY <1>4, <2>1 DEF AttributesAgree
      <3>2. QED
        BY <1>4, <2>1, <3>1 DEF AttributesAgree
    <2>2. CASE ~stop /\ start
      <3>1. current = NoTask
        BY <1>5, <2>2
      <3>2. QED
        BY <1>4, <2>2, <3>1 DEF AttributesAgree
    <2>3. CASE ~stop /\ ~start
      BY <1>4, <1>7, <2>3 DEF AttributesAgree
    <2>4. QED
      BY <2>1, <2>2, <2>3
  <1>13. QED
    BY <1>8, <1>9, <1>10, <1>11, <1>12 DEF OneRunner

\* A step of a task leaves Core, the PUTs and the other tasks alone.
Others(t) == /\ UNCHANGED Env
             /\ \E s \in States \ {"absent"}, d \in Devices:
                   task' = [task EXCEPT ![t] = [pc |-> s, device |-> d]]

LEMMA StepInv ==
  ASSUME IInv, NEW t \in Task, Step(t)
  PROVE  IInv'
  <1> USE DEF IInv
  <1> DEFINE was == task[t].pc
             now == task'[t].pc
  <1>1. task[t] \in [pc: States, device: Devices] /\ config.device \in Devices
    BY DEF TypeOK, Config
  <1>2. \A s \in States: Goes(t, s) => task' = [task EXCEPT ![t] = [pc |-> s, device |-> task[t].device]]
    BY <1>1 DEF Goes, TypeOK
  <1>3. Others(t) /\ was # "absent" /\ was # "ended" /\ (now \in Alive <=> was \in Alive)
    <2>1. CASE Attempt(t)
      BY <1>1, <2>1 DEF Attempt, Others, States, Alive, TypeOK
    <2>2. CASE Opened(t)
      BY <1>1, <1>2, <2>2 DEF Opened, Others, States, Alive, TypeOK
    <2>3. CASE SessionStarts(t)
      BY <1>1, <1>2, <2>3 DEF SessionStarts, Others, States, Alive, TypeOK
    <2>4. CASE OpenFails(t)
      BY <1>1, <1>2, <2>4 DEF OpenFails, Others, States, Alive, TypeOK
    <2>5. CASE SessionEnds(t)
      BY <1>1, <1>2, <2>5 DEF SessionEnds, Others, States, Alive, TypeOK
    <2>6. CASE Closed(t)
      BY <1>1, <1>2, <2>6 DEF Closed, Others, States, Alive, TypeOK
    <2>7. CASE LateFinally(t)
      BY <1>1, <1>2, <2>7 DEF LateFinally, Others, States, Alive, TypeOK
    <2>8. QED
      BY <2>1, <2>2, <2>3, <2>4, <2>5, <2>6, <2>7 DEF Step
  <1>4. /\ task' \in [Task -> [pc: States, device: Devices]]
        /\ \A u \in Task \ {t}: task'[u] = task[u]
        /\ now # "absent"
        /\ UNCHANGED <<config, puts, current, plugged>>
    BY <1>3 DEF Others, TypeOK, Env
  <1>5. TypeOK'
    <2>1. mc' \in {mc, t, NoTask} /\ connected' \in {connected, TRUE, FALSE}
      BY DEF Step, Attempt, Opened, SessionStarts, OpenFails, SessionEnds, Closed, LateFinally
    <2>2. QED
      BY <1>4, <2>1 DEF TypeOK
  <1>6. CreatedPrefix'
    <2>1. Created' = Created /\ Done' = Done
      BY <1>3, <1>4 DEF Created, Done
    <2>2. QED
      BY <2>1 DEF CreatedPrefix
  <1>7. CurrentAlive' /\ OneRunner'
    BY <1>3, <1>4 DEF CurrentAlive, OneRunner, TypeOK
  <1>8. AttributesAgree'
    <2>1. CASE SessionStarts(t)
      <3>1. t = current /\ now = "session"
        BY <1>1, <1>2, <2>1 DEF SessionStarts, OneRunner, Alive, Goes, TypeOK
      <3>2. QED
        BY <1>4, <2>1, <3>1, NoTaskApart DEF SessionStarts, AttributesAgree
    <2>2. CASE OpenFails(t) \/ SessionEnds(t) \/ LateFinally(t)
      BY <2>2 DEF OpenFails, SessionEnds, LateFinally, AttributesAgree
    <2>3. CASE Attempt(t) \/ Opened(t) \/ Closed(t)
      <3>1. was # "session" /\ UNCHANGED <<mc, connected>>
        BY <2>3 DEF Attempt, Opened, Closed
      <3>2. mc # NoTask => mc = current /\ current # t /\ current \in Task
        BY <3>1 DEF AttributesAgree, TypeOK
      <3>3. QED
        BY <1>4, <3>1, <3>2 DEF AttributesAgree
    <2>4. QED
      BY <2>1, <2>2, <2>3 DEF Step
  <1>9. QED
    BY <1>5, <1>6, <1>7, <1>8

LEMMA PlugInv ==
  ASSUME IInv, NEW d \in Devices, Plug(d)
  PROVE  IInv'
  <1>1. Created' = Created /\ Done' = Done
    BY DEF Plug, Created, Done
  <1>2. QED
    BY <1>1 DEF IInv, Plug, TypeOK, CreatedPrefix, CurrentAlive, OneRunner, AttributesAgree

LEMMA Inductive == IInv /\ [Next]_vars => IInv'
  <1> SUFFICES ASSUME IInv, [Next]_vars PROVE IInv'
    OBVIOUS
  <1>1. CASE UNCHANGED vars
    <2>1. Created' = Created /\ Done' = Done
      BY <1>1 DEF vars, Created, Done
    <2>2. QED
      BY <1>1, <2>1 DEF vars, IInv, TypeOK, CreatedPrefix, CurrentAlive, OneRunner,
                        AttributesAgree
  <1>2. CASE Next
    BY <1>2, SaveInv, ApplyInv, StepInv, PlugInv DEF Next
  <1>3. QED
    BY <1>1, <1>2

LEMMA Invariance == Spec => []IInv
  BY InitInv, Inductive, PTL DEF Spec

-----------------------------------------------------------------------------
\* The theorems

\* Every variable keeps its type, which says that no PUT ever runs out of task numbers:
\* the link is started once by Core.start and at most once by each PUT.
THEOREM TypeCorrect == Spec => []TypeOK
  <1>1. IInv => TypeOK
    BY DEF IInv
  <1>2. QED
    BY <1>1, Invariance, PTL

\* However many PUTs interleave at the await in update_config, no two tasks run the
\* link, and the one that does is the one Core can cancel (service.py:153-162).
THEOREM RunsOnce == Spec => []OneRunner
  <1>1. IInv => OneRunner
    BY DEF IInv
  <1>2. QED
    BY <1>1, Invariance, PTL

\* connected is only ever shown for the running task's session, although every task that
\* was ever started writes it (meshlink.py:136-173, 219-220).
THEOREM ShownIsUsable == Spec => []ConnectedIsUsable
  <1>1. IInv => ConnectedIsUsable
    BY DEF IInv, AttributesAgree, ConnectedIsUsable
  <1>2. QED
    BY <1>1, Invariance, PTL

===============================================================================
