-------------------------------- MODULE MeshDm --------------------------------
(***************************************************************************)
(* Direct messages over MeshCore: MeshService.send, tick and _try          *)
(* (aprsx/core/mesh.py) with the mesh_messages table (store.py).           *)
(*                                                                         *)
(* Everything runs on one event loop, but _try awaits the radio between    *)
(* reading a row and writing it back.  A task is one POST that sends, or   *)
(* Loop, the one task that calls tick.  Loop works down the list of due    *)
(* rows it read at the start: while it awaits the radio for one of them,   *)
(* the copies of the others grow old.  Code between two awaits is one      *)
(* step, so Loop fails the exhausted rows and reaches its next await in    *)
(* the step that selects the rows or finishes the one before.              *)
(*                                                                         *)
(* A message's ack code depends on the message and the number of the try   *)
(* (the device computes it), so the tries stand for the codes.  Times are  *)
(* relative to now: next_try is a countdown (negative when overdue),       *)
(* age[t] is how long ago task t read the clock.                           *)
(*                                                                         *)
(* Bounds: MaxDm messages, MaxRestarts restarts; SendLag and TickLag are   *)
(* the longest a POST and a tick take.  That SendLag is below the ack wait *)
(* is an assumption about the radio and the meshcore library: without it a *)
(* POST still awaiting its first command writes over what several ticks    *)
(* recorded, and FailedAfterTries, OneLateTry and RetryWaits fail.         *)
(***************************************************************************)
EXTENDS Integers, FiniteSets

CONSTANTS
    Senders,        \* POST requests that can be inside send
    Loop,           \* the task that runs tick
    MaxDm,          \* bound: direct messages
    DmTries,        \* DM_TRIES
    MinAckWait,     \* MIN_ACK_WAIT_S
    TxWait,         \* TX_WAIT_S
    Suggested,      \* ack waits the device suggests (times 1.5)
    SendLag,        \* bound: how long a POST can take
    TickLag,        \* bound: how long a tick can take
    MaxRestarts,    \* bound: restarts of the core
    None

ASSUME MeshAssumption ==
    /\ Loop \notin Senders
    /\ MaxDm \in Nat /\ MaxRestarts \in Nat
    /\ DmTries \in Nat \ {0}
    /\ MinAckWait \in Nat \ {0} /\ TxWait \in Nat \ {0}
    /\ Suggested \subseteq Nat
    /\ SendLag \in Nat /\ TickLag \in Nat
    \* The library's own timeout for a command, a few seconds, is below the ack wait.
    /\ SendLag < MinAckWait
    /\ None \notin Int

VARIABLES
    rows,       \* mesh_messages with direction 'out' of dm: conversations
    used,       \* how many of them exist
    work,       \* what each task is doing
    todo,       \* Loop's copies of the due rows it has not come to yet
    age,        \* how long ago each task read the clock
    device,     \* "ok" when the radio answers commands
    restarts,   \* how often the core was restarted
    answered,   \* (history) transmissions recorded in the row
    late,       \* (history) transmissions after the message was acked
    quiet       \* (history) time since its last transmission in this run of the core, capped

vars == <<rows, used, work, todo, age, device, restarts, answered, late, quiet>>

Tasks == Senders \cup {Loop}
Id == 1..MaxDm
Try == 0..(DmTries - 1)
Horizon == MinAckWait

Row == [state: {"absent", "pending", "acked", "failed"}, attempts: 0..DmTries,
        codes: SUBSET Try, next_try: Int \cup {None}]
NoRow == [state |-> "absent", attempts |-> 0, codes |-> {}, next_try |-> None]
Copy == [attempts: 0..DmTries, codes: SUBSET Try]
CopyOf(r) == [attempts |-> r.attempts, codes |-> r.codes]

\* "sync": the awaits of tick before the due rows are read; "reset": awaiting
\* reset_path; "dm": awaiting send_dm; "sent": the radio answered, not resumed yet.
Work == [pc: {"idle", "sync", "reset", "dm", "sent"}, id: Id \cup {0}, copy: Copy]
IdleWork == [pc |-> "idle", id |-> 0, copy |-> CopyOf(NoRow)]
Job(pc, i, copy) == [pc |-> pc, id |-> i, copy |-> copy]
NoTodo == [i \in {} |-> CopyOf(NoRow)]

Init ==
    /\ rows = [i \in Id |-> NoRow]
    /\ used = 0
    /\ work = [t \in Tasks |-> IdleWork]
    /\ todo = NoTodo
    /\ age = [t \in Tasks |-> 0]
    /\ device = "ok"
    /\ restarts = 0
    /\ answered = [i \in Id |-> 0]
    /\ late = [i \in Id |-> 0]
    /\ quiet = [i \in Id |-> Horizon]

env == <<device, restarts>>
history == <<answered, late, quiet>>

-----------------------------------------------------------------------------
\* _try, from its first line to its first await, for the rows Loop has left

\* Mutants of Exhausted: one try too many, one too few.
ExhaustedLate(copy) == copy.attempts > DmTries
ExhaustedEarly(copy) == copy.attempts >= DmTries - 1

Exhausted(copy) == copy.attempts >= DmTries

\* The rows at the head of the list that are out of tries ...
Lead(copies) == {i \in DOMAIN copies: \A j \in DOMAIN copies: j <= i => Exhausted(copies[j])}

\* ... fail, whatever has become of them since they were read.
Fail(r, ids) == [i \in Id |-> IF i \in ids
                              THEN [r[i] EXCEPT !.state = "failed", !.next_try = None]
                              ELSE r[i]]

\* The last try floods: the path of a known contact is reset first.
FirstAwait(copy) == IF copy.attempts = DmTries - 1 THEN {"reset", "dm"} ELSE {"dm"}

\* Loop goes on with the copies it has left, the table being r.
GoOn(r, copies) ==
    LET rest == DOMAIN copies \ Lead(copies) IN
    /\ rows' = Fail(r, Lead(copies))
    /\ IF rest = {}
       THEN /\ work' = [work EXCEPT ![Loop] = IdleWork]
            /\ todo' = NoTodo
       ELSE \E i \in rest: /\ \A j \in rest: i <= j
                           /\ \E pc \in FirstAwait(copies[i]):
                                work' = [work EXCEPT ![Loop] = Job(pc, i, copies[i])]
                           /\ todo' = [j \in rest \ {i} |-> copies[j]]

\* Task t is done with its row; a POST returns, Loop goes on.
Finished(t, r) ==
    IF t = Loop THEN GoOn(r, todo)
    ELSE /\ rows' = r
         /\ work' = [work EXCEPT ![t] = IdleWork]
         /\ UNCHANGED todo

-----------------------------------------------------------------------------
\* MeshService.send and tick

\* The new row is in the table, and due, before the radio is asked to send it.  send
\* wants the link connected: a radio that is "bad" may be, and not answer.
Send(t) ==
    /\ t # Loop /\ work[t].pc = "idle"
    /\ used < MaxDm
    /\ used' = used + 1
    /\ rows' = [rows EXCEPT ![used + 1] = [state |-> "pending", attempts |-> 0,
                                           codes |-> {}, next_try |-> 0]]
    /\ \E pc \in FirstAwait(CopyOf(NoRow)):
          work' = [work EXCEPT ![t] = Job(pc, used + 1, CopyOf(NoRow))]
    /\ age' = [age EXCEPT ![t] = 0]
    /\ UNCHANGED <<todo, env, history>>

\* tick reads the clock, then awaits the sync, the name and the position.
TickStart ==
    /\ work[Loop].pc = "idle"
    /\ work' = [work EXCEPT ![Loop] = Job("sync", 0, CopyOf(NoRow))]
    /\ age' = [age EXCEPT ![Loop] = 0]
    /\ UNCHANGED <<rows, used, todo, env, history>>

\* Mutants of Due: a row's state is not looked at; rows out of tries are not selected.
DueAnyState == {i \in Id: rows[i].next_try # None /\ rows[i].next_try <= -age[Loop]}
DueUnderLimit == {i \in Id: rows[i].state = "pending" /\ rows[i].next_try <= -age[Loop]
                                                     /\ rows[i].attempts < DmTries}

Due == {i \in Id: rows[i].state = "pending" /\ rows[i].next_try <= -age[Loop]}

Select ==
    /\ work[Loop].pc = "sync"
    /\ GoOn(rows, [i \in Due |-> CopyOf(rows[i])])
    /\ UNCHANGED <<used, age, env, history>>

PathReset(t) ==
    /\ work[t].pc = "reset" /\ device = "ok"
    /\ work' = [work EXCEPT ![t].pc = "dm"]
    /\ UNCHANGED <<rows, used, todo, age, env, history>>

\* The radio transmits the try t asked for.
OnAir(t) ==
    LET i == work[t].id IN
    /\ quiet' = [quiet EXCEPT ![i] = 0]
    /\ late' = IF rows[i].state = "acked" THEN [late EXCEPT ![i] = @ + 1] ELSE late

Transmitted(t) ==
    /\ work[t].pc = "dm" /\ device = "ok"
    /\ OnAir(t)
    /\ work' = [work EXCEPT ![t].pc = "sent"]
    /\ UNCHANGED <<rows, used, todo, age, env, answered>>

\* The wait counts from when t read the clock.
WaitFrom(t, wait) == wait - age[t]
\* Mutant of AckWait: what the device suggests, however short.
AckWaitSuggested(s) == s

AckWait(s) == IF s > MinAckWait THEN s ELSE MinAckWait

\* Mutant of Recorded: expected_ack holds the code of the last try only.
RecordedLastCode(r, t, s) ==
    [r EXCEPT !.attempts = work[t].copy.attempts + 1,
              !.codes = {work[t].copy.attempts},
              !.next_try = WaitFrom(t, AckWait(s))]

\* _try resumes: what it writes follows from its copy, except the state.
Recorded(r, t, s) ==
    LET copy == work[t].copy IN
    [r EXCEPT !.attempts = copy.attempts + 1,
              !.codes = copy.codes \cup {copy.attempts},
              !.next_try = WaitFrom(t, AckWait(s))]

Record(t) ==
    /\ work[t].pc = "sent"
    /\ \E s \in Suggested:
          Finished(t, [rows EXCEPT ![work[t].id] = Recorded(@, t, s)])
    /\ answered' = [answered EXCEPT ![work[t].id] = @ + 1]
    /\ UNCHANGED <<used, age, env, late, quiet>>

\* The radio refuses, or does not answer: it may have transmitted all the same.
Refused(t) ==
    /\ work[t].pc \in {"reset", "dm"} /\ device = "bad"
    /\ \/ UNCHANGED <<late, quiet>>
       \/ work[t].pc = "dm" /\ OnAir(t)
    /\ Finished(t, [rows EXCEPT ![work[t].id].next_try = WaitFrom(t, TxWait)])
    /\ UNCHANGED <<used, age, env, answered>>

-----------------------------------------------------------------------------
\* Events from the radio, the clock, and the process

\* _acked: an ack counts for the pending row that lists its code.  Any other ack, that of
\* a try whose code is not in the table yet among them, is lost.
Acked(i, a) ==
    /\ rows[i].state = "pending" /\ a \in rows[i].codes
    /\ rows' = [rows EXCEPT ![i].state = "acked", ![i].next_try = None]
    /\ UNCHANGED <<used, work, todo, age, env, history>>

DeviceChange ==
    /\ device' = IF device = "ok" THEN "bad" ELSE "ok"
    /\ UNCHANGED <<rows, used, work, todo, age, restarts, history>>

Lag(t) == IF t = Loop THEN TickLag ELSE SendLag

Advance ==
    /\ \A t \in Tasks: work[t].pc # "idle" => age[t] < Lag(t)
    /\ age' = [t \in Tasks |-> IF work[t].pc = "idle" THEN 0 ELSE age[t] + 1]
    /\ rows' = [i \in Id |->
                  IF rows[i].next_try # None /\ rows[i].next_try > -TickLag
                  THEN [rows[i] EXCEPT !.next_try = @ - 1] ELSE rows[i]]
    /\ quiet' = [i \in Id |-> IF quiet[i] < Horizon THEN quiet[i] + 1 ELSE quiet[i]]
    /\ UNCHANGED <<used, work, todo, env, answered, late>>

Restart ==
    /\ restarts < MaxRestarts
    /\ restarts' = restarts + 1
    /\ work' = [t \in Tasks |-> IdleWork]
    /\ todo' = NoTodo
    /\ quiet' = [i \in Id |-> Horizon]
    /\ UNCHANGED <<rows, used, age, device, answered, late>>

-----------------------------------------------------------------------------
Resume(t) == PathReset(t) \/ Transmitted(t) \/ Record(t) \/ Refused(t)

Next ==
    \/ \E t \in Senders: Send(t)
    \/ TickStart
    \/ Select
    \/ \E t \in Tasks: Resume(t)
    \/ \E i \in Id, a \in Try: Acked(i, a)
    \/ DeviceChange
    \/ Advance
    \/ Restart

Spec == Init /\ [][Next]_vars

\* The loop keeps ticking, commands come back answered or not, and time passes.
FairSpec ==
    /\ Spec
    /\ WF_vars(TickStart) /\ WF_vars(Select) /\ WF_vars(Advance)
    /\ \A t \in Tasks: WF_vars(Resume(t))

-----------------------------------------------------------------------------
\* Properties

TypeOK ==
    /\ rows \in [Id -> Row]
    /\ used \in 0..MaxDm
    /\ work \in [Tasks -> Work]
    /\ DOMAIN todo \subseteq Id /\ \A i \in DOMAIN todo: todo[i] \in Copy
    /\ age \in [Tasks -> Nat]
    /\ device \in {"ok", "bad"}
    /\ restarts \in 0..MaxRestarts
    /\ answered \in [Id -> Nat] /\ late \in [Id -> Nat] /\ quiet \in [Id -> 0..Horizon]

\* A message is given up only after DM_TRIES transmissions the radio confirmed, and
\* the one update that a POST and a tick can lose costs one try more, not fewer
\* (mesh.py:241-262).
FailedAfterTries ==
    \A i \in Id:
        /\ rows[i].attempts <= answered[i] /\ answered[i] <= rows[i].attempts + 1
        /\ rows[i].state = "failed" => answered[i] >= DmTries

\* Once the code of a try is in expected_ack it stays there: of a POST and a tick that
\* serve the same row, the one that writes last, from a copy without the codes recorded
\* since it was read, drops none of them (mesh.py:257-260, store.py find_mesh_by_ack).
CodesKept == [][\A i \in Id: rows[i].codes \subseteq rows'[i].codes]_vars

\* A message that was acked is transmitted at most once more, by a task that had read
\* it before the ack (mesh.py:99-100, 204-208).
OneLateTry == \A i \in Id: late[i] <= 1

ShortestWait == IF TxWait < MinAckWait THEN TxWait ELSE MinAckWait
LongestLag == IF SendLag > TickLag THEN SendLag ELSE TickLag

\* Before a retry the ack of the try before it was awaited for MIN_ACK_WAIT_S (or
\* TX_WAIT_S when that try was not confirmed), less the time the POST or the tick that
\* sent it had taken since it read the clock (mesh.py:91, 256-260).
RetryWaits ==
    \A t \in Tasks:
        (work[t].pc = "dm" /\ work[t].copy.attempts > 0)
            => quiet[work[t].id] >= ShortestWait - LongestLag

\* Once the radio answers for good, every message is acked or fails (mesh.py:9, 88-101).
EventuallySettled ==
    <>[](device = "ok") =>
        \A i \in Id: rows[i].state = "pending" ~> rows[i].state \in {"acked", "failed"}

\* What mesh.py:9 says: direct messages that go unacked are retried, so one that is
\* acked is done.  A tick that read the row before the ack fails it after the ack.
AckedStays ==
    [][\A i \in Id: rows[i].state = "acked" => rows'[i].state = "acked"]_vars

===============================================================================
