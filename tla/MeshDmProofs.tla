----------------------------- MODULE MeshDmProofs -----------------------------
(***************************************************************************)
(* Theorems about MeshDm, for every number of POSTs, messages and tries    *)
(* and all waits and lags that MeshAssumption allows.                      *)
(***************************************************************************)
EXTENDS MeshDm, TLAPS

Busy(t) == work[t].pc \in {"reset", "dm", "sent"}

\* Task t has row i in hand, and may still transmit it.
Queued(t, i) == t = Loop /\ i \in DOMAIN todo
InWork(t, i) == Busy(t) /\ work[t].id = i
Holds(t, i) == Queued(t, i) \/ InWork(t, i)
Unsent(t, i) == Queued(t, i) \/ (InWork(t, i) /\ work[t].pc # "sent")

\* What t read of it.
CopyBy(t, i) == IF Queued(t, i) THEN todo[i] ELSE work[t].copy

-----------------------------------------------------------------------------
\* The inductive invariant

AgesBounded == \A t \in Tasks: age[t] <= Lag(t)

\* The awaits of a tick before it reads the rows are the loop's alone, and the list of rows
\* it has left is there only while it tries one of the others.
WorkInOrder ==
    /\ \A t \in Senders: work[t].pc # "sync"
    /\ \A t \in Tasks: Busy(t) => work[t].id \in Id /\ work[t].copy.attempts < DmTries
    /\ ~Busy(Loop) => DOMAIN todo = {}
    /\ Busy(Loop) => work[Loop].id \notin DOMAIN todo

\* A row that does not exist, or that of a message in each of its states.
RowShape(i) ==
    /\ i > used => rows[i] = NoRow /\ answered[i] = 0 /\ late[i] = 0
    /\ i <= used => rows[i].state # "absent"
    /\ rows[i].state = "pending" => rows[i].next_try # None
    /\ rows[i].state \in {"acked", "failed"} => rows[i].attempts > 0
    /\ rows[i].codes = 0..(rows[i].attempts - 1)
    /\ rows[i].attempts <= answered[i] /\ answered[i] <= rows[i].attempts + 1
    /\ rows[i].state = "failed" => answered[i] >= DmTries

\* No copy is more than one answer behind its row.
CopyFits(t, i) ==
    LET c == CopyBy(t, i) IN
    /\ i <= used
    /\ c.codes = 0..(c.attempts - 1)
    /\ c.attempts <= rows[i].attempts /\ answered[i] <= c.attempts + 1
    /\ t # Loop => c.attempts = 0

\* While a POST has its row, the loop can read the row only before the first answer, and
\* with a clock read after the POST's: SendLag is below the ack wait.
PostFirst(t, i) ==
    /\ rows[i].attempts = answered[i]
    /\ rows[i].next_try # None
        => rows[i].next_try >= (IF answered[i] = 0 THEN 0 ELSE MinAckWait) - age[t]
    /\ \A u \in Tasks \ {t}: Holds(u, i) => /\ u = Loop /\ answered[i] = 0
                                            /\ age[Loop] <= age[t]

\* A message transmitted after its ack is in nobody's hands to be transmitted again.
LateOnce(i) ==
    /\ late[i] <= 1
    /\ late[i] = 1 => /\ rows[i].state \in {"acked", "failed"}
                      /\ \A t \in Tasks: ~Unsent(t, i)

\* The next try comes a wait after the last: in the table, and in the hands of the loop.
WaitKept(i) ==
    LET w == ShortestWait - LongestLag IN
    /\ (rows[i].state = "pending" /\ rows[i].attempts > 0 /\ \A t \in Tasks: ~Holds(t, i))
        => quiet[i] >= w \/ rows[i].next_try + quiet[i] >= w
    /\ (Unsent(Loop, i) /\ CopyBy(Loop, i).attempts > 0) => quiet[i] >= w

RowInv(i) ==
    /\ RowShape(i)
    /\ \A t \in Tasks: Holds(t, i) => CopyFits(t, i)
    /\ \A t \in Senders: Holds(t, i) => PostFirst(t, i)
    /\ LateOnce(i)
    /\ WaitKept(i)

IInv == TypeOK /\ AgesBounded /\ WorkInOrder /\ \A i \in Id: RowInv(i)

-----------------------------------------------------------------------------
\* Types

\* Before the first try there are no codes.
LEMMA NoCodes == \A n: n = 0 => 0..(n - 1) = {}
  OBVIOUS

\* A row, and a copy of it, field by field.
LEMMA RowFields ==
  ASSUME NEW r \in Row
  PROVE  /\ r.state \in {"absent", "pending", "acked", "failed"}
         /\ r.attempts \in 0..DmTries /\ r.attempts \in Nat /\ r.codes \in SUBSET Try
         /\ r.next_try # None => r.next_try \in Int
         /\ CopyOf(r) \in Copy /\ CopyOf(r).attempts = r.attempts /\ CopyOf(r).codes = r.codes
  BY MeshAssumption DEF Row, Copy, CopyOf

LEMMA NoRowType ==
  /\ NoRow \in Row /\ CopyOf(NoRow) \in Copy /\ CopyOf(NoRow).attempts = 0
  /\ CopyOf(NoRow).codes = {} /\ IdleWork \in Work
  BY MeshAssumption DEF NoRow, Row, Copy, CopyOf, IdleWork, Work, Try

\* The waits and lags are numbers, and the shortest wait is one the history can count to.
LEMMA Waits ==
  /\ ShortestWait \in Nat /\ ShortestWait <= MinAckWait /\ ShortestWait <= TxWait
  /\ LongestLag \in Nat /\ \A t \in Tasks: Lag(t) \in Nat /\ Lag(t) <= LongestLag
  /\ \A s \in Suggested: AckWait(s) \in Nat /\ AckWait(s) >= MinAckWait
  BY MeshAssumption DEF ShortestWait, LongestLag, Lag, AckWait, Tasks

\* Whoever holds a row is awaiting the radio, and its copy is one.
LEMMA HoldsType ==
  ASSUME TypeOK, WorkInOrder, NEW t \in Tasks, NEW i \in Id, Holds(t, i)
  PROVE  /\ Busy(t) /\ work[t].pc # "idle"
         /\ CopyBy(t, i) \in Copy /\ CopyBy(t, i).attempts \in Nat
         /\ CopyBy(t, i).codes \in SUBSET Try
  <1>1. Busy(t)
    BY DEF Holds, Queued, InWork, WorkInOrder
  <1>2. CopyBy(t, i) \in Copy
    BY DEF CopyBy, Holds, Queued, TypeOK, Work
  <1>3. QED
    BY <1>1, <1>2, MeshAssumption DEF Busy, Copy

-----------------------------------------------------------------------------
\* What the loop does when it goes on

FailedRow(r) == [r EXCEPT !.state = "failed", !.next_try = None]

LEMMA FailedType ==
  ASSUME NEW r \in Row
  PROVE  /\ FailedRow(r) \in Row /\ FailedRow(r).state = "failed"
         /\ FailedRow(r).next_try = None
         /\ FailedRow(r).attempts = r.attempts /\ FailedRow(r).codes = r.codes
  BY DEF FailedRow, Row

\* Of the copies it goes on with the loop fails those that are out of tries at the head of
\* the list, tries the next and keeps the rest; it touches nothing else.
LEMMA GoOnEffect ==
  ASSUME TypeOK, NEW r \in [Id -> Row],
         NEW copies, DOMAIN copies \subseteq Id, \A j \in DOMAIN copies: copies[j] \in Copy,
         GoOn(r, copies)
  PROVE  /\ rows' \in [Id -> Row] /\ work' \in [Tasks -> Work]
         /\ DOMAIN todo' \subseteq Id /\ \A j \in DOMAIN todo': todo'[j] \in Copy
         /\ \A t \in Senders: work'[t] = work[t]
         /\ Busy(Loop)' => /\ work'[Loop].id \in Id /\ work'[Loop].copy.attempts < DmTries
                           /\ work'[Loop].id \notin DOMAIN todo'
         /\ ~Busy(Loop)' => DOMAIN todo' = {}
         /\ \A i \in Id: Holds(Loop, i)' => /\ i \in DOMAIN copies /\ rows'[i] = r[i]
                                            /\ CopyBy(Loop, i)' = copies[i]
         /\ \A i \in DOMAIN copies:
               Holds(Loop, i)' \/ (copies[i].attempts >= DmTries /\ rows'[i] = FailedRow(r[i]))
         /\ \A i \in Id \ DOMAIN copies: rows'[i] = r[i]
  <1> DEFINE lead == Lead(copies)
             rest == DOMAIN copies \ lead
  <1>1. \A i \in Id: rows'[i] = IF i \in lead THEN FailedRow(r[i]) ELSE r[i]
    BY DEF GoOn, Fail, FailedRow
  <1>2. rows' \in [Id -> Row]
    <2>1. \A i \in Id: rows'[i] \in Row
      BY <1>1, FailedType
    <2>2. QED
      BY <2>1 DEF GoOn, Fail
  <1>3. \A i \in lead: i \in DOMAIN copies /\ copies[i].attempts >= DmTries
    BY MeshAssumption DEF Lead, Exhausted, Id
  <1>4. \A i \in Id \ DOMAIN copies: rows'[i] = r[i]
    BY <1>1, <1>3
  <1>5. Loop \in Tasks /\ Loop \notin Senders
    BY MeshAssumption DEF Tasks
  <1>6. CASE rest = {}
    <2>1. work' = [work EXCEPT ![Loop] = IdleWork] /\ todo' = NoTodo
      BY <1>6 DEF GoOn
    <2>2. work' \in [Tasks -> Work] /\ work'[Loop] = IdleWork
          /\ \A t \in Senders: work'[t] = work[t]
      BY <1>5, <2>1, NoRowType DEF TypeOK, Tasks
    <2>3. DOMAIN todo' = {} /\ ~Busy(Loop)'
      BY <2>1, <2>2 DEF NoTodo, Busy, IdleWork
    <2>4. \A i \in Id: ~Holds(Loop, i)'
      BY <2>3 DEF Holds, Queued, InWork
    <2>5. \A i \in DOMAIN copies: i \in lead
      BY <1>6
    <2>6. QED
      BY <1>1, <1>2, <1>3, <1>4, <2>2, <2>3, <2>4, <2>5
  <1>7. CASE rest # {}
    <2>0. PICK i \in rest:
             /\ \A j \in rest: i <= j
             /\ \E pc \in FirstAwait(copies[i]):
                  work' = [work EXCEPT ![Loop] = Job(pc, i, copies[i])]
             /\ todo' = [j \in rest \ {i} |-> copies[j]]
      BY <1>7 DEF GoOn
    <2>1. PICK pc \in FirstAwait(copies[i]): work' = [work EXCEPT ![Loop] = Job(pc, i, copies[i])]
      BY <2>0
    <2>2. pc \in {"reset", "dm"}
      BY DEF FirstAwait
    <2>3. i \in Id /\ i \in DOMAIN copies /\ i \notin lead
      OBVIOUS
    <2>4. copies[i].attempts < DmTries
      <3>1. PICK j \in DOMAIN copies: j <= i /\ ~Exhausted(copies[j])
        BY <2>3 DEF Lead
      <3>2. j \notin lead
        BY <3>1, MeshAssumption DEF Lead, Id
      <3>3. i <= j
        BY <2>0, <3>1, <3>2
      <3>4. i = j
        BY <2>3, <3>1, <3>3, MeshAssumption DEF Id
      <3>5. copies[i].attempts \in Nat
        BY <2>3, MeshAssumption DEF Copy
      <3>6. QED
        BY <3>1, <3>4, <3>5, MeshAssumption DEF Exhausted
    <2>5. Job(pc, i, copies[i]) \in Work /\ Job(pc, i, copies[i]).pc = pc
          /\ Job(pc, i, copies[i]).id = i /\ Job(pc, i, copies[i]).copy = copies[i]
      BY <2>2, <2>3 DEF Job, Work
    <2>6. /\ work' \in [Tasks -> Work] /\ work'[Loop] = Job(pc, i, copies[i])
          /\ \A t \in Senders: work'[t] = work[t]
      BY <1>5, <2>1, <2>5 DEF TypeOK, Tasks
    <2>7. DOMAIN todo' = rest \ {i} /\ \A j \in DOMAIN todo': todo'[j] = copies[j]
      BY <2>0
    <2>8. Busy(Loop)'
      BY <2>2, <2>5, <2>6 DEF Busy
    <2>9. \A j \in Id: Holds(Loop, j)' <=> j \in rest
      BY <2>5, <2>6, <2>7, <2>8 DEF Holds, Queued, InWork
    <2>10. \A j \in rest: CopyBy(Loop, j)' = copies[j]
      BY <2>5, <2>6, <2>7 DEF CopyBy, Queued
    <2>11. \A j \in rest: rows'[j] = r[j]
      BY <1>1
    <2> HIDE DEF rest, lead
    <2>12. rest \subseteq DOMAIN copies /\ \A j \in DOMAIN copies: j \in rest \/ j \in lead
      BY DEF rest
    <2>13. QED
      BY <1>1, <1>2, <1>3, <1>4, <2>3, <2>4, <2>5, <2>6, <2>7, <2>8, <2>9, <2>10, <2>11, <2>12
  <1>8. QED
    BY <1>6, <1>7

-----------------------------------------------------------------------------
\* Rows in two hands, rows nobody touches, rows that fail

\* Two tasks hold one row only when one is a POST, the other the loop, and the message
\* was never answered: their copies are the row.
LEMMA TwoHands ==
  ASSUME TypeOK, WorkInOrder, NEW i \in Id, RowInv(i),
         NEW t \in Tasks, NEW u \in Tasks, t # u, Holds(t, i), Holds(u, i)
  PROVE  /\ t = Loop \/ u = Loop
         /\ rows[i].attempts = 0 /\ answered[i] = 0
         /\ CopyBy(t, i).attempts = 0 /\ CopyBy(u, i).attempts = 0
         /\ u = Loop => age[Loop] <= age[t]
         /\ t = Loop => age[Loop] <= age[u]
  <1>1. t # Loop => u = Loop /\ answered[i] = 0 /\ age[Loop] <= age[t] /\ rows[i].attempts = 0
    BY DEF RowInv, PostFirst, Tasks
  <1>2. u # Loop => t = Loop /\ answered[i] = 0 /\ age[Loop] <= age[u] /\ rows[i].attempts = 0
    BY DEF RowInv, PostFirst, Tasks
  <1>3. rows[i].attempts = 0 /\ answered[i] = 0
    BY <1>1, <1>2
  <1>4. CopyBy(t, i).attempts <= rows[i].attempts /\ CopyBy(u, i).attempts <= rows[i].attempts
    BY DEF RowInv, CopyFits
  <1>5. CopyBy(t, i).attempts \in Nat /\ CopyBy(u, i).attempts \in Nat
    BY HoldsType
  <1>6. QED
    BY <1>1, <1>2, <1>3, <1>4, <1>5

\* A row that was answered is in one task's hands at most.
LEMMA OneHand ==
  ASSUME TypeOK, WorkInOrder, NEW i \in Id, RowInv(i),
         NEW t \in Tasks, Holds(t, i), rows[i].attempts > 0
  PROVE  \A u \in Tasks \ {t}: ~Holds(u, i)
  BY TwoHands

\* A step that leaves a row alone, and who holds it with which copy, keeps its invariant.
LEMMA KeptRow ==
  ASSUME TypeOK, NEW i \in Id, RowInv(i),
         rows'[i] = rows[i], answered'[i] = answered[i], late'[i] = late[i], quiet'[i] = quiet[i],
         i <= used <=> i <= used', used' \in Nat,
         \A t \in Tasks: /\ Holds(t, i)' <=> Holds(t, i)
                         /\ Holds(t, i) => CopyBy(t, i)' = CopyBy(t, i) /\ age'[t] = age[t]
                         /\ Unsent(t, i)' => Unsent(t, i)
  PROVE  RowInv(i)'
  <1> USE DEF RowInv
  <1>0. Loop \in Tasks /\ Senders \subseteq Tasks
    BY DEF Tasks
  <1>1. RowShape(i)'
    BY MeshAssumption DEF RowShape, Id, TypeOK
  <1>2. \A t \in Tasks: Holds(t, i)' => CopyFits(t, i)'
    BY DEF CopyFits
  <1>3. \A t \in Senders: Holds(t, i)' => PostFirst(t, i)'
    <2> SUFFICES ASSUME NEW t \in Senders, Holds(t, i)' PROVE PostFirst(t, i)'
      OBVIOUS
    <2>1. Holds(t, i) /\ age'[t] = age[t] /\ PostFirst(t, i)
      BY <1>0
    <2>2. QED
      BY <1>0, <2>1 DEF PostFirst
  <1>4. LateOnce(i)'
    BY DEF LateOnce
  <1>5. WaitKept(i)'
    <2>1. Unsent(Loop, i)' => Holds(Loop, i) /\ Unsent(Loop, i)
      BY <1>0 DEF Holds, Unsent
    <2>2. QED
      BY <1>0, <2>1 DEF WaitKept
  <1>6. QED
    BY <1>1, <1>2, <1>3, <1>4, <1>5

\* A row the loop gives up in a step that leaves it in nobody's hands.
LEMMA RowFails ==
  ASSUME TypeOK, NEW i \in Id, RowInv(i), rows[i].attempts >= DmTries, i <= used,
         rows'[i] = FailedRow(rows[i]),
         answered'[i] = answered[i], late'[i] = late[i], quiet'[i] = quiet[i], used' = used,
         \A t \in Tasks: ~Holds(t, i)'
  PROVE  RowInv(i)'
  <1> USE DEF RowInv
  <1>1. rows[i] \in Row /\ used \in Nat /\ answered[i] \in Nat
    BY MeshAssumption DEF TypeOK
  <1>2. /\ rows'[i].state = "failed" /\ rows'[i].next_try = None
        /\ rows'[i].attempts = rows[i].attempts /\ rows'[i].codes = rows[i].codes
    BY <1>1, FailedType
  <1>3. RowShape(i)'
    BY <1>1, <1>2, MeshAssumption, RowFields DEF RowShape, Id
  <1>4. \A t \in Tasks: ~Unsent(t, i)'
    BY DEF Holds, Unsent
  <1>5. LateOnce(i)' /\ WaitKept(i)'
    BY <1>2, <1>4 DEF LateOnce, WaitKept, Tasks
  <1>6. QED
    BY <1>3, <1>5 DEF Tasks

-----------------------------------------------------------------------------
\* The actions

LEMMA InitInv == Init => IInv
  <1> SUFFICES ASSUME Init PROVE IInv
    OBVIOUS
  <1>1. TypeOK
    BY MeshAssumption, NoRowType DEF Init, TypeOK, Horizon, NoTodo, Id
  <1>2. DOMAIN todo = {} /\ \A t \in Tasks: ~Busy(t) /\ work[t].pc # "sync"
    BY DEF Init, NoTodo, Busy, IdleWork
  <1>3. AgesBounded
    BY Waits DEF Init, AgesBounded
  <1>4. WorkInOrder
    BY <1>2 DEF WorkInOrder, Tasks
  <1>5. ASSUME NEW i \in Id PROVE RowInv(i)
    <2>1. \A t \in Tasks: ~Holds(t, i) /\ ~Unsent(t, i)
      BY <1>2 DEF Holds, Unsent, Queued, InWork
    <2>2. RowShape(i)
      <3>1. rows[i] = NoRow /\ answered[i] = 0 /\ late[i] = 0 /\ used = 0 /\ i > used
        BY MeshAssumption DEF Init, Id
      <3>2. NoRow.state = "absent" /\ NoRow.attempts = 0 /\ NoRow.codes = {}
        BY DEF NoRow
      <3>3. rows[i].codes = 0..(rows[i].attempts - 1)
        BY <3>1, <3>2, NoCodes
      <3>4. QED
        BY <3>1, <3>2, <3>3, MeshAssumption DEF RowShape, Id
    <2>3. LateOnce(i) /\ WaitKept(i)
      BY <2>1 DEF Init, LateOnce, WaitKept, NoRow, Tasks
    <2>4. QED
      BY <2>1, <2>2, <2>3 DEF RowInv, Tasks
  <1>6. QED
    BY <1>1, <1>3, <1>4, <1>5 DEF IInv

\* Send: a new row, in the hands of its POST and of nobody else.
LEMMA SendInv ==
  ASSUME IInv, NEW t \in Senders, Send(t)
  PROVE  IInv'
  <1> USE DEF IInv
  <1> DEFINE n == used + 1
             fresh == [state |-> "pending", attempts |-> 0, codes |-> {}, next_try |-> 0]
  <1>1. PICK pc \in {"reset", "dm"}: work' = [work EXCEPT ![t] = Job(pc, n, CopyOf(NoRow))]
    BY DEF Send, FirstAwait
  <1>2. /\ t \in Tasks /\ t # Loop /\ work[t].pc = "idle" /\ used \in Nat /\ n \in Id /\ used' = n
        /\ rows' = [rows EXCEPT ![n] = fresh] /\ age' = [age EXCEPT ![t] = 0]
        /\ UNCHANGED <<todo, device, restarts, answered, late, quiet>>
    BY MeshAssumption DEF Send, env, history, Id, Tasks, TypeOK
  <1>3. fresh \in Row /\ Job(pc, n, CopyOf(NoRow)) \in Work
    BY <1>2, MeshAssumption, NoRowType DEF Row, Job, Work
  <1>4. TypeOK'
    <2>1. rows' \in [Id -> Row] /\ work' \in [Tasks -> Work] /\ age' \in [Tasks -> Nat]
      BY <1>1, <1>2, <1>3 DEF TypeOK
    <2>2. used' \in 0..MaxDm
      BY <1>2, MeshAssumption DEF Id
    <2>3. QED
      BY <1>2, <2>1, <2>2 DEF TypeOK
  <1>5. AgesBounded'
    BY <1>2, Waits DEF AgesBounded, TypeOK
  <1>6. /\ work'[t].pc = pc /\ work'[t].id = n /\ work'[t].copy = CopyOf(NoRow)
        /\ \A u \in Tasks \ {t}: work'[u] = work[u]
    BY <1>1, <1>2 DEF Job, TypeOK
  <1>7. WorkInOrder'
    BY <1>2, <1>6, MeshAssumption, NoRowType DEF WorkInOrder, Busy, Tasks
  <1>8. ASSUME NEW i \in Id PROVE RowInv(i)'
    <2>1. \A u \in Tasks \ {t}: /\ Holds(u, i)' <=> Holds(u, i)
                                /\ CopyBy(u, i)' = CopyBy(u, i)
                                /\ Unsent(u, i)' <=> Unsent(u, i)
      BY <1>2, <1>6 DEF Holds, Queued, InWork, Busy, CopyBy, Unsent
    <2>2. ~Holds(t, i) /\ (Holds(t, i)' <=> i = n)
      BY <1>2, <1>6 DEF Holds, Queued, InWork, Busy
    <2>3. CASE i # n
      <3>1. rows'[i] = rows[i] /\ (i <= used <=> i <= used')
        BY <1>2, <2>3 DEF Id, TypeOK
      <3>2. ~Unsent(t, i)'
        BY <2>2, <2>3 DEF Holds, Unsent
      <3>3. \A u \in Tasks: Holds(u, i) => age'[u] = age[u]
        BY <1>2, <2>2 DEF TypeOK
      <3>4. QED
        BY <1>2, <2>1, <2>2, <2>3, <3>1, <3>2, <3>3, KeptRow
    <2>4. CASE i = n
      <3>1. rows'[i] = fresh /\ answered'[i] = 0 /\ late'[i] = 0
        BY <1>2, <2>4 DEF RowInv, RowShape, TypeOK
      <3>2. \A u \in Tasks \ {t}: ~Holds(u, i)'
        BY <1>2, <2>1, <2>4 DEF RowInv, CopyFits
      <3>3. RowShape(i)'
        <4>1. rows'[i].codes = 0..(rows'[i].attempts - 1)
          BY <3>1, NoCodes
        <4>2. QED
          BY <1>2, <2>4, <3>1, <4>1, MeshAssumption DEF RowShape
      <3>4. CopyBy(t, i)' = CopyOf(NoRow)
        BY <1>2, <1>6 DEF CopyBy, Queued
      <3>5. CopyFits(t, i)'
        <4>1. CopyBy(t, i)'.codes = 0..(CopyBy(t, i)'.attempts - 1)
          BY <3>4, NoRowType, NoCodes
        <4>2. QED
          BY <1>2, <2>4, <3>1, <3>4, <4>1, NoRowType DEF CopyFits
      <3>6. PostFirst(t, i)'
        BY <1>2, <3>1, <3>2 DEF PostFirst, TypeOK
      <3>7. LateOnce(i)'
        BY <3>1 DEF LateOnce
      <3>8. WaitKept(i)'
        <4>1. ~Unsent(Loop, i)'
          BY <1>2, <3>2 DEF Unsent, Holds, Tasks
        <4>2. QED
          BY <3>1, <4>1 DEF WaitKept
      <3>9. QED
        BY <3>2, <3>3, <3>5, <3>6, <3>7, <3>8 DEF RowInv, Tasks
    <2>5. QED
      BY <2>3, <2>4
  <1>9. QED
    BY <1>4, <1>5, <1>7, <1>8

\* The loop reads the clock; it has no row in hand.
LEMMA TickStartInv ==
  ASSUME IInv, TickStart
  PROVE  IInv'
  <1> USE DEF IInv
  <1>1. /\ work[Loop].pc = "idle" /\ work' = [work EXCEPT ![Loop] = Job("sync", 0, CopyOf(NoRow))]
        /\ age' = [age EXCEPT ![Loop] = 0] /\ Loop \in Tasks /\ Loop \notin Senders
        /\ UNCHANGED <<rows, used, todo, device, restarts, answered, late, quiet>>
    BY MeshAssumption DEF TickStart, env, history, Tasks
  <1>2. TypeOK'
    <2>1. Job("sync", 0, CopyOf(NoRow)) \in Work
      BY NoRowType DEF Job, Work
    <2>2. QED
      BY <1>1, <2>1 DEF TypeOK
  <1>3. AgesBounded'
    BY <1>1, Waits DEF AgesBounded, TypeOK
  <1>4. work'[Loop].pc = "sync" /\ \A u \in Tasks \ {Loop}: work'[u] = work[u]
    BY <1>1 DEF Job, TypeOK
  <1>5. DOMAIN todo = {} /\ ~Busy(Loop) /\ ~Busy(Loop)'
    BY <1>1, <1>4 DEF WorkInOrder, Busy
  <1>6. WorkInOrder'
    BY <1>1, <1>4, <1>5 DEF WorkInOrder, Busy, Tasks
  <1>7. ASSUME NEW i \in Id PROVE RowInv(i)'
    <2>1. \A u \in Tasks: /\ Holds(u, i)' <=> Holds(u, i)
                          /\ Holds(u, i) => u # Loop /\ CopyBy(u, i)' = CopyBy(u, i)
                          /\ Unsent(u, i)' <=> Unsent(u, i)
      BY <1>1, <1>4, <1>5 DEF Holds, Queued, InWork, Busy, CopyBy, Unsent
    <2>2. \A u \in Tasks: Holds(u, i) => age'[u] = age[u]
      BY <1>1, <2>1 DEF TypeOK
    <2>3. QED
      BY <1>1, <2>1, <2>2, MeshAssumption, KeptRow DEF TypeOK
  <1>8. QED
    BY <1>2, <1>3, <1>6, <1>7

\* A due row is never one a POST has an answer for: the clock that made it due would be a
\* full ack wait after the POST's.
LEMMA DueRow ==
  ASSUME TypeOK, AgesBounded, WorkInOrder, NEW i \in Due, RowInv(i),
         NEW t \in Senders, Holds(t, i)
  PROVE  rows[i].attempts = 0 /\ answered[i] = 0 /\ age[Loop] <= age[t]
  <1>1. i \in Id /\ rows[i].state = "pending" /\ rows[i].next_try <= -age[Loop]
    BY DEF Due
  <1>2. t \in Tasks /\ t # Loop /\ Loop \in Tasks
    BY MeshAssumption DEF Tasks
  <1>3. age[t] \in Nat /\ age[Loop] \in Nat /\ answered[i] \in Nat /\ rows[i].next_try \in Int
    BY <1>1, <1>2, RowFields DEF TypeOK, RowInv, RowShape
  <1>4. age[t] <= SendLag
    BY <1>2 DEF AgesBounded, Lag
  <1>5. /\ rows[i].attempts = answered[i]
        /\ rows[i].next_try >= (IF answered[i] = 0 THEN 0 ELSE MinAckWait) - age[t]
    BY <1>1 DEF RowInv, RowShape, PostFirst
  <1>6. QED
    BY <1>1, <1>3, <1>4, <1>5, MeshAssumption

\* The loop takes the due rows in hand.
LEMMA SelectInv ==
  ASSUME IInv, Select
  PROVE  IInv'
  <1> USE DEF IInv
  <1> DEFINE copies == [i \in Due |-> CopyOf(rows[i])]
  <1>1. /\ work[Loop].pc = "sync" /\ GoOn(rows, copies) /\ Loop \in Tasks /\ Loop \notin Senders
        /\ UNCHANGED <<used, age, device, restarts, answered, late, quiet>>
    BY MeshAssumption DEF Select, env, history, Tasks
  <1>2. rows \in [Id -> Row] /\ Due \subseteq Id /\ DOMAIN copies = Due
        /\ \A j \in Due: copies[j] \in Copy /\ copies[j].attempts = rows[j].attempts
                         /\ copies[j].codes = rows[j].codes
    BY RowFields DEF TypeOK, Due
  <1> HIDE DEF copies
  <1>3. /\ rows' \in [Id -> Row] /\ work' \in [Tasks -> Work]
        /\ DOMAIN todo' \subseteq Id /\ \A j \in DOMAIN todo': todo'[j] \in Copy
        /\ \A t \in Senders: work'[t] = work[t]
        /\ Busy(Loop)' => /\ work'[Loop].id \in Id /\ work'[Loop].copy.attempts < DmTries
                          /\ work'[Loop].id \notin DOMAIN todo'
        /\ ~Busy(Loop)' => DOMAIN todo' = {}
        /\ \A i \in Id: Holds(Loop, i)' => /\ i \in Due /\ rows'[i] = rows[i]
                                           /\ CopyBy(Loop, i)' = copies[i]
        /\ \A i \in Due:
              Holds(Loop, i)' \/ (copies[i].attempts >= DmTries /\ rows'[i] = FailedRow(rows[i]))
        /\ \A i \in Id \ Due: rows'[i] = rows[i]
    BY <1>1, <1>2, GoOnEffect
  <1>4. TypeOK' /\ AgesBounded'
    BY <1>1, <1>3 DEF TypeOK, AgesBounded
  <1>5. WorkInOrder'
    BY <1>3 DEF WorkInOrder, Busy, Tasks
  <1>6. DOMAIN todo = {} /\ \A i \in Id: ~Holds(Loop, i) /\ ~Unsent(Loop, i)
    BY <1>1 DEF WorkInOrder, Busy, Holds, Queued, InWork, Unsent
  <1>7. ASSUME NEW i \in Id PROVE RowInv(i)'
    <2>0. RowInv(i) /\ rows[i] \in Row /\ answered[i] \in Nat /\ used \in Nat /\ late[i] \in Nat
          /\ quiet[i] \in Nat /\ MaxDm \in Nat /\ MinAckWait \in Nat
      BY MeshAssumption DEF TypeOK, Horizon
    <2>1. \A t \in Senders: /\ Holds(t, i)' <=> Holds(t, i)
                            /\ CopyBy(t, i)' = CopyBy(t, i)
                            /\ Unsent(t, i)' <=> Unsent(t, i)
      BY <1>1, <1>3 DEF Holds, Queued, InWork, Busy, CopyBy, Unsent
    <2>2. CASE i \notin Due
      <3>1. rows'[i] = rows[i] /\ ~Holds(Loop, i)' /\ ~Unsent(Loop, i)'
        BY <1>3, <2>2 DEF Holds, Unsent
      <3>2. QED
        BY <1>1, <1>6, <2>0, <2>1, <3>1, KeptRow DEF Tasks
    <2>3. CASE i \in Due /\ Holds(Loop, i)'
      <3>1. /\ rows'[i] = rows[i] /\ CopyBy(Loop, i)' = copies[i]
            /\ rows[i].state = "pending" /\ rows[i].next_try <= -age[Loop]
            /\ rows[i].next_try \in Int
        BY <1>3, <2>0, <2>3, RowFields DEF Due, RowInv, RowShape
      <3>2. i <= used
        BY <2>0, <3>1 DEF RowInv, RowShape, NoRow, Id
      <3>3. RowShape(i)' /\ CopyFits(Loop, i)'
        <4>1. RowShape(i)'
          BY <1>1, <2>0, <3>1, <3>2 DEF RowInv, RowShape, Id
        <4>2. CopyBy(Loop, i)'.attempts = rows[i].attempts /\ CopyBy(Loop, i)'.codes = rows[i].codes
          BY <1>2, <2>3, <3>1
        <4>3. rows[i].codes = 0..(rows[i].attempts - 1) /\ answered[i] <= rows[i].attempts + 1
              /\ rows[i].attempts \in Nat
          BY <2>0, RowFields DEF RowInv, RowShape
        <4>4. CopyFits(Loop, i)'
          BY <1>1, <3>1, <3>2, <4>2, <4>3 DEF CopyFits
        <4>5. QED
          BY <4>1, <4>4
      <3>4. ASSUME NEW t \in Senders, Holds(t, i)'
            PROVE  /\ CopyFits(t, i)' /\ PostFirst(t, i)' /\ rows[i].attempts = 0
        <4>1. /\ Holds(t, i) /\ t \in Tasks /\ CopyFits(t, i) /\ PostFirst(t, i)
              /\ CopyBy(t, i)' = CopyBy(t, i)
          BY <2>1, <3>4 DEF RowInv, Tasks
        <4>2. rows[i].attempts = 0 /\ answered[i] = 0 /\ age[Loop] <= age[t]
          BY <2>3, <4>1, DueRow
        <4>3. \A u \in Tasks \ {t}: Holds(u, i)' => u = Loop
          BY <2>1, <4>1 DEF PostFirst, Tasks
        <4>4. QED
          BY <1>1, <3>1, <4>1, <4>2, <4>3 DEF CopyFits, PostFirst
      <3>5. LateOnce(i)'
        BY <1>1, <2>0, <3>1 DEF RowInv, LateOnce
      <3>6. WaitKept(i)'
        <4>1. ASSUME rows[i].attempts > 0
              PROVE  quiet[i] >= ShortestWait - LongestLag
          <5>1. \A t \in Tasks: ~Holds(t, i)
            BY <1>6, <2>1, <3>4, <4>1 DEF Tasks
          <5>2. age[Loop] \in Nat
            BY <1>1 DEF TypeOK
          <5>3. QED
            BY <2>0, <3>1, <4>1, <5>1, <5>2, Waits DEF RowInv, WaitKept
        <4>2. CopyBy(Loop, i)'.attempts > 0 => rows[i].attempts > 0
          BY <1>2, <2>3, <3>1
        <4>3. QED
          BY <1>1, <2>3, <4>1, <4>2 DEF WaitKept
      <3>7. QED
        BY <3>3, <3>4, <3>5, <3>6 DEF RowInv, Tasks
    <2>4. CASE i \in Due /\ ~Holds(Loop, i)'
      <3>1. rows[i].attempts >= DmTries /\ rows'[i] = FailedRow(rows[i])
        BY <1>2, <1>3, <2>4
      <3>2. rows[i].attempts > 0 /\ rows[i].state = "pending"
        BY <2>0, <2>4, <3>1, RowFields, MeshAssumption DEF Due
      <3>3. \A t \in Senders: ~Holds(t, i)
        BY <2>0, <2>4, <3>2, DueRow
      <3>4. i <= used
        BY <2>0, <3>2 DEF RowInv, RowShape, NoRow, Id
      <3>5. \A t \in Tasks: ~Holds(t, i)'
        BY <2>1, <2>4, <3>3 DEF Tasks
      <3>6. QED
        BY <1>1, <2>0, <3>1, <3>4, <3>5, RowFails
    <2>5. QED
      BY <2>2, <2>3, <2>4
  <1>8. QED
    BY <1>4, <1>5, <1>7

\* The radio answers the command of a task; nothing is transmitted yet.
LEMMA PathResetInv ==
  ASSUME IInv, NEW t \in Tasks, PathReset(t)
  PROVE  IInv'
  <1> USE DEF IInv
  <1>1. /\ work[t].pc = "reset" /\ work' = [work EXCEPT ![t].pc = "dm"]
        /\ UNCHANGED <<rows, used, todo, age, device, restarts, answered, late, quiet>>
    BY DEF PathReset, env, history
  <1>2. /\ work' \in [Tasks -> Work] /\ \A u \in Tasks \ {t}: work'[u] = work[u]
        /\ work'[t].pc = "dm" /\ work'[t].id = work[t].id /\ work'[t].copy = work[t].copy
    BY <1>1 DEF TypeOK, Work
  <1>3. TypeOK' /\ AgesBounded'
    BY <1>1, <1>2 DEF TypeOK, AgesBounded
  <1>4. \A u \in Tasks: Busy(u)' <=> Busy(u)
    BY <1>1, <1>2 DEF Busy
  <1>5. WorkInOrder'
    BY <1>1, <1>2, <1>4, MeshAssumption DEF WorkInOrder, Tasks
  <1>6. ASSUME NEW i \in Id PROVE RowInv(i)'
    <2>1. \A u \in Tasks: /\ Holds(u, i)' <=> Holds(u, i)
                          /\ CopyBy(u, i)' = CopyBy(u, i)
                          /\ Unsent(u, i)' <=> Unsent(u, i)
      BY <1>1, <1>2, <1>4 DEF Holds, Queued, InWork, CopyBy, Unsent
    <2>2. QED
      BY <1>1, <2>1, MeshAssumption, KeptRow DEF TypeOK
  <1>7. QED
    BY <1>3, <1>5, <1>6

\* A transmission in a step that ends with t unable to transmit the row again: what the
\* histories say of it afterwards.
LEMMA OnAirOnce ==
  ASSUME TypeOK, WorkInOrder, NEW t \in Tasks, work[t].pc = "dm", NEW i \in Id, work[t].id = i,
         RowInv(i), OnAir(t)
  PROVE  /\ quiet' \in [Id -> 0..Horizon] /\ late' \in [Id -> Nat]
         /\ \A j \in Id \ {i}: quiet'[j] = quiet[j] /\ late'[j] = late[j]
         /\ late[i] = 0 /\ late'[i] <= 1
         /\ late'[i] = 1 => /\ rows[i].state = "acked"
                            /\ \A u \in Tasks \ {t}: ~Holds(u, i)
  <1>1. /\ quiet' = [quiet EXCEPT ![i] = 0]
        /\ late' = IF rows[i].state = "acked" THEN [late EXCEPT ![i] = @ + 1] ELSE late
    BY DEF OnAir
  <1>2. /\ quiet' \in [Id -> 0..Horizon] /\ late' \in [Id -> Nat]
        /\ \A j \in Id \ {i}: quiet'[j] = quiet[j] /\ late'[j] = late[j]
    BY <1>1, MeshAssumption DEF TypeOK, Horizon
  <1>3. Holds(t, i) /\ Unsent(t, i)
    BY DEF Holds, InWork, Busy, Unsent
  <1>4. late[i] = 0
    BY <1>3 DEF RowInv, LateOnce, TypeOK
  <1>5. rows[i].state = "acked" => \A u \in Tasks \ {t}: ~Holds(u, i)
    BY <1>3, OneHand DEF RowInv, RowShape
  <1>6. QED
    BY <1>1, <1>2, <1>4, <1>5 DEF TypeOK

LEMMA TransmittedInv ==
  ASSUME IInv, NEW t \in Tasks, Transmitted(t)
  PROVE  IInv'
  <1> USE DEF IInv
  <1> DEFINE k == work[t].id
  <1>1. /\ work[t].pc = "dm" /\ work' = [work EXCEPT ![t].pc = "sent"] /\ OnAir(t)
        /\ UNCHANGED <<rows, used, todo, age, device, restarts, answered>>
    BY DEF Transmitted, env
  <1>2. /\ work' \in [Tasks -> Work] /\ \A u \in Tasks \ {t}: work'[u] = work[u]
        /\ work'[t].pc = "sent" /\ work'[t].id = work[t].id /\ work'[t].copy = work[t].copy
    BY <1>1 DEF TypeOK, Work
  <1>3. Busy(t) /\ k \in Id /\ Holds(t, k)
    BY <1>1 DEF Busy, WorkInOrder, Holds, InWork
  <1>4. /\ quiet' \in [Id -> 0..Horizon] /\ late' \in [Id -> Nat]
        /\ \A j \in Id \ {k}: quiet'[j] = quiet[j] /\ late'[j] = late[j]
        /\ late[k] = 0 /\ late'[k] <= 1
        /\ late'[k] = 1 => /\ rows[k].state = "acked"
                           /\ \A u \in Tasks \ {t}: ~Holds(u, k)
    BY <1>1, <1>3, OnAirOnce
  <1>5. TypeOK' /\ AgesBounded'
    BY <1>1, <1>2, <1>4 DEF TypeOK, AgesBounded
  <1>6. \A u \in Tasks: Busy(u)' <=> Busy(u)
    BY <1>1, <1>2 DEF Busy
  <1>7. WorkInOrder'
    BY <1>1, <1>2, <1>6, MeshAssumption DEF WorkInOrder, Tasks
  <1> HIDE DEF k
  <1>8. ASSUME NEW i \in Id PROVE RowInv(i)'
    <2>1. \A u \in Tasks: /\ Holds(u, i)' <=> Holds(u, i)
                          /\ CopyBy(u, i)' = CopyBy(u, i)
                          /\ Unsent(u, i)' => Unsent(u, i)
      BY <1>1, <1>2, <1>6 DEF Holds, Queued, InWork, CopyBy, Unsent
    <2>2. CASE i # k
      BY <1>1, <1>4, <2>1, <2>2, MeshAssumption, KeptRow DEF TypeOK
    <2>3. CASE i = k
      <3>1. ~Unsent(t, i)'
        BY <1>1, <1>2, <1>3, <2>3 DEF Unsent, Queued, InWork, WorkInOrder, k
      <3>2. i <= used /\ i \in Nat /\ used \in Nat
        BY <1>3, <2>3, MeshAssumption DEF RowInv, CopyFits, Id, TypeOK
      <3>3. RowShape(i)'
        BY <1>1, <3>2 DEF RowInv, RowShape
      <3>4. \A u \in Tasks: Holds(u, i)' => CopyFits(u, i)'
        BY <1>1, <2>1 DEF RowInv, CopyFits
      <3>5. \A u \in Senders: Holds(u, i)' => PostFirst(u, i)'
        BY <1>1, <2>1 DEF RowInv, PostFirst, Tasks
      <3>6. LateOnce(i)'
        <4>1. \A u \in Tasks: Unsent(u, i)' => Holds(u, i)
          BY <2>1 DEF Unsent, Holds
        <4>2. late'[i] = 1 => \A u \in Tasks: ~Unsent(u, i)'
          BY <1>4, <2>3, <3>1, <4>1
        <4>3. QED
          BY <1>1, <1>4, <2>3, <4>2 DEF LateOnce
      <3>7. WaitKept(i)'
        <4>1. Holds(t, i)'
          BY <1>3, <2>1, <2>3
        <4>2. Loop \in Tasks /\ (t # Loop /\ Holds(Loop, i) => CopyBy(Loop, i).attempts = 0)
          BY <1>3, <2>3, TwoHands DEF Tasks
        <4>3. Unsent(Loop, i)' => t # Loop /\ Holds(Loop, i)
          BY <2>1, <3>1, <4>2 DEF Unsent, Holds
        <4>4. QED
          BY <2>1, <4>1, <4>2, <4>3 DEF WaitKept
      <3>8. QED
        BY <3>3, <3>4, <3>5, <3>6, <3>7 DEF RowInv
    <2>4. QED
      BY <2>2, <2>3
  <1>9. QED
    BY <1>5, <1>7, <1>8

\* A task is done with row k, whose new value is x: it lets go of k, and the loop fails
\* those of the rows it has left that are out of tries and that nobody else holds.
LEMMA FinishedEffect ==
  ASSUME IInv, NEW t \in Tasks, Busy(t), NEW k \in Id, work[t].id = k, NEW x \in Row,
         Finished(t, [rows EXCEPT ![k] = x])
  PROVE  /\ rows' \in [Id -> Row] /\ work' \in [Tasks -> Work]
         /\ DOMAIN todo' \subseteq Id /\ \A j \in DOMAIN todo': todo'[j] \in Copy
         /\ WorkInOrder'
         /\ \A u \in Tasks, i \in Id:
               Holds(u, i)' => /\ Holds(u, i) /\ CopyBy(u, i)' = CopyBy(u, i)
                               /\ Unsent(u, i)' => Unsent(u, i)
         /\ ~Holds(t, k)' /\ rows'[k] = x
         /\ \A i \in Id \ {k}:
               \/ /\ rows'[i] = rows[i]
                  /\ \A u \in Tasks: Holds(u, i) => Holds(u, i)'
               \/ /\ rows'[i] = FailedRow(rows[i]) /\ rows[i].attempts >= DmTries /\ i <= used
                  /\ \A u \in Tasks: ~Holds(u, i)'
  <1> USE DEF IInv
  <1> DEFINE r == [rows EXCEPT ![k] = x]
  <1>1. r \in [Id -> Row] /\ r[k] = x /\ \A i \in Id \ {k}: r[i] = rows[i]
    BY DEF TypeOK
  <1>2. Loop \in Tasks /\ Loop \notin Senders /\ Senders \subseteq Tasks
    BY MeshAssumption DEF Tasks
  <1> HIDE DEF r
  <1>3. CASE t = Loop
    <2>1. GoOn(r, todo) /\ k \notin DOMAIN todo
      BY <1>3 DEF Finished, WorkInOrder, r
    <2>2. DOMAIN todo \subseteq Id /\ \A j \in DOMAIN todo: todo[j] \in Copy
      BY DEF TypeOK
    <2>3. /\ rows' \in [Id -> Row] /\ work' \in [Tasks -> Work]
          /\ DOMAIN todo' \subseteq Id /\ \A j \in DOMAIN todo': todo'[j] \in Copy
          /\ \A u \in Senders: work'[u] = work[u]
          /\ Busy(Loop)' => /\ work'[Loop].id \in Id /\ work'[Loop].copy.attempts < DmTries
                            /\ work'[Loop].id \notin DOMAIN todo'
          /\ ~Busy(Loop)' => DOMAIN todo' = {}
          /\ \A i \in Id: Holds(Loop, i)' => /\ i \in DOMAIN todo /\ rows'[i] = r[i]
                                             /\ CopyBy(Loop, i)' = todo[i]
          /\ \A i \in DOMAIN todo:
                Holds(Loop, i)' \/ (todo[i].attempts >= DmTries /\ rows'[i] = FailedRow(r[i]))
          /\ \A i \in Id \ DOMAIN todo: rows'[i] = r[i]
      BY <1>1, <2>1, <2>2, GoOnEffect
    <2>4. WorkInOrder'
      BY <1>2, <2>3 DEF WorkInOrder, Busy, Tasks
    <2>5. \A u \in Senders, i \in Id: /\ Holds(u, i)' <=> Holds(u, i)
                                      /\ CopyBy(u, i)' = CopyBy(u, i)
                                      /\ Unsent(u, i)' <=> Unsent(u, i)
      BY <1>2, <2>3 DEF Holds, Queued, InWork, Busy, CopyBy, Unsent
    <2>6. \A i \in DOMAIN todo: Holds(Loop, i) /\ CopyBy(Loop, i) = todo[i] /\ Unsent(Loop, i)
      BY DEF Holds, Queued, CopyBy, Unsent
    <2>7. \A i \in Id: Holds(Loop, i) => i = k \/ i \in DOMAIN todo
      BY <1>3 DEF Holds, Queued, InWork
    <2>8. \A u \in Tasks, i \in Id:
               Holds(u, i)' => /\ Holds(u, i) /\ CopyBy(u, i)' = CopyBy(u, i)
                               /\ Unsent(u, i)' => Unsent(u, i)
      BY <2>3, <2>5, <2>6 DEF Tasks
    <2>9. ~Holds(t, k)' /\ rows'[k] = x
      BY <1>1, <1>3, <2>1, <2>3
    <2>10. ASSUME NEW i \in Id \ {k}
           PROVE  \/ /\ rows'[i] = rows[i]
                     /\ \A u \in Tasks: Holds(u, i) => Holds(u, i)'
                  \/ /\ rows'[i] = FailedRow(rows[i]) /\ rows[i].attempts >= DmTries /\ i <= used
                     /\ \A u \in Tasks: ~Holds(u, i)'
      <3>1. CASE Holds(Loop, i)'
        BY <1>1, <2>3, <2>5, <3>1 DEF Tasks
      <3>2. CASE i \notin DOMAIN todo
        BY <1>1, <2>3, <2>5, <2>7, <3>2 DEF Tasks
      <3>3. CASE i \in DOMAIN todo /\ ~Holds(Loop, i)'
        <4>1. todo[i].attempts >= DmTries /\ rows'[i] = FailedRow(rows[i])
          BY <1>1, <2>3, <3>3
        <4>2. Holds(Loop, i) /\ CopyBy(Loop, i) = todo[i] /\ RowInv(i)
          BY <2>6, <3>3
        <4>3. i <= used /\ todo[i].attempts <= rows[i].attempts
          BY <1>2, <4>2 DEF RowInv, CopyFits
        <4>4. rows[i].attempts \in Nat /\ todo[i].attempts \in Nat
          BY <1>2, <4>2, HoldsType, RowFields DEF TypeOK
        <4>5. rows[i].attempts >= DmTries /\ rows[i].attempts > 0
          BY <4>1, <4>3, <4>4, MeshAssumption
        <4>6. \A u \in Tasks \ {Loop}: ~Holds(u, i)
          BY <1>2, <4>2, <4>5, OneHand
        <4>7. \A u \in Tasks: ~Holds(u, i)'
          BY <2>5, <3>3, <4>6 DEF Tasks
        <4>8. QED
          BY <4>1, <4>3, <4>5, <4>7
      <3>4. QED
        BY <3>1, <3>2, <3>3
    <2>11. QED
      BY <2>3, <2>4, <2>8, <2>9, <2>10
  <1>4. CASE t # Loop
    <2>1. rows' = r /\ work' = [work EXCEPT ![t] = IdleWork] /\ todo' = todo
      BY <1>4 DEF Finished, r
    <2>2. /\ work' \in [Tasks -> Work] /\ work'[t] = IdleWork
          /\ \A u \in Tasks \ {t}: work'[u] = work[u]
      BY <2>1, NoRowType DEF TypeOK
    <2>3. ~Busy(t)' /\ work'[t].pc # "sync" /\ \A u \in Tasks \ {t}: Busy(u)' <=> Busy(u)
      BY <2>2 DEF Busy, IdleWork
    <2>4. WorkInOrder'
      BY <1>2, <1>4, <2>1, <2>2, <2>3 DEF WorkInOrder, Tasks
    <2>5. \A i \in Id: ~Holds(t, i)'
      BY <1>4, <2>3 DEF Holds, Queued, InWork
    <2>6. \A u \in Tasks \ {t}, i \in Id: /\ Holds(u, i)' <=> Holds(u, i)
                                          /\ CopyBy(u, i)' = CopyBy(u, i)
                                          /\ Unsent(u, i)' <=> Unsent(u, i)
      BY <2>1, <2>2, <2>3 DEF Holds, Queued, InWork, CopyBy, Unsent
    <2>7. \A i \in Id \ {k}: ~Holds(t, i)
      BY <1>4 DEF Holds, Queued, InWork
    <2>8. QED
      BY <1>1, <2>1, <2>2, <2>4, <2>5, <2>6, <2>7 DEF TypeOK
  <1>5. QED
    BY <1>3, <1>4

\* The other rows after a step that finishes with row k.
LEMMA OtherRows ==
  ASSUME IInv, NEW k \in Id, NEW i \in Id \ {k},
         answered'[i] = answered[i], late'[i] = late[i], quiet'[i] = quiet[i],
         age' = age, used' = used,
         \A u \in Tasks: Holds(u, i)' => /\ Holds(u, i) /\ CopyBy(u, i)' = CopyBy(u, i)
                                         /\ Unsent(u, i)' => Unsent(u, i),
         \/ /\ rows'[i] = rows[i]
            /\ \A u \in Tasks: Holds(u, i) => Holds(u, i)'
         \/ /\ rows'[i] = FailedRow(rows[i]) /\ rows[i].attempts >= DmTries /\ i <= used
            /\ \A u \in Tasks: ~Holds(u, i)'
  PROVE  RowInv(i)'
  <1>1. TypeOK /\ RowInv(i) /\ i \in Id /\ used' \in Nat
    BY MeshAssumption DEF IInv, TypeOK
  <1>2. CASE rows'[i] = rows[i] /\ \A u \in Tasks: Holds(u, i) => Holds(u, i)'
    <2>1. \A u \in Tasks: Unsent(u, i)' => Unsent(u, i)
      BY DEF Unsent, Holds
    <2>2. QED
      BY <1>1, <1>2, <2>1, KeptRow
  <1>3. CASE /\ rows'[i] = FailedRow(rows[i]) /\ rows[i].attempts >= DmTries /\ i <= used
             /\ \A u \in Tasks: ~Holds(u, i)'
    BY <1>1, <1>3, RowFails
  <1>4. QED
    BY <1>2, <1>3

\* The radio's answer is recorded: the count of answers and the row go up together.
LEMMA RecordInv ==
  ASSUME IInv, NEW t \in Tasks, Record(t)
  PROVE  IInv'
  <1> USE DEF IInv
  <1> DEFINE c == work[t].copy
  <1>0. PICK k \in Id: k = work[t].id
    BY DEF Record, Busy, WorkInOrder
  <1>1. work[t].pc = "sent" /\ Busy(t) /\ k \in Id /\ Holds(t, k) /\ Loop \in Tasks
    BY <1>0 DEF Record, Busy, WorkInOrder, Holds, InWork, Tasks
  <1>2. PICK s \in Suggested: Finished(t, [rows EXCEPT ![k] = Recorded(rows[k], t, s)])
    BY <1>0, <1>1 DEF Record, TypeOK
  <1>3. /\ answered' = [answered EXCEPT ![k] = @ + 1]
        /\ UNCHANGED <<used, age, device, restarts, late, quiet>>
    BY <1>0 DEF Record, env
  <1>4. /\ CopyBy(t, k) = c /\ c \in Copy /\ c.attempts \in Nat /\ c.attempts < DmTries
        /\ RowInv(k) /\ rows[k] \in Row /\ age[t] \in Nat /\ answered[k] \in Nat
    BY <1>0, <1>1, HoldsType DEF CopyBy, Queued, WorkInOrder, TypeOK
  <1>x. PICK x: x = Recorded(rows[k], t, s)
    OBVIOUS
  <1>5. /\ x \in Row /\ x.state = rows[k].state /\ x.attempts = c.attempts + 1
        /\ x.codes = c.codes \cup {c.attempts} /\ x.next_try = AckWait(s) - age[t]
        /\ x.next_try \in Int /\ x.next_try # None
    <2>1. AckWait(s) - age[t] \in Int /\ AckWait(s) - age[t] # None
      BY <1>4, Waits, MeshAssumption
    <2>2. c.attempts + 1 \in 0..DmTries /\ c.codes \cup {c.attempts} \in SUBSET Try
      BY <1>4, MeshAssumption DEF Copy, Try
    <2>3. QED
      BY <1>x, <1>0, <1>4, <2>1, <2>2 DEF Recorded, WaitFrom, Row
  <1> HIDE DEF c
  <1>6. Finished(t, [rows EXCEPT ![k] = x]) /\ work[t].id = k
    BY <1>x, <1>0, <1>2
  <1>7. /\ rows' \in [Id -> Row] /\ work' \in [Tasks -> Work]
        /\ DOMAIN todo' \subseteq Id /\ \A j \in DOMAIN todo': todo'[j] \in Copy
        /\ WorkInOrder'
        /\ \A u \in Tasks, i \in Id:
              Holds(u, i)' => /\ Holds(u, i) /\ CopyBy(u, i)' = CopyBy(u, i)
                              /\ Unsent(u, i)' => Unsent(u, i)
        /\ ~Holds(t, k)' /\ rows'[k] = x
        /\ \A i \in Id \ {k}:
              \/ /\ rows'[i] = rows[i]
                 /\ \A u \in Tasks: Holds(u, i) => Holds(u, i)'
              \/ /\ rows'[i] = FailedRow(rows[i]) /\ rows[i].attempts >= DmTries /\ i <= used
                 /\ \A u \in Tasks: ~Holds(u, i)'
    BY <1>1, <1>5, <1>6, FinishedEffect
  <1>8. TypeOK' /\ AgesBounded' /\ answered'[k] = answered[k] + 1
    <2>1. answered' \in [Id -> Nat] /\ answered'[k] = answered[k] + 1
      BY <1>1, <1>3, <1>4 DEF TypeOK
    <2>2. QED
      BY <1>3, <1>7, <2>1 DEF TypeOK, AgesBounded
  <1>9. ASSUME NEW i \in Id \ {k} PROVE RowInv(i)'
    <2>1. answered'[i] = answered[i]
      BY <1>3 DEF TypeOK
    <2>2. QED
      BY <1>1, <1>3, <1>7, <2>1, OtherRows
  <1>10. RowInv(k)'
    <2>1. /\ k <= used /\ c.codes = 0..(c.attempts - 1)
          /\ c.attempts <= rows[k].attempts /\ answered[k] <= c.attempts + 1
      BY <1>1, <1>4 DEF RowInv, CopyFits
    <2>2. ASSUME NEW u \in Tasks, Holds(u, k)'
          PROVE  /\ u # t /\ Holds(u, k) /\ CopyBy(u, k)' = CopyBy(u, k)
                 /\ (t = Loop \/ u = Loop) /\ rows[k].attempts = 0 /\ answered[k] = 0
                 /\ c.attempts = 0 /\ CopyBy(u, k).attempts = 0
                 /\ (t = Loop => age[Loop] <= age[u])
                 /\ age[u] \in Nat
      <3>1. u # t /\ Holds(u, k) /\ CopyBy(u, k)' = CopyBy(u, k)
        BY <1>1, <1>7, <2>2
      <3>2. QED
        BY <1>1, <1>4, <3>1, TwoHands DEF TypeOK
    <2>3. RowShape(k)'
      <3>1. 0..(c.attempts + 1 - 1) = (0..(c.attempts - 1)) \cup {c.attempts}
        BY <1>4
      <3>2. x.codes = 0..(x.attempts - 1)
        <4>1. x.attempts - 1 = c.attempts /\ c.attempts + 1 - 1 = c.attempts
          BY <1>4, <1>5
        <4>2. QED
          BY <1>5, <2>1, <3>1, <4>1
      <3>3. k \in Nat /\ used \in Nat /\ rows[k].attempts \in Nat
        BY <1>1, <1>4, RowFields, MeshAssumption DEF Id, TypeOK
      <3>4. c.attempts + 1 <= answered[k] + 1
        BY <1>4, <2>1, <3>3 DEF RowInv, RowShape
      <3>5. /\ rows'[k].state = rows[k].state /\ rows'[k].next_try # None
            /\ rows'[k].attempts = c.attempts + 1 /\ rows'[k].codes = 0..(rows'[k].attempts - 1)
        BY <1>5, <1>7, <3>2
      <3>6. /\ ~(k > used) /\ rows[k].state # "absent"
            /\ rows[k].state = "failed" => answered[k] >= DmTries
        BY <1>4, <2>1, <3>3 DEF RowInv, RowShape
      <3>7. answered'[k] = answered[k] + 1 /\ used' = used
        BY <1>3, <1>8
      <3>8. QED
        BY <1>4, <2>1, <3>4, <3>5, <3>6, <3>7, MeshAssumption DEF RowShape
    <2>4. \A u \in Tasks: Holds(u, k)' => CopyFits(u, k)'
      BY <1>1, <1>3, <1>4, <1>5, <1>7, <1>8, <2>2 DEF RowInv, CopyFits
    <2>5. ASSUME NEW u \in Senders, Holds(u, k)' PROVE PostFirst(u, k)'
      <3>1. u \in Tasks /\ u # Loop
        BY MeshAssumption DEF Tasks
      <3>2. t = Loop /\ rows'[k].attempts = 1 /\ answered'[k] = 1 /\ age[Loop] <= age[u]
        BY <1>5, <1>7, <1>8, <2>2, <2>5, <3>1
      <3>3. \A v \in Tasks \ {u}: ~Holds(v, k)'
        <4>1. Holds(u, k) /\ \A v \in Tasks: Holds(v, k)' => v # Loop /\ Holds(v, k)
          BY <2>2, <2>5, <3>1, <3>2
        <4>2. QED
          BY <1>1, <3>1, <4>1, TwoHands
      <3>4. rows'[k].next_try >= MinAckWait - age[u]
        BY <1>4, <1>5, <1>7, <2>2, <2>5, <3>1, <3>2, Waits, MeshAssumption
      <3>5. QED
        BY <1>3, <3>2, <3>3, <3>4 DEF PostFirst
    <2>6. LateOnce(k)'
      <3>1. \A u \in Tasks: Unsent(u, k)' => Unsent(u, k)
        BY <1>1, <1>7 DEF Unsent, Holds
      <3>2. QED
        BY <1>3, <1>4, <1>5, <1>7, <3>1 DEF RowInv, LateOnce
    <2>7. WaitKept(k)'
      <3>1. quiet[k] \in Nat
        BY <1>1, MeshAssumption DEF TypeOK, Horizon
      <3>2. age[t] <= LongestLag
        BY <1>4, Waits DEF AgesBounded
      <3>3. rows'[k].next_try + quiet[k] >= ShortestWait - LongestLag
        BY <1>4, <1>5, <1>7, <3>1, <3>2, Waits, MeshAssumption
      <3>4. Unsent(Loop, k)' => CopyBy(Loop, k)'.attempts = 0
        BY <1>1, <2>2 DEF Unsent, Holds
      <3>5. QED
        BY <1>3, <3>3, <3>4 DEF WaitKept
    <2>8. QED
      BY <2>3, <2>4, <2>5, <2>6, <2>7 DEF RowInv
  <1>11. QED
    BY <1>7, <1>8, <1>9, <1>10

\* The radio refuses, perhaps after it transmitted: only the time of the next try changes.
LEMMA RefusedInv ==
  ASSUME IInv, NEW t \in Tasks, Refused(t)
  PROVE  IInv'
  <1> USE DEF IInv
  <1>0. PICK k \in Id: k = work[t].id
    BY DEF Refused, Busy, WorkInOrder
  <1>x. PICK x: x = [rows[k] EXCEPT !.next_try = WaitFrom(t, TxWait)]
    OBVIOUS
  <1>1. /\ work[t].pc \in {"reset", "dm"} /\ Busy(t) /\ k \in Id /\ Holds(t, k) /\ Unsent(t, k)
        /\ Loop \in Tasks
    BY <1>0 DEF Refused, Busy, WorkInOrder, Holds, InWork, Unsent, Tasks
  <1>2. /\ Finished(t, [rows EXCEPT ![k] = x]) /\ work[t].id = k
        /\ UNCHANGED <<used, age, device, restarts, answered>>
        /\ (late' = late /\ quiet' = quiet) \/ (work[t].pc = "dm" /\ OnAir(t))
    BY <1>x, <1>0, <1>1 DEF Refused, env, TypeOK
  <1>3. RowInv(k) /\ rows[k] \in Row /\ age[t] \in Nat /\ answered[k] \in Nat
    BY <1>1 DEF TypeOK
  <1>4. /\ x \in Row /\ x.state = rows[k].state /\ x.attempts = rows[k].attempts
        /\ x.codes = rows[k].codes /\ x.next_try = TxWait - age[t]
        /\ x.next_try \in Int /\ x.next_try # None
    <2>1. TxWait - age[t] \in Int /\ TxWait - age[t] # None
      BY <1>3, MeshAssumption
    <2>2. QED
      BY <1>x, <1>3, <2>1 DEF WaitFrom, Row
  <1>5. /\ rows' \in [Id -> Row] /\ work' \in [Tasks -> Work]
        /\ DOMAIN todo' \subseteq Id /\ \A j \in DOMAIN todo': todo'[j] \in Copy
        /\ WorkInOrder'
        /\ \A u \in Tasks, i \in Id:
              Holds(u, i)' => /\ Holds(u, i) /\ CopyBy(u, i)' = CopyBy(u, i)
                              /\ Unsent(u, i)' => Unsent(u, i)
        /\ ~Holds(t, k)' /\ rows'[k] = x
        /\ \A i \in Id \ {k}:
              \/ /\ rows'[i] = rows[i]
                 /\ \A u \in Tasks: Holds(u, i) => Holds(u, i)'
              \/ /\ rows'[i] = FailedRow(rows[i]) /\ rows[i].attempts >= DmTries /\ i <= used
                 /\ \A u \in Tasks: ~Holds(u, i)'
    BY <1>1, <1>2, <1>4, FinishedEffect
  <1>6. /\ quiet' \in [Id -> 0..Horizon] /\ late' \in [Id -> Nat]
        /\ \A j \in Id \ {k}: quiet'[j] = quiet[j] /\ late'[j] = late[j]
        /\ late[k] = 0 /\ late'[k] <= 1
        /\ late'[k] = 1 => /\ rows[k].state = "acked"
                           /\ \A u \in Tasks \ {t}: ~Holds(u, k)
    <2>1. late[k] = 0
      BY <1>1, <1>3 DEF RowInv, LateOnce, TypeOK
    <2>2. CASE late' = late /\ quiet' = quiet
      BY <2>1, <2>2 DEF TypeOK
    <2>3. CASE work[t].pc = "dm" /\ OnAir(t)
      BY <1>1, <1>2, <1>3, <2>3, OnAirOnce
    <2>4. QED
      BY <1>2, <2>2, <2>3
  <1>7. TypeOK' /\ AgesBounded'
    BY <1>2, <1>5, <1>6 DEF TypeOK, AgesBounded
  <1>8. ASSUME NEW i \in Id \ {k} PROVE RowInv(i)'
    BY <1>1, <1>2, <1>5, <1>6, OtherRows
  <1>9. RowInv(k)'
    <2>1. k <= used /\ k \in Nat /\ used \in Nat
      BY <1>1, <1>3, MeshAssumption DEF RowInv, CopyFits, Id, TypeOK
    <2>2. ASSUME NEW u \in Tasks, Holds(u, k)'
          PROVE  /\ u # t /\ Holds(u, k) /\ CopyBy(u, k)' = CopyBy(u, k)
                 /\ (t = Loop \/ u = Loop) /\ rows[k].attempts = 0 /\ answered[k] = 0
                 /\ CopyBy(u, k).attempts = 0
                 /\ (t = Loop => age[Loop] <= age[u])
                 /\ age[u] \in Nat
      <3>1. u # t /\ Holds(u, k) /\ CopyBy(u, k)' = CopyBy(u, k)
        BY <1>1, <1>5, <2>2
      <3>2. QED
        BY <1>1, <1>3, <3>1, TwoHands DEF TypeOK
    <2>3. RowShape(k)'
      BY <1>2, <1>3, <1>4, <1>5, <1>6, <2>1 DEF RowInv, RowShape
    <2>4. \A u \in Tasks: Holds(u, k)' => CopyFits(u, k)'
      BY <1>2, <1>4, <1>5, <2>2 DEF RowInv, CopyFits
    <2>5. ASSUME NEW u \in Senders, Holds(u, k)' PROVE PostFirst(u, k)'
      <3>1. u \in Tasks /\ u # Loop
        BY MeshAssumption DEF Tasks
      <3>2. t = Loop /\ rows'[k].attempts = 0 /\ answered'[k] = 0 /\ age[Loop] <= age[u]
        BY <1>2, <1>4, <1>5, <2>2, <2>5, <3>1
      <3>3. \A v \in Tasks \ {u}: ~Holds(v, k)'
        <4>1. Holds(u, k) /\ \A v \in Tasks: Holds(v, k)' => v # Loop /\ Holds(v, k)
          BY <2>2, <2>5, <3>1, <3>2
        <4>2. QED
          BY <1>1, <3>1, <4>1, TwoHands
      <3>4. rows'[k].next_try >= 0 - age[u]
        BY <1>3, <1>4, <1>5, <2>2, <2>5, <3>1, <3>2, MeshAssumption
      <3>5. QED
        BY <1>2, <3>2, <3>3, <3>4 DEF PostFirst
    <2>6. LateOnce(k)'
      <3>1. \A u \in Tasks: Unsent(u, k)' => u # t /\ Holds(u, k)
        BY <1>1, <1>5 DEF Unsent, Holds
      <3>2. QED
        BY <1>3, <1>4, <1>5, <1>6, <3>1 DEF LateOnce
    <2>7. WaitKept(k)'
      <3>1. quiet'[k] \in Nat
        BY <1>1, <1>6, MeshAssumption DEF Horizon
      <3>2. age[t] <= LongestLag
        BY <1>3, Waits DEF AgesBounded
      <3>3. rows'[k].next_try + quiet'[k] >= ShortestWait - LongestLag
        BY <1>3, <1>4, <1>5, <3>1, <3>2, Waits, MeshAssumption
      <3>4. Unsent(Loop, k)' => CopyBy(Loop, k)'.attempts = 0
        BY <1>1, <2>2 DEF Unsent, Holds
      <3>5. QED
        BY <3>3, <3>4 DEF WaitKept
    <2>8. QED
      BY <2>3, <2>4, <2>5, <2>6, <2>7 DEF RowInv
  <1>10. QED
    BY <1>5, <1>7, <1>8, <1>9

\* An ack settles a pending row; whoever holds it may still transmit once.
LEMMA AckedInv ==
  ASSUME IInv, NEW j \in Id, NEW a \in Try, Acked(j, a)
  PROVE  IInv'
  <1> USE DEF IInv
  <1>1. /\ rows[j].state = "pending" /\ a \in rows[j].codes /\ rows[j] \in Row
        /\ rows' = [rows EXCEPT ![j] = [rows[j] EXCEPT !.state = "acked", !.next_try = None]]
        /\ UNCHANGED <<used, work, todo, age, device, restarts, answered, late, quiet>>
    BY DEF Acked, env, history, TypeOK
  <1>2. /\ rows' \in [Id -> Row] /\ rows'[j].state = "acked" /\ rows'[j].next_try = None
        /\ rows'[j].attempts = rows[j].attempts /\ rows'[j].codes = rows[j].codes
        /\ \A i \in Id \ {j}: rows'[i] = rows[i]
    <2>1. [rows[j] EXCEPT !.state = "acked", !.next_try = None] \in Row
      BY <1>1 DEF Row
    <2>2. QED
      BY <1>1, <2>1 DEF TypeOK, Row
  <1>3. TypeOK' /\ AgesBounded' /\ WorkInOrder'
    BY <1>1, <1>2 DEF TypeOK, AgesBounded, WorkInOrder, Busy
  <1>4. \A u \in Tasks, i \in Id: /\ Holds(u, i)' <=> Holds(u, i)
                                  /\ CopyBy(u, i)' = CopyBy(u, i)
                                  /\ Unsent(u, i)' <=> Unsent(u, i)
    BY <1>1 DEF Holds, Queued, InWork, Busy, CopyBy, Unsent
  <1>5. ASSUME NEW i \in Id \ {j} PROVE RowInv(i)'
    BY <1>1, <1>2, <1>4, MeshAssumption, KeptRow DEF TypeOK
  <1>6. RowInv(j)'
    <2>1. RowInv(j) /\ rows[j].attempts \in Nat
      BY <1>1, RowFields
    <2>2. rows[j].attempts > 0
      BY <1>1, <2>1 DEF RowInv, RowShape
    <2>3. j <= used /\ j \in Nat /\ used \in Nat
      BY SMTT(40), <1>1, <2>1, MeshAssumption DEF RowInv, RowShape, NoRow, Id, TypeOK
    <2>4. RowShape(j)'
      BY <1>1, <1>2, <2>1, <2>2, <2>3 DEF RowInv, RowShape
    <2>5. \A t \in Tasks: Holds(t, j)' => CopyFits(t, j)'
      BY <1>1, <1>2, <1>4, <2>1 DEF RowInv, CopyFits
    <2>6. \A t \in Senders: Holds(t, j)' => PostFirst(t, j)'
      BY <1>1, <1>2, <1>4, <2>1 DEF RowInv, PostFirst, Tasks
    <2>7. LateOnce(j)'
      BY <1>1, <2>1 DEF RowInv, LateOnce
    <2>8. WaitKept(j)'
      BY <1>1, <1>2, <1>4, <2>1 DEF RowInv, WaitKept, Tasks
    <2>9. QED
      BY <2>4, <2>5, <2>6, <2>7, <2>8 DEF RowInv
  <1>7. QED
    BY <1>3, <1>5, <1>6

\* The radio comes and goes.
LEMMA DeviceChangeInv ==
  ASSUME IInv, DeviceChange
  PROVE  IInv'
  <1> USE DEF IInv
  <1>1. UNCHANGED <<rows, used, work, todo, age, restarts, answered, late, quiet>>
    BY DEF DeviceChange, history
  <1>2. TypeOK' /\ AgesBounded' /\ WorkInOrder'
    BY <1>1 DEF DeviceChange, TypeOK, AgesBounded, WorkInOrder, Busy
  <1>3. ASSUME NEW i \in Id PROVE RowInv(i)'
    <2>1. \A u \in Tasks: /\ Holds(u, i)' <=> Holds(u, i)
                          /\ CopyBy(u, i)' = CopyBy(u, i)
                          /\ Unsent(u, i)' <=> Unsent(u, i)
      BY <1>1 DEF Holds, Queued, InWork, Busy, CopyBy, Unsent
    <2>2. QED
      BY <1>1, <2>1, MeshAssumption, KeptRow DEF TypeOK
  <1>4. QED
    BY <1>2, <1>3

\* A second passes: clocks, countdowns and waits move together.
LEMMA AdvanceInv ==
  ASSUME IInv, Advance
  PROVE  IInv'
  <1> USE DEF IInv
  <1>1. /\ \A t \in Tasks: work[t].pc # "idle" => age[t] < Lag(t)
        /\ age' = [t \in Tasks |-> IF work[t].pc = "idle" THEN 0 ELSE age[t] + 1]
        /\ rows' = [i \in Id |->
                      IF rows[i].next_try # None /\ rows[i].next_try > -TickLag
                      THEN [rows[i] EXCEPT !.next_try = @ - 1] ELSE rows[i]]
        /\ quiet' = [i \in Id |-> IF quiet[i] < Horizon THEN quiet[i] + 1 ELSE quiet[i]]
        /\ UNCHANGED <<used, work, todo, device, restarts, answered, late>>
    BY DEF Advance, env
  <1>2. \A t \in Tasks: /\ age'[t] \in Nat /\ age'[t] <= Lag(t)
                        /\ work[t].pc # "idle" => age'[t] = age[t] + 1
    BY <1>1, Waits DEF TypeOK
  <1>3. ASSUME NEW i \in Id
        PROVE  /\ rows'[i] \in Row /\ rows'[i].state = rows[i].state
               /\ rows'[i].attempts = rows[i].attempts /\ rows'[i].codes = rows[i].codes
               /\ rows[i].next_try = None => rows'[i] = rows[i]
               /\ rows[i].next_try # None =>
                     /\ rows[i].next_try \in Int /\ rows'[i].next_try \in Int
                     /\ rows'[i].next_try # None
                     /\ rows'[i].next_try \in {rows[i].next_try, rows[i].next_try - 1}
               /\ quiet'[i] \in 0..Horizon
               /\ quiet'[i] = quiet[i] + 1 \/ (quiet[i] = Horizon /\ quiet'[i] = quiet[i])
    <2>1. rows[i] \in Row /\ quiet[i] \in 0..Horizon /\ Horizon \in Nat
      BY MeshAssumption DEF TypeOK, Horizon
    <2>2. /\ quiet'[i] \in 0..Horizon
          /\ quiet'[i] = quiet[i] + 1 \/ (quiet[i] = Horizon /\ quiet'[i] = quiet[i])
      BY SMTT(40), <1>1, <2>1
    <2>3. CASE rows[i].next_try # None /\ rows[i].next_try > -TickLag
      <3>1. rows'[i] = [rows[i] EXCEPT !.next_try = @ - 1]
        BY <1>1, <2>3
      <3>2. rows[i].next_try \in Int /\ rows[i].next_try - 1 \in Int
            /\ rows[i].next_try - 1 # None
        BY <2>1, <2>3, RowFields, MeshAssumption
      <3>3. /\ rows'[i] \in Row /\ rows'[i].state = rows[i].state
            /\ rows'[i].attempts = rows[i].attempts /\ rows'[i].codes = rows[i].codes
            /\ rows'[i].next_try = rows[i].next_try - 1
        BY <2>1, <3>1, <3>2 DEF Row
      <3>4. QED
        BY <2>2, <2>3, <3>2, <3>3
    <2>4. CASE ~(rows[i].next_try # None /\ rows[i].next_try > -TickLag)
      <3>1. rows'[i] = rows[i]
        BY <1>1, <2>4
      <3>2. QED
        BY <2>1, <2>2, <3>1, RowFields
    <2>5. QED
      BY <2>3, <2>4
  <1>4. TypeOK' /\ AgesBounded'
    <2>1. rows' \in [Id -> Row] /\ quiet' \in [Id -> 0..Horizon] /\ age' \in [Tasks -> Nat]
      BY <1>1, <1>2, <1>3
    <2>2. QED
      BY <1>1, <1>2, <2>1 DEF TypeOK, AgesBounded
  <1>5. WorkInOrder'
    BY <1>1 DEF WorkInOrder, Busy
  <1>6. ASSUME NEW i \in Id PROVE RowInv(i)'
    <2>1. \A u \in Tasks: /\ Holds(u, i)' <=> Holds(u, i)
                          /\ CopyBy(u, i)' = CopyBy(u, i)
                          /\ Unsent(u, i)' <=> Unsent(u, i)
      BY <1>1 DEF Holds, Queued, InWork, Busy, CopyBy, Unsent
    <2>2. \A u \in Tasks: Holds(u, i) => age'[u] = age[u] + 1 /\ age[u] \in Nat
      BY <1>2, HoldsType DEF TypeOK
    <2>3. RowInv(i)
      OBVIOUS
    <2>4. RowShape(i)'
      <3>1. i > used => rows'[i] = rows[i]
        BY <1>3, <2>3 DEF RowInv, RowShape, NoRow
      <3>2. QED
        BY <1>1, <1>3, <2>3, <3>1 DEF RowInv, RowShape
    <2>5. \A t \in Tasks: Holds(t, i)' => CopyFits(t, i)'
      BY <1>1, <1>3, <2>1, <2>3 DEF RowInv, CopyFits
    <2>6. ASSUME NEW t \in Senders, Holds(t, i)' PROVE PostFirst(t, i)'
      <3>1. Holds(t, i) /\ t \in Tasks /\ PostFirst(t, i) /\ age'[t] = age[t] + 1 /\ age[t] \in Nat
        BY <2>1, <2>2, <2>3, <2>6 DEF RowInv, Tasks
      <3>2. rows'[i].attempts = answered'[i] /\ answered' = answered
        BY <1>1, <1>3, <3>1 DEF PostFirst
      <3>3. rows'[i].next_try # None
              => rows'[i].next_try >= (IF answered[i] = 0 THEN 0 ELSE MinAckWait) - age'[t]
        BY <1>3, <3>1, MeshAssumption DEF PostFirst
      <3>4. \A u \in Tasks \ {t}:
               Holds(u, i)' => u = Loop /\ answered[i] = 0 /\ age'[Loop] <= age'[t]
        BY <2>1, <2>2, <3>1 DEF PostFirst
      <3>5. QED
        BY <3>2, <3>3, <3>4 DEF PostFirst
    <2>7. LateOnce(i)'
      BY <1>1, <1>3, <2>1, <2>3 DEF RowInv, LateOnce
    <2>8. WaitKept(i)'
      <3>1. quiet[i] \in Nat /\ Loop \in Tasks
        BY MeshAssumption DEF TypeOK, Horizon, Tasks
      <3>2. quiet[i] >= ShortestWait - LongestLag => quiet'[i] >= ShortestWait - LongestLag
        BY <1>3, <3>1, Waits
      <3>3. quiet'[i] = Horizon => quiet'[i] >= ShortestWait - LongestLag
        BY Waits, MeshAssumption DEF Horizon
      <3>4. ASSUME rows[i].next_try # None,
                   rows[i].next_try + quiet[i] >= ShortestWait - LongestLag
            PROVE  \/ quiet'[i] >= ShortestWait - LongestLag
                   \/ rows'[i].next_try + quiet'[i] >= ShortestWait - LongestLag
        BY <1>3, <3>1, <3>3, <3>4, Waits
      <3>5. rows[i].state = "pending" => rows[i].next_try # None
        BY <2>3 DEF RowInv, RowShape
      <3>6. QED
        BY <1>3, <2>1, <2>3, <3>1, <3>2, <3>4, <3>5 DEF RowInv, WaitKept
    <2>9. QED
      BY <2>4, <2>5, <2>6, <2>7, <2>8 DEF RowInv
  <1>7. QED
    BY <1>4, <1>5, <1>6

\* After a restart nobody holds a row; the table is what it was.
LEMMA RestartInv ==
  ASSUME IInv, Restart
  PROVE  IInv'
  <1> USE DEF IInv
  <1>1. /\ work' = [t \in Tasks |-> IdleWork] /\ DOMAIN todo' = {}
        /\ quiet' = [i \in Id |-> Horizon] /\ restarts' \in 0..MaxRestarts
        /\ UNCHANGED <<rows, used, age, device, answered, late>>
    BY MeshAssumption DEF Restart, NoTodo, TypeOK
  <1>2. TypeOK' /\ AgesBounded'
    BY <1>1, NoRowType, MeshAssumption DEF TypeOK, AgesBounded, Horizon
  <1>3. \A t \in Tasks: ~Busy(t)' /\ work'[t].pc # "sync"
    BY <1>1 DEF Busy, IdleWork
  <1>4. WorkInOrder'
    BY <1>1, <1>3, MeshAssumption DEF WorkInOrder, Tasks
  <1>5. ASSUME NEW i \in Id PROVE RowInv(i)'
    <2>1. \A t \in Tasks: ~Holds(t, i)' /\ ~Unsent(t, i)'
      BY <1>1, <1>3 DEF Holds, Queued, InWork, Unsent
    <2>2. RowShape(i)' /\ LateOnce(i)'
      BY <1>1, <2>1 DEF RowInv, RowShape, LateOnce
    <2>3. quiet'[i] >= ShortestWait - LongestLag
      BY <1>1, Waits, MeshAssumption DEF Horizon
    <2>4. WaitKept(i)'
      BY <2>1, <2>3 DEF WaitKept, Tasks
    <2>5. QED
      BY <2>1, <2>2, <2>4 DEF RowInv, Tasks
  <1>6. QED
    BY <1>2, <1>4, <1>5

LEMMA Inductive == IInv /\ [Next]_vars => IInv'
  <1> SUFFICES ASSUME IInv, [Next]_vars PROVE IInv'
    OBVIOUS
  <1>1. CASE UNCHANGED vars
    BY <1>1 DEF vars, IInv, TypeOK, AgesBounded, WorkInOrder, RowInv, RowShape, CopyFits,
                PostFirst, LateOnce, WaitKept, Holds, Queued, InWork, Busy, CopyBy, Unsent
  <1>2. CASE Next
    BY <1>2, SendInv, TickStartInv, SelectInv, PathResetInv, TransmittedInv, RecordInv,
       RefusedInv, AckedInv, DeviceChangeInv, AdvanceInv, RestartInv DEF Next, Resume
  <1>3. QED
    BY <1>1, <1>2

LEMMA Invariance == Spec => []IInv
  BY InitInv, Inductive, PTL DEF Spec

-----------------------------------------------------------------------------
\* The theorems

\* Rows, copies, clocks and counts keep their types.
THEOREM TypeCorrect == Spec => []TypeOK
  <1>1. IInv => TypeOK
    BY DEF IInv
  <1>2. QED
    BY <1>1, Invariance, PTL

\* Whatever POSTs and ticks interleave at _try's awaits, and whatever the radio refuses, a
\* message is given up only after DM_TRIES confirmed transmissions, and its count of tries
\* falls behind them by one at most (mesh.py:241-262).
THEOREM GivesUpLate == Spec => []FailedAfterTries
  <1>1. IInv => FailedAfterTries
    BY DEF IInv, RowInv, RowShape, FailedAfterTries
  <1>2. QED
    BY <1>1, Invariance, PTL

\* Going on fails rows and leaves their tries alone.
LEMMA GoOnKeepsTries ==
  ASSUME NEW r \in [Id -> Row], NEW copies, GoOn(r, copies), NEW i \in Id
  PROVE  rows'[i].attempts = r[i].attempts
  <1>1. r[i] \in Row /\ (rows'[i] = r[i] \/ rows'[i] = FailedRow(r[i]))
    BY DEF GoOn, Fail, FailedRow
  <1>2. QED
    BY <1>1, FailedType

LEMMA FinishedKeepsTries ==
  ASSUME NEW r \in [Id -> Row], NEW t, Finished(t, r), NEW i \in Id
  PROVE  rows'[i].attempts = r[i].attempts
  BY GoOnKeepsTries DEF Finished

\* The count of tries never goes down: a copy is one answer behind its row at most.
LEMMA TriesGrow ==
  ASSUME IInv, IInv', Next, NEW i \in Id
  PROVE  rows[i].attempts <= rows'[i].attempts
  <1>1. rows \in [Id -> Row] /\ rows[i] \in Row /\ rows[i].attempts \in Nat
        /\ rows'[i] \in Row /\ rows'[i].attempts \in Nat
        /\ answered[i] \in Nat /\ answered \in [Id -> Nat]
    BY RowFields DEF IInv, TypeOK
  <1>2. ASSUME NEW t \in Senders, Send(t) PROVE rows[i].attempts <= rows'[i].attempts
    <2>1. used + 1 > used /\ (rows[i].attempts = 0 \/ rows'[i] = rows[i])
      BY <1>1, <1>2 DEF Send, IInv, RowInv, RowShape, NoRow, TypeOK
    <2>2. QED
      BY <1>1, <2>1
  <1>3. CASE Select
    BY <1>1, <1>3, GoOnKeepsTries DEF Select
  <1>4. ASSUME NEW t \in Tasks, Record(t) PROVE rows[i].attempts <= rows'[i].attempts
    <2>1. PICK k \in Id: k = work[t].id
      BY <1>4 DEF Record, Busy, IInv, WorkInOrder
    <2>2. PICK s \in Suggested: Finished(t, [rows EXCEPT ![k] = Recorded(rows[k], t, s)])
      BY <1>1, <1>4, <2>1 DEF Record
    <2>3. answered' = [answered EXCEPT ![k] = @ + 1]
      BY <1>4, <2>1 DEF Record
    <2>4. CASE i = k
      <3>1. answered'[i] = answered[i] + 1
        BY <1>1, <2>3, <2>4
      <3>2. rows[i].attempts <= answered[i] /\ answered'[i] <= rows'[i].attempts + 1
        BY DEF IInv, RowInv, RowShape
      <3>3. QED
        BY <1>1, <3>1, <3>2
    <2>5. CASE i # k
      <3>1. PICK r: r = [rows EXCEPT ![k] = Recorded(rows[k], t, s)]
        OBVIOUS
      <3>2. r[i] = rows[i] /\ Finished(t, r)
        BY <1>1, <2>2, <2>5, <3>1
      <3>3. rows'[i] = r[i] \/ rows'[i] = FailedRow(r[i])
        BY <1>1, <3>1, <3>2 DEF Finished, GoOn, Fail, FailedRow
      <3>4. QED
        BY <1>1, <3>2, <3>3, FailedType
    <2>6. QED
      BY <2>4, <2>5
  <1>5. ASSUME NEW t \in Tasks, Refused(t) PROVE rows[i].attempts <= rows'[i].attempts
    <2>1. PICK k \in Id: k = work[t].id
      BY <1>5 DEF Refused, Busy, IInv, WorkInOrder
    <2>2. PICK r: r = [rows EXCEPT ![k] = [rows[k] EXCEPT !.next_try = WaitFrom(t, TxWait)]]
      OBVIOUS
    <2>3. age[t] \in Nat /\ WaitFrom(t, TxWait) \in Int
      BY MeshAssumption DEF IInv, TypeOK, WaitFrom
    <2>4. rows[k] \in Row /\ [rows[k] EXCEPT !.next_try = WaitFrom(t, TxWait)] \in Row
          /\ [rows[k] EXCEPT !.next_try = WaitFrom(t, TxWait)].attempts = rows[k].attempts
      BY <1>1, <2>3 DEF Row
    <2>5. r \in [Id -> Row] /\ r[i].attempts = rows[i].attempts
      BY <1>1, <2>2, <2>4
    <2>6. Finished(t, r)
      BY <1>1, <1>5, <2>1, <2>2 DEF Refused
    <2>7. QED
      BY <1>1, <2>5, <2>6, FinishedKeepsTries
  <1>6. ASSUME NEW k \in Id, NEW a \in Try, Acked(k, a) PROVE rows[i].attempts <= rows'[i].attempts
    BY <1>1, <1>6 DEF Acked, Row
  <1>7. CASE Advance
    BY <1>1, <1>7 DEF Advance, Row
  <1>8. ASSUME UNCHANGED rows PROVE rows[i].attempts <= rows'[i].attempts
    BY <1>1, <1>8
  <1>9. /\ TickStart \/ DeviceChange \/ Restart => UNCHANGED rows
        /\ \A t \in Tasks: PathReset(t) \/ Transmitted(t) => UNCHANGED rows
    BY DEF TickStart, DeviceChange, Restart, PathReset, Transmitted
  <1>10. QED
    BY <1>2, <1>3, <1>4, <1>5, <1>6, <1>7, <1>8, <1>9 DEF Next, Resume

\* No write from an old copy takes a recorded ack code away: the codes are those of the tries
\* that were counted, and that count never goes down (mesh.py:257-260).
THEOREM NoCodeLost == Spec => CodesKept
  <1> DEFINE Kept == \A i \in Id: rows[i].codes \subseteq rows'[i].codes
  <1>1. ASSUME IInv, IInv', [Next]_vars PROVE [Kept]_vars
    <2> SUFFICES ASSUME Next, NEW i \in Id PROVE rows[i].codes \subseteq rows'[i].codes
      BY <1>1
    <2>1. rows[i].codes = 0..(rows[i].attempts - 1) /\ rows'[i].codes = 0..(rows'[i].attempts - 1)
      BY <1>1 DEF IInv, RowInv, RowShape
    <2>2. rows[i].attempts \in Nat /\ rows'[i].attempts \in Nat
      BY <1>1, RowFields DEF IInv, TypeOK
    <2>3. rows[i].attempts <= rows'[i].attempts
      BY <1>1, TriesGrow
    <2>4. QED
      BY <2>1, <2>2, <2>3
  <1>2. QED
    BY <1>1, Invariance, PTL DEF Spec, CodesKept

\* An acked message is transmitted once more at most: by then one task has its row in hand
\* (mesh.py:99-100, 204-208).
THEOREM LateTryOnce == Spec => []OneLateTry
  <1>1. IInv => OneLateTry
    BY DEF IInv, RowInv, LateOnce, OneLateTry
  <1>2. QED
    BY <1>1, Invariance, PTL

\* A retry comes a wait after the transmission before it, whichever of the tasks that made
\* it wrote the row last (mesh.py:91, 256-260).
THEOREM RetriesWait == Spec => []RetryWaits
  <1>1. ASSUME IInv PROVE RetryWaits
    <2> USE <1>1 DEF IInv
    <2> SUFFICES ASSUME NEW t \in Tasks, work[t].pc = "dm", work[t].copy.attempts > 0
                 PROVE  quiet[work[t].id] >= ShortestWait - LongestLag
      BY DEF RetryWaits
    <2>1. PICK i \in Id: i = work[t].id
      BY DEF WorkInOrder, Busy
    <2>2. Holds(t, i) /\ Unsent(t, i) /\ CopyBy(t, i) = work[t].copy
      BY <2>1 DEF Holds, InWork, Unsent, Busy, CopyBy, Queued, WorkInOrder
    <2>3. t = Loop
      BY <2>2 DEF RowInv, CopyFits
    <2>4. QED
      BY <2>1, <2>2, <2>3 DEF RowInv, WaitKept
  <1>2. QED
    BY <1>1, Invariance, PTL

===============================================================================
