---------------------------- MODULE HeadProofs --------------------------------
(***************************************************************************)
(* Theorems about the head unit: HeadMirror, for any set of peers, any     *)
(* table, any queue size and any length of the history that is asked for;  *)
(* and Cards, for any messages, peers, conversations, names and times.     *)
(***************************************************************************)
EXTENDS HeadMirror, Cards, FiniteSetTheorems, SequenceTheorems, TLAPS

-----------------------------------------------------------------------------
\* HeadMirror: the inductive invariant

Peer == HeadPeers \cup {"none"}
MessageRow == [dir: {"none", "in", "out"}, peer: Peer, state: {"none", "received", "pending", "acked"},
        read: BOOLEAN]
EventOf == [type: {"status", "message", "ack", "read"}, id: Nat, row: MessageRow, peer: Peer, unread: Nat]
Get == [at: {"none", "asked", "answered"}, rows: [RowId -> MessageRow], unread: Nat]
Work == [next: {"idle", "message", "try", "ack", "answer", "read"}, id: Nat, peer: Peer, head: BOOLEAN,
         row: MessageRow]
Post == [id: Nat, row: MessageRow]

\* The worker thread's row is in the table.
Stored == worker.next \in {"message", "try"} => worker.id \in 1..Len(table)

HeadTypes ==
    /\ table \in Seq(MessageRow) /\ Len(table) <= MaxRows
    /\ worker \in Work /\ Stored
    /\ conn \in {"down", "subscribed"} /\ queue \in Seq(EventOf)
    /\ conn = "down" => queue = <<>> /\ ~up
    /\ up \in BOOLEAN /\ calm \in BOOLEAN /\ rowsLost \in BOOLEAN
    /\ gets \in [{"status", "messages"} -> Get]
    /\ reply \in Nat \cup {-1} /\ posted \in Post
    /\ mirror \in [RowId -> MessageRow] /\ unread \in Nat

\* While the core has been at rest since the connection was made, whatever is on its way brings
\* what the core has, and what has been applied is that.  The first status, which /ws sends, is
\* in the queue or has been applied.
OnItsWay ==
    /\ \A k \in DOMAIN queue: queue[k].type = "status" /\ queue[k].unread = Unread
    /\ gets["status"].at = "answered" => gets["status"].unread = Unread
    /\ gets["messages"].at = "answered" => gets["messages"].rows = Listed
    /\ reply \in {-1, Unread}

Applied ==
    /\ up /\ gets["messages"].at = "none" /\ ~rowsLost => mirror = Listed
    /\ conn = "subscribed" => queue # <<>> \/ unread = Unread

RepairInv == calm => worker = NoWork /\ posted = NoPost /\ OnItsWay /\ Applied

HeadInv == HeadTypes /\ RepairInv

-----------------------------------------------------------------------------
\* What the table gives

LEMMA NoMessageType ==
  /\ NoMessage \in MessageRow /\ NoPost \in Post
  /\ NoWork \in Work /\ NoWork.next = "idle"
  BY DEF NoMessage, MessageRow, Peer, NoWork, Work, NoPost, Post

LEMMA ListedType == ASSUME HeadTypes PROVE Listed \in [RowId -> MessageRow]
  BY NoMessageType DEF HeadTypes, Listed

LEMMA UnreadType == ASSUME HeadTypes PROVE Unread \in Nat
  <1> DEFINE S == {i \in DOMAIN table: table[i].dir = "in" /\ ~table[i].read}
  <1>1. Len(table) \in Nat /\ DOMAIN table = 1..Len(table)
    BY DEF HeadTypes
  <1>2. IsFiniteSet(1..Len(table))
    BY <1>1, FS_Interval
  <1>3. S \subseteq 1..Len(table)
    BY <1>1
  <1>4. IsFiniteSet(S)
    BY <1>2, <1>3, FS_Subset
  <1>5. Cardinality(S) \in Nat
    BY <1>4, FS_CardinalityType
  <1>6. QED
    BY <1>5 DEF Unread

LEMMA SameTable == ASSUME UNCHANGED table PROVE Unread' = Unread /\ Listed' = Listed
  BY DEF Unread, Listed

\* A full queue or none: the queue stays, or has one event more.
LEMMA Published ==
  ASSUME HeadTypes, NEW e \in EventOf, Publish(e)
  PROVE  /\ queue' \in Seq(EventOf)
         /\ conn = "down" => queue' = <<>>
         /\ queue # <<>> => queue' # <<>>
         /\ \A k \in DOMAIN queue': queue'[k] = e \/ (k \in DOMAIN queue /\ queue'[k] = queue[k])
  <1>1. queue \in Seq(EventOf) /\ (conn = "down" => queue = <<>>)
    BY DEF HeadTypes
  <1>2. queue' = queue \/ (conn = "subscribed" /\ queue' = Append(queue, e))
    BY DEF Publish
  <1>3. QED
    BY <1>1, <1>2

LEMMA EventTypes ==
  ASSUME NEW id \in Nat, NEW row \in MessageRow, NEW n \in Nat, NEW peer \in Peer,
         NEW type \in {"message", "ack"}
  PROVE  /\ RowEvent(type, id, row) \in EventOf
         /\ StatusEvent(n) \in EventOf /\ StatusEvent(n).type = "status" /\ StatusEvent(n).unread = n
         /\ Event("read", 0, NoMessage, peer, n) \in EventOf
  BY NoMessageType DEF RowEvent, StatusEvent, Event, EventOf, Peer

\* What a read marks is marked; a table without unread messages of the peer stays.
LEMMA ReadLocallyType == ASSUME HeadTypes, NEW peer PROVE ReadLocally(peer) \in [RowId -> MessageRow]
  BY DEF HeadTypes, ReadLocally, MessageRow

LEMMA ReadsNothing ==
  ASSUME HeadTypes, NEW peer, UnreadOf(peer) = {}, mirror = Listed
  PROVE  ReadLocally(peer) = mirror
  <1>1. mirror \in [RowId -> MessageRow] /\ table \in Seq(MessageRow)
    BY DEF HeadTypes
  <1>2. ASSUME NEW i \in RowId, mirror[i].peer = peer, mirror[i].dir = "in"
        PROVE  [mirror[i] EXCEPT !.read = TRUE] = mirror[i]
    <2>1. mirror[i] = table[i] /\ i \in DOMAIN table
      BY <1>2 DEF Listed, NoMessage
    <2>2. mirror[i].read
      BY <1>2, <2>1 DEF UnreadOf
    <2>3. mirror[i] \in MessageRow
      BY <1>1
    <2>4. mirror[i].read = TRUE
      BY <2>2, <2>3 DEF MessageRow
    <2>5. QED
      BY <2>3, <2>4 DEF MessageRow
  <1>3. \A i \in RowId: ReadLocally(peer)[i] = mirror[i]
    BY <1>2 DEF ReadLocally
  <1>4. ReadLocally(peer) \in [RowId -> MessageRow]
    BY ReadLocallyType
  <1>5. QED
    BY <1>1, <1>3, <1>4

-----------------------------------------------------------------------------
\* The invariant holds from the start, and through every step

LEMMA HeadInitInv == ASSUME HeadConstants, HeadInit PROVE HeadInv
  <1>1. /\ table = <<>> /\ worker = NoWork /\ conn = "down" /\ queue = <<>> /\ up = FALSE
        /\ gets = [g \in {"status", "messages"} |-> NoGet]
        /\ reply = -1 /\ mirror = [i \in RowId |-> NoMessage] /\ unread = 0 /\ calm = FALSE
        /\ posted = NoPost /\ rowsLost = FALSE /\ MaxRows \in Nat
    BY DEF HeadInit, HeadConstants
  <1>2. NoGet \in Get
    BY NoMessageType DEF NoGet, Get
  <1>3. gets \in [{"status", "messages"} -> Get] /\ mirror \in [RowId -> MessageRow]
    BY <1>1, <1>2, NoMessageType
  <1>4. HeadTypes
    <2>1. table \in Seq(MessageRow) /\ Len(table) = 0 /\ queue \in Seq(EventOf)
      BY <1>1
    <2>2. worker \in Work /\ Stored /\ reply \in Nat \cup {-1} /\ posted \in Post /\ unread \in Nat
      BY <1>1, NoMessageType DEF Stored
    <2>3. Len(table) <= MaxRows
      BY <1>1, <2>1
    <2>4. conn \in {"down", "subscribed"} /\ up \in BOOLEAN /\ calm \in BOOLEAN
          /\ rowsLost \in BOOLEAN /\ ~up /\ queue = <<>>
      BY <1>1
    <2>5. QED
      BY <1>3, <2>1, <2>2, <2>3, <2>4 DEF HeadTypes
  <1>5. RepairInv
    BY <1>1 DEF RepairInv
  <1>6. QED
    BY <1>4, <1>5 DEF HeadInv

\* A new row or a changed one ends the calm: only the types are left to show.
LEMMA ChangeInv ==
  ASSUME HeadInv, calm' = FALSE, table' \in Seq(MessageRow), Len(table') <= MaxRows, worker' \in Work,
         Stored', queue' \in Seq(EventOf), conn' = conn, conn = "down" => queue' = <<>>,
         UNCHANGED <<up, gets, unread, rowsLost>>, mirror' \in [RowId -> MessageRow],
         reply' \in Nat \cup {-1}, posted' \in Post
  PROVE  HeadInv'
  BY DEF HeadInv, HeadTypes, RepairInv

\* A step that leaves the table alone: the calm goes on only with nothing but the status published.
LEMMA StatusStaysInv ==
  ASSUME HeadInv, UNCHANGED <<table, worker, conn, up, gets, reply, posted, mirror, unread, calm, rowsLost>>,
         queue' \in Seq(EventOf), conn = "down" => queue' = <<>>, queue # <<>> => queue' # <<>>,
         calm => \A k \in DOMAIN queue': queue'[k].type = "status" /\ queue'[k].unread = Unread
  PROVE  HeadInv'
  <1>1. Unread' = Unread /\ Listed' = Listed
    BY SameTable
  <1>2. HeadTypes'
    BY DEF HeadInv, HeadTypes, Stored
  <1>3. RepairInv'
    BY <1>1 DEF HeadInv, RepairInv, OnItsWay, Applied
  <1>4. QED
    BY <1>2, <1>3 DEF HeadInv

LEMMA ReceivedInv == ASSUME HeadConstants, HeadInv, NEW peer \in HeadPeers, Received(peer) PROVE HeadInv'
  <1> DEFINE row == [dir |-> "in", peer |-> peer, state |-> "received", read |-> FALSE]
             e == RowEvent("message", Len(table) + 1, row)
  <1>1. HeadTypes /\ table \in Seq(MessageRow) /\ Len(table) \in Nat /\ MaxRows \in Nat
    BY DEF HeadInv, HeadTypes, HeadConstants
  <1>2. /\ Len(table) < MaxRows /\ table' = Append(table, row) /\ Publish(e) /\ calm' = FALSE
        /\ UNCHANGED <<worker, conn, up, gets, reply, posted, mirror, unread, rowsLost>>
    BY DEF Received, head
  <1>3. row \in MessageRow
    BY DEF MessageRow, Peer
  <1>4. e \in EventOf
    BY <1>1, <1>3, NoMessageType, EventTypes DEF RowEvent, Event, EventOf, Peer
  <1> HIDE DEF e, row
  <1>5. queue' \in Seq(EventOf) /\ (conn = "down" => queue' = <<>>)
    BY <1>1, <1>2, <1>4, Published
  <1>6. table' \in Seq(MessageRow) /\ Len(table') <= MaxRows /\ Stored'
    BY <1>1, <1>2, <1>3 DEF HeadTypes, Stored
  <1>7. QED
    BY <1>1, <1>2, <1>5, <1>6, ChangeInv DEF HeadTypes

LEMMA UpdatedInv ==
  ASSUME HeadConstants, HeadInv, NEW i \in RowId, NEW state \in {"pending", "acked"}, Updated(i, state)
  PROVE  HeadInv'
  <1> DEFINE row == [table[i] EXCEPT !.state = state]
             e == RowEvent("ack", i, row)
  <1>1. HeadTypes /\ table \in Seq(MessageRow) /\ Len(table) \in Nat /\ MaxRows \in Nat
    BY DEF HeadInv, HeadTypes, HeadConstants
  <1>2. /\ i \in DOMAIN table /\ table' = [table EXCEPT ![i].state = state] /\ Publish(e)
        /\ calm' = FALSE /\ UNCHANGED <<worker, conn, up, gets, reply, posted, mirror, unread, rowsLost>>
    BY DEF Updated, head
  <1>3. table[i] \in MessageRow
    BY <1>1, <1>2
  <1>4. row \in MessageRow
    BY <1>3 DEF MessageRow
  <1>5. table' = [table EXCEPT ![i] = row]
    BY <1>2
  <1>6. e \in EventOf
    BY <1>4, NoMessageType DEF RowEvent, Event, EventOf, Peer, RowId
  <1> HIDE DEF e, row
  <1>7. queue' \in Seq(EventOf) /\ (conn = "down" => queue' = <<>>)
    BY <1>1, <1>2, <1>6, Published
  <1>8. table' \in Seq(MessageRow) /\ Len(table') = Len(table)
    BY <1>1, <1>2, <1>4, <1>5
  <1>9. Stored'
    BY <1>1, <1>2, <1>8 DEF HeadTypes, Stored
  <1>10. QED
    BY <1>1, <1>2, <1>7, <1>8, <1>9, ChangeInv DEF HeadTypes

LEMMA SendsInv ==
  ASSUME HeadConstants, HeadInv, NEW peer \in HeadPeers, NEW byHead \in BOOLEAN, Sends(peer, byHead)
  PROVE  HeadInv'
  <1> DEFINE row == [dir |-> "out", peer |-> peer, state |-> "pending", read |-> TRUE]
  <1>1. HeadTypes /\ table \in Seq(MessageRow) /\ Len(table) \in Nat /\ MaxRows \in Nat
    BY DEF HeadInv, HeadTypes, HeadConstants
  <1>2. /\ Len(table) < MaxRows /\ table' = Append(table, row) /\ calm' = FALSE
        /\ worker' = [NoWork EXCEPT !.next = "message", !.id = Len(table) + 1, !.peer = peer,
                                    !.head = byHead]
        /\ UNCHANGED <<conn, queue, up, gets, reply, posted, mirror, unread, rowsLost>>
    BY DEF Sends, head, link
  <1>3. row \in MessageRow /\ worker' \in Work /\ worker'.id = Len(table) + 1
    <2>1. worker' = [next |-> "message", id |-> Len(table) + 1, peer |-> peer, head |-> byHead,
                     row |-> NoMessage]
      BY <1>2 DEF NoWork
    <2>2. QED
      BY <1>1, <2>1, NoMessageType DEF MessageRow, Peer, Work
  <1>4. table' \in Seq(MessageRow) /\ Len(table') = Len(table) + 1 /\ Len(table') <= MaxRows
    BY <1>1, <1>2, <1>3 DEF HeadTypes
  <1>5. Stored'
    BY <1>1, <1>3, <1>4 DEF Stored
  <1>6. QED
    BY <1>1, <1>2, <1>3, <1>4, <1>5, ChangeInv DEF HeadTypes

\* What mark_read writes.
LEMMA MarkedType ==
  ASSUME HeadTypes, NEW peer,
         table' = [i \in DOMAIN table |-> IF i \in UnreadOf(peer) THEN [table[i] EXCEPT !.read = TRUE]
                                                                ELSE table[i]]
  PROVE  table' \in Seq(MessageRow) /\ Len(table') = Len(table)
  <1>1. table \in Seq(MessageRow)
    BY DEF HeadTypes
  <1>2. \A i \in DOMAIN table: table[i] \in MessageRow /\ [table[i] EXCEPT !.read = TRUE] \in MessageRow
    <2>1. ASSUME NEW r \in MessageRow PROVE [r EXCEPT !.read = TRUE] \in MessageRow
      BY DEF MessageRow
    <2>2. QED
      BY <1>1, <2>1
  <1>3. Len(table) \in Nat /\ DOMAIN table = 1..Len(table)
    BY <1>1
  <1>4. table' \in [1..Len(table) -> MessageRow]
    BY <1>2, <1>3
  <1>5. QED
    BY <1>3, <1>4, SeqDef, LenProperties

LEMMA ReadsInv == ASSUME HeadInv, NEW peer \in HeadPeers, Reads(peer) PROVE HeadInv'
  <1>1. HeadTypes
    BY DEF HeadInv
  <1>2. /\ calm' = FALSE /\ worker' = [NoWork EXCEPT !.next = "read", !.peer = peer]
        /\ UNCHANGED <<conn, queue, up, gets, reply, posted, mirror, unread, rowsLost>>
    BY DEF Reads, head, link
  <1>3. table' \in Seq(MessageRow) /\ Len(table') = Len(table)
    BY <1>1, MarkedType DEF Reads
  <1>4. worker' \in Work /\ Stored'
    <2>1. worker' = [next |-> "read", id |-> 0, peer |-> peer, head |-> FALSE, row |-> NoMessage]
      BY <1>2 DEF NoWork
    <2>2. QED
      BY <2>1, NoMessageType DEF Work, Peer, Stored
  <1>5. QED
    BY <1>1, <1>2, <1>3, <1>4, ChangeInv DEF HeadTypes

LEMMA PublishStatusInv == ASSUME HeadInv, PublishStatus PROVE HeadInv'
  <1>1. HeadTypes /\ RepairInv
    BY DEF HeadInv
  <1>2. Publish(StatusEvent(Unread)) /\ UNCHANGED <<table, worker, conn, up, gets, reply, posted, mirror, unread, calm, rowsLost>>
    BY DEF PublishStatus, core, head
  <1>3. /\ StatusEvent(Unread) \in EventOf /\ StatusEvent(Unread).type = "status"
        /\ StatusEvent(Unread).unread = Unread
    BY <1>1, UnreadType, NoMessageType DEF StatusEvent, Event, EventOf, Peer
  <1>4. /\ queue' \in Seq(EventOf) /\ (conn = "down" => queue' = <<>>) /\ (queue # <<>> => queue' # <<>>)
        /\ \A k \in DOMAIN queue': \/ queue'[k] = StatusEvent(Unread)
                                   \/ k \in DOMAIN queue /\ queue'[k] = queue[k]
    BY <1>1, <1>2, <1>3, Published
  <1>5. calm => \A k \in DOMAIN queue': queue'[k].type = "status" /\ queue'[k].unread = Unread
    BY <1>1, <1>3, <1>4 DEF RepairInv, OnItsWay
  <1>6. QED
    BY <1>2, <1>4, <1>5, StatusStaysInv

\* While the worker thread is at work the core isn't at rest.
LEMMA WorkInv ==
  ASSUME HeadInv, worker.next # "idle"
  PROVE  calm = FALSE
  BY DEF HeadInv, HeadTypes, RepairInv, NoWork

LEMMA PublishesSentInv == ASSUME HeadInv, PublishesSent PROVE HeadInv'
  <1> DEFINE row == [dir |-> "out", peer |-> worker.peer, state |-> "pending", read |-> TRUE]
             e == RowEvent("message", worker.id, row)
  <1>1. HeadTypes /\ worker \in Work /\ Stored
    BY DEF HeadInv, HeadTypes
  <1>2. /\ worker.next = "message" /\ Publish(e) /\ worker' = [worker EXCEPT !.next = "try"]
        /\ UNCHANGED <<table, conn, up, gets, reply, posted, mirror, unread, calm, rowsLost>>
    BY DEF PublishesSent, head
  <1>3. calm = FALSE
    BY <1>2, WorkInv
  <1>4. worker.peer \in Peer /\ worker.id \in Nat
    BY <1>1 DEF Work
  <1>5. e \in EventOf
    BY <1>4, NoMessageType DEF RowEvent, Event, EventOf, MessageRow, Peer
  <1> HIDE DEF e
  <1>6. queue' \in Seq(EventOf) /\ (conn = "down" => queue' = <<>>)
    BY <1>1, <1>2, <1>5, Published
  <1>7. worker' \in Work /\ Stored'
    BY <1>1, <1>2 DEF Work, Stored
  <1>8. QED
    BY <1>1, <1>2, <1>3, <1>6, <1>7, ChangeInv DEF HeadTypes

LEMMA TriesInv == ASSUME HeadInv, Tries PROVE HeadInv'
  <1>1. HeadTypes /\ worker \in Work /\ Stored /\ table \in Seq(MessageRow)
    BY DEF HeadInv, HeadTypes
  <1>2. PICK next \in {"ack", "answer"}: worker' = [worker EXCEPT !.next = next, !.row = table[worker.id]]
    BY DEF Tries
  <1>3. /\ worker.next = "try"
        /\ UNCHANGED <<table, conn, queue, up, gets, reply, posted, mirror, unread, calm, rowsLost>>
    BY DEF Tries, link, head
  <1>4. table[worker.id] \in MessageRow
    BY <1>1, <1>3 DEF Stored
  <1>5. worker' \in Work /\ worker'.next \in {"ack", "answer"}
    BY <1>1, <1>2, <1>4 DEF Work
  <1>6. Stored'
    BY <1>5 DEF Stored
  <1>7. calm = FALSE
    BY <1>3, WorkInv
  <1>8. QED
    BY <1>1, <1>3, <1>5, <1>6, <1>7, ChangeInv DEF HeadTypes

LEMMA PublishesTryInv == ASSUME HeadInv, PublishesTry PROVE HeadInv'
  <1> DEFINE e == RowEvent("ack", worker.id, worker.row)
  <1>1. HeadTypes /\ worker \in Work
    BY DEF HeadInv, HeadTypes
  <1>2. /\ worker.next \in {"ack", "answer"} /\ (Publish(e) \/ UNCHANGED queue) /\ worker' = NoWork
        /\ posted' = IF worker.head THEN [id |-> worker.id, row |-> worker.row] ELSE posted
        /\ UNCHANGED <<table, conn, up, gets, reply, mirror, unread, calm, rowsLost>>
    BY DEF PublishesTry
  <1>3. calm = FALSE
    BY <1>2, WorkInv
  <1>4. worker.id \in Nat /\ worker.row \in MessageRow
    BY <1>1 DEF Work
  <1>5. e \in EventOf /\ posted' \in Post
    BY <1>1, <1>2, <1>4, NoMessageType DEF RowEvent, Event, EventOf, Peer, Post, HeadTypes
  <1> HIDE DEF e
  <1>6. queue' \in Seq(EventOf) /\ (conn = "down" => queue' = <<>>)
    BY <1>1, <1>2, <1>5, Published DEF HeadTypes
  <1>7. worker' \in Work /\ Stored'
    BY <1>2, NoMessageType DEF Stored
  <1>8. QED
    BY <1>1, <1>2, <1>3, <1>5, <1>6, <1>7, ChangeInv DEF HeadTypes

LEMMA PublishesReadInv == ASSUME HeadInv, PublishesRead PROVE HeadInv'
  <1> DEFINE e == Event("read", 0, NoMessage, worker.peer, Unread)
  <1>1. HeadTypes /\ worker \in Work
    BY DEF HeadInv, HeadTypes
  <1>2. /\ worker.next = "read" /\ Publish(e) /\ worker' = NoWork
        /\ reply' = IF worker.head THEN Unread ELSE reply
        /\ UNCHANGED <<table, conn, up, gets, posted, mirror, unread, calm, rowsLost>>
    BY DEF PublishesRead
  <1>3. calm = FALSE
    BY <1>2, WorkInv
  <1>4. worker.peer \in Peer /\ Unread \in Nat
    BY <1>1, UnreadType DEF Work
  <1>5. e \in EventOf
    BY <1>4, NoMessageType DEF Event, EventOf
  <1> HIDE DEF e
  <1>6. queue' \in Seq(EventOf) /\ (conn = "down" => queue' = <<>>)
    BY <1>1, <1>2, <1>5, Published
  <1>7. reply' \in Nat \cup {-1}
    BY <1>1, <1>2, <1>4 DEF HeadTypes
  <1>8. worker' \in Work /\ Stored'
    BY <1>2, NoMessageType DEF Stored
  <1>9. QED
    BY <1>1, <1>2, <1>3, <1>6, <1>7, <1>8, ChangeInv DEF HeadTypes

LEMMA AcceptInv == ASSUME HeadInv, Accept PROVE HeadInv'
  <1>1. HeadTypes
    BY DEF HeadInv
  <1>2. /\ conn = "down" /\ reply = -1 /\ posted = NoPost /\ conn' = "subscribed"
        /\ \A g \in DOMAIN gets: gets[g].at = "none"
        /\ queue' = <<StatusEvent(Unread)>> /\ calm' = (worker = NoWork) /\ rowsLost' = FALSE
        /\ UNCHANGED <<table, worker, up, gets, reply, posted, mirror, unread>>
    BY DEF Accept, core, head
  <1>3. Unread' = Unread /\ Listed' = Listed /\ Unread \in Nat
    BY <1>1, <1>2, SameTable, UnreadType
  <1>4. /\ StatusEvent(Unread) \in EventOf /\ StatusEvent(Unread).type = "status"
        /\ StatusEvent(Unread).unread = Unread
    BY <1>3, NoMessageType DEF StatusEvent, Event, EventOf, Peer
  <1>5. queue' \in Seq(EventOf) /\ queue' # <<>> /\ \A k \in DOMAIN queue': queue'[k] = StatusEvent(Unread)
    BY <1>2, <1>4
  <1>6. ~up /\ \A g \in {"status", "messages"}: gets[g].at = "none"
    BY <1>1, <1>2 DEF HeadTypes
  <1>7. HeadTypes'
    BY <1>1, <1>2, <1>5, <1>6 DEF HeadTypes, Stored
  <1>8. OnItsWay' /\ Applied'
    BY <1>2, <1>3, <1>4, <1>5, <1>6 DEF OnItsWay, Applied
  <1>9. RepairInv'
    BY <1>2, <1>8 DEF RepairInv
  <1>10. QED
    BY <1>7, <1>9 DEF HeadInv

LEMMA DisconnectInv == ASSUME HeadInv, Disconnect PROVE HeadInv'
  <1>1. /\ conn' = "down" /\ queue' = <<>> /\ up' = FALSE
        /\ UNCHANGED <<table, worker, gets, reply, posted, mirror, unread, calm, rowsLost>>
    BY DEF Disconnect, core
  <1>2. Unread' = Unread /\ Listed' = Listed
    BY <1>1, SameTable
  <1>3. queue' \in Seq(EventOf) /\ DOMAIN queue' = {}
    BY <1>1
  <1>4. HeadTypes'
    BY <1>1, <1>3 DEF HeadInv, HeadTypes, Stored
  <1>5. RepairInv'
    BY <1>1, <1>2, <1>3 DEF HeadInv, RepairInv, OnItsWay, Applied
  <1>6. QED
    BY <1>4, <1>5 DEF HeadInv

LEMMA ConnectedInv == ASSUME HeadInv, Connected PROVE HeadInv'
  <1>1. HeadTypes /\ RepairInv
    BY DEF HeadInv
  <1>2. /\ conn # "down" /\ up' = TRUE /\ gets' = [g \in DOMAIN gets |-> Asked]
        /\ UNCHANGED <<table, worker, conn, queue, reply, posted, mirror, unread, calm, rowsLost>>
    BY DEF Connected, Refresh, core, link
  <1>3. Unread' = Unread /\ Listed' = Listed
    BY <1>2, SameTable
  <1>4. Asked \in Get /\ Asked.at = "asked"
    BY NoMessageType DEF Asked, NoGet, Get
  <1>5. gets' = [g \in {"status", "messages"} |-> Asked]
    BY <1>1, <1>2 DEF HeadTypes
  <1>6. gets' \in [{"status", "messages"} -> Get] /\ \A g \in {"status", "messages"}: gets'[g].at = "asked"
    BY <1>4, <1>5
  <1>7. HeadTypes'
    BY <1>1, <1>2, <1>6 DEF HeadTypes, Stored
  <1>8. RepairInv'
    BY <1>1, <1>2, <1>3, <1>6 DEF RepairInv, OnItsWay, Applied
  <1>9. QED
    BY <1>7, <1>8 DEF HeadInv

LEMMA AnswerInv == ASSUME HeadInv, NEW g \in DOMAIN gets, Answer(g) PROVE HeadInv'
  <1> DEFINE answer == IF g = "status" THEN [Answered EXCEPT !.unread = Unread]
                                       ELSE [Answered EXCEPT !.rows = Listed]
  <1>1. HeadTypes /\ RepairInv /\ gets \in [{"status", "messages"} -> Get] /\ g \in {"status", "messages"}
    BY DEF HeadInv, HeadTypes
  <1>2. /\ gets' = [gets EXCEPT ![g] = answer]
        /\ UNCHANGED <<table, worker, conn, queue, up, reply, posted, mirror, unread, calm, rowsLost>>
    BY DEF Answer, core, link
  <1>3. Unread' = Unread /\ Listed' = Listed
    BY <1>2, SameTable
  <1>4. /\ answer \in Get /\ answer.at = "answered"
        /\ g = "status" => answer.unread = Unread
        /\ g = "messages" => answer.rows = Listed
    <2>1. NoGet \in Get /\ Unread \in Nat /\ Listed \in [RowId -> MessageRow]
      BY <1>1, UnreadType, ListedType, NoMessageType DEF Get, NoGet
    <2>2. QED
      BY <1>1, <2>1 DEF Get, Answered, NoGet
  <1> HIDE DEF answer
  <1>5. /\ gets' \in [{"status", "messages"} -> Get]
        /\ gets'[g] = answer /\ \A h \in {"status", "messages"} \ {g}: gets'[h] = gets[h]
    BY <1>1, <1>2, <1>4
  <1>6. HeadTypes'
    BY <1>1, <1>2, <1>5 DEF HeadTypes, Stored
  <1>7. RepairInv'
    <2>1. SUFFICES ASSUME calm PROVE OnItsWay' /\ Applied'
      BY <1>1, <1>2 DEF RepairInv
    <2>2. OnItsWay'
      BY <1>1, <1>2, <1>3, <1>4, <1>5, <2>1 DEF RepairInv, OnItsWay
    <2>3. Applied'
      BY <1>1, <1>2, <1>3, <1>4, <1>5, <2>1 DEF RepairInv, Applied
    <2>4. QED
      BY <2>2, <2>3
  <1>8. QED
    BY <1>6, <1>7 DEF HeadInv

\* A request fails: the copy stays, and the loss of the rows is noted.
LEMMA FailsInv == ASSUME HeadInv, NEW g \in DOMAIN gets, Fails(g) PROVE HeadInv'
  <1>1. HeadTypes /\ RepairInv /\ gets \in [{"status", "messages"} -> Get] /\ g \in {"status", "messages"}
    BY DEF HeadInv, HeadTypes
  <1>2. /\ gets' = [gets EXCEPT ![g] = NoGet] /\ rowsLost' = (rowsLost \/ g = "messages")
        /\ UNCHANGED <<table, worker, conn, queue, up, reply, posted, mirror, unread, calm>>
    BY DEF Fails, core, link
  <1>3. Unread' = Unread /\ Listed' = Listed
    BY <1>2, SameTable
  <1>4. NoGet \in Get /\ NoGet.at = "none"
    BY NoMessageType DEF NoGet, Get
  <1>5. /\ gets' \in [{"status", "messages"} -> Get] /\ gets'[g] = NoGet
        /\ \A h \in {"status", "messages"} \ {g}: gets'[h] = gets[h]
    BY <1>1, <1>2, <1>4
  <1>6. rowsLost' \in BOOLEAN
    BY <1>2
  <1>7. HeadTypes'
    BY <1>1, <1>2, <1>5, <1>6 DEF HeadTypes, Stored
  <1>8. RepairInv'
    <2>1. SUFFICES ASSUME calm PROVE OnItsWay' /\ Applied'
      BY <1>1, <1>2 DEF RepairInv
    <2>2. OnItsWay /\ Applied
      BY <1>1, <2>1 DEF RepairInv
    <2>3. OnItsWay'
      BY <1>1, <1>2, <1>3, <1>4, <1>5, <2>2 DEF OnItsWay
    <2>4. Applied'
      BY <1>1, <1>2, <1>3, <1>5, <2>2 DEF Applied
    <2>5. QED
      BY <2>3, <2>4
  <1>9. QED
    BY <1>7, <1>8 DEF HeadInv

\* An answer is applied: while the core is at rest it is what the core has.
LEMMA AppliedInv ==
  ASSUME HeadInv, NEW g \in {"status", "messages"}, gets[g].at = "answered",
         gets' = [gets EXCEPT ![g] = NoGet],
         mirror' = IF g = "messages" THEN gets[g].rows ELSE mirror,
         unread' = IF g = "status" THEN gets[g].unread ELSE unread,
         UNCHANGED <<table, worker, conn, queue, up, reply, posted, calm, rowsLost>>
  PROVE  HeadInv'
  <1>1. HeadTypes /\ RepairInv /\ gets \in [{"status", "messages"} -> Get]
    BY DEF HeadInv, HeadTypes
  <1>2. Unread' = Unread /\ Listed' = Listed
    BY SameTable
  <1>3. NoGet \in Get /\ NoGet.at = "none"
    BY NoMessageType DEF NoGet, Get
  <1>4. /\ gets' \in [{"status", "messages"} -> Get] /\ gets'[g] = NoGet
        /\ \A h \in {"status", "messages"} \ {g}: gets'[h] = gets[h]
    BY <1>1, <1>3
  <1>5. gets[g] \in Get
    BY <1>1
  <1>6. gets[g].rows \in [RowId -> MessageRow] /\ gets[g].unread \in Nat
    BY <1>5 DEF Get
  <1>7. HeadTypes'
    BY <1>1, <1>4, <1>6 DEF HeadTypes, Stored
  <1>8. RepairInv'
    <2>1. SUFFICES ASSUME calm PROVE OnItsWay' /\ Applied'
      BY <1>1 DEF RepairInv
    <2>2. OnItsWay /\ Applied
      BY <1>1, <2>1 DEF RepairInv
    <2>3. OnItsWay'
      BY <1>2, <1>3, <1>4, <2>2 DEF OnItsWay
    <2>4. Applied'
      BY <1>2, <1>3, <1>4, <2>2 DEF OnItsWay, Applied
    <2>5. QED
      BY <2>3, <2>4
  <1>9. QED
    BY <1>7, <1>8 DEF HeadInv

LEMMA MarkReadInv == ASSUME HeadInv, NEW peer \in HeadPeers, HeadReads(peer) PROVE HeadInv'
  <1>1. HeadTypes /\ RepairInv
    BY DEF HeadInv
  <1>2. mirror' = ReadLocally(peer) /\ UNCHANGED <<conn, queue, up, gets, posted, unread>>
    BY DEF HeadReads, link
  <1>3. mirror' \in [RowId -> MessageRow] /\ Unread \in Nat
    BY <1>1, <1>2, ReadLocallyType, UnreadType
  <1>4. CASE UnreadOf(peer) = {} /\ reply' = Unread /\ UNCHANGED <<table, worker, calm, rowsLost>>
    <2>1. Unread' = Unread /\ Listed' = Listed
      BY <1>4, SameTable
    <2>2. HeadTypes'
      BY <1>1, <1>2, <1>3, <1>4 DEF HeadTypes, Stored
    <2>3. mirror = Listed => mirror' = Listed
      BY <1>1, <1>2, <1>4, ReadsNothing
    <2>4. RepairInv'
      BY <1>1, <1>2, <1>4, <2>1, <2>3 DEF RepairInv, OnItsWay, Applied
    <2>5. QED
      BY <2>2, <2>4 DEF HeadInv
  <1>5. CASE /\ table' = [i \in DOMAIN table |-> IF i \in UnreadOf(peer)
                                               THEN [table[i] EXCEPT !.read = TRUE] ELSE table[i]]
             /\ worker' = [NoWork EXCEPT !.next = "read", !.peer = peer, !.head = TRUE]
             /\ calm' = FALSE /\ UNCHANGED <<reply, rowsLost>>
    <2>1. table' \in Seq(MessageRow) /\ Len(table') = Len(table)
      BY <1>1, <1>5, MarkedType
    <2>2. worker' = [next |-> "read", id |-> 0, peer |-> peer, head |-> TRUE,
                     row |-> NoMessage]
      BY <1>5 DEF NoWork
    <2>3. worker' \in Work /\ Stored'
      BY <2>2, NoMessageType DEF Work, Peer, Stored
    <2>4. QED
      BY <1>1, <1>2, <1>3, <1>5, <2>1, <2>3, ChangeInv DEF HeadTypes
  <1>6. CASE rowsLost' = TRUE /\ UNCHANGED <<table, worker, reply, calm>>
    <2>1. Unread' = Unread /\ Listed' = Listed
      BY <1>6, SameTable
    <2>2. HeadTypes'
      BY <1>1, <1>2, <1>3, <1>6 DEF HeadTypes, Stored
    <2>3. RepairInv'
      BY <1>1, <1>2, <1>6, <2>1 DEF RepairInv, OnItsWay, Applied
    <2>4. QED
      BY <2>2, <2>3 DEF HeadInv
  <1>7. QED
    BY <1>4, <1>5, <1>6 DEF HeadReads, core

LEMMA ReplyReadInv == ASSUME HeadInv, ReplyRead PROVE HeadInv'
  <1>1. /\ reply # -1 /\ unread' \in {reply, unread} /\ reply' = -1
        /\ UNCHANGED <<table, worker, conn, queue, up, gets, posted, mirror, calm, rowsLost>>
    BY DEF ReplyRead, core, link
  <1>2. Unread' = Unread /\ Listed' = Listed
    BY <1>1, SameTable
  <1>3. HeadTypes'
    BY <1>1 DEF HeadInv, HeadTypes, Stored
  <1>4. RepairInv'
    BY <1>1, <1>2 DEF HeadInv, RepairInv, OnItsWay, Applied
  <1>5. QED
    BY <1>3, <1>4 DEF HeadInv

\* In the calm no message of the head unit's own is on its way.
LEMMA ReplySentInv == ASSUME HeadInv, ReplySent PROVE HeadInv'
  <1>1. HeadTypes /\ RepairInv /\ posted \in Post /\ mirror \in [RowId -> MessageRow]
    BY DEF HeadInv, HeadTypes
  <1>2. /\ posted # NoPost /\ mirror' \in {[mirror EXCEPT ![posted.id] = posted.row], mirror}
        /\ posted' = NoPost
        /\ UNCHANGED <<table, worker, conn, queue, up, gets, reply, unread, calm, rowsLost>>
    BY DEF ReplySent, core, link
  <1>3. calm = FALSE
    BY <1>1, <1>2 DEF RepairInv, HeadTypes
  <1>4. posted.row \in MessageRow
    BY <1>1 DEF Post
  <1>5. mirror' \in [RowId -> MessageRow]
    BY <1>1, <1>2, <1>4
  <1>6. Stored'
    BY <1>1, <1>2 DEF HeadTypes, Stored
  <1>7. QED
    BY <1>1, <1>2, <1>3, <1>5, <1>6, NoMessageType, ChangeInv DEF HeadTypes

LEMMA HandleEventInv == ASSUME HeadConstants, HeadInv, HandleEvent PROVE HeadInv'
  <1> DEFINE e == Head(queue)
  <1>1. HeadTypes /\ RepairInv /\ queue \in Seq(EventOf)
    BY DEF HeadInv, HeadTypes
  <1>2. /\ up /\ queue # <<>> /\ queue' = Tail(queue)
        /\ UNCHANGED <<table, worker, conn, up, gets, reply, posted, calm, rowsLost>>
        /\ \/ e.type = "status" /\ unread' = e.unread /\ UNCHANGED mirror
           \/ /\ e.type \in {"message", "ack"}
              /\ mirror' = [mirror EXCEPT ![e.id] = e.row]
              /\ unread' = IF e.type = "message" /\ e.row.dir = "in" /\ ~e.row.read
                           THEN unread + 1 ELSE unread
           \/ e.type = "read" /\ mirror' = ReadLocally(e.peer) /\ unread' = e.unread
    BY DEF HandleEvent, core
  <1>3. e = queue[1] /\ 1 \in DOMAIN queue /\ e \in EventOf
    BY <1>1, <1>2
  <1>4. /\ queue' \in Seq(EventOf)
        /\ \A k \in DOMAIN queue': k + 1 \in DOMAIN queue /\ queue'[k] = queue[k + 1]
    BY <1>1, <1>2
  <1> HIDE DEF e
  <1>5. Unread' = Unread /\ Listed' = Listed
    BY <1>2, SameTable
  <1>6. e.unread \in Nat /\ e.row \in MessageRow
    BY <1>3 DEF EventOf
  <1>7. mirror' \in [RowId -> MessageRow]
    BY <1>1, <1>2, <1>6, ReadLocallyType DEF HeadTypes
  <1>8. unread' \in Nat
    BY <1>1, <1>2, <1>6 DEF HeadTypes
  <1>9. conn # "down"
    BY <1>1, <1>2 DEF HeadTypes
  <1>10. HeadTypes'
    BY <1>1, <1>2, <1>4, <1>7, <1>8, <1>9 DEF HeadTypes, Stored
  <1>11. calm => e.type = "status" /\ e.unread = Unread
    BY <1>1, <1>3 DEF RepairInv, OnItsWay
  <1>12. RepairInv'
    BY <1>1, <1>2, <1>4, <1>5, <1>11 DEF RepairInv, OnItsWay, Applied
  <1>13. QED
    BY <1>10, <1>12 DEF HeadInv

LEMMA HeadNextInv == ASSUME HeadConstants, HeadInv, [HeadNext]_headVars PROVE HeadInv'
  <1>1. CASE UNCHANGED headVars
    <2>1. Unread' = Unread /\ Listed' = Listed
      BY <1>1, SameTable DEF headVars, core
    <2>2. QED
      BY <1>1, <2>1 DEF headVars, core, link, head, HeadInv, HeadTypes, Stored, RepairInv, OnItsWay, Applied
  <1>2. CASE CoreSteps
    BY <1>2, ReceivedInv, UpdatedInv, SendsInv, ReadsInv, PublishStatusInv, PublishesSentInv,
       TriesInv, PublishesTryInv, PublishesReadInv DEF CoreSteps
  <1>3. CASE Status
    <2>1. "status" # "messages"
      OBVIOUS
    <2>2. QED
      BY <1>3, <2>1, AppliedInv DEF Status, core, link
  <1>4. CASE ResetMirror
    <2>1. "status" # "messages"
      OBVIOUS
    <2>2. QED
      BY <1>4, <2>1, AppliedInv DEF ResetMirror, core, link
  <1>5. CASE HeadSteps
    BY <1>3, <1>4, <1>5, ConnectedInv, ReplyReadInv, ReplySentInv, HandleEventInv, AnswerInv, FailsInv,
       MarkReadInv
       DEF HeadSteps
  <1>6. QED
    BY <1>1, <1>2, <1>5, AcceptInv, DisconnectInv DEF HeadNext

LEMMA HeadInvariance == ASSUME HeadConstants PROVE HeadSpec => []HeadInv
  <1>1. HeadInit => HeadInv
    BY HeadInitInv
  <1>2. HeadInv /\ [HeadNext]_headVars => HeadInv'
    BY HeadNextInv
  <1>3. QED
    BY <1>1, <1>2, PTL DEF HeadSpec

-----------------------------------------------------------------------------
\* The theorems

\* The table stays within its bound, the queue is empty without a subscriber, the counts are
\* counts (events.py:20-35).
THEOREM HeadTypeCorrect == ASSUME HeadConstants PROVE HeadSpec => []HeadTypeOK
  <1>1. HeadInv => HeadTypeOK
    BY DEF HeadInv, HeadTypes, HeadTypeOK
  <1>2. QED
    BY <1>1, HeadInvariance, PTL

\* A connection made while the core was at rest repairs the head unit's copy, whatever was
\* dropped, missed or counted twice before and in whatever order the answers, the events and
\* the user's reads come in: the count also when requests fail, the rows unless theirs does
\* (client.py:140-168).
THEOREM Repaired == ASSUME HeadConstants PROVE HeadSpec => []RefreshRepairs
  <1>1. ASSUME HeadInv, calm, Settled PROVE unread = Unread /\ (~rowsLost => mirror = Listed)
    BY <1>1 DEF HeadInv, RepairInv, Applied, Settled, HeadTypes
  <1>2. HeadInv => RefreshRepairs
    BY <1>1 DEF RefreshRepairs
  <1>3. QED
    BY <1>2, HeadInvariance, PTL

-----------------------------------------------------------------------------
\* Cards: the folds of the carousel

KeepStep(keep, m, i) == M!Dropped(keep, m, i)
UpsertStep(none, m, row) == M!Upsert(m, row)
PlaceStep(none, rows, row) == M!Placed(rows, row)
LastStep(none, rows, row) == ByLast!Placed(rows, row)
MeshStep(e, cs, i) == IF e.rows[i] = NoRow THEN cs ELSE <<MeshCard(i, e.rows[i], e.names)>> \o cs

Drops == INSTANCE FoldFacts WITH Op <- KeepStep
Upserts == INSTANCE FoldFacts WITH Op <- UpsertStep
Places == INSTANCE FoldFacts WITH Op <- PlaceStep
Lasts == INSTANCE FoldFacts WITH Op <- LastStep
Groups == INSTANCE FoldFacts WITH Op <- Grouped
Meshes == INSTANCE FoldFacts WITH Op <- MeshStep

-----------------------------------------------------------------------------
\* Cards: what a card is, and the definitions as folds

Card == [kind: {"aprs", "mesh"}, key: {"a", "m"} \X Nat, peer: Peers \cup Conv,
         label: {"", "name", "bare"}, dir: {"in", "out"}, parts: SUBSET Nat, near: BOOLEAN,
         last: Nat, ts: Nat, read: BOOLEAN]

Elems(s) == {s[i]: i \in DOMAIN s}
InOrder(s) == \A i, j \in DOMAIN s: i < j => ~CardBelow(s[i], s[j])
OneEach(s) == \A i, j \in DOMAIN s: s[i].key = s[j].key => i = j

LEMMA RemovedIs ==
    \A m, keep: M!Removed(m, keep) = Drops!Folded(keep, m, Reverse([i \in DOMAIN m.rows |-> i]))
  BY DEF M!Removed, KeepStep, Drops!Folded, M!FoldLeft, Drops!FoldLeft, M!MapThenFoldSet,
         Drops!MapThenFoldSet, M!Max, Drops!Max, Reverse, M!Reverse

LEMMA SyncIs ==
    \A m, rows: M!Sync(m, rows) = Upserts!Folded(0, M!Removed(m, M!Keys(rows)), rows)
  BY DEF M!Sync, UpsertStep, Upserts!Folded, M!FoldLeft, Upserts!FoldLeft, M!MapThenFoldSet,
         Upserts!MapThenFoldSet, M!Max, Upserts!Max

LEMMA OrderedIs == \A rows: M!Ordered(rows) = Places!Folded(0, <<>>, rows)
  BY DEF M!Ordered, PlaceStep, Places!Folded, M!FoldLeft, Places!FoldLeft, M!MapThenFoldSet,
         Places!MapThenFoldSet, M!Max, Places!Max

LEMMA LastIs == \A rows: ByLast!Ordered(rows) = Lasts!Folded(0, <<>>, rows)
  BY DEF ByLast!Ordered, LastStep, Lasts!Folded, ByLast!FoldLeft, Lasts!FoldLeft,
         ByLast!MapThenFoldSet, Lasts!MapThenFoldSet, ByLast!Max, Lasts!Max

LEMMA GroupIs ==
    \A rows: GroupMessages(rows) =
                ByLast!Ordered(Groups!Folded(rows, <<>>, [i \in DOMAIN rows |-> i]))
  BY DEF GroupMessages, Groups!Folded, FoldLeftDomain, FoldLeft, Groups!FoldLeft, MapThenFoldSet,
         Groups!MapThenFoldSet, Max, Groups!Max

LEMMA MeshIs ==
    \A rows, names: MeshCards(rows, names) =
       Meshes!Folded([rows |-> rows, names |-> names], <<>>, [i \in DOMAIN rows |-> i])
  BY DEF MeshCards, MeshStep, Meshes!Folded, FoldLeftDomain, FoldLeft, Meshes!FoldLeft,
         MapThenFoldSet, Meshes!MapThenFoldSet, Max, Meshes!Max

\* CardBelow orders cards: never both ways, and not below is transitive.
LEMMA BelowOrders ==
    /\ \A a, b \in Card: CardBelow(a, b) => ~CardBelow(b, a)
    /\ \A a, b, c \in Card: ~CardBelow(a, b) /\ ~CardBelow(b, c) => ~CardBelow(a, c)
  <1>1. \A a \in Card: a.ts \in Nat /\ a.last \in Nat /\ a.kind \in {"aprs", "mesh"}
    BY DEF Card
  <1>2. QED
    BY <1>1 DEF CardBelow

\* _position: before the first row that is below it, or behind all.
LEMMA PositionIs ==
    ASSUME NEW X, NEW rows \in Seq(X), NEW row
    PROVE  /\ M!Position(row, rows) \in 1..(Len(rows) + 1)
           /\ \A i \in 1..(M!Position(row, rows) - 1): ~CardBelow(rows[i], row)
           /\ M!Position(row, rows) \in DOMAIN rows =>
                 CardBelow(rows[M!Position(row, rows)], row)
  <1> DEFINE T == {p \in 1..Len(rows): CardBelow(rows[p], row)} \cup {Len(rows) + 1}
             P(p) == /\ \A i \in 1..(p - 1): ~CardBelow(rows[i], row)
                     /\ p \in DOMAIN rows => CardBelow(rows[p], row)
  <1>1. T \in SUBSET Nat /\ T # {}
    OBVIOUS
  <1> HIDE DEF T
  <1>2. PICK p \in T: \A q \in T: p <= q
    BY <1>1, Upserts!Least
  <1>3. p \in 1..(Len(rows) + 1)
    BY DEF T
  <1>4. P(p)
    <2>1. ASSUME NEW i \in 1..(p - 1) PROVE ~CardBelow(rows[i], row)
      <3>1. i \in 1..Len(rows) /\ ~(p <= i)
        BY <1>3
      <3>2. i \notin T
        BY <1>2, <3>1
      <3>3. QED
        BY <3>1, <3>2 DEF T
    <2>2. ASSUME p \in DOMAIN rows PROVE CardBelow(rows[p], row)
      <3>1. p # Len(rows) + 1
        BY <2>2
      <3>2. QED
        BY <3>1 DEF T
    <2>3. QED
      BY <2>1, <2>2
  <1> HIDE DEF P
  <1>5. M!Position(row, rows) = CHOOSE q \in 1..(Len(rows) + 1): P(q)
    BY DEF M!Position, P
  <1>6. M!Position(row, rows) \in 1..(Len(rows) + 1) /\ P(M!Position(row, rows))
    BY <1>3, <1>4, <1>5
  <1>7. QED
    BY <1>6 DEF P

\* The same of the order of group_messages.
LEMMA LastPositionIs ==
    ASSUME NEW X, NEW rows \in Seq(X), NEW row
    PROVE  ByLast!Position(row, rows) \in 1..(Len(rows) + 1)
  <1> DEFINE T == {p \in 1..Len(rows): OlderThan(rows[p], row)} \cup {Len(rows) + 1}
             P(p) == /\ \A i \in 1..(p - 1): ~OlderThan(rows[i], row)
                     /\ p \in DOMAIN rows => OlderThan(rows[p], row)
  <1>1. T \in SUBSET Nat /\ T # {}
    OBVIOUS
  <1> HIDE DEF T
  <1>2. PICK p \in T: \A q \in T: p <= q
    BY <1>1, Upserts!Least
  <1>3. p \in 1..(Len(rows) + 1)
    BY DEF T
  <1>4. P(p)
    <2>1. ASSUME NEW i \in 1..(p - 1) PROVE ~OlderThan(rows[i], row)
      <3>1. i \in 1..Len(rows) /\ ~(p <= i)
        BY <1>3
      <3>2. i \notin T
        BY <1>2, <3>1
      <3>3. QED
        BY <3>1, <3>2 DEF T
    <2>2. ASSUME p \in DOMAIN rows PROVE OlderThan(rows[p], row)
      <3>1. p # Len(rows) + 1
        BY <2>2
      <3>2. QED
        BY <3>1 DEF T
    <2>3. QED
      BY <2>1, <2>2
  <1> HIDE DEF P
  <1>5. ByLast!Position(row, rows) = CHOOSE q \in 1..(Len(rows) + 1): P(q)
    BY DEF ByLast!Position, P
  <1>6. ByLast!Position(row, rows) \in 1..(Len(rows) + 1) /\ P(ByLast!Position(row, rows))
    BY <1>3, <1>4, <1>5
  <1>7. QED
    BY <1>6

-----------------------------------------------------------------------------
\* Cards: one card put in, taken out, or moved

LEMMA InsertAtIs ==
    ASSUME NEW X, NEW s \in Seq(X), NEW p \in 1..(Len(s) + 1), NEW x \in X
    PROVE  /\ M!InsertAt(s, p, x) \in Seq(X)
           /\ Len(M!InsertAt(s, p, x)) = Len(s) + 1
           /\ \A i \in 1..(Len(s) + 1):
                 M!InsertAt(s, p, x)[i] = IF i < p THEN s[i] ELSE IF i = p THEN x ELSE s[i - 1]
  <1> DEFINE a == SubSeq(s, 1, p - 1)
             b == <<x>>
             c == SubSeq(s, p, Len(s))
             d == a \o b
  <1>1. a \in Seq(X) /\ Len(a) = p - 1 /\ \A i \in 1..(p - 1): a[i] = s[i]
    BY SubSeqProperties
  <1>2. b \in Seq(X) /\ Len(b) = 1 /\ b[1] = x
    OBVIOUS
  <1>3. /\ c \in Seq(X) /\ Len(c) = Len(s) - p + 1
        /\ \A i \in 1..(Len(s) - p + 1): c[i] = s[p + i - 1]
    BY SubSeqProperties
  <1>4. M!InsertAt(s, p, x) = d \o c
    BY DEF M!InsertAt
  <1> HIDE DEF a, b, c, d
  <1>5. /\ d \in Seq(X) /\ Len(d) = p
        /\ \A i \in 1..p: d[i] = IF i <= p - 1 THEN a[i] ELSE b[i - (p - 1)]
    <2>1. /\ a \o b \in Seq(X) /\ Len(a \o b) = Len(a) + Len(b)
          /\ \A i \in 1..(Len(a) + Len(b)):
                (a \o b)[i] = IF i <= Len(a) THEN a[i] ELSE b[i - Len(a)]
      BY <1>1, <1>2, ConcatProperties
    <2>2. Len(a) = p - 1 /\ Len(a) + Len(b) = p
      BY <1>1, <1>2
    <2>3. QED
      BY <2>1, <2>2 DEF d
  <1>6. /\ M!InsertAt(s, p, x) \in Seq(X)
        /\ Len(M!InsertAt(s, p, x)) = Len(s) + 1
        /\ \A i \in 1..(Len(s) + 1):
             M!InsertAt(s, p, x)[i] = IF i <= p THEN d[i] ELSE c[i - p]
    <2>1. /\ d \o c \in Seq(X) /\ Len(d \o c) = Len(d) + Len(c)
          /\ \A i \in 1..(Len(d) + Len(c)):
                (d \o c)[i] = IF i <= Len(d) THEN d[i] ELSE c[i - Len(d)]
      BY <1>3, <1>5, ConcatProperties
    <2>2. Len(d) = p /\ Len(d) + Len(c) = Len(s) + 1
      BY <1>3, <1>5
    <2>3. QED
      BY <2>1, <2>2, <1>4
  <1>7. ASSUME NEW i \in 1..(Len(s) + 1)
        PROVE  M!InsertAt(s, p, x)[i] = IF i < p THEN s[i] ELSE IF i = p THEN x ELSE s[i - 1]
    <2>1. CASE i < p
      BY <2>1, <1>1, <1>5, <1>6
    <2>2. CASE i = p
      <3>1. p \in 1..p /\ i <= p /\ ~(p <= p - 1) /\ p - (p - 1) = 1
        BY <2>2
      <3>2. d[p] = b[1]
        BY <1>5, <3>1
      <3>3. M!InsertAt(s, p, x)[p] = d[p]
        BY <1>6
      <3>4. M!InsertAt(s, p, x)[p] = x
        BY <1>2, <3>2, <3>3
      <3>5. QED
        BY <2>2, <3>4
    <2>3. CASE i > p
      <3>1. i - p \in 1..(Len(s) - p + 1) /\ p + (i - p) - 1 = i - 1
        BY <2>3
      <3>2. M!InsertAt(s, p, x)[i] = c[i - p]
        BY <2>3, <1>6
      <3>3. c[i - p] = s[i - 1]
        BY <3>1, <1>3
      <3>4. QED
        BY <2>3, <3>2, <3>3
    <2>4. QED
      BY <2>1, <2>2, <2>3
  <1>8. QED
    BY <1>6, <1>7

LEMMA RemoveAtIs ==
    ASSUME NEW X, NEW s \in Seq(X), NEW p \in 1..Len(s)
    PROVE  /\ M!RemoveAt(s, p) \in Seq(X)
           /\ Len(M!RemoveAt(s, p)) = Len(s) - 1
           /\ \A i \in 1..(Len(s) - 1): M!RemoveAt(s, p)[i] = IF i < p THEN s[i] ELSE s[i + 1]
  <1> DEFINE a == SubSeq(s, 1, p - 1)
             c == SubSeq(s, p + 1, Len(s))
  <1>1. a \in Seq(X) /\ Len(a) = p - 1 /\ \A i \in 1..(p - 1): a[i] = s[i]
    BY SubSeqProperties
  <1>2. /\ c \in Seq(X) /\ Len(c) = Len(s) - p
        /\ \A i \in 1..(Len(s) - p): c[i] = s[p + i]
    BY SubSeqProperties
  <1>3. M!RemoveAt(s, p) = a \o c
    BY DEF M!RemoveAt
  <1> HIDE DEF a, c
  <1>4. /\ M!RemoveAt(s, p) \in Seq(X)
        /\ Len(M!RemoveAt(s, p)) = Len(s) - 1
        /\ \A i \in 1..(Len(s) - 1):
             M!RemoveAt(s, p)[i] = IF i <= p - 1 THEN a[i] ELSE c[i - (p - 1)]
    <2>1. /\ a \o c \in Seq(X) /\ Len(a \o c) = Len(a) + Len(c)
          /\ \A i \in 1..(Len(a) + Len(c)):
                (a \o c)[i] = IF i <= Len(a) THEN a[i] ELSE c[i - Len(a)]
      BY <1>1, <1>2, ConcatProperties
    <2>2. Len(a) = p - 1 /\ Len(a) + Len(c) = Len(s) - 1
      BY <1>1, <1>2
    <2>3. QED
      BY <1>3, <2>1, <2>2
  <1>5. ASSUME NEW i \in 1..(Len(s) - 1)
        PROVE  M!RemoveAt(s, p)[i] = IF i < p THEN s[i] ELSE s[i + 1]
    <2>1. CASE i < p
      BY SMTT(60), <2>1, <1>1, <1>4
    <2>2. CASE i >= p
      <3>1. i - (p - 1) \in 1..(Len(s) - p) /\ p + (i - (p - 1)) = i + 1
        BY <2>2
      <3>2. QED
        BY <2>2, <3>1, <1>2, <1>4
    <2>3. QED
      BY <2>1, <2>2
  <1>6. QED
    BY <1>4, <1>5

\* A card put anywhere among others with other keys.
LEMMA InsertAnywhere ==
    ASSUME NEW rows \in Seq(Card), NEW row \in Card, NEW p \in 1..(Len(rows) + 1),
           OneEach(rows), row.key \notin M!Keys(rows)
    PROVE  LET out == M!InsertAt(rows, p, row)
           IN  out \in Seq(Card) /\ Elems(out) = Elems(rows) \cup {row} /\ OneEach(out)
  <1> DEFINE n == Len(rows)
             out == M!InsertAt(rows, p, row)
             from(i) == IF i < p THEN i ELSE i - 1
  <1>0. n \in Nat /\ DOMAIN rows = 1..n /\ \A i \in 1..n: rows[i] \in Card
    OBVIOUS
  <1>1. p \in 1..(n + 1)
    OBVIOUS
  <1>2. /\ out \in Seq(Card) /\ Len(out) = n + 1 /\ DOMAIN out = 1..(n + 1)
        /\ \A i \in 1..(n + 1): out[i] = IF i < p THEN rows[i] ELSE IF i = p THEN row ELSE rows[i - 1]
    <2>1. /\ out \in Seq(Card) /\ Len(out) = Len(rows) + 1
          /\ \A i \in 1..(Len(rows) + 1):
                out[i] = IF i < p THEN rows[i] ELSE IF i = p THEN row ELSE rows[i - 1]
      BY InsertAtIs
    <2>2. \A s \in Seq(Card): DOMAIN s = 1..Len(s)
      OBVIOUS
    <2> HIDE DEF out
    <2>3. QED
      BY <2>1, <2>2
  <1> HIDE DEF out, n
  <1>3. \A i \in 1..(n + 1): i # p => out[i] = rows[from(i)] /\ from(i) \in 1..n
    BY <1>0, <1>1, <1>2
  <1>4. out[p] = row
    BY <1>0, <1>1, <1>2
  <1>5. Elems(out) = Elems(rows) \cup {row}
    <2>1. ASSUME NEW i \in 1..n PROVE \E j \in 1..(n + 1): out[j] = rows[i]
      <3>1. CASE i < p
        <4>1. i \in 1..(n + 1) /\ out[i] = rows[i]
          BY <3>1, <1>0, <1>2
        <4>2. QED
          BY <4>1
      <3>2. CASE i >= p
        <4>1. i + 1 \in 1..(n + 1) /\ ~(i + 1 < p) /\ i + 1 # p /\ (i + 1) - 1 = i
          BY <3>2, <1>0, <1>1
        <4>2. out[i + 1] = rows[i]
          BY <4>1, <1>2
        <4>3. QED
          BY <4>1, <4>2
      <3>3. QED
        BY <3>1, <3>2, <1>0, <1>1
    <2>2. p \in DOMAIN out
      BY <1>1, <1>2
    <2>3. ASSUME NEW i \in 1..(n + 1) PROVE out[i] \in Elems(rows) \cup {row}
      <3>1. i # p => out[i] = rows[from(i)] /\ from(i) \in DOMAIN rows
        BY <1>0, <1>3
      <3>2. QED
        BY <3>1, <1>4 DEF Elems
    <2>4. \A i \in 1..n: rows[i] \in Elems(out)
      BY <2>1, <1>2 DEF Elems
    <2>5. row \in Elems(out)
      BY <2>2, <1>4 DEF Elems
    <2>6. QED
      BY <2>3, <2>4, <2>5, <1>0, <1>2 DEF Elems
  <1>6. \A i \in 1..n: rows[i].key # row.key
    BY <1>0 DEF M!Keys
  <1>7. OneEach(out)
    <2>1. ASSUME NEW i \in 1..(n + 1), NEW j \in 1..(n + 1), out[i].key = out[j].key PROVE i = j
      <3>1. CASE i # p /\ j # p
        <4>1. rows[from(i)].key = rows[from(j)].key /\ from(i) \in 1..n /\ from(j) \in 1..n
          BY <2>1, <3>1, <1>3
        <4>2. from(i) = from(j)
          BY <4>1, <1>0 DEF OneEach
        <4>3. QED
          BY <4>2, <3>1, <1>1, <1>0
      <3>2. CASE i = p \/ j = p
        BY <3>2, <2>1, <1>3, <1>4, <1>6
      <3>3. QED
        BY <3>1, <3>2
    <2>2. QED
      BY <2>1, <1>2 DEF OneEach
  <1>8. QED
    BY <1>2, <1>5, <1>7 DEF out

\* A card put in its position.
LEMMA InsertKeeps ==
    ASSUME NEW rows \in Seq(Card), NEW row \in Card,
           InOrder(rows), OneEach(rows), row.key \notin M!Keys(rows)
    PROVE  LET out == M!InsertAt(rows, M!Position(row, rows), row)
           IN  out \in Seq(Card) /\ Elems(out) = Elems(rows) \cup {row} /\ InOrder(out) /\ OneEach(out)
  <1> DEFINE n == Len(rows)
             p == M!Position(row, rows)
             out == M!InsertAt(rows, p, row)
             from(i) == IF i < p THEN i ELSE i - 1
  <1>0. n \in Nat /\ DOMAIN rows = 1..n /\ \A i \in 1..n: rows[i] \in Card
    OBVIOUS
  <1>1. /\ p \in 1..(n + 1)
        /\ \A i \in 1..(p - 1): ~CardBelow(rows[i], row)
        /\ p \in 1..n => CardBelow(rows[p], row)
    BY <1>0, PositionIs
  <1>2. /\ out \in Seq(Card) /\ Len(out) = n + 1 /\ DOMAIN out = 1..(n + 1)
        /\ \A i \in 1..(n + 1): out[i] = IF i < p THEN rows[i] ELSE IF i = p THEN row ELSE rows[i - 1]
    <2>1. /\ out \in Seq(Card) /\ Len(out) = Len(rows) + 1
          /\ \A i \in 1..(Len(rows) + 1):
                out[i] = IF i < p THEN rows[i] ELSE IF i = p THEN row ELSE rows[i - 1]
      <3>1. p \in 1..(Len(rows) + 1)
        BY <1>1
      <3> HIDE DEF out, p, n, from
      <3>2. rows \in Seq(Card) /\ row \in Card
        OBVIOUS
      <3>3. /\ M!InsertAt(rows, p, row) \in Seq(Card)
            /\ Len(M!InsertAt(rows, p, row)) = Len(rows) + 1
            /\ \A i \in 1..(Len(rows) + 1):
                  M!InsertAt(rows, p, row)[i]
                      = IF i < p THEN rows[i] ELSE IF i = p THEN row ELSE rows[i - 1]
        BY <3>1, <3>2, InsertAtIs
      <3>4. out = M!InsertAt(rows, p, row)
        BY DEF out
      <3>5. QED
        BY <3>3, <3>4
    <2>2. \A s \in Seq(Card): DOMAIN s = 1..Len(s)
      OBVIOUS
    <2> HIDE DEF out, p
    <2>3. QED
      BY <2>1, <2>2
  <1> HIDE DEF p, out, n
  <1>3. \A i \in 1..(n + 1): i # p => out[i] = rows[from(i)] /\ from(i) \in 1..n
    BY <1>0, <1>1, <1>2
  <1>4. out[p] = row
    BY <1>0, <1>1, <1>2
  <1>5. InOrder(out)
    <2>1. ASSUME NEW i \in 1..(n + 1), NEW j \in 1..(n + 1), i < j
          PROVE  ~CardBelow(out[i], out[j])
      <3>1. CASE i # p /\ j # p
        <4>1. from(i) \in 1..n /\ from(j) \in 1..n /\ from(i) < from(j)
          BY <2>1, <3>1, <1>0, <1>1, <1>3
        <4>2. ~CardBelow(rows[from(i)], rows[from(j)])
          BY <4>1, <1>0 DEF InOrder
        <4>3. QED
          BY <4>2, <3>1, <1>3
      <3>2. CASE j = p
        <4>1. i \in 1..(p - 1) /\ i < p
          BY <2>1, <3>2
        <4>2. out[i] = rows[i] /\ out[j] = row
          BY <4>1, <3>2, <1>2, <1>4
        <4>3. QED
          BY <4>1, <4>2, <1>1
      <3>3. CASE i = p
        <4>1. p \in 1..n /\ j - 1 \in 1..n /\ p <= j - 1 /\ ~(j < p) /\ j # p
          BY <2>1, <3>3, <1>0, <1>1
        <4>2. out[i] = row /\ out[j] = rows[j - 1]
          BY <4>1, <3>3, <1>2, <1>4
        <4>3. ~CardBelow(row, rows[p])
          BY <4>1, <1>0, <1>1, BelowOrders
        <4>4. p # j - 1 => ~CardBelow(rows[p], rows[j - 1])
          BY <4>1, <1>0 DEF InOrder
        <4>5. ~CardBelow(row, rows[j - 1])
          BY <4>1, <4>3, <4>4, <1>0, BelowOrders
        <4>6. QED
          BY <4>2, <4>5
      <3>4. QED
        BY <3>1, <3>2, <3>3
    <2>2. QED
      BY <2>1, <1>2 DEF InOrder
  <1>6. QED
    <2> HIDE DEF n
    <2>1. p \in 1..(Len(rows) + 1)
      BY PositionIs DEF p
    <2>2. out \in Seq(Card) /\ Elems(out) = Elems(rows) \cup {row} /\ OneEach(out)
      BY <2>1, InsertAnywhere DEF out
    <2>3. QED
      BY <1>5, <2>2 DEF out, p

\* A card taken out.
LEMMA RemoveKeeps ==
    ASSUME NEW rows \in Seq(Card), InOrder(rows), OneEach(rows), NEW p \in 1..Len(rows)
    PROVE  LET out == M!RemoveAt(rows, p)
           IN  /\ out \in Seq(Card) /\ InOrder(out) /\ OneEach(out)
               /\ Elems(out) = {r \in Elems(rows): r.key # rows[p].key}
  <1> DEFINE n == Len(rows)
             out == M!RemoveAt(rows, p)
             from(i) == IF i < p THEN i ELSE i + 1
  <1>0. n \in Nat /\ n - 1 \in Nat /\ p \in 1..n /\ DOMAIN rows = 1..n /\ \A i \in 1..n: rows[i] \in Card
    OBVIOUS
  <1>1. /\ out \in Seq(Card) /\ Len(out) = n - 1 /\ DOMAIN out = 1..(n - 1)
        /\ \A i \in 1..(n - 1): out[i] = IF i < p THEN rows[i] ELSE rows[i + 1]
    <2>1. /\ out \in Seq(Card) /\ Len(out) = Len(rows) - 1
          /\ \A i \in 1..(Len(rows) - 1): out[i] = IF i < p THEN rows[i] ELSE rows[i + 1]
      BY RemoveAtIs
    <2>2. \A s \in Seq(Card): DOMAIN s = 1..Len(s)
      OBVIOUS
    <2> HIDE DEF out
    <2>3. QED
      BY <2>1, <2>2
  <1> HIDE DEF out, n
  <1>2. \A i \in 1..(n - 1): out[i] = rows[from(i)] /\ from(i) \in 1..n /\ from(i) # p
    BY <1>0, <1>1
  <1>3. \A i, j \in 1..(n - 1): i < j => from(i) < from(j)
    BY <1>0
  <1>4. InOrder(out)
    BY <1>0, <1>1, <1>2, <1>3 DEF InOrder
  <1>5. OneEach(out)
    <2>1. ASSUME NEW i \in 1..(n - 1), NEW j \in 1..(n - 1), out[i].key = out[j].key PROVE i = j
      <3>1. from(i) = from(j)
        <4>1. rows[from(i)].key = rows[from(j)].key /\ from(i) \in 1..n /\ from(j) \in 1..n
          BY <2>1, <1>2
        <4>2. QED
          BY <4>1, <1>0 DEF OneEach
      <3>2. QED
        BY <3>1, <1>0
    <2>2. QED
      BY <2>1, <1>1 DEF OneEach
  <1>6. Elems(out) = {r \in Elems(rows): r.key # rows[p].key}
    <2>1. ASSUME NEW i \in 1..n, i # p PROVE \E j \in 1..(n - 1): out[j] = rows[i]
      <3>1. CASE i < p
        <4>1. i \in 1..(n - 1)
          BY <3>1, <1>0
        <4>2. QED
          BY <3>1, <4>1, <1>1
      <3>2. CASE i > p
        <4>1. i - 1 \in 1..(n - 1) /\ ~(i - 1 < p) /\ (i - 1) + 1 = i
          BY <3>2, <1>0
        <4>2. out[i - 1] = rows[i]
          BY <4>1, <1>1
        <4>3. QED
          BY <4>1, <4>2
      <3>3. QED
        BY <2>1, <3>1, <3>2, <1>0
    <2>2. \A i \in 1..n: i # p <=> rows[i].key # rows[p].key
      BY <1>0 DEF OneEach
    <2>3. ASSUME NEW i \in 1..(n - 1)
          PROVE  out[i] \in Elems(rows) /\ out[i].key # rows[p].key
      <3>1. out[i] = rows[from(i)] /\ from(i) \in 1..n /\ from(i) # p
        BY <1>2
      <3>2. rows[from(i)].key # rows[p].key
        BY <3>1, <2>2
      <3>3. QED
        BY <3>1, <3>2, <1>0 DEF Elems
    <2>4. ASSUME NEW i \in 1..n, rows[i].key # rows[p].key PROVE rows[i] \in Elems(out)
      <3>1. PICK j \in 1..(n - 1): out[j] = rows[i]
        BY <2>1, <2>2, <2>4
      <3>2. QED
        BY <3>1, <1>1 DEF Elems
    <2>5. QED
      BY ZenonT(60), <2>3, <2>4, <1>0, <1>1 DEF Elems
  <1>7. QED
    BY <1>1, <1>4, <1>5, <1>6 DEF out

\* What the view makes of the row that is moved and then changed is the row inserted among the
\* others.
LEMMA MovedIs ==
    ASSUME NEW rows \in Seq(Card), NEW row \in Card, NEW old \in 1..Len(rows), NEW new \in 1..Len(rows)
    PROVE  LET moved == IF new = old THEN rows ELSE M!MoveRows(rows, old, M!Destination(old, new))
           IN  [moved EXCEPT ![new] = row] = M!InsertAt(M!RemoveAt(rows, old), new, row)
  <1> DEFINE n == Len(rows)
             rest == M!RemoveAt(rows, old)
             moved == IF new = old THEN rows ELSE M!MoveRows(rows, old, M!Destination(old, new))
             out == M!InsertAt(rest, new, row)
             view == [moved EXCEPT ![new] = row]
  <1>0. n \in Nat /\ old \in 1..n /\ new \in 1..n /\ DOMAIN rows = 1..n /\ rows[old] \in Card
    OBVIOUS
  <1>1. /\ rest \in Seq(Card) /\ Len(rest) = n - 1
        /\ \A i \in 1..(n - 1): rest[i] = IF i < old THEN rows[i] ELSE rows[i + 1]
    BY RemoveAtIs
  <1> HIDE DEF rest
  <1>2. ASSUME NEW x \in Card
        PROVE  /\ M!InsertAt(rest, new, x) \in Seq(Card)
               /\ Len(M!InsertAt(rest, new, x)) = n
               /\ \A i \in 1..n: M!InsertAt(rest, new, x)[i] =
                     IF i < new THEN rest[i] ELSE IF i = new THEN x ELSE rest[i - 1]
    <2>1. new \in 1..(Len(rest) + 1) /\ Len(rest) + 1 = n
      BY <1>0, <1>1
    <2>2. QED
      BY <2>1, <1>1, InsertAtIs
  <1>3. /\ moved \in Seq(Card) /\ Len(moved) = n
        /\ \A i \in 1..n: i # new => moved[i] = out[i]
    <2>1. CASE new = old
      <3>1. \A i \in 1..n: i # new => rows[i] = out[i]
        <4>1. ASSUME NEW i \in 1..n, i < new PROVE rows[i] = out[i]
          <5>1. i \in 1..(n - 1) /\ i < old
            BY <4>1, <1>0, <2>1
          <5>2. out[i] = rest[i] /\ rest[i] = rows[i]
            BY <4>1, <5>1, <1>1, <1>2
          <5>3. QED
            BY <5>2
        <4>2. ASSUME NEW i \in 1..n, new < i PROVE rows[i] = out[i]
          <5>1. i - 1 \in 1..(n - 1) /\ ~(i < new) /\ i # new /\ ~(i - 1 < old) /\ (i - 1) + 1 = i
            BY <4>2, <1>0, <2>1
          <5>2. out[i] = rest[i - 1] /\ rest[i - 1] = rows[i]
            BY <5>1, <1>1, <1>2
          <5>3. QED
            BY <5>2
        <4>3. QED
          BY <4>1, <4>2, <1>0
      <3>2. QED
        BY <2>1, <3>1
    <2>2. CASE new # old
      <3>1. moved = M!InsertAt(rest, new, rows[old])
        BY <2>2, <1>0 DEF M!MoveRows, M!Destination, rest
      <3>2. \A i \in 1..n: i # new => M!InsertAt(rest, new, rows[old])[i] = out[i]
        BY <1>0, <1>2
      <3> HIDE DEF moved, out
      <3>3. QED
        BY <3>1, <3>2, <1>0, <1>2
    <2>3. QED
      BY <2>1, <2>2
  <1>4. out \in Seq(Card) /\ Len(out) = n /\ out[new] = row
    BY <1>0, <1>2
  <1> HIDE DEF moved, out, n
  <1>5. /\ view \in Seq(Card) /\ Len(view) = n
        /\ \A i \in 1..n: view[i] = IF i = new THEN row ELSE moved[i]
    BY <1>0, <1>3, ExceptSeq
  <1> HIDE DEF view
  <1>6. \A i \in 1..Len(view): view[i] = out[i]
    BY <1>3, <1>4, <1>5
  <1>7. view = out
    BY <1>4, <1>5, <1>6, SeqEqual
  <1>8. QED
    BY <1>7 DEF view, out, moved, rest

-----------------------------------------------------------------------------
\* Cards: what the model does

\* A model that shows what it has, a card for each key, in order.
Shown == {m \in [rows: Seq(Card), view: Seq(Card)]:
             m.view = m.rows /\ InOrder(m.rows) /\ OneEach(m.rows)}

\* upsert leaves the other cards, and the card with the key of the row is the row.
LEMMA UpsertKeeps ==
    ASSUME NEW m \in Shown, NEW row \in Card
    PROVE  /\ M!Upsert(m, row) \in Shown
           /\ Elems(M!Upsert(m, row).rows) = {r \in Elems(m.rows): r.key # row.key} \cup {row}
  <1> DEFINE rows == m.rows
  <1>0. /\ rows \in Seq(Card) /\ InOrder(rows) /\ OneEach(rows)
        /\ m = [rows |-> rows, view |-> rows]
    BY DEF Shown
  <1> HIDE DEF rows
  <1>1. DOMAIN rows = 1..Len(rows) /\ Len(rows) \in Nat
    BY <1>0
  <1>2. CASE row.key \notin M!Keys(rows)
    <2> DEFINE out == M!InsertAt(rows, M!Position(row, rows), row)
    <2>1. out \in Seq(Card) /\ Elems(out) = Elems(rows) \cup {row} /\ InOrder(out) /\ OneEach(out)
      BY <1>0, <1>2, InsertKeeps
    <2>2. M!Upsert(m, row) = [rows |-> out, view |-> out]
      BY <1>0, <1>2 DEF M!Upsert, M!Insert
    <2> HIDE DEF out
    <2>3. \A r \in Elems(rows): r.key # row.key
      BY <1>2 DEF Elems, M!Keys
    <2>4. QED
      BY <1>0, <2>1, <2>2, <2>3 DEF Shown
  <1>3. CASE row.key \in M!Keys(rows)
    <2> DEFINE old == M!Find(rows, row.key)
    <2>1. old \in 1..Len(rows) /\ rows[old].key = row.key
      BY <1>1, <1>3 DEF M!Keys, M!Find
    <2> HIDE DEF old
    <2>2. CASE rows[old] = row
      <3>1. M!Upsert(m, row) = m
        BY <1>0, <1>3, <2>2 DEF M!Upsert, old
      <3>2. \A r \in Elems(rows): r.key = row.key => r = row
        BY <1>0, <1>1, <2>1, <2>2 DEF Elems, OneEach
      <3>3. row \in Elems(rows)
        BY <1>1, <2>1, <2>2 DEF Elems
      <3>4. QED
        BY <3>1, <3>2, <3>3, <1>0
    <2>3. CASE rows[old] # row
      <3> DEFINE rest == M!RemoveAt(rows, old)
                 new == M!Position(row, rest)
                 out == M!InsertAt(rest, new, row)
                 moved == IF new = old THEN rows ELSE M!MoveRows(rows, old, M!Destination(old, new))
      <3>1. /\ rest \in Seq(Card) /\ InOrder(rest) /\ OneEach(rest)
            /\ Elems(rest) = {r \in Elems(rows): r.key # rows[old].key}
        BY <1>0, <2>1, RemoveKeeps
      <3>2. row.key \notin M!Keys(rest)
        BY <3>1, <2>1 DEF M!Keys, Elems
      <3>3. out \in Seq(Card) /\ Elems(out) = Elems(rest) \cup {row} /\ InOrder(out) /\ OneEach(out)
        BY <3>1, <3>2, InsertKeeps
      <3>4. Len(rest) = Len(rows) - 1 /\ new \in 1..(Len(rest) + 1)
        BY <1>0, <2>1, <3>1, RemoveAtIs, PositionIs
      <3>5. new \in 1..Len(rows)
        BY <3>4, <1>1
      <3>6. [moved EXCEPT ![new] = row] = out
        <4> HIDE DEF new
        <4>1. QED
          BY <1>0, <2>1, <3>5, MovedIs
      <3>7. M!Upsert(m, row) = [rows |-> out, view |-> [moved EXCEPT ![new] = row]]
        BY <1>0, <1>3, <2>3 DEF M!Upsert, M!Change, old
      <3>8. QED
        <4> HIDE DEF out, rest, new, moved
        <4>1. M!Upsert(m, row) = [rows |-> out, view |-> out]
          BY <3>6, <3>7
        <4>2. QED
          BY <4>1, <3>1, <3>3, <2>1, <1>0 DEF Shown
    <2>4. QED
      BY <2>2, <2>3
  <1>4. QED
    BY <1>2, <1>3

\* The first half of sync keeps the cards with a key that is wanted.
LEMMA RemovedKeeps ==
    ASSUME NEW m \in Shown, NEW keep
    PROVE  /\ M!Removed(m, keep) \in Shown
           /\ Elems(M!Removed(m, keep).rows) = {r \in Elems(m.rows): r.key \in keep}
  <1> DEFINE n == Len(m.rows)
             down == Reverse([i \in DOMAIN m.rows |-> i])
             Acc(k) == Drops!Folded(keep, m, SubSeq(down, 1, k))
             \* The cards from i on have been looked at.
             Done(k) == /\ Acc(k) \in Shown
                        /\ \A i \in 1..(n - k): i \in DOMAIN Acc(k).rows /\ Acc(k).rows[i] = m.rows[i]
                        /\ Elems(Acc(k).rows) =
                              {r \in Elems(m.rows): r.key \in keep \/ \E i \in 1..(n - k): m.rows[i] = r}
             S == {k \in Nat: k <= n => Done(k)}
  <1>0. /\ m.rows \in Seq(Card) /\ n \in Nat /\ DOMAIN m.rows = 1..n
        /\ OneEach(m.rows)
    BY DEF Shown
  <1>1. /\ down \in Seq(1..n) /\ Len(down) = n
        /\ \A k \in 1..n: down[k] = n - k + 1
    <2> DEFINE f == [i \in DOMAIN m.rows |-> i]
    <2>1. f = [i \in 1..n |-> i]
      BY <1>0
    <2>2. Len(f) = n /\ \A i \in 1..n: f[i] = i
      BY <1>0, <2>1
    <2> HIDE DEF f, n
    <2>3. Reverse(f) = [i \in 1..n |-> f[(n - i) + 1]]
      BY <2>2 DEF Reverse
    <2>4. \A i \in 1..n: (n - i) + 1 \in 1..n
      BY <1>0
    <2>5. Reverse(f) = [i \in 1..n |-> (n - i) + 1]
      BY <2>2, <2>3, <2>4
    <2>6. Reverse(f) \in [1..n -> 1..n]
      BY <2>4, <2>5
    <2>7. \A g \in [1..n -> 1..n]: g \in Seq(1..n) /\ Len(g) = n
      BY <1>0
    <2>8. \A k \in 1..n: Reverse(f)[k] = (n - k) + 1
      BY <2>5
    <2>9. down = Reverse(f)
      BY DEF f
    <2> HIDE DEF down
    <2>10. QED
      BY <2>6, <2>7, <2>8, <2>9
  <1> HIDE DEF n, down
  <1>2. 0 \in S
    <2>1. Acc(0) = m
      BY Drops!FoldNone
    <2>2. QED
      BY <2>1, <1>0 DEF Elems
  <1>3. ASSUME NEW k \in S PROVE k + 1 \in S
    <2> SUFFICES ASSUME k + 1 <= n PROVE Done(k + 1)
      OBVIOUS
    <2> DEFINE a == Acc(k)
               i == n - k
    <2>1. k \in Nat /\ k <= n /\ k + 1 \in 1..n /\ i \in 1..n /\ i \in 1..(n - k)
          /\ n - (k + 1) = i - 1
      BY <1>0
    <2>2. Done(k)
      BY <2>1
    <2>3. down[k + 1] = i
      <3>1. down[k + 1] = n - (k + 1) + 1
        BY <2>1, <1>1
      <3>2. QED
        BY <2>1, <3>1, <1>0
    <2>4. Acc(k + 1) = KeepStep(keep, a, i)
      BY <2>1, <2>3, <1>1, Drops!FoldPrefix
    <2> HIDE DEF Acc
    <2>5. /\ a \in Shown /\ i \in DOMAIN a.rows /\ a.rows[i] = m.rows[i]
          /\ \A j \in 1..(n - k): j \in DOMAIN a.rows /\ a.rows[j] = m.rows[j]
      BY <2>1, <2>2
    <2>6. /\ a.rows \in Seq(Card) /\ InOrder(a.rows) /\ OneEach(a.rows)
          /\ a = [rows |-> a.rows, view |-> a.rows] /\ i \in 1..Len(a.rows)
      BY <2>5 DEF Shown
    <2>7. CASE m.rows[i].key \in keep
      <3>1. Acc(k + 1) = a
        BY <2>4, <2>5, <2>7 DEF KeepStep, M!Dropped
      <3>2. QED
        BY <3>1, <2>1, <2>2, <2>7
    <2>8. CASE m.rows[i].key \notin keep
      <3> DEFINE out == M!RemoveAt(a.rows, i)
      <3>1. Acc(k + 1) = [rows |-> out, view |-> out]
        BY <2>4, <2>5, <2>6, <2>8 DEF KeepStep, M!Dropped
      <3>2. /\ out \in Seq(Card) /\ InOrder(out) /\ OneEach(out)
            /\ Elems(out) = {r \in Elems(a.rows): r.key # a.rows[i].key}
        BY <2>6, RemoveKeeps
      <3>3. /\ Len(out) = Len(a.rows) - 1
            /\ \A j \in 1..(Len(a.rows) - 1): out[j] = IF j < i THEN a.rows[j] ELSE a.rows[j + 1]
        BY <2>6, RemoveAtIs
      <3> HIDE DEF out
      <3>4. ASSUME NEW j \in 1..(n - (k + 1)) PROVE j \in DOMAIN out /\ out[j] = m.rows[j]
        <4>1. j < i /\ j \in 1..(n - k) /\ j \in 1..(Len(a.rows) - 1)
          BY <2>1, <2>6
        <4>2. QED
          BY <4>1, <2>5, <3>2, <3>3
      <3>5. Elems(out) = {r \in Elems(m.rows):
                             r.key \in keep \/ \E j \in 1..(n - (k + 1)): m.rows[j] = r}
        <4>1. \A r \in Elems(m.rows): r.key = m.rows[i].key => r = m.rows[i]
          BY <1>0, <2>1 DEF Elems, OneEach
        <4>2. \A r: (\E j \in 1..(n - k): m.rows[j] = r) <=>
                    (\E j \in 1..(n - (k + 1)): m.rows[j] = r) \/ r = m.rows[i]
          BY <2>1
        <4>3. \A j \in 1..(n - (k + 1)): m.rows[j].key # m.rows[i].key
          BY <1>0, <2>1 DEF OneEach
        <4>4. Elems(out) = {r \in Elems(m.rows):
                 /\ r.key \in keep \/ \E j \in 1..(n - k): m.rows[j] = r
                 /\ r.key # m.rows[i].key}
          BY <2>2, <2>5, <3>2
        <4>5. ASSUME NEW r \in Elems(m.rows)
              PROVE  /\ r.key \in keep \/ \E j \in 1..(n - k): m.rows[j] = r
                     /\ r.key # m.rows[i].key
                     <=> r.key \in keep \/ \E j \in 1..(n - (k + 1)): m.rows[j] = r
          <5>1. CASE r = m.rows[i]
            BY <5>1, <4>3, <2>8
          <5>2. CASE r # m.rows[i]
            BY <5>2, <4>1, <4>2
          <5>3. QED
            BY <5>1, <5>2
        <4>6. QED
          BY <4>4, <4>5
      <3>6. Acc(k + 1) \in Shown
        BY <3>1, <3>2 DEF Shown
      <3>7. Acc(k + 1).rows = out
        BY <3>1
      <3>8. QED
        BY <3>4, <3>5, <3>6, <3>7
    <2>9. QED
      BY <2>7, <2>8
  <1> HIDE DEF S
  <1>4. S = Nat
    <2>1. S \in SUBSET Nat
      BY DEF S
    <2>2. QED
      BY <1>2, <1>3, <2>1, Drops!Induction
  <1>5. Done(n)
    BY <1>0, <1>4 DEF S
  <1>6. Acc(n) = M!Removed(m, keep)
    BY <1>1, Drops!FoldAll, RemovedIs DEF down
  <1>7. QED
    BY <1>5, <1>6, <1>0

\* sync makes the model hold exactly the cards it is given.
LEMMA SyncKeeps ==
    ASSUME NEW m \in Shown, NEW all \in Seq(Card), OneEach(all)
    PROVE  M!Sync(m, all) \in Shown /\ Elems(M!Sync(m, all).rows) = Elems(all)
  <1> DEFINE n == Len(all)
             start == M!Removed(m, M!Keys(all))
             Acc(k) == Upserts!Folded(0, start, SubSeq(all, 1, k))
             Done(k) == /\ Acc(k) \in Shown
                        /\ \A r \in Elems(Acc(k).rows): r.key \in M!Keys(all)
                        /\ \A i \in 1..k: all[i] \in Elems(Acc(k).rows)
             S == {k \in Nat: k <= n => Done(k)}
  <1>0. n \in Nat /\ DOMAIN all = 1..n /\ \A i \in 1..n: all[i] \in Card
    OBVIOUS
  <1> HIDE DEF n, start
  <1>1. 0 \in S
    <2>1. Acc(0) = start
      BY Upserts!FoldNone
    <2>2. start \in Shown /\ \A r \in Elems(start.rows): r.key \in M!Keys(all)
      BY RemovedKeeps DEF start
    <2>3. QED
      BY <2>1, <2>2
  <1>2. ASSUME NEW k \in S PROVE k + 1 \in S
    <2> SUFFICES ASSUME k + 1 <= n PROVE Done(k + 1)
      OBVIOUS
    <2> DEFINE a == Acc(k)
               x == all[k + 1]
    <2>1. k \in Nat /\ k <= n /\ k + 1 \in 1..n
      BY <1>0
    <2>2. Done(k)
      BY <2>1
    <2>3. Acc(k + 1) = UpsertStep(0, a, x)
      BY <2>1, Upserts!FoldPrefix DEF n
    <2> HIDE DEF Acc
    <2>4. Acc(k + 1) = M!Upsert(a, x)
      BY <2>3 DEF UpsertStep
    <2>5. x \in Card /\ x.key \in M!Keys(all)
      BY <1>0, <2>1 DEF M!Keys
    <2>6. /\ Acc(k + 1) \in Shown
          /\ Elems(Acc(k + 1).rows) = {r \in Elems(a.rows): r.key # x.key} \cup {x}
      <3>1. a \in Shown
        BY <2>2
      <3> HIDE DEF a, x
      <3>2. /\ M!Upsert(a, x) \in Shown
            /\ Elems(M!Upsert(a, x).rows) = {r \in Elems(a.rows): r.key # x.key} \cup {x}
        BY <2>5, <3>1, UpsertKeeps
      <3>3. QED
        BY <2>4, <3>2
    <2>7. ASSUME NEW i \in 1..(k + 1) PROVE all[i] \in Elems(Acc(k + 1).rows)
      <3>1. CASE i = k + 1
        BY <3>1, <2>6
      <3>2. CASE i # k + 1
        <4>1. i \in 1..k /\ i \in DOMAIN all /\ k + 1 \in DOMAIN all
          BY <3>2, <2>1, <1>0
        <4>2. all[i].key # x.key
          BY <3>2, <4>1 DEF OneEach
        <4>3. QED
          BY <4>1, <4>2, <2>2, <2>6
      <3>3. QED
        BY <3>1, <3>2
    <2>8. QED
      BY <2>2, <2>5, <2>6, <2>7
  <1> HIDE DEF S
  <1>3. S = Nat
    <2>1. S \in SUBSET Nat
      BY DEF S
    <2>2. QED
      BY <1>1, <1>2, <2>1, Upserts!Induction
  <1>4. Done(n)
    BY <1>0, <1>3 DEF S
  <1>5. Acc(n) = M!Sync(m, all)
    BY Upserts!FoldAll, SyncIs DEF n, start
  <1> HIDE DEF Acc
  <1>6. Elems(Acc(n).rows) = Elems(all)
    <2>1. OneEach(Acc(n).rows)
      BY <1>4 DEF Shown
    <2>2. Elems(all) \subseteq Elems(Acc(n).rows)
      BY <1>0, <1>4 DEF Elems
    <2>3. ASSUME NEW r \in Elems(Acc(n).rows) PROVE r \in Elems(all)
      <3>1. PICK i \in 1..n: all[i].key = r.key
        BY <1>0, <1>4 DEF M!Keys
      <3>2. all[i] \in Elems(Acc(n).rows)
        BY <1>4
      <3>3. all[i] = r
        BY <2>1, <3>1, <3>2 DEF Elems, OneEach
      <3>4. QED
        BY <1>0, <3>3 DEF Elems
    <2>4. QED
      BY <2>2, <2>3
  <1>7. QED
    BY <1>4, <1>5, <1>6

\* sorted has the same cards, in order.
LEMMA OrderedKeeps ==
    ASSUME NEW all \in Seq(Card), OneEach(all)
    PROVE  /\ M!Ordered(all) \in Seq(Card) /\ Elems(M!Ordered(all)) = Elems(all)
           /\ InOrder(M!Ordered(all)) /\ OneEach(M!Ordered(all))
  <1> DEFINE n == Len(all)
             Acc(k) == Places!Folded(0, <<>>, SubSeq(all, 1, k))
             Done(k) == /\ Acc(k) \in Seq(Card) /\ InOrder(Acc(k)) /\ OneEach(Acc(k))
                        /\ Elems(Acc(k)) = {all[i]: i \in 1..k}
             S == {k \in Nat: k <= n => Done(k)}
  <1>0. n \in Nat /\ DOMAIN all = 1..n /\ \A i \in 1..n: all[i] \in Card
    OBVIOUS
  <1> HIDE DEF n
  <1>1. 0 \in S
    <2>1. Acc(0) = <<>>
      BY Places!FoldNone
    <2>2. InOrder(<<>>) /\ OneEach(<<>>) /\ Elems(<<>>) = {} /\ <<>> \in Seq(Card)
      BY DEF InOrder, OneEach, Elems
    <2>3. {all[i]: i \in 1..0} = {}
      OBVIOUS
    <2> HIDE DEF Acc
    <2>4. QED
      BY <2>1, <2>2, <2>3
  <1>2. ASSUME NEW k \in S PROVE k + 1 \in S
    <2> SUFFICES ASSUME k + 1 <= n PROVE Done(k + 1)
      OBVIOUS
    <2> DEFINE a == Acc(k)
               x == all[k + 1]
    <2>1. k \in Nat /\ k <= n /\ k + 1 \in 1..n
      BY <1>0
    <2>2. Done(k)
      BY <2>1
    <2>3. Acc(k + 1) = PlaceStep(0, a, x)
      BY <2>1, Places!FoldPrefix DEF n
    <2> HIDE DEF Acc
    <2>4. Acc(k + 1) = M!InsertAt(a, M!Position(x, a), x)
      BY <2>3 DEF PlaceStep, M!Placed
    <2>5. x \notin Elems(a) /\ x.key \notin M!Keys(a)
      <3>1. \A i \in 1..k: all[i].key # x.key
        BY <2>1, <1>0 DEF OneEach
      <3>2. QED
        BY <3>1, <2>2 DEF M!Keys, Elems
    <2>6. /\ Acc(k + 1) \in Seq(Card) /\ Elems(Acc(k + 1)) = Elems(a) \cup {x}
          /\ InOrder(Acc(k + 1)) /\ OneEach(Acc(k + 1))
      BY <1>0, <2>1, <2>2, <2>4, <2>5, InsertKeeps
    <2>7. 1..(k + 1) = 1..k \cup {k + 1}
      BY <2>1
    <2>8. QED
      BY <2>2, <2>6, <2>7
  <1> HIDE DEF S
  <1>3. S = Nat
    <2>1. S \in SUBSET Nat
      BY DEF S
    <2>2. QED
      BY <1>1, <1>2, <2>1, Places!Induction
  <1>4. Done(n)
    BY <1>0, <1>3 DEF S
  <1>5. Acc(n) = M!Ordered(all)
    BY Places!FoldAll, OrderedIs DEF n
  <1>6. QED
    BY <1>0, <1>4, <1>5 DEF Elems

\* reset shows the cards it is given.
LEMMA ResetKeeps ==
    ASSUME NEW all \in Seq(Card), OneEach(all)
    PROVE  M!Reset(all) \in Shown /\ Elems(M!Reset(all).rows) = Elems(all)
  BY OrderedKeeps DEF M!Reset, Shown

-----------------------------------------------------------------------------
\* Cards: group_messages

Rows == [Id -> Row \cup {NoRow}]

\* The first k rows that there are.
Seen(rows, k) == {i \in 1..k: rows[i] # NoRow}

\* A card is what its rows say.
CardSays(rows, c) ==
    /\ c \in Card /\ c.kind = "aprs"
    /\ c.key[1] = "a" /\ c.key[2] \in c.parts
    /\ c.last \in c.parts
    /\ \A i \in c.parts: /\ i <= c.last
                         /\ rows[i].peer = c.peer /\ rows[i].dir = c.dir
    /\ c.near = rows[c.last].near /\ c.ts = rows[c.last].ts
    /\ c.read = \A i \in c.parts: rows[i].read

\* Two rows of a peer with none of it between them; and the second goes on with the text of the first.
NextTo(rows, i, j) ==
    /\ i < j /\ rows[i].peer = rows[j].peer
    /\ ~\E k \in (i + 1)..(j - 1): rows[k] # NoRow /\ rows[k].peer = rows[i].peer

OnWith(rows, i, j) ==
    /\ rows[i].dir = "in" /\ rows[j].dir = "in" /\ rows[i].near
    /\ rows[j].ts - rows[i].ts \in 0..WindowS

\* The cards cs are those of the first k rows.
GroupedTo(rows, k, cs) ==
    /\ cs \in Seq(Card)
    /\ \A c \in DOMAIN cs: CardSays(rows, cs[c]) /\ cs[c].parts \subseteq Seen(rows, k)
    /\ \A i \in Seen(rows, k): \E c \in DOMAIN cs: i \in cs[c].parts
    /\ \A c, d \in DOMAIN cs: \A i: i \in cs[c].parts /\ i \in cs[d].parts => c = d
    /\ \A c, d \in DOMAIN cs: c < d /\ cs[c].peer = cs[d].peer =>
          \A i \in cs[c].parts, j \in cs[d].parts: i < j
    /\ \A i, j \in Seen(rows, k): NextTo(rows, i, j) =>
          ((\E c \in DOMAIN cs: i \in cs[c].parts /\ j \in cs[c].parts) <=> OnWith(rows, i, j))

\* The card that a row of a peer goes on with, if any: the last one of the peer.
OpenFor(cs, peer) == SelectLastInSeq(cs, LAMBDA c: c.peer = peer)

LEMMA OpenIs ==
    ASSUME NEW cs \in Seq(Card), NEW peer
    PROVE  LET open == OpenFor(cs, peer)
           IN  \/ open = 0 /\ \A c \in DOMAIN cs: cs[c].peer # peer
               \/ /\ open \in DOMAIN cs /\ cs[open].peer = peer
                  /\ \A c \in DOMAIN cs: cs[c].peer = peer => c <= open
  <1> DEFINE T == {i \in 1..Len(cs): cs[i].peer = peer}
             open == OpenFor(cs, peer)
  <1>1. open = IF T # {} THEN Max(T) ELSE 0
    BY DEF OpenFor, SelectLastInSeq
  <1>2. DOMAIN cs = 1..Len(cs) /\ Len(cs) \in Nat
    OBVIOUS
  <1>3. CASE T = {}
    BY <1>1, <1>2, <1>3
  <1>4. CASE T # {}
    <2>1. T \in SUBSET (1..Len(cs))
      OBVIOUS
    <2> HIDE DEF T
    <2>2. \E m \in T: \A k \in T: k <= m
      BY <1>2, <1>4, <2>1, Groups!Greatest
    <2>3. \E m \in T: \A k \in T: m >= k
      BY <1>2, <2>1, <2>2
    <2>4. Max(T) \in T /\ \A k \in T: Max(T) >= k
      BY <2>3 DEF Max
    <2>5. Max(T) \in 1..Len(cs) /\ \A k \in T: k <= Max(T)
      BY <2>1, <2>4
    <2>6. QED
      BY <1>1, <1>2, <1>4, <2>4, <2>5 DEF T
  <1>5. QED
    BY <1>3, <1>4

\* A row that there is.
LEMMA RowIs ==
    ASSUME CardsConstants, NEW rows \in Rows, NEW i \in Id, rows[i] # NoRow
    PROVE  /\ rows[i] \in Row /\ rows[i].dir \in {"in", "out"} /\ rows[i].peer \in Peers
           /\ rows[i].near \in BOOLEAN /\ rows[i].ts \in Nat /\ rows[i].read \in BOOLEAN
  <1>1. rows[i] \in Row
    BY DEF Rows
  <1>2. Times \subseteq Nat
    BY DEF CardsConstants
  <1>3. QED
    BY <1>1, <1>2 DEF Row

\* What is left to show when row j of a peer has got its card, q.
LEMMA GroupOne ==
    ASSUME NEW rows, NEW k \in Nat, NEW cs, NEW out \in Seq(Card), NEW q \in DOMAIN out,
           GroupedTo(rows, k, cs),
           Seen(rows, k + 1) = Seen(rows, k) \cup {k + 1},
           \A i \in Seen(rows, k): i < k + 1,
           \A c \in DOMAIN out: c # q => c \in DOMAIN cs /\ out[c] = cs[c],
           \A c \in DOMAIN cs: c \in DOMAIN out,
           CardSays(rows, out[q]), out[q].peer = rows[k + 1].peer,
           out[q].parts = {k + 1} \cup (IF q \in DOMAIN cs THEN cs[q].parts ELSE {}),
           q \in DOMAIN cs => cs[q].peer = rows[k + 1].peer,
           \A c \in DOMAIN cs: cs[c].peer = rows[k + 1].peer => c <= q,
           \A i \in Seen(rows, k): NextTo(rows, i, k + 1) =>
              ((q \in DOMAIN cs /\ i \in cs[q].parts) <=> OnWith(rows, i, k + 1))
    PROVE  GroupedTo(rows, k + 1, out)
  <1> DEFINE j == k + 1
             S == Seen(rows, k)
  <1>0. /\ \A i \in S: i \in Nat /\ i < j
        /\ j \notin S /\ j \in Nat /\ S \subseteq Nat
        /\ \A c \in DOMAIN cs: cs[c].parts \subseteq S
    BY DEF Seen, GroupedTo
  <1>1. DOMAIN out \subseteq Nat
    OBVIOUS
  <1> HIDE DEF S, j
  <1>2. \A c \in DOMAIN out: \A i:
           i \in out[c].parts <=> (c \in DOMAIN cs /\ i \in cs[c].parts) \/ (c = q /\ i = j)
    BY <1>0 DEF j
  <1>3. \A c \in DOMAIN out: CardSays(rows, out[c]) /\ out[c].parts \subseteq S \cup {j}
    <2>1. ASSUME NEW c \in DOMAIN out PROVE CardSays(rows, out[c])
      BY DEF GroupedTo
    <2>2. QED
      BY <2>1, <1>0, <1>2
  <1>4. \A i \in S \cup {j}: \E c \in DOMAIN out: i \in out[c].parts
    <2>1. ASSUME NEW i \in S PROVE \E c \in DOMAIN out: i \in out[c].parts
      <3>1. PICK c \in DOMAIN cs: i \in cs[c].parts
        BY DEF GroupedTo, S
      <3>2. QED
        BY <3>1, <1>2
    <2>2. QED
      BY <2>1, <1>2
  <1>5. ASSUME NEW c \in DOMAIN out, NEW d \in DOMAIN out, NEW i, i \in out[c].parts, i \in out[d].parts
        PROVE  c = d
    <2>1. CASE i = j
      BY <2>1, <1>0, <1>2, <1>5
    <2>2. CASE i # j
      BY <2>2, <1>2, <1>5 DEF GroupedTo
    <2>3. QED
      BY <2>1, <2>2
  <1>6. ASSUME NEW c \in DOMAIN out, NEW d \in DOMAIN out, c < d, out[c].peer = out[d].peer,
               NEW i \in out[c].parts, NEW l \in out[d].parts
        PROVE  i < l
    <2>1. CASE l = j
      <3>1. i # j
        BY <2>1, <1>1, <1>5, <1>6
      <3>2. i \in S
        BY <3>1, <1>0, <1>2
      <3>3. QED
        BY <2>1, <3>2, <1>0
    <2>2. CASE i = j
      <3>1. c = q
        BY <2>2, <1>0, <1>2
      <3>2. d # q /\ d \in DOMAIN cs /\ cs[d] = out[d] /\ cs[d].peer = rows[k + 1].peer
        BY <3>1, <1>1, <1>6
      <3>3. d <= q
        BY <3>2
      <3>4. QED
        BY <3>1, <3>3, <1>1, <1>6
    <2>3. CASE i # j /\ l # j
      <3>1. c \in DOMAIN cs /\ d \in DOMAIN cs /\ i \in cs[c].parts /\ l \in cs[d].parts
        BY <2>3, <1>2
      <3>2. cs[c].peer = out[c].peer /\ cs[d].peer = out[d].peer
        BY <3>1
      <3>3. QED
        BY <3>1, <3>2, <1>6 DEF GroupedTo
    <2>4. QED
      BY <2>1, <2>2, <2>3
  <1>7. ASSUME NEW i \in S \cup {j}, NEW l \in S \cup {j}, NextTo(rows, i, l)
        PROVE  (\E c \in DOMAIN out: i \in out[c].parts /\ l \in out[c].parts) <=> OnWith(rows, i, l)
    <2>1. i < l /\ i # j /\ i \in S
      BY <1>0, <1>7 DEF NextTo
    <2>2. CASE l = j
      <3>1. (q \in DOMAIN cs /\ i \in cs[q].parts) <=> OnWith(rows, i, j)
        BY <2>1, <2>2, <1>7 DEF S, j
      <3>2. (\E c \in DOMAIN out: i \in out[c].parts /\ j \in out[c].parts) <=>
               (q \in DOMAIN cs /\ i \in cs[q].parts)
        BY <2>1, <1>0, <1>2
      <3>3. QED
        BY <2>2, <3>1, <3>2
    <2>3. CASE l # j
      <3>1. l \in S
        BY <2>3
      <3>2. (\E c \in DOMAIN cs: i \in cs[c].parts /\ l \in cs[c].parts) <=> OnWith(rows, i, l)
        BY <2>1, <3>1, <1>7 DEF GroupedTo, S
      <3>3. (\E c \in DOMAIN out: i \in out[c].parts /\ l \in out[c].parts) <=>
               (\E c \in DOMAIN cs: i \in cs[c].parts /\ l \in cs[c].parts)
        BY <2>1, <2>3, <1>2
      <3>4. QED
        BY <3>2, <3>3
    <2>4. QED
      BY <2>2, <2>3
  <1>8. Seen(rows, k + 1) = S \cup {j}
    BY DEF S, j
  <1>9. QED
    BY <1>3, <1>4, <1>5, <1>6, <1>7, <1>8 DEF GroupedTo

\* A row more.
LEMMA GroupStep ==
    ASSUME CardsConstants, NEW rows \in Rows, NEW k \in Nat, k + 1 <= MaxId,
           NEW cs, GroupedTo(rows, k, cs)
    PROVE  GroupedTo(rows, k + 1, Grouped(rows, cs, k + 1))
  <1> DEFINE j == k + 1
             m == rows[j]
             open == OpenFor(cs, m.peer)
             out == Grouped(rows, cs, j)
             new == CardOf(j, m)
             more == Joined(cs[open], j, m)
  <1>0. /\ j \in Nat /\ j \in Id /\ cs \in Seq(Card) /\ DOMAIN cs = 1..Len(cs) /\ Len(cs) \in Nat
        /\ \A c \in DOMAIN cs: cs[c] \in Card
    BY DEF GroupedTo, Id, CardsConstants
  <1>1. CASE m = NoRow
    <2>1. out = cs
      BY <1>1 DEF Grouped
    <2>2. Seen(rows, j) = Seen(rows, k)
      BY <1>0, <1>1 DEF Seen
    <2>3. QED
      BY <2>1, <2>2 DEF GroupedTo
  <1>2. CASE m # NoRow
    <2>1. /\ m \in Row /\ m.dir \in {"in", "out"} /\ m.peer \in Peers
          /\ m.near \in BOOLEAN /\ m.ts \in Nat /\ m.read \in BOOLEAN
      BY <1>0, <1>2, RowIs
    <2>2. /\ Seen(rows, j) = Seen(rows, k) \cup {j}
          /\ \A i \in Seen(rows, k): i \in Nat /\ i <= k /\ i < j
      BY <1>0, <1>2 DEF Seen
    <2>3. \/ open = 0 /\ \A c \in DOMAIN cs: cs[c].peer # m.peer
          \/ /\ open \in DOMAIN cs /\ cs[open].peer = m.peer
             /\ \A c \in DOMAIN cs: cs[c].peer = m.peer => c <= open
      BY <1>0, OpenIs
    <2>4. out = IF open # 0 /\ Continues(cs[open], m) THEN [cs EXCEPT ![open] = more]
                ELSE Append(cs, new)
      BY <1>2 DEF Grouped, OpenFor
    <2> HIDE DEF open, out
    \* The open card has the row before.
    <2>5. ASSUME NEW i \in Seen(rows, k), rows[i].peer = m.peer
          PROVE  /\ open \in DOMAIN cs
                 /\ i <= cs[open].last
                 /\ NextTo(rows, i, j) => i = cs[open].last
      <3>1. PICK c \in DOMAIN cs: i \in cs[c].parts
        BY DEF GroupedTo
      <3>2. cs[c].peer = m.peer
        <4>1. CardSays(rows, cs[c])
          BY DEF GroupedTo
        <4>2. QED
          BY <3>1, <4>1, <2>5 DEF CardSays
      <3>3. open \in DOMAIN cs /\ cs[open].peer = m.peer /\ c <= open
        BY <2>3, <3>2
      <3>4. CardSays(rows, cs[open]) /\ cs[open].parts \subseteq Seen(rows, k)
        BY <3>3 DEF GroupedTo
      <3>5. cs[open].last \in cs[open].parts /\ cs[open].last \in Seen(rows, k)
        BY <3>4 DEF CardSays
      <3>6. i <= cs[open].last
        <4>1. CASE c = open
          BY <4>1, <3>1, <3>4 DEF CardSays
        <4>2. CASE c # open
          <5>1. c < open
            BY <4>2, <3>3, <1>0
          <5>2. i < cs[open].last
            BY <5>1, <3>1, <3>2, <3>3, <3>5 DEF GroupedTo
          <5>3. QED
            BY <5>2, <3>5, <2>2
        <4>3. QED
          BY <4>1, <4>2
      <3>7. ASSUME NextTo(rows, i, j), i # cs[open].last PROVE FALSE
        <4> DEFINE l == cs[open].last
        <4>1. l \in (i + 1)..(j - 1)
          BY <3>5, <3>6, <3>7, <2>2
        <4>2. rows[l] # NoRow /\ rows[l].peer = m.peer
          BY <3>3, <3>4, <3>5 DEF CardSays, Seen
        <4>3. QED
          BY <4>1, <4>2, <3>7, <2>5 DEF NextTo
      <3>8. QED
        BY <3>3, <3>6, <3>7
    \* It goes on exactly when the row before does.
    <2>6. ASSUME open \in DOMAIN cs, NEW i, i = cs[open].last
          PROVE  Continues(cs[open], m) <=> OnWith(rows, i, j)
      <3>1. CardSays(rows, cs[open])
        BY <2>6 DEF GroupedTo
      <3>2. rows[i].dir = cs[open].dir /\ rows[i].near = cs[open].near /\ rows[i].ts = cs[open].ts
        BY <2>6, <3>1 DEF CardSays
      <3>3. QED
        BY <3>2 DEF Continues, OnWith
    <2>7. CASE open # 0 /\ Continues(cs[open], m)
      <3> DEFINE o == cs[open]
      <3>1. open \in DOMAIN cs /\ o.peer = m.peer /\ \A c \in DOMAIN cs: cs[c].peer = m.peer => c <= open
        BY <2>3, <2>7
      <3>2. o \in Card /\ CardSays(rows, o) /\ o.parts \subseteq Seen(rows, k)
        BY <3>1, <1>0 DEF GroupedTo
      <3>3. o.dir = "in" /\ m.dir = "in"
        BY <2>7 DEF Continues
      <3>4. /\ more \in Card
            /\ more = [o EXCEPT !.parts = o.parts \cup {j}, !.near = m.near, !.last = j,
                                !.ts = m.ts, !.read = o.read /\ m.read]
        BY ZenonT(60), <3>2, <2>1, <1>0 DEF Joined, Card
      <3>5. /\ more.kind = o.kind /\ more.key = o.key /\ more.peer = o.peer /\ more.dir = o.dir
            /\ more.parts = o.parts \cup {j} /\ more.near = m.near /\ more.last = j
            /\ more.ts = m.ts /\ more.read = (o.read /\ m.read)
        BY <3>2, <3>4 DEF Card
      <3>6. CardSays(rows, more)
        <4>1. \A i \in more.parts: i <= j /\ rows[i].peer = o.peer /\ rows[i].dir = o.dir
          BY <3>1, <3>2, <3>3, <3>5, <2>2, <1>0 DEF CardSays
        <4>2. more.read = \A i \in more.parts: rows[i].read
          BY <3>2, <3>5 DEF CardSays
        <4>3. QED
          BY <4>1, <4>2, <3>2, <3>4, <3>5 DEF CardSays
      <3>7. /\ out \in Seq(Card) /\ DOMAIN out = DOMAIN cs
            /\ \A c \in DOMAIN cs: out[c] = IF c = open THEN more ELSE cs[c]
        BY <2>4, <2>7, <3>1, <3>4, <1>0, ExceptSeq
      <3>8. \A i \in Seen(rows, k): NextTo(rows, i, j) => (i \in o.parts <=> OnWith(rows, i, j))
        <4>1. o.last \in o.parts
          BY <3>2 DEF CardSays
        <4>2. QED
          BY <4>1, <2>5, <2>6, <2>7, <3>1 DEF NextTo
      <3>9. QED
        <4>1. /\ GroupedTo(rows, k, cs) /\ Seen(rows, k + 1) = Seen(rows, k) \cup {k + 1}
              /\ \A i \in Seen(rows, k): i < k + 1
          BY <2>2
        <4>2. /\ open \in DOMAIN out /\ out[open] = more
              /\ \A c \in DOMAIN out: c # open => c \in DOMAIN cs /\ out[c] = cs[c]
              /\ \A c \in DOMAIN cs: c \in DOMAIN out
          BY <3>1, <3>7
        <4>3. /\ CardSays(rows, out[open]) /\ out[open].peer = rows[k + 1].peer
              /\ out[open].parts = {k + 1} \cup (IF open \in DOMAIN cs THEN cs[open].parts ELSE {})
          BY <3>1, <3>5, <3>6, <4>2
        <4>4. /\ open \in DOMAIN cs => cs[open].peer = rows[k + 1].peer
              /\ \A c \in DOMAIN cs: cs[c].peer = rows[k + 1].peer => c <= open
              /\ \A i \in Seen(rows, k): NextTo(rows, i, k + 1) =>
                    ((open \in DOMAIN cs /\ i \in cs[open].parts) <=> OnWith(rows, i, k + 1))
          BY <3>1, <3>8
        <4> HIDE DEF more, j, m, o
        <4>5. GroupedTo(rows, k + 1, out)
          BY <3>7, <4>1, <4>2, <4>3, <4>4, GroupOne
        <4>6. QED
          BY <4>5 DEF out, j
    <2>8. CASE ~(open # 0 /\ Continues(cs[open], m))
      <3> DEFINE n == Len(cs) + 1
      <3>1. new \in Card
        BY <2>1, <1>0 DEF CardOf, Card
      <3>2. CardSays(rows, new) /\ new.peer = m.peer /\ new.parts = {j}
        <4>1. /\ new.kind = "aprs" /\ new.key = <<"a", j>> /\ new.peer = m.peer /\ new.dir = m.dir
              /\ new.parts = {j} /\ new.near = m.near /\ new.last = j
              /\ new.ts = m.ts /\ new.read = m.read
          BY DEF CardOf
        <4> HIDE DEF new
        <4>2. new.key[1] = "a" /\ new.key[2] = j
          BY <4>1
        <4>3. \A i \in new.parts: i <= j /\ rows[i].peer = m.peer /\ rows[i].dir = m.dir
          BY <4>1, <1>0
        <4>4. new.read = \A i \in new.parts: rows[i].read
          <5>1. new.read = rows[j].read /\ rows[j].read \in BOOLEAN
            BY <2>1, <4>1
          <5>2. QED
            BY <4>1, <5>1
        <4>5. QED
          BY <3>1, <4>1, <4>2, <4>3, <4>4 DEF CardSays
      <3>3. /\ out \in Seq(Card) /\ DOMAIN out = 1..n /\ out[n] = new
            /\ \A c \in DOMAIN cs: out[c] = cs[c]
        BY <2>4, <2>8, <3>1, <1>0, AppendProperties
      <3>4. n \notin DOMAIN cs /\ n \in 1..n /\ DOMAIN cs = (1..n) \ {n} /\ \A c \in DOMAIN cs: c <= n
        BY <1>0
      <3>5. \A i \in Seen(rows, k): NextTo(rows, i, j) => ~OnWith(rows, i, j)
        <4> SUFFICES ASSUME NEW i \in Seen(rows, k), NextTo(rows, i, j) PROVE ~OnWith(rows, i, j)
          OBVIOUS
        <4>1. rows[i].peer = m.peer
          BY DEF NextTo
        <4>2. open \in DOMAIN cs /\ i = cs[open].last
          BY <4>1, <2>5
        <4>3. open # 0
          BY <4>2, <1>0
        <4>4. QED
          BY <4>2, <4>3, <2>6, <2>8
      <3>6. QED
        <4>1. /\ GroupedTo(rows, k, cs) /\ Seen(rows, k + 1) = Seen(rows, k) \cup {k + 1}
              /\ \A i \in Seen(rows, k): i < k + 1
          BY <2>2
        <4>2. /\ n \in DOMAIN out /\ out[n] = new
              /\ \A c \in DOMAIN out: c # n => c \in DOMAIN cs /\ out[c] = cs[c]
              /\ \A c \in DOMAIN cs: c \in DOMAIN out
          BY <3>3, <3>4
        <4>3. /\ CardSays(rows, out[n]) /\ out[n].peer = rows[k + 1].peer
              /\ out[n].parts = {k + 1} \cup (IF n \in DOMAIN cs THEN cs[n].parts ELSE {})
          BY <3>2, <3>4, <4>2
        <4>4. /\ n \in DOMAIN cs => cs[n].peer = rows[k + 1].peer
              /\ \A c \in DOMAIN cs: cs[c].peer = rows[k + 1].peer => c <= n
              /\ \A i \in Seen(rows, k): NextTo(rows, i, k + 1) =>
                    ((n \in DOMAIN cs /\ i \in cs[n].parts) <=> OnWith(rows, i, k + 1))
          BY <3>4, <3>5
        <4> HIDE DEF new, j, m, n
        <4>5. GroupedTo(rows, k + 1, out)
          BY <3>3, <4>1, <4>2, <4>3, <4>4, GroupOne
        <4>6. QED
          BY <4>5 DEF out, j
    <2>9. QED
      BY <2>7, <2>8
  <1>3. QED
    BY <1>1, <1>2

\* The positions of a sequence.
LEMMA CountIs ==
    ASSUME NEW n \in Nat, NEW rows, DOMAIN rows = 1..n
    PROVE  LET ids == [i \in DOMAIN rows |-> i]
           IN  ids \in Seq(1..n) /\ Len(ids) = n /\ \A i \in 1..n: ids[i] = i
  OBVIOUS

\* All rows.
LEMMA GroupAll ==
    ASSUME CardsConstants, NEW rows \in Rows
    PROVE  GroupedTo(rows, MaxId, Groups!Folded(rows, <<>>, [i \in DOMAIN rows |-> i]))
  <1> DEFINE ids == [i \in DOMAIN rows |-> i]
             Acc(k) == Groups!Folded(rows, <<>>, SubSeq(ids, 1, k))
             S == {k \in Nat: k <= MaxId => GroupedTo(rows, k, Acc(k))}
  <1>0. MaxId \in Nat /\ DOMAIN rows = 1..MaxId
    BY DEF CardsConstants, Rows, Id
  <1>1. ids \in Seq(1..MaxId) /\ Len(ids) = MaxId /\ \A i \in 1..MaxId: ids[i] = i
    BY <1>0, CountIs
  <1> HIDE DEF ids
  <1>2. 0 \in S
    <2>1. Acc(0) = <<>>
      BY Groups!FoldNone
    <2>2. Seen(rows, 0) = {}
      BY DEF Seen
    <2>3. GroupedTo(rows, 0, <<>>)
      BY <2>2 DEF GroupedTo
    <2> HIDE DEF Acc
    <2>4. QED
      BY <2>1, <2>3
  <1>3. ASSUME NEW k \in S PROVE k + 1 \in S
    <2> SUFFICES ASSUME k + 1 <= MaxId PROVE GroupedTo(rows, k + 1, Acc(k + 1))
      OBVIOUS
    <2>1. k \in Nat /\ k <= MaxId /\ k + 1 \in 1..MaxId
      BY <1>0
    <2>2. GroupedTo(rows, k, Acc(k))
      BY <2>1
    <2>3. Acc(k + 1) = Grouped(rows, Acc(k), k + 1)
      BY <2>1, <1>1, Groups!FoldPrefix
    <2> HIDE DEF Acc
    <2>4. QED
      BY <2>1, <2>2, <2>3, GroupStep
  <1> HIDE DEF S
  <1>4. S = Nat
    <2>1. S \in SUBSET Nat
      BY DEF S
    <2>2. QED
      BY <1>2, <1>3, <2>1, Groups!Induction
  <1>5. GroupedTo(rows, MaxId, Acc(MaxId))
    BY <1>0, <1>4 DEF S
  <1>6. QED
    BY <1>1, <1>5, Groups!FoldAll DEF ids

\* Sorting by the last part keeps the cards.
LEMMA LastKeeps ==
    ASSUME NEW all \in Seq(Card), OneEach(all)
    PROVE  LET out == ByLast!Ordered(all)
           IN  out \in Seq(Card) /\ Elems(out) = Elems(all) /\ OneEach(out)
  <1> DEFINE n == Len(all)
             Acc(k) == Lasts!Folded(0, <<>>, SubSeq(all, 1, k))
             Done(k) == /\ Acc(k) \in Seq(Card) /\ OneEach(Acc(k))
                        /\ Elems(Acc(k)) = {all[i]: i \in 1..k}
             S == {k \in Nat: k <= n => Done(k)}
  <1>0. n \in Nat /\ DOMAIN all = 1..n /\ \A i \in 1..n: all[i] \in Card
    OBVIOUS
  <1> HIDE DEF n
  <1>1. 0 \in S
    <2>1. Acc(0) = <<>>
      BY Lasts!FoldNone
    <2>2. OneEach(<<>>) /\ Elems(<<>>) = {} /\ <<>> \in Seq(Card)
      BY DEF OneEach, Elems
    <2>3. {all[i]: i \in 1..0} = {}
      OBVIOUS
    <2> HIDE DEF Acc
    <2>4. QED
      BY <2>1, <2>2, <2>3
  <1>2. ASSUME NEW k \in S PROVE k + 1 \in S
    <2> SUFFICES ASSUME k + 1 <= n PROVE Done(k + 1)
      OBVIOUS
    <2> DEFINE a == Acc(k)
               x == all[k + 1]
               p == ByLast!Position(x, a)
    <2>1. k \in Nat /\ k <= n /\ k + 1 \in 1..n
      BY <1>0
    <2>2. Done(k)
      BY <2>1
    <2>3. Acc(k + 1) = LastStep(0, a, x)
      BY <2>1, Lasts!FoldPrefix DEF n
    <2> HIDE DEF Acc
    <2>4. Acc(k + 1) = M!InsertAt(a, p, x)
      BY <2>3 DEF LastStep, ByLast!Placed, ByLast!InsertAt, M!InsertAt
    <2>5. x.key \notin M!Keys(a)
      <3>1. \A i \in 1..k: all[i].key # x.key
        BY <2>1, <1>0 DEF OneEach
      <3>2. QED
        BY <3>1, <2>2 DEF M!Keys, Elems
    <2>6. p \in 1..(Len(a) + 1)
      BY <2>2, LastPositionIs
    <2>7. Acc(k + 1) \in Seq(Card) /\ Elems(Acc(k + 1)) = Elems(a) \cup {x} /\ OneEach(Acc(k + 1))
      <3> HIDE DEF p
      <3>1. QED
        BY <1>0, <2>1, <2>2, <2>4, <2>5, <2>6, InsertAnywhere
    <2>8. 1..(k + 1) = 1..k \cup {k + 1}
      BY <2>1
    <2>9. QED
      BY <2>2, <2>7, <2>8
  <1> HIDE DEF S
  <1>3. S = Nat
    <2>1. S \in SUBSET Nat
      BY DEF S
    <2>2. QED
      BY <1>1, <1>2, <2>1, Lasts!Induction
  <1>4. Done(n)
    BY <1>0, <1>3 DEF S
  <1>5. Acc(n) = ByLast!Ordered(all)
    BY Lasts!FoldAll, LastIs DEF n
  <1>6. QED
    BY <1>0, <1>4, <1>5 DEF Elems

\* The cards E are those of all rows.
GroupedAs(rows, E) ==
    /\ \A c \in E: CardSays(rows, c) /\ c.parts \subseteq Present(rows)
    /\ \A i \in Present(rows): \E c \in E: i \in c.parts
    /\ \A c, d \in E: \A i: i \in c.parts /\ i \in d.parts => c = d
    /\ \A i, j \in Present(rows): NextTo(rows, i, j) =>
          ((\E c \in E: i \in c.parts /\ j \in c.parts) <=> OnWith(rows, i, j))

\* group_messages: each row on one card, two in a row of a peer on the same exactly when the
\* second goes on with the first.
LEMMA GroupsRows ==
    ASSUME CardsConstants, NEW rows \in Rows
    PROVE  LET out == GroupMessages(rows)
           IN  out \in Seq(Card) /\ OneEach(out) /\ GroupedAs(rows, Elems(out))
  <1> DEFINE cs == Groups!Folded(rows, <<>>, [i \in DOMAIN rows |-> i])
  <1>1. GroupedTo(rows, MaxId, cs)
    BY GroupAll
  <1>2. GroupMessages(rows) = ByLast!Ordered(cs)
    BY GroupIs
  <1> HIDE DEF cs
  <1>3. cs \in Seq(Card)
    BY <1>1 DEF GroupedTo
  <1>4. OneEach(cs)
    <2>1. \A c \in DOMAIN cs: cs[c].key[2] \in cs[c].parts
      BY <1>1 DEF GroupedTo, CardSays
    <2>2. ASSUME NEW c \in DOMAIN cs, NEW d \in DOMAIN cs, cs[c].key = cs[d].key PROVE c = d
      <3>1. cs[c].key[2] \in cs[c].parts /\ cs[c].key[2] \in cs[d].parts
        BY <2>1, <2>2
      <3>2. QED
        BY <3>1, <1>1 DEF GroupedTo
    <2>3. QED
      BY <2>2 DEF OneEach
  <1>5. Seen(rows, MaxId) = Present(rows)
    BY DEF Seen, Present, Rows, Id
  <1>6. GroupedAs(rows, Elems(cs))
    <2>1. \A c \in Elems(cs): CardSays(rows, c) /\ c.parts \subseteq Present(rows)
      BY <1>1, <1>5 DEF GroupedTo, Elems
    <2>2. \A i \in Present(rows): \E c \in Elems(cs): i \in c.parts
      BY <1>1, <1>5 DEF GroupedTo, Elems
    <2>3. \A c, d \in Elems(cs): \A i: i \in c.parts /\ i \in d.parts => c = d
      BY <1>1 DEF GroupedTo, Elems
    <2>4. \A i, j: (\E c \in Elems(cs): i \in c.parts /\ j \in c.parts) <=>
                   (\E c \in DOMAIN cs: i \in cs[c].parts /\ j \in cs[c].parts)
      BY DEF Elems
    <2>5. ASSUME NEW i \in Present(rows), NEW j \in Present(rows), NextTo(rows, i, j)
          PROVE  (\E c \in Elems(cs): i \in c.parts /\ j \in c.parts) <=> OnWith(rows, i, j)
      <3>1. (\E c \in DOMAIN cs: i \in cs[c].parts /\ j \in cs[c].parts) <=> OnWith(rows, i, j)
        BY <2>5, <1>1, <1>5 DEF GroupedTo
      <3>2. QED
        BY <3>1, <2>4
    <2>6. QED
      BY <2>1, <2>2, <2>3, <2>5 DEF GroupedAs
  <1>7. QED
    BY <1>2, <1>3, <1>4, <1>6, LastKeeps

-----------------------------------------------------------------------------
\* Cards: the cards of MeshCore messages, one for each

MeshRows == [MeshId -> MeshRow \cup {NoRow}]

MeshOf(rows, names, P) == {MeshCard(i, rows[i], names): i \in P}

LEMMA MeshCardIs ==
    ASSUME CardsConstants, NEW rows \in MeshRows, NEW names, NEW i \in MeshId, rows[i] # NoRow
    PROVE  /\ MeshCard(i, rows[i], names) \in Card
           /\ rows[i].read \in BOOLEAN
  <1>1. rows[i] \in MeshRow
    BY DEF MeshRows
  <1>2. Times \subseteq Nat
    BY DEF CardsConstants
  <1>3. /\ rows[i].dir \in {"in", "out"} /\ rows[i].conv \in Conv /\ rows[i].ts \in Nat
        /\ rows[i].read \in BOOLEAN
    BY <1>1, <1>2 DEF MeshRow
  <1>4. i \in Nat
    BY DEF MeshId, CardsConstants
  <1>5. Label(rows[i].conv, names) \in {"name", "bare"}
    BY DEF Label
  <1>6. QED
    BY <1>3, <1>4, <1>5 DEF MeshCard, Card

LEMMA MeshAll ==
    ASSUME CardsConstants, NEW rows \in MeshRows, NEW names
    PROVE  LET out == MeshCards(rows, names)
           IN  out \in Seq(Card) /\ OneEach(out) /\ Elems(out) = MeshOf(rows, names, Present(rows))
  <1> DEFINE ids == [i \in DOMAIN rows |-> i]
             e == [rows |-> rows, names |-> names]
             Acc(k) == Meshes!Folded(e, <<>>, SubSeq(ids, 1, k))
             Done(k) == /\ Acc(k) \in Seq(Card) /\ OneEach(Acc(k))
                        /\ Elems(Acc(k)) = MeshOf(rows, names, Seen(rows, k))
             S == {k \in Nat: k <= MaxMeshId => Done(k)}
  <1>0. MaxMeshId \in Nat /\ DOMAIN rows = 1..MaxMeshId /\ MeshId = 1..MaxMeshId
    BY DEF CardsConstants, MeshRows, MeshId
  <1>1. ids \in Seq(1..MaxMeshId) /\ Len(ids) = MaxMeshId /\ \A i \in 1..MaxMeshId: ids[i] = i
    BY <1>0, CountIs
  <1>2. e.rows = rows /\ e.names = names
    OBVIOUS
  <1> HIDE DEF ids, e, S
  <1>21. \A i \in MeshId: rows[i] # NoRow => MeshCard(i, rows[i], names) \in Card
    BY MeshCardIs
  <1> USE DEF S
  <1>3. 0 \in S
    <2>1. Acc(0) = <<>>
      BY Meshes!FoldNone
    <2>2. MeshOf(rows, names, Seen(rows, 0)) = {}
      BY DEF Seen, MeshOf
    <2>3. OneEach(<<>>) /\ Elems(<<>>) = {} /\ <<>> \in Seq(Card)
      BY DEF OneEach, Elems
    <2> HIDE DEF Acc
    <2>4. QED
      BY <2>1, <2>2, <2>3
  <1>4. ASSUME NEW k \in S PROVE k + 1 \in S
    <2> SUFFICES ASSUME k + 1 <= MaxMeshId PROVE Done(k + 1)
      OBVIOUS
    <2> DEFINE a == Acc(k)
               j == k + 1
               x == MeshCard(j, rows[j], names)
    <2>1. k \in Nat /\ k <= MaxMeshId /\ j \in 1..MaxMeshId
      BY <1>0
    <2>2. Done(k)
      BY <2>1
    <2>3. Acc(k + 1) = MeshStep(e, a, j)
      BY <2>1, <1>1, Meshes!FoldPrefix
    <2> HIDE DEF Acc
    <2>4. CASE rows[j] = NoRow
      <3>1. Acc(k + 1) = a
        BY <2>3, <2>4, <1>2 DEF MeshStep
      <3>2. Seen(rows, k + 1) = Seen(rows, k)
        BY <2>1, <2>4 DEF Seen
      <3>3. QED
        BY <3>1, <3>2, <2>2
    <2>5. CASE rows[j] # NoRow
      <3>1. x \in Card /\ x.key = <<"m", j>>
        <4>1. j \in MeshId
          BY <2>1, <1>0
        <4> HIDE DEF j
        <4>2. rows[j] # NoRow
          BY <2>5
        <4>3. MeshCard(j, rows[j], names) \in Card /\ MeshCard(j, rows[j], names).key = <<"m", j>>
          BY <4>1, <4>2, <1>21 DEF MeshCard
        <4>4. QED
          BY <4>3
      <3>2. Seen(rows, k + 1) = Seen(rows, k) \cup {j} /\ \A i \in Seen(rows, k): i \in 1..k
        BY <2>1, <2>5 DEF Seen
      <3>3. MeshOf(rows, names, Seen(rows, k + 1)) = MeshOf(rows, names, Seen(rows, k)) \cup {x}
        BY <3>2 DEF MeshOf
      <3>4. Acc(k + 1) = <<x>> \o a
        BY <2>3, <2>5, <1>2 DEF MeshStep
      <3> HIDE DEF x
      <3>5. Acc(k + 1) = M!InsertAt(a, 1, x)
        <4>1. a \in Seq(Card)
          BY <2>2
        <4>2. SubSeq(a, 1, 0) = <<>> /\ SubSeq(a, 1, Len(a)) = a
          BY <4>1
        <4>3. <<>> \o <<x>> = <<x>>
          BY <3>1
        <4>4. QED
          BY <3>4, <4>2, <4>3 DEF M!InsertAt
      <3>6. x.key \notin M!Keys(a)
        <4>1. ASSUME NEW c \in Elems(a) PROVE c.key # x.key
          <5>1. PICK i \in Seen(rows, k): c = MeshCard(i, rows[i], names)
            BY <2>2 DEF MeshOf
          <5>2. i \in 1..k /\ c.key = <<"m", i>>
            BY <5>1, <3>2 DEF MeshCard
          <5>3. QED
            BY <5>2, <3>1, <2>1
        <4>2. QED
          BY <4>1 DEF M!Keys, Elems
      <3>7. Acc(k + 1) \in Seq(Card) /\ Elems(Acc(k + 1)) = Elems(a) \cup {x} /\ OneEach(Acc(k + 1))
        <4>1. a \in Seq(Card) /\ 1 \in 1..(Len(a) + 1) /\ OneEach(a)
          BY <2>2
        <4>2. QED
          BY SMTT(60), <3>1, <3>5, <3>6, <4>1, InsertAnywhere
      <3>8. QED
        BY <3>3, <3>7, <2>2
    <2>6. QED
      BY <2>4, <2>5
  <1> HIDE DEF S
  <1>5. S = Nat
    <2>1. S \in SUBSET Nat
      BY DEF S
    <2>2. QED
      BY <1>3, <1>4, <2>1, Meshes!Induction
  <1>6. Done(MaxMeshId)
    BY <1>0, <1>5 DEF S
  <1>7. Acc(MaxMeshId) = MeshCards(rows, names)
    BY <1>1, Meshes!FoldAll, MeshIs DEF ids, e
  <1>8. Seen(rows, MaxMeshId) = Present(rows)
    BY <1>0 DEF Seen, Present
  <1>9. QED
    BY <1>6, <1>7, <1>8

-----------------------------------------------------------------------------
\* Cards: what _regroup puts in the model

AllOf(rows, meshRows, names) == GroupMessages(rows) \o MeshCards(meshRows, names)

LEMMA AllIs ==
    ASSUME CardsConstants, NEW rows \in Rows, NEW meshRows \in MeshRows, NEW names
    PROVE  LET all == AllOf(rows, meshRows, names)
           IN  /\ all \in Seq(Card) /\ OneEach(all)
               /\ Elems(all) = Elems(GroupMessages(rows))
                                  \cup MeshOf(meshRows, names, Present(meshRows))
  <1> DEFINE s == GroupMessages(rows)
             t == MeshCards(meshRows, names)
             n == Len(s)
             l == Len(t)
  <1>1. s \in Seq(Card) /\ OneEach(s) /\ GroupedAs(rows, Elems(s))
    BY GroupsRows
  <1>2. t \in Seq(Card) /\ OneEach(t) /\ Elems(t) = MeshOf(meshRows, names, Present(meshRows))
    BY MeshAll
  <1>3. \A c \in DOMAIN s: s[c].key[1] = "a"
    BY ZenonT(60), <1>1 DEF GroupedAs, Elems, CardSays
  <1>4. \A c \in DOMAIN t: t[c].key[1] = "m"
    <2>1. ASSUME NEW c \in DOMAIN t PROVE t[c].key[1] = "m"
      <3>1. t[c] \in MeshOf(meshRows, names, Present(meshRows))
        BY <1>2 DEF Elems
      <3>2. PICK i \in Present(meshRows): t[c] = MeshCard(i, meshRows[i], names)
        BY <3>1 DEF MeshOf
      <3>3. QED
        BY <3>2 DEF MeshCard
    <2>2. QED
      BY <2>1
  <1> HIDE DEF s, t
  <1>5. /\ s \o t \in Seq(Card) /\ Len(s \o t) = n + l
        /\ \A i \in 1..(n + l): (s \o t)[i] = IF i <= n THEN s[i] ELSE t[i - n]
    BY <1>1, <1>2, ConcatProperties
  <1> DEFINE u == s \o t
  <1>6. /\ n \in Nat /\ l \in Nat /\ DOMAIN s = 1..n /\ DOMAIN t = 1..l
        /\ u \in Seq(Card) /\ DOMAIN u = 1..(n + l)
        /\ \A i \in 1..n: u[i] = s[i]
        /\ \A i \in 1..l: u[n + i] = t[i] /\ n + i \in DOMAIN u
        /\ \A i \in DOMAIN u: i \in 1..n \/ (i - n \in 1..l /\ u[i] = t[i - n])
    <2>1. n \in Nat /\ l \in Nat /\ DOMAIN s = 1..n /\ DOMAIN t = 1..l
      BY <1>1, <1>2
    <2>2. u \in Seq(Card) /\ DOMAIN u = 1..(n + l)
      BY <1>5
    <2> HIDE DEF u, n, l
    <2>3. \A i \in 1..(n + l): u[i] = IF i <= n THEN s[i] ELSE t[i - n]
      BY <1>5 DEF u, n, l
    <2>4. \A i \in 1..n: u[i] = s[i]
      BY <2>1, <2>3
    <2>5. ASSUME NEW i \in 1..l PROVE u[n + i] = t[i] /\ n + i \in DOMAIN u
      <3>1. n + i \in 1..(n + l) /\ ~(n + i <= n) /\ (n + i) - n = i
        BY <2>1
      <3>2. QED
        BY <3>1, <2>2, <2>3
    <2>6. ASSUME NEW i \in DOMAIN u PROVE i \in 1..n \/ (i - n \in 1..l /\ u[i] = t[i - n])
      <3>1. i \in 1..(n + l) /\ (i <= n \/ n < i)
        BY <2>1, <2>2
      <3>2. n < i => i - n \in 1..l /\ u[i] = t[i - n]
        BY <2>1, <2>3, <3>1
      <3>3. i <= n => i \in 1..n
        BY <2>1, <3>1
      <3>4. CASE i <= n
        BY <3>3, <3>4
      <3>5. CASE n < i
        BY <3>2, <3>5
      <3>6. QED
        BY <3>1, <3>4, <3>5
    <2>7. QED
      BY <2>1, <2>2, <2>4, <2>5, <2>6 DEF n, l
  <1> HIDE DEF u, n, l
  <1>7. Elems(u) = Elems(s) \cup Elems(t)
    <2>1. \A i \in DOMAIN u: u[i] \in Elems(s) \cup Elems(t)
      BY <1>6 DEF Elems
    <2>2. \A i \in DOMAIN s: s[i] \in Elems(u)
      BY SMTT(60), <1>6 DEF Elems
    <2>3. \A i \in DOMAIN t: t[i] \in Elems(u)
      BY <1>6 DEF Elems
    <2>4. QED
      BY <2>1, <2>2, <2>3 DEF Elems
  <1>8. OneEach(u)
    <2>1. ASSUME NEW i \in DOMAIN u, NEW j \in DOMAIN u, u[i].key = u[j].key PROVE i = j
      <3>1. CASE i \in 1..n /\ j \in 1..n
        BY <2>1, <3>1, <1>1, <1>6 DEF OneEach
      <3>2. CASE i \in 1..n /\ j \notin 1..n
        <4>1. u[i] = s[i] /\ j - n \in 1..l /\ u[j] = t[j - n]
          BY <3>2, <1>6
        <4>2. u[i].key[1] = "a" /\ u[j].key[1] = "m"
          BY <3>2, <4>1, <1>3, <1>4, <1>6
        <4>3. QED
          BY <2>1, <4>2
      <3>3. CASE i \notin 1..n /\ j \in 1..n
        <4>1. u[j] = s[j] /\ i - n \in 1..l /\ u[i] = t[i - n]
          BY <3>3, <1>6
        <4>2. u[j].key[1] = "a" /\ u[i].key[1] = "m"
          BY <3>3, <4>1, <1>3, <1>4, <1>6
        <4>3. QED
          BY <2>1, <4>2
      <3>4. CASE i \notin 1..n /\ j \notin 1..n
        <4>1. i - n \in 1..l /\ j - n \in 1..l /\ t[i - n].key = t[j - n].key
          BY <2>1, <3>4, <1>6
        <4>2. i - n = j - n
          BY <4>1, <1>2, <1>6 DEF OneEach
        <4>3. i \in Nat /\ j \in Nat
          BY <1>6
        <4>4. QED
          BY <4>2, <4>3, <1>6
      <3>5. QED
        BY <3>1, <3>2, <3>3, <3>4
    <2>2. QED
      BY <2>1 DEF OneEach
  <1>9. QED
    BY <1>2, <1>6, <1>7, <1>8 DEF AllOf, u, s, t

-----------------------------------------------------------------------------
\* The inductive invariant: the model holds the cards of the messages and names as they are.
CardsInv ==
    /\ raw \in Rows /\ mesh \in MeshRows
    /\ cards \in Shown
    /\ Elems(cards.rows) = Elems(AllOf(raw, mesh, named))

LEMMA CardsInitInv == CardsConstants /\ CardsInit => CardsInv
  <1> SUFFICES ASSUME CardsConstants, CardsInit PROVE CardsInv
    OBVIOUS
  <1>1. raw \in Rows /\ mesh \in MeshRows
    BY DEF CardsInit, Rows, MeshRows
  <1>2. Present(raw) = {} /\ Present(mesh) = {}
    BY DEF CardsInit, Present
  <1>3. GroupedAs(raw, Elems(GroupMessages(raw)))
    BY <1>1, GroupsRows
  <1>4. Elems(GroupMessages(raw)) = {}
    BY <1>2, <1>3 DEF GroupedAs, CardSays
  <1>5. MeshOf(mesh, named, Present(mesh)) = {}
    BY <1>2 DEF MeshOf
  <1>6. Elems(AllOf(raw, mesh, named)) = {}
    BY <1>1, <1>4, <1>5, AllIs
  <1>7. cards = [rows |-> <<>>, view |-> <<>>]
    BY DEF CardsInit, M!EmptyModel
  <1>8. /\ Elems(<<>>) = {} /\ <<>> \in Seq(Card) /\ InOrder(<<>>) /\ OneEach(<<>>)
    BY DEF Elems, InOrder, OneEach
  <1>9. QED
    BY <1>1, <1>6, <1>7, <1>8 DEF CardsInv, Shown

\* _regroup, once the messages are what they are.
LEMMA Regroups ==
    ASSUME CardsConstants, CardsInv, raw' \in Rows, mesh' \in MeshRows, Regroup \/ RegroupReset
    PROVE  CardsInv'
  <1> DEFINE all == AllOf(raw', mesh', named')
  <1>1. AllCards = all
    BY DEF AllCards, AllOf
  <1>2. all \in Seq(Card) /\ OneEach(all)
    BY AllIs
  <1>3. cards' = M!Sync(cards, all) \/ cards' = M!Reset(all)
    BY <1>1 DEF Regroup, RegroupReset
  <1> HIDE DEF all
  <1>4. cards \in Shown
    BY DEF CardsInv
  <1>5. cards' \in Shown /\ Elems(cards'.rows) = Elems(all)
    <2>1. CASE cards' = M!Sync(cards, all)
      <3>1. M!Sync(cards, all) \in Shown /\ Elems(M!Sync(cards, all).rows) = Elems(all)
        BY <1>2, <1>4, SyncKeeps
      <3>2. QED
        BY <2>1, <3>1
    <2>2. CASE cards' = M!Reset(all)
      <3>1. M!Reset(all) \in Shown /\ Elems(M!Reset(all).rows) = Elems(all)
        BY <1>2, ResetKeeps
      <3>2. QED
        BY <2>2, <3>1
    <2>3. QED
      BY <1>3, <2>1, <2>2
  <1>6. QED
    BY <1>5 DEF CardsInv, all

LEMMA CardsNextInv == CardsConstants /\ CardsInv /\ [CardsNext]_cardVars => CardsInv'
  <1> SUFFICES ASSUME CardsConstants, CardsInv, [CardsNext]_cardVars PROVE CardsInv'
    OBVIOUS
  <1>0. raw \in Rows /\ mesh \in MeshRows
    BY DEF CardsInv
  <1>1. ASSUME NEW i \in Id, NEW row \in Row, UpsertMessage(i, row) PROVE CardsInv'
    <2>1. raw' \in Rows /\ mesh' \in MeshRows /\ Regroup
      BY <1>0, <1>1 DEF UpsertMessage, Rows
    <2>2. QED
      BY <2>1, Regroups
  <1>2. ASSUME NEW peer \in Peers, MarkRead(peer) PROVE CardsInv'
    <2>1. ASSUME NEW i \in Id, raw[i].dir = "in" PROVE [raw[i] EXCEPT !.read = TRUE] \in Row
      <3>1. raw[i] \in Row
        BY <1>0, <2>1 DEF Rows, NoRow
      <3>2. QED
        BY <3>1 DEF Row
    <2>2. raw' \in Rows /\ mesh' \in MeshRows /\ Regroup
      BY <1>0, <1>2, <2>1 DEF MarkRead, Rows
    <2>3. QED
      BY <2>2, Regroups
  <1>3. ASSUME NEW first \in Id, ResetMessages(first) PROVE CardsInv'
    <2>1. raw' \in Rows /\ mesh' \in MeshRows /\ RegroupReset
      BY <1>0, <1>3 DEF ResetMessages, Rows
    <2>2. QED
      BY <2>1, Regroups
  <1>4. ASSUME NEW i \in MeshId, NEW row \in MeshRow, UpsertMeshMessage(i, row) PROVE CardsInv'
    <2>1. raw' \in Rows /\ mesh' \in MeshRows /\ Regroup
      BY <1>0, <1>4 DEF UpsertMeshMessage, MeshRows
    <2>2. QED
      BY <2>1, Regroups
  <1>5. ASSUME NEW conv \in Conv, MarkMeshRead(conv) PROVE CardsInv'
    <2>1. ASSUME NEW i \in MeshId, mesh[i].dir = "in" PROVE [mesh[i] EXCEPT !.read = TRUE] \in MeshRow
      <3>1. mesh[i] \in MeshRow
        BY <1>0, <2>1 DEF MeshRows, NoRow
      <3>2. QED
        BY <3>1 DEF MeshRow
    <2>2. raw' \in Rows /\ mesh' \in MeshRows /\ Regroup
      BY <1>0, <1>5, <2>1 DEF MarkMeshRead, MeshRows
    <2>3. QED
      BY <2>2, Regroups
  <1>6. ASSUME NEW first \in MeshId, ResetMeshMessages(first) PROVE CardsInv'
    <2>1. raw' \in Rows /\ mesh' \in MeshRows /\ RegroupReset
      BY <1>0, <1>6 DEF ResetMeshMessages, MeshRows
    <2>2. QED
      BY <2>1, Regroups
  <1>7. ASSUME NEW contact \in Contacts, NoteMeshNode(contact) PROVE CardsInv'
    <2>1. raw' \in Rows /\ mesh' \in MeshRows /\ Regroup
      BY <1>0, <1>7 DEF NoteMeshNode
    <2>2. QED
      BY <2>1, Regroups
  <1>8. ASSUME NEW contacts \in SUBSET Contacts, ResetMeshNodes(contacts) PROVE CardsInv'
    <2>1. raw' \in Rows /\ mesh' \in MeshRows /\ Regroup
      BY <1>0, <1>8 DEF ResetMeshNodes
    <2>2. QED
      BY <2>1, Regroups
  <1>9. ASSUME NEW channels \in SUBSET Channels, LoadChannels(channels) PROVE CardsInv'
    <2>1. raw' \in Rows /\ mesh' \in MeshRows /\ Regroup
      BY <1>0, <1>9 DEF LoadChannels
    <2>2. QED
      BY <2>1, Regroups
  <1>10. CASE UNCHANGED cardVars
    BY <1>10 DEF CardsInv, cardVars
  <1>11. QED
    BY <1>1, <1>2, <1>3, <1>4, <1>5, <1>6, <1>7, <1>8, <1>9, <1>10 DEF CardsNext

\* What it says of the view, ...
LEMMA InvInStep == CardsInv => ViewInStep
  BY DEF CardsInv, Shown, ViewInStep

\* ... and of what is shown.
LEMMA InvShows == CardsConstants /\ CardsInv => CardsShowMessages
  <1> SUFFICES ASSUME CardsConstants, CardsInv PROVE CardsShowMessages
    OBVIOUS
  <1> DEFINE shown == cards.rows
             On(kind, i) == {c \in DOMAIN shown: shown[c].kind = kind /\ i \in shown[c].parts}
             AllOn(kind) == UNION {shown[c].parts: c \in {d \in DOMAIN shown: shown[d].kind = kind}}
             G == Elems(GroupMessages(raw))
             O == MeshOf(mesh, named, Present(mesh))
  <1>1. raw \in Rows /\ mesh \in MeshRows /\ shown \in Seq(Card) /\ InOrder(shown) /\ OneEach(shown)
    BY DEF CardsInv, Shown
  <1>2. GroupedAs(raw, G)
    BY <1>1, GroupsRows
  <1>3. Elems(shown) = G \cup O
    BY <1>1, AllIs DEF CardsInv
  <1>4. \A c \in G: /\ c.kind = "aprs" /\ c.parts \subseteq Present(raw)
                    /\ c.read = \A i \in c.parts: raw[i].read
    BY <1>2 DEF GroupedAs, CardSays
  <1>5. \A i \in Present(mesh): LET c == MeshCard(i, mesh[i], named)
                               IN  /\ c.kind = "mesh" /\ c.parts = {i}
                                   /\ c.label = Label(mesh[i].conv, named)
                                   /\ c.read = mesh[i].read /\ c.read \in BOOLEAN
    <2>1. \A i \in Present(mesh): i \in MeshId /\ mesh[i] # NoRow
      BY <1>1 DEF Present, MeshRows
    <2>2. ASSUME NEW i \in Present(mesh) PROVE mesh[i].read \in BOOLEAN
      BY <1>1, <2>1, MeshCardIs
    <2>3. QED
      BY <2>2 DEF MeshCard
  <1>6. \A c \in O: \E i \in Present(mesh): c = MeshCard(i, mesh[i], named)
    BY DEF MeshOf
  <1>7. \A i \in Present(mesh): MeshCard(i, mesh[i], named) \in O
    BY DEF MeshOf
  <1> HIDE DEF G, O, shown
  <1>8. \A c \in DOMAIN shown: shown[c] \in G \/ shown[c] \in O
    BY <1>3 DEF Elems
  <1>9. \A x \in G \cup O: \E c \in DOMAIN shown: shown[c] = x
    BY <1>3 DEF Elems
  <1>10. \A c, d \in DOMAIN shown: shown[c] = shown[d] => c = d
    BY <1>1 DEF OneEach
  <1>11. \A c \in DOMAIN shown: /\ shown[c].kind = "aprs" <=> shown[c] \in G
                                /\ shown[c].kind = "mesh" <=> shown[c] \in O
    BY <1>4, <1>5, <1>6, <1>8
  <1>12. AllOn("aprs") = Present(raw)
    <2>1. \A c \in DOMAIN shown: shown[c].kind = "aprs" => shown[c].parts \subseteq Present(raw)
      BY <1>4, <1>11
    <2>2. ASSUME NEW i \in Present(raw)
          PROVE  \E c \in DOMAIN shown: shown[c].kind = "aprs" /\ i \in shown[c].parts
      <3>1. PICK x \in G: i \in x.parts
        BY <1>2 DEF GroupedAs
      <3>2. PICK c \in DOMAIN shown: shown[c] = x
        BY <1>9
      <3>3. QED
        BY <3>1, <3>2, <1>11
    <2>3. QED
      BY <2>1, <2>2
  <1>13. AllOn("mesh") = Present(mesh)
    <2>1. \A c \in DOMAIN shown: shown[c].kind = "mesh" => shown[c].parts \subseteq Present(mesh)
      BY <1>5, <1>6, <1>11
    <2>2. ASSUME NEW i \in Present(mesh)
          PROVE  \E c \in DOMAIN shown: shown[c].kind = "mesh" /\ i \in shown[c].parts
      <3>1. PICK c \in DOMAIN shown: shown[c] = MeshCard(i, mesh[i], named)
        BY <1>7, <1>9
      <3>2. QED
        BY <3>1, <1>5
    <2>3. QED
      BY <2>1, <2>2
  \* The card of a message is one.
  <1>14. ASSUME NEW i \in Present(raw)
         PROVE  \E c \in DOMAIN shown: On("aprs", i) = {c} /\ shown[c] \in G /\ i \in shown[c].parts
    <2>1. PICK x \in G: i \in x.parts
      BY <1>2 DEF GroupedAs
    <2>2. PICK c \in DOMAIN shown: shown[c] = x
      BY <1>9
    <2>3. ASSUME NEW d \in On("aprs", i) PROVE d = c
      <3>1. d \in DOMAIN shown /\ shown[d] \in G /\ i \in shown[d].parts
        BY <1>11
      <3>2. shown[d] = x
        BY <3>1, <2>1, <1>2 DEF GroupedAs
      <3>3. QED
        BY <3>1, <3>2, <2>2, <1>10
    <2>4. c \in On("aprs", i)
      BY <2>1, <2>2, <1>4
    <2>5. QED
      BY <2>1, <2>2, <2>3, <2>4
  <1>15. \A i \in Present(raw): Cardinality(On("aprs", i)) = 1
    BY <1>14, FS_Singleton
  <1>16. ASSUME NEW i \in Present(raw), NEW j \in Present(raw), Adjacent(i, j)
         PROVE  On("aprs", i) = On("aprs", j) <=> GoesOn(i, j)
    <2>1. NextTo(raw, i, j)
      BY <1>16 DEF Adjacent, NextTo
    <2>2. (\E x \in G: i \in x.parts /\ j \in x.parts) <=> GoesOn(i, j)
      BY <2>1, <1>2 DEF GroupedAs, OnWith, GoesOn
    <2>3. PICK c \in DOMAIN shown: On("aprs", i) = {c} /\ shown[c] \in G /\ i \in shown[c].parts
      BY <1>14
    <2>4. PICK d \in DOMAIN shown: On("aprs", j) = {d} /\ shown[d] \in G /\ j \in shown[d].parts
      BY <1>14
    <2>5. c = d <=> \E x \in G: i \in x.parts /\ j \in x.parts
      <3>1. ASSUME NEW x \in G, i \in x.parts, j \in x.parts PROVE shown[c] = x /\ shown[d] = x
        BY <3>1, <2>3, <2>4, <1>2 DEF GroupedAs
      <3>2. QED
        BY <3>1, <2>3, <2>4, <1>10
    <2>6. QED
      BY <2>2, <2>3, <2>4, <2>5
  <1>17. ASSUME NEW c \in DOMAIN shown
         PROVE  shown[c].read = \A i \in shown[c].parts:
                                    IF shown[c].kind = "aprs" THEN raw[i].read ELSE mesh[i].read
    <2>1. CASE shown[c] \in G
      BY <2>1, <1>4
    <2>2. CASE shown[c] \in O
      <3>1. PICK i \in Present(mesh): shown[c] = MeshCard(i, mesh[i], named)
        BY <2>2, <1>6
      <3>2. /\ shown[c].kind = "mesh" /\ shown[c].parts = {i}
            /\ shown[c].read = mesh[i].read /\ shown[c].read \in BOOLEAN
        BY <3>1, <1>5
      <3>3. QED
        BY <3>2
    <2>3. QED
      BY <2>1, <2>2, <1>8
  <1>18. ASSUME NEW i \in Present(mesh)
         PROVE  \E c \in DOMAIN shown: /\ On("mesh", i) = {c} /\ shown[c].parts = {i}
                                       /\ shown[c].label = Label(mesh[i].conv, named)
    <2>1. PICK c \in DOMAIN shown: shown[c] = MeshCard(i, mesh[i], named)
      BY <1>7, <1>9
    <2>2. /\ shown[c].kind = "mesh" /\ shown[c].parts = {i}
          /\ shown[c].label = Label(mesh[i].conv, named)
      BY <2>1, <1>5
    <2>3. ASSUME NEW d \in On("mesh", i) PROVE d = c
      <3>1. d \in DOMAIN shown /\ shown[d] \in O /\ i \in shown[d].parts
        BY <1>11
      <3>2. PICK j \in Present(mesh): shown[d] = MeshCard(j, mesh[j], named)
        BY <3>1, <1>6
      <3>3. j = i
        BY <3>1, <3>2, <1>5
      <3>4. QED
        BY <3>1, <3>2, <3>3, <2>1, <1>10
    <2>4. c \in On("mesh", i)
      BY <2>2
    <2>5. QED
      BY <2>2, <2>3, <2>4
  <1>19. \A c, d \in DOMAIN shown: c < d => ~CardBelow(shown[c], shown[d])
    BY <1>1 DEF InOrder
  <1>20. QED
    BY <1>12, <1>13, <1>15, <1>16, <1>17, <1>18, <1>19 DEF CardsShowMessages, shown

LEMMA CardsInvariance == ASSUME CardsConstants PROVE CardsSpec => []CardsInv
  <1>1. CardsInit => CardsInv
    BY CardsInitInv
  <1>2. CardsInv /\ [CardsNext]_cardVars => CardsInv'
    BY CardsNextInv
  <1>3. QED
    BY <1>1, <1>2, PTL DEF CardsSpec

\* The view of the carousel has the rows of its model, in their order, at all times: every
\* insert, removal, move and change is told at the place the view has it (models.py:65-110).
THEOREM ViewKept == ASSUME CardsConstants PROVE CardsSpec => []ViewInStep
  <1>1. QED
    BY CardsInvariance, InvInStep, PTL

\* In whatever order the rows, the reads and the names come in, and whatever the clock does,
\* each message is on one card, with its neighbours exactly when it goes on with their text,
\* shown as read and named as it is known now, the newest first (grouping.py:24-51,
\* client.py:357-428).
THEOREM EachShownOnce == ASSUME CardsConstants PROVE CardsSpec => []CardsShowMessages
  <1>1. CardsInv => CardsShowMessages
    BY InvShows
  <1>2. QED
    BY CardsInvariance, <1>1, PTL
===============================================================================
