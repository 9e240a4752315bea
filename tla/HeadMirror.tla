------------------------------ MODULE HeadMirror ------------------------------
(***************************************************************************)
(* The head unit's copy of the messages and of the unread count            *)
(* (aprsx/head/client.py), kept by the core's events: EventBus             *)
(* (aprsx/core/events.py), the /ws endpoint and the message endpoints      *)
(* (aprsx/core/api.py), the messages table (aprsx/core/store.py).          *)
(*                                                                         *)
(* Events reach the client in order, or are dropped when its queue is      *)
(* full.  REST requests are answered and applied in any order, or fail and *)
(* are not repeated.  What the event loop stores it publishes in the same  *)
(* step; a worker thread stores first and publishes later.  The MeshCore   *)
(* messages have tables, endpoints and handlers of the same shape.         *)
(*                                                                         *)
(* Assumed: the answers of one connection are in before the next one, 3 s  *)
(* later.  Bound: MaxRows messages.                                        *)
(***************************************************************************)
EXTENDS Integers, Sequences, FiniteSets

CONSTANTS HeadPeers, MaxRows, QueueSize, History

HeadConstants == /\ {MaxRows, QueueSize, History} \subseteq Nat \ {0}
                 /\ HeadPeers # {}

VARIABLES
    table,      \* the messages table, in order of id
    worker,     \* the worker thread: what it will publish
    conn,       \* the WebSocket at the core: "down" or "subscribed"
    queue,      \* the subscriber's queue and the events on their way
    up,         \* CoreClient: connected
    gets,       \* the requests of refresh: where they are and what they bring
    reply,      \* the answer to the head's own POST /api/messages/read, -1 for none
    posted,     \* the answer to its own POST /api/messages: the row, id 0 for none
    mirror,     \* _raw: id -> row, NoMessage for none
    unread,     \* _unread
    calm,       \* history: nothing has changed at the core since the connection was made
    rowsLost    \* history: since then the rows didn't come, or a read didn't reach the core

core == <<table, worker>>
link == <<conn, queue>>
head == <<up, gets, reply, posted, mirror, unread>>
headVars == <<core, link, head, calm, rowsLost>>

RowId == 1..MaxRows
NoMessage == [dir |-> "none", peer |-> "none", state |-> "none", read |-> FALSE]
NoGet == [at |-> "none", rows |-> [i \in RowId |-> NoMessage], unread |-> 0]
NoWork == [next |-> "idle", id |-> 0, peer |-> "none", head |-> FALSE, row |-> NoMessage]
NoPost == [id |-> 0, row |-> NoMessage]

\* list_messages: the newest History rows.
Listed == [i \in RowId |-> IF i \in DOMAIN table /\ i > Len(table) - History THEN table[i] ELSE NoMessage]
Unread == Cardinality({i \in DOMAIN table: table[i].dir = "in" /\ ~table[i].read})

HeadInit ==
    /\ table = <<>> /\ worker = NoWork
    /\ conn = "down" /\ queue = <<>>
    /\ up = FALSE
    /\ gets = [g \in {"status", "messages"} |-> NoGet]
    /\ reply = -1 /\ posted = NoPost
    /\ mirror = [i \in RowId |-> NoMessage] /\ unread = 0
    /\ calm = FALSE /\ rowsLost = FALSE

-----------------------------------------------------------------------------
\* EventBus

Event(type, id, row, peer, n) == [type |-> type, id |-> id, row |-> row, peer |-> peer, unread |-> n]
RowEvent(type, id, row) == Event(type, id, row, "none", 0)
StatusEvent(n) == Event("status", 0, NoMessage, "none", n)

\* A full queue loses the event.
Publish(event) ==
    queue' = IF conn = "subscribed" /\ Len(queue) < QueueSize THEN Append(queue, event) ELSE queue

-----------------------------------------------------------------------------
\* The core, on the event loop

Received(peer) ==
    LET row == [dir |-> "in", peer |-> peer, state |-> "received", read |-> FALSE]
    IN
    /\ Len(table) < MaxRows
    /\ table' = Append(table, row)
    /\ Publish(RowEvent("message", Len(table) + 1, row))
    /\ calm' = FALSE
    /\ UNCHANGED <<worker, conn, head, rowsLost>>

\* A pending row is tried again, or is acked, rejected or given up.
Updated(i, state) ==
    /\ i \in DOMAIN table /\ table[i].state = "pending"
    /\ table' = [table EXCEPT ![i].state = state]
    /\ Publish(RowEvent("ack", i, [table[i] EXCEPT !.state = state]))
    /\ calm' = FALSE
    /\ UNCHANGED <<worker, conn, head, rowsLost>>

\* A change of anything else in the status.
PublishStatus ==
    /\ conn = "subscribed" /\ Len(queue) < QueueSize
    /\ Publish(StatusEvent(Unread))
    /\ UNCHANGED <<core, conn, head, calm, rowsLost>>

-----------------------------------------------------------------------------
\* The core, on a worker thread

\* Messenger.send stores the row, for the head unit or another client.
Sends(peer, byHead) ==
    /\ worker = NoWork /\ posted = NoPost /\ Len(table) < MaxRows
    /\ table' = Append(table, [dir |-> "out", peer |-> peer, state |-> "pending", read |-> TRUE])
    /\ worker' = [NoWork EXCEPT !.next = "message", !.id = Len(table) + 1, !.peer = peer,
                                !.head = byHead]
    /\ calm' = FALSE
    /\ UNCHANGED <<link, head, rowsLost>>

PublishesSent ==
    /\ worker.next = "message"
    /\ Publish(RowEvent("message", worker.id,
                        [dir |-> "out", peer |-> worker.peer, state |-> "pending", read |-> TRUE]))
    /\ worker' = [worker EXCEPT !.next = "try"]
    /\ UNCHANGED <<table, conn, head, calm, rowsLost>>

\* _try records the transmission, or its refusal, and reads the row back.
Tries ==
    /\ worker.next = "try"
    /\ \E next \in {"ack", "answer"}: worker' = [worker EXCEPT !.next = next, !.row = table[worker.id]]
    /\ UNCHANGED <<table, link, head, calm, rowsLost>>

\* What was transmitted is published; the request is answered with the row that was read back.
PublishesTry ==
    /\ worker.next \in {"ack", "answer"}
    /\ IF worker.next = "ack" THEN Publish(RowEvent("ack", worker.id, worker.row)) ELSE UNCHANGED queue
    /\ posted' = IF worker.head THEN [id |-> worker.id, row |-> worker.row] ELSE posted
    /\ worker' = NoWork
    /\ UNCHANGED <<table, conn, up, gets, reply, mirror, unread, calm, rowsLost>>

UnreadOf(peer) == {i \in DOMAIN table: table[i].dir = "in" /\ table[i].peer = peer /\ ~table[i].read}

\* mark_read, for another client.
Reads(peer) ==
    /\ worker = NoWork /\ UnreadOf(peer) # {}
    /\ table' = [i \in DOMAIN table |-> IF i \in UnreadOf(peer) THEN [table[i] EXCEPT !.read = TRUE]
                                                                ELSE table[i]]
    /\ worker' = [NoWork EXCEPT !.next = "read", !.peer = peer]
    /\ calm' = FALSE
    /\ UNCHANGED <<link, head, rowsLost>>

\* The count is read when the event is published, and for the answer.
PublishesRead ==
    /\ worker.next = "read"
    /\ Publish(Event("read", 0, NoMessage, worker.peer, Unread))
    /\ reply' = IF worker.head THEN Unread ELSE reply
    /\ worker' = NoWork
    /\ UNCHANGED <<table, conn, up, gets, posted, mirror, unread, calm, rowsLost>>

-----------------------------------------------------------------------------
\* /ws

\* accept and subscribe; a status is sent first.
Accept ==
    /\ conn = "down" /\ reply = -1 /\ posted = NoPost
    /\ \A g \in DOMAIN gets: gets[g].at = "none"
    /\ conn' = "subscribed"
    /\ queue' = <<StatusEvent(Unread)>>
    /\ calm' = (worker = NoWork) /\ rowsLost' = FALSE
    /\ UNCHANGED <<core, head>>

Disconnect ==
    /\ conn # "down"
    /\ conn' = "down" /\ queue' = <<>>
    /\ up' = FALSE
    /\ UNCHANGED <<core, gets, reply, posted, mirror, unread, calm, rowsLost>>

-----------------------------------------------------------------------------
\* CoreClient: the requests

Asked == [NoGet EXCEPT !.at = "asked"]

\* Mutant of Refresh: only what is shown from the start is loaded again.
RefreshStatus == gets' = [gets EXCEPT !["status"] = Asked]

Refresh == gets' = [g \in DOMAIN gets |-> Asked]

Connected ==
    /\ conn # "down" /\ ~up
    /\ up' = TRUE
    /\ Refresh
    /\ UNCHANGED <<core, link, reply, posted, mirror, unread, calm, rowsLost>>

Answered == [NoGet EXCEPT !.at = "answered"]

\* The core answers a request with what it has then.
Answer(g) ==
    /\ gets[g].at = "asked"
    /\ gets' = [gets EXCEPT ![g] = IF g = "status" THEN [Answered EXCEPT !.unread = Unread]
                                                    ELSE [Answered EXCEPT !.rows = Listed]]
    /\ UNCHANGED <<core, link, up, reply, posted, mirror, unread, calm, rowsLost>>

\* No answer, or not a 200: a reply callback does nothing, and nothing asks again.
Fails(g) ==
    /\ gets[g].at # "none"
    /\ gets' = [gets EXCEPT ![g] = NoGet]
    /\ rowsLost' = (rowsLost \/ g = "messages")
    /\ UNCHANGED <<core, link, up, reply, posted, mirror, unread, calm>>

\* _set_status
Status ==
    /\ gets["status"].at = "answered"
    /\ unread' = gets["status"].unread
    /\ gets' = [gets EXCEPT !["status"] = NoGet]
    /\ UNCHANGED <<core, link, up, reply, posted, mirror, calm, rowsLost>>

\* _reset_messages
ResetMirror ==
    /\ gets["messages"].at = "answered"
    /\ mirror' = gets["messages"].rows
    /\ gets' = [gets EXCEPT !["messages"] = NoGet]
    /\ UNCHANGED <<core, link, up, reply, posted, unread, calm, rowsLost>>

ReadLocally(peer) ==
    [i \in RowId |-> IF mirror[i].peer = peer /\ mirror[i].dir = "in"
                     THEN [mirror[i] EXCEPT !.read = TRUE] ELSE mirror[i]]

\* markRead: the rows here at once, the core's by its worker thread unless the request is lost.
HeadReads(peer) ==
    /\ worker = NoWork /\ reply = -1
    /\ mirror' = ReadLocally(peer)
    /\ \/ UnreadOf(peer) = {} /\ reply' = Unread /\ UNCHANGED <<core, calm, rowsLost>>
       \/ /\ UnreadOf(peer) # {}
          /\ table' = [i \in DOMAIN table |->
                         IF i \in UnreadOf(peer) THEN [table[i] EXCEPT !.read = TRUE] ELSE table[i]]
          /\ worker' = [NoWork EXCEPT !.next = "read", !.peer = peer, !.head = TRUE]
          /\ calm' = FALSE
          /\ UNCHANGED <<reply, rowsLost>>
       \/ rowsLost' = TRUE /\ UNCHANGED <<core, reply, calm>>
    /\ UNCHANGED <<link, up, gets, posted, unread>>

\* The answer comes, or is lost.
ReplyRead ==
    /\ reply # -1
    /\ unread' \in {reply, unread} /\ reply' = -1
    /\ UNCHANGED <<core, link, up, gets, posted, mirror, calm, rowsLost>>

\* sendMessage's done, or its answer is lost.
ReplySent ==
    /\ posted # NoPost
    /\ mirror' \in {[mirror EXCEPT ![posted.id] = posted.row], mirror}
    /\ posted' = NoPost
    /\ UNCHANGED <<core, link, up, gets, reply, unread, calm, rowsLost>>

-----------------------------------------------------------------------------
\* CoreClient: handle_event

HandleEvent ==
    LET e == Head(queue)
    IN
    /\ up /\ queue # <<>>
    /\ queue' = Tail(queue)
    /\ \/ /\ e.type = "status"
          /\ unread' = e.unread
          /\ UNCHANGED mirror
       \/ /\ e.type \in {"message", "ack"}
          /\ mirror' = [mirror EXCEPT ![e.id] = e.row]
          /\ unread' = IF e.type = "message" /\ e.row.dir = "in" /\ ~e.row.read
                       THEN unread + 1 ELSE unread
       \/ /\ e.type = "read"
          /\ mirror' = ReadLocally(e.peer)
          /\ unread' = e.unread
    /\ UNCHANGED <<core, conn, up, gets, reply, posted, calm, rowsLost>>

-----------------------------------------------------------------------------
CoreSteps ==
    \/ \E peer \in HeadPeers: Received(peer) \/ Reads(peer)
    \/ \E peer \in HeadPeers, byHead \in BOOLEAN: Sends(peer, byHead)
    \/ \E i \in RowId, state \in {"pending", "acked"}: Updated(i, state)
    \/ PublishStatus \/ PublishesSent \/ Tries \/ PublishesTry \/ PublishesRead

HeadSteps ==
    \/ Connected \/ Status \/ ResetMirror \/ ReplyRead \/ ReplySent \/ HandleEvent
    \/ \E g \in DOMAIN gets: Answer(g) \/ Fails(g)
    \/ \E peer \in HeadPeers: HeadReads(peer)

HeadNext == CoreSteps \/ HeadSteps \/ Accept \/ Disconnect

HeadSpec == HeadInit /\ [][HeadNext]_headVars

-----------------------------------------------------------------------------
\* Properties

HeadTypeOK ==
    /\ Len(table) <= MaxRows
    /\ conn # "subscribed" => queue = <<>>
    /\ up => conn # "down"
    /\ unread \in Nat /\ reply >= -1

\* Nothing is on its way to the head unit.
Settled ==
    /\ up /\ queue = <<>> /\ reply = -1 /\ posted = NoPost /\ worker = NoWork
    /\ \A g \in DOMAIN gets: gets[g].at = "none"

\* A connection made while the core was at rest repairs the copy, whatever was dropped, missed,
\* refused or counted twice before: the unread count is the core's, by the status that /ws sends
\* first even if the request for it fails; so are the rows, unless their own request failed
\* (which nothing repeats) or a read was marked here alone (client.py:140-168, 259-263).
RefreshRepairs ==
    (calm /\ Settled) => unread = Unread /\ (~rowsLost => mirror = Listed)

\* What client.py:157 says of refresh, "Reload everything; runs after every (re)connect so
\* nothing is missed": when all is delivered, the head unit has every row as the core has it.
\* A request that failed is left out.
NothingMissed ==
    Settled /\ ~rowsLost => \A i \in DOMAIN table: i > Len(table) - History => mirror[i] = table[i]
===============================================================================
