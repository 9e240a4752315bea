--------------------------------- MODULE Cards ---------------------------------
(***************************************************************************)
(* The carousel of the head unit: message rows are grouped into cards      *)
(* (aprsx/head/grouping.py), each MeshCore message is one, and a RowModel  *)
(* of cards is brought up to date after every change (CoreClient,          *)
(* aprsx/head/client.py).                                                  *)
(*                                                                         *)
(* Rows arrive in any order of their ids: a sent message is published by   *)
(* the thread that stored it, after messages the core received meanwhile.  *)
(* Their times are the core's clock, which may be set back.  The names of  *)
(* mesh contacts and channels are learnt and lost at any time.             *)
(***************************************************************************)
EXTENDS Integers, Sequences, FiniteSets, SequencesExt

CONSTANTS
    Peers,
    MaxId,      \* bound on the APRS messages
    Contacts,   \* MeshCore conversations with a node ...
    Channels,   \* ... and on a channel
    MaxMeshId,  \* bound on the MeshCore messages
    Times,      \* values of ts
    WindowS     \* WINDOW_S

CardsConstants == /\ Peers # {} /\ {MaxId, MaxMeshId} \subseteq Nat
                  /\ Contacts \cap Channels = {}
                  /\ Times \subseteq Nat /\ WindowS \in Nat

VARIABLES
    raw,        \* _raw: id -> row, NoRow for none
    mesh,       \* _mesh_messages: id -> row, NoRow for none
    named,      \* the contacts in _mesh_names and the channels in _mesh_channels
    cards       \* _messages, with its view

cardVars == <<raw, mesh, named, cards>>

Id == 1..MaxId
MeshId == 1..MaxMeshId
Conv == Contacts \cup Channels
NoRow == [dir |-> "none"]

\* near: the text has NEAR_FULL characters or more.
Row == [dir: {"in"}, peer: Peers, near: BOOLEAN, ts: Times, read: BOOLEAN]
       \cup [dir: {"out"}, peer: Peers, near: {TRUE}, ts: Times, read: {TRUE}]

MeshRow == [dir: {"in"}, conv: Conv, ts: Times, read: BOOLEAN]
           \cup [dir: {"out"}, conv: Conv, ts: Times, read: {TRUE}]

\* card_model: the newest part first, then the larger id, then by key.
CardBelow(a, b) ==
    \/ a.ts < b.ts
    \/ a.ts = b.ts /\ a.last < b.last
    \/ a.ts = b.ts /\ a.last = b.last /\ a.kind = "mesh" /\ b.kind = "aprs"

M == INSTANCE RowModel WITH Below <- CardBelow

\* group_messages has the card with the newest part first.
OlderThan(a, b) == a.last < b.last
ByLast == INSTANCE RowModel WITH Below <- OlderThan

CardsInit ==
    /\ raw = [i \in Id |-> NoRow] /\ mesh = [i \in MeshId |-> NoRow]
    /\ named = {}
    /\ cards = M!EmptyModel

-----------------------------------------------------------------------------
\* group_messages

Present(rows) == {i \in DOMAIN rows: rows[i] # NoRow}

CardOf(i, m) == [kind |-> "aprs", key |-> <<"a", i>>, peer |-> m.peer, label |-> "", dir |-> m.dir,
                 parts |-> {i}, near |-> m.near, last |-> i, ts |-> m.ts, read |-> m.read]

\* _continues; near is that of the card's last part.
Continues(card, m) ==
    /\ card.dir = "in" /\ m.dir = "in"
    /\ card.near
    /\ m.ts - card.ts \in 0..WindowS

Joined(card, i, m) ==
    [card EXCEPT !.parts = @ \cup {i}, !.near = m.near, !.last = i, !.ts = m.ts,
                 !.read = @ /\ m.read]

\* A row goes on with the last card of its peer, or begins a card.
Grouped(rows, cs, i) ==
    LET m == rows[i]
        open == SelectLastInSeq(cs, LAMBDA c: c.peer = m.peer)
    IN  IF m = NoRow THEN cs
        ELSE IF open # 0 /\ Continues(cs[open], m)
             THEN [cs EXCEPT ![open] = Joined(@, i, m)]
             ELSE Append(cs, CardOf(i, m))

GroupMessages(rows) ==
    ByLast!Ordered(FoldLeftDomain(LAMBDA cs, i: Grouped(rows, cs, i), <<>>, rows))

-----------------------------------------------------------------------------
\* CoreClient

\* _mesh_card: the name of a contact or channel, or else its prefix or number.
Label(conv, names) == IF conv \in names THEN "name" ELSE "bare"
MeshCard(i, m, names) ==
    [kind |-> "mesh", key |-> <<"m", i>>, peer |-> m.conv, label |-> Label(m.conv, names),
     dir |-> m.dir, parts |-> {i}, near |-> FALSE, last |-> i, ts |-> m.ts, read |-> m.read]

MeshCards(rows, names) ==
    FoldLeftDomain(LAMBDA cs, i: IF rows[i] = NoRow THEN cs
                                 ELSE <<MeshCard(i, rows[i], names)>> \o cs, <<>>, rows)

\* _regroup, with the models and names as they are now.
AllCards == GroupMessages(raw') \o MeshCards(mesh', named')

Regroup == \E all \in {AllCards}: cards' = M!Sync(cards, all)
RegroupReset == \E all \in {AllCards}: cards' = M!Reset(all)

\* _upsert_message: a new row, or one whose read (or state) has changed.
UpsertMessage(i, row) ==
    /\ raw[i] # row
    /\ raw[i] # NoRow => row = [raw[i] EXCEPT !.read = row.read]
    /\ raw' = [raw EXCEPT ![i] = row]
    /\ UNCHANGED <<mesh, named>>
    /\ Regroup

\* _mark_read_locally
MarkRead(peer) ==
    /\ raw' = [i \in Id |-> IF raw[i].dir = "in" /\ raw[i].peer = peer
                            THEN [raw[i] EXCEPT !.read = TRUE] ELSE raw[i]]
    /\ raw' # raw
    /\ UNCHANGED <<mesh, named>>
    /\ Regroup

\* _reset_messages, with an answer that has the newest rows.
ResetMessages(first) ==
    /\ raw' = [i \in Id |-> IF i >= first THEN raw[i] ELSE NoRow]
    /\ UNCHANGED <<mesh, named>>
    /\ RegroupReset

\* _upsert_mesh_message
UpsertMeshMessage(i, row) ==
    /\ mesh[i] # row
    /\ mesh[i] # NoRow => row = [mesh[i] EXCEPT !.read = row.read]
    /\ mesh' = [mesh EXCEPT ![i] = row]
    /\ UNCHANGED <<raw, named>>
    /\ Regroup

\* _mark_mesh_read_locally
MarkMeshRead(conv) ==
    /\ mesh' = [i \in MeshId |-> IF mesh[i].dir = "in" /\ mesh[i].conv = conv
                                 THEN [mesh[i] EXCEPT !.read = TRUE] ELSE mesh[i]]
    /\ mesh' # mesh
    /\ UNCHANGED <<raw, named>>
    /\ Regroup

\* _reset_mesh_messages
ResetMeshMessages(first) ==
    /\ mesh' = [i \in MeshId |-> IF i >= first THEN mesh[i] ELSE NoRow]
    /\ UNCHANGED <<raw, named>>
    /\ RegroupReset

\* _note_mesh_node: a name that is new.
NoteMeshNode(contact) ==
    /\ contact \notin named
    /\ named' = named \cup {contact}
    /\ UNCHANGED <<raw, mesh>>
    /\ Regroup

\* _reset_mesh_nodes
ResetMeshNodes(contacts) ==
    /\ named' = (named \ Contacts) \cup contacts
    /\ UNCHANGED <<raw, mesh>>
    /\ Regroup

\* _load_channels: the device has those of its list.
LoadChannels(channels) ==
    /\ named' = (named \ Channels) \cup channels
    /\ UNCHANGED <<raw, mesh>>
    /\ Regroup

-----------------------------------------------------------------------------
CardsNext ==
    \/ \E i \in Id, row \in Row: UpsertMessage(i, row)
    \/ \E peer \in Peers: MarkRead(peer)
    \/ \E first \in Id: ResetMessages(first)
    \/ \E i \in MeshId, row \in MeshRow: UpsertMeshMessage(i, row)
    \/ \E conv \in Conv: MarkMeshRead(conv)
    \/ \E first \in MeshId: ResetMeshMessages(first)
    \/ \E contact \in Contacts: NoteMeshNode(contact)
    \/ \E contacts \in SUBSET Contacts: ResetMeshNodes(contacts)
    \/ \E channels \in SUBSET Channels: LoadChannels(channels)

CardsSpec == CardsInit /\ [][CardsNext]_cardVars

-----------------------------------------------------------------------------
\* Properties

\* What the view has made of the inserts, removals, moves and changes it was told of is the
\* model's rows, also when rows move down because a card lost a part (models.py:65-110).
ViewInStep == cards.view = cards.rows

\* i and j are messages of one peer with none of its others between.
Adjacent(i, j) ==
    /\ i < j /\ raw[i].peer = raw[j].peer
    /\ ~\E k \in (i + 1)..(j - 1): raw[k] # NoRow /\ raw[k].peer = raw[i].peer

\* The second goes on with the text of the first.
GoesOn(i, j) ==
    /\ raw[i].dir = "in" /\ raw[j].dir = "in" /\ raw[i].near
    /\ raw[j].ts - raw[i].ts \in 0..WindowS

\* Whatever order the rows came in, the carousel shows each message on one card, two in a row
\* from a station on the same card exactly when the second goes on with the first, a card as
\* read when all its parts are, MeshCore messages on a card each under the name that is known
\* now, and the newest card first (grouping.py:24-51, client.py:357-428).
CardsShowMessages ==
    LET shown == cards.rows
        On(kind, i) == {c \in DOMAIN shown: shown[c].kind = kind /\ i \in shown[c].parts}
        Aprs(i) == On("aprs", i)
        AllOn(kind) == UNION {shown[c].parts: c \in {d \in DOMAIN shown: shown[d].kind = kind}}
    IN
    /\ AllOn("aprs") = Present(raw) /\ AllOn("mesh") = Present(mesh)
    /\ \A i \in Present(raw): Cardinality(Aprs(i)) = 1
    /\ \A i, j \in Present(raw): Adjacent(i, j) => (Aprs(i) = Aprs(j) <=> GoesOn(i, j))
    /\ \A c \in DOMAIN shown:
          shown[c].read = \A i \in shown[c].parts:
                              IF shown[c].kind = "aprs" THEN raw[i].read ELSE mesh[i].read
    /\ \A i \in Present(mesh): \E c \in DOMAIN shown:
          On("mesh", i) = {c} /\ shown[c].parts = {i} /\ shown[c].label = Label(mesh[i].conv, named)
    /\ \A c, d \in DOMAIN shown: c < d => ~CardBelow(shown[c], shown[d])
===============================================================================
