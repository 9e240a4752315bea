------------------------------- MODULE MeshSync -------------------------------
(***************************************************************************)
(* The first half of MeshService.tick (aprsx/core/mesh.py): the clock, the *)
(* channels and the contacts are synced after a connect, the node gets our *)
(* name and our position.                                                  *)
(*                                                                         *)
(* The tick awaits one command after the other; the link may drop and come *)
(* back during an await.  A command answers for the connection it was      *)
(* given to; one whose connection is gone comes back without an answer.    *)
(* The list of channels is one command per channel on the connection it    *)
(* started with, and any of them that fails ends the list.                 *)
(*                                                                         *)
(* A unit of time is half a minute: no time passes within a tick.          *)
(* Bound: MaxConns connections.                                            *)
(***************************************************************************)
EXTENDS Integers

CONSTANTS
    Places,         \* GPS fixes more than POSITION_MOVE_M apart
    NoPlace,
    SyncRetry,      \* SYNC_RETRY_S
    ContactsRefresh, \* CONTACTS_REFRESH_S
    PositionMaxAge, \* POSITION_MAX_AGE_S
    MaxConns

SyncConstants ==
    /\ NoPlace \notin Places
    /\ {SyncRetry, ContactsRefresh, PositionMaxAge, MaxConns} \subseteq Nat \ {0}

VARIABLES
    connected, conn,    \* MeshLink.connected, and the number of connections so far
    nextSync,           \* _next_sync: time left, or Synced for None
    nextContacts,       \* _next_contacts
    channels,           \* MeshService.channels: "none", "part" or "all" of the device's
    selfInfo,           \* self_info: None, or whether it has the configured name
    nameTried,          \* _name_tried is the configured name
    position,           \* _position: the place, and how long it is good for
    place,              \* gps.current()
    syncTick,           \* the command the tick awaits, on which connection, for which place
    answers,            \* the device answers commands
    device              \* what the device has: its position, the connection that set its clock

mine == <<nextSync, nextContacts, channels, selfInfo, nameTried, position>>
syncVars == <<connected, conn, mine, place, syncTick, answers, device>>

Synced == -1
NoCommand == [at |-> "idle", conn |-> 0, place |-> NoPlace]
NoPosition == [place |-> NoPlace, left |-> 0]

SyncInit ==
    /\ connected = FALSE /\ conn = 0
    /\ nextSync = Synced /\ nextContacts = 0
    /\ channels = "none" /\ selfInfo = "none" /\ nameTried = FALSE
    /\ position = NoPosition
    /\ place \in Places
    /\ syncTick = NoCommand
    /\ answers = TRUE
    /\ device = [place |-> NoPlace, clockSet |-> 0]

-----------------------------------------------------------------------------
\* The link: _link_state and the self_info event of a new session

\* The device that is plugged in may be another one.
Connect(other, name) ==
    /\ ~connected /\ conn < MaxConns
    /\ connected' = TRUE /\ conn' = conn + 1
    /\ nextSync' = 0
    /\ selfInfo' = name
    /\ device' = IF other THEN [place |-> NoPlace, clockSet |-> 0] ELSE device
    /\ UNCHANGED <<nextContacts, channels, nameTried, position, place, syncTick, answers>>

Forgotten == selfInfo' = "none" /\ nameTried' = FALSE /\ position' = NoPosition

Disconnect ==
    /\ connected
    /\ connected' = FALSE
    /\ Forgotten
    /\ UNCHANGED <<conn, nextSync, nextContacts, channels, place, syncTick, answers, device>>

-----------------------------------------------------------------------------
\* The tick, from await to await

\* An awaited command: Ok has an answer from its own connection, Fails does not.
Awaits(at) == [at |-> at, conn |-> conn, place |-> place]
Ok(at) == syncTick.at = at /\ syncTick.conn = conn /\ answers
Fails(at) == syncTick.at = at /\ (syncTick.conn # conn \/ ~connected \/ ~answers)

\* Mutant of PositionDue: a position that was pushed is good until we move.
PositionDueMoved == position.place = NoPlace \/ position.place # place

\* _share_position; without a link the push fails and counts as done.
PositionDue == position.place # place \/ position.left = 0

Pushed(p) == [place |-> p, left |-> PositionMaxAge]

ThenShare ==
    /\ syncTick' = IF PositionDue /\ connected THEN Awaits("coords") ELSE NoCommand
    /\ position' = IF PositionDue /\ ~connected THEN Pushed(place) ELSE position

\* _apply_name
ThenName ==
    IF selfInfo = "other" /\ ~nameTried
    THEN /\ nameTried' = TRUE
         /\ syncTick' = Awaits("name")
         /\ UNCHANGED position
    ELSE ThenShare /\ UNCHANGED nameTried

\* _sync_contacts
ThenContacts ==
    /\ nextContacts' = ContactsRefresh
    /\ IF connected
       THEN syncTick' = Awaits("contacts") /\ UNCHANGED <<position, nameTried>>
       ELSE ThenName

SyncStarts ==
    /\ syncTick.at = "idle" /\ connected
    /\ \/ /\ nextSync = 0
          /\ syncTick' = Awaits("time")
          /\ UNCHANGED <<nextContacts, nameTried, position>>
       \/ /\ nextSync # 0 /\ nextContacts = 0
          /\ ThenContacts
       \/ /\ nextSync # 0 /\ nextContacts # 0
          /\ ThenName /\ UNCHANGED nextContacts
    /\ UNCHANGED <<connected, conn, nextSync, channels, selfInfo, place, answers, device>>

\* set_time is done; get_channels takes the connection there is by now.
TimeSet ==
    /\ Ok("time")
    /\ device' = [device EXCEPT !.clockSet = conn]
    /\ IF connected
       THEN syncTick' = Awaits("channels") /\ UNCHANGED <<nextSync, nameTried, position>>
       ELSE nextSync' = SyncRetry /\ ThenName
    /\ UNCHANGED <<connected, conn, nextContacts, channels, selfInfo, place, answers>>

SyncFails ==
    /\ Fails("time")
    /\ nextSync' = SyncRetry
    /\ ThenName
    /\ UNCHANGED <<connected, conn, nextContacts, channels, selfInfo, place, answers, device>>

\* get_channels ends, at the end of the list or at a command that fails.
ChannelsListed ==
    /\ syncTick.at = "channels"
    /\ \/ Ok("channels") /\ channels' = "all"
       \/ Fails("channels") /\ channels' \in {"none", "part"}
    /\ nextSync' = Synced
    /\ ThenContacts
    /\ UNCHANGED <<connected, conn, selfInfo, place, answers, device>>

ContactsDone ==
    /\ Ok("contacts") \/ Fails("contacts")
    /\ ThenName
    /\ UNCHANGED <<connected, conn, nextSync, nextContacts, channels, selfInfo, place, answers,
                   device>>

\* The name is set; when the link drops at that moment the tick dies of a TypeError.
NameSet ==
    /\ Ok("name")
    /\ IF selfInfo = "none"
       THEN syncTick' = NoCommand /\ UNCHANGED <<selfInfo, position>>
       ELSE selfInfo' = "ours" /\ ThenShare
    /\ UNCHANGED <<connected, conn, nextSync, nextContacts, channels, nameTried, place, answers,
                   device>>

NameFails ==
    /\ Fails("name")
    /\ ThenShare
    /\ UNCHANGED <<connected, conn, nextSync, nextContacts, channels, selfInfo, nameTried, place,
                   answers, device>>

CoordsDone ==
    /\ \/ Ok("coords") /\ device' = [device EXCEPT !.place = syncTick.place]
       \/ Fails("coords") /\ device' = device
    /\ position' = Pushed(syncTick.place)
    /\ syncTick' = NoCommand
    /\ UNCHANGED <<connected, conn, nextSync, nextContacts, channels, selfInfo, nameTried, place,
                   answers>>

-----------------------------------------------------------------------------
\* Time, the road, the radio

Less(n) == IF n > 0 THEN n - 1 ELSE n

SyncAdvance ==
    /\ syncTick.at = "idle"
    /\ nextSync' = Less(nextSync) /\ nextContacts' = Less(nextContacts)
    /\ position' = [position EXCEPT !.left = Less(@)]
    /\ UNCHANGED <<connected, conn, channels, selfInfo, nameTried, place, syncTick, answers, device>>

Drive ==
    /\ place' \in Places \ {place}
    /\ UNCHANGED <<connected, conn, mine, syncTick, answers, device>>

RadioChanges ==
    /\ answers' = ~answers
    /\ UNCHANGED <<connected, conn, mine, place, syncTick, device>>

-----------------------------------------------------------------------------
Answered == TimeSet \/ SyncFails \/ ChannelsListed \/ ContactsDone \/ NameSet \/ NameFails \/ CoordsDone

SyncNext ==
    \/ \E other \in BOOLEAN, name \in {"ours", "other"}: Connect(other, name)
    \/ Disconnect \/ SyncStarts \/ Answered \/ SyncAdvance \/ Drive \/ RadioChanges

SyncSpec == SyncInit /\ [][SyncNext]_syncVars

\* The mesh loop ticks, commands come back, time passes; nobody has to plug a device in.
FairSyncSpec == SyncSpec /\ WF_syncVars(SyncStarts) /\ WF_syncVars(Answered) /\ WF_syncVars(SyncAdvance)

-----------------------------------------------------------------------------
\* Properties

SyncTypeOK ==
    /\ connected => selfInfo # "none"
    /\ nextSync \in {Synced} \cup 0..SyncRetry
    /\ nextContacts \in 0..ContactsRefresh
    /\ channels \in {"none", "part", "all"}
    /\ position.place \in Places \cup {NoPlace} /\ position.left \in 0..PositionMaxAge
    /\ syncTick.conn \in 0..conn

\* A radio that stays connected and answers is synced, has been asked to take our name, and
\* has our position once we stop, whatever failed before, on this connection or while the one
\* before it dropped (mesh.py:88-160).
Settles ==
    \A p \in Places:
        <>[](connected /\ answers /\ place = p)
            => <>[](nextSync = Synced /\ (selfInfo = "ours" \/ nameTried) /\ device.place = p)

\* What mesh.py:34 says, "After connecting, sync the clock, contacts and channels; retry this
\* often on failure": once no sync is due the core has the device's channels and the device
\* our clock.
SyncedIsComplete ==
    (connected /\ nextSync = Synced) => channels = "all" /\ device.clockSet = conn
===============================================================================
