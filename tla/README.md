# A TLA+ verification of APRS-X

APRS-X is a ham radio station for a Raspberry Pi: a Python asyncio core
(`src/aprsx/core`) that talks APRS over a sound modem or an FTM-200 radio, gates
packets to and from APRS-IS, sends and receives APRS messages, runs a MeshCore
radio beside them, and serves a REST and WebSocket API to a touch-screen head unit
(`src/aprsx/head`) and a web page.

This directory holds TLA+ models of its stateful parts, the TLC configurations that
check them on small instances, and proofs, checked by TLAPS, of every safety property
these runs check, for every value of the constants.

1. [The system](#1-the-system)
2. [Modules](#2-modules)
3. [Runs](#3-runs)
4. [Divergences found](#4-divergences-found)
5. [Proofs](#5-proofs)
6. [What is left out](#6-what-is-left-out)
7. [Plan](#7-plan)

`PROJECT.json` lists the same things for tools: components, runs, the source lines
each definition stands for, hazards with the properties that guard them, theorems.

## 1. The system

### How it runs

One process, one asyncio event loop, and FastAPI's pool of worker threads.
`async def` endpoints, the loops in `Core.start` and the network callbacks run on the
event loop; plain `def` endpoints run on worker threads. Three kinds of
interleaving follow:

* a worker thread against the event loop, at any database call
  (`POST /api/messages` -> `Messenger.send`, war-driving start and stop);
* two tasks of the event loop, at any `await` (`POST /api/mesh/messages` against
  `MeshService.tick`, two `PUT /api/config`);
* a cancelled task that is still cleaning up against its successor (the MeshCore,
  APRS-IS and radio links).

SQLite (`store.py`) is the only durable state. Every `Store` method holds one
RLock and commits before it returns, so a method is one atomic step and a sequence
of methods is not.

### Components

| Component (source) | State | Operations | What makes it correct | Modelled |
|---|---|---|---|---|
| Messaging (`messaging.py`) | `messages` table, `settings.msg_seq`, `_acked`, `_reply_ack` | `send`, `tick`, `handle` | a message is pending, then acked, rejected or failed for good; tries are counted and spaced; a received message is stored once and acked once per transmission | yes |
| Store (`store.py`) | SQLite tables | one method per query | each method atomic; prune keeps what is in use | the tables the other modules need, each in the module that uses it |
| MeshCore messages (`mesh.py`) | `mesh_messages`, contacts, channels, `_next_sync` | `send`, `tick`, events from the link | given up only after all tries; no ack code lost; acked is final; a sync after every connect | `MeshDm`: direct messages; `MeshSync`: the rest of the tick |
| MeshCore link (`meshlink.py`) | `_mc`, `connected`, the port | `run`, commands | one runner; `connected` means usable; follows the settings | `MeshLink`, commands by their outcome |
| Core (`service.py`) | `config`, link tasks, `_radio_running`, `_gated` | `start`, `stop`, `update_config`, `handle_packet`, `transmit`, loops | links follow the settings; gating rules; beacons hold after failure | in the module of the component it calls |
| API (`api.py`) | sessions | endpoints | errors map to answers | as caller, and `/ws` in `HeadMirror` |
| War-driving (`wardrive.py`) | session, counters, `_open`, pacing | `start`, `stop`, `tick`, `on_event` | counters match the tables; one open session; a ping's window closes | `Wardrive` |
| APRS-IS (`aprsis.py`) | connection, `Deduper`, `RateLimiter` | `run`, `send`, gate rules | never gated twice, never echoed, never over the rate in any window | `IGate`; the login in `Settings` |
| Beacons (`beacon.py`) | last beacon, `not_before` | `due_*`, `hold`, `sent` | beacons go on, spaced, whatever was refused | `Beacon` |
| KISS (`kiss.py`) | decoder buffer, connection | `feed`, `encode_frame`, `run` | decoding does not depend on chunks; a bad frame costs only itself; connected where it is told | `Kiss`, `Clients` |
| FTM-200 (`ftm200.py`) | line buffer, header, port | parser, reader | header and info line are paired right; reads the device that is set | `Ftm200`, `Clients` |
| GPS (`gps.py`) | last fix, connection | client | a stale fix is not used | `Beacon`, `Clients` |
| Event bus (`events.py`), head unit (`head/client.py`, `models.py`, `grouping.py`) | bounded queues, mirrors, sorted rows | `publish`, snapshot and event handling | a reload repairs the copy; the view shows the model | `HeadMirror`, `RowModel`, `Cards` |
| Direwolf (`direwolf.py`, `configure.py`) | generated config, systemd unit | `apply`, `stop`; `aprsx-config` | the last settings win, and what is behind them is known | `Settings` |
| Tiles, audio monitor, Wi-Fi, sessions | caches, subprocesses | | | no |
| Encoding and parsing (`ax25.py`, `aprs/`, `stations.py`) | none | formatting | round trips; unit-tested | no |
| Configuration, entry points, `sysinfo.py` | none that evolves | | | no |

### How they interact

* `Core.handle_packet` decodes a frame from RF or APRS-IS, stores it, feeds stations
  and gating, and hands message packets to `Messenger.handle`.
* `Messenger` transmits through `Core.transmit`, which chooses RF or APRS-IS and
  returns False when neither can send. It is called from the event loop
  (`_message_loop`, once a second, and `handle`) and from worker threads (`send`).
* `Core._mesh_loop` calls `MeshService.tick` once a second; the tick awaits the radio
  through `MeshLink`'s commands. `MeshLink.on_event` calls `MeshService` on the event
  loop, also while a tick or a POST is awaiting.
* `Core.update_config` saves settings, may await Direwolf for seconds, and then starts,
  cancels or restarts the link tasks.
* All of them publish to the `EventBus`, whose subscribers are WebSockets.

### What is hard

Rows that become due before the request that created them has served them; updates
computed from a copy read before an await; answers that arrive between a transmission
and its record; the death of the process at the same place; requests that fail and are not repeated; cancelled tasks that share
attributes with their successors; windows that must be wider than one delay and
narrower than another. `PROJECT.json` lists each at its line under `hazards`.

## 2. Modules

```
MessageLifecycle        what a sent message may go through (abstract)
      ^ implemented by
Messenger               aprsx/core/messaging.py with its tables
      ^ extended by
MessageExchange         the receiving side with the stations that send to us
MessagingProofs         theorems about Messenger and MessageExchange

IGate                   both gates with the stations table, Deduper, RateLimiter
Kiss                    aprsx/core/kiss.py: encode_frame and the decoder
Ftm200                  aprsx/core/ftm200.py: the line parser and its idle flush
HeadMirror              events, /ws and requests; the head unit's copy of the messages
RowModel                aprsx/head/models.py: sorted rows and what a Qt view makes of them
      ^ used by
Cards                   grouping.py and the carousel of aprsx/head/client.py

MeshDm                  direct messages of aprsx/core/mesh.py
MeshSync                the first half of MeshService.tick: clock, channels, name, position
Wardrive                aprsx/core/wardrive.py with its tables
MeshLink                aprsx/core/meshlink.py: run, with update_config and _sync_mesh
Settings                update_config with Direwolf, systemd, the radio and the APRS-IS login
Clients                 run and set_address of the KISS, gpsd and FTM-200 clients
Beacon                  aprsx/core/beacon.py with the GPS fix it uses

MeshDmProofs, MeshLinkProofs                theorems about the module of that name
ReceptionProofs                             theorems about IGate, Ftm200 and Kiss
HeadProofs                                  theorems about HeadMirror, and Cards with RowModel
WardriveProofs                              theorems about Wardrive and MeshSync
SettingsProofs                              theorems about Settings, Clients and Beacon
FoldFacts                                   lemmas for any operator: induction by sets, and what
                                            FoldLeft computes; instantiated by the two that fold

MCMessenger, MCMeshLink                     small instances of one component
MCMessaging, MCDelivery, MCReception,
MCSettings, MCMeshLoop                      small instances side by side, see section 3
```

Conventions shared by the modules:

* **Time is relative to now.** `next_try = now + d` is a countdown set to `d`;
  `ts >= now - w` is an age of at most `w`. `Advance` (or `TimePasses`) moves all of
  them by one unit. The state stays finite and no clock has to be bounded.
* **One step per atomic region.** A database method, a stretch of event-loop code
  between two awaits, or a cancellation with the handlers it runs up to their first
  await.
* **History variables** (`txs`, `quiet`, `answered`, `late`, `acks`, `stored`, and those
  marked `history` where they are declared) record what happened. No guard reads them, with
  one exception: the environment of `Messenger` answers only what was transmitted (`Heard`).
* Definitions introduced by a comment `Mutant of X` are wrong variants of X, each a
  mistake one could make in that code. They are not part of any specification; with one
  in the place of X the property it is meant for is violated, which shows that the
  property depends on the code being as it is.

### Messenger

| Code | Model |
|---|---|
| `settings.msg_seq` | `seq` |
| `messages`, direction out | `out[i]`: state, peer, msgno, tries, next_try; named by the number that created it |
| `messages`, direction in | `inbox[p, m, x]`: age of the newest copy, all `find_duplicate` looks at |
| `_reply_ack`, `_acked` | `replyAck`, `holdoff` |
| a thread inside `send` | `thr[w]`: `Number`, (`RejectText`), `Add`, `Transmit`, `Record` |
| `tick` with all its rows | `Tick` |
| `handle`: ack, rej, reply-ack | `HandleResponse` |
| `handle`: a text | `HandleText` |
| `transmit`'s result | `link` |
| the process dying and starting | `Restart(served, cut)`: memory is lost, the tables stay |
| ... in the middle of a tick | `served`, the rows it was done with; `cut`, one more that it had transmitted and not written |

A tick that the process survives is one step although a worker may run between two of its
rows. The link does not change during a tick, which awaits nothing, and worker and tick touch
the same row only at its first try. There the outcome is the same as with the worker before
the tick or after it, but for two cases, in both of which the tick's write comes last: the
worker records its refusal between the tick's read and its write of a try, or its try between
the tick's read and its write of a refusal. `Record` has both as outcomes of their own. A tick
that the process dies in ends after any set of its rows, and after the transmission of one
more: the table does not know of that one (`Cut`). The same happens in `send`, whose steps are
actions.

`Advance` needs all workers idle: a send takes milliseconds, a unit of time stands for
seconds.

`Acknowledge` settles the newest pending message with the acked number, as
`find_pending` does. `Heard` restricts answers to numbers that went on the air; a peer
that makes numbers up would be believed by the code too, and is not modelled.

### MessageExchange

Extends `Messenger` with stations that transmit, repeat and are heard through several
paths. The stations are external; their timing is stated as `TimingAssumption`, whose
parts are what the comments in `messaging.py:30-34` take for granted: copies arrive
within seconds, retries come later than the holdoff, for at most half an hour, and an
unnumbered text that is said twice on purpose comes later than the short window. The
second part reads `CopySpread + AckHoldoff <= PeerRetry`: the comment asks only for a
holdoff below the retry interval, but a *late* copy can be the one that starts the
holdoff, so the spread of the copies has to fit as well. With 20 s of holdoff and
retries after 30 s, 10 s are left for it. `DiesHandling` is the death of the process between
the ack of a text and its row.

### MeshDm

| Code | Model |
|---|---|
| `mesh_messages`, direction out, `dm:` | `rows[i]`: state, attempts, codes (the words of `expected_ack`, each named by its try: the firmware computes it from the text, its time and the attempt), next_try |
| a POST in `send`, the task in `tick` | `work[t]`: which await it is at, the row and the copy of the row it works from |
| the rows `tick` has read and not served | `todo` |
| `now` as read at the start of `send` or `tick` | `age[t]` |
| the radio | `device`: "ok" answers commands, "bad" refuses them, times out or is gone |

`Send`, `TickStart`, `Select`, `PathReset`, `Transmitted`, `Record` and `Refused` are
the stretches between awaits. `Refused` may follow a transmission: the answer can be
lost. An ack (`Acked`) counts only for a pending row that lists its code, so one that
overtakes `Record` is dropped, as in the code.

`SendLag < MinAckWait` is an assumption about something external, the timeout of a
command in the meshcore library: a POST does not await one command longer than
`MIN_ACK_WAIT_S` (10 s). Without it `FailedAfterTries`, `OneLateTry` and `RetryWaits`
fail, because a POST that still awaits its first command writes `attempts = 1` over
what several ticks recorded. `RetryWaits` says how far the clock that was read before an
await shortens the wait for an ack: by the longest a POST or a tick takes (`LongestLag`),
whichever is longer.

### MeshLink

| Code | Model |
|---|---|
| `Core.config.meshcore` | `config` |
| a running `update_config` | `puts[p]`: whether it decided on a restart; `Save` before its await, `Apply` after |
| `Core._mesh_task` | `current` |
| every task ever created for `run` | `task[t]`: the await it is at, the device it opened |
| `MeshLink._mc`, `.connected` | `mc` (whose session it is), `connected` |
| what is plugged in | `plugged` |

A cancellation is delivered in the step that requests it: asyncio throws it in at the
next turn of the loop, before a task created in the same step can have opened a port.
What the cancelled task still awaits (`_close`, up to 5 s) is a state of its own:
`"leaving"` when it had a radio, `"shut"` when it was opening one. Opening or using a
port that another task still holds may fail and may not.

### IGate

| Code | Model |
|---|---|
| `stations.rf_heard`, `rf_direct`, `channel` | `rfHeard`, `rfDirect` as ages, `channel` |
| `_gated`, one Deduper for both directions | `toIs` by packet and form, `toRf` by message |
| `RateLimiter._sent` | `sent`, as ages, oldest last |
| `handle_packet` from a frame on RF | `HandlePacket`; `HandleThirdParty` for a relay's packet |
| `handle_is_line` | `HandleIsLine` |

A packet is a record of sender and addressee; its copies differ in the path (direct or
digipeated, one that forbids gating or not) and in the form, plain or inside a third-party
packet. These are what `rf_to_is_line` and the Deduper's key tell apart. The settings,
the login and the radio are an input of each step: either on or off. Nothing here awaits,
so each handler is one step. What the messenger does with the same packet is
`MessageExchange`.

### Kiss and Ftm200

`Kiss` translates the decoder byte by byte; `Framed` says, without a state machine, which
frames a stream of bytes stands for, and `FramesAsWritten` says that the two agree on
every stream in every chunking, and that a frame written by `encode_frame` comes out
whole whatever came before it. `Ftm200` cuts each line in two halves: enough for a
line that is read in pieces, stops half way, is flushed, or is joined to a later one.

### HeadMirror, RowModel, Cards

`HeadMirror` has the table, the worker thread of `POST /api/messages` (stores, publishes,
tries, publishes what it reads back, answers), the bounded queue of one WebSocket, and the
head unit's requests. Those of `refresh` are answered and applied in any order, or fail, and a
failure is dropped as `refresh`'s callbacks drop it (`Fails`); the answers to the head unit's own
messages and reads come, or are lost. `RowModel` is a record of rows and of the view: the view
changes only by the signals, with Qt's rule for the destination of a move. `Cards`
regroups after each change as `_regroup` does, and brings a `RowModel` in step.

### MeshSync and Wardrive

| Code | Model |
|---|---|
| `_next_sync`, `_next_contacts`, `_name_tried`, `_position` | variables of these names, times as time left |
| the command `tick` awaits | `syncTick`: which one, on which connection, for which place |
| `MeshLink.connected`, `self_info` | `connected`, `selfInfo`, with `conn` counting connections |
| `wd_sessions`, `wd_pings`, `wd_obs` | `sess`, `pings`, `obs` |
| `session_id`, `_open`, the counters | `session`, `open`, `count`, `nodes` |
| the worker threads in `start` and `stop` | `worker[w]`: the call of the store each makes next |
| `_ping` and `_advert` awaiting the radio | `tick` of `Wardrive` |

`stop` runs on a worker thread as three steps (close the ping, end the row, clear the
session) and on the event loop, when MeshCore is switched off, as one. Nothing keeps two
threads out of `start` and `stop` at once, and nothing in the model does: two starts can open
two sessions (`wardrive.py:77-80`), of which one stays open until the next start of the process.
The history `overlap` remembers that a start or stop has begun beside another one, and what is
said of sessions and counters is said until then.

### Settings, Clients, Beacon

`Settings` models a PUT as two steps around its await of `systemctl`, and systemd as a
queue of jobs that outlive a caller who gave up after 30 s. Each job may fail. It begins where
`install.sh` leaves a new Pi: settings of any kind, managed ones too, the unit enabled and not
started, the core down. `CoreStarts` has both branches of `Core.start`, `Configures` is
`aprsx-config` while the core is down, `Reboot` starts the unit on the configuration there is.
`behind` is a history of what the settings are ahead of: `direwolf.conf` (its write failed, or
they changed while the core was down) or the unit alone (the first start wrote the file and
told nobody). `Clients`
has the await of `open_connection` between reading an address and using it, and the
reader's `_reopen` event with each place that waits for it or clears it. `Beacon` has
SmartBeaconing's rules as integer arithmetic: rate and turn threshold are compared by
cross-multiplication, without division, so nothing is rounded. Each parameter has the bound
`config.py:20-26` gives it, and no order among them is assumed.

## 3. Runs

| Run | Asks | Result |
|---|---|---|
| `messaging` | Do tries stay counted and spaced, and does the table implement the life cycle, with two workers racing the tick, a death of the process at any point, and answers? Is what is repeated to us stored once and acked once per transmission? | holds, 521 thousand states |
| `delivery` | Are mesh messages given up after all tries only, no recorded code dropped, at most one try too many, and are they and the APRS messages settled? | holds, 322 thousand states |
| `reception` | Does what is heard come in whole, get gated once, never echoed and never over the rate, and shown as the core has it? | holds, 505 thousand states |
| `mesh_link` | Does one task at most run the mesh link, and does it follow the settings, in whatever order changes, cancellations and plugs come? | holds, 122 thousand states |
| `settings` | Do the radio, the login, Direwolf, the clients and the beacons follow the settings, in whatever order changes, failures, jobs, starts and reboots come? | holds, 315 thousand states |
| `mesh_loop` | Does a device that stays connected get synced, and do the war-driving tables and counters agree with what was sent? | holds, 301 thousand states |
| `messenger_schedule` | Is a message transmitted by the documented schedule? | violated, see 4 |
| `mesh_dm_acked` | Is an acked message done? | violated, see 4 |
| `mesh_link_stays` | Does the running session stay connected? | violated, see 4 |
| `mesh_sync_complete` | Is a sync complete when none is due? | violated, see 4 |
| `clients_where_set` | Is a client connected where it was told? | violated, see 4 |
| `head_mirror_missed` | Does the head unit have every row it was to reload? | violated, see 4 |

Five runs put several parts side by side: `messaging` (`MessageExchange`, as the part that
sends and as the part that receives), `delivery` (`MeshDm`, and an instance of `Messenger`),
`reception` (`IGate`, `Kiss`, `Ftm200`, `HeadMirror`, `Cards`), `settings` (`Settings`,
`Clients`, `Beacon`) and `mesh_loop` (`Wardrive`, `MeshSync`). The module of the last three
extends the modules of all its parts, so that a run and a theorem name the same definition.
The components of a run share no variables, so their product would say nothing more: in one
behaviour the part named by `part` moves and the others stay in an initial state. The state space is the sum of the
parts, and a property speaks of its own part. `RowModel` and `Cards` are the two that do
interact: `Cards` drives `RowModel`. Types that are proved and that nothing but a misspelt record
would break (those of `HeadMirror`, `Settings`, `Clients`, `Beacon`, `Wardrive` and
`MeshSync`) are not repeated by a run.

| Property | Says |
|---|---|
| `FramesAsWritten` | frames come out as they stand between the FENDs of the stream, whatever the chunks; what `encode_frame` wrote comes out whole, whatever came before |
| `PacketsWhole` | packets the FTM-200 wrote whole are handed on once and in order, and nothing else is made of halves of two packets |
| `GatedOnce` | a packet goes to APRS-IS once in the window, and one that came from there never, in no form |
| `RateKept` | every limit holds in every window of its length |
| `NoEcho` | a message that was on RF here within the half hour is not sent there by us |
| `RefreshRepairs` | a connection made while the core rests ends with the core's count, and with its rows unless their request failed or a read did not reach the core |
| `ViewInStep`, `CardsShowMessages` | the view is the model; the model is each message once, on the card it belongs to |
| `LinksFollowSettings`, `DirewolfAsSet` | when no PUT is waiting, radio and login are those of the settings, and the APRS-IS task runs exactly when enabled, unless its reader's error ended it; when the last job worked and nothing is behind, Direwolf is as set |
| `CodesKept` | no step drops an ack code that a row lists, a write from an old copy neither |
| `TriesCounted` | the table counts every transmission but one, and one more for each restart |
| `OneBackend` | the task of a radio backend runs while that backend is chosen, and only then |
| `FtmReadsWhereSet` | the FTM-200 reader ends up on the device that is set |
| `BeaconsSpaced`, `BeaconsGoOn` | automatic beacons keep their distance after a sent and after a refused one, and keep going out |
| `Settles` | a device that stays connected ends synced, named and placed |
| `CountersMatchTables`, `StrayPingsGoForward`, `OneOpenSession`, `WindowsClose` | war-driving counts what it stored; a ping that outlives its session goes to a later one; one session is open; each until a start or stop ran beside another. A ping's window closes |

Bounds, and why they are enough:

* `messaging`, our messages: 2 workers and 2 messages, because the races are between one
  worker and the tick and between two workers for their numbers; a third adds no new pair.
  Delays `<<2, 3, 3>>` in place of 30, 60, 120, 120, 120: a first delay longer than `TxWait`
  (1), a longer second one, and a repeated one. One restart at any point, in the middle of a
  send or of a tick too. `MsgnoSpace` is one more than the number of messages, the smallest for
  which numbers are not reused. The workers are interchangeable: a symmetry set, in a run without liveness.
* `messaging`, messages to us: the windows are in units of 10 s and more, in the order of
  the real ones (holdoff 2 < retry interval 3 < duplicate window 7, unnumbered window 2).
  Three transmissions let a retry follow a retry. One station numbers its messages and one
  does not. One restart, in which the holdoff is lost and the table is not.
* `delivery`, `Messenger`: one worker and one message, since liveness is per message; a
  peer that sends one text, numbered or not, with or without a reply-ack.
* `reception`, `IGate`: two stations here and one on the internet. A message between the two,
  one from the internet to the same station, and a packet of that station that is no
  message: a message can be heard, gated out, come back, be gated in and be relayed. Windows
  of 1 and 3 units with limits 1 and 2: each limit refuses something the other would allow.
* `reception`, `Kiss`: every stream of up to five bytes out of the four special ones, a data
  command and another, in chunks of one and two: all states of the decoder at every kind
  of byte, before each of five frames. `Ftm200`: two packets in any order, written
  in six pieces each, up to 8 pieces unread: a whole packet and the pieces of the next.
* `reception`, `HeadMirror`: two messages, a queue of one (the real one holds 200), so
  that events are lost early; `head_mirror_missed` has a queue nothing is lost from. Two bounds
  of the instance (`HeadBound`): the head unit's own message is under way while there is one
  row, and a try is published or answered while no reload waits to be applied.
  `Cards`: three APRS messages of two stations (split, joined and reordered cards), or one
  beside two MeshCore messages.
* `delivery`, `MeshDm`: one POST at a time beside the tick, because a second POST has its
  own row; two messages, because the copies of the second grow old while the first is awaited.
  `DmTries` 2: a first try and a last one, the one that resets the path; more tries
  repeat the first. The device suggests a wait below the minimum.
* `mesh_link`: three settings changes, so that two can interleave and a third can follow,
  two devices, and four starts, the most these can cause.
* `settings`: two PUTs at a time and the start, six settings that differ in all fields, two
  jobs in systemd. A caller does not ask for a job while an earlier one of its own is queued,
  and nobody does while two are. `Clients`: two addresses. `Beacon`: four motions (standing, two
  speeds across north, too fast to be true), and three settings: smart as it is meant to be,
  smart with a slow rate below the fast rate and a turn time above it, and fixed.
* `mesh_loop`: two connections, so that one drops while the other's command is
  awaited; two places. Two war-driving sessions, pings and packets: a ping that outlives
  its session has another to go to. Two threads in start and stop: a request goes to the first
  that is idle (`FirstIdle`, they are alike), and once one ran beside another there is one
  ping at most and no observation (`OverlapRows`).

Fairness, and what in the code justifies it:

* `Tick`, `TickStart`, `TickStarts`, `TicksUnready`, `BeaconTick`: `_message_loop`,
  `_beacon_loop` and `_mesh_loop` run every second for the life of the process. `Advance`:
  time passes.
* `Finish(w)`, `Works`, `PressSends`, `PressTells`: a worker thread goes on. Of `Finish`'s
  alternatives (a text that does not encode, one that does) each is enough.
* `Resume(t)`, `Select`, `Answered`, `Resumes`: a command to the radio comes back, answered
  or not; the library times out.
* `Step(t)`, `Apply(p)`, `FtmOpens`, `FtmReopens`: asyncio runs tasks that are ready;
  connecting succeeds or fails; closing is bounded by 5 s; Direwolf's restart returns; the
  reader's waits have timeouts.
* Not assumed: that the link comes up, that anybody answers, that anybody plugs a device
  in or changes settings. The liveness properties are conditional instead: *if* from
  some point on the link stays up, the radio answers, the device is plugged in.

## 4. Divergences found

1. **`messenger_schedule`: a message can go out twice at once.** `docs/PROGRESS.md:259`
   says it is sent at 0, 30, 90, 210 and 330 s. `send` adds the row as due at once and
   then transmits it; on its worker thread it can be overtaken by the tick in between.
   Both transmit and both record try 1. What does hold is proved: `TriesCounted`, the
   race costs one transmission, and each death of the process at most one more, and `TickSpaced`, the tick itself keeps the delays,
   except that a first gap can be `TX_WAIT_S`.
2. **`mesh_dm_acked`: acked becomes failed.** The tick reads all due rows and then
   awaits the radio between them. An ack for a later row is overwritten by `failed`, or
   the acked message is sent again (`OneLateTry` shows: once).
3. **`mesh_link_stays`: a session loses its attributes.** A task cancelled while opening
   its port closes the port first and only then runs its `finally`, which clears `_mc`
   and `connected`, those of its successor's session by then. The radio stays open and
   every command raises "not connected". `FollowsSettings` speaks of the session, and
   holds; `StaysConnected` speaks of the attributes, and does not.
4. **`mesh_sync_complete`: synced, but not complete.** A `get_channel` that fails ends the
   list without an error, and the sync counts as done with part of the channels or none.
   And a sync that awaited the old connection clears the request of the new one when
   it ends. `Settles` shows what does hold: no sync stays due for ever.
5. **`clients_where_set`: connected to the old address.** `set_address` has nothing to close
   while `open_connection` to the old address is awaited, and `run` then uses it. The
   FTM-200 reader has the same hazard and not the fault: `FtmReadsWhereSet`.
6. **`head_mirror_missed`: a reload that misses.** The answer to a request is as old as the
   moment it was read. An event that overtakes it is undone when the answer replaces all
   rows. `RefreshRepairs` shows what does hold: a connection made at rest repairs the copy.

Without a run, but met on the way and visible in the models:

* `ftm200.py` takes any text before `>` for a call sign, so a header that lacks its beginning,
  cut off by a pause or before the port was opened, is taken for one and its packet handed on
  with a cut-off sender. `PacketsWhole` allows for it.
* A line longer than the stream reader's limit makes `readline` raise ValueError
  (`aprsis.py:172`), which `aprsis.py:154` does not catch: the APRS-IS task ends. `aprsis.py:3-4`
  says it reconnects, `aprsis.py:141` that it reads forever, and `service.py:143` that it runs
  exactly when it is enabled. Nothing starts it again but a PUT or a restart. `is.phase = "dead"`
  in `Settings`; `LinksFollowSettings` excepts it by name.
* The comment in `deploy/aprsx-direwolf.service` says of the configuration "The core writes it
  and restarts this unit". At the first start after `install.sh --callsign` the core writes it and
  does not (`service.py:96-97`): the unit stays stopped until the next boot or the next change of
  one of its settings. `DirewolfAsSet` excepts it (`behind = "unit"`).
* `aprsx-config` on a stopped core, as `docs/INSTALL.md:75-77` has it, never reaches an existing
  `direwolf.conf`: `Core.start` writes only a missing one (`behind = "conf"`).
* `client.py:157` says "Reload everything; runs after every (re)connect so nothing is missed". A
  request of that reload that fails, or is answered with an error, is not repeated until the next
  connection (`client.py:158-168`, `281-292`). `RefreshRepairs` and `NothingMissed` except the
  rows then (`rowsLost`); the count comes right by the status `/ws` sends first.
* The counter of pings on the screens leaves out adverts (`wardrive.py:147`, `162`), the number
  of pings in the list of sessions counts them (`store.py:634`). `CountersMatchTables` says what
  the first one is.
* Two starts of war-driving at once leave a session open that no stop ends until the core
  restarts; `docs/PROGRESS.md:192` says a session "ends when stopped or when the core restarts".
* A process that dies between the ack of a text and its row (`messaging.py:145-153`) has
  told the sender that it was delivered, and does not have it.
* `config.py:20-24` takes a `slow_rate_s` below `fast_rate_s`: a parked station then beacons more
  often than a fast one. `BeaconsSpaced` says which rate is kept when.

## 5. Proofs

TLAPS checks the theorems below for every value of the constants; the runs check the same
properties on the instances of section 3. `Messenger`, `MessageExchange`, `MeshDm` and
`MeshLink` state what they assume of their constants as `ASSUME`. The other modules are
put side by side in runs, so there the assumption is an operator (`IGateConstants`,
`KissConstants`, `FtmConstants`, `HeadConstants`, `CardsConstants`, `WardriveConstants`,
`SyncConstants`, `SettingsConstants`, `ClientsConstants`, `BeaconConstants`), a hypothesis
of each theorem, and the MC modules assume it of their instances.

| Module | Theorem | States |
|---|---|---|
| `MessagingProofs` | `Invariance`, `TypesKept` | `Spec => [](TypeOK /\ IInv)` of `Messenger` |
| | `TriesAreCounted` | `[]TriesCounted`: the table counts every transmission but one, and one more for each restart, and none that did not happen |
| | `TicksAreSpaced` | `TickSpaced`: the tick repeats or gives up only after the delay its last counted try asks for, from the last transmission the process lived to record |
| | `Implements` | `Lifecycle`: `Messenger` implements `MessageLifecycle` |
| | `ImplementsMessenger` | `XSpec => Spec`: `MessageExchange` implements `Messenger` |
| | `ExchangeTypes`, `StoredOnce`, `AckedOnce`, `RetriesAcked` | `XSpec => []` of `XTypeOK`, `HeardIsStoredOnce`, `OneAckPerTransmission`, `HeardIsAcked` |
| `MeshDmProofs` | `TypeCorrect`, `GivesUpLate`, `NoCodeLost`, `LateTryOnce`, `RetriesWait` | `TypeOK`, `FailedAfterTries`, `CodesKept`, `OneLateTry`, `RetryWaits` |
| `MeshLinkProofs` | `TypeCorrect`, `RunsOnce`, `ShownIsUsable` | `TypeOK`, `OneRunner`, `ConnectedIsUsable` |
| `ReceptionProofs` | `TypeCorrect`, `GatesOnce`, `KeepsRate`, `NothingEchoed` | `TypeOK`, `GatedOnce`, `RateKept`, `NoEcho` of `IGate` |
| | `FramesWhole` | `FramesAsWritten` of `Kiss` |
| | `WholePackets` | `PacketsWhole` of `Ftm200` |
| `HeadProofs` | `HeadTypeCorrect`, `Repaired` | `HeadTypeOK`, `RefreshRepairs` of `HeadMirror` |
| | `ViewKept`, `EachShownOnce` | `ViewInStep`, `CardsShowMessages` of `Cards` and the `RowModel` it drives |
| `WardriveProofs` | `TypeCorrect`, `OneSessionOpen`, `CountersAgree`, `StraysGoForward` | `TypeOK`, `OneOpenSession`, `CountersMatchTables`, `StrayPingsGoForward` of `Wardrive` |
| | `SyncTypesKept` | `SyncTypeOK` of `MeshSync` |
| `SettingsProofs` | `TypeCorrect`, `LinksAsSet`, `DirewolfFollows` | `TypeOK`, `LinksFollowSettings`, `DirewolfAsSet` of `Settings` |
| | `OneReader` | `OneBackend` of `Clients` |
| | `BeaconTypeCorrect`, `KeepsPace` | `BeaconTypeOK`, `BeaconsSpaced` (an action property) of `Beacon` |

Hardly a property is inductive as it stands. What each proof adds, and why it is needed:

**Messenger.** `TriesCounted` is broken by a worker that writes `tries = 1` over a row that
has more, so one must know that it cannot find such a row. `IInv` has `Ownership` (a worker
inside `send` holds a number of its own and a row nobody else will create, so the late
writes of two workers are independent), `FirstTry` (while a worker is in `send` its row is
at most at its first try; time does not pass under a worker, so the tick cannot have made
a second), `RowsMatch` (rows above the counter do not exist yet) and `Spaced` (a pending
message's countdown and the time since its last transmission add up to the delay; a transmission
the process died on is not one it could count from, and `quiet` leaves it out). Types and
`IInv` are proved together, since the type of `tries` after `Record` rests on `FirstTry`.
`TickSpaced` follows from `Spaced` for the tick and from `thr' = thr` for everybody else. A
restart in the middle of a tick is a set of rows served like a tick serves them and one more
transmission, which `TriesCounted` grants each restart.
The refinement maps every step to a move per message (`NextMoves`), where `TriesCounted`
gives that a message with all its tries counted was transmitted as often, and `Heard` that
an answered one was transmitted at all. From `DelaysAssumption` (a non-empty sequence of
positive delays), `BoundsAssumption` and `NoReuseAssumption` (fewer messages than numbers).

**MessageExchange.** The composition is a behaviour of `Messenger`, which gives its types.
`XInv` says, for each peer, how the age of its row in the table and what is left of the
holdoff go with the peer's own clocks: while copies of a numbered message can come, its row
is as young as the message, and so within the duplicate window (`RetryInv`); an unnumbered
one's is as young as its transmission, and has left the short window when the next one comes
(`RepeatInv`); a holdoff that runs was started by this transmission, outlasts its copies and
is over before the next (`AckInv`). Every part of `TimingAssumption` is used. It also says
that a numbering peer has a number and every peer a text to send: without a number
`NumberOf` would be arbitrary.

**MeshDm.** The hard part is who holds a copy of a row and how old it is. `CopyFits`: no
copy is more than one answer behind its row, so what is written from it loses no try and
no code: the count never goes down (`TriesGrow`), and the codes of a row are those of its tries
(`CodesKept`). `PostFirst`: while a POST holds its row, the loop can have read it only before the
first answer and with a later clock; this is where `SendLag < MinAckWait` is needed.
`LateOnce`: a message transmitted after its ack is in nobody's hands to be transmitted
again. `WaitKept`: `next_try` and the time since the last transmission add up to the wait.
The proof corrected the property: with a POST that may take longer than a tick,
`RetryWaits` with the lag of the tick alone does not hold.

**MeshLink.** `CreatedPrefix` (tasks are numbered in order, one per finished PUT), `CurrentAlive` (Core
never holds a task it has cancelled) and `AttributesAgree` (`_mc` and `connected` go
together and are those of the running session).

**IGate.** `GatedInv`: the Deduper has the age of the one line in the window. `HeardInv`: a
station's row is as young as each of its packets on RF, so a message that was on RF finds
its sender local. `SentInv`: the limiter's entries are sorted and, for each limit, entry
`i + most` is at least a window older than entry `i`. `LogInv`: the i-th transmission is no
younger than the i-th entry, so there are as few of them. `RateKept` is then a counting
argument. The list of send times is cut at its old end, as the code's loop of `popleft`
does, and `IGateConstants` says that one of the limits has the longest window.

**Kiss.** `Framed` defines frames by positions in the whole stream, the decoder keeps a buffer
and two flags. `Decodes` ties them: a frame is being read iff there was a FEND; the buffer is
what the bytes since the last FEND stand for (`Plain`), and the flag `_escape` says whether
the next byte follows an open FESC, which depends on the length of the run of FESCs before
it. Lemmas say what one more byte does to each of the definitions by position (`PlainMore`,
`FendsMore`, `FramedMore`) and that the decoder's step does the same (`StepDecodes`); a chunk
of any length follows by induction over its prefixes, and so the frames do not depend on how
the stream was cut. For `encode_frame` the same induction runs over the payload: what it
writes for one byte makes the decoder add that byte, from any state after a FEND.

**Ftm200.** What has been written and not read is part of the state: `FtmInv` speaks of the
parser as it would be had it read all that is waiting (`Parsed`). It would then hold, of the
packet that is being written, what is not lost of its first pieces (`InStep`: all of them, or,
after a pause cut it off, a header without its beginning or the info line under one), and
have handed on what is due (`Matches`). Reading in pieces makes no difference because a parser
that reads `a` and then `b` is one that reads `a \o b` (`FoldSame`, `FoldAppend`).

**Cards.** `CardsInv`: the model is in `Shown` (the view has the model's rows, they are in
order, and no two have a key in common) and its cards are those that grouping the messages
anew gives. Qt counts the destination of a move before the row is taken out; the lemmas about
one card that is put in, taken out or moved show that view and model end up the same for
every list of rows and every position, and that the order is kept although the order of two
cards depends on all their fields. `GroupedTo` is the invariant of `group_messages` over
the rows it has read: every row is on one card, cards of a peer follow each other in time, a
card has the time and the read mark its rows give it, and two rows in a row of a peer are on
one card exactly when the second goes on with the first. Sorting by placing neither loses nor
doubles a card.

**Wardrive.** `SessionsInv` (rows are numbered without a gap, the running session is the
last), `WorkerInv` (one thread is in `start` or `stop`, and what its next step can rely on), `OpenInv` (the
open ping belongs to the running session), `TickInv` (what a tick remembers over its await
is of an earlier session or of this one) and `StrayInv` (a session has one stray ping, and
then no tick of an earlier session is left to bring another). All this is lost once a start or
stop ran beside another; `RowsInv` is what remains, and from it a restart restores the rest.

**Settings.** `LinksInv`: what the links are not yet, a waiting PUT will see to, and an old
login one that changed it. `DirewolfInv`: `direwolf.conf` is that of the settings in force
and the last job of systemd's queue asks for what they ask for, so the order in which
callers give up does not matter. It holds while nothing is behind, and with the core down as far
as a start finds it right: the start stops the unit when the radio is the other one, and a
reboot starts it.

**Clients, MeshSync.** `OneBackend` and the types of `Clients` are inductive together, from
`ClientsConstants` (the KISS client is one of the TCP clients, the FTM-200 reader is not).
`SyncInv` adds to
the types of `MeshSync` that a connection has a `self_info` and that a command was given on
this connection or an earlier one.

**HeadMirror.** `RepairInv`: while the core has been at rest since the connection was made,
the queue carries nothing but its status, an answer that is on its way has its rows and its
count, and what was applied is that. Whatever is applied last is right therefore, in any
order; what fails changes nothing but the promise about the rows.

**Beacon.** `RefusedInv`: the age of a refused attempt and what is left of the hold make
up `BEACON_RETRY_S`. `SentInv`: the scheduler knows of the last automatic beacon or of a later one,
so its age is a lower bound. The rate in between, compared by multiplication, is no faster
than the fast rate (`SlowerThanFast`), whatever the slow rate is, and the code's heading difference is the smaller turn
modulo 360 (`HeadingIsTurn`). `BeaconConstants` says that of the settings considered one has
the longest interval, which the bound on ages needs.

**Folds and induction.** `Kiss`, `Ftm200`, `RowModel` and `Cards` are written with `FoldLeft`,
which the community modules define by recursion over sets, and the library's induction
theorems take an operator, which the installed provers cannot instantiate. `FoldFacts` goes
another way. Induction over the natural numbers is a fact about sets: a set of naturals that
is not empty has a least element (from `WFMin` and `NatLessThanWellFounded`, neither of which
takes an operator), so a set with 0 in it that is closed under successor is all of `Nat`; the
same for the prefixes of a sequence. For `FoldLeft`, the module has the operator as a CONSTANT
and proves the value for the empty sequence and for one element more. The proofs instantiate
it once for each operator that is folded. What this does not reach is a RECURSIVE operator;
the models that are proved about have none.

Model-checked only:

* liveness (`EventuallyResolved`, `EventuallySettled`, `FollowsSettings`, `OffMeansOff`,
  `FtmReadsWhereSet`, `BeaconsGoOn`, `Settles`, `WindowsClose`), which is outside what the
  prover does;
* what the six runs of section 4 refute, which is false of the code.

## 6. What is left out

* Text, encoding and parsing: a text is a member of a small set, a packet is the fields
  the handlers read (`ax25.py`, `aprs/`, `stations.py`, the filters and configuration files
  as text).
* Reuse of message numbers after 1296 messages (`NoReuseAssumption`).
* The tick of `Messenger` is one step unless the process dies in it (section 2 says why that is
  enough), and so is `handle` but for `DiesHandling`.
* asyncio transports and queues used from a worker thread (`service.py:494`): what that can
  do is below the level of these models.
* `_acked` is pruned at 500 entries, which drops only entries that are out of the
  holdoff, and the Deduper at 1000; the models have no entries that are out of it.
* In `MeshDm` and `MeshSync`: channel messages, received messages and the table of nodes.
  In `MeshLink`: what becomes of a port whose close is itself cancelled, which is the
  library's affair; the choice of DTR, the health check (a session may end whenever the
  device is gone), the translation of events.
* In `Wardrive`: why a ping is paused, and reading sessions back (the lists, coverage, exports),
  change nothing and are left out. What the tables hold after two starts at once is modelled;
  nothing is claimed of the counters then.
* In `Settings`: `aprsx-config` used while the core runs, which `docs/INSTALL.md:75-77` warns of.
  In `Clients`: the reader's `_wake` event, which only shortens a wait; so a lost wake-up is
  not seen.
* A POST of a mesh message that waits for its first command longer than the minimal ack
  wait (section 2, MeshDm).
* In `HeadMirror` and `Cards`: stations, symbols, toasts, buttons; the MeshCore unread
  count, whose handlers have the shape of the other's.
* Files, subprocesses, sockets and D-Bus (`tiles.py`, `audiomon.py`, `netstate.py`,
  `auth.py`), web pages, QML, installation. In the tile cache, requests that queued before
  a fetch failed are still sent after it, although `tiles.py:35` has no retry for a time.

## 7. Plan

The modules of the first plan exist, and every safety property that holds is proved. What
would come next:

1. An abstract rate limit (no more than n in any window) that the code's one list of send
   times is proved to implement; `RateKept` states it as an invariant of the log.
2. The received MeshCore messages and their unread counts, and the tile cache.
