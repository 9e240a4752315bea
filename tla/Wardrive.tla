------------------------------- MODULE Wardrive -------------------------------
(***************************************************************************)
(* War-driving (aprsx/core/wardrive.py) with its tables in the store.      *)
(*                                                                         *)
(* Two parties change the session.  The tick runs on the event loop and    *)
(* awaits the radio for an advert and for a ping; between two awaits it is *)
(* one step.  start and stop run on the worker threads of the API, step by *)
(* step between their calls of the store, which wait for its lock; stop    *)
(* also runs on the event loop, when MeshCore is switched off.             *)
(*                                                                         *)
(* Nothing keeps two threads out of start and stop at once.  Two starts    *)
(* that both find no session open one each, and the first stays open       *)
(* (wardrive.py:77-80); a stop may clear the session of a start that ran   *)
(* beside it (89-93).  `overlap` remembers that the process has met such a *)
(* pair: what the properties say of sessions, they say until then.         *)
(*                                                                         *)
(* `until` is kept as the time left; `now` of a tick as its age: the tick  *)
(* of MeshService may have awaited the radio before it gets here.          *)
(*                                                                         *)
(* Bounds: MaxSessions, MaxPings, MaxObs rows; MaxAge of a tick.           *)
(***************************************************************************)
EXTENDS Integers, Sequences, FiniteSets

CONSTANTS
    Nodes,          \* the nodes that can be heard, by their first key byte
    DiscoverWindow, \* discover_window_s
    EchoWindow,     \* echo_window_s
    Interval,       \* interval_s
    AdvertEvery,    \* advert_interval_s; 0: no adverts
    RxKeep,         \* RX_KEEP
    Threads,        \* the worker threads of the API
    MaxSessions, MaxPings, MaxObs, MaxAge

WardriveConstants ==
    /\ {DiscoverWindow, EchoWindow, Interval} \subseteq Nat \ {0}
    /\ {AdvertEvery, RxKeep, MaxSessions, MaxPings, MaxObs, MaxAge} \subseteq Nat

VARIABLES
    sess,       \* wd_sessions: what each row is
    pings,      \* wd_pings: session, kind, heard; and, as history, when it was transmitted
                \* and whether no start or stop had run beside another when it was filed
    obs,        \* wd_obs: session, ping (0: none), kind, node
    session,    \* Wardriver.session_id, 0 for None
    count,      \* pings, pings_heard, rx
    nodes,      \* _nodes
    nextKind,   \* _next_kind
    lastPing,   \* _last_ping: its age, up to Interval, and whether we have moved since
    lastAdvert, \* age of _last_advert, up to AdvertEvery
    open,       \* _open: the ping's row, kind and time left
    worker,     \* the threads in start or stop: what each does next, the ping it has read
    overlap,    \* history: a start or a stop has begun beside another one
    tick        \* the tick: which await it is at, its age, the kind of its ping and,
                \* as history, the session then and the number of sessions there had been

table == <<sess, pings, obs>>
counters == <<count, nodes>>
pacing == <<nextKind, lastPing, lastAdvert>>
working == <<worker, overlap>>
vars == <<table, session, counters, pacing, open, working, tick>>

Session == 1..MaxSessions
Never == -1     \* no ping, no advert yet
NoOpen == [id |-> 0, kind |-> "none", left |-> 0]
Window(kind) == IF kind = "discover" THEN DiscoverWindow ELSE EchoWindow
AtRest == [at |-> "idle", age |-> 0, kind |-> "none", sent |-> 0, seen |-> 0]
NoWork == [next |-> "idle", heard |-> 0]
ZeroCount == [pings |-> 0, heard |-> 0, rx |-> 0]
Never0 == [age |-> Never, moved |-> FALSE]

Init ==
    /\ sess = [s \in Session |-> "absent"]
    /\ pings = <<>> /\ obs = <<>>
    /\ session = 0
    /\ count = ZeroCount /\ nodes = {}
    /\ nextKind = "discover" /\ lastPing = Never0 /\ lastAdvert = Never
    /\ open = NoOpen
    /\ worker = [w \in Threads |-> NoWork] /\ overlap = FALSE
    /\ tick = AtRest

-----------------------------------------------------------------------------
\* start and stop

Started == {s \in Session: sess[s] # "absent"}

\* Mutant of Reset: a ping of the last session stays open.
ResetKeepsOpen ==
    /\ count' = ZeroCount /\ nodes' = {}
    /\ nextKind' = "discover" /\ lastPing' = Never0 /\ lastAdvert' = Never
    /\ open' = open

Reset ==
    /\ count' = ZeroCount /\ nodes' = {}
    /\ nextKind' = "discover" /\ lastPing' = Never0 /\ lastAdvert' = Never
    /\ open' = NoOpen

\* A thread begins, beside others or not.
Begins(w, work) ==
    /\ worker' = [worker EXCEPT ![w] = work]
    /\ overlap' = (overlap \/ \E v \in Threads: worker[v].next # "idle")

Inserting == {w \in Threads: worker[w].next = "insert"}

\* POST /api/wardrive/start, which MeshCore switched on allows, up to the store.
StartBegins(w) ==
    /\ worker[w].next = "idle" /\ session = 0
    /\ Cardinality(Started) + Cardinality(Inserting) < MaxSessions
    /\ Reset
    /\ Begins(w, [next |-> "insert", heard |-> 0])
    /\ UNCHANGED <<table, session, tick>>

StartInserts(w) ==
    /\ worker[w].next = "insert"
    /\ \E new \in Session:
          /\ sess[new] = "absent" /\ \A r \in 1..(new - 1): sess[r] # "absent"
          /\ sess' = [sess EXCEPT ![new] = "open"]
          /\ session' = new
    /\ worker' = [worker EXCEPT ![w] = NoWork]
    /\ UNCHANGED <<pings, obs, counters, pacing, open, overlap, tick>>

\* What _close leaves of the open ping, given the row it has read; by then another may have
\* closed it.
Closed(heard) ==
    /\ open' = NoOpen
    /\ count' = IF heard > 0 THEN [count EXCEPT !.heard = @ + 1] ELSE count

HeardOf(p) == IF p = 0 THEN 0 ELSE pings[p].heard

\* POST /api/wardrive/stop: _close reads the ping's row, and clears _open after that.
StopBegins(w) ==
    /\ worker[w].next = "idle" /\ session # 0
    /\ Begins(w, [next |-> IF open = NoOpen THEN "end" ELSE "close", heard |-> HeardOf(open.id)])
    /\ UNCHANGED <<table, session, counters, pacing, open, tick>>

StopCloses(w) ==
    /\ worker[w].next = "close"
    /\ Closed(worker[w].heard)
    /\ worker' = [worker EXCEPT ![w] = [next |-> "end", heard |-> 0]]
    /\ UNCHANGED <<table, session, nodes, pacing, overlap, tick>>

Ended(s) == IF s = 0 THEN sess ELSE [sess EXCEPT ![s] = "ended"]

StopEnds(w) ==
    /\ worker[w].next = "end"
    /\ sess' = Ended(session)
    /\ worker' = [worker EXCEPT ![w].next = "clear"]
    /\ UNCHANGED <<pings, obs, session, counters, pacing, open, overlap, tick>>

StopClears(w) ==
    /\ worker[w].next = "clear"
    /\ session' = 0
    /\ worker' = [worker EXCEPT ![w] = NoWork]
    /\ UNCHANGED <<table, counters, pacing, open, overlap, tick>>

\* stop on the event loop, in one step: MeshCore is switched off, or the core stops.
SwitchOff ==
    /\ session # 0
    /\ Closed(HeardOf(open.id))
    /\ sess' = Ended(session)
    /\ session' = 0
    /\ UNCHANGED <<pings, obs, nodes, pacing, working, tick>>

-----------------------------------------------------------------------------
\* The tick

\* _due, for the ping's place in time and the road.
Due(age) ==
    \/ lastPing.age = Never
    \/ lastPing.age - age >= Interval /\ lastPing.moved

\* Whether the ping channel is on the device decides if a channel ping can be sent.
PingKind(chan) == IF nextKind = "chan" /\ ~chan THEN "discover" ELSE nextKind

Awaiting(at, age, kind) ==
    [at |-> at, age |-> age, kind |-> kind, sent |-> session, seen |-> Cardinality(Started)]

\* The end of the tick: a ping goes out, or the tick is over.
PingOrDone(age, o) ==
    IF o = NoOpen /\ Due(age)
    THEN /\ lastPing' = [age |-> age, moved |-> FALSE]
         /\ \E chan \in BOOLEAN:
               tick' = Awaiting("ping", age, PingKind(chan))
    ELSE /\ tick' = AtRest
         /\ UNCHANGED lastPing

AdvertDue(age) ==
    /\ AdvertEvery > 0
    /\ lastAdvert = Never \/ lastAdvert - age >= AdvertEvery

\* Mutant of TickCloses: the window is closed only when the next ping can go out.
TickClosesReady(age, ready) == ready /\ open # NoOpen /\ open.left + age <= 0

TickCloses(age, ready) == open # NoOpen /\ open.left + age <= 0

\* The answer window of the open ping is closed; then, when the device is connected and there
\* is a fix, the advert or the ping is due.
TickStarts(age, ready) ==
    LET closes == TickCloses(age, ready)
    IN
    /\ tick.at = "idle" /\ session # 0
    /\ IF closes THEN Closed(HeardOf(open.id)) ELSE UNCHANGED <<open, count>>
    /\ \/ ~ready /\ UNCHANGED <<tick, lastPing, lastAdvert>>
       \/ /\ ready /\ AdvertDue(age)
          /\ tick' = Awaiting("advert", age, "advert")
          /\ lastAdvert' = age
          /\ UNCHANGED lastPing
       \/ /\ ready /\ ~AdvertDue(age)
          /\ PingOrDone(age, IF closes THEN NoOpen ELSE open)
          /\ UNCHANGED lastAdvert
    /\ UNCHANGED <<table, session, nodes, nextKind, working>>

\* Mutant of FiledUnder: the last session of the table, running or not.
FiledUnderLast == Cardinality(Started)

\* add_wd_ping(self.session_id, ...): the session that runs when the answer is in.
FiledUnder == session

NewPing == Append(pings, [session |-> FiledUnder, kind |-> tick.kind, heard |-> 0,
                          sent |-> tick.sent, seen |-> tick.seen, alone |-> ~overlap])

\* The device has sent the advert; without a session the row is refused and the tick dies.
AdvertSent ==
    /\ tick.at = "advert"
    /\ Len(pings) < MaxPings
    /\ IF FiledUnder = 0
       THEN tick' = AtRest /\ UNCHANGED <<pings, lastPing>>
       ELSE pings' = NewPing /\ PingOrDone(tick.age, open)
    /\ UNCHANGED <<sess, obs, session, counters, nextKind, lastAdvert, open, working>>

AdvertFails ==
    /\ tick.at = "advert"
    /\ PingOrDone(tick.age, open)
    /\ UNCHANGED <<table, session, counters, nextKind, lastAdvert, open, working>>

PingSent ==
    /\ tick.at = "ping"
    /\ Len(pings) < MaxPings
    /\ tick' = AtRest
    /\ IF FiledUnder = 0
       THEN UNCHANGED <<pings, open, nextKind, count>>
       ELSE /\ pings' = NewPing
            /\ open' = [id |-> Len(pings) + 1, kind |-> tick.kind,
                        left |-> Window(tick.kind) - tick.age]
            /\ nextKind' = IF tick.kind = "discover" THEN "chan" ELSE "discover"
            /\ count' = [count EXCEPT !.pings = @ + 1]
    /\ UNCHANGED <<sess, obs, session, nodes, lastPing, lastAdvert, working>>

PingFails ==
    /\ tick.at = "ping"
    /\ tick' = AtRest
    /\ UNCHANGED <<table, session, counters, pacing, open, working>>

-----------------------------------------------------------------------------
\* What we hear

\* A response to the open discovery, or a repeat of the open channel ping with a path.
Answer(n) ==
    /\ session # 0 /\ open # NoOpen /\ open.left > 0
    /\ Len(obs) < MaxObs
    /\ obs' = Append(obs, [session |-> session, ping |-> open.id, node |-> n,
                           kind |-> IF open.kind = "discover" THEN "discover" ELSE "echo"])
    /\ pings' = [pings EXCEPT ![open.id].heard = @ + 1]
    /\ nodes' = nodes \cup {n}
    /\ UNCHANGED <<sess, session, count, pacing, open, working, tick>>

\* Any other packet, a repeat after the window too, when there is a fix.
Rx(n) ==
    /\ session # 0
    /\ count.rx < RxKeep /\ Len(obs) < MaxObs
    /\ obs' = Append(obs, [session |-> session, ping |-> 0, kind |-> "rx", node |-> n])
    /\ count' = [count EXCEPT !.rx = @ + 1]
    /\ UNCHANGED <<sess, pings, session, nodes, pacing, open, working, tick>>

-----------------------------------------------------------------------------
\* Time, the road, and the process

Older(age, most) == IF age \in {Never, most} THEN age ELSE age + 1

\* A thread in start or stop takes milliseconds, a unit of time stands for seconds.
Advance ==
    /\ \A w \in Threads: worker[w].next = "idle"
    /\ tick.at # "idle" => tick.age < MaxAge
    /\ tick' = IF tick.at = "idle" THEN tick ELSE [tick EXCEPT !.age = @ + 1]
    /\ lastPing' = [lastPing EXCEPT !.age = Older(@, Interval + MaxAge)]
    /\ lastAdvert' = Older(lastAdvert, AdvertEvery + MaxAge)
    /\ open' = IF open.left > -MaxAge /\ open # NoOpen THEN [open EXCEPT !.left = @ - 1] ELSE open
    /\ UNCHANGED <<table, session, counters, nextKind, working>>

Move ==
    /\ ~lastPing.moved /\ lastPing.age # Never
    /\ lastPing' = [lastPing EXCEPT !.moved = TRUE]
    /\ UNCHANGED <<table, session, counters, nextKind, lastAdvert, open, working, tick>>

\* Mutant of CloseLeftovers: sessions left open by the process that died stay open.
KeepLeftovers == sess

\* end_open_wd_sessions
CloseLeftovers == [s \in Session |-> IF sess[s] = "open" THEN "ended" ELSE sess[s]]

\* The process dies anywhere and starts again: Core.start, Wardriver.__init__.
Restart ==
    /\ sess' = CloseLeftovers
    /\ session' = 0
    /\ Reset
    /\ worker' = [w \in Threads |-> NoWork] /\ overlap' = FALSE
    /\ tick' = AtRest
    /\ UNCHANGED <<pings, obs>>

-----------------------------------------------------------------------------
Requests == \E w \in Threads: StartBegins(w) \/ StopBegins(w)
Works(w) == StartInserts(w) \/ StopCloses(w) \/ StopEnds(w) \/ StopClears(w)
Ticks == \E age \in 0..MaxAge, ready \in BOOLEAN: TickStarts(age, ready)
TicksUnready == TickStarts(0, FALSE)
Resumes == AdvertSent \/ AdvertFails \/ PingSent \/ PingFails
Hears == \E n \in Nodes: Answer(n) \/ Rx(n)

Next ==
    \/ Requests \/ \E w \in Threads: Works(w)
    \/ SwitchOff \/ Ticks \/ Resumes \/ Hears \/ Advance \/ Move \/ Restart

Spec == Init /\ [][Next]_vars

\* The mesh loop ticks every second, with a device and a fix or without; a tick closes the
\* window in either case.  A command comes back (the library times out), a thread in start or
\* stop goes on, time passes.
FairSpec ==
    /\ Spec
    /\ WF_vars(TicksUnready) /\ WF_vars(Resumes) /\ WF_vars(Advance)
    /\ \A w \in Threads: WF_vars(Works(w))

-----------------------------------------------------------------------------
\* Properties

TypeOK ==
    /\ sess \in [Session -> {"absent", "open", "ended"}]
    /\ session \in Session \cup {0}
    /\ \A i \in DOMAIN pings:
          /\ pings[i].session \in Session /\ sess[pings[i].session] # "absent"
          /\ pings[i].kind \in {"discover", "chan", "advert"}
    /\ open.id \in 0..Len(pings)
    /\ open # NoOpen => open.kind = pings[open.id].kind /\ open.left <= Window(open.kind)
    /\ \A w \in Threads: worker[w].next \in {"idle", "insert", "close", "end", "clear"}
    /\ tick.at \in {"idle", "advert", "ping"} /\ tick.age \in 0..MaxAge

Stopping == \E w \in Threads: worker[w].next \in {"close", "end", "clear"}
PingsOf(s) == {i \in DOMAIN pings: pings[i].session = s /\ pings[i].kind # "advert"}
ObsOf(s) == {i \in DOMAIN obs: obs[i].session = s}

\* While a session runs, and no start or stop has run beside another, the counters on the
\* screens are those of its rows, whatever an await or a stop and start left behind: pings
\* other than adverts, those with an answer, other packets, and the nodes that answered.  An
\* open ping's answers are counted once, when its window closes (wardrive.py:49-57, 132-149,
\* 164-219).
CountersMatchTables ==
    (session # 0 /\ ~overlap /\ ~Stopping) =>
        /\ count.pings = Cardinality(PingsOf(session))
        /\ count.heard = Cardinality({i \in PingsOf(session) \ {open.id}: pings[i].heard > 0})
        /\ count.rx = Cardinality({i \in ObsOf(session): obs[i].ping = 0})
        /\ nodes = {obs[i].node: i \in {j \in ObsOf(session): obs[j].ping # 0}}

\* A ping is filed under the session that transmitted it or, when its await outlived that
\* one, under a session begun meanwhile: never under one that was over, and one such ping
\* in a session at most, of those filed while no start or stop had run beside another
\* (wardrive.py:76-93, 132-149, 156-162).
StrayPingsGoForward ==
    \A s \in Session:
        LET strays == {i \in DOMAIN pings: /\ pings[i].session = s /\ pings[i].alone
                                           /\ pings[i].sent # s}
        IN  Cardinality(strays) <= 1 /\ \A i \in strays: pings[i].seen < s

\* One session is open in the table at most, the one that runs, unless a start or a stop ran
\* beside another; sessions left by a process that died are closed by the next, those of such
\* a pair too (wardrive.py:76-93, service.py:98-99, store.py:579-586).
OneOpenSession == ~overlap => {s \in Session: sess[s] = "open"} \subseteq {session}

\* The window of a ping closes while its session runs, connected or not, so that the next
\* ping can go out (wardrive.py:97-111, 144-146).
WindowsClose == (open # NoOpen /\ session # 0) ~> (open = NoOpen \/ session = 0)
===============================================================================
