----------------------------- MODULE WardriveProofs -----------------------------
(***************************************************************************)
(* Theorems about Wardrive and MeshSync, for every set of nodes and places *)
(* and all windows, intervals and bounds that WardriveConstants and        *)
(* SyncConstants allow.                                                    *)
(***************************************************************************)
EXTENDS Wardrive, MeshSync, FiniteSetTheorems, SequenceTheorems, TLAPS

-----------------------------------------------------------------------------
\* The inductive invariant

PingKinds == {"discover", "chan"}
Ping == [session: Session, kind: PingKinds \cup {"advert"}, heard: Nat,
         sent: Session \cup {0}, seen: Nat, alone: BOOLEAN]
Obs == [session: Session, ping: Nat, kind: {"discover", "echo", "rx"}, node: Nodes]
Open == [id: Nat \ {0}, kind: PingKinds, left: Int]
Tick == [at: {"idle", "advert", "ping"}, age: 0..MaxAge, kind: PingKinds \cup {"advert", "none"},
         sent: Session \cup {0}, seen: Nat]

Work == [next: {"idle", "insert", "close", "end", "clear"}, heard: Nat]

Types ==
    /\ sess \in [Session -> {"absent", "open", "ended"}]
    /\ session \in Session \cup {0}
    /\ pings \in Seq(Ping) /\ obs \in Seq(Obs)
    /\ count \in [pings: Nat, heard: Nat, rx: Nat] /\ nodes \in SUBSET Nodes
    /\ nextKind \in PingKinds
    /\ open \in Open \cup {NoOpen}
    /\ worker \in [Threads -> Work] /\ overlap \in BOOLEAN
    /\ tick \in Tick

\* The sessions of the table are numbered without a gap; the one that runs is the last.
SessionsInv ==
    /\ \A s \in Session: sess[s] # "absent" => \A r \in 1..s: sess[r] # "absent"
    /\ session # 0 => sess[session] # "absent" /\ \A s \in Session: sess[s] # "absent" => s <= session
    /\ \A i \in DOMAIN pings: sess[pings[i].session] # "absent"

\* While none ran beside another, one thread is in start or stop: what it rests on between steps.
WorkerInv ==
    /\ \A v, w \in Threads: worker[v].next # "idle" /\ worker[w].next # "idle" => v = w
    /\ \A w \in Threads:
          worker[w].next = "insert" => /\ session = 0 /\ Started # Session
                                       /\ count = ZeroCount /\ nodes = {} /\ open = NoOpen
    /\ \A w \in Threads: worker[w].next = "clear" => \A s \in Session: sess[s] # "open"

\* The open ping is one of the session that runs.
OpenInv ==
    open # NoOpen =>
        /\ open.id \in DOMAIN pings /\ open.kind = pings[open.id].kind
        /\ open.left <= Window(open.kind)
        /\ session # 0 => pings[open.id].session = session

\* What the tick remembers over its await.
TickInv ==
    /\ tick.at = "ping" => tick.kind \in PingKinds /\ open = NoOpen
    /\ tick.at = "advert" => tick.kind = "advert"
    /\ tick.at # "idle" => \A r \in 1..tick.seen: r \in Session /\ sess[r] # "absent"
    /\ tick.at # "idle" /\ session # 0 => session = tick.sent \/ tick.seen < session

\* A session has one stray ping, and after that no tick of an earlier one is to file another.
Stray(i) == pings[i].alone /\ pings[i].sent # pings[i].session

StrayInv ==
    /\ \A i, j \in DOMAIN pings:
          Stray(i) /\ Stray(j) /\ pings[i].session = pings[j].session => i = j
    /\ \A i \in DOMAIN pings: Stray(i) => pings[i].seen < pings[i].session
    /\ tick.at # "idle" /\ session # 0 /\ tick.sent # session =>
          \A i \in DOMAIN pings: pings[i].session = session => ~Stray(i)

ObsInv == \A j \in DOMAIN obs: sess[obs[j].session] # "absent"

\* OneOpenSession and CountersMatchTables while no start or stop has run beside another.
OneOpen == {s \in Session: sess[s] = "open"} \subseteq {session}

Counters ==
    (session # 0 /\ ~Stopping) =>
        /\ count.pings = Cardinality(PingsOf(session))
        /\ count.heard = Cardinality({i \in PingsOf(session) \ {open.id}: pings[i].heard > 0})
        /\ count.rx = Cardinality({i \in ObsOf(session): obs[i].ping = 0})
        /\ nodes = {obs[i].node: i \in {j \in ObsOf(session): obs[j].ping # 0}}

IInv ==
    /\ SessionsInv /\ WorkerInv /\ OpenInv /\ TickInv /\ StrayInv /\ ObsInv
    /\ OneOpen /\ Counters

Inv == Types /\ ~overlap /\ IInv

\* What holds of the rows, the open ping and the tick, a start or a stop beside another or not.
RowsInv ==
    /\ \A s \in Session: sess[s] # "absent" => \A r \in 1..s: sess[r] # "absent"
    /\ session # 0 => sess[session] # "absent"
    /\ \A i \in DOMAIN pings: sess[pings[i].session] # "absent"
    /\ ObsInv
    /\ open # NoOpen => /\ open.id \in DOMAIN pings /\ open.kind = pings[open.id].kind
                        /\ open.left <= Window(open.kind)
    /\ tick.at = "ping" => tick.kind \in PingKinds
    /\ tick.at = "advert" => tick.kind = "advert"
    /\ \A i, j \in DOMAIN pings:
          Stray(i) /\ Stray(j) /\ pings[i].session = pings[j].session => i = j
    /\ \A i \in DOMAIN pings: Stray(i) => pings[i].seen < pings[i].session

Whole == Types /\ RowsInv /\ (overlap \/ IInv)

-----------------------------------------------------------------------------
\* Lemmas: numbers and sets

LEMMA Constants ==
  ASSUME WardriveConstants
  PROVE  /\ DiscoverWindow \in Nat /\ EchoWindow \in Nat
         /\ MaxSessions \in Nat /\ MaxAge \in Nat
         /\ \A kind: Window(kind) \in Nat
  BY DEF WardriveConstants, Window

\* A part of 1..n that has, with each number, those below it.
LEMMA Prefix ==
  ASSUME NEW n \in Nat, NEW W \in SUBSET (1..n), \A i \in W: \A j \in 1..i: j \in W
  PROVE  Cardinality(W) \in 0..n /\ W = 1..Cardinality(W)
  <1> DEFINE k == Cardinality(W)
  <1>1. IsFiniteSet(1..n) /\ Cardinality(1..n) = n
    BY FS_Interval
  <1>2. IsFiniteSet(W) /\ k \in Nat /\ k <= n
    BY ZenonT(60), <1>1, FS_Subset, FS_CardinalityType
  <1>3. ASSUME NEW i \in W PROVE i <= k
    <2>1. 1..i \subseteq W
      OBVIOUS
    <2>2. Cardinality(1..i) = i
      BY FS_Interval
    <2>3. Cardinality(1..i) <= k
      BY <1>2, <2>1, FS_Subset
    <2>4. QED
      BY <2>2, <2>3
  <1>4. W \in SUBSET (1..k)
    BY <1>2, <1>3
  <1>5. IsFiniteSet(1..k) /\ Cardinality(1..k) = k
    BY <1>2, FS_Interval
  <1>6. 1..k = W
    BY <1>4, <1>5, FS_Subset
  <1>7. QED
    BY <1>2, <1>6

\* One more.
LEMMA OneMore ==
  ASSUME NEW n \in Nat, NEW W \in SUBSET (1..n), NEW e, e \notin W
  PROVE  Cardinality(W \cup {e}) = Cardinality(W) + 1
  <1>1. IsFiniteSet(W)
    <2>1. IsFiniteSet(1..n)
      BY FS_Interval
    <2>2. QED
      BY <2>1, FS_Subset
  <1>2. QED
    BY <1>1, FS_AddElement

LEMMA StartedNumber ==
  ASSUME WardriveConstants
  PROVE  Cardinality(Started) \in Nat
  <1>1. MaxSessions \in Nat /\ Started \subseteq 1..MaxSessions
    BY Constants DEF Started, Session
  <1>2. IsFiniteSet(1..MaxSessions)
    BY <1>1, FS_Interval
  <1>3. QED
    BY <1>1, <1>2, FS_Subset, FS_CardinalityType

\* The numbers of the sessions so far.
LEMMA StartedFirst ==
  ASSUME WardriveConstants, Types, SessionsInv
  PROVE  Cardinality(Started) \in 0..MaxSessions /\ Started = 1..Cardinality(Started)
  <1>1. MaxSessions \in Nat /\ Started \in SUBSET (1..MaxSessions)
    BY Constants DEF Started, Session
  <1>2. \A i \in Started: \A j \in 1..i: j \in Started
    BY <1>1 DEF Started, SessionsInv, Session
  <1>3. QED
    BY <1>1, <1>2, Prefix

\* The rows of the two tables.
LEMMA Rows ==
  ASSUME Types
  PROVE  /\ Len(pings) \in Nat /\ DOMAIN pings = 1..Len(pings)
         /\ \A i \in DOMAIN pings: /\ pings[i] \in Ping /\ pings[i].heard \in Nat
                                   /\ pings[i].session \in Session
                                   /\ pings[i].kind \in PingKinds \cup {"advert"}
                                   /\ pings[i].sent \in Session \cup {0} /\ pings[i].seen \in Nat
         /\ Len(obs) \in Nat /\ DOMAIN obs = 1..Len(obs)
         /\ \A j \in DOMAIN obs: obs[j].session \in Session /\ obs[j].node \in Nodes
         /\ Session \subseteq Nat \ {0} /\ 0 \notin Session
  <1>1. pings \in Seq(Ping) /\ obs \in Seq(Obs)
    BY DEF Types
  <1>2. /\ Len(pings) \in Nat /\ DOMAIN pings = 1..Len(pings)
        /\ Len(obs) \in Nat /\ DOMAIN obs = 1..Len(obs)
    BY <1>1
  <1>3. \A i \in DOMAIN pings: pings[i] \in Ping
    BY <1>1
  <1>4. \A j \in DOMAIN obs: obs[j] \in Obs
    BY <1>1
  <1>5. \A e \in Ping: /\ e.heard \in Nat /\ e.session \in Session
                        /\ e.kind \in PingKinds \cup {"advert"}
                        /\ e.sent \in Session \cup {0} /\ e.seen \in Nat
    BY DEF Ping
  <1>6. \A e \in Obs: e.session \in Session /\ e.node \in Nodes
    BY DEF Obs
  <1>7. Session \subseteq Nat \ {0} /\ 0 \notin Session
    BY DEF Session
  <1>8. QED
    BY <1>2, <1>3, <1>4, <1>5, <1>6, <1>7

LEMMA CountType ==
  ASSUME Types
  PROVE  count.pings \in Nat /\ count.heard \in Nat /\ count.rx \in Nat
         /\ count = [pings |-> count.pings, heard |-> count.heard, rx |-> count.rx]
  BY DEF Types

\* The counts of a session do not change when nothing they are made of does.
LEMMA CountersKept ==
  ASSUME Counters, session' = session, count' = count, nodes' = nodes,
         pings' = pings, obs' = obs, open'.id = open.id, worker' = worker
  PROVE  Counters'
  BY DEF Counters, PingsOf, ObsOf, Stopping

LEMMA NoCounters ==
  ASSUME session' = 0 \/ Stopping'
  PROVE  Counters'
  BY DEF Counters

\* What the end of a tick leaves.
LEMMA PingOrDoneTypes ==
  ASSUME WardriveConstants, Types, NEW age \in 0..MaxAge, NEW o, PingOrDone(age, o)
  PROVE  /\ tick' \in Tick /\ tick'.at \in {"idle", "ping"}
         /\ tick'.at = "ping" => tick'.kind \in PingKinds
  <1>1. CASE o = NoOpen /\ Due(age)
    <2>1. PICK chan \in BOOLEAN: tick' = Awaiting("ping", age, PingKind(chan))
      BY <1>1 DEF PingOrDone
    <2>2. PingKind(chan) \in PingKinds
      BY DEF PingKind, Types, PingKinds
    <2>3. QED
      BY <2>1, <2>2, StartedNumber DEF Awaiting, Tick, Types
  <1>2. CASE ~(o = NoOpen /\ Due(age))
    <2>1. tick' = AtRest
      BY <1>2 DEF PingOrDone
    <2>2. QED
      BY <2>1, Constants DEF AtRest, Tick
  <1>3. QED
    BY <1>1, <1>2

LEMMA PingOrDoneTick ==
  ASSUME WardriveConstants, Types, SessionsInv, NEW age \in 0..MaxAge, NEW o, PingOrDone(age, o)
  PROVE  /\ tick' \in Tick /\ tick'.at \in {"idle", "ping"}
         /\ tick'.at = "ping" => /\ tick'.kind \in PingKinds /\ o = NoOpen
                                 /\ tick'.sent = session
                                 /\ \A r \in 1..tick'.seen: r \in Session /\ sess[r] # "absent"
  <1>1. CASE o = NoOpen /\ Due(age)
    <2>1. PICK chan \in BOOLEAN: tick' = Awaiting("ping", age, PingKind(chan))
      BY <1>1 DEF PingOrDone
    <2>2. PingKind(chan) \in PingKinds
      BY DEF PingKind, Types, PingKinds
    <2>3. Cardinality(Started) \in Nat /\ Started = 1..Cardinality(Started)
      BY StartedFirst, Constants
    <2>4. session \in Session \cup {0}
      BY DEF Types
    <2>5. /\ tick' \in Tick /\ tick'.at = "ping" /\ tick'.kind = PingKind(chan)
          /\ tick'.sent = session /\ tick'.seen = Cardinality(Started)
      BY <2>1, <2>2, <2>3, <2>4 DEF Awaiting, Tick
    <2>6. QED
      BY <1>1, <2>2, <2>3, <2>5 DEF Started
  <1>2. CASE ~(o = NoOpen /\ Due(age))
    <2>1. tick' = AtRest
      BY <1>2 DEF PingOrDone
    <2>2. AtRest \in Tick /\ AtRest.at = "idle"
      BY Constants DEF AtRest, Tick
    <2>3. QED
      BY <2>1, <2>2
  <1>3. QED
    BY <1>1, <1>2

\* A new row, filed under the session that runs.
LEMMA NewPingRow ==
  ASSUME Types, session # 0, tick.kind # "none", pings' = NewPing
  PROVE  /\ pings' \in Seq(Ping) /\ Len(pings') = Len(pings) + 1
         /\ DOMAIN pings' = DOMAIN pings \cup {Len(pings) + 1}
         /\ Len(pings) + 1 \notin DOMAIN pings
         /\ \A i \in DOMAIN pings: pings'[i] = pings[i]
         /\ LET e == pings'[Len(pings) + 1] IN
               /\ e.session = session /\ e.kind = tick.kind /\ e.heard = 0
               /\ e.sent = tick.sent /\ e.seen = tick.seen /\ e.alone = ~overlap
  <1> DEFINE e == [session |-> session, kind |-> tick.kind, heard |-> 0,
                   sent |-> tick.sent, seen |-> tick.seen, alone |-> ~overlap]
  <1>1. pings' = Append(pings, e)
    BY DEF NewPing, FiledUnder
  <1>2. e \in Ping
    BY DEF Types, Ping, Tick
  <1>3. /\ e.session = session /\ e.kind = tick.kind /\ e.heard = 0
        /\ e.sent = tick.sent /\ e.seen = tick.seen /\ e.alone = ~overlap
    OBVIOUS
  <1> HIDE DEF e
  <1>4. pings \in Seq(Ping) /\ Len(pings) \in Nat /\ DOMAIN pings = 1..Len(pings)
    BY DEF Types
  <1>5. /\ pings' \in Seq(Ping) /\ Len(pings') = Len(pings) + 1
        /\ \A i \in 1..Len(pings): pings'[i] = pings[i]
        /\ pings'[Len(pings) + 1] = e
    BY <1>1, <1>2, <1>4, AppendProperties
  <1>6. DOMAIN pings' = 1..Len(pings) + 1
    BY <1>4, <1>5
  <1>7. QED
    BY <1>3, <1>4, <1>5, <1>6

-----------------------------------------------------------------------------
\* The invariant holds from the start

LEMMA InitInv == ASSUME WardriveConstants, Init PROVE Whole
  <1>1. /\ \A s \in Session: sess[s] = "absent"
        /\ pings = <<>> /\ obs = <<>> /\ session = 0 /\ open = NoOpen
        /\ \A w \in Threads: worker[w].next = "idle"
        /\ tick.at = "idle"
    BY DEF Init, NoWork, AtRest
  <1>2. DOMAIN pings = {} /\ DOMAIN obs = {}
    BY <1>1
  <1>3. Types
    <2>1. NoWork \in Work /\ AtRest \in Tick /\ ZeroCount \in [pings: Nat, heard: Nat, rx: Nat]
      BY Constants DEF NoWork, Work, AtRest, Tick, ZeroCount
    <2>2. worker \in [Threads -> Work] /\ overlap \in BOOLEAN
      BY <2>1 DEF Init
    <2>3. sess \in [Session -> {"absent", "open", "ended"}]
      BY DEF Init
    <2>4. QED
      BY <1>1, <2>1, <2>2, <2>3 DEF Init, Types, PingKinds
  <1>4. SessionsInv /\ WorkerInv /\ OpenInv /\ TickInv /\ StrayInv /\ ObsInv
    BY <1>1, <1>2 DEF SessionsInv, WorkerInv, OpenInv, TickInv, StrayInv, ObsInv
  <1>5. OneOpen /\ Counters
    BY <1>1 DEF OneOpen, Counters
  <1>6. QED
    BY <1>1, <1>2, <1>3, <1>4, <1>5 DEF Whole, RowsInv, IInv

-----------------------------------------------------------------------------
\* start and stop keep it

\* The tables and the session as they were.
LEMMA TablesKept ==
  ASSUME SessionsInv, ObsInv, UNCHANGED <<sess, pings, obs>>, session' = session \/ session' = 0
  PROVE  SessionsInv' /\ ObsInv'
  BY DEF SessionsInv, ObsInv

\* The tick as it was, when the session is over or goes on.
LEMMA TickKept ==
  ASSUME Types, TickInv, StrayInv, UNCHANGED <<tick, sess, pings>>, open' = open \/ open' = NoOpen,
         session' = session \/ session' = 0
  PROVE  TickInv' /\ StrayInv'
  <1>1. TickInv'
    BY DEF TickInv
  <1>2. StrayInv'
    BY DEF StrayInv, Stray
  <1>3. QED
    BY <1>1, <1>2

LEMMA StartBeginsInv ==
  ASSUME WardriveConstants, Inv, NEW w \in Threads, StartBegins(w), ~overlap'
  PROVE  IInv'
  <1>1. /\ session = 0 /\ Cardinality(Started) + Cardinality(Inserting) < MaxSessions
        /\ count' = ZeroCount /\ nodes' = {} /\ open' = NoOpen
        /\ worker' = [worker EXCEPT ![w] = [next |-> "insert", heard |-> 0]]
        /\ \A v \in Threads: worker[v].next = "idle"
        /\ UNCHANGED <<sess, pings, obs, session, tick>>
    BY DEF StartBegins, Begins, Reset, table
  <1>2. Types /\ IInv
    BY DEF Inv
  <1>3. Started # Session
    <2>1. Inserting = {} /\ Cardinality({}) = 0
      BY <1>1, FS_EmptySet DEF Inserting
    <2>2. Cardinality(Started) < MaxSessions
      BY <1>1, <2>1, StartedNumber, Constants
    <2>3. Cardinality(Session) = MaxSessions
      BY Constants, FS_Interval DEF Session
    <2>4. QED
      BY <2>2, <2>3, Constants
  <1>4. SessionsInv' /\ ObsInv'
    BY <1>1, <1>2, TablesKept DEF IInv
  <1>5. TickInv' /\ StrayInv'
    BY <1>1, <1>2, TickKept DEF IInv
  <1>6. WorkerInv'
    <2>1. \A v \in Threads: v # w => worker'[v] = worker[v]
      BY <1>1, <1>2 DEF Types
    <2>2. worker'[w].next = "insert"
      BY <1>1, <1>2 DEF Types
    <2>3. Started' = Started
      BY <1>1 DEF Started
    <2>4. QED
      BY <1>1, <1>3, <2>1, <2>2, <2>3 DEF WorkerInv
  <1>7. OpenInv' /\ OneOpen'
    BY <1>1, <1>2 DEF IInv, OpenInv, OneOpen
  <1>8. Counters'
    BY <1>1, NoCounters
  <1>9. QED
    BY <1>4, <1>5, <1>6, <1>7, <1>8 DEF IInv

\* A new session has no rows, and a number above all before it.
LEMMA StartInsertsInv ==
  ASSUME WardriveConstants, Inv, NEW w \in Threads, StartInserts(w), ~overlap'
  PROVE  IInv'
  <1>4. PICK new \in Session:
               /\ sess[new] = "absent" /\ \A r \in 1..(new - 1): sess[r] # "absent"
               /\ sess' = [sess EXCEPT ![new] = "open"] /\ session' = new
    BY DEF StartInserts
  <1>1. /\ worker[w].next = "insert" /\ worker' = [worker EXCEPT ![w] = NoWork]
        /\ sess' = [sess EXCEPT ![new] = "open"] /\ session' = new
        /\ UNCHANGED <<pings, obs, count, nodes, nextKind, lastPing, lastAdvert, open, tick>>
    BY <1>4 DEF StartInserts, counters, pacing
  <1>2. Types /\ IInv /\ SessionsInv /\ WorkerInv /\ OpenInv /\ TickInv /\ StrayInv /\ ObsInv
        /\ OneOpen
    BY DEF Inv, IInv
  <1>3. /\ session = 0 /\ Started # Session
        /\ count = ZeroCount /\ nodes = {} /\ open = NoOpen
    BY <1>1, <1>2 DEF WorkerInv
  <1>5. Session \subseteq Nat \ {0} /\ new \in Nat /\ \A s \in Session: sess[s] # "absent" => s < new
    <2>1. Session \subseteq Nat \ {0} /\ \A s \in Session: 1..s \subseteq Session
      BY Constants DEF Session
    <2>2. ASSUME NEW s \in Session, sess[s] # "absent", new <= s PROVE FALSE
      <3>1. new \in 1..s
        BY <1>4, <2>1, <2>2
      <3>2. QED
        BY <1>2, <1>4, <2>2, <3>1 DEF SessionsInv
    <2>3. QED
      BY <1>4, <2>1, <2>2
  <1>6. sess' \in [Session -> {"absent", "open", "ended"}] /\ sess'[new] = "open"
        /\ \A s \in Session: s # new => sess'[s] = sess[s]
    BY <1>1, <1>2, <1>4 DEF Types
  <1>8. \A i \in DOMAIN pings: /\ pings[i].session \in Session
                               /\ sess[pings[i].session] # "absent" /\ pings[i].session # new
    BY <1>2, <1>4, Rows DEF SessionsInv
  <1>9. \A j \in DOMAIN obs: /\ obs[j].session \in Session
                             /\ sess[obs[j].session] # "absent" /\ obs[j].session # new
    BY <1>2, <1>4, Rows DEF ObsInv
  <1>10. SessionsInv'
    <2>1. ASSUME NEW s \in Session, sess'[s] # "absent", NEW r \in 1..s PROVE sess'[r] # "absent"
      <3>1. r \in Session
        BY Constants DEF Session
      <3>2. CASE s = new
        BY <1>4, <1>5, <1>6, <3>1, <3>2
      <3>3. CASE s # new
        BY <1>2, <1>6, <2>1, <3>1, <3>3 DEF SessionsInv
      <3>4. QED
        BY <3>2, <3>3
    <2>2. \A s \in Session: sess'[s] # "absent" => s <= new
      BY <1>5, <1>6
    <2>3. \A i \in DOMAIN pings: sess'[pings[i].session] # "absent"
      BY <1>6, <1>8
    <2>4. QED
      BY <1>1, <1>6, <2>1, <2>2, <2>3 DEF SessionsInv
  <1>11. ObsInv'
    BY <1>1, <1>6, <1>9 DEF ObsInv
  <1>12. WorkerInv' /\ OpenInv'
    <2>1. \A v \in Threads: worker'[v].next = "idle"
      BY <1>1, <1>2 DEF Types, WorkerInv, NoWork
    <2>2. QED
      BY <1>1, <1>3, <2>1 DEF WorkerInv, OpenInv
  <1>13. TickInv'
    <2>1. tick.at # "idle" => \A r \in 1..tick.seen: r \in Session /\ sess'[r] # "absent"
      BY <1>2, <1>6 DEF TickInv
    <2>2. tick.at # "idle" => tick.seen < new
      <3> SUFFICES ASSUME tick.at # "idle", new <= tick.seen PROVE FALSE
        BY <1>2, <1>5 DEF Types, Tick
      <3>1. tick.seen \in Nat
        BY <1>2 DEF Types, Tick
      <3>2. new \in 1..tick.seen
        BY <1>4, <1>5, <3>1
      <3>3. QED
        BY <1>2, <1>4, <3>2 DEF TickInv
    <2>3. tick.at = "ping" => tick.kind \in PingKinds /\ open = NoOpen
      BY <1>2 DEF TickInv
    <2>4. tick.at = "advert" => tick.kind = "advert"
      BY <1>2 DEF TickInv
    <2>5. QED
      BY <1>1, <2>1, <2>2, <2>3, <2>4 DEF TickInv
  <1>14. StrayInv'
    BY <1>1, <1>2, <1>8 DEF StrayInv, Stray
  <1>15. OneOpen'
    <2>1. \A s \in Session: sess[s] # "open"
      BY <1>2, <1>3, <1>5 DEF OneOpen
    <2>2. QED
      BY <1>1, <1>6, <2>1 DEF OneOpen
  <1>16. Counters'
    <2>1. PingsOf(session)' = {} /\ ObsOf(session)' = {}
      BY <1>1, <1>8, <1>9 DEF PingsOf, ObsOf
    <2>2. count' = ZeroCount /\ nodes' = {}
      BY <1>1, <1>3
    <2>3. Cardinality({}) = 0
      BY FS_EmptySet
    <2>4. /\ {i \in PingsOf(session)' \ {open'.id}: pings'[i].heard > 0} = {}
          /\ {i \in ObsOf(session)': obs'[i].ping = 0} = {}
          /\ {obs'[i].node: i \in {j \in ObsOf(session)': obs'[j].ping # 0}} = {}
      BY <2>1
    <2>5. QED
      BY <2>1, <2>2, <2>3, <2>4 DEF Counters, ZeroCount
  <1>17. QED
    BY <1>10, <1>11, <1>12, <1>13, <1>14, <1>15, <1>16 DEF IInv

\* Closing the open ping counts, and nothing else.
LEMMA ClosedTypes ==
  ASSUME Types, NEW h \in Nat, Closed(h)
  PROVE  open' = NoOpen /\ count' \in [pings: Nat, heard: Nat, rx: Nat]
  BY DEF Closed, Types

LEMMA HeardOfNat ==
  ASSUME Types, open # NoOpen => open.id \in DOMAIN pings
  PROVE  HeardOf(open.id) \in Nat
  <1>1. open.id = 0 \/ open.id \in DOMAIN pings
    BY DEF NoOpen
  <1>2. QED
    BY <1>1, Rows DEF HeardOf

LEMMA StopBeginsInv ==
  ASSUME WardriveConstants, Inv, NEW w \in Threads, StopBegins(w), ~overlap'
  PROVE  IInv'
  <1>1. /\ session # 0
        /\ worker' = [worker EXCEPT ![w] = [next |-> IF open = NoOpen THEN "end" ELSE "close",
                                            heard |-> HeardOf(open.id)]]
        /\ \A v \in Threads: worker[v].next = "idle"
        /\ UNCHANGED <<sess, pings, obs, session, count, nodes, nextKind, open, tick>>
    BY DEF StopBegins, Begins, table, counters, pacing
  <1>2. Types /\ IInv /\ OpenInv
    BY DEF Inv, IInv
  <1>3. /\ \A v \in Threads: v # w => worker'[v] = worker[v]
        /\ worker'[w].next \in {"end", "close"}
    BY <1>1, <1>2 DEF Types
  <1>4. SessionsInv' /\ ObsInv' /\ TickInv' /\ StrayInv'
    BY <1>1, <1>2, TablesKept, TickKept DEF IInv
  <1>5. WorkerInv' /\ OpenInv' /\ OneOpen'
    BY <1>1, <1>2, <1>3 DEF IInv, WorkerInv, OpenInv, OneOpen
  <1>6. Counters'
    BY <1>3, NoCounters DEF Stopping
  <1>7. QED
    BY <1>4, <1>5, <1>6 DEF IInv

LEMMA StopClosesInv ==
  ASSUME WardriveConstants, Inv, NEW w \in Threads, StopCloses(w), ~overlap'
  PROVE  IInv'
  <1>1. /\ worker[w].next = "close" /\ Closed(worker[w].heard)
        /\ worker' = [worker EXCEPT ![w] = [next |-> "end", heard |-> 0]]
        /\ UNCHANGED <<sess, pings, obs, session, nodes, nextKind, tick>>
    BY DEF StopCloses, table, pacing
  <1>2. Types /\ IInv
    BY DEF Inv
  <1>3. open' = NoOpen
    BY <1>1 DEF Closed
  <1>4. /\ \A v \in Threads: v # w => worker'[v] = worker[v] /\ worker[v].next = "idle"
        /\ worker'[w].next = "end"
    BY <1>1, <1>2 DEF Types, IInv, WorkerInv
  <1>5. SessionsInv' /\ ObsInv' /\ TickInv' /\ StrayInv'
    BY <1>1, <1>2, <1>3, TablesKept, TickKept DEF IInv
  <1>6. WorkerInv' /\ OpenInv' /\ OneOpen'
    BY <1>1, <1>2, <1>3, <1>4 DEF IInv, WorkerInv, OpenInv, OneOpen
  <1>7. Counters'
    BY <1>4, NoCounters DEF Stopping
  <1>8. QED
    BY <1>5, <1>6, <1>7 DEF IInv

\* No session is open in the table once the one that ran has ended.
LEMMA EndedNone ==
  ASSUME WardriveConstants, Types, SessionsInv, ObsInv, OneOpen, sess' = Ended(session),
         UNCHANGED <<pings, obs>>, session' = session \/ session' = 0
  PROVE  /\ sess' \in [Session -> {"absent", "open", "ended"}]
         /\ \A s \in Session: sess'[s] # "open" /\ (sess'[s] # "absent" <=> sess[s] # "absent")
         /\ SessionsInv' /\ ObsInv' /\ OneOpen'
  <1>1. sess \in [Session -> {"absent", "open", "ended"}] /\ session \in Session \cup {0}
        /\ 0 \notin Session
    BY Rows DEF Types
  <1>2. \A s \in Session: sess[s] = "open" => s = session
    BY DEF OneOpen
  <1>3. session # 0 => sess[session] # "absent"
    BY DEF SessionsInv
  <1>4. sess' = IF session = 0 THEN sess ELSE [sess EXCEPT ![session] = "ended"]
    BY DEF Ended
  <1>5. sess' \in [Session -> {"absent", "open", "ended"}]
    BY <1>1, <1>4
  <1>6. \A s \in Session: sess'[s] # "open" /\ (sess'[s] # "absent" <=> sess[s] # "absent")
    BY <1>1, <1>2, <1>3, <1>4
  <1>7. \A s \in Session: 1..s \subseteq Session
    BY Constants DEF Session
  <1>8. SessionsInv'
    <2>1. \A s \in Session: sess'[s] # "absent" => \A r \in 1..s: sess'[r] # "absent"
      BY <1>6, <1>7 DEF SessionsInv
    <2>2. session' # 0 => /\ sess'[session'] # "absent"
                          /\ \A s \in Session: sess'[s] # "absent" => s <= session'
      BY <1>1, <1>6 DEF SessionsInv
    <2>3. \A i \in DOMAIN pings: sess'[pings[i].session] # "absent"
      BY <1>6, Rows DEF SessionsInv
    <2>4. QED
      BY <2>1, <2>2, <2>3 DEF SessionsInv
  <1>9. ObsInv'
    BY <1>6, Rows DEF ObsInv
  <1>10. OneOpen'
    BY <1>6 DEF OneOpen
  <1>11. QED
    BY <1>5, <1>6, <1>8, <1>9, <1>10

\* What the tick remembers stands when a session ends.
LEMMA TickEnded ==
  ASSUME Types, TickInv, StrayInv, UNCHANGED <<tick, pings>>, open' = open \/ open' = NoOpen,
         session' = session \/ session' = 0,
         \A s \in Session: sess'[s] # "absent" <=> sess[s] # "absent"
  PROVE  TickInv' /\ StrayInv'
  <1>1. TickInv'
    BY DEF TickInv
  <1>2. StrayInv'
    BY DEF StrayInv, Stray
  <1>3. QED
    BY <1>1, <1>2

LEMMA StopEndsInv ==
  ASSUME WardriveConstants, Inv, NEW w \in Threads, StopEnds(w), ~overlap'
  PROVE  IInv'
  <1>1. /\ worker[w].next = "end" /\ sess' = Ended(session)
        /\ worker' = [worker EXCEPT ![w].next = "clear"]
        /\ UNCHANGED <<pings, obs, session, count, nodes, nextKind, open, tick>>
    BY DEF StopEnds, counters, pacing
  <1>2. Types /\ IInv /\ SessionsInv /\ ObsInv /\ OneOpen
    BY DEF Inv, IInv
  <1>3. /\ sess' \in [Session -> {"absent", "open", "ended"}]
        /\ \A s \in Session: sess'[s] # "open" /\ (sess'[s] # "absent" <=> sess[s] # "absent")
        /\ SessionsInv' /\ ObsInv' /\ OneOpen'
    BY <1>1, <1>2, EndedNone
  <1>4. /\ \A v \in Threads: v # w => worker'[v] = worker[v] /\ worker[v].next = "idle"
        /\ worker'[w].next = "clear"
    BY <1>1, <1>2 DEF Types, Work, IInv, WorkerInv
  <1>5. TickInv' /\ StrayInv'
    BY <1>1, <1>2, <1>3, TickEnded DEF IInv
  <1>6. WorkerInv' /\ OpenInv'
    BY <1>1, <1>2, <1>3, <1>4 DEF IInv, WorkerInv, OpenInv
  <1>7. Counters'
    BY <1>4, NoCounters DEF Stopping
  <1>8. QED
    BY <1>3, <1>4, <1>5, <1>6, <1>7 DEF IInv

LEMMA StopClearsInv ==
  ASSUME WardriveConstants, Inv, NEW w \in Threads, StopClears(w), ~overlap'
  PROVE  IInv'
  <1>1. /\ worker[w].next = "clear" /\ session' = 0 /\ worker' = [worker EXCEPT ![w] = NoWork]
        /\ UNCHANGED <<sess, pings, obs, count, nodes, nextKind, open, tick>>
    BY DEF StopClears, table, counters, pacing
  <1>2. Types /\ IInv
    BY DEF Inv
  <1>3. \A v \in Threads: worker'[v].next = "idle"
    BY <1>1, <1>2 DEF Types, NoWork, IInv, WorkerInv
  <1>4. SessionsInv' /\ ObsInv' /\ TickInv' /\ StrayInv'
    BY <1>1, <1>2, TablesKept, TickKept DEF IInv
  <1>5. WorkerInv' /\ OpenInv' /\ OneOpen'
    BY <1>1, <1>2, <1>3 DEF IInv, WorkerInv, OpenInv, OneOpen
  <1>6. Counters'
    BY <1>1, NoCounters
  <1>7. QED
    BY <1>4, <1>5, <1>6 DEF IInv

LEMMA SwitchOffInv ==
  ASSUME WardriveConstants, Inv, SwitchOff
  PROVE  IInv'
  <1>1. /\ session # 0 /\ Closed(HeardOf(open.id)) /\ sess' = Ended(session) /\ session' = 0
        /\ UNCHANGED <<pings, obs, nodes, nextKind, worker, tick>>
    BY DEF SwitchOff, pacing, working
  <1>2. Types /\ IInv /\ SessionsInv /\ ObsInv /\ OneOpen /\ OpenInv /\ WorkerInv
    BY DEF Inv, IInv
  <1>3. open' = NoOpen
    BY <1>1 DEF Closed
  <1>4. /\ sess' \in [Session -> {"absent", "open", "ended"}]
        /\ \A s \in Session: sess'[s] # "open" /\ (sess'[s] # "absent" <=> sess[s] # "absent")
        /\ SessionsInv' /\ ObsInv' /\ OneOpen'
    BY <1>1, <1>2, EndedNone
  <1>6. TickInv' /\ StrayInv'
    BY <1>1, <1>2, <1>3, <1>4, TickEnded DEF IInv
  <1>7. WorkerInv' /\ OpenInv'
    BY <1>1, <1>2, <1>3, <1>4 DEF WorkerInv, OpenInv
  <1>8. Counters'
    BY <1>1, NoCounters
  <1>9. QED
    BY <1>4, <1>6, <1>7, <1>8 DEF IInv

-----------------------------------------------------------------------------
\* The tick keeps it

\* A tick that begins to await, or is over, remembers the session that runs.
LEMMA TickAnew ==
  ASSUME session' = session, sess' = sess,
         tick'.at # "idle" => /\ tick'.sent = session
                              /\ \A r \in 1..tick'.seen: r \in Session /\ sess[r] # "absent",
         tick'.at = "ping" => tick'.kind \in PingKinds /\ open' = NoOpen,
         tick'.at = "advert" => tick'.kind = "advert"
  PROVE  TickInv' /\ (StrayInv /\ pings' = pings => StrayInv')
  BY DEF TickInv, StrayInv, Stray

\* The window closes: its ping counts now, if it was heard.
LEMMA CloseCounts ==
  ASSUME Types, OpenInv, Counters, session # 0, ~Stopping, open # NoOpen,
         Closed(HeardOf(open.id)), UNCHANGED <<session, nodes, pings, obs, worker>>
  PROVE  Counters'
  <1> DEFINE P == PingsOf(session)
             id == open.id
             H == {i \in P \ {id}: pings[i].heard > 0}
             G == {i \in P \ {0}: pings[i].heard > 0}
  <1>1. /\ id \in DOMAIN pings /\ pings[id].session = session /\ pings[id].kind # "advert"
        /\ pings[id].heard \in Nat /\ id # 0 /\ HeardOf(id) = pings[id].heard
    <2>1. id \in DOMAIN pings /\ pings[id].session = session /\ open.kind = pings[id].kind
      BY DEF OpenInv
    <2>2. open \in Open
      BY DEF Types
    <2>3. id # 0 /\ open.kind \in PingKinds
      BY <2>2 DEF Open
    <2>4. open.kind # "advert"
      BY <2>3 DEF PingKinds
    <2>5. QED
      BY <2>1, <2>3, <2>4, Rows DEF HeardOf
  <1>2. id \in P /\ 0 \notin P /\ P \in SUBSET (1..Len(pings)) /\ Len(pings) \in Nat
    BY <1>1, Rows DEF PingsOf
  <1>3. count.heard = Cardinality(H)
    BY DEF Counters
  <1>4. /\ open' = NoOpen
        /\ count' = IF pings[id].heard > 0 THEN [count EXCEPT !.heard = @ + 1] ELSE count
    BY <1>1 DEF Closed
  <1>5. count'.heard = Cardinality(G)
    <2>1. CASE pings[id].heard > 0
      <3>1. G = H \cup {id} /\ id \notin H /\ H \in SUBSET (1..Len(pings))
        BY <1>1, <1>2, <2>1
      <3>2. Cardinality(G) = Cardinality(H) + 1
        BY <1>2, <3>1, OneMore
      <3>3. count'.heard = count.heard + 1
        BY <1>4, <2>1 DEF Types
      <3>4. QED
        BY <1>3, <3>2, <3>3
    <2>2. CASE ~(pings[id].heard > 0)
      <3>1. G = H
        BY <1>2, <2>2
      <3>2. QED
        BY <1>3, <1>4, <2>2, <3>1
    <2>3. QED
      BY <2>1, <2>2
  <1>6. count'.pings = count.pings /\ count'.rx = count.rx
    BY <1>4 DEF Types
  <1>7. open'.id = 0
    BY <1>4 DEF NoOpen
  <1>8. PingsOf(session)' = P /\ ObsOf(session)' = ObsOf(session)
    BY DEF PingsOf, ObsOf
  <1>9. {i \in PingsOf(session)' \ {open'.id}: pings'[i].heard > 0} = G
    BY <1>7, <1>8
  <1> HIDE DEF G, H, P
  <1>10. QED
    BY ZenonT(60), <1>5, <1>6, <1>8, <1>9 DEF Counters, P

LEMMA TickStartsInv ==
  ASSUME WardriveConstants, Inv, NEW age \in 0..MaxAge, NEW ready \in BOOLEAN,
         TickStarts(age, ready)
  PROVE  IInv'
  <1> DEFINE closes == TickCloses(age, ready)
             o == IF closes THEN NoOpen ELSE open
  <1>1. /\ tick.at = "idle" /\ session # 0
        /\ IF closes THEN Closed(HeardOf(open.id)) ELSE UNCHANGED <<open, count>>
        /\ \/ tick' = tick
           \/ tick' = Awaiting("advert", age, "advert")
           \/ PingOrDone(age, o)
        /\ UNCHANGED <<sess, pings, obs, session, nodes, nextKind, worker>>
    BY DEF TickStarts, table, working
  <1>2. closes => open # NoOpen
    BY DEF TickCloses
  <1> HIDE DEF closes
  <1>3. Types /\ IInv /\ SessionsInv /\ ObsInv /\ OneOpen /\ OpenInv /\ WorkerInv
        /\ TickInv /\ StrayInv /\ Counters
    BY DEF Inv, IInv
  <1>4. open' = o
    BY <1>1 DEF Closed
  <1>5. /\ tick' \in Tick
        /\ tick'.at # "idle" => /\ tick'.sent = session
                                /\ \A r \in 1..tick'.seen: r \in Session /\ sess[r] # "absent"
        /\ tick'.at = "ping" => tick'.kind \in PingKinds /\ open' = NoOpen
        /\ tick'.at = "advert" => tick'.kind = "advert"
    <2>1. CASE tick' = tick
      BY <1>1, <1>3, <2>1 DEF Types
    <2>2. CASE tick' = Awaiting("advert", age, "advert")
      <3>1. Cardinality(Started) \in Nat /\ Started = 1..Cardinality(Started)
        BY <1>3, StartedFirst, Constants
      <3>2. session \in Session \cup {0}
        BY <1>3 DEF Types
      <3>3. /\ tick' \in Tick /\ tick'.at = "advert" /\ tick'.kind = "advert"
            /\ tick'.sent = session /\ tick'.seen = Cardinality(Started)
        BY <2>2, <3>1, <3>2 DEF Awaiting, Tick
      <3>4. QED
        BY <3>1, <3>3 DEF Started
    <2>3. CASE PingOrDone(age, o)
      BY <1>3, <1>4, <2>3, PingOrDoneTick
    <2>4. QED
      BY <1>1, <2>1, <2>2, <2>3
  <1>6. TickInv' /\ StrayInv'
    BY <1>1, <1>3, <1>5, TickAnew
  <1>8. SessionsInv' /\ ObsInv'
    BY <1>1, <1>3, TablesKept
  <1>9. WorkerInv' /\ OpenInv' /\ OneOpen'
    BY <1>1, <1>3, <1>4 DEF WorkerInv, OpenInv, OneOpen
  <1>10. Counters'
    <2>1. CASE Stopping
      BY <1>1, <2>1, NoCounters DEF Stopping
    <2>2. CASE ~Stopping /\ closes
      BY <1>1, <1>2, <1>3, <2>2, CloseCounts
    <2>3. CASE ~closes
      BY <1>1, <1>3, <2>3, CountersKept
    <2>4. QED
      BY <2>1, <2>2, <2>3
  <1>11. QED
    BY <1>6, <1>8, <1>9, <1>10 DEF IInv

LEMMA InvRows == ASSUME Inv PROVE RowsInv
  BY DEF Inv, IInv, RowsInv, SessionsInv, OpenInv, TickInv, StrayInv

\* A row more of the session that runs; no start or stop beside another, it may be a stray.
LEMMA RowInv ==
  ASSUME Types, RowsInv, ~overlap => TickInv /\ StrayInv,
         session # 0, tick.at # "idle", pings' = NewPing, UNCHANGED <<sess, obs, session>>
  PROVE  /\ \A i \in DOMAIN pings': sess'[pings'[i].session] # "absent"
         /\ ObsInv'
         /\ \A i, j \in DOMAIN pings': Stray(i)' /\ Stray(j)' /\ pings'[i].session = pings'[j].session
                                       => i = j
         /\ \A i \in DOMAIN pings': Stray(i)' => pings'[i].seen < pings'[i].session
  <1>2. tick.kind # "none"
    BY DEF RowsInv, Types, Tick, PingKinds
  <1>0. PICK n: n = Len(pings) + 1
    OBVIOUS
  <1>3. /\ DOMAIN pings' = DOMAIN pings \cup {n} /\ n \notin DOMAIN pings
        /\ \A i \in DOMAIN pings: pings'[i] = pings[i]
        /\ pings'[n].session = session /\ pings'[n].sent = tick.sent /\ pings'[n].seen = tick.seen
        /\ pings'[n].alone = ~overlap
    BY <1>0, <1>2, NewPingRow
  <1>4. \A i \in DOMAIN pings': sess'[pings'[i].session] # "absent"
    BY <1>3 DEF RowsInv
  <1>5. ObsInv'
    BY DEF ObsInv, RowsInv
  <1>6. \A i \in DOMAIN pings: Stray(i)' <=> Stray(i)
    BY <1>3 DEF Stray
  <1>7. Stray(n)' => /\ tick.sent # session /\ tick.seen < session
                     /\ \A i \in DOMAIN pings: pings[i].session = session => ~Stray(i)
    <2>1. Stray(n)' => ~overlap /\ tick.sent # session
      BY <1>3 DEF Stray
    <2>2. QED
      BY <2>1 DEF StrayInv, TickInv
  <1>8. ASSUME NEW i \in DOMAIN pings', NEW j \in DOMAIN pings', Stray(i)', Stray(j)',
               pings'[i].session = pings'[j].session
        PROVE  i = j
    <2>1. CASE i \in DOMAIN pings /\ j \in DOMAIN pings
      BY <1>3, <1>6, <1>8, <2>1 DEF RowsInv
    <2>2. CASE i = n /\ j \in DOMAIN pings
      BY <1>3, <1>6, <1>7, <1>8, <2>2
    <2>3. CASE i \in DOMAIN pings /\ j = n
      BY <1>3, <1>6, <1>7, <1>8, <2>3
    <2>4. QED
      BY <1>3, <2>1, <2>2, <2>3
  <1>9. ASSUME NEW i \in DOMAIN pings', Stray(i)' PROVE pings'[i].seen < pings'[i].session
    <2>1. CASE i \in DOMAIN pings
      BY <1>3, <1>6, <1>9, <2>1 DEF RowsInv
    <2>2. CASE i = n
      BY <1>3, <1>7, <1>9, <2>2
    <2>3. QED
      BY <1>3, <2>1, <2>2
  <1>10. QED
    BY <1>4, <1>5, <1>8, <1>9

LEMMA AdvertSentInv ==
  ASSUME WardriveConstants, Inv, AdvertSent
  PROVE  IInv'
  <1>1. /\ tick.at = "advert"
        /\ session = 0 => tick' = AtRest /\ UNCHANGED pings
        /\ session # 0 => pings' = NewPing /\ PingOrDone(tick.age, open)
        /\ UNCHANGED <<sess, obs, session, count, nodes, nextKind, open, worker>>
    BY DEF AdvertSent, FiledUnder, counters, working
  <1>2. Types /\ IInv /\ SessionsInv /\ ObsInv /\ OneOpen /\ OpenInv /\ WorkerInv
        /\ TickInv /\ StrayInv /\ Counters
    BY DEF Inv, IInv
  <1>3. tick.kind = "advert" /\ tick.age \in 0..MaxAge
    BY <1>1, <1>2 DEF TickInv, Types, Tick
  <1>4. WorkerInv' /\ OneOpen'
    BY <1>1, <1>2 DEF WorkerInv, OneOpen, Started
  <1>5. CASE session = 0
    <2>1. AtRest \in Tick /\ AtRest.at = "idle"
      BY Constants DEF AtRest, Tick
    <2>2. tick'.at = "idle" /\ pings' = pings
      BY <1>1, <1>5, <2>1
    <2>3. TickInv' /\ StrayInv'
      BY <1>1, <1>2, <2>2, TickAnew
    <2>4. SessionsInv' /\ ObsInv' /\ OpenInv' /\ Counters'
      BY <1>1, <1>2, <1>5, <2>2, TablesKept, NoCounters DEF OpenInv
    <2>5. QED
      BY <1>4, <2>2, <2>3, <2>4 DEF IInv
  <1>6. CASE session # 0
    <2>0. PICK n: n = Len(pings) + 1
      OBVIOUS
    <2>1. /\ tick' \in Tick /\ tick'.at \in {"idle", "ping"}
          /\ tick'.at = "ping" => /\ tick'.kind \in PingKinds /\ open = NoOpen
                                  /\ tick'.sent = session
                                  /\ \A r \in 1..tick'.seen: r \in Session /\ sess[r] # "absent"
      BY <1>1, <1>2, <1>3, <1>6, PingOrDoneTick
    <2>2. /\ pings' \in Seq(Ping)
          /\ DOMAIN pings' = DOMAIN pings \cup {n} /\ n \notin DOMAIN pings
          /\ \A i \in DOMAIN pings: pings'[i] = pings[i]
          /\ pings'[n].session = session /\ pings'[n].kind = "advert"
      BY <1>1, <1>2, <1>3, <1>6, <2>0, NewPingRow
    <2>3. /\ SessionsInv' /\ ObsInv'
          /\ \A i, j \in DOMAIN pings': Stray(i)' /\ Stray(j)'
                                        /\ pings'[i].session = pings'[j].session => i = j
          /\ \A i \in DOMAIN pings': Stray(i)' => pings'[i].seen < pings'[i].session
      BY <1>1, <1>2, <1>6, InvRows, RowInv DEF SessionsInv
    <2>4. TickInv'
      BY <1>1, <2>1, TickAnew
    <2>5. StrayInv'
      BY <1>1, <2>1, <2>3 DEF StrayInv
    <2>7. OpenInv'
      BY <1>1, <1>2, <2>2 DEF OpenInv
    <2>8. Counters'
      <3>1. PingsOf(session)' = PingsOf(session)
        BY <1>1, <2>2 DEF PingsOf
      <3>2. \A i \in PingsOf(session): pings'[i].heard = pings[i].heard
        BY <2>2 DEF PingsOf
      <3>3. {i \in PingsOf(session)' \ {open'.id}: pings'[i].heard > 0}
            = {i \in PingsOf(session) \ {open.id}: pings[i].heard > 0}
        BY <1>1, <3>1, <3>2
      <3>4. ObsOf(session)' = ObsOf(session)
        BY <1>1 DEF ObsOf
      <3>5. /\ {i \in ObsOf(session)': obs'[i].ping = 0} = {i \in ObsOf(session): obs[i].ping = 0}
            /\ {obs'[i].node: i \in {j \in ObsOf(session)': obs'[j].ping # 0}}
               = {obs[i].node: i \in {j \in ObsOf(session): obs[j].ping # 0}}
        BY <1>1, <3>4
      <3>6. count' = count /\ nodes' = nodes /\ (Stopping' <=> Stopping)
        BY <1>1 DEF Stopping
      <3>7. QED
        BY <1>2, <1>6, <3>1, <3>3, <3>4, <3>5, <3>6 DEF Counters
    <2>9. QED
      BY <1>4, <2>3, <2>4, <2>5, <2>7, <2>8 DEF IInv
  <1>7. QED
    BY <1>5, <1>6

LEMMA AdvertFailsInv ==
  ASSUME WardriveConstants, Inv, AdvertFails
  PROVE  IInv'
  <1>1. /\ PingOrDone(tick.age, open)
        /\ UNCHANGED <<sess, pings, obs, session, count, nodes, nextKind, open, worker>>
    BY DEF AdvertFails, table, counters, working
  <1>2. Types /\ IInv /\ SessionsInv /\ ObsInv /\ OneOpen /\ OpenInv /\ WorkerInv
        /\ TickInv /\ StrayInv /\ Counters
    BY DEF Inv, IInv
  <1>3. tick.age \in 0..MaxAge
    BY <1>2 DEF Types, Tick
  <1>4. /\ tick' \in Tick /\ tick'.at \in {"idle", "ping"}
        /\ tick'.at = "ping" => /\ tick'.kind \in PingKinds /\ open = NoOpen
                                /\ tick'.sent = session
                                /\ \A r \in 1..tick'.seen: r \in Session /\ sess[r] # "absent"
    BY <1>1, <1>2, <1>3, PingOrDoneTick
  <1>5. TickInv' /\ StrayInv'
    BY <1>1, <1>2, <1>4, TickAnew
  <1>7. SessionsInv' /\ ObsInv' /\ Counters'
    BY <1>1, <1>2, TablesKept, CountersKept
  <1>8. WorkerInv' /\ OpenInv' /\ OneOpen'
    BY <1>1, <1>2 DEF WorkerInv, Started, OpenInv, OneOpen
  <1>9. QED
    BY <1>5, <1>7, <1>8 DEF IInv

LEMMA PingSentInv ==
  ASSUME WardriveConstants, Inv, PingSent
  PROVE  IInv'
  <1>1. /\ tick.at = "ping" /\ tick' = AtRest
        /\ session = 0 => UNCHANGED <<pings, open, nextKind, count>>
        /\ session # 0 => /\ pings' = NewPing
                          /\ open' = [id |-> Len(pings) + 1, kind |-> tick.kind,
                                      left |-> Window(tick.kind) - tick.age]
                          /\ nextKind' = IF tick.kind = "discover" THEN "chan" ELSE "discover"
                          /\ count' = [count EXCEPT !.pings = @ + 1]
        /\ UNCHANGED <<sess, obs, session, nodes, worker>>
    BY DEF PingSent, FiledUnder, working
  <1>2. Types /\ IInv /\ SessionsInv /\ ObsInv /\ OneOpen /\ OpenInv /\ WorkerInv
        /\ TickInv /\ StrayInv /\ Counters
    BY DEF Inv, IInv
  <1>3. tick.kind \in PingKinds /\ open = NoOpen /\ tick.age \in 0..MaxAge /\ tick.kind # "none"
    BY <1>1, <1>2 DEF TickInv, Types, Tick, PingKinds
  <1>4. AtRest \in Tick /\ tick'.at = "idle"
    BY <1>1, Constants DEF AtRest, Tick
  <1>5. CASE session = 0
    <2>1. pings' = pings
      BY <1>1, <1>5
    <2>2. TickInv' /\ StrayInv'
      BY <1>1, <1>2, <1>4, <2>1, TickAnew
    <2>3. SessionsInv' /\ ObsInv' /\ OpenInv' /\ Counters'
      BY <1>1, <1>2, <1>5, <2>1, TablesKept, NoCounters DEF OpenInv
    <2>4. WorkerInv' /\ OneOpen'
      BY <1>1, <1>2, <1>5 DEF WorkerInv, OneOpen, Started
    <2>5. QED
      BY <2>1, <2>2, <2>3, <2>4 DEF IInv
  <1>6. CASE session # 0
    <2>1. PICK n: n = Len(pings) + 1
      OBVIOUS
    <2>2. /\ pings' \in Seq(Ping)
          /\ DOMAIN pings' = DOMAIN pings \cup {n} /\ n \notin DOMAIN pings
          /\ \A i \in DOMAIN pings: pings'[i] = pings[i]
          /\ pings'[n].session = session /\ pings'[n].kind = tick.kind
      BY <1>1, <1>2, <1>3, <1>6, <2>1, NewPingRow
    <2>3. /\ SessionsInv' /\ ObsInv'
          /\ \A i, j \in DOMAIN pings': Stray(i)' /\ Stray(j)'
                                        /\ pings'[i].session = pings'[j].session => i = j
          /\ \A i \in DOMAIN pings': Stray(i)' => pings'[i].seen < pings'[i].session
      BY <1>1, <1>2, <1>6, InvRows, RowInv DEF SessionsInv
    <2>4. TickInv' /\ StrayInv'
      BY <1>1, <1>4, <2>3, TickAnew DEF StrayInv
    <2>5. n \in Nat \ {0} /\ Window(tick.kind) \in Nat /\ tick.age \in Nat
      BY <1>2, <1>3, <2>1, Rows, Constants
    <2>6. /\ open' \in Open /\ open'.id = n /\ open'.kind = tick.kind
          /\ open'.left <= Window(open'.kind)
      BY <1>1, <1>3, <1>6, <2>1, <2>5 DEF Open
    <2>7. count' = [count EXCEPT !.pings = @ + 1] /\ nextKind' \in PingKinds
      BY <1>1, <1>6 DEF PingKinds
    <2>9. OpenInv'
      BY <1>1, <2>2, <2>6 DEF OpenInv, Window
    <2>10. WorkerInv' /\ OneOpen'
      BY <1>1, <1>2, <1>6 DEF WorkerInv, OneOpen
    <2>11. Counters'
      <3> DEFINE P == PingsOf(session)
      <3>1. P \in SUBSET (1..Len(pings)) /\ Len(pings) \in Nat /\ n \notin P /\ 0 \notin P
        BY <1>2, <2>1, Rows DEF PingsOf
      <3>2. tick.kind # "advert"
        BY <1>3 DEF PingKinds
      <3>3. PingsOf(session)' = P \cup {n}
        BY <1>1, <2>2, <3>2 DEF PingsOf
      <3>4. \A i \in P: pings'[i].heard = pings[i].heard
        BY <2>2 DEF PingsOf
      <3>5. open.id = 0
        BY <1>3 DEF NoOpen
      <3> HIDE DEF P
      <3>6. {i \in PingsOf(session)' \ {open'.id}: pings'[i].heard > 0}
            = {i \in P \ {open.id}: pings[i].heard > 0}
        BY <2>6, <3>1, <3>3, <3>4, <3>5
      <3>7. Cardinality(PingsOf(session)') = Cardinality(P) + 1
        BY <3>1, <3>3, OneMore
      <3>8. count'.pings = count.pings + 1 /\ count'.heard = count.heard /\ count'.rx = count.rx
        BY <1>2, <2>7 DEF Types
      <3>9. CASE Stopping
        BY <1>1, <3>9, NoCounters DEF Stopping
      <3>10. CASE ~Stopping
        <4>1. /\ count.pings = Cardinality(P)
              /\ count.heard = Cardinality({i \in P \ {open.id}: pings[i].heard > 0})
              /\ count.rx = Cardinality({i \in ObsOf(session): obs[i].ping = 0})
              /\ nodes = {obs[i].node: i \in {j \in ObsOf(session): obs[j].ping # 0}}
          BY <1>2, <1>6, <3>10 DEF Counters, P
        <4>2. /\ {i \in ObsOf(session)': obs'[i].ping = 0}
                 = {i \in ObsOf(session): obs[i].ping = 0}
              /\ {obs'[i].node: i \in {j \in ObsOf(session)': obs'[j].ping # 0}}
                 = {obs[i].node: i \in {j \in ObsOf(session): obs[j].ping # 0}}
          BY <1>1 DEF ObsOf
        <4>3. QED
          BY <1>1, <3>6, <3>7, <3>8, <4>1, <4>2 DEF Counters
      <3>11. QED
        BY <3>9, <3>10
    <2>12. QED
      BY <2>3, <2>4, <2>9, <2>10, <2>11 DEF IInv
  <1>7. QED
    BY <1>5, <1>6

LEMMA PingFailsInv ==
  ASSUME WardriveConstants, Inv, PingFails
  PROVE  IInv'
  <1>1. /\ tick' = AtRest
        /\ UNCHANGED <<sess, pings, obs, session, count, nodes, nextKind, open, worker>>
    BY DEF PingFails, table, counters, pacing, working
  <1>2. Types /\ IInv /\ SessionsInv /\ ObsInv /\ OneOpen /\ OpenInv /\ WorkerInv
        /\ TickInv /\ StrayInv /\ Counters
    BY DEF Inv, IInv
  <1>3. AtRest \in Tick /\ tick'.at = "idle"
    BY <1>1, Constants DEF AtRest, Tick
  <1>4. TickInv' /\ StrayInv'
    BY <1>1, <1>2, <1>3, TickAnew
  <1>6. SessionsInv' /\ ObsInv' /\ Counters'
    BY <1>1, <1>2, TablesKept, CountersKept
  <1>7. WorkerInv' /\ OpenInv' /\ OneOpen'
    BY <1>1, <1>2 DEF WorkerInv, Started, OpenInv, OneOpen
  <1>8. QED
    BY <1>4, <1>6, <1>7 DEF IInv

-----------------------------------------------------------------------------
\* What is heard keeps it

LEMMA NewObs ==
  ASSUME Types, NEW e \in Obs, obs' = Append(obs, e)
  PROVE  /\ obs' \in Seq(Obs) /\ obs'[Len(obs) + 1] = e
         /\ DOMAIN obs' = DOMAIN obs \cup {Len(obs) + 1} /\ Len(obs) + 1 \notin DOMAIN obs
         /\ \A j \in DOMAIN obs: obs'[j] = obs[j]
  <1>1. obs \in Seq(Obs) /\ Len(obs) \in Nat /\ DOMAIN obs = 1..Len(obs)
    BY DEF Types
  <1>2. /\ obs' \in Seq(Obs) /\ Len(obs') = Len(obs) + 1
        /\ \A i \in 1..Len(obs): obs'[i] = obs[i]
        /\ obs'[Len(obs) + 1] = e
    BY <1>1, AppendProperties
  <1>3. DOMAIN obs' = 1..Len(obs) + 1
    BY <1>1, <1>2
  <1>4. QED
    BY <1>1, <1>2, <1>3

\* One answer more in a row of the pings.
LEMMA AnsweredRow ==
  ASSUME Types, NEW id \in DOMAIN pings, pings' = [pings EXCEPT ![id].heard = @ + 1]
  PROVE  /\ pings' \in Seq(Ping) /\ DOMAIN pings' = DOMAIN pings
         /\ \A i \in DOMAIN pings: /\ i # id => pings'[i] = pings[i]
                                   /\ pings'[i].session = pings[i].session
                                   /\ pings'[i].kind = pings[i].kind
                                   /\ pings'[i].sent = pings[i].sent
                                   /\ pings'[i].seen = pings[i].seen
                                   /\ pings'[i].alone = pings[i].alone
  <1> DEFINE e == [pings[id] EXCEPT !.heard = @ + 1]
  <1>0. pings[id] \in Ping
    BY Rows
  <1>1. /\ e \in Ping /\ e.session = pings[id].session /\ e.kind = pings[id].kind
        /\ e.sent = pings[id].sent /\ e.seen = pings[id].seen /\ e.alone = pings[id].alone
    BY <1>0 DEF Ping
  <1>2. pings' = [pings EXCEPT ![id] = e]
    OBVIOUS
  <1> HIDE DEF e
  <1>3. pings \in Seq(Ping) /\ DOMAIN pings = 1..Len(pings) /\ Len(pings) \in Nat
    BY Rows DEF Types
  <1>4. /\ pings' \in Seq(Ping) /\ Len(pings') = Len(pings)
        /\ \A i \in 1..Len(pings): pings'[i] = IF i = id THEN e ELSE pings[i]
    BY <1>1, <1>2, <1>3, ExceptSeq
  <1>5. DOMAIN pings' = DOMAIN pings
    BY <1>3, <1>4
  <1>6. QED
    BY <1>1, <1>3, <1>4, <1>5

\* An answer counts in the row of the open ping, which no counter holds yet.
LEMMA AnswerInv ==
  ASSUME WardriveConstants, Inv, NEW n \in Nodes, Answer(n)
  PROVE  IInv'
  <1>1. /\ session # 0 /\ open # NoOpen
        /\ obs' = Append(obs, [session |-> session, ping |-> open.id, node |-> n,
                               kind |-> IF open.kind = "discover" THEN "discover" ELSE "echo"])
        /\ pings' = [pings EXCEPT ![open.id].heard = @ + 1]
        /\ nodes' = nodes \cup {n}
        /\ UNCHANGED <<sess, session, count, nextKind, open, worker, tick>>
    BY DEF Answer, pacing, working
  <1>2. Types /\ IInv /\ SessionsInv /\ ObsInv /\ OneOpen /\ OpenInv /\ WorkerInv
        /\ TickInv /\ StrayInv /\ Counters
    BY DEF Inv, IInv
  <1>3. PICK id: id = open.id
    OBVIOUS
  <1>4. id \in DOMAIN pings /\ id \in Nat \ {0} /\ pings[id] \in Ping
    BY <1>1, <1>2, <1>3, Rows DEF OpenInv, Types, Open
  <1>5. PICK m: m = Len(obs) + 1
    OBVIOUS
  <1>6. /\ obs' \in Seq(Obs) /\ DOMAIN obs' = DOMAIN obs \cup {m} /\ m \notin DOMAIN obs
        /\ \A j \in DOMAIN obs: obs'[j] = obs[j]
        /\ obs'[m].session = session /\ obs'[m].ping = id /\ obs'[m].node = n
    <2> DEFINE e == [session |-> session, ping |-> open.id, node |-> n,
                     kind |-> IF open.kind = "discover" THEN "discover" ELSE "echo"]
    <2>1. e \in Obs /\ e.session = session /\ e.ping = id /\ e.node = n
      BY <1>1, <1>2, <1>3, <1>4 DEF Types, Obs
    <2>2. obs' = Append(obs, e)
      BY <1>1
    <2> HIDE DEF e
    <2>3. QED
      BY <1>2, <1>5, <2>1, <2>2, NewObs
  <1>7. /\ pings' \in Seq(Ping) /\ DOMAIN pings' = DOMAIN pings
        /\ \A i \in DOMAIN pings: /\ i # id => pings'[i] = pings[i]
                                  /\ pings'[i].session = pings[i].session
                                  /\ pings'[i].kind = pings[i].kind
                                  /\ pings'[i].sent = pings[i].sent
                                  /\ pings'[i].seen = pings[i].seen
                                  /\ pings'[i].alone = pings[i].alone
    BY <1>1, <1>2, <1>3, <1>4, AnsweredRow
  <1>9. SessionsInv'
    BY <1>1, <1>2, <1>7 DEF SessionsInv
  <1>10. ObsInv'
    BY <1>1, <1>2, <1>6 DEF ObsInv, SessionsInv
  <1>11. WorkerInv' /\ OneOpen' /\ TickInv'
    BY <1>1, <1>2 DEF WorkerInv, OneOpen, TickInv
  <1>12. OpenInv'
    BY <1>1, <1>2, <1>3, <1>4, <1>7 DEF OpenInv, Window
  <1>13. StrayInv'
    BY <1>1, <1>2, <1>7 DEF StrayInv, Stray
  <1>14. Counters'
    <2>1. CASE Stopping
      BY <1>1, <2>1, NoCounters DEF Stopping
    <2>2. CASE ~Stopping
      <3>1. PingsOf(session)' = PingsOf(session)
        BY <1>1, <1>7 DEF PingsOf
      <3>2. \A i \in PingsOf(session) \ {id}: pings'[i].heard = pings[i].heard
        BY <1>7 DEF PingsOf
      <3>3. {i \in PingsOf(session)' \ {open'.id}: pings'[i].heard > 0}
            = {i \in PingsOf(session) \ {open.id}: pings[i].heard > 0}
        BY <1>1, <1>3, <3>1, <3>2
      <3>4. ObsOf(session)' = ObsOf(session) \cup {m} /\ m \notin ObsOf(session)
        BY <1>1, <1>6 DEF ObsOf
      <3>5. \A j \in ObsOf(session): obs'[j] = obs[j]
        BY <1>6 DEF ObsOf
      <3>6. {i \in ObsOf(session)': obs'[i].ping = 0} = {i \in ObsOf(session): obs[i].ping = 0}
        BY <1>4, <1>6, <3>4, <3>5
      <3>7. {j \in ObsOf(session)': obs'[j].ping # 0}
            = {j \in ObsOf(session): obs[j].ping # 0} \cup {m}
        BY <1>4, <1>6, <3>4, <3>5
      <3>8. {obs'[i].node: i \in {j \in ObsOf(session)': obs'[j].ping # 0}}
            = {obs[i].node: i \in {j \in ObsOf(session): obs[j].ping # 0}} \cup {n}
        BY <1>6, <3>5, <3>7
      <3>9. /\ count.pings = Cardinality(PingsOf(session))
            /\ count.heard = Cardinality({i \in PingsOf(session) \ {open.id}: pings[i].heard > 0})
            /\ count.rx = Cardinality({i \in ObsOf(session): obs[i].ping = 0})
            /\ nodes = {obs[i].node: i \in {j \in ObsOf(session): obs[j].ping # 0}}
        BY <1>1, <1>2, <2>2 DEF Counters
      <3>10. QED
        BY <1>1, <3>1, <3>3, <3>6, <3>8, <3>9 DEF Counters
    <2>3. QED
      BY <2>1, <2>2
  <1>15. QED
    BY <1>9, <1>10, <1>11, <1>12, <1>13, <1>14 DEF IInv

LEMMA RxInv ==
  ASSUME WardriveConstants, Inv, NEW n \in Nodes, Rx(n)
  PROVE  IInv'
  <1>1. /\ session # 0
        /\ obs' = Append(obs, [session |-> session, ping |-> 0, kind |-> "rx", node |-> n])
        /\ count' = [count EXCEPT !.rx = @ + 1]
        /\ UNCHANGED <<sess, pings, session, nodes, nextKind, open, worker, tick>>
    BY DEF Rx, pacing, working
  <1>2. Types /\ IInv /\ SessionsInv /\ ObsInv /\ OneOpen /\ OpenInv /\ WorkerInv
        /\ TickInv /\ StrayInv /\ Counters
    BY DEF Inv, IInv
  <1>3. PICK m: m = Len(obs) + 1
    OBVIOUS
  <1>4. /\ obs' \in Seq(Obs) /\ DOMAIN obs' = DOMAIN obs \cup {m} /\ m \notin DOMAIN obs
        /\ \A j \in DOMAIN obs: obs'[j] = obs[j]
        /\ obs'[m].session = session /\ obs'[m].ping = 0
    <2> DEFINE e == [session |-> session, ping |-> 0, kind |-> "rx", node |-> n]
    <2>1. e \in Obs /\ e.session = session /\ e.ping = 0
      BY <1>1, <1>2 DEF Types, Obs
    <2>2. obs' = Append(obs, e)
      BY <1>1
    <2> HIDE DEF e
    <2>3. QED
      BY <1>2, <1>3, <2>1, <2>2, NewObs
  <1>5. count' \in [pings: Nat, heard: Nat, rx: Nat] /\ count'.pings = count.pings
        /\ count'.heard = count.heard /\ count'.rx = count.rx + 1
    <2>1. count \in [pings: Nat, heard: Nat, rx: Nat]
      BY <1>2 DEF Types
    <2>2. QED
      BY <1>1, <2>1
  <1>7. SessionsInv' /\ TickInv' /\ StrayInv'
    BY <1>1, <1>2, TickKept DEF SessionsInv
  <1>8. ObsInv'
    BY <1>1, <1>2, <1>4 DEF ObsInv, SessionsInv
  <1>9. WorkerInv' /\ OneOpen' /\ OpenInv'
    BY <1>1, <1>2 DEF WorkerInv, OneOpen, OpenInv
  <1>10. Counters'
    <2>1. CASE Stopping
      BY <1>1, <2>1, NoCounters DEF Stopping
    <2>2. CASE ~Stopping
      <3>1. /\ count.pings = Cardinality(PingsOf(session))
            /\ count.heard = Cardinality({i \in PingsOf(session) \ {open.id}: pings[i].heard > 0})
            /\ count.rx = Cardinality({i \in ObsOf(session): obs[i].ping = 0})
            /\ nodes = {obs[i].node: i \in {j \in ObsOf(session): obs[j].ping # 0}}
        BY <1>1, <1>2, <2>2 DEF Counters
      <3>2. /\ PingsOf(session)' = PingsOf(session)
            /\ {i \in PingsOf(session)' \ {open'.id}: pings'[i].heard > 0}
               = {i \in PingsOf(session) \ {open.id}: pings[i].heard > 0}
        BY <1>1 DEF PingsOf
      <3>3. ObsOf(session)' = ObsOf(session) \cup {m} /\ m \notin ObsOf(session)
        BY <1>1, <1>4 DEF ObsOf
      <3>4. \A j \in ObsOf(session): obs'[j] = obs[j]
        BY <1>4 DEF ObsOf
      <3> DEFINE R == {i \in ObsOf(session): obs[i].ping = 0}
      <3>5. {i \in ObsOf(session)': obs'[i].ping = 0} = R \cup {m}
        BY <1>4, <3>3, <3>4
      <3>6. R \in SUBSET (1..Len(obs)) /\ m \notin R /\ Len(obs) \in Nat
        BY <1>2, <3>3, Rows DEF ObsOf
      <3>7. {j \in ObsOf(session)': obs'[j].ping # 0} = {j \in ObsOf(session): obs[j].ping # 0}
        BY <1>4, <3>3, <3>4
      <3>8. {obs'[i].node: i \in {j \in ObsOf(session)': obs'[j].ping # 0}}
            = {obs[i].node: i \in {j \in ObsOf(session): obs[j].ping # 0}}
        BY <3>4, <3>7
      <3>9. Cardinality(R \cup {m}) = Cardinality(R) + 1
        BY <3>6, OneMore
      <3>10. QED
        BY <1>1, <1>5, <3>1, <3>2, <3>5, <3>8, <3>9 DEF Counters
    <2>3. QED
      BY <2>1, <2>2
  <1>11. QED
    BY <1>7, <1>8, <1>9, <1>10 DEF IInv

-----------------------------------------------------------------------------
\* Time and the process keep it

LEMMA AdvanceInv ==
  ASSUME WardriveConstants, Inv, Advance
  PROVE  IInv'
  <1>1. /\ tick.at # "idle" => tick.age < MaxAge
        /\ tick' = IF tick.at = "idle" THEN tick ELSE [tick EXCEPT !.age = @ + 1]
        /\ open' = IF open.left > -MaxAge /\ open # NoOpen THEN [open EXCEPT !.left = @ - 1] ELSE open
        /\ UNCHANGED <<sess, pings, obs, session, count, nodes, nextKind, worker>>
    BY DEF Advance, table, counters, working
  <1>2. Types /\ IInv /\ SessionsInv /\ ObsInv /\ OneOpen /\ OpenInv /\ WorkerInv
        /\ TickInv /\ StrayInv /\ Counters
    BY DEF Inv, IInv
  <1>3. /\ tick' \in Tick /\ tick'.at = tick.at /\ tick'.kind = tick.kind
        /\ tick'.sent = tick.sent /\ tick'.seen = tick.seen
    <2>1. tick \in Tick
      BY <1>2 DEF Types
    <2>2. CASE tick.at = "idle"
      BY <1>1, <2>1, <2>2
    <2>3. CASE tick.at # "idle"
      <3>1. tick' = [tick EXCEPT !.age = @ + 1] /\ tick.age < MaxAge /\ MaxAge \in Nat
        BY <1>1, <2>3, Constants
      <3>2. QED
        BY <2>1, <3>1 DEF Tick
    <2>4. QED
      BY <2>2, <2>3
  <1>4. /\ open = NoOpen => open' = NoOpen
        /\ open # NoOpen => /\ open' \in Open /\ open'.id = open.id /\ open'.kind = open.kind
                            /\ open'.left <= open.left
    BY SMTT(40), <1>1, <1>2 DEF Types, Open
  <1>5. open'.id = open.id
    BY <1>4
  <1>6. open # NoOpen => open.left \in Int /\ Window(open.kind) \in Nat /\ open \in Open
    BY <1>2, Constants DEF Types, Open
  <1>8. SessionsInv' /\ ObsInv' /\ Counters'
    BY <1>1, <1>2, <1>5, TablesKept, CountersKept
  <1>9. WorkerInv' /\ OneOpen'
    BY <1>1, <1>2, <1>4 DEF WorkerInv, OneOpen, Started
  <1>10. OpenInv'
    <2> SUFFICES ASSUME open' # NoOpen PROVE OpenInv'
      BY DEF OpenInv
    <2>1. open # NoOpen /\ open' \in Open /\ open'.left \in Int
      BY <1>4 DEF Open
    <2>2. open'.left <= Window(open'.kind)
      BY <1>2, <1>4, <1>6, <2>1 DEF OpenInv
    <2>3. QED
      BY <1>1, <1>2, <1>4, <2>1, <2>2 DEF OpenInv, Window
  <1>11. TickInv' /\ StrayInv'
    BY <1>1, <1>2, <1>3, <1>4 DEF TickInv, StrayInv, Stray
  <1>12. QED
    BY <1>8, <1>9, <1>10, <1>11 DEF IInv

LEMMA MoveInv ==
  ASSUME WardriveConstants, Inv, Move
  PROVE  IInv'
  <1>1. UNCHANGED <<sess, pings, obs, session, count, nodes, nextKind, open, worker, tick>>
    BY DEF Move, table, counters, working
  <1>2. Types /\ IInv
    BY DEF Inv
  <1>4. SessionsInv' /\ ObsInv' /\ TickInv' /\ StrayInv' /\ Counters'
    BY <1>1, <1>2, TablesKept, TickKept, CountersKept DEF IInv
  <1>5. WorkerInv' /\ OpenInv' /\ OneOpen'
    BY <1>1, <1>2 DEF IInv, WorkerInv, Started, OpenInv, OneOpen
  <1>6. QED
    BY <1>4, <1>5 DEF IInv

\* What the process that died left open is closed.
LEMMA RestartInv ==
  ASSUME WardriveConstants, Types, RowsInv, Restart
  PROVE  IInv'
  <1>1. /\ sess' = CloseLeftovers /\ session' = 0
        /\ count' = ZeroCount /\ nodes' = {} /\ open' = NoOpen /\ nextKind' = "discover"
        /\ worker' = [w \in Threads |-> NoWork] /\ tick' = AtRest
        /\ UNCHANGED <<pings, obs>>
    BY DEF Restart, Reset
  <1>3. /\ sess' \in [Session -> {"absent", "open", "ended"}]
        /\ \A s \in Session: sess'[s] # "open" /\ (sess'[s] # "absent" <=> sess[s] # "absent")
    BY <1>1 DEF Types, CloseLeftovers
  <1>4. tick'.at = "idle" /\ \A w \in Threads: worker'[w].next = "idle"
    BY <1>1 DEF AtRest, NoWork
  <1>6. SessionsInv'
    <2>1. \A s \in Session: 1..s \subseteq Session
      BY Constants DEF Session
    <2>2. QED
      BY <1>1, <1>3, <2>1, Rows DEF SessionsInv, RowsInv
  <1>7. ObsInv'
    BY <1>1, <1>3, Rows DEF ObsInv, RowsInv
  <1>8. WorkerInv' /\ OpenInv' /\ TickInv' /\ OneOpen'
    BY <1>1, <1>3, <1>4 DEF WorkerInv, OpenInv, TickInv, OneOpen
  <1>9. StrayInv'
    BY <1>1, <1>4 DEF RowsInv, StrayInv, Stray
  <1>10. Counters'
    BY <1>1, NoCounters
  <1>11. QED
    BY <1>6, <1>7, <1>8, <1>9, <1>10 DEF IInv

-----------------------------------------------------------------------------
\* A start or a stop beside another: the types and the rows

\* The numbers of a tick, the work of a thread.
LEMMA Records ==
  ASSUME WardriveConstants
  PROVE  /\ AtRest \in Tick /\ AtRest.at = "idle" /\ NoWork \in Work
         /\ ZeroCount \in [pings: Nat, heard: Nat, rx: Nat] /\ NoOpen.id = 0
  BY Constants DEF AtRest, Tick, NoWork, Work, ZeroCount, NoOpen

\* The rows as they were, or with sessions ended, and the open ping as it was, or closed.
LEMMA RowsKept ==
  ASSUME WardriveConstants, Types, RowsInv, UNCHANGED <<pings, obs>>,
         \A s \in Session: sess'[s] # "absent" <=> sess[s] # "absent",
         session' = session \/ session' = 0,
         open' = NoOpen \/ (open # NoOpen /\ open'.id = open.id /\ open'.kind = open.kind
                            /\ open'.left <= Window(open'.kind)),
         tick'.at = "ping" => tick'.kind \in PingKinds,
         tick'.at = "advert" => tick'.kind = "advert"
  PROVE  RowsInv'
  <1>1. \A s \in Session: \A r \in 1..s: r \in Session
    BY Constants DEF Session
  <1>2. /\ \A i \in DOMAIN pings: pings[i].session \in Session
        /\ \A j \in DOMAIN obs: obs[j].session \in Session
    BY Rows
  <1>3. \A s \in Session: sess'[s] # "absent" => \A r \in 1..s: sess'[r] # "absent"
    BY <1>1 DEF RowsInv
  <1>4. session' # 0 => sess'[session'] # "absent"
    BY DEF RowsInv, Types
  <1>5. (\A i \in DOMAIN pings: sess'[pings[i].session] # "absent") /\ ObsInv'
    BY <1>2 DEF RowsInv, ObsInv
  <1>6. open' # NoOpen => /\ open'.id \in DOMAIN pings' /\ open'.kind = pings'[open'.id].kind
                          /\ open'.left <= Window(open'.kind)
    BY DEF RowsInv
  <1>7. \A i: Stray(i)' <=> Stray(i)
    BY DEF Stray
  <1>8. QED
    BY <1>3, <1>4, <1>5, <1>6, <1>7 DEF RowsInv, Window

\* The types and the rows after a step that adds no row and starts no session.
LEMMA StepKept ==
  ASSUME WardriveConstants, Types, RowsInv, UNCHANGED <<pings, obs>>,
         sess' \in [Session -> {"absent", "open", "ended"}],
         \A s \in Session: sess'[s] # "absent" <=> sess[s] # "absent",
         session' = session \/ session' = 0,
         count' = count \/ count' = ZeroCount \/ (\E h \in Nat: Closed(h)),
         nodes' = nodes \/ nodes' = {}, nextKind' = nextKind \/ nextKind' = "discover",
         open' = NoOpen \/ open' = open,
         worker' \in [Threads -> Work], overlap' \in BOOLEAN,
         tick' \in Tick,
         tick'.at = "ping" => tick'.kind \in PingKinds,
         tick'.at = "advert" => tick'.kind = "advert"
  PROVE  Types' /\ RowsInv'
  <1>1. count' \in [pings: Nat, heard: Nat, rx: Nat]
    BY Records, ClosedTypes DEF Types
  <1>2. nextKind' \in PingKinds
    BY DEF Types, PingKinds
  <1>3. Types'
    BY <1>1, <1>2 DEF Types
  <1>4. RowsInv'
    BY RowsKept DEF RowsInv
  <1>5. QED
    BY <1>3, <1>4

LEMMA EndedTypes ==
  ASSUME Types, RowsInv
  PROVE  /\ Ended(session) \in [Session -> {"absent", "open", "ended"}]
         /\ \A s \in Session: Ended(session)[s] # "absent" <=> sess[s] # "absent"
  BY DEF Types, RowsInv, Ended

\* What start and stop leave, and a stop on the event loop.
LEMMA RequestsRows ==
  ASSUME WardriveConstants, Types, RowsInv, NEW w \in Threads,
         StartBegins(w) \/ StopBegins(w) \/ StopCloses(w) \/ StopEnds(w) \/ StopClears(w)
  PROVE  Types' /\ RowsInv'
  <1>1. /\ worker \in [Threads -> Work] /\ overlap \in BOOLEAN /\ HeardOf(open.id) \in Nat
        /\ sess \in [Session -> {"absent", "open", "ended"}] /\ tick \in Tick
        /\ tick.at = "ping" => tick.kind \in PingKinds
        /\ tick.at = "advert" => tick.kind = "advert"
    BY HeardOfNat DEF Types, RowsInv
  <1>2. CASE StartBegins(w)
    <2>1. /\ worker' = [worker EXCEPT ![w] = [next |-> "insert", heard |-> 0]]
          /\ overlap' \in BOOLEAN
      BY <1>2 DEF StartBegins, Begins
    <2>2. worker' \in [Threads -> Work]
      BY <1>1, <2>1 DEF Work
    <2>3. QED
      BY <1>1, <1>2, <2>1, <2>2, StepKept DEF StartBegins, Reset, table
  <1>3. CASE StopBegins(w)
    <2>1. /\ worker' = [worker EXCEPT ![w] = [next |-> IF open = NoOpen THEN "end" ELSE "close",
                                              heard |-> HeardOf(open.id)]]
          /\ overlap' \in BOOLEAN
      BY <1>3 DEF StopBegins, Begins
    <2>2. worker' \in [Threads -> Work]
      BY <1>1, <2>1 DEF Work
    <2>3. QED
      BY <1>1, <1>3, <2>1, <2>2, StepKept DEF StopBegins, table, counters, pacing
  <1>4. CASE StopCloses(w)
    <2>1. worker' = [worker EXCEPT ![w] = [next |-> "end", heard |-> 0]] /\ worker[w].heard \in Nat
      BY <1>1, <1>4 DEF StopCloses, Work
    <2>2. worker' \in [Threads -> Work]
      BY <1>1, <2>1 DEF Work
    <2>3. QED
      BY <1>1, <1>4, <2>1, <2>2, StepKept DEF StopCloses, Closed, table, pacing
  <1>5. CASE StopEnds(w)
    <2>1. worker' \in [Threads -> Work]
      BY <1>1, <1>5 DEF StopEnds, Work
    <2>2. QED
      BY <1>1, <1>5, <2>1, EndedTypes, StepKept DEF StopEnds, counters, pacing
  <1>6. CASE StopClears(w)
    <2>1. worker' \in [Threads -> Work]
      BY <1>1, <1>6, Records DEF StopClears
    <2>2. QED
      BY <1>1, <1>6, <2>1, StepKept DEF StopClears, table, counters, pacing
  <1>7. QED
    BY <1>2, <1>3, <1>4, <1>5, <1>6

LEMMA SwitchOffRows ==
  ASSUME WardriveConstants, Types, RowsInv, SwitchOff
  PROVE  Types' /\ RowsInv'
  <1>1. HeardOf(open.id) \in Nat /\ open' = NoOpen
    BY HeardOfNat DEF RowsInv, SwitchOff, Closed
  <1>2. /\ sess' = Ended(session) /\ session' = 0 /\ Closed(HeardOf(open.id))
        /\ UNCHANGED <<pings, obs, nodes, nextKind, worker, overlap, tick>>
    BY DEF SwitchOff, pacing, working
  <1>3. QED
    BY <1>1, <1>2, EndedTypes, StepKept DEF Types, RowsInv

\* A new session has the first number that is free.
LEMMA StartInsertsRows ==
  ASSUME WardriveConstants, Types, RowsInv, NEW w \in Threads, StartInserts(w)
  PROVE  Types' /\ RowsInv'
  <1>1. PICK new \in Session:
               /\ sess[new] = "absent" /\ \A r \in 1..(new - 1): sess[r] # "absent"
               /\ sess' = [sess EXCEPT ![new] = "open"] /\ session' = new
    BY DEF StartInserts
  <1>2. /\ worker' = [worker EXCEPT ![w] = NoWork]
        /\ UNCHANGED <<pings, obs, count, nodes, nextKind, open, overlap, tick>>
    BY DEF StartInserts, counters, pacing
  <1>3. /\ sess' \in [Session -> {"absent", "open", "ended"}] /\ sess'[new] = "open"
        /\ \A s \in Session: s # new => sess'[s] = sess[s]
    BY <1>1 DEF Types
  <1>4. worker' \in [Threads -> Work]
    BY <1>2, Records DEF Types
  <1>5. Types'
    BY <1>1, <1>2, <1>3, <1>4 DEF Types
  <1>6. ASSUME NEW s \in Session, sess'[s] # "absent", NEW r \in 1..s PROVE sess'[r] # "absent"
    <2>1. r \in Session /\ s \in Nat /\ r \in Nat /\ new \in Nat
      BY Constants DEF Session
    <2>2. CASE r = new
      BY <1>3, <2>2
    <2>3. CASE r # new /\ s = new
      BY <1>1, <1>3, <1>6, <2>1, <2>3
    <2>4. CASE r # new /\ s # new
      BY <1>3, <1>6, <2>1, <2>4 DEF RowsInv
    <2>5. QED
      BY <2>2, <2>3, <2>4
  <1>7. /\ \A i \in DOMAIN pings: sess'[pings[i].session] # "absent"
        /\ \A j \in DOMAIN obs: sess'[obs[j].session] # "absent"
    BY <1>3, Rows DEF RowsInv, ObsInv
  <1>8. \A i: Stray(i)' <=> Stray(i)
    BY <1>2 DEF Stray
  <1>9. QED
    BY <1>1, <1>2, <1>3, <1>5, <1>6, <1>7, <1>8 DEF RowsInv, ObsInv, Window

\* What a tick leaves that adds no row.
LEMMA TicksRows ==
  ASSUME WardriveConstants, Types, RowsInv,
         Ticks \/ AdvertFails \/ PingFails
  PROVE  Types' /\ RowsInv'
  <1>1. /\ tick \in Tick /\ tick.age \in 0..MaxAge /\ HeardOf(open.id) \in Nat
        /\ sess \in [Session -> {"absent", "open", "ended"}]
        /\ worker \in [Threads -> Work] /\ overlap \in BOOLEAN
        /\ tick.at = "ping" => tick.kind \in PingKinds
        /\ tick.at = "advert" => tick.kind = "advert"
    BY HeardOfNat DEF Types, RowsInv, Tick
  <1>2. CASE Ticks
    <2>1. PICK age \in 0..MaxAge, ready \in BOOLEAN: TickStarts(age, ready)
      BY <1>2 DEF Ticks
    <2>2. /\ tick' \in Tick
          /\ tick'.at = "ping" => tick'.kind \in PingKinds
          /\ tick'.at = "advert" => tick'.kind = "advert"
      <3>1. CASE tick' = tick
        BY <1>1, <3>1
      <3>2. CASE tick' = Awaiting("advert", age, "advert")
        BY <3>2, StartedNumber DEF Awaiting, Tick, Types
      <3>3. CASE \E o: PingOrDone(age, o)
        BY <3>3, PingOrDoneTypes
      <3>4. QED
        BY <2>1, <3>1, <3>2, <3>3 DEF TickStarts
    <2>3. /\ (open' = open /\ count' = count) \/ Closed(HeardOf(open.id))
          /\ UNCHANGED <<sess, pings, obs, session, nodes, nextKind, worker, overlap>>
      BY <2>1 DEF TickStarts, table, working
    <2>4. QED
      BY <1>1, <2>2, <2>3, StepKept DEF Closed
  <1>3. CASE AdvertFails
    BY <1>1, <1>3, PingOrDoneTypes, StepKept DEF AdvertFails, table, counters, working
  <1>4. CASE PingFails
    BY <1>1, <1>4, Records, StepKept DEF PingFails, table, counters, pacing, working
  <1>5. QED
    BY <1>2, <1>3, <1>4

\* A ping or an advert that was sent: a row of the session that runs, if one does.
LEMMA SentRows ==
  ASSUME WardriveConstants, Types, RowsInv, ~overlap => IInv, AdvertSent \/ PingSent
  PROVE  Types' /\ RowsInv'
  <1>1. /\ tick.at # "idle" /\ tick.kind # "none" /\ tick.age \in 0..MaxAge
        /\ AdvertSent => tick.kind = "advert"
        /\ PingSent => tick.kind \in PingKinds
        /\ UNCHANGED <<sess, obs, session, nodes, worker, overlap>>
    BY DEF AdvertSent, PingSent, RowsInv, Types, Tick, PingKinds, counters, working
  <1>2. /\ tick' \in Tick
        /\ tick'.at \in {"idle", "ping"} /\ (tick'.at = "ping" => tick'.kind \in PingKinds)
    BY <1>1, Records, PingOrDoneTypes DEF AdvertSent, PingSent
  <1>3. CASE session = 0
    <2>1. UNCHANGED <<pings, open, nextKind, count>>
      BY <1>3 DEF AdvertSent, PingSent, FiledUnder, counters
    <2>2. QED
      BY <1>1, <1>2, <2>1, StepKept DEF Types
  <1>4. CASE session # 0
    <2>1. pings' = NewPing
      BY <1>4 DEF AdvertSent, PingSent, FiledUnder
    <2>2. PICK n: n = Len(pings) + 1
      OBVIOUS
    <2>3. /\ pings' \in Seq(Ping)
          /\ DOMAIN pings' = DOMAIN pings \cup {n} /\ n \notin DOMAIN pings
          /\ \A i \in DOMAIN pings: pings'[i] = pings[i]
          /\ pings'[n].session = session /\ pings'[n].kind = tick.kind
      BY <1>1, <1>4, <2>1, <2>2, NewPingRow
    <2>4. /\ \A i \in DOMAIN pings': sess'[pings'[i].session] # "absent"
          /\ ObsInv'
          /\ \A i, j \in DOMAIN pings': Stray(i)' /\ Stray(j)'
                                        /\ pings'[i].session = pings'[j].session => i = j
          /\ \A i \in DOMAIN pings': Stray(i)' => pings'[i].seen < pings'[i].session
      BY <1>1, <1>4, <2>1, RowInv DEF IInv
    <2>5. /\ open' \in Open \cup {NoOpen} /\ count' \in [pings: Nat, heard: Nat, rx: Nat]
          /\ nextKind' \in PingKinds
          /\ open' # NoOpen => /\ open'.id \in DOMAIN pings' /\ open'.kind = pings'[open'.id].kind
                               /\ open'.left <= Window(open'.kind)
      <3>1. CASE AdvertSent
        BY <2>3, <3>1 DEF AdvertSent, counters, Types, RowsInv
      <3>2. CASE PingSent
        <4>1. /\ open' = [id |-> n, kind |-> tick.kind, left |-> Window(tick.kind) - tick.age]
              /\ nextKind' = IF tick.kind = "discover" THEN "chan" ELSE "discover"
              /\ count' = [count EXCEPT !.pings = @ + 1]
          BY <1>4, <2>2, <3>2 DEF PingSent, FiledUnder
        <4>2. n \in Nat \ {0} /\ Window(tick.kind) \in Nat /\ tick.age \in Nat
          BY <1>1, <2>2, Rows, Constants
        <4>3. /\ open' \in Open /\ open'.id = n /\ open'.kind = tick.kind
              /\ open'.left <= Window(tick.kind)
          BY <1>1, <3>2, <4>1, <4>2 DEF Open
        <4>4. count' \in [pings: Nat, heard: Nat, rx: Nat]
          BY <4>1 DEF Types
        <4>5. QED
          BY <2>3, <4>1, <4>3, <4>4 DEF PingKinds
      <3>3. QED
        BY <3>1, <3>2
    <2>6. Types'
      BY <1>1, <1>2, <2>3, <2>5 DEF Types
    <2>7. RowsInv'
      BY <1>1, <1>2, <2>4, <2>5 DEF RowsInv, Window
    <2>8. QED
      BY <2>6, <2>7
  <1>5. QED
    BY <1>3, <1>4

\* An answer or another packet: an observation of the session that runs.
LEMMA HearsRows ==
  ASSUME WardriveConstants, Types, RowsInv, NEW n \in Nodes, Answer(n) \/ Rx(n)
  PROVE  Types' /\ RowsInv'
  <1>1. /\ session # 0 /\ nodes' \in SUBSET Nodes
        /\ UNCHANGED <<sess, session, nextKind, open, worker, overlap, tick>>
    BY DEF Answer, Rx, pacing, working, Types
  <1>2. Answer(n) => open # NoOpen /\ open.id \in DOMAIN pings /\ open.id \in Nat
    BY Rows DEF Answer, RowsInv
  <1>3. PICK e \in Obs: e.session = session /\ obs' = Append(obs, e)
    <2>1. CASE Answer(n)
      <3> DEFINE e == [session |-> session, ping |-> open.id, node |-> n,
                       kind |-> IF open.kind = "discover" THEN "discover" ELSE "echo"]
      <3>1. e \in Obs /\ e.session = session
        BY <1>1, <1>2, <2>1 DEF Types, Obs
      <3>2. obs' = Append(obs, e)
        BY <2>1 DEF Answer
      <3> HIDE DEF e
      <3>3. QED
        BY <3>1, <3>2
    <2>2. CASE Rx(n)
      <3> DEFINE e == [session |-> session, ping |-> 0, kind |-> "rx", node |-> n]
      <3>1. e \in Obs /\ e.session = session
        BY <1>1, <2>2 DEF Types, Obs
      <3>2. obs' = Append(obs, e)
        BY <2>2 DEF Rx
      <3> HIDE DEF e
      <3>3. QED
        BY <3>1, <3>2
    <2>3. QED
      BY <2>1, <2>2
  <1>4. /\ obs' \in Seq(Obs) /\ obs'[Len(obs) + 1] = e
        /\ DOMAIN obs' = DOMAIN obs \cup {Len(obs) + 1}
        /\ \A j \in DOMAIN obs: obs'[j] = obs[j]
    BY <1>3, NewObs
  <1>5. ObsInv'
    BY <1>1, <1>3, <1>4 DEF RowsInv, ObsInv
  <1>6. /\ pings' \in Seq(Ping) /\ DOMAIN pings' = DOMAIN pings
        /\ \A i \in DOMAIN pings: /\ pings'[i].session = pings[i].session
                                  /\ pings'[i].kind = pings[i].kind
                                  /\ pings'[i].sent = pings[i].sent
                                  /\ pings'[i].seen = pings[i].seen
                                  /\ pings'[i].alone = pings[i].alone
    BY <1>2, AnsweredRow DEF Answer, Rx, Types
  <1>7. \A i \in DOMAIN pings: Stray(i)' <=> Stray(i)
    BY <1>6 DEF Stray
  <1>8. count' \in [pings: Nat, heard: Nat, rx: Nat]
    BY DEF Answer, Rx, Types
  <1>9. Types'
    BY <1>1, <1>4, <1>6, <1>8 DEF Types
  <1>10. RowsInv'
    BY <1>1, <1>5, <1>6, <1>7 DEF RowsInv, Window
  <1>11. QED
    BY <1>9, <1>10

LEMMA ClockRows ==
  ASSUME WardriveConstants, Types, RowsInv, Advance \/ Move \/ Restart
  PROVE  Types' /\ RowsInv'
  <1>1. CASE Advance
    <2>1. /\ tick.at # "idle" => tick.age < MaxAge
          /\ tick' = IF tick.at = "idle" THEN tick ELSE [tick EXCEPT !.age = @ + 1]
          /\ open' = IF open.left > -MaxAge /\ open # NoOpen THEN [open EXCEPT !.left = @ - 1] ELSE open
          /\ UNCHANGED <<sess, pings, obs, session, count, nodes, nextKind, worker, overlap>>
      BY <1>1 DEF Advance, table, counters, working
    <2>2. tick' \in Tick /\ tick'.at = tick.at /\ tick'.kind = tick.kind
      <3>1. tick \in Tick
        BY DEF Types
      <3>2. CASE tick.at = "idle"
        BY <2>1, <3>1, <3>2
      <3>3. CASE tick.at # "idle"
        <4>1. tick' = [tick EXCEPT !.age = @ + 1] /\ tick.age < MaxAge /\ MaxAge \in Nat
          BY <2>1, <3>3, Constants
        <4>2. QED
          BY <3>1, <4>1 DEF Tick
      <3>4. QED
        BY <3>2, <3>3
    <2>3. /\ open = NoOpen => open' = NoOpen
          /\ open # NoOpen => /\ open' \in Open /\ open'.id = open.id /\ open'.kind = open.kind
                              /\ open'.left <= open.left
      BY SMTT(40), <2>1 DEF Types, Open
    <2>4. open # NoOpen => /\ open.left \in Int /\ open'.left \in Int
                           /\ Window(open.kind) \in Nat /\ open.left <= Window(open.kind)
      BY <2>3, Constants DEF Types, Open, RowsInv
    <2>5. Types'
      BY <2>1, <2>2, <2>3 DEF Types
    <2>6. open # NoOpen => open'.left <= Window(open'.kind)
      BY <2>3, <2>4
    <2>7. RowsInv'
      BY <2>1, <2>2, <2>3, <2>6, RowsKept DEF RowsInv
    <2>8. QED
      BY <2>5, <2>7
  <1>2. CASE Move
    <2>1. UNCHANGED <<sess, pings, obs, session, count, nodes, nextKind, open, worker, overlap, tick>>
      BY <1>2 DEF Move, table, counters, working
    <2>2. QED
      BY <2>1, StepKept DEF Types, RowsInv
  <1>3. CASE Restart
    <2>1. /\ sess' = CloseLeftovers /\ session' = 0
          /\ count' = ZeroCount /\ nodes' = {} /\ open' = NoOpen /\ nextKind' = "discover"
          /\ worker' = [w \in Threads |-> NoWork] /\ overlap' = FALSE /\ tick' = AtRest
          /\ UNCHANGED <<pings, obs>>
      BY <1>3 DEF Restart, Reset
    <2>2. /\ sess' \in [Session -> {"absent", "open", "ended"}]
          /\ \A s \in Session: sess'[s] # "absent" <=> sess[s] # "absent"
      BY <2>1 DEF Types, CloseLeftovers
    <2>3. worker' \in [Threads -> Work]
      BY <2>1, Records
    <2>4. QED
      BY <2>1, <2>2, <2>3, Records, StepKept
  <1>4. QED
    BY <1>1, <1>2, <1>3

-----------------------------------------------------------------------------
\* The theorems

\* While no start or stop has run beside another.
LEMMA AloneNext ==
  ASSUME WardriveConstants, Inv, [Next]_vars, ~overlap', ~Restart
  PROVE  IInv'
  <1>1. CASE UNCHANGED vars
    <2>1. UNCHANGED <<sess, pings, obs, session, count, nodes, nextKind, open, worker, tick>>
      BY <1>1 DEF vars, table, counters, pacing, working
    <2>2. Types /\ IInv
      BY DEF Inv
    <2>3. SessionsInv' /\ ObsInv' /\ TickInv' /\ StrayInv' /\ Counters'
      BY <2>1, <2>2, TablesKept, TickKept, CountersKept DEF IInv
    <2>4. WorkerInv' /\ OpenInv' /\ OneOpen'
      BY <2>1, <2>2 DEF IInv, WorkerInv, Started, OpenInv, OneOpen
    <2>5. QED
      BY <2>3, <2>4 DEF IInv
  <1>2. CASE Requests \/ (\E w \in Threads: Works(w)) \/ SwitchOff
    BY <1>2, StartBeginsInv, StopBeginsInv, StartInsertsInv, StopClosesInv, StopEndsInv,
       StopClearsInv, SwitchOffInv DEF Requests, Works
  <1>3. CASE Ticks \/ Resumes
    BY <1>3, TickStartsInv, AdvertSentInv, AdvertFailsInv, PingSentInv, PingFailsInv
       DEF Ticks, Resumes
  <1>4. CASE Hears
    BY <1>4, AnswerInv, RxInv DEF Hears
  <1>5. CASE Advance \/ Move
    BY <1>5, AdvanceInv, MoveInv
  <1>6. QED
    BY <1>1, <1>2, <1>3, <1>4, <1>5 DEF Next

LEMMA NextWhole == ASSUME WardriveConstants, Whole, [Next]_vars PROVE Whole'
  <1>1. Types /\ RowsInv /\ (~overlap => IInv) /\ overlap \in BOOLEAN
    BY DEF Whole, Types
  <1>2. Types' /\ RowsInv'
    <2>1. CASE UNCHANGED vars
      <3>1. UNCHANGED <<sess, pings, obs, session, count, nodes, nextKind, open, worker, overlap, tick>>
        BY <2>1 DEF vars, table, counters, pacing, working
      <3>2. QED
        BY <1>1, <3>1, StepKept DEF Types, RowsInv
    <2>2. CASE Requests \/ (\E w \in Threads: Works(w))
      BY <1>1, <2>2, RequestsRows, StartInsertsRows DEF Requests, Works
    <2>3. CASE SwitchOff
      BY <1>1, <2>3, SwitchOffRows
    <2>4. CASE Ticks \/ Resumes
      BY <1>1, <2>4, TicksRows, SentRows DEF Resumes
    <2>5. CASE Hears
      BY <1>1, <2>5, HearsRows DEF Hears
    <2>6. CASE Advance \/ Move \/ Restart
      BY <1>1, <2>6, ClockRows
    <2>7. QED
      BY <2>1, <2>2, <2>3, <2>4, <2>5, <2>6 DEF Next
  <1>3. ~overlap' => IInv'
    <2>1. CASE Restart
      BY <1>1, <2>1, RestartInv
    <2>2. CASE ~Restart /\ ~overlap
      BY <1>1, <2>2, AloneNext DEF Inv
    <2>3. CASE ~Restart /\ overlap
      <3>1. overlap'
        BY <2>3 DEF Next, Requests, Works, StartBegins, StopBegins, Begins, StartInserts,
           StopCloses, StopEnds, StopClears, SwitchOff, Ticks, TickStarts, Resumes, AdvertSent,
           AdvertFails, PingSent, PingFails, Hears, Answer, Rx, Advance, Move, working, vars
      <3>2. QED
        BY <3>1
    <2>4. QED
      BY <2>1, <2>2, <2>3
  <1>4. QED
    BY <1>2, <1>3 DEF Whole

LEMMA Invariance == ASSUME WardriveConstants PROVE Spec => []Whole
  <1>1. Init => Whole
    BY InitInv
  <1>2. Whole /\ [Next]_vars => Whole'
    BY NextWhole
  <1>3. QED
    BY <1>1, <1>2, PTL DEF Spec

\* The tables and what start, stop and the tick remember keep their types, a start or a stop
\* beside another or not (wardrive.py:41-57).
THEOREM TypeCorrect == ASSUME WardriveConstants PROVE Spec => []TypeOK
  <1>1. ASSUME Whole PROVE TypeOK
    <2>1. Types /\ RowsInv
      BY <1>1 DEF Whole
    <2>2. \A i \in DOMAIN pings: /\ pings[i].session \in Session /\ sess[pings[i].session] # "absent"
                                 /\ pings[i].kind \in {"discover", "chan", "advert"}
      BY <2>1, Rows DEF RowsInv, PingKinds
    <2>3. open.id \in 0..Len(pings)
      BY <2>1, Rows DEF RowsInv, NoOpen
    <2>4. /\ \A w \in Threads: worker[w].next \in {"idle", "insert", "close", "end", "clear"}
          /\ tick.at \in {"idle", "advert", "ping"} /\ tick.age \in 0..MaxAge
      BY <2>1 DEF Types, Tick, Work
    <2>5. QED
      BY <2>1, <2>2, <2>3, <2>4 DEF Types, RowsInv, TypeOK
  <1>2. QED
    BY <1>1, Invariance, PTL

\* One session is open in the table at most, the one that runs, through starts, stops and
\* restarts, unless a start or a stop ran beside another since the last of these
\* (wardrive.py:76-93, service.py:98-99).
THEOREM OneSessionOpen == ASSUME WardriveConstants PROVE Spec => []OneOpenSession
  <1>1. Whole => OneOpenSession
    BY DEF Whole, IInv, OneOpen, OneOpenSession
  <1>2. QED
    BY <1>1, Invariance, PTL

\* The counters on the screens are those of the rows, whatever an await left behind, unless a
\* start or a stop ran beside another (wardrive.py:49-57, 132-149, 164-219).
THEOREM CountersAgree == ASSUME WardriveConstants PROVE Spec => []CountersMatchTables
  <1>1. Whole => CountersMatchTables
    BY DEF Whole, IInv, Counters, CountersMatchTables
  <1>2. QED
    BY <1>1, Invariance, PTL

\* A ping that outlives its session is filed under one begun meanwhile, one such ping at most,
\* of those filed while no start or stop had run beside another (wardrive.py:132-149, 156-162).
THEOREM StraysGoForward == ASSUME WardriveConstants PROVE Spec => []StrayPingsGoForward
  <1>1. ASSUME Whole PROVE StrayPingsGoForward
    <2> SUFFICES ASSUME NEW s \in Session
                 PROVE  LET strays == {i \in DOMAIN pings: /\ pings[i].session = s /\ pings[i].alone
                                                            /\ pings[i].sent # s}
                        IN  Cardinality(strays) <= 1 /\ \A i \in strays: pings[i].seen < s
      BY DEF StrayPingsGoForward
    <2> DEFINE strays == {i \in DOMAIN pings: /\ pings[i].session = s /\ pings[i].alone
                                              /\ pings[i].sent # s}
    <2>1. RowsInv
      BY <1>1 DEF Whole
    <2>2. \A i \in strays: pings[i].seen < s
      BY <2>1 DEF RowsInv, Stray
    <2>3. \A i, j \in strays: i = j
      BY <2>1 DEF RowsInv, Stray
    <2> HIDE DEF strays
    <2>4. Cardinality(strays) <= 1
      <3>1. CASE strays = {}
        BY <3>1, FS_EmptySet
      <3>2. CASE strays # {}
        <4>1. PICK i \in strays: strays = {i}
          BY <2>3, <3>2
        <4>2. Cardinality({i}) = 1
          BY FS_Singleton
        <4>3. QED
          BY <4>1, <4>2
      <3>3. QED
        BY <3>1, <3>2
    <2>5. QED
      BY <2>2, <2>4 DEF strays
  <1>2. QED
    BY <1>1, Invariance, PTL

-----------------------------------------------------------------------------
\* MeshSync.  The invariant is the types of what the tick compares and counts.

Commands == {"idle", "time", "channels", "contacts", "name", "coords"}
Pending == [at: Commands, conn: Nat, place: Places \cup {NoPlace}]
Shared == [place: Places \cup {NoPlace}, left: 0..PositionMaxAge]

SyncTypes ==
    /\ connected \in BOOLEAN /\ conn \in Nat
    /\ nextSync \in {Synced} \cup 0..SyncRetry /\ nextContacts \in 0..ContactsRefresh
    /\ channels \in {"none", "part", "all"}
    /\ position \in Shared /\ place \in Places
    /\ syncTick \in Pending

SyncInv ==
    /\ SyncTypes
    /\ connected => selfInfo # "none"
    /\ syncTick.conn <= conn

LEMMA SyncNumbers ==
  ASSUME SyncConstants
  PROVE  /\ SyncRetry \in Nat /\ ContactsRefresh \in Nat /\ PositionMaxAge \in Nat
         /\ SyncRetry > 0 /\ ContactsRefresh > 0 /\ PositionMaxAge > 0
  BY DEF SyncConstants

LEMMA SyncRecords ==
  ASSUME SyncConstants, SyncTypes
  PROVE  /\ NoCommand \in Pending /\ NoCommand.conn <= conn
         /\ \A c \in Commands: Awaits(c) \in Pending /\ Awaits(c).conn <= conn
         /\ NoPosition \in Shared
         /\ \A p \in Places \cup {NoPlace}: Pushed(p) \in Shared
  BY SyncNumbers
     DEF SyncTypes, Pending, Shared, Commands, NoCommand, Awaits, NoPosition, Pushed

LEMMA LessType ==
  ASSUME NEW n \in Nat
  PROVE  /\ \A k \in 0..n: Less(k) \in 0..n
         /\ Less(Synced) = Synced
  BY DEF Less, Synced

LEMMA SyncInitInv == ASSUME SyncConstants, SyncInit PROVE SyncInv
  <1>1. NoCommand \in Pending /\ NoCommand.conn = 0 /\ NoPosition \in Shared
    BY SyncNumbers DEF NoCommand, Pending, Commands, NoPosition, Shared
  <1>2. SyncTypes
    <2>1. /\ connected = FALSE /\ conn = 0 /\ nextSync = Synced /\ nextContacts = 0
          /\ channels = "none" /\ position = NoPosition /\ place \in Places /\ syncTick = NoCommand
      BY DEF SyncInit
    <2>2. 0 \in Nat /\ 0 \in 0..ContactsRefresh
      BY SyncNumbers
    <2>3. QED
      BY <1>1, <2>1, <2>2 DEF SyncTypes
  <1>3. connected = FALSE /\ conn = 0 /\ syncTick = NoCommand
    BY DEF SyncInit
  <1>4. QED
    BY <1>1, <1>2, <1>3 DEF SyncInv

LEMMA LinkInv ==
  ASSUME SyncConstants, SyncInv,
         \/ \E other \in BOOLEAN, name \in {"ours", "other"}: Connect(other, name)
         \/ Disconnect
  PROVE  SyncInv'
  <1>1. SyncTypes /\ syncTick.conn \in Nat /\ NoPosition \in Shared
    BY SyncRecords DEF SyncInv, SyncTypes, Pending
  <1>2. ASSUME NEW other \in BOOLEAN, NEW name \in {"ours", "other"}, Connect(other, name)
        PROVE  SyncInv'
    <2>1. /\ connected' = TRUE /\ conn' = conn + 1 /\ nextSync' = 0 /\ selfInfo' = name
          /\ UNCHANGED <<nextContacts, channels, position, place, syncTick>>
      BY <1>2 DEF Connect
    <2>2. SyncTypes'
      BY <1>1, <2>1, SyncNumbers DEF SyncTypes
    <2>3. QED
      BY <1>1, <2>1, <2>2 DEF SyncInv, SyncTypes
  <1>3. CASE Disconnect
    <2>1. /\ connected' = FALSE /\ position' = NoPosition
          /\ UNCHANGED <<conn, nextSync, nextContacts, channels, place, syncTick>>
      BY <1>3 DEF Disconnect, Forgotten
    <2>2. SyncTypes'
      BY <1>1, <2>1 DEF SyncTypes
    <2>3. QED
      BY <2>1, <2>2 DEF SyncInv
  <1>4. QED
    BY <1>2, <1>3

\* What the ends of the tick set, each of which goes on to the next.
LEMMA SharesTypes ==
  ASSUME SyncConstants, SyncTypes, ThenShare
  PROVE  syncTick' \in Pending /\ syncTick'.conn <= conn /\ position' \in Shared
  BY SyncRecords DEF ThenShare, SyncTypes, Commands

LEMMA NamesTypes ==
  ASSUME SyncConstants, SyncTypes, ThenName
  PROVE  syncTick' \in Pending /\ syncTick'.conn <= conn /\ position' \in Shared
  BY SyncRecords, SharesTypes DEF ThenName, SyncTypes, Commands

LEMMA ContactsTypes ==
  ASSUME SyncConstants, SyncTypes, ThenContacts
  PROVE  /\ syncTick' \in Pending /\ syncTick'.conn <= conn /\ position' \in Shared
         /\ nextContacts' \in 0..ContactsRefresh
  BY SyncRecords, NamesTypes, SyncNumbers DEF ThenContacts, SyncTypes, Commands

LEMMA SyncTickInv ==
  ASSUME SyncConstants, SyncInv, SyncStarts \/ Answered
  PROVE  SyncInv'
  <1>1. SyncTypes /\ UNCHANGED <<connected, conn, place>>
    BY DEF SyncInv, SyncStarts, Answered, TimeSet, SyncFails, ChannelsListed, ContactsDone, NameSet,
           NameFails, CoordsDone
  <1>2. connected' => selfInfo' # "none"
    BY DEF SyncInv, SyncStarts, Answered, TimeSet, SyncFails, ChannelsListed, ContactsDone, NameSet,
           NameFails, CoordsDone
  <1>3. nextSync' \in {Synced} \cup 0..SyncRetry /\ channels' \in {"none", "part", "all"}
    BY <1>1, SyncNumbers
       DEF SyncTypes, SyncStarts, Answered, TimeSet, SyncFails, ChannelsListed, ContactsDone,
           NameSet, NameFails, CoordsDone
  <1>4. /\ syncTick' \in Pending /\ syncTick'.conn <= conn /\ position' \in Shared
        /\ nextContacts' \in 0..ContactsRefresh
    <2>1. CASE SyncStarts
      BY <1>1, <2>1, SyncRecords, NamesTypes, ContactsTypes DEF SyncStarts, SyncTypes, Commands
    <2>2. CASE TimeSet
      BY <1>1, <2>2, SyncRecords, NamesTypes DEF TimeSet, SyncTypes, Commands
    <2>3. CASE SyncFails
      BY <1>1, <2>3, NamesTypes DEF SyncFails, SyncTypes
    <2>4. CASE ChannelsListed
      BY <1>1, <2>4, ContactsTypes DEF ChannelsListed
    <2>5. CASE ContactsDone
      BY <1>1, <2>5, NamesTypes DEF ContactsDone, SyncTypes
    <2>6. CASE NameSet
      BY <1>1, <2>6, SyncRecords, SharesTypes DEF NameSet, SyncTypes
    <2>7. CASE NameFails
      BY <1>1, <2>7, SharesTypes DEF NameFails, SyncTypes
    <2>8. CASE CoordsDone
      <3>1. syncTick.place \in Places \cup {NoPlace}
        BY <1>1 DEF SyncTypes, Pending
      <3>2. QED
        BY <1>1, <2>8, <3>1, SyncRecords DEF CoordsDone, SyncTypes
    <2>9. QED
      BY <2>1, <2>2, <2>3, <2>4, <2>5, <2>6, <2>7, <2>8 DEF Answered
  <1>5. QED
    BY <1>1, <1>2, <1>3, <1>4 DEF SyncInv, SyncTypes

LEMMA SyncNextInv == ASSUME SyncConstants, SyncInv, [SyncNext]_syncVars PROVE SyncInv'
  <1>1. CASE SyncAdvance
    <2>1. SyncTypes /\ UNCHANGED <<connected, conn, channels, selfInfo, place, syncTick>>
      BY <1>1 DEF SyncInv, SyncAdvance
    <2>2. nextSync' \in {Synced} \cup 0..SyncRetry /\ nextContacts' \in 0..ContactsRefresh
      BY <1>1, <2>1, LessType, SyncNumbers DEF SyncAdvance, SyncTypes
    <2>3. position' \in Shared
      <3>1. Less(position.left) \in 0..PositionMaxAge
        BY <2>1, LessType, SyncNumbers DEF SyncTypes, Shared
      <3>2. QED
        BY <1>1, <2>1, <3>1 DEF SyncAdvance, SyncTypes, Shared
    <2>4. QED
      BY <2>1, <2>2, <2>3 DEF SyncInv, SyncTypes
  <1>2. CASE Drive \/ RadioChanges \/ UNCHANGED syncVars
    BY <1>2 DEF Drive, RadioChanges, syncVars, mine, SyncInv, SyncTypes
  <1>3. QED
    BY <1>1, <1>2, LinkInv, SyncTickInv DEF SyncNext

\* What the sync of a device keeps between its awaits: a connection always has a self_info, the
\* times are in their ranges, and a command in flight is never one of a connection to come
\* (mesh.py:88-160).
THEOREM SyncTypesKept == ASSUME SyncConstants PROVE SyncSpec => []SyncTypeOK
  <1>1. SyncInit => SyncInv
    BY SyncInitInv
  <1>2. SyncInv /\ [SyncNext]_syncVars => SyncInv'
    BY SyncNextInv
  <1>3. SyncInv => SyncTypeOK
    BY DEF SyncInv, SyncTypes, SyncTypeOK, Shared, Pending
  <1>4. QED
    BY <1>1, <1>2, <1>3, PTL DEF SyncSpec
===============================================================================
