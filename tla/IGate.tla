--------------------------------- MODULE IGate ---------------------------------
(***************************************************************************)
(* The iGate: Core._gate_rf_to_is and _gate_is_to_rf with what they read,  *)
(* the stations table (aprsx/core/store.py), the Deduper and the           *)
(* RateLimiter (aprsx/core/aprsis.py), and transmit.                       *)
(*                                                                         *)
(* A packet is named; its copies on RF differ in the path and the form:    *)
(* plain, with a path that forbids gating (NOGATE and the like), or inside *)
(* the third-party packet of an iGate, ours among them.  A message says    *)
(* whom it is for.  All of it runs on the event loop without an await, so  *)
(* a received packet is one step.  The settings, the login and the radio   *)
(* may be different for each.  Times are ages, up to a bound past every    *)
(* window.                                                                 *)
(*                                                                         *)
(* Bound: MaxSent transmissions inside the longest window of the limits.   *)
(***************************************************************************)
EXTENDS Integers, Sequences, FiniteSets

CONSTANTS
    Packets,        \* a set of records: from, to (Nobody: not a message)
    OnAir,          \* those of them that stations here transmit on RF
    Stations, Nobody,
    GateDupe,       \* GATE_DUPE_S
    Local,          \* LOCAL_WINDOW_S
    Sticky,         \* RF_STICKY_S
    Limits,         \* TX_LIMITS: records of window and most
    MaxSent

IGateConstants ==
    /\ OnAir \subseteq Packets
    /\ \A p \in Packets: p.from \in Stations /\ p.to \in Stations \cup {Nobody}
    /\ {GateDupe, Local, Sticky, MaxSent} \subseteq Nat \ {0}
    /\ \A l \in Limits: {l.window, l.most} \subseteq Nat \ {0}
    /\ \E l \in Limits: \A k \in Limits: k.window <= l.window

Messages == {p \in Packets: p.to # Nobody}
Windows == {l.window: l \in Limits}
Longest == CHOOSE w \in Windows: \A v \in Windows: v <= w
Past == CHOOSE n \in {Local, Sticky, GateDupe}: \A m \in {Local, Sticky, GateDupe}: m <= n
Never == Past + 1   \* older than every window, or never

\* What the Deduper tells apart: a third-party packet has the relay's source and other text.
Copies == [packet: Packets, relayed: BOOLEAN]

VARIABLES
    rfHeard,    \* stations.rf_heard and rf_direct, as ages
    rfDirect,
    channel,    \* stations.channel: "none" for no row
    toIs,       \* Deduper: age of what was gated to APRS-IS, by packet and form
    toRf,       \* the same Deduper: age of what was to be gated to RF
    sent,       \* RateLimiter._sent, as ages
    isLog,      \* history: ages of the lines gated to APRS-IS, by packet
    rfLog,      \* history: our transmissions: age, and when their message was heard on RF
    onRf        \* history: age of each packet's last copy on RF

heard == <<rfHeard, rfDirect, channel>>
gates == <<toIs, toRf, sent>>
logs == <<isLog, rfLog, onRf>>
vars == <<heard, gates, logs>>

Init ==
    /\ rfHeard = [s \in Stations |-> Never] /\ rfDirect = rfHeard
    /\ channel = [s \in Stations |-> "none"]
    /\ toIs = [c \in Copies |-> Never] /\ toRf = [p \in Messages |-> Never]
    /\ sent = <<>>
    /\ isLog = [p \in Packets |-> <<>>] /\ rfLog = <<>>
    /\ onRf = [p \in OnAir |-> Never]

-----------------------------------------------------------------------------
\* What the gates are built from

\* Mutant of New: the window ends one unit early.
NewEarly(age) == age >= GateDupe - 1

\* Deduper.seen: nothing within the window.
New(age) == age >= GateDupe

HeardDirect(s) == rfDirect[s] <= Local

\* RateLimiter.allow: entries out of the longest window are dropped at the old end, every
\* limit is asked.  The newest entry is the first here.
Within(ages, window) == Cardinality({i \in DOMAIN ages: ages[i] < window})
Kept == SubSeq(sent, 1, Within(sent, Longest))

\* Mutant of Allowed: a limit is reached when it is exceeded.
AllowedOneMore == \A l \in Limits: Within(Kept, l.window) <= l.most

Allowed == \A l \in Limits: Within(Kept, l.window) < l.most

\* Mutant of StickyChannel: only stations heard directly stay RF stations.
StickyDirect(s) == IF rfDirect[s] <= Sticky THEN channel[s] ELSE "is"

\* upsert_station for a copy from APRS-IS: a station heard on RF of late stays an RF station.
StickyChannel(s) == IF rfHeard[s] <= Sticky THEN channel[s] ELSE "is"

\* Mutant of RfHeardAfterIs: the copy's missing times replace those of the row.
RfHeardForgotten(s) == [rfHeard EXCEPT ![s] = Never]

\* COALESCE(excluded.rf_heard, rf_heard)
RfHeardAfterIs(s) == rfHeard

-----------------------------------------------------------------------------
\* handle_packet

\* Mutant of MayBeGated: third-party packets are not told apart.
MayBeGatedAny(form) == form # "nogate"

\* rf_to_is_line: neither a path that forbids it nor a third-party packet.
MayBeGated(form) == form = "plain"

\* _gate_rf_to_is, with the gate on and a verified login or not: once.
Gated(p, form, on) ==
    LET c == [packet |-> p, relayed |-> form = "thirdparty"]
    IN  IF on /\ MayBeGated(form) /\ New(toIs[c])
        THEN /\ toIs' = [toIs EXCEPT ![c] = 0]
             /\ isLog' = [isLog EXCEPT ![p] = <<0>> \o @]
        ELSE UNCHANGED <<toIs, isLog>>

\* A copy from the air: the station is recorded, then the copy is gated.
HandlePacket(p, form, direct, on) ==
    /\ rfHeard' = [rfHeard EXCEPT ![p.from] = 0]
    /\ rfDirect' = IF direct THEN [rfDirect EXCEPT ![p.from] = 0] ELSE rfDirect
    /\ channel' = [channel EXCEPT ![p.from] = "rf"]
    /\ onRf' = [onRf EXCEPT ![p] = 0]
    /\ Gated(p, form, on)
    /\ UNCHANGED <<toRf, sent, rfLog>>

\* A relay's third-party packet: the station recorded is the relay.
HandleThirdParty(p, on) ==
    /\ Gated(p, "thirdparty", on)
    /\ UNCHANGED <<heard, toRf, sent, rfLog, onRf>>

-----------------------------------------------------------------------------
\* handle_is_line

\* The rules of _gate_is_to_rf before the Deduper: the target is local, the source is not,
\* the path allows it and does not name us.
ToBeGated(p, may) ==
    /\ p \in Messages /\ may
    /\ HeardDirect(p.to)
    /\ RfHeardAfterIs(p.from)[p.from] > Local

\* transmit, on RF only.
Transmit(p, radio) ==
    LET tx == [age |-> 0, heard |-> IF p \in OnAir THEN onRf[p] ELSE Never]
    IN  rfLog' = IF radio THEN <<tx>> \o rfLog ELSE rfLog

\* A line from APRS-IS that is not our own.  The Deduper has it before the rate is asked.
HandleIsLine(p, may, radio) ==
    /\ Len(sent) < MaxSent
    /\ rfHeard' = RfHeardAfterIs(p.from)
    /\ channel' = [channel EXCEPT ![p.from] = StickyChannel(p.from)]
    /\ IF ToBeGated(p, may) /\ New(toRf[p])
       THEN /\ toRf' = [toRf EXCEPT ![p] = 0]
            /\ IF Allowed THEN sent' = <<0>> \o Kept /\ Transmit(p, radio)
                          ELSE sent' = Kept /\ UNCHANGED rfLog
       ELSE UNCHANGED <<toRf, sent, rfLog>>
    /\ UNCHANGED <<rfDirect, toIs, isLog, onRf>>

-----------------------------------------------------------------------------
\* Time

Older(age) == IF age < Never THEN age + 1 ELSE age
OlderIn(ages, most) == [i \in 1..Within(ages, most - 1) |-> ages[i] + 1]
Ages(log) == [i \in DOMAIN log |-> log[i].age]
Young(log) == [i \in 1..Within(Ages(log), Longest - 1) |-> [log[i] EXCEPT !.age = @ + 1]]

Advance ==
    /\ rfHeard' = [s \in Stations |-> Older(rfHeard[s])]
    /\ rfDirect' = [s \in Stations |-> Older(rfDirect[s])]
    /\ toIs' = [c \in Copies |-> Older(toIs[c])]
    /\ toRf' = [p \in Messages |-> Older(toRf[p])]
    /\ onRf' = [p \in OnAir |-> Older(onRf[p])]
    /\ sent' = OlderIn(sent, Longest + 1)
    /\ isLog' = [p \in Packets |-> OlderIn(isLog[p], GateDupe)]
    /\ rfLog' = Young(rfLog)
    /\ UNCHANGED channel

-----------------------------------------------------------------------------
Next ==
    \/ \E p \in OnAir, form \in {"plain", "nogate"}, direct, on \in BOOLEAN:
          HandlePacket(p, form, direct, on)
    \/ \E p \in Packets, on \in BOOLEAN: HandleThirdParty(p, on)
    \/ \E p \in Packets, may, radio \in BOOLEAN: HandleIsLine(p, may, radio)
    \/ Advance

Spec == Init /\ [][Next]_vars

-----------------------------------------------------------------------------
\* Properties

\* The types, and how the columns of a station's row go together: one heard on RF of late is
\* never shown as an internet station for a copy that came over APRS-IS (store.py:281-285).
TypeOK ==
    /\ rfHeard \in [Stations -> 0..Never] /\ rfDirect \in [Stations -> 0..Never]
    /\ \A s \in Stations: rfHeard[s] <= rfDirect[s]
    /\ channel \in [Stations -> {"none", "rf", "is"}]
    /\ \A s \in Stations: channel[s] = "is" => rfHeard[s] > Sticky
    /\ Len(sent) <= MaxSent

\* However many copies are heard, in whatever form, directly and through digipeaters, and
\* whatever the link does meanwhile, a packet goes to APRS-IS once in GATE_DUPE_S, and one that
\* came from there never, though we or another iGate transmitted it (aprsis.py:33, 59-99,
\* service.py:400-450).
GatedOnce ==
    /\ \A p \in Packets: Len(isLog[p]) <= 1
    /\ \A p \in Packets \ OnAir: isLog[p] = <<>>

\* We transmit no more for APRS-IS than each limit says, in every window of its length,
\* refused transmissions and edges included (aprsis.py:102-116, service.py:452-473).
RateKept ==
    \A l \in Limits: Cardinality({i \in DOMAIN rfLog: rfLog[i].age < l.window}) <= l.most

\* A message that was on RF here in the last LOCAL_WINDOW_S never comes back to RF through
\* us, though its copies arrive from APRS-IS at any time, gated by us or by others
\* (service.py:424-473, store.py:272-320).
NoEcho == \A i \in DOMAIN rfLog: rfLog[i].heard > Local
===============================================================================
