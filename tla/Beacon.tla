-------------------------------- MODULE Beacon --------------------------------
(***************************************************************************)
(* Position beacons: Scheduler (aprsx/core/beacon.py), beacon_tick and     *)
(* beacon (aprsx/core/service.py), and the fix they use, from GpsdClient   *)
(* (aprsx/core/gps.py).                                                    *)
(*                                                                         *)
(* The tick runs on the event loop, in one step.  A beacon that is asked   *)
(* for (POST /api/beacon) runs on a worker thread: it looks at the fix,    *)
(* sends, and tells the scheduler.                                         *)
(*                                                                         *)
(* Speeds and rates are integers; a fix is its motion (speed and course)   *)
(* and its age.  Ages count up to a bound past which nothing changes.      *)
(***************************************************************************)
EXTENDS Integers

CONSTANTS
    Motions,        \* records of speed and course (degrees, or NoCourse)
    NoCourse,
    MaxSpeed, Stale,                        \* MAX_SPEED_MS, FIX_STALE_S
    Retry, Startup,                         \* BEACON_RETRY_S, BEACON_STARTUP_DELAY_S
    BeaconConfigs         \* records: smart, interval, fixed (a fixed position is set), auto;
                          \* the SmartBeaconing parameters, each by its name

\* What a beacon may have to wait for: at slowSpeed, the longest that fastRate is scaled to.
WaitsOf(c) ==
    {c.interval, c.slowRate, c.fastRate, c.turnTime, (c.fastRate * c.fastSpeed) \div c.slowSpeed + 1}
Waits == {Retry} \cup UNION {WaitsOf(c): c \in BeaconConfigs}

\* Each parameter has its bound, whatever the others are.
BeaconConstants ==
    /\ {Stale, Retry} \subseteq Nat \ {0} /\ {MaxSpeed, Startup} \subseteq Nat
    /\ \A m \in Motions: m.speed \in Nat /\ m.course \in 0..359 \cup {NoCourse}
    /\ \A c \in BeaconConfigs:
          /\ {c.smart, c.fixed, c.auto} \subseteq BOOLEAN
          /\ {c.interval, c.turnAngle, c.turnSlope} \subseteq Nat
          /\ {c.slowSpeed, c.slowRate, c.fastSpeed, c.fastRate, c.turnTime} \subseteq Nat \ {0}
    /\ \E n \in Waits: \A m \in Waits: m <= n

VARIABLES
    beaconConfig,
    fix,        \* GpsdClient.fix: motion and age
    fewSats,    \* sats_used is known and below MIN_SATS_USED
    sends,      \* whether transmit gets a packet out
    last,       \* last_ts as an age, last_course
    hold,       \* time left to not_before
    press,      \* the thread of a beacon that was asked for: what it does next, its course
    tried       \* history: the last automatic attempt: its age, whether it was sent, its parity

beaconVars == <<beaconConfig, fix, fewSats, sends, last, hold, press, tried>>

Longest == CHOOSE n \in Waits: \A m \in Waits: m <= n
Never == -1
NoMotion == [speed |-> 0, course |-> NoCourse]
NoFix == [motion |-> NoMotion, age |-> Never]
NoPress == [next |-> "idle", course |-> NoCourse]
NoAttempt == [age |-> Never, was |-> "none", odd |-> FALSE]

BeaconInit ==
    /\ beaconConfig \in BeaconConfigs
    /\ fix = NoFix /\ fewSats = FALSE
    /\ sends \in BOOLEAN
    /\ last = [age |-> Never, course |-> NoCourse]
    /\ hold = Startup
    /\ press = NoPress /\ tried = NoAttempt

-----------------------------------------------------------------------------
\* What is read

\* current: neither stale nor bogus.
Current == /\ fix # NoFix /\ fix.age <= Stale
           /\ ~fewSats /\ fix.motion.speed <= MaxSpeed

HasPosition == Current \/ beaconConfig.fixed
CanBeacon == HasPosition /\ sends
Motion == IF Current THEN fix.motion ELSE NoMotion

-----------------------------------------------------------------------------
\* Scheduler

\* Elapsed since the last beacon is at least smart_rate at this speed.
RateOver(speed) ==
    LET c == beaconConfig
    IN  CASE speed < c.slowSpeed -> last.age >= c.slowRate
          [] speed >= c.slowSpeed /\ speed > c.fastSpeed -> last.age >= c.fastRate
          [] OTHER -> last.age * speed >= c.fastRate * c.fastSpeed

\* Mutant of HeadingChange: north is a border.
HeadingDifference(a, b) == IF a > b THEN a - b ELSE b - a

HeadingChange(a, b) ==
    LET d == IF a > b THEN a - b ELSE b - a
    IN  IF d > 180 THEN 360 - d ELSE d

\* Corner pegging: more than turn_threshold, which is min(180, angle + slope / speed).
Corner(m) ==
    /\ m.speed >= beaconConfig.slowSpeed
    /\ NoCourse \notin {m.course, last.course}
    /\ last.age >= beaconConfig.turnTime
    /\ (HeadingChange(m.course, last.course) - beaconConfig.turnAngle) * m.speed
       > beaconConfig.turnSlope

\* Mutant of First: a beacon is due when time has passed since the last one.
NotFirst == FALSE

First == last.age = Never

DueSmart(m) == hold = 0 /\ (First \/ (last.age # Never /\ (RateOver(m.speed) \/ Corner(m))))

DueFixed ==
    /\ beaconConfig.interval > 0 /\ hold = 0
    /\ First \/ (last.age # Never /\ last.age >= beaconConfig.interval)

-----------------------------------------------------------------------------
\* beacon_tick

Attempt(was) == tried' = [age |-> 0, was |-> was, odd |-> ~tried.odd]

\* Between can_beacon and transmit the radio or the login may have gone.
Sends == \/ /\ last' = [age |-> 0, course |-> Motion.course]
            /\ Attempt("sent")
            /\ UNCHANGED <<hold, sends>>
         \/ /\ hold' = Retry
            /\ Attempt("refused")
            /\ sends' = FALSE
            /\ UNCHANGED last

BeaconTick ==
    /\ CanBeacon /\ beaconConfig.auto
    /\ IF Current /\ beaconConfig.smart THEN DueSmart(fix.motion) ELSE DueFixed
    /\ Sends
    /\ UNCHANGED <<beaconConfig, fix, fewSats, press>>

-----------------------------------------------------------------------------
\* beacon, on a worker thread

Press ==
    /\ press.next = "idle" /\ CanBeacon
    /\ press' = [next |-> "send", course |-> Motion.course]
    /\ UNCHANGED <<beaconConfig, fix, fewSats, sends, last, hold, tried>>

\* The position is read again: without one the request fails.
PressSends ==
    /\ press.next = "send"
    /\ press' = IF HasPosition /\ sends THEN [press EXCEPT !.next = "tell"] ELSE NoPress
    /\ UNCHANGED <<beaconConfig, fix, fewSats, sends, last, hold, tried>>

PressTells ==
    /\ press.next = "tell"
    /\ last' = [age |-> 0, course |-> press.course]
    /\ press' = NoPress
    /\ UNCHANGED <<beaconConfig, fix, fewSats, sends, hold, tried>>

-----------------------------------------------------------------------------
\* GpsdClient: reports, and the link

Report(m) ==
    /\ fix' = [motion |-> m, age |-> 0]
    /\ UNCHANGED <<beaconConfig, fewSats, sends, last, hold, press, tried>>

NoReport ==
    /\ fix # NoFix
    /\ fix' = NoFix
    /\ UNCHANGED <<beaconConfig, fewSats, sends, last, hold, press, tried>>

Sky(few) ==
    /\ few # fewSats
    /\ fewSats' = few
    /\ UNCHANGED <<beaconConfig, fix, sends, last, hold, press, tried>>

LinkLost ==
    /\ fix' = NoFix /\ fewSats' = FALSE
    /\ UNCHANGED <<beaconConfig, sends, last, hold, press, tried>>

-----------------------------------------------------------------------------
\* Time, the settings, the radio, a restart

Older(age, most) == IF age \in {Never, most} THEN age ELSE age + 1

\* A thread that beacons takes milliseconds; the tick comes every second.
Advance ==
    /\ press = NoPress
    /\ fix' = [fix EXCEPT !.age = Older(@, Stale + 1)]
    /\ last' = [last EXCEPT !.age = Older(@, Longest)]
    /\ hold' = IF hold > 0 THEN hold - 1 ELSE 0
    /\ tried' = [tried EXCEPT !.age = Older(@, Longest)]
    /\ UNCHANGED <<beaconConfig, fewSats, sends, press>>

Configure == beaconConfig' \in BeaconConfigs \ {beaconConfig} /\ UNCHANGED <<fix, fewSats, sends, last, hold, press, tried>>

LinkChange == sends' = ~sends /\ UNCHANGED <<beaconConfig, fix, fewSats, last, hold, press, tried>>

Restart ==
    /\ fix' = NoFix /\ fewSats' = FALSE
    /\ last' = [age |-> Never, course |-> NoCourse]
    /\ hold' = Startup
    /\ press' = NoPress /\ tried' = [NoAttempt EXCEPT !.odd = tried.odd]
    /\ UNCHANGED <<beaconConfig, sends>>

-----------------------------------------------------------------------------
Pressed == Press \/ PressSends \/ PressTells
Gps == NoReport \/ LinkLost \/ (\E m \in Motions: Report(m)) \/ (\E few \in BOOLEAN: Sky(few))

BeaconNext == BeaconTick \/ Pressed \/ Gps \/ Advance \/ Configure \/ LinkChange \/ Restart

BeaconSpec == BeaconInit /\ [][BeaconNext]_beaconVars

\* The beacon loop ticks, time passes, a thread goes on.
FairBeaconSpec == BeaconSpec /\ WF_beaconVars(BeaconTick) /\ WF_beaconVars(Advance) /\ WF_beaconVars(PressSends \/ PressTells)

-----------------------------------------------------------------------------
\* Properties

BeaconTypeOK ==
    /\ beaconConfig \in BeaconConfigs
    /\ fix.age \in Never..(Stale + 1) /\ fix.motion \in Motions \cup {NoMotion}
    /\ last.age \in Never..Longest /\ hold \in 0..(Retry + Startup)
    /\ press.next \in {"idle", "send", "tell"}

Turn(a, b) == IF (a - b) % 360 <= (b - a) % 360 THEN (a - b) % 360 ELSE (b - a) % 360
Turned ==
    /\ NoCourse \notin {Motion.course, last.course}
    /\ (Turn(Motion.course, last.course) - beaconConfig.turnAngle) * Motion.speed
       > beaconConfig.turnSlope

Moving == Motion.speed >= beaconConfig.slowSpeed

SpacedNow ==
    /\ tried.was = "refused" => tried.age >= Retry
    /\ tried.was = "sent" =>
        IF Current /\ beaconConfig.smart
        THEN \/ tried.age >= IF Moving THEN beaconConfig.fastRate ELSE beaconConfig.slowRate
             \/ Moving /\ Turned /\ tried.age >= beaconConfig.turnTime
        ELSE beaconConfig.interval > 0 /\ tried.age >= beaconConfig.interval

\* After a refused attempt the next automatic one waits BEACON_RETRY_S; after one that went
\* out it waits, by the settings and the fix it finds: below the slow speed for the slow rate,
\* above it for the fast rate or for a turn and turn_time, without a fix to go by for the fixed
\* interval.  So it is whatever the settings and the fix were before, whatever order the rates
\* are in, and with beacons asked for in between (beacon.py:19-39, 51-78, service.py:326-361).
BeaconsSpaced == [][tried'.odd # tried.odd => SpacedNow \/ tried.age = Never]_beaconVars

Able ==
    /\ CanBeacon /\ beaconConfig.auto
    /\ (Current /\ beaconConfig.smart) \/ beaconConfig.interval > 0

\* Once we can beacon, are set to and packets get out, beacons keep going out, whatever was
\* refused before (service.py:326-339, beacon.py:46-78).
BeaconsGoOn == (<>[]Able /\ <>[][~Restart]_beaconVars) => []<>(last.age = 0)
===============================================================================
