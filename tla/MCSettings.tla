------------------------------ MODULE MCSettings ------------------------------
(***************************************************************************)
(* Small instances of Settings, Clients and Beacon for TLC: what the       *)
(* settings start, stop, move and time.                                    *)
(*                                                                         *)
(* The three share no variables.  In a behaviour one of them moves, the    *)
(* part it is about; the others stay in an initial state.                  *)
(***************************************************************************)
EXTENDS Settings, Clients, Beacon

VARIABLE part

\* Direwolf managed or not, the radio backend, direwolf.conf, the login, APRS-IS on or off.
Cfg(managed, runs, modem, login, isOn) ==
    [managed |-> managed, radio |-> runs, modem |-> modem, login |-> login, isOn |-> isOn]

MCConfigs ==
    {Cfg(FALSE, "direwolf", 1, 1, FALSE), Cfg(TRUE, "direwolf", 1, 1, TRUE),
     Cfg(TRUE, "direwolf", 2, 2, TRUE), Cfg(TRUE, "ftm200", 2, 1, TRUE),
     Cfg(FALSE, "ftm200", 1, 2, TRUE), Cfg(FALSE, "direwolf", 2, 2, FALSE)}

\* Straight on, slow and fast, across north, a bogus speed, and no course.
Heading(speed, course) == [speed |-> speed, course |-> course]
MCNoCourse == -1
MCMotions == {Heading(0, MCNoCourse), Heading(3, 5), Heading(6, 350), Heading(20, 5)}

\* SmartBeaconing as it is meant to be set; with a slow rate below the fast rate and a turn time
\* above it; and a fixed interval.
BeaconCfg(smart, interval, fixed, slowRate, turnTime) ==
    [smart |-> smart, interval |-> interval, fixed |-> fixed, auto |-> TRUE,
     slowSpeed |-> 2, slowRate |-> slowRate, fastSpeed |-> 4, fastRate |-> 2,
     turnTime |-> turnTime, turnAngle |-> 10, turnSlope |-> 27]
MCBeaconConfigs ==
    {BeaconCfg(TRUE, 0, FALSE, 3, 1), BeaconCfg(TRUE, 0, FALSE, 1, 3), BeaconCfg(FALSE, 3, TRUE, 3, 1)}

ASSUME SettingsConstants
ASSUME ClientsConstants
ASSUME BeaconConstants

-----------------------------------------------------------------------------
allVars == <<part, vars, clientVars, beaconVars>>

\* The initial state in which a component stays that is not the one looked at.
SettingsAtRest == Init /\ config = Cfg(FALSE, "direwolf", 1, 1, FALSE)
ClientsAtRest == ClientsInit /\ backend = Kiss /\ ~works /\ \A c \in Client: want[c] = "a"
BeaconAtRest == BeaconInit /\ beaconConfig = BeaconCfg(TRUE, 0, FALSE, 3, 1) /\ ~sends

AllInit ==
    \/ part = "settings" /\ Init /\ ClientsAtRest /\ BeaconAtRest
    \/ part = "clients" /\ ClientsInit /\ SettingsAtRest /\ BeaconAtRest
    \/ part = "beacon" /\ BeaconInit /\ SettingsAtRest /\ ClientsAtRest

AllNext ==
    \/ part = "settings" /\ Next /\ UNCHANGED <<part, clientVars, beaconVars>>
    \/ part = "clients" /\ ClientsNext /\ UNCHANGED <<part, vars, beaconVars>>
    \/ part = "beacon" /\ BeaconNext /\ UNCHANGED <<part, vars, clientVars>>

\* The fairness of Clients and Beacon; Settings has no liveness property.
AllSpec ==
    /\ AllInit /\ [][AllNext]_allVars
    /\ WF_clientVars(part = "clients" /\ FtmOpens)
    /\ WF_clientVars(part = "clients" /\ FtmReopens)
    /\ WF_beaconVars(part = "beacon" /\ BeaconTick)
    /\ WF_beaconVars(part = "beacon" /\ Advance)
    /\ WF_beaconVars(part = "beacon" /\ (PressSends \/ PressTells))

\* The properties are those of the three modules.
===============================================================================
