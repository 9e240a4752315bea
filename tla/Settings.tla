------------------------------- MODULE Settings -------------------------------
(***************************************************************************)
(* What a change of the settings does to the radio backend, to Direwolf    *)
(* and to the APRS-IS login: Core.start, update_config, _sync_radio and    *)
(* _sync_aprsis (aprsx/core/service.py), DirewolfManager                   *)
(* (aprsx/core/direwolf.py) and AprsIsClient (aprsx/core/aprsis.py).       *)
(*                                                                         *)
(* A PUT runs on the event loop.  It saves the settings and writes         *)
(* Direwolf's configuration in one step; when Direwolf has to be stopped   *)
(* or restarted it awaits systemctl, other PUTs come in between, and the   *)
(* links follow in a last step.  systemd works its jobs off in the order   *)
(* they were asked for, also those the PUT has given up waiting for.       *)
(*                                                                         *)
(* The core stops, crashes and starts again; aprsx-config changes the      *)
(* settings while it is down, as the installer does before the first start.*)
(*                                                                         *)
(* Settings are records: managed, radio, modem (the fields in              *)
(* direwolf.conf), login (all that AprsIsClient.login returns) and isOn.   *)
(***************************************************************************)
EXTENDS Integers, Sequences

CONSTANTS
    Configs,    \* the settings a user saves
    NoModem,    \* no direwolf.conf
    Requests,   \* PUTs at a time
    Boot,       \* Core.start, when it waits for systemctl
    MaxJobs     \* bound on the jobs systemd has

SettingsConstants ==
    /\ Configs # {} /\ Boot \notin Requests
    /\ \A c \in Configs: {c.managed, c.isOn} \subseteq BOOLEAN /\ c.modem # NoModem
    /\ \A c \in Configs: c.radio \in {"direwolf", "ftm200"}
    /\ MaxJobs \in Nat \ {0}

VARIABLES
    up,         \* whether the core runs
    config,     \* Core.config, saved in the store
    puts,       \* per PUT: "idle", "job" or "done" with its job; whether the login changes
    conf,       \* direwolf.conf
    unit,       \* the systemd unit: whether it runs, on which configuration
    jobs,       \* systemd's jobs
    radio,      \* _radio_running
    is,         \* AprsIsClient: phase, login, verified
    worked,     \* history: the last job worked
    behind      \* history: what is behind the settings, "conf", the "unit" alone, or "no"

direwolf == <<conf, unit, jobs, worked, behind>>
vars == <<up, config, puts, direwolf, radio, is>>

Caller == Requests \cup {Boot}
Idle == [at |-> "idle", relogin |-> FALSE]
Off == [phase |-> "off", login |-> NoModem, verified |-> FALSE]

\* Installed: the settings are those the installer saved, the unit is enabled but not started.
Init ==
    /\ up = FALSE /\ config \in Configs
    /\ puts = [r \in Caller |-> Idle] /\ radio = "none" /\ is = Off
    /\ conf = NoModem /\ unit = [runs |-> FALSE, loaded |-> NoModem]
    /\ jobs = <<>> /\ worked = TRUE /\ behind = "no"

-----------------------------------------------------------------------------
\* update_config, to its await

\* Mutant of NeedsRestart: only a changed field counts.
NeedsRestartFields(old, new) == old.modem # new.modem

NeedsRestart(old, new) == old.modem # new.modem \/ (new.managed /\ ~old.managed)

\* What a change from old to new asks of systemd.
JobFor(old, new) ==
    IF ~new.managed THEN "none"
    ELSE IF new.radio # "direwolf"
         THEN IF old.radio = "direwolf" \/ ~old.managed THEN "stop" ELSE "none"
         ELSE IF NeedsRestart(old, new) \/ old.radio # "direwolf" THEN "restart" ELSE "none"

\* Mutant of LoginChanged: only a switch of the client is looked at.
LoginSwitched(old, new) == old.isOn # new.isOn

LoginChanged(old, new) == old.login # new.login

Connecting(cfg) == [phase |-> "connecting", login |-> cfg.login, verified |-> FALSE]
IsRuns == is.phase \notin {"off", "dead"}

\* _sync_radio and _sync_aprsis, for the settings cfg that are in force by now.
SyncLinks(cfg, relogin) ==
    /\ radio' = cfg.radio
    /\ is' = IF ~cfg.isOn THEN IF IsRuns THEN Off ELSE is
             ELSE IF IsRuns /\ ~relogin THEN is ELSE Connecting(cfg)

Asked(r, job, relogin) ==
    /\ puts' = [puts EXCEPT ![r] = [at |-> "job", relogin |-> relogin]]
    /\ jobs' = Append(jobs, [of |-> r, job |-> job])
    /\ UNCHANGED <<radio, is>>

Save(r, new) ==
    LET job == JobFor(config, new)
        relogin == LoginChanged(config, new)
    IN
    /\ up /\ puts[r].at = "idle" /\ puts[Boot].at = "idle"
    /\ \A i \in DOMAIN jobs: jobs[i].of # r
    /\ config' = new
    /\ \/ /\ job = "none"
          /\ SyncLinks(new, relogin)
          /\ UNCHANGED <<puts, jobs, conf, behind>>
       \/ /\ job = "stop" /\ Len(jobs) < MaxJobs
          /\ behind' = "no"
          /\ Asked(r, job, relogin)
          /\ UNCHANGED conf
       \/ /\ job = "restart" /\ Len(jobs) < MaxJobs
          /\ conf' = new.modem /\ behind' = "no"
          /\ Asked(r, job, relogin)
       \/ /\ job = "restart"    \* the write fails: the error is shown, the links follow
          /\ behind' = "conf"
          /\ SyncLinks(new, relogin)
          /\ UNCHANGED <<puts, jobs, conf>>
    /\ UNCHANGED <<up, unit, worked>>

\* systemctl is back, or 30 s are over; its job goes on then.
JobReturns(r) ==
    /\ puts[r].at \in {"job", "done"}
    /\ puts' = [puts EXCEPT ![r] = Idle]
    /\ SyncLinks(config, puts[r].relogin)
    /\ UNCHANGED <<up, config, direwolf>>

-----------------------------------------------------------------------------
\* systemd

\* A job works, or fails: a stop leaves the unit alone, a restart leaves it stopped.
JobRuns(works) ==
    LET j == Head(jobs)
    IN
    /\ jobs # <<>>
    /\ jobs' = Tail(jobs)
    /\ unit' = IF j.job = "stop" /\ ~works THEN unit
               ELSE [runs |-> j.job = "restart" /\ works,
                     loaded |-> IF j.job = "restart" /\ works THEN conf ELSE NoModem]
    /\ worked' = works
    /\ puts' = IF puts[j.of].at = "job" THEN [puts EXCEPT ![j.of].at = "done"] ELSE puts
    /\ UNCHANGED <<up, config, conf, behind, radio, is>>

-----------------------------------------------------------------------------
\* The core starts and stops

\* Core.start.  With the other radio the unit is stopped, as it starts at boot whatever the
\* backend, and the links wait for that; a first configuration is written and the unit not told
\* (when the write fails the core is not up, and systemd starts it again).
CoreStarts ==
    /\ ~up /\ up' = TRUE
    /\ \/ /\ config.managed /\ config.radio # "direwolf"
          /\ Len(jobs) < MaxJobs /\ \A i \in DOMAIN jobs: jobs[i].of # Boot
          /\ behind' = "no"
          /\ Asked(Boot, "stop", FALSE)
          /\ UNCHANGED conf
       \/ /\ ~(config.managed /\ config.radio # "direwolf")
          /\ IF config.managed /\ conf = NoModem
             THEN conf' = config.modem /\ behind' = "unit"
             ELSE UNCHANGED <<conf, behind>>
          /\ SyncLinks(config, FALSE)
          /\ UNCHANGED <<puts, jobs>>
    /\ UNCHANGED <<config, unit, worked>>

GoesDown ==
    /\ up' = FALSE
    /\ puts' = [r \in Caller |-> Idle] /\ radio' = "none" /\ is' = Off

\* Core.stop, or its process dies; systemd and Direwolf go on.
CoreStops ==
    /\ up /\ GoesDown
    /\ UNCHANGED <<config, direwolf>>

\* aprsx-config saves settings while the core is down: nothing is passed on to Direwolf.
Configures(new) ==
    /\ ~up
    /\ config' = new
    /\ behind' = IF JobFor(config, new) = "restart" THEN "conf" ELSE behind
    /\ UNCHANGED <<up, puts, conf, unit, jobs, worked, radio, is>>

\* The power goes and comes back: the unit starts on the configuration there is.
Reboot ==
    /\ GoesDown
    /\ unit' = [runs |-> conf # NoModem, loaded |-> conf]
    /\ jobs' = <<>> /\ worked' = TRUE
    /\ behind' = IF behind = "unit" THEN "no" ELSE behind
    /\ UNCHANGED <<config, conf>>

-----------------------------------------------------------------------------
\* AprsIsClient.run and _session

IsGoes(from, to) == is.phase = from /\ is' = [is EXCEPT !.phase = to, !.verified = FALSE]

IsLogsIn == IsGoes("connecting", "session")
IsFails == IsGoes("connecting", "waiting")
IsEnds == IsGoes("session", "waiting")

\* A line longer than the reader's limit: its ValueError ends the task.
IsDies == IsGoes("session", "dead")

IsVerified == is.phase = "session" /\ is' = [is EXCEPT !.verified = TRUE]

\* The login is read again at each attempt.
IsTriesAgain == is.phase = "waiting" /\ is' = Connecting(config)

IsSteps ==
    /\ IsLogsIn \/ IsFails \/ IsEnds \/ IsDies \/ IsVerified \/ IsTriesAgain
    /\ UNCHANGED <<up, config, puts, direwolf, radio>>

-----------------------------------------------------------------------------
Next ==
    \/ \E r \in Requests, new \in Configs: Save(r, new)
    \/ \E r \in Caller: JobReturns(r)
    \/ \E works \in BOOLEAN: JobRuns(works)
    \/ IsSteps
    \/ CoreStarts
    \/ CoreStops
    \/ \E new \in Configs: Configures(new)
    \/ Reboot

Spec == Init /\ [][Next]_vars

-----------------------------------------------------------------------------
\* Properties

TypeOK ==
    /\ up \in BOOLEAN /\ behind \in {"no", "unit", "conf"}
    /\ config \in Configs
    /\ puts \in [Caller -> [at: {"idle", "job", "done"}, relogin: BOOLEAN]]
    /\ conf \in {NoModem} \cup {c.modem: c \in Configs}
    /\ Len(jobs) <= MaxJobs
    /\ radio \in {"none", "direwolf", "ftm200"}
    /\ is.phase \in {"off", "connecting", "session", "waiting", "dead"}
    /\ is.verified => is.phase = "session"

Quiet == up /\ \A r \in Caller: puts[r].at = "idle"

\* While the core is up and no PUT or start waits for systemctl, the backend of the settings runs;
\* the APRS-IS task runs exactly if it is enabled, unless a line too long for its reader ended it
\* (aprsis.py:172, which 154 does not catch: nothing but a PUT starts it again); and a login that
\* is tried or used is that of the settings, in whatever order the PUTs were saved and came back
\* (service.py:129-151, 261-289).
LinksFollowSettings ==
    Quiet =>
        /\ radio = config.radio
        /\ is.phase # "dead" => (config.isOn <=> IsRuns)
        /\ is.phase \in {"connecting", "session"} => is.login = config.login

\* While the core is up and systemd's last job worked, a managed Direwolf runs on the settings in
\* force or, with the other radio, doesn't hold the Digirig: through PUTs that overlap or turn
\* management off and on, jobs that outlive their PUT, failures, reboots, and restarts of the
\* core.  Unless direwolf.conf is behind, since its last write failed or the settings changed
\* while the core was down; or the unit alone, until the boot after the start that wrote the
\* first configuration (service.py:92-97, 269-277; direwolf.py:57-118).
DirewolfAsSet ==
    (up /\ config.managed /\ worked /\ behind = "no" /\ jobs = <<>>) =>
        IF config.radio = "direwolf" THEN unit.runs /\ unit.loaded = config.modem ELSE ~unit.runs
===============================================================================
