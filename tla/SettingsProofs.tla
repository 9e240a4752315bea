----------------------------- MODULE SettingsProofs -----------------------------
(***************************************************************************)
(* Theorems about Settings, Clients and Beacon: for every set of settings, *)
(* any number of PUTs at a time and any bound on systemd's jobs; any       *)
(* clients and addresses; any motions, and all the speeds, rates and       *)
(* angles that BeaconConstants allows.                                     *)
(***************************************************************************)
EXTENDS Settings, Clients, Beacon, SequenceTheorems, TLAPS

-----------------------------------------------------------------------------
\* Settings: the inductive invariant

Job == [of: Caller, job: {"stop", "restart"}]
PutState == [at: {"idle", "job", "done"}, relogin: BOOLEAN]
Phases == {"off", "connecting", "session", "waiting", "dead"}
Modems == {c.modem: c \in Configs}
Logins == {c.login: c \in Configs} \cup {NoModem}

Types ==
    /\ up \in BOOLEAN /\ behind \in {"no", "unit", "conf"}
    /\ config \in Configs
    /\ puts \in [Caller -> PutState]
    /\ conf \in {NoModem} \cup Modems
    /\ jobs \in Seq(Job) /\ Len(jobs) <= MaxJobs
    /\ radio \in {"none", "direwolf", "ftm200"}
    /\ is \in [phase: Phases, login: Logins, verified: BOOLEAN]
    /\ is.verified => is.phase = "session"

\* What the links are not yet, a PUT that waits will see to; an old login, one that changed it.
PutWaits == \E r \in Caller: puts[r].at # "idle"
PutLogsIn == \E r \in Caller: puts[r].at # "idle" /\ puts[r].relogin

LinksInv ==
    /\ ~up => is = Off /\ ~PutWaits
    /\ up => /\ radio # config.radio => PutWaits
             /\ config.isOn /\ is.phase = "off" => PutWaits
             /\ ~config.isOn /\ IsRuns => PutWaits
             /\ is.phase \in {"connecting", "session"} /\ is.login # config.login => PutLogsIn

\* While Direwolf is managed and its configuration isn't behind, it is the one in force; unless the
\* unit is, the last job asks for what is set, and when none is left, that is so.  With the other
\* radio, or before the first configuration, only while the core is up.
JobAsSet == IF config.radio = "direwolf" THEN "restart" ELSE "stop"

Settled == up \/ (config.radio = "direwolf" /\ conf # NoModem)

UnitAsSet ==
    /\ jobs # <<>> => jobs[Len(jobs)].job = JobAsSet
    /\ jobs = <<>> /\ worked =>
          IF config.radio = "direwolf" THEN unit.runs /\ unit.loaded = config.modem ELSE ~unit.runs

DirewolfInv ==
    /\ behind = "unit" => conf # NoModem
    /\ config.managed /\ behind # "conf" /\ Settled =>
          /\ config.radio = "direwolf" => conf = config.modem
          /\ behind = "no" => UnitAsSet

Inv == Types /\ LinksInv /\ DirewolfInv

-----------------------------------------------------------------------------
\* Lemmas

LEMMA ConfigType ==
  ASSUME SettingsConstants, NEW c \in Configs
  PROVE  /\ c.managed \in BOOLEAN /\ c.isOn \in BOOLEAN /\ c.modem # NoModem
         /\ c.radio \in {"direwolf", "ftm200"} /\ c.modem \in Modems /\ c.login \in Logins
  BY DEF SettingsConstants, Modems, Logins

LEMMA JobTypes ==
  ASSUME NEW old, NEW new
  PROVE  JobFor(old, new) \in {"none", "stop", "restart"} /\ LoginChanged(old, new) \in BOOLEAN
  <1>1. JobFor(old, new) \in {"none", "stop", "restart"}
    BY DEF JobFor
  <1>2. LoginChanged(old, new) \in BOOLEAN
    BY DEF LoginChanged
  <1>3. QED
    BY <1>1, <1>2

\* A job that is asked for is the last one.
LEMMA Asks ==
  ASSUME Types, NEW r \in Caller, NEW job \in {"stop", "restart"}, NEW relogin \in BOOLEAN,
         Len(jobs) < MaxJobs, Asked(r, job, relogin), MaxJobs \in Nat
  PROVE  /\ puts' \in [Caller -> PutState]
         /\ puts' = [puts EXCEPT ![r] = [at |-> "job", relogin |-> relogin]]
         /\ jobs' \in Seq(Job) /\ Len(jobs') <= MaxJobs
         /\ jobs' # <<>> /\ jobs'[Len(jobs')].job = job
         /\ UNCHANGED <<radio, is>>
  <1> DEFINE e == [of |-> r, job |-> job]
  <1>1. jobs' = Append(jobs, e) /\ e \in Job /\ e.job = job
    BY DEF Asked, Job
  <1> HIDE DEF e
  <1>2. jobs \in Seq(Job) /\ Len(jobs) \in Nat
    BY DEF Types
  <1>3. jobs' \in Seq(Job) /\ Len(jobs') = Len(jobs) + 1 /\ jobs'[Len(jobs) + 1] = e
    BY <1>1, <1>2, AppendProperties
  <1>4. jobs' # <<>>
    BY <1>2, <1>3
  <1>5. /\ puts' = [puts EXCEPT ![r] = [at |-> "job", relogin |-> relogin]]
        /\ UNCHANGED <<radio, is>>
    BY DEF Asked
  <1>6. puts' \in [Caller -> PutState]
    BY <1>5 DEF Types, PutState
  <1>7. QED
    BY <1>1, <1>2, <1>3, <1>4, <1>5, <1>6

\* What a sync leaves: the backend as set, the client as set, its login kept only by a sync
\* that is not about the login.
LEMMA Synced ==
  ASSUME SettingsConstants, Types, NEW cfg \in Configs, NEW relogin \in BOOLEAN,
         SyncLinks(cfg, relogin)
  PROVE  /\ radio' = cfg.radio /\ radio' \in {"none", "direwolf", "ftm200"}
         /\ is' \in [phase: Phases, login: Logins, verified: BOOLEAN]
         /\ is'.verified => is'.phase = "session"
         /\ cfg.isOn => is'.phase # "off"
         /\ ~cfg.isOn => ~IsRuns'
         /\ is'.phase \in {"connecting", "session"} /\ is'.login # cfg.login =>
               is' = is /\ ~relogin
  <1>1. radio' = cfg.radio /\ radio' \in {"none", "direwolf", "ftm200"}
    BY ConfigType DEF SyncLinks
  <1>2. is \in [phase: Phases, login: Logins, verified: BOOLEAN]
        /\ (is.verified => is.phase = "session")
    BY DEF Types
  <1>3. CASE ~cfg.isOn /\ IsRuns
    <2>1. is' = Off
      BY <1>3 DEF SyncLinks
    <2>2. Off \in [phase: Phases, login: Logins, verified: BOOLEAN]
      BY DEF Off, Phases, Logins
    <2>3. QED
      BY <1>1, <1>3, <2>1, <2>2 DEF Off, IsRuns
  <1>4. CASE ~cfg.isOn /\ ~IsRuns
    <2>1. is' = is
      BY <1>4 DEF SyncLinks
    <2>2. is.phase \notin {"connecting", "session"}
      BY <1>2, <1>4 DEF IsRuns
    <2>3. QED
      BY <1>1, <1>2, <1>4, <2>1, <2>2 DEF IsRuns
  <1>5. CASE cfg.isOn /\ IsRuns /\ ~relogin
    <2>1. is' = is
      BY <1>5 DEF SyncLinks
    <2>2. QED
      BY <1>1, <1>2, <1>5, <2>1 DEF IsRuns
  <1>6. CASE cfg.isOn /\ ~(IsRuns /\ ~relogin)
    <2>1. is' = Connecting(cfg)
      BY <1>6 DEF SyncLinks
    <2>2. /\ is'.phase = "connecting" /\ is'.login = cfg.login /\ is'.verified = FALSE
          /\ is' \in [phase: Phases, login: Logins, verified: BOOLEAN]
      BY <2>1, ConfigType DEF Connecting, Phases
    <2>3. QED
      BY <1>1, <1>6, <2>2
  <1>7. QED
    BY <1>3, <1>4, <1>5, <1>6

-----------------------------------------------------------------------------
\* The invariant holds from the start, and through every step

LEMMA InitInv == ASSUME SettingsConstants, Init PROVE Inv
  <1>1. /\ up = FALSE /\ config \in Configs /\ behind = "no"
        /\ puts = [r \in Caller |-> Idle] /\ conf = NoModem /\ jobs = <<>>
        /\ radio = "none" /\ is = Off
    BY DEF Init
  <1>2. MaxJobs \in Nat \ {0}
    BY DEF SettingsConstants
  <1>3. is \in [phase: Phases, login: Logins, verified: BOOLEAN] /\ ~is.verified
    BY <1>1 DEF Off, Phases, Logins
  <1>4. puts \in [Caller -> PutState] /\ ~PutWaits
    BY <1>1 DEF Idle, PutState, PutWaits
  <1>5. Types
    <2>1. jobs \in Seq(Job) /\ Len(jobs) <= MaxJobs
      BY <1>1, <1>2
    <2>2. up \in BOOLEAN
      BY <1>1
    <2>3. QED
      BY <1>1, <1>3, <1>4, <2>1, <2>2 DEF Types
  <1>6. LinksInv
    BY <1>1, <1>4 DEF LinksInv
  <1>7. DirewolfInv
    BY <1>1 DEF DirewolfInv, Settled
  <1>8. QED
    BY <1>5, <1>6, <1>7 DEF Inv

LEMMA SaveInv ==
  ASSUME SettingsConstants, Inv, NEW r \in Requests, NEW new \in Configs, Save(r, new)
  PROVE  Inv'
  <1> DEFINE job == JobFor(config, new)
             relogin == LoginChanged(config, new)
  <1>1. Types /\ LinksInv /\ DirewolfInv
    BY DEF Inv
  <1>2. /\ up /\ r \in Caller /\ puts[r].at = "idle" /\ config' = new
        /\ UNCHANGED <<up, unit, worked>>
        /\ MaxJobs \in Nat
        /\ \/ /\ job = "none" /\ SyncLinks(new, relogin)
              /\ UNCHANGED <<puts, jobs, conf, behind>>
           \/ /\ job = "stop" /\ Len(jobs) < MaxJobs /\ behind' = "no"
              /\ Asked(r, job, relogin) /\ UNCHANGED conf
           \/ /\ job = "restart" /\ Len(jobs) < MaxJobs /\ conf' = new.modem /\ behind' = "no"
              /\ Asked(r, job, relogin)
           \/ /\ job = "restart" /\ behind' = "conf" /\ SyncLinks(new, relogin)
              /\ UNCHANGED <<puts, jobs, conf>>
    BY DEF Save, Caller, SettingsConstants
  <1>3. job \in {"none", "stop", "restart"} /\ relogin \in BOOLEAN
        /\ (~relogin => config.login = new.login)
    BY JobTypes DEF LoginChanged
  <1>4. config \in Configs /\ config.radio \in {"direwolf", "ftm200"}
        /\ new.radio \in {"direwolf", "ftm200"} /\ new.modem \in Modems
    BY <1>1, ConfigType DEF Types
  <1>5. job = "none" => \/ ~new.managed
                        \/ /\ config.managed
                           /\ new.radio = "direwolf" <=> config.radio = "direwolf"
                           /\ new.radio = "direwolf" => config.modem = new.modem
    BY <1>4 DEF JobFor, NeedsRestart
  <1>6. /\ job = "stop" => new.radio # "direwolf"
        /\ job = "restart" => new.radio = "direwolf"
    BY DEF JobFor
  <1> HIDE DEF job, relogin
  <1>7. CASE SyncLinks(new, relogin) /\ UNCHANGED <<puts, jobs, conf>>
             /\ ((job = "none" /\ UNCHANGED behind) \/ (job = "restart" /\ behind' = "conf"))
    <2>1. /\ radio' = new.radio /\ radio' \in {"none", "direwolf", "ftm200"}
          /\ is' \in [phase: Phases, login: Logins, verified: BOOLEAN]
          /\ is'.verified => is'.phase = "session"
          /\ new.isOn => is'.phase # "off"
          /\ ~new.isOn => ~IsRuns'
          /\ is'.phase \in {"connecting", "session"} /\ is'.login # new.login =>
                is' = is /\ ~relogin
      BY <1>1, <1>3, <1>7, Synced
    <2>2. Types'
      BY <1>1, <1>2, <1>7, <2>1 DEF Types
    <2>3. is'.phase \in {"connecting", "session"} /\ is'.login # new.login => PutLogsIn
      BY <1>1, <1>2, <1>3, <2>1 DEF LinksInv
    <2>4. LinksInv'
      BY <1>2, <1>7, <2>1, <2>3 DEF LinksInv, PutLogsIn
    <2>5. DirewolfInv'
      BY <1>1, <1>2, <1>5, <1>7 DEF DirewolfInv, JobAsSet, UnitAsSet, Settled
    <2>6. QED
      BY <2>2, <2>4, <2>5 DEF Inv
  <1>8. CASE job \in {"stop", "restart"} /\ Len(jobs) < MaxJobs /\ Asked(r, job, relogin)
             /\ (job = "stop" \/ (job = "restart" /\ conf' = new.modem /\ behind' = "no"))
             /\ (job = "stop" => UNCHANGED conf /\ behind' = "no")
    <2>1. /\ puts' \in [Caller -> PutState]
          /\ puts' = [puts EXCEPT ![r] = [at |-> "job", relogin |-> relogin]]
          /\ jobs' \in Seq(Job) /\ Len(jobs') <= MaxJobs
          /\ jobs' # <<>> /\ jobs'[Len(jobs')].job = job
          /\ UNCHANGED <<radio, is>>
      BY <1>1, <1>2, <1>3, <1>8, Asks
    <2>2. conf' \in {NoModem} \cup Modems
      BY <1>1, <1>4, <1>8 DEF Types
    <2>3. Types'
      BY <1>1, <1>2, <2>1, <2>2 DEF Types
    <2>4. /\ puts'[r].at = "job" /\ puts'[r].relogin = relogin
          /\ \A q \in Caller: q # r => puts'[q] = puts[q]
      BY <1>1, <1>2, <2>1 DEF Types
    <2>5. PutWaits'
      BY <1>2, <2>4 DEF PutWaits
    <2>6. PutLogsIn => PutLogsIn'
      BY <1>2, <2>4 DEF PutLogsIn
    <2>7. relogin => PutLogsIn'
      BY <1>2, <2>4 DEF PutLogsIn
    <2>8. LinksInv'
      BY <1>1, <1>2, <1>3, <2>1, <2>5, <2>6, <2>7 DEF LinksInv
    <2>9. DirewolfInv'
      BY <1>2, <1>4, <1>6, <1>8, <2>1 DEF DirewolfInv, JobAsSet, UnitAsSet, Settled
    <2>10. QED
      BY <2>3, <2>8, <2>9 DEF Inv
  <1>9. CASE job = "none" /\ SyncLinks(new, relogin) /\ UNCHANGED <<puts, jobs, conf, behind>>
    <2>1. SyncLinks(new, relogin) /\ UNCHANGED <<puts, jobs, conf>>
          /\ ((job = "none" /\ UNCHANGED behind) \/ (job = "restart" /\ behind' = "conf"))
      BY <1>9
    <2>2. QED
      BY <1>7, <2>1
  <1>10. CASE job = "stop" /\ Len(jobs) < MaxJobs /\ behind' = "no"
              /\ Asked(r, job, relogin) /\ UNCHANGED conf
    <2>1. job \in {"stop", "restart"} /\ Len(jobs) < MaxJobs /\ Asked(r, job, relogin)
          /\ (job = "stop" \/ (job = "restart" /\ conf' = new.modem /\ behind' = "no"))
          /\ (job = "stop" => UNCHANGED conf /\ behind' = "no")
      BY <1>10
    <2>2. QED
      BY <1>8, <2>1
  <1>11. CASE job = "restart" /\ Len(jobs) < MaxJobs /\ conf' = new.modem /\ behind' = "no"
              /\ Asked(r, job, relogin)
    <2>1. job \in {"stop", "restart"} /\ Len(jobs) < MaxJobs /\ Asked(r, job, relogin)
          /\ (job = "stop" \/ (job = "restart" /\ conf' = new.modem /\ behind' = "no"))
          /\ (job = "stop" => UNCHANGED conf /\ behind' = "no")
      BY <1>11
    <2>2. QED
      BY <1>8, <2>1
  <1>12. CASE job = "restart" /\ behind' = "conf" /\ SyncLinks(new, relogin)
              /\ UNCHANGED <<puts, jobs, conf>>
    <2>1. SyncLinks(new, relogin) /\ UNCHANGED <<puts, jobs, conf>>
          /\ ((job = "none" /\ UNCHANGED behind) \/ (job = "restart" /\ behind' = "conf"))
      BY <1>12
    <2>2. QED
      BY <1>7, <2>1
  <1>13. QED
    BY <1>2, <1>9, <1>10, <1>11, <1>12

LEMMA JobReturnsInv ==
  ASSUME SettingsConstants, Inv, NEW r \in Caller, JobReturns(r)
  PROVE  Inv'
  <1>1. Types /\ LinksInv /\ DirewolfInv
    BY DEF Inv
  <1>2. /\ puts' = [puts EXCEPT ![r] = Idle]
        /\ SyncLinks(config, puts[r].relogin)
        /\ UNCHANGED <<up, config, conf, unit, jobs, worked, behind>>
    BY DEF JobReturns, direwolf
  <1>0. up
    BY <1>1 DEF JobReturns, LinksInv, PutWaits
  <1>3. config \in Configs /\ puts[r].relogin \in BOOLEAN
    BY <1>1 DEF Types, PutState
  <1>4. /\ radio' = config.radio /\ radio' \in {"none", "direwolf", "ftm200"}
        /\ is' \in [phase: Phases, login: Logins, verified: BOOLEAN]
        /\ is'.verified => is'.phase = "session"
        /\ config.isOn => is'.phase # "off"
        /\ ~config.isOn => ~IsRuns'
        /\ is'.phase \in {"connecting", "session"} /\ is'.login # config.login =>
              is' = is /\ ~puts[r].relogin
    BY <1>1, <1>2, <1>3, Synced
  <1>5. puts' \in [Caller -> PutState] /\ \A q \in Caller: q # r => puts'[q] = puts[q]
    BY <1>1, <1>2 DEF Types, Idle, PutState
  <1>6. Types'
    BY <1>1, <1>2, <1>4, <1>5 DEF Types
  <1>7. ASSUME is'.phase \in {"connecting", "session"}, is'.login # config.login
        PROVE  PutLogsIn'
    <2>1. PutLogsIn /\ ~puts[r].relogin
      BY <1>0, <1>1, <1>4, <1>7 DEF LinksInv
    <2>2. PICK q \in Caller: puts[q].at # "idle" /\ puts[q].relogin
      BY <2>1 DEF PutLogsIn
    <2>3. q # r
      BY <2>1, <2>2
    <2>4. QED
      BY <1>5, <2>2, <2>3 DEF PutLogsIn
  <1>8. LinksInv'
    BY <1>0, <1>2, <1>4, <1>7 DEF LinksInv
  <1>9. DirewolfInv'
    BY <1>1, <1>2 DEF DirewolfInv, JobAsSet, UnitAsSet, Settled
  <1>10. QED
    BY <1>6, <1>8, <1>9 DEF Inv

\* The last job leaves the unit as it asks, if it works; the others leave the last one last.
LEMMA JobRunsInv ==
  ASSUME SettingsConstants, Inv, NEW ok \in BOOLEAN, JobRuns(ok)
  PROVE  Inv'
  <1> DEFINE j == Head(jobs)
  <1>1. Types /\ LinksInv /\ DirewolfInv
    BY DEF Inv
  <1>2. /\ jobs # <<>> /\ jobs' = Tail(jobs)
        /\ unit' = IF j.job = "stop" /\ ~ok THEN unit
                   ELSE [runs |-> j.job = "restart" /\ ok,
                         loaded |-> IF j.job = "restart" /\ ok THEN conf ELSE NoModem]
        /\ worked' = ok
        /\ puts' = IF puts[j.of].at = "job" THEN [puts EXCEPT ![j.of].at = "done"] ELSE puts
        /\ UNCHANGED <<up, config, conf, behind, radio, is>>
    BY DEF JobRuns
  <1>3. /\ jobs \in Seq(Job) /\ Len(jobs) \in Nat /\ Len(jobs) > 0 /\ Len(jobs) <= MaxJobs
        /\ j = jobs[1] /\ j \in Job /\ MaxJobs \in Nat
    BY <1>1, <1>2 DEF Types, SettingsConstants
  <1>4. /\ jobs' \in Seq(Job) /\ Len(jobs') = Len(jobs) - 1
        /\ \A i \in 1..Len(jobs'): jobs'[i] = jobs[i + 1]
    BY <1>2, <1>3, HeadTailProperties
  <1> HIDE DEF j
  <1>5. j.of \in Caller /\ j.job \in {"stop", "restart"}
    BY <1>3 DEF Job
  <1>6. /\ puts' \in [Caller -> PutState]
        /\ \A r \in Caller: /\ puts'[r].relogin = puts[r].relogin
                            /\ puts'[r].at # "idle" <=> puts[r].at # "idle"
    BY <1>1, <1>2, <1>5 DEF Types, PutState
  <1>7. Types'
    BY <1>1, <1>2, <1>3, <1>4, <1>6 DEF Types
  <1>8. LinksInv'
    <2>1. (PutWaits' <=> PutWaits) /\ (PutLogsIn' <=> PutLogsIn)
      BY <1>6 DEF PutWaits, PutLogsIn
    <2>2. QED
      BY <1>1, <1>2, <2>1 DEF LinksInv, IsRuns
  <1>9. DirewolfInv'
    <2> SUFFICES ASSUME config.managed, behind = "no", Settled
                 PROVE  /\ jobs' # <<>> => jobs'[Len(jobs')].job = JobAsSet
                        /\ jobs' = <<>> /\ ok =>
                              IF config.radio = "direwolf"
                              THEN unit'.runs /\ unit'.loaded = config.modem ELSE ~unit'.runs
      BY <1>1, <1>2 DEF DirewolfInv, JobAsSet, UnitAsSet, Settled
    <2>1. /\ config.radio = "direwolf" => conf = config.modem
          /\ jobs[Len(jobs)].job = JobAsSet
      BY <1>1, <1>2 DEF DirewolfInv, UnitAsSet
    <2>2. jobs' # <<>> => jobs'[Len(jobs')].job = JobAsSet
      <3> SUFFICES ASSUME jobs' # <<>> PROVE jobs'[Len(jobs')].job = JobAsSet
        OBVIOUS
      <3>1. Len(jobs') \in 1..Len(jobs')
        BY <1>3, <1>4
      <3>2. jobs'[Len(jobs')] = jobs[Len(jobs)]
        BY <1>3, <1>4, <3>1
      <3>3. QED
        BY <2>1, <3>2
    <2>3. jobs' = <<>> /\ ok =>
              IF config.radio = "direwolf"
              THEN unit'.runs /\ unit'.loaded = config.modem ELSE ~unit'.runs
      <3> SUFFICES ASSUME jobs' = <<>>, ok
                   PROVE  IF config.radio = "direwolf"
                          THEN unit'.runs /\ unit'.loaded = config.modem ELSE ~unit'.runs
        OBVIOUS
      <3>1. Len(jobs) = 1
        BY <1>3, <1>4
      <3>2. j.job = JobAsSet
        BY <1>3, <2>1, <3>1
      <3>3. CASE config.radio = "direwolf"
        <4>1. j.job = "restart"
          BY <3>2, <3>3 DEF JobAsSet
        <4>2. unit' = [runs |-> TRUE, loaded |-> conf]
          BY <1>2, <4>1
        <4>3. QED
          BY <2>1, <3>3, <4>2
      <3>4. CASE config.radio # "direwolf"
        <4>1. j.job = "stop"
          BY <3>2, <3>4 DEF JobAsSet
        <4>2. unit' = [runs |-> FALSE, loaded |-> NoModem]
          BY <1>2, <4>1
        <4>3. QED
          BY <3>4, <4>2
      <3>5. QED
        BY <3>3, <3>4
    <2>4. QED
      BY <2>2, <2>3
  <1>10. QED
    BY <1>7, <1>8, <1>9 DEF Inv

LEMMA CoreStartsInv ==
  ASSUME SettingsConstants, Inv, CoreStarts
  PROVE  Inv'
  <1>1. Types /\ LinksInv /\ DirewolfInv
    BY DEF Inv
  <1>2. /\ ~up /\ up' = TRUE /\ is = Off /\ ~PutWaits
        /\ UNCHANGED <<config, unit, worked>>
    BY <1>1 DEF CoreStarts, LinksInv
  <1>3. /\ config \in Configs /\ config.modem \in Modems /\ config.modem # NoModem
        /\ config.radio \in {"direwolf", "ftm200"} /\ MaxJobs \in Nat /\ Boot \in Caller
    BY <1>1, ConfigType DEF Types, SettingsConstants, Caller
  <1>4. CASE /\ config.managed /\ config.radio # "direwolf" /\ Len(jobs) < MaxJobs
             /\ behind' = "no" /\ Asked(Boot, "stop", FALSE) /\ UNCHANGED conf
    <2>1. /\ puts' \in [Caller -> PutState]
          /\ puts' = [puts EXCEPT ![Boot] = [at |-> "job", relogin |-> FALSE]]
          /\ jobs' \in Seq(Job) /\ Len(jobs') <= MaxJobs
          /\ jobs' # <<>> /\ jobs'[Len(jobs')].job = "stop"
          /\ UNCHANGED <<radio, is>>
      BY <1>1, <1>3, <1>4, Asks
    <2>2. Types'
      BY <1>1, <1>2, <1>4, <2>1 DEF Types
    <2>3. puts'[Boot].at = "job"
      BY <1>1, <1>3, <2>1 DEF Types
    <2>4. PutWaits'
      BY <1>3, <2>3 DEF PutWaits
    <2>5. LinksInv'
      BY <1>2, <2>1, <2>4 DEF LinksInv, Off
    <2>6. DirewolfInv'
      BY <1>2, <1>4, <2>1 DEF DirewolfInv, JobAsSet, UnitAsSet, Settled
    <2>7. QED
      BY <2>2, <2>5, <2>6 DEF Inv
  <1>5. CASE /\ ~(config.managed /\ config.radio # "direwolf")
             /\ IF config.managed /\ conf = NoModem
                THEN conf' = config.modem /\ behind' = "unit"
                ELSE UNCHANGED <<conf, behind>>
             /\ SyncLinks(config, FALSE) /\ UNCHANGED <<puts, jobs>>
    <2>1. /\ radio' = config.radio /\ radio' \in {"none", "direwolf", "ftm200"}
          /\ is' \in [phase: Phases, login: Logins, verified: BOOLEAN]
          /\ is'.verified => is'.phase = "session"
          /\ config.isOn => is'.phase # "off"
          /\ ~config.isOn => ~IsRuns'
          /\ is'.phase \in {"connecting", "session"} /\ is'.login # config.login => is' = is
      BY <1>1, <1>3, <1>5, Synced
    <2>2. conf' \in {NoModem} \cup Modems /\ behind' \in {"no", "unit", "conf"}
      BY <1>1, <1>3, <1>5 DEF Types
    <2>3. Types'
      BY <1>1, <1>2, <1>5, <2>1, <2>2 DEF Types
    <2>4. LinksInv'
      BY <1>2, <2>1 DEF LinksInv, Off
    <2>5. DirewolfInv'
      BY <1>1, <1>2, <1>3, <1>5 DEF DirewolfInv, JobAsSet, UnitAsSet, Settled
    <2>6. QED
      BY <2>3, <2>4, <2>5 DEF Inv
  <1>6. QED
    BY <1>4, <1>5 DEF CoreStarts

LEMMA GoneDown ==
  ASSUME Types, GoesDown
  PROVE  /\ up' = FALSE /\ ~PutWaits' /\ is' = Off
         /\ puts' \in [Caller -> PutState] /\ radio' = "none"
         /\ is' \in [phase: Phases, login: Logins, verified: BOOLEAN]
         /\ is'.verified => is'.phase = "session"
  <1>1. /\ up' = FALSE /\ is' = Off /\ radio' = "none"
        /\ puts' = [r \in Caller |-> Idle]
    BY DEF GoesDown
  <1>2. puts' \in [Caller -> PutState] /\ ~PutWaits'
    BY <1>1 DEF Idle, PutState, PutWaits
  <1>3. Off \in [phase: Phases, login: Logins, verified: BOOLEAN] /\ ~Off.verified
    BY DEF Off, Phases, Logins
  <1>4. QED
    BY <1>1, <1>2, <1>3

LEMMA CoreStopsInv ==
  ASSUME SettingsConstants, Inv, CoreStops
  PROVE  Inv'
  <1>1. Types /\ LinksInv /\ DirewolfInv /\ up
    BY DEF Inv, CoreStops
  <1>2. UNCHANGED <<config, conf, unit, jobs, worked, behind>> /\ GoesDown
    BY DEF CoreStops, direwolf
  <1>3. Types' /\ LinksInv'
    BY <1>1, <1>2, GoneDown DEF Types, LinksInv
  <1>4. DirewolfInv'
    BY <1>1, <1>2 DEF DirewolfInv, JobAsSet, UnitAsSet, Settled
  <1>5. QED
    BY <1>3, <1>4 DEF Inv

\* What would have asked for a restart leaves the configuration behind.
LEMMA ConfiguresInv ==
  ASSUME SettingsConstants, Inv, NEW new \in Configs, Configures(new)
  PROVE  Inv'
  <1>1. Types /\ LinksInv /\ DirewolfInv
    BY DEF Inv
  <1>2. /\ ~up /\ config' = new
        /\ behind' = IF JobFor(config, new) = "restart" THEN "conf" ELSE behind
        /\ UNCHANGED <<up, puts, conf, unit, jobs, worked, radio, is>>
    BY DEF Configures
  <1>3. Types'
    BY <1>1, <1>2 DEF Types
  <1>4. LinksInv'
    BY <1>1, <1>2 DEF LinksInv, PutWaits
  <1>5. config.radio \in {"direwolf", "ftm200"} /\ new.radio \in {"direwolf", "ftm200"}
    BY <1>1, ConfigType DEF Types
  <1>6. ASSUME new.managed, new.radio = "direwolf", JobFor(config, new) # "restart"
        PROVE  config.managed /\ config.radio = "direwolf" /\ config.modem = new.modem
    BY <1>5, <1>6 DEF JobFor, NeedsRestart
  <1>7. DirewolfInv'
    BY <1>1, <1>2, <1>6 DEF DirewolfInv, JobAsSet, UnitAsSet, Settled
  <1>8. QED
    BY <1>3, <1>4, <1>7 DEF Inv

LEMMA RebootInv ==
  ASSUME SettingsConstants, Inv, Reboot
  PROVE  Inv'
  <1>1. Types /\ LinksInv /\ DirewolfInv
    BY DEF Inv
  <1>2. /\ GoesDown /\ UNCHANGED <<config, conf>>
        /\ unit' = [runs |-> conf # NoModem, loaded |-> conf] /\ jobs' = <<>> /\ worked' = TRUE
        /\ behind' = IF behind = "unit" THEN "no" ELSE behind
    BY DEF Reboot
  <1>3. MaxJobs \in Nat \ {0}
    BY DEF SettingsConstants
  <1>4. Types'
    <2>1. jobs' \in Seq(Job) /\ Len(jobs') <= MaxJobs
      BY <1>2, <1>3
    <2>2. behind' \in {"no", "unit", "conf"}
      BY <1>1, <1>2 DEF Types
    <2>3. QED
      BY <1>1, <1>2, <2>1, <2>2, GoneDown DEF Types
  <1>5. LinksInv'
    BY <1>1, <1>2, GoneDown DEF LinksInv
  <1>6. DirewolfInv'
    BY <1>1, <1>2, GoneDown DEF DirewolfInv, JobAsSet, UnitAsSet, Settled
  <1>7. QED
    BY <1>4, <1>5, <1>6 DEF Inv

\* The client goes from phase to phase with its login, and reads the settings at an attempt.
LEMMA IsStepsInv ==
  ASSUME SettingsConstants, Inv, IsSteps
  PROVE  Inv'
  <1>1. Types /\ LinksInv /\ DirewolfInv
    BY DEF Inv
  <1>2. UNCHANGED <<up, config, puts, conf, unit, jobs, worked, behind, radio>>
    BY DEF IsSteps, direwolf
  <1>3. /\ is \in [phase: Phases, login: Logins, verified: BOOLEAN]
        /\ is.verified => is.phase = "session"
        /\ config \in Configs /\ config.login \in Logins
    BY <1>1, ConfigType DEF Types
  <1>4. /\ is' \in [phase: Phases, login: Logins, verified: BOOLEAN]
        /\ is'.verified => is'.phase = "session"
        /\ is'.phase # "off" /\ is.phase \notin {"off", "dead"}
        /\ is'.phase \in {"connecting", "session"} =>
              \/ is'.login = config.login
              \/ is'.login = is.login /\ is.phase \in {"connecting", "session"}
    <2>1. CASE IsLogsIn
      BY <1>3, <2>1 DEF IsLogsIn, IsGoes, Phases
    <2>2. CASE IsFails
      BY <1>3, <2>2 DEF IsFails, IsGoes, Phases
    <2>3. CASE IsEnds
      BY <1>3, <2>3 DEF IsEnds, IsGoes, Phases
    <2>4. CASE IsDies
      BY <1>3, <2>4 DEF IsDies, IsGoes, Phases
    <2>5. CASE IsVerified
      BY <1>3, <2>5 DEF IsVerified, Phases
    <2>6. CASE IsTriesAgain
      BY <1>3, <2>6 DEF IsTriesAgain, Connecting, Phases
    <2>7. QED
      BY <2>1, <2>2, <2>3, <2>4, <2>5, <2>6 DEF IsSteps
  <1>5. Types'
    BY <1>1, <1>2, <1>4 DEF Types
  <1>6. IsRuns
    BY <1>4 DEF IsRuns
  <1>7. LinksInv'
    BY <1>1, <1>2, <1>4, <1>6 DEF LinksInv, PutWaits, PutLogsIn, Off
  <1>8. DirewolfInv'
    BY <1>1, <1>2 DEF DirewolfInv, JobAsSet, UnitAsSet, Settled
  <1>9. QED
    BY <1>5, <1>7, <1>8 DEF Inv

-----------------------------------------------------------------------------
\* The theorems

LEMMA NextInv == ASSUME SettingsConstants, Inv, [Next]_vars PROVE Inv'
  <1>1. CASE UNCHANGED vars
    BY <1>1 DEF vars, direwolf, Inv, Types, LinksInv, IsRuns, PutWaits, PutLogsIn, DirewolfInv,
                JobAsSet, UnitAsSet, Settled, Off
  <1>2. CASE Next
    BY <1>2, SaveInv, JobReturnsInv, JobRunsInv, CoreStartsInv, CoreStopsInv, ConfiguresInv,
       RebootInv, IsStepsInv DEF Next
  <1>3. QED
    BY <1>1, <1>2

LEMMA Invariance == ASSUME SettingsConstants PROVE Spec => []Inv
  <1>1. Init => Inv
    BY InitInv
  <1>2. Inv /\ [Next]_vars => Inv'
    BY NextInv
  <1>3. QED
    BY <1>1, <1>2, PTL DEF Spec

\* The settings, the PUTs, the jobs and the links keep their types (service.py:129-151).
THEOREM TypeCorrect == ASSUME SettingsConstants PROVE Spec => []TypeOK
  <1>1. ASSUME Inv PROVE TypeOK
    <2>1. Types
      BY <1>1 DEF Inv
    <2>2. is.phase \in Phases
      BY <2>1 DEF Types
    <2>3. QED
      BY <2>1, <2>2 DEF Types, TypeOK, PutState, Modems, Phases
  <1>2. QED
    BY <1>1, Invariance, PTL

\* While the core is up and nothing waits for systemctl the links are as set, in whatever order the
\* PUTs were saved and came back: each syncs with the settings of its return.  An APRS-IS task that
\* a too long line ended is the exception the property names (service.py:129-151, 261-289).
THEOREM LinksAsSet == ASSUME SettingsConstants PROVE Spec => []LinksFollowSettings
  <1>1. ASSUME Inv PROVE LinksFollowSettings
    <2>1. LinksInv /\ config.isOn \in BOOLEAN
      BY <1>1, ConfigType DEF Inv, Types
    <2>2. Quiet => up /\ ~PutWaits /\ ~PutLogsIn
      BY DEF Quiet, PutWaits, PutLogsIn
    <2>3. QED
      BY <2>1, <2>2 DEF LinksInv, LinksFollowSettings, IsRuns
  <1>2. QED
    BY <1>1, Invariance, PTL

\* While the core is up, the last job worked and neither direwolf.conf nor the unit is behind, a
\* managed Direwolf runs on the settings in force or, with the other radio, not at all, also
\* across restarts of the core and boots (service.py:92-97, 269-277; direwolf.py:57-118).
THEOREM DirewolfFollows == ASSUME SettingsConstants PROVE Spec => []DirewolfAsSet
  <1>1. Inv => DirewolfAsSet
    BY DEF Inv, DirewolfInv, DirewolfAsSet, UnitAsSet, Settled
  <1>2. QED
    BY <1>1, Invariance, PTL

-----------------------------------------------------------------------------
\* Clients.  The invariant is the property and the types of what it is about.

Phase == {"off", "waiting", "opening", "open", "closing"}
Connection == [phase: Phase, at: Places \cup {Nowhere}]

ClientsTypes ==
    /\ want \in [Client -> Places]
    /\ backend \in {Kiss, Ftm}
    /\ tcp \in [Tcp -> Connection]
    /\ ftm \in Connection

ClientsInv == ClientsTypes /\ OneBackend

LEMMA ConnectionTypes ==
  ASSUME ClientsTypes
  PROVE  /\ NotRunning \in Connection /\ Waiting \in Connection /\ Opened \in Connection
         /\ NotRunning.phase = "off" /\ Waiting.phase = "waiting"
         /\ Opened.phase \in {"open", "waiting"}
         /\ \A c \in Tcp: /\ At("opening", want[c]) \in Connection
                          /\ At("open", tcp[c].at) \in Connection
  BY DEF ClientsTypes, Client, Connection, Phase, NotRunning, Waiting, Opened, At

LEMMA ClientsInitInv == ASSUME ClientsConstants, ClientsInit PROVE ClientsInv
  <1>1. Kiss \in Tcp /\ Ftm # Kiss
    BY DEF ClientsConstants
  <1>2. NotRunning \in Connection /\ Waiting \in Connection
    BY DEF Connection, Phase, NotRunning, Waiting, At
  <1>3. ClientsTypes
    BY <1>2 DEF ClientsInit, ClientsTypes
  <1>4. OneBackend
    BY <1>1 DEF ClientsInit, OneBackend, NotRunning, Waiting, At
  <1>5. QED
    BY <1>3, <1>4 DEF ClientsInv

\* A task of a TCP client goes from one phase to another and is not over.
LEMMA TcpGoesInv ==
  ASSUME ClientsConstants, ClientsInv, NEW c \in Tcp, NEW from, NEW to \in Connection,
         TcpGoes(c, from, to), "off" \notin from, to.phase # "off"
  PROVE  ClientsInv'
  <1>1. tcp' = [tcp EXCEPT ![c] = to] /\ tcp[c].phase # "off"
    BY DEF TcpGoes
  <1>2. UNCHANGED <<want, backend, ftm, reopen, works>>
    BY DEF TcpGoes
  <1>3. ClientsTypes'
    BY <1>1, <1>2 DEF ClientsInv, ClientsTypes, Client
  <1>4. tcp'[Kiss].phase # "off" <=> tcp[Kiss].phase # "off"
    BY <1>1 DEF ClientsInv, ClientsTypes, ClientsConstants
  <1>5. OneBackend'
    BY <1>2, <1>4 DEF ClientsInv, OneBackend
  <1>6. QED
    BY <1>3, <1>5 DEF ClientsInv

LEMMA ChangesInv == ASSUME ClientsConstants, ClientsInv, Changes PROVE ClientsInv'
  <1>1. Kiss \in Tcp /\ Ftm # Kiss
    BY DEF ClientsConstants
  <1>2. ASSUME NEW c \in Tcp, NEW place \in Places, SetAddress(c, place) PROVE ClientsInv'
    <2>1. want' \in [Client -> Places]
      BY <1>2 DEF SetAddress, ClientsInv, ClientsTypes
    <2>2. tcp' \in [Tcp -> Connection] /\ \A d \in Tcp: tcp'[d].phase # "off" <=> tcp[d].phase # "off"
      <3>1. [tcp[c] EXCEPT !.phase = "closing"] \in Connection
        BY DEF ClientsInv, ClientsTypes, Connection, Phase
      <3>2. tcp' = tcp \/ (tcp[c].phase = "open" /\ tcp' = [tcp EXCEPT ![c] = [tcp[c] EXCEPT !.phase = "closing"]])
        BY <1>2 DEF SetAddress
      <3>3. [tcp[c] EXCEPT !.phase = "closing"].phase = "closing"
        BY DEF ClientsInv, ClientsTypes, Connection
      <3>4. QED
        BY <3>1, <3>2, <3>3 DEF ClientsInv, ClientsTypes
    <2>3. UNCHANGED <<backend, ftm>>
      BY <1>2 DEF SetAddress
    <2>4. QED
      BY <1>1, <2>1, <2>2, <2>3 DEF ClientsInv, ClientsTypes, OneBackend
  <1>3. ASSUME NEW place \in Places, SetDevice(place) PROVE ClientsInv'
    <2>1. want' \in [Client -> Places] /\ UNCHANGED <<backend, tcp, ftm>>
      BY <1>3 DEF SetDevice, ClientsInv, ClientsTypes
    <2>2. QED
      BY <2>1 DEF ClientsInv, ClientsTypes, OneBackend
  <1>4. ASSUME NEW new \in {Kiss, Ftm}, Select(new) PROVE ClientsInv'
    <2>1. /\ NotRunning \in Connection /\ Waiting \in Connection
          /\ NotRunning.phase = "off" /\ Waiting.phase = "waiting"
      BY ConnectionTypes DEF ClientsInv
    <2>2. /\ backend' = new /\ UNCHANGED want
          /\ tcp' = [tcp EXCEPT ![Kiss] = IF new = Kiss THEN Waiting ELSE NotRunning]
          /\ ftm' = IF new = Ftm THEN Waiting ELSE NotRunning
      BY <1>4 DEF Select
    <2>3. ClientsTypes'
      BY <1>1, <2>1, <2>2 DEF ClientsInv, ClientsTypes, Client
    <2>4. tcp'[Kiss] = IF new = Kiss THEN Waiting ELSE NotRunning
      BY <1>1, <2>2 DEF ClientsInv, ClientsTypes
    <2>5. OneBackend'
      BY <1>1, <2>1, <2>2, <2>4 DEF OneBackend
    <2>6. QED
      BY <2>3, <2>5 DEF ClientsInv
  <1>5. QED
    BY <1>2, <1>3, <1>4 DEF Changes

LEMMA ClientsNextInv ==
  ASSUME ClientsConstants, ClientsInv, [ClientsNext]_clientVars PROVE ClientsInv'
  <1>1. /\ Waiting \in Connection /\ Opened \in Connection
        /\ Waiting.phase = "waiting" /\ Opened.phase \in {"open", "waiting"}
        /\ \A c \in Tcp: /\ At("opening", want[c]) \in Connection
                         /\ At("open", tcp[c].at) \in Connection
    BY ConnectionTypes DEF ClientsInv
  <1>2. ASSUME NEW c \in Tcp, TcpOpens(c) \/ TcpConnects(c) \/ TcpRefused(c) \/ TcpEnds(c)
        PROVE  ClientsInv'
    <2>1. At("opening", want[c]).phase = "opening" /\ At("open", tcp[c].at).phase = "open"
      BY DEF At
    <2>2. CASE TcpOpens(c)
      BY <1>1, <2>1, <2>2, TcpGoesInv DEF TcpOpens
    <2>3. CASE TcpConnects(c)
      BY <1>1, <2>1, <2>3, TcpGoesInv DEF TcpConnects
    <2>4. CASE TcpRefused(c)
      BY <1>1, <2>4, TcpGoesInv DEF TcpRefused
    <2>5. CASE TcpEnds(c)
      BY <1>1, <2>5, TcpGoesInv DEF TcpEnds
    <2>6. QED
      BY <1>2, <2>2, <2>3, <2>4, <2>5
  <1>3. ASSUME ftm.phase # "off", ftm' \in {Opened, Waiting}, UNCHANGED <<want, backend, tcp>>
        PROVE  ClientsInv'
    BY <1>1, <1>3 DEF ClientsInv, ClientsTypes, OneBackend
  <1>4. CASE FtmOpens \/ FtmReopens
    BY <1>3, <1>4 DEF FtmOpens, FtmReopens, FtmGoes
  <1>5. CASE FtmLost
    BY <1>3, <1>5 DEF FtmLost
  <1>6. CASE Plugged \/ UNCHANGED clientVars
    BY <1>6 DEF Plugged, clientVars, ClientsInv, ClientsTypes, OneBackend
  <1>7. QED
    BY <1>2, <1>4, <1>5, <1>6, ChangesInv DEF ClientsNext, TcpSteps

\* Changing the radio leaves one reader of packets, the one of the radio chosen; losing a
\* connection, a port or an address leaves that task running (service.py:129-140).
THEOREM OneReader == ASSUME ClientsConstants PROVE ClientsSpec => []OneBackend
  <1>1. ClientsInit => ClientsInv
    BY ClientsInitInv
  <1>2. ClientsInv /\ [ClientsNext]_clientVars => ClientsInv'
    BY ClientsNextInv
  <1>3. ClientsInv => OneBackend
    BY DEF ClientsInv
  <1>4. QED
    BY <1>1, <1>2, <1>3, PTL DEF ClientsSpec

-----------------------------------------------------------------------------
\* Beacon: the inductive invariant

Courses == 0..359 \cup {NoCourse}
Fix == [motion: Motions \cup {NoMotion}, age: Never..(Stale + 1)]
LastBeacon == [age: Never..Longest, course: Courses]
PressState == [next: {"idle", "send", "tell"}, course: Courses]
Try == [age: Never..Longest, was: {"none", "sent", "refused"}, odd: BOOLEAN]

BeaconTypes ==
    /\ beaconConfig \in BeaconConfigs
    /\ fix \in Fix /\ fewSats \in BOOLEAN /\ sends \in BOOLEAN
    /\ last \in LastBeacon /\ hold \in 0..(Retry + Startup)
    /\ press \in PressState /\ tried \in Try

\* What is left of BEACON_RETRY_S is held back still.
RefusedInv == tried.was = "refused" => tried.age >= 0 /\ tried.age + hold >= Retry

\* The scheduler knows of the beacon that went out, or of a later one.
SentInv == tried.was = "sent" => last.age >= 0 /\ last.age <= tried.age

BeaconInv == BeaconTypes /\ RefusedInv /\ SentInv

-----------------------------------------------------------------------------
\* BeaconNumbers and arithmetic

LEMMA BeaconNumbers ==
  ASSUME BeaconConstants
  PROVE  /\ Stale \in Nat /\ Retry \in Nat /\ Startup \in Nat
         /\ \A c \in BeaconConfigs:
               /\ c.interval \in Nat /\ c.turnAngle \in Nat /\ c.turnSlope \in Nat
               /\ c.slowSpeed \in Nat /\ c.slowRate \in Nat /\ c.fastSpeed \in Nat
               /\ c.fastRate \in Nat /\ c.turnTime \in Nat
               /\ c.slowSpeed > 0 /\ c.fastSpeed > 0
  BY DEF BeaconConstants

LEMMA LongestBounds ==
  ASSUME BeaconConstants
  PROVE  Longest \in Nat /\ Longest >= Retry
  <1>1. \E n \in Waits: \A m \in Waits: m <= n
    BY DEF BeaconConstants
  <1>2. Longest \in Waits /\ \A m \in Waits: m <= Longest
    BY <1>1 DEF Longest
  <1>3. Waits \subseteq Nat
    <2>1. ASSUME NEW c \in BeaconConfigs PROVE WaitsOf(c) \subseteq Nat
      <3>1. c.fastRate * c.fastSpeed \in Nat /\ c.slowSpeed \in Nat /\ c.slowSpeed > 0
        BY BeaconNumbers
      <3>2. (c.fastRate * c.fastSpeed) \div c.slowSpeed \in Nat
        BY <3>1
      <3>3. QED
        BY <3>2, BeaconNumbers DEF WaitsOf
    <2>2. QED
      BY <2>1, BeaconNumbers DEF Waits
  <1>4. Retry \in Waits
    BY DEF Waits
  <1>5. QED
    BY <1>2, <1>3, <1>4

LEMMA MotionTypes ==
  ASSUME BeaconConstants, NEW m \in Motions \cup {NoMotion}
  PROVE  m.speed \in Nat /\ m.course \in Courses
  BY DEF BeaconConstants, NoMotion, Courses

\* Below the fast speed the beacon rate is slower than the fast one.
LEMMA SlowerThanFast ==
  ASSUME NEW a \in Nat, NEW s \in Nat, NEW r \in Nat, NEW f \in Nat, f > 0, s <= f, a * s >= r * f
  PROVE  a >= r
  <1> SUFFICES ASSUME a < r PROVE FALSE
    OBVIOUS
  <1>1. a + 1 <= r
    OBVIOUS
  <1>2. a * s <= a * f
    BY SMTT(30)
  <1>3. (a + 1) * f <= r * f
    BY <1>1, SMTT(30)
  <1>4. (a + 1) * f = a * f + f
    BY SMTT(30)
  <1>5. a * s \in Int /\ a * f \in Int /\ r * f \in Int
    OBVIOUS
  <1>6. QED
    BY <1>2, <1>3, <1>4, <1>5

\* The heading difference of the code is the smaller of the two turns.
LEMMA HeadingIsTurn ==
  ASSUME NEW a \in 0..359, NEW b \in 0..359
  PROVE  HeadingChange(a, b) = Turn(a, b)
  <1>1. CASE a = b
    BY <1>1 DEF HeadingChange, Turn
  <1>2. CASE a > b
    <2>1. (a - b) % 360 = a - b /\ (b - a) % 360 = 360 - (a - b)
      BY <1>2
    <2>2. QED
      BY <1>2, <2>1 DEF HeadingChange, Turn
  <1>3. CASE a < b
    <2>1. (b - a) % 360 = b - a /\ (a - b) % 360 = 360 - (b - a)
      BY <1>3
    <2>2. QED
      BY <1>3, <2>1 DEF HeadingChange, Turn
  <1>4. QED
    BY <1>1, <1>2, <1>3

LEMMA OlderType ==
  ASSUME NEW most \in Nat, NEW age \in Never..most
  PROVE  /\ Older(age, most) \in Never..most
         /\ age = Never => Older(age, most) = Never
         /\ age >= 0 => /\ Older(age, most) >= age
                        /\ age = most \/ Older(age, most) = age + 1
  BY DEF Older, Never

-----------------------------------------------------------------------------
\* Beacon: the invariant holds from the start, and through every step

LEMMA StartTypes ==
  ASSUME BeaconConstants
  PROVE  /\ NoFix \in Fix /\ NoPress \in PressState
         /\ [age |-> Never, course |-> NoCourse] \in LastBeacon /\ NoAttempt \in Try
         /\ \A n \in Nat: Never \in Never..n /\ 0 \in Never..n
         /\ Startup \in 0..(Retry + Startup) /\ Retry \in 0..(Retry + Startup)
  <1>1. \A n \in Nat: Never \in Never..n /\ 0 \in Never..n
    BY DEF Never
  <1>2. Stale + 1 \in Nat /\ Longest \in Nat /\ Retry \in Nat /\ Startup \in Nat
    BY BeaconNumbers, LongestBounds
  <1>3. Never \in Never..(Stale + 1) /\ Never \in Never..Longest
    BY <1>1, <1>2
  <1>4. NoCourse \in Courses
    BY DEF Courses
  <1>5. NoFix \in Fix
    BY <1>3 DEF NoFix, Fix
  <1>6. NoPress \in PressState
    BY <1>4 DEF NoPress, PressState
  <1>7. [age |-> Never, course |-> NoCourse] \in LastBeacon /\ NoAttempt \in Try
    BY <1>3, <1>4 DEF NoAttempt, LastBeacon, Try
  <1>8. QED
    BY <1>1, <1>2, <1>5, <1>6, <1>7

LEMMA BeaconInitInv == ASSUME BeaconConstants, BeaconInit PROVE BeaconInv
  <1>1. BeaconTypes
    BY StartTypes DEF BeaconInit, BeaconTypes
  <1>2. tried.was = "none"
    BY DEF BeaconInit, NoAttempt
  <1>3. QED
    BY <1>1, <1>2 DEF BeaconInv, RefusedInv, SentInv

\* The motion of the fix, or of none.
LEMMA MotionCourse == ASSUME BeaconConstants, BeaconTypes PROVE Motion.course \in Courses
  <1>1. fix.motion \in Motions \cup {NoMotion}
    BY DEF BeaconTypes, Fix
  <1>2. Motion \in Motions \cup {NoMotion}
    BY <1>1 DEF Motion
  <1>3. QED
    BY <1>2, MotionTypes

\* What nothing but the scheduler and its history depend on.
LEMMA PaceKept ==
  ASSUME BeaconInv, BeaconTypes', UNCHANGED <<last, hold, tried>>
  PROVE  BeaconInv'
  BY DEF BeaconInv, RefusedInv, SentInv

LEMMA BeaconTickInv == ASSUME BeaconConstants, BeaconInv, BeaconTick PROVE BeaconInv'
  <1>1. BeaconTypes /\ last \in LastBeacon /\ tried \in Try
    BY DEF BeaconInv, BeaconTypes
  <1>2. Longest \in Nat /\ Retry \in Nat /\ 0 \in Never..Longest /\ Retry \in 0..(Retry + Startup)
    BY BeaconNumbers, LongestBounds, StartTypes
  <1>3. UNCHANGED <<beaconConfig, fix, fewSats, press>> /\ Sends
    BY DEF BeaconTick
  <1>4. CASE /\ last' = [age |-> 0, course |-> Motion.course] /\ Attempt("sent")
             /\ UNCHANGED <<hold, sends>>
    <2>1. last' \in LastBeacon /\ last'.age = 0
      BY <1>2, <1>4, <1>1, MotionCourse DEF LastBeacon
    <2>2. tried' \in Try /\ tried'.was = "sent" /\ tried'.age = 0
      BY <1>1, <1>2, <1>4 DEF Attempt, Try
    <2>3. BeaconTypes'
      BY <1>1, <1>3, <1>4, <2>1, <2>2 DEF BeaconTypes
    <2>4. QED
      BY <2>1, <2>2, <2>3 DEF BeaconInv, RefusedInv, SentInv
  <1>5. CASE hold' = Retry /\ Attempt("refused") /\ sends' = FALSE /\ UNCHANGED last
    <2>1. tried' \in Try /\ tried'.was = "refused" /\ tried'.age = 0
      BY <1>1, <1>2, <1>5 DEF Attempt, Try
    <2>2. BeaconTypes'
      BY <1>1, <1>2, <1>3, <1>5, <2>1 DEF BeaconTypes
    <2>3. QED
      BY <1>2, <1>5, <2>1, <2>2 DEF BeaconInv, RefusedInv, SentInv
  <1>6. QED
    BY <1>3, <1>4, <1>5 DEF Sends

LEMMA PressedInv == ASSUME BeaconConstants, BeaconInv, Pressed PROVE BeaconInv'
  <1>1. BeaconTypes /\ SentInv /\ RefusedInv /\ press \in PressState
    BY DEF BeaconInv, BeaconTypes
  <1>2. Longest \in Nat /\ 0 \in Never..Longest /\ NoPress \in PressState
    BY LongestBounds, StartTypes
  <1>3. CASE Press
    <2>1. press' \in PressState
      BY <1>1, <1>3, MotionCourse DEF Press, PressState
    <2>2. QED
      BY <1>1, <1>3, <2>1, PaceKept DEF Press, BeaconTypes
  <1>4. CASE PressSends
    <2>1. press' \in PressState
      BY <1>1, <1>2, <1>4 DEF PressSends, PressState
    <2>2. QED
      BY <1>1, <1>4, <2>1, PaceKept DEF PressSends, BeaconTypes
  <1>5. CASE PressTells
    <2>1. /\ last' = [age |-> 0, course |-> press.course] /\ press' = NoPress
          /\ UNCHANGED <<beaconConfig, fix, fewSats, sends, hold, tried>>
      BY <1>5 DEF PressTells
    <2>2. last' \in LastBeacon /\ last'.age = 0
      BY <1>1, <1>2, <2>1 DEF LastBeacon, PressState
    <2>3. BeaconTypes'
      BY <1>1, <1>2, <2>1, <2>2 DEF BeaconTypes
    <2>4. tried.was = "sent" => tried.age >= 0
      <3>1. tried.age \in Int /\ last.age \in Int
        BY <1>1, <1>2 DEF BeaconTypes, Try, LastBeacon, Never
      <3>2. QED
        BY <1>1, <3>1 DEF SentInv
    <2>5. QED
      BY <1>1, <2>1, <2>2, <2>3, <2>4 DEF BeaconInv, RefusedInv, SentInv
  <1>6. QED
    BY <1>3, <1>4, <1>5 DEF Pressed

LEMMA GpsInv == ASSUME BeaconConstants, BeaconInv, Gps PROVE BeaconInv'
  <1>1. BeaconTypes /\ Stale + 1 \in Nat
    BY BeaconNumbers DEF BeaconInv
  <1>2. NoFix \in Fix /\ 0 \in Never..(Stale + 1)
    BY <1>1, StartTypes
  <1>3. \A m \in Motions: [motion |-> m, age |-> 0] \in Fix
    BY <1>2 DEF Fix
  <1>4. UNCHANGED <<beaconConfig, sends, last, hold, press, tried>>
    BY DEF Gps, NoReport, LinkLost, Report, Sky
  <1>5. fix' \in Fix /\ fewSats' \in BOOLEAN
    BY <1>1, <1>2, <1>3 DEF Gps, NoReport, LinkLost, Report, Sky, BeaconTypes
  <1>6. QED
    BY <1>1, <1>4, <1>5, PaceKept DEF BeaconTypes

LEMMA BeaconAdvanceInv == ASSUME BeaconConstants, BeaconInv, Advance PROVE BeaconInv'
  <1>1. /\ BeaconTypes /\ fix \in Fix /\ last \in LastBeacon /\ tried \in Try /\ hold \in 0..(Retry + Startup)
        /\ RefusedInv /\ SentInv
    BY DEF BeaconInv, BeaconTypes
  <1>2. /\ Stale + 1 \in Nat /\ Longest \in Nat /\ Retry \in Nat /\ Startup \in Nat
        /\ Longest >= Retry
    BY BeaconNumbers, LongestBounds
  <1>3. /\ fix' = [fix EXCEPT !.age = Older(fix.age, Stale + 1)]
        /\ last' = [last EXCEPT !.age = Older(last.age, Longest)]
        /\ tried' = [tried EXCEPT !.age = Older(tried.age, Longest)]
        /\ hold' = IF hold > 0 THEN hold - 1 ELSE 0
        /\ UNCHANGED <<beaconConfig, fewSats, sends, press>>
    BY DEF Advance
  <1>4. /\ fix.age \in Never..(Stale + 1) /\ last.age \in Never..Longest
        /\ tried.age \in Never..Longest
    BY <1>1 DEF Fix, LastBeacon, Try
  <1>5. Older(fix.age, Stale + 1) \in Never..(Stale + 1)
    BY <1>2, <1>4, OlderType
  <1>6. fix' \in Fix
    BY <1>1, <1>3, <1>5 DEF Fix
  <1>7. /\ Older(last.age, Longest) \in Never..Longest
        /\ last.age >= 0 => /\ Older(last.age, Longest) >= last.age
                            /\ last.age = Longest \/ Older(last.age, Longest) = last.age + 1
    BY <1>2, <1>4, OlderType
  <1>8. /\ Older(tried.age, Longest) \in Never..Longest
        /\ tried.age >= 0 => /\ Older(tried.age, Longest) >= tried.age
                             /\ tried.age = Longest \/ Older(tried.age, Longest) = tried.age + 1
    BY <1>2, <1>4, OlderType
  <1>9. last' \in LastBeacon /\ last'.age = Older(last.age, Longest)
    BY <1>1, <1>3, <1>7 DEF LastBeacon
  <1>10. tried' \in Try /\ tried'.age = Older(tried.age, Longest) /\ tried'.was = tried.was
    BY <1>1, <1>3, <1>8 DEF Try
  <1>11. hold' \in 0..(Retry + Startup) /\ hold' >= hold - 1
    BY <1>1, <1>2, <1>3
  <1>12. BeaconTypes'
    BY <1>1, <1>3, <1>6, <1>9, <1>10, <1>11 DEF BeaconTypes
  <1>13. last.age \in Int /\ tried.age \in Int /\ Older(last.age, Longest) \in Int
         /\ Older(tried.age, Longest) \in Int /\ last.age <= Longest /\ tried.age <= Longest
         /\ Older(last.age, Longest) <= Longest
    BY <1>2, <1>4, <1>7, <1>8 DEF Never
  <1>14. RefusedInv'
    BY <1>1, <1>2, <1>8, <1>10, <1>11, <1>13 DEF RefusedInv
  <1>15. SentInv'
    BY <1>1, <1>2, <1>7, <1>8, <1>9, <1>10, <1>13 DEF SentInv
  <1>16. QED
    BY <1>12, <1>14, <1>15 DEF BeaconInv

LEMMA BeaconRestartInv == ASSUME BeaconConstants, BeaconInv, Restart PROVE BeaconInv'
  <1>1. BeaconTypes /\ tried \in Try
    BY DEF BeaconInv, BeaconTypes
  <1>2. tried' \in Try /\ tried'.was = "none"
    BY <1>1, StartTypes DEF Restart, NoAttempt, Try
  <1>3. BeaconTypes'
    BY <1>1, <1>2, StartTypes DEF Restart, BeaconTypes
  <1>4. QED
    BY <1>2, <1>3 DEF BeaconInv, RefusedInv, SentInv

LEMMA BeaconNextInv == ASSUME BeaconConstants, BeaconInv, [BeaconNext]_beaconVars PROVE BeaconInv'
  <1>1. BeaconTypes
    BY DEF BeaconInv
  <1>2. CASE UNCHANGED beaconVars
    BY <1>1, <1>2, PaceKept DEF beaconVars, BeaconTypes
  <1>3. CASE Configure
    BY <1>1, <1>3, PaceKept DEF Configure, BeaconTypes
  <1>4. CASE LinkChange
    BY <1>1, <1>4, PaceKept DEF LinkChange, BeaconTypes
  <1>5. QED
    BY <1>2, <1>3, <1>4, BeaconTickInv, PressedInv, GpsInv, BeaconAdvanceInv, BeaconRestartInv DEF BeaconNext

LEMMA BeaconInvariance == ASSUME BeaconConstants PROVE BeaconSpec => []BeaconInv
  <1>1. BeaconInit => BeaconInv
    BY BeaconInitInv
  <1>2. BeaconInv /\ [BeaconNext]_beaconVars => BeaconInv'
    BY BeaconNextInv
  <1>3. QED
    BY <1>1, <1>2, PTL DEF BeaconSpec

-----------------------------------------------------------------------------
\* Beacon: the theorems

\* The settings, the fix, the ages and the hold stay in their ranges (beacon.py:46-78).
THEOREM BeaconTypeCorrect == ASSUME BeaconConstants PROVE BeaconSpec => []BeaconTypeOK
  <1>1. BeaconInv => BeaconTypeOK
    BY DEF BeaconInv, BeaconTypes, BeaconTypeOK, Fix, LastBeacon, PressState
  <1>2. QED
    BY <1>1, BeaconInvariance, PTL

\* An automatic attempt after one that went out: the scheduler's own conditions, for the age of
\* the last beacon, which is no older than the attempt.
LEMMA DueIsSpaced ==
  ASSUME BeaconConstants, BeaconInv, BeaconTick, tried.was = "sent"
  PROVE  IF Current /\ beaconConfig.smart
         THEN \/ tried.age >= IF Moving THEN beaconConfig.fastRate ELSE beaconConfig.slowRate
              \/ Moving /\ Turned /\ tried.age >= beaconConfig.turnTime
         ELSE beaconConfig.interval > 0 /\ tried.age >= beaconConfig.interval
  <1> DEFINE c == beaconConfig
             speed == fix.motion.speed
  <1>1. BeaconTypes /\ last.age >= 0 /\ last.age <= tried.age
    BY DEF BeaconInv, SentInv
  <1>2. c \in BeaconConfigs /\ Longest \in Nat
    BY <1>1, LongestBounds DEF BeaconTypes
  <1>3. /\ c.interval \in Nat /\ c.slowSpeed \in Nat /\ c.slowRate \in Nat /\ c.fastSpeed \in Nat
        /\ c.fastSpeed > 0 /\ c.fastRate \in Nat /\ c.turnTime \in Nat
    BY <1>2, BeaconNumbers
  <1>4. last.age \in Nat /\ tried.age \in Nat /\ last.course \in Courses
    BY <1>1, <1>2 DEF BeaconTypes, LastBeacon, Try, Never
  <1>5. speed \in Nat /\ fix.motion.course \in Courses
    BY <1>1, MotionTypes DEF BeaconTypes, Fix
  <1>6. ~First
    BY <1>4 DEF First, Never
  <1>7. Current => Motion = fix.motion /\ (Moving <=> speed >= c.slowSpeed)
    BY DEF Motion, Moving
  <1>8. CASE Current /\ c.smart /\ RateOver(speed)
    <2>1. CASE speed < c.slowSpeed
      BY <1>1, <1>3, <1>4, <1>5, <1>7, <1>8, <2>1 DEF RateOver
    <2>2. CASE speed >= c.slowSpeed /\ speed > c.fastSpeed
      BY <1>1, <1>3, <1>4, <1>5, <1>7, <1>8, <2>2 DEF RateOver
    <2>3. CASE speed >= c.slowSpeed /\ speed <= c.fastSpeed
      <3>1. last.age * speed >= c.fastRate * c.fastSpeed
        BY <1>3, <1>5, <1>8, <2>3 DEF RateOver
      <3> HIDE DEF speed, c
      <3>2. last.age >= c.fastRate
        BY <1>3, <1>4, <1>5, <2>3, <3>1, SlowerThanFast
      <3>3. QED
        BY <1>1, <1>3, <1>4, <1>7, <1>8, <2>3, <3>2 DEF c
    <2>4. QED
      BY <1>3, <1>5, <2>1, <2>2, <2>3
  <1>9. CASE Current /\ c.smart /\ Corner(fix.motion)
    <2>1. /\ Moving /\ NoCourse \notin {Motion.course, last.course}
          /\ last.age >= c.turnTime
          /\ (HeadingChange(Motion.course, last.course) - c.turnAngle) * Motion.speed > c.turnSlope
      BY <1>7, <1>9 DEF Corner
    <2>2. Motion.course \in 0..359 /\ last.course \in 0..359
      BY <1>4, <1>5, <1>7, <1>9, <2>1 DEF Courses
    <2>3. Turned
      BY <2>1, <2>2, HeadingIsTurn DEF Turned
    <2>4. QED
      BY <1>1, <1>3, <1>4, <1>9, <2>1, <2>3
  <1>10. CASE ~(Current /\ c.smart) /\ DueFixed
    BY <1>1, <1>3, <1>4, <1>6, <1>10 DEF DueFixed
  <1>11. QED
    BY <1>6, <1>8, <1>9, <1>10 DEF BeaconTick, DueSmart

\* After a refused attempt the next automatic one waits BEACON_RETRY_S; after one that went
\* out, the slow rate, the fast rate, a turn and turn_time, or the fixed interval, as the
\* settings and the fix are by then: for SmartBeaconing parameters in any order, and whatever
\* beacons on request, lost fixes and changed settings come in between (beacon.py:19-39, 51-78,
\* service.py:326-361).
THEOREM KeepsPace == ASSUME BeaconConstants PROVE BeaconSpec => BeaconsSpaced
  <1>1. ASSUME BeaconInv, [BeaconNext]_beaconVars
        PROVE  [tried'.odd # tried.odd => SpacedNow \/ tried.age = Never]_beaconVars
    <2>1. BeaconTypes /\ Retry \in Nat /\ Longest \in Nat
      BY <1>1, BeaconNumbers, LongestBounds DEF BeaconInv
    <2>2. CASE UNCHANGED beaconVars
      BY <2>2
    <2>3. CASE tried'.odd = tried.odd
      BY <2>3
    <2>4. CASE BeaconTick
      <3>1. hold = 0
        BY <2>4 DEF BeaconTick, DueSmart, DueFixed
      <3>2. tried.age \in Int
        BY <2>1 DEF BeaconTypes, Try, Never
      <3>3. tried.was = "refused" => tried.age >= Retry
        BY <1>1, <2>1, <3>1, <3>2 DEF BeaconInv, RefusedInv
      <3>4. SpacedNow
        BY <1>1, <2>4, <3>3, DueIsSpaced DEF SpacedNow
      <3>5. QED
        BY <3>4
    <2>5. CASE BeaconNext /\ ~BeaconTick
      <3>1. tried'.odd = tried.odd
        <4>1. CASE Advance
          BY <2>1, <4>1 DEF Advance, BeaconTypes, Try
        <4>2. CASE Restart
          BY <4>2 DEF Restart, NoAttempt
        <4>3. QED
          BY <2>5, <4>1, <4>2 DEF BeaconNext, Pressed, Press, PressSends, PressTells, Gps, NoReport,
                                  LinkLost, Report, Sky, Configure, LinkChange
      <3>2. QED
        BY <3>1
    <2>6. QED
      BY <1>1, <2>2, <2>4, <2>5
  <1>2. QED
    BY <1>1, BeaconInvariance, PTL DEF BeaconSpec, BeaconsSpaced
===============================================================================
