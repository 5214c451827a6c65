---------------------------- MODULE InstallHost -----------------------------
(***************************************************************************)
(* What `deploy` does to ONE host on which several SeaweedFS servers run:  *)
(* the script install.sh, once per server instance, in a session of its    *)
(* own.  All instances share the executable /usr/local/bin/weed; each has  *)
(* an options file, a systemd unit and a process.  The sessions of masters *)
(* come one after the other, then those of volume and filer servers run at *)
(* the same time, because DeployCluster starts a goroutine for each.       *)
(*                                                                         *)
(* A rollout is one run of the command; the operator may run it again,     *)
(* with another version, options or flags, or just because it failed.      *)
(*                                                                         *)
(* tar and systemd are not in the repository.  tar replaces a file by      *)
(* unlinking it and writing a new one, so a file being unpacked is visible *)
(* half-written, and the writer of a file unlinked meanwhile goes on       *)
(* writing to nowhere.  systemd starts a unit whether or not its           *)
(* executable can run, and tries again later (Restart=on-failure).         *)
(***************************************************************************)
EXTENDS Naturals, FiniteSets

CONSTANTS
  Instance,    \* the server instances on the host
  Component,   \* the instances of each component the host has servers of
  Master,      \* those that are masters
  Version,     \* the SeaweedFS releases the operator deploys
  Config,      \* the contents an options file can have
  None,        \* no file, no version, no content
  MaxRollouts, \* bound: runs of the command
  MaxFailures  \* bound: sessions that fail and reboots

ASSUME InstanceAssumption ==
  /\ IsFiniteSet(Instance) /\ Instance # {}
  /\ Component \subseteq (SUBSET Instance) \ {{}}
  /\ Master \subseteq Instance
ASSUME NoneAssumption == None \notin Version /\ None \notin Config
ASSUME RolloutBounds == MaxRollouts \in Nat \ {0} /\ MaxFailures \in Nat

VARIABLES
  weed,      \* the file /usr/local/bin/weed: version, whole or not, writer
  options,   \* options[i]: the content of instance i's options file
  unit,      \* unit[i]: is its service file there?
  enabled,   \* enabled[i]: is the service enabled?
  proc,      \* proc[i]: the state of its process and what it was started with
  pc,        \* pc[i]: where the session of i is in install.sh
  pre,       \* pre[i]: PRE_INSTALL_HASHES
  rollout,   \* what the current or last run of the command asks for
  failures,  \* the sessions that failed and the reboots so far
  rollouts   \* the runs of the command so far

host == <<weed, options, unit, enabled, proc>>
vars == <<host, pc, pre, rollout, failures, rollouts>>

File   == [ver : Version \union {None}, whole : BOOLEAN, by : Instance \union {None}]
NoFile == [ver |-> None, whole |-> FALSE, by |-> None]

Stopped    == [state |-> "stopped", ver |-> None, options |-> None]
Failing    == [state |-> "failing", ver |-> None, options |-> None]
Process    == [state : {"stopped", "failing", "running"},
               ver : Version \union {None}, options : Config \union {None}]

Where == {"idle", "config", "check", "fetch", "unpack", "unit", "enable", "start",
          "ok", "failed"}

(* What the operator asks for: a version, the options of the cluster file, *)
(* all components or one, --restart, and --skipEnable or --skipStart.      *)
Request == [ver : Version, options : [Instance -> Config],
            targets : {Instance} \union Component,
            restart : BOOLEAN, skip : {"nothing", "start", "enable"}]

NoPre == [weed |-> <<None, FALSE>>, options |-> None, unit |-> FALSE]

(* get_installed_hashes: a hash tells contents apart, missing files are    *)
(* left out.                                                               *)
Hashes(i) ==
  [weed |-> <<weed.ver, weed.whole>>, options |-> options[i], unit |-> unit[i]]

Executable == weed.ver # None /\ weed.whole

(* systemd starts the service: the process runs what is there now. *)
Launched(i) ==
  IF Executable THEN [state |-> "running", ver |-> weed.ver, options |-> options[i]]
                ELSE Failing

Ended(i)  == pc[i] \in {"ok", "failed"}
Open(i)   == pc[i] \notin {"idle", "ok", "failed"}
Targets   == rollout.targets

MasterFailed == \E i \in Targets \cap Master : pc[i] = "failed"

(* The command has returned. *)
Quiet ==
  /\ \A i \in Targets : ~ Open(i)
  /\ MasterFailed \/ \A i \in Targets : Ended(i)

(* A fresh host, and the first run of the command. *)
Init ==
  /\ weed = NoFile
  /\ options = [i \in Instance |-> None]
  /\ unit = [i \in Instance |-> FALSE]
  /\ enabled = [i \in Instance |-> FALSE]
  /\ proc = [i \in Instance |-> Stopped]
  /\ pc = [i \in Instance |-> "idle"]
  /\ pre = [i \in Instance |-> NoPre]
  /\ rollout \in Request
  /\ failures = 0
  /\ rollouts = 1

Goto(i, w) == pc' = [pc EXCEPT ![i] = w]

-----------------------------------------------------------------------------
(* The operator runs the command again. *)
Deploy ==
  /\ Quiet /\ rollouts < MaxRollouts
  /\ rollouts' = rollouts + 1
  /\ rollout' \in Request
  /\ pc' = [i \in Instance |-> "idle"]
  /\ pre' = [i \in Instance |-> NoPre]
  /\ UNCHANGED <<host, failures>>

(* setup_env: the hashes before the installation. *)
Begin(i) ==
  /\ i \in Targets /\ pc[i] = "idle"
  /\ ~ MasterFailed
  /\ IF i \in Master THEN \A j \in Targets \cap Master : ~ Open(j)
                     ELSE \A j \in Targets \cap Master : pc[j] = "ok"
  /\ pre' = [pre EXCEPT ![i] = Hashes(i)]
  /\ Goto(i, "config")
  /\ UNCHANGED <<host, rollout, failures, rollouts>>

(* Mutant: the options of every instance are copied to each. *)
CopyAllConfigs(i) ==
  /\ pc[i] = "config"
  /\ options' = [options EXCEPT ![i] = rollout.options]
  /\ Goto(i, "check")
  /\ UNCHANGED <<weed, unit, enabled, proc, pre, rollout, failures, rollouts>>

(* create_user_and_config, before the download.  A new options file is     *)
(* followed by the writing of shell.toml, which may fail.                  *)
CopyConfig(i) ==
  /\ pc[i] = "config"
  /\ options' = [options EXCEPT ![i] = rollout.options[i]]
  /\ \/ Goto(i, "check") /\ UNCHANGED failures
     \/ /\ options[i] # rollout.options[i] /\ failures < MaxFailures
        /\ failures' = failures + 1
        /\ Goto(i, "failed")
  /\ UNCHANGED <<weed, unit, enabled, proc, pre, rollout, rollouts>>

(* Mutant: the version is read off the file, which is not executed. *)
CheckVersionOfFile(i) ==
  /\ pc[i] = "check"
  /\ Goto(i, IF weed.ver = rollout.ver THEN "unit" ELSE "fetch")
  /\ UNCHANGED <<host, pre, rollout, failures, rollouts>>

(* download_and_install: `weed version` is asked first. *)
CheckVersion(i) ==
  /\ pc[i] = "check"
  /\ Goto(i, IF Executable /\ weed.ver = rollout.ver THEN "unit" ELSE "fetch")
  /\ UNCHANGED <<host, pre, rollout, failures, rollouts>>

BeginUnpack(i) ==
  /\ pc[i] = "fetch"
  /\ weed' = [ver |-> rollout.ver, whole |-> FALSE, by |-> i]
  /\ Goto(i, "unpack")
  /\ UNCHANGED <<options, unit, enabled, proc, pre, rollout, failures, rollouts>>

EndUnpack(i) ==
  /\ pc[i] = "unpack"
  /\ weed' = IF weed.by = i THEN [weed EXCEPT !.whole = TRUE, !.by = None] ELSE weed
  /\ Goto(i, "unit")
  /\ UNCHANGED <<options, unit, enabled, proc, pre, rollout, failures, rollouts>>

(* create_systemd_service_file *)
WriteUnit(i) ==
  /\ pc[i] = "unit"
  /\ unit' = [unit EXCEPT ![i] = TRUE]
  /\ Goto(i, "enable")
  /\ UNCHANGED <<weed, options, enabled, proc, pre, rollout, failures, rollouts>>

(* Mutant: SKIP_START is looked at before the service is enabled. *)
EnableIfStarted(i) ==
  /\ pc[i] = "enable"
  /\ IF rollout.skip # "nothing"
       THEN Goto(i, "ok") /\ UNCHANGED enabled
       ELSE Goto(i, "start") /\ enabled' = [enabled EXCEPT ![i] = TRUE]
  /\ UNCHANGED <<weed, options, unit, proc, pre, rollout, failures, rollouts>>

(* systemd_enable_and_start: SKIP_ENABLE returns before the start too. *)
Enable(i) ==
  /\ pc[i] = "enable"
  /\ IF rollout.skip = "enable"
       THEN Goto(i, "ok") /\ UNCHANGED enabled
       ELSE /\ enabled' = [enabled EXCEPT ![i] = TRUE]
            /\ Goto(i, IF rollout.skip = "start" THEN "ok" ELSE "start")
  /\ UNCHANGED <<weed, options, unit, proc, pre, rollout, failures, rollouts>>

Launch(i) ==
  /\ proc' = [proc EXCEPT ![i] = Launched(i)]
  /\ Goto(i, "ok")
  /\ UNCHANGED <<weed, options, unit, enabled, pre, rollout, failures, rollouts>>

Start(i) ==
  /\ pc[i] = "start" /\ proc[i].state # "running"
  /\ Launch(i)

(* Mutants: the hashes are not compared; FORCE_RESTART is not looked at. *)
RestartAnyway(i) ==
  /\ pc[i] = "start" /\ proc[i].state = "running"
  /\ Launch(i)

SkipForcedRestart(i) ==
  /\ pc[i] = "start" /\ proc[i].state = "running"
  /\ pre[i] = Hashes(i)
  /\ Goto(i, "ok")
  /\ UNCHANGED <<host, pre, rollout, failures, rollouts>>

(* Two half-written executables may or may not have the same hash. *)
Restart(i) ==
  /\ pc[i] = "start" /\ proc[i].state = "running"
  /\ rollout.restart \/ pre[i] # Hashes(i) \/ (weed.ver # None /\ ~ weed.whole)
  /\ Launch(i)

SkipRestart(i) ==
  /\ pc[i] = "start" /\ proc[i].state = "running"
  /\ ~ rollout.restart /\ pre[i] = Hashes(i)
  /\ Goto(i, "ok")
  /\ UNCHANGED <<host, pre, rollout, failures, rollouts>>

(* Any command of the script, or the connection, fails: `set -e`. *)
Fail(i) ==
  /\ Open(i) /\ failures < MaxFailures
  /\ failures' = failures + 1
  /\ Goto(i, "failed")
  /\ UNCHANGED <<host, pre, rollout, rollouts>>

(* systemd tries a failing service again. *)
Retry(i) ==
  /\ proc[i].state = "failing"
  /\ proc' = [proc EXCEPT ![i] = Launched(i)]
  /\ UNCHANGED <<weed, options, unit, enabled, pc, pre, rollout, failures, rollouts>>

(* The host reboots: its sessions break off, and systemd starts what is    *)
(* enabled.                                                                *)
Reboot ==
  /\ failures < MaxFailures
  /\ failures' = failures + 1
  /\ pc' = [i \in Instance |-> IF Open(i) THEN "failed" ELSE pc[i]]
  /\ weed' = [weed EXCEPT !.by = None]
  /\ proc' = [i \in Instance |-> IF enabled[i] THEN Launched(i) ELSE Stopped]
  /\ UNCHANGED <<options, unit, enabled, pre, rollout, rollouts>>

Session(i) ==
  \/ Begin(i) \/ CopyConfig(i) \/ CheckVersion(i) \/ BeginUnpack(i) \/ EndUnpack(i)
  \/ WriteUnit(i) \/ Enable(i) \/ Start(i) \/ Restart(i) \/ SkipRestart(i)

(* The operator is content: nothing else happens. *)
Content == Quiet /\ UNCHANGED vars

Next ==
  \/ Deploy \/ Reboot
  \/ \E i \in Instance : Session(i) \/ Fail(i) \/ Retry(i)
  \/ Content

Spec == Init /\ [][Next]_vars

(* A script that runs goes on, and systemd goes on trying. *)
FairSpec ==
  /\ Spec
  /\ \A i \in Instance : WF_vars(Session(i)) /\ WF_vars(Retry(i))

-----------------------------------------------------------------------------
Succeeded == \A i \in Targets : pc[i] = "ok"

(* Instance i runs what the rollout asks for. *)
Current(i) ==
  proc[i] = [state |-> "running", ver |-> rollout.ver, options |-> rollout.options[i]]

TypeOK ==
  /\ weed \in File
  /\ options \in [Instance -> Config \union {None}]
  /\ unit \in [Instance -> BOOLEAN]
  /\ enabled \in [Instance -> BOOLEAN]
  /\ proc \in [Instance -> Process]
  /\ pc \in [Instance -> Where]
  /\ pre \in [Instance -> [weed : (Version \union {None}) \X BOOLEAN,
                          options : Config \union {None}, unit : BOOLEAN]]
  /\ rollout \in Request
  /\ failures \in 0..MaxFailures
  /\ rollouts \in 1..MaxRollouts

(* After a rollout whose sessions all succeeded the host has the whole     *)
(* executable of the version asked for and every instance its files,       *)
(* although the sessions unpack over each other.                           *)
InstalledOnSuccess ==
  Succeeded =>
    /\ Executable /\ weed.ver = rollout.ver
    /\ \A i \in Targets : options[i] = rollout.options[i] /\ unit[i]

(* The first rollout of a host, and later every one with --restart, brings *)
(* all its instances up on what it asked for when its sessions succeeded,  *)
(* even those started while a sibling was unpacking the executable.        *)
RolloutConverges ==
  (Succeeded /\ rollout.skip = "nothing" /\ (rollouts = 1 \/ rollout.restart))
    ~> ((\A i \in Targets : Current(i)) \/ ~ Succeeded)

(* After a rollout that succeeded, and did not skip enabling, a reboot of  *)
(* the host brings every instance up on what was asked for, even those     *)
(* whose restart was skipped although a sibling had replaced the           *)
(* executable, and those that were not to be started.                      *)
RebootBringsUp ==
  [][Reboot /\ Succeeded /\ rollout.skip # "enable" =>
       \A i \in Targets : Current(i)']_vars

(* What a session finds when it has nothing to change. *)
Wanted(i) ==
  [weed |-> <<rollout.ver, TRUE>>, options |-> rollout.options[i], unit |-> TRUE]

(* A rollout that finds nothing to change restarts nothing, unless told to *)
(* with --restart: a service is restarted only when one of the sessions so *)
(* far, its own or that of a sibling, found a file it had to change.       *)
NoNeedlessRestart ==
  [][\A i \in Instance : Restart(i) /\ ~ rollout.restart =>
       \E j \in Targets : pc[j] # "idle" /\ pre[j] # Wanted(j)]_vars

(* A rollout that succeeded, and was to start the services, leaves every   *)
(* running process current: "No change detected so skipping systemd        *)
(* service" is said of processes that need no restart only.                *)
DeployedIsRunning ==
  Succeeded /\ rollout.skip = "nothing" =>
    \A i \in Targets : proc[i].state = "running" => Current(i)

=============================================================================
