---------------------------- MODULE InstallEnvoy ----------------------------
(***************************************************************************)
(* What `deploy` does to ONE host on which several envoy proxies run: the  *)
(* script install_envoy.sh, once per proxy, one proxy after the other, and *)
(* none after one that failed.  The proxies share the executable           *)
(* /usr/local/bin/envoy, each may ask for its own version of it, and each  *)
(* has a configuration, a systemd unit and a process.                      *)
(*                                                                         *)
(* It differs from install.sh (InstallHost) where it matters: the          *)
(* executable is downloaded to the session's directory and moved, the      *)
(* script does not look whether the service runs, and the unit has a start *)
(* limit, so that systemd gives up on a proxy that does not start.         *)
(***************************************************************************)
EXTENDS Naturals

CONSTANTS
  NProxy,      \* the proxies of the host, in the order of the cluster file
  Version,     \* the releases a proxy may ask for, or be given as the latest
  Config,      \* the contents a configuration can have
  None,        \* no file, no content
  Damaged,     \* an executable that mv left half-copied
  MaxRollouts, \* bound: runs of the command
  MaxFailures  \* bound: sessions that fail

ASSUME NProxyAssumption == NProxy \in Nat \ {0}
ASSUME NoneAssumption ==
  None \notin Version \union Config /\ Damaged \notin Version \union {None}
ASSUME RolloutBounds == MaxRollouts \in Nat \ {0} /\ MaxFailures \in Nat

Proxy == 1..NProxy

VARIABLES
  binary,    \* /usr/local/bin/envoy
  config,    \* config[p]: the content of its envoy.yaml
  unit,      \* unit[p]: is its service file there?
  proc,      \* proc[p]: its process and what it was started with
  turn,      \* the proxy whose session runs
  pc,        \* where that session is, or how the rollout ended
  pre,       \* PRE_INSTALL_HASHES
  request,   \* what the current or last rollout asks for
  smooth,    \* nothing skipped, no version mixed, nothing failed so far (history)
  repeats,   \* asks this rollout for the same as the last, which was ok? (history)
  failures, rollouts

host    == <<binary, config, unit, proc>>
history == <<smooth, repeats>>
vars    == <<host, turn, pc, pre, request, history, failures, rollouts>>

Stopped == [state |-> "stopped", ver |-> None, config |-> None]
GivenUp == [state |-> "failed", ver |-> None, config |-> None]
Process == {Stopped, GivenUp}
             \union [state : {"running"}, ver : Version, config : Config]

(* Envoy's version per proxy (its own, or the latest release looked up at  *)
(* the start), the configuration made for each, and the flags.             *)
Request == [ver : [Proxy -> Version], config : [Proxy -> Config],
            restart : BOOLEAN, skip : {"nothing", "start", "enable"}]

Uniform(r) == \A p, q \in Proxy : r.ver[p] = r.ver[q]

(* get_installed_hashes *)
Hashes(p) == <<binary, config[p], unit[p]>>

(* systemd starts the unit, three times at most. *)
Launched(p) ==
  IF binary \in Version /\ config[p] # None
    THEN [state |-> "running", ver |-> binary, config |-> config[p]]
    ELSE GivenUp

Init ==
  /\ binary = None
  /\ config = [p \in Proxy |-> None]
  /\ unit = [p \in Proxy |-> FALSE]
  /\ proc = [p \in Proxy |-> Stopped]
  /\ turn = 1 /\ pc = "begin"
  /\ pre = <<None, None, FALSE>>
  /\ request \in Request
  /\ smooth = (Uniform(request) /\ request.skip = "nothing")
  /\ repeats = FALSE
  /\ failures = 0 /\ rollouts = 1

-----------------------------------------------------------------------------
(* The operator runs the command again. *)
Deploy ==
  /\ pc \in {"ok", "failed"} /\ rollouts < MaxRollouts
  /\ rollouts' = rollouts + 1
  /\ request' \in Request
  /\ smooth' = (smooth /\ Uniform(request') /\ request'.skip = "nothing")
  /\ repeats' = (pc = "ok" /\ request'.ver = request.ver /\ request'.config = request.config)
  /\ turn' = 1 /\ pc' = "begin"
  /\ UNCHANGED <<host, pre, failures>>

(* setup_env *)
Begin(p) ==
  /\ pc = "begin"
  /\ pre' = Hashes(p)
  /\ pc' = "config"
  /\ UNCHANGED <<host, turn, request, history, failures, rollouts>>

(* Mutant: the files of every proxy are copied. *)
CopyConfigDir(p) ==
  /\ pc = "config"
  /\ config' = [config EXCEPT ![p] = request.config]
  /\ pc' = "binary"
  /\ UNCHANGED <<binary, unit, proc, turn, pre, request, history, failures, rollouts>>

(* create_user_and_config *)
CopyConfig(p) ==
  /\ pc = "config"
  /\ config' = [config EXCEPT ![p] = request.config[p]]
  /\ pc' = "binary"
  /\ UNCHANGED <<binary, unit, proc, turn, pre, request, history, failures, rollouts>>

(* Mutant: any executable will do. *)
FetchIfMissing(p) ==
  /\ pc = "binary"
  /\ binary' = IF binary \in Version THEN binary ELSE request.ver[p]
  /\ pc' = "unit"
  /\ UNCHANGED <<config, unit, proc, turn, pre, request, history, failures, rollouts>>

(* download_and_install: unless the executable says it is that version,    *)
(* another one is downloaded and moved in its place.                       *)
Fetch(p) ==
  /\ pc = "binary"
  /\ binary' = request.ver[p]
  /\ pc' = "unit"
  /\ UNCHANGED <<config, unit, proc, turn, pre, request, history, failures, rollouts>>

(* create_systemd_service_file *)
WriteUnit(p) ==
  /\ pc = "unit"
  /\ unit' = [unit EXCEPT ![p] = TRUE]
  /\ pc' = "start"
  /\ UNCHANGED <<binary, config, proc, turn, pre, request, history, failures, rollouts>>

(* Mutants of the test before the restart. *)
AlwaysRestarts(p) == TRUE
RestartsOnChange(p) == request.skip = "nothing" /\ pre # Hashes(p)

(* systemd_enable_and_start: --skipEnable and --skipStart return before,   *)
(* and so do unchanged hashes, whether or not the service runs.            *)
Restarts(p) ==
  request.skip = "nothing" /\ (request.restart \/ pre # Hashes(p))

(* The session ends and the next proxy's begins. *)
EndSession(p) ==
  /\ pc = "start"
  /\ proc' = IF Restarts(p) THEN [proc EXCEPT ![p] = Launched(p)] ELSE proc
  /\ IF p < NProxy THEN turn' = p + 1 /\ pc' = "begin"
                   ELSE pc' = "ok" /\ UNCHANGED turn
  /\ UNCHANGED <<binary, config, unit, pre, request, history, failures, rollouts>>

(* A command fails, or the session: mv may leave half an executable.       *)
Fail(p) ==
  /\ pc \notin {"ok", "failed"} /\ failures < MaxFailures
  /\ failures' = failures + 1
  /\ pc' = "failed"
  /\ smooth' = FALSE
  /\ binary' \in {binary} \union (IF pc = "binary" /\ binary # request.ver[p] THEN {Damaged} ELSE {})
  /\ UNCHANGED <<config, unit, proc, turn, pre, request, repeats, rollouts>>

(* A proxy dies and systemd starts it again with the files there are now.  *)
Die(p) ==
  /\ proc[p].state = "running"
  /\ proc' = [proc EXCEPT ![p] = Launched(p)]
  /\ UNCHANGED <<binary, config, unit, turn, pc, pre, request, history, failures, rollouts>>

Session(p) ==
  \/ Begin(p) \/ CopyConfig(p) \/ Fetch(p) \/ WriteUnit(p) \/ EndSession(p) \/ Fail(p)

Content == pc \in {"ok", "failed"} /\ UNCHANGED vars

Next ==
  \/ Deploy
  \/ Session(turn)
  \/ \E p \in Proxy : Die(p)
  \/ Content

Spec == Init /\ [][Next]_vars

-----------------------------------------------------------------------------
TypeOK ==
  /\ binary \in Version \union {None, Damaged}
  /\ config \in [Proxy -> Config \union {None}]
  /\ unit \in [Proxy -> BOOLEAN]
  /\ proc \in [Proxy -> Process]
  /\ turn \in Proxy
  /\ pc \in {"begin", "config", "binary", "unit", "start", "ok", "failed"}
  /\ pre \in (Version \union {None, Damaged}) \X (Config \union {None}) \X BOOLEAN
  /\ request \in Request
  /\ smooth \in BOOLEAN /\ repeats \in BOOLEAN
  /\ failures \in 0..MaxFailures /\ rollouts \in 1..MaxRollouts

Current(p) ==
  proc[p] = [state |-> "running", ver |-> request.ver[p], config |-> request.config[p]]

(* The first rollout of a host, and every one with --restart, leaves every *)
(* proxy running what was asked for, also after rollouts that failed half  *)
(* way, and although the proxies share the executable, provided they ask   *)
(* for the same version of it.                                             *)
ForcedRolloutConverges ==
  pc = "ok" /\ request.skip = "nothing" /\ Uniform(request) /\ (rollouts = 1 \/ request.restart)
    => \A p \in Proxy : Current(p)

(* As long as nothing failed, nothing was skipped and no versions were     *)
(* mixed, every rollout leaves the FIRST proxy of the host running what    *)
(* was asked for, and every one its configuration.  The others may keep    *)
(* the old version: at the start of their sessions the executable is new.  *)
FirstProxyFollows ==
  pc = "ok" /\ smooth =>
    /\ Current(1)
    /\ \A p \in Proxy : proc[p].state = "running" /\ proc[p].config = request.config[p]

(* Repeating a rollout that succeeded is harmless: without --restart it    *)
(* starts and restarts nothing.  It is not when the proxies ask for        *)
(* different versions, which replace the executable in turns.              *)
NoNeedlessRestart ==
  [][EndSession(turn) /\ repeats /\ Uniform(request) /\ ~ request.restart
       => ~ Restarts(turn)]_vars

=============================================================================
