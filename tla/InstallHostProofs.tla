-------------------------- MODULE InstallHostProofs --------------------------
(***************************************************************************)
(* For any instances of a host, versions, options and flags, however their *)
(* sessions overlap, fail, and are cut off by reboots: what a rollout that *)
(* succeeded leaves on the host, what a boot makes of it, and that a       *)
(* rollout with nothing to change restarts nothing.                        *)
(***************************************************************************)
EXTENDS InstallHost, TLAPS

(* How far a session must be to have done something. *)
Copied   == {"check", "fetch", "unpack", "unit", "enable", "start", "ok"}
Placed   == {"unpack", "unit", "enable", "start", "ok"}
UnitDone == {"enable", "start", "ok"}
EnableDone == {"start", "ok"}

OnlyTargets == \A i \in Instance : pc[i] # "idle" => i \in Targets

(* The executable is whole, or being written, unless a session failed. *)
BeingWritten == \E k \in Instance : pc[k] = "unpack" /\ weed.by = k
SomeFailed   == \E k \in Instance : pc[k] = "failed"

(* Once a session of this rollout has placed the executable, it is of the  *)
(* version asked for, whoever has written it since.                        *)
RightVersion ==
  \A i \in Instance : pc[i] \in Placed =>
    weed.ver = rollout.ver /\ (weed.whole \/ BeingWritten \/ SomeFailed)

FilesDone ==
  \A i \in Instance :
    /\ pc[i] \in Copied => options[i] = rollout.options[i]
    /\ pc[i] \in UnitDone => unit[i] = TRUE
    /\ pc[i] \in EnableDone /\ rollout.skip # "enable" => enabled[i] = TRUE

(* If every session so far found all it wanted, none writes the executable.*)
AllFound == \A j \in Instance : pc[j] # "idle" => pre[j] = Wanted(j)

Undisturbed ==
  AllFound =>
    \A i \in Instance : pc[i] # "idle" =>
      pc[i] \notin {"fetch", "unpack"} /\ weed.ver = rollout.ver /\ weed.whole = TRUE

(* In the first rollout nothing is enabled or started but by its sessions. *)
FirstRollout ==
  rollouts = 1 =>
    \A i \in Instance :
      /\ pc[i] \notin {"ok", "failed"} => proc[i] = Stopped
      /\ pc[i] \notin {"start", "ok", "failed"} => enabled[i] = FALSE

(* A first or forced rollout never leaves a process on old files: one that *)
(* was started while a sibling wrote the executable is failing, and        *)
(* systemd will start it again.                                            *)
NeverStale ==
  rollout.skip = "nothing" /\ (rollouts = 1 \/ rollout.restart) =>
    \A i \in Instance : pc[i] = "ok" => proc[i] = Failing \/ Current(i)

(* The inductive invariant. *)
HInv ==
  /\ TypeOK /\ OnlyTargets /\ RightVersion /\ FilesDone
  /\ Undisturbed /\ FirstRollout /\ NeverStale

-----------------------------------------------------------------------------
(* The parts of the type invariant the steps below need.                   *)
LEMMA HostTypes ==
  ASSUME TypeOK
  PROVE  /\ weed \in File /\ options \in [Instance -> Config \union {None}]
         /\ unit \in [Instance -> BOOLEAN] /\ enabled \in [Instance -> BOOLEAN]
         /\ proc \in [Instance -> Process] /\ pc \in [Instance -> Where]
         /\ pre \in [Instance -> [weed : (Version \union {None}) \X BOOLEAN,
                                  options : Config \union {None}, unit : BOOLEAN]]
         /\ rollout.ver \in Version /\ rollout.ver # None
         /\ rollout.options \in [Instance -> Config]
         /\ Targets \subseteq Instance /\ Targets # {}
<1>1. rollout \in Request
  BY DEF TypeOK
<1>2. rollout.ver \in Version /\ rollout.options \in [Instance -> Config]
      /\ rollout.targets \in {Instance} \union Component
  BY <1>1 DEF Request
<1>3. rollout.ver # None
  BY <1>2, NoneAssumption
<1>4. Targets \subseteq Instance /\ Targets # {}
  BY <1>2, InstanceAssumption DEF Targets
<1> QED BY <1>2, <1>3, <1>4 DEF TypeOK

LEMMA LaunchedType == ASSUME TypeOK, NEW i \in Instance PROVE Launched(i) \in Process
<1>1. weed.ver \in Version \union {None} /\ options[i] \in Config \union {None}
  BY HostTypes DEF File
<1>2. Failing \in Process
  BY DEF Failing, Process
<1>3. [state |-> "running", ver |-> weed.ver, options |-> options[i]] \in Process
  BY <1>1 DEF Process
<1> QED BY <1>2, <1>3 DEF Launched

LEMMA HashesType ==
  ASSUME TypeOK, NEW i \in Instance
  PROVE  Hashes(i) \in [weed : (Version \union {None}) \X BOOLEAN,
                        options : Config \union {None}, unit : BOOLEAN]
<1>1. weed.ver \in Version \union {None} /\ weed.whole \in BOOLEAN
  BY HostTypes DEF File
<1>2. options[i] \in Config \union {None} /\ unit[i] \in BOOLEAN
  BY HostTypes
<1> QED BY <1>1, <1>2 DEF Hashes

(* What a launch makes of a session that has placed all files.             *)
LEMMA LaunchedIsCurrent ==
  ASSUME HInv, NEW i \in Instance, pc[i] \in Placed
  PROVE  Launched(i) = Failing
           \/ Launched(i) = [state |-> "running", ver |-> rollout.ver, options |-> rollout.options[i]]
BY DEF HInv, RightVersion, FilesDone, Placed, Copied, Launched

LEMMA HInvInit == Init => HInv
<1> SUFFICES ASSUME Init PROVE HInv
  OBVIOUS
<1>1. TypeOK
  <2>1. weed \in File
    BY DEF Init, NoFile, File
  <2>2. proc \in [Instance -> Process]
    BY DEF Init, Stopped, Process
  <2>3. pre \in [Instance -> [weed : (Version \union {None}) \X BOOLEAN,
                              options : Config \union {None}, unit : BOOLEAN]]
    BY DEF Init, NoPre
  <2>4. failures \in 0..MaxFailures /\ rollouts \in 1..MaxRollouts
    BY RolloutBounds DEF Init
  <2> QED BY <2>1, <2>2, <2>3, <2>4 DEF Init, TypeOK, Where
<1>2. \A i \in Instance : pc[i] = "idle"
  BY DEF Init
<1>3. OnlyTargets /\ RightVersion /\ FilesDone /\ Undisturbed /\ NeverStale
  BY <1>2 DEF OnlyTargets, RightVersion, FilesDone, Undisturbed, NeverStale,
              Placed, Copied, UnitDone, EnableDone
<1>4. FirstRollout
  BY DEF Init, FirstRollout
<1> QED BY <1>1, <1>3, <1>4 DEF HInv

-----------------------------------------------------------------------------
LEMMA DeployKeeps == ASSUME HInv, Deploy PROVE HInv'
<1>1. /\ rollouts < MaxRollouts /\ rollouts' = rollouts + 1
      /\ rollout' \in Request
      /\ pc' = [i \in Instance |-> "idle"] /\ pre' = [i \in Instance |-> NoPre]
      /\ UNCHANGED <<weed, options, unit, enabled, proc, failures>>
  BY DEF Deploy, host
<1>2. rollouts \in 1..MaxRollouts
  BY DEF HInv, TypeOK
<1>3. TypeOK'
  <2>1. rollouts' \in 1..MaxRollouts /\ rollouts' # 1
    BY <1>1, <1>2, RolloutBounds
  <2>2. pc' \in [Instance -> Where]
    BY <1>1 DEF Where
  <2>3. pre' \in [Instance -> [weed : (Version \union {None}) \X BOOLEAN,
                               options : Config \union {None}, unit : BOOLEAN]]
    BY <1>1 DEF NoPre
  <2> QED BY <1>1, <2>1, <2>2, <2>3 DEF HInv, TypeOK
<1>4. \A i \in Instance : pc'[i] = "idle"
  BY <1>1
<1>5. OnlyTargets' /\ RightVersion' /\ FilesDone' /\ Undisturbed' /\ NeverStale'
  BY <1>4 DEF OnlyTargets, RightVersion, FilesDone, Undisturbed, NeverStale,
              Placed, Copied, UnitDone, EnableDone
<1>6. FirstRollout'
  BY <1>1, <1>2 DEF FirstRollout
<1> QED BY <1>3, <1>5, <1>6 DEF HInv

LEMMA BeginKeeps == ASSUME HInv, NEW i \in Instance, Begin(i) PROVE HInv'
<1>1. /\ i \in Targets /\ pc[i] = "idle"
      /\ pre' = [pre EXCEPT ![i] = Hashes(i)]
      /\ pc' = [pc EXCEPT ![i] = "config"]
      /\ UNCHANGED <<weed, options, unit, enabled, proc, rollout, failures, rollouts>>
  BY DEF Begin, Goto, host
<1> USE HostTypes DEF HInv
<1>2. pc'[i] = "config" /\ \A k \in Instance \ {i} : pc'[k] = pc[k]
  BY <1>1
<1>3. pre'[i] = Hashes(i) /\ \A k \in Instance \ {i} : pre'[k] = pre[k]
  BY <1>1
<1>4. TypeOK'
  <2>1. pc' \in [Instance -> Where]
    BY <1>1 DEF Where
  <2>2. pre' \in [Instance -> [weed : (Version \union {None}) \X BOOLEAN,
                               options : Config \union {None}, unit : BOOLEAN]]
    BY <1>1, HashesType
  <2> QED BY <1>1, <2>1, <2>2 DEF TypeOK
<1>5. OnlyTargets'
  BY <1>1, <1>2 DEF OnlyTargets, Targets
<1>6. RightVersion'
  BY <1>1, <1>2 DEF RightVersion, Placed, BeingWritten, SomeFailed
<1>7. FilesDone' /\ FirstRollout' /\ NeverStale'
  BY <1>1, <1>2 DEF FilesDone, Copied, UnitDone, EnableDone, FirstRollout, NeverStale, Current
<1>8. Undisturbed'
  <2> SUFFICES ASSUME AllFound'
               PROVE  \A k \in Instance : pc'[k] # "idle" =>
                        pc'[k] \notin {"fetch", "unpack"} /\ weed.ver = rollout.ver /\ weed.whole = TRUE
    BY <1>1 DEF Undisturbed
  <2>1. \A k \in Instance : pc'[k] # "idle" => pre'[k] = Wanted(k)
    BY <1>1 DEF AllFound, Wanted
  <2>2. Hashes(i) = Wanted(i)
    BY <1>2, <1>3, <2>1
  <2>3. weed.ver = rollout.ver /\ weed.whole = TRUE
    BY <2>2 DEF Hashes, Wanted
  <2>4. AllFound
    BY <1>1, <1>2, <1>3, <2>1 DEF AllFound
  <2> QED BY <1>2, <2>3, <2>4 DEF Undisturbed
<1> QED BY <1>4, <1>5, <1>6, <1>7, <1>8

LEMMA CopyConfigKeeps == ASSUME HInv, NEW i \in Instance, CopyConfig(i) PROVE HInv'
<1>1. /\ pc[i] = "config"
      /\ options' = [options EXCEPT ![i] = rollout.options[i]]
      /\ UNCHANGED <<weed, unit, enabled, proc, pre, rollout, rollouts>>
  BY DEF CopyConfig
<1>2. PICK w \in {"check", "failed"} : pc' = [pc EXCEPT ![i] = w]
  BY DEF CopyConfig, Goto
<1> USE HostTypes DEF HInv
<1>3. pc'[i] = w /\ \A k \in Instance \ {i} : pc'[k] = pc[k]
  BY <1>2
<1>4. options'[i] = rollout.options[i] /\ \A k \in Instance \ {i} : options'[k] = options[k]
  BY <1>1
<1>5. TypeOK'
  <2>1. pc' \in [Instance -> Where]
    BY <1>2 DEF Where
  <2>2. options' \in [Instance -> Config \union {None}]
    BY <1>1
  <2>3. failures \in 0..MaxFailures
    BY DEF TypeOK
  <2>4. failures' \in 0..MaxFailures
    BY <2>3, RolloutBounds DEF CopyConfig
  <2> QED BY <1>1, <2>1, <2>2, <2>4 DEF TypeOK
<1>6. OnlyTargets'
  BY <1>1, <1>3 DEF OnlyTargets, Targets
<1>7. RightVersion'
  <2> SUFFICES ASSUME NEW k \in Instance, pc'[k] \in Placed
               PROVE  weed.ver = rollout.ver /\ (weed.whole \/ BeingWritten \/ SomeFailed)'
    BY <1>1 DEF RightVersion
  <2>1. k # i /\ pc'[k] = pc[k]
    BY <1>3 DEF Placed
  <2>2. weed.ver = rollout.ver /\ (weed.whole \/ BeingWritten \/ SomeFailed)
    BY <2>1 DEF RightVersion
  <2>3. BeingWritten => BeingWritten'
    BY <1>1, <1>3 DEF BeingWritten
  <2>4. SomeFailed => SomeFailed'
    BY <1>1, <1>3 DEF SomeFailed
  <2> QED BY <1>1, <2>2, <2>3, <2>4
<1>8. FilesDone'
  BY <1>1, <1>3, <1>4 DEF FilesDone, Copied, UnitDone, EnableDone
<1>9. FirstRollout' /\ NeverStale'
  BY <1>1, <1>3 DEF FirstRollout, NeverStale, Current
<1>10. Undisturbed'
  <2>1. AllFound' => AllFound
    BY <1>1, <1>3 DEF AllFound, Wanted
  <2> QED BY <1>1, <1>3, <2>1 DEF Undisturbed
<1> QED BY <1>5, <1>6, <1>7, <1>8, <1>9, <1>10

LEMMA CheckVersionKeeps == ASSUME HInv, NEW i \in Instance, CheckVersion(i) PROVE HInv'
<1> USE HostTypes DEF HInv
<1> DEFINE w == IF Executable /\ weed.ver = rollout.ver THEN "unit" ELSE "fetch"
<1>1. /\ pc[i] = "check" /\ pc' = [pc EXCEPT ![i] = w]
      /\ UNCHANGED <<weed, options, unit, enabled, proc, pre, rollout, failures, rollouts>>
  BY DEF CheckVersion, Goto, host
<1>2. w \in {"unit", "fetch"} /\ (w = "unit" <=> Executable /\ weed.ver = rollout.ver)
  OBVIOUS
<1> HIDE DEF w
<1>3. pc'[i] = w /\ \A k \in Instance \ {i} : pc'[k] = pc[k]
  BY <1>1
<1>4. TypeOK'
  <2>1. pc' \in [Instance -> Where]
    BY <1>1, <1>2 DEF Where
  <2> QED BY <1>1, <2>1 DEF TypeOK
<1>5. OnlyTargets'
  BY <1>1, <1>3 DEF OnlyTargets, Targets
<1>6. RightVersion'
  <2>1. BeingWritten => BeingWritten'
    BY <1>1, <1>3 DEF BeingWritten
  <2>2. SomeFailed => SomeFailed'
    BY <1>1, <1>3 DEF SomeFailed
  <2>3. pc'[i] \in Placed => weed.ver = rollout.ver /\ weed.whole
    BY <1>2, <1>3 DEF Placed, Executable
  <2> QED BY <1>1, <1>3, <2>1, <2>2, <2>3 DEF RightVersion
<1>7. FilesDone' /\ FirstRollout' /\ NeverStale'
  BY <1>1, <1>2, <1>3 DEF FilesDone, Copied, UnitDone, EnableDone, FirstRollout, NeverStale, Current
<1>8. Undisturbed'
  <2> SUFFICES ASSUME AllFound' PROVE Undisturbed'
    BY DEF Undisturbed
  <2>1. AllFound
    BY <1>1, <1>2, <1>3 DEF AllFound, Wanted
  <2>2. weed.ver = rollout.ver /\ weed.whole = TRUE
    BY <1>1, <2>1 DEF Undisturbed
  <2>3. w = "unit"
    BY <1>2, <2>2 DEF Executable
  <2> QED BY <1>1, <1>3, <2>1, <2>2, <2>3 DEF Undisturbed
<1> QED BY <1>4, <1>5, <1>6, <1>7, <1>8

LEMMA BeginUnpackKeeps == ASSUME HInv, NEW i \in Instance, BeginUnpack(i) PROVE HInv'
<1> USE HostTypes DEF HInv
<1>1. /\ pc[i] = "fetch" /\ pc' = [pc EXCEPT ![i] = "unpack"]
      /\ weed' = [ver |-> rollout.ver, whole |-> FALSE, by |-> i]
      /\ UNCHANGED <<options, unit, enabled, proc, pre, rollout, failures, rollouts>>
  BY DEF BeginUnpack, Goto
<1>2. pc'[i] = "unpack" /\ \A k \in Instance \ {i} : pc'[k] = pc[k]
  BY <1>1
<1>3. TypeOK'
  <2>1. pc' \in [Instance -> Where]
    BY <1>1 DEF Where
  <2>2. weed' \in File
    BY <1>1 DEF File
  <2> QED BY <1>1, <2>1, <2>2 DEF TypeOK
<1>4. OnlyTargets'
  BY <1>1, <1>2 DEF OnlyTargets, Targets
<1>5. RightVersion'
  <2>1. BeingWritten' /\ weed'.ver = rollout.ver
    BY <1>1, <1>2 DEF BeingWritten
  <2> QED BY <1>1, <2>1 DEF RightVersion
<1>6. FilesDone' /\ FirstRollout' /\ NeverStale'
  BY <1>1, <1>2 DEF FilesDone, Copied, UnitDone, EnableDone, FirstRollout, NeverStale, Current
<1>7. Undisturbed'
  <2>1. ~ AllFound
    BY <1>1 DEF Undisturbed
  <2>2. AllFound' => AllFound
    BY <1>1, <1>2 DEF AllFound, Wanted
  <2> QED BY <2>1, <2>2 DEF Undisturbed
<1> QED BY <1>3, <1>4, <1>5, <1>6, <1>7

LEMMA EndUnpackKeeps == ASSUME HInv, NEW i \in Instance, EndUnpack(i) PROVE HInv'
<1> USE HostTypes DEF HInv
<1>1. /\ pc[i] = "unpack" /\ pc' = [pc EXCEPT ![i] = "unit"]
      /\ weed' = IF weed.by = i THEN [weed EXCEPT !.whole = TRUE, !.by = None] ELSE weed
      /\ UNCHANGED <<options, unit, enabled, proc, pre, rollout, failures, rollouts>>
  BY DEF EndUnpack, Goto
<1>2. pc'[i] = "unit" /\ \A k \in Instance \ {i} : pc'[k] = pc[k]
  BY <1>1
<1>3. TypeOK'
  <2>1. pc' \in [Instance -> Where]
    BY <1>1 DEF Where
  <2>2. weed' \in File
    BY <1>1 DEF File
  <2> QED BY <1>1, <2>1, <2>2 DEF TypeOK
<1>4. OnlyTargets'
  BY <1>1, <1>2 DEF OnlyTargets, Targets
<1>5. RightVersion'
  <2>1. weed.ver = rollout.ver /\ (weed.whole \/ BeingWritten \/ SomeFailed)
    BY <1>1 DEF RightVersion, Placed
  <2>2. SomeFailed => SomeFailed'
    BY <1>1, <1>2 DEF SomeFailed
  <2>3. CASE weed.by = i
    <3>1. weed'.ver = rollout.ver /\ weed'.whole = TRUE
      BY <1>1, <2>1, <2>3 DEF File
    <3> QED BY <1>1, <3>1 DEF RightVersion
  <2>4. CASE weed.by # i
    <3>1. BeingWritten => BeingWritten'
      BY <1>1, <1>2, <2>4 DEF BeingWritten
    <3> QED BY <1>1, <2>1, <2>2, <2>4, <3>1 DEF RightVersion
  <2> QED BY <2>3, <2>4
<1>6. FilesDone' /\ FirstRollout' /\ NeverStale'
  BY <1>1, <1>2 DEF FilesDone, Copied, UnitDone, EnableDone, FirstRollout, NeverStale, Current
<1>7. Undisturbed'
  <2>1. ~ AllFound
    BY <1>1 DEF Undisturbed
  <2>2. AllFound' => AllFound
    BY <1>1, <1>2 DEF AllFound, Wanted
  <2> QED BY <2>1, <2>2 DEF Undisturbed
<1> QED BY <1>3, <1>4, <1>5, <1>6, <1>7

(* What the steps after the unpacking keep of the executable.              *)
LEMMA WeedKept ==
  ASSUME HInv, NEW i \in Instance, pc[i] \in {"unit", "enable", "start"},
         NEW w \in {"enable", "start", "ok"}, pc' = [pc EXCEPT ![i] = w],
         UNCHANGED <<weed, pre, rollout>>
  PROVE  OnlyTargets' /\ RightVersion' /\ Undisturbed' /\ pc' \in [Instance -> Where]
<1> USE HostTypes DEF HInv
<1>1. pc'[i] = w /\ \A k \in Instance \ {i} : pc'[k] = pc[k]
  OBVIOUS
<1>2. OnlyTargets'
  BY <1>1 DEF OnlyTargets, Targets
<1>3. RightVersion'
  <2>1. BeingWritten => BeingWritten'
    BY <1>1 DEF BeingWritten
  <2>2. SomeFailed => SomeFailed'
    BY <1>1 DEF SomeFailed
  <2> QED BY <1>1, <2>1, <2>2 DEF RightVersion, Placed
<1>4. Undisturbed'
  <2>1. AllFound' => AllFound
    BY <1>1 DEF AllFound, Wanted
  <2> QED BY <1>1, <2>1 DEF Undisturbed
<1>5. pc' \in [Instance -> Where]
  BY DEF Where
<1> QED BY <1>2, <1>3, <1>4, <1>5

LEMMA WriteUnitKeeps == ASSUME HInv, NEW i \in Instance, WriteUnit(i) PROVE HInv'
<1> USE HostTypes DEF HInv
<1>1. /\ pc[i] = "unit" /\ pc' = [pc EXCEPT ![i] = "enable"]
      /\ unit' = [unit EXCEPT ![i] = TRUE]
      /\ UNCHANGED <<weed, options, enabled, proc, pre, rollout, failures, rollouts>>
  BY DEF WriteUnit, Goto
<1>2. pc'[i] = "enable" /\ \A k \in Instance \ {i} : pc'[k] = pc[k]
  BY <1>1
<1>3. OnlyTargets' /\ RightVersion' /\ Undisturbed' /\ pc' \in [Instance -> Where]
  BY <1>1, WeedKept
<1>4. TypeOK'
  BY <1>1, <1>3 DEF TypeOK
<1>5. FilesDone' /\ FirstRollout' /\ NeverStale'
  BY <1>1, <1>2 DEF FilesDone, Copied, UnitDone, EnableDone, FirstRollout, NeverStale, Current
<1> QED BY <1>3, <1>4, <1>5

LEMMA EnableKeeps == ASSUME HInv, NEW i \in Instance, Enable(i) PROVE HInv'
<1> USE HostTypes DEF HInv
<1>1. /\ pc[i] = "enable"
      /\ UNCHANGED <<weed, options, unit, proc, pre, rollout, failures, rollouts>>
  BY DEF Enable
<1>2. PICK w \in {"start", "ok"} : pc' = [pc EXCEPT ![i] = w]
  BY DEF Enable, Goto
<1>3. pc'[i] = w /\ \A k \in Instance \ {i} : pc'[k] = pc[k]
  BY <1>2
<1>4. w = "ok" => rollout.skip # "nothing"
  BY <1>2, <1>3 DEF Enable, Goto
<1>5. /\ \A k \in Instance \ {i} : enabled'[k] = enabled[k]
      /\ rollout.skip # "enable" => enabled'[i] = TRUE
      /\ enabled' \in [Instance -> BOOLEAN]
  BY DEF Enable
<1>6. OnlyTargets' /\ RightVersion' /\ Undisturbed' /\ pc' \in [Instance -> Where]
  BY <1>1, <1>2, WeedKept
<1>7. TypeOK'
  BY <1>1, <1>5, <1>6 DEF TypeOK
<1>8. FilesDone'
  BY <1>1, <1>3, <1>5 DEF FilesDone, Copied, UnitDone, EnableDone
<1>9. FirstRollout'
  BY <1>1, <1>3, <1>5 DEF FirstRollout
<1>10. NeverStale'
  BY <1>1, <1>3, <1>4 DEF NeverStale, Current
<1> QED BY <1>6, <1>7, <1>8, <1>9, <1>10

LEMMA LaunchKeeps == ASSUME HInv, NEW i \in Instance, pc[i] = "start", Launch(i) PROVE HInv'
<1> USE HostTypes DEF HInv
<1>1. /\ pc' = [pc EXCEPT ![i] = "ok"] /\ proc' = [proc EXCEPT ![i] = Launched(i)]
      /\ UNCHANGED <<weed, options, unit, enabled, pre, rollout, failures, rollouts>>
  BY DEF Launch, Goto
<1>2. pc'[i] = "ok" /\ \A k \in Instance \ {i} : pc'[k] = pc[k]
  BY <1>1
<1>3. proc'[i] = Launched(i) /\ \A k \in Instance \ {i} : proc'[k] = proc[k]
  BY <1>1
<1>4. OnlyTargets' /\ RightVersion' /\ Undisturbed' /\ pc' \in [Instance -> Where]
  BY <1>1, WeedKept
<1>5. TypeOK'
  <2>1. proc' \in [Instance -> Process]
    BY <1>1, LaunchedType
  <2> QED BY <1>1, <1>4, <2>1 DEF TypeOK
<1>6. FilesDone' /\ FirstRollout'
  BY <1>1, <1>2, <1>3 DEF FilesDone, Copied, UnitDone, EnableDone, FirstRollout
<1>7. NeverStale'
  <2>1. proc'[i] = Failing \/ Current(i)'
    BY <1>1, <1>3, LaunchedIsCurrent DEF Placed, Current
  <2> QED BY <1>1, <1>2, <1>3, <2>1 DEF NeverStale, Current
<1> QED BY <1>4, <1>5, <1>6, <1>7

LEMMA SkipRestartKeeps == ASSUME HInv, NEW i \in Instance, SkipRestart(i) PROVE HInv'
<1> USE HostTypes DEF HInv
<1>1. /\ pc[i] = "start" /\ proc[i].state = "running" /\ ~ rollout.restart
      /\ pc' = [pc EXCEPT ![i] = "ok"]
      /\ UNCHANGED <<weed, options, unit, enabled, proc, pre, rollout, failures, rollouts>>
  BY DEF SkipRestart, Goto, host
<1>2. pc'[i] = "ok" /\ \A k \in Instance \ {i} : pc'[k] = pc[k]
  BY <1>1
<1>3. OnlyTargets' /\ RightVersion' /\ Undisturbed' /\ pc' \in [Instance -> Where]
  BY <1>1, WeedKept
<1>4. TypeOK'
  BY <1>1, <1>3 DEF TypeOK
<1>5. FilesDone' /\ FirstRollout'
  BY <1>1, <1>2 DEF FilesDone, Copied, UnitDone, EnableDone, FirstRollout
<1>6. rollouts # 1
  <2>1. proc[i] # Stopped
    BY <1>1 DEF Stopped
  <2> QED BY <1>1, <2>1 DEF FirstRollout
<1>7. NeverStale'
  BY <1>1, <1>2, <1>6 DEF NeverStale, Current
<1> QED BY <1>3, <1>4, <1>5, <1>7

LEMMA FailKeeps == ASSUME HInv, NEW i \in Instance, Fail(i) PROVE HInv'
<1> USE HostTypes DEF HInv
<1>1. /\ pc[i] # "idle" /\ pc' = [pc EXCEPT ![i] = "failed"]
      /\ failures < MaxFailures /\ failures' = failures + 1
      /\ UNCHANGED <<weed, options, unit, enabled, proc, pre, rollout, rollouts>>
  BY DEF Fail, Goto, Open, host
<1>2. pc'[i] = "failed" /\ \A k \in Instance \ {i} : pc'[k] = pc[k]
  BY <1>1
<1>3. TypeOK'
  <2>1. pc' \in [Instance -> Where]
    BY <1>1 DEF Where
  <2>2. failures \in 0..MaxFailures
    BY DEF TypeOK
  <2>3. failures' \in 0..MaxFailures
    BY <1>1, <2>2, RolloutBounds
  <2> QED BY <1>1, <2>1, <2>3 DEF TypeOK
<1>4. OnlyTargets'
  BY <1>1, <1>2 DEF OnlyTargets, Targets
<1>5. RightVersion'
  <2>1. SomeFailed'
    BY <1>2 DEF SomeFailed
  <2> QED BY <1>1, <1>2, <2>1 DEF RightVersion, Placed
<1>6. FilesDone' /\ FirstRollout' /\ NeverStale'
  BY <1>1, <1>2 DEF FilesDone, Copied, UnitDone, EnableDone, FirstRollout, NeverStale, Current
<1>7. Undisturbed'
  <2>1. AllFound' => AllFound
    BY <1>1, <1>2 DEF AllFound, Wanted
  <2> QED BY <1>1, <1>2, <2>1 DEF Undisturbed
<1> QED BY <1>3, <1>4, <1>5, <1>6, <1>7

LEMMA RetryKeeps == ASSUME HInv, NEW i \in Instance, Retry(i) PROVE HInv'
<1> USE HostTypes DEF HInv
<1>1. /\ proc[i].state = "failing" /\ proc' = [proc EXCEPT ![i] = Launched(i)]
      /\ UNCHANGED <<weed, options, unit, enabled, pc, pre, rollout, failures, rollouts>>
  BY DEF Retry
<1>2. proc'[i] = Launched(i) /\ \A k \in Instance \ {i} : proc'[k] = proc[k]
  BY <1>1
<1>3. TypeOK'
  <2>1. proc' \in [Instance -> Process]
    BY <1>1, LaunchedType
  <2> QED BY <1>1, <2>1 DEF TypeOK
<1>4. OnlyTargets' /\ RightVersion' /\ FilesDone' /\ Undisturbed'
  BY <1>1 DEF OnlyTargets, Targets, RightVersion, BeingWritten, SomeFailed, FilesDone,
              Undisturbed, AllFound, Wanted
<1>5. FirstRollout'
  BY <1>1, <1>2 DEF FirstRollout, Stopped
<1>6. NeverStale'
  <2>1. pc[i] = "ok" => proc'[i] = Failing \/ Current(i)'
    BY <1>1, <1>2, LaunchedIsCurrent DEF Placed, Current
  <2> QED BY <1>1, <1>2, <2>1 DEF NeverStale, Current
<1> QED BY <1>3, <1>4, <1>5, <1>6

LEMMA RebootKeeps == ASSUME HInv, Reboot PROVE HInv'
<1> USE HostTypes DEF HInv
<1>1. /\ failures < MaxFailures /\ failures' = failures + 1
      /\ pc' = [i \in Instance |-> IF Open(i) THEN "failed" ELSE pc[i]]
      /\ weed' = [weed EXCEPT !.by = None]
      /\ proc' = [i \in Instance |-> IF enabled[i] THEN Launched(i) ELSE Stopped]
      /\ UNCHANGED <<options, unit, enabled, pre, rollout, rollouts>>
  BY DEF Reboot
<1>2. weed'.ver = weed.ver /\ weed'.whole = weed.whole /\ weed' \in File
  BY <1>1 DEF File
<1>3. ASSUME NEW i \in Instance
      PROVE  /\ proc'[i] = IF enabled[i] THEN Launched(i) ELSE Stopped
             /\ pc'[i] = IF Open(i) THEN "failed" ELSE pc[i]
             /\ pc'[i] \in {"idle", "ok", "failed"}
             /\ pc'[i] # "failed" => pc[i] = pc'[i]
             /\ pc'[i] = "idle" <=> pc[i] = "idle"
             /\ pc[i] = "failed" => pc'[i] = "failed"
  BY <1>1 DEF Open
<1>4. TypeOK'
  <2>1. pc' \in [Instance -> Where]
    BY <1>1 DEF Where
  <2>2. \A i \in Instance : Launched(i) \in Process
    BY LaunchedType
  <2>3. proc' \in [Instance -> Process]
    BY <1>1, <2>2 DEF Process, Stopped
  <2>4. failures \in 0..MaxFailures
    BY DEF TypeOK
  <2>5. failures' \in 0..MaxFailures
    BY <1>1, <2>4, RolloutBounds
  <2> QED BY <1>1, <1>2, <2>1, <2>3, <2>5 DEF TypeOK
<1>5. OnlyTargets'
  BY <1>1, <1>3 DEF OnlyTargets, Targets
<1>6. RightVersion'
  <2> SUFFICES ASSUME NEW i \in Instance, pc'[i] \in Placed
               PROVE  weed.ver = rollout.ver /\ (weed.whole \/ SomeFailed')
    BY <1>1, <1>2 DEF RightVersion
  <2>1. pc[i] \in Placed
    BY <1>3 DEF Placed
  <2>2. weed.ver = rollout.ver /\ (weed.whole \/ BeingWritten \/ SomeFailed)
    BY <2>1 DEF RightVersion
  <2>3. SomeFailed => SomeFailed'
    BY <1>3 DEF SomeFailed
  <2>4. BeingWritten => SomeFailed'
    <3>1. \A k \in Instance : pc[k] = "unpack" => pc'[k] = "failed"
      BY <1>3 DEF Open
    <3> QED BY <3>1 DEF BeingWritten, SomeFailed
  <2> QED BY <2>2, <2>3, <2>4
<1>7. FilesDone'
  BY <1>1, <1>3 DEF FilesDone, Copied, UnitDone, EnableDone
<1>8. FirstRollout'
  BY <1>1, <1>3 DEF FirstRollout
<1>9. NeverStale'
  <2> SUFFICES ASSUME rollout.skip = "nothing", rollouts = 1 \/ rollout.restart,
                      NEW i \in Instance, pc'[i] = "ok"
               PROVE  proc'[i] = Failing \/ Current(i)'
    BY <1>1 DEF NeverStale
  <2>1. pc[i] = "ok" /\ enabled[i]
    BY <1>3 DEF FilesDone, EnableDone
  <2>2. proc'[i] = Launched(i)
    BY <1>3, <2>1
  <2> QED BY <1>1, <2>1, <2>2, LaunchedIsCurrent DEF Placed, Current
<1>10. Undisturbed'
  <2>1. AllFound' => AllFound
    BY <1>1, <1>3 DEF AllFound, Wanted
  <2> QED BY <1>1, <1>2, <1>3, <2>1 DEF Undisturbed
<1> QED BY <1>4, <1>5, <1>6, <1>7, <1>8, <1>9, <1>10

LEMMA HInvNext == ASSUME HInv, [Next]_vars PROVE HInv'
<1>1. CASE Deploy \/ Reboot
  BY <1>1, DeployKeeps, RebootKeeps
<1>2. ASSUME NEW i \in Instance, Session(i) PROVE HInv'
  <2>1. CASE Start(i) \/ Restart(i)
    BY <2>1, LaunchKeeps DEF Start, Restart
  <2> QED BY <1>2, <2>1, BeginKeeps, CopyConfigKeeps, CheckVersionKeeps, BeginUnpackKeeps,
             EndUnpackKeeps, WriteUnitKeeps, EnableKeeps, SkipRestartKeeps DEF Session
<1>3. ASSUME NEW i \in Instance, Fail(i) \/ Retry(i) PROVE HInv'
  BY <1>3, FailKeeps, RetryKeeps
<1>4. CASE UNCHANGED vars
  BY <1>4 DEF HInv, TypeOK, OnlyTargets, Targets, RightVersion, BeingWritten, SomeFailed,
              FilesDone, Undisturbed, AllFound, Wanted, FirstRollout, NeverStale, Current,
              vars, host
<1> QED BY <1>1, <1>2, <1>3, <1>4 DEF Next, Content

LEMMA HInvAlways == Spec => []HInv
<1>1. HInv /\ [Next]_vars => HInv'
  BY HInvNext
<1> QED BY HInvInit, <1>1, PTL DEF Spec

(* What the end of a successful rollout makes of the invariant.            *)
LEMMA AfterSuccess ==
  ASSUME HInv, Succeeded
  PROVE  /\ Executable /\ weed.ver = rollout.ver
         /\ \A i \in Targets : options[i] = rollout.options[i] /\ unit[i] = TRUE
         /\ rollout.skip # "enable" => \A i \in Targets : enabled[i] = TRUE
<1>1. Targets \subseteq Instance /\ rollout.ver # None
  BY HostTypes DEF HInv
<1>2. PICK t \in Targets : TRUE
  BY HostTypes DEF HInv
<1>3. \A i \in Targets : pc[i] = "ok"
  BY DEF Succeeded
<1>4. weed.ver = rollout.ver /\ (weed.whole \/ BeingWritten \/ SomeFailed)
  BY <1>1, <1>2, <1>3 DEF HInv, RightVersion, Placed
<1>5. ~ BeingWritten /\ ~ SomeFailed
  BY <1>3 DEF HInv, OnlyTargets, BeingWritten, SomeFailed
<1> QED BY <1>1, <1>3, <1>4, <1>5 DEF HInv, FilesDone, Copied, UnitDone, EnableDone, Executable

-----------------------------------------------------------------------------
(* Type correctness of what the host and the sessions keep.                *)
THEOREM HostTyping == Spec => []TypeOK
<1>1. HInv => TypeOK
  BY DEF HInv
<1> QED BY <1>1, HInvAlways, PTL

(* A rollout whose sessions all succeeded leaves the whole executable of   *)
(* the version asked for, and each instance its options and its unit, for  *)
(* any number of sessions that unpack over each other.                     *)
THEOREM Installed == Spec => []InstalledOnSuccess
<1>1. HInv => InstalledOnSuccess
  BY AfterSuccess DEF InstalledOnSuccess
<1> QED BY <1>1, HInvAlways, PTL

(* A reboot after a rollout that succeeded and enabled its services brings *)
(* every instance up on what was asked for, even those whose own session   *)
(* restarted nothing.                                                      *)
THEOREM RebootHelps == Spec => RebootBringsUp
<1>1. ASSUME HInv, Reboot, Succeeded, rollout.skip # "enable", NEW i \in Targets
      PROVE  Current(i)'
  <2>1. /\ Executable /\ weed.ver = rollout.ver
        /\ options[i] = rollout.options[i] /\ enabled[i] = TRUE
    BY <1>1, AfterSuccess
  <2>2. Launched(i) = [state |-> "running", ver |-> rollout.ver, options |-> rollout.options[i]]
    BY <2>1 DEF Launched
  <2>3. i \in Instance
    BY <1>1, HostTypes DEF HInv
  <2>4. proc'[i] = Launched(i) /\ rollout' = rollout
    BY <1>1, <2>1, <2>3 DEF Reboot
  <2> QED BY <2>2, <2>4 DEF Current
<1>2. ASSUME HInv, Reboot, Succeeded, rollout.skip # "enable"
      PROVE  \A i \in Targets : Current(i)'
  BY <1>1, <1>2
<1> QED BY <1>2, HInvAlways, PTL DEF RebootBringsUp

(* A service is restarted only if a session of the rollout, its own or     *)
(* that of a sibling, found a file to change, or --restart was given: two  *)
(* half-written executables are never compared without such a session.     *)
THEOREM RestartsForAReason == Spec => NoNeedlessRestart
<1>1. ASSUME HInv, NEW i \in Instance, Restart(i), ~ rollout.restart
      PROVE  \E j \in Targets : pc[j] # "idle" /\ pre[j] # Wanted(j)
  <2>1. pc[i] = "start" /\ (pre[i] # Hashes(i) \/ ~ weed.whole)
    BY <1>1 DEF Restart
  <2>2. ~ AllFound
    <3> SUFFICES ASSUME AllFound PROVE FALSE
      OBVIOUS
    <3>1. weed.ver = rollout.ver /\ weed.whole = TRUE /\ pre[i] = Wanted(i)
      BY <1>1, <2>1 DEF HInv, Undisturbed, AllFound
    <3>2. options[i] = rollout.options[i] /\ unit[i] = TRUE
      BY <1>1, <2>1 DEF HInv, FilesDone, Copied, UnitDone
    <3>3. Hashes(i) = Wanted(i)
      BY <3>1, <3>2 DEF Hashes, Wanted
    <3> QED BY <2>1, <3>1, <3>3
  <2> QED BY <1>1, <2>2 DEF AllFound, HInv, OnlyTargets
<1>2. ASSUME HInv
      PROVE  \A i \in Instance : Restart(i) /\ ~ rollout.restart =>
               \E j \in Targets : pc[j] # "idle" /\ pre[j] # Wanted(j)
  BY <1>1, <1>2
<1> QED BY <1>2, HInvAlways, PTL DEF NoNeedlessRestart

(* The part of RolloutConverges that is not about what must happen: when a *)
(* session of a first or forced rollout succeeded, its process runs what   *)
(* was asked for or waits for systemd to start it, whatever siblings and   *)
(* reboots do meanwhile.                                                   *)
THEOREM NothingStale == Spec => []NeverStale
<1>1. HInv => NeverStale
  BY DEF HInv
<1> QED BY <1>1, HInvAlways, PTL

=============================================================================
