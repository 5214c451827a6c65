------------------------- MODULE InstallEnvoyProofs -------------------------
(***************************************************************************)
(* For any number of proxies on the host, any versions, configurations and *)
(* flags, any number of rollouts, failures and deaths of proxies: a first  *)
(* or forced rollout converges, the first proxy follows, and repeating a   *)
(* rollout restarts nothing.                                               *)
(***************************************************************************)
EXTENDS InstallEnvoy, TLAPS

InSession == pc \in {"config", "binary", "unit", "start"}
Done(p)   == p < turn \/ pc = "ok"
Running(p) == proc[p].state = "running"

(* What the sessions of this rollout have copied and written so far. *)
Copied ==
  \A p \in Proxy :
    Done(p) \/ (p = turn /\ pc \in {"binary", "unit", "start"}) => config[p] = request.config[p]

Written == \A p \in Proxy : Done(p) \/ (p = turn /\ pc = "start") => unit[p] = TRUE

(* From the first session on the executable is the one all ask for. *)
Fetched ==
  pc # "failed" /\ Uniform(request) /\ (turn > 1 \/ pc \in {"unit", "start", "ok"})
    => \A p \in Proxy : binary = request.ver[p]

(* The hashes of a session are those of its start. *)
PreTaken ==
  /\ pc = "config" => pre = Hashes(turn)
  /\ pc = "binary" => pre[1] = binary

(* In the first rollout every session finds no unit. *)
FirstTime ==
  rollouts = 1 /\ pc # "failed" =>
    /\ \A p \in Proxy : ~ Done(p) /\ ~ (p = turn /\ pc = "start") => unit[p] = FALSE
    /\ InSession => pre[3] = FALSE

(* The proxies whose sessions ended run what was asked for. *)
Launching ==
  pc # "failed" /\ request.skip = "nothing" /\ Uniform(request)
    /\ (rollouts = 1 \/ request.restart)
    => \A p \in Proxy : Done(p) => Current(p)

(* A rollout that repeats one that succeeded finds all files in place. *)
Repeating ==
  repeats /\ Uniform(request) =>
    /\ \A p \in Proxy : config[p] = request.config[p] /\ unit[p] = TRUE /\ binary = request.ver[p]
    /\ InSession => pre = Hashes(turn)

(* As long as all is smooth: a proxy runs once its first session ended,    *)
(* with its present configuration, unless its session is about to find     *)
(* out that the one it was started with is gone; the same for the version  *)
(* of the first.                                                           *)
Smoothly ==
  smooth =>
    /\ pc # "failed" /\ Uniform(request) /\ request.skip = "nothing"
    /\ \A p \in Proxy :
         /\ Running(p) \/ (rollouts = 1 /\ ~ Done(p) /\ proc[p] = Stopped)
         /\ Running(p) =>
              /\ config[p] # None /\ binary \in Version
              /\ \/ proc[p].config = config[p]
                 \/ p = turn /\ pc \in {"binary", "unit", "start"} /\ proc[p].config = pre[2]
    /\ Running(1) => \/ proc[1].ver = binary
                     \/ turn = 1 /\ pc \in {"unit", "start"} /\ proc[1].ver = pre[1]

(* The inductive invariant. *)
EInv ==
  /\ TypeOK
  /\ Copied /\ Written /\ Fetched /\ PreTaken
  /\ FirstTime /\ Launching /\ Repeating /\ Smoothly

-----------------------------------------------------------------------------
LEMMA OneIsProxy == 1 \in Proxy
BY NProxyAssumption DEF Proxy

LEMMA EInvInit == Init => EInv
<1> SUFFICES ASSUME Init PROVE EInv
  OBVIOUS
<1>1. TypeOK
  <2>1. smooth \in BOOLEAN /\ repeats \in BOOLEAN
    BY DEF Init
  <2>2. proc \in [Proxy -> Process]
    BY DEF Init, Process
  <2>3. pre \in (Version \union {None, Damaged}) \X (Config \union {None}) \X BOOLEAN
    BY DEF Init
  <2>4. failures \in 0..MaxFailures /\ rollouts \in 1..MaxRollouts
    BY RolloutBounds DEF Init
  <2> QED BY <2>1, <2>2, <2>3, <2>4, OneIsProxy DEF Init, TypeOK
<1>2. \A p \in Proxy : ~ Done(p)
  BY DEF Init, Done, Proxy
<1>3. Copied /\ Written /\ Fetched /\ PreTaken
  BY <1>2 DEF Init, Copied, Written, Fetched, PreTaken
<1>4. FirstTime /\ Launching /\ Repeating
  BY <1>2 DEF Init, FirstTime, Launching, Repeating, InSession
<1>5. Smoothly
  BY <1>2, OneIsProxy DEF Init, Smoothly, Running, Stopped
<1> QED BY <1>1, <1>3, <1>4, <1>5 DEF EInv

(* What a launch makes of a proxy whose files are there. *)
LEMMA LaunchedRuns ==
  ASSUME NEW p \in Proxy, binary \in Version, config[p] # None
  PROVE  Launched(p) = [state |-> "running", ver |-> binary, config |-> config[p]]
BY DEF Launched

LEMMA LaunchedType == ASSUME TypeOK, NEW p \in Proxy PROVE Launched(p) \in Process
<1>1. CASE binary \in Version /\ config[p] # None
  BY <1>1, LaunchedRuns DEF TypeOK, Process
<1>2. CASE ~ (binary \in Version /\ config[p] # None)
  BY <1>2 DEF Launched, Process
<1> QED BY <1>1, <1>2

-----------------------------------------------------------------------------
LEMMA DeployKeeps == ASSUME EInv, Deploy PROVE EInv'
<1>1. /\ pc \in {"ok", "failed"} /\ rollouts < MaxRollouts /\ rollouts' = rollouts + 1
      /\ request' \in Request
      /\ smooth' = (smooth /\ Uniform(request') /\ request'.skip = "nothing")
      /\ repeats' = (pc = "ok" /\ request'.ver = request.ver /\ request'.config = request.config)
      /\ turn' = 1 /\ pc' = "begin"
      /\ UNCHANGED <<binary, config, unit, proc, pre, failures>>
  BY DEF Deploy, host
<1>2. rollouts \in 1..MaxRollouts
  BY DEF EInv, TypeOK
<1>3. TypeOK'
  <2>1. rollouts' \in 1..MaxRollouts
    BY <1>1, <1>2, RolloutBounds
  <2>2. smooth' \in BOOLEAN /\ repeats' \in BOOLEAN
    BY <1>1
  <2> QED BY <1>1, <2>1, <2>2, OneIsProxy DEF EInv, TypeOK
<1>4. \A p \in Proxy : ~ Done(p)'
  BY <1>1 DEF Done, Proxy
<1>5. Copied' /\ Written' /\ Fetched' /\ PreTaken'
  BY <1>1, <1>4 DEF Copied, Written, Fetched, PreTaken
<1>6. FirstTime' /\ Launching'
  BY <1>1, <1>2, <1>4 DEF FirstTime, Launching
<1>7. Repeating'
  <2> SUFFICES ASSUME repeats', Uniform(request)', NEW p \in Proxy
               PROVE  (config[p] = request.config[p] /\ unit[p] = TRUE /\ binary = request.ver[p])'
    BY <1>1 DEF Repeating, InSession
  <2>1. pc = "ok" /\ request'.ver = request.ver /\ request'.config = request.config
    BY <1>1
  <2>2. Done(p) /\ Uniform(request)
    BY <2>1 DEF Done, Uniform
  <2> QED BY <1>1, <2>1, <2>2 DEF EInv, Copied, Written, Fetched
<1>8. Smoothly'
  <2> SUFFICES ASSUME smooth' PROVE Smoothly'
    BY DEF Smoothly
  <2>1. smooth /\ Uniform(request') /\ request'.skip = "nothing" /\ pc = "ok"
    BY <1>1 DEF EInv, Smoothly
  <2>2. \A p \in Proxy : Done(p)
    BY <2>1 DEF Done
  <2>3. \A p \in Proxy : Running(p) /\ config[p] # None /\ binary \in Version
                            /\ proc[p].config = config[p]
    BY <2>1, <2>2 DEF EInv, Smoothly
  <2>4. proc[1].ver = binary
    BY <2>1, <2>3, OneIsProxy DEF EInv, Smoothly
  <2> QED BY <1>1, <2>1, <2>3, <2>4 DEF Smoothly, Running
<1> QED BY <1>3, <1>5, <1>6, <1>7, <1>8 DEF EInv

LEMMA BeginKeeps == ASSUME EInv, Begin(turn) PROVE EInv'
<1>1. /\ pc = "begin" /\ pre' = Hashes(turn) /\ pc' = "config"
      /\ UNCHANGED <<binary, config, unit, proc, turn, request, smooth, repeats, failures, rollouts>>
  BY DEF Begin, host, history
<1>2. TypeOK'
  BY <1>1 DEF EInv, TypeOK, Hashes
<1>3. \A p \in Proxy : Done(p)' <=> Done(p)
  BY <1>1 DEF Done
<1>4. Copied' /\ Written' /\ Fetched' /\ PreTaken'
  BY <1>1, <1>3 DEF EInv, Copied, Written, Fetched, PreTaken, Hashes
<1>5. FirstTime'
  <2>1. turn \in Proxy /\ ~ Done(turn)
    BY <1>1 DEF EInv, TypeOK, Done, Proxy
  <2> QED BY <1>1, <1>3, <2>1 DEF EInv, FirstTime, Hashes, InSession
<1>6. Launching' /\ Repeating'
  BY <1>1, <1>3 DEF EInv, Launching, Current, Repeating, InSession, Hashes
<1>7. Smoothly'
  BY <1>1, <1>3 DEF EInv, Smoothly, Running
<1> QED BY <1>2, <1>4, <1>5, <1>6, <1>7 DEF EInv

LEMMA CopyConfigKeeps == ASSUME EInv, CopyConfig(turn) PROVE EInv'
<1>1. /\ pc = "config" /\ pc' = "binary"
      /\ config' = [config EXCEPT ![turn] = request.config[turn]]
      /\ UNCHANGED <<binary, unit, proc, turn, pre, request, smooth, repeats, failures, rollouts>>
  BY DEF CopyConfig, history
<1>2. /\ turn \in Proxy /\ request \in Request
      /\ config \in [Proxy -> Config \union {None}]
  BY DEF EInv, TypeOK
<1>3. request.config[turn] \in Config /\ request.config[turn] # None
  BY <1>2, NoneAssumption DEF Request
<1>4. TypeOK'
  BY <1>1, <1>2, <1>3 DEF EInv, TypeOK
<1>5. \A p \in Proxy : Done(p)' <=> Done(p)
  BY <1>1 DEF Done
<1>6. ~ Done(turn)
  BY <1>1, <1>2 DEF Done, Proxy
<1>7. Copied' /\ Written' /\ Fetched' /\ PreTaken'
  BY <1>1, <1>2, <1>5, <1>6 DEF EInv, Copied, Written, Fetched, PreTaken, Hashes
<1>8. FirstTime' /\ Launching'
  BY <1>1, <1>5 DEF EInv, FirstTime, InSession, Launching, Current
<1>9. Repeating'
  <2> SUFFICES ASSUME repeats, Uniform(request) PROVE Repeating'
    BY <1>1 DEF Repeating
  <2>1. config' = config
    BY <1>1, <1>2 DEF EInv, Repeating
  <2> QED BY <1>1, <2>1 DEF EInv, Repeating, InSession, Hashes
<1>10. Smoothly'
  <2> SUFFICES ASSUME smooth, NEW p \in Proxy
               PROVE  /\ (Running(p) \/ (rollouts = 1 /\ ~ Done(p) /\ proc[p] = Stopped))'
                      /\ Running(p)' =>
                           /\ config'[p] # None /\ binary \in Version
                           /\ \/ proc[p].config = config'[p]
                              \/ p = turn /\ proc[p].config = pre[2]
    BY <1>1 DEF EInv, Smoothly, Running
  <2>1. Running(p)' <=> Running(p)
    BY <1>1 DEF Running
  <2>2. Running(p) => proc[p].config = config[p] /\ config[p] # None /\ binary \in Version
    BY <1>1 DEF EInv, Smoothly
  <2>3. pre[2] = config[turn]
    BY <1>1 DEF EInv, PreTaken, Hashes
  <2>4. p = turn => config'[p] # None
    BY <1>1, <1>2, <1>3
  <2>5. p # turn => config'[p] = config[p]
    BY <1>1, <1>2
  <2>6. (Running(p) \/ (rollouts = 1 /\ ~ Done(p) /\ proc[p] = Stopped))'
    BY <1>1, <1>5, <2>1 DEF EInv, Smoothly
  <2> QED BY <2>1, <2>2, <2>3, <2>4, <2>5, <2>6
<1> QED BY <1>4, <1>7, <1>8, <1>9, <1>10 DEF EInv

LEMMA FetchKeeps == ASSUME EInv, Fetch(turn) PROVE EInv'
<1>1. /\ pc = "binary" /\ pc' = "unit" /\ binary' = request.ver[turn]
      /\ UNCHANGED <<config, unit, proc, turn, pre, request, smooth, repeats, failures, rollouts>>
  BY DEF Fetch, history
<1>2. turn \in Proxy /\ binary' \in Version
  BY <1>1 DEF EInv, TypeOK, Request
<1>3. TypeOK'
  BY <1>1, <1>2 DEF EInv, TypeOK
<1>4. \A p \in Proxy : Done(p)' <=> Done(p)
  BY <1>1 DEF Done
<1>5. Copied' /\ Written' /\ PreTaken'
  BY <1>1, <1>4 DEF EInv, Copied, Written, PreTaken
<1>6. Fetched'
  BY <1>1, <1>2 DEF EInv, Fetched, Uniform
<1>7. FirstTime' /\ Launching'
  BY <1>1, <1>4 DEF EInv, FirstTime, InSession, Launching, Current
<1>8. Repeating'
  BY <1>1, <1>2 DEF EInv, Repeating, InSession, Hashes
<1>9. Smoothly'
  <2> SUFFICES ASSUME smooth PROVE Smoothly'
    BY <1>1 DEF Smoothly
  <2>1. /\ Uniform(request) /\ request.skip = "nothing"
        /\ Running(1) => proc[1].ver = binary
    BY <1>1 DEF EInv, Smoothly
  <2>2. CASE turn = 1
    BY <1>1, <1>2, <1>4, <2>1, <2>2 DEF EInv, Smoothly, Running, PreTaken
  <2>3. CASE turn # 1
    <3>1. turn > 1
      BY <1>2, <2>3 DEF Proxy
    <3>2. binary' = binary
      BY <1>1, <1>2, <2>1, <3>1 DEF EInv, Fetched
    <3> QED BY <1>1, <1>4, <2>1, <3>2 DEF EInv, Smoothly, Running
  <2> QED BY <2>2, <2>3
<1> QED BY <1>3, <1>5, <1>6, <1>7, <1>8, <1>9 DEF EInv

LEMMA WriteUnitKeeps == ASSUME EInv, WriteUnit(turn) PROVE EInv'
<1>1. /\ pc = "unit" /\ pc' = "start" /\ unit' = [unit EXCEPT ![turn] = TRUE]
      /\ UNCHANGED <<binary, config, proc, turn, pre, request, smooth, repeats, failures, rollouts>>
  BY DEF WriteUnit, history
<1>2. turn \in Proxy /\ unit \in [Proxy -> BOOLEAN]
  BY DEF EInv, TypeOK
<1>3. TypeOK'
  BY <1>1, <1>2 DEF EInv, TypeOK
<1>4. \A p \in Proxy : Done(p)' <=> Done(p)
  BY <1>1 DEF Done
<1>5. Copied' /\ Written' /\ Fetched' /\ PreTaken'
  BY <1>1, <1>2, <1>4 DEF EInv, Copied, Written, Fetched, PreTaken
<1>6. FirstTime' /\ Launching'
  BY <1>1, <1>2, <1>4 DEF EInv, FirstTime, InSession, Launching, Current
<1>7. Repeating'
  BY <1>1, <1>2 DEF EInv, Repeating, InSession, Hashes
<1>8. Smoothly'
  BY <1>1, <1>4 DEF EInv, Smoothly, Running
<1> QED BY <1>3, <1>5, <1>6, <1>7, <1>8 DEF EInv

LEMMA EndSessionKeeps == ASSUME EInv, NEW p \in Proxy, p = turn, EndSession(p) PROVE EInv'
<1>1. /\ pc = "start"
      /\ proc' = IF Restarts(p) THEN [proc EXCEPT ![p] = Launched(p)] ELSE proc
      /\ IF p < NProxy THEN turn' = p + 1 /\ pc' = "begin" ELSE pc' = "ok" /\ turn' = turn
      /\ UNCHANGED <<binary, config, unit, pre, request, smooth, repeats, failures, rollouts>>
  BY DEF EndSession, history
<1>2. /\ turn \in Proxy /\ ~ Done(p) /\ proc \in [Proxy -> Process]
      /\ request \in Request
  BY <1>1 DEF EInv, TypeOK, Done, Proxy
<1>3. turn' \in Proxy /\ pc' \in {"begin", "ok"}
  BY <1>1, <1>2, NProxyAssumption DEF Proxy
<1>4. TypeOK'
  <2>1. proc' \in [Proxy -> Process]
    BY <1>1, <1>2, LaunchedType DEF EInv
  <2> QED BY <1>1, <1>3, <2>1 DEF EInv, TypeOK
<1>5. \A q \in Proxy : Done(q)' => Done(q) \/ q = p
  BY <1>1, <1>2, NProxyAssumption DEF Done, Proxy
<1>6. config[p] = request.config[p] /\ unit[p] = TRUE
  BY <1>1, <1>2 DEF EInv, Copied, Written
<1>7. config[p] # None
  BY <1>2, <1>6, NoneAssumption DEF Request
<1>8. Copied' /\ Written' /\ PreTaken'
  BY <1>1, <1>3, <1>5, <1>6 DEF EInv, Copied, Written, PreTaken
<1>9. Fetched'
  BY <1>1 DEF EInv, Fetched
<1>10. FirstTime'
  <2>1. \A q \in Proxy : ~ Done(q)' => ~ Done(q) /\ q # p
    BY <1>1, <1>2, NProxyAssumption DEF Done, Proxy
  <2> QED BY <1>1, <1>3, <2>1 DEF EInv, FirstTime, InSession
<1>11. Uniform(request) => binary = request.ver[p] /\ binary \in Version
  BY <1>1, <1>2 DEF EInv, Fetched, Request
<1>12. Uniform(request) =>
         Launched(p) = [state |-> "running", ver |-> request.ver[p], config |-> request.config[p]]
  BY <1>2, <1>6, <1>7, <1>11, LaunchedRuns
<1>13. Hashes(p)[3] = TRUE /\ Hashes(p)[2] = config[p] /\ Hashes(p)[1] = binary
  BY <1>6 DEF Hashes
<1>14. request.skip = "nothing" /\ (rollouts = 1 \/ request.restart) => Restarts(p)
  <2>1. rollouts = 1 => pre[3] = FALSE
    BY <1>1 DEF EInv, FirstTime, InSession
  <2> QED BY <1>13, <2>1 DEF Restarts
<1>15. Launching'
  <2> SUFFICES ASSUME request.skip = "nothing", Uniform(request),
                      rollouts = 1 \/ request.restart, NEW q \in Proxy, Done(q)'
               PROVE  Current(q)'
    BY <1>1 DEF Launching, Uniform
  <2>1. proc' = [proc EXCEPT ![p] = Launched(p)]
    BY <1>1, <1>14
  <2>2. CASE q = p
    BY <1>1, <1>2, <1>12, <2>1, <2>2 DEF Current
  <2>3. CASE q # p
    <3>1. Done(q) /\ proc'[q] = proc[q]
      BY <1>2, <1>5, <2>1, <2>3
    <3> QED BY <1>1, <3>1 DEF EInv, Launching, Current
  <2> QED BY <2>2, <2>3
<1>16. Repeating'
  BY <1>1, <1>3 DEF EInv, Repeating, InSession
<1>17. Smoothly'
  <2> SUFFICES ASSUME smooth PROVE Smoothly'
    BY <1>1 DEF Smoothly
  <2>1. pc' # "failed" /\ Uniform(request) /\ request.skip = "nothing"
    BY <1>1, <1>3 DEF EInv, Smoothly
  <2>2. ASSUME NEW q \in Proxy, q # p
        PROVE  /\ proc'[q] = proc[q]
               /\ Running(q) \/ (rollouts = 1 /\ ~ Done(q)' /\ proc[q] = Stopped)
               /\ Running(q) => config[q] # None /\ binary \in Version /\ proc[q].config = config[q]
    <3>1. proc'[q] = proc[q]
      BY <1>1, <1>2, <2>2
    <3> QED BY <1>1, <1>5, <2>2, <3>1 DEF EInv, Smoothly
  <2>3. Running(p)' /\ proc'[p].config = config[p]
    <3>1. CASE Restarts(p)
      BY <1>1, <1>2, <1>6, <1>12, <2>1, <3>1 DEF Running
    <3>2. CASE ~ Restarts(p)
      <4>1. proc' = proc /\ pre = Hashes(p) /\ rollouts # 1
        BY <1>1, <1>14, <2>1, <3>2 DEF Restarts
      <4>2. Running(p) /\ (proc[p].config = config[p] \/ proc[p].config = pre[2])
        BY <1>2, <4>1 DEF EInv, Smoothly
      <4> QED BY <1>13, <4>1, <4>2 DEF Running
    <3> QED BY <3>1, <3>2
  <2>4. Running(1)' => proc'[1].ver = binary
    <3>1. CASE p = 1 /\ Restarts(p)
      BY <1>1, <1>2, <1>11, <1>12, <2>1, <3>1
    <3>2. CASE p = 1 /\ ~ Restarts(p)
      <4>1. proc' = proc /\ pre = Hashes(p)
        BY <1>1, <2>1, <3>2 DEF Restarts
      <4> QED BY <1>1, <1>13, <3>2, <4>1 DEF EInv, Smoothly, Running
    <3>3. CASE p # 1
      <4>1. proc'[1] = proc[1]
        BY <2>2, <3>3, OneIsProxy
      <4> QED BY <3>3, <4>1 DEF EInv, Smoothly, Running
    <3> QED BY <3>1, <3>2, <3>3
  <2>5. ASSUME NEW q \in Proxy
        PROVE  /\ Running(q)' \/ (rollouts = 1 /\ ~ Done(q)' /\ proc'[q] = Stopped)
               /\ Running(q)' => config[q] # None /\ binary \in Version /\ proc'[q].config = config[q]
    <3>1. CASE q = p
      BY <1>7, <1>11, <2>1, <2>3, <3>1
    <3>2. CASE q # p
      BY <2>2, <3>2 DEF Running
    <3> QED BY <3>1, <3>2
  <2> QED BY <1>1, <2>1, <2>4, <2>5 DEF Smoothly
<1> QED BY <1>4, <1>8, <1>9, <1>10, <1>15, <1>16, <1>17 DEF EInv

LEMMA FailKeeps == ASSUME EInv, Fail(turn) PROVE EInv'
<1>1. /\ pc \notin {"ok", "failed"} /\ failures < MaxFailures
      /\ failures' = failures + 1 /\ pc' = "failed" /\ smooth' = FALSE
      /\ binary' = binary \/ (pc = "binary" /\ binary # request.ver[turn] /\ binary' = Damaged)
      /\ UNCHANGED <<config, unit, proc, turn, pre, request, repeats, rollouts>>
  BY DEF Fail
<1>2. turn \in Proxy /\ failures \in 0..MaxFailures
  BY DEF EInv, TypeOK
<1>3. TypeOK'
  <2>1. failures' \in 0..MaxFailures
    BY <1>1, <1>2, RolloutBounds
  <2>2. smooth' \in BOOLEAN
    BY <1>1
  <2> QED BY <1>1, <2>1, <2>2 DEF EInv, TypeOK
<1>4. \A p \in Proxy : Done(p)' => Done(p)
  BY <1>1 DEF Done
<1>5. Copied' /\ Written' /\ Fetched' /\ PreTaken'
  BY <1>1, <1>4 DEF EInv, Copied, Written, Fetched, PreTaken
<1>6. FirstTime' /\ Launching' /\ Smoothly'
  BY <1>1 DEF FirstTime, Launching, Smoothly
<1>7. Repeating'
  <2> SUFFICES ASSUME repeats, Uniform(request) PROVE Repeating'
    BY <1>1 DEF Repeating
  <2>1. binary' = binary
    BY <1>1, <1>2 DEF EInv, Repeating
  <2> QED BY <1>1, <2>1 DEF EInv, Repeating, InSession
<1> QED BY <1>3, <1>5, <1>6, <1>7 DEF EInv

LEMMA DieKeeps == ASSUME EInv, NEW p \in Proxy, Die(p) PROVE EInv'
<1>1. /\ Running(p) /\ proc' = [proc EXCEPT ![p] = Launched(p)]
      /\ UNCHANGED <<binary, config, unit, turn, pc, pre, request, smooth, repeats, failures, rollouts>>
  BY DEF Die, history, Running
<1>2. proc \in [Proxy -> Process] /\ request \in Request
  BY DEF EInv, TypeOK
<1>3. TypeOK'
  <2>1. proc' \in [Proxy -> Process]
    BY <1>1, <1>2, LaunchedType DEF EInv
  <2> QED BY <1>1, <2>1 DEF EInv, TypeOK
<1>4. \A q \in Proxy : Done(q)' <=> Done(q)
  BY <1>1 DEF Done
<1>5. \A q \in Proxy : q # p => proc'[q] = proc[q]
  BY <1>1, <1>2
<1>6. proc'[p] = Launched(p)
  BY <1>1, <1>2
<1>7. Copied' /\ Written' /\ Fetched' /\ PreTaken' /\ FirstTime' /\ Repeating'
  BY <1>1, <1>4 DEF EInv, Copied, Written, Fetched, PreTaken, FirstTime, Repeating, InSession, Hashes
<1>8. Launching'
  <2> SUFFICES ASSUME pc # "failed", request.skip = "nothing", Uniform(request),
                      rollouts = 1 \/ request.restart, NEW q \in Proxy, Done(q)
               PROVE  Current(q)'
    BY <1>1, <1>4 DEF Launching
  <2>1. Current(q)
    BY DEF EInv, Launching
  <2>2. CASE q # p
    BY <1>1, <1>5, <2>1, <2>2 DEF Current
  <2>3. CASE q = p
    <3>1. config[p] = request.config[p] /\ config[p] # None
      BY <1>2, <2>3, NoneAssumption DEF EInv, Copied, Request
    <3>2. turn > 1 \/ pc = "ok"
      BY <2>3 DEF Done, EInv, TypeOK, Proxy
    <3>3. binary = request.ver[p] /\ binary \in Version
      BY <1>2, <3>2 DEF EInv, Fetched, Request
    <3>4. Launched(p) = [state |-> "running", ver |-> request.ver[p], config |-> request.config[p]]
      BY <3>1, <3>3, LaunchedRuns
    <3> QED BY <1>1, <1>6, <2>3, <3>4 DEF Current
  <2> QED BY <2>2, <2>3
<1>9. Smoothly'
  <2> SUFFICES ASSUME smooth PROVE Smoothly'
    BY <1>1 DEF Smoothly
  <2>1. config[p] # None /\ binary \in Version
    BY <1>1 DEF EInv, Smoothly
  <2>2. proc'[p] = [state |-> "running", ver |-> binary, config |-> config[p]]
    BY <1>6, <2>1, LaunchedRuns
  <2>3. proc'[p].state = "running" /\ proc'[p].config = config[p] /\ proc'[p].ver = binary
    BY <2>2
  <2>4. ASSUME NEW q \in Proxy
        PROVE  /\ (Running(q) \/ (rollouts = 1 /\ ~ Done(q) /\ proc[q] = Stopped))'
               /\ Running(q)' =>
                    /\ config[q] # None /\ binary \in Version
                    /\ \/ proc'[q].config = config[q]
                       \/ q = turn /\ pc \in {"binary", "unit", "start"} /\ proc'[q].config = pre[2]
    <3>1. CASE q = p
      BY <2>1, <2>3, <3>1 DEF Running
    <3>2. CASE q # p
      BY <1>1, <1>4, <1>5, <3>2 DEF EInv, Smoothly, Running
    <3> QED BY <3>1, <3>2
  <2>5. Running(1)' => \/ proc'[1].ver = binary
                       \/ turn = 1 /\ pc \in {"unit", "start"} /\ proc'[1].ver = pre[1]
    <3>1. CASE p = 1
      BY <2>3, <3>1
    <3>2. CASE p # 1
      <4>1. proc'[1] = proc[1]
        BY <1>5, <3>2, OneIsProxy
      <4>2. Running(1) => \/ proc[1].ver = binary
                          \/ turn = 1 /\ pc \in {"unit", "start"} /\ proc[1].ver = pre[1]
        BY DEF EInv, Smoothly
      <4> QED BY <4>1, <4>2 DEF Running
    <3> QED BY <3>1, <3>2
  <2>6. pc # "failed" /\ Uniform(request) /\ request.skip = "nothing"
    BY DEF EInv, Smoothly
  <2> QED BY <1>1, <2>4, <2>5, <2>6 DEF Smoothly
<1> QED BY <1>3, <1>7, <1>8, <1>9 DEF EInv

LEMMA EInvNext == ASSUME EInv, [Next]_vars PROVE EInv'
<1>1. CASE Deploy
  BY <1>1, DeployKeeps
<1>2. CASE Session(turn)
  <2>1. turn \in Proxy
    BY DEF EInv, TypeOK
  <2> QED BY <1>2, <2>1, BeginKeeps, CopyConfigKeeps, FetchKeeps, WriteUnitKeeps,
             EndSessionKeeps, FailKeeps DEF Session
<1>3. CASE \E p \in Proxy : Die(p)
  BY <1>3, DieKeeps
<1>4. CASE UNCHANGED vars
  BY <1>4 DEF EInv, TypeOK, Copied, Written, Fetched, PreTaken, FirstTime, Launching,
              Repeating, Smoothly, Done, InSession, Running, Hashes, Current,
              vars, host, history
<1> QED BY <1>1, <1>2, <1>3, <1>4 DEF Next, Content

LEMMA EInvAlways == Spec => []EInv
<1>1. EInv /\ [Next]_vars => EInv'
  BY EInvNext
<1> QED BY EInvInit, <1>1, PTL DEF Spec

-----------------------------------------------------------------------------
(* Type correctness of what the host and the sessions keep.                *)
THEOREM EnvoyTypes == Spec => []TypeOK
<1>1. EInv => TypeOK
  BY DEF EInv
<1> QED BY <1>1, EInvAlways, PTL

(* A first or forced rollout that ends well leaves every proxy running the *)
(* version and configuration asked for, whatever rollouts that failed half *)
(* way left on the host, if the proxies ask for one version.               *)
THEOREM ForcedConverges == Spec => []ForcedRolloutConverges
<1>1. EInv => ForcedRolloutConverges
  BY DEF EInv, Launching, ForcedRolloutConverges, Done
<1> QED BY <1>1, EInvAlways, PTL

LEMMA FirstGetsIt == ASSUME EInv PROVE FirstProxyFollows
<1> SUFFICES ASSUME pc = "ok", smooth
             PROVE  /\ Current(1)
                    /\ \A p \in Proxy : Running(p) /\ proc[p].config = request.config[p]
  BY DEF FirstProxyFollows, Running
<1>1. \A p \in Proxy : Done(p)
  BY DEF Done
<1>2. \A p \in Proxy : Running(p) /\ proc[p].config = request.config[p]
  BY <1>1 DEF EInv, Smoothly, Copied
<1>3. Uniform(request) /\ proc[1].ver = binary
  BY <1>2, OneIsProxy DEF EInv, Smoothly
<1>4. proc[1].ver = request.ver[1]
  BY <1>3, OneIsProxy DEF EInv, Fetched
<1>5. proc[1] \in [state : {"running"}, ver : Version, config : Config]
  BY <1>2, OneIsProxy DEF EInv, TypeOK, Process, Running, Stopped, GivenUp
<1>6. Current(1)
  BY <1>2, <1>4, <1>5, OneIsProxy DEF Current, Running
<1> QED BY <1>2, <1>6

(* While nothing was skipped, mixed or lost, each rollout gives the first  *)
(* proxy what was asked for and every proxy its configuration: the hashes  *)
(* the script compares miss no change of these.                            *)
THEOREM FirstFollows == Spec => []FirstProxyFollows
<1>1. EInv => FirstProxyFollows
  BY FirstGetsIt
<1> QED BY <1>1, EInvAlways, PTL

(* A session restarts its proxy only for a reason: in a rollout that       *)
(* repeats one that succeeded, without --restart, no file has changed.     *)
THEOREM RepeatIsHarmless == Spec => NoNeedlessRestart
<1>1. ASSUME EInv, EndSession(turn), repeats, Uniform(request), ~ request.restart
      PROVE  ~ Restarts(turn)
  <2>1. pre = Hashes(turn)
    BY <1>1 DEF EInv, Repeating, InSession, EndSession
  <2> QED BY <1>1, <2>1 DEF Restarts
<1> QED BY <1>1, EInvAlways, PTL DEF NoNeedlessRestart

=============================================================================
