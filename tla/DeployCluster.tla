--------------------------- MODULE DeployCluster ----------------------------
(***************************************************************************)
(* Manager.DeployCluster: the masters one after the other, then one        *)
(* goroutine per volume and filer server, then, when all of those ended    *)
(* and deployErrors is empty, the envoy proxies one after the other.       *)
(*                                                                         *)
(* A session with a server (dial, upload, run the install script) is two   *)
(* steps, its start and its end, and its end may be an error.  What the    *)
(* session does to the host is the subject of InstallHost.                 *)
(*                                                                         *)
(* Goroutines 1..NVolume deploy the volume servers, the others the filers: *)
(* the order in which the two loops start them.                            *)
(***************************************************************************)
EXTENDS DeployErrors, FiniteSets

CONSTANTS
  NMaster, NVolume, NFiler, NEnvoy,   \* lengths of the specification's lists
  MaxFailures                         \* bound: sessions and lookups that fail

ASSUME ServerCounts ==
  /\ NMaster \in Nat /\ NVolume \in Nat /\ NFiler \in Nat /\ NEnvoy \in Nat
  /\ NGo = NVolume + NFiler
ASSUME MaxFailuresAssumption == MaxFailures \in Nat

Master == 1..NMaster
Envoy  == 1..NEnvoy
Kind   == {"master", "volume", "filer", "envoy"}
Status == {"idle", "running", "ok", "failed"}

VARIABLES
  component,  \* m.ComponentToDeploy, "" for every component
  pc,         \* the program counter of DeployCluster
  index,      \* the loop variable of the loop pc is in
  master,     \* master[i], server[g], envoy[j]: the session with a server
  server,
  envoy,
  wg,         \* the counter of the wait group
  result      \* what DeployCluster returned: kind and server

mainVars == <<component, pc, index, wg, result>>
sessions == <<master, server, envoy>>
vars     == <<mainVars, sessions, errVars, step>>

Running == [kind |-> "none", of |-> 0]
Nil     == [kind |-> "nil",  of |-> 0]

shouldInstall(c) == component = "" \/ component = c

(* Does the program start goroutine g? *)
Selected(g) == shouldInstall(IF g <= NVolume THEN "volume" ELSE "filer")

Failures ==
  Cardinality({i \in Master : master[i] = "failed"})
    + Cardinality({g \in Goroutine : server[g] = "failed"})
    + Cardinality({j \in Envoy : envoy[j] = "failed"})

MayFail == Failures < MaxFailures

Init ==
  /\ ErrInit
  /\ component \in Kind \union {""}
  /\ pc = "prepare" /\ index = 1
  /\ master = [i \in Master |-> "idle"]
  /\ server = [g \in Goroutine |-> "idle"]
  /\ envoy  = [j \in Envoy |-> "idle"]
  /\ step   = [g \in Goroutine |-> "idle"]
  /\ wg = 0
  /\ result = Running

Return(r) == pc' = "returned" /\ result' = r

-----------------------------------------------------------------------------
(* prepare: default values, the sudo password. *)
Prepare ==
  /\ pc = "prepare"
  /\ pc' = "masters"
  /\ UNCHANGED <<component, index, wg, result, sessions, errVars, step>>

BeginMaster ==
  /\ pc = "masters" /\ shouldInstall("master")
  /\ index \in Master /\ master[index] = "idle"
  /\ master' = [master EXCEPT ![index] = "running"]
  /\ UNCHANGED <<mainVars, server, envoy, errVars, step>>

(* Mutant: a master that fails is passed over. *)
EndMasterGoesOn ==
  /\ pc = "masters" /\ index \in Master /\ master[index] = "running"
  /\ \/ master' = [master EXCEPT ![index] = "ok"]
     \/ MayFail /\ master' = [master EXCEPT ![index] = "failed"]
  /\ index' = index + 1
  /\ UNCHANGED <<component, pc, result, wg, server, envoy, errVars, step>>

EndMaster ==
  /\ pc = "masters" /\ index \in Master /\ master[index] = "running"
  /\ \/ /\ master' = [master EXCEPT ![index] = "ok"]
        /\ index' = index + 1
        /\ UNCHANGED <<pc, result>>
     \/ /\ MayFail
        /\ master' = [master EXCEPT ![index] = "failed"]
        /\ Return([kind |-> "master", of |-> index])
        /\ UNCHANGED index
  /\ UNCHANGED <<component, wg, server, envoy, errVars, step>>

LeaveMasters ==
  /\ pc = "masters"
  /\ shouldInstall("master") => index > NMaster
  /\ pc' = "spawn" /\ index' = 1
  /\ UNCHANGED <<component, wg, result, sessions, errVars, step>>

(* Mutants: no wg.Add(1); and the function literal called without `go`. *)
SpawnWithoutAdd ==
  /\ pc = "spawn" /\ index \in Goroutine
  /\ index' = index + 1
  /\ IF Selected(index) THEN Goto(index, "session") ELSE UNCHANGED step
  /\ UNCHANGED <<component, pc, wg, result, sessions, errVars>>

SpawnInTurn ==
  /\ pc = "spawn" /\ index \in Goroutine
  /\ wg = 0
  /\ index' = index + 1
  /\ IF Selected(index)
       THEN wg' = wg + 1 /\ Goto(index, "session")
       ELSE UNCHANGED <<wg, step>>
  /\ UNCHANGED <<component, pc, result, sessions, errVars>>

(* One turn of the loops that start the goroutines. *)
Spawn ==
  /\ pc = "spawn" /\ index \in Goroutine
  /\ index' = index + 1
  /\ IF Selected(index)
       THEN wg' = wg + 1 /\ Goto(index, "session")
       ELSE UNCHANGED <<wg, step>>
  /\ UNCHANGED <<component, pc, result, sessions, errVars>>

LeaveSpawn ==
  /\ pc = "spawn" /\ index > NGo
  /\ pc' = "wait"
  /\ UNCHANGED <<component, index, wg, result, sessions, errVars, step>>

(* Mutants: no wg.Wait(); and an off-by-one in the look at deployErrors. *)
LookAtOnce ==
  /\ pc = "wait"
  /\ slice.len = 0
  /\ pc' = "release"
  /\ UNCHANGED <<component, index, wg, result, sessions, errVars, step>>

LookForTwo ==
  /\ pc = "wait" /\ wg = 0
  /\ IF slice.len > 1
       THEN Return([kind |-> "server", of |-> Cell(slice.ptr, 1)])
       ELSE pc' = "release" /\ UNCHANGED result
  /\ UNCHANGED <<component, index, wg, sessions, errVars, step>>

(* Mutant: the first error ends the command, as with an errgroup's context.*)
ReturnAtFirstError ==
  /\ pc = "wait" /\ (wg = 0 \/ slice.len > 0)
  /\ IF slice.len > 0
       THEN LET e == Cell(slice.ptr, 1) IN
            Return(IF e = NilError THEN Nil ELSE [kind |-> "server", of |-> e])
       ELSE pc' = "release" /\ UNCHANGED result
  /\ UNCHANGED <<component, index, wg, sessions, errVars, step>>

(* wg.Wait() and the look at deployErrors. *)
Wait ==
  /\ pc = "wait" /\ wg = 0
  /\ IF slice.len > 0
       THEN LET e == Cell(slice.ptr, 1) IN
            Return(IF e = NilError THEN Nil ELSE [kind |-> "server", of |-> e])
       ELSE pc' = "release" /\ UNCHANGED result
  /\ UNCHANGED <<component, index, wg, sessions, errVars, step>>

(* The latest envoy release is looked up once, before the first proxy. *)
LookupRelease ==
  /\ pc = "release"
  /\ \/ /\ ~ (shouldInstall("envoy") /\ NEnvoy > 0)
        /\ Return(Nil)
        /\ UNCHANGED index
     \/ /\ shouldInstall("envoy") /\ NEnvoy > 0
        /\ pc' = "envoys" /\ index' = 1
        /\ UNCHANGED result
     \/ /\ shouldInstall("envoy") /\ NEnvoy > 0
        /\ MayFail
        /\ Return([kind |-> "lookup", of |-> 0])
        /\ UNCHANGED index
  /\ UNCHANGED <<component, wg, sessions, errVars, step>>

BeginEnvoy ==
  /\ pc = "envoys" /\ index \in Envoy /\ envoy[index] = "idle"
  /\ envoy' = [envoy EXCEPT ![index] = "running"]
  /\ UNCHANGED <<mainVars, master, server, errVars, step>>

EndEnvoy ==
  /\ pc = "envoys" /\ index \in Envoy /\ envoy[index] = "running"
  /\ \/ /\ envoy' = [envoy EXCEPT ![index] = "ok"]
        /\ index' = index + 1
        /\ UNCHANGED <<pc, result>>
     \/ /\ MayFail
        /\ envoy' = [envoy EXCEPT ![index] = "failed"]
        /\ Return([kind |-> "envoy", of |-> index])
        /\ UNCHANGED index
  /\ UNCHANGED <<component, wg, master, server, errVars, step>>

LeaveEnvoys ==
  /\ pc = "envoys" /\ index > NEnvoy
  /\ Return(Nil)
  /\ UNCHANGED <<component, index, wg, sessions, errVars, step>>

-----------------------------------------------------------------------------
(* The goroutine of one volume or filer server. *)
BeginServer(g) ==
  /\ step[g] = "session" /\ server[g] = "idle"
  /\ server' = [server EXCEPT ![g] = "running"]
  /\ UNCHANGED <<mainVars, master, envoy, errVars, step>>

(* Mutant: the error is printed and not appended to deployErrors. *)
EndServerPrints(g) ==
  /\ step[g] = "session" /\ server[g] = "running"
  /\ \/ server' = [server EXCEPT ![g] = "ok"]
     \/ MayFail /\ server' = [server EXCEPT ![g] = "failed"]
  /\ Goto(g, "exit")
  /\ UNCHANGED <<mainVars, master, envoy, errVars>>

EndServer(g) ==
  /\ step[g] = "session" /\ server[g] = "running"
  /\ \/ /\ server' = [server EXCEPT ![g] = "ok"]
        /\ Goto(g, "exit")
     \/ /\ MayFail
        /\ server' = [server EXCEPT ![g] = "failed"]
        /\ Goto(g, "load")
  /\ UNCHANGED <<mainVars, master, envoy, errVars>>

(* The append of a failed goroutine: its steps are those of DeployErrors. *)
ReportError(g) ==
  /\ AppendError(g)
  /\ UNCHANGED <<mainVars, sessions>>

(* Mutant: wg.Done() is not deferred and skipped after an error. *)
DoneOnSuccess(g) ==
  /\ step[g] = "exit" /\ server[g] = "ok"
  /\ Goto(g, "done")
  /\ wg' = wg - 1
  /\ UNCHANGED <<component, pc, index, result, sessions, errVars>>

(* The deferred wg.Done(). *)
Done(g) ==
  /\ step[g] = "exit"
  /\ Goto(g, "done")
  /\ wg' = wg - 1
  /\ UNCHANGED <<component, pc, index, result, sessions, errVars>>

-----------------------------------------------------------------------------
MainStep ==
  \/ Prepare \/ BeginMaster \/ LeaveMasters \/ Spawn \/ LeaveSpawn \/ Wait
  \/ LookupRelease \/ BeginEnvoy \/ LeaveEnvoys

GoStep(g) == BeginServer(g) \/ ReportError(g) \/ Done(g)

SessionEnds == EndMaster \/ EndEnvoy \/ \E g \in Goroutine : EndServer(g)

Alive == fault = "none" /\ pc # "returned"

(* The process has exited; this step is there for the deadlock check. *)
Exited == ~Alive /\ UNCHANGED vars

Next ==
  \/ Alive /\ MainStep
  \/ Alive /\ \E g \in Goroutine : GoStep(g)
  \/ Alive /\ SessionEnds
  \/ Exited

Spec == Init /\ [][Next]_vars

(* The scheduler runs the program's own steps.  That a session ends is not *)
(* assumed: ssh.ClientConfig is given no timeout.                          *)
FairSpec ==
  /\ Spec
  /\ WF_vars(Alive /\ MainStep)
  /\ \A g \in Goroutine : WF_vars(Alive /\ GoStep(g))

-----------------------------------------------------------------------------
Result == [kind : {"none", "nil", "master", "server", "lookup", "envoy"}, of : Nat]

(* The types of the state; wg is never negative (wg.Done() would panic):    *)
(* every wg.Done() is preceded by its wg.Add(1).                           *)
MainTypeOK ==
  /\ component \in Kind \union {""}
  /\ pc \in {"prepare", "masters", "spawn", "wait", "release", "envoys", "returned"}
  /\ index \in Nat
  /\ master \in [Master -> Status]
  /\ server \in [Goroutine -> Status]
  /\ envoy \in [Envoy -> Status]
  /\ result \in Result

TypeOK == ErrTypeOK /\ MainTypeOK /\ wg \in Nat

(* No volume or filer server is contacted before every selected master is  *)
(* deployed, and no envoy proxy before every selected volume and filer     *)
(* server is: the phases of DeployCluster, which rest on deployErrors      *)
(* being non-empty after any failure however the appends interleave.       *)
PhaseOrder ==
  /\ (\E g \in Goroutine : server[g] # "idle") =>
        (shouldInstall("master") => \A i \in Master : master[i] = "ok")
  /\ (\E j \in Envoy : envoy[j] # "idle") =>
        \A g \in Goroutine : Selected(g) => server[g] = "ok"

(* When DeployCluster looks at deployErrors or returns, no goroutine still *)
(* has a session open or an append under way: wg.Wait() covers them all.   *)
WaitCoversGoroutines ==
  pc \in {"release", "envoys", "returned"} =>
    \A g \in Goroutine : step[g] \in {"idle", "done"}

(* An error DeployCluster returns is the error of a session that failed,   *)
(* never a stale or half-written element of deployErrors.                  *)
ReportedErrorIsGenuine ==
  /\ result.kind = "master" => master[result.of] = "failed"
  /\ result.kind = "server" => result.of \in Goroutine /\ server[result.of] = "failed"
  /\ result.kind = "envoy"  => envoy[result.of] = "failed"

(* DeployCluster returns nil only when everything selected is deployed.    *)
SuccessMeansDeployed ==
  result = Nil =>
    /\ shouldInstall("master") => \A i \in Master : master[i] = "ok"
    /\ \A g \in Goroutine : Selected(g) => server[g] = "ok"
    /\ shouldInstall("envoy") => \A j \in Envoy : envoy[j] = "ok"

(* As long as a single session fails, a failure is never lost: a server    *)
(* that is not deployed is an error of the command.                        *)
SingleFailureReported == Failures <= 1 => SuccessMeansDeployed

(* A session that hangs holds back no other server of its phase: once the  *)
(* masters are deployed, every selected volume and filer server is         *)
(* contacted, unless the process dies of the race on deployErrors.         *)
EveryServerContacted ==
  pc = "spawn" ~>
    (fault # "none" \/ \A g \in Goroutine : Selected(g) => server[g] # "idle")

(* If every session that starts ends, DeployCluster returns: the masters'  *)
(* and proxies' loops end and wg.Wait() is released.                       *)
Terminates ==
  (/\ \A i \in Master : []<>(master[i] # "running")
   /\ \A g \in Goroutine : []<>(server[g] # "running")
   /\ \A j \in Envoy : []<>(envoy[j] # "running"))
  => <>~Alive

-----------------------------------------------------------------------------
(* What the state says of the rollout as a whole. *)
Outcome ==
  IF fault # "none"      THEN "crashed"
  ELSE IF pc # "returned" THEN "running"
  ELSE IF result = Nil    THEN "success" ELSE "error"

Promised == INSTANCE Rollout WITH outcome <- Outcome

(* DeployCluster is a rollout in phases: it contacts each server at most   *)
(* once and only when the phases before are complete, returns when no      *)
(* session is open, and calls a rollout with a failed server a success, or *)
(* dies, only when two goroutines' errors clash in deployErrors.           *)
ImplementsRollout == Promised!Spec

=============================================================================
