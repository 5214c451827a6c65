------------------------------ MODULE Rollout -------------------------------
(***************************************************************************)
(* What Manager.DeployCluster promises of a rollout, without its program   *)
(* counter, goroutines, wait group and error slice: which server may be    *)
(* contacted when, and what the command may say at the end.  DeployCluster *)
(* implements it, and what its race can do is part of the promise: when    *)
(* the sessions of two volume or filer servers fail, the command may die   *)
(* or call the rollout a success.                                          *)
(***************************************************************************)
EXTENDS Naturals

CONSTANTS NMaster, NVolume, NGo, NEnvoy

VARIABLES
  component,              \* the component asked for, "" for all
  master, server, envoy,  \* the session with each server
  outcome                 \* "running", "success", "error" or "crashed"

vars == <<component, master, server, envoy, outcome>>

asked(c) == component = "" \/ component = c

(* Volume servers come first among the servers that are deployed at once. *)
Wanted(g) == asked(IF g <= NVolume THEN "volume" ELSE "filer")

MastersUp == asked("master") => \A i \in 1..NMaster : master[i] = "ok"
ServersUp == \A g \in 1..NGo : Wanted(g) => server[g] = "ok"
EnvoysUp  == asked("envoy") => \A j \in 1..NEnvoy : envoy[j] = "ok"

Failed(status) == \E s \in DOMAIN status : status[s] = "failed"
Busy(status)   == \E s \in DOMAIN status : status[s] = "running"

(* Two errors that may overwrite each other. *)
ErrorsClash == \E g, h \in 1..NGo : g # h /\ server[g] = "failed" /\ server[h] = "failed"

Init ==
  /\ component \in {"", "master", "volume", "filer", "envoy"}
  /\ master = [i \in 1..NMaster |-> "idle"]
  /\ server = [g \in 1..NGo |-> "idle"]
  /\ envoy  = [j \in 1..NEnvoy |-> "idle"]
  /\ outcome = "running"

-----------------------------------------------------------------------------
(* Masters, and later the proxies, one after the other; the volume and     *)
(* filer servers in any order.  Nobody is contacted twice.                 *)
ContactMaster(i) ==
  /\ asked("master") /\ master[i] = "idle"
  /\ \A k \in 1..i - 1 : master[k] = "ok"
  /\ master' = [master EXCEPT ![i] = "running"]
  /\ UNCHANGED <<component, server, envoy, outcome>>

ContactServer(g) ==
  /\ Wanted(g) /\ server[g] = "idle"
  /\ MastersUp
  /\ server' = [server EXCEPT ![g] = "running"]
  /\ UNCHANGED <<component, master, envoy, outcome>>

ContactEnvoy(j) ==
  /\ asked("envoy") /\ envoy[j] = "idle"
  /\ MastersUp /\ ServersUp
  /\ \A k \in 1..j - 1 : envoy[k] = "ok"
  /\ envoy' = [envoy EXCEPT ![j] = "running"]
  /\ UNCHANGED <<component, master, server, outcome>>

(* A session ends, well or not. *)
Ends(status, s) == [status EXCEPT ![s] = "ok"]
Fails(status, s) == [status EXCEPT ![s] = "failed"]

MasterEnds(i) ==
  /\ master[i] = "running"
  /\ master' \in {Ends(master, i), Fails(master, i)}
  /\ UNCHANGED <<component, server, envoy>>
  /\ outcome' = IF master' = Ends(master, i) THEN outcome ELSE "error"

ServerEnds(g) ==
  /\ server[g] = "running"
  /\ server' \in {Ends(server, g), Fails(server, g)}
  /\ UNCHANGED <<component, master, envoy, outcome>>

EnvoyEnds(j) ==
  /\ envoy[j] = "running"
  /\ envoy' \in {Ends(envoy, j), Fails(envoy, j)}
  /\ UNCHANGED <<component, master, server>>
  /\ outcome' = IF envoy' = Ends(envoy, j) THEN outcome ELSE "error"

(* The command returns when no session is open any more. *)
Quiet == ~ Busy(master) /\ ~ Busy(server) /\ ~ Busy(envoy)

Succeed ==
  /\ Quiet
  /\ (MastersUp /\ ServersUp /\ EnvoysUp) \/ ErrorsClash
  /\ outcome' = "success"
  /\ UNCHANGED <<component, master, server, envoy>>

(* With an error because a server failed, or because the release of the    *)
(* proxies could not be looked up.                                         *)
GiveUp ==
  /\ Quiet
  /\ Failed(server) \/ (asked("envoy") /\ MastersUp /\ ServersUp)
  /\ outcome' = "error"
  /\ UNCHANGED <<component, master, server, envoy>>

Crash ==
  /\ ErrorsClash
  /\ outcome' = "crashed"
  /\ UNCHANGED <<component, master, server, envoy>>

Next ==
  /\ outcome = "running"
  /\ \/ \E i \in 1..NMaster : ContactMaster(i) \/ MasterEnds(i)
     \/ \E g \in 1..NGo : ContactServer(g) \/ ServerEnds(g)
     \/ \E j \in 1..NEnvoy : ContactEnvoy(j) \/ EnvoyEnds(j)
     \/ Succeed \/ GiveUp \/ Crash

Spec == Init /\ [][Next]_vars

=============================================================================
