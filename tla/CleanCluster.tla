---------------------------- MODULE CleanCluster ----------------------------
(***************************************************************************)
(* Manager.CleanCluster: stop the filers, volume servers and masters of    *)
(* the cluster file, remove their data, start them again, masters first;   *)
(* one session at a time, and nothing more after the first that fails.     *)
(* The operator may run the command again, for all components or one.      *)
(*                                                                         *)
(* A session that fails may have done its work or not: the connection can  *)
(* break before the command runs or after it.  systemctl and rm are not in *)
(* the repository: systemctl fails for a service that was never installed, *)
(* as one that an incomplete deployment left out.                          *)
(***************************************************************************)
EXTENDS Naturals, Sequences

CONSTANTS
  NMaster, NVolume, NFiler,  \* lengths of the specification's lists
  MaxFailures                \* bound: sessions that fail

ASSUME CleanCounts == NMaster \in Nat /\ NVolume \in Nat /\ NFiler \in Nat
ASSUME CleanBound == MaxFailures \in Nat

Component == {"master", "volume", "filer"}
Selection == Component \union {"", "envoy"}

Count(c) == CASE c = "master" -> NMaster
              [] c = "volume" -> NVolume
              [] c = "filer"  -> NFiler

Server == UNION {{c} \X (1..Count(c)) : c \in Component}

VARIABLES
  component,  \* m.ComponentToDeploy, "" for every component
  loop,       \* which of the nine loops the program is in
  index,      \* its loop variable
  result,     \* "none" while the command runs, "nil" or "error"
  installed,  \* the servers with a service on their host
  elsewhere,  \* the volume servers whose `config` places volumes outside
              \* of m.dataDir, as on the disks of --mountDisks (`dir` in
              \* cmd/cluster.yml)
  active,     \* the servers that run
  old,        \* the servers with data of before this run of the command
  failures

program  == <<component, loop, index, result>>
services == <<active, old>>
setting  == <<installed, elsewhere>>
vars     == <<program, services, setting, failures>>

shouldInstall(c) == component = "" \/ component = c

Selected == {x \in Server : shouldInstall(x[1])}

Do(what, c) == [do |-> what, of |-> c]

(* Mutants: stop and reset one component after the other; reset and start  *)
(* one component after the other.                                          *)
LoopsStopAndReset ==
  << Do("stop", "filer"),   Do("reset", "filer"),  Do("stop", "volume"),
     Do("reset", "volume"), Do("stop", "master"),  Do("reset", "master"),
     Do("start", "master"), Do("start", "volume"), Do("start", "filer") >>

LoopsResetAndStart ==
  << Do("stop", "filer"),   Do("stop", "volume"),  Do("stop", "master"),
     Do("reset", "master"), Do("start", "master"), Do("reset", "volume"),
     Do("start", "volume"), Do("reset", "filer"),  Do("start", "filer") >>

(* The nine loops of CleanCluster in their order. *)
Loops ==
  << Do("stop", "filer"),   Do("stop", "volume"),  Do("stop", "master"),
     Do("reset", "master"), Do("reset", "volume"), Do("reset", "filer"),
     Do("start", "master"), Do("start", "volume"), Do("start", "filer") >>

(* The server whose session is next, and what the session does. *)
InLoop == result = "none" /\ loop <= Len(Loops)
Turn   == InLoop /\ shouldInstall(Loops[loop].of) /\ index <= Count(Loops[loop].of)
This   == <<Loops[loop].of, index>>
Doing(what) == Turn /\ Loops[loop].do = what

Init ==
  /\ component \in Selection
  /\ loop = 1 /\ index = 1 /\ result = "none"
  /\ installed \in SUBSET Server
  /\ elsewhere \in SUBSET {x \in Server : x[1] = "volume"}
  /\ active \in SUBSET installed
  /\ old = Server
  /\ failures = 0

-----------------------------------------------------------------------------
(* Mutant: the stop waits for the end of a service that does not run. *)
StoppedIfActive ==
  Doing("stop") /\ This \in active /\ active' = active \ {This} /\ UNCHANGED old

(* Mutant: instances are counted from one when they are started. *)
StartedNextInstance ==
  /\ Doing("start")
  /\ active' = active \union {<<Loops[loop].of, index + 1>>}
  /\ UNCHANGED old

(* What a session does to the services; the same when it fails late. *)
Stopped == Doing("stop") /\ active' = active \ {This} /\ UNCHANGED old
Started == Doing("start") /\ active' = active \union {This} /\ UNCHANGED old

(* rm -Rf of the instance's directory below m.dataDir, and of no other. *)
Emptied == Doing("reset") /\ old' = old \ ({This} \ elsewhere) /\ UNCHANGED active

(* rm -Rf of what is not there is no error. *)
Effect ==
  /\ This \in installed \/ Doing("reset")
  /\ Stopped \/ Emptied \/ Started

Succeed ==
  /\ Turn /\ Effect
  /\ index' = index + 1
  /\ UNCHANGED <<component, loop, result, setting, failures>>

(* Mutant: the error of the session is not looked at. *)
NotInstalledIgnored ==
  /\ Turn /\ This \notin installed /\ ~ Doing("reset")
  /\ index' = index + 1
  /\ UNCHANGED <<component, loop, result, services, setting, failures>>

(* The service is not there. *)
NotInstalled ==
  /\ Turn /\ This \notin installed /\ ~ Doing("reset")
  /\ result' = "error"
  /\ UNCHANGED <<component, loop, index, services, setting, failures>>

(* The connection fails, before the command ran or after. *)
Fail ==
  /\ Turn /\ failures < MaxFailures
  /\ failures' = failures + 1
  /\ result' = "error"
  /\ Effect \/ UNCHANGED services
  /\ UNCHANGED <<component, loop, index, setting>>

NextLoop ==
  /\ InLoop /\ ~ Turn
  /\ loop' = loop + 1 /\ index' = 1
  /\ UNCHANGED <<component, result, services, setting, failures>>

Return ==
  /\ result = "none" /\ loop > Len(Loops)
  /\ result' = "nil"
  /\ UNCHANGED <<component, loop, index, services, setting, failures>>

(* The operator runs the command again; what ran meanwhile stored data. *)
Clean ==
  /\ result # "none"
  /\ component' \in Selection
  /\ loop' = 1 /\ index' = 1 /\ result' = "none"
  /\ old' = old \union active
  /\ UNCHANGED <<active, setting, failures>>

Program == Succeed \/ NotInstalled \/ NextLoop \/ Return

Next == Program \/ Fail \/ Clean

Spec == Init /\ [][Next]_vars

(* The program goes on, and the operator repeats a command that failed.    *)
FairSpec ==
  Spec /\ WF_vars(Program)
       /\ WF_vars(Clean /\ result = "error" /\ component' = component)

-----------------------------------------------------------------------------
TypeOK ==
  /\ component \in Selection
  /\ loop \in 1..Len(Loops) + 1
  /\ index \in Nat \ {0}
  /\ result \in {"none", "nil", "error"}
  /\ installed \subseteq Server
  /\ elsewhere \subseteq Server
  /\ active \subseteq installed
  /\ old \subseteq Server
  /\ failures \in 0..MaxFailures

(* No data is removed while one of the selected servers still runs and     *)
(* could write to it or serve it: "stop all" is over before "reset all",   *)
(* also in a run that follows one that broke off.                          *)
NeverEmptiesRunning ==
  [][old' # old /\ result = "none" => active \intersect Selected = {}]_vars

(* No server is started before every selected one had its directory        *)
(* emptied: a run that breaks off never leaves a cluster that runs half on *)
(* new and half on old data.                                               *)
NothingStartsOnOldData ==
  [][active' \ active # {} => Selected \intersect old \subseteq elsewhere]_vars

(* The command succeeds only if every selected server runs again and has   *)
(* none of the data it had below m.dataDir, however earlier runs ended.    *)
SuccessMeansCleanAndUp ==
  result = "nil" => Selected \subseteq active /\ Selected \intersect old \subseteq elsewhere

(* An operator who repeats the command gets the cluster back, wherever     *)
(* earlier runs broke off, unless the service of a selected server is      *)
(* missing: stop, rm -Rf and start may each be repeated.                   *)
RepeatedCleanRecovers ==
  \A c \in Selection :
    <>[](component = c /\ Selected \subseteq installed) => []<>(result = "nil")

(* "clean a cluster storage to empty".                                     *)
StorageIsEmpty ==
  result = "nil" => Selected \intersect old = {}

=============================================================================
