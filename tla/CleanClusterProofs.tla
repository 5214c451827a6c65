------------------------- MODULE CleanClusterProofs -------------------------
(***************************************************************************)
(* For any number of servers, failures and runs, CleanCluster empties      *)
(* nothing that runs, starts nothing on old data, and succeeds only when   *)
(* every selected server is clean and up.  The invariant says what the     *)
(* position in the nine loops tells about a server.                        *)
(***************************************************************************)
EXTENDS CleanCluster, TLAPS

(* The loops that stop, empty and start the servers of a component. *)
StopLoop(c)  == CASE c = "filer"  -> 1 [] c = "volume" -> 2 [] c = "master" -> 3
ResetLoop(c) == CASE c = "master" -> 4 [] c = "volume" -> 5 [] c = "filer"  -> 6
StartLoop(c) == CASE c = "master" -> 7 [] c = "volume" -> 8 [] c = "filer"  -> 9

(* Is the session with server x in loop n over? *)
Past(n, x) == loop > n \/ (loop = n /\ index > x[2])

Shapes ==
  /\ component \in Selection
  /\ loop \in 1..10 /\ index \in Nat \ {0}
  /\ result \in {"none", "nil", "error"}
  /\ active \subseteq Server

(* A run that has not failed did what its position in the loops says. *)
Progress ==
  result # "error" => \A x \in Selected :
    /\ Past(StopLoop(x[1]), x) /\ ~ Past(StartLoop(x[1]), x) => x \notin active
    /\ Past(ResetLoop(x[1]), x) => x \in elsewhere \/ x \notin old
    /\ Past(StartLoop(x[1]), x) => x \in active

AtTheEnd == result = "nil" => loop = 10

(* The inductive invariant. *)
CInv == Shapes /\ Progress /\ AtTheEnd

-----------------------------------------------------------------------------
USE CleanCounts, CleanBound

(* The sequence of the loops, and the loop of each component in it. *)
LEMMA LoopNumbers ==
  /\ Len(Loops) = 9
  /\ \A n \in 1..9 :
       /\ Loops[n].of \in Component
       /\ Loops[n].do = "stop"  <=> n \in 1..3
       /\ Loops[n].do = "reset" <=> n \in 4..6
       /\ Loops[n].do = "start" <=> n \in 7..9
       /\ n \in 1..3 => StopLoop(Loops[n].of) = n
       /\ n \in 4..6 => ResetLoop(Loops[n].of) = n
       /\ n \in 7..9 => StartLoop(Loops[n].of) = n
  /\ \A c \in Component :
       /\ StopLoop(c) \in 1..3 /\ ResetLoop(c) \in 4..6 /\ StartLoop(c) \in 7..9
       /\ Loops[StopLoop(c)].of = c
       /\ Loops[ResetLoop(c)].of = c
       /\ Loops[StartLoop(c)].of = c
BY DEF Loops, Do, Component, StopLoop, ResetLoop, StartLoop

LEMMA CountType == \A c \in Component : Count(c) \in Nat
BY DEF Component, Count

LEMMA ServerPairs ==
  /\ \A x \in Server : /\ x[1] \in Component /\ x[2] \in 1..Count(x[1])
                       /\ x = <<x[1], x[2]>>
  /\ \A c \in Component, k \in Nat \ {0} : k <= Count(c) => <<c, k>> \in Server
BY CountType DEF Server

(* The session that is next is with a selected server, in its loop. *)
LEMMA ThisSelected ==
  ASSUME Shapes, Turn
  PROVE  /\ loop \in 1..9
         /\ This \in Selected
         /\ This[1] = Loops[loop].of /\ This[2] = index
<1>1. loop \in 1..9
  BY LoopNumbers DEF Turn, InLoop, Shapes
<1> QED
  BY <1>1, LoopNumbers, ServerPairs DEF Turn, This, Selected, Shapes

(* Past and This: the next session is the only one that is over after it. *)
LEMMA PastMoves ==
  ASSUME Shapes, Turn, NEW x \in Selected, NEW n \in 1..9, Loops[n].of = x[1],
         index' = index + 1, loop' = loop
  PROVE  Past(n, x)' <=> Past(n, x) \/ (n = loop /\ x = This)
<1>1. x \in Server /\ x[2] \in Nat /\ x = <<x[1], x[2]>>
  BY ServerPairs, CountType DEF Selected
<1>2. index \in Nat /\ loop \in Nat
  BY DEF Shapes
<1> QED
  BY <1>1, <1>2 DEF Past, This

-----------------------------------------------------------------------------
LEMMA CInvInit == Init => CInv
<1> SUFFICES ASSUME Init PROVE CInv
  OBVIOUS
<1>1. Shapes /\ AtTheEnd
  BY DEF Init, Shapes, AtTheEnd
<1>2. ASSUME NEW x \in Selected, NEW n \in 1..9 PROVE ~ Past(n, x)
  BY ServerPairs, CountType DEF Past, Init, Selected
<1>3. Progress
  BY <1>2, LoopNumbers, ServerPairs DEF Progress, Selected
<1> QED BY <1>1, <1>3 DEF CInv

(* An effect on the services of the server whose session it is. *)
LEMMA EffectTypes ==
  ASSUME Shapes, Turn, Effect \/ UNCHANGED services
  PROVE  active' \subseteq Server
BY ThisSelected DEF Effect, Stopped, Emptied, Started, services, Shapes, Selected

LEMMA SucceedKeeps ==
  ASSUME CInv, Succeed
  PROVE  CInv'
<1> USE DEF CInv
<1>1. /\ Turn /\ index' = index + 1 /\ loop' = loop
      /\ component' = component /\ result' = result /\ elsewhere' = elsewhere
      /\ result = "none" /\ Effect
  BY DEF Succeed, setting, Turn, InLoop
<1>2. loop \in 1..9 /\ This \in Selected /\ This[1] = Loops[loop].of
  BY <1>1, ThisSelected
<1>3. Shapes' /\ AtTheEnd'
  BY <1>1, EffectTypes DEF Shapes, AtTheEnd
<1>4. Selected' = Selected
  BY <1>1 DEF Selected, shouldInstall
<1>5. ASSUME NEW x \in Selected
      PROVE /\ Past(StopLoop(x[1]), x)' /\ ~ Past(StartLoop(x[1]), x)' => x \notin active'
            /\ Past(ResetLoop(x[1]), x)' => x \in elsewhere' \/ x \notin old'
            /\ Past(StartLoop(x[1]), x)' => x \in active'
  <2> DEFINE a == StopLoop(x[1])
             b == ResetLoop(x[1])
             c == StartLoop(x[1])
  <2>1. x[1] \in Component
    BY ServerPairs DEF Selected
  <2>2. /\ a \in 1..3 /\ b \in 4..6 /\ c \in 7..9
        /\ Loops[a].of = x[1] /\ Loops[b].of = x[1] /\ Loops[c].of = x[1]
    BY <2>1, LoopNumbers
  <2>3. /\ Past(a, x)' <=> Past(a, x) \/ (a = loop /\ x = This)
        /\ Past(b, x)' <=> Past(b, x) \/ (b = loop /\ x = This)
        /\ Past(c, x)' <=> Past(c, x) \/ (c = loop /\ x = This)
    BY <1>1, <2>2, PastMoves
  <2>4. /\ Past(a, x) /\ ~ Past(c, x) => x \notin active
        /\ Past(b, x) => x \in elsewhere \/ x \notin old
        /\ Past(c, x) => x \in active
    BY <1>1 DEF Progress
  <2>5. x = This => /\ loop \in 1..3 => a = loop
                    /\ loop \in 4..6 => b = loop
                    /\ loop \in 7..9 => c = loop
    BY <1>2, LoopNumbers
  <2>6. ~ (Past(c, x) /\ loop < c)
    BY <2>2 DEF Past, Shapes
  <2> HIDE DEF a, b, c
  <2>7. CASE Stopped
    <3>1. loop \in 1..3 /\ active' = active \ {This} /\ old' = old
      BY <1>2, <2>7, LoopNumbers DEF Stopped, Doing
    <3> QED BY <3>1, <1>1, <2>2, <2>3, <2>4, <2>5, <2>6 DEF a, b, c
  <2>8. CASE Emptied
    <3>1. loop \in 4..6 /\ active' = active /\ old' = old \ ({This} \ elsewhere)
      BY <1>2, <2>8, LoopNumbers DEF Emptied, Doing
    <3> QED BY <3>1, <1>1, <2>2, <2>3, <2>4, <2>5, <2>6 DEF a, b, c
  <2>9. CASE Started
    <3>1. loop \in 7..9 /\ active' = active \union {This} /\ old' = old
      BY <1>2, <2>9, LoopNumbers DEF Started, Doing
    <3> QED BY <3>1, <1>1, <2>2, <2>3, <2>4, <2>5, <2>6 DEF a, b, c
  <2> QED BY <1>1, <2>7, <2>8, <2>9 DEF Effect
<1>6. Progress'
  BY <1>4, <1>5 DEF Progress
<1> QED BY <1>3, <1>6

LEMMA NextLoopKeeps ==
  ASSUME CInv, NextLoop
  PROVE  CInv'
<1> USE DEF CInv
<1>1. /\ loop \in 1..9 /\ loop' = loop + 1 /\ index' = 1
      /\ component' = component /\ result' = result /\ result = "none"
      /\ active' = active /\ old' = old /\ elsewhere' = elsewhere
  BY LoopNumbers DEF NextLoop, InLoop, Shapes, services, setting
<1>2. Shapes' /\ AtTheEnd'
  BY <1>1 DEF Shapes, AtTheEnd
<1>3. Selected' = Selected
  BY <1>1 DEF Selected, shouldInstall
<1>4. ASSUME NEW x \in Selected, NEW n \in 1..9, Loops[n].of = x[1]
      PROVE  Past(n, x)' <=> Past(n, x)
  <2>1. x[2] \in 1..Count(x[1]) /\ x[2] \in Nat /\ Count(x[1]) \in Nat /\ shouldInstall(x[1])
    BY ServerPairs, CountType DEF Selected
  <2>2. n = loop => index > Count(x[1])
    BY <1>1, <1>4, <2>1 DEF NextLoop, Turn, Shapes
  <2> QED BY <1>1, <2>1, <2>2 DEF Past, Shapes
<1>5. Progress'
  BY <1>1, <1>3, <1>4, LoopNumbers, ServerPairs DEF Progress, Selected
<1> QED BY <1>2, <1>5

LEMMA CInvNext == CInv /\ [Next]_vars => CInv'
<1> SUFFICES ASSUME CInv, [Next]_vars PROVE CInv'
  OBVIOUS
<1> USE DEF CInv
<1>1. CASE Succeed
  BY <1>1, SucceedKeeps
<1>2. CASE NotInstalled
  BY <1>2 DEF NotInstalled, services, setting, Shapes, Progress, AtTheEnd
<1>3. CASE NextLoop
  BY <1>3, NextLoopKeeps
<1>4. CASE Return
  <2>1. Shapes' /\ AtTheEnd' /\ Selected' = Selected
    BY <1>4, LoopNumbers DEF Return, services, setting, Shapes, AtTheEnd, Selected, shouldInstall
  <2>2. Progress'
    BY <1>4, <2>1 DEF Return, services, setting, Progress, Past
  <2> QED BY <2>1, <2>2
<1>5. CASE Fail
  <2>1. Turn /\ active' \subseteq Server
    BY <1>5, EffectTypes DEF Fail
  <2> QED BY <1>5, <2>1 DEF Fail, setting, Shapes, Progress, AtTheEnd
<1>6. CASE Clean
  <2>1. Shapes' /\ AtTheEnd'
    BY <1>6 DEF Clean, setting, Shapes, AtTheEnd
  <2>2. ASSUME NEW x \in Selected', NEW n \in 1..9 PROVE ~ Past(n, x)'
    BY <1>6, ServerPairs, CountType DEF Past, Clean, Selected
  <2>3. \A x \in Selected' : x[1] \in Component
    BY ServerPairs DEF Selected
  <2>4. Progress'
    BY <2>2, <2>3, LoopNumbers DEF Progress
  <2> QED BY <2>1, <2>4
<1>7. CASE UNCHANGED vars
  BY <1>7 DEF vars, program, services, setting, Shapes, Progress, AtTheEnd, Past, Selected, shouldInstall
<1> QED BY <1>1, <1>2, <1>3, <1>4, <1>5, <1>6, <1>7 DEF Next, Program

LEMMA CInvAlways == Spec => []CInv
BY CInvInit, CInvNext, PTL DEF Spec

-----------------------------------------------------------------------------
(* `clean` reports success only when every selected server runs and has    *)
(* none of the data it had below m.dataDir.                                *)
THEOREM CleanSuccess == Spec => []SuccessMeansCleanAndUp
<1>1. CInv => SuccessMeansCleanAndUp
  <2> SUFFICES ASSUME CInv, result = "nil", NEW x \in Selected
               PROVE  x \in active /\ (x \in old => x \in elsewhere)
    BY DEF SuccessMeansCleanAndUp
  <2>1. loop = 10 /\ x[1] \in Component
    BY ServerPairs DEF CInv, AtTheEnd, Selected
  <2>2. Past(ResetLoop(x[1]), x) /\ Past(StartLoop(x[1]), x)
    BY <2>1, LoopNumbers DEF Past
  <2> QED BY <2>2 DEF CInv, Progress
<1> QED BY <1>1, CInvAlways, PTL

(* No directory is emptied while a selected server runs. *)
THEOREM NothingRunningEmptied == Spec => NeverEmptiesRunning
<1>1. ASSUME CInv, [Next]_vars, old' # old, result = "none"
      PROVE  active \intersect Selected = {}
  <2>1. Turn /\ Emptied
    BY <1>1 DEF Next, Program, Succeed, NotInstalled, NextLoop, Return, Fail, Clean, Effect,
                Stopped, Started, vars, program, services, Turn, InLoop
  <2>2. loop \in 4..6
    BY <1>1, <2>1, ThisSelected, LoopNumbers DEF Emptied, Doing, CInv
  <2>3. ASSUME NEW x \in Selected PROVE x \notin active
    <3>1. x[1] \in Component
      BY ServerPairs DEF Selected
    <3>2. Past(StopLoop(x[1]), x) /\ ~ Past(StartLoop(x[1]), x)
      BY <2>2, <3>1, LoopNumbers DEF Past
    <3> QED BY <1>1, <3>2 DEF CInv, Progress
  <2> QED BY <2>3
<1>2. CInv /\ [Next]_vars =>
        [old' # old /\ result = "none" => active \intersect Selected = {}]_vars
  BY <1>1
<1> QED BY <1>2, CInvAlways, PTL DEF Spec, NeverEmptiesRunning

(* No server is started before all selected ones had their data removed. *)
THEOREM CleanBeforeStart == Spec => NothingStartsOnOldData
<1>1. ASSUME CInv, [Next]_vars, active' \ active # {}
      PROVE  Selected \intersect old \subseteq elsewhere
  <2>1. Turn /\ Started /\ result = "none"
    BY <1>1 DEF Next, Program, Succeed, NotInstalled, NextLoop, Return, Fail, Clean, Effect,
                Stopped, Emptied, vars, program, services, Turn, InLoop
  <2>2. loop \in 7..9
    BY <1>1, <2>1, ThisSelected, LoopNumbers DEF Started, Doing, CInv
  <2>3. ASSUME NEW x \in Selected PROVE x \in elsewhere \/ x \notin old
    <3>1. x[1] \in Component
      BY ServerPairs DEF Selected
    <3>2. Past(ResetLoop(x[1]), x)
      BY <2>2, <3>1, LoopNumbers DEF Past
    <3> QED BY <1>1, <2>1, <3>2 DEF CInv, Progress
  <2> QED BY <2>3
<1>2. CInv /\ [Next]_vars =>
        [active' \ active # {} => Selected \intersect old \subseteq elsewhere]_vars
  BY <1>1
<1> QED BY <1>2, CInvAlways, PTL DEF Spec, NothingStartsOnOldData

(* The types are kept as well, given what the invariant says. *)
LEMMA CleanTypesNext == CInv /\ TypeOK /\ [Next]_vars => TypeOK'
<1> SUFFICES ASSUME CInv, TypeOK, [Next]_vars PROVE TypeOK'
  OBVIOUS
<1>1. Shapes'
  BY CInvNext DEF CInv
<1>2. /\ component' \in Selection /\ loop' \in 1..Len(Loops)' + 1 /\ index' \in Nat \ {0}
      /\ result' \in {"none", "nil", "error"}
  BY <1>1, LoopNumbers DEF Shapes, Loops, Do
<1>3. UNCHANGED setting
  BY DEF Next, Program, Succeed, NotInstalled, NextLoop, Return, Fail, Clean, vars
<1>4. failures' \in 0..MaxFailures
  BY DEF TypeOK, Next, Program, Succeed, NotInstalled, NextLoop, Return, Fail, Clean, vars
<1>5. ASSUME Turn, Effect PROVE active' \subseteq installed /\ old' \subseteq Server
  BY <1>5 DEF Effect, Stopped, Emptied, Started, Doing, TypeOK
<1>6. active' \subseteq installed /\ old' \subseteq Server
  <2>1. CASE Turn /\ Effect
    BY <1>5, <2>1
  <2>2. CASE UNCHANGED services
    BY <2>2 DEF services, TypeOK
  <2>3. CASE Clean
    BY <2>3 DEF Clean, TypeOK
  <2> QED BY <2>1, <2>2, <2>3 DEF Next, Program, Succeed, NotInstalled, NextLoop, Return, Fail, vars
<1> QED BY <1>2, <1>3, <1>4, <1>6 DEF TypeOK, setting

(* Every variable keeps its type: in particular nothing runs but what has  *)
(* a service on its host, whichever sessions fail before or after their    *)
(* command.                                                                *)
THEOREM CleanTypes == Spec => []TypeOK
<1>1. Init => TypeOK
  BY LoopNumbers DEF Init, TypeOK, Server
<1> QED BY <1>1, CleanTypesNext, CInvAlways, PTL DEF Spec

=============================================================================
