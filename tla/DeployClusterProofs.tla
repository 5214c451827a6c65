------------------------ MODULE DeployClusterProofs ------------------------
(***************************************************************************)
(* Proofs about DeployCluster, for any number of servers and failures and  *)
(* for every interleaving of the racing appends.                           *)
(*                                                                         *)
(* None of the invariants is inductive on its own: that wg.Wait() covers   *)
(* the goroutines rests on the counter being the number of live ones, and  *)
(* the order of the phases rests on a failed goroutine having stored a     *)
(* positive length before it can reach wg.Done().                          *)
(***************************************************************************)
EXTENDS DeployCluster, FiniteSetTheorems, SequenceTheorems, TLAPS

(* The goroutines that are started and have not called wg.Done(). *)
Live == {g \in Goroutine : step[g] \notin {"idle", "done"}}

WgCounts == wg = Cardinality(Live)

(* How far the loops that start the goroutines have come. *)
Started ==
  /\ pc \in {"prepare", "masters"} => \A g \in Goroutine : step[g] = "idle"
  /\ pc = "spawn" => \A g \in Goroutine :
        /\ g >= index => step[g] = "idle"
        /\ g < index /\ Selected(g) => step[g] # "idle"
  /\ pc = "wait" => \A g \in Goroutine : Selected(g) => step[g] # "idle"

(* The session of a goroutine and its program counter. *)
SessionStep ==
  \A g \in Goroutine :
    /\ step[g] = "idle" => server[g] = "idle"
    /\ step[g] = "session" => server[g] \in {"idle", "running"}
    /\ step[g] \in AppendStep => server[g] = "failed"
    /\ step[g] \in {"exit", "done"} => server[g] \in {"ok", "failed"}

(* The length is positive from a failed goroutine's store of it on. *)
ErrorCounted ==
  \A g \in Goroutine :
    step[g] \in {"elem", "exit", "done"} /\ server[g] = "failed" => slice.len > 0

MastersFirst ==
  shouldInstall("master") =>
    /\ pc = "prepare" => index = 1
    /\ pc = "masters" => \A i \in Master : i < index => master[i] = "ok"
    /\ pc \in {"spawn", "wait", "release", "envoys"} => \A i \in Master : master[i] = "ok"

EnvoysLast ==
  /\ pc \in {"release", "envoys"} =>
        \A g \in Goroutine : Selected(g) => server[g] = "ok"
  /\ pc \notin {"envoys", "returned"} => \A j \in Envoy : envoy[j] = "idle"

(* Once set, the pointer stays set, and a goroutine that stored a length   *)
(* while it was nil is stuck: its store of the element is the nil          *)
(* dereference.                                                            *)
PointerSet ==
  /\ \A g \in Goroutine :
       /\ step[g] \in {"cap", "ptr"} => reg[g].ptr # NoPtr
       /\ step[g] \notin {"cap", "ptr"} /\ reg[g].ptr # NoPtr => slice.ptr # NoPtr
  /\ slice.len > 0 =>
       \/ slice.ptr # NoPtr
       \/ \E g \in Goroutine : step[g] = "elem" /\ reg[g].ptr = NoPtr

(* The inductive invariant. *)
IInv ==
  /\ TypeOK
  /\ PointerSet
  /\ WgCounts
  /\ Started
  /\ SessionStep
  /\ ErrorCounted
  /\ MastersFirst
  /\ EnvoysLast
  /\ WaitCoversGoroutines
  /\ PhaseOrder

-----------------------------------------------------------------------------
USE NGoAssumption, ServerCounts, MaxFailuresAssumption

(* There are finitely many live goroutines, and adding one or taking one   *)
(* away changes their number by one.                                       *)
LEMMA LiveFinite == IsFiniteSet(Live)
<1>1. IsFiniteSet(1..NGo)
  BY FS_Interval
<1>2. Live \in SUBSET (1..NGo)
  BY DEF Live, Goroutine
<1> QED BY <1>1, <1>2, FS_Subset

LEMMA LiveStays ==
  ASSUME \A g \in Goroutine : step'[g] \in {"idle", "done"} <=> step[g] \in {"idle", "done"}
  PROVE  Live' = Live
BY DEF Live

LEMMA LiveStarts ==
  ASSUME TypeOK, NEW g \in Goroutine, step[g] = "idle", Goto(g, "session")
  PROVE  Cardinality(Live') = Cardinality(Live) + 1
<1>1. Live' = Live \union {g} /\ g \notin Live
  BY DEF Live, Goto, TypeOK, ErrTypeOK
<1> QED BY <1>1, LiveFinite, FS_AddElement

LEMMA LiveEnds ==
  ASSUME TypeOK, NEW g \in Goroutine, step[g] = "exit", Goto(g, "done")
  PROVE  /\ Cardinality(Live') = Cardinality(Live) - 1
         /\ Cardinality(Live) \in Nat \ {0}
<1>1. Live' = Live \ {g} /\ g \in Live
  BY DEF Live, Goto, TypeOK, ErrTypeOK
<1>2. Cardinality(Live) \in Nat
  BY LiveFinite, FS_CardinalityType
<1>3. Cardinality(Live) # 0
  BY <1>1, LiveFinite, FS_EmptySet
<1> QED BY <1>1, <1>2, <1>3, LiveFinite, FS_RemoveElement

-----------------------------------------------------------------------------
(* The types of the words and cells an append handles. *)
LEMMA WordTypes ==
  ASSUME ErrTypeOK, NEW g \in Goroutine
  PROVE  /\ reg[g].ptr \in 0..NGo /\ reg[g].len \in Nat /\ reg[g].cap \in Nat
         /\ slice.ptr \in 0..NGo /\ slice.len \in Nat /\ slice.cap \in Nat
<1>1. reg[g] \in Header /\ slice \in Header
  BY DEF ErrTypeOK
<1> QED BY <1>1 DEF Header

LEMMA CellType ==
  ASSUME ErrTypeOK, NEW p \in Goroutine, NEW k \in Nat \ {0}
  PROVE  Cell(p, k) \in 0..NGo + 1
<1>1. array[p] \in Seq(0..NGo + 1)
  BY DEF ErrTypeOK
<1>2. CASE k <= Len(array[p])
  <2>1. k \in 1..Len(array[p])
    BY <1>1, <1>2
  <2>2. array[p][k] \in 0..NGo + 1
    BY <1>1, <2>1, ElementOfSeq
  <2> QED BY <1>2, <2>2 DEF Cell
<1>3. CASE ~ (k <= Len(array[p]))
  BY <1>3 DEF Cell, Garbage
<1> QED BY <1>2, <1>3

LEMMA HeaderUpdates ==
  ASSUME NEW h \in Header, NEW p \in 0..NGo, NEW n \in Nat
  PROVE  /\ [h EXCEPT !.ptr = p] \in Header
         /\ [h EXCEPT !.len = n] \in Header
         /\ [h EXCEPT !.cap = n] \in Header
         /\ [h EXCEPT !.ptr = p, !.cap = n] \in Header
BY DEF Header

LEMMA GrownArrayType ==
  ASSUME ErrTypeOK, NEW g \in Goroutine, ~ (reg[g].ptr = NoPtr /\ reg[g].len > 0)
  PROVE  [k \in 1..NewCap(reg[g]) |->
            IF k <= reg[g].len THEN Cell(reg[g].ptr, k) ELSE NilError] \in Seq(0..NGo + 1)
<1> DEFINE h == reg[g]
           a == [k \in 1..NewCap(h) |-> IF k <= h.len THEN Cell(h.ptr, k) ELSE NilError]
<1>1. h.ptr \in 0..NGo /\ h.len \in Nat /\ h.cap \in Nat
  BY WordTypes
<1>2. NewCap(h) \in Nat
  BY <1>1 DEF NewCap
<1>3. ASSUME NEW k \in 1..NewCap(h)
      PROVE  a[k] \in 0..NGo + 1
  <2>1. CASE k <= h.len
    <3>1. k \in Nat \ {0} /\ h.ptr \in Goroutine
      BY <1>1, <1>2, <2>1 DEF NoPtr, Goroutine
    <3> QED BY <2>1, <3>1, CellType
  <2>2. CASE ~ (k <= h.len)
    BY <2>2 DEF NilError
  <2> QED BY <2>1, <2>2
<1>4. a \in [1..NewCap(h) -> 0..NGo + 1]
  BY <1>3
<1>5. a \in Seq(0..NGo + 1)
  <2> HIDE DEF a
  <2> QED BY <1>2, <1>4, SeqDef
<1> QED BY <1>5

LEMMA ReportErrorTypes ==
  ASSUME ErrTypeOK, NEW g \in Goroutine, AppendError(g)
  PROVE  ErrTypeOK'
<1>1. /\ slice \in Header
      /\ array \in [Goroutine -> Seq(0..NGo + 1)]
      /\ reg \in [Goroutine -> Header]
      /\ unread \in [Goroutine -> SUBSET Word]
      /\ step \in [Goroutine -> StepName]
      /\ fault \in {"none", "segv", "wild"}
  BY DEF ErrTypeOK
<1>2. /\ reg[g].ptr \in 0..NGo /\ reg[g].len \in Nat /\ reg[g].cap \in Nat
      /\ slice.ptr \in 0..NGo /\ slice.len \in Nat /\ slice.cap \in Nat
      /\ g \in 0..NGo /\ g \in 0..NGo + 1
  BY WordTypes DEF Goroutine
<1>3. step' \in [Goroutine -> StepName]
  BY <1>1 DEF AppendError, Load, HasRoom, Grow, StoreCap, StorePtr, StoreLen, StoreElem,
              Goto, AppendStep, StepName
<1>4. unread' \in [Goroutine -> SUBSET Word]
  BY <1>1 DEF AppendError, Load, HasRoom, Grow, StoreCap, StorePtr, StoreLen, StoreElem,
              errVars
<1>5. fault' \in {"none", "segv", "wild"}
  BY <1>1 DEF AppendError, Load, HasRoom, Grow, StoreCap, StorePtr, StoreLen, StoreElem,
              errVars
<1>6. slice' \in Header
  <2>1. \/ slice' = slice
        \/ slice' = [slice EXCEPT !.cap = reg[g].cap]
        \/ slice' = [slice EXCEPT !.ptr = reg[g].ptr]
        \/ slice' = [slice EXCEPT !.len = reg[g].len + 1]
    BY DEF AppendError, Load, HasRoom, Grow, StoreCap, StorePtr, StoreLen, StoreElem, errVars
  <2>2. reg[g].len + 1 \in Nat
    BY <1>2
  <2> QED BY <1>1, <1>2, <2>1, <2>2, HeaderUpdates
<1>7. reg' \in [Goroutine -> Header]
  <2>1. CASE Load(g)
    <3>1. PICK w \in unread[g] : reg' = [reg EXCEPT ![g] = [@ EXCEPT ![w] = slice[w]]]
      BY <2>1 DEF Load
    <3>2. [reg[g] EXCEPT ![w] = slice[w]] \in Header
      <4>1. w \in {"ptr", "len", "cap"} /\ reg[g] \in Header
        BY <1>1, <3>1 DEF Word
      <4>2. CASE w = "ptr"
        BY <1>2, <4>1, <4>2, HeaderUpdates
      <4>3. CASE w = "len"
        BY <1>2, <4>1, <4>3, HeaderUpdates
      <4>4. CASE w = "cap"
        BY <1>2, <4>1, <4>4, HeaderUpdates
      <4> QED BY <4>1, <4>2, <4>3, <4>4
    <3> QED BY <1>1, <3>1, <3>2
  <2>2. CASE Grow(g)
    <3>1. NewCap(reg[g]) \in Nat
      BY <1>2 DEF NewCap
    <3>2. \/ reg' = reg
          \/ reg' = [reg EXCEPT ![g] = [@ EXCEPT !.ptr = g, !.cap = NewCap(reg[g])]]
      BY <2>2 DEF Grow
    <3>3. [reg[g] EXCEPT !.ptr = g, !.cap = NewCap(reg[g])] \in Header
      BY <1>1, <1>2, <3>1, HeaderUpdates
    <3> QED BY <1>1, <3>2, <3>3
  <2>3. CASE ~ Load(g) /\ ~ Grow(g)
    BY <1>1, <2>3 DEF AppendError, HasRoom, StoreCap, StorePtr, StoreLen, StoreElem, errVars
  <2> QED BY <2>1, <2>2, <2>3
<1>8. array' \in [Goroutine -> Seq(0..NGo + 1)]
  <2>1. CASE Grow(g)
    <3> DEFINE h == reg[g]
               a == [k \in 1..NewCap(h) |-> IF k <= h.len THEN Cell(h.ptr, k) ELSE NilError]
    <3>1. \/ array' = array
          \/ ~ (h.ptr = NoPtr /\ h.len > 0) /\ array' = [array EXCEPT ![g] = a]
      BY <2>1 DEF Grow
    <3>2. ~ (h.ptr = NoPtr /\ h.len > 0) => a \in Seq(0..NGo + 1)
      BY GrownArrayType
    <3> HIDE DEF a
    <3> QED BY <1>1, <3>1, <3>2
  <2>2. CASE StoreElem(g)
    <3> DEFINE p == reg[g].ptr
               k == reg[g].len + 1
    <3>1. \/ array' = array
          \/ /\ p # NoPtr /\ k <= Len(array[p])
             /\ array' = [array EXCEPT ![p] = [@ EXCEPT ![k] = g]]
      BY <2>2 DEF StoreElem
    <3>2. ASSUME p # NoPtr, k <= Len(array[p])
          PROVE  p \in Goroutine /\ [array[p] EXCEPT ![k] = g] \in Seq(0..NGo + 1)
      <4>1. p \in Goroutine
        BY <1>2, <3>2 DEF NoPtr, Goroutine
      <4>2. array[p] \in Seq(0..NGo + 1)
        BY <1>1, <4>1
      <4>3. k \in 1..Len(array[p])
        BY <1>2, <3>2, <4>2
      <4> QED BY <1>2, <4>1, <4>2, <4>3, ExceptSeq
    <3> QED BY <1>1, <3>1, <3>2
  <2>3. CASE ~ Grow(g) /\ ~ StoreElem(g)
    BY <1>1, <2>3 DEF AppendError, Load, HasRoom, StoreCap, StorePtr, StoreLen, errVars
  <2> QED BY <2>1, <2>2, <2>3
<1> QED BY <1>3, <1>4, <1>5, <1>6, <1>7, <1>8 DEF ErrTypeOK

-----------------------------------------------------------------------------
(* The goroutine about to be started has not been started before. *)
LEMMA SpawnIdle ==
  ASSUME TypeOK, Started, Spawn
  PROVE  index \in Goroutine /\ step[index] = "idle"
<1>1. index \in Nat
  BY DEF TypeOK, MainTypeOK
<1>2. index \in Goroutine /\ pc = "spawn" /\ index >= index
  BY <1>1 DEF Spawn
<1> QED BY <1>2 DEF Started

(* The counter of the wait group is the number of live goroutines. *)
LEMMA WgMoves ==
  ASSUME TypeOK, WgCounts, Started, [Next]_vars
  PROVE  wg' \in Nat /\ WgCounts'
<1>0. Cardinality(Live) \in Nat
  BY LiveFinite, FS_CardinalityType
<1>1. CASE Spawn
  <2>1. CASE Selected(index)
    <3>1. index \in Goroutine /\ step[index] = "idle"
      BY <1>1, SpawnIdle DEF Spawn
    <3>2. wg' = wg + 1 /\ Goto(index, "session")
      BY <1>1, <2>1 DEF Spawn
    <3> QED BY <1>0, <3>1, <3>2, LiveStarts DEF WgCounts
  <2>2. CASE ~ Selected(index)
    <3>1. UNCHANGED <<wg, step>>
      BY <1>1, <2>2 DEF Spawn
    <3> QED BY <3>1 DEF WgCounts, Live, TypeOK
  <2> QED BY <2>1, <2>2
<1>2. ASSUME NEW g \in Goroutine, Done(g)
      PROVE  wg' \in Nat /\ WgCounts'
  <2>1. step[g] = "exit" /\ Goto(g, "done") /\ wg' = wg - 1
    BY <1>2 DEF Done
  <2> QED BY <1>0, <2>1, LiveEnds DEF WgCounts
<1>3. CASE UNCHANGED wg /\ Live' = Live
  BY <1>3 DEF WgCounts, TypeOK
<1>4. ASSUME NEW g \in Goroutine, EndServer(g) \/ ReportError(g)
      PROVE  UNCHANGED wg /\ Live' = Live
  BY <1>4 DEF EndServer, ReportError, AppendError, Load, HasRoom, Grow, StoreCap,
              StorePtr, StoreLen, StoreElem, Goto, mainVars, errVars, Live, TypeOK, ErrTypeOK
<1>5. ASSUME NEW g \in Goroutine, BeginServer(g)
      PROVE  UNCHANGED wg /\ Live' = Live
  BY <1>5 DEF BeginServer, mainVars, Live
<1>6. ASSUME \/ Prepare \/ BeginMaster \/ LeaveMasters \/ LeaveSpawn \/ Wait
             \/ LookupRelease \/ BeginEnvoy \/ LeaveEnvoys \/ EndMaster \/ EndEnvoy
      PROVE  UNCHANGED wg /\ Live' = Live
  BY <1>6 DEF Prepare, BeginMaster, LeaveMasters, LeaveSpawn, Wait, LookupRelease,
              BeginEnvoy, LeaveEnvoys, EndMaster, EndEnvoy, mainVars, Live
<1>7. CASE UNCHANGED vars
  BY <1>3, <1>7 DEF vars, mainVars, Live
<1> QED BY <1>1, <1>2, <1>3, <1>4, <1>5, <1>6, <1>7
        DEF Next, MainStep, GoStep, SessionEnds, Exited

LEMMA ErrTypeStep ==
  ASSUME TypeOK, [Next]_vars
  PROVE  ErrTypeOK'
<1>1. ASSUME NEW g \in Goroutine, ReportError(g)
      PROVE  ErrTypeOK'
  BY <1>1, ReportErrorTypes DEF ReportError, TypeOK
<1>2. ASSUME NEW g \in Goroutine, EndServer(g) \/ Done(g)
      PROVE  ErrTypeOK'
  BY <1>2 DEF EndServer, Done, Goto, errVars, AppendStep, StepName, TypeOK, ErrTypeOK
<1>3. CASE Spawn
  BY <1>3 DEF Spawn, Goto, errVars, StepName, TypeOK, ErrTypeOK
<1>4. ASSUME UNCHANGED <<errVars, step>>
      PROVE  ErrTypeOK'
  BY <1>4 DEF errVars, TypeOK, ErrTypeOK
<1>5. ASSUME \/ Prepare \/ BeginMaster \/ LeaveMasters \/ LeaveSpawn \/ Wait
             \/ LookupRelease \/ BeginEnvoy \/ LeaveEnvoys \/ EndMaster \/ EndEnvoy
             \/ \E g \in Goroutine : BeginServer(g)
             \/ UNCHANGED vars
      PROVE  UNCHANGED <<errVars, step>>
  BY <1>5 DEF Prepare, BeginMaster, LeaveMasters, LeaveSpawn, Wait, LookupRelease,
              BeginEnvoy, LeaveEnvoys, EndMaster, EndEnvoy, BeginServer, vars
<1> QED BY <1>1, <1>2, <1>3, <1>4, <1>5 DEF Next, MainStep, GoStep, SessionEnds, Exited

LEMMA PointerStep ==
  ASSUME TypeOK, Started, PointerSet, [Next]_vars
  PROVE  PointerSet'
<1>0. \A g \in Goroutine : reg[g].ptr \in 0..NGo /\ reg[g].len \in Nat /\ slice.len \in Nat
  BY WordTypes DEF TypeOK, MainTypeOK
<1>1. ASSUME NEW g \in Goroutine, Load(g)
      PROVE  PointerSet'
  <2>1. PICK w \in Word : reg' = [reg EXCEPT ![g] = [@ EXCEPT ![w] = slice[w]]]
    BY <1>1 DEF Load, TypeOK, ErrTypeOK
  <2>2. reg'[g].ptr = reg[g].ptr \/ reg'[g].ptr = slice.ptr
    BY <2>1 DEF TypeOK, ErrTypeOK, Header, Word
  <2>3. \A i \in Goroutine \ {g} : reg'[i] = reg[i]
    BY <2>1 DEF TypeOK, ErrTypeOK
  <2>4. UNCHANGED <<slice, step>> /\ step[g] = "load"
    BY <1>1 DEF Load
  <2> QED BY <2>2, <2>3, <2>4 DEF PointerSet
<1>2. ASSUME NEW g \in Goroutine, Grow(g)
      PROVE  PointerSet'
  <2>1. UNCHANGED slice
    BY <1>2 DEF Grow
  <2>2. CASE UNCHANGED <<reg, step>>
    BY <2>1, <2>2 DEF PointerSet
  <2>3. CASE /\ reg' = [reg EXCEPT ![g] = [@ EXCEPT !.ptr = g, !.cap = NewCap(reg[g])]]
             /\ Goto(g, "cap")
    <3>0. g # NoPtr
      BY DEF Goroutine, NoPtr
    <3>1. reg'[g].ptr = g /\ step[g] = "load" /\ step'[g] = "cap"
      BY <1>2, <2>3 DEF Grow, Goto, TypeOK, ErrTypeOK, Header
    <3>2. \A i \in Goroutine \ {g} : reg'[i] = reg[i] /\ step'[i] = step[i]
      BY <2>3 DEF Goto, TypeOK, ErrTypeOK
    <3> QED BY <2>1, <3>0, <3>1, <3>2 DEF PointerSet
  <2> QED BY <1>2, <2>2, <2>3 DEF Grow, Goto
<1>3. ASSUME NEW g \in Goroutine, StoreCap(g)
      PROVE  PointerSet'
  <2>1. /\ slice'.ptr = slice.ptr /\ slice'.len = slice.len /\ UNCHANGED reg
        /\ step[g] = "cap" /\ step'[g] = "ptr"
        /\ \A i \in Goroutine \ {g} : step'[i] = step[i]
    BY <1>3 DEF StoreCap, Goto, TypeOK, ErrTypeOK, Header
  <2> QED BY <2>1 DEF PointerSet
<1>4. ASSUME NEW g \in Goroutine, StorePtr(g)
      PROVE  PointerSet'
  <2>1. /\ slice'.ptr = reg[g].ptr /\ reg[g].ptr # NoPtr
        /\ slice'.len = slice.len /\ UNCHANGED reg
        /\ step[g] = "ptr" /\ step'[g] = "len"
        /\ \A i \in Goroutine \ {g} : step'[i] = step[i]
    BY <1>4 DEF StorePtr, Goto, TypeOK, ErrTypeOK, Header, PointerSet
  <2> QED BY <2>1 DEF PointerSet
<1>5. ASSUME NEW g \in Goroutine, StoreLen(g)
      PROVE  PointerSet'
  <2>1. /\ slice'.ptr = slice.ptr /\ UNCHANGED reg
        /\ step[g] = "len" /\ step'[g] = "elem"
        /\ \A i \in Goroutine \ {g} : step'[i] = step[i]
    BY <1>5 DEF StoreLen, Goto, TypeOK, ErrTypeOK, Header
  <2> QED BY <2>1 DEF PointerSet
<1>6. ASSUME NEW g \in Goroutine, StoreElem(g)
      PROVE  PointerSet'
  <2>1. UNCHANGED <<slice, reg>> /\ step[g] = "elem"
    BY <1>6 DEF StoreElem
  <2>2. CASE UNCHANGED step
    BY <2>1, <2>2 DEF PointerSet
  <2>3. CASE reg[g].ptr # NoPtr /\ Goto(g, "exit")
    <3>1. step'[g] = "exit" /\ \A i \in Goroutine \ {g} : step'[i] = step[i]
      BY <2>3 DEF Goto, TypeOK, ErrTypeOK
    <3> QED BY <2>1, <2>3, <3>1 DEF PointerSet
  <2> QED BY <1>6, <2>2, <2>3 DEF StoreElem
<1>7. ASSUME UNCHANGED <<slice, reg>>,
             \A g \in Goroutine : \/ step'[g] = step[g]
                                  \/ /\ step[g] \notin {"cap", "ptr", "elem"}
                                     /\ step'[g] \notin {"cap", "ptr"}
      PROVE  PointerSet'
  BY <1>7 DEF PointerSet
<1>8. ASSUME NEW g \in Goroutine, HasRoom(g) \/ EndServer(g) \/ Done(g)
      PROVE  PointerSet'
  <2>1. /\ UNCHANGED <<slice, reg>>
        /\ \A i \in Goroutine \ {g} : step'[i] = step[i]
        /\ step[g] \notin {"cap", "ptr", "elem"} /\ step'[g] \notin {"cap", "ptr"}
    BY <1>8 DEF HasRoom, EndServer, Done, Goto, errVars, TypeOK, ErrTypeOK
  <2> QED BY <1>7, <2>1
<1>9. CASE Spawn
  <2>1. UNCHANGED <<slice, reg>>
    BY <1>9 DEF Spawn, errVars
  <2>2. CASE UNCHANGED step
    BY <1>7, <2>1, <2>2
  <2>3. CASE Goto(index, "session")
    <3>1. step[index] = "idle"
      BY <1>9, SpawnIdle
    <3>2. \A i \in Goroutine : step'[i] = IF i = index THEN "session" ELSE step[i]
      BY <2>3 DEF Goto, TypeOK, ErrTypeOK
    <3> QED BY <1>7, <2>1, <3>1, <3>2
  <2> QED BY <1>9, <2>2, <2>3 DEF Spawn
<1>10. ASSUME \/ Prepare \/ BeginMaster \/ LeaveMasters \/ LeaveSpawn \/ Wait
              \/ LookupRelease \/ BeginEnvoy \/ LeaveEnvoys \/ EndMaster \/ EndEnvoy
              \/ \E g \in Goroutine : BeginServer(g)
              \/ UNCHANGED vars
       PROVE  UNCHANGED <<errVars, step>>
  BY <1>10 DEF Prepare, BeginMaster, LeaveMasters, LeaveSpawn, Wait, LookupRelease,
               BeginEnvoy, LeaveEnvoys, EndMaster, EndEnvoy, BeginServer, vars
<1>11. ASSUME NEW g \in Goroutine, ReportError(g)
       PROVE  PointerSet'
  BY <1>1, <1>2, <1>3, <1>4, <1>5, <1>6, <1>8, <1>11 DEF ReportError, AppendError
<1>12. ASSUME UNCHANGED <<errVars, step>>
       PROVE  PointerSet'
  BY <1>12 DEF PointerSet, errVars
<1> QED BY <1>8, <1>9, <1>10, <1>11, <1>12
        DEF Next, MainStep, GoStep, SessionEnds, Exited

-----------------------------------------------------------------------------
LEMMA Results ==
  /\ Nil \in Result
  /\ [kind |-> "lookup", of |-> 0] \in Result
  /\ \A n \in Nat : /\ [kind |-> "master", of |-> n] \in Result
                    /\ [kind |-> "server", of |-> n] \in Result
                    /\ [kind |-> "envoy",  of |-> n] \in Result
BY DEF Result, Nil

(* The error DeployCluster takes out of deployErrors. *)
LEMMA FirstErrorType ==
  ASSUME TypeOK, WgCounts, PointerSet, wg = 0, slice.len > 0
  PROVE  slice.ptr \in Goroutine /\ Cell(slice.ptr, 1) \in Nat
<1>1. ErrTypeOK
  BY DEF TypeOK
<1>2. Live = {}
  BY LiveFinite, FS_EmptySet DEF WgCounts
<1>3. slice.ptr # NoPtr
  BY <1>2 DEF PointerSet, Live
<1>4. slice.ptr \in 0..NGo
  BY <1>1 DEF ErrTypeOK, Header
<1>5. slice.ptr \in Goroutine
  BY <1>3, <1>4 DEF NoPtr, Goroutine
<1>6. Cell(slice.ptr, 1) \in 0..NGo + 1
  BY <1>1, <1>5, CellType
<1> QED BY <1>5, <1>6

LEMMA ResultStep ==
  ASSUME TypeOK, WgCounts, PointerSet, [Next]_vars
  PROVE  result' \in Result
<1>0. result \in Result /\ index \in Nat
  BY DEF TypeOK, MainTypeOK
<1>1. CASE Wait
  <2>1. ASSUME slice.len > 0
        PROVE  result' \in Result
    <3> DEFINE e == Cell(slice.ptr, 1)
    <3>1. e \in Nat
      BY <1>1, <2>1, FirstErrorType DEF Wait
    <3>2. result' = IF e = NilError THEN Nil ELSE [kind |-> "server", of |-> e]
      BY <1>1, <2>1 DEF Wait, Return
    <3> QED BY <3>1, <3>2, Results
  <2> QED BY <1>0, <1>1, <2>1 DEF Wait
<1>2. CASE LookupRelease \/ LeaveEnvoys \/ EndMaster \/ EndEnvoy
  BY <1>0, <1>2, Results DEF LookupRelease, LeaveEnvoys, EndMaster, EndEnvoy, Return
<1>3. ASSUME \/ Prepare \/ BeginMaster \/ LeaveMasters \/ Spawn \/ LeaveSpawn \/ BeginEnvoy
             \/ \E g \in Goroutine : GoStep(g) \/ EndServer(g)
             \/ UNCHANGED vars
      PROVE  UNCHANGED result
  BY <1>3 DEF Prepare, BeginMaster, LeaveMasters, Spawn, LeaveSpawn, BeginEnvoy, GoStep,
              BeginServer, ReportError, Done, EndServer, vars, mainVars
<1> QED BY <1>0, <1>1, <1>2, <1>3 DEF Next, MainStep, SessionEnds, Exited

LEMMA MainTypeStep ==
  ASSUME TypeOK, WgCounts, PointerSet, [Next]_vars
  PROVE  MainTypeOK'
<1>1. index' \in Nat
  <2>1. index \in Nat
    BY DEF TypeOK, MainTypeOK
  <2>2. index' \in {index, 1, index + 1}
    BY DEF Next, MainStep, GoStep, SessionEnds, Exited, Prepare, BeginMaster, EndMaster,
           LeaveMasters, Spawn, LeaveSpawn, Wait, LookupRelease, BeginEnvoy, EndEnvoy,
           LeaveEnvoys, BeginServer, EndServer, ReportError, Done, vars, mainVars
  <2> QED BY <2>1, <2>2
<1>2. component' \in Kind \union {""}
  <2>1. UNCHANGED component
    BY DEF Next, MainStep, GoStep, SessionEnds, Exited, Prepare, BeginMaster, EndMaster,
           LeaveMasters, Spawn, LeaveSpawn, Wait, LookupRelease, BeginEnvoy, EndEnvoy,
           LeaveEnvoys, BeginServer, EndServer, ReportError, Done, vars, mainVars
  <2> QED BY <2>1 DEF TypeOK, MainTypeOK
<1>3. pc' \in {"prepare", "masters", "spawn", "wait", "release", "envoys", "returned"}
  <2>1. pc' \in {pc, "masters", "spawn", "wait", "release", "envoys", "returned"}
    BY DEF Next, MainStep, GoStep, SessionEnds, Exited, Prepare, BeginMaster, EndMaster,
           LeaveMasters, Spawn, LeaveSpawn, Wait, LookupRelease, BeginEnvoy, EndEnvoy,
           LeaveEnvoys, BeginServer, EndServer, ReportError, Done, Return, vars, mainVars
  <2> QED BY <2>1 DEF TypeOK, MainTypeOK
<1>4. master' \in [Master -> Status]
  <2>1. \/ master' = master
        \/ \E s \in Status : master' = [master EXCEPT ![index] = s]
    BY DEF Next, MainStep, GoStep, SessionEnds, Exited, Prepare, BeginMaster, EndMaster,
           LeaveMasters, Spawn, LeaveSpawn, Wait, LookupRelease, BeginEnvoy, EndEnvoy,
           LeaveEnvoys, BeginServer, EndServer, ReportError, Done, vars, sessions, Status
  <2> QED BY <2>1 DEF TypeOK, MainTypeOK
<1>5. envoy' \in [Envoy -> Status]
  <2>1. \/ envoy' = envoy
        \/ \E s \in Status : envoy' = [envoy EXCEPT ![index] = s]
    BY DEF Next, MainStep, GoStep, SessionEnds, Exited, Prepare, BeginMaster, EndMaster,
           LeaveMasters, Spawn, LeaveSpawn, Wait, LookupRelease, BeginEnvoy, EndEnvoy,
           LeaveEnvoys, BeginServer, EndServer, ReportError, Done, vars, sessions, Status
  <2> QED BY <2>1 DEF TypeOK, MainTypeOK
<1>6. server' \in [Goroutine -> Status]
  <2>1. \/ server' = server
        \/ \E g \in Goroutine, s \in Status : server' = [server EXCEPT ![g] = s]
    BY DEF Next, MainStep, GoStep, SessionEnds, Exited, Prepare, BeginMaster, EndMaster,
           LeaveMasters, Spawn, LeaveSpawn, Wait, LookupRelease, BeginEnvoy, EndEnvoy,
           LeaveEnvoys, BeginServer, EndServer, ReportError, Done, vars, sessions, Status
  <2> QED BY <2>1 DEF TypeOK, MainTypeOK
<1> QED BY <1>1, <1>2, <1>3, <1>4, <1>5, <1>6, ResultStep DEF MainTypeOK

LEMMA StartedStep ==
  ASSUME TypeOK, WgCounts, Started, [Next]_vars
  PROVE  Started'
<1>1. CASE Spawn
  <2>1. index \in Goroutine /\ step[index] = "idle" /\ index \in Nat
    BY <1>1, SpawnIdle DEF TypeOK, MainTypeOK
  <2>2. pc = "spawn" /\ pc' = "spawn" /\ index' = index + 1 /\ UNCHANGED component
    BY <1>1 DEF Spawn
  <2>3. \A g \in Goroutine \ {index} : step'[g] = step[g]
    BY <1>1 DEF Spawn, Goto, TypeOK, ErrTypeOK
  <2>4. Selected(index) => step'[index] # "idle"
    BY <1>1, <2>1 DEF Spawn, Goto, TypeOK, ErrTypeOK
  <2>5. \A g \in Goroutine : Selected(g)' = Selected(g)
    BY <2>2 DEF Selected, shouldInstall
  <2>6. ASSUME NEW g \in Goroutine, g >= index + 1
        PROVE  step'[g] = "idle"
    BY <2>1, <2>2, <2>3, <2>6 DEF Started, Goroutine
  <2>7. ASSUME NEW g \in Goroutine, g < index + 1, Selected(g)
        PROVE  step'[g] # "idle"
    BY <2>1, <2>2, <2>3, <2>4, <2>7 DEF Started, Goroutine
  <2> QED BY <2>2, <2>5, <2>6, <2>7 DEF Started
<1>2. ASSUME NEW g \in Goroutine, step[g] # "idle", step'[g] # "idle",
             \A i \in Goroutine \ {g} : step'[i] = step[i],
             UNCHANGED <<component, pc, index>>
      PROVE  Started'
  BY <1>2 DEF Started, Selected, shouldInstall
<1>3. ASSUME NEW g \in Goroutine, ReportError(g) \/ EndServer(g) \/ Done(g)
      PROVE  /\ step[g] # "idle" /\ step'[g] # "idle"
             /\ \A i \in Goroutine \ {g} : step'[i] = step[i]
             /\ UNCHANGED <<component, pc, index>>
  BY <1>3 DEF ReportError, AppendError, Load, HasRoom, Grow, StoreCap, StorePtr, StoreLen,
              StoreElem, EndServer, Done, Goto, mainVars, TypeOK, ErrTypeOK
<1>4. CASE Prepare \/ LeaveMasters \/ EndMaster
  BY <1>4 DEF Prepare, LeaveMasters, EndMaster, Return, Started, Goroutine
<1>5. CASE LeaveSpawn
  <2>1. pc = "spawn" /\ pc' = "wait" /\ UNCHANGED <<component, step>>
    BY <1>5 DEF LeaveSpawn
  <2>2. index \in Nat
    BY DEF TypeOK, MainTypeOK
  <2>3. \A g \in Goroutine : g < index
    BY <1>5, <2>2 DEF LeaveSpawn, Goroutine
  <2> QED BY <2>1, <2>3 DEF Started, Selected, shouldInstall
<1>6. CASE Wait \/ LookupRelease \/ EndEnvoy \/ LeaveEnvoys
  BY <1>6 DEF Wait, LookupRelease, EndEnvoy, LeaveEnvoys, Return, Started
<1>7. ASSUME UNCHANGED <<component, pc, index, step>>
      PROVE  Started'
  BY <1>7 DEF Started, Selected, shouldInstall
<1>8. ASSUME \/ BeginMaster \/ BeginEnvoy
             \/ \E g \in Goroutine : BeginServer(g)
             \/ UNCHANGED vars
      PROVE  UNCHANGED <<component, pc, index, step>>
  BY <1>8 DEF BeginMaster, BeginEnvoy, BeginServer, vars, mainVars
<1> QED
  BY <1>1, <1>2, <1>3, <1>4, <1>5, <1>6, <1>7, <1>8
  DEF Next, MainStep, GoStep, SessionEnds, Exited

-----------------------------------------------------------------------------
(* What the steps that are not a goroutine's leave alone. *)
LEMMA MainKeepsServers ==
  ASSUME \/ MainStep \/ EndMaster \/ EndEnvoy \/ UNCHANGED vars
  PROVE  UNCHANGED <<server, slice>>
BY DEF MainStep, Prepare, BeginMaster, LeaveMasters, Spawn, LeaveSpawn, Wait, LookupRelease,
       BeginEnvoy, LeaveEnvoys, EndMaster, EndEnvoy, vars, sessions, errVars

LEMMA MainKeepsSteps ==
  ASSUME \/ (MainStep /\ ~ Spawn) \/ EndMaster \/ EndEnvoy \/ UNCHANGED vars
  PROVE  UNCHANGED step
BY DEF MainStep, Prepare, BeginMaster, LeaveMasters, LeaveSpawn, Wait, LookupRelease,
       BeginEnvoy, LeaveEnvoys, EndMaster, EndEnvoy, vars

(* What a step of goroutine g leaves alone. *)
LEMMA GoKeepsMain ==
  ASSUME NEW g \in Goroutine, GoStep(g) \/ EndServer(g)
  PROVE  UNCHANGED <<component, pc, index, result, master, envoy>>
BY DEF GoStep, BeginServer, EndServer, ReportError, Done, mainVars, sessions

LEMMA GoKeepsOthers ==
  ASSUME TypeOK, NEW g \in Goroutine, GoStep(g) \/ EndServer(g), NEW i \in Goroutine, i # g
  PROVE  step'[i] = step[i] /\ server'[i] = server[i]
<1>1. step'[i] = step[i]
  BY DEF GoStep, BeginServer, EndServer, ReportError, Done, Goto, TypeOK, ErrTypeOK, errVars,
         AppendError, Load, HasRoom, Grow, StoreCap, StorePtr, StoreLen, StoreElem
<1>2. server'[i] = server[i]
  BY DEF GoStep, BeginServer, EndServer, ReportError, Done, sessions, TypeOK, MainTypeOK
<1> QED BY <1>1, <1>2

LEMMA SessionStepStep ==
  ASSUME TypeOK, Started, SessionStep, [Next]_vars
  PROVE  SessionStep'
<1>1. ASSUME NEW g \in Goroutine, GoStep(g) \/ EndServer(g)
      PROVE  SessionStep'
  <2>1. \A i \in Goroutine \ {g} : step'[i] = step[i] /\ server'[i] = server[i]
    BY <1>1, GoKeepsOthers
  <2>2. CASE BeginServer(g)
    <3>1. step'[g] = "session" /\ server'[g] = "running"
      BY <2>2 DEF BeginServer, TypeOK, MainTypeOK
    <3> QED BY <2>1, <3>1 DEF SessionStep, AppendStep
  <2>3. CASE EndServer(g)
    <3>1. \/ step'[g] = "exit" /\ server'[g] = "ok"
          \/ step'[g] = "load" /\ server'[g] = "failed"
      BY <2>3 DEF EndServer, Goto, TypeOK, ErrTypeOK, MainTypeOK
    <3> QED BY <2>1, <3>1 DEF SessionStep, AppendStep
  <2>4. CASE ReportError(g)
    <3>1. /\ step[g] \in AppendStep /\ step'[g] \in AppendStep \union {"exit"}
          /\ server'[g] = server[g]
      BY <2>4 DEF ReportError, sessions, AppendError, Load, HasRoom, Grow, StoreCap, StorePtr,
                  StoreLen, StoreElem, Goto, AppendStep, TypeOK, ErrTypeOK
    <3> QED BY <2>1, <3>1 DEF SessionStep, AppendStep
  <2>5. CASE Done(g)
    <3>1. step[g] = "exit" /\ step'[g] = "done" /\ server'[g] = server[g]
      BY <2>5 DEF Done, Goto, sessions, TypeOK, ErrTypeOK
    <3> QED BY <2>1, <3>1 DEF SessionStep, AppendStep
  <2> QED BY <1>1, <2>2, <2>3, <2>4, <2>5 DEF GoStep
<1>2. CASE Spawn
  <2>1. UNCHANGED server /\ step[index] = "idle"
    BY <1>2, SpawnIdle DEF Spawn, sessions
  <2>2. step' = step \/ step' = [step EXCEPT ![index] = "session"]
    BY <1>2 DEF Spawn, Goto
  <2>3. \A g \in Goroutine : step'[g] = step[g] \/ (g = index /\ step'[g] = "session")
    BY <2>2 DEF TypeOK, ErrTypeOK
  <2> QED BY <2>1, <2>3 DEF SessionStep, AppendStep
<1>3. CASE (MainStep /\ ~ Spawn) \/ EndMaster \/ EndEnvoy \/ UNCHANGED vars
  BY <1>3, MainKeepsServers, MainKeepsSteps DEF SessionStep
<1> QED BY <1>1, <1>2, <1>3 DEF Next, SessionEnds, Exited, MainStep

LEMMA ErrorCountedStep ==
  ASSUME TypeOK, Started, SessionStep, ErrorCounted, [Next]_vars
  PROVE  ErrorCounted'
<1>1. ASSUME NEW g \in Goroutine, GoStep(g) \/ EndServer(g)
      PROVE  ErrorCounted'
  <2>1. \A i \in Goroutine \ {g} : step'[i] = step[i] /\ server'[i] = server[i]
    BY <1>1, GoKeepsOthers
  <2>2. CASE BeginServer(g) \/ EndServer(g)
    <3>1. /\ UNCHANGED slice
          /\ \/ step'[g] \in {"session", "load"}
             \/ server'[g] = "ok"
      BY <2>2 DEF BeginServer, EndServer, Goto, errVars, TypeOK, ErrTypeOK, MainTypeOK
    <3> QED BY <2>1, <3>1 DEF ErrorCounted
  <2>3. CASE StoreLen(g) /\ ReportError(g)
    <3>1. reg[g].len \in Nat
      BY WordTypes DEF TypeOK
    <3>2. slice'.len = reg[g].len + 1
      BY <2>3 DEF StoreLen, TypeOK, ErrTypeOK, Header
    <3> QED BY <3>1, <3>2 DEF ErrorCounted
  <2>4. CASE ~ StoreLen(g) /\ ReportError(g)
    <3>1. /\ UNCHANGED server /\ slice'.len = slice.len
          /\ step'[g] \in {"elem", "exit", "done"} => step[g] \in {"elem", "exit", "done"}
      BY <2>4 DEF ReportError, sessions, AppendError, Load, HasRoom, Grow, StoreCap, StorePtr,
                  StoreElem, Goto, errVars, TypeOK, ErrTypeOK, Header
    <3> QED BY <2>1, <3>1 DEF ErrorCounted
  <2>5. CASE Done(g)
    <3>1. step[g] = "exit" /\ UNCHANGED <<server, slice>>
      BY <2>5 DEF Done, sessions, errVars
    <3> QED BY <2>1, <3>1 DEF ErrorCounted
  <2> QED BY <1>1, <2>2, <2>3, <2>4, <2>5 DEF GoStep
<1>2. CASE Spawn
  <2>1. UNCHANGED <<server, slice>>
    BY <1>2 DEF Spawn, sessions, errVars
  <2>2. \A g \in Goroutine : step'[g] = step[g] \/ step'[g] = "session"
    BY <1>2 DEF Spawn, Goto, TypeOK, ErrTypeOK
  <2> QED BY <2>1, <2>2 DEF ErrorCounted
<1>3. CASE (MainStep /\ ~ Spawn) \/ EndMaster \/ EndEnvoy \/ UNCHANGED vars
  BY <1>3, MainKeepsServers, MainKeepsSteps DEF ErrorCounted
<1> QED BY <1>1, <1>2, <1>3 DEF Next, SessionEnds, Exited, MainStep

-----------------------------------------------------------------------------
(* wg.Wait(): when the counter is zero, no goroutine is live. *)
LEMMA NoneLive ==
  ASSUME WgCounts, wg = 0
  PROVE  \A g \in Goroutine : step[g] \in {"idle", "done"}
<1>1. Live = {}
  BY LiveFinite, FS_EmptySet DEF WgCounts
<1> QED BY <1>1 DEF Live

LEMMA WaitCoversStep ==
  ASSUME TypeOK, WgCounts, Started, WaitCoversGoroutines, Alive, Next
  PROVE  WaitCoversGoroutines'
<1>1. ASSUME NEW g \in Goroutine, GoStep(g) \/ EndServer(g)
      PROVE  WaitCoversGoroutines'
  <2>1. step[g] \notin {"idle", "done"}
    BY <1>1 DEF GoStep, BeginServer, EndServer, ReportError, Done, AppendError, Load, HasRoom,
                Grow, StoreCap, StorePtr, StoreLen, StoreElem
  <2>2. UNCHANGED pc
    BY <1>1, GoKeepsMain
  <2> QED BY <2>1, <2>2 DEF WaitCoversGoroutines
<1>2. CASE Spawn
  BY <1>2 DEF Spawn, WaitCoversGoroutines
<1>3. CASE Wait
  BY <1>3, NoneLive DEF Wait, WaitCoversGoroutines
<1>4. CASE EndMaster
  BY <1>4 DEF EndMaster, Started, WaitCoversGoroutines
<1>5. CASE Prepare \/ BeginMaster \/ LeaveMasters \/ LeaveSpawn
  BY <1>5 DEF Prepare, BeginMaster, LeaveMasters, LeaveSpawn, mainVars, WaitCoversGoroutines
<1>6. CASE LookupRelease \/ BeginEnvoy \/ LeaveEnvoys \/ EndEnvoy
  BY <1>6 DEF LookupRelease, BeginEnvoy, LeaveEnvoys, EndEnvoy, mainVars, WaitCoversGoroutines
<1> QED BY <1>1, <1>2, <1>3, <1>4, <1>5, <1>6 DEF Next, SessionEnds, Exited, MainStep

LEMMA MastersFirstStep ==
  ASSUME TypeOK, MastersFirst, Next
  PROVE  MastersFirst'
<1>0. index \in Nat /\ master \in [Master -> Status]
  BY DEF TypeOK, MainTypeOK
<1>8. \A i \in Master : i \in Nat /\ i >= 1
  BY DEF Master
<1>1. CASE EndMaster
  <2>1. pc = "masters" /\ UNCHANGED component /\ index \in Master
    BY <1>1 DEF EndMaster
  <2>2. CASE master' = [master EXCEPT ![index] = "ok"] /\ index' = index + 1 /\ UNCHANGED pc
    <3>1. ASSUME shouldInstall("master"), NEW i \in Master, i < index + 1
          PROVE  master'[i] = "ok"
      <4>1. CASE i = index
        BY <1>0, <1>8, <2>2, <4>1
      <4>2. CASE i < index
        BY <1>0, <1>8, <2>1, <2>2, <3>1, <4>2 DEF MastersFirst
      <4> QED BY <1>0, <1>8, <3>1, <4>1, <4>2
    <3> QED BY <2>1, <2>2, <3>1 DEF MastersFirst, shouldInstall
  <2>3. CASE pc' = "returned"
    BY <2>3 DEF MastersFirst
  <2> QED BY <1>1, <2>2, <2>3 DEF EndMaster, Return
<1>2. CASE LeaveMasters
  <2>1. /\ pc = "masters" /\ pc' = "spawn" /\ UNCHANGED <<component, master>>
        /\ shouldInstall("master") => index > NMaster
    BY <1>2 DEF LeaveMasters, sessions
  <2>2. shouldInstall("master") => \A i \in Master : i < index
    BY <1>0, <1>8, <2>1 DEF Master
  <2> QED BY <2>1, <2>2 DEF MastersFirst, shouldInstall
<1>3. CASE BeginMaster
  <2>1. /\ pc = "masters" /\ UNCHANGED <<pc, index, component>>
        /\ master' = [master EXCEPT ![index] = "running"]
    BY <1>3 DEF BeginMaster, mainVars
  <2>2. \A i \in Master : i < index => master'[i] = master[i]
    BY <1>0, <1>8, <2>1
  <2> QED BY <2>1, <2>2 DEF MastersFirst, shouldInstall
<1>4. CASE Prepare
  <2>1. pc = "prepare" /\ pc' = "masters" /\ UNCHANGED <<component, index>>
    BY <1>4 DEF Prepare
  <2>2. \A i \in Master : ~ (i < 1)
    BY <1>8
  <2>3. shouldInstall("master") => index' = 1
    BY <2>1 DEF MastersFirst
  <2> QED BY <2>1, <2>2, <2>3 DEF MastersFirst, shouldInstall
<1>5. CASE Spawn \/ LeaveSpawn \/ Wait \/ LookupRelease \/ BeginEnvoy \/ EndEnvoy \/ LeaveEnvoys
  <2>1. /\ pc \in {"spawn", "wait", "release", "envoys"}
        /\ pc' \notin {"prepare", "masters"} /\ UNCHANGED <<component, master>>
    BY <1>5 DEF Spawn, LeaveSpawn, Wait, LookupRelease, BeginEnvoy, EndEnvoy, LeaveEnvoys,
                Return, sessions, mainVars
  <2> QED BY <2>1 DEF MastersFirst, shouldInstall
<1>6. ASSUME UNCHANGED <<component, pc, index, master>>
      PROVE  MastersFirst'
  BY <1>6 DEF MastersFirst, shouldInstall
<1>7. ASSUME (\E g \in Goroutine : GoStep(g) \/ EndServer(g)) \/ UNCHANGED vars
      PROVE  UNCHANGED <<component, pc, index, master>>
  BY <1>7, GoKeepsMain DEF vars, mainVars, sessions
<1> QED BY <1>1, <1>2, <1>3, <1>4, <1>5, <1>6, <1>7 DEF Next, SessionEnds, Exited, MainStep

LEMMA EnvoysLastStep ==
  ASSUME TypeOK, WgCounts, Started, SessionStep, ErrorCounted, EnvoysLast,
         WaitCoversGoroutines, Alive, Next
  PROVE  EnvoysLast'
<1>1. CASE Wait
  <2>1. /\ pc = "wait" /\ UNCHANGED <<component, server, envoy>>
        /\ slice.len > 0 => pc' = "returned"
        /\ pc' \in {"release", "returned"}
    BY <1>1 DEF Wait, Return, sessions
  <2>2. ASSUME ~ (slice.len > 0), NEW g \in Goroutine, Selected(g)
        PROVE  server[g] = "ok"
    <3>1. step[g] = "done"
      BY <1>1, <2>1, <2>2, NoneLive DEF Wait, Started
    <3> QED BY <2>2, <3>1 DEF SessionStep, ErrorCounted
  <2> QED BY <2>1, <2>2 DEF EnvoysLast, Selected, shouldInstall
<1>2. CASE LookupRelease \/ LeaveEnvoys
  <2>1. /\ pc \in {"release", "envoys"} /\ pc' \in {"envoys", "returned"}
        /\ UNCHANGED <<component, server, envoy>>
    BY <1>2 DEF LookupRelease, LeaveEnvoys, Return, sessions
  <2> QED BY <2>1 DEF EnvoysLast, Selected, shouldInstall
<1>3. CASE BeginEnvoy \/ EndEnvoy
  <2>1. /\ pc = "envoys" /\ pc' \in {"envoys", "returned"} /\ UNCHANGED <<component, server>>
    BY <1>3 DEF BeginEnvoy, EndEnvoy, Return, mainVars
  <2> QED BY <2>1 DEF EnvoysLast, Selected, shouldInstall
<1>4. CASE Prepare \/ BeginMaster \/ EndMaster \/ LeaveMasters \/ Spawn \/ LeaveSpawn
  <2>1. /\ pc \notin {"envoys", "returned"} /\ pc' \notin {"release", "envoys"}
        /\ UNCHANGED envoy
    BY <1>4 DEF Prepare, BeginMaster, EndMaster, LeaveMasters, Spawn, LeaveSpawn, Return,
                sessions, mainVars
  <2> QED BY <2>1 DEF EnvoysLast
<1>5. ASSUME NEW g \in Goroutine, GoStep(g) \/ EndServer(g)
      PROVE  EnvoysLast'
  <2>1. step[g] \notin {"idle", "done"}
    BY <1>5 DEF GoStep, BeginServer, EndServer, ReportError, Done, AppendError, Load, HasRoom,
                Grow, StoreCap, StorePtr, StoreLen, StoreElem
  <2>2. pc \notin {"release", "envoys"}
    BY <2>1 DEF WaitCoversGoroutines
  <2>3. UNCHANGED <<pc, envoy>>
    BY <1>5, GoKeepsMain
  <2> QED BY <2>2, <2>3 DEF EnvoysLast
<1>6. CASE UNCHANGED vars
  BY <1>6 DEF EnvoysLast, Selected, shouldInstall, vars, mainVars, sessions
<1> QED BY <1>1, <1>2, <1>3, <1>4, <1>5, <1>6 DEF Next, SessionEnds, Exited, MainStep

LEMMA PhaseOrderStep ==
  ASSUME TypeOK, Started, SessionStep, MastersFirst, EnvoysLast, PhaseOrder,
         WaitCoversGoroutines, Alive, Next
  PROVE  PhaseOrder'
<1>1. CASE BeginEnvoy
  <2>1. pc = "envoys" /\ UNCHANGED <<component, master, server>>
    BY <1>1 DEF BeginEnvoy, mainVars
  <2> QED BY <2>1 DEF EnvoysLast, PhaseOrder, Selected, shouldInstall
<1>2. CASE EndEnvoy
  <2>1. pc = "envoys" /\ UNCHANGED <<component, master, server>>
    BY <1>2 DEF EndEnvoy
  <2> QED BY <2>1 DEF EnvoysLast, PhaseOrder, Selected, shouldInstall
<1>3. CASE BeginMaster \/ EndMaster
  <2>1. pc = "masters" /\ UNCHANGED <<component, server, envoy>>
    BY <1>3 DEF BeginMaster, EndMaster, mainVars
  <2>2. \A g \in Goroutine : server[g] = "idle"
    BY <2>1 DEF Started, SessionStep
  <2>3. \A j \in Envoy : envoy[j] = "idle"
    BY <2>1 DEF EnvoysLast
  <2> QED BY <2>1, <2>2, <2>3 DEF PhaseOrder
<1>4. ASSUME NEW g \in Goroutine, GoStep(g) \/ EndServer(g)
      PROVE  PhaseOrder'
  <2>1. UNCHANGED <<component, pc, master, envoy>>
    BY <1>4, GoKeepsMain
  <2>2. step[g] \notin {"idle", "done"}
    BY <1>4 DEF GoStep, BeginServer, EndServer, ReportError, Done, AppendError, Load, HasRoom,
                Grow, StoreCap, StorePtr, StoreLen, StoreElem
  <2>3. pc \in {"spawn", "wait"}
    BY <2>2 DEF Started, WaitCoversGoroutines, Alive, TypeOK, MainTypeOK
  <2>4. shouldInstall("master") => \A i \in Master : master[i] = "ok"
    BY <2>3 DEF MastersFirst
  <2>5. \A j \in Envoy : envoy[j] = "idle"
    BY <2>3 DEF EnvoysLast
  <2> QED BY <2>1, <2>4, <2>5 DEF PhaseOrder, shouldInstall
<1>5. ASSUME UNCHANGED <<component, master, server, envoy>>
      PROVE  PhaseOrder'
  BY <1>5 DEF PhaseOrder, Selected, shouldInstall
<1>6. ASSUME \/ Prepare \/ LeaveMasters \/ Spawn \/ LeaveSpawn \/ Wait \/ LookupRelease
             \/ LeaveEnvoys \/ UNCHANGED vars
      PROVE  UNCHANGED <<component, master, server, envoy>>
  BY <1>6 DEF Prepare, LeaveMasters, Spawn, LeaveSpawn, Wait, LookupRelease, LeaveEnvoys, vars,
              mainVars, sessions
<1> QED BY <1>1, <1>2, <1>3, <1>4, <1>5, <1>6 DEF Next, SessionEnds, Exited, MainStep

-----------------------------------------------------------------------------
LEMMA InitIInv == Init => IInv
<1> SUFFICES ASSUME Init PROVE IInv
  OBVIOUS
<1>1. TypeOK
  <2>1. ErrTypeOK
    <3>1. NilSlice \in Header
      BY DEF NilSlice, NoPtr, Header
    <3>2. <<>> \in Seq(0..NGo + 1)
      OBVIOUS
    <3> QED BY <3>1, <3>2 DEF Init, ErrInit, ErrTypeOK, StepName
  <2>2. Running \in Result
    BY DEF Running, Result
  <2> QED BY <2>1, <2>2 DEF Init, TypeOK, MainTypeOK, Status
<1>2. WgCounts
  <2>1. Live = {} /\ wg = 0
    BY DEF Init, Live
  <2> QED BY <2>1, FS_EmptySet DEF WgCounts
<1>3. PointerSet
  <2>1. slice.len = 0 /\ \A g \in Goroutine : reg[g].ptr = NoPtr /\ step[g] = "idle"
    BY DEF Init, ErrInit, NilSlice
  <2> QED BY <2>1 DEF PointerSet
<1>4. Started /\ SessionStep /\ ErrorCounted
  BY DEF Init, Started, SessionStep, ErrorCounted, AppendStep
<1>5. MastersFirst /\ EnvoysLast /\ WaitCoversGoroutines /\ PhaseOrder
  BY DEF Init, MastersFirst, EnvoysLast, WaitCoversGoroutines, PhaseOrder
<1> QED BY <1>1, <1>2, <1>3, <1>4, <1>5 DEF IInv

LEMMA NextIInv == IInv /\ [Next]_vars => IInv'
<1> SUFFICES ASSUME IInv, [Next]_vars PROVE IInv'
  OBVIOUS
<1>1. CASE UNCHANGED vars
  <2>1. UNCHANGED <<component, pc, index, wg, result, master, server, envoy, slice, array, reg,
                    unread, fault, step>>
    BY <1>1 DEF vars, mainVars, sessions, errVars
  <2>2. TypeOK'
    BY <2>1 DEF IInv, TypeOK, MainTypeOK, ErrTypeOK
  <2>3. WgCounts' /\ PointerSet' /\ Started' /\ SessionStep' /\ ErrorCounted'
    BY <2>1 DEF IInv, WgCounts, Live, PointerSet, Started, SessionStep, ErrorCounted, Selected,
                shouldInstall
  <2>4. MastersFirst' /\ EnvoysLast' /\ WaitCoversGoroutines' /\ PhaseOrder'
    BY <2>1 DEF IInv, MastersFirst, EnvoysLast, WaitCoversGoroutines, PhaseOrder, Selected,
                shouldInstall
  <2> QED BY <2>2, <2>3, <2>4 DEF IInv
<1>2. CASE Alive /\ Next
  <2>1. TypeOK' /\ WgCounts'
    BY WgMoves, ErrTypeStep, MainTypeStep DEF IInv, TypeOK
  <2>2. PointerSet' /\ Started' /\ SessionStep' /\ ErrorCounted'
    BY PointerStep, StartedStep, SessionStepStep, ErrorCountedStep DEF IInv
  <2>3. MastersFirst' /\ EnvoysLast' /\ WaitCoversGoroutines' /\ PhaseOrder'
    BY <1>2, MastersFirstStep, EnvoysLastStep, WaitCoversStep, PhaseOrderStep DEF IInv
  <2> QED BY <2>1, <2>2, <2>3 DEF IInv
<1> QED BY <1>1, <1>2 DEF Next, Exited

LEMMA Invariance == Spec => []IInv
<1> QED BY InitIInv, NextIInv, PTL DEF Spec

(* The state has its types: in particular the counter of the wait group is *)
(* never negative, so wg.Done() never panics.                              *)
THEOREM Typing == Spec => []TypeOK
<1>1. IInv => TypeOK
  BY DEF IInv
<1> QED BY <1>1, Invariance, PTL

(* wg.Wait() covers every goroutine, however many there are.               *)
THEOREM WaitCovers == Spec => []WaitCoversGoroutines
<1>1. IInv => WaitCoversGoroutines
  BY DEF IInv
<1> QED BY <1>1, Invariance, PTL

(* The phases are ordered although the appends race: an error may be       *)
(* overwritten, but it is never lost altogether.                           *)
THEOREM PhasesOrdered == Spec => []PhaseOrder
<1>1. IInv => PhaseOrder
  BY DEF IInv
<1> QED BY <1>1, Invariance, PTL

=============================================================================
