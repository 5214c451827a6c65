------------------------ MODULE DeployRolloutProofs -------------------------
(***************************************************************************)
(* DeployCluster returns only the error of a session that failed, never    *)
(* loses a failure that is the only one, and implements Rollout.           *)
(*                                                                         *)
(* The race can lose errors, but not make one up: this part is about the   *)
(* FIRST cell of every array growslice ever returned; the others may well  *)
(* hold garbage, copied from beyond the end of an old array.  The rest is  *)
(* one argument: as long as at most one session failed, its goroutine is   *)
(* alone in deployErrors, the append works as the language says, and a nil *)
(* error or a fault is impossible.                                         *)
(***************************************************************************)
EXTENDS DeployClusterProofs


(* Given the sessions srv, is e nil or the error of a failed one? *)
Genuine(srv, e) == e = NilError \/ (e \in Goroutine /\ srv[e] = "failed")

(* The first cell of an array is nil or the error of a failed session. *)
FirstCell ==
  \A p \in Goroutine : Len(array[p]) > 0 => Genuine(server, array[p][1])

(* A pointer, in memory or in a register, is to an array that is there. *)
Allocated ==
  /\ slice.ptr # NoPtr => Len(array[slice.ptr]) > 0
  /\ \A g \in Goroutine : reg[g].ptr # NoPtr => Len(array[reg[g].ptr]) > 0

(* Nothing is returned before the return. *)
NoResultYet == pc # "returned" => result = Running

(* The inductive invariant of ReportedErrors. *)
GInv == IInv /\ FirstCell /\ Allocated /\ NoResultYet /\ ReportedErrorIsGenuine

USE NGoAssumption, ServerCounts, MaxFailuresAssumption

-----------------------------------------------------------------------------
LEMMA NewCapPositive ==
  ASSUME NEW h \in Header
  PROVE  NewCap(h) \in Nat /\ NewCap(h) >= 1
<1>1. h.len \in Nat /\ h.cap \in Nat
  BY DEF Header
<1>2. CASE h.len + 1 > 2 * h.cap
  BY <1>1, <1>2 DEF NewCap
<1>3. CASE ~ (h.len + 1 > 2 * h.cap)
  BY <1>1, <1>3 DEF NewCap
<1> QED BY <1>2, <1>3

LEMMA NonEmpty ==
  ASSUME NEW S, NEW s \in Seq(S), 1 \in DOMAIN s
  PROVE  Len(s) > 0
<1>1. Len(s) \in Nat /\ 1 \in 1..Len(s)
  BY LenProperties
<1> QED BY <1>1

(* What growslice returns. *)
LEMMA GrownArray ==
  ASSUME ErrTypeOK, FirstCell, Allocated, NEW g \in Goroutine,
         ~ (reg[g].ptr = NoPtr /\ reg[g].len > 0),
         NEW a \in Seq(0..NGo + 1),
         a = [k \in 1..NewCap(reg[g]) |->
                IF k <= reg[g].len THEN Cell(reg[g].ptr, k) ELSE NilError]
  PROVE  Len(a) > 0 /\ Genuine(server, a[1])
<1> DEFINE h == reg[g]
<1>1. h.ptr \in 0..NGo /\ h.len \in Nat
  BY WordTypes
<1>2. NewCap(h) \in Nat /\ NewCap(h) >= 1
  BY NewCapPositive DEF ErrTypeOK
<1>3. 1 \in 1..NewCap(h)
  BY <1>2
<1>4. a[1] = IF 1 <= h.len THEN Cell(h.ptr, 1) ELSE NilError
  BY <1>3
<1>5. 1 \in DOMAIN a
  BY <1>3, Zenon
<1>6. Len(a) > 0
  BY <1>5, NonEmpty
<1>7. CASE 1 <= h.len
  <2>1. h.ptr # NoPtr
    BY <1>1, <1>7
  <2>2. h.ptr \in Goroutine
    BY <1>1, <2>1 DEF NoPtr, Goroutine
  <2>3. array[h.ptr] \in Seq(0..NGo + 1) /\ Len(array[h.ptr]) > 0
    BY <2>1, <2>2 DEF ErrTypeOK, Allocated
  <2>4. 1 <= Len(array[h.ptr])
    BY <2>3, LenProperties
  <2>5. Cell(h.ptr, 1) = array[h.ptr][1]
    BY <2>4 DEF Cell
  <2> QED BY <1>4, <1>6, <1>7, <2>2, <2>3, <2>5 DEF FirstCell
<1>8. CASE ~ (1 <= h.len)
  BY <1>4, <1>6, <1>8 DEF Genuine
<1> QED BY <1>7, <1>8

(* A failed session stays failed. *)
LEMMA FailedStays ==
  ASSUME TypeOK, [Next]_vars, NEW e \in Goroutine, server[e] = "failed"
  PROVE  server'[e] = "failed"
<1>1. CASE UNCHANGED server
  BY <1>1
<1>2. ASSUME NEW g \in Goroutine, BeginServer(g) \/ EndServer(g)
      PROVE  server'[e] = server[e]
  BY <1>2 DEF BeginServer, EndServer, TypeOK, MainTypeOK
<1>3. ASSUME NEW g \in Goroutine, ReportError(g) \/ Done(g)
      PROVE  UNCHANGED server
  BY <1>3 DEF ReportError, Done, sessions
<1>4. CASE MainStep \/ EndMaster \/ EndEnvoy \/ UNCHANGED vars
  BY <1>4, MainKeepsServers
<1> QED BY <1>1, <1>2, <1>3, <1>4 DEF Next, GoStep, SessionEnds, Exited

LEMMA GenuineStays ==
  ASSUME TypeOK, [Next]_vars, NEW e, Genuine(server, e)
  PROVE  Genuine(server', e)
BY FailedStays DEF Genuine

(* How a step changes the arrays. *)
LEMMA ArrayStep ==
  ASSUME TypeOK, SessionStep, FirstCell, Allocated, [Next]_vars, NEW p \in Goroutine
  PROVE  /\ Len(array[p]) > 0 => Len(array'[p]) > 0
         /\ Len(array'[p]) > 0 => Genuine(server', array'[p][1])
<1>0. ErrTypeOK
  BY DEF TypeOK
<1>1. CASE UNCHANGED array
  BY <1>1, GenuineStays DEF FirstCell
<1>2. ASSUME NEW g \in Goroutine, Grow(g)
      PROVE  /\ Len(array[p]) > 0 => Len(array'[p]) > 0
             /\ Len(array'[p]) > 0 => Genuine(server', array'[p][1])
  <2>1. CASE ~ (reg[g].ptr = NoPtr /\ reg[g].len > 0)
    <3> DEFINE a == [k \in 1..NewCap(reg[g]) |->
                       IF k <= reg[g].len THEN Cell(reg[g].ptr, k) ELSE NilError]
    <3>1. array' = [array EXCEPT ![g] = a]
      BY <1>2, <2>1 DEF Grow
    <3>2. Len(a) > 0 /\ Genuine(server, a[1])
      BY <1>0, <2>1, GrownArray, GrownArrayType
    <3> HIDE DEF a
    <3>3. array'[p] = IF p = g THEN a ELSE array[p]
      BY <1>0, <3>1 DEF ErrTypeOK
    <3>4. Len(array'[p]) > 0 => Genuine(server, array'[p][1])
      BY <3>2, <3>3 DEF FirstCell
    <3> QED BY <3>2, <3>3, <3>4, GenuineStays
  <2>2. CASE reg[g].ptr = NoPtr /\ reg[g].len > 0
    BY <1>1, <1>2, <2>2 DEF Grow
  <2> QED BY <2>1, <2>2
<1>3. ASSUME NEW g \in Goroutine, StoreElem(g)
      PROVE  /\ Len(array[p]) > 0 => Len(array'[p]) > 0
             /\ Len(array'[p]) > 0 => Genuine(server', array'[p][1])
  <2> DEFINE q == reg[g].ptr
             k == reg[g].len + 1
  <2>1. CASE q # NoPtr /\ k <= Len(array[q])
    <3>1. q \in 0..NGo /\ k \in Nat /\ k >= 1
      BY <1>0, WordTypes
    <3>2. q \in Goroutine
      BY <2>1, <3>1 DEF NoPtr, Goroutine
    <3>3. array[q] \in Seq(0..NGo + 1) /\ array[p] \in Seq(0..NGo + 1)
      BY <1>0, <3>2 DEF ErrTypeOK
    <3>4. k \in 1..Len(array[q])
      BY <2>1, <3>1, <3>3
    <3>5. array'[p] = IF p = q THEN [array[q] EXCEPT ![k] = g] ELSE array[p]
      BY <1>0, <1>3, <2>1, <3>2 DEF StoreElem, ErrTypeOK
    <3>6. Genuine(server, g)
      BY <1>3 DEF StoreElem, SessionStep, AppendStep, Genuine
    <3>7. g \in 0..NGo + 1
      BY DEF Goroutine
    <3> DEFINE b == [array[q] EXCEPT ![k] = g]
    <3>8. /\ Len(b) = Len(array[q])
          /\ \A j \in 1..Len(array[q]) : b[j] = IF j = k THEN g ELSE array[q][j]
      BY <3>3, <3>4, <3>7, ExceptSeq
    <3>9. array'[p] = IF p = q THEN b ELSE array[p]
      BY <3>5
    <3> HIDE DEF b, k
    <3>10. Len(array'[p]) = Len(array[p])
      BY <3>8, <3>9
    <3>11. Len(array'[p]) > 0 => Genuine(server, array'[p][1])
      <4>1. CASE p = q /\ Len(array[q]) > 0
        <5>1. 1 \in 1..Len(array[q])
          BY <3>3, <4>1
        <5>2. Genuine(server, b[1])
          BY <3>6, <3>8, <4>1, <5>1 DEF FirstCell
        <5> QED BY <3>9, <4>1, <5>2
      <4>2. CASE p # q
        BY <3>9, <4>2 DEF FirstCell
      <4> QED BY <3>10, <4>1, <4>2
    <3> QED BY <3>10, <3>11, GenuineStays
  <2>2. CASE ~ (q # NoPtr /\ k <= Len(array[q]))
    BY <1>1, <1>3, <2>2 DEF StoreElem
  <2> QED BY <2>1, <2>2
<1>4. ASSUME NEW g \in Goroutine, ReportError(g), ~ Grow(g), ~ StoreElem(g)
      PROVE  UNCHANGED array
  BY <1>4 DEF ReportError, AppendError, Load, HasRoom, StoreCap, StorePtr, StoreLen, errVars
<1>5. ASSUME NEW g \in Goroutine, BeginServer(g) \/ EndServer(g) \/ Done(g)
      PROVE  UNCHANGED array
  BY <1>5 DEF BeginServer, EndServer, Done, errVars
<1>6. ASSUME MainStep \/ EndMaster \/ EndEnvoy \/ UNCHANGED vars
      PROVE  UNCHANGED array
  BY <1>6 DEF MainStep, Prepare, BeginMaster, LeaveMasters, Spawn, LeaveSpawn, Wait,
              LookupRelease, BeginEnvoy, LeaveEnvoys, EndMaster, EndEnvoy, vars, errVars
<1> QED BY <1>1, <1>2, <1>3, <1>4, <1>5, <1>6 DEF Next, GoStep, SessionEnds, Exited

(* A pointer in memory comes from a register, one in a register from       *)
(* memory or from growslice, whose array is there.                         *)
LEMMA AllocatedStep ==
  ASSUME TypeOK, SessionStep, PointerSet, FirstCell, Allocated, [Next]_vars
  PROVE  Allocated'
<1>0. ErrTypeOK /\ ErrTypeOK'
  BY ErrTypeStep DEF TypeOK
<1>1. \A p \in Goroutine : Len(array[p]) > 0 => Len(array'[p]) > 0
  BY ArrayStep
<1>2. /\ slice.ptr # NoPtr => slice.ptr \in Goroutine
      /\ \A g \in Goroutine : reg[g].ptr # NoPtr => reg[g].ptr \in Goroutine
  <2>1. slice.ptr \in 0..NGo
    BY <1>0 DEF ErrTypeOK, Header
  <2>2. \A g \in Goroutine : reg[g].ptr \in 0..NGo
    BY <1>0, WordTypes
  <2> QED BY <2>1, <2>2 DEF NoPtr, Goroutine
<1>3. ASSUME NEW q \in Goroutine, slice.ptr = q \/ \E g \in Goroutine : reg[g].ptr = q
      PROVE  Len(array'[q]) > 0
  <2>1. q # NoPtr
    BY DEF NoPtr, Goroutine
  <2> QED BY <1>1, <1>3, <2>1 DEF Allocated
<1>4. ASSUME slice'.ptr = slice.ptr \/ \E g \in Goroutine : slice'.ptr = reg[g].ptr
      PROVE  slice'.ptr # NoPtr => Len(array'[slice'.ptr]) > 0
  BY <1>2, <1>3, <1>4
<1>5. ASSUME NEW g \in Goroutine,
             \/ reg'[g].ptr = reg[g].ptr \/ reg'[g].ptr = slice.ptr
      PROVE  reg'[g].ptr # NoPtr => Len(array'[reg'[g].ptr]) > 0
  BY <1>2, <1>3, <1>5
<1>6. CASE \E g \in Goroutine : Grow(g)
  <2>1. PICK g \in Goroutine : Grow(g)
    BY <1>6
  <2>2. UNCHANGED slice
    BY <2>1 DEF Grow
  <2>3. CASE UNCHANGED reg
    BY <1>4, <1>5, <2>2, <2>3 DEF Allocated
  <2>4. CASE ~ (reg[g].ptr = NoPtr /\ reg[g].len > 0)
    <3> DEFINE a == [k \in 1..NewCap(reg[g]) |->
                       IF k <= reg[g].len THEN Cell(reg[g].ptr, k) ELSE NilError]
    <3>1. /\ array' = [array EXCEPT ![g] = a]
          /\ reg' = [reg EXCEPT ![g] = [@ EXCEPT !.ptr = g, !.cap = NewCap(reg[g])]]
      BY <2>1, <2>4 DEF Grow
    <3>2. Len(a) > 0
      BY <1>0, <2>4, GrownArray, GrownArrayType
    <3> HIDE DEF a
    <3>3. array'[g] = a
      BY <1>0, <3>1 DEF ErrTypeOK
    <3>4. reg'[g].ptr = g /\ \A i \in Goroutine \ {g} : reg'[i] = reg[i]
      BY <1>0, <3>1 DEF ErrTypeOK, Header
    <3>5. ASSUME NEW i \in Goroutine
          PROVE  reg'[i].ptr # NoPtr => Len(array'[reg'[i].ptr]) > 0
      <4>1. CASE i = g
        BY <3>2, <3>3, <3>4, <4>1
      <4>2. CASE i # g
        BY <1>5, <3>4, <4>2
      <4> QED BY <4>1, <4>2
    <3> QED BY <1>4, <2>2, <3>5 DEF Allocated
  <2> QED BY <2>1, <2>3, <2>4 DEF Grow
<1>7. CASE \E g \in Goroutine : Load(g)
  <2>1. PICK g \in Goroutine : Load(g)
    BY <1>7
  <2>2. PICK w \in Word : reg' = [reg EXCEPT ![g] = [@ EXCEPT ![w] = slice[w]]]
    BY <1>0, <2>1 DEF Load, ErrTypeOK
  <2>3. \A i \in Goroutine : reg'[i].ptr = reg[i].ptr \/ reg'[i].ptr = slice.ptr
    BY <1>0, <2>2 DEF ErrTypeOK, Header, Word
  <2>4. UNCHANGED slice
    BY <2>1 DEF Load
  <2> QED BY <1>4, <1>5, <2>3, <2>4 DEF Allocated
<1>8. ASSUME UNCHANGED reg,
             slice'.ptr = slice.ptr \/ \E g \in Goroutine : slice'.ptr = reg[g].ptr
      PROVE  Allocated'
  BY <1>4, <1>5, <1>8 DEF Allocated
<1>9. ASSUME NEW g \in Goroutine, ReportError(g), ~ Load(g), ~ Grow(g)
      PROVE  /\ UNCHANGED reg
             /\ slice'.ptr = slice.ptr \/ slice'.ptr = reg[g].ptr
  BY <1>0, <1>9 DEF ReportError, AppendError, HasRoom, StoreCap, StorePtr, StoreLen, StoreElem,
                    errVars, ErrTypeOK, Header
<1>10. ASSUME NEW g \in Goroutine, BeginServer(g) \/ EndServer(g) \/ Done(g)
       PROVE  UNCHANGED <<reg, slice>>
  BY <1>10 DEF BeginServer, EndServer, Done, errVars
<1>11. ASSUME MainStep \/ EndMaster \/ EndEnvoy \/ UNCHANGED vars
       PROVE  UNCHANGED <<reg, slice>>
  BY <1>11 DEF MainStep, Prepare, BeginMaster, LeaveMasters, Spawn, LeaveSpawn, Wait,
               LookupRelease, BeginEnvoy, LeaveEnvoys, EndMaster, EndEnvoy, vars, errVars
<1> QED BY <1>6, <1>7, <1>8, <1>9, <1>10, <1>11 DEF Next, GoStep, SessionEnds, Exited

LEMMA ReportedStep ==
  ASSUME IInv, FirstCell, Allocated, NoResultYet, ReportedErrorIsGenuine, Alive, Next
  PROVE  NoResultYet' /\ ReportedErrorIsGenuine'
<1>0. TypeOK
  BY DEF IInv
<1>1. ASSUME Wait
      PROVE  ReportedErrorIsGenuine'
  <2>1. UNCHANGED server /\ wg = 0
    BY <1>1 DEF Wait, sessions
  <2>2. ASSUME slice.len > 0
        PROVE  ReportedErrorIsGenuine'
    <3> DEFINE e == Cell(slice.ptr, 1)
    <3>1. slice.ptr \in Goroutine
      BY <2>1, <2>2, FirstErrorType DEF IInv
    <3>2. array[slice.ptr] \in Seq(0..NGo + 1) /\ Len(array[slice.ptr]) > 0
      BY <1>0, <3>1 DEF TypeOK, ErrTypeOK, Allocated, NoPtr, Goroutine
    <3>3. 1 <= Len(array[slice.ptr])
      BY <3>2, LenProperties
    <3>4. e = array[slice.ptr][1] /\ Genuine(server, array[slice.ptr][1])
      BY <3>1, <3>2, <3>3 DEF Cell, FirstCell
    <3> HIDE DEF e
    <3>5. result' = IF e = NilError THEN Nil ELSE [kind |-> "server", of |-> e]
      BY <1>1, <2>2 DEF Wait, Return, e
    <3>6. CASE e = NilError
      <4>1. result'.kind = "nil"
        BY <3>5, <3>6 DEF Nil
      <4> QED BY <4>1 DEF ReportedErrorIsGenuine
    <3>7. CASE e # NilError
      <4>1. result'.kind = "server" /\ result'.of = e
        BY <3>5, <3>7
      <4> QED BY <2>1, <3>4, <3>7, <4>1 DEF ReportedErrorIsGenuine, Genuine
    <3> QED BY <3>6, <3>7
  <2>3. ASSUME ~ (slice.len > 0)
        PROVE  ReportedErrorIsGenuine'
    <3>1. UNCHANGED <<result, master, server, envoy>>
      BY <1>1, <2>3 DEF Wait, sessions
    <3> QED BY <3>1 DEF ReportedErrorIsGenuine
  <2> QED BY <2>2, <2>3
<1>2. pc # "returned"
  BY DEF Alive
<1>3. ASSUME result'.kind \notin {"master", "server", "envoy"}
      PROVE  ReportedErrorIsGenuine'
  BY <1>3 DEF ReportedErrorIsGenuine
<1>4. result = Running
  BY <1>2 DEF NoResultYet
<1>5. /\ result.kind \notin {"master", "server", "envoy"}
      /\ Nil.kind \notin {"master", "server", "envoy"}
      /\ [kind |-> "lookup", of |-> 0].kind \notin {"master", "server", "envoy"}
  BY <1>4 DEF Running, Nil
<1>6. ASSUME EndMaster /\ result' # result
      PROVE  ReportedErrorIsGenuine'
  <2>1. /\ index \in Master /\ master' = [master EXCEPT ![index] = "failed"]
        /\ result' = [kind |-> "master", of |-> index]
    BY <1>6 DEF EndMaster, Return
  <2>2. master'[index] = "failed"
    BY <1>0, <2>1 DEF TypeOK, MainTypeOK
  <2>3. result'.kind = "master" /\ result'.of = index
    BY <2>1
  <2> QED BY <2>2, <2>3 DEF ReportedErrorIsGenuine
<1>7. ASSUME EndEnvoy /\ result' # result
      PROVE  ReportedErrorIsGenuine'
  <2>1. /\ index \in Envoy /\ envoy' = [envoy EXCEPT ![index] = "failed"]
        /\ result' = [kind |-> "envoy", of |-> index]
    BY <1>7 DEF EndEnvoy, Return
  <2>2. envoy'[index] = "failed"
    BY <1>0, <2>1 DEF TypeOK, MainTypeOK
  <2>3. result'.kind = "envoy" /\ result'.of = index
    BY <2>1
  <2> QED BY <2>2, <2>3 DEF ReportedErrorIsGenuine
<1>8. ASSUME LookupRelease \/ LeaveEnvoys
      PROVE  result' \in {result, Nil, [kind |-> "lookup", of |-> 0]}
  BY <1>8 DEF LookupRelease, LeaveEnvoys, Return
<1>9. ASSUME \/ Prepare \/ BeginMaster \/ LeaveMasters \/ Spawn \/ LeaveSpawn \/ BeginEnvoy
             \/ \E g \in Goroutine : GoStep(g) \/ EndServer(g)
      PROVE  UNCHANGED result
  BY <1>9, GoKeepsMain DEF Prepare, BeginMaster, LeaveMasters, Spawn, LeaveSpawn, BeginEnvoy,
                           mainVars
<1>10. ReportedErrorIsGenuine'
  BY <1>1, <1>3, <1>5, <1>6, <1>7, <1>8, <1>9 DEF Alive, Next, MainStep, SessionEnds, Exited
<1>11. NoResultYet'
  <2>1. CASE pc' = "returned"
    BY <2>1 DEF NoResultYet
  <2>2. CASE pc' # "returned"
    <3>1. UNCHANGED result
      BY <1>9, <2>2 DEF Alive, Next, MainStep, SessionEnds, Exited, Wait, EndMaster, EndEnvoy,
                        LookupRelease, LeaveEnvoys, Return
    <3> QED BY <1>4, <3>1 DEF NoResultYet
  <2> QED BY <2>1, <2>2
<1> QED BY <1>10, <1>11

-----------------------------------------------------------------------------
LEMMA InitGInv == Init => GInv
<1> SUFFICES ASSUME Init PROVE GInv
  OBVIOUS
<1>1. \A p \in Goroutine : Len(array[p]) = 0
  <2>1. Len(<<>>) = 0
    OBVIOUS
  <2> QED BY <2>1 DEF Init, ErrInit
<1>2. slice.ptr = NoPtr /\ \A g \in Goroutine : reg[g].ptr = NoPtr
  BY DEF Init, ErrInit, NilSlice
<1>3. FirstCell /\ Allocated
  BY <1>1, <1>2 DEF FirstCell, Allocated
<1>4. NoResultYet /\ ReportedErrorIsGenuine
  BY DEF Init, Running, NoResultYet, ReportedErrorIsGenuine
<1> QED BY <1>3, <1>4, InitIInv DEF GInv

LEMMA NextGInv == GInv /\ [Next]_vars => GInv'
<1> SUFFICES ASSUME GInv, [Next]_vars PROVE GInv'
  OBVIOUS
<1>1. IInv'
  BY NextIInv DEF GInv
<1>2. FirstCell'
  <2>1. \A p \in Goroutine : Len(array'[p]) > 0 => Genuine(server', array'[p][1])
    BY ArrayStep DEF GInv, IInv
  <2> QED BY <2>1 DEF FirstCell
<1>3. Allocated'
  BY AllocatedStep DEF GInv, IInv
<1>4. NoResultYet' /\ ReportedErrorIsGenuine'
  <2>1. CASE UNCHANGED vars
    <3>1. UNCHANGED <<pc, result, master, server, envoy>>
      BY <2>1 DEF vars, mainVars, sessions
    <3> QED BY <3>1 DEF GInv, NoResultYet, ReportedErrorIsGenuine
  <2>2. CASE Alive /\ Next
    BY <2>2, ReportedStep DEF GInv
  <2> QED BY <2>1, <2>2 DEF Next, Exited
<1> QED BY <1>1, <1>2, <1>3, <1>4 DEF GInv

(* An error DeployCluster returns is the error of a session that failed.   *)
THEOREM ReportedErrors == Spec => []ReportedErrorIsGenuine
<1>1. Spec => []GInv
  BY InitGInv, NextGInv, PTL DEF Spec
<1>2. GInv => ReportedErrorIsGenuine
  BY DEF GInv
<1> QED BY <1>1, <1>2, PTL

-----------------------------------------------------------------------------
(* Nobody but possibly g failed. *)
Alone(g) == \A h \in Goroutine : server[h] = "failed" => h = g

(* The words of the append of g, when nobody else appends. *)
Grown(g)    == [ptr |-> g, len |-> 0, cap |-> 1]
Appended(g) == [ptr |-> g, len |-> 1, cap |-> 1]

Unused(g) == server[g] # "failed" \/ step[g] = "load"

AloneWords(g) ==
  /\ fault = "none"
  /\ \A h \in Goroutine \ {g} : reg[h] = NilSlice
  /\ Unused(g) => slice = NilSlice /\ reg[g] = NilSlice
  /\ ~ Unused(g) => reg[g] = Grown(g) /\ Len(array[g]) = 1
  /\ step[g] = "cap" => slice = NilSlice
  /\ step[g] = "ptr" => slice = [NilSlice EXCEPT !.cap = 1]
  /\ step[g] = "len" => slice = Grown(g)
  /\ step[g] = "elem" => slice = Appended(g)
  /\ server[g] = "failed" /\ step[g] \in {"exit", "done"} =>
       slice = Appended(g) /\ array[g][1] = g

OneAppend == \A g \in Goroutine : Alone(g) => AloneWords(g)

(* Two errors that may overwrite each other. *)
Clash ==
  \E g, h \in Goroutine : g # h /\ server[g] = "failed" /\ server[h] = "failed"

(* Who is not asked for is not contacted. *)
NotAsked ==
  /\ ~ shouldInstall("master") => \A i \in Master : master[i] = "idle"
  /\ \A g \in Goroutine : step[g] # "idle" => Selected(g)

EnvoysInTurn ==
  pc = "envoys" => shouldInstall("envoy") /\ \A j \in Envoy : j < index => envoy[j] = "ok"

(* The command returns nil when all is deployed or two errors clashed. *)
NilJustified == result = Nil => SuccessMeansDeployed \/ Clash

(* The inductive invariant of the other theorems. *)
RInv == GInv /\ OneAppend /\ NotAsked /\ EnvoysInTurn /\ NilJustified

-----------------------------------------------------------------------------
(* While g may be the only one that failed, nobody else appends. *)
LEMMA OthersQuiet ==
  ASSUME SessionStep, NEW g \in Goroutine, Alone(g), NEW h \in Goroutine \ {g}
  PROVE  server[h] # "failed" /\ step[h] \notin AppendStep
BY DEF SessionStep, Alone

(* Who is alone after a step was alone before. *)
LEMMA AloneBefore ==
  ASSUME TypeOK, [Next]_vars, NEW g \in Goroutine, Alone(g)'
  PROVE  Alone(g)
BY FailedStays DEF Alone

(* The steps of an append that is alone. *)
LEMMA AloneLoads ==
  ASSUME ErrTypeOK, SessionStep, NEW g \in Goroutine, AloneWords(g), Load(g), UNCHANGED server
  PROVE  AloneWords(g)'
<1>1. step[g] = "load" /\ server[g] = "failed"
  BY DEF Load, SessionStep, AppendStep
<1>2. slice = NilSlice /\ reg[g] = NilSlice
  BY <1>1 DEF AloneWords, Unused
<1>3. PICK w \in Word : reg' = [reg EXCEPT ![g] = [@ EXCEPT ![w] = slice[w]]]
  BY DEF Load, ErrTypeOK
<1>4. [NilSlice EXCEPT ![w] = NilSlice[w]] = NilSlice
  BY DEF NilSlice, Word
<1>5. reg'[g] = NilSlice /\ \A h \in Goroutine \ {g} : reg'[h] = reg[h]
  BY <1>2, <1>3, <1>4 DEF ErrTypeOK
<1>6. UNCHANGED <<slice, array, step, fault>>
  BY DEF Load
<1> QED BY <1>1, <1>2, <1>5, <1>6 DEF AloneWords, Unused

LEMMA AloneGrows ==
  ASSUME ErrTypeOK, SessionStep, NEW g \in Goroutine, AloneWords(g), Grow(g), UNCHANGED server
  PROVE  AloneWords(g)'
<1>1. step[g] = "load" /\ server[g] = "failed"
  BY DEF Grow, SessionStep, AppendStep
<1>2. slice = NilSlice /\ reg[g] = NilSlice
  BY <1>1 DEF AloneWords, Unused
<1>3. NewCap(reg[g]) = 1 /\ reg[g].ptr = NoPtr /\ reg[g].len = 0
  BY <1>2 DEF NewCap, NilSlice
<1> DEFINE a == [k \in 1..NewCap(reg[g]) |->
                   IF k <= reg[g].len THEN Cell(reg[g].ptr, k) ELSE NilError]
<1>4. /\ array' = [array EXCEPT ![g] = a]
      /\ reg' = [reg EXCEPT ![g] = [@ EXCEPT !.ptr = g, !.cap = NewCap(reg[g])]]
      /\ Goto(g, "cap") /\ UNCHANGED <<slice, fault>>
  BY <1>3 DEF Grow
<1>5. Len(a) = 1
  <2>1. a \in Seq(0..NGo + 1)
    <3>1. ~ (reg[g].ptr = NoPtr /\ reg[g].len > 0)
      BY <1>3
    <3> QED BY <3>1, GrownArrayType
  <2>2. DOMAIN a = 1..1
    BY <1>3
  <2> HIDE DEF a
  <2>3. Len(a) \in Nat /\ DOMAIN a = 1..Len(a)
    BY <2>1, LenProperties
  <2>4. 1..Len(a) = 1..1
    BY <2>2, <2>3
  <2>5. 1 \in 1..1 /\ (Len(a) >= 1 => Len(a) \in 1..Len(a))
    BY <2>3
  <2>6. 1 \in 1..Len(a) /\ (Len(a) >= 1 => Len(a) \in 1..1)
    BY <2>4, <2>5
  <2>7. Len(a) >= 1
    BY <2>3, <2>6
  <2>8. Len(a) \in 1..1
    BY <2>6, <2>7
  <2> QED BY <2>8
<1> HIDE DEF a
<1>6. array'[g] = a
  BY <1>4 DEF ErrTypeOK
<1>7. [NilSlice EXCEPT !.ptr = g, !.cap = 1] = Grown(g)
  <2>1. [NilSlice EXCEPT !.ptr = g, !.cap = 1] = [[NilSlice EXCEPT !.ptr = g] EXCEPT !.cap = 1]
    BY DEF NilSlice
  <2>2. [NilSlice EXCEPT !.ptr = g] = [ptr |-> g, len |-> 0, cap |-> 0]
    BY DEF NilSlice
  <2>3. [[ptr |-> g, len |-> 0, cap |-> 0] EXCEPT !.cap = 1] = Grown(g)
    BY DEF Grown
  <2> QED BY <2>1, <2>2, <2>3
<1>8. reg'[g] = Grown(g) /\ \A h \in Goroutine \ {g} : reg'[h] = reg[h]
  BY <1>2, <1>3, <1>4, <1>7 DEF ErrTypeOK
<1>9. step'[g] = "cap"
  BY <1>4 DEF Goto, ErrTypeOK
<1> QED BY <1>1, <1>2, <1>4, <1>5, <1>6, <1>8, <1>9 DEF AloneWords, Unused

LEMMA AloneStores ==
  ASSUME ErrTypeOK, SessionStep, NEW g \in Goroutine, AloneWords(g),
         StoreCap(g) \/ StorePtr(g) \/ StoreLen(g), UNCHANGED server
  PROVE  AloneWords(g)'
<1>1. ~ Unused(g) /\ server[g] = "failed"
  BY DEF StoreCap, StorePtr, StoreLen, SessionStep, AppendStep, Unused
<1>2. reg[g] = Grown(g)
  BY <1>1 DEF AloneWords
<1>3. UNCHANGED <<array, reg, fault>>
  BY DEF StoreCap, StorePtr, StoreLen
<1>4. CASE StoreCap(g)
  <2>1. slice' = [NilSlice EXCEPT !.cap = 1]
    BY <1>2, <1>4 DEF StoreCap, AloneWords, Grown
  <2>2. step'[g] = "ptr"
    BY <1>4 DEF StoreCap, Goto, ErrTypeOK
  <2> QED BY <1>1, <1>2, <1>3, <2>1, <2>2 DEF AloneWords, Unused
<1>5. CASE StorePtr(g)
  <2>1. slice' = Grown(g)
    BY <1>2, <1>5 DEF StorePtr, AloneWords, Grown, NilSlice
  <2>2. step'[g] = "len"
    BY <1>5 DEF StorePtr, Goto, ErrTypeOK
  <2> QED BY <1>1, <1>2, <1>3, <2>1, <2>2 DEF AloneWords, Unused
<1>6. CASE StoreLen(g)
  <2>1. slice' = Appended(g)
    BY <1>2, <1>6 DEF StoreLen, AloneWords, Grown, Appended
  <2>2. step'[g] = "elem"
    BY <1>6 DEF StoreLen, Goto, ErrTypeOK
  <2> QED BY <1>1, <1>2, <1>3, <2>1, <2>2 DEF AloneWords, Unused
<1> QED BY <1>4, <1>5, <1>6

LEMMA AloneEnds ==
  ASSUME ErrTypeOK, SessionStep, NEW g \in Goroutine, AloneWords(g), StoreElem(g),
         UNCHANGED server
  PROVE  AloneWords(g)'
<1>1. ~ Unused(g) /\ server[g] = "failed"
  BY DEF StoreElem, SessionStep, AppendStep, Unused
<1>2. reg[g] = Grown(g) /\ Len(array[g]) = 1 /\ slice = Appended(g)
  BY <1>1 DEF AloneWords, StoreElem
<1>3. reg[g].ptr = g /\ reg[g].ptr # NoPtr /\ reg[g].len + 1 = 1
  BY <1>2 DEF Grown, NoPtr, Goroutine
<1>4. /\ array' = [array EXCEPT ![g] = [@ EXCEPT ![1] = g]]
      /\ Goto(g, "exit") /\ UNCHANGED <<slice, reg, fault>>
  <2>1. reg[g].ptr # NoPtr /\ reg[g].len + 1 <= Len(array[reg[g].ptr])
    BY <1>2, <1>3
  <2>2. /\ array' = [array EXCEPT ![reg[g].ptr] = [@ EXCEPT ![reg[g].len + 1] = g]]
        /\ Goto(g, "exit") /\ UNCHANGED <<slice, reg, fault>>
    BY <2>1 DEF StoreElem
  <2> QED BY <1>3, <2>2
<1> DEFINE b == [array[g] EXCEPT ![1] = g]
<1>5. array[g] \in Seq(0..NGo + 1) /\ 1 \in 1..Len(array[g]) /\ g \in 0..NGo + 1
  BY <1>2 DEF ErrTypeOK, Goroutine
<1>6. /\ Len(b) = Len(array[g])
      /\ \A j \in 1..Len(array[g]) : b[j] = IF j = 1 THEN g ELSE array[g][j]
  BY <1>5, ExceptSeq
<1>7. Len(b) = 1 /\ b[1] = g
  BY <1>2, <1>5, <1>6
<1>8. array'[g] = b
  BY <1>4 DEF ErrTypeOK
<1> HIDE DEF b
<1>9. step'[g] = "exit"
  BY <1>4 DEF Goto, ErrTypeOK
<1> QED BY <1>1, <1>2, <1>4, <1>7, <1>8, <1>9 DEF AloneWords, Unused

LEMMA AloneAppends ==
  ASSUME TypeOK, SessionStep, NEW g \in Goroutine, AloneWords(g), ReportError(g)
  PROVE  AloneWords(g)'
<1>1. ErrTypeOK /\ UNCHANGED server
  BY DEF TypeOK, ReportError, sessions
<1>2. ~ HasRoom(g)
  <2>1. ASSUME HasRoom(g) PROVE FALSE
    <3>1. step[g] = "load" /\ reg[g].len + 1 <= reg[g].cap
      BY <2>1 DEF HasRoom
    <3>2. reg[g] = NilSlice
      BY <3>1 DEF AloneWords, Unused
    <3> QED BY <3>1, <3>2 DEF NilSlice
  <2> QED BY <2>1
<1> QED BY <1>1, <1>2, AloneLoads, AloneGrows, AloneStores, AloneEnds DEF ReportError, AppendError


LEMMA AloneSame ==
  ASSUME NEW g \in Goroutine, AloneWords(g), UNCHANGED <<slice, array, reg, fault>>,
         step'[g] = step[g], server'[g] = server[g]
  PROVE  AloneWords(g)'
BY DEF AloneWords, Unused

(* The session of g goes on, or ends. *)
LEMMA AloneSession ==
  ASSUME SessionStep', NEW g \in Goroutine, AloneWords(g), server[g] # "failed",
         UNCHANGED <<slice, array, reg, fault>>, server'[g] # "failed" \/ step'[g] = "load"
  PROVE  AloneWords(g)'
BY DEF AloneWords, Unused, SessionStep, AppendStep

LEMMA OneAppendStep ==
  ASSUME TypeOK, TypeOK', Started, SessionStep, SessionStep', OneAppend, [Next]_vars
  PROVE  OneAppend'
<1> SUFFICES ASSUME NEW g \in Goroutine, Alone(g)' PROVE AloneWords(g)'
  BY DEF OneAppend
<1>1. Alone(g) /\ AloneWords(g)
  BY AloneBefore DEF OneAppend
<1>2. CASE MainStep \/ EndMaster \/ EndEnvoy \/ UNCHANGED vars
  <2>1. UNCHANGED <<server, slice, array, reg, fault>>
    BY <1>2 DEF MainStep, Prepare, BeginMaster, LeaveMasters, Spawn, LeaveSpawn, Wait,
                LookupRelease, BeginEnvoy, LeaveEnvoys, EndMaster, EndEnvoy, vars, errVars,
                sessions
  <2>2. CASE server[g] # "failed"
    BY <1>1, <2>1, <2>2, AloneSession
  <2>3. CASE server[g] = "failed"
    <3>1. step'[g] = step[g]
      <4>1. CASE Spawn
        <5>1. step[g] # "idle" /\ step[index] = "idle"
          BY <2>3, <4>1, SpawnIdle DEF SessionStep
        <5> QED BY <4>1, <5>1 DEF Spawn, Goto, TypeOK, ErrTypeOK
      <4>2. CASE ~ Spawn
        BY <1>2, <4>2, MainKeepsSteps
      <4> QED BY <4>1, <4>2
    <3> QED BY <1>1, <2>1, <3>1, AloneSame
  <2> QED BY <2>2, <2>3
<1>3. ASSUME NEW h \in Goroutine \ {g}, GoStep(h) \/ EndServer(h)
      PROVE  AloneWords(g)'
  <2>1. ~ ReportError(h)
    BY <1>1, OthersQuiet DEF ReportError, AppendError, Load, HasRoom, Grow, StoreCap, StorePtr,
                             StoreLen, StoreElem, AppendStep
  <2>2. UNCHANGED <<slice, array, reg, fault>>
    BY <1>3, <2>1 DEF GoStep, BeginServer, EndServer, Done, errVars
  <2>3. step'[g] = step[g] /\ server'[g] = server[g]
    BY <1>3, GoKeepsOthers
  <2> QED BY <1>1, <2>2, <2>3, AloneSame
<1>4. CASE BeginServer(g) \/ EndServer(g)
  <2>1. UNCHANGED <<slice, array, reg, fault>> /\ server[g] # "failed"
    BY <1>4 DEF BeginServer, EndServer, errVars
  <2>2. server'[g] # "failed" \/ step'[g] = "load"
    BY <1>4 DEF BeginServer, EndServer, Goto, TypeOK, ErrTypeOK, MainTypeOK
  <2> QED BY <1>1, <2>1, <2>2, AloneSession
<1>5. CASE ReportError(g)
  BY <1>1, <1>5, AloneAppends
<1>6. CASE Done(g)
  <2>1. UNCHANGED <<slice, array, reg, fault, server>> /\ step[g] = "exit" /\ step'[g] = "done"
    BY <1>6 DEF Done, Goto, errVars, sessions, TypeOK, ErrTypeOK
  <2> QED BY <1>1, <2>1 DEF AloneWords, Unused
<1> QED BY <1>2, <1>3, <1>4, <1>5, <1>6 DEF Next, GoStep, SessionEnds, Exited

-----------------------------------------------------------------------------
LEMMA ClashStays ==
  ASSUME TypeOK, [Next]_vars, Clash
  PROVE  Clash'
BY FailedStays DEF Clash

(* A goroutine that is not alone has failed together with another one. *)
LEMMA ClashWhenCrowded ==
  ASSUME NEW g \in Goroutine, \A h \in Goroutine : ~ Alone(h)
  PROVE  Clash
<1>1. PICK h \in Goroutine : server[h] = "failed"
  BY DEF Alone
<1>2. PICK k \in Goroutine : server[k] = "failed" /\ k # h
  BY DEF Alone
<1> QED BY <1>1, <1>2 DEF Clash

LEMMA FaultIsClash ==
  ASSUME OneAppend', Alive, Next, fault' # "none"
  PROVE  Clash'
<1>1. PICK g \in Goroutine : ReportError(g)
  BY DEF Alive, Next, MainStep, GoStep, SessionEnds, Exited, Prepare, BeginMaster, LeaveMasters,
         Spawn, LeaveSpawn, Wait, LookupRelease, BeginEnvoy, LeaveEnvoys, EndMaster, EndEnvoy,
         BeginServer, EndServer, Done, errVars
<1>2. \A h \in Goroutine : ~ Alone(h)'
  BY DEF OneAppend, AloneWords
<1>3. PICK h \in Goroutine : server'[h] = "failed"
  BY <1>1, <1>2 DEF Alone
<1>4. PICK k \in Goroutine : server'[k] = "failed" /\ k # h
  BY <1>2 DEF Alone
<1> QED BY <1>3, <1>4 DEF Clash

(* The element Wait finds is not a nil error, unless two errors clashed. *)
LEMMA NilElementIsClash ==
  ASSUME IInv, OneAppend, wg = 0, slice.len > 0, Cell(slice.ptr, 1) = NilError
  PROVE  Clash
<1>1. slice.ptr \in Goroutine
  BY FirstErrorType DEF IInv
<1> SUFFICES ASSUME NEW k \in Goroutine, Alone(k) PROVE FALSE
  BY <1>1, ClashWhenCrowded
<1>2. AloneWords(k)
  BY DEF OneAppend
<1>3. CASE server[k] # "failed"
  <2>1. slice = NilSlice
    BY <1>2, <1>3 DEF AloneWords, Unused
  <2>2. slice.len = 0
    BY <2>1 DEF NilSlice
  <2> QED BY <2>2
<1>4. CASE server[k] = "failed"
  <2>1. step[k] = "done"
    <3>1. step[k] \in {"idle", "done"}
      BY NoneLive DEF IInv
    <3> QED BY <1>4, <3>1 DEF IInv, SessionStep
  <2>2. slice = Appended(k) /\ array[k][1] = k /\ Len(array[k]) = 1
    BY <1>2, <1>4, <2>1 DEF AloneWords, Unused
  <2>3. Cell(k, 1) = k /\ slice.ptr = k
    BY <2>2 DEF Cell, Appended
  <2> QED BY <2>3 DEF NilError, Goroutine
<1> QED BY <1>3, <1>4

LEMMA NotAskedStep ==
  ASSUME TypeOK, NotAsked, [Next]_vars
  PROVE  NotAsked'
<1>1. UNCHANGED component
  BY DEF Next, MainStep, GoStep, SessionEnds, Exited, Prepare, BeginMaster, EndMaster,
         LeaveMasters, Spawn, LeaveSpawn, Wait, LookupRelease, BeginEnvoy, EndEnvoy,
         LeaveEnvoys, BeginServer, EndServer, ReportError, Done, vars, mainVars
<1>2. shouldInstall("master")' = shouldInstall("master")
      /\ \A g \in Goroutine : Selected(g)' = Selected(g)
  BY <1>1 DEF shouldInstall, Selected
<1>3. ~ shouldInstall("master") => UNCHANGED master
  <2>1. \A i \in Master : ~ shouldInstall("master") => master[i] = "idle"
    BY DEF NotAsked
  <2>2. BeginMaster => shouldInstall("master")
    BY DEF BeginMaster
  <2>3. EndMaster => shouldInstall("master")
    BY <2>1 DEF EndMaster
  <2> QED BY <2>2, <2>3, GoKeepsMain
          DEF Next, MainStep, SessionEnds, Exited, Prepare, LeaveMasters, Spawn, LeaveSpawn,
              Wait, LookupRelease, BeginEnvoy, EndEnvoy, LeaveEnvoys, vars, sessions
<1>4. ASSUME NEW h \in Goroutine, step'[h] # "idle"
      PROVE  step[h] # "idle" \/ Selected(h)
  <2>1. CASE Spawn
    BY <1>4, <2>1 DEF Spawn, Goto, TypeOK, ErrTypeOK
  <2>2. ASSUME NEW g \in Goroutine, GoStep(g) \/ EndServer(g)
        PROVE  step[h] # "idle"
    <3>1. step[g] # "idle"
      BY <2>2 DEF GoStep, BeginServer, EndServer, ReportError, Done, AppendError, Load, HasRoom,
                  Grow, StoreCap, StorePtr, StoreLen, StoreElem
    <3> QED BY <1>4, <2>2, <3>1, GoKeepsOthers
  <2>3. CASE (MainStep /\ ~ Spawn) \/ EndMaster \/ EndEnvoy \/ UNCHANGED vars
    BY <1>4, <2>3, MainKeepsSteps
  <2> QED BY <2>1, <2>2, <2>3 DEF Next, SessionEnds, Exited
<1> QED BY <1>2, <1>3, <1>4 DEF NotAsked

LEMMA EnvoysInTurnStep ==
  ASSUME TypeOK, EnvoysInTurn, [Next]_vars
  PROVE  EnvoysInTurn'
<1>0. index \in Nat /\ envoy \in [Envoy -> Status] /\ \A j \in Envoy : j \in Nat /\ j >= 1
  <2>1. index \in Nat /\ envoy \in [Envoy -> Status]
    BY DEF TypeOK, MainTypeOK
  <2> QED BY <2>1 DEF Envoy
<1>1. CASE LookupRelease
  <2>1. CASE pc' = "returned"
    BY <2>1 DEF EnvoysInTurn
  <2>2. CASE shouldInstall("envoy") /\ index' = 1
    <3>1. \A j \in Envoy : ~ (j < 1)
      BY <1>0
    <3> QED BY <1>1, <2>2, <3>1 DEF LookupRelease, EnvoysInTurn, shouldInstall
  <2> QED BY <1>1, <2>1, <2>2 DEF LookupRelease, Return
<1>2. CASE BeginEnvoy
  BY <1>0, <1>2 DEF BeginEnvoy, mainVars, EnvoysInTurn, shouldInstall
<1>3. CASE EndEnvoy
  <2>1. pc = "envoys" /\ index \in Envoy /\ UNCHANGED component
    BY <1>3 DEF EndEnvoy
  <2>2. CASE envoy' = [envoy EXCEPT ![index] = "ok"] /\ index' = index + 1
    <3>1. \A j \in Envoy : j < index + 1 => j < index \/ j = index
      BY <1>0
    <3> QED BY <1>0, <2>1, <2>2, <3>1 DEF EnvoysInTurn, shouldInstall
  <2>3. CASE pc' = "returned"
    BY <2>3 DEF EnvoysInTurn
  <2> QED BY <1>3, <2>2, <2>3 DEF EndEnvoy, Return
<1>4. CASE UNCHANGED <<component, pc, index, envoy>>
  BY <1>4 DEF EnvoysInTurn, shouldInstall
<1>5. CASE \/ Prepare \/ LeaveMasters \/ LeaveSpawn \/ Wait \/ LeaveEnvoys \/ EndMaster \/ Spawn
  <2>1. pc' # "envoys"
    BY <1>5 DEF Prepare, LeaveMasters, LeaveSpawn, Wait, LeaveEnvoys, EndMaster, Spawn, Return
  <2> QED BY <2>1 DEF EnvoysInTurn
<1>6. CASE BeginMaster \/ UNCHANGED vars
  BY <1>4, <1>6 DEF BeginMaster, vars, mainVars, sessions
<1> QED BY <1>1, <1>2, <1>3, <1>4, <1>5, <1>6, GoKeepsMain DEF Next, MainStep, SessionEnds, Exited

LEMMA NilJustifiedStep ==
  ASSUME RInv, Alive, Next
  PROVE  NilJustified'
<1> SUFFICES ASSUME result' = Nil PROVE SuccessMeansDeployed' \/ Clash'
  BY DEF NilJustified
<1> USE DEF RInv, GInv, IInv
<1>1. result # Nil
  BY DEF NoResultYet, Alive, Running, Nil
<1>2. CASE Wait
  <2>1. wg = 0 /\ slice.len > 0 /\ Cell(slice.ptr, 1) = NilError
    BY <1>1, <1>2 DEF Wait, Return, Nil
  <2> QED BY <2>1, NilElementIsClash, ClashStays
<1>3. CASE LookupRelease
  <2>1. ~ (shouldInstall("envoy") /\ NEnvoy > 0)
    BY <1>1, <1>3 DEF LookupRelease, Return, Nil
  <2>2. shouldInstall("envoy") => Envoy = {}
    BY <2>1 DEF Envoy
  <2>3. pc = "release" /\ UNCHANGED <<component, master, server, envoy>>
    BY <1>3 DEF LookupRelease, sessions
  <2> QED BY <2>2, <2>3
          DEF SuccessMeansDeployed, MastersFirst, EnvoysLast, shouldInstall, Selected
<1>4. CASE LeaveEnvoys
  <2>1. pc = "envoys" /\ index > NEnvoy /\ UNCHANGED <<component, master, server, envoy>>
    BY <1>4 DEF LeaveEnvoys, sessions
  <2>2. \A j \in Envoy : j < index
    <3>1. index \in Nat
      BY DEF TypeOK, MainTypeOK
    <3> QED BY <2>1, <3>1 DEF Envoy
  <2> QED BY <2>1, <2>2
          DEF SuccessMeansDeployed, MastersFirst, EnvoysLast, EnvoysInTurn, shouldInstall, Selected
<1>5. CASE EndMaster \/ EndEnvoy
  <2>1. result' = result \/ result'.kind \in {"master", "envoy"}
    BY <1>5 DEF EndMaster, EndEnvoy, Return
  <2> QED BY <1>1, <2>1 DEF Nil
<1>6. CASE UNCHANGED result
  BY <1>1, <1>6
<1> QED BY <1>2, <1>3, <1>4, <1>5, <1>6, GoKeepsMain
        DEF Next, MainStep, SessionEnds, Exited, Alive, Prepare, BeginMaster, LeaveMasters, Spawn,
            LeaveSpawn, BeginEnvoy, mainVars

-----------------------------------------------------------------------------
LEMMA InitRInv == Init => RInv
<1> SUFFICES ASSUME Init PROVE RInv
  OBVIOUS
<1>1. OneAppend
  BY DEF Init, ErrInit, OneAppend, AloneWords, Unused
<1>2. NotAsked /\ EnvoysInTurn /\ NilJustified
  BY DEF Init, NotAsked, EnvoysInTurn, NilJustified, Running, Nil
<1> QED BY <1>1, <1>2, InitGInv DEF RInv

LEMMA NextRInv == RInv /\ [Next]_vars => RInv'
<1> SUFFICES ASSUME RInv, [Next]_vars PROVE RInv'
  OBVIOUS
<1>1. GInv'
  BY NextGInv DEF RInv
<1>2. OneAppend'
  BY <1>1, OneAppendStep DEF RInv, GInv, IInv
<1>3. NotAsked' /\ EnvoysInTurn'
  BY NotAskedStep, EnvoysInTurnStep DEF RInv, GInv, IInv
<1>4. NilJustified'
  <2>1. CASE UNCHANGED vars
    <3>1. UNCHANGED <<component, result, master, server, envoy>>
      BY <2>1 DEF vars, mainVars, sessions
    <3> QED BY <3>1 DEF RInv, NilJustified, SuccessMeansDeployed, Clash, shouldInstall, Selected
  <2>2. CASE Alive /\ Next
    BY <2>2, NilJustifiedStep
  <2> QED BY <2>1, <2>2 DEF Next, Exited
<1> QED BY <1>1, <1>2, <1>3, <1>4 DEF RInv

(* The invariant the refinement rests on: whatever the goroutines do,      *)
(* deployErrors, the failures and the phase fit together.                  *)
THEOREM Justified == Spec => []RInv
<1> QED BY InitRInv, NextRInv, PTL DEF Spec

(* Two errors that clash are two failures. *)
LEMMA ClashIsTwo ==
  ASSUME Clash
  PROVE  ~ (Failures <= 1)
<1> DEFINE M == {i \in Master : master[i] = "failed"}
           S == {g \in Goroutine : server[g] = "failed"}
           E == {j \in Envoy : envoy[j] = "failed"}
<1>1. IsFiniteSet(M) /\ IsFiniteSet(S) /\ IsFiniteSet(E)
  <2>1. IsFiniteSet(1..NMaster) /\ IsFiniteSet(1..NGo) /\ IsFiniteSet(1..NEnvoy)
    BY FS_Interval
  <2>2. M \in SUBSET (1..NMaster) /\ S \in SUBSET (1..NGo) /\ E \in SUBSET (1..NEnvoy)
    BY DEF Master, Goroutine, Envoy
  <2> QED BY <2>1, <2>2, FS_Subset
<1>2. PICK g \in S, h \in S : g # h
  BY DEF Clash
<1>3. Cardinality(M) \in Nat /\ Cardinality(S) \in Nat /\ Cardinality(E) \in Nat
  BY <1>1, FS_CardinalityType
<1>4. Cardinality(S \ {g}) = Cardinality(S) - 1 /\ IsFiniteSet(S \ {g})
  BY <1>1, <1>2, FS_RemoveElement
<1>5. Cardinality(S \ {g}) # 0 /\ Cardinality(S \ {g}) \in Nat
  <2>1. S \ {g} # {}
    BY <1>2
  <2> QED BY <1>4, <2>1, FS_EmptySet, FS_CardinalityType
<1>6. Failures = Cardinality(M) + Cardinality(S) + Cardinality(E)
  BY DEF Failures
<1> HIDE DEF M, S, E
<1> QED BY <1>3, <1>4, <1>5, <1>6

(* As long as a single session fails, a rollout that leaves a server       *)
(* behind is an error of the command, however the goroutines interleave.   *)
THEOREM SingleFailure == Spec => []SingleFailureReported
<1>1. RInv => SingleFailureReported
  <2> SUFFICES ASSUME RInv, Failures <= 1, result = Nil PROVE SuccessMeansDeployed
    BY DEF SingleFailureReported, SuccessMeansDeployed
  <2> QED BY ClashIsTwo DEF RInv, NilJustified
<1> QED BY <1>1, Justified, PTL

-----------------------------------------------------------------------------
(* The step simulation: what DeployCluster does is a step of Rollout, or   *)
(* none.                                                                   *)
LEMMA OutcomeValues ==
  /\ Alive => Outcome = "running"
  /\ fault = "none" /\ pc = "returned" =>
       Outcome = IF result = Nil THEN "success" ELSE "error"
  /\ fault # "none" => Outcome = "crashed"
BY DEF Alive, Outcome

LEMMA AskedIs ==
  /\ \A c : Promised!asked(c) = shouldInstall(c)
  /\ \A g : Promised!Wanted(g) = Selected(g)
BY DEF Promised!asked, Promised!Wanted, shouldInstall, Selected

LEMMA UpIs ==
  /\ Promised!MastersUp <=> (shouldInstall("master") => \A i \in Master : master[i] = "ok")
  /\ Promised!ServersUp <=> \A g \in Goroutine : Selected(g) => server[g] = "ok"
  /\ Promised!EnvoysUp <=> (shouldInstall("envoy") => \A j \in Envoy : envoy[j] = "ok")
  /\ Promised!ErrorsClash <=> Clash
BY AskedIs DEF Promised!MastersUp, Promised!ServersUp, Promised!EnvoysUp, Promised!ErrorsClash,
               Clash, Master, Goroutine, Envoy

LEMMA MasterStepSim ==
  ASSUME RInv, Alive, BeginMaster \/ EndMaster
  PROVE  Promised!Next
<1> USE DEF RInv, GInv, IInv
<1>1. /\ index \in 1..NMaster /\ index \in Nat /\ fault' = fault /\ fault = "none"
      /\ pc = "masters" /\ UNCHANGED <<component, server, envoy>>
  BY DEF BeginMaster, EndMaster, Alive, Master, mainVars, errVars
<1>2. Outcome = "running"
  BY OutcomeValues
<1>3. CASE BeginMaster
  <2>1. UNCHANGED Outcome
    BY <1>3 DEF BeginMaster, mainVars, errVars, Outcome
  <2>2. \A k \in 1..index - 1 : k \in Master /\ k < index
    BY <1>1 DEF Master
  <2>3. \A k \in 1..index - 1 : master[k] = "ok"
    BY <1>1, <1>3, <2>2 DEF MastersFirst, BeginMaster
  <2>4. Promised!ContactMaster(index)
    BY <1>1, <1>3, <2>1, <2>3, AskedIs DEF BeginMaster, Promised!ContactMaster
  <2> QED BY <1>1, <1>2, <2>4 DEF Promised!Next
<1>4. CASE EndMaster
  <2>1. master[index] = "running" /\ master \in [Master -> Status]
    BY <1>4 DEF EndMaster, TypeOK, MainTypeOK
  <2>2. CASE master' = [master EXCEPT ![index] = "ok"] /\ UNCHANGED <<pc, result>>
    <3>1. UNCHANGED Outcome
      BY <1>1, <2>2 DEF Outcome
    <3>2. Promised!MasterEnds(index)
      BY <1>1, <2>1, <2>2, <3>1 DEF Promised!MasterEnds, Promised!Ends, Promised!Fails
    <3> QED BY <1>1, <1>2, <3>2 DEF Promised!Next
  <2>3. CASE /\ master' = [master EXCEPT ![index] = "failed"]
             /\ Return([kind |-> "master", of |-> index])
    <3>1. Outcome' = "error"
      BY <1>1, <2>3 DEF Outcome, Return, Nil
    <3>2. master'[index] = "failed"
      BY <1>1, <2>1, <2>3 DEF Master
    <3>3. master' # [master EXCEPT ![index] = "ok"]
      BY <1>1, <2>1, <3>2 DEF Master
    <3>4. Promised!MasterEnds(index)
      BY <1>1, <2>1, <2>3, <3>1, <3>3 DEF Promised!MasterEnds, Promised!Ends, Promised!Fails
    <3> QED BY <1>1, <1>2, <3>4 DEF Promised!Next
  <2> QED BY <1>4, <2>2, <2>3 DEF EndMaster
<1> QED BY <1>3, <1>4

LEMMA EnvoyStepSim ==
  ASSUME RInv, RInv', Alive, Next, BeginEnvoy \/ EndEnvoy
  PROVE  Promised!Next
<1> USE DEF RInv, GInv, IInv
<1>1. /\ index \in 1..NEnvoy /\ index \in Nat /\ fault' = fault /\ fault = "none"
      /\ pc = "envoys" /\ UNCHANGED <<component, server, master>>
  BY DEF BeginEnvoy, EndEnvoy, Alive, Envoy, mainVars, errVars
<1>2. Outcome = "running"
  BY OutcomeValues
<1>3. CASE BeginEnvoy
  <2>1. UNCHANGED Outcome
    BY <1>3 DEF BeginEnvoy, mainVars, errVars, Outcome
  <2>2. \A k \in 1..index - 1 : k \in Envoy /\ k < index
    BY <1>1 DEF Envoy
  <2>3. shouldInstall("envoy") /\ \A k \in 1..index - 1 : envoy[k] = "ok"
    BY <1>1, <2>2 DEF EnvoysInTurn
  <2>4. Promised!MastersUp /\ Promised!ServersUp
    BY <1>1, UpIs DEF MastersFirst, EnvoysLast
  <2>5. Promised!ContactEnvoy(index)
    BY <1>1, <1>3, <2>1, <2>3, <2>4, AskedIs DEF BeginEnvoy, Promised!ContactEnvoy
  <2> QED BY <1>1, <1>2, <2>5 DEF Promised!Next
<1>4. CASE EndEnvoy
  <2>1. envoy[index] = "running" /\ envoy \in [Envoy -> Status]
    BY <1>4 DEF EndEnvoy, TypeOK, MainTypeOK
  <2>2. CASE envoy' = [envoy EXCEPT ![index] = "ok"] /\ UNCHANGED <<pc, result>>
    <3>1. UNCHANGED Outcome
      BY <1>1, <2>2 DEF Outcome
    <3>2. Promised!EnvoyEnds(index)
      BY <1>1, <2>1, <2>2, <3>1 DEF Promised!EnvoyEnds, Promised!Ends, Promised!Fails
    <3> QED BY <1>1, <1>2, <3>2 DEF Promised!Next
  <2>3. CASE /\ envoy' = [envoy EXCEPT ![index] = "failed"]
             /\ Return([kind |-> "envoy", of |-> index])
    <3>1. Outcome' = "error"
      BY <1>1, <2>3 DEF Outcome, Return, Nil
    <3>2. envoy'[index] = "failed"
      BY <1>1, <2>1, <2>3 DEF Envoy
    <3>3. envoy' # [envoy EXCEPT ![index] = "ok"]
      BY <1>1, <2>1, <3>2 DEF Envoy
    <3>4. Promised!EnvoyEnds(index)
      BY <1>1, <2>1, <2>3, <3>1, <3>3 DEF Promised!EnvoyEnds, Promised!Ends, Promised!Fails
    <3> QED BY <1>1, <1>2, <3>4 DEF Promised!Next
  <2> QED BY <1>4, <2>2, <2>3 DEF EndEnvoy
<1> QED BY <1>3, <1>4

LEMMA ServerStepSim ==
  ASSUME RInv, RInv', Alive, Next, NEW g \in Goroutine, BeginServer(g) \/ EndServer(g)
  PROVE  Promised!Next
<1> USE DEF RInv, GInv, IInv
<1>1. /\ g \in 1..NGo /\ UNCHANGED <<component, master, envoy, Outcome>>
      /\ server \in [Goroutine -> Status]
  <2>1. server \in [Goroutine -> Status]
    BY DEF TypeOK, MainTypeOK
  <2>2. UNCHANGED fault
    BY DEF BeginServer, EndServer, errVars
  <2> QED BY <2>1, <2>2, GoKeepsMain DEF GoStep, Goroutine, Outcome
<1>2. Outcome = "running"
  BY OutcomeValues
<1>3. CASE BeginServer(g)
  <2>1. Selected(g)
    BY <1>3 DEF NotAsked, BeginServer
  <2>2. server'[g] # "idle"
    BY <1>1, <1>3 DEF BeginServer
  <2>3. (shouldInstall("master") => \A i \in Master : master[i] = "ok")'
    BY <2>2 DEF PhaseOrder
  <2>4. Promised!MastersUp
    BY <1>1, <2>3, UpIs DEF shouldInstall
  <2>5. Promised!ContactServer(g)
    BY <1>1, <1>3, <2>1, <2>4, AskedIs DEF BeginServer, Promised!ContactServer
  <2> QED BY <1>1, <1>2, <2>5 DEF Promised!Next
<1>4. CASE EndServer(g)
  <2>1. Promised!ServerEnds(g)
    BY <1>1, <1>4 DEF EndServer, Promised!ServerEnds, Promised!Ends, Promised!Fails
  <2> QED BY <1>1, <1>2, <2>1 DEF Promised!Next
<1> QED BY <1>3, <1>4

(* When the command returns without a session of its own that failed, no   *)
(* session is open.                                                        *)
LEMMA QuietAtEnd ==
  ASSUME RInv, Alive, Wait \/ LookupRelease \/ LeaveEnvoys, pc' = "returned"
  PROVE  Promised!Quiet
<1> USE DEF RInv, GInv, IInv
<1>1. pc \in {"wait", "release", "envoys"}
  BY DEF Wait, LookupRelease, LeaveEnvoys
<1>2. \A i \in Master : master[i] # "running"
  BY <1>1 DEF MastersFirst, NotAsked
<1>3. \A g \in Goroutine : server[g] # "running"
  <2>1. \A g \in Goroutine : step[g] \in {"idle", "done"}
    <3>1. CASE Wait
      BY <3>1, NoneLive DEF Wait
    <3>2. CASE pc \in {"release", "envoys"}
      BY <3>2 DEF WaitCoversGoroutines
    <3> QED BY <3>1, <3>2 DEF LookupRelease, LeaveEnvoys
  <2> QED BY <2>1 DEF SessionStep
<1>4. \A j \in Envoy : envoy[j] # "running"
  <2>1. CASE pc # "envoys"
    BY <1>1, <2>1 DEF EnvoysLast
  <2>2. CASE pc = "envoys"
    <3>1. index > NEnvoy /\ index \in Nat
      BY <2>2 DEF Wait, LookupRelease, LeaveEnvoys, TypeOK, MainTypeOK
    <3>2. \A j \in Envoy : j < index
      BY <3>1 DEF Envoy
    <3> QED BY <2>2, <3>2 DEF EnvoysInTurn
  <2> QED BY <2>1, <2>2
<1>5. DOMAIN master = Master /\ DOMAIN server = Goroutine /\ DOMAIN envoy = Envoy
  BY DEF TypeOK, MainTypeOK
<1> QED BY <1>2, <1>3, <1>4, <1>5 DEF Promised!Quiet, Promised!Busy

LEMMA ReturnSim ==
  ASSUME RInv, RInv', Alive, Next, Wait \/ LookupRelease \/ LeaveEnvoys, pc' = "returned"
  PROVE  Promised!Next
<1> USE DEF RInv, GInv, IInv
<1>1. Promised!Quiet /\ Outcome = "running"
  BY QuietAtEnd, OutcomeValues
<1>2. UNCHANGED <<component, master, server, envoy>> /\ fault' = "none"
  BY DEF Wait, LookupRelease, LeaveEnvoys, sessions, errVars, Alive
<1>3. CASE result' = Nil
  <2>1. Outcome' = "success"
    BY <1>2, <1>3 DEF Outcome
  <2>2. SuccessMeansDeployed' \/ Clash'
    BY <1>3 DEF NilJustified
  <2>3. Clash' => Clash
    BY <1>2 DEF Clash
  <2>4. (Promised!MastersUp /\ Promised!ServersUp /\ Promised!EnvoysUp) \/ Promised!ErrorsClash
    BY <1>2, <1>3, <2>2, <2>3, UpIs DEF SuccessMeansDeployed, shouldInstall, Selected
  <2> QED BY <1>1, <1>2, <2>1, <2>4 DEF Promised!Next, Promised!Succeed
<1>4. CASE result' # Nil
  <2>1. Outcome' = "error"
    BY <1>2, <1>4 DEF Outcome
  <2>2. CASE Wait
    <3>1. result'.kind = "server"
      BY <1>4, <2>2 DEF Wait, Return
    <3>2. result'.of \in Goroutine /\ server[result'.of] = "failed"
      BY <1>2, <3>1 DEF ReportedErrorIsGenuine
    <3>3. DOMAIN server = Goroutine
      BY DEF TypeOK, MainTypeOK
    <3>4. Promised!Failed(server)
      BY <3>2, <3>3 DEF Promised!Failed
    <3> QED BY <1>1, <1>2, <2>1, <3>4 DEF Promised!Next, Promised!GiveUp
  <2>3. CASE LookupRelease
    <3>1. shouldInstall("envoy") /\ pc = "release"
      BY <1>4, <2>3 DEF LookupRelease, Return
    <3>2. Promised!MastersUp /\ Promised!ServersUp /\ Promised!asked("envoy")
      BY <3>1, UpIs, AskedIs DEF MastersFirst, EnvoysLast
    <3> QED BY <1>1, <1>2, <2>1, <3>2 DEF Promised!Next, Promised!GiveUp
  <2> QED BY <1>4, <2>2, <2>3 DEF LeaveEnvoys, Return
<1> QED BY <1>3, <1>4

(* Steps that change the program counter, the wait group or the words of   *)
(* deployErrors only.                                                      *)
LEMMA HiddenSim ==
  ASSUME Alive, UNCHANGED <<component, master, server, envoy>>, fault' = "none",
         pc' # "returned"
  PROVE  UNCHANGED Promised!vars
BY DEF Alive, Outcome, Promised!vars

LEMMA StepSim ==
  ASSUME RInv, RInv', [Next]_vars
  PROVE  [Promised!Next]_(Promised!vars)
<1> USE DEF RInv, GInv, IInv
<1>1. CASE UNCHANGED vars
  BY <1>1 DEF vars, mainVars, sessions, errVars, Outcome, Promised!vars
<1>2. ASSUME Alive, Next
      PROVE  [Promised!Next]_(Promised!vars)
  <2>1. CASE BeginMaster \/ EndMaster
    BY <1>2, <2>1, MasterStepSim
  <2>2. CASE BeginEnvoy \/ EndEnvoy
    BY <1>2, <2>2, EnvoyStepSim
  <2>3. CASE (Wait \/ LookupRelease \/ LeaveEnvoys) /\ pc' = "returned"
    BY <1>2, <2>3, ReturnSim
  <2>4. CASE \/ Prepare \/ LeaveMasters \/ Spawn \/ LeaveSpawn
             \/ (Wait \/ LookupRelease \/ LeaveEnvoys) /\ pc' # "returned"
    <3>1. UNCHANGED <<component, master, server, envoy, fault>> /\ pc' # "returned"
      BY <2>4 DEF Prepare, LeaveMasters, Spawn, LeaveSpawn, Wait, LookupRelease, LeaveEnvoys,
                  sessions, errVars
    <3> QED BY <1>2, <3>1, HiddenSim DEF Alive
  <2>5. ASSUME NEW g \in Goroutine, BeginServer(g) \/ EndServer(g)
        PROVE  [Promised!Next]_(Promised!vars)
    BY <1>2, <2>5, ServerStepSim
  <2>6. ASSUME NEW g \in Goroutine, ReportError(g) \/ Done(g)
        PROVE  [Promised!Next]_(Promised!vars)
    <3>1. UNCHANGED <<component, pc, master, server, envoy>>
      BY <2>6 DEF ReportError, Done, mainVars, sessions
    <3>2. CASE fault' = "none"
      BY <1>2, <3>1, <3>2, HiddenSim DEF Alive
    <3>3. CASE fault' # "none"
      <4>1. Clash
        BY <1>2, <3>1, <3>3, FaultIsClash DEF Clash
      <4>2. Outcome = "running" /\ Outcome' = "crashed"
        BY <1>2, <3>3 DEF Alive, Outcome
      <4> QED BY <3>1, <4>1, <4>2, UpIs DEF Promised!Next, Promised!Crash
    <3> QED BY <3>2, <3>3
  <2> QED BY <1>2, <2>1, <2>2, <2>3, <2>4, <2>5, <2>6 DEF Next, MainStep, GoStep, SessionEnds, Exited
<1> QED BY <1>1, <1>2 DEF Next, Exited

LEMMA InitSim == Init => Promised!Init
<1> SUFFICES ASSUME Init PROVE Promised!Init
  OBVIOUS
<1>1. Outcome = "running"
  BY DEF Init, ErrInit, Outcome
<1>2. component \in {"", "master", "volume", "filer", "envoy"}
  BY DEF Init, Kind
<1>3. /\ master = [i \in 1..NMaster |-> "idle"]
      /\ server = [g \in 1..NGo |-> "idle"]
      /\ envoy  = [j \in 1..NEnvoy |-> "idle"]
  BY DEF Init, Master, Goroutine, Envoy
<1> QED BY <1>1, <1>2, <1>3 DEF Promised!Init

(* DeployCluster, with its goroutines and its unprotected slice, is a      *)
(* rollout in phases that ends as Rollout says, for any cluster.           *)
THEOREM RolloutImplemented == Spec => ImplementsRollout
<1> QED BY InitSim, StepSim, Justified, PTL DEF Spec, ImplementsRollout, Promised!Spec

=============================================================================
