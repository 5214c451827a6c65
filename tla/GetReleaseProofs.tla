-------------------------- MODULE GetReleaseProofs --------------------------
(***************************************************************************)
(* For any number of overlapping runs, failures and kills, the executable  *)
(* is never half-written or damaged; and it stays executable as long as    *)
(* no two runs overlap and none breaks off between rename and chmod.       *)
(***************************************************************************)
EXTENDS GetRelease, TLAPS

(* What a run has checked by the time it renames its temporary file. *)
Checked ==
  \A r \in Run :
    /\ pc[r] \in {"data", "check"} => sum[r] \in Upload
    /\ pc[r] \in {"create", "copy", "stat", "rename"} => data[r] \in Upload
    /\ pc[r] \in {"stat", "rename"} => tmp[r] = "whole"
    /\ pc[r] = "chmod" => target # Absent

Tables ==
  /\ pc = [r \in Run |-> pc[r]]
  /\ sum = [r \in Run |-> sum[r]]
  /\ data = [r \in Run |-> data[r]]
  /\ tmp = [r \in Run |-> tmp[r]]
  /\ mode = [r \in Run |-> mode[r]]
  /\ target = [of |-> target.of, data |-> target.data, mode |-> target.mode]

(* The first inductive invariant. *)
WInv == Tables /\ Checked /\ TargetIsWhole

(* Runs that did not overlap: one at most is open. *)
OneOpen == ~ raced => \A q, r \in Run : ~ Ended(q) /\ ~ Ended(r) => q = r

(* The mode a run is about to give the file is the right one. *)
GoodMode ==
  ~ raced => \A r \in Run : pc[r] \in {"rename", "chmod"} => mode[r] = "executable"

(* The second inductive invariant. *)
XInv == Tables /\ OneOpen /\ GoodMode /\ StaysExecutable /\ raced \in BOOLEAN

-----------------------------------------------------------------------------
USE GetAssumption

LEMMA WInvInit == Init => WInv
BY DEF Init, WInv, Tables, Checked, TargetIsWhole, Absent

LEMMA WInvNext == WInv /\ [Next]_vars => WInv'
<1> SUFFICES ASSUME WInv, [Next]_vars PROVE WInv'
  OBVIOUS
<1> USE DEF WInv, Tables, Checked, TargetIsWhole
<1>1. CASE Publish
  BY <1>1 DEF Publish, run
<1>2. CASE UNCHANGED vars
  BY <1>2 DEF vars, run
<1>3. ASSUME NEW r \in Run, Begin(r) PROVE WInv'
  BY <1>3 DEF Begin, Goto
<1>4. ASSUME NEW r \in Run, BreakOff(r) PROVE WInv'
  BY <1>4 DEF BreakOff, Goto, run
<1>5. ASSUME NEW r \in Run, LookupLatest(r) PROVE WInv'
  BY <1>5 DEF LookupLatest, Goto
<1>6. ASSUME NEW r \in Run, Lookup(r) PROVE WInv'
  BY <1>6 DEF Lookup, Goto, run
<1>7. ASSUME NEW r \in Run, FetchSum(r) PROVE WInv'
  BY <1>7 DEF FetchSum, Goto
<1>8. ASSUME NEW r \in Run, FetchData(r) PROVE WInv'
  BY <1>8 DEF FetchData, Goto
<1>9. ASSUME NEW r \in Run, CheckSum(r) PROVE WInv'
  BY <1>9 DEF CheckSum, Goto, run
<1>10. ASSUME NEW r \in Run, CreateTemp(r) PROVE WInv'
  BY <1>10 DEF CreateTemp, Goto
<1>11. ASSUME NEW r \in Run, Copy(r) PROVE WInv'
  BY <1>11 DEF Copy, Goto
<1>12. ASSUME NEW r \in Run, Stat(r) PROVE WInv'
  BY <1>12 DEF Stat, Goto
<1>13. ASSUME NEW r \in Run, Rename(r) PROVE WInv'
  BY <1>13 DEF Rename, Goto, Absent
<1>14. ASSUME NEW r \in Run, Chmod(r) PROVE WInv'
  <2>1. target # Absent /\ target.data \in Upload
    BY <1>14 DEF Chmod
  <2>2. /\ target' = [of |-> target.of, data |-> target.data, mode |-> mode[r]]
        /\ target'.data \in Upload
    BY <1>14, <2>1 DEF Chmod
  <2>3. target' # Absent
    BY <2>2 DEF Absent
  <2> QED BY <1>14, <2>2, <2>3 DEF Chmod, Goto, run
<1> QED
  BY <1>1, <1>2, <1>3, <1>4, <1>5, <1>6, <1>7, <1>8, <1>9, <1>10, <1>11, <1>12, <1>13, <1>14
     DEF Next, Get

(* Renamed "atomically": the file is always whole and its checksum matched *)
(* at the time, or it is the one that was there before.                    *)
THEOREM AlwaysWhole == Spec => []TargetIsWhole
<1>1. WInv => TargetIsWhole
  BY DEF WInv
<1> QED BY <1>1, WInvInit, WInvNext, PTL DEF Spec

-----------------------------------------------------------------------------
LEMMA XInvInit == Init => XInv
<1> SUFFICES ASSUME Init PROVE XInv
  OBVIOUS
<1>1. target = [of |-> target.of, data |-> target.data, mode |-> target.mode]
  BY DEF Init, Absent
<1>2. Tables /\ raced \in BOOLEAN
  BY <1>1 DEF Init, Tables
<1>3. OneOpen /\ GoodMode
  BY DEF Init, OneOpen, GoodMode, Ended
<1>4. StaysExecutable
  BY DEF Init, StaysExecutable
<1> QED BY <1>2, <1>3, <1>4 DEF XInv

(* What a step of run r does to the program counters, and what it leaves.  *)
LEMMA GetMoves ==
  ASSUME Tables, NEW r \in Run, Get(r)
  PROVE  /\ ~ Ended(r) /\ raced' = raced
         /\ \A q \in Run \ {r} : pc'[q] = pc[q] /\ mode'[q] = mode[q]
BY DEF Tables, Get, LookupLatest, Lookup, FetchSum, FetchData, CheckSum, CreateTemp, Copy,
       Stat, Rename, Chmod, Goto, run, Ended

LEMMA GetTables == ASSUME Tables, NEW r \in Run, Get(r) PROVE Tables'
BY DEF Tables, Get, LookupLatest, Lookup, FetchSum, FetchData, CheckSum, CreateTemp, Copy,
       Stat, Rename, Chmod, Goto, run

LEMMA XInvNext == XInv /\ [Next]_vars => XInv'
<1> SUFFICES ASSUME XInv, [Next]_vars PROVE XInv'
  OBVIOUS
<1> USE DEF XInv
<1>1. CASE Publish
  BY <1>1 DEF Publish, run, Tables, OneOpen, GoodMode, StaysExecutable, Ended
<1>2. CASE UNCHANGED vars
  BY <1>2 DEF vars, run, Tables, OneOpen, GoodMode, StaysExecutable, Ended
<1>3. ASSUME NEW r \in Run, Begin(r) PROVE XInv'
  <2>1. Tables' /\ raced' \in BOOLEAN /\ target' = target
    BY <1>3 DEF Begin, Goto, Tables
  <2>2. /\ pc'[r] \in {"latest", "lookup"} /\ pc[r] \notin {"chmod", "rename"}
        /\ \A q \in Run \ {r} : pc'[q] = pc[q] /\ mode'[q] = mode[q]
        /\ ~ raced' => ~ raced /\ \A q \in Run \ {r} : Ended(q)
    BY <1>3 DEF Begin, Goto, Tables, Ended
  <2>3. OneOpen'
    BY <2>2 DEF OneOpen, Ended
  <2>4. GoodMode' /\ StaysExecutable'
    BY <2>1, <2>2 DEF GoodMode, StaysExecutable
  <2> QED BY <2>1, <2>3, <2>4
<1>4. ASSUME NEW r \in Run, BreakOff(r) PROVE XInv'
  <2>1. Tables' /\ raced' \in BOOLEAN /\ target' = target /\ mode' = mode
    BY <1>4 DEF BreakOff, Goto, Tables, run
  <2>2. /\ pc'[r] \in {"failed", "killed"}
        /\ \A q \in Run \ {r} : pc'[q] = pc[q]
        /\ ~ raced' => ~ raced /\ pc[r] # "chmod"
    BY <1>4 DEF BreakOff, Goto, Tables
  <2>3. OneOpen'
    BY <2>2 DEF OneOpen, Ended
  <2>4. GoodMode' /\ StaysExecutable'
    BY <2>1, <2>2 DEF GoodMode, StaysExecutable
  <2> QED BY <2>1, <2>3, <2>4
<1>5. ASSUME NEW r \in Run, Get(r) PROVE XInv'
  <2>1. /\ ~ Ended(r) /\ raced' = raced
        /\ \A q \in Run \ {r} : pc'[q] = pc[q] /\ mode'[q] = mode[q]
    BY <1>5, GetMoves
  <2>2. Tables'
    BY <1>5, GetTables
  <2>3. OneOpen'
    BY <2>1 DEF OneOpen, Ended
  <2>4. ~ raced => \A q \in Run \ {r} : Ended(q)
    BY <2>1 DEF OneOpen
  <2>5. ~ raced => \A q \in Run \ {r} : pc'[q] \notin {"rename", "chmod"}
    BY <2>1, <2>4 DEF Ended
  <2>6. CASE Stat(r)
    <3>1. pc[r] = "stat" /\ target' = target /\ pc'[r] = "rename"
          /\ mode'[r] = IF target = Absent THEN "executable" ELSE target.mode
      BY <2>6 DEF Stat, Goto, Tables
    <3>2. ~ raced => \A q \in Run : pc[q] # "chmod"
      BY <3>1, <2>4 DEF Ended
    <3>3. ~ raced => mode'[r] = "executable"
      BY <3>1, <3>2 DEF StaysExecutable
    <3> QED BY <2>1, <2>2, <2>3, <2>5, <3>1, <3>2, <3>3 DEF GoodMode, StaysExecutable
  <2>7. CASE Rename(r)
    <3>1. pc[r] = "rename" /\ pc'[r] = "chmod" /\ mode' = mode
      BY <2>7 DEF Rename, Goto, Tables
    <3> QED BY <2>1, <2>2, <2>3, <2>5, <3>1 DEF GoodMode, StaysExecutable
  <2>8. CASE Chmod(r)
    <3>1. pc[r] = "chmod" /\ pc'[r] = "ok" /\ mode' = mode /\ target'.mode = mode[r]
      BY <2>8 DEF Chmod, Goto, Tables, run
    <3> QED BY <2>1, <2>2, <2>3, <2>5, <3>1 DEF GoodMode, StaysExecutable
  <2>9. ASSUME ~ Stat(r), ~ Rename(r), ~ Chmod(r) PROVE XInv'
    <3>1. /\ target' = target /\ mode' = mode /\ pc[r] # "chmod"
          /\ pc'[r] \notin {"rename", "chmod"}
      BY <1>5, <2>9 DEF Get, LookupLatest, Lookup, FetchSum, FetchData, CheckSum, CreateTemp,
                        Copy, Goto, run, Tables
    <3> QED BY <2>1, <2>2, <2>3, <2>5, <3>1 DEF GoodMode, StaysExecutable
  <2> QED BY <2>6, <2>7, <2>8, <2>9
<1> QED BY <1>1, <1>2, <1>3, <1>4, <1>5 DEF Next

(* The file stays executable as long as runs do not overlap and none       *)
(* breaks off between the rename and the chmod.                            *)
THEOREM ExecutableKept == Spec => []StaysExecutable
<1>1. XInv => StaysExecutable
  BY DEF XInv
<1> QED BY <1>1, XInvInit, XInvNext, PTL DEF Spec

-----------------------------------------------------------------------------
(* What a run knows: the release it installs once that is decided, and the *)
(* mode of the executable once it has asked for it.                        *)
Known ==
  \A r \in Run :
    /\ pc[r] \in {"lookup", "sum", "data", "check", "create", "copy", "stat",
                   "rename", "chmod"} => want[r] \in Release
    /\ pc[r] \in {"rename", "chmod"} => mode[r] \in {"executable", "private"}

(* The third inductive invariant. *)
YInv == TypeOK /\ Known /\ releases \in Seq(Release)

(* A list stays one without repetitions when a new element is put first.   *)
LEMMA ConsInjective ==
  ASSUME NEW s \in Seq(Release), IsInjective(s), NEW v \in Release, v \notin ToSet(s)
  PROVE  /\ <<v>> \o s \in Seq(Release) /\ ToSet(<<v>> \o s) \subseteq Release
         /\ IsInjective(<<v>> \o s)
<1> DEFINE t == <<v>> \o s
<1>1. t \in Seq(Release) /\ Len(t) = Len(s) + 1 /\ Len(s) \in Nat
  OBVIOUS
<1>2. t[1] = v /\ \A i \in 2..Len(t) : t[i] = s[i - 1] /\ i - 1 \in DOMAIN s
  OBVIOUS
<1>3. DOMAIN t = 1..Len(t)
  BY <1>1
<1> HIDE DEF t
<1>4. ToSet(t) \subseteq Release
  BY <1>1, <1>3 DEF ToSet
<1>5. \A k \in DOMAIN s : s[k] # v
  BY DEF ToSet
<1>6. ASSUME NEW i \in DOMAIN t, NEW j \in DOMAIN t, t[i] = t[j] PROVE i = j
  <2>1. CASE i = 1 /\ j = 1
    BY <2>1
  <2>2. CASE i = 1 /\ j # 1
    <3>1. j \in 2..Len(t)
      BY <1>1, <1>3, <2>2
    <3> QED BY <1>2, <1>6, <1>5, <2>2, <3>1
  <2>3. CASE i # 1 /\ j = 1
    <3>1. i \in 2..Len(t)
      BY <1>1, <1>3, <2>3
    <3> QED BY <1>2, <1>6, <1>5, <2>3, <3>1
  <2>4. CASE i # 1 /\ j # 1
    <3>1. /\ i \in 2..Len(t) /\ j \in 2..Len(t)
      BY <1>1, <1>3, <2>4
    <3>2. s[i - 1] = s[j - 1] /\ i - 1 \in DOMAIN s /\ j - 1 \in DOMAIN s
      BY <1>2, <1>6, <3>1
    <3>3. i - 1 = j - 1
      BY <3>2 DEF IsInjective
    <3> QED BY <3>1, <3>3
  <2> QED BY <2>1, <2>2, <2>3, <2>4
<1>7. IsInjective(t)
  BY <1>6 DEF IsInjective
<1> QED BY <1>1, <1>4, <1>7 DEF t

LEMMA YInvInit == Init => YInv
<1> SUFFICES ASSUME Init PROVE YInv
  OBVIOUS
<1>1. PICK m \in 0..2 : releases \in [1..m -> Release]
  BY DEF Init, SeqOf
<1>2. releases \in Seq(Release) /\ IsInjective(releases) /\ ToSet(releases) \subseteq Release
  BY <1>1 DEF Init, ToSet
<1>3. target \in File \union {Absent}
  BY DEF Init, File
<1>4. failures \in 0..MaxFailures
  BY GetBounds DEF Init
<1> QED BY <1>2, <1>3, <1>4 DEF Init, YInv, TypeOK, Known, Place

LEMMA YInvNext == WInv /\ YInv /\ [Next]_vars => YInv'
<1> SUFFICES ASSUME WInv, YInv, [Next]_vars PROVE YInv'
  OBVIOUS
<1> USE DEF YInv, TypeOK, Known
<1>1. CASE Publish
  <2>1. PICK v \in Release \ ToSet(releases) : releases' = <<v>> \o releases
    BY <1>1 DEF Publish
  <2>2. /\ releases' \in Seq(Release) /\ ToSet(releases') \subseteq Release
        /\ IsInjective(releases')
    BY <2>1, ConsInjective
  <2> QED BY <1>1, <2>2 DEF Publish, run
<1>2. CASE UNCHANGED vars
  BY <1>2 DEF vars, run
<1>3. ASSUME NEW r \in Run, Begin(r) PROVE YInv'
  BY <1>3 DEF Begin, Goto, Place
<1>4. ASSUME NEW r \in Run, BreakOff(r) PROVE YInv'
  BY <1>4, GetBounds DEF BreakOff, Goto, run, Place
<1>5. ASSUME NEW r \in Run, LookupLatest(r) PROVE YInv'
  <2>1. releases # <<>> => Head(releases) \in Release
    OBVIOUS
  <2> QED BY <1>5, <2>1 DEF LookupLatest, Goto, Place
<1>6. ASSUME NEW r \in Run, Lookup(r) PROVE YInv'
  BY <1>6 DEF Lookup, Goto, run, Place
<1>7. ASSUME NEW r \in Run, FetchSum(r) PROVE YInv'
  BY <1>7 DEF FetchSum, Goto, Place
<1>8. ASSUME NEW r \in Run, FetchData(r) PROVE YInv'
  BY <1>8 DEF FetchData, Goto, Place
<1>9. ASSUME NEW r \in Run, CheckSum(r) PROVE YInv'
  BY <1>9 DEF CheckSum, Goto, run, Place
<1>10. ASSUME NEW r \in Run, CreateTemp(r) PROVE YInv'
  BY <1>10 DEF CreateTemp, Goto, Place
<1>11. ASSUME NEW r \in Run, Copy(r) PROVE YInv'
  BY <1>11, GetBounds DEF Copy, Goto, Place
<1>12. ASSUME NEW r \in Run, Stat(r) PROVE YInv'
  <2>1. (IF target = Absent THEN "executable" ELSE target.mode) \in {"executable", "private"}
    BY DEF File
  <2> QED BY <1>12, <2>1 DEF Stat, Goto, Place
<1>13. ASSUME NEW r \in Run, Rename(r) PROVE YInv'
  <2>1. target' \in File
    BY <1>13 DEF Rename, File, WInv, Checked
  <2> QED BY <1>13, <2>1 DEF Rename, Goto, Place
<1>14. ASSUME NEW r \in Run, Chmod(r) PROVE YInv'
  <2>1. target \in File /\ mode[r] \in {"executable", "private"}
    BY <1>14 DEF Chmod, WInv, Checked
  <2>2. target' \in File
    BY <1>14, <2>1 DEF Chmod, File
  <2> QED BY <1>14, <2>2 DEF Chmod, Goto, run, Place
<1> QED
  BY <1>1, <1>2, <1>3, <1>4, <1>5, <1>6, <1>7, <1>8, <1>9, <1>10, <1>11, <1>12, <1>13, <1>14
     DEF Next, Get

(* Every variable keeps its type: in particular the list of releases never *)
(* has one twice, and the file weed always has one of the two modes and    *)
(* the name of a release, however the runs overlap and break off.          *)
THEOREM GetTypes == Spec => []TypeOK
<1>1. YInv => TypeOK
  BY DEF YInv
<1> QED BY <1>1, WInvInit, WInvNext, YInvInit, YInvNext, PTL DEF Spec

=============================================================================
