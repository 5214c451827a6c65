------------------------- MODULE VolumeDisksProofs --------------------------
(***************************************************************************)
(* For any disks, any number of volume servers on the host and any number  *)
(* of failures and repetitions: no disk with data on it is formatted; what *)
(* is mounted is in fstab, after a first success nothing else is, and only *)
(* foreign file systems are lost at the next boot; a single volume server  *)
(* mounts no disk or directory twice; and a session that succeeds leaves   *)
(* no unused disk.                                                         *)
(***************************************************************************)
EXTENDS VolumeDisks, TLAPS, FiniteSetTheorems, WellFoundedInduction

(* Where data is the listing finds partitions or a file system. *)
ListingShowsData ==
  \A d \in Disk : d \in data => d \in partitioned \/ fs[d] # "none"

(* A disk that has data although a session still means to format it was    *)
(* mounted since its listing, which mkfs.ext4 sees.                        *)
StaleMeansMounted ==
  \A s \in VolumeServer, d \in Disk :
    d \in format[s] /\ d \in data => IsMounted(d)

(* The line is in fstab before the disk is mounted. *)
LineFirst ==
  \A s \in VolumeServer : pc[s] = "do" => Line(current[s]) \in fstab

(* What the proofs need of the types. *)
Shapes ==
  /\ fs \in [Disk -> Fs]
  /\ pc \in [VolumeServer -> Where]
  /\ format \in [VolumeServer -> SUBSET Disk]
  /\ current = [s \in VolumeServer |-> current[s]]

(* The inductive invariant. *)
DInv == Shapes /\ ListingShowsData /\ StaleMeansMounted /\ LineFirst /\ MountsAreInFstab

-----------------------------------------------------------------------------
LEMMA DInvInit == Init => DInv
<1> SUFFICES ASSUME Init PROVE DInv
  OBVIOUS
<1>1. Shapes
  BY DEF Init, Shapes, Where
<1>2. ListingShowsData
  BY DEF Init, ListingShowsData
<1>3. StaleMeansMounted
  BY DEF Init, StaleMeansMounted
<1>4. LineFirst
  BY DEF Init, LineFirst
<1>5. MountsAreInFstab
  <2> SUFFICES ASSUME NEW x \in mounted
               PROVE  "own" \in Type /\ <<x[1], x[2], "own">> \in fstab
    BY DEF MountsAreInFstab, AtBoot
  <2> QED BY DEF Init, Type
<1> QED BY <1>1, <1>2, <1>3, <1>4, <1>5 DEF DInv

(* A step that only moves a session on, to anything but the mount, or that *)
(* changes what the invariant does not speak of.                           *)
LEMMA MoveOn ==
  ASSUME DInv, NEW s \in VolumeServer, NEW w \in Where \ {"do"},
         pc' = [pc EXCEPT ![s] = w],
         UNCHANGED <<partitioned, fs, mounted, fstab, data, format>>,
         \A t \in VolumeServer \ {s} : current'[t] = current[t],
         current' = [t \in VolumeServer |-> current'[t]]
  PROVE  DInv'
<1>1. Shapes'
  BY DEF DInv, Shapes
<1>2. ListingShowsData' /\ StaleMeansMounted' /\ MountsAreInFstab'
  BY DEF DInv, ListingShowsData, StaleMeansMounted, MountsAreInFstab, AtBoot, IsMounted
<1>3. LineFirst'
  BY DEF DInv, Shapes, LineFirst
<1> QED BY <1>1, <1>2, <1>3 DEF DInv

LEMMA ListDisksKeeps ==
  ASSUME DInv, NEW s \in VolumeServer, ListDisks(s)
  PROVE  DInv'
<1> DEFINE free == {d \in Disk : ~ HasPartitions(d) /\ ~ IsMounted(d)}
<1>1. /\ pc' = [pc EXCEPT ![s] = "format"]
      /\ format' = [format EXCEPT ![s] = {d \in free : fs[d] = "none"}]
      /\ UNCHANGED <<partitioned, fs, mounted, fstab, data, current>>
  BY DEF ListDisks, Goto, host
<1>2. Shapes'
  BY <1>1 DEF DInv, Shapes, Where
<1>3. ListingShowsData' /\ MountsAreInFstab'
  BY <1>1 DEF DInv, ListingShowsData, MountsAreInFstab, AtBoot
<1>4. StaleMeansMounted'
  <2> SUFFICES ASSUME NEW t \in VolumeServer, NEW d \in Disk,
                      d \in format'[t], d \in data'
               PROVE  IsMounted(d)'
    BY DEF StaleMeansMounted
  <2>1. CASE t = s
    <3>1. ~ HasPartitions(d) /\ fs[d] = "none"
      BY <1>1, <2>1 DEF DInv, Shapes
    <3>2. d \in partitioned
      BY <1>1, <3>1 DEF DInv, ListingShowsData
    <3> QED BY <3>1, <3>2 DEF HasPartitions
  <2>2. CASE t # s
    BY <1>1, <2>2 DEF DInv, Shapes, StaleMeansMounted, IsMounted
  <2> QED BY <2>1, <2>2
<1>5. LineFirst'
  BY <1>1 DEF DInv, Shapes, LineFirst
<1> QED BY <1>2, <1>3, <1>4, <1>5 DEF DInv

LEMMA MkfsKeeps ==
  ASSUME DInv, NEW s \in VolumeServer, NEW d \in Disk, Mkfs(s, d)
  PROVE  DInv'
<1>1. UNCHANGED <<partitioned, mounted, fstab, data, current>>
  BY DEF Mkfs
<1>2. CASE IsMounted(d)
  <2>1. pc' = [pc EXCEPT ![s] = "failed"] /\ UNCHANGED <<fs, format>>
    BY <1>2 DEF Mkfs, Goto
  <2> QED BY <1>1, <2>1, MoveOn DEF DInv, Shapes, Where
<1>3. CASE ~ IsMounted(d)
  <2>1. /\ fs' = [fs EXCEPT ![d] = "ext4"]
        /\ format' = [format EXCEPT ![s] = @ \ {d}]
        /\ UNCHANGED pc
    BY <1>3 DEF Mkfs
  <2>2. Shapes'
    BY <1>1, <2>1 DEF DInv, Shapes, Fs
  <2>3. ListingShowsData'
    BY <1>1, <2>1 DEF DInv, Shapes, ListingShowsData
  <2>4. StaleMeansMounted'
    BY <1>1, <2>1 DEF DInv, Shapes, StaleMeansMounted, IsMounted
  <2>5. LineFirst'
    BY <1>1, <2>1 DEF DInv, LineFirst
  <2>6. MountsAreInFstab'
    <3> SUFFICES ASSUME NEW x \in mounted
                 PROVE  /\ \E t \in Type : <<x[1], x[2], t>> \in fstab
                        /\ AtBoot(x)' \/ fs'[x[1]] = "other"
      BY <1>1 DEF MountsAreInFstab
    <3>1. /\ \E t \in Type : <<x[1], x[2], t>> \in fstab
          /\ AtBoot(x) \/ fs[x[1]] = "other"
      BY DEF DInv, MountsAreInFstab
    <3>2. x[1] # d
      BY <1>3 DEF IsMounted
    <3>3. fs'[x[1]] = fs[x[1]]
      BY <2>1, <3>2 DEF DInv, Shapes
    <3> QED BY <1>1, <3>1, <3>3 DEF AtBoot
  <2> QED BY <2>2, <2>3, <2>4, <2>5, <2>6 DEF DInv
<1> QED BY <1>2, <1>3

LEMMA AppendFstabKeeps ==
  ASSUME DInv, NEW s \in VolumeServer, AppendFstab(s)
  PROVE  DInv'
<1>1. /\ pc' = [pc EXCEPT ![s] = "do"]
      /\ fstab' = fstab \union {Line(current[s])}
      /\ UNCHANGED <<partitioned, fs, mounted, data, format, current>>
  BY DEF AppendFstab, Goto, local
<1>2. Shapes'
  BY <1>1 DEF DInv, Shapes, Where
<1>3. ListingShowsData' /\ StaleMeansMounted' /\ MountsAreInFstab'
  BY <1>1 DEF DInv, ListingShowsData, StaleMeansMounted, MountsAreInFstab, AtBoot, IsMounted
<1>4. LineFirst'
  BY <1>1 DEF DInv, Shapes, LineFirst
<1> QED BY <1>2, <1>3, <1>4 DEF DInv

LEMMA MountKeeps ==
  ASSUME DInv, NEW s \in VolumeServer, Mount(s)
  PROVE  DInv'
<1> DEFINE m == current[s]
<1>1. pc[s] = "do" /\ UNCHANGED <<partitioned, fs, fstab, format, current>>
  BY DEF Mount, local
<1>2. CASE Mountable(m[1]) /\ m \notin mounted
  <2>1. /\ mounted' = mounted \union {m}
        /\ data' = data \union {m[1]}
        /\ pc' = [pc EXCEPT ![s] = "mount"]
    BY <1>2 DEF Mount, Goto
  <2>2. Shapes'
    BY <1>1, <2>1 DEF DInv, Shapes, Where
  <2>3. ListingShowsData'
    BY <1>1, <1>2, <2>1 DEF DInv, ListingShowsData, Mountable
  <2>4. StaleMeansMounted'
    BY <1>1, <2>1 DEF DInv, StaleMeansMounted, IsMounted
  <2>5. MountsAreInFstab'
    <3>1. <<m[1], m[2], "ext4">> \in fstab /\ "ext4" \in Type
      BY <1>1 DEF DInv, LineFirst, Line, Type
    <3>2. fs[m[1]] = "ext4" \/ fs[m[1]] = "other"
      BY <1>2 DEF Mountable
    <3> HIDE DEF m
    <3>3. (\E t \in Type : <<m[1], m[2], t>> \in fstab) /\ (AtBoot(m) \/ fs[m[1]] = "other")
      BY <3>1, <3>2 DEF AtBoot
    <3> QED BY <1>1, <2>1, <3>3 DEF DInv, MountsAreInFstab, AtBoot
  <2>6. LineFirst'
    BY <1>1, <2>1 DEF DInv, Shapes, LineFirst
  <2> QED BY <2>2, <2>3, <2>4, <2>5, <2>6 DEF DInv
<1>3. CASE ~ (Mountable(m[1]) /\ m \notin mounted)
  <2>1. pc' = [pc EXCEPT ![s] = "failed"] /\ UNCHANGED <<mounted, data>>
    BY <1>3 DEF Mount, Goto
  <2> QED BY <1>1, <2>1, MoveOn DEF DInv, Shapes, Where
<1> QED BY <1>2, <1>3

LEMMA ChooseDirKeeps ==
  ASSUME DInv, NEW s \in VolumeServer, NEW d \in Disk, ChooseDir(s, d)
  PROVE  DInv'
<1> DEFINE n == Min(Dir \ used[s])
<1>1. UNCHANGED <<partitioned, fs, mounted, fstab, data, format>>
  BY DEF ChooseDir, host
<1>2. CASE Dir \ used[s] = {}
  <2>1. pc' = [pc EXCEPT ![s] = "failed"] /\ UNCHANGED current
    BY <1>2 DEF ChooseDir, Goto
  <2> QED BY <1>1, <2>1, MoveOn DEF DInv, Shapes, Where
<1>3. CASE Dir \ used[s] # {}
  <2>1. pc' = [pc EXCEPT ![s] = "upload"] /\ current' = [current EXCEPT ![s] = <<d, n>>]
    BY <1>3 DEF ChooseDir, Goto
  <2> HIDE DEF n
  <2> QED BY <1>1, <2>1, MoveOn DEF DInv, Shapes, Where
<1> QED BY <1>2, <1>3

LEMMA ExecuteKeeps ==
  ASSUME DInv, NEW s \in VolumeServer, Execute(s)
  PROVE  DInv'
<1> DEFINE x == <<current[s][1], script[current[s][1]]>>
<1>1. /\ pc' = [pc EXCEPT ![s] = "fstab"]
      /\ current' = [current EXCEPT ![s] = x]
      /\ UNCHANGED <<partitioned, fs, mounted, fstab, data, format>>
  BY DEF Execute, Goto, host, DInv, Shapes
<1> HIDE DEF x
<1> QED BY <1>1, MoveOn DEF DInv, Shapes, Where

LEMMA DInvNext == DInv /\ [Next]_vars => DInv'
<1> SUFFICES ASSUME DInv, [Next]_vars PROVE DInv'
  OBVIOUS
<1>1. ASSUME NEW s \in VolumeServer, ListDisks(s) PROVE DInv'
  BY <1>1, ListDisksKeeps
<1>2. ASSUME NEW s \in VolumeServer, NEW d \in Disk, Mkfs(s, d) PROVE DInv'
  BY <1>2, MkfsKeeps
<1>3. ASSUME NEW s \in VolumeServer, NEW d \in Disk, ChooseDir(s, d) PROVE DInv'
  BY <1>3, ChooseDirKeeps
<1>4. ASSUME NEW s \in VolumeServer, LeaveFormat(s) \/ Upload(s) \/ Finish(s) \/ Fail(s)
      PROVE  DInv'
  <2>1. /\ UNCHANGED <<partitioned, fs, mounted, fstab, data, format, current>>
        /\ \E w \in Where \ {"do"} : pc' = [pc EXCEPT ![s] = w]
    BY <1>4 DEF LeaveFormat, Upload, Finish, Fail, Goto, host, local, Where
  <2> QED BY <2>1, MoveOn DEF DInv, Shapes
<1>5. ASSUME NEW s \in VolumeServer, Execute(s) PROVE DInv'
  BY <1>5, ExecuteKeeps
<1>6. ASSUME NEW s \in VolumeServer, AppendFstab(s) PROVE DInv'
  BY <1>6, AppendFstabKeeps
<1>7. ASSUME NEW s \in VolumeServer, Mount(s) PROVE DInv'
  BY <1>7, MountKeeps
<1>8. CASE Deploy
  <2>1. /\ pc' = [s \in VolumeServer |-> "idle"]
        /\ UNCHANGED <<partitioned, fs, mounted, fstab, data, format, current>>
    BY <1>8 DEF Deploy, host, local
  <2> QED BY <2>1 DEF DInv, Shapes, Where, ListingShowsData, StaleMeansMounted,
                      LineFirst, MountsAreInFstab, AtBoot, IsMounted
<1>9. CASE UNCHANGED vars
  BY <1>9 DEF vars, host, local, DInv, Shapes, ListingShowsData, StaleMeansMounted,
              LineFirst, MountsAreInFstab, AtBoot, IsMounted
<1> QED
  BY <1>1, <1>2, <1>3, <1>4, <1>5, <1>6, <1>7, <1>8, <1>9 DEF Next, Session, Content

LEMMA DInvAlways == Spec => []DInv
BY DInvInit, DInvNext, PTL DEF Spec

-----------------------------------------------------------------------------
(* What is mounted has its line in fstab, and unless the disk holds a file *)
(* system other than ext4 a reboot mounts it again: the line is written    *)
(* first, and the mount is that of the line although another session may   *)
(* have replaced the script.                                               *)
THEOREM MountsSurvive == Spec => []MountsAreInFstab
<1>1. DInv => MountsAreInFstab
  BY DEF DInv
<1> QED BY <1>1, DInvAlways, PTL

(* mkfs.ext4 never runs on a disk with data: what had partitions or a file *)
(* system was not selected, and what was mounted since is refused.         *)
THEOREM DataIsSafe == Spec => NeverFormatsData
<1>1. ASSUME DInv, [Next]_vars
      PROVE  [\A s \in VolumeServer, d \in Disk :
                Mkfs(s, d) /\ pc' = pc => d \notin data]_vars
  <2> SUFFICES ASSUME NEW s \in VolumeServer, NEW d \in Disk, Mkfs(s, d), pc' = pc
               PROVE  d \notin data
    OBVIOUS
  <2>1. pc[s] = "format" /\ d \in format[s]
    BY DEF Mkfs
  <2>2. ~ IsMounted(d)
    <3> SUFFICES ASSUME IsMounted(d) PROVE FALSE
      OBVIOUS
    <3>1. pc' = [pc EXCEPT ![s] = "failed"]
      BY DEF Mkfs, Goto
    <3> QED BY <1>1, <2>1, <3>1 DEF DInv, Shapes
  <2> QED BY <1>1, <2>1, <2>2 DEF DInv, StaleMeansMounted
<1>2. (DInv /\ [Next]_vars)
        => [\A s \in VolumeServer, d \in Disk :
              Mkfs(s, d) /\ pc' = pc => d \notin data]_vars
  BY <1>1
<1> QED BY <1>2, DInvAlways, PTL DEF Spec, NeverFormatsData

-----------------------------------------------------------------------------
(* A session works for a volume server of the host.                        *)
Listed == servers # {} /\ \A s \in VolumeServer : pc[s] # "idle" => s \in servers

(* From the choice of a directory to the mount; only an uploaded script is *)
(* executed.                                                               *)
Turn == {"upload", "execute", "fstab", "do"}

TurnTaken ==
  \A s \in VolumeServer :
    /\ pc[s] \in Turn => current[s] \in Disk \X Dir
    /\ pc[s] = "execute" => script[current[s][1]] # 0

(* What a session found unused and has not mounted, it still has to.       *)
Accounted ==
  \A s \in VolumeServer :
    /\ pc[s] = "ok" => mount[s] = {}
    /\ pc[s] \notin {"idle", "failed"} => \A d \in Disk :
         \/ HasPartitions(d) \/ IsMounted(d) \/ d \in mount[s]
         \/ pc[s] \in Turn /\ d = current[s][1]

(* In a first run without failures fstab is ahead only by the mounts that  *)
(* are about to be made.                                                   *)
FstabAhead ==
  runs = 1 /\ (\A s \in VolumeServer : pc[s] # "failed") =>
    \A l \in fstab : \/ <<l[1], l[2]>> \in mounted
                     \/ \E s \in VolumeServer : pc[s] = "do" /\ l = Line(current[s])

(* When the host has one volume server, what its session believes of the   *)
(* host is true: the directories it takes for used are, the disks it has   *)
(* to mount are not mounted, and the script is its own.                    *)
Injective == \A x, y \in mounted : x[1] = y[1] <=> x[2] = y[2]

Believes(s) ==
  /\ \A x \in mounted : x[2] \in used[s]
  /\ \A d \in mount[s] : ~ IsMounted(d)
  /\ pc[s] \in Turn =>
       /\ ~ IsMounted(current[s][1]) /\ current[s][1] \notin mount[s]
       /\ current[s][2] \in used[s] /\ \A x \in mounted : x[2] # current[s][2]
  /\ pc[s] = "execute" => script[current[s][1]] = current[s][2]

Sole ==
  \A s \in VolumeServer : servers = {s} =>
    Injective /\ (pc[s] \notin {"idle", "ok", "failed"} => Believes(s))

(* The inductive invariant of these properties.                            *)
MInv == TypeOK /\ Listed /\ TurnTaken /\ Accounted /\ FstabAhead /\ Sole

-----------------------------------------------------------------------------
(* The first of the free directories is one of them.                       *)
LEMMA MinIsIn == ASSUME NEW S \in SUBSET Dir, S # {} PROVE Min(S) \in S
<1> DEFINE R == OpToRel(<, Nat)
<1>1. IsWellFoundedOn(R, Nat)
  BY NatLessThanWellFounded
<1>2. \A x, y \in Nat : y < x => <<y, x>> \in R
  BY DEF OpToRel
<1> HIDE DEF R
<1>3. S \subseteq Nat
  BY DiskBounds DEF Dir
<1>4. PICK x \in S : \A y \in S : ~ (<<y, x>> \in R)
  BY <1>1, <1>3, WFMin
<1>5. \A y \in S : x =< y
  <2> SUFFICES ASSUME NEW y \in S PROVE x =< y
    OBVIOUS
  <2>1. x \in Nat /\ y \in Nat
    BY <1>3
  <2>2. ~ (y < x)
    BY <1>2, <1>4, <2>1
  <2> QED BY <2>1, <2>2
<1> QED BY <1>5 DEF Min

(* A step of a session that is not about to mount.                         *)
LEMMA FstabAheadStays ==
  ASSUME FstabAhead, UNCHANGED <<fstab, mounted, runs>>,
         \A t \in VolumeServer : pc[t] = "do" => pc'[t] = "do" /\ current'[t] = current[t],
         \A t \in VolumeServer : pc[t] = "failed" => pc'[t] = "failed"
  PROVE  FstabAhead'
<1> SUFFICES ASSUME runs = 1, \A t \in VolumeServer : pc'[t] # "failed", NEW l \in fstab
             PROVE  \/ <<l[1], l[2]>> \in mounted
                    \/ \E t \in VolumeServer : pc'[t] = "do" /\ l = Line(current'[t])
  BY DEF FstabAhead, Line
<1>1. \/ <<l[1], l[2]>> \in mounted
      \/ \E t \in VolumeServer : pc[t] = "do" /\ l = Line(current[t])
  BY DEF FstabAhead
<1> QED BY <1>1

LEMMA MInvInit == Init => MInv
<1> SUFFICES ASSUME Init PROVE MInv
  OBVIOUS
<1>1. PICK D \in SUBSET {d \in Disk : d \in partitioned \/ Mountable(d)} :
        \E at \in [D -> Dir] :
          /\ \A d, e \in D : at[d] = at[e] => d = e
          /\ mounted = {<<d, at[d]>> : d \in D}
  BY DEF Init
<1>2. PICK at \in [D -> Dir] :
        /\ \A d, e \in D : at[d] = at[e] => d = e
        /\ mounted = {<<d, at[d]>> : d \in D}
  BY <1>1
<1>3. mounted \subseteq Disk \X Dir /\ Injective
  BY <1>1, <1>2 DEF Injective
<1>4. TypeOK
  <2>1. partitioned \subseteq Disk /\ fs \in [Disk -> Fs] /\ data \subseteq Disk
    BY DEF Init
  <2>2. script \in [Disk -> 0..LastMount]
    BY DiskBounds DEF Init
  <2>3. servers \subseteq VolumeServer /\ pc \in [VolumeServer -> Where]
    BY DEF Init, Where
  <2>4. current \in [VolumeServer -> {NoTurn} \union (Disk \X Dir)]
    BY DEF Init
  <2>5. /\ format \in [VolumeServer -> SUBSET Disk] /\ mount \in [VolumeServer -> SUBSET Disk]
        /\ used \in [VolumeServer -> SUBSET Dir]
    BY DEF Init
  <2>6. failures \in 0..MaxFailures /\ runs \in 1..MaxRuns
    BY DiskBounds DEF Init
  <2>7. fstab \subseteq Disk \X Dir \X Type
    BY <1>3 DEF Init, Type
  <2> QED BY <1>3, <2>1, <2>2, <2>3, <2>4, <2>5, <2>6, <2>7 DEF TypeOK
<1>5. \A s \in VolumeServer : pc[s] = "idle"
  BY DEF Init
<1>6. Listed /\ TurnTaken /\ Accounted /\ FstabAhead /\ Sole
  BY <1>3, <1>5 DEF Init, Listed, TurnTaken, Turn, Accounted, FstabAhead, Sole
<1> QED BY <1>4, <1>6 DEF MInv

(* A host with one volume server: only its session acts.                   *)
LEMMA OnlyOne ==
  ASSUME MInv, NEW s \in VolumeServer, pc[s] # "idle" \/ s \in servers,
         NEW t \in VolumeServer, servers = {t}
  PROVE  s = t
BY DEF MInv, Listed

LEMMA ListDisksKeepsM == ASSUME MInv, NEW s \in VolumeServer, ListDisks(s) PROVE MInv'
<1> DEFINE free == {d \in Disk : ~ HasPartitions(d) /\ ~ IsMounted(d)}
<1>1. /\ s \in servers /\ pc[s] = "idle"
      /\ mount' = [mount EXCEPT ![s] = free]
      /\ format' = [format EXCEPT ![s] = {d \in free : fs[d] = "none"}]
      /\ pc' = [pc EXCEPT ![s] = "format"]
      /\ UNCHANGED <<partitioned, fs, mounted, fstab, data, script, servers, current, failures, runs>>
  BY DEF ListDisks, Goto, host
<1>2. PICK S \in Shown : used' = [used EXCEPT ![s] = {x[2] : x \in S}]
  BY DEF ListDisks
<1>3. S \subseteq mounted
  BY <1>2 DEF Shown
<1> USE DEF MInv
<1>4. /\ pc \in [VolumeServer -> Where] /\ mount \in [VolumeServer -> SUBSET Disk]
      /\ used \in [VolumeServer -> SUBSET Dir] /\ mounted \subseteq Disk \X Dir
      /\ format \in [VolumeServer -> SUBSET Disk]
  BY DEF TypeOK
<1>5. free \subseteq Disk /\ \A d \in Disk : d \in free \/ HasPartitions(d) \/ IsMounted(d)
  OBVIOUS
<1>6. \A d \in free : ~ IsMounted(d)
  OBVIOUS
<1>7. {d \in free : fs[d] = "none"} \in SUBSET Disk
  OBVIOUS
<1> DEFINE blank == {d \in free : fs[d] = "none"}
           dirs == {x[2] : x \in S}
<1>8. dirs \subseteq Dir
  BY <1>3, <1>4
<1> HIDE DEF free, blank
<1>9. /\ pc'[s] = "format" /\ \A t \in VolumeServer \ {s} : pc'[t] = pc[t]
      /\ mount'[s] = free /\ \A t \in VolumeServer \ {s} : mount'[t] = mount[t]
  BY <1>1, <1>4
<1>10. used'[s] = {x[2] : x \in S}
  BY <1>2, <1>4
<1>11. TypeOK'
  <2>1. pc' \in [VolumeServer -> Where]
    BY <1>1, <1>4 DEF Where
  <2>2. mount' \in [VolumeServer -> SUBSET Disk]
    BY <1>1, <1>4, <1>5
  <2>3. format' \in [VolumeServer -> SUBSET Disk]
    BY <1>1, <1>4, <1>7
  <2>4. used' \in [VolumeServer -> SUBSET Dir]
    <3> HIDE DEF dirs
    <3>1. used' = [used EXCEPT ![s] = dirs]
      BY <1>2 DEF dirs
    <3> QED BY <3>1, <1>4, <1>8
  <2> QED BY <1>1, <2>1, <2>2, <2>3, <2>4 DEF TypeOK
<1>12. Listed'
  BY <1>1, <1>9 DEF Listed
<1>13. TurnTaken'
  BY <1>1, <1>9 DEF TurnTaken, Turn
<1>14. Accounted'
  <2>1. \A d \in Disk : (HasPartitions(d) <=> HasPartitions(d)') /\ (IsMounted(d) <=> IsMounted(d)')
    BY <1>1 DEF HasPartitions, IsMounted
  <2> QED BY <1>1, <1>5, <1>9, <2>1 DEF Accounted
<1>15. FstabAhead'
  BY <1>1, <1>9, FstabAheadStays
<1>16. Sole'
  <2> SUFFICES ASSUME NEW t \in VolumeServer, servers = {t}
               PROVE  Injective' /\ (pc'[t] \notin {"idle", "ok", "failed"} => Believes(t)')
    BY <1>1 DEF Sole
  <2>1. t = s
    BY <1>1, OnlyOne
  <2>2. Injective /\ Injective'
    BY <1>1 DEF Sole, Injective
  <2>3. ASSUME NEW x \in mounted PROVE x[2] \in used'[s]
    <3>1. x[1] \in Disk /\ IsMounted(x[1])
      BY <1>4 DEF IsMounted
    <3>2. Cardinality({y \in S : y[1] = x[1]}) = 1
      BY <1>2, <3>1 DEF Shown
    <3>3. {y \in S : y[1] = x[1]} # {}
      <4>1. Cardinality({}) = 0
        BY FS_EmptySet
      <4> QED BY <3>2, <4>1
    <3>4. PICK y \in S : y[1] = x[1]
      BY <3>3
    <3>5. y[2] = x[2]
      BY <1>3, <2>2, <3>4 DEF Injective
    <3> QED BY <1>10, <3>4, <3>5
  <2>4. Believes(s)'
    BY <1>1, <1>6, <1>9, <2>3 DEF Believes, Turn, IsMounted
  <2> QED BY <2>1, <2>2, <2>4
<1> QED BY <1>11, <1>12, <1>13, <1>14, <1>15, <1>16

(* A step of a session that changes nothing else the invariant speaks of.  *)
LEMMA MoveOnM ==
  ASSUME MInv, NEW s \in VolumeServer, pc[s] # "idle" \/ s \in servers,
         NEW w \in Where, pc' = [pc EXCEPT ![s] = w],
         w = "failed" \/ (w = "mount" /\ pc[s] = "format")
           \/ (w = "ok" /\ pc[s] = "mount" /\ mount[s] = {}),
         UNCHANGED <<host, servers, local, runs>>, failures' \in 0..MaxFailures
  PROVE  MInv'
<1> USE DEF MInv
<1>1. /\ pc \in [VolumeServer -> Where] /\ s \in servers
      /\ UNCHANGED <<partitioned, fs, mounted, fstab, data, script, servers,
                     format, mount, used, current, runs>>
  BY DEF TypeOK, Listed, host, local
<1>2. /\ pc'[s] = w /\ \A t \in VolumeServer \ {s} : pc'[t] = pc[t]
      /\ pc' \in [VolumeServer -> Where]
      /\ w \notin Turn /\ w # "idle"
  BY <1>1 DEF Turn
<1>3. TypeOK'
  BY <1>1, <1>2 DEF TypeOK
<1>4. Listed' /\ TurnTaken'
  BY <1>1, <1>2 DEF Listed, TurnTaken, Turn
<1>5. Accounted'
  <2>1. \A d \in Disk : (HasPartitions(d) <=> HasPartitions(d)') /\ (IsMounted(d) <=> IsMounted(d)')
    BY <1>1 DEF HasPartitions, IsMounted
  <2> QED BY <1>1, <1>2, <2>1 DEF Accounted, Turn
<1>6. FstabAhead'
  BY <1>1, <1>2 DEF FstabAhead, Line
<1>7. Sole'
  <2> SUFFICES ASSUME NEW t \in VolumeServer, servers = {t}
               PROVE  Injective' /\ (pc'[t] \notin {"idle", "ok", "failed"} => Believes(t)')
    BY <1>1 DEF Sole
  <2>1. t = s
    BY OnlyOne
  <2>2. Injective'
    BY <1>1 DEF Sole, Injective
  <2>3. w \notin {"ok", "failed"} => Believes(s)'
    <3> SUFFICES ASSUME w = "mount", pc[s] = "format" PROVE Believes(s)'
      OBVIOUS
    <3>1. Believes(s)
      BY <2>1 DEF Sole
    <3> QED BY <1>1, <1>2, <3>1 DEF Believes, Turn, IsMounted
  <2> QED BY <1>2, <2>1, <2>2, <2>3
<1> QED BY <1>3, <1>4, <1>5, <1>6, <1>7

LEMMA MkfsKeepsM == ASSUME MInv, NEW s \in VolumeServer, NEW d \in Disk, Mkfs(s, d) PROVE MInv'
<1>1. /\ pc[s] = "format"
      /\ UNCHANGED <<partitioned, mounted, fstab, data, script, servers, mount, used, current,
                     failures, runs>>
  BY DEF Mkfs
<1>2. CASE IsMounted(d)
  <2>1. pc' = [pc EXCEPT ![s] = "failed"] /\ UNCHANGED <<fs, format>>
    BY <1>2 DEF Mkfs, Goto
  <2>2. failures' \in 0..MaxFailures
    BY <1>1 DEF MInv, TypeOK
  <2> QED BY <1>1, <2>1, <2>2, MoveOnM DEF Where, host, local
<1>3. CASE ~ IsMounted(d)
  <2>1. /\ fs' = [fs EXCEPT ![d] = "ext4"]
        /\ format' = [format EXCEPT ![s] = @ \ {d}]
        /\ UNCHANGED pc
    BY <1>3 DEF Mkfs
  <2>2. TypeOK'
    <3>1. fs' \in [Disk -> Fs]
      BY <2>1 DEF MInv, TypeOK, Fs
    <3>2. format' \in [VolumeServer -> SUBSET Disk]
      BY <2>1 DEF MInv, TypeOK
    <3> QED BY <1>1, <2>1, <3>1, <3>2 DEF MInv, TypeOK
  <2>3. Listed' /\ TurnTaken' /\ FstabAhead'
    BY <1>1, <2>1 DEF MInv, Listed, TurnTaken, FstabAhead
  <2>4. Accounted'
    BY <1>1, <2>1 DEF MInv, Accounted, HasPartitions, IsMounted
  <2>5. Sole'
    BY <1>1, <2>1 DEF MInv, Sole, Injective, Believes, IsMounted
  <2> QED BY <2>2, <2>3, <2>4, <2>5 DEF MInv
<1> QED BY <1>2, <1>3

LEMMA ChooseDirKeepsM ==
  ASSUME MInv, NEW s \in VolumeServer, NEW d \in Disk, ChooseDir(s, d) PROVE MInv'
<1> DEFINE n == Min(Dir \ used[s])
<1>1. /\ pc[s] = "mount" /\ d \in mount[s]
      /\ UNCHANGED <<partitioned, fs, mounted, fstab, data, script, servers, format, failures, runs>>
  BY DEF ChooseDir, host
<1>2. CASE Dir \ used[s] = {}
  <2>1. pc' = [pc EXCEPT ![s] = "failed"] /\ UNCHANGED <<mount, used, current>>
    BY <1>2 DEF ChooseDir, Goto
  <2>2. failures' \in 0..MaxFailures
    BY <1>1 DEF MInv, TypeOK
  <2> QED BY <1>1, <2>1, <2>2, MoveOnM DEF Where, host, local
<1>3. CASE Dir \ used[s] # {}
  <2>1. /\ pc' = [pc EXCEPT ![s] = "upload"]
        /\ current' = [current EXCEPT ![s] = <<d, n>>]
        /\ used' = [used EXCEPT ![s] = @ \union {n}]
        /\ mount' = [mount EXCEPT ![s] = @ \ {d}]
    BY <1>3 DEF ChooseDir, Goto
  <2>2. n \in Dir /\ n \notin used[s]
    BY <1>3, MinIsIn
  <2> HIDE DEF n
  <2> USE DEF MInv
  <2>3. /\ pc \in [VolumeServer -> Where] /\ mount \in [VolumeServer -> SUBSET Disk]
        /\ used \in [VolumeServer -> SUBSET Dir] /\ s \in servers
        /\ current \in [VolumeServer -> {NoTurn} \union (Disk \X Dir)]
    BY <1>1 DEF TypeOK, Listed
  <2>4. /\ pc'[s] = "upload" /\ current'[s] = <<d, n>>
        /\ used'[s] = used[s] \union {n} /\ mount'[s] = mount[s] \ {d}
        /\ \A t \in VolumeServer \ {s} : /\ pc'[t] = pc[t] /\ current'[t] = current[t]
                                         /\ used'[t] = used[t] /\ mount'[t] = mount[t]
    BY <2>1, <2>3
  <2>5. TypeOK'
    <3>1. pc' \in [VolumeServer -> Where]
      BY <2>1, <2>3 DEF Where
    <3>2. current' \in [VolumeServer -> {NoTurn} \union (Disk \X Dir)]
      BY <2>1, <2>2, <2>3
    <3>3. used' \in [VolumeServer -> SUBSET Dir]
      BY <2>1, <2>2, <2>3
    <3>4. mount' \in [VolumeServer -> SUBSET Disk]
      BY <2>1, <2>3
    <3> QED BY <1>1, <3>1, <3>2, <3>3, <3>4 DEF TypeOK
  <2>6. Listed' /\ TurnTaken'
    <3>1. <<d, n>> \in Disk \X Dir
      BY <2>2
    <3> QED BY <1>1, <2>3, <2>4, <3>1 DEF Listed, TurnTaken, Turn
  <2>7. Accounted'
    <3>1. \A e \in Disk : (HasPartitions(e) <=> HasPartitions(e)') /\ (IsMounted(e) <=> IsMounted(e)')
      BY <1>1 DEF HasPartitions, IsMounted
    <3> QED BY <1>1, <2>4, <3>1 DEF Accounted, Turn
  <2>8. FstabAhead'
    BY <1>1, <2>4, FstabAheadStays
  <2>9. Sole'
    <3> SUFFICES ASSUME NEW t \in VolumeServer, servers = {t} PROVE Injective' /\ Believes(t)'
      BY <1>1 DEF Sole
    <3>1. t = s
      BY <1>1, OnlyOne
    <3>2. Injective /\ Believes(s)
      BY <1>1, <3>1 DEF Sole
    <3>3. Believes(s)'
      BY <1>1, <2>2, <2>4, <3>2 DEF Believes, Turn, IsMounted
    <3> QED BY <1>1, <3>1, <3>2, <3>3 DEF Injective
  <2> QED BY <2>5, <2>6, <2>7, <2>8, <2>9
<1> QED BY <1>2, <1>3

LEMMA UploadKeepsM == ASSUME MInv, NEW s \in VolumeServer, Upload(s) PROVE MInv'
<1>1. /\ pc[s] = "upload" /\ pc' = [pc EXCEPT ![s] = "execute"]
      /\ script' = [script EXCEPT ![current[s][1]] = current[s][2]]
      /\ UNCHANGED <<partitioned, fs, mounted, fstab, data, servers, format, mount, used, current,
                     failures, runs>>
  BY DEF Upload, Goto, local
<1> USE DEF MInv
<1>2. PICK d \in Disk, n \in Dir : current[s] = <<d, n>>
  BY <1>1 DEF TurnTaken, Turn
<1>3. /\ pc \in [VolumeServer -> Where] /\ script \in [Disk -> 0..LastMount]
      /\ s \in servers /\ n # 0 /\ n \in 0..LastMount
  BY <1>1, DiskBounds DEF TypeOK, Listed, Dir
<1>4. /\ pc'[s] = "execute" /\ \A t \in VolumeServer \ {s} : pc'[t] = pc[t]
      /\ script'[d] = n /\ \A e \in Disk \ {d} : script'[e] = script[e]
  BY <1>1, <1>2, <1>3
<1>5. TypeOK'
  <2>1. pc' \in [VolumeServer -> Where]
    BY <1>1, <1>3 DEF Where
  <2>2. script' \in [Disk -> 0..LastMount]
    BY <1>1, <1>2, <1>3
  <2> QED BY <1>1, <2>1, <2>2 DEF TypeOK
<1>6. Listed'
  BY <1>1, <1>3, <1>4 DEF Listed
<1>7. TurnTaken'
  <2> SUFFICES ASSUME NEW t \in VolumeServer
               PROVE  /\ pc'[t] \in Turn => current[t] \in Disk \X Dir
                      /\ pc'[t] = "execute" => script'[current[t][1]] # 0
    BY <1>1 DEF TurnTaken
  <2>1. pc'[t] \in Turn => pc[t] \in Turn /\ current[t] \in Disk \X Dir
    BY <1>1, <1>4 DEF TurnTaken, Turn
  <2>2. CASE t = s
    BY <1>2, <1>3, <1>4, <2>1, <2>2
  <2>3. CASE t # s
    BY <1>3, <1>4, <2>1, <2>3 DEF TurnTaken, Turn
  <2> QED BY <2>2, <2>3
<1>8. Accounted'
  <2>1. \A e \in Disk : (HasPartitions(e) <=> HasPartitions(e)') /\ (IsMounted(e) <=> IsMounted(e)')
    BY <1>1 DEF HasPartitions, IsMounted
  <2> QED BY <1>1, <1>4, <2>1 DEF Accounted, Turn
<1>9. FstabAhead'
  BY <1>1, <1>4, FstabAheadStays
<1>10. Sole'
  <2> SUFFICES ASSUME NEW t \in VolumeServer, servers = {t} PROVE Injective' /\ Believes(t)'
    BY <1>1 DEF Sole
  <2>1. t = s
    BY <1>1, OnlyOne
  <2>2. Injective /\ Believes(s)
    BY <1>1, <2>1 DEF Sole
  <2>3. Believes(s)'
    BY <1>1, <1>2, <1>4, <2>2 DEF Believes, Turn, IsMounted
  <2> QED BY <1>1, <2>1, <2>2, <2>3 DEF Injective
<1> QED BY <1>5, <1>6, <1>7, <1>8, <1>9, <1>10

LEMMA ExecuteKeepsM == ASSUME MInv, NEW s \in VolumeServer, Execute(s) PROVE MInv'
<1>1. /\ pc[s] = "execute" /\ pc' = [pc EXCEPT ![s] = "fstab"]
      /\ current' = [current EXCEPT ![s] = <<@[1], script[@[1]]>>]
      /\ UNCHANGED <<partitioned, fs, mounted, fstab, data, script, servers, format, mount, used,
                     failures, runs>>
  BY DEF Execute, Goto, host
<1> USE DEF MInv
<1>2. PICK d \in Disk, n \in Dir : current[s] = <<d, n>>
  BY <1>1 DEF TurnTaken, Turn
<1>3. /\ pc \in [VolumeServer -> Where] /\ script \in [Disk -> 0..LastMount]
      /\ current \in [VolumeServer -> {NoTurn} \union (Disk \X Dir)]
      /\ s \in servers
  BY <1>1 DEF TypeOK, Listed
<1>4. script[d] \in Dir
  <2>1. script[d] # 0
    BY <1>1, <1>2 DEF TurnTaken
  <2> QED BY <1>3, <2>1, DiskBounds DEF Dir
<1>5. /\ pc'[s] = "fstab" /\ current'[s] = <<d, script[d]>>
      /\ \A t \in VolumeServer \ {s} : pc'[t] = pc[t] /\ current'[t] = current[t]
  BY <1>1, <1>2, <1>3
<1>6. TypeOK'
  <2>1. pc' \in [VolumeServer -> Where]
    BY <1>1, <1>3 DEF Where
  <2>2. current' \in [VolumeServer -> {NoTurn} \union (Disk \X Dir)]
    BY <1>1, <1>2, <1>3, <1>4
  <2> QED BY <1>1, <2>1, <2>2 DEF TypeOK
<1>7. Listed' /\ TurnTaken'
  BY <1>1, <1>3, <1>4, <1>5 DEF Listed, TurnTaken, Turn
<1>8. Accounted'
  <2>1. \A e \in Disk : (HasPartitions(e) <=> HasPartitions(e)') /\ (IsMounted(e) <=> IsMounted(e)')
    BY <1>1 DEF HasPartitions, IsMounted
  <2> QED BY <1>1, <1>2, <1>5, <2>1 DEF Accounted, Turn
<1>9. FstabAhead'
  BY <1>1, <1>5, FstabAheadStays
<1>10. Sole'
  <2> SUFFICES ASSUME NEW t \in VolumeServer, servers = {t} PROVE Injective' /\ Believes(t)'
    BY <1>1 DEF Sole
  <2>1. t = s
    BY <1>1, OnlyOne
  <2>2. Injective /\ Believes(s)
    BY <1>1, <2>1 DEF Sole
  <2>3. current'[s] = current[s]
    BY <1>1, <1>2, <1>5, <2>2 DEF Believes
  <2>4. Believes(s)'
    BY <1>1, <1>5, <2>2, <2>3 DEF Believes, Turn, IsMounted
  <2> QED BY <1>1, <2>1, <2>2, <2>4 DEF Injective
<1> QED BY <1>6, <1>7, <1>8, <1>9, <1>10

LEMMA AppendFstabKeepsM == ASSUME MInv, NEW s \in VolumeServer, AppendFstab(s) PROVE MInv'
<1>1. /\ pc[s] = "fstab" /\ pc' = [pc EXCEPT ![s] = "do"]
      /\ fstab' = fstab \union {Line(current[s])}
      /\ UNCHANGED <<partitioned, fs, mounted, data, script, servers, format, mount, used, current,
                     failures, runs>>
  BY DEF AppendFstab, Goto, local
<1> USE DEF MInv
<1>2. current[s] \in Disk \X Dir
  BY <1>1 DEF TurnTaken, Turn
<1>3. pc \in [VolumeServer -> Where] /\ s \in servers
  BY <1>1 DEF TypeOK, Listed
<1>4. pc'[s] = "do" /\ \A t \in VolumeServer \ {s} : pc'[t] = pc[t]
  BY <1>1, <1>3
<1>5. TypeOK'
  <2>1. pc' \in [VolumeServer -> Where]
    BY <1>1, <1>3 DEF Where
  <2>2. Line(current[s]) \in Disk \X Dir \X Type
    BY <1>2 DEF Line, Type
  <2> QED BY <1>1, <2>1, <2>2 DEF TypeOK
<1>6. Listed' /\ TurnTaken'
  BY <1>1, <1>2, <1>3, <1>4 DEF Listed, TurnTaken, Turn
<1>7. Accounted'
  <2>1. \A e \in Disk : (HasPartitions(e) <=> HasPartitions(e)') /\ (IsMounted(e) <=> IsMounted(e)')
    BY <1>1 DEF HasPartitions, IsMounted
  <2> QED BY <1>1, <1>4, <2>1 DEF Accounted, Turn
<1>8. FstabAhead'
  <2> SUFFICES ASSUME runs = 1, \A t \in VolumeServer : pc'[t] # "failed", NEW l \in fstab'
               PROVE  \/ <<l[1], l[2]>> \in mounted
                      \/ \E t \in VolumeServer : pc'[t] = "do" /\ l = Line(current[t])
    BY <1>1 DEF FstabAhead, Line
  <2>1. CASE l = Line(current[s])
    BY <1>4, <2>1
  <2>2. CASE l # Line(current[s])
    <3>1. l \in fstab /\ \A t \in VolumeServer : pc[t] # "failed"
      BY <1>1, <1>4, <2>2
    <3>2. \/ <<l[1], l[2]>> \in mounted
          \/ \E t \in VolumeServer : pc[t] = "do" /\ l = Line(current[t])
      BY <3>1 DEF FstabAhead
    <3> QED BY <1>1, <1>4, <3>2
  <2> QED BY <2>1, <2>2
<1>9. Sole'
  <2> SUFFICES ASSUME NEW t \in VolumeServer, servers = {t} PROVE Injective' /\ Believes(t)'
    BY <1>1 DEF Sole
  <2>1. t = s
    BY <1>1, OnlyOne
  <2>2. Injective /\ Believes(s)
    BY <1>1, <2>1 DEF Sole
  <2>3. Believes(s)'
    BY <1>1, <1>4, <2>2 DEF Believes, Turn, IsMounted
  <2> QED BY <1>1, <2>1, <2>2, <2>3 DEF Injective
<1> QED BY <1>5, <1>6, <1>7, <1>8, <1>9

LEMMA MountKeepsM == ASSUME MInv, NEW s \in VolumeServer, Mount(s) PROVE MInv'
<1>1. /\ pc[s] = "do"
      /\ UNCHANGED <<partitioned, fs, fstab, script, servers, format, mount, used, current,
                     failures, runs>>
  BY DEF Mount, local
<1>2. CASE ~ (Mountable(current[s][1]) /\ current[s] \notin mounted)
  <2>1. pc' = [pc EXCEPT ![s] = "failed"] /\ UNCHANGED <<mounted, data>>
    BY <1>2 DEF Mount, Goto
  <2>2. failures' \in 0..MaxFailures
    BY <1>1 DEF MInv, TypeOK
  <2> QED BY <1>1, <2>1, <2>2, MoveOnM DEF Where, host, local
<1>3. CASE Mountable(current[s][1]) /\ current[s] \notin mounted
  <2>1. /\ mounted' = mounted \union {current[s]}
        /\ data' = data \union {current[s][1]}
        /\ pc' = [pc EXCEPT ![s] = "mount"]
    BY <1>3 DEF Mount, Goto
  <2> USE DEF MInv
  <2>2. PICK d \in Disk, n \in Dir : current[s] = <<d, n>>
    BY <1>1 DEF TurnTaken, Turn
  <2>3. pc \in [VolumeServer -> Where] /\ s \in servers
    BY <1>1 DEF TypeOK, Listed
  <2>4. pc'[s] = "mount" /\ \A t \in VolumeServer \ {s} : pc'[t] = pc[t]
    BY <2>1, <2>3
  <2>5. TypeOK'
    <3>1. pc' \in [VolumeServer -> Where]
      BY <2>1, <2>3 DEF Where
    <3> QED BY <1>1, <2>1, <2>2, <3>1 DEF TypeOK
  <2>6. Listed' /\ TurnTaken'
    BY <1>1, <2>3, <2>4 DEF Listed, TurnTaken, Turn
  <2>7. Accounted'
    <3>1. \A e \in Disk : /\ HasPartitions(e) <=> HasPartitions(e)'
                          /\ IsMounted(e) => IsMounted(e)'
      BY <1>1, <2>1 DEF HasPartitions, IsMounted
    <3>2. IsMounted(d)'
      <4>1. <<d, n>> \in mounted' /\ <<d, n>>[1] = d
        BY <2>1, <2>2
      <4> QED BY <4>1 DEF IsMounted
    <3> QED BY <1>1, <2>2, <2>4, <3>1, <3>2 DEF Accounted, Turn
  <2>8. FstabAhead'
    <3> SUFFICES ASSUME runs = 1, \A t \in VolumeServer : pc'[t] # "failed", NEW l \in fstab
                 PROVE  \/ <<l[1], l[2]>> \in mounted'
                        \/ \E t \in VolumeServer : pc'[t] = "do" /\ l = Line(current[t])
      BY <1>1 DEF FstabAhead, Line
    <3>1. \A t \in VolumeServer : pc[t] # "failed"
      BY <1>1, <2>4
    <3>2. \/ <<l[1], l[2]>> \in mounted
          \/ \E t \in VolumeServer : pc[t] = "do" /\ l = Line(current[t])
      BY <3>1 DEF FstabAhead
    <3>3. l = Line(current[s]) => <<l[1], l[2]>> = current[s]
      BY <2>2 DEF Line
    <3> QED BY <2>1, <2>4, <3>2, <3>3
  <2>9. Sole'
    <3> SUFFICES ASSUME NEW t \in VolumeServer, servers = {t} PROVE Injective' /\ Believes(t)'
      BY <1>1 DEF Sole
    <3>1. t = s
      BY <1>1, OnlyOne
    <3>2. Injective /\ Believes(s)
      BY <1>1, <3>1 DEF Sole
    <3>3. ~ IsMounted(d) /\ d \notin mount[s] /\ n \in used[s] /\ \A x \in mounted : x[2] # n
      BY <1>1, <2>2, <3>2 DEF Believes, Turn
    <3>4. Injective'
      BY <2>1, <2>2, <3>2, <3>3 DEF Injective, IsMounted
    <3>5. Believes(s)'
      BY <1>1, <2>1, <2>2, <2>4, <3>2, <3>3 DEF Believes, Turn, IsMounted
    <3> QED BY <3>1, <3>4, <3>5
  <2> QED BY <2>5, <2>6, <2>7, <2>8, <2>9
<1> QED BY <1>2, <1>3

LEMMA DeployKeepsM == ASSUME MInv, Deploy PROVE MInv'
<1>1. /\ \A s \in servers : pc[s] \in {"ok", "failed"}
      /\ runs < MaxRuns /\ runs' = runs + 1
      /\ pc' = [s \in VolumeServer |-> "idle"]
      /\ UNCHANGED <<partitioned, fs, mounted, fstab, data, script, servers,
                     format, mount, used, current, failures>>
  BY DEF Deploy, Ended, host, local
<1> USE DEF MInv
<1>2. runs \in 1..MaxRuns
  BY DEF TypeOK
<1>3. runs' \in 1..MaxRuns /\ runs' # 1
  BY <1>1, <1>2, DiskBounds
<1>4. TypeOK'
  <2>1. pc' \in [VolumeServer -> Where]
    BY <1>1 DEF Where
  <2> QED BY <1>1, <1>3, <2>1 DEF TypeOK
<1>5. Listed' /\ TurnTaken' /\ Accounted' /\ FstabAhead'
  BY <1>1, <1>3 DEF Listed, TurnTaken, Turn, Accounted, FstabAhead
<1>6. Sole'
  BY <1>1 DEF Sole, Injective
<1> QED BY <1>4, <1>5, <1>6

LEMMA MInvNext == MInv /\ [Next]_vars => MInv'
<1> SUFFICES ASSUME MInv, [Next]_vars PROVE MInv'
  OBVIOUS
<1>1. failures \in 0..MaxFailures
  BY DEF MInv, TypeOK
<1>2. ASSUME NEW s \in VolumeServer, ListDisks(s) PROVE MInv'
  BY <1>2, ListDisksKeepsM
<1>3. ASSUME NEW s \in VolumeServer, NEW d \in Disk, Mkfs(s, d) PROVE MInv'
  BY <1>3, MkfsKeepsM
<1>4. ASSUME NEW s \in VolumeServer, NEW d \in Disk, ChooseDir(s, d) PROVE MInv'
  BY <1>4, ChooseDirKeepsM
<1>5. ASSUME NEW s \in VolumeServer, LeaveFormat(s) PROVE MInv'
  BY <1>1, <1>5, MoveOnM DEF LeaveFormat, Goto, Where
<1>6. ASSUME NEW s \in VolumeServer, Finish(s) PROVE MInv'
  BY <1>1, <1>6, MoveOnM DEF Finish, Goto, Where
<1>7. ASSUME NEW s \in VolumeServer, Fail(s) PROVE MInv'
  <2>1. failures' \in 0..MaxFailures
    BY <1>1, <1>7, DiskBounds DEF Fail
  <2> QED BY <1>7, <2>1, MoveOnM DEF Fail, Goto, Where
<1>8. ASSUME NEW s \in VolumeServer, Upload(s) PROVE MInv'
  BY <1>8, UploadKeepsM
<1>9. ASSUME NEW s \in VolumeServer, Execute(s) PROVE MInv'
  BY <1>9, ExecuteKeepsM
<1>10. ASSUME NEW s \in VolumeServer, AppendFstab(s) PROVE MInv'
  BY <1>10, AppendFstabKeepsM
<1>11. ASSUME NEW s \in VolumeServer, Mount(s) PROVE MInv'
  BY <1>11, MountKeepsM
<1>12. CASE Deploy
  BY <1>12, DeployKeepsM
<1>13. CASE UNCHANGED vars
  <2>1. UNCHANGED <<partitioned, fs, mounted, fstab, data, script, servers, pc,
                    format, mount, used, current, failures, runs>>
    BY <1>13 DEF vars, host, local
  <2>2. TypeOK'
    BY <2>1 DEF MInv, TypeOK
  <2>3. Listed' /\ TurnTaken' /\ FstabAhead'
    BY <2>1 DEF MInv, Listed, TurnTaken, FstabAhead
  <2>4. Accounted'
    BY <2>1 DEF MInv, Accounted, HasPartitions, IsMounted
  <2>5. Sole'
    BY <2>1 DEF MInv, Sole, Injective, Believes, IsMounted
  <2> QED BY <2>2, <2>3, <2>4, <2>5 DEF MInv
<1> QED
  BY <1>2, <1>3, <1>4, <1>5, <1>6, <1>7, <1>8, <1>9, <1>10, <1>11, <1>12, <1>13
     DEF Next, Session, Content

LEMMA MInvAlways == Spec => []MInv
BY MInvInit, MInvNext, PTL DEF Spec

-----------------------------------------------------------------------------
(* Every variable keeps its type: in particular the directory a session    *)
(* mounts a disk on is one of /data1 to the last, whichever session's      *)
(* script it executes.                                                     *)
THEOREM DiskTypes == Spec => []TypeOK
<1>1. MInv => TypeOK
  BY DEF MInv
<1> QED BY <1>1, MInvAlways, PTL

(* With one volume server on the host no disk is mounted twice and no      *)
(* directory is given to two disks, after any failures and repetitions:    *)
(* the listing names every directory in use, and a choice is remembered.   *)
THEOREM DisksDisjoint == Spec => []MountsAreDisjoint
<1>1. MInv => MountsAreDisjoint
  <2> SUFFICES ASSUME MInv, Cardinality(servers) = 1 PROVE Injective
    BY DEF MountsAreDisjoint, Injective
  <2>1. IsFiniteSet(servers)
    BY DiskAssumption, FS_Subset DEF MInv, TypeOK
  <2>2. PICK s : servers = {s}
    BY <2>1, FS_Singleton
  <2>3. s \in VolumeServer
    BY <2>2 DEF MInv, TypeOK
  <2> QED BY <2>2, <2>3 DEF MInv, Sole
<1> QED BY <1>1, MInvAlways, PTL

(* When every session of a run succeeded, every disk that does not count   *)
(* as partitioned is mounted: a disk listed as unused leaves the session's *)
(* map only by being mounted, also when several sessions race for it.      *)
THEOREM AllDisksMounted == Spec => []EveryDiskMounted
<1>1. MInv => EveryDiskMounted
  <2> SUFFICES ASSUME MInv, \A s \in servers : pc[s] = "ok", NEW d \in Disk
               PROVE  HasPartitions(d) \/ IsMounted(d)
    BY DEF EveryDiskMounted
  <2>1. PICK s \in servers : TRUE
    BY DEF MInv, Listed
  <2>2. s \in VolumeServer /\ pc[s] = "ok" /\ mount[s] = {}
    BY <2>1 DEF MInv, TypeOK, Accounted
  <2> QED BY <2>2 DEF MInv, Accounted, Turn
<1> QED BY <1>1, MInvAlways, PTL

(* A first deployment all of whose sessions succeed leaves no line but     *)
(* those of the mounts, as each line written ahead was followed by its     *)
(* mount; and the next boot mounts the same, but for exactly the disks     *)
(* whose only line has the wrong type.                                     *)
THEOREM FstabIsExact == Spec => []RebootKeepsMounts
<1>1. MInv /\ DInv => RebootKeepsMounts
  <2> SUFFICES ASSUME MInv, DInv, runs = 1, \A s \in servers : pc[s] = "ok"
               PROVE  /\ \A l \in fstab : <<l[1], l[2]>> \in mounted
                      /\ \A x \in mounted : AtBoot(x) <=> ~ WrongType(x)
    BY DEF RebootKeepsMounts
  <2>1. \A s \in VolumeServer : pc[s] \in {"idle", "ok"}
    BY DEF MInv, Listed
  <2>2. \A l \in fstab : <<l[1], l[2]>> \in mounted
    BY <2>1 DEF MInv, FstabAhead
  <2>3. ASSUME NEW x \in mounted
        PROVE  AtBoot(x) <=> ~ WrongType(x)
    <3>1. AtBoot(x) \/ fs[x[1]] = "other"
      BY DEF DInv, MountsAreInFstab
    <3>2. "own" \in Type
      BY DEF Type
    <3> QED BY <3>1, <3>2 DEF AtBoot, WrongType
  <2> QED BY <2>2, <2>3
<1> QED BY <1>1, MInvAlways, DInvAlways, PTL

=============================================================================
