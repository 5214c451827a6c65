---------------------------- MODULE VolumeDisks -----------------------------
(***************************************************************************)
(* `deploy --mountDisks` on ONE host: before it installs a volume server,  *)
(* DeployVolumeServer lists the block devices, makes a file system on the  *)
(* unused disks that have none, and mounts every unused disk on a          *)
(* directory /dataN with a script of its own.  The sessions of several     *)
(* volume servers of the host do this at the same time, each from the      *)
(* listing it took at its start, and share the script's path, which is     *)
(* named after the disk only.                                              *)
(*                                                                         *)
(* lsblk, mkfs.ext4 and mount are not in the repository.  mkfs.ext4 opens  *)
(* the disk exclusively and refuses one that is mounted; without a         *)
(* terminal it overwrites a file system unasked.  mount without -t finds   *)
(* the type of the file system itself; it takes a disk that is mounted     *)
(* elsewhere, and a directory something else is mounted on, but not the    *)
(* same pair twice.  A boot mounts a line of fstab by the type given in it.*)
(* lsblk shows one mount point of a device.                                *)
(***************************************************************************)
EXTENDS Naturals, FiniteSets, FiniteSetsExt

CONSTANTS
  Disk,         \* the disks lsblk lists with a path under /dev/sd or /dev/nvme
  Prefix,       \* <<d, e>>: the path of d is a proper prefix of that of e
  VolumeServer, \* the volume servers of the host
  LastMount,    \* the number of the last directory tried: 99
  MaxRuns,      \* bound: runs of the command
  MaxFailures   \* bound: commands and connections that fail

ASSUME DiskAssumption ==
  IsFiniteSet(Disk) /\ IsFiniteSet(VolumeServer) /\ Prefix \subseteq Disk \X Disk
ASSUME DiskBounds == LastMount \in Nat /\ MaxRuns \in Nat \ {0} /\ MaxFailures \in Nat

VARIABLES
  partitioned, \* the disks with partitions
  fs,          \* fs[d]: the file system lsblk finds on the disk as a whole
  mounted,     \* the mounts <<d, n>> of d, or of a partition of it, on /dataN
  fstab,       \* the lines of /etc/fstab about such mounts, with their type
  data,        \* the disks someone's data may be on
  script,      \* script[d]: the directory in /tmp/mount_<d>.sh, 0: no file
  servers,     \* the volume servers the cluster file has on this host
  pc,          \* pc[s]: where the session of s is
  format,      \* format[s]: the disks s still has to make a file system on
  mount,       \* mount[s]: the disks s still has to mount
  used,        \* used[s]: `mountpoints`, the directories s takes for used
  current,     \* current[s]: the disk and directory of the turn s is in
  failures, runs

host  == <<partitioned, fs, mounted, fstab, data, script>>
local == <<format, mount, used, current>>
vars  == <<host, servers, pc, local, failures, runs>>

Dir    == 1..LastMount
Fs     == {"none", "ext4", "other", "member"}  \* "other": xfs, btrfs, ...; "member": of
                                               \* a RAID or a volume group, or swap
Type   == {"ext4", "own"}  \* "own": that of the file system, in the lines there were
Where  == {"idle", "format", "mount", "upload", "execute", "fstab", "do", "ok", "failed"}
NoTurn == <<>>

IsMounted(d)   == \E x \in mounted : x[1] = d
Mountable(d)   == fs[d] \in {"ext4", "other"}
Ended(s)       == pc[s] \in {"ok", "failed"}

(* A host as lsblk may find it: a partitioned disk has no file system of   *)
(* its own, what is mounted has one, and is in fstab with the right type.  *)
Init ==
  /\ partitioned \in SUBSET Disk
  /\ fs \in {f \in [Disk -> Fs] : \A d \in partitioned : f[d] = "none"}
  /\ \E D \in SUBSET {d \in Disk : d \in partitioned \/ Mountable(d)} :
       \E at \in [D -> Dir] :
         /\ \A d, e \in D : at[d] = at[e] => d = e
         /\ mounted = {<<d, at[d]>> : d \in D}
  /\ fstab = {<<x[1], x[2], "own">> : x \in mounted}
  /\ data = {d \in Disk : d \in partitioned \/ fs[d] # "none"}
  /\ script = [d \in Disk |-> 0]
  /\ servers \in (SUBSET VolumeServer) \ {{}}
  /\ pc = [s \in VolumeServer |-> "idle"]
  /\ format = [s \in VolumeServer |-> {}]
  /\ mount = [s \in VolumeServer |-> {}]
  /\ used = [s \in VolumeServer |-> {}]
  /\ current = [s \in VolumeServer |-> NoTurn]
  /\ failures = 0
  /\ runs = 1

Goto(s, w) == pc' = [pc EXCEPT ![s] = w]

-----------------------------------------------------------------------------
(* Mutant: the partitions are not looked at. *)
HasNoPartitions(d) == FALSE

(* The disks whose path is a prefix of that of a partition. *)
HasPartitions(d) ==
  \E e \in partitioned : e = d \/ <<d, e>> \in Prefix

(* What lsblk may show: one mount of each mounted disk. *)
Shown ==
  {S \in SUBSET mounted :
     \A d \in Disk : IsMounted(d) => Cardinality({x \in S : x[1] = d}) = 1}

(* ListBlockDevices, and the loops that select the disks. *)
ListDisks(s) ==
  LET free == {d \in Disk : ~ HasPartitions(d) /\ ~ IsMounted(d)} IN
  /\ s \in servers /\ pc[s] = "idle"
  /\ \E S \in Shown : used' = [used EXCEPT ![s] = {x[2] : x \in S}]
  /\ mount' = [mount EXCEPT ![s] = free]
  /\ format' = [format EXCEPT ![s] = {d \in free : fs[d] = "none"}]
  /\ Goto(s, "format")
  /\ UNCHANGED <<host, servers, current, failures, runs>>

(* mkfs.ext4, in the order of a range over a map. *)
Mkfs(s, d) ==
  /\ pc[s] = "format" /\ d \in format[s]
  /\ IF IsMounted(d)
       THEN Goto(s, "failed") /\ UNCHANGED <<fs, format>>
       ELSE /\ fs' = [fs EXCEPT ![d] = "ext4"]
            /\ format' = [format EXCEPT ![s] = @ \ {d}]
            /\ UNCHANGED pc
  /\ UNCHANGED <<partitioned, mounted, fstab, data, script>>
  /\ UNCHANGED <<servers, mount, used, current, failures, runs>>

LeaveFormat(s) ==
  /\ pc[s] = "format" /\ format[s] = {}
  /\ Goto(s, "mount")
  /\ UNCHANGED <<host, servers, local, failures, runs>>

(* Mutants: the directory chosen is not added to `mountpoints`; a disk for *)
(* which there is no directory is passed over.                             *)
ChooseDirOnly(s, d) ==
  /\ pc[s] = "mount" /\ d \in mount[s]
  /\ LET unused == Dir \ used[s] IN
     IF unused = {}
       THEN Goto(s, "failed") /\ UNCHANGED <<mount, used, current>>
       ELSE /\ current' = [current EXCEPT ![s] = <<d, Min(unused)>>]
            /\ mount' = [mount EXCEPT ![s] = @ \ {d}]
            /\ Goto(s, "upload")
            /\ UNCHANGED used
  /\ UNCHANGED <<host, servers, format, failures, runs>>

ChooseDirIfAny(s, d) ==
  /\ pc[s] = "mount" /\ d \in mount[s]
  /\ mount' = [mount EXCEPT ![s] = @ \ {d}]
  /\ LET unused == Dir \ used[s] IN
     IF unused = {}
       THEN UNCHANGED <<pc, used, current>>
       ELSE /\ used' = [used EXCEPT ![s] = @ \union {Min(unused)}]
            /\ current' = [current EXCEPT ![s] = <<d, Min(unused)>>]
            /\ Goto(s, "upload")
  /\ UNCHANGED <<host, servers, format, failures, runs>>

(* The first of /data1 to /data99 that is not used; there may be none. *)
ChooseDir(s, d) ==
  /\ pc[s] = "mount" /\ d \in mount[s]
  /\ LET unused == Dir \ used[s] IN
     IF unused = {}
       THEN Goto(s, "failed") /\ UNCHANGED <<mount, used, current>>
       ELSE /\ used' = [used EXCEPT ![s] = @ \union {Min(unused)}]
            /\ current' = [current EXCEPT ![s] = <<d, Min(unused)>>]
            /\ mount' = [mount EXCEPT ![s] = @ \ {d}]
            /\ Goto(s, "upload")
  /\ UNCHANGED <<host, servers, format, failures, runs>>

(* Mutant: an error of the upload is not looked at. *)
UploadUnchecked(s) ==
  /\ pc[s] = "upload"
  /\ Goto(s, "execute")
  /\ UNCHANGED <<host, servers, local, failures, runs>>

Upload(s) ==
  /\ pc[s] = "upload"
  /\ script' = [script EXCEPT ![current[s][1]] = current[s][2]]
  /\ Goto(s, "execute")
  /\ UNCHANGED <<partitioned, fs, mounted, fstab, data>>
  /\ UNCHANGED <<servers, local, failures, runs>>

(* `cat` of the script, which may be that of another session by now. *)
Execute(s) ==
  /\ pc[s] = "execute"
  /\ current' = [current EXCEPT ![s] = <<@[1], script[@[1]]>>]
  /\ Goto(s, "fstab")
  /\ UNCHANGED <<host, servers, format, mount, used, failures, runs>>

(* The line prepare_disk.sh writes: ext4, whatever the disk holds. *)
Line(x) == <<x[1], x[2], "ext4">>

(* Mutant: no second line for a disk that has one. *)
AppendFstabOnce(s) ==
  /\ pc[s] = "fstab"
  /\ fstab' = IF \E l \in fstab : l[1] = current[s][1]
                THEN fstab ELSE fstab \union {Line(current[s])}
  /\ Goto(s, "do")
  /\ UNCHANGED <<partitioned, fs, mounted, data, script>>
  /\ UNCHANGED <<servers, local, failures, runs>>

(* prepare_disk.sh: the line in fstab, and then the mount. *)
AppendFstab(s) ==
  /\ pc[s] = "fstab"
  /\ fstab' = fstab \union {Line(current[s])}
  /\ Goto(s, "do")
  /\ UNCHANGED <<partitioned, fs, mounted, data, script>>
  /\ UNCHANGED <<servers, local, failures, runs>>

(* Mutant: without `set -e`, and with the `return 0` that is there. *)
MountUnchecked(s) ==
  /\ pc[s] = "do"
  /\ mounted' = mounted \union {x \in {current[s]} : Mountable(x[1])}
  /\ data' = data \union {d \in {current[s][1]} : Mountable(d)}
  /\ Goto(s, "mount")
  /\ UNCHANGED <<partitioned, fs, fstab, script>>
  /\ UNCHANGED <<servers, local, failures, runs>>

Mount(s) ==
  /\ pc[s] = "do"
  /\ IF Mountable(current[s][1]) /\ current[s] \notin mounted
       THEN /\ mounted' = mounted \union {current[s]}
            /\ data' = data \union {current[s][1]}
            /\ Goto(s, "mount")
       ELSE Goto(s, "failed") /\ UNCHANGED <<mounted, data>>
  /\ UNCHANGED <<partitioned, fs, fstab, script>>
  /\ UNCHANGED <<servers, local, failures, runs>>

(* On to deployComponentInstance. *)
Finish(s) ==
  /\ pc[s] = "mount" /\ mount[s] = {}
  /\ Goto(s, "ok")
  /\ UNCHANGED <<host, servers, local, failures, runs>>

(* A command or the connection fails. *)
Fail(s) ==
  /\ s \in servers /\ ~ Ended(s) /\ failures < MaxFailures
  /\ failures' = failures + 1
  /\ Goto(s, "failed")
  /\ UNCHANGED <<host, servers, local, runs>>

(* The operator runs the command again. *)
Deploy ==
  /\ \A s \in servers : Ended(s)
  /\ runs < MaxRuns
  /\ runs' = runs + 1
  /\ pc' = [s \in VolumeServer |-> "idle"]
  /\ UNCHANGED <<host, servers, local, failures>>

Content == (\A s \in servers : Ended(s)) /\ UNCHANGED vars

Session(s) ==
  \/ ListDisks(s) \/ LeaveFormat(s) \/ Upload(s) \/ Execute(s)
  \/ AppendFstab(s) \/ Mount(s) \/ Finish(s)
  \/ \E d \in Disk : Mkfs(s, d) \/ ChooseDir(s, d)

Next ==
  \/ \E s \in VolumeServer : Session(s) \/ Fail(s)
  \/ Deploy \/ Content

Spec == Init /\ [][Next]_vars

-----------------------------------------------------------------------------
TypeOK ==
  /\ partitioned \subseteq Disk
  /\ fs \in [Disk -> Fs]
  /\ mounted \subseteq Disk \X Dir
  /\ fstab \subseteq Disk \X Dir \X Type
  /\ data \subseteq Disk
  /\ script \in [Disk -> 0..LastMount]
  /\ servers \subseteq VolumeServer
  /\ pc \in [VolumeServer -> Where]
  /\ format \in [VolumeServer -> SUBSET Disk]
  /\ mount \in [VolumeServer -> SUBSET Disk]
  /\ used \in [VolumeServer -> SUBSET Dir]
  /\ current \in [VolumeServer -> {NoTurn} \union (Disk \X Dir)]
  /\ failures \in 0..MaxFailures /\ runs \in 1..MaxRuns

(* No disk somebody's data may be on is ever formatted: neither one that   *)
(* had partitions or a file system before, nor one another session mounted *)
(* since the listing mkfs.ext4 is run from.                                *)
NeverFormatsData ==
  [][\A s \in VolumeServer, d \in Disk :
       Mkfs(s, d) /\ pc' = pc => d \notin data]_vars

(* The next boot mounts x: there is a line with the type of the disk. *)
AtBoot(x) ==
  \E t \in Type : <<x[1], x[2], t>> \in fstab /\ (t = "own" \/ fs[x[1]] = "ext4")

(* The only line of x has the wrong type. *)
WrongType(x) == fs[x[1]] = "other" /\ <<x[1], x[2], "own">> \notin fstab

(* Every mount has its line in fstab, wherever the session that mounted    *)
(* it, or another one, broke off; and the mount survives a reboot, unless  *)
(* the disk had a file system other than ext4 when it was mounted.         *)
MountsAreInFstab ==
  \A x \in mounted :
    /\ \E t \in Type : <<x[1], x[2], t>> \in fstab
    /\ AtBoot(x) \/ fs[x[1]] = "other"

(* A single volume server per host, however often its deployment fails and *)
(* is repeated, never has a disk mounted twice or two on one directory.    *)
MountsAreDisjoint ==
  Cardinality(servers) = 1 =>
    \A x, y \in mounted : x[1] = y[1] <=> x[2] = y[2]

(* "auto mount disks on volume server if unmounted": after a run without   *)
(* failure every disk is mounted that is not taken for a partitioned one.  *)
(* A disk is when its path is a prefix of that of another disk's partition *)
(* (/dev/sda of /dev/sdaa1): it stays unused, and nothing says so.         *)
EveryDiskMounted ==
  (\A s \in servers : pc[s] = "ok") =>
    \A d \in Disk : HasPartitions(d) \/ IsMounted(d)

(* A first deployment that succeeds leaves no line in fstab but those of   *)
(* what is mounted: a mount that fails is a failure of the deployment,     *)
(* whatever the script does after it.  The next boot mounts the same, but  *)
(* for exactly the disks whose file system, not ext4, was there before:    *)
(* they were mounted by what they hold, and their line says ext4.  (After  *)
(* a failure a line stays, and a repetition may give its directory to      *)
(* another disk: nothing is promised then.)                                *)
RebootKeepsMounts ==
  runs = 1 /\ (\A s \in servers : pc[s] = "ok") =>
    /\ \A l \in fstab : <<l[1], l[2]>> \in mounted
    /\ \A x \in mounted : AtBoot(x) <=> ~ WrongType(x)

(* "format disk if no fstype": no disk is formatted that has a file system.*)
FormatsOnlyBlank ==
  [][\A s \in VolumeServer, d \in Disk :
       Mkfs(s, d) /\ pc' = pc => fs[d] = "none"]_vars

=============================================================================
