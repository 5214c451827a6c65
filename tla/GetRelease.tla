----------------------------- MODULE GetRelease -----------------------------
(***************************************************************************)
(* `get`: look up a release on GitHub, download its checksum and its       *)
(* archive, and put the executable of the archive in the place of          *)
(* /usr/local/bin/weed, by way of a temporary file of the same directory.  *)
(* Several runs of the command may overlap, break off, and be repeated.    *)
(*                                                                         *)
(* GitHub is not in the repository: it shows the latest releases only, a   *)
(* page of them, releases are published at any time, and the files of a    *)
(* release may be uploaded anew.  A download may be damaged on its way.    *)
(* os.Rename is atomic; the temporary file has the mode 0600.              *)
(***************************************************************************)
EXTENDS Naturals, Sequences, SequencesExt

CONSTANTS
  Run,          \* those who run the command, each one time after the other
  Release,      \* the releases that are ever published
  Upload,       \* the files uploaded for a release, one after the other
  Damaged,      \* a file no checksum is published for
  PageSize,     \* the number of releases GitHub shows: 30
  None,
  MaxFailures   \* bound: operations that fail and processes that are killed

ASSUME GetAssumption == Damaged \notin Upload /\ None \notin Release \union Upload
ASSUME GetBounds == PageSize \in Nat \ {0} /\ MaxFailures \in Nat

VARIABLES
  releases,  \* the published releases, the latest first
  target,    \* the file weed: release, content and mode
  pc,        \* pc[r]: where run r is
  want,      \* want[r]: `version`, the release it is to install
  sum,       \* sum[r]: the upload whose checksum it has
  data,      \* data[r]: the archive it has
  tmp,       \* tmp[r]: its temporary file
  mode,      \* mode[r]: the mode the executable shall get
  raced,     \* history: runs overlapped, or one broke off before its chmod
  failures

run  == <<want, sum, data, tmp, mode>>
vars == <<releases, target, pc, run, raced, failures>>

Absent == [of |-> None, data |-> None, mode |-> "none"]
File   == [of : Release, data : Upload \union {Damaged},
           mode : {"executable", "private"}]
Place  == {"idle", "latest", "lookup", "sum", "data", "check", "create", "copy", "stat",
           "rename", "chmod", "ok", "failed", "killed"}

Ended(r) == pc[r] \in {"idle", "ok", "failed", "killed"}

(* What GitHub shows. *)
Page == {releases[k] : k \in {i \in DOMAIN releases : i <= PageSize}}

Init ==
  /\ releases \in {s \in SeqOf(Release, 2) : IsInjective(s)}
  /\ \/ target = Absent
     \/ \E v \in Release, u \in Upload :
          target = [of |-> v, data |-> u, mode |-> "executable"]
  /\ pc   = [r \in Run |-> "idle"]
  /\ want = [r \in Run |-> None]
  /\ sum  = [r \in Run |-> None]
  /\ data = [r \in Run |-> None]
  /\ tmp  = [r \in Run |-> "none"]
  /\ mode = [r \in Run |-> "none"]
  /\ raced = FALSE
  /\ failures = 0

Goto(r, p) == pc' = [pc EXCEPT ![r] = p]

-----------------------------------------------------------------------------
Publish ==
  /\ \E v \in Release \ ToSet(releases) : releases' = <<v>> \o releases
  /\ UNCHANGED <<target, pc, run, raced, failures>>

(* The command is run, with a version or for the latest one. *)
Begin(r) ==
  /\ Ended(r)
  /\ \E v \in Release \union {None} :
       /\ want' = [want EXCEPT ![r] = v]
       /\ Goto(r, IF v = None THEN "latest" ELSE "lookup")
  /\ sum' = [sum EXCEPT ![r] = None] /\ data' = [data EXCEPT ![r] = None]
  /\ tmp' = [tmp EXCEPT ![r] = "none"] /\ mode' = [mode EXCEPT ![r] = "none"]
  /\ raced' = (raced \/ \E q \in Run \ {r} : ~ Ended(q))
  /\ UNCHANGED <<releases, target, failures>>

(* releaseList[0]: the program panics when there is none. *)
LookupLatest(r) ==
  /\ pc[r] = "latest"
  /\ IF releases = <<>>
       THEN Goto(r, "killed") /\ UNCHANGED want
       ELSE Goto(r, "lookup") /\ want' = [want EXCEPT ![r] = Head(releases)]
  /\ UNCHANGED <<releases, target, sum, data, tmp, mode, raced, failures>>

(* DownloadRelease looks the version up by its name. *)
Lookup(r) ==
  /\ pc[r] = "lookup"
  /\ Goto(r, IF want[r] \in Page THEN "sum" ELSE "failed")
  /\ UNCHANGED <<releases, target, run, raced, failures>>

FetchSum(r) ==
  /\ pc[r] = "sum"
  /\ \E u \in Upload : sum' = [sum EXCEPT ![r] = u]
  /\ Goto(r, "data")
  /\ UNCHANGED <<releases, target, want, data, tmp, mode, raced, failures>>

FetchData(r) ==
  /\ pc[r] = "data"
  /\ \E u \in Upload \union {Damaged} : data' = [data EXCEPT ![r] = u]
  /\ Goto(r, "check")
  /\ UNCHANGED <<releases, target, want, sum, tmp, mode, raced, failures>>

(* The checksums are compared. *)
CheckSum(r) ==
  /\ pc[r] = "check"
  /\ Goto(r, IF data[r] = sum[r] THEN "create" ELSE "failed")
  /\ UNCHANGED <<releases, target, run, raced, failures>>

(* extractToFile: the temporary file, and the copy, which removes it when  *)
(* it fails.                                                               *)
CreateTemp(r) ==
  /\ pc[r] = "create"
  /\ tmp' = [tmp EXCEPT ![r] = "half"]
  /\ Goto(r, "copy")
  /\ UNCHANGED <<releases, target, want, sum, data, mode, raced, failures>>

(* Mutant: the error of the copy is not looked at. *)
CopyUnchecked(r) ==
  /\ pc[r] = "copy"
  /\ \/ tmp' = [tmp EXCEPT ![r] = "whole"] /\ UNCHANGED failures
     \/ failures < MaxFailures /\ failures' = failures + 1 /\ UNCHANGED tmp
  /\ Goto(r, "stat")
  /\ UNCHANGED <<releases, target, want, sum, data, mode, raced>>

Copy(r) ==
  /\ pc[r] = "copy"
  /\ \/ /\ tmp' = [tmp EXCEPT ![r] = "whole"]
        /\ Goto(r, "stat")
        /\ UNCHANGED failures
     \/ /\ failures < MaxFailures /\ failures' = failures + 1
        /\ tmp' = [tmp EXCEPT ![r] = "none"]
        /\ Goto(r, "failed")
  /\ UNCHANGED <<releases, target, want, sum, data, mode, raced>>

(* Mutants: a target that is not there is not thought of; the mode is that *)
(* of the temporary file, as if asked for after the rename.                *)
StatMissing(r) ==
  /\ pc[r] = "stat"
  /\ mode' = [mode EXCEPT ![r] = target.mode]
  /\ Goto(r, "rename")
  /\ UNCHANGED <<releases, target, want, sum, data, tmp, raced, failures>>

StatTemp(r) ==
  /\ pc[r] = "stat"
  /\ mode' = [mode EXCEPT ![r] = "private"]
  /\ Goto(r, "rename")
  /\ UNCHANGED <<releases, target, want, sum, data, tmp, raced, failures>>

(* The mode of the file that is there, or 0755. *)
Stat(r) ==
  /\ pc[r] = "stat"
  /\ mode' = [mode EXCEPT ![r] = IF target = Absent THEN "executable" ELSE target.mode]
  /\ Goto(r, "rename")
  /\ UNCHANGED <<releases, target, want, sum, data, tmp, raced, failures>>

Rename(r) ==
  /\ pc[r] = "rename"
  /\ target' = [of |-> want[r], data |-> IF tmp[r] = "whole" THEN data[r] ELSE Damaged,
                mode |-> "private"]
  /\ tmp' = [tmp EXCEPT ![r] = "none"]
  /\ Goto(r, "chmod")
  /\ UNCHANGED <<releases, want, sum, data, mode, raced, failures>>

Chmod(r) ==
  /\ pc[r] = "chmod"
  /\ target' = [target EXCEPT !.mode = mode[r]]
  /\ Goto(r, "ok")
  /\ UNCHANGED <<releases, run, raced, failures>>

(* Any other operation fails, which leaves a temporary file in place, or   *)
(* the process is killed.  A file left is not used again.                  *)
BreakOff(r) ==
  /\ ~ Ended(r) /\ failures < MaxFailures
  /\ failures' = failures + 1
  /\ \/ pc[r] # "copy" /\ Goto(r, "failed")
     \/ Goto(r, "killed")
  /\ raced' = (raced \/ pc[r] = "chmod")
  /\ UNCHANGED <<releases, target, run>>

Get(r) ==
  \/ LookupLatest(r) \/ Lookup(r) \/ FetchSum(r) \/ FetchData(r) \/ CheckSum(r)
  \/ CreateTemp(r) \/ Copy(r) \/ Stat(r) \/ Rename(r) \/ Chmod(r)

Next == Publish \/ \E r \in Run : Begin(r) \/ Get(r) \/ BreakOff(r)

Spec == Init /\ [][Next]_vars

-----------------------------------------------------------------------------
TypeOK ==
  /\ ToSet(releases) \subseteq Release /\ IsInjective(releases)
  /\ target \in File \union {Absent}
  /\ pc \in [Run -> Place]
  /\ want \in [Run -> Release \union {None}]
  /\ sum \in [Run -> Upload \union {None}]
  /\ data \in [Run -> Upload \union {Damaged, None}]
  /\ tmp \in [Run -> {"none", "half", "whole"}]
  /\ mode \in [Run -> {"none", "executable", "private"}]
  /\ raced \in BOOLEAN
  /\ failures \in 0..MaxFailures

(* "Rename the temp file to the final location atomically": whenever runs  *)
(* break off and however they overlap, the file weed is a whole executable *)
(* whose checksum matched, or the one that was there.                      *)
TargetIsWhole == target = Absent \/ target.data \in Upload

(* A run that succeeds leaves an executable that can be executed, unless   *)
(* runs overlap or one broke off between the rename and the chmod: the     *)
(* mode of the file before is looked up in time.                           *)
StaysExecutable ==
  target # Absent /\ ~ raced /\ (\A r \in Run : pc[r] # "chmod")
    => target.mode = "executable"

=============================================================================
