# A formal model of seaweed-up

seaweed-up installs SeaweedFS on the hosts a cluster file names, over SSH. The
command-line program keeps no state between runs: what matters is what its runs
leave on the hosts, and in which order. The modules here are written from the
source in `src/`, model-checked with TLC, and partly proved with TLAPS.

## The system

| part | state | operations | talks to |
|---|---|---|---|
| Command: `deploy` (`cmd/deploy.go`, `Manager.prepare`) | the cluster file in memory, changed in place | look up the version, read the file, fill in defaults, ask for the password, deploy | starts the rollout |
| Cluster file: `pkg/cluster/spec` | addresses, ports, options | defaults, masters' addresses, options files, end points of the proxies | read by all commands |
| Rollout: `Manager.DeployCluster` (`manager_deploy.go`) | loop position, wait group, the slice `deployErrors` shared by goroutines | masters in turn; a goroutine per volume and filer server; wait; envoys in turn | opens one session per server |
| SSH sessions: `pkg/operator`, `deployComponentInstance` | connection, method to log in, the operator's terminal, a directory on the host | authenticate, prompt, dial, upload, execute, deferred clean-up | the hosts, the ssh agent |
| Installation: `install.sh` | on the host: the executable `/usr/local/bin/weed` shared by all instances; per instance an options file, a unit, a process | hash, copy options, check version, unpack, write unit, enable, start or restart | run by the sessions of masters, volume servers, filers |
| Envoy: `deploy_envoy_server.go`, `install_envoy.sh` | on the host: the executable shared by its proxies; per proxy a configuration, a unit, a process | hash, copy configuration, fetch, write unit, restart | last phase of the rollout |
| Volume disks: `prepareUnmountedDisks`, `disks.go`, `prepare_disk.sh` | on the host: file systems, mounts, `/etc/fstab`, `/tmp/mount_<disk>.sh`; in the session: the listing | list, mkfs, choose `/dataN`, upload and execute the mount script | run by the sessions of volume servers before the installation |
| Cleaning: `Manager.CleanCluster` (`manager_clean.go`, `reset.go`) | loop position; on the hosts: services and data | stop all, empty all, start all, one session after the other | opens one session per server and step |
| Release download: `get`, `DownloadRelease` (`version.go`) | local executable, temporary file | look up, download, compare md5, extract, rename, chmod | GitHub |
| Uninstalling, TLS, scaffold, version, target, helpers | none of their own | - | - |

What is hard about it, and the property that speaks of it, is listed as
`hazards` in `PROJECT.json`. In short:

- goroutines append to one slice without a lock (`manager_deploy.go:47`), and
  may prompt on one terminal (`operator.go:80`);
- sessions on one host run at the same time and share files: the executable,
  the mount scripts, the disks themselves;
- a decision is taken from what was read at the start of a session (hashes, the
  listing of disks), and others change it meanwhile;
- any session may fail at any point, after its effect or before, hosts reboot,
  and the operator runs the command again;
- the cluster file in memory is changed in place by `deploy`,
  `prepare` and the session of the first proxy, and the
  masters' addresses are computed once;
- nothing has a timeout.

How the modules compose: `DeployCommand` extends `Connect` (what happens inside
the sessions of one phase) and `ClusterFile` (what is sent in them).
`DeployCluster` extends `DeployErrors`, takes a session as its start and its
end, and implements `Rollout`. `InstallHost`, `InstallEnvoy` and `VolumeDisks`
each show one host and what the sessions do there.

## Modules

### DeployErrors, DeployCluster

`DeployErrors` models the one statement `deployErrors = append(deployErrors, ...)`
at the grain of machine words: the loads of pointer, length and capacity in any
order (`Load`), the test for room (`HasRoom`) or `growslice` (`Grow`), and the
stores of capacity, pointer, length and, last, the element. This order is what
the Go compiler emits for an append to a variable. Memory is sequentially
consistent, which is less than a racy Go program may show: a violation found is
real, a property that holds, holds under this assumption. A store outside of an
array, or a nil dereference, ends the behaviour (`fault`).

`DeployCluster` is the rest: the phases (`pc`), the loop variable (`index`), the
sessions (`master`, `server`, `envoy`), the wait group (`wg`) and the result.
One action per step of the program: `BeginMaster`/`EndMaster` are the session of
`DeployMasterServer` and its early return, `Spawn` is one turn of the two `go`
loops, `Wait` is `wg.Wait()` and the look at the slice, `LookupRelease` the
GitHub lookup before the proxies, `Done(g)` the deferred `wg.Done()`.

### Rollout

What `DeployCluster` promises, without its goroutines: which server may be
contacted when, that nobody is contacted twice, that nothing is contacted after
the command has returned, and what it may return. The race is part of the
promise: `Succeed` without everything deployed, and `Crash`, need two failures
of the concurrent phase (`ErrorsClash`). `DeployCluster!Promised` is the
instance, with `outcome` read off `pc`, `result` and `fault`, and the other
variables mapped to themselves; `ImplementsRollout` is its specification.

### ClusterFile, Connect, DeployCommand

`ClusterFile` has no state: a file is a record of four lists of servers, and
`Defaulted`, `Prepared`, `Masters`, `Options`, `WithGrpc` and `Routes` are what
the functions of that meaning compute. Text is left out but for the addresses:
an address is a member of `Ip` and a port (`""` is the address left out), and one
with colons in it cannot be dialled, because `ip:port` is put together without
brackets. The `config` of a server, which is copied, replication and the volume
size limit are left out. The options of a server have its masters, its port and
its metrics port only: `GrpcPort` is what weed then chooses for gRPC, 10000 above
its port, and `WithGrpc` what the session of the first proxy fills in.

`Connect` is `ExecuteRemote` with the callback of `deployComponentInstance`, for
the goroutines of one phase. `Authenticate` chooses the method: a password, the
agent, the key of the identity file, or the agent and then the passphrase for a
key that is protected. `Save`, `Mute`, `Type` and `Unmute` are the steps of
`terminal.ReadPassword`, all on one terminal: `Unmute` writes back what this
session saved. Then `Dial`, `MakeDir`, `UploadScript`, `UploadOptions`,
`RunScript`, and the deferred `RemoveDir` and `Close`. Any command may fail, or
the link break before or after it took effect. `crossed` is a history variable.

`DeployCommand` puts them together: `LookupVersion`, `ReadFile`, `FillDefaults`,
`Prepare`, the sessions, `Exit`. Two servers of one component are enough for what
sessions share; the order of the phases is that of `DeployCluster`.

### InstallHost

One host with several instances. `rollout` is what the run of the command asks
for; `Deploy` is the operator running it again with any other request. A session
goes through `Begin` (hashes), `CopyConfig`, `CheckVersion`, `BeginUnpack`,
`EndUnpack`, `WriteUnit`, `Enable` and one of `Start`, `Restart`, `SkipRestart`;
`Fail` may end it anywhere. tar is two steps, so a sibling can check, hash or
start a half-written executable. systemd's `Restart=on-failure` is `Retry`, and
`Reboot` breaks all sessions off and starts what is enabled. Of two half-written files the hashes may agree or differ: `Restart` and
`SkipRestart` are both possible then.

Not modelled: the scaffold files, certificates and s3 identities the script
writes once; a script that goes on after its connection broke; processes that
crash by themselves.

### InstallEnvoy

One host with several proxies. The sessions come one after the other (`turn`),
and none after one that failed. The steps are `Begin`, `CopyConfig`, `Fetch`,
`WriteUnit`, `EndSession`; `Fail` may end a session anywhere and, during the
`mv`, leave half an executable; `Die` is a proxy that ends and is started again
by systemd with the files there are now. `smooth` and `repeats` are history
variables: nothing failed, was skipped or asked for two versions so far; this
rollout asks for what the last one, which succeeded, asked for.

Each session compares hashes taken at its own start, so after an upgrade only
the first proxy of a host is restarted: for the others the executable has not
changed. `FirstProxyFollows` says exactly this much, and
`ForcedRolloutConverges` what `--restart` is good for.

### VolumeDisks

One host with several volume servers, deployed with `--mountDisks`. `ListDisks`
takes the listing and selects the disks; `Mkfs`, `ChooseDir`, `Upload`,
`Execute`, `AppendFstab` and `Mount` follow per disk in any order, as a range
over a Go map is unordered. Between any two of them another session of the host
may act. Paths of disks are model values; `Prefix` says which path is a proper
prefix of which, since that is all the test for partitions looks at.

The external tools: `mkfs.ext4` opens the disk exclusively, so it fails for a
mounted one and is atomic; it is run without a terminal and asks nothing. `mount`
is run without `-t` and finds the type of a file system itself, be it ext4 or
another one (`Mountable`), and refuses a pair that is mounted already. lsblk
shows one of several mount points. Not modelled: a script that is only half
uploaded, several lines of fstab with the same content.

A boot is not a step: what it mounts are the lines of `fstab`, each with the
type given in it (`AtBoot`). `prepare_disk.sh:37` always writes `ext4` (`Line`).
The program makes a file system only on a disk that has none, so a disk found
unmounted with XFS or Btrfs on it is mounted by the deployment and not by the
next boot (`WrongType`). This is a defect of the script, and
`RebootKeepsMounts` says how far it goes: after a first deployment that succeeds
the boot loses exactly these mounts and tries no others.

### CleanCluster

The nine loops of `CleanCluster` are the sequence `Loops`, `loop` and `index`
say where the program is, and a session is one step: `Succeed`, `NotInstalled`
(systemctl knows no such service) or `Fail` (the connection breaks before or
after the command ran). `Clean` is the operator running it again, for any
component. `old` is the data of before the run; `elsewhere` the volume servers
whose options place their volumes outside of `/opt/seaweedfs`.

### GetRelease

`get` on one machine, by several users or shells (`Run`). A run goes through the
two lookups (`LookupLatest`, `Lookup`: the second one looks the version of the
first up by name, on the page of releases GitHub shows), the two downloads, the
comparison, and `extractToFile`: `CreateTemp`, `Copy`, `Stat`, `Rename`,
`Chmod`. `BreakOff` is any other failure or a kill, at any point; a temporary
file it leaves is never used again. The files of a release are model values
(`Upload`): a checksum matches the upload it was made for and no other, and
`Damaged` is what no checksum matches. `raced` is a history variable.

The order "stat the target, rename, chmod" has a weakness the model shows:
`StaysExecutable` needs `~ raced`, and no property excludes what follows. A run
killed between the rename and the chmod leaves a file of mode 0600; every later
run asks for that mode and keeps it, and ends with success. Two runs that overlap
can do the same to each other without any failure.

## Runs

| run | module, bounds | shows |
|---|---|---|
| `deploy_race` | 2 masters, 2 volume servers, 1 filer, 2 proxies, 3 failures | `DeployCluster` implements `Rollout`; `PhaseOrder`, `WaitCoversGoroutines`, `ReportedErrorIsGenuine` and `SingleFailureReported` hold however three appends interleave; a session that hangs keeps no server of its phase from being contacted, and the command returns when all sessions end; `RInv`, the inductive invariant of the proofs, holds |
| `deploy_lost_error` | one of each, 2 failures | **violated:** with two simultaneous failures the command can return nil |
| `install_host` | a master, 2 volume servers, 2 versions, 2 rollouts, 1 failure or reboot | files are right after success; the first rollout and every forced one converges, and so does a reboot after any; no needless restart |
| `install_siblings` | the same, no failure | **violated:** after an upgrade an instance goes on running the old version |
| `install_envoy` | 2 proxies, 2 versions, 2 configurations, 3 rollouts, 1 failure, any number of deaths | a first or forced rollout converges, the first proxy follows, repeating restarts nothing |
| `volume_disks` | 3 disks, one path a prefix of another, 2 volume servers, 2 directories, 2 rollouts, 1 failure | data is never formatted over; mounts are in fstab, after a first success nothing else is, and the next boot loses exactly the mounts of foreign file systems; one volume server mounts each disk once; success means all unused disks are mounted |
| `disks_reformat` | 1 disk, 2 volume servers | **violated:** a disk with a fresh file system is formatted again |
| `clean_cluster` | 1 master, 2 volume servers, 1 filer, 2 failures, any number of runs | nothing is emptied while it runs, nothing started on old data, success is complete, repeating recovers |
| `clean_elsewhere` | one of each | **violated:** a cleaned cluster can have all its volumes |
| `get_release` | 2 users, 2 releases, 2 uploads of each, a page of one, 2 failures, any number of runs | the executable is always whole, and executable unless runs overlap or one breaks off before its chmod |
| `deploy_command` | 2 sessions, 4 cluster files, 5 kinds of identity file, 5 of agent, with and without a password and `--port`; failures anywhere | what is installed is what the file says; a session leaves nothing behind without a broken link; one prompt at a time hides the passphrase; default ports do not clash; proxies reach filers at the port of their options and, where the file leaves it to weed, at weed's gRPC port; no silent host holds another's session |
| `envoy_webdav` | the same | **violated:** the proxies route WebDAV to the filers that offer S3 |

Why the bounds are enough: the race needs two appends, and a third lets one
meet a slice that has grown once; two instances on a host are what sharing
needs, and the master gives the sequential phase; two proxies are one that finds
the old executable and one that finds the new one, and three rollouts are a
first, a change and a repetition; two directories for three disks reach the end
of the 99 directories; a failure and one more run reach every state a broken-off
session leaves, because a run reads nothing but the host's state. Sessions of
one phase share nothing but the terminal, which two are enough to fight for. The
four cluster files are: everything left open on one host; everything given; an
address with colons; S3 and WebDAV on different filers. Their gRPC ports are left
open, given as weed chooses them, and given differently. Disks hold nothing,
ext4, another file system, or what cannot be mounted.

Some properties are conditional on purpose. `SingleFailureReported` says what is
left of "a failure is an error" under the race. `MountsAreDisjoint` is about one
volume server per host; with two, both may mount the same disk, which follows
from the same stale listing as `disks_reformat`. `EveryDiskMounted` leaves out a
disk whose path is a prefix of that of another disk's partition (`/dev/sda`,
`/dev/sdaa1`), which the code takes for a partitioned one. `PassphraseHidden` is
about prompts that do not overlap: with two, the first one to end turns the echo
on while the other reads. `DefaultPortsFree` is about ports the file leaves open
on both sides; `deploy` does not look whether a default clashes with a port the
file gives. `MountsAreInFstab` and `RebootKeepsMounts` except the disks with the
wrong type in their line. `RoutesReachFilers` is about HTTP, and about gRPC ports
that the file leaves open or gives as weed chooses them: another `port.grpc`, and
any `s3.port`, reach the routes of the proxies but no options file
(`filer_server_spec.go:33`), so whether somebody listens there is up to `config`.
`RolloutConverges` is about first and forced rollouts, `ForcedRolloutConverges`
likewise, and `FirstProxyFollows` about the first proxy of a host.

So some hazards are in the model and caught by no property that holds, because
the code is exposed to them: a service left on old options by a failed or
`--skipStart` rollout (for which `DeployedIsRunning` is violated too, by longer
traces than that of `install_siblings`); the proxies after the first; the mount
scripts several volume servers of a host share; the disk taken for partitioned;
the mode lost by a run that is killed or overlaps; prompts that meet; ports that
only `config` can give. `PROJECT.json` lists them with a note each.

### Fairness

`DeployCluster!FairSpec`: the Go scheduler runs the main goroutine's and each
goroutine's own steps. That a session ends is not assumed (`ssh.ClientConfig` is
given no timeout, `operator.go:138`); `Terminates` has it as its premise.
`DeployCommand!FairSpec`: the same for the steps of a session that wait for
nobody; that the operator types, or a host answers, is the premise of
`SessionsEnd`. `InstallHost!FairSpec`: a shell script that runs goes on, and
systemd goes on retrying. `CleanCluster!FairSpec`: the program goes on, and the
operator repeats a command that failed, with the same `-c`. Failures are bounded
everywhere, which stands for "connections do not fail for ever".

## Proofs

All for any number of servers, proxies, disks, sessions, rollouts and failures,
and for any cluster files.

- `DeployClusterProofs`: `Typing` (`TypeOK`, with it that `wg` is never
  negative), `WaitCovers` and `PhasesOrdered`. The heart is that after any
  failure the slice is never seen empty once all appends are over. The
  inductive invariant says that `wg` counts exactly the goroutines that were
  started and are not done; that a goroutine in the middle of an append failed;
  and that, once a length was stored, every later store of a length is at least
  1. Which error the slice holds plays no role, so the race does no harm here.
- `DeployRolloutProofs`: `ReportedErrors`, `SingleFailure`, `RolloutImplemented`
  and `Justified`. The invariant `GInv` describes what the words may hold while
  appends overlap: a pointer, in memory or in a register, is nil or points to an
  array with at least one cell, and the first cell of every array is nil or the
  error of a session that failed. So `deployErrors[0]` is one of these, although
  pointer and length may come from different appends. `RInv` adds what the slice
  is while at most one goroutine has failed (`OneAppend`: the append works as
  the language says, so neither a nil error nor a fault is possible), and what
  follows for a result that is nil (`NilJustified`); `Justified` states it.
  `RolloutImplemented` then maps every action of `DeployCluster` to a step of
  `Rollout` or to a stutter: the goroutines' bookkeeping and every word of the
  append are stutters.
- `InstallHostProofs`: `HostTyping`, `Installed`, `RebootHelps`,
  `RestartsForAReason` and `NothingStale`. The invariant `HInv` says that once a
  session of the rollout has placed the executable it stays of the version asked
  for, and is whole unless a session is writing it or failed (`RightVersion`);
  which of its files a session has written (`FilesDone`); that nobody writes the
  executable while every session found all it wanted (`Undisturbed`); that in a
  first rollout nothing runs but what its sessions started (`FirstRollout`).
  `NothingStale` is the safety half of `RolloutConverges`: after a first or
  forced rollout an instance whose session succeeded runs the files there are,
  or is failing (it was started while a sibling wrote the executable) and will
  be retried. That systemd retries it in the end is the half left to TLC.
- `InstallEnvoyProofs`: `EnvoyTypes`, `ForcedConverges`, `FirstFollows` and
  `RepeatIsHarmless`. `EInv` says what the sessions of the rollout have done so
  far (`Copied`, `Written`, `Fetched`, `Launching`), what the hashes of the
  session are worth (`PreTaken`, `FirstTime`, `Repeating`), and for the time
  nothing went wrong (`Smoothly`) that each proxy runs with its present
  configuration or with the one hashed at the start of the session that is about
  to restart it. The same holds for the version of the first proxy only, whose
  session is the one that sees the executable change.
- `VolumeDisksProofs`: `MountsSurvive` and `DataIsSafe`. The invariant `DInv`
  relates the lists of a session to the host: a disk that is listed for
  formatting has no partitions, and if there is data on it, then it is mounted
  by now; mounts are never removed, so `mkfs.ext4` refuses exactly the disks
  the stale listing is wrong about. For fstab it is that the turn a session is
  in has its line between `AppendFstab` and `Mount`. A second invariant, `MInv`,
  gives `DiskTypes`, `AllDisksMounted` (every disk is partitioned, mounted, on
  some session's list, or the turn that session is in: `Accounted`),
  `FstabIsExact` (`FstabAhead`: in a first run without failures fstab has at
  most the lines of turns that are about to mount; and a line with the right type
  is never lost) and `DisksDisjoint`. The last
  one holds for a host with one volume server because what its session believes
  is then true (`Sole`): the directories it takes for used contain all that are,
  the disks it has to mount are not mounted, and the script is the one it
  uploaded. Each of these fails with a second session.
- `CleanClusterProofs`: `CleanTypes`, `CleanSuccess`, `NothingRunningEmptied` and
  `CleanBeforeStart`. The invariant `CInv` says what the position in the nine
  loops tells about a server while the run has not failed: past its stop loop and
  not past its start loop it does not run, past its reset loop its data is gone,
  past its start loop it runs. It says nothing of a run that failed, and need
  not: `Clean` puts the position back to the first loop.
- `GetReleaseProofs`: `GetTypes`, for which a run's release and mode are known
  once it needs them (`Known`) and a new release is not in the list yet;
  `AlwaysWhole`, from what a run has checked at each point
  (`Checked`), and `ExecutableKept`, from "at most one run is open"
  (`OneOpen`): nobody else has its 0600 file in place when a run asks for the
  mode, so the mode it keeps is a good one (`GoodMode`).

- `DeployCommandProofs`: what the command makes of any cluster file, and what its
  sessions do with it. The lemma `CompletedFile` says what `FillDefaults` and
  `Prepare` together do to a server: it keeps its place and everything the
  operator wrote. The invariant `EInv` says which file is in memory at each
  stage (`Stages`), what a session has connected to, uploaded and left on the
  host at each point (`Progress`), and that as long as prompts never met the
  open one will write back a terminal that echoes (`Quiet`). From it:
  `CommandTypes` (every master has an address and a port before the first
  session), `PassphraseSafe`, `SessionsCleanUp`, `ServersAsWritten`,
  `FilersRouted` (the port derived by the proxy's session is weed's, because
  `FillDefaults` comes before it), and `PortsFree`.

`PortsFree` has a hypothesis, `ListsFit`: at most 808 volume servers, 445 filers
and 8747 masters in a file. The loops of `deploy` only count, so that volume
servers have the ports from 8080, filers from 8888 and masters from 9333, with
gRPC 10000 above. With these limits the ranges end where the next one begins
(8887, 9332, and 18079 below the first gRPC port 18080); with one server more,
two defaults can be equal. The TLC runs are far below the limits. That ports are
at most 65535 is not part of `TypeOK`: the program does not look.

The assumptions are those stated in the modules: list lengths and bounds are
natural numbers (positive where a first run, a proxy or an instance is needed),
the sets of disks, volume servers and sessions are finite, the model values
differ, cluster files are lists of servers, an address may be left out (`""` is
in `Ip`) but the one of the operator's own host is not (`deploy.go:62` starts
from 127.0.0.1). TLC evaluates them in the runs, and has checked `RInv` in
`deploy_race`.

Only model-checked: the five liveness properties `EveryServerContacted`,
`Terminates`, `RolloutConverges`, `RepeatedCleanRecovers` and `SessionsEnd`.
TLAPS reasons neither about fairness nor about ENABLED. Every other property
that a passing run checks is a theorem.

## Not modelled

- Uninstalling (`cmd/uninstall.go`) and `target` (`cmd/target.go`): their
  commands are not registered in `cmd/command.go`, nobody can run them.
- The archive code (`unzip.go`), the local operator and `UploadFile`: called by
  nobody.
- Scaffold and version print text. `tls cert create` writes a self-signed
  certificate and then its key, from its arguments, and nothing reads them
  again; one that breaks off in between leaves a pair that does not match.
- What `main.go` explains about an error: its type switch never matches, since
  `DeployCluster` wraps errors with `%v`; only wording depends on it.
- The `config` of a server, copied word by word into its options file, and the
  rest of the envoy template: text. With it goes whether a filer offers S3 or
  WebDAV at all, and on which port: the sample file says `s3: true` there
  (`cmd/cluster.yml:9`).
- A script that goes on after its connection broke: no properties are stated
  for hosts on which two scripts of the same instance run.

## Next

1. The safety halves of the other liveness properties, as `NothingStale` is for
   `RolloutConverges`: that no session can be stuck but on the operator or a
   silent host (`SessionsEnd`), and that each step of a repeated clean comes
   nearer to its end (`RepeatedCleanRecovers`).
2. Abstract specifications: a replacement of the executable that is atomic, for
   `GetRelease` to implement; disks that are claimed one at a time, for
   `VolumeDisks` with one volume server.
3. `DeployErrors` without the race (one append at a time), to prove that a lock
   around the append would make `ErrorsClash` impossible.
