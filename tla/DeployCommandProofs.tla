------------------------ MODULE DeployCommandProofs -------------------------
(***************************************************************************)
(* For any cluster files, any number of sessions at the same time, any key *)
(* and any agent: what `deploy` makes of the file, where it connects to    *)
(* and what it uploads there; what a session leaves behind, and what it    *)
(* does to the terminal.                                                   *)
(***************************************************************************)
EXTENDS DeployCommand, TLAPS, FiniteSetTheorems

-----------------------------------------------------------------------------
(* What becomes of a file.                                                 *)

(* The file as FillDefaults and then Prepare leave it. *)
Filled    == Defaulted(given, LocalIp)
Completed == Prepared(Filled, sshPort)

IpOf(x)      == IF x.ip = "" THEN LocalIp ELSE x.ip
SshOf(x)     == NvlInt(x.ssh, NvlInt(sshPort, 22))
PortOf(c, i) == IF c = "envoy" THEN given[c][i].port
                               ELSE NvlInt(given[c][i].port, DefaultPort(c, i))

LEMMA DefaultPortType ==
  \A c \in Kind \ {"envoy"}, i \in Nat \ {0} : DefaultPort(c, i) \in Nat \ {0}
BY DEF Kind, DefaultPort, FirstPort

(* Each server keeps its place and what the operator wrote. *)
LEMMA CompletedFile ==
  ASSUME given \in Files, sshPort \in Nat, NEW c \in Kind
  PROVE  /\ given[c] \in Seq(Server) /\ Filled[c] \in Seq(Server) /\ Completed[c] \in Seq(Server)
         /\ Len(Completed[c]) = Len(given[c])
         /\ \A i \in 1..Len(given[c]) :
              LET x == given[c][i]
                  y == Completed[c][i] IN
              /\ x \in Server /\ y \in Server
              /\ y.ip = IpOf(x) /\ y.ssh = SshOf(x) /\ y.port = PortOf(c, i)
              /\ y.grpc = x.grpc /\ y.s3 = x.s3 /\ y.s3port = x.s3port
              /\ y.webdav = x.webdav /\ y.davport = x.davport
<1>1. given[c] \in Seq(Server) /\ Len(given[c]) \in Nat /\ DOMAIN given[c] = 1..Len(given[c])
  BY FilesAssumption
<1>2. /\ Filled[c] = [i \in 1..Len(given[c]) |->
           [given[c][i] EXCEPT
              !.ip   = IF @ = "" THEN LocalIp ELSE @,
              !.port = IF c = "envoy" THEN @ ELSE NvlInt(@, DefaultPort(c, i))]]
      /\ DOMAIN Filled[c] = 1..Len(given[c])
  BY <1>1 DEF Filled, Defaulted
<1>3. /\ Completed[c] = [i \in 1..Len(given[c]) |->
           [Filled[c][i] EXCEPT !.ssh = NvlInt(@, NvlInt(sshPort, 22))]]
  BY <1>2 DEF Completed, Prepared
<1>4. ASSUME NEW i \in 1..Len(given[c])
      PROVE  /\ given[c][i] \in Server
             /\ Filled[c][i] = [given[c][i] EXCEPT !.ip = IpOf(given[c][i]), !.port = PortOf(c, i)]
             /\ Filled[c][i] \in Server
  <2>1. given[c][i] \in Server
    BY <1>1
  <2>2. /\ given[c][i].ip \in Ip /\ given[c][i].port \in Nat
    BY <2>1 DEF Server
  <2>3. IpOf(given[c][i]) \in Ip /\ PortOf(c, i) \in Nat
    <3>1. IpOf(given[c][i]) \in Ip
      BY <2>2, LocalAssumption DEF IpOf, Address
    <3>2. PortOf(c, i) \in Nat
      BY <2>2, DefaultPortType DEF PortOf, NvlInt
    <3> QED BY <3>1, <3>2
  <2>4. Filled[c][i] = [given[c][i] EXCEPT !.ip = IpOf(given[c][i]), !.port = PortOf(c, i)]
    BY <1>2, <2>1 DEF IpOf, PortOf, Server
  <2>5. Filled[c][i] \in Server
    BY <2>1, <2>3, <2>4 DEF Server
  <2> QED BY <2>1, <2>4, <2>5
<1>5. ASSUME NEW i \in 1..Len(given[c])
      PROVE  /\ Completed[c][i] = [Filled[c][i] EXCEPT !.ssh = SshOf(given[c][i])]
             /\ Completed[c][i] \in Server
  <2>1. Filled[c][i].ssh = given[c][i].ssh /\ given[c][i].ssh \in Nat
    BY <1>4 DEF Server
  <2>2. Completed[c][i] = [Filled[c][i] EXCEPT !.ssh = SshOf(given[c][i])]
    BY <1>3, <2>1 DEF SshOf
  <2>3. SshOf(given[c][i]) \in Nat
    BY <2>1 DEF SshOf, NvlInt
  <2> QED BY <1>4, <2>2, <2>3 DEF Server
<1>6. Filled[c] \in Seq(Server) /\ Completed[c] \in Seq(Server) /\ Len(Completed[c]) = Len(given[c])
  <2> DEFINE n == Len(given[c])
  <2> HIDE DEF n
  <2>1. Filled[c] \in [1..n -> Server]
    BY <1>2, <1>4 DEF n
  <2>2. Completed[c] \in [1..n -> Server]
    BY <1>3, <1>5 DEF n
  <2>3. n \in Nat
    BY <1>1 DEF n
  <2>4. Filled[c] \in Seq(Server) /\ Completed[c] \in Seq(Server) /\ Len(Completed[c]) = n
    BY <2>1, <2>2, <2>3
  <2> QED BY <2>4 DEF n
<1>7. ASSUME NEW i \in 1..Len(given[c])
      PROVE  LET x == given[c][i]
                 y == Completed[c][i] IN
             /\ x \in Server /\ y \in Server
             /\ y.ip = IpOf(x) /\ y.ssh = SshOf(x) /\ y.port = PortOf(c, i)
             /\ y.grpc = x.grpc /\ y.s3 = x.s3 /\ y.s3port = x.s3port
             /\ y.webdav = x.webdav /\ y.davport = x.davport
  <2> DEFINE x == given[c][i]
             y == Completed[c][i]
  <2>1. x \in Server /\ y = [[x EXCEPT !.ip = IpOf(x), !.port = PortOf(c, i)] EXCEPT !.ssh = SshOf(x)]
    BY <1>4, <1>5
  <2> HIDE DEF x, y
  <2>2. /\ y.ip = IpOf(x) /\ y.ssh = SshOf(x) /\ y.port = PortOf(c, i)
        /\ y.grpc = x.grpc /\ y.s3 = x.s3 /\ y.s3port = x.s3port
        /\ y.webdav = x.webdav /\ y.davport = x.davport
    BY <2>1 DEF Server
  <2> QED BY <1>5, <2>1, <2>2 DEF x, y
<1> QED BY <1>1, <1>6, <1>7

(* The addresses the masters are told of. *)
LEMMA CompletedMasters ==
  ASSUME given \in Files, sshPort \in Nat
  PROVE  /\ Masters(Completed) \in Seq(Address \X (Nat \ {0}))
         /\ Len(Masters(Completed)) = Len(given.master)
         /\ \A i \in 1..Len(given.master) :
              Masters(Completed)[i] = <<Completed.master[i].ip, Completed.master[i].port>>
<1> DEFINE ms == Completed["master"]
<1>1. /\ ms \in Seq(Server) /\ Len(ms) = Len(given["master"])
      /\ \A i \in 1..Len(ms) : ms[i].ip \in Address /\ ms[i].port \in Nat \ {0}
  <2>1. "master" \in Kind \ {"envoy"}
    BY DEF Kind
  <2>2. ms \in Seq(Server) /\ Len(ms) = Len(given["master"]) /\ Len(ms) \in Nat
    BY <2>1, CompletedFile
  <2>3. ASSUME NEW i \in 1..Len(ms) PROVE ms[i].ip \in Address /\ ms[i].port \in Nat \ {0}
    <3>1. /\ given["master"][i] \in Server
          /\ ms[i].ip = IpOf(given["master"][i]) /\ ms[i].port = PortOf("master", i)
      BY <2>1, <2>2, CompletedFile
    <3>2. DefaultPort("master", i) \in Nat \ {0}
      BY <2>1, <2>2, DefaultPortType
    <3>3. ms[i].ip \in Address
      BY <3>1, LocalAssumption DEF IpOf, Address, Server
    <3>4. ms[i].port \in Nat \ {0}
      BY <3>1, <3>2 DEF PortOf, NvlInt, Server
    <3> QED BY <3>3, <3>4
  <2> QED BY <2>2, <2>3
<1>2. Masters(Completed) = [i \in 1..Len(ms) |-> <<ms[i].ip, ms[i].port>>]
  BY <1>1 DEF Masters
<1> HIDE DEF ms
<1>3. Len(ms) \in Nat
  BY <1>1
<1>4. \A i \in 1..Len(ms) : <<ms[i].ip, ms[i].port>> \in Address \X (Nat \ {0})
  BY <1>1
<1>5. Masters(Completed) \in Seq(Address \X (Nat \ {0})) /\ Len(Masters(Completed)) = Len(ms)
  BY <1>2, <1>3, <1>4
<1> QED BY <1>1, <1>2, <1>5 DEF ms

-----------------------------------------------------------------------------
(* The inductive invariant.                                                *)

Shapes ==
  /\ ConnTypeOK
  /\ stage \in {"version", "read", "defaults", "prepare", "sessions", "exited"}
  /\ given \in Files /\ sshPort \in Nat /\ component \in {"volume", "filer"}
  /\ dialled \in [Session -> Ip \X Nat]
  /\ uploaded = [s \in Session |-> uploaded[s]]

(* What the specification in memory is at each stage, and that no session  *)
(* is under way before the defaults are complete.                          *)
Stages ==
  \/ /\ stage \in {"version", "read", "defaults", "exited"}
     /\ file = given /\ masters = <<>> /\ \A s \in Session : at[s] = "start"
  \/ /\ stage = "prepare"
     /\ file = Filled /\ masters = <<>> /\ \A s \in Session : at[s] = "start"
  \/ /\ stage \in {"sessions", "exited"}
     /\ file = Completed /\ masters = Masters(Completed)

Connected(s) == dialled[s] = <<file[component][s].ip, file[component][s].ssh>>
Informed(s)  == uploaded[s] = Options(masters, file[component][s])

BeforeDial == {"start", "passphrase", "save", "muted", "typed", "dial"}
Working    == {"mkdir", "script", "options", "run"}

(* How far a session is tells what there is of it on the host. *)
Progress(s) ==
  /\ at[s] # "start" => s \in Deployed
  /\ at[s] \in BeforeDial => link[s] = "none" /\ remote[s] = {} /\ result[s] = "none"
  /\ at[s] \in Working => link[s] = "up" /\ result[s] = "none" /\ Connected(s)
  /\ at[s] = "run" => Informed(s)
  /\ at[s] \in {"remove", "close"} =>
       /\ link[s] \in {"up", "broken"} /\ result[s] \in {"none", "install"}
       /\ result[s] = "none" => ran[s] /\ Connected(s) /\ Informed(s)
  /\ at[s] \in {"close", "ended"} => (remote[s] # {} => link[s] = "broken")
  /\ at[s] = "ended" => link[s] # "up" /\ (agentConn[s] => agent = "others" /\ key = "protected")
  /\ result[s] = "ok" => ran[s] /\ Connected(s) /\ Informed(s) /\ at[s] = "ended"

(* As long as prompts never met, the one that is open will write back a    *)
(* terminal that echoes.                                                   *)
Prompting(s) ==
  /\ at[s] = "save" => echo /\ saved[s]
  /\ at[s] \in {"muted", "typed"} => ~ echo /\ saved[s]

Quiet ==
  ~ crossed => /\ \A s, t \in Prompts : s = t
               /\ \A s \in Session : Prompting(s)
               /\ Prompts = {} => echo

EInv == Shapes /\ Stages /\ (\A s \in Session : Progress(s)) /\ Quiet

-----------------------------------------------------------------------------
LEMMA EInvInit == Init => EInv
<1> SUFFICES ASSUME Init PROVE EInv
  OBVIOUS
<1>1. given \in Files /\ sshPort \in Nat /\ component \in {"volume", "filer"}
  BY StartsAssumption DEF Init
<1>2. ConnTypeOK
  BY DEF Init, ConnInit, ConnTypeOK, Where
<1>3. dialled \in [Session -> Ip \X Nat]
  <2>1. NoAddress \in Ip \X Nat
    BY IpAssumption DEF NoAddress
  <2> QED BY <2>1 DEF Init
<1>4. Shapes
  BY <1>1, <1>2, <1>3 DEF Init, Shapes
<1>5. Stages
  BY DEF Init, ConnInit, Stages
<1>6. \A s \in Session : Progress(s)
  BY DEF Init, ConnInit, Progress, Working, BeforeDial
<1>7. Quiet
  BY DEF Init, ConnInit, Quiet, Prompts, Prompting
<1> QED BY <1>4, <1>5, <1>6, <1>7 DEF EInv

(* A session that does nothing. *)
LEMMA OthersProgress ==
  ASSUME NEW t \in Session, Progress(t),
         UNCHANGED <<at[t], link[t], remote[t], ran[t], result[t], agentConn[t], dialled[t],
                     uploaded[t], file, masters, component, key, agent>>
  PROVE  Progress(t)'
BY DEF Progress, Connected, Informed, Deployed

(* The stage does not change while sessions work. *)
LEMMA StagesStay ==
  ASSUME Stages, stage = "sessions",
         UNCHANGED <<stage, file, given, sshPort, masters>>
  PROVE  Stages'
BY DEF Stages, Filled, Completed

(* Steps that leave the prompts alone. *)
LEMMA QuietStays ==
  ASSUME Quiet, Prompts' = Prompts, UNCHANGED terminal,
         \A t \in Session : at'[t] = at[t] \/ at'[t] \notin {"save", "muted", "typed"}
  PROVE  Quiet'
BY DEF Quiet, Prompting, terminal, Prompts

LEMMA TypesOfServers ==
  ASSUME given \in Files, sshPort \in Nat, component \in {"volume", "filer"}, file = Completed,
         NEW s \in Deployed
  PROVE  /\ s \in Nat \ {0} /\ s \in 1..Len(given[component])
         /\ file[component][s] \in Server
         /\ <<file[component][s].ip, file[component][s].ssh>> \in Ip \X Nat
<1>1. component \in Kind /\ s \in Session /\ s <= Len(file[component])
  BY DEF Kind, Deployed
<1>2. Cardinality(Session) \in Nat
  BY SessionAssumption, FS_CardinalityType
<1>3. s \in Nat \ {0}
  BY <1>1, <1>2, SessionsAreServers
<1>4. given[component] \in Seq(Server) /\ Len(file[component]) = Len(given[component])
  BY <1>1, CompletedFile
<1>5. s \in 1..Len(given[component])
  BY <1>1, <1>3, <1>4
<1>6. file[component][s] \in Server
  BY <1>1, <1>5, CompletedFile
<1>7. <<file[component][s].ip, file[component][s].ssh>> \in Ip \X Nat
  BY <1>6 DEF Server
<1> QED BY <1>3, <1>5, <1>6, <1>7

-----------------------------------------------------------------------------
(* Finding a way to log in. *)
LEMMA AuthenticateKeeps ==
  ASSUME EInv, NEW s \in Deployed, stage = "sessions", Authenticate(s), UNCHANGED fileVars
  PROVE  EInv'
<1> USE DEF EInv
<1>1. /\ s \in Session /\ ConnTypeOK /\ Progress(s) /\ at[s] = "start"
      /\ UNCHANGED <<situation, terminal, onHost, fileVars>>
  BY DEF Deployed, Shapes, Authenticate
<1>2. PICK w \in {"dial", "passphrase", "ended"}, r \in {"none", "agent", "key"} :
        /\ at' = [at EXCEPT ![s] = w]
        /\ result' = [result EXCEPT ![s] = r]
        /\ w # "ended" => r = "none"
  <2>1. result = [result EXCEPT ![s] = "none"]
    BY <1>1 DEF Progress, BeforeDial, ConnTypeOK
  <2>2. CASE UsePassword(s) \/ UsePlainKey(s)
    BY <2>1, <2>2 DEF UsePassword, UsePlainKey, LogInBy, Goto
  <2>3. CASE UseAgent(s)
    BY <2>1, <2>3 DEF UseAgent, LogInBy, Return, Goto
  <2>4. CASE BadKey(s)
    BY <2>4 DEF BadKey, Return, Goto
  <2>5. CASE AskAgent(s)
    BY <2>1, <2>5 DEF AskAgent, LogInBy, Goto
  <2> QED BY <2>2, <2>3, <2>4, <2>5 DEF Authenticate
<1>3. PICK b \in BOOLEAN : /\ agentConn' = [agentConn EXCEPT ![s] = b]
                           /\ w = "ended" /\ b => agent = "others" /\ key = "protected"
  <2>1. agentConn[s] \in BOOLEAN /\ agentConn = [agentConn EXCEPT ![s] = agentConn[s]]
    BY <1>1 DEF ConnTypeOK
  <2>2. at'[s] = w
    BY <1>1, <1>2 DEF ConnTypeOK
  <2>3. CASE UsePassword(s) \/ UsePlainKey(s)
    <3>1. at'[s] = "dial" /\ agentConn' = agentConn
      BY <1>1, <2>3 DEF UsePassword, UsePlainKey, LogInBy, Goto, ConnTypeOK
    <3> QED BY <2>1, <2>2, <3>1
  <2>4. CASE UseAgent(s)
    <3>1. CASE agent \in {"absent", "empty"}
      <4>1. (agentConn[s] /\ key = "protected" /\ agent = "others") = FALSE
        BY <3>1
      <4>2. agentConn' = [agentConn EXCEPT ![s] = FALSE]
        BY <2>4, <3>1, <4>1 DEF UseAgent, Return
      <4> QED BY <4>2
    <3>2. CASE agent \notin {"absent", "empty"}
      <4>1. agentConn' = [agentConn EXCEPT ![s] = TRUE] /\ at'[s] = "dial"
        BY <1>1, <2>4, <3>2 DEF UseAgent, LogInBy, Goto, ConnTypeOK
      <4> QED BY <2>2, <4>1
    <3> QED BY <3>1, <3>2
  <2>5. CASE BadKey(s)
    BY <1>1, <2>1, <2>2, <2>5 DEF BadKey, Return, Goto, ConnTypeOK
  <2>6. CASE AskAgent(s)
    <3>1. at'[s] # "ended"
      BY <1>1, <2>6 DEF AskAgent, LogInBy, Goto, ConnTypeOK
    <3> QED BY <2>1, <2>2, <2>6, <3>1 DEF AskAgent
  <2> QED BY <2>3, <2>4, <2>5, <2>6 DEF Authenticate
<1>4. method' \in [Session -> {"none", "password", "agent", "key"}]
  BY <1>1 DEF ConnTypeOK, Authenticate, UsePassword, UsePlainKey, UseAgent, BadKey, AskAgent, LogInBy
<1>5. /\ at'[s] = w /\ result'[s] = r /\ agentConn'[s] = b
      /\ \A t \in Session \ {s} : at'[t] = at[t] /\ result'[t] = result[t] /\ agentConn'[t] = agentConn[t]
  BY <1>1, <1>2, <1>3 DEF ConnTypeOK
<1>6. Shapes'
  <2>1. at' \in [Session -> Where] /\ result' \in [Session -> {"none", "ok", "agent", "key", "connect", "install"}]
        /\ agentConn' \in [Session -> BOOLEAN]
    BY <1>1, <1>2, <1>3 DEF ConnTypeOK, Where
  <2> QED BY <1>1, <1>4, <2>1 DEF Shapes, ConnTypeOK, situation, terminal, onHost, fileVars
<1>7. Stages'
  BY <1>1, StagesStay DEF fileVars
<1>8. ASSUME NEW t \in Session PROVE Progress(t)'
  <2>1. CASE t # s
    BY <1>1, <1>5, <2>1, OthersProgress DEF situation, onHost, fileVars
  <2>2. CASE t = s
    BY <1>1, <1>2, <1>3, <1>5, <2>2 DEF Progress, BeforeDial, Working, Deployed, situation, onHost, fileVars
  <2> QED BY <2>1, <2>2
<1>9. Quiet'
  <2>1. \A t \in Session : at'[t] = at[t] \/ at'[t] \notin {"save", "muted", "typed"}
    BY <1>5
  <2>2. Prompts' = Prompts
    BY <1>1, <1>5 DEF Prompts
  <2> QED BY <1>1, <2>1, <2>2, QuietStays
<1> QED BY <1>6, <1>7, <1>8, <1>9

(* What is left to show of a step of session s. *)
LEMMA StepKeeps ==
  ASSUME EInv, NEW s \in Deployed, stage = "sessions",
         UNCHANGED <<stage, file, given, sshPort, component, masters, situation>>,
         ConnTypeOK', dialled' \in [Session -> Ip \X Nat], uploaded' = [t \in Session |-> uploaded'[t]],
         \A t \in Session \ {s} :
           UNCHANGED <<at[t], link[t], remote[t], ran[t], result[t], agentConn[t], dialled[t],
                       uploaded[t]>>,
         Progress(s)', Quiet'
  PROVE  EInv'
<1>1. s \in Session
  BY DEF Deployed
<1>2. Shapes'
  BY DEF EInv, Shapes
<1>3. Stages'
  BY StagesStay DEF EInv
<1>4. ASSUME NEW t \in Session PROVE Progress(t)'
  <2>1. CASE t # s
    BY <2>1, OthersProgress DEF EInv, situation
  <2> QED BY <2>1
<1> QED BY <1>2, <1>3, <1>4 DEF EInv

LEMMA SaveKeeps ==
  ASSUME EInv, NEW s \in Deployed, stage = "sessions", Save(s), UNCHANGED fileVars
  PROVE  EInv'
<1>1. /\ s \in Session /\ ConnTypeOK /\ at[s] = "passphrase"
      /\ at' = [at EXCEPT ![s] = "save"] /\ saved' = [saved EXCEPT ![s] = echo]
      /\ crossed' = (crossed \/ Prompts # {})
      /\ UNCHANGED <<situation, echo, method, agentConn, onHost, result, fileVars>>
  BY DEF Deployed, EInv, Shapes, Save, Goto
<1>2. /\ at'[s] = "save" /\ saved'[s] = echo
      /\ \A t \in Session \ {s} : at'[t] = at[t] /\ saved'[t] = saved[t]
  BY <1>1 DEF ConnTypeOK
<1>3. ConnTypeOK'
  BY <1>1 DEF ConnTypeOK, Where, situation, onHost
<1>4. Progress(s)'
  BY <1>1, <1>2 DEF EInv, Progress, BeforeDial, Working, Deployed, situation, onHost, fileVars
<1>5. Quiet'
  <2>1. crossed' \/ (~ crossed /\ Prompts = {} /\ echo)
    BY <1>1 DEF EInv, Quiet, ConnTypeOK
  <2>2. ASSUME ~ crossed, Prompts = {}, echo PROVE Quiet'
    <3>1. \A t \in Session : at[t] \notin {"save", "muted", "typed"}
      BY <2>2 DEF Prompts
    <3>2. Prompts' = {s}
      BY <1>1, <1>2, <3>1 DEF Prompts
    <3>3. \A t \in Session : Prompting(t)'
      BY <1>1, <1>2, <2>2, <3>1 DEF Prompting
    <3> QED BY <3>2, <3>3 DEF Quiet
  <2> QED BY <2>1, <2>2 DEF Quiet
<1> QED BY <1>1, <1>2, <1>3, <1>4, <1>5, StepKeeps DEF EInv, Shapes, situation, onHost, fileVars

LEMMA MuteKeeps ==
  ASSUME EInv, NEW s \in Deployed, stage = "sessions", Mute(s), UNCHANGED fileVars
  PROVE  EInv'
<1>1. /\ s \in Session /\ ConnTypeOK /\ at[s] = "save"
      /\ at' = [at EXCEPT ![s] = "muted"] /\ echo' = FALSE
      /\ UNCHANGED <<situation, saved, crossed, method, agentConn, onHost, result, fileVars>>
  BY DEF Deployed, EInv, Shapes, Mute, Goto
<1>2. at'[s] = "muted" /\ \A t \in Session \ {s} : at'[t] = at[t]
  BY <1>1 DEF ConnTypeOK
<1>3. ConnTypeOK'
  BY <1>1 DEF ConnTypeOK, Where, situation, onHost
<1>4. Progress(s)'
  BY <1>1, <1>2 DEF EInv, Progress, BeforeDial, Working, Deployed, situation, onHost, fileVars
<1>5. Quiet'
  <2> SUFFICES ASSUME ~ crossed PROVE Quiet'
    BY <1>1 DEF Quiet
  <2>1. Prompts = {s} /\ saved[s]
    BY <1>1 DEF EInv, Quiet, Prompts, Prompting
  <2>2. \A t \in Session \ {s} : at[t] \notin {"save", "muted", "typed"}
    BY <2>1 DEF Prompts
  <2>3. Prompts' = {s}
    BY <1>1, <1>2, <2>2 DEF Prompts
  <2>4. \A t \in Session : Prompting(t)'
    BY <1>1, <1>2, <2>1, <2>2 DEF Prompting
  <2> QED BY <2>3, <2>4 DEF Quiet
<1> QED BY <1>1, <1>2, <1>3, <1>4, <1>5, StepKeeps DEF EInv, Shapes, situation, onHost, fileVars

LEMMA TypeKeeps ==
  ASSUME EInv, NEW s \in Deployed, stage = "sessions", Type(s), UNCHANGED fileVars
  PROVE  EInv'
<1>1. /\ s \in Session /\ ConnTypeOK /\ at[s] = "muted"
      /\ at' = [at EXCEPT ![s] = "typed"]
      /\ UNCHANGED <<situation, terminal, method, agentConn, onHost, result, fileVars>>
  BY DEF Deployed, EInv, Shapes, Type, Goto
<1>2. at'[s] = "typed" /\ \A t \in Session \ {s} : at'[t] = at[t]
  BY <1>1 DEF ConnTypeOK
<1>3. ConnTypeOK'
  BY <1>1 DEF ConnTypeOK, Where, situation, onHost, terminal
<1>4. Progress(s)'
  BY <1>1, <1>2 DEF EInv, Progress, BeforeDial, Working, Deployed, situation, onHost, fileVars
<1>5. Quiet'
  <2>1. Prompts' = Prompts
    BY <1>1, <1>2 DEF Prompts
  <2> QED BY <1>1, <1>2, <2>1 DEF EInv, Quiet, Prompting, terminal
<1> QED BY <1>1, <1>2, <1>3, <1>4, <1>5, StepKeeps DEF EInv, Shapes, situation, onHost, fileVars

LEMMA UnmuteKeeps ==
  ASSUME EInv, NEW s \in Deployed, stage = "sessions", Unmute(s), UNCHANGED fileVars
  PROVE  EInv'
<1>1. /\ s \in Session /\ ConnTypeOK /\ at[s] = "typed" /\ echo' = saved[s]
      /\ UNCHANGED <<situation, saved, crossed, onHost, fileVars>>
      /\ link[s] = "none" /\ remote[s] = {} /\ result[s] = "none"
  BY DEF Deployed, EInv, Shapes, Unmute, Progress, BeforeDial
<1>2. PICK w \in {"dial", "ended"}, r \in {"none", "key"}, b \in BOOLEAN :
        /\ at' = [at EXCEPT ![s] = w]
        /\ result' = [result EXCEPT ![s] = r]
        /\ agentConn' = [agentConn EXCEPT ![s] = b]
        /\ w = "dial" => r = "none"
        /\ w = "ended" /\ b => agent = "others" /\ key = "protected"
  <2>1. /\ result = [result EXCEPT ![s] = "none"]
        /\ agentConn = [agentConn EXCEPT ![s] = agentConn[s]] /\ agentConn[s] \in BOOLEAN
    BY <1>1 DEF ConnTypeOK
  <2>2. CASE LogInBy(s, "key") /\ UNCHANGED agentConn
    <3>1. at' = [at EXCEPT ![s] = "dial"] /\ result' = result
      BY <2>2 DEF LogInBy, Goto
    <3> QED BY <2>1, <2>2, <3>1
  <2>3. CASE Return(s, "key")
    <3> DEFINE c == agentConn[s] /\ key = "protected" /\ agent = "others"
    <3>1. /\ at' = [at EXCEPT ![s] = "ended"] /\ result' = [result EXCEPT ![s] = "key"]
          /\ agentConn' = [agentConn EXCEPT ![s] = c]
      BY <2>3 DEF Return, Goto
    <3>2. c \in BOOLEAN /\ (c => agent = "others" /\ key = "protected")
      OBVIOUS
    <3> HIDE DEF c
    <3> QED BY <3>1, <3>2
  <2> QED BY <2>2, <2>3 DEF Unmute
<1>3. /\ at'[s] = w /\ result'[s] = r /\ agentConn'[s] = b
      /\ \A t \in Session \ {s} : at'[t] = at[t] /\ result'[t] = result[t] /\ agentConn'[t] = agentConn[t]
  BY <1>1, <1>2 DEF ConnTypeOK
<1>4. ConnTypeOK'
  <2>1. method' \in [Session -> {"none", "password", "agent", "key"}]
    BY <1>1 DEF ConnTypeOK, Unmute, LogInBy
  <2>2. at' \in [Session -> Where] /\ agentConn' \in [Session -> BOOLEAN] /\ echo' \in BOOLEAN
    BY <1>1, <1>2 DEF ConnTypeOK, Where
  <2>3. result' \in [Session -> {"none", "ok", "agent", "key", "connect", "install"}]
    BY <1>1, <1>2 DEF ConnTypeOK
  <2> QED BY <1>1, <2>1, <2>2, <2>3 DEF ConnTypeOK, situation, onHost
<1>5. Progress(s)'
  BY <1>1, <1>2, <1>3 DEF Progress, BeforeDial, Working, Deployed, situation, onHost, fileVars
<1>6. Quiet'
  <2> SUFFICES ASSUME ~ crossed PROVE Quiet'
    BY <1>1 DEF Quiet
  <2>1. Prompts = {s} /\ saved[s]
    BY <1>1 DEF EInv, Quiet, Prompts, Prompting
  <2>2. \A t \in Session \ {s} : at[t] \notin {"save", "muted", "typed"}
    BY <2>1 DEF Prompts
  <2>3. Prompts' = {}
    BY <1>1, <1>3, <2>2 DEF Prompts
  <2>4. \A t \in Session : Prompting(t)'
    BY <1>1, <1>3, <2>2 DEF Prompting
  <2> QED BY <1>1, <2>1, <2>3, <2>4 DEF Quiet
<1> QED BY <1>1, <1>3, <1>4, <1>5, <1>6, StepKeeps DEF EInv, Shapes, situation, onHost, fileVars

-----------------------------------------------------------------------------
LEMMA DialsKeeps ==
  ASSUME EInv, NEW s \in Session, Dials(s)
  PROVE  EInv'
<1> DEFINE server == file[component][s]
           address == <<server.ip, server.ssh>>
<1>1. /\ stage = "sessions" /\ s \in Deployed /\ Dial(s)
      /\ UNCHANGED <<stage, file, given, sshPort, component, masters, uploaded>>
      /\ ConnTypeOK /\ at[s] = "dial"
      /\ link[s] = "none" /\ remote[s] = {} /\ result[s] = "none"
      /\ UNCHANGED <<situation, method, terminal, remote, ran>>
  BY DEF Dials, Dial, EInv, Shapes, Progress, BeforeDial
<1>2. server.ip \in ColonIps => link'[s] # "up"
  BY DEF Dials
<1>3. dialled' = IF server.ip \in ColonIps THEN dialled ELSE [dialled EXCEPT ![s] = address]
  BY DEF Dials
<1>4. address \in Ip \X Nat /\ dialled \in [Session -> Ip \X Nat]
  BY <1>1, TypesOfServers DEF EInv, Shapes, Stages
<1> HIDE DEF address, server
<1>5. /\ dialled' \in [Session -> Ip \X Nat]
      /\ \A t \in Session \ {s} : dialled'[t] = dialled[t]
      /\ server.ip \notin ColonIps => dialled'[s] = address
  BY <1>3, <1>4
<1>6. PICK w \in {"mkdir", "ended"}, l \in {"up", "none"}, r \in {"none", "connect"}, b \in BOOLEAN :
        /\ at' = [at EXCEPT ![s] = w] /\ link' = [link EXCEPT ![s] = l]
        /\ result' = [result EXCEPT ![s] = r]
        /\ agentConn' = [agentConn EXCEPT ![s] = b]
        /\ w = "mkdir" => l = "up" /\ r = "none"
        /\ w = "ended" => l = "none" /\ (b => agent = "others" /\ key = "protected")
  <2>1. /\ result = [result EXCEPT ![s] = "none"] /\ link = [link EXCEPT ![s] = "none"]
        /\ agentConn = [agentConn EXCEPT ![s] = agentConn[s]] /\ agentConn[s] \in BOOLEAN
    BY <1>1 DEF ConnTypeOK
  <2>2. CASE /\ link' = [link EXCEPT ![s] = "up"] /\ Goto(s, "mkdir")
             /\ UNCHANGED <<result, agentConn>>
    BY <2>1, <2>2 DEF Goto
  <2>3. CASE Return(s, "connect") /\ UNCHANGED link
    <3> DEFINE c == agentConn[s] /\ key = "protected" /\ agent = "others"
    <3>1. /\ at' = [at EXCEPT ![s] = "ended"] /\ result' = [result EXCEPT ![s] = "connect"]
          /\ agentConn' = [agentConn EXCEPT ![s] = c] /\ link' = link
      BY <2>3 DEF Return, Goto
    <3>2. c \in BOOLEAN /\ (c => agent = "others" /\ key = "protected")
      OBVIOUS
    <3> HIDE DEF c
    <3> QED BY <2>1, <3>1, <3>2
  <2> QED BY <1>1, <2>2, <2>3 DEF Dial
<1>7. /\ at'[s] = w /\ link'[s] = l /\ result'[s] = r /\ agentConn'[s] = b
      /\ \A t \in Session \ {s} : /\ at'[t] = at[t] /\ link'[t] = link[t]
                                  /\ result'[t] = result[t] /\ agentConn'[t] = agentConn[t]
  BY <1>1, <1>6 DEF ConnTypeOK
<1>8. ConnTypeOK'
  <2>1. at' \in [Session -> Where] /\ agentConn' \in [Session -> BOOLEAN]
    BY <1>1, <1>6 DEF ConnTypeOK, Where
  <2>2. result' \in [Session -> {"none", "ok", "agent", "key", "connect", "install"}]
    BY <1>1, <1>6 DEF ConnTypeOK
  <2>3. link' \in [Session -> {"none", "up", "broken", "closed"}]
    BY <1>1, <1>6 DEF ConnTypeOK
  <2> QED BY <1>1, <2>1, <2>2, <2>3 DEF ConnTypeOK, situation, terminal
<1>9. Progress(s)'
  <2>1. w = "mkdir" => dialled'[s] = address
    BY <1>2, <1>5, <1>6, <1>7
  <2>2. w = "mkdir" => Connected(s)'
    BY <1>1, <2>1 DEF Connected, address, server
  <2>3. (s \in Deployed)'
    BY <1>1 DEF Deployed
  <2> QED BY <1>1, <1>6, <1>7, <2>2, <2>3 DEF Progress, BeforeDial, Working, situation
<1>10. Quiet'
  <2>1. Prompts' = Prompts /\ \A t \in Session : at'[t] = at[t] \/ at'[t] \notin {"save", "muted", "typed"}
    BY <1>1, <1>7 DEF Prompts
  <2> QED BY <1>1, <2>1, QuietStays DEF EInv
<1>11. uploaded' = [t \in Session |-> uploaded'[t]]
  BY <1>1 DEF EInv, Shapes
<1> QED BY <1>1, <1>5, <1>7, <1>8, <1>9, <1>10, <1>11, StepKeeps DEF situation

(* A command or an upload, whether it succeeds, fails, or breaks the link. *)
LEMMA CommandKeeps ==
  ASSUME EInv, NEW s \in Deployed, stage = "sessions",
         NEW here \in Working, NEW next \in Working \union {"remove"},
         NEW done \in SUBSET {"dir", "script", "options"}, Command(s, here, next, done),
         UNCHANGED <<stage, file, given, sshPort, component, masters, dialled>>,
         NEW yes \in BOOLEAN, ran' = [ran EXCEPT ![s] = yes],
         NEW up, uploaded' = [uploaded EXCEPT ![s] = up],
         next \in {"run", "remove"} => up = Options(masters, file[component][s]),
         next = "remove" => yes \/ result'[s] = "install"
  PROVE  EInv'
<1>1. /\ s \in Session /\ ConnTypeOK /\ at[s] = here /\ Connected(s)
      /\ link[s] = "up" /\ result[s] = "none"
      /\ UNCHANGED <<situation, method, agentConn, terminal>>
  BY DEF Deployed, EInv, Shapes, Progress, Command
<1>2. PICK w \in {next, "remove"}, l \in {"up", "broken"}, r \in {"none", "install"},
           R \in SUBSET {"dir", "script", "options"} :
        /\ at' = [at EXCEPT ![s] = w] /\ link' = [link EXCEPT ![s] = l]
        /\ remote' = [remote EXCEPT ![s] = R] /\ result' = [result EXCEPT ![s] = r]
        /\ \/ w = next /\ l = "up" /\ r = "none"
           \/ w = "remove" /\ r = "install"
  <2>1. /\ link = [link EXCEPT ![s] = "up"] /\ result = [result EXCEPT ![s] = "none"]
        /\ remote = [remote EXCEPT ![s] = remote[s]]
        /\ remote[s] \in SUBSET {"dir", "script", "options"}
    BY <1>1 DEF ConnTypeOK
  <2>2. remote[s] \union done \in SUBSET {"dir", "script", "options"}
    BY <2>1
  <2>3. CASE /\ Goto(s, next) /\ remote' = [remote EXCEPT ![s] = @ \union done]
             /\ UNCHANGED <<link, result>>
    BY <2>1, <2>2, <2>3 DEF Goto
  <2>4. CASE /\ remote' \in {remote, [remote EXCEPT ![s] = @ \union done]}
             /\ link' \in {link, [link EXCEPT ![s] = "broken"]}
             /\ result' = [result EXCEPT ![s] = "install"]
             /\ Goto(s, "remove")
    <3>1. PICK R \in {remote[s], remote[s] \union done} : remote' = [remote EXCEPT ![s] = R]
      BY <2>1, <2>4
    <3>2. PICK l \in {"up", "broken"} : link' = [link EXCEPT ![s] = l]
      BY <2>1, <2>4
    <3> QED BY <2>1, <2>2, <2>4, <3>1, <3>2 DEF Goto
  <2> QED BY <2>3, <2>4 DEF Command
<1>3. /\ at'[s] = w /\ link'[s] = l /\ remote'[s] = R /\ result'[s] = r /\ ran'[s] = yes
      /\ \A t \in Session \ {s} : /\ at'[t] = at[t] /\ link'[t] = link[t] /\ remote'[t] = remote[t]
                                  /\ result'[t] = result[t] /\ ran'[t] = ran[t]
  BY <1>1, <1>2 DEF ConnTypeOK
<1>4. uploaded'[s] = up /\ \A t \in Session \ {s} : uploaded'[t] = uploaded[t]
  BY <1>1 DEF EInv, Shapes
<1>5. ConnTypeOK'
  <2>1. w \in Where
    BY DEF Where, Working
  <2>2. at' \in [Session -> Where] /\ ran' \in [Session -> BOOLEAN]
    BY <1>1, <1>2, <2>1 DEF ConnTypeOK
  <2>3. /\ link' \in [Session -> {"none", "up", "broken", "closed"}]
        /\ remote' \in [Session -> SUBSET {"dir", "script", "options"}]
    BY <1>1, <1>2 DEF ConnTypeOK
  <2>4. result' \in [Session -> {"none", "ok", "agent", "key", "connect", "install"}]
    BY <1>1, <1>2 DEF ConnTypeOK
  <2> QED BY <1>1, <2>2, <2>3, <2>4 DEF ConnTypeOK, situation, terminal
<1>6. Progress(s)'
  <2>1. Connected(s)' /\ (s \in Deployed)'
    BY <1>1 DEF Connected, Deployed
  <2>2. next \in {"run", "remove"} => Informed(s)'
    BY <1>4 DEF Informed
  <2>3. w \in Working \union {"remove"} /\ (w = "remove" => r = "install" \/ w = next)
    BY <1>2
  <2>4. w # "ended" /\ w # "close" /\ w # "start" /\ w \notin BeforeDial
    BY <2>3 DEF Working, BeforeDial
  <2>5. w = "remove" /\ r = "none" => yes /\ next = "remove"
    BY <1>2, <1>3
  <2>6. w = "run" => next = "run"
    BY <1>2
  <2>7. w \in Working => l = "up" /\ r = "none"
    BY <1>2 DEF Working
  <2> QED BY <1>2, <1>3, <2>1, <2>2, <2>4, <2>5, <2>6, <2>7 DEF Progress
<1>7. Quiet'
  <2>1. here \notin {"save", "muted", "typed"} /\ w \notin {"save", "muted", "typed"}
    BY DEF Working
  <2>2. Prompts' = Prompts /\ \A t \in Session : at'[t] = at[t] \/ at'[t] \notin {"save", "muted", "typed"}
    BY <1>1, <1>3, <2>1 DEF Prompts
  <2> QED BY <1>1, <2>2, QuietStays DEF EInv
<1>8. uploaded' = [t \in Session |-> uploaded'[t]]
  BY DEF EInv, Shapes
<1> QED BY <1>1, <1>3, <1>4, <1>5, <1>6, <1>7, <1>8, StepKeeps DEF EInv, Shapes, situation

LEMMA RemoveDirKeeps ==
  ASSUME EInv, NEW s \in Deployed, stage = "sessions", RemoveDir(s), UNCHANGED fileVars
  PROVE  EInv'
<1>1. /\ s \in Session /\ ConnTypeOK /\ at[s] = "remove" /\ at' = [at EXCEPT ![s] = "close"]
      /\ link[s] \in {"up", "broken"}
      /\ UNCHANGED <<situation, method, agentConn, terminal, ran, result, fileVars>>
  BY DEF Deployed, EInv, Shapes, Progress, RemoveDir, Goto
<1>2. PICK l \in {"up", "broken"}, R \in SUBSET {"dir", "script", "options"} :
        /\ link' = [link EXCEPT ![s] = l] /\ remote' = [remote EXCEPT ![s] = R]
        /\ R = {} \/ l = "broken"
  <2>1. /\ link = [link EXCEPT ![s] = link[s]] /\ remote = [remote EXCEPT ![s] = remote[s]]
        /\ remote[s] \in SUBSET {"dir", "script", "options"}
    BY <1>1 DEF ConnTypeOK
  <2>2. CASE link[s] = "up" /\ remote' = [remote EXCEPT ![s] = {}] /\ UNCHANGED link
    BY <2>1, <2>2
  <2>3. CASE /\ link' = [link EXCEPT ![s] = "broken"]
             /\ remote' \in {remote, [remote EXCEPT ![s] = IF link[s] = "up" THEN {} ELSE @]}
    <3>1. PICK R \in {remote[s], {}} : remote' = [remote EXCEPT ![s] = R]
      BY <2>1, <2>3
    <3> QED BY <2>1, <2>3, <3>1
  <2> QED BY <2>2, <2>3 DEF RemoveDir
<1>3. /\ at'[s] = "close" /\ link'[s] = l /\ remote'[s] = R
      /\ \A t \in Session \ {s} : at'[t] = at[t] /\ link'[t] = link[t] /\ remote'[t] = remote[t]
  BY <1>1, <1>2 DEF ConnTypeOK
<1>4. ConnTypeOK'
  <2>1. at' \in [Session -> Where]
    BY <1>1 DEF ConnTypeOK, Where
  <2>2. /\ link' \in [Session -> {"none", "up", "broken", "closed"}]
        /\ remote' \in [Session -> SUBSET {"dir", "script", "options"}]
    BY <1>1, <1>2 DEF ConnTypeOK
  <2> QED BY <1>1, <2>1, <2>2 DEF ConnTypeOK, situation, terminal
<1>5. Progress(s)'
  BY <1>1, <1>2, <1>3 DEF EInv, Progress, Connected, Informed, BeforeDial, Working, Deployed, fileVars
<1>6. Quiet'
  <2>1. Prompts' = Prompts /\ \A t \in Session : at'[t] = at[t] \/ at'[t] \notin {"save", "muted", "typed"}
    BY <1>1, <1>3 DEF Prompts
  <2> QED BY <1>1, <2>1, QuietStays DEF EInv
<1> QED BY <1>1, <1>3, <1>4, <1>5, <1>6, StepKeeps DEF EInv, Shapes, situation, fileVars

LEMMA CloseKeeps ==
  ASSUME EInv, NEW s \in Deployed, stage = "sessions", Close(s), UNCHANGED fileVars
  PROVE  EInv'
<1> DEFINE l == IF link[s] = "up" THEN "closed" ELSE link[s]
           r == IF result[s] = "install" THEN "install" ELSE "ok"
           b == agentConn[s] /\ key = "protected" /\ agent = "others"
<1>1. /\ s \in Session /\ ConnTypeOK /\ at[s] = "close" /\ at' = [at EXCEPT ![s] = "ended"]
      /\ link' = [link EXCEPT ![s] = l] /\ result' = [result EXCEPT ![s] = r]
      /\ agentConn' = [agentConn EXCEPT ![s] = b]
      /\ UNCHANGED <<situation, method, terminal, remote, ran, fileVars>>
  BY DEF Deployed, EInv, Shapes, Close, Return, Goto
<1>2. link[s] \in {"up", "broken"} /\ l \in {"closed", "broken"} /\ (link[s] = "broken" => l = "broken")
  BY <1>1 DEF EInv, Progress, Deployed
<1>3. /\ result[s] \in {"none", "install"} /\ r \in {"install", "ok"}
      /\ r = "ok" => result[s] = "none"
  BY <1>1 DEF EInv, Progress, Deployed
<1>4. b \in BOOLEAN /\ (b => agent = "others" /\ key = "protected")
  OBVIOUS
<1> HIDE DEF l, r, b
<1>5. /\ at'[s] = "ended" /\ link'[s] = l /\ result'[s] = r /\ agentConn'[s] = b
      /\ \A t \in Session \ {s} : /\ at'[t] = at[t] /\ link'[t] = link[t]
                                  /\ result'[t] = result[t] /\ agentConn'[t] = agentConn[t]
  BY <1>1 DEF ConnTypeOK
<1>6. ConnTypeOK'
  <2>1. at' \in [Session -> Where] /\ agentConn' \in [Session -> BOOLEAN]
    BY <1>1, <1>4 DEF ConnTypeOK, Where
  <2>2. /\ link' \in [Session -> {"none", "up", "broken", "closed"}]
        /\ result' \in [Session -> {"none", "ok", "agent", "key", "connect", "install"}]
    BY <1>1, <1>2, <1>3 DEF ConnTypeOK
  <2> QED BY <1>1, <2>1, <2>2 DEF ConnTypeOK, situation, terminal
<1>7. Progress(s)'
  <2>1. /\ remote[s] # {} => link[s] = "broken"
        /\ result[s] = "none" => ran[s] /\ Connected(s) /\ Informed(s)
    BY <1>1 DEF EInv, Progress
  <2>2. (Connected(s) <=> Connected(s)') /\ (Informed(s) <=> Informed(s)') /\ (s \in Deployed)'
    BY <1>1 DEF Connected, Informed, Deployed, fileVars
  <2> QED BY <1>1, <1>2, <1>3, <1>4, <1>5, <2>1, <2>2 DEF Progress, BeforeDial, Working, situation
<1>8. Quiet'
  <2>1. Prompts' = Prompts /\ \A t \in Session : at'[t] = at[t] \/ at'[t] \notin {"save", "muted", "typed"}
    BY <1>1, <1>5 DEF Prompts
  <2> QED BY <1>1, <2>1, QuietStays DEF EInv
<1> QED BY <1>1, <1>5, <1>6, <1>7, <1>8, StepKeeps DEF EInv, Shapes, situation, fileVars

LEMMA WorksKeeps == ASSUME EInv, NEW s \in Session, Works(s) PROVE EInv'
<1>1. stage = "sessions" /\ s \in Deployed /\ UNCHANGED fileVars
  BY DEF Works
<1>2. /\ uploaded = [uploaded EXCEPT ![s] = uploaded[s]]
      /\ ran = [ran EXCEPT ![s] = ran[s]] /\ ran[s] \in BOOLEAN
      /\ Progress(s)
  BY DEF EInv, Shapes, ConnTypeOK
<1>3. CASE Authenticate(s) \/ Save(s) \/ Mute(s) \/ Type(s) \/ Unmute(s)
  BY <1>1, <1>3, AuthenticateKeeps, SaveKeeps, MuteKeeps, TypeKeeps, UnmuteKeeps
<1>4. CASE MakeDir(s)
  <2>1. Command(s, "mkdir", "script", {"dir"}) /\ ran' = ran /\ uploaded' = uploaded
    BY <1>1, <1>4 DEF MakeDir, fileVars
  <2> QED BY <1>1, <1>2, <2>1, CommandKeeps DEF Working, fileVars
<1>5. CASE UploadScript(s)
  <2>1. Command(s, "script", "options", {"script"}) /\ ran' = ran /\ uploaded' = uploaded
    BY <1>1, <1>5 DEF UploadScript, fileVars
  <2> QED BY <1>1, <1>2, <2>1, CommandKeeps DEF Working, fileVars
<1>6. CASE RunScript(s)
  <2>1. Command(s, "run", "remove", {}) /\ at[s] = "run" /\ uploaded' = uploaded
    BY <1>1, <1>6 DEF RunScript, Command, fileVars
  <2>2. uploaded[s] = Options(masters, file[component][s])
    BY <1>2, <2>1 DEF Progress, Informed
  <2>3. PICK yes \in BOOLEAN : /\ ran' = [ran EXCEPT ![s] = yes]
                               /\ yes \/ result'[s] = "install"
    BY <1>2, <1>6 DEF RunScript
  <2> QED BY <1>1, <1>2, <2>1, <2>2, <2>3, CommandKeeps DEF Working, fileVars
<1>7. CASE RemoveDir(s) \/ Close(s)
  BY <1>1, <1>7, RemoveDirKeeps, CloseKeeps
<1> QED BY <1>3, <1>4, <1>5, <1>6, <1>7 DEF Works

LEMMA UploadsOptionsKeeps == ASSUME EInv, NEW s \in Session, UploadsOptions(s) PROVE EInv'
<1>1. /\ stage = "sessions" /\ s \in Deployed
      /\ Command(s, "options", "run", {"options"}) /\ ran' = ran
      /\ uploaded' = [uploaded EXCEPT ![s] = Options(masters, file[component][s])]
      /\ UNCHANGED <<stage, file, given, sshPort, component, masters, dialled>>
  BY DEF UploadsOptions, UploadOptions
<1> DEFINE up == Options(masters, file[component][s])
<1>2. ran' = [ran EXCEPT ![s] = ran[s]] /\ ran[s] \in BOOLEAN
  BY <1>1 DEF EInv, Shapes, ConnTypeOK
<1>3. "options" \in Working /\ "run" \in Working \union {"remove"} /\ "run" # "remove"
  BY DEF Working
<1>4. up = Options(masters, file[component][s]) /\ uploaded' = [uploaded EXCEPT ![s] = up]
  BY <1>1
<1> HIDE DEF up
<1> QED BY <1>1, <1>2, <1>3, <1>4, CommandKeeps

(* The steps of the command itself move no session. *)
LEMMA StageKeeps ==
  ASSUME EInv, UNCHANGED <<connVars, given, sshPort, component, dialled, uploaded>>,
         stage' \in {"version", "read", "defaults", "prepare", "sessions", "exited"}, Stages',
         \/ \A s \in Session : at[s] = "start"
         \/ UNCHANGED <<file, masters>>
  PROVE  EInv'
<1>1. UNCHANGED <<key, agent, at, method, agentConn, echo, saved, crossed, link, remote, ran, result>>
  BY DEF connVars, situation, terminal, onHost
<1>2. Shapes'
  <2>1. ConnTypeOK'
    BY DEF EInv, Shapes, ConnTypeOK, connVars, situation, terminal, onHost
  <2> QED BY <2>1 DEF EInv, Shapes
<1>3. ASSUME NEW s \in Session PROVE Progress(s)'
  <2>1. Progress(s)
    BY DEF EInv
  <2>2. CASE UNCHANGED <<file, masters>>
    BY <1>1, <2>1, <2>2, OthersProgress
  <2>3. CASE \A t \in Session : at[t] = "start"
    BY <1>1, <2>1, <2>3 DEF Progress, BeforeDial, Working
  <2> QED BY <2>2, <2>3
<1>4. Quiet'
  BY <1>1 DEF EInv, Quiet, Prompts, Prompting
<1> QED BY <1>2, <1>3, <1>4 DEF EInv

LEMMA EInvNext == EInv /\ [Next]_vars => EInv'
<1> SUFFICES ASSUME EInv, [Next]_vars PROVE EInv'
  OBVIOUS
<1>1. CASE LookupVersion \/ ReadFile \/ Exit \/ Exited \/ UNCHANGED vars
  <2>1. /\ UNCHANGED <<connVars, file, given, sshPort, component, masters, dialled, uploaded>>
        /\ \/ stage' = stage
           \/ stage = "version" /\ stage' \in {"read", "exited"}
           \/ stage = "read" /\ stage' \in {"defaults", "exited"}
           \/ stage = "sessions" /\ stage' = "exited"
    BY <1>1 DEF LookupVersion, ReadFile, Exit, Exited, Advance, vars, fileVars
  <2>2. Filled' = Filled /\ Completed' = Completed /\ at' = at
    BY <2>1 DEF Filled, Completed, connVars
  <2>3. Stages'
    BY <2>1, <2>2 DEF EInv, Stages
  <2>4. stage' \in {"version", "read", "defaults", "prepare", "sessions", "exited"}
    BY <2>1 DEF EInv, Shapes
  <2> QED BY <2>1, <2>3, <2>4, StageKeeps
<1>2. CASE FillDefaults
  <2>1. /\ stage = "defaults" /\ stage' = "prepare"
        /\ UNCHANGED <<connVars, given, sshPort, component, masters, dialled, uploaded>>
        /\ file' = Defaulted(file, LocalIp)
    BY <1>2 DEF FillDefaults, Advance
  <2>2. file = given /\ masters = <<>> /\ \A s \in Session : at[s] = "start"
    BY <2>1 DEF EInv, Stages
  <2>3. Stages'
    BY <2>1, <2>2 DEF Stages, Filled, connVars
  <2> QED BY <2>1, <2>2, <2>3, StageKeeps
<1>3. CASE Prepare
  <2>1. /\ stage = "prepare" /\ stage' = "sessions" /\ password' \in BOOLEAN
        /\ file' = Prepared(file, sshPort) /\ masters' = Masters(file')
        /\ UNCHANGED <<key, agent, at, method, agentConn, echo, saved, crossed,
                       link, remote, ran, result, given, sshPort, component, dialled, uploaded>>
    BY <1>3 DEF Prepare, Advance, terminal, onHost
  <2>2. file = Filled /\ \A s \in Session : at[s] = "start"
    BY <2>1 DEF EInv, Stages
  <2>3. file' = Completed /\ Completed' = Completed
    BY <2>1, <2>2 DEF Completed, Filled
  <2>4. Stages'
    BY <2>1, <2>3 DEF Stages
  <2>5. Shapes'
    <3>1. ConnTypeOK'
      BY <2>1 DEF EInv, Shapes, ConnTypeOK
    <3> QED BY <2>1, <3>1 DEF EInv, Shapes
  <2>6. \A s \in Session : Progress(s)'
    BY <2>1, <2>2 DEF EInv, Progress, BeforeDial, Working
  <2>7. Quiet'
    BY <2>1 DEF EInv, Quiet, Prompts, Prompting
  <2> QED BY <2>4, <2>5, <2>6, <2>7 DEF EInv
<1>4. ASSUME NEW s \in Session, Works(s) PROVE EInv'
  BY <1>4, WorksKeeps
<1>5. ASSUME NEW s \in Session, Dials(s) PROVE EInv'
  BY <1>5, DialsKeeps
<1>6. ASSUME NEW s \in Session, UploadsOptions(s) PROVE EInv'
  BY <1>6, UploadsOptionsKeeps
<1> QED BY <1>1, <1>2, <1>3, <1>4, <1>5, <1>6 DEF Next

LEMMA EInvAlways == Spec => []EInv
BY EInvInit, EInvNext, PTL DEF Spec

-----------------------------------------------------------------------------
(* Every variable keeps its type: whatever the file leaves open, each      *)
(* server has a known address and each master a port before a session of   *)
(* the deployment begins.                                                  *)
THEOREM CommandTypes == Spec => []TypeOK
<1>1. EInv => TypeOK
  <2> SUFFICES ASSUME EInv PROVE TypeOK
    OBVIOUS
  <2>1. given \in Files /\ sshPort \in Nat
    BY DEF EInv, Shapes
  <2>2. \A c \in Kind : Elements(file[c]) \subseteq Server
    <3> SUFFICES ASSUME NEW c \in Kind PROVE Elements(file[c]) \subseteq Server
      OBVIOUS
    <3>1. given[c] \in Seq(Server) /\ Filled[c] \in Seq(Server) /\ Completed[c] \in Seq(Server)
      BY <2>1, CompletedFile
    <3>2. file[c] \in Seq(Server)
      BY <3>1 DEF EInv, Stages
    <3> QED BY <3>2 DEF Elements
  <2>3. Elements(masters) \subseteq Address \X (Nat \ {0})
    <3>1. masters = <<>> \/ masters = Masters(Completed)
      BY DEF EInv, Stages
    <3>2. Masters(Completed) \in Seq(Address \X (Nat \ {0}))
      BY <2>1, CompletedMasters
    <3>3. masters \in Seq(Address \X (Nat \ {0}))
      <4>1. <<>> \in Seq(Address \X (Nat \ {0}))
        OBVIOUS
      <4> QED BY <3>1, <3>2, <4>1
    <3> QED BY <3>3 DEF Elements
  <2> QED BY <2>2, <2>3 DEF EInv, Shapes, TypeOK
<1> QED BY <1>1, EInvAlways, PTL

(* Nothing typed as a passphrase is shown, and the terminal is left as it  *)
(* was, as long as prompts do not meet, however each session ends.         *)
THEOREM PassphraseSafe == Spec => []PassphraseHidden
<1>1. EInv => PassphraseHidden
  BY DEF EInv, Quiet, Prompting, PassphraseHidden
<1> QED BY <1>1, EInvAlways, PTL

(* Whichever of its commands fails, a session that ends has removed its    *)
(* directory unless the link broke, and closed what it opened but for the  *)
(* agent that held another key.                                            *)
THEOREM SessionsCleanUp == Spec => []NothingLeftBehind
<1>1. EInv => NothingLeftBehind
  BY DEF EInv, Progress, NothingLeftBehind
<1> QED BY <1>1, EInvAlways, PTL

(* What a successful session dialled and uploaded is what the operator     *)
(* wrote for that server, completed, and its options name each master at   *)
(* the port that master's own options say.                                 *)
THEOREM ServersAsWritten == Spec => []InstalledAsWritten
<1>1. EInv => InstalledAsWritten
  <2> SUFFICES ASSUME EInv, NEW s \in Session, result[s] = "ok"
               PROVE  LET asked == given[component][s] IN
                 /\ ran[s]
                 /\ dialled[s] = <<IF asked.ip = "" THEN LocalIp ELSE asked.ip,
                                   IF asked.ssh # 0 THEN asked.ssh
                                     ELSE IF sshPort # 0 THEN sshPort ELSE 22>>
                 /\ Len(uploaded[s].masters) = Len(given.master)
                 /\ \A i \in DOMAIN given.master :
                      uploaded[s].masters[i] = <<file.master[i].ip,
                                                 Options(masters, file.master[i]).port>>
                 /\ uploaded[s].port # 0
    BY DEF InstalledAsWritten
  <2> DEFINE asked == given[component][s]
             server == file[component][s]
  <2>1. /\ given \in Files /\ sshPort \in Nat /\ component \in Kind \ {"envoy"}
        /\ component \in {"volume", "filer"}
    BY DEF EInv, Shapes, Kind
  <2>2. /\ s \in Deployed /\ at[s] = "ended"
        /\ ran[s] /\ Connected(s) /\ Informed(s)
    BY DEF EInv, Progress
  <2>3. file = Completed /\ masters = Masters(Completed)
    BY <2>2 DEF EInv, Stages
  <2>4. s \in 1..Len(given[component]) /\ s \in Nat \ {0}
    BY <2>1, <2>2, <2>3, TypesOfServers
  <2>5. /\ server.ip = IpOf(asked) /\ server.ssh = SshOf(asked)
        /\ server.port = PortOf(component, s) /\ asked \in Server
    BY <2>1, <2>3, <2>4, CompletedFile
  <2>6. dialled[s] = <<IF asked.ip = "" THEN LocalIp ELSE asked.ip,
                       IF asked.ssh # 0 THEN asked.ssh
                         ELSE IF sshPort # 0 THEN sshPort ELSE 22>>
    BY <2>2, <2>5 DEF Connected, IpOf, SshOf, NvlInt
  <2>7. uploaded[s].masters = masters /\ uploaded[s].port = server.port
    BY <2>2 DEF Informed, Options
  <2>8. server.port # 0
    <3>1. DefaultPort(component, s) # 0
      BY <2>1, <2>4, DefaultPortType
    <3> QED BY <2>1, <2>5, <3>1 DEF PortOf, NvlInt
  <2>9. /\ Len(masters) = Len(given.master)
        /\ \A i \in DOMAIN given.master :
             masters[i] = <<file.master[i].ip, Options(masters, file.master[i]).port>>
    <3>1. DOMAIN given.master = 1..Len(given.master)
      <4>1. given["master"] \in Seq(Server)
        BY <2>1, CompletedFile DEF Kind
      <4> QED BY <4>1
    <3>2. \A i \in 1..Len(given.master) : masters[i] = <<file.master[i].ip, file.master[i].port>>
      BY <2>1, <2>3, CompletedMasters
    <3>3. \A i : Options(masters, file.master[i]).port = file.master[i].port
      BY DEF Options
    <3> QED BY <2>1, <2>3, <3>1, <3>2, <3>3, CompletedMasters
  <2> QED BY <2>2, <2>6, <2>7, <2>8, <2>9
<1> QED BY <1>1, EInvAlways, PTL

(* A proxy reaches every filer of any file at the port of its options, and *)
(* for gRPC at the port weed chooses, unless the file gives it another.    *)
THEOREM FilersRouted == Spec => []RoutesReachFilers
<1>1. EInv => RoutesReachFilers
  <2> SUFFICES ASSUME EInv, stage = "sessions", NEW e \in Elements(file.envoy)
               PROVE  LET r == Routes(file, e)
                          weeds == {i \in DOMAIN file.filer :
                                      given.filer[i].grpc \in {0, GrpcPort(file.filer[i])}} IN
                 /\ e.port # 0 => \A f \in Elements(file.filer) :
                      \E x \in r.filer : x[1] = f.ip /\ x[2] = Options(masters, f).port /\ x[2] # 0
                 /\ e.grpc # 0 =>
                      \A i \in weeds : <<file.filer[i].ip, GrpcPort(file.filer[i])>> \in r.grpc
                 /\ weeds = DOMAIN file.filer =>
                      \A x \in r.grpc : \E f \in Elements(file.filer) : x = <<f.ip, GrpcPort(f)>>
    BY DEF RoutesReachFilers
  <2> DEFINE weeds == {i \in DOMAIN file["filer"] :
                         given["filer"][i].grpc \in {0, GrpcPort(file["filer"][i])}}
             r == Routes(file, e)
             fs == WithGrpc(file["filer"])
             filers == Elements(fs)
  <2>1. given \in Files /\ sshPort \in Nat /\ file = Completed /\ "filer" \in Kind \ {"envoy"}
    BY DEF EInv, Shapes, Stages, Kind
  <2>2. /\ given["filer"] \in Seq(Server) /\ file["filer"] \in Seq(Server)
        /\ Len(file["filer"]) = Len(given["filer"]) /\ Len(given["filer"]) \in Nat
    BY <2>1, CompletedFile
  <2>3. DOMAIN file["filer"] = 1..Len(given["filer"]) /\ DOMAIN given["filer"] = 1..Len(given["filer"])
    BY <2>2
  <2>4. ASSUME NEW j \in DOMAIN file["filer"]
        PROVE  /\ file["filer"][j] \in Server /\ given["filer"][j] \in Server
               /\ file["filer"][j].grpc = given["filer"][j].grpc
               /\ file["filer"][j].port # 0
    <3>1. /\ file["filer"][j] \in Server /\ given["filer"][j] \in Server
          /\ file["filer"][j].grpc = given["filer"][j].grpc
          /\ file["filer"][j].port = PortOf("filer", j)
      BY <2>1, <2>3, CompletedFile
    <3>2. DefaultPort("filer", j) # 0
      BY <2>1, <2>2, <2>3, DefaultPortType
    <3>3. file["filer"][j].port # 0
      BY <3>1, <3>2 DEF PortOf, NvlInt
    <3> QED BY <3>1, <3>3
  <2>5. /\ DOMAIN fs = DOMAIN file["filer"]
        /\ \A j \in DOMAIN fs :
             fs[j] = [file["filer"][j] EXCEPT !.grpc = NvlInt(@, file["filer"][j].port + 10000)]
    BY DEF WithGrpc
  <2>6. ASSUME NEW j \in DOMAIN file["filer"]
        PROVE  /\ fs[j].ip = file["filer"][j].ip /\ fs[j].port = file["filer"][j].port
               /\ fs[j].grpc = NvlInt(file["filer"][j].grpc, file["filer"][j].port + 10000)
    <3> DEFINE y == file["filer"][j]
               k == NvlInt(y.grpc, y.port + 10000)
    <3>1. y \in Server /\ fs[j] = [y EXCEPT !.grpc = k]
      BY <2>4, <2>5
    <3> HIDE DEF y, k
    <3>2. fs[j].ip = y.ip /\ fs[j].port = y.port /\ fs[j].grpc = k
      BY <3>1 DEF Server
    <3> QED BY <3>2 DEF y, k
  <2>7. /\ \A j \in DOMAIN file["filer"] : fs[j] \in filers
        /\ \A y \in filers : \E j \in DOMAIN file["filer"] : y = fs[j]
    BY <2>5 DEF Elements
  <2>8. /\ e.port # 0 /\ filers # {} => r.filer = {<<y.ip, y.port>> : y \in filers}
        /\ e.grpc # 0 /\ filers # {} => r.grpc = {<<y.ip, y.grpc>> : y \in filers}
        /\ r.grpc \subseteq {<<y.ip, y.grpc>> : y \in filers}
    BY DEF Routes
  <2>9. ASSUME NEW j \in weeds PROVE fs[j].grpc = GrpcPort(file["filer"][j])
    <3>1. file["filer"][j].port \in Nat
      BY <2>4 DEF Server
    <3> QED BY <2>4, <2>6, <3>1 DEF NvlInt, GrpcPort
  <2> HIDE DEF r, fs, weeds
  <2>10. ASSUME e.port # 0, NEW f \in Elements(file["filer"])
         PROVE  \E x \in r.filer : x[1] = f.ip /\ x[2] = Options(masters, f).port /\ x[2] # 0
    <3>1. PICK j \in DOMAIN file["filer"] : f = file["filer"][j]
      BY DEF Elements
    <3>2. <<fs[j].ip, fs[j].port>> \in r.filer
      BY <2>7, <2>8, <2>10
    <3>3. fs[j].ip = f.ip /\ fs[j].port = f.port /\ f.port # 0 /\ Options(masters, f).port = f.port
      BY <2>4, <2>6, <3>1 DEF Options
    <3> QED BY <3>2, <3>3
  <2>11. ASSUME e.grpc # 0, NEW j \in weeds
         PROVE  <<file["filer"][j].ip, GrpcPort(file["filer"][j])>> \in r.grpc
    <3>1. j \in DOMAIN file["filer"]
      BY DEF weeds
    <3> QED BY <2>6, <2>7, <2>8, <2>9, <2>11, <3>1
  <2>12. ASSUME weeds = DOMAIN file["filer"], NEW x \in r.grpc
         PROVE  \E f \in Elements(file["filer"]) : x = <<f.ip, GrpcPort(f)>>
    <3>1. PICK j \in DOMAIN file["filer"] : x = <<fs[j].ip, fs[j].grpc>>
      BY <2>7, <2>8
    <3>2. x = <<file["filer"][j].ip, GrpcPort(file["filer"][j])>>
      BY <2>6, <2>9, <2>12, <3>1
    <3>3. file["filer"][j] \in Elements(file["filer"])
      BY DEF Elements
    <3> QED BY <3>2, <3>3
  <2> QED BY <2>10, <2>11, <2>12 DEF r, weeds
<1> QED BY <1>1, EInvAlways, PTL

(* The lists the counted ports have room for: 8080 to 8887 are for volume  *)
(* servers, 8888 to 9332 for filers, and 9333 to 18079, where the gRPC     *)
(* ports of the volume servers begin, for masters.                         *)
ListsFit ==
  \A l \in Files : Len(l["volume"]) <= 808 /\ Len(l["filer"]) <= 445 /\ Len(l["master"]) <= 8747

(* As long as the lists fit, no two servers whose ports the file leaves    *)
(* open collide on any port, those of metrics and gRPC included.  With one *)
(* server more in a list they would: the loops of deploy only count.       *)
THEOREM PortsFree == ListsFit => (Spec => []DefaultPortsFree)
<1> SUFFICES ASSUME ListsFit PROVE Spec => []DefaultPortsFree
  OBVIOUS
<1>1. EInv => DefaultPortsFree
  <2> SUFFICES ASSUME EInv, stage = "sessions", NEW p \in Places(file), NEW q \in Places(file), p # q,
                      given[p[1]][p[2]].port = 0, given[q[1]][q[2]].port = 0
               PROVE  Listens(file[p[1]][p[2]]) \intersect Listens(file[q[1]][q[2]]) = {}
    BY DEF DefaultPortsFree
  <2>1. given \in Files /\ sshPort \in Nat /\ file = Completed
    BY DEF EInv, Shapes, Stages
  <2>2. /\ Len(given["volume"]) <= 808 /\ Len(given["filer"]) <= 445
        /\ Len(given["master"]) <= 8747
    BY <2>1 DEF ListsFit
  <2>3. ASSUME NEW c \in {"master", "volume", "filer"}, NEW i \in Nat \ {0}, i <= Len(file[c]),
               given[c][i].port = 0
        PROVE  /\ i <= Len(given[c]) /\ file[c][i].port = FirstPort[c] + i - 1
    <3>1. c \in Kind \ {"envoy"} /\ Len(file[c]) = Len(given[c]) /\ Len(given[c]) \in Nat
      <4>1. c \in Kind \ {"envoy"}
        BY DEF Kind
      <4> QED BY <2>1, <4>1, CompletedFile
    <3>2. i \in 1..Len(given[c])
      BY <2>3, <3>1
    <3>3. file[c][i].port = PortOf(c, i)
      BY <2>1, <3>1, <3>2, CompletedFile
    <3> QED BY <2>3, <3>1, <3>2, <3>3 DEF PortOf, NvlInt, DefaultPort
  <2>4. ASSUME NEW x \in Places(file), given[x[1]][x[2]].port = 0
        PROVE  LET n == file[x[1]][x[2]].port IN
               /\ x = <<x[1], x[2]>> /\ x[1] \in {"master", "volume", "filer"} /\ x[2] \in Nat
               /\ n \in Nat
               /\ x[1] = "volume" => n = 8079 + x[2] /\ n >= 8080 /\ n < 8888
               /\ x[1] = "filer" => n = 8887 + x[2] /\ n >= 8888 /\ n < 9333
               /\ x[1] = "master" => n = 9332 + x[2] /\ n >= 9333 /\ n < 18080
    <3>1. /\ x = <<x[1], x[2]>> /\ x[1] \in {"master", "volume", "filer"} /\ x[2] \in Nat \ {0}
          /\ x[2] <= Len(file[x[1]])
      BY DEF Places, Kind
    <3>2. x[2] <= Len(given[x[1]]) /\ file[x[1]][x[2]].port = FirstPort[x[1]] + x[2] - 1
      BY <2>3, <2>4, <3>1
    <3>3. CASE x[1] = "volume"
      BY <2>2, <3>1, <3>2, <3>3 DEF FirstPort
    <3>4. CASE x[1] = "filer"
      BY <2>2, <3>1, <3>2, <3>4 DEF FirstPort
    <3>5. CASE x[1] = "master"
      BY <2>2, <3>1, <3>2, <3>5 DEF FirstPort
    <3> QED BY <3>1, <3>3, <3>4, <3>5
  <2> DEFINE m == file[p[1]][p[2]].port
             n == file[q[1]][q[2]].port
  <2>5. /\ p = <<p[1], p[2]>> /\ p[1] \in {"master", "volume", "filer"} /\ p[2] \in Nat /\ m \in Nat
        /\ p[1] = "volume" => m = 8079 + p[2] /\ m >= 8080 /\ m < 8888
        /\ p[1] = "filer" => m = 8887 + p[2] /\ m >= 8888 /\ m < 9333
        /\ p[1] = "master" => m = 9332 + p[2] /\ m >= 9333 /\ m < 18080
    BY <2>4
  <2>6. /\ q = <<q[1], q[2]>> /\ q[1] \in {"master", "volume", "filer"} /\ q[2] \in Nat /\ n \in Nat
        /\ q[1] = "volume" => n = 8079 + q[2] /\ n >= 8080 /\ n < 8888
        /\ q[1] = "filer" => n = 8887 + q[2] /\ n >= 8888 /\ n < 9333
        /\ q[1] = "master" => n = 9332 + q[2] /\ n >= 9333 /\ n < 18080
    BY <2>4
  <2> HIDE DEF m, n
  <2>7. /\ m \in Nat /\ n \in Nat
        /\ m >= 8080 /\ m < 18080 /\ n >= 8080 /\ n < 18080
    <3>1. m \in Nat /\ m >= 8080 /\ m < 18080
      BY <2>5
    <3>2. n \in Nat /\ n >= 8080 /\ n < 18080
      BY <2>6
    <3> QED BY <3>1, <3>2
  <2>8. m # n
    <3>1. ASSUME m = n PROVE p[1] = q[1] /\ p[2] = q[2]
      BY <2>5, <2>6, <3>1
    <3> QED BY <2>5, <2>6, <3>1
  <2>9. {m, 20000 + m, 10000 + m} \intersect {n, 20000 + n, 10000 + n} = {}
    BY <2>7, <2>8
  <2> QED BY <2>9 DEF Listens, GrpcPort, m, n
<1> QED BY <1>1, EInvAlways, PTL

=============================================================================
