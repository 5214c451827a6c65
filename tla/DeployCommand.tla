--------------------------- MODULE DeployCommand ---------------------------
(***************************************************************************)
(* The `deploy` command around DeployCluster: the release is looked up,    *)
(* the cluster file read, defaults filled in, the sudo password asked for, *)
(* and then the servers of a component deployed at once, each in a session *)
(* of Connect, with options made from the file.  That the masters come     *)
(* before and the proxies after is the subject of DeployCluster; here the  *)
(* operator asks for one component, volume or filer.                       *)
(***************************************************************************)
EXTENDS Connect, ClusterFile

CONSTANTS
  Files,      \* the cluster files the operator may have written
  LocalIp,    \* this host's private address
  ColonIps,   \* addresses with colons (IPv6), which no port can be appended to
  Starts      \* file, --component, --port, identity file and agent it may be started with

VARIABLES
  stage,      \* where the command is
  file,       \* the specification in memory, which each stage changes in place
  given,      \* the file as the operator wrote it
  sshPort,    \* --port
  component,  \* --component
  masters,    \* the addresses of the masters that DeployCluster computes
  dialled,    \* dialled[s]: the address session s connects to
  uploaded    \* uploaded[s]: the options session s puts on its host

fileVars == <<stage, file, given, sshPort, component, masters, dialled, uploaded>>
vars     == <<connVars, fileVars>>

Address == Ip \ {""}

ASSUME FilesAssumption == Files \subseteq [Kind -> Seq(Server)]
ASSUME LocalAssumption == LocalIp \in Address
ASSUME StartsAssumption == Starts \subseteq Files \X {"volume", "filer"} \X Nat \X Key \X Agent
ASSUME SessionsAreServers == Session = 1..Cardinality(Session)

NoAddress == <<"", 0>>
NoOptions == [masters |-> <<>>, port |-> 0, metricsPort |-> 0]

(* A goroutine is started for every server of the component. *)
Deployed == {s \in Session : s <= Len(file[component])}

Init ==
  /\ \E start \in Starts :
       /\ given = start[1] /\ component = start[2] /\ sshPort = start[3]
       /\ key = start[4] /\ agent = start[5]
  /\ ConnInit
  /\ stage = "version"
  /\ file = given
  /\ masters = <<>>
  /\ dialled = [s \in Session |-> NoAddress]
  /\ uploaded = [s \in Session |-> NoOptions]

Advance(from, to) == stage = from /\ stage' = to

-----------------------------------------------------------------------------
(* The release, the file: each may fail and end the command. *)
LookupVersion ==
  /\ Advance("version", "read") \/ Advance("version", "exited")
  /\ UNCHANGED <<connVars, file, given, sshPort, component, masters, dialled, uploaded>>

ReadFile ==
  /\ Advance("read", "defaults") \/ Advance("read", "exited")
  /\ UNCHANGED <<connVars, file, given, sshPort, component, masters, dialled, uploaded>>

(* Mutant: the loops over the lists change copies of the servers. *)
FillCopies ==
  /\ Advance("defaults", "prepare")
  /\ file' = [file EXCEPT !.envoy = Defaulted(file, LocalIp).envoy]
  /\ UNCHANGED <<connVars, given, sshPort, component, masters, dialled, uploaded>>

FillDefaults ==
  /\ Advance("defaults", "prepare")
  /\ file' = Defaulted(file, LocalIp)
  /\ UNCHANGED <<connVars, given, sshPort, component, masters, dialled, uploaded>>

(* prepare: the password (none for root, or when nothing is typed), and    *)
(* the rest of the defaults; then the list of masters.                     *)
Prepare ==
  /\ Advance("prepare", "sessions")
  /\ password' \in BOOLEAN
  /\ file' = Prepared(file, sshPort)
  /\ masters' = Masters(file')
  /\ UNCHANGED <<key, agent, at, method, agentConn, terminal, onHost, result,
                 given, sshPort, component, dialled, uploaded>>

(* A step of the session with server s.  The address it dials must split   *)
(* into host and port.                                                     *)
Works(s) ==
  /\ stage = "sessions" /\ s \in Deployed
  /\ \/ Authenticate(s) \/ Save(s) \/ Mute(s) \/ Type(s) \/ Unmute(s)
     \/ MakeDir(s) \/ UploadScript(s) \/ RunScript(s) \/ RemoveDir(s) \/ Close(s)
  /\ UNCHANGED fileVars

Dials(s) ==
  LET server == file[component][s] IN
  /\ stage = "sessions" /\ s \in Deployed
  /\ Dial(s)
  /\ server.ip \in ColonIps => link'[s] # "up"
  /\ dialled' = IF server.ip \in ColonIps
                  THEN dialled ELSE [dialled EXCEPT ![s] = <<server.ip, server.ssh>>]
  /\ UNCHANGED <<stage, file, given, sshPort, component, masters, uploaded>>

UploadsOptions(s) ==
  /\ stage = "sessions" /\ s \in Deployed
  /\ UploadOptions(s)
  /\ uploaded' = [uploaded EXCEPT ![s] = Options(masters, file[component][s])]
  /\ UNCHANGED <<stage, file, given, sshPort, component, masters, dialled>>

(* wg.Wait() is over, the command returns. *)
Exit ==
  /\ Advance("sessions", "exited")
  /\ \A s \in Deployed : at[s] = "ended"
  /\ UNCHANGED <<connVars, file, given, sshPort, component, masters, dialled, uploaded>>

Exited == stage = "exited" /\ UNCHANGED vars

Next ==
  \/ LookupVersion \/ ReadFile \/ FillDefaults \/ Prepare \/ Exit \/ Exited
  \/ \E s \in Session : Works(s) \/ Dials(s) \/ UploadsOptions(s)

Spec == Init /\ [][Next]_vars

(* The program runs; that the operator types or a host answers is not      *)
(* assumed.                                                                *)
FairSpec ==
  /\ Spec
  /\ WF_vars(LookupVersion \/ ReadFile \/ FillDefaults \/ Prepare \/ Exit)
  /\ \A s \in Session : WF_vars(OwnStep(s) /\ Works(s))

-----------------------------------------------------------------------------
(* The types of the state; an address of a master is a known address with  *)
(* a port, since it is built when the defaults are filled in.              *)
TypeOK ==
  /\ ConnTypeOK
  /\ stage \in {"version", "read", "defaults", "prepare", "sessions", "exited"}
  /\ \A c \in Kind : Elements(file[c]) \subseteq Server
  /\ given \in Files /\ sshPort \in Nat /\ component \in {"volume", "filer"}
  /\ Elements(masters) \subseteq Address \X (Nat \ {0})
  /\ dialled \in [Session -> Ip \X Nat]

(* Unless two goroutines prompt at the same time, no passphrase is shown   *)
(* while it is typed, and the terminal echoes again when nobody prompts,   *)
(* whatever ends the sessions.                                             *)
PassphraseHidden ==
  ~ crossed => /\ \A s \in Session : at[s] \in {"muted", "typed"} => ~ echo
               /\ Prompts = {} => echo

(* A session that ends leaves its directory behind only if the link broke, *)
(* and a connection open only to an agent without the key of the identity  *)
(* file.                                                                   *)
NothingLeftBehind ==
  \A s \in Session : at[s] = "ended" =>
    /\ remote[s] # {} => link[s] = "broken"
    /\ link[s] # "up"
    /\ agentConn[s] => agent = "others" /\ key = "protected"

(* A server that is deployed runs the script on the host and ssh port of   *)
(* the cluster file, with options that name every master at the address    *)
(* its own options make it listen on.                                      *)
InstalledAsWritten ==
  \A s \in Session : result[s] = "ok" =>
    LET asked == given[component][s] IN
    /\ ran[s]
    /\ dialled[s] = <<IF asked.ip = "" THEN LocalIp ELSE asked.ip,
                      IF asked.ssh # 0 THEN asked.ssh ELSE IF sshPort # 0 THEN sshPort ELSE 22>>
    /\ Len(uploaded[s].masters) = Len(given.master)
    /\ \A i \in DOMAIN given.master :
         uploaded[s].masters[i] = <<file.master[i].ip, Options(masters, file.master[i]).port>>
    /\ uploaded[s].port # 0

(* Servers of one host whose ports the file leaves open do not get the     *)
(* same port, nor one that another uses for metrics or gRPC.               *)
DefaultPortsFree ==
  stage = "sessions" =>
    \A p, q \in Places(file) :
      LET v == file[p[1]][p[2]]
          w == file[q[1]][q[2]] IN
      p # q /\ v.ip = w.ip /\ given[p[1]][p[2]].port = 0 /\ given[q[1]][q[2]].port = 0
        => Listens(v) \intersect Listens(w) = {}

(* A proxy routes HTTP to every filer at the port of its options, and gRPC *)
(* to each whose port the file leaves to weed, or gives as weed has it, at *)
(* the port weed chooses; if the file does so for all, gRPC goes nowhere   *)
(* else.  Another port.grpc is routed to, but no options file says it.     *)
RoutesReachFilers ==
  stage = "sessions" => \A e \in Elements(file.envoy) :
    LET r     == Routes(file, e)
        weeds == {i \in DOMAIN file.filer : given.filer[i].grpc \in {0, GrpcPort(file.filer[i])}} IN
    /\ e.port # 0 => \A f \in Elements(file.filer) :
         \E x \in r.filer : x[1] = f.ip /\ x[2] = Options(masters, f).port /\ x[2] # 0
    /\ e.grpc # 0 => \A i \in weeds : <<file.filer[i].ip, GrpcPort(file.filer[i])>> \in r.grpc
    /\ weeds = DOMAIN file.filer =>
         \A x \in r.grpc : \E f \in Elements(file.filer) : x = <<f.ip, GrpcPort(f)>>

(* The proxies route WebDAV to the filers that offer WebDAV.               *)
WebdavReachesFilers ==
  stage = "sessions" => \A e \in Elements(file.envoy) :
    \A x \in Routes(file, e).webdav :
      \E f \in Elements(file.filer) : OffersWebdav(f) /\ x = <<f.ip, f.davport>>

(* A host that is silent, or a passphrase nobody types, holds no other     *)
(* session: one whose own host answers ends.                               *)
SessionsEnd ==
  \A s \in Session :
    []<>(at[s] \notin AtHost \union {"muted"}) =>
      (stage = "sessions" /\ s \in Deployed ~> at[s] = "ended")

=============================================================================
