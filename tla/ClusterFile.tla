---------------------------- MODULE ClusterFile ----------------------------
(***************************************************************************)
(* The cluster file and what the program makes of it: the addresses and    *)
(* ports `deploy` fills in, the values Manager.prepare adds, the options   *)
(* each server is started with and the end points of the envoy proxy.      *)
(*                                                                         *)
(* A file is a record of four lists of servers.  A missing value is "" or  *)
(* 0: the `default:` tags of the structures are read by nobody.  A server  *)
(* has the fields of all kinds of servers; an envoy proxy's port is its    *)
(* filer.port, its grpc its filer.port.grpc.                               *)
(***************************************************************************)
EXTENDS Naturals, Sequences

CONSTANT Ip    \* the addresses, and "" where the file has none

ASSUME IpAssumption == "" \in Ip

Kind   == {"master", "volume", "filer", "envoy"}
Server == [ip : Ip, port : Nat, ssh : Nat, grpc : Nat,
           s3 : BOOLEAN, s3port : Nat, webdav : BOOLEAN, davport : Nat]

Elements(list) == {list[i] : i \in DOMAIN list}

(* The first that is not 0. *)
NvlInt(given, otherwise) == IF given # 0 THEN given ELSE otherwise

FirstPort == [master |-> 9333, volume |-> 8080, filer |-> 8888]

(* Mutant: every server of a list gets the same port. *)
SameDefaultPort(c, i) == FirstPort[c]

(* Default ports are counted up along the list, from 0. *)
DefaultPort(c, i) == FirstPort[c] + i - 1

(* What `deploy` fills in: this host's address, and the ports. *)
Defaulted(file, here) ==
  [c \in Kind |-> [i \in DOMAIN file[c] |->
     [file[c][i] EXCEPT
        !.ip   = IF @ = "" THEN here ELSE @,
        !.port = IF c = "envoy" THEN @ ELSE NvlInt(@, DefaultPort(c, i))]]]

(* Mutant: prepare overrides the port of the file with that of the flag. *)
PreparedByFlag(file, flag) ==
  [c \in Kind |-> [i \in DOMAIN file[c] |->
     [file[c][i] EXCEPT !.ssh = NvlInt(flag, NvlInt(@, 22))]]]

(* What Manager.prepare fills in: the port of the ssh server. *)
Prepared(file, flag) ==
  [c \in Kind |-> [i \in DOMAIN file[c] |->
     [file[c][i] EXCEPT !.ssh = NvlInt(@, NvlInt(flag, 22))]]]

Masters(file) == [i \in DOMAIN file.master |-> <<file.master[i].ip, file.master[i].port>>]

(* The options file of a server: WriteToBuffer, without the `config` of    *)
(* the file, which is copied.                                              *)
Options(masters, server) ==
  [masters |-> masters, port |-> server.port, metricsPort |-> 20000 + server.port]

-----------------------------------------------------------------------------
(* Weed's own choice for gRPC.  A port.grpc or s3.port of the file reaches *)
(* no options file: a server listens there only if its `config` says so.   *)
GrpcPort(server) == 10000 + server.port

(* Mutant: the gRPC port of a filer is left as the file has it. *)
WithoutGrpc(filers) == filers

(* The filers as DeployEnvoyServer sees them. *)
WithGrpc(filers) ==
  [i \in DOMAIN filers |-> [filers[i] EXCEPT !.grpc = NvlInt(@, filers[i].port + 10000)]]

OffersS3(filer)     == filer.s3 \/ filer.s3port # 0
OffersWebdav(filer) == filer.webdav \/ filer.davport # 0

(* The end points of each listener of a proxy; without a port in the       *)
(* file, or without a filer for it, there is no listener.                  *)
Routes(file, envoy) ==
  LET filers == Elements(WithGrpc(file.filer))
      s3     == {f \in filers : OffersS3(f)}
      webdav == {f \in filers : OffersWebdav(f)}
      Route(listens, asked, ends) == IF listens # 0 /\ asked # {} THEN ends ELSE {} IN
  [filer  |-> Route(envoy.port, filers, {<<f.ip, f.port>> : f \in filers}),
   grpc   |-> Route(envoy.grpc, filers, {<<f.ip, f.grpc>> : f \in filers}),
   s3     |-> Route(envoy.s3port, s3, {<<f.ip, f.s3port>> : f \in s3}),
   webdav |-> Route(envoy.davport, webdav, {<<f.ip, f.davport>> : f \in s3})]

-----------------------------------------------------------------------------
(* The ports a server listens on, without a `config`: its own, that of its *)
(* metrics and that for gRPC.                                              *)
Listens(server) == {server.port, 20000 + server.port, GrpcPort(server)}

(* A place in the file: which list, which element. *)
Places(file) ==
  {p \in (Kind \ {"envoy"}) \X (1..Len(file.master) + Len(file.volume) + Len(file.filer)) :
     p[2] <= Len(file[p[1]])}

=============================================================================
