-------------------------- MODULE MCDeployCommand --------------------------
(***************************************************************************)
(* Four small cluster files: everything left open on one host; addresses,  *)
(* ports and ssh ports given; an address with colons; a filer that offers  *)
(* S3 and another one that offers WebDAV, whose gRPC port is the one weed  *)
(* chooses.                                                                *)
(***************************************************************************)
EXTENDS DeployCommand

Open == [ip |-> "", port |-> 0, ssh |-> 0, grpc |-> 0,
         s3 |-> FALSE, s3port |-> 0, webdav |-> FALSE, davport |-> 0]
At(ip, port) == [Open EXCEPT !.ip = ip, !.port = port]
Proxy(ip) == [Open EXCEPT !.ip = ip, !.port = 80, !.grpc = 81, !.s3port = 82, !.davport = 83]

LeftOpen == [master |-> <<Open, Open>>, volume |-> <<Open, Open>>,
             filer |-> <<[Open EXCEPT !.s3 = TRUE]>>, envoy |-> <<Proxy("")>>]
Given    == [master |-> <<At("m", 9400), Open>>,
             volume |-> <<[At("v", 8300) EXCEPT !.ssh = 2222], At("v", 8301)>>,
             filer  |-> <<[At("f", 0) EXCEPT !.s3port = 8333, !.davport = 7333],
                          [At("g", 8890) EXCEPT !.grpc = 5000]>>,
             envoy  |-> <<[Proxy("e") EXCEPT !.s3port = 0], At("e", 0)>>]
Colons   == [master |-> <<At("m", 0)>>, volume |-> <<At("v", 0), At("::v", 0)>>,
             filer |-> <<>>, envoy |-> <<Proxy("e")>>]
Apart    == [master |-> <<>>, volume |-> <<At("v", 0)>>,
             filer |-> <<[At("f", 0) EXCEPT !.s3 = TRUE, !.s3port = 8333],
                         [At("g", 0) EXCEPT !.grpc = 18889, !.webdav = TRUE, !.davport = 7333]>>,
             envoy |-> <<Proxy("e")>>]

MCFiles    == {LeftOpen, Given, Colons, Apart}
MCIp       == {"", "local", "m", "v", "::v", "f", "g", "e"}
MCSession  == {1, 2}
MCColonIps == {"::v"}

(* Every identity file and agent with one file, every file with one key.   *)
MCStarts == ({LeftOpen} \X {"volume"} \X {2022} \X Key \X Agent)
              \union (MCFiles \X {"volume", "filer"} \X {0, 2022} \X {"plain"} \X {"absent"})

=============================================================================
