--------------------------- MODULE MCInstallHost ----------------------------
(***************************************************************************)
(* A small host for InstallHost: a master with two volume servers, whose   *)
(* sessions overlap.                                                       *)
(***************************************************************************)
EXTENDS InstallHost

CONSTANTS m, v, w   \* a master and two volume servers

MasterAndVolumes == {m, v, w}
BothComponents   == {{m}, {v, w}}

=============================================================================
