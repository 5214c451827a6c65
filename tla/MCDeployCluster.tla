-------------------------- MODULE MCDeployCluster ---------------------------
(***************************************************************************)
(* Small clusters for DeployCluster, with the inductive invariants of its  *)
(* proofs, which TLC checks too.                                           *)
(***************************************************************************)
EXTENDS DeployRolloutProofs

VolumesAndFilers == NVolume + NFiler

=============================================================================
