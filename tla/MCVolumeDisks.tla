--------------------------- MODULE MCVolumeDisks ----------------------------
(***************************************************************************)
(* Three disks for VolumeDisks: /dev/sda, sdb and /dev/sdaa, which a host  *)
(* with more than 26 disks has, and whose path /dev/sda is a prefix of.    *)
(***************************************************************************)
EXTENDS VolumeDisks

CONSTANTS sda, sdb, sdaa

ThreeDisks == {sda, sdb, sdaa}
SdaOfSdaa  == {<<sda, sdaa>>}

=============================================================================
