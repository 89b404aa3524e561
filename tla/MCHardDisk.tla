------------------------------ MODULE MCHardDisk ------------------------------
(* Instances of HardDisk for TLC. *)
EXTENDS HardDisk

CONSTANTS s1, s2, s3
=============================================================================
