---------------------------- MODULE MCVmNetwork ----------------------------
(* An instance of VmNetwork and GuestBoot for TLC.                         *)
EXTENDS GuestBoot

\* Neighbours at both ends of what 172.26.0.0/24 has room for, and one more.
BoundaryIds == {0, 1, 63, 64}

MCHostName == <<"fc", "host">>
=============================================================================
