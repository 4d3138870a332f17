----------------------------- MODULE MCHostDx11 -----------------------------
(* Instances of HostDx11 for TLC. *)
EXTENDS HostDx11
=============================================================================
