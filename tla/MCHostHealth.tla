---------------------------- MODULE MCHostHealth ----------------------------
(* A small instance of HostHealth for TLC.                                 *)
EXTENDS HostHealth

CONSTANTS p1, e1
=============================================================================
