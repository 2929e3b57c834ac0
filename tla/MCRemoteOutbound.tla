--------------------------- MODULE MCRemoteOutbound ---------------------------
(* A small instance of RemoteOutbound for TLC. *)
EXTENDS RemoteOutbound

CONSTANTS s1, s2

MCStreamOrder == <<s1, s2>>
===============================================================================
