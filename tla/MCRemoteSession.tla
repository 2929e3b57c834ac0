--------------------------- MODULE MCRemoteSession ---------------------------
(* A small instance of RemoteSession for TLC. *)
EXTENDS RemoteSession

CONSTANTS a1, a2, none, h1, h2
===============================================================================
