--------------------------- MODULE MCRemoteClients ---------------------------
(* A small instance of RemoteClients for TLC: no property or action tells  *)
(* one stream from another, so permuting the keys is a symmetry.           *)
EXTENDS RemoteClients

CONSTANTS k1, k2

Symmetry == Permutations(Keys)
===============================================================================
