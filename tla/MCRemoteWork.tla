----------------------------- MODULE MCRemoteWork -----------------------------
(* Two RPC clients racing on the loop, one solver id, two work packages.   *)
EXTENDS RemoteWork

CONSTANTS c1, c2, s1

MCClients == {c1, c2}
MCSolverIds == {s1}
MCRates == {1}
MCMaxWork == 2
=============================================================================
