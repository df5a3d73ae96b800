----------------------------- MODULE MCLiveHosts -----------------------------
(* A small instance of LiveHosts for TLC.                                  *)
EXTENDS LiveHosts, TLC

HostSymmetry == Permutations(Hosts)
=============================================================================
