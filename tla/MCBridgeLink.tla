---------------------------- MODULE MCBridgeLink ----------------------------
(* A small instance of BridgeLink for TLC, with the framing that lets it   *)
(* read whole frames.                                                      *)
EXTENDS BridgeLink, MCFraming
=============================================================================
