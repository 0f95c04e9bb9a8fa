---------------------------- MODULE MCForwarding ----------------------------
(* Small instances of Forwarding.                                          *)
EXTENDS Forwarding
=============================================================================
