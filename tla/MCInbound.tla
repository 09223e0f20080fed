----------------------------- MODULE MCInbound -----------------------------
(* Instance of Inbound for TLC.                                            *)
EXTENDS Inbound
=============================================================================
