---------------------------- MODULE MCReverseWS ----------------------------
(* Instance of ReverseWS for TLC: one connection in use, one being         *)
(* installed and one being forgotten, an old and a new listener.           *)
EXTENDS ReverseWS
=============================================================================
