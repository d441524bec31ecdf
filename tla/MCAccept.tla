------------------------------ MODULE MCAccept ------------------------------
(* Instances of AcceptLoop for TLC.                                        *)
EXTENDS AcceptLoop
=============================================================================
