------------------------------ MODULE MCRacer ------------------------------
(* Racer for TLC.                                                          *)
EXTENDS Racer

MCStreams == 1..3

=============================================================================
