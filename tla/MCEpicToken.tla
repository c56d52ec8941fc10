---------------------------- MODULE MCEpicToken ----------------------------
(* Instances of EpicToken for TLC.  The unit is two and a half minutes: a   *)
(* period of 50 minutes, a life of 60, and a time-out longer than the 30 s  *)
(* of the code.                                                             *)
EXTENDS EpicToken

Minutes50 == 20
Minutes60 == 24
=============================================================================
