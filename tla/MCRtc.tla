-------------------------------- MODULE MCRtc --------------------------------
(***************************************************************************)
(* Rtc for TLC.                                                            *)
(***************************************************************************)
EXTENDS Rtc
=============================================================================
