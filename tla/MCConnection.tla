---------------------------- MODULE MCConnection ----------------------------
(***************************************************************************)
(* UcpdConnection with the two safe levels of VBUS, a level between them,  *)
(* and the two results of the ADC that are on different sides of a limit   *)
(* for the watchdog and for the state machine: 167 (804 mV, above 0.8 V)   *)
(* and 986 (4747 mV, below 4.75 V).                                        *)
(***************************************************************************)
EXTENDS UcpdConnection

MCCodes == {0, 167, 500, 986, 1040}
=============================================================================
