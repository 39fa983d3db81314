----------------------------- MODULE MCTimers -----------------------------
(***************************************************************************)
(* UcpdTimers on two timers of one channel that displace each other: a     *)
(* short one and a longer one.  Channels meet only in the slot of the      *)
(* event, of which the properties do not speak; the proofs are for any     *)
(* number of them.                                                         *)
(***************************************************************************)
EXTENDS UcpdTimers

MCTimersSet == {"CRC_RECEIVE", "SENDER_RESPONSE"}
MCChannelOf == [t \in MCTimersSet |-> 0]
MCPeriods == [t \in MCTimersSet |-> IF t = "CRC_RECEIVE" THEN 1 ELSE 2]
MCEvents ==
  [t \in MCTimersSet |->
     IF t = "CRC_RECEIVE" THEN "CRC_RX_TIMEOUT" ELSE "SRT_EXPIRED"]
=============================================================================
