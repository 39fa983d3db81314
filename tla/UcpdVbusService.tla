-------------------------- MODULE UcpdVbusService --------------------------
(***************************************************************************)
(* What the connection, the worker and the policy engine may rely on: VBUS *)
(* moves at will, and each arrival at 5 V and each return to 0 V is        *)
(* announced at most once, in turn, only while it is true, and never in    *)
(* the place of an announcement that nobody has taken.                     *)
(***************************************************************************)
CONSTANT NoEvent

VARIABLES
  band,  \* VBUS is at "0V", "between" or at "5V"
  told,  \* the last announcement: "detected" or "removed"
  slot   \* the announcement that waits to be taken

Bands == {"0V", "between", "5V"}

Init == band \in Bands /\ told = "removed" /\ slot = NoEvent

VbusMoves == band' \in Bands /\ UNCHANGED <<told, slot>>

Detected ==
  /\ band = "5V" /\ told = "removed" /\ slot = NoEvent
  /\ told' = "detected"
  /\ slot' = "VBUS_DETECTED"
  /\ UNCHANGED band

Removed ==
  /\ band = "0V" /\ told = "detected" /\ slot = NoEvent
  /\ told' = "removed"
  /\ slot' = "VBUS_REMOVED"
  /\ UNCHANGED band

Taken == slot' = NoEvent /\ UNCHANGED <<band, told>>

Next == VbusMoves \/ Detected \/ Removed \/ Taken

Spec == Init /\ [][Next]_<<band, told, slot>>
=============================================================================
