------------------------------ MODULE UcpdVbus ------------------------------
(***************************************************************************)
(* The VBUS monitor: device/ucpd_pwr.c on top of the ADC part of           *)
(* device/ucpd_hw.c.                                                       *)
(*                                                                         *)
(* The ADC converts without a break.  An analog watchdog compares each     *)
(* result with a window and raises a flag outside it; its interrupt        *)
(* disarms the watchdog, reads the voltage again, and the state machine    *)
(* arms it with the next window.  Nothing else ever arms it: a branch that *)
(* does not leaves the port without any further news of VBUS.              *)
(***************************************************************************)
EXTENDS Integers

CONSTANTS
  Codes,    \* the ADC results that VBUS may give
  NoEvent   \* PE_PRL_CAD_EVENT_NONE

ASSUME CodesAssumption == Codes \subseteq 0 .. 4095
ASSUME EventsAssumption == NoEvent \notin {"VBUS_DETECTED", "VBUS_REMOVED"}

VARIABLES
  vbus,        \* what the ADC makes of VBUS now
  window,      \* the watchdog fires "above0V" or "below5V"
  awd_ie,      \* the watchdog interrupt is enabled
  awd_flag,    \* a result was outside the window
  pwr_sm,      \* state, exited_v0 and vbus_vS0_to_vS5
  pwr_event,   \* the slot of the port record
  told,        \* history: what was last announced
  lapsed       \* history: VBUS was back when the interrupt read it again

vbusVars == <<vbus, window, awd_ie, awd_flag, pwr_sm, pwr_event, told, lapsed>>

-----------------------------------------------------------------------------

UPPER_V_SAFE_0V == 800
LOWER_V_SAFE_5V == 4750
ADC_LOW_THRESHOLD_RISE == 167
ADC_HIGH_THRESHOLD_RISE == 986

\* UCPD_PWR_GetVbusVoltage, in millivolts
GetVbusVoltage(code) ==
  LET millivolts == (code * 19717) \div 4095
  IN  IF millivolts > 20000 THEN 20000 ELSE millivolts

At0V(code) == GetVbusVoltage(code) <= UPPER_V_SAFE_0V
At5V(code) == GetVbusVoltage(code) >= LOWER_V_SAFE_5V

Band(code) ==
  IF At5V(code) THEN "5V" ELSE IF At0V(code) THEN "0V" ELSE "between"

\* The comparison that the watchdog makes
Outside(code) ==
  IF window = "above0V" THEN code > ADC_LOW_THRESHOLD_RISE
                        ELSE code < ADC_HIGH_THRESHOLD_RISE

VbusTypeOK ==
  /\ vbus \in Codes
  /\ window \in {"above0V", "below5V"}
  /\ awd_ie \in BOOLEAN
  /\ awd_flag \in BOOLEAN
  /\ pwr_sm \in [state : {"ABSENT", "TRANSIENT", "PRESENT"},
                 exited_v0 : BOOLEAN, vbus_vS0_to_vS5 : BOOLEAN]
  /\ pwr_event \in {NoEvent, "VBUS_DETECTED", "VBUS_REMOVED"}
  /\ told \in {"detected", "removed"}
  /\ lapsed \in BOOLEAN

\* UCPD_PWR_Init reads the data register before the first conversion is through:
\* it holds nothing of VBUS yet, so that the state is ABSENT whatever is connected.
VbusInit ==
  /\ vbus \in Codes
  /\ window = "above0V"
  /\ awd_ie = TRUE
  /\ awd_flag = FALSE
  /\ pwr_sm = [state |-> "ABSENT", exited_v0 |-> FALSE, vbus_vS0_to_vS5 |-> FALSE]
  /\ pwr_event = NoEvent
  /\ told = "removed"
  /\ lapsed = FALSE

\* A conversion outside the window
Convert ==
  /\ Outside(vbus)
  /\ ~awd_flag
  /\ awd_flag' = TRUE
  /\ UNCHANGED <<vbus, window, awd_ie, pwr_sm, pwr_event, told, lapsed>>

-----------------------------------------------------------------------------
\* UCPD_PWR_SM_Delta: each step says what becomes of the state, the watchdog and
\* the slot.

\* AWDEnable clears the flag and enables the interrupt.
AWDEnable(high) ==
  /\ window' = IF high THEN "below5V" ELSE "above0V"
  /\ awd_ie' = TRUE
  /\ awd_flag' = FALSE

\* AWD_Disable at the start of the interrupt is the last word.
StaysDisabled ==
  /\ awd_ie' = FALSE
  /\ awd_flag' = FALSE
  /\ UNCHANGED window

Announce(event) ==
  /\ pwr_event' = event
  /\ told' = IF event = "VBUS_DETECTED" THEN "detected" ELSE "removed"

NothingNew == UNCHANGED <<pwr_event, told>>

\* VBUS is where it was: the case of the switch breaks and arms nothing.
BackAgain ==
  /\ \/ pwr_sm.state = "ABSENT" /\ At0V(vbus)
     \/ pwr_sm.state = "PRESENT" /\ At5V(vbus)
  /\ StaysDisabled
  /\ NothingNew
  /\ lapsed' = TRUE
  /\ UNCHANGED pwr_sm

Rises ==
  /\ pwr_sm.state = "ABSENT"
  /\ Band(vbus) = "between"
  /\ pwr_sm' = [state |-> "TRANSIENT", exited_v0 |-> TRUE, vbus_vS0_to_vS5 |-> FALSE]
  /\ AWDEnable(FALSE)
  /\ NothingNew
  /\ UNCHANGED lapsed

\* VBUS_DETECTED only after 0 V
Arrives ==
  /\ pwr_sm.state \in {"ABSENT", "TRANSIENT"}
  /\ At5V(vbus)
  /\ AWDEnable(TRUE)
  /\ \/ /\ pwr_sm.state = "ABSENT" \/ pwr_sm.exited_v0
        /\ pwr_sm' = [state |-> "PRESENT", exited_v0 |-> FALSE, vbus_vS0_to_vS5 |-> TRUE]
        /\ Announce("VBUS_DETECTED")
     \/ /\ pwr_sm.state = "TRANSIENT" /\ ~pwr_sm.exited_v0
        /\ pwr_sm' = [pwr_sm EXCEPT !.state = "PRESENT"]
        /\ NothingNew
  /\ UNCHANGED lapsed

Lingers ==
  /\ pwr_sm.state = "TRANSIENT"
  /\ Band(vbus) = "between"
  /\ AWDEnable(~pwr_sm.exited_v0)
  /\ NothingNew
  /\ UNCHANGED <<pwr_sm, lapsed>>

Falls ==
  /\ pwr_sm.state = "PRESENT"
  /\ Band(vbus) = "between"
  /\ pwr_sm' = [pwr_sm EXCEPT !.state = "TRANSIENT"]
  /\ AWDEnable(TRUE)
  /\ NothingNew
  /\ UNCHANGED lapsed

\* Mutant of Returns: VBUS_REMOVED also when VBUS never came to 5 V.
ReturnsAlwaysTold ==
  /\ pwr_sm.state \in {"TRANSIENT", "PRESENT"}
  /\ At0V(vbus)
  /\ AWDEnable(FALSE)
  /\ pwr_sm' = [pwr_sm EXCEPT !.state = "ABSENT", !.vbus_vS0_to_vS5 = FALSE]
  /\ Announce("VBUS_REMOVED")
  /\ UNCHANGED lapsed

\* VBUS_REMOVED only after 5 V
Returns ==
  /\ pwr_sm.state \in {"TRANSIENT", "PRESENT"}
  /\ At0V(vbus)
  /\ AWDEnable(FALSE)
  /\ \/ /\ pwr_sm.state = "PRESENT" \/ ~pwr_sm.exited_v0
        /\ pwr_sm' = [pwr_sm EXCEPT !.state = "ABSENT", !.vbus_vS0_to_vS5 = FALSE]
        /\ Announce("VBUS_REMOVED")
     \/ /\ pwr_sm.state = "TRANSIENT" /\ pwr_sm.exited_v0
        /\ pwr_sm' = [pwr_sm EXCEPT !.state = "ABSENT"]
        /\ NothingNew
  /\ UNCHANGED lapsed

\* Mutant of UCPD_PWR_SM_Delta: VBUS that lingers between the levels breaks too.
DeltaLeavesLingering ==
  \/ BackAgain \/ Rises \/ Arrives \/ Falls \/ Returns
  \/ /\ pwr_sm.state = "TRANSIENT" /\ Band(vbus) = "between"
     /\ StaysDisabled /\ NothingNew /\ UNCHANGED <<pwr_sm, lapsed>>

UCPD_PWR_SM_Delta == BackAgain \/ Rises \/ Arrives \/ Lingers \/ Falls \/ Returns

AdcIrq == awd_ie /\ awd_flag

\* UCPD_ADC_ISR with UCPD_PWR_ConversionCallback
UCPD_ADC_ISR == AdcIrq /\ UCPD_PWR_SM_Delta /\ UNCHANGED vbus

\* VBUS moves by one of its levels.  It does so in milliseconds, so that the worker
\* has taken the last announcement by then; the interrupt may still be pending.
VbusMovesTo(code) ==
  /\ pwr_event = NoEvent
  /\ vbus' = code
  /\ UNCHANGED <<window, awd_ie, awd_flag, pwr_sm, pwr_event, told, lapsed>>

\* The worker copies and clears the slot.
SlotTaken ==
  /\ pwr_event' = NoEvent
  /\ UNCHANGED <<vbus, window, awd_ie, awd_flag, pwr_sm, told, lapsed>>

VbusNext ==
  \/ \E code \in Codes : VbusMovesTo(code)
  \/ Convert
  \/ UCPD_ADC_ISR
  \/ SlotTaken

VbusSpec == VbusInit /\ [][VbusNext]_vbusVars

-----------------------------------------------------------------------------
\* Properties

Service ==
  INSTANCE UcpdVbusService WITH band <- Band(vbus), slot <- pwr_event

\* The monitor implements its service: arrivals and returns of VBUS are announced in
\* turn, each while VBUS is there and none in the place of another, whatever VBUS
\* does between the two levels and however late the interrupt is.  (ucpd_pwr.c:42-43 and :58-59)
AnnouncesInTurn == Service!Spec

\* Unless VBUS was back when it was read again, the watchdog is armed, on the side
\* where the next news comes from: a monitor that has told of a removal fires when
\* VBUS rises, one that has told of 5 V fires when it falls.  (hw.c:697, pwr.c:10-108)
ArmedForNews ==
  ~lapsed =>
    /\ awd_ie
    /\ window = IF told = "removed" THEN "above0V" ELSE "below5V"
=============================================================================
