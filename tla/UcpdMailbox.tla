---------------------------- MODULE UcpdMailbox ----------------------------
(***************************************************************************)
(* How interrupts reach the stack: device/ucpd_events.c, the PHY interrupt *)
(* and the hard reset helper of device/ucpd_hw.c, and the order in which   *)
(* UCPD_PE_PRL_Handler looks at what they left.                            *)
(*                                                                         *)
(* The PHY, timer and ADC interrupts write one slot each and pend the      *)
(* worker.  The worker copies and clears the slots and handles the copies. *)
(* A received hard reset pends a helper below the worker, which masks the  *)
(* interrupts and posts HRD_RECEIVED.  The interrupts preempt the worker   *)
(* and the helper between any two steps; the worker preempts the helper.   *)
(*                                                                         *)
(* What the state machines do with an event is reduced to what comes back  *)
(* to this level: a message is sent, a timer is started, a hard reset is   *)
(* requested or completed, the port is detached.                           *)
(***************************************************************************)
EXTENDS Naturals

CONSTANTS
  PEHardResets, \* whether the policy engine may request hard resets itself
  VbusMoves,    \* whether VBUS may be removed and applied again
  LineFlags     \* the flags that what happens on the CC line raises

ASSUME SwitchesAssumption ==
  /\ PEHardResets \in BOOLEAN /\ VbusMoves \in BOOLEAN
  /\ LineFlags \subseteq {"TYPEC", "HRSTSENT", "RXHRST", "TXDISC", "TXSENT",
                          "RXORD", "RXEND"}

VARIABLES
  sr,         \* flags of the PHY that wait for its interrupt (UCPD_SR)
  imr,        \* flags that may raise the interrupt (UCPD_IMR)
  line,       \* what is on the CC line: nothing, our message, theirs, our reset
  vbus,       \* pwr_sm.state last reached UCPD_PWR_STATE_VBUS_PRESENT, not ABSENT
  timers,     \* running timers
  nvic,       \* interrupts that the NVIC lets through
  pending,    \* software interrupts that are pended
  slot,       \* phy_event, pwr_event and timer_event
  current,    \* current_phy_event, current_pwr_event, current_timer_event
  attached,   \* cad_state = CAD_STATE_ATTACHED
  hardResetActive,
  hrdOriginPE,
  txAllowed,
  wpc,        \* where the worker is
  hpc,        \* where the helper is
  owed        \* history: a received hard reset has not been handled

flags == <<hardResetActive, hrdOriginPE, txAllowed>>
phy   == <<sr, imr, line>>
vars  == <<sr, imr, line, vbus, timers, nvic, pending, slot, current, attached,
           hardResetActive, hrdOriginPE, txAllowed, wpc, hpc, owed>>

-----------------------------------------------------------------------------

NONE   == "NONE"
Masked == {"PHY", "TIM", "ADC"}           \* interrupts that write a slot
Irqs   == Masked \cup {"WORKER", "HELPER"}

NORMAL_MASK     == {"TYPEC", "HRSTSENT", "RXHRST", "TXDISC", "TXSENT", "RXORD",
                    "RXEND"}
PHY_WORKER_MASK == {"RXHRST"}

\* The CC and message events are not told apart.
PhyEvents   == {"HRD_SENT", "HRD_RECEIVED", "OTHER_EVENT"}
PwrEvents   == {"VBUS_DETECTED", "VBUS_REMOVED"}
TimerEvents == {"HARD_RESET_TIMEOUT", "OTHER_TIMEOUT"}

Slots == [phy : PhyEvents \cup {NONE}, pwr : PwrEvents \cup {NONE},
          timer : TimerEvents \cup {NONE}]
Empty == [phy |-> NONE, pwr |-> NONE, timer |-> NONE]

\* The worker: idle, the steps of UCPD_Worker, the stages of the handler.
WorkerPcs == {"idle", "read", "clear", "gate", "pwr", "hrd", "timer", "phy",
              "dpm"}
\* The helper: idle, before lines 130, 133 and 137 of ucpd_events.c.
HelperPcs == {"idle", "block", "unblock", "post"}

TypeOK ==
  /\ sr \subseteq NORMAL_MASK
  /\ imr \subseteq NORMAL_MASK
  /\ line \in {"free", "tx", "rx", "hrst"}
  /\ vbus \in BOOLEAN
  /\ timers \subseteq TimerEvents
  /\ nvic \subseteq Irqs
  /\ pending \subseteq {"WORKER", "HELPER"}
  /\ slot \in Slots
  /\ current \in Slots
  /\ attached \in BOOLEAN
  /\ hardResetActive \in BOOLEAN
  /\ hrdOriginPE \in BOOLEAN
  /\ txAllowed \in BOOLEAN
  /\ wpc \in WorkerPcs
  /\ hpc \in HelperPcs
  /\ owed \in BOOLEAN

\* UCPD_PORT_Init and UCPD_PHY_EnableEvents have run, the port has just been
\* attached.
Init ==
  /\ sr = {}
  /\ imr = NORMAL_MASK
  /\ line = "free"
  /\ vbus = TRUE
  /\ timers = {}
  /\ nvic = Irqs
  /\ pending = {}
  /\ slot = Empty
  /\ current = Empty
  /\ attached = TRUE
  /\ hardResetActive = FALSE
  /\ hrdOriginPE = FALSE
  /\ txAllowed = FALSE
  /\ wpc = "idle"
  /\ hpc = "idle"
  /\ owed = FALSE

-----------------------------------------------------------------------------
\* The partner and the line

Raise(f) == f \in LineFlags /\ sr' = sr \cup {f}

\* A message of the partner starts, then ends.
LineRxStart ==
  /\ line = "free" /\ attached
  /\ line' = "rx"
  /\ Raise("RXORD")
  /\ UNCHANGED <<imr, vbus, timers, nvic, pending, slot, current, attached, flags,
                 wpc, hpc, owed>>

LineRxEnd ==
  /\ line = "rx"
  /\ line' = "free"
  /\ Raise("RXEND")
  /\ UNCHANGED <<imr, vbus, timers, nvic, pending, slot, current, attached, flags,
                 wpc, hpc, owed>>

\* Our message is sent or discarded; our hard reset is sent.
LineTxEnd ==
  /\ \/ /\ line = "tx"
        /\ Raise("TXSENT") \/ Raise("TXDISC")
     \/ /\ line = "hrst"
        /\ Raise("HRSTSENT")
  /\ line' = "free"
  /\ UNCHANGED <<imr, vbus, timers, nvic, pending, slot, current, attached, flags,
                 wpc, hpc, owed>>

\* A hard reset of the partner cuts off what is on the line.  The partner sends
\* the next one only after the sink had the time to handle this one.
LineHardReset ==
  /\ attached /\ "RXHRST" \notin sr /\ ~owed
  /\ line' = "free"
  /\ Raise("RXHRST")
  /\ UNCHANGED <<imr, vbus, timers, nvic, pending, slot, current, attached, flags,
                 wpc, hpc, owed>>

\* The voltage of a CC line changes.
LineTypeC ==
  /\ "TYPEC" \notin sr
  /\ Raise("TYPEC")
  /\ UNCHANGED <<imr, line, vbus, timers, nvic, pending, slot, current, attached,
                 flags, wpc, hpc, owed>>

-----------------------------------------------------------------------------
\* Interrupts of the highest priority

PhyIrq == "PHY" \in nvic /\ sr \cap imr # {}

\* UCPD_PD_PHY_Event_Handle: overwrite the slot and pend the worker.
PostPhy(e) ==
  /\ slot' = [slot EXCEPT !.phy = e]
  /\ pending' = pending \cup {"WORKER"}

\* UCPD_PHY_Handler handles one flag, the first one of this order.
PhyOrder == <<"TYPEC", "HRSTSENT", "RXHRST", "TXDISC", "TXSENT", "RXORD",
              "RXEND">>
First(f) ==
  /\ f \in sr
  /\ \E i \in 1 .. 7 : /\ PhyOrder[i] = f
                       /\ \A j \in 1 .. i - 1 : PhyOrder[j] \notin sr

PhyTypeC ==
  /\ First("TYPEC")
  /\ PostPhy("OTHER_EVENT")
  /\ UNCHANGED <<imr, flags, owed>>

PhyHrstSent ==
  /\ First("HRSTSENT")
  /\ PostPhy("HRD_SENT")
  /\ UNCHANGED <<imr, flags, owed>>

\* UCPD_INT_SET only adds bits to the mask.
INT_SET(mask) == imr' = imr \cup mask

UCPD_PHY_HRDRS_Received ==
  /\ First("RXHRST")
  /\ INT_SET(PHY_WORKER_MASK)
  /\ hardResetActive' = TRUE
  /\ txAllowed' = FALSE
  /\ pending' = pending \cup {"HELPER"}
  /\ owed' = TRUE
  /\ UNCHANGED <<slot, hrdOriginPE>>

UCPD_PHY_TX_Discarded ==
  /\ First("TXDISC")
  /\ PostPhy("OTHER_EVENT")
  /\ UNCHANGED <<imr, flags, owed>>

UCPD_PHY_TX_Complete ==
  /\ First("TXSENT")
  /\ txAllowed' = TRUE
  /\ PostPhy("OTHER_EVENT")
  /\ UNCHANGED <<imr, hardResetActive, hrdOriginPE, owed>>

UCPD_PHY_RX_Started ==
  /\ First("RXORD")
  /\ txAllowed' = FALSE
  /\ UNCHANGED <<imr, slot, pending, hardResetActive, hrdOriginPE, owed>>

\* A message with a reception error posts nothing.
UCPD_PHY_RX_Complete ==
  /\ First("RXEND")
  /\ txAllowed' = TRUE
  /\ PostPhy("OTHER_EVENT") \/ UNCHANGED <<slot, pending>>
  /\ UNCHANGED <<imr, hardResetActive, hrdOriginPE, owed>>

UCPD_PHY_Handler ==
  /\ PhyIrq
  /\ \E f \in sr : First(f) /\ sr' = sr \ {f}
  /\ \/ PhyTypeC
     \/ PhyHrstSent
     \/ UCPD_PHY_HRDRS_Received
     \/ UCPD_PHY_TX_Discarded
     \/ UCPD_PHY_TX_Complete
     \/ UCPD_PHY_RX_Started
     \/ UCPD_PHY_RX_Complete
  /\ UNCHANGED <<line, vbus, timers, nvic, current, attached, wpc, hpc>>

\* UCPD_TIM_Expired
UCPD_TIM_Expired ==
  /\ "TIM" \in nvic
  /\ \E e \in timers :
       /\ timers' = timers \ {e}
       /\ slot' = [slot EXCEPT !.timer = e]
  /\ pending' = pending \cup {"WORKER"}
  /\ UNCHANGED <<phy, vbus, nvic, current, attached, flags, wpc, hpc, owed>>

\* Mutant: the VBUS event goes to the slot of the PHY.
VbusEventInPhySlot ==
  /\ VbusMoves /\ "ADC" \in nvic
  /\ vbus' = ~vbus
  /\ slot' = [slot EXCEPT !.phy = IF vbus THEN "VBUS_REMOVED"
                                         ELSE "VBUS_DETECTED"]
  /\ pending' = pending \cup {"WORKER"}
  /\ UNCHANGED <<phy, timers, nvic, current, attached, flags, wpc, hpc, owed>>

\* The ADC watchdog: VBUS falls to 0 V or reaches 5 V, in turn (UcpdPwr).
UCPD_PWR_SM_Delta ==
  /\ VbusMoves /\ "ADC" \in nvic
  /\ vbus' = ~vbus
  /\ slot' = [slot EXCEPT !.pwr = IF vbus THEN "VBUS_REMOVED" ELSE "VBUS_DETECTED"]
  /\ pending' = pending \cup {"WORKER"}
  /\ UNCHANGED <<phy, timers, nvic, current, attached, flags, wpc, hpc, owed>>

-----------------------------------------------------------------------------
\* UCPD_Worker

\* Mutant: only the timers are masked.
EnterWithoutAdc ==
  /\ wpc = "idle"
  /\ "WORKER" \in pending \cap nvic
  /\ pending' = pending \ {"WORKER"}
  /\ nvic' = nvic \ {"TIM"}
  /\ INT_SET(PHY_WORKER_MASK)
  /\ wpc' = "read"
  /\ UNCHANGED <<sr, line, vbus, timers, slot, current, attached, flags, hpc,
                 owed>>

WorkerEnter ==
  /\ wpc = "idle"
  /\ "WORKER" \in pending \cap nvic
  /\ pending' = pending \ {"WORKER"}
  /\ nvic' = nvic \ {"TIM", "ADC"}
  /\ INT_SET(PHY_WORKER_MASK)
  /\ wpc' = "read"
  /\ UNCHANGED <<sr, line, vbus, timers, slot, current, attached, flags, hpc, owed>>

WorkerRead ==
  /\ wpc = "read"
  /\ current' = slot
  /\ wpc' = "clear"
  /\ UNCHANGED <<phy, vbus, timers, nvic, pending, slot, attached, flags, hpc, owed>>

WorkerClear ==
  /\ wpc = "clear"
  /\ slot' = Empty
  /\ wpc' = "gate"
  /\ UNCHANGED <<phy, vbus, timers, nvic, pending, current, attached, flags, hpc,
                 owed>>

\* While a hard reset of the partner is being received the timers stay masked.
WorkerGate ==
  /\ wpc = "gate"
  /\ IF ~hardResetActive \/ hrdOriginPE
     THEN /\ INT_SET(NORMAL_MASK)
          /\ nvic' = nvic \cup {"TIM", "ADC"}
          /\ UNCHANGED current
     ELSE /\ nvic' = nvic \cup {"ADC"}
          /\ current' = [current EXCEPT !.timer = NONE]
          /\ UNCHANGED imr
  /\ wpc' = "pwr"
  /\ UNCHANGED <<sr, line, vbus, timers, pending, slot, attached, flags, hpc, owed>>

-----------------------------------------------------------------------------
\* UCPD_PE_PRL_Handler, one stage at a time

\* Mutant: the timers stay masked.
CompletedKeepsTim ==
  /\ txAllowed' = TRUE
  /\ hardResetActive' = FALSE
  /\ nvic' = nvic \cup {"PHY"}

\* UCPD_PHY_HRDRS_Completed
Completed ==
  /\ txAllowed' = TRUE
  /\ hardResetActive' = FALSE
  /\ nvic' = nvic \cup {"PHY", "TIM"}

\* UCPD_PHY_SendMessage returns at once when transmission is not allowed.
UCPD_PHY_SendMessage ==
  IF txAllowed
  THEN /\ txAllowed' = FALSE
       /\ line' = IF line = "free" THEN "tx" ELSE line
  ELSE UNCHANGED <<txAllowed, line>>

\* PE_SNK_STATE_HARD_RESET: RESET_LAYER stops every timer, REQUEST_HARD_RESET
\* sends the hard reset and WAIT_FOR_PHY_HARD_RESET_COMPLETE starts its timer.
RequestHardReset ==
  /\ hrdOriginPE' = TRUE
  /\ hardResetActive' = TRUE
  /\ line' = "hrst"
  /\ timers' = {"HARD_RESET_TIMEOUT"}

\* What the state machines may do with an event: nothing that is visible here,
\* start a timer, send a message or request a hard reset.
React ==
  \/ UNCHANGED <<line, timers, flags>>
  \/ /\ timers' = timers \cup {"OTHER_TIMEOUT"}
     /\ UNCHANGED <<line, flags>>
  \/ /\ UCPD_PHY_SendMessage
     /\ UNCHANGED <<timers, hardResetActive, hrdOriginPE>>
  \/ /\ PEHardResets
     /\ RequestHardReset
     /\ UNCHANGED txAllowed

\* PRL_HR_STATE_PHY_HARD_RESET_REQUESTED up to PE_SNK_STATE_DISCOVERY.
HardResetDone ==
  /\ Completed
  /\ hrdOriginPE' = FALSE
  /\ timers' = timers \ {"HARD_RESET_TIMEOUT"}

\* UCPD_CAD_SM_Enter(CAD_STATE_UNATTACHED) drops what this run of the worker still
\* has to handle, stops the timers and leaves only the CC events enabled.
Detach ==
  /\ attached' = FALSE
  /\ current' = Empty
  /\ timers' = {}
  /\ imr' = {"TYPEC"}
  /\ line' = "free"
  /\ owed' = FALSE
  /\ UNCHANGED <<slot, flags>>

\* UCPD_CAD_SM_Enter(CAD_STATE_ATTACHED) clears the record, flags and slots with
\* it, and may start the SinkWaitCapTimer.
Attach ==
  /\ attached' = TRUE
  /\ current' = Empty
  /\ slot' = Empty
  /\ hardResetActive' = FALSE
  /\ hrdOriginPE' = FALSE
  /\ txAllowed' = FALSE
  /\ timers' \in {timers, timers \cup {"OTHER_TIMEOUT"}}
  /\ INT_SET(NORMAL_MASK)
  /\ owed' = FALSE
  /\ UNCHANGED line

HandlePwr ==
  /\ wpc = "pwr"
  /\ \/ /\ current.pwr = "VBUS_REMOVED" /\ attached /\ ~hardResetActive
        /\ Detach
     \/ /\ current.pwr = "VBUS_REMOVED" /\ (attached => hardResetActive)
        /\ current' = [current EXCEPT !.pwr = NONE]
        /\ UNCHANGED <<imr, timers, line, slot, attached, flags, owed>>
     \/ /\ current.pwr = "VBUS_DETECTED" /\ ~attached
        /\ Attach
     \/ /\ current.pwr = "VBUS_DETECTED"
        /\ current' = [current EXCEPT !.pwr = NONE]
        /\ timers' \in {timers, timers \cup {"OTHER_TIMEOUT"}}
        /\ UNCHANGED <<imr, line, slot, attached, flags, owed>>
     \/ /\ current.pwr = NONE
        /\ UNCHANGED <<imr, timers, line, slot, current, attached, flags, owed>>
  /\ wpc' = "hrd"
  /\ UNCHANGED <<sr, vbus, nvic, pending, hpc>>

\* HRD_RECEIVED goes before timers and messages and drops the timer event.  With
\* hrdOriginPE set RESET_LAYER requests the hard reset again.
HandleHrd ==
  /\ wpc = "hrd"
  /\ IF current.phy = "HRD_RECEIVED"
     THEN /\ current' = [current EXCEPT !.phy = NONE, !.timer = NONE]
          /\ owed' = FALSE
          /\ IF hrdOriginPE
             THEN /\ line' = "hrst"
                  /\ timers' = {"HARD_RESET_TIMEOUT"}
                  /\ UNCHANGED <<nvic, flags>>
             ELSE /\ Completed
                  /\ timers' = {}
                  /\ UNCHANGED <<line, hrdOriginPE>>
     ELSE UNCHANGED <<line, timers, nvic, current, flags, owed>>
  /\ wpc' = "timer"
  /\ UNCHANGED <<sr, vbus, imr, pending, slot, attached, hpc>>

\* A timer event: HardResetComplete, the end of the CC debounce, another one.
HandleTimer ==
  /\ wpc = "timer"
  /\ \/ /\ current.timer = "HARD_RESET_TIMEOUT"
        /\ current' = [current EXCEPT !.timer = NONE,
                         !.phy = IF @ = "HRD_SENT" THEN NONE ELSE @]
        /\ HardResetDone
        /\ UNCHANGED <<imr, line, slot, attached, owed>>
     \/ /\ current.timer = "OTHER_TIMEOUT" /\ ~attached
        /\ Attach
        /\ UNCHANGED nvic
     \/ /\ current.timer = "OTHER_TIMEOUT"
        /\ current' = [current EXCEPT !.timer = NONE]
        /\ React
        /\ UNCHANGED <<imr, nvic, slot, attached, owed>>
     \/ /\ current.timer = NONE
        /\ UNCHANGED <<imr, line, timers, nvic, slot, current, attached, flags,
                       owed>>
  /\ wpc' = "phy"
  /\ UNCHANGED <<sr, vbus, pending, hpc>>

HandlePhy ==
  /\ wpc = "phy"
  /\ IF current.phy = "HRD_SENT"
     THEN HardResetDone /\ UNCHANGED line
     ELSE IF current.phy # NONE
     THEN React /\ UNCHANGED nvic
     ELSE UNCHANGED <<line, timers, nvic, flags>>
  /\ current' = [current EXCEPT !.phy = NONE]
  /\ wpc' = "dpm"
  /\ UNCHANGED <<sr, vbus, imr, pending, slot, attached, hpc, owed>>

\* A request of the application, if there is one.
HandleDpm ==
  /\ wpc = "dpm"
  /\ React
  /\ wpc' = "idle"
  /\ UNCHANGED <<sr, vbus, imr, nvic, pending, slot, current, attached, hpc, owed>>

-----------------------------------------------------------------------------
\* UCPD_ISR_HRD_Helper, which runs only while the worker does not

WorkerOff == wpc = "idle" /\ "WORKER" \notin pending \cap nvic

HelperEnter ==
  /\ hpc = "idle" /\ WorkerOff
  /\ "HELPER" \in pending \cap nvic
  /\ pending' = pending \ {"HELPER"}
  /\ nvic' = nvic \ {"WORKER"}
  /\ hpc' = "block"
  /\ UNCHANGED <<phy, vbus, timers, slot, current, attached, flags, wpc, owed>>

\* Mutant: the PHY interrupt stays enabled.
BlockLeavesPhy ==
  /\ hpc = "block" /\ WorkerOff
  /\ nvic' = nvic \ {"TIM", "ADC"}
  /\ hpc' = "unblock"
  /\ UNCHANGED <<phy, vbus, timers, pending, slot, current, attached, flags, wpc,
                 owed>>

HelperBlock ==
  /\ hpc = "block" /\ WorkerOff
  /\ nvic' = nvic \ {"TIM", "ADC", "PHY"}
  /\ hpc' = "unblock"
  /\ UNCHANGED <<phy, vbus, timers, pending, slot, current, attached, flags, wpc,
                 owed>>

HelperUnblock ==
  /\ hpc = "unblock" /\ WorkerOff
  /\ nvic' = nvic \cup {"WORKER"}
  /\ hpc' = "post"
  /\ UNCHANGED <<phy, vbus, timers, pending, slot, current, attached, flags, wpc,
                 owed>>

\* Mutant: the event is written but the worker is not pended.
PostWithoutPend ==
  /\ hpc = "post" /\ WorkerOff
  /\ slot' = [slot EXCEPT !.phy = "HRD_RECEIVED"]
  /\ hpc' = "idle"
  /\ UNCHANGED <<phy, vbus, timers, nvic, pending, current, attached, flags, wpc,
                 owed>>

HelperPost ==
  /\ hpc = "post" /\ WorkerOff
  /\ PostPhy("HRD_RECEIVED")
  /\ hpc' = "idle"
  /\ UNCHANGED <<phy, vbus, timers, nvic, current, attached, flags, wpc, owed>>

-----------------------------------------------------------------------------

Line   == LineRxStart \/ LineRxEnd \/ LineTxEnd \/ LineHardReset \/ LineTypeC
Worker == \/ WorkerEnter \/ WorkerRead \/ WorkerClear \/ WorkerGate
          \/ HandlePwr \/ HandleHrd \/ HandleTimer \/ HandlePhy \/ HandleDpm
Helper == HelperEnter \/ HelperBlock \/ HelperUnblock \/ HelperPost

Next ==
  \/ Line
  \/ UCPD_PHY_Handler
  \/ UCPD_TIM_Expired
  \/ UCPD_PWR_SM_Delta
  \/ Worker
  \/ Helper

Spec == Init /\ [][Next]_vars

\* A pended worker runs and its code does not stop half way; the interrupts that
\* are enabled are taken; the worker, which runs for microseconds while a message
\* is on the line for a millisecond, leaves the processor to the helper again and
\* again.
FairSpec ==
  /\ Spec
  /\ WF_vars(Worker)
  /\ WF_vars(UCPD_PHY_Handler)
  /\ SF_vars(Helper)
  /\ []<>WorkerOff

-----------------------------------------------------------------------------
\* Properties

\* The masks of ucpd_events.c:89-90 work: between the copy and the clearing of
\* the slots no timer or VBUS event comes in that the worker would then erase.
SnapshotKeepsEvents ==
  wpc = "clear" => /\ slot.timer = current.timer
                   /\ slot.pwr = current.pwr

\* Once the helper has posted HRD_RECEIVED nothing replaces it: the event stays
\* in the slot until the worker has copied it, and in the copy until it is
\* handled.  (ucpd_events.c:127-139; the comment at 109-110 wants no timer and no
\* PHY event to interfere with a hard reset that comes from the hardware.)
HardResetDelivered ==
  owed /\ "RXHRST" \notin sr /\ "HELPER" \notin pending /\ hpc = "idle" =>
    \/ slot.phy = "HRD_RECEIVED" /\ (wpc = "idle" => "WORKER" \in pending)
    \/ current.phy = "HRD_RECEIVED" /\ wpc \in {"clear", "gate", "pwr", "hrd"}

\* A received hard reset is handled: the helper gets to run, its event reaches
\* the protocol layer, and what it masked does not keep it from doing so.
HardResetHandled == owed ~> ~owed

\* What the worker and the helper mask in the NVIC (ucpd_events.c:89-90, 129-132)
\* some later step unmasks, UCPD_PHY_HRDRS_Completed for one.
NothingMaskedForever == \A i \in Irqs : i \notin nvic ~> i \in nvic
=============================================================================
