--------------------------- MODULE UcpdConnection ---------------------------
(***************************************************************************)
(* Attaching and detaching: ucpd/ucpd_typec.c with the CC part of the PHY  *)
(* driver, the two debounce timers, and the worker that serves them, on    *)
(* top of the VBUS monitor.                                                *)
(*                                                                         *)
(* A cable is plugged in either way up, wiggled and pulled, and a source   *)
(* switches VBUS.  The interrupts post to three slots; a run of the worker *)
(* is a snapshot of the slots and, later, the handler, and interrupts may  *)
(* come between the two.                                                   *)
(***************************************************************************)
EXTENDS UcpdVbus, FiniteSets

CONSTANT MaxMoves   \* bound on what cable, source and hard resets do

ASSUME MovesAssumption == MaxMoves \in Nat
ASSUME NoEventAssumption ==
  NoEvent \notin {"CONN_DETECTED", "CONN_REMOVED",
                  "TCDEBOUNCE_TIMEOUT", "TPDEBOUNCE_TIMEOUT"}

VARIABLES
  plug,    \* the CC line that a source pulls up, or "open"
  supply,  \* the source drives VBUS
  moves,   \* what cable, source and hard resets have done so far
  typec,   \* the Type-C event flags of the PHY
  port,    \* the fields of the port record that the connection uses
  hr,      \* hardResetActive
  wpc      \* the worker is "idle" or between the snapshot and the handler

env == <<plug, supply, moves>>
vars == <<vbusVars, env, typec, port, hr, wpc>>

Pins == {"CC1", "CC2"}
NoPin == "NONE"

\* CCDEB and PDDEB share channel 4 with no other timer.
Debounce == {"CCDEB", "PDDEB"}
EventOf(timer) == IF timer = "CCDEB" THEN "TCDEBOUNCE_TIMEOUT" ELSE "TPDEBOUNCE_TIMEOUT"

PhyEvents == {NoEvent, "CONN_DETECTED", "CONN_REMOVED"}
PwrEvents == {NoEvent, "VBUS_DETECTED", "VBUS_REMOVED"}
TimerEvents == {NoEvent} \cup {EventOf(timer) : timer \in Debounce}

\* The first thing that was missed, by history:
\*   late      a debounce timeout handled after the timer had been overtaken
\*   ignored   VBUS_REMOVED during a hard reset
\*   erased    VBUS_REMOVED in the slot when the record was cleared
\*   unsure    attached while no CC line was known
Gaps == {"late", "ignored", "erased", "unsure"}

Ports ==
  [cad : {"NONE", "UNATTACHED", "ATTACH_WAIT", "ATTACHED"},
   vbusDet : BOOLEAN, tccDeb : BOOLEAN,
   cc : Pins \cup {NoPin},         \* UCPD_HW_PORT_Handle.cc
   rx : Pins \cup {"both"},        \* the lines that are enabled
   tim : Debounce \cup {NoPin},    \* owner of channel 4
   phy_event : PhyEvents, timer_event : TimerEvents,
   current_phy : PhyEvents, current_pwr : PwrEvents, current_timer : TimerEvents,
   gap : Gaps \cup {"none"}]

TypeOK ==
  /\ VbusTypeOK
  /\ plug \in Pins \cup {"open"}
  /\ supply \in BOOLEAN
  /\ moves \in 0 .. MaxMoves
  /\ typec \in BOOLEAN
  /\ port \in Ports
  /\ hr \in BOOLEAN
  /\ wpc \in {"idle", "handle"}

\* UCPD_PORT_Init: detection is switched on, and reports what is there.
Init ==
  /\ VbusInit
  /\ plug \in Pins \cup {"open"}
  /\ supply = At5V(vbus)
  /\ supply => plug # "open"
  /\ moves = 0
  /\ typec = (plug # "open")
  /\ port = [cad |-> "UNATTACHED", vbusDet |-> FALSE, tccDeb |-> FALSE,
             cc |-> NoPin, rx |-> "both", tim |-> NoPin,
             phy_event |-> NoEvent, timer_event |-> NoEvent,
             current_phy |-> NoEvent, current_pwr |-> NoEvent,
             current_timer |-> NoEvent, gap |-> "none"]
  /\ hr = FALSE
  /\ wpc = "idle"

-----------------------------------------------------------------------------
\* Cable and source

\* The PHY measures a line that is enabled.
Seen == plug # "open" /\ port.rx \in {plug, "both"}
Sees(pin) == port.rx \in {pin, "both"}

\* A bounded number of moves, none after something was missed
MoveOn ==
  /\ moves < MaxMoves /\ port.gap = "none" /\ ~lapsed
  /\ moves' = moves + 1
  /\ UNCHANGED <<port, wpc>>

Moves == MoveOn /\ UNCHANGED <<vbusVars, hr>>

\* A source that still drives VBUS has not noticed that the cable was out: there
\* was no time to turn it over.
Plug(pin) ==
  /\ plug = "open"
  /\ supply => port.cc \in {pin, NoPin} /\ port.rx \in {pin, "both"}
  /\ plug' = pin
  /\ typec' = (typec \/ Sees(pin))
  /\ UNCHANGED supply
  /\ Moves

Unplug ==
  /\ plug # "open"
  /\ plug' = "open"
  /\ typec' = (typec \/ Seen)
  /\ UNCHANGED supply
  /\ Moves

\* The source turns VBUS off when the cable is out, or for a hard reset.
SupplyOff ==
  /\ supply
  /\ supply' = FALSE
  /\ UNCHANGED <<plug, typec>>
  /\ Moves

\* It turns VBUS on for a sink that it sees, when it has been at 0 V for longer than
\* a conversion and its interrupt take.
SupplyOn ==
  /\ ~supply
  /\ plug # "open"
  /\ At0V(vbus) /\ ~(awd_ie /\ Outside(vbus))
  /\ supply' = TRUE
  /\ UNCHANGED <<plug, typec>>
  /\ Moves

\* The source changes its Rp, to say whether the sink may speak.
RpMoves ==
  /\ Seen
  /\ typec' = TRUE
  /\ UNCHANGED <<plug, supply>>
  /\ Moves

NextLevel(from, to) ==
  /\ from # to
  /\ ~\E code \in Codes : \/ from < code /\ code < to
                          \/ to < code /\ code < from

\* VBUS follows the supply, level by level.
VbusMoves ==
  \E code \in Codes :
    /\ NextLevel(vbus, code)
    /\ supply <=> code > vbus
    /\ VbusMovesTo(code)
    /\ UNCHANGED <<env, typec, port, hr, wpc>>

\* A load makes it dip.
VbusDips ==
  \E code \in Codes :
    /\ NextLevel(vbus, code)
    /\ supply /\ code < vbus
    /\ VbusMovesTo(code)
    /\ UNCHANGED <<plug, supply, typec, hr>>
    /\ MoveOn

-----------------------------------------------------------------------------
\* Interrupts

\* UCPD_PHY_Handler with getCADEventFromCC: cc is what is measured now.
CcChange ==
  /\ typec
  /\ typec' = FALSE
  /\ port' = [port EXCEPT
                !.cc = IF Seen THEN plug ELSE NoPin,
                !.phy_event = IF Seen THEN "CONN_DETECTED" ELSE "CONN_REMOVED"]
  /\ UNCHANGED <<vbusVars, env, hr, wpc>>

\* UCPD_TIM_Handler for channel 4.  The shortest period is of milliseconds: the event
\* of one timer is handled before the next one, started after it, can expire.
TimerExpires ==
  /\ port.tim # NoPin
  /\ {port.timer_event, port.current_timer} = {NoEvent}
  /\ port' = [port EXCEPT !.tim = NoPin, !.timer_event = EventOf(port.tim)]
  /\ UNCHANGED <<vbusVars, env, typec, hr, wpc>>

\* A hard reset of either side; the other modules tell how it ends.
HardResetStarts ==
  /\ port.cad = "ATTACHED" /\ ~hr
  /\ hr' = TRUE
  /\ UNCHANGED <<vbusVars, plug, supply, typec>>
  /\ MoveOn

HardResetEnds ==
  /\ hr /\ wpc = "idle"
  /\ hr' = FALSE
  /\ UNCHANGED <<vbusVars, env, typec, port, wpc>>

-----------------------------------------------------------------------------
\* UCPD_CAD_SM_Delta and UCPD_CAD_SM_Enter, as operators on the record

UCPD_TIM_Start(p, timer) == [p EXCEPT !.tim = timer]
UCPD_TIM_Stop(p, timer) == [p EXCEPT !.tim = IF @ = timer THEN NoPin ELSE @]

MissesIf(p, missed, gap) ==
  IF missed /\ p.gap = "none" THEN [p EXCEPT !.gap = gap] ELSE p

\* Mutant of EnterAttached: no line is chosen when none is known.
AttachesUnknown(p) ==
  [p EXCEPT !.cad = "ATTACHED", !.vbusDet = FALSE, !.tccDeb = FALSE, !.rx = p.cc,
            !.phy_event = NoEvent, !.timer_event = NoEvent,
            !.current_phy = NoEvent, !.current_pwr = NoEvent,
            !.current_timer = NoEvent]

\* UCPD_PE_PRL_CAD_Reset clears the record, the slots with it but not the timers;
\* UCPD_PHY_Attach listens on the line last measured, CC2 when there is none.
EnterAttached(p) ==
  MissesIf([p EXCEPT !.cad = "ATTACHED", !.vbusDet = FALSE, !.tccDeb = FALSE,
                     !.rx = IF p.cc = "CC1" THEN "CC1" ELSE "CC2",
                     !.phy_event = NoEvent, !.timer_event = NoEvent,
                     !.current_phy = NoEvent, !.current_pwr = NoEvent,
                     !.current_timer = NoEvent],
           p.cc = NoPin, "unsure")

\* Every timer is stopped; UCPD_PHY_Detach enables both lines again.
EnterUnattached(p) ==
  IF p.cad = "ATTACHED"
  THEN [p EXCEPT !.cad = "UNATTACHED", !.tim = NoPin, !.cc = NoPin, !.rx = "both",
                 !.current_phy = NoEvent, !.current_pwr = NoEvent,
                 !.current_timer = NoEvent]
  ELSE [p EXCEPT !.cad = "UNATTACHED", !.tim = NoPin]

DebouncesCC(p) == UCPD_TIM_Start(UCPD_TIM_Stop(p, "PDDEB"), "CCDEB")

\* Mutant of ConnDetected: without the clause for ATTACH_WAIT.
ConnDetectedOnce(p) ==
  IF p.cad \in {"NONE", "UNATTACHED"}
  THEN [DebouncesCC(p) EXCEPT !.cad = "ATTACH_WAIT"]
  ELSE p

\* In ATTACHED it is for the protocol layer (PE_PRL_EVENT_TX_OK).
ConnDetected(p) ==
  IF p.cad = "ATTACHED" THEN p
  ELSE [DebouncesCC(p) EXCEPT !.cad = "ATTACH_WAIT"]

\* Mutant of ConnRemoved: the debounce stays done.
ConnRemovedKeepsMark(p) ==
  IF p.cad = "ATTACH_WAIT"
  THEN UCPD_TIM_Start(UCPD_TIM_Stop(p, "CCDEB"), "PDDEB")
  ELSE p

ConnRemoved(p) ==
  IF p.cad = "ATTACH_WAIT"
  THEN UCPD_TIM_Start(UCPD_TIM_Stop([p EXCEPT !.tccDeb = FALSE], "CCDEB"), "PDDEB")
  ELSE p

VbusDetected(p) ==
  IF p.tccDeb THEN EnterAttached(p) ELSE [p EXCEPT !.vbusDet = TRUE]

\* Mutant of VbusRemoved: VBUS counts as seen when it has gone again.
RemovedKeepsVbusDet(p) ==
  IF ~hr /\ p.cad = "ATTACHED" THEN EnterUnattached(p) ELSE p

VbusRemoved(p) ==
  IF hr THEN MissesIf(p, p.cad = "ATTACHED" \/ p.vbusDet, "ignored")
  ELSE IF p.cad = "ATTACHED" THEN EnterUnattached([p EXCEPT !.vbusDet = FALSE])
  ELSE [p EXCEPT !.vbusDet = FALSE]

TcDebounceTimeout(p) ==
  IF p.cad # "ATTACH_WAIT" THEN p
  ELSE MissesIf(IF p.vbusDet THEN EnterAttached(p) ELSE [p EXCEPT !.tccDeb = TRUE],
                p.tim = "PDDEB", "late")

TpDebounceTimeout(p) ==
  MissesIf(EnterUnattached(p), p.cad = "ATTACHED" \/ p.tim = "CCDEB", "late")

PwrDelta(p) ==
  IF p.current_pwr = "VBUS_DETECTED"
  THEN VbusDetected([p EXCEPT !.current_pwr = NoEvent])
  ELSE IF p.current_pwr = "VBUS_REMOVED"
  THEN VbusRemoved([p EXCEPT !.current_pwr = NoEvent])
  ELSE p

RemovalDelta(p) ==
  IF p.current_phy = "CONN_REMOVED"
  THEN ConnRemoved([p EXCEPT !.current_phy = NoEvent])
  ELSE p

TimerDelta(p) ==
  IF p.current_timer = "TCDEBOUNCE_TIMEOUT"
  THEN TcDebounceTimeout([p EXCEPT !.current_timer = NoEvent])
  ELSE IF p.current_timer = "TPDEBOUNCE_TIMEOUT"
  THEN TpDebounceTimeout([p EXCEPT !.current_timer = NoEvent])
  ELSE p

PhyDelta(p) ==
  IF p.current_phy = "CONN_DETECTED"
  THEN ConnDetected([p EXCEPT !.current_phy = NoEvent])
  ELSE p

\* VBUS, then a removal, then the timers, then the rest.  An attach and a detach
\* drop what is left of the snapshot.
UCPD_PE_PRL_Handler(p) == PhyDelta(TimerDelta(RemovalDelta(PwrDelta(p))))

-----------------------------------------------------------------------------
\* The worker, which every interrupt preempts

WorkerAt(pc) == wpc = pc /\ ~typec /\ ~AdcIrq

Pending == {port.phy_event, port.timer_event, pwr_event} # {NoEvent}

\* The timer event is dropped when a hard reset has been received.
Snapshot ==
  /\ WorkerAt("idle")
  /\ Pending
  /\ \E timer \in {port.timer_event} \cup (IF hr THEN {NoEvent} ELSE {}) :
       port' = [port EXCEPT
                  !.current_phy = port.phy_event, !.phy_event = NoEvent,
                  !.current_timer = timer, !.timer_event = NoEvent,
                  !.current_pwr = pwr_event]
  /\ SlotTaken
  /\ wpc' = "handle"
  /\ UNCHANGED <<env, typec, hr>>

Attaches(p) == port.cad # "ATTACHED" /\ p.cad = "ATTACHED"
Detaches(p) == port.cad = "ATTACHED" /\ p.cad # "ATTACHED"

\* An attach clears the slot of the monitor and hardResetActive as well.  A detach
\* enables both lines, which reports a cable that is still there.
Handle ==
  /\ WorkerAt("handle")
  /\ wpc' = "idle"
  /\ \E p \in {UCPD_PE_PRL_Handler(port)} :
       /\ port' = MissesIf(p, Attaches(p) /\ pwr_event = "VBUS_REMOVED", "erased")
       /\ IF Attaches(p) THEN SlotTaken ELSE UNCHANGED vbusVars
       /\ hr' = (hr /\ ~Attaches(p))
       /\ typec' = (Detaches(p) /\ plug # "open")
  /\ UNCHANGED env

Next ==
  \/ \E pin \in Pins : Plug(pin)
  \/ Unplug
  \/ SupplyOff
  \/ SupplyOn
  \/ RpMoves
  \/ VbusMoves
  \/ VbusDips
  \/ Convert /\ UNCHANGED <<env, typec, port, hr, wpc>>
  \/ UCPD_ADC_ISR /\ UNCHANGED <<env, typec, port, hr, wpc>>
  \/ CcChange
  \/ TimerExpires
  \/ HardResetStarts
  \/ HardResetEnds
  \/ Snapshot
  \/ Handle

Spec == Init /\ [][Next]_vars

\* Conversions go on, interrupts are taken, timers expire, hard resets end, and a
\* worker that has something to do runs.  Cable and source are not forced.
Fairness ==
  /\ WF_vars(Convert /\ UNCHANGED <<env, typec, port, hr, wpc>>)
  /\ WF_vars(UCPD_ADC_ISR /\ UNCHANGED <<env, typec, port, hr, wpc>>)
  /\ WF_vars(CcChange)
  /\ WF_vars(TimerExpires)
  /\ SF_vars(HardResetEnds)
  /\ SF_vars(Snapshot)
  /\ SF_vars(Handle)

FairSpec == Spec /\ Fairness

-----------------------------------------------------------------------------
\* Properties

Connected == plug # "open" /\ supply /\ At5V(vbus)
Apart == plug = "open" /\ At0V(vbus)

Settled ==
  /\ Connected => port.cad = "ATTACHED" /\ port.rx = plug
  /\ Apart => port.cad # "ATTACHED"

\* When cable and source come to rest the port is attached, listening on the line
\* of the plug, or not attached, whatever bounced before: unless the monitor has
\* lapsed or one of the gaps was hit.  (ucpd_typec.c:14-211)
Settles == <>[](lapsed \/ port.gap # "none" \/ Settled)

\* The mark that CC was stable belongs to the connection that earned it: it is not
\* left over after a removal, a detach or an attach, where the next VBUS would
\* attach a cable that was never debounced.  (ucpd_typec.c:44, :60-64, :82)
MarkEarned ==
  port.tccDeb /\ port.gap = "none" =>
    port.cad = "ATTACH_WAIT" /\ port.tim # "PDDEB"

\* A port that is attached has power, or the news that it has gone is on its way.
\* (ucpd_typec.c:60, :76, :87)
AttachedHasPower ==
  port.cad = "ATTACHED" =>
    \/ told = "detected"
    \/ "VBUS_REMOVED" \in {pwr_event, port.current_pwr}
    \/ port.gap # "none"

\* The comment at ucpd_typec.c:30-31: after the fix a port that a cable is put into
\* starts to communicate, also when a timeout comes too late to be taken back.
StartsCommunication ==
  <>[](\/ lapsed
       \/ port.gap \in {"ignored", "erased", "unsure"}
       \/ Connected => port.cad = "ATTACHED" /\ port.rx = plug)
=============================================================================
