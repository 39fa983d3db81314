------------------------ MODULE UcpdConnectionProofs ------------------------
(***************************************************************************)
(* The VBUS monitor implements its service, for any results of the ADC.    *)
(* What was last told can be read off the state machine (it is "detected"  *)
(* in PRESENT, and in TRANSIENT when 0 V was not left since), and an       *)
(* announcement that still waits says where VBUS is, because VBUS is       *)
(* slower than the worker.                                                 *)
(*                                                                         *)
(* The connection uses the monitor as its specification says, keeps its    *)
(* types, attaches only on the strength of a debounce that belongs to the  *)
(* connection, and only with power; for any number of moves.               *)
(***************************************************************************)
EXTENDS UcpdConnection, TLAPS

-----------------------------------------------------------------------------
\* The monitor

\* The safe levels exclude each other.
LEMMA LevelsApart ==
  ASSUME NEW code \in Codes
  PROVE  ~(At0V(code) /\ At5V(code))
BY CodesAssumption
   DEF At0V, At5V, GetVbusVoltage, UPPER_V_SAFE_0V, LOWER_V_SAFE_5V

LEMMA Bands ==
  ASSUME NEW code \in Codes
  PROVE  /\ Band(code) = "5V" <=> At5V(code)
         /\ Band(code) = "0V" <=> At0V(code)
         /\ Band(code) \in Service!Bands
BY LevelsApart DEF Band, Service!Bands

-----------------------------------------------------------------------------
\* The inductive invariant

ToldByState ==
  (told = "detected") <=>
    \/ pwr_sm.state = "PRESENT"
    \/ pwr_sm.state = "TRANSIENT" /\ ~pwr_sm.exited_v0

ArrivedClean == pwr_sm.state = "PRESENT" => ~pwr_sm.exited_v0

NewsIsTrue ==
  /\ pwr_event = "VBUS_DETECTED" => pwr_sm.state = "PRESENT" /\ At5V(vbus)
  /\ pwr_event = "VBUS_REMOVED" => pwr_sm.state = "ABSENT" /\ At0V(vbus)

Inv == VbusTypeOK /\ ToldByState /\ ArrivedClean /\ NewsIsTrue /\ ArmedForNews

LEMMA InitInv == VbusInit => Inv
  <1> SUFFICES ASSUME VbusInit PROVE Inv
    OBVIOUS
  <1>1. pwr_sm.state = "ABSENT"
    BY DEF VbusInit
  <1>2. VbusTypeOK
    BY DEF VbusInit, VbusTypeOK
  <1>3. ToldByState /\ ArrivedClean
    BY <1>1 DEF VbusInit, ToldByState, ArrivedClean
  <1>4. NewsIsTrue /\ ArmedForNews
    BY EventsAssumption DEF VbusInit, NewsIsTrue, ArmedForNews
  <1> QED
    BY <1>2, <1>3, <1>4 DEF Inv

\* Each branch of the state machine keeps the invariant and is a step, or none, of
\* the service.
LEMMA DeltaInv ==
  Inv /\ UCPD_ADC_ISR =>
    Inv' /\ (Service!Detected \/ Service!Removed \/ UNCHANGED <<vbus, told, pwr_event>>)
  <1> SUFFICES ASSUME Inv, UCPD_ADC_ISR
               PROVE  /\ Inv'
                      /\ \/ Service!Detected
                         \/ Service!Removed
                         \/ UNCHANGED <<vbus, told, pwr_event>>
    OBVIOUS
  <1>0. vbus' = vbus /\ vbus \in Codes /\ UCPD_PWR_SM_Delta /\ VbusTypeOK
    BY DEF UCPD_ADC_ISR, Inv, VbusTypeOK
  <1>1. /\ Band(vbus) = "5V" <=> At5V(vbus)
        /\ Band(vbus) = "0V" <=> At0V(vbus)
        /\ ~(At0V(vbus) /\ At5V(vbus))
    BY <1>0, Bands, LevelsApart
  <1> USE <1>0, EventsAssumption
      DEF Inv, VbusTypeOK, ToldByState, ArrivedClean, NewsIsTrue, ArmedForNews
  <1>2. CASE BackAgain
    BY <1>2 DEF BackAgain, StaysDisabled, NothingNew
  <1>3. CASE Rises
    BY <1>1, <1>3 DEF Rises, AWDEnable, NothingNew
  <1>4. CASE Arrives
    <2>1. pwr_event = NoEvent
      BY <1>1, <1>4 DEF Arrives
    <2>2. CASE /\ pwr_sm.state = "ABSENT" \/ pwr_sm.exited_v0
               /\ pwr_sm' = [state |-> "PRESENT", exited_v0 |-> FALSE,
                             vbus_vS0_to_vS5 |-> TRUE]
               /\ Announce("VBUS_DETECTED")
      <3>1. told # "detected"
        <4>1. pwr_sm.state \in {"ABSENT", "TRANSIENT"}
          BY <1>4 DEF Arrives
        <4> QED
          BY <2>2, <4>1, Zenon
      <3>2. told = "removed" /\ told' = "detected" /\ pwr_event' = "VBUS_DETECTED"
        BY <2>2, <3>1 DEF Announce
      <3> HIDE DEF Inv
      <3>3. Inv'
        BY <1>4, <2>2, <3>2 DEF Arrives, AWDEnable, Inv
      <3>4. Service!Detected
        BY <1>1, <1>4, <2>1, <3>2 DEF Arrives, Service!Detected
      <3> QED
        BY <3>3, <3>4
    <2>3. CASE /\ pwr_sm.state = "TRANSIENT" /\ ~pwr_sm.exited_v0
               /\ pwr_sm' = [pwr_sm EXCEPT !.state = "PRESENT"]
               /\ NothingNew
      BY <1>4, <2>3 DEF Arrives, AWDEnable, NothingNew
    <2> QED
      BY <1>4, <2>2, <2>3 DEF Arrives
  <1>5. CASE Lingers
    BY <1>1, <1>5 DEF Lingers, AWDEnable, NothingNew
  <1>6. CASE Falls
    BY <1>1, <1>6 DEF Falls, AWDEnable, NothingNew
  <1>7. CASE Returns
    BY <1>1, <1>7 DEF Returns, AWDEnable, NothingNew, Announce, Service!Removed
  <1> QED
    BY <1>2, <1>3, <1>4, <1>5, <1>6, <1>7 DEF UCPD_PWR_SM_Delta

LEMMA NextInv == Inv /\ [VbusNext]_vbusVars => Inv'
  <1> SUFFICES ASSUME Inv, [VbusNext]_vbusVars PROVE Inv'
    OBVIOUS
  <1>1. CASE UCPD_ADC_ISR
    BY <1>1, DeltaInv
  <1> USE DEF Inv, VbusTypeOK, ToldByState, ArrivedClean, NewsIsTrue, ArmedForNews
  <1>2. ASSUME NEW code \in Codes, VbusMovesTo(code) PROVE Inv'
    BY <1>2, EventsAssumption DEF VbusMovesTo
  <1>3. CASE Convert
    BY <1>3 DEF Convert
  <1>4. CASE SlotTaken
    BY <1>4, EventsAssumption DEF SlotTaken
  <1>5. CASE UNCHANGED vbusVars
    BY <1>5 DEF vbusVars
  <1> QED
    BY <1>1, <1>2, <1>3, <1>4, <1>5 DEF VbusNext

THEOREM Invariance == VbusSpec => []Inv
  BY InitInv, NextInv, PTL DEF VbusSpec

-----------------------------------------------------------------------------
\* Unless VBUS was back when it was read again, the watchdog is armed for the next
\* news, whatever the results of the ADC.
THEOREM WatchdogArmed == VbusSpec => []ArmedForNews
  <1>1. Inv => ArmedForNews
    BY DEF Inv
  <1> QED
    BY <1>1, Invariance, PTL

LEMMA InitRefines == VbusInit => Service!Init
BY Bands DEF VbusInit, Service!Init

LEMMA NextRefines ==
  Inv /\ [VbusNext]_vbusVars => [Service!Next]_<<Band(vbus), told, pwr_event>>
  <1> SUFFICES ASSUME Inv, [VbusNext]_vbusVars
               PROVE  [Service!Next]_<<Band(vbus), told, pwr_event>>
    OBVIOUS
  <1> USE DEF Service!Next
  <1>1. CASE UCPD_ADC_ISR
    BY <1>1, DeltaInv
  <1>2. ASSUME NEW code \in Codes, VbusMovesTo(code) PROVE Service!VbusMoves
    BY <1>2, Bands DEF VbusMovesTo, Service!VbusMoves
  <1>3. CASE Convert
    BY <1>3 DEF Convert
  <1>4. CASE SlotTaken
    BY <1>4 DEF SlotTaken, Service!Taken
  <1>5. CASE UNCHANGED vbusVars
    BY <1>5 DEF vbusVars
  <1> QED
    BY <1>1, <1>2, <1>3, <1>4, <1>5 DEF VbusNext

\* The monitor implements its service: every announcement in turn, true, and with a
\* slot of its own.
THEOREM ImplementsService == VbusSpec => AnnouncesInTurn
  BY InitRefines, NextRefines, Invariance, PTL
     DEF VbusSpec, AnnouncesInTurn, Service!Spec


-----------------------------------------------------------------------------
\* The connection is a client of the monitor

LEMMA HandleVbus == Handle => SlotTaken \/ UNCHANGED vbusVars
BY DEF Handle

LEMMA NextVbus == [Next]_vars => [VbusNext]_vbusVars
  <1> SUFFICES ASSUME [Next]_vars PROVE [VbusNext]_vbusVars
    OBVIOUS
  <1> USE DEF VbusNext
  <1>1. CASE \E pin \in Pins : Plug(pin)
    BY <1>1 DEF Plug, Moves
  <1>2. CASE Unplug \/ SupplyOff \/ SupplyOn \/ RpMoves
    BY <1>2 DEF Unplug, SupplyOff, SupplyOn, RpMoves, Moves
  <1>3. CASE VbusMoves \/ VbusDips
    BY <1>3 DEF VbusMoves, VbusDips
  <1>4. CASE Convert \/ UCPD_ADC_ISR
    BY <1>4
  <1>5. CASE CcChange \/ TimerExpires \/ HardResetStarts \/ HardResetEnds
    BY <1>5 DEF CcChange, TimerExpires, HardResetStarts, HardResetEnds
  <1>6. CASE Snapshot
    BY <1>6 DEF Snapshot
  <1>7. CASE Handle
    BY <1>7, HandleVbus
  <1>8. CASE UNCHANGED vars
    BY <1>8 DEF vars
  <1> QED
    BY <1>1, <1>2, <1>3, <1>4, <1>5, <1>6, <1>7, <1>8 DEF Next

\* Whatever cable, source, interrupts and worker do, the monitor goes by its own
\* specification.
THEOREM UsesMonitor == Spec => VbusSpec
  BY NextVbus, PTL DEF Spec, VbusSpec, Init

\* So what is told of VBUS is true, in turn and never replaced, for the connection
\* as well.
THEOREM AnnouncementsHold == Spec => AnnouncesInTurn /\ []ArmedForNews
  BY UsesMonitor, ImplementsService, WatchdogArmed, PTL
-----------------------------------------------------------------------------
\* The inductive invariant, as conditions on a port record p, the last announcement
\* and the slot of the monitor

PowerKnown == told = "detected" \/ pwr_event = "VBUS_REMOVED"

\* The debounce mark, and no removal that has yet to take it away.
MarkOf(p) ==
  p.tccDeb /\ p.gap = "none" =>
    /\ p.cad = "ATTACH_WAIT" /\ p.tim # "PDDEB"
    /\ "TPDEBOUNCE_TIMEOUT" \notin {p.timer_event, p.current_timer}

OneTimeout(p) == p.timer_event = NoEvent \/ p.current_timer = NoEvent

PowerOf(p) ==
  p.gap = "none" =>
    /\ p.vbusDet \/ p.cad = "ATTACHED" =>
         PowerKnown \/ p.current_pwr = "VBUS_REMOVED"
    /\ p.current_pwr = "VBUS_DETECTED" => PowerKnown

Good(p) == p \in Ports /\ MarkOf(p) /\ OneTimeout(p) /\ PowerOf(p)

IdleClean == wpc = "idle" => port.current_pwr = NoEvent /\ port.current_timer = NoEvent

ConnInv == Inv /\ TypeOK /\ Good(port) /\ IdleClean

-----------------------------------------------------------------------------
\* The handlers keep the conditions

LEMMA Distinct ==
  NoEvent \notin {"CONN_DETECTED", "CONN_REMOVED", "TCDEBOUNCE_TIMEOUT",
                  "TPDEBOUNCE_TIMEOUT", "VBUS_DETECTED", "VBUS_REMOVED"}
BY NoEventAssumption, EventsAssumption

LEMMA NoEventIn == NoEvent \in PhyEvents /\ NoEvent \in PwrEvents /\ NoEvent \in TimerEvents
BY DEF PhyEvents, PwrEvents, TimerEvents

\* Noting a gap leaves the rest alone, and ends what the conditions say.
LEMMA MissesGood ==
  ASSUME NEW p \in Ports, OneTimeout(p), NEW missed \in BOOLEAN, NEW gap \in Gaps,
         missed \/ Good(p)
  PROVE  /\ Good(MissesIf(p, missed, gap))
         /\ MissesIf(p, missed, gap).current_pwr = p.current_pwr
         /\ MissesIf(p, missed, gap).current_timer = p.current_timer
         /\ MissesIf(p, missed, gap).cad = p.cad
  <1> DEFINE q == [p EXCEPT !.gap = gap]
  <1>1. /\ q \in Ports /\ q.gap # "none"
        /\ q.current_pwr = p.current_pwr
        /\ q.current_timer = p.current_timer
        /\ q.timer_event = p.timer_event
        /\ q.cad = p.cad
    BY DEF Ports, Gaps
  <1>2. MissesIf(p, missed, gap) = IF missed /\ p.gap = "none" THEN q ELSE p
    BY DEF MissesIf
  <1> HIDE DEF q
  <1> QED
    BY <1>1, <1>2 DEF Good, MarkOf, OneTimeout, PowerOf

LEMMA AttachedGood ==
  ASSUME NEW p, Good(p), p.current_pwr = NoEvent,
         p.gap = "none" => p.vbusDet \/ PowerKnown
  PROVE  /\ Good(EnterAttached(p))
         /\ EnterAttached(p).current_pwr = NoEvent
         /\ EnterAttached(p).current_timer = NoEvent
         /\ EnterAttached(p).cad = "ATTACHED"
  <1> DEFINE line == IF p.cc = "CC1" THEN "CC1" ELSE "CC2"
             unknown == p.cc = NoPin
             r == [p EXCEPT !.cad = "ATTACHED", !.vbusDet = FALSE, !.tccDeb = FALSE,
                            !.rx = line]
             q == [r EXCEPT !.phy_event = NoEvent, !.timer_event = NoEvent,
                            !.current_phy = NoEvent, !.current_pwr = NoEvent,
                            !.current_timer = NoEvent]
  <1>1. EnterAttached(p) = MissesIf(q, unknown, "unsure")
    BY DEF EnterAttached
  <1>2. line \in Pins /\ unknown \in BOOLEAN /\ p \in Ports
    BY DEF Pins, Good
  <1> HIDE DEF line, unknown
  <1>3. r \in Ports /\ ~r.tccDeb /\ r.gap = p.gap /\ r.cad = "ATTACHED"
    BY <1>2 DEF Ports
  <1> HIDE DEF r
  <1>4. /\ q \in Ports
        /\ ~q.tccDeb /\ q.gap = p.gap /\ q.cad = "ATTACHED"
        /\ q.current_pwr = NoEvent /\ q.current_timer = NoEvent
    BY <1>3, NoEventIn DEF Ports
  <1> HIDE DEF q
  <1>5. p.gap = "none" => PowerKnown
    BY Distinct DEF Good, PowerOf
  <1>6. Good(q)
    BY <1>4, <1>5, Distinct DEF Good, MarkOf, OneTimeout, PowerOf, PowerKnown
  <1>7. OneTimeout(q) /\ "unsure" \in Gaps
    BY <1>6 DEF Good, Gaps
  <1> QED
    BY <1>1, <1>2, <1>4, <1>6, <1>7, MissesGood

LEMMA UnattachedGood ==
  ASSUME NEW p \in Ports, OneTimeout(p), p.current_pwr = NoEvent,
         p.gap = "none" => ~p.tccDeb /\ (p.vbusDet => PowerKnown)
  PROVE  /\ Good(EnterUnattached(p))
         /\ EnterUnattached(p).current_pwr = NoEvent
         /\ p.current_timer = NoEvent => EnterUnattached(p).current_timer = NoEvent
         /\ EnterUnattached(p).cad = "UNATTACHED"
  <1> DEFINE r == [p EXCEPT !.cad = "UNATTACHED", !.tim = NoPin]
             q == [p EXCEPT !.cad = "UNATTACHED", !.tim = NoPin, !.cc = NoPin,
                            !.rx = "both",
                            !.current_phy = NoEvent, !.current_pwr = NoEvent,
                            !.current_timer = NoEvent]
  <1>1. /\ r \in Ports /\ r.cad = "UNATTACHED"
        /\ r.tccDeb = p.tccDeb /\ r.vbusDet = p.vbusDet /\ r.gap = p.gap
        /\ r.current_pwr = NoEvent
        /\ r.current_timer = p.current_timer /\ r.timer_event = p.timer_event
    BY DEF Ports
  <1>2. /\ q \in Ports /\ q.cad = "UNATTACHED"
        /\ q.tccDeb = p.tccDeb /\ q.vbusDet = p.vbusDet /\ q.gap = p.gap
        /\ q.current_pwr = NoEvent
        /\ q.current_timer = NoEvent /\ q.timer_event = p.timer_event
    BY NoEventIn DEF Ports
  <1>3. EnterUnattached(p) = IF p.cad = "ATTACHED" THEN q ELSE r
    BY DEF EnterUnattached
  <1> HIDE DEF q, r
  <1>4. Good(q)
    BY <1>2, Distinct DEF Good, MarkOf, OneTimeout, PowerOf
  <1>5. Good(r)
    BY <1>1, Distinct DEF Good, MarkOf, OneTimeout, PowerOf
  <1> QED
    BY <1>1, <1>2, <1>3, <1>4, <1>5

\* Stopping one debounce timer and starting the other touches nothing else.
LEMMA OtherTimer ==
  ASSUME NEW p \in Ports, NEW old \in Debounce, NEW new \in Debounce
  PROVE  LET q == UCPD_TIM_Start(UCPD_TIM_Stop(p, old), new)
         IN  /\ q \in Ports /\ q.tim = new
             /\ q.cad = p.cad /\ q.tccDeb = p.tccDeb /\ q.vbusDet = p.vbusDet
             /\ q.gap = p.gap /\ q.timer_event = p.timer_event
             /\ q.current_timer = p.current_timer /\ q.current_pwr = p.current_pwr
  <1> DEFINE r == UCPD_TIM_Stop(p, old)
  <1>1. /\ r \in Ports
        /\ r.cad = p.cad /\ r.tccDeb = p.tccDeb /\ r.vbusDet = p.vbusDet
        /\ r.gap = p.gap /\ r.timer_event = p.timer_event
        /\ r.current_timer = p.current_timer /\ r.current_pwr = p.current_pwr
    BY DEF UCPD_TIM_Stop, Ports
  <1> HIDE DEF r
  <1> DEFINE q == UCPD_TIM_Start(r, new)
  <1>2. /\ q \in Ports /\ q.tim = new
        /\ q.cad = r.cad /\ q.tccDeb = r.tccDeb /\ q.vbusDet = r.vbusDet
        /\ q.gap = r.gap /\ q.timer_event = r.timer_event
        /\ q.current_timer = r.current_timer /\ q.current_pwr = r.current_pwr
    BY <1>1 DEF UCPD_TIM_Start, Ports
  <1> QED
    BY <1>1, <1>2 DEF r

LEMMA PwrGood ==
  ASSUME NEW p, Good(p)
  PROVE  Good(PwrDelta(p)) /\ PwrDelta(p).current_pwr = NoEvent
  <1> DEFINE q == [p EXCEPT !.current_pwr = NoEvent]
  <1>1. /\ p \in Ports /\ q \in Ports /\ q.current_pwr = NoEvent
        /\ q.cad = p.cad /\ q.tccDeb = p.tccDeb /\ q.vbusDet = p.vbusDet
        /\ q.gap = p.gap /\ q.timer_event = p.timer_event
        /\ q.current_timer = p.current_timer /\ q.tim = p.tim
    BY NoEventIn DEF Good, Ports
  <1>2. OneTimeout(q) /\ MarkOf(q)
    BY <1>1 DEF Good, MarkOf, OneTimeout
  <1>3. PwrDelta(p) = IF p.current_pwr = "VBUS_DETECTED" THEN VbusDetected(q)
                      ELSE IF p.current_pwr = "VBUS_REMOVED" THEN VbusRemoved(q) ELSE p
    BY DEF PwrDelta
  <1> HIDE DEF q
  <1>4. CASE p.current_pwr = "VBUS_DETECTED"
    <2>1. q.gap = "none" => PowerKnown
      BY <1>1, <1>4 DEF Good, PowerOf
    <2>2. Good(q)
      BY <1>1, <1>2, <2>1, Distinct DEF Good, PowerOf
    <2> DEFINE r == [q EXCEPT !.vbusDet = TRUE]
    <2>3. /\ r \in Ports /\ r.current_pwr = NoEvent
          /\ r.cad = q.cad /\ r.tccDeb = q.tccDeb /\ r.gap = q.gap /\ r.tim = q.tim
          /\ r.timer_event = q.timer_event /\ r.current_timer = q.current_timer
      BY <1>1 DEF Ports
    <2>4. VbusDetected(q) = IF q.tccDeb THEN EnterAttached(q) ELSE r
      BY DEF VbusDetected
    <2> HIDE DEF r
    <2>5. Good(r)
      BY <1>2, <2>1, <2>3, Distinct DEF Good, MarkOf, OneTimeout, PowerOf
    <2> QED
      BY <1>1, <1>3, <1>4, <2>1, <2>2, <2>3, <2>4, <2>5, AttachedGood
  <1>5. CASE p.current_pwr = "VBUS_REMOVED"
    <2> DEFINE missed == q.cad = "ATTACHED" \/ q.vbusDet
               r == [q EXCEPT !.vbusDet = FALSE]
    <2>1. /\ r \in Ports /\ r.current_pwr = NoEvent /\ ~r.vbusDet
          /\ r.cad = q.cad /\ r.tccDeb = q.tccDeb /\ r.gap = q.gap /\ r.tim = q.tim
          /\ r.timer_event = q.timer_event /\ r.current_timer = q.current_timer
      BY <1>1 DEF Ports
    <2>2. VbusRemoved(q) = IF hr THEN MissesIf(q, missed, "ignored")
                           ELSE IF q.cad = "ATTACHED" THEN EnterUnattached(r) ELSE r
      BY DEF VbusRemoved
    <2>3. missed \/ Good(q)
      BY <1>1, <1>2, Distinct DEF Good, PowerOf
    <2>4. missed \in BOOLEAN
      BY <1>1 DEF Ports
    <2> HIDE DEF r, missed
    <2>5. "ignored" \in Gaps
      BY DEF Gaps
    <2>6. CASE hr
      BY <1>1, <1>2, <1>3, <1>5, <2>2, <2>3, <2>4, <2>5, <2>6, MissesGood
    <2>7. CASE ~hr /\ q.cad = "ATTACHED"
      <3>1. r.gap = "none" => ~r.tccDeb
        BY <1>2, <2>1, <2>7 DEF MarkOf
      <3>2. OneTimeout(r)
        BY <1>2, <2>1 DEF OneTimeout
      <3> QED
        BY <1>3, <1>5, <2>1, <2>2, <2>7, <3>1, <3>2, UnattachedGood
    <2>8. CASE ~hr /\ q.cad # "ATTACHED"
      <3>1. Good(r)
        BY <1>2, <2>1, <2>8, Distinct DEF Good, MarkOf, OneTimeout, PowerOf
      <3> QED
        BY <1>3, <1>5, <2>1, <2>2, <2>8, <3>1
    <2> QED
      BY <2>6, <2>7, <2>8
  <1>6. CASE p.current_pwr = NoEvent
    BY <1>3, <1>6, Distinct
  <1> QED
    BY <1>1, <1>4, <1>5, <1>6 DEF Ports, PwrEvents

LEMMA RemovalGood ==
  ASSUME NEW p, Good(p), p.current_pwr = NoEvent
  PROVE  Good(RemovalDelta(p)) /\ RemovalDelta(p).current_pwr = NoEvent
  <1> DEFINE q == [p EXCEPT !.current_phy = NoEvent]
             r == [q EXCEPT !.tccDeb = FALSE]
             s == UCPD_TIM_Start(UCPD_TIM_Stop(r, "CCDEB"), "PDDEB")
  <1>1. /\ p \in Ports /\ q \in Ports /\ q.current_pwr = NoEvent
        /\ q.cad = p.cad /\ q.tccDeb = p.tccDeb /\ q.vbusDet = p.vbusDet
        /\ q.gap = p.gap /\ q.timer_event = p.timer_event
        /\ q.current_timer = p.current_timer /\ q.tim = p.tim
    BY NoEventIn DEF Good, Ports
  <1>2. RemovalDelta(p) = IF p.current_phy = "CONN_REMOVED"
                          THEN IF q.cad = "ATTACH_WAIT" THEN s ELSE q
                          ELSE p
    BY DEF RemovalDelta, ConnRemoved
  <1> HIDE DEF q
  <1>3. Good(q)
    BY <1>1 DEF Good, MarkOf, OneTimeout, PowerOf
  <1>4. /\ r \in Ports /\ r.current_pwr = NoEvent
        /\ r.cad = q.cad /\ ~r.tccDeb /\ r.vbusDet = q.vbusDet
        /\ r.gap = q.gap /\ r.timer_event = q.timer_event
        /\ r.current_timer = q.current_timer
    BY <1>1 DEF Ports
  <1> HIDE DEF r
  <1>5. /\ s \in Ports /\ s.current_pwr = NoEvent
        /\ s.cad = r.cad /\ ~s.tccDeb /\ s.vbusDet = r.vbusDet
        /\ s.gap = r.gap /\ s.timer_event = r.timer_event
        /\ s.current_timer = r.current_timer
    BY <1>4, OtherTimer DEF Debounce
  <1> HIDE DEF s
  <1>6. Good(s)
    <2>1. s.gap = "none" /\ (s.vbusDet \/ s.cad = "ATTACHED") => PowerKnown
      BY <1>1, <1>3, <1>4, <1>5, Distinct DEF Good, PowerOf
    <2>2. PowerOf(s)
      BY <1>5, <2>1, Distinct DEF PowerOf
    <2>3. OneTimeout(s)
      BY <1>3, <1>4, <1>5 DEF Good, OneTimeout
    <2>4. MarkOf(s)
      BY <1>1, <1>3, <1>4, <1>5, Distinct DEF Good, MarkOf
    <2> QED
      BY <1>5, <2>2, <2>3, <2>4 DEF Good
  <1> QED
    BY <1>1, <1>2, <1>3, <1>5, <1>6

LEMMA TimerGood ==
  ASSUME NEW p, Good(p), p.current_pwr = NoEvent
  PROVE  /\ Good(TimerDelta(p)) /\ TimerDelta(p).current_pwr = NoEvent
         /\ TimerDelta(p).current_timer = NoEvent
  <1> DEFINE q == [p EXCEPT !.current_timer = NoEvent]
  <1>1. /\ p \in Ports /\ q \in Ports /\ q.current_pwr = NoEvent
        /\ q.cad = p.cad /\ q.tccDeb = p.tccDeb /\ q.vbusDet = p.vbusDet
        /\ q.gap = p.gap /\ q.timer_event = p.timer_event
        /\ q.current_timer = NoEvent /\ q.tim = p.tim
    BY NoEventIn DEF Good, Ports
  <1>2. TimerDelta(p) =
          IF p.current_timer = "TCDEBOUNCE_TIMEOUT" THEN TcDebounceTimeout(q)
          ELSE IF p.current_timer = "TPDEBOUNCE_TIMEOUT" THEN TpDebounceTimeout(q) ELSE p
    BY DEF TimerDelta
  <1> HIDE DEF q
  <1>3. Good(q)
    BY <1>1, Distinct DEF Good, MarkOf, OneTimeout, PowerOf
  <1>4. "late" \in Gaps
    BY DEF Gaps
  <1>5. CASE p.current_timer = "TCDEBOUNCE_TIMEOUT"
    <2> DEFINE r == [q EXCEPT !.tccDeb = TRUE]
               s == IF q.vbusDet THEN EnterAttached(q) ELSE r
               missed == q.tim = "PDDEB"
    <2>1. /\ r \in Ports /\ r.current_pwr = NoEvent
          /\ r.cad = q.cad /\ r.vbusDet = q.vbusDet /\ r.tim = q.tim
          /\ r.gap = q.gap /\ r.timer_event = q.timer_event
          /\ r.current_timer = NoEvent
      BY <1>1 DEF Ports
    <2>2. TcDebounceTimeout(q) =
            IF q.cad # "ATTACH_WAIT" THEN q ELSE MissesIf(s, missed, "late")
      BY DEF TcDebounceTimeout
    <2>3. missed \/ q.cad # "ATTACH_WAIT" \/ Good(r)
      <3>1. r.timer_event = NoEvent
        BY <1>1, <1>5, <2>1, Distinct DEF Good, OneTimeout
      <3> QED
        BY <1>3, <2>1, <3>1, Distinct DEF Good, MarkOf, OneTimeout, PowerOf
    <2>4. Good(EnterAttached(q)) \/ ~q.vbusDet
      BY <1>1, <1>3, AttachedGood
    <2>5. q.vbusDet => /\ EnterAttached(q).current_pwr = NoEvent
                       /\ EnterAttached(q).current_timer = NoEvent
      BY <1>1, <1>3, AttachedGood
    <2>6. /\ s \in Ports /\ OneTimeout(s)
          /\ s.current_pwr = NoEvent /\ s.current_timer = NoEvent
      BY <2>1, <2>4, <2>5 DEF Good, OneTimeout
    <2>7. missed \/ q.cad # "ATTACH_WAIT" \/ Good(s)
      BY <2>3, <2>4
    <2>8. missed \in BOOLEAN
      OBVIOUS
    <2> HIDE DEF s, missed
    <2> QED
      BY <1>1, <1>2, <1>3, <1>4, <1>5, <2>2, <2>6, <2>7, <2>8, MissesGood
  <1>6. CASE p.current_timer = "TPDEBOUNCE_TIMEOUT"
    <2> DEFINE missed == q.cad = "ATTACHED" \/ q.tim = "CCDEB"
    <2>1. TpDebounceTimeout(q) = MissesIf(EnterUnattached(q), missed, "late")
      BY DEF TpDebounceTimeout
    <2>2. missed \in BOOLEAN
      OBVIOUS
    <2>3. q.gap = "none" => ~q.tccDeb /\ (q.vbusDet => PowerKnown)
      BY <1>1, <1>3, <1>6, Distinct DEF Good, MarkOf, PowerOf
    <2>4. /\ Good(EnterUnattached(q))
          /\ EnterUnattached(q).current_pwr = NoEvent
          /\ EnterUnattached(q).current_timer = NoEvent
      BY <1>1, <1>3, <2>3, UnattachedGood DEF Good
    <2>5. EnterUnattached(q) \in Ports /\ OneTimeout(EnterUnattached(q))
      BY <2>4 DEF Good
    <2> HIDE DEF missed
    <2> QED
      BY <1>2, <1>4, <1>6, <2>1, <2>2, <2>4, <2>5, MissesGood, Distinct
  <1>7. CASE p.current_timer = NoEvent
    BY <1>2, <1>7, Distinct
  <1>8. p.current_timer \in {NoEvent, "TCDEBOUNCE_TIMEOUT", "TPDEBOUNCE_TIMEOUT"}
    <2>1. p.current_timer \in TimerEvents
      BY <1>1 DEF Ports
    <2> QED
      BY <2>1 DEF TimerEvents, EventOf, Debounce
  <1> QED
    BY <1>5, <1>6, <1>7, <1>8

LEMMA PhyGood ==
  ASSUME NEW p, Good(p), p.current_pwr = NoEvent, p.current_timer = NoEvent
  PROVE  /\ Good(PhyDelta(p)) /\ PhyDelta(p).current_pwr = NoEvent
         /\ PhyDelta(p).current_timer = NoEvent
  <1> DEFINE q == [p EXCEPT !.current_phy = NoEvent]
             r == DebouncesCC(q)
             s == [r EXCEPT !.cad = "ATTACH_WAIT"]
  <1>1. /\ p \in Ports /\ q \in Ports /\ q.current_pwr = NoEvent
        /\ q.cad = p.cad /\ q.tccDeb = p.tccDeb /\ q.vbusDet = p.vbusDet
        /\ q.gap = p.gap /\ q.timer_event = p.timer_event
        /\ q.current_timer = NoEvent /\ q.tim = p.tim
    BY NoEventIn DEF Good, Ports
  <1>2. PhyDelta(p) = IF p.current_phy = "CONN_DETECTED"
                      THEN IF q.cad = "ATTACHED" THEN q ELSE s
                      ELSE p
    BY DEF PhyDelta, ConnDetected
  <1> HIDE DEF q
  <1>3. Good(q)
    BY <1>1, Distinct DEF Good, MarkOf, OneTimeout, PowerOf
  <1>4. /\ r \in Ports /\ r.tim = "CCDEB" /\ r.current_pwr = NoEvent
        /\ r.cad = q.cad /\ r.tccDeb = q.tccDeb /\ r.vbusDet = q.vbusDet
        /\ r.gap = q.gap /\ r.timer_event = q.timer_event
        /\ r.current_timer = NoEvent
    BY <1>1, OtherTimer DEF DebouncesCC, Debounce
  <1> HIDE DEF r
  <1>5. /\ s \in Ports /\ s.tim = "CCDEB" /\ s.current_pwr = NoEvent
        /\ s.cad = "ATTACH_WAIT" /\ s.tccDeb = r.tccDeb /\ s.vbusDet = r.vbusDet
        /\ s.gap = r.gap /\ s.timer_event = r.timer_event
        /\ s.current_timer = NoEvent
    BY <1>4 DEF Ports
  <1> HIDE DEF s
  <1>6. Good(s)
    <2>1. s.gap = "none" /\ s.vbusDet => PowerKnown
      BY <1>1, <1>3, <1>4, <1>5, Distinct DEF Good, PowerOf
    <2>2. PowerOf(s)
      BY <1>5, <2>1, Distinct DEF PowerOf
    <2>3. OneTimeout(s)
      BY <1>3, <1>4, <1>5 DEF Good, OneTimeout
    <2>4. MarkOf(s)
      BY <1>1, <1>3, <1>4, <1>5, Distinct DEF Good, MarkOf
    <2> QED
      BY <1>5, <2>2, <2>3, <2>4 DEF Good
  <1> QED
    BY <1>1, <1>2, <1>3, <1>5, <1>6

LEMMA HandlerGood ==
  ASSUME NEW p, Good(p)
  PROVE  /\ Good(UCPD_PE_PRL_Handler(p))
         /\ UCPD_PE_PRL_Handler(p).current_pwr = NoEvent
         /\ UCPD_PE_PRL_Handler(p).current_timer = NoEvent
  <1>1. Good(PwrDelta(p)) /\ PwrDelta(p).current_pwr = NoEvent
    BY PwrGood
  <1>2. /\ Good(RemovalDelta(PwrDelta(p)))
        /\ RemovalDelta(PwrDelta(p)).current_pwr = NoEvent
    BY <1>1, RemovalGood
  <1> DEFINE r == TimerDelta(RemovalDelta(PwrDelta(p)))
  <1>3. Good(r) /\ r.current_pwr = NoEvent /\ r.current_timer = NoEvent
    BY <1>2, TimerGood
  <1> HIDE DEF r
  <1>4. /\ Good(PhyDelta(r)) /\ PhyDelta(r).current_pwr = NoEvent
        /\ PhyDelta(r).current_timer = NoEvent
    BY <1>3, PhyGood
  <1> QED
    BY <1>4 DEF UCPD_PE_PRL_Handler, r

-----------------------------------------------------------------------------
\* The actions keep the invariant

\* A step that leaves the record alone and takes no knowledge of VBUS away
LEMMA Carries ==
  ASSUME Good(port), UNCHANGED port, PowerKnown => PowerKnown'
  PROVE  Good(port)'
BY DEF Good, MarkOf, OneTimeout, PowerOf

LEMMA SameVbus ==
  ASSUME UNCHANGED vbusVars
  PROVE  PowerKnown' <=> PowerKnown
BY DEF vbusVars, PowerKnown

LEMMA InitConn == Init => ConnInv
  <1> SUFFICES ASSUME Init PROVE ConnInv
    OBVIOUS
  <1>1. Inv /\ VbusTypeOK
    BY InitInv DEF Init, Inv
  <1>2. /\ port \in Ports /\ ~port.tccDeb /\ ~port.vbusDet
        /\ port.cad = "UNATTACHED"
        /\ port.timer_event = NoEvent
        /\ port.current_pwr = NoEvent /\ port.current_timer = NoEvent
    BY NoEventIn DEF Init, Ports, Pins, NoPin
  <1>3. Good(port) /\ IdleClean
    BY <1>2, Distinct DEF Good, MarkOf, OneTimeout, PowerOf, IdleClean
  <1>4. TypeOK
    <2>1. supply \in BOOLEAN /\ typec \in BOOLEAN
      BY DEF Init, At5V
    <2>2. moves \in 0 .. MaxMoves
      BY MovesAssumption DEF Init
    <2>3. plug \in Pins \cup {"open"} /\ hr = FALSE /\ wpc = "idle"
      BY DEF Init
    <2> QED
      BY <1>1, <1>2, <2>1, <2>2, <2>3 DEF TypeOK
  <1> QED
    BY <1>1, <1>3, <1>4 DEF ConnInv

LEMMA MovesConn ==
  ASSUME ConnInv, Inv', MoveOn, plug' \in Pins \cup {"open"}, supply' \in BOOLEAN,
         typec' \in BOOLEAN, hr' \in BOOLEAN, told' = told, pwr_event' = pwr_event
  PROVE  ConnInv'
  <1>1. UNCHANGED <<port, wpc>> /\ moves' \in 0 .. MaxMoves
    BY MovesAssumption DEF MoveOn, ConnInv, TypeOK
  <1>2. Good(port)'
    BY <1>1, Carries DEF ConnInv, PowerKnown
  <1> QED
    BY <1>1, <1>2 DEF ConnInv, TypeOK, IdleClean, Inv

LEMMA EnvironmentConn ==
  ASSUME ConnInv, Inv',
         \/ \E pin \in Pins : Plug(pin)
         \/ Unplug \/ SupplyOff \/ SupplyOn \/ RpMoves \/ VbusMoves \/ VbusDips
         \/ HardResetStarts
  PROVE  ConnInv'
  <1> USE DEF vbusVars
  <1>0. /\ plug \in Pins \cup {"open"} /\ supply \in BOOLEAN /\ typec \in BOOLEAN
        /\ hr \in BOOLEAN /\ wpc \in {"idle", "handle"} /\ moves \in 0 .. MaxMoves
    BY DEF ConnInv, TypeOK
  <1>1. ASSUME NEW pin \in Pins, Plug(pin) PROVE ConnInv'
    BY <1>0, <1>1, MovesConn DEF Plug, Moves, Sees
  <1>2. CASE Unplug
    BY <1>0, <1>2, MovesConn DEF Unplug, Moves, Seen
  <1>3. CASE SupplyOff \/ SupplyOn \/ RpMoves
    BY <1>0, <1>3, MovesConn DEF SupplyOff, SupplyOn, RpMoves, Moves
  <1>4. CASE VbusMoves
    <2>1. UNCHANGED <<env, typec, port, hr, wpc, told, pwr_event>>
      BY <1>4 DEF VbusMoves, VbusMovesTo
    <2>2. Good(port)'
      BY <2>1, Carries DEF ConnInv, PowerKnown
    <2> QED
      BY <2>1, <2>2 DEF env, ConnInv, TypeOK, IdleClean, Inv
  <1>5. CASE VbusDips
    <2>1. /\ MoveOn /\ UNCHANGED <<plug, supply, typec, hr>>
          /\ UNCHANGED <<told, pwr_event>>
      BY <1>5 DEF VbusDips, VbusMovesTo
    <2> QED
      BY <1>0, <2>1, MovesConn
  <1>6. CASE HardResetStarts
    BY <1>0, <1>6, MovesConn DEF HardResetStarts
  <1> QED
    BY <1>1, <1>2, <1>3, <1>4, <1>5, <1>6

LEMMA MonitorConn ==
  ASSUME ConnInv, Inv', Convert \/ UCPD_ADC_ISR, UNCHANGED <<env, typec, port, hr, wpc>>
  PROVE  ConnInv'
  <1>1. PowerKnown => PowerKnown'
    <2>1. CASE Convert
      BY <2>1 DEF Convert, PowerKnown
    <2>2. CASE UCPD_ADC_ISR
      BY <2>2, DeltaInv DEF ConnInv, PowerKnown, Service!Detected, Service!Removed
    <2> QED
      BY <2>1, <2>2
  <1>2. Good(port)'
    BY <1>1, Carries DEF ConnInv
  <1> QED
    BY <1>2 DEF env, ConnInv, TypeOK, IdleClean, Inv

LEMMA CcConn == ASSUME ConnInv, Inv', CcChange PROVE ConnInv'
  <1> DEFINE pin == IF Seen THEN plug ELSE NoPin
             event == IF Seen THEN "CONN_DETECTED" ELSE "CONN_REMOVED"
  <1>1. pin \in Pins \cup {NoPin} /\ event \in PhyEvents
    BY DEF ConnInv, TypeOK, Seen, PhyEvents, Pins
  <1>2. port \in Ports /\ Good(port) /\ typec' = FALSE
    BY DEF ConnInv, Good, CcChange
  <1>3. port' = [port EXCEPT !.cc = pin, !.phy_event = event]
    BY DEF CcChange
  <1> HIDE DEF pin, event
  <1>4. /\ port' \in Ports
        /\ port'.cad = port.cad /\ port'.tccDeb = port.tccDeb
        /\ port'.vbusDet = port.vbusDet /\ port'.gap = port.gap
        /\ port'.tim = port.tim /\ port'.timer_event = port.timer_event
        /\ port'.current_timer = port.current_timer
        /\ port'.current_pwr = port.current_pwr
    BY <1>1, <1>2, <1>3 DEF Ports
  <1>5. UNCHANGED vbusVars /\ UNCHANGED <<env, hr, wpc>>
    BY DEF CcChange
  <1>6. PowerKnown' <=> PowerKnown
    BY <1>5, SameVbus
  <1>7. Good(port)'
    BY <1>2, <1>4, <1>6 DEF Good, MarkOf, OneTimeout, PowerOf
  <1> QED
    BY <1>2, <1>4, <1>5, <1>7 DEF env, ConnInv, TypeOK, IdleClean, Inv

LEMMA TimerConn == ASSUME ConnInv, Inv', TimerExpires PROVE ConnInv'
  <1> DEFINE event == EventOf(port.tim)
  <1>1. /\ port \in Ports /\ Good(port)
        /\ port.timer_event = NoEvent /\ port.current_timer = NoEvent
        /\ port.tim \in Debounce
    BY DEF ConnInv, Good, TimerExpires, Ports
  <1>2. event \in TimerEvents
        /\ (event = "TPDEBOUNCE_TIMEOUT" => port.tim = "PDDEB")
    BY <1>1 DEF TimerEvents, EventOf, Debounce
  <1>3. port' = [port EXCEPT !.tim = NoPin, !.timer_event = event]
    BY DEF TimerExpires
  <1> HIDE DEF event
  <1>4. /\ port' \in Ports
        /\ port'.cad = port.cad /\ port'.tccDeb = port.tccDeb
        /\ port'.vbusDet = port.vbusDet /\ port'.gap = port.gap
        /\ port'.tim = NoPin /\ port'.timer_event = event
        /\ port'.current_timer = port.current_timer
        /\ port'.current_pwr = port.current_pwr
    BY <1>1, <1>2, <1>3 DEF Ports
  <1>5. UNCHANGED vbusVars /\ UNCHANGED <<env, typec, hr, wpc>>
    BY DEF TimerExpires
  <1>6. PowerKnown' <=> PowerKnown
    BY <1>5, SameVbus
  <1>7. MarkOf(port)'
    BY <1>1, <1>2, <1>4, Distinct DEF Good, MarkOf, NoPin
  <1>8. OneTimeout(port)' /\ PowerOf(port)'
    BY <1>1, <1>4, <1>6 DEF Good, OneTimeout, PowerOf
  <1> QED
    BY <1>4, <1>5, <1>7, <1>8 DEF Good, env, ConnInv, TypeOK, IdleClean, Inv

LEMMA SnapshotConn == ASSUME ConnInv, Inv', Snapshot PROVE ConnInv'
  <1>1. PICK timer \in {port.timer_event} \cup (IF hr THEN {NoEvent} ELSE {}) :
          port' = [port EXCEPT
                     !.current_phy = port.phy_event, !.phy_event = NoEvent,
                     !.current_timer = timer, !.timer_event = NoEvent,
                     !.current_pwr = pwr_event]
    BY DEF Snapshot
  <1>2. /\ port \in Ports /\ Good(port)
        /\ port.current_pwr = NoEvent /\ port.current_timer = NoEvent
        /\ port.timer_event \in TimerEvents /\ port.phy_event \in PhyEvents
        /\ pwr_event \in PwrEvents
    BY DEF ConnInv, Good, IdleClean, Snapshot, WorkerAt, Ports, TypeOK, VbusTypeOK, PwrEvents
  <1>3. timer \in TimerEvents /\ timer \in {port.timer_event, NoEvent}
    BY <1>1, <1>2, NoEventIn
  <1>4. /\ port' \in Ports
        /\ port'.cad = port.cad /\ port'.tccDeb = port.tccDeb
        /\ port'.vbusDet = port.vbusDet /\ port'.gap = port.gap
        /\ port'.tim = port.tim /\ port'.timer_event = NoEvent
        /\ port'.current_timer = timer
        /\ port'.current_pwr = pwr_event
    BY <1>1, <1>2, <1>3, NoEventIn DEF Ports
  <1>5. /\ UNCHANGED <<env, typec, hr, told>> /\ pwr_event' = NoEvent
        /\ wpc' = "handle"
    BY DEF Snapshot, SlotTaken
  <1>6. MarkOf(port)' /\ OneTimeout(port)'
    BY <1>2, <1>3, <1>4, Distinct DEF Good, MarkOf, OneTimeout
  <1>7. pwr_event = "VBUS_DETECTED" => told = "detected"
    BY DEF ConnInv, Inv, NewsIsTrue, ToldByState
  <1>8. port.gap = "none" /\ (port.vbusDet \/ port.cad = "ATTACHED") => PowerKnown
    BY <1>2, Distinct DEF Good, PowerOf
  <1>9. PowerOf(port)'
    BY <1>4, <1>5, <1>7, <1>8 DEF PowerOf, PowerKnown
  <1> QED
    BY <1>4, <1>5, <1>6, <1>9 DEF Good, env, ConnInv, TypeOK, IdleClean, Inv

LEMMA HandleConn == ASSUME ConnInv, Inv', Handle PROVE ConnInv'
  <1> DEFINE p == UCPD_PE_PRL_Handler(port)
             missed == Attaches(p) /\ pwr_event = "VBUS_REMOVED"
  <1>1. Good(p) /\ p.current_pwr = NoEvent /\ p.current_timer = NoEvent
    BY HandlerGood DEF ConnInv
  <1>2. /\ port' = MissesIf(p, missed, "erased")
        /\ IF Attaches(p) THEN SlotTaken ELSE UNCHANGED vbusVars
        /\ hr' = (hr /\ ~Attaches(p))
        /\ typec' = (Detaches(p) /\ plug # "open")
        /\ wpc' = "idle" /\ UNCHANGED env
    BY DEF Handle
  <1>3. Attaches(p) \in BOOLEAN /\ Detaches(p) \in BOOLEAN
    BY DEF Attaches, Detaches
  <1> HIDE DEF p
  <1>4. missed \in BOOLEAN /\ "erased" \in Gaps
    BY DEF Gaps
  <1>5. p \in Ports /\ OneTimeout(p)
    BY <1>1 DEF Good
  <1>6. /\ Good(MissesIf(p, missed, "erased"))
        /\ port'.current_pwr = NoEvent /\ port'.current_timer = NoEvent
    <2> HIDE DEF missed
    <2> QED
      BY <1>1, <1>2, <1>4, <1>5, MissesGood
  <1>7. missed => port'.gap # "none"
    BY <1>2, <1>5, <1>4 DEF MissesIf, Ports, Gaps
  <1>8. PowerKnown => PowerKnown' \/ port'.gap # "none"
    BY <1>2, <1>7 DEF PowerKnown, SlotTaken, vbusVars
  <1>9. Good(port)'
    <2>1. /\ port' \in Ports /\ MarkOf(port') /\ OneTimeout(port')
          /\ PowerOf(port')
      BY <1>2, <1>6 DEF Good
    <2>2. PowerOf(port)'
      BY <1>6, <1>8, <2>1, Distinct DEF PowerOf
    <2> QED
      BY <2>1, <2>2 DEF Good, MarkOf, OneTimeout
  <1>10. hr' \in BOOLEAN /\ typec' \in BOOLEAN
    BY <1>2, <1>3 DEF ConnInv, TypeOK
  <1> QED
    BY <1>2, <1>6, <1>9, <1>10 DEF Good, env, ConnInv, TypeOK, IdleClean, Inv

LEMMA NextConn == ConnInv /\ [Next]_vars => ConnInv'
  <1> SUFFICES ASSUME ConnInv, [Next]_vars PROVE ConnInv'
    OBVIOUS
  <1>1. Inv'
    BY NextVbus, NextInv DEF ConnInv
  <1>2. CASE HardResetEnds
    <2>1. UNCHANGED vbusVars /\ UNCHANGED <<env, typec, port, wpc>> /\ hr' = FALSE
      BY <1>2 DEF HardResetEnds
    <2>2. Good(port)'
      BY <2>1, SameVbus, Carries DEF ConnInv
    <2> QED
      BY <1>1, <2>1, <2>2 DEF env, ConnInv, TypeOK, IdleClean, Inv
  <1>3. CASE UNCHANGED vars
    <2>1. UNCHANGED vbusVars /\ UNCHANGED <<env, typec, port, hr, wpc>>
      BY <1>3 DEF vars
    <2>2. Good(port)'
      BY <2>1, SameVbus, Carries DEF ConnInv
    <2> QED
      BY <1>1, <2>1, <2>2 DEF env, ConnInv, TypeOK, IdleClean, Inv
  <1> QED
    BY <1>1, <1>2, <1>3, EnvironmentConn, MonitorConn, CcConn, TimerConn,
       SnapshotConn, HandleConn
       DEF Next

-----------------------------------------------------------------------------

LEMMA ConnInvariance == Spec => []ConnInv
  BY InitConn, NextConn, PTL DEF Spec

\* Every variable keeps its type.
THEOREM TypeCorrect == Spec => []TypeOK
  <1>1. ConnInv => TypeOK
    BY DEF ConnInv
  <1> QED
    BY <1>1, ConnInvariance, PTL

\* The debounce mark belongs to the connection that earned it.
THEOREM MarkCorrect == Spec => []MarkEarned
  <1>1. ConnInv => MarkEarned
    BY DEF ConnInv, Good, MarkOf, MarkEarned
  <1> QED
    BY <1>1, ConnInvariance, PTL

\* A port that is attached has power, or the news that it has gone is on its way.
THEOREM PowerCorrect == Spec => []AttachedHasPower
  <1>1. ConnInv => AttachedHasPower
    BY DEF ConnInv, Good, PowerOf, PowerKnown, AttachedHasPower
  <1> QED
    BY <1>1, ConnInvariance, PTL
=============================================================================
