--------------------------- MODULE UcpdStackProofs ---------------------------
(***************************************************************************)
(* The state machines of UcpdStack wait whenever the worker does not run,  *)
(* for every number of retries and MessageIDs and every source; outside    *)
(* EPR mode the transition to a new contract always has its timer, and the *)
(* source is not mistaken about a MessageID; in EPR mode the keep-alive    *)
(* timer runs in READY; no call that the application's code of UcpdApi     *)
(* makes in the worker spins, and no request that waits is lost.           *)
(***************************************************************************)
EXTENDS UcpdApi, UcpdLink

LEMMA Slots ==
  {"MSG_RX_COMPLETE", "MSG_TX_DISCARDED", "MSG_TX_COMPLETED", "HRD_SENT",
   "HRD_RECEIVED", "CONN_DETECTED", NONE} \subseteq PhyEvents \cup {NONE}
  BY DEF PhyEvents

LEMMA InitSInv == Init => SInv
  BY AttachRests, Slots DEF Init, SInv

\* The worker, whatever call the application's code makes in it
LEMMA HandlingRests ==
  ASSUME SInv, NEW user \in UserType
  PROVE  AtRest(Handling(user)) /\ Kept(p, Handling(user))
  <1> DEFINE q == [p EXCEPT !.told = NoCall, !.user = user]
  <1>1. AtRest(q) /\ q.dpm_event = p.dpm_event /\ q.cad = p.cad
    BY DEF SInv, AtRest, Settled, Port, Fields
  <1>2. Handling(user) = UCPD_PE_PRL_Handler(q, pwr, phy, tim)
    BY DEF Handling
  <1> HIDE DEF q
  <1> QED
    BY <1>1, <1>2, HandlerRests DEF Kept

LEMMA HandledRests ==
  ASSUME NEW q, AtRest(q), Handled(q)
  PROVE  AtRest(p')
  BY DEF Handled, AtRest, Settled, Port, Fields, UserType

\* The fields that the interrupts of the wire write
LEMMA WireFields ==
  ASSUME NEW q, AtRest(q), NEW allowed, NEW message
  PROVE  /\ AtRest([q EXCEPT !.txAllowed = allowed])
         /\ AtRest([q EXCEPT !.txAllowed = allowed, !.air = message])
         /\ AtRest([q EXCEPT !.txAllowed = allowed, !.rxMsg = message])
  BY DEF AtRest, Settled, Port, Fields

\* The wire, the timers, VBUS
LEMMA EnvironmentSInv ==
  ASSUME SInv,
         \/ SourceGoodCRC \/ SourceSpeaks \/ SourceRetries \/ Received
         \/ Transmitted \/ HardResetTransmitted \/ SourceHardReset \/ SinkTx
         \/ VbusRemoved \/ VbusReturns \/ Reattach
         \/ \E c \in {0, 1} : UCPD_TIM_Expired(c)
  PROVE  SInv'
  <1> USE DEF SInv
  <1>1. ASSUME NEW m, Speak(m) PROVE SInv'
    <2>1. phy' \in {phy, "MSG_TX_DISCARDED"}
      BY <1>1 DEF Speak, PostPhy
    <2>2. /\ AtRest([p EXCEPT !.txAllowed = FALSE])
          /\ AtRest([p EXCEPT !.txAllowed = FALSE, !.air = NoMessage])
      BY WireFields
    <2>3. \/ p' = [p EXCEPT !.txAllowed = FALSE]
          \/ p' = [p EXCEPT !.txAllowed = FALSE, !.air = NoMessage]
      BY <1>1 DEF Speak
    <2>4. AtRest(p')
      BY <2>2, <2>3
    <2> QED
      BY <2>1, <2>4, Slots
  <1>2. CASE SourceGoodCRC \/ SourceSpeaks \/ SourceRetries
    BY <1>1, <1>2 DEF SourceGoodCRC, SourceSpeaks, SourceRetries
  <1>3. CASE Received
    <2>1. phy' \in {phy, "MSG_RX_COMPLETE"}
      BY <1>3 DEF Received, PostPhy
    <2>2. /\ AtRest([p EXCEPT !.txAllowed = TRUE])
          /\ AtRest([p EXCEPT !.txAllowed = TRUE, !.rxMsg = wire])
      BY WireFields
    <2>3. \/ p' = [p EXCEPT !.txAllowed = TRUE]
          \/ p' = [p EXCEPT !.txAllowed = TRUE, !.rxMsg = wire]
      BY <1>3 DEF Received
    <2>4. AtRest(p')
      BY <2>2, <2>3
    <2> QED
      BY <2>1, <2>4, Slots
  <1>4. CASE Transmitted
    BY <1>4, Slots DEF Transmitted, PostPhy, AtRest, Settled, Port, Fields
  <1>5. CASE HardResetTransmitted
    BY <1>5, Slots DEF HardResetTransmitted, PostPhy, AtRest, Settled, Port, Fields
  <1>6. CASE SourceHardReset
    BY <1>6, Slots DEF SourceHardReset, PostPhy, AtRest, Settled, Port, Fields
  <1>7. CASE SinkTx
    BY <1>7, Slots DEF SinkTx, PostPhy, AtRest, Settled, Port, Fields
  <1>8. CASE VbusRemoved \/ VbusReturns
    BY <1>8 DEF VbusRemoved, VbusReturns, AtRest, Settled, Port, Fields
  <1>9. CASE Reattach
    BY <1>9, AttachRests DEF Reattach
  <1>10. ASSUME NEW c \in {0, 1}, UCPD_TIM_Expired(c) PROVE SInv'
    <2>1. p' = [p EXCEPT !.tim = [p.tim EXCEPT ![c] = NONE]] /\ phy' = phy
      BY <1>10 DEF UCPD_TIM_Expired, AtRest, Settled, Port, Fields
    <2>2. p.tim \in TimType
      BY DEF AtRest, Settled, Port
    <2>3. [p.tim EXCEPT ![c] = NONE] \in TimType
      BY <2>2, TimerType
    <2> QED
      BY <2>1, <2>3 DEF AtRest, Settled, Port, Fields
  <1> QED
    BY <1>2, <1>3, <1>4, <1>5, <1>6, <1>7, <1>8, <1>9, <1>10

LEMMA NextSInv == SInv /\ [Next]_vars => SInv'
  <1> SUFFICES ASSUME SInv, [Next]_vars PROVE SInv'
    OBVIOUS
  <1>1. CASE Worker
    <2>1. AtRest(Handling(NoUserCode))
      BY HandlingRests DEF UserType
    <2>2. AtRest(p')
      BY <1>1, <2>1, HandledRests DEF Worker
    <2> QED
      BY <1>1, <2>2 DEF Worker, SlotsTaken, SInv
  <1>2. ASSUME NEW request \in Requests, RequestAsync(request) PROVE SInv'
    <2>1. request \in RequestType
      BY StackAssumption DEF RequestType
    <2> QED
      BY <1>2, <2>1 DEF RequestAsync, SInv, AtRest, Settled, Port, Fields
  <1>3. CASE UNCHANGED vars
    BY <1>3 DEF vars, SInv
  <1> QED
    BY <1>1, <1>2, <1>3, EnvironmentSInv DEF Next

LEMMA SInvTypeOK == SInv => TypeOK
  BY DEF SInv, TypeOK, AtRest, Settled, Port, RxType, TxType, RetryType, TimType,
         RchWaiting, TchWaiting

\* Between two runs of the worker both state machines wait for an event and the
\* counters are in their ranges (TypeOK).
THEOREM TypeCorrect == Spec => []TypeOK
  <1>1. Spec => []SInv
    BY InitSInv, NextSInv, PTL DEF Spec
  <1> QED
    BY <1>1, SInvTypeOK, PTL

-----------------------------------------------------------------------------
\* The link, step by step

\* The fields of the port that the wire and the timers write
WireWritten == {"txAllowed", "air", "rxMsg", "hardResetActive", "tim"}

LEMMA WireKeeps ==
  ASSUME NEW q, Sound(q), NEW r, Only(q, r, WireWritten), Port(r),
         r.txAllowed \in BOOLEAN, r.hardResetActive \in BOOLEAN,
         r.air \in {q.air, NoMessage}, Sends(r) => r.txAllowed = FALSE,
         \A c \in {0, 1} : r.tim[c] \in {q.tim[c], NONE}
  PROVE  /\ Sound(r)
         /\ r.snk = q.snk /\ r.cad = q.cad /\ r.txKind = q.txKind
         /\ r.dpm_event = q.dpm_event
         /\ AwaitsPhy(q) <=> AwaitsPhy(r)
         /\ Sends(r) => Sends(q)
         /\ Steady(q) /\ r.hardResetActive = q.hardResetActive
              /\ (q.snk = "HARD_RESET" => r.air = q.air) => Steady(r)
         /\ Guarded(q) /\ r.tim[0] = q.tim[0] => Guarded(r)
  <1>1. Spr(q) /\ DOMAIN q = Fields
    BY FlagsAre DEF Sound, Spr
  <1>2. /\ r.snk = q.snk /\ r.cad = q.cad /\ r.tx = q.tx /\ r.tch = q.tch
        /\ r.txKind = q.txKind /\ DOMAIN r = Fields
        /\ r.extended = q.extended /\ r.epr_mode = q.epr_mode
        /\ r.pps_contract = q.pps_contract /\ r.hrdOriginPE = q.hrdOriginPE
        /\ r.rch = q.rch /\ r.extRx = q.extRx /\ r.entering_epr = q.entering_epr
        /\ r.dpm_event = q.dpm_event /\ r.user = q.user
    BY <1>1 DEF Only, Fields, WireWritten
  <1>3. \A f \in Flags : r[f] \in BOOLEAN
    <2>1. \A f \in Flags \ {"txAllowed", "hardResetActive"} : r[f] = q[f]
      BY <1>1 DEF Only, Fields, WireWritten, Flags
    <2> QED
      BY <1>1, <2>1 DEF Spr, NoEpr
  <1>4. NoEpr(r)
    BY <1>1, <1>2, <1>3 DEF Spr, NoEpr
  <1>5. r.tim[0] \in {q.tim[0], NONE} /\ r.tim[1] \in {q.tim[1], NONE}
    OBVIOUS
  <1>6. Spr(r)
    BY <1>1, <1>2, <1>4, <1>5 DEF Spr, SprTimers, NONE
  <1>7. (AwaitsPhy(q) <=> AwaitsPhy(r)) /\ (Sends(r) => Sends(q))
    BY <1>2 DEF AwaitsPhy, Sends, NoMessage
  <1>8. Sound(r)
    BY <1>2, <1>5, <1>6, <1>7 DEF Sound, Sends, NoMessage, NONE
  <1> QED
    BY <1>2, <1>7, <1>8 DEF Steady, Guarded

LEMMA LinkFacts ==
  ASSUME LinkInv
  PROVE  /\ Sound(p) /\ Spr(p) /\ NoEpr(p) /\ Port(p) /\ DOMAIN p = Fields
         /\ p.txAllowed \in BOOLEAN /\ p.hardResetActive \in BOOLEAN
         /\ p.sinkTxOk \in BOOLEAN /\ DOMAIN src = SourceFields
  BY FlagsAre DEF LinkInv, Sound, Spr, SprSource

\* A message of the source begins.
LEMMA SpokenPort ==
  ASSUME LinkInv, SInv', NEW m, Speak(m), WireFree, p.air.kind # "HardReset"
  PROVE  /\ Steady(p') /\ (Guarded(p) => Guarded(p'))
         /\ p'.air = NoMessage /\ p'.txAllowed = FALSE
         /\ p'.snk = p.snk /\ p'.cad = p.cad /\ p'.txKind = p.txKind
         /\ p'.rxMsg = p.rxMsg /\ p'.tim = p.tim /\ p'.dpm_event = p.dpm_event
         /\ AwaitsPhy(p) <=> AwaitsPhy(p')
         /\ wire' = m
         /\ phy' = IF p.air = NoMessage THEN NONE ELSE "MSG_TX_DISCARDED"
         /\ p.air # NoMessage => p.tim[0] # "CRC_RECEIVE" /\ Sends(p)
  <1>1. /\ Sound(p) /\ DOMAIN p = Fields /\ Port(p') /\ Steady(p)
        /\ p.hardResetActive \in BOOLEAN /\ p.txAllowed \in BOOLEAN
    <2>1. Port(p')
      BY DEF SInv, AtRest, Settled
    <2>2. Steady(p)
      BY DEF LinkInv, PhyAgrees, WireFree, HardResets, NONE
    <2> QED
      BY <2>1, <2>2, LinkFacts
  <1>2. /\ Only(p, p', {"txAllowed", "air"})
        /\ p'.air = NoMessage /\ p'.txAllowed = FALSE
        /\ wire' = m
        /\ phy' = IF p.air = NoMessage THEN NONE ELSE "MSG_TX_DISCARDED"
    BY <1>1, ZenonT(60) DEF Speak, PostPhy, WireFree, Only, Fields
  <1>3. /\ p'.hardResetActive = p.hardResetActive /\ p'.tim = p.tim
        /\ p'.rxMsg = p.rxMsg
    BY <1>1, <1>2 DEF Only, Fields
  <1>4. Only(p, p', WireWritten) /\ ~Sends(p')
    BY <1>2, OnlyGrows DEF WireWritten, Sends, NoMessage
  <1>5. p.air # NoMessage => Sends(p) /\ p.tim[0] # "CRC_RECEIVE" /\ p.snk # "HARD_RESET"
    BY <1>1 DEF Sound, Steady, Sends
  <1>6. p.snk = "HARD_RESET" => p'.air = p.air
    BY <1>2, <1>5
  <1>7. /\ Steady(p') /\ p'.snk = p.snk /\ p'.cad = p.cad /\ p'.txKind = p.txKind
        /\ p'.dpm_event = p.dpm_event /\ (AwaitsPhy(p) <=> AwaitsPhy(p'))
        /\ (Guarded(p) => Guarded(p'))
    <2>1. /\ p'.txAllowed \in BOOLEAN /\ p'.hardResetActive \in BOOLEAN
          /\ p'.air \in {p.air, NoMessage} /\ (Sends(p') => p'.txAllowed = FALSE)
          /\ \A c \in {0, 1} : p'.tim[c] \in {p.tim[c], NONE}
      BY <1>1, <1>2, <1>3
    <2>2. Sound(p) /\ Port(p') /\ Only(p, p', WireWritten)
      BY <1>1, <1>4
    <2>3. p'.hardResetActive = p.hardResetActive /\ (p.snk = "HARD_RESET" => p'.air = p.air)
          /\ Steady(p) /\ p'.tim[0] = p.tim[0]
      BY <1>1, <1>3, <1>6
    <2> QED
      BY <2>1, <2>2, <2>3, WireKeeps
  <1> QED
    BY <1>2, <1>3, <1>5, <1>7

LEMMA GoodCRCLink ==
  ASSUME LinkInv, SInv', SourceGoodCRC
  PROVE  LinkInv'
  <1> DEFINE m == [kind |-> "GoodCRC", id |-> src.owes, chunk |-> 0]
  <1>1. /\ WireFree /\ p.air = NoMessage /\ src.owes # NoMID /\ Speak(m)
        /\ src' = [src EXCEPT !.owes = NoMID] /\ pwr' = pwr /\ tim' = tim
    BY DEF SourceGoodCRC
  <1>2. /\ Steady(p') /\ (Guarded(p) => Guarded(p'))
        /\ p'.air = NoMessage /\ p'.txAllowed = FALSE
        /\ p'.snk = p.snk /\ p'.cad = p.cad /\ p'.txKind = p.txKind
        /\ p'.rxMsg = p.rxMsg /\ p'.tim = p.tim /\ p'.dpm_event = p.dpm_event
        /\ (AwaitsPhy(p) <=> AwaitsPhy(p'))
        /\ wire' = m /\ phy' = NONE
    <2>1. p.air.kind # "HardReset"
      BY <1>1 DEF NoMessage, NONE
    <2> QED
      BY <1>1, <2>1, SpokenPort
  <1>3. GoodCRCDue /\ AwaitsPhy(p) /\ tim = NONE
    BY <1>1 DEF LinkInv, WireAgrees, GoodCRCDue
  <1>4. src.turn \notin {"OFF", "DEAD"} /\ p.cad = "ATTACHED" /\ pwr # "VBUS_REMOVED"
    BY <1>1 DEF LinkInv, WireAgrees, Detached
  <1>5. /\ DOMAIN src' = SourceFields /\ src'.owes = NoMID /\ src'.epr = src.epr
        /\ src'.turn = src.turn /\ src'.next = src.next /\ src'.out = src.out
    BY <1>1, LinkFacts DEF SourceFields
  <1>6. wire'.kind = "GoodCRC" /\ wire' # NoMessage
    BY <1>2 DEF NoMessage, NONE
  <1>7. SprSource'
    BY <1>2, <1>5, <1>6 DEF LinkInv, SprSource, SprReceived
  <1>8. PhyAgrees'
    BY <1>2 DEF PhyAgrees, HardResets, NONE
  <1>9. WireAgrees'
    BY <1>1, <1>2, <1>3, <1>4, <1>5, <1>6 DEF WireAgrees, GoodCRCDue, Sends, NoMessage, NONE
  <1>10. TimerAgrees'
    BY <1>1, <1>2, <1>3 DEF LinkInv, TimerAgrees, NONE
  <1> QED
    BY <1>1, <1>2, <1>3, <1>4, <1>7, <1>8, <1>9, <1>10 DEF LinkInv, Steady, NONE

LEMMA SayOutsideEpr ==
  ASSUME LinkInv, NEW say \in Says(src)
  PROVE  /\ say[1] \in SprRx
         /\ say[2] \in SprTurns \ {"OFF", "DEAD"}
         /\ src.turn \notin {"OFF", "DEAD"}
  BY StackAssumption DEF LinkInv, SprSource, SprTurns, Says, SprRx

LEMMA SpeaksLink ==
  ASSUME LinkInv, SInv', SourceSpeaks
  PROVE  LinkInv'
  <1> DEFINE M(say) == [kind |-> say[1],
                        id |-> IF say[1] = "Soft_Reset" THEN 0 ELSE src.id,
                        chunk |-> IF src.turn = "CHUNK" THEN 1 ELSE 0]
  <1>1. PICK say \in Says(src) :
          /\ Speak(M(say))
          /\ src' = [src EXCEPT !.out = M(say), !.id = M(say).id, !.next = say[2],
                                !.tries = 0, !.got = 0, !.acked = FALSE,
                                !.seen = IF say[1] = "Soft_Reset" THEN NoMID ELSE @]
    BY DEF SourceSpeaks
  <1> DEFINE m == M(say)
  <1>2. m.kind = say[1] /\ Speak(m) /\ m = M(say)
    BY <1>1
  <1> HIDE DEF m, M
  <1>3. /\ WireFree /\ p.cad = "ATTACHED" /\ src.owes = NoMID /\ src.out = NoMessage
        /\ p.air.kind # "HardReset" /\ pwr' = pwr /\ tim' = tim
    BY DEF SourceSpeaks
  <1>4. say[1] \in SprRx /\ say[2] \in SprTurns /\ src.turn \notin {"OFF", "DEAD"}
    BY <1>2, SayOutsideEpr
  <1>5. /\ Steady(p') /\ (Guarded(p) => Guarded(p'))
        /\ p'.air = NoMessage /\ p'.txAllowed = FALSE
        /\ p'.snk = p.snk /\ p'.cad = p.cad /\ p'.txKind = p.txKind
        /\ p'.rxMsg = p.rxMsg /\ p'.tim = p.tim
        /\ (AwaitsPhy(p) <=> AwaitsPhy(p'))
        /\ wire' = m
        /\ phy' = IF p.air = NoMessage THEN NONE ELSE "MSG_TX_DISCARDED"
        /\ p.air # NoMessage => p.tim[0] # "CRC_RECEIVE" /\ Sends(p)
    BY <1>2, <1>3, SpokenPort
  <1>6. p.air # NoMessage => tim = NONE
    BY <1>5 DEF LinkInv, WireAgrees
  <1>7. /\ DOMAIN src' = SourceFields /\ src'.owes = NoMID /\ src'.epr = src.epr
        /\ src'.turn = src.turn /\ src'.next = say[2] /\ src'.out = m
    <2>1. DOMAIN src = SourceFields
      BY LinkFacts
    <2> DEFINE id == M(say).id
               seen == IF say[1] = "Soft_Reset" THEN NoMID ELSE src.seen
    <2>2. src' = [src EXCEPT !.out = m, !.id = id, !.next = say[2], !.tries = 0,
                             !.got = 0, !.acked = FALSE, !.seen = seen]
      BY <1>1, <1>2, <2>1 DEF SourceFields
    <2> HIDE DEF id, seen
    <2> QED
      BY <1>3, <2>1, <2>2 DEF SourceFields
  <1>8. m.kind \in SprRx /\ m.kind \notin {"GoodCRC", NONE}
    BY <1>2, <1>4 DEF SprRx, NONE
  <1>9. SprSource'
    BY <1>4, <1>5, <1>7, <1>8 DEF LinkInv, SprSource, SprReceived
  <1>10. PhyAgrees'
    BY <1>3, <1>5, <1>6 DEF PhyAgrees, HardResets, NONE
  <1>11. WireAgrees'
    BY <1>3, <1>4, <1>5, <1>7, <1>8
    DEF LinkInv, WireAgrees, GoodCRCDue, Sends, NoMessage, NONE
  <1>12. TimerAgrees'
    BY <1>3, <1>5 DEF LinkInv, TimerAgrees
  <1> QED
    BY <1>3, <1>5, <1>9, <1>10, <1>11, <1>12 DEF LinkInv, Steady

LEMMA RetriesLink ==
  ASSUME LinkInv, SInv', SourceRetries
  PROVE  LinkInv'
  <1>1. /\ WireFree /\ p.cad = "ATTACHED" /\ p.air = NoMessage
        /\ src.out # NoMessage /\ src.owes = NoMID /\ Speak(src.out)
        /\ src' = [src EXCEPT !.tries = @ + 1] /\ pwr' = pwr /\ tim' = tim
    BY DEF SourceRetries, GoodCRCMissed
  <1>2. src.turn \notin {"OFF", "DEAD"}
    BY <1>1 DEF LinkInv, WireAgrees
  <1>3. /\ Steady(p') /\ (Guarded(p) => Guarded(p'))
        /\ p'.air = NoMessage /\ p'.txAllowed = FALSE
        /\ p'.snk = p.snk /\ p'.cad = p.cad /\ p'.txKind = p.txKind
        /\ p'.rxMsg = p.rxMsg /\ p'.tim = p.tim
        /\ (AwaitsPhy(p) <=> AwaitsPhy(p'))
        /\ wire' = src.out /\ phy' = NONE
    <2>1. p.air.kind # "HardReset"
      BY <1>1 DEF NoMessage, NONE
    <2> QED
      BY <1>1, <2>1, SpokenPort
  <1>4. /\ DOMAIN src' = SourceFields /\ src'.owes = NoMID /\ src'.epr = src.epr
        /\ src'.turn = src.turn /\ src'.next = src.next /\ src'.out = src.out
    BY <1>1, LinkFacts DEF SourceFields
  <1>5. wire'.kind \in {NONE} \cup SprRx /\ wire'.kind # "GoodCRC"
    BY <1>3 DEF LinkInv, SprSource, SprRx, NONE
  <1>6. SprSource'
    BY <1>3, <1>4, <1>5 DEF LinkInv, SprSource, SprReceived
  <1>7. PhyAgrees'
    BY <1>3 DEF PhyAgrees, HardResets, NONE
  <1>8. WireAgrees'
    BY <1>1, <1>2, <1>3, <1>4, <1>5
    DEF LinkInv, WireAgrees, GoodCRCDue, Sends, NoMessage, NONE
  <1>9. TimerAgrees'
    BY <1>1, <1>3 DEF LinkInv, TimerAgrees
  <1> QED
    BY <1>1, <1>3, <1>6, <1>7, <1>8, <1>9 DEF LinkInv, Steady

\* What an interrupt of the wire leaves of the port
WireStep(q, r) ==
  /\ Sound(r) /\ DOMAIN r = Fields
  /\ r.snk = q.snk /\ r.cad = q.cad /\ r.txKind = q.txKind
  /\ r.dpm_event = q.dpm_event /\ r.tim = q.tim
  /\ AwaitsPhy(q) => AwaitsPhy(r)
  /\ Guarded(q) => Guarded(r)

LEMMA WireSteps ==
  ASSUME NEW q, Sound(q), NEW r, Only(q, r, {"txAllowed", "air", "rxMsg", "hardResetActive"}),
         Port(r), r.txAllowed \in BOOLEAN, r.hardResetActive \in BOOLEAN,
         r.air \in {q.air, NoMessage}, Sends(r) => r.txAllowed = FALSE
  PROVE  /\ WireStep(q, r)
         /\ Steady(q) /\ r.hardResetActive = q.hardResetActive
              /\ (q.snk = "HARD_RESET" => r.air = q.air) => Steady(r)
  <1>1. DOMAIN q = Fields
    BY FlagsAre DEF Sound, Spr
  <1>2. Only(q, r, WireWritten) /\ r.tim = q.tim /\ DOMAIN r = Fields
    BY <1>1 DEF Only, Fields, WireWritten
  <1>3. \A c \in {0, 1} : r.tim[c] \in {q.tim[c], NONE}
    BY <1>2
  <1>4. /\ Sound(r)
        /\ r.snk = q.snk /\ r.cad = q.cad /\ r.txKind = q.txKind
        /\ r.dpm_event = q.dpm_event
        /\ AwaitsPhy(q) => AwaitsPhy(r)
        /\ Guarded(q) => Guarded(r)
        /\ Steady(q) /\ r.hardResetActive = q.hardResetActive
              /\ (q.snk = "HARD_RESET" => r.air = q.air) => Steady(r)
    BY <1>2, <1>3, WireKeeps
  <1> QED
    BY <1>2, <1>4 DEF WireStep

LEMMA ReceivedLink ==
  ASSUME LinkInv, SInv', Received
  PROVE  LinkInv'
  <1>1. /\ wire # NoMessage /\ phy = NONE /\ wire' = NoMessage
        /\ pwr' = pwr /\ tim' = tim /\ src' = src
        /\ \/ /\ p' = [p EXCEPT !.txAllowed = TRUE, !.rxMsg = wire]
              /\ phy' = "MSG_RX_COMPLETE"
           \/ p' = [p EXCEPT !.txAllowed = TRUE] /\ phy' = phy
    BY DEF Received, PostPhy
  <1>2. /\ Sound(p) /\ DOMAIN p = Fields /\ Steady(p)
        /\ p.hardResetActive \in BOOLEAN /\ Port(p')
    <2>1. Steady(p)
      BY <1>1 DEF LinkInv, PhyAgrees, HardResets, NONE
    <2>2. Port(p')
      BY DEF SInv, AtRest, Settled
    <2> QED
      BY <2>1, <2>2, LinkFacts
  <1>3. ~Sends(p)
    BY <1>1 DEF LinkInv, WireAgrees
  <1>4. /\ Only(p, p', {"txAllowed", "rxMsg"})
        /\ p'.txAllowed = TRUE
        /\ p'.air = p.air /\ p'.hardResetActive = p.hardResetActive
        /\ p'.tim = p.tim
        /\ \/ p'.rxMsg = wire /\ phy' = "MSG_RX_COMPLETE"
           \/ p'.rxMsg = p.rxMsg /\ phy' = NONE
    BY <1>1, <1>2, ZenonT(60) DEF Only, Fields
  <1>5. /\ Only(p, p', {"txAllowed", "air", "rxMsg", "hardResetActive"}) /\ ~Sends(p')
        /\ p'.txAllowed \in BOOLEAN /\ p'.hardResetActive \in BOOLEAN
        /\ p'.air \in {p.air, NoMessage}
    BY <1>2, <1>3, <1>4, OnlyGrows DEF Sends
  <1>6. /\ Steady(p') /\ p'.snk = p.snk /\ p'.cad = p.cad /\ p'.txKind = p.txKind
        /\ (AwaitsPhy(p) => AwaitsPhy(p')) /\ (Guarded(p) => Guarded(p'))
    BY <1>2, <1>4, <1>5, WireSteps DEF WireStep
  <1>7. p.cad = "ATTACHED" /\ src.owes = NoMID /\ src.turn \notin {"OFF", "DEAD"}
    BY <1>1 DEF LinkInv, WireAgrees, Detached
  <1>8. GoodCRCDue' => GoodCRCDue
    BY <1>1, <1>4, <1>7 DEF GoodCRCDue, NoMessage, NONE
  <1>9. SprSource'
    BY <1>1, <1>4 DEF LinkInv, SprSource, SprReceived, NoMessage
  <1>10. PhyAgrees'
    BY <1>1, <1>4, <1>6 DEF PhyAgrees, HardResets, NONE
  <1>11. WireAgrees'
    BY <1>1, <1>4, <1>5, <1>6, <1>7, <1>8 DEF LinkInv, WireAgrees, NoMessage, NONE
  <1>12. TimerAgrees'
    BY <1>1, <1>4, <1>6 DEF LinkInv, TimerAgrees
  <1> QED
    BY <1>1, <1>4, <1>6, <1>7, <1>9, <1>10, <1>11, <1>12 DEF LinkInv, Steady

\* The source at the end of a message of the port
LEMMA SourceTakes ==
  ASSUME LinkInv, Transmitted
  PROVE  /\ DOMAIN src' = SourceFields
         /\ src'.epr = FALSE
         /\ src'.turn \in SprTurns /\ src'.next \in SprTurns
         /\ src'.out.kind \in {NONE} \cup SprRx
         /\ src.turn \in {"OFF", "DEAD"} => src' = src
         /\ src'.turn \in {"OFF", "DEAD"} => src'.out = NoMessage /\ src'.owes = NoMID
         /\ src'.owes # NoMID => src.owes # NoMID \/ p.air.kind # "GoodCRC"
  <1>1. /\ DOMAIN src = SourceFields /\ src.epr = FALSE
        /\ src.turn \in SprTurns /\ src.next \in SprTurns
        /\ src.out.kind \in {NONE} \cup SprRx
        /\ src.turn \in {"OFF", "DEAD"} => src.out = NoMessage /\ src.owes = NoMID
    BY DEF LinkInv, SprSource, WireAgrees
  <1>2. CASE src' = src
    BY <1>1, <1>2
  <1>3. CASE /\ p.air.kind = "GoodCRC"
             /\ src.out # NoMessage
             /\ src' = [src EXCEPT !.out = NoMessage, !.turn = src.next, !.acked = TRUE,
                                   !.id = NextMID(@),
                                   !.epr = CASE src.out.kind = "EPRSucc" -> TRUE
                                             [] src.out.kind = "EPRExit" -> FALSE
                                             [] OTHER -> @]
    <2> DEFINE id == NextMID(src.id)
    <2>1. src.out.kind \notin {"EPRSucc", "EPRExit"}
      BY <1>1 DEF SprRx, NONE
    <2>2. src' = [src EXCEPT !.out = NoMessage, !.turn = src.next, !.acked = TRUE,
                             !.id = id, !.epr = FALSE]
      BY <1>1, <1>3, <2>1 DEF SourceFields
    <2> HIDE DEF id
    <2>3. src.owes = NoMID
      <3>1. Sends(p)
        BY <1>3 DEF Sends, NONE
      <3> QED
        BY <3>1 DEF LinkInv, WireAgrees
    <2>4. /\ DOMAIN src' = SourceFields /\ src'.epr = FALSE
          /\ src'.turn = src.next /\ src'.next = src.next
          /\ src'.out = NoMessage /\ src'.owes = src.owes
      BY <1>1, <2>2 DEF SourceFields
    <2>5. src.turn \notin {"OFF", "DEAD"}
      BY <1>1, <1>3
    <2> QED
      BY <1>1, <2>3, <2>4, <2>5 DEF NoMessage
  <1>4. CASE /\ p.air.kind # "GoodCRC"
             /\ Listens(src, p.air) /\ src' = SourceHears(src, p.air)
    <2>1. src.turn \notin {"OFF", "DEAD"}
      BY <1>4 DEF Listens
    <2>2. p.air.kind \in {"Request", "Accept", "Soft_Reset", "Not_Supported"}
      <3>1. Sends(p)
        BY DEF Transmitted, Sends
      <3>2. p.air.kind = p.txKind /\ p.txKind \in SprKinds /\ p.air.kind # NONE
        BY <3>1 DEF LinkInv, Sound, Spr, NoEpr, Sends
      <3> QED
        BY <1>4, <3>2 DEF SprKinds
    <2>3. Hears(p.air.kind) \in SprTurns \ {"OFF", "DEAD"}
      BY <2>2 DEF Hears, SprTurns
    <2>4. CASE src' = [src EXCEPT !.owes = p.air.id, !.mistaken = p.air.kind # src.heard]
      BY <1>1, <1>4, <2>1, <2>4 DEF SourceFields
    <2>5. ASSUME NEW id, NEW surprised,
                 src' = [src EXCEPT !.owes = p.air.id, !.seen = p.air.id,
                                    !.heard = p.air.kind, !.turn = Hears(p.air.kind),
                                    !.out = NoMessage, !.id = id,
                                    !.epr = @ /\ p.air.kind # "EPRExit",
                                    !.surprised = surprised]
          PROVE  /\ DOMAIN src' = SourceFields /\ src'.epr = FALSE
                 /\ src'.turn = Hears(p.air.kind) /\ src'.next = src.next
                 /\ src'.out = NoMessage
      BY <1>1, <2>5 DEF SourceFields
    <2>6. \/ src' = [src EXCEPT !.owes = p.air.id, !.mistaken = p.air.kind # src.heard]
          \/ /\ DOMAIN src' = SourceFields /\ src'.epr = FALSE
             /\ src'.turn = Hears(p.air.kind) /\ src'.next = src.next
             /\ src'.out = NoMessage
      <3>1. \/ src' = [src EXCEPT !.owes = p.air.id, !.mistaken = p.air.kind # src.heard]
            \/ \E id, surprised :
                 src' = [src EXCEPT !.owes = p.air.id, !.seen = p.air.id,
                                    !.heard = p.air.kind, !.turn = Hears(p.air.kind),
                                    !.out = NoMessage, !.id = id,
                                    !.epr = @ /\ p.air.kind # "EPRExit",
                                    !.surprised = surprised]
        BY <1>4 DEF SourceHears
      <3> QED
        BY <2>5, <3>1
    <2>7. CASE /\ DOMAIN src' = SourceFields /\ src'.epr = FALSE
               /\ src'.turn = Hears(p.air.kind) /\ src'.next = src.next
               /\ src'.out = NoMessage
      BY <1>1, <1>4, <2>1, <2>3, <2>7 DEF NoMessage
    <2> QED
      BY <2>4, <2>6, <2>7
  <1> QED
    BY <1>2, <1>3, <1>4 DEF Transmitted

LEMMA SilentAir == ASSUME NEW q, q.air = NoMessage PROVE ~Sends(q)
  BY DEF Sends, NoMessage, NONE

LEMMA TransmittedLink ==
  ASSUME LinkInv, SInv', Transmitted
  PROVE  LinkInv'
  <1>1. /\ WireFree /\ Sends(p)
        /\ p' = [p EXCEPT !.txAllowed = TRUE, !.air = NoMessage]
        /\ phy' = "MSG_TX_COMPLETED" /\ pwr' = pwr /\ tim' = tim /\ wire' = wire
    BY DEF Transmitted, PostPhy, Sends
  <1>2. /\ Sound(p) /\ DOMAIN p = Fields /\ Steady(p)
        /\ p.hardResetActive \in BOOLEAN /\ Port(p')
    <2>1. Steady(p)
      BY <1>1 DEF LinkInv, PhyAgrees, WireFree, HardResets, NONE
    <2>2. Port(p')
      BY DEF SInv, AtRest, Settled
    <2> QED
      BY <2>1, <2>2, LinkFacts
  <1>3. /\ src.owes = NoMID /\ tim = NONE /\ wire = NoMessage
        /\ p.snk # "HARD_RESET" /\ p.tim[0] # "CRC_RECEIVE"
        /\ p.txKind # "GoodCRC" => AwaitsPhy(p)
        /\ p.air.kind = p.txKind
        /\ p.cad = "ATTACHED"
    <2>1. src.owes = NoMID /\ tim = NONE /\ wire = NoMessage
      BY <1>1 DEF LinkInv, WireAgrees, WireFree
    <2>2. p.snk # "HARD_RESET" /\ p.tim[0] # "CRC_RECEIVE"
          /\ (p.txKind # "GoodCRC" => AwaitsPhy(p)) /\ p.air.kind = p.txKind
      BY <1>1, <1>2 DEF Steady, Sound, Sends
    <2>3. p.cad = "ATTACHED"
      BY <1>1 DEF LinkInv, Detached, Sends, NoMessage
    <2> QED
      BY <2>1, <2>2, <2>3
  <1>4. /\ Only(p, p', {"txAllowed", "air"})
        /\ p'.txAllowed = TRUE /\ p'.air = NoMessage
        /\ p'.hardResetActive = p.hardResetActive
        /\ p'.tim = p.tim /\ p'.rxMsg = p.rxMsg
    BY <1>1, <1>2 DEF Only, Fields
  <1>5. /\ Only(p, p', {"txAllowed", "air", "rxMsg", "hardResetActive"}) /\ ~Sends(p')
        /\ p'.txAllowed \in BOOLEAN /\ p'.hardResetActive \in BOOLEAN
        /\ p'.air \in {p.air, NoMessage}
    <2>1. Only(p, p', {"txAllowed", "air", "rxMsg", "hardResetActive"})
      BY <1>4, OnlyGrows
    <2> QED
      BY <1>2, <1>4, <2>1, SilentAir
  <1>6. /\ Steady(p') /\ p'.snk = p.snk /\ p'.cad = p.cad /\ p'.txKind = p.txKind
        /\ (AwaitsPhy(p) => AwaitsPhy(p')) /\ (Guarded(p) => Guarded(p'))
    <2>1. WireStep(p, p') /\ (p.snk = "HARD_RESET" => p'.air = p.air)
      BY <1>2, <1>3, <1>5, WireSteps
    <2>2. Steady(p')
      BY <1>2, <1>3, <1>4, <1>5, WireSteps
    <2> QED
      BY <2>1, <2>2 DEF WireStep
  <1>7. /\ DOMAIN src' = SourceFields
        /\ src'.epr = FALSE
        /\ src'.turn \in SprTurns /\ src'.next \in SprTurns
        /\ src'.out.kind \in {NONE} \cup SprRx
        /\ src.turn \in {"OFF", "DEAD"} => src' = src
        /\ src'.turn \in {"OFF", "DEAD"} => src'.out = NoMessage /\ src'.owes = NoMID
        /\ src'.owes # NoMID => src.owes # NoMID \/ p.air.kind # "GoodCRC"
    BY SourceTakes
  <1>8. GoodCRCDue' => AwaitsPhy(p')
    <2>1. wire'.kind # "GoodCRC" /\ phy' # "MSG_RX_COMPLETE"
      BY <1>1, <1>3 DEF NoMessage, NONE
    <2>2. GoodCRCDue' => src'.owes # NoMID
      BY <2>1 DEF GoodCRCDue
    <2> QED
      BY <1>3, <1>6, <1>7, <2>2
  <1>9. SprSource'
    BY <1>1, <1>4, <1>7 DEF LinkInv, SprSource
  <1>10. PhyAgrees'
    BY <1>1, <1>3, <1>4, <1>6 DEF PhyAgrees, HardResets
  <1>11. WireAgrees'
    BY <1>1, <1>3, <1>4, <1>5, <1>6, <1>7, <1>8 DEF LinkInv, WireAgrees, NoMessage, NONE
  <1>12. TimerAgrees'
    BY <1>1, <1>4, <1>6 DEF LinkInv, TimerAgrees
  <1> QED
    BY <1>1, <1>3, <1>4, <1>6, <1>9, <1>10, <1>11, <1>12 DEF LinkInv, Steady

\* A hard reset, of the port or of the source
LEMMA ResetLink ==
  ASSUME LinkInv, SInv', HardResetTransmitted \/ SourceHardReset
  PROVE  LinkInv'
  <1>1. /\ phy = NONE /\ pwr' = pwr /\ tim' = tim /\ wire' = NoMessage
        /\ \/ /\ p.air.kind = "HardReset" /\ phy' = "HRD_SENT"
              /\ p' = [p EXCEPT !.air = NoMessage]
           \/ /\ p.cad = "ATTACHED" /\ phy' = "HRD_RECEIVED"
              /\ p' = [p EXCEPT !.hardResetActive = TRUE, !.txAllowed = FALSE,
                                !.air = NoMessage]
    BY DEF HardResetTransmitted, SourceHardReset, PostPhy, WireFree
  <1>2. /\ DOMAIN src' = SourceFields /\ src'.turn = "OFF" /\ src'.next = "CAPS"
        /\ src'.epr = FALSE /\ src'.out = NoMessage /\ src'.owes = NoMID
    BY ZenonT(60) DEF HardResetTransmitted, SourceHardReset, NewSource, SourceFields
  <1>3. /\ Sound(p) /\ DOMAIN p = Fields /\ Steady(p)
        /\ p.hardResetActive \in BOOLEAN /\ p.txAllowed \in BOOLEAN /\ Port(p')
    <2>1. Steady(p)
      BY <1>1 DEF LinkInv, PhyAgrees, HardResets, NONE
    <2>2. Port(p')
      BY DEF SInv, AtRest, Settled
    <2> QED
      BY <2>1, <2>2, LinkFacts
  <1>4. /\ p.cad = "ATTACHED"
        /\ phy' = "HRD_SENT" => p.snk = "HARD_RESET" /\ p.hardResetActive = TRUE
        /\ phy' \in HardResets
    <2>1. CASE phy' = "HRD_RECEIVED"
      BY <1>1, <2>1 DEF HardResets
    <2>2. CASE phy' = "HRD_SENT" /\ p.air.kind = "HardReset"
      <3>1. p.snk = "HARD_RESET" /\ p.hardResetActive = TRUE
        BY <1>3, <2>2 DEF Steady, Sound
      <3>2. p.cad = "ATTACHED"
        BY <2>2 DEF LinkInv, Detached, NoMessage, NONE
      <3> QED
        BY <2>2, <3>1, <3>2 DEF HardResets
    <2> QED
      BY <1>1, <2>1, <2>2
  <1>5. /\ Only(p, p', {"txAllowed", "air", "rxMsg", "hardResetActive"}) /\ ~Sends(p')
        /\ p'.txAllowed \in BOOLEAN /\ p'.hardResetActive = TRUE
        /\ p'.air = NoMessage /\ p'.rxMsg = p.rxMsg /\ p'.tim = p.tim
    <2>1. \/ p' = [p EXCEPT !.air = NoMessage] /\ p.hardResetActive = TRUE
          \/ p' = [p EXCEPT !.hardResetActive = TRUE, !.txAllowed = FALSE, !.air = NoMessage]
      BY <1>1, <1>4
    <2>2. /\ Only(p, p', {"txAllowed", "air", "rxMsg", "hardResetActive"})
          /\ p'.rxMsg = p.rxMsg /\ p'.tim = p.tim /\ p'.air = NoMessage
      BY <1>3, <2>1, ZenonT(60) DEF Only, Fields
    <2>3. p'.txAllowed \in BOOLEAN /\ p'.hardResetActive = TRUE
      BY <1>3, <2>1 DEF Fields
    <2> QED
      BY <2>2, <2>3, SilentAir
  <1>6. /\ Sound(p') /\ p'.snk = p.snk /\ p'.cad = p.cad /\ p'.txKind = p.txKind
        /\ (AwaitsPhy(p) => AwaitsPhy(p')) /\ (Guarded(p) => Guarded(p'))
    <2>1. WireStep(p, p')
      BY <1>3, <1>5, WireSteps
    <2> QED
      BY <2>1 DEF WireStep
  <1>7. ~GoodCRCDue'
    BY <1>1, <1>2, <1>4 DEF GoodCRCDue, HardResets, NoMessage, NONE
  <1>8. SprSource'
    BY <1>1, <1>2, <1>5
    DEF LinkInv, SprSource, SprTurns, SprReceived, NoMessage
  <1>9. PhyAgrees'
    BY <1>1, <1>2, <1>4, <1>5, <1>6 DEF PhyAgrees, HardResets
  <1>10. WireAgrees'
    BY <1>1, <1>2, <1>5, <1>7 DEF WireAgrees, NoMessage, NONE
  <1>11. TimerAgrees'
    BY <1>1, <1>5, <1>6 DEF LinkInv, TimerAgrees
  <1> QED
    BY <1>1, <1>4, <1>6, <1>8, <1>9, <1>10, <1>11 DEF LinkInv

\* Rp, VBUS and requests concern fields of the port that nothing of the link looks at.
LEMMA CallerStep ==
  ASSUME LinkInv, SInv', Only(p, p', CallerFields),
         p'.user = NoUserCode, p'.sinkTxOk \in BOOLEAN,
         p'.dpm_event = p.dpm_event \/ p'.dpm_event = "HARD_RESET"
  PROVE  /\ Sound(p') /\ (Steady(p) => Steady(p'))
         /\ (Guarded(p) => Guarded(p')) /\ (AwaitsPhy(p) => AwaitsPhy(p'))
         /\ p'.cad = p.cad /\ p'.rxMsg = p.rxMsg /\ p'.txAllowed = p.txAllowed
         /\ p'.snk = p.snk /\ p'.air = p.air /\ p'.txKind = p.txKind /\ p'.tim = p.tim
         /\ p'.hardResetActive = p.hardResetActive
         /\ (Sends(p') => Sends(p))
  <1>1. Port(p') /\ Sound(p) /\ NoEpr(p)
    BY LinkFacts DEF SInv, AtRest, Settled
  <1>2. p'.dpm_event \in {NONE, "HARD_RESET"}
    BY <1>1 DEF NoEpr
  <1> QED
    BY <1>1, <1>2, CallerKeeps DEF Sends

LEMMA SinkTxLink ==
  ASSUME LinkInv, SInv', SinkTx
  PROVE  LinkInv'
  <1>1. /\ phy = NONE /\ p.cad = "ATTACHED" /\ phy' = "CONN_DETECTED"
        /\ pwr' = pwr /\ tim' = tim /\ wire' = wire /\ src' = src
        /\ p' = [p EXCEPT !.sinkTxOk = ~@]
    BY DEF SinkTx, PostPhy
  <1>2. /\ Only(p, p', CallerFields) /\ p'.user = NoUserCode
        /\ p'.sinkTxOk \in BOOLEAN /\ p'.dpm_event = p.dpm_event
    BY <1>1, LinkFacts DEF Only, Fields, CallerFields, NoEpr
  <1>3. /\ Sound(p') /\ (Steady(p) => Steady(p'))
        /\ (Guarded(p) => Guarded(p')) /\ (AwaitsPhy(p) => AwaitsPhy(p'))
        /\ p'.cad = p.cad /\ p'.rxMsg = p.rxMsg /\ p'.txAllowed = p.txAllowed
        /\ p'.snk = p.snk /\ p'.air = p.air /\ p'.txKind = p.txKind /\ p'.tim = p.tim
        /\ (Sends(p') => Sends(p))
    BY <1>2, CallerStep
  <1>4. GoodCRCDue' => GoodCRCDue
    BY <1>1, <1>3 DEF GoodCRCDue
  <1>5. SprSource'
    BY <1>1, <1>3 DEF LinkInv, SprSource
  <1>6. PhyAgrees'
    BY <1>1, <1>3 DEF LinkInv, PhyAgrees, HardResets, NONE
  <1>7. WireAgrees'
    BY <1>1, <1>3, <1>4 DEF LinkInv, WireAgrees
  <1>8. TimerAgrees'
    BY <1>1, <1>3 DEF LinkInv, TimerAgrees
  <1> QED
    BY <1>1, <1>3, <1>5, <1>6, <1>7, <1>8 DEF LinkInv

LEMMA VbusLink ==
  ASSUME LinkInv, SInv', VbusRemoved \/ VbusReturns
  PROVE  LinkInv'
  <1>1. /\ phy' = phy /\ tim' = tim /\ wire' = wire
        /\ Only(p, p', CallerFields) /\ p'.user = NoUserCode
        /\ p'.sinkTxOk \in BOOLEAN /\ p'.dpm_event = p.dpm_event
    <2>1. CASE VbusRemoved
      BY <2>1, LinkFacts DEF VbusRemoved, Only, Fields, CallerFields, NoEpr
    <2>2. CASE VbusReturns
      BY <2>2, LinkFacts DEF VbusReturns, Only, Fields, CallerFields, NoEpr
    <2> QED
      BY <2>1, <2>2
  <1>2. /\ DOMAIN src' = SourceFields /\ src'.next \in SprTurns
        /\ src'.epr = FALSE /\ src'.out = NoMessage /\ src'.owes = NoMID
        /\ wire = NoMessage
        /\ \/ src'.turn = "DEAD"
           \/ src'.turn = "CAPS" /\ pwr' # "VBUS_REMOVED"
    <2>1. CASE VbusRemoved
      BY <2>1 DEF VbusRemoved, NewSource, SourceFields, SprTurns
    <2>2. CASE VbusReturns
      <3>1. /\ src' = [src EXCEPT !.turn = "CAPS"] /\ pwr' = "VBUS_DETECTED"
            /\ src.turn = "DEAD"
        BY <2>2 DEF VbusReturns
      <3>2. /\ src.owes = NoMID /\ wire = NoMessage /\ src.out = NoMessage
            /\ DOMAIN src = SourceFields /\ src.epr = FALSE /\ src.next \in SprTurns
        BY <3>1 DEF LinkInv, WireAgrees, SprSource
      <3> QED
        BY <3>1, <3>2 DEF SourceFields
    <2> QED
      BY <2>1, <2>2
  <1>3. /\ Sound(p') /\ (Steady(p) => Steady(p'))
        /\ (Guarded(p) => Guarded(p')) /\ (AwaitsPhy(p) => AwaitsPhy(p'))
        /\ p'.cad = p.cad /\ p'.rxMsg = p.rxMsg /\ p'.txAllowed = p.txAllowed
        /\ p'.snk = p.snk /\ p'.air = p.air /\ p'.txKind = p.txKind /\ p'.tim = p.tim
        /\ p'.hardResetActive = p.hardResetActive
        /\ (Sends(p') => Sends(p))
    BY <1>1, CallerStep
  <1>4. GoodCRCDue' => GoodCRCDue
    BY <1>1, <1>2, <1>3 DEF GoodCRCDue
  <1>5. SprSource'
    BY <1>1, <1>2, <1>3
    DEF LinkInv, SprSource, SprTurns, NoMessage
  <1>6. PhyAgrees'
    BY <1>1, <1>2, <1>3 DEF LinkInv, PhyAgrees
  <1>7. WireAgrees'
    BY <1>1, <1>2, <1>3, <1>4 DEF LinkInv, WireAgrees
  <1>8. TimerAgrees'
    BY <1>1, <1>3 DEF LinkInv, TimerAgrees
  <1>9. p'.cad = "UNATTACHED" => Detached'
    BY <1>1, <1>2, <1>3 DEF LinkInv, Detached
  <1> QED
    BY <1>1, <1>3, <1>5, <1>6, <1>7, <1>8, <1>9 DEF LinkInv

LEMMA ReattachLink ==
  ASSUME LinkInv, SInv', Reattach
  PROVE  LinkInv'
  <1>1. /\ p.cad = "UNATTACHED" /\ p' = Attach /\ pwr' = pwr /\ phy' = phy
        /\ tim' = tim /\ wire' = wire /\ src' = src
    BY DEF Reattach
  <1>2. Detached
    BY <1>1 DEF LinkInv
  <1>3. /\ Steady(p') /\ Guarded(p') /\ p'.cad = "ATTACHED" /\ p'.rxMsg = NoMessage
    BY <1>1, AttachLinks
  <1>4. /\ phy' = NONE /\ tim' = NONE /\ wire' = NoMessage /\ src'.owes = NoMID
    BY <1>1, <1>2 DEF Detached
  <1>5. SprSource'
    BY <1>1, <1>3 DEF LinkInv, SprSource, SprReceived, NoMessage
  <1>6. PhyAgrees'
    BY <1>3, <1>4 DEF PhyAgrees, HardResets, NONE
  <1>7. WireAgrees'
    BY <1>1, <1>4 DEF LinkInv, WireAgrees, GoodCRCDue, NoMessage, NONE
  <1>8. TimerAgrees'
    BY <1>4 DEF TimerAgrees, SprTimerEvents, NONE
  <1> QED
    BY <1>3, <1>5, <1>6, <1>7, <1>8 DEF LinkInv, Steady

LEMMA RequestLink ==
  ASSUME LinkInv, SInv', NEW request \in Requests, RequestAsync(request),
         Requests \cap {"EPR_MODE_ENTRY", "TRIGGER_POLICY"} = {}
  PROVE  LinkInv'
  <1>1. /\ p.cad = "ATTACHED" /\ request = "HARD_RESET"
        /\ p' = [p EXCEPT !.dpm_event = request, !.callback = request]
        /\ pwr' = pwr /\ phy' = phy /\ tim' = tim /\ wire' = wire /\ src' = src
    <2>1. p.epr_mode = FALSE
      BY LinkFacts DEF NoEpr
    <2> QED
      BY <2>1, StackAssumption DEF RequestAsync
  <1>2. /\ Only(p, p', CallerFields) /\ p'.user = NoUserCode
        /\ p'.sinkTxOk \in BOOLEAN /\ p'.dpm_event = "HARD_RESET"
    BY <1>1, LinkFacts DEF Only, Fields, CallerFields, NoEpr
  <1>3. /\ Sound(p') /\ (Steady(p) => Steady(p'))
        /\ (Guarded(p) => Guarded(p')) /\ (AwaitsPhy(p) => AwaitsPhy(p'))
        /\ p'.cad = p.cad /\ p'.rxMsg = p.rxMsg /\ p'.txAllowed = p.txAllowed
        /\ p'.snk = p.snk /\ p'.air = p.air /\ p'.txKind = p.txKind /\ p'.tim = p.tim
        /\ p'.hardResetActive = p.hardResetActive
        /\ (Sends(p') => Sends(p))
    BY <1>2, CallerStep
  <1>4. GoodCRCDue' => GoodCRCDue
    BY <1>1, <1>3 DEF GoodCRCDue
  <1>5. SprSource'
    BY <1>1, <1>3 DEF LinkInv, SprSource
  <1>6. PhyAgrees'
    BY <1>1, <1>3 DEF LinkInv, PhyAgrees
  <1>7. WireAgrees'
    BY <1>1, <1>3, <1>4 DEF LinkInv, WireAgrees
  <1>8. TimerAgrees'
    BY <1>1, <1>3 DEF LinkInv, TimerAgrees
  <1> QED
    BY <1>1, <1>3, <1>5, <1>6, <1>7, <1>8 DEF LinkInv

LEMMA ExpiredLink ==
  ASSUME LinkInv, SInv', NEW c \in {0, 1}, UCPD_TIM_Expired(c), Pace # "RACE"
  PROVE  LinkInv'
  <1>1. /\ Quiet /\ tim = NONE /\ p.tim[c] # NONE
        /\ tim' = UCPD_TIMERS_EVENTS(p.tim[c])
        /\ p' = [p EXCEPT !.tim = [p.tim EXCEPT ![c] = NONE]]
        /\ pwr' = pwr /\ phy' = phy /\ wire' = wire /\ src' = src
    BY LinkFacts DEF UCPD_TIM_Expired, MayExpire, Fields
  <1>2. /\ phy = NONE /\ wire = NoMessage /\ p.air = NoMessage /\ src.owes = NoMID
    BY <1>1 DEF Quiet
  <1>3. /\ Sound(p) /\ DOMAIN p = Fields /\ Steady(p) /\ Port(p) /\ Port(p')
        /\ p.txAllowed \in BOOLEAN /\ p.hardResetActive \in BOOLEAN
    <2>1. Steady(p)
      BY <1>2 DEF LinkInv, PhyAgrees, HardResets, NONE
    <2>2. Port(p')
      BY DEF SInv, AtRest, Settled
    <2> QED
      BY <2>1, <2>2, LinkFacts
  <1>4. /\ p.tim \in TimType
        /\ p.tim[0] \in Channel0 \cup {NONE} /\ p.tim[1] \in Channel1 \cup {NONE}
    <2>1. p.tim \in TimType
      BY <1>3 DEF Port
    <2> QED
      BY <2>1, TimerType, Channels DEF Timers
  <1>5. p.cad = "ATTACHED" /\ p.snk # "HARD_RESET"
    <2>1. p.snk # "HARD_RESET"
      BY <1>2, <1>3 DEF Steady, NoMessage, NONE
    <2>2. p.cad = "ATTACHED"
      BY <1>1 DEF LinkInv, Detached
    <2> QED
      BY <2>1, <2>2
  <1>6. /\ Only(p, p', {"tim"}) /\ p'.air = p.air /\ p'.txAllowed = p.txAllowed
        /\ p'.hardResetActive = p.hardResetActive /\ p'.rxMsg = p.rxMsg
        /\ p'.tim = [p.tim EXCEPT ![c] = NONE]
    BY <1>1, <1>3 DEF Only, Fields
  <1>7. /\ p'.tim[0] = IF c = 0 THEN NONE ELSE p.tim[0]
        /\ p'.tim[1] = IF c = 1 THEN NONE ELSE p.tim[1]
    BY <1>4, <1>6 DEF TimType
  <1>8. /\ Steady(p') /\ p'.snk = p.snk /\ p'.cad = p.cad /\ p'.txKind = p.txKind
        /\ (AwaitsPhy(p) => AwaitsPhy(p'))
        /\ (Guarded(p) /\ p'.tim[0] = p.tim[0] => Guarded(p'))
    <2>1. Only(p, p', WireWritten) /\ ~Sends(p')
      BY <1>2, <1>6, OnlyGrows DEF WireWritten, Sends, NoMessage
    <2>2. \A d \in {0, 1} : p'.tim[d] \in {p.tim[d], NONE}
      BY <1>7
    <2> QED
      BY <1>3, <1>6, <2>1, <2>2, WireKeeps
  <1>9. ASSUME c = 0
        PROVE  TimerAgrees' /\ (Guarded(p') \/ tim' = "PST_TRANS_TIMEOUT")
    <2>1. p.tim[0] \in {"CRC_RECEIVE", "PS_TRANSITION", "SENDER_RESPONSE", "SINK_WAIT_CAP"}
      BY <1>1, <1>3, <1>4, <1>5, <1>9 DEF Channel0, Sound, Spr, SprTimers
    <2>2. /\ p.tim[0] = "PS_TRANSITION" => p.snk = "TRANSITION_SINK"
          /\ p.tim[0] = "CRC_RECEIVE" => AwaitsPhy(p)
          /\ p.snk = "TRANSITION_SINK" => p.tim[0] = "PS_TRANSITION"
      <3>1. Guarded(p)
        BY <1>1, <1>5 DEF LinkInv, NONE
      <3> QED
        BY <1>3, <3>1 DEF Sound, Spr, SprTimers, Guarded
    <2>3. /\ tim' = "CRC_RECEIVE" <=> p.tim[0] = "CRC_RECEIVE"
          /\ tim' = "PST_TRANS_TIMEOUT" <=> p.tim[0] = "PS_TRANSITION"
          /\ tim' \in {"CRC_RECEIVE", "PST_TRANS_TIMEOUT", "SRT_EXPIRED"}
      BY <1>1, <1>9, <2>1 DEF UCPD_TIMERS_EVENTS
    <2>4. TimerAgrees'
      BY <1>5, <1>7, <1>8, <1>9, <2>2, <2>3 DEF TimerAgrees, SprTimerEvents, NONE
    <2>5. Guarded(p') \/ tim' = "PST_TRANS_TIMEOUT"
      BY <1>8, <2>2, <2>3 DEF Guarded
    <2> QED
      BY <2>4, <2>5
  <1>10. ASSUME c = 1
         PROVE  TimerAgrees' /\ (Guarded(p') \/ tim' = "PST_TRANS_TIMEOUT")
    <2>1. p.tim[1] = "SINK_PPS_PERIODIC" /\ p.snk = "READY"
      BY <1>1, <1>3, <1>10 DEF Sound, Spr, SprTimers
    <2>2. tim' = "SINK_PPS_PERIODIC"
      BY <1>1, <1>10, <2>1 DEF UCPD_TIMERS_EVENTS
    <2> QED
      BY <1>8, <2>1, <2>2 DEF TimerAgrees, SprTimerEvents, Guarded, NONE
  <1>11. TimerAgrees' /\ (Guarded(p') \/ tim' = "PST_TRANS_TIMEOUT")
    BY <1>9, <1>10
  <1>12. SprSource'
    BY <1>1, <1>6 DEF LinkInv, SprSource
  <1>13. PhyAgrees'
    BY <1>1, <1>2, <1>8 DEF PhyAgrees, HardResets, NONE
  <1>14. WireAgrees'
    BY <1>1, <1>2, <1>6 DEF LinkInv, WireAgrees, GoodCRCDue, Sends, NoMessage, NONE
  <1> QED
    BY <1>1, <1>5, <1>8, <1>11, <1>12, <1>13, <1>14 DEF LinkInv, Steady

LEMMA WorkerFits ==
  ASSUME LinkInv, p.cad = "ATTACHED"
  PROVE  /\ Fits(p, phy, tim)
         /\ GoodCRCDue /\ (src.owes # NoMID \/ wire.kind = "GoodCRC") => Waits(p, phy, tim)
  <1>1. p.rch = "WAIT_FOR_MESSAGE_FROM_PRL"
    <2>1. p.rch \in RchWaiting /\ p.rch \in SprRch
      BY LinkFacts DEF LinkInv, SInv, AtRest, NoEpr
    <2> QED
      BY <2>1 DEF RchWaiting, SprRch
  <1>2. /\ phy = "MSG_RX_COMPLETE" /\ p.rxMsg.kind = "GoodCRC" =>
             AwaitsPhy(p) /\ p.air = NoMessage /\ tim = NONE
    BY DEF LinkInv, WireAgrees, GoodCRCDue
  <1>3. tim = "CRC_RECEIVE" => AwaitsPhy(p) /\ p.tim[0] # "CRC_RECEIVE"
    BY DEF LinkInv, TimerAgrees, NONE
  <1>4. tim # NONE => p.snk # "HARD_RESET" /\ ~Sends(p)
    BY DEF LinkInv, TimerAgrees, WireAgrees
  <1>5. /\ Sound(p) /\ p.rxMsg.kind \in SprReceived /\ phy \in PhyEvents \cup {NONE}
        /\ tim \in SprTimerEvents
        /\ tim = "SINK_PPS_PERIODIC" => p.snk = "READY"
        /\ Guarded(p) \/ tim = "PST_TRANS_TIMEOUT"
    BY DEF LinkInv, SInv, SprSource, TimerAgrees
  <1>6. /\ phy \notin HardResets => Steady(p)
        /\ phy \in HardResets => p.hardResetActive = TRUE /\ p.air = NoMessage
        /\ phy = "HRD_SENT" => p.snk = "HARD_RESET"
        /\ phy \in {"MSG_TX_COMPLETED", "MSG_TX_DISCARDED"} =>
             p.air = NoMessage /\ tim = NONE /\ p.tim[0] # "CRC_RECEIVE"
        /\ phy = "MSG_TX_COMPLETED" => (p.txKind # "GoodCRC" => AwaitsPhy(p))
    BY DEF LinkInv, PhyAgrees
  <1>7. Fits(p, phy, tim)
    BY <1>1, <1>2, <1>3, <1>4, <1>5, <1>6 DEF Fits
  <1>8. ASSUME src.owes # NoMID \/ wire.kind = "GoodCRC"
        PROVE  Waits(p, phy, tim)
    BY <1>8 DEF LinkInv, WireAgrees, GoodCRCDue, Waits
  <1> QED
    BY <1>7, <1>8

\* A record that differs in the fields of the callers alone fits the same events.
LEMMA FitsKept ==
  ASSUME NEW q, NEW e, NEW t, Fits(q, e, t), NEW r, Only(q, r, CallerFields), Port(r),
         r.user = NoUserCode, r.dpm_event = q.dpm_event, r.sinkTxOk = q.sinkTxOk
  PROVE  /\ Fits(r, e, t)
         /\ Waits(q, e, t) => Waits(r, e, t)
         /\ r.cad = q.cad /\ r.rxMsg = q.rxMsg /\ r.txAllowed = q.txAllowed
         /\ (Sends(r) => Sends(q)) /\ Alike(q, r)
  <1>1. NoEpr(q) /\ q.sinkTxOk \in BOOLEAN
    BY FlagsAre DEF Fits, Sound, Spr
  <1>2. r.dpm_event \in {NONE, "HARD_RESET"} /\ r.sinkTxOk \in BOOLEAN
    BY <1>1 DEF NoEpr
  <1>3. /\ Sound(q) => Sound(r)
        /\ Steady(q) => Steady(r)
        /\ Guarded(q) => Guarded(r)
        /\ AwaitsPhy(q) => AwaitsPhy(r)
        /\ r.cad = q.cad /\ r.rxMsg = q.rxMsg /\ r.txAllowed = q.txAllowed
        /\ r.snk = q.snk /\ r.air = q.air
        /\ r.txKind = q.txKind /\ r.tim = q.tim /\ r.rch = q.rch
        /\ r.hardResetActive = q.hardResetActive /\ Alike(q, r)
    BY <1>1, <1>2, CallerKeeps
  <1>4. Sends(r) => Sends(q)
    BY <1>3 DEF Sends
  <1>5. Fits(r, e, t)
    BY <1>3, <1>4 DEF Fits
  <1> QED
    BY <1>3, <1>4, <1>5 DEF Waits

LEMMA CallerSteady ==
  ASSUME NEW h, Steady(h), NEW r, Only(h, r, CallerFields), Port(r),
         r.user = NoUserCode, r.dpm_event = h.dpm_event, r.sinkTxOk = h.sinkTxOk
  PROVE  /\ Steady(r)
         /\ Guarded(h) => Guarded(r)
         /\ AwaitsPhy(h) => AwaitsPhy(r)
         /\ r.cad = h.cad /\ r.rxMsg = h.rxMsg /\ r.txAllowed = h.txAllowed
         /\ r.air = h.air /\ r.tim = h.tim /\ r.dpm_event = h.dpm_event
         /\ (Sends(r) => Sends(h)) /\ Alike(h, r)
  <1>1. NoEpr(h) /\ h.sinkTxOk \in BOOLEAN
    BY FlagsAre DEF Steady, Sound, Spr
  <1>2. r.dpm_event \in {NONE, "HARD_RESET"} /\ r.sinkTxOk \in BOOLEAN
    BY <1>1 DEF NoEpr
  <1>3. /\ Steady(r)
        /\ Guarded(h) => Guarded(r)
        /\ AwaitsPhy(h) => AwaitsPhy(r)
        /\ r.cad = h.cad /\ r.rxMsg = h.rxMsg /\ r.txAllowed = h.txAllowed
        /\ r.air = h.air /\ r.tim = h.tim /\ Alike(h, r)
    BY <1>1, <1>2, CallerKeeps
  <1> QED
    BY <1>3 DEF Sends

\* What the handler leaves, put away until the next run
LEMMA PutAway ==
  ASSUME NEW h, Steady(h), NEW r, Port(r),
         r = [h EXCEPT !.passedUp = FALSE, !.told = NoCall, !.user = NoUserCode]
  PROVE  /\ Steady(r)
         /\ Guarded(h) => Guarded(r)
         /\ AwaitsPhy(h) => AwaitsPhy(r)
         /\ r.cad = h.cad /\ r.rxMsg = h.rxMsg /\ r.txAllowed = h.txAllowed
         /\ r.air = h.air /\ r.tim = h.tim /\ r.dpm_event = h.dpm_event
         /\ (Sends(r) => Sends(h)) /\ Alike(h, r)
  <1>1. DOMAIN h = Fields
    BY FlagsAre DEF Steady, Sound, Spr
  <1>2. /\ Only(h, r, CallerFields) /\ r.user = NoUserCode
        /\ r.dpm_event = h.dpm_event /\ r.sinkTxOk = h.sinkTxOk
    BY <1>1 DEF Only, Fields, CallerFields
  <1> QED
    BY <1>2, CallerSteady

\* A difference that does not matter to the counters, before and after the handler
LEMMA AlikeAround ==
  ASSUME NEW q, NEW a, Alike(q, a), NEW h, NEW r, Alike(h, r), NEW e, NEW t
  PROVE  /\ Counted(q, e) => Counted(a, e)
         /\ Tally(q) => Tally(a)
         /\ Tally(h) => Tally(r)
         /\ Proceeds(a, e, t, h) => Proceeds(q, e, t, r)
         /\ Stands(a, h) => Stands(q, r)
  <1>1. Proceeds(a, e, t, h) => Proceeds(q, e, t, r)
    BY AlikeBefore, AlikeAfter
  <1>2. (Tally(q) => Tally(a)) /\ (Tally(h) => Tally(r))
    BY AlikeTally
  <1> QED
    BY <1>1, <1>2 DEF Alike, Counted, Stands

\* The worker, by what its handler has done
LEMMA WorkerCases ==
  ASSUME LinkInv, SInv', Worker
  PROVE  /\ Steady(p') /\ p'.rxMsg = p.rxMsg
         /\ \/ /\ p.cad = "ATTACHED" /\ p'.cad = "ATTACHED" /\ Guarded(p')
               /\ ~(pwr = "VBUS_REMOVED" /\ ~p.hardResetActive)
               /\ phy \notin HardResets =>
                    /\ p'.txAllowed => p.txAllowed
                    /\ Sends(p') => p.txAllowed \/ Sends(p)
               /\ src.owes # NoMID \/ wire.kind = "GoodCRC" =>
                    AwaitsPhy(p') /\ p'.air = NoMessage /\ Stands(p, p')
               /\ Counted(p, phy) =>
                    /\ Tally(p')
                    /\ phy \notin HardResets => Proceeds(p, phy, tim, p')
            \/ /\ p'.cad = "UNATTACHED" /\ p'.air = NoMessage /\ p'.dpm_event = NONE
               /\ p'.tim = [c \in {0, 1} |-> NONE]
               /\ p.cad = "UNATTACHED" \/ (pwr = "VBUS_REMOVED" /\ ~p.hardResetActive)
               /\ Tally(p) => Tally(p')
  <1> DEFINE q == [p EXCEPT !.told = NoCall, !.user = NoUserCode]
             h == UCPD_PE_PRL_Handler(q, pwr, phy, tim)
  <1>1. NoEpr(p) /\ Port(p) /\ DOMAIN p = Fields /\ Port(p')
    BY LinkFacts DEF SInv, AtRest, Settled
  <1>2. /\ Only(p, q, CallerFields) /\ Port(q) /\ q.user = NoUserCode
        /\ q.dpm_event = p.dpm_event /\ q.sinkTxOk = p.sinkTxOk
        /\ q.cad = p.cad /\ q.rxMsg = p.rxMsg /\ q.air = p.air /\ q.tim = p.tim
        /\ q.hardResetActive = p.hardResetActive
    BY <1>1 DEF Only, Fields, CallerFields, Port, NoEpr
  <1>3. p' = [h EXCEPT !.passedUp = FALSE, !.told = NoCall, !.user = NoUserCode]
    BY DEF Worker, Handled, Handling
  <1> HIDE DEF q
  <1>4. CASE p.cad = "ATTACHED"
    <2>1. /\ Fits(p, phy, tim)
          /\ src.owes # NoMID \/ wire.kind = "GoodCRC" => Waits(p, phy, tim)
      BY <1>4, WorkerFits DEF GoodCRCDue
    <2>2. /\ Fits(q, phy, tim)
          /\ Waits(p, phy, tim) => Waits(q, phy, tim)
          /\ q.txAllowed = p.txAllowed
          /\ (Sends(q) => Sends(p)) /\ Alike(p, q)
      BY <1>2, <2>1, FitsKept
    <2>3. \/ /\ Handles(q, h)
             /\ ~(pwr = "VBUS_REMOVED" /\ ~p.hardResetActive)
             /\ phy \notin HardResets => Hushed(q, h)
             /\ Waits(q, phy, tim) => AwaitsPhy(h) /\ h.air = NoMessage /\ Stands(q, h)
             /\ Counted(q, phy) =>
                  Tally(h) /\ (phy \notin HardResets => Proceeds(q, phy, tim, h))
          \/ /\ pwr = "VBUS_REMOVED" /\ ~p.hardResetActive
             /\ Quieted(q, h) /\ (Tally(q) => Tally(h))
      BY <1>2, <1>4, <2>2, HandlerLinks
    <2> HIDE DEF h
    <2>4. CASE /\ Handles(q, h)
               /\ ~(pwr = "VBUS_REMOVED" /\ ~p.hardResetActive)
               /\ phy \notin HardResets => Hushed(q, h)
               /\ Waits(q, phy, tim) => AwaitsPhy(h) /\ h.air = NoMessage /\ Stands(q, h)
               /\ Counted(q, phy) =>
                    Tally(h) /\ (phy \notin HardResets => Proceeds(q, phy, tim, h))
      <3>1. /\ Steady(h) /\ Guarded(h) /\ h.cad = "ATTACHED" /\ h.rxMsg = p.rxMsg
            /\ phy \notin HardResets =>
                 /\ h.txAllowed => p.txAllowed
                 /\ Sends(h) => p.txAllowed \/ Sends(p)
        BY <1>2, <1>4, <2>2, <2>4 DEF Handles, Hushed
      <3>2. /\ Steady(p') /\ Guarded(p') /\ (AwaitsPhy(h) => AwaitsPhy(p'))
            /\ p'.cad = h.cad /\ p'.rxMsg = h.rxMsg /\ p'.txAllowed = h.txAllowed
            /\ p'.air = h.air /\ (Sends(p') => Sends(h)) /\ Alike(h, p')
        BY <1>1, <1>3, <3>1, PutAway
      <3>3. /\ Stands(q, h) => Stands(p, p')
            /\ Counted(p, phy) => Counted(q, phy)
            /\ Tally(h) => Tally(p')
            /\ Proceeds(q, phy, tim, h) => Proceeds(p, phy, tim, p')
        BY <2>2, <3>2, AlikeAround
      <3> QED
        BY <1>4, <2>1, <2>2, <2>4, <3>1, <3>2, <3>3
    <2>5. CASE /\ pwr = "VBUS_REMOVED" /\ ~p.hardResetActive
               /\ Quieted(q, h) /\ (Tally(q) => Tally(h))
      <3>1. /\ Steady(h) /\ h.cad = "UNATTACHED" /\ h.rxMsg = p.rxMsg
            /\ h.air = NoMessage /\ h.dpm_event = NONE
            /\ h.tim = [c \in {0, 1} |-> NONE]
        BY <1>2, <2>5 DEF Quieted
      <3>2. /\ Steady(p')
            /\ p'.cad = h.cad /\ p'.rxMsg = h.rxMsg
            /\ p'.air = h.air /\ p'.tim = h.tim /\ p'.dpm_event = h.dpm_event
            /\ Alike(h, p')
        BY <1>1, <1>3, <3>1, PutAway
      <3>3. (Tally(p) => Tally(q)) /\ (Tally(h) => Tally(p'))
        BY <2>2, <3>2, AlikeAround
      <3> QED
        BY <2>5, <3>1, <3>2, <3>3
    <2> QED
      BY <2>3, <2>4, <2>5
  <1>5. CASE p.cad = "UNATTACHED"
    <2>1. /\ phy = NONE /\ tim = NONE /\ p.air = NoMessage /\ p.dpm_event = NONE
          /\ p.tim = [c \in {0, 1} |-> NONE] /\ Steady(p)
      BY <1>5 DEF LinkInv, Detached, PhyAgrees, HardResets, NONE
    <2>2. Steady(q) /\ Alike(p, q)
      <3>1. q.dpm_event \in {NONE, "HARD_RESET"} /\ q.sinkTxOk \in BOOLEAN
        BY <1>2, <2>1, LinkFacts
      <3> QED
        BY <1>1, <1>2, <2>1, <3>1, CallerKeeps
    <2>3. /\ Steady(h) /\ h.cad = q.cad /\ h.rxMsg = q.rxMsg
          /\ h.air = q.air /\ h.tim = q.tim /\ h.dpm_event = NONE
          /\ Alike(q, h)
      BY <1>2, <1>5, <2>1, <2>2, HandlerQuiet
    <2> HIDE DEF h
    <2>4. /\ Steady(p')
          /\ p'.cad = h.cad /\ p'.rxMsg = h.rxMsg
          /\ p'.air = h.air /\ p'.tim = h.tim /\ p'.dpm_event = h.dpm_event
          /\ Alike(h, p')
      BY <1>1, <1>3, <2>3, PutAway
    <2>5. Tally(p) => Tally(p')
      BY <2>2, <2>3, <2>4, AlikeTally
    <2> QED
      BY <1>2, <1>5, <2>1, <2>3, <2>4, <2>5
  <1> QED
    BY <1>4, <1>5 DEF LinkInv

LEMMA WorkerLink ==
  ASSUME LinkInv, SInv', Worker
  PROVE  LinkInv'
  <1>1. /\ pwr' = NONE /\ phy' = NONE /\ tim' = NONE /\ wire' = wire
        /\ \/ src' = src
           \/ src' = [src EXCEPT !.got = IF @ < 2 THEN @ + 1 ELSE @]
    BY DEF Worker, SlotsTaken, Handled
  <1>2. /\ DOMAIN src' = SourceFields /\ src'.turn = src.turn /\ src'.next = src.next
        /\ src'.epr = src.epr /\ src'.out = src.out /\ src'.owes = src.owes
    BY <1>1, LinkFacts DEF SourceFields
  <1>3. /\ Steady(p') /\ p'.rxMsg = p.rxMsg
        /\ \/ /\ p.cad = "ATTACHED" /\ p'.cad = "ATTACHED" /\ Guarded(p')
              /\ phy \notin HardResets =>
                   /\ p'.txAllowed => p.txAllowed
                   /\ Sends(p') => p.txAllowed \/ Sends(p)
              /\ src.owes # NoMID \/ wire.kind = "GoodCRC" =>
                   AwaitsPhy(p') /\ p'.air = NoMessage
           \/ /\ p'.cad = "UNATTACHED" /\ p'.air = NoMessage /\ p'.dpm_event = NONE
              /\ p'.tim = [c \in {0, 1} |-> NONE]
              /\ p.cad = "UNATTACHED" \/ pwr = "VBUS_REMOVED"
    BY WorkerCases
  <1>4. SprSource'
    BY <1>1, <1>2, <1>3 DEF LinkInv, SprSource
  <1>5. PhyAgrees'
    BY <1>1, <1>3 DEF PhyAgrees, HardResets, NONE
  <1>6. TimerAgrees'
    BY <1>1 DEF TimerAgrees, SprTimerEvents, NONE
  <1>7. GoodCRCDue' => src.owes # NoMID \/ wire.kind = "GoodCRC"
    BY <1>1, <1>2 DEF GoodCRCDue, NONE
  <1>8. CASE /\ p.cad = "ATTACHED" /\ p'.cad = "ATTACHED" /\ Guarded(p')
             /\ phy \notin HardResets =>
                  /\ p'.txAllowed => p.txAllowed
                  /\ Sends(p') => p.txAllowed \/ Sends(p)
             /\ src.owes # NoMID \/ wire.kind = "GoodCRC" =>
                  AwaitsPhy(p') /\ p'.air = NoMessage
    <2>1. src.owes # NoMID \/ wire.kind = "GoodCRC" => ~Sends(p')
      BY <1>8, SilentAir
    <2>2. wire # NoMessage => p'.txAllowed = FALSE /\ ~Sends(p')
      <3> SUFFICES ASSUME wire # NoMessage PROVE p'.txAllowed = FALSE /\ ~Sends(p')
        OBVIOUS
      <3>1. phy \notin HardResets /\ p.txAllowed = FALSE /\ ~Sends(p)
        BY DEF LinkInv, PhyAgrees, WireAgrees
      <3>2. p'.txAllowed \in BOOLEAN
        BY <1>3, FlagsAre DEF Steady, Sound, Spr
      <3> QED
        BY <1>8, <3>1, <3>2
    <2>3. WireAgrees'
      BY <1>1, <1>2, <1>7, <1>8, <2>1, <2>2 DEF LinkInv, WireAgrees, NONE
    <2> QED
      BY <1>1, <1>3, <1>4, <1>5, <1>6, <1>8, <2>3 DEF LinkInv, Steady
  <1>9. CASE /\ p'.cad = "UNATTACHED" /\ p'.air = NoMessage /\ p'.dpm_event = NONE
             /\ p'.tim = [c \in {0, 1} |-> NONE]
             /\ p.cad = "UNATTACHED" \/ pwr = "VBUS_REMOVED"
    <2>1. src.owes = NoMID /\ wire = NoMessage /\ src.out = NoMessage
      BY <1>9 DEF LinkInv, Detached, WireAgrees
    <2>2. ~Sends(p') /\ ~GoodCRCDue'
      BY <1>7, <1>9, <2>1, SilentAir DEF NoMessage, NONE
    <2>3. WireAgrees'
      BY <1>1, <1>2, <2>1, <2>2 DEF WireAgrees, NoMessage, NONE
    <2>4. Detached'
      BY <1>1, <1>2, <1>9, <2>1 DEF Detached
    <2> QED
      BY <1>3, <1>4, <1>5, <1>6, <1>9, <2>3, <2>4 DEF LinkInv, Steady
  <1> QED
    BY <1>3, <1>8, <1>9

LEMMA InitLink == Init => LinkInv
  <1> SUFFICES ASSUME Init PROVE LinkInv
    OBVIOUS
  <1>1. SInv
    BY InitSInv
  <1>2. /\ Steady(p) /\ Guarded(p) /\ p.cad = "ATTACHED" /\ p.rxMsg = NoMessage
    BY AttachLinks DEF Init
  <1>3. /\ pwr = NONE /\ phy = NONE /\ tim = NONE /\ wire = NoMessage
        /\ DOMAIN src = SourceFields /\ src.owes = NoMID /\ src.epr = FALSE
        /\ src.turn = "CAPS" /\ src.next = "CAPS" /\ src.out = NoMessage
    BY DEF Init, NewSource, SourceFields
  <1>4. SprSource
    BY <1>2, <1>3 DEF SprSource, SprTurns, SprReceived, NoMessage
  <1>5. PhyAgrees
    BY <1>2, <1>3 DEF PhyAgrees, HardResets, NONE
  <1>6. WireAgrees
    BY <1>3 DEF WireAgrees, GoodCRCDue, NoMessage, NONE
  <1>7. TimerAgrees
    BY <1>3 DEF TimerAgrees, SprTimerEvents, NONE
  <1> QED
    BY <1>1, <1>2, <1>4, <1>5, <1>6, <1>7 DEF LinkInv, Steady

\* The application does not ask for EPR mode, neither directly nor by way of its policy, and
\* no timer expires while the answer it waits for is under way.
OutsideEpr ==
  /\ Requests \cap {"EPR_MODE_ENTRY", "TRIGGER_POLICY"} = {}
  /\ Pace # "RACE"

LEMMA NextLink ==
  ASSUME OutsideEpr
  PROVE  LinkInv /\ [Next]_vars => LinkInv'
  <1> SUFFICES ASSUME LinkInv, [Next]_vars PROVE LinkInv'
    OBVIOUS
  <1>1. SInv'
    BY NextSInv DEF LinkInv
  <1>2. CASE UNCHANGED vars
    BY <1>1, <1>2 DEF vars, LinkInv, SprSource, PhyAgrees, WireAgrees, TimerAgrees,
                      Detached, GoodCRCDue
  <1> QED
    BY <1>1, <1>2, WorkerLink, GoodCRCLink, SpeaksLink, RetriesLink, ReceivedLink,
       TransmittedLink, ResetLink, SinkTxLink, VbusLink, ReattachLink, ExpiredLink,
       RequestLink DEF Next, OutsideEpr

\* Outside EPR mode the port, the slots, the wire and the source agree whenever the worker
\* does not run: with any losses, collisions, retries and hard resets of both sides, the
\* state of the policy engine is one in which UCPD_PE_SM_Delta waits for what is under way,
\* a GoodCRC that is due is waited for, and an event in a slot is one the port has caused.
THEOREM LinkHolds == ASSUME OutsideEpr PROVE Spec => []LinkInv
  BY InitLink, NextLink, PTL DEF Spec

LEMMA LinkGuards == LinkInv => TransitionGuarded
  BY DEF LinkInv, TransitionGuarded, Guarded

\* While the supply changes (PE_SNK_TRANSITION_SINK), UCPD_TIM_PS_TRANSITION runs or its
\* event is in the slot: no message, retry or timer in between takes its channel away.
THEOREM TransitionIsGuarded == ASSUME OutsideEpr PROVE Spec => []TransitionGuarded
  BY LinkHolds, LinkGuards, PTL

-----------------------------------------------------------------------------
\* The MessageIDs and the losses

LEMMA CountFacts ==
  ASSUME LinkInv, CountInv
  PROVE  /\ p.mid \in MessageIDs /\ p.retry \in 0 .. NRetry
         /\ src.seen \in MessageIDs \cup {NoMID}
         /\ losses \in Nat /\ MaxLosses \in Nat /\ NRetry \in Nat /\ MidMax \in Nat \ {0}
         /\ Spent \in Nat
         /\ src.seen # NoMID => Lag \in Nat
  <1>1. /\ p.mid \in MessageIDs /\ p.retry \in 0 .. NRetry
        /\ NRetry \in Nat /\ MidMax \in Nat \ {0} /\ MaxLosses \in Nat
    BY LinkFacts, PortAssumption, StackAssumption DEF Port, RetryType
  <1>2. src.seen \in MessageIDs \cup {NoMID} /\ losses \in Nat
    BY <1>1 DEF CountInv, IDsAgree
  <1>3. Spent \in Nat
    BY <1>1 DEF Spent
  <1>4. src.seen # NoMID => Lag \in Nat
    BY <1>1, <1>2 DEF Lag, Behind, MessageIDs
  <1> QED
    BY <1>1, <1>2, <1>3, <1>4

\* No MessageID of the counter is the one that stands for none.
LEMMA NoMIDIsNone == ASSUME NEW id \in MessageIDs PROVE id # NoMID
  BY PortAssumption DEF MessageIDs, NoMID

\* What the steps outside the worker leave alone
Unmoved(q, r) ==
  /\ r.cad = q.cad /\ r.snk = q.snk /\ r.tx = q.tx /\ r.txKind = q.txKind
  /\ r.mid = q.mid /\ r.retry = q.retry

LEMMA TallyStays ==
  ASSUME NEW q, Tally(q), NEW r, Unmoved(q, r), r.air \in {q.air, NoMessage}
  PROVE  Tally(r)
  BY DEF Tally, Numbered, Sends, Unmoved, NoMessage, NONE

LEMMA Balance ==
  ASSUME NEW n \in Nat, NEW k \in Nat, NEW s \in Nat, NEW l \in Nat, NEW s1 \in Nat,
         NEW l1 \in Nat, n + s <= k + l, s1 + l <= s + l1
  PROVE  n + s1 <= k + l1
  OBVIOUS

\* A loss for every message that goes out once more, and the source hears nothing new.
LEMMA SeenStays ==
  ASSUME LinkInv, CountInv, Unmoved(p, p'),
         src'.seen = src.seen, src'.heard = src.heard,
         Spent' \in Nat, losses' \in Nat, Spent' + losses <= Spent + losses'
  PROVE  SeenAgrees'
  <1>1. /\ AwaitsPhy(p') <=> AwaitsPhy(p)
        /\ Resetting' <=> Resetting
        /\ p'.mid = p.mid /\ p'.txKind = p.txKind
    BY DEF Unmoved, AwaitsPhy, Resetting, Restarts
  <1>2. Lag' = Lag
    BY <1>1 DEF Lag
  <1>3. ASSUME ~Resetting', src'.seen \notin {NoMID, p'.mid}
        PROVE  NRetry * Lag' + Spent' <= NRetry + losses'
    <2> DEFINE n == NRetry * Lag
    <2>1. n + Spent <= NRetry + losses
      BY <1>1, <1>3 DEF CountInv, SeenAgrees
    <2>2. Lag \in Nat /\ Spent \in Nat /\ losses \in Nat /\ NRetry \in Nat
      BY <1>3, CountFacts
    <2>3. n \in Nat
      BY <2>2
    <2>4. NRetry * Lag' = n
      BY <1>2
    <2> HIDE DEF n
    <2>5. n + Spent' <= NRetry + losses'
      BY <2>1, <2>2, <2>3, Balance
    <2> QED
      BY <2>4, <2>5
  <1>4. /\ AwaitsPhy(p') /\ src'.seen = p'.mid /\ p'.txKind # "Soft_Reset" =>
             src'.heard = p'.txKind
        /\ ~Resetting' /\ src'.seen = p'.mid => AwaitsPhy(p')
    BY <1>1 DEF CountInv, SeenAgrees
  <1> QED
    BY <1>3, <1>4 DEF SeenAgrees

LEMMA SpentSame ==
  ASSUME Unmoved(p, p'), p'.air = p.air, GoodCRCDue' <=> GoodCRCDue, CrcDue' <=> CrcDue,
         phy' = "MSG_TX_DISCARDED" <=> phy = "MSG_TX_DISCARDED"
  PROVE  Spent' = Spent
  <1>1. Unanswered' <=> Unanswered
    BY DEF Unanswered, AwaitsPhy, Unmoved
  <1> QED
    BY <1>1 DEF Spent, Unmoved

\* A step outside the worker: the source hears nothing new ...
LEMMA CountKept ==
  ASSUME LinkInv, CountInv, Unmoved(p, p'), p'.air \in {p.air, NoMessage},
         src'.seen = src.seen, src'.heard = src.heard,
         Spent' \in Nat, losses' \in 0 .. MaxLosses, Spent' + losses <= Spent + losses',
         IDsAgree', ResetAgrees', SlotAgrees'
  PROVE  CountInv'
  <1>1. Tally(p')
    BY TallyStays DEF CountInv
  <1>2. losses' \in Nat
    BY CountFacts
  <1>3. SeenAgrees'
    BY <1>2, SeenStays
  <1> QED
    BY <1>1, <1>3 DEF CountInv

\* ... with nothing lost ...
LEMMA CountSame ==
  ASSUME LinkInv, CountInv, Unmoved(p, p'), p'.air \in {p.air, NoMessage},
         src'.seen = src.seen, src'.heard = src.heard, losses' = losses, Spent' = Spent,
         IDsAgree', ResetAgrees', SlotAgrees'
  PROVE  CountInv'
  <1>1. Spent \in Nat /\ losses \in Nat /\ losses \in 0 .. MaxLosses
    BY CountFacts DEF CountInv
  <1>2. Spent' \in Nat /\ losses' \in 0 .. MaxLosses /\ Spent' + losses <= Spent + losses'
    BY <1>1
  <1> QED
    BY <1>2, CountKept

\* ... or it is reset.
LEMMA CountForgotten ==
  ASSUME LinkInv, CountInv, Unmoved(p, p'), p'.air \in {p.air, NoMessage},
         losses' = losses, src'.seen = NoMID, src'.owes = NoMID, src'.out = NoMessage,
         wire' = NoMessage, phy' # "MSG_RX_COMPLETE", src'.next \notin {"OFF", "DEAD"},
         SlotAgrees'
  PROVE  CountInv'
  <1>1. Tally(p')
    BY TallyStays DEF CountInv
  <1>2. p'.mid \in MessageIDs
    BY CountFacts DEF Unmoved
  <1>3. SeenAgrees'
    BY <1>2, NoMIDIsNone DEF SeenAgrees
  <1>4. IDsAgree'
    BY DEF IDsAgree, NoMessage, NONE
  <1>5. ResetAgrees'
    BY DEF ResetAgrees
  <1> QED
    BY <1>1, <1>3, <1>4, <1>5 DEF CountInv

LEMMA GoodCRCCounts ==
  ASSUME LinkInv, CountInv, SourceGoodCRC
  PROVE  CountInv' /\ Spent' = Spent /\ losses' = losses
  <1> DEFINE m == [kind |-> "GoodCRC", id |-> src.owes, chunk |-> 0]
  <1>1. /\ WireFree /\ p.air = NoMessage /\ src.owes # NoMID
        /\ wire' = m /\ p' = [p EXCEPT !.txAllowed = FALSE] /\ phy' = phy
        /\ src' = [src EXCEPT !.owes = NoMID] /\ tim' = tim /\ losses' = losses
    BY DEF SourceGoodCRC, Speak
  <1>2. /\ Unmoved(p, p') /\ p'.air = p.air /\ p'.tim = p.tim
    BY <1>1, LinkFacts DEF Unmoved, Fields
  <1>3. /\ src'.seen = src.seen /\ src'.heard = src.heard /\ src'.owes = NoMID
        /\ src'.out = src.out /\ src'.turn = src.turn /\ src'.next = src.next
    BY <1>1, LinkFacts DEF SourceFields
  <1>4. phy = NONE /\ phy' = NONE /\ wire'.kind = "GoodCRC" /\ wire'.id = src.owes
    BY <1>1 DEF WireFree
  <1>5. Spent' = Spent
    <2>1. GoodCRCDue /\ GoodCRCDue'
      BY <1>1, <1>4 DEF GoodCRCDue
    <2>2. CrcDue' <=> CrcDue
      BY <1>1, <1>2, <1>4 DEF CrcDue
    <2> QED
      BY <1>1, <1>2, <2>1, <2>2, SpentSame
  <1>6. IDsAgree'
    BY <1>1, <1>2, <1>3, <1>4 DEF CountInv, IDsAgree, Unmoved, NONE
  <1>7. ResetAgrees'
    BY <1>1, <1>2, <1>3 DEF CountInv, ResetAgrees, Unmoved
  <1>8. SlotAgrees'
    BY <1>4 DEF SlotAgrees, NONE
  <1> QED
    BY <1>1, <1>2, <1>3, <1>5, <1>6, <1>7, <1>8, CountSame

\* A message of the source begins, for the first time or once more.
LEMMA SpeakCounts ==
  ASSUME LinkInv, CountInv, NEW m, Speak(m), WireFree, src.owes = NoMID,
         p.air.kind \notin {"HardReset", "GoodCRC"}, m.kind # "GoodCRC",
         tim' = tim, losses' = losses, src'.owes = NoMID
  PROVE  /\ Unmoved(p, p') /\ p'.air \in {p.air, NoMessage}
         /\ Spent' = Spent /\ SlotAgrees' /\ wire' = m /\ phy' \in {NONE, "MSG_TX_DISCARDED"}
  <1>1. /\ phy = NONE /\ wire = NoMessage /\ wire' = m
        /\ Unmoved(p, p') /\ p'.tim = p.tim /\ p'.txAllowed = FALSE
    <2>1. phy = NONE /\ wire = NoMessage /\ wire' = m
      BY DEF Speak, WireFree
    <2>2. CASE p.air = NoMessage
      <3>1. p' = [p EXCEPT !.txAllowed = FALSE]
        BY <2>2 DEF Speak
      <3> QED
        BY <2>1, <3>1, LinkFacts DEF Unmoved, Fields
    <2>3. CASE p.air # NoMessage
      <3>1. p' = [p EXCEPT !.txAllowed = FALSE, !.air = NoMessage]
        BY <2>3 DEF Speak
      <3> QED
        BY <2>1, <3>1, LinkFacts DEF Unmoved, Fields
    <2> QED
      BY <2>2, <2>3
  <1>2. ~GoodCRCDue /\ ~GoodCRCDue'
    <2>1. phy' # "MSG_RX_COMPLETE"
      BY <1>1 DEF Speak, PostPhy, NONE
    <2> QED
      BY <1>1, <2>1 DEF GoodCRCDue, NoMessage, NONE
  <1>3. CASE p.air = NoMessage
    <2>1. p'.air = p.air /\ phy' = phy /\ pend' = pend
      BY <1>3, LinkFacts DEF Speak, Fields
    <2>2. CrcDue' <=> CrcDue
      BY <1>1, <2>1 DEF CrcDue
    <2>3. Spent' = Spent
      BY <1>1, <1>2, <2>1, <2>2, SpentSame
    <2> QED
      BY <1>1, <2>1, <2>3 DEF SlotAgrees, NONE
  <1>4. CASE p.air # NoMessage
    <2>1. p'.air = NoMessage /\ phy' = "MSG_TX_DISCARDED" /\ pend' = TRUE
      BY <1>4, LinkFacts DEF Speak, PostPhy, Fields
    <2>2. Sends(p) /\ p.txKind # "GoodCRC" /\ p.tim[0] # "CRC_RECEIVE" /\ tim = NONE
      BY <1>4, LinkFacts DEF Sound, Sends, LinkInv, WireAgrees
    <2>3. ~CrcDue'
      BY <1>1, <2>1, <2>2 DEF CrcDue, NONE
    <2>4. Spent' = p'.retry + 0 /\ Spent = p.retry + 0
      <3>1. ~Unanswered
        BY <1>4 DEF Unanswered
      <3> QED
        BY <2>1, <2>3, <3>1 DEF Spent
    <2>5. p'.txKind # "GoodCRC" /\ p'.retry = p.retry
      BY <1>1, <2>2 DEF Unmoved
    <2> QED
      BY <1>1, <2>1, <2>4, <2>5 DEF SlotAgrees, NONE
  <1> QED
    BY <1>3, <1>4

LEMMA SpeaksCounts ==
  ASSUME LinkInv, CountInv, SourceSpeaks
  PROVE  CountInv' /\ Spent' = Spent /\ losses' = losses
  <1> DEFINE M(say) == [kind |-> say[1],
                        id |-> IF say[1] = "Soft_Reset" THEN 0 ELSE src.id,
                        chunk |-> IF src.turn = "CHUNK" THEN 1 ELSE 0]
  <1>1. PICK say \in Says(src) :
          /\ Speak(M(say))
          /\ src' = [src EXCEPT !.out = M(say), !.id = M(say).id, !.next = say[2],
                                !.tries = 0, !.got = 0, !.acked = FALSE,
                                !.seen = IF say[1] = "Soft_Reset" THEN NoMID ELSE @]
    BY DEF SourceSpeaks
  <1> DEFINE m == M(say)
  <1>2. m.kind = say[1] /\ Speak(m) /\ m = M(say)
    BY <1>1
  <1> HIDE DEF m, M
  <1>3. /\ WireFree /\ p.cad = "ATTACHED" /\ src.owes = NoMID
        /\ p.air.kind \notin {"HardReset", "GoodCRC"} /\ losses' = losses /\ tim' = tim
    BY DEF SourceSpeaks
  <1>4. say[1] \in SprRx /\ say[2] \notin {"OFF", "DEAD"} /\ src.turn \notin {"OFF", "DEAD"}
    BY <1>2, SayOutsideEpr
  <1>5. /\ src'.owes = NoMID /\ src'.heard = src.heard /\ src'.turn = src.turn
        /\ src'.next = say[2] /\ src'.out = m
        /\ src'.seen = IF say[1] = "Soft_Reset" THEN NoMID ELSE src.seen
    <2> DEFINE id == M(say).id
               seen == IF say[1] = "Soft_Reset" THEN NoMID ELSE src.seen
    <2>1. src' = [src EXCEPT !.out = m, !.id = id, !.next = say[2], !.tries = 0,
                             !.got = 0, !.acked = FALSE, !.seen = seen]
      BY <1>1, <1>2, LinkFacts DEF SourceFields
    <2> HIDE DEF id
    <2> QED
      BY <1>3, <2>1, LinkFacts DEF SourceFields
  <1>6. m.kind # "GoodCRC"
    BY <1>2, <1>4 DEF SprRx
  <1>7. /\ Unmoved(p, p') /\ p'.air \in {p.air, NoMessage}
        /\ Spent' = Spent /\ SlotAgrees' /\ wire' = m /\ phy' \in {NONE, "MSG_TX_DISCARDED"}
    BY <1>2, <1>3, <1>5, <1>6, SpeakCounts
  <1>8. IDsAgree'
    BY <1>5, <1>6, <1>7 DEF CountInv, IDsAgree, NONE
  <1>9. ResetAgrees'
    BY <1>2, <1>3, <1>4, <1>5, <1>7
    DEF CountInv, ResetAgrees, Unmoved, HardResets, NONE
  <1>10. CASE say[1] = "Soft_Reset"
    <2>1. Tally(p')
      BY <1>7, TallyStays DEF CountInv
    <2>2. p'.mid \in MessageIDs
      BY <1>7, CountFacts DEF Unmoved
    <2>3. SeenAgrees'
      BY <1>5, <1>10, <2>2, NoMIDIsNone DEF SeenAgrees
    <2> QED
      BY <1>3, <1>7, <1>8, <1>9, <2>1, <2>3 DEF CountInv
  <1>11. CASE say[1] # "Soft_Reset"
    BY <1>3, <1>5, <1>7, <1>8, <1>9, <1>11, CountSame
  <1> QED
    BY <1>3, <1>7, <1>10, <1>11

LEMMA RetriesCounts ==
  ASSUME LinkInv, CountInv, SourceRetries
  PROVE  CountInv' /\ Spent' = Spent /\ losses' = losses
  <1>1. /\ WireFree /\ p.cad = "ATTACHED" /\ p.air = NoMessage
        /\ src.out # NoMessage /\ src.owes = NoMID /\ Speak(src.out)
        /\ src' = [src EXCEPT !.tries = @ + 1] /\ tim' = tim /\ losses' = losses
    BY DEF SourceRetries, GoodCRCMissed
  <1>2. /\ src'.seen = src.seen /\ src'.heard = src.heard /\ src'.owes = NoMID
        /\ src'.out = src.out /\ src'.turn = src.turn /\ src'.next = src.next
    BY <1>1, LinkFacts DEF SourceFields
  <1>3. src.out.kind # "GoodCRC" /\ p.air.kind \notin {"HardReset", "GoodCRC"}
    BY <1>1 DEF LinkInv, SprSource, SprRx, NoMessage, NONE
  <1>4. /\ Unmoved(p, p') /\ p'.air \in {p.air, NoMessage}
        /\ Spent' = Spent /\ SlotAgrees' /\ wire' = src.out
        /\ phy' \in {NONE, "MSG_TX_DISCARDED"}
    BY <1>1, <1>2, <1>3, SpeakCounts
  <1>5. IDsAgree'
    BY <1>2, <1>3, <1>4 DEF CountInv, IDsAgree, NONE
  <1>6. ResetAgrees'
    BY <1>2, <1>4 DEF CountInv, ResetAgrees, Unmoved, HardResets, NONE
  <1> QED
    BY <1>1, <1>2, <1>4, <1>5, <1>6, CountSame


LEMMA SpentBound ==
  ASSUME LinkInv, CountInv, Unmoved(p, p')
  PROVE  Spent' \in Nat /\ Spent' <= p.retry + 1 /\ p.retry \in Nat
  <1>1. p.retry \in Nat /\ p'.retry = p.retry
    BY CountFacts DEF Unmoved
  <1> QED
    BY <1>1 DEF Spent

LEMMA ReceivedCounts ==
  ASSUME LinkInv, CountInv, Received
  PROVE  CountInv' /\ Spent' + losses <= Spent + losses'
  <1>1. /\ wire # NoMessage /\ phy = NONE /\ wire' = NoMessage /\ tim' = tim /\ src' = src
        /\ \/ /\ p' = [p EXCEPT !.txAllowed = TRUE, !.rxMsg = wire]
              /\ phy' = "MSG_RX_COMPLETE" /\ pend' = TRUE /\ losses' = losses
           \/ /\ p' = [p EXCEPT !.txAllowed = TRUE] /\ phy' = phy
              /\ losses < MaxLosses /\ losses' = losses + 1
    BY DEF Received, PostPhy, Lose
  <1>2. src.owes = NoMID
    BY <1>1 DEF LinkInv, WireAgrees
  <1>3. CASE /\ p' = [p EXCEPT !.txAllowed = TRUE, !.rxMsg = wire]
             /\ phy' = "MSG_RX_COMPLETE" /\ pend' = TRUE /\ losses' = losses
    <2>1. Unmoved(p, p') /\ p'.air = p.air /\ p'.tim = p.tim /\ p'.rxMsg = wire
      BY <1>3, LinkFacts, ZenonT(60) DEF Unmoved, Fields
    <2>2. /\ GoodCRCDue' <=> GoodCRCDue
          /\ CrcDue' <=> CrcDue
      BY <1>1, <1>2, <1>3, <2>1 DEF GoodCRCDue, CrcDue, NoMessage, NONE
    <2>3. Spent' = Spent
      BY <1>1, <1>3, <2>1, <2>2, SpentSame DEF NONE
    <2>4. IDsAgree'
      BY <1>1, <1>2, <1>3, <2>1 DEF CountInv, IDsAgree, Unmoved, NoMessage, NONE
    <2>5. ResetAgrees'
      BY <1>1, <1>3, <2>1 DEF CountInv, ResetAgrees, Unmoved, HardResets
    <2>6. SlotAgrees'
      BY <1>3 DEF SlotAgrees
    <2> QED
      BY <1>1, <1>3, <2>1, <2>3, <2>4, <2>5, <2>6, CountSame, CountFacts
  <1>4. CASE /\ p' = [p EXCEPT !.txAllowed = TRUE] /\ phy' = phy
             /\ losses < MaxLosses /\ losses' = losses + 1
    <2>1. Unmoved(p, p') /\ p'.air = p.air /\ p'.tim = p.tim /\ p'.rxMsg = p.rxMsg
      BY <1>4, LinkFacts, ZenonT(60) DEF Unmoved, Fields
    <2>2. ~GoodCRCDue' /\ (CrcDue' <=> CrcDue)
      BY <1>1, <1>2, <1>4, <2>1 DEF GoodCRCDue, CrcDue, NoMessage, NONE
    <2>3. Spent' <= Spent + 1
      <3>1. CASE GoodCRCDue
        <4>1. Spent = p.retry + 0
          BY <3>1 DEF Spent, Unanswered
        <4> QED
          BY <4>1, <2>1, SpentBound
      <3>2. CASE ~GoodCRCDue
        <4>1. Spent' = Spent
          BY <1>4, <2>1, <2>2, <3>2, SpentSame
        <4> QED
          BY <4>1, CountFacts
      <3> QED
        BY <3>1, <3>2
    <2>4. IDsAgree'
      BY <1>1, <1>2, <1>4, <2>1 DEF CountInv, IDsAgree, Unmoved, NoMessage, NONE
    <2>5. ResetAgrees'
      BY <1>1, <1>4, <2>1 DEF CountInv, ResetAgrees, Unmoved
    <2>6. SlotAgrees'
      BY <1>1, <1>4 DEF SlotAgrees, NONE
    <2>7. losses' \in 0 .. MaxLosses /\ losses \in Nat
      BY <1>4, CountFacts
    <2>8. Spent' + losses <= Spent + losses'
      BY <1>4, <2>1, <2>3, <2>7, SpentBound, CountFacts
    <2> QED
      BY <1>1, <2>1, <2>4, <2>5, <2>6, <2>7, <2>8, SpentBound, CountKept
  <1> QED
    BY <1>1, <1>3, <1>4


\* A source that remembers no MessageID, whatever has been lost
LEMMA CountUnseen ==
  ASSUME LinkInv, CountInv, Unmoved(p, p'), p'.air \in {p.air, NoMessage},
         losses' = losses, src'.seen = NoMID, IDsAgree', ResetAgrees', SlotAgrees'
  PROVE  CountInv'
  <1>1. Tally(p')
    BY TallyStays DEF CountInv
  <1>2. p'.mid \in MessageIDs
    BY CountFacts DEF Unmoved
  <1>3. SeenAgrees'
    BY <1>2, NoMIDIsNone DEF SeenAgrees
  <1> QED
    BY <1>1, <1>3 DEF CountInv

\* The end of a message of the port: what is known of it
LEMMA TransmittedFacts ==
  ASSUME LinkInv, CountInv, Transmitted
  PROVE  /\ phy' = "MSG_TX_COMPLETED" /\ pend' = TRUE /\ wire' = NoMessage
         /\ Unmoved(p, p') /\ p'.air = NoMessage
         /\ src.owes = NoMID /\ p.air.kind = p.txKind
         /\ p.txKind # "GoodCRC" =>
              /\ AwaitsPhy(p) /\ p.air.id = p.mid
              /\ p.txKind \in {"Request", "Accept", "Soft_Reset", "Not_Supported"}
         /\ p.cad = "ATTACHED"
         /\ SlotAgrees'
         /\ Spent = p.retry /\ p.retry \in Nat
         /\ Spent' = IF AwaitsPhy(p) /\ src'.owes = NoMID THEN p.retry + 1 ELSE p.retry
  <1>1. /\ WireFree /\ Sends(p) /\ p.air # NoMessage
        /\ p' = [p EXCEPT !.txAllowed = TRUE, !.air = NoMessage]
        /\ phy' = "MSG_TX_COMPLETED" /\ pend' = TRUE /\ tim' = tim /\ wire' = wire
    BY DEF Transmitted, PostPhy, Sends, NoMessage
  <1>2. src.owes = NoMID /\ wire = NoMessage /\ p.cad = "ATTACHED"
    BY <1>1 DEF LinkInv, WireAgrees, WireFree, Detached
  <1>3. p.air.kind = p.txKind /\ (p.txKind # "GoodCRC" => AwaitsPhy(p))
    BY <1>1 DEF LinkInv, Sound
  <1>4. p.txKind # "GoodCRC" => p.air.id = p.mid
    BY <1>1, <1>3 DEF CountInv, Tally, Numbered
  <1>5. p.txKind # "GoodCRC" => p.txKind \in {"Request", "Accept", "Soft_Reset", "Not_Supported"}
    <2>1. p.txKind \in SprKinds /\ p.txKind # NONE
      BY <1>1, <1>3 DEF LinkInv, Sound, Spr, NoEpr, Sends
    <2> QED
      BY <2>1 DEF SprKinds
  <1>6. Unmoved(p, p') /\ p'.air = NoMessage
    BY <1>1, LinkFacts, ZenonT(60) DEF Unmoved, Fields
  <1>7. SlotAgrees'
    BY <1>1 DEF SlotAgrees
  <1>8. Spent = p.retry /\ p.retry \in Nat
    <2>1. ~Unanswered
      BY <1>1 DEF Unanswered
    <2>2. Spent = p.retry + 0 /\ p.retry \in Nat
      BY <2>1, CountFacts DEF Spent
    <2> QED
      BY <2>2
  <1>9. Spent' = IF AwaitsPhy(p) /\ src'.owes = NoMID THEN p.retry + 1 ELSE p.retry
    <2>1. GoodCRCDue' <=> src'.owes # NoMID
      BY <1>1, <1>2 DEF GoodCRCDue, NoMessage, NONE
    <2>2. Unanswered' <=> AwaitsPhy(p) /\ src'.owes = NoMID
      BY <1>6, <2>1 DEF Unanswered, AwaitsPhy, Unmoved
    <2>3. CrcDue' /\ p'.retry = p.retry
      BY <1>1, <1>6 DEF CrcDue, Unmoved
    <2>4. Spent' = p.retry + IF AwaitsPhy(p) /\ src'.owes = NoMID THEN 1 ELSE 0
      BY <2>2, <2>3 DEF Spent
    <2> QED
      BY <1>8, <2>4
  <1> QED
    BY <1>1, <1>2, <1>3, <1>4, <1>5, <1>6, <1>7, <1>8, <1>9

\* The source takes a message for a retransmission or for a new one.
LEMMA SourceTakesOne ==
  ASSUME LinkInv, NEW m, src' = SourceHears(src, m),
         m.kind \in {"Request", "Accept", "Soft_Reset", "Not_Supported"}
  PROVE  \/ /\ m.kind # "Soft_Reset" /\ m.id = src.seen
            /\ src'.owes = m.id /\ src'.seen = src.seen /\ src'.heard = src.heard
            /\ src'.turn = src.turn /\ src'.next = src.next /\ src'.out = src.out
            /\ src'.mistaken = (m.kind # src.heard)
         \/ /\ src'.owes = m.id /\ src'.seen = m.id /\ src'.heard = m.kind
            /\ src'.turn \notin {"OFF", "DEAD"} /\ src'.next = src.next
            /\ src'.out = NoMessage /\ src'.mistaken = src.mistaken
  <1> DEFINE new == m.kind = "Soft_Reset" \/ m.id # src.seen
  <1>1. CASE ~new
    <2>1. src' = [src EXCEPT !.owes = m.id, !.mistaken = m.kind # src.heard]
      BY <1>1 DEF SourceHears
    <2> QED
      BY <1>1, <2>1, LinkFacts DEF SourceFields
  <1>2. CASE new
    <2>1. \E id, surprised, epr :
            src' = [src EXCEPT !.owes = m.id, !.seen = m.id, !.heard = m.kind,
                               !.turn = Hears(m.kind), !.out = NoMessage, !.id = id,
                               !.epr = epr, !.surprised = surprised]
      BY <1>2 DEF SourceHears
    <2>2. PICK id, surprised, epr :
            src' = [src EXCEPT !.owes = m.id, !.seen = m.id, !.heard = m.kind,
                               !.turn = Hears(m.kind), !.out = NoMessage, !.id = id,
                               !.epr = epr, !.surprised = surprised]
      BY <2>1
    <2>3. Hears(m.kind) \notin {"OFF", "DEAD"}
      BY DEF Hears
    <2> QED
      BY <2>2, <2>3, LinkFacts DEF SourceFields
  <1> QED
    BY <1>1, <1>2

LEMMA TransmittedCounts ==
  ASSUME LinkInv, CountInv, Transmitted
  PROVE  /\ CountInv'
         /\ NotMistaken => NotMistaken'
  <1> DEFINE acked == [src EXCEPT !.out = NoMessage, !.turn = src.next, !.acked = TRUE,
                                  !.id = NextMID(@),
                                  !.epr = CASE src.out.kind = "EPRSucc" -> TRUE
                                            [] src.out.kind = "EPRExit" -> FALSE
                                            [] OTHER -> @]
  <1>1. /\ phy' = "MSG_TX_COMPLETED" /\ pend' = TRUE /\ wire' = NoMessage
        /\ Unmoved(p, p') /\ p'.air = NoMessage
        /\ src.owes = NoMID /\ p.air.kind = p.txKind
        /\ p.txKind # "GoodCRC" =>
             /\ AwaitsPhy(p) /\ p.air.id = p.mid
             /\ p.txKind \in {"Request", "Accept", "Soft_Reset", "Not_Supported"}
        /\ p.cad = "ATTACHED"
        /\ SlotAgrees'
        /\ Spent = p.retry /\ p.retry \in Nat
        /\ Spent' = IF AwaitsPhy(p) /\ src'.owes = NoMID THEN p.retry + 1 ELSE p.retry
    BY TransmittedFacts
  <1>2. /\ p.mid \in MessageIDs /\ p.mid # NoMID /\ losses \in Nat
        /\ losses \in 0 .. MaxLosses
    BY CountFacts, NoMIDIsNone DEF CountInv
  <1>3. \/ p.air.kind = "GoodCRC" /\ src' \in {src, acked} /\ losses' = losses
        \/ p.air.kind # "GoodCRC" /\ ~Listens(src, p.air) /\ src' = src /\ losses' = losses
        \/ /\ p.air.kind # "GoodCRC" /\ Listens(src, p.air)
           /\ src' = SourceHears(src, p.air) /\ losses' = losses
        \/ losses < MaxLosses /\ losses' = losses + 1 /\ src' = src
    BY DEF Transmitted, Lose
  <1>4. CASE p.air.kind = "GoodCRC" /\ src' \in {src, acked} /\ losses' = losses
    <2>1. /\ src'.seen = src.seen /\ src'.heard = src.heard /\ src'.owes = src.owes
          /\ src'.next = src.next /\ src'.mistaken = src.mistaken
          /\ src'.turn \in {src.turn, src.next} /\ src'.out \in {src.out, NoMessage}
      <3>1. CASE src' = src
        BY <3>1
      <3>2. CASE src' = acked
        BY <3>2, LinkFacts DEF SourceFields
      <3> QED
        BY <1>4, <3>1, <3>2
    <2>2. ~AwaitsPhy(p)
      BY <1>1, <1>4 DEF AwaitsPhy
    <2>3. IDsAgree'
      BY <1>1, <2>1 DEF CountInv, IDsAgree, Unmoved, NoMessage, NONE
    <2>4. ResetAgrees'
      BY <1>1, <2>1 DEF CountInv, ResetAgrees, Unmoved, HardResets, NoMessage, NONE
    <2>5. CountInv'
      BY <1>1, <1>4, <2>1, <2>2, <2>3, <2>4, CountSame
    <2> QED
      BY <2>1, <2>5 DEF NotMistaken
  <1>5. CASE p.air.kind # "GoodCRC" /\ ~Listens(src, p.air) /\ src' = src /\ losses' = losses
    <2>1. src.seen = NoMID
      BY <1>5 DEF Listens, CountInv, ResetAgrees
    <2>2. IDsAgree'
      BY <1>1, <1>5 DEF CountInv, IDsAgree, Unmoved, NoMessage, NONE
    <2>3. ResetAgrees'
      BY <1>1, <1>5, <2>1 DEF CountInv, ResetAgrees
    <2>4. CountInv'
      BY <1>1, <1>5, <2>1, <2>2, <2>3, CountUnseen
    <2> QED
      BY <1>5, <2>4 DEF NotMistaken
  <1>6. CASE /\ p.air.kind # "GoodCRC" /\ Listens(src, p.air)
             /\ src' = SourceHears(src, p.air) /\ losses' = losses
    <2>1. /\ AwaitsPhy(p) /\ p.air.id = p.mid
          /\ p.air.kind \in {"Request", "Accept", "Soft_Reset", "Not_Supported"}
      BY <1>1, <1>6
    <2>2. CASE /\ p.air.kind # "Soft_Reset" /\ p.air.id = src.seen
               /\ src'.owes = p.air.id /\ src'.seen = src.seen /\ src'.heard = src.heard
               /\ src'.turn = src.turn /\ src'.next = src.next /\ src'.out = src.out
               /\ src'.mistaken = (p.air.kind # src.heard)
      <3>1. Spent' = Spent
        BY <1>1, <1>2, <2>1, <2>2
      <3>2. IDsAgree'
        BY <1>1, <2>1, <2>2 DEF CountInv, IDsAgree, Unmoved, NoMessage, NONE
      <3>3. ResetAgrees'
        BY <1>1, <2>2 DEF CountInv, ResetAgrees, Unmoved, HardResets
      <3>4. CountInv'
        BY <1>1, <1>6, <2>2, <3>1, <3>2, <3>3, CountSame
      <3>5. src.heard = p.air.kind
        BY <1>1, <2>1, <2>2 DEF CountInv, SeenAgrees
      <3> QED
        BY <2>2, <3>4, <3>5 DEF NotMistaken
    <2>3. CASE /\ src'.owes = p.air.id /\ src'.seen = p.air.id /\ src'.heard = p.air.kind
               /\ src'.turn \notin {"OFF", "DEAD"} /\ src'.next = src.next
               /\ src'.out = NoMessage /\ src'.mistaken = src.mistaken
      <3>1. IDsAgree'
        BY <1>1, <1>2, <2>1, <2>3 DEF CountInv, IDsAgree, Unmoved, NoMessage, NONE
      <3>2. ResetAgrees'
        BY <1>1, <2>3 DEF CountInv, ResetAgrees, Unmoved, HardResets, NoMessage, NONE
      <3>3. SeenAgrees'
        BY <1>1, <2>1, <2>3 DEF SeenAgrees, Unmoved, AwaitsPhy
      <3>4. Tally(p')
        BY <1>1, TallyStays DEF CountInv
      <3>5. CountInv'
        BY <1>1, <1>2, <1>6, <3>1, <3>2, <3>3, <3>4 DEF CountInv
      <3> QED
        BY <2>3, <3>5 DEF NotMistaken
    <2> QED
      BY <1>6, <2>1, <2>2, <2>3, SourceTakesOne
  <1>7. CASE losses < MaxLosses /\ losses' = losses + 1 /\ src' = src
    <2>1. losses' \in 0 .. MaxLosses
      BY <1>2, <1>7, CountFacts
    <2>2. Spent' \in Nat /\ Spent' + losses <= Spent + losses'
      BY <1>1, <1>2, <1>7
    <2>3. IDsAgree'
      BY <1>1, <1>7 DEF CountInv, IDsAgree, Unmoved, NoMessage, NONE
    <2>4. ResetAgrees'
      BY <1>1, <1>7 DEF CountInv, ResetAgrees, Unmoved, HardResets
    <2>5. CountInv'
      BY <1>1, <1>7, <2>1, <2>2, <2>3, <2>4, CountKept
    <2> QED
      BY <1>7, <2>5 DEF NotMistaken
  <1> QED
    BY <1>3, <1>4, <1>5, <1>6, <1>7


LEMMA HardResetCounts ==
  ASSUME LinkInv, CountInv, HardResetTransmitted \/ SourceHardReset
  PROVE  CountInv'
  <1>1. /\ wire' = NoMessage /\ phy' \in HardResets /\ pend' = TRUE /\ losses' = losses
        /\ \/ p' = [p EXCEPT !.air = NoMessage]
           \/ p' = [p EXCEPT !.hardResetActive = TRUE, !.txAllowed = FALSE,
                             !.air = NoMessage]
    BY DEF HardResetTransmitted, SourceHardReset, PostPhy, WireFree, HardResets
  <1>2. Unmoved(p, p') /\ p'.air = NoMessage
    <2>1. CASE p' = [p EXCEPT !.air = NoMessage]
      BY <2>1, LinkFacts, ZenonT(60) DEF Unmoved, Fields
    <2>2. CASE p' = [p EXCEPT !.hardResetActive = TRUE, !.txAllowed = FALSE,
                              !.air = NoMessage]
      BY <2>2, LinkFacts, ZenonT(60) DEF Unmoved, Fields
    <2> QED
      BY <1>1, <2>1, <2>2
  <1>3. /\ src'.seen = NoMID /\ src'.owes = NoMID /\ src'.out = NoMessage
        /\ src'.next = "CAPS"
    BY DEF HardResetTransmitted, SourceHardReset, NewSource
  <1>4. SlotAgrees' /\ phy' # "MSG_RX_COMPLETE"
    BY <1>1 DEF SlotAgrees, HardResets
  <1> QED
    BY <1>1, <1>2, <1>3, <1>4, CountForgotten

LEMMA VbusCounts ==
  ASSUME LinkInv, CountInv, VbusRemoved \/ VbusReturns
  PROVE  CountInv'
  <1>1. phy' = NONE /\ losses' = losses /\ wire' = NoMessage
    <2>1. phy = NONE /\ phy' = phy /\ wire' = wire /\ losses' = losses
      BY DEF VbusRemoved, VbusReturns, CountInv, SlotAgrees
    <2>2. wire = NoMessage
      BY DEF VbusRemoved, VbusReturns, LinkInv, WireAgrees
    <2> QED
      BY <2>1, <2>2
  <1>2. Unmoved(p, p') /\ p'.air = p.air
    <2>1. CASE VbusRemoved
      BY <2>1, LinkFacts, ZenonT(60) DEF VbusRemoved, Unmoved, Fields
    <2>2. CASE VbusReturns
      BY <2>2, LinkFacts, ZenonT(60) DEF VbusReturns, Unmoved, Fields
    <2> QED
      BY <2>1, <2>2
  <1>3. /\ src'.seen = NoMID /\ src'.owes = NoMID /\ src'.out = NoMessage
        /\ src'.next \notin {"OFF", "DEAD"}
    <2>1. CASE VbusRemoved
      BY <2>1 DEF VbusRemoved, NewSource
    <2>2. CASE VbusReturns
      <3>1. src' = [src EXCEPT !.turn = "CAPS"] /\ src.turn = "DEAD"
        BY <2>2 DEF VbusReturns
      <3>2. /\ src.seen = NoMID /\ src.owes = NoMID /\ src.out = NoMessage
            /\ src.next \notin {"OFF", "DEAD"}
        BY <3>1 DEF LinkInv, WireAgrees, CountInv, ResetAgrees
      <3> QED
        BY <3>1, <3>2, LinkFacts DEF SourceFields
    <2> QED
      BY <2>1, <2>2
  <1>4. SlotAgrees' /\ phy' # "MSG_RX_COMPLETE"
    BY <1>1 DEF SlotAgrees, NONE
  <1> QED
    BY <1>1, <1>2, <1>3, <1>4, CountForgotten

LEMMA SinkTxCounts ==
  ASSUME LinkInv, CountInv, SinkTx
  PROVE  CountInv' /\ Spent' = Spent /\ losses' = losses
  <1>1. /\ phy = NONE /\ phy' = "CONN_DETECTED" /\ pend' = TRUE
        /\ p' = [p EXCEPT !.sinkTxOk = ~p.sinkTxOk]
        /\ tim' = tim /\ wire' = wire /\ src' = src /\ losses' = losses
    BY LinkFacts DEF SinkTx, PostPhy, Fields
  <1>2. Unmoved(p, p') /\ p'.air = p.air /\ p'.tim = p.tim /\ p'.rxMsg = p.rxMsg
    BY <1>1, LinkFacts, ZenonT(60) DEF Unmoved, Fields
  <1>3. (GoodCRCDue' <=> GoodCRCDue) /\ (CrcDue' <=> CrcDue)
    BY <1>1, <1>2 DEF GoodCRCDue, CrcDue, NONE
  <1>4. Spent' = Spent
    BY <1>1, <1>2, <1>3, SpentSame DEF NONE
  <1>5. IDsAgree'
    BY <1>1, <1>2 DEF CountInv, IDsAgree, Unmoved
  <1>6. ResetAgrees'
    BY <1>1, <1>2 DEF CountInv, ResetAgrees, Unmoved, HardResets
  <1>7. SlotAgrees'
    BY <1>1 DEF SlotAgrees
  <1> QED
    BY <1>1, <1>2, <1>4, <1>5, <1>6, <1>7, CountSame

LEMMA ReattachCounts ==
  ASSUME LinkInv, CountInv, SInv', Reattach
  PROVE  CountInv'
  <1>1. /\ p.cad = "UNATTACHED" /\ p' = Attach /\ phy' = phy /\ tim' = tim
        /\ wire' = wire /\ src' = src /\ losses' = losses /\ pend' = pend
    BY DEF Reattach
  <1>2. phy = NONE /\ wire = NoMessage /\ src.owes = NoMID /\ src.out = NoMessage
    BY <1>1 DEF LinkInv, Detached
  <1>3. src.seen = NoMID
    BY <1>1 DEF CountInv, ResetAgrees
  <1>4. Tally(p') /\ p'.mid \in MessageIDs
    BY <1>1, AttachLinks DEF SInv, AtRest, Settled, Port
  <1>5. IDsAgree'
    BY <1>1, <1>2, <1>3 DEF IDsAgree, NoMessage, NONE
  <1>6. ResetAgrees'
    BY <1>1, <1>2, <1>3 DEF CountInv, ResetAgrees
  <1>7. SlotAgrees'
    BY <1>1, <1>2 DEF SlotAgrees, NONE
  <1>8. SeenAgrees'
    BY <1>1, <1>3, <1>4, NoMIDIsNone DEF SeenAgrees
  <1> QED
    BY <1>1, <1>4, <1>5, <1>6, <1>7, <1>8 DEF CountInv

LEMMA RequestCounts ==
  ASSUME LinkInv, CountInv, NEW request, RequestAsync(request)
  PROVE  CountInv' /\ Spent' = Spent /\ losses' = losses
  <1>1. /\ p' = [p EXCEPT !.dpm_event = request, !.callback = request]
        /\ phy' = phy /\ tim' = tim /\ wire' = wire /\ src' = src /\ losses' = losses
        /\ pend' = TRUE
    BY DEF RequestAsync
  <1>2. /\ Unmoved(p, p') /\ p'.air = p.air /\ p'.tim = p.tim /\ p'.rxMsg = p.rxMsg
        /\ p'.txAllowed = p.txAllowed
    BY <1>1, LinkFacts, ZenonT(60) DEF Unmoved, Fields
  <1>3. (GoodCRCDue' <=> GoodCRCDue) /\ (CrcDue' <=> CrcDue)
    BY <1>1, <1>2 DEF GoodCRCDue, CrcDue
  <1>4. Spent' = Spent
    BY <1>1, <1>2, <1>3, SpentSame
  <1>5. IDsAgree'
    BY <1>1, <1>2 DEF CountInv, IDsAgree, Unmoved
  <1>6. ResetAgrees'
    BY <1>1, <1>2 DEF CountInv, ResetAgrees, Unmoved
  <1>7. SlotAgrees'
    BY <1>1, <1>2 DEF CountInv, SlotAgrees, Unmoved
  <1> QED
    BY <1>1, <1>2, <1>4, <1>5, <1>6, <1>7, CountSame

LEMMA ExpiredCounts ==
  ASSUME LinkInv, CountInv, NEW c \in {0, 1}, UCPD_TIM_Expired(c), Pace # "RACE"
  PROVE  CountInv' /\ Spent' = Spent /\ losses' = losses
  <1>1. /\ Quiet /\ tim = NONE /\ p.tim[c] # NONE
        /\ tim' = UCPD_TIMERS_EVENTS(p.tim[c])
        /\ p' = [p EXCEPT !.tim = [p.tim EXCEPT ![c] = NONE]]
        /\ phy' = phy /\ wire' = wire /\ src' = src /\ losses' = losses
    BY LinkFacts DEF UCPD_TIM_Expired, MayExpire, Fields
  <1>2. phy = NONE /\ wire = NoMessage /\ src.owes = NoMID
    BY <1>1 DEF Quiet
  <1>3. /\ p.tim \in TimType
        /\ p.tim[0] \in Channel0 \cup {NONE} /\ p.tim[1] \in Channel1 \cup {NONE}
    <2>1. p.tim \in TimType
      BY LinkFacts DEF Port
    <2> QED
      BY <2>1, TimerType, Channels DEF Timers
  <1>4. Unmoved(p, p') /\ p'.air = p.air /\ p'.tim = [p.tim EXCEPT ![c] = NONE]
    BY <1>1, LinkFacts, ZenonT(60) DEF Unmoved, Fields
  <1>5. CrcDue' <=> CrcDue
    <2>1. CrcDue' <=> tim' = "CRC_RECEIVE" \/ p'.tim[0] = "CRC_RECEIVE"
      BY <1>1, <1>2 DEF CrcDue, NONE
    <2>2. CrcDue <=> p.tim[0] = "CRC_RECEIVE"
      BY <1>1, <1>2 DEF CrcDue, NONE
    <2>3. CASE c = 0
      <3>1. p'.tim[0] = NONE
        BY <1>3, <1>4, <2>3 DEF TimType
      <3>2. tim' = "CRC_RECEIVE" <=> p.tim[0] = "CRC_RECEIVE"
        BY <1>1, <1>3, <2>3 DEF UCPD_TIMERS_EVENTS, Channel0
      <3> QED
        BY <2>1, <2>2, <3>1, <3>2 DEF NONE
    <2>4. CASE c = 1
      <3>1. p'.tim[0] = p.tim[0]
        BY <1>3, <1>4, <2>4 DEF TimType
      <3>2. tim' # "CRC_RECEIVE"
        BY <1>1, <1>3, <2>4 DEF UCPD_TIMERS_EVENTS, Channel1, NONE
      <3> QED
        BY <2>1, <2>2, <3>1, <3>2
    <2> QED
      BY <2>3, <2>4
  <1>6. GoodCRCDue' <=> GoodCRCDue
    BY <1>1, <1>2 DEF GoodCRCDue, NoMessage, NONE
  <1>7. Spent' = Spent
    BY <1>1, <1>4, <1>5, <1>6, SpentSame
  <1>8. IDsAgree'
    BY <1>1, <1>2, <1>4 DEF CountInv, IDsAgree, Unmoved, NoMessage, NONE
  <1>9. ResetAgrees'
    BY <1>1, <1>4 DEF CountInv, ResetAgrees, Unmoved
  <1>10. SlotAgrees'
    BY <1>1, <1>2 DEF SlotAgrees, NONE
  <1> QED
    BY <1>1, <1>4, <1>7, <1>8, <1>9, <1>10, CountSame


-----------------------------------------------------------------------------
\* The MessageIDs and the losses when the worker runs

LEMMA BehindNext ==
  ASSUME NEW seen \in MessageIDs, NEW mid \in MessageIDs
  PROVE  LET next == Successor(mid)
         IN  /\ next \in MessageIDs
             /\ seen = mid => next # seen /\ Behind(seen, next) = 1
             /\ seen # mid /\ seen # next => Behind(seen, next) = Behind(seen, mid) + 1
             /\ seen # mid /\ seen = next => Behind(seen, mid) = MidMax
  BY PortAssumption DEF MessageIDs, Successor, Behind

\* What every run of the worker does that the source still remembers a MessageID in
WorkerRan ==
  /\ phy' = NONE /\ tim' = NONE /\ wire' = wire /\ losses' = losses
  /\ src'.seen = src.seen /\ src'.heard = src.heard /\ src'.owes = src.owes
  /\ Steady(p') /\ Port(p')
  /\ Proceeds(p, phy, tim, p')

\* What has been said as long as the port waits for the answer
LEMMA ResettingStays ==
  ASSUME LinkInv, WorkerRan
  PROVE  /\ Resetting /\ (Restarts(p) => Restarts(p')) => Resetting'
         /\ p'.snk = "HARD_RESET" => ~AwaitsPhy(p')
         /\ Restarts(p) => AwaitsPhy(p) /\ p.snk = "SEND_SOFT_RESET"
  <1>1. Resetting /\ (Restarts(p) => Restarts(p')) => Resetting'
    BY DEF WorkerRan, Proceeds, Resetting
  <1>2. p'.snk = "HARD_RESET" => ~AwaitsPhy(p')
    BY DEF WorkerRan, Steady, Sound, AwaitsPhy, Sending
  <1>3. Restarts(p) => AwaitsPhy(p) /\ p.snk = "SEND_SOFT_RESET"
    BY LinkFacts DEF Restarts, AwaitsPhy, Sound, Spoken, Sending
  <1> QED
    BY <1>1, <1>2, <1>3

LEMMA SpentAfter ==
  ASSUME LinkInv, CountInv, WorkerRan
  PROVE  /\ CrcDue' <=> p'.tim[0] = "CRC_RECEIVE"
         /\ GoodCRCDue' <=> src.owes # NoMID \/ wire.kind = "GoodCRC"
         /\ ~CrcDue' => Spent' = IF Unanswered' THEN 0 ELSE p'.retry
         /\ p'.retry \in Nat /\ Spent' \in Nat /\ p.retry \in Nat /\ Spent \in Nat
  <1>1. CrcDue' <=> p'.tim[0] = "CRC_RECEIVE"
    BY DEF WorkerRan, CrcDue, NONE
  <1>2. GoodCRCDue' <=> src.owes # NoMID \/ wire.kind = "GoodCRC"
    BY DEF WorkerRan, GoodCRCDue, NONE
  <1>3. p'.retry \in Nat /\ phy' # "MSG_TX_DISCARDED"
    BY PortAssumption DEF WorkerRan, Port, RetryType, NONE
  <1>4. Spent' \in Nat
    BY <1>3 DEF Spent
  <1>5. ~CrcDue' => Spent' = IF Unanswered' THEN 0 ELSE p'.retry
    BY <1>3 DEF Spent
  <1> QED
    BY <1>1, <1>2, <1>3, <1>4, <1>5, CountFacts

\* The message stands, and has cost no more than before.
LEMMA StandsCounts ==
  ASSUME LinkInv, CountInv, WorkerRan,
         p'.tx = p.tx, p'.txKind = p.txKind, p'.mid = p.mid, Spent' <= Spent
  PROVE  SeenAgrees'
  <1>1. /\ AwaitsPhy(p') <=> AwaitsPhy(p)
        /\ Restarts(p') <=> Restarts(p)
    BY DEF AwaitsPhy, Restarts
  <1>2. ~Resetting' => ~Resetting
    BY <1>1, ResettingStays
  <1>3. Lag' = Lag
    BY DEF Lag, WorkerRan
  <1>4. ASSUME ~Resetting', src'.seen \notin {NoMID, p'.mid}
        PROVE  NRetry * Lag' + Spent' <= NRetry + losses'
    <2> DEFINE n == NRetry * Lag
    <2>1. n + Spent <= NRetry + losses
      BY <1>2, <1>4 DEF CountInv, SeenAgrees, WorkerRan
    <2>2. Lag \in Nat /\ Spent \in Nat /\ losses \in Nat /\ NRetry \in Nat
      BY <1>4, CountFacts DEF WorkerRan
    <2>3. n \in Nat /\ Spent' \in Nat /\ Spent' + losses <= Spent + losses
      BY <2>2, SpentAfter
    <2>4. NRetry * Lag' = n /\ losses' = losses
      BY <1>3 DEF WorkerRan
    <2> HIDE DEF n
    <2>5. n + Spent' <= NRetry + losses
      BY <2>1, <2>2, <2>3, Balance
    <2> QED
      BY <2>4, <2>5
  <1> QED
    BY <1>1, <1>2, <1>4 DEF CountInv, SeenAgrees, WorkerRan

LEMMA RepeatsSpends ==
  ASSUME LinkInv, CountInv, WorkerRan, Repeats(p, p'),
         tim = "CRC_RECEIVE" \/ phy = "MSG_TX_DISCARDED"
  PROVE  Spent' <= Spent
  <1>1. /\ p'.tx = p.tx /\ p'.txKind = p.txKind /\ p'.mid = p.mid
        /\ p'.retry = p.retry + 1 /\ p'.tim[0] # "CRC_RECEIVE"
        /\ p.txAllowed = FALSE => p'.air = NoMessage
    BY DEF Repeats
  <1>2. CASE tim = "CRC_RECEIVE"
    <2>1. AwaitsPhy(p) /\ ~GoodCRCDue /\ ~Sends(p) /\ p.snk # "HARD_RESET"
      BY <1>2 DEF LinkInv, TimerAgrees, WireAgrees, NONE
    <2>2. p.air = NoMessage
      BY <2>1, LinkFacts DEF Sound, Sends
    <2>3. Spent = p.retry + 1
      BY <1>2, <2>1, <2>2 DEF Spent, Unanswered, CrcDue
    <2> QED
      BY <1>1, <2>3, SpentAfter
  <1>3. CASE phy = "MSG_TX_DISCARDED"
    <2>1. p.txAllowed = FALSE /\ p.txKind # "GoodCRC"
      BY <1>3 DEF CountInv, SlotAgrees
    <2>2. ~GoodCRCDue'
      BY <1>3, SpentAfter DEF LinkInv, WireAgrees, NONE
    <2>3. Unanswered'
      BY <1>1, <2>1, <2>2 DEF Unanswered, AwaitsPhy, Repeats
    <2> QED
      BY <1>1, <2>3, SpentAfter
  <1> QED
    BY <1>2, <1>3

LEMMA RepeatsCounts ==
  ASSUME LinkInv, CountInv, WorkerRan, Repeats(p, p'),
         tim = "CRC_RECEIVE" \/ phy = "MSG_TX_DISCARDED"
  PROVE  SeenAgrees'
  BY RepeatsSpends, StandsCounts DEF Repeats

\* No event is for the message of the port, or the GoodCRC of something else.
LEMMA WaitsSpends ==
  ASSUME LinkInv, CountInv, WorkerRan, Stands(p, p'),
         p'.tim[0] = "CRC_RECEIVE" => p.tim[0] = "CRC_RECEIVE" \/ phy = "MSG_TX_COMPLETED",
         ~(phy = "MSG_RX_COMPLETE" /\ p.rxMsg.kind = "GoodCRC")
  PROVE  Spent' <= Spent
  <1>1. /\ p'.tx = p.tx /\ p'.txKind = p.txKind /\ p'.mid = p.mid
        /\ p'.retry = p.retry /\ p'.air = p.air
    BY DEF Stands
  <1>2. GoodCRCDue' <=> GoodCRCDue
    BY SpentAfter DEF GoodCRCDue
  <1>3. Unanswered' <=> Unanswered
    BY <1>1, <1>2 DEF Unanswered, AwaitsPhy
  <1>4. CrcDue' => CrcDue
    BY SpentAfter DEF CrcDue
  <1>5. phy' # "MSG_TX_DISCARDED" /\ p.retry \in Nat
    BY SpentAfter DEF WorkerRan, NONE
  <1> QED
    BY <1>1, <1>3, <1>4, <1>5 DEF Spent

LEMMA WaitsCounts ==
  ASSUME LinkInv, CountInv, WorkerRan, Stands(p, p'),
         p'.tim[0] = "CRC_RECEIVE" => p.tim[0] = "CRC_RECEIVE" \/ phy = "MSG_TX_COMPLETED",
         ~(phy = "MSG_RX_COMPLETE" /\ p.rxMsg.kind = "GoodCRC")
  PROVE  SeenAgrees'
  BY WaitsSpends, StandsCounts DEF Stands

\* There was no message, so what the source took last is another one.
LEMMA FreshCounts ==
  ASSUME LinkInv, CountInv, WorkerRan, Fresh(p, p'), src.seen # NoMID
  PROVE  SeenAgrees'
  <1>1. ~AwaitsPhy(p) /\ p'.mid = p.mid /\ p'.retry = 0 /\ p'.tim[0] # "CRC_RECEIVE"
    BY DEF Fresh
  <1>2. CASE Resetting'
    <2>1. AwaitsPhy(p') => p'.txKind = "Soft_Reset"
      BY <1>2, ResettingStays DEF Resetting, Restarts
    <2> QED
      BY <1>2, <2>1 DEF SeenAgrees
  <1>3. CASE ~Resetting'
    <2>1. ~Resetting
      BY <1>1, <1>3, ResettingStays
    <2>2. src.seen # p.mid /\ NRetry * Lag + Spent <= NRetry + losses
      BY <1>1, <2>1 DEF CountInv, SeenAgrees
    <2>3. Spent' = 0
      BY <1>1, SpentAfter
    <2>4. NRetry * Lag' + Spent' <= NRetry + losses'
      <3> DEFINE n == NRetry * Lag
      <3>1. /\ Lag \in Nat /\ Spent \in Nat /\ losses \in Nat /\ NRetry \in Nat
        BY CountFacts
      <3>2. n \in Nat
        BY <3>1
      <3>3. NRetry * Lag' = n /\ losses' = losses
        BY <1>1 DEF Lag, WorkerRan
      <3>4. n + Spent <= NRetry + losses
        BY <2>2
      <3> HIDE DEF n
      <3> QED
        BY <2>3, <3>1, <3>2, <3>3, <3>4
    <2>5. src'.seen # p'.mid
      BY <1>1, <2>2 DEF WorkerRan
    <2> QED
      BY <2>4, <2>5 DEF SeenAgrees
  <1> QED
    BY <1>2, <1>3


\* The counter moves on: the GoodCRC has come, or NRetry losses have been too many.
LEMMA AdvancesCounts ==
  ASSUME LinkInv, CountInv, WorkerRan, Advances(p, p'), src.seen # NoMID,
         MaxLosses < NRetry * MidMax,
         \/ phy = "MSG_RX_COMPLETE" /\ p.rxMsg.kind = "GoodCRC"
         \/ /\ p.tx = "WAIT_FOR_PHY_RESPONSE" /\ p.snk # "SEND_SOFT_RESET"
            /\ p.retry = NRetry
            /\ tim = "CRC_RECEIVE" \/ phy = "MSG_TX_DISCARDED"
  PROVE  SeenAgrees'
  <1>1. /\ p'.mid = Successor(p.mid) /\ p'.retry = 0 /\ p'.tim[0] # "CRC_RECEIVE"
        /\ ~AwaitsPhy(p')
    BY DEF Advances, AwaitsPhy
  <1>2. /\ src.seen \in MessageIDs /\ p.mid \in MessageIDs /\ NRetry \in Nat
        /\ MidMax \in Nat \ {0} /\ MaxLosses \in Nat
        /\ Lag \in Nat /\ Spent \in Nat /\ losses \in Nat /\ losses <= MaxLosses
    <2>1. losses \in 0 .. MaxLosses
      BY DEF CountInv
    <2> QED
      BY <2>1, CountFacts
  <1>3. Spent' = 0 /\ losses' = losses /\ src'.seen = src.seen
    BY <1>1, SpentAfter DEF WorkerRan
  <1>4. /\ p'.mid \in MessageIDs
        /\ src.seen = p.mid => p'.mid # src.seen /\ Lag' = 1
        /\ src.seen # p.mid /\ src.seen # p'.mid => Lag' = Lag + 1
        /\ src.seen # p.mid /\ src.seen = p'.mid => Lag = MidMax
    BY <1>1, <1>2, <1>3, BehindNext DEF Lag
  <1>5. SUFFICES ASSUME ~Resetting'
                 PROVE  src.seen # p'.mid /\ NRetry * Lag' <= NRetry + losses
    <2>1. src.seen # p'.mid /\ NRetry * Lag' <= NRetry + losses =>
             NRetry * Lag' + Spent' <= NRetry + losses'
      <3>1. src.seen # p'.mid => Lag' \in Nat
        BY <1>2, <1>4
      <3> DEFINE n == NRetry * Lag'
      <3>2. src.seen # p'.mid => n \in Nat
        BY <1>2, <3>1
      <3> HIDE DEF n
      <3>3. src.seen # p'.mid /\ n <= NRetry + losses => n + Spent' <= NRetry + losses'
        BY <1>2, <1>3, <3>2
      <3> QED
        BY <3>3 DEF n
    <2> QED
      BY <1>1, <1>3, <1>5, <2>1 DEF SeenAgrees
  <1>6. CASE src.seen = p.mid
    <2>1. NRetry * Lag' = NRetry
      BY <1>2, <1>4, <1>6
    <2> QED
      BY <1>2, <1>4, <1>6, <2>1
  <1>7. CASE src.seen # p.mid
    <2>1. ~(phy = "MSG_RX_COMPLETE" /\ p.rxMsg.kind = "GoodCRC")
      BY <1>7 DEF CountInv, IDsAgree
    <2>2. /\ p.snk # "SEND_SOFT_RESET" /\ p.retry = NRetry
          /\ tim = "CRC_RECEIVE" \/ phy = "MSG_TX_DISCARDED"
      BY <2>1
    <2>3. ~Resetting
      <3>1. ~Restarts(p)
        BY <2>2, ResettingStays
      <3> QED
        BY <1>5, <3>1, ResettingStays
    <2>4. Spent >= NRetry
      <3>1. CASE tim = "CRC_RECEIVE"
        BY <1>2, <2>2, <3>1 DEF Spent, CrcDue
      <3>2. CASE phy = "MSG_TX_DISCARDED"
        BY <1>2, <2>2, <3>2 DEF Spent
      <3> QED
        BY <2>2, <3>1, <3>2
    <2> DEFINE n == NRetry * Lag
    <2>5. n \in Nat /\ n + Spent <= NRetry + losses
      BY <1>2, <1>7, <2>3 DEF CountInv, SeenAgrees
    <2>6. n <= losses
      <3> HIDE DEF n
      <3> QED
        BY <1>2, <2>4, <2>5
    <2>7. src.seen # p'.mid
      <3>1. SUFFICES ASSUME src.seen = p'.mid PROVE FALSE
        OBVIOUS
      <3>2. n = NRetry * MidMax
        BY <1>4, <1>7, <3>1
      <3> DEFINE bound == NRetry * MidMax
      <3>3. bound \in Nat /\ MaxLosses < bound /\ n = bound
        BY <1>2, <3>2
      <3> HIDE DEF n, bound
      <3> QED
        BY <1>2, <2>5, <2>6, <3>3
    <2>8. NRetry * Lag' = n + NRetry
      BY <1>2, <1>4, <1>7, <2>7
    <2> HIDE DEF n
    <2>9. NRetry * Lag' <= NRetry + losses
      BY <1>2, <2>5, <2>6, <2>8
    <2> QED
      BY <2>7, <2>9
  <1> QED
    BY <1>6, <1>7

LEMMA SourceKept ==
  ASSUME LinkInv, Worker
  PROVE  /\ src'.seen = src.seen /\ src'.heard = src.heard /\ src'.owes = src.owes
         /\ src'.out = src.out /\ src'.turn = src.turn /\ src'.next = src.next
         /\ src'.mistaken = src.mistaken
  <1>1. \/ src' = src
        \/ \E got : src' = [src EXCEPT !.got = got]
    <2> DEFINE q == Handling(NoUserCode)
               got == IF src.got < 2 THEN src.got + 1 ELSE src.got
    <2> HIDE DEF q, got
    <2>1. src' = IF q.passedUp THEN [src EXCEPT !.got = got] ELSE src
      BY LinkFacts DEF Worker, Handled, q, got, SourceFields
    <2> QED
      BY <2>1
  <1>2. CASE src' = src
    BY <1>2
  <1>3. ASSUME NEW got, src' = [src EXCEPT !.got = got]
        PROVE  /\ src'.seen = src.seen /\ src'.heard = src.heard /\ src'.owes = src.owes
               /\ src'.out = src.out /\ src'.turn = src.turn /\ src'.next = src.next
               /\ src'.mistaken = src.mistaken
    BY <1>3, LinkFacts DEF SourceFields
  <1> QED
    BY <1>1, <1>2, <1>3

LEMMA WorkerCounts ==
  ASSUME LinkInv, CountInv, SInv', LinkInv', Worker, MaxLosses < NRetry * MidMax
  PROVE  CountInv'
  <1>1. /\ phy' = NONE /\ tim' = NONE /\ wire' = wire /\ losses' = losses
    BY DEF Worker, SlotsTaken
  <1>2. /\ src'.seen = src.seen /\ src'.heard = src.heard /\ src'.owes = src.owes
        /\ src'.out = src.out /\ src'.turn = src.turn /\ src'.next = src.next
    BY SourceKept
  <1>3. /\ Steady(p') /\ p'.rxMsg = p.rxMsg
        /\ \/ /\ p'.cad = "ATTACHED"
              /\ src.owes # NoMID \/ wire.kind = "GoodCRC" => Stands(p, p')
              /\ Counted(p, phy) =>
                   /\ Tally(p')
                   /\ phy \notin HardResets => Proceeds(p, phy, tim, p')
           \/ /\ p'.cad = "UNATTACHED"
              /\ p.cad = "UNATTACHED" \/ pwr = "VBUS_REMOVED"
              /\ Tally(p) => Tally(p')
    BY WorkerCases
  <1>4. Port(p') /\ p'.mid \in MessageIDs
    BY DEF SInv, AtRest, Settled, Port
  <1>5. Counted(p, phy) /\ Tally(p)
    BY DEF CountInv, IDsAgree, Counted
  <1>6. p'.cad = "UNATTACHED" => src.seen = NoMID
    BY <1>3 DEF LinkInv, WireAgrees, CountInv, ResetAgrees
  <1>7. Tally(p')
    BY <1>3, <1>5
  <1>8. src.owes # NoMID \/ wire.kind = "GoodCRC" => p'.mid = p.mid
    <2>1. CASE p'.cad = "UNATTACHED"
      BY <1>1, <1>2, <2>1 DEF LinkInv, Detached, NoMessage, NONE
    <2>2. CASE p'.cad # "UNATTACHED"
      BY <1>3, <2>2 DEF Stands
    <2> QED
      BY <2>1, <2>2
  <1>9. IDsAgree'
    BY <1>1, <1>2, <1>8 DEF CountInv, IDsAgree, NONE
  <1>10. ResetAgrees'
    BY <1>1, <1>2, <1>6 DEF CountInv, ResetAgrees, HardResets, NONE
  <1>11. SlotAgrees'
    BY <1>1 DEF SlotAgrees, NONE
  <1>12. SeenAgrees'
    <2>1. CASE src.seen = NoMID
      BY <1>2, <1>4, <2>1, NoMIDIsNone DEF SeenAgrees
    <2>2. CASE src.seen # NoMID
      <3>1. Proceeds(p, phy, tim, p')
        <4>1. phy \notin HardResets
          BY <2>2 DEF CountInv, ResetAgrees
        <4> QED
          BY <1>3, <1>5, <1>6, <2>2, <4>1
      <3>2. WorkerRan
        BY <1>1, <1>2, <1>3, <1>4, <3>1 DEF WorkerRan
      <3>3. ~(phy = "MSG_RX_COMPLETE" /\ p.rxMsg.kind = "Soft_Reset")
        BY <2>2 DEF CountInv, IDsAgree, ResetAgrees
      <3>4. CASE p'.snk = "HARD_RESET" \/ Restarts(p')
        <4>1. Resetting' /\ (AwaitsPhy(p') => p'.txKind = "Soft_Reset")
          BY <3>2, <3>4, ResettingStays DEF Resetting, Restarts
        <4> QED
          BY <4>1 DEF SeenAgrees
      <3>5. CASE /\ Stands(p, p')
                 /\ p'.tim[0] = "CRC_RECEIVE" =>
                      p.tim[0] = "CRC_RECEIVE" \/ phy = "MSG_TX_COMPLETED"
                 /\ ~(phy = "MSG_RX_COMPLETE" /\ p.rxMsg.kind = "GoodCRC")
        BY <3>2, <3>5, WaitsCounts
      <3>6. CASE Repeats(p, p') /\ (tim = "CRC_RECEIVE" \/ phy = "MSG_TX_DISCARDED")
        BY <3>2, <3>6, RepeatsCounts
      <3>7. CASE /\ Advances(p, p')
                 /\ \/ phy = "MSG_RX_COMPLETE" /\ p.rxMsg.kind = "GoodCRC"
                    \/ /\ p.tx = "WAIT_FOR_PHY_RESPONSE" /\ p.snk # "SEND_SOFT_RESET"
                       /\ p.retry = NRetry
                       /\ tim = "CRC_RECEIVE" \/ phy = "MSG_TX_DISCARDED"
        BY <2>2, <3>2, <3>7, AdvancesCounts
      <3>8. CASE Fresh(p, p')
        BY <2>2, <3>2, <3>8, FreshCounts
      <3>9. Moves(p, phy, tim, p')
        BY <3>1 DEF Proceeds
      <3> QED
        BY <3>3, <3>4, <3>5, <3>6, <3>7, <3>8, <3>9 DEF Moves
    <2> QED
      BY <2>1, <2>2
  <1> QED
    BY <1>1, <1>7, <1>9, <1>10, <1>11, <1>12 DEF CountInv

-----------------------------------------------------------------------------
LEMMA InitCounts == Init => CountInv /\ NotMistaken
  <1> SUFFICES ASSUME Init PROVE CountInv /\ NotMistaken
    OBVIOUS
  <1>1. /\ p = Attach /\ phy = NONE /\ tim = NONE /\ wire = NoMessage
        /\ losses = 0 /\ src = NewSource
    BY DEF Init
  <1>2. /\ src.turn = "CAPS" /\ src.next = "CAPS" /\ src.owes = NoMID /\ src.seen = NoMID
        /\ src.out = NoMessage /\ src.mistaken = FALSE
    BY <1>1 DEF NewSource
  <1>3. Tally(p) /\ p.mid \in MessageIDs
    <2>1. p.mid \in MessageIDs
      BY InitSInv DEF SInv, AtRest, Settled, Port
    <2> QED
      BY <1>1, <2>1, AttachLinks
  <1>4. IDsAgree
    BY <1>1, <1>2 DEF IDsAgree, NoMessage, NONE
  <1>5. ResetAgrees
    BY <1>2 DEF ResetAgrees
  <1>6. SlotAgrees
    BY <1>1 DEF SlotAgrees, NONE
  <1>7. SeenAgrees
    BY <1>2, <1>3, NoMIDIsNone DEF SeenAgrees
  <1>8. losses \in 0 .. MaxLosses
    BY <1>1, StackAssumption
  <1> QED
    BY <1>2, <1>3, <1>4, <1>5, <1>6, <1>7, <1>8 DEF CountInv, NotMistaken

\* Only a message that it takes makes the source mistaken.
LEMMA MistakenKept ==
  ASSUME LinkInv, CountInv, NotMistaken, Next
  PROVE  NotMistaken'
  <1>1. CASE Transmitted
    BY <1>1, TransmittedCounts
  <1>2. CASE Worker
    BY <1>2, SourceKept DEF NotMistaken
  <1>3. CASE SourceGoodCRC \/ SourceRetries \/ VbusReturns
    BY <1>3, LinkFacts DEF SourceGoodCRC, SourceRetries, VbusReturns, NotMistaken, SourceFields
  <1>4. CASE SourceSpeaks
    <2> DEFINE M(say) == [kind |-> say[1],
                          id |-> IF say[1] = "Soft_Reset" THEN 0 ELSE src.id,
                          chunk |-> IF src.turn = "CHUNK" THEN 1 ELSE 0]
               Seen(say) == IF say[1] = "Soft_Reset" THEN NoMID ELSE src.seen
    <2>1. PICK say \in Says(src) :
            src' = [src EXCEPT !.out = M(say), !.id = M(say).id, !.next = say[2],
                               !.tries = 0, !.got = 0, !.acked = FALSE,
                               !.seen = IF say[1] = "Soft_Reset" THEN NoMID ELSE @]
      BY <1>4 DEF SourceSpeaks
    <2>2. src' = [src EXCEPT !.out = M(say), !.id = M(say).id, !.next = say[2],
                             !.tries = 0, !.got = 0, !.acked = FALSE, !.seen = Seen(say)]
      BY <2>1, LinkFacts DEF SourceFields
    <2> HIDE DEF M, Seen
    <2> QED
      BY <2>2, LinkFacts DEF NotMistaken, SourceFields
  <1>5. CASE HardResetTransmitted \/ SourceHardReset \/ VbusRemoved
    BY <1>5 DEF HardResetTransmitted, SourceHardReset, VbusRemoved, NewSource, NotMistaken
  <1>6. CASE \/ Received \/ SinkTx \/ Reattach
             \/ \E c \in {0, 1} : UCPD_TIM_Expired(c)
             \/ \E request \in Requests : RequestAsync(request)
    BY <1>6 DEF Received, SinkTx, Reattach, UCPD_TIM_Expired, RequestAsync, NotMistaken
  <1> QED
    BY <1>1, <1>2, <1>3, <1>4, <1>5, <1>6 DEF Next

LEMMA NextCounts ==
  ASSUME OutsideEpr, MaxLosses < NRetry * MidMax
  PROVE  /\ LinkInv /\ CountInv /\ NotMistaken /\ [Next]_vars =>
              LinkInv' /\ CountInv' /\ NotMistaken'
  <1> SUFFICES ASSUME LinkInv, CountInv, NotMistaken, [Next]_vars
               PROVE  LinkInv' /\ CountInv' /\ NotMistaken'
    OBVIOUS
  <1>1. LinkInv'
    BY NextLink
  <1>2. SInv'
    BY <1>1 DEF LinkInv
  <1>3. CountInv'
    <2>1. CASE Worker
      BY <1>1, <1>2, <2>1, WorkerCounts
    <2>2. CASE SourceGoodCRC
      BY <2>2, GoodCRCCounts
    <2>3. CASE SourceSpeaks
      BY <2>3, SpeaksCounts
    <2>4. CASE SourceRetries
      BY <2>4, RetriesCounts
    <2>5. CASE Received
      BY <2>5, ReceivedCounts
    <2>6. CASE Transmitted
      BY <2>6, TransmittedCounts
    <2>7. CASE HardResetTransmitted \/ SourceHardReset
      BY <2>7, HardResetCounts
    <2>8. CASE SinkTx
      BY <2>8, SinkTxCounts
    <2>9. CASE VbusRemoved \/ VbusReturns
      BY <2>9, VbusCounts
    <2>10. CASE Reattach
      BY <1>2, <2>10, ReattachCounts
    <2>11. ASSUME NEW c \in {0, 1}, UCPD_TIM_Expired(c) PROVE CountInv'
      BY <2>11, ExpiredCounts DEF OutsideEpr
    <2>12. ASSUME NEW request \in Requests, RequestAsync(request) PROVE CountInv'
      BY <2>12, RequestCounts
    <2>13. CASE UNCHANGED vars
      BY <2>13 DEF vars, CountInv, IDsAgree, ResetAgrees, SlotAgrees, SeenAgrees, Spent,
                   Lag, Unanswered, CrcDue, GoodCRCDue, Resetting
    <2> QED
      BY <2>1, <2>2, <2>3, <2>4, <2>5, <2>6, <2>7, <2>8, <2>9, <2>10, <2>11, <2>12, <2>13
      DEF Next
  <1>4. NotMistaken'
    BY MistakenKept DEF vars, NotMistaken
  <1> QED
    BY <1>1, <1>3, <1>4

\* The source never takes a message of the port for a retransmission of another one, unless
\* NRetry * MidMax messages or more are lost: UCPD_PRL_IncrementMID gives every message a
\* MessageID of its own, also after one that was given up (UCPD_PRL_TX, CHECK_RETRY_COUNTER),
\* and the counter comes round to what the source remembers only after MidMax of those. (With
\* that many losses it can be: an attempt that the PHY discards is counted as well, so that
\* NRetry losses and a collision are enough for a message to be given up.)
THEOREM NeverMistaken ==
  ASSUME OutsideEpr, MaxLosses < NRetry * MidMax
  PROVE  Spec => []NotMistaken
  <1>1. Init => LinkInv /\ CountInv /\ NotMistaken
    BY InitLink, InitCounts
  <1>2. LinkInv /\ CountInv /\ NotMistaken /\ [Next]_vars =>
          LinkInv' /\ CountInv' /\ NotMistaken'
    BY NextCounts
  <1> QED
    BY <1>1, <1>2, PTL DEF Spec

\* The invariant behind it: both sides agree on the MessageIDs, the slots hold what the
\* port and the source have said, and every MessageID that the source is behind has cost
\* NRetry losses.
THEOREM CountsAgree ==
  ASSUME OutsideEpr, MaxLosses < NRetry * MidMax
  PROVE  Spec => []CountInv
  <1>1. Init => LinkInv /\ CountInv /\ NotMistaken
    BY InitLink, InitCounts
  <1>2. LinkInv /\ CountInv /\ NotMistaken /\ [Next]_vars =>
          LinkInv' /\ CountInv' /\ NotMistaken'
    BY NextCounts
  <1> QED
    BY <1>1, <1>2, PTL DEF Spec

-----------------------------------------------------------------------------
\* The keep-alive timer, step by step

LEMMA AttachSilent == Attach.air = NoMessage /\ Anew(NewPort, Attach)
  <1> DEFINE n == NewPort
             s == [n EXCEPT !.snk = "STARTUP", !.hrdOriginPE = FALSE, !.epr_mode = FALSE]
             d == [s EXCEPT !.snk = "DISCOVERY"]
             c == [d EXCEPT !.vS0_to_vS5 = FALSE]
  <1>1. /\ Tracks(n) /\ n.snk = "NONE" /\ ~n.hardResetActive /\ n.air = NoMessage
        /\ DOMAIN n = Fields
    BY DEF NewPort, Tracks, Fields
  <1> HIDE DEF n
  <1>2. /\ DOMAIN s = Fields /\ s.snk = "STARTUP" /\ s.air = NoMessage
        /\ DOMAIN d = Fields /\ d.snk = "DISCOVERY" /\ d.air = NoMessage
        /\ DOMAIN c = Fields /\ c.snk = "DISCOVERY" /\ c.air = NoMessage
    BY <1>1 DEF Fields
  <1>3. /\ Go(n, "STARTUP") = [n EXCEPT !.snk = "STARTUP"]
        /\ Go(s, "DISCOVERY") = d
        /\ Go(c, "WAIT_FOR_CAPABILITIES") = [c EXCEPT !.snk = "WAIT_FOR_CAPABILITIES"]
    BY <1>1, <1>2 DEF Go, UCPD_PE_SM_SNK_Exit
  <1>4. EnterStartup(n) \in {EnterWaitForCapabilities(c), d}
    BY <1>1, <1>3 DEF EnterStartup, EnterDiscovery, LeaveDiscovery, Fields
  <1> HIDE DEF c
  <1>5. EnterWaitForCapabilities(c).air = NoMessage
    BY <1>2, <1>3 DEF EnterWaitForCapabilities, UCPD_TIM_Start, Fields
  <1>6. Anew(n, EnterStartup(n))
    BY <1>1, StartsAnew
  <1> QED
    BY <1>2, <1>4, <1>5, <1>6 DEF Attach, n

LEMMA SpeakAlive ==
  ASSUME SInv, AliveInv, NEW m, Speak(m), WireFree, p.air.kind # "HardReset",
         tim' = tim
  PROVE  AliveInv'
  <1> DOMAIN p = Fields
    BY DEF SInv, AtRest, Settled, Port
  <1>1. CASE p.air = NoMessage
    BY <1>1 DEF Speak, WireFree, AliveInv, Origin, Apart, Lively, Fields
  <1>2. CASE p.air # NoMessage
    <2>1. /\ p' = [p EXCEPT !.txAllowed = FALSE, !.air = NoMessage]
          /\ phy = NONE /\ phy' = "MSG_TX_DISCARDED"
      BY <1>2 DEF Speak, PostPhy, WireFree
    <2>2. /\ p'.cad = p.cad /\ p'.snk = p.snk /\ p'.epr_mode = p.epr_mode /\ p'.tim = p.tim
          /\ p'.hrdOriginPE = p.hrdOriginPE /\ p'.hardResetActive = p.hardResetActive
          /\ p'.air = NoMessage
      BY <2>1 DEF Fields
    <2> QED
      BY <2>1, <2>2 DEF AliveInv, Origin, Apart, Lively, HardResets, NONE
  <1> QED
    BY <1>1, <1>2

LEMMA WireAlive ==
  ASSUME SInv, AliveInv,
         \/ SourceGoodCRC \/ SourceSpeaks \/ SourceRetries \/ Received \/ SinkTx
         \/ VbusRemoved \/ VbusReturns
  PROVE  AliveInv'
  <1> DOMAIN p = Fields
    BY DEF SInv, AtRest, Settled, Port
  <1>1. CASE SourceGoodCRC \/ SourceSpeaks \/ SourceRetries
    <2>1. PICK m : Speak(m)
      BY <1>1 DEF SourceGoodCRC, SourceSpeaks, SourceRetries
    <2>2. WireFree /\ tim' = tim
      BY <1>1 DEF SourceGoodCRC, SourceSpeaks, SourceRetries, GoodCRCMissed
    <2>3. p.air.kind # "HardReset"
      <3>1. NoMessage.kind # "HardReset"
        BY DEF NoMessage, NONE
      <3>2. p.air = NoMessage \/ p.air.kind # "HardReset"
        BY <1>1 DEF SourceGoodCRC, SourceSpeaks, SourceRetries, GoodCRCMissed
      <3> QED
        BY <3>1, <3>2
    <2> QED
      BY <2>1, <2>2, <2>3, SpeakAlive
  <1>2. CASE Received
    <2>1. /\ phy = NONE /\ phy' \in {NONE, "MSG_RX_COMPLETE"} /\ tim' = tim
          /\ \/ p' = [p EXCEPT !.txAllowed = TRUE]
             \/ p' = [p EXCEPT !.txAllowed = TRUE, !.rxMsg = wire]
      BY <1>2 DEF Received, PostPhy
    <2>2. /\ p'.cad = p.cad /\ p'.snk = p.snk /\ p'.epr_mode = p.epr_mode /\ p'.tim = p.tim
          /\ p'.hrdOriginPE = p.hrdOriginPE /\ p'.hardResetActive = p.hardResetActive
          /\ p'.air = p.air
      <3>1. CASE p' = [p EXCEPT !.txAllowed = TRUE]
        BY <3>1 DEF Fields
      <3>2. CASE p' = [p EXCEPT !.txAllowed = TRUE, !.rxMsg = wire]
        BY <3>2 DEF Fields
      <3> QED
        BY <2>1, <3>1, <3>2
    <2>3. /\ Origin(p) => Origin(p)'
          /\ Lively(p) => Lively(p)'
          /\ phy \notin HardResets /\ phy' # "MSG_TX_COMPLETED"
      BY <2>1, <2>2 DEF Origin, Apart, Lively, HardResets, NONE
    <2> QED
      BY <2>1, <2>2, <2>3 DEF AliveInv, HardResets, NONE
  <1>3. CASE SinkTx
    BY <1>3 DEF SinkTx, PostPhy, AliveInv, Origin, Apart, Lively, Fields, HardResets, NONE
  <1>4. CASE VbusRemoved \/ VbusReturns
    BY <1>4 DEF VbusRemoved, VbusReturns, AliveInv, Origin, Apart, Lively, Fields
  <1> QED
    BY <1>1, <1>2, <1>3, <1>4

LEMMA SendsAlive ==
  ASSUME SInv, AliveInv, Transmitted \/ HardResetTransmitted \/ SourceHardReset
  PROVE  AliveInv'
  <1> DOMAIN p = Fields
    BY DEF SInv, AtRest, Settled, Port
  <1>1. CASE Transmitted
    <2>1. /\ WireFree /\ p.air.kind \notin {NONE, "HardReset"} /\ tim' = tim
          /\ p' = [p EXCEPT !.txAllowed = TRUE, !.air = NoMessage]
          /\ phy' = "MSG_TX_COMPLETED"
      BY <1>1 DEF Transmitted, PostPhy
    <2> QED
      BY <2>1 DEF WireFree, AliveInv, Origin, Apart, Lively, Fields, HardResets, NoMessage, NONE
  <1>2. CASE HardResetTransmitted
    BY <1>2 DEF HardResetTransmitted, PostPhy, WireFree, AliveInv, Origin, Apart, Lively,
                Fields, HardResets, NONE
  <1>3. CASE SourceHardReset
    BY <1>3 DEF SourceHardReset, PostPhy, AliveInv, Origin, Apart, Lively, Fields,
                HardResets, NONE
  <1> QED
    BY <1>1, <1>2, <1>3

LEMMA ReattachAlive == ASSUME AliveInv, Reattach PROVE AliveInv'
  BY AttachSilent DEF Reattach, AliveInv, Anew, Origin, Apart, Lively

LEMMA ExpiredAlive ==
  ASSUME SInv, AliveInv, Pace # "RACE", NEW c \in {0, 1}, UCPD_TIM_Expired(c)
  PROVE  AliveInv'
  <1>1. /\ Quiet /\ tim = NONE /\ phy' = phy
        /\ tim' = UCPD_TIMERS_EVENTS(p.tim[c])
        /\ p' = [p EXCEPT !.tim = [p.tim EXCEPT ![c] = NONE]]
    BY DEF UCPD_TIM_Expired, MayExpire
  <1>2. DOMAIN p = Fields /\ p.tim \in TimType
    BY DEF SInv, AtRest, Settled, Port
  <1>3. /\ p'.cad = p.cad /\ p'.snk = p.snk /\ p'.epr_mode = p.epr_mode /\ p'.air = p.air
        /\ p'.hrdOriginPE = p.hrdOriginPE /\ p'.hardResetActive = p.hardResetActive
        /\ p'.tim = [p.tim EXCEPT ![c] = NONE]
    BY <1>1, <1>2 DEF Fields
  <1>4. Lively(p) => Lively(p)' \/ tim' = "SINK_EPR_KEEP_ALIVE"
    <2>1. CASE c = 0
      BY <1>2, <1>3, <2>1 DEF Lively, TimType
    <2>2. CASE c = 1
      BY <1>1, <1>2, <1>3, <2>2 DEF Lively, UCPD_TIMERS_EVENTS
    <2> QED
      BY <2>1, <2>2
  <1> QED
    BY <1>1, <1>3, <1>4 DEF Quiet, AliveInv, Origin, Apart, HardResets, NONE

LEMMA RequestAlive ==
  ASSUME SInv, AliveInv, NEW request, RequestAsync(request)
  PROVE  AliveInv'
  <1> DOMAIN p = Fields
    BY DEF SInv, AtRest, Settled, Port
  <1> QED
    BY DEF RequestAsync, AliveInv, Origin, Apart, Lively, Fields

LEMMA WorkerAlive ==
  ASSUME SInv, AliveInv, Undisturbed, Undisturbed', Worker
  PROVE  AliveInv'
  <1> DEFINE q == [p EXCEPT !.told = NoCall, !.user = NoUserCode]
             r == UCPD_PE_PRL_Handler(q, pwr, phy, tim)
  <1>1. /\ AtRest(q) /\ q.cad = p.cad /\ q.snk = p.snk /\ q.epr_mode = p.epr_mode
        /\ q.tim = p.tim /\ q.air = p.air /\ q.entering_epr = p.entering_epr
        /\ q.hrdOriginPE = p.hrdOriginPE /\ q.hardResetActive = p.hardResetActive
    BY DEF SInv, AtRest, Settled, Port, Fields, UserType
  <1>2. AtRest(r)
    BY HandlingRests DEF Handling, UserType
  <1>3. /\ p' = [r EXCEPT !.passedUp = FALSE, !.told = NoCall, !.user = NoUserCode]
        /\ phy' = NONE /\ tim' = NONE
    BY DEF Worker, SlotsTaken, Handled, Handling
  <1> HIDE DEF q
  <1>4. r.cad = "ATTACHED" => Alive(r)
    <2>1. q.cad = "ATTACHED" =>
            /\ Origin(q) /\ Entering(q)
            /\ Lively(q) \/ tim = "SINK_EPR_KEEP_ALIVE"
            /\ q.hardResetActive /\ ~q.hrdOriginPE => phy = "HRD_RECEIVED"
            /\ phy \notin {"HRD_SENT", "HRD_RECEIVED"} => Asked(q)
            /\ phy = "MSG_TX_COMPLETED" => tim = NONE /\ ~q.hrdOriginPE
      BY <1>1 DEF AliveInv, Undisturbed, Origin, Entering, Lively, Asked, Apart, HardResets,
                  NoMessage, NONE
    <2> QED
      BY <1>1, <2>1, HandlerAlive
  <1> HIDE DEF r
  <1>5. /\ p'.cad = r.cad /\ p'.snk = r.snk /\ p'.epr_mode = r.epr_mode /\ p'.rch = r.rch
        /\ p'.tim = r.tim /\ p'.air = r.air
        /\ p'.hrdOriginPE = r.hrdOriginPE /\ p'.hardResetActive = r.hardResetActive
    BY <1>2, <1>3 DEF AtRest, Settled, Port, Fields
  <1> QED
    BY <1>3, <1>4, <1>5 DEF Undisturbed, AliveInv, Alive, Origin, Lively, Asked, Acting,
                            Apart, NONE

LEMMA InitAlive == Init => AliveInv
  BY AttachSilent DEF Init, AliveInv, Anew, Origin, Apart, Lively, NONE

LEMMA NextAlive ==
  ASSUME Pace # "RACE"
  PROVE  SInv /\ AliveInv /\ Undisturbed /\ Undisturbed' /\ [Next]_vars => AliveInv'
  <1> SUFFICES ASSUME SInv, AliveInv, Undisturbed, Undisturbed', [Next]_vars
               PROVE  AliveInv'
    OBVIOUS
  <1>1. CASE Worker
    BY <1>1, WorkerAlive
  <1>2. CASE \/ SourceGoodCRC \/ SourceSpeaks \/ SourceRetries \/ Received \/ SinkTx
             \/ VbusRemoved \/ VbusReturns
    BY <1>2, WireAlive
  <1>3. CASE Transmitted \/ HardResetTransmitted \/ SourceHardReset
    BY <1>3, SendsAlive
  <1>4. CASE Reattach
    BY <1>4, ReattachAlive
  <1>5. ASSUME NEW c \in {0, 1}, UCPD_TIM_Expired(c) PROVE AliveInv'
    BY <1>5, ExpiredAlive
  <1>6. ASSUME NEW request \in Requests, RequestAsync(request) PROVE AliveInv'
    BY <1>6, RequestAlive
  <1>7. CASE UNCHANGED vars
    BY <1>7 DEF vars, AliveInv, Origin, Apart, Lively
  <1> QED
    BY <1>1, <1>2, <1>3, <1>4, <1>5, <1>6, <1>7 DEF Next

\* In EPR mode the keep-alive timer runs whenever the port is in READY, or has just expired:
\* UCPD_TIM_Start hands a channel over without a word, but none of the timers that share
\* channel 1 is started there, whatever is lost, collides or is reset, as long as the port
\* is undisturbed (see Undisturbed for the two ways in which losses end that). A source
\* whose answers race the timers is left out: a timer that expires while a message leaves
\* is handled together with its completion.
THEOREM KeepAliveRuns ==
  ASSUME Pace # "RACE"
  PROVE  Spec /\ []Undisturbed => []KeepAliveGuarded
  <1>1. Init => SInv /\ AliveInv
    BY InitSInv, InitAlive
  <1>2. /\ SInv /\ AliveInv /\ Undisturbed /\ Undisturbed' /\ [Next]_vars =>
             SInv' /\ AliveInv'
    BY NextSInv, NextAlive
  <1>3. AliveInv => KeepAliveGuarded
    BY DEF AliveInv, KeepAliveGuarded, Lively, NONE
  <1> QED
    BY <1>1, <1>2, <1>3, PTL DEF Spec

-----------------------------------------------------------------------------
\* The application of UcpdApi

\* The thread is in a call that it may make.
ThreadOK == thread.pc # "IDLE" => thread.call \in ApiCalls

AInv == SInv /\ ThreadOK

LEMMA InitAInv == ApiInit => AInv
  BY InitSInv DEF ApiInit, AInv, ThreadOK, Idle

LEMMA NextAInv == AInv /\ [ApiNext]_apiVars => AInv'
  <1> SUFFICES ASSUME AInv, [ApiNext]_apiVars PROVE AInv'
    OBVIOUS
  <1> USE DEF AInv
  <1>1. CASE ApiWorker
    <2>1. PICK user \in UserCodes : Handled(Handling(user))
      BY <1>1 DEF ApiWorker
    <2>2. user \in UserType
      BY ApiAssumption DEF UserCodes, UserType
    <2>3. AtRest(p')
      BY <2>1, <2>2, HandlingRests, HandledRests
    <2> QED
      BY <1>1, <2>3 DEF ApiWorker, SlotsTaken, SInv, ThreadOK
  <1>2. ASSUME NEW call \in ThreadCalls, Call(call) PROVE AInv'
    BY <1>2, ApiAssumption DEF Call, ThreadOnly, SInv, ThreadOK
  <1>3. CASE SetEvent
    <2>1. thread.call \in ApiCalls
      BY <1>3 DEF SetEvent, ThreadRuns, ThreadOK
    <2>2. RequestOf(thread.call) \in RequestType
      BY <2>1 DEF ApiCalls, SpinningCalls, RequestOf, RequestType
    <2>3. SInv'
      BY <1>3, <2>2 DEF SetEvent, ThreadOnly, SInv, AtRest, Settled, Port, Fields
    <2>4. ThreadOK'
      BY <1>3, <2>1 DEF SetEvent, ThreadOK
    <2> QED
      BY <2>3, <2>4
  <1>4. CASE SetCallback
    <2>1. SInv'
      BY <1>4 DEF SetCallback, ThreadOnly, SInv, AtRest, Settled, Port, Fields
    <2>2. ThreadOK'
      BY <1>4 DEF SetCallback, ThreadRuns, ThreadOK, Idle
    <2> QED
      BY <2>1, <2>2
  <1>5. CASE Returns
    BY <1>5 DEF Returns, ThreadOnly, SInv, ThreadOK, Idle
  <1>6. CASE Environment
    BY <1>6, EnvironmentSInv DEF Environment, ThreadOK
  <1>7. CASE UNCHANGED apiVars
    BY <1>7 DEF apiVars, vars, SInv, ThreadOK
  <1> QED
    BY <1>1, <1>2, <1>3, <1>4, <1>5, <1>6, <1>7 DEF ApiNext

\* A call made inside the worker is refused or returns: it never waits there for
\* something that only the worker could do (NoSpinInHandler).
THEOREM NoSpin == ApiSpec => []NoSpinInHandler
  <1>1. ApiSpec => []AInv
    BY InitAInv, NextAInv, PTL DEF ApiSpec
  <1>2. AInv => NoSpinInHandler
    BY DEF AInv, SInv, AtRest, Settled, Port, NoSpinInHandler
  <1> QED
    BY <1>1, <1>2, PTL

\* The wire, the timers and VBUS leave a request alone, and a port that is attached again
\* starts without one.
LEMMA EnvironmentKeeps ==
  ASSUME AInv, Environment
  PROVE  p'.dpm_event = p.dpm_event \/ p'.cad # p.cad
  <1> DOMAIN p = Fields
    BY DEF AInv, SInv, AtRest, Settled, Port
  <1>1. ASSUME NEW m, Speak(m) PROVE p'.dpm_event = p.dpm_event
    BY <1>1 DEF Speak, Fields
  <1>2. CASE SourceGoodCRC \/ SourceSpeaks \/ SourceRetries
    BY <1>1, <1>2 DEF SourceGoodCRC, SourceSpeaks, SourceRetries
  <1>3. CASE Received \/ Transmitted \/ HardResetTransmitted
    BY <1>3 DEF Received, Transmitted, HardResetTransmitted, Fields
  <1>4. CASE SourceHardReset \/ SinkTx \/ VbusRemoved \/ VbusReturns
    BY <1>4 DEF SourceHardReset, SinkTx, VbusRemoved, VbusReturns, Fields
  <1>5. CASE Reattach
    BY <1>5, AttachRests DEF Reattach
  <1>6. CASE \E c \in {0, 1} : UCPD_TIM_Expired(c)
    BY <1>6 DEF UCPD_TIM_Expired, Fields
  <1> QED
    BY <1>2, <1>3, <1>4, <1>5, <1>6 DEF Environment

LEMMA NextKeeps == AInv /\ [ApiNext]_apiVars => KeptRequest
  <1> SUFFICES ASSUME AInv, [ApiNext]_apiVars,
                      p.dpm_event # NONE, p'.dpm_event # p.dpm_event
               PROVE  \/ p'.snk = Serving(p.dpm_event)
                      \/ p'.cad # p.cad
                      \/ thread.pc = "ACCEPTED"
                      \/ Blocked(p')
    BY DEF KeptRequest
  <1>1. CASE ApiWorker
    <2>1. PICK user \in UserCodes : Handled(Handling(user))
      BY <1>1 DEF ApiWorker
    <2>2. user \in UserType
      BY ApiAssumption DEF UserCodes, UserType
    <2> DEFINE q == Handling(user)
    <2>3. AtRest(q) /\ Kept(p, q)
      BY <2>2, HandlingRests DEF AInv
    <2>4. Handled(q)
      BY <2>1
    <2> HIDE DEF q
    <2>5. /\ p'.dpm_event = q.dpm_event
          /\ p'.snk = q.snk
          /\ p'.cad = q.cad
          /\ p'.extended = q.extended
      BY <2>3, <2>4 DEF Handled, AtRest, Settled, Port, Fields
    <2> QED
      BY <2>3, <2>5 DEF Kept, Blocked
  <1>2. ASSUME NEW call \in ThreadCalls, Call(call) PROVE FALSE
    BY <1>2 DEF Call
  <1>3. CASE SetEvent
    BY <1>3 DEF SetEvent, ThreadRuns
  <1>4. CASE SetCallback
    BY <1>4 DEF SetCallback, AInv, SInv, AtRest, Settled, Port, Fields
  <1>5. CASE Returns \/ UNCHANGED apiVars
    BY <1>5 DEF Returns, apiVars, vars
  <1>6. CASE Environment
    BY <1>6, EnvironmentKeeps
  <1> QED
    BY <1>1, <1>2, <1>3, <1>4, <1>5, <1>6 DEF ApiNext

\* A request of the application that waits for READY is carried out or ends with the
\* connection, whatever the code of the application calls and the wire brings; the two
\* exceptions are those of KeptRequest (the last lines of UCPD_PE_PRL_Handler).
THEOREM RequestsKept == ApiSpec => RequestKept
  <1>1. ApiSpec => []AInv
    BY InitAInv, NextAInv, PTL DEF ApiSpec
  <1>2. AInv /\ [ApiNext]_apiVars => [KeptRequest]_apiVars
    BY NextKeeps
  <1> QED
    BY <1>1, <1>2, PTL DEF ApiSpec, RequestKept
=============================================================================
