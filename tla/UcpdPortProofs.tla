--------------------------- MODULE UcpdPortProofs ---------------------------
(***************************************************************************)
(* What every entry of the policy engine and the protocol layer keeps of   *)
(* the port, for all values of the constants and whatever the              *)
(* application's code calls: the ranges of the counters, the timers and    *)
(* the states.  The state machines go through states that wait for         *)
(* nothing, and the handler ends in one that waits.  In EPR mode it leaves *)
(* the keep-alive timer running in READY.                                  *)
(***************************************************************************)
EXTENDS UcpdProtocol, TLAPS

\* States of the policy engine that are left in the run that enters them
PassingStates ==
  {"STARTUP", "EVALUATE_CAPABILITY", "TRANSITION_TO_DEFAULT",
   "NOT_SUPPORTED_RECEIVED", "EPR_MODE_EXIT_RECEIVED", NONE}

\* States of the chunked receiver and transmitter that wait for an event
RchWaiting == {"WAIT_FOR_MESSAGE_FROM_PRL", "REQUESTING_CHUNK", "WAITING_CHUNK"}
TchWaiting == {"WAIT_FOR_MESSAGE_REQUEST_FROM_PE", "WAIT_FOR_TRANSMISSION_COMPLETE",
               "SENDING_CHUNKED_MESSAGE"}

SnkType == SnkStates \cup PassingStates
RxType == {"WAIT_FOR_PHY_MESSAGE", "SEND_GOODCRC"}
TxType == {"WAIT_FOR_MESSAGE_REQUEST", "SNK_START_OF_AMS", "SNK_PENDING",
           "WAIT_FOR_PHY_RESPONSE"}
RetryType == 0 .. NRetry
RequestType == {"EPR_MODE_ENTRY", "EPR_MODE_EXIT", "TRIGGER_POLICY", "HARD_RESET", NONE}
UserType == {NoUserCode} \cup [place : UserPlaces, call : ApiCalls]
TimType == {tim \in [{0, 1} -> Timers \cup {NONE}] :
              \A c \in {0, 1} : tim[c] = NONE \/ UCPD_TIMER_CHANNEL(tim[c]) = c}

Fields ==
  {"cad", "snk", "rx", "tx", "rch", "tch", "mid", "retry", "storedMID", "passedUp",
   "txAllowed", "txKind", "txID", "air", "rxMsg", "extRx", "extended", "chunkExpected",
   "explicit_contract", "ams", "ams_first_sent", "epr_mode", "pps_contract",
   "response_expected", "entering_epr", "pps_periodic_expired", "hardResetActive",
   "hrdOriginPE", "dpm_event", "callback", "current_callback", "status",
   "sync_operation", "told", "user", "stuck", "sinkTxOk", "vS0_to_vS5", "tim"}

\* The fields that a handler goes by have values of their types; no call spins.
Port(p) ==
  /\ DOMAIN p = Fields
  /\ p.snk \in SnkType
  /\ p.rx \in RxType
  /\ p.tx \in TxType
  /\ p.mid \in MessageIDs
  /\ p.retry \in RetryType
  /\ p.dpm_event \in RequestType
  /\ p.user \in UserType
  /\ p.stuck = FALSE
  /\ p.tim \in TimType

\* From p to q: the types are kept, the chunk machines wait if they did, and a request
\* of the application that waits goes on waiting, in the same connection.
Keeps(p, q) ==
  /\ Port(q)
  /\ p.rch \in RchWaiting => q.rch \in RchWaiting
  /\ p.tch \in TchWaiting => q.tch \in TchWaiting
  /\ p.dpm_event # NONE => q.dpm_event = p.dpm_event
  /\ q.cad = p.cad

\* The policy engine stays where it is, or comes to a state that waits.
Stays(p, q) == Keeps(p, q) /\ q.snk = p.snk /\ q.extended = p.extended
Settles(p, q) == Keeps(p, q) /\ q.snk \in SnkStates

LEMMA Chains ==
  ASSUME NEW p, NEW q, NEW r
  PROVE  /\ Stays(p, q) => Keeps(p, q)
         /\ Settles(p, q) => Keeps(p, q)
         /\ Keeps(p, q) => Port(q)
         /\ Keeps(p, q) /\ Keeps(q, r) => Keeps(p, r)
         /\ Stays(p, q) /\ Stays(q, r) => Stays(p, r)
         /\ Keeps(p, q) /\ Settles(q, r) => Settles(p, r)
         /\ Settles(p, q) /\ Stays(q, r) => Settles(p, r)
         /\ p.snk \in SnkStates /\ Stays(p, q) => Settles(p, q)
  BY DEF Stays, Settles, Keeps

LEMMA Reflexive == ASSUME NEW p, Port(p) PROVE Stays(p, p)
  BY DEF Stays, Keeps

-----------------------------------------------------------------------------
\* Timers, counters

LEMMA TimerType ==
  /\ \A t \in Timers : UCPD_TIMER_CHANNEL(t) \in {0, 1}
  /\ \A tim \in TimType, c \in {0, 1}, t \in Timers \cup {NONE} :
       t = NONE \/ UCPD_TIMER_CHANNEL(t) = c => [tim EXCEPT ![c] = t] \in TimType
  /\ \A tim \in TimType, c \in {0, 1} :
       /\ tim[c] \in Timers \cup {NONE}
       /\ tim[c] = NONE \/ UCPD_TIMER_CHANNEL(tim[c]) = c
  /\ [c \in {0, 1} |-> NONE] \in TimType
  BY DEF UCPD_TIMER_CHANNEL, TimType

LEMMA WithTim ==
  ASSUME NEW p, Port(p), NEW tim \in TimType
  PROVE  Stays(p, [p EXCEPT !.tim = tim])
  BY DEF Port, Fields, Stays, Keeps

LEMMA StartStays ==
  ASSUME NEW p, Port(p), NEW t \in Timers
  PROVE  Stays(p, UCPD_TIM_Start(p, t))
  <1>1. UCPD_TIM_Start(p, t) = [p EXCEPT !.tim = [p.tim EXCEPT ![UCPD_TIMER_CHANNEL(t)] = t]]
    BY DEF UCPD_TIM_Start, Port, Fields
  <1>2. UCPD_TIMER_CHANNEL(t) \in {0, 1} /\ p.tim \in TimType
    BY TimerType DEF Port
  <1>3. [p.tim EXCEPT ![UCPD_TIMER_CHANNEL(t)] = t] \in TimType
    BY <1>2, TimerType
  <1> QED
    BY <1>1, <1>3, WithTim

LEMMA StopStays ==
  ASSUME NEW p, Port(p), NEW t \in Timers
  PROVE  Stays(p, UCPD_TIM_Stop(p, t))
  <1> DEFINE c == UCPD_TIMER_CHANNEL(t)
             owner == IF p.tim[c] = t THEN NONE ELSE p.tim[c]
  <1>1. UCPD_TIM_Stop(p, t) = [p EXCEPT !.tim = [p.tim EXCEPT ![c] = owner]]
    BY DEF UCPD_TIM_Stop, Port, Fields
  <1>2. c \in {0, 1} /\ p.tim \in TimType
    BY TimerType DEF Port
  <1>3. owner \in Timers \cup {NONE} /\ (owner = NONE \/ UCPD_TIMER_CHANNEL(owner) = c)
    BY <1>2, TimerType
  <1> HIDE DEF c, owner
  <1>4. [p.tim EXCEPT ![c] = owner] \in TimType
    BY <1>2, <1>3, TimerType
  <1> QED
    BY <1>1, <1>4, WithTim

LEMMA StopAllStays == ASSUME NEW p, Port(p) PROVE Stays(p, StopAllTimers(p))
  BY TimerType, WithTim DEF StopAllTimers

\* The timers by name
LEMMA TimerNames ==
  {"CHUNK_SENDER_RESPONSE", "SINK_PPS_PERIODIC", "SINK_EPR_ENTER", "SINK_EPR_KEEP_ALIVE",
   "CRC_RECEIVE", "HARD_RESET_COMPLETE", "PS_TRANSITION", "SENDER_RESPONSE",
   "SINK_WAIT_CAP", "SINK_EPR_TRANSITION"} \subseteq Timers
  BY DEF Timers, Channel0, Channel1

\* UCPD_CNT_Increment of MESSAGEID wraps in time.
LEMMA MidStays == ASSUME NEW p, Port(p) PROVE Stays(p, IncrementMID(p))
  <1>0. p.mid \in MessageIDs
    BY DEF Port
  <1>1. (IF p.mid + 1 > MidMax THEN 0 ELSE p.mid + 1) \in MessageIDs
    BY <1>0, PortAssumption DEF MessageIDs
  <1> QED
    BY <1>1 DEF IncrementMID, Port, Fields, Stays, Keeps

-----------------------------------------------------------------------------
\* The driver and the way down

LEMMA PhyStays ==
  ASSUME NEW p, Port(p)
  PROVE  /\ Stays(p, UCPD_PHY_SendMessage(p))
         /\ Stays(p, UCPD_PHY_SendHardReset(p))
         /\ Stays(p, UCPD_PHY_HRDRS_Completed(p))
  BY DEF UCPD_PHY_SendMessage, UCPD_PHY_SendHardReset, UCPD_PHY_HRDRS_Completed,
         Port, Fields, Stays, Keeps

LEMMA WaitsStay ==
  ASSUME NEW p, Port(p)
  PROVE  /\ Stays(p, TxWaitForMessageRequest(p))
         /\ Stays(p, RchWaitForMessage(p))
         /\ RchWaitForMessage(p).rch \in RchWaiting
         /\ RchWaitForMessage(p).tch = p.tch
         /\ Stays(p, TchWaitForRequest(p))
         /\ TchWaitForRequest(p).tch \in TchWaiting
         /\ TchWaitForRequest(p).rch = p.rch
  BY PortAssumption
     DEF TxWaitForMessageRequest, RchWaitForMessage, TchWaitForRequest,
         Port, Fields, Stays, Keeps, TxType, RetryType, RchWaiting, TchWaiting

LEMMA ConstructStays == ASSUME NEW p, Port(p) PROVE Stays(p, TxConstructMessage(p))
  BY DEF TxConstructMessage, UCPD_PHY_SendMessage, Port, Fields, Stays, Keeps, TxType

LEMMA RequestStays == ASSUME NEW p, Port(p) PROVE Stays(p, TxRequest(p))
  BY ConstructStays DEF TxRequest, TxPending, Port, Fields, Stays, Keeps, TxType

LEMMA DownStays ==
  ASSUME NEW p, Port(p)
  PROVE  Stays(p, PassDown(p)) /\ PassDown(p).tch \in TchWaiting
  <1> DEFINE q == [p EXCEPT !.tch = "SENDING_CHUNKED_MESSAGE", !.txKind = "KeepAlive"]
             r == [p EXCEPT !.tch = "WAIT_FOR_TRANSMISSION_COMPLETE"]
  <1>1. Stays(p, q) /\ q.tch \in TchWaiting
    BY DEF Port, Fields, Stays, Keeps, TchWaiting
  <1>2. Stays(p, r) /\ r.tch \in TchWaiting
    BY DEF Port, Fields, Stays, Keeps, TchWaiting
  <1>3. PassDown(p) = IF p.extended THEN TxRequest(q) ELSE TxRequest(r)
    BY DEF PassDown, TchSendChunk, TchPassDownMessage
  <1> HIDE DEF q, r
  <1>4. Stays(q, TxRequest(q)) /\ Stays(r, TxRequest(r))
    BY <1>1, <1>2, RequestStays DEF Stays, Keeps
  <1> QED
    BY <1>1, <1>2, <1>3, <1>4 DEF Stays, Keeps

LEMMA InitStays == ASSUME NEW p, Port(p) PROVE Stays(p, PrlInit(p))
  BY PortAssumption
     DEF PrlInit, TxWaitForMessageRequest, RchWaitForMessage, TchWaitForRequest,
         Port, Fields, Stays, Keeps, TxType, RxType, RetryType, MessageIDs,
         RchWaiting, TchWaiting

LEMMA ResetStays == ASSUME NEW p, Port(p) PROVE Stays(p, ResetLayers(p))
  <1>1. Stays(p, StopAllTimers(p))
    BY StopAllStays
  <1>2. Stays(StopAllTimers(p), PrlInit(StopAllTimers(p)))
    BY <1>1, InitStays DEF Stays, Keeps
  <1> QED
    BY <1>1, <1>2, Chains DEF ResetLayers

-----------------------------------------------------------------------------
\* The application's code

\* A call in the worker does not spin: Accepts has looked at sync_operation.
LEMMA UserCallStays ==
  ASSUME NEW p, Port(p), NEW call \in ApiCalls, NEW running \in BOOLEAN
  PROVE  Stays(p, UserCall(p, call, running))
  <1>1. RequestOf(call) \in RequestType
    BY DEF ApiCalls, SpinningCalls, RequestOf, RequestType
  <1>2. CASE ~Accepts(p, call, running)
    BY <1>2, Reflexive DEF UserCall
  <1>3. CASE Accepts(p, call, running)
    <2>1. ~(p.stuck \/ (call \in SpinningCalls /\ p.sync_operation))
      BY <1>3 DEF Accepts, Port
    <2>2. UserCall(p, call, running) =
            [p EXCEPT !.dpm_event = RequestOf(call), !.callback = CallbackOf(p, call),
                      !.stuck = FALSE]
      BY <1>3, <2>1 DEF UserCall, Port, Fields
    <2> QED
      BY <1>1, <1>3, <2>2 DEF Accepts, Port, Fields, Stays, Keeps
  <1> QED
    BY <1>2, <1>3

LEMMA UserCodeStays ==
  ASSUME NEW p, Port(p), NEW place \in UserPlaces
  PROVE  Stays(p, UserCode(p, place))
  <1> DEFINE q == [p EXCEPT !.user = NoUserCode]
  <1>1. Stays(p, q)
    BY DEF Port, Fields, Stays, Keeps, UserType
  <1>2. CASE p.user.place # place
    BY <1>2, Reflexive DEF UserCode
  <1>3. CASE p.user.place = place
    <2>1. p.user.call \in ApiCalls
      BY <1>3 DEF Port, UserType, NoUserCode, UserPlaces, NONE
    <2>2. UserCode(p, place) = UserCall(q, p.user.call, place = "POLICY")
      BY <1>3 DEF UserCode
    <2> HIDE DEF q
    <2>3. Stays(q, UserCall(q, p.user.call, place = "POLICY"))
      BY <1>1, <2>1, UserCallStays DEF Stays, Keeps
    <2> QED
      BY <1>1, <2>2, <2>3, Chains
  <1> QED
    BY <1>2, <1>3

LEMMA CallbackStays ==
  ASSUME NEW p, Port(p), NEW status
  PROVE  Stays(p, Callback(p, status)) /\ Stays(p, EndRequest(p, status))
  <1> DEFINE q == UserCode(p, "CALLBACK")
             c == Callback(p, status)
  <1>1. Stays(p, q)
    BY UserCodeStays DEF UserPlaces
  <1>2. c = IF p.current_callback = NONE THEN p
            ELSE [q EXCEPT !.current_callback = NONE,
                           !.told = [request |-> p.current_callback, status |-> status]]
    BY DEF Callback
  <1>3. EndRequest(p, status) = [c EXCEPT !.status = status, !.sync_operation = FALSE]
    BY DEF EndRequest
  <1> HIDE DEF q, c
  <1>4. Stays(p, c)
    BY <1>1, <1>2 DEF Port, Fields, Stays, Keeps
  <1>5. Stays(c, EndRequest(p, status))
    BY <1>3, <1>4 DEF Port, Fields, Stays, Keeps
  <1> QED
    BY <1>4, <1>5, Chains DEF c

-----------------------------------------------------------------------------
\* The policy engine

LEMMA ExitStays == ASSUME NEW p, Port(p) PROVE Stays(p, UCPD_PE_SM_SNK_Exit(p))
  <1>1. CASE p.snk = "EVALUATE_CAPABILITY"
    BY <1>1, StopStays, TimerNames DEF UCPD_PE_SM_SNK_Exit
  <1>2. CASE p.snk = "TRANSITION_SINK"
    <2> DEFINE q == UCPD_TIM_Stop(p, IF p.epr_mode THEN "SINK_EPR_TRANSITION"
                                     ELSE "PS_TRANSITION")
    <2>1. Stays(p, q)
      BY StopStays, TimerNames
    <2>2. UCPD_PE_SM_SNK_Exit(p) = UserCode(q, "POLICY")
      BY <1>2 DEF UCPD_PE_SM_SNK_Exit
    <2> HIDE DEF q
    <2> QED
      BY <2>1, <2>2, UserCodeStays, Chains DEF UserPlaces
  <1>3. CASE p.snk = "READY"
    <2> DEFINE q == UCPD_TIM_Stop(p, "SINK_PPS_PERIODIC")
    <2>1. Stays(p, q)
      BY StopStays, TimerNames
    <2>2. UCPD_PE_SM_SNK_Exit(p) =
            IF p.pps_contract THEN [q EXCEPT !.ams = TRUE, !.pps_contract = FALSE]
            ELSE [p EXCEPT !.ams = TRUE]
      BY <1>3 DEF UCPD_PE_SM_SNK_Exit
    <2> HIDE DEF q
    <2> QED
      BY <2>1, <2>2 DEF Port, Fields, Stays, Keeps
  <1>4. CASE p.snk = "TRANSITION_TO_DEFAULT"
    BY <1>4, PhyStays DEF UCPD_PE_SM_SNK_Exit
  <1>5. CASE p.snk = "EPR_MODE_ENTRY_WAIT_FOR_RESPONSE"
    <2> DEFINE q == [p EXCEPT !.epr_mode = TRUE]
               r == EndRequest(q, "SUCCESS")
    <2>1. Stays(p, q)
      BY DEF Port, Fields, Stays, Keeps
    <2>2. UCPD_PE_SM_SNK_Exit(p) = UCPD_TIM_Stop(r, "SINK_EPR_ENTER")
      BY <1>5 DEF UCPD_PE_SM_SNK_Exit
    <2> HIDE DEF q
    <2>3. Stays(q, r)
      BY <2>1, CallbackStays, Chains
    <2> HIDE DEF r
    <2>4. Stays(r, UCPD_TIM_Stop(r, "SINK_EPR_ENTER"))
      BY <2>3, StopStays, TimerNames, Chains
    <2> QED
      BY <2>1, <2>2, <2>3, <2>4, Chains
  <1>6. CASE p.snk = "SEND_EPR_MODE_EXIT"
    <2> DEFINE q == [p EXCEPT !.epr_mode = FALSE]
               r == EndRequest(q, "SUCCESS")
    <2>1. Stays(p, q)
      BY DEF Port, Fields, Stays, Keeps
    <2>2. UCPD_PE_SM_SNK_Exit(p) = UCPD_TIM_Stop(r, "SINK_EPR_KEEP_ALIVE")
      BY <1>6 DEF UCPD_PE_SM_SNK_Exit
    <2> HIDE DEF q
    <2>3. Stays(q, r)
      BY <2>1, CallbackStays, Chains
    <2> HIDE DEF r
    <2>4. Stays(r, UCPD_TIM_Stop(r, "SINK_EPR_KEEP_ALIVE"))
      BY <2>3, StopStays, TimerNames, Chains
    <2> QED
      BY <2>1, <2>2, <2>3, <2>4, Chains
  <1>7. CASE p.snk \notin {"EVALUATE_CAPABILITY", "TRANSITION_SINK", "READY",
                           "TRANSITION_TO_DEFAULT", "EPR_MODE_ENTRY_WAIT_FOR_RESPONSE",
                           "SEND_EPR_MODE_EXIT"}
    BY <1>7, Reflexive DEF UCPD_PE_SM_SNK_Exit
  <1> QED
    BY <1>1, <1>2, <1>3, <1>4, <1>5, <1>6, <1>7

LEMMA GoKeeps ==
  ASSUME NEW p, Port(p), NEW state \in SnkType
  PROVE  /\ Keeps(p, Go(p, state))
         /\ Go(p, state).snk = state
         /\ Go(p, state).extended = p.extended
  <1> DEFINE q == UCPD_PE_SM_SNK_Exit(p)
  <1>1. Stays(p, q)
    BY ExitStays
  <1>2. Go(p, state) = [q EXCEPT !.snk = state]
    BY DEF Go
  <1> HIDE DEF q
  <1> QED
    BY <1>1, <1>2 DEF Port, Fields, Stays, Keeps

LEMMA SnkNames ==
  /\ SnkStates \subseteq SnkType
  /\ PassingStates \subseteq SnkType
  /\ {"DISCOVERY", "WAIT_FOR_CAPABILITIES", "SELECT_CAPABILITY", "TRANSITION_SINK",
      "READY", "HARD_RESET", "SOFT_RESET", "SEND_SOFT_RESET", "SEND_NOT_SUPPORTED",
      "SEND_EPR_MODE_ENTRY", "EPR_MODE_ENTRY_WAIT_FOR_RESPONSE",
      "SEND_EPR_MODE_EXIT", "EPR_KEEP_ALIVE"} \subseteq SnkStates
  /\ {"STARTUP", "EVALUATE_CAPABILITY", "TRANSITION_TO_DEFAULT",
      "NOT_SUPPORTED_RECEIVED", "EPR_MODE_EXIT_RECEIVED"} \subseteq PassingStates
  BY DEF SnkType, SnkStates, PassingStates

\* A state that waits, and one that does not
LEMMA GoSettles ==
  ASSUME NEW p, Port(p), NEW state \in SnkStates
  PROVE  Settles(p, Go(p, state))
  BY GoKeeps, SnkNames DEF Settles

LEMMA GoPasses ==
  ASSUME NEW p, Port(p), NEW state \in PassingStates
  PROVE  Keeps(p, Go(p, state))
  BY GoKeeps, SnkNames

LEMMA EnterWaitSettles ==
  ASSUME NEW p, Port(p)
  PROVE  Settles(p, EnterWaitForCapabilities(p))
  <1> DEFINE g == Go(p, "WAIT_FOR_CAPABILITIES")
             q == [g EXCEPT !.explicit_contract = FALSE]
  <1>1. Settles(p, g)
    BY GoSettles, SnkNames
  <1>2. EnterWaitForCapabilities(p) = UCPD_TIM_Start(q, "SINK_WAIT_CAP")
    BY DEF EnterWaitForCapabilities
  <1> HIDE DEF g
  <1>3. Stays(g, q)
    BY <1>1 DEF Port, Fields, Settles, Stays, Keeps
  <1> HIDE DEF q
  <1>4. Stays(q, UCPD_TIM_Start(q, "SINK_WAIT_CAP"))
    BY <1>3, StartStays, TimerNames, Chains
  <1> QED
    BY <1>1, <1>2, <1>3, <1>4, Chains

LEMMA EnterDiscoverySettles == ASSUME NEW p, Port(p) PROVE Settles(p, EnterDiscovery(p))
  <1> DEFINE g == Go(p, "DISCOVERY")
             q == [g EXCEPT !.vS0_to_vS5 = FALSE]
  <1>1. Settles(p, g)
    BY GoSettles, SnkNames
  <1>2. EnterDiscovery(p) = IF g.vS0_to_vS5 THEN EnterWaitForCapabilities(q) ELSE g
    BY DEF EnterDiscovery, LeaveDiscovery
  <1> HIDE DEF g
  <1>3. Stays(g, q)
    BY <1>1 DEF Port, Fields, Settles, Stays, Keeps
  <1> HIDE DEF q
  <1>4. Settles(q, EnterWaitForCapabilities(q))
    BY <1>3, EnterWaitSettles, Chains
  <1> QED
    BY <1>1, <1>2, <1>3, <1>4, Chains

LEMMA EnterStartupSettles == ASSUME NEW p, Port(p) PROVE Settles(p, EnterStartup(p))
  <1> DEFINE g == Go(p, "STARTUP")
             q == [g EXCEPT !.hrdOriginPE = FALSE, !.epr_mode = FALSE]
  <1>1. Keeps(p, g)
    BY GoPasses, SnkNames
  <1>2. EnterStartup(p) = EnterDiscovery(q)
    BY DEF EnterStartup
  <1> HIDE DEF g
  <1>3. Stays(g, q)
    BY <1>1 DEF Port, Fields, Stays, Keeps
  <1> HIDE DEF q
  <1>4. Settles(q, EnterDiscovery(q))
    BY <1>3, EnterDiscoverySettles, Chains
  <1> QED
    BY <1>1, <1>2, <1>3, <1>4, Chains

LEMMA EnterDefaultSettles ==
  ASSUME NEW p, Port(p)
  PROVE  Settles(p, EnterTransitionToDefault(p))
  <1> DEFINE g == Go(p, "TRANSITION_TO_DEFAULT")
             a == StopKeepAlive(g)
             b == Callback(a, "SUCCESS")
             c == [b EXCEPT !.explicit_contract = FALSE, !.pps_contract = FALSE,
                            !.ams = FALSE, !.ams_first_sent = FALSE,
                            !.hrdOriginPE = FALSE, !.extended = FALSE,
                            !.sync_operation = FALSE]
             d == UserCode(c, "POLICY")
  <1>1. Keeps(p, g)
    BY GoPasses, SnkNames
  <1>2. EnterTransitionToDefault(p) = EnterStartup(d)
    BY DEF EnterTransitionToDefault
  <1> HIDE DEF g
  <1>3. Stays(g, a)
    BY <1>1, StopStays, TimerNames, Reflexive, Chains DEF StopKeepAlive
  <1> HIDE DEF a
  <1>4. Stays(a, b)
    BY <1>3, CallbackStays, Chains
  <1> HIDE DEF b
  <1>5. Keeps(b, c)
    BY <1>4 DEF Port, Fields, Stays, Keeps
  <1> HIDE DEF c
  <1>6. Stays(c, d)
    BY <1>5, UserCodeStays, Chains DEF UserPlaces
  <1> HIDE DEF d
  <1>7. Settles(d, EnterStartup(d))
    BY <1>6, EnterStartupSettles, Chains
  <1>8. Keeps(g, d)
    BY <1>3, <1>4, <1>5, <1>6, Chains
  <1> QED
    BY <1>1, <1>2, <1>7, <1>8, Chains

\* The end of a hard reset of the port, and the beginning of one of either side
LEMMA ResetSentSettles == ASSUME NEW p, Port(p) PROVE Settles(p, HardResetSent(p))
  <1> DEFINE a == UCPD_TIM_Stop(p, "HARD_RESET_COMPLETE")
             b == UCPD_PHY_HRDRS_Completed(a)
  <1>1. Stays(p, a)
    BY StopStays, TimerNames
  <1>2. HardResetSent(p) = EnterTransitionToDefault(b)
    BY DEF HardResetSent
  <1> HIDE DEF a
  <1>3. Stays(a, b)
    BY <1>1, PhyStays, Chains
  <1> HIDE DEF b
  <1>4. Settles(b, EnterTransitionToDefault(b))
    BY <1>3, EnterDefaultSettles, Chains
  <1> QED
    BY <1>1, <1>2, <1>3, <1>4, Chains

LEMMA ResetRequestStays == ASSUME NEW p, Port(p) PROVE Stays(p, RequestHardReset(p))
  <1> DEFINE a == ResetLayers(p)
             b == UCPD_PHY_SendHardReset(a)
  <1>1. Stays(p, a)
    BY ResetStays
  <1>2. RequestHardReset(p) = UCPD_TIM_Start(b, "HARD_RESET_COMPLETE")
    BY DEF RequestHardReset
  <1> HIDE DEF a
  <1>3. Stays(a, b)
    BY <1>1, PhyStays, Chains
  <1> HIDE DEF b
  <1>4. Stays(b, UCPD_TIM_Start(b, "HARD_RESET_COMPLETE"))
    BY <1>3, StartStays, TimerNames, Chains
  <1> QED
    BY <1>1, <1>2, <1>3, <1>4, Chains

LEMMA IndicateSettles == ASSUME NEW p, Port(p) PROVE Settles(p, IndicateHardReset(p))
  <1> DEFINE a == ResetLayers(p)
             b == UCPD_PHY_HRDRS_Completed(a)
             c == EndRequest(b, "CANCELLED")
  <1>1. Stays(p, a)
    BY ResetStays
  <1>2. IndicateHardReset(p) = EnterTransitionToDefault(c)
    BY DEF IndicateHardReset
  <1> HIDE DEF a
  <1>3. Stays(a, b)
    BY <1>1, PhyStays, Chains
  <1> HIDE DEF b
  <1>4. Stays(b, c)
    BY <1>3, CallbackStays, Chains
  <1> HIDE DEF c
  <1>5. Settles(c, EnterTransitionToDefault(c))
    BY <1>4, EnterDefaultSettles, Chains
  <1> QED
    BY <1>1, <1>2, <1>3, <1>4, <1>5, Chains

LEMMA EnterHardResetSettles ==
  ASSUME NEW p, Port(p)
  PROVE  Settles(p, EnterHardReset(p)) /\ EnterHardReset(p).snk = "HARD_RESET"
  <1> DEFINE g == Go(p, "HARD_RESET")
             q == [g EXCEPT !.hrdOriginPE = TRUE, !.hardResetActive = TRUE,
                            !.pps_contract = FALSE, !.ams = FALSE,
                            !.ams_first_sent = FALSE, !.epr_mode = FALSE]
  <1>1. Settles(p, g) /\ g.snk = "HARD_RESET"
    BY GoSettles, GoKeeps, SnkNames
  <1>2. EnterHardReset(p) = RequestHardReset(q)
    BY DEF EnterHardReset
  <1> HIDE DEF g
  <1>3. Stays(g, q)
    BY <1>1 DEF Port, Fields, Settles, Stays, Keeps
  <1> HIDE DEF q
  <1>4. Stays(q, RequestHardReset(q))
    BY <1>3, ResetRequestStays, Chains
  <1>5. Stays(g, RequestHardReset(q))
    BY <1>3, <1>4, Chains
  <1> QED
    BY <1>1, <1>2, <1>5, Chains DEF Stays

LEMMA EnterSendSoftResetSettles ==
  ASSUME NEW p, Port(p)
  PROVE  /\ Settles(p, EnterSendSoftReset(p))
         /\ EnterSendSoftReset(p).snk = "SEND_SOFT_RESET"
         /\ EnterSendSoftReset(p).extended = p.extended
  <1> DEFINE g == Go(p, "SEND_SOFT_RESET")
             a == PrlInit(g)
             b == [a EXCEPT !.txKind = "Soft_Reset"]
  <1>1. Settles(p, g) /\ g.snk = "SEND_SOFT_RESET" /\ g.extended = p.extended
    BY GoSettles, GoKeeps, SnkNames
  <1>2. EnterSendSoftReset(p) = PassDown(b)
    BY DEF EnterSendSoftReset
  <1> HIDE DEF g
  <1>3. Stays(g, a)
    BY <1>1, InitStays, Chains
  <1> HIDE DEF a
  <1>4. Stays(a, b)
    BY <1>3 DEF Port, Fields, Stays, Keeps
  <1> HIDE DEF b
  <1>5. Stays(b, PassDown(b))
    BY <1>4, DownStays, Chains
  <1>6. Stays(g, PassDown(b))
    BY <1>3, <1>4, <1>5, Chains
  <1> QED
    BY <1>1, <1>2, <1>6, Chains DEF Stays

LEMMA EnterReadySettles ==
  ASSUME NEW p, Port(p)
  PROVE  /\ Settles(p, EnterReady(p))
         /\ EnterReady(p).snk = "READY"
         /\ EnterReady(p).extended = p.extended
  <1> DEFINE g == Go(p, "READY")
             a == [g EXCEPT !.ams = FALSE, !.explicit_contract = TRUE,
                            !.ams_first_sent = FALSE]
             b == StartPPSPeriodic(a)
  <1>1. Settles(p, g) /\ g.snk = "READY" /\ g.extended = p.extended
    BY GoSettles, GoKeeps, SnkNames
  <1>2. EnterReady(p) = StartKeepAlive(b)
    BY DEF EnterReady
  <1> HIDE DEF g
  <1>3. Stays(g, a)
    BY <1>1 DEF Port, Fields, Settles, Stays, Keeps
  <1> HIDE DEF a
  <1>4. Stays(a, b)
    BY <1>3, StartStays, TimerNames, Reflexive, Chains DEF StartPPSPeriodic
  <1> HIDE DEF b
  <1>5. Stays(b, StartKeepAlive(b))
    BY <1>4, StartStays, TimerNames, Reflexive, Chains DEF StartKeepAlive
  <1>6. Stays(g, StartKeepAlive(b))
    BY <1>3, <1>4, <1>5, Chains
  <1> QED
    BY <1>1, <1>2, <1>6, Chains DEF Stays

LEMMA ErrorSettles ==
  ASSUME NEW p, Port(p)
  PROVE  /\ Settles(p, TransmissionError(p))
         /\ p.snk # "SEND_SOFT_RESET" /\ p.extended => Blocked(TransmissionError(p))
  BY EnterHardResetSettles, EnterReadySettles, EnterSendSoftResetSettles
     DEF TransmissionError, Blocked

\* A message that cannot be sent now leads elsewhere, any other leaves the state.
LEMMA MessageSettles ==
  ASSUME NEW p, Port(p), p.snk \in SnkStates
  PROVE  /\ Settles(p, MessageFromPE(p))
         /\ p.snk # "SEND_SOFT_RESET" =>
              MessageFromPE(p).snk = p.snk \/ Blocked(MessageFromPE(p))
  <1> DEFINE q == [p EXCEPT !.tch = "REPORT_ERROR"]
             e == TransmissionError(q)
  <1>1. /\ Port(q) /\ q.rch = p.rch /\ q.snk = p.snk /\ q.extended = p.extended
        /\ q.dpm_event = p.dpm_event /\ q.cad = p.cad
    BY DEF Port, Fields
  <1>2. MessageFromPE(p) =
          IF p.extended /\ p.rch # "WAIT_FOR_MESSAGE_FROM_PRL"
          THEN TchWaitForRequest(e) ELSE PassDown(p)
    BY DEF MessageFromPE
  <1> HIDE DEF q
  <1>3. /\ Settles(q, e)
        /\ p.snk # "SEND_SOFT_RESET" /\ p.extended => Blocked(e)
    BY <1>1, ErrorSettles
  <1> HIDE DEF e
  <1>4. /\ Stays(e, TchWaitForRequest(e))
        /\ TchWaitForRequest(e).tch \in TchWaiting
        /\ TchWaitForRequest(e).rch = e.rch
    BY <1>3, WaitsStay, Chains
  <1>5. Settles(p, TchWaitForRequest(e))
    BY <1>1, <1>3, <1>4 DEF Settles, Stays, Keeps
  <1>6. Blocked(e) => Blocked(TchWaitForRequest(e))
    BY <1>4 DEF Blocked, Stays
  <1>7. Settles(p, PassDown(p)) /\ PassDown(p).snk = p.snk
    BY DownStays, Chains DEF Stays
  <1> QED
    BY <1>2, <1>3, <1>5, <1>6, <1>7

-----------------------------------------------------------------------------
\* The states that send

LEMMA EnterNotSupportedSettles == ASSUME NEW p, Port(p) PROVE Settles(p, EnterSendNotSupported(p))
  <1> DEFINE g == Go(p, "SEND_NOT_SUPPORTED")
             q == [g EXCEPT !.txKind = "Not_Supported"]
  <1>1. Settles(p, g)
    BY GoSettles, SnkNames
  <1>2. EnterSendNotSupported(p) = MessageFromPE(q)
    BY DEF EnterSendNotSupported
  <1> HIDE DEF g
  <1>3. Settles(p, q)
    BY <1>1 DEF Port, Fields, Settles, Keeps
  <1> HIDE DEF q
  <1>4. Settles(q, MessageFromPE(q))
    BY <1>3, MessageSettles DEF Settles, Keeps
  <1> QED
    BY <1>2, <1>3, <1>4, Chains

LEMMA EnterEntrySettles ==
  ASSUME NEW p, Port(p)
  PROVE  /\ Settles(p, EnterSendEPRModeEntry(p))
         /\ EnterSendEPRModeEntry(p).snk = "SEND_EPR_MODE_ENTRY" \/ Blocked(EnterSendEPRModeEntry(p))
  <1> DEFINE g == Go(p, "SEND_EPR_MODE_ENTRY")
             q == [g EXCEPT !.txKind = "EPREnter", !.response_expected = TRUE,
                            !.entering_epr = TRUE]
  <1>1. Settles(p, g) /\ g.snk = "SEND_EPR_MODE_ENTRY"
    BY GoSettles, GoKeeps, SnkNames
  <1>2. EnterSendEPRModeEntry(p) = MessageFromPE(q)
    BY DEF EnterSendEPRModeEntry
  <1> HIDE DEF g
  <1>3. Settles(p, q) /\ q.snk = g.snk
    BY <1>1 DEF Port, Fields, Settles, Keeps
  <1> HIDE DEF q
  <1>4. /\ Settles(q, MessageFromPE(q))
        /\ MessageFromPE(q).snk = g.snk \/ Blocked(MessageFromPE(q))
    BY <1>1, <1>3, MessageSettles DEF Settles, Keeps
  <1> QED
    BY <1>1, <1>2, <1>3, <1>4, Chains

LEMMA EnterExitSettles ==
  ASSUME NEW p, Port(p)
  PROVE  /\ Settles(p, EnterSendEPRModeExit(p))
         /\ EnterSendEPRModeExit(p).snk = "SEND_EPR_MODE_EXIT" \/ Blocked(EnterSendEPRModeExit(p))
  <1> DEFINE g == Go(p, "SEND_EPR_MODE_EXIT")
             q == [g EXCEPT !.txKind = "EPRExit"]
  <1>1. Settles(p, g) /\ g.snk = "SEND_EPR_MODE_EXIT"
    BY GoSettles, GoKeeps, SnkNames
  <1>2. EnterSendEPRModeExit(p) = MessageFromPE(q)
    BY DEF EnterSendEPRModeExit
  <1> HIDE DEF g
  <1>3. Settles(p, q) /\ q.snk = g.snk
    BY <1>1 DEF Port, Fields, Settles, Keeps
  <1> HIDE DEF q
  <1>4. /\ Settles(q, MessageFromPE(q))
        /\ MessageFromPE(q).snk = g.snk \/ Blocked(MessageFromPE(q))
    BY <1>1, <1>3, MessageSettles DEF Settles, Keeps
  <1> QED
    BY <1>1, <1>2, <1>3, <1>4, Chains

LEMMA EnterKeepAliveSettles == ASSUME NEW p, Port(p) PROVE Settles(p, EnterEPRKeepAlive(p))
  <1> DEFINE g == Go(p, "EPR_KEEP_ALIVE")
             q == [g EXCEPT !.response_expected = TRUE, !.extended = TRUE]
  <1>1. Settles(p, g)
    BY GoSettles, SnkNames
  <1>2. EnterEPRKeepAlive(p) = MessageFromPE(q)
    BY DEF EnterEPRKeepAlive
  <1> HIDE DEF g
  <1>3. Settles(p, q)
    BY <1>1 DEF Port, Fields, Settles, Keeps
  <1> HIDE DEF q
  <1>4. Settles(q, MessageFromPE(q))
    BY <1>3, MessageSettles DEF Settles, Keeps
  <1> QED
    BY <1>2, <1>3, <1>4, Chains

LEMMA EnterSoftResetSettles == ASSUME NEW p, Port(p) PROVE Settles(p, EnterSoftReset(p))
  <1> DEFINE g == Go(p, "SOFT_RESET")
             a == [g EXCEPT !.txKind = "Accept"]
             b == EndRequest(a, "CANCELLED")
  <1>1. Settles(p, g)
    BY GoSettles, SnkNames
  <1>2. EnterSoftReset(p) = MessageFromPE(b)
    BY DEF EnterSoftReset
  <1> HIDE DEF g
  <1>3. Settles(p, a)
    BY <1>1 DEF Port, Fields, Settles, Keeps
  <1> HIDE DEF a
  <1>4. Stays(a, b)
    BY <1>3, CallbackStays, Chains
  <1> HIDE DEF b
  <1>5. Settles(b, MessageFromPE(b))
    BY <1>3, <1>4, MessageSettles DEF Settles, Stays, Keeps
  <1> QED
    BY <1>2, <1>3, <1>4, <1>5, Chains

LEMMA EnterExitReceivedSettles ==
  ASSUME NEW p, Port(p)
  PROVE  Settles(p, EnterEPRModeExitReceived(p))
  <1> DEFINE g == Go(p, "EPR_MODE_EXIT_RECEIVED")
             q == [g EXCEPT !.epr_mode = FALSE]
  <1>1. Keeps(p, g)
    BY GoPasses, SnkNames
  <1>2. EnterEPRModeExitReceived(p) = EnterWaitForCapabilities(q)
    BY DEF EnterEPRModeExitReceived
  <1> HIDE DEF g
  <1>3. Stays(g, q)
    BY <1>1 DEF Port, Fields, Stays, Keeps
  <1> HIDE DEF q
  <1>4. Settles(q, EnterWaitForCapabilities(q))
    BY <1>3, EnterWaitSettles, Chains
  <1> QED
    BY <1>1, <1>2, <1>3, <1>4, Chains

LEMMA EnterTransitionSettles ==
  ASSUME NEW p, Port(p)
  PROVE  Settles(p, EnterTransitionSink(p))
  <1> DEFINE g == Go(p, "TRANSITION_SINK")
             a == UCPD_TIM_Stop(g, "SENDER_RESPONSE")
  <1>1. Settles(p, g)
    BY GoSettles, SnkNames
  <1>2. EnterTransitionSink(p) = StartTransition(a)
    BY DEF EnterTransitionSink
  <1> HIDE DEF g
  <1>3. Stays(g, a)
    BY <1>1, StopStays, TimerNames, Chains
  <1> HIDE DEF a
  <1>4. Stays(a, StartTransition(a))
    BY <1>3, StartStays, TimerNames, Chains DEF StartTransition
  <1> QED
    BY <1>1, <1>2, <1>3, <1>4, Chains

LEMMA EnterSelectSettles ==
  ASSUME NEW p, Port(p)
  PROVE  /\ Settles(p, EnterSelectCapability(p))
         /\ \/ EnterSelectCapability(p).snk = "SELECT_CAPABILITY"
            \/ Blocked(EnterSelectCapability(p))
  <1> DEFINE g == Go(p, "SELECT_CAPABILITY")
             a == [g EXCEPT !.response_expected = TRUE]
             m == IncrementMID(a)
             b == PrepareRequest(a)
  <1>1. Settles(p, g) /\ g.snk = "SELECT_CAPABILITY"
    BY GoSettles, GoKeeps, SnkNames
  <1>2. EnterSelectCapability(p) = MessageFromPE(b)
    BY DEF EnterSelectCapability
  <1> HIDE DEF g
  <1>3. Settles(p, a) /\ a.snk = g.snk
    BY <1>1 DEF Port, Fields, Settles, Keeps
  <1> HIDE DEF a
  <1>4. Stays(a, m)
    BY <1>3, MidStays, Chains
  <1>5. b = IF a.epr_mode THEN [m EXCEPT !.txKind = "EPRRequest"]
            ELSE [a EXCEPT !.txKind = "Request", !.pps_contract = SelectsPPS]
    BY DEF PrepareRequest
  <1> HIDE DEF m, b
  <1>6. Stays(a, b)
    BY <1>3, <1>4, <1>5 DEF Port, Fields, Settles, Stays, Keeps
  <1>7. b.snk = "SELECT_CAPABILITY"
    BY <1>1, <1>3, <1>6 DEF Stays
  <1>8. /\ Settles(b, MessageFromPE(b))
        /\ MessageFromPE(b).snk = b.snk \/ Blocked(MessageFromPE(b))
    BY <1>3, <1>6, <1>7, MessageSettles DEF Settles, Stays, Keeps
  <1> QED
    BY <1>2, <1>3, <1>6, <1>7, <1>8, Chains

LEMMA EndPolicyStays == ASSUME NEW p, Port(p) PROVE Stays(p, EndPolicyRequest(p))
  <1> DEFINE q == [p EXCEPT !.status = "SUCCESS", !.sync_operation = FALSE]
  <1>1. Stays(p, q)
    BY DEF Port, Fields, Stays, Keeps
  <1>2. EndPolicyRequest(p) = IF p.explicit_contract THEN Callback(q, "SUCCESS") ELSE p
    BY DEF EndPolicyRequest
  <1> HIDE DEF q
  <1>3. Stays(q, Callback(q, "SUCCESS"))
    BY <1>1, CallbackStays, Chains
  <1> QED
    BY <1>1, <1>2, <1>3, Reflexive, Chains

LEMMA EnterEvaluateSettles ==
  ASSUME NEW p, Port(p)
  PROVE  /\ Settles(p, EnterEvaluateCapability(p))
         /\ \/ EnterEvaluateCapability(p).snk = "SELECT_CAPABILITY"
            \/ Blocked(EnterEvaluateCapability(p))
  <1> DEFINE g == Go(p, "EVALUATE_CAPABILITY")
             a == [g EXCEPT !.ams = TRUE, !.pps_periodic_expired = FALSE,
                     !.tx = IF p.pps_periodic_expired THEN @ ELSE "SNK_START_OF_AMS"]
             b == EndPolicyRequest(a)
             c == UserCode(b, "POLICY")
  <1>1. Keeps(p, g)
    BY GoPasses, SnkNames
  <1>2. EnterEvaluateCapability(p) = EnterSelectCapability(c)
    BY DEF EnterEvaluateCapability
  <1> HIDE DEF g
  <1>3. Stays(g, a)
    BY <1>1 DEF Port, Fields, Stays, Keeps, TxType
  <1> HIDE DEF a
  <1>4. Stays(a, b)
    BY <1>3, EndPolicyStays, Chains
  <1> HIDE DEF b
  <1>5. Stays(b, c)
    BY <1>4, UserCodeStays, Chains DEF UserPlaces
  <1> HIDE DEF c
  <1>6. /\ Settles(c, EnterSelectCapability(c))
        /\ \/ EnterSelectCapability(c).snk = "SELECT_CAPABILITY"
           \/ Blocked(EnterSelectCapability(c))
    BY <1>5, EnterSelectSettles, Chains
  <1> QED
    BY <1>1, <1>2, <1>3, <1>4, <1>5, <1>6, Chains

-----------------------------------------------------------------------------
\* UCPD_PE_SM_Delta

LEMMA NotSupportedSettles ==
  ASSUME NEW p, Port(p)
  PROVE  Settles(p, EnterReady(UserCode(Go(p, "NOT_SUPPORTED_RECEIVED"), "POLICY")))
  <1> DEFINE g == Go(p, "NOT_SUPPORTED_RECEIVED")
             a == UserCode(g, "POLICY")
  <1>1. Keeps(p, g)
    BY GoPasses, SnkNames
  <1> HIDE DEF g
  <1>2. Stays(g, a)
    BY <1>1, UserCodeStays, Chains DEF UserPlaces
  <1> HIDE DEF a
  <1>3. Settles(a, EnterReady(a))
    BY <1>2, EnterReadySettles, Chains
  <1>4. Settles(p, EnterReady(a))
    BY <1>1, <1>2, <1>3, Chains
  <1> QED
    BY <1>4 DEF a, g

\* Whatever is received leads to a state that waits.
LEMMA ReceiveSettles == ASSUME NEW p, Port(p), NEW kind PROVE Settles(p, Receive(p, kind))
  <1>1. Settles(p, Go(p, "EPR_MODE_ENTRY_WAIT_FOR_RESPONSE"))
    BY GoSettles, SnkNames
  <1> QED
    BY <1>1, EnterReadySettles, EnterEvaluateSettles, EnterTransitionSettles,
       EnterSoftResetSettles, NotSupportedSettles, EnterWaitSettles,
       EnterSendSoftResetSettles, EnterExitReceivedSettles, EnterNotSupportedSettles,
       EnterHardResetSettles
       DEF Receive

LEMMA ReceivedSettles == ASSUME NEW p, Port(p) PROVE Settles(p, MessageReceived(p))
  <1> DEFINE q == [p EXCEPT !.extended = FALSE]
  <1>1. Keeps(p, q)
    BY DEF Port, Fields, Keeps
  <1>2. PICK kind : MessageReceived(p) = Receive(q, kind)
    BY DEF MessageReceived
  <1> HIDE DEF q
  <1>3. Settles(q, Receive(q, kind))
    BY <1>1, ReceiveSettles, Chains
  <1> QED
    BY <1>1, <1>2, <1>3, Chains

LEMMA SentSettles ==
  ASSUME NEW p, Port(p), p.snk \in SnkStates
  PROVE  Settles(p, MessageSent(p))
  <1> DEFINE a == [p EXCEPT !.extended = FALSE, !.ams_first_sent = @ \/ p.ams]
             b == Sent(a, IF p.extended THEN NONE ELSE p.txKind)
             t == UCPD_TIM_Start(b, "SENDER_RESPONSE")
             c == AwaitResponse(b)
             u == UCPD_TIM_Start(c, "SINK_EPR_ENTER")
             d == AwaitEPREntry(c)
  <1>1. Settles(p, a)
    BY DEF Port, Fields, Settles, Keeps
  <1>2. MessageSent(p) = d
    BY DEF MessageSent
  <1> HIDE DEF a
  <1>3. Settles(a, b)
    <2>1. Settles(a, a)
      BY <1>1 DEF Settles, Keeps
    <2>2. Settles(a, EnterReady(a)) /\ Settles(a, EnterWaitForCapabilities(a))
      BY <1>1, EnterReadySettles, EnterWaitSettles, Chains
    <2> QED
      BY <2>1, <2>2 DEF Sent
  <1> HIDE DEF b
  <1>4. Stays(b, c)
    <2>1. Stays(b, t)
      BY <1>3, StartStays, TimerNames, Chains
    <2>2. c = IF b.response_expected THEN [t EXCEPT !.response_expected = FALSE] ELSE b
      BY DEF AwaitResponse
    <2> HIDE DEF t, c
    <2> QED
      BY <1>3, <2>1, <2>2 DEF Port, Fields, Settles, Stays, Keeps
  <1> HIDE DEF c
  <1>5. Stays(c, d)
    <2>1. Stays(c, u)
      BY <1>4, StartStays, TimerNames, Chains
    <2>2. d = IF c.entering_epr THEN [u EXCEPT !.entering_epr = FALSE] ELSE c
      BY DEF AwaitEPREntry
    <2> HIDE DEF u, d
    <2> QED
      BY <1>4, <2>1, <2>2 DEF Port, Fields, Stays, Keeps
  <1> QED
    BY <1>1, <1>2, <1>3, <1>4, <1>5, Chains

LEMMA ExpiredSettles == ASSUME NEW p, Port(p) PROVE Settles(p, SenderResponseExpired(p))
  BY EnterSendSoftResetSettles, EnterHardResetSettles DEF SenderResponseExpired

\* A request leads to the state that carries it out, unless its message is blocked.
LEMMA DpmSettles ==
  ASSUME NEW p, Port(p), NEW request \in RequestType \ {NONE}
  PROVE  /\ Settles(p, DpmRequest(p, request))
         /\ \/ DpmRequest(p, request).snk = Serving(request)
            \/ Blocked(DpmRequest(p, request))
  <1> DEFINE q == [p EXCEPT !.sync_operation = TRUE]
  <1>1. Stays(p, q)
    BY DEF Port, Fields, Stays, Keeps
  <1>2. DpmRequest(p, request) =
          CASE request = "EPR_MODE_ENTRY" -> EnterSendEPRModeEntry(q)
            [] request = "EPR_MODE_EXIT"  -> EnterSendEPRModeExit(q)
            [] request = "TRIGGER_POLICY" -> EnterEvaluateCapability(q)
            [] request = "HARD_RESET"     -> EnterHardReset(q)
    BY DEF DpmRequest
  <1> HIDE DEF q
  <1>3. /\ Settles(q, EnterSendEPRModeEntry(q))
        /\ Settles(q, EnterSendEPRModeExit(q))
        /\ Settles(q, EnterEvaluateCapability(q))
        /\ Settles(q, EnterHardReset(q))
    BY <1>1, EnterEntrySettles, EnterExitSettles, EnterEvaluateSettles,
       EnterHardResetSettles, Chains
  <1>4. request \in {"EPR_MODE_ENTRY", "EPR_MODE_EXIT", "TRIGGER_POLICY", "HARD_RESET"}
    BY DEF RequestType
  <1>5. Settles(p, DpmRequest(p, request))
    BY <1>1, <1>2, <1>3, <1>4, Chains
  <1>6. /\ EnterSendEPRModeEntry(q).snk = "SEND_EPR_MODE_ENTRY"
             \/ Blocked(EnterSendEPRModeEntry(q))
        /\ EnterSendEPRModeExit(q).snk = "SEND_EPR_MODE_EXIT"
             \/ Blocked(EnterSendEPRModeExit(q))
        /\ EnterEvaluateCapability(q).snk = "SELECT_CAPABILITY"
             \/ Blocked(EnterEvaluateCapability(q))
        /\ EnterHardReset(q).snk = "HARD_RESET"
    BY <1>1, EnterEntrySettles, EnterExitSettles, EnterEvaluateSettles,
       EnterHardResetSettles, Chains
  <1> QED
    BY <1>2, <1>4, <1>5, <1>6 DEF Serving

-----------------------------------------------------------------------------
\* The protocol layer.  Settled records: the policy engine waits.

Settled(p) == Port(p) /\ p.snk \in SnkStates

LEMMA SettledChains ==
  ASSUME NEW p, NEW q, NEW r
  PROVE  /\ Settles(p, q) => Settled(q)
         /\ Settled(p) /\ Stays(p, q) => Settles(p, q)
         /\ Settled(p) => Settles(p, p)
         /\ Settles(p, q) /\ Settles(q, r) => Settles(p, r)
  BY DEF Settled, Settles, Stays, Keeps

LEMMA RchErrorSettles ==
  ASSUME NEW p, Settled(p)
  PROVE  /\ Settles(p, RchErrorWithMessage(p))
         /\ Settles(p, RchTransmissionError(p))
  <1> DEFINE q == RchWaitForMessage(p)
  <1>1. Port(p)
    BY DEF Settled
  <1>2. Stays(p, q)
    BY <1>1, WaitsStay
  <1> HIDE DEF q
  <1>3. Settles(q, MessageReceived(q)) /\ Settles(q, TransmissionError(q))
    BY <1>2, ReceivedSettles, ErrorSettles, Chains
  <1>4. Settles(p, MessageReceived(q)) /\ Settles(p, TransmissionError(q))
    BY <1>2, <1>3, Chains
  <1> QED
    BY <1>4 DEF RchErrorWithMessage, RchTransmissionError, q

LEMMA PassUpSettles ==
  ASSUME NEW p, Settled(p)
  PROVE  Settles(p, RchPassUpMessage(p))
  <1> DEFINE q == [p EXCEPT !.rch = "PASS_UP_MESSAGE"]
             r == MessageReceived(q)
  <1>1. Port(q) /\ q.tch = p.tch /\ q.dpm_event = p.dpm_event /\ q.cad = p.cad
    BY DEF Port, Fields, Settled
  <1>2. RchPassUpMessage(p) = RchWaitForMessage(r)
    BY DEF RchPassUpMessage
  <1> HIDE DEF q
  <1>3. Settles(q, r)
    BY <1>1, ReceivedSettles
  <1> HIDE DEF r
  <1>4. /\ Stays(r, RchWaitForMessage(r))
        /\ RchWaitForMessage(r).rch \in RchWaiting
        /\ RchWaitForMessage(r).tch = r.tch
    BY <1>3, WaitsStay, Chains
  <1> QED
    BY <1>1, <1>2, <1>3, <1>4 DEF Settles, Stays, Keeps

LEMMA RequestChunkSettles ==
  ASSUME NEW p, Settled(p)
  PROVE  Settles(p, RchRequestingChunk(p))
  <1> DEFINE a == UCPD_TIM_Stop(p, "SENDER_RESPONSE")
             b == [a EXCEPT !.rch = "REQUESTING_CHUNK", !.txKind = "ChunkRequest"]
  <1>1. Stays(p, a)
    BY StopStays, TimerNames DEF Settled
  <1>2. RchRequestingChunk(p) = TxConstructMessage(b)
    BY DEF RchRequestingChunk
  <1> HIDE DEF a
  <1>3. Stays(a, b)
    BY <1>1 DEF Port, Fields, Stays, Keeps, RchWaiting
  <1> HIDE DEF b
  <1>4. Stays(b, TxConstructMessage(b))
    BY <1>3, ConstructStays, Chains
  <1> QED
    BY <1>1, <1>2, <1>3, <1>4, Chains, SettledChains

LEMMA WaitChunkSettles ==
  ASSUME NEW p, Settled(p)
  PROVE  Settles(p, RchWaitingChunk(p))
  <1> DEFINE a == [p EXCEPT !.rch = "WAITING_CHUNK"]
             b == UCPD_TIM_Start(a, "SENDER_RESPONSE")
  <1>1. Stays(p, a)
    BY DEF Settled, Port, Fields, Stays, Keeps, RchWaiting
  <1>2. RchWaitingChunk(p) = UCPD_TIM_Start(b, "CHUNK_SENDER_RESPONSE")
    BY DEF RchWaitingChunk
  <1> HIDE DEF a
  <1>3. Stays(a, b)
    BY <1>1, StartStays, TimerNames, Chains
  <1> HIDE DEF b
  <1>4. Stays(b, UCPD_TIM_Start(b, "CHUNK_SENDER_RESPONSE"))
    BY <1>3, StartStays, TimerNames, Chains
  <1> QED
    BY <1>1, <1>2, <1>3, <1>4, Chains, SettledChains

LEMMA ChunkSettles ==
  ASSUME NEW p, Settled(p)
  PROVE  Settles(p, RchProcessingExtendedMessage(p))
  <1> DEFINE a == UCPD_TIM_Stop(p, "SENDER_RESPONSE")
             b == UCPD_TIM_Stop(a, "CHUNK_SENDER_RESPONSE")
             c == RchStartOver(b)
             d == [c EXCEPT !.chunkExpected = @ + 1]
             e == [d EXCEPT !.extended = TRUE]
  <1>1. Stays(p, a)
    BY StopStays, TimerNames DEF Settled
  <1>2. RchProcessingExtendedMessage(p) = RchTakeChunk(c)
    BY DEF RchProcessingExtendedMessage
  <1> HIDE DEF a
  <1>3. Stays(a, b)
    BY <1>1, StopStays, TimerNames, Chains
  <1> HIDE DEF b
  <1>4. Stays(b, c)
    BY <1>3 DEF RchStartOver, Port, Fields, Stays, Keeps
  <1>5. RchTakeChunk(c) \in
          {RchErrorWithMessage(c), RchPassUpMessage(e), RchRequestingChunk(d)}
    BY DEF RchTakeChunk
  <1> HIDE DEF c
  <1>6. Settles(p, c)
    BY <1>1, <1>3, <1>4, Chains, SettledChains
  <1>7. Settles(c, d) /\ Settles(c, e)
    BY <1>6 DEF Port, Fields, Settles, Keeps
  <1> HIDE DEF d, e
  <1>8. /\ Settles(c, RchErrorWithMessage(c))
        /\ Settles(e, RchPassUpMessage(e))
        /\ Settles(d, RchRequestingChunk(d))
    BY <1>6, <1>7, RchErrorSettles, PassUpSettles, RequestChunkSettles, SettledChains
  <1> QED
    BY <1>2, <1>5, <1>6, <1>7, <1>8, SettledChains

LEMMA RouteSettles ==
  ASSUME NEW p, Settled(p)
  PROVE  Settles(p, RouteReceived(p))
  BY RchErrorSettles, ChunkSettles, PassUpSettles DEF RouteReceived

LEMMA StoreSettles ==
  ASSUME NEW p, Settled(p)
  PROVE  /\ Settles(p, RxStoreMessageID(p))
         /\ Settles(p, RxCheckMessageID(p))
  <1> DEFINE a == TxWaitForMessageRequest(p)
             q == [a EXCEPT !.rx = "WAIT_FOR_PHY_MESSAGE", !.storedMID = p.rxMsg.id,
                            !.passedUp = TRUE]
             b == [q EXCEPT !.extRx = NONE]
             c == TchWaitForRequest(b)
             n == [p EXCEPT !.rx = "WAIT_FOR_PHY_MESSAGE"]
  <1>1. Settles(p, a)
    BY WaitsStay, SettledChains DEF Settled
  <1>2. RxStoreMessageID(p) =
          RouteReceived(IF q.tch = "WAIT_FOR_MESSAGE_REQUEST_FROM_PE" THEN q ELSE c)
    BY DEF RxStoreMessageID
  <1> HIDE DEF a
  <1>3. Settles(p, q)
    BY <1>1 DEF Port, Fields, Settles, Keeps, RxType
  <1> HIDE DEF q
  <1>4. Settles(p, b)
    BY <1>3 DEF Port, Fields, Settles, Keeps
  <1> HIDE DEF b
  <1>5. Settles(p, c)
    BY <1>4, WaitsStay, Chains
  <1> HIDE DEF c
  <1>6. Settles(p, RouteReceived(q)) /\ Settles(p, RouteReceived(c))
    BY <1>3, <1>5, RouteSettles, SettledChains
  <1>7. Settles(p, RxStoreMessageID(p))
    BY <1>2, <1>6
  <1>8. Settles(p, n)
    BY DEF Settled, Port, Fields, Settles, Keeps, RxType
  <1> HIDE DEF n
  <1>9. Settles(p, RxCheckMessageID(p))
    BY <1>7, <1>8 DEF RxCheckMessageID, n
  <1> QED
    BY <1>7, <1>9

LEMMA GoodCRCSettles ==
  ASSUME NEW p, Settled(p)
  PROVE  /\ Settles(p, RxSendGoodCRC(p))
         /\ Settles(p, RxSendGoodCRC(RxLayerReset(p)))
  <1>1. \A r : Settled(r) => Settles(r, RxSendGoodCRC(r))
    <2> SUFFICES ASSUME NEW r, Settled(r) PROVE Settles(r, RxSendGoodCRC(r))
      OBVIOUS
    <2> DEFINE q == [r EXCEPT !.rx = "SEND_GOODCRC", !.txKind = "GoodCRC",
                              !.txID = r.rxMsg.id]
    <2>1. Settles(r, q)
      BY DEF Settled, Port, Fields, Settles, Keeps, RxType
    <2>2. RxSendGoodCRC(r) = UCPD_PHY_SendMessage(q)
      BY DEF RxSendGoodCRC
    <2> HIDE DEF q
    <2>3. Stays(q, UCPD_PHY_SendMessage(q))
      BY <2>1, PhyStays, Chains
    <2> QED
      BY <2>1, <2>2, <2>3, Chains
  <1>2. Settles(p, RxLayerReset(p))
    BY PortAssumption
       DEF RxLayerReset, TxWaitForMessageRequest, Settled, Port, Fields, Settles, Keeps,
           MessageIDs, TxType, RetryType
  <1> QED
    BY <1>1, <1>2, SettledChains

LEMMA ReportSettles ==
  ASSUME NEW p, Settled(p)
  PROVE  Settles(p, TxMessageSent(p))
  <1> DEFINE a == IncrementMID(p)
             b == TxWaitForMessageRequest(a)
             c == TchWaitForRequest(b)
  <1>1. Settles(p, a)
    BY MidStays, SettledChains DEF Settled
  <1>2. TxMessageSent(p) = ReportSent(b)
    BY DEF TxMessageSent
  <1> HIDE DEF a
  <1>3. Settles(p, b)
    BY <1>1, WaitsStay, Chains
  <1>4. ReportSent(b) \in {RchWaitingChunk(b), MessageSent(c), b}
    BY DEF ReportSent
  <1> HIDE DEF b
  <1>5. Settles(p, c)
    BY <1>3, WaitsStay, Chains
  <1> HIDE DEF c
  <1>6. Settles(b, RchWaitingChunk(b)) /\ Settles(c, MessageSent(c))
    BY <1>3, <1>5, WaitChunkSettles, SentSettles DEF Settles, Keeps, Settled
  <1> QED
    BY <1>2, <1>3, <1>4, <1>5, <1>6, SettledChains

\* The retry counter is only counted while it is below its largest value.
LEMMA RetrySettles ==
  ASSUME NEW p, Settled(p)
  PROVE  Settles(p, TxCheckRetryCounter(p))
  <1> DEFINE a == [p EXCEPT !.retry = @ + 1]
             b == IncrementMID(p)
             c == TxWaitForMessageRequest(b)
  <1>1. p.retry \in RetryType
    BY DEF Settled, Port
  <1>2. CASE p.retry + 1 <= NRetry
    <2>1. p.retry + 1 \in RetryType
      BY <1>1, <1>2, PortAssumption DEF RetryType
    <2>2. Settles(p, a)
      BY <2>1 DEF Settled, Port, Fields, Settles, Keeps
    <2>3. TxCheckRetryCounter(p) = TxConstructMessage(a)
      BY <1>2 DEF TxCheckRetryCounter
    <2> HIDE DEF a
    <2> QED
      BY <2>2, <2>3, ConstructStays, Chains
  <1>3. CASE ~(p.retry + 1 <= NRetry)
    <2>1. Settles(p, b)
      BY MidStays, SettledChains DEF Settled
    <2>2. TxCheckRetryCounter(p) = RchTransmissionError(c)
      BY <1>3 DEF TxCheckRetryCounter
    <2> HIDE DEF b
    <2>3. Settles(p, c)
      BY <2>1, WaitsStay, Chains
    <2> HIDE DEF c
    <2> QED
      BY <2>2, <2>3, RchErrorSettles, SettledChains
  <1> QED
    BY <1>2, <1>3

LEMMA MatchSettles ==
  ASSUME NEW p, Settled(p)
  PROVE  Settles(p, TxMatchMessageID(p))
  <1> DEFINE q == UCPD_TIM_Stop(p, "CRC_RECEIVE")
  <1>1. Settles(p, q)
    BY StopStays, TimerNames, SettledChains DEF Settled
  <1>2. TxMatchMessageID(p) \in {TxMessageSent(q), TxCheckRetryCounter(q)}
    BY DEF TxMatchMessageID
  <1> HIDE DEF q
  <1> QED
    BY <1>1, <1>2, ReportSettles, RetrySettles, SettledChains

-----------------------------------------------------------------------------
\* UCPD_PRL_SM_Delta and UCPD_PE_SM_Delta for the events of the wire and the timers

LEMMA HrdSettles == ASSUME NEW p, Settled(p) PROVE Settles(p, HrdReceived(p))
  BY ResetRequestStays, IndicateSettles, SettledChains DEF HrdReceived, Settled

LEMMA PhyDeltaSettles ==
  ASSUME NEW p, Settled(p), NEW event
  PROVE  Settles(p, PhyDelta(p, event))
  <1>1. Settles(p, MsgRxComplete(p))
    BY MatchSettles, GoodCRCSettles, SettledChains DEF MsgRxComplete
  <1>2. Settles(p, MsgTxDiscarded(p))
    <2>1. Settles(p, [p EXCEPT !.rx = "WAIT_FOR_PHY_MESSAGE"])
      BY DEF Settled, Port, Fields, Settles, Keeps, RxType
    <2> QED
      BY <2>1, RetrySettles, SettledChains DEF MsgTxDiscarded
  <1>3. Settles(p, MsgTxCompleted(p))
    <2>1. Settles(p, UCPD_TIM_Start(p, "CRC_RECEIVE"))
      BY StartStays, TimerNames, SettledChains DEF Settled
    <2> QED
      BY <2>1, StoreSettles DEF MsgTxCompleted
  <1>4. Settles(p, HardResetSent(p))
    BY ResetSentSettles DEF Settled
  <1>5. Settles(p, TxOk(p))
    BY ConstructStays, SettledChains DEF TxOk, Settled
  <1> QED
    BY <1>1, <1>2, <1>3, <1>4, <1>5, HrdSettles, SettledChains DEF PhyDelta

LEMMA TimerDeltaSettles ==
  ASSUME NEW p, Settled(p), NEW event
  PROVE  Settles(p, TimerDelta(p, event))
  <1> DEFINE q == [p EXCEPT !.pps_periodic_expired = TRUE]
             e == EnterEvaluateCapability(q)
  <1>1. Settles(p, q)
    BY DEF Settled, Port, Fields, Settles, Keeps
  <1>2. TimerDelta(p, event) \in
          {TxCheckRetryCounter(p), RchTransmissionError(p), HardResetSent(p),
           SenderResponseExpired(p), EnterHardReset(p), EnterSendSoftReset(p),
           e, EnterEPRKeepAlive(p), p}
    BY DEF TimerDelta
  <1> HIDE DEF q
  <1>3. Settles(p, e)
    BY <1>1, EnterEvaluateSettles, SettledChains DEF Settled
  <1> HIDE DEF e
  <1>4. /\ Settles(p, TxCheckRetryCounter(p))
        /\ Settles(p, RchTransmissionError(p))
        /\ Settles(p, HardResetSent(p))
        /\ Settles(p, SenderResponseExpired(p))
        /\ Settles(p, EnterHardReset(p))
        /\ Settles(p, EnterSendSoftReset(p))
        /\ Settles(p, EnterEPRKeepAlive(p))
        /\ Settles(p, p)
    BY RetrySettles, RchErrorSettles, ResetSentSettles, ExpiredSettles,
       EnterHardResetSettles, EnterSendSoftResetSettles, EnterKeepAliveSettles,
       SettledChains DEF Settled
  <1> QED
    BY <1>2, <1>3, <1>4

-----------------------------------------------------------------------------
\* The connection and UCPD_PE_PRL_Handler

\* Between two runs of the worker the state machines wait for an event.
AtRest(p) ==
  /\ Settled(p)
  /\ p.rch \in RchWaiting
  /\ p.tch \in TchWaiting

LEMMA Rests == ASSUME NEW p, AtRest(p), NEW q, Settles(p, q) PROVE AtRest(q)
  BY DEF AtRest, Settles, Settled, Keeps

\* A port that has just been attached waits for capabilities (UCPD_CAD_SM_Enter).
THEOREM AttachRests == AtRest(Attach) /\ Attach.cad = "ATTACHED"
  <1> DEFINE p == NewPort
  <1>1. Attach = EnterStartup(p)
    BY DEF Attach
  <1>2. /\ p.rch \in RchWaiting
        /\ p.tch \in TchWaiting
        /\ DOMAIN p = Fields
        /\ p.cad = "ATTACHED"
    BY DEF NewPort, RchWaiting, TchWaiting, Fields
  <1>3. /\ p.snk \in SnkType /\ p.rx \in RxType /\ p.tx \in TxType
        /\ p.mid \in MessageIDs /\ p.retry \in RetryType
        /\ p.dpm_event \in RequestType /\ p.user \in UserType
        /\ p.stuck = FALSE /\ p.tim \in TimType
    BY PortAssumption, TimerType
       DEF NewPort, SnkType, PassingStates, RxType, TxType, MessageIDs, RetryType, RequestType,
           UserType, NONE
  <1> HIDE DEF p
  <1>4. Port(p)
    BY <1>2, <1>3 DEF Port
  <1>5. Settles(p, EnterStartup(p))
    BY <1>4, EnterStartupSettles
  <1> QED
    BY <1>1, <1>2, <1>5 DEF AtRest, Settled, Settles, Keeps

\* The connection ends with whatever waited for it.
LEMMA DetachRests ==
  ASSUME NEW p, AtRest(p)
  PROVE  AtRest(Detach(p)) /\ Detach(p).cad = "UNATTACHED"
  <1> DEFINE a == EndRequest(p, "DISCONNECTED")
             b == [a EXCEPT !.dpm_event = NONE]
             c == UserCode(b, "PORT_CALLBACK")
             d == StopAllTimers(c)
  <1>1. AtRest(a)
    BY CallbackStays, SettledChains, Rests DEF AtRest, Settled
  <1>2. Detach(p) = [d EXCEPT !.cad = "UNATTACHED", !.air = NoMessage]
    BY DEF Detach
  <1> HIDE DEF a
  <1>3. AtRest(b)
    BY <1>1 DEF AtRest, Settled, Port, Fields, RequestType
  <1> HIDE DEF b
  <1>4. Settles(b, c)
    BY <1>3, UserCodeStays, SettledChains DEF AtRest, Settled, UserPlaces
  <1> HIDE DEF c
  <1>5. Settles(c, d)
    BY <1>4, StopAllStays, SettledChains DEF Settled
  <1>6. AtRest(d)
    BY <1>3, <1>4, <1>5, Rests
  <1> HIDE DEF d
  <1> QED
    BY <1>2, <1>6 DEF AtRest, Settled, Port, Fields

LEMMA PwrRests ==
  ASSUME NEW p, AtRest(p), NEW event
  PROVE  /\ AtRest(PwrDelta(p, event))
         /\ Settles(p, PwrDelta(p, event)) \/ PwrDelta(p, event).cad # p.cad
  <1>1. /\ AtRest(Detach(p))
        /\ Detach(p).cad = "UNATTACHED"
    BY DetachRests
  <1>2. Settles(p, EnterWaitForCapabilities(p)) /\ Settles(p, p)
    BY EnterWaitSettles, SettledChains DEF AtRest, Settled
  <1> QED
    BY <1>1, <1>2, Rests DEF PwrDelta, VbusPresent

\* What becomes of a request that waits: it waits on, is carried out or blocked, or the
\* connection ends.
Kept(p, q) ==
  p.dpm_event # NONE =>
    \/ q.dpm_event = p.dpm_event
    \/ q.snk = Serving(p.dpm_event)
    \/ Blocked(q)
    \/ q.cad # p.cad

LEMMA HandleDpmKeeps ==
  ASSUME NEW p, AtRest(p)
  PROVE  /\ AtRest(HandleDpm(p))
         /\ HandleDpm(p).cad = p.cad
         /\ Kept(p, HandleDpm(p))
  <1> DEFINE q == [p EXCEPT !.current_callback = IF @ = NONE THEN p.callback ELSE @]
             r == [q EXCEPT !.dpm_event = NONE]
             d == DpmRequest(r, p.dpm_event)
  <1>1. Settles(p, q)
    BY DEF AtRest, Settled, Port, Fields, Settles, Keeps
  <1>2. HandleDpm(p) = IF p.dpm_event = NONE \/ p.snk # "READY" THEN q
                       ELSE NextCallback(d)
    BY DEF HandleDpm
  <1> HIDE DEF q
  <1>3. AtRest(r) /\ r.cad = p.cad
    BY <1>1 DEF AtRest, Settled, Port, Fields, Settles, Keeps, RequestType
  <1> HIDE DEF r
  <1>4. CASE p.dpm_event = NONE \/ p.snk # "READY"
    <2>1. HandleDpm(p) = q
      BY <1>2, <1>4
    <2> QED
      BY <1>1, <2>1, Rests DEF Settles, Keeps, Kept
  <1>5. CASE ~(p.dpm_event = NONE \/ p.snk # "READY")
    <2>1. p.dpm_event \in RequestType \ {NONE}
      BY <1>5 DEF AtRest, Settled, Port
    <2>2. Settles(r, d) /\ (d.snk = Serving(p.dpm_event) \/ Blocked(d))
      BY <1>3, <2>1, DpmSettles DEF AtRest, Settled
    <2>3. HandleDpm(p) = NextCallback(d)
      BY <1>2, <1>5
    <2>4. AtRest(d) /\ d.cad = p.cad
      BY <1>3, <2>2, Rests DEF Settles, Keeps
    <2> HIDE DEF d
    <2>5. /\ AtRest(NextCallback(d))
          /\ NextCallback(d).cad = d.cad
          /\ NextCallback(d).snk = d.snk
          /\ NextCallback(d).extended = d.extended
      BY <2>4 DEF NextCallback, AtRest, Settled, Port, Fields
    <2> QED
      BY <2>2, <2>3, <2>4, <2>5 DEF Kept, Blocked
  <1> QED
    BY <1>4, <1>5

LEMMA EventsSettle ==
  ASSUME NEW p, Settled(p), NEW phy, NEW timer, NEW gated
  PROVE  Settles(p, HandleEvents(p, phy, timer, gated))
  <1> DEFINE q == IF ~gated /\ timer # NONE THEN TimerDelta(p, timer) ELSE p
  <1>1. PICK event : HandleEvents(p, phy, timer, gated) =
                       IF phy = "HRD_RECEIVED" THEN HrdReceived(p) ELSE PhyDelta(q, event)
    BY DEF HandleEvents
  <1>2. Settles(p, q)
    BY TimerDeltaSettles, SettledChains
  <1> HIDE DEF q
  <1>3. Settles(q, PhyDelta(q, event))
    BY <1>2, PhyDeltaSettles, SettledChains
  <1> QED
    BY <1>1, <1>2, <1>3, HrdSettles, SettledChains

\* Whatever is in the slots, the handler returns with both state machines waiting, and
\* loses no request.
THEOREM HandlerRests ==
  ASSUME NEW p, AtRest(p), NEW pwr, NEW phy, NEW timer
  PROVE  /\ AtRest(UCPD_PE_PRL_Handler(p, pwr, phy, timer))
         /\ Kept(p, UCPD_PE_PRL_Handler(p, pwr, phy, timer))
  <1> DEFINE a == PwrDelta(p, pwr)
             b == HandleConnection(p, a, phy, timer)
             c == HandleDpm(b)
  <1>1. AtRest(a) /\ (Settles(p, a) \/ a.cad # p.cad)
    BY PwrRests
  <1>2. UCPD_PE_PRL_Handler(p, pwr, phy, timer) = c
    BY DEF UCPD_PE_PRL_Handler
  <1> HIDE DEF a
  <1>3. Settles(a, b)
    BY <1>1, EventsSettle, SettledChains DEF HandleConnection, AtRest
  <1> HIDE DEF b
  <1>4. AtRest(b)
    BY <1>1, <1>3, Rests
  <1>5. AtRest(c) /\ c.cad = b.cad /\ Kept(b, c)
    BY <1>4, HandleDpmKeeps
  <1> HIDE DEF c
  <1>6. CASE a.cad # p.cad
    <2>1. c.cad # p.cad
      BY <1>3, <1>5, <1>6 DEF Settles, Keeps
    <2> QED
      BY <1>2, <1>5, <2>1 DEF Kept
  <1>7. CASE Settles(p, a)
    <2>1. p.dpm_event # NONE => b.dpm_event = p.dpm_event
      BY <1>3, <1>7 DEF Settles, Keeps
    <2>2. b.cad = p.cad
      BY <1>3, <1>7 DEF Settles, Keeps
    <2> QED
      BY <1>2, <1>5, <2>1, <2>2 DEF Kept
  <1> QED
    BY <1>1, <1>6, <1>7

-----------------------------------------------------------------------------
\* The keep-alive timer, in EPR mode

\* Not in EPR mode, and not about to be: leaving EPR_MODE_ENTRY_WAIT_FOR_RESPONSE enters it.
Apart(q) == ~q.epr_mode /\ q.snk # "EPR_MODE_ENTRY_WAIT_FOR_RESPONSE"

\* READY in EPR mode has its timer.
Lively(q) == q.snk = "READY" /\ q.epr_mode => q.tim[1] = "SINK_EPR_KEEP_ALIVE"

\* A hard reset of the port, or an entry that has not been sent, is outside EPR mode; the
\* hardware has been asked for the hard reset, and none of the source is being handled.
Origin(q) == q.hrdOriginPE => Apart(q)
Entering(q) == q.entering_epr => Apart(q)
Asked(q) == q.hrdOriginPE => q.air.kind = "HardReset"
Acting(q) == q.hardResetActive => q.hrdOriginPE

Tracks(q) ==
  /\ {"snk", "rch", "epr_mode", "entering_epr", "hrdOriginPE", "hardResetActive", "air",
      "tim"} \subseteq DOMAIN q
  /\ DOMAIN q.tim = {0, 1}

\* From q to r: no reset and no entry begins; the policy engine stays (Slips), and does not
\* lose its timer (Idles).
Carries(q, r) ==
  /\ DOMAIN r = DOMAIN q /\ DOMAIN r.tim = DOMAIN q.tim
  /\ r.hrdOriginPE = q.hrdOriginPE /\ r.entering_epr = q.entering_epr
  /\ r.hardResetActive => q.hardResetActive
  /\ q.air.kind = "HardReset" => r.air.kind = "HardReset"
  /\ Apart(q) => ~r.epr_mode
Slips(q, r) == Carries(q, r) /\ r.snk = q.snk /\ r.epr_mode = q.epr_mode
Idles(q, r) ==
  Slips(q, r) /\ (q.tim[1] = "SINK_EPR_KEEP_ALIVE" => r.tim[1] = "SINK_EPR_KEEP_ALIVE")

\* From q to r the policy engine comes to a state in which its timer runs if it has to, also
\* when an entry to EPR mode is begun (Wakes) and when not (Minds).
Wakes(q, r) ==
  /\ DOMAIN r = DOMAIN q /\ DOMAIN r.tim = DOMAIN q.tim
  /\ Lively(r)
  /\ Origin(q) => Origin(r)
  /\ Asked(q) => Asked(r)
  /\ Acting(q) => Acting(r)
Minds(q, r) == Wakes(q, r) /\ (Entering(q) => Entering(r))

\* The policy engine starts over, out of EPR mode, with no hard reset.
Anew(q, r) ==
  /\ DOMAIN r = DOMAIN q /\ DOMAIN r.tim = DOMAIN q.tim
  /\ Apart(r) /\ ~r.hrdOriginPE /\ ~r.hardResetActive

LEMMA IdleChains ==
  ASSUME NEW q, NEW r, NEW s
  PROVE  /\ Carries(q, r) /\ r.snk \notin {"READY", "EPR_MODE_ENTRY_WAIT_FOR_RESPONSE"} =>
              Minds(q, r)
         /\ Slips(q, r) /\ Slips(r, s) => Slips(q, s)
         /\ Idles(q, r) /\ Idles(r, s) => Idles(q, s)
         /\ Carries(q, r) /\ Slips(r, s) => Carries(q, s) /\ s.snk = r.snk
         /\ Idles(q, r) => Slips(q, r)
         /\ Slips(q, r) => Carries(q, r)
         /\ Idles(q, r) /\ Lively(q) => Minds(q, r)
         /\ Carries(q, r) /\ Lively(r) /\ r.snk # "EPR_MODE_ENTRY_WAIT_FOR_RESPONSE" =>
              Minds(q, r)
  BY DEF Carries, Slips, Idles, Minds, Wakes, Apart, Lively, Origin, Entering, Asked, Acting

LEMMA MindChains ==
  ASSUME NEW q, NEW r, NEW s
  PROVE  /\ Minds(q, r) => Wakes(q, r)
         /\ Minds(q, r) /\ Minds(r, s) => Minds(q, s)
         /\ Wakes(q, r) /\ Wakes(r, s) => Wakes(q, s)
         /\ Minds(q, r) /\ Idles(r, s) => Minds(q, s)
         /\ Wakes(q, r) /\ Idles(r, s) => Wakes(q, s)
         /\ Slips(q, r) /\ Minds(r, s) => Minds(q, s)
         /\ Slips(q, r) /\ Wakes(r, s) => Wakes(q, s)
         /\ Anew(q, r) => Minds(q, r)
         /\ Carries(q, r) /\ Anew(r, s) => Anew(q, s)
  BY DEF Carries, Slips, Idles, Minds, Wakes, Anew, Apart, Lively, Origin, Entering, Asked,
         Acting

LEMMA TrackChains ==
  ASSUME NEW q, Tracks(q), NEW r
  PROVE  (Carries(q, r) \/ Slips(q, r) \/ Idles(q, r) \/ Wakes(q, r) \/ Minds(q, r)) => Tracks(r)
  BY DEF Tracks, Carries, Slips, Idles, Minds, Wakes

LEMMA PortTracks == ASSUME NEW q, Port(q) PROVE Tracks(q)
  BY DEF Port, Fields, TimType, Tracks

LEMMA IdleTimers ==
  ASSUME NEW q, Tracks(q)
  PROVE  /\ Idles(q, q)
         /\ \A t : Slips(q, UCPD_TIM_Start(q, t)) /\ Slips(q, UCPD_TIM_Stop(q, t))
         /\ \A t : t \notin Channel1 => Idles(q, UCPD_TIM_Start(q, t))
         /\ \A t : t # "SINK_EPR_KEEP_ALIVE" => Idles(q, UCPD_TIM_Stop(q, t))
         /\ Slips(q, StopAllTimers(q))
         /\ UCPD_TIM_Start(q, "SINK_EPR_KEEP_ALIVE").tim[1] = "SINK_EPR_KEEP_ALIVE"
  BY DEF Tracks, Carries, Slips, Idles, UCPD_TIM_Start, UCPD_TIM_Stop, StopAllTimers,
         UCPD_TIMER_CHANNEL, Apart, Channel1

LEMMA IdleDown ==
  ASSUME NEW q, Tracks(q)
  PROVE  /\ Idles(q, IncrementMID(q))
         /\ Idles(q, UCPD_PHY_SendMessage(q)) /\ Idles(q, UCPD_PHY_SendHardReset(q))
         /\ Idles(q, UCPD_PHY_HRDRS_Completed(q))
         /\ Idles(q, TxWaitForMessageRequest(q)) /\ Idles(q, RchWaitForMessage(q))
         /\ Idles(q, TchWaitForRequest(q)) /\ Idles(q, PrlInit(q))
         /\ UCPD_PHY_SendHardReset(q).air.kind = "HardReset"
         /\ ~UCPD_PHY_HRDRS_Completed(q).hardResetActive
  BY DEF Tracks, Carries, Slips, Idles, IncrementMID, UCPD_PHY_SendMessage,
         UCPD_PHY_SendHardReset, UCPD_PHY_HRDRS_Completed, TxWaitForMessageRequest,
         RchWaitForMessage, TchWaitForRequest, PrlInit, NoMessage, Apart

LEMMA IdleConstruct == ASSUME NEW q, Tracks(q) PROVE Idles(q, TxConstructMessage(q))
  BY IdleDown DEF Tracks, Carries, Slips, Idles, TxConstructMessage, UCPD_PHY_SendMessage, Apart

LEMMA IdleRequest == ASSUME NEW q, Tracks(q) PROVE Idles(q, TxRequest(q))
  BY IdleConstruct DEF Tracks, Carries, Slips, Idles, TxRequest, TxPending, Apart

LEMMA IdlePassDown ==
  ASSUME NEW q, Tracks(q)
  PROVE  Idles(q, PassDown(q)) /\ Slips(q, ResetLayers(q))
  <1>1. Idles(q, TchPassDownMessage(q))
    <2> DEFINE a == [q EXCEPT !.tch = "WAIT_FOR_TRANSMISSION_COMPLETE"]
    <2>1. Tracks(a) /\ Idles(q, a)
      BY DEF Tracks, Carries, Slips, Idles, Apart
    <2> QED
      BY <2>1, IdleRequest, IdleChains DEF TchPassDownMessage
  <1>2. Idles(q, TchSendChunk(q))
    <2> DEFINE a == [q EXCEPT !.tch = "SENDING_CHUNKED_MESSAGE", !.txKind = "KeepAlive"]
    <2>1. Tracks(a) /\ Idles(q, a)
      BY DEF Tracks, Carries, Slips, Idles, Apart
    <2> QED
      BY <2>1, IdleRequest, IdleChains DEF TchSendChunk
  <1>3. Slips(q, ResetLayers(q))
    <2> DEFINE a == StopAllTimers(q)
    <2>1. Slips(q, a)
      BY IdleTimers
    <2>2. Tracks(a)
      BY <2>1, TrackChains
    <2> HIDE DEF a
    <2>3. Idles(a, PrlInit(a))
      BY <2>2, IdleDown
    <2> QED
      BY <2>1, <2>3, IdleChains DEF ResetLayers, a
  <1> QED
    BY <1>1, <1>2, <1>3 DEF PassDown

\* The calls of the application
LEMMA IdleCalls ==
  ASSUME NEW q, Tracks(q)
  PROVE  /\ \A place : Idles(q, UserCode(q, place))
         /\ \A status : Idles(q, Callback(q, status)) /\ Idles(q, EndRequest(q, status))
         /\ Idles(q, EndPolicyRequest(q))
  <1>1. \A a : Tracks(a) => \A call, running : Idles(a, UserCall(a, call, running))
    BY DEF UserCall, Tracks, Carries, Slips, Idles, Apart
  <1>2. \A a : Tracks(a) => \A place : Idles(a, UserCode(a, place))
    <2> SUFFICES ASSUME NEW a, Tracks(a), NEW place PROVE Idles(a, UserCode(a, place))
      OBVIOUS
    <2> DEFINE b == [a EXCEPT !.user = NoUserCode]
    <2>1. Tracks(b) /\ Idles(a, b) /\ Idles(a, a)
      BY DEF Tracks, Carries, Slips, Idles, Apart
    <2>2. UserCode(a, place) \in {a, UserCall(b, a.user.call, place = "POLICY")}
      BY DEF UserCode
    <2> HIDE DEF b
    <2> QED
      BY <2>1, <2>2, <1>1, IdleChains
  <1>3. \A a : Tracks(a) => \A status : Idles(a, Callback(a, status))
    <2> SUFFICES ASSUME NEW a, Tracks(a), NEW status PROVE Idles(a, Callback(a, status))
      OBVIOUS
    <2> DEFINE u == UserCode(a, "CALLBACK")
               v == [u EXCEPT !.current_callback = NONE,
                              !.told = [request |-> a.current_callback, status |-> status]]
    <2>1. Idles(a, u) /\ Idles(a, a)
      BY <1>2, IdleTimers
    <2>2. Callback(a, status) \in {a, v}
      BY DEF Callback
    <2>3. Tracks(u)
      BY <2>1, TrackChains
    <2> HIDE DEF u
    <2>4. Idles(u, v)
      BY <2>3 DEF Tracks, Carries, Slips, Idles, Apart
    <2> QED
      BY <2>1, <2>2, <2>4, IdleChains
  <1>4. \A status : Idles(q, EndRequest(q, status))
    <2> SUFFICES ASSUME NEW status PROVE Idles(q, EndRequest(q, status))
      OBVIOUS
    <2> DEFINE c == Callback(q, status)
    <2>1. Idles(q, c)
      BY <1>3
    <2>2. Tracks(c)
      BY <2>1, TrackChains
    <2> HIDE DEF c
    <2>3. Idles(c, [c EXCEPT !.status = status, !.sync_operation = FALSE])
      BY <2>2 DEF Tracks, Carries, Slips, Idles, Apart
    <2> QED
      BY <2>1, <2>3, IdleChains DEF EndRequest, c
  <1>5. Idles(q, EndPolicyRequest(q))
    <2> DEFINE a == [q EXCEPT !.status = "SUCCESS", !.sync_operation = FALSE]
    <2>1. Tracks(a) /\ Idles(q, a) /\ Idles(q, q)
      BY DEF Tracks, Carries, Slips, Idles, Apart
    <2>2. EndPolicyRequest(q) \in {Callback(a, "SUCCESS"), q}
      BY DEF EndPolicyRequest
    <2> HIDE DEF a
    <2> QED
      BY <2>1, <2>2, <1>3, IdleChains
  <1> QED
    BY <1>2, <1>3, <1>4, <1>5

\* The states of the policy engine
LEMMA GoCarries ==
  ASSUME NEW q, Tracks(q)
  PROVE  \A state : /\ Carries(q, Go(q, state)) /\ Go(q, state).snk = state
                    /\ Tracks(Go(q, state))
                    /\ q.snk = "TRANSITION_TO_DEFAULT" => ~Go(q, state).hardResetActive
  <1> DEFINE x == UCPD_PE_SM_SNK_Exit(q)
  <1>1. Carries(q, x) /\ (q.snk = "TRANSITION_TO_DEFAULT" => ~x.hardResetActive)
    <2>1. \A a : Tracks(a) => \A t : t # "SINK_EPR_KEEP_ALIVE" => Idles(a, UCPD_TIM_Stop(a, t))
      BY IdleTimers
    <2>2. \A a : Tracks(a) => /\ \A place : Idles(a, UserCode(a, place))
                              /\ \A status : Idles(a, EndRequest(a, status))
      BY IdleCalls
    <2>3. CASE q.snk = "EVALUATE_CAPABILITY"
      BY <2>1, <2>3, IdleChains DEF UCPD_PE_SM_SNK_Exit
    <2>4. CASE q.snk = "TRANSITION_SINK"
      <3> DEFINE a == UCPD_TIM_Stop(q, IF q.epr_mode THEN "SINK_EPR_TRANSITION"
                                       ELSE "PS_TRANSITION")
      <3>1. Idles(q, a)
        BY <2>1
      <3>2. x = UserCode(a, "POLICY")
        BY <2>4 DEF UCPD_PE_SM_SNK_Exit
      <3> HIDE DEF a, x
      <3>3. Idles(a, x)
        BY <3>1, <3>2, <2>2, TrackChains
      <3> QED
        BY <2>4, <3>1, <3>3, IdleChains
    <2>5. CASE q.snk = "READY"
      <3> DEFINE a == UCPD_TIM_Stop(q, "SINK_PPS_PERIODIC")
      <3>1. Idles(q, a)
        BY <2>1
      <3>2. x \in {[a EXCEPT !.ams = TRUE, !.pps_contract = FALSE], [q EXCEPT !.ams = TRUE]}
        BY <2>5 DEF UCPD_PE_SM_SNK_Exit
      <3>3. Tracks(a)
        BY <3>1, TrackChains
      <3> HIDE DEF a, x
      <3> QED
        BY <2>5, <3>1, <3>2, <3>3 DEF Tracks, Carries, Slips, Idles, Apart
    <2>6. CASE q.snk = "TRANSITION_TO_DEFAULT"
      BY <2>6, IdleDown, IdleChains DEF UCPD_PE_SM_SNK_Exit
    <2>7. CASE q.snk = "EPR_MODE_ENTRY_WAIT_FOR_RESPONSE"
      <3> DEFINE a == [q EXCEPT !.epr_mode = TRUE]
                 e == EndRequest(a, "SUCCESS")
      <3>1. Tracks(a) /\ Carries(q, a)
        BY <2>7 DEF Tracks, Carries, Apart
      <3>2. x = UCPD_TIM_Stop(e, "SINK_EPR_ENTER")
        BY <2>7 DEF UCPD_PE_SM_SNK_Exit
      <3> HIDE DEF a
      <3>3. Idles(a, e)
        BY <3>1, <2>2
      <3>4. Tracks(e)
        BY <3>1, <3>3, TrackChains
      <3> HIDE DEF e, x
      <3>5. Idles(e, x)
        BY <3>2, <3>4, <2>1
      <3> QED
        BY <2>7, <3>1, <3>3, <3>5, IdleChains
    <2>8. CASE q.snk = "SEND_EPR_MODE_EXIT"
      <3> DEFINE a == [q EXCEPT !.epr_mode = FALSE]
                 e == EndRequest(a, "SUCCESS")
      <3>1. Tracks(a) /\ Carries(q, a)
        BY <2>8 DEF Tracks, Carries, Apart
      <3>2. x = UCPD_TIM_Stop(e, "SINK_EPR_KEEP_ALIVE")
        BY <2>8 DEF UCPD_PE_SM_SNK_Exit
      <3> HIDE DEF a
      <3>3. Idles(a, e)
        BY <3>1, <2>2
      <3>4. Tracks(e)
        BY <3>1, <3>3, TrackChains
      <3> HIDE DEF e, x
      <3>5. Slips(e, x)
        BY <3>2, <3>4, IdleTimers
      <3> QED
        BY <2>8, <3>1, <3>3, <3>5, IdleChains
    <2>9. CASE q.snk \notin {"EVALUATE_CAPABILITY", "TRANSITION_SINK", "READY",
                             "TRANSITION_TO_DEFAULT", "EPR_MODE_ENTRY_WAIT_FOR_RESPONSE",
                             "SEND_EPR_MODE_EXIT"}
      <3>1. x = q
        BY <2>9 DEF UCPD_PE_SM_SNK_Exit
      <3> QED
        BY <2>9, <3>1, IdleTimers, IdleChains
    <2> QED
      BY <2>3, <2>4, <2>5, <2>6, <2>7, <2>8, <2>9
  <1>2. Tracks(x)
    BY <1>1, TrackChains
  <1>3. \A state : Go(q, state) = [x EXCEPT !.snk = state]
    BY DEF Go
  <1> HIDE DEF x
  <1> QED
    BY <1>1, <1>2, <1>3 DEF Tracks, Carries, Apart

LEMMA MindWait ==
  ASSUME NEW q, Tracks(q)
  PROVE  LET r == EnterWaitForCapabilities(q)
         IN  Minds(q, r) /\ Carries(q, r) /\ r.snk = "WAIT_FOR_CAPABILITIES"
  <1> DEFINE g == Go(q, "WAIT_FOR_CAPABILITIES")
             b == [g EXCEPT !.explicit_contract = FALSE]
  <1>1. Tracks(g) /\ Carries(q, g) /\ g.snk = "WAIT_FOR_CAPABILITIES"
    BY GoCarries
  <1>2. EnterWaitForCapabilities(q) = UCPD_TIM_Start(b, "SINK_WAIT_CAP")
    BY DEF EnterWaitForCapabilities
  <1> HIDE DEF g
  <1>3. Tracks(b) /\ Slips(g, b)
    BY <1>1 DEF Tracks, Carries, Slips, Apart
  <1> HIDE DEF b
  <1>4. Slips(b, UCPD_TIM_Start(b, "SINK_WAIT_CAP"))
    BY <1>3, IdleTimers
  <1> HIDE <1>2
  <1>5. /\ Carries(q, UCPD_TIM_Start(b, "SINK_WAIT_CAP"))
        /\ UCPD_TIM_Start(b, "SINK_WAIT_CAP").snk = "WAIT_FOR_CAPABILITIES"
    BY <1>1, <1>3, <1>4, IdleChains
  <1> QED
    BY <1>2, <1>5, IdleChains

\* UCPD_PE_SM_SNK_Enter(STARTUP) on a fresh port, or after the hard reset has been completed
LEMMA StartsAnew ==
  ASSUME NEW q, Tracks(q), q.snk = "TRANSITION_TO_DEFAULT" \/ ~q.hardResetActive
  PROVE  Anew(q, EnterStartup(q))
  <1> DEFINE g == Go(q, "STARTUP")
             b == [g EXCEPT !.hrdOriginPE = FALSE, !.epr_mode = FALSE]
             d == Go(b, "DISCOVERY")
             c == [d EXCEPT !.vS0_to_vS5 = FALSE]
  <1>1. Tracks(g) /\ Carries(q, g) /\ ~g.hardResetActive /\ g.snk = "STARTUP"
    BY GoCarries DEF Carries
  <1>2. EnterStartup(q) \in {EnterWaitForCapabilities(c), d}
    BY DEF EnterStartup, EnterDiscovery, LeaveDiscovery
  <1> HIDE DEF g
  <1>3. Tracks(b) /\ Anew(q, b) /\ b.snk = "STARTUP"
    BY <1>1 DEF Tracks, Carries, Anew, Apart
  <1> HIDE DEF b
  <1>4. Carries(b, d) /\ d.snk = "DISCOVERY" /\ Tracks(d)
    BY <1>3, GoCarries
  <1> HIDE DEF d
  <1>5. Carries(b, c) /\ Tracks(c) /\ c.snk = "DISCOVERY"
    BY <1>4 DEF Tracks, Carries, Apart
  <1> HIDE DEF c
  <1>6. Carries(c, EnterWaitForCapabilities(c))
          /\ EnterWaitForCapabilities(c).snk = "WAIT_FOR_CAPABILITIES"
    BY <1>5, MindWait
  <1> QED
    BY <1>2, <1>3, <1>4, <1>5, <1>6 DEF Anew, Carries, Apart

LEMMA DefaultAnew == ASSUME NEW q, Tracks(q) PROVE Anew(q, EnterTransitionToDefault(q))
  <1> DEFINE g == Go(q, "TRANSITION_TO_DEFAULT")
             k == StopKeepAlive(g)
             c == Callback(k, "SUCCESS")
             b == [c EXCEPT !.explicit_contract = FALSE, !.pps_contract = FALSE,
                            !.ams = FALSE, !.ams_first_sent = FALSE,
                            !.hrdOriginPE = FALSE, !.extended = FALSE,
                            !.sync_operation = FALSE]
             u == UserCode(b, "POLICY")
  <1>1. Tracks(g) /\ Carries(q, g) /\ g.snk = "TRANSITION_TO_DEFAULT"
    BY GoCarries
  <1>2. EnterTransitionToDefault(q) = EnterStartup(u)
    BY DEF EnterTransitionToDefault
  <1> HIDE DEF g
  <1>3. Slips(g, k)
    BY <1>1, IdleTimers, IdleChains DEF StopKeepAlive
  <1>4. Tracks(k)
    BY <1>1, <1>3, TrackChains
  <1> HIDE DEF k
  <1>5. Idles(k, c)
    BY <1>4, IdleCalls
  <1>6. Tracks(c) /\ c.snk = "TRANSITION_TO_DEFAULT"
           /\ DOMAIN c = DOMAIN q /\ DOMAIN c.tim = DOMAIN q.tim
    BY <1>1, <1>3, <1>4, <1>5, TrackChains DEF Carries, Slips, Idles
  <1> HIDE DEF c
  <1>7. Tracks(b) /\ b.snk = "TRANSITION_TO_DEFAULT"
           /\ DOMAIN b = DOMAIN q /\ DOMAIN b.tim = DOMAIN q.tim
    BY <1>6 DEF Tracks
  <1> HIDE DEF b
  <1>8. Idles(b, u)
    BY <1>7, IdleCalls
  <1>9. Tracks(u) /\ u.snk = "TRANSITION_TO_DEFAULT"
           /\ DOMAIN u = DOMAIN q /\ DOMAIN u.tim = DOMAIN q.tim
    BY <1>7, <1>8, TrackChains DEF Carries, Slips, Idles
  <1> HIDE DEF u
  <1> QED
    BY <1>2, <1>9, StartsAnew DEF Anew

\* A hard reset of the port is outside EPR mode from its first step on.
LEMMA RequestAsks ==
  ASSUME NEW q, Tracks(q)
  PROVE  Slips(q, RequestHardReset(q)) /\ RequestHardReset(q).air.kind = "HardReset"
  <1> DEFINE a == ResetLayers(q)
             b == UCPD_PHY_SendHardReset(a)
             c == UCPD_TIM_Start(b, "HARD_RESET_COMPLETE")
  <1>1. Slips(q, a)
    BY IdlePassDown
  <1>2. Tracks(a)
    BY <1>1, TrackChains
  <1>3. RequestHardReset(q) = c
    BY DEF RequestHardReset
  <1> HIDE DEF a
  <1>4. Idles(a, b) /\ b.air.kind = "HardReset"
    BY <1>2, IdleDown
  <1>5. Tracks(b)
    BY <1>2, <1>4, TrackChains
  <1> HIDE DEF b
  <1>6. Slips(b, c)
    BY <1>5, IdleTimers
  <1> HIDE DEF c
  <1>7. Slips(a, b)
    BY <1>4, IdleChains
  <1>8. Slips(q, c)
    BY <1>1, <1>6, <1>7, IdleChains
  <1> QED
    BY <1>3, <1>4, <1>6, <1>8 DEF Slips, Carries

LEMMA MindHardReset == ASSUME NEW q, Tracks(q) PROVE Minds(q, EnterHardReset(q))
  <1> DEFINE g == Go(q, "HARD_RESET")
             b == [g EXCEPT
                     !.hrdOriginPE = TRUE, !.hardResetActive = TRUE, !.pps_contract = FALSE,
                     !.ams = FALSE, !.ams_first_sent = FALSE, !.epr_mode = FALSE]
             r == RequestHardReset(b)
  <1>1. Tracks(g) /\ Carries(q, g) /\ g.snk = "HARD_RESET"
    BY GoCarries
  <1>2. EnterHardReset(q) = r
    BY DEF EnterHardReset
  <1> HIDE DEF g
  <1>3. /\ Tracks(b) /\ DOMAIN b = DOMAIN q /\ DOMAIN b.tim = DOMAIN q.tim
        /\ b.snk = "HARD_RESET" /\ ~b.epr_mode /\ b.hrdOriginPE
    BY <1>1 DEF Tracks, Carries
  <1> HIDE DEF b
  <1>4. Slips(b, r) /\ r.air.kind = "HardReset"
    BY <1>3, RequestAsks
  <1> HIDE DEF r
  <1> QED
    BY <1>2, <1>3, <1>4
    DEF Minds, Wakes, Slips, Carries, Lively, Origin, Entering, Asked, Acting, Apart

\* HRD_SENT and HRD_RECEIVED
Awake(q) == Lively(q) /\ Origin(q) /\ Asked(q) /\ Acting(q)

LEMMA ResetsAnew ==
  ASSUME NEW q, Tracks(q)
  PROVE  /\ Anew(q, HardResetSent(q))
         /\ Origin(q) => Awake(HrdReceived(q))
  <1>1. Anew(q, HardResetSent(q))
    <2> DEFINE a == UCPD_TIM_Stop(q, "HARD_RESET_COMPLETE")
               b == UCPD_PHY_HRDRS_Completed(a)
    <2>1. Slips(q, a)
      BY IdleTimers
    <2>2. Tracks(a)
      BY <2>1, TrackChains
    <2>3. HardResetSent(q) = EnterTransitionToDefault(b)
      BY DEF HardResetSent
    <2> HIDE DEF a
    <2>4. Slips(a, b)
      <3>1. Idles(a, b)
        BY <2>2, IdleDown
      <3> QED
        BY <3>1, IdleChains
    <2>5. Tracks(b)
      BY <2>2, <2>4, TrackChains
    <2> HIDE DEF b
    <2>6. Anew(b, EnterTransitionToDefault(b))
      BY <2>5, DefaultAnew
    <2>7. Carries(q, b)
      BY <2>1, <2>4, IdleChains
    <2> QED
      BY <2>3, <2>6, <2>7, MindChains
  <1>2. Anew(q, IndicateHardReset(q))
    <2> DEFINE a == ResetLayers(q)
               b == UCPD_PHY_HRDRS_Completed(a)
               c == EndRequest(b, "CANCELLED")
    <2>1. Slips(q, a)
      BY IdlePassDown
    <2>2. Tracks(a)
      BY <2>1, TrackChains
    <2>3. IndicateHardReset(q) = EnterTransitionToDefault(c)
      BY DEF IndicateHardReset
    <2> HIDE DEF a
    <2>4. Slips(a, b)
      <3>1. Idles(a, b)
        BY <2>2, IdleDown
      <3> QED
        BY <3>1, IdleChains
    <2>5. Tracks(b)
      BY <2>2, <2>4, TrackChains
    <2> HIDE DEF b
    <2>6. Slips(b, c)
      BY <2>5, IdleCalls, IdleChains
    <2>7. Tracks(c)
      BY <2>5, <2>6, TrackChains
    <2> HIDE DEF c
    <2>8. Anew(c, EnterTransitionToDefault(c))
      BY <2>7, DefaultAnew
    <2>9. Slips(q, b)
      BY <2>1, <2>4, IdleChains
    <2>10. Carries(q, c)
      BY <2>6, <2>9, IdleChains
    <2> QED
      BY <2>3, <2>8, <2>10, MindChains
  <1>3. CASE q.hrdOriginPE
    BY <1>1, <1>3, RequestAsks
    DEF HrdReceived, Awake, Slips, Carries, Lively, Origin, Asked, Acting, Apart
  <1>4. CASE ~q.hrdOriginPE
    BY <1>1, <1>2, <1>4 DEF HrdReceived, Awake, Anew, Lively, Origin, Asked, Acting, Apart
  <1> QED
    BY <1>1, <1>3, <1>4

LEMMA MindReady == ASSUME NEW q, Tracks(q) PROVE Minds(q, EnterReady(q))
  <1> DEFINE g == Go(q, "READY")
             a == [g EXCEPT !.ams = FALSE, !.explicit_contract = TRUE, !.ams_first_sent = FALSE]
             b == StartPPSPeriodic(a)
             c == StartKeepAlive(b)
  <1>1. Tracks(g) /\ Carries(q, g) /\ g.snk = "READY"
    BY GoCarries
  <1>2. EnterReady(q) = c
    BY DEF EnterReady
  <1> HIDE DEF g
  <1>3. Tracks(a) /\ Slips(g, a) /\ Slips(a, a)
    BY <1>1 DEF Tracks, Carries, Slips, Apart
  <1> HIDE DEF a
  <1>4. Slips(a, b)
    BY <1>3, IdleTimers DEF StartPPSPeriodic
  <1>5. Tracks(b)
    BY <1>3, <1>4, TrackChains
  <1> HIDE DEF b
  <1>6. Slips(b, c) /\ (c.epr_mode => c.tim[1] = "SINK_EPR_KEEP_ALIVE")
    BY <1>5, IdleTimers, IdleChains DEF StartKeepAlive, Slips
  <1> HIDE DEF c
  <1>7. Carries(q, c) /\ c.snk = "READY"
    BY <1>1, <1>3, <1>4, <1>6, IdleChains DEF Slips
  <1> QED
    BY <1>2, <1>6, <1>7, IdleChains DEF Lively


\* The other states are entered by way of Go, and most of them send a message.
LEMMA CarryChains ==
  ASSUME NEW q, NEW r, NEW s, Carries(q, r), r.snk # "EPR_MODE_ENTRY_WAIT_FOR_RESPONSE"
  PROVE  /\ Minds(r, s) => Minds(q, s)
         /\ Wakes(r, s) => Wakes(q, s)
  BY DEF Carries, Minds, Wakes, Apart, Lively, Origin, Entering, Asked, Acting

LEMMA MindError ==
  ASSUME NEW q, Tracks(q)
  PROVE  /\ Minds(q, EnterSendSoftReset(q)) /\ Minds(q, TransmissionError(q))
         /\ Minds(q, RchTransmissionError(q))
  <1>1. \A a : Tracks(a) => Minds(a, EnterSendSoftReset(a))
    <2> SUFFICES ASSUME NEW a, Tracks(a) PROVE Minds(a, EnterSendSoftReset(a))
      OBVIOUS
    <2> DEFINE g == Go(a, "SEND_SOFT_RESET")
               i == PrlInit(g)
               b == [i EXCEPT !.txKind = "Soft_Reset"]
               r == PassDown(b)
    <2>1. Tracks(g) /\ Carries(a, g) /\ g.snk = "SEND_SOFT_RESET"
      BY GoCarries
    <2>2. EnterSendSoftReset(a) = r
      BY DEF EnterSendSoftReset
    <2> HIDE DEF g
    <2>3. Idles(g, i)
      BY <2>1, IdleDown
    <2>4. Tracks(i)
      BY <2>1, <2>3, TrackChains
    <2> HIDE DEF i
    <2>5. Tracks(b) /\ Idles(i, b)
      BY <2>4 DEF Tracks, Carries, Slips, Idles, Apart
    <2> HIDE DEF b
    <2>6. Idles(b, r)
      BY <2>5, IdlePassDown
    <2> HIDE DEF r
    <2>7. Idles(g, b)
      BY <2>3, <2>5, IdleChains
    <2>8. Idles(g, r)
      BY <2>6, <2>7, IdleChains
    <2>9. Carries(a, r) /\ r.snk = "SEND_SOFT_RESET"
      BY <2>1, <2>8, IdleChains
    <2> QED
      BY <2>2, <2>9, IdleChains
  <1>2. \A a : Tracks(a) => Minds(a, TransmissionError(a))
    BY <1>1, MindHardReset, MindReady DEF TransmissionError
  <1>3. Minds(q, RchTransmissionError(q))
    <2> DEFINE w == RchWaitForMessage(q)
    <2>1. Idles(q, w)
      BY IdleDown
    <2>2. Tracks(w)
      BY <2>1, TrackChains
    <2>3. RchTransmissionError(q) = TransmissionError(w)
      BY DEF RchTransmissionError
    <2> HIDE DEF w
    <2>4. Minds(w, TransmissionError(w))
      BY <2>2, <1>2
    <2>5. Slips(q, w)
      BY <2>1, IdleChains
    <2> QED
      BY <2>3, <2>4, <2>5, MindChains
  <1> QED
    BY <1>1, <1>2, <1>3

\* A message that is not sent because a chunk is awaited ends in READY or in a reset.
LEMMA MindMessage ==
  ASSUME NEW q, Tracks(q), Lively(q)
  PROVE  Minds(q, MessageFromPE(q))
  <1> DEFINE a == [q EXCEPT !.tch = "REPORT_ERROR"]
             t == TransmissionError(a)
             r == TchWaitForRequest(t)
  <1>1. Tracks(a) /\ Slips(q, a)
    BY DEF Tracks, Carries, Slips, Apart
  <1>2. MessageFromPE(q) \in {r, PassDown(q)}
    BY DEF MessageFromPE
  <1> HIDE DEF a
  <1>3. Minds(a, t)
    BY <1>1, MindError
  <1>4. Tracks(t)
    BY <1>1, <1>3, TrackChains
  <1> HIDE DEF t
  <1>5. Idles(t, r)
    BY <1>4, IdleDown
  <1> HIDE DEF r
  <1>6. Minds(q, t)
    BY <1>1, <1>3, MindChains
  <1>7. Minds(q, r)
    BY <1>5, <1>6, MindChains
  <1>8. Idles(q, PassDown(q))
    BY IdlePassDown
  <1>9. Minds(q, PassDown(q))
    BY <1>8, IdleChains
  <1> QED
    BY <1>2, <1>7, <1>9

\* From a state that is not READY
LEMMA MindSay ==
  ASSUME NEW q, NEW b, Tracks(b), Carries(q, b),
         b.snk \notin {"READY", "EPR_MODE_ENTRY_WAIT_FOR_RESPONSE"}
  PROVE  Minds(q, MessageFromPE(b))
  <1>1. Lively(b)
    BY DEF Lively
  <1>2. Minds(b, MessageFromPE(b))
    BY <1>1, MindMessage
  <1> QED
    BY <1>2, CarryChains

LEMMA MindAnswers ==
  ASSUME NEW q, Tracks(q)
  PROVE  /\ Minds(q, EnterSendNotSupported(q)) /\ Minds(q, EnterSoftReset(q))
         /\ Minds(q, EnterSendEPRModeExit(q)) /\ Minds(q, EnterEPRModeExitReceived(q))
         /\ Minds(q, EnterEPRKeepAlive(q)) /\ Minds(q, EnterTransitionSink(q))
         /\ Wakes(q, EnterSendEPRModeEntry(q))
  <1>1. Minds(q, EnterSendNotSupported(q))
    <2> DEFINE g == Go(q, "SEND_NOT_SUPPORTED")
               b == [g EXCEPT !.txKind = "Not_Supported"]
    <2>1. Tracks(g) /\ Carries(q, g) /\ g.snk = "SEND_NOT_SUPPORTED"
      BY GoCarries
    <2>2. EnterSendNotSupported(q) = MessageFromPE(b)
      BY DEF EnterSendNotSupported
    <2> HIDE DEF g
    <2>3. Tracks(b) /\ Carries(q, b) /\ b.snk = "SEND_NOT_SUPPORTED"
      BY <2>1 DEF Tracks, Carries
    <2> HIDE DEF b
    <2> QED
      BY <2>2, <2>3, MindSay
  <1>2. Minds(q, EnterSoftReset(q))
    <2> DEFINE g == Go(q, "SOFT_RESET")
               b == [g EXCEPT !.txKind = "Accept"]
               e == EndRequest(b, "CANCELLED")
    <2>1. Tracks(g) /\ Carries(q, g) /\ g.snk = "SOFT_RESET"
      BY GoCarries
    <2>2. EnterSoftReset(q) = MessageFromPE(e)
      BY DEF EnterSoftReset
    <2> HIDE DEF g
    <2>3. Tracks(b) /\ Carries(q, b) /\ b.snk = "SOFT_RESET"
      BY <2>1 DEF Tracks, Carries
    <2> HIDE DEF b
    <2>4. Idles(b, e)
      BY <2>3, IdleCalls
    <2>5. Tracks(e)
      BY <2>3, <2>4, TrackChains
    <2> HIDE DEF e
    <2>6. Carries(q, e) /\ e.snk = "SOFT_RESET"
      BY <2>3, <2>4, IdleChains
    <2> QED
      BY <2>2, <2>5, <2>6, MindSay
  <1>3. Minds(q, EnterSendEPRModeExit(q))
    <2> DEFINE g == Go(q, "SEND_EPR_MODE_EXIT")
               b == [g EXCEPT !.txKind = "EPRExit"]
    <2>1. Tracks(g) /\ Carries(q, g) /\ g.snk = "SEND_EPR_MODE_EXIT"
      BY GoCarries
    <2>2. EnterSendEPRModeExit(q) = MessageFromPE(b)
      BY DEF EnterSendEPRModeExit
    <2> HIDE DEF g
    <2>3. Tracks(b) /\ Carries(q, b) /\ b.snk = "SEND_EPR_MODE_EXIT"
      BY <2>1 DEF Tracks, Carries
    <2> HIDE DEF b
    <2> QED
      BY <2>2, <2>3, MindSay
  <1>4. Minds(q, EnterEPRModeExitReceived(q))
    <2> DEFINE g == Go(q, "EPR_MODE_EXIT_RECEIVED")
               b == [g EXCEPT !.epr_mode = FALSE]
    <2>1. Tracks(g) /\ Carries(q, g) /\ g.snk = "EPR_MODE_EXIT_RECEIVED"
      BY GoCarries
    <2>2. EnterEPRModeExitReceived(q) = EnterWaitForCapabilities(b)
      BY DEF EnterEPRModeExitReceived
    <2> HIDE DEF g
    <2>3. Tracks(b) /\ Carries(q, b) /\ b.snk = "EPR_MODE_EXIT_RECEIVED"
      BY <2>1 DEF Tracks, Carries
    <2> HIDE DEF b
    <2>4. Minds(b, EnterWaitForCapabilities(b))
      BY <2>3, MindWait
    <2> QED
      BY <2>2, <2>3, <2>4, CarryChains
  <1>5. Minds(q, EnterEPRKeepAlive(q))
    <2> DEFINE g == Go(q, "EPR_KEEP_ALIVE")
               b == [g EXCEPT !.response_expected = TRUE, !.extended = TRUE]
    <2>1. Tracks(g) /\ Carries(q, g) /\ g.snk = "EPR_KEEP_ALIVE"
      BY GoCarries
    <2>2. EnterEPRKeepAlive(q) = MessageFromPE(b)
      BY DEF EnterEPRKeepAlive
    <2> HIDE DEF g
    <2>3. Tracks(b) /\ Carries(q, b) /\ b.snk = "EPR_KEEP_ALIVE"
      BY <2>1 DEF Tracks, Carries
    <2> HIDE DEF b
    <2> QED
      BY <2>2, <2>3, MindSay
  <1>6. Minds(q, EnterTransitionSink(q))
    <2> DEFINE g == Go(q, "TRANSITION_SINK")
               b == UCPD_TIM_Stop(g, "SENDER_RESPONSE")
               r == StartTransition(b)
    <2>1. Tracks(g) /\ Carries(q, g) /\ g.snk = "TRANSITION_SINK"
      BY GoCarries
    <2>2. EnterTransitionSink(q) = r
      BY DEF EnterTransitionSink
    <2> HIDE DEF g
    <2>3. Slips(g, b)
      BY <2>1, IdleTimers
    <2>4. Tracks(b)
      BY <2>1, <2>3, TrackChains
    <2> HIDE DEF b
    <2>5. Slips(b, r)
      BY <2>4, IdleTimers DEF StartTransition
    <2> HIDE DEF r
    <2>6. Slips(g, r)
      BY <2>3, <2>5, IdleChains
    <2>7. Carries(q, r) /\ r.snk = "TRANSITION_SINK"
      BY <2>1, <2>6, IdleChains
    <2> QED
      BY <2>2, <2>7, IdleChains
  <1>7. Wakes(q, EnterSendEPRModeEntry(q))
    <2> DEFINE g == Go(q, "SEND_EPR_MODE_ENTRY")
               b == [g EXCEPT !.txKind = "EPREnter", !.response_expected = TRUE,
                              !.entering_epr = TRUE]
    <2>1. Tracks(g) /\ Carries(q, g) /\ g.snk = "SEND_EPR_MODE_ENTRY"
      BY GoCarries
    <2>2. EnterSendEPRModeEntry(q) = MessageFromPE(b)
      BY DEF EnterSendEPRModeEntry
    <2> HIDE DEF g
    <2>3. /\ Tracks(b) /\ DOMAIN b = DOMAIN q /\ DOMAIN b.tim = DOMAIN q.tim
          /\ b.snk = "SEND_EPR_MODE_ENTRY" /\ b.epr_mode = g.epr_mode
          /\ b.hrdOriginPE = g.hrdOriginPE /\ b.hardResetActive = g.hardResetActive
          /\ b.air = g.air
      BY <2>1 DEF Tracks, Carries
    <2> HIDE DEF b
    <2>4. Wakes(q, b) /\ Lively(b)
      BY <2>1, <2>3 DEF Wakes, Carries, Lively, Origin, Asked, Acting, Apart
    <2>5. Minds(b, MessageFromPE(b))
      BY <2>3, <2>4, MindMessage
    <2>6. Wakes(b, MessageFromPE(b))
      BY <2>5, MindChains
    <2> QED
      BY <2>2, <2>4, <2>6, MindChains
  <1> QED
    BY <1>1, <1>2, <1>3, <1>4, <1>5, <1>6, <1>7

LEMMA MindEvaluate == ASSUME NEW q, Tracks(q) PROVE Minds(q, EnterEvaluateCapability(q))
  <1>1. \A a : Tracks(a) => Minds(a, EnterSelectCapability(a))
    <2> SUFFICES ASSUME NEW a, Tracks(a) PROVE Minds(a, EnterSelectCapability(a))
      OBVIOUS
    <2> DEFINE g == Go(a, "SELECT_CAPABILITY")
               b == [g EXCEPT !.response_expected = TRUE]
               i == IncrementMID(b)
               r == PrepareRequest(b)
    <2>1. Tracks(g) /\ Carries(a, g) /\ g.snk = "SELECT_CAPABILITY"
      BY GoCarries
    <2>2. EnterSelectCapability(a) = MessageFromPE(r)
      BY DEF EnterSelectCapability
    <2> HIDE DEF g
    <2>3. Tracks(b) /\ Slips(g, b)
      BY <2>1 DEF Tracks, Carries, Slips, Apart
    <2> HIDE DEF b
    <2>4. Idles(b, i)
      BY <2>3, IdleDown
    <2>5. Tracks(i)
      BY <2>3, <2>4, TrackChains
    <2>6. r \in {[i EXCEPT !.txKind = "EPRRequest"],
                 [b EXCEPT !.txKind = "Request", !.pps_contract = SelectsPPS]}
      BY DEF PrepareRequest
    <2> HIDE DEF i, r
    <2>7. /\ Slips(i, [i EXCEPT !.txKind = "EPRRequest"])
          /\ Slips(b, [b EXCEPT !.txKind = "Request", !.pps_contract = SelectsPPS])
      BY <2>3, <2>5 DEF Tracks, Carries, Slips, Apart
    <2>8. Slips(b, i)
      BY <2>4, IdleChains
    <2>9. Slips(b, r)
      BY <2>6, <2>7, <2>8, IdleChains
    <2>10. Slips(g, r)
      BY <2>3, <2>9, IdleChains
    <2>11. Carries(a, r) /\ r.snk = "SELECT_CAPABILITY"
      BY <2>1, <2>10, IdleChains
    <2>12. Tracks(r)
      BY <2>3, <2>9, TrackChains
    <2> QED
      BY <2>2, <2>11, <2>12, MindSay
  <1> DEFINE g == Go(q, "EVALUATE_CAPABILITY")
             b == [g EXCEPT !.ams = TRUE, !.pps_periodic_expired = FALSE,
                            !.tx = IF q.pps_periodic_expired THEN @ ELSE "SNK_START_OF_AMS"]
             e == EndPolicyRequest(b)
             u == UserCode(e, "POLICY")
  <1>2. Tracks(g) /\ Carries(q, g) /\ g.snk = "EVALUATE_CAPABILITY"
    BY GoCarries
  <1>3. EnterEvaluateCapability(q) = EnterSelectCapability(u)
    BY DEF EnterEvaluateCapability
  <1> HIDE DEF g
  <1>4. Tracks(b) /\ Carries(q, b) /\ b.snk = "EVALUATE_CAPABILITY"
    BY <1>2 DEF Tracks, Carries
  <1> HIDE DEF b
  <1>5. Idles(b, e)
    BY <1>4, IdleCalls
  <1>6. Tracks(e)
    BY <1>4, <1>5, TrackChains
  <1> HIDE DEF e
  <1>7. Idles(e, u)
    BY <1>6, IdleCalls
  <1>8. Tracks(u)
    BY <1>6, <1>7, TrackChains
  <1> HIDE DEF u
  <1>9. Idles(b, u)
    BY <1>5, <1>7, IdleChains
  <1>10. Carries(q, u) /\ u.snk = "EVALUATE_CAPABILITY"
    BY <1>4, <1>9, IdleChains
  <1>11. Minds(u, EnterSelectCapability(u))
    BY <1>1, <1>8, <1>10
  <1> QED
    BY <1>3, <1>10, <1>11, CarryChains


\* What the policy engine is told.  It enters EPR mode on a message of the source only.
LEMMA WakePolicy ==
  ASSUME NEW q, Tracks(q)
  PROVE  /\ ~q.hrdOriginPE => Wakes(q, MessageReceived(q))
         /\ Lively(q) /\ Entering(q) => Minds(q, MessageSent(q))
         /\ Minds(q, SenderResponseExpired(q))
         /\ \A request \in RequestType \ {NONE} : Wakes(q, DpmRequest(q, request))
  <1>1. \A a : Tracks(a) /\ ~a.hrdOriginPE => \A kind : Wakes(a, Receive(a, kind))
    <2> SUFFICES ASSUME NEW a, Tracks(a), ~a.hrdOriginPE, NEW kind
                 PROVE  Wakes(a, Receive(a, kind))
      OBVIOUS
    <2>1. Minds(a, EnterReady(UserCode(Go(a, "NOT_SUPPORTED_RECEIVED"), "POLICY")))
      <3> DEFINE g == Go(a, "NOT_SUPPORTED_RECEIVED")
                 u == UserCode(g, "POLICY")
      <3>1. Tracks(g) /\ Carries(a, g) /\ g.snk = "NOT_SUPPORTED_RECEIVED"
        BY GoCarries
      <3> HIDE DEF g
      <3>2. Idles(g, u)
        BY <3>1, IdleCalls
      <3>3. Tracks(u)
        BY <3>1, <3>2, TrackChains
      <3> HIDE DEF u
      <3>4. Carries(a, u) /\ u.snk = "NOT_SUPPORTED_RECEIVED"
        BY <3>1, <3>2, IdleChains
      <3>5. Minds(u, EnterReady(u))
        BY <3>3, MindReady
      <3>6. Minds(a, EnterReady(u))
        BY <3>4, <3>5, CarryChains
      <3> QED
        BY <3>6 DEF u, g
    <2>2. Wakes(a, Go(a, "EPR_MODE_ENTRY_WAIT_FOR_RESPONSE"))
      <3>1. /\ Carries(a, Go(a, "EPR_MODE_ENTRY_WAIT_FOR_RESPONSE"))
            /\ Go(a, "EPR_MODE_ENTRY_WAIT_FOR_RESPONSE").snk = "EPR_MODE_ENTRY_WAIT_FOR_RESPONSE"
        BY GoCarries
      <3> QED
        BY <3>1 DEF Carries, Wakes, Lively, Origin, Asked, Acting
    <2>3. /\ Minds(a, EnterReady(a)) /\ Minds(a, EnterEvaluateCapability(a))
          /\ Minds(a, EnterTransitionSink(a)) /\ Minds(a, EnterSoftReset(a))
          /\ Minds(a, EnterWaitForCapabilities(a)) /\ Minds(a, EnterSendSoftReset(a))
          /\ Minds(a, EnterEPRModeExitReceived(a)) /\ Minds(a, EnterSendNotSupported(a))
          /\ Minds(a, EnterHardReset(a))
      BY MindReady, MindEvaluate, MindAnswers, MindWait, MindError, MindHardReset
    <2>4. Receive(a, kind) \in
            {EnterReady(UserCode(Go(a, "NOT_SUPPORTED_RECEIVED"), "POLICY")),
             Go(a, "EPR_MODE_ENTRY_WAIT_FOR_RESPONSE"),
             EnterReady(a), EnterEvaluateCapability(a), EnterTransitionSink(a),
             EnterSoftReset(a), EnterWaitForCapabilities(a), EnterSendSoftReset(a),
             EnterEPRModeExitReceived(a), EnterSendNotSupported(a), EnterHardReset(a)}
      BY DEF Receive
    <2> QED
      BY <2>1, <2>2, <2>3, <2>4, MindChains
  <1>2. ASSUME ~q.hrdOriginPE PROVE Wakes(q, MessageReceived(q))
    <2> DEFINE a == [q EXCEPT !.extended = FALSE]
    <2>1. Tracks(a) /\ Slips(q, a) /\ ~a.hrdOriginPE
      BY <1>2 DEF Tracks, Carries, Slips, Apart
    <2>2. \E kind : MessageReceived(q) = Receive(a, kind)
      BY DEF MessageReceived
    <2> HIDE DEF a
    <2> QED
      BY <2>1, <2>2, <1>1, MindChains
  <1>3. ASSUME Lively(q), Entering(q) PROVE Minds(q, MessageSent(q))
    <2> DEFINE a == [q EXCEPT !.extended = FALSE, !.ams_first_sent = @ \/ q.ams]
               k == IF q.extended THEN NONE ELSE q.txKind
               b == Sent(a, k)
               c == AwaitResponse(b)
               d == UCPD_TIM_Start(c, "SINK_EPR_ENTER")
               f == [d EXCEPT !.entering_epr = FALSE]
    <2>1. Tracks(a) /\ Idles(q, a)
      BY DEF Tracks, Carries, Slips, Idles, Apart
    <2>2. MessageSent(q) \in {f, c} /\ (MessageSent(q) = f => c.entering_epr \/ f = c)
      BY DEF MessageSent, AwaitEPREntry
    <2>3. MessageSent(q) = IF c.entering_epr THEN f ELSE c
      BY DEF MessageSent, AwaitEPREntry
    <2>4. Minds(q, a)
      BY <1>3, <2>1, IdleChains
    <2> HIDE DEF a
    <2>5. Lively(a)
      BY <2>4 DEF Minds, Wakes
    <2>6. Idles(a, a)
      BY <2>1, IdleTimers
    <2>7. b \in {EnterReady(a), EnterWaitForCapabilities(a), a}
      BY DEF Sent
    <2>8. Minds(a, a)
      BY <2>5, <2>6, IdleChains
    <2>9. Minds(a, b)
      BY <2>1, <2>7, <2>8, MindReady, MindWait
    <2>10. Minds(q, b)
      BY <2>4, <2>9, MindChains
    <2>11. Tracks(b)
      BY <2>1, <2>9, TrackChains
    <2> HIDE DEF b
    <2>12. Idles(b, c)
      <3> DEFINE x == UCPD_TIM_Start(b, "SENDER_RESPONSE")
      <3>1. Idles(b, x) /\ Idles(b, b)
        BY <2>11, IdleTimers DEF Channel1
      <3>2. Tracks(x)
        BY <2>11, <3>1, TrackChains
      <3>3. c \in {[x EXCEPT !.response_expected = FALSE], b}
        BY DEF AwaitResponse
      <3> HIDE DEF x, c
      <3>4. Idles(x, [x EXCEPT !.response_expected = FALSE])
        BY <3>2 DEF Tracks, Carries, Slips, Idles, Apart
      <3> QED
        BY <3>1, <3>3, <3>4, IdleChains
    <2>13. Minds(q, c)
      BY <2>10, <2>12, MindChains
    <2>14. Tracks(c)
      BY <2>11, <2>12, TrackChains
    <2> HIDE DEF c
    <2>15. Slips(c, d)
      BY <2>14, IdleTimers
    <2>16. Tracks(d)
      BY <2>14, <2>15, TrackChains
    <2> HIDE DEF d
    <2>17. /\ DOMAIN f = DOMAIN c /\ DOMAIN f.tim = DOMAIN c.tim
           /\ f.snk = c.snk /\ f.epr_mode = c.epr_mode /\ f.hrdOriginPE = c.hrdOriginPE
           /\ (f.hardResetActive => c.hardResetActive)
           /\ (c.air.kind = "HardReset" => f.air.kind = "HardReset")
           /\ f.entering_epr = FALSE
      BY <2>15, <2>16 DEF Tracks, Slips, Carries
    <2> HIDE DEF f
    <2>18. ASSUME c.entering_epr PROVE Minds(q, f)
      <3>1. Entering(c)
        BY <1>3, <2>13 DEF Minds
      <3> QED
        BY <3>1, <2>13, <2>17, <2>18
        DEF Minds, Wakes, Lively, Origin, Entering, Asked, Acting, Apart
    <2> QED
      BY <2>3, <2>13, <2>18
  <1>4. Minds(q, SenderResponseExpired(q))
    BY MindError, MindHardReset DEF SenderResponseExpired
  <1>5. ASSUME NEW request \in RequestType \ {NONE} PROVE Wakes(q, DpmRequest(q, request))
    <2> DEFINE a == [q EXCEPT !.sync_operation = TRUE]
    <2>1. Tracks(a) /\ Slips(q, a)
      BY DEF Tracks, Carries, Slips, Apart
    <2>2. DpmRequest(q, request) \in
            {EnterSendEPRModeEntry(a), EnterSendEPRModeExit(a), EnterEvaluateCapability(a),
             EnterHardReset(a)}
      BY DEF DpmRequest, RequestType
    <2> HIDE DEF a
    <2>3. /\ Wakes(a, EnterSendEPRModeEntry(a)) /\ Minds(a, EnterSendEPRModeExit(a))
          /\ Minds(a, EnterEvaluateCapability(a)) /\ Minds(a, EnterHardReset(a))
      BY <2>1, MindAnswers, MindEvaluate, MindHardReset
    <2> QED
      BY <2>1, <2>2, <2>3, MindChains
  <1> QED
    BY <1>2, <1>3, <1>4, <1>5

\* The receivers.  A chunk request leaves the channel alone.
LEMMA WakeRoute ==
  ASSUME NEW q, Tracks(q), ~q.hrdOriginPE, Lively(q)
  PROVE  Wakes(q, RouteReceived(q))
  <1>1. \A a : Tracks(a) /\ ~a.hrdOriginPE =>
                 Wakes(a, RchErrorWithMessage(a)) /\ Wakes(a, RchPassUpMessage(a))
    <2> SUFFICES ASSUME NEW a, Tracks(a), ~a.hrdOriginPE
                 PROVE  Wakes(a, RchErrorWithMessage(a)) /\ Wakes(a, RchPassUpMessage(a))
      OBVIOUS
    <2> DEFINE w == RchWaitForMessage(a)
               b == [a EXCEPT !.rch = "PASS_UP_MESSAGE"]
               m == MessageReceived(b)
               r == RchWaitForMessage(m)
    <2>1. Tracks(b) /\ Slips(a, b) /\ ~b.hrdOriginPE
      BY DEF Tracks, Carries, Slips, Apart
    <2>2. Idles(a, w)
      BY IdleDown
    <2>3. Tracks(w) /\ Slips(a, w) /\ ~w.hrdOriginPE
      BY <2>2, TrackChains DEF Idles, Slips, Carries
    <2>4. RchErrorWithMessage(a) = MessageReceived(w) /\ RchPassUpMessage(a) = r
      BY DEF RchErrorWithMessage, RchPassUpMessage
    <2> HIDE DEF w, b
    <2>5. Wakes(w, MessageReceived(w)) /\ Wakes(b, m)
      BY <2>1, <2>3, WakePolicy
    <2>6. Tracks(m)
      BY <2>1, <2>5, TrackChains
    <2> HIDE DEF m
    <2>7. Idles(m, r)
      BY <2>6, IdleDown
    <2> HIDE DEF r
    <2>8. Wakes(b, r)
      BY <2>5, <2>7, MindChains
    <2> QED
      BY <2>1, <2>3, <2>4, <2>5, <2>8, MindChains
  <1>2. \A a : Tracks(a) => Idles(a, RchRequestingChunk(a))
    <2> SUFFICES ASSUME NEW a, Tracks(a) PROVE Idles(a, RchRequestingChunk(a))
      OBVIOUS
    <2> DEFINE t == UCPD_TIM_Stop(a, "SENDER_RESPONSE")
               b == [t EXCEPT !.rch = "REQUESTING_CHUNK", !.txKind = "ChunkRequest"]
    <2>1. Idles(a, t)
      BY IdleTimers
    <2>2. Tracks(t)
      BY <2>1, TrackChains
    <2>3. RchRequestingChunk(a) = TxConstructMessage(b)
      BY DEF RchRequestingChunk
    <2> HIDE DEF t
    <2>4. Tracks(b) /\ Idles(t, b)
      BY <2>2 DEF Tracks, Carries, Slips, Idles, Apart
    <2> HIDE DEF b
    <2>5. Idles(b, TxConstructMessage(b))
      BY <2>4, IdleConstruct
    <2>6. Idles(a, b)
      BY <2>1, <2>4, IdleChains
    <2> QED
      BY <2>3, <2>5, <2>6, IdleChains
  <1>3. \A a : Tracks(a) /\ ~a.hrdOriginPE /\ Lively(a) => Wakes(a, RchTakeChunk(a))
    <2> SUFFICES ASSUME NEW a, Tracks(a), ~a.hrdOriginPE, Lively(a)
                 PROVE  Wakes(a, RchTakeChunk(a))
      OBVIOUS
    <2> DEFINE b == [a EXCEPT !.chunkExpected = @ + 1]
               c == [b EXCEPT !.extended = TRUE]
    <2>1. Tracks(b) /\ Idles(a, b) /\ Tracks(c) /\ Slips(a, c) /\ ~c.hrdOriginPE
      BY DEF Tracks, Carries, Slips, Idles, Apart
    <2>2. RchTakeChunk(a) \in
            {RchErrorWithMessage(a), RchPassUpMessage(c), RchRequestingChunk(b)}
      BY DEF RchTakeChunk
    <2> HIDE DEF b, c
    <2>3. Idles(b, RchRequestingChunk(b))
      BY <1>2, <2>1
    <2>4. Idles(a, RchRequestingChunk(b))
      BY <2>1, <2>3, IdleChains
    <2>5. Minds(a, RchRequestingChunk(b))
      BY <2>4, IdleChains
    <2>6. Wakes(a, RchErrorWithMessage(a)) /\ Wakes(c, RchPassUpMessage(c))
      BY <1>1, <2>1
    <2> QED
      BY <2>1, <2>2, <2>5, <2>6, MindChains
  <1>4. Wakes(q, RchProcessingExtendedMessage(q))
    <2> DEFINE a == UCPD_TIM_Stop(q, "SENDER_RESPONSE")
               b == UCPD_TIM_Stop(a, "CHUNK_SENDER_RESPONSE")
               c == RchStartOver(b)
    <2>1. Idles(q, a)
      BY IdleTimers
    <2>2. Tracks(a)
      BY <2>1, TrackChains
    <2>3. RchProcessingExtendedMessage(q) = RchTakeChunk(c)
      BY DEF RchProcessingExtendedMessage
    <2> HIDE DEF a
    <2>4. Idles(a, b)
      BY <2>2, IdleTimers
    <2>5. Tracks(b)
      BY <2>2, <2>4, TrackChains
    <2> HIDE DEF b
    <2>6. Tracks(c) /\ Idles(b, c)
      BY <2>5 DEF RchStartOver, Tracks, Carries, Slips, Idles, Apart
    <2> HIDE DEF c
    <2>7. Idles(q, b)
      BY <2>1, <2>4, IdleChains
    <2>8. Idles(q, c)
      BY <2>6, <2>7, IdleChains
    <2>9. Minds(q, c) /\ ~c.hrdOriginPE
      BY <2>8, IdleChains DEF Idles, Slips, Carries
    <2>10. Lively(c)
      BY <2>9 DEF Minds, Wakes
    <2>11. Wakes(c, RchTakeChunk(c))
      BY <1>3, <2>6, <2>9, <2>10
    <2> QED
      BY <2>3, <2>9, <2>11, MindChains
  <1> QED
    BY <1>1, <1>4 DEF RouteReceived

LEMMA WakeStore ==
  ASSUME NEW q, Tracks(q), ~q.hrdOriginPE, Lively(q)
  PROVE  Wakes(q, RxCheckMessageID(q))
  <1> DEFINE w == TxWaitForMessageRequest(q)
             a == [w EXCEPT !.rx = "WAIT_FOR_PHY_MESSAGE", !.storedMID = q.rxMsg.id,
                            !.passedUp = TRUE]
             b == [a EXCEPT !.extRx = NONE]
             t == TchWaitForRequest(b)
             n == [q EXCEPT !.rx = "WAIT_FOR_PHY_MESSAGE"]
  <1>1. Idles(q, w)
    BY IdleDown
  <1>2. Tracks(w)
    BY <1>1, TrackChains
  <1>3. RxCheckMessageID(q) \in {RouteReceived(a), RouteReceived(t), n}
    BY DEF RxCheckMessageID, RxStoreMessageID
  <1>4. Idles(q, n)
    BY DEF Tracks, Carries, Slips, Idles, Apart
  <1> HIDE DEF w, n
  <1>5. Tracks(a) /\ Idles(w, a)
    BY <1>2 DEF Tracks, Carries, Slips, Idles, Apart
  <1> HIDE DEF a
  <1>6. Tracks(b) /\ Idles(a, b)
    BY <1>5 DEF Tracks, Carries, Slips, Idles, Apart
  <1> HIDE DEF b
  <1>7. Idles(b, t)
    BY <1>6, IdleDown
  <1>8. Tracks(t)
    BY <1>6, <1>7, TrackChains
  <1> HIDE DEF t
  <1>9. Idles(q, a)
    BY <1>1, <1>5, IdleChains
  <1>10. Idles(q, b)
    BY <1>6, <1>9, IdleChains
  <1>11. Idles(q, t)
    BY <1>7, <1>10, IdleChains
  <1>12. Minds(q, a) /\ Minds(q, t) /\ Minds(q, n)
    BY <1>4, <1>9, <1>11, IdleChains
  <1>13. ~a.hrdOriginPE /\ Lively(a) /\ ~t.hrdOriginPE /\ Lively(t)
    BY <1>9, <1>11, <1>12 DEF Idles, Slips, Carries, Minds, Wakes
  <1>14. Wakes(a, RouteReceived(a)) /\ Wakes(t, RouteReceived(t))
    BY <1>5, <1>8, <1>13, WakeRoute
  <1> QED
    BY <1>3, <1>12, <1>14, MindChains

\* The transmitter
LEMMA MindRetry ==
  ASSUME NEW q, Tracks(q), Lively(q)
  PROVE  Minds(q, TxCheckRetryCounter(q))
  <1> DEFINE b == [q EXCEPT !.retry = @ + 1]
             c == IncrementMID(q)
             d == TxWaitForMessageRequest(c)
  <1>1. Tracks(b) /\ Idles(q, b)
    BY DEF Tracks, Carries, Slips, Idles, Apart
  <1>2. Idles(q, c)
    BY IdleDown
  <1>3. Tracks(c)
    BY <1>2, TrackChains
  <1>4. TxCheckRetryCounter(q) \in {TxConstructMessage(b), RchTransmissionError(d)}
    BY DEF TxCheckRetryCounter
  <1> HIDE DEF b, c
  <1>5. Idles(c, d)
    BY <1>3, IdleDown
  <1>6. Tracks(d)
    BY <1>3, <1>5, TrackChains
  <1> HIDE DEF d
  <1>7. Idles(b, TxConstructMessage(b)) /\ Minds(d, RchTransmissionError(d))
    BY <1>1, <1>6, IdleConstruct, MindError
  <1>8. Idles(q, TxConstructMessage(b)) /\ Idles(q, d)
    BY <1>1, <1>2, <1>5, <1>7, IdleChains
  <1>9. Minds(q, TxConstructMessage(b)) /\ Minds(q, d)
    BY <1>8, IdleChains
  <1> QED
    BY <1>4, <1>7, <1>9, MindChains

\* The GoodCRC of a chunk request starts the timer of the next chunk, which displaces that of
\* READY.
Rouses(q, r) == Wakes(q, r) \/ (Slips(q, r) /\ r.rch = "WAITING_CHUNK")

LEMMA RouseSent ==
  ASSUME NEW q, Tracks(q), Lively(q), Entering(q)
  PROVE  Rouses(q, TxMatchMessageID(q))
  <1> DEFINE s == UCPD_TIM_Stop(q, "CRC_RECEIVE")
             i == IncrementMID(s)
             d == TxWaitForMessageRequest(i)
             t == TchWaitForRequest(d)
             w == [d EXCEPT !.rch = "WAITING_CHUNK"]
             v == UCPD_TIM_Start(w, "SENDER_RESPONSE")
             r == UCPD_TIM_Start(v, "CHUNK_SENDER_RESPONSE")
  <1>1. Idles(q, s)
    BY IdleTimers
  <1>2. Tracks(s)
    BY <1>1, TrackChains
  <1>3. TxMatchMessageID(q) \in {r, MessageSent(t), d, TxCheckRetryCounter(s)}
    BY DEF TxMatchMessageID, TxMessageSent, ReportSent, RchWaitingChunk
  <1> HIDE DEF s
  <1>4. Idles(s, i)
    BY <1>2, IdleDown
  <1>5. Tracks(i)
    BY <1>2, <1>4, TrackChains
  <1> HIDE DEF i
  <1>6. Idles(i, d)
    BY <1>5, IdleDown
  <1>7. Tracks(d)
    BY <1>5, <1>6, TrackChains
  <1> HIDE DEF d
  <1>8. Idles(d, t)
    BY <1>7, IdleDown
  <1>9. Tracks(t)
    BY <1>7, <1>8, TrackChains
  <1> HIDE DEF t
  <1>10. Idles(q, i)
    BY <1>1, <1>4, IdleChains
  <1>11. Idles(q, d)
    BY <1>6, <1>10, IdleChains
  <1>12. Idles(q, t)
    BY <1>8, <1>11, IdleChains
  <1>13. Minds(q, s) /\ Minds(q, d) /\ Minds(q, t)
    BY <1>1, <1>11, <1>12, IdleChains
  <1>14. CASE TxMatchMessageID(q) = r
    <2>1. Tracks(w) /\ Slips(d, w) /\ w.rch = "WAITING_CHUNK"
      BY <1>7 DEF Tracks, Carries, Slips, Apart
    <2> HIDE DEF w
    <2>2. Slips(w, v) /\ v.rch = w.rch
      <3>1. Slips(w, v)
        BY <2>1, IdleTimers
      <3> QED
        BY <2>1, <3>1 DEF Tracks, UCPD_TIM_Start
    <2>3. Tracks(v)
      BY <2>1, <2>2, TrackChains
    <2> HIDE DEF v
    <2>4. Slips(v, r) /\ r.rch = v.rch
      <3>1. Slips(v, r)
        BY <2>3, IdleTimers
      <3> QED
        BY <2>3, <3>1 DEF Tracks, UCPD_TIM_Start
    <2> HIDE DEF r
    <2>5. Slips(q, d)
      BY <1>11, IdleChains
    <2>6. Slips(q, w)
      BY <2>1, <2>5, IdleChains
    <2>7. Slips(q, v)
      BY <2>2, <2>6, IdleChains
    <2>8. Slips(q, r)
      BY <2>4, <2>7, IdleChains
    <2> QED
      BY <1>14, <2>1, <2>2, <2>4, <2>8 DEF Rouses
  <1>15. CASE TxMatchMessageID(q) = MessageSent(t)
    <2>1. Lively(t) /\ Entering(t)
      BY <1>13 DEF Minds, Wakes
    <2>2. Minds(t, MessageSent(t))
      BY <1>9, <2>1, WakePolicy
    <2>3. Minds(q, MessageSent(t))
      BY <1>13, <2>2, MindChains
    <2> QED
      BY <1>15, <2>3 DEF Rouses, Minds
  <1>16. CASE TxMatchMessageID(q) = d
    BY <1>13, <1>16 DEF Rouses, Minds
  <1>17. CASE TxMatchMessageID(q) = TxCheckRetryCounter(s)
    <2>1. Lively(s)
      BY <1>13 DEF Minds, Wakes
    <2>2. Minds(s, TxCheckRetryCounter(s))
      BY <1>2, <2>1, MindRetry
    <2>3. Minds(q, TxCheckRetryCounter(s))
      BY <1>13, <2>2, MindChains
    <2> QED
      BY <1>17, <2>3 DEF Rouses, Minds
  <1> HIDE DEF r, v, w
  <1> QED
    BY <1>3, <1>14, <1>15, <1>16, <1>17

LEMMA RousePhy ==
  ASSUME NEW q, Tracks(q), Lively(q), Entering(q), Origin(q),
         NEW e, e \notin {"HRD_SENT", "HRD_RECEIVED"},
         e = "MSG_TX_COMPLETED" => ~q.hrdOriginPE
  PROVE  Rouses(q, PhyDelta(q, e))
  <1>1. \A a : Tracks(a) => Idles(a, RxSendGoodCRC(a))
    <2> SUFFICES ASSUME NEW a, Tracks(a) PROVE Idles(a, RxSendGoodCRC(a))
      OBVIOUS
    <2> DEFINE b == [a EXCEPT !.rx = "SEND_GOODCRC", !.txKind = "GoodCRC",
                              !.txID = a.rxMsg.id]
    <2>1. Tracks(b) /\ Idles(a, b)
      BY DEF Tracks, Carries, Slips, Idles, Apart
    <2>2. RxSendGoodCRC(a) = UCPD_PHY_SendMessage(b)
      BY DEF RxSendGoodCRC
    <2> HIDE DEF b
    <2>3. Idles(b, UCPD_PHY_SendMessage(b))
      BY <2>1, IdleDown
    <2> QED
      BY <2>1, <2>2, <2>3, IdleChains
  <1>2. Minds(q, q)
    BY IdleTimers, IdleChains
  <1>3. Rouses(q, MsgRxComplete(q))
    <2> DEFINE m == [q EXCEPT !.mid = 0, !.storedMID = NoMID]
               a == TxWaitForMessageRequest(m)
    <2>1. MsgRxComplete(q) \in {TxMatchMessageID(q), q, RxSendGoodCRC(a), RxSendGoodCRC(q)}
      BY DEF MsgRxComplete, RxLayerReset
    <2>2. Tracks(m) /\ Idles(q, m)
      BY DEF Tracks, Carries, Slips, Idles, Apart
    <2> HIDE DEF m
    <2>3. Idles(m, a)
      BY <2>2, IdleDown
    <2>4. Tracks(a)
      BY <2>2, <2>3, TrackChains
    <2>5. Idles(q, a)
      BY <2>2, <2>3, IdleChains
    <2> HIDE DEF a
    <2>6. Idles(a, RxSendGoodCRC(a)) /\ Idles(q, RxSendGoodCRC(q))
      BY <1>1, <2>4
    <2>7. Idles(q, RxSendGoodCRC(a))
      BY <2>5, <2>6, IdleChains
    <2>8. Minds(q, RxSendGoodCRC(a)) /\ Minds(q, RxSendGoodCRC(q))
      BY <2>6, <2>7, IdleChains
    <2> QED
      BY <1>2, <2>1, <2>8, RouseSent DEF Rouses, Minds
  <1>4. Minds(q, MsgTxDiscarded(q))
    <2> DEFINE n == [q EXCEPT !.rx = "WAIT_FOR_PHY_MESSAGE"]
    <2>1. Idles(q, n)
      BY DEF Tracks, Carries, Slips, Idles, Apart
    <2>2. MsgTxDiscarded(q) \in {n, TxCheckRetryCounter(q), q}
      BY DEF MsgTxDiscarded
    <2> HIDE DEF n
    <2>3. Minds(q, n)
      BY <2>1, IdleChains
    <2> QED
      BY <1>2, <2>2, <2>3, MindRetry
  <1>5. ~q.hrdOriginPE => Wakes(q, MsgTxCompleted(q))
    <2>1. Idles(q, UCPD_TIM_Start(q, "CRC_RECEIVE"))
      BY IdleTimers DEF Channel1
    <2>2. Minds(q, UCPD_TIM_Start(q, "CRC_RECEIVE"))
      BY <2>1, IdleChains
    <2> QED
      BY <2>2, WakeStore DEF MsgTxCompleted, Minds
  <1>6. Minds(q, TxOk(q))
    <2>1. Idles(q, TxConstructMessage(q))
      BY IdleConstruct
    <2>2. Minds(q, TxConstructMessage(q))
      BY <2>1, IdleChains
    <2> QED
      BY <1>2, <2>2 DEF TxOk
  <1>7. \/ PhyDelta(q, e) \in {MsgRxComplete(q), MsgTxDiscarded(q), TxOk(q), q}
        \/ e = "MSG_TX_COMPLETED" /\ PhyDelta(q, e) = MsgTxCompleted(q)
    BY DEF PhyDelta
  <1>8. /\ Rouses(q, MsgTxDiscarded(q)) /\ Rouses(q, TxOk(q)) /\ Rouses(q, q)
        /\ ~q.hrdOriginPE => Rouses(q, MsgTxCompleted(q))
    BY <1>2, <1>4, <1>5, <1>6 DEF Rouses, Minds
  <1> QED
    BY <1>3, <1>7, <1>8

LEMMA MindTimer ==
  ASSUME NEW q, Tracks(q), NEW t, Lively(q) \/ t = "SINK_EPR_KEEP_ALIVE"
  PROVE  Minds(q, TimerDelta(q, t))
  <1> DEFINE a == [q EXCEPT !.pps_periodic_expired = TRUE]
  <1>1. Tracks(a) /\ Slips(q, a)
    BY DEF Tracks, Carries, Slips, Apart
  <1>2. Lively(q) => Minds(q, q)
    BY IdleTimers, IdleChains
  <1>3. Minds(q, HardResetSent(q))
    BY ResetsAnew, MindChains
  <1>4. /\ Minds(q, RchTransmissionError(q)) /\ Minds(q, SenderResponseExpired(q))
        /\ Minds(q, EnterHardReset(q)) /\ Minds(q, EnterSendSoftReset(q))
        /\ Minds(q, EnterEPRKeepAlive(q)) /\ Minds(a, EnterEvaluateCapability(a))
    BY <1>1, MindError, WakePolicy, MindHardReset, MindAnswers, MindEvaluate
  <1>5. Minds(q, EnterEvaluateCapability(a))
    BY <1>1, <1>4, MindChains
  <1>6. CASE t = "SINK_EPR_KEEP_ALIVE"
    <2>1. ~q.epr_mode => Lively(q)
      BY DEF Lively
    <2> QED
      BY <1>2, <1>4, <1>6, <2>1 DEF TimerDelta
  <1>7. CASE t # "SINK_EPR_KEEP_ALIVE"
    <2>1. Lively(q)
      BY <1>7
    <2>2. TimerDelta(q, t) \in
            {TxCheckRetryCounter(q), RchTransmissionError(q), HardResetSent(q),
             SenderResponseExpired(q), EnterHardReset(q), EnterSendSoftReset(q),
             EnterEvaluateCapability(a), q}
      BY <1>7 DEF TimerDelta
    <2> QED
      BY <1>2, <1>3, <1>4, <1>5, <2>1, <2>2, MindRetry
  <1> QED
    BY <1>6, <1>7

\* The stages of the handler
Alive(q) ==
  /\ Lively(q) \/ q.rch = "WAITING_CHUNK"
  /\ Origin(q) /\ Asked(q) /\ Acting(q)

LEMMA AliveAfter ==
  ASSUME NEW q, NEW r
  PROVE  /\ Anew(q, r) => Alive(r)
         /\ Rouses(q, r) /\ Lively(q) /\ Origin(q) /\ Asked(q) /\ Acting(q) => Alive(r)
         /\ Wakes(q, r) /\ Origin(q) /\ Asked(q) /\ Acting(q) => Alive(r)
  <1>1. Anew(q, r) => Alive(r)
    BY DEF Anew, Alive, Lively, Origin, Asked, Acting, Apart
  <1>2. Wakes(q, r) /\ Origin(q) /\ Asked(q) /\ Acting(q) => Alive(r)
    BY DEF Wakes, Alive
  <1>3. Slips(q, r) /\ r.rch = "WAITING_CHUNK" /\ Origin(q) /\ Asked(q) /\ Acting(q) => Alive(r)
    BY DEF Slips, Carries, Alive, Origin, Asked, Acting, Apart
  <1> QED
    BY <1>1, <1>2, <1>3 DEF Rouses

LEMMA EventsAlive ==
  ASSUME NEW q, Tracks(q), Origin(q), Entering(q), NEW e, NEW t, NEW gated,
         Lively(q) \/ t = "SINK_EPR_KEEP_ALIVE",
         e # "HRD_RECEIVED" => ~gated,
         e \notin {"HRD_SENT", "HRD_RECEIVED"} => Asked(q) /\ Acting(q),
         e = "MSG_TX_COMPLETED" => t = NONE /\ ~q.hrdOriginPE
  PROVE  Alive(HandleEvents(q, e, t, gated))
  <1> DEFINE x == IF ~gated /\ t # NONE THEN TimerDelta(q, t) ELSE q
             f == IF (~gated /\ t # NONE) /\ t = "HARD_RESET_COMPLETE" /\ e = "HRD_SENT"
                  THEN NONE ELSE e
  <1>1. HandleEvents(q, e, t, gated) = IF e = "HRD_RECEIVED" THEN HrdReceived(q)
                                       ELSE PhyDelta(x, f)
    BY DEF HandleEvents
  <1>2. CASE e = "HRD_RECEIVED"
    <2>1. Awake(HrdReceived(q))
      BY ResetsAnew
    <2> QED
      BY <1>1, <1>2, <2>1 DEF Awake, Alive
  <1>3. CASE e # "HRD_RECEIVED"
    <2>1. HandleEvents(q, e, t, gated) = PhyDelta(x, f)
      BY <1>1, <1>3
    <2>2. Minds(q, x) /\ (t = NONE => x = q)
      <3>1. CASE t # NONE
        BY <1>3, <3>1, MindTimer
      <3>2. CASE t = NONE
        <4>1. Lively(q) /\ x = q
          BY <3>2 DEF NONE
        <4> HIDE DEF x
        <4>2. Minds(q, q)
          BY <4>1, IdleTimers, IdleChains
        <4> QED
          BY <4>1, <4>2
      <3> QED
        BY <3>1, <3>2
    <2>3. Tracks(x)
      BY <2>2, TrackChains
    <2>4. CASE e = "HRD_SENT" /\ t = "HARD_RESET_COMPLETE"
      <3>1. x = HardResetSent(q) /\ f = NONE
        BY <1>3, <2>4 DEF TimerDelta, NONE
      <3>2. PhyDelta(x, NONE) = x
        BY DEF PhyDelta, NONE
      <3>3. Anew(q, x)
        BY <3>1, ResetsAnew
      <3> QED
        BY <2>1, <3>1, <3>2, <3>3, AliveAfter
    <2>5. CASE e = "HRD_SENT" /\ t # "HARD_RESET_COMPLETE"
      <3>1. f = "HRD_SENT"
        BY <2>5
      <3> HIDE DEF x, f
      <3>2. PhyDelta(x, f) = HardResetSent(x)
        BY <3>1 DEF PhyDelta
      <3>3. Anew(x, HardResetSent(x))
        BY <2>3, ResetsAnew
      <3> QED
        BY <2>1, <3>2, <3>3, AliveAfter
    <2>6. CASE e # "HRD_SENT"
      <3>1. f = e
        BY <2>6
      <3> HIDE DEF x, f
      <3>2. Asked(q) /\ Acting(q)
        BY <1>3, <2>6
      <3>3. Lively(x) /\ Origin(x) /\ Entering(x) /\ Asked(x) /\ Acting(x)
        BY <2>2, <3>2 DEF Minds, Wakes
      <3>4. Rouses(x, PhyDelta(x, e))
        BY <1>3, <2>2, <2>3, <2>6, <3>3, RousePhy
      <3> QED
        BY <2>1, <3>1, <3>3, <3>4, AliveAfter
    <2> QED
      BY <2>4, <2>5, <2>6
  <1> QED
    BY <1>2, <1>3

LEMMA DpmAlive ==
  ASSUME NEW q, Port(q), Alive(q)
  PROVE  Alive(HandleDpm(q))
  <1> DEFINE a == [q EXCEPT !.current_callback = IF @ = NONE THEN q.callback ELSE @]
             b == [a EXCEPT !.dpm_event = NONE]
             d == DpmRequest(b, q.dpm_event)
  <1>1. Tracks(q)
    BY PortTracks
  <1>2. Tracks(a) /\ Alive(a) /\ Tracks(b) /\ Alive(b)
    BY <1>1 DEF Tracks, Alive, Lively, Origin, Asked, Acting, Apart
  <1>3. HandleDpm(q) = IF q.dpm_event = NONE \/ q.snk # "READY" THEN a ELSE NextCallback(d)
    BY DEF HandleDpm
  <1>4. q.dpm_event # NONE => q.dpm_event \in RequestType \ {NONE}
    BY DEF Port
  <1> HIDE DEF a, b
  <1>5. ASSUME q.dpm_event # NONE PROVE Alive(NextCallback(d))
    <2>1. Wakes(b, d)
      BY <1>2, <1>4, <1>5, WakePolicy
    <2>2. Tracks(d) /\ Alive(d)
      BY <1>2, <2>1, TrackChains, AliveAfter DEF Alive
    <2> HIDE DEF d
    <2> QED
      BY <2>2 DEF NextCallback, Tracks, Alive, Lively, Origin, Asked, Acting, Apart
  <1> QED
    BY <1>2, <1>3, <1>5

\* One run of the handler: a port that still is attached has its timer, unless it waits for
\* a chunk.
LEMMA HandlerAlive ==
  ASSUME NEW q, AtRest(q), NEW power, NEW e, NEW t,
         q.cad = "ATTACHED" =>
           /\ Origin(q) /\ Entering(q)
           /\ Lively(q) \/ t = "SINK_EPR_KEEP_ALIVE"
           /\ q.hardResetActive /\ ~q.hrdOriginPE => e = "HRD_RECEIVED"
           /\ e \notin {"HRD_SENT", "HRD_RECEIVED"} => Asked(q)
           /\ e = "MSG_TX_COMPLETED" => t = NONE /\ ~q.hrdOriginPE
  PROVE  LET r == UCPD_PE_PRL_Handler(q, power, e, t)
         IN  r.cad = "ATTACHED" => Alive(r)
  <1> DEFINE v == PwrDelta(q, power)
             gated == q.hardResetActive /\ ~q.hrdOriginPE
             h == HandleConnection(q, v, e, t)
             r == UCPD_PE_PRL_Handler(q, power, e, t)
  <1>1. AtRest(v) /\ Tracks(q)
    BY PwrRests, PortTracks DEF AtRest, Settled
  <1>2. h = IF v.cad # q.cad THEN v ELSE HandleEvents(v, e, t, gated)
    BY DEF HandleConnection
  <1>3. r = HandleDpm(h)
    BY DEF UCPD_PE_PRL_Handler
  <1>4. (v = Detach(q) /\ v.cad = "UNATTACHED") \/ v = EnterWaitForCapabilities(q) \/ v = q
    BY DetachRests DEF PwrDelta, VbusPresent
  <1> HIDE DEF v, h, r
  <1>5. AtRest(h) /\ h.cad = v.cad
    BY <1>1, <1>2, EventsSettle, Rests DEF AtRest, Settles, Keeps
  <1>6. r.cad = h.cad
    BY <1>3, <1>5, HandleDpmKeeps
  <1>7. SUFFICES ASSUME r.cad = "ATTACHED" PROVE Alive(r)
    BY DEF r
  <1>8. v.cad = "ATTACHED"
    BY <1>5, <1>6, <1>7
  <1>9. v.cad = q.cad /\ (v = q \/ v = EnterWaitForCapabilities(q))
    <2>1. Settles(q, v) \/ v.cad # q.cad
      BY PwrRests DEF v
    <2>2. v.cad # q.cad => v = Detach(q)
      BY <1>8 DEF v, PwrDelta, VbusPresent
    <2>3. Detach(q).cad = "UNATTACHED"
      BY DetachRests
    <2> QED
      BY <1>4, <1>8, <2>2, <2>3
  <1>10. /\ Tracks(v) /\ Origin(v) /\ Entering(v)
         /\ Lively(v) \/ t = "SINK_EPR_KEEP_ALIVE"
         /\ e # "HRD_RECEIVED" => ~gated
         /\ e \notin {"HRD_SENT", "HRD_RECEIVED"} => Asked(v) /\ Acting(v)
         /\ e = "MSG_TX_COMPLETED" => t = NONE /\ ~v.hrdOriginPE
    <2>1. e \notin {"HRD_SENT", "HRD_RECEIVED"} => Acting(q)
      BY <1>8, <1>9 DEF Acting
    <2>2. CASE v = q
      BY <1>1, <1>8, <1>9, <2>1, <2>2
    <2>3. CASE v = EnterWaitForCapabilities(q)
      <3>1. Minds(q, v) /\ Carries(q, v)
        BY <1>1, <2>3, MindWait
      <3>2. Tracks(v)
        BY <1>1, <3>1, TrackChains
      <3> QED
        BY <1>8, <1>9, <2>1, <3>1, <3>2 DEF Minds, Wakes, Carries
    <2> QED
      BY <1>9, <2>2, <2>3
  <1>11. Alive(h)
    BY <1>2, <1>9, <1>10, EventsAlive
  <1> QED
    BY <1>3, <1>5, <1>11, DpmAlive DEF AtRest, Settled
=============================================================================
