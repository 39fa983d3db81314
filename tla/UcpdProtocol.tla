---------------------------- MODULE UcpdProtocol ----------------------------
(***************************************************************************)
(* The protocol layer (ucpd_prl_sm.c) as it reacts to the wire and to the  *)
(* timers, and the handler that gives both state machines their events.    *)
(***************************************************************************)
EXTENDS UcpdPolicyEngine

\* The chunked receiver reports a message that it did not expect ...
RchErrorWithMessage(p) == MessageReceived(RchWaitForMessage(p))

\* ... or that a transmission failed.
RchTransmissionError(p) == TransmissionError(RchWaitForMessage(p))

RchPassUpMessage(p) ==
  RchWaitForMessage(MessageReceived([p EXCEPT !.rch = "PASS_UP_MESSAGE"]))

\* The chunk request is constructed at once, whatever the transmitter does.
RchRequestingChunk(p) ==
  TxConstructMessage([UCPD_TIM_Stop(p, "SENDER_RESPONSE") EXCEPT
                        !.rch = "REQUESTING_CHUNK", !.txKind = "ChunkRequest"])

RchWaitingChunk(p) ==
  UCPD_TIM_Start(UCPD_TIM_Start([p EXCEPT !.rch = "WAITING_CHUNK"], "SENDER_RESPONSE"),
                 "CHUNK_SENDER_RESPONSE")

\* Chunk 0 starts a message over; any other chunk has to be the next one.
RchStartOver(p) ==
  IF p.rxMsg.chunk = 0 THEN [p EXCEPT !.chunkExpected = 0, !.extRx = p.rxMsg.kind] ELSE p

RchTakeChunk(p) ==
  LET q == [p EXCEPT !.chunkExpected = @ + 1]
  IN  CASE p.rxMsg.chunk # p.chunkExpected -> RchErrorWithMessage(p)
        [] p.rxMsg.chunk = p.chunkExpected /\ p.rxMsg.chunk = LastChunk(p.rxMsg.kind) ->
             RchPassUpMessage([q EXCEPT !.extended = TRUE])
        [] OTHER -> RchRequestingChunk(q)

RchProcessingExtendedMessage(p) ==
  RchTakeChunk(RchStartOver(
    UCPD_TIM_Stop(UCPD_TIM_Stop(p, "SENDER_RESPONSE"), "CHUNK_SENDER_RESPONSE")))

\* PRL_RTR_STATE_RX_CHUNKS
RouteReceived(p) ==
  CASE p.rch = "REQUESTING_CHUNK" -> RchErrorWithMessage(p)
    [] p.rch # "REQUESTING_CHUNK" /\ p.rxMsg.kind \in ExtKinds ->
         RchProcessingExtendedMessage(p)
    [] p.rch = "WAITING_CHUNK" /\ p.rxMsg.kind \notin ExtKinds -> RchErrorWithMessage(p)
    [] OTHER -> RchPassUpMessage(p)

\* The message goes up; a transmission in progress is dropped.
RxStoreMessageID(p) ==
  LET q == [TxWaitForMessageRequest(p) EXCEPT
              !.rx = "WAIT_FOR_PHY_MESSAGE", !.storedMID = p.rxMsg.id,
              !.passedUp = TRUE]
  IN  RouteReceived(IF q.tch = "WAIT_FOR_MESSAGE_REQUEST_FROM_PE" THEN q
                    ELSE TchWaitForRequest([q EXCEPT !.extRx = NONE]))

\* Mutant: the MessageID is not looked at.
StoreEveryMessage(p) == RxStoreMessageID(p)

\* A message with the MessageID of the last one is a retransmission.
RxCheckMessageID(p) ==
  IF p.storedMID # p.rxMsg.id THEN RxStoreMessageID(p)
  ELSE [p EXCEPT !.rx = "WAIT_FOR_PHY_MESSAGE"]

\* The GoodCRC is built in the buffer that also holds the message to send.
RxSendGoodCRC(p) ==
  UCPD_PHY_SendMessage([p EXCEPT !.rx = "SEND_GOODCRC", !.txKind = "GoodCRC",
                                 !.txID = p.rxMsg.id])

\* Mutant: the stored MessageID outlives a Soft_Reset of the source.
LayerResetKeepsStored(p) == TxWaitForMessageRequest([p EXCEPT !.mid = 0])

RxLayerReset(p) ==
  TxWaitForMessageRequest([p EXCEPT !.mid = 0, !.storedMID = NoMID])

ReportSent(p) ==
  CASE p.rch = "REQUESTING_CHUNK" -> RchWaitingChunk(p)
    [] p.rch # "REQUESTING_CHUNK"
         /\ p.tch \in {"SENDING_CHUNKED_MESSAGE", "WAIT_FOR_TRANSMISSION_COMPLETE"} ->
         MessageSent(TchWaitForRequest(p))
    [] OTHER -> p

TxMessageSent(p) == ReportSent(TxWaitForMessageRequest(IncrementMID(p)))

\* Mutant: the MessageID of a message that failed is used again.
GiveUpKeepsMID(p) ==
  IF p.retry + 1 <= NRetry
  THEN TxConstructMessage([p EXCEPT !.retry = @ + 1])
  ELSE RchTransmissionError(TxWaitForMessageRequest(p))

TxCheckRetryCounter(p) ==
  IF p.retry + 1 <= NRetry
  THEN TxConstructMessage([p EXCEPT !.retry = @ + 1])
  ELSE RchTransmissionError(TxWaitForMessageRequest(IncrementMID(p)))

\* Any GoodCRC gets here, whether one is expected or not.
TxMatchMessageID(p) ==
  LET q == UCPD_TIM_Stop(p, "CRC_RECEIVE")
  IN  IF p.rxMsg.id = p.mid THEN TxMessageSent(q) ELSE TxCheckRetryCounter(q)

-----------------------------------------------------------------------------
\* UCPD_PRL_SM_Delta and, after it, UCPD_PE_SM_Delta

MsgRxComplete(p) ==
  CASE p.rxMsg.kind = "GoodCRC" -> TxMatchMessageID(p)
    [] p.rxMsg.kind # "GoodCRC" /\ p.tx = "WAIT_FOR_PHY_RESPONSE" -> p
    [] p.rxMsg.kind = "Soft_Reset" /\ p.tx # "WAIT_FOR_PHY_RESPONSE" ->
         RxSendGoodCRC(RxLayerReset(p))
    [] OTHER -> RxSendGoodCRC(p)

MsgTxDiscarded(p) ==
  CASE p.rx = "SEND_GOODCRC" -> [p EXCEPT !.rx = "WAIT_FOR_PHY_MESSAGE"]
    [] p.rx # "SEND_GOODCRC" /\ p.tx = "WAIT_FOR_PHY_RESPONSE" -> TxCheckRetryCounter(p)
    [] OTHER -> p

\* Mutant: the CRC timer is started after every transmission.
CompletedAlwaysArms(p) ==
  UCPD_TIM_Start(IF p.txKind = "GoodCRC" THEN RxCheckMessageID(p) ELSE p, "CRC_RECEIVE")

MsgTxCompleted(p) ==
  IF p.txKind = "GoodCRC" THEN RxCheckMessageID(p)
  ELSE UCPD_TIM_Start(p, "CRC_RECEIVE")

HrdReceived(p) == IF p.hrdOriginPE THEN RequestHardReset(p) ELSE IndicateHardReset(p)

\* Mutant: every change of Rp to 3.0 A starts a transmission.
TxOkSendsAgain(p) == IF p.sinkTxOk THEN TxConstructMessage(p) ELSE p

\* UCPD_CAD_SM_Delta in CAD_STATE_ATTACHED: the connection event of the change of
\* the source's Rp to 3.0 A is what resumes a pending transmission.
TxOk(p) ==
  IF p.sinkTxOk /\ p.tx = "SNK_PENDING" THEN TxConstructMessage(p) ELSE p

PhyEvents == {"MSG_RX_COMPLETE", "MSG_TX_DISCARDED", "MSG_TX_COMPLETED",
              "HRD_SENT", "HRD_RECEIVED", "CONN_DETECTED"}
PhyDelta(p, event) ==
  CASE event = "MSG_RX_COMPLETE"  -> MsgRxComplete(p)
    [] event = "MSG_TX_DISCARDED" -> MsgTxDiscarded(p)
    [] event = "MSG_TX_COMPLETED" -> MsgTxCompleted(p)
    [] event = "HRD_SENT"         -> HardResetSent(p)
    [] event = "HRD_RECEIVED"     -> HrdReceived(p)
    [] event = "CONN_DETECTED"    -> TxOk(p)
    [] OTHER                      -> p

TimerDelta(p, event) ==
  CASE event = "CRC_RECEIVE"           -> TxCheckRetryCounter(p)
    [] event = "CHUNK_SENDER_RESPONSE" -> RchTransmissionError(p)
    [] event = "HARD_RESET_COMPLETE"   -> HardResetSent(p)
    [] event = "SRT_EXPIRED"           -> SenderResponseExpired(p)
    [] event = "PST_TRANS_TIMEOUT"     -> EnterHardReset(p)
    [] event = "SINK_EPR_ENTER"        -> EnterSendSoftReset(p)
    [] event = "SINK_PPS_PERIODIC"     ->
         EnterEvaluateCapability([p EXCEPT !.pps_periodic_expired = TRUE])
    [] event = "SINK_EPR_KEEP_ALIVE"   -> IF p.epr_mode THEN EnterEPRKeepAlive(p) ELSE p
    [] OTHER                           -> p

-----------------------------------------------------------------------------
\* The connection

\* UCPD_PE_PRL_CAD_Reset and PRL_INIT: nothing is left of an earlier connection, and
\* transmission is not allowed until something is received.
NewPort ==
  [cad |-> "ATTACHED", snk |-> "NONE",
   rx |-> "WAIT_FOR_PHY_MESSAGE", tx |-> "WAIT_FOR_MESSAGE_REQUEST",
   rch |-> "WAIT_FOR_MESSAGE_FROM_PRL", tch |-> "WAIT_FOR_MESSAGE_REQUEST_FROM_PE",
   mid |-> 0, retry |-> 0, storedMID |-> NoMID, passedUp |-> FALSE,
   txAllowed |-> FALSE, txKind |-> NONE, txID |-> 0, air |-> NoMessage,
   rxMsg |-> NoMessage, extRx |-> NONE, extended |-> FALSE, chunkExpected |-> 0,
   explicit_contract |-> FALSE, ams |-> FALSE, ams_first_sent |-> FALSE,
   epr_mode |-> FALSE, pps_contract |-> FALSE, response_expected |-> FALSE,
   entering_epr |-> FALSE, pps_periodic_expired |-> FALSE,
   hardResetActive |-> FALSE, hrdOriginPE |-> FALSE,
   dpm_event |-> NONE, callback |-> NONE, current_callback |-> NONE,
   status |-> NONE, sync_operation |-> FALSE, told |-> NoCall,
   user |-> NoUserCode, stuck |-> FALSE,
   sinkTxOk |-> TRUE, vS0_to_vS5 |-> TRUE,
   tim |-> [c \in {0, 1} |-> NONE]]

\* UCPD_CAD_SM_Enter(ATTACHED): the policy engine starts on the VBUS that led here.
Attach == EnterStartup(NewPort)

\* UCPD_CAD_SM_Enter(UNATTACHED): whoever waits for a request is told, and nothing
\* of the connection goes on.  The port still counts as attached when the port's
\* callback is called, after the requests were dropped.
Detach(p) ==
  [StopAllTimers(UserCode([EndRequest(p, "DISCONNECTED") EXCEPT !.dpm_event = NONE],
                          "PORT_CALLBACK"))
     EXCEPT !.cad = "UNATTACHED", !.air = NoMessage]

\* UCPD_CAD_SM_Delta for VBUS in CAD_STATE_ATTACHED
PwrDelta(p, event) ==
  CASE event = "VBUS_REMOVED" /\ p.cad = "ATTACHED" /\ ~p.hardResetActive -> Detach(p)
    [] event = "VBUS_DETECTED" /\ p.cad = "ATTACHED" -> VbusPresent(p)
    [] OTHER -> p

-----------------------------------------------------------------------------
\* The callback of a call that the request's own callback or the policy made, if any
NextCallback(p) == [p EXCEPT !.current_callback = p.callback, !.callback = NONE]

\* Mutant: a request that comes outside READY is dropped.
DropsWhenNotReady(p) ==
  LET r == DpmRequest([p EXCEPT !.dpm_event = NONE], p.dpm_event)
  IN  CASE p.dpm_event = NONE -> p
        [] p.dpm_event # NONE /\ p.snk # "READY" -> [p EXCEPT !.dpm_event = NONE]
        [] OTHER -> NextCallback(r)

\* The last lines of UCPD_PE_PRL_Handler: a request of the application is taken in
\* READY and waits otherwise; a waiting callback becomes the current one at once.
HandleDpm(p) ==
  LET q == [p EXCEPT !.current_callback = IF @ = NONE THEN p.callback ELSE @]
  IN  IF p.dpm_event = NONE \/ p.snk # "READY" THEN q
      ELSE NextCallback(DpmRequest([q EXCEPT !.dpm_event = NONE], p.dpm_event))

\* UCPD_PE_PRL_Handler: VBUS first, a change of the connection drops the other
\* events; then a received hard reset, which drops the timer event; then timers
\* before messages; then the application.  The expiry of HardResetCompleteTimer
\* drops a HRD_SENT that came with it.
HandleEvents(p, phy, timer, timersGated) ==
  LET expired == ~timersGated /\ timer # NONE
      dropped == expired /\ timer = "HARD_RESET_COMPLETE" /\ phy = "HRD_SENT"
  IN  IF phy = "HRD_RECEIVED" THEN HrdReceived(p)
      ELSE PhyDelta(IF expired THEN TimerDelta(p, timer) ELSE p,
                    IF dropped THEN NONE ELSE phy)

HandleConnection(port, p, phy, timer) ==
  IF p.cad # port.cad THEN p
  ELSE HandleEvents(p, phy, timer, port.hardResetActive /\ ~port.hrdOriginPE)

UCPD_PE_PRL_Handler(port, pwr, phy, timer) ==
  HandleDpm(HandleConnection(port, PwrDelta(port, pwr), phy, timer))

=============================================================================
