--------------------------- MODULE UcpdTalkProofs ----------------------------
(***************************************************************************)
(* The conversation of the port and its source, outside EPR mode: as long  *)
(* as the port gives up a message only when it has a contract, the source  *)
(* is never surprised, both agree that there is a contract, and what the   *)
(* source takes as received has been handed up once.                       *)
(*                                                                         *)
(* First what a run of the handler stores, says and goes to; then one run  *)
(* of it in a conversation; then the steps of the source, the wire, VBUS,  *)
(* the timers and the worker; at the end what the losses have cost.        *)
(***************************************************************************)
EXTENDS UcpdStackProofs


-----------------------------------------------------------------------------
\* What is handed up

\* From q to r nothing is handed up, and the stored MessageID stays.
Untold(q, r) ==
  /\ DOMAIN r = DOMAIN q
  /\ r.storedMID = q.storedMID /\ r.passedUp = q.passedUp /\ r.rxMsg = q.rxMsg

Stores(q) == {"storedMID", "passedUp", "rxMsg"} \subseteq DOMAIN q

LEMMA UntoldChains ==
  ASSUME NEW q, NEW r, NEW s, Untold(q, r), Untold(r, s)
  PROVE  Untold(q, s)
  BY DEF Untold

LEMMA PortStores == ASSUME NEW q, Port(q) PROVE Stores(q)
  BY DEF Port, Fields, Stores

LEMMA UntoldDown ==
  ASSUME NEW q, Stores(q)
  PROVE  /\ Untold(q, IncrementMID(q)) /\ Untold(q, StopAllTimers(q))
         /\ Untold(q, UCPD_PHY_SendMessage(q)) /\ Untold(q, UCPD_PHY_SendHardReset(q))
         /\ Untold(q, UCPD_PHY_HRDRS_Completed(q))
         /\ Untold(q, TxWaitForMessageRequest(q)) /\ Untold(q, RchWaitForMessage(q))
         /\ Untold(q, TchWaitForRequest(q))
         /\ \A t : Untold(q, UCPD_TIM_Start(q, t)) /\ Untold(q, UCPD_TIM_Stop(q, t))
  BY DEF Untold, Stores, IncrementMID, StopAllTimers, UCPD_PHY_SendMessage,
         UCPD_PHY_SendHardReset, UCPD_PHY_HRDRS_Completed, TxWaitForMessageRequest,
         RchWaitForMessage, TchWaitForRequest, UCPD_TIM_Start, UCPD_TIM_Stop

LEMMA UntoldConstruct == ASSUME NEW q, Stores(q) PROVE Untold(q, TxConstructMessage(q))
  BY UntoldDown DEF Untold, Stores, TxConstructMessage, UCPD_PHY_SendMessage

LEMMA UntoldRequest == ASSUME NEW q, Stores(q) PROVE Untold(q, TxRequest(q))
  BY UntoldConstruct DEF Untold, Stores, TxRequest, TxPending

LEMMA UntoldPassDown ==
  ASSUME NEW q, Stores(q)
  PROVE  /\ Untold(q, PassDown(q)) /\ Untold(q, PrlInit(q)) /\ Untold(q, ResetLayers(q))
  <1>1. Untold(q, TchPassDownMessage(q))
    <2> DEFINE a == [q EXCEPT !.tch = "WAIT_FOR_TRANSMISSION_COMPLETE"]
    <2>1. Stores(a) /\ Untold(q, a)
      BY DEF Stores, Untold
    <2> QED
      BY <2>1, UntoldRequest, UntoldChains DEF TchPassDownMessage
  <1>2. Untold(q, TchSendChunk(q))
    <2> DEFINE a == [q EXCEPT !.tch = "SENDING_CHUNKED_MESSAGE", !.txKind = "KeepAlive"]
    <2>1. Stores(a) /\ Untold(q, a)
      BY DEF Stores, Untold
    <2> QED
      BY <2>1, UntoldRequest, UntoldChains DEF TchSendChunk
  <1>3. \A a : Stores(a) => Untold(a, PrlInit(a))
    BY DEF PrlInit, TxWaitForMessageRequest, RchWaitForMessage, TchWaitForRequest,
           Untold, Stores
  <1>4. Untold(q, ResetLayers(q))
    BY <1>3, UntoldDown DEF ResetLayers, Untold, Stores
  <1> QED
    BY <1>1, <1>2, <1>3, <1>4 DEF PassDown

\* The calls of the application
LEMMA UntoldCalls ==
  ASSUME NEW q, Stores(q)
  PROVE  /\ \A place : Untold(q, UserCode(q, place))
         /\ \A status : Untold(q, Callback(q, status)) /\ Untold(q, EndRequest(q, status))
         /\ Untold(q, EndPolicyRequest(q))
  <1>1. \A a : Stores(a) => \A call, running : Untold(a, UserCall(a, call, running))
    BY DEF UserCall, Untold, Stores
  <1>2. \A a : Stores(a) => \A place : Untold(a, UserCode(a, place))
    <2> SUFFICES ASSUME NEW a, Stores(a), NEW place PROVE Untold(a, UserCode(a, place))
      OBVIOUS
    <2>1. Stores([a EXCEPT !.user = NoUserCode]) /\ Untold(a, [a EXCEPT !.user = NoUserCode])
      BY DEF Stores, Untold
    <2>2. Untold(a, a)
      BY DEF Untold
    <2> QED
      BY <2>1, <2>2, <1>1, UntoldChains DEF UserCode
  <1>3. \A a : Stores(a) => \A status : Untold(a, Callback(a, status))
    <2> SUFFICES ASSUME NEW a, Stores(a), NEW status PROVE Untold(a, Callback(a, status))
      OBVIOUS
    <2>1. Untold(a, UserCode(a, "CALLBACK"))
      BY <1>2
    <2> HIDE <1>2
    <2> QED
      BY <2>1 DEF Callback, Untold, Stores
  <1>4. \A status : Untold(q, EndRequest(q, status))
    BY <1>3 DEF EndRequest, Untold, Stores
  <1>5. Untold(q, EndPolicyRequest(q))
    <2> DEFINE a == [q EXCEPT !.status = "SUCCESS", !.sync_operation = FALSE]
    <2>1. Stores(a) /\ Untold(q, a) /\ Untold(q, q)
      BY DEF Stores, Untold
    <2> QED
      BY <2>1, <1>3, UntoldChains DEF EndPolicyRequest
  <1> QED
    BY <1>2, <1>3, <1>4, <1>5

\* The states of the policy engine
LEMMA UntoldGo ==
  ASSUME NEW q, Stores(q)
  PROVE  \A state : Untold(q, Go(q, state))
  <1>1. Untold(q, UCPD_PE_SM_SNK_Exit(q))
    <2>1. \A a : Stores(a) => \A t : Untold(a, UCPD_TIM_Stop(a, t))
      BY UntoldDown
    <2>2. \A a : Stores(a) =>
            /\ \A place : Untold(a, UserCode(a, place))
            /\ \A status : Untold(a, EndRequest(a, status))
      BY UntoldCalls
    <2>3. Untold(q, UCPD_PHY_HRDRS_Completed(q)) /\ Untold(q, q)
      BY UntoldDown DEF Untold
    <2>4. \A t : Untold(q, UserCode(UCPD_TIM_Stop(q, t), "POLICY"))
      BY <2>1, <2>2 DEF Untold, Stores
    <2>5. \A t : Untold(q, [UCPD_TIM_Stop(q, t) EXCEPT !.ams = TRUE, !.pps_contract = FALSE])
      BY <2>1 DEF Untold, Stores
    <2>6. Untold(q, [q EXCEPT !.ams = TRUE])
      BY DEF Untold, Stores
    <2>7. \A t, status : \A b \in BOOLEAN :
            Untold(q, UCPD_TIM_Stop(EndRequest([q EXCEPT !.epr_mode = b], status), t))
      <3> SUFFICES ASSUME NEW t, NEW status, NEW b \in BOOLEAN
                   PROVE  Untold(q, UCPD_TIM_Stop(EndRequest([q EXCEPT !.epr_mode = b], status), t))
        OBVIOUS
      <3> DEFINE a == [q EXCEPT !.epr_mode = b]
      <3>1. Stores(a) /\ Untold(q, a)
        BY DEF Untold, Stores
      <3>2. Untold(a, EndRequest(a, status))
        BY <3>1, <2>2
      <3>3. Stores(EndRequest(a, status))
        BY <3>1, <3>2 DEF Untold, Stores
      <3> QED
        BY <3>1, <3>2, <3>3, <2>1, UntoldChains
    <2> HIDE <2>1, <2>2
    <2> QED
      BY <2>1, <2>3, <2>4, <2>5, <2>6, <2>7 DEF UCPD_PE_SM_SNK_Exit
  <1> QED
    BY <1>1 DEF Go, Untold, Stores

LEMMA UntoldStart ==
  ASSUME NEW q, Stores(q)
  PROVE  /\ Untold(q, EnterWaitForCapabilities(q)) /\ Untold(q, EnterDiscovery(q))
         /\ Untold(q, EnterStartup(q)) /\ Untold(q, EnterTransitionToDefault(q))
         /\ Untold(q, VbusPresent(q))
  <1>1. \A a : Stores(a) => Untold(a, EnterWaitForCapabilities(a))
    <2> SUFFICES ASSUME NEW a, Stores(a) PROVE Untold(a, EnterWaitForCapabilities(a))
      OBVIOUS
    <2> DEFINE b == [Go(a, "WAIT_FOR_CAPABILITIES") EXCEPT !.explicit_contract = FALSE]
    <2>1. Stores(b) /\ Untold(a, b)
      BY UntoldGo DEF Untold, Stores
    <2> QED
      BY <2>1, UntoldDown, UntoldChains DEF EnterWaitForCapabilities
  <1>2. \A a : Stores(a) => Untold(a, LeaveDiscovery(a))
    <2> SUFFICES ASSUME NEW a, Stores(a) PROVE Untold(a, LeaveDiscovery(a))
      OBVIOUS
    <2> DEFINE b == [a EXCEPT !.vS0_to_vS5 = FALSE]
    <2>1. Stores(b) /\ Untold(a, b) /\ Untold(a, a)
      BY DEF Untold, Stores
    <2> QED
      BY <2>1, <1>1, UntoldChains DEF LeaveDiscovery
  <1>3. \A a : Stores(a) => Untold(a, EnterDiscovery(a))
    BY UntoldGo, <1>2 DEF EnterDiscovery, Untold, Stores
  <1>4. \A a : Stores(a) => Untold(a, EnterStartup(a))
    <2> SUFFICES ASSUME NEW a, Stores(a) PROVE Untold(a, EnterStartup(a))
      OBVIOUS
    <2> DEFINE b == [Go(a, "STARTUP") EXCEPT !.hrdOriginPE = FALSE, !.epr_mode = FALSE]
    <2>1. Stores(b) /\ Untold(a, b)
      BY UntoldGo DEF Untold, Stores
    <2> QED
      BY <2>1, <1>3, UntoldChains DEF EnterStartup
  <1>5. Untold(q, EnterTransitionToDefault(q))
    <2> DEFINE a == StopKeepAlive(Go(q, "TRANSITION_TO_DEFAULT"))
               b == [Callback(a, "SUCCESS")
                      EXCEPT !.explicit_contract = FALSE, !.pps_contract = FALSE,
                             !.ams = FALSE, !.ams_first_sent = FALSE,
                             !.hrdOriginPE = FALSE, !.extended = FALSE,
                             !.sync_operation = FALSE]
    <2>1. Stores(a) /\ Untold(q, a)
      BY UntoldGo, UntoldDown DEF StopKeepAlive, Untold, Stores
    <2>2. Untold(a, Callback(a, "SUCCESS"))
      BY <2>1, UntoldCalls
    <2>3. Stores(b) /\ Untold(a, b)
      BY <2>1, <2>2 DEF Untold, Stores
    <2>4. Untold(b, UserCode(b, "POLICY"))
      BY <2>3, UntoldCalls
    <2>5. Stores(UserCode(b, "POLICY"))
      BY <2>3, <2>4 DEF Untold, Stores
    <2>6. EnterTransitionToDefault(q) = EnterStartup(UserCode(b, "POLICY"))
      BY DEF EnterTransitionToDefault
    <2> HIDE DEF a, b
    <2> QED
      BY <2>1, <2>3, <2>4, <2>5, <2>6, <1>4, UntoldChains
  <1> QED
    BY <1>1, <1>3, <1>4, <1>5 DEF VbusPresent, Untold

LEMMA UntoldResets ==
  ASSUME NEW q, Stores(q)
  PROVE  /\ Untold(q, HardResetSent(q)) /\ Untold(q, HrdReceived(q))
         /\ Untold(q, EnterHardReset(q))
  <1>1. \A a : Stores(a) => Untold(a, RequestHardReset(a))
    <2> SUFFICES ASSUME NEW a, Stores(a) PROVE Untold(a, RequestHardReset(a))
      OBVIOUS
    <2>1. Untold(a, ResetLayers(a))
      BY UntoldPassDown
    <2>2. Stores(ResetLayers(a))
      BY <2>1 DEF Untold, Stores
    <2> DEFINE b == UCPD_PHY_SendHardReset(ResetLayers(a))
    <2>3. Untold(ResetLayers(a), b)
      BY <2>2, UntoldDown
    <2>4. Stores(b)
      BY <2>2, <2>3 DEF Untold, Stores
    <2> QED
      BY <2>1, <2>3, <2>4, UntoldDown, UntoldChains DEF RequestHardReset
  <1>2. Untold(q, EnterHardReset(q))
    <2> DEFINE b == [Go(q, "HARD_RESET") EXCEPT
                       !.hrdOriginPE = TRUE, !.hardResetActive = TRUE, !.pps_contract = FALSE,
                       !.ams = FALSE, !.ams_first_sent = FALSE, !.epr_mode = FALSE]
    <2>1. Stores(b) /\ Untold(q, b)
      BY UntoldGo DEF Untold, Stores
    <2> QED
      BY <2>1, <1>1, UntoldChains DEF EnterHardReset
  <1>3. Untold(q, HardResetSent(q))
    <2> DEFINE a == UCPD_TIM_Stop(q, "HARD_RESET_COMPLETE")
               b == UCPD_PHY_HRDRS_Completed(a)
    <2>1. Stores(a) /\ Untold(q, a)
      BY UntoldDown DEF Untold, Stores
    <2>2. Untold(a, b)
      BY <2>1, UntoldDown
    <2>3. Stores(b)
      BY <2>1, <2>2 DEF Untold, Stores
    <2> QED
      BY <2>1, <2>2, <2>3, UntoldStart, UntoldChains DEF HardResetSent
  <1>4. Untold(q, IndicateHardReset(q))
    <2> DEFINE a == ResetLayers(q)
               b == UCPD_PHY_HRDRS_Completed(a)
               c == EndRequest(b, "CANCELLED")
    <2>1. Stores(a) /\ Untold(q, a)
      BY UntoldPassDown DEF Untold, Stores
    <2>2. Untold(a, b)
      BY <2>1, UntoldDown
    <2>3. Stores(b)
      BY <2>1, <2>2 DEF Untold, Stores
    <2>4. Untold(b, c)
      BY <2>3, UntoldCalls
    <2>5. Stores(c)
      BY <2>3, <2>4 DEF Untold, Stores
    <2> QED
      BY <2>1, <2>2, <2>4, <2>5, UntoldStart, UntoldChains DEF IndicateHardReset
  <1> QED
    BY <1>1, <1>2, <1>3, <1>4 DEF HrdReceived

LEMMA UntoldReady == ASSUME NEW q, Stores(q) PROVE Untold(q, EnterReady(q))
  <1> DEFINE a == [Go(q, "READY") EXCEPT
                     !.ams = FALSE, !.explicit_contract = TRUE, !.ams_first_sent = FALSE]
             b == StartPPSPeriodic(a)
  <1>1. Stores(a) /\ Untold(q, a) /\ Untold(a, a)
    BY UntoldGo DEF Untold, Stores
  <1>2. Untold(a, b)
    BY <1>1, UntoldDown DEF StartPPSPeriodic
  <1>3. Stores(b) /\ Untold(b, b)
    BY <1>1, <1>2 DEF Untold, Stores
  <1>4. Untold(b, StartKeepAlive(b))
    BY <1>3, UntoldDown DEF StartKeepAlive
  <1>5. EnterReady(q) = StartKeepAlive(b)
    BY DEF EnterReady
  <1> HIDE DEF a, b
  <1> QED
    BY <1>1, <1>2, <1>4, <1>5, UntoldChains

LEMMA UntoldError ==
  ASSUME NEW q, Stores(q)
  PROVE  /\ Untold(q, EnterSendSoftReset(q)) /\ Untold(q, TransmissionError(q))
         /\ Untold(q, RchTransmissionError(q))
  <1>1. \A a : Stores(a) => Untold(a, EnterSendSoftReset(a))
    <2> SUFFICES ASSUME NEW a, Stores(a) PROVE Untold(a, EnterSendSoftReset(a))
      OBVIOUS
    <2> DEFINE g == Go(a, "SEND_SOFT_RESET")
               b == [PrlInit(g) EXCEPT !.txKind = "Soft_Reset"]
    <2>1. Stores(g) /\ Untold(a, g)
      BY UntoldGo DEF Untold, Stores
    <2>2. Untold(g, PrlInit(g))
      BY <2>1, UntoldPassDown
    <2>3. Stores(b) /\ Untold(g, b)
      BY <2>1, <2>2 DEF Untold, Stores
    <2>4. EnterSendSoftReset(a) = PassDown(b)
      BY DEF EnterSendSoftReset
    <2> HIDE DEF b, g
    <2> QED
      BY <2>1, <2>3, <2>4, UntoldPassDown, UntoldChains
  <1>2. \A a : Stores(a) => Untold(a, TransmissionError(a))
    BY <1>1, UntoldResets, UntoldReady DEF TransmissionError
  <1>3. Untold(q, RchTransmissionError(q))
    <2>1. Untold(q, RchWaitForMessage(q))
      BY UntoldDown
    <2>2. Stores(RchWaitForMessage(q))
      BY <2>1 DEF Untold, Stores
    <2> QED
      BY <1>2, <2>1, <2>2, UntoldChains DEF RchTransmissionError
  <1> QED
    BY <1>1, <1>2, <1>3

LEMMA UntoldMessage == ASSUME NEW q, Stores(q) PROVE Untold(q, MessageFromPE(q))
  <1> DEFINE a == [q EXCEPT !.tch = "REPORT_ERROR"]
  <1>1. Stores(a) /\ Untold(q, a)
    BY DEF Untold, Stores
  <1>2. Untold(a, TransmissionError(a))
    BY <1>1, UntoldError
  <1>3. Stores(TransmissionError(a))
    BY <1>1, <1>2 DEF Untold, Stores
  <1>4. Untold(TransmissionError(a), TchWaitForRequest(TransmissionError(a)))
    BY <1>3, UntoldDown
  <1> QED
    BY <1>1, <1>2, <1>4, UntoldPassDown, UntoldChains DEF MessageFromPE

LEMMA UntoldAnswers ==
  ASSUME NEW q, Stores(q)
  PROVE  /\ Untold(q, EnterSendNotSupported(q)) /\ Untold(q, EnterSoftReset(q))
         /\ Untold(q, EnterSendEPRModeEntry(q)) /\ Untold(q, EnterSendEPRModeExit(q))
         /\ Untold(q, EnterEPRModeExitReceived(q)) /\ Untold(q, EnterEPRKeepAlive(q))
         /\ Untold(q, EnterTransitionSink(q)) /\ Untold(q, EnterEvaluateCapability(q))
  <1>1. Untold(q, EnterSendNotSupported(q))
    <2> DEFINE b == [Go(q, "SEND_NOT_SUPPORTED") EXCEPT !.txKind = "Not_Supported"]
    <2>1. Stores(b) /\ Untold(q, b)
      BY UntoldGo DEF Untold, Stores
    <2> QED
      BY <2>1, UntoldMessage, UntoldChains DEF EnterSendNotSupported
  <1>2. Untold(q, EnterSoftReset(q))
    <2> DEFINE b == [Go(q, "SOFT_RESET") EXCEPT !.txKind = "Accept"]
    <2>1. Stores(b) /\ Untold(q, b)
      BY UntoldGo DEF Untold, Stores
    <2>2. Untold(b, EndRequest(b, "CANCELLED"))
      BY <2>1, UntoldCalls
    <2>3. Stores(EndRequest(b, "CANCELLED"))
      BY <2>1, <2>2 DEF Untold, Stores
    <2> QED
      BY <2>1, <2>2, <2>3, UntoldMessage, UntoldChains DEF EnterSoftReset
  <1>3. Untold(q, EnterSendEPRModeEntry(q))
    <2> DEFINE b == [Go(q, "SEND_EPR_MODE_ENTRY") EXCEPT
                       !.txKind = "EPREnter", !.response_expected = TRUE, !.entering_epr = TRUE]
    <2>1. Stores(b) /\ Untold(q, b)
      BY UntoldGo DEF Untold, Stores
    <2> QED
      BY <2>1, UntoldMessage, UntoldChains DEF EnterSendEPRModeEntry
  <1>4. Untold(q, EnterSendEPRModeExit(q))
    <2> DEFINE b == [Go(q, "SEND_EPR_MODE_EXIT") EXCEPT !.txKind = "EPRExit"]
    <2>1. Stores(b) /\ Untold(q, b)
      BY UntoldGo DEF Untold, Stores
    <2> QED
      BY <2>1, UntoldMessage, UntoldChains DEF EnterSendEPRModeExit
  <1>5. Untold(q, EnterEPRModeExitReceived(q))
    <2> DEFINE b == [Go(q, "EPR_MODE_EXIT_RECEIVED") EXCEPT !.epr_mode = FALSE]
    <2>1. Stores(b) /\ Untold(q, b)
      BY UntoldGo DEF Untold, Stores
    <2> QED
      BY <2>1, UntoldStart, UntoldChains DEF EnterEPRModeExitReceived
  <1>6. Untold(q, EnterEPRKeepAlive(q))
    <2> DEFINE b == [Go(q, "EPR_KEEP_ALIVE") EXCEPT
                       !.response_expected = TRUE, !.extended = TRUE]
    <2>1. Stores(b) /\ Untold(q, b)
      BY UntoldGo DEF Untold, Stores
    <2> QED
      BY <2>1, UntoldMessage, UntoldChains DEF EnterEPRKeepAlive
  <1>7. Untold(q, EnterTransitionSink(q))
    <2> DEFINE g == Go(q, "TRANSITION_SINK")
               b == UCPD_TIM_Stop(g, "SENDER_RESPONSE")
    <2>1. Stores(g) /\ Untold(q, g)
      BY UntoldGo DEF Untold, Stores
    <2>2. Untold(g, b)
      BY <2>1, UntoldDown
    <2>3. Stores(b)
      BY <2>1, <2>2 DEF Untold, Stores
    <2> QED
      BY <2>1, <2>2, <2>3, UntoldDown, UntoldChains DEF EnterTransitionSink, StartTransition
  <1>8. \A a : Stores(a) => Untold(a, EnterSelectCapability(a))
    <2> SUFFICES ASSUME NEW a, Stores(a) PROVE Untold(a, EnterSelectCapability(a))
      OBVIOUS
    <2> DEFINE g == [Go(a, "SELECT_CAPABILITY") EXCEPT !.response_expected = TRUE]
    <2>1. Stores(g) /\ Untold(a, g)
      BY UntoldGo DEF Untold, Stores
    <2>2. Untold(g, IncrementMID(g))
      BY <2>1, UntoldDown
    <2> HIDE DEF g
    <2>3. Untold(g, PrepareRequest(g))
      BY <2>1, <2>2 DEF PrepareRequest, Untold, Stores
    <2>4. Stores(PrepareRequest(g))
      BY <2>1, <2>3 DEF Untold, Stores
    <2>5. EnterSelectCapability(a) = MessageFromPE(PrepareRequest(g))
      BY DEF EnterSelectCapability, g
    <2> QED
      BY <2>1, <2>3, <2>4, <2>5, UntoldMessage, UntoldChains
  <1>9. Untold(q, EnterEvaluateCapability(q))
    <2> DEFINE g == [Go(q, "EVALUATE_CAPABILITY") EXCEPT
                       !.ams = TRUE, !.pps_periodic_expired = FALSE,
                       !.tx = IF q.pps_periodic_expired THEN @ ELSE "SNK_START_OF_AMS"]
               e == EndPolicyRequest(g)
               u == UserCode(e, "POLICY")
    <2>1. Stores(g) /\ Untold(q, g)
      BY UntoldGo DEF Untold, Stores
    <2>2. EnterEvaluateCapability(q) = EnterSelectCapability(u)
      BY DEF EnterEvaluateCapability
    <2> HIDE DEF g
    <2>3. Untold(g, e)
      BY <2>1, UntoldCalls
    <2>4. Stores(e)
      BY <2>1, <2>3 DEF Untold, Stores
    <2> HIDE DEF e
    <2>5. Untold(e, u)
      BY <2>4, UntoldCalls
    <2>6. Stores(u)
      BY <2>4, <2>5 DEF Untold, Stores
    <2> HIDE DEF u
    <2> QED
      BY <2>1, <2>2, <2>3, <2>5, <2>6, <1>8, UntoldChains
  <1> QED
    BY <1>1, <1>2, <1>3, <1>4, <1>5, <1>6, <1>7, <1>9

\* The policy engine stores no MessageID, whatever it is told.
LEMMA UntoldPolicy ==
  ASSUME NEW q, Stores(q)
  PROVE  /\ \A kind : Untold(q, Receive(q, kind))
         /\ Untold(q, MessageReceived(q)) /\ Untold(q, MessageSent(q))
         /\ Untold(q, SenderResponseExpired(q))
         /\ \A request \in RequestType \ {NONE} : Untold(q, DpmRequest(q, request))
  <1>1. \A a : Stores(a) => \A kind : Untold(a, Receive(a, kind))
    <2> SUFFICES ASSUME NEW a, Stores(a), NEW kind PROVE Untold(a, Receive(a, kind))
      OBVIOUS
    <2>1. Untold(a, EnterReady(UserCode(Go(a, "NOT_SUPPORTED_RECEIVED"), "POLICY")))
      <3> DEFINE g == Go(a, "NOT_SUPPORTED_RECEIVED")
                 u == UserCode(g, "POLICY")
      <3>1. Stores(g) /\ Untold(a, g)
        BY UntoldGo DEF Untold, Stores
      <3>2. Untold(g, u)
        BY <3>1, UntoldCalls
      <3>3. Stores(u)
        BY <3>1, <3>2 DEF Untold, Stores
      <3> QED
        BY <3>1, <3>2, <3>3, UntoldReady, UntoldChains
    <2> QED
      BY <2>1, UntoldGo, UntoldStart, UntoldResets, UntoldReady, UntoldError, UntoldAnswers
      DEF Receive
  <1>2. Untold(q, MessageReceived(q))
    <2> DEFINE a == [q EXCEPT !.extended = FALSE]
    <2>1. Stores(a) /\ Untold(q, a)
      BY DEF Untold, Stores
    <2>2. \E kind : MessageReceived(q) = Receive(a, kind)
      BY DEF MessageReceived
    <2> QED
      BY <2>1, <2>2, <1>1, UntoldChains
  <1>3. Untold(q, MessageSent(q))
    <2> DEFINE a == [q EXCEPT !.extended = FALSE, !.ams_first_sent = @ \/ q.ams]
               k == IF q.extended THEN NONE ELSE q.txKind
               b == Sent(a, k)
               c == AwaitResponse(b)
    <2>1. Stores(a) /\ Untold(q, a) /\ Untold(a, a)
      BY DEF Untold, Stores
    <2>2. MessageSent(q) = AwaitEPREntry(c)
      BY DEF MessageSent
    <2> HIDE DEF a
    <2>3. Untold(a, b)
      BY <2>1, UntoldReady, UntoldStart DEF Sent
    <2>4. Stores(b) /\ Untold(b, b)
      BY <2>1, <2>3 DEF Untold, Stores
    <2> HIDE DEF b
    <2>5. \A x : Stores(x) => \A t : Untold(x, UCPD_TIM_Start(x, t))
      BY UntoldDown
    <2>6. Untold(b, c)
      BY <2>4, <2>5 DEF AwaitResponse, Untold, Stores
    <2>7. Stores(c) /\ Untold(c, c)
      BY <2>4, <2>6 DEF Untold, Stores
    <2> HIDE DEF c
    <2>8. Untold(c, AwaitEPREntry(c))
      BY <2>7, <2>5 DEF AwaitEPREntry, Untold, Stores
    <2> QED
      BY <2>1, <2>2, <2>3, <2>6, <2>8, UntoldChains
  <1>4. Untold(q, SenderResponseExpired(q))
    BY UntoldError, UntoldResets DEF SenderResponseExpired
  <1>5. ASSUME NEW request \in RequestType \ {NONE} PROVE Untold(q, DpmRequest(q, request))
    <2> DEFINE a == [q EXCEPT !.sync_operation = TRUE]
    <2>1. Stores(a) /\ Untold(q, a)
      BY DEF Untold, Stores
    <2>2. DpmRequest(q, request) \in
            {EnterSendEPRModeEntry(a), EnterSendEPRModeExit(a), EnterEvaluateCapability(a),
             EnterHardReset(a)}
      BY DEF DpmRequest, RequestType
    <2> HIDE DEF a
    <2> QED
      BY <2>1, <2>2, UntoldAnswers, UntoldResets, UntoldChains
  <1> QED
    BY <1>1, <1>2, <1>3, <1>4, <1>5

\* The receivers and the transmitter
LEMMA UntoldRoute == ASSUME NEW q, Stores(q) PROVE Untold(q, RouteReceived(q))
  <1>1. \A a : Stores(a) => Untold(a, RchErrorWithMessage(a)) /\ Untold(a, RchPassUpMessage(a))
    <2> SUFFICES ASSUME NEW a, Stores(a)
                 PROVE  Untold(a, RchErrorWithMessage(a)) /\ Untold(a, RchPassUpMessage(a))
      OBVIOUS
    <2> DEFINE w == RchWaitForMessage(a)
               b == [a EXCEPT !.rch = "PASS_UP_MESSAGE"]
               m == MessageReceived(b)
    <2>1. Stores(w) /\ Untold(a, w) /\ Stores(b) /\ Untold(a, b)
      BY UntoldDown DEF Untold, Stores
    <2>2. Untold(w, MessageReceived(w)) /\ Untold(b, m)
      BY <2>1, UntoldPolicy
    <2>3. Stores(m)
      BY <2>1, <2>2 DEF Untold, Stores
    <2>4. Untold(m, RchWaitForMessage(m))
      BY <2>3, UntoldDown
    <2>5. RchErrorWithMessage(a) = MessageReceived(w) /\ RchPassUpMessage(a) = RchWaitForMessage(m)
      BY DEF RchErrorWithMessage, RchPassUpMessage
    <2> HIDE DEF w, b, m
    <2> QED
      BY <2>1, <2>2, <2>4, <2>5, UntoldChains
  <1>2. \A a : Stores(a) => Untold(a, RchRequestingChunk(a))
    <2> SUFFICES ASSUME NEW a, Stores(a) PROVE Untold(a, RchRequestingChunk(a))
      OBVIOUS
    <2> DEFINE b == [UCPD_TIM_Stop(a, "SENDER_RESPONSE") EXCEPT
                        !.rch = "REQUESTING_CHUNK", !.txKind = "ChunkRequest"]
    <2>1. Stores(b) /\ Untold(a, b)
      BY UntoldDown DEF Untold, Stores
    <2> QED
      BY <2>1, UntoldConstruct, UntoldChains DEF RchRequestingChunk
  <1>3. \A a : Stores(a) => Untold(a, RchTakeChunk(a))
    <2> SUFFICES ASSUME NEW a, Stores(a) PROVE Untold(a, RchTakeChunk(a))
      OBVIOUS
    <2> DEFINE b == [a EXCEPT !.chunkExpected = @ + 1]
               c == [b EXCEPT !.extended = TRUE]
    <2>1. Stores(b) /\ Untold(a, b) /\ Stores(c) /\ Untold(a, c)
      BY DEF Untold, Stores
    <2>2. RchTakeChunk(a) \in
            {RchErrorWithMessage(a), RchPassUpMessage(c), RchRequestingChunk(b)}
      BY DEF RchTakeChunk
    <2> HIDE DEF b, c
    <2> QED
      BY <1>1, <1>2, <2>1, <2>2, UntoldChains
  <1>4. Untold(q, RchProcessingExtendedMessage(q))
    <2> DEFINE a == UCPD_TIM_Stop(q, "SENDER_RESPONSE")
               b == UCPD_TIM_Stop(a, "CHUNK_SENDER_RESPONSE")
               c == RchStartOver(b)
    <2>1. Stores(a) /\ Untold(q, a)
      BY UntoldDown DEF Untold, Stores
    <2> HIDE DEF a
    <2>2. Stores(b) /\ Untold(a, b)
      BY <2>1, UntoldDown DEF Untold, Stores
    <2> HIDE DEF b
    <2>3. Stores(c) /\ Untold(b, c)
      BY <2>2 DEF RchStartOver, Untold, Stores
    <2>4. RchProcessingExtendedMessage(q) = RchTakeChunk(c)
      BY DEF RchProcessingExtendedMessage, a, b
    <2> HIDE DEF c
    <2> QED
      BY <2>1, <2>2, <2>3, <2>4, <1>3, UntoldChains
  <1> QED
    BY <1>1, <1>4 DEF RouteReceived

LEMMA UntoldTransmitter ==
  ASSUME NEW q, Stores(q)
  PROVE  /\ Untold(q, TxCheckRetryCounter(q)) /\ Untold(q, TxMatchMessageID(q))
         /\ Untold(q, TxOk(q)) /\ Untold(q, RxSendGoodCRC(q))
  <1>1. \A a : Stores(a) => Untold(a, TxCheckRetryCounter(a))
    <2> SUFFICES ASSUME NEW a, Stores(a) PROVE Untold(a, TxCheckRetryCounter(a))
      OBVIOUS
    <2> DEFINE b == [a EXCEPT !.retry = @ + 1]
               c == IncrementMID(a)
               d == TxWaitForMessageRequest(c)
    <2>1. Stores(b) /\ Untold(a, b) /\ Stores(c) /\ Untold(a, c)
      BY UntoldDown DEF Untold, Stores
    <2>2. Stores(d) /\ Untold(c, d)
      BY <2>1, UntoldDown DEF Untold, Stores
    <2>3. TxCheckRetryCounter(a) \in {TxConstructMessage(b), RchTransmissionError(d)}
      BY DEF TxCheckRetryCounter
    <2> HIDE DEF b, c, d
    <2> QED
      BY <2>1, <2>2, <2>3, UntoldConstruct, UntoldError, UntoldChains
  <1>2. \A a : Stores(a) => Untold(a, TxMessageSent(a))
    <2> SUFFICES ASSUME NEW a, Stores(a) PROVE Untold(a, TxMessageSent(a))
      OBVIOUS
    <2> DEFINE c == IncrementMID(a)
               d == TxWaitForMessageRequest(c)
               t == TchWaitForRequest(d)
               w == [d EXCEPT !.rch = "WAITING_CHUNK"]
               v == UCPD_TIM_Start(w, "SENDER_RESPONSE")
    <2>1. Stores(c) /\ Untold(a, c)
      BY UntoldDown DEF Untold, Stores
    <2> HIDE DEF c
    <2>2. Stores(d) /\ Untold(c, d) /\ Untold(d, d)
      BY <2>1, UntoldDown DEF Untold, Stores
    <2> HIDE DEF d
    <2>a. Untold(d, t)
      BY <2>2, UntoldDown
    <2>b. Stores(w) /\ Untold(d, w)
      BY <2>2 DEF Untold, Stores
    <2>3. Stores(t) /\ Untold(d, t) /\ Stores(w) /\ Untold(d, w)
      BY <2>2, <2>a, <2>b DEF Untold, Stores
    <2>4. Untold(t, MessageSent(t))
      BY <2>3, UntoldPolicy
    <2>c. Untold(w, v)
      BY <2>3, UntoldDown
    <2>5. Stores(v) /\ Untold(w, v)
      BY <2>3, <2>c DEF Untold, Stores
    <2>6. ReportSent(d) \in {UCPD_TIM_Start(v, "CHUNK_SENDER_RESPONSE"), MessageSent(t), d}
      BY DEF ReportSent, RchWaitingChunk
    <2>7. TxMessageSent(a) = ReportSent(d)
      BY DEF TxMessageSent, d, c
    <2> HIDE DEF t, w, v
    <2>8. Untold(v, UCPD_TIM_Start(v, "CHUNK_SENDER_RESPONSE"))
      BY <2>5, UntoldDown
    <2> QED
      BY <2>1, <2>2, <2>3, <2>4, <2>5, <2>6, <2>7, <2>8, UntoldChains
  <1>3. Untold(q, TxMatchMessageID(q))
    <2> DEFINE a == UCPD_TIM_Stop(q, "CRC_RECEIVE")
    <2>1. Stores(a) /\ Untold(q, a)
      BY UntoldDown DEF Untold, Stores
    <2>2. TxMatchMessageID(q) \in {TxMessageSent(a), TxCheckRetryCounter(a)}
      BY DEF TxMatchMessageID
    <2> HIDE DEF a
    <2> QED
      BY <1>1, <1>2, <2>1, <2>2, UntoldChains
  <1>4. Untold(q, TxOk(q))
    BY UntoldConstruct DEF TxOk, Untold
  <1>5. Untold(q, RxSendGoodCRC(q))
    <2> DEFINE a == [q EXCEPT !.rx = "SEND_GOODCRC", !.txKind = "GoodCRC", !.txID = q.rxMsg.id]
    <2>1. Stores(a) /\ Untold(q, a)
      BY DEF Untold, Stores
    <2>2. RxSendGoodCRC(q) = UCPD_PHY_SendMessage(a)
      BY DEF RxSendGoodCRC
    <2> HIDE DEF a
    <2> QED
      BY <2>1, <2>2, UntoldDown, UntoldChains
  <1> QED
    BY <1>1, <1>3, <1>4, <1>5

\* A message is stored when its GoodCRC has left the port, and only if its MessageID is not
\* the one that is stored; nothing else but a Soft_Reset touches what is stored.
Told(q, e, r) ==
  \/ Untold(q, r)
  \/ /\ e = "MSG_RX_COMPLETE"
     /\ r.storedMID = NoMID /\ r.passedUp = q.passedUp /\ r.rxMsg = q.rxMsg
  \/ /\ e = "MSG_TX_COMPLETED" /\ q.storedMID # q.rxMsg.id
     /\ r.storedMID = q.rxMsg.id /\ r.passedUp = TRUE /\ r.rxMsg = q.rxMsg

LEMMA StoreTells ==
  ASSUME NEW q, Stores(q)
  PROVE  LET r == RxStoreMessageID(q)
         IN  r.storedMID = q.rxMsg.id /\ r.passedUp = TRUE /\ r.rxMsg = q.rxMsg
  <1> DEFINE a == [TxWaitForMessageRequest(q) EXCEPT
                     !.rx = "WAIT_FOR_PHY_MESSAGE", !.storedMID = q.rxMsg.id,
                     !.passedUp = TRUE]
             b == [a EXCEPT !.extRx = NONE]
             t == TchWaitForRequest(b)
  <1>1. Stores(a) /\ a.storedMID = q.rxMsg.id /\ a.passedUp = TRUE /\ a.rxMsg = q.rxMsg
    BY UntoldDown DEF Untold, Stores
  <1>2. RxStoreMessageID(q) \in {RouteReceived(a), RouteReceived(t)}
    BY DEF RxStoreMessageID
  <1> HIDE DEF a
  <1>3. Stores(b) /\ Untold(a, b)
    BY <1>1 DEF Untold, Stores
  <1> HIDE DEF b
  <1>4. Stores(t) /\ Untold(b, t)
    BY <1>3, UntoldDown DEF Untold, Stores
  <1> HIDE DEF t
  <1>5. Untold(a, RouteReceived(a)) /\ Untold(t, RouteReceived(t))
    BY <1>1, <1>4, UntoldRoute
  <1> QED
    BY <1>1, <1>2, <1>3, <1>4, <1>5 DEF Untold

LEMMA PhyTells ==
  ASSUME NEW q, Stores(q), NEW e
  PROVE  Told(q, e, PhyDelta(q, e))
  <1>1. Untold(q, q)
    BY DEF Untold
  <1>2. Told(q, "MSG_RX_COMPLETE", MsgRxComplete(q))
    <2> DEFINE a == RxLayerReset(q)
    <2>1. Stores(a) /\ a.storedMID = NoMID /\ a.passedUp = q.passedUp /\ a.rxMsg = q.rxMsg
      BY UntoldDown DEF RxLayerReset, TxWaitForMessageRequest, Untold, Stores
    <2>2. MsgRxComplete(q) \in {TxMatchMessageID(q), q, RxSendGoodCRC(a), RxSendGoodCRC(q)}
      BY DEF MsgRxComplete
    <2> HIDE DEF a
    <2>3. Untold(a, RxSendGoodCRC(a))
      BY <2>1, UntoldTransmitter
    <2> QED
      BY <2>1, <2>2, <2>3, <1>1, UntoldTransmitter DEF Told, Untold
  <1>3. Untold(q, MsgTxDiscarded(q))
    BY <1>1, UntoldTransmitter DEF MsgTxDiscarded, Untold, Stores
  <1>4. Told(q, "MSG_TX_COMPLETED", MsgTxCompleted(q))
    <2>1. Untold(q, UCPD_TIM_Start(q, "CRC_RECEIVE"))
      BY UntoldDown
    <2>2. Untold(q, [q EXCEPT !.rx = "WAIT_FOR_PHY_MESSAGE"])
      BY DEF Untold, Stores
    <2> QED
      BY <2>1, <2>2, StoreTells DEF MsgTxCompleted, RxCheckMessageID, Told
  <1> QED
    BY <1>1, <1>2, <1>3, <1>4, UntoldResets, UntoldTransmitter DEF PhyDelta, Told

LEMMA TimerTells ==
  ASSUME NEW q, Stores(q), NEW t
  PROVE  Untold(q, TimerDelta(q, t))
  <1> DEFINE a == [q EXCEPT !.pps_periodic_expired = TRUE]
  <1>1. Stores(a) /\ Untold(q, a) /\ Untold(q, q)
    BY DEF Untold, Stores
  <1>2. Untold(a, EnterEvaluateCapability(a))
    BY <1>1, UntoldAnswers
  <1>3. Untold(q, EnterEvaluateCapability(a))
    BY <1>1, <1>2, UntoldChains
  <1> HIDE DEF a
  <1> QED
    BY <1>1, <1>3, UntoldTransmitter, UntoldError, UntoldResets, UntoldPolicy, UntoldAnswers
    DEF TimerDelta, a

LEMMA DpmTells ==
  ASSUME NEW q, Port(q)
  PROVE  Untold(q, HandleDpm(q))
  <1> DEFINE a == [q EXCEPT !.current_callback = IF @ = NONE THEN q.callback ELSE @]
             b == [a EXCEPT !.dpm_event = NONE]
             d == DpmRequest(b, q.dpm_event)
  <1>1. Stores(a) /\ Untold(q, a) /\ Stores(b) /\ Untold(q, b)
    BY PortStores DEF Untold, Stores
  <1>2. HandleDpm(q) = IF q.dpm_event = NONE \/ q.snk # "READY" THEN a ELSE NextCallback(d)
    BY DEF HandleDpm
  <1>3. q.dpm_event # NONE => q.dpm_event \in RequestType \ {NONE}
    BY DEF Port
  <1> HIDE DEF a, b
  <1>4. q.dpm_event # NONE => Untold(b, d)
    BY <1>1, <1>3, UntoldPolicy
  <1> HIDE DEF d
  <1> QED
    BY <1>1, <1>2, <1>4 DEF NextCallback, Untold, Stores

LEMMA PwrTells ==
  ASSUME NEW q, Stores(q), NEW event
  PROVE  Untold(q, PwrDelta(q, event))
  <1> DEFINE a == EndRequest(q, "DISCONNECTED")
             b == [a EXCEPT !.dpm_event = NONE]
             c == UserCode(b, "PORT_CALLBACK")
             d == StopAllTimers(c)
  <1>1. Stores(a) /\ Untold(q, a)
    BY UntoldCalls DEF Untold, Stores
  <1> HIDE DEF a
  <1>2. Stores(b) /\ Untold(q, b)
    BY <1>1 DEF Untold, Stores
  <1> HIDE DEF b
  <1>3. Untold(b, c)
    BY <1>2, UntoldCalls
  <1>4. Stores(c) /\ Untold(q, c)
    BY <1>2, <1>3 DEF Untold, Stores
  <1> HIDE DEF c
  <1>5. Untold(c, d)
    BY <1>4, UntoldDown
  <1>6. Stores(d) /\ Untold(q, d)
    BY <1>4, <1>5 DEF Untold, Stores
  <1>7. Detach(q) = [d EXCEPT !.cad = "UNATTACHED", !.air = NoMessage]
    BY DEF Detach, d, c, b, a
  <1> HIDE DEF d
  <1>8. Untold(q, Detach(q))
    BY <1>6, <1>7 DEF Untold, Stores
  <1>9. Untold(q, q)
    BY DEF Untold
  <1> QED
    BY <1>8, <1>9, UntoldStart DEF PwrDelta

\* One run of the handler stores at most the message that the slot is about.
LEMMA HandlerTells ==
  ASSUME NEW q, AtRest(q), NEW power, NEW e, NEW t
  PROVE  Told(q, e, UCPD_PE_PRL_Handler(q, power, e, t))
  <1> DEFINE v == PwrDelta(q, power)
             gated == q.hardResetActive /\ ~q.hrdOriginPE
             h == HandleConnection(q, v, e, t)
             r == UCPD_PE_PRL_Handler(q, power, e, t)
  <1>1. Stores(q) /\ AtRest(v) /\ Untold(q, v) /\ Stores(v)
    BY PortStores, PwrTells, PwrRests DEF AtRest, Settled, Untold, Stores
  <1>2. h \in {v, HandleEvents(v, e, t, gated)}
    BY DEF HandleConnection
  <1>3. r = HandleDpm(h)
    BY DEF UCPD_PE_PRL_Handler
  <1> HIDE DEF v, h, r
  <1>4. Port(h) /\ Stores(h)
    BY <1>1, <1>2, EventsSettle, SettledChains, PortStores DEF AtRest, Settled
  <1>5. Told(v, e, h)
    <2> DEFINE x == IF ~gated /\ t # NONE THEN TimerDelta(v, t) ELSE v
               f == IF (~gated /\ t # NONE) /\ t = "HARD_RESET_COMPLETE" /\ e = "HRD_SENT"
                    THEN NONE ELSE e
    <2>1. HandleEvents(v, e, t, gated) = IF e = "HRD_RECEIVED" THEN HrdReceived(v)
                                         ELSE PhyDelta(x, f)
      BY DEF HandleEvents
    <2>2. Untold(v, x) /\ Stores(x)
      BY <1>1, TimerTells DEF Untold, Stores
    <2>3. f = e \/ (f = NONE /\ e = "HRD_SENT")
      OBVIOUS
    <2> HIDE DEF x, f
    <2>4. Told(x, f, PhyDelta(x, f))
      BY <2>2, PhyTells
    <2>5. Untold(v, HrdReceived(v)) /\ Untold(v, v)
      BY <1>1, UntoldResets DEF Untold
    <2> QED
      BY <1>2, <2>1, <2>2, <2>3, <2>4, <2>5 DEF Told, Untold, NONE
  <1>6. Untold(h, r)
    BY <1>3, <1>4, DpmTells
  <1>7. Told(q, e, r)
    BY <1>1, <1>5, <1>6 DEF Told, Untold
  <1> QED
    BY <1>7 DEF r


-----------------------------------------------------------------------------
\* What the conversation sees of a port

\* The contract is the same.
SameContract(q, r) ==
  /\ r.explicit_contract = q.explicit_contract /\ r.ams_first_sent = q.ams_first_sent
  /\ r.pps_contract = q.pps_contract

\* The same is said in the same state, and the same is stored.
SameTalk(q, r) ==
  /\ r.snk = q.snk /\ r.tx = q.tx /\ r.txKind = q.txKind /\ r.mid = q.mid
  /\ r.storedMID = q.storedMID /\ r.rxMsg = q.rxMsg
  /\ SameContract(q, r)

\* The policy engine is back in READY, with nothing to say.
BackInReady(q, r) ==
  /\ r.snk = "READY" /\ UnderContract(r)
  /\ r.pps_contract = TRUE => q.pps_contract = TRUE
  /\ r.tx = "WAIT_FOR_MESSAGE_REQUEST" /\ r.txKind = q.txKind /\ r.air = q.air

LEMMA ReadyTalks ==
  ASSUME NEW q, Silent(q)
  PROVE  BackInReady(q, EnterReady(q))
  <1> DEFINE g == Go(q, "READY")
             v == [g EXCEPT !.ams = FALSE, !.explicit_contract = TRUE, !.ams_first_sent = FALSE]
             x == StartPPSPeriodic(v)
             r == StartKeepAlive(x)
  <1>1. Gone(q, g, "READY")
    BY GoIs, SprNames DEF Silent
  <1>2. EnterReady(q) = r
    BY DEF EnterReady
  <1>3. IsReady(q, r)
    BY <1>2, EnterReadyIs DEF Silent
  <1> HIDE DEF g
  <1>4. v.pps_contract = g.pps_contract /\ DOMAIN v = Fields
    BY <1>1 DEF Gone, Fields
  <1> HIDE DEF v
  <1>5. x.pps_contract = g.pps_contract /\ DOMAIN x = Fields
    BY <1>4 DEF StartPPSPeriodic, UCPD_TIM_Start, Fields
  <1> HIDE DEF x
  <1>6. r.pps_contract = g.pps_contract
    BY <1>5 DEF StartKeepAlive, UCPD_TIM_Start, Fields
  <1> HIDE DEF r
  <1>7. g.pps_contract \in {q.pps_contract, FALSE}
    BY <1>1 DEF Gone
  <1>8. r.tx = q.tx /\ r.txKind = q.txKind /\ r.air = q.air
    BY <1>3, FlagsAre DEF IsReady, Only, Fields, Silent, Spr
  <1>9. BackInReady(q, r)
    BY <1>3, <1>6, <1>7, <1>8 DEF IsReady, BackInReady, UnderContract, Silent
  <1> QED
    BY <1>2, <1>9

-----------------------------------------------------------------------------
\* A message goes out

LEMMA SpeakTalks ==
  ASSUME NEW a, NoEpr(a), a.tx \in {"WAIT_FOR_MESSAGE_REQUEST", "SNK_START_OF_AMS"}
  PROVE  LET r == MessageFromPE(a)
         IN  /\ Only(a, r, TxFields)
             /\ \/ r.tx = "WAIT_FOR_PHY_RESPONSE"
                \/ a.tx = "SNK_START_OF_AMS" /\ r.tx = "SNK_PENDING"
  <1> DEFINE b == [a EXCEPT !.tch = "WAIT_FOR_TRANSMISSION_COMPLETE"]
             r == TxRequest(b)
  <1>1. DOMAIN a = Fields /\ Port(a) /\ a.extended = FALSE /\ a.txAllowed \in BOOLEAN
    BY FlagsAre DEF NoEpr
  <1>2. MessageFromPE(a) = r
    BY <1>1 DEF PassDown, MessageFromPE, TchPassDownMessage
  <1>3. Only(a, b, {"tch"}) /\ b.tx = a.tx /\ b.txAllowed = a.txAllowed /\ Port(b)
        /\ DOMAIN b = Fields
    BY <1>1 DEF Only, Fields, Port
  <1> HIDE DEF b
  <1> DEFINE c == TxConstructMessage(b)
             d == [b EXCEPT !.tx = "SNK_PENDING"]
  <1>4. r = c \/ (a.tx = "SNK_START_OF_AMS" /\ r = d)
    BY <1>3 DEF TxRequest, TxPending
  <1>5. Constructed(b, c)
    BY <1>1, <1>3, ConstructIs
  <1>6. Only(b, d, {"tx"}) /\ d.tx = "SNK_PENDING"
    BY <1>3 DEF Only, Fields
  <1> HIDE DEF c, d, r
  <1>7. Only(a, c, TxFields) /\ Only(a, d, TxFields) /\ c.tx = "WAIT_FOR_PHY_RESPONSE"
    BY <1>3, <1>5, <1>6 DEF Only, TxFields, Constructed
  <1> QED
    BY <1>2, <1>4, <1>6, <1>7

\* The message of a state is out, or waits for SinkTxOk.
Saying(r, state) ==
  /\ r.snk = state /\ r.txKind = Spoken[state]
  /\ r.tx = "WAIT_FOR_PHY_RESPONSE" \/ (state = "SELECT_CAPABILITY" /\ r.tx = "SNK_PENDING")

LEMMA NotSupportedTalks ==
  ASSUME NEW q, Clear(q)
  PROVE  LET r == EnterSendNotSupported(q)
         IN  /\ Saying(r, "SEND_NOT_SUPPORTED")
             /\ r.explicit_contract = q.explicit_contract
             /\ r.ams_first_sent = q.ams_first_sent
             /\ q.snk = "READY" => r.pps_contract = FALSE
  <1> DEFINE g == Go(q, "SEND_NOT_SUPPORTED")
             a == [g EXCEPT !.txKind = "Not_Supported"]
             r == MessageFromPE(a)
  <1>1. Gone(q, g, "SEND_NOT_SUPPORTED")
    BY GoIs, SprNames DEF Clear, Silent
  <1>2. EnterSendNotSupported(q) = r
    BY DEF EnterSendNotSupported
  <1> HIDE DEF g
  <1>3. /\ NoEpr(g) /\ Port(g) /\ DOMAIN g = Fields /\ DOMAIN q = Fields
        /\ g.snk = "SEND_NOT_SUPPORTED" /\ g.tx = "WAIT_FOR_MESSAGE_REQUEST"
    BY <1>1, GoneClear
  <1>4. Only(g, a, {"txKind"}) /\ a.txKind = "Not_Supported" /\ Port(a)
    BY <1>3 DEF Only, Fields, Port
  <1> HIDE DEF a
  <1>5. /\ a.snk = g.snk /\ a.extended = g.extended
        /\ a.epr_mode = g.epr_mode /\ a.tx = g.tx
        /\ a.rch = g.rch /\ a.extRx = g.extRx
        /\ SameContract(g, a)
    BY <1>3, <1>4 DEF Only, Fields, SameContract
  <1>6. NoEpr(a)
    <2>1. a.txKind \in SprKinds
      BY <1>4 DEF SprKinds
    <2> QED
      BY <1>3, <1>4, <1>5, <2>1, SprKept, ZenonT(60) DEF NoEpr, Moving, Flags
  <1>7. Only(a, r, TxFields) /\ r.tx = "WAIT_FOR_PHY_RESPONSE"
    BY <1>3, <1>5, <1>6, SpeakTalks
  <1> HIDE DEF r
  <1>8. r.snk = a.snk /\ r.txKind = a.txKind /\ SameContract(a, r)
    BY <1>6, <1>7, FlagsAre DEF Only, Fields, TxFields, SameContract
  <1>9. g.explicit_contract = q.explicit_contract /\ g.ams_first_sent = q.ams_first_sent
    BY <1>1, <1>3 DEF Gone, Only, Fields
  <1> QED
    BY <1>1, <1>2, <1>3, <1>4, <1>5, <1>7, <1>8, <1>9
    DEF Saying, Spoken, SameContract, Gone

LEMMA SoftResetTalks ==
  ASSUME NEW q, Clear(q)
  PROVE  Saying(EnterSoftReset(q), "SOFT_RESET")
  <1> DEFINE g == Go(q, "SOFT_RESET")
             e == [g EXCEPT !.txKind = "Accept"]
             a == EndRequest(e, "CANCELLED")
             r == MessageFromPE(a)
  <1>1. Gone(q, g, "SOFT_RESET")
    BY GoIs, SprNames DEF Clear, Silent
  <1>2. EnterSoftReset(q) = r
    BY DEF EnterSoftReset
  <1> HIDE DEF g
  <1>3. /\ NoEpr(g) /\ Port(g) /\ DOMAIN g = Fields
        /\ g.snk = "SOFT_RESET" /\ g.tx = "WAIT_FOR_MESSAGE_REQUEST"
    BY <1>1, GoneClear
  <1>4. Only(g, e, {"txKind"}) /\ e.txKind = "Accept" /\ Port(e) /\ e.user = g.user
    BY <1>3 DEF Only, Fields, Port
  <1> HIDE DEF e
  <1>5. Only(e, a, CallFields) /\ Port(a)
    BY <1>3, <1>4, CallsAre DEF NoEpr
  <1> HIDE DEF a
  <1>6. Only(g, a, CallFields \cup {"txKind"})
    BY <1>4, <1>5 DEF Only
  <1>7. a.txKind = "Accept"
    BY <1>4, <1>5 DEF Port, Only, Fields, CallFields
  <1>8. /\ a.snk = g.snk /\ a.extended = g.extended
        /\ a.epr_mode = g.epr_mode /\ a.tx = g.tx
        /\ a.rch = g.rch /\ a.extRx = g.extRx
    BY <1>3, <1>6 DEF Only, Fields, CallFields
  <1>9. NoEpr(a)
    <2>1. a.txKind \in SprKinds
      BY <1>7 DEF SprKinds
    <2> QED
      BY <1>3, <1>5, <1>6, <1>8, <2>1, SprKept, ZenonT(60) DEF NoEpr, Moving, Flags, CallFields
  <1>10. Only(a, r, TxFields) /\ r.tx = "WAIT_FOR_PHY_RESPONSE"
    BY <1>3, <1>8, <1>9, SpeakTalks
  <1> HIDE DEF r
  <1>11. r.snk = a.snk /\ r.txKind = a.txKind
    BY <1>9, <1>10, FlagsAre DEF Only, Fields, TxFields
  <1> QED
    BY <1>2, <1>3, <1>7, <1>8, <1>10, <1>11 DEF Saying, Spoken

LEMMA EvaluateTalks ==
  ASSUME NEW q, Clear(q)
  PROVE  LET r == EnterEvaluateCapability(q)
         IN  /\ Saying(r, "SELECT_CAPABILITY")
             /\ q.pps_periodic_expired = TRUE => r.tx = "WAIT_FOR_PHY_RESPONSE"
             /\ r.explicit_contract = q.explicit_contract
             /\ r.ams_first_sent = q.ams_first_sent
  <1> DEFINE g == Go(q, "EVALUATE_CAPABILITY")
             v == [g EXCEPT !.ams = TRUE, !.pps_periodic_expired = FALSE,
                            !.tx = IF q.pps_periodic_expired THEN @
                                   ELSE "SNK_START_OF_AMS"]
             s == EndPolicyRequest(v)
             x == UCPD_TIM_Stop(s, "SINK_WAIT_CAP")
             y == [x EXCEPT !.snk = "SELECT_CAPABILITY"]
             m == [y EXCEPT !.response_expected = TRUE]
             a == [m EXCEPT !.txKind = "Request", !.pps_contract = SelectsPPS]
             r == MessageFromPE(a)
  <1>1. Gone(q, g, "EVALUATE_CAPABILITY")
    BY GoIs, SprNames DEF Clear, Silent
  <1>2. EnterEvaluateCapability(q) = EnterSelectCapability(UserCode(s, "POLICY"))
    BY DEF EnterEvaluateCapability
  <1> HIDE DEF g
  <1>3. /\ NoEpr(g) /\ Port(g) /\ DOMAIN g = Fields /\ DOMAIN q = Fields
        /\ g.snk = "EVALUATE_CAPABILITY"
        /\ g.tx = "WAIT_FOR_MESSAGE_REQUEST"
    BY <1>1, GoneClear
  <1>4. /\ Only(g, v, {"ams", "pps_periodic_expired", "tx"})
        /\ v.tx \in {"WAIT_FOR_MESSAGE_REQUEST", "SNK_START_OF_AMS"}
        /\ v.ams = TRUE /\ v.pps_periodic_expired = FALSE
        /\ q.pps_periodic_expired = TRUE => v.tx = "WAIT_FOR_MESSAGE_REQUEST"
    BY <1>3 DEF Only, Fields
  <1>5. Port(v) /\ v.user = g.user
    BY <1>3, <1>4 DEF Port, Fields, TxType
  <1> HIDE DEF v
  <1>6. Only(v, s, CallFields) /\ Port(s)
    BY <1>3, <1>5, CallsAre DEF NoEpr
  <1> HIDE DEF s
  <1>7. /\ DOMAIN v = Fields /\ DOMAIN s = Fields
    BY <1>5, <1>6 DEF Port
  <1>8. Only(g, s, CallFields \cup {"ams", "pps_periodic_expired", "tx"})
    BY <1>4, <1>6 DEF Only
  <1>9. s.tx = v.tx /\ s.ams = TRUE /\ s.pps_periodic_expired = FALSE
    BY <1>4, <1>6, <1>7 DEF Only, Fields, CallFields
  <1>10. s.snk = g.snk /\ s.user = g.user /\ s.epr_mode = g.epr_mode
    BY <1>3, <1>8 DEF Only, Fields, CallFields
  <1>11. UserCode(s, "POLICY") = s
    BY <1>3, <1>10, UserQuiet DEF NoEpr, UserPlaces
  <1>12. Stopped0(s, x, "SINK_WAIT_CAP")
    BY <1>6, TimersAre, TimerChannels
  <1>13. Go(s, "SELECT_CAPABILITY") = y
    BY <1>3, <1>10 DEF Go, UCPD_PE_SM_SNK_Exit
  <1> HIDE DEF x
  <1>14. Only(s, x, {"tim"}) /\ Port(x) /\ DOMAIN x = Fields
    BY <1>12 DEF Stopped0, Port
  <1>15. Only(x, a, {"snk", "response_expected", "txKind", "pps_contract"})
    BY <1>14 DEF Only, Fields
  <1>16. /\ a.snk = "SELECT_CAPABILITY" /\ a.response_expected = TRUE
         /\ a.txKind = "Request" /\ a.pps_contract = SelectsPPS
    BY <1>14 DEF Fields
  <1>17. Port(a)
    BY <1>14, SprNames DEF Port, Fields, SprStates
  <1>18. m.epr_mode = FALSE
    <2>1. x.epr_mode = FALSE
      BY <1>3, <1>7, <1>10, <1>14 DEF Only, Fields, NoEpr
    <2> QED
      BY <1>14, <2>1 DEF Fields
  <1>19. EnterSelectCapability(s) = r
    BY <1>13, <1>18 DEF EnterSelectCapability, PrepareRequest
  <1> HIDE DEF a
  <1>20. Only(s, a, {"tim", "snk", "response_expected", "txKind", "pps_contract"})
    BY <1>14, <1>15 DEF Only
  <1>21. Only(g, a, CallFields \cup {"ams", "pps_periodic_expired", "tx", "tim", "snk",
                                     "response_expected", "txKind", "pps_contract"})
    BY <1>8, <1>20 DEF Only
  <1>22. /\ a.tx = v.tx /\ a.ams = TRUE /\ a.pps_periodic_expired = FALSE
    BY <1>7, <1>9, <1>20 DEF Only, Fields
  <1>23. /\ a.extended = g.extended /\ a.epr_mode = g.epr_mode
         /\ a.rch = g.rch /\ a.extRx = g.extRx
         /\ a.explicit_contract = g.explicit_contract /\ a.ams_first_sent = g.ams_first_sent
    BY <1>3, <1>21 DEF Only, Fields, CallFields
  <1>24. NoEpr(a)
    <2>1. a.txKind \in SprKinds /\ a.pps_contract \in BOOLEAN
      BY <1>16, PortAssumption DEF SprKinds
    <2>2. CallFields \cup {"ams", "pps_periodic_expired", "tx", "tim", "snk",
                           "response_expected", "txKind", "pps_contract"} \subseteq Moving
      BY DEF CallFields, Moving, Flags
    <2>3. \A f \in Flags \cap (CallFields \cup {"ams", "pps_periodic_expired", "tx", "tim",
               "snk", "response_expected", "txKind", "pps_contract"}) : a[f] \in BOOLEAN
      BY <1>16, <1>22, <2>1 DEF Flags, CallFields
    <2> QED
      BY <1>3, <1>17, <1>21, <1>23, <2>1, <2>2, <2>3, SprKept DEF NoEpr
  <1>25. /\ Only(a, r, TxFields)
         /\ \/ r.tx = "WAIT_FOR_PHY_RESPONSE"
            \/ a.tx = "SNK_START_OF_AMS" /\ r.tx = "SNK_PENDING"
    BY <1>4, <1>22, <1>24, SpeakTalks
  <1> HIDE DEF r
  <1>26. r.snk = a.snk /\ r.txKind = a.txKind /\ r.explicit_contract = a.explicit_contract
         /\ r.ams_first_sent = a.ams_first_sent
    BY <1>24, <1>25, FlagsAre DEF Only, Fields, TxFields
  <1>27. EnterEvaluateCapability(q) = r
    BY <1>2, <1>11, <1>19
  <1>28. g.explicit_contract = q.explicit_contract /\ g.ams_first_sent = q.ams_first_sent
    BY <1>1, <1>3 DEF Gone, Only, Fields
  <1> QED
    BY <1>3, <1>28, <1>4, <1>16, <1>22, <1>23, <1>25, <1>26, <1>27 DEF Saying, Spoken

-----------------------------------------------------------------------------
\* A message is received

\* The policy engine waits in a state.
Waiting(r, state) == r.snk = state /\ r.tx = "WAIT_FOR_MESSAGE_REQUEST"

\* What a message of the source leads to. (One of a kind that is not known is only expected
\* in READY.)
Outcome(q, kind, r) ==
  /\ kind = "SourceCaps" => Saying(r, "SELECT_CAPABILITY")
  /\ kind = "Accept" => Waiting(r, "TRANSITION_SINK")
  /\ kind \in {"PS_RDY", "Alert"} => Waiting(r, "READY") /\ UnderContract(r)
  /\ kind = "Soft_Reset" => Saying(r, "SOFT_RESET")
  /\ kind = "Unknown" => /\ Saying(r, "SEND_NOT_SUPPORTED") /\ r.pps_contract = FALSE
                         /\ UnderContract(q) => UnderContract(r)
  /\ r.txKind = "GoodCRC" => r.air = NoMessage

\* The fields that the outcome is about
SameOutcome(q, r) ==
  /\ r.snk = q.snk /\ r.tx = q.tx /\ r.txKind = q.txKind /\ r.air = q.air
  /\ SameContract(q, r)

LEMMA OutcomeKept ==
  ASSUME NEW q, NEW v, NEW kind, NEW r, NEW w, Outcome(q, kind, r),
         UnderContract(v) => UnderContract(q), SameOutcome(r, w)
  PROVE  Outcome(v, kind, w)
  BY DEF Outcome, SameOutcome, SameContract, Saying, Waiting, UnderContract

LEMMA ReceiveTalks ==
  ASSUME NEW q, Clear(q), NEW kind \in SprRx, kind = "Unknown" => q.snk = "READY"
  PROVE  Outcome(q, kind, Receive(q, kind))
  <1>1. Silent(q) /\ Spr(q) /\ DOMAIN q = Fields /\ q.tx = "WAIT_FOR_MESSAGE_REQUEST"
        /\ q.air = NoMessage
    BY FlagsAre DEF Clear, Silent, Spr
  <1>2. BackInReady(q, EnterReady(q))
    BY <1>1, ReadyTalks
  <1>3. Waiting(EnterTransitionSink(q), "TRANSITION_SINK") /\ EnterTransitionSink(q).air = NoMessage
    BY <1>1, EnterTransitionIs DEF IsTransition, Only, Fields, Waiting
  <1>4. Saying(EnterEvaluateCapability(q), "SELECT_CAPABILITY")
    BY EvaluateTalks
  <1>5. Saying(EnterSoftReset(q), "SOFT_RESET")
    BY SoftResetTalks
  <1>6. LET r == EnterSendNotSupported(q)
        IN  /\ Saying(r, "SEND_NOT_SUPPORTED")
            /\ UnderContract(q) => UnderContract(r)
            /\ q.snk = "READY" => r.pps_contract = FALSE
    BY NotSupportedTalks DEF UnderContract
  <1>7. CASE kind \in {"PS_RDY", "Alert"}
    <2>1. Receive(q, kind) = EnterReady(q)
      BY <1>7 DEF Receive
    <2> QED
      BY <1>1, <1>2, <1>7, <2>1 DEF Outcome, BackInReady, Waiting
  <1>8. CASE kind = "Accept"
    BY <1>3, <1>8 DEF Outcome, Receive
  <1>9. CASE kind = "SourceCaps"
    BY <1>4, <1>9 DEF Outcome, Receive, Saying, Spoken
  <1>10. CASE kind = "Soft_Reset"
    BY <1>5, <1>10 DEF Outcome, Receive, Saying, Spoken
  <1>11. CASE kind = "Unknown"
    BY <1>6, <1>11 DEF Outcome, Receive, Saying, Spoken
  <1> QED
    BY <1>7, <1>8, <1>9, <1>10, <1>11 DEF SprRx

LEMMA ReceivedTalks ==
  ASSUME NEW q, Clear(q), q.rxMsg.kind \in SprRx, q.rxMsg.kind = "Unknown" => q.snk = "READY"
  PROVE  Outcome(q, q.rxMsg.kind, MessageReceived(q))
  <1> DEFINE z == [q EXCEPT !.extended = FALSE]
  <1>1. NoEpr(q) /\ Port(q) /\ DOMAIN q = Fields /\ Spr(q)
    BY FlagsAre DEF Clear, Silent, Spr
  <1>2. MessageReceived(q) = Receive(z, q.rxMsg.kind)
    BY <1>1 DEF MessageReceived, NoEpr, SprRx, NONE
  <1>3. Only(q, z, {"extended"}) /\ Port(z) /\ z.extended = FALSE
    BY <1>1 DEF Only, Fields, Port
  <1> HIDE DEF z
  <1>4. /\ z.snk = q.snk /\ z.tch = q.tch /\ z.tx = q.tx /\ z.air = q.air
        /\ z.cad = q.cad /\ z.rxMsg = q.rxMsg /\ z.rch = q.rch /\ z.extRx = q.extRx
        /\ z.epr_mode = q.epr_mode /\ z.txKind = q.txKind
        /\ z.txAllowed = q.txAllowed /\ z.tim = q.tim
        /\ z.hrdOriginPE = q.hrdOriginPE /\ z.hardResetActive = q.hardResetActive
        /\ SameContract(z, q)
    BY <1>1, <1>3 DEF Only, Fields, SameContract
  <1>5. NoEpr(z)
    BY <1>1, <1>3, <1>4, SprKept DEF NoEpr, Moving, Flags
  <1>6. Clear(z)
    BY <1>1, <1>4, <1>5 DEF Clear, Silent, Spr, SprTimers, SameContract
  <1> DEFINE r == Receive(z, q.rxMsg.kind)
  <1>7. Outcome(z, q.rxMsg.kind, r)
    BY <1>4, <1>6, ReceiveTalks
  <1> HIDE DEF r
  <1>8. SameOutcome(r, r) /\ (UnderContract(q) => UnderContract(z))
    BY <1>4 DEF SameOutcome, SameContract, UnderContract
  <1>9. Outcome(q, q.rxMsg.kind, r)
    BY <1>7, <1>8, OutcomeKept
  <1> QED
    BY <1>2, <1>9 DEF r

LEMMA PassUpTalks ==
  ASSUME NEW q, Clear(q), q.rxMsg.kind \in SprRx, q.rxMsg.kind = "Unknown" => q.snk = "READY"
  PROVE  Outcome(q, q.rxMsg.kind, RchPassUpMessage(q))
  <1> DEFINE y == [q EXCEPT !.rch = "PASS_UP_MESSAGE"]
             r == MessageReceived(y)
             w == RchWaitForMessage(r)
  <1>1. NoEpr(q) /\ Port(q) /\ DOMAIN q = Fields /\ Spr(q)
    BY FlagsAre DEF Clear, Silent, Spr
  <1>2. RchPassUpMessage(q) = w
    BY DEF RchPassUpMessage
  <1>3. /\ Only(q, y, CountFields) /\ Port(y) /\ y.rch = "PASS_UP_MESSAGE" /\ y.extRx = q.extRx
        /\ SameContract(y, q)
    BY <1>1 DEF Only, Fields, Port, CountFields, SameContract
  <1> HIDE DEF y
  <1>4. /\ Clear(y) /\ y.rxMsg = q.rxMsg /\ y.snk = q.snk
    BY <1>1, <1>3, CountsKeep DEF NoEpr, SprRch
  <1>5. Outcome(y, q.rxMsg.kind, r)
    BY <1>4, ReceivedTalks
  <1>6. Spr(r) /\ DOMAIN r = Fields
    <2>1. Hushed(y, r)
      BY <1>4, ReceivedLinks DEF SprReceived
    <2> QED
      BY <2>1, FlagsAre DEF Hushed, Handles, Steady, Sound, Spr
  <1> HIDE DEF r
  <1>7. SameOutcome(r, w)
    BY <1>6, RchWaitIs DEF Only, Fields, CountFields, SameOutcome, SameContract
  <1> HIDE DEF w
  <1>8. Outcome(q, q.rxMsg.kind, w)
    BY <1>3, <1>5, <1>7, OutcomeKept DEF SameContract, UnderContract
  <1> QED
    BY <1>2, <1>8

LEMMA StoreTalks ==
  ASSUME NEW q, Steady(q), q.air = NoMessage, q.tim[0] # "CRC_RECEIVE",
         q.rxMsg.kind \in SprRx, q.rch = "WAIT_FOR_MESSAGE_FROM_PRL",
         q.rxMsg.kind = "Unknown" => q.snk = "READY"
  PROVE  Outcome(q, q.rxMsg.kind, RxStoreMessageID(q))
  <1> DEFINE t == TxWaitForMessageRequest(q)
             s == [t EXCEPT !.rx = "WAIT_FOR_PHY_MESSAGE", !.storedMID = q.rxMsg.id,
                            !.passedUp = TRUE]
             u == TchWaitForRequest([s EXCEPT !.extRx = NONE])
             x == IF s.tch = "WAIT_FOR_MESSAGE_REQUEST_FROM_PE" THEN s ELSE u
  <1>1. NoEpr(q) /\ Port(q) /\ DOMAIN q = Fields
    BY FlagsAre DEF Steady, Sound, Spr
  <1>2. RxStoreMessageID(q) = RouteReceived(x)
    BY DEF RxStoreMessageID
  <1>3. /\ Port(t) /\ Only(q, t, {"tx", "retry"}) /\ t.tx = "WAIT_FOR_MESSAGE_REQUEST"
        /\ t.retry = 0
    BY <1>1, WaitsStay DEF Stays, Keeps, TxWaitForMessageRequest, Only, Fields
  <1> HIDE DEF t
  <1>4. Port(s) /\ Only(t, s, {"rx", "storedMID", "passedUp"})
    BY <1>3 DEF Port, Fields, Only, RxType
  <1> HIDE DEF s
  <1>5. Only(q, s, CountFields \cup {"tx"})
    BY <1>3, <1>4 DEF Only, CountFields
  <1>6. /\ s.tx = "WAIT_FOR_MESSAGE_REQUEST" /\ s.rch = q.rch /\ s.extRx = q.extRx
        /\ DOMAIN s = Fields
    BY <1>1, <1>3, <1>4 DEF Only, Fields, Port
  <1>7. Clear(s) /\ s.rxMsg = q.rxMsg /\ s.snk = q.snk
    BY <1>1, <1>4, <1>5, <1>6, FreedIs DEF NoEpr
  <1>8. /\ Only(s, u, {"tch", "extRx"}) /\ Port(u) /\ u.extRx = NONE
        /\ u.tch = "WAIT_FOR_MESSAGE_REQUEST_FROM_PE"
    BY <1>4, <1>6 DEF TchWaitForRequest, Only, Fields, Port
  <1> HIDE DEF u
  <1>9. /\ u.snk = s.snk /\ u.tx = s.tx /\ u.air = s.air
        /\ u.rxMsg = s.rxMsg /\ u.rch = s.rch
        /\ u.epr_mode = s.epr_mode /\ u.txKind = s.txKind /\ u.extended = s.extended
        /\ u.txAllowed = s.txAllowed /\ u.tim = s.tim
        /\ u.hrdOriginPE = s.hrdOriginPE /\ u.hardResetActive = s.hardResetActive
        /\ u.pps_contract = s.pps_contract
    BY <1>6, <1>8 DEF Only, Fields
  <1>10. Clear(u)
    <2>1. NoEpr(s) /\ Spr(s)
      BY <1>7 DEF Clear, Silent, Spr
    <2>2. NoEpr(u)
      BY <1>8, <1>9, <2>1, SprKept, ZenonT(60) DEF NoEpr, Moving, Flags
    <2> QED
      BY <1>7, <1>8, <1>9, <2>1, <2>2 DEF Clear, Silent, Spr, SprTimers, TchSpr
  <1>11. Only(s, x, {"tch", "extRx"}) /\ Only(q, x, CountFields \cup {"tx", "tch"})
    BY <1>5, <1>8 DEF Only, CountFields
  <1>12. Clear(x) /\ x.rxMsg = q.rxMsg /\ x.snk = q.snk /\ x.rch = q.rch
    BY <1>6, <1>7, <1>9, <1>10
  <1>13. UnderContract(q) => UnderContract(x)
    BY <1>1, <1>11 DEF Only, Fields, CountFields, UnderContract
  <1> HIDE DEF x
  <1>14. RouteReceived(x) = RchPassUpMessage(x)
    BY <1>12 DEF RouteReceived, SprRx, ExtKinds, NONE
  <1> DEFINE r == RchPassUpMessage(x)
  <1>15. Outcome(x, q.rxMsg.kind, r)
    BY <1>12, PassUpTalks
  <1> HIDE DEF r
  <1>16. SameOutcome(r, r)
    BY DEF SameOutcome, SameContract
  <1>17. Outcome(q, q.rxMsg.kind, r)
    BY <1>13, <1>15, <1>16, OutcomeKept
  <1> QED
    BY <1>2, <1>14, <1>17 DEF r

-----------------------------------------------------------------------------
\* A transmission has succeeded

\* What the source's GoodCRC leads to
Acknowledged(q, r) ==
  /\ q.snk = "SOFT_RESET" => Waiting(r, "WAIT_FOR_CAPABILITIES")
  /\ q.snk = "SELECT_CAPABILITY" => Waiting(r, "SELECT_CAPABILITY")
  /\ q.snk = "SEND_NOT_SUPPORTED" =>
       /\ Waiting(r, "READY") /\ UnderContract(r)
       /\ r.pps_contract = TRUE => q.pps_contract = TRUE
  /\ r.air = q.air

LEMMA SentTalks ==
  ASSUME NEW q, Clear(q), q.snk \in Sending, q.txKind = Spoken[q.snk]
  PROVE  Acknowledged(q, MessageSent(q))
  <1> DEFINE v == [q EXCEPT !.extended = FALSE, !.ams_first_sent = @ \/ q.ams]
             s == Sent(v, q.txKind)
             r == AwaitResponse(s)
  <1>1. NoEpr(q) /\ Port(q) /\ DOMAIN q = Fields /\ Spr(q) /\ q.extended = FALSE
    BY FlagsAre DEF Clear, Silent, Spr, NoEpr
  <1>2. MessageSent(q) = AwaitEPREntry(r)
    BY <1>1 DEF MessageSent
  <1>3. /\ Only(q, v, {"extended", "ams_first_sent"}) /\ Port(v)
        /\ v.extended = FALSE /\ v.ams_first_sent \in BOOLEAN
    BY <1>1, FlagsAre DEF Only, Fields, Port
  <1> HIDE DEF v
  <1>4. /\ v.snk = q.snk /\ v.tch = q.tch /\ v.tx = q.tx /\ v.air = q.air
        /\ v.rch = q.rch /\ v.extRx = q.extRx
        /\ v.epr_mode = q.epr_mode /\ v.txKind = q.txKind
        /\ v.txAllowed = q.txAllowed /\ v.tim = q.tim
        /\ v.hrdOriginPE = q.hrdOriginPE /\ v.hardResetActive = q.hardResetActive
        /\ v.pps_contract = q.pps_contract
    BY <1>1, <1>3 DEF Only, Fields
  <1>5. NoEpr(v)
    <2>1. {"extended", "ams_first_sent"} \subseteq Moving
      BY DEF Moving, Flags
    <2>2. \A f \in Flags \cap {"extended", "ams_first_sent"} : v[f] \in BOOLEAN
      BY <1>3 DEF Flags
    <2> QED
      BY <1>1, <1>3, <1>4, <2>1, <2>2, SprKept, ZenonT(60) DEF NoEpr
  <1>6. Clear(v)
    BY <1>1, <1>4, <1>5 DEF Clear, Silent, Spr, SprTimers
  <1>7. Acknowledged(q, s) /\ s.tx = "WAIT_FOR_MESSAGE_REQUEST"
    <2>1. Silent(v) /\ Spr(v) /\ DOMAIN v = Fields /\ v.tx = "WAIT_FOR_MESSAGE_REQUEST"
      BY <1>6, FlagsAre DEF Clear, Silent, Spr
    <2>2. CASE q.snk = "SEND_NOT_SUPPORTED"
      <3>1. s = EnterReady(v)
        BY <2>2 DEF Sent, Spoken
      <3>2. BackInReady(v, s)
        BY <2>1, <3>1, ReadyTalks
      <3> QED
        BY <1>4, <2>1, <2>2, <3>2 DEF BackInReady, Acknowledged, Waiting
    <2>3. CASE q.snk = "SOFT_RESET"
      <3>1. s = EnterWaitForCapabilities(v)
        BY <2>3 DEF Sent, Spoken
      <3>2. IsWait(v, s)
        BY <2>1, <3>1, EnterWaitIs
      <3> QED
        BY <1>4, <2>1, <2>3, <3>2 DEF IsWait, Only, Fields, Acknowledged, Waiting
    <2>4. CASE q.snk \in {"SELECT_CAPABILITY", "SEND_SOFT_RESET"}
      <3>1. s = v
        BY <2>4 DEF Sent, Spoken
      <3> QED
        BY <1>4, <2>1, <2>4, <3>1 DEF Acknowledged, Waiting
    <2> QED
      BY <2>2, <2>3, <2>4 DEF Sending
  <1>8. NoEpr(s) /\ DOMAIN s = Fields
    <2>1. Hushed(v, s)
      BY <1>4, <1>6, SentStateLinks
    <2> QED
      BY <2>1, FlagsAre DEF Hushed, Handles, Steady, Sound, Spr
  <1> HIDE DEF s
  <1>9. Only(s, r, {"tim", "response_expected"})
    <2> DEFINE c == UCPD_TIM_Start(s, "SENDER_RESPONSE")
    <2>1. Only(s, c, {"tim"})
      BY <1>8, TimersAre, TimerChannels DEF Started0, NoEpr
    <2> HIDE DEF c
    <2>2. r = IF s.response_expected THEN [c EXCEPT !.response_expected = FALSE] ELSE s
      BY DEF AwaitResponse, c
    <2> QED
      BY <1>8, <2>1, <2>2 DEF Only, Fields
  <1> HIDE DEF r
  <1>10. AwaitEPREntry(r) = r
    BY <1>8, <1>9 DEF AwaitEPREntry, NoEpr, Only, Fields
  <1>11. Acknowledged(q, r)
    BY <1>7, <1>8, <1>9 DEF Acknowledged, Waiting, UnderContract, Only, Fields
  <1> QED
    BY <1>2, <1>10, <1>11

LEMMA TxSentTalks ==
  ASSUME NEW q, Fails(q), q.txKind # "GoodCRC"
  PROVE  Acknowledged(q, TxMessageSent(q))
  <1> DEFINE i == IncrementMID(q)
             t == TxWaitForMessageRequest(i)
             u == TchWaitForRequest(t)
  <1>1. NoEpr(q) /\ Port(q) /\ DOMAIN q = Fields
    BY FlagsAre DEF Fails, Steady, Sound, Spr
  <1>2. TxMessageSent(q) = ReportSent(t)
    BY DEF TxMessageSent
  <1>3. Port(i) /\ DOMAIN i = Fields
    BY <1>1, MidStays DEF Stays, Keeps, Port
  <1>4. Only(q, i, {"mid"})
    BY <1>1 DEF IncrementMID, Only, Fields
  <1> HIDE DEF i
  <1>5. Port(t) /\ DOMAIN t = Fields
    BY <1>3, WaitsStay DEF Stays, Keeps, Port
  <1>6. Only(i, t, {"tx", "retry"}) /\ t.tx = "WAIT_FOR_MESSAGE_REQUEST"
    BY <1>3 DEF TxWaitForMessageRequest, Only, Fields
  <1> HIDE DEF t
  <1>7. Only(q, t, CountFields \cup {"tx"})
    BY <1>4, <1>6 DEF Only, CountFields
  <1>8. /\ t.rch = q.rch /\ t.extRx = q.extRx /\ t.pps_contract = q.pps_contract
        /\ t.air = q.air
    BY <1>1, <1>7, <1>4, <1>6 DEF Only, Fields
  <1>9. Clear(t) /\ t.snk = q.snk /\ t.tch = q.tch /\ t.txKind = q.txKind
    BY <1>1, <1>5, <1>6, <1>7, <1>8, FreedIs DEF Fails, NoEpr
  <1>10. /\ q.tch = "WAIT_FOR_TRANSMISSION_COMPLETE" /\ q.snk \in Sending
         /\ q.txKind = Spoken[q.snk]
    BY DEF Fails, Steady, Sound
  <1>11. ReportSent(t) = MessageSent(u)
    BY <1>1, <1>8, <1>9, <1>10 DEF ReportSent, NoEpr, SprRch
  <1>12. /\ Only(t, u, {"tch"}) /\ Port(u) /\ u.tch = "WAIT_FOR_MESSAGE_REQUEST_FROM_PE"
    BY <1>5, WaitsStay DEF TchWaitForRequest, Only, Fields, Stays, Keeps, Port
  <1> HIDE DEF u
  <1>13. /\ Only(t, u, TxFields) /\ u.tx = t.tx /\ u.air = t.air /\ u.txAllowed = t.txAllowed
    BY <1>5, <1>12 DEF Only, TxFields, Fields
  <1>14. Clear(u) /\ u.snk = t.snk /\ u.txKind = t.txKind /\ u.pps_contract = t.pps_contract
    <2>1. Spr(t) /\ t.txAllowed \in BOOLEAN
      BY <1>9, FlagsAre DEF Clear, Silent, Spr
    <2>2. Spr(u)
      BY <1>12, <1>13, <2>1, TxSpr
    <2>3. /\ u.snk = t.snk /\ u.tim = t.tim /\ u.txKind = t.txKind
          /\ u.hrdOriginPE = t.hrdOriginPE /\ u.hardResetActive = t.hardResetActive
          /\ u.pps_contract = t.pps_contract
      BY <1>5, <1>13, TxOnly
    <2> QED
      BY <1>9, <1>12, <1>13, <2>2, <2>3 DEF Clear, Silent, TchSpr
  <1> DEFINE r == MessageSent(u)
  <1>15. Acknowledged(u, r)
    BY <1>9, <1>10, <1>14, SentTalks
  <1> HIDE DEF r
  <1>16. Acknowledged(q, r)
    BY <1>8, <1>9, <1>13, <1>14, <1>15 DEF Acknowledged
  <1> QED
    BY <1>2, <1>11, <1>16 DEF r

LEMMA MatchTalks ==
  ASSUME NEW q, Steady(q), AwaitsPhy(q), q.air = NoMessage, q.rxMsg.id = q.mid
  PROVE  Acknowledged(q, TxMatchMessageID(q))
  <1> DEFINE s == UCPD_TIM_Stop(q, "CRC_RECEIVE")
  <1>1. NoEpr(q) /\ Port(q) /\ DOMAIN q = Fields /\ Spr(q)
    BY FlagsAre DEF Steady, Sound, Spr
  <1>2. TxMatchMessageID(q) = TxMessageSent(s)
    BY DEF TxMatchMessageID
  <1>3. Stopped0(q, s, "CRC_RECEIVE")
    BY <1>1, TimersAre, TimerChannels
  <1> HIDE DEF s
  <1>4. Only(q, s, {"tim"}) /\ Port(s)
    BY <1>3 DEF Stopped0
  <1>5. /\ s.snk = q.snk /\ s.tch = q.tch /\ s.tx = q.tx /\ s.air = q.air
        /\ s.rch = q.rch /\ s.extRx = q.extRx
        /\ s.epr_mode = q.epr_mode /\ s.txKind = q.txKind /\ s.extended = q.extended
        /\ s.txAllowed = q.txAllowed
        /\ s.hrdOriginPE = q.hrdOriginPE /\ s.hardResetActive = q.hardResetActive
        /\ s.pps_contract = q.pps_contract
    BY <1>1, <1>4 DEF Only, Fields
  <1>6. NoEpr(s)
    BY <1>1, <1>4, <1>5, SprKept DEF NoEpr, Moving, Flags
  <1>7. s.tim[0] # "CRC_RECEIVE" /\ s.tim[0] \in {q.tim[0], NONE} /\ s.tim[1] = q.tim[1]
    BY <1>3 DEF Stopped0, NONE
  <1>8. Spr(s)
    BY <1>1, <1>5, <1>6, <1>7 DEF Spr, SprTimers, NONE
  <1>9. Sound(s)
    BY <1>5, <1>7, <1>8 DEF Steady, Sound, Sends, AwaitsPhy, NONE
  <1>10. Fails(s)
    BY <1>5, <1>7, <1>9 DEF Fails, Steady, AwaitsPhy
  <1>11. Acknowledged(s, TxMessageSent(s))
    BY <1>5, <1>10, TxSentTalks DEF AwaitsPhy
  <1> QED
    BY <1>2, <1>5, <1>11 DEF Acknowledged

-----------------------------------------------------------------------------
\* A transmission has failed

\* The same message is prepared in the same state.
SayingStill(q, r) ==
  /\ r.snk = q.snk /\ r.tx = "WAIT_FOR_PHY_RESPONSE" /\ r.txKind = q.txKind /\ r.mid = q.mid
  /\ SameContract(q, r)

\* A message that is given up under a contract leaves the contract alone.
LEMMA RetryTalks ==
  ASSUME NEW q, Fails(q)
  PROVE  LET r == TxCheckRetryCounter(q)
         IN  \/ SayingStill(q, r)
             \/ /\ q.retry = NRetry
                /\ UnderContract(q) /\ q.snk # "SEND_SOFT_RESET" => BackInReady(q, r)
  <1>1. NoEpr(q) /\ Port(q) /\ DOMAIN q = Fields /\ q.txAllowed \in BOOLEAN
    BY FlagsAre DEF Fails, Steady, Sound, Spr
  <1>2. CASE q.retry + 1 <= NRetry
    <2> DEFINE a == [q EXCEPT !.retry = @ + 1]
               r == TxConstructMessage(a)
    <2>1. TxCheckRetryCounter(q) = r
      BY <1>2 DEF TxCheckRetryCounter
    <2>2. Only(q, a, {"retry"}) /\ a.txAllowed = q.txAllowed
      BY <1>1 DEF Only, Fields
    <2>3. Port(a)
      <3>1. q.retry + 1 \in RetryType
        BY <1>1, <1>2, PortAssumption DEF Port, RetryType
      <3> QED
        BY <1>1, <3>1 DEF Port, Fields
    <2> HIDE DEF a
    <2>4. Constructed(a, r)
      BY <1>1, <2>2, <2>3, ConstructIs
    <2> HIDE DEF r
    <2>5. SayingStill(q, r)
      <3>1. Only(q, r, TxFields \cup {"retry"}) /\ r.tx = "WAIT_FOR_PHY_RESPONSE"
        BY <2>2, <2>4 DEF Only, TxFields, Constructed
      <3> QED
        BY <1>1, <3>1 DEF Only, Fields, TxFields, SayingStill, SameContract
    <2> QED
      BY <2>1, <2>5
  <1>3. CASE ~(q.retry + 1 <= NRetry)
    <2> DEFINE i == IncrementMID(q)
               t == TxWaitForMessageRequest(i)
               w == RchWaitForMessage(t)
               r == TransmissionError(w)
    <2>1. TxCheckRetryCounter(q) = r
      BY <1>3 DEF TxCheckRetryCounter, RchTransmissionError
    <2>2. Port(i)
      BY <1>1, MidStays DEF Stays, Keeps
    <2>3. Only(q, i, {"mid"})
      BY <1>1 DEF IncrementMID, Only, Fields
    <2> HIDE DEF i
    <2>4. Port(t) /\ DOMAIN i = Fields
      BY <2>2, WaitsStay DEF Stays, Keeps, Port
    <2>5. Only(i, t, {"tx", "retry"}) /\ t.tx = "WAIT_FOR_MESSAGE_REQUEST"
      BY <2>4 DEF TxWaitForMessageRequest, Only, Fields
    <2> HIDE DEF t
    <2>6. Only(q, t, CountFields \cup {"tx"})
      BY <2>3, <2>5 DEF Only, CountFields
    <2>7. t.rch = q.rch /\ t.extRx = q.extRx
      BY <1>1, <2>3, <2>4, <2>5 DEF Only, Fields
    <2>8. Clear(t) /\ Spr(t)
      BY <1>1, <2>4, <2>5, <2>6, <2>7, FreedIs DEF Fails, NoEpr, Clear, Silent
    <2>9. Only(t, w, CountFields) /\ Clear(w)
      BY <2>8, RchWaitIs, RchWaitKeeps
    <2> HIDE DEF w
    <2>10. Only(q, w, CountFields \cup {"tx"})
      BY <2>6, <2>9 DEF Only
    <2>11. q.retry = NRetry
      BY <1>1, <1>3, PortAssumption DEF Port, RetryType
    <2>12. /\ w.snk = q.snk /\ w.txKind = q.txKind /\ w.air = q.air /\ SameContract(q, w)
      BY <1>1, <2>10 DEF Only, Fields, CountFields, SameContract
    <2>13. CASE UnderContract(q) /\ q.snk # "SEND_SOFT_RESET"
      <3>1. r = EnterReady(w)
        BY <2>12, <2>13 DEF TransmissionError, UnderContract, SameContract
      <3>2. BackInReady(w, r)
        BY <2>9, <3>1, ReadyTalks DEF Clear
      <3>3. BackInReady(q, r)
        BY <2>12, <3>2 DEF BackInReady, SameContract
      <3> QED
        BY <2>1, <2>11, <3>3
    <2> QED
      BY <2>1, <2>11, <2>13
  <1> QED
    BY <1>2, <1>3


-----------------------------------------------------------------------------
\* The conversation, one event after another

\* The turns of a source that is not being reset, outside EPR mode
OpenTurns == {"CAPS", "REQUEST", "ANSWER", "SUPPLY", "CONTRACT", "RESET"}

\* A port and a source in conversation, with an event of the PHY and one of the timers
Talks(q, s, e, t) ==
  /\ Steady(q) /\ q.snk # "HARD_RESET"
  /\ q.storedMID \in MessageIDs \cup {NoMID} /\ q.passedUp = FALSE
  /\ InTurn(s) /\ s.turn \in OpenTurns
  /\ HandsUp(q, s, e) /\ InStep(q, s, e, t)

\* What the source knows of a message that the port has stored
Taken(r, s) == IF r.passedUp THEN [s EXCEPT !.got = IF @ < 2 THEN @ + 1 ELSE @] ELSE s

\* The event has been handled: nothing waits to be handed up.
Quiets(r, s) == ~Handing(Taken(r, s)) /\ Taken(r, s).got \in {0, 1} /\ InStep(r, Taken(r, s), NONE, NONE)

LEMMA SteadyPort ==
  ASSUME NEW q, Steady(q)
  PROVE  Port(q) /\ Stores(q) /\ NoEpr(q) /\ Spr(q) /\ Sound(q) /\ DOMAIN q = Fields
  BY PortStores, FlagsAre DEF Steady, Sound, Spr, NoEpr

LEMMA StageOpen ==
  ASSUME NEW s, InTurn(s), s.turn \in OpenTurns
  PROVE  Stage(s) \in OpenTurns
  BY DEF InTurn, Stage, OpenTurns, Follows, SprRx

\* The conversation looks at no other fields.
LEMMA TalkSame ==
  ASSUME NEW q, NEW r, SameTalk(q, r), NEW s, NEW t, NEW u, u \in {t, NONE}
  PROVE  /\ \A turn : Matches(q, s, turn) => Matches(r, s, turn)
         /\ IDsFollow(q, s, t) => IDsFollow(r, s, u)
  BY DEF SameTalk, SameContract, Matches, IDsFollow, Content, AwaitsPhy, UnderContract, NONE

\* Nothing is stored.
LEMMA TakesNothing ==
  ASSUME NEW r, r.passedUp = FALSE, NEW s, InTurn(s), ~Handing(s), InStep(r, s, NONE, NONE)
  PROVE  Quiets(r, s)
  BY DEF Quiets, Taken, InTurn

\* A message of the port is sent again, or given up under the contract.
LEMMA RetryConverses ==
  ASSUME NEW q, Fails(q), AwaitsPhy(q), NEW s, NEW e, NEW t, ~Handing(s), InStep(q, s, e, t),
         q.retry = NRetry => Stage(s) = "CONTRACT", NEW f, f \in {e, NONE}, e # "MSG_TX_COMPLETED"
  PROVE  InStep(TxCheckRetryCounter(q), s, f, NONE)
  <1> DEFINE r == TxCheckRetryCounter(q)
  <1>1. \/ SayingStill(q, r)
        \/ /\ q.retry = NRetry
           /\ UnderContract(q) /\ q.snk # "SEND_SOFT_RESET" => BackInReady(q, r)
    BY RetryTalks
  <1>2. Untold(q, r)
    BY SteadyPort, UntoldTransmitter DEF Fails
  <1> HIDE DEF r
  <1>3. f = "MSG_RX_COMPLETE" /\ r.rxMsg.kind # "GoodCRC" => s.out # NoMessage
    BY <1>2 DEF InStep, AcksAgree, Untold, NONE
  <1>4. CASE SayingStill(q, r)
    <2>1. SameTalk(q, r)
      BY <1>2, <1>4 DEF SayingStill, SameTalk, Untold, AwaitsPhy
    <2>2. IDsFollow(r, s, NONE) /\ Matches(r, s, Stage(s))
      BY <2>1, TalkSame DEF InStep
    <2>3. AcksAgree(r, s, f)
      BY <1>3, <1>4 DEF AcksAgree, SayingStill
    <2> QED
      BY <2>2, <2>3 DEF InStep, r
  <1>5. CASE /\ q.retry = NRetry
             /\ UnderContract(q) /\ q.snk # "SEND_SOFT_RESET" => BackInReady(q, r)
    <2>1. Matches(q, s, "CONTRACT") /\ Stage(s) = "CONTRACT"
      BY <1>5 DEF InStep
    <2>2. UnderContract(q) /\ q.snk \in {"SEND_NOT_SUPPORTED", "SELECT_CAPABILITY"}
      BY <2>1, SteadyPort DEF Matches, Fails, Sound, Sending, AwaitsPhy
    <2>3. BackInReady(q, r)
      BY <1>5, <2>2
    <2>4. Matches(r, s, Stage(s))
      BY <2>1, <2>3 DEF BackInReady, Matches
    <2>5. s.seen = q.mid => Content(r, s, NONE)
      <3> SUFFICES ASSUME s.seen = q.mid PROVE Content(r, s, NONE)
        OBVIOUS
      <3>1. q.pps_contract = FALSE
        BY <2>1, SteadyPort DEF Matches, Fails, Sound, Sending, AwaitsPhy
      <3>2. r.pps_contract = FALSE
        <4>1. r.pps_contract \in BOOLEAN
          BY RetryLinks, SteadyPort, FlagsAre DEF r, Hushed, Handles
        <4> QED
          BY <2>3, <3>1, <4>1 DEF BackInReady
      <3> QED
        BY <2>3, <3>2 DEF Content, BackInReady, AwaitsPhy, NONE
    <2>6. IDsFollow(r, s, NONE)
      BY <1>2, <2>5 DEF InStep, IDsFollow, Untold, Content
    <2>7. AcksAgree(r, s, f)
      BY <1>3, <2>3 DEF AcksAgree, Acks, BackInReady, AwaitsPhy
    <2> QED
      BY <2>4, <2>6, <2>7 DEF InStep, r
  <1> QED
    BY <1>1, <1>4, <1>5

\* SinkPPSPeriodicTimer: the contract is asked for once more.
LEMMA PeriodicConverses ==
  ASSUME NEW q, NEW s, NEW e, Talks(q, s, e, "SINK_PPS_PERIODIC"), q.air = NoMessage,
         q.snk = "READY", s.seen # q.mid, ~Handing(s)
  PROVE  InStep(TimerDelta(q, "SINK_PPS_PERIODIC"), s, e, NONE)
  <1> DEFINE z == [q EXCEPT !.pps_periodic_expired = TRUE]
             r == EnterEvaluateCapability(z)
  <1>1. TimerDelta(q, "SINK_PPS_PERIODIC") = r
    BY DEF TimerDelta
  <1>2. DOMAIN q = Fields /\ Stores(q) /\ InStep(q, s, e, "SINK_PPS_PERIODIC")
    BY SteadyPort DEF Talks
  <1>3. /\ Clear(z) /\ Only(q, z, {"pps_periodic_expired"}) /\ z.pps_periodic_expired = TRUE
    BY PeriodicClear DEF Talks
  <1>4. Untold(q, r)
    <2>1. Untold(q, TimerDelta(q, "SINK_PPS_PERIODIC"))
      BY <1>2, TimerTells
    <2> QED
      BY <1>1, <2>1
  <1> HIDE DEF z
  <1>5. /\ z.mid = q.mid /\ z.explicit_contract = q.explicit_contract
        /\ z.ams_first_sent = q.ams_first_sent
    BY <1>2, <1>3 DEF Only, Fields
  <1>6. /\ Saying(r, "SELECT_CAPABILITY") /\ r.tx = "WAIT_FOR_PHY_RESPONSE"
        /\ r.explicit_contract = z.explicit_contract /\ r.ams_first_sent = z.ams_first_sent
    BY <1>3, EvaluateTalks
  <1>7. Counts(z, r)
    BY <1>3, EvaluateLinks
  <1> HIDE DEF r
  <1>8. r.mid = q.mid /\ r.snk = "SELECT_CAPABILITY" /\ AwaitsPhy(r)
    BY <1>5, <1>6, <1>7 DEF Counts, Saying, Spoken, Restarts, AwaitsPhy
  <1>9. Stage(s) = "CONTRACT" /\ UnderContract(q)
    <2>1. Matches(q, s, Stage(s)) /\ Stage(s) \in OpenTurns
      BY <1>2, StageOpen DEF InStep, Talks
    <2> QED
      BY <2>1 DEF Matches, OpenTurns
  <1>10. Matches(r, s, Stage(s))
    BY <1>5, <1>6, <1>8, <1>9 DEF Matches, UnderContract
  <1>11. IDsFollow(r, s, NONE)
    BY <1>2, <1>4 DEF InStep, IDsFollow, Content, Untold
  <1>12. AcksAgree(r, s, e)
    BY <1>2, <1>4, <1>6 DEF InStep, AcksAgree, Untold
  <1> QED
    BY <1>1, <1>10, <1>11, <1>12 DEF InStep, r

\* A timer has expired while no event of the port's own message is in the slot.
LEMMA TimerConverses ==
  ASSUME NEW q, NEW s, NEW e \in {NONE, "MSG_RX_COMPLETE", "CONN_DETECTED"},
         NEW t \in {"CRC_RECEIVE", "SRT_EXPIRED", "PST_TRANS_TIMEOUT", "SINK_PPS_PERIODIC"},
         Talks(q, s, e, t), q.air = NoMessage,
         t = "CRC_RECEIVE" =>
           /\ AwaitsPhy(q) /\ q.tim[0] # "CRC_RECEIVE"
           /\ q.retry = NRetry => Stage(s) = "CONTRACT",
         t = "SINK_PPS_PERIODIC" => q.snk = "READY",
         ~AwaitsPhy(q) => s.seen # q.mid
  PROVE  LET v == TimerDelta(q, t)
         IN  Untold(q, v) /\ (v.snk = "HARD_RESET" \/ Talks(v, s, e, NONE))
  <1> DEFINE v == TimerDelta(q, t)
  <1>1. Untold(q, v)
    BY SteadyPort, TimerTells DEF Talks
  <1>2. Steady(v)
    BY TimerLinks DEF Talks, Hushed, Handles
  <1>3. ~Handing(s) /\ InStep(q, s, e, t)
    BY DEF Talks, HandsUp, NONE
  <1>4. v.snk = "HARD_RESET" \/ InStep(v, s, e, NONE)
    <2>1. CASE t = "CRC_RECEIVE"
      <3>1. v = TxCheckRetryCounter(q)
        BY <2>1 DEF TimerDelta
      <3>2. Fails(q)
        BY <2>1 DEF Fails, Talks, AwaitsPhy
      <3>3. e # "MSG_TX_COMPLETED"
        BY DEF NONE
      <3> QED
        BY <1>3, <2>1, <3>1, <3>2, <3>3, RetryConverses
    <2>2. CASE t \in {"SRT_EXPIRED", "PST_TRANS_TIMEOUT"}
      <3>1. v = EnterHardReset(q) /\ Spr(q)
        BY <2>2, SteadyPort
        DEF Talks, TimerDelta, SenderResponseExpired, Spr, SprStates, Sending, NONE
      <3> QED
        BY <3>1, HardResetLinks
    <2>3. CASE t = "SINK_PPS_PERIODIC"
      <3>1. ~AwaitsPhy(q)
        BY <2>3, SteadyPort DEF Talks, Sound, AwaitsPhy, Sending
      <3> QED
        BY <1>3, <2>3, <3>1, PeriodicConverses
    <2> QED
      BY <2>1, <2>2, <2>3
  <1> HIDE DEF v
  <1>5. HandsUp(v, s, e)
    BY <1>3 DEF HandsUp
  <1> QED
    BY <1>1, <1>2, <1>4, <1>5 DEF Talks, Untold, v

-----------------------------------------------------------------------------
\* What the PHY reports

\* A GoodCRC of the source
LEMMA AckConverses ==
  ASSUME NEW q, NEW s, Talks(q, s, "MSG_RX_COMPLETE", NONE), q.rxMsg.kind = "GoodCRC",
         AwaitsPhy(q), q.air = NoMessage, q.rxMsg.id = q.mid, s.seen = q.mid
  PROVE  Quiets(TxMatchMessageID(q), s)
  <1> DEFINE r == TxMatchMessageID(q)
  <1>1. Steady(q) /\ Sound(q) /\ Stores(q) /\ InStep(q, s, "MSG_RX_COMPLETE", NONE) /\ InTurn(s)
    BY SteadyPort DEF Talks
  <1>2. ~Handing(s)
    BY DEF Talks, HandsUp
  <1>3. Acknowledged(q, r)
    BY <1>1, MatchTalks
  <1>4. Untold(q, r) /\ r.passedUp = FALSE
    BY <1>1, UntoldTransmitter DEF Untold, Talks
  <1>5. Steady(r)
    BY <1>1, MatchLinks DEF Hushed, Handles
  <1> HIDE DEF r
  <1>6. Matches(q, s, Stage(s)) /\ Stage(s) \in OpenTurns
    BY <1>1, <1>2, StageOpen DEF InStep, Talks
  <1>7. \/ Stage(s) = "CAPS" /\ q.snk = "SOFT_RESET"
        \/ Stage(s) = "ANSWER" /\ q.snk = "SELECT_CAPABILITY"
        \/ /\ Stage(s) = "CONTRACT" /\ q.snk = "SEND_NOT_SUPPORTED" /\ q.pps_contract = FALSE
    BY <1>1, <1>6 DEF Matches, OpenTurns, Sound, Sending, AwaitsPhy
  <1>8. Matches(r, s, Stage(s)) /\ r.tx = "WAIT_FOR_MESSAGE_REQUEST"
    BY <1>3, <1>7 DEF Matches, Acknowledged, Waiting
  <1>9. Content(r, s, NONE)
    <2>1. r.pps_contract \in BOOLEAN
      BY <1>5, SteadyPort, FlagsAre
    <2> QED
      BY <1>3, <1>7, <1>8, <2>1 DEF Content, Acknowledged, Waiting, AwaitsPhy, NONE
  <1>10. IDsFollow(r, s, NONE)
    BY <1>1, <1>4, <1>9 DEF InStep, IDsFollow, Untold
  <1>11. AcksAgree(r, s, NONE)
    <2>1. ~Sends(r)
      BY <1>3 DEF Acknowledged, Sends, NoMessage
    <2> QED
      BY <2>1 DEF AcksAgree, Acks, NONE
  <1> QED
    BY <1>1, <1>2, <1>4, <1>8, <1>10, <1>11, TakesNothing DEF InStep, r

\* No MessageID follows itself, nor the one after it.
LEMMA IDsDiffer ==
  ASSUME MidMax >= 2, NEW id \in MessageIDs
  PROVE  id # NoMID /\ NextMID(id) # id /\ NextMID(NextMID(id)) # id
  BY PortAssumption DEF MessageIDs, NoMID, NextMID

\* What the source says is not what the port has stored.
LEMMA SaidIsNew ==
  ASSUME MidMax >= 2, NEW q, NEW s, NEW e, NEW t, Talks(q, s, e, t), s.out # NoMessage,
         s.got = 0, s.out.kind # "Soft_Reset"
  PROVE  q.storedMID # s.id
  <1>1. ~Handing(s) /\ IDsFollow(q, s, t) /\ s.id \in MessageIDs
    BY DEF Talks, InStep, InTurn, Handing
  <1> QED
    BY <1>1, IDsDiffer DEF IDsFollow

\* The GoodCRC for what the source says goes out, or cannot.
LEMMA GoodCRCSent ==
  ASSUME NEW l, Steady(l), l.snk # "HARD_RESET", l.tx # "WAIT_FOR_PHY_RESPONSE"
  PROVE  LET r == RxSendGoodCRC(l)
         IN  /\ r.snk = l.snk /\ r.tx = l.tx /\ r.mid = l.mid /\ r.txKind = "GoodCRC"
             /\ SameContract(l, r)
             /\ Sends(r) => \/ r.air.id = l.rxMsg.id
                            \/ r.air = l.air /\ Sends(l) /\ l.txKind = "GoodCRC"
  <1>1. DOMAIN l = Fields /\ Sound(l)
    BY SteadyPort
  <1>2. l.air.kind # "HardReset"
    BY <1>1 DEF Sound
  <1>3. Sends(l) => l.txKind = "GoodCRC"
    BY <1>1 DEF Sound, AwaitsPhy
  <1> QED
    BY <1>1, <1>2, <1>3, ZenonT(60)
    DEF RxSendGoodCRC, UCPD_PHY_SendMessage, Fields, SameContract, Sends

\* A message of the source
LEMMA RxConverses ==
  ASSUME MidMax >= 2, NEW q, NEW s, Talks(q, s, "MSG_RX_COMPLETE", NONE), Guarded(q),
         q.rxMsg.kind # "GoodCRC", q.rxMsg = s.out
  PROVE  LET r == MsgRxComplete(q) IN r.passedUp = FALSE /\ InStep(r, s, NONE, NONE)
  <1> DEFINE l == RxLayerReset(q)
  <1>1. /\ Steady(q) /\ Sound(q) /\ Stores(q) /\ DOMAIN q = Fields /\ InTurn(s)
        /\ InStep(q, s, "MSG_RX_COMPLETE", NONE) /\ q.passedUp = FALSE /\ q.snk # "HARD_RESET"
    BY SteadyPort DEF Talks
  <1>2. s.out # NoMessage /\ s.out.id = s.id /\ ~Handing(s)
    BY <1>1 DEF InStep, AcksAgree, InTurn, Handing
  <1>3. Matches(q, s, Stage(s)) /\ Stage(s) \in OpenTurns
    BY <1>1, <1>2, StageOpen DEF InStep, Talks
  <1>4. CASE q.tx = "WAIT_FOR_PHY_RESPONSE"
    <2>1. MsgRxComplete(q) = q
      BY <1>4 DEF MsgRxComplete
    <2>2. AcksAgree(q, s, NONE)
      BY <1>4 DEF AcksAgree, NONE
    <2> QED
      BY <1>1, <2>1, <2>2 DEF InStep
  <1>5. CASE q.tx # "WAIT_FOR_PHY_RESPONSE" /\ q.rxMsg.kind # "Soft_Reset"
    <2> DEFINE r == RxSendGoodCRC(q)
    <2>1. MsgRxComplete(q) = r
      BY <1>5 DEF MsgRxComplete
    <2>2. Untold(q, r)
      BY <1>1, UntoldTransmitter
    <2>3. /\ r.snk = q.snk /\ r.tx = q.tx /\ r.mid = q.mid /\ r.txKind = "GoodCRC"
          /\ SameContract(q, r)
          /\ Sends(r) => \/ r.air.id = q.rxMsg.id
                         \/ r.air = q.air /\ Sends(q) /\ q.txKind = "GoodCRC"
      BY <1>1, <1>5, GoodCRCSent
    <2> HIDE DEF r
    <2>4. Matches(r, s, Stage(s)) /\ IDsFollow(r, s, NONE)
      BY <1>1, <1>3, <1>5, <2>2, <2>3
      DEF InStep, Matches, IDsFollow, Content, AwaitsPhy, UnderContract, Untold, SameContract
    <2>5. s.got = 0 => r.storedMID # s.out.id
      BY <1>2, <1>5, <2>2, SaidIsNew DEF Untold
    <2>6. Sends(r) => r.air.id = s.out.id
      BY <1>1, <1>2, <1>5, <2>3 DEF InStep, AcksAgree, Acks
    <2>7. AcksAgree(r, s, NONE)
      BY <1>2, <2>2, <2>5, <2>6 DEF AcksAgree, Untold, NONE
    <2> QED
      BY <1>1, <2>1, <2>2, <2>4, <2>7 DEF InStep, Untold
  <1>6. CASE q.tx # "WAIT_FOR_PHY_RESPONSE" /\ q.rxMsg.kind = "Soft_Reset"
    <2> DEFINE r == RxSendGoodCRC(l)
    <2>1. MsgRxComplete(q) = r
      BY <1>6 DEF MsgRxComplete
    <2>2. /\ Steady(l) /\ l.tx = "WAIT_FOR_MESSAGE_REQUEST" /\ l.snk = q.snk
          /\ l.rxMsg = q.rxMsg /\ l.air = q.air
      BY <1>1, <1>6, LayerResetKeeps
    <2>3. /\ l.storedMID = NoMID /\ l.passedUp = FALSE /\ l.txKind = q.txKind
          /\ SameContract(q, l)
      BY <1>1 DEF RxLayerReset, TxWaitForMessageRequest, Fields, SameContract
    <2>4. Stores(l)
      BY <2>2, SteadyPort
    <2> HIDE DEF l
    <2>5. Untold(l, r)
      BY <2>4, UntoldTransmitter
    <2>6. /\ r.snk = q.snk /\ r.tx = "WAIT_FOR_MESSAGE_REQUEST" /\ r.txKind = "GoodCRC"
          /\ SameContract(q, r)
          /\ Sends(r) => \/ r.air.id = q.rxMsg.id
                         \/ r.air = q.air /\ Sends(q) /\ q.txKind = "GoodCRC"
      BY <1>1, <2>2, <2>3, GoodCRCSent DEF SameContract, Sends
    <2> HIDE DEF r
    <2>7. s.got = 0 /\ Stage(s) = "CONTRACT" /\ q.snk = "READY" /\ UnderContract(q)
      <3>1. s.turn = "CONTRACT" /\ s.next = "RESET" /\ s.got \in {0, 1}
        BY <1>1, <1>2, <1>6 DEF InTurn, Leads, Follows
      <3>2. Stage(s) # "RESET"
        BY <1>3, <1>6 DEF Matches, AwaitsPhy
      <3> QED
        BY <1>2, <1>3, <1>6, <3>1, <3>2 DEF Stage, Matches, AwaitsPhy
    <2>8. Matches(r, s, Stage(s))
      BY <2>6, <2>7 DEF Matches, UnderContract, SameContract
    <2>9. IDsFollow(r, s, NONE)
      BY <1>2, <1>6, <2>7 DEF IDsFollow
    <2>10. Sends(r) => r.air.id = s.out.id
      BY <1>1, <1>2, <1>6, <2>6 DEF InStep, AcksAgree, Acks
    <2>11. r.storedMID # s.out.id
      <3>1. s.id \in MessageIDs
        BY <1>1 DEF InTurn
      <3> QED
        BY <1>2, <2>3, <2>5, <3>1, IDsDiffer DEF Untold
    <2>12. AcksAgree(r, s, NONE)
      BY <1>2, <2>2, <2>5, <2>10, <2>11 DEF AcksAgree, Untold, NONE
    <2> QED
      BY <2>1, <2>3, <2>5, <2>8, <2>9, <2>12 DEF InStep, Untold
  <1> QED
    BY <1>4, <1>5, <1>6

\* Rp is 3.0 A again.
LEMMA TxOkConverses ==
  ASSUME NEW q, NEW s, Talks(q, s, "CONN_DETECTED", NONE)
  PROVE  LET r == TxOk(q) IN r.passedUp = FALSE /\ InStep(r, s, NONE, NONE)
  <1> DEFINE r == TxOk(q)
  <1>1. /\ Steady(q) /\ Sound(q) /\ Port(q) /\ DOMAIN q = Fields /\ InTurn(s)
        /\ InStep(q, s, "CONN_DETECTED", NONE) /\ q.passedUp = FALSE
        /\ q.txAllowed \in BOOLEAN
    BY SteadyPort, FlagsAre DEF Talks
  <1>2. ~Handing(s)
    BY DEF Talks, HandsUp
  <1>3. CASE q.tx # "SNK_PENDING" \/ ~q.sinkTxOk
    <2>1. r = q
      BY <1>3 DEF TxOk
    <2>2. AcksAgree(q, s, NONE)
      <3>1. Acks(q, NONE) => Acks(q, "CONN_DETECTED")
        BY DEF Acks, NONE
      <3>2. Acks(q, NONE) /\ q.tx # "WAIT_FOR_PHY_RESPONSE" => s.out # NoMessage
        BY <1>1, <3>1 DEF InStep, AcksAgree
      <3> QED
        BY <1>1, <3>1, <3>2 DEF InStep, AcksAgree, NONE
    <2> QED
      BY <1>1, <2>1, <2>2 DEF InStep
  <1>4. CASE q.tx = "SNK_PENDING" /\ q.sinkTxOk
    <2>1. r = TxConstructMessage(q)
      BY <1>4 DEF TxOk
    <2>2. Constructed(q, r)
      BY <1>1, <2>1, ConstructIs
    <2> HIDE DEF r
    <2>3. /\ r.tx = "WAIT_FOR_PHY_RESPONSE" /\ r.snk = q.snk /\ r.mid = q.mid
          /\ r.storedMID = q.storedMID /\ r.rxMsg = q.rxMsg /\ r.passedUp = q.passedUp
      BY <1>1, <2>2 DEF Constructed, Only, Fields
    <2>4. q.snk = "SELECT_CAPABILITY"
      BY <1>1, <1>4 DEF Sound
    <2>5. Stage(s) = "REQUEST"
      <3>1. Matches(q, s, Stage(s)) /\ Stage(s) \in OpenTurns
        BY <1>1, <1>2, StageOpen DEF InStep, Talks
      <3> QED
        BY <1>4, <2>4, <3>1 DEF Matches, OpenTurns, AwaitsPhy
    <2>6. Matches(r, s, Stage(s))
      BY <1>1, <1>2, <2>3, <2>5 DEF InStep, Matches
    <2>7. IDsFollow(r, s, NONE)
      BY <1>1, <1>4, <2>3 DEF InStep, IDsFollow, Content
    <2>8. AcksAgree(r, s, NONE)
      BY <2>3 DEF AcksAgree, NONE
    <2> QED
      BY <1>1, <2>3, <2>6, <2>7, <2>8 DEF InStep, r
  <1> QED
    BY <1>3, <1>4

\* What the port sent collided with a message of the source.
LEMMA DiscardedConverses ==
  ASSUME NEW q, NEW s, Talks(q, s, "MSG_TX_DISCARDED", NONE), q.air = NoMessage,
         q.tim[0] # "CRC_RECEIVE", q.txKind # "GoodCRC",
         q.tx = "WAIT_FOR_PHY_RESPONSE" /\ q.retry = NRetry => Stage(s) = "CONTRACT"
  PROVE  LET r == MsgTxDiscarded(q) IN r.passedUp = FALSE /\ InStep(r, s, NONE, NONE)
  <1> DEFINE r == MsgTxDiscarded(q)
  <1>1. /\ Steady(q) /\ Stores(q) /\ DOMAIN q = Fields
        /\ InStep(q, s, "MSG_TX_DISCARDED", NONE) /\ q.passedUp = FALSE
    BY SteadyPort DEF Talks
  <1>2. ~Handing(s)
    BY DEF Talks, HandsUp
  <1>3. CASE q.rx # "SEND_GOODCRC" /\ q.tx = "WAIT_FOR_PHY_RESPONSE"
    <2>1. r = TxCheckRetryCounter(q)
      BY <1>3 DEF MsgTxDiscarded
    <2>2. Fails(q) /\ AwaitsPhy(q)
      BY <1>1, <1>3 DEF Fails, AwaitsPhy
    <2>3. InStep(TxCheckRetryCounter(q), s, NONE, NONE)
      BY <1>1, <1>2, <1>3, <2>2, RetryConverses DEF NONE
    <2>4. Untold(q, TxCheckRetryCounter(q))
      BY <1>1, UntoldTransmitter
    <2> QED
      BY <1>1, <2>1, <2>3, <2>4 DEF Untold
  <1>4. CASE ~(q.rx # "SEND_GOODCRC" /\ q.tx = "WAIT_FOR_PHY_RESPONSE")
    <2>1. SameTalk(q, r) /\ r.air = q.air /\ r.passedUp = q.passedUp
      BY <1>1, <1>4 DEF MsgTxDiscarded, SameTalk, SameContract, Fields
    <2> HIDE DEF r
    <2>2. IDsFollow(r, s, NONE) /\ Matches(r, s, Stage(s))
      BY <1>1, <1>2, <2>1, TalkSame DEF InStep
    <2>3. AcksAgree(r, s, NONE)
      BY <2>1 DEF AcksAgree, Acks, Sends, NoMessage, NONE
    <2> QED
      BY <1>1, <2>1, <2>2, <2>3 DEF InStep, r
  <1> QED
    BY <1>3, <1>4

\* What a message that is stored leads to is what the turn that follows it asks for.
LEMMA StoredMatches ==
  ASSUME NEW q, NEW s, Steady(q), q.snk # "HARD_RESET", q.tx # "WAIT_FOR_PHY_RESPONSE",
         q.air = NoMessage, q.tim[0] # "CRC_RECEIVE",
         q.rxMsg.kind \in SprRx, q.rch = "WAIT_FOR_MESSAGE_FROM_PRL",
         q.storedMID # q.rxMsg.id, s.seen # q.mid,
         q.rxMsg.kind = "Unknown" => q.snk = "READY" /\ UnderContract(q)
  PROVE  LET r == RxStoreMessageID(q)
         IN  /\ Matches(r, s, Follows[q.rxMsg.kind])
             /\ r.storedMID = q.rxMsg.id /\ r.rxMsg = q.rxMsg /\ r.passedUp = TRUE
             /\ ~Acks(r, NONE)
  <1> DEFINE r == RxStoreMessageID(q)
             kind == q.rxMsg.kind
  <1>1. Outcome(q, kind, r)
    BY StoreTalks
  <1>2. r.storedMID = q.rxMsg.id /\ r.rxMsg = q.rxMsg /\ r.passedUp = TRUE
    <2>1. Stores(q)
      BY SteadyPort
    <2> QED
      BY <2>1, StoreTells
  <1>3. Counts(q, r)
    BY StoreLinks DEF SprReceived
  <1> HIDE DEF r
  <1>4. ~Acks(r, NONE)
    BY <1>1 DEF Outcome, Acks, Sends, NoMessage, NONE
  <1>5. r.snk \in {"SELECT_CAPABILITY", "SOFT_RESET"} /\ r.txKind # "Soft_Reset" =>
          s.seen # r.mid
    BY <1>3 DEF Counts, Restarts
  <1>6. CASE kind = "SourceCaps"
    <2>1. Saying(r, "SELECT_CAPABILITY")
      BY <1>1, <1>6 DEF Outcome
    <2>2. Follows[kind] = "REQUEST"
      BY <1>6 DEF Follows
    <2> QED
      BY <1>2, <1>4, <1>5, <1>6, <2>1, <2>2 DEF Matches, Saying, Spoken, r
  <1>7. CASE kind = "Accept"
    <2>1. Waiting(r, "TRANSITION_SINK") /\ Follows[kind] = "SUPPLY"
      BY <1>1, <1>7 DEF Outcome, Follows
    <2> QED
      BY <1>2, <1>4, <2>1 DEF Matches, Waiting, r
  <1>8. CASE kind \in {"PS_RDY", "Alert"}
    <2>1. Waiting(r, "READY") /\ UnderContract(r) /\ Follows[kind] = "CONTRACT"
      BY <1>1, <1>8 DEF Outcome, Follows
    <2> QED
      BY <1>2, <1>4, <2>1 DEF Matches, Waiting, r
  <1>9. CASE kind = "Unknown"
    <2>1. /\ Saying(r, "SEND_NOT_SUPPORTED") /\ r.pps_contract = FALSE /\ UnderContract(r)
          /\ Follows[kind] = "CONTRACT"
      BY <1>1, <1>9 DEF Outcome, Follows
    <2> QED
      BY <1>2, <1>4, <2>1 DEF Matches, Saying, Spoken, AwaitsPhy, r
  <1>10. CASE kind = "Soft_Reset"
    <2>1. Saying(r, "SOFT_RESET") /\ Follows[kind] = "RESET"
      BY <1>1, <1>10 DEF Outcome, Follows
    <2> QED
      BY <1>2, <1>4, <1>5, <2>1 DEF Matches, Saying, Spoken, AwaitsPhy, r
  <1> QED
    BY <1>6, <1>7, <1>8, <1>9, <1>10 DEF SprRx

\* A GoodCRC has left the port, and what it acknowledges is new.
LEMMA StoreConverses ==
  ASSUME NEW q, NEW s, Talks(q, s, "MSG_TX_COMPLETED", NONE), q.air = NoMessage,
         q.tim[0] # "CRC_RECEIVE", q.rch = "WAIT_FOR_MESSAGE_FROM_PRL",
         ~AwaitsPhy(q) => s.seen # q.mid,
         q.txKind = "GoodCRC", q.storedMID # q.rxMsg.id
  PROVE  Quiets(RxStoreMessageID(q), s)
  <1> DEFINE r == RxStoreMessageID(q)
             u == [s EXCEPT !.got = IF @ < 2 THEN @ + 1 ELSE @]
  <1>1. /\ Steady(q) /\ Sound(q) /\ InTurn(s) /\ s.turn \in OpenTurns
        /\ HandsUp(q, s, "MSG_TX_COMPLETED") /\ InStep(q, s, "MSG_TX_COMPLETED", NONE)
        /\ q.snk # "HARD_RESET"
    BY SteadyPort DEF Talks
  <1>2. s.seen # q.mid /\ ~AwaitsPhy(q)
    BY DEF AwaitsPhy
  <1>3. Acks(q, "MSG_TX_COMPLETED")
    BY DEF Acks
  <1>4. ~Handing(s) =>
          Matches(q, s, Stage(s)) /\ Stage(s) \in OpenTurns /\ q.tx # "WAIT_FOR_PHY_RESPONSE"
    <2> SUFFICES ASSUME ~Handing(s)
                 PROVE  /\ Matches(q, s, Stage(s)) /\ Stage(s) \in OpenTurns
                        /\ q.tx # "WAIT_FOR_PHY_RESPONSE"
      OBVIOUS
    <2>1. Matches(q, s, Stage(s)) /\ Stage(s) \in OpenTurns
      BY <1>1, StageOpen DEF InStep
    <2>2. q.tx = "WAIT_FOR_PHY_RESPONSE" => q.snk = "SELECT_CAPABILITY"
      BY <1>1 DEF Sound
    <2> QED
      BY <1>2, <2>1, <2>2 DEF Matches, OpenTurns
  <1>5. /\ s.got = 0 /\ q.tx # "WAIT_FOR_PHY_RESPONSE"
        /\ q.rxMsg.kind \in SprRx
        /\ Stage(u) = Follows[q.rxMsg.kind]
        /\ u.got = 1 /\ u.id = s.id /\ u.out = s.out /\ u.seen = s.seen
        /\ s.out = NoMessage => NextMID(q.rxMsg.id) = s.id
        /\ s.out # NoMessage => q.rxMsg.id = s.id
        /\ q.rxMsg.kind = "Unknown" => q.snk = "READY" /\ UnderContract(q)
    <2>1. s.got = 0 => u.got = 1 /\ Stage(u) = IF s.out # NoMessage THEN s.next ELSE s.turn
      BY DEF Stage
    <2>2. u.id = s.id /\ u.out = s.out /\ u.seen = s.seen
      OBVIOUS
    <2>3. CASE Handing(s)
      <3>1. s.got = 0 /\ s.out = NoMessage
        BY <1>1, <2>3 DEF Handing, HandsUp
      <3> QED
        BY <1>1, <2>1, <2>2, <2>3, <3>1 DEF HandsUp
    <2>4. CASE ~Handing(s)
      <3>1. s.out # NoMessage /\ q.rxMsg = s.out /\ s.got \in {0, 1}
        BY <1>1, <1>3, <1>4, <2>4 DEF InStep, AcksAgree, InTurn, Handing
      <3>2. /\ s.out.id = s.id /\ s.out.kind \in SprRx
            /\ s.turn \in Leads[s.out.kind] /\ s.next = Follows[s.out.kind]
        BY <1>1, <3>1 DEF InTurn
      <3>3. s.got = 0
        BY <1>1, <3>1, <3>2 DEF InStep, IDsFollow
      <3>4. q.rxMsg.kind = "Unknown" => q.snk = "READY" /\ UnderContract(q)
        <4> SUFFICES ASSUME q.rxMsg.kind = "Unknown"
                     PROVE  q.snk = "READY" /\ UnderContract(q)
          OBVIOUS
        <4>1. Stage(s) = "CONTRACT"
          BY <3>1, <3>2, <3>3 DEF Stage, Leads
        <4> QED
          BY <1>2, <1>4, <2>4, <4>1 DEF Matches
      <3> QED
        BY <1>4, <2>1, <2>2, <2>4, <3>1, <3>2, <3>3, <3>4
    <2> QED
      BY <2>3, <2>4
  <1>6. /\ Matches(r, s, Follows[q.rxMsg.kind])
        /\ r.storedMID = q.rxMsg.id /\ r.passedUp = TRUE /\ ~Acks(r, NONE)
    BY <1>1, <1>2, <1>5, StoredMatches
  <1>7. Taken(r, s) = u
    BY <1>6 DEF Taken
  <1> HIDE DEF r, u
  <1>8. Matches(r, u, Stage(u))
    BY <1>5, <1>6 DEF Matches
  <1>9. IDsFollow(r, u, NONE)
    BY <1>5, <1>6 DEF IDsFollow
  <1>10. AcksAgree(r, u, NONE)
    BY <1>6 DEF AcksAgree, NONE
  <1>11. ~Handing(u)
    BY <1>5 DEF Handing
  <1> QED
    BY <1>5, <1>7, <1>8, <1>9, <1>10, <1>11 DEF Quiets, InStep, r

LEMMA CompletedConverses ==
  ASSUME NEW q, NEW s, Talks(q, s, "MSG_TX_COMPLETED", NONE), q.air = NoMessage,
         q.tim[0] # "CRC_RECEIVE", q.rch = "WAIT_FOR_MESSAGE_FROM_PRL",
         ~AwaitsPhy(q) => s.seen # q.mid
  PROVE  Quiets(MsgTxCompleted(q), s)
  <1> DEFINE r == MsgTxCompleted(q)
  <1>1. /\ Steady(q) /\ Port(q) /\ DOMAIN q = Fields /\ InTurn(s)
        /\ HandsUp(q, s, "MSG_TX_COMPLETED") /\ InStep(q, s, "MSG_TX_COMPLETED", NONE)
        /\ q.passedUp = FALSE
    BY SteadyPort DEF Talks
  <1>2. CASE q.txKind = "GoodCRC" /\ q.storedMID # q.rxMsg.id
    <2>1. r = RxStoreMessageID(q)
      BY <1>2 DEF MsgTxCompleted, RxCheckMessageID
    <2> QED
      BY <1>2, <2>1, StoreConverses
  <1>3. CASE ~(q.txKind = "GoodCRC" /\ q.storedMID # q.rxMsg.id)
    <2>1. ~Handing(s)
      BY <1>1, <1>3 DEF HandsUp
    <2>2. Only(q, r, {"rx", "tim"})
      <3>1. CASE q.txKind = "GoodCRC"
        BY <1>1, <1>3, <3>1 DEF MsgTxCompleted, RxCheckMessageID, Only, Fields
      <3>2. CASE q.txKind # "GoodCRC"
        <4>1. r = UCPD_TIM_Start(q, "CRC_RECEIVE")
          BY <3>2 DEF MsgTxCompleted
        <4>2. Only(q, r, {"tim"})
          BY <1>1, <4>1, TimersAre, TimerChannels DEF Started0
        <4> QED
          BY <4>2 DEF Only
      <3> QED
        BY <3>1, <3>2
    <2> HIDE DEF r
    <2>3. SameTalk(q, r) /\ r.air = NoMessage /\ r.passedUp = FALSE
      BY <1>1, <2>2 DEF Only, Fields, SameTalk, SameContract
    <2>4. IDsFollow(r, s, NONE) /\ Matches(r, s, Stage(s))
      BY <1>1, <2>1, <2>3, TalkSame DEF InStep
    <2>5. AcksAgree(r, s, NONE)
      BY <2>3 DEF AcksAgree, Acks, Sends, NoMessage, NONE
    <2> QED
      BY <1>1, <2>1, <2>3, <2>4, <2>5, TakesNothing DEF InStep, r
  <1> QED
    BY <1>2, <1>3

\* The events of the PHY and the conversation: what the worker finds in its slots.
Fitting(q, s, e) ==
  /\ ~AwaitsPhy(q) => s.seen # q.mid
  /\ e = "MSG_RX_COMPLETE" =>
       IF q.rxMsg.kind = "GoodCRC"
       THEN AwaitsPhy(q) /\ q.air = NoMessage /\ q.rxMsg.id = q.mid /\ s.seen = q.mid
       ELSE q.rxMsg = s.out
  /\ e \in {"MSG_TX_COMPLETED", "MSG_TX_DISCARDED"} =>
       q.air = NoMessage /\ q.tim[0] # "CRC_RECEIVE"
  /\ e = "MSG_TX_COMPLETED" => q.rch = "WAIT_FOR_MESSAGE_FROM_PRL"
  /\ e = "MSG_TX_DISCARDED" => q.txKind # "GoodCRC"

LEMMA PhyConverses ==
  ASSUME MidMax >= 2, NEW q, NEW s, NEW e \in (PhyEvents \cup {NONE}) \ HardResets,
         Talks(q, s, e, NONE), Guarded(q), Fitting(q, s, e),
         Exhausted(q, e, NONE) => Stage(s) = "CONTRACT"
  PROVE  Quiets(PhyDelta(q, e), s)
  <1>1. InTurn(s) /\ (e # "MSG_TX_COMPLETED" => ~Handing(s))
    BY DEF Talks, HandsUp
  <1>2. CASE e = "MSG_RX_COMPLETE"
    <2>1. PhyDelta(q, e) = MsgRxComplete(q)
      BY <1>2 DEF PhyDelta
    <2>2. CASE q.rxMsg.kind = "GoodCRC"
      <3>1. MsgRxComplete(q) = TxMatchMessageID(q)
        BY <1>2, <2>2 DEF MsgRxComplete, Fitting, AwaitsPhy
      <3> QED
        BY <1>2, <2>1, <2>2, <3>1, AckConverses DEF Fitting
    <2>3. CASE q.rxMsg.kind # "GoodCRC"
      <3>1. MsgRxComplete(q).passedUp = FALSE /\ InStep(MsgRxComplete(q), s, NONE, NONE)
        BY <1>2, <2>3, RxConverses DEF Fitting
      <3> QED
        BY <1>1, <1>2, <2>1, <3>1, TakesNothing
    <2> QED
      BY <2>2, <2>3
  <1>3. CASE e = "CONN_DETECTED"
    <2>1. TxOk(q).passedUp = FALSE /\ InStep(TxOk(q), s, NONE, NONE)
      BY <1>3, TxOkConverses
    <2>2. PhyDelta(q, e) = TxOk(q)
      BY <1>3 DEF PhyDelta
    <2> QED
      BY <1>1, <1>3, <2>1, <2>2, TakesNothing
  <1>4. CASE e = "MSG_TX_DISCARDED"
    <2>1. MsgTxDiscarded(q).passedUp = FALSE /\ InStep(MsgTxDiscarded(q), s, NONE, NONE)
      BY <1>4, DiscardedConverses DEF Fitting, Exhausted
    <2>2. PhyDelta(q, e) = MsgTxDiscarded(q)
      BY <1>4 DEF PhyDelta
    <2> QED
      BY <1>1, <1>4, <2>1, <2>2, TakesNothing
  <1>5. CASE e = "MSG_TX_COMPLETED"
    <2>1. PhyDelta(q, e) = MsgTxCompleted(q)
      BY <1>5 DEF PhyDelta
    <2> QED
      BY <1>5, <2>1, CompletedConverses DEF Fitting
  <1>6. CASE e \notin {"MSG_RX_COMPLETE", "CONN_DETECTED", "MSG_TX_DISCARDED", "MSG_TX_COMPLETED"}
    <2>1. PhyDelta(q, e) = q
      BY <1>6 DEF PhyDelta, HardResets
    <2>2. q.passedUp = FALSE /\ InStep(q, s, e, NONE)
      BY DEF Talks
    <2>3. Acks(q, NONE) => Acks(q, e)
      BY DEF Acks, NONE
    <2>4. AcksAgree(q, s, NONE)
      BY <1>6, <2>2, <2>3 DEF InStep, AcksAgree, NONE
    <2> QED
      BY <1>1, <1>6, <2>1, <2>2, <2>4, TakesNothing DEF InStep
  <1> QED
    BY <1>2, <1>3, <1>4, <1>5, <1>6

\* The run of the handler is over: nothing waits to be handed up, and the conversation goes on
\* unless the port resets the link.
Ends(r, s) ==
  /\ ~Handing(Taken(r, s)) /\ Taken(r, s).got \in {0, 1}
  /\ r.snk = "HARD_RESET" \/ InStep(r, Taken(r, s), NONE, NONE)

LEMMA DpmConverses ==
  ASSUME NEW q, Steady(q), Guarded(q), NEW s, Quiets(q, s) \/ (q.snk = "HARD_RESET" /\ Ends(q, s))
  PROVE  Ends(HandleDpm(q), s)
  <1> DEFINE r == HandleDpm(q)
             a == [q EXCEPT !.current_callback = IF @ = NONE THEN q.callback ELSE @]
  <1>1. DOMAIN q = Fields /\ Untold(q, r)
    BY SteadyPort, DpmTells
  <1>2. r = a \/ r.snk = "HARD_RESET"
    BY DpmLinks
  <1>3. q.snk = "HARD_RESET" => r = a
    BY DpmLinks
  <1>4. SameTalk(q, a) /\ a.air = q.air
    BY <1>1 DEF Fields, SameTalk, SameContract
  <1> HIDE DEF r, a
  <1>5. Taken(r, s) = Taken(q, s)
    BY <1>1 DEF Taken, Untold
  <1> DEFINE u == Taken(q, s)
  <1> HIDE DEF u
  <1>6. CASE r.snk = "HARD_RESET"
    BY <1>5, <1>6 DEF Ends, Quiets, r
  <1>7. CASE r = a /\ r.snk # "HARD_RESET"
    <2>1. InStep(q, u, NONE, NONE) /\ ~Handing(u) /\ u.got \in {0, 1}
      BY <1>4, <1>7 DEF Quiets, SameTalk, u
    <2>2. IDsFollow(r, u, NONE) /\ Matches(r, u, Stage(u))
      BY <1>4, <1>7, <2>1, TalkSame DEF InStep
    <2>3. AcksAgree(r, u, NONE)
      BY <1>4, <1>7, <2>1 DEF InStep, AcksAgree, Acks, Sends, SameTalk
    <2> QED
      BY <1>5, <2>1, <2>2, <2>3 DEF Ends, InStep, u, r
  <1> QED
    BY <1>2, <1>6, <1>7

\* One run of UCPD_PE_PRL_Handler in a conversation
LEMMA HandlerConverses ==
  ASSUME MidMax >= 2, NEW q, NEW s, NEW power \in {NONE, "VBUS_REMOVED"}, NEW e, NEW t,
         e \notin HardResets, q.cad = "ATTACHED", Fits(q, e, t),
         ~(power = "VBUS_REMOVED" /\ ~q.hardResetActive),
         Talks(q, s, e, t), Fitting(q, s, e), Exhausted(q, e, t) => Stage(s) = "CONTRACT"
  PROVE  Ends(UCPD_PE_PRL_Handler(q, power, e, t), s)
  <1> DEFINE v == IF t # NONE THEN TimerDelta(q, t) ELSE q
             x == PhyDelta(v, e)
  <1>1. /\ Steady(q) /\ DOMAIN q = Fields /\ q.hardResetActive \in BOOLEAN
        /\ q.hrdOriginPE \in BOOLEAN /\ q.passedUp = FALSE /\ InTurn(s)
    BY SteadyPort, FlagsAre DEF Talks
  <1>2. PwrDelta(q, power) = q
    BY DEF PwrDelta, NONE
  <1>3. (q.hardResetActive /\ ~q.hrdOriginPE) = FALSE
    BY <1>1 DEF Steady, Sound
  <1>4. HandleEvents(q, e, t, FALSE) = x
    BY DEF HandleEvents, HardResets, Fits, SprTimerEvents, NONE
  <1>5. UCPD_PE_PRL_Handler(q, power, e, t) = HandleDpm(x)
    BY <1>2, <1>3, <1>4 DEF UCPD_PE_PRL_Handler, HandleConnection
  <1>6. Hushed(q, x)
    BY <1>4, EventLinks
  <1>7. Steady(x) /\ Guarded(x)
    BY <1>6 DEF Hushed, Handles
  <1>8. e \in (PhyEvents \cup {NONE}) \ HardResets
    BY DEF Fits
  <1>9. Quiets(x, s) \/ (x.snk = "HARD_RESET" /\ Ends(x, s))
    <2>1. CASE t = NONE
      <3>1. v = q /\ Guarded(q) /\ Talks(q, s, e, NONE)
        BY <2>1 DEF Fits, NONE
      <3>2. Exhausted(q, e, NONE) => Stage(s) = "CONTRACT"
        BY <2>1
      <3> QED
        BY <1>8, <3>1, <3>2, PhyConverses
    <2>2. CASE t # NONE
      <3>1. e \in {NONE, "MSG_RX_COMPLETE", "CONN_DETECTED"}
        BY <2>2 DEF Fits, HardResets, PhyEvents
      <3>2. q.air = NoMessage
        BY <1>1, <2>2 DEF Fits, Steady, Sound, Sends
      <3>3. t \in {"CRC_RECEIVE", "SRT_EXPIRED", "PST_TRANS_TIMEOUT", "SINK_PPS_PERIODIC"}
        BY <2>2 DEF Fits, SprTimerEvents
      <3>4. t = "CRC_RECEIVE" =>
              /\ AwaitsPhy(q) /\ q.tim[0] # "CRC_RECEIVE"
              /\ q.retry = NRetry => Stage(s) = "CONTRACT"
        BY DEF Fits, Exhausted, AwaitsPhy
      <3>5. Untold(q, v) /\ (v.snk = "HARD_RESET" \/ Talks(v, s, e, NONE))
        BY <2>2, <3>1, <3>2, <3>3, <3>4, TimerConverses DEF Fits, Fitting
      <3>6. Hushed(q, v)
        BY <1>1, <2>2, <3>2, <3>3, <3>4, TimerLinks DEF Fits
      <3>7. Steady(v) /\ Guarded(v) /\ v.rxMsg = q.rxMsg
        BY <3>6 DEF Hushed, Handles
      <3>8. e = "MSG_RX_COMPLETE" => v.rxMsg.kind # "GoodCRC" /\ v.rxMsg = s.out
        BY <2>2, <3>7 DEF Fits, Fitting
      <3>9. ~Handing(s)
        BY <3>1 DEF Talks, HandsUp, NONE
      <3>10. Stores(v) /\ v.passedUp = FALSE
        BY <1>1, <3>5, <3>7, SteadyPort DEF Untold
      <3> HIDE DEF v
      <3>11. CASE v.snk = "HARD_RESET"
        <4>1. \/ x = v \/ Adds(v, x)
              \/ x.snk = v.snk
          BY <3>1, <3>7, <3>8, PhyLinks DEF PhyEvents, HardResets, NONE
        <4>2. x.snk = "HARD_RESET"
          BY <3>11, <4>1 DEF Adds
        <4>3. x.passedUp = FALSE
          <5>1. Told(v, e, x)
            BY <3>10, PhyTells
          <5> QED
            BY <3>1, <3>10, <5>1 DEF Told, Untold, NONE
        <4> QED
          BY <1>1, <3>9, <4>2, <4>3 DEF Ends, Taken, InTurn
      <3>12. CASE v.snk # "HARD_RESET"
        <4>1. CASE e = "MSG_RX_COMPLETE"
          <5>1. MsgRxComplete(v).passedUp = FALSE /\ InStep(MsgRxComplete(v), s, NONE, NONE)
            BY <3>5, <3>7, <3>8, <3>12, <4>1, RxConverses
          <5>2. x = MsgRxComplete(v)
            BY <4>1 DEF PhyDelta
          <5> QED
            BY <1>1, <3>9, <5>1, <5>2, TakesNothing
        <4>2. CASE e = "CONN_DETECTED"
          <5>1. TxOk(v).passedUp = FALSE /\ InStep(TxOk(v), s, NONE, NONE)
            BY <3>5, <3>12, <4>2, TxOkConverses
          <5>2. x = TxOk(v)
            BY <4>2 DEF PhyDelta
          <5> QED
            BY <1>1, <3>9, <5>1, <5>2, TakesNothing
        <4>3. CASE e = NONE
          <5>1. x = v /\ InStep(v, s, NONE, NONE)
            BY <3>5, <3>12, <4>3 DEF PhyDelta, NONE, Talks
          <5> QED
            BY <1>1, <3>9, <3>10, <5>1, TakesNothing
        <4> QED
          BY <3>1, <4>1, <4>2, <4>3
      <3> QED
        BY <3>11, <3>12
    <2> QED
      BY <2>1, <2>2
  <1> HIDE DEF x
  <1> QED
    BY <1>5, <1>7, <1>9, DpmConverses


-----------------------------------------------------------------------------
\* The conversation, step by step

\* The fields that the conversation does not look at
Outside == {"txAllowed", "tim", "sinkTxOk", "dpm_event", "callback", "vS0_to_vS5"}

\* The source says and hears nothing.
Unheard ==
  /\ src'.turn = src.turn /\ src'.id = src.id /\ src'.seen = src.seen /\ src'.out = src.out
  /\ src'.next = src.next /\ src'.got = src.got /\ src'.acked = src.acked

LEMMA OutsideSame ==
  ASSUME LinkInv, Only(p, p', Outside \cup {"air"})
  PROVE  SameTalk(p, p') /\ p'.cad = p.cad /\ p'.passedUp = p.passedUp
  <1>1. DOMAIN p = Fields
    BY LinkFacts
  <1> QED
    BY <1>1 DEF Only, Outside, Fields, SameTalk, SameContract

LEMMA UnheardIs ==
  ASSUME LinkInv,
         \/ src' = src
         \/ \E x : src' = [src EXCEPT !.owes = x]
         \/ \E x : src' = [src EXCEPT !.tries = x]
         \/ \E x, y : src' = [src EXCEPT !.owes = x, !.mistaken = y]
  PROVE  Unheard
  <1>1. DOMAIN src = SourceFields
    BY LinkFacts
  <1> QED
    BY <1>1 DEF Unheard, SourceFields

\* Nothing of the conversation changes but, at most, that what the port says has left it.
LEMMA UnheardConverses ==
  ASSUME LinkInv, Conversation, Unheard, Only(p, p', Outside \cup {"air"}), pwr' = pwr,
         phy' = phy \/ (phy = NONE /\ phy' \notin HardResets \cup {"MSG_RX_COMPLETE"}),
         tim' = "SINK_PPS_PERIODIC" =>
           tim = "SINK_PPS_PERIODIC" \/ (p.snk = "READY" /\ p.pps_contract = TRUE),
         Talking(p, src) => AcksAgree(p', src', phy')
  PROVE  Conversation'
  <1>1. SameTalk(p, p') /\ p'.cad = p.cad /\ p'.passedUp = p.passedUp
    BY OutsideSame
  <1>2. /\ p'.snk = p.snk /\ p'.tx = p.tx /\ p'.txKind = p.txKind /\ p'.rxMsg = p.rxMsg
        /\ p'.storedMID = p.storedMID /\ p'.explicit_contract = p.explicit_contract
        /\ p'.ams_first_sent = p.ams_first_sent
    BY <1>1 DEF SameTalk, SameContract
  <1>3. InTurn(src') /\ (Handing(src') <=> Handing(src)) /\ Stage(src') = Stage(src)
    BY DEF Conversation, Unheard, InTurn, Handing, Stage
  <1>4. phy = NONE => ~Handing(src)
    BY DEF Conversation, HandsUp, NONE
  <1>5. HandsUp(p', src', phy')
    BY <1>2, <1>3, <1>4 DEF Conversation, HandsUp, Unheard, UnderContract
  <1>6. OffAgrees(p', src', phy')
    BY <1>2 DEF Conversation, OffAgrees, Unheard
  <1>7. Talking(p', src') <=> Talking(p, src)
    BY <1>1, <1>2 DEF Talking, Unheard
  <1>8. Talking(p, src) => InStep(p', src', phy', tim')
    <2> SUFFICES ASSUME Talking(p, src) PROVE InStep(p', src', phy', tim')
      OBVIOUS
    <2>1. InStep(p, src, phy, tim)
      BY DEF Conversation
    <2>2. Content(p, src, tim) => Content(p', src', tim')
      BY <1>1 DEF Content, SameTalk, SameContract, Unheard, AwaitsPhy
    <2>3. IDsFollow(p', src', tim')
      BY <1>2, <1>3, <2>1, <2>2 DEF InStep, IDsFollow, Unheard
    <2>4. ~Handing(src) => Matches(p', src', Stage(src'))
      BY <1>1, <1>3, <2>1
      DEF InStep, Matches, SameTalk, SameContract, UnderContract, AwaitsPhy, Unheard
    <2> QED
      BY <1>3, <2>3, <2>4 DEF InStep
  <1>9. pwr' = "VBUS_REMOVED" => src'.turn = "DEAD" \/ phy' \in HardResets
    BY DEF Conversation, Unheard, HardResets, NONE
  <1> QED
    BY <1>1, <1>2, <1>3, <1>5, <1>6, <1>7, <1>8, <1>9 DEF Conversation, Unheard

\* ... while what the port says and what the PHY reports stay the same, or go away.
LEMMA QuietConverses ==
  ASSUME LinkInv, Conversation, Unheard, Only(p, p', Outside \cup {"air"}), pwr' = pwr,
         p'.air \in {p.air, NoMessage},
         phy' = phy \/ (phy = NONE /\ phy' \in {"CONN_DETECTED", "MSG_TX_DISCARDED"}),
         tim' = "SINK_PPS_PERIODIC" =>
           tim = "SINK_PPS_PERIODIC" \/ (p.snk = "READY" /\ p.pps_contract = TRUE)
  PROVE  Conversation'
  <1>1. SameTalk(p, p')
    BY OutsideSame
  <1>2. Sends(p') => Sends(p) /\ p'.air = p.air
    BY DEF Sends, NoMessage
  <1>3. Talking(p, src) => AcksAgree(p', src', phy')
    <2> SUFFICES ASSUME AcksAgree(p, src, phy) PROVE AcksAgree(p', src', phy')
      BY DEF Conversation, InStep
    <2>1. Acks(p', phy') => Acks(p, phy) /\ (phy' = "MSG_TX_COMPLETED" <=> phy = "MSG_TX_COMPLETED")
      BY <1>1, <1>2 DEF Acks, SameTalk, NONE
    <2>2. phy' = "MSG_RX_COMPLETE" => phy = "MSG_RX_COMPLETE"
      OBVIOUS
    <2> QED
      BY <1>1, <1>2, <2>1, <2>2 DEF AcksAgree, SameTalk, Unheard
  <1>4. phy' \in {"CONN_DETECTED", "MSG_TX_DISCARDED"} =>
          phy' \notin HardResets \cup {"MSG_RX_COMPLETE"}
    BY DEF HardResets
  <1> QED
    BY <1>3, <1>4, UnheardConverses

-----------------------------------------------------------------------------
\* The steps that the conversation does not hear

\* A message begins: at most what the port was saying is broken off.
LEMMA SpokenTalks ==
  ASSUME LinkInv, NEW m, Speak(m), WireFree
  PROVE  /\ Only(p, p', {"txAllowed", "air"}) /\ p'.air = NoMessage
         /\ phy = NONE /\ phy' \in {NONE, "MSG_TX_DISCARDED"} /\ wire' = m
  <1>1. DOMAIN p = Fields
    BY LinkFacts
  <1> QED
    BY <1>1, ZenonT(60) DEF Speak, PostPhy, WireFree, Only, Fields

LEMMA QuietSpeech ==
  ASSUME LinkInv, Conversation, SourceGoodCRC \/ SourceRetries
  PROVE  Conversation'
  <1>1. WireFree /\ (\E m : Speak(m)) /\ pwr' = pwr /\ tim' = tim
    BY DEF SourceGoodCRC, SourceRetries, GoodCRCMissed
  <1>2. /\ Only(p, p', {"txAllowed", "air"}) /\ p'.air = NoMessage
        /\ phy = NONE /\ phy' \in {NONE, "MSG_TX_DISCARDED"}
    BY <1>1, SpokenTalks
  <1>3. Only(p, p', Outside \cup {"air"})
    BY <1>2, OnlyGrows DEF Outside
  <1>4. Unheard
    BY UnheardIs DEF SourceGoodCRC, SourceRetries
  <1> QED
    BY <1>1, <1>2, <1>3, <1>4, QuietConverses

LEMMA QuietConnection ==
  ASSUME LinkInv, Conversation, SinkTx \/ \E request : RequestAsync(request)
  PROVE  Conversation'
  <1>1. /\ pwr' = pwr /\ tim' = tim /\ src' = src
        /\ phy' = phy \/ (phy = NONE /\ phy' = "CONN_DETECTED")
    BY DEF SinkTx, RequestAsync, PostPhy
  <1>2. Only(p, p', Outside \cup {"air"}) /\ p'.air = p.air
    BY LinkFacts DEF SinkTx, RequestAsync, Only, Fields, Outside
  <1>3. Unheard
    BY <1>1, UnheardIs
  <1> QED
    BY <1>1, <1>2, <1>3, QuietConverses

LEMMA QuietTimer ==
  ASSUME LinkInv, Conversation, NEW c \in {0, 1}, UCPD_TIM_Expired(c), Pace # "RACE"
  PROVE  Conversation'
  <1>1. /\ tim = NONE /\ p.tim[c] # NONE /\ tim' = UCPD_TIMERS_EVENTS(p.tim[c])
        /\ pwr' = pwr /\ phy' = phy /\ src' = src /\ phy = NONE /\ p.air = NoMessage
        /\ p' = [p EXCEPT !.tim[c] = NONE]
    BY DEF UCPD_TIM_Expired, MayExpire, Quiet
  <1>2. Only(p, p', Outside \cup {"air"}) /\ p'.air = p.air
    BY <1>1, LinkFacts DEF Only, Fields, Outside
  <1>3. Unheard
    BY <1>1, UnheardIs
  <1>4. /\ p.tim \in TimType
        /\ p.tim[0] \in Channel0 \cup {NONE} /\ p.tim[1] \in Channel1 \cup {NONE}
    <2>1. p.tim \in TimType
      BY LinkFacts DEF Port
    <2> QED
      BY <2>1, TimerType, Channels DEF Timers
  <1>5. tim' = "SINK_PPS_PERIODIC" => p.snk = "READY" /\ p.pps_contract = TRUE
    <2>1. CASE c = 0
      <3>1. p.tim[0] \in Channel0
        BY <1>1, <1>4, <2>1
      <3> QED
        BY <1>1, <2>1, <3>1 DEF Channel0, UCPD_TIMERS_EVENTS
    <2>2. CASE c = 1
      BY <1>1, <2>2, LinkFacts DEF Sound, Spr, SprTimers
    <2> QED
      BY <2>1, <2>2
  <1> QED
    BY <1>1, <1>2, <1>3, <1>5, QuietConverses

-----------------------------------------------------------------------------
\* The steps of the source

\* What the source says leads from one turn to another.
LEMMA SaysLeads ==
  ASSUME LinkInv, InTurn(src), NEW say \in Says(src)
  PROVE  /\ say[1] \in SprRx /\ src.turn \in Leads[say[1]] /\ say[2] = Follows[say[1]]
         /\ src.turn \in OpenTurns
  BY StackAssumption
  DEF LinkInv, SprSource, SprTurns, InTurn, Says, SprRx, Leads, Follows, OpenTurns

LEMMA SpeaksConverses ==
  ASSUME LinkInv, CountInv, Conversation, SourceSpeaks
  PROVE  Conversation'
  <1> DEFINE M(say) == [kind |-> say[1],
                        id |-> IF say[1] = "Soft_Reset" THEN 0 ELSE src.id,
                        chunk |-> IF src.turn = "CHUNK" THEN 1 ELSE 0]
  <1>1. PICK say \in Says(src) :
          /\ Speak(M(say))
          /\ src' = [src EXCEPT !.out = M(say), !.id = M(say).id, !.next = say[2],
                                !.tries = 0, !.got = 0, !.acked = FALSE,
                                !.seen = IF say[1] = "Soft_Reset" THEN NoMID ELSE @]
    BY DEF SourceSpeaks
  <1> DEFINE m == M(say)
  <1>2. m.kind = say[1] /\ m.id = (IF say[1] = "Soft_Reset" THEN 0 ELSE src.id) /\ m = M(say)
    OBVIOUS
  <1> HIDE DEF m, M
  <1>3. /\ WireFree /\ p.cad = "ATTACHED" /\ src.out = NoMessage /\ pwr' = pwr /\ tim' = tim
        /\ InTurn(src)
    BY DEF SourceSpeaks, Conversation
  <1>4. /\ m.kind \in SprRx /\ src.turn \in Leads[m.kind] /\ say[2] = Follows[m.kind]
        /\ src.turn \in OpenTurns
    BY <1>2, <1>3, SaysLeads
  <1>5. /\ Only(p, p', {"txAllowed", "air"}) /\ p'.air = NoMessage
        /\ phy = NONE /\ phy' \in {NONE, "MSG_TX_DISCARDED"}
    BY <1>1, <1>2, <1>3, SpokenTalks
  <1>6. SameTalk(p, p') /\ p'.cad = p.cad /\ p'.passedUp = p.passedUp
    <2>1. Only(p, p', Outside \cup {"air"})
      BY <1>5, OnlyGrows DEF Outside
    <2> QED
      BY <2>1, OutsideSame
  <1>7. /\ src'.turn = src.turn /\ src'.out = m /\ src'.id = m.id /\ src'.next = say[2]
        /\ src'.got = 0 /\ src'.acked = FALSE
        /\ src'.seen = IF m.kind = "Soft_Reset" THEN NoMID ELSE src.seen
    <2>1. DOMAIN src = SourceFields
      BY LinkFacts
    <2> QED
      BY <1>1, <1>2, <2>1 DEF SourceFields
  <1>8. m # NoMessage /\ m.kind # NONE
    BY <1>4 DEF SprRx, NoMessage, NONE
  <1>9. m.id \in MessageIDs /\ p.mid \in MessageIDs /\ p.mid # NoMID
    <2>1. src.id \in MessageIDs /\ 0 \in MessageIDs
      BY <1>3, CountFacts DEF InTurn, MessageIDs
    <2> QED
      BY <1>2, <2>1, CountFacts, NoMIDIsNone
  <1>10. InTurn(src')
    BY <1>3, <1>4, <1>7, <1>9 DEF InTurn
  <1>11. ~Handing(src') /\ ~Handing(src) /\ Stage(src') = src.turn /\ Stage(src) = src.turn
    BY <1>3, <1>5, <1>7 DEF Conversation, HandsUp, Handing, Stage, NONE
  <1>12. src.turn \notin {"OFF", "DEAD"} /\ pwr # "VBUS_REMOVED" /\ phy' \notin HardResets
    BY <1>4, <1>5 DEF OpenTurns, Conversation, HardResets, NONE
  <1>13. ASSUME Talking(p', src') PROVE InStep(p', src', phy', tim')
    <2>1. InStep(p, src, phy, tim)
      BY <1>6, <1>7, <1>13 DEF Conversation, Talking, SameTalk
    <2>2. m.kind # "Soft_Reset" /\ Content(p, src, tim) => Content(p', src', tim')
      BY <1>3, <1>6, <1>7 DEF Content, SameTalk, SameContract, AwaitsPhy
    <2>3. IDsFollow(p', src', tim')
      BY <1>2, <1>3, <1>6, <1>7, <1>8, <1>11, <2>1, <2>2 DEF InStep, IDsFollow, SameTalk
    <2>4. AcksAgree(p', src', phy')
      BY <1>5, SilentAir DEF AcksAgree, Acks, NONE
    <2>5. Matches(p', src', Stage(src'))
      <3>1. Matches(p, src, src.turn)
        BY <1>11, <2>1 DEF InStep
      <3>2. CASE m.kind # "Soft_Reset"
        BY <1>6, <1>7, <1>11, <3>1, <3>2
        DEF Matches, SameTalk, SameContract, AwaitsPhy, UnderContract
      <3>3. CASE m.kind = "Soft_Reset"
        <4>1. src.turn = "CONTRACT"
          BY <1>4, <3>3 DEF Leads
        <4> QED
          BY <1>6, <1>7, <1>9, <1>11, <3>1, <3>3, <4>1
          DEF Matches, SameTalk, SameContract, AwaitsPhy, UnderContract
      <3> QED
        BY <3>2, <3>3
    <2> QED
      BY <2>3, <2>4, <2>5 DEF InStep
  <1>14. /\ p'.storedMID = p.storedMID /\ p'.rxMsg = p.rxMsg
    BY <1>6 DEF SameTalk
  <1>15. HandsUp(p', src', phy') /\ OffAgrees(p', src', phy')
    BY <1>7, <1>11, <1>12 DEF HandsUp, OffAgrees
  <1> QED
    BY <1>3, <1>6, <1>7, <1>10, <1>12, <1>13, <1>14, <1>15 DEF Conversation

LEMMA ReceivedConverses ==
  ASSUME LinkInv, CountInv, Conversation, Received
  PROVE  Conversation'
  <1>1. /\ wire # NoMessage /\ phy = NONE /\ pwr' = pwr /\ tim' = tim /\ src' = src
        /\ \/ /\ p' = [p EXCEPT !.txAllowed = TRUE, !.rxMsg = wire]
              /\ phy' = "MSG_RX_COMPLETE"
           \/ p' = [p EXCEPT !.txAllowed = TRUE] /\ phy' = phy
    BY DEF Received, PostPhy
  <1>2. DOMAIN p = Fields
    BY LinkFacts
  <1>3. CASE p' = [p EXCEPT !.txAllowed = TRUE] /\ phy' = phy
    <2>1. Only(p, p', Outside \cup {"air"}) /\ p'.air = p.air
      BY <1>2, <1>3 DEF Only, Fields, Outside
    <2>2. Unheard
      BY <1>1, UnheardIs
    <2> QED
      BY <1>1, <1>3, <2>1, <2>2, QuietConverses
  <1>4. CASE p' = [p EXCEPT !.txAllowed = TRUE, !.rxMsg = wire] /\ phy' = "MSG_RX_COMPLETE"
    <2>1. /\ p'.rxMsg = wire /\ p'.snk = p.snk /\ p'.tx = p.tx /\ p'.txKind = p.txKind
          /\ p'.mid = p.mid /\ p'.storedMID = p.storedMID /\ p'.air = p.air /\ p'.cad = p.cad
          /\ p'.passedUp = p.passedUp /\ SameContract(p, p')
      BY <1>2, <1>4 DEF Fields, SameContract
    <2>2. ~Sends(p') /\ src.turn \notin {"OFF", "DEAD"} /\ p.cad = "ATTACHED"
      BY <1>1, <2>1 DEF LinkInv, WireAgrees, Detached, Sends
    <2>3. /\ wire.kind = "GoodCRC" => wire.id = p.mid /\ src.seen = p.mid
          /\ wire.kind # "GoodCRC" => wire = src.out /\ src.out # NoMessage
      BY <1>1 DEF CountInv, IDsAgree
    <2>4. wire.id \in MessageIDs
      BY <2>3, CountFacts DEF Conversation, InTurn
    <2>5. ~Handing(src) /\ pwr # "VBUS_REMOVED" /\ phy' \notin HardResets
      BY <1>1, <1>4, <2>2 DEF Conversation, HandsUp, HardResets, NONE
    <2>6. ASSUME Talking(p', src') PROVE InStep(p', src', phy', tim')
      <3>1. InStep(p, src, phy, tim) /\ InTurn(src)
        BY <1>1, <2>1, <2>6 DEF Conversation, Talking
      <3>2. IDsFollow(p', src', tim')
        BY <1>1, <2>1, <3>1 DEF InStep, IDsFollow, Content, AwaitsPhy, SameContract
      <3>3. AcksAgree(p', src', phy')
        BY <1>1, <1>4, <2>1, <2>2, <2>3 DEF AcksAgree, Acks
      <3>4. Matches(p', src', Stage(src'))
        <4>1. Matches(p, src, Stage(src)) /\ Stage(src') = Stage(src)
          BY <1>1, <2>5, <3>1 DEF InStep
        <4>2. ASSUME Stage(src) = "REQUEST"
              PROVE  p.storedMID = wire.id /\ wire.kind = "SourceCaps"
          <5>1. wire = src.out /\ src.out # NoMessage
            BY <2>3, <4>1, <4>2 DEF Matches
          <5>2. src.turn # "REQUEST"
            BY <3>1, <5>1 DEF InTurn, Leads, SprRx
          <5>3. src.got = 1 /\ src.next = "REQUEST"
            BY <4>2, <5>1, <5>2 DEF Stage
          <5>4. src.out.kind = "SourceCaps" /\ src.out.id = src.id
            BY <3>1, <5>1, <5>3 DEF InTurn, Follows, SprRx
          <5> QED
            BY <3>1, <5>1, <5>3, <5>4 DEF InStep, IDsFollow
        <4> QED
          BY <1>1, <2>1, <4>1, <4>2 DEF Matches, AwaitsPhy, UnderContract, SameContract
      <3> QED
        BY <3>2, <3>3, <3>4 DEF InStep
    <2>7. HandsUp(p', src', phy') /\ OffAgrees(p', src', phy')
      BY <1>1, <2>2, <2>5 DEF HandsUp, OffAgrees
    <2> QED
      BY <1>1, <2>1, <2>2, <2>4, <2>5, <2>6, <2>7 DEF Conversation
  <1> QED
    BY <1>1, <1>3, <1>4

-----------------------------------------------------------------------------
\* Resets and VBUS

LEMMA ResetConverses ==
  ASSUME LinkInv, LinkInv', CountInv, Conversation, HardResetTransmitted \/ SourceHardReset
  PROVE  Conversation'
  <1>1. /\ pwr' = pwr /\ phy' \in HardResets
        /\ \/ p' = [p EXCEPT !.air = NoMessage]
           \/ p' = [p EXCEPT !.hardResetActive = TRUE, !.txAllowed = FALSE, !.air = NoMessage]
    BY DEF HardResetTransmitted, SourceHardReset, PostPhy, HardResets
  <1>2. /\ p'.cad = p.cad /\ p'.storedMID = p.storedMID /\ p'.rxMsg = p.rxMsg
        /\ p'.passedUp = p.passedUp
    BY <1>1, LinkFacts, ZenonT(60) DEF Fields
  <1>3. p'.cad = "ATTACHED"
    BY <1>1 DEF LinkInv, Detached, HardResets, NONE
  <1>4. /\ src'.turn = "OFF" /\ src'.id = 0 /\ src'.got = 0 /\ src'.acked = FALSE
        /\ src'.out = NoMessage
    BY DEF HardResetTransmitted, SourceHardReset, NewSource
  <1>5. InTurn(src') /\ ~Handing(src') /\ ~Talking(p', src')
    <2>1. 0 \in MessageIDs
      BY PortAssumption DEF MessageIDs
    <2> QED
      BY <1>4, <2>1 DEF InTurn, Handing, Talking
  <1>6. HandsUp(p', src', phy') /\ OffAgrees(p', src', phy')
    BY <1>1, <1>4, <1>5 DEF HandsUp, OffAgrees, HardResets
  <1> QED
    BY <1>1, <1>2, <1>3, <1>4, <1>5, <1>6 DEF Conversation

LEMMA VbusConverses ==
  ASSUME LinkInv, CountInv, Conversation, VbusRemoved \/ VbusReturns
  PROVE  Conversation'
  <1>1. /\ phy = NONE /\ phy' = NONE
        /\ \/ p' = [p EXCEPT !.vS0_to_vS5 = FALSE]
           \/ p' = [p EXCEPT !.vS0_to_vS5 = TRUE]
    BY DEF VbusRemoved, VbusReturns, CountInv, SlotAgrees
  <1>2. /\ p'.cad = p.cad /\ p'.storedMID = p.storedMID /\ p'.rxMsg = p.rxMsg
        /\ p'.passedUp = p.passedUp
    BY <1>1, LinkFacts, ZenonT(60) DEF Fields
  <1>3. CASE VbusRemoved
    <2>1. /\ src'.turn = "DEAD" /\ src'.id = 0 /\ src'.got = 0 /\ src'.acked = FALSE
          /\ src'.out = NoMessage /\ pwr' = "VBUS_REMOVED"
      BY <1>3 DEF VbusRemoved, NewSource
    <2>2. InTurn(src') /\ ~Handing(src') /\ ~Talking(p', src')
      <3>1. 0 \in MessageIDs
        BY PortAssumption DEF MessageIDs
      <3> QED
        BY <2>1, <3>1 DEF InTurn, Handing, Talking
    <2>3. HandsUp(p', src', phy') /\ OffAgrees(p', src', phy')
      BY <1>1, <2>1, <2>2 DEF HandsUp, OffAgrees, HardResets, NONE
    <2> QED
      BY <1>2, <2>1, <2>2, <2>3 DEF Conversation
  <1>4. CASE VbusReturns
    <2>1. /\ src.turn = "DEAD" /\ src' = [src EXCEPT !.turn = "CAPS"]
          /\ pwr = NONE /\ p.air = NoMessage /\ pwr' = "VBUS_DETECTED"
      BY <1>4 DEF VbusReturns
    <2>2. p.snk # "HARD_RESET"
      <3>1. Steady(p)
        BY <1>1 DEF LinkInv, PhyAgrees, HardResets, NONE
      <3> QED
        BY <2>1, <3>1 DEF Steady, NoMessage, NONE
    <2>3. p.cad = "UNATTACHED"
      BY <2>1, <2>2 DEF Conversation, NONE
    <2>4. src.acked = FALSE /\ src.out = NoMessage /\ InTurn(src)
      BY <2>1, <2>3 DEF Conversation, LinkInv, Detached
    <2>5. /\ src'.turn = "CAPS" /\ src'.id = src.id /\ src'.got = src.got
          /\ src'.acked = FALSE /\ src'.out = NoMessage
      BY <2>1, <2>4, LinkFacts DEF SourceFields
    <2>6. InTurn(src') /\ ~Handing(src') /\ ~Talking(p', src')
      BY <1>2, <2>3, <2>4, <2>5 DEF InTurn, Handing, Talking
    <2>7. HandsUp(p', src', phy') /\ OffAgrees(p', src', phy')
      BY <1>1, <2>5, <2>6 DEF HandsUp, OffAgrees, HardResets, NONE
    <2> QED
      BY <1>2, <2>1, <2>3, <2>5, <2>6, <2>7 DEF Conversation
  <1> QED
    BY <1>3, <1>4

\* A port that is attached waits for the capabilities, and has neither stored nor said anything.
LEMMA AttachTalks ==
  /\ Attach.snk = "WAIT_FOR_CAPABILITIES" /\ Attach.tx = "WAIT_FOR_MESSAGE_REQUEST"
  /\ Attach.storedMID = NoMID /\ Attach.passedUp = FALSE /\ Attach.air = NoMessage
  /\ Attach.txKind = NONE /\ Attach.mid = 0 /\ Attach.retry = 0
  <1> DEFINE a == Go(NewPort, "STARTUP")
             b == [a EXCEPT !.hrdOriginPE = FALSE, !.epr_mode = FALSE]
             c == Go(b, "DISCOVERY")
             d == [c EXCEPT !.vS0_to_vS5 = FALSE]
             e == Go(d, "WAIT_FOR_CAPABILITIES")
             Same(q) ==
               /\ DOMAIN q = Fields
               /\ q.tx = "WAIT_FOR_MESSAGE_REQUEST" /\ q.storedMID = NoMID
               /\ q.passedUp = FALSE /\ q.air = NoMessage /\ q.txKind = NONE
               /\ q.mid = 0 /\ q.retry = 0
  <1>1. Same(NewPort) /\ NewPort.snk = NONE /\ NewPort.vS0_to_vS5 = TRUE
    BY DEF NewPort, Fields, NONE
  <1>2. ASSUME NEW q, q.snk \in {NONE, "STARTUP", "DISCOVERY"}, NEW state
        PROVE  Go(q, state) = [q EXCEPT !.snk = state]
    BY <1>2 DEF Go, UCPD_PE_SM_SNK_Exit, NONE
  <1>3. Attach = LeaveDiscovery(c)
    BY DEF Attach, EnterStartup, EnterDiscovery
  <1>4. a = [NewPort EXCEPT !.snk = "STARTUP"]
    BY <1>1, <1>2
  <1> HIDE DEF a
  <1>5. Same(a) /\ a.snk = "STARTUP" /\ a.vS0_to_vS5 = TRUE
    BY <1>1, <1>4 DEF Fields
  <1>6. Same(b) /\ b.snk = "STARTUP" /\ b.vS0_to_vS5 = TRUE
    BY <1>5 DEF Fields
  <1> HIDE DEF b
  <1>7. c = [b EXCEPT !.snk = "DISCOVERY"]
    BY <1>2, <1>6
  <1> HIDE DEF c
  <1>8. Same(c) /\ c.snk = "DISCOVERY" /\ c.vS0_to_vS5 = TRUE
    BY <1>6, <1>7 DEF Fields
  <1>9. Attach = UCPD_TIM_Start([e EXCEPT !.explicit_contract = FALSE], "SINK_WAIT_CAP")
    BY <1>3, <1>8 DEF LeaveDiscovery, EnterWaitForCapabilities
  <1>10. Same(d) /\ d.snk = "DISCOVERY"
    BY <1>8 DEF Fields
  <1> HIDE DEF d
  <1>11. e = [d EXCEPT !.snk = "WAIT_FOR_CAPABILITIES"]
    BY <1>2, <1>10
  <1> HIDE DEF e
  <1>12. Same(e) /\ e.snk = "WAIT_FOR_CAPABILITIES"
    BY <1>10, <1>11 DEF Fields
  <1> QED
    BY <1>9, <1>12 DEF UCPD_TIM_Start, Fields

LEMMA ReattachConverses ==
  ASSUME LinkInv, CountInv, Conversation, Reattach
  PROVE  Conversation'
  <1>1. /\ p.cad = "UNATTACHED" /\ p' = Attach /\ pwr' = pwr /\ pwr = NONE
        /\ phy' = phy /\ tim' = tim /\ src' = src /\ src.turn # "DEAD"
    BY DEF Reattach
  <1>2. phy = NONE /\ tim = NONE /\ src.out = NoMessage
    BY <1>1 DEF LinkInv, Detached
  <1>3. src.turn = "CAPS" /\ src.acked = FALSE /\ InTurn(src)
    BY <1>1 DEF Conversation
  <1>4. /\ p'.snk = "WAIT_FOR_CAPABILITIES" /\ p'.storedMID = NoMID /\ p'.passedUp = FALSE
        /\ p'.air = NoMessage /\ p'.cad = "ATTACHED" /\ p'.rxMsg.id \in MessageIDs
    <2>1. 0 \in MessageIDs
      BY PortAssumption DEF MessageIDs
    <2> QED
      BY <1>1, <2>1, AttachTalks, AttachLinks DEF NoMessage
  <1>5. ~Handing(src) /\ Stage(src) = "CAPS"
    BY <1>2, <1>3 DEF Handing, Stage
  <1>6. InStep(p', src', phy', tim')
    BY <1>1, <1>2, <1>3, <1>4, <1>5, SilentAir
    DEF InStep, IDsFollow, AcksAgree, Acks, Matches, NONE
  <1>7. HandsUp(p', src', phy') /\ OffAgrees(p', src', phy')
    BY <1>1, <1>2, <1>3, <1>5 DEF HandsUp, OffAgrees, HardResets, NONE
  <1> QED
    BY <1>1, <1>3, <1>4, <1>6, <1>7 DEF Conversation, NONE

-----------------------------------------------------------------------------
\* A message of the port has left it

LEMMA TransmittedPort ==
  ASSUME LinkInv, CountInv, Conversation, Transmitted
  PROVE  /\ Only(p, p', {"txAllowed", "air"}) /\ p'.air = NoMessage
         /\ SameTalk(p, p') /\ p'.cad = "ATTACHED" /\ p'.passedUp = FALSE
         /\ Sends(p) /\ Sound(p) /\ p.snk # "HARD_RESET" /\ p.cad = "ATTACHED"
         /\ p.air.kind = p.txKind
         /\ phy = NONE /\ phy' = "MSG_TX_COMPLETED" /\ tim = NONE /\ tim' = NONE
         /\ ~Handing(src) /\ pwr' = pwr
         /\ pwr \in {NONE, "VBUS_REMOVED"} /\ (pwr = "VBUS_REMOVED" => src.turn = "DEAD")
         /\ src.turn \notin {"OFF", "DEAD"} => Talking(p, src) /\ InStep(p, src, NONE, NONE)
  <1>1. /\ WireFree /\ Sends(p) /\ pwr' = pwr /\ tim' = tim
        /\ p' = [p EXCEPT !.txAllowed = TRUE, !.air = NoMessage]
    BY DEF Transmitted, Sends
  <1>2. Only(p, p', {"txAllowed", "air"}) /\ p'.air = NoMessage
    BY <1>1, LinkFacts DEF Only, Fields
  <1>3. SameTalk(p, p') /\ p'.cad = p.cad /\ p'.passedUp = p.passedUp
    <2>1. Only(p, p', Outside \cup {"air"})
      BY <1>2, OnlyGrows DEF Outside
    <2> QED
      BY <2>1, OutsideSame
  <1>4. /\ phy' = "MSG_TX_COMPLETED" /\ p.air.kind = p.txKind /\ p.cad = "ATTACHED"
    BY TransmittedFacts
  <1>5. phy = NONE /\ tim = NONE
    BY <1>1 DEF WireFree, LinkInv, WireAgrees
  <1>6. p.snk # "HARD_RESET" /\ Sound(p)
    <2>1. Steady(p)
      BY <1>5 DEF LinkInv, PhyAgrees, HardResets, NONE
    <2> QED
      BY <1>1, <2>1 DEF Steady, Sends
  <1>7. /\ ~Handing(src) /\ pwr \in {NONE, "VBUS_REMOVED"}
        /\ pwr = "VBUS_REMOVED" => src.turn = "DEAD"
    BY <1>4, <1>5 DEF Conversation, HandsUp, HardResets, NONE
  <1>8. src.turn \notin {"OFF", "DEAD"} => Talking(p, src) /\ InStep(p, src, NONE, NONE)
    BY <1>4, <1>5, <1>6 DEF Conversation, Talking
  <1> QED
    BY <1>1, <1>2, <1>3, <1>4, <1>5, <1>6, <1>7, <1>8 DEF Conversation

\* The source misses it, or knows it already.
LEMMA UnheardTransmission ==
  ASSUME LinkInv, CountInv, Conversation, Transmitted, Unheard
  PROVE  Conversation'
  <1>1. /\ Only(p, p', {"txAllowed", "air"}) /\ p'.air = NoMessage /\ SameTalk(p, p')
        /\ Sends(p) /\ phy = NONE /\ phy' = "MSG_TX_COMPLETED" /\ tim' = NONE /\ pwr' = pwr
    BY TransmittedPort
  <1>2. Only(p, p', Outside \cup {"air"})
    BY <1>1, OnlyGrows DEF Outside
  <1>3. phy' \notin HardResets \cup {"MSG_RX_COMPLETE"}
    BY <1>1 DEF HardResets
  <1>4. AcksAgree(p, src, phy) => AcksAgree(p', src', phy')
    BY <1>1, SilentAir DEF AcksAgree, Acks, SameTalk, Unheard, NONE
  <1>5. Talking(p, src) => AcksAgree(p', src', phy')
    BY <1>4 DEF Conversation, InStep
  <1>6. tim' # "SINK_PPS_PERIODIC"
    BY <1>1 DEF NONE
  <1> QED
    BY <1>1, <1>2, <1>3, <1>5, <1>6, UnheardConverses

\* Only a port that waits until the next request may be sent, and one that receives, says a
\* GoodCRC.
LEMMA MuteRequests ==
  ASSUME NEW q, Sound(q), q.txKind = "GoodCRC", q.tx = "WAIT_FOR_PHY_RESPONSE", NEW s,
         Stage(s) \in OpenTurns, Matches(q, s, Stage(s))
  PROVE  Stage(s) = "REQUEST"
  BY DEF Sound, Matches, AwaitsPhy, OpenTurns

\* The GoodCRC reaches the source.
LEMMA GoodCRCHeard ==
  ASSUME LinkInv, CountInv, Conversation, Transmitted, p.txKind = "GoodCRC",
         src.out # NoMessage,
         \E x : src' = [src EXCEPT !.out = NoMessage, !.turn = src.next, !.acked = TRUE,
                                   !.id = NextMID(@), !.epr = x]
  PROVE  Conversation' /\ (src.got = 0 => p.tx # "WAIT_FOR_PHY_RESPONSE")
  <1>1. /\ SameTalk(p, p') /\ p'.cad = "ATTACHED" /\ p'.passedUp = FALSE /\ p'.air = NoMessage
        /\ Sends(p) /\ Sound(p) /\ p.snk # "HARD_RESET" /\ p.cad = "ATTACHED"
        /\ phy' = "MSG_TX_COMPLETED" /\ ~Handing(src) /\ pwr' = pwr
        /\ pwr \in {NONE, "VBUS_REMOVED"} /\ (pwr = "VBUS_REMOVED" => src.turn = "DEAD")
    BY TransmittedPort
  <1>2. src.turn \notin {"OFF", "DEAD"} /\ InTurn(src)
    BY DEF LinkInv, WireAgrees, Conversation
  <1>3. InStep(p, src, NONE, NONE)
    BY <1>2, TransmittedPort
  <1>4. /\ src'.out = NoMessage /\ src'.turn = src.next /\ src'.acked = TRUE
        /\ src'.id = NextMID(src.id) /\ src'.got = src.got /\ src'.seen = src.seen
    BY LinkFacts DEF SourceFields
  <1>5. /\ src.out.kind \in SprRx /\ src.out.id = src.id /\ src.id \in MessageIDs
        /\ src.turn \in Leads[src.out.kind] /\ src.next = Follows[src.out.kind]
        /\ src.got \in {0, 1}
    BY <1>2 DEF InTurn
  <1>6. src'.id \in MessageIDs
    BY <1>4, <1>5, PortAssumption DEF NextMID, MessageIDs
  <1>7. src.turn \in OpenTurns /\ src.turn # "REQUEST" /\ src.next \in OpenTurns
    BY <1>5 DEF SprRx, Leads, Follows, OpenTurns
  <1>8. InTurn(src')
    BY <1>4, <1>5, <1>6, <1>7 DEF InTurn, OpenTurns
  <1>9. Matches(p, src, Stage(src)) /\ Stage(src) \in OpenTurns
    BY <1>1, <1>2, <1>3, <1>7, StageOpen DEF InStep
  <1>10. p.tx # "WAIT_FOR_PHY_RESPONSE" => p.rxMsg = src.out /\ (src.got = 0 => p.storedMID # src.out.id)
    BY <1>1, <1>3 DEF InStep, AcksAgree, Acks
  <1>11. src'.turn \notin {"OFF", "DEAD", "SOFT"} /\ pwr # "VBUS_REMOVED"
    BY <1>1, <1>2, <1>4, <1>7 DEF OpenTurns
  <1>12. CASE src.got = 1
    <2>1. ~Handing(src') /\ Stage(src') = Stage(src) /\ Stage(src) = src.next
      BY <1>4, <1>12 DEF Handing, Stage
    <2>2. p.storedMID = src.id
      BY <1>3, <1>12 DEF InStep, IDsFollow
    <2>3. InStep(p', src', phy', tim')
      <3>1. IDsFollow(p', src', tim')
        BY <1>1, <1>4, <2>2 DEF IDsFollow, SameTalk
      <3>2. AcksAgree(p', src', phy')
        BY <1>1, <1>4, <1>5, <1>10, <2>2, SilentAir DEF AcksAgree, SameTalk
      <3>3. Matches(p', src', Stage(src'))
        BY <1>1, <1>4, <1>9, <2>1
        DEF Matches, SameTalk, SameContract, AwaitsPhy, UnderContract
      <3> QED
        BY <3>1, <3>2, <3>3 DEF InStep
    <2>4. HandsUp(p', src', phy') /\ OffAgrees(p', src', phy')
      BY <1>1, <1>11, <2>1 DEF HandsUp, OffAgrees, HardResets
    <2> QED
      BY <1>1, <1>8, <1>11, <1>12, <2>3, <2>4 DEF Conversation, SameTalk
  <1>13. CASE src.got = 0
    <2>1. Stage(src) = src.turn
      BY <1>13 DEF Stage
    <2>2. p.tx # "WAIT_FOR_PHY_RESPONSE"
      BY <1>1, <1>7, <1>9, <2>1, MuteRequests
    <2>3. p.rxMsg = src.out /\ p.storedMID # src.out.id
      BY <1>10, <1>13, <2>2
    <2>4. src.out.kind = "Unknown" => p.snk = "READY" /\ UnderContract(p)
      BY <1>5, <1>9, <2>1, <2>2 DEF Leads, Matches, AwaitsPhy
    <2>5. HandsUp(p', src', phy')
      BY <1>1, <1>4, <1>5, <2>2, <2>3, <2>4
      DEF HandsUp, SameTalk, SameContract, UnderContract
    <2>6. Handing(src') /\ OffAgrees(p', src', phy')
      BY <1>1, <1>4, <1>11, <1>13 DEF Handing, OffAgrees, HardResets
    <2>7. InStep(p', src', phy', tim')
      BY <1>1, <1>4, <1>13, <2>6, SilentAir DEF InStep, IDsFollow, AcksAgree
    <2> QED
      BY <1>1, <1>8, <1>11, <2>2, <2>5, <2>6, <2>7 DEF Conversation, SameTalk
  <1> QED
    BY <1>5, <1>12, <1>13

LEMMA SourceTakesNew ==
  ASSUME LinkInv, NEW m, m.kind \in {"Request", "Accept", "Not_Supported"}, m.id # src.seen,
         src' = SourceHears(src, m)
  PROVE  /\ src'.seen = m.id /\ src'.turn = Hears(m.kind) /\ src'.out = NoMessage
         /\ src'.id = IF src.out # NoMessage THEN NextMID(src.id) ELSE src.id
         /\ src'.got = src.got /\ src'.acked = src.acked
         /\ src'.surprised =
              (m.kind \notin Expects[src.turn] \cup
                 (IF src.out # NoMessage THEN Expects[src.next] ELSE {}) \cup {"Soft_Reset"})
  <1> DEFINE id == IF src.out # NoMessage THEN NextMID(src.id) ELSE src.id
             busy == IF src.out # NoMessage THEN Expects[src.next] ELSE {}
             surprised == m.kind \notin Expects[src.turn] \cup busy \cup {"Soft_Reset"}
             epr == src.epr /\ m.kind # "EPRExit"
  <1>1. src' = [src EXCEPT !.owes = m.id, !.seen = m.id, !.heard = m.kind,
                           !.turn = Hears(m.kind), !.out = NoMessage, !.id = id,
                           !.epr = epr, !.surprised = surprised]
    BY LinkFacts DEF SourceHears, SourceFields
  <1> HIDE DEF id, busy, surprised, epr
  <1>2. /\ src'.seen = m.id /\ src'.turn = Hears(m.kind) /\ src'.out = NoMessage
        /\ src'.id = id /\ src'.got = src.got /\ src'.acked = src.acked
        /\ src'.surprised = surprised
    BY <1>1, LinkFacts DEF SourceFields
  <1> QED
    BY <1>2 DEF id, busy, surprised

\* The source expects what the port says, and the port will be where the next turn asks for it.
LEMMA NewHeard ==
  ASSUME LinkInv, CountInv, Conversation, Transmitted, p.txKind # "GoodCRC",
         Listens(src, p.air), p.air.kind = "Soft_Reset" \/ p.air.id # src.seen,
         src' = SourceHears(src, p.air)
  PROVE  /\ Conversation' /\ src'.surprised = FALSE
         /\ src.out # NoMessage /\ src.out.kind = "Soft_Reset" => src.got = 1
  <1>1. /\ SameTalk(p, p') /\ p'.cad = "ATTACHED" /\ p'.passedUp = FALSE /\ p'.air = NoMessage
        /\ Sound(p) /\ p.snk # "HARD_RESET"
        /\ p.air.kind = p.txKind /\ tim' = NONE
        /\ phy' = "MSG_TX_COMPLETED" /\ ~Handing(src) /\ pwr' = pwr
        /\ pwr \in {NONE, "VBUS_REMOVED"} /\ (pwr = "VBUS_REMOVED" => src.turn = "DEAD")
    BY TransmittedPort
  <1>2. /\ AwaitsPhy(p) /\ p.air.id = p.mid /\ p.mid \in MessageIDs
        /\ p.txKind \in {"Request", "Accept", "Soft_Reset", "Not_Supported"}
    BY TransmittedFacts, CountFacts
  <1>3. src.turn \notin {"OFF", "DEAD"} /\ InTurn(src)
    BY DEF Listens, Conversation
  <1>4. InStep(p, src, NONE, NONE) /\ src.turn \in OpenTurns
    BY <1>3, TransmittedPort DEF LinkInv, SprSource, SprTurns, InTurn, OpenTurns
  <1>5. Matches(p, src, Stage(src)) /\ Stage(src) \in OpenTurns
    BY <1>1, <1>3, <1>4, StageOpen DEF InStep
  <1>6. p.snk \in Sending /\ p.txKind = Spoken[p.snk]
    BY <1>1, <1>2 DEF Sound, AwaitsPhy
  <1>7. p.snk # "SEND_SOFT_RESET"
    BY <1>5 DEF Matches, OpenTurns
  <1>8. p.txKind \in {"Request", "Accept", "Not_Supported"} /\ src.seen # p.mid
    BY <1>1, <1>2, <1>6, <1>7 DEF Sending, Spoken
  <1>9. /\ src'.seen = p.mid /\ src'.turn = Hears(p.txKind) /\ src'.out = NoMessage
        /\ src'.id = IF src.out # NoMessage THEN NextMID(src.id) ELSE src.id
        /\ src'.got = src.got /\ src'.acked = src.acked
        /\ src'.surprised =
              (p.txKind \notin Expects[src.turn] \cup
                 (IF src.out # NoMessage THEN Expects[src.next] ELSE {}) \cup {"Soft_Reset"})
    BY <1>1, <1>2, <1>8, SourceTakesNew
  \* What the port says, by the turn that it has come to
  <1>10. \/ /\ Stage(src) \in {"REQUEST", "CONTRACT"} /\ p.txKind = "Request"
            /\ p.snk = "SELECT_CAPABILITY"
         \/ /\ Stage(src) = "CONTRACT" /\ p.txKind = "Not_Supported"
            /\ p.snk = "SEND_NOT_SUPPORTED" /\ p.pps_contract = FALSE /\ UnderContract(p)
         \/ /\ Stage(src) = "RESET" /\ p.txKind = "Accept" /\ p.snk = "SOFT_RESET"
    BY <1>2, <1>5, <1>6, <1>7, <1>8 DEF Matches, AwaitsPhy, OpenTurns, Sending, Spoken
  <1>11. src'.surprised = FALSE
    <2>1. p.txKind \in Expects[Stage(src)]
      BY <1>10 DEF Expects
    <2>2. Stage(src) = src.turn \/ (src.out # NoMessage /\ Stage(src) = src.next)
      BY DEF Stage
    <2> QED
      BY <1>9, <2>1, <2>2
  <1>12. /\ src'.turn \in {"ANSWER", "CONTRACT", "CAPS"} /\ ~Handing(src')
         /\ Stage(src') = src'.turn
    BY <1>1, <1>8, <1>9 DEF Hears, Handing, Stage
  <1>13. src'.id \in MessageIDs /\ InTurn(src')
    <2>1. src'.id \in MessageIDs
      BY <1>3, <1>9, PortAssumption DEF InTurn, NextMID, MessageIDs
    <2> QED
      BY <1>3, <1>9, <1>12, <2>1 DEF InTurn
  <1>14. src.out # NoMessage /\ src.out.kind = "Soft_Reset" => src.got = 1
    <2> SUFFICES ASSUME src.out # NoMessage, src.out.kind = "Soft_Reset", src.got # 1
                 PROVE FALSE
      OBVIOUS
    <2>1. p.txKind = "Accept"
      BY <1>1, <1>8 DEF Listens
    <2>2. Stage(src) = "RESET" /\ Stage(src) = src.turn
      BY <1>10, <2>1 DEF Stage
    <2> QED
      BY <1>3, <2>2 DEF InTurn, Leads
  <1>15. IDsFollow(p', src', tim')
    <2>1. IDsFollow(p, src, NONE) /\ ~Content(p, src, NONE)
      BY <1>2, <1>4, <1>8 DEF InStep, Content
    <2>2. Content(p', src', tim')
      BY <1>1, <1>2, <1>6, <1>9
      DEF Content, SameTalk, SameContract, AwaitsPhy, Sending, NONE
    <2>3. p'.storedMID = p.storedMID
      BY <1>1 DEF SameTalk
    <2>4. CASE src.out # NoMessage /\ src.got = 1
      BY <1>9, <2>1, <2>3, <2>4 DEF IDsFollow
    <2>5. CASE ~(src.out # NoMessage /\ src.got = 1)
      <3>1. p.storedMID = NoMID \/ NextMID(p.storedMID) = src.id
            \/ (NextMID(NextMID(p.storedMID)) = src.id /\ Content(p, src, NONE))
        BY <1>1, <1>14, <2>1, <2>5 DEF IDsFollow
      <3> QED
        BY <1>9, <2>1, <2>2, <2>3, <3>1 DEF IDsFollow
    <2> QED
      BY <2>4, <2>5
  <1>16. AcksAgree(p', src', phy')
    BY <1>1, <1>2 DEF AcksAgree, Acks, SameTalk, AwaitsPhy
  <1>17. Matches(p', src', Stage(src'))
    <2>1. p.txKind = "Not_Supported" => src'.turn = "CONTRACT"
      BY <1>9 DEF Hears
    <2>2. p.txKind = "Request" => src'.turn = "ANSWER"
      BY <1>9 DEF Hears
    <2>3. p.txKind = "Accept" => src'.turn = "CAPS"
      BY <1>9 DEF Hears
    <2>4. p'.mid = p.mid /\ AwaitsPhy(p') /\ p'.snk = p.snk /\ p'.pps_contract = p.pps_contract
          /\ (UnderContract(p) => UnderContract(p'))
      BY <1>1, <1>2 DEF SameTalk, SameContract, AwaitsPhy, UnderContract
    <2> QED
      BY <1>9, <1>10, <1>12, <2>1, <2>2, <2>3, <2>4 DEF Matches
  <1>18. HandsUp(p', src', phy') /\ OffAgrees(p', src', phy')
    BY <1>1, <1>12 DEF HandsUp, OffAgrees, HardResets
  <1>19. pwr # "VBUS_REMOVED"
    BY <1>1, <1>3
  <1>20. Conversation'
    BY <1>1, <1>12, <1>13, <1>15, <1>16, <1>17, <1>18, <1>19
    DEF Conversation, SameTalk, InStep
  <1> QED
    BY <1>11, <1>14, <1>20

LEMMA TransmittedConverses ==
  ASSUME LinkInv, CountInv, Conversation, Transmitted
  PROVE  Conversation' /\ (NotSurprised => NotSurprised')
  <1>1. p.air.kind = p.txKind
    BY TransmittedPort
  <1>2. \/ src' = src
        \/ /\ p.txKind = "GoodCRC" /\ src.out # NoMessage
           /\ \E x : src' = [src EXCEPT !.out = NoMessage, !.turn = src.next, !.acked = TRUE,
                                        !.id = NextMID(@), !.epr = x]
        \/ /\ p.txKind # "GoodCRC" /\ Listens(src, p.air) /\ src' = SourceHears(src, p.air)
    BY <1>1, ZenonT(60) DEF Transmitted
  <1>3. CASE src' = src
    BY <1>3, UnheardIs, UnheardTransmission DEF NotSurprised
  <1>4. ASSUME p.txKind = "GoodCRC", src.out # NoMessage,
               NEW x, src' = [src EXCEPT !.out = NoMessage, !.turn = src.next, !.acked = TRUE,
                                         !.id = NextMID(@), !.epr = x]
        PROVE  Conversation' /\ (NotSurprised => NotSurprised')
    <2>1. Conversation'
      BY <1>4, GoodCRCHeard
    <2>2. src'.surprised = src.surprised
      BY <1>4, LinkFacts DEF SourceFields
    <2> QED
      BY <2>1, <2>2 DEF NotSurprised
  <1>5. CASE p.txKind # "GoodCRC" /\ Listens(src, p.air) /\ src' = SourceHears(src, p.air)
    <2>1. CASE p.air.kind = "Soft_Reset" \/ p.air.id # src.seen
      BY <1>5, <2>1, NewHeard DEF NotSurprised
    <2>2. CASE p.air.kind # "Soft_Reset" /\ p.air.id = src.seen
      <3>1. src' = [src EXCEPT !.owes = p.air.id, !.mistaken = p.air.kind # src.heard]
        BY <1>5, <2>2 DEF SourceHears
      <3>2. src'.surprised = src.surprised
        BY <3>1, LinkFacts DEF SourceFields
      <3>3. Unheard
        BY <3>1, UnheardIs
      <3> QED
        BY <3>2, <3>3, UnheardTransmission DEF NotSurprised
    <2> QED
      BY <2>1, <2>2
  <1> QED
    BY <1>2, <1>3, <1>4, <1>5

-----------------------------------------------------------------------------
\* What the losses have cost

LEMMA LossesPay ==
  ASSUME LinkInv, CountInv, LossInv,
         Talking(p', src') => Talking(p, src),
         src.out.kind = "Soft_Reset" /\ src.got = 0 => src'.out.kind = "Soft_Reset" /\ src'.got = 0,
         Spent' \in Nat, losses' \in Nat, Spent' + losses <= Spent + losses'
  PROVE  LossInv'
  <1>1. Spent \in Nat /\ losses \in Nat
    BY CountFacts
  <1> DEFINE n == Spent
             m == Spent'
             l == losses
             k == losses'
  <1>2. n \in Nat /\ m \in Nat /\ l \in Nat /\ k \in Nat /\ m + l <= n + k
    BY <1>1
  <1> HIDE DEF n, m, l, k
  <1>3. n <= l => m <= k
    BY <1>2
  <1>4. Spent <= losses => Spent' <= losses'
    BY <1>3 DEF n, m, l, k
  <1> QED
    BY <1>4 DEF LossInv

\* A step that the source does not hear costs no more than what is lost in it.
LEMMA UnheardPays ==
  ASSUME LinkInv, CountInv, CountInv', LossInv, Unheard, Unmoved(p, p'),
         Spent' + losses <= Spent + losses'
  PROVE  LossInv'
  <1>1. Spent' \in Nat /\ losses' \in Nat
    BY SpentBound, StackAssumption DEF CountInv
  <1>2. Talking(p', src') => Talking(p, src)
    BY DEF Talking, Unheard, Unmoved
  <1> QED
    BY <1>1, <1>2, LossesPay DEF Unheard

\* The steps that leave the port what it says
LEMMA SameUnmoved ==
  ASSUME LinkInv, Only(p, p', Outside \cup {"air", "rxMsg"})
  PROVE  Unmoved(p, p')
  BY LinkFacts DEF Only, Outside, Fields, Unmoved

LEMMA QuietPays ==
  ASSUME LinkInv, CountInv, LossInv, Pace # "RACE",
         \/ SourceGoodCRC \/ SourceRetries \/ SinkTx
         \/ \E request : RequestAsync(request)
         \/ \E c \in {0, 1} : UCPD_TIM_Expired(c)
  PROVE  LossInv'
  <1>1. CountInv' /\ Spent' = Spent /\ losses' = losses
    BY GoodCRCCounts, RetriesCounts, SinkTxCounts, RequestCounts, ExpiredCounts
  <1>2. Unheard
    BY UnheardIs DEF SourceGoodCRC, SourceRetries, SinkTx, RequestAsync, UCPD_TIM_Expired
  <1>3. Only(p, p', Outside \cup {"air"})
    <2>1. CASE SourceGoodCRC \/ SourceRetries
      <3>1. WireFree /\ \E m : Speak(m)
        BY <2>1 DEF SourceGoodCRC, SourceRetries, GoodCRCMissed
      <3>2. Only(p, p', {"txAllowed", "air"})
        BY <3>1, SpokenTalks
      <3> QED
        BY <3>2, OnlyGrows DEF Outside
    <2>2. CASE SinkTx \/ \E request : RequestAsync(request)
      BY <2>2, LinkFacts DEF SinkTx, RequestAsync, Only, Fields, Outside
    <2>3. CASE \E c \in {0, 1} : UCPD_TIM_Expired(c)
      BY <2>3, LinkFacts DEF UCPD_TIM_Expired, Only, Fields, Outside
    <2> QED
      BY <2>1, <2>2, <2>3
  <1>4. Unmoved(p, p')
    BY <1>3, OnlyGrows, SameUnmoved
  <1>5. Spent' + losses <= Spent + losses'
    BY <1>1, CountFacts
  <1> QED
    BY <1>1, <1>2, <1>4, <1>5, UnheardPays

LEMMA ReceivedPays ==
  ASSUME LinkInv, CountInv, LossInv, Received
  PROVE  LossInv'
  <1>1. CountInv' /\ Spent' + losses <= Spent + losses'
    BY ReceivedCounts
  <1>2. Unheard
    BY UnheardIs DEF Received
  <1>3. Only(p, p', Outside \cup {"air", "rxMsg"})
    BY LinkFacts DEF Received, Only, Fields, Outside
  <1>4. Unmoved(p, p')
    BY <1>3, SameUnmoved
  <1> QED
    BY <1>1, <1>2, <1>4, UnheardPays

LEMMA SpeaksPays ==
  ASSUME LinkInv, CountInv, LossInv, SourceSpeaks
  PROVE  LossInv'
  <1>1. CountInv' /\ Spent' = Spent /\ losses' = losses
    BY SpeaksCounts
  <1>2. WireFree /\ (\E m : Speak(m)) /\ src.out = NoMessage
    BY DEF SourceSpeaks
  <1>3. Only(p, p', {"txAllowed", "air"})
    BY <1>2, SpokenTalks
  <1>4. Only(p, p', Outside \cup {"air", "rxMsg"})
    BY <1>3, OnlyGrows DEF Outside
  <1>5. p'.cad = p.cad /\ p'.snk = p.snk
    BY <1>4, SameUnmoved DEF Unmoved
  <1>6. src'.turn = src.turn
    BY LinkFacts DEF SourceSpeaks, SourceFields
  <1>7. Talking(p', src') => Talking(p, src)
    BY <1>5, <1>6 DEF Talking
  <1> QED
    BY <1>1, <1>2, <1>7 DEF LossInv, NoMessage, NONE

LEMMA TransmittedPays ==
  ASSUME LinkInv, CountInv, Conversation, LossInv, Transmitted
  PROVE  LossInv'
  <1>1. CountInv'
    BY TransmittedCounts
  <1>2. /\ Unmoved(p, p') /\ src.owes = NoMID /\ p.air.kind = p.txKind
        /\ p.txKind # "GoodCRC" =>
             /\ AwaitsPhy(p) /\ p.air.id = p.mid
             /\ p.txKind \in {"Request", "Accept", "Soft_Reset", "Not_Supported"}
        /\ Spent = p.retry /\ p.retry \in Nat
        /\ Spent' = IF AwaitsPhy(p) /\ src'.owes = NoMID THEN p.retry + 1 ELSE p.retry
    BY TransmittedFacts
  <1>3. /\ Sound(p) /\ ~Handing(src)
        /\ src.turn \notin {"OFF", "DEAD"} => Talking(p, src) /\ InStep(p, src, NONE, NONE)
    BY TransmittedPort
  <1>4. losses \in Nat /\ p.mid # NoMID
    BY CountFacts, NoMIDIsNone
  <1>5. \/ losses' = losses + 1 /\ src' = src
        \/ /\ losses' = losses /\ p.txKind = "GoodCRC" /\ src' = src
        \/ /\ losses' = losses /\ p.txKind = "GoodCRC" /\ src.out # NoMessage
           /\ \E x : src' = [src EXCEPT !.out = NoMessage, !.turn = src.next, !.acked = TRUE,
                                        !.id = NextMID(@), !.epr = x]
        \/ /\ losses' = losses /\ p.txKind # "GoodCRC"
           /\ IF Listens(src, p.air) THEN src' = SourceHears(src, p.air) ELSE src' = src
    BY <1>2, ZenonT(60) DEF Transmitted, Lose
  <1>6. CASE losses' = losses + 1 /\ src' = src
    <2>1. Spent' + losses <= Spent + losses'
      BY <1>2, <1>4, <1>6
    <2> QED
      BY <1>1, <1>2, <1>6, <2>1, UnheardIs, UnheardPays
  <1>7. CASE losses' = losses /\ p.txKind = "GoodCRC" /\ src' = src
    <2>1. Spent' + losses <= Spent + losses'
      BY <1>2, <1>4, <1>7 DEF AwaitsPhy
    <2> QED
      BY <1>1, <1>2, <1>7, <2>1, UnheardIs, UnheardPays
  <1>8. CASE /\ losses' = losses /\ p.txKind = "GoodCRC" /\ src.out # NoMessage
             /\ \E x : src' = [src EXCEPT !.out = NoMessage, !.turn = src.next, !.acked = TRUE,
                                          !.id = NextMID(@), !.epr = x]
    <2>1. Spent' = Spent /\ src.got \in {0, 1}
      BY <1>2, <1>8 DEF AwaitsPhy, Conversation, InTurn
    <2>2. Talking(p, src)
      BY <1>3, <1>8 DEF LinkInv, WireAgrees
    <2>3. Spent <= losses
      <3>1. CASE src.got = 1
        BY <2>2, <3>1 DEF LossInv
      <3>2. CASE src.got = 0
        <4>1. p.tx # "WAIT_FOR_PHY_RESPONSE"
          BY <1>8, <3>2, GoodCRCHeard
        <4>2. p.retry = 0
          BY <4>1 DEF CountInv, Tally
        <4> QED
          BY <1>2, <1>4, <4>2
      <3> QED
        BY <2>1, <3>1, <3>2
    <2> QED
      BY <1>8, <2>1, <2>3 DEF LossInv
  <1>9. CASE /\ losses' = losses /\ p.txKind # "GoodCRC"
             /\ ~Listens(src, p.air) /\ src' = src
    <2> SUFFICES ASSUME Talking(p', src'), src.turn \notin {"OFF", "DEAD"}
                 PROVE  src.out.kind = "Soft_Reset" /\ src.got = 0
      BY <1>9 DEF LossInv, Talking
    <2>1. src.out.kind = "Soft_Reset" /\ p.txKind # "Accept"
      BY <1>2, <1>9 DEF Listens
    <2>2. InTurn(src) /\ src.out # NoMessage /\ src.got \in {0, 1} /\ src.next = "RESET"
      BY <2>1 DEF Conversation, InTurn, Follows, NoMessage, NONE
    <2>3. ASSUME src.got = 1 PROVE FALSE
      <3>1. Stage(src) = "RESET"
        BY <2>2, <2>3 DEF Stage
      <3>2. p.snk = "SOFT_RESET"
        BY <1>3, <3>1 DEF InStep, Matches
      <3>3. p.txKind = "Accept"
        BY <1>2, <1>3, <1>9, <3>2 DEF Sound, AwaitsPhy, Spoken
      <3> QED
        BY <2>1, <3>3
    <2> QED
      BY <2>1, <2>2, <2>3
  <1>10. CASE /\ losses' = losses /\ p.txKind # "GoodCRC"
              /\ Listens(src, p.air) /\ src' = SourceHears(src, p.air)
    <2>1. src'.owes = p.mid
      BY <1>2, <1>10, SourceTakesOne
    <2>2. Spent' = Spent
      BY <1>2, <1>4, <2>1
    <2>3. CASE p.air.kind # "Soft_Reset" /\ p.air.id = src.seen
      <3>1. src' = [src EXCEPT !.owes = p.air.id, !.mistaken = p.air.kind # src.heard]
        BY <1>10, <2>3 DEF SourceHears
      <3>2. Spent' + losses <= Spent + losses'
        BY <1>2, <1>4, <1>10, <2>2
      <3> QED
        BY <1>1, <1>2, <3>1, <3>2, UnheardIs, UnheardPays
    <2>4. CASE p.air.kind = "Soft_Reset" \/ p.air.id # src.seen
      <3>1. src.out # NoMessage /\ src.out.kind = "Soft_Reset" => src.got = 1
        BY <1>10, <2>4, NewHeard
      <3>2. Talking(p, src)
        BY <1>3, <1>10 DEF Listens
      <3>3. Spent <= losses
        BY <3>1, <3>2 DEF LossInv, NoMessage, NONE
      <3> QED
        BY <1>10, <2>2, <3>3 DEF LossInv
    <2> QED
      BY <2>3, <2>4
  <1> QED
    BY <1>5, <1>6, <1>7, <1>8, <1>9, <1>10

LEMMA ConnectionPays ==
  ASSUME LinkInv, CountInv, Conversation, LossInv,
         \/ HardResetTransmitted \/ SourceHardReset \/ VbusRemoved \/ VbusReturns \/ Reattach
  PROVE  LossInv'
  <1>1. CASE HardResetTransmitted \/ SourceHardReset \/ VbusRemoved
    <2>1. src'.turn \in {"OFF", "DEAD"}
      BY <1>1 DEF HardResetTransmitted, SourceHardReset, VbusRemoved, NewSource
    <2> QED
      BY <2>1 DEF LossInv, Talking
  <1>2. CASE VbusReturns
    <2>1. src.turn = "DEAD" /\ p.air = NoMessage /\ pwr = NONE /\ phy = NONE
          /\ p' = [p EXCEPT !.vS0_to_vS5 = TRUE]
      BY <1>2 DEF VbusReturns, CountInv, SlotAgrees
    <2>2. p.snk # "HARD_RESET"
      BY <2>1 DEF LinkInv, PhyAgrees, Steady, HardResets, NoMessage, NONE
    <2>3. p.cad = "UNATTACHED"
      BY <2>1, <2>2 DEF Conversation, NONE
    <2>4. p'.cad = "UNATTACHED"
      BY <2>1, <2>3, LinkFacts DEF Fields
    <2> QED
      BY <2>4 DEF LossInv, Talking
  <1>3. CASE Reattach
    <2>1. p' = Attach /\ losses' = losses
      BY <1>3 DEF Reattach
    <2>2. p'.retry = 0 /\ ~AwaitsPhy(p')
      BY <2>1, AttachTalks DEF AwaitsPhy
    <2>3. Spent' = 0
      BY <2>2 DEF Spent, Unanswered
    <2> QED
      BY <2>1, <2>3, CountFacts DEF LossInv
  <1> QED
    BY <1>1, <1>2, <1>3


-----------------------------------------------------------------------------
\* The worker

\* What one run of it stores, and tells the source of it
LEMMA WorkerTells ==
  ASSUME LinkInv, Conversation, Worker
  PROVE  /\ pwr' = NONE /\ phy' = NONE /\ tim' = NONE /\ losses' = losses
         /\ src'.turn = src.turn /\ src'.id = src.id /\ src'.seen = src.seen
         /\ src'.out = src.out /\ src'.next = src.next /\ src'.acked = src.acked
         /\ src'.surprised = src.surprised
         /\ p'.passedUp = FALSE /\ p'.rxMsg = p.rxMsg
         /\ \/ p'.storedMID = p.storedMID /\ src'.got = src.got
            \/ phy = "MSG_RX_COMPLETE" /\ p'.storedMID = NoMID /\ src'.got = src.got
            \/ /\ phy = "MSG_TX_COMPLETED" /\ p.storedMID # p.rxMsg.id
               /\ p'.storedMID = p.rxMsg.id
               /\ src'.got = IF src.got < 2 THEN src.got + 1 ELSE src.got
  <1> DEFINE q == [p EXCEPT !.told = NoCall, !.user = NoUserCode]
             h == UCPD_PE_PRL_Handler(q, pwr, phy, tim)
  <1>1. AtRest(p) /\ DOMAIN p = Fields /\ DOMAIN src = SourceFields /\ p.passedUp = FALSE
    BY LinkFacts DEF LinkInv, SInv, Conversation
  <1>2. /\ DOMAIN q = Fields /\ q.storedMID = p.storedMID /\ q.rxMsg = p.rxMsg
        /\ q.passedUp = FALSE
    BY <1>1 DEF Fields
  <1>3. AtRest(q)
    BY <1>1 DEF AtRest, Settled, Port, Fields, UserType
  <1>4. /\ p' = [h EXCEPT !.passedUp = FALSE, !.told = NoCall, !.user = NoUserCode]
        /\ src' = Taken(h, src)
        /\ pwr' = NONE /\ phy' = NONE /\ tim' = NONE /\ losses' = losses
    BY DEF Worker, Handled, Handling, SlotsTaken, Taken
  <1>5. Told(q, phy, h)
    BY <1>3, HandlerTells
  <1>6. Port(h) /\ DOMAIN h = Fields
    BY <1>3, HandlerRests DEF AtRest, Settled, Port
  <1> HIDE DEF q, h
  <1>7. p'.passedUp = FALSE /\ p'.storedMID = h.storedMID /\ p'.rxMsg = h.rxMsg
    BY <1>4, <1>6 DEF Fields
  <1>8. /\ src'.turn = src.turn /\ src'.id = src.id /\ src'.seen = src.seen
        /\ src'.out = src.out /\ src'.next = src.next /\ src'.acked = src.acked
        /\ src'.surprised = src.surprised
        /\ src'.got = IF h.passedUp THEN (IF src.got < 2 THEN src.got + 1 ELSE src.got)
                                    ELSE src.got
    <2> DEFINE got == IF src.got < 2 THEN src.got + 1 ELSE src.got
    <2>1. src' = IF h.passedUp THEN [src EXCEPT !.got = got] ELSE src
      BY <1>4 DEF Taken
    <2> HIDE DEF got
    <2>2. /\ src'.turn = src.turn /\ src'.id = src.id /\ src'.seen = src.seen
          /\ src'.out = src.out /\ src'.next = src.next /\ src'.acked = src.acked
          /\ src'.surprised = src.surprised
          /\ src'.got = IF h.passedUp THEN got ELSE src.got
      BY <1>1, <2>1 DEF SourceFields
    <2> QED
      BY <2>2 DEF got
  <1> QED
    BY <1>2, <1>4, <1>5, <1>7, <1>8 DEF Told, Untold

\* ... in a conversation
LEMMA WorkerTalks ==
  ASSUME MidMax >= 2, LinkInv, CountInv, Conversation, Persistent, Worker, Talking(p, src)
  PROVE  /\ ~Handing(src') /\ src'.got \in {0, 1}
         /\ p'.snk = "HARD_RESET" \/ InStep(p', src', NONE, NONE)
  <1> DEFINE q == [p EXCEPT !.told = NoCall, !.user = NoUserCode]
             h == UCPD_PE_PRL_Handler(q, pwr, phy, tim)
  <1>1. /\ Port(p) /\ DOMAIN p = Fields /\ p.user = NoUserCode /\ DOMAIN src = SourceFields
        /\ p.cad = "ATTACHED" /\ p.snk # "HARD_RESET" /\ src.turn \notin {"OFF", "DEAD"}
    BY LinkFacts DEF Talking, NoEpr
  <1>2. phy \notin HardResets /\ pwr = NONE
    BY <1>1 DEF Conversation, OffAgrees
  <1>3. Steady(p)
    BY <1>2 DEF LinkInv, PhyAgrees
  <1>4. /\ Only(p, q, CallerFields) /\ Port(q) /\ q.user = NoUserCode
        /\ q.dpm_event = p.dpm_event /\ q.sinkTxOk = p.sinkTxOk
        /\ q.cad = p.cad /\ q.rxMsg = p.rxMsg /\ q.air = p.air /\ q.tim = p.tim
        /\ q.hardResetActive = p.hardResetActive /\ q.retry = p.retry /\ q.rch = p.rch
        /\ q.tch = p.tch /\ q.passedUp = p.passedUp /\ q.mid = p.mid /\ q.tx = p.tx /\ q.txKind = p.txKind
        /\ q.snk = p.snk /\ q.storedMID = p.storedMID /\ SameTalk(p, q)
    BY <1>1 DEF Only, Fields, CallerFields, Port, SameTalk, SameContract
  <1>5. p' = [h EXCEPT !.passedUp = FALSE, !.told = NoCall, !.user = NoUserCode]
    BY DEF Worker, Handled, Handling
  <1>6. src' = Taken(h, src)
    BY DEF Worker, Handled, Handling, Taken
  <1> HIDE DEF q
  <1>7. Fits(p, phy, tim) /\ Fits(q, phy, tim)
    BY <1>1, <1>4, WorkerFits, FitsKept
  <1>8. Talks(q, src, phy, tim)
    <2>1. Steady(q)
      BY <1>2, <1>7 DEF Fits
    <2>2. InStep(p, src, phy, tim) /\ InTurn(src) /\ HandsUp(p, src, phy)
      BY DEF Conversation
    <2>3. IDsFollow(q, src, tim) /\ (~Handing(src) => Matches(q, src, Stage(src)))
      BY <1>4, <2>2, TalkSame DEF InStep
    <2>4. AcksAgree(q, src, phy)
      BY <1>4, <2>2 DEF InStep, AcksAgree, Acks, Sends
    <2>5. HandsUp(q, src, phy)
      BY <1>4, <2>2 DEF HandsUp, UnderContract, SameTalk, SameContract
    <2>6. src.turn \in OpenTurns
      BY <1>1, <2>2 DEF LinkInv, SprSource, SprTurns, InTurn, OpenTurns
    <2> QED
      BY <1>1, <1>4, <2>1, <2>2, <2>3, <2>4, <2>5, <2>6 DEF Talks, InStep, Conversation
  <1>9. Fitting(q, src, phy)
    <2>1. ~AwaitsPhy(q) => src.seen # q.mid
      <3>1. ~AwaitsPhy(p) => src.seen # p.mid
        BY <1>1 DEF CountInv, SeenAgrees, Resetting, Restarts, AwaitsPhy
      <3> QED
        BY <1>4, <3>1 DEF AwaitsPhy
    <2>2. phy = "MSG_RX_COMPLETE" =>
            IF q.rxMsg.kind = "GoodCRC"
            THEN AwaitsPhy(q) /\ q.air = NoMessage /\ q.rxMsg.id = q.mid /\ src.seen = q.mid
            ELSE q.rxMsg = src.out
      BY <1>4, <1>7 DEF CountInv, IDsAgree, Fits
    <2> QED
      BY <1>4, <1>7, <2>1, <2>2 DEF Fitting, Fits, CountInv, SlotAgrees
  <1>10. Exhausted(q, phy, tim) => Stage(src) = "CONTRACT"
    BY <1>4 DEF Persistent, Exhausted
  <1>11. ~(pwr = "VBUS_REMOVED" /\ ~q.hardResetActive)
    BY <1>2 DEF NONE
  <1>12. Ends(h, src)
    BY <1>1, <1>2, <1>4, <1>7, <1>8, <1>9, <1>10, <1>11, HandlerConverses
  <1>13. DOMAIN h = Fields
    <2>1. AtRest(q)
      BY <1>1, <1>4 DEF LinkInv, SInv, AtRest, Settled
    <2> QED
      BY <2>1, HandlerRests DEF AtRest, Settled, Port
  <1> HIDE DEF h
  <1>14. SameTalk(h, p') /\ p'.air = h.air
    BY <1>5, <1>13 DEF Fields, SameTalk, SameContract
  <1>15. ASSUME InStep(h, src', NONE, NONE) PROVE InStep(p', src', NONE, NONE)
    <2>1. /\ IDsFollow(p', src', NONE)
          /\ ~Handing(src') => Matches(p', src', Stage(src'))
      BY <1>14, <1>15, TalkSame DEF InStep
    <2>2. AcksAgree(p', src', NONE)
      BY <1>14, <1>15 DEF InStep, AcksAgree, Acks, Sends, SameTalk
    <2> QED
      BY <2>1, <2>2 DEF InStep
  <1> QED
    BY <1>6, <1>12, <1>14, <1>15 DEF Ends, SameTalk

\* ... while there is none
LEMMA WorkerSilent ==
  ASSUME LinkInv, SInv', CountInv, Conversation, Worker, ~Talking(p, src)
  PROVE  ~Talking(p', src') /\ ~Handing(src') /\ src'.got \in {0, 1}
  <1>1. /\ src'.turn = src.turn /\ src'.acked = src.acked /\ InTurn(src)
        /\ \/ src'.got = src.got
           \/ phy = "MSG_TX_COMPLETED" /\ p.storedMID # p.rxMsg.id
    BY WorkerTells DEF Conversation
  <1>2. \/ /\ p.cad = "ATTACHED" /\ p'.cad = "ATTACHED"
           /\ phy \notin HardResets => Proceeds(p, phy, tim, p')
        \/ p'.cad = "UNATTACHED"
    BY WorkerCases DEF CountInv, IDsAgree, Counted
  <1>3. CASE p.cad = "UNATTACHED"
    <2>1. phy = NONE /\ src.acked = FALSE
      BY <1>3 DEF LinkInv, Detached, Conversation
    <2> QED
      BY <1>1, <1>2, <1>3, <2>1 DEF Talking, Handing, InTurn, NONE
  <1>4. CASE p.cad = "ATTACHED" /\ src.turn \in {"OFF", "DEAD"}
    <2>1. src.acked = FALSE /\ (src.got = 1 => p.storedMID = p.rxMsg.id)
      BY <1>4 DEF Conversation, OffAgrees
    <2>2. src'.got \in {0, 1}
      BY <1>1, <2>1, WorkerTells DEF InTurn
    <2> QED
      BY <1>1, <1>4, <2>1, <2>2 DEF Talking, Handing
  <1>5. CASE p.cad = "ATTACHED" /\ p.snk = "HARD_RESET" /\ src.turn \notin {"OFF", "DEAD"}
    <2>1. phy \notin HardResets
      BY <1>5 DEF Conversation, OffAgrees
    <2>2. p.air # NoMessage
      BY <1>5, <2>1 DEF LinkInv, PhyAgrees, Steady, NoMessage, NONE
    <2>3. phy # "MSG_TX_COMPLETED"
      BY <2>2 DEF LinkInv, PhyAgrees
    <2>4. ~Handing(src) /\ src'.got = src.got
      BY <1>1, <2>3 DEF Conversation, HandsUp
    <2>5. p'.cad = "UNATTACHED" \/ p'.snk = "HARD_RESET"
      BY <1>2, <1>5, <2>1 DEF Proceeds
    <2> QED
      BY <1>1, <2>4, <2>5 DEF Talking, Handing, InTurn
  <1> QED
    BY <1>3, <1>4, <1>5 DEF LinkInv, Talking

LEMMA WorkerConverses ==
  ASSUME MidMax >= 2, LinkInv, SInv', CountInv, Conversation, Persistent, Worker
  PROVE  Conversation'
  <1>1. /\ pwr' = NONE /\ phy' = NONE /\ tim' = NONE
        /\ src'.turn = src.turn /\ src'.id = src.id
        /\ src'.out = src.out /\ src'.next = src.next /\ src'.acked = src.acked
        /\ p'.passedUp = FALSE /\ p'.rxMsg = p.rxMsg
        /\ \/ p'.storedMID = p.storedMID /\ src'.got = src.got
           \/ phy = "MSG_RX_COMPLETE" /\ p'.storedMID = NoMID
           \/ p'.storedMID = p.rxMsg.id
    BY WorkerTells
  <1>2. ~Handing(src') /\ src'.got \in {0, 1}
    BY WorkerTalks, WorkerSilent
  <1>3. Talking(p', src') => InStep(p', src', phy', tim')
    BY <1>1, WorkerTalks, WorkerSilent DEF Talking
  <1>4. InTurn(src') /\ HandsUp(p', src', phy')
    BY <1>1, <1>2 DEF Conversation, InTurn, HandsUp
  <1>5. OffAgrees(p', src', phy')
    BY <1>1 DEF Conversation, OffAgrees, HardResets, NONE
  <1>6. \/ /\ p.cad = "ATTACHED" /\ p'.cad = "ATTACHED"
           /\ ~(pwr = "VBUS_REMOVED" /\ ~p.hardResetActive)
           /\ phy \notin HardResets => Proceeds(p, phy, tim, p')
        \/ /\ p'.cad = "UNATTACHED"
           /\ p.cad = "UNATTACHED" \/ (pwr = "VBUS_REMOVED" /\ ~p.hardResetActive)
    BY WorkerCases DEF CountInv, IDsAgree, Counted
  <1>7. p'.cad = "UNATTACHED" => src'.turn \in {"DEAD", "CAPS"} /\ src'.acked = FALSE
    <2>1. CASE p.cad = "UNATTACHED"
      BY <1>1, <2>1 DEF Conversation
    <2>2. CASE pwr = "VBUS_REMOVED" /\ ~p.hardResetActive
      <3>1. src.turn = "DEAD"
        BY <2>2 DEF Conversation, LinkInv, PhyAgrees
      <3> QED
        BY <1>1, <3>1 DEF Conversation, OffAgrees
    <2> QED
      BY <1>6, <2>1, <2>2
  <1>8. src'.turn = "DEAD" => p'.cad = "UNATTACHED" \/ p'.snk = "HARD_RESET"
    <2> SUFFICES ASSUME src.turn = "DEAD", p'.cad # "UNATTACHED" PROVE p'.snk = "HARD_RESET"
      BY <1>1
    <2>1. phy \notin HardResets
      BY DEF Conversation, OffAgrees
    <2>2. /\ p.cad = "ATTACHED" /\ ~(pwr = "VBUS_REMOVED" /\ ~p.hardResetActive)
          /\ Proceeds(p, phy, tim, p')
      BY <1>6, <2>1
    <2>3. p.snk = "HARD_RESET"
      BY <2>1, <2>2 DEF Conversation, LinkInv, PhyAgrees, Steady
    <2> QED
      BY <2>2, <2>3 DEF Proceeds
  <1>9. p'.storedMID \in MessageIDs \cup {NoMID} /\ p'.rxMsg.id \in MessageIDs
    BY <1>1 DEF Conversation
  <1> QED
    BY <1>1, <1>3, <1>4, <1>5, <1>7, <1>8, <1>9 DEF Conversation, NONE

\* What the losses have cost
LEMMA WorkerPays ==
  ASSUME MidMax >= 2, LinkInv, SInv', CountInv, Conversation, Persistent, LossInv, Worker
  PROVE  LossInv'
  <1> SUFFICES ASSUME Talking(p', src') PROVE LossInv'
    BY DEF LossInv
  <1>1. /\ phy' = NONE /\ tim' = NONE /\ wire' = wire /\ losses' = losses
        /\ src'.seen = src.seen /\ src'.heard = src.heard /\ src'.owes = src.owes
        /\ src'.turn = src.turn /\ src'.out = src.out /\ src'.next = src.next
    BY SourceKept DEF Worker, SlotsTaken
  <1>2. Talking(p, src) /\ p'.snk # "HARD_RESET"
    BY WorkerSilent DEF Talking
  <1>3. /\ ~Handing(src') /\ src'.got \in {0, 1} /\ InTurn(src)
        /\ Matches(p', src', Stage(src'))
        /\ Matches(p, src, Stage(src)) \/ Handing(src)
    BY <1>2, WorkerTalks DEF InStep, Conversation
  <1>4. phy \notin HardResets /\ p.cad = "ATTACHED" /\ p'.cad = "ATTACHED"
    BY <1>2 DEF Conversation, OffAgrees, Talking
  <1>5. Steady(p') /\ Proceeds(p, phy, tim, p')
    BY <1>4, WorkerCases DEF CountInv, IDsAgree, Counted
  <1>6. WorkerRan
    <2>1. Port(p')
      BY DEF SInv, AtRest, Settled
    <2> QED
      BY <1>1, <1>5, <2>1 DEF WorkerRan
  <1>7. Stage(src') \in OpenTurns
    BY <1>1, <1>2, <1>3, StageOpen DEF Stage, InTurn, Talking, LinkInv, SprSource, SprTurns,
                                       OpenTurns, Follows, SprRx
  <1>8. ~Restarts(p')
    <2>1. Restarts(p') => p'.snk = "SEND_SOFT_RESET"
      BY <1>5 DEF Steady, Sound, Restarts, Spoken, Sending
    <2> QED
      BY <1>3, <1>7, <2>1 DEF Matches, OpenTurns
  <1>9. Spent \in Nat /\ Spent' \in Nat /\ losses \in Nat
    BY <1>6, SpentAfter, CountFacts
  <1>10. ASSUME Spent' = 0 PROVE LossInv'
    BY <1>1, <1>9, <1>10 DEF LossInv
  <1>11. ASSUME p'.retry = 0, p'.tim[0] # "CRC_RECEIVE"
         PROVE  Spent' = 0
    BY <1>6, <1>11, SpentAfter
  \* A Soft_Reset has just been handed up: what the port says is its answer.
  <1>12. ASSUME src.out.kind = "Soft_Reset", src.got = 0, src'.got = 1,
                p'.tx = p.tx, p'.txKind = p.txKind
         PROVE  FALSE
    <2>1. src.out # NoMessage /\ Stage(src) = "CONTRACT" /\ Stage(src') = "RESET"
      BY <1>1, <1>3, <1>12 DEF Stage, InTurn, Leads, Follows, NoMessage, NONE
    <2>2. p'.snk = "SOFT_RESET" /\ AwaitsPhy(p')
      BY <1>3, <2>1 DEF Matches
    <2>3. p'.txKind = "Accept"
      BY <1>5, <2>2 DEF Steady, Sound, AwaitsPhy, Spoken, Sending
    <2>4. AwaitsPhy(p) /\ p.txKind = "Accept"
      BY <1>12, <2>2, <2>3 DEF AwaitsPhy
    <2>5. p.snk = "SOFT_RESET"
      BY <2>4 DEF LinkInv, Sound, AwaitsPhy, Spoken, Sending
    <2>6. ~Handing(src)
      BY <2>1 DEF Conversation, HandsUp
    <2> QED
      BY <1>3, <2>1, <2>5, <2>6 DEF Matches
  <1>13. ASSUME p'.tx = p.tx, p'.txKind = p.txKind, Spent' <= Spent PROVE LossInv'
    <2>1. src.out.kind = "Soft_Reset" /\ src.got = 0 => src'.got = 0
      BY <1>3, <1>12, <1>13
    <2>2. CASE src.out.kind = "Soft_Reset" /\ src.got = 0
      BY <1>1, <2>1, <2>2 DEF LossInv
    <2>3. CASE Spent <= losses
      <3>1. Spent' <= losses'
        BY <1>1, <1>9, <1>13, <2>3
      <3> QED
        BY <3>1 DEF LossInv
    <2> QED
      BY <1>2, <2>2, <2>3 DEF LossInv
  <1>14. CASE phy = "MSG_RX_COMPLETE" /\ p.rxMsg.kind = "Soft_Reset"
              /\ p'.tx = "WAIT_FOR_MESSAGE_REQUEST"
    <2>1. src.out.kind = "Soft_Reset" /\ src'.out.kind = "Soft_Reset"
      BY <1>1, <1>14 DEF CountInv, IDsAgree
    <2>2. src'.got # 1
      <3>1. ~AwaitsPhy(p')
        BY <1>14 DEF AwaitsPhy
      <3> QED
        BY <1>1, <1>3, <2>1, <3>1 DEF Stage, InTurn, Follows, Matches, NoMessage, NONE
    <2> QED
      BY <1>3, <2>1, <2>2 DEF LossInv
  <1>15. CASE /\ Stands(p, p')
              /\ p'.tim[0] = "CRC_RECEIVE" => p.tim[0] = "CRC_RECEIVE" \/ phy = "MSG_TX_COMPLETED"
              /\ ~(phy = "MSG_RX_COMPLETE" /\ p.rxMsg.kind = "GoodCRC")
    BY <1>6, <1>13, <1>15, WaitsSpends DEF Stands
  <1>16. CASE Repeats(p, p') /\ (tim = "CRC_RECEIVE" \/ phy = "MSG_TX_DISCARDED")
    BY <1>6, <1>13, <1>16, RepeatsSpends DEF Repeats
  <1>17. CASE Advances(p, p')
    BY <1>10, <1>11, <1>17 DEF Advances
  <1>18. CASE Fresh(p, p')
    BY <1>10, <1>11, <1>18 DEF Fresh
  <1>19. Moves(p, phy, tim, p')
    BY <1>5 DEF Proceeds
  <1> QED
    BY <1>2, <1>8, <1>14, <1>15, <1>16, <1>17, <1>18, <1>19 DEF Moves

-----------------------------------------------------------------------------
\* The whole

LEMMA InitTalks == Init => Conversation /\ LossInv /\ NotSurprised
  <1> SUFFICES ASSUME Init PROVE Conversation /\ LossInv /\ NotSurprised
    OBVIOUS
  <1>1. /\ p = Attach /\ pwr = NONE /\ phy = NONE /\ tim = NONE /\ losses = 0
        /\ src.turn = "CAPS" /\ src.next = "CAPS" /\ src.id = 0 /\ src.got = 0
        /\ src.acked = FALSE /\ src.out = NoMessage /\ src.surprised = FALSE
    BY DEF Init, NewSource
  <1>2. /\ p.snk = "WAIT_FOR_CAPABILITIES" /\ p.storedMID = NoMID /\ p.passedUp = FALSE
        /\ p.air = NoMessage /\ p.cad = "ATTACHED" /\ p.rxMsg.id = 0
        /\ p.retry = 0 /\ ~AwaitsPhy(p)
    BY <1>1, AttachTalks, AttachLinks DEF NoMessage, AwaitsPhy
  <1>3. 0 \in MessageIDs
    BY PortAssumption DEF MessageIDs
  <1>4. InTurn(src) /\ ~Handing(src) /\ Stage(src) = "CAPS"
    BY <1>1, <1>3 DEF InTurn, Handing, Stage
  <1>5. InStep(p, src, phy, tim)
    BY <1>1, <1>2, <1>4, SilentAir DEF InStep, IDsFollow, AcksAgree, Acks, Matches, NONE
  <1>6. HandsUp(p, src, phy) /\ OffAgrees(p, src, phy)
    BY <1>1, <1>4 DEF HandsUp, OffAgrees, HardResets, NONE
  <1>7. Conversation
    BY <1>1, <1>2, <1>3, <1>4, <1>5, <1>6 DEF Conversation, NONE
  <1>8. Spent = 0
    BY <1>2 DEF Spent, Unanswered
  <1> QED
    BY <1>1, <1>7, <1>8 DEF LossInv, NotSurprised

LEMMA NextConverses ==
  ASSUME OutsideEpr, MidMax >= 2, LinkInv, LinkInv', CountInv, Conversation, Persistent,
         [Next]_vars
  PROVE  Conversation'
  <1>1. CASE Worker
    BY <1>1, WorkerConverses DEF LinkInv
  <1>2. CASE SourceGoodCRC \/ SourceRetries
    BY <1>2, QuietSpeech
  <1>3. CASE SourceSpeaks
    BY <1>3, SpeaksConverses
  <1>4. CASE Received
    BY <1>4, ReceivedConverses
  <1>5. CASE Transmitted
    BY <1>5, TransmittedConverses
  <1>6. CASE HardResetTransmitted \/ SourceHardReset
    BY <1>6, ResetConverses
  <1>7. CASE SinkTx \/ \E request \in Requests : RequestAsync(request)
    BY <1>7, QuietConnection
  <1>8. CASE VbusRemoved \/ VbusReturns
    BY <1>8, VbusConverses
  <1>9. CASE Reattach
    BY <1>9, ReattachConverses
  <1>10. ASSUME NEW c \in {0, 1}, UCPD_TIM_Expired(c) PROVE Conversation'
    BY <1>10, QuietTimer DEF OutsideEpr
  <1>11. CASE UNCHANGED vars
    <2>1. Talking(p', src') => Talking(p, src) /\ InStep(p', src', phy', tim')
      BY <1>11 DEF vars, Conversation
    <2> QED
      BY <1>11, <2>1 DEF vars, Conversation
  <1> QED
    BY <1>1, <1>2, <1>3, <1>4, <1>5, <1>6, <1>7, <1>8, <1>9, <1>10, <1>11 DEF Next

LEMMA NextPays ==
  ASSUME OutsideEpr, MidMax >= 2, LinkInv, LinkInv', CountInv, CountInv', Conversation,
         Persistent, LossInv, [Next]_vars
  PROVE  LossInv'
  <1>1. CASE Worker
    BY <1>1, WorkerPays DEF LinkInv
  <1>2. CASE \/ SourceGoodCRC \/ SourceRetries \/ SinkTx
             \/ \E request \in Requests : RequestAsync(request)
             \/ \E c \in {0, 1} : UCPD_TIM_Expired(c)
    BY <1>2, QuietPays DEF OutsideEpr
  <1>3. CASE SourceSpeaks
    BY <1>3, SpeaksPays
  <1>4. CASE Received
    BY <1>4, ReceivedPays
  <1>5. CASE Transmitted
    BY <1>5, TransmittedPays
  <1>6. CASE HardResetTransmitted \/ SourceHardReset \/ VbusRemoved \/ VbusReturns \/ Reattach
    BY <1>6, ConnectionPays
  <1>7. CASE UNCHANGED vars
    BY <1>7 DEF vars, LossInv, Talking, Spent, Unanswered, CrcDue, GoodCRCDue, AwaitsPhy
  <1> QED
    BY <1>1, <1>2, <1>3, <1>4, <1>5, <1>6, <1>7 DEF Next

\* Only a message that it takes surprises the source.
LEMMA SurprisedKept ==
  ASSUME LinkInv, CountInv, Conversation, NotSurprised, Next
  PROVE  NotSurprised'
  <1>1. CASE Transmitted
    BY <1>1, TransmittedConverses
  <1>2. CASE Worker
    BY <1>2, WorkerTells DEF NotSurprised
  <1>3. CASE SourceGoodCRC \/ SourceRetries \/ VbusReturns
    BY <1>3, LinkFacts DEF SourceGoodCRC, SourceRetries, VbusReturns, NotSurprised, SourceFields
  <1>4. CASE SourceSpeaks
    <2> DEFINE M(say) == [kind |-> say[1],
                          id |-> IF say[1] = "Soft_Reset" THEN 0 ELSE src.id,
                          chunk |-> IF src.turn = "CHUNK" THEN 1 ELSE 0]
               Seen(say) == IF say[1] = "Soft_Reset" THEN NoMID ELSE src.seen
    <2>1. PICK say \in Says(src) :
            src' = [src EXCEPT !.out = M(say), !.id = M(say).id, !.next = say[2],
                               !.tries = 0, !.got = 0, !.acked = FALSE,
                               !.seen = IF say[1] = "Soft_Reset" THEN NoMID ELSE @]
      BY <1>4 DEF SourceSpeaks
    <2>2. src' = [src EXCEPT !.out = M(say), !.id = M(say).id, !.next = say[2],
                             !.tries = 0, !.got = 0, !.acked = FALSE, !.seen = Seen(say)]
      BY <2>1, LinkFacts DEF SourceFields
    <2> HIDE DEF M, Seen
    <2> QED
      BY <2>2, LinkFacts DEF NotSurprised, SourceFields
  <1>5. CASE HardResetTransmitted \/ SourceHardReset \/ VbusRemoved
    BY <1>5 DEF HardResetTransmitted, SourceHardReset, VbusRemoved, NewSource, NotSurprised
  <1>6. CASE \/ Received \/ SinkTx \/ Reattach
             \/ \E c \in {0, 1} : UCPD_TIM_Expired(c)
             \/ \E request \in Requests : RequestAsync(request)
    BY <1>6 DEF Received, SinkTx, Reattach, UCPD_TIM_Expired, RequestAsync, NotSurprised
  <1> QED
    BY <1>1, <1>2, <1>3, <1>4, <1>5, <1>6 DEF Next

\* With fewer losses than the port repeats a message, it gives up none outside a contract.
LEMMA LossesPersist ==
  ASSUME LinkInv, CountInv, Conversation, LossInv, losses < NRetry
  PROVE  Persistent
  <1> SUFFICES ASSUME Talking(p, src), Exhausted(p, phy, tim) PROVE Stage(src) = "CONTRACT"
    BY DEF Persistent
  <1>1. CASE src.out.kind = "Soft_Reset" /\ src.got = 0
    BY <1>1 DEF Conversation, InTurn, Leads, Stage, NoMessage, NONE
  <1>2. CASE Spent <= losses
    <2>1. p.retry = NRetry /\ (CrcDue \/ phy = "MSG_TX_DISCARDED")
      BY DEF Exhausted, CrcDue
    <2>2. Spent >= NRetry
      BY <2>1, PortAssumption DEF Spent
    <2> QED
      BY <1>2, <2>2, CountFacts
  <1> QED
    BY <1>1, <1>2 DEF LossInv

LEMMA ConversationAgrees ==
  ASSUME LinkInv, Conversation
  PROVE  ContractAgreed /\ DeliveredOnce
  <1>1. src.got <= 1 /\ (src.acked /\ phy # "MSG_TX_COMPLETED" => src.got = 1)
    BY DEF Conversation, InTurn, HandsUp, Handing
  <1>2. ASSUME p.cad = "ATTACHED", p.snk = "READY", Quiet, src.turn \notin {"OFF", "DEAD"}
        PROVE  src.turn = "CONTRACT" \/ src.next = "CONTRACT"
    <2>1. Talking(p, src) /\ ~Handing(src)
      BY <1>2 DEF Talking, Quiet, Conversation, HandsUp, NONE
    <2>2. Matches(p, src, Stage(src)) /\ InTurn(src)
      BY <2>1 DEF Conversation, InStep
    <2>3. src.turn \in OpenTurns
      BY <1>2, <2>2 DEF LinkInv, SprSource, SprTurns, InTurn, OpenTurns
    <2>4. Stage(src) = "CONTRACT"
      BY <1>2, <2>2, <2>3, StageOpen DEF Matches, OpenTurns
    <2> QED
      BY <2>4 DEF Stage
  <1> QED
    BY <1>1, <1>2 DEF ContractAgreed, DeliveredOnce

LEMMA NextTalks ==
  ASSUME OutsideEpr, MaxLosses < NRetry * MidMax, MidMax >= 2
  PROVE  /\ LinkInv /\ CountInv /\ NotMistaken /\ Conversation /\ NotSurprised
              /\ Persistent /\ [Next]_vars =>
              LinkInv' /\ CountInv' /\ NotMistaken' /\ Conversation' /\ NotSurprised'
  <1> SUFFICES ASSUME LinkInv, CountInv, NotMistaken, Conversation, NotSurprised, Persistent,
                      [Next]_vars
               PROVE  LinkInv' /\ CountInv' /\ NotMistaken' /\ Conversation' /\ NotSurprised'
    OBVIOUS
  <1>1. LinkInv' /\ CountInv' /\ NotMistaken'
    BY NextCounts
  <1>2. Conversation'
    BY <1>1, NextConverses
  <1>3. NotSurprised'
    BY SurprisedKept DEF vars, NotSurprised
  <1> QED
    BY <1>1, <1>2, <1>3

\* As long as the port gives up no message but under a contract, however many are lost, the
\* port and the source are in conversation: the policy engine is where the turn of the source
\* asks for it, also when a GoodCRC is lost, a message is sent again or two collide. The code
\* has no such check: a port that gives up a message elsewhere goes on alone (TransmissionError
\* takes it back to READY). TLC then finds READY without a contract and a message handed up
\* twice (NRetry + 1 losses are enough), so that the last two below need the condition.
LEMMA ConversationGoesOn ==
  ASSUME OutsideEpr, MaxLosses < NRetry * MidMax, MidMax >= 2
  PROVE  Spec /\ []Persistent => [](LinkInv /\ Conversation /\ NotSurprised)
  <1>1. Init => LinkInv /\ CountInv /\ NotMistaken /\ Conversation /\ NotSurprised
    BY InitLink, InitCounts, InitTalks
  <1>2. LinkInv /\ CountInv /\ NotMistaken /\ Conversation /\ NotSurprised
          /\ Persistent /\ [Next]_vars =>
          LinkInv' /\ CountInv' /\ NotMistaken' /\ Conversation' /\ NotSurprised'
    BY NextTalks
  <1> QED
    BY <1>1, <1>2, PTL DEF Spec

\* The port never says what the source cannot expect at that point of the conversation
\* (NotSurprised).
THEOREM NeverSurprised ==
  ASSUME OutsideEpr, MaxLosses < NRetry * MidMax, MidMax >= 2
  PROVE  Spec /\ []Persistent => []NotSurprised
  BY ConversationGoesOn, PTL

\* A port in READY that has nothing to do agrees with its source that there is a contract
\* (ContractAgreed): PE_SNK_STATE_READY is left and entered in step with the turns of the
\* source.
THEOREM ContractIsAgreed ==
  ASSUME OutsideEpr, MaxLosses < NRetry * MidMax, MidMax >= 2
  PROVE  Spec /\ []Persistent => []ContractAgreed
  <1>1. LinkInv /\ Conversation => ContractAgreed
    BY ConversationAgrees
  <1> QED
    BY <1>1, ConversationGoesOn, PTL

\* What the source takes as received has been handed up, and nothing is handed up twice
\* (DeliveredOnce): PRL_RX_STATE_CHECK_MESSAGEID tells a retransmission from a new message,
\* whichever of the two and of their GoodCRCs are lost.
THEOREM IsDeliveredOnce ==
  ASSUME OutsideEpr, MaxLosses < NRetry * MidMax, MidMax >= 2
  PROVE  Spec /\ []Persistent => []DeliveredOnce
  <1>1. LinkInv /\ Conversation => DeliveredOnce
    BY ConversationAgrees
  <1> QED
    BY <1>1, ConversationGoesOn, PTL

LEMMA LossesGrow ==
  ASSUME CountInv, [Next]_vars
  PROVE  losses' >= losses
  <1>1. losses \in Nat
    BY StackAssumption DEF CountInv
  <1>2. losses' = losses \/ losses' = losses + 1
    BY DEF Next, vars, Worker, SourceGoodCRC, SourceSpeaks, SourceRetries, Received,
           Transmitted, HardResetTransmitted, SourceHardReset, SinkTx, VbusRemoved,
           VbusReturns, Reattach, UCPD_TIM_Expired, RequestAsync, Lose
  <1> QED
    BY <1>1, <1>2

\* Until NRetry messages have been lost the port gives up none but under a contract, and the
\* conversation goes on (ConvInv): every attempt of UCPD_PRL_TX at a message that has not been
\* answered has cost a loss of its own.
THEOREM ConversationHolds ==
  ASSUME OutsideEpr, MaxLosses < NRetry * MidMax, MidMax >= 2
  PROVE  Spec => []ConvInv
  <1> DEFINE Talk == losses < NRetry => Conversation /\ LossInv
             I == LinkInv /\ CountInv /\ NotMistaken /\ Talk
  <1>1. Init => I
    BY InitLink, InitCounts, InitTalks
  <1>2. I => ConvInv
    BY LossesPersist DEF ConvInv
  <1>3. I /\ [Next]_vars => I'
    <2> SUFFICES ASSUME I, [Next]_vars PROVE I'
      OBVIOUS
    <2>1. LinkInv' /\ CountInv' /\ NotMistaken'
      BY NextCounts
    <2>2. losses' < NRetry => losses < NRetry
      BY <2>1, LossesGrow, PortAssumption, StackAssumption DEF CountInv
    <2>3. ASSUME losses < NRetry PROVE Conversation' /\ LossInv'
      <3>1. Persistent
        BY <1>2, <2>3 DEF ConvInv
      <3> QED
        BY <2>1, <2>3, <3>1, NextConverses, NextPays
    <2> QED
      BY <2>1, <2>2, <2>3
  <1> HIDE DEF I
  <1> QED
    BY <1>1, <1>2, <1>3, PTL DEF Spec

\* So a source that misses, and makes the port miss, fewer messages than the port repeats one
\* is never surprised, agrees on the contract and has what it sent handed up once.
THEOREM FewLosses ==
  ASSUME OutsideEpr, MaxLosses < NRetry, MidMax >= 2
  PROVE  Spec => [](NotSurprised /\ ContractAgreed /\ DeliveredOnce)
  <1>1. MaxLosses < NRetry * MidMax
    <2>1. \A a, b, c \in Nat : a < b /\ c >= 2 => a < b * c
      OBVIOUS
    <2> QED
      BY <2>1, PortAssumption, StackAssumption
  <1>2. CountInv /\ ConvInv => Persistent
    BY PortAssumption, StackAssumption DEF CountInv, ConvInv
  <1>3. Spec => []CountInv /\ []ConvInv
    BY <1>1, CountsAgree, ConversationHolds, PTL
  <1>4. Spec /\ []Persistent => []NotSurprised /\ []ContractAgreed /\ []DeliveredOnce
    BY <1>1, NeverSurprised, ContractIsAgreed, IsDeliveredOnce, PTL
  <1> QED
    BY <1>2, <1>3, <1>4, PTL
=============================================================================
