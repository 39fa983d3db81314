-------------------------- MODULE UcpdPolicyEngine --------------------------
(***************************************************************************)
(* The sink policy engine (ucpd_pe_sm.c).  EnterX(p) is UCPD_PE_SM_SNK_    *)
(* Enter for state X, exit of the old state first; the calls into the      *)
(* protocol layer are made where the code makes them.                      *)
(***************************************************************************)
EXTENDS UcpdPort

SnkStates ==
  {"DISCOVERY", "WAIT_FOR_CAPABILITIES", "SELECT_CAPABILITY", "TRANSITION_SINK",
   "READY", "HARD_RESET", "SOFT_RESET", "SEND_SOFT_RESET", "SEND_NOT_SUPPORTED",
   "SEND_EPR_MODE_ENTRY", "EPR_MODE_ENTRY_WAIT_FOR_RESPONSE",
   "SEND_EPR_MODE_EXIT", "EPR_KEEP_ALIVE"}

\* The application's code runs inside the worker in three places: the callback of a
\* request, the policy and the callback of the port.  It may call the API there; in
\* one run of the worker once, the first time it runs in that place.
UserPlaces == {"CALLBACK", "POLICY", "PORT_CALLBACK"}
NoUserCode == [place |-> NONE, call |-> NONE]

\* The calls that wait for their request, and all that make one.
SpinningCalls == {"TriggerPolicy", "EnterEPR", "ExitEPR"}
ApiCalls == SpinningCalls \cup
  {"TriggerPolicyAsync", "EnterEPRAsync", "ExitEPRAsync", "HardReset", "HardResetAsync"}

RequestOf(call) ==
  CASE call \in {"TriggerPolicy", "TriggerPolicyAsync"} -> "TRIGGER_POLICY"
    [] call \in {"EnterEPR", "EnterEPRAsync"}           -> "EPR_MODE_ENTRY"
    [] call \in {"ExitEPR", "ExitEPRAsync"}             -> "EPR_MODE_EXIT"
    [] call \in {"HardReset", "HardResetAsync"}         -> "HARD_RESET"

\* Mutant of Accepts: a call that spins is not refused while an operation goes on.
AcceptsMeanwhile(p, call, running_policy) ==
  /\ p.cad = "ATTACHED" /\ p.dpm_event = NONE
  /\ RequestOf(call) = "EPR_MODE_ENTRY" => ~p.epr_mode
  /\ RequestOf(call) = "EPR_MODE_EXIT" => p.epr_mode

\* What every call looks at before it makes its request.
Accepts(p, call, running_policy) ==
  /\ p.cad = "ATTACHED" /\ p.dpm_event = NONE
  /\ call \in SpinningCalls => ~p.sync_operation /\ ~running_policy
  /\ RequestOf(call) = "EPR_MODE_ENTRY" => ~p.epr_mode
  /\ RequestOf(call) = "EPR_MODE_EXIT" => p.epr_mode

\* The calls without Async leave the callback alone.
CallbackOf(p, call) ==
  IF call \in SpinningCalls \cup {"HardReset"} THEN p.callback ELSE RequestOf(call)

\* A call inside the worker: the worker does not preempt itself, so one that finds
\* sync_operation set after its request spins for ever.
UserCall(p, call, running_policy) ==
  IF ~Accepts(p, call, running_policy) THEN p
  ELSE [p EXCEPT !.dpm_event = RequestOf(call), !.callback = CallbackOf(p, call),
                 !.stuck = @ \/ (call \in SpinningCalls /\ p.sync_operation)]

UserCode(p, place) ==
  IF p.user.place # place THEN p
  ELSE UserCall([p EXCEPT !.user = NoUserCode], p.user.call, place = "POLICY")

\* The pending callback is called with a status and forgotten.
NoCall == [request |-> NONE, status |-> NONE]

Callback(p, status) ==
  IF p.current_callback = NONE THEN p
  ELSE [UserCode(p, "CALLBACK") EXCEPT
          !.current_callback = NONE,
          !.told = [request |-> p.current_callback, status |-> status]]

\* A synchronous or asynchronous request ends with a status.
EndRequest(p, status) ==
  [Callback(p, status) EXCEPT !.status = status, !.sync_operation = FALSE]

UCPD_PE_SM_SNK_Exit(p) ==
  CASE p.snk = "EVALUATE_CAPABILITY" -> UCPD_TIM_Stop(p, "SINK_WAIT_CAP")
    [] p.snk = "TRANSITION_SINK" ->
         UserCode(UCPD_TIM_Stop(p, IF p.epr_mode THEN "SINK_EPR_TRANSITION"
                                   ELSE "PS_TRANSITION"), "POLICY")
    [] p.snk = "READY" /\ p.pps_contract ->
         [UCPD_TIM_Stop(p, "SINK_PPS_PERIODIC") EXCEPT !.ams = TRUE, !.pps_contract = FALSE]
    [] p.snk = "READY" /\ ~p.pps_contract -> [p EXCEPT !.ams = TRUE]
    [] p.snk = "TRANSITION_TO_DEFAULT" -> UCPD_PHY_HRDRS_Completed(p)
    [] p.snk = "EPR_MODE_ENTRY_WAIT_FOR_RESPONSE" ->
         UCPD_TIM_Stop(EndRequest([p EXCEPT !.epr_mode = TRUE], "SUCCESS"),
                       "SINK_EPR_ENTER")
    [] p.snk = "SEND_EPR_MODE_EXIT" ->
         UCPD_TIM_Stop(EndRequest([p EXCEPT !.epr_mode = FALSE], "SUCCESS"),
                       "SINK_EPR_KEEP_ALIVE")
    [] OTHER -> p

Go(p, state) == [UCPD_PE_SM_SNK_Exit(p) EXCEPT !.snk = state]

\* Mutant: the exit actions of the old state are skipped.
WaitSkipsExit(p) ==
  UCPD_TIM_Start([p EXCEPT !.snk = "WAIT_FOR_CAPABILITIES", !.explicit_contract = FALSE],
                 "SINK_WAIT_CAP")

EnterWaitForCapabilities(p) ==
  UCPD_TIM_Start([Go(p, "WAIT_FOR_CAPABILITIES") EXCEPT !.explicit_contract = FALSE],
                 "SINK_WAIT_CAP")

\* UCPD_PWR_vS0_to_vS5 returns its flag and clears it.
LeaveDiscovery(p) ==
  IF p.vS0_to_vS5 THEN EnterWaitForCapabilities([p EXCEPT !.vS0_to_vS5 = FALSE]) ELSE p

EnterDiscovery(p) == LeaveDiscovery(Go(p, "DISCOVERY"))

EnterStartup(p) ==
  EnterDiscovery([Go(p, "STARTUP") EXCEPT !.hrdOriginPE = FALSE, !.epr_mode = FALSE])

StopKeepAlive(p) ==
  IF p.epr_mode THEN UCPD_TIM_Stop(p, "SINK_EPR_KEEP_ALIVE") ELSE p

EnterTransitionToDefault(p) ==
  EnterStartup(UserCode(
    [Callback(StopKeepAlive(Go(p, "TRANSITION_TO_DEFAULT")), "SUCCESS")
      EXCEPT !.explicit_contract = FALSE, !.pps_contract = FALSE,
             !.ams = FALSE, !.ams_first_sent = FALSE,
             !.hrdOriginPE = FALSE, !.extended = FALSE, !.sync_operation = FALSE],
    "POLICY"))

\* PRL_HR_STATE_PHY_HARD_RESET_REQUESTED, on HRD_SENT or on the timeout
HardResetSent(p) ==
  EnterTransitionToDefault(
    UCPD_PHY_HRDRS_Completed(UCPD_TIM_Stop(p, "HARD_RESET_COMPLETE")))

\* PRL_HR_STATE_REQUEST_HARD_RESET
RequestHardReset(p) ==
  UCPD_TIM_Start(UCPD_PHY_SendHardReset(ResetLayers(p)), "HARD_RESET_COMPLETE")

\* PRL_HR_STATE_INDICATE_HARD_RESET and PE_PRL_EVENT_PE_HARD_RESET_RECEIVED: the
\* layer reports completion before the policy engine hears of the reset.
IndicateHardReset(p) ==
  EnterTransitionToDefault(
    EndRequest(UCPD_PHY_HRDRS_Completed(ResetLayers(p)), "CANCELLED"))

EnterHardReset(p) ==
  RequestHardReset([Go(p, "HARD_RESET") EXCEPT
    !.hrdOriginPE = TRUE, !.hardResetActive = TRUE, !.pps_contract = FALSE,
    !.ams = FALSE, !.ams_first_sent = FALSE, !.epr_mode = FALSE])

EnterSendSoftReset(p) ==
  PassDown([PrlInit(Go(p, "SEND_SOFT_RESET")) EXCEPT !.txKind = "Soft_Reset"])

StartPPSPeriodic(p) ==
  IF p.pps_contract THEN UCPD_TIM_Start(p, "SINK_PPS_PERIODIC") ELSE p

StartKeepAlive(p) ==
  IF p.epr_mode THEN UCPD_TIM_Start(p, "SINK_EPR_KEEP_ALIVE") ELSE p

\* Mutant: the keep-alive timer is only started with a new contract.
ReadyStartsKeepAliveOnce(p) ==
  LET q == StartPPSPeriodic([Go(p, "READY") EXCEPT
             !.ams = FALSE, !.explicit_contract = TRUE, !.ams_first_sent = FALSE])
  IN  IF p.snk = "TRANSITION_SINK" THEN StartKeepAlive(q) ELSE q

EnterReady(p) ==
  StartKeepAlive(StartPPSPeriodic([Go(p, "READY") EXCEPT
    !.ams = FALSE, !.explicit_contract = TRUE, !.ams_first_sent = FALSE]))

\* PE_PRL_EVENT_PE_TRANSMISSION_ERROR
TransmissionError(p) ==
  CASE p.snk = "SEND_SOFT_RESET" -> EnterHardReset(p)
    [] p.snk # "SEND_SOFT_RESET" /\ ~p.ams_first_sent /\ p.explicit_contract ->
         EnterReady(p)
    [] OTHER -> EnterSendSoftReset(p)

\* PE_PRL_EVENT_MESSAGE_FROM_PE.  PRL_TCH_STATE_REPORT_ERROR sets its own state
\* after the policy engine has reacted.
MessageFromPE(p) ==
  IF p.extended /\ p.rch # "WAIT_FOR_MESSAGE_FROM_PRL"
  THEN TchWaitForRequest(TransmissionError([p EXCEPT !.tch = "REPORT_ERROR"]))
  ELSE PassDown(p)

EnterSendNotSupported(p) ==
  MessageFromPE([Go(p, "SEND_NOT_SUPPORTED") EXCEPT !.txKind = "Not_Supported"])

EnterSoftReset(p) ==
  MessageFromPE(
    EndRequest([Go(p, "SOFT_RESET") EXCEPT !.txKind = "Accept"], "CANCELLED"))

EnterSendEPRModeEntry(p) ==
  MessageFromPE([Go(p, "SEND_EPR_MODE_ENTRY") EXCEPT
    !.txKind = "EPREnter", !.response_expected = TRUE, !.entering_epr = TRUE])

EnterSendEPRModeExit(p) ==
  MessageFromPE([Go(p, "SEND_EPR_MODE_EXIT") EXCEPT !.txKind = "EPRExit"])

EnterEPRModeExitReceived(p) ==
  EnterWaitForCapabilities([Go(p, "EPR_MODE_EXIT_RECEIVED") EXCEPT !.epr_mode = FALSE])

EnterEPRKeepAlive(p) ==
  MessageFromPE([Go(p, "EPR_KEEP_ALIVE") EXCEPT
    !.response_expected = TRUE, !.extended = TRUE])

StartTransition(p) ==
  UCPD_TIM_Start(p, IF p.epr_mode THEN "SINK_EPR_TRANSITION" ELSE "PS_TRANSITION")

EnterTransitionSink(p) ==
  StartTransition(UCPD_TIM_Stop(Go(p, "TRANSITION_SINK"), "SENDER_RESPONSE"))

\* An EPR request takes a MessageID of its own before the counter of the last
\* transmission; pps_contract is only set outside EPR mode.
PrepareRequest(p) ==
  IF p.epr_mode THEN [IncrementMID(p) EXCEPT !.txKind = "EPRRequest"]
  ELSE [p EXCEPT !.txKind = "Request", !.pps_contract = SelectsPPS]

EnterSelectCapability(p) ==
  MessageFromPE(PrepareRequest([Go(p, "SELECT_CAPABILITY") EXCEPT
                                  !.response_expected = TRUE]))

\* Mutant of EndPolicyRequest: the waiting caller is forgotten.
PolicyKeepsSync(p) ==
  IF p.explicit_contract THEN Callback([p EXCEPT !.status = "SUCCESS"], "SUCCESS") ELSE p

\* Here the operation is over before its callback is called.
EndPolicyRequest(p) ==
  IF p.explicit_contract
  THEN Callback([p EXCEPT !.status = "SUCCESS", !.sync_operation = FALSE], "SUCCESS")
  ELSE p

\* The policy fills the transmit buffer.
EnterEvaluateCapability(p) ==
  EnterSelectCapability(UserCode(
    EndPolicyRequest([Go(p, "EVALUATE_CAPABILITY") EXCEPT
      !.ams = TRUE, !.pps_periodic_expired = FALSE,
      !.tx = IF p.pps_periodic_expired THEN @ ELSE "SNK_START_OF_AMS"]),
    "POLICY"))

-----------------------------------------------------------------------------
\* UCPD_PE_SM_Delta

\* getPEStateToEnterOnReceive and what each state's entry does.  Only the number of
\* the message type is looked at: Alert, a data message, is taken for PS_RDY, which
\* has the same number among the control messages.  extended_message
\* is cleared before the test that would report ENTER_FAIL to the application, so
\* EPRFail takes the common way to a soft reset.
Receive(p, kind) ==
  CASE kind = "KeepAliveAck"  -> EnterReady(p)
    [] kind = "EPRCaps"       -> EnterEvaluateCapability(p)
    [] kind = "SourceCaps"    -> EnterEvaluateCapability(p)
    [] kind = "Accept"        -> EnterTransitionSink(p)
    [] kind \in {"PS_RDY", "Alert"} -> EnterReady(p)
    [] kind = "Soft_Reset"    -> EnterSoftReset(p)
    [] kind = "Not_Supported" -> EnterReady(UserCode(Go(p, "NOT_SUPPORTED_RECEIVED"), "POLICY"))
    [] kind = "EPRAck"        -> Go(p, "EPR_MODE_ENTRY_WAIT_FOR_RESPONSE")
    [] kind = "EPRSucc"       -> EnterWaitForCapabilities(p)
    [] kind = "EPRFail"       -> EnterSendSoftReset(p)
    [] kind = "EPRExit"       -> EnterEPRModeExitReceived(p)
    [] kind = "Reject"        -> IF p.explicit_contract THEN EnterReady(p)
                                 ELSE EnterWaitForCapabilities(p)
    [] OTHER -> CASE p.snk = "READY"           -> EnterSendNotSupported(p)
                  [] p.snk = "TRANSITION_SINK" -> EnterSendSoftReset(p)
                  [] OTHER                     -> EnterHardReset(p)

\* A complete extended message is read from the extended buffer.  One that comes
\* out of turn is read from the receive buffer, where Extended_Control has the
\* number of Not_Supported and EPR_Source_Capabilities that of nothing known.
MessageReceived(p) ==
  LET kind == CASE p.rxMsg.kind = "Reject" -> "Reject"
                [] p.rxMsg.kind # "Reject" /\ p.extended -> p.extRx
                [] ~p.extended /\ p.rxMsg.kind = "KeepAliveAck" -> "Not_Supported"
                [] ~p.extended /\ p.rxMsg.kind = "EPRCaps" -> "Unknown"
                [] OTHER -> p.rxMsg.kind
  IN  Receive([p EXCEPT !.extended = FALSE], kind)

Sent(p, kind) ==
  CASE kind = "Not_Supported" -> EnterReady(p)
    [] kind \in {"Accept", "EPRExit"} -> EnterWaitForCapabilities(p)
    [] OTHER -> p

AwaitResponse(p) ==
  IF p.response_expected
  THEN [UCPD_TIM_Start(p, "SENDER_RESPONSE") EXCEPT !.response_expected = FALSE]
  ELSE p

AwaitEPREntry(p) ==
  IF p.entering_epr
  THEN [UCPD_TIM_Start(p, "SINK_EPR_ENTER") EXCEPT !.entering_epr = FALSE]
  ELSE p

MessageSent(p) ==
  AwaitEPREntry(AwaitResponse(
    Sent([p EXCEPT !.extended = FALSE, !.ams_first_sent = @ \/ p.ams],
         IF p.extended THEN NONE ELSE p.txKind)))

\* UCPD_PE_SM_SRT_Enter(EXPIRED): also the way SinkWaitCapTimer ends
SenderResponseExpired(p) ==
  IF p.snk \in {"EPR_MODE_ENTRY_WAIT_FOR_RESPONSE", "SEND_EPR_MODE_ENTRY"}
  THEN EnterSendSoftReset(p) ELSE EnterHardReset(p)

VbusPresent(p) == IF p.snk = "DISCOVERY" THEN EnterWaitForCapabilities(p) ELSE p

\* A request of the application, taken in READY only
DpmRequest(p, request) ==
  LET q == [p EXCEPT !.sync_operation = TRUE]
  IN  CASE request = "EPR_MODE_ENTRY" -> EnterSendEPRModeEntry(q)
        [] request = "EPR_MODE_EXIT"  -> EnterSendEPRModeExit(q)
        [] request = "TRIGGER_POLICY" -> EnterEvaluateCapability(q)
        [] request = "HARD_RESET"     -> EnterHardReset(q)

-----------------------------------------------------------------------------
\* What the properties say of a request

\* The state in which a request is carried out
Serving(request) ==
  CASE request = "TRIGGER_POLICY" -> "SELECT_CAPABILITY"
    [] request = "EPR_MODE_ENTRY" -> "SEND_EPR_MODE_ENTRY"
    [] request = "EPR_MODE_EXIT"  -> "SEND_EPR_MODE_EXIT"
    [] request = "HARD_RESET"     -> "HARD_RESET"

\* A message that is passed down while the receiver is in a chunked message, with the flag
\* of extended messages left from a keep-alive that failed, is not sent: the policy engine
\* is led away with the flag still set.
Blocked(p) == p.extended /\ p.snk \in {"READY", "SEND_SOFT_RESET"}

=============================================================================
