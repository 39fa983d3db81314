------------------------------ MODULE UcpdPort ------------------------------
(***************************************************************************)
(* The part of a port that the policy engine and the protocol layer share: *)
(* the fields of UCPD_PE_PRL_CAD_Module, the timers, the message counters  *)
(* and the way down from the policy engine to the wire.                    *)
(*                                                                         *)
(* The two state machines call each other to completion inside one run of  *)
(* the worker, so every entry function of the C code is an operator from a *)
(* port record to the port record it leaves.                               *)
(***************************************************************************)
EXTENDS Naturals

CONSTANTS
  MidMax,       \* largest MessageID, UCPD_CNT_N_MESSAGEID (7) in the code
  NRetry,       \* UCPD_CNT_N_RETRY (2) in the code
  SelectsPPS    \* whether the policy selects a PPS supply when not in EPR mode

ASSUME PortAssumption ==
  /\ MidMax \in Nat \ {0}
  /\ NRetry \in Nat
  /\ SelectsPPS \in BOOLEAN

NONE == "NONE"
MessageIDs == 0 .. MidMax
NoMID == MidMax + 1        \* midStored is false

\* Messages the port sends and receives.  EPRCaps takes two chunks.
TxKinds == {"GoodCRC", "Request", "EPRRequest", "Accept", "Soft_Reset",
            "Not_Supported", "EPREnter", "EPRExit", "KeepAlive", "ChunkRequest"}
ExtKinds == {"EPRCaps", "KeepAliveAck"}
RxKinds == {"GoodCRC", "SourceCaps", "Accept", "Reject", "PS_RDY", "Soft_Reset",
            "Not_Supported", "EPRAck", "EPRSucc", "EPRFail", "EPRExit",
            "Alert", "Unknown"} \cup ExtKinds

NoMessage == [kind |-> NONE, id |-> 0, chunk |-> 0]

LastChunk(kind) == IF kind = "EPRCaps" THEN 1 ELSE 0

Channel1 == {"CHUNK_SENDER_RESPONSE", "SINK_PPS_PERIODIC", "SINK_EPR_ENTER",
             "SINK_EPR_KEEP_ALIVE"}
Channel0 == {"CRC_RECEIVE", "HARD_RESET_COMPLETE", "PS_TRANSITION",
             "SENDER_RESPONSE", "SINK_WAIT_CAP", "SINK_EPR_TRANSITION"}
Timers == Channel0 \cup Channel1
UCPD_TIMER_CHANNEL(t) == IF t \in Channel1 THEN 1 ELSE 0

UCPD_TIMERS_EVENTS(t) ==
  CASE t \in {"SENDER_RESPONSE", "SINK_WAIT_CAP"}      -> "SRT_EXPIRED"
    [] t \in {"PS_TRANSITION", "SINK_EPR_TRANSITION"}  -> "PST_TRANS_TIMEOUT"
    [] OTHER                                           -> t

\* Starting a timer takes its channel from the timer that has it.
UCPD_TIM_Start(p, t) == [p EXCEPT !.tim[UCPD_TIMER_CHANNEL(t)] = t]

UCPD_TIM_Stop(p, t) ==
  [p EXCEPT !.tim[UCPD_TIMER_CHANNEL(t)] = IF @ = t THEN NONE ELSE @]

StopAllTimers(p) == [p EXCEPT !.tim = [c \in {0, 1} |-> NONE]]

\* Mutant: the counter wraps one too late.
IncrementWrapsLate(p) == [p EXCEPT !.mid = IF @ > MidMax THEN 0 ELSE @ + 1]

\* UCPD_CNT_Increment of MESSAGEID, the counter that wraps
IncrementMID(p) == [p EXCEPT !.mid = IF @ + 1 > MidMax THEN 0 ELSE @ + 1]

\* Nothing is sent while transmission is not allowed, and nobody is told.  A hard
\* reset that the hardware was asked for goes first; the message is not sent then.
UCPD_PHY_SendMessage(p) ==
  IF p.txAllowed
  THEN [p EXCEPT !.txAllowed = FALSE,
                 !.air = IF @.kind = "HardReset" THEN @
                         ELSE [kind |-> p.txKind, id |-> p.txID, chunk |-> 0]]
  ELSE p

UCPD_PHY_SendHardReset(p) == [p EXCEPT !.air = [NoMessage EXCEPT !.kind = "HardReset"]]

\* Mutant: the hard reset stays active.
CompletedStaysActive(p) == [p EXCEPT !.txAllowed = TRUE]

UCPD_PHY_HRDRS_Completed(p) ==
  [p EXCEPT !.txAllowed = TRUE, !.hardResetActive = FALSE]

-----------------------------------------------------------------------------
\* The way down

\* Mutant: the retries of a message count for the next one.
WaitKeepsRetry(p) == [p EXCEPT !.tx = "WAIT_FOR_MESSAGE_REQUEST"]

TxWaitForMessageRequest(p) ==
  [p EXCEPT !.tx = "WAIT_FOR_MESSAGE_REQUEST", !.retry = 0]

RchWaitForMessage(p) ==
  [p EXCEPT !.rch = "WAIT_FOR_MESSAGE_FROM_PRL", !.extRx = NONE]

TchWaitForRequest(p) == [p EXCEPT !.tch = "WAIT_FOR_MESSAGE_REQUEST_FROM_PE"]

\* PRL_TX_STATE_CONSTRUCT_MESSAGE sends whatever the transmit buffer holds.
TxConstructMessage(p) ==
  [UCPD_PHY_SendMessage([p EXCEPT !.txID = p.mid])
     EXCEPT !.tx = "WAIT_FOR_PHY_RESPONSE"]

TxPending(p) ==
  IF p.sinkTxOk THEN TxConstructMessage(p) ELSE [p EXCEPT !.tx = "SNK_PENDING"]

TxRequest(p) ==
  IF p.tx = "WAIT_FOR_MESSAGE_REQUEST" THEN TxConstructMessage(p) ELSE TxPending(p)

TchPassDownMessage(p) ==
  TxRequest([p EXCEPT !.tch = "WAIT_FOR_TRANSMISSION_COMPLETE"])

\* The only extended message the policy engine prepares is the keep-alive, two
\* bytes that fit in chunk 0, so lastChunk is always set.
TchSendChunk(p) ==
  TxRequest([p EXCEPT !.tch = "SENDING_CHUNKED_MESSAGE", !.txKind = "KeepAlive"])

\* PE_PRL_EVENT_MESSAGE_FROM_PE when the chunked receiver is idle or the message
\* is not extended
PassDown(p) ==
  IF p.extended THEN TchSendChunk(p) ELSE TchPassDownMessage(p)

\* UCPD_PRL_SM_Delta(PRL_INIT): neither midStored nor extended_message is reset.
PrlInit(p) ==
  [TxWaitForMessageRequest(RchWaitForMessage(TchWaitForRequest(p)))
     EXCEPT !.rx = "WAIT_FOR_PHY_MESSAGE", !.mid = 0]

\* PRL_HR_STATE_RESET_LAYER up to the choice between indicating and requesting
ResetLayers(p) == PrlInit(StopAllTimers(p))

=============================================================================
