----------------------------- MODULE UcpdStack -----------------------------
(***************************************************************************)
(* One attached port and the source it talks to.  The worker handles the   *)
(* events in its slots to completion; between its runs the wire, the       *)
(* timers, VBUS and the application move.                                  *)
(*                                                                         *)
(* The wire is half-duplex: p.air is what the port transmits, wire what    *)
(* the source transmits.  The worker is fast enough to take an event of    *)
(* the wire before the next one arrives (module UcpdMailbox models what    *)
(* happens when it is not); a timer may expire at any moment.              *)
(*                                                                         *)
(* The source is external.  It speaks in turn, waits for a GoodCRC, sends  *)
(* again when none comes, and resets when it has tried often enough.       *)
(***************************************************************************)
EXTENDS UcpdProtocol, FiniteSets

CONSTANTS
  SourceSends,    \* what the source may send of its own accord in a contract
  Requests,       \* what the application may ask for
  MaxLosses,      \* messages lost on the wire, both ways together
  MaxResets,      \* hard resets of the source
  Collisions,     \* whether the source may start while the port transmits
  RpChanges,      \* whether the source's Rp changes
  Pace            \* how the source's answers compare with the timers of the port

ASSUME StackAssumption ==
  /\ SourceSends \subseteq {"SourceCaps", "Alert", "Unknown", "EPRExit", "Soft_Reset",
                      "EPRFail"}
  /\ Requests \subseteq {"EPR_MODE_ENTRY", "EPR_MODE_EXIT", "TRIGGER_POLICY", "HARD_RESET"}
  /\ MaxLosses \in Nat
  /\ MaxResets \in Nat
  /\ Collisions \in BOOLEAN
  /\ RpChanges \in BOOLEAN
  /\ Pace \in {"PROMPT", "SLOW", "RACE"}

VARIABLES
  p,        \* UCPD_PE_PRL_CAD_Module with the timers and counters of the port
  pwr,      \* pwr_event
  phy,      \* phy_event
  tim,      \* timer_event
  pend,     \* the worker is pended
  wire,     \* the message the source is sending, or NONE
  src,      \* the source
  losses,   \* messages lost so far
  waiting,  \* requests whose callback has not been called
  told      \* the last callback made

vars == <<p, pwr, phy, tim, pend, wire, src, losses, waiting, told>>

-----------------------------------------------------------------------------
\* The source

\* What the port may say in each turn of the source.
Expects == [
  CAPS    |-> {"KeepAlive", "EPREnter", "EPRExit", "Request", "EPRRequest"},
  REQUEST |-> {"Request", "EPRRequest", "ChunkRequest", "KeepAlive"},
  ANSWER  |-> {},
  SUPPLY  |-> {},
  CONTRACT |-> {"Request", "EPRRequest", "EPREnter", "EPRExit", "KeepAlive",
                "Not_Supported", "ChunkRequest"},
  CHUNK   |-> {"ChunkRequest"},
  EPRACK  |-> {},
  EPRSUCC |-> {},
  ALIVE   |-> {},
  SOFT    |-> {},
  RESET   |-> {"Accept"},
  OFF     |-> {},
  DEAD    |-> {}]

Turns == DOMAIN Expects

\* The source may refuse to enter EPR mode.
EPRRefusal == {<<k, "CONTRACT">> : k \in SourceSends \cap {"EPRFail"}}

\* What the source says in each turn, and the turn that follows.
Says(s) ==
  CASE s.turn = "CAPS"    -> {IF s.epr THEN <<"EPRCaps", "REQUEST">>
                              ELSE <<"SourceCaps", "REQUEST">>}
    [] s.turn = "CHUNK"   -> {<<"EPRCaps", "REQUEST">>}
    [] s.turn = "ANSWER"  -> {<<"Accept", "SUPPLY">>}
    [] s.turn = "SUPPLY"  -> {<<"PS_RDY", "CONTRACT">>}
    [] s.turn = "EPRACK"  -> {<<"EPRAck", "EPRSUCC">>} \cup EPRRefusal
    [] s.turn = "EPRSUCC" -> {<<"EPRSucc", "CAPS">>} \cup EPRRefusal
    [] s.turn = "ALIVE"   -> {<<"KeepAliveAck", "CONTRACT">>}
    [] s.turn = "SOFT"    -> {<<"Accept", "CAPS">>}
    [] s.turn = "CONTRACT" ->
         {<<k, CASE k = "SourceCaps" -> "REQUEST"
                 [] k = "EPRExit"    -> "CAPS"
                 [] k = "Soft_Reset" -> "RESET"
                 [] OTHER            -> "CONTRACT">> :
            k \in SourceSends \ ({"EPRFail"} \cup IF s.epr THEN {} ELSE {"EPRExit"})}
    [] OTHER -> {}

Hears(kind) ==
  CASE kind \in {"Request", "EPRRequest"} -> "ANSWER"
    [] kind = "ChunkRequest"  -> "CHUNK"
    [] kind = "EPREnter"      -> "EPRACK"
    [] kind = "EPRExit"       -> "CAPS"
    [] kind = "KeepAlive"     -> "ALIVE"
    [] kind = "Soft_Reset"    -> "SOFT"
    [] kind = "Accept"        -> "CAPS"
    [] kind = "Not_Supported" -> "CONTRACT"

NewSource ==
  [turn |-> "CAPS", epr |-> FALSE, id |-> 0, seen |-> NoMID, out |-> NoMessage,
   next |-> "CAPS", tries |-> 0, owes |-> NoMID, got |-> 0, acked |-> FALSE,
   resets |-> 0, heard |-> NONE, surprised |-> FALSE, mistaken |-> FALSE]

NextMID(id) == IF id = MidMax THEN 0 ELSE id + 1

\* A source that is off hears nothing, and one that resets the link only that.
Listens(s, m) ==
  /\ s.turn \notin {"OFF", "DEAD"}
  /\ s.out.kind = "Soft_Reset" => m.kind \in {"Accept", "Soft_Reset"}

\* The source takes a message: a retransmission is only acknowledged, anything else
\* makes it drop what it was sending and use the next MessageID.  It is surprised by
\* a message that its turn does not expect, or that the turn after what it was
\* sending does not, and mistaken about one that it takes for a retransmission of
\* another.
SourceHears(s, m) ==
  LET new  == m.kind = "Soft_Reset" \/ m.id # s.seen
      busy == s.out # NoMessage
      expected == Expects[s.turn] \cup IF busy THEN Expects[s.next] ELSE {}
  IN  IF ~new THEN [s EXCEPT !.owes = m.id, !.mistaken = m.kind # s.heard]
      ELSE [s EXCEPT !.owes = m.id, !.seen = m.id, !.heard = m.kind,
                     !.turn = Hears(m.kind), !.out = NoMessage,
                     !.id = CASE m.kind = "Soft_Reset" -> 0
                              [] m.kind # "Soft_Reset" /\ busy -> NextMID(@)
                              [] OTHER -> @,
                     !.epr = @ /\ m.kind # "EPRExit",
                     !.surprised = m.kind \notin expected \cup {"Soft_Reset"}]

-----------------------------------------------------------------------------
Init ==
  /\ p = Attach
  /\ pwr = NONE
  /\ phy = NONE
  /\ tim = NONE
  /\ pend = FALSE
  /\ wire = NoMessage
  /\ src = NewSource
  /\ losses = 0
  /\ waiting = {}
  /\ told = NoCall

-----------------------------------------------------------------------------
\* UCPD_Worker: the slots are read and cleared, and the handler runs.
Handling(user) ==
  UCPD_PE_PRL_Handler([p EXCEPT !.told = NoCall, !.user = user], pwr, phy, tim)

Handled(q) ==
  /\ p' = [q EXCEPT !.passedUp = FALSE, !.told = NoCall, !.user = NoUserCode]
  /\ src' = IF q.passedUp THEN [src EXCEPT !.got = IF @ < 2 THEN @ + 1 ELSE @] ELSE src

CallbacksCalled(q) ==
  IF q.told = NoCall THEN UNCHANGED <<waiting, told>>
  ELSE /\ told' = [request |-> q.told.request, status |-> q.told.status,
                   owed |-> q.told.request \in waiting]
       /\ waiting' = waiting \ {q.told.request}

SlotsTaken ==
  /\ pend /\ pend' = FALSE
  /\ pwr' = NONE
  /\ phy' = NONE
  /\ tim' = NONE

\* The application's code makes no call of its own here (UcpdApi has those).
Worker ==
  /\ SlotsTaken
  /\ Handled(Handling(NoUserCode))
  /\ CallbacksCalled(Handling(NoUserCode))
  /\ UNCHANGED <<wire, losses>>

\* An interrupt posts an event and pends the worker.
PostPhy(event) == phy' = event /\ pend' = TRUE

Lose == losses < MaxLosses /\ losses' = losses + 1

\* Bound: the wire reports one event at a time.
WireFree == wire = NoMessage /\ phy = NONE

\* The source starts a message: RXORDDET, UCPD_PHY_RX_Started.
Speak(m) ==
  /\ wire' = m
  /\ IF p.air = NoMessage
     THEN /\ p' = [p EXCEPT !.txAllowed = FALSE]
          /\ UNCHANGED <<phy, pend>>
     ELSE /\ Collisions
          /\ p' = [p EXCEPT !.txAllowed = FALSE, !.air = NoMessage]
          /\ PostPhy("MSG_TX_DISCARDED")

SourceGoodCRC ==
  /\ WireFree /\ p.air = NoMessage
  /\ src.owes # NoMID
  /\ Speak([kind |-> "GoodCRC", id |-> src.owes, chunk |-> 0])
  /\ src' = [src EXCEPT !.owes = NoMID]
  /\ UNCHANGED <<pwr, tim, losses, waiting, told>>

SourceSpeaks ==
  /\ WireFree /\ p.cad = "ATTACHED"
  /\ src.owes = NoMID /\ src.out = NoMessage
  /\ p.air.kind \notin {"HardReset", "GoodCRC"}
  /\ \E say \in Says(src) :
       LET m == [kind |-> say[1], id |-> IF say[1] = "Soft_Reset" THEN 0 ELSE src.id,
                 chunk |-> IF src.turn = "CHUNK" THEN 1 ELSE 0]
       IN  /\ Speak(m)
           /\ src' = [src EXCEPT !.out = m, !.id = m.id, !.next = say[2], !.tries = 0,
                                 !.got = 0, !.acked = FALSE,
                                 !.seen = IF say[1] = "Soft_Reset" THEN NoMID ELSE @]
  /\ UNCHANGED <<pwr, tim, losses, waiting, told>>

\* No GoodCRC came in time: the port answers within the time or not at all.  The
\* port waits as long for a GoodCRC, and has begun before.
GoodCRCMissed ==
  /\ WireFree /\ ~pend /\ p.cad = "ATTACHED" /\ p.air = NoMessage
  /\ src.out # NoMessage /\ src.owes = NoMID
  /\ Pace = "RACE" \/ p.tim[0] # "CRC_RECEIVE"

SourceRetries ==
  /\ GoodCRCMissed /\ src.tries < NRetry
  /\ Speak(src.out)
  /\ src' = [src EXCEPT !.tries = @ + 1]
  /\ UNCHANGED <<pwr, tim, losses, waiting, told>>

\* RXMSGEND: UCPD_PHY_RX_Complete, then the event unless the message was damaged.
Received ==
  /\ wire # NoMessage /\ phy = NONE
  /\ wire' = NoMessage
  /\ \/ /\ p' = [p EXCEPT !.txAllowed = TRUE, !.rxMsg = wire]
        /\ PostPhy("MSG_RX_COMPLETE")
        /\ UNCHANGED losses
     \/ /\ Lose
        /\ p' = [p EXCEPT !.txAllowed = TRUE]
        /\ UNCHANGED <<phy, pend>>
  /\ UNCHANGED <<pwr, tim, src, waiting, told>>

\* TXMSGSENT: UCPD_PHY_TX_Complete; the source takes the message or misses it.
Transmitted ==
  /\ WireFree
  /\ p.air.kind \notin {NONE, "HardReset"}
  /\ p' = [p EXCEPT !.txAllowed = TRUE, !.air = NoMessage]
  /\ PostPhy("MSG_TX_COMPLETED")
  /\ \/ /\ p.air.kind = "GoodCRC"
        /\ src' = IF src.out # NoMessage /\ src.out.id = p.air.id
                  THEN [src EXCEPT !.out = NoMessage, !.turn = src.next, !.acked = TRUE,
                                   !.id = NextMID(@),
                                   !.epr = CASE src.out.kind = "EPRSucc" -> TRUE
                                             [] src.out.kind = "EPRExit" -> FALSE
                                             [] OTHER -> @]
                  ELSE src
        /\ UNCHANGED losses
     \/ /\ p.air.kind # "GoodCRC"
        /\ src' = IF Listens(src, p.air) THEN SourceHears(src, p.air) ELSE src
        /\ UNCHANGED losses
     \/ Lose /\ UNCHANGED src
  /\ UNCHANGED <<pwr, tim, wire, waiting, told>>

\* HRSTSENT: the source is reset, too.
HardResetTransmitted ==
  /\ WireFree
  /\ p.air.kind = "HardReset"
  /\ p' = [p EXCEPT !.air = NoMessage]
  /\ PostPhy("HRD_SENT")
  /\ src' = [NewSource EXCEPT !.turn = "OFF", !.resets = src.resets]
  /\ UNCHANGED <<pwr, tim, wire, losses, waiting, told>>

\* The source is at the end of its retries, or the message that it waits for does
\* not come.  (Its attempts to recover end with a hard reset.)
GivesUp ==
  \/ GoodCRCMissed /\ src.tries = NRetry
  \/ /\ WireFree /\ ~pend /\ p.cad = "ATTACHED" /\ p.air = NoMessage
     /\ src.out = NoMessage /\ src.turn \in {"REQUEST", "CHUNK", "RESET"}
     /\ p.tim[0] = NONE

\* RXHRSTDET: UCPD_PHY_HRDRS_Received and the helper it pends.
SourceHardReset ==
  /\ GivesUp \/ src.resets < MaxResets
  /\ src.turn \notin {"OFF", "DEAD"}
  /\ p.cad = "ATTACHED"
  /\ phy = NONE
  /\ p' = [p EXCEPT !.hardResetActive = TRUE, !.txAllowed = FALSE, !.air = NoMessage]
  /\ PostPhy("HRD_RECEIVED")
  /\ wire' = NoMessage
  /\ src' = [NewSource EXCEPT !.turn = "OFF",
                !.resets = IF GivesUp THEN src.resets ELSE src.resets + 1]
  /\ UNCHANGED <<pwr, tim, losses, waiting, told>>

\* The source's Rp changes between SinkTxNG and SinkTxOk: TYPECEVT.
SinkTx ==
  /\ RpChanges
  /\ phy = NONE /\ p.cad = "ATTACHED"
  /\ p' = [p EXCEPT !.sinkTxOk = ~@]
  /\ PostPhy("CONN_DETECTED")
  /\ UNCHANGED <<pwr, tim, wire, src, losses, waiting, told>>

\* The source takes VBUS away, as part of a hard reset or because it is unplugged.
VbusRemoved ==
  /\ pwr = NONE /\ ~pend /\ wire = NoMessage
  /\ src.turn # "DEAD"
  /\ src.turn = "OFF" \/ src.resets < MaxResets
  /\ src' = [NewSource EXCEPT !.turn = "DEAD", !.resets =
                IF src.turn = "OFF" THEN src.resets ELSE src.resets + 1]
  /\ p' = [p EXCEPT !.vS0_to_vS5 = FALSE]
  /\ pwr' = "VBUS_REMOVED" /\ pend' = TRUE
  /\ UNCHANGED <<phy, tim, wire, losses, waiting, told>>

\* VBUS reaches vSafe5V again.  (It takes far longer than any message on the wire.)
VbusReturns ==
  /\ pwr = NONE /\ ~pend /\ p.air = NoMessage
  /\ src.turn = "DEAD"
  /\ src' = [src EXCEPT !.turn = "CAPS"]
  /\ p' = [p EXCEPT !.vS0_to_vS5 = TRUE]
  /\ pwr' = "VBUS_DETECTED" /\ pend' = TRUE
  /\ UNCHANGED <<phy, tim, wire, losses, waiting, told>>

\* UCPD_CAD_SM_Enter(ATTACHED): the connection was debounced while VBUS is there.
Reattach ==
  /\ p.cad = "UNATTACHED" /\ src.turn # "DEAD"
  /\ wire = NoMessage /\ pwr = NONE /\ ~pend
  /\ p' = Attach
  /\ UNCHANGED <<pwr, phy, tim, pend, wire, src, losses, waiting, told>>

\* UCPD_TIM_Expired.  A PROMPT source answers before any timer expires, a SLOW one
\* may not; in a RACE the answer may be under way or wait for the worker.
Quiet == wire = NoMessage /\ phy = NONE /\ p.air = NoMessage /\ src.owes = NoMID

MayExpire(t) ==
  \/ Pace = "RACE"
  \/ Quiet /\ (Pace = "SLOW" \/ t = "CRC_RECEIVE")
  \/ Quiet /\ src.out = NoMessage /\ (src.turn = "CONTRACT" \/ Says(src) = {})

UCPD_TIM_Expired(c) ==
  /\ p.tim[c] # NONE /\ tim = NONE
  /\ MayExpire(p.tim[c])
  /\ tim' = UCPD_TIMERS_EVENTS(p.tim[c])
  /\ p' = [p EXCEPT !.tim[c] = NONE]
  /\ pend' = TRUE
  /\ UNCHANGED <<pwr, phy, wire, src, losses, waiting, told>>

\* An asynchronous request of the application
RequestAsync(request) ==
  /\ p.cad = "ATTACHED" /\ p.dpm_event = NONE
  /\ request = "EPR_MODE_ENTRY" => ~p.epr_mode
  /\ request = "EPR_MODE_EXIT" => p.epr_mode
  /\ request \notin waiting
  /\ p' = [p EXCEPT !.dpm_event = request, !.callback = request]
  /\ pend' = TRUE
  /\ waiting' = waiting \cup {request}
  /\ UNCHANGED <<pwr, phy, tim, wire, src, losses, told>>

Next ==
  \/ Worker
  \/ SourceGoodCRC
  \/ SourceSpeaks
  \/ SourceRetries
  \/ Received
  \/ Transmitted
  \/ HardResetTransmitted
  \/ SourceHardReset
  \/ SinkTx
  \/ VbusRemoved
  \/ VbusReturns
  \/ Reattach
  \/ \E c \in {0, 1} : UCPD_TIM_Expired(c)
  \/ \E request \in Requests : RequestAsync(request)

Spec == Init /\ [][Next]_vars

-----------------------------------------------------------------------------
\* Fairness: the source answers and repeats, VBUS comes back, timers expire and a
\* pended worker runs.  The application, the losses and what the source does of its
\* own accord are not owed.
SourceAnswers == src.turn # "CONTRACT" /\ SourceSpeaks

Progress ==
  \/ SourceGoodCRC
  \/ SourceAnswers
  \/ SourceRetries
  \/ Received
  \/ Transmitted
  \/ HardResetTransmitted
  \/ GivesUp /\ SourceHardReset
  \/ src.turn = "OFF" /\ VbusRemoved
  \/ VbusReturns
  \/ Reattach

\* Worker clears pend and nothing else does.
WorkerRuns == pend /\ pend' = FALSE

Fairness ==
  /\ WF_pend(WorkerRuns)
  /\ WF_vars(Progress)
  /\ \A c \in {0, 1} : WF_vars(UCPD_TIM_Expired(c))

FairSpec == Spec /\ Fairness

-----------------------------------------------------------------------------
\* Between two runs of the worker the state machines are in states that wait for an
\* event, never in one of those they pass through, and the counters in their ranges
\* (the state enums of ucpd_pe_prl.h, UCPD_CNT_Increment).
TypeOK ==
  /\ p.snk \in SnkStates
  /\ p.rx \in {"WAIT_FOR_PHY_MESSAGE", "SEND_GOODCRC"}
  /\ p.tx \in {"WAIT_FOR_MESSAGE_REQUEST", "SNK_START_OF_AMS", "SNK_PENDING",
               "WAIT_FOR_PHY_RESPONSE"}
  /\ p.rch \in {"WAIT_FOR_MESSAGE_FROM_PRL", "REQUESTING_CHUNK", "WAITING_CHUNK"}
  /\ p.tch \in {"WAIT_FOR_MESSAGE_REQUEST_FROM_PE", "WAIT_FOR_TRANSMISSION_COMPLETE",
                "SENDING_CHUNKED_MESSAGE"}
  /\ p.mid \in MessageIDs /\ p.retry \in 0 .. NRetry
  /\ p.tim \in [{0, 1} -> Timers \cup {NONE}]
  /\ phy \in PhyEvents \cup {NONE}

\* What the source takes as received (a GoodCRC came back) has been handed to the
\* policy engine, and nothing is handed up twice, however often a message or its
\* GoodCRC is lost (PRL_RX_STATE_CHECK_MESSAGEID and _STORE_MESSAGEID).
DeliveredOnce ==
  /\ src.got <= 1
  /\ src.acked /\ phy # "MSG_TX_COMPLETED" => src.got = 1

\* A port that draws power on a new contract is always guarded by the timer that
\* leads to a hard reset when PS_RDY stays away: another timer of the same channel
\* never takes it over (PE_SNK_STATE_TRANSITION_SINK, UCPD_TIM_Start).
TransitionGuarded ==
  p.cad = "ATTACHED" /\ p.snk = "TRANSITION_SINK" =>
    \/ p.tim[0] \in {"PS_TRANSITION", "SINK_EPR_TRANSITION"}
    \/ tim = "PST_TRANS_TIMEOUT"

\* The port never sends a message that the source cannot expect at that point of
\* the conversation (the source would answer it with a reset).
NotSurprised == ~src.surprised

\* The source never takes a new message of the port for a retransmission: each new
\* message has a MessageID of its own (UCPD_CNT_Increment at prl_sm.c:375 and :391).
NotMistaken == ~src.mistaken

\* A port that is in READY and has nothing to do agrees with the source that there is
\* a contract, unless the source went away or is about to.
ContractAgreed ==
  p.cad = "ATTACHED" /\ p.snk = "READY" /\ Quiet /\ ~pend =>
    src.turn \in {"CONTRACT", "OFF", "DEAD"} \/ src.next = "CONTRACT"

\* In EPR mode the keep-alive timer runs whenever the policy engine is in READY:
\* none of the three timers that share its channel displaces it.
KeepAliveGuarded ==
  p.cad = "ATTACHED" /\ p.snk = "READY" /\ p.epr_mode =>
    p.tim[1] = "SINK_EPR_KEEP_ALIVE" \/ tim # NONE

\* In READY, with nothing under way, port and source agree on whether the contract is
\* an EPR contract, after entries, exits and hard resets in any order.
EprAgreed ==
  p.cad = "ATTACHED" /\ p.snk = "READY" /\ Quiet /\ ~pend => p.epr_mode = src.epr

\* Whatever was lost, refused or reset, the port gets back to an explicit contract,
\* again and again.
Recovers == []<>p.explicit_contract

\* A request that the application has made is answered, or the port is detached,
\* provided that fewer messages are lost than the port repeats one.
Answered ==
  \A r \in Requests : p.dpm_event = r ~> r \notin waiting \/ p.cad = "UNATTACHED"

\* A callback is called for a request that is waiting for it: "if callback is null it
\* means no async api calls were made inside policy or callback" (pe_prl.c:88).
CallbackOnce == told # NoCall => told.owed
=============================================================================
