------------------------------ MODULE UcpdLink -------------------------------
(***************************************************************************)
(* How the port, the slots, the wire and the source agree between two runs *)
(* of the worker, outside EPR mode: the inductive invariants behind        *)
(* TransitionGuarded (LinkInv), with the MessageIDs, the retries and the   *)
(* losses NotMistaken (CountInv), and with the turns of the conversation   *)
(* NotSurprised, ContractAgreed and DeliveredOnce (Conversation); and the  *)
(* one behind KeepAliveGuarded, in EPR mode (AliveInv).                    *)
(***************************************************************************)
EXTENDS UcpdStack, UcpdSprProofs

\* The steps outside the worker change fields of the port that Port does not look at,
\* the request and the timers excepted.
SInv ==
  /\ AtRest(p)
  /\ phy \in PhyEvents \cup {NONE}

SourceFields == {"turn", "epr", "id", "seen", "out", "next", "tries", "owes", "got",
                 "acked", "resets", "heard", "surprised", "mistaken"}
SprTurns == {"CAPS", "REQUEST", "ANSWER", "SUPPLY", "CONTRACT", "SOFT", "RESET", "OFF", "DEAD"}

\* The source, outside EPR mode
SprSource ==
  /\ DOMAIN src = SourceFields
  /\ src.epr = FALSE
  /\ src.turn \in SprTurns
  /\ src.next \in SprTurns
  /\ src.out.kind \in {NONE} \cup SprRx
  /\ wire.kind \in SprReceived
  /\ p.rxMsg.kind \in SprReceived

\* A GoodCRC is on its way to the port.
GoodCRCDue ==
  \/ src.owes # NoMID
  \/ wire.kind = "GoodCRC"
  \/ phy = "MSG_RX_COMPLETE" /\ p.rxMsg.kind = "GoodCRC"

\* The port and what the PHY has to tell it
PhyAgrees ==
  /\ phy \notin HardResets => Steady(p)
  /\ phy \in HardResets => /\ p.hardResetActive = TRUE /\ p.air = NoMessage
                           /\ src.owes = NoMID /\ wire = NoMessage
  /\ phy = "HRD_SENT" => p.snk = "HARD_RESET"
  /\ phy \in {"MSG_TX_COMPLETED", "MSG_TX_DISCARDED"} =>
       p.air = NoMessage /\ tim = NONE /\ p.tim[0] # "CRC_RECEIVE"
  /\ phy = "MSG_TX_COMPLETED" =>
       wire = NoMessage /\ (p.txKind # "GoodCRC" => AwaitsPhy(p))
  /\ phy = "MSG_RX_COMPLETE" => wire = NoMessage

\* The port and the wire
WireAgrees ==
  /\ Sends(p) => /\ wire = NoMessage /\ phy \in {NONE, "CONN_DETECTED"}
                 /\ src.owes = NoMID /\ tim = NONE
  /\ GoodCRCDue => AwaitsPhy(p) /\ tim = NONE /\ p.air = NoMessage
  /\ src.owes # NoMID => /\ phy \in {NONE, "MSG_TX_COMPLETED", "CONN_DETECTED"}
                         /\ wire = NoMessage
  /\ wire.kind = "GoodCRC" => phy \in {NONE, "CONN_DETECTED"}
  /\ wire # NoMessage => p.txAllowed = FALSE
  /\ src.turn \in {"OFF", "DEAD"} =>
       src.owes = NoMID /\ wire = NoMessage /\ src.out = NoMessage
  /\ pwr = "VBUS_REMOVED" => src.turn \in {"OFF", "DEAD"}

\* The port and a timer that has expired
TimerAgrees ==
  /\ tim \in SprTimerEvents
  /\ tim # NONE => p.snk # "HARD_RESET"
  /\ tim \notin {NONE, "SINK_PPS_PERIODIC"} => p.tim[0] = NONE
  /\ tim = "CRC_RECEIVE" => AwaitsPhy(p)
  /\ tim = "PST_TRANS_TIMEOUT" => p.snk = "TRANSITION_SINK"
  /\ tim = "SINK_PPS_PERIODIC" => p.snk = "READY"

Detached ==
  /\ p.air = NoMessage /\ p.tim = [c \in {0, 1} |-> NONE]
  /\ phy = NONE /\ tim = NONE /\ wire = NoMessage
  /\ src.owes = NoMID /\ src.out = NoMessage
  /\ p.dpm_event = NONE

\* Whenever the worker does not run: the state machines wait for what the PHY or a timer
\* will report, a GoodCRC that is due is waited for, nothing is to be sent while the wire
\* is busy, a detached port has nothing left, and a transition has its timer. The code has
\* no such check: events reach the states that UCPD_PE_SM_Delta takes them in only because
\* of the order in which worker, PHY and timers act.
LinkInv ==
  /\ SInv
  /\ Sound(p)
  /\ SprSource
  /\ PhyAgrees
  /\ WireAgrees
  /\ TimerAgrees
  /\ p.cad \in {"ATTACHED", "UNATTACHED"}
  /\ p.cad = "UNATTACHED" => Detached
  /\ p.cad = "ATTACHED" => Guarded(p) \/ tim = "PST_TRANS_TIMEOUT"

-----------------------------------------------------------------------------
\* How many MessageIDs the last message that the source took is behind the counter
Behind(seen, mid) == IF seen <= mid THEN mid - seen ELSE mid + MidMax + 1 - seen

Lag == Behind(src.seen, p.mid)

\* The message of the port has left it, and no GoodCRC is due for it.
Unanswered == AwaitsPhy(p) /\ p.air = NoMessage /\ ~GoodCRCDue

\* The timer that misses the GoodCRC runs, will be started or has expired.
CrcDue == phy = "MSG_TX_COMPLETED" \/ tim = "CRC_RECEIVE" \/ p.tim[0] = "CRC_RECEIVE"

\* The losses that the message of the port has cost so far. One that was not allowed to be
\* sent again has no timer: only a reset takes the port out of that state.
Spent ==
  IF Unanswered /\ ~CrcDue /\ phy # "MSG_TX_DISCARDED" THEN 0
  ELSE p.retry + IF Unanswered /\ CrcDue THEN 1 ELSE 0

\* The port resets the link: whatever it said last does not matter.
Resetting == p.snk = "HARD_RESET" \/ Restarts(p)

\* Both MessageID counters, and what the slots and the wire hold
IDsAgree ==
  /\ src.seen \in MessageIDs \cup {NoMID}
  /\ src.owes # NoMID => src.owes = p.mid /\ src.seen = p.mid
  /\ wire.kind = "GoodCRC" => wire.id = p.mid /\ src.seen = p.mid
  /\ phy = "MSG_RX_COMPLETE" /\ p.rxMsg.kind = "GoodCRC" =>
       p.rxMsg.id = p.mid /\ src.seen = p.mid
  /\ wire # NoMessage /\ wire.kind # "GoodCRC" => wire = src.out
  /\ phy = "MSG_RX_COMPLETE" /\ p.rxMsg.kind # "GoodCRC" => p.rxMsg = src.out

\* A source that has been reset remembers no MessageID.
ResetAgrees ==
  /\ src.out.kind = "Soft_Reset" => src.seen = NoMID
  /\ src.turn \in {"OFF", "DEAD"} => src.seen = NoMID
  /\ src.next \notin {"OFF", "DEAD"}
  /\ phy \in HardResets => src.seen = NoMID
  /\ p.cad = "UNATTACHED" => src.seen = NoMID

\* The slot of the PHY
SlotAgrees ==
  /\ phy # NONE => pend
  /\ phy = "MSG_TX_DISCARDED" => p.txAllowed = FALSE /\ p.txKind # "GoodCRC"

\* What the source took last is what the port waits for, or it is behind by as many messages
\* as the losses have made the port give up.
SeenAgrees ==
  /\ AwaitsPhy(p) /\ src.seen = p.mid /\ p.txKind # "Soft_Reset" => src.heard = p.txKind
  /\ ~Resetting =>
       /\ src.seen = p.mid => AwaitsPhy(p)
       /\ src.seen \notin {NoMID, p.mid} => NRetry * Lag + Spent <= NRetry + losses

\* The invariant behind NotMistaken: a message that the source has taken keeps its MessageID
\* until its GoodCRC arrives or the retries are used up, which takes NRetry losses, and the
\* counter comes round to the same MessageID only after MidMax messages.
CountInv ==
  /\ Tally(p)
  /\ losses \in 0 .. MaxLosses
  /\ IDsAgree
  /\ ResetAgrees
  /\ SlotAgrees
  /\ SeenAgrees

-----------------------------------------------------------------------------
\* The conversation of a port q and a source s, with what is in the slots of the PHY (e)
\* and the timers (t)

\* Neither is being reset, detached or off.
Talking(q, s) ==
  q.cad = "ATTACHED" /\ q.snk # "HARD_RESET" /\ s.turn \notin {"OFF", "DEAD"}

\* The turn that the port has come to: it has handled what the source is sending, or not yet.
Stage(s) == IF s.out # NoMessage /\ s.got = 1 THEN s.next ELSE s.turn

\* The GoodCRC has reached the source, the message not yet the policy engine.
Handing(s) == s.acked = TRUE /\ s.got = 0

\* The turns in which the source says a message, and the one that follows
Leads == [SourceCaps |-> {"CAPS", "CONTRACT"}, Accept |-> {"ANSWER"}, PS_RDY |-> {"SUPPLY"},
          Alert |-> {"CONTRACT"}, Unknown |-> {"CONTRACT"}, Soft_Reset |-> {"CONTRACT"}]
Follows == [SourceCaps |-> "REQUEST", Accept |-> "SUPPLY", PS_RDY |-> "CONTRACT",
            Alert |-> "CONTRACT", Unknown |-> "CONTRACT", Soft_Reset |-> "RESET"]

\* The port has a contract, and nothing that it has said may change it.
UnderContract(q) == q.explicit_contract = TRUE /\ q.ams_first_sent = FALSE

\* The source is in its turn.
InTurn(s) ==
  /\ s.id \in MessageIDs /\ s.got \in {0, 1} /\ s.acked \in BOOLEAN /\ s.turn # "SOFT"
  /\ s.out # NoMessage =>
       /\ s.out.id = s.id /\ s.out.kind \in SprRx /\ s.acked = FALSE
       /\ s.turn \in Leads[s.out.kind] /\ s.next = Follows[s.out.kind]

\* The policy engine is where the turn asks for it.
Matches(q, s, turn) ==
  /\ turn = "CAPS" =>
       \/ q.snk = "WAIT_FOR_CAPABILITIES"
       \/ q.snk = "SOFT_RESET" /\ AwaitsPhy(q) /\ s.seen = q.mid
  /\ turn = "REQUEST" =>
       /\ q.snk = "SELECT_CAPABILITY" /\ q.tx # "WAIT_FOR_MESSAGE_REQUEST"
       /\ s.seen # q.mid
       /\ q.storedMID = q.rxMsg.id /\ q.rxMsg.kind = "SourceCaps"
  /\ turn = "ANSWER" =>
       /\ q.snk = "SELECT_CAPABILITY"
       /\ \/ q.tx = "WAIT_FOR_MESSAGE_REQUEST"
          \/ AwaitsPhy(q) /\ s.seen = q.mid
  /\ turn = "SUPPLY" => q.snk = "TRANSITION_SINK"
  /\ turn = "CONTRACT" =>
       /\ UnderContract(q)
       /\ \/ q.snk = "READY"
          \/ q.snk = "SEND_NOT_SUPPORTED" /\ AwaitsPhy(q) /\ q.pps_contract = FALSE
          \/ q.snk = "SELECT_CAPABILITY" /\ AwaitsPhy(q) /\ s.seen # q.mid
  /\ turn = "RESET" => q.snk = "SOFT_RESET" /\ AwaitsPhy(q) /\ s.seen # q.mid

\* The port has nothing new to say to the source.
Content(q, s, t) ==
  /\ AwaitsPhy(q) => s.seen = q.mid
  /\ q.tx # "SNK_PENDING"
  /\ q.snk = "READY" => q.pps_contract = FALSE
  /\ t # "SINK_PPS_PERIODIC"

\* The MessageID of what the source says is not the one that the port has stored: at most one
\* message has been dropped since, and then the port has nothing new to say.
IDsFollow(q, s, t) ==
  /\ s.out # NoMessage /\ s.got = 1 => q.storedMID = s.id
  /\ ~(s.out # NoMessage /\ (s.got = 1 \/ s.out.kind = "Soft_Reset")) /\ ~Handing(s) =>
       \/ q.storedMID = NoMID
       \/ NextMID(q.storedMID) = s.id
       \/ NextMID(NextMID(q.storedMID)) = s.id /\ Content(q, s, t)

\* A GoodCRC is on its way or has left.
Acks(q, e) == q.txKind = "GoodCRC" /\ (Sends(q) \/ e = "MSG_TX_COMPLETED")

\* ... for what the source says.
AcksAgree(q, s, e) ==
  /\ Acks(q, e) /\ q.tx # "WAIT_FOR_PHY_RESPONSE" =>
       IF s.out # NoMessage
       THEN /\ q.rxMsg = s.out
            /\ Sends(q) => q.air.id = s.out.id
            /\ s.got = 0 => q.storedMID # s.out.id
       ELSE /\ e = "MSG_TX_COMPLETED" /\ s.acked = TRUE
            /\ s.got = 1 => q.storedMID = q.rxMsg.id
  /\ e = "MSG_RX_COMPLETE" /\ q.rxMsg.kind # "GoodCRC" => s.out # NoMessage

\* What is about to be handed up to the policy engine
HandsUp(q, s, e) ==
  Handing(s) =>
    /\ e = "MSG_TX_COMPLETED" /\ q.txKind = "GoodCRC" /\ q.tx # "WAIT_FOR_PHY_RESPONSE"
    /\ s.out = NoMessage
    /\ q.rxMsg.kind \in SprRx /\ q.rxMsg.id \in MessageIDs /\ q.storedMID # q.rxMsg.id
    /\ NextMID(q.rxMsg.id) = s.id
    /\ s.turn = Follows[q.rxMsg.kind]
    /\ q.rxMsg.kind = "Unknown" => q.snk = "READY" /\ UnderContract(q)

InStep(q, s, e, t) ==
  /\ IDsFollow(q, s, t)
  /\ AcksAgree(q, s, e)
  /\ ~Handing(s) => Matches(q, s, Stage(s))

\* A source that is off, and the port that does not know yet
OffAgrees(q, s, e) ==
  /\ s.turn \in {"OFF", "DEAD"} =>
       /\ s.acked = FALSE /\ e # "MSG_RX_COMPLETE"
       /\ s.got = 1 => q.storedMID = q.rxMsg.id
  /\ s.turn = "DEAD" => e \notin HardResets
  /\ e \in HardResets => s.turn = "OFF"

Conversation ==
  /\ InTurn(src)
  /\ HandsUp(p, src, phy)
  /\ OffAgrees(p, src, phy)
  /\ p.cad = "UNATTACHED" => src.turn \in {"DEAD", "CAPS"} /\ src.acked = FALSE
  /\ p.cad = "ATTACHED" => pwr \in {NONE, "VBUS_REMOVED"}
  /\ pwr = "VBUS_REMOVED" => src.turn = "DEAD" \/ phy \in HardResets
  /\ src.turn = "DEAD" =>
       p.cad = "UNATTACHED" \/ pwr = "VBUS_REMOVED" \/ p.snk = "HARD_RESET"
  /\ p.storedMID \in MessageIDs \cup {NoMID} /\ p.rxMsg.id \in MessageIDs /\ p.passedUp = FALSE
  /\ Talking(p, src) => InStep(p, src, phy, tim)

\* What the source's losses have cost: no more than have been.
LossInv ==
  Talking(p, src) =>
    (src.out.kind = "Soft_Reset" /\ src.got = 0) \/ Spent <= losses

\* The port is about to give up a message.
Exhausted(q, e, t) ==
  /\ q.retry = NRetry /\ q.tx = "WAIT_FOR_PHY_RESPONSE"
  /\ t = "CRC_RECEIVE" \/ e = "MSG_TX_DISCARDED"

\* It does so only under a contract.
Persistent == Talking(p, src) /\ Exhausted(p, phy, tim) => Stage(src) = "CONTRACT"

ConvInv == losses < NRetry => Conversation /\ LossInv /\ Persistent
-----------------------------------------------------------------------------
\* In EPR mode, where the timers of chunks and of entries share the channel of the keep-alive
\* timer: a port in READY is receiving nothing in chunks, and no entry to EPR mode is pending
\* in EPR mode. Lost messages can bring both about (the port has given up its answer to a
\* reset of the link, is in READY, and the source speaks in chunks; the GoodCRC of an entry
\* is lost and a later message completes it), and an entry that is asked for while another
\* is going on, of which a reset of the link has made the port report the end, is a pending
\* one.
Undisturbed ==
  p.cad = "ATTACHED" =>
    /\ Entering(p)
    /\ p.snk = "READY" /\ p.epr_mode => p.rch = "WAIT_FOR_MESSAGE_FROM_PRL"

\* What an undisturbed port keeps between two runs of the worker, and why its keep-alive
\* timer runs in READY: a message that has left has no timer yet, a hard reset of the port
\* is on its way or in the slot until it has ended EPR mode, and one of the source is in
\* the slot before anything else is handled.
AliveInv ==
  /\ phy = "MSG_TX_COMPLETED" => p.air = NoMessage
  /\ tim # NONE => phy # "MSG_TX_COMPLETED" /\ p.air = NoMessage
  /\ p.cad = "ATTACHED" =>
       /\ Origin(p)
       /\ p.hrdOriginPE => p.air.kind = "HardReset" \/ phy \in HardResets
       /\ p.hardResetActive /\ ~p.hrdOriginPE => phy = "HRD_RECEIVED"
       /\ Lively(p) \/ tim = "SINK_EPR_KEEP_ALIVE"

\* What theorem KeepAliveRuns supposes and the invariant behind it, together
KeptAlive == Undisturbed /\ AliveInv
=============================================================================
