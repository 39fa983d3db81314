---------------------------- MODULE UcpdSprProofs ----------------------------
(***************************************************************************)
(* What one run of the handler does to a port outside EPR mode, for all    *)
(* values of the constants: the state of the policy engine, the message    *)
(* that the transmitter holds, the timers and the hard reset fit together  *)
(* when it ends (Steady), a transition has its timer (Guarded), nothing    *)
(* was sent that was not allowed (Hushed), an acknowledgement that is due  *)
(* is still waited for, and the MessageID and the count of retries move    *)
(* with the message they belong to (HandlerLinks, Proceeds).               *)
(*                                                                         *)
(* Each entry of the policy engine and the protocol layer has a lemma; the *)
(* order is that of the code, from the helpers up to the handler.          *)
(***************************************************************************)
EXTENDS UcpdPortProofs

-----------------------------------------------------------------------------
\* A port outside EPR mode, and what the helpers change of it

\* What the states that send say
Spoken == [SELECT_CAPABILITY |-> "Request", SOFT_RESET |-> "Accept",
           SEND_SOFT_RESET |-> "Soft_Reset", SEND_NOT_SUPPORTED |-> "Not_Supported"]
Sending == {"SELECT_CAPABILITY", "SOFT_RESET", "SEND_SOFT_RESET", "SEND_NOT_SUPPORTED"}
SprStates == Sending \cup
  {NONE, "STARTUP", "DISCOVERY", "WAIT_FOR_CAPABILITIES", "TRANSITION_SINK", "READY",
   "HARD_RESET"}
SprRch == {"WAIT_FOR_MESSAGE_FROM_PRL", "PASS_UP_MESSAGE"}
SprKinds == {"Request", "Accept", "Soft_Reset", "Not_Supported", "GoodCRC", NONE}

AwaitsPhy(q) == q.tx = "WAIT_FOR_PHY_RESPONSE" /\ q.txKind # "GoodCRC"

Flags == {"txAllowed", "sinkTxOk", "hardResetActive", "hrdOriginPE", "pps_contract",
          "pps_periodic_expired", "explicit_contract", "ams", "ams_first_sent",
          "response_expected"}

\* A port that has not entered EPR mode and runs no code of the application
NoEpr(q) ==
  /\ Port(q)
  /\ q.user = NoUserCode
  /\ q.epr_mode = FALSE /\ q.entering_epr = FALSE /\ q.extended = FALSE
  /\ q.extRx = NONE
  /\ q.rch \in SprRch
  /\ q.dpm_event \in {NONE, "HARD_RESET"}
  /\ q.txKind \in SprKinds
  /\ \A f \in Flags : q[f] \in BOOLEAN

\* Its timers
SprTimers(q) ==
  /\ q.tim[0] = "PS_TRANSITION" => q.snk = "TRANSITION_SINK"
  /\ q.tim[0] # "SINK_EPR_TRANSITION"
  /\ q.tim[1] # NONE =>
       q.tim[1] = "SINK_PPS_PERIODIC" /\ q.snk = "READY" /\ q.pps_contract = TRUE


Spr(q) == NoEpr(q) /\ SprTimers(q) /\ q.snk \in SprStates

\* Only the fields in S differ.
Only(q, r, S) == DOMAIN r = DOMAIN q /\ \A f \in DOMAIN q \ S : r[f] = q[f]

LEMMA OnlyChains ==
  ASSUME NEW q, NEW r, NEW s, NEW S, NEW T, Only(q, r, S), Only(r, s, T)
  PROVE  Only(q, s, S \cup T)
  BY DEF Only

LEMMA UserQuiet ==
  ASSUME NEW q, q.user = NoUserCode, NEW place \in UserPlaces
  PROVE  UserCode(q, place) = q
  BY DEF UserCode, NoUserCode, UserPlaces, NONE

LEMMA Channels ==
  /\ \A t \in Channel0 : UCPD_TIMER_CHANNEL(t) = 0 /\ t \in Timers
  /\ \A t \in Channel1 : UCPD_TIMER_CHANNEL(t) = 1 /\ t \in Timers
  BY DEF UCPD_TIMER_CHANNEL, Timers, Channel0, Channel1


\* r is q with the timer of a channel stopped or started
Stopped0(q, r, t) ==
  /\ Only(q, r, {"tim"}) /\ Port(r)
  /\ r.tim[0] = IF q.tim[0] = t THEN NONE ELSE q.tim[0]
  /\ r.tim[1] = q.tim[1]
Stopped1(q, r, t) ==
  /\ Only(q, r, {"tim"}) /\ Port(r)
  /\ r.tim[1] = IF q.tim[1] = t THEN NONE ELSE q.tim[1]
  /\ r.tim[0] = q.tim[0]
Started0(q, r, t) ==
  /\ Only(q, r, {"tim"}) /\ Port(r)
  /\ r.tim[0] = t /\ r.tim[1] = q.tim[1]
Started1(q, r, t) ==
  /\ Only(q, r, {"tim"}) /\ Port(r)
  /\ r.tim[1] = t /\ r.tim[0] = q.tim[0]

LEMMA TimersAre ==
  ASSUME NEW q, Port(q)
  PROVE  /\ \A t \in Channel0 : /\ Stopped0(q, UCPD_TIM_Stop(q, t), t)
                               /\ Started0(q, UCPD_TIM_Start(q, t), t)
         /\ \A t \in Channel1 : /\ Stopped1(q, UCPD_TIM_Stop(q, t), t)
                               /\ Started1(q, UCPD_TIM_Start(q, t), t)
  <1>1. ASSUME NEW t \in Channel0 PROVE Stopped0(q, UCPD_TIM_Stop(q, t), t)
    BY StopStays, Channels
    DEF Stopped0, Port, Fields, Only, UCPD_TIM_Stop, TimType, Stays, Keeps
  <1>2. ASSUME NEW t \in Channel0 PROVE Started0(q, UCPD_TIM_Start(q, t), t)
    BY StartStays, Channels
    DEF Started0, Port, Fields, Only, UCPD_TIM_Start, TimType, Stays, Keeps
  <1>3. ASSUME NEW t \in Channel1 PROVE Stopped1(q, UCPD_TIM_Stop(q, t), t)
    BY StopStays, Channels
    DEF Stopped1, Port, Fields, Only, UCPD_TIM_Stop, TimType, Stays, Keeps
  <1>4. ASSUME NEW t \in Channel1 PROVE Started1(q, UCPD_TIM_Start(q, t), t)
    BY StartStays, Channels
    DEF Started1, Port, Fields, Only, UCPD_TIM_Start, TimType, Stays, Keeps
  <1> QED
    BY <1>1, <1>2, <1>3, <1>4

LEMMA TimerChannels ==
  /\ {"SINK_PPS_PERIODIC"} \subseteq Channel1
  /\ {"CRC_RECEIVE", "HARD_RESET_COMPLETE", "PS_TRANSITION", "SENDER_RESPONSE",
      "SINK_WAIT_CAP"} \subseteq Channel0
  BY DEF Channel0, Channel1

LEMMA FlagsAre ==
  ASSUME NEW q, NoEpr(q)
  PROVE  /\ Port(q) /\ DOMAIN q = Fields
         /\ q.txAllowed \in BOOLEAN /\ q.sinkTxOk \in BOOLEAN
         /\ q.hardResetActive \in BOOLEAN /\ q.hrdOriginPE \in BOOLEAN
         /\ q.pps_contract \in BOOLEAN /\ q.pps_periodic_expired \in BOOLEAN
         /\ q.explicit_contract \in BOOLEAN /\ q.ams \in BOOLEAN
         /\ q.ams_first_sent \in BOOLEAN /\ q.response_expected \in BOOLEAN
  BY DEF NoEpr, Flags, Port

LEMMA SprNames ==
  /\ SprStates \subseteq SnkType
  /\ {"SELECT_CAPABILITY", "SOFT_RESET", "SEND_SOFT_RESET", "SEND_NOT_SUPPORTED",
      "DISCOVERY", "WAIT_FOR_CAPABILITIES", "TRANSITION_SINK", "READY",
      "HARD_RESET"} \subseteq SprStates
  /\ {"EVALUATE_CAPABILITY", "TRANSITION_TO_DEFAULT", "STARTUP"} \subseteq SnkType
  BY DEF SprStates, Sending, SnkType, SnkStates, PassingStates

\* UCPD_PE_SM_SNK_Exit stops the timer of the state that is left.
LEMMA ExitIs ==
  ASSUME NEW q, Spr(q), NEW r, r = UCPD_PE_SM_SNK_Exit(q)
  PROVE  /\ Only(q, r, {"tim", "ams", "pps_contract"})
         /\ r.tim[0] = IF q.tim[0] = "PS_TRANSITION" THEN NONE ELSE q.tim[0]
         /\ r.tim[1] = NONE
         /\ q.snk = "READY" => r.ams = TRUE /\ r.pps_contract = FALSE
         /\ q.snk # "READY" => r.ams = q.ams /\ r.pps_contract = q.pps_contract
         /\ Port(r)
  <1>1. Port(r) /\ Port(q) /\ DOMAIN q = Fields
    BY ExitStays DEF Spr, NoEpr, Stays, Keeps, Port
  <1>2. CASE q.snk = "READY"
    <2>1. CASE q.pps_contract = TRUE
      <3> DEFINE a == UCPD_TIM_Stop(q, "SINK_PPS_PERIODIC")
      <3>1. r = [a EXCEPT !.ams = TRUE, !.pps_contract = FALSE]
        BY <1>2, <2>1 DEF UCPD_PE_SM_SNK_Exit
      <3>2. Only(q, a, {"tim"}) /\ a.tim[0] = q.tim[0]
            /\ a.tim[1] = IF q.tim[1] = "SINK_PPS_PERIODIC" THEN NONE ELSE q.tim[1]
        BY <1>1, TimersAre, TimerChannels DEF Stopped1
      <3> HIDE DEF a
      <3>3. Only(q, r, {"tim", "ams", "pps_contract"}) /\ r.tim = a.tim
            /\ r.ams = TRUE /\ r.pps_contract = FALSE
        BY <1>1, <3>1, <3>2, ZenonT(60) DEF Fields, Only
      <3>4. r.tim[1] = NONE
        BY <3>2, <3>3 DEF Spr, SprTimers
      <3>5. r.tim[0] = IF q.tim[0] = "PS_TRANSITION" THEN NONE ELSE q.tim[0]
        BY <1>2, <3>2, <3>3 DEF Spr, SprTimers
      <3> QED
        BY <1>1, <1>2, <3>3, <3>4, <3>5
    <2>2. CASE q.pps_contract = FALSE
      <3>1. r = [q EXCEPT !.ams = TRUE]
        BY <1>2, <2>2 DEF UCPD_PE_SM_SNK_Exit
      <3> QED
        BY <1>1, <1>2, <2>2, <3>1 DEF Spr, SprTimers, Fields, Only
    <2> QED
      BY <2>1, <2>2, FlagsAre DEF Spr
  <1>3. CASE q.snk = "TRANSITION_SINK"
    <2> DEFINE a == UCPD_TIM_Stop(q, "PS_TRANSITION")
    <2>1. Only(q, a, {"tim"}) /\ a.tim[1] = q.tim[1]
          /\ a.tim[0] = IF q.tim[0] = "PS_TRANSITION" THEN NONE ELSE q.tim[0]
      BY <1>1, TimersAre, TimerChannels DEF Stopped0
    <2>2. r = UserCode(a, "POLICY")
      BY <1>3 DEF Spr, NoEpr, UCPD_PE_SM_SNK_Exit
    <2> HIDE DEF a
    <2>3. r = a
      BY <1>1, <2>1, <2>2, UserQuiet DEF Spr, NoEpr, UserPlaces, Only, Fields
    <2> QED
      BY <1>1, <1>3, <2>1, <2>3 DEF Spr, SprTimers, Only, Fields
  <1>4. CASE q.snk \notin {"READY", "TRANSITION_SINK"}
    <2>1. r = q
      BY <1>4 DEF Spr, UCPD_PE_SM_SNK_Exit, SprStates, Sending, NONE
    <2> QED
      BY <1>1, <1>4, <2>1 DEF Spr, SprTimers, Only
  <1> QED
    BY <1>2, <1>3, <1>4

\* The fields that the handlers change
Moving == {"snk", "rx", "tx", "tch", "mid", "retry", "storedMID", "passedUp", "tim",
           "txAllowed", "txKind", "txID", "air", "status", "sync_operation", "told",
           "current_callback", "callback", "vS0_to_vS5", "extended", "epr_mode", "rch",
           "extRx"} \cup Flags

LEMMA SprKept ==
  ASSUME NEW q, NoEpr(q), NEW r, Port(r), NEW S, Only(q, r, S), S \subseteq Moving,
         r.epr_mode = FALSE, r.extended = FALSE, r.rch \in SprRch,
         r.extRx = NONE,
         r.txKind \in SprKinds, \A f \in Flags \cap S : r[f] \in BOOLEAN
  PROVE  NoEpr(r)
  <1>1. DOMAIN q = Fields
    BY DEF NoEpr, Port
  <1>2. \A f \in Flags : r[f] \in BOOLEAN
    BY <1>1 DEF Only, NoEpr, Flags, Fields
  <1>3. r.user = q.user /\ r.entering_epr = q.entering_epr /\ r.dpm_event = q.dpm_event
    BY <1>1 DEF Only, Moving, Flags, Fields
  <1> QED
    BY <1>2, <1>3 DEF NoEpr

LEMMA SprSame ==
  ASSUME NEW q, NoEpr(q), NEW r, Port(r), NEW S, Only(q, r, S), S \subseteq Moving,
         r.epr_mode = q.epr_mode, r.extended = q.extended, r.rch = q.rch,
         r.extRx = q.extRx, r.txKind = q.txKind,
         \A f \in Flags \cap S : r[f] \in BOOLEAN
  PROVE  NoEpr(r)
  <1>1. /\ r.epr_mode = FALSE /\ r.extended = FALSE /\ r.rch \in SprRch
        /\ r.extRx = NONE /\ r.txKind \in SprKinds
    BY DEF NoEpr
  <1> QED
    BY <1>1, SprKept

\* What Go does to a port without EPR
Gone(q, r, state) ==
  /\ Only(q, r, {"snk", "tim", "ams", "pps_contract"})
  /\ r.snk = state
  /\ r.tim[0] = IF q.tim[0] = "PS_TRANSITION" THEN NONE ELSE q.tim[0]
  /\ r.tim[1] = NONE
  /\ q.snk = "READY" => r.ams = TRUE /\ r.pps_contract = FALSE
  /\ q.snk # "READY" => r.ams = q.ams /\ r.pps_contract = q.pps_contract
  /\ NoEpr(r) /\ DOMAIN r = Fields

LEMMA GoIs ==
  ASSUME NEW q, Spr(q), NEW state \in SnkType
  PROVE  Gone(q, Go(q, state), state)
  <1> DEFINE r == Go(q, state)
  <1> DEFINE e == UCPD_PE_SM_SNK_Exit(q)
  <1>1. /\ Only(q, e, {"tim", "ams", "pps_contract"})
        /\ e.tim[0] = IF q.tim[0] = "PS_TRANSITION" THEN NONE ELSE q.tim[0]
        /\ e.tim[1] = NONE
        /\ q.snk = "READY" => e.ams = TRUE /\ e.pps_contract = FALSE
        /\ q.snk # "READY" => e.ams = q.ams /\ e.pps_contract = q.pps_contract
        /\ Port(e)
    BY ExitIs
  <1>2. r = [e EXCEPT !.snk = state]
    BY DEF Go
  <1>3. Port(q) /\ DOMAIN q = Fields
    BY FlagsAre DEF Spr
  <1>4. Port(r)
    BY <1>3, GoKeeps DEF Keeps
  <1> HIDE DEF e, r
  <1>5. DOMAIN e = Fields
    BY <1>1, <1>3 DEF Only
  <1>6. Only(q, r, {"snk", "tim", "ams", "pps_contract"})
    BY <1>1, <1>2, <1>3, <1>5 DEF Only, Fields
  <1>7. r.snk = state /\ r.tim = e.tim /\ r.ams = e.ams /\ r.pps_contract = e.pps_contract
    BY <1>2, <1>5 DEF Fields
  <1>8. DOMAIN r = Fields
    BY <1>4 DEF Port
  <1>9. NoEpr(q) /\ q.ams \in BOOLEAN /\ q.pps_contract \in BOOLEAN
    BY FlagsAre DEF Spr
  <1>10. /\ r.epr_mode = FALSE /\ r.extended = FALSE /\ r.extRx = NONE
         /\ r.rch \in SprRch /\ r.txKind \in SprKinds
    BY <1>3, <1>6, <1>9 DEF NoEpr, Only, Fields
  <1>11. NoEpr(r)
    BY <1>1, <1>6, <1>7, <1>4, <1>9, <1>10, SprKept DEF Moving, Flags
  <1> QED
    BY <1>1, <1>6, <1>7, <1>8, <1>11 DEF r, Gone

\* What is on the air once q has constructed its message
AirAfter(q) ==
  IF q.txAllowed
  THEN IF q.air.kind = "HardReset" THEN q.air
       ELSE [kind |-> q.txKind, id |-> q.mid, chunk |-> 0]
  ELSE q.air

Constructed(q, r) ==
  /\ Only(q, r, {"tx", "txID", "txAllowed", "air"})
  /\ r.tx = "WAIT_FOR_PHY_RESPONSE"
  /\ r.txAllowed = FALSE
  /\ r.air = AirAfter(q)
  /\ Port(r)

LEMMA ConstructIs ==
  ASSUME NEW q, Port(q), q.txAllowed \in BOOLEAN
  PROVE  Constructed(q, TxConstructMessage(q))
  <1> DEFINE r == TxConstructMessage(q)
  <1>1. Port(r) /\ DOMAIN q = Fields
    BY ConstructStays DEF Port, Stays, Keeps
  <1>2. CASE q.txAllowed = TRUE
    BY <1>1, <1>2
    DEF TxConstructMessage, UCPD_PHY_SendMessage, AirAfter, Only, Fields, Constructed
  <1>3. CASE q.txAllowed = FALSE
    BY <1>1, <1>3
    DEF TxConstructMessage, UCPD_PHY_SendMessage, AirAfter, Only, Fields, Constructed
  <1> QED
    BY <1>2, <1>3

-----------------------------------------------------------------------------
\* The states in which the policy engine only waits

\* READY, from q
IsReady(q, r) ==
  /\ Only(q, r, {"snk", "tim", "ams", "pps_contract", "explicit_contract", "ams_first_sent"})
  /\ r.snk = "READY"
  /\ r.explicit_contract = TRUE /\ r.ams_first_sent = FALSE /\ r.ams = FALSE
  /\ r.tim[0] = IF q.tim[0] = "PS_TRANSITION" THEN NONE ELSE q.tim[0]
  /\ Spr(r)

LEMMA EnterReadyIs ==
  ASSUME NEW q, Spr(q)
  PROVE  IsReady(q, EnterReady(q))
  <1> DEFINE r == EnterReady(q)
             g == Go(q, "READY")
             a == [g EXCEPT !.ams = FALSE, !.explicit_contract = TRUE,
                            !.ams_first_sent = FALSE]
             b == StartPPSPeriodic(a)
  <1>1. Gone(q, g, "READY")
    BY GoIs, SprNames
  <1>2. r = StartKeepAlive(b)
    BY DEF EnterReady
  <1>3. Port(r)
    BY EnterReadySettles, FlagsAre DEF Spr, Settles, Keeps
  <1> HIDE DEF g, r
  <1>4. /\ Only(q, g, {"snk", "tim", "ams", "pps_contract"})
        /\ g.snk = "READY"
        /\ g.tim[0] = IF q.tim[0] = "PS_TRANSITION" THEN NONE ELSE q.tim[0]
        /\ g.tim[1] = NONE
        /\ NoEpr(g) /\ DOMAIN g = Fields
    BY <1>1 DEF Gone
  <1>5. /\ Only(g, a, {"ams", "explicit_contract", "ams_first_sent"})
        /\ a.explicit_contract = TRUE /\ a.ams_first_sent = FALSE /\ a.ams = FALSE
        /\ a.pps_contract \in BOOLEAN /\ a.epr_mode = FALSE
        /\ a.tim = g.tim /\ DOMAIN a = Fields
    BY <1>4, FlagsAre DEF Fields, Only, NoEpr
  <1>6. Port(a)
    BY <1>4 DEF NoEpr, Port, Fields
  <1> HIDE DEF a
  <1>7. /\ Only(a, b, {"tim"})
        /\ b.tim[0] = a.tim[0]
        /\ b.tim[1] # NONE => b.tim[1] = "SINK_PPS_PERIODIC" /\ a.pps_contract = TRUE
    BY <1>4, <1>5, <1>6, TimersAre, TimerChannels DEF Started1, StartPPSPeriodic, Only
  <1> HIDE DEF b
  <1>8. r = b
    BY <1>2, <1>5, <1>7 DEF StartKeepAlive, Only, Fields
  <1>9. Only(q, r, {"snk", "tim", "ams", "pps_contract", "explicit_contract",
                    "ams_first_sent"})
    BY <1>4, <1>5, <1>7, <1>8 DEF Only
  <1>10. /\ r.snk = "READY" /\ r.explicit_contract = TRUE /\ r.ams_first_sent = FALSE
         /\ r.ams = FALSE
         /\ r.pps_contract = a.pps_contract
    BY <1>4, <1>5, <1>7, <1>8 DEF Only, Fields
  <1>11. NoEpr(r)
    <2>1. Only(g, r, {"ams", "explicit_contract", "ams_first_sent", "tim"})
      BY <1>5, <1>7, <1>8 DEF Only
    <2>2. /\ r.epr_mode = FALSE /\ r.extended = FALSE /\ r.extRx = NONE
          /\ r.rch \in SprRch /\ r.txKind \in SprKinds
      BY <1>4, <2>1 DEF NoEpr, Only, Fields
    <2> QED
      BY <1>4, <1>10, <1>3, <2>1, <2>2, SprKept DEF Moving, Flags
  <1>12. r.tim[0] # "SINK_EPR_TRANSITION" /\ r.tim[0] # "PS_TRANSITION"
    BY <1>4, <1>5, <1>7, <1>8 DEF Spr, SprTimers, NONE
  <1>13. SprTimers(r)
    BY <1>7, <1>8, <1>10, <1>12 DEF SprTimers
  <1> QED
    BY <1>4, <1>5, <1>7, <1>8, <1>9, <1>10, <1>11, <1>13, SprNames DEF Spr, IsReady, r

\* WAIT_FOR_CAPABILITIES, from q
IsWait(q, r) ==
  /\ Only(q, r, {"snk", "tim", "ams", "pps_contract", "explicit_contract"})
  /\ r.snk = "WAIT_FOR_CAPABILITIES"
  /\ r.explicit_contract = FALSE
  /\ r.tim[0] = "SINK_WAIT_CAP" /\ r.tim[1] = NONE
  /\ Spr(r)

LEMMA EnterWaitIs ==
  ASSUME NEW q, Spr(q)
  PROVE  IsWait(q, EnterWaitForCapabilities(q))
  <1> DEFINE r == EnterWaitForCapabilities(q)
             g == Go(q, "WAIT_FOR_CAPABILITIES")
             a == [g EXCEPT !.explicit_contract = FALSE]
  <1>1. Gone(q, g, "WAIT_FOR_CAPABILITIES")
    BY GoIs, SprNames
  <1>2. r = UCPD_TIM_Start(a, "SINK_WAIT_CAP")
    BY DEF EnterWaitForCapabilities
  <1> HIDE DEF g
  <1>3. NoEpr(g) /\ Port(g) /\ DOMAIN g = Fields
    BY <1>1, FlagsAre DEF Gone
  <1>4. Only(g, a, {"explicit_contract"}) /\ a.explicit_contract = FALSE
    BY <1>3 DEF Fields, Only
  <1>5. Port(a) /\ a.tim = g.tim
    BY <1>3 DEF Port, Fields
  <1> HIDE DEF a
  <1>6. Started0(a, r, "SINK_WAIT_CAP")
    BY <1>2, <1>5, TimersAre, TimerChannels
  <1> HIDE DEF r
  <1>7. Only(a, r, {"tim"}) /\ r.tim[0] = "SINK_WAIT_CAP" /\ r.tim[1] = NONE /\ Port(r)
    BY <1>1, <1>5, <1>6 DEF Started0, Gone
  <1>8. Only(g, r, {"tim", "explicit_contract"}) /\ r.explicit_contract = FALSE
    BY <1>3, <1>4, <1>7 DEF Only, Fields
  <1>9. NoEpr(r) /\ r.snk = "WAIT_FOR_CAPABILITIES"
    <2>1. /\ r.epr_mode = FALSE /\ r.extended = FALSE /\ r.extRx = NONE
          /\ r.rch \in SprRch /\ r.txKind \in SprKinds
          /\ r.snk = g.snk
      BY <1>3, <1>8 DEF NoEpr, Only, Fields
    <2> QED
      BY <1>1, <1>3, <1>7, <1>8, <2>1, SprKept DEF Gone, Moving, Flags
  <1>10. Only(q, r, {"snk", "tim", "ams", "pps_contract", "explicit_contract"})
    BY <1>1, <1>8 DEF Gone, Only
  <1>11. SprTimers(r)
    BY <1>7 DEF SprTimers
  <1> QED
    BY <1>7, <1>8, <1>9, <1>10, <1>11, SprNames DEF IsWait, Spr, r

\* TRANSITION_SINK, from q
IsTransition(q, r) ==
  /\ Only(q, r, {"snk", "tim", "ams", "pps_contract"})
  /\ r.snk = "TRANSITION_SINK"
  /\ r.tim[0] = "PS_TRANSITION" /\ r.tim[1] = NONE
  /\ Spr(r)

LEMMA EnterTransitionIs ==
  ASSUME NEW q, Spr(q)
  PROVE  IsTransition(q, EnterTransitionSink(q))
  <1> DEFINE r == EnterTransitionSink(q)
             g == Go(q, "TRANSITION_SINK")
             a == UCPD_TIM_Stop(g, "SENDER_RESPONSE")
  <1>1. Gone(q, g, "TRANSITION_SINK")
    BY GoIs, SprNames
  <1>2. r = StartTransition(a)
    BY DEF EnterTransitionSink
  <1> HIDE DEF g
  <1>3. NoEpr(g) /\ Port(g) /\ DOMAIN g = Fields
    BY <1>1, FlagsAre DEF Gone
  <1>4. Only(g, a, {"tim"}) /\ Port(a) /\ a.tim[1] = g.tim[1]
    BY <1>3, TimersAre, TimerChannels DEF Stopped0
  <1> HIDE DEF a
  <1>5. a.epr_mode = FALSE
    BY <1>3, <1>4 DEF NoEpr, Only, Fields
  <1>6. Started0(a, r, "PS_TRANSITION")
    BY <1>2, <1>4, <1>5, TimersAre, TimerChannels DEF StartTransition
  <1> HIDE DEF r
  <1>7. Only(a, r, {"tim"}) /\ r.tim[0] = "PS_TRANSITION" /\ r.tim[1] = NONE /\ Port(r)
    BY <1>1, <1>4, <1>6 DEF Started0, Gone
  <1>8. Only(g, r, {"tim"})
    BY <1>3, <1>4, <1>7 DEF Only
  <1>9. NoEpr(r) /\ r.snk = "TRANSITION_SINK"
    <2>1. /\ r.epr_mode = FALSE /\ r.extended = FALSE /\ r.extRx = NONE
          /\ r.rch \in SprRch /\ r.txKind \in SprKinds
          /\ r.snk = g.snk
      BY <1>3, <1>8 DEF NoEpr, Only, Fields
    <2> QED
      BY <1>1, <1>3, <1>7, <1>8, <2>1, SprKept DEF Gone, Moving, Flags
  <1>10. Only(q, r, {"snk", "tim", "ams", "pps_contract"})
    BY <1>1, <1>8 DEF Gone, Only
  <1>11. SprTimers(r)
    BY <1>7, <1>9 DEF SprTimers
  <1> QED
    BY <1>7, <1>8, <1>9, <1>10, <1>11, SprNames DEF IsTransition, Spr, r

-----------------------------------------------------------------------------
\* What the link relies on

TchSpr == {"WAIT_FOR_MESSAGE_REQUEST_FROM_PE", "WAIT_FOR_TRANSMISSION_COMPLETE"}

\* A message of the port in the air
Sends(q) == q.air.kind \notin {NONE, "HardReset"}

\* What the port waits for, says and has in the air fits the state of its policy engine.
Sound(q) ==
  /\ Spr(q)
  /\ q.tch \in TchSpr
  /\ q.tx # "WAIT_FOR_MESSAGE_REQUEST" =>
       /\ q.snk \in Sending
       /\ q.txKind \in {"GoodCRC", Spoken[q.snk]}
       /\ q.tch = "WAIT_FOR_TRANSMISSION_COMPLETE"
       /\ q.tx # "WAIT_FOR_PHY_RESPONSE" \/ q.txKind = "GoodCRC" => q.snk = "SELECT_CAPABILITY"
  /\ q.tim[0] = "CRC_RECEIVE" => AwaitsPhy(q) /\ ~Sends(q)
  /\ q.tim[0] = "HARD_RESET_COMPLETE" => q.snk = "HARD_RESET"
  /\ q.hrdOriginPE <=> q.snk = "HARD_RESET"
  /\ q.air.kind = NONE => q.air = NoMessage
  /\ q.air.kind = "HardReset" => q.snk = "HARD_RESET"
  /\ Sends(q) => /\ q.air.kind = q.txKind /\ ~q.txAllowed
                 /\ q.txKind # "GoodCRC" => AwaitsPhy(q)

\* ... and no hard reset has been reported that it has not handled.
Steady(q) ==
  /\ Sound(q)
  /\ q.hardResetActive <=> q.snk = "HARD_RESET"
  /\ q.snk = "HARD_RESET" => q.air.kind = "HardReset"

\* The transition to a new contract has its timer.
Guarded(q) == q.snk = "TRANSITION_SINK" => q.tim[0] = "PS_TRANSITION"

\* A handler took q to r.
Handles(q, r) ==
  /\ Steady(r) /\ Guarded(r)
  /\ r.cad = q.cad /\ r.rxMsg = q.rxMsg

\* ... and sent nothing unless it was allowed to.
Hushed(q, r) ==
  /\ Handles(q, r)
  /\ r.txAllowed => q.txAllowed
  /\ Sends(r) => q.txAllowed \/ Sends(q)

\* A message that is not a GoodCRC has the MessageID of the counter.
Numbered(q) == Sends(q) /\ q.air.kind # "GoodCRC" => q.air.id = q.mid

\* A Soft_Reset of the port is on its way: both counters start over.
Restarts(q) == q.tx = "WAIT_FOR_PHY_RESPONSE" /\ q.txKind = "Soft_Reset"

\* From q, where no GoodCRC is waited for, to r: a new message has the MessageID that
\* follows the last one, unless the link is reset.
Counts(q, r) ==
  /\ r.retry \in {q.retry, 0}
  /\ r.tim[0] # "CRC_RECEIVE"
  /\ Numbered(r)
  /\ r.mid = q.mid \/ r.snk = "HARD_RESET" \/ Restarts(r)

\* Nothing is being sent but, at most, a GoodCRC.
Silent(q) ==
  /\ Spr(q)
  /\ q.tch \in TchSpr
  /\ q.tx = "WAIT_FOR_MESSAGE_REQUEST"
  /\ q.hrdOriginPE = FALSE /\ q.hardResetActive = FALSE
  /\ q.tim[0] \notin {"CRC_RECEIVE", "HARD_RESET_COMPLETE"}
  /\ \/ q.air = NoMessage
     \/ q.air.kind = "GoodCRC" /\ q.txKind = "GoodCRC" /\ q.txAllowed = FALSE

\* Nothing at all
Clear(q) == Silent(q) /\ q.air = NoMessage

LEMMA IdleSteady ==
  ASSUME NEW q, Silent(q), q.snk # "HARD_RESET"
  PROVE  Steady(q)
  BY DEF Silent, Steady, Sound, Sends, NoMessage, NONE

LEMMA SteadyIdle ==
  ASSUME NEW q, Steady(q), q.snk # "HARD_RESET", q.tx = "WAIT_FOR_MESSAGE_REQUEST"
  PROVE  Silent(q)
  <1>1. q.hrdOriginPE \in BOOLEAN /\ q.hardResetActive \in BOOLEAN /\ q.txAllowed \in BOOLEAN
    BY FlagsAre DEF Steady, Sound, Spr
  <1> QED
    BY <1>1 DEF Silent, Steady, Sound, Sends, AwaitsPhy

\* The fields that a change of the policy engine's state alone concerns
PolicyFields == {"snk", "tim", "ams", "pps_contract", "explicit_contract",
                 "ams_first_sent", "current_callback", "told", "status",
                 "sync_operation", "response_expected"}

LEMMA PolicyOnly ==
  ASSUME NEW q, DOMAIN q = Fields, NEW r, Only(q, r, PolicyFields)
  PROVE  /\ r.tx = q.tx /\ r.tch = q.tch /\ r.txKind = q.txKind /\ r.air = q.air
         /\ r.txAllowed = q.txAllowed /\ r.hrdOriginPE = q.hrdOriginPE
         /\ r.hardResetActive = q.hardResetActive
         /\ r.cad = q.cad /\ r.rxMsg = q.rxMsg /\ r.user = q.user
         /\ r.sinkTxOk = q.sinkTxOk /\ r.extended = q.extended
         /\ r.epr_mode = q.epr_mode /\ r.rch = q.rch /\ r.extRx = q.extRx
         /\ DOMAIN r = Fields
  BY DEF Only, Fields, PolicyFields

LEMMA PolicyIdle ==
  ASSUME NEW q, Silent(q), NEW r, Only(q, r, PolicyFields), Spr(r),
         r.tim[0] \notin {"CRC_RECEIVE", "HARD_RESET_COMPLETE"}
  PROVE  /\ Silent(r)
         /\ q.air = NoMessage => Clear(r)
         /\ r.cad = q.cad /\ r.rxMsg = q.rxMsg /\ r.txAllowed = q.txAllowed
         /\ r.air = q.air
  <1>1. DOMAIN q = Fields
    BY FlagsAre DEF Silent, Spr
  <1> QED
    BY <1>1, PolicyOnly DEF Silent, Clear

LEMMA PolicyHushed ==
  ASSUME NEW q, Silent(q), NEW r, Only(q, r, PolicyFields), Spr(r),
         r.tim[0] \notin {"CRC_RECEIVE", "HARD_RESET_COMPLETE"},
         r.snk # "HARD_RESET", Guarded(r)
  PROVE  Hushed(q, r)
  <1>1. /\ Silent(r)
        /\ r.cad = q.cad /\ r.rxMsg = q.rxMsg /\ r.txAllowed = q.txAllowed
        /\ r.air = q.air
    BY PolicyIdle
  <1>2. Steady(r)
    BY <1>1, IdleSteady
  <1> QED
    BY <1>1, <1>2 DEF Hushed, Handles, Sends

LEMMA OnlyGrows ==
  ASSUME NEW q, NEW r, NEW S, NEW T, Only(q, r, S), S \subseteq T
  PROVE  Only(q, r, T)
  BY DEF Only

LEMMA PolicyCounts ==
  ASSUME NEW q, Silent(q), NEW r, Only(q, r, PolicyFields), r.tim[0] # "CRC_RECEIVE"
  PROVE  Counts(q, r)
  <1>1. DOMAIN q = Fields
    BY FlagsAre DEF Silent, Spr
  <1>2. r.retry = q.retry /\ r.mid = q.mid /\ r.air = q.air
    BY <1>1 DEF Only, Fields, PolicyFields
  <1>3. Numbered(r)
    BY <1>2 DEF Silent, Numbered, Sends, NoMessage
  <1> QED
    BY <1>2, <1>3 DEF Counts

LEMMA ReadyLinks ==
  ASSUME NEW q, Silent(q)
  PROVE  Hushed(q, EnterReady(q)) /\ Counts(q, EnterReady(q))
  <1> DEFINE r == EnterReady(q)
  <1>1. IsReady(q, r)
    BY EnterReadyIs DEF Silent
  <1> HIDE DEF r
  <1>2. Only(q, r, PolicyFields)
    BY <1>1, OnlyGrows DEF IsReady, PolicyFields
  <1>3. r.tim[0] \notin {"CRC_RECEIVE", "HARD_RESET_COMPLETE"}
    BY <1>1 DEF IsReady, Silent, NONE
  <1> QED
    BY <1>1, <1>2, <1>3, PolicyHushed, PolicyCounts DEF IsReady, Guarded, r

LEMMA WaitLinks ==
  ASSUME NEW q, Silent(q)
  PROVE  Hushed(q, EnterWaitForCapabilities(q)) /\ Counts(q, EnterWaitForCapabilities(q))
  <1> DEFINE r == EnterWaitForCapabilities(q)
  <1>1. IsWait(q, r)
    BY EnterWaitIs DEF Silent
  <1> HIDE DEF r
  <1>2. Only(q, r, PolicyFields)
    BY <1>1, OnlyGrows DEF IsWait, PolicyFields
  <1> QED
    BY <1>1, <1>2, PolicyHushed, PolicyCounts DEF IsWait, Guarded, r

LEMMA TransitionLinks ==
  ASSUME NEW q, Silent(q)
  PROVE  Hushed(q, EnterTransitionSink(q)) /\ Counts(q, EnterTransitionSink(q))
  <1> DEFINE r == EnterTransitionSink(q)
  <1>1. IsTransition(q, r)
    BY EnterTransitionIs DEF Silent
  <1> HIDE DEF r
  <1>2. Only(q, r, PolicyFields)
    BY <1>1, OnlyGrows DEF IsTransition, PolicyFields
  <1> QED
    BY <1>1, <1>2, PolicyHushed, PolicyCounts DEF IsTransition, Guarded, r

-----------------------------------------------------------------------------
\* A message goes out

\* The port has prepared what its state says.
Speaks(q) ==
  /\ Spr(q)
  /\ q.tch \in TchSpr
  /\ q.snk \in Sending
  /\ q.txKind = Spoken[q.snk]
  /\ q.tx \in {"WAIT_FOR_MESSAGE_REQUEST", "SNK_START_OF_AMS"}
  /\ q.tx = "SNK_START_OF_AMS" => q.snk = "SELECT_CAPABILITY"
  /\ q.hrdOriginPE = FALSE /\ q.hardResetActive = FALSE
  /\ q.tim[0] \notin {"CRC_RECEIVE", "HARD_RESET_COMPLETE"}
  /\ q.air = NoMessage

LEMMA SpokenKinds ==
  \A s \in Sending : Spoken[s] \in SprKinds \ {"GoodCRC", NONE, "HardReset"}
  BY DEF Sending, Spoken, SprKinds, NONE

\* The fields that the transmitter changes
TxFields == {"tch", "tx", "txID", "txAllowed", "air"}

LEMMA TxOnly ==
  ASSUME NEW q, DOMAIN q = Fields, NEW r, Only(q, r, TxFields)
  PROVE  /\ r.snk = q.snk /\ r.tim = q.tim /\ r.txKind = q.txKind
         /\ r.hrdOriginPE = q.hrdOriginPE /\ r.pps_contract = q.pps_contract
         /\ r.hardResetActive = q.hardResetActive
         /\ r.cad = q.cad /\ r.rxMsg = q.rxMsg
         /\ r.sinkTxOk = q.sinkTxOk /\ r.extended = q.extended
         /\ r.epr_mode = q.epr_mode /\ r.rch = q.rch /\ r.extRx = q.extRx
         /\ DOMAIN r = Fields
  BY DEF Only, Fields, TxFields

LEMMA TxSpr ==
  ASSUME NEW q, Spr(q), NEW r, Only(q, r, TxFields), Port(r), r.txAllowed \in BOOLEAN
  PROVE  Spr(r)
  <1>1. NoEpr(q) /\ DOMAIN q = Fields
    BY FlagsAre DEF Spr
  <1>2. /\ r.snk = q.snk /\ r.tim = q.tim /\ r.txKind = q.txKind
        /\ r.extended = q.extended /\ r.pps_contract = q.pps_contract
        /\ r.epr_mode = q.epr_mode /\ r.rch = q.rch /\ r.extRx = q.extRx
    BY <1>1, TxOnly
  <1>3. TxFields \subseteq Moving /\ Flags \cap TxFields = {"txAllowed"}
    BY DEF TxFields, Moving, Flags
  <1>4. NoEpr(r)
    BY <1>1, <1>2, <1>3, SprKept DEF NoEpr
  <1> QED
    BY <1>2, <1>4 DEF Spr, SprTimers

\* What is to be sent has been sent, or waits.
LEMMA SentLinks ==
  ASSUME NEW q, Speaks(q), NEW r, Only(q, r, TxFields), Port(r),
         r.tch = "WAIT_FOR_TRANSMISSION_COMPLETE", r.txAllowed \in BOOLEAN,
         r.txAllowed => q.txAllowed,
         \/ /\ r.tx = "WAIT_FOR_PHY_RESPONSE" /\ r.txAllowed = FALSE /\ r.air = AirAfter(q)
         \/ /\ r.tx = "SNK_PENDING" /\ q.snk = "SELECT_CAPABILITY" /\ r.air = q.air
  PROVE  Hushed(q, r)
  <1>1. Spr(r)
    BY TxSpr DEF Speaks
  <1>2. DOMAIN q = Fields
    BY FlagsAre DEF Speaks, Spr
  <1>3. /\ r.snk = q.snk /\ r.tim = q.tim /\ r.txKind = q.txKind
        /\ r.hrdOriginPE = q.hrdOriginPE
        /\ r.hardResetActive = q.hardResetActive
        /\ r.cad = q.cad /\ r.rxMsg = q.rxMsg
    BY <1>2, TxOnly
  <1>4. q.snk # "HARD_RESET" /\ q.snk # "TRANSITION_SINK"
    BY DEF Speaks, Sending
  <1>5. q.txKind \notin {"GoodCRC", NONE, "HardReset"}
    BY SpokenKinds DEF Speaks
  <1>6. r.air = NoMessage \/ (r.air.kind = q.txKind /\ AwaitsPhy(r) /\ r.txAllowed = FALSE)
    BY <1>3, <1>5 DEF AirAfter, Speaks, NoMessage, NONE, AwaitsPhy
  <1>7. Sound(r)
    BY <1>1, <1>3, <1>4, <1>5, <1>6 DEF Sound, Speaks, Sends, NoMessage, NONE, TchSpr
  <1>8. Steady(r) /\ Guarded(r)
    BY <1>3, <1>4, <1>7 DEF Steady, Guarded, Speaks
  <1>9. Sends(r) => q.txAllowed
    BY DEF Sends, AirAfter, Speaks, NoMessage, NONE
  <1> QED
    BY <1>3, <1>8, <1>9 DEF Hushed, Handles

\* ... with the MessageID of the counter.
LEMMA SentCounts ==
  ASSUME NEW q, Speaks(q), NEW r, Only(q, r, TxFields),
         r.air \in {AirAfter(q), q.air}
  PROVE  Counts(q, r)
  <1>1. DOMAIN q = Fields
    BY FlagsAre DEF Speaks, Spr
  <1>2. r.retry = q.retry /\ r.mid = q.mid /\ r.tim = q.tim
    BY <1>1 DEF Only, Fields, TxFields
  <1>3. Numbered(r)
    BY <1>2 DEF Speaks, Numbered, Sends, AirAfter, NoMessage
  <1> QED
    BY <1>2, <1>3 DEF Counts, Speaks

LEMMA SpeakLinks ==
  ASSUME NEW q, Speaks(q)
  PROVE  /\ Hushed(q, PassDown(q)) /\ Hushed(q, MessageFromPE(q))
         /\ Counts(q, PassDown(q)) /\ Counts(q, MessageFromPE(q))
         /\ q.tx = "WAIT_FOR_MESSAGE_REQUEST" /\ q.txKind = "Soft_Reset" =>
              Restarts(PassDown(q))
  <1> DEFINE b == [q EXCEPT !.tch = "WAIT_FOR_TRANSMISSION_COMPLETE"]
             r == TxRequest(b)
  <1>1. DOMAIN q = Fields /\ Port(q) /\ q.extended = FALSE /\ q.txAllowed \in BOOLEAN
        /\ q.sinkTxOk \in BOOLEAN
    BY FlagsAre DEF Speaks, Spr, NoEpr
  <1>2. PassDown(q) = r /\ MessageFromPE(q) = r
    BY <1>1 DEF PassDown, MessageFromPE, TchPassDownMessage
  <1>3. Only(q, b, {"tch"}) /\ b.tch = "WAIT_FOR_TRANSMISSION_COMPLETE"
    BY <1>1 DEF Only, Fields
  <1>4. b.tx = q.tx /\ b.txAllowed = q.txAllowed /\ AirAfter(b) = AirAfter(q)
        /\ b.air = q.air /\ b.sinkTxOk = q.sinkTxOk
    BY <1>1 DEF Fields, AirAfter
  <1>5. Port(b) /\ DOMAIN b = Fields
    BY <1>1 DEF Port, Fields
  <1> HIDE DEF b
  <1>6. CASE q.tx = "WAIT_FOR_MESSAGE_REQUEST" \/ q.sinkTxOk = TRUE
    <2>1. r = TxConstructMessage(b)
      BY <1>4, <1>6 DEF TxRequest, TxPending
    <2>2. Constructed(b, r)
      BY <1>1, <1>4, <1>5, <2>1, ConstructIs
    <2> HIDE DEF r
    <2>3. Only(b, r, {"tx", "txID", "txAllowed", "air"}) /\ Port(r)
          /\ r.tx = "WAIT_FOR_PHY_RESPONSE" /\ r.txAllowed = FALSE /\ r.air = AirAfter(q)
      BY <1>4, <2>2 DEF Constructed
    <2>4. Only(q, r, TxFields)
      BY <1>3, <2>3 DEF Only, TxFields
    <2>5. r.tch = "WAIT_FOR_TRANSMISSION_COMPLETE"
      BY <1>3, <1>5, <2>3 DEF Only, Fields
    <2>6. Hushed(q, r) /\ Counts(q, r)
      BY <2>3, <2>4, <2>5, SentLinks, SentCounts
    <2>7. q.txKind = "Soft_Reset" => Restarts(r)
      BY <1>1, <2>3, <2>4, TxOnly DEF Restarts
    <2> QED
      BY <1>2, <2>6, <2>7 DEF r
  <1>7. CASE q.tx = "SNK_START_OF_AMS" /\ q.sinkTxOk = FALSE
    <2>1. r = [b EXCEPT !.tx = "SNK_PENDING"]
      BY <1>4, <1>7 DEF TxRequest, TxPending
    <2> HIDE DEF r
    <2>2. Only(b, r, {"tx"}) /\ r.tx = "SNK_PENDING" /\ Port(r)
      BY <1>5, <2>1 DEF Only, Fields, Port, TxType
    <2>3. Only(q, r, TxFields)
      BY <1>3, <2>2 DEF Only, TxFields
    <2>4. r.tch = "WAIT_FOR_TRANSMISSION_COMPLETE" /\ r.air = q.air
          /\ r.txAllowed = q.txAllowed
      BY <1>3, <1>4, <1>5, <2>2 DEF Only, Fields
    <2>5. Hushed(q, r) /\ Counts(q, r)
      BY <1>1, <1>7, <2>2, <2>3, <2>4, SentLinks, SentCounts DEF Speaks
    <2> QED
      BY <1>2, <1>7, <2>5 DEF r
  <1> QED
    BY <1>1, <1>6, <1>7 DEF Speaks

-----------------------------------------------------------------------------
\* The messages of the policy engine

CallFields == {"current_callback", "told", "status", "sync_operation"}

\* Ending a request changes nothing else when no code of the application runs.
LEMMA CallsAre ==
  ASSUME NEW q, Port(q), q.user = NoUserCode, NEW status
  PROVE  /\ Only(q, Callback(q, status), CallFields) /\ Port(Callback(q, status))
         /\ Only(q, EndRequest(q, status), CallFields) /\ Port(EndRequest(q, status))
         /\ Only(q, EndPolicyRequest(q), CallFields) /\ Port(EndPolicyRequest(q))
  <1>1. UserCode(q, "CALLBACK") = q
    BY UserQuiet DEF UserPlaces
  <1>2. Only(q, Callback(q, status), CallFields) /\ Port(Callback(q, status))
    BY <1>1 DEF Callback, Only, CallFields, Fields, Port
  <1>3. Only(q, EndRequest(q, status), CallFields) /\ Port(EndRequest(q, status))
    <2> DEFINE c == Callback(q, status)
    <2>1. EndRequest(q, status) = [c EXCEPT !.status = status, !.sync_operation = FALSE]
      BY DEF EndRequest
    <2>2. Only(q, c, CallFields) /\ Port(c)
      BY <1>2
    <2> HIDE DEF c
    <2> DEFINE r == [c EXCEPT !.status = status, !.sync_operation = FALSE]
    <2>3. DOMAIN c = Fields
      BY <2>2 DEF Port
    <2>4. Only(c, r, CallFields)
      BY <2>3 DEF Only, CallFields, Fields
    <2>5. Port(r)
      BY <2>2 DEF Port, Fields
    <2> HIDE DEF r
    <2>6. Only(q, r, CallFields)
      BY <2>2, <2>4 DEF Only
    <2> QED
      BY <2>1, <2>5, <2>6 DEF r
  <1>4. Only(q, EndPolicyRequest(q), CallFields) /\ Port(EndPolicyRequest(q))
    <2> DEFINE a == [q EXCEPT !.status = "SUCCESS", !.sync_operation = FALSE]
    <2>1. EndPolicyRequest(q) = IF q.explicit_contract THEN Callback(a, "SUCCESS") ELSE q
      BY DEF EndPolicyRequest
    <2>2. Only(q, a, CallFields) /\ Port(a) /\ a.user = NoUserCode
      BY DEF Only, CallFields, Fields, Port
    <2> HIDE DEF a
    <2>3. UserCode(a, "CALLBACK") = a
      BY <2>2, UserQuiet DEF UserPlaces
    <2>4. Only(a, Callback(a, "SUCCESS"), CallFields) /\ Port(Callback(a, "SUCCESS"))
      BY <2>2, <2>3 DEF Callback, Only, CallFields, Fields, Port
    <2>5. Only(q, Callback(a, "SUCCESS"), CallFields)
      BY <2>2, <2>4 DEF Only
    <2> QED
      BY <2>1, <2>4, <2>5 DEF Only
  <1> QED
    BY <1>2, <1>3, <1>4

\* The fields that prepare a message
PrepFields == PolicyFields \cup {"rx", "tx", "tch", "mid", "retry", "rch", "extRx", "txKind",
                               "pps_periodic_expired"}

LEMMA PrepOnly ==
  ASSUME NEW q, DOMAIN q = Fields, NEW r, Only(q, r, PrepFields)
  PROVE  /\ r.air = q.air
         /\ r.txAllowed = q.txAllowed /\ r.hrdOriginPE = q.hrdOriginPE
         /\ r.hardResetActive = q.hardResetActive
         /\ r.cad = q.cad /\ r.rxMsg = q.rxMsg
         /\ r.extended = q.extended /\ r.epr_mode = q.epr_mode
         /\ DOMAIN r = Fields
  BY DEF Only, Fields, PrepFields, PolicyFields

LEMMA GoneClear ==
  ASSUME NEW q, Clear(q), NEW state, NEW g, Gone(q, g, state)
  PROVE  /\ NoEpr(g) /\ Port(g) /\ DOMAIN g = Fields /\ DOMAIN q = Fields
         /\ g.snk = state
         /\ g.tim[0] \notin {"CRC_RECEIVE", "HARD_RESET_COMPLETE", "PS_TRANSITION",
                             "SINK_EPR_TRANSITION"}
         /\ g.tim[1] = NONE
         /\ Only(q, g, PolicyFields) /\ Only(q, g, PrepFields)
         /\ g.tx = "WAIT_FOR_MESSAGE_REQUEST" /\ g.tch \in TchSpr
  <1>1. DOMAIN q = Fields
    BY FlagsAre DEF Clear, Silent, Spr
  <1>2. Only(q, g, PolicyFields)
    BY OnlyGrows DEF Gone, PolicyFields
  <1>3. Only(q, g, PrepFields)
    BY <1>2, OnlyGrows DEF PrepFields
  <1>4. g.tx = q.tx /\ g.tch = q.tch
    BY <1>1, <1>2, PolicyOnly
  <1>5. q.tim[0] \notin {"CRC_RECEIVE", "HARD_RESET_COMPLETE", "SINK_EPR_TRANSITION"}
    BY DEF Clear, Silent, Spr, SprTimers
  <1> QED
    BY <1>1, <1>2, <1>3, <1>4, <1>5, FlagsAre DEF Gone, Clear, Silent, NONE

\* A prepared message goes out.
LEMMA PrepLinks ==
  ASSUME NEW q, Clear(q), NEW a, Only(q, a, PrepFields), NoEpr(a),
         a.snk \in Sending, a.txKind = Spoken[a.snk],
         a.tx \in {"WAIT_FOR_MESSAGE_REQUEST", "SNK_START_OF_AMS"},
         a.tx = "SNK_START_OF_AMS" => a.snk = "SELECT_CAPABILITY",
         a.tch \in TchSpr,
         a.tim[0] \notin {"CRC_RECEIVE", "HARD_RESET_COMPLETE", "PS_TRANSITION",
                          "SINK_EPR_TRANSITION"},
         a.tim[1] = NONE
  PROVE  /\ Hushed(q, PassDown(a)) /\ Hushed(q, MessageFromPE(a))
         /\ a.mid = q.mid /\ a.retry \in {q.retry, 0} =>
              Counts(q, PassDown(a)) /\ Counts(q, MessageFromPE(a))
         /\ a.retry = 0 /\ a.tx = "WAIT_FOR_MESSAGE_REQUEST" /\ a.txKind = "Soft_Reset" =>
              Counts(q, PassDown(a)) /\ Restarts(PassDown(a))
  <1>1. DOMAIN q = Fields
    BY FlagsAre DEF Clear, Silent, Spr
  <1>2. /\ a.air = q.air
        /\ a.txAllowed = q.txAllowed /\ a.hrdOriginPE = q.hrdOriginPE
        /\ a.hardResetActive = q.hardResetActive
        /\ a.cad = q.cad /\ a.rxMsg = q.rxMsg
    BY <1>1, PrepOnly
  <1>3. Spr(a)
    BY DEF Spr, SprTimers, SprStates
  <1>4. Speaks(a)
    BY <1>2, <1>3 DEF Speaks, Clear, Silent
  <1>5. /\ Hushed(a, PassDown(a)) /\ Hushed(a, MessageFromPE(a))
        /\ Counts(a, PassDown(a)) /\ Counts(a, MessageFromPE(a))
        /\ a.tx = "WAIT_FOR_MESSAGE_REQUEST" /\ a.txKind = "Soft_Reset" =>
             Restarts(PassDown(a))
    BY <1>4, SpeakLinks
  <1>6. Hushed(q, PassDown(a)) /\ Hushed(q, MessageFromPE(a))
    BY <1>2, <1>5 DEF Hushed, Handles, Sends
  <1> QED
    BY <1>5, <1>6 DEF Counts

LEMMA SoftResetSentLinks ==
  ASSUME NEW q, Clear(q)
  PROVE  /\ Hushed(q, EnterSendSoftReset(q)) /\ Counts(q, EnterSendSoftReset(q))
         /\ Restarts(EnterSendSoftReset(q))
  <1> DEFINE g == Go(q, "SEND_SOFT_RESET")
             i == PrlInit(g)
             a == [i EXCEPT !.txKind = "Soft_Reset"]
  <1>1. Gone(q, g, "SEND_SOFT_RESET")
    BY GoIs, SprNames DEF Clear, Silent
  <1>2. EnterSendSoftReset(q) = PassDown(a)
    BY DEF EnterSendSoftReset
  <1> HIDE DEF g
  <1>3. /\ NoEpr(g) /\ Port(g) /\ DOMAIN g = Fields /\ DOMAIN q = Fields
        /\ g.snk = "SEND_SOFT_RESET"
        /\ g.tim[0] \notin {"CRC_RECEIVE", "HARD_RESET_COMPLETE", "PS_TRANSITION",
                            "SINK_EPR_TRANSITION"}
        /\ g.tim[1] = NONE
        /\ Only(q, g, PrepFields)
    BY <1>1, GoneClear
  <1>4. Port(i)
    BY <1>3, InitStays DEF Stays, Keeps
  <1>5. Only(g, i, {"rx", "tx", "tch", "mid", "retry", "rch", "extRx"})
    BY <1>3 DEF PrlInit, TxWaitForMessageRequest, RchWaitForMessage, TchWaitForRequest,
                Only, Fields
  <1>6. /\ i.tx = "WAIT_FOR_MESSAGE_REQUEST"
        /\ i.tch = "WAIT_FOR_MESSAGE_REQUEST_FROM_PE"
        /\ i.rch = "WAIT_FOR_MESSAGE_FROM_PRL" /\ i.extRx = NONE
        /\ i.retry = 0
    BY <1>3 DEF PrlInit, TxWaitForMessageRequest, RchWaitForMessage, TchWaitForRequest,
                Fields
  <1> HIDE DEF i
  <1>7. DOMAIN i = Fields
    BY <1>4 DEF Port
  <1>8. Only(i, a, {"txKind"}) /\ a.txKind = "Soft_Reset" /\ Port(a)
    BY <1>4, <1>7 DEF Only, Fields, Port
  <1> HIDE DEF a
  <1>9. Only(g, a, {"rx", "tx", "tch", "mid", "retry", "rch", "extRx", "txKind"})
    BY <1>5, <1>8 DEF Only
  <1>10. /\ a.tx = "WAIT_FOR_MESSAGE_REQUEST"
         /\ a.tch = "WAIT_FOR_MESSAGE_REQUEST_FROM_PE"
         /\ a.rch = "WAIT_FOR_MESSAGE_FROM_PRL" /\ a.extRx = NONE
         /\ a.retry = 0
    BY <1>6, <1>7, <1>8 DEF Only, Fields
  <1>11. /\ a.snk = g.snk /\ a.tim = g.tim /\ a.extended = g.extended
         /\ a.epr_mode = g.epr_mode
    BY <1>3, <1>9 DEF Only, Fields
  <1>12. NoEpr(a)
    <2>1. a.rch \in SprRch /\ a.txKind \in SprKinds
      BY <1>8, <1>10 DEF SprRch, SprKinds
    <2> QED
      BY <1>3, <1>8, <1>9, <1>10, <1>11, <2>1, SprKept, ZenonT(60) DEF NoEpr, Moving, Flags
  <1>13. Only(q, a, PrepFields)
    BY <1>3, <1>9 DEF Only, PrepFields
  <1>14. Hushed(q, PassDown(a)) /\ Counts(q, PassDown(a)) /\ Restarts(PassDown(a))
    BY <1>3, <1>8, <1>10, <1>11, <1>12, <1>13, PrepLinks DEF Sending, Spoken, TchSpr
  <1> QED
    BY <1>2, <1>14

LEMMA NotSupportedLinks ==
  ASSUME NEW q, Clear(q)
  PROVE  Hushed(q, EnterSendNotSupported(q)) /\ Counts(q, EnterSendNotSupported(q))
  <1> DEFINE g == Go(q, "SEND_NOT_SUPPORTED")
             a == [g EXCEPT !.txKind = "Not_Supported"]
  <1>1. Gone(q, g, "SEND_NOT_SUPPORTED")
    BY GoIs, SprNames DEF Clear, Silent
  <1>2. EnterSendNotSupported(q) = MessageFromPE(a)
    BY DEF EnterSendNotSupported
  <1> HIDE DEF g
  <1>3. /\ NoEpr(g) /\ Port(g) /\ DOMAIN g = Fields /\ DOMAIN q = Fields
        /\ g.snk = "SEND_NOT_SUPPORTED"
        /\ g.tim[0] \notin {"CRC_RECEIVE", "HARD_RESET_COMPLETE", "PS_TRANSITION",
                            "SINK_EPR_TRANSITION"}
        /\ g.tim[1] = NONE
        /\ Only(q, g, PrepFields)
        /\ g.tx = "WAIT_FOR_MESSAGE_REQUEST" /\ g.tch \in TchSpr
    BY <1>1, GoneClear
  <1>4. Only(g, a, {"txKind"}) /\ a.txKind = "Not_Supported" /\ Port(a)
    BY <1>3 DEF Only, Fields, Port
  <1> HIDE DEF a
  <1>5. /\ a.snk = g.snk /\ a.tim = g.tim /\ a.extended = g.extended
        /\ a.epr_mode = g.epr_mode /\ a.tx = g.tx /\ a.tch = g.tch
        /\ a.rch = g.rch /\ a.extRx = g.extRx
    BY <1>3, <1>4 DEF Only, Fields
  <1>6. NoEpr(a)
    <2>1. a.txKind \in SprKinds
      BY <1>4 DEF SprKinds
    <2> QED
      BY <1>3, <1>4, <1>5, <2>1, SprKept, ZenonT(60) DEF NoEpr, Moving, Flags
  <1>7. Only(q, a, PrepFields)
    BY <1>3, <1>4 DEF Only, PrepFields
  <1>8. a.mid = q.mid /\ a.retry = q.retry
    BY <1>1, <1>3, <1>4 DEF Gone, Only, Fields
  <1>9. Hushed(q, MessageFromPE(a)) /\ Counts(q, MessageFromPE(a))
    BY <1>3, <1>4, <1>5, <1>6, <1>7, <1>8, PrepLinks DEF Sending, Spoken
  <1> QED
    BY <1>2, <1>9

LEMMA SoftResetLinks ==
  ASSUME NEW q, Clear(q)
  PROVE  Hushed(q, EnterSoftReset(q)) /\ Counts(q, EnterSoftReset(q))
  <1> DEFINE g == Go(q, "SOFT_RESET")
             e == [g EXCEPT !.txKind = "Accept"]
             a == EndRequest(e, "CANCELLED")
  <1>1. Gone(q, g, "SOFT_RESET")
    BY GoIs, SprNames DEF Clear, Silent
  <1>2. EnterSoftReset(q) = MessageFromPE(a)
    BY DEF EnterSoftReset
  <1> HIDE DEF g
  <1>3. /\ NoEpr(g) /\ Port(g) /\ DOMAIN g = Fields /\ DOMAIN q = Fields
        /\ g.snk = "SOFT_RESET"
        /\ g.tim[0] \notin {"CRC_RECEIVE", "HARD_RESET_COMPLETE", "PS_TRANSITION",
                            "SINK_EPR_TRANSITION"}
        /\ g.tim[1] = NONE
        /\ Only(q, g, PrepFields)
        /\ g.tx = "WAIT_FOR_MESSAGE_REQUEST" /\ g.tch \in TchSpr
    BY <1>1, GoneClear
  <1>4. Only(g, e, {"txKind"}) /\ e.txKind = "Accept" /\ Port(e) /\ e.user = g.user
    BY <1>3 DEF Only, Fields, Port
  <1> HIDE DEF e
  <1>5. Only(e, a, CallFields) /\ Port(a)
    BY <1>3, <1>4, CallsAre DEF NoEpr
  <1> HIDE DEF a
  <1>6. Only(g, a, CallFields \cup {"txKind"})
    BY <1>4, <1>5 DEF Only
  <1>7. a.txKind = "Accept"
    BY <1>4, <1>5 DEF Port, Only, Fields, CallFields
  <1>8. /\ a.snk = g.snk /\ a.tim = g.tim /\ a.extended = g.extended
        /\ a.epr_mode = g.epr_mode /\ a.tx = g.tx /\ a.tch = g.tch
        /\ a.rch = g.rch /\ a.extRx = g.extRx
    BY <1>3, <1>6 DEF Only, Fields, CallFields
  <1>9. NoEpr(a)
    <2>1. a.txKind \in SprKinds
      BY <1>7 DEF SprKinds
    <2> QED
      BY <1>3, <1>5, <1>6, <1>8, <2>1, SprKept, ZenonT(60) DEF NoEpr, Moving, Flags, CallFields
  <1>10. Only(q, a, PrepFields)
    BY <1>3, <1>6 DEF Only, PrepFields, PolicyFields, CallFields
  <1>11. a.mid = q.mid /\ a.retry = q.retry
    BY <1>1, <1>3, <1>6 DEF Gone, Only, Fields, CallFields
  <1>12. Hushed(q, MessageFromPE(a)) /\ Counts(q, MessageFromPE(a))
    BY <1>3, <1>7, <1>8, <1>9, <1>10, <1>11, PrepLinks DEF Sending, Spoken
  <1> QED
    BY <1>2, <1>12

-----------------------------------------------------------------------------
\* The request for a supply

LEMMA EvaluateLinks ==
  ASSUME NEW q, Clear(q)
  PROVE  Hushed(q, EnterEvaluateCapability(q)) /\ Counts(q, EnterEvaluateCapability(q))
  <1> DEFINE g == Go(q, "EVALUATE_CAPABILITY")
             v == [g EXCEPT !.ams = TRUE, !.pps_periodic_expired = FALSE,
                            !.tx = IF q.pps_periodic_expired THEN @
                                   ELSE "SNK_START_OF_AMS"]
             s == EndPolicyRequest(v)
             x == UCPD_TIM_Stop(s, "SINK_WAIT_CAP")
             y == [x EXCEPT !.snk = "SELECT_CAPABILITY"]
             m == [y EXCEPT !.response_expected = TRUE]
             a == [m EXCEPT !.txKind = "Request", !.pps_contract = SelectsPPS]
  <1>1. Gone(q, g, "EVALUATE_CAPABILITY")
    BY GoIs, SprNames DEF Clear, Silent
  <1>2. EnterEvaluateCapability(q) = EnterSelectCapability(UserCode(s, "POLICY"))
    BY DEF EnterEvaluateCapability
  <1> HIDE DEF g
  <1>3. /\ NoEpr(g) /\ Port(g) /\ DOMAIN g = Fields /\ DOMAIN q = Fields
        /\ g.snk = "EVALUATE_CAPABILITY"
        /\ g.tim[0] \notin {"CRC_RECEIVE", "HARD_RESET_COMPLETE", "PS_TRANSITION",
                            "SINK_EPR_TRANSITION"}
        /\ g.tim[1] = NONE
        /\ Only(q, g, PrepFields)
        /\ g.tx = "WAIT_FOR_MESSAGE_REQUEST" /\ g.tch \in TchSpr
    BY <1>1, GoneClear
  <1>4. /\ Only(g, v, {"ams", "pps_periodic_expired", "tx"})
        /\ v.tx \in {"WAIT_FOR_MESSAGE_REQUEST", "SNK_START_OF_AMS"}
        /\ v.ams = TRUE /\ v.pps_periodic_expired = FALSE
    BY <1>3 DEF Only, Fields
  <1>5. Port(v) /\ v.user = g.user
    BY <1>3, <1>4 DEF Port, Fields, TxType
  <1> HIDE DEF v
  <1>6. Only(v, s, CallFields) /\ Port(s)
    BY <1>3, <1>5, CallsAre DEF NoEpr
  <1> HIDE DEF s
  <1>7. /\ DOMAIN v = Fields /\ DOMAIN s = Fields
    BY <1>5, <1>6 DEF Port
  <1>8. Only(g, s, CallFields \cup {"ams", "pps_periodic_expired", "tx"})
    BY <1>4, <1>6 DEF Only
  <1>9. s.tx = v.tx /\ s.ams = TRUE /\ s.pps_periodic_expired = FALSE
    BY <1>4, <1>6, <1>7 DEF Only, Fields, CallFields
  <1>10. s.snk = g.snk /\ s.user = g.user /\ s.epr_mode = g.epr_mode /\ s.tim = g.tim
    BY <1>3, <1>8 DEF Only, Fields, CallFields
  <1>11. UserCode(s, "POLICY") = s
    BY <1>3, <1>10, UserQuiet DEF NoEpr, UserPlaces
  <1>12. Stopped0(s, x, "SINK_WAIT_CAP")
    BY <1>6, TimersAre, TimerChannels
  <1>13. Go(s, "SELECT_CAPABILITY") = y
    BY <1>3, <1>10 DEF Go, UCPD_PE_SM_SNK_Exit
  <1> HIDE DEF x
  <1>14. /\ Only(s, x, {"tim"}) /\ Port(x) /\ DOMAIN x = Fields
         /\ x.tim[0] \notin {"CRC_RECEIVE", "HARD_RESET_COMPLETE", "PS_TRANSITION",
                             "SINK_EPR_TRANSITION"}
         /\ x.tim[1] = NONE
    BY <1>3, <1>10, <1>12 DEF Stopped0, NONE, Port
  <1>15. Only(x, a, {"snk", "response_expected", "txKind", "pps_contract"})
    BY <1>14 DEF Only, Fields
  <1>16. /\ a.snk = "SELECT_CAPABILITY" /\ a.response_expected = TRUE
         /\ a.txKind = "Request" /\ a.pps_contract = SelectsPPS
         /\ a.tim = x.tim
    BY <1>14 DEF Fields
  <1>17. Port(a)
    BY <1>14, SprNames DEF Port, Fields, SprStates
  <1>18. m.epr_mode = FALSE
    <2>1. x.epr_mode = FALSE
      BY <1>3, <1>7, <1>10, <1>14 DEF Only, Fields, NoEpr
    <2> QED
      BY <1>14, <2>1 DEF Fields
  <1>19. EnterSelectCapability(s) = MessageFromPE(a)
    BY <1>13, <1>18 DEF EnterSelectCapability, PrepareRequest
  <1> HIDE DEF a
  <1>20. Only(s, a, {"tim", "snk", "response_expected", "txKind", "pps_contract"})
    BY <1>14, <1>15 DEF Only
  <1>21. Only(g, a, CallFields \cup {"ams", "pps_periodic_expired", "tx", "tim", "snk",
                                     "response_expected", "txKind", "pps_contract"})
    BY <1>8, <1>20 DEF Only
  <1>22. /\ a.tx = v.tx /\ a.ams = TRUE /\ a.pps_periodic_expired = FALSE
    BY <1>7, <1>9, <1>20 DEF Only, Fields
  <1>23. /\ a.tch = g.tch /\ a.extended = g.extended /\ a.epr_mode = g.epr_mode
         /\ a.rch = g.rch /\ a.extRx = g.extRx
    BY <1>3, <1>21 DEF Only, Fields, CallFields
  <1>24. NoEpr(a)
    <2>1. a.txKind \in SprKinds /\ a.pps_contract \in BOOLEAN
      BY <1>16, PortAssumption DEF SprKinds
    <2>2. CallFields \cup {"ams", "pps_periodic_expired", "tx", "tim", "snk",
                           "response_expected", "txKind", "pps_contract"} \subseteq Moving
      BY DEF CallFields, Moving, Flags
    <2>3. \A f \in Flags \cap (CallFields \cup {"ams", "pps_periodic_expired", "tx", "tim",
               "snk", "response_expected", "txKind", "pps_contract"}) : a[f] \in BOOLEAN
      BY <1>16, <1>22, <2>1 DEF Flags, CallFields
    <2> QED
      BY <1>3, <1>17, <1>21, <1>23, <2>1, <2>2, <2>3, SprKept DEF NoEpr
  <1>25. Only(q, a, PrepFields)
    BY <1>3, <1>21 DEF Only, PrepFields, PolicyFields, CallFields
  <1>26. a.mid = q.mid /\ a.retry = q.retry
    BY <1>1, <1>3, <1>21 DEF Gone, Only, Fields, CallFields
  <1>27. Hushed(q, MessageFromPE(a)) /\ Counts(q, MessageFromPE(a))
    BY <1>3, <1>4, <1>14, <1>16, <1>22, <1>23, <1>24, <1>25, <1>26, PrepLinks
    DEF Sending, Spoken
  <1> QED
    BY <1>2, <1>11, <1>19, <1>27

-----------------------------------------------------------------------------
\* A hard reset begins

ResetFields == {"tim", "rx", "tx", "tch", "mid", "retry", "rch", "extRx"}

\* r is q with the protocol layer reset and its timers stopped.
LayersReset(q, r) ==
  /\ Only(q, r, ResetFields) /\ Port(r) /\ DOMAIN r = Fields
  /\ r.tx = "WAIT_FOR_MESSAGE_REQUEST"
  /\ r.tch = "WAIT_FOR_MESSAGE_REQUEST_FROM_PE"
  /\ r.rch = "WAIT_FOR_MESSAGE_FROM_PRL" /\ r.extRx = NONE
  /\ r.tim[0] = NONE /\ r.tim[1] = NONE
  /\ r.retry = 0

LEMMA LayersAre == ASSUME NEW q, Port(q) PROVE LayersReset(q, ResetLayers(q))
  <1> DEFINE s == StopAllTimers(q)
             r == PrlInit(s)
  <1>1. Port(r) /\ Port(s)
    BY InitStays, StopAllStays DEF Stays, Keeps
  <1>2. DOMAIN q = Fields /\ DOMAIN s = Fields /\ DOMAIN r = Fields
    BY <1>1 DEF Port
  <1>3. Only(q, s, {"tim"}) /\ s.tim[0] = NONE /\ s.tim[1] = NONE
    BY <1>2 DEF StopAllTimers, Only, Fields
  <1> HIDE DEF s
  <1>4. Only(s, r, {"rx", "tx", "tch", "mid", "retry", "rch", "extRx"})
    BY <1>2 DEF PrlInit, TxWaitForMessageRequest, RchWaitForMessage, TchWaitForRequest,
                Only, Fields
  <1>5. /\ r.tx = "WAIT_FOR_MESSAGE_REQUEST"
        /\ r.tch = "WAIT_FOR_MESSAGE_REQUEST_FROM_PE"
        /\ r.rch = "WAIT_FOR_MESSAGE_FROM_PRL" /\ r.extRx = NONE
        /\ r.tim = s.tim /\ r.retry = 0
    BY <1>2 DEF PrlInit, TxWaitForMessageRequest, RchWaitForMessage, TchWaitForRequest,
                Fields
  <1>6. ResetLayers(q) = r
    BY DEF ResetLayers, s
  <1> HIDE DEF r
  <1>7. Only(q, r, ResetFields)
    BY <1>3, <1>4 DEF Only, ResetFields
  <1> QED
    BY <1>1, <1>2, <1>3, <1>5, <1>6, <1>7 DEF LayersReset

LEMMA LayersKept ==
  ASSUME NEW q, NoEpr(q), NEW r, LayersReset(q, r)
  PROVE  /\ NoEpr(r)
         /\ r.snk = q.snk /\ r.txKind = q.txKind /\ r.air = q.air /\ r.cad = q.cad
         /\ r.rxMsg = q.rxMsg /\ r.txAllowed = q.txAllowed /\ r.user = q.user
         /\ r.hrdOriginPE = q.hrdOriginPE /\ r.hardResetActive = q.hardResetActive
  <1>1. DOMAIN q = Fields
    BY FlagsAre
  <1>2. /\ r.snk = q.snk /\ r.txKind = q.txKind /\ r.air = q.air /\ r.cad = q.cad
        /\ r.rxMsg = q.rxMsg /\ r.txAllowed = q.txAllowed /\ r.user = q.user
        /\ r.hrdOriginPE = q.hrdOriginPE /\ r.hardResetActive = q.hardResetActive
        /\ r.epr_mode = q.epr_mode /\ r.extended = q.extended
    BY <1>1 DEF LayersReset, Only, Fields, ResetFields
  <1>3. ResetFields \subseteq Moving /\ Flags \cap ResetFields = {}
    BY DEF ResetFields, Moving, Flags
  <1>4. r.rch \in SprRch
    BY DEF LayersReset, SprRch
  <1>5. NoEpr(r)
    BY <1>2, <1>3, <1>4, SprKept DEF NoEpr, LayersReset
  <1> QED
    BY <1>2, <1>5

\* The hard reset is under way.
LEMMA RequestLinks ==
  ASSUME NEW q, NoEpr(q), q.snk = "HARD_RESET", q.hrdOriginPE = TRUE,
         q.hardResetActive = TRUE
  PROVE  /\ Hushed(q, RequestHardReset(q))
         /\ RequestHardReset(q).snk = "HARD_RESET" /\ RequestHardReset(q).retry = 0
  <1> DEFINE l == ResetLayers(q)
             h == UCPD_PHY_SendHardReset(l)
             r == UCPD_TIM_Start(h, "HARD_RESET_COMPLETE")
  <1>1. LayersReset(q, l)
    BY LayersAre DEF NoEpr
  <1>2. RequestHardReset(q) = r
    BY DEF RequestHardReset
  <1> HIDE DEF l
  <1>3. /\ NoEpr(l) /\ Port(l) /\ DOMAIN l = Fields
        /\ l.snk = q.snk /\ l.cad = q.cad
        /\ l.rxMsg = q.rxMsg /\ l.txAllowed = q.txAllowed
        /\ l.hrdOriginPE = q.hrdOriginPE /\ l.hardResetActive = q.hardResetActive
    BY <1>1, LayersKept DEF LayersReset
  <1>4. /\ Only(l, h, {"air"}) /\ h.air.kind = "HardReset"
    BY <1>3 DEF UCPD_PHY_SendHardReset, NoMessage, Only, Fields
  <1>5. Port(h) /\ DOMAIN h = Fields /\ h.tim = l.tim
    BY <1>3, <1>4, PhyStays DEF Stays, Keeps, Port, Only, Fields
  <1> HIDE DEF h
  <1>6. Started0(h, r, "HARD_RESET_COMPLETE")
    BY <1>5, TimersAre, TimerChannels
  <1> HIDE DEF r
  <1>7. /\ Only(l, r, {"air", "tim"}) /\ Port(r)
        /\ r.tim[0] = "HARD_RESET_COMPLETE" /\ r.tim[1] = NONE
    BY <1>1, <1>4, <1>5, <1>6 DEF Started0, Only, LayersReset
  <1>8. r.air = h.air
    BY <1>5, <1>6 DEF Started0, Only, Fields
  <1>9. /\ r.snk = l.snk /\ r.cad = l.cad /\ r.tx = l.tx /\ r.tch = l.tch
        /\ r.rch = l.rch /\ r.extRx = l.extRx /\ r.txKind = l.txKind
        /\ r.rxMsg = l.rxMsg /\ r.txAllowed = l.txAllowed
        /\ r.hrdOriginPE = l.hrdOriginPE /\ r.hardResetActive = l.hardResetActive
        /\ r.epr_mode = l.epr_mode /\ r.extended = l.extended
        /\ r.retry = l.retry
    BY <1>3, <1>7 DEF Only, Fields
  <1>10. NoEpr(r)
    BY <1>3, <1>7, <1>9, SprKept, ZenonT(60) DEF NoEpr, Moving, Flags
  <1>11. Spr(r)
    BY <1>3, <1>7, <1>9, <1>10 DEF Spr, SprTimers, SprStates
  <1>12. Sound(r)
    BY <1>1, <1>3, <1>4, <1>7, <1>8, <1>9, <1>11 DEF Sound, LayersReset, TchSpr, Sends, NONE
  <1>13. Steady(r) /\ Guarded(r)
    BY <1>3, <1>4, <1>8, <1>9, <1>12 DEF Steady, Guarded
  <1>14. Hushed(q, r)
    BY <1>3, <1>4, <1>8, <1>9, <1>13 DEF Hushed, Handles, Sends
  <1>15. r.snk = "HARD_RESET" /\ r.retry = 0
    BY <1>1, <1>3, <1>9 DEF LayersReset
  <1> QED
    BY <1>2, <1>14, <1>15

LEMMA ResetCounts ==
  ASSUME NEW q, NEW r, Steady(r), r.snk = "HARD_RESET", r.retry = 0
  PROVE  Counts(q, r)
  BY DEF Counts, Numbered, Sends, Steady, Sound, AwaitsPhy, Sending

LEMMA HardResetLinks ==
  ASSUME NEW q, Spr(q)
  PROVE  /\ Hushed(q, EnterHardReset(q)) /\ Counts(q, EnterHardReset(q))
         /\ EnterHardReset(q).snk = "HARD_RESET" /\ EnterHardReset(q).retry = 0
  <1> DEFINE g == Go(q, "HARD_RESET")
             a == [g EXCEPT !.hrdOriginPE = TRUE, !.hardResetActive = TRUE,
                            !.pps_contract = FALSE, !.ams = FALSE,
                            !.ams_first_sent = FALSE, !.epr_mode = FALSE]
             S == {"hrdOriginPE", "hardResetActive", "pps_contract", "ams",
                   "ams_first_sent", "epr_mode"}
  <1>1. Gone(q, g, "HARD_RESET")
    BY GoIs, SprNames
  <1>2. EnterHardReset(q) = RequestHardReset(a)
    BY DEF EnterHardReset
  <1> HIDE DEF g
  <1>3. NoEpr(g) /\ Port(g) /\ DOMAIN g = Fields /\ g.snk = "HARD_RESET"
    BY <1>1, FlagsAre DEF Gone
  <1>4. /\ Only(g, a, S)
        /\ a.hrdOriginPE = TRUE /\ a.hardResetActive = TRUE
        /\ a.pps_contract = FALSE /\ a.ams = FALSE /\ a.ams_first_sent = FALSE
        /\ a.epr_mode = FALSE
    BY <1>3 DEF Only, Fields
  <1>5. Port(a)
    BY <1>3 DEF Port, Fields
  <1> HIDE DEF a
  <1>6. DOMAIN q = Fields
    BY FlagsAre DEF Spr
  <1>7. /\ a.snk = g.snk /\ a.extended = g.extended /\ a.rch = g.rch /\ a.extRx = g.extRx
        /\ a.txKind = g.txKind /\ a.cad = g.cad /\ a.rxMsg = g.rxMsg
        /\ a.txAllowed = g.txAllowed
    BY <1>3, <1>4 DEF Only, Fields
  <1>8. NoEpr(a)
    <2>1. S \subseteq Moving
      BY DEF Moving, Flags
    <2>2. \A f \in Flags \cap S : a[f] \in BOOLEAN
      BY <1>4 DEF Flags
    <2> QED
      BY <1>3, <1>4, <1>5, <1>7, <2>1, <2>2, SprKept, ZenonT(60) DEF NoEpr
  <1>9. g.cad = q.cad /\ g.rxMsg = q.rxMsg /\ g.txAllowed = q.txAllowed
    BY <1>1, <1>6 DEF Gone, Only, Fields
  <1> DEFINE r == RequestHardReset(a)
  <1>10. Hushed(a, r) /\ r.snk = "HARD_RESET" /\ r.retry = 0
    BY <1>3, <1>4, <1>7, <1>8, RequestLinks
  <1>11. g.air = q.air /\ a.air = g.air
    BY <1>1, <1>3, <1>4, <1>6 DEF Gone, Only, Fields
  <1> HIDE DEF r
  <1>12. Hushed(q, r)
    BY <1>7, <1>9, <1>10, <1>11 DEF Hushed, Handles, Sends
  <1>13. Counts(q, r)
    BY <1>10, ResetCounts DEF Hushed, Handles
  <1> QED
    BY <1>2, <1>10, <1>12, <1>13 DEF r

-----------------------------------------------------------------------------
\* The port starts over

\* r, reached from q, does not send.
Halts(q, r) == r.snk \notin Sending /\ r.retry \in {q.retry, 0}

LEMMA DiscoveryLinks ==
  ASSUME NEW q, Clear(q), q.snk = "STARTUP"
  PROVE  Hushed(q, EnterDiscovery(q)) /\ Halts(q, EnterDiscovery(q))
  <1> DEFINE y == Go(q, "DISCOVERY")
             z == [y EXCEPT !.vS0_to_vS5 = FALSE]
  <1>1. Gone(q, y, "DISCOVERY")
    BY GoIs, SprNames DEF Clear, Silent
  <1>2. EnterDiscovery(q) = IF y.vS0_to_vS5 THEN EnterWaitForCapabilities(z) ELSE y
    BY DEF EnterDiscovery, LeaveDiscovery
  <1> HIDE DEF y
  <1>3. /\ NoEpr(y) /\ Port(y) /\ DOMAIN y = Fields /\ DOMAIN q = Fields
        /\ y.snk = "DISCOVERY"
        /\ y.tim[0] \notin {"CRC_RECEIVE", "HARD_RESET_COMPLETE", "PS_TRANSITION",
                            "SINK_EPR_TRANSITION"}
        /\ y.tim[1] = NONE
        /\ Only(q, y, PolicyFields)
    BY <1>1, GoneClear
  <1>4. Spr(y)
    BY <1>3, SprNames DEF Spr, SprTimers
  <1>5. Hushed(q, y)
    BY <1>3, <1>4, PolicyHushed DEF Clear, Guarded
  <1>6. Silent(y)
    BY <1>3, <1>4, PolicyIdle DEF Clear
  <1>7. /\ Only(y, z, {"vS0_to_vS5"}) /\ Port(z)
    BY <1>3 DEF Only, Fields, Port
  <1> HIDE DEF z
  <1>8. Silent(z) /\ z.cad = y.cad /\ z.rxMsg = y.rxMsg /\ z.txAllowed = y.txAllowed
        /\ z.air = y.air
    <2>1. /\ z.snk = y.snk /\ z.tim = y.tim /\ z.tch = y.tch /\ z.tx = y.tx
          /\ z.hrdOriginPE = y.hrdOriginPE /\ z.hardResetActive = y.hardResetActive
          /\ z.air = y.air /\ z.txKind = y.txKind /\ z.txAllowed = y.txAllowed
          /\ z.cad = y.cad /\ z.rxMsg = y.rxMsg /\ z.extended = y.extended
          /\ z.epr_mode = y.epr_mode /\ z.rch = y.rch /\ z.extRx = y.extRx
          /\ z.pps_contract = y.pps_contract
      BY <1>3, <1>7 DEF Only, Fields
    <2>2. NoEpr(z)
      BY <1>3, <1>7, <2>1, SprKept, ZenonT(60) DEF NoEpr, Moving, Flags
    <2>3. Spr(z)
      BY <1>4, <2>1, <2>2 DEF Spr, SprTimers
    <2> QED
      BY <1>6, <2>1, <2>3 DEF Silent
  <1>9. Hushed(z, EnterWaitForCapabilities(z))
    BY <1>8, WaitLinks
  <1>10. y.cad = q.cad /\ y.rxMsg = q.rxMsg /\ (y.txAllowed => q.txAllowed)
    BY <1>5 DEF Hushed, Handles, Sends
  <1>11. Hushed(q, EnterWaitForCapabilities(z))
    BY <1>5, <1>8, <1>9, <1>10 DEF Hushed, Handles, Sends
  <1>12. y.retry = q.retry /\ z.retry = y.retry /\ DOMAIN z = Fields
    BY <1>1, <1>3, <1>7 DEF Gone, Only, Fields
  <1>13. Halts(q, y)
    BY <1>3, <1>12 DEF Halts, Sending
  <1>14. Halts(q, EnterWaitForCapabilities(z))
    <2>1. IsWait(z, EnterWaitForCapabilities(z))
      BY <1>8, EnterWaitIs DEF Silent
    <2>2. EnterWaitForCapabilities(z).retry = z.retry
      BY <1>12, <2>1 DEF IsWait, Only, Fields
    <2> QED
      BY <1>12, <2>1, <2>2 DEF IsWait, Halts, Sending
  <1> QED
    BY <1>2, <1>5, <1>11, <1>13, <1>14

\* A hard reset is over: the port starts over and may transmit again.
LEMMA DefaultLinks ==
  ASSUME NEW q, Spr(q), q.tch \in TchSpr, q.tx = "WAIT_FOR_MESSAGE_REQUEST",
         q.tim[0] \notin {"CRC_RECEIVE", "HARD_RESET_COMPLETE"}, q.air = NoMessage
  PROVE  Handles(q, EnterTransitionToDefault(q)) /\ Halts(q, EnterTransitionToDefault(q))
  <1> DEFINE g == Go(q, "TRANSITION_TO_DEFAULT")
             c == Callback(g, "SUCCESS")
             d == [c EXCEPT !.explicit_contract = FALSE, !.pps_contract = FALSE,
                            !.ams = FALSE, !.ams_first_sent = FALSE,
                            !.hrdOriginPE = FALSE, !.extended = FALSE,
                            !.sync_operation = FALSE]
             x == [d EXCEPT !.txAllowed = TRUE, !.hardResetActive = FALSE]
             s == [[x EXCEPT !.snk = "STARTUP"] EXCEPT !.hrdOriginPE = FALSE,
                                                       !.epr_mode = FALSE]
             C == {"explicit_contract", "pps_contract", "ams", "ams_first_sent",
                   "hrdOriginPE", "extended", "sync_operation"}
             D == CallFields \cup C \cup {"txAllowed", "hardResetActive", "snk", "epr_mode"}
  <1>1. Gone(q, g, "TRANSITION_TO_DEFAULT")
    BY GoIs, SprNames
  <1>2. StopKeepAlive(g) = g
    BY <1>1 DEF StopKeepAlive, Gone, NoEpr
  <1>3. EnterTransitionToDefault(q) = EnterStartup(UserCode(d, "POLICY"))
    BY <1>2 DEF EnterTransitionToDefault
  <1> HIDE DEF g
  <1>4. /\ NoEpr(g) /\ Port(g) /\ DOMAIN g = Fields /\ DOMAIN q = Fields
        /\ g.snk = "TRANSITION_TO_DEFAULT"
        /\ g.tim[0] \notin {"CRC_RECEIVE", "HARD_RESET_COMPLETE", "PS_TRANSITION",
                            "SINK_EPR_TRANSITION"}
        /\ g.tim[1] = NONE
    BY <1>1, FlagsAre DEF Gone, NONE, Spr, SprTimers
  <1>5. Only(g, c, CallFields) /\ Port(c) /\ DOMAIN c = Fields
    BY <1>4, CallsAre DEF NoEpr, Port
  <1> HIDE DEF c
  <1>6. /\ Only(c, d, C)
        /\ d.explicit_contract = FALSE /\ d.pps_contract = FALSE
        /\ d.ams = FALSE /\ d.ams_first_sent = FALSE /\ d.extended = FALSE
    BY <1>5 DEF Only, Fields
  <1>7. Port(d) /\ DOMAIN d = Fields
    BY <1>5 DEF Port, Fields
  <1> HIDE DEF d
  <1>8. d.snk = c.snk /\ d.user = c.user
    BY <1>5, <1>6 DEF Only, Fields
  <1>9. c.snk = g.snk /\ c.user = g.user
    BY <1>4, <1>5 DEF Only, Fields, CallFields
  <1>10. UserCode(d, "POLICY") = d
    BY <1>4, <1>7, <1>8, <1>9, UserQuiet DEF NoEpr, UserPlaces
  <1>11. UCPD_PE_SM_SNK_Exit(d) = x
    BY <1>4, <1>8, <1>9 DEF UCPD_PE_SM_SNK_Exit, UCPD_PHY_HRDRS_Completed
  <1>12. EnterStartup(d) = EnterDiscovery(s)
    BY <1>11 DEF EnterStartup, Go
  <1>13. /\ Only(d, s, {"txAllowed", "hardResetActive", "snk", "hrdOriginPE", "epr_mode"})
         /\ s.txAllowed = TRUE /\ s.hardResetActive = FALSE /\ s.snk = "STARTUP"
         /\ s.hrdOriginPE = FALSE /\ s.epr_mode = FALSE
    BY <1>7 DEF Only, Fields
  <1>14. Port(s) /\ DOMAIN s = Fields
    BY <1>7, SprNames DEF Port, Fields
  <1> HIDE DEF x, s
  <1>15. Only(g, s, D)
    BY <1>5, <1>6, <1>13 DEF Only
  <1>16. /\ s.explicit_contract = FALSE /\ s.pps_contract = FALSE
         /\ s.ams = FALSE /\ s.ams_first_sent = FALSE /\ s.extended = FALSE
    BY <1>6, <1>7, <1>13 DEF Only, Fields
  <1>17. /\ s.tim = g.tim /\ s.tx = g.tx /\ s.tch = g.tch /\ s.rch = g.rch
         /\ s.extRx = g.extRx /\ s.air = g.air /\ s.txKind = g.txKind
         /\ s.cad = g.cad /\ s.rxMsg = g.rxMsg /\ s.retry = g.retry
    BY <1>4, <1>15 DEF Only, Fields, CallFields
  <1>18. /\ g.tx = q.tx /\ g.tch = q.tch /\ g.air = q.air
         /\ g.cad = q.cad /\ g.rxMsg = q.rxMsg /\ g.retry = q.retry
    BY <1>1, <1>4 DEF Gone, Only, Fields
  <1>19. NoEpr(s)
    <2>1. D \subseteq Moving
      BY DEF CallFields, Moving, Flags
    <2>2. \A f \in Flags \cap D : s[f] \in BOOLEAN
      BY <1>13, <1>16 DEF Flags, CallFields
    <2> QED
      BY <1>4, <1>13, <1>14, <1>15, <1>16, <1>17, <2>1, <2>2, SprKept, ZenonT(60) DEF NoEpr
  <1>20. Clear(s)
    BY <1>4, <1>13, <1>17, <1>18, <1>19, SprNames
    DEF Clear, Silent, Spr, SprTimers, SprStates
  <1>21. Hushed(s, EnterDiscovery(s)) /\ Halts(s, EnterDiscovery(s))
    BY <1>13, <1>20, DiscoveryLinks
  <1>22. EnterTransitionToDefault(q) = EnterDiscovery(s)
    BY <1>3, <1>10, <1>12
  <1> QED
    BY <1>17, <1>18, <1>21, <1>22 DEF Hushed, Handles, Halts

-----------------------------------------------------------------------------
\* A hard reset ends; the counters and the receivers

LEMMA CompletedIs ==
  ASSUME NEW q, Port(q)
  PROVE  /\ Only(q, UCPD_PHY_HRDRS_Completed(q), {"txAllowed", "hardResetActive"})
         /\ Port(UCPD_PHY_HRDRS_Completed(q))
         /\ UCPD_PHY_HRDRS_Completed(q).txAllowed = TRUE
         /\ UCPD_PHY_HRDRS_Completed(q).hardResetActive = FALSE
  BY DEF Port, Only, Fields, UCPD_PHY_HRDRS_Completed

LEMMA ResetSentLinks ==
  ASSUME NEW q, Sound(q), q.snk = "HARD_RESET", q.air = NoMessage
  PROVE  Handles(q, HardResetSent(q)) /\ Halts(q, HardResetSent(q))
  <1> DEFINE x == UCPD_TIM_Stop(q, "HARD_RESET_COMPLETE")
             y == UCPD_PHY_HRDRS_Completed(x)
  <1>1. HardResetSent(q) = EnterTransitionToDefault(y)
    BY DEF HardResetSent
  <1>2. NoEpr(q) /\ Port(q) /\ DOMAIN q = Fields
    BY FlagsAre DEF Sound, Spr
  <1>3. Stopped0(q, x, "HARD_RESET_COMPLETE")
    BY <1>2, TimersAre, TimerChannels
  <1> HIDE DEF x
  <1>4. Only(q, x, {"tim"}) /\ Port(x) /\ DOMAIN x = Fields
    BY <1>3 DEF Stopped0, Port
  <1>5. /\ Only(x, y, {"txAllowed", "hardResetActive"})
        /\ Port(y) /\ y.txAllowed = TRUE /\ y.hardResetActive = FALSE
    BY <1>4, CompletedIs
  <1> HIDE DEF y
  <1>6. Only(q, y, {"tim", "txAllowed", "hardResetActive"}) /\ y.tim = x.tim
    BY <1>4, <1>5 DEF Only, Fields
  <1>7. /\ y.snk = q.snk /\ y.tch = q.tch /\ y.tx = q.tx /\ y.air = q.air
        /\ y.cad = q.cad /\ y.rxMsg = q.rxMsg /\ y.rch = q.rch /\ y.extRx = q.extRx
        /\ y.epr_mode = q.epr_mode /\ y.extended = q.extended /\ y.txKind = q.txKind
        /\ y.retry = q.retry
    BY <1>2, <1>6 DEF Only, Fields
  <1>8. q.tx = "WAIT_FOR_MESSAGE_REQUEST" /\ q.tim[0] # "CRC_RECEIVE"
    BY DEF Sound, AwaitsPhy, Sending
  <1>9. y.tim[0] \notin {"CRC_RECEIVE", "HARD_RESET_COMPLETE"}
    BY <1>3, <1>6, <1>8 DEF Stopped0, NONE
  <1>10. NoEpr(y)
    <2>1. {"tim", "txAllowed", "hardResetActive"} \subseteq Moving
      BY DEF Moving, Flags
    <2>2. y.txAllowed = TRUE /\ y.hardResetActive = FALSE
      BY <1>5
    <2>3. \A f \in Flags \cap {"tim", "txAllowed", "hardResetActive"} : y[f] \in BOOLEAN
      BY <2>2 DEF Flags
    <2> QED
      BY <1>2, <1>5, <1>6, <1>7, <2>1, <2>3, SprKept, ZenonT(60) DEF NoEpr
  <1>11. Spr(y)
    <2>1. /\ q.tim[0] \notin {"PS_TRANSITION", "SINK_EPR_TRANSITION"} /\ q.tim[1] = NONE
          /\ q.snk \in SprStates
      BY DEF Sound, Spr, SprTimers
    <2>2. y.tim[0] \notin {"PS_TRANSITION", "SINK_EPR_TRANSITION"} /\ y.tim[1] = NONE
      BY <1>3, <1>6, <2>1 DEF Stopped0, NONE
    <2> QED
      BY <1>7, <1>10, <2>1, <2>2 DEF Spr, SprTimers
  <1>12. Handles(y, EnterTransitionToDefault(y)) /\ Halts(y, EnterTransitionToDefault(y))
    BY <1>7, <1>8, <1>9, <1>11, DefaultLinks DEF Sound
  <1> QED
    BY <1>1, <1>7, <1>12 DEF Handles, Halts

LEMMA IndicateLinks ==
  ASSUME NEW q, Sound(q), q.air = NoMessage
  PROVE  /\ Handles(q, IndicateHardReset(q)) /\ Halts(q, IndicateHardReset(q))
         /\ IndicateHardReset(q).retry = 0
  <1> DEFINE l == ResetLayers(q)
             y == UCPD_PHY_HRDRS_Completed(l)
             e == EndRequest(y, "CANCELLED")
             S == CallFields \cup {"txAllowed", "hardResetActive"}
  <1>1. IndicateHardReset(q) = EnterTransitionToDefault(e)
    BY DEF IndicateHardReset
  <1>2. NoEpr(q) /\ Port(q) /\ DOMAIN q = Fields
    BY FlagsAre DEF Sound, Spr
  <1>3. LayersReset(q, l)
    BY <1>2, LayersAre
  <1> HIDE DEF l
  <1>4. /\ NoEpr(l) /\ Port(l) /\ DOMAIN l = Fields
        /\ l.snk = q.snk /\ l.air = q.air /\ l.cad = q.cad /\ l.rxMsg = q.rxMsg
    BY <1>2, <1>3, LayersKept DEF LayersReset
  <1>5. /\ Only(l, y, {"txAllowed", "hardResetActive"})
        /\ Port(y) /\ y.txAllowed = TRUE /\ y.hardResetActive = FALSE
    BY <1>4, CompletedIs
  <1> HIDE DEF y
  <1>6. DOMAIN y = Fields /\ y.user = l.user
    BY <1>4, <1>5 DEF Only, Fields
  <1>7. Only(y, e, CallFields) /\ Port(e)
    BY <1>4, <1>5, <1>6, CallsAre DEF NoEpr
  <1> HIDE DEF e
  <1>8. Only(l, e, S)
    BY <1>5, <1>7 DEF Only
  <1>9. e.txAllowed = TRUE /\ e.hardResetActive = FALSE
    BY <1>5, <1>6, <1>7 DEF Only, Fields, CallFields
  <1>10. /\ e.snk = l.snk /\ e.tch = l.tch /\ e.tx = l.tx /\ e.air = l.air
         /\ e.cad = l.cad /\ e.rxMsg = l.rxMsg /\ e.rch = l.rch /\ e.extRx = l.extRx
         /\ e.epr_mode = l.epr_mode /\ e.extended = l.extended /\ e.txKind = l.txKind
         /\ e.tim = l.tim /\ e.retry = l.retry
    BY <1>4, <1>8 DEF Only, Fields, CallFields
  <1>11. NoEpr(e)
    <2>1. S \subseteq Moving
      BY DEF CallFields, Moving, Flags
    <2>2. \A f \in Flags \cap S : e[f] \in BOOLEAN
      BY <1>9 DEF Flags, CallFields
    <2> QED
      BY <1>4, <1>7, <1>8, <1>10, <2>1, <2>2, SprKept DEF NoEpr
  <1>12. Spr(e)
    BY <1>3, <1>4, <1>10, <1>11 DEF Sound, Spr, SprTimers, LayersReset, NONE
  <1>13. /\ e.tch \in TchSpr /\ e.tx = "WAIT_FOR_MESSAGE_REQUEST"
         /\ e.tim[0] \notin {"CRC_RECEIVE", "HARD_RESET_COMPLETE"}
         /\ e.air = NoMessage
    BY <1>3, <1>4, <1>10 DEF LayersReset, NONE, TchSpr
  <1>14. Handles(e, EnterTransitionToDefault(e)) /\ Halts(e, EnterTransitionToDefault(e))
    BY <1>12, <1>13, DefaultLinks
  <1>15. e.retry = 0
    BY <1>3, <1>10 DEF LayersReset
  <1> QED
    BY <1>1, <1>4, <1>10, <1>14, <1>15 DEF Handles, Halts

LEMMA HrdLinks ==
  ASSUME NEW q, Sound(q), q.air = NoMessage, q.hardResetActive = TRUE
  PROVE  /\ Handles(q, HrdReceived(q)) /\ Halts(q, HrdReceived(q))
         /\ HrdReceived(q).retry = 0
  <1>1. CASE q.hrdOriginPE
    <2>1. q.hrdOriginPE = TRUE /\ q.snk = "HARD_RESET" /\ NoEpr(q)
      BY <1>1, FlagsAre DEF Sound, Spr
    <2> QED
      BY <1>1, <2>1, RequestLinks DEF HrdReceived, Hushed, Halts, Sending
  <1>2. CASE ~q.hrdOriginPE
    BY <1>2, IndicateLinks DEF HrdReceived
  <1> QED
    BY <1>1, <1>2

-----------------------------------------------------------------------------
\* The counters, the receivers

CountFields == {"mid", "retry", "rx", "storedMID", "passedUp", "rch", "extRx"}

LEMMA CountsKeep ==
  ASSUME NEW q, NEW r, Spr(q), Only(q, r, CountFields), Port(r),
         r.rch \in SprRch, r.extRx = NONE
  PROVE  /\ Spr(r)
         /\ Sound(q) => Sound(r)
         /\ Steady(q) => Steady(r)
         /\ Silent(q) => Silent(r)
         /\ Clear(q) => Clear(r)
         /\ Guarded(q) => Guarded(r)
         /\ r.cad = q.cad /\ r.rxMsg = q.rxMsg /\ r.txAllowed = q.txAllowed
         /\ r.snk = q.snk /\ r.tx = q.tx /\ r.tch = q.tch /\ r.air = q.air
         /\ r.txKind = q.txKind /\ r.tim = q.tim /\ DOMAIN r = Fields
  <1>1. NoEpr(q) /\ DOMAIN q = Fields
    BY FlagsAre DEF Spr
  <1>2. /\ r.cad = q.cad /\ r.rxMsg = q.rxMsg /\ r.txAllowed = q.txAllowed
        /\ r.snk = q.snk /\ r.tx = q.tx /\ r.tch = q.tch /\ r.air = q.air
        /\ r.txKind = q.txKind /\ r.tim = q.tim /\ DOMAIN r = Fields
        /\ r.extended = q.extended /\ r.epr_mode = q.epr_mode
        /\ r.pps_contract = q.pps_contract /\ r.hrdOriginPE = q.hrdOriginPE
        /\ r.hardResetActive = q.hardResetActive
    BY <1>1 DEF Only, Fields, CountFields
  <1>3. CountFields \subseteq Moving /\ Flags \cap CountFields = {}
    BY DEF CountFields, Moving, Flags
  <1>4. NoEpr(r)
    BY <1>1, <1>2, <1>3, SprKept DEF NoEpr
  <1>5. Spr(r)
    BY <1>2, <1>4 DEF Spr, SprTimers
  <1>6. Sound(q) => Sound(r)
    BY <1>2, <1>5 DEF Sound, Sends, AwaitsPhy
  <1> QED
    BY <1>2, <1>5, <1>6 DEF Steady, Silent, Clear, Guarded

LEMMA RchWaitIs ==
  ASSUME NEW q, Spr(q)
  PROVE  /\ Only(q, RchWaitForMessage(q), CountFields)
         /\ Port(RchWaitForMessage(q))
         /\ RchWaitForMessage(q).rch = "WAIT_FOR_MESSAGE_FROM_PRL"
         /\ RchWaitForMessage(q).extRx = NONE
         /\ RchWaitForMessage(q).mid = q.mid /\ RchWaitForMessage(q).retry = q.retry
         /\ RchWaitForMessage(q).snk = q.snk
  <1>1. Port(q) /\ DOMAIN q = Fields
    BY FlagsAre DEF Spr
  <1> QED
    BY <1>1 DEF RchWaitForMessage, Only, CountFields, Fields, Port

LEMMA RchWaitKeeps ==
  ASSUME NEW q, Spr(q)
  PROVE  /\ Clear(q) => Clear(RchWaitForMessage(q))
         /\ \A s : Hushed(RchWaitForMessage(q), s) => Hushed(q, s)
         /\ \A s : Hushed(s, q) => Hushed(s, RchWaitForMessage(q))
         /\ \A s : Counts(RchWaitForMessage(q), s) => Counts(q, s)
         /\ \A s : Counts(s, q) => Counts(s, RchWaitForMessage(q))
  <1> DEFINE r == RchWaitForMessage(q)
  <1>1. /\ Only(q, r, CountFields) /\ Port(r)
        /\ r.rch = "WAIT_FOR_MESSAGE_FROM_PRL" /\ r.extRx = NONE
        /\ r.mid = q.mid /\ r.retry = q.retry /\ r.snk = q.snk
    BY RchWaitIs
  <1> HIDE DEF r
  <1>2. /\ Clear(q) => Clear(r)
        /\ Steady(q) => Steady(r)
        /\ Guarded(q) => Guarded(r)
        /\ r.cad = q.cad /\ r.rxMsg = q.rxMsg /\ r.txAllowed = q.txAllowed
        /\ r.air = q.air /\ r.tx = q.tx /\ r.txKind = q.txKind /\ r.tim = q.tim
    BY <1>1, CountsKeep DEF SprRch
  <1>3. /\ Clear(q) => Clear(r)
        /\ \A s : Hushed(r, s) => Hushed(q, s)
        /\ \A s : Hushed(s, q) => Hushed(s, r)
    BY <1>2 DEF Hushed, Handles, Sends
  <1>4. /\ \A s : Counts(r, s) => Counts(q, s)
        /\ \A s : Counts(s, q) => Counts(s, r)
    BY <1>1, <1>2 DEF Counts, Numbered, Sends, Restarts
  <1> QED
    BY <1>3, <1>4 DEF r

\* A message of q is given up: the link is reset, unless the contract stands.
GivesUpTo(q, r) ==
  /\ Counts(q, r)
  /\ r.snk \in {"HARD_RESET", "READY"} \/ Restarts(r)
  /\ q.snk = "SEND_SOFT_RESET" => r.snk = "HARD_RESET"

LEMMA ErrorLinks ==
  ASSUME NEW q, Clear(q)
  PROVE  Hushed(q, TransmissionError(q)) /\ GivesUpTo(q, TransmissionError(q))
  <1>1. /\ Hushed(q, EnterHardReset(q)) /\ Counts(q, EnterHardReset(q))
        /\ EnterHardReset(q).snk = "HARD_RESET"
    BY HardResetLinks DEF Clear, Silent
  <1>2. /\ Hushed(q, EnterReady(q)) /\ Counts(q, EnterReady(q))
        /\ EnterReady(q).snk = "READY"
    BY ReadyLinks, EnterReadyIs DEF Clear, Silent, IsReady
  <1>3. /\ Hushed(q, EnterSendSoftReset(q)) /\ Counts(q, EnterSendSoftReset(q))
        /\ Restarts(EnterSendSoftReset(q))
    BY SoftResetSentLinks
  <1> QED
    BY <1>1, <1>2, <1>3 DEF TransmissionError, GivesUpTo

LEMMA RchErrorLinks ==
  ASSUME NEW q, Clear(q)
  PROVE  Hushed(q, RchTransmissionError(q)) /\ GivesUpTo(q, RchTransmissionError(q))
  <1> DEFINE w == RchWaitForMessage(q)
             r == TransmissionError(w)
  <1>1. Clear(w)
    BY RchWaitKeeps DEF Clear, Silent
  <1>2. Hushed(w, r) /\ GivesUpTo(w, r)
    BY <1>1, ErrorLinks
  <1>3. w.snk = q.snk /\ (Counts(w, r) => Counts(q, r)) /\ (Hushed(w, r) => Hushed(q, r))
    BY RchWaitKeeps, RchWaitIs DEF Clear, Silent
  <1>4. RchTransmissionError(q) = r
    BY DEF RchTransmissionError
  <1> HIDE DEF w, r
  <1> QED
    BY <1>2, <1>3, <1>4 DEF GivesUpTo

-----------------------------------------------------------------------------
\* A transmission has failed

\* The transmission in progress has failed.
Fails(q) ==
  /\ Steady(q)
  /\ q.tx = "WAIT_FOR_PHY_RESPONSE"
  /\ q.air = NoMessage
  /\ q.tim[0] # "CRC_RECEIVE"

LEMMA SteadySelf == ASSUME NEW q, Steady(q), Guarded(q) PROVE Hushed(q, q)
  BY DEF Hushed, Handles, Sends

\* The transmitter is free again.
LEMMA FreedIs ==
  ASSUME NEW q, Steady(q), q.air = NoMessage, q.tim[0] # "CRC_RECEIVE",
         NEW r, Only(q, r, CountFields \cup {"tx"}), Port(r),
         r.tx = "WAIT_FOR_MESSAGE_REQUEST", r.rch \in SprRch, r.extRx = NONE
  PROVE  /\ Clear(r)
         /\ r.cad = q.cad /\ r.rxMsg = q.rxMsg /\ r.txAllowed = q.txAllowed
         /\ r.snk = q.snk /\ r.tch = q.tch /\ r.txKind = q.txKind
  <1>1. NoEpr(q) /\ DOMAIN q = Fields /\ q.hrdOriginPE \in BOOLEAN
        /\ q.hardResetActive \in BOOLEAN
    BY FlagsAre DEF Steady, Sound, Spr
  <1>2. q.snk # "HARD_RESET"
    BY DEF Steady, NoMessage, NONE
  <1>3. /\ r.cad = q.cad /\ r.rxMsg = q.rxMsg /\ r.txAllowed = q.txAllowed
        /\ r.snk = q.snk /\ r.tch = q.tch /\ r.air = q.air
        /\ r.txKind = q.txKind /\ r.tim = q.tim /\ DOMAIN r = Fields
        /\ r.extended = q.extended /\ r.epr_mode = q.epr_mode
        /\ r.pps_contract = q.pps_contract /\ r.hrdOriginPE = q.hrdOriginPE
        /\ r.hardResetActive = q.hardResetActive
    BY <1>1 DEF Only, Fields, CountFields
  <1>4. CountFields \cup {"tx"} \subseteq Moving /\ Flags \cap (CountFields \cup {"tx"}) = {}
    BY DEF CountFields, Moving, Flags
  <1>5. NoEpr(r)
    BY <1>1, <1>3, <1>4, SprKept DEF NoEpr
  <1>6. Spr(r)
    BY <1>3, <1>5 DEF Spr, SprTimers, Steady, Sound
  <1> QED
    BY <1>1, <1>2, <1>3, <1>6 DEF Steady, Sound, Silent, Clear

Successor(mid) == IF mid + 1 > MidMax THEN 0 ELSE mid + 1

\* The counter of the retries counts those of the message that waits for its GoodCRC.
Tally(q) == Numbered(q) /\ (q.tx # "WAIT_FOR_PHY_RESPONSE" => q.retry = 0)

\* The next message will have the next MessageID.
Advances(q, r) ==
  /\ r.mid = Successor(q.mid) /\ r.retry = 0 /\ Numbered(r)
  /\ r.tx = "WAIT_FOR_MESSAGE_REQUEST" /\ r.tim[0] # "CRC_RECEIVE"

\* The same message is sent once more.
Repeats(q, r) ==
  /\ q.tx = "WAIT_FOR_PHY_RESPONSE" /\ r.tx = "WAIT_FOR_PHY_RESPONSE"
  /\ r.txKind = q.txKind /\ r.mid = q.mid /\ r.retry = q.retry + 1
  /\ r.tim[0] # "CRC_RECEIVE"
  /\ Numbered(r)
  /\ q.txAllowed = FALSE => r.air = NoMessage

Resets(r) == Tally(r) /\ (r.snk = "HARD_RESET" \/ Restarts(r))

\* ... or not any more.
Retries(q, r) ==
  \/ Repeats(q, r)
  \/ Resets(r)
  \/ /\ q.retry = NRetry /\ q.snk # "SEND_SOFT_RESET"
     /\ q.tx = "WAIT_FOR_PHY_RESPONSE" /\ Advances(q, r)

LEMMA RetryLinks ==
  ASSUME NEW q, Fails(q)
  PROVE  Hushed(q, TxCheckRetryCounter(q)) /\ Retries(q, TxCheckRetryCounter(q))
  <1>1. NoEpr(q) /\ Port(q) /\ DOMAIN q = Fields /\ q.txAllowed \in BOOLEAN
        /\ q.hrdOriginPE \in BOOLEAN /\ q.hardResetActive \in BOOLEAN
    BY FlagsAre DEF Fails, Steady, Sound, Spr
  <1>2. CASE q.retry + 1 <= NRetry
    <2> DEFINE a == [q EXCEPT !.retry = @ + 1]
               r == TxConstructMessage(a)
    <2>1. TxCheckRetryCounter(q) = r
      BY <1>2 DEF TxCheckRetryCounter
    <2>2. Only(q, a, {"retry"}) /\ a.retry = q.retry + 1
      BY <1>1 DEF Only, Fields
    <2>3. Port(a)
      <3>1. q.retry + 1 \in RetryType
        BY <1>1, <1>2, PortAssumption DEF Port, RetryType
      <3> QED
        BY <1>1, <3>1 DEF Port, Fields
    <2> HIDE DEF a
    <2>4. /\ a.txAllowed = q.txAllowed /\ a.air = q.air /\ a.txKind = q.txKind
          /\ DOMAIN a = Fields
      BY <1>1, <2>2 DEF Only, Fields
    <2>5. Constructed(a, r)
      BY <1>1, <2>3, <2>4, ConstructIs
    <2> HIDE DEF r
    <2>6. /\ Only(q, r, TxFields \cup {"retry"}) /\ Port(r)
          /\ r.tx = "WAIT_FOR_PHY_RESPONSE" /\ r.txAllowed = FALSE
      BY <2>2, <2>5 DEF Only, TxFields, Constructed
    <2>7. r.air = NoMessage \/ r.air.kind = q.txKind
      BY <2>4, <2>5 DEF Constructed, AirAfter, Fails, NoMessage, NONE
    <2>8. /\ r.snk = q.snk /\ r.tim = q.tim /\ r.txKind = q.txKind
          /\ r.hrdOriginPE = q.hrdOriginPE /\ r.pps_contract = q.pps_contract
          /\ r.hardResetActive = q.hardResetActive
          /\ r.cad = q.cad /\ r.rxMsg = q.rxMsg /\ r.extended = q.extended
          /\ r.epr_mode = q.epr_mode /\ r.rch = q.rch /\ r.extRx = q.extRx
      BY <1>1, <2>6 DEF Only, TxFields, Fields
    <2>9. r.tch = q.tch
      BY <1>1, <2>2, <2>5 DEF Constructed, Only, Fields
    <2>10. NoEpr(r)
      <3>1. TxFields \cup {"retry"} \subseteq Moving
            /\ Flags \cap (TxFields \cup {"retry"}) = {"txAllowed"}
        BY DEF TxFields, Moving, Flags
      <3> QED
        BY <1>1, <2>6, <2>8, <3>1, SprKept DEF NoEpr
    <2>11. Spr(r)
      BY <2>8, <2>10 DEF Fails, Steady, Sound, Spr, SprTimers
    <2>12. q.snk \in Sending /\ q.snk # "HARD_RESET" /\ q.snk # "TRANSITION_SINK"
      BY DEF Fails, Steady, Sound, Sending
    <2>13. q.txKind \notin {NONE, "HardReset"}
      BY <2>12, SpokenKinds DEF Fails, Steady, Sound, NONE
    <2>14. Sound(r)
      BY <2>6, <2>7, <2>8, <2>9, <2>11, <2>12, <2>13
      DEF Fails, Steady, Sound, Sends, AwaitsPhy, NoMessage, NONE
    <2>15. Sends(r) => q.txAllowed
      BY <1>1, <2>4, <2>5 DEF Constructed, AirAfter, Fails, Sends, NoMessage, NONE
    <2>16. Hushed(q, r)
      BY <2>6, <2>8, <2>12, <2>14, <2>15 DEF Fails, Steady, Hushed, Handles, Guarded
    <2>17. r.mid = q.mid /\ r.retry = q.retry + 1 /\ a.mid = q.mid
      BY <1>1, <2>2, <2>4, <2>5 DEF Constructed, Only, Fields
    <2>18. Numbered(r)
      BY <2>4, <2>5, <2>17 DEF Constructed, AirAfter, Fails, Numbered, Sends, NoMessage
    <2>19. q.txAllowed = FALSE => r.air = NoMessage
      BY <2>4, <2>5 DEF Constructed, AirAfter, Fails
    <2>20. Repeats(q, r)
      BY <2>6, <2>8, <2>17, <2>18, <2>19 DEF Repeats, Fails
    <2> QED
      BY <2>1, <2>16, <2>20 DEF Retries
  <1>3. CASE ~(q.retry + 1 <= NRetry)
    <2> DEFINE i == IncrementMID(q)
               t == TxWaitForMessageRequest(i)
    <2>1. TxCheckRetryCounter(q) = RchTransmissionError(t)
      BY <1>3 DEF TxCheckRetryCounter
    <2>2. Port(i)
      BY <1>1, MidStays DEF Stays, Keeps
    <2>3. Only(q, i, {"mid"})
      BY <1>1 DEF IncrementMID, Only, Fields
    <2> HIDE DEF i
    <2>4. Port(t) /\ DOMAIN i = Fields
      BY <2>2, WaitsStay DEF Stays, Keeps, Port
    <2>5. Only(i, t, {"tx", "retry"}) /\ t.tx = "WAIT_FOR_MESSAGE_REQUEST"
      BY <2>4 DEF TxWaitForMessageRequest, Only, Fields
    <2> HIDE DEF t
    <2>6. Only(q, t, CountFields \cup {"tx"})
      BY <2>3, <2>5 DEF Only, CountFields
    <2>7. t.rch = q.rch /\ t.extRx = q.extRx
      BY <1>1, <2>3, <2>4, <2>5 DEF Only, Fields
    <2>8. Clear(t) /\ t.cad = q.cad /\ t.rxMsg = q.rxMsg /\ t.txAllowed = q.txAllowed
      BY <1>1, <2>4, <2>5, <2>6, <2>7, FreedIs DEF Fails, NoEpr
    <2> DEFINE r == RchTransmissionError(t)
    <2>9. Hushed(t, r) /\ GivesUpTo(t, r)
      BY <2>8, RchErrorLinks
    <2> HIDE DEF r
    <2>10. Hushed(q, r)
      BY <2>8, <2>9 DEF Hushed, Handles, Sends, Clear, NoMessage, NONE
    <2>11. q.retry = NRetry
      BY <1>1, <1>3, PortAssumption DEF Port, RetryType
    <2>12. t.mid = Successor(q.mid) /\ t.retry = 0 /\ t.snk = q.snk
      <3>1. i.mid = Successor(q.mid) /\ i.snk = q.snk
        BY <1>1 DEF i, IncrementMID, Successor, Fields
      <3>2. t.mid = i.mid /\ t.retry = 0 /\ t.snk = i.snk
        BY <2>4 DEF t, TxWaitForMessageRequest, Fields
      <3> QED
        BY <3>1, <3>2
    <2>13. r.retry = 0 /\ Numbered(r) /\ r.tim[0] # "CRC_RECEIVE" /\ Tally(r)
      BY <2>9, <2>12 DEF GivesUpTo, Counts, Tally
    <2>14. CASE r.snk = "HARD_RESET" \/ Restarts(r)
      BY <2>1, <2>10, <2>13, <2>14 DEF Retries, Resets, r
    <2>15. CASE r.snk = "READY" /\ ~Restarts(r)
      <3>1. r.tx = "WAIT_FOR_MESSAGE_REQUEST"
        BY <2>10, <2>15 DEF Hushed, Handles, Steady, Sound, Sending
      <3>2. r.mid = t.mid /\ q.snk # "SEND_SOFT_RESET"
        BY <2>9, <2>12, <2>15 DEF GivesUpTo, Counts
      <3> QED
        BY <2>1, <2>10, <2>11, <2>12, <2>13, <3>1, <3>2 DEF Retries, Advances, Fails, r
    <2> QED
      BY <2>9, <2>14, <2>15 DEF GivesUpTo
  <1> QED
    BY <1>2, <1>3

\* A message of q is done with.
Finishes(q, r) ==
  Counts(q, r) /\ r.tx = "WAIT_FOR_MESSAGE_REQUEST" /\ r.mid = q.mid

\* The answer to what was sent may stay away.
LEMMA AwaitLinks ==
  ASSUME NEW v, NEW q, Hushed(v, q), q.snk \notin {"TRANSITION_SINK"}
  PROVE  /\ Hushed(v, AwaitEPREntry(AwaitResponse(q)))
         /\ Finishes(v, q) => Finishes(v, AwaitEPREntry(AwaitResponse(q)))
  <1> DEFINE t == UCPD_TIM_Start(q, "SENDER_RESPONSE")
             r == [t EXCEPT !.response_expected = FALSE]
  <1>1. NoEpr(q) /\ Port(q) /\ DOMAIN q = Fields /\ Sound(q) /\ Spr(q)
    BY FlagsAre DEF Hushed, Handles, Steady, Sound, Spr, Sends
  <1>2. CASE ~q.response_expected
    BY <1>1, <1>2 DEF AwaitEPREntry, AwaitResponse, NoEpr
  <1>3. CASE q.response_expected
    <2>1. Started0(q, t, "SENDER_RESPONSE")
      BY <1>1, TimersAre, TimerChannels
    <2>2. AwaitResponse(q) = r
      BY <1>3 DEF AwaitResponse
    <2> HIDE DEF t
    <2>3. /\ Only(t, r, {"response_expected"}) /\ r.tim = t.tim /\ Port(r)
          /\ r.response_expected = FALSE
      BY <2>1 DEF Started0, Only, Fields, Port
    <2> HIDE DEF r
    <2>4. Only(q, r, {"tim", "response_expected"})
      BY <2>1, <2>3 DEF Started0, Only
    <2>5. /\ r.snk = q.snk /\ r.tch = q.tch /\ r.tx = q.tx /\ r.air = q.air
          /\ r.cad = q.cad /\ r.rxMsg = q.rxMsg /\ r.rch = q.rch /\ r.extRx = q.extRx
          /\ r.epr_mode = q.epr_mode /\ r.extended = q.extended /\ r.txKind = q.txKind
          /\ r.txAllowed = q.txAllowed /\ r.entering_epr = q.entering_epr
          /\ r.hrdOriginPE = q.hrdOriginPE /\ r.hardResetActive = q.hardResetActive
          /\ r.pps_contract = q.pps_contract
          /\ r.mid = q.mid /\ r.retry = q.retry
      BY <1>1, <2>4 DEF Only, Fields
    <2>6. r.tim[0] = "SENDER_RESPONSE" /\ r.tim[1] = q.tim[1]
      BY <2>1, <2>3 DEF Started0
    <2>7. NoEpr(r)
      <3>1. {"tim", "response_expected"} \subseteq Moving
        BY DEF Moving, Flags
      <3>2. \A f \in Flags \cap {"tim", "response_expected"} : r[f] \in BOOLEAN
        BY <2>3 DEF Flags
      <3> QED
        BY <1>1, <2>3, <2>4, <2>5, <3>1, <3>2, SprSame
    <2>8. Spr(r)
      BY <1>1, <2>5, <2>6, <2>7 DEF Spr, SprTimers
    <2>9. Sound(r)
      BY <1>1, <2>5, <2>6, <2>8 DEF Sound, Sends, AwaitsPhy
    <2>10. Hushed(v, r)
      BY <2>5, <2>9 DEF Hushed, Handles, Steady, Guarded, Sends
    <2>11. AwaitEPREntry(r) = r
      BY <1>1, <2>5 DEF AwaitEPREntry, NoEpr
    <2>12. Finishes(v, q) => Finishes(v, r)
      BY <2>5, <2>6 DEF Finishes, Counts, Numbered, Sends
    <2> QED
      BY <2>2, <2>10, <2>11, <2>12
  <1> QED
    BY <1>2, <1>3

-----------------------------------------------------------------------------
\* A transmission has succeeded

LEMMA ReadyState == ASSUME NEW q, Silent(q) PROVE EnterReady(q).snk = "READY"
  BY EnterReadyIs DEF IsReady, Silent

LEMMA WaitState ==
  ASSUME NEW q, Silent(q)
  PROVE  EnterWaitForCapabilities(q).snk = "WAIT_FOR_CAPABILITIES"
  BY EnterWaitIs DEF IsWait, Silent

LEMMA HaltFinishes ==
  ASSUME NEW q, NEW r, Steady(r), Counts(q, r), r.snk \notin Sending \cup {"HARD_RESET"}
  PROVE  Finishes(q, r)
  BY DEF Finishes, Counts, Restarts, Steady, Sound

LEMMA SentStateLinks ==
  ASSUME NEW q, Clear(q), q.snk \in Sending, NEW kind
  PROVE  /\ Hushed(q, Sent(q, kind)) /\ Sent(q, kind).snk # "TRANSITION_SINK"
         /\ Finishes(q, Sent(q, kind))
  <1>1. /\ Hushed(q, EnterReady(q)) /\ EnterReady(q).snk # "TRANSITION_SINK"
        /\ Finishes(q, EnterReady(q))
    <2>1. /\ Hushed(q, EnterReady(q)) /\ EnterReady(q).snk = "READY"
          /\ Counts(q, EnterReady(q))
      BY ReadyLinks, ReadyState DEF Clear
    <2> QED
      BY <2>1, HaltFinishes DEF Hushed, Handles, Sending
  <1>2. /\ Hushed(q, EnterWaitForCapabilities(q))
        /\ EnterWaitForCapabilities(q).snk # "TRANSITION_SINK"
        /\ Finishes(q, EnterWaitForCapabilities(q))
    <2>1. /\ Hushed(q, EnterWaitForCapabilities(q))
          /\ EnterWaitForCapabilities(q).snk = "WAIT_FOR_CAPABILITIES"
          /\ Counts(q, EnterWaitForCapabilities(q))
      BY WaitLinks, WaitState DEF Clear
    <2> QED
      BY <2>1, HaltFinishes DEF Hushed, Handles, Sending
  <1>3. Hushed(q, q) /\ q.snk # "TRANSITION_SINK" /\ Finishes(q, q)
    <2>1. q.snk # "HARD_RESET" /\ q.snk # "TRANSITION_SINK"
      BY DEF Sending
    <2>2. Steady(q)
      BY <2>1, IdleSteady DEF Clear
    <2>3. Finishes(q, q)
      BY DEF Finishes, Counts, Clear, Silent, Numbered, Sends, NoMessage
    <2> QED
      BY <2>1, <2>2, <2>3, SteadySelf DEF Guarded
  <1> QED
    BY <1>1, <1>2, <1>3 DEF Sent

LEMMA MessageSentLinks ==
  ASSUME NEW q, Clear(q), q.snk \in Sending
  PROVE  Hushed(q, MessageSent(q)) /\ Finishes(q, MessageSent(q))
  <1> DEFINE v == [q EXCEPT !.extended = FALSE, !.ams_first_sent = @ \/ q.ams]
             kind == IF q.extended THEN NONE ELSE q.txKind
  <1>1. NoEpr(q) /\ Port(q) /\ DOMAIN q = Fields /\ Spr(q)
    BY FlagsAre DEF Clear, Silent, Spr
  <1>2. MessageSent(q) = AwaitEPREntry(AwaitResponse(Sent(v, kind)))
    BY DEF MessageSent
  <1>3. /\ Only(q, v, {"extended", "ams_first_sent"}) /\ Port(v)
        /\ v.extended = FALSE /\ v.ams_first_sent \in BOOLEAN
    BY <1>1 DEF Only, Fields, Port
  <1> HIDE DEF v, kind
  <1>4. /\ v.snk = q.snk /\ v.tch = q.tch /\ v.tx = q.tx /\ v.air = q.air
        /\ v.cad = q.cad /\ v.rxMsg = q.rxMsg /\ v.rch = q.rch /\ v.extRx = q.extRx
        /\ v.epr_mode = q.epr_mode /\ v.txKind = q.txKind
        /\ v.txAllowed = q.txAllowed /\ v.tim = q.tim
        /\ v.hrdOriginPE = q.hrdOriginPE /\ v.hardResetActive = q.hardResetActive
        /\ v.pps_contract = q.pps_contract
        /\ v.mid = q.mid /\ v.retry = q.retry
    BY <1>1, <1>3 DEF Only, Fields
  <1>5. NoEpr(v)
    <2>1. {"extended", "ams_first_sent"} \subseteq Moving
      BY DEF Moving, Flags
    <2>2. \A f \in Flags \cap {"extended", "ams_first_sent"} : v[f] \in BOOLEAN
      BY <1>3 DEF Flags
    <2> QED
      BY <1>1, <1>3, <1>4, <2>1, <2>2, SprKept, ZenonT(60) DEF NoEpr
  <1>6. Clear(v)
    BY <1>1, <1>4, <1>5 DEF Clear, Silent, Spr, SprTimers
  <1>7. /\ Hushed(v, Sent(v, kind)) /\ Sent(v, kind).snk # "TRANSITION_SINK"
        /\ Finishes(v, Sent(v, kind))
    BY <1>4, <1>6, SentStateLinks
  <1> DEFINE r == AwaitEPREntry(AwaitResponse(Sent(v, kind)))
  <1>8. Hushed(v, r) /\ Finishes(v, r)
    BY <1>7, AwaitLinks
  <1> HIDE DEF r
  <1>9. Hushed(q, r)
    BY <1>4, <1>8 DEF Hushed, Handles, Sends
  <1>10. Finishes(q, r)
    BY <1>4, <1>8 DEF Finishes, Counts
  <1> QED
    BY <1>2, <1>9, <1>10 DEF r

\* The message has reached the source.
LEMMA TxSentLinks ==
  ASSUME NEW q, Fails(q)
  PROVE  Hushed(q, TxMessageSent(q)) /\ Advances(q, TxMessageSent(q))
  <1> DEFINE i == IncrementMID(q)
             t == TxWaitForMessageRequest(i)
             u == TchWaitForRequest(t)
  <1>1. NoEpr(q) /\ Port(q) /\ DOMAIN q = Fields
    BY FlagsAre DEF Fails, Steady, Sound, Spr
  <1>2. TxMessageSent(q) = ReportSent(t)
    BY DEF TxMessageSent
  <1>3. Port(i)
    BY <1>1, MidStays DEF Stays, Keeps
  <1>4. Only(q, i, {"mid"})
    BY <1>1 DEF IncrementMID, Only, Fields
  <1> HIDE DEF i
  <1>5. Port(t) /\ DOMAIN i = Fields
    BY <1>3, WaitsStay DEF Stays, Keeps, Port
  <1>6. Only(i, t, {"tx", "retry"}) /\ t.tx = "WAIT_FOR_MESSAGE_REQUEST"
    BY <1>5 DEF TxWaitForMessageRequest, Only, Fields
  <1> HIDE DEF t
  <1>7. Only(q, t, CountFields \cup {"tx"})
    BY <1>4, <1>6 DEF Only, CountFields
  <1>8. t.rch = q.rch /\ t.extRx = q.extRx /\ DOMAIN t = Fields
    BY <1>1, <1>4, <1>5, <1>6 DEF Only, Fields
  <1>9. /\ Clear(t) /\ t.cad = q.cad /\ t.rxMsg = q.rxMsg /\ t.txAllowed = q.txAllowed
        /\ t.snk = q.snk /\ t.tch = q.tch
    BY <1>1, <1>5, <1>6, <1>7, <1>8, FreedIs DEF Fails, NoEpr
  <1>10. q.tch = "WAIT_FOR_TRANSMISSION_COMPLETE" /\ q.snk \in Sending
    BY DEF Fails, Steady, Sound
  <1>11. ReportSent(t) = MessageSent(u)
    BY <1>1, <1>8, <1>9, <1>10 DEF ReportSent, NoEpr, SprRch
  <1>12. /\ Only(t, u, {"tch"}) /\ Port(u) /\ u.tch = "WAIT_FOR_MESSAGE_REQUEST_FROM_PE"
    BY <1>5, <1>8, WaitsStay DEF TchWaitForRequest, Only, Fields, Stays, Keeps, Port
  <1> HIDE DEF u
  <1>13. Only(t, u, TxFields) /\ u.mid = t.mid /\ u.retry = t.retry /\ u.tx = t.tx /\ u.air = t.air /\ u.txAllowed = t.txAllowed
    BY <1>8, <1>12 DEF Only, TxFields, Fields
  <1>14. Clear(u) /\ u.snk = t.snk /\ u.cad = t.cad /\ u.rxMsg = t.rxMsg
    <2>1. Spr(t) /\ t.txAllowed \in BOOLEAN
      BY <1>9, FlagsAre DEF Clear, Silent, Spr
    <2>2. Spr(u)
      BY <1>12, <1>13, <2>1, TxSpr
    <2>3. /\ u.snk = t.snk /\ u.tim = t.tim /\ u.txKind = t.txKind
          /\ u.hrdOriginPE = t.hrdOriginPE /\ u.hardResetActive = t.hardResetActive
          /\ u.cad = t.cad /\ u.rxMsg = t.rxMsg
      BY <1>8, <1>13, TxOnly
    <2> QED
      BY <1>9, <1>12, <1>13, <2>2, <2>3 DEF Clear, Silent, TchSpr
  <1> DEFINE r == MessageSent(u)
  <1>15. Hushed(u, r) /\ Finishes(u, r)
    BY <1>9, <1>10, <1>14, MessageSentLinks
  <1> HIDE DEF r
  <1>16. Hushed(q, r)
    BY <1>9, <1>13, <1>14, <1>15 DEF Hushed, Handles, Sends, Clear, NoMessage, NONE
  <1>17. t.mid = Successor(q.mid) /\ t.retry = 0
    <2>1. i.mid = Successor(q.mid)
      BY <1>1 DEF i, IncrementMID, Successor, Fields
    <2>2. t.mid = i.mid /\ t.retry = 0
      BY <1>5 DEF t, TxWaitForMessageRequest, Fields
    <2> QED
      BY <2>1, <2>2
  <1>18. Advances(q, r)
    BY <1>13, <1>15, <1>17 DEF Advances, Finishes, Counts
  <1> QED
    BY <1>2, <1>11, <1>16, <1>18 DEF r

LEMMA MatchLinks ==
  ASSUME NEW q, Steady(q), AwaitsPhy(q), q.air = NoMessage
  PROVE  /\ Hushed(q, TxMatchMessageID(q))
         /\ q.rxMsg.id = q.mid => Advances(q, TxMatchMessageID(q))
  <1> DEFINE s == UCPD_TIM_Stop(q, "CRC_RECEIVE")
  <1>1. NoEpr(q) /\ Port(q) /\ DOMAIN q = Fields /\ Spr(q)
    BY FlagsAre DEF Steady, Sound, Spr
  <1>2. TxMatchMessageID(q) = IF q.rxMsg.id = q.mid THEN TxMessageSent(s)
                              ELSE TxCheckRetryCounter(s)
    BY DEF TxMatchMessageID
  <1>3. Stopped0(q, s, "CRC_RECEIVE")
    BY <1>1, TimersAre, TimerChannels
  <1> HIDE DEF s
  <1>4. Only(q, s, {"tim"}) /\ Port(s)
    BY <1>3 DEF Stopped0
  <1>5. /\ s.snk = q.snk /\ s.tch = q.tch /\ s.tx = q.tx /\ s.air = q.air
        /\ s.cad = q.cad /\ s.rxMsg = q.rxMsg /\ s.rch = q.rch /\ s.extRx = q.extRx
        /\ s.epr_mode = q.epr_mode /\ s.txKind = q.txKind /\ s.extended = q.extended
        /\ s.txAllowed = q.txAllowed
        /\ s.hrdOriginPE = q.hrdOriginPE /\ s.hardResetActive = q.hardResetActive
        /\ s.pps_contract = q.pps_contract /\ s.mid = q.mid
    BY <1>1, <1>4 DEF Only, Fields
  <1>6. NoEpr(s)
    BY <1>1, <1>4, <1>5, SprKept DEF NoEpr, Moving, Flags
  <1>7. s.tim[0] # "CRC_RECEIVE" /\ s.tim[0] \in {q.tim[0], NONE} /\ s.tim[1] = q.tim[1]
    BY <1>3 DEF Stopped0, NONE
  <1>8. Spr(s)
    BY <1>1, <1>5, <1>6, <1>7 DEF Spr, SprTimers, NONE
  <1>9. Sound(s)
    BY <1>5, <1>7, <1>8 DEF Steady, Sound, Sends, AwaitsPhy, NONE
  <1>10. Fails(s)
    BY <1>5, <1>7, <1>9 DEF Fails, Steady, AwaitsPhy
  <1>11. /\ Hushed(s, TxMessageSent(s)) /\ Hushed(s, TxCheckRetryCounter(s))
         /\ Advances(s, TxMessageSent(s))
    BY <1>10, TxSentLinks, RetryLinks
  <1>12. Hushed(q, TxMatchMessageID(q))
    BY <1>2, <1>5, <1>11 DEF Hushed, Handles, Sends
  <1>13. q.rxMsg.id = q.mid => Advances(q, TxMatchMessageID(q))
    BY <1>2, <1>5, <1>11 DEF Advances
  <1> QED
    BY <1>12, <1>13

-----------------------------------------------------------------------------
\* A message is received

SprRx == {"SourceCaps", "Accept", "PS_RDY", "Soft_Reset", "Alert", "Unknown"}
SprReceived == {NONE, "GoodCRC"} \cup SprRx

LEMMA ReceiveLinks ==
  ASSUME NEW q, Clear(q), NEW kind \in SprReceived
  PROVE  Hushed(q, Receive(q, kind)) /\ Counts(q, Receive(q, kind))
  <1>1. Silent(q) /\ Spr(q)
    BY DEF Clear, Silent
  <1> DEFINE Ends(r) == Hushed(q, r) /\ Counts(q, r)
  <1>2. /\ Ends(EnterReady(q)) /\ Ends(EnterTransitionSink(q))
        /\ Ends(EnterEvaluateCapability(q)) /\ Ends(EnterSoftReset(q))
        /\ Ends(EnterSendNotSupported(q)) /\ Ends(EnterSendSoftReset(q))
        /\ Ends(EnterHardReset(q))
    BY <1>1, ReadyLinks, TransitionLinks, EvaluateLinks, SoftResetLinks,
       NotSupportedLinks, SoftResetSentLinks, HardResetLinks
  <1> HIDE DEF Ends
  <1>3. Ends(Receive(q, kind))
    BY <1>2 DEF Receive, SprReceived, SprRx, NONE
  <1> QED
    BY <1>3 DEF Ends

LEMMA ReceivedLinks ==
  ASSUME NEW q, Clear(q), q.rxMsg.kind \in SprReceived
  PROVE  Hushed(q, MessageReceived(q)) /\ Counts(q, MessageReceived(q))
  <1> DEFINE z == [q EXCEPT !.extended = FALSE]
  <1>1. NoEpr(q) /\ Port(q) /\ DOMAIN q = Fields /\ Spr(q)
    BY FlagsAre DEF Clear, Silent, Spr
  <1>2. MessageReceived(q) = Receive(z, q.rxMsg.kind)
    BY <1>1 DEF MessageReceived, NoEpr, SprReceived, SprRx, NONE
  <1>3. Only(q, z, {"extended"}) /\ Port(z) /\ z.extended = FALSE
    BY <1>1 DEF Only, Fields, Port
  <1> HIDE DEF z
  <1>4. /\ z.snk = q.snk /\ z.tch = q.tch /\ z.tx = q.tx /\ z.air = q.air
        /\ z.cad = q.cad /\ z.rxMsg = q.rxMsg /\ z.rch = q.rch /\ z.extRx = q.extRx
        /\ z.epr_mode = q.epr_mode /\ z.txKind = q.txKind
        /\ z.txAllowed = q.txAllowed /\ z.tim = q.tim
        /\ z.hrdOriginPE = q.hrdOriginPE /\ z.hardResetActive = q.hardResetActive
        /\ z.pps_contract = q.pps_contract /\ z.mid = q.mid /\ z.retry = q.retry
    BY <1>1, <1>3 DEF Only, Fields
  <1>5. NoEpr(z)
    BY <1>1, <1>3, <1>4, SprKept DEF NoEpr, Moving, Flags
  <1>6. Clear(z)
    BY <1>1, <1>4, <1>5 DEF Clear, Silent, Spr, SprTimers
  <1> DEFINE r == Receive(z, q.rxMsg.kind)
  <1>7. Hushed(z, r) /\ Counts(z, r)
    BY <1>6, ReceiveLinks
  <1> HIDE DEF r
  <1>8. Hushed(q, r)
    BY <1>4, <1>7 DEF Hushed, Handles, Sends
  <1>9. Counts(q, r)
    BY <1>4, <1>7 DEF Counts
  <1> QED
    BY <1>2, <1>8, <1>9 DEF r

LEMMA PassUpLinks ==
  ASSUME NEW q, Clear(q), q.rxMsg.kind \in SprReceived
  PROVE  Hushed(q, RchPassUpMessage(q)) /\ Counts(q, RchPassUpMessage(q))
  <1> DEFINE y == [q EXCEPT !.rch = "PASS_UP_MESSAGE"]
             r == MessageReceived(y)
  <1>1. NoEpr(q) /\ Port(q) /\ DOMAIN q = Fields /\ Spr(q)
    BY FlagsAre DEF Clear, Silent, Spr
  <1>2. RchPassUpMessage(q) = RchWaitForMessage(r)
    BY DEF RchPassUpMessage
  <1>3. /\ Only(q, y, CountFields) /\ Port(y) /\ y.rch = "PASS_UP_MESSAGE" /\ y.extRx = q.extRx
        /\ y.mid = q.mid /\ y.retry = q.retry
    BY <1>1 DEF Only, Fields, Port, CountFields
  <1> HIDE DEF y
  <1>4. /\ Clear(y) /\ y.cad = q.cad /\ y.rxMsg = q.rxMsg /\ y.txAllowed = q.txAllowed
    BY <1>1, <1>3, CountsKeep DEF NoEpr, SprRch
  <1>5. Hushed(y, r) /\ Counts(y, r)
    BY <1>4, ReceivedLinks
  <1> HIDE DEF r
  <1> DEFINE w == RchWaitForMessage(r)
  <1>6. Hushed(y, w)
    BY <1>5, RchWaitKeeps DEF Hushed, Handles, Steady, Sound, Sends
  <1>7. Counts(y, w)
    <2>1. Spr(r)
      BY <1>5 DEF Hushed, Handles, Steady, Sound
    <2> QED
      BY <1>5, <2>1, RchWaitKeeps DEF Spr
  <1> HIDE DEF w
  <1>8. Hushed(q, w)
    BY <1>4, <1>6 DEF Hushed, Handles, Sends, Clear, NoMessage, NONE
  <1>9. Counts(q, w)
    BY <1>3, <1>7 DEF Counts
  <1> QED
    BY <1>2, <1>8, <1>9 DEF w

\* A message that is not a retransmission
LEMMA StoreLinks ==
  ASSUME NEW q, Steady(q), q.air = NoMessage, q.tim[0] # "CRC_RECEIVE",
         q.rxMsg.kind \in SprReceived, q.rch = "WAIT_FOR_MESSAGE_FROM_PRL"
  PROVE  /\ Hushed(q, RxStoreMessageID(q)) /\ Counts(q, RxStoreMessageID(q))
         /\ RxStoreMessageID(q).retry = 0
  <1> DEFINE t == TxWaitForMessageRequest(q)
             s == [t EXCEPT !.rx = "WAIT_FOR_PHY_MESSAGE", !.storedMID = q.rxMsg.id,
                            !.passedUp = TRUE]
             u == TchWaitForRequest([s EXCEPT !.extRx = NONE])
             x == IF s.tch = "WAIT_FOR_MESSAGE_REQUEST_FROM_PE" THEN s ELSE u
  <1>1. NoEpr(q) /\ Port(q) /\ DOMAIN q = Fields
    BY FlagsAre DEF Steady, Sound, Spr
  <1>2. RxStoreMessageID(q) = RouteReceived(x)
    BY DEF RxStoreMessageID
  <1>3. /\ Port(t) /\ Only(q, t, {"tx", "retry"}) /\ t.tx = "WAIT_FOR_MESSAGE_REQUEST"
        /\ t.retry = 0
    BY <1>1, WaitsStay DEF Stays, Keeps, TxWaitForMessageRequest, Only, Fields
  <1> HIDE DEF t
  <1>4. Port(s) /\ Only(t, s, {"rx", "storedMID", "passedUp"})
    BY <1>3 DEF Port, Fields, Only, RxType
  <1> HIDE DEF s
  <1>5. Only(q, s, CountFields \cup {"tx"})
    BY <1>3, <1>4 DEF Only, CountFields
  <1>6. /\ s.tx = "WAIT_FOR_MESSAGE_REQUEST" /\ s.rch = q.rch /\ s.extRx = q.extRx
        /\ DOMAIN s = Fields /\ s.mid = q.mid /\ s.retry = 0
    BY <1>1, <1>3, <1>4 DEF Only, Fields, Port
  <1>7. /\ Clear(s)
        /\ s.cad = q.cad /\ s.rxMsg = q.rxMsg /\ s.txAllowed = q.txAllowed
    BY <1>1, <1>4, <1>5, <1>6, FreedIs DEF NoEpr
  <1>8. /\ Only(s, u, {"tch", "extRx"}) /\ Port(u) /\ u.extRx = NONE
        /\ u.tch = "WAIT_FOR_MESSAGE_REQUEST_FROM_PE"
    BY <1>4, <1>6 DEF TchWaitForRequest, Only, Fields, Port
  <1> HIDE DEF u
  <1>9. /\ u.snk = s.snk /\ u.tx = s.tx /\ u.air = s.air
        /\ u.cad = s.cad /\ u.rxMsg = s.rxMsg /\ u.rch = s.rch
        /\ u.epr_mode = s.epr_mode /\ u.txKind = s.txKind /\ u.extended = s.extended
        /\ u.txAllowed = s.txAllowed /\ u.tim = s.tim
        /\ u.hrdOriginPE = s.hrdOriginPE /\ u.hardResetActive = s.hardResetActive
        /\ u.pps_contract = s.pps_contract /\ u.mid = s.mid /\ u.retry = s.retry
    BY <1>6, <1>8 DEF Only, Fields
  <1>10. Clear(u)
    <2>1. NoEpr(s) /\ Spr(s)
      BY <1>7 DEF Clear, Silent, Spr
    <2>2. NoEpr(u)
      BY <1>8, <1>9, <2>1, SprKept, ZenonT(60) DEF NoEpr, Moving, Flags
    <2> QED
      BY <1>7, <1>8, <1>9, <2>1, <2>2 DEF Clear, Silent, Spr, SprTimers, TchSpr
  <1>11. Clear(x) /\ x.cad = q.cad /\ x.rxMsg = q.rxMsg /\ x.txAllowed = q.txAllowed
         /\ x.rch = q.rch /\ x.mid = q.mid /\ x.retry = 0
    BY <1>6, <1>7, <1>9, <1>10
  <1> HIDE DEF x
  <1>12. RouteReceived(x) = RchPassUpMessage(x)
    BY <1>11 DEF RouteReceived, SprReceived, SprRx, ExtKinds, NONE
  <1> DEFINE r == RchPassUpMessage(x)
  <1>13. Hushed(x, r) /\ Counts(x, r)
    BY <1>11, PassUpLinks
  <1> HIDE DEF r
  <1>14. Hushed(q, r)
    BY <1>11, <1>13 DEF Hushed, Handles, Sends, Clear, NoMessage, NONE
  <1>15. Counts(q, r) /\ r.retry = 0
    BY <1>11, <1>13 DEF Counts
  <1> QED
    BY <1>2, <1>12, <1>14, <1>15 DEF r

-----------------------------------------------------------------------------
\* What an event does to the MessageID and to the count of the retries

\* The message of q is waited for as before ...
Stands(q, r) ==
  /\ r.tx = q.tx /\ r.txKind = q.txKind /\ r.mid = q.mid /\ r.retry = q.retry
  /\ r.air = q.air

\* ... or there was none.
Fresh(q, r) ==
  /\ ~AwaitsPhy(q)
  /\ r.mid = q.mid /\ r.retry = 0 /\ r.tim[0] # "CRC_RECEIVE"

\* From q, by the events e and t, to r
Moves(q, e, t, r) ==
  \/ r.snk = "HARD_RESET"
  \/ Restarts(r)
  \/ /\ e = "MSG_RX_COMPLETE" /\ q.rxMsg.kind = "Soft_Reset"
     /\ r.tx = "WAIT_FOR_MESSAGE_REQUEST"
  \/ /\ Stands(q, r)
     /\ r.tim[0] = "CRC_RECEIVE" => q.tim[0] = "CRC_RECEIVE" \/ e = "MSG_TX_COMPLETED"
     /\ ~(e = "MSG_RX_COMPLETE" /\ q.rxMsg.kind = "GoodCRC")
  \/ /\ Repeats(q, r)
     /\ t = "CRC_RECEIVE" \/ e = "MSG_TX_DISCARDED"
  \/ /\ Advances(q, r)
     /\ \/ e = "MSG_RX_COMPLETE" /\ q.rxMsg.kind = "GoodCRC"
        \/ /\ q.tx = "WAIT_FOR_PHY_RESPONSE" /\ q.snk # "SEND_SOFT_RESET"
           /\ q.retry = NRetry
           /\ t = "CRC_RECEIVE" \/ e = "MSG_TX_DISCARDED"
  \/ Fresh(q, r)

Proceeds(q, e, t, r) ==
  /\ Tally(r)
  /\ q.snk = "HARD_RESET" => r.snk = "HARD_RESET"
  /\ Moves(q, e, t, r)

\* A GoodCRC or the message that waited for SinkTxOk goes out.
Adds(q, r) ==
  /\ q.tx # "WAIT_FOR_PHY_RESPONSE"
  /\ r.tx = q.tx \/ q.tx = "SNK_PENDING"
  /\ r.mid = q.mid /\ r.retry = q.retry /\ r.tim = q.tim /\ r.snk = q.snk
  /\ Numbered(r)

LEMMA StandsProceeds ==
  ASSUME NEW q, Tally(q), NEW r, Stands(q, r), r.snk = q.snk, NEW e, NEW t,
         r.tim[0] = "CRC_RECEIVE" => q.tim[0] = "CRC_RECEIVE" \/ e = "MSG_TX_COMPLETED",
         ~(e = "MSG_RX_COMPLETE" /\ q.rxMsg.kind = "GoodCRC")
  PROVE  Proceeds(q, e, t, r)
  BY DEF Proceeds, Moves, Stands, Tally, Numbered, Sends

LEMMA CountsProceed ==
  ASSUME NEW q, ~AwaitsPhy(q), q.snk # "HARD_RESET", NEW r, Counts(q, r), r.retry = 0,
         NEW e, NEW t
  PROVE  Proceeds(q, e, t, r)
  BY DEF Proceeds, Moves, Fresh, Counts, Tally

\* One event after another that has changed q to v
LEMMA AddsProceed ==
  ASSUME NEW q, Steady(q), NEW t, NEW v, Proceeds(q, NONE, t, v),
         NEW e, ~(e = "MSG_RX_COMPLETE" /\ q.rxMsg.kind = "GoodCRC"),
         NEW r, Adds(v, r) \/ r = v
  PROVE  Proceeds(q, e, t, r)
  <1>1. CASE r = v
    BY <1>1 DEF Proceeds, Moves, NONE
  <1>2. CASE Adds(v, r)
    <2>1. Tally(r) /\ v.retry = 0 /\ r.retry = 0 /\ ~Restarts(v)
      BY <1>2 DEF Proceeds, Tally, Adds, Restarts
    <2>2. CASE r.snk = "HARD_RESET"
      BY <2>1, <2>2 DEF Proceeds, Moves
    <2>3. CASE \/ Stands(q, v) /\ (v.tim[0] = "CRC_RECEIVE" => q.tim[0] = "CRC_RECEIVE")
               \/ Fresh(q, v)
      <3>1. v.mid = q.mid /\ ~AwaitsPhy(q) /\ v.tim[0] # "CRC_RECEIVE"
        BY <1>2, <2>3 DEF Adds, Stands, Fresh, AwaitsPhy, Steady, Sound
      <3>2. Fresh(q, r)
        BY <1>2, <2>1, <3>1 DEF Adds, Fresh
      <3>3. q.snk = "HARD_RESET" => r.snk = "HARD_RESET"
        BY <1>2 DEF Adds, Proceeds
      <3> QED
        BY <2>1, <3>2, <3>3 DEF Proceeds, Moves
    <2>4. CASE /\ Advances(q, v) /\ t = "CRC_RECEIVE"
               /\ q.tx = "WAIT_FOR_PHY_RESPONSE" /\ q.snk # "SEND_SOFT_RESET"
               /\ q.retry = NRetry
      <3>1. Advances(q, r)
        BY <1>2, <2>4 DEF Adds, Advances
      <3>2. q.snk = "HARD_RESET" => r.snk = "HARD_RESET"
        BY <1>2 DEF Adds, Proceeds
      <3> QED
        BY <2>1, <2>4, <3>1, <3>2 DEF Proceeds, Moves
    <2>5. ~Repeats(q, v)
      BY <1>2 DEF Repeats, Adds
    <2>6. v.snk = r.snk
      BY <1>2 DEF Adds
    <2> QED
      BY <2>1, <2>2, <2>3, <2>4, <2>5, <2>6 DEF Proceeds, Moves, NONE
  <1> QED
    BY <1>1, <1>2

\* A message that is sent again, or not any more
LEMMA RetriesProceed ==
  ASSUME NEW q, Steady(q), q.tx = "WAIT_FOR_PHY_RESPONSE", NEW r, Retries(q, r),
         NEW e, NEW t, t = "CRC_RECEIVE" \/ e = "MSG_TX_DISCARDED"
  PROVE  Proceeds(q, e, t, r)
  <1>1. q.snk # "HARD_RESET"
    BY DEF Steady, Sound, Sending
  <1>2. CASE Repeats(q, r)
    BY <1>1, <1>2 DEF Proceeds, Moves, Tally, Repeats
  <1>3. CASE Resets(r)
    BY <1>1, <1>3 DEF Proceeds, Moves, Resets
  <1>4. CASE q.retry = NRetry /\ q.snk # "SEND_SOFT_RESET" /\ Advances(q, r)
    BY <1>1, <1>4 DEF Proceeds, Moves, Tally, Advances
  <1> QED
    BY <1>2, <1>3, <1>4 DEF Retries

LEMMA CheckLinks ==
  ASSUME NEW q, Steady(q), Guarded(q), q.air = NoMessage, q.tim[0] # "CRC_RECEIVE",
         q.rxMsg.kind \in SprReceived, q.rch = "WAIT_FOR_MESSAGE_FROM_PRL"
  PROVE  /\ Hushed(q, RxCheckMessageID(q))
         /\ Tally(q) /\ ~AwaitsPhy(q) =>
              Proceeds(q, "MSG_TX_COMPLETED", NONE, RxCheckMessageID(q))
  <1> DEFINE r == [q EXCEPT !.rx = "WAIT_FOR_PHY_MESSAGE"]
  <1>1. NoEpr(q) /\ Port(q) /\ DOMAIN q = Fields /\ Spr(q)
    BY FlagsAre DEF Steady, Sound, Spr
  <1>2. Only(q, r, CountFields) /\ Port(r) /\ r.rch = q.rch /\ r.extRx = q.extRx
    BY <1>1 DEF Only, Fields, Port, RxType, CountFields
  <1>3. Stands(q, r) /\ r.snk = q.snk /\ r.tim = q.tim
    BY <1>1 DEF Stands, Fields
  <1> HIDE DEF r
  <1>4. Hushed(q, r)
    BY <1>1, <1>2, CountsKeep DEF NoEpr, Hushed, Handles, Sends
  <1>5. Tally(q) => Proceeds(q, "MSG_TX_COMPLETED", NONE, r)
    BY <1>3, StandsProceeds
  <1> DEFINE s == RxStoreMessageID(q)
  <1>6. Hushed(q, s) /\ Counts(q, s) /\ s.retry = 0
    BY StoreLinks
  <1>7. RxCheckMessageID(q) \in {r, s}
    BY DEF RxCheckMessageID, r
  <1> HIDE DEF s
  <1>8. q.snk # "HARD_RESET"
    BY DEF Steady, NoMessage, NONE
  <1>9. ~AwaitsPhy(q) => Proceeds(q, "MSG_TX_COMPLETED", NONE, s)
    BY <1>6, <1>8, CountsProceed
  <1> QED
    BY <1>4, <1>5, <1>6, <1>7, <1>9

\* A GoodCRC takes the place of the message that waits for SinkTxOk.
LEMMA GoodCRCLinks ==
  ASSUME NEW q, Steady(q), Guarded(q), q.tx # "WAIT_FOR_PHY_RESPONSE"
  PROVE  Hushed(q, RxSendGoodCRC(q)) /\ Adds(q, RxSendGoodCRC(q))
  <1> DEFINE a == [q EXCEPT !.rx = "SEND_GOODCRC", !.txKind = "GoodCRC",
                            !.txID = q.rxMsg.id]
             r == UCPD_PHY_SendMessage(a)
  <1>1. NoEpr(q) /\ Port(q) /\ DOMAIN q = Fields /\ Spr(q) /\ q.txAllowed \in BOOLEAN
    BY FlagsAre DEF Steady, Sound, Spr
  <1>2. RxSendGoodCRC(q) = r
    BY DEF RxSendGoodCRC
  <1>3. Only(q, a, {"rx", "txKind", "txID"}) /\ Port(a) /\ a.txKind = "GoodCRC"
    BY <1>1 DEF Only, Fields, Port, RxType
  <1> HIDE DEF a
  <1>4. a.txAllowed = q.txAllowed /\ a.air = q.air /\ DOMAIN a = Fields
    BY <1>1, <1>3 DEF Only, Fields
  <1>5. /\ Only(a, r, {"txAllowed", "air"}) /\ Port(r) /\ r.txAllowed = FALSE
        /\ \/ r.air = q.air
           \/ q.txAllowed = TRUE /\ q.air.kind # "HardReset" /\ r.air.kind = "GoodCRC"
    <2>1. CASE q.txAllowed = TRUE
      BY <1>3, <1>4, <2>1 DEF UCPD_PHY_SendMessage, Only, Fields, Port
    <2>2. CASE q.txAllowed = FALSE
      BY <1>3, <1>4, <2>2 DEF UCPD_PHY_SendMessage, Only, Fields, Port
    <2> QED
      BY <1>1, <2>1, <2>2
  <1> HIDE DEF r
  <1>6. Only(q, r, {"rx", "txKind", "txID", "txAllowed", "air"})
    BY <1>3, <1>5 DEF Only
  <1>7. r.txKind = "GoodCRC"
    BY <1>3, <1>4, <1>5 DEF Only, Fields
  <1>8. /\ r.snk = q.snk /\ r.tch = q.tch /\ r.tx = q.tx
        /\ r.cad = q.cad /\ r.rxMsg = q.rxMsg /\ r.rch = q.rch /\ r.extRx = q.extRx
        /\ r.epr_mode = q.epr_mode /\ r.extended = q.extended /\ r.tim = q.tim
        /\ r.hrdOriginPE = q.hrdOriginPE /\ r.hardResetActive = q.hardResetActive
        /\ r.pps_contract = q.pps_contract /\ r.mid = q.mid /\ r.retry = q.retry
    BY <1>1, <1>6 DEF Only, Fields
  <1>9. NoEpr(r)
    <2>1. {"rx", "txKind", "txID", "txAllowed", "air"} \subseteq Moving
      BY DEF Moving, Flags
    <2>2. \A f \in Flags \cap {"rx", "txKind", "txID", "txAllowed", "air"} : r[f] \in BOOLEAN
      BY <1>5 DEF Flags
    <2>3. r.txKind \in SprKinds
      BY <1>7 DEF SprKinds
    <2>4. /\ r.epr_mode = FALSE /\ r.extended = FALSE /\ r.extRx = NONE
          /\ r.rch \in SprRch
      BY <1>1, <1>8 DEF NoEpr
    <2> QED
      BY <1>1, <1>5, <1>6, <2>1, <2>2, <2>3, <2>4, SprKept
  <1>10. Spr(r)
    BY <1>1, <1>8, <1>9 DEF Spr, SprTimers
  <1>11. r.air.kind = NONE => r.air = NoMessage
    BY <1>5 DEF Steady, Sound, NONE
  <1>12. Sends(r) => r.air.kind = "GoodCRC"
    BY <1>5 DEF Steady, Sound, Sends, AwaitsPhy
  <1>13. r.air.kind = "HardReset" <=> q.snk = "HARD_RESET"
    BY <1>5 DEF Steady, Sound
  <1>14. q.tim[0] # "CRC_RECEIVE"
    BY DEF Steady, Sound, AwaitsPhy
  <1>15. Sound(r)
    BY <1>5, <1>7, <1>8, <1>10, <1>11, <1>12, <1>13, <1>14 DEF Steady, Sound, AwaitsPhy
  <1>16. Hushed(q, r)
    BY <1>5, <1>8, <1>13, <1>15 DEF Steady, Hushed, Handles, Guarded, Sends
  <1>17. Adds(q, r)
    BY <1>8, <1>12 DEF Adds, Numbered
  <1> QED
    BY <1>2, <1>16, <1>17

-----------------------------------------------------------------------------
\* What the PHY reports

LEMMA LayerResetKeeps ==
  ASSUME NEW q, Steady(q), Guarded(q), q.tx # "WAIT_FOR_PHY_RESPONSE"
  PROVE  /\ Steady(RxLayerReset(q)) /\ Guarded(RxLayerReset(q))
         /\ RxLayerReset(q).tx = "WAIT_FOR_MESSAGE_REQUEST"
         /\ RxLayerReset(q).cad = q.cad /\ RxLayerReset(q).rxMsg = q.rxMsg
         /\ RxLayerReset(q).txAllowed = q.txAllowed
         /\ RxLayerReset(q).air = q.air
         /\ RxLayerReset(q).snk = q.snk /\ RxLayerReset(q).retry = 0
  <1> DEFINE r == RxLayerReset(q)
  <1>1. NoEpr(q) /\ Port(q) /\ DOMAIN q = Fields /\ Spr(q)
    BY FlagsAre DEF Steady, Sound, Spr
  <1>2. /\ Only(q, r, {"mid", "storedMID", "tx", "retry"})
        /\ r.tx = "WAIT_FOR_MESSAGE_REQUEST" /\ r.retry = 0
    BY <1>1 DEF RxLayerReset, TxWaitForMessageRequest, Only, Fields
  <1>3. Port(r)
    BY <1>1, PortAssumption
    DEF RxLayerReset, TxWaitForMessageRequest, Fields, Port, MessageIDs, RetryType, TxType
  <1> HIDE DEF r
  <1>4. /\ r.snk = q.snk /\ r.tch = q.tch /\ r.txKind = q.txKind /\ r.air = q.air
        /\ r.cad = q.cad /\ r.rxMsg = q.rxMsg /\ r.rch = q.rch /\ r.extRx = q.extRx
        /\ r.epr_mode = q.epr_mode /\ r.extended = q.extended /\ r.tim = q.tim
        /\ r.hrdOriginPE = q.hrdOriginPE /\ r.hardResetActive = q.hardResetActive
        /\ r.pps_contract = q.pps_contract /\ r.txAllowed = q.txAllowed
    BY <1>1, <1>2 DEF Only, Fields
  <1>5. NoEpr(r)
    BY <1>1, <1>2, <1>3, <1>4, SprKept, ZenonT(60) DEF NoEpr, Moving, Flags
  <1>6. Spr(r)
    BY <1>1, <1>4, <1>5 DEF Spr, SprTimers
  <1>7. Sound(r)
    BY <1>2, <1>4, <1>6 DEF Steady, Sound, Sends, AwaitsPhy
  <1>8. Steady(r) /\ Guarded(r)
    BY <1>4, <1>7 DEF Steady, Guarded
  <1> QED
    BY <1>2, <1>4, <1>8 DEF r

LEMMA MsgRxLinks ==
  ASSUME NEW q, Steady(q), Guarded(q),
         q.rxMsg.kind = "GoodCRC" => AwaitsPhy(q) /\ q.air = NoMessage
  PROVE  /\ Hushed(q, MsgRxComplete(q))
         /\ q.rxMsg.kind = "GoodCRC" /\ q.rxMsg.id = q.mid => Advances(q, MsgRxComplete(q))
         /\ q.rxMsg.kind \notin {"GoodCRC", "Soft_Reset"} =>
              MsgRxComplete(q) = q \/ Adds(q, MsgRxComplete(q))
         /\ q.rxMsg.kind = "Soft_Reset" =>
              \/ MsgRxComplete(q) = q
              \/ /\ Tally(MsgRxComplete(q)) /\ MsgRxComplete(q).snk = q.snk
                 /\ MsgRxComplete(q).tx = "WAIT_FOR_MESSAGE_REQUEST"
  <1>1. CASE q.rxMsg.kind = "GoodCRC"
    BY <1>1, MatchLinks DEF MsgRxComplete
  <1>2. CASE q.rxMsg.kind # "GoodCRC" /\ q.tx = "WAIT_FOR_PHY_RESPONSE"
    BY <1>2, SteadySelf DEF MsgRxComplete
  <1>3. CASE q.rxMsg.kind # "GoodCRC" /\ q.tx # "WAIT_FOR_PHY_RESPONSE"
    <2> DEFINE l == RxLayerReset(q)
    <2>1. /\ Steady(l) /\ Guarded(l) /\ l.tx = "WAIT_FOR_MESSAGE_REQUEST"
          /\ l.cad = q.cad /\ l.rxMsg = q.rxMsg /\ l.txAllowed = q.txAllowed
          /\ l.air = q.air /\ l.snk = q.snk /\ l.retry = 0
      BY <1>3, LayerResetKeeps
    <2>2. Hushed(q, RxSendGoodCRC(q)) /\ Adds(q, RxSendGoodCRC(q))
      BY <1>3, GoodCRCLinks
    <2>3. MsgRxComplete(q) = IF q.rxMsg.kind = "Soft_Reset" THEN RxSendGoodCRC(l)
                             ELSE RxSendGoodCRC(q)
      BY <1>3 DEF MsgRxComplete
    <2> HIDE DEF l
    <2> DEFINE r == RxSendGoodCRC(l)
    <2>4. Hushed(l, r) /\ Adds(l, r)
      BY <2>1, GoodCRCLinks
    <2> HIDE DEF r
    <2>5. Hushed(q, r)
      BY <2>1, <2>4 DEF Hushed, Handles, Sends
    <2>6. Tally(r) /\ r.snk = q.snk /\ r.tx = "WAIT_FOR_MESSAGE_REQUEST"
      BY <2>1, <2>4 DEF Adds, Tally
    <2> QED
      BY <1>3, <2>2, <2>3, <2>5, <2>6 DEF r
  <1> QED
    BY <1>1, <1>2, <1>3

LEMMA DiscardedLinks ==
  ASSUME NEW q, Steady(q), Guarded(q), q.air = NoMessage, q.tim[0] # "CRC_RECEIVE"
  PROVE  /\ Hushed(q, MsgTxDiscarded(q))
         /\ Tally(q) => Proceeds(q, "MSG_TX_DISCARDED", NONE, MsgTxDiscarded(q))
  <1> DEFINE r == [q EXCEPT !.rx = "WAIT_FOR_PHY_MESSAGE"]
  <1>1. NoEpr(q) /\ Port(q) /\ DOMAIN q = Fields /\ Spr(q)
    BY FlagsAre DEF Steady, Sound, Spr
  <1>2. Only(q, r, CountFields) /\ Port(r) /\ r.rch = q.rch /\ r.extRx = q.extRx
    BY <1>1 DEF Only, Fields, Port, RxType, CountFields
  <1>3. Stands(q, r) /\ r.snk = q.snk /\ r.tim = q.tim
    BY <1>1 DEF Stands, Fields
  <1> DEFINE Ends(s) == /\ Hushed(q, s)
                        /\ Tally(q) => Proceeds(q, "MSG_TX_DISCARDED", NONE, s)
  <1> HIDE DEF r
  <1>4. Ends(r)
    <2>1. Hushed(q, r)
      BY <1>1, <1>2, CountsKeep DEF NoEpr, Hushed, Handles, Sends
    <2>2. Tally(q) => Proceeds(q, "MSG_TX_DISCARDED", NONE, r)
      BY <1>3, StandsProceeds
    <2> QED
      BY <2>1, <2>2
  <1>5. Ends(q)
    <2>1. Tally(q) => Proceeds(q, "MSG_TX_DISCARDED", NONE, q)
      BY StandsProceeds DEF Stands
    <2> QED
      BY <2>1, SteadySelf
  <1>6. q.tx = "WAIT_FOR_PHY_RESPONSE" => Ends(TxCheckRetryCounter(q))
    <2> SUFFICES ASSUME q.tx = "WAIT_FOR_PHY_RESPONSE"
                 PROVE  Ends(TxCheckRetryCounter(q))
      OBVIOUS
    <2> DEFINE s == TxCheckRetryCounter(q)
    <2>1. Hushed(q, s) /\ Retries(q, s)
      BY RetryLinks DEF Fails
    <2> HIDE DEF s
    <2>2. Proceeds(q, "MSG_TX_DISCARDED", NONE, s)
      BY <2>1, RetriesProceed
    <2> QED
      BY <2>1, <2>2 DEF s
  <1> HIDE DEF Ends
  <1>7. Ends(MsgTxDiscarded(q))
    BY <1>4, <1>5, <1>6 DEF MsgTxDiscarded, r
  <1> QED
    BY <1>7 DEF Ends

\* The timer for the GoodCRC
LEMMA CrcTimerLinks ==
  ASSUME NEW q, Steady(q), AwaitsPhy(q), q.air = NoMessage
  PROVE  /\ Hushed(q, UCPD_TIM_Start(q, "CRC_RECEIVE"))
         /\ Tally(q) => Proceeds(q, "MSG_TX_COMPLETED", NONE, UCPD_TIM_Start(q, "CRC_RECEIVE"))
  <1> DEFINE r == UCPD_TIM_Start(q, "CRC_RECEIVE")
  <1>1. NoEpr(q) /\ Port(q) /\ DOMAIN q = Fields /\ Spr(q)
    BY FlagsAre DEF Steady, Sound, Spr
  <1>2. Started0(q, r, "CRC_RECEIVE")
    BY <1>1, TimersAre, TimerChannels
  <1> HIDE DEF r
  <1>3. /\ Only(q, r, {"tim"}) /\ Port(r)
        /\ r.tim[0] = "CRC_RECEIVE" /\ r.tim[1] = q.tim[1]
    BY <1>2 DEF Started0
  <1>4. /\ r.snk = q.snk /\ r.tch = q.tch /\ r.txKind = q.txKind /\ r.air = q.air
        /\ r.cad = q.cad /\ r.rxMsg = q.rxMsg /\ r.rch = q.rch /\ r.extRx = q.extRx
        /\ r.epr_mode = q.epr_mode /\ r.extended = q.extended /\ r.tx = q.tx
        /\ r.hrdOriginPE = q.hrdOriginPE /\ r.hardResetActive = q.hardResetActive
        /\ r.pps_contract = q.pps_contract /\ r.txAllowed = q.txAllowed
        /\ r.mid = q.mid /\ r.retry = q.retry
    BY <1>1, <1>3 DEF Only, Fields
  <1>5. NoEpr(r)
    BY <1>1, <1>3, <1>4, SprKept, ZenonT(60) DEF NoEpr, Moving, Flags
  <1>6. Spr(r)
    BY <1>1, <1>3, <1>4, <1>5 DEF Spr, SprTimers
  <1>7. q.snk \notin {"HARD_RESET", "TRANSITION_SINK"}
    BY DEF Steady, Sound, AwaitsPhy, Sending
  <1>8. Sound(r)
    BY <1>3, <1>4, <1>6, <1>7 DEF Steady, Sound, Sends, AwaitsPhy, NoMessage
  <1>9. Hushed(q, r)
    BY <1>4, <1>7, <1>8 DEF Steady, Guarded, Hushed, Handles, Sends
  <1>10. Stands(q, r)
    BY <1>4 DEF Stands
  <1>11. Tally(q) => Proceeds(q, "MSG_TX_COMPLETED", NONE, r)
    BY <1>4, <1>10, StandsProceeds
  <1> QED
    BY <1>9, <1>11 DEF r

LEMMA CompletedLinks ==
  ASSUME NEW q, Steady(q), Guarded(q), q.air = NoMessage, q.tim[0] # "CRC_RECEIVE",
         q.rxMsg.kind \in SprReceived, q.rch = "WAIT_FOR_MESSAGE_FROM_PRL",
         q.txKind # "GoodCRC" => AwaitsPhy(q)
  PROVE  /\ Hushed(q, MsgTxCompleted(q))
         /\ Tally(q) => Proceeds(q, "MSG_TX_COMPLETED", NONE, MsgTxCompleted(q))
  <1>1. CASE q.txKind = "GoodCRC"
    BY <1>1, CheckLinks DEF MsgTxCompleted, AwaitsPhy
  <1>2. CASE q.txKind # "GoodCRC"
    BY <1>2, CrcTimerLinks DEF MsgTxCompleted
  <1> QED
    BY <1>1, <1>2

\* SinkTxOk lets the message go that waits for it.
LEMMA TxOkLinks ==
  ASSUME NEW q, Steady(q), Guarded(q)
  PROVE  Hushed(q, TxOk(q)) /\ (TxOk(q) = q \/ Adds(q, TxOk(q)))
  <1> DEFINE r == TxConstructMessage(q)
  <1>1. NoEpr(q) /\ Port(q) /\ DOMAIN q = Fields /\ Spr(q) /\ q.txAllowed \in BOOLEAN
    BY FlagsAre DEF Steady, Sound, Spr
  <1>2. ASSUME q.tx = "SNK_PENDING" PROVE Hushed(q, r) /\ Adds(q, r)
    <2>1. Constructed(q, r)
      BY <1>1, ConstructIs
    <2> HIDE DEF r
    <2>2. /\ Only(q, r, TxFields) /\ Port(r)
          /\ r.tx = "WAIT_FOR_PHY_RESPONSE" /\ r.txAllowed = FALSE
      BY <2>1 DEF Constructed, Only, TxFields
    <2>3. Spr(r)
      BY <1>1, <2>2, TxSpr
    <2>4. /\ r.snk = q.snk /\ r.tim = q.tim /\ r.txKind = q.txKind
          /\ r.hrdOriginPE = q.hrdOriginPE /\ r.hardResetActive = q.hardResetActive
          /\ r.cad = q.cad /\ r.rxMsg = q.rxMsg
      BY <1>1, <2>2, TxOnly
    <2>5. r.tch = q.tch /\ r.mid = q.mid /\ r.retry = q.retry
      BY <1>1, <2>1 DEF Constructed, Only, Fields
    <2>6. /\ q.snk = "SELECT_CAPABILITY" /\ q.txKind \in {"GoodCRC", "Request"}
          /\ q.tch = "WAIT_FOR_TRANSMISSION_COMPLETE" /\ q.tim[0] # "CRC_RECEIVE"
      BY <1>2 DEF Steady, Sound, Spoken, AwaitsPhy
    <2>7. q.air = NoMessage \/ (q.air.kind = q.txKind /\ q.txKind = "GoodCRC")
      BY <1>2, <2>6 DEF Steady, Sound, Sends, AwaitsPhy
    <2>8. r.air = NoMessage \/ r.air.kind = q.txKind
      BY <2>1, <2>6, <2>7 DEF Constructed, AirAfter
    <2>9. Sound(r)
      <3>1. q.tx # "WAIT_FOR_MESSAGE_REQUEST" /\ q.tx # "WAIT_FOR_PHY_RESPONSE"
        BY <1>2
      <3>2. /\ r.snk \in Sending /\ r.txKind \in {"GoodCRC", Spoken[r.snk]}
            /\ r.tch \in TchSpr /\ r.tch = "WAIT_FOR_TRANSMISSION_COMPLETE"
        BY <2>4, <2>5, <2>6, <3>1 DEF Steady, Sound
      <3>3. r.tim[0] \notin {"CRC_RECEIVE", "HARD_RESET_COMPLETE"}
        BY <2>4, <2>6 DEF Steady, Sound
      <3>4. r.hrdOriginPE = FALSE
        BY <1>1, <2>4, <2>6, FlagsAre DEF Steady, Sound
      <3>5. /\ r.air.kind = NONE => r.air = NoMessage
            /\ r.air.kind # "HardReset"
            /\ Sends(r) => r.air.kind = r.txKind
        BY <2>4, <2>6, <2>8 DEF Sends, NoMessage, NONE
      <3> QED
        BY <2>2, <2>3, <2>4, <2>6, <3>2, <3>3, <3>4, <3>5 DEF Sound, AwaitsPhy
    <2>10. Sends(r) => q.txAllowed \/ Sends(q)
      BY <1>1, <2>1, <2>6, <2>7 DEF Constructed, AirAfter, Sends, NoMessage, NONE
    <2>11. Hushed(q, r)
      BY <2>2, <2>4, <2>6, <2>9, <2>10 DEF Steady, Guarded, Hushed, Handles
    <2>12. Numbered(r)
      BY <2>1, <2>5, <2>6, <2>7 DEF Constructed, AirAfter, Numbered, Sends, NoMessage, NONE
    <2>13. Adds(q, r)
      BY <1>2, <2>4, <2>5, <2>12 DEF Adds
    <2> QED
      BY <2>11, <2>13
  <1>3. Hushed(q, q)
    BY SteadySelf
  <1> QED
    BY <1>2, <1>3 DEF TxOk

-----------------------------------------------------------------------------
\* The other sources of events

\* A difference that does not matter to the counters
Alike(q, r) ==
  /\ r.tx = q.tx /\ r.txKind = q.txKind /\ r.mid = q.mid /\ r.retry = q.retry
  /\ r.air = q.air /\ r.txAllowed = q.txAllowed /\ r.rxMsg = q.rxMsg
  /\ r.tim[0] = "CRC_RECEIVE" => q.tim[0] = "CRC_RECEIVE"
  /\ \A s \in {"HARD_RESET", "SEND_SOFT_RESET"} : r.snk = s <=> q.snk = s

LEMMA AlikeTally ==
  ASSUME NEW q, NEW r, Alike(q, r), Tally(q)
  PROVE  Tally(r)
  BY DEF Alike, Tally, Numbered, Sends

LEMMA AlikeBefore ==
  ASSUME NEW q, NEW a, Alike(q, a), NEW e, NEW t, NEW r, Proceeds(a, e, t, r)
  PROVE  Proceeds(q, e, t, r)
  <1>1. /\ a.snk = "HARD_RESET" <=> q.snk = "HARD_RESET"
        /\ a.snk = "SEND_SOFT_RESET" <=> q.snk = "SEND_SOFT_RESET"
    BY DEF Alike
  <1>2. Moves(q, e, t, r)
    BY <1>1 DEF Alike, Proceeds, Moves, Stands, Repeats, Advances, Fresh, AwaitsPhy
  <1> QED
    BY <1>1, <1>2 DEF Proceeds

LEMMA AlikeAfter ==
  ASSUME NEW q, NEW e, NEW t, NEW x, Proceeds(q, e, t, x), NEW r, Alike(x, r)
  PROVE  Proceeds(q, e, t, r)
  <1>1. /\ r.snk = "HARD_RESET" <=> x.snk = "HARD_RESET"
        /\ Numbered(x) => Numbered(r)
    BY DEF Alike, Numbered, Sends
  <1>2. Moves(q, e, t, r)
    BY <1>1 DEF Alike, Proceeds, Moves, Stands, Repeats, Advances, Fresh, Restarts
  <1> QED
    BY <1>1, <1>2, AlikeTally DEF Proceeds

LEMMA HaltTally ==
  ASSUME NEW r, Steady(r), r.retry = 0, r.snk \notin Sending
  PROVE  Tally(r)
  BY DEF Steady, Sound, Tally, Numbered, Sends, AwaitsPhy

\* The fields of the application's requests and of the source's Rp and VBUS
CallerFields == {"told", "current_callback", "callback", "status", "sync_operation",
                 "dpm_event", "passedUp", "user", "vS0_to_vS5", "sinkTxOk"}

LEMMA CallerKeeps ==
  ASSUME NEW q, NoEpr(q), NEW r, Only(q, r, CallerFields), Port(r),
         r.user = NoUserCode, r.dpm_event \in {NONE, "HARD_RESET"}, r.sinkTxOk \in BOOLEAN
  PROVE  /\ NoEpr(r) /\ DOMAIN r = Fields
         /\ Spr(q) => Spr(r)
         /\ Sound(q) => Sound(r)
         /\ Steady(q) => Steady(r)
         /\ Guarded(q) => Guarded(r)
         /\ AwaitsPhy(q) => AwaitsPhy(r)
         /\ r.cad = q.cad /\ r.rxMsg = q.rxMsg /\ r.txAllowed = q.txAllowed
         /\ r.snk = q.snk /\ r.air = q.air /\ r.tx = q.tx
         /\ r.txKind = q.txKind /\ r.tim = q.tim /\ r.rch = q.rch
         /\ r.hardResetActive = q.hardResetActive /\ r.hrdOriginPE = q.hrdOriginPE
         /\ Alike(q, r)
  <1>1. DOMAIN q = Fields
    BY FlagsAre
  <1>2. /\ r.cad = q.cad /\ r.rxMsg = q.rxMsg /\ r.txAllowed = q.txAllowed
        /\ r.snk = q.snk /\ r.tx = q.tx /\ r.tch = q.tch /\ r.air = q.air
        /\ r.txKind = q.txKind /\ r.tim = q.tim /\ DOMAIN r = Fields
        /\ r.extended = q.extended /\ r.epr_mode = q.epr_mode
        /\ r.pps_contract = q.pps_contract /\ r.hrdOriginPE = q.hrdOriginPE
        /\ r.hardResetActive = q.hardResetActive
        /\ r.rch = q.rch /\ r.extRx = q.extRx /\ r.entering_epr = q.entering_epr
        /\ r.mid = q.mid /\ r.retry = q.retry
    BY <1>1 DEF Only, Fields, CallerFields
  <1>3. \A f \in Flags : r[f] \in BOOLEAN
    <2>1. \A f \in Flags \ {"sinkTxOk"} : r[f] = q[f]
      BY <1>1 DEF Only, Fields, CallerFields, Flags
    <2> QED
      BY <2>1 DEF NoEpr
  <1>4. NoEpr(r)
    BY <1>2, <1>3 DEF NoEpr
  <1>5. Spr(q) => Spr(r)
    BY <1>2, <1>4 DEF Spr, SprTimers
  <1>6. AwaitsPhy(q) <=> AwaitsPhy(r)
    BY <1>2 DEF AwaitsPhy
  <1>7. Sound(q) => Sound(r)
    BY <1>2, <1>5, <1>6 DEF Sound, Sends
  <1>8. Alike(q, r)
    BY <1>2 DEF Alike
  <1> QED
    BY <1>2, <1>4, <1>5, <1>6, <1>7, <1>8 DEF Steady, Guarded

\* VBUS, whatever else goes on
LEMMA VbusKeeps ==
  ASSUME NEW q, Sound(q)
  PROVE  LET r == VbusPresent(q)
         IN  /\ Sound(r)
             /\ Steady(q) => Steady(r)
             /\ Guarded(q) => Guarded(r)
             /\ q.snk # "DISCOVERY" => r = q
             /\ r.snk # "DISCOVERY"
             /\ r.cad = q.cad /\ r.rxMsg = q.rxMsg /\ r.txAllowed = q.txAllowed
             /\ r.air = q.air /\ r.txKind = q.txKind /\ r.rch = q.rch
             /\ r.hardResetActive = q.hardResetActive /\ r.hrdOriginPE = q.hrdOriginPE
             /\ q.tim[0] # "CRC_RECEIVE" => r.tim[0] # "CRC_RECEIVE"
             /\ AwaitsPhy(q) => r = q
             /\ Alike(q, r)
  <1> DEFINE r == VbusPresent(q)
  <1>1. Spr(q) /\ DOMAIN q = Fields /\ q.hrdOriginPE \in BOOLEAN
    BY FlagsAre DEF Sound, Spr
  <1>2. CASE q.snk # "DISCOVERY"
    BY <1>2 DEF VbusPresent, Alike
  <1>3. CASE q.snk = "DISCOVERY"
    <2>1. r = EnterWaitForCapabilities(q)
      BY <1>3 DEF VbusPresent
    <2>2. IsWait(q, r)
      BY <1>1, <2>1, EnterWaitIs
    <2> HIDE DEF r
    <2>3. Only(q, r, PolicyFields)
      BY <2>2, OnlyGrows DEF IsWait, PolicyFields
    <2>4. /\ r.tx = q.tx /\ r.tch = q.tch /\ r.txKind = q.txKind /\ r.air = q.air
          /\ r.txAllowed = q.txAllowed /\ r.hrdOriginPE = q.hrdOriginPE
          /\ r.hardResetActive = q.hardResetActive
          /\ r.cad = q.cad /\ r.rxMsg = q.rxMsg /\ r.rch = q.rch
      BY <1>1, <2>3, PolicyOnly
    <2>5. /\ q.tx = "WAIT_FOR_MESSAGE_REQUEST"
          /\ r.mid = q.mid /\ r.retry = q.retry
      BY <1>1, <1>3, <2>3 DEF Sound, Sending, Only, Fields, PolicyFields
    <2>6. r.snk = "WAIT_FOR_CAPABILITIES" /\ r.tim[0] = "SINK_WAIT_CAP" /\ Spr(r)
      BY <2>2 DEF IsWait
    <2>7. ~AwaitsPhy(q)
      BY <2>5 DEF AwaitsPhy
    <2>8. Sound(r)
      BY <1>1, <1>3, <2>4, <2>5, <2>6, <2>7 DEF Sound, Sends, AwaitsPhy
    <2>9. Alike(q, r)
      BY <1>3, <2>4, <2>5, <2>6 DEF Alike
    <2> QED
      BY <1>3, <2>4, <2>6, <2>7, <2>8, <2>9 DEF Steady, Guarded, r
  <1> QED
    BY <1>2, <1>3

\* SinkPPSPeriodicTimer has expired.
LEMMA PeriodicClear ==
  ASSUME NEW q, Steady(q), q.air = NoMessage, q.snk = "READY"
  PROVE  LET z == [q EXCEPT !.pps_periodic_expired = TRUE]
         IN  Clear(z) /\ Only(q, z, {"pps_periodic_expired"}) /\ z.pps_periodic_expired = TRUE
  <1> DEFINE z == [q EXCEPT !.pps_periodic_expired = TRUE]
  <1>1. NoEpr(q) /\ Port(q) /\ DOMAIN q = Fields /\ Spr(q)
    BY FlagsAre DEF Steady, Sound, Spr
  <1>2. Only(q, z, {"pps_periodic_expired"}) /\ Port(z) /\ z.pps_periodic_expired = TRUE
    BY <1>1 DEF Only, Fields, Port
  <1> HIDE DEF z
  <1>3. /\ z.snk = q.snk /\ z.tch = q.tch /\ z.txKind = q.txKind /\ z.air = q.air
        /\ z.rch = q.rch /\ z.extRx = q.extRx
        /\ z.epr_mode = q.epr_mode /\ z.extended = q.extended /\ z.tx = q.tx
        /\ z.hrdOriginPE = q.hrdOriginPE /\ z.hardResetActive = q.hardResetActive
        /\ z.pps_contract = q.pps_contract /\ z.txAllowed = q.txAllowed
        /\ z.tim = q.tim
    BY <1>1, <1>2 DEF Only, Fields
  <1>4. NoEpr(z)
    BY <1>1, <1>2, <1>3, SprKept, ZenonT(60) DEF NoEpr, Moving, Flags
  <1>5. Spr(z)
    BY <1>1, <1>3, <1>4 DEF Spr, SprTimers
  <1>6. Silent(q)
    BY SteadyIdle DEF Steady, Sound, Sending
  <1>7. Clear(z)
    BY <1>3, <1>5, <1>6 DEF Clear, Silent
  <1> QED
    BY <1>2, <1>7 DEF z

LEMMA TimerLinks ==
  ASSUME NEW q, Steady(q), q.air = NoMessage,
         NEW t \in {"CRC_RECEIVE", "SRT_EXPIRED", "PST_TRANS_TIMEOUT", "SINK_PPS_PERIODIC"},
         t = "CRC_RECEIVE" => AwaitsPhy(q) /\ q.tim[0] # "CRC_RECEIVE",
         t = "SINK_PPS_PERIODIC" => q.snk = "READY"
  PROVE  /\ Hushed(q, TimerDelta(q, t))
         /\ Tally(q) => Proceeds(q, NONE, t, TimerDelta(q, t))
  <1>1. NoEpr(q) /\ Port(q) /\ DOMAIN q = Fields /\ Spr(q)
    BY FlagsAre DEF Steady, Sound, Spr
  <1>2. CASE t = "CRC_RECEIVE"
    <2> DEFINE r == TxCheckRetryCounter(q)
    <2>1. TimerDelta(q, t) = r
      BY <1>2 DEF TimerDelta
    <2>2. Hushed(q, r) /\ Retries(q, r)
      BY <1>2, RetryLinks DEF Fails, AwaitsPhy
    <2> HIDE DEF r
    <2>3. Proceeds(q, NONE, t, r)
      BY <1>2, <2>2, RetriesProceed DEF AwaitsPhy
    <2> QED
      BY <2>1, <2>2, <2>3
  <1>3. CASE t \in {"SRT_EXPIRED", "PST_TRANS_TIMEOUT"}
    <2> DEFINE r == EnterHardReset(q)
    <2>1. TimerDelta(q, t) = r
      BY <1>1, <1>3
      DEF TimerDelta, SenderResponseExpired, Spr, SprStates, Sending, NONE
    <2>2. Hushed(q, r) /\ r.snk = "HARD_RESET" /\ r.retry = 0
      BY <1>1, HardResetLinks
    <2> HIDE DEF r
    <2>3. Tally(r)
      BY <2>2, HaltTally DEF Hushed, Handles, Sending
    <2> QED
      BY <2>1, <2>2, <2>3 DEF Proceeds, Moves
  <1>5. CASE t = "SINK_PPS_PERIODIC"
    <2> DEFINE z == [q EXCEPT !.pps_periodic_expired = TRUE]
    <2>1. TimerDelta(q, t) = EnterEvaluateCapability(z)
      BY <1>5 DEF TimerDelta
    <2>2. Clear(z) /\ Only(q, z, {"pps_periodic_expired"})
      BY <1>5, PeriodicClear
    <2> HIDE DEF z
    <2>3. /\ z.air = q.air /\ z.cad = q.cad /\ z.rxMsg = q.rxMsg
          /\ z.txAllowed = q.txAllowed /\ z.mid = q.mid /\ z.retry = q.retry
      BY <1>1, <2>2 DEF Only, Fields
    <2> DEFINE r == EnterEvaluateCapability(z)
    <2>8. Hushed(z, r) /\ Counts(z, r)
      BY <2>2, EvaluateLinks
    <2> HIDE DEF r
    <2>9. Hushed(q, r)
      BY <2>3, <2>8 DEF Hushed, Handles, Sends
    <2>10. Counts(q, r)
      BY <2>3, <2>8 DEF Counts
    <2>11. Tally(q) => Proceeds(q, NONE, t, r)
      <3>1. q.tx = "WAIT_FOR_MESSAGE_REQUEST" /\ ~AwaitsPhy(q)
        BY <1>5 DEF Steady, Sound, Sending, AwaitsPhy
      <3>2. Tally(q) => q.retry = 0 /\ r.retry = 0
        BY <2>10, <3>1 DEF Tally, Counts
      <3> QED
        BY <1>5, <2>10, <3>1, <3>2, CountsProceed
    <2> QED
      BY <2>1, <2>9, <2>11 DEF r
  <1> QED
    BY <1>2, <1>3, <1>5

HardResets == {"HRD_SENT", "HRD_RECEIVED"}

LEMMA PhyLinks ==
  ASSUME NEW q, Steady(q), Guarded(q), NEW e \in (PhyEvents \cup {NONE}) \ HardResets,
         e = "MSG_RX_COMPLETE" /\ q.rxMsg.kind = "GoodCRC" => AwaitsPhy(q) /\ q.air = NoMessage,
         e \in {"MSG_TX_COMPLETED", "MSG_TX_DISCARDED"} =>
           q.air = NoMessage /\ q.tim[0] # "CRC_RECEIVE",
         e = "MSG_TX_COMPLETED" =>
           /\ q.rxMsg.kind \in SprReceived /\ q.rch = "WAIT_FOR_MESSAGE_FROM_PRL"
           /\ q.txKind # "GoodCRC" => AwaitsPhy(q)
  PROVE  LET r == PhyDelta(q, e)
         IN  /\ Hushed(q, r)
             /\ e = "MSG_RX_COMPLETE" /\ q.rxMsg.kind = "GoodCRC" /\ q.rxMsg.id = q.mid =>
                  Advances(q, r)
             /\ e = "MSG_RX_COMPLETE" /\ q.rxMsg.kind = "Soft_Reset" =>
                  r = q \/ (Tally(r) /\ r.snk = q.snk /\ r.tx = "WAIT_FOR_MESSAGE_REQUEST")
             /\ e \in {"MSG_TX_COMPLETED", "MSG_TX_DISCARDED"} /\ Tally(q) =>
                  Proceeds(q, e, NONE, r)
             /\ \/ e = "MSG_RX_COMPLETE" /\ q.rxMsg.kind \in {"GoodCRC", "Soft_Reset"}
                \/ e \in {"MSG_TX_COMPLETED", "MSG_TX_DISCARDED"}
                \/ r = q \/ Adds(q, r)
  <1> DEFINE r == PhyDelta(q, e)
  <1>1. CASE e = "MSG_RX_COMPLETE"
    <2>1. r = MsgRxComplete(q)
      BY <1>1 DEF PhyDelta
    <2> QED
      BY <1>1, <2>1, MsgRxLinks
  <1>2. CASE e = "MSG_TX_DISCARDED"
    <2>1. r = MsgTxDiscarded(q)
      BY <1>2 DEF PhyDelta
    <2> QED
      BY <1>2, <2>1, DiscardedLinks
  <1>3. CASE e = "MSG_TX_COMPLETED"
    <2>1. r = MsgTxCompleted(q)
      BY <1>3 DEF PhyDelta
    <2> QED
      BY <1>3, <2>1, CompletedLinks
  <1>4. CASE e = "CONN_DETECTED"
    <2>1. r = TxOk(q)
      BY <1>4 DEF PhyDelta
    <2> QED
      BY <1>4, <2>1, TxOkLinks
  <1>5. CASE e = NONE
    <2>1. r = q
      BY <1>5 DEF PhyDelta, NONE
    <2> QED
      BY <1>5, <2>1, SteadySelf DEF NONE
  <1> QED
    BY <1>1, <1>2, <1>3, <1>4, <1>5 DEF PhyEvents, HardResets

LEMMA DpmLinks ==
  ASSUME NEW q, Steady(q), Guarded(q)
  PROVE  /\ Hushed(q, HandleDpm(q))
         /\ \/ Alike(q, HandleDpm(q))
            \/ HandleDpm(q).snk = "HARD_RESET" /\ Tally(HandleDpm(q))
         /\ LET a == [q EXCEPT !.current_callback = IF @ = NONE THEN q.callback ELSE @]
            IN  /\ q.snk # "READY" \/ q.dpm_event = NONE => HandleDpm(q) = a
                /\ HandleDpm(q) = a \/ HandleDpm(q).snk = "HARD_RESET"
  <1> DEFINE a == [q EXCEPT !.current_callback = IF @ = NONE THEN q.callback ELSE @]
             b == [[a EXCEPT !.dpm_event = NONE] EXCEPT !.sync_operation = TRUE]
             h == EnterHardReset(b)
             r == [h EXCEPT !.current_callback = h.callback, !.callback = NONE]
  <1>1. NoEpr(q) /\ Port(q) /\ DOMAIN q = Fields /\ Spr(q) /\ q.sinkTxOk \in BOOLEAN
    BY FlagsAre DEF Steady, Sound, Spr
  <1>2. HandleDpm(q) = IF q.dpm_event = NONE \/ q.snk # "READY" THEN a ELSE r
    BY <1>1 DEF HandleDpm, NextCallback, DpmRequest, NoEpr, NONE
  <1>3. /\ Only(q, a, CallerFields) /\ Port(a) /\ a.user = NoUserCode
        /\ a.dpm_event = q.dpm_event /\ a.sinkTxOk = q.sinkTxOk
    BY <1>1 DEF Only, Fields, CallerFields, Port, NoEpr
  <1>4. /\ Only(q, b, CallerFields) /\ Port(b) /\ b.user = NoUserCode
        /\ b.dpm_event = NONE /\ b.sinkTxOk = q.sinkTxOk
    BY <1>1 DEF Only, Fields, CallerFields, Port, NoEpr, RequestType
  <1> HIDE DEF a, b
  <1>5. Hushed(q, a) /\ Alike(q, a)
    <2>1. a.dpm_event \in {NONE, "HARD_RESET"} /\ a.sinkTxOk \in BOOLEAN
      BY <1>1, <1>3 DEF NoEpr
    <2>2. /\ Steady(a) /\ Guarded(a) /\ Alike(q, a)
          /\ a.cad = q.cad /\ a.rxMsg = q.rxMsg /\ a.txAllowed = q.txAllowed
          /\ a.air = q.air
      BY <1>1, <1>3, <2>1, CallerKeeps
    <2> QED
      BY <2>2 DEF Hushed, Handles, Sends
  <1>6. /\ Spr(b) /\ b.cad = q.cad /\ b.rxMsg = q.rxMsg /\ b.txAllowed = q.txAllowed
        /\ b.air = q.air
    BY <1>1, <1>4, CallerKeeps
  <1>7. Hushed(b, h) /\ h.snk = "HARD_RESET" /\ h.retry = 0
    BY <1>6, HardResetLinks
  <1> HIDE DEF h
  <1>8. Hushed(h, r) /\ r.snk = "HARD_RESET" /\ Tally(r)
    <2>1. NoEpr(h) /\ Port(h) /\ DOMAIN h = Fields /\ h.sinkTxOk \in BOOLEAN
      BY <1>7, FlagsAre DEF Hushed, Handles, Steady, Sound, Spr
    <2>2. /\ Only(h, r, CallerFields) /\ Port(r) /\ r.user = NoUserCode
          /\ r.dpm_event = h.dpm_event /\ r.sinkTxOk = h.sinkTxOk
      BY <2>1 DEF Only, Fields, CallerFields, Port, NoEpr
    <2> HIDE DEF r
    <2>3. r.dpm_event \in {NONE, "HARD_RESET"} /\ r.sinkTxOk \in BOOLEAN
      BY <2>1, <2>2 DEF NoEpr
    <2>4. Steady(h) /\ Guarded(h)
      BY <1>7 DEF Hushed, Handles
    <2>5. /\ Steady(r) /\ Guarded(r)
          /\ r.cad = h.cad /\ r.rxMsg = h.rxMsg /\ r.txAllowed = h.txAllowed
          /\ r.air = h.air /\ r.snk = h.snk /\ Alike(h, r)
      BY <2>1, <2>2, <2>3, <2>4, CallerKeeps
    <2>6. Tally(h)
      BY <1>7, <2>4, HaltTally DEF Sending
    <2>7. Tally(r)
      BY <2>5, <2>6, AlikeTally
    <2> QED
      BY <1>7, <2>5, <2>7 DEF Hushed, Handles, Sends
  <1> HIDE DEF r
  <1>9. Hushed(q, r) /\ r.snk = "HARD_RESET" /\ Tally(r)
    BY <1>6, <1>7, <1>8 DEF Hushed, Handles, Sends
  <1> QED
    BY <1>2, <1>5, <1>9 DEF a

-----------------------------------------------------------------------------
\* The ends of a connection

LEMMA DetachIs ==
  ASSUME NEW q, Steady(q), q.snk # "HARD_RESET"
  PROVE  LET r == Detach(q)
         IN  /\ Steady(r) /\ DOMAIN r = Fields
             /\ r.cad = "UNATTACHED" /\ r.air = NoMessage /\ r.dpm_event = NONE
             /\ r.tim = [c \in {0, 1} |-> NONE]
             /\ r.rxMsg = q.rxMsg /\ r.txAllowed = q.txAllowed
             /\ Tally(q) => Tally(r)
  <1> DEFINE e == EndRequest(q, "DISCONNECTED")
             d == [e EXCEPT !.dpm_event = NONE]
             s == StopAllTimers(d)
             r == [s EXCEPT !.cad = "UNATTACHED", !.air = NoMessage]
  <1>1. NoEpr(q) /\ Port(q) /\ DOMAIN q = Fields /\ Spr(q) /\ q.sinkTxOk \in BOOLEAN
        /\ q.hardResetActive \in BOOLEAN /\ q.hrdOriginPE \in BOOLEAN
    BY FlagsAre DEF Steady, Sound, Spr
  <1>2. Only(q, e, CallFields) /\ Port(e)
    BY <1>1, CallsAre DEF NoEpr
  <1> HIDE DEF e
  <1>3. Only(e, d, {"dpm_event"}) /\ Port(d) /\ d.dpm_event = NONE
    BY <1>2 DEF Only, Port, Fields, RequestType
  <1> HIDE DEF d
  <1>4. Only(q, d, CallerFields)
    BY <1>2, <1>3 DEF Only, CallFields, CallerFields
  <1>5. d.user = NoUserCode /\ d.sinkTxOk = q.sinkTxOk
    BY <1>1, <1>2, <1>3 DEF Only, CallFields, Fields, NoEpr
  <1>6. /\ Sound(d) /\ d.snk = q.snk /\ d.rxMsg = q.rxMsg
        /\ d.txAllowed = q.txAllowed /\ DOMAIN d = Fields
        /\ d.hardResetActive = q.hardResetActive /\ Alike(q, d)
    BY <1>1, <1>3, <1>4, <1>5, CallerKeeps DEF Steady
  <1>7. Detach(q) = r
    <2>1. Detach(q) = [StopAllTimers(UserCode(d, "PORT_CALLBACK"))
                         EXCEPT !.cad = "UNATTACHED", !.air = NoMessage]
      BY DEF Detach, d, e
    <2>2. UserCode(d, "PORT_CALLBACK") = d
      BY <1>5, UserQuiet DEF UserPlaces
    <2> QED
      BY <2>1, <2>2
  <1>8. /\ Only(d, s, {"tim"}) /\ Port(s) /\ s.tim = [c \in {0, 1} |-> NONE]
    <2>1. Port(s)
      BY <1>3, StopAllStays DEF Stays, Keeps
    <2> QED
      BY <1>6, <2>1 DEF StopAllTimers, Only, Fields
  <1> HIDE DEF s
  <1>9. /\ Only(d, r, {"tim", "cad", "air"}) /\ Port(r)
        /\ r.tim = [c \in {0, 1} |-> NONE] /\ r.cad = "UNATTACHED" /\ r.air = NoMessage
    BY <1>6, <1>8 DEF Only, Port, Fields
  <1> HIDE DEF r
  <1>10. /\ r.snk = d.snk /\ r.tx = d.tx /\ r.tch = d.tch /\ r.txKind = d.txKind
         /\ r.rxMsg = d.rxMsg /\ r.rch = d.rch /\ r.extRx = d.extRx
         /\ r.epr_mode = d.epr_mode /\ r.extended = d.extended
         /\ r.entering_epr = d.entering_epr /\ r.user = d.user /\ r.dpm_event = d.dpm_event
         /\ r.hrdOriginPE = d.hrdOriginPE /\ r.hardResetActive = d.hardResetActive
         /\ r.pps_contract = d.pps_contract /\ r.txAllowed = d.txAllowed
         /\ r.retry = d.retry
         /\ DOMAIN r = Fields
    BY <1>6, <1>9 DEF Only, Fields
  <1>11. \A f \in Flags : r[f] = d[f]
    BY <1>6, <1>9 DEF Only, Flags, Fields
  <1>12. NoEpr(r)
    BY <1>6, <1>9, <1>10, <1>11 DEF Sound, Spr, NoEpr
  <1>13. r.tim[0] = NONE /\ r.tim[1] = NONE
    BY <1>9
  <1>14. Spr(r)
    BY <1>6, <1>10, <1>12, <1>13 DEF Sound, Spr, SprTimers, NONE
  <1>15. Sound(r)
    BY <1>6, <1>9, <1>10, <1>13, <1>14 DEF Sound, Sends, AwaitsPhy, NoMessage, NONE
  <1>16. Steady(r)
    BY <1>1, <1>6, <1>10, <1>15 DEF Steady
  <1>17. Tally(q) => Tally(r)
    BY <1>6, <1>9, <1>10 DEF Alike, Tally, Numbered, Sends, NoMessage, NONE
  <1> QED
    BY <1>3, <1>6, <1>7, <1>9, <1>10, <1>16, <1>17

LEMMA AttachLinks ==
  /\ Steady(Attach) /\ Guarded(Attach) /\ Attach.cad = "ATTACHED"
  /\ Attach.rxMsg = NoMessage /\ Tally(Attach)
  <1> DEFINE p == NewPort
             g == Go(p, "STARTUP")
             s == [g EXCEPT !.hrdOriginPE = FALSE, !.epr_mode = FALSE]
  <1>1. Attach = EnterDiscovery(s)
    BY DEF Attach, EnterStartup
  <1>2. DOMAIN p = Fields
    BY DEF NewPort, Fields
  <1>3. /\ p.snk \in SnkType /\ p.rx \in RxType /\ p.tx \in TxType
        /\ p.mid \in MessageIDs /\ p.retry \in RetryType
        /\ p.dpm_event \in RequestType /\ p.user \in UserType
        /\ p.stuck = FALSE /\ p.tim \in TimType
    BY PortAssumption, TimerType
       DEF NewPort, SnkType, PassingStates, RxType, TxType, MessageIDs, RetryType,
           RequestType, UserType, NONE
  <1>4. /\ p.user = NoUserCode /\ p.epr_mode = FALSE /\ p.entering_epr = FALSE
        /\ p.extended = FALSE /\ p.extRx = NONE /\ p.rch \in SprRch
        /\ p.dpm_event \in {NONE, "HARD_RESET"} /\ p.txKind \in SprKinds
    BY DEF NewPort, SprRch, SprKinds
  <1>5. /\ p.tim = [c \in {0, 1} |-> NONE] /\ p.snk = "NONE"
        /\ p.tch \in TchSpr /\ p.tx = "WAIT_FOR_MESSAGE_REQUEST"
        /\ p.hrdOriginPE = FALSE /\ p.hardResetActive = FALSE /\ p.air = NoMessage
        /\ p.cad = "ATTACHED" /\ p.rxMsg = NoMessage /\ p.retry = 0
    BY DEF NewPort, TchSpr
  <1>6. /\ p.txAllowed = FALSE /\ p.sinkTxOk = TRUE /\ p.pps_contract = FALSE
        /\ p.pps_periodic_expired = FALSE /\ p.explicit_contract = FALSE
        /\ p.ams = FALSE /\ p.ams_first_sent = FALSE /\ p.response_expected = FALSE
    BY DEF NewPort
  <1> HIDE DEF p
  <1>7. p.tim[0] = NONE /\ p.tim[1] = NONE
    BY <1>5
  <1>8. \A f \in Flags : p[f] \in BOOLEAN
    BY <1>5, <1>6 DEF Flags
  <1>9. Spr(p)
    BY <1>2, <1>3, <1>4, <1>5, <1>7, <1>8 DEF Spr, NoEpr, Port, SprTimers, SprStates, NONE
  <1>10. Clear(p)
    BY <1>5, <1>9, <1>7 DEF Clear, Silent, NONE
  <1>11. Gone(p, g, "STARTUP")
    BY <1>9, GoIs, SprNames
  <1> HIDE DEF g
  <1>12. /\ NoEpr(g) /\ Port(g) /\ DOMAIN g = Fields /\ g.snk = "STARTUP"
         /\ g.tim[1] = NONE /\ Only(p, g, PolicyFields) /\ g.epr_mode = FALSE
         /\ g.tim[0] \notin {"CRC_RECEIVE", "HARD_RESET_COMPLETE", "PS_TRANSITION",
                             "SINK_EPR_TRANSITION"}
    <2>1. /\ NoEpr(g) /\ Port(g) /\ DOMAIN g = Fields /\ g.snk = "STARTUP"
          /\ g.tim[1] = NONE /\ Only(p, g, PolicyFields)
          /\ g.tim[0] \notin {"CRC_RECEIVE", "HARD_RESET_COMPLETE", "PS_TRANSITION",
                              "SINK_EPR_TRANSITION"}
      BY <1>10, <1>11, GoneClear
    <2> QED
      BY <2>1 DEF NoEpr
  <1>13. Spr(g)
    BY <1>12 DEF Spr, SprTimers, SprStates
  <1>14. Clear(g) /\ g.cad = p.cad /\ g.rxMsg = p.rxMsg
    BY <1>10, <1>12, <1>13, PolicyIdle DEF Clear
  <1>15. /\ Only(g, s, CountFields) /\ Port(s) /\ s.rch = g.rch /\ s.extRx = g.extRx
         /\ s.retry = g.retry
    <2>1. g.hrdOriginPE = FALSE
      BY <1>14 DEF Clear, Silent
    <2> QED
      BY <1>12, <2>1 DEF Only, Fields, Port
  <1> HIDE DEF s
  <1>16. Clear(s) /\ s.snk = "STARTUP" /\ s.cad = g.cad /\ s.rxMsg = g.rxMsg
    <2>1. s.rch \in SprRch /\ s.extRx = NONE
      BY <1>12, <1>15 DEF NoEpr
    <2> QED
      BY <1>12, <1>13, <1>14, <1>15, <2>1, CountsKeep
  <1>17. Hushed(s, EnterDiscovery(s)) /\ Halts(s, EnterDiscovery(s))
    BY <1>16, DiscoveryLinks
  <1>18. s.retry = 0
    <2>1. g.retry = p.retry
      BY <1>2, <1>12 DEF Only, Fields, PolicyFields
    <2> QED
      BY <1>5, <1>15, <2>1
  <1>19. Tally(Attach)
    BY <1>1, <1>17, <1>18, HaltTally DEF Hushed, Handles, Halts
  <1> QED
    BY <1>1, <1>5, <1>14, <1>16, <1>17, <1>19 DEF Hushed, Handles

-----------------------------------------------------------------------------
\* The events in the slots

SprTimerEvents == {NONE, "CRC_RECEIVE", "PST_TRANS_TIMEOUT", "SRT_EXPIRED",
                   "SINK_PPS_PERIODIC"}

\* The events in the slots fit the port that is to handle them.
Fits(q, e, t) ==
  /\ Sound(q)
  /\ q.rch = "WAIT_FOR_MESSAGE_FROM_PRL" /\ q.rxMsg.kind \in SprReceived
  /\ e \in PhyEvents \cup {NONE}
  /\ t \in SprTimerEvents
  /\ e \notin HardResets => Steady(q)
  /\ e \in HardResets => q.hardResetActive = TRUE /\ q.air = NoMessage
  /\ e = "HRD_SENT" => q.snk = "HARD_RESET"
  /\ e \in {"MSG_TX_COMPLETED", "MSG_TX_DISCARDED"} =>
       q.air = NoMessage /\ t = NONE /\ q.tim[0] # "CRC_RECEIVE"
  /\ e = "MSG_TX_COMPLETED" => (q.txKind # "GoodCRC" => AwaitsPhy(q))
  /\ e = "MSG_RX_COMPLETE" /\ q.rxMsg.kind = "GoodCRC" =>
       AwaitsPhy(q) /\ q.air = NoMessage /\ t = NONE
  /\ t # NONE => q.snk # "HARD_RESET" /\ ~Sends(q)
  /\ t = "CRC_RECEIVE" => AwaitsPhy(q) /\ q.tim[0] # "CRC_RECEIVE"
  /\ t = "SINK_PPS_PERIODIC" => q.snk = "READY"
  /\ Guarded(q) \/ t = "PST_TRANS_TIMEOUT"

\* The port waits for the GoodCRC of what it has sent.
Waits(q, e, t) ==
  /\ AwaitsPhy(q) /\ q.air = NoMessage
  /\ e \in {NONE, "MSG_TX_COMPLETED", "CONN_DETECTED"} /\ t = NONE

LEMMA VbusFits ==
  ASSUME NEW q, NEW e, NEW t, Fits(q, e, t)
  PROVE  Fits(VbusPresent(q), e, t)
  <1> DEFINE r == VbusPresent(q)
  <1>1. /\ Sound(r)
        /\ Steady(q) => Steady(r)
        /\ Guarded(q) => Guarded(r)
        /\ q.snk # "DISCOVERY" => r = q
        /\ r.snk # "DISCOVERY"
        /\ r.cad = q.cad /\ r.rxMsg = q.rxMsg /\ r.txAllowed = q.txAllowed
        /\ r.air = q.air /\ r.txKind = q.txKind /\ r.rch = q.rch
        /\ r.hardResetActive = q.hardResetActive /\ r.hrdOriginPE = q.hrdOriginPE
        /\ q.tim[0] # "CRC_RECEIVE" => r.tim[0] # "CRC_RECEIVE"
        /\ AwaitsPhy(q) => r = q
    BY VbusKeeps DEF Fits
  <1>2. q.snk = "DISCOVERY" => r.snk = "WAIT_FOR_CAPABILITIES"
    BY EnterWaitIs DEF Fits, Sound, VbusPresent, IsWait
  <1> HIDE DEF r
  <1>3. t # NONE => r.snk # "HARD_RESET" /\ ~Sends(r)
    BY <1>1, <1>2 DEF Fits, Sends
  <1>4. e = "HRD_SENT" => r.snk = "HARD_RESET"
    BY <1>1 DEF Fits
  <1>5. Fits(r, e, t)
    BY <1>1, <1>3, <1>4 DEF Fits
  <1> QED
    BY <1>5 DEF r

\* A received hard reset, or one that has been sent
LEMMA ResetEventLinks ==
  ASSUME NEW q, NEW e \in HardResets, NEW t, Fits(q, e, t),
         NEW gated
  PROVE  /\ Handles(q, HandleEvents(q, e, t, gated))
         /\ Tally(q) => Tally(HandleEvents(q, e, t, gated))
  <1>1. CASE e = "HRD_RECEIVED"
    <2>1. HandleEvents(q, e, t, gated) = HrdReceived(q)
      BY <1>1 DEF HandleEvents
    <2>2. /\ Handles(q, HrdReceived(q)) /\ Halts(q, HrdReceived(q))
          /\ HrdReceived(q).retry = 0
      BY <1>1, HrdLinks DEF Fits
    <2>3. Tally(HrdReceived(q))
      BY <2>2, HaltTally DEF Handles, Halts
    <2> QED
      BY <2>1, <2>2, <2>3
  <1>2. CASE e = "HRD_SENT"
    <2>1. t = NONE
      BY <1>2 DEF Fits
    <2>2. HandleEvents(q, e, t, gated) = HardResetSent(q)
      BY <1>2, <2>1 DEF HandleEvents, PhyDelta
    <2>3. Handles(q, HardResetSent(q)) /\ Halts(q, HardResetSent(q))
      BY <1>2, ResetSentLinks DEF Fits, HardResets
    <2>4. Tally(q) => q.retry = 0
      BY <1>2 DEF Fits, Sound, Sending, Tally
    <2>5. Tally(q) => Tally(HardResetSent(q))
      BY <2>3, <2>4, HaltTally DEF Handles, Halts
    <2> QED
      BY <2>2, <2>3, <2>5
  <1> QED
    BY <1>1, <1>2 DEF HardResets

\* The count of the retries is right, and a GoodCRC acknowledges the last message.
Counted(q, e) ==
  /\ Tally(q)
  /\ e = "MSG_RX_COMPLETE" /\ q.rxMsg.kind = "GoodCRC" => q.rxMsg.id = q.mid

\* What an event does to the counters, one event after another that changed q to v
LEMMA CountedProceeds ==
  ASSUME NEW q, Steady(q), NEW t, NEW v, Steady(v), Proceeds(q, NONE, t, v),
         v.rxMsg = q.rxMsg, NEW e,
         ~(e = "MSG_RX_COMPLETE" /\ q.rxMsg.kind = "GoodCRC"),
         NEW r, Adds(v, r) \/ r = v \/ (/\ e = "MSG_RX_COMPLETE"
                                       /\ q.rxMsg.kind = "Soft_Reset"
                                       /\ Tally(r) /\ r.snk = v.snk
                                       /\ r.tx = "WAIT_FOR_MESSAGE_REQUEST")
  PROVE  Proceeds(q, e, t, r)
  <1>1. CASE Adds(v, r) \/ r = v
    BY <1>1, AddsProceed
  <1>2. CASE /\ e = "MSG_RX_COMPLETE" /\ q.rxMsg.kind = "Soft_Reset"
             /\ Tally(r) /\ r.snk = v.snk /\ r.tx = "WAIT_FOR_MESSAGE_REQUEST"
    BY <1>2 DEF Proceeds, Moves
  <1> QED
    BY <1>1, <1>2

LEMMA EventLinks ==
  ASSUME NEW q, NEW e, e \notin HardResets, NEW t, Fits(q, e, t)
  PROVE  /\ Hushed(q, HandleEvents(q, e, t, FALSE))
         /\ Counted(q, e) => Proceeds(q, e, t, HandleEvents(q, e, t, FALSE))
         /\ Waits(q, e, t) =>
              /\ AwaitsPhy(HandleEvents(q, e, t, FALSE))
              /\ HandleEvents(q, e, t, FALSE).air = NoMessage
              /\ Stands(q, HandleEvents(q, e, t, FALSE))
  <1> DEFINE v == IF t # NONE THEN TimerDelta(q, t) ELSE q
             r == PhyDelta(v, e)
  <1>1. Steady(q)
    BY DEF Fits
  <1>2. HandleEvents(q, e, t, FALSE) = r
    BY DEF HandleEvents, HardResets, Fits, SprTimerEvents, NONE
  <1>3. CASE t = NONE
    <2>1. v = q
      BY <1>3
    <2>2. Guarded(q)
      BY <1>3 DEF Fits, NONE
    <2> HIDE DEF v
    <2>3. /\ Hushed(q, r)
          /\ e = "MSG_RX_COMPLETE" /\ q.rxMsg.kind = "GoodCRC" /\ q.rxMsg.id = q.mid =>
               Advances(q, r)
          /\ e = "MSG_RX_COMPLETE" /\ q.rxMsg.kind = "Soft_Reset" =>
               r = q \/ (Tally(r) /\ r.snk = q.snk /\ r.tx = "WAIT_FOR_MESSAGE_REQUEST")
          /\ e \in {"MSG_TX_COMPLETED", "MSG_TX_DISCARDED"} /\ Tally(q) =>
               Proceeds(q, e, NONE, r)
          /\ \/ e = "MSG_RX_COMPLETE" /\ q.rxMsg.kind \in {"GoodCRC", "Soft_Reset"}
             \/ e \in {"MSG_TX_COMPLETED", "MSG_TX_DISCARDED"}
             \/ r = q \/ Adds(q, r)
      BY <1>1, <2>1, <2>2, PhyLinks DEF Fits
    <2>5. Counted(q, e) => Proceeds(q, e, t, r)
      <3> SUFFICES ASSUME Counted(q, e) PROVE Proceeds(q, e, t, r)
        OBVIOUS
      <3> HIDE DEF r
      <3>1. CASE e = "MSG_RX_COMPLETE" /\ q.rxMsg.kind = "GoodCRC"
        <4>1. Advances(q, r)
          BY <2>3, <3>1 DEF Counted
        <4>2. q.snk # "HARD_RESET"
          BY <1>1, <3>1 DEF Fits, Steady, Sound, AwaitsPhy, Sending
        <4> QED
          BY <3>1, <4>1, <4>2 DEF Advances, Proceeds, Moves, Tally
      <3>2. CASE e \in {"MSG_TX_COMPLETED", "MSG_TX_DISCARDED"}
        BY <1>3, <2>3, <3>2 DEF Counted
      <3>3. CASE ~(e = "MSG_RX_COMPLETE" /\ q.rxMsg.kind = "GoodCRC")
                 /\ e \notin {"MSG_TX_COMPLETED", "MSG_TX_DISCARDED"}
        <4>1. Proceeds(q, NONE, t, q)
          BY StandsProceeds DEF Counted, Stands, NONE
        <4> QED
          BY <1>1, <2>3, <3>3, <4>1, CountedProceeds
      <3> QED
        BY <3>1, <3>2, <3>3
    <2>4. Waits(q, e, t) => AwaitsPhy(r) /\ r.air = NoMessage /\ Stands(q, r)
      <3>1. CASE e = NONE
        BY <2>1, <3>1 DEF Waits, PhyDelta, NONE, Stands
      <3>2. CASE e = "CONN_DETECTED"
        BY <2>1, <3>2 DEF Waits, PhyDelta, TxOk, AwaitsPhy, Stands
      <3>3. CASE e = "MSG_TX_COMPLETED" /\ q.txKind # "GoodCRC"
        <4>1. r = UCPD_TIM_Start(q, "CRC_RECEIVE")
          BY <2>1, <3>3 DEF PhyDelta, MsgTxCompleted
        <4>2. Started0(q, r, "CRC_RECEIVE") /\ DOMAIN q = Fields
          BY <1>1, <4>1, TimersAre, TimerChannels, FlagsAre DEF Steady, Sound, Spr
        <4> HIDE DEF r
        <4>3. /\ r.tx = q.tx /\ r.txKind = q.txKind /\ r.air = q.air
              /\ r.mid = q.mid /\ r.retry = q.retry
          BY <4>2 DEF Started0, Only, Fields
        <4> QED
          BY <4>3 DEF Waits, AwaitsPhy, Stands
      <3> QED
        BY <3>1, <3>2, <3>3 DEF Waits, AwaitsPhy
    <2> QED
      BY <1>2, <2>3, <2>4, <2>5
  <1>4. CASE t # NONE
    <2>1. q.air = NoMessage
      BY <1>1, <1>4 DEF Fits, Steady, Sound, Sends
    <2>2. Hushed(q, v) /\ (Tally(q) => Proceeds(q, NONE, t, v))
      BY <1>1, <1>4, <2>1, TimerLinks DEF Fits, SprTimerEvents
    <2>3. e \in {NONE, "MSG_RX_COMPLETE", "CONN_DETECTED"}
      BY <1>4 DEF Fits, HardResets, PhyEvents
    <2>4. e = "MSG_RX_COMPLETE" => q.rxMsg.kind # "GoodCRC"
      BY <1>4 DEF Fits
    <2> HIDE DEF v
    <2>5. Steady(v) /\ Guarded(v) /\ v.rxMsg = q.rxMsg
      BY <2>2 DEF Hushed, Handles
    <2>6. /\ Hushed(v, r)
          /\ \/ r = v \/ Adds(v, r)
             \/ /\ e = "MSG_RX_COMPLETE" /\ q.rxMsg.kind = "Soft_Reset"
                /\ Tally(r) /\ r.snk = v.snk /\ r.tx = "WAIT_FOR_MESSAGE_REQUEST"
      BY <2>3, <2>4, <2>5, PhyLinks DEF PhyEvents, HardResets, NONE
    <2> HIDE DEF r
    <2>7. Hushed(q, r)
      BY <2>2, <2>6 DEF Hushed, Handles
    <2>8. Counted(q, e) => Proceeds(q, e, t, r)
      BY <1>1, <2>2, <2>4, <2>5, <2>6, CountedProceeds DEF Counted
    <2> QED
      BY <1>2, <1>4, <2>7, <2>8 DEF Waits
  <1> QED
    BY <1>3, <1>4

LEMMA DpmIdle ==
  ASSUME NEW q, Steady(q), q.snk # "READY" \/ q.dpm_event = NONE
  PROVE  LET r == HandleDpm(q)
         IN  /\ Steady(r) /\ (AwaitsPhy(q) => AwaitsPhy(r))
             /\ r.cad = q.cad /\ r.rxMsg = q.rxMsg /\ r.txAllowed = q.txAllowed
             /\ r.air = q.air /\ r.tim = q.tim /\ r.dpm_event = q.dpm_event
             /\ Alike(q, r)
  <1> DEFINE r == [q EXCEPT !.current_callback = IF @ = NONE THEN q.callback ELSE @]
  <1>1. NoEpr(q) /\ Port(q) /\ DOMAIN q = Fields /\ q.sinkTxOk \in BOOLEAN
    BY FlagsAre DEF Steady, Sound, Spr
  <1>2. HandleDpm(q) = r
    BY DEF HandleDpm
  <1>3. /\ Only(q, r, CallerFields) /\ Port(r) /\ r.user = NoUserCode
        /\ r.dpm_event = q.dpm_event /\ r.sinkTxOk = q.sinkTxOk
    BY <1>1 DEF Only, Fields, CallerFields, Port, NoEpr
  <1> HIDE DEF r
  <1>4. r.dpm_event \in {NONE, "HARD_RESET"} /\ r.sinkTxOk \in BOOLEAN
    BY <1>1, <1>3 DEF NoEpr
  <1>5. /\ Steady(r) /\ (AwaitsPhy(q) => AwaitsPhy(r))
        /\ r.cad = q.cad /\ r.rxMsg = q.rxMsg /\ r.txAllowed = q.txAllowed
        /\ r.air = q.air /\ r.tim = q.tim /\ Alike(q, r)
    BY <1>1, <1>3, <1>4, CallerKeeps
  <1> QED
    BY <1>2, <1>3, <1>5

-----------------------------------------------------------------------------
\* One run of the handler

\* What is left of a port that has been detached
Quieted(q, r) ==
  /\ Steady(r) /\ r.cad = "UNATTACHED" /\ r.rxMsg = q.rxMsg
  /\ r.air = NoMessage /\ r.dpm_event = NONE
  /\ r.tim = [c \in {0, 1} |-> NONE]

\* One run of UCPD_PE_PRL_Handler of an attached port, with events in the slots that the
\* port can have caused (Fits): the port is left in a state that waits, or detached with
\* nothing left; nothing goes out but while no answer is due; a GoodCRC that is due and was
\* not in the slots is still waited for. The MessageID and the count of the retries change
\* as Proceeds says.
THEOREM HandlerLinks ==
  ASSUME NEW q, q.cad = "ATTACHED", NEW e, NEW t, Fits(q, e, t), NEW pwr
  PROVE  LET r == UCPD_PE_PRL_Handler(q, pwr, e, t)
         IN  \/ /\ Handles(q, r)
                /\ ~(pwr = "VBUS_REMOVED" /\ ~q.hardResetActive)
                /\ e \notin HardResets => Hushed(q, r)
                /\ Waits(q, e, t) => AwaitsPhy(r) /\ r.air = NoMessage /\ Stands(q, r)
                /\ Counted(q, e) =>
                     Tally(r) /\ (e \notin HardResets => Proceeds(q, e, t, r))
             \/ /\ pwr = "VBUS_REMOVED" /\ ~q.hardResetActive /\ Quieted(q, r)
                /\ Tally(q) => Tally(r)
  <1> DEFINE a == PwrDelta(q, pwr)
             gated == q.hardResetActive /\ ~q.hrdOriginPE
             x == HandleEvents(a, e, t, gated)
             r == UCPD_PE_PRL_Handler(q, pwr, e, t)
  <1>1. Sound(q)
    BY DEF Fits
  <1>2. r = HandleDpm(HandleConnection(q, a, e, t))
    BY DEF UCPD_PE_PRL_Handler
  <1>3. CASE pwr = "VBUS_REMOVED" /\ ~q.hardResetActive
    <2>1. a = Detach(q)
      BY <1>3 DEF PwrDelta
    <2>2. Steady(q) /\ q.snk # "HARD_RESET"
      BY <1>3 DEF Fits, Steady
    <2> HIDE DEF a
    <2>3. /\ Steady(a) /\ a.cad = "UNATTACHED" /\ a.air = NoMessage /\ a.dpm_event = NONE
          /\ a.tim = [c \in {0, 1} |-> NONE] /\ a.rxMsg = q.rxMsg
          /\ Tally(q) => Tally(a)
      BY <2>1, <2>2, DetachIs
    <2>4. r = HandleDpm(a)
      BY <1>2, <2>3 DEF HandleConnection
    <2>5. Quieted(q, r) /\ Alike(a, r)
      BY <2>3, <2>4, DpmIdle DEF Quieted
    <2>6. Tally(q) => Tally(r)
      BY <2>3, <2>5, AlikeTally
    <2> QED
      BY <1>3, <2>5, <2>6
  <1>4. CASE ~(pwr = "VBUS_REMOVED" /\ ~q.hardResetActive)
    <2>1. a = q \/ a = VbusPresent(q)
      BY <1>4 DEF PwrDelta
    <2> HIDE DEF a
    <2>2. /\ Fits(a, e, t) /\ a.cad = q.cad /\ a.rxMsg = q.rxMsg
          /\ a.txAllowed = q.txAllowed /\ a.air = q.air
          /\ AwaitsPhy(q) => a = q
      BY <1>1, <2>1, VbusFits, VbusKeeps
    <2>6. Alike(q, a)
      BY <1>1, <2>1, VbusKeeps DEF Alike
    <2>7. Counted(q, e) => Counted(a, e)
      BY <2>6, AlikeTally DEF Counted, Alike
    <2>3. r = HandleDpm(x)
      BY <1>2, <2>2 DEF HandleConnection
    <2>4. CASE e \in HardResets
      <3>1. Handles(a, x) /\ (Tally(a) => Tally(x))
        BY <2>2, <2>4, ResetEventLinks
      <3> HIDE DEF x
      <3>2. /\ Hushed(x, HandleDpm(x))
            /\ Alike(x, HandleDpm(x)) \/ Tally(HandleDpm(x))
        BY <3>1, DpmLinks DEF Handles
      <3>5. Counted(q, e) => Tally(r)
        BY <2>3, <2>7, <3>1, <3>2, AlikeTally DEF Counted
      <3>3. Handles(q, r)
        BY <2>2, <2>3, <3>1, <3>2 DEF Hushed, Handles
      <3>4. ~Waits(q, e, t)
        BY <2>4 DEF Waits, HardResets, NONE
      <3> QED
        BY <1>4, <2>4, <3>3, <3>4, <3>5
    <2>5. CASE e \notin HardResets
      <3>1. gated = FALSE
        <4>1. Steady(q) /\ q.hardResetActive \in BOOLEAN /\ q.hrdOriginPE \in BOOLEAN
          BY <2>5, FlagsAre DEF Fits, Sound, Spr
        <4> QED
          BY <4>1 DEF Steady, Sound
      <3>2. /\ Hushed(a, x)
            /\ Waits(a, e, t) => AwaitsPhy(x) /\ x.air = NoMessage /\ Stands(a, x)
            /\ Counted(a, e) => Proceeds(a, e, t, x)
        BY <2>2, <2>5, <3>1, EventLinks
      <3> HIDE DEF x
      <3>3. /\ Hushed(x, HandleDpm(x))
            /\ \/ Alike(x, HandleDpm(x))
               \/ HandleDpm(x).snk = "HARD_RESET" /\ Tally(HandleDpm(x))
        BY <3>2, DpmLinks DEF Hushed, Handles
      <3>6. Counted(q, e) => Proceeds(q, e, t, r)
        <4> SUFFICES ASSUME Counted(q, e) PROVE Proceeds(q, e, t, r)
          OBVIOUS
        <4>1. Proceeds(q, e, t, x)
          BY <2>6, <2>7, <3>2, AlikeBefore
        <4>2. CASE Alike(x, r)
          BY <4>1, <4>2, AlikeAfter
        <4>3. CASE r.snk = "HARD_RESET" /\ Tally(r)
          BY <4>3 DEF Proceeds, Moves
        <4> QED
          BY <2>3, <3>3, <4>2, <4>3
      <3>4. Hushed(q, r)
        BY <2>2, <2>3, <3>2, <3>3 DEF Hushed, Handles, Sends
      <3>5. Waits(q, e, t) => AwaitsPhy(r) /\ r.air = NoMessage /\ Stands(q, r)
        <4> SUFFICES ASSUME Waits(q, e, t)
                     PROVE  AwaitsPhy(r) /\ r.air = NoMessage /\ Stands(q, r)
          OBVIOUS
        <4>1. a = q
          BY <2>2 DEF Waits
        <4>2. AwaitsPhy(x) /\ x.air = NoMessage /\ Steady(x) /\ Stands(q, x)
          BY <3>2, <4>1 DEF Hushed, Handles
        <4>3. x.snk # "READY"
          BY <4>2 DEF Steady, Sound, AwaitsPhy, Sending
        <4>4. AwaitsPhy(r) /\ r.air = x.air /\ Alike(x, r)
          BY <2>3, <4>2, <4>3, DpmIdle
        <4> QED
          BY <4>2, <4>4 DEF Alike, Stands
      <3> QED
        BY <1>4, <3>4, <3>5, <3>6 DEF Hushed, Proceeds
    <2> QED
      BY <2>4, <2>5
  <1> QED
    BY <1>3, <1>4

\* ... and while it is not
LEMMA HandlerQuiet ==
  ASSUME NEW q, Steady(q), q.cad = "UNATTACHED", q.dpm_event = NONE, NEW pwr
  PROVE  LET r == UCPD_PE_PRL_Handler(q, pwr, NONE, NONE)
         IN  /\ Steady(r) /\ r.cad = q.cad /\ r.rxMsg = q.rxMsg
             /\ r.air = q.air /\ r.tim = q.tim /\ r.dpm_event = NONE
             /\ Alike(q, r)
  <1>1. PwrDelta(q, pwr) = q
    BY DEF PwrDelta
  <1>2. HandleConnection(q, q, NONE, NONE) = q
    BY DEF HandleConnection, HandleEvents, PhyDelta, NONE
  <1>3. UCPD_PE_PRL_Handler(q, pwr, NONE, NONE) = HandleDpm(q)
    BY <1>1, <1>2 DEF UCPD_PE_PRL_Handler
  <1> QED
    BY <1>3, DpmIdle
=============================================================================
