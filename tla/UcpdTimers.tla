---------------------------- MODULE UcpdTimers ----------------------------
(***************************************************************************)
(* The timer service of the stack: ucpd/ucpd_tim.c on top of the compare   *)
(* units of TIM1 in device/ucpd_hw.c.                                      *)
(*                                                                         *)
(* Sixteen logical timers share four hardware channels.  A channel has one *)
(* owner (ucpd_tim_at_channel); starting a timer displaces the owner of    *)
(* its channel.  UCPD_TIM_Start and UCPD_TIM_Stop run in the worker, which *)
(* the timer interrupt preempts between any two of their steps;            *)
(* UCPD_TIM_Handler writes the event of an expired timer into a slot of    *)
(* size one that the worker reads and clears when it next runs.            *)
(*                                                                         *)
(* Time is the free-running counter of TIM1 (16 bits wide in the code,     *)
(* COUNTER_MOD values here).  A compare unit raises its flag whenever the  *)
(* counter reaches its compare register, whoever owns the channel.         *)
(***************************************************************************)
EXTENDS Integers

CONSTANTS
  Timers,              \* UCPD_TIM without NONE and NUMBER
  NoTimer,             \* UCPD_TIM_NONE
  Channels,            \* the compare channels, numbered as in the code
  UCPD_TIMER_CHANNEL,  \* the channel of each timer
  UCPD_TIMERS_PERIODS, \* the period of each timer, in ticks
  UCPD_TIMERS_EVENTS,  \* the event of each timer
  NoEvent,             \* PE_PRL_CAD_EVENT_NONE
  COUNTER_MOD          \* number of values of the counter, 2^16 in the code

ASSUME ChannelsAssumption ==
  /\ Channels \subseteq Nat
  /\ NoTimer \notin Timers
  /\ UCPD_TIMER_CHANNEL \in [Timers -> Channels]

\* The shortest period is 1 (UCPD_TRECIEIVE), the longest 10000
\* (UCPD_TPPS_REQUEST), far below the 65536 values of the counter.
ASSUME PeriodsAssumption ==
  /\ COUNTER_MOD \in Nat \ {0}
  /\ UCPD_TIMERS_PERIODS \in [Timers -> Nat]
  /\ \A t \in Timers : /\ UCPD_TIMERS_PERIODS[t] >= 1
                       /\ UCPD_TIMERS_PERIODS[t] + 1 < COUNTER_MOD

VARIABLES
  now,         \* counter of TIM1
  ccr,         \* compare register of each channel
  ccif,        \* compare flag of each channel (TIM_SR_CCxIF)
  ccie,        \* compare interrupt enable of each channel (TIM_DIER_CCxIE)
  at_channel,  \* port->ucpd_tim_at_channel: owner of each channel
  timer_event, \* pe_prl_cad.timer_event: the slot the interrupt writes
  current,     \* pe_prl_cad.current_timer_event: what this worker run sees
  irq_on,      \* NVIC enable of the timer interrupt
  hr,          \* how far a received hard reset has got
  wpc,         \* where the worker is
  arg,         \* timer that the worker is starting or stopping
  when,        \* the local `when` of UCPD_HW_Timer_Start
  elapsed,     \* history: ticks since the owner of a channel was given `when`
  raced        \* history: the old compare value matched while being replaced

hwvars == <<now, ccr, ccif, ccie>>
hist   == <<elapsed, raced>>
vars   == <<now, ccr, ccif, ccie, at_channel, timer_event, current, irq_on,
            hr, wpc, arg, when, elapsed, raced>>

-----------------------------------------------------------------------------

\* The worker is idle, in its handler, or at one step of Start or Stop.
StartSteps == {"now", "clear", "compare", "enable"}
WorkerPcs  == {"idle", "run", "disable"} \cup StartSteps

\* none; hardResetActive set by the PHY interrupt; HRD_RECEIVED posted by the
\* helper; HRD_RECEIVED being handled by the worker
HrStages == {"none", "received", "posted", "handling"}

Events == {UCPD_TIMERS_EVENTS[t] : t \in Timers} \cup {NoEvent}

\* UCPD_TIM_NONE has the event PE_PRL_CAD_EVENT_NONE.
EventOf(t) == IF t = NoTimer THEN NoEvent ELSE UCPD_TIMERS_EVENTS[t]

\* Mutant of Wrap: the sum is not truncated to the width of the counter.
WrapMissing(x) == x

\* Arithmetic of the counter: arguments are below 2 * COUNTER_MOD.
Wrap(x) == IF x < COUNTER_MOD THEN x ELSE x - COUNTER_MOD

TypeOK ==
  /\ now \in 0 .. COUNTER_MOD - 1
  /\ ccr \in [Channels -> 0 .. COUNTER_MOD - 1]
  /\ ccif \in [Channels -> BOOLEAN]
  /\ ccie \in [Channels -> BOOLEAN]
  /\ at_channel \in [Channels -> Timers \cup {NoTimer}]
  /\ timer_event \in Events
  /\ current \in Events
  /\ irq_on \in BOOLEAN
  /\ hr \in HrStages
  /\ wpc \in WorkerPcs
  /\ arg \in Timers \cup {NoTimer}
  /\ when \in 0 .. COUNTER_MOD - 1
  /\ elapsed \in [Channels -> 0 .. COUNTER_MOD]
  /\ raced \in [Channels -> BOOLEAN]

\* UCPD_HW_Timer_Init starts the counter at 0xFFFF; UCPD_PHY_EnableEvents
\* unmasks the interrupt, and no timer has been started yet.
Init ==
  /\ now = COUNTER_MOD - 1
  /\ ccr = [c \in Channels |-> 0]
  /\ ccif = [c \in Channels |-> FALSE]
  /\ ccie = [c \in Channels |-> FALSE]
  /\ at_channel = [c \in Channels |-> NoTimer]
  /\ timer_event = NoEvent
  /\ current = NoEvent
  /\ irq_on = TRUE
  /\ hr = "none"
  /\ wpc = "idle"
  /\ arg = NoTimer
  /\ when = 0
  /\ elapsed = [c \in Channels |-> 0]
  /\ raced = [c \in Channels |-> FALSE]

-----------------------------------------------------------------------------
\* The hardware

Channel(t) == UCPD_TIMER_CHANNEL[t]

\* The worker is replacing the compare value of channel c.
Arming(c) == wpc \in StartSteps /\ Channel(arg) = c

\* Between reading the counter and enabling the interrupt at most one tick of
\* 1 ms elapses: every interrupt that can preempt the worker is shorter.
ArmWindow ==
  wpc \in {"clear", "compare"} =>
    when = Wrap(now + UCPD_TIMERS_PERIODS[arg] + 1)

\* One tick of the counter; every compare unit that matches raises its flag.
Tick ==
  LET next == Wrap(now + 1) IN
  /\ ArmWindow
  /\ now' = next
  /\ ccif' = [c \in Channels |-> ccif[c] \/ ccr[c] = next]
  /\ elapsed' = [c \in Channels |->
                   IF elapsed[c] < COUNTER_MOD THEN elapsed[c] + 1
                                               ELSE elapsed[c]]
  /\ raced' = [c \in Channels |->
                 \/ raced[c]
                 \/ wpc = "compare" /\ Arming(c) /\ ccr[c] = next]
  /\ UNCHANGED <<ccr, ccie, at_channel, timer_event, current, irq_on, hr, wpc,
                 arg, when>>

Fired == {c \in Channels : ccif[c] /\ ccie[c]}

\* The timer interrupt has a higher priority than the worker and the helper.
TimerIrq == irq_on /\ Fired # {}

\* UCPD_TIM_Handler: one pass over the channels, UCPD_TIM_Expired for each one
\* that fired.  Every channel writes the same slot, so that the last one wins;
\* the compare interrupt stays enabled, and a channel without an owner writes
\* PE_PRL_CAD_EVENT_NONE.
UCPD_TIM_Handler ==
  /\ TimerIrq
  /\ ccif' = [c \in Channels |-> ccif[c] /\ c \notin Fired]
  /\ at_channel' = [c \in Channels |->
                      IF c \in Fired THEN NoTimer ELSE at_channel[c]]
  /\ \E last \in Fired :
       /\ \A c \in Fired : c <= last
       /\ timer_event' = EventOf(at_channel[last])
  /\ UNCHANGED <<now, ccr, ccie, current, irq_on, hr, wpc, arg, when, hist>>

-----------------------------------------------------------------------------
\* The worker: a snapshot of the slot, then calls of Start and Stop

\* A worker step is an instruction that no pending interrupt preempts.
WorkerAt(pc) == wpc = pc /\ ~TimerIrq

\* The interrupt is masked while the slot is read and cleared.  It stays masked,
\* and the event is dropped, when a hard reset has been received.
Snapshot ==
  /\ WorkerAt("idle")
  /\ current' = IF hr = "none" THEN timer_event ELSE NoEvent
  /\ timer_event' = NoEvent
  /\ irq_on' = (hr = "none")
  /\ hr' = IF hr = "posted" THEN "handling" ELSE hr
  /\ wpc' = "run"
  /\ UNCHANGED <<hwvars, at_channel, arg, when, hist>>

\* Start does nothing when the timer already owns its channel.
UCPD_TIM_Start(t) ==
  /\ WorkerAt("run")
  /\ at_channel[Channel(t)] # t
  /\ at_channel' = [at_channel EXCEPT ![Channel(t)] = t]
  /\ arg' = t
  /\ wpc' = "now"
  /\ UNCHANGED <<hwvars, timer_event, current, irq_on, hr, when, hist>>

\* Mutant of StartReadCounter: `when` without the + 1u.
StartReadCounterOffByOne ==
  /\ WorkerAt("now")
  /\ when' = Wrap(now + UCPD_TIMERS_PERIODS[arg])
  /\ elapsed' = [elapsed EXCEPT ![Channel(arg)] = 0]
  /\ wpc' = "clear"
  /\ UNCHANGED <<hwvars, at_channel, timer_event, current, irq_on, hr, arg,
                 raced>>

StartReadCounter ==
  /\ WorkerAt("now")
  /\ when' = Wrap(now + UCPD_TIMERS_PERIODS[arg] + 1)
  /\ elapsed' = [elapsed EXCEPT ![Channel(arg)] = 0]
  /\ wpc' = "clear"
  /\ UNCHANGED <<hwvars, at_channel, timer_event, current, irq_on, hr, arg,
                 raced>>

\* Mutant of StartClearFlag: a flag that is set already stays set.
StartKeepsFlag ==
  /\ WorkerAt("clear")
  /\ raced' = [raced EXCEPT ![Channel(arg)] = FALSE]
  /\ wpc' = "compare"
  /\ UNCHANGED <<now, ccr, ccif, ccie, at_channel, timer_event, current, irq_on,
                 hr, arg, when, elapsed>>

StartClearFlag ==
  /\ WorkerAt("clear")
  /\ ccif' = [ccif EXCEPT ![Channel(arg)] = FALSE]
  /\ raced' = [raced EXCEPT ![Channel(arg)] = FALSE]
  /\ wpc' = "compare"
  /\ UNCHANGED <<now, ccr, ccie, at_channel, timer_event, current, irq_on, hr,
                 arg, when, elapsed>>

StartSetCompare ==
  /\ WorkerAt("compare")
  /\ ccr' = [ccr EXCEPT ![Channel(arg)] = when]
  /\ wpc' = "enable"
  /\ UNCHANGED <<now, ccif, ccie, at_channel, timer_event, current, irq_on, hr,
                 arg, when, hist>>

StartEnable ==
  /\ WorkerAt("enable")
  /\ ccie' = [ccie EXCEPT ![Channel(arg)] = TRUE]
  /\ wpc' = "run"
  /\ arg' = NoTimer
  /\ when' = 0
  /\ UNCHANGED <<now, ccr, ccif, at_channel, timer_event, current, irq_on, hr,
                 hist>>

\* Stop does something only when the timer owns its channel.
UCPD_TIM_Stop(t) ==
  /\ WorkerAt("run")
  /\ at_channel[Channel(t)] = t
  /\ arg' = t
  /\ wpc' = "disable"
  /\ UNCHANGED <<hwvars, at_channel, timer_event, current, irq_on, hr, when,
                 hist>>

\* Mutant of StopDisable: the channel keeps its owner.
StopKeepsOwner ==
  /\ WorkerAt("disable")
  /\ ccie' = [ccie EXCEPT ![Channel(arg)] = FALSE]
  /\ ccif' = [ccif EXCEPT ![Channel(arg)] = FALSE]
  /\ arg' = NoTimer
  /\ wpc' = "run"
  /\ UNCHANGED <<now, ccr, at_channel, timer_event, current, irq_on, hr, when,
                 hist>>

\* UCPD_HW_Timer_Stop, then the channel is released.  Once the interrupt of the
\* channel is disabled nothing can come between the remaining steps.
StopDisable ==
  /\ WorkerAt("disable")
  /\ ccie' = [ccie EXCEPT ![Channel(arg)] = FALSE]
  /\ ccif' = [ccif EXCEPT ![Channel(arg)] = FALSE]
  /\ at_channel' = [at_channel EXCEPT ![Channel(arg)] = NoTimer]
  /\ arg' = NoTimer
  /\ wpc' = "run"
  /\ UNCHANGED <<now, ccr, timer_event, current, irq_on, hr, when, hist>>

\* The handler returns.  A run that handles HRD_RECEIVED first completes it.
Finish ==
  /\ WorkerAt("run")
  /\ hr # "handling"
  /\ current' = NoEvent
  /\ wpc' = "idle"
  /\ UNCHANGED <<hwvars, at_channel, timer_event, irq_on, hr, arg, when, hist>>

-----------------------------------------------------------------------------
\* What a received hard reset does to the timer interrupt

\* The PHY interrupt sets hardResetActive.
UCPD_PHY_HRDRS_Received ==
  /\ hr = "none"
  /\ hr' = "received"
  /\ UNCHANGED <<hwvars, at_channel, timer_event, current, irq_on, wpc, arg,
                 when, hist>>

\* The helper runs below the worker: it masks the timers and posts the event.
UCPD_ISR_HRD_Helper ==
  /\ WorkerAt("idle")
  /\ hr = "received"
  /\ hr' = "posted"
  /\ irq_on' = FALSE
  /\ UNCHANGED <<hwvars, at_channel, timer_event, current, wpc, arg, when,
                 hist>>

\* Mutant of UCPD_PHY_HRDRS_Completed: the timer interrupt stays masked.
CompletedKeepsMask ==
  /\ WorkerAt("run")
  /\ hr = "handling"
  /\ hr' = "none"
  /\ UNCHANGED <<hwvars, at_channel, timer_event, current, irq_on, wpc, arg,
                 when, hist>>

\* UCPD_PHY_HRDRS_Completed clears hardResetActive and unmasks the timers.
UCPD_PHY_HRDRS_Completed ==
  /\ WorkerAt("run")
  /\ hr = "handling"
  /\ hr' = "none"
  /\ irq_on' = TRUE
  /\ UNCHANGED <<hwvars, at_channel, timer_event, current, wpc, arg, when,
                 hist>>

-----------------------------------------------------------------------------

StartStep ==
  StartReadCounter \/ StartClearFlag \/ StartSetCompare \/ StartEnable

Next ==
  \/ Tick
  \/ UCPD_TIM_Handler
  \/ Snapshot
  \/ \E t \in Timers : UCPD_TIM_Start(t) \/ UCPD_TIM_Stop(t)
  \/ StartReadCounter
  \/ StartClearFlag
  \/ StartSetCompare
  \/ StartEnable
  \/ StopDisable
  \/ Finish
  \/ UCPD_PHY_HRDRS_Received
  \/ UCPD_ISR_HRD_Helper
  \/ UCPD_PHY_HRDRS_Completed

Spec == Init /\ [][Next]_vars

\* The counter runs, pending interrupts are taken, the worker runs when it is
\* pended, and its code does not stop half way: between two ticks there is time
\* for every step that is pending, so that a step enabled again and again is
\* taken.  What the handler starts or stops is not forced.
PendedSnapshot == (timer_event # NoEvent \/ hr = "posted") /\ Snapshot

Fairness ==
  /\ WF_vars(Tick)
  /\ WF_vars(UCPD_TIM_Handler)
  /\ SF_vars(PendedSnapshot)
  /\ SF_vars(StartStep)
  /\ SF_vars(StopDisable)
  /\ SF_vars(Finish)
  /\ SF_vars(UCPD_ISR_HRD_Helper)
  /\ SF_vars(UCPD_PHY_HRDRS_Completed)

FairSpec == Spec /\ Fairness

-----------------------------------------------------------------------------
\* Properties

\* A channel that has an owner has its compare interrupt enabled, unless the
\* worker is still inside UCPD_TIM_Start of that channel: no timer is owned by
\* software and silent in hardware.  (ucpd_tim.c:14-15 and :28-29)
OwnedChannelArmed ==
  \A c \in Channels :
    at_channel[c] # NoTimer => ccie[c] \/ Arming(c)

\* The period of an owner is kept exactly, across the wrap of the counter: its
\* interrupt is pending if and only if more than its period has elapsed since
\* UCPD_HW_Timer_Start read the counter, and until then the compare register is
\* the remaining time ahead.  The one exception is a match of the value being
\* replaced between LL_TIM_ClearFlag and LL_TIM_OC_SetCompare.
\* (ucpd_hw.c:567-573)
DeadlineExact ==
  \A c \in Channels :
    at_channel[c] # NoTimer /\ ~Arming(c) /\ ~raced[c] =>
      /\ ccif[c] <=> elapsed[c] > UCPD_TIMERS_PERIODS[at_channel[c]]
      /\ ~ccif[c] =>
           ccr[c] = Wrap(now + UCPD_TIMERS_PERIODS[at_channel[c]] + 1
                             - elapsed[c])

\* The interrupt ends the ownership of a timer before its period has elapsed in
\* one window only: while the worker is inside UCPD_TIM_Start of that channel,
\* or after the old compare value matched in it.  (ucpd_tim.c:14-15: the owner
\* is published before the hardware is reprogrammed)
ExpiresOnTime ==
  \A c \in Channels :
    /\ wpc' = wpc
    /\ at_channel[c] # NoTimer
    /\ at_channel'[c] = NoTimer
    => \/ elapsed[c] > UCPD_TIMERS_PERIODS[at_channel[c]]
       \/ Arming(c)
       \/ raced[c]
EarlyExpiryOnlyInStart == [][ExpiresOnTime]_vars

\* A timer that owns its channel does not own it for ever: it expires, is
\* stopped or is displaced, also when hard resets mask the timer interrupt.
OwnerEventuallyReleased ==
  \A t \in Timers : at_channel[Channel(t)] = t ~> at_channel[Channel(t)] # t
=============================================================================
