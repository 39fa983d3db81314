------------------------- MODULE UcpdTimersProofs -------------------------
(***************************************************************************)
(* Proofs about UcpdTimers for every set of timers, every assignment of    *)
(* channels and periods, and every width of the counter.                   *)
(***************************************************************************)
EXTENDS UcpdTimers, TLAPS

USE DEF Channel

(***************************************************************************)
(* What TypeOK lacks to be inductive: the worker has a timer in hand       *)
(* between the first and the last step of Start and Stop, and that timer   *)
(* or nobody owns its channel.                                             *)
(***************************************************************************)
ArgInHand ==
  wpc \in StartSteps \cup {"disable"} =>
    /\ arg \in Timers
    /\ at_channel[Channel(arg)] \in {arg, NoTimer}

TypeInv == TypeOK /\ ArgInHand

\* The counter arithmetic stays within the counter: the sum of a value of the
\* counter and at most one turn, wrapped, is a value of the counter.
LEMMA WrapType ==
  ASSUME NEW x \in Nat, x < 2 * COUNTER_MOD
  PROVE  Wrap(x) \in 0 .. COUNTER_MOD - 1
BY PeriodsAssumption DEF Wrap

\* The events a channel can post are events of the slot.
LEMMA EventOfType == ASSUME NEW t \in Timers \cup {NoTimer}
                     PROVE  EventOf(t) \in Events
BY DEF EventOf, Events

\* The initial state has the types.
LEMMA TypeInit == Init => TypeInv
BY ChannelsAssumption, PeriodsAssumption
   DEF Init, TypeInv, TypeOK, ArgInHand, Events, HrStages, WorkerPcs, StartSteps

\* Every step keeps the types.
LEMMA TypeStep == TypeInv /\ [Next]_vars => TypeInv'
<1> SUFFICES ASSUME TypeInv, [Next]_vars
             PROVE  TypeInv'
    OBVIOUS
<1> USE ChannelsAssumption, PeriodsAssumption
    DEF TypeInv, TypeOK, ArgInHand, HrStages, WorkerPcs, StartSteps, hwvars, hist
<1>1. CASE Tick
  <2>1. Wrap(now + 1) \in 0 .. COUNTER_MOD - 1
        BY WrapType
  <2> QED BY <1>1, <2>1 DEF Tick
<1>2. CASE UCPD_TIM_Handler
  <2>1. timer_event' \in Events
        BY <1>2, EventOfType DEF UCPD_TIM_Handler, Fired
  <2> QED BY <1>2, <2>1 DEF UCPD_TIM_Handler, Fired
<1>3. CASE Snapshot
      BY <1>3 DEF Snapshot, WorkerAt, Events
<1>4. ASSUME NEW t \in Timers, UCPD_TIM_Start(t)
      PROVE  TypeInv'
      BY <1>4 DEF UCPD_TIM_Start, WorkerAt
<1>5. ASSUME NEW t \in Timers, UCPD_TIM_Stop(t)
      PROVE  TypeInv'
      BY <1>5 DEF UCPD_TIM_Stop, WorkerAt
<1>6. CASE StartReadCounter
  <2>1. arg \in Timers
        BY <1>6 DEF StartReadCounter, WorkerAt
  <2>2. Wrap(now + UCPD_TIMERS_PERIODS[arg] + 1) \in 0 .. COUNTER_MOD - 1
        BY <2>1, WrapType
  <2> QED BY <1>6, <2>1, <2>2 DEF StartReadCounter, WorkerAt
<1>7. CASE StartClearFlag
      BY <1>7 DEF StartClearFlag, WorkerAt
<1>8. CASE StartSetCompare
      BY <1>8 DEF StartSetCompare, WorkerAt
<1>9. CASE StartEnable
      BY <1>9 DEF StartEnable, WorkerAt
<1>10. CASE StopDisable
       BY <1>10 DEF StopDisable, WorkerAt
<1>11. CASE Finish
       BY <1>11 DEF Finish, WorkerAt, Events
<1>12. CASE UCPD_PHY_HRDRS_Received
       BY <1>12 DEF UCPD_PHY_HRDRS_Received
<1>13. CASE UCPD_ISR_HRD_Helper
       BY <1>13 DEF UCPD_ISR_HRD_Helper, WorkerAt
<1>14. CASE UCPD_PHY_HRDRS_Completed
       BY <1>14 DEF UCPD_PHY_HRDRS_Completed, WorkerAt
<1>15. CASE UNCHANGED vars
       BY <1>15 DEF vars
<1> QED BY <1>1, <1>2, <1>3, <1>4, <1>5, <1>6, <1>7, <1>8, <1>9, <1>10,
           <1>11, <1>12, <1>13, <1>14, <1>15 DEF Next

\* Every state the timer service reaches has the declared types: in particular
\* the compare registers and `when` never leave the width of the counter.
THEOREM TypeCorrect == Spec => []TypeOK
<1>1. TypeInv => TypeOK
      BY DEF TypeInv
<1> QED BY <1>1, TypeInit, TypeStep, PTL DEF Spec

-----------------------------------------------------------------------------
(***************************************************************************)
(* OwnedChannelArmed is inductive with the types.                          *)
(***************************************************************************)
ArmedInv == TypeInv /\ OwnedChannelArmed

\* No channel has an owner at first.
LEMMA ArmedInit == Init => OwnedChannelArmed
BY DEF Init, OwnedChannelArmed

\* Every step keeps the owned channels armed.
LEMMA ArmedStep == ArmedInv /\ [Next]_vars => OwnedChannelArmed'
<1> SUFFICES ASSUME TypeInv, OwnedChannelArmed, [Next]_vars,
                    NEW c \in Channels, at_channel'[c] # NoTimer
             PROVE  ccie'[c] \/ Arming(c)'
    BY DEF ArmedInv, OwnedChannelArmed
<1> USE ChannelsAssumption
    DEF TypeInv, TypeOK, ArgInHand, OwnedChannelArmed, StartSteps, Arming,
        hwvars, hist
<1>1. CASE Tick
      BY <1>1 DEF Tick
<1>2. CASE UCPD_TIM_Handler
      BY <1>2 DEF UCPD_TIM_Handler
<1>3. CASE Snapshot
      BY <1>3 DEF Snapshot, WorkerAt
<1>4. ASSUME NEW t \in Timers, UCPD_TIM_Start(t)
      PROVE  ccie'[c] \/ Arming(c)'
      BY <1>4 DEF UCPD_TIM_Start, WorkerAt
<1>5. ASSUME NEW t \in Timers, UCPD_TIM_Stop(t)
      PROVE  ccie'[c] \/ Arming(c)'
      BY <1>5 DEF UCPD_TIM_Stop, WorkerAt
<1>6. CASE StartReadCounter
      BY <1>6 DEF StartReadCounter, WorkerAt
<1>7. CASE StartClearFlag
      BY <1>7 DEF StartClearFlag, WorkerAt
<1>8. CASE StartSetCompare
      BY <1>8 DEF StartSetCompare, WorkerAt
<1>9. CASE StartEnable
      BY <1>9 DEF StartEnable, WorkerAt
<1>10. CASE StopDisable
       BY <1>10 DEF StopDisable, WorkerAt
<1>11. CASE Finish
       BY <1>11 DEF Finish, WorkerAt
<1>12. CASE UCPD_PHY_HRDRS_Received
       BY <1>12 DEF UCPD_PHY_HRDRS_Received
<1>13. CASE UCPD_ISR_HRD_Helper
       BY <1>13 DEF UCPD_ISR_HRD_Helper, WorkerAt
<1>14. CASE UCPD_PHY_HRDRS_Completed
       BY <1>14 DEF UCPD_PHY_HRDRS_Completed, WorkerAt
<1>15. CASE UNCHANGED vars
       BY <1>15 DEF vars
<1> QED BY <1>1, <1>2, <1>3, <1>4, <1>5, <1>6, <1>7, <1>8, <1>9, <1>10,
           <1>11, <1>12, <1>13, <1>14, <1>15 DEF Next

\* No timer is owned by software and silent in hardware: the interrupt of an
\* owned channel is enabled except inside UCPD_TIM_Start of that channel.
THEOREM ArmedCorrect == Spec => []OwnedChannelArmed
<1>1. Init => ArmedInv
      BY TypeInit, ArmedInit DEF ArmedInv
<1>2. ArmedInv /\ [Next]_vars => ArmedInv'
      BY TypeStep, ArmedStep DEF ArmedInv
<1>3. ArmedInv => OwnedChannelArmed
      BY DEF ArmedInv
<1> QED BY <1>1, <1>2, <1>3, PTL DEF Spec

-----------------------------------------------------------------------------
(***************************************************************************)
(* DeadlineExact says nothing about the channel being reprogrammed, so the *)
(* induction follows UCPD_HW_Timer_Start through its steps.  On(c, p) is   *)
(* what DeadlineExact says of a channel with period p.                     *)
(***************************************************************************)
On(c, p) ==
  /\ ccif[c] <=> elapsed[c] > p
  /\ ~ccif[c] => ccr[c] = Wrap(now + p + 1 - elapsed[c])

\* `when` is the deadline until the compare register holds it: at most one tick
\* has gone by.
WhenFresh ==
  wpc \in {"clear", "compare"} =>
    /\ elapsed[Channel(arg)] \in {0, 1}
    /\ when = Wrap(now + UCPD_TIMERS_PERIODS[arg] + 1 - elapsed[Channel(arg)])

\* Between LL_TIM_ClearFlag and LL_TIM_OC_SetCompare only a match of the old
\* value raises the flag.
FlagClear ==
  wpc = "compare" /\ ~raced[Channel(arg)] => ~ccif[Channel(arg)]

\* From LL_TIM_OC_SetCompare on the channel keeps its deadline.
AboutToEnable ==
  /\ wpc = "enable"
  /\ ~raced[Channel(arg)]
  /\ at_channel[Channel(arg)] # NoTimer
  => On(Channel(arg), UCPD_TIMERS_PERIODS[arg])

DeadlineInv ==
  TypeInv /\ DeadlineExact /\ WhenFresh /\ FlagClear /\ AboutToEnable

\* Adding one before or after wrapping is the same; two offsets within a turn
\* of the counter give the same value only if they are equal.
LEMMA WrapNext ==
  ASSUME NEW x \in 0 .. COUNTER_MOD - 1, NEW k \in 1 .. COUNTER_MOD - 1
  PROVE  /\ Wrap(Wrap(x + 1) + k - 1) = Wrap(x + k)
         /\ Wrap(x + 1) = Wrap(x + k) <=> k = 1
         /\ Wrap(x + 0) = x
BY PeriodsAssumption DEF Wrap

\* A tick keeps the deadline of a channel that runs a period p: the flag rises
\* exactly when the period is over.
LEMMA TickKeepsDeadline ==
  ASSUME TypeOK, Tick, NEW c \in Channels, NEW p \in Nat,
         p >= 1, p + 1 < COUNTER_MOD, On(c, p)
  PROVE  On(c, p)'
<1> USE PeriodsAssumption DEF TypeOK
<1> DEFINE k == p + 1 - elapsed[c]
<1>1. elapsed[c] \in 0 .. COUNTER_MOD /\ ccif[c] \in BOOLEAN
      OBVIOUS
<1>2. /\ now' = Wrap(now + 1)
      /\ ccif'[c] <=> ccif[c] \/ ccr[c] = Wrap(now + 1)
      /\ elapsed'[c] = IF elapsed[c] < COUNTER_MOD THEN elapsed[c] + 1
                                                   ELSE elapsed[c]
      /\ ccr' = ccr
      BY DEF Tick
<1>3. CASE ccif[c]
  <2>1. elapsed[c] > p /\ ccif'[c]
        BY <1>2, <1>3 DEF On
  <2>2. elapsed'[c] > p
        BY <1>1, <1>2, <2>1
  <2> QED BY <2>1, <2>2 DEF On
<1>4. CASE ~ccif[c]
  <2>1. elapsed[c] <= p /\ ccr[c] = Wrap(now + p + 1 - elapsed[c])
        BY <1>1, <1>4 DEF On
  <2>2. k \in 1 .. COUNTER_MOD - 1 /\ ccr[c] = Wrap(now + k)
        BY <1>1, <2>1
  <2>3. elapsed'[c] = elapsed[c] + 1
        BY <1>1, <1>2, <2>1
  <2>4. ccif'[c] <=> k = 1
        BY <1>2, <1>4, <2>2, WrapNext
  <2>5. ccif'[c] <=> elapsed'[c] > p
        BY <1>1, <2>1, <2>3, <2>4
  <2>6. Wrap(now' + k - 1) = ccr'[c]
        BY <1>2, <2>2, WrapNext
  <2>7. k - 1 = p + 1 - elapsed'[c]
        BY <1>1, <2>3
  <2>8. Wrap(now' + p + 1 - elapsed'[c]) = ccr'[c]
    <3>1. now' + k - 1 = now' + p + 1 - elapsed'[c]
          BY <1>1, <2>3, <1>2, WrapType
    <3> QED BY <2>6, <3>1
  <2> QED BY <2>5, <2>8 DEF On
<1> QED BY <1>1, <1>3, <1>4

\* All flags and registers are low and no channel has an owner at first.
LEMMA DeadlineInit == Init => DeadlineInv
BY TypeInit
   DEF DeadlineInv, Init, DeadlineExact, WhenFresh, FlagClear, AboutToEnable

\* A tick: channels keep their deadlines, and the one being reprogrammed sees
\* at most one tick before its compare register is written.
LEMMA DeadlineTick ==
  ASSUME DeadlineInv, Tick
  PROVE  DeadlineExact' /\ WhenFresh' /\ FlagClear' /\ AboutToEnable'
<1> USE PeriodsAssumption, ChannelsAssumption DEF DeadlineInv, TypeInv, TypeOK
<1>0. /\ UNCHANGED <<ccr, at_channel, wpc, arg, when>>
      /\ now' = Wrap(now + 1)
      /\ \A c \in Channels : raced[c] => raced'[c]
      BY DEF Tick
<1>1. DeadlineExact'
  <2> SUFFICES ASSUME NEW c \in Channels,
                      at_channel[c] # NoTimer, ~Arming(c), ~raced'[c]
               PROVE  On(c, UCPD_TIMERS_PERIODS[at_channel[c]])'
      BY <1>0 DEF DeadlineExact, On, Arming
  <2>1. On(c, UCPD_TIMERS_PERIODS[at_channel[c]])
        BY <1>0 DEF DeadlineExact, On
  <2>2. at_channel[c] \in Timers
        OBVIOUS
  <2>3. On(c, UCPD_TIMERS_PERIODS[at_channel[c]])'
    <3> DEFINE p == UCPD_TIMERS_PERIODS[at_channel[c]]
    <3>1. p \in Nat /\ p >= 1 /\ p + 1 < COUNTER_MOD /\ On(c, p)
          BY <2>1, <2>2
    <3>2. p' = p
          BY <1>0
    <3> HIDE DEF p
    <3>3. (ccif'[c] <=> elapsed'[c] > p)
          /\ (~ccif'[c] => ccr'[c] = Wrap(now' + p + 1 - elapsed'[c]))
          BY <3>1, TickKeepsDeadline DEF On
    <3>4. UCPD_TIMERS_PERIODS[at_channel'[c]] = p
          BY <1>0 DEF p
    <3> QED BY <3>3, <3>4 DEF On
  <2> QED BY <2>3
<1>2. WhenFresh'
  <2> SUFFICES ASSUME wpc \in {"clear", "compare"}
               PROVE  /\ elapsed'[Channel(arg)] \in {0, 1}
                      /\ when = Wrap(now' + UCPD_TIMERS_PERIODS[arg] + 1
                                          - elapsed'[Channel(arg)])
      BY <1>0 DEF WhenFresh
  <2> DEFINE p == UCPD_TIMERS_PERIODS[arg]
             c == Channel(arg)
  <2>1. arg \in Timers /\ c \in Channels /\ p \in Nat /\ p >= 1
        /\ p + 1 < COUNTER_MOD
        BY DEF ArgInHand, StartSteps
  <2>2. elapsed[c] \in {0, 1} /\ when = Wrap(now + p + 1 - elapsed[c])
        BY DEF WhenFresh
  <2>3. when = Wrap(now + p + 1)
        BY DEF Tick, ArmWindow
  <2>4. elapsed[c] = 0
        BY <2>1, <2>2, <2>3 DEF Wrap
  <2>5. elapsed'[c] = 1
        BY <2>1, <2>4 DEF Tick
  <2>6. Wrap(now' + (p + 1) - 1) = Wrap(now + (p + 1))
    <3>1. now \in 0 .. COUNTER_MOD - 1 /\ p + 1 \in 1 .. COUNTER_MOD - 1
          BY <2>1
    <3> HIDE DEF p
    <3> QED BY <1>0, <3>1, WrapNext
  <2>7. now' \in Int
        BY <1>0, WrapType
  <2>8. Wrap(now' + p + 1 - 1) = Wrap(now + p + 1)
        BY <2>1, <2>6, <2>7
  <2> QED BY <2>3, <2>5, <2>8
<1>3. FlagClear'
  <2> SUFFICES ASSUME wpc = "compare", ~raced'[Channel(arg)]
               PROVE  ~ccif'[Channel(arg)]
      BY <1>0 DEF FlagClear
  <2>1. arg \in Timers /\ Channel(arg) \in Channels
        BY DEF ArgInHand, StartSteps
  <2>2. ~raced[Channel(arg)] /\ ~ccif[Channel(arg)]
        BY <1>0, <2>1 DEF FlagClear
  <2>3. ccr[Channel(arg)] # Wrap(now + 1)
        BY <2>1 DEF Tick, Arming, StartSteps
  <2> QED BY <2>1, <2>2, <2>3 DEF Tick
<1>4. AboutToEnable'
  <2> SUFFICES ASSUME wpc = "enable", ~raced'[Channel(arg)],
                      at_channel[Channel(arg)] # NoTimer
               PROVE  On(Channel(arg), UCPD_TIMERS_PERIODS[arg])'
      BY <1>0 DEF AboutToEnable
  <2> DEFINE p == UCPD_TIMERS_PERIODS[arg]
             c == Channel(arg)
  <2>1. arg \in Timers /\ c \in Channels /\ p \in Nat /\ p >= 1
        /\ p + 1 < COUNTER_MOD
        BY DEF ArgInHand, StartSteps
  <2>2. On(c, p)
        BY <1>0, <2>1 DEF AboutToEnable, On
  <2>3. p' = p /\ c' = c
        BY <1>0
  <2> HIDE DEF p, c
  <2>4. (ccif'[c] <=> elapsed'[c] > p)
        /\ (~ccif'[c] => ccr'[c] = Wrap(now' + p + 1 - elapsed'[c]))
        BY <2>1, <2>2, TickKeepsDeadline DEF On
  <2>5. On(c, p)'
        BY <2>3, <2>4 DEF On
  <2> QED BY <2>5 DEF p, c
<1> QED BY <1>1, <1>2, <1>3, <1>4

\* The steps of the worker inside UCPD_HW_Timer_Start hand the deadline from
\* `when` to the compare register.
LEMMA DeadlineStart ==
  ASSUME DeadlineInv, StartStep
  PROVE  DeadlineExact' /\ WhenFresh' /\ FlagClear' /\ AboutToEnable'
<1> USE PeriodsAssumption, ChannelsAssumption
    DEF DeadlineInv, TypeInv, TypeOK, ArgInHand, StartSteps, WorkerAt, hwvars,
        hist
<1> DEFINE ch == Channel(arg)
           per == UCPD_TIMERS_PERIODS[arg]
<1>0. /\ arg \in Timers /\ ch \in Channels /\ at_channel[ch] \in {arg, NoTimer}
      /\ per \in Nat /\ per >= 1 /\ per + 1 < COUNTER_MOD
      BY DEF StartStep, StartReadCounter, StartClearFlag, StartSetCompare,
             StartEnable
<1>1. CASE StartReadCounter
  <2>1. Arming(ch) /\ (\A c \in Channels : Arming(c)' <=> c = ch)
        BY <1>1 DEF StartReadCounter, Arming
  <2>2. DeadlineExact'
        BY <1>1, <2>1 DEF StartReadCounter, DeadlineExact, Arming
  <2>3. WhenFresh'
        BY <1>0, <1>1 DEF StartReadCounter, WhenFresh
  <2> QED BY <1>1, <2>2, <2>3 DEF StartReadCounter, FlagClear, AboutToEnable
<1>2. CASE StartClearFlag
  <2>1. Arming(ch) /\ (\A c \in Channels : Arming(c)' <=> c = ch)
        BY <1>2 DEF StartClearFlag, Arming
  <2>2. DeadlineExact'
        BY <1>2, <2>1 DEF StartClearFlag, DeadlineExact, Arming
  <2>3. WhenFresh'
        BY <1>2 DEF StartClearFlag, WhenFresh
  <2>4. FlagClear'
        BY <1>0, <1>2 DEF StartClearFlag, FlagClear
  <2> QED BY <1>2, <2>2, <2>3, <2>4 DEF StartClearFlag, AboutToEnable
<1>3. CASE StartSetCompare
  <2>1. Arming(ch) /\ (\A c \in Channels : Arming(c)' <=> c = ch)
        BY <1>3 DEF StartSetCompare, Arming
  <2>2. DeadlineExact'
        BY <1>3, <2>1 DEF StartSetCompare, DeadlineExact, Arming
  <2>3. elapsed[ch] \in {0, 1} /\ when = Wrap(now + per + 1 - elapsed[ch])
        BY <1>3 DEF StartSetCompare, WhenFresh
  <2>4. ccr'[ch] = when
        BY <1>0, <1>3 DEF StartSetCompare
  <2>5. ~raced[ch] => ~ccif[ch]
        BY <1>3 DEF StartSetCompare, FlagClear
  <2>6. AboutToEnable'
        BY <1>0, <1>3, <2>3, <2>4, <2>5
        DEF StartSetCompare, AboutToEnable, On
  <2> QED BY <1>3, <2>2, <2>6 DEF StartSetCompare, WhenFresh, FlagClear
<1>4. CASE StartEnable
  <2>1. /\ ~raced[ch] /\ at_channel[ch] # NoTimer
        => On(ch, per) /\ at_channel[ch] = arg
        BY <1>0, <1>4 DEF StartEnable, AboutToEnable
  <2>2. \A c \in Channels : Arming(c) <=> c = ch
        BY <1>4 DEF StartEnable, Arming
  <2>3. DeadlineExact'
        BY <1>4, <2>1, <2>2 DEF StartEnable, DeadlineExact, Arming, On
  <2> QED BY <1>4, <2>3 DEF StartEnable, WhenFresh, FlagClear, AboutToEnable
<1> QED BY <1>1, <1>2, <1>3, <1>4 DEF StartStep

\* Every step keeps the deadlines.
LEMMA DeadlineStep == DeadlineInv /\ [Next]_vars => DeadlineInv'
<1> SUFFICES ASSUME DeadlineInv, [Next]_vars
             PROVE  DeadlineExact' /\ WhenFresh' /\ FlagClear' /\ AboutToEnable'
    BY TypeStep DEF DeadlineInv
<1> USE PeriodsAssumption, ChannelsAssumption
    DEF DeadlineInv, TypeInv, TypeOK, ArgInHand, StartSteps, hwvars, hist,
        DeadlineExact, WhenFresh, FlagClear, AboutToEnable, Arming, On
<1>1. CASE Tick
      BY <1>1, DeadlineTick
<1>2. CASE UCPD_TIM_Handler
  <2>1. \A c \in Channels :
          at_channel'[c] # NoTimer =>
            at_channel'[c] = at_channel[c] /\ ccif'[c] = ccif[c]
        BY <1>2 DEF UCPD_TIM_Handler
  <2>2. \A c \in Channels : ccif'[c] => ccif[c]
        BY <1>2 DEF UCPD_TIM_Handler
  <2> QED BY <1>2, <2>1, <2>2 DEF UCPD_TIM_Handler
<1>3. CASE Snapshot
      BY <1>3 DEF Snapshot, WorkerAt
<1>4. ASSUME NEW t \in Timers, UCPD_TIM_Start(t)
      PROVE  DeadlineExact' /\ WhenFresh' /\ FlagClear' /\ AboutToEnable'
      BY <1>4 DEF UCPD_TIM_Start, WorkerAt
<1>5. ASSUME NEW t \in Timers, UCPD_TIM_Stop(t)
      PROVE  DeadlineExact' /\ WhenFresh' /\ FlagClear' /\ AboutToEnable'
      BY <1>5 DEF UCPD_TIM_Stop, WorkerAt
<1>6. CASE StartStep
      BY <1>6, DeadlineStart
<1>7. CASE StopDisable
      BY <1>7 DEF StopDisable, WorkerAt
<1>8. CASE Finish
      BY <1>8 DEF Finish, WorkerAt
<1>9. CASE UCPD_PHY_HRDRS_Received
      BY <1>9 DEF UCPD_PHY_HRDRS_Received
<1>10. CASE UCPD_ISR_HRD_Helper
       BY <1>10 DEF UCPD_ISR_HRD_Helper, WorkerAt
<1>11. CASE UCPD_PHY_HRDRS_Completed
       BY <1>11 DEF UCPD_PHY_HRDRS_Completed, WorkerAt
<1>12. CASE UNCHANGED vars
       BY <1>12 DEF vars
<1> QED BY <1>1, <1>2, <1>3, <1>4, <1>5, <1>6, <1>7, <1>8, <1>9, <1>10,
           <1>11, <1>12 DEF Next, StartStep

\* The period of every timer is kept to the tick for every width of the counter
\* and across its wrap, unless the compare value being replaced matched.
THEOREM DeadlineCorrect == Spec => []DeadlineExact
<1>1. DeadlineInv => DeadlineExact
      BY DEF DeadlineInv
<1> QED BY <1>1, DeadlineInit, DeadlineStep, PTL DEF Spec

\* An interrupt ends an ownership early in one window only.
LEMMA EarlyExpiryStep ==
  ASSUME DeadlineInv, [Next]_vars, NEW c \in Channels,
         wpc' = wpc, at_channel[c] # NoTimer, at_channel'[c] = NoTimer
  PROVE  \/ elapsed[c] > UCPD_TIMERS_PERIODS[at_channel[c]]
         \/ Arming(c)
         \/ raced[c]
<1> USE ChannelsAssumption, PeriodsAssumption DEF DeadlineInv, TypeInv, TypeOK
<1>1. CASE UCPD_TIM_Handler
  <2>1. ccif[c]
        BY <1>1 DEF UCPD_TIM_Handler, Fired
  <2> QED BY <2>1 DEF DeadlineExact
<1>2. CASE at_channel' = at_channel
      BY <1>2
<1>3. CASE \E t \in Timers : UCPD_TIM_Start(t)
      BY <1>3 DEF UCPD_TIM_Start, WorkerAt
<1>4. CASE StopDisable
      BY <1>4 DEF StopDisable, WorkerAt
<1> QED BY <1>1, <1>2, <1>3, <1>4
        DEF Next, Tick, Snapshot, UCPD_TIM_Stop, StartReadCounter,
            StartClearFlag, StartSetCompare, StartEnable, Finish,
            UCPD_PHY_HRDRS_Received, UCPD_ISR_HRD_Helper,
            UCPD_PHY_HRDRS_Completed, hwvars, hist, vars

\* The interrupt never takes a channel from its owner before the period is over,
\* except in the window that UCPD_TIM_Start leaves open.
THEOREM NoEarlyExpiry == Spec => EarlyExpiryOnlyInStart
<1>1. DeadlineInv /\ [Next]_vars => ExpiresOnTime
      BY EarlyExpiryStep DEF ExpiresOnTime
<1> QED BY <1>1, DeadlineInit, DeadlineStep, PTL
        DEF Spec, EarlyExpiryOnlyInStart
===========================================================================
