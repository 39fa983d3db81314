------------------------- MODULE UcpdMailboxProofs -------------------------
(***************************************************************************)
(* Proofs about UcpdMailbox: its type invariant, that the worker erases no *)
(* timer or VBUS event, and that a hard reset of the partner is delivered  *)
(* as long as the policy engine requests none of its own.                  *)
(***************************************************************************)
EXTENDS UcpdMailbox, TLAPS

-----------------------------------------------------------------------------
\* Types

LEMMA EmptySlots == Empty \in Slots
  BY DEF Empty, Slots

\* Writing one event to the slots or to their copy.
LEMMA SlotWrites ==
  ASSUME NEW s \in Slots
  PROVE  /\ \A e \in PhyEvents \cup {NONE} : [s EXCEPT !.phy = e] \in Slots
         /\ \A e \in PwrEvents \cup {NONE} : [s EXCEPT !.pwr = e] \in Slots
         /\ \A e \in TimerEvents \cup {NONE} : [s EXCEPT !.timer = e] \in Slots
  BY DEF Slots

\* Erasing what the handler has dealt with.
LEMMA SlotErasures ==
  ASSUME NEW s \in Slots
  PROVE  /\ [s EXCEPT !.phy = NONE, !.timer = NONE] \in Slots
         /\ [s EXCEPT !.timer = NONE,
                      !.phy = IF @ = "HRD_SENT" THEN NONE ELSE @] \in Slots
  BY DEF Slots

LEMMA InitTypeOK == Init => TypeOK
  BY EmptySlots DEF Init, TypeOK, WorkerPcs, HelperPcs

LEMMA LineTypeOK == TypeOK /\ Line => TypeOK'
  BY SwitchesAssumption
     DEF TypeOK, Line, LineRxStart, LineRxEnd, LineTxEnd, LineHardReset,
         LineTypeC, Raise, flags, NORMAL_MASK

LEMMA MaskTypes == PHY_WORKER_MASK \subseteq NORMAL_MASK
  BY DEF PHY_WORKER_MASK, NORMAL_MASK

LEMMA PhyTypeOK == TypeOK /\ UCPD_PHY_Handler => TypeOK'
  <1> SUFFICES ASSUME TypeOK, UCPD_PHY_Handler PROVE TypeOK'
    OBVIOUS
  <1>1. /\ sr' \subseteq NORMAL_MASK
        /\ UNCHANGED <<line, vbus, timers, nvic, current, attached, wpc, hpc>>
    BY DEF UCPD_PHY_Handler, TypeOK
  <1>0. /\ [slot EXCEPT !.phy = "HRD_SENT"] \in Slots
        /\ [slot EXCEPT !.phy = "OTHER_EVENT"] \in Slots
    BY SlotWrites DEF TypeOK, PhyEvents
  <1> USE <1>0 DEF TypeOK
  <1>2. CASE PhyTypeC
    BY <1>1, <1>2 DEF PhyTypeC, PostPhy, flags
  <1>3. CASE PhyHrstSent
    BY <1>1, <1>3 DEF PhyHrstSent, PostPhy, flags
  <1>4. CASE UCPD_PHY_HRDRS_Received
    BY <1>1, <1>4, MaskTypes DEF UCPD_PHY_HRDRS_Received, INT_SET
  <1>5. CASE UCPD_PHY_TX_Discarded
    BY <1>1, <1>5 DEF UCPD_PHY_TX_Discarded, PostPhy, flags
  <1>6. CASE UCPD_PHY_TX_Complete
    BY <1>1, <1>6 DEF UCPD_PHY_TX_Complete, PostPhy
  <1>7. CASE UCPD_PHY_RX_Started
    BY <1>1, <1>7 DEF UCPD_PHY_RX_Started
  <1>8. CASE UCPD_PHY_RX_Complete
    BY <1>1, <1>8 DEF UCPD_PHY_RX_Complete, PostPhy
  <1> QED
    BY <1>2, <1>3, <1>4, <1>5, <1>6, <1>7, <1>8 DEF UCPD_PHY_Handler

LEMMA TimerTypeOK == TypeOK /\ UCPD_TIM_Expired => TypeOK'
  BY SlotWrites DEF TypeOK, UCPD_TIM_Expired, phy, flags

LEMMA PwrTypeOK == TypeOK /\ UCPD_PWR_SM_Delta => TypeOK'
  <1> SUFFICES ASSUME TypeOK, UCPD_PWR_SM_Delta PROVE TypeOK'
    OBVIOUS
  <1>1. /\ [slot EXCEPT !.pwr = "VBUS_REMOVED"] \in Slots
        /\ [slot EXCEPT !.pwr = "VBUS_DETECTED"] \in Slots
    BY SlotWrites DEF TypeOK, PwrEvents
  <1>2. slot' \in Slots
    <2>1. CASE vbus
      BY <1>1, <2>1 DEF UCPD_PWR_SM_Delta
    <2>2. CASE ~vbus
      BY <1>1, <2>2 DEF UCPD_PWR_SM_Delta
    <2> QED
      BY <2>1, <2>2
  <1> QED
    BY <1>2 DEF TypeOK, UCPD_PWR_SM_Delta, phy, flags

\* What React does keeps the types of the variables it changes.
ReactTypes ==
  /\ line' \in {"free", "tx", "rx", "hrst"}
  /\ timers' \subseteq TimerEvents
  /\ hardResetActive' \in BOOLEAN
  /\ hrdOriginPE' \in BOOLEAN
  /\ txAllowed' \in BOOLEAN

LEMMA ReactTypeOK == TypeOK /\ React => ReactTypes
  BY DEF TypeOK, React, ReactTypes, UCPD_PHY_SendMessage, RequestHardReset,
         TimerEvents, flags

\* An attach keeps the types of the variables it changes.
AttachTypes ==
  /\ imr' \subseteq NORMAL_MASK
  /\ line' \in {"free", "tx", "rx", "hrst"}
  /\ timers' \subseteq TimerEvents
  /\ slot' \in Slots /\ current' \in Slots
  /\ attached' \in BOOLEAN /\ owed' \in BOOLEAN
  /\ hardResetActive' \in BOOLEAN /\ hrdOriginPE' \in BOOLEAN
  /\ txAllowed' \in BOOLEAN

LEMMA AttachTypeOK == TypeOK /\ Attach => AttachTypes
  BY EmptySlots DEF TypeOK, Attach, AttachTypes, INT_SET, TimerEvents

LEMMA WorkerTypeOK == TypeOK /\ Worker => TypeOK'
  <1> SUFFICES ASSUME TypeOK, Worker PROVE TypeOK'
    OBVIOUS
  <1>1. CASE WorkerEnter
    BY <1>1 DEF TypeOK, WorkerEnter, INT_SET, NORMAL_MASK, PHY_WORKER_MASK,
                WorkerPcs, flags
  <1>2. CASE WorkerRead
    BY <1>2 DEF TypeOK, WorkerRead, WorkerPcs, phy, flags
  <1>3. CASE WorkerClear
    BY <1>3, EmptySlots DEF TypeOK, WorkerClear, WorkerPcs, phy, flags
  <1>4. CASE WorkerGate
    BY <1>4, SlotWrites
       DEF TypeOK, WorkerGate, INT_SET, WorkerPcs, flags, Irqs, Masked
  <1>5. CASE HandlePwr
    <2>1. CASE Detach
      BY <1>5, <2>1, EmptySlots
         DEF TypeOK, HandlePwr, Detach, WorkerPcs, flags, NORMAL_MASK
    <2>2. CASE Attach
      BY <1>5, <2>2, AttachTypeOK
         DEF TypeOK, HandlePwr, AttachTypes, WorkerPcs
    <2>3. CASE ~Detach /\ ~Attach
      BY <1>5, <2>3, SlotWrites
         DEF TypeOK, HandlePwr, WorkerPcs, flags, TimerEvents
    <2> QED
      BY <2>1, <2>2, <2>3
  <1>6. CASE HandleHrd
    <2>1. CASE Completed
      BY <1>6, <2>1, SlotErasures
         DEF TypeOK, HandleHrd, Completed, WorkerPcs, flags, Irqs, Masked,
             TimerEvents
    <2>2. CASE ~Completed
      BY <1>6, <2>2, SlotErasures
         DEF TypeOK, HandleHrd, WorkerPcs, flags, TimerEvents
    <2> QED
      BY <2>1, <2>2
  <1>7. CASE HandleTimer
    <2>1. CASE current.timer = "HARD_RESET_TIMEOUT"
      <3>1. /\ current' \in Slots
            /\ HardResetDone
            /\ UNCHANGED <<imr, line, slot, attached, owed>>
        BY <1>7, <2>1, SlotErasures DEF TypeOK, HandleTimer, NONE
      <3> QED
        BY <1>7, <3>1
           DEF TypeOK, HandleTimer, HardResetDone, Completed, WorkerPcs, Irqs,
               Masked
    <2>2. CASE current.timer = "OTHER_TIMEOUT" /\ Attach
      BY <1>7, <2>2, AttachTypeOK
         DEF TypeOK, HandleTimer, AttachTypes, WorkerPcs, NONE
    <2>3. CASE current.timer = "OTHER_TIMEOUT" /\ ~Attach
      <3>1. /\ current' \in Slots
            /\ React
            /\ UNCHANGED <<imr, nvic, slot, attached, owed>>
        BY <1>7, <2>3, SlotWrites DEF TypeOK, HandleTimer, NONE
      <3> QED
        BY <1>7, <3>1, ReactTypeOK
           DEF TypeOK, HandleTimer, ReactTypes, WorkerPcs
    <2>4. CASE current.timer \notin {"HARD_RESET_TIMEOUT", "OTHER_TIMEOUT"}
      BY <1>7, <2>4 DEF TypeOK, HandleTimer, WorkerPcs, flags
    <2> QED
      BY <2>1, <2>2, <2>3, <2>4
  <1>8. CASE HandlePhy
    <2>1. ReactTypes
      BY <1>8, ReactTypeOK
         DEF TypeOK, HandlePhy, ReactTypes, HardResetDone, Completed, flags,
             TimerEvents
    <2> QED
      BY <1>8, <2>1, SlotWrites
         DEF TypeOK, HandlePhy, ReactTypes, HardResetDone, Completed, WorkerPcs,
             Irqs, Masked
  <1>9. CASE HandleDpm
    BY <1>9, ReactTypeOK DEF TypeOK, HandleDpm, ReactTypes, WorkerPcs
  <1> QED
    BY <1>1, <1>2, <1>3, <1>4, <1>5, <1>6, <1>7, <1>8, <1>9 DEF Worker

LEMMA HelperTypeOK == TypeOK /\ Helper => TypeOK'
  <1> SUFFICES ASSUME TypeOK, Helper PROVE TypeOK'
    OBVIOUS
  <1>1. CASE HelperEnter
    BY <1>1 DEF TypeOK, HelperEnter, HelperPcs, phy, flags
  <1>2. CASE HelperBlock
    BY <1>2 DEF TypeOK, HelperBlock, HelperPcs, phy, flags
  <1>3. CASE HelperUnblock
    BY <1>3 DEF TypeOK, HelperUnblock, HelperPcs, Irqs, Masked, phy, flags
  <1>4. CASE HelperPost
    <2>1. [slot EXCEPT !.phy = "HRD_RECEIVED"] \in Slots
      BY SlotWrites DEF TypeOK, PhyEvents
    <2> QED
      BY <1>4, <2>1 DEF TypeOK, HelperPost, PostPhy, HelperPcs, phy, flags
  <1> QED
    BY <1>1, <1>2, <1>3, <1>4 DEF Helper

LEMMA NextTypeOK == TypeOK /\ [Next]_vars => TypeOK'
  <1> SUFFICES ASSUME TypeOK, [Next]_vars PROVE TypeOK'
    OBVIOUS
  <1>1. CASE UNCHANGED vars
    BY <1>1 DEF TypeOK, vars
  <1> QED
    BY <1>1, LineTypeOK, PhyTypeOK, TimerTypeOK, PwrTypeOK, WorkerTypeOK,
       HelperTypeOK DEF Next

\* Type correctness of the mailbox, whatever happens on the line and to VBUS.
THEOREM TypeCorrect == Spec => []TypeOK
  <1>1. Init => TypeOK
    BY InitTypeOK
  <1>2. TypeOK /\ [Next]_vars => TypeOK'
    BY NextTypeOK
  <1> QED
    BY <1>1, <1>2, PTL DEF Spec

-----------------------------------------------------------------------------
\* The copy of the slots.  While the worker copies and clears them the timers and
\* the ADC are masked.

MaskedInSnapshot == wpc \in {"read", "clear"} => nvic \cap {"TIM", "ADC"} = {}

SnapshotInv == TypeOK /\ MaskedInSnapshot /\ SnapshotKeepsEvents

LEMMA NextSnapshot == SnapshotInv /\ [Next]_vars => SnapshotInv'
  <1> SUFFICES ASSUME SnapshotInv, [Next]_vars
               PROVE  MaskedInSnapshot' /\ SnapshotKeepsEvents'
    BY NextTypeOK DEF SnapshotInv
  <1> USE DEF SnapshotInv, MaskedInSnapshot, SnapshotKeepsEvents
  <1>1. CASE UNCHANGED vars
    BY <1>1 DEF vars
  <1>2. CASE Line
    BY <1>2 DEF Line, LineRxStart, LineRxEnd, LineTxEnd, LineHardReset, LineTypeC
  <1>3. CASE UCPD_PHY_Handler
    <2>1. slot' = slot \/ \E e \in PhyEvents : slot' = [slot EXCEPT !.phy = e]
      BY <1>3 DEF UCPD_PHY_Handler, PhyTypeC, PhyHrstSent,
                  UCPD_PHY_HRDRS_Received, UCPD_PHY_TX_Discarded,
                  UCPD_PHY_TX_Complete, UCPD_PHY_RX_Started,
                  UCPD_PHY_RX_Complete, PostPhy, PhyEvents
    <2>2. slot'.timer = slot.timer /\ slot'.pwr = slot.pwr
      BY <2>1 DEF TypeOK, Slots
    <2> QED
      BY <1>3, <2>2 DEF UCPD_PHY_Handler
  <1>4. CASE UCPD_TIM_Expired
    BY <1>4 DEF UCPD_TIM_Expired
  <1>5. CASE UCPD_PWR_SM_Delta
    BY <1>5 DEF UCPD_PWR_SM_Delta
  <1>6. CASE Worker
    BY <1>6 DEF Worker, WorkerEnter, WorkerRead, WorkerClear, WorkerGate,
                HandlePwr, HandleHrd, HandleTimer, HandlePhy, HandleDpm
  <1>7. CASE Helper
    BY <1>7 DEF Helper, HelperEnter, HelperBlock, HelperUnblock, HelperPost,
                WorkerOff
  <1> QED
    BY <1>1, <1>2, <1>3, <1>4, <1>5, <1>6, <1>7 DEF Next

\* The worker erases no timer event and no VBUS event that it has not copied.
THEOREM SnapshotCorrect == Spec => []SnapshotKeepsEvents
  <1>1. Init => SnapshotInv
    BY InitTypeOK DEF Init, SnapshotInv, MaskedInSnapshot, SnapshotKeepsEvents
  <1>2. SnapshotInv /\ [Next]_vars => SnapshotInv'
    BY NextSnapshot
  <1>3. SnapshotInv => SnapshotKeepsEvents
    BY DEF SnapshotInv
  <1> QED
    BY <1>1, <1>2, <1>3, PTL DEF Spec

-----------------------------------------------------------------------------
\* The hard reset.  Without hard resets of the policy engine only the handling of
\* HRD_RECEIVED unmasks the PHY, so that no PHY event can replace HRD_RECEIVED
\* between the masking by the helper and that handling.

\* Nothing of a hard reset of the policy engine is about.
NoPEReset ==
  /\ ~hrdOriginPE
  /\ line # "hrst" /\ "HRSTSENT" \notin sr
  /\ "HARD_RESET_TIMEOUT" \notin timers
  /\ slot.timer # "HARD_RESET_TIMEOUT" /\ current.timer # "HARD_RESET_TIMEOUT"
  /\ slot.phy # "HRD_SENT" /\ current.phy # "HRD_SENT"

\* The helper keeps the worker off between its lines 129 and 133.
WorkerBlocked ==
  /\ "WORKER" \in nvic <=> hpc \notin {"block", "unblock"}
  /\ hpc \in {"block", "unblock"} => wpc = "idle"

\* Where HRD_RECEIVED can be found.
WhereReceived ==
  /\ slot.phy = "HRD_RECEIVED" =>
       /\ hpc = "idle"
       /\ \/ wpc = "idle" /\ "WORKER" \in pending
          \/ wpc \in {"read", "clear"}
  /\ current.phy = "HRD_RECEIVED" =>
       hpc = "idle" /\ wpc \in {"clear", "gate", "pwr", "hrd"}
  /\ slot.phy = "HRD_RECEIVED" /\ wpc = "clear" => current.phy = "HRD_RECEIVED"

\* From the masking by the helper to the handling the PHY is masked.
PhyMasked ==
  (\/ hpc \in {"unblock", "post"}
   \/ slot.phy = "HRD_RECEIVED"
   \/ current.phy = "HRD_RECEIVED") => "PHY" \notin nvic

ResetInv ==
  /\ TypeOK
  /\ NoPEReset
  /\ WorkerBlocked
  /\ WhereReceived
  /\ PhyMasked
  /\ HardResetDelivered

LEMMA InitReset == Init => ResetInv
  BY InitTypeOK
     DEF Init, ResetInv, NoPEReset, WorkerBlocked, WhereReceived, PhyMasked,
         HardResetDelivered, Irqs, Masked, Empty, NONE

LEMMA LineReset == ResetInv /\ Line => ResetInv'
  <1> SUFFICES ASSUME ResetInv, Line PROVE ResetInv'
    OBVIOUS
  <1>1. TypeOK'
    BY LineTypeOK DEF ResetInv
  <1>2. /\ UNCHANGED <<timers, nvic, pending, slot, current, hrdOriginPE, wpc, hpc,
                      owed>>
        /\ sr \subseteq sr' /\ line' # "hrst" /\ "HRSTSENT" \notin sr'
    BY DEF ResetInv, NoPEReset, Line, LineRxStart, LineRxEnd, LineTxEnd,
           LineHardReset, LineTypeC, Raise, flags
  <1> QED
    BY <1>1, <1>2
       DEF ResetInv, NoPEReset, WorkerBlocked, WhereReceived, PhyMasked,
           HardResetDelivered

LEMMA PhyReset == ResetInv /\ UCPD_PHY_Handler => ResetInv'
  <1> SUFFICES ASSUME ResetInv, UCPD_PHY_Handler PROVE ResetInv'
    OBVIOUS
  <1>1. TypeOK'
    BY PhyTypeOK DEF ResetInv
  <1>2. /\ UNCHANGED <<line, vbus, timers, nvic, current, attached, wpc, hpc>>
        /\ "PHY" \in nvic
        /\ sr' \subseteq sr
    BY DEF UCPD_PHY_Handler, PhyIrq
  <1>3. hpc \notin {"unblock", "post"} /\ slot.phy # "HRD_RECEIVED"
        /\ current.phy # "HRD_RECEIVED"
    BY <1>2 DEF ResetInv, PhyMasked
  <1>4. ~PhyHrstSent
    BY DEF ResetInv, NoPEReset, PhyHrstSent, First
  <1>5. /\ UNCHANGED hrdOriginPE
        /\ pending \subseteq pending'
        /\ slot' = slot \/ slot' = [slot EXCEPT !.phy = "OTHER_EVENT"]
    BY <1>4 DEF UCPD_PHY_Handler, PhyTypeC, UCPD_PHY_HRDRS_Received,
                UCPD_PHY_TX_Discarded, UCPD_PHY_TX_Complete,
                UCPD_PHY_RX_Started, UCPD_PHY_RX_Complete, PostPhy, flags
  <1>6. slot'.phy \notin {"HRD_SENT", "HRD_RECEIVED"} /\ slot'.timer = slot.timer
    BY <1>3, <1>5 DEF ResetInv, NoPEReset, TypeOK, Slots
  <1>7. owed' /\ "RXHRST" \notin sr' /\ "HELPER" \notin pending' => hpc # "idle"
    <2>1. CASE UCPD_PHY_HRDRS_Received
      BY <2>1 DEF UCPD_PHY_HRDRS_Received
    <2>2. CASE ~UCPD_PHY_HRDRS_Received
      <3>1. owed' = owed /\ ("RXHRST" \in sr => "RXHRST" \in sr')
        BY <1>4, <2>2
           DEF UCPD_PHY_Handler, PhyTypeC, UCPD_PHY_TX_Discarded,
               UCPD_PHY_TX_Complete, UCPD_PHY_RX_Started, UCPD_PHY_RX_Complete,
               First
      <3> QED
        BY <1>3, <1>5, <3>1 DEF ResetInv, HardResetDelivered
    <2> QED
      BY <2>1, <2>2
  <1> QED
    BY <1>1, <1>2, <1>3, <1>5, <1>6, <1>7
       DEF ResetInv, NoPEReset, WorkerBlocked, WhereReceived, PhyMasked,
           HardResetDelivered

LEMMA TimerReset == ResetInv /\ UCPD_TIM_Expired => ResetInv'
  <1> SUFFICES ASSUME ResetInv, UCPD_TIM_Expired PROVE ResetInv'
    OBVIOUS
  <1>1. TypeOK'
    BY TimerTypeOK DEF ResetInv
  <1>2. /\ slot'.phy = slot.phy
        /\ slot'.timer # "HARD_RESET_TIMEOUT"
        /\ "HARD_RESET_TIMEOUT" \notin timers'
    BY DEF ResetInv, NoPEReset, TypeOK, Slots, UCPD_TIM_Expired
  <1>3. /\ UNCHANGED <<phy, nvic, current, flags, wpc, hpc, owed>>
        /\ pending' = pending \cup {"WORKER"}
    BY DEF UCPD_TIM_Expired
  <1> QED
    BY <1>1, <1>2, <1>3
       DEF ResetInv, NoPEReset, WorkerBlocked, WhereReceived, PhyMasked,
           HardResetDelivered, phy, flags

LEMMA PwrReset == ResetInv /\ UCPD_PWR_SM_Delta => ResetInv'
  <1> SUFFICES ASSUME ResetInv, UCPD_PWR_SM_Delta PROVE ResetInv'
    OBVIOUS
  <1>1. TypeOK'
    BY PwrTypeOK DEF ResetInv
  <1>2. slot'.phy = slot.phy /\ slot'.timer = slot.timer
    BY DEF ResetInv, TypeOK, Slots, UCPD_PWR_SM_Delta
  <1>3. /\ UNCHANGED <<phy, timers, nvic, current, flags, wpc, hpc, owed>>
        /\ pending' = pending \cup {"WORKER"}
    BY DEF UCPD_PWR_SM_Delta
  <1> QED
    BY <1>1, <1>2, <1>3
       DEF ResetInv, NoPEReset, WorkerBlocked, WhereReceived, PhyMasked,
           HardResetDelivered, phy, flags

\* React, without hard resets of the policy engine.
LEMMA ReactNoPEReset ==
  ASSUME ~PEHardResets, NoPEReset, React
  PROVE  ~hrdOriginPE' /\ line' # "hrst" /\ "HARD_RESET_TIMEOUT" \notin timers'
  BY DEF React, NoPEReset, UCPD_PHY_SendMessage, flags

LEMMA WorkerReset == ~PEHardResets /\ ResetInv /\ Worker => ResetInv'
  <1> SUFFICES ASSUME ~PEHardResets, ResetInv, Worker PROVE ResetInv'
    OBVIOUS
  <1>0. TypeOK'
    BY WorkerTypeOK DEF ResetInv
  <1> USE <1>0 DEF ResetInv, NoPEReset, WorkerBlocked, WhereReceived, PhyMasked,
                   HardResetDelivered
  <1>1. CASE WorkerEnter
    BY <1>1 DEF WorkerEnter, flags
  <1>2. CASE WorkerRead
    BY <1>2 DEF WorkerRead, phy, flags
  <1>3. CASE WorkerClear
    BY <1>3 DEF WorkerClear, phy, flags, Empty, NONE
  <1>4. CASE WorkerGate
    <2>1. current'.phy = current.phy /\ current'.timer # "HARD_RESET_TIMEOUT"
      BY <1>4 DEF WorkerGate, TypeOK, Slots, NONE
    <2> QED
      BY <1>4, <2>1 DEF WorkerGate, flags
  <1>5. CASE HandlePwr
    <2>1. CASE Detach \/ Attach
      <3>1. ~owed' /\ current'.phy = NONE /\ current'.timer = NONE
            /\ (slot' = slot \/ slot' = Empty)
            /\ line' # "hrst" /\ "HARD_RESET_TIMEOUT" \notin timers'
            /\ ~hrdOriginPE'
        BY <2>1 DEF Detach, Attach, Empty, flags
      <3> QED
        BY <1>5, <3>1 DEF HandlePwr, Empty, NONE
    <2>2. CASE ~Detach /\ ~Attach
      <3>1. current'.phy = current.phy /\ current'.timer = current.timer
        BY <1>5, <2>2 DEF HandlePwr, TypeOK, Slots
      <3>2. UNCHANGED <<slot, owed, line, hrdOriginPE>>
            /\ "HARD_RESET_TIMEOUT" \notin timers'
        BY <1>5, <2>2 DEF HandlePwr, flags
      <3> QED
        BY <1>5, <3>1, <3>2 DEF HandlePwr
    <2> QED
      BY <2>1, <2>2
  <1>6. CASE HandleHrd
    <2>1. CASE current.phy = "HRD_RECEIVED"
      <3>1. current'.phy = NONE /\ current'.timer = NONE
        BY <1>6, <2>1 DEF HandleHrd, TypeOK, Slots
      <3>2. /\ ~owed' /\ ~hrdOriginPE'
            /\ timers' = {} /\ UNCHANGED line
            /\ nvic' = nvic \cup {"PHY", "TIM"}
        BY <1>6, <2>1 DEF HandleHrd, Completed
      <3> QED
        BY <1>6, <2>1, <3>1, <3>2 DEF HandleHrd, NONE
    <2>2. CASE current.phy # "HRD_RECEIVED"
      BY <1>6, <2>2 DEF HandleHrd, flags
    <2> QED
      BY <2>1, <2>2
  <1>7. CASE HandleTimer
    <2>1. CASE Attach
      <3>1. ~owed' /\ current' = Empty /\ slot' = Empty /\ UNCHANGED line
            /\ "HARD_RESET_TIMEOUT" \notin timers' /\ ~hrdOriginPE'
        BY <2>1 DEF Attach
      <3> QED
        BY <1>7, <3>1 DEF HandleTimer, HardResetDone, React, Empty, NONE, flags
    <2>2. CASE current.timer = "OTHER_TIMEOUT" /\ ~Attach
      <3>1. current'.phy = current.phy /\ current'.timer = NONE
        BY <1>7, <2>2 DEF HandleTimer, TypeOK, Slots, NONE
      <3>2. React /\ UNCHANGED <<nvic, slot, owed>>
        BY <1>7, <2>2 DEF HandleTimer, NONE
      <3> QED
        BY <1>7, <3>1, <3>2, ReactNoPEReset DEF HandleTimer, NONE
    <2>3. CASE current.timer # "OTHER_TIMEOUT" /\ ~Attach
      BY <1>7, <2>3 DEF HandleTimer, flags
    <2> QED
      BY <2>1, <2>2, <2>3
  <1>8. CASE HandlePhy
    <2>1. current'.phy = NONE /\ current'.timer = current.timer
      BY <1>8 DEF HandlePhy, TypeOK, Slots
    <2>2. ~hrdOriginPE' /\ line' # "hrst" /\ "HARD_RESET_TIMEOUT" \notin timers'
          /\ UNCHANGED nvic
      BY <1>8, ReactNoPEReset DEF HandlePhy, flags
    <2> QED
      BY <1>8, <2>1, <2>2 DEF HandlePhy, NONE
  <1>9. CASE HandleDpm
    BY <1>9, ReactNoPEReset DEF HandleDpm
  <1> QED
    BY <1>1, <1>2, <1>3, <1>4, <1>5, <1>6, <1>7, <1>8, <1>9 DEF Worker

LEMMA HelperReset == ResetInv /\ Helper => ResetInv'
  <1> SUFFICES ASSUME ResetInv, Helper PROVE ResetInv'
    OBVIOUS
  <1>0. TypeOK'
    BY HelperTypeOK DEF ResetInv
  <1> USE <1>0 DEF ResetInv, NoPEReset, WorkerBlocked, WhereReceived, PhyMasked,
                   HardResetDelivered
  <1>1. CASE HelperEnter
    BY <1>1 DEF HelperEnter, WorkerOff, phy, flags
  <1>2. CASE HelperBlock
    BY <1>2 DEF HelperBlock, WorkerOff, phy, flags
  <1>3. CASE HelperUnblock
    BY <1>3 DEF HelperUnblock, WorkerOff, phy, flags
  <1>4. CASE HelperPost
    <2>1. slot'.phy = "HRD_RECEIVED" /\ slot'.timer = slot.timer
      BY <1>4 DEF HelperPost, PostPhy, TypeOK, Slots
    <2>2. current.phy # "HRD_RECEIVED" /\ wpc = "idle" /\ "WORKER" \in pending'
      BY <1>4 DEF HelperPost, PostPhy, WorkerOff
    <2> QED
      BY <1>4, <2>1, <2>2 DEF HelperPost, PostPhy, phy, flags
  <1> QED
    BY <1>1, <1>2, <1>3, <1>4 DEF Helper

LEMMA NextReset == ~PEHardResets /\ ResetInv /\ [Next]_vars => ResetInv'
  <1>1. ResetInv /\ UNCHANGED vars => ResetInv'
    BY DEF ResetInv, TypeOK, NoPEReset, WorkerBlocked, WhereReceived, PhyMasked,
           HardResetDelivered, vars
  <1> QED
    BY <1>1, LineReset, PhyReset, TimerReset, PwrReset, WorkerReset, HelperReset
       DEF Next

\* As long as the policy engine requests no hard reset of its own, nothing comes
\* between the helper and the handling of HRD_RECEIVED.
THEOREM HardResetDeliveredAlone ==
  ASSUME ~PEHardResets
  PROVE  Spec => []HardResetDelivered
  <1>1. Init => ResetInv
    BY InitReset
  <1>2. ResetInv /\ [Next]_vars => ResetInv'
    BY NextReset
  <1>3. ResetInv => HardResetDelivered
    BY DEF ResetInv
  <1> QED
    BY <1>1, <1>2, <1>3, PTL DEF Spec

=============================================================================
