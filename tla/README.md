# UCPD in TLA+

A verification project for the UCPD stack, a USB Power Delivery sink for the STM32
UCPD peripheral (`src/ucpd.c`, `src/ucpd/`, `src/device/`): TLA+ modules, TLC
configurations that check them, and proofs checked by TLAPS. File and line numbers
refer to `src/`.

## 1. The system

One port is one record (`UCPD_PE_PRL_CAD_Module`, `ucpd/ucpd_pe_prl.h`) on which
three kinds of code work.

| Part | Code | State it keeps | Operations |
|---|---|---|---|
| PHY driver | `device/ucpd_hw.c` | UCPD_SR and UCPD_IMR, NVIC enables, `txAllowed`, `hardResetActive` | interrupt handler, SendMessage, SendHardReset, Attach, Detach, HRDRS_Received, HRDRS_Completed |
| Timers | `ucpd/ucpd_tim.c`, TIM1 part of `ucpd_hw.c` | `ucpd_tim_at_channel`, compare registers, flags and enables | Start, Stop, Expired, the interrupt |
| VBUS monitor | `device/ucpd_pwr.c` | `pwr_sm` (absent, transient, present), `vbus_vS0_to_vS5` | Delta on ADC watchdog, vS0_to_vS5 |
| Events and worker | `device/ucpd_events.c` | slots `phy_event`, `pwr_event`, `timer_event` and their copies | PHY_Event_Handle, Worker, HRD_Helper |
| Event handler | `ucpd/ucpd_pe_prl.c` | `dpm_event`, `callback`, `current_callback` | UCPD_PE_PRL_Handler |
| Connection (CAD) | `ucpd/ucpd_typec.c` | `cad_state`, `vbusDet`, `tccDeb` | Delta, Enter |
| Protocol layer | `ucpd/ucpd_prl_sm.c`, `ucpd/ucpd_cnt.c` | six state machines, MESSAGEID and RETRY counters, stored MessageID, chunk counters | Delta, one Enter per machine |
| Policy engine | `ucpd/ucpd_pe_sm.c` | `snk_state`, contract and EPR flags, AMS flags | Delta, SRT_Enter, SNK_Enter, SNK_Exit |
| API and policy | `ucpd.c`, `ucpd/ucpd_dpm.c` | `sync_operation`, `dpm_request_status`, `choice_valid` | Trigger, EnterEPR, ExitEPR, HardReset and their Async forms, Select* |

How they interact. The PHY, timer and ADC interrupts have the highest priority. Each
writes one slot and pends the worker, a software interrupt one level below; the
worker copies and clears the slots and calls the handler, which calls the connection,
the protocol layer and the policy engine, which call one another to completion. A
received hard reset pends a helper below the worker, which masks interrupts and posts
HRD_RECEIVED. The application calls the API from thread mode; a request is one
variable (`dpm_event`) that the worker takes when the policy engine is in READY, and
its end is a callback or the end of a spin on `sync_operation`. Callbacks and the
policy are the application's code run inside the worker; they may call the API.

What is hard: slots of size one written by interrupts and cleared by the worker;
interrupts masked in one context and unmasked in another; many timers on one compare
channel; messages, GoodCRCs and retries on a lossy half-duplex wire with MessageIDs
that wrap; a hard reset from either side at any moment; a message dropped because
something is being received; a watchdog that only its own interrupt arms again; a
contact that bounces while debounce timers expire; extended messages reassembled with
byte-wide counters over receptions that are given up and resumed; callbacks attached to
whatever operation is current, and calls made from inside them. The `hazards` of
`PROJECT.json` list these at their lines with the properties that cover them.

What makes each part correct: a timer that owns its channel is armed and fires at its
deadline; no event is erased unseen, a hard reset least of all; what is masked is
unmasked; VBUS is announced in turn and only while the news is true; the port attaches
to what is connected and to nothing else; every message is delivered once and in its
place, an extended one whole and inside its buffer; a power transition and an EPR contract stay guarded by
their timers; port and source agree on the contract; the port recovers; every request
is served, answered once, and lets its thread go on.

## 2. The modules

An arrow is an EXTENDS.

    UcpdTimers <── MCTimers              UcpdMailbox <── UcpdMailboxProofs
        ^
        └── UcpdTimersProofs

    UcpdVbusService <·· INSTANCE ·· UcpdVbus
                                       ^
                                  UcpdConnection <── UcpdConnectionProofs
                                       ^
                                  MCConnection

    UcpdChunks <── UcpdChunksProofs      UcpdPort <── UcpdPolicyEngine
        ^                                                 ^
        └── MCChunks                     UcpdStack ──> UcpdProtocol
                                            ^
                                         UcpdApi

    UcpdProtocol <── UcpdPortProofs <── UcpdSprProofs <── UcpdLink <── UcpdStackProofs <── UcpdTalkProofs
    (UcpdLink also extends UcpdStack, UcpdStackProofs also UcpdApi)

The code has several time scales, and there is one specification for each; each states
what it takes for granted from the others.

**UcpdTimers**: single instructions. Variables are the hardware (`now`, `ccr`, `ccif`,
`ccie`), the owner of each channel (`at_channel` is `ucpd_tim_at_channel`), the slot
and its copy, the NVIC enable, how far a received hard reset has got, and where the
worker is. `UCPD_TIM_Start` takes the channel and is followed by the four steps of
`UCPD_HW_Timer_Start` (read the counter, clear the flag, write the compare value,
enable), between any two of which the interrupt and the counter may come in; `Stop`
is split in the same way. `Snapshot` is the masked copy at the start of `UCPD_Worker`.
`elapsed` and `raced` are history variables. Timers, channels, periods, events and the
width of the counter are constants with the assumptions that the tables of
`ucpd_tim.h` meet (section 5).

**UcpdMailbox**: steps of the worker, the helper and the interrupts. `sr`/`imr` are the
flags and the mask of the PHY, `nvic` and `pending` the interrupts enabled and pended,
`slot` and `current` the slots and the copies, `wpc` and `hpc` where worker and helper
are (for the helper, before which line of `ucpd_events.c`). The stages of
`UCPD_PE_PRL_Handler` are one action each; the state machines are reduced to what
comes back to this level (`React`: send a message, start a timer, request a hard
reset, or nothing). `owed` is a history variable: a received hard reset has not been
handled. Reading a slot, clearing it and posting to it are single steps, as the
enumerators they hold are written by single stores.

**UcpdVbusService, UcpdVbus**: the VBUS monitor and what it promises. UcpdVbus has the
analog watchdog (`window`, `awd_ie`, `awd_flag`), the state machine of `ucpd_pwr.c`
with one action for each kind of transition (`Rises`, `Arrives`, `Lingers`, `Falls`,
`Returns`, `BackAgain`), and the conversion from ADC codes to the millivolts that the
state machine compares. A conversion outside the window raises the flag; the interrupt
reads VBUS again, which may have moved. UcpdVbusService is the abstract specification:
arrivals and returns are announced in turn, while they are true, never over an
announcement that nobody has taken. UcpdVbus implements it with `band <- Band(vbus)`,
`slot <- pwr_event`. `told` and `lapsed` are history variables.

**UcpdConnection**: `ucpd_typec.c` on top of the monitor. The environment plugs the
cable either way up, wiggles and pulls it, and switches VBUS; `CcChange` is the Type-C
part of the PHY interrupt, `TimerExpires` the interrupt of channel 4 with the two
debounce timers. A run of the worker is two steps (`Snapshot`, `Handle`), and interrupts
come between the two; `Handle` is the handler with the CAD part of every Delta in the
order of the code. `gap` is a history variable: the first thing that the code misses by
design or by accident, after which the properties promise no more (section 6).

**UcpdChunks**: the states PRL_RCH_* byte by byte. `expected`, `received` are the
byte-wide counters, `header` and `body` what the reassembly buffer holds, a byte being
known by its message and its place. The counters have `CountMod` values (256) and the
buffer `BufferLen` places (44: a `UCPD_EXT_MSG` is four bytes of headers and eleven PDOs).
`TakeChunk` copies and counts with the arithmetic
modulo 256 of the code, and like the code does not check the copy against the buffer: what
lies beyond its end is not in `body`, and `overrun`, a history variable, tells that the
message which the source sends was written there. `WaitForMessage` clears the buffer but
not the counters. The
source sends the next chunk only when asked, may give up and start over; what the
layers below do is reduced to received or not, acknowledged or not.

**UcpdPort, UcpdPolicyEngine, UcpdProtocol**: the state machines as operators from a
port record to a port record. The C functions call each other to completion inside
one run of the worker, so that `EnterX(p)` is the entry of state X with everything it
calls, exit actions of the old state first. Between two runs only the states that wait
for an event are seen. UcpdPort holds what both layers share (timers, MessageID
counter, the way down to the wire); UcpdPolicyEngine is `ucpd_pe_sm.c`; UcpdProtocol
is the upward half of `ucpd_prl_sm.c`, attach and detach, and `UCPD_PE_PRL_Handler`.
Calls that go back and forth between the layers are kept in the order of the code;
where an order matters (`IndicateHardReset`, `MessageFromPE`) a comment says so. The
application's code has three places in them: the callback of a request (`CALLBACK`), the
policy (`POLICY`) and the callback of the port (`PORT_CALLBACK`); `UserCall` is a call
of the API made there, with the checks of `ucpd.c`.

**UcpdStack**: one run of the worker per step (`Worker`), and between the runs the
interrupts, the timers, VBUS, a simple application and a source. The source is not part
of the repository: it takes turns as the protocol prescribes, waits for a GoodCRC,
repeats, gives up with a hard reset, and may refuse an EPR entry. `surprised`,
`mistaken`, `got` and `acked` record what it makes of the port's behaviour. `Pace`
says how its answers compare with the timers of the port: PROMPT answers before a
timer expires, SLOW may be late between messages, RACE lets a timer expire while the
answer is under way.

**UcpdApi**: the same stack under a thread that calls the API step by step (the checks
as one step, then `dpm_event`, then the callback with the emission of the event, then
the spin on `sync_operation`), preempted by the worker between any two, while the code
in the three places makes calls as well.

**UcpdLink**: the inductive invariants of UcpdStack. Outside EPR mode, `LinkInv`: how the
state machines, the slots, what is on the wire, the timers and the source agree whenever
the worker does not run. `CountInv`: what the MessageIDs of both sides, the retries and
the losses so far have to do with one another. `Conversation`: which turn of the source
goes with which state of the policy engine, what either side knows of the other's message,
and what the contract of both is; `ConvInv` says when it holds. In EPR mode, `AliveInv` is
what the keep-alive timer depends on, and `Undisturbed` what must not happen to it. They
are in a module of their own so that the runs StackLink and StackEpr check them before
UcpdStackProofs and UcpdTalkProofs prove them; it extends UcpdSprProofs for the predicates
on ports (`AtRest`, `Steady`, `Sends`, `AwaitsPhy`, `Guarded`, `Tally`) that the proofs
speak of.

## 3. The runs

| Run | Configuration | What it shows |
|---|---|---|
| Timers | `MCTimers.cfg` | `OwnedChannelArmed`, `DeadlineExact`, `EarlyExpiryOnlyInStart`; no timer owns its channel for ever, also when hard resets mask the interrupt |
| Mailbox | `MCMailbox.cfg` | the snapshot erases no timer or VBUS event, with hard resets of both sides and VBUS changes |
| MailboxLive | `MCMailboxLive.cfg` | a hard reset of the partner is never replaced, is handled, and nothing stays masked |
| MailboxBothReset | `MCMailboxBothReset.cfg` | finding: a received hard reset is lost |
| Connection | `MCConnection.cfg` | the monitor implements its service and stays armed; debounce marks are earned; an attached port has power; the port settles to what is connected |
| ConnectionLate | `MCConnectionLate.cfg` | finding: a stale debounce timeout leaves a connected port unattached |
| Chunks | `MCChunks.cfg` | a message that the buffer has room for stays inside it, goes up whole with its header, and has gone up when the source takes it as delivered; every reception ends |
| StackLink | `MCStackLink.cfg` | the link under losses, retries, collisions, Rp changes and resets; `LinkInv`, `CountInv` and `ConvInv`, from which its invariants are proved |
| StackEpr | `MCStackEpr.cfg` | EPR entry, exit and hard resets in any order; `KeptAlive`, from which the keep-alive timer is proved |
| StackRecover | `MCStackRecover.cfg` | the port recovers, requests are answered |
| StackCallback | `MCStackCallback.cfg` | finding: a callback is called twice |
| Api | `MCApi.cfg` | no call spins inside the worker, a waiting request is served, the thread gets on |

Bounds, and why they suffice.
- *Timers.* Channels only meet in the slot, so that one channel with two timers that
  displace each other has every interaction but that one. The counter has 5 values
  and the periods are 1 and 2, so that wraps, matches of stale compare values and
  expiries in the same tick all occur. The proofs cover every size.
- *Mailbox.* No counters. `LineFlags` selects what happens on the wire, so that each
  run holds the flags its question is about.
- *Connection.* `MaxMoves` is 4: plug in, bounce, bounce back and one more move (a
  dip, a hard reset, the supply) is what the shortest traces to each gap need. The five
  ADC codes are the two safe levels, one between, and 167 (804 mV) and 986 (4747 mV),
  each of which lies on one side for the watchdog and on the other for the state
  machine. The proofs cover every bound and every set of codes.
- *Chunks.* Chunks of 2 bytes, a buffer of 5, counters of 8 values, messages of 1, 4, 5,
  7, 9 and 12 bytes: one chunk, a whole number of chunks, a last chunk that is short and
  fills the buffer, a message that the counters can count but the buffer has no room for
  (its third chunk straddles the end of the buffer, its last lies beyond), and two that the
  counters cannot count, whose remainder wraps.
- *Stack.* MessageIDs 0 to 2 instead of 0 to 7 (the wrap occurs, and a stale MessageID
  is at most one exchange old), one or two retries (the code has two), at most two
  losses and one hard reset that is not forced. Losses up to NRetry let every retry be
  needed; forced hard resets are not bounded. In StackLink SLOW also lets the
  timers expire with no loss at all. EPR capabilities take two chunks.
- *Api.* One thread that enters EPR mode synchronously (the longest operation, with the
  most ways out), code that calls UCPD_TriggerPolicy and UCPD_ExitEPRAsync (a spinning
  and a plain call) in each place, at most one call for each run of the worker. One loss
  with no retry lets an operation be abandoned; one reset or detach; the source refuses.
  Rp does not change: a source may toggle it for ever, and then nothing is ever sent.

Deadlock is checked for the timers, the mailbox and the chunks. It is not for the stack,
the API and the connection: a port in a contract with no request, loss or reset left,
and a connection that has settled with no move left, really have nothing to do.

Findings. Three runs end in a violation of what a comment of the code says;
`PROJECT.json` quotes the comment and tells the trace.
- *MailboxBothReset*: the helper masks the worker one line before the timers
  (`ucpd_events.c:129`); the timeout of the port's own hard reset between the two undoes
  the masks before HRD_RECEIVED is posted, and the next PHY event replaces it.
- *StackCallback*: line 75 of `ucpd_pe_prl.c` makes a callback current and leaves it
  waiting as well.
- *ConnectionLate*: CC bounces; UCPD_TIM_CAD_PDDEB expires between the snapshot that took
  CONN_DETECTED and the handler that stops the timer. Its event is in the slot already, is
  taken in any state (`ucpd_typec.c:111`), and ends in UNATTACHED with the cable in and no
  further CC change to come.

## 4. Fairness

- *UcpdTimers.* Weak fairness of the counter and of the interrupt, which nothing
  preempts for long; strong fairness of the worker's steps, which are preempted and
  resumed. Which timers the worker starts or stops is not forced.
- *UcpdMailbox.* Weak fairness of the worker and of the PHY interrupt, strong fairness
  of the helper, and `[]<>WorkerOff`: the worker runs for microseconds while a
  message is on the wire for a millisecond, so it leaves the processor again and again.
  The line, VBUS and the timers are not forced.
- *UcpdConnection.* Weak fairness of the conversions (the ADC runs without a break), of
  both interrupts and of the debounce timers; strong fairness of the worker's two steps
  and of the end of a hard reset, which interrupts preempt again and again. Cable and
  source are not forced, and make at most `MaxMoves` moves: `Settles` speaks of what
  happens when they have come to rest.
- *UcpdChunks.* A transmission ends, received or lost, and a timer that runs expires.
  Nothing is asked of the source.
- *UcpdStack.* A pended worker runs; timers expire; the source answers, repeats, and
  brings VBUS back after a reset; what is on the wire ends. Losses, collisions, what
  the source does of its own accord and the application are not forced. `Recovers` and
  `Answered` are stated for a PROMPT source: a source may for ever be later than the
  timers of the port, and then no sink recovers. The fairness of the worker is
  stated as `pend /\ pend' = FALSE`, a step that only a run of the worker takes.
- *UcpdApi.* That of the stack; a call that has passed its checks goes on (weak, as the
  worker leaves the processor to the thread), and a thread that spins looks again
  (strong, as the worker preempts it between two looks).

## 5. The proofs

Each proof module states its inductive invariant as a conjunction of named parts, and
has one step for each action.

`UcpdTimersProofs` proves, for any finite or infinite set of timers and channels, any
assignment, any periods of at least 1 and below the width of the counter less one, and
any width:
- `TypeCorrect`. `TypeOK` is not inductive: a step of `UCPD_TIM_Start` needs to know
  that the worker has a timer in hand (`ArgInHand`).
- `ArmedCorrect` (`OwnedChannelArmed`). Inductive together with the types: only
  `StopDisable` disables an interrupt, and it releases the channel in the same
  uninterruptible stretch.
- `DeadlineCorrect` (`DeadlineExact`). The invariant adds that the deadline in hand is
  still fresh when it is written (`WhenFresh`, which needs that at most one tick falls
  into the window), that the flag is clear until then or the race is recorded
  (`FlagClear`), and what holds just before the interrupt is enabled
  (`AboutToEnable`). Lemmas on `Wrap` carry the arithmetic modulo the width.
- `NoEarlyExpiry` (`EarlyExpiryOnlyInStart`), an action property, follows from the
  deadline invariant.

`UcpdMailboxProofs` proves, for every choice of the constants:
- `TypeCorrect`.
- `SnapshotCorrect` (`SnapshotKeepsEvents`), from the fact that the timer and the ADC
  interrupt are masked between `WorkerEnter` and `WorkerGate`.
- `HardResetDeliveredAlone` (`HardResetDelivered`) under `~PEHardResets`. The invariant
  says that without a hard reset of the port `hrdOriginPE` and the hard reset timer
  never occur (`NoPEReset`), that the helper keeps the worker blocked (`WorkerBlocked`),
  where a received hard reset is at each moment (`WhereReceived`), and that from the
  block to the completion the PHY is masked (`PhyMasked`). Without the assumption the
  property is false: that is finding MailboxBothReset.

The first part of `UcpdConnectionProofs` is about the monitor and proves, for any set of
ADC codes:
- `WatchdogArmed` (`ArmedForNews`) and `ImplementsService` (`AnnouncesInTurn`), the
  refinement: initial states map to initial states and every step to a step of the
  service or to a stutter. Both need that `pwr_sm` and what was told agree
  (`ToldByState`), that the flag `exited_v0` is clear in PRESENT (`ArrivedClean`; as in the
  code it may stay set in ABSENT, when VBUS rose and fell back without reaching 5 V), and that an announcement in the slot is the last one told
  (`NewsIsTrue`). Facts about `GetVbusVoltage` relate the codes of the watchdog to the
  millivolts of the state machine.

The rest of it proves, for any codes and any `MaxMoves`:
- `UsesMonitor`: every behaviour of the connection is one of UcpdVbus, so that the two
  theorems on the monitor hold of it as well (`AnnouncementsHold`).
- `TypeCorrect`, `MarkCorrect` (`MarkEarned`) and `PowerCorrect` (`AttachedHasPower`).
  The invariant relates the mark to state and timer (`MarkOf`), says that at most one
  timeout is under way (`OneTimeout`), what VBUS was told when `vbusDet` or the
  attachment is there (`PowerOf`), and that an idle worker has no copies (`IdleClean`).
  `Good` holds of a record and is shown of each operator of the handler by a lemma; the
  step of `Handle` composes them.

`UcpdChunksProofs` proves, for any messages of any sizes, any chunk length and buffer, and
any counters that count further than both. The messages may be longer than the buffer, and
than the counters count; what the last two theorems say is said of those that the buffer
has room for (`InBuffer`, 44 bytes in the code), whatever longer ones came before:
- `TypeCorrect`, `WholeCorrect` (`PassedUpWhole`) and `DoneCorrect` (`DoneIsPassedUp`). The
  invariant says that a header in
  the buffer is that of a message (`HeaderKnown`), that while a reception runs the bytes
  so far are those of one message and as many as the chunks taken (`Collected`), that the
  wire carries the source's message (`SourceSends`), and that a chunk that would be
  accepted into a buffer with a header is of the message of that header (`SameMessage`).
  The last is the heart of it: the counters are not reset when a reception ends, and only
  that the source starts every message with chunk 0, which does reset them, keeps bytes
  of two messages apart. `DoneCorrect`, and that nothing of such a message is written past
  the end of the buffer (`NothingOutside`, the second half of `PassedUpWhole`), need more:
  that the counters are in step with the source whether or not the port still has the
  buffer (`InStep`).

Assumptions are the named ASSUMEs of the modules, which TLC evaluates in the runs:
the tables of `ucpd_tim.h` satisfy those of UcpdTimers (periods from 1 to 10000, 65536
values of the counter), 26, 44 and 256 those of UcpdChunks, 12-bit codes that of UcpdVbus.

`UcpdPortProofs` and `UcpdStackProofs` prove, for any number of MessageIDs and retries,
any source, losses, pace and calls that the modules allow:
- `HandlerRests`: a port whose state machines wait is handed to `UCPD_PE_PRL_Handler`
  with anything in the slots, and the one that comes back waits again. There is one
  lemma for each operator. `Port` is what the operators go by (the field types); `Stays`
  says that an operator keeps it and leaves the policy engine where it is, `Settles` that it
  ends in a state that waits, though it was perhaps called in one that does not. Both keep
  the chunk machines waiting if they were: the transient states of those are left by the
  operator that entered them. Both keep a request that waits and the connection, too
  (`Keeps`), so that only the end of the connection and the last lines of the handler take
  a request away (`Kept`).
- `TypeCorrect` (`TypeOK` of UcpdStack). The steps outside the worker touch nothing that
  `Port` speaks of but the request, the timers and the slots.
- `NoSpin` (`NoSpinInHandler`). It is part of `Port`: a call that would spin has seen
  `sync_operation` clear before it made its request (`UserCallStays`), and the checks are
  made in the run of the worker that makes the call.
- `RequestsKept` (`RequestKept`), in EPR mode as well: a request is taken in READY only, and
  the state it leads to (`Serving`) is the one the port is in when the handler is done. The
  proof failed at first, at `MessageFromPE`: a message that is passed down while a chunked
  message is being received is not sent if `extended_message` is set, and the policy engine
  goes to READY or to a soft reset. TLC then found a behaviour that gets there (a soft reset
  of the source whose answer is given up, a keep-alive given up as well, EPR capabilities
  arriving in READY), so that the property names the case (`Blocked`); section 6 has what
  it means.

`UcpdSprProofs` and `UcpdStackProofs` prove more of a port outside EPR mode: for any
number of MessageIDs and retries, losses of either side's messages, collisions, hard
resets of both sides, Rp changes, a PPS contract or not, as long as the application asks
for nothing but a hard reset or an EPR exit (`Requests` without EPR_MODE_ENTRY and
TRIGGER_POLICY) and no timer expires while the answer to it is under way (`Pace # "RACE"`).
These two assumptions are `OutsideEpr`; section 6 says what becomes of the link without
them.
- `HandlerLinks`: one run of the handler, given only events that the stack can post
  together, leaves a port that is `Sound`. That is: what it does for the transmitter, the
  receiver and the timer of channel 0 goes together (`Steady`), nothing is about to be
  sent that nobody waits for, a port in TRANSITION_SINK has its timer (`Guarded`), a
  GoodCRC that is on its way is still waited for. There is one lemma for each entry of a
  state, and they follow the calls of the code.
- `LinkHolds` (`LinkInv`). One part for each pair: the port's own state (`SInv`, `Sound`), the
  source (`SprSource`), port and PHY event (`PhyAgrees`), port and wire (`WireAgrees`),
  port and expired timer (`TimerAgrees`), what is left of a detached port (`Detached`).
  The parts need one another: that the transition timer is not displaced needs that no
  GoodCRC timer is started in TRANSITION_SINK, which needs that nothing is sent there,
  which needs that no event of an older transmission is still to come.
- `TransitionIsGuarded` (`TransitionGuarded`), a part of it.
- `CountsAgree` (`CountInv`) and `NeverMistaken` (`NotMistaken`), for fewer than
  `NRetry * MidMax` losses in all (14 with the numbers of the code). The source takes a
  message with the MessageID it took last for a retransmission, so it is wrong if the
  counter of the port comes round to that MessageID while the source has heard nothing in
  between. `Lag` is how far the counter is ahead, `Spent` what the message that is under
  way has cost so far, and `SeenAgrees` the inductive bound: with every message given up,
  `NRetry` losses have been used, `NRetry * Lag + Spent <= NRetry + losses`. It needs that
  a GoodCRC on its way is for the MessageID of the port (`IDsAgree`), that a source that
  has been reset remembers none (`ResetAgrees`), what a discarded transmission leaves behind
  (`SlotAgrees`), and that the retry counter is 0 unless an answer of the PHY is waited for
  (`Tally`). How one event moves MessageID and retry counter is part of `HandlerLinks`
  (`Moves`: the message stands, is repeated, is done with, or the link is reset). With
  `NRetry * MidMax` losses TLC finds a mistake (tried with one and two retries and two and
  three MessageIDs): an attempt that is discarded is counted, too, so that `NRetry` losses
  and a collision use up a message.

`UcpdTalkProofs` goes on from there, under the same assumptions: what the source makes of
what the port says. For any number of retries and MessageIDs from 0 to at least 2 (one
message may be given up between two that arrive, and those two must differ):
- `ConversationHolds` (`ConvInv`): with fewer losses than a message has attempts
  (`losses < NRetry`), port and source go through the conversation in step
  (`Conversation`), and no message is given up without a contract (`Persistent`).
- `NeverSurprised` (`NotSurprised`), `ContractIsAgreed` (`ContractAgreed`) and
  `IsDeliveredOnce` (`DeliveredOnce`), of every behaviour with fewer than
  `NRetry * MidMax` losses in which `Persistent` holds. `FewLosses` has all three with no
  such condition when `MaxLosses < NRetry`.

The inductive invariant is `Conversation`. `InTurn` says of the source alone what it has
out in each of its turns, `HandsUp` what the event in the slot will hand to the policy
engine, `OffAgrees` what is left when the source is off or has reset the link. `InStep` is
the body of it, for a port and a source that talk: `Matches` lists the states of the policy
engine that go with a turn, depending on whether the message that is out has arrived;
`IDsFollow` and `AcksAgree` say how both stored MessageIDs tell a message from its
retransmission, and the GoodCRC that is under way from the one that was lost. Each event of
the worker is then a move of the conversation: nothing is handed up (`Untold`: a lemma for
each entry of a state says that it hands nothing up), or the message that was out is.

Why `Persistent` is needed: a port that gives up a Request is in READY (`ucpd_pe_sm.c:192`)
while the source still waits for it, and the two stay apart until a hard reset. With
`NRetry + 1` losses TLC finds `ContractAgreed` and `DeliveredOnce` violated in this way.
`LossInv` relates the attempts so far to the losses and shows that fewer losses than
`NRetry` do not lead there. StackLink has as many losses as retries and collisions besides,
so that `Persistent` fails in some of its states, in which the three properties still hold:
the run goes a little beyond the theorems there.

`UcpdPortProofs` and `UcpdStackProofs` prove of a port in EPR mode, for any number of
MessageIDs and retries, losses, requests, collisions and resets (but not for a source that
races the timers):
- `KeepAliveRuns` (`KeepAliveGuarded`), of every behaviour in which the port is
  `Undisturbed`: no chunked reception in READY, and no entry to EPR mode pending in it.
  Three other timers share its channel, and starting one takes it away without a word.
  `HandlerAlive` shows that a run of the handler ends with the timer running if it ends in
  READY, from one lemma for each entry: an operator keeps the mode and the timer (`Idles`),
  goes to a state that needs none or starts it (`Minds`; `Wakes` if it may begin an entry),
  or starts over outside EPR mode (`Anew`). A hard reset of the port ends EPR mode when it
  is requested, so that the mode must not come back while it is under way (`Origin`), it
  must be on its way or in the slot (`Asked`), and one of the source must be the next event
  handled (`Acting`). `AliveInv` says so between two runs of the worker. Section 6 has the
  behaviours that `Undisturbed` leaves out.

Only model-checked: `EprAgreed`, which needs an invariant of the conversation in EPR mode,
with its entry and exit, on top of `Conversation`; and all liveness
(`OwnerEventuallyReleased`, `HardResetHandled`, `NothingMaskedForever`, `Settles`,
`ReceptionEnds`, `Recovers`, `Answered`, `SpinEnds`): liveness under fairness and ENABLED
are beyond the prover, and so are recursive definitions and induction over data, of
which there are none.

## 6. What is not modelled

- Initialisation (`UCPD_Init`, `_Deinit`, `ucpd_port.c`, `ucpd_ctx.c`) other than as the
  state it leaves; clocks, pins, DMA, ADC set-up; the utilities and the examples.
- The contents of capabilities and requests and of what UCPD_POLICY_Select* write; the
  policy always makes a valid choice. The fields of data objects.
- Toggling of the two receive buffers, what the DMA reads from a buffer that is
  overwritten while it is sent.
- The buffer pointers of the record. Attaching clears the record (`ucpd_typec.c:186`) and
  with it the pointers, which only the next run of the worker sets again
  (`ucpd_events.c:104-107`); PRL_INIT, handled right after it, writes the empty message through
  the one of `ext_rx_buffer` all the same (`ucpd_prl_sm.c:433`), which is NULL then. The modules take
  the buffer as cleared, and say nothing of what is written at address 0.
- Error recovery: nothing posts CAD_EVENT_ERROR, so that it is not reachable.
- Unchunked extended messages; transmission of more than one chunk, which has no caller.
- The HARD_RESET counter and `hrd_state` (written, never read).
- Two compare channels that fire before the worker runs leave one event
  (`ucpd_hw.c:620`, which knows of it): a hazard without a property.

What the modules take for granted of their surroundings:
- *Stack.* The interrupt of a hard reset and the helper are one step, and the worker is
  fast against the wire: the mailbox covers what happens when it is not. A detached port
  is attached again in one step: the connection covers how.
- *Connection.* The first read of the ADC comes before the first conversion, so that the
  monitor starts in ABSENT. VBUS takes milliseconds from level to level, so that the
  worker has taken an announcement by then. The source turns VBUS on for a sink that it
  sees and after 0 V for longer than a conversion and its interrupt; it keeps VBUS when
  the cable comes back before it has noticed, and then the same way up. The shortest
  debounce period outlasts a run of the worker. Enabling both CC lines reports a cable
  that is there. How a hard reset goes on is the business of the other modules.
- *Chunks.* The GoodCRC and retry layer is reduced to what it tells either side; the
  source conforms: it sends a chunk other than the first one only when asked for it.
- *Api.* The checks of a call are one step, and so are the write of the callback and the
  emission of the event. When the port's callback reports ATTACHED the record does not say
  so yet: calls made there are refused, as in the code.

Known limits of what the properties promise, each also a hazard in `PROJECT.json`:
- *lapsed* (`ucpd_pwr.c:14`): VBUS is back where it was when the interrupt reads it again;
  the watchdog stays off and there is no further news of VBUS. `ArmedForNews` and
  `Settles` except it.
- The gaps of the connection: *late* (a debounce timeout handled after its timer was
  overtaken, the finding above), *ignored* (VBUS_REMOVED during a hard reset,
  `ucpd_typec.c:91`), *erased* (VBUS_REMOVED in the slot when attaching clears the record,
  `:186`), *unsure* (attached after a removal was measured, listening on CC2 whatever is
  plugged, `ucpd_hw.c:58`). `Settles`, `MarkEarned` and `AttachedHasPower` except them.
- Extended messages of 45 bytes or more do not fit in `ext_rx_buffer`, and the copy of
  `ucpd_prl_sm.c:483` is not checked against it, although `UCPD_MAX_EXT_MSG_LEN` is 260: what
  exceeds it is written into `ext_tx_buffer`, which follows it, and from 93 bytes on behind the
  port handle. Up to 255 bytes such a message goes up with its header and its first 44 bytes,
  which is also all that the policy engine reads of it (`ucpd_pe_sm.c:514`). `PassedUpWhole`
  and `DoneIsPassedUp` except these messages (`InBuffer`); `overrun` tells that it happened, and
  what becomes of the memory behind the buffer is not modelled: after an overrun, what the
  properties of UcpdChunks say supposes that it hit no state of the reception. The EPR
  capabilities, the one message of several chunks that the port uses, have at most eleven PDOs
  and fit.
- Messages of 256 bytes or more are in addition requested beyond their end and never go up;
  `ReceptionEnds` does not except them.
- An operation whose first message fails is given up in READY without clearing
  `sync_operation` and without a callback (`ucpd_pe_sm.c:192`): `SpinEnds` excepts it
  (`Abandoned`), and `Answered` is checked with fewer losses than attempts.
- A call of the worker's code between a thread's check and its write of `dpm_event` is
  overwritten (`ucpd.c:118`): `RequestKept` excepts that window.
- A keep-alive that was given up leaves `extended_message` set (`ucpd_pe_sm.c:192` does not
  clear it): the next message of the policy engine is passed down as another keep-alive
  (`ucpd_prl_sm.c:117`). A request that is taken up while EPR capabilities are being received is then
  not sent at all and forgotten; an EPR exit among them is reported with
  SUCCESS and clears `epr_mode` without a message sent. `RequestKept` excepts it (`Blocked`).
  It takes four losses with `NRetry = 0`, so that no run gets there.
- A request made just before VBUS goes and taken up in the run of the worker that
  detaches is never answered (`ucpd_pe_prl.c:75`, `ucpd_typec.c:150`): `Answered` excepts a
  detached port.
- An EPR exit that is lost or interrupted by the keep-alive timer still clears `epr_mode`
  (`ucpd_pe_sm.c:860`): `EprAgreed` is checked without losses.
- A request taken in the run of the worker that sends a GoodCRC replaces that GoodCRC in
  the transmit buffer, and the port's own soft reset keeps the stored MessageID:
  `DeliveredOnce` is checked and proved with no request but hard resets.
- `TransitionGuarded` is checked and proved without EPR entries: after a Soft_Reset of its
  own a port in an EPR entry takes the Accept of the source for that of a request, is in
  TRANSITION_SINK without one, and the chunk request for the EPR capabilities that follow
  takes the channel of the transition timer. It is checked without RACE as well: a timer
  that expires while the answer is under way leaves an event of an older state.
- `DeliveredOnce`, `NotSurprised` and `ContractAgreed` are checked with at least one retry
  and three MessageIDs and with no more losses than retries, and proved as section 5 says;
  `NotMistaken` is proved for fewer than `NRetry * MidMax` losses. With more, a message may
  be given up whose MessageID comes round before the source has seen another.
- `KeepAliveGuarded` is proved for an undisturbed port, which that of StackEpr always is
  (`KeptAlive`). Losses can disturb one: its answer to a Soft_Reset of the source is given
  up, so that it is in READY while the source goes on with its EPR capabilities, whose
  chunks start CHUNK_SENDER_RESPONSE on the channel of the keep-alive timer. Nothing starts
  that one again until READY is entered anew (TLC finds it with `NRetry = 0` and one loss).
  An `entering_epr` that is left over from an entry whose GoodCRC was lost makes a later
  message start the timer of the entry there; an entry that is asked for while another is
  going on, which an Alert and a Soft_Reset of the source bring about, leaves one as well
  (TLC finds `KeepAliveGuarded` to hold with those two and no loss all the same).
- A refused EPR entry ends with status SUCCESS (`ucpd_pe_sm.c:845`), and a synchronous
  call may return the status of an earlier request (`ucpd_pe_sm.c:525`): nothing in the
  code or its comments says what they should return, so that no property is stated.

## 7. Plan

Done: the timers, the mailbox, the stack, the VBUS monitor and the connection, chunked
reception, the API; the refinement of the VBUS service; proofs about each of them, up to
the inductive invariants of the link, of the MessageIDs and of the conversation outside EPR
mode, what becomes of a request in any mode, and the keep-alive timer. Left, in this order:
1. The conversation in EPR mode: `Matches` with the turns of an entry and an exit, and from
   it `EprAgreed`.
2. An abstract link (each side's messages delivered in order, at most once) that
   UcpdStack implements; it is stated by `DeliveredOnce` and `NotMistaken` so far.
3. Requests, losses and retries together in one run, when the exceptions of section 6
   have been settled in the code.
4. Transmission of more than one chunk, should the policy engine get a caller for it.
