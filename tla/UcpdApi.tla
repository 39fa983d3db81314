------------------------------ MODULE UcpdApi ------------------------------
(***************************************************************************)
(* The application on top of UcpdStack: one thread that calls the API of   *)
(* ucpd.c, step by step, and the application's code that the worker runs   *)
(* in callbacks and in the policy, which calls the API as well.            *)
(*                                                                         *)
(* The worker preempts the thread between any two of its steps, and the    *)
(* thread only moves while the worker has nothing to do.  The checks that  *)
(* a call makes first are one step: the worker that comes between two of   *)
(* them may as well come after them.                                       *)
(***************************************************************************)
EXTENDS UcpdStack

CONSTANTS
  ThreadCalls,  \* the calls of the thread
  CodeCalls,    \* the calls of the code that the worker runs
  CodePlaces    \* where it makes them

ASSUME ApiAssumption ==
  /\ ThreadCalls \subseteq ApiCalls
  /\ CodeCalls \subseteq ApiCalls
  /\ CodePlaces \subseteq UserPlaces

VARIABLE thread   \* the call that the thread is in, and how far it is

apiVars == <<vars, thread>>

Idle == [pc |-> "IDLE", call |-> NONE]

UserCodes == {NoUserCode} \cup [place : CodePlaces, call : CodeCalls]

ApiInit == Init /\ thread = Idle

-----------------------------------------------------------------------------
\* UCPD_Worker, with what the application's code does in this run
ApiWorker ==
  /\ SlotsTaken
  /\ \E user \in UserCodes : Handled(Handling(user))
  /\ UNCHANGED <<wire, losses, waiting, told, thread>>

ThreadRuns(pc) == ~pend /\ thread.pc = pc
ThreadOnly == UNCHANGED <<pwr, phy, tim, wire, src, losses, waiting, told>>

\* The call is refused or goes on.
Call(call) ==
  /\ ThreadRuns("IDLE")
  /\ Accepts(p, call, FALSE)
  /\ thread' = [pc |-> "ACCEPTED", call |-> call]
  /\ UNCHANGED <<p, pend>> /\ ThreadOnly

SetEvent ==
  /\ ThreadRuns("ACCEPTED")
  /\ p' = [p EXCEPT !.dpm_event = RequestOf(thread.call)]
  /\ thread' = [thread EXCEPT !.pc = "EVENT_SET"]
  /\ UNCHANGED pend /\ ThreadOnly

\* The callback, and UCPD_PE_PRL_Event_Emit: the worker runs at once.
SetCallback ==
  /\ ThreadRuns("EVENT_SET")
  /\ p' = [p EXCEPT !.callback = CallbackOf(p, thread.call)]
  /\ pend' = TRUE
  /\ thread' = IF thread.call \in SpinningCalls THEN [thread EXCEPT !.pc = "SPIN"] ELSE Idle
  /\ ThreadOnly

\* The end of while (sync_operation)
Returns ==
  /\ ThreadRuns("SPIN")
  /\ ~p.sync_operation
  /\ thread' = Idle
  /\ UNCHANGED <<p, pend>> /\ ThreadOnly

\* The steps of UcpdStack other than the worker's and its simple application
Environment ==
  /\ \/ SourceGoodCRC
     \/ SourceSpeaks
     \/ SourceRetries
     \/ Received
     \/ Transmitted
     \/ HardResetTransmitted
     \/ SourceHardReset
     \/ SinkTx
     \/ VbusRemoved
     \/ VbusReturns
     \/ Reattach
     \/ \E c \in {0, 1} : UCPD_TIM_Expired(c)
  /\ UNCHANGED thread

ApiNext ==
  \/ ApiWorker
  \/ \E call \in ThreadCalls : Call(call)
  \/ SetEvent
  \/ SetCallback
  \/ Returns
  \/ Environment

ApiSpec == ApiInit /\ [][ApiNext]_apiVars

\* The fairness of UcpdStack; a call that has been made goes on, and the thread
\* looks at sync_operation again and again.
ApiFairness ==
  /\ Fairness
  /\ WF_apiVars(SetEvent \/ SetCallback)
  /\ SF_apiVars(Returns)

ApiFairSpec == ApiSpec /\ ApiFairness

-----------------------------------------------------------------------------
\* Properties

\* A call made by the application's code inside the worker never spins: nothing that
\* ends the operation could run any more.  (ucpd.c:95, 138, 166 against the places
\* where sync_operation is cleared before or after the callback)
NoSpinInHandler == ~p.stuck

\* An operation that was given up because its first message failed (ucpd_pe_sm.c:192):
\* the policy engine is back in READY with sync_operation still set, and that message
\* is still in the transmit buffer.
Abandoned ==
  /\ p.snk = "READY" /\ p.sync_operation
  /\ p.txKind \in {"Request", "EPRRequest", "EPREnter", "EPRExit"}

\* A thread that waits for its request gets on, whatever becomes of the request:
\* granted, refused, answered with a reset, cut off by a detach.
SpinEnds == thread.pc = "SPIN" ~> thread.pc # "SPIN" \/ Abandoned

\* A request that waits for READY is carried out or ends with the connection.  There are
\* two exceptions: the one that the worker's code made while the thread was between its
\* check and its write, and the one whose first message is blocked.
KeptRequest ==
  p.dpm_event # NONE /\ p'.dpm_event # p.dpm_event =>
    \/ p'.snk = Serving(p.dpm_event)
    \/ p'.cad # p.cad
    \/ thread.pc = "ACCEPTED"
    \/ Blocked(p')
RequestKept == [][KeptRequest]_apiVars
=============================================================================
