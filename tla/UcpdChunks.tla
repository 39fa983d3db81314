----------------------------- MODULE UcpdChunks -----------------------------
(***************************************************************************)
(* Reception of a chunked extended message: the states PRL_RCH_* of        *)
(* ucpd_prl_sm.c, with the byte-wide counters they work with, against a    *)
(* source that sends its messages chunk by chunk on request.               *)
(*                                                                         *)
(* The layers below are in UcpdProtocol.  What this module needs of them   *)
(* is that a message is received or not, that its sender hears a GoodCRC   *)
(* or not (all its attempts together), and that only one side transmits.   *)
(* The source is external; it sends a chunk other than the first one only  *)
(* in answer to a request for it.                                          *)
(*                                                                         *)
(* The counters count further than the buffer reaches, and the copy is not *)
(* checked against it.  What lies behind the buffer in memory (first the   *)
(* extended transmit buffer) is outside this module: overrun tells that a  *)
(* chunk has been written there.                                           *)
(***************************************************************************)
EXTENDS Integers

CONSTANTS
  Messages,   \* extended messages of the source
  Size,       \* the data_size of each
  ChunkLen,   \* UCPD_MAX_EXT_MSG_CHUNK_LEN, 26 in the code
  BufferLen,  \* bytes of the body in UCPD_EXT_MSG, 44 in the code
  CountMod,   \* number of values of the byte counters, 256 in the code
  NoMessage   \* no message

\* data_size is a field of 9 bits: it may exceed what a byte counts.
ASSUME ChunksAssumption ==
  /\ Size \in [Messages -> Nat \ {0}]
  /\ ChunkLen \in Nat \ {0}
  /\ BufferLen \in Nat \ {0}
  /\ CountMod \in Nat
  /\ ChunkLen < CountMod
  /\ BufferLen < CountMod
  /\ NoMessage \notin Messages

VARIABLES
  rch,       \* chunked_rx_state
  expected,  \* chunk_number_expected
  received,  \* num_bytes_received
  header,    \* the headers in ext_rx_buffer: whose message, and its data_size
  body,      \* the bytes in ext_rx_buffer
  overrun,   \* bytes of the source's message were written past the end of body
  timer,     \* UCPD_TIM_CHUNK_SENDER_RESPONSE is running
  passedUp,  \* the message the policy engine was given last
  wire,      \* what is being transmitted
  src        \* the source

vars == <<rch, expected, received, header, body, overrun, timer, passedUp, wire, src>>
reception == <<rch, expected, received, header, body, overrun, timer, passedUp>>

-----------------------------------------------------------------------------

\* The values of a byte counter; the bytes of the body.
Counts == 0 .. CountMod - 1
Places == 0 .. BufferLen - 1

\* Byte i of message m; what a cleared buffer holds.
Bytes == Messages \X Nat
Blank == [i \in Places |-> <<NoMessage, 0>>]
Headers == [of : Messages \cup {NoMessage}, size : Nat]

\* UCPD_EXT_MSG_INIT
NoHeader == [of |-> NoMessage, size |-> 0]

Silence == [what |-> "NOTHING", of |-> NoMessage, number |-> 0]
Chunk(m, k) == [what |-> "CHUNK", of |-> m, number |-> k]
Request(k) == [what |-> "REQUEST", of |-> NoMessage, number |-> k]

LastChunk(m, k) == (k + 1) * ChunkLen >= Size[m]

TypeOK ==
  /\ rch \in {"WAIT_FOR_MESSAGE_FROM_PRL", "REQUESTING_CHUNK", "WAITING_CHUNK"}
  /\ expected \in Counts
  /\ received \in Counts
  /\ header \in Headers
  /\ body \in [Places -> (Messages \cup {NoMessage}) \X Nat]
  /\ overrun \in BOOLEAN
  /\ timer \in BOOLEAN
  /\ passedUp \in [header : Headers, body : [Places -> (Messages \cup {NoMessage}) \X Nat]]
  /\ wire \in [what : {"NOTHING", "CHUNK", "REQUEST"},
               of : Messages \cup {NoMessage}, number : Nat]
  /\ wire.what = "CHUNK" => wire.of \in Messages
  /\ src \in [state : {"IDLE", "SENDING", "WAIT_REQUEST", "DONE"},
              msg : Messages \cup {NoMessage}, chunk : Nat]
  /\ src.state # "IDLE" => src.msg \in Messages

Init ==
  /\ rch = "WAIT_FOR_MESSAGE_FROM_PRL"
  /\ expected = 0
  /\ received = 0
  /\ header = NoHeader
  /\ body = Blank
  /\ overrun = FALSE
  /\ timer = FALSE
  /\ passedUp = [header |-> NoHeader, body |-> Blank]
  /\ wire = Silence
  /\ src = [state |-> "IDLE", msg |-> NoMessage, chunk |-> 0]

-----------------------------------------------------------------------------
\* The receiver

\* Mutant of WaitForMessage: the state of the error is not left.
WaitInError ==
  /\ rch' = "REPORT_ERROR"
  /\ header' = NoHeader
  /\ body' = Blank

\* PRL_RCH_STATE_WAIT_FOR_MESSAGE_FROM_PRL clears the buffer, not the counters.
WaitForMessage ==
  /\ rch' = "WAIT_FOR_MESSAGE_FROM_PRL"
  /\ header' = NoHeader
  /\ body' = Blank

\* PRL_RCH_STATE_REPORT_ERROR: the policy engine is told, nothing is stopped.
ReportError ==
  /\ WaitForMessage
  /\ UNCHANGED <<expected, received, overrun, passedUp>>

\* A difference in a uint8_t
Remaining(size, count) == (size - count) % CountMod

BytesToCopy(size, count) ==
  IF Remaining(size, count) > ChunkLen THEN ChunkLen ELSE Remaining(size, count)

\* The places, in the buffer or past its end, of n bytes that are copied to `count`.
Written(count, n) == count .. count + n - 1

\* The buffer after the n first bytes of chunk k of message m were copied.
Copied(bytes, count, n, m, k) ==
  [i \in Places |-> IF i \in Written(count, n)
                    THEN <<m, k * ChunkLen + (i - count)>> ELSE bytes[i]]

\* Mutant of Continue: the message is thought to be one byte longer.
ContinueTooFar(top, bytes, number) ==
  IF received' > top.size
  THEN /\ passedUp' = [header |-> top, body |-> bytes]
       /\ wire' = Silence
       /\ WaitForMessage
  ELSE /\ rch' = "REQUESTING_CHUNK"
       /\ header' = top
       /\ body' = bytes
       /\ wire' = Request(number)
       /\ UNCHANGED passedUp

\* PRL_RCH_STATE_PASS_UP_MESSAGE hands up what the buffer holds and clears it;
\* PRL_RCH_STATE_REQUESTING_CHUNK transmits a request for the next chunk.
Continue(top, bytes, number) ==
  IF received' >= top.size
  THEN /\ passedUp' = [header |-> top, body |-> bytes]
       /\ wire' = Silence
       /\ WaitForMessage
  ELSE /\ rch' = "REQUESTING_CHUNK"
       /\ header' = top
       /\ body' = bytes
       /\ wire' = Request(number)
       /\ UNCHANGED passedUp

\* The expected chunk: its bytes are added, whether or not the buffer reaches that
\* far, and both counters advance.
TakeChunk(m, k, count, top, bytes) ==
  /\ received' = (count + BytesToCopy(Size[m], count)) % CountMod
  /\ expected' = (k + 1) % CountMod
  /\ overrun' = (overrun \/ ~(Written(count, BytesToCopy(Size[m], count)) \subseteq Places))
  /\ Continue(top, Copied(bytes, count, BytesToCopy(Size[m], count), m, k), expected')

\* Mutant of ProcessChunk: chunk 0 does not start the count over.
ProcessKeepsCount(m, k, top, bytes) ==
  /\ timer' = FALSE
  /\ IF k = 0 THEN TakeChunk(m, 0, received, [of |-> m, size |-> Size[m]], Blank)
     ELSE IF k = expected THEN TakeChunk(m, k, received, top, bytes)
     ELSE ReportError /\ wire' = Silence

\* PRL_RCH_STATE_PROCESSING_EXTENDED_MESSAGE: chunk 0 starts a message over
\* whatever was expected, and any other chunk has to be the next one.  Its length
\* is taken from its own header, the end of the message from that of chunk 0.
ProcessChunk(m, k, top, bytes) ==
  /\ timer' = FALSE
  /\ IF k = 0 THEN TakeChunk(m, 0, 0, [of |-> m, size |-> Size[m]], Blank)
     ELSE IF k = expected THEN TakeChunk(m, k, received, top, bytes)
     ELSE ReportError /\ wire' = Silence

\* What the source makes of a chunk that was transmitted, acknowledged or not.
AfterChunk(heard) ==
  src' = [src EXCEPT !.state =
            IF ~heard THEN "IDLE"
            ELSE IF LastChunk(wire.of, wire.number) THEN "DONE" ELSE "WAIT_REQUEST"]

\* A chunk arrives.  When a message of the policy engine is on its way down,
\* PRL_TCH_STATE_MESSAGE_RECEIVED drops it and clears the buffer first.
ChunkArrives ==
  /\ wire.what = "CHUNK"
  /\ rch # "REQUESTING_CHUNK"
  /\ \/ ProcessChunk(wire.of, wire.number, header, body)
     \/ ProcessChunk(wire.of, wire.number, NoHeader, Blank)
  /\ \E heard \in BOOLEAN : AfterChunk(heard)

\* While a transmission waits for its GoodCRC nothing else is received
\* (ucpd_prl_sm.c:77), and a chunk may be lost as often as the source repeats it.
ChunkLost ==
  /\ wire.what = "CHUNK"
  /\ wire' = Silence
  /\ src' = [src EXCEPT !.state = "IDLE"]
  /\ UNCHANGED reception

\* Mutant of WaitingChunk: the timer is not started.
WaitingUnguarded ==
  /\ rch' = "WAITING_CHUNK"
  /\ UNCHANGED <<expected, received, header, body, overrun, timer, passedUp>>

\* PRL_TX_STATE_MESSAGE_SENT and PRL_RCH_STATE_WAITING_CHUNK
WaitingChunk ==
  /\ rch' = "WAITING_CHUNK"
  /\ timer' = TRUE
  /\ UNCHANGED <<expected, received, header, body, overrun, passedUp>>

\* The source answers a request for the chunk that it has next.
Answer(k) ==
  IF src.state = "WAIT_REQUEST" /\ k = src.chunk + 1
  THEN /\ wire' = Chunk(src.msg, k)
       /\ src' = [src EXCEPT !.state = "SENDING", !.chunk = k]
  ELSE wire' = Silence /\ UNCHANGED src

\* The request reaches the source.  If none of the GoodCRCs comes back the port
\* takes it for lost (PRL_TX_STATE_TRANSMISSION_ERROR).
RequestArrives ==
  /\ wire.what = "REQUEST"
  /\ Answer(wire.number)
  /\ \/ WaitingChunk
     \/ ReportError /\ UNCHANGED timer

RequestLost ==
  /\ wire.what = "REQUEST"
  /\ wire' = Silence
  /\ ReportError
  /\ UNCHANGED <<timer, src>>

\* A message of the policy engine replaces the request in the transmit buffer, and
\* its GoodCRC counts as that of the request.
RequestReplaced ==
  /\ wire.what = "REQUEST"
  /\ wire' = Silence
  /\ WaitingChunk
  /\ UNCHANGED src

\* PE_PRL_EVENT_CHUNK_RES_TIMER_TIMEOUT: the chunk may be on its way, and the reception
\* may be over already.
ChunkResponseTimeout ==
  /\ timer
  /\ timer' = FALSE
  /\ ReportError
  /\ UNCHANGED <<wire, src>>

\* Any other message ends the reception with PE_PRL_EVENT_PE_ERROR_WITH_MESSAGE; the
\* timer keeps running.
OtherMessage ==
  /\ wire.what = "NOTHING"
  /\ src.state \in {"IDLE", "DONE"}
  /\ rch = "WAITING_CHUNK"
  /\ ReportError
  /\ UNCHANGED <<timer, wire, src>>

\* PRL_INIT for a soft reset, and for a hard reset, which also stops the timers: the
\* layers below start over on both sides.
Reset ==
  /\ WaitForMessage
  /\ UNCHANGED <<expected, received, overrun, passedUp>>
  /\ timer' \in {timer, FALSE}
  /\ wire' = Silence
  /\ src' = [src EXCEPT !.state = "IDLE"]

-----------------------------------------------------------------------------
\* The source

\* A new message starts with chunk 0; overrun and passedUp speak of it from now on.
SourceBegins(m) ==
  /\ wire.what = "NOTHING"
  /\ src.state \in {"IDLE", "DONE"}
  /\ wire' = Chunk(m, 0)
  /\ src' = [state |-> "SENDING", msg |-> m, chunk |-> 0]
  /\ overrun' = FALSE
  /\ passedUp' = [header |-> NoHeader, body |-> Blank]
  /\ UNCHANGED <<rch, expected, received, header, body, timer>>

\* Its ChunkSenderRequestTimer expires, also while the request is on its way.
SourceGivesUp ==
  /\ src.state = "WAIT_REQUEST"
  /\ src' = [src EXCEPT !.state = "IDLE"]
  /\ UNCHANGED <<reception, wire>>

Next ==
  \/ ChunkArrives
  \/ ChunkLost
  \/ RequestArrives
  \/ RequestLost
  \/ RequestReplaced
  \/ ChunkResponseTimeout
  \/ OtherMessage
  \/ Reset
  \/ \E m \in Messages : SourceBegins(m)
  \/ SourceGivesUp

Spec == Init /\ [][Next]_vars

\* A transmission ends, received or lost, and a timer that runs expires.  Nothing is
\* asked of the source.
Fairness ==
  /\ WF_vars(ChunkArrives \/ ChunkLost)
  /\ WF_vars(RequestArrives \/ RequestLost \/ RequestReplaced)
  /\ WF_vars(ChunkResponseTimeout)

FairSpec == Spec /\ Fairness

-----------------------------------------------------------------------------
\* Properties

\* The messages that ext_rx_buffer has room for
InBuffer(m) == Size[m] <= BufferLen

\* Bytes 0 to n - 1 of message m, each in its place
Holds(bytes, m, n) == \A i \in Places : i < n => bytes[i] = <<m, i>>

\* A message that goes up with a header of its own goes up with the size that this
\* header tells, and if the buffer has room for it, with all of its bytes in order.
WholeWithHeader ==
  passedUp.header.size > 0 =>
    /\ passedUp.header.of \in Messages
    /\ passedUp.header.size = Size[passedUp.header.of]
    /\ passedUp.header.size < CountMod
    /\ InBuffer(passedUp.header.of) =>
         Holds(passedUp.body, passedUp.header.of, passedUp.header.size)

\* Only a message that the buffer has no room for is written past its end.
NothingOutside == overrun => ~InBuffer(src.msg)

\* A message that ext_rx_buffer has room for is collected inside the buffer, and when
\* it goes up with its header it is whole and in order, however often receptions were
\* given up, restarted or answered late.  Longer messages are the exception: the copy
\* is not bounded by the buffer, and what goes up of them is incomplete.
\* (ucpd_prl_sm.c:456-497)
PassedUpWhole == WholeWithHeader /\ NothingOutside

\* A message of which the source has been told that its last chunk was received has
\* gone up, with its header or without one when the port had cleared its buffer in
\* between, but not in silence.  Messages that the buffer has no room for are the
\* exception.  (ucpd_prl_sm.c:479-501)
DoneIsPassedUp ==
  src.state = "DONE" /\ InBuffer(src.msg) =>
    \/ passedUp.header = [of |-> src.msg, size |-> Size[src.msg]]
    \/ passedUp.header = NoHeader /\ passedUp.body # Blank

\* A reception ends, with a message or an error, or the source starts over with chunk
\* 0; also that of a message too long for the counters, which the port goes on
\* requesting beyond its end.  (ucpd_prl_sm.c:530-535)
ReceptionEnds ==
  []<>(\/ rch = "WAIT_FOR_MESSAGE_FROM_PRL"
       \/ wire.what = "CHUNK" /\ wire.number = 0)
=============================================================================
