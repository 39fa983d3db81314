-------------------------- MODULE UcpdChunksProofs --------------------------
(***************************************************************************)
(* A message that the receive buffer has room for is collected inside it,  *)
(* goes up whole when it goes up with its header, and has gone up when the *)
(* source takes it as delivered: for every set of messages, any length of  *)
(* the chunks and any buffer, both less than what the counters count.  The *)
(* messages may be longer than the buffer, and than the counters count; of *)
(* those nothing of the kind is stated.                                    *)
(***************************************************************************)
EXTENDS UcpdChunks, TLAPS

\* The buffer is empty unless a reception goes on, and its header is that of a
\* message.
HeaderKnown ==
  /\ rch = "WAIT_FOR_MESSAGE_FROM_PRL" => header = NoHeader
  /\ header.size > 0 => /\ header.of \in Messages
                        /\ header.size = Size[header.of]

\* What has been received of the message so far is its beginning, in whole chunks.
\* A message that the counters cannot count gives no such promise: it never ends.
Collected ==
  header.size > 0 /\ header.size < CountMod =>
    /\ received = expected * ChunkLen
    /\ received < header.size
    /\ Holds(body, header.of, received)

\* A chunk on the wire is the one that the source is sending.
SourceSends ==
  wire.what = "CHUNK" =>
    src.state = "SENDING" /\ src.msg = wire.of /\ src.chunk = wire.number

\* The port and the source speak of the same message: a chunk other than the first,
\* and a source that waits for the next request, belong to the header in the buffer.
SameMessage ==
  header.size > 0 =>
    /\ wire.what = "CHUNK" /\ wire.number # 0 => wire.of = header.of
    /\ src.state = "WAIT_REQUEST" => src.msg = header.of

IInv == TypeOK /\ HeaderKnown /\ Collected /\ SourceSends /\ SameMessage /\ WholeWithHeader

-----------------------------------------------------------------------------
\* Arithmetic

\* A value that fits in a byte counter is not changed by it.
LEMMA Fits ==
  /\ \A x \in Int : x % CountMod \in Counts
  /\ \A x \in Counts : x % CountMod = x
  BY ChunksAssumption DEF Counts

\* What is copied is no more than a chunk, and no more than the counter counts.
LEMMA CopyType ==
  ASSUME NEW size \in Nat, NEW count \in Counts
  PROVE  BytesToCopy(size, count) \in 0 .. ChunkLen
  <1>1. Remaining(size, count) \in Counts
    <2>1. size - count \in Int
      BY ChunksAssumption DEF Counts
    <2> QED
      BY <2>1, Fits DEF Remaining
  <1> QED
    BY <1>1, ChunksAssumption DEF BytesToCopy, Counts

\* Of a message that fits, the rest or a whole chunk is copied.
LEMMA CopyFits ==
  ASSUME NEW size \in Nat, NEW count \in Counts, size < CountMod, count < size
  PROVE  /\ BytesToCopy(size, count) = IF size - count > ChunkLen THEN ChunkLen
                                       ELSE size - count
         /\ count + BytesToCopy(size, count) \in Counts
         /\ (count + BytesToCopy(size, count)) % CountMod
              = count + BytesToCopy(size, count)
  <1>1. size - count \in Counts
    BY ChunksAssumption DEF Counts
  <1>2. Remaining(size, count) = size - count
    BY <1>1, Fits DEF Remaining
  <1>3. BytesToCopy(size, count) = IF size - count > ChunkLen THEN ChunkLen
                                   ELSE size - count
    BY <1>2 DEF BytesToCopy
  <1>4. count + BytesToCopy(size, count) \in Counts
    BY <1>3, ChunksAssumption DEF Counts
  <1> QED
    BY <1>3, <1>4, Fits

\* The next chunk begins where this one ends, and its number fits in the counter.
LEMMA NextPlace ==
  ASSUME NEW k \in Nat, k * ChunkLen + ChunkLen < CountMod
  PROVE  /\ (k + 1) % CountMod = k + 1
         /\ (k + 1) * ChunkLen = k * ChunkLen + ChunkLen
  <1>1. (k + 1) * ChunkLen = k * ChunkLen + ChunkLen
    BY ChunksAssumption
  <1>2. k * ChunkLen >= k
    BY ChunksAssumption
  <1>3. k + 1 \in Counts
    BY <1>2, ChunksAssumption DEF Counts
  <1> QED
    BY <1>1, <1>3, Fits

\* A chunk that is copied to its place adds to the beginning of its message.
LEMMA CopyExtends ==
  ASSUME NEW bytes, NEW count \in Counts, NEW n \in Nat, NEW m, NEW k \in Nat,
         count = k * ChunkLen, Holds(bytes, m, count)
  PROVE  Holds(Copied(bytes, count, n, m, k), m, count + n)
  <1> SUFFICES ASSUME NEW i \in Places, i < count + n
               PROVE  Copied(bytes, count, n, m, k)[i] = <<m, i>>
    BY DEF Holds
  <1>0. i \in Int /\ count \in Int
    BY ChunksAssumption DEF Places, Counts
  <1>1. CASE i < count
    <2>1. i \notin Written(count, n)
      BY <1>0, <1>1 DEF Written
    <2> QED
      BY <1>1, <2>1 DEF Copied, Holds
  <1>2. CASE ~(i < count)
    <2>1. i \in Written(count, n)
      BY <1>0, <1>2 DEF Written
    <2>2. k * ChunkLen + (i - count) = i
      BY <1>0
    <2> QED
      BY <2>1, <2>2 DEF Copied
  <1> QED
    BY <1>1, <1>2

\* The buffer keeps its type.
LEMMA CopiedType ==
  ASSUME NEW bytes \in [Places -> (Messages \cup {NoMessage}) \X Nat],
         NEW count \in Counts, NEW n \in Nat, NEW m \in Messages, NEW k \in Nat
  PROVE  Copied(bytes, count, n, m, k) \in [Places -> (Messages \cup {NoMessage}) \X Nat]
  <1> SUFFICES ASSUME NEW i \in Places, i \in Written(count, n)
               PROVE  k * ChunkLen + (i - count) \in Nat
    BY DEF Copied
  <1>1. k * ChunkLen \in Nat
    BY ChunksAssumption
  <1>2. i - count \in Nat
    BY ChunksAssumption DEF Places, Counts, Written
  <1> QED
    BY <1>1, <1>2

-----------------------------------------------------------------------------
\* The expected chunk

Contents == [Places -> (Messages \cup {NoMessage}) \X Nat]

\* The header in the buffer, if there is one, is that of message m, and of a message
\* that the counters can count the buffer holds the k chunks before this one.
Fitting(m, k, count, top, bytes) ==
  top.size > 0 =>
    /\ top = [of |-> m, size |-> Size[m]]
    /\ top.size < CountMod =>
         count = k * ChunkLen /\ count < top.size /\ Holds(bytes, m, count)

LEMMA SizeType == \A m \in Messages : Size[m] \in Nat /\ Size[m] > 0
  BY ChunksAssumption

LEMMA StartType ==
  /\ Blank \in Contents
  /\ NoHeader \in Headers
  /\ NoHeader.size = 0
  /\ 0 \in Counts
  BY ChunksAssumption DEF Blank, Contents, NoHeader, Headers, Counts

\* A chunk that fits either completes its message or is followed by the next one.
LEMMA ChunkFits ==
  ASSUME NEW m \in Messages, NEW k \in Nat, NEW count \in Counts,
         NEW top \in Headers, NEW bytes \in Contents,
         Fitting(m, k, count, top, bytes), top.size > 0, top.size < CountMod,
         NEW n, n = BytesToCopy(Size[m], count)
  PROVE  /\ (count + n) % CountMod = count + n
         /\ Holds(Copied(bytes, count, n, m, k), m, count + n)
         /\ count + n >= top.size => count + n = top.size
         /\ count + n < top.size => /\ (k + 1) % CountMod = k + 1
                                    /\ count + n = (k + 1) * ChunkLen
  <1>1. top.size = Size[m] /\ count = k * ChunkLen /\ count < Size[m]
        /\ Size[m] < CountMod /\ Holds(bytes, m, count)
    BY DEF Fitting
  <1>2. Size[m] \in Nat
    BY SizeType
  <1>3. /\ n = IF Size[m] - count > ChunkLen THEN ChunkLen ELSE Size[m] - count
        /\ (count + n) % CountMod = count + n
    BY <1>1, <1>2, CopyFits
  <1>4. n \in Nat
    BY <1>2, CopyType, ChunksAssumption
  <1>5. Holds(Copied(bytes, count, n, m, k), m, count + n)
    BY <1>1, <1>4, CopyExtends
  <1>6. count \in Nat /\ ChunkLen \in Nat /\ CountMod \in Nat
    BY ChunksAssumption DEF Counts
  <1>7. count + n >= top.size => count + n = top.size
    BY <1>1, <1>2, <1>3, <1>6
  <1>8. ASSUME count + n < top.size
        PROVE  (k + 1) % CountMod = k + 1 /\ count + n = (k + 1) * ChunkLen
    <2>1. n = ChunkLen
      BY <1>1, <1>2, <1>3, <1>6, <1>8
    <2>2. k * ChunkLen + ChunkLen < CountMod
      BY <1>1, <1>2, <1>6, <1>8, <2>1
    <2> QED
      BY <1>1, <2>1, <2>2, NextPlace
  <1> QED
    BY <1>3, <1>5, <1>7, <1>8

\* What the expected chunk leaves behind: a message passed up is whole, and one that
\* goes on is that of the header in the buffer, with its beginning.
LEMMA ChunkTaken ==
  ASSUME NEW m \in Messages, NEW k \in Nat, NEW count \in Counts,
         NEW top \in Headers, NEW bytes \in Contents,
         Fitting(m, k, count, top, bytes), TypeOK, WholeWithHeader,
         TakeChunk(m, k, count, top, bytes)
  PROVE  /\ rch' \in {"WAIT_FOR_MESSAGE_FROM_PRL", "REQUESTING_CHUNK"}
         /\ expected' \in Counts /\ received' \in Counts /\ overrun' \in BOOLEAN
         /\ header' \in Headers /\ body' \in Contents
         /\ passedUp' \in [header : Headers, body : Contents]
         /\ wire' \in {Silence, Request(expected')}
         /\ header'.size > 0 => header'.of = m
         /\ HeaderKnown' /\ Collected' /\ WholeWithHeader'
  <1> DEFINE n == BytesToCopy(Size[m], count)
             next == Copied(bytes, count, n, m, k)
  <1>1. /\ received' = (count + n) % CountMod
        /\ expected' = (k + 1) % CountMod
        /\ Continue(top, next, expected')
    BY DEF TakeChunk
  <1>2. n \in Nat /\ count \in Nat /\ Size[m] \in Nat
    BY SizeType, CopyType, ChunksAssumption DEF Counts
  <1>3. expected' \in Counts /\ received' \in Counts /\ overrun' \in BOOLEAN
    <2>1. expected' \in Counts /\ received' \in Counts
      BY <1>1, <1>2, Fits
    <2>2. overrun' = (overrun \/ ~(Written(count, n) \subseteq Places))
      BY DEF TakeChunk
    <2>3. overrun' \in BOOLEAN
      BY <2>2
    <2> QED
      BY <2>1, <2>3
  <1>4. next \in Contents
    BY <1>2, CopiedType DEF Contents
  <1>5. top \in Headers /\ top.size \in Nat
    BY DEF Headers
  <1>6. top.size > 0 => top.of = m /\ top.size = Size[m]
    BY DEF Fitting
  <1>7. top.size > 0 /\ top.size < CountMod =>
          /\ received' = count + n
          /\ Holds(next, m, count + n)
          /\ received' >= top.size => received' = top.size
          /\ received' < top.size => expected' = k + 1 /\ received' = (k + 1) * ChunkLen
    BY <1>1, ChunkFits
  <1>8. received' \in Nat /\ received' < CountMod /\ CountMod \in Nat
    BY <1>3, ChunksAssumption DEF Counts
  <1> HIDE DEF n, next
  <1>9. CASE received' >= top.size
    <2>1. /\ passedUp' = [header |-> top, body |-> next]
          /\ wire' = Silence
          /\ rch' = "WAIT_FOR_MESSAGE_FROM_PRL" /\ header' = NoHeader /\ body' = Blank
      BY <1>1, <1>9 DEF Continue, WaitForMessage
    <2>2. top.size < CountMod
      BY <1>5, <1>8, <1>9
    <2>3. top.size > 0 => Holds(next, m, top.size)
      BY <1>7, <1>9, <2>2
    <2>4. WholeWithHeader'
      BY <1>6, <2>1, <2>2, <2>3 DEF WholeWithHeader
    <2>5. passedUp' \in [header : Headers, body : Contents]
      BY <1>4, <1>5, <2>1
    <2>6. ~(header'.size > 0)
      BY <2>1, StartType
    <2>7. HeaderKnown' /\ Collected'
      BY <2>1, <2>6 DEF HeaderKnown, Collected
    <2> QED
      BY <1>3, <2>1, <2>4, <2>5, <2>6, <2>7, StartType
  <1>10. CASE ~(received' >= top.size)
    <2>1. /\ rch' = "REQUESTING_CHUNK" /\ header' = top /\ body' = next
          /\ wire' = Request(expected') /\ passedUp' = passedUp
      BY <1>1, <1>10 DEF Continue
    <2>2. received' < top.size /\ top.size > 0
      BY <1>5, <1>8, <1>10
    <2>3. WholeWithHeader'
      BY <2>1 DEF WholeWithHeader
    <2>4. passedUp' \in [header : Headers, body : Contents]
      BY <2>1 DEF TypeOK, Contents
    <2>5. HeaderKnown'
      BY <1>6, <2>1, <2>2 DEF HeaderKnown
    <2>6. header'.size < CountMod =>
            received' = expected' * ChunkLen /\ Holds(body', header'.of, received')
      BY <1>6, <1>7, <2>1, <2>2
    <2>7. Collected'
      BY <2>1, <2>2, <2>6 DEF Collected
    <2> QED
      BY <1>3, <1>4, <1>5, <1>6, <2>1, <2>2, <2>3, <2>4, <2>5, <2>7
  <1> QED
    BY <1>9, <1>10

-----------------------------------------------------------------------------
\* The invariant

LEMMA InitInv == Init => IInv
  <1> SUFFICES ASSUME Init PROVE IInv
    OBVIOUS
  <1>1. TypeOK
    BY StartType DEF Init, TypeOK, Silence, Contents
  <1>2. header.size = 0 /\ passedUp.header.size = 0
    BY StartType DEF Init
  <1>3. wire.what # "CHUNK"
    BY DEF Init, Silence
  <1>4. rch = "WAIT_FOR_MESSAGE_FROM_PRL" /\ header = NoHeader
    BY DEF Init
  <1> QED
    BY <1>1, <1>2, <1>3, <1>4
    DEF IInv, HeaderKnown, Collected, SourceSends, SameMessage, WholeWithHeader

\* The error and the reset empty the buffer.
LEMMA BufferEmptied ==
  ASSUME TypeOK, WholeWithHeader, WaitForMessage,
         UNCHANGED <<expected, received, overrun, passedUp>>
  PROVE  /\ rch' = "WAIT_FOR_MESSAGE_FROM_PRL"
         /\ expected' \in Counts /\ received' \in Counts /\ overrun' \in BOOLEAN
         /\ header' \in Headers /\ body' \in Contents
         /\ passedUp' \in [header : Headers, body : Contents]
         /\ ~(header'.size > 0)
         /\ HeaderKnown' /\ Collected' /\ WholeWithHeader' /\ SameMessage'
  <1>1. rch' = "WAIT_FOR_MESSAGE_FROM_PRL" /\ header' = NoHeader /\ body' = Blank
    BY DEF WaitForMessage
  <1>2. ~(header'.size > 0)
    BY <1>1, StartType
  <1> QED
    BY <1>1, <1>2, StartType
    DEF TypeOK, Contents, HeaderKnown, Collected, WholeWithHeader, SameMessage

\* What is on the wire, and the source, have their types.
WireType ==
  /\ wire \in [what : {"NOTHING", "CHUNK", "REQUEST"},
               of : Messages \cup {NoMessage}, number : Nat]
  /\ wire.what = "CHUNK" => wire.of \in Messages

SourceType ==
  /\ src \in [state : {"IDLE", "SENDING", "WAIT_REQUEST", "DONE"},
              msg : Messages \cup {NoMessage}, chunk : Nat]
  /\ src.state # "IDLE" => src.msg \in Messages

ReceptionType ==
  /\ rch \in {"WAIT_FOR_MESSAGE_FROM_PRL", "REQUESTING_CHUNK", "WAITING_CHUNK"}
  /\ expected \in Counts /\ received \in Counts /\ overrun \in BOOLEAN
  /\ header \in Headers /\ body \in Contents
  /\ passedUp \in [header : Headers, body : Contents]

LEMMA TypeParts ==
  /\ TypeOK <=> ReceptionType /\ timer \in BOOLEAN /\ WireType /\ SourceType
  /\ TypeOK' <=> ReceptionType' /\ timer' \in BOOLEAN /\ WireType' /\ SourceType'
  BY DEF TypeOK, ReceptionType, WireType, SourceType, Contents

LEMMA WireTypes ==
  /\ wire' = Silence => WireType' /\ wire'.what = "NOTHING"
  /\ \A k \in Nat : wire' = Request(k) => WireType' /\ wire'.what = "REQUEST"
  /\ \A m \in Messages, k \in Nat : wire' = Chunk(m, k) =>
       WireType' /\ wire'.what = "CHUNK" /\ wire'.of = m /\ wire'.number = k
  BY DEF WireType, Silence, Request, Chunk

\* The source stays with its message, or has none to wait for.
LEMMA StateOnly ==
  ASSUME SourceType, NEW st \in {"IDLE", "WAIT_REQUEST", "DONE"},
         src.state # "IDLE" \/ st = "IDLE", src' = [src EXCEPT !.state = st]
  PROVE  SourceType' /\ src'.state = st /\ src'.msg = src.msg
  BY DEF SourceType

LEMMA ChunkArrivesKeeps == ASSUME IInv, ChunkArrives PROVE IInv'
  <1> USE DEF IInv
  <1>1. /\ wire.what = "CHUNK" /\ wire.of \in Messages /\ wire.number \in Nat
        /\ src.state = "SENDING" /\ src.msg = wire.of /\ src.chunk = wire.number
    BY DEF ChunkArrives, TypeOK, SourceSends
  <1>2. PICK m \in Messages, k \in Nat : m = wire.of /\ k = wire.number
    BY <1>1
  <1>3. PICK top, bytes : /\ \/ top = header /\ bytes = body
                             \/ top = NoHeader /\ bytes = Blank
                          /\ ProcessChunk(m, k, top, bytes)
    BY <1>2 DEF ChunkArrives
  <1>4. top \in Headers /\ bytes \in Contents
    BY <1>3, StartType DEF TypeOK, Contents
  <1>5. timer' = FALSE
    BY <1>3 DEF ProcessChunk
  <1>6. /\ SourceType'
        /\ src'.state # "SENDING"
        /\ src'.state = "WAIT_REQUEST" => src'.msg = m
    <2>1. PICK st \in {"IDLE", "WAIT_REQUEST", "DONE"} : src' = [src EXCEPT !.state = st]
      BY DEF ChunkArrives, AfterChunk
    <2> QED
      BY <1>1, <1>2, <2>1, StateOnly, TypeParts
  <1>7. ASSUME NEW count \in Counts, NEW first \in Headers, NEW start \in Contents,
               Fitting(m, k, count, first, start), TakeChunk(m, k, count, first, start)
        PROVE  IInv'
    <2>1. /\ rch' \in {"WAIT_FOR_MESSAGE_FROM_PRL", "REQUESTING_CHUNK"}
          /\ expected' \in Counts /\ received' \in Counts /\ overrun' \in BOOLEAN
          /\ header' \in Headers /\ body' \in Contents
          /\ passedUp' \in [header : Headers, body : Contents]
          /\ wire' \in {Silence, Request(expected')}
          /\ header'.size > 0 => header'.of = m
          /\ HeaderKnown' /\ Collected' /\ WholeWithHeader'
      BY <1>7, ChunkTaken
    <2>2. expected' \in Nat
      BY <2>1, ChunksAssumption DEF Counts
    <2>3. WireType' /\ wire'.what # "CHUNK"
      BY <2>1, <2>2, WireTypes
    <2>4. TypeOK'
      BY <1>5, <1>6, <2>1, <2>3, TypeParts DEF ReceptionType
    <2>5. SourceSends' /\ SameMessage'
      BY <1>6, <2>1, <2>3 DEF SourceSends, SameMessage
    <2> QED
      BY <2>1, <2>4, <2>5
  <1>8. CASE k = 0
    <2>1. TakeChunk(m, k, 0, [of |-> m, size |-> Size[m]], Blank)
      BY <1>3, <1>8 DEF ProcessChunk
    <2>2. Fitting(m, k, 0, [of |-> m, size |-> Size[m]], Blank)
      <3>1. 0 = 0 * ChunkLen
        BY ChunksAssumption
      <3>2. Holds(Blank, m, 0)
        BY ChunksAssumption DEF Holds, Places
      <3> QED
        BY <1>8, <3>1, <3>2, SizeType DEF Fitting
    <2>3. [of |-> m, size |-> Size[m]] \in Headers
      BY SizeType DEF Headers
    <2> QED
      BY <1>7, <2>1, <2>2, <2>3, StartType
  <1>9. CASE k # 0 /\ k = expected
    <2>1. TakeChunk(m, k, received, top, bytes)
      BY <1>3, <1>9 DEF ProcessChunk
    <2>2. Fitting(m, k, received, top, bytes)
      <3>1. CASE top = NoHeader
        BY <3>1, StartType DEF Fitting
      <3>2. CASE top = header /\ bytes = body
        <4> SUFFICES ASSUME header.size > 0
                     PROVE  /\ header = [of |-> m, size |-> Size[m]]
                            /\ header.size < CountMod =>
                                 /\ received = k * ChunkLen
                                 /\ received < header.size
                                 /\ Holds(body, m, received)
          BY <3>2 DEF Fitting
        <4>1. header.of = m
          BY <1>1, <1>2, <1>9 DEF SameMessage
        <4>2. header = [of |-> header.of, size |-> header.size]
          BY DEF TypeOK, Headers
        <4> QED
          BY <1>9, <4>1, <4>2 DEF HeaderKnown, Collected
      <3> QED
        BY <1>3, <3>1, <3>2
    <2> QED
      BY <1>4, <1>7, <2>1, <2>2 DEF TypeOK
  <1>10. CASE k # 0 /\ k # expected
    <2>1. ReportError /\ wire' = Silence
      BY <1>3, <1>10 DEF ProcessChunk
    <2>2. WaitForMessage /\ UNCHANGED <<expected, received, overrun, passedUp>>
      BY <2>1 DEF ReportError
    <2>3. WireType' /\ wire'.what # "CHUNK"
      BY <2>1, WireTypes
    <2>4. TypeOK'
      BY <1>5, <1>6, <2>2, <2>3, BufferEmptied, TypeParts DEF ReceptionType
    <2> QED
      BY <2>2, <2>3, <2>4, BufferEmptied DEF SourceSends
  <1> QED
    BY <1>8, <1>9, <1>10

\* What the answer of the source leaves on the wire.
LEMMA Answered ==
  ASSUME IInv, wire.what = "REQUEST", Answer(wire.number)
  PROVE  /\ WireType' /\ SourceType' /\ SourceSends'
         /\ header.size > 0 =>
              /\ wire'.what = "CHUNK" => wire'.of = header.of
              /\ src'.state = "WAIT_REQUEST" => src'.msg = header.of
  <1>1. WireType /\ SourceType /\ wire.number \in Nat
    BY TypeParts DEF IInv, WireType
  <1>2. CASE src.state = "WAIT_REQUEST" /\ wire.number = src.chunk + 1
    <2>1. /\ wire' = Chunk(src.msg, wire.number)
          /\ src' = [src EXCEPT !.state = "SENDING", !.chunk = wire.number]
      BY <1>2 DEF Answer
    <2>2. src.msg \in Messages
      BY <1>1, <1>2 DEF SourceType
    <2>3. WireType' /\ wire'.what = "CHUNK" /\ wire'.of = src.msg
          /\ wire'.number = wire.number
      BY <1>1, <2>1, <2>2, WireTypes
    <2>4. SourceType' /\ src'.state = "SENDING" /\ src'.msg = src.msg
          /\ src'.chunk = wire.number
      BY <1>1, <2>1, <2>2 DEF SourceType
    <2>5. SourceSends'
      BY <2>3, <2>4 DEF SourceSends
    <2> QED
      BY <1>2, <2>3, <2>4, <2>5 DEF IInv, SameMessage
  <1>3. CASE ~(src.state = "WAIT_REQUEST" /\ wire.number = src.chunk + 1)
    <2>1. wire' = Silence /\ src' = src
      BY <1>3 DEF Answer
    <2>2. WireType' /\ wire'.what = "NOTHING"
      BY <2>1, WireTypes
    <2>3. SourceType' /\ SourceSends'
      BY <1>1, <2>1, <2>2 DEF SourceType, SourceSends
    <2> QED
      BY <2>1, <2>2, <2>3 DEF IInv, SameMessage
  <1> QED
    BY <1>2, <1>3

\* An action that empties the buffer keeps the invariant if it keeps the types and
\* what SourceSends says.
LEMMA EmptyKeeps ==
  ASSUME IInv, WaitForMessage, UNCHANGED <<expected, received, overrun, passedUp>>,
         timer' \in BOOLEAN, WireType', SourceType', SourceSends'
  PROVE  IInv'
  BY BufferEmptied, TypeParts DEF IInv, ReceptionType

\* So does one that leaves the message in the buffer alone, if the port and the
\* source go on speaking of the same one.
LEMMA BufferKept ==
  ASSUME IInv, UNCHANGED <<expected, received, header, body>>, overrun' \in BOOLEAN,
         passedUp' \in {passedUp, [header |-> NoHeader, body |-> Blank]},
         rch' \in {rch, "WAITING_CHUNK"},
         timer' \in BOOLEAN, WireType', SourceType', SourceSends', SameMessage'
  PROVE  IInv'
  <1>1. WholeWithHeader' /\ passedUp' \in [header : Headers, body : Contents]
    <2>1. CASE passedUp' = passedUp
      BY <2>1, TypeParts DEF IInv, WholeWithHeader, ReceptionType
    <2>2. CASE passedUp' = [header |-> NoHeader, body |-> Blank]
      BY <2>2, StartType DEF WholeWithHeader
    <2> QED
      BY <2>1, <2>2
  <1>2. ReceptionType'
    BY <1>1, TypeParts DEF IInv, ReceptionType
  <1>3. HeaderKnown' /\ Collected'
    BY DEF IInv, HeaderKnown, Collected
  <1> QED
    BY <1>1, <1>2, <1>3, TypeParts DEF IInv

\* Every step keeps the invariant.
LEMMA NextInv == IInv /\ [Next]_vars => IInv'
  <1> SUFFICES ASSUME IInv, [Next]_vars PROVE IInv'
    OBVIOUS
  <1>0. ReceptionType /\ timer \in BOOLEAN /\ WireType /\ SourceType
        /\ SourceSends /\ SameMessage /\ overrun \in BOOLEAN
    BY TypeParts DEF IInv, ReceptionType
  <1>1. CASE ChunkArrives
    BY <1>1, ChunkArrivesKeeps
  <1>2. CASE ChunkLost
    <2>1. wire' = Silence /\ src' = [src EXCEPT !.state = "IDLE"] /\ UNCHANGED reception
      BY <1>2 DEF ChunkLost
    <2>2. WireType' /\ wire'.what = "NOTHING"
      BY <2>1, WireTypes
    <2>3. SourceType' /\ src'.state = "IDLE"
      BY <1>0, <2>1, StateOnly
    <2>4. SourceSends' /\ SameMessage'
      BY <2>2, <2>3 DEF SourceSends, SameMessage
    <2> QED
      BY <1>0, <2>1, <2>2, <2>3, <2>4, BufferKept DEF reception
  <1>3. CASE RequestArrives
    <2>1. wire.what = "REQUEST" /\ Answer(wire.number)
      BY <1>3 DEF RequestArrives
    <2>2. WireType' /\ SourceType' /\ SourceSends'
      BY <2>1, Answered
    <2>3. CASE WaitingChunk
      <3>1. /\ UNCHANGED <<expected, received, header, body, overrun, passedUp>>
            /\ rch' = "WAITING_CHUNK" /\ timer' = TRUE
        BY <2>3 DEF WaitingChunk
      <3>2. SameMessage'
        BY <2>1, <3>1, Answered DEF SameMessage
      <3> QED
        BY <1>0, <2>2, <3>1, <3>2, BufferKept
    <2>4. CASE ReportError /\ UNCHANGED timer
      BY <1>0, <2>2, <2>4, EmptyKeeps DEF ReportError
    <2> QED
      BY <1>3, <2>3, <2>4 DEF RequestArrives
  <1>4. CASE RequestLost
    <2>1. wire' = Silence /\ src' = src
      BY <1>4 DEF RequestLost
    <2>2. WireType' /\ SourceType' /\ SourceSends'
      BY <1>0, <2>1, WireTypes DEF SourceType, SourceSends
    <2> QED
      BY <1>0, <1>4, <2>2, EmptyKeeps DEF RequestLost, ReportError
  <1>5. CASE RequestReplaced
    <2>1. wire' = Silence /\ src' = src
      BY <1>5 DEF RequestReplaced
    <2>2. WireType' /\ SourceType' /\ SourceSends' /\ wire'.what = "NOTHING"
      BY <1>0, <2>1, WireTypes DEF SourceType, SourceSends
    <2>3. /\ UNCHANGED <<expected, received, header, body, overrun, passedUp>>
          /\ rch' = "WAITING_CHUNK" /\ timer' = TRUE
      BY <1>5 DEF RequestReplaced, WaitingChunk
    <2>4. SameMessage'
      BY <1>0, <2>1, <2>2, <2>3 DEF SameMessage
    <2> QED
      BY <1>0, <2>2, <2>3, <2>4, BufferKept
  <1>6. CASE ChunkResponseTimeout
    <2>1. timer' = FALSE /\ wire' = wire /\ src' = src
      BY <1>6 DEF ChunkResponseTimeout
    <2>2. WireType' /\ SourceType' /\ SourceSends'
      BY <1>0, <2>1 DEF WireType, SourceType, SourceSends
    <2> QED
      BY <1>6, <2>1, <2>2, EmptyKeeps DEF ChunkResponseTimeout, ReportError
  <1>7. CASE OtherMessage
    <2>1. timer' = timer /\ wire' = wire /\ src' = src
      BY <1>7 DEF OtherMessage
    <2>2. WireType' /\ SourceType' /\ SourceSends'
      BY <1>0, <2>1 DEF WireType, SourceType, SourceSends
    <2> QED
      BY <1>0, <1>7, <2>1, <2>2, EmptyKeeps DEF OtherMessage, ReportError
  <1>8. CASE Reset
    <2>1. /\ wire' = Silence /\ src' = [src EXCEPT !.state = "IDLE"]
          /\ timer' \in {timer, FALSE}
      BY <1>8 DEF Reset
    <2>2. WireType' /\ wire'.what = "NOTHING"
      BY <2>1, WireTypes
    <2>3. SourceType' /\ SourceSends'
      BY <1>0, <2>1, <2>2, StateOnly DEF SourceSends
    <2> QED
      BY <1>0, <1>8, <2>1, <2>2, <2>3, EmptyKeeps DEF Reset
  <1>9. CASE \E m \in Messages : SourceBegins(m)
    <2>1. PICK m \in Messages : SourceBegins(m)
      BY <1>9
    <2>2. /\ wire' = Chunk(m, 0)
          /\ src' = [state |-> "SENDING", msg |-> m, chunk |-> 0]
          /\ passedUp' = [header |-> NoHeader, body |-> Blank] /\ overrun' = FALSE
          /\ UNCHANGED <<rch, expected, received, header, body, timer>>
      BY <2>1 DEF SourceBegins
    <2>3. WireType' /\ wire'.what = "CHUNK" /\ wire'.of = m /\ wire'.number = 0
      BY <2>2, WireTypes
    <2>4. SourceType' /\ SourceSends'
      BY <2>2, <2>3 DEF SourceType, SourceSends
    <2>5. SameMessage'
      BY <2>2, <2>3 DEF SameMessage
    <2> QED
      BY <1>0, <2>2, <2>3, <2>4, <2>5, BufferKept
  <1>10. CASE SourceGivesUp
    <2>1. wire' = wire /\ src' = [src EXCEPT !.state = "IDLE"] /\ UNCHANGED reception
          /\ src.state = "WAIT_REQUEST"
      BY <1>10 DEF SourceGivesUp
    <2>2. SourceType' /\ src'.state = "IDLE"
      BY <1>0, <2>1, StateOnly
    <2>3. WireType' /\ wire.what # "CHUNK"
      BY <1>0, <2>1 DEF WireType, SourceSends
    <2>4. SourceSends' /\ SameMessage'
      BY <2>1, <2>2, <2>3 DEF SourceSends, SameMessage
    <2> QED
      BY <1>0, <2>1, <2>2, <2>3, <2>4, BufferKept DEF reception
  <1>11. CASE UNCHANGED vars
    BY <1>11 DEF vars, IInv, TypeOK, HeaderKnown, Collected, SourceSends, SameMessage,
                 WholeWithHeader
  <1> QED
    BY <1>1, <1>2, <1>3, <1>4, <1>5, <1>6, <1>7, <1>8, <1>9, <1>10, <1>11 DEF Next

LEMMA Invariant == Spec => []IInv
  BY InitInv, NextInv, PTL DEF Spec

\* The state of the reception, its byte-wide counters, the buffer and the source keep
\* their types.
THEOREM TypeCorrect == Spec => []TypeOK
  <1>1. IInv => TypeOK
    BY DEF IInv
  <1> QED
    BY <1>1, Invariant, PTL

-----------------------------------------------------------------------------
\* What the buffer has room for stays inside it and goes up

\* The counters stand at chunk k of message m, if the buffer has room for it.
Expects(m, k) ==
  InBuffer(m) =>
    expected = k /\ received = k * ChunkLen /\ received < Size[m]

\* The port counts in step with the source, whether or not it still has the buffer.
InStep ==
  /\ src.state = "WAIT_REQUEST" => Expects(src.msg, src.chunk + 1)
  /\ wire.what = "CHUNK" /\ wire.number # 0 => Expects(wire.of, wire.number)

HeaderOrNone == header.size > 0 \/ header = NoHeader

DInv == IInv /\ InStep /\ HeaderOrNone /\ DoneIsPassedUp /\ NothingOutside

\* Message m has gone up, with its header or without one.
GoneUp(m) ==
  \/ passedUp.header = [of |-> m, size |-> Size[m]]
  \/ passedUp.header = NoHeader /\ passedUp.body # Blank

LEMMA DoneParts ==
  ASSUME src'.state = "DONE" /\ InBuffer(src'.msg) => GoneUp(src.msg)',
         src'.msg = src.msg
  PROVE  DoneIsPassedUp'
  BY DEF DoneIsPassedUp, GoneUp, InBuffer

\* A message that the buffer has room for: the counters can count it.
LEMMA InBufferCounts == \A m \in Messages : InBuffer(m) => Size[m] < CountMod
  BY SizeType, ChunksAssumption DEF InBuffer

\* The expected chunk of such a message is written inside the buffer: the last one
\* sends the message up, after any other the counters are at the next one.
LEMMA CountedChunk ==
  ASSUME NEW m \in Messages, NEW k \in Nat, NEW count \in Counts,
         NEW top \in {[of |-> m, size |-> Size[m]], NoHeader}, NEW bytes \in Contents,
         InBuffer(m), count = k * ChunkLen, count < Size[m],
         TakeChunk(m, k, count, top, bytes)
  PROVE  /\ LastChunk(m, k) => GoneUp(m)'
         /\ ~LastChunk(m, k) => /\ expected' = k + 1
                                /\ received' = (k + 1) * ChunkLen
                                /\ received' < Size[m]
         /\ overrun' => overrun
  <1> DEFINE n == BytesToCopy(Size[m], count)
             next == Copied(bytes, count, n, m, k)
  <1>1. /\ received' = (count + n) % CountMod
        /\ expected' = (k + 1) % CountMod
        /\ overrun' = (overrun \/ ~(Written(count, n) \subseteq Places))
        /\ Continue(top, next, expected')
    BY DEF TakeChunk
  <1>2. /\ Size[m] \in Nat /\ Size[m] > 0 /\ Size[m] < CountMod
        /\ Size[m] <= BufferLen /\ BufferLen \in Nat
        /\ count \in Nat /\ ChunkLen \in Nat /\ ChunkLen > 0 /\ CountMod \in Nat
    BY SizeType, InBufferCounts, ChunksAssumption DEF Counts, InBuffer
  <1>3. /\ n = IF Size[m] - count > ChunkLen THEN ChunkLen ELSE Size[m] - count
        /\ received' = count + n
    BY <1>1, <1>2, CopyFits
  <1>4. n \in Nat /\ n > 0
    BY <1>2, <1>3
  <1>5. (k + 1) * ChunkLen = k * ChunkLen + ChunkLen
    BY <1>2
  <1>6. ASSUME LastChunk(m, k) PROVE GoneUp(m)'
    <2>1. count + ChunkLen >= Size[m]
      BY <1>5, <1>6 DEF LastChunk
    <2>2. received' = Size[m]
      BY <1>2, <1>3, <2>1
    <2>3. top.size \in {Size[m], 0}
      BY StartType
    <2>4. received' >= top.size
      BY <1>2, <2>2, <2>3
    <2>5. passedUp' = [header |-> top, body |-> next]
      BY <1>1, <2>4 DEF Continue
    <2>6. next # Blank
      <3>0. count \in Places /\ count \in Written(count, n)
        BY <1>2, <1>4 DEF Places, Written
      <3>1. next[count] = <<m, k * ChunkLen + (count - count)>>
        BY <3>0 DEF Copied
      <3>2. Blank[count] = <<NoMessage, 0>>
        BY <3>0 DEF Blank
      <3> QED
        BY <3>1, <3>2, ChunksAssumption
    <2> QED
      BY <2>5, <2>6 DEF GoneUp
  <1>7. ASSUME ~LastChunk(m, k)
        PROVE  /\ expected' = k + 1
               /\ received' = (k + 1) * ChunkLen
               /\ received' < Size[m]
    <2>1. (k + 1) * ChunkLen \in Nat
      BY <1>2
    <2>2. count + ChunkLen < Size[m]
      BY <1>2, <1>5, <1>7, <2>1 DEF LastChunk
    <2>3. received' = (k + 1) * ChunkLen /\ received' < Size[m]
      BY <1>2, <1>3, <1>5, <2>2
    <2>4. k * ChunkLen + ChunkLen < CountMod
      BY <1>2, <2>2
    <2> QED
      BY <1>1, <2>3, <2>4, NextPlace
  <1>8. overrun' => overrun
    <2>1. count + n <= BufferLen
      BY <1>2, <1>3
    <2>2. Written(count, n) \subseteq Places
      BY <1>2, <1>4, <2>1 DEF Written, Places
    <2> QED
      BY <1>1, <2>2
  <1> QED
    BY <1>6, <1>7, <1>8

\* The arrival of a chunk.
LEMMA ChunkArrivesCounts ==
  ASSUME DInv, ChunkArrives
  PROVE  InStep' /\ HeaderOrNone' /\ DoneIsPassedUp' /\ NothingOutside'
  <1> USE DEF DInv
  <1>1. /\ wire.what = "CHUNK" /\ wire.of \in Messages /\ wire.number \in Nat
        /\ src.state = "SENDING" /\ src.msg = wire.of /\ src.chunk = wire.number
    BY DEF ChunkArrives, IInv, TypeOK, SourceSends
  <1>2. PICK m \in Messages, k \in Nat : m = wire.of /\ k = wire.number
    BY <1>1
  <1>3. PICK top, bytes : /\ \/ top = header /\ bytes = body
                             \/ top = NoHeader /\ bytes = Blank
                          /\ ProcessChunk(m, k, top, bytes)
    BY <1>2 DEF ChunkArrives
  <1>4. top \in Headers /\ bytes \in Contents
    BY <1>3, StartType DEF IInv, TypeOK, Contents
  <1>5. /\ src'.state \in {"IDLE", "WAIT_REQUEST", "DONE"}
        /\ src'.msg = m /\ src'.chunk = k
        /\ src'.state = "DONE" => LastChunk(m, k)
        /\ src'.state = "WAIT_REQUEST" => ~LastChunk(m, k)
    BY <1>1, <1>2 DEF ChunkArrives, AfterChunk, IInv, TypeOK
  <1>6. ASSUME NEW count \in Counts, NEW start \in Contents,
               NEW first \in {[of |-> m, size |-> Size[m]], NoHeader},
               TakeChunk(m, k, count, first, start),
               InBuffer(m) => count = k * ChunkLen /\ count < Size[m]
        PROVE  InStep' /\ HeaderOrNone' /\ DoneIsPassedUp' /\ NothingOutside'
    <2>1. InBuffer(m) =>
            /\ overrun' => overrun
            /\ LastChunk(m, k) => GoneUp(m)'
            /\ ~LastChunk(m, k) => /\ expected' = k + 1
                                   /\ received' = (k + 1) * ChunkLen
                                   /\ received' < Size[m]
      BY <1>6, CountedChunk
    <2>2. wire'.what # "CHUNK" /\ header' \in {first, NoHeader}
      BY <1>6 DEF TakeChunk, Continue, WaitForMessage, Silence, Request
    <2>3. HeaderOrNone'
      BY <2>2, SizeType DEF HeaderOrNone
    <2>4. src'.state = "WAIT_REQUEST" => Expects(src.msg, src.chunk + 1)'
      BY <1>5, <2>1 DEF Expects, InBuffer
    <2>5. DoneIsPassedUp'
      BY <1>1, <1>2, <1>5, <2>1, DoneParts DEF InBuffer
    <2>6. NothingOutside'
      BY <1>1, <1>2, <1>5, <2>1 DEF NothingOutside, InBuffer
    <2> QED
      BY <2>2, <2>3, <2>4, <2>5, <2>6 DEF InStep
  <1>7. CASE k = 0
    <2>1. TakeChunk(m, k, 0, [of |-> m, size |-> Size[m]], Blank)
      BY <1>3, <1>7 DEF ProcessChunk
    <2>2. 0 = k * ChunkLen /\ 0 < Size[m]
      BY <1>7, SizeType, ChunksAssumption
    <2> QED
      BY <1>6, <2>1, <2>2, StartType
  <1>8. CASE k # 0 /\ k = expected
    <2>1. TakeChunk(m, k, received, top, bytes) /\ received \in Counts
      BY <1>3, <1>8 DEF ProcessChunk, IInv, TypeOK
    <2>2. top \in {[of |-> m, size |-> Size[m]], NoHeader}
      <3>1. CASE header.size > 0
        <4>1. header.of = m /\ header.size = Size[m]
          BY <1>1, <1>2, <1>8, <3>1 DEF IInv, SameMessage, HeaderKnown
        <4>2. header = [of |-> header.of, size |-> header.size]
          BY DEF IInv, TypeOK, Headers
        <4> QED
          BY <1>3, <4>1, <4>2
      <3>2. CASE header = NoHeader
        BY <1>3, <3>2
      <3> QED
        BY <3>1, <3>2 DEF HeaderOrNone
    <2>3. InBuffer(m) => received = k * ChunkLen /\ received < Size[m]
      BY <1>1, <1>2, <1>8 DEF InStep, Expects
    <2> QED
      BY <1>4, <1>6, <2>1, <2>2, <2>3
  <1>9. CASE k # 0 /\ k # expected
    <2>1. ~InBuffer(m)
      BY <1>1, <1>2, <1>9 DEF InStep, Expects
    <2>2. wire'.what # "CHUNK" /\ header' = NoHeader
      BY <1>3, <1>9 DEF ProcessChunk, ReportError, WaitForMessage, Silence
    <2>3. ~InBuffer(src.msg)'
      BY <1>5, <2>1 DEF InBuffer
    <2>4. Expects(src.msg, src.chunk + 1)'
      BY <2>3 DEF Expects, InBuffer
    <2> QED
      BY <2>2, <2>3, <2>4 DEF InStep, HeaderOrNone, DoneIsPassedUp, NothingOutside
  <1> QED
    BY <1>7, <1>8, <1>9

\* A step that puts no further chunk on the wire and leaves the counters alone.
LEMMA CountersAlone ==
  ASSUME DInv, UNCHANGED <<expected, received>>, header' \in {header, NoHeader},
         wire' = wire \/ wire'.what # "CHUNK" \/ wire'.number = 0,
         src' = src \/ src'.state \in {"IDLE", "SENDING"},
         passedUp' = passedUp \/ src'.state = "SENDING",
         overrun' = FALSE \/ (overrun' = overrun /\ src'.msg = src.msg)
  PROVE  InStep' /\ HeaderOrNone' /\ DoneIsPassedUp' /\ NothingOutside'
  <1>1. \A m, k : Expects(m, k)' = Expects(m, k)
    BY DEF Expects, InBuffer
  <1>2. src'.state = "WAIT_REQUEST" => Expects(src.msg, src.chunk + 1)'
    BY <1>1 DEF DInv, InStep, Expects, InBuffer
  <1>3. wire'.what = "CHUNK" /\ wire'.number # 0 => Expects(wire.of, wire.number)'
    BY <1>1 DEF DInv, InStep, Expects, InBuffer
  <1>4. HeaderOrNone'
    BY DEF DInv, HeaderOrNone
  <1>5. DoneIsPassedUp'
    BY DEF DInv, DoneIsPassedUp, InBuffer
  <1>6. NothingOutside'
    BY DEF DInv, NothingOutside, InBuffer
  <1> QED
    BY <1>2, <1>3, <1>4, <1>5, <1>6 DEF InStep

LEMMA NextCounts == DInv /\ [Next]_vars => DInv'
  <1> SUFFICES ASSUME DInv, [Next]_vars
               PROVE  InStep' /\ HeaderOrNone' /\ DoneIsPassedUp' /\ NothingOutside'
    BY NextInv DEF DInv
  <1>0. /\ src \in [state : {"IDLE", "SENDING", "WAIT_REQUEST", "DONE"},
                    msg : Messages \cup {NoMessage}, chunk : Nat]
        /\ [src EXCEPT !.state = "IDLE"].state = "IDLE"
        /\ [src EXCEPT !.state = "IDLE"].msg = src.msg
        /\ Silence.what # "CHUNK"
    BY DEF DInv, IInv, TypeOK, Silence
  <1>1. CASE ChunkArrives
    BY <1>1, ChunkArrivesCounts
  <1>2. CASE ChunkLost
    BY <1>0, <1>2, CountersAlone DEF ChunkLost, reception
  <1>3. CASE RequestArrives
    <2>1. /\ UNCHANGED <<expected, received, overrun, passedUp>>
          /\ header' \in {header, NoHeader}
          /\ wire.what = "REQUEST" /\ Answer(wire.number)
      BY <1>3 DEF RequestArrives, WaitingChunk, ReportError, WaitForMessage
    <2>2. CASE ~(src.state = "WAIT_REQUEST" /\ wire.number = src.chunk + 1)
      BY <1>0, <2>1, <2>2, CountersAlone DEF Answer
    <2>3. CASE src.state = "WAIT_REQUEST" /\ wire.number = src.chunk + 1
      <3>1. /\ wire' = Chunk(src.msg, src.chunk + 1)
            /\ src'.state = "SENDING" /\ src'.msg = src.msg
        BY <1>0, <2>1, <2>3 DEF Answer
      <3>2. Expects(src.msg, src.chunk + 1)
        BY <2>3 DEF DInv, InStep
      <3>3. Expects(wire.of, wire.number)'
        BY <2>1, <3>1, <3>2 DEF Expects, Chunk, InBuffer
      <3>4. NothingOutside'
        BY <2>1, <3>1 DEF DInv, NothingOutside, InBuffer
      <3> QED
        BY <2>1, <3>1, <3>3, <3>4 DEF InStep, DInv, HeaderOrNone, DoneIsPassedUp
    <2> QED
      BY <2>2, <2>3
  <1>4. CASE RequestLost
    BY <1>0, <1>4, CountersAlone DEF RequestLost, ReportError, WaitForMessage
  <1>5. CASE RequestReplaced
    BY <1>0, <1>5, CountersAlone DEF RequestReplaced, WaitingChunk
  <1>6. CASE ChunkResponseTimeout
    BY <1>6, CountersAlone DEF ChunkResponseTimeout, ReportError, WaitForMessage
  <1>7. CASE OtherMessage
    BY <1>7, CountersAlone DEF OtherMessage, ReportError, WaitForMessage
  <1>8. CASE Reset
    BY <1>0, <1>8, CountersAlone DEF Reset, WaitForMessage
  <1>9. CASE \E m \in Messages : SourceBegins(m)
    <2>1. PICK m \in Messages : SourceBegins(m)
      BY <1>9
    <2>2. /\ UNCHANGED <<expected, received, header>> /\ overrun' = FALSE
          /\ wire'.number = 0 /\ src'.state = "SENDING"
      BY <2>1 DEF SourceBegins, Chunk
    <2> QED
      BY <2>2, CountersAlone
  <1>10. CASE SourceGivesUp
    BY <1>0, <1>10, CountersAlone DEF SourceGivesUp, reception
  <1>11. CASE UNCHANGED vars
    BY <1>11, CountersAlone DEF vars
  <1> QED
    BY <1>1, <1>2, <1>3, <1>4, <1>5, <1>6, <1>7, <1>8, <1>9, <1>10, <1>11 DEF Next

\* Every behaviour keeps it.
LEMMA DInvariant == Spec => []DInv
  <1>1. Init => DInv
    <2> SUFFICES ASSUME Init
                 PROVE  InStep /\ HeaderOrNone /\ DoneIsPassedUp /\ NothingOutside
      BY InitInv DEF DInv
    <2>1. /\ src.state = "IDLE" /\ wire.what = "NOTHING" /\ header = NoHeader
          /\ overrun = FALSE
      BY DEF Init, Silence
    <2> QED
      BY <2>1 DEF InStep, HeaderOrNone, DoneIsPassedUp, NothingOutside
  <1> QED
    BY <1>1, NextCounts, PTL DEF Spec

\* A message that the receive buffer has room for is never written past its end, and
\* when it goes up with a header of its own it is whole and in order, whatever was lost,
\* given up or answered late before.  (ucpd_prl_sm.c:456-497)
THEOREM WholeCorrect == Spec => []PassedUpWhole
  <1>1. DInv => PassedUpWhole
    BY DEF DInv, IInv, PassedUpWhole
  <1> QED
    BY <1>1, DInvariant, PTL

\* A message that the source takes as delivered has gone up, for any messages that the
\* receive buffer has room for.  (ucpd_prl_sm.c:479-501)
THEOREM DoneCorrect == Spec => []DoneIsPassedUp
  <1>1. DInv => DoneIsPassedUp
    BY DEF DInv
  <1> QED
    BY <1>1, DInvariant, PTL
=============================================================================
