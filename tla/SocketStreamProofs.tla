------------------------- MODULE SocketStreamProofs -------------------------
(***************************************************************************)
(* The write queue of channel::Socket and the types of both streams, for   *)
(* every set of messages, every length of frame and every number of writes *)
(* and faults.                                                             *)
(***************************************************************************)
EXTENDS SocketStream, SequenceTheorems, WellFoundedInduction, TLAPS

\* WriteQueueBusy is inductive once the queue is known to hold requests.
QueueInv ==
  /\ queue \in Seq(Request)
  /\ io \in {"idle", "data", "pending"}
  /\ WriteQueueBusy

\* A frame has at least one byte, so a fresh request has bytes left.
LEMMA SizePositive == \A m \in Message : Size(m) \in Nat \ {0}
  BY StreamAssumption DEF Size

LEMMA QueueInit == Init => QueueInv
  BY DEF Init, QueueInv, WriteQueueBusy

\* Socket::Write: the new request is the front one only of an empty queue.
LEMMA WriteKeeps ==
  ASSUME QueueInv, NEW m \in Message, Write(m)
  PROVE  QueueInv'
<1> DEFINE request == [msg |-> m, written |-> 0]
<1>1. request \in Request /\ queue' = Append(queue, request)
  BY DEF Write, Request
<1>2. queue' \in Seq(Request) /\ queue' # <<>> /\ Len(queue') = Len(queue) + 1
  BY <1>1 DEF QueueInv
<1>3. io' \in {"data", "pending"}
  BY DEF Write, QueueInv
<1>4. ASSUME NEW i \in DOMAIN queue'
      PROVE  IF i = 1 THEN queue'[i].written < Size(queue'[i].msg) ELSE queue'[i].written = 0
  <2>1. CASE i \in DOMAIN queue
    BY <1>1, <2>1 DEF QueueInv, WriteQueueBusy
  <2>2. CASE i = Len(queue) + 1
    <3>1. queue'[i] = request
      BY <1>1, <2>2 DEF QueueInv
    <3> QED
      BY <3>1, SizePositive
  <2> QED
    BY <1>1, <1>2, <2>1, <2>2 DEF QueueInv
<1> QED
  BY <1>2, <1>3, <1>4 DEF QueueInv, WriteQueueBusy

\* The front request leaves: the one behind it has not been begun.
LEMMA NextKeeps ==
  ASSUME QueueInv, queue # <<>>, NextRequest
  PROVE  QueueInv'
<1>1. queue' = Tail(queue) /\ queue' \in Seq(Request) /\ Len(queue') = Len(queue) - 1
  BY DEF NextRequest, QueueInv
<1>2. \A i \in DOMAIN queue' : i + 1 \in DOMAIN queue /\ queue'[i] = queue[i + 1]
  BY <1>1 DEF QueueInv
<1>3. \A i \in DOMAIN queue' : queue'[i].written = 0 /\ queue'[i].msg \in Message
  <2> SUFFICES ASSUME NEW i \in DOMAIN queue'
               PROVE  queue'[i].written = 0 /\ queue'[i].msg \in Message
    OBVIOUS
  <2>1. queue[i + 1] \in Request /\ i + 1 # 1
    BY <1>1, <1>2 DEF QueueInv
  <2> QED
    BY <1>2, <2>1 DEF QueueInv, WriteQueueBusy, Request
<1>4. (io' = "idle") <=> (queue' = <<>>)
  <2>1. Len(queue) \in Nat \ {0}
    BY DEF QueueInv
  <2>2. queue' = <<>> <=> Len(queue') = 0
    BY <1>1
  <2> QED
    BY <1>1, <2>1, <2>2 DEF NextRequest
<1>5. io' \in {"idle", "data", "pending"}
  BY DEF NextRequest
<1> QED
  BY <1>1, <1>3, <1>4, <1>5, SizePositive DEF QueueInv, WriteQueueBusy

\* OnWriteComplete: the rest of the front request, or the next one.
LEMMA CompletesKeeps ==
  ASSUME QueueInv, io # "idle", Completes
  PROVE  QueueInv'
<1>1. queue # <<>> /\ 1 \in DOMAIN queue /\ Head(queue) = queue[1] /\ queue[1] \in Request
  BY DEF QueueInv, WriteQueueBusy
<1>2. CASE WriteFails
  BY <1>1, <1>2, NextKeeps DEF WriteFails
<1>3. CASE \E n \in 1..Left(Head(queue)) : Written(n)
  <2>1. PICK n \in 1..Left(Head(queue)) : Written(n)
    BY <1>3
  <2>2. CASE n < Left(Head(queue))
    <3>1. io' = "data" /\ queue' = [queue EXCEPT ![1].written = @ + n]
      BY <2>1, <2>2 DEF Written
    <3>2. queue[1].written + n < Size(queue[1].msg) /\ queue[1].written + n \in Nat
      BY <1>1, <2>2, SizePositive DEF Left, Request
    <3>3. [queue[1] EXCEPT !.written = @ + n] \in Request
      BY <1>1, <3>2 DEF Request
    <3>4. queue' \in Seq(Request) /\ queue' # <<>> /\ DOMAIN queue' = DOMAIN queue
      BY <1>1, <3>1, <3>3 DEF QueueInv
    <3>5. \A i \in DOMAIN queue' : i # 1 => queue'[i] = queue[i]
      BY <3>1, <3>4 DEF QueueInv
    <3>6. queue'[1].written = queue[1].written + n /\ queue'[1].msg = queue[1].msg
      BY <1>1, <3>1 DEF Request
    <3> QED
      BY <3>1, <3>2, <3>4, <3>5, <3>6 DEF QueueInv, WriteQueueBusy
  <2>3. CASE ~(n < Left(Head(queue)))
    BY <1>1, <2>1, <2>3, NextKeeps DEF Written
  <2> QED
    BY <2>2, <2>3
<1> QED
  BY <1>2, <1>3 DEF Completes

LEMMA QueueStep == QueueInv /\ [Next]_vars => QueueInv'
<1> SUFFICES ASSUME QueueInv, [Next]_vars PROVE QueueInv'
  OBVIOUS
<1>1. CASE \E m \in Message : Write(m)
  BY <1>1, WriteKeeps
<1>2. CASE WriteData
  <2>1. CASE Completes
    BY <1>2, <2>1, CompletesKeeps DEF WriteData
  <2>2. CASE io' = "pending" /\ UNCHANGED queue
    BY <1>2, <2>2 DEF WriteData, QueueInv, WriteQueueBusy
  <2> QED
    BY <1>2, <2>1, <2>2 DEF WriteData
<1>3. CASE OnWriteComplete
  BY <1>3, CompletesKeeps DEF OnWriteComplete
<1>4. CASE OnClose
  BY <1>4 DEF OnClose, QueueInv, WriteQueueBusy
<1>5. CASE \/ \E m \in Message : Put(m)
           \/ SendMsg \/ HandleWrite \/ HandleRead \/ Closes \/ OnMessage
           \/ UNCHANGED vars
  <2>1. UNCHANGED <<queue, io>>
    BY <1>5 DEF Put, SendMsg, HandleWrite, HandleRead, Closes, OnMessage, vars, writeVars
  <2> QED
    BY <2>1 DEF QueueInv, WriteQueueBusy
<1> QED
  BY <1>1, <1>2, <1>3, <1>4, <1>5 DEF Next

\* WriteQueueBusy holds of every reachable state: WriteData never takes the
\* front of an empty write_queue_ and never leaves a request unwritten behind
\* (Socket::Write, WriteData, OnWriteComplete).
THEOREM FrontExists == Spec => []WriteQueueBusy
<1>1. QueueInv => WriteQueueBusy
  BY DEF QueueInv
<1> QED
  BY QueueInit, QueueStep, <1>1, PTL DEF Spec

-----------------------------------------------------------------------------
(* Frames and the loop that reads them *)

\* A least number: what stands for induction in the lemmas on the loop.
LEMMA LeastElement ==
  ASSUME NEW T \in SUBSET Nat, T # {}
  PROVE  \E n \in T : \A m \in T : n <= m
<1> DEFINE R == OpToRel(<, Nat)
<1>1. IsWellFoundedOn(R, Nat)
  BY NatLessThanWellFounded
<1>2. PICK n \in T : \A m \in T : <<m, n>> \notin R
  BY <1>1, WFMin
<1>3. \A m \in Nat : m < n => <<m, n>> \in R
  BY DEF OpToRel
<1> HIDE DEF R
<1>4. \A m \in T : ~(m < n)
  BY <1>2, <1>3
<1> QED
  BY <1>4

LEMMA FrameBytes ==
  ASSUME NEW m \in Sendable
  PROVE  /\ Size(m) \in Nat \ {0} /\ Size(m) > HeaderLen
         /\ Frame(m) \in Seq(Byte) /\ Len(Frame(m)) = Size(m) /\ Frame(m) # <<>>
<1>1. Size(m) \in Nat \ {0} /\ Size(m) > HeaderLen
  BY StreamAssumption DEF Size, Sendable
<1>2. \A i \in 1..Size(m) : <<m, i>> \in Byte
  BY <1>1 DEF Byte
<1> QED
  BY <1>1, <1>2 DEF Frame

\* A part of a sequence; behind its end it is empty.
LEMMA Part ==
  ASSUME NEW S, NEW s \in Seq(S), NEW a \in Nat \ {0}, NEW b \in Nat, b <= Len(s)
  PROVE  SubSeq(s, a, b) \in Seq(S)
<1>1. \A i \in a..b : s[i] \in S
  BY ElementOfSeq
<1> QED
  BY <1>1, SubSeqProperties

\* A round that consumes a frame gets on, and not past the end.
LEMMA ConsumesFrame ==
  ASSUME NEW s \in Seq(Byte), NEW accepted, NEW at \in 0..Len(s), Consumes(s, accepted, at)
  PROVE  /\ s[at + 1][1] \in accepted \cap Sendable
         /\ FrameEnd(s, at) \in (at + 1)..Len(s)
         /\ FrameEnd(s, at) = at + Size(s[at + 1][1])
<1>1. Len(s) \in Nat /\ HeaderLen \in Nat \ {0}
  BY StreamAssumption
<1>2. Len(s) - at >= HeaderLen /\ FrameEnd(s, at) <= Len(s) /\ s[at + 1][1] \in accepted
  BY DEF Consumes, Whole, Complete
<1>3. at + 1 \in 1..Len(s)
  BY <1>1, <1>2
<1>4. s[at + 1][1] \in Sendable
  BY <1>3, ElementOfSeq DEF Byte
<1>5. Size(s[at + 1][1]) \in Nat \ {0}
  BY <1>4, FrameBytes
<1> QED
  BY <1>1, <1>2, <1>4, <1>5 DEF FrameEnd

From(s, accepted, f, at) ==
  IF Consumes(s, accepted, at)
  THEN [f[FrameEnd(s, at)] EXCEPT !.got = <<s[at + 1][1]>> \o @]
  ELSE [at |-> at, got |-> <<>>]

\* The loop defines a function: a round looks ahead only.
LEMMA LoopExists ==
  ASSUME NEW s \in Seq(Byte), NEW accepted
  PROVE  \E f : f = [at \in 0..Len(s) |-> From(s, accepted, f, at)]
<1> DEFINE n == Len(s)
           P(k, f) == f = [at \in (n - k)..n |-> From(s, accepted, f, at)]
           Bad == {k \in 0..n : ~ \E f : P(k, f)}
<1>1. n \in Nat
  OBVIOUS
<1>2. \A at \in 0..n : Consumes(s, accepted, at) => FrameEnd(s, at) \in (at + 1)..n
  BY ConsumesFrame
<1> HIDE DEF n
<1>3. CASE Bad = {}
  <2>1. n \notin Bad
    BY <1>3
  <2>2. PICK f : P(n, f)
    BY <1>1, <2>1
  <2>3. n - n = 0
    BY <1>1
  <2> QED
    BY <2>2, <2>3 DEF n
<1>4. CASE Bad # {}
  <2>1. PICK m \in Bad : \A j \in Bad : m <= j
    <3>1. Bad \in SUBSET Nat
      BY <1>1
    <3> HIDE DEF Bad
    <3> QED
      BY <1>4, <3>1, LeastElement
  <2>2. m \in 0..n /\ ~ \E f : P(m, f)
    OBVIOUS
  <2>3. PICK f : \A at \in (n - m + 1)..n : f[at] = From(s, accepted, f, at)
    <3>1. CASE m = 0
      BY <1>1, <3>1
    <3>2. CASE m # 0
      <4>1. m - 1 \in 0..n /\ m - 1 \notin Bad /\ n - (m - 1) = n - m + 1
        BY <1>1, <2>1, <2>2, <3>2
      <4>2. PICK f : P(m - 1, f)
        BY <4>1
      <4> QED
        BY <4>1, <4>2
    <3> QED
      BY <3>1, <3>2
  <2> DEFINE g == [at \in (n - m)..n |-> IF at = n - m THEN From(s, accepted, f, at) ELSE f[at]]
  <2>4. \A at \in (n - m)..n : From(s, accepted, g, at) = From(s, accepted, f, at)
    <3>1. \A at \in (n - m)..n : Consumes(s, accepted, at) =>
            FrameEnd(s, at) \in (n - m)..n /\ FrameEnd(s, at) # n - m
      BY <1>1, <1>2, <2>2
    <3>2. \A at \in (n - m)..n : Consumes(s, accepted, at) =>
            g[FrameEnd(s, at)] = f[FrameEnd(s, at)]
      BY <3>1
    <3> HIDE DEF g
    <3> QED
      BY <3>2 DEF From
  <2>5. \A at \in (n - m)..n : at # n - m => at \in (n - m + 1)..n
    BY <1>1, <2>2
  <2>6. \A at \in (n - m)..n : g[at] = From(s, accepted, g, at)
    BY <2>3, <2>4, <2>5
  <2>7. g = [at \in (n - m)..n |-> g[at]]
    OBVIOUS
  <2> HIDE DEF g
  <2>8. P(m, g)
    BY <2>6, <2>7
  <2> QED
    BY <2>2, <2>8
<1> QED
  BY <1>3, <1>4

\* The loop stops at one of the bytes, and dispatches accepted messages only.
LEMMA LoopStops ==
  ASSUME NEW s \in Seq(Byte), NEW accepted
  PROVE  /\ Loop(s, accepted).at \in 0..Len(s)
         /\ Loop(s, accepted).got \in Seq(accepted \cap Sendable)
<1> DEFINE P(f) == f = [at \in 0..Len(s) |-> From(s, accepted, f, at)]
           Read == [at : 0..Len(s), got : Seq(accepted \cap Sendable)]
<1>1. P(CHOOSE f : P(f))
  BY LoopExists
<1>2. Loop(s, accepted) = (CHOOSE f : P(f))[0]
  BY DEF Loop, From
<1>3. PICK f : P(f) /\ Loop(s, accepted) = f[0]
  BY <1>1, <1>2
<1> DEFINE n == Len(s)
           Bad == {k \in 0..n : f[n - k] \notin Read}
<1>4. n \in Nat /\ \A at \in 0..n : f[at] = From(s, accepted, f, at)
  BY <1>3
<1>5. ASSUME NEW k \in 0..n, \A j \in 0..n : j < k => f[n - j] \in Read
      PROVE  f[n - k] \in Read
  <2> DEFINE at == n - k
  <2>1. at \in 0..n
    BY <1>4
  <2>2. CASE Consumes(s, accepted, at)
    <3> DEFINE e == FrameEnd(s, at)
               m == s[at + 1][1]
    <3>1. m \in accepted \cap Sendable /\ e \in (at + 1)..n
      BY <2>1, <2>2, ConsumesFrame
    <3>2. n - e \in 0..n /\ n - e < k /\ n - (n - e) = e
      BY <1>4, <2>1, <3>1
    <3>3. f[e] \in Read
      BY <1>5, <3>2
    <3>4. f[at] = [f[e] EXCEPT !.got = <<m>> \o @]
      BY <1>4, <2>1, <2>2 DEF From
    <3> HIDE DEF e, m, n, at
    <3>5. <<m>> \o f[e].got \in Seq(accepted \cap Sendable)
      <4>1. <<m>> \in Seq(accepted \cap Sendable) /\ f[e].got \in Seq(accepted \cap Sendable)
        BY <3>1, <3>3
      <4> QED
        BY <4>1, ConcatProperties
    <3> QED
      BY <3>3, <3>4, <3>5 DEF at
  <2>3. CASE ~Consumes(s, accepted, at)
    <3>1. f[at] = [at |-> at, got |-> <<>>]
      BY <1>4, <2>1, <2>3 DEF From
    <3> QED
      BY <2>1, <3>1
  <2> QED
    BY <2>2, <2>3
<1>6. Bad = {}
  <2> SUFFICES ASSUME Bad # {} PROVE FALSE
    OBVIOUS
  <2>1. Bad \in SUBSET Nat
    OBVIOUS
  <2>2. PICK k \in Bad : \A j \in Bad : k <= j
    <3> HIDE DEF Bad
    <3> QED
      BY <2>1, LeastElement
  <2>3. \A j \in 0..n : j < k => f[n - j] \in Read
    BY <1>4, <2>2
  <2> QED
    BY <1>5, <2>3
<1>7. f[0] \in Read
  <2>1. n \in 0..n /\ n - n = 0
    BY <1>4
  <2> QED
    BY <1>6, <2>1
<1> QED
  BY <1>3, <1>7

-----------------------------------------------------------------------------
(* Types *)

LEMMA BufferAndRest ==
  ASSUME NEW s \in Seq(Byte), NEW n \in 0..Len(s)
  PROVE  SubSeq(s, 1, n) \in Seq(Byte) /\ SubSeq(s, n + 1, Len(s)) \in Seq(Byte)
BY Part

\* What a read adds to the data of a codec, dispatches and leaves.
LEMMA ReadTypes ==
  ASSUME NEW s \in Seq(Byte), NEW accepted \in SUBSET Message
  PROVE  Parsed(s, accepted) \in Seq(Message) /\ Rest(s, accepted) \in Seq(Byte)
<1>1. Loop(s, accepted).at \in 0..Len(s) /\ Loop(s, accepted).got \in Seq(accepted \cap Sendable)
  BY LoopStops
<1>2. accepted \cap Sendable \subseteq Message
  OBVIOUS
<1>3. Parsed(s, accepted) \in Seq(Message)
  BY <1>1, <1>2, SeqMonotonic DEF Parsed
<1> QED
  BY <1>1, <1>3, BufferAndRest DEF Rest

LEMMA SendsTypes ==
  ASSUME NEW s \in Seq(Byte), NEW n \in 0..Len(s), Sends(s, n), toHost \in Seq(Byte)
  PROVE  buffer' \in Seq(Byte) /\ toHost' \in Seq(Byte)
BY BufferAndRest, ConcatProperties DEF Sends

\* A write moves a part of the front frame.
LEMMA CompletesTypes ==
  ASSUME TypeOK, QueueInv, io # "idle", Completes
  PROVE  toPython' \in Seq(Byte) /\ faults' \in Nat /\ torn' \in BOOLEAN
<1>1. queue # <<>> /\ Head(queue) \in Request
  BY DEF QueueInv, WriteQueueBusy
<1> DEFINE m == Head(queue).msg
           w == Head(queue).written
<1>2. m \in Sendable /\ w \in Nat
  BY <1>1 DEF Request, Sendable
<1>3. Frame(m) \in Seq(Byte) /\ Len(Frame(m)) = Size(m) /\ Size(m) \in Nat
  BY <1>2, FrameBytes
<1> HIDE DEF m, w
<1>4. CASE WriteFails
  BY <1>2, <1>4 DEF WriteFails, TypeOK, w
<1>5. ASSUME NEW n \in 1..Left(Head(queue)), Written(n)
      PROVE  toPython' \in Seq(Byte) /\ UNCHANGED <<torn, faults>>
  <2>1. w + 1 \in Nat \ {0} /\ w + n \in Nat /\ w + n <= Len(Frame(m))
    BY <1>2, <1>3, <1>5 DEF Left, m, w
  <2>2. SubSeq(Frame(m), w + 1, w + n) \in Seq(Byte)
    BY <1>3, <2>1, Part
  <2>3. toPython' = toPython \o SubSeq(Frame(m), w + 1, w + n) /\ UNCHANGED <<torn, faults>>
    BY <1>5 DEF Written, m, w
  <2> QED
    BY <2>2, <2>3, ConcatProperties DEF TypeOK
<1> QED
  BY <1>4, <1>5 DEF Completes, TypeOK

LEMMA HandleReadTypes ==
  ASSUME TypeOK, HandleRead
  PROVE  TypeOK'
<1>1. PICK n \in 1..Len(toPython) :
        /\ toPython' = SubSeq(toPython, n + 1, Len(toPython))
        /\ pyGot' = pyGot \o Parsed(pyData \o SubSeq(toPython, 1, n), Message)
        /\ pyData' = Rest(pyData \o SubSeq(toPython, 1, n), Message)
        /\ netUp' \in BOOLEAN
  BY DEF HandleRead
<1> DEFINE data == pyData \o SubSeq(toPython, 1, n)
<1>2. n \in 0..Len(toPython) /\ toPython \in Seq(Byte) /\ pyData \in Seq(Byte) /\ pyGot \in Seq(Message)
  BY DEF TypeOK
<1>3. data \in Seq(Byte) /\ toPython' \in Seq(Byte)
  BY <1>1, <1>2, BufferAndRest, ConcatProperties
<1>4. Parsed(data, Message) \in Seq(Message) /\ pyData' \in Seq(Byte)
  BY <1>1, <1>3, ReadTypes
<1>5. pyGot' \in Seq(Message)
  BY <1>1, <1>2, <1>4, ConcatProperties
<1> QED
  BY <1>1, <1>3, <1>4, <1>5 DEF HandleRead, TypeOK, writeVars, codecVars

LEMMA OnMessageTypes ==
  ASSUME TypeOK, OnMessage
  PROVE  TypeOK'
<1> DEFINE Data(n) == received \o SubSeq(toHost, 1, n)
           hello(n) == stage = "shakehand" /\ Whole(Data(n), 0)
           body(n) == IF hello(n) THEN SubSeq(Data(n), Size(Hello) + 1, Len(Data(n))) ELSE Data(n)
           open(n) == hello(n) \/ stage = "protobuf"
<1>1. PICK n \in 1..Len(toHost) :
        /\ toHost' = SubSeq(toHost, n + 1, Len(toHost))
        /\ stage' = IF open(n) THEN "protobuf" ELSE stage
        /\ hostGot' = IF open(n) THEN hostGot \o Parsed(body(n), Known) ELSE hostGot
        /\ received' = IF open(n) THEN Rest(body(n), Known) ELSE body(n)
  BY DEF OnMessage
<1>2. n \in 0..Len(toHost) /\ toHost \in Seq(Byte) /\ received \in Seq(Byte) /\ hostGot \in Seq(Message)
  BY DEF TypeOK
<1>3. Data(n) \in Seq(Byte) /\ toHost' \in Seq(Byte)
  BY <1>1, <1>2, BufferAndRest, ConcatProperties
<1>4. body(n) \in Seq(Byte)
  <2>1. Hello \in Sendable
    BY DEF Sendable
  <2>2. Size(Hello) + 1 \in Nat \ {0} /\ Len(Data(n)) \in Nat
    BY <1>3, <2>1, FrameBytes
  <2> HIDE DEF Data
  <2>3. SubSeq(Data(n), Size(Hello) + 1, Len(Data(n))) \in Seq(Byte)
    BY <1>3, <2>2, Part
  <2> QED
    BY <1>3, <2>3
<1> HIDE DEF body, open
<1>5. Parsed(body(n), Known) \in Seq(Message) /\ Rest(body(n), Known) \in Seq(Byte)
  <2>1. Known \in SUBSET Message
    BY DEF Known
  <2> QED
    BY <1>4, <2>1, ReadTypes
<1>6. hostGot' \in Seq(Message) /\ received' \in Seq(Byte)
  BY <1>1, <1>2, <1>4, <1>5, ConcatProperties
<1>7. stage' \in {"shakehand", "protobuf"}
  BY <1>1 DEF TypeOK
<1> QED
  BY <1>3, <1>6, <1>7 DEF OnMessage, TypeOK, writeVars, pythonVars

LEMMA PythonTypes ==
  ASSUME TypeOK, (\E m \in Message : Put(m)) \/ SendMsg \/ HandleWrite \/ Closes
  PROVE  TypeOK'
<1>1. CASE \E m \in Message : Put(m)
  <2>1. PICK m \in Message : Put(m)
    BY <1>1
  <2>2. outQueue' \in Seq(Message) /\ sends' \in [{"host", "python"} -> Nat]
    BY <2>1 DEF Put, TypeOK
  <2> QED
    BY <2>1, <2>2 DEF Put, TypeOK, writeVars, codecVars
<1>2. CASE SendMsg
  <2>1. outQueue # <<>> /\ outQueue \in Seq(Message) /\ buffer \in Seq(Byte) /\ toHost \in Seq(Byte)
    BY <1>2 DEF SendMsg, TypeOK
  <2>2. Head(outQueue) \in Message /\ outQueue' \in Seq(Message)
    BY <1>2, <2>1 DEF SendMsg
  <2>3. Frame(Head(outQueue)) \in Seq(Byte)
    BY <2>2, FrameBytes DEF Sendable
  <2> DEFINE all == buffer \o Frame(Head(outQueue))
  <2>4. all \in Seq(Byte)
    BY <2>1, <2>3, ConcatProperties
  <2>5. PICK n \in 0..Len(all) : Sends(all, n)
    BY <1>2 DEF SendMsg
  <2> HIDE DEF all
  <2>6. buffer' \in Seq(Byte) /\ toHost' \in Seq(Byte)
    BY <2>1, <2>4, <2>5, SendsTypes
  <2> QED
    BY <1>2, <2>2, <2>6 DEF SendMsg, TypeOK, writeVars, codecVars
<1>3. CASE HandleWrite
  <2>1. PICK n \in 1..Len(buffer) : Sends(buffer, n)
    BY <1>3 DEF HandleWrite
  <2>2. n \in 0..Len(buffer) /\ buffer \in Seq(Byte) /\ toHost \in Seq(Byte)
    BY DEF TypeOK
  <2>3. buffer' \in Seq(Byte) /\ toHost' \in Seq(Byte)
    BY <2>1, <2>2, SendsTypes
  <2> QED
    BY <1>3, <2>3 DEF HandleWrite, TypeOK, writeVars, codecVars
<1>4. CASE Closes
  <2>1. PICK n \in 0..Len(toHost) : toHost' = SubSeq(toHost, 1, n)
    BY <1>4 DEF Closes
  <2>2. toHost \in Seq(Byte)
    BY DEF TypeOK
  <2>3. toHost' \in Seq(Byte) /\ toPython' \in Seq(Byte)
    BY <1>4, <2>1, <2>2, BufferAndRest DEF Closes
  <2> QED
    BY <1>4, <2>3 DEF Closes, TypeOK, writeVars, codecVars
<1> QED
  BY <1>1, <1>2, <1>3, <1>4

LEMMA TypeStep == TypeOK /\ QueueInv /\ [Next]_vars => TypeOK'
<1> SUFFICES ASSUME TypeOK, QueueInv, [Next]_vars PROVE TypeOK'
  OBVIOUS
<1>1. queue' \in Seq(Request) /\ io' \in {"idle", "data", "pending"}
  BY QueueStep DEF QueueInv
<1>2. CASE \E m \in Message : Write(m)
  <2>1. PICK m \in Message : Write(m)
    BY <1>2
  <2>2. sends' \in [{"host", "python"} -> Nat]
    BY <2>1 DEF Write, TypeOK
  <2> QED
    BY <1>1, <2>1, <2>2 DEF Write, TypeOK, pythonVars, codecVars
<1>3. CASE WriteData \/ OnWriteComplete
  <2>1. CASE Completes
    <3>1. toPython' \in Seq(Byte) /\ faults' \in Nat /\ torn' \in BOOLEAN
      BY <1>3, <2>1, CompletesTypes DEF WriteData, OnWriteComplete
    <3> QED
      BY <1>1, <2>1, <3>1 DEF Completes, TypeOK, pythonVars, codecVars
  <2>2. CASE ~Completes
    BY <1>1, <1>3, <2>2 DEF WriteData, OnWriteComplete, TypeOK, pythonVars, codecVars
  <2> QED
    BY <2>1, <2>2
<1>4. CASE (\E m \in Message : Put(m)) \/ SendMsg \/ HandleWrite \/ Closes
  BY <1>4, PythonTypes
<1>5. CASE HandleRead \/ OnMessage
  BY <1>5, HandleReadTypes, OnMessageTypes
<1>6. CASE OnClose
  BY <1>1, <1>6 DEF OnClose, TypeOK, pythonVars
<1>7. CASE UNCHANGED vars
  BY <1>7 DEF vars, TypeOK, writeVars, pythonVars, codecVars
<1> QED
  BY <1>2, <1>3, <1>4, <1>5, <1>6, <1>7 DEF Next

\* Every variable keeps its type, whatever the lengths of the frames and
\* wherever writes and reads are cut: what either side dispatches is a message
\* and never the handshake (Codec::OnMessage, ProtobufCodec.OnMessage).
THEOREM TypeCorrect == Spec => []TypeOK
<1>1. Init => TypeOK
  <2> SUFFICES ASSUME Init PROVE TypeOK
    OBVIOUS
  <2>1. buffer \in Seq(Byte)
    BY FrameBytes DEF Init, Sendable
  <2>2. sends \in [{"host", "python"} -> Nat] /\ faults \in Nat
    BY StreamAssumption DEF Init
  <2>3. /\ queue \in Seq(Request) /\ toPython \in Seq(Byte) /\ pyData \in Seq(Byte)
        /\ outQueue \in Seq(Message) /\ toHost \in Seq(Byte) /\ received \in Seq(Byte)
        /\ pyGot \in Seq(Message) /\ hostGot \in Seq(Message)
    BY EmptySeq DEF Init
  <2>4. /\ conn \in {"open", "closed", "erased"} /\ io \in {"idle", "data", "pending"}
        /\ netUp \in BOOLEAN /\ stage \in {"shakehand", "protobuf"} /\ torn \in BOOLEAN
    BY DEF Init
  <2> QED
    BY <2>1, <2>2, <2>3, <2>4 DEF TypeOK
<1> QED
  BY <1>1, QueueInit, QueueStep, TypeStep, PTL DEF Spec
=============================================================================
