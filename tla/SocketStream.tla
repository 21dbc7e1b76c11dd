---------------------------- MODULE SocketStream ----------------------------
(***************************************************************************)
(* One connection between the host and a Python, byte by byte: the write   *)
(* queue of channel::Socket against ProtobufCodec.OnMessage of Python, and *)
(* write_buffer of ProtobufClient against codec::Codec of the host.        *)
(*                                                                         *)
(* A message is sent as a frame: a length field of HeaderLen bytes and a   *)
(* body.  Byte i of message m is <<m, i>>; every byte may travel alone.    *)
(* A frame made of the bytes of two messages is one the model does not     *)
(* follow: no receiver takes it for a message, and nothing after it either.*)
(***************************************************************************)
EXTENDS Naturals, Sequences, SequencesExt

CONSTANTS
  Message,   \* messages of either side
  Hello,     \* the handshake, first frame of every Python
  Unknown,   \* messages the host has no type for
  Body,      \* the bytes of each body
  HeaderLen, \* kHeaderLen, the bytes of the length field
  MaxSend,   \* bounds: how many messages the two sides send, one choice a session
  MaxFault   \* bound: writes that fail on a connection that stays open

ASSUME StreamAssumption ==
  /\ Hello \notin Message /\ Unknown \subseteq Message
  /\ Body \in [Message \cup {Hello} -> Nat \ {0}]
  /\ HeaderLen \in Nat \ {0} /\ MaxSend \subseteq [{"host", "python"} -> Nat] /\ MaxFault \in Nat

VARIABLES
  conn,      \* open, closed (by the peer), erased (OnClose destroyed the socket)
  queue,     \* write_queue_: each request's message and bytes_written
  io,        \* WriteData: idle, data (about to run), pending (io_buffer_write_)
  toPython,  \* bytes on their way
  pyData,    \* ProtobufCodec.data
  netUp,     \* the network thread of Python runs
  outQueue,  \* Network.queue
  buffer,    \* write_buffer
  toHost,    \* bytes on their way
  received,  \* last_received_data_
  stage,     \* of the host's Codec: shakehand, protobuf
  sends,     \* messages each side may still send
  faults,    \* faults left
  torn,      \* history: a write failed in the middle of a frame
  pyGot,     \* history: messages dispatched by Python
  hostGot    \* history: messages dispatched by the host

writeVars  == <<queue, io, torn, faults>>
pythonVars == <<pyData, netUp, outQueue, buffer, pyGot>>
codecVars  == <<received, stage, hostGot>>
vars == <<conn, writeVars, toPython, pythonVars, toHost, codecVars, sends>>

-----------------------------------------------------------------------------
(* Frames *)

Sendable == Message \cup {Hello}
Byte == Sendable \X Nat

Size(m) == HeaderLen + Body[m]
Frame(m) == [i \in 1..Size(m) |-> <<m, i>>]

\* The frame that follows the first at bytes of s: where its length field
\* says it ends, and whether all of it is there.
FrameEnd(s, at) == at + Size(s[at + 1][1])
Complete(s, at) ==
  Len(s) - at >= HeaderLen /\ FrameEnd(s, at) <= Len(s)
Whole(s, at) ==
  Complete(s, at) /\ SubSeq(s, at + 1, FrameEnd(s, at)) = Frame(s[at + 1][1])

\* A round of the loop of OnMessage over the bytes s dispatches and consumes
\* a whole frame of an accepted message; one that cannot ends the loop.
Consumes(s, accepted, at) == Whole(s, at) /\ s[at + 1][1] \in accepted

\* The loop from each byte on: where it stops, and what it has dispatched then.
Loop(s, accepted) ==
  LET from[at \in 0..Len(s)] ==
        IF Consumes(s, accepted, at)
        THEN [from[FrameEnd(s, at)] EXCEPT !.got = <<s[at + 1][1]>> \o @]
        ELSE [at |-> at, got |-> <<>>]
  IN from[0]

\* What the loop dispatches, and what it leaves in the buffer.
Parsed(s, accepted) == Loop(s, accepted).got
Rest(s, accepted) == SubSeq(s, Loop(s, accepted).at + 1, Len(s))

Init ==
  /\ conn = "open"
  /\ queue = <<>> /\ io = "idle"
  /\ toPython = <<>> /\ pyData = <<>> /\ netUp = TRUE
  /\ outQueue = <<>> /\ buffer = Frame(Hello) /\ toHost = <<>>
  /\ received = <<>> /\ stage = "shakehand"
  /\ sends \in MaxSend /\ faults = MaxFault
  /\ torn = FALSE /\ pyGot = <<>> /\ hostGot = <<>>

-----------------------------------------------------------------------------
(* channel::Socket, on the CTP thread.  The thread is in WriteData or      *)
(* OnWriteComplete while io is data, and does nothing else then.           *)

Write(m) ==
  /\ conn # "erased" /\ io # "data" /\ sends["host"] > 0
  /\ sends' = [sends EXCEPT !["host"] = @ - 1]
  /\ queue' = Append(queue, [msg |-> m, written |-> 0])
  /\ io' = IF io = "pending" THEN io ELSE "data"
  /\ UNCHANGED <<conn, torn, faults, toPython, pythonVars, toHost, codecVars>>

Left(request) == Size(request.msg) - request.written

\* Mutant of NextRequest: the queue is not asked whether it is empty.
NextRequestUnasked ==
  /\ queue' = Tail(queue)
  /\ io' = "data"

\* The end of OnWriteComplete: the callback only logs.
NextRequest ==
  /\ queue' = Tail(queue)
  /\ io' = IF Len(queue) > 1 THEN "data" ELSE "idle"

\* Mutant of Written: the next write starts at the first byte again.
WrittenFromStart(n) ==
  /\ IF n < Left(Head(queue))
     THEN io' = "data" /\ UNCHANGED queue
     ELSE NextRequest
  /\ toPython' = toPython \o SubSeq(Frame(Head(queue).msg), Head(queue).written + 1, Head(queue).written + n)
  /\ UNCHANGED <<torn, faults>>

\* OnWriteComplete with n bytes: write the rest, or go on to the next.
Written(n) ==
  /\ IF n < Left(Head(queue))
     THEN io' = "data" /\ queue' = [queue EXCEPT ![1].written = @ + n]
     ELSE NextRequest
  /\ toPython' = toPython \o SubSeq(Frame(Head(queue).msg), Head(queue).written + 1, Head(queue).written + n)
  /\ UNCHANGED <<torn, faults>>

\* OnWriteComplete with an error: the request is given up and the next one
\* written all the same.  On a closed connection every write fails.
WriteFails ==
  /\ conn = "open" => faults > 0
  /\ faults' = IF conn = "open" THEN faults - 1 ELSE faults
  /\ torn' = (torn \/ Head(queue).written > 0)
  /\ NextRequest
  /\ UNCHANGED toPython

Completes ==
  /\ \/ conn = "open" /\ \E n \in 1..Left(Head(queue)) : Written(n)
     \/ WriteFails
  /\ UNCHANGED <<conn, pythonVars, toHost, codecVars, sends>>

\* WriteImpl is done at once, or says ERR_IO_PENDING.
WriteData ==
  /\ io = "data"
  /\ \/ Completes
     \/ /\ conn = "open"
        /\ io' = "pending"
        /\ UNCHANGED <<conn, queue, torn, faults, toPython, pythonVars, toHost, codecVars, sends>>

OnWriteComplete == io = "pending" /\ Completes

-----------------------------------------------------------------------------
(* Python, on its network thread *)

\* Another thread puts a message into Network.queue.
Put(m) ==
  /\ sends["python"] > 0
  /\ sends' = [sends EXCEPT !["python"] = @ - 1]
  /\ outQueue' = Append(outQueue, m)
  /\ UNCHANGED <<conn, writeVars, toPython, pyData, netUp, buffer, pyGot, toHost, codecVars>>

\* send: n bytes of s leave, the rest stays in write_buffer.
Sends(s, n) ==
  /\ buffer' = SubSeq(s, n + 1, Len(s))
  /\ toHost' = toHost \o SubSeq(s, 1, n)

\* Mutant of SendMsg: the message is sent first and what is left of it put
\* into the buffer, the way the code did it once.
SendMsgFirst ==
  /\ netUp /\ conn = "open" /\ outQueue # <<>>
  /\ outQueue' = Tail(outQueue)
  /\ LET out == Frame(Head(outQueue)) IN
       \E n \in 0..Len(out) :
         /\ toHost' = toHost \o SubSeq(out, 1, n)
         /\ buffer' = buffer \o SubSeq(out, n + 1, Len(out))
  /\ UNCHANGED <<conn, writeVars, toPython, pyData, netUp, pyGot, codecVars, sends>>

\* DealWithIncomeQueue: the message goes behind what is in the buffer.
SendMsg ==
  /\ netUp /\ conn = "open" /\ outQueue # <<>>
  /\ outQueue' = Tail(outQueue)
  /\ LET all == buffer \o Frame(Head(outQueue)) IN
       \E n \in 0..Len(all) : Sends(all, n)
  /\ UNCHANGED <<conn, writeVars, toPython, pyData, netUp, pyGot, codecVars, sends>>

HandleWrite ==
  /\ netUp /\ conn = "open" /\ buffer # <<>>
  /\ \E n \in 1..Len(buffer) : Sends(buffer, n)
  /\ UNCHANGED <<conn, writeVars, toPython, pyData, netUp, outQueue, pyGot, codecVars, sends>>

\* recv returns any part of what has arrived.  A frame that is no message
\* makes GetMessage2 return None and sys.exit end the network thread, unless
\* its bytes happen to parse.
HandleRead ==
  /\ netUp /\ toPython # <<>>
  /\ \E n \in 1..Len(toPython) :
       LET data == pyData \o SubSeq(toPython, 1, n) IN
       /\ toPython' = SubSeq(toPython, n + 1, Len(toPython))
       /\ pyGot' = pyGot \o Parsed(data, Message)
       /\ pyData' = Rest(data, Message)
       /\ netUp' \in IF pyData' # <<>> /\ Complete(pyData', 0) THEN BOOLEAN ELSE {TRUE}
  /\ UNCHANGED <<conn, writeVars, outQueue, buffer, toHost, codecVars, sends>>

\* Python dies or exits: what is on the way may be lost from any byte on.
Closes ==
  /\ conn = "open"
  /\ conn' = "closed" /\ netUp' = FALSE
  /\ \E n \in 0..Len(toHost) : toHost' = SubSeq(toHost, 1, n)
  /\ toPython' = <<>>
  /\ UNCHANGED <<writeVars, pyData, outQueue, buffer, pyGot, codecVars, sends>>

-----------------------------------------------------------------------------
(* Codec of the host *)

Known == Message \ Unknown

\* Mutant of OnMessage: the frames behind the handshake wait for more data.
OnMessageOneFrame ==
  /\ conn # "erased" /\ io # "data" /\ toHost # <<>>
  /\ \E n \in 1..Len(toHost) :
       LET data == received \o SubSeq(toHost, 1, n)
           hello == stage = "shakehand" /\ Whole(data, 0)
           body == IF hello THEN SubSeq(data, Size(Hello) + 1, Len(data)) ELSE data
           open == stage = "protobuf"
       IN /\ toHost' = SubSeq(toHost, n + 1, Len(toHost))
          /\ stage' = IF hello \/ open THEN "protobuf" ELSE stage
          /\ hostGot' = IF open THEN hostGot \o Parsed(body, Known) ELSE hostGot
          /\ received' = IF open THEN Rest(body, Known) ELSE body
  /\ UNCHANGED <<conn, writeVars, toPython, pythonVars, sends>>

\* Mutant of OnMessage: the handshake stays in the buffer and is dispatched.
OnMessageHelloDispatched ==
  /\ conn # "erased" /\ io # "data" /\ toHost # <<>>
  /\ \E n \in 1..Len(toHost) :
       LET data == received \o SubSeq(toHost, 1, n)
           open == stage = "protobuf" \/ Whole(data, 0)
       IN /\ toHost' = SubSeq(toHost, n + 1, Len(toHost))
          /\ stage' = IF open THEN "protobuf" ELSE stage
          /\ hostGot' = IF open THEN hostGot \o Parsed(data, Sendable) ELSE hostGot
          /\ received' = IF open THEN Rest(data, Sendable) ELSE data
  /\ UNCHANGED <<conn, writeVars, toPython, pythonVars, sends>>

\* OnReadComplete: the first frame is the handshake, the others go to
\* ProtobufCodec, which does not consume a message it has no type for.
OnMessage ==
  /\ conn # "erased" /\ io # "data" /\ toHost # <<>>
  /\ \E n \in 1..Len(toHost) :
       LET data == received \o SubSeq(toHost, 1, n)
           hello == stage = "shakehand" /\ Whole(data, 0)
           body == IF hello THEN SubSeq(data, Size(Hello) + 1, Len(data)) ELSE data
           open == hello \/ stage = "protobuf"
       IN /\ toHost' = SubSeq(toHost, n + 1, Len(toHost))
          /\ stage' = IF open THEN "protobuf" ELSE stage
          /\ hostGot' = IF open THEN hostGot \o Parsed(body, Known) ELSE hostGot
          /\ received' = IF open THEN Rest(body, Known) ELSE body
  /\ UNCHANGED <<conn, writeVars, toPython, pythonVars, sends>>

\* The read that finds the connection closed: the socket is erased and takes
\* its queue and its codec with it.
OnClose ==
  /\ conn = "closed" /\ io # "data"
  /\ conn' = "erased"
  /\ queue' = <<>> /\ io' = "idle"
  /\ toHost' = <<>> /\ received' = <<>>
  /\ UNCHANGED <<torn, faults, toPython, pythonVars, stage, hostGot, sends>>

Next ==
  \/ \E m \in Message : Write(m) \/ Put(m)
  \/ WriteData \/ OnWriteComplete
  \/ SendMsg \/ HandleWrite \/ HandleRead \/ Closes
  \/ OnMessage \/ OnClose

Spec == Init /\ [][Next]_vars

\* The CTP thread goes on with what it is in, a pending write ends, and both
\* threads come back to sockets that are ready.
Fairness ==
  /\ WF_vars(WriteData) /\ WF_vars(OnWriteComplete) /\ WF_vars(OnMessage)
  /\ WF_vars(SendMsg) /\ WF_vars(HandleWrite) /\ WF_vars(HandleRead)

FairSpec == Spec /\ Fairness

-----------------------------------------------------------------------------
(* Properties *)

Request == [msg : Message, written : Nat]

\* Every variable has its type.
TypeOK ==
  /\ conn \in {"open", "closed", "erased"}
  /\ queue \in Seq(Request) /\ io \in {"idle", "data", "pending"}
  /\ toPython \in Seq(Byte) /\ pyData \in Seq(Byte) /\ netUp \in BOOLEAN
  /\ outQueue \in Seq(Message) /\ buffer \in Seq(Byte) /\ toHost \in Seq(Byte)
  /\ received \in Seq(Byte) /\ stage \in {"shakehand", "protobuf"}
  /\ sends \in [{"host", "python"} -> Nat] /\ faults \in Nat
  /\ torn \in BOOLEAN
  /\ pyGot \in Seq(Message) /\ hostGot \in Seq(Message)

\* WriteData takes the front of write_queue_ without asking: whenever it runs
\* or waits there is a request, the front one has bytes left, and no other
\* request has been begun; and a queue with a request is being written, since
\* only the next Write would wake it.
WriteQueueBusy ==
  /\ (io = "idle") <=> (queue = <<>>)
  /\ \A i \in DOMAIN queue :
       IF i = 1 THEN queue[i].written < Size(queue[i].msg) ELSE queue[i].written = 0

\* The bytes one side has still to hand over.
FramesOf(ms) == FlattenSeq([i \in DOMAIN ms |-> Frame(ms[i])])
Unwritten ==
  IF queue = <<>> THEN <<>>
  ELSE SubSeq(Frame(queue[1].msg), queue[1].written + 1, Size(queue[1].msg))
       \o FramesOf([i \in 1..(Len(queue) - 1) |-> queue[i + 1].msg])

\* The messages that are whole in what the receiver will see.
ToPython ==
  Parsed(pyData \o toPython \o IF conn = "open" THEN Unwritten ELSE <<>>, Message)
ToHost ==
  LET under == received \o toHost
               \o IF conn = "open" THEN buffer \o FramesOf(outQueue) ELSE <<>>
  IN SelectSeq(Parsed(under, Sendable), LAMBDA m : m # Hello)

\* What the host writes reaches Python as a stream of whole messages until
\* the connection closes or a write fails in the middle of a frame: partial
\* and pending writes, failed ones between two frames and reads cut anywhere
\* change nothing (Socket::OnWriteComplete, ProtobufCodec.OnMessage).
HostToPython ==
  INSTANCE MessageStream WITH Lossy <- TRUE,
    queued <- ToPython, delivered <- pyGot, broken <- torn \/ conn # "open"
HostStream == HostToPython!Spec

\* What Python sends reaches the host as a stream of whole messages without a
\* gap, the handshake first and never dispatched (ProtobufClient.SendMsg, handle_write,
\* Codec::OnMessage).
PythonToHost ==
  INSTANCE MessageStream WITH Lossy <- FALSE,
    queued <- ToHost, delivered <- hostGot, broken <- conn # "open"
PythonStream == PythonToHost!Spec

\* Nothing waits for ever on a connection that stays open: all that was
\* written is read, unless a torn frame, or a message without a type in front,
\* stops the reader.
Drained ==
  <>[](\/ conn # "open" \/ torn
       \/ /\ ToPython = <<>>
          /\ ToHost = <<>> \/ Head(ToHost) \in Unknown)

=============================================================================
