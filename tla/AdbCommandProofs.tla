--------------------------- MODULE AdbCommandProofs ---------------------------
(* What Execute makes of the lines of adb, proved for every request. *)
EXTENDS AdbCommand, FiniteSetTheorems, SequenceTheorems, TLAPS

Reported == {"success", "failed"}

-----------------------------------------------------------------------------
(* Lines and replies *)

\* The first line and the ones that follow are all the lines there are.
LEMMA LineRead ==
  ASSUME NEW s \in Seq(Lines), s # <<>>
  PROVE  /\ Head(s) \in Lines /\ Tail(s) \in Seq(Lines)
         /\ Range(s) = {Head(s)} \cup Range(Tail(s))
<1>1. /\ Head(s) = s[1] /\ Tail(s) \in Seq(Lines) /\ Len(Tail(s)) = Len(s) - 1
      /\ \A i \in 1..Len(Tail(s)) : Tail(s)[i] = s[i + 1]
  BY HeadTailProperties
<1>2. DOMAIN s = 1..Len(s) /\ Len(s) \in Nat \ {0} /\ DOMAIN Tail(s) = 1..(Len(s) - 1)
  BY <1>1
<1>3. ASSUME NEW i \in DOMAIN s
      PROVE  s[i] \in {Head(s)} \cup Range(Tail(s))
  <2>1. CASE i = 1
    BY <1>1, <2>1
  <2>2. CASE i # 1
    <3>1. i - 1 \in DOMAIN Tail(s) /\ Tail(s)[i - 1] = s[i]
      BY <1>1, <1>2, <2>2
    <3> QED BY <3>1 DEF Range
  <2> QED BY <2>1, <2>2
<1>4. ASSUME NEW i \in DOMAIN Tail(s)
      PROVE  Tail(s)[i] \in Range(s)
  <2>1. i + 1 \in DOMAIN s /\ Tail(s)[i] = s[i + 1]
    BY <1>1, <1>2
  <2> QED BY <2>1 DEF Range
<1>5. Head(s) \in Range(s)
  BY <1>1, <1>2 DEF Range
<1>6. Range(s) \subseteq {Head(s)} \cup Range(Tail(s))
  BY <1>3 DEF Range
<1>7. Range(Tail(s)) \subseteq Range(s)
  BY <1>4 DEF Range
<1>8. Head(s) \in Lines
  BY <1>1, <1>2
<1> QED BY <1>1, <1>5, <1>6, <1>7, <1>8

\* A line more.
LEMMA LineAdded ==
  ASSUME NEW S, NEW s \in Seq(S), NEW x \in S
  PROVE  Append(s, x) \in Seq(S) /\ Range(Append(s, x)) = Range(s) \cup {x}
<1>1. /\ Append(s, x) \in Seq(S) /\ Len(Append(s, x)) = Len(s) + 1
      /\ \A i \in 1..Len(s) : Append(s, x)[i] = s[i]
      /\ Append(s, x)[Len(s) + 1] = x
  BY AppendProperties
<1>2. DOMAIN s = 1..Len(s) /\ Len(s) \in Nat /\ DOMAIN Append(s, x) = 1..(Len(s) + 1)
  BY <1>1
<1>3. 1..(Len(s) + 1) = (1..Len(s)) \cup {Len(s) + 1}
  BY <1>2
<1>4. Range(Append(s, x)) \subseteq Range(s) \cup {x}
  BY <1>1, <1>2, <1>3 DEF Range
<1>5. Range(s) \cup {x} \subseteq Range(Append(s, x))
  <2>1. \A i \in DOMAIN s : s[i] \in Range(Append(s, x))
    BY <1>1, <1>2, <1>3 DEF Range
  <2>2. x \in Range(Append(s, x))
    BY <1>1, <1>2, <1>3 DEF Range
  <2> QED BY <2>1, <2>2 DEF Range
<1> QED BY <1>1, <1>4, <1>5

LEMMA NoLine == Range(<<>>) = {}
BY DEF Range

\* The reply to a line.
LEMMA ReplyIs ==
  ASSUME NEW line
  PROVE  Reply(line) \in {<<>>, <<"success">>, <<"failed">>}
BY DEF Reply

\* The replies with more of them end with that.
LEMMA SentIs ==
  ASSUME replies \in Seq(Reported), NEW more \in {<<>>, <<"success">>, <<"failed">>}
  PROVE  /\ Sent(more) \in Seq(Reported)
         /\ more = <<>> => Sent(more) = replies
         /\ more # <<>> => Sent(more) # <<>> /\ Last(Sent(more)) = more[1]
<1>1. CASE more = <<>>
  <2>1. replies \o more = replies
    BY <1>1, ConcatEmptySeq
  <2> QED BY <1>1, <2>1 DEF Sent
<1>2. CASE more # <<>>
  <2>1. more \in Seq(Reported) /\ Len(more) = 1
    <3>1. CASE more = <<"success">>
      BY <3>1 DEF Reported
    <3>2. CASE more = <<"failed">>
      BY <3>2 DEF Reported
    <3> QED BY <1>2, <3>1, <3>2
  <2>2. /\ replies \o more \in Seq(Reported) /\ Len(replies \o more) = Len(replies) + 1
        /\ (replies \o more)[Len(replies) + 1] = more[1]
    <3> DEFINE r == replies
    <3>1. r \in Seq(Reported) /\ Len(r) \in Nat
      OBVIOUS
    <3> HIDE DEF r
    <3>2. /\ r \o more \in Seq(Reported) /\ Len(r \o more) = Len(r) + Len(more)
          /\ \A i \in 1..(Len(r) + Len(more)) :
               (r \o more)[i] = IF i <= Len(r) THEN r[i] ELSE more[i - Len(r)]
      BY <2>1, <3>1, ConcatProperties
    <3>3. (r \o more)[Len(r) + 1] = more[1]
      BY <2>1, <3>1, <3>2
    <3> QED BY <2>1, <3>2, <3>3 DEF r
  <2>3. replies \o more # <<>> /\ Last(replies \o more) = more[1]
    BY <2>2 DEF Last
  <2> QED BY <1>2, <2>2, <2>3 DEF Sent
<1> QED BY <1>1, <1>2

-----------------------------------------------------------------------------
(* Types *)

LEMMA TypeInit == Init => TypeOK
<1> SUFFICES ASSUME Init
             PROVE  TypeOK
  OBVIOUS
<1>1. job \in Seq(Commands)
  BY ConstantsAssumption DEF Init
<1>2. \A S : <<>> \in Seq(S)
  OBVIOUS
<1> QED BY <1>1, <1>2, ZenonT(30) DEF Init, TypeOK

LEMMA TypeHandle ==
  ASSUME TypeOK, NEW line \in Lines \cup {"eof"}, Handle(line)
  PROVE  /\ adb' \in {"none", "up", "closed", "exited"}
         /\ pc' \in {"idle", "poll", "stdout", "stderr", "exit"}
         /\ draining' \in BOOLEAN /\ stopParser' \in BOOLEAN /\ happenedError' \in BOOLEAN
         /\ list' \in Seq({"package"}) /\ lists' \in Seq(Seq({"package"}))
         /\ replies' \in Seq(Reported) /\ parsed' \in Seq(Lines)
<1>1. Noted(line) \in Seq(Lines)
  BY DEF Noted, TypeOK
<1>2. Sent(Reply(line)) \in Seq(Reported)
  BY ReplyIs, SentIs DEF TypeOK, Reported
<1>3. CASE draining /\ line = "eof"
  BY <1>3 DEF Handle, TypeOK, parserVars, sentVars, Reported
<1>4. CASE ~(draining /\ line = "eof") /\ Raises(line)
  BY <1>1, <1>4 DEF Handle, TypeOK, parserVars, Reported
<1>5. CASE ~(draining /\ line = "eof") /\ ~Raises(line)
  <2>1. Parse(line)
    BY <1>5 DEF Handle
  <2>2. (IF line = "package" /\ running = "list" THEN Append(list, line) ELSE list) \in Seq({"package"})
    BY DEF TypeOK
  <2>3. /\ stopParser' \in BOOLEAN /\ happenedError' \in BOOLEAN
        /\ list' \in Seq({"package"}) /\ lists' \in Seq(Seq({"package"}))
        /\ replies' \in Seq(Reported) /\ parsed' \in Seq(Lines)
    BY <1>1, <1>2, <2>1, <2>2 DEF Parse, TypeOK
  <2>4. /\ adb' \in {"none", "up", "closed", "exited"}
        /\ pc' \in {"idle", "poll", "stdout", "stderr", "exit"} /\ draining' \in BOOLEAN
    BY <1>5 DEF Handle, Kill, TypeOK
  <2> QED BY <2>3, <2>4
<1> QED BY <1>3, <1>4, <1>5

LEMMA TypeNext == TypeOK /\ [Next]_vars => TypeOK'
<1> SUFFICES ASSUME TypeOK, [Next]_vars
             PROVE  TypeOK'
  OBVIOUS
<1>1. CASE UNCHANGED vars
  BY <1>1 DEF vars, adbVars, parserVars, sentVars, TypeOK
<1>2. ASSUME NEW line \in Lines, Writes(line)
      PROVE  TypeOK'
  <2>1. wrote' \in Seq(Lines) /\ out' \in Seq(Lines) /\ err' \in Seq(Lines)
    <3>1. wrote \in Seq(Lines) /\ out \in Seq(Lines) /\ err \in Seq(Lines)
      BY DEF TypeOK
    <3>2. \A s \in Seq(Lines) : Append(s, line) \in Seq(Lines)
      BY LineAdded
    <3> QED BY <1>2, <3>1, <3>2 DEF Writes
  <2>2. UNCHANGED <<job, running, adb, code, pc, draining, parserVars, sentVars>>
    BY <1>2 DEF Writes
  <2> QED BY <2>1, <2>2 DEF parserVars, sentVars, TypeOK
<1>3. CASE Closes \/ Exits
  BY <1>3 DEF Closes, Exits, parserVars, sentVars, TypeOK
<1>4. CASE Starts
  <2>1. running' \in Commands /\ job' \in Seq(Commands)
    BY <1>4, HeadTailProperties DEF Starts, TypeOK
  <2>2. out' \in Seq(Lines) /\ err' \in Seq(Lines) /\ wrote' \in Seq(Lines) /\ list' \in Seq({"package"})
    <3>1. out' = <<>> /\ err' = <<>> /\ wrote' = <<>> /\ list' = <<>>
      BY <1>4 DEF Starts
    <3>2. \A S : <<>> \in Seq(S)
      OBVIOUS
    <3> QED BY <3>1, <3>2, Zenon
  <2> QED BY <1>4, <2>1, <2>2 DEF Starts, sentVars, TypeOK
<1>5. CASE Polls
  BY <1>5 DEF Polls, adbVars, parserVars, sentVars, TypeOK
<1>6. CASE ReadsStdout
  <2>1. CASE out # <<>> /\ out' = Tail(out) /\ Handle(Head(out))
    <3>1. Head(out) \in Lines /\ Tail(out) \in Seq(Lines)
      BY <2>1, LineRead DEF TypeOK
    <3> QED BY <1>6, <2>1, <3>1, TypeHandle DEF ReadsStdout, TypeOK, Reported
  <2>2. CASE pc' = "stderr" /\ UNCHANGED <<out, adb, draining, parserVars, sentVars>>
    BY <1>6, <2>2 DEF ReadsStdout, parserVars, sentVars, TypeOK
  <2> QED BY <1>6, <2>1, <2>2 DEF ReadsStdout
<1>7. CASE ReadsStderr
  <2>1. CASE err # <<>> /\ err' = Tail(err) /\ Handle(Head(err))
    <3>1. Head(err) \in Lines /\ Tail(err) \in Seq(Lines)
      BY <2>1, LineRead DEF TypeOK
    <3> QED BY <1>7, <2>1, <3>1, TypeHandle DEF ReadsStderr, TypeOK, Reported
  <2>2. CASE Handle("eof") /\ UNCHANGED err
    BY <1>7, <2>2, TypeHandle DEF ReadsStderr, TypeOK, Reported
  <2> QED BY <1>7, <2>1, <2>2 DEF ReadsStderr
<1>8. CASE CallbackExit
  <2>1. replies' \in Seq(Reported)
    BY <1>8 DEF CallbackExit, TypeOK, Reported
  <2>2. lists' \in Seq(Seq({"package"}))
    BY <1>8 DEF CallbackExit, TypeOK
  <2> QED BY <1>8, <2>1, <2>2 DEF CallbackExit, adbVars, parserVars, TypeOK, Reported
<1> QED BY <1>1, <1>2, <1>3, <1>4, <1>5, <1>6, <1>7, <1>8 DEF Next, Adb, Execute

\* Every variable of Execute and of the pipes keeps its type.
THEOREM TypeCorrect == Spec => []TypeOK
BY TypeInit, TypeNext, PTL DEF Spec
-----------------------------------------------------------------------------
(* An install is answered *)

\* Master has heard of the install, or a line could not be parsed.
Heard == replies # <<>> \/ "garbled" \in Range(parsed)

\* A line that stops the parser or is an error is answered at once.
AnswerInv == running = "install" /\ (stopParser \/ happenedError \/ pc = "idle") => Heard

\* The lines an install has parsed.
LEMMA NotedIs ==
  ASSUME TypeOK, NEW line \in Lines \cup {"eof"}, running = "install"
  PROVE  /\ Range(parsed) \subseteq Range(Noted(line))
         /\ line # "eof" => line \in Range(Noted(line))
<1>1. parsed \in Seq(Lines)
  BY DEF TypeOK
<1>2. CASE line = "eof"
  BY <1>2 DEF Noted
<1>3. CASE line # "eof"
  <2>1. Range(Append(parsed, line)) = Range(parsed) \cup {line}
    BY <1>1, <1>3, LineAdded
  <2> QED BY <1>3, <2>1 DEF Noted
<1> QED BY <1>2, <1>3

\* The verdict of Parser on a line of an install.
LEMMA SuccIs ==
  ASSUME NEW line, running = "install", ~stopParser
  PROVE  /\ Succ(line) <=> line \notin Bad
         /\ ~Raises(line)
         /\ Reply(line) = CASE line \in {"Failure", "Failed"} -> <<"failed">>
                            [] line = "Success" -> <<"success">>
                            [] OTHER -> <<>>
<1>1. (Succ(line) <=> line \notin Bad) /\ ~Raises(line)
  BY DEF Succ, Raises
<1>2. CASE line \in {"Failure", "Failed"}
  BY <1>1, <1>2 DEF Reply, Bad
<1>3. CASE line = "Success"
  BY <1>1, <1>3 DEF Reply, Bad
<1>4. CASE line \notin {"Failure", "Failed", "Success"}
  BY <1>1, <1>4 DEF Reply, Bad
<1> QED BY <1>1, <1>2, <1>3, <1>4

LEMMA AnswerHandle ==
  ASSUME TypeOK, AnswerInv, NEW line \in Lines \cup {"eof"}, Handle(line), UNCHANGED running
  PROVE  AnswerInv'
<1> SUFFICES ASSUME running = "install", stopParser' \/ happenedError' \/ pc' = "idle"
             PROVE  Heard'
  BY DEF AnswerInv
<1>1. /\ Range(parsed) \subseteq Range(Noted(line))
      /\ line # "eof" => line \in Range(Noted(line))
  BY NotedIs
<1>2. CASE draining /\ line = "eof"
  BY <1>2 DEF Handle, AnswerInv, Heard, parserVars, sentVars
<1>3. CASE ~(draining /\ line = "eof") /\ Raises(line)
  BY <1>1, <1>3 DEF Handle, Raises, Heard
<1>4. CASE ~(draining /\ line = "eof") /\ ~Raises(line)
  <2>1. Parse(line) /\ pc' # "idle"
    BY <1>4 DEF Handle
  <2>2. replies' = Sent(Reply(line)) /\ parsed' = Noted(line)
    BY <2>1 DEF Parse
  <2>3. replies # <<>> \/ Reply(line) # <<>> => replies' # <<>>
    BY <2>2, ReplyIs, SentIs DEF TypeOK, Reported
  <2>4. CASE stopParser \/ happenedError
    BY <1>1, <2>2, <2>3, <2>4 DEF AnswerInv, Heard
  <2>5. CASE ~stopParser /\ ~happenedError
    <3>1. line = "Success" \/ ~Succ(line)
      BY <2>1, <2>5 DEF Parse
    <3>2. line = "Success" \/ line \in Bad
      BY <2>5, <3>1, SuccIs
    <3>3. CASE line = "garbled"
      BY <1>1, <2>2, <3>3 DEF Heard
    <3>4. CASE line # "garbled"
      <4>1. Reply(line) # <<>>
        BY <2>5, <3>2, <3>4, SuccIs DEF Bad
      <4> QED BY <2>3, <4>1 DEF Heard
    <3> QED BY <3>3, <3>4
  <2> QED BY <2>4, <2>5
<1> QED BY <1>2, <1>3, <1>4

LEMMA AnswerNext == TypeOK /\ AnswerInv /\ [Next]_vars => AnswerInv'
<1> SUFFICES ASSUME TypeOK, AnswerInv, [Next]_vars
             PROVE  AnswerInv'
  OBVIOUS
<1>1. ASSUME UNCHANGED <<running, pc, stopParser, happenedError, replies, parsed>>
      PROVE  AnswerInv'
  BY <1>1 DEF AnswerInv, Heard
<1>2. CASE UNCHANGED vars \/ Adb
  BY <1>1, <1>2 DEF vars, parserVars, sentVars, Adb, Writes, Closes, Exits
<1>3. CASE Starts
  BY <1>3 DEF Starts, AnswerInv
<1>4. CASE Polls
  BY <1>4 DEF Polls, parserVars, sentVars, AnswerInv, Heard
<1>5. CASE ReadsStdout
  <2>1. CASE out # <<>> /\ Handle(Head(out))
    <3>1. Head(out) \in Lines
      BY <2>1, LineRead DEF TypeOK
    <3> QED BY <1>5, <2>1, <3>1, AnswerHandle DEF ReadsStdout
  <2>2. CASE pc' = "stderr" /\ UNCHANGED <<parserVars, sentVars>>
    BY <1>5, <2>2 DEF ReadsStdout, AnswerInv, Heard, parserVars, sentVars
  <2> QED BY <1>5, <2>1, <2>2 DEF ReadsStdout
<1>6. CASE ReadsStderr
  <2>1. CASE err # <<>> /\ Handle(Head(err))
    <3>1. Head(err) \in Lines
      BY <2>1, LineRead DEF TypeOK
    <3> QED BY <1>6, <2>1, <3>1, AnswerHandle DEF ReadsStderr
  <2>2. CASE Handle("eof")
    BY <1>6, <2>2, AnswerHandle DEF ReadsStderr
  <2> QED BY <1>6, <2>1, <2>2 DEF ReadsStderr
<1>7. CASE CallbackExit
  <2>1. SUFFICES ASSUME running = "install"
                 PROVE  Heard'
    BY <1>7 DEF CallbackExit, AnswerInv
  <2>2. CASE stopParser \/ happenedError
    BY <1>7, <2>1, <2>2 DEF CallbackExit, AnswerInv, Heard
  <2>3. CASE ~stopParser /\ ~happenedError
    <3>1. \E r : replies' = Append(replies, r)
      BY <1>7, <2>1, <2>3 DEF CallbackExit
    <3>2. replies \in Seq(Reported)
      BY DEF TypeOK, Reported
    <3>3. replies' # <<>>
      BY <3>1, <3>2
    <3> QED BY <3>3 DEF Heard
  <2> QED BY <2>2, <2>3
<1> QED BY <1>2, <1>3, <1>4, <1>5, <1>6, <1>7 DEF Next, Execute

\* No interleaving of adb with the two loops leaves an install without an
\* answer, unless a line cannot be parsed (cmdtool/base.py:105-142).
THEOREM Answered == Spec => []InstallAnswered
<1>1. Init => AnswerInv
  BY DEF Init, AnswerInv
<1>2. AnswerInv => InstallAnswered
  BY DEF AnswerInv, InstallAnswered, Installed, Heard
<1>3. Spec => []AnswerInv
  BY <1>1, AnswerNext, TypeCorrect, PTL DEF Spec
<1> QED BY <1>2, <1>3, PTL
-----------------------------------------------------------------------------
(* What is left in the pipes *)

\* Execute reads stderr once stdout is at its end, and its second loop starts
\* when adb has exited or was killed: then no line comes any more.
PipeInv ==
  /\ Range(out) \cup Range(err) \subseteq Range(wrote)
  /\ pc = "stderr" => out = <<>> /\ adb # "up"
  /\ pc = "exit" => draining
  /\ draining => adb # "up"

\* What a line does to the loops.
LEMMA LoopHandle ==
  ASSUME PipeInv, NEW line, Handle(line)
  PROVE  /\ pc' \in {"poll", "stdout", "exit", "idle"}
         /\ pc' = "exit" => draining'
         /\ draining' => adb' # "up"
         /\ adb # "up" => adb' # "up"
<1>1. CASE draining /\ line = "eof"
  BY <1>1 DEF Handle, PipeInv
<1>2. CASE ~(draining /\ line = "eof") /\ Raises(line)
  BY <1>2 DEF Handle, PipeInv
<1>3. CASE ~(draining /\ line = "eof") /\ ~Raises(line)
  BY <1>3 DEF Handle, PipeInv, Kill
<1> QED BY <1>1, <1>2, <1>3

\* A line adb writes goes to one of the pipes.
LEMMA WriteIs ==
  ASSUME TypeOK, NEW line \in Lines, Writes(line)
  PROVE  /\ Range(wrote') = Range(wrote) \cup {line}
         /\ \/ Range(out') = Range(out) \cup {line} /\ err' = err
            \/ Range(err') = Range(err) \cup {line} /\ out' = out
<1>1. wrote \in Seq(Lines) /\ out \in Seq(Lines) /\ err \in Seq(Lines)
  BY DEF TypeOK
<1>2. \A s \in Seq(Lines) : Range(Append(s, line)) = Range(s) \cup {line}
  BY LineAdded
<1> QED BY <1>1, <1>2 DEF Writes

\* What the two reads have in common: either the next line of a pipe, which
\* is then no longer in it, or the end of both.
LEMMA ReadIs ==
  ASSUME TypeOK, PipeInv, ReadsStdout \/ ReadsStderr
  PROVE  /\ UNCHANGED <<job, running, code, wrote>>
         /\ \/ \E line \in Range(wrote) :
                 /\ line \in Lines /\ Handle(line)
                 /\ Range(out) \cup Range(err) = {line} \cup Range(out') \cup Range(err')
            \/ Handle("eof") /\ out = <<>> /\ err = <<>> /\ UNCHANGED <<out, err>>
            \/ /\ pc' = "stderr" /\ out = <<>> /\ adb # "up"
               /\ UNCHANGED <<out, err, adb, draining, parserVars, sentVars>>
<1>1. out \in Seq(Lines) /\ err \in Seq(Lines)
  BY DEF TypeOK
<1>2. UNCHANGED <<job, running, code, wrote>>
  BY DEF ReadsStdout, ReadsStderr
<1>3. CASE ReadsStdout /\ out # <<>> /\ out' = Tail(out) /\ Handle(Head(out))
  <2>1. Head(out) \in Lines /\ Range(out) = {Head(out)} \cup Range(out')
    BY <1>1, <1>3, LineRead
  <2>2. err' = err
    BY <1>3 DEF ReadsStdout
  <2>3. Head(out) \in Range(wrote)
    BY <2>1 DEF PipeInv
  <2> QED BY <1>2, <1>3, <2>1, <2>2, <2>3
<1>4. CASE /\ ReadsStdout /\ out = <<>> /\ adb # "up" /\ pc' = "stderr"
           /\ UNCHANGED <<out, adb, draining, parserVars, sentVars>>
  BY <1>2, <1>4 DEF ReadsStdout
<1>5. CASE ReadsStderr /\ err # <<>> /\ err' = Tail(err) /\ Handle(Head(err))
  <2>1. Head(err) \in Lines /\ Range(err) = {Head(err)} \cup Range(err')
    BY <1>1, <1>5, LineRead
  <2>2. out' = out
    BY <1>5 DEF ReadsStderr
  <2>3. Head(err) \in Range(wrote)
    BY <2>1 DEF PipeInv
  <2> QED BY <1>2, <1>5, <2>1, <2>2, <2>3
<1>6. CASE ReadsStderr /\ err = <<>> /\ Handle("eof") /\ UNCHANGED err
  BY <1>2, <1>6 DEF ReadsStderr, PipeInv
<1> QED BY <1>3, <1>4, <1>5, <1>6 DEF ReadsStdout, ReadsStderr

LEMMA PipeNext == TypeOK /\ PipeInv /\ [Next]_vars => PipeInv'
<1> SUFFICES ASSUME TypeOK, PipeInv, [Next]_vars
             PROVE  PipeInv'
  OBVIOUS
<1>1. CASE UNCHANGED vars \/ CallbackExit
  BY <1>1 DEF vars, adbVars, CallbackExit, PipeInv
<1>2. ASSUME NEW line \in Lines, Writes(line)
      PROVE  PipeInv'
  <2>1. adb = "up" /\ UNCHANGED <<pc, draining, adb>>
    BY <1>2 DEF Writes
  <2> QED BY <1>2, <2>1, WriteIs DEF PipeInv
<1>3. CASE Closes \/ Exits
  BY <1>3 DEF Closes, Exits, PipeInv
<1>4. CASE Starts
  <2>1. out' = <<>> /\ err' = <<>> /\ pc' = "poll" /\ draining' = FALSE
    BY <1>4 DEF Starts
  <2> QED BY <2>1, NoLine DEF PipeInv
<1>5. CASE Polls
  BY <1>5 DEF Polls, adbVars, PipeInv
<1>6. CASE ReadsStdout \/ ReadsStderr
  <2>1. ASSUME NEW line \in Range(wrote), Handle(line), wrote' = wrote,
               Range(out) \cup Range(err) = {line} \cup Range(out') \cup Range(err')
        PROVE  PipeInv'
    <3>1. /\ pc' \in {"poll", "stdout", "exit", "idle"} /\ (pc' = "exit" => draining')
          /\ draining' => adb' # "up"
      BY <2>1, LoopHandle
    <3> QED BY <2>1, <3>1 DEF PipeInv
  <2>2. ASSUME Handle("eof"), UNCHANGED <<wrote, out, err>>
        PROVE  PipeInv'
    <3>1. /\ pc' \in {"poll", "stdout", "exit", "idle"} /\ (pc' = "exit" => draining')
          /\ draining' => adb' # "up"
      BY <2>2, LoopHandle
    <3> QED BY <2>2, <3>1 DEF PipeInv
  <2>3. ASSUME pc' = "stderr", out = <<>>, adb # "up", UNCHANGED <<wrote, out, err, adb, draining>>
        PROVE  PipeInv'
    BY <2>3 DEF PipeInv
  <2> QED BY <1>6, <2>1, <2>2, <2>3, ReadIs
<1> QED BY <1>1, <1>2, <1>3, <1>4, <1>5, <1>6 DEF Next, Adb, Execute

LEMMA PipeAlways == Spec => []PipeInv
<1>1. Init => PipeInv
  BY NoLine DEF Init, PipeInv
<1> QED BY <1>1, PipeNext, TypeCorrect, PTL DEF Spec

-----------------------------------------------------------------------------
(* A silent install *)

\* An install that has printed neither "Success" nor a line that cannot be parsed.
Quiet == running = "install" /\ {"Success", "garbled"} \cap Range(wrote) = {}

\* An error is the last thing Master has heard; without one, errors are only
\* where they will still be read.
QuietInv ==
  Quiet =>
    /\ ~stopParser
    /\ happenedError => replies # <<>> /\ Last(replies) = "failed" /\ Range(wrote) \cap Bad # {}
    /\ ~happenedError => Range(wrote) \cap Bad \subseteq Range(out) \cup Range(err)
    /\ pc = "exit" /\ ~happenedError => out = <<>> /\ err = <<>>
    /\ pc = "idle" => adb # "up" /\ (Last(replies) = "success" <=> code = 0 /\ Range(wrote) \cap Bad = {})

\* A line of such an install, or the end of its pipes.
LEMMA QuietHandle ==
  ASSUME TypeOK, PipeInv, QuietInv, Quiet, NEW line \in Range(wrote) \cup {"eof"},
         Handle(line), UNCHANGED <<running, wrote>>,
         Range(out) \cup Range(err) \subseteq {line} \cup Range(out') \cup Range(err'),
         line = "eof" => out' = <<>> /\ err' = <<>>
  PROVE  QuietInv'
<1>1. ~stopParser /\ line \notin {"Success", "garbled"} /\ running = "install"
  BY DEF QuietInv, Quiet
<1>2. (Succ(line) <=> line \notin Bad) /\ ~Raises(line)
  BY <1>1, SuccIs
<1>3. CASE draining /\ line = "eof"
  <2>1. pc' = "exit" /\ UNCHANGED <<stopParser, happenedError, replies>>
    BY <1>3 DEF Handle, parserVars, sentVars
  <2>2. "eof" \notin Bad
    BY DEF Bad
  <2> QED BY <1>3, <2>1, <2>2 DEF QuietInv, Quiet
<1>4. CASE ~(draining /\ line = "eof") /\ line \notin Bad
  <2>1. Parse(line) /\ pc' \in {"stdout", "poll"}
    BY <1>2, <1>4 DEF Handle
  <2>2. Reply(line) = <<>>
    BY <1>1, <1>4, SuccIs DEF Bad
  <2>3. replies' = replies
    BY <2>1, <2>2, SentIs DEF Parse, TypeOK, Reported
  <2>4. UNCHANGED <<stopParser, happenedError>>
    BY <1>1, <1>2, <1>4, <2>1 DEF Parse, TypeOK
  <2> QED BY <1>4, <2>1, <2>3, <2>4 DEF QuietInv, Quiet
<1>5. CASE ~(draining /\ line = "eof") /\ line \in Bad
  <2>1. Parse(line) /\ pc' \in {"stdout", "exit"}
    BY <1>2, <1>5 DEF Handle
  <2>2. Reply(line) = <<"failed">>
    BY <1>1, <1>5, SuccIs DEF Bad
  <2>3. replies' # <<>> /\ Last(replies') = "failed"
    <3>1. replies' = Sent(<<"failed">>)
      BY <2>1, <2>2 DEF Parse
    <3>2. <<"failed">> # <<>> /\ <<"failed">>[1] = "failed"
      OBVIOUS
    <3> QED BY <3>1, <3>2, SentIs DEF TypeOK, Reported
  <2>4. stopParser' = FALSE /\ happenedError' = TRUE
    BY <1>1, <1>2, <1>5, <2>1 DEF Parse, TypeOK
  <2>5. line \in Range(wrote) \cap Bad
    BY <1>5 DEF Bad
  <2> QED BY <2>1, <2>3, <2>4, <2>5 DEF QuietInv, Quiet
<1> QED BY <1>3, <1>4, <1>5

LEMMA QuietNext == TypeOK /\ PipeInv /\ QuietInv /\ [Next]_vars => QuietInv'
<1> SUFFICES ASSUME TypeOK, PipeInv, QuietInv, [Next]_vars, Quiet'
             PROVE  QuietInv'
  BY DEF QuietInv
<1>1. CASE UNCHANGED vars
  BY <1>1 DEF vars, adbVars, parserVars, sentVars, QuietInv, Quiet
<1>2. ASSUME NEW line \in Lines, Writes(line)
      PROVE  QuietInv'
  <2>1. adb = "up" /\ UNCHANGED <<running, pc, stopParser, happenedError, replies, draining>>
    BY <1>2 DEF Writes, parserVars, sentVars
  <2>2. Quiet /\ Range(wrote') = Range(wrote) \cup {line}
    BY <1>2, <2>1, WriteIs DEF Quiet
  <2>3. pc \notin {"exit", "idle"}
    BY <2>1, <2>2 DEF PipeInv, QuietInv
  <2>4. ~happenedError' => Range(wrote') \cap Bad \subseteq Range(out') \cup Range(err')
    BY <1>2, <2>1, <2>2, WriteIs DEF QuietInv
  <2> QED BY <2>1, <2>2, <2>3, <2>4 DEF QuietInv
<1>3. CASE Closes \/ Exits
  BY <1>3 DEF Closes, Exits, parserVars, sentVars, QuietInv, Quiet, PipeInv
<1>4. CASE Starts
  BY <1>4, NoLine DEF Starts, QuietInv
<1>5. CASE Polls
  BY <1>5 DEF Polls, adbVars, parserVars, sentVars, QuietInv, Quiet
<1>6. CASE ReadsStdout \/ ReadsStderr
  <2>1. Quiet /\ UNCHANGED <<running, wrote, code>>
    BY <1>6, ReadIs DEF Quiet
  <2>2. ASSUME NEW line \in Range(wrote), line \in Lines, Handle(line),
               Range(out) \cup Range(err) = {line} \cup Range(out') \cup Range(err')
        PROVE  QuietInv'
    <3>1. line # "eof"
      BY <2>2, ConstantsAssumption DEF AllLines
    <3> QED BY <2>1, <2>2, <3>1, QuietHandle
  <2>3. ASSUME Handle("eof"), out = <<>>, err = <<>>, UNCHANGED <<out, err>>
        PROVE  QuietInv'
    BY <2>1, <2>3, QuietHandle
  <2>4. ASSUME pc' = "stderr", UNCHANGED <<out, err, adb, draining, parserVars, sentVars>>
        PROVE  QuietInv'
    BY <2>1, <2>4 DEF QuietInv, Quiet, parserVars, sentVars
  <2> QED BY <1>6, <2>2, <2>3, <2>4, ReadIs
<1>7. CASE CallbackExit
  <2>1. /\ pc = "exit" /\ pc' = "idle"
        /\ UNCHANGED <<running, adb, code, wrote, out, err, stopParser, happenedError>>
    BY <1>7 DEF CallbackExit, adbVars, parserVars
  <2>2. Quiet /\ adb # "up" /\ ~stopParser /\ running = "install"
    BY <2>1 DEF Quiet, QuietInv, PipeInv
  <2>3. CASE happenedError
    <3>1. replies' = replies
      BY <1>7, <2>3 DEF CallbackExit
    <3> QED BY <2>1, <2>2, <2>3, <3>1 DEF QuietInv, Quiet
  <2>4. CASE ~happenedError
    <3>1. Range(wrote) \cap Bad = {}
      BY <2>1, <2>2, <2>4, NoLine DEF QuietInv
    <3>2. replies' = Append(replies, IF code = 0 THEN "success" ELSE "failed")
      BY <1>7, <2>2, <2>4 DEF CallbackExit
    <3>3. Last(replies') = IF code = 0 THEN "success" ELSE "failed"
      <4>1. replies \in Seq(Reported) /\ \A r : Last(Append(replies, r)) = r
        BY DEF TypeOK, Reported, Last
      <4> QED BY <3>2, <4>1
    <3> QED BY <2>1, <2>2, <2>4, <3>1, <3>3 DEF QuietInv, Quiet
  <2> QED BY <2>3, <2>4 DEF TypeOK
<1> QED BY <1>1, <1>2, <1>3, <1>4, <1>5, <1>6, <1>7 DEF Next, Adb, Execute

\* install.py:36: whatever the two loops leave to each other, an install that
\* prints no "Success" counts as one exactly when adb has named no error on
\* either pipe and exits with 0.
THEOREM Silent == Spec => []SilentSuccess
<1>1. Init => QuietInv
  BY DEF Init, QuietInv, Quiet
<1>2. QuietInv => SilentSuccess
  BY DEF QuietInv, Quiet, SilentSuccess, Installed
<1>3. Spec => []QuietInv
  BY <1>1, QuietNext, TypeCorrect, PipeAlways, PTL DEF Spec
<1> QED BY <1>2, <1>3, PTL
-----------------------------------------------------------------------------
(* What a list holds *)

PackageIndices(s) == {i \in DOMAIN s : s[i] = "package"}

LEMMA IndicesFinite ==
  ASSUME NEW S, NEW s \in Seq(S)
  PROVE  IsFiniteSet(PackageIndices(s)) /\ Packages(s) \in Nat
<1>1. IsFiniteSet(DOMAIN s)
  <2>1. DOMAIN s = 1..Len(s) /\ Len(s) \in Int /\ 1 \in Int
    OBVIOUS
  <2> QED BY <2>1, FS_Interval
<1>2. PackageIndices(s) \in SUBSET (DOMAIN s)
  BY DEF PackageIndices
<1>3. IsFiniteSet(PackageIndices(s))
  BY <1>1, <1>2, FS_Subset
<1> QED BY <1>3, FS_CardinalityType DEF Packages, PackageIndices

LEMMA NoPackages == Packages(<<>>) = 0
<1>1. {i \in DOMAIN <<>> : <<>>[i] = "package"} = {}
  OBVIOUS
<1> QED BY <1>1, FS_EmptySet DEF Packages

\* A line more at the end.
LEMMA PackagesAppend ==
  ASSUME NEW S, NEW s \in Seq(S), NEW x \in S
  PROVE  Packages(Append(s, x)) = Packages(s) + IF x = "package" THEN 1 ELSE 0
<1> DEFINE t == Append(s, x)
<1>1. /\ DOMAIN s = 1..Len(s) /\ Len(s) \in Nat /\ DOMAIN t = 1..(Len(s) + 1)
      /\ t[Len(s) + 1] = x /\ \A i \in 1..Len(s) : t[i] = s[i]
  BY AppendProperties
<1>2. Len(s) + 1 \notin PackageIndices(s)
  BY <1>1 DEF PackageIndices
<1>3. IsFiniteSet(PackageIndices(s))
  BY IndicesFinite
<1> HIDE DEF t
<1>4. CASE x = "package"
  <2>1. PackageIndices(t) = PackageIndices(s) \cup {Len(s) + 1}
    BY <1>1, <1>4 DEF PackageIndices
  <2> QED BY <1>2, <1>3, <1>4, <2>1, FS_AddElement DEF Packages, PackageIndices, t
<1>5. CASE x # "package"
  <2>1. PackageIndices(t) = PackageIndices(s)
    BY <1>1, <1>5 DEF PackageIndices
  <2>2. Packages(t) = Packages(s) /\ Packages(s) \in Nat
    BY <2>1, IndicesFinite DEF Packages, PackageIndices
  <2> QED BY <1>5, <2>2 DEF t
<1> QED BY <1>4, <1>5

\* The first line less.
LEMMA PackagesTail ==
  ASSUME NEW S, NEW s \in Seq(S), s # <<>>
  PROVE  Packages(s) = Packages(Tail(s)) + IF Head(s) = "package" THEN 1 ELSE 0
<1> DEFINE t == Tail(s)
           I == PackageIndices(s) \ {1}
           shift == [i \in PackageIndices(t) |-> i + 1]
<1>1. /\ DOMAIN s = 1..Len(s) /\ Len(s) \in Nat \ {0} /\ DOMAIN t = 1..(Len(s) - 1)
      /\ t \in Seq(S) /\ Head(s) = s[1] /\ \A i \in 1..(Len(s) - 1) : t[i] = s[i + 1]
  BY HeadTailProperties
<1> HIDE DEF t
<1>2. shift \in Bijection(PackageIndices(t), I)
  <2>1. ASSUME NEW i \in PackageIndices(t)
        PROVE  i + 1 \in I
    BY <1>1, <2>1 DEF PackageIndices
  <2>2. ASSUME NEW i \in PackageIndices(t), NEW j \in PackageIndices(t), i + 1 = j + 1
        PROVE  i = j
    BY <1>1, <2>2 DEF PackageIndices
  <2>3. ASSUME NEW j \in I
        PROVE  \E i \in PackageIndices(t) : i + 1 = j
    <3>1. j - 1 \in PackageIndices(t) /\ (j - 1) + 1 = j
      BY <1>1, <2>3 DEF PackageIndices
    <3> QED BY <3>1
  <2> QED BY <2>1, <2>2, <2>3 DEF Bijection, Injection, Surjection, IsInjective
<1>3. ExistsBijection(PackageIndices(t), I)
  BY <1>2 DEF ExistsBijection
<1>4. Cardinality(I) = Packages(t) /\ Packages(t) \in Nat /\ IsFiniteSet(I)
  BY <1>1, <1>3, IndicesFinite, FS_Bijection DEF Packages, PackageIndices
<1>5. IsFiniteSet(PackageIndices(s))
  BY IndicesFinite
<1>6. Cardinality(I) = IF 1 \in PackageIndices(s) THEN Packages(s) - 1 ELSE Packages(s)
  BY <1>5, FS_RemoveElement DEF Packages, PackageIndices
<1>7. 1 \in PackageIndices(s) <=> Head(s) = "package"
  BY <1>1 DEF PackageIndices
<1>8. Packages(s) \in Nat
  BY IndicesFinite
<1> QED BY <1>4, <1>6, <1>7, <1>8 DEF t

\* The packages are in the list or still in the pipes.
PackageInv ==
  running = "list" =>
    /\ pc # "idle" => Len(list) + Packages(out) + Packages(err) = Packages(wrote)
    /\ pc = "exit" => out = <<>> /\ err = <<>>
    /\ pc = "idle" => adb # "up" /\ Len(Last(lists)) = Packages(wrote)

\* A line of the list, or the end of its pipes.
LEMMA ListHandle ==
  ASSUME TypeOK, NEW line, running = "list", Handle(line)
  PROVE  /\ pc' \in {"poll", "stdout", "exit"}
         /\ pc' = "exit" => line = "eof"
         /\ Len(list') = Len(list) + IF line = "package" THEN 1 ELSE 0
<1>1. Succ(line) /\ ~Raises(line)
  BY DEF Succ, Raises
<1>2. list \in Seq({"package"})
  BY DEF TypeOK
<1>3. CASE draining /\ line = "eof"
  BY <1>2, <1>3 DEF Handle, parserVars
<1>4. CASE ~(draining /\ line = "eof")
  <2>1. list' = (IF line = "package" THEN Append(list, line) ELSE list) /\ pc' \in {"poll", "stdout"}
    BY <1>1, <1>4 DEF Handle, Parse
  <2>2. CASE line = "package"
    <3>1. list' = Append(list, "package")
      BY <2>1, <2>2
    <3> QED BY <1>2, <2>1, <2>2, <3>1
  <2>3. CASE line # "package"
    BY <1>2, <2>1, <2>3
  <2> QED BY <2>2, <2>3, <2>1
<1> QED BY <1>3, <1>4

LEMMA PackageNext == TypeOK /\ PipeInv /\ PackageInv /\ [Next]_vars => PackageInv'
<1> SUFFICES ASSUME TypeOK, PipeInv, PackageInv, [Next]_vars, running' = "list"
             PROVE  PackageInv'
  BY DEF PackageInv
<1>1. /\ out \in Seq(Lines) /\ err \in Seq(Lines) /\ wrote \in Seq(Lines)
      /\ list \in Seq({"package"}) /\ lists \in Seq(Seq({"package"}))
  BY DEF TypeOK
<1>2. /\ Len(list) \in Nat /\ Packages(out) \in Nat /\ Packages(err) \in Nat
      /\ Packages(wrote) \in Nat
  BY <1>1, IndicesFinite
<1>3. CASE UNCHANGED vars
  BY <1>3 DEF vars, adbVars, parserVars, sentVars, PackageInv
<1>4. ASSUME NEW line \in Lines, Writes(line)
      PROVE  PackageInv'
  <2> DEFINE one == IF line = "package" THEN 1 ELSE 0
  <2>1. adb = "up" /\ UNCHANGED <<running, pc, draining, list, lists>>
    BY <1>4 DEF Writes, parserVars, sentVars
  <2>2. pc \notin {"exit", "idle"}
    BY <2>1 DEF PipeInv, PackageInv
  <2>3. one \in Nat
    OBVIOUS
  <2>4. /\ Packages(wrote') = Packages(wrote) + one
        /\ \/ Packages(out') = Packages(out) + one /\ err' = err
           \/ Packages(err') = Packages(err) + one /\ out' = out
    <3>1. \A s \in Seq(Lines) : Packages(Append(s, line)) = Packages(s) + one
      BY PackagesAppend
    <3> QED BY <1>1, <1>4, <3>1 DEF Writes
  <2> HIDE DEF one
  <2>5. Len(list) + Packages(out) + Packages(err) = Packages(wrote)
    BY <2>1, <2>2 DEF PackageInv
  <2>6. Len(list) + Packages(out') + Packages(err') = Packages(wrote')
    BY <1>2, <2>3, <2>4, <2>5
  <2> QED BY <2>1, <2>2, <2>6 DEF PackageInv
<1>5. CASE Closes \/ Exits
  BY <1>5 DEF Closes, Exits, parserVars, sentVars, PackageInv
<1>6. CASE Starts
  <2>1. pc' = "poll" /\ out' = <<>> /\ err' = <<>> /\ wrote' = <<>> /\ list' = <<>>
    BY <1>6 DEF Starts
  <2>2. Len(list') + Packages(out') + Packages(err') = Packages(wrote')
    BY <2>1, NoPackages
  <2> QED BY <2>1, <2>2 DEF PackageInv
<1>7. CASE Polls
  BY <1>7 DEF Polls, adbVars, parserVars, sentVars, PackageInv
<1>8. CASE ReadsStdout \/ ReadsStderr
  <2>1. running = "list" /\ UNCHANGED <<running, wrote>> /\ pc \in {"stdout", "stderr"}
    BY <1>8 DEF ReadsStdout, ReadsStderr
  <2>2. Len(list) + Packages(out) + Packages(err) = Packages(wrote)
    BY <2>1 DEF PackageInv
  <2>3. ASSUME NEW line \in Lines, Handle(line),
               Packages(out') + Packages(err') + (IF line = "package" THEN 1 ELSE 0)
                 = Packages(out) + Packages(err),
               out' \in Seq(Lines), err' \in Seq(Lines)
        PROVE  PackageInv'
    <3>1. line # "eof"
      BY <2>3, ConstantsAssumption DEF AllLines
    <3>2. pc' \in {"poll", "stdout"} /\ Len(list') = Len(list) + IF line = "package" THEN 1 ELSE 0
      BY <2>1, <2>3, <3>1, ListHandle
    <3>3. Packages(out') \in Nat /\ Packages(err') \in Nat
      BY <2>3, IndicesFinite
    <3>4. Len(list') + Packages(out') + Packages(err') = Packages(wrote')
      <4> DEFINE one == IF line = "package" THEN 1 ELSE 0
      <4>1. /\ one \in Nat /\ Len(list') = Len(list) + one
            /\ Packages(out') + Packages(err') + one = Packages(out) + Packages(err)
        BY <2>3, <3>2
      <4>2. Packages(wrote') = Packages(wrote)
        BY <2>1
      <4> HIDE DEF one
      <4> QED BY <1>2, <2>2, <3>3, <4>1, <4>2
    <3> QED BY <3>2, <3>4 DEF PackageInv
  <2>4. CASE ReadsStdout /\ out # <<>>
    <3>1. out' = Tail(out) /\ err' = err /\ Handle(Head(out))
      BY <2>4 DEF ReadsStdout
    <3>2. Head(out) \in Lines /\ Tail(out) \in Seq(Lines)
      BY <1>1, <2>4, LineRead
    <3>3. Packages(out) = Packages(out') + IF Head(out) = "package" THEN 1 ELSE 0
      BY <1>1, <2>4, <3>1, PackagesTail
    <3>4. Packages(out') \in Nat
      BY <3>1, <3>2, IndicesFinite
    <3>5. Packages(out') + Packages(err') + (IF Head(out) = "package" THEN 1 ELSE 0)
            = Packages(out) + Packages(err)
      BY <1>2, <3>1, <3>3, <3>4
    <3> QED BY <1>1, <2>3, <3>1, <3>2, <3>5
  <2>5. CASE ReadsStderr /\ err # <<>>
    <3>1. CASE err' = Tail(err) /\ Handle(Head(err))
      <4>1. out' = out
        BY <2>5 DEF ReadsStderr
      <4>2. Head(err) \in Lines /\ Tail(err) \in Seq(Lines)
        BY <1>1, <2>5, LineRead
      <4>3. Packages(err) = Packages(err') + IF Head(err) = "package" THEN 1 ELSE 0
        BY <1>1, <2>5, <3>1, PackagesTail
      <4>4. Packages(err') \in Nat
        BY <3>1, <4>2, IndicesFinite
      <4>5. Packages(out') + Packages(err') + (IF Head(err) = "package" THEN 1 ELSE 0)
              = Packages(out) + Packages(err)
        BY <1>2, <4>1, <4>3, <4>4
      <4> QED BY <1>1, <2>3, <3>1, <4>1, <4>2, <4>5
    <3> QED BY <2>5, <3>1 DEF ReadsStderr
  <2>6. CASE ReadsStderr /\ err = <<>>
    <3>1. Handle("eof") /\ UNCHANGED <<out, err>> /\ out = <<>>
      BY <2>6 DEF ReadsStderr, PipeInv
    <3>2. pc' # "idle" /\ Len(list') = Len(list)
      BY <1>2, <2>1, <3>1, ListHandle
    <3> QED BY <2>1, <2>2, <2>6, <3>1, <3>2 DEF PackageInv
  <2>7. CASE ReadsStdout /\ out = <<>>
    <3>1. pc' = "stderr" /\ UNCHANGED <<out, err, list>>
      BY <2>7 DEF ReadsStdout, parserVars
    <3> QED BY <2>1, <2>2, <3>1 DEF PackageInv
  <2> QED BY <1>8, <2>4, <2>5, <2>6, <2>7
<1>9. CASE CallbackExit
  <2>1. /\ pc = "exit" /\ pc' = "idle" /\ running = "list" /\ lists' = Append(lists, list)
        /\ UNCHANGED <<running, adb, out, err, wrote, list>>
    BY <1>9 DEF CallbackExit, adbVars, parserVars
  <2>2. adb # "up" /\ out = <<>> /\ err = <<>>
    BY <2>1 DEF PipeInv, PackageInv
  <2>3. Len(list) = Packages(wrote)
    BY <1>2, <2>1, <2>2, NoPackages DEF PackageInv
  <2>4. Last(lists') = list
    BY <1>1, <2>1 DEF Last
  <2> QED BY <2>1, <2>2, <2>3, <2>4 DEF PackageInv
<1> QED BY <1>3, <1>4, <1>5, <1>6, <1>7, <1>8, <1>9 DEF Next, Adb, Execute

\* A list that is sent holds every package adb has printed: nothing is lost
\* between the last poll and the end of the pipes (cmdtool/base.py:105-142).
THEOREM Complete == Spec => []ListComplete
<1>1. Init => PackageInv
  BY DEF Init, PackageInv
<1>2. PackageInv => ListComplete
  BY DEF PackageInv, ListComplete
<1>3. Spec => []PackageInv
  BY <1>1, PackageNext, TypeCorrect, PipeAlways, PTL DEF Spec
<1> QED BY <1>2, <1>3, PTL
=============================================================================
