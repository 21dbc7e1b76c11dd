----------------------------- MODULE AdbCommand -----------------------------
(***************************************************************************)
(* One adb process and the loop of CommandBase.Execute that reads it, for  *)
(* the commands Proxy runs: "uninstall" and "install" (ProcessInstallApk)  *)
(* and "list" (ProcessGetPackageList).                                     *)
(*                                                                         *)
(* Two processes: adb writes lines to two pipes, closes them and exits;    *)
(* Execute polls for the exit and reads a line in turn.  DeviceMaster uses *)
(* this module as the constant AdbOutcomes.                                *)
(***************************************************************************)
EXTENDS Integers, SequencesExt

CONSTANTS
  Lines,     \* what adb may print
  Jobs,      \* sequences of commands Proxy runs for one request
  MaxLines   \* bound: lines adb prints

Commands == {"uninstall", "install", "list"}
AllLines == {"Success", "Failure", "Failed", "garbled", "package", "text"}

ASSUME ConstantsAssumption ==
  /\ Lines \subseteq AllLines
  /\ Jobs \subseteq Seq(Commands)
  /\ MaxLines \in Nat

\* "garbled": a Failure the regular expression does not match.
Bad == {"Failure", "Failed", "garbled"}

VARIABLES
  job,      \* commands the proxy has still to run
  running,  \* the command Execute runs, or "none"
  \* adb
  adb,      \* none, up, closed (both pipes), exited
  out, err, \* lines in its pipes
  code,     \* its exit code, p.returncode
  wrote,    \* history: the lines it wrote to stdout and to stderr
  \* Execute
  pc,       \* poll, stdout, stderr, exit, idle
  draining, \* the second loop: adb has exited or was killed
  \* Command
  stopParser, happenedError,
  list,     \* package_list
  \* what reaches Master.queue_in
  replies,  \* final replies of the install
  lists,    \* package lists
  parsed    \* history: lines the install has parsed

adbVars    == <<adb, out, err, code, wrote>>
parserVars == <<stopParser, happenedError, list>>
sentVars   == <<replies, lists, parsed>>
vars == <<job, running, adbVars, pc, draining, parserVars, sentVars>>

Init ==
  /\ job \in Jobs /\ running = "none"
  /\ adb = "none" /\ out = <<>> /\ err = <<>> /\ code = 0 /\ wrote = <<>>
  /\ pc = "idle" /\ draining = FALSE
  /\ stopParser = FALSE /\ happenedError = FALSE /\ list = <<>>
  /\ replies = <<>> /\ lists = <<>> /\ parsed = <<>>

-----------------------------------------------------------------------------
(* adb *)

Writes(line) ==
  /\ adb = "up" /\ Len(wrote) < MaxLines
  /\ wrote' = Append(wrote, line)
  /\ \/ out' = Append(out, line) /\ UNCHANGED err
     \/ err' = Append(err, line) /\ UNCHANGED out
  /\ UNCHANGED <<job, running, adb, code, pc, draining, parserVars, sentVars>>

\* The pipes close a moment before the exit can be polled.
Closes ==
  /\ adb = "up"
  /\ adb' = "closed"
  /\ code' \in {0, 1}
  /\ UNCHANGED <<job, running, out, err, wrote, pc, draining, parserVars, sentVars>>

Exits ==
  /\ adb = "closed"
  /\ adb' = "exited"
  /\ UNCHANGED <<job, running, out, err, code, wrote, pc, draining, parserVars, sentVars>>

-----------------------------------------------------------------------------
(* Execute *)

\* Popen for the next command of the request, with a Command of its own.
Starts ==
  /\ pc = "idle" /\ job # <<>>
  /\ running' = Head(job) /\ job' = Tail(job)
  /\ adb' = "up" /\ out' = <<>> /\ err' = <<>> /\ code' = 0 /\ wrote' = <<>>
  /\ pc' = "poll" /\ draining' = FALSE
  /\ stopParser' = FALSE /\ happenedError' = FALSE /\ list' = <<>>
  /\ UNCHANGED sentVars

\* while p.poll() is None
Polls ==
  /\ pc = "poll"
  /\ pc' = "stdout"
  /\ draining' = (adb = "exited")
  /\ UNCHANGED <<job, running, adbVars, parserVars, sentVars>>

\* Parser: succ of the line, by command.
Succ(line) ==
  CASE running = "install"   -> line \notin (IF stopParser THEN {"Failure"} ELSE Bad)
    [] running = "uninstall" -> stopParser \/ line = "Success"
    [] OTHER                 -> TRUE

\* The search finds nothing and .group raises: outside Parser's try block
\* once the parser is stopped.
Raises(line) == running = "install" /\ stopParser /\ line = "garbled"

\* Mutant of Reply: the exception is sent as the progress.
ReplyException(line) ==
  IF running # "install" THEN <<>>
  ELSE IF line = "garbled" THEN <<line>>
  ELSE IF ~Succ(line) THEN <<"failed">>
  ELSE IF stopParser \/ line = "Success" THEN <<"success">>
  ELSE <<>>

\* CallbackInstallObject: what the line becomes in queue_in.  An exception
\* as progress cannot be decoded, and CommandBase.CallbackFail swallows it.
Reply(line) ==
  IF running # "install" \/ line = "garbled" THEN <<>>
  ELSE IF ~Succ(line) THEN <<"failed">>
  ELSE IF stopParser \/ line = "Success" THEN <<"success">>
  ELSE <<>>

\* The replies with more of them; for Master a "success" right after a
\* "success" changes nothing, and a stopped parser sends one at every poll.
Sent(more) ==
  IF more = <<"success">> /\ replies # <<>> /\ Last(replies) = "success"
  THEN replies ELSE replies \o more

\* The lines the install has parsed, without the empty one.
Noted(line) == IF running = "install" /\ line # "eof" THEN Append(parsed, line) ELSE parsed

\* Mutant of Parse: a failure is not reported by the first loop.
ParseFirstFailureLost(line) ==
  /\ stopParser' = (stopParser \/ (line = "Success" /\ running # "list"))
  /\ happenedError' = (happenedError \/ (running = "install" /\ ~Succ(line)))
  /\ list' = IF line = "package" /\ running = "list" THEN Append(list, line) ELSE list
  /\ replies' = Sent(IF ~Succ(line) /\ ~draining THEN <<>> ELSE Reply(line))
  /\ parsed' = Noted(line)
  /\ UNCHANGED lists

\* Mutant of Parse: the second loop does not collect packages.
ParseNoLatePackage(line) ==
  /\ stopParser' = (stopParser \/ (line = "Success" /\ running # "list"))
  /\ happenedError' = (happenedError \/ (running = "install" /\ ~Succ(line)))
  /\ list' = IF line = "package" /\ running = "list" /\ ~draining THEN Append(list, line) ELSE list
  /\ replies' = Sent(Reply(line))
  /\ parsed' = Noted(line)
  /\ UNCHANGED lists

\* Parser and the callback of one line.
Parse(line) ==
  /\ stopParser' = (stopParser \/ (line = "Success" /\ running # "list"))
  /\ happenedError' = (happenedError \/ (running = "install" /\ ~Succ(line)))
  /\ list' = IF line = "package" /\ running = "list" THEN Append(list, line) ELSE list
  /\ replies' = Sent(Reply(line))
  /\ parsed' = Noted(line)
  /\ UNCHANGED lists

\* p.kill() closes the pipes; what they hold can still be read.
Kill == adb' = IF adb = "up" THEN "closed" ELSE adb

\* One round of either loop with the line __ReadLine returned; "eof" is the
\* empty line.  A failure ends the first loop with a kill, the second at once.
Handle(line) ==
  IF draining /\ line = "eof"
  THEN pc' = "exit" /\ UNCHANGED <<adb, draining, parserVars, sentVars>>
  ELSE IF Raises(line)
  THEN /\ pc' = "idle"
       /\ parsed' = Noted(line)
       /\ UNCHANGED <<adb, draining, parserVars, replies, lists>>
  ELSE /\ Parse(line)
       /\ IF Succ(line)
          THEN pc' = (IF draining THEN "stdout" ELSE "poll") /\ UNCHANGED <<adb, draining>>
          ELSE IF draining
          THEN pc' = "exit" /\ UNCHANGED <<adb, draining>>
          ELSE pc' = "stdout" /\ draining' = TRUE /\ Kill

\* __ReadLine: stdout, and stderr once stdout is at its end; both block.
ReadsStdout ==
  /\ pc = "stdout"
  /\ \/ /\ out # <<>>
        /\ out' = Tail(out)
        /\ Handle(Head(out))
     \/ /\ out = <<>> /\ adb # "up"
        /\ pc' = "stderr"
        /\ UNCHANGED <<out, adb, draining, parserVars, sentVars>>
  /\ UNCHANGED <<job, running, err, code, wrote>>

\* Mutant of ReadsStderr: the end of stderr is not noticed.
ReadsStderrNoEof ==
  /\ pc = "stderr"
  /\ err # <<>>
  /\ err' = Tail(err)
  /\ Handle(Head(err))
  /\ UNCHANGED <<job, running, out, code, wrote>>

ReadsStderr ==
  /\ pc = "stderr"
  /\ \/ /\ err # <<>>
        /\ err' = Tail(err)
        /\ Handle(Head(err))
     \/ /\ err = <<>> /\ adb # "up"
        /\ Handle("eof")
        /\ UNCHANGED err
  /\ UNCHANGED <<job, running, out, code, wrote>>

\* Mutant of CallbackExit: any exit of a silent adb is a success.
CallbackExitAnyCode ==
  /\ pc = "exit"
  /\ pc' = "idle"
  /\ replies' = IF running = "install" /\ ~stopParser /\ ~happenedError
                THEN Append(replies, "success") ELSE replies
  /\ lists' = IF running = "list" THEN Append(lists, list) ELSE lists
  /\ UNCHANGED <<job, running, adbVars, draining, parserVars, parsed>>

\* CallbackExit: a silent install is judged by the exit code; the package
\* list is sent, whatever it holds.
CallbackExit ==
  /\ pc = "exit"
  /\ pc' = "idle"
  /\ replies' = IF running = "install" /\ ~stopParser /\ ~happenedError
                THEN Append(replies, IF code = 0 THEN "success" ELSE "failed") ELSE replies
  /\ lists' = IF running = "list" THEN Append(lists, list) ELSE lists
  /\ UNCHANGED <<job, running, adbVars, draining, parserVars, parsed>>

Adb == (\E line \in Lines : Writes(line)) \/ Closes \/ Exits
Execute == Starts \/ Polls \/ ReadsStdout \/ ReadsStderr \/ CallbackExit
Next == Adb \/ Execute

Spec == Init /\ [][Next]_vars

\* adb ends in the end and the proxy thread keeps running.
FairSpec == Spec /\ WF_vars(Execute) /\ WF_vars(Closes) /\ WF_vars(Exits)

-----------------------------------------------------------------------------
(* Properties *)

\* Every variable has its type.
TypeOK ==
  /\ job \in Seq(Commands) /\ running \in Commands \cup {"none"}
  /\ adb \in {"none", "up", "closed", "exited"}
  /\ out \in Seq(Lines) /\ err \in Seq(Lines) /\ wrote \in Seq(Lines) /\ code \in {0, 1}
  /\ pc \in {"idle", "poll", "stdout", "stderr", "exit"}
  /\ draining \in BOOLEAN /\ stopParser \in BOOLEAN /\ happenedError \in BOOLEAN
  /\ list \in Seq({"package"}) /\ lists \in Seq(Seq({"package"}))
  /\ replies \in Seq({"success", "failed"})
  /\ parsed \in Seq(Lines)

Installed == running = "install" /\ pc = "idle"

\* Every install is answered, so that Master learns of it without the
\* timeout, unless a line could not be parsed.
InstallAnswered ==
  Installed /\ "garbled" \notin Range(parsed) => replies # <<>>

\* install.py:36: without a "Success", the install counts as one exactly when
\* adb has named no error, on either pipe, and exits with 0.  No interleaving
\* of the exit with the two loops leaves a line of adb unread.
SilentSuccess ==
  Installed /\ "Success" \notin Range(wrote) /\ "garbled" \notin Range(wrote) =>
    (Last(replies) = "success" <=> code = 0 /\ Range(wrote) \cap Bad = {})

Packages(lines) == Cardinality({i \in DOMAIN lines : lines[i] = "package"})

\* A list that is sent holds every package adb has printed: nothing is lost
\* between the last poll and the end of the pipes.
ListComplete ==
  running = "list" /\ pc = "idle" => Len(Last(lists)) = Packages(wrote)

\* Execute ends when adb does: neither loop waits for a line for ever.
ExecuteEnds == adb = "closed" ~> pc = "idle"

\* The "Success" and "Failure" lines the install has parsed.
Verdicts == SelectSeq(parsed, LAMBDA line : line \in {"Success", "Failure"})

\* install.py:95: a "Failure" after the "Success" is the failure of the
\* install, so failure is the last thing Master hears.
FailureStands == Installed /\ Verdicts = <<"Success", "Failure">> => Last(replies) = "failed"
=============================================================================
