------------------------- MODULE DeviceMasterProofs -------------------------
(***************************************************************************)
(* Proofs about DeviceMaster for every number of packages and every bound. *)
(***************************************************************************)
EXTENDS DeviceMaster, SequenceTheorems, TLAPS

\* ProcessCommand has a command left whenever it is past CheckTimeout.
SendHasCommand == \A t \in Threads : pc[t] = "send" => pending[t] # <<>>

\* Only a handler of an install leaves AfterCommand something to do.
RanInstall == \A g \in Proxies : ran[g] => run[g] # None /\ run[g].kind = "install"

Typed == TypeOK /\ SendHasCommand /\ RanInstall

-----------------------------------------------------------------------------
(* What may be put into queue_in *)

\* Every message a proxy or OneDevice builds is a Message.
LEMMA MessageTyped ==
  /\ \A g \in Proxies, c \in InstallCommand : [type |-> "start", from |-> g, cmd |-> c] \in Message
  /\ \A g \in Proxies, c \in InstallCommand : [type |-> "stop", from |-> g, cmd |-> c] \in Message
  /\ \A g \in 0..MaxProxy, c \in InstallCommand, r \in Results \cup Skips :
       [type |-> "reply", from |-> g, cmd |-> c, res |-> r] \in Message
  /\ \A S \in SUBSET Packages : [type |-> "packages", set |-> S] \in Message
  /\ [type |-> "imei"] \in Message
  /\ \A b \in BOOLEAN : [type |-> "devices", present |-> b] \in Message
BY DEF Message

\* What the handlers of Master read from a message of each type.
LEMMA MessageFields ==
  ASSUME NEW m \in Message
  PROVE  /\ m.type \in {"start", "stop"} => m.from \in Proxies /\ m.cmd \in InstallCommand
         /\ m.type = "reply" => /\ m.from \in 0..MaxProxy
                                /\ m.cmd \in InstallCommand
                                /\ m.res \in Results \cup Skips
         /\ m.type = "packages" => m.set \in SUBSET Packages
         /\ m.type = "devices" => m.present \in BOOLEAN
BY DEF Message

\* AddInstallFailed yields a FailedItem.
LEMMA FailureTyped ==
  ASSUME NEW item \in FailedItem \cup {None}, NEW code \in {"timeout", "adb"},
         NEW msg \in Results \cup Skips \cup {"timeout"}
  PROVE  Failure(item, code, msg) \in FailedItem
<1>1. CASE item = None
  BY <1>1 DEF Failure, FailedItem
<1>2. CASE item \in FailedItem /\ item # None
  <2>1. item.try + 1 \in Nat
    BY ONLY <1>2 DEF FailedItem
  <2> DEFINE C == {"timeout", "adb"}
             M == Results \cup Skips \cup {"timeout"}
             I == {0, 1, 1000}
             t == item.try + 1
  <2>2. item \in [try: Nat, code: C, msg: M, inner: I] /\ t \in Nat /\ code \in C /\ msg \in M
    BY <1>2, <2>1 DEF FailedItem
  <2>3. Failure(item, code, msg) = [item EXCEPT !.try = t, !.code = code, !.msg = msg]
    BY <1>2 DEF Failure
  <2> HIDE DEF C, M, I, t
  <2>4. [item EXCEPT !.try = t, !.code = code, !.msg = msg] \in [try: Nat, code: C, msg: M, inner: I]
    BY ONLY <2>2, Zenon
  <2> QED BY <2>3, <2>4 DEF FailedItem, C, M, I
<1> QED BY <1>1, <1>2

\* Taking the first command or message off a queue.
LEMMA HeadTail ==
  ASSUME NEW S, NEW s \in Seq(S), s # <<>>
  PROVE  Head(s) \in S /\ Tail(s) \in Seq(S)
OBVIOUS

\* A command of kind "install" names a package.
LEMMA InstallTyped ==
  ASSUME NEW c \in Command, c.kind = "install"
  PROVE  c \in InstallCommand
BY DEF Command, InstallCommand, InfoCommand

LEMMA AppendTyped ==
  ASSUME NEW m \in Message, queueIn \in Seq(Message)
  PROVE  Append(queueIn, m) \in Seq(Message)
OBVIOUS

LEMMA ProxyTakeTyped ==
  ASSUME Typed, NEW g \in Proxies, ProxyTake(g)
  PROVE  Typed'
<1> DEFINE c == Head(cmds[g])
<1> USE DEF Typed, TypeOK
<1>1. c \in Command /\ Tail(cmds[g]) \in Seq(Command)
  BY HeadTail DEF ProxyTake
<1>2. queueIn' \in Seq(Message)
  <2>1. CASE c.kind = "install"
    <3>1. [type |-> "start", from |-> g, cmd |-> c] \in Message
      BY <1>1, <2>1, InstallTyped, MessageTyped
    <3>2. queueIn' = Append(queueIn, [type |-> "start", from |-> g, cmd |-> c])
      BY <2>1 DEF ProxyTake
    <3> QED BY <3>1, <3>2, AppendTyped
  <2>2. CASE c.kind # "install"
    BY <2>2 DEF ProxyTake
  <2> QED BY <2>1, <2>2
<1>3. TypeOK'
  BY <1>1, <1>2 DEF ProxyTake, deviceVars, threadVars, envVars
<1>4. SendHasCommand'
  BY DEF SendHasCommand, ProxyTake, threadVars
<1>5. RanInstall'
  BY <1>1 DEF RanInstall, ProxyTake
<1> QED BY <1>3, <1>4, <1>5

LEMMA ProxyInstallTyped ==
  ASSUME Typed, NEW g \in Proxies, ProxyInstall(g)
  PROVE  Typed'
<1> USE DEF Typed, TypeOK
<1>1. run[g] \in InstallCommand
  BY InstallTyped DEF ProxyInstall
<1>2. queueIn' \in Seq(Message)
  <2> DEFINE Reply(r) == [type |-> "reply", from |-> g, cmd |-> run[g], res |-> r]
             Replies(o) == [i \in 1..Len(o) |-> Reply(o[i])]
  <2>1. PICK out \in AdbOutcomes : queueIn' = queueIn \o Replies(out)
    BY DEF ProxyInstall
  <2>2. out \in Seq(Results)
    BY ConstantsAssumption
  <2>3. \A i \in 1..Len(out) : Reply(out[i]) \in Message
    <3> SUFFICES ASSUME NEW i \in 1..Len(out)
                 PROVE  Reply(out[i]) \in Message
      OBVIOUS
    <3>1. out[i] \in Results \cup Skips
      BY <2>2, ElementOfSeq
    <3>2. g \in 0..MaxProxy
      BY ConstantsAssumption DEF Proxies
    <3> QED BY <1>1, <3>1, <3>2, MessageTyped
  <2>4. Len(out) \in Nat
    BY <2>2
  <2> HIDE DEF Reply
  <2>5. Replies(out) \in Seq(Message)
    BY <2>3, <2>4, IsASeq
  <2> QED BY <2>1, <2>5, ConcatProperties
<1>3. TypeOK'
  BY <1>2 DEF ProxyInstall, deviceVars, threadVars, envVars
<1>4. SendHasCommand'
  BY DEF SendHasCommand, ProxyInstall, threadVars
<1>5. RanInstall'
  BY DEF RanInstall, ProxyInstall
<1> QED BY <1>3, <1>4, <1>5

LEMMA ProxyAfterInstallTyped ==
  ASSUME Typed, NEW g \in Proxies, ProxyAfterInstall(g)
  PROVE  Typed'
<1> USE DEF Typed, TypeOK
<1>1. [type |-> "stop", from |-> g, cmd |-> run[g]] \in Message
  BY InstallTyped, MessageTyped DEF ProxyAfterInstall, RanInstall
<1>2. queueIn' \in Seq(Message)
  BY <1>1, AppendTyped DEF ProxyAfterInstall
<1>3. TypeOK'
  BY <1>2 DEF ProxyAfterInstall, deviceVars, threadVars, envVars
<1>4. SendHasCommand'
  BY DEF SendHasCommand, ProxyAfterInstall, threadVars
<1>5. RanInstall'
  BY DEF RanInstall, ProxyAfterInstall
<1> QED BY <1>3, <1>4, <1>5

LEMMA ProxyInfoTyped ==
  ASSUME Typed, NEW g \in Proxies, ProxyInfo(g)
  PROVE  Typed'
<1> USE DEF Typed, TypeOK
<1>1. queueIn' \in Seq(Message)
  BY MessageTyped, AppendTyped DEF ProxyInfo
<1>2. TypeOK'
  BY <1>1 DEF ProxyInfo, deviceVars, threadVars, envVars
<1>3. SendHasCommand'
  BY DEF SendHasCommand, ProxyInfo, threadVars
<1>4. RanInstall'
  BY DEF RanInstall, ProxyInfo
<1> QED BY <1>2, <1>3, <1>4

-----------------------------------------------------------------------------
(* The call both threads run *)

LEMMA NoTimeoutTyped ==
  ASSUME Typed, NEW t \in Threads, NoTimeout(t)
  PROVE  Typed'
BY DEF Typed, TypeOK, SendHasCommand, RanInstall, NoTimeout, AfterCheck,
       masterVars, deviceVars, proxyVars, envVars

LEMMA TimeoutTyped ==
  ASSUME Typed, NEW t \in Threads, Timeout(t)
  PROVE  Typed'
<1> DEFINE p == tmp[t].cmd.pkg
<1> USE DEF Typed, TypeOK
<1>1. p \in Packages
  BY DEF Timeout, TimerEntry, InstallCommand
<1>2. Failure(failed[p], "timeout", "timeout") \in FailedItem
  BY <1>1, FailureTyped
<1>3. pc' \in [Threads -> {"idle", "fire", "send", "auto", "trigger", "reload", "dead"}]
  BY DEF Timeout, Raise, AfterCheck
<1>4. inHandler' \in BOOLEAN
  BY DEF Timeout, Raise
<1>5. failed' \in [Packages -> FailedItem \cup {None}]
  BY <1>1, <1>2 DEF Timeout
<1>6. everTimedOut' \subseteq Packages /\ timer' \in TimerEntry \cup {None}
  BY <1>1 DEF Timeout
<1>7. minSub' \in Nat /\ cur' \in 0..MaxProxy
  BY ConstantsAssumption DEF Timeout
<1>8. on' \in [Proxies -> BOOLEAN]
  <2>1. on' = on \/ on' = [h \in Proxies |-> on[h] /\ h # cur]
    BY DEF Timeout
  <2> QED BY <2>1
<1>9. TypeOK'
  BY <1>3, <1>4, <1>5, <1>6, <1>7, <1>8 DEF Timeout
<1>10. SendHasCommand'
  BY DEF SendHasCommand, Timeout, Raise, AfterCheck
<1>11. RanInstall'
  BY DEF RanInstall, Timeout
<1> QED BY <1>9, <1>10, <1>11

\* MaybeCreate keeps the types of what it touches.
LEMMA MaybeCreateTyped ==
  ASSUME TypeOK, NEW g \in Proxies, MaybeCreate(g)
  PROVE  /\ cur' = g /\ g \in 1..MaxProxy
         /\ cur' \in 0..MaxProxy /\ made' \in 0..MaxProxy
         /\ on' \in [Proxies -> BOOLEAN]
<1> USE DEF TypeOK, Proxies
<1>1. CASE cur # 0 /\ g = cur /\ UNCHANGED <<cur, made, on>>
  BY <1>1, ConstantsAssumption
<1>2. CASE /\ cur = 0 /\ made < MaxProxy /\ g = made + 1
           /\ cur' = g /\ made' = g
           /\ on' = [on EXCEPT ![g] = TRUE]
  <2>1. on' \in [Proxies -> BOOLEAN]
    BY <1>2
  <2> QED BY <1>2, <2>1, ConstantsAssumption
<1> QED BY <1>1, <1>2 DEF MaybeCreate

\* A command keeps its type when it gets its operation and its id.
LEMMA NumberedTyped ==
  ASSUME NEW c \in Command, NEW n \in Nat
  PROVE  /\ [c EXCEPT !.sub = n] \in Command
         /\ [c EXCEPT !.sub = n].sub = n
<1>1. CASE c \in InstallCommand
  <2>1. [c EXCEPT !.sub = n] =
          [kind |-> c.kind, pkg |-> c.pkg, force |-> c.force, op |-> c.op, sub |-> n]
    BY <1>1 DEF InstallCommand
  <2> QED BY <1>1, <2>1 DEF Command, InstallCommand
<1>2. CASE c \in InfoCommand
  <2>1. [c EXCEPT !.sub = n] =
          [kind |-> c.kind, pkg |-> c.pkg, force |-> c.force, op |-> c.op, sub |-> n]
    BY <1>2 DEF InfoCommand
  <2> QED BY <1>2, <2>1 DEF Command, InfoCommand
<1> QED BY <1>1, <1>2 DEF Command

LEMMA ResolvedTyped ==
  ASSUME NEW c \in InstallCommand, NEW n \in Nat, NEW op \in {"none", "delete", "just"}
  PROVE  /\ [c EXCEPT !.op = op, !.sub = n] \in InstallCommand
         /\ [c EXCEPT !.op = op, !.sub = n].sub = n
<1> DEFINE d == [c EXCEPT !.op = op]
<1>1. d = [kind |-> c.kind, pkg |-> c.pkg, force |-> c.force, op |-> op, sub |-> c.sub]
  BY DEF InstallCommand
<1>2. [c EXCEPT !.op = op, !.sub = n] = [d EXCEPT !.sub = n]
  BY DEF InstallCommand
<1>3. d \in InstallCommand
  BY <1>1 DEF InstallCommand
<1> HIDE DEF d
<1>4. [d EXCEPT !.sub = n] =
        [kind |-> d.kind, pkg |-> d.pkg, force |-> d.force, op |-> d.op, sub |-> n]
  BY <1>3 DEF InstallCommand
<1> QED BY <1>2, <1>3, <1>4 DEF InstallCommand

\* SendCommand and OneDevice.ProcessInstallApk likewise.
LEMMA SendCommandTyped ==
  ASSUME TypeOK, NEW g \in 0..MaxProxy, NEW c \in Command, NEW base \in Nat,
         SendCommand(g, c, base)
  PROVE  /\ subId' \in Nat /\ lastSub' \in Nat
         /\ cmds' \in [Proxies -> Seq(Command)]
<1> USE DEF TypeOK
<1>1. CASE g = 0
  BY <1>1 DEF SendCommand
<1>2. CASE g # 0
  <2>1. [c EXCEPT !.sub = base + 1] \in Command
    <3>1. base + 1 \in Nat
      OBVIOUS
    <3> QED BY <3>1, NumberedTyped
  <2>2. g \in Proxies
    BY <1>2, ConstantsAssumption DEF Proxies
  <2>3. Append(cmds[g], [c EXCEPT !.sub = base + 1]) \in Seq(Command)
    BY <2>1, <2>2
  <2>4. cmds' = [cmds EXCEPT ![g] = Append(cmds[g], [c EXCEPT !.sub = base + 1])]
    BY <1>2 DEF SendCommand
  <2>5. cmds' \in [Proxies -> Seq(Command)]
    BY <2>3, <2>4
  <2> QED BY <1>2, <2>5 DEF SendCommand
<1> QED BY <1>1, <1>2

LEMMA ProcessInstallApkTyped ==
  ASSUME TypeOK, NEW g \in 0..MaxProxy, NEW c \in InstallCommand, NEW base \in Nat,
         ProcessInstallApk(g, c, base)
  PROVE  /\ subId' \in Nat /\ lastSub' \in Nat
         /\ cmds' \in [Proxies -> Seq(Command)]
         /\ queueIn' \in Seq(Message)
<1> DEFINE op  == IF c.op # "none" THEN c.op
                  ELSE IF pkgSet # None /\ c.pkg \in pkgSet THEN "delete" ELSE "just"
           one == [c EXCEPT !.op = op, !.sub = base + 1]
           Skip(why) ==
             /\ queueIn' = Append(queueIn, [type |-> "reply", from |-> 0, cmd |-> one, res |-> why])
             /\ subId' = base + 1
             /\ UNCHANGED <<lastSub, cmds>>
<1>1. one \in InstallCommand
  <2>1. op \in {"none", "delete", "just"} /\ base + 1 \in Nat
    BY DEF InstallCommand
  <2> HIDE DEF op
  <2> QED BY <2>1, ResolvedTyped
<1>2. \/ SendCommand(g, one, base + 1) /\ UNCHANGED queueIn
      \/ Skip("skip_installed")
      \/ Skip("skip_timeout")
  BY DEF ProcessInstallApk
<1> HIDE DEF one
<1>3. CASE SendCommand(g, one, base + 1) /\ UNCHANGED queueIn
  <2>1. one \in Command /\ base + 1 \in Nat
    BY <1>1 DEF Command
  <2> QED BY <1>3, <2>1, SendCommandTyped DEF TypeOK
<1>4. ASSUME NEW why \in Skips, Skip(why)
      PROVE  /\ subId' \in Nat /\ lastSub' \in Nat
             /\ cmds' \in [Proxies -> Seq(Command)]
             /\ queueIn' \in Seq(Message)
  <2>1. 0 \in 0..MaxProxy /\ why \in Results \cup Skips
    BY ConstantsAssumption
  <2> HIDE DEF Skip
  <2>3. [type |-> "reply", from |-> 0, cmd |-> one, res |-> why] \in Message
    BY <1>1, <2>1, MessageTyped
  <2> USE DEF Skip
  <2>2. queueIn' \in Seq(Message)
    BY <1>4, <2>3, AppendTyped DEF TypeOK
  <2> QED BY <1>4, <2>2 DEF TypeOK
<1> QED BY <1>2, <1>3, <1>4 DEF Skips

\* BeginCommands: the thread goes to CheckTimeout with its commands.
LEMMA BeginCommandsTyped ==
  ASSUME Typed, NEW t \in Threads, NEW seq \in Seq(Command), BeginCommands(t, seq)
  PROVE  /\ pc' \in [Threads -> {"idle", "fire", "send", "auto", "trigger", "reload", "dead"}]
         /\ tmp' \in [Threads -> TimerEntry \cup {None}]
         /\ pending' \in [Threads -> Seq(Command)]
         /\ SendHasCommand'
BY DEF Typed, TypeOK, SendHasCommand, BeginCommands

LEMMA SendTyped ==
  ASSUME Typed, NEW t \in Threads, Send(t)
  PROVE  Typed'
<1> DEFINE c == Head(pending[t])
<1> USE DEF Typed
<1>1. c \in Command /\ Tail(pending[t]) \in Seq(Command)
  BY HeadTail DEF Send, SendHasCommand, TypeOK
<1>2. PICK g \in Proxies :
        /\ MaybeCreate(g)
        /\ IF c.kind = "install" THEN ProcessInstallApk(g, c, subId)
           ELSE SendCommand(g, c, subId) /\ UNCHANGED queueIn
  BY DEF Send
<1>3. /\ cur' \in 0..MaxProxy /\ made' \in 0..MaxProxy
      /\ on' \in [Proxies -> BOOLEAN]
  BY <1>2, MaybeCreateTyped
<1>4. /\ subId' \in Nat /\ lastSub' \in Nat
      /\ cmds' \in [Proxies -> Seq(Command)]
      /\ queueIn' \in Seq(Message)
  <2>1. g \in 0..MaxProxy /\ subId \in Nat /\ queueIn \in Seq(Message)
    BY ConstantsAssumption DEF Proxies, TypeOK
  <2>2. CASE c.kind = "install"
    BY <1>1, <1>2, <2>1, <2>2, InstallTyped, ProcessInstallApkTyped
  <2>3. CASE c.kind # "install"
    BY <1>1, <1>2, <2>1, <2>3, SendCommandTyped
  <2> QED BY <2>2, <2>3
<1>5. /\ pc' \in [Threads -> {"idle", "fire", "send", "auto", "trigger", "reload", "dead"}]
      /\ tmp' \in [Threads -> TimerEntry \cup {None}]
      /\ pending' \in [Threads -> Seq(Command)]
      /\ SendHasCommand'
      /\ inHandler' \in BOOLEAN
  <2>1. CASE Len(pending[t]) > 1
    BY <1>1, <2>1, BeginCommandsTyped DEF Send, TypeOK
  <2>2. CASE ~(Len(pending[t]) > 1)
    <3>1. /\ pending' = [pending EXCEPT ![t] = <<>>]
          /\ UNCHANGED tmp
      BY <2>2 DEF Send
    <3>3. pc' = [pc EXCEPT ![t] = "auto"] \/ pc' = [pc EXCEPT ![t] = "idle"]
      BY <2>2 DEF Send, Leave
    <3>2. inHandler' \in BOOLEAN
      BY <2>2 DEF Send, Leave, TypeOK
    <3>4. /\ pc' \in [Threads -> {"idle", "fire", "send", "auto", "trigger", "reload", "dead"}]
          /\ SendHasCommand'
      BY <3>1, <3>3 DEF TypeOK, SendHasCommand
    <3>5. tmp' \in [Threads -> TimerEntry \cup {None}] /\ pending' \in [Threads -> Seq(Command)]
      BY <3>1 DEF TypeOK
    <3> QED BY <3>2, <3>4, <3>5
  <2> QED BY <2>1, <2>2
<1>6. TypeOK'
  BY <1>3, <1>4, <1>5 DEF Send, TypeOK, envVars
<1>7. RanInstall'
  BY DEF RanInstall, Send
<1> QED BY <1>5, <1>6, <1>7

LEMMA BeginTriggerTyped ==
  ASSUME Typed, NEW t \in Threads, BeginTrigger(t)
  PROVE  Typed'
<1> USE DEF Typed
<1>1. /\ cur' \in 0..MaxProxy /\ made' \in 0..MaxProxy
      /\ on' \in [Proxies -> BOOLEAN]
  <2>1. CASE auto /\ listed
    BY <2>1, MaybeCreateTyped DEF BeginTrigger
  <2>2. CASE ~(auto /\ listed)
    BY <2>2 DEF BeginTrigger, TypeOK
  <2> QED BY <2>1, <2>2
<1>2. /\ pc' \in [Threads -> {"idle", "fire", "send", "auto", "trigger", "reload", "dead"}]
      /\ left' \in [Threads -> SUBSET Packages]
      /\ inHandler' \in BOOLEAN
      /\ SendHasCommand'
  BY DEF BeginTrigger, Leave, DevTodo, TypeOK, SendHasCommand
<1>3. TypeOK'
  BY <1>1, <1>2 DEF BeginTrigger, TypeOK, masterVars, deviceVars, envVars
<1>4. RanInstall'
  BY DEF RanInstall, BeginTrigger
<1> QED BY <1>2, <1>3, <1>4

\* TryAgain keeps the FailedItem a FailedItem.
LEMMA TryAgainTyped ==
  ASSUME NEW item \in FailedItem
  PROVE  TryAgain(item) \in FailedItem
<1> DEFINE d == [item EXCEPT !.inner = InnerCode(item)]
           n == IF CanTryAgain(item) THEN item.try ELSE MaxTry
<1>1. InnerCode(item) \in {0, 1, 1000} /\ n \in Nat
  BY ConstantsAssumption DEF InnerCode, FailedItem
<1>2. d = [try |-> item.try, code |-> item.code, msg |-> item.msg, inner |-> InnerCode(item)]
  BY DEF FailedItem
<1>3. TryAgain(item) = [d EXCEPT !.try = n]
  BY DEF TryAgain, FailedItem
<1>4. d \in FailedItem
  BY <1>1, <1>2 DEF FailedItem
<1> HIDE DEF d, n
<1>5. [d EXCEPT !.try = n] = [try |-> n, code |-> d.code, msg |-> d.msg, inner |-> d.inner]
  BY <1>4 DEF FailedItem
<1> QED BY <1>1, <1>3, <1>4, <1>5 DEF FailedItem

LEMMA TriggerOneTyped ==
  ASSUME Typed, NEW t \in Threads, NEW p \in Packages, TriggerOne(t, p)
  PROVE  Typed'
<1> DEFINE item  == failed[p]
           again == item = None \/ CanTryAgain(item)
           op == IF item # None /\ InnerCode(item) = 1 THEN "delete" ELSE "none"
           c  == [kind |-> "install", pkg |-> p, force |-> FALSE, op |-> op, sub |-> 0]
<1> USE DEF Typed
<1>1. c \in InstallCommand /\ cur \in 0..MaxProxy /\ subId + 1 \in Nat
  BY DEF InstallCommand, TypeOK
<1>2. failed' \in [Packages -> FailedItem \cup {None}]
  <2>1. failed' = failed \/ (item # None /\ failed' = [failed EXCEPT ![p] = TryAgain(item)])
    BY DEF TriggerOne
  <2>2. item # None => TryAgain(item) \in FailedItem
    BY TryAgainTyped DEF TypeOK
  <2> QED BY <2>1, <2>2 DEF TypeOK
<1>3. /\ subId' \in Nat /\ lastSub' \in Nat
      /\ cmds' \in [Proxies -> Seq(Command)]
      /\ queueIn' \in Seq(Message)
  <2>1. \/ ProcessInstallApk(cur, c, subId + 1)
        \/ UNCHANGED <<queueIn, lastSub, cmds>> /\ subId' \in {subId, subId + 1}
    BY DEF TriggerOne
  <2> HIDE DEF c
  <2>2. CASE ProcessInstallApk(cur, c, subId + 1)
    BY <1>1, <2>2, ProcessInstallApkTyped
  <2>3. CASE UNCHANGED <<queueIn, lastSub, cmds>> /\ subId' \in {subId, subId + 1}
    BY <2>3 DEF TypeOK
  <2> QED BY <2>1, <2>2, <2>3
<1>4. /\ pc' \in [Threads -> {"idle", "fire", "send", "auto", "trigger", "reload", "dead"}]
      /\ SendHasCommand'
      /\ inHandler' \in BOOLEAN
  <2>1. \/ UNCHANGED <<pc, inHandler>>
        \/ Raise(t)
    BY DEF TriggerOne
  <2>2. UNCHANGED pending
    BY DEF TriggerOne
  <2>3. CASE UNCHANGED <<pc, inHandler>>
    BY <2>2, <2>3 DEF TypeOK, SendHasCommand
  <2>4. CASE Raise(t)
    BY <2>2, <2>4 DEF TypeOK, SendHasCommand, Raise
  <2> QED BY <2>1, <2>3, <2>4
<1>5. left' \in [Threads -> SUBSET Packages]
  BY DEF TriggerOne, TypeOK
<1>6. TypeOK'
  BY <1>2, <1>3, <1>4, <1>5 DEF TriggerOne, TypeOK, envVars
<1>7. RanInstall'
  BY DEF RanInstall, TriggerOne
<1> QED BY <1>4, <1>6, <1>7

LEMMA EndTriggerTyped ==
  ASSUME Typed, NEW t \in Threads, EndTrigger(t)
  PROVE  Typed'
<1> USE DEF Typed
<1>1. /\ pc' \in [Threads -> {"idle", "fire", "send", "auto", "trigger", "reload", "dead"}]
      /\ inHandler' \in BOOLEAN
      /\ SendHasCommand'
  BY DEF EndTrigger, Leave, Raise, TypeOK, SendHasCommand
<1>2. TypeOK' /\ RanInstall'
  BY <1>1 DEF EndTrigger, TypeOK, RanInstall, masterVars, deviceVars, proxyVars, envVars
<1> QED BY <1>1, <1>2

-----------------------------------------------------------------------------
(* The handlers of the two threads *)

\* Pop leaves a queue of messages and hands over the first.
LEMMA PopTyped ==
  ASSUME TypeOK, NEW type, Pop(type)
  PROVE  /\ queueIn' \in Seq(Message)
         /\ Head(queueIn) \in Message
         /\ Head(queueIn).type = type
BY HeadTail DEF Pop, TypeOK

LEMMA MasterTimerTyped ==
  ASSUME Typed, MasterStart \/ MasterStop
  PROVE  Typed'
<1> USE DEF Typed
<1>1. queueIn' \in Seq(Message)
  BY PopTyped DEF MasterStart, MasterStop
<1>2. timer' \in TimerEntry \cup {None}
  <2>1. CASE MasterStart
    <3>1. Head(queueIn).from \in Proxies /\ Head(queueIn).cmd \in InstallCommand
      BY <2>1, PopTyped, MessageFields DEF MasterStart
    <3> QED BY <2>1, <3>1 DEF MasterStart, TimerEntry
  <2>2. CASE MasterStop
    BY <2>2 DEF MasterStop
  <2> QED BY <2>1, <2>2
<1>3. TypeOK'
  BY <1>1, <1>2 DEF MasterStart, MasterStop, TypeOK, deviceVars, proxyVars, threadVars, envVars
<1>4. SendHasCommand' /\ RanInstall'
  BY DEF MasterStart, MasterStop, SendHasCommand, RanInstall, proxyVars, threadVars
<1> QED BY <1>3, <1>4

LEMMA MasterReplyTyped ==
  ASSUME Typed, MasterReply
  PROVE  Typed'
<1> DEFINE m == Head(queueIn)
           p == m.cmd.pkg
<1> USE DEF Typed
<1>1. /\ queueIn' \in Seq(Message)
      /\ m.res \in Results \cup Skips
      /\ p \in Packages
  BY PopTyped, MessageFields DEF MasterReply, InstallCommand
<1>2. Failure(failed[p], "adb", m.res) \in FailedItem
  BY <1>1, FailureTyped DEF TypeOK
<1>3. /\ failed' \in {failed, [failed EXCEPT ![p] = None],
                      [failed EXCEPT ![p] = Failure(failed[p], "adb", m.res)]}
      /\ installed' \in {installed, installed \cup {p}}
  BY DEF MasterReply
<1>4. failed' \in [Packages -> FailedItem \cup {None}] /\ installed' \subseteq Packages
  <2> HIDE DEF m
  <2>1. CASE failed' = [failed EXCEPT ![p] = Failure(failed[p], "adb", m.res)]
    BY <1>1, <1>2, <1>3, <2>1 DEF TypeOK
  <2>2. CASE failed' \in {failed, [failed EXCEPT ![p] = None]}
    BY <1>1, <1>3, <2>2 DEF TypeOK
  <2> QED BY <1>3, <2>1, <2>2
<1>5. TypeOK'
  BY <1>1, <1>4 DEF MasterReply, TypeOK, proxyVars, threadVars, envVars
<1>6. SendHasCommand' /\ RanInstall'
  BY DEF MasterReply, SendHasCommand, RanInstall, proxyVars, threadVars
<1> QED BY <1>5, <1>6

LEMMA MasterInfoTyped ==
  ASSUME Typed, MasterInfo
  PROVE  Typed'
<1> USE DEF Typed
<1>1. queueIn' \in Seq(Message)
  BY PopTyped DEF MasterInfo
<1>2. pkgSet' \in (SUBSET Packages) \cup {None} /\ imei' \in BOOLEAN
  BY PopTyped, MessageFields DEF MasterInfo, TypeOK
<1>3. TypeOK'
  BY <1>1, <1>2 DEF MasterInfo, TypeOK, proxyVars, threadVars, envVars
<1>4. SendHasCommand' /\ RanInstall'
  BY DEF MasterInfo, SendHasCommand, RanInstall, proxyVars, threadVars
<1> QED BY <1>3, <1>4

\* A command OneDevice builds by itself or the user interface asks for.
LEMMA AskTyped ==
  /\ \A kind \in {"list", "imei"} : Ask(kind, None, FALSE) \in Command
  /\ \A p \in Packages, force \in BOOLEAN : Ask("install", p, force) \in Command
BY DEF Ask, Command, InstallCommand, InfoCommand

LEMMA MasterDevicesTyped ==
  ASSUME Typed, MasterDevices
  PROVE  Typed'
<1> DEFINE asks == (IF imei THEN <<>> ELSE <<Ask("imei", None, FALSE)>>)
                   \o (IF pkgSet # None /\ pkgSet # {} THEN <<>> ELSE <<Ask("list", None, FALSE)>>)
<1> USE DEF Typed
<1>1. /\ queueIn' \in Seq(Message)
      /\ listed' \in BOOLEAN
  BY PopTyped, MessageFields DEF MasterDevices
<1>2. asks \in Seq(Command)
  <2>1. \A c \in Command : <<c>> \in Seq(Command)
    OBVIOUS
  <2>2. Ask("imei", None, FALSE) \in Command /\ Ask("list", None, FALSE) \in Command
    BY AskTyped
  <2>3. <<Ask("imei", None, FALSE)>> \in Seq(Command) /\ <<Ask("list", None, FALSE)>> \in Seq(Command)
    BY <2>1, <2>2
  <2> QED BY <2>3, ConcatProperties, EmptySeq DEF asks
<1> HIDE DEF asks
<1>3. "master" \in Threads
  BY DEF Threads
<1>4. /\ held' \in {"absent", "empty", "map"}
      /\ cur' \in 0..MaxProxy /\ made' \in 0..MaxProxy
      /\ on' \in [Proxies -> BOOLEAN]
  <2>1. CASE Head(queueIn).present
    <3>1. \E g \in Proxies : MaybeCreate(g)
      BY <2>1 DEF MasterDevices
    <3>2. held' \in {held, "map", "empty"}
      BY <2>1 DEF MasterDevices
    <3> QED BY <3>1, <3>2, MaybeCreateTyped DEF TypeOK
  <2>2. CASE ~Head(queueIn).present
    BY <2>2 DEF MasterDevices, TypeOK
  <2> QED BY <2>1, <2>2
<1>5. /\ pc' \in [Threads -> {"idle", "fire", "send", "auto", "trigger", "reload", "dead"}]
      /\ tmp' \in [Threads -> TimerEntry \cup {None}]
      /\ pending' \in [Threads -> Seq(Command)]
      /\ SendHasCommand'
  <2>1. \/ BeginCommands("master", asks)
        \/ pc' = [pc EXCEPT !["master"] = "auto"] /\ UNCHANGED <<tmp, pending>>
    BY DEF MasterDevices, asks
  <2>2. CASE BeginCommands("master", asks)
    BY <1>2, <1>3, <2>2, BeginCommandsTyped
  <2>3. CASE pc' = [pc EXCEPT !["master"] = "auto"] /\ UNCHANGED <<tmp, pending>>
    BY <1>3, <2>3 DEF TypeOK, SendHasCommand
  <2> QED BY <2>1, <2>2, <2>3
<1>6. TypeOK'
  BY <1>1, <1>4, <1>5 DEF MasterDevices, TypeOK, envVars
<1>7. RanInstall'
  BY DEF MasterDevices, RanInstall
<1> QED BY <1>5, <1>6, <1>7

LEMMA MasterCheckTimeoutTyped ==
  ASSUME Typed, MasterCheckTimeout
  PROVE  Typed'
<1> USE DEF Typed
<1>1. /\ pc' \in [Threads -> {"idle", "fire", "send", "auto", "trigger", "reload", "dead"}]
      /\ tmp' \in [Threads -> TimerEntry \cup {None}]
      /\ pending' \in [Threads -> Seq(Command)]
      /\ SendHasCommand'
  <2>1. "master" \in Threads /\ <<>> \in Seq(Command)
    BY DEF Threads
  <2> QED BY <2>1, BeginCommandsTyped DEF MasterCheckTimeout
<1>2. TypeOK' /\ RanInstall'
  BY <1>1 DEF MasterCheckTimeout, TypeOK, RanInstall, masterVars, deviceVars, proxyVars, envVars
<1> QED BY <1>1, <1>2

LEMMA PhoneCommandTyped ==
  ASSUME Typed, NEW c \in Command, PhoneCommand(c)
  PROVE  Typed'
<1> USE DEF Typed
<1>1. <<c>> \in Seq(Command) /\ "phone" \in Threads
  BY DEF Threads
<1>2. /\ pc' \in [Threads -> {"idle", "fire", "send", "auto", "trigger", "reload", "dead"}]
      /\ tmp' \in [Threads -> TimerEntry \cup {None}]
      /\ pending' \in [Threads -> Seq(Command)]
      /\ SendHasCommand'
  BY <1>1, BeginCommandsTyped DEF PhoneCommand
<1>3. TypeOK' /\ RanInstall'
  BY <1>2 DEF PhoneCommand, TypeOK, RanInstall, masterVars, deviceVars, proxyVars
<1> QED BY <1>2, <1>3

LEMMA PhoneStepTyped ==
  ASSUME Typed, PhoneStep
  PROVE  Typed'
<1> USE DEF Typed, Threads
<1>1. CASE \E force \in BOOLEAN : PhoneInstall(force)
  BY <1>1, AskTyped, PhoneCommandTyped DEF PhoneInstall
<1>2. CASE PhonePackageList
  BY <1>2, AskTyped, PhoneCommandTyped DEF PhonePackageList
<1>3. ASSUME NEW mode \in BOOLEAN, PhoneAutoInstall(mode)
      PROVE  Typed'
  <2>1. TypeOK' /\ SendHasCommand'
    BY <1>3 DEF PhoneAutoInstall, TypeOK, SendHasCommand, deviceVars, proxyVars
  <2>2. RanInstall'
    BY <1>3 DEF PhoneAutoInstall, RanInstall, proxyVars
  <2> QED BY <2>1, <2>2
<1>4. CASE PhoneClearApkList
  BY <1>4 DEF PhoneClearApkList, TypeOK, SendHasCommand, RanInstall, masterVars, deviceVars, proxyVars
<1>5. CASE PhoneUpdateApkList
  <2>1. /\ held' \in {"absent", "empty", "map"}
        /\ cur' \in 0..MaxProxy /\ made' \in 0..MaxProxy
        /\ on' \in [Proxies -> BOOLEAN]
    BY <1>5, MaybeCreateTyped DEF PhoneUpdateApkList, TypeOK
  <2>2. TypeOK' /\ SendHasCommand'
    BY <1>5, <2>1 DEF PhoneUpdateApkList, TypeOK, SendHasCommand, envVars
  <2>3. RanInstall'
    BY <1>5 DEF PhoneUpdateApkList, RanInstall
  <2> QED BY <2>2, <2>3
<1> QED BY <1>1, <1>2, <1>3, <1>4, <1>5 DEF PhoneStep

LEMMA DevicesFoundTyped ==
  ASSUME Typed, NEW present \in BOOLEAN, DevicesFound(present)
  PROVE  Typed'
<1> USE DEF Typed
<1>1. queueIn' \in Seq(Message)
  BY MessageTyped, AppendTyped DEF DevicesFound, TypeOK
<1>2. TypeOK' /\ SendHasCommand' /\ RanInstall'
  BY <1>1 DEF DevicesFound, TypeOK, SendHasCommand, RanInstall, deviceVars, proxyVars, threadVars
<1> QED BY <1>2

-----------------------------------------------------------------------------
LEMMA TypedInit == Init => Typed
<1> SUFFICES ASSUME Init PROVE Typed
  OBVIOUS
<1>1. cur \in 0..MaxProxy /\ made \in 0..MaxProxy /\ uis \in Nat /\ scans \in Nat /\ reloads \in Nat
  BY ConstantsAssumption DEF Init
<1>2. TypeOK
  <2>1. /\ queueIn \in Seq(Message)
        /\ cmds \in [Proxies -> Seq(Command)]
        /\ pending \in [Threads -> Seq(Command)]
    BY DEF Init
  <2>2. /\ failed \in [Packages -> FailedItem \cup {None}]
        /\ run \in [Proxies -> Command \cup {None}] /\ ran \in [Proxies -> BOOLEAN]
        /\ on \in [Proxies -> BOOLEAN]
    BY DEF Init
  <2>3. /\ pc \in [Threads -> {"idle", "fire", "send", "auto", "trigger", "reload", "dead"}]
        /\ tmp \in [Threads -> TimerEntry \cup {None}]
        /\ left \in [Threads -> SUBSET Packages]
    BY DEF Init
  <2> QED BY <1>1, <2>1, <2>2, <2>3 DEF Init, TypeOK
<1>3. SendHasCommand /\ RanInstall
  BY DEF Init, SendHasCommand, RanInstall
<1> QED BY <1>2, <1>3 DEF Typed

LEMMA TypedNext == Typed /\ [Next]_vars => Typed'
<1> SUFFICES ASSUME Typed, [Next]_vars PROVE Typed'
  OBVIOUS
<1>1. ASSUME NEW g \in Proxies, ProxyStep(g) PROVE Typed'
  BY <1>1, ProxyTakeTyped, ProxyInstallTyped, ProxyAfterInstallTyped, ProxyInfoTyped DEF ProxyStep
<1>2. ASSUME NEW t \in Threads, CallStep(t) PROVE Typed'
  BY <1>2, NoTimeoutTyped, TimeoutTyped, SendTyped, BeginTriggerTyped, TriggerOneTyped,
     EndTriggerTyped DEF CallStep
<1>3. CASE MasterStep
  BY <1>3, MasterTimerTyped, MasterReplyTyped, MasterInfoTyped, MasterDevicesTyped,
     MasterCheckTimeoutTyped DEF MasterStep
<1>4. CASE PhoneStep
  BY <1>4, PhoneStepTyped
<1>5. ASSUME NEW present \in BOOLEAN, DevicesFound(present) PROVE Typed'
  BY <1>5, DevicesFoundTyped
<1>6. CASE UNCHANGED vars
  BY <1>6 DEF vars, masterVars, deviceVars, proxyVars, threadVars, envVars, Typed, TypeOK,
              SendHasCommand, RanInstall
<1> QED BY <1>1, <1>2, <1>3, <1>4, <1>5, <1>6 DEF Next

LEMMA TypedAlways == Spec => []Typed
BY TypedInit, TypedNext, PTL DEF Spec

\* TypeOK for every set of packages and every bound: in particular no
\* handler reads a package from a message that carries none, and AfterCommand
\* always finds the install it ends.
THEOREM TypeCorrect == Spec => []TypeOK
<1>1. Typed => TypeOK
  BY DEF Typed
<1> QED BY <1>1, TypedAlways, PTL

-----------------------------------------------------------------------------
(***************************************************************************)
(* RepliesOfLiveProxyOnly.  It speaks of the replies in queue_in only; to  *)
(* be inductive it has to be known of the commands they answer, from the   *)
(* moment SendCommand numbers them: in the queue of a proxy, in its hands, *)
(* and in its replies, an id is above min_sub_command_id exactly when the  *)
(* proxy is the current one.                                               *)
(***************************************************************************)
Ours(g, n) == n <= lastSub /\ (n > minSub <=> g = cur)

SubOrder     == minSub <= lastSub /\ lastSub <= subId
LiveIsNewest == cur = 0 \/ cur = made
FreshIdle    == \A g \in Proxies : g > made => cmds[g] = <<>> /\ run[g] = None
QueuedOurs   == \A g \in Proxies : \A i \in DOMAIN cmds[g] : Ours(g, cmds[g][i].sub)
RunningOurs  == \A g \in Proxies : run[g] # None => Ours(g, run[g].sub)
RepliesOurs  ==
  \A i \in DOMAIN queueIn :
    queueIn[i].type = "reply" /\ queueIn[i].from # 0
      => queueIn[i].from <= made /\ Ours(queueIn[i].from, queueIn[i].cmd.sub)

Linked == SubOrder /\ LiveIsNewest /\ FreshIdle /\ QueuedOurs /\ RunningOurs /\ RepliesOurs

\* A step that brings no reply of a proxy into queue_in.
OldReplies ==
  \A i \in DOMAIN queueIn' :
    queueIn'[i].type = "reply" /\ queueIn'[i].from # 0
      => \E j \in DOMAIN queueIn : queueIn[j] = queueIn'[i]

\* What every step that is neither a proxy's nor a timeout does at most:
\* create a proxy if there is none, number one command and queue it there.
Grow ==
  /\ minSub' = minSub /\ lastSub <= lastSub' /\ lastSub' <= subId'
  /\ \/ cur' = cur /\ made' = made
     \/ cur = 0 /\ cur' = made + 1 /\ made' = made + 1
  /\ \/ cmds' = cmds
     \/ /\ lastSub < lastSub' /\ cur' \in Proxies
        /\ \E c \in Command : /\ c.sub = lastSub'
                            /\ cmds' = [cmds EXCEPT ![cur'] = Append(@, c)]
  /\ run' = run
  /\ OldReplies

LEMMA SubNat == \A c \in Command : c.sub \in Nat
BY DEF Command, InstallCommand, InfoCommand

LEMMA GrowLinked ==
  ASSUME Typed, Typed', Linked, Grow
  PROVE  Linked'
<1> DEFINE OursNext(g, n) == n <= lastSub' /\ (n > minSub' <=> g = cur')
<1> USE DEF Typed, Linked, Ours
<1>1. /\ minSub \in Nat /\ lastSub \in Nat /\ subId \in Nat /\ minSub' \in Nat /\ lastSub' \in Nat
      /\ subId' \in Nat /\ cur \in 0..MaxProxy /\ made \in 0..MaxProxy /\ cur' \in 0..MaxProxy
      /\ made' \in 0..MaxProxy /\ MaxProxy \in Nat
  BY ConstantsAssumption DEF TypeOK
<1>2. SubOrder' /\ LiveIsNewest'
  BY <1>1 DEF SubOrder, LiveIsNewest, Grow
<1>3. ASSUME NEW g \in 0..MaxProxy, NEW n \in Nat, g <= made, g # 0, Ours(g, n)
      PROVE  OursNext(g, n)
  BY <1>1, <1>3 DEF Grow
<1>4. \A g \in Proxies : g \in 0..MaxProxy /\ g # 0
  BY <1>1 DEF Proxies
<1>5. FreshIdle'
  <2> SUFFICES ASSUME NEW g \in Proxies, g > made'
               PROVE  cmds'[g] = <<>> /\ run'[g] = None
    BY DEF FreshIdle
  <2>1. g > made /\ g # cur'
    BY <1>1, <1>2 DEF Grow, LiveIsNewest, Proxies
  <2>2. cmds'[g] = cmds[g]
    BY <2>1 DEF Grow, TypeOK
  <2> QED BY <2>1, <2>2 DEF FreshIdle, Grow
<1>6. RunningOurs'
  <2> SUFFICES ASSUME NEW g \in Proxies, run[g] # None
               PROVE  OursNext(g, run[g].sub)
    BY DEF RunningOurs, Grow
  <2>1. g <= made
    BY <1>1 DEF FreshIdle, Proxies
  <2>2. run[g].sub \in Nat
    BY SubNat DEF TypeOK
  <2> QED BY <1>3, <1>4, <2>1, <2>2 DEF RunningOurs
<1>7. QueuedOurs'
  <2> SUFFICES ASSUME NEW g \in Proxies, NEW i \in DOMAIN cmds'[g]
               PROVE  OursNext(g, cmds'[g][i].sub)
    BY DEF QueuedOurs
  <2>1. CASE cmds'[g] = cmds[g]
    <3>1. i \in 1..Len(cmds[g]) /\ cmds[g] # <<>>
      BY <2>1 DEF TypeOK
    <3>2. g <= made
      BY <1>1, <3>1 DEF FreshIdle, Proxies
    <3>3. cmds[g][i].sub \in Nat
      BY <3>1, SubNat, ElementOfSeq DEF TypeOK
    <3> QED BY <1>3, <1>4, <2>1, <3>1, <3>2, <3>3 DEF QueuedOurs, TypeOK
  <2>2. CASE cmds'[g] # cmds[g]
    <3>1. PICK c \in Command : /\ c.sub = lastSub'
                               /\ cmds' = [cmds EXCEPT ![cur'] = Append(@, c)]
      BY <2>2 DEF Grow
    <3>2. g = cur' /\ cmds'[g] = Append(cmds[g], c)
      BY <2>2, <3>1 DEF TypeOK
    <3>3. cmds[g] \in Seq(Command)
      BY DEF TypeOK
    <3>4. CASE i = Len(cmds[g]) + 1
      <4>1. cmds'[g][i] = c
        BY <3>2, <3>3, <3>4
      <4>2. lastSub' > minSub'
        BY <1>1, <2>2 DEF Grow, SubOrder
      <4> QED BY <1>1, <3>1, <3>2, <4>1, <4>2 DEF Ours
    <3>5. CASE i # Len(cmds[g]) + 1
      <4>1. i \in 1..Len(cmds[g]) /\ cmds'[g][i] = cmds[g][i] /\ cmds[g] # <<>>
        BY <3>2, <3>3, <3>5
      <4>2. g <= made
        BY <1>1, <4>1 DEF FreshIdle, Proxies
      <4>3. cmds[g][i].sub \in Nat
        BY <3>3, <4>1, SubNat, ElementOfSeq
      <4> QED BY <1>3, <1>4, <4>1, <4>2, <4>3, <3>3 DEF QueuedOurs
    <3> QED BY <3>4, <3>5
  <2> QED BY <2>1, <2>2
<1>8. RepliesOurs'
  <2> SUFFICES ASSUME NEW i \in DOMAIN queueIn',
                      queueIn'[i].type = "reply", queueIn'[i].from # 0
               PROVE  queueIn'[i].from <= made' /\ OursNext(queueIn'[i].from, queueIn'[i].cmd.sub)
    BY DEF RepliesOurs
  <2>1. PICK j \in DOMAIN queueIn : queueIn[j] = queueIn'[i]
    BY DEF Grow, OldReplies
  <2> DEFINE m == queueIn[j]
  <2>2. m \in Message /\ m.type = "reply" /\ m.from # 0
    BY <2>1, ElementOfSeq DEF TypeOK
  <2>3. m.from \in 0..MaxProxy /\ m.cmd.sub \in Nat
    BY <2>2, MessageFields, SubNat DEF Command
  <2>4. m.from <= made /\ Ours(m.from, m.cmd.sub)
    BY <2>2 DEF RepliesOurs
  <2>5. OursNext(m.from, m.cmd.sub)
    BY <1>3, <2>1, <2>2, <2>3, <2>4
  <2> QED BY <1>1, <2>1, <2>3, <2>4, <2>5 DEF Grow
<1> QED BY <1>2, <1>5, <1>6, <1>7, <1>8

\* queue_in left alone, shortened by its first message, or given a message
\* that no proxy sent as a reply.
LEMMA OldRepliesKept ==
  ASSUME TypeOK,
         \/ queueIn' = queueIn
         \/ queueIn # <<>> /\ queueIn' = Tail(queueIn)
         \/ \E m \in Message : /\ m.type # "reply" \/ m.from = 0
                               /\ queueIn' = Append(queueIn, m)
  PROVE  OldReplies
<1> USE DEF TypeOK
<1> SUFFICES ASSUME NEW i \in DOMAIN queueIn',
                    queueIn'[i].type = "reply", queueIn'[i].from # 0
             PROVE  \E j \in DOMAIN queueIn : queueIn[j] = queueIn'[i]
  BY DEF OldReplies
<1>1. CASE queueIn' = queueIn
  BY <1>1
<1>2. CASE queueIn # <<>> /\ queueIn' = Tail(queueIn)
  <2>1. i + 1 \in DOMAIN queueIn /\ queueIn[i + 1] = queueIn'[i]
    BY <1>2
  <2> QED BY <2>1
<1>3. ASSUME NEW m \in Message, m.type # "reply" \/ m.from = 0, queueIn' = Append(queueIn, m)
      PROVE  i \in DOMAIN queueIn /\ queueIn[i] = queueIn'[i]
  BY <1>3
<1> QED BY <1>1, <1>2, <1>3

\* The commands OneDevice numbers, in the terms of Grow.
Numbers(g) ==
  /\ lastSub <= lastSub' /\ lastSub' <= subId'
  /\ \/ cmds' = cmds
     \/ /\ lastSub < lastSub' /\ g \in Proxies
        /\ \E c \in Command : c.sub = lastSub' /\ cmds' = [cmds EXCEPT ![g] = Append(@, c)]

LEMMA SendCommandNumbers ==
  ASSUME TypeOK, SubOrder, NEW g \in 0..MaxProxy, NEW c \in Command, NEW base \in Nat,
         subId <= base, SendCommand(g, c, base)
  PROVE  Numbers(g)
<1> USE DEF TypeOK, SubOrder, Numbers
<1>1. CASE g = 0
  BY <1>1 DEF SendCommand
<1>2. CASE g # 0
  <2> DEFINE d == [c EXCEPT !.sub = base + 1]
  <2>1. base + 1 \in Nat
    OBVIOUS
  <2>2. d \in Command /\ d.sub = base + 1
    BY <2>1, NumberedTyped
  <2>3. lastSub' = base + 1 /\ subId' = base + 1 /\ cmds' = [cmds EXCEPT ![g] = Append(@, d)]
    BY <1>2 DEF SendCommand
  <2>4. g \in Proxies
    BY <1>2, ConstantsAssumption DEF Proxies
  <2> HIDE DEF d
  <2>5. lastSub <= lastSub' /\ lastSub < lastSub' /\ lastSub' <= subId'
    BY <2>3
  <2>6. \E e \in Command : e.sub = lastSub' /\ cmds' = [cmds EXCEPT ![g] = Append(@, e)]
    BY <2>2, <2>3
  <2> QED BY <2>4, <2>5, <2>6, Zenon
<1> QED BY <1>1, <1>2

LEMMA ProcessInstallApkNumbers ==
  ASSUME TypeOK, SubOrder, NEW g \in 0..MaxProxy, NEW c \in InstallCommand, NEW base \in Nat,
         subId <= base, ProcessInstallApk(g, c, base)
  PROVE  Numbers(g) /\ OldReplies
<1> DEFINE op  == IF c.op # "none" THEN c.op
                  ELSE IF pkgSet # None /\ c.pkg \in pkgSet THEN "delete" ELSE "just"
           one == [c EXCEPT !.op = op, !.sub = base + 1]
           Answer(why) == [type |-> "reply", from |-> 0, cmd |-> one, res |-> why]
           Skip(why) ==
             /\ queueIn' = Append(queueIn, Answer(why))
             /\ subId' = base + 1
             /\ UNCHANGED <<lastSub, cmds>>
<1>1. one \in InstallCommand
  <2>1. op \in {"none", "delete", "just"} /\ base + 1 \in Nat
    BY DEF InstallCommand
  <2> HIDE DEF op
  <2> QED BY <2>1, ResolvedTyped
<1>2. \/ SendCommand(g, one, base + 1) /\ UNCHANGED queueIn
      \/ Skip("skip_installed")
      \/ Skip("skip_timeout")
  BY DEF ProcessInstallApk
<1> HIDE DEF one
<1>3. CASE SendCommand(g, one, base + 1) /\ UNCHANGED queueIn
  <2>1. one \in Command /\ base + 1 \in Nat /\ subId <= base + 1
    BY <1>1 DEF Command, TypeOK
  <2> QED BY <1>3, <2>1, SendCommandNumbers, OldRepliesKept
<1>4. ASSUME NEW why \in Skips, Skip(why)
      PROVE  Numbers(g) /\ OldReplies
  <2>1. 0 \in 0..MaxProxy /\ why \in Results \cup Skips
    BY ConstantsAssumption
  <2>2. Answer(why) \in Message /\ Answer(why).from = 0
    BY <1>1, <2>1, MessageTyped
  <2> HIDE DEF Answer
  <2>3. OldReplies
    BY <1>4, <2>2, OldRepliesKept
  <2>4. Numbers(g)
    BY <1>4 DEF Numbers, SubOrder, TypeOK
  <2> QED BY <2>3, <2>4
<1> QED BY <1>2, <1>3, <1>4 DEF Skips

LEMMA CallStepGrows ==
  ASSUME Typed, Linked, NEW t \in Threads, CallStep(t)
  PROVE  Grow \/ Timeout(t)
<1> USE DEF Typed, Linked, SubOrder
<1>1. /\ minSub \in Nat /\ lastSub \in Nat /\ subId \in Nat
      /\ cur \in 0..MaxProxy /\ made \in 0..MaxProxy
  BY DEF TypeOK
<1>2. CASE NoTimeout(t)
  BY <1>1, <1>2, OldRepliesKept DEF NoTimeout, Grow, masterVars, deviceVars, proxyVars
<1>3. CASE Send(t)
  <2> DEFINE c == Head(pending[t])
  <2>1. c \in Command
    BY <1>3, HeadTail DEF Send, SendHasCommand, TypeOK
  <2>2. PICK g \in Proxies :
          /\ MaybeCreate(g)
          /\ IF c.kind = "install" THEN ProcessInstallApk(g, c, subId)
             ELSE SendCommand(g, c, subId) /\ UNCHANGED queueIn
    BY <1>3 DEF Send
  <2>3. g \in 0..MaxProxy /\ subId <= subId
    BY <1>1, ConstantsAssumption DEF Proxies
  <2>4. Numbers(g) /\ OldReplies
    <3>1. CASE c.kind = "install"
      BY <1>1, <2>1, <2>2, <2>3, <3>1, InstallTyped, ProcessInstallApkNumbers
    <3>2. CASE c.kind # "install"
      BY <1>1, <2>1, <2>2, <2>3, <3>2, SendCommandNumbers, OldRepliesKept
    <3> QED BY <3>1, <3>2
  <2>5. minSub' = minSub /\ run' = run
    BY <1>3 DEF Send
  <2>6. /\ cur' = g
        /\ \/ cur' = cur /\ made' = made
           \/ cur = 0 /\ cur' = made + 1 /\ made' = made + 1
    BY <2>2 DEF MaybeCreate
  <2> QED BY <2>4, <2>5, <2>6 DEF Grow, Numbers
<1>4. CASE BeginTrigger(t)
  <2>1. \/ cur' = cur /\ made' = made
        \/ cur = 0 /\ cur' = made + 1 /\ made' = made + 1
    BY <1>4 DEF BeginTrigger, MaybeCreate
  <2> QED BY <1>1, <1>4, <2>1, OldRepliesKept DEF BeginTrigger, Grow, masterVars, deviceVars
<1>5. ASSUME NEW p \in Packages, TriggerOne(t, p)
      PROVE  Grow
  <2> DEFINE item == failed[p]
             op == IF item # None /\ InnerCode(item) = 1 THEN "delete" ELSE "none"
             c  == [kind |-> "install", pkg |-> p, force |-> FALSE, op |-> op, sub |-> 0]
  <2>1. c \in InstallCommand /\ subId + 1 \in Nat /\ subId <= subId + 1
    BY <1>1 DEF InstallCommand
  <2>2. UNCHANGED <<minSub, cur, made, run>>
    BY <1>5 DEF TriggerOne
  <2>3. \/ ProcessInstallApk(cur, c, subId + 1)
        \/ UNCHANGED <<queueIn, lastSub, cmds>> /\ subId' \in {subId, subId + 1}
    BY <1>5 DEF TriggerOne
  <2> HIDE DEF c
  <2>4. Numbers(cur) /\ OldReplies
    <3>1. CASE ProcessInstallApk(cur, c, subId + 1)
      BY <1>1, <2>1, <3>1, ProcessInstallApkNumbers
    <3>2. CASE UNCHANGED <<queueIn, lastSub, cmds>> /\ subId' \in {subId, subId + 1}
      BY <1>1, <3>2, OldRepliesKept DEF Numbers
    <3> QED BY <2>3, <3>1, <3>2
  <2> QED BY <2>2, <2>4 DEF Grow, Numbers
<1>6. CASE EndTrigger(t)
  BY <1>1, <1>6, OldRepliesKept DEF EndTrigger, Grow, masterVars, deviceVars, proxyVars
<1> QED BY <1>2, <1>3, <1>4, <1>5, <1>6 DEF CallStep

LEMMA MasterStepGrows ==
  ASSUME Typed, Linked, MasterStep
  PROVE  Grow
<1> USE DEF Typed, Linked, SubOrder
<1>1. lastSub \in Nat /\ subId \in Nat
  BY DEF TypeOK
<1>2. ASSUME NEW type, Pop(type)
      PROVE  OldReplies
  BY <1>2, OldRepliesKept DEF Pop
<1>3. CASE MasterStart \/ MasterStop
  BY <1>1, <1>2, <1>3 DEF MasterStart, MasterStop, Grow, deviceVars, proxyVars
<1>4. CASE MasterReply
  BY <1>1, <1>2, <1>4 DEF MasterReply, Grow, proxyVars
<1>5. CASE MasterInfo
  BY <1>1, <1>2, <1>5 DEF MasterInfo, Grow, proxyVars
<1>6. CASE MasterDevices
  <2>1. \/ cur' = cur /\ made' = made
        \/ cur = 0 /\ cur' = made + 1 /\ made' = made + 1
    BY <1>6 DEF MasterDevices, MaybeCreate
  <2>2. OldReplies
    BY <1>2, <1>6 DEF MasterDevices
  <2>3. UNCHANGED <<minSub, lastSub, subId, cmds, run>>
    BY <1>6 DEF MasterDevices
  <2> QED BY <1>1, <2>1, <2>2, <2>3 DEF Grow
<1>7. CASE MasterCheckTimeout
  BY <1>1, <1>7, OldRepliesKept DEF MasterCheckTimeout, Grow, masterVars, deviceVars, proxyVars
<1> QED BY <1>3, <1>4, <1>5, <1>6, <1>7 DEF MasterStep

LEMMA PhoneStepGrows ==
  ASSUME Typed, Linked, PhoneStep
  PROVE  Grow
<1> USE DEF Typed, Linked, SubOrder
<1>1. lastSub \in Nat /\ subId \in Nat
  BY DEF TypeOK
<1>2. ASSUME NEW c, PhoneCommand(c) PROVE Grow
  BY <1>1, <1>2, OldRepliesKept DEF PhoneCommand, Grow, masterVars, deviceVars, proxyVars
<1>3. ASSUME NEW mode, PhoneAutoInstall(mode) PROVE Grow
  BY <1>1, <1>3, OldRepliesKept DEF PhoneAutoInstall, Grow, deviceVars, proxyVars
<1>4. CASE PhoneClearApkList
  BY <1>1, <1>4, OldRepliesKept DEF PhoneClearApkList, Grow, masterVars, deviceVars, proxyVars
<1>5. CASE PhoneUpdateApkList
  <2>1. \/ cur' = cur /\ made' = made
        \/ cur = 0 /\ cur' = made + 1 /\ made' = made + 1
    BY <1>5 DEF PhoneUpdateApkList, MaybeCreate
  <2> QED BY <1>1, <1>5, <2>1, OldRepliesKept DEF PhoneUpdateApkList, Grow
<1> QED BY <1>2, <1>3, <1>4, <1>5 DEF PhoneStep, PhoneInstall, PhonePackageList

LEMMA DevicesFoundGrows ==
  ASSUME Typed, Linked, NEW present \in BOOLEAN, DevicesFound(present)
  PROVE  Grow
<1> USE DEF Typed, Linked, SubOrder
<1> DEFINE m == [type |-> "devices", present |-> present]
<1>1. m \in Message /\ m.type # "reply"
  BY MessageTyped
<1>2. queueIn' = Append(queueIn, m)
  BY DEF DevicesFound
<1> HIDE DEF m
<1>3. OldReplies
  BY <1>1, <1>2, OldRepliesKept
<1>4. lastSub \in Nat /\ subId \in Nat
  BY DEF TypeOK
<1> QED BY <1>3, <1>4 DEF DevicesFound, Grow, deviceVars, proxyVars

\* A timeout puts every id used so far below min_sub_command_id and leaves
\* no proxy.
LEMMA TimeoutLinked ==
  ASSUME Typed, Linked, NEW t \in Threads, Timeout(t)
  PROVE  Linked'
<1> USE DEF Typed, Linked
<1>1. /\ minSub \in Nat /\ lastSub \in Nat /\ subId \in Nat
      /\ cur \in 0..MaxProxy /\ made \in 0..MaxProxy
  BY DEF TypeOK
<1>2. UNCHANGED <<queueIn, lastSub, subId, made, cmds, run>>
  BY DEF Timeout
<1>3. \/ minSub' = minSub /\ cur' = cur
      \/ minSub' = lastSub /\ cur' = 0
  BY DEF Timeout
<1>4. CASE minSub' = minSub /\ cur' = cur
  BY <1>2, <1>4 DEF SubOrder, LiveIsNewest, FreshIdle, QueuedOurs, RunningOurs, RepliesOurs, Ours
<1>5. CASE minSub' = lastSub /\ cur' = 0
  <2>1. \A n \in Nat : n <= lastSub => ~(n > minSub')
    BY <1>1, <1>5
  <2>2. \A g \in Proxies : g # cur'
    BY <1>5 DEF Proxies
  <2>3. SubOrder' /\ LiveIsNewest' /\ FreshIdle'
    BY <1>1, <1>2, <1>5 DEF SubOrder, LiveIsNewest, FreshIdle
  <2>4. RunningOurs'
    BY <1>2, <2>1, <2>2, SubNat DEF RunningOurs, Ours, TypeOK
  <2>5. QueuedOurs'
    <3> SUFFICES ASSUME NEW g \in Proxies, NEW i \in DOMAIN cmds[g]
                 PROVE  Ours(g, cmds[g][i].sub)'
      BY <1>2 DEF QueuedOurs
    <3>1. cmds[g][i].sub \in Nat
      BY SubNat, ElementOfSeq DEF TypeOK
    <3> QED BY <1>2, <2>1, <2>2, <3>1 DEF QueuedOurs, Ours
  <2>6. RepliesOurs'
    <3> SUFFICES ASSUME NEW i \in DOMAIN queueIn,
                        queueIn[i].type = "reply", queueIn[i].from # 0
                 PROVE  (queueIn[i].from <= made /\ Ours(queueIn[i].from, queueIn[i].cmd.sub))'
      BY <1>2 DEF RepliesOurs
    <3>1. queueIn[i] \in Message
      BY ElementOfSeq DEF TypeOK
    <3>2. queueIn[i].cmd.sub \in Nat
      BY <3>1, MessageFields, SubNat DEF Command
    <3> QED BY <1>2, <1>5, <2>1, <3>2 DEF RepliesOurs, Ours
  <2> QED BY <2>3, <2>4, <2>5, <2>6
<1> QED BY <1>3, <1>4, <1>5

\* A proxy works off what it was given: its step changes neither the ids nor
\* the current proxy, takes commands only from the front of its own queue,
\* and answers only for the command in its hands.
LEMMA ProxyTakeLinked ==
  ASSUME Typed, Linked, NEW g \in Proxies, ProxyTake(g)
  PROVE  Linked'
<1> DEFINE c == Head(cmds[g])
<1> USE DEF Typed, Linked
<1>1. /\ UNCHANGED <<minSub, lastSub, subId, cur, made>>
      /\ cmds[g] \in Seq(Command) /\ cmds[g] # <<>>
      /\ cmds' = [cmds EXCEPT ![g] = Tail(@)]
      /\ run' = [run EXCEPT ![g] = c]
  BY DEF ProxyTake, deviceVars, TypeOK
<1>2. OldReplies
  <2>1. CASE c.kind = "install"
    <3> DEFINE m == [type |-> "start", from |-> g, cmd |-> c]
    <3>1. c \in InstallCommand
      BY <1>1, <2>1, HeadTail, InstallTyped
    <3>2. m \in Message /\ m.type # "reply"
      BY <3>1, MessageTyped
    <3>3. queueIn' = Append(queueIn, m)
      BY <2>1 DEF ProxyTake
    <3> HIDE DEF m
    <3> QED BY <3>2, <3>3, OldRepliesKept
  <2>2. CASE c.kind # "install"
    BY <2>2, OldRepliesKept DEF ProxyTake
  <2> QED BY <2>1, <2>2
<1>3. SubOrder' /\ LiveIsNewest'
  BY <1>1 DEF SubOrder, LiveIsNewest
<1>4. FreshIdle'
  BY <1>1 DEF FreshIdle, TypeOK
<1>5. \A h \in Proxies : \A n : Ours(h, n)' <=> Ours(h, n)
  BY <1>1 DEF Ours
<1>6. QueuedOurs'
  <2> SUFFICES ASSUME NEW h \in Proxies, NEW i \in DOMAIN cmds'[h]
               PROVE  Ours(h, cmds'[h][i].sub)
    BY <1>1 DEF QueuedOurs, Ours
  <2>1. CASE h = g
    <3>1. i + 1 \in DOMAIN cmds[g] /\ cmds'[h][i] = cmds[g][i + 1]
      BY <1>1, <2>1 DEF TypeOK
    <3> QED BY <2>1, <3>1 DEF QueuedOurs
  <2>2. CASE h # g
    BY <1>1, <2>2 DEF QueuedOurs, TypeOK
  <2> QED BY <2>1, <2>2
<1>7. RunningOurs'
  <2>1. Ours(g, c.sub)
    BY <1>1 DEF QueuedOurs
  <2> QED BY <1>1, <2>1 DEF RunningOurs, Ours, TypeOK
<1>8. RepliesOurs'
  BY <1>1, <1>2 DEF RepliesOurs, OldReplies, Ours
<1> QED BY <1>3, <1>4, <1>6, <1>7, <1>8

LEMMA ProxyInstallLinked ==
  ASSUME Typed, Linked, NEW g \in Proxies, ProxyInstall(g)
  PROVE  Linked'
<1> USE DEF Typed, Linked
<1> DEFINE Reply(r) == [type |-> "reply", from |-> g, cmd |-> run[g], res |-> r]
           Replies(o) == [i \in 1..Len(o) |-> Reply(o[i])]
<1>1. UNCHANGED <<minSub, lastSub, subId, cur, made, cmds, run>>
  BY DEF ProxyInstall, deviceVars
<1>2. PICK out \in AdbOutcomes : queueIn' = queueIn \o Replies(out)
  BY DEF ProxyInstall
<1>3. g <= made /\ Ours(g, run[g].sub)
  BY DEF ProxyInstall, FreshIdle, RunningOurs, Proxies, TypeOK
<1>4. RepliesOurs'
  <2> SUFFICES ASSUME NEW i \in DOMAIN queueIn',
                      queueIn'[i].type = "reply", queueIn'[i].from # 0
               PROVE  queueIn'[i].from <= made /\ Ours(queueIn'[i].from, queueIn'[i].cmd.sub)
    BY <1>1 DEF RepliesOurs, Ours
  <2>1. out \in Seq(Results) /\ Len(out) \in Nat
    BY ConstantsAssumption
  <2>2. queueIn \in Seq(Message)
    BY DEF TypeOK
  <2>3. CASE i \in 1..Len(queueIn)
    <3>1. queueIn'[i] = queueIn[i]
      BY <1>2, <2>1, <2>2, <2>3
    <3> QED BY <2>3, <2>2, <3>1 DEF RepliesOurs
  <2>4. CASE i \notin 1..Len(queueIn)
    <3>1. i - Len(queueIn) \in 1..Len(out) /\ queueIn'[i] = Reply(out[i - Len(queueIn)])
      BY <1>2, <2>1, <2>2, <2>4
    <3> QED BY <1>3, <3>1
  <2> QED BY <2>3, <2>4
<1>5. SubOrder' /\ LiveIsNewest' /\ FreshIdle' /\ QueuedOurs' /\ RunningOurs'
  BY <1>1 DEF SubOrder, LiveIsNewest, FreshIdle, QueuedOurs, RunningOurs, Ours
<1> QED BY <1>4, <1>5

LEMMA ProxyDoneLinked ==
  ASSUME Typed, Linked, NEW g \in Proxies, ProxyAfterInstall(g) \/ ProxyInfo(g)
  PROVE  Linked'
<1> USE DEF Typed, Linked
<1>1. /\ UNCHANGED <<minSub, lastSub, subId, cur, made, cmds>>
      /\ run' = [run EXCEPT ![g] = None]
  BY DEF ProxyAfterInstall, ProxyInfo, deviceVars
<1>2. OldReplies
  <2>1. CASE ProxyAfterInstall(g)
    <3> DEFINE m == [type |-> "stop", from |-> g, cmd |-> run[g]]
    <3>1. m \in Message /\ m.type # "reply"
      BY <2>1, InstallTyped, MessageTyped DEF ProxyAfterInstall, RanInstall, TypeOK
    <3>2. queueIn' = Append(queueIn, m)
      BY <2>1 DEF ProxyAfterInstall
    <3> HIDE DEF m
    <3> QED BY <3>1, <3>2, OldRepliesKept
  <2>2. CASE ProxyInfo(g)
    <3>1. \/ queueIn' = queueIn
          \/ \E m \in Message : m.type # "reply" /\ queueIn' = Append(queueIn, m)
      BY <2>2, MessageTyped DEF ProxyInfo
    <3> QED BY <3>1, OldRepliesKept
  <2> QED BY <2>1, <2>2
<1>3. SubOrder' /\ LiveIsNewest' /\ QueuedOurs'
  BY <1>1 DEF SubOrder, LiveIsNewest, QueuedOurs, Ours
<1>4. FreshIdle' /\ RunningOurs'
  BY <1>1 DEF FreshIdle, RunningOurs, Ours, TypeOK
<1>5. RepliesOurs'
  BY <1>1, <1>2 DEF RepliesOurs, OldReplies, Ours
<1> QED BY <1>3, <1>4, <1>5

-----------------------------------------------------------------------------
LEMMA LinkedInit == Init => Linked
BY DEF Init, Linked, SubOrder, LiveIsNewest, FreshIdle, QueuedOurs, RunningOurs, RepliesOurs

LEMMA LinkedNext == Typed /\ Linked /\ [Next]_vars => Linked'
<1> SUFFICES ASSUME Typed, Linked, [Next]_vars PROVE Linked'
  OBVIOUS
<1>1. Typed'
  BY TypedNext
<1>2. ASSUME NEW g \in Proxies, ProxyStep(g) PROVE Linked'
  BY <1>2, ProxyTakeLinked, ProxyInstallLinked, ProxyDoneLinked DEF ProxyStep
<1>3. ASSUME NEW t \in Threads, CallStep(t) PROVE Linked'
  BY <1>1, <1>3, CallStepGrows, GrowLinked, TimeoutLinked
<1>4. CASE MasterStep
  BY <1>1, <1>4, MasterStepGrows, GrowLinked
<1>5. CASE PhoneStep
  BY <1>1, <1>5, PhoneStepGrows, GrowLinked
<1>6. ASSUME NEW present \in BOOLEAN, DevicesFound(present) PROVE Linked'
  BY <1>1, <1>6, DevicesFoundGrows, GrowLinked
<1>7. CASE UNCHANGED vars
  BY <1>7 DEF vars, masterVars, deviceVars, proxyVars, Linked, SubOrder, LiveIsNewest, FreshIdle,
              QueuedOurs, RunningOurs, RepliesOurs, Ours
<1> QED BY <1>2, <1>3, <1>4, <1>5, <1>6, <1>7 DEF Next

LEMMA LinkedAlways == Spec => []Linked
BY TypedInit, TypedNext, LinkedInit, LinkedNext, PTL DEF Spec

\* min_sub_command_id does its work for any number of packages, proxies and
\* timeouts: ProcessInstallApkResponse counts the replies of the current
\* proxy and of no proxy a timeout has stopped.
THEOREM RepliesFiltered == Spec => []RepliesOfLiveProxyOnly
<1>1. Linked => RepliesOfLiveProxyOnly
  BY DEF Linked, RepliesOurs, Ours, RepliesOfLiveProxyOnly
<1> QED BY <1>1, LinkedAlways, PTL

-----------------------------------------------------------------------------
(***************************************************************************)
(* Timers.  The start and stop messages of a proxy reach Master through    *)
(* queue_in, so an invariant about last_command_timeout has to speak of    *)
(* the messages under way as well.                                         *)
(***************************************************************************)

\* The messages that start and stop a timer.
Marks == {"start", "stop"}

\* queue_in only grows, and by no such message.
More ==
  /\ \A i \in DOMAIN queueIn : i \in DOMAIN queueIn' /\ queueIn'[i] = queueIn[i]
  /\ \A i \in DOMAIN queueIn' : i \in DOMAIN queueIn \/ queueIn'[i].type \notin Marks

\* The master thread has taken the first message.
Popped == queueIn # <<>> /\ queueIn' = Tail(queueIn)

\* What a step does that neither starts nor ends an install and touches no
\* timer.
Calm ==
  /\ UNCHANGED <<run, timer, everTimedOut>>
  /\ More \/ (Popped /\ Head(queueIn).type \notin Marks)

LEMMA PoppedIs ==
  ASSUME TypeOK, Popped
  PROVE  /\ 1 \in DOMAIN queueIn /\ queueIn[1] = Head(queueIn) /\ DOMAIN queueIn \subseteq Nat
         /\ \A i \in DOMAIN queueIn' : i \in Nat \ {0} /\ i + 1 \in DOMAIN queueIn /\ queueIn'[i] = queueIn[i + 1]
         /\ \A i \in DOMAIN queueIn : i # 1 => i - 1 \in DOMAIN queueIn' /\ queueIn'[i - 1] = queueIn[i]
<1>1. queueIn \in Seq(Message) /\ queueIn # <<>> /\ queueIn' = Tail(queueIn)
  BY DEF TypeOK, Popped
<1> QED BY <1>1

LEMMA AddedIs ==
  ASSUME TypeOK, NEW m \in Message, queueIn' = Append(queueIn, m)
  PROVE  /\ \A i \in DOMAIN queueIn : i \in DOMAIN queueIn' /\ queueIn'[i] = queueIn[i] /\ i < Len(queueIn) + 1
         /\ Len(queueIn) + 1 \in DOMAIN queueIn' /\ queueIn'[Len(queueIn) + 1] = m
         /\ \A i \in DOMAIN queueIn' : i \in DOMAIN queueIn \/ i = Len(queueIn) + 1
<1>1. queueIn \in Seq(Message)
  BY DEF TypeOK
<1> QED BY <1>1

LEMMA AddedMore ==
  ASSUME TypeOK, NEW m \in Message, m.type \notin Marks, queueIn' = Append(queueIn, m)
  PROVE  More
BY AddedIs DEF More

LEMMA SameMore == UNCHANGED queueIn => More
BY DEF More

\* OneDevice answers or queues a command.
LEMMA ProcessInstallApkMore ==
  ASSUME TypeOK, NEW g \in 0..MaxProxy, NEW c \in InstallCommand, NEW base \in Nat,
         ProcessInstallApk(g, c, base)
  PROVE  More
<1> DEFINE op  == IF c.op # "none" THEN c.op
                  ELSE IF pkgSet # None /\ c.pkg \in pkgSet THEN "delete" ELSE "just"
           one == [c EXCEPT !.op = op, !.sub = base + 1]
           Answer(why) == [type |-> "reply", from |-> 0, cmd |-> one, res |-> why]
<1>1. one \in InstallCommand
  <2>1. op \in {"none", "delete", "just"} /\ base + 1 \in Nat
    BY DEF InstallCommand
  <2> HIDE DEF op
  <2> QED BY <2>1, ResolvedTyped
<1>2. \/ UNCHANGED queueIn
      \/ queueIn' = Append(queueIn, Answer("skip_installed"))
      \/ queueIn' = Append(queueIn, Answer("skip_timeout"))
  BY DEF ProcessInstallApk
<1> HIDE DEF one
<1>3. ASSUME NEW why \in Skips
      PROVE  Answer(why) \in Message /\ Answer(why).type \notin Marks
  <2>1. 0 \in 0..MaxProxy /\ why \in Results \cup Skips
    BY ConstantsAssumption
  <2> QED BY <1>1, <2>1, MessageTyped DEF Marks
<1> HIDE DEF Answer
<1> QED BY <1>2, <1>3, AddedMore, SameMore DEF Skips

LEMMA CallStepCalm ==
  ASSUME Typed, NEW t \in Threads, CallStep(t)
  PROVE  Calm \/ Timeout(t)
<1> USE DEF Typed
<1>1. CASE NoTimeout(t) \/ BeginTrigger(t) \/ EndTrigger(t)
  BY <1>1, SameMore DEF NoTimeout, BeginTrigger, EndTrigger, masterVars, proxyVars, envVars, Calm
<1>2. CASE Send(t)
  <2> DEFINE c == Head(pending[t])
  <2>1. c \in Command /\ subId \in Nat
    BY <1>2, HeadTail DEF Send, SendHasCommand, TypeOK
  <2>2. \A g \in Proxies : g \in 0..MaxProxy
    BY ConstantsAssumption DEF Proxies
  <2>3. PICK g \in Proxies : IF c.kind = "install" THEN ProcessInstallApk(g, c, subId)
                             ELSE UNCHANGED queueIn
    BY <1>2 DEF Send
  <2>4. More
    BY <2>1, <2>2, <2>3, InstallTyped, ProcessInstallApkMore, SameMore
  <2> QED BY <1>2, <2>4 DEF Send, envVars, Calm
<1>3. ASSUME NEW p \in Packages, TriggerOne(t, p)
      PROVE  Calm
  <2> DEFINE item == failed[p]
             op == IF item # None /\ InnerCode(item) = 1 THEN "delete" ELSE "none"
             c  == [kind |-> "install", pkg |-> p, force |-> FALSE, op |-> op, sub |-> 0]
  <2>1. c \in InstallCommand /\ subId + 1 \in Nat /\ cur \in 0..MaxProxy
    BY DEF InstallCommand, TypeOK
  <2>2. ProcessInstallApk(cur, c, subId + 1) \/ UNCHANGED queueIn
    BY <1>3 DEF TriggerOne
  <2> HIDE DEF c
  <2>3. More
    BY <2>1, <2>2, ProcessInstallApkMore, SameMore
  <2> QED BY <1>3, <2>3 DEF TriggerOne, envVars, Calm
<1> QED BY <1>1, <1>2, <1>3 DEF CallStep

LEMMA MasterStepCalm ==
  ASSUME Typed, MasterStep
  PROVE  Calm \/ MasterStart \/ MasterStop
<1>1. ASSUME NEW type, type \notin Marks, Pop(type)
      PROVE  Popped /\ Head(queueIn).type \notin Marks
  BY <1>1 DEF Pop, Popped
<1>2. "reply" \notin Marks /\ "packages" \notin Marks /\ "imei" \notin Marks /\ "devices" \notin Marks
  BY DEF Marks
<1>3. CASE MasterReply
  BY <1>1, <1>2, <1>3 DEF MasterReply, proxyVars, envVars, Calm
<1>4. CASE MasterInfo
  BY <1>1, <1>2, <1>4 DEF MasterInfo, proxyVars, envVars, Calm
<1>5. CASE MasterDevices
  BY <1>1, <1>2, <1>5 DEF MasterDevices, envVars, Calm
<1>6. CASE MasterCheckTimeout
  BY <1>6, SameMore DEF MasterCheckTimeout, masterVars, proxyVars, envVars, Calm
<1> QED BY <1>3, <1>4, <1>5, <1>6 DEF MasterStep

LEMMA PhoneStepCalm ==
  ASSUME PhoneStep \/ UNCHANGED vars
  PROVE  Calm
<1>1. ASSUME NEW c, PhoneCommand(c) PROVE Calm
  BY <1>1, SameMore DEF PhoneCommand, masterVars, proxyVars, Calm
<1>2. ASSUME NEW mode, PhoneAutoInstall(mode) PROVE Calm
  BY <1>2, SameMore DEF PhoneAutoInstall, proxyVars, Calm
<1>3. CASE PhoneClearApkList \/ PhoneUpdateApkList
  BY <1>3, SameMore DEF PhoneClearApkList, PhoneUpdateApkList, masterVars, proxyVars, envVars, Calm
<1>4. CASE UNCHANGED vars
  BY <1>4, SameMore DEF vars, masterVars, proxyVars, envVars, Calm
<1> QED BY <1>1, <1>2, <1>3, <1>4 DEF PhoneStep, PhoneInstall, PhonePackageList

LEMMA DevicesFoundCalm ==
  ASSUME TypeOK, NEW present \in BOOLEAN, DevicesFound(present)
  PROVE  Calm
<1> DEFINE m == [type |-> "devices", present |-> present]
<1>1. m \in Message /\ m.type \notin Marks
  BY MessageTyped DEF Marks
<1>2. queueIn' = Append(queueIn, m)
  BY DEF DevicesFound
<1> HIDE DEF m
<1>3. More
  BY <1>1, <1>2, AddedMore
<1> QED BY <1>3 DEF DevicesFound, proxyVars, Calm

\* The steps of a proxy and of a timer, and all the others.
LEMMA StepIs ==
  ASSUME Typed, [Next]_vars
  PROVE  \/ \E g \in Proxies : ProxyStep(g)
         \/ MasterStart \/ MasterStop
         \/ \E t \in Threads : Timeout(t)
         \/ Calm
BY CallStepCalm, MasterStepCalm, PhoneStepCalm, DevicesFoundCalm DEF Next, Typed

\* The replies of an install are no marks.
LEMMA ProxyInstallMore ==
  ASSUME Typed, NEW g \in Proxies, ProxyInstall(g)
  PROVE  More
<1> USE DEF Typed
<1> DEFINE Reply(r) == [type |-> "reply", from |-> g, cmd |-> run[g], res |-> r]
           Replies(o) == [i \in 1..Len(o) |-> Reply(o[i])]
<1>1. PICK out \in AdbOutcomes : queueIn' = queueIn \o Replies(out)
  BY DEF ProxyInstall
<1>2. Len(out) \in Nat /\ queueIn \in Seq(Message)
  BY ConstantsAssumption DEF TypeOK
<1>3. \A r : Reply(r).type \notin Marks
  BY DEF Marks
<1>4. ASSUME NEW i \in DOMAIN queueIn
      PROVE  i \in DOMAIN queueIn' /\ queueIn'[i] = queueIn[i]
  BY <1>1, <1>2, <1>4
<1>5. ASSUME NEW i \in DOMAIN queueIn', i \notin DOMAIN queueIn
      PROVE  queueIn'[i].type \notin Marks
  <2>1. i - Len(queueIn) \in 1..Len(out) /\ queueIn'[i] = Reply(out[i - Len(queueIn)])
    BY <1>1, <1>2, <1>5
  <2> QED BY <1>3, <2>1
<1> QED BY <1>4, <1>5 DEF More

-----------------------------------------------------------------------------
(* No timer outlives its install *)

\* The install c of proxy g has not ended, or its end is announced after
\* message k.
Ended(g, c, k) ==
  \/ run[g] = c
  \/ \E j \in DOMAIN queueIn :
       j > k /\ queueIn[j].type = "stop" /\ queueIn[j].from = g /\ queueIn[j].cmd = c

\* The same of the state after a step.
EndedNext(g, c, k) ==
  \/ run'[g] = c
  \/ \E j \in DOMAIN queueIn' :
       j > k /\ queueIn'[j].type = "stop" /\ queueIn'[j].from = g /\ queueIn'[j].cmd = c

\* That is so of the install the timer is for, and of each one that waits
\* for its timer.
TimerEnds ==
  /\ timer # None => Ended(timer.from, timer.cmd, 0)
  /\ \A i \in DOMAIN queueIn :
       queueIn[i].type = "start" => Ended(queueIn[i].from, queueIn[i].cmd, i)

\* A longer queue announces what it did.
LEMMA EndedMore ==
  ASSUME \A i \in DOMAIN queueIn : i \in DOMAIN queueIn' /\ queueIn'[i] = queueIn[i],
         NEW g, NEW c, NEW k, Ended(g, c, k), run'[g] = run[g]
  PROVE  EndedNext(g, c, k)
BY DEF Ended, EndedNext

LEMMA TimerEndsCalm ==
  ASSUME Typed, TimerEnds, More, UNCHANGED run, timer' \in {timer, None}
  PROVE  TimerEnds'
<1>1. timer' # None => EndedNext(timer.from, timer.cmd, 0)
  BY EndedMore DEF More, TimerEnds
<1>2. ASSUME NEW i \in DOMAIN queueIn', queueIn'[i].type = "start"
      PROVE  EndedNext(queueIn'[i].from, queueIn'[i].cmd, i)
  <2>1. i \in DOMAIN queueIn /\ queueIn'[i] = queueIn[i]
    BY <1>2 DEF More, Marks
  <2>2. Ended(queueIn[i].from, queueIn[i].cmd, i)
    BY <1>2, <2>1 DEF TimerEnds
  <2>3. EndedNext(queueIn[i].from, queueIn[i].cmd, i)
    BY <2>1, <2>2 DEF Ended, EndedNext, More
  <2> QED BY <2>1, <2>3 DEF Ended, EndedNext
<1> QED BY <1>1, <1>2 DEF TimerEnds, Ended, EndedNext

LEMMA TimerEndsPop ==
  ASSUME Typed, TimerEnds, Popped, UNCHANGED run,
         \/ timer' = None
         \/ timer' = timer /\ Head(queueIn).type # "stop"
         \/ /\ Head(queueIn).type = "start"
            /\ timer' = [from |-> Head(queueIn).from, cmd |-> Head(queueIn).cmd]
  PROVE  TimerEnds'
<1>1. /\ 1 \in DOMAIN queueIn /\ queueIn[1] = Head(queueIn) /\ DOMAIN queueIn \subseteq Nat
      /\ \A i \in DOMAIN queueIn' : i \in Nat \ {0} /\ i + 1 \in DOMAIN queueIn /\ queueIn'[i] = queueIn[i + 1]
      /\ \A i \in DOMAIN queueIn : i # 1 => i - 1 \in DOMAIN queueIn' /\ queueIn'[i - 1] = queueIn[i]
  BY PoppedIs DEF Typed
<1>2. ASSUME NEW g, NEW c, NEW k \in Nat, Ended(g, c, k + 1)
      PROVE  EndedNext(g, c, k)
  <2>1. CASE run[g] = c
    BY <2>1 DEF Ended, EndedNext
  <2>2. ASSUME NEW j \in DOMAIN queueIn, j > k + 1,
               queueIn[j].type = "stop", queueIn[j].from = g, queueIn[j].cmd = c
        PROVE  EndedNext(g, c, k)
    <3>1. j - 1 \in DOMAIN queueIn' /\ queueIn'[j - 1] = queueIn[j] /\ j - 1 > k
      BY <1>1, <2>2
    <3> QED BY <2>2, <3>1 DEF Ended, EndedNext
  <2> QED BY <1>2, <2>1, <2>2 DEF Ended, EndedNext
<1>3. ASSUME NEW i \in DOMAIN queueIn', queueIn'[i].type = "start"
      PROVE  EndedNext(queueIn'[i].from, queueIn'[i].cmd, i)
  <2>1. Ended(queueIn[i + 1].from, queueIn[i + 1].cmd, i + 1) /\ i \in Nat
    BY <1>1, <1>3 DEF TimerEnds
  <2>2. EndedNext(queueIn[i + 1].from, queueIn[i + 1].cmd, i)
    BY <1>2, <2>1
  <2> QED BY <1>1, <2>2 DEF Ended, EndedNext
<1>4. timer' # None => EndedNext(timer'.from, timer'.cmd, 0)
  <2>1. CASE timer' = None
    BY <2>1
  <2>2. CASE timer' = timer /\ timer # None /\ Head(queueIn).type # "stop"
    <3>1. Ended(timer.from, timer.cmd, 0 + 1)
      <4>1. Ended(timer.from, timer.cmd, 0)
        BY <2>2 DEF TimerEnds
      <4>2. \A j \in DOMAIN queueIn : j > 0 /\ queueIn[j].type = "stop" => j > 0 + 1
        BY <1>1, <2>2
      <4> QED BY <4>1, <4>2 DEF Ended, EndedNext
    <3>2. EndedNext(timer.from, timer.cmd, 0)
      BY <1>2, <3>1
    <3> QED BY <2>2, <3>2 DEF Ended, EndedNext
  <2>3. CASE /\ Head(queueIn).type = "start"
             /\ timer' = [from |-> Head(queueIn).from, cmd |-> Head(queueIn).cmd]
    <3>1. Ended(Head(queueIn).from, Head(queueIn).cmd, 0 + 1)
      BY <1>1, <2>3 DEF TimerEnds
    <3>2. EndedNext(Head(queueIn).from, Head(queueIn).cmd, 0)
      BY <1>2, <3>1
    <3>3. timer'.from = Head(queueIn).from /\ timer'.cmd = Head(queueIn).cmd
      BY <2>3
    <3> QED BY <3>2, <3>3 DEF Ended, EndedNext
  <2> QED BY <2>1, <2>2, <2>3
<1> QED BY <1>3, <1>4 DEF TimerEnds, Ended, EndedNext

\* A proxy takes a command: the one before it has ended.
LEMMA TimerEndsTake ==
  ASSUME Typed, TimerEnds, NEW g \in Proxies, ProxyTake(g)
  PROVE  TimerEnds'
<1> DEFINE c == Head(cmds[g])
           m == [type |-> "start", from |-> g, cmd |-> c]
<1>1. timer' = timer /\ run[g] = None /\ run' = [run EXCEPT ![g] = c]
      /\ c \in Command /\ run \in [Proxies -> Command \cup {None}]
  BY HeadTail DEF ProxyTake, Typed, TypeOK
<1>2. ASSUME NEW h \in Proxies, NEW d \in InstallCommand, NEW k, Ended(h, d, k),
             \A i \in DOMAIN queueIn : i \in DOMAIN queueIn' /\ queueIn'[i] = queueIn[i]
      PROVE  EndedNext(h, d, k)
  <2>1. CASE h # g
    <3>1. run'[h] = run[h]
      BY <1>1, <2>1
    <3> QED BY <1>2, <3>1, EndedMore
  <2>2. CASE h = g
    <3>1. d # None
      BY NoneAssumption DEF Command
    <3> QED BY <1>1, <1>2, <2>2, <3>1 DEF Ended, EndedNext
  <2> QED BY <2>1, <2>2
<1>3. timer # None => timer.from \in Proxies /\ timer.cmd \in InstallCommand
  BY DEF Typed, TypeOK, TimerEntry
<1>4. \A i \in DOMAIN queueIn : queueIn[i].type = "start" =>
        queueIn[i].from \in Proxies /\ queueIn[i].cmd \in InstallCommand
  BY MessageFields, ElementOfSeq DEF Typed, TypeOK
<1>5. CASE c.kind = "install"
  <2>1. c \in InstallCommand /\ m \in Message /\ m.type = "start" /\ m.from = g /\ m.cmd = c
    BY <1>1, <1>5, InstallTyped, MessageTyped
  <2>2. queueIn' = Append(queueIn, m)
    BY <1>5 DEF ProxyTake
  <2> HIDE DEF m
  <2>3. /\ \A i \in DOMAIN queueIn : i \in DOMAIN queueIn' /\ queueIn'[i] = queueIn[i]
        /\ \A i \in DOMAIN queueIn' : i \in DOMAIN queueIn \/ queueIn'[i] = m
    BY <2>1, <2>2, AddedIs DEF Typed
  <2>4. timer' # None => EndedNext(timer.from, timer.cmd, 0)
    BY <1>1, <1>2, <1>3, <2>3 DEF TimerEnds
  <2>5. ASSUME NEW i \in DOMAIN queueIn', queueIn'[i].type = "start"
        PROVE  EndedNext(queueIn'[i].from, queueIn'[i].cmd, i)
    <3>1. CASE i \in DOMAIN queueIn
      <4>1. EndedNext(queueIn[i].from, queueIn[i].cmd, i)
        BY <1>2, <1>4, <2>3, <2>5, <3>1 DEF TimerEnds
      <4> QED BY <2>3, <3>1, <4>1 DEF Ended, EndedNext
    <3>2. CASE queueIn'[i] = m
      BY <1>1, <2>1, <3>2 DEF Ended, EndedNext
    <3> QED BY <2>3, <3>1, <3>2
  <2> QED BY <1>1, <2>4, <2>5 DEF TimerEnds, Ended, EndedNext
<1>6. CASE c.kind # "install"
  <2>1. queueIn' = queueIn
    BY <1>6 DEF ProxyTake
  <2>2. timer' # None => EndedNext(timer.from, timer.cmd, 0)
    BY <1>1, <1>2, <1>3, <2>1 DEF TimerEnds
  <2>3. ASSUME NEW i \in DOMAIN queueIn, queueIn[i].type = "start"
        PROVE  EndedNext(queueIn[i].from, queueIn[i].cmd, i)
    BY <1>2, <1>4, <2>1, <2>3 DEF TimerEnds
  <2> QED BY <1>1, <2>1, <2>2, <2>3 DEF TimerEnds, Ended, EndedNext
<1> QED BY <1>5, <1>6

\* AfterCommand: the end of the install is announced behind everything else.
LEMMA TimerEndsAfter ==
  ASSUME Typed, TimerEnds, NEW g \in Proxies, ProxyAfterInstall(g)
  PROVE  TimerEnds'
<1> DEFINE m == [type |-> "stop", from |-> g, cmd |-> run[g]]
<1>1. timer' = timer /\ run' = [run EXCEPT ![g] = None] /\ queueIn' = Append(queueIn, m)
      /\ run \in [Proxies -> Command \cup {None}]
  BY DEF ProxyAfterInstall, Typed, TypeOK
<1>2. m \in Message /\ m.type = "stop" /\ m.from = g /\ m.cmd = run[g]
  BY InstallTyped, MessageTyped DEF ProxyAfterInstall, RanInstall, Typed, TypeOK
<1> HIDE DEF m
<1>3. /\ \A i \in DOMAIN queueIn : i \in DOMAIN queueIn' /\ queueIn'[i] = queueIn[i] /\ i < Len(queueIn) + 1
      /\ Len(queueIn) + 1 \in DOMAIN queueIn' /\ queueIn'[Len(queueIn) + 1] = m
      /\ \A i \in DOMAIN queueIn' : i \in DOMAIN queueIn \/ i = Len(queueIn) + 1
  BY <1>1, <1>2, AddedIs DEF Typed
<1>4. ASSUME NEW h \in Proxies, NEW d, NEW k, Ended(h, d, k), Len(queueIn) + 1 > k
      PROVE  EndedNext(h, d, k)
  <2>1. CASE h = g /\ run[h] = d
    BY <1>2, <1>3, <1>4, <2>1 DEF Ended, EndedNext
  <2>2. CASE h # g
    BY <1>1, <1>3, <1>4, <2>2 DEF Ended, EndedNext
  <2>3. CASE run[h] # d
    BY <1>3, <1>4, <2>3 DEF Ended, EndedNext
  <2> QED BY <2>1, <2>2, <2>3
<1>5. timer' # None => EndedNext(timer.from, timer.cmd, 0)
  <2>1. timer # None => timer.from \in Proxies
    BY DEF Typed, TypeOK, TimerEntry
  <2>2. Len(queueIn) + 1 > 0
    BY DEF Typed, TypeOK
  <2> QED BY <1>1, <1>4, <2>1, <2>2 DEF TimerEnds
<1>6. ASSUME NEW i \in DOMAIN queueIn', queueIn'[i].type = "start"
      PROVE  EndedNext(queueIn'[i].from, queueIn'[i].cmd, i)
  <2>1. i \in DOMAIN queueIn /\ queueIn'[i] = queueIn[i]
    BY <1>2, <1>3, <1>6
  <2>2. queueIn[i].from \in Proxies
    BY <1>6, <2>1, MessageFields, ElementOfSeq DEF Typed, TypeOK
  <2>3. EndedNext(queueIn[i].from, queueIn[i].cmd, i)
    BY <1>3, <1>4, <1>6, <2>1, <2>2 DEF TimerEnds
  <2> QED BY <2>1, <2>3 DEF Ended, EndedNext
<1> QED BY <1>1, <1>5, <1>6 DEF TimerEnds, Ended, EndedNext

\* The end of another command ends no install.
LEMMA TimerEndsInfo ==
  ASSUME Typed, TimerEnds, NEW g \in Proxies, ProxyInfo(g)
  PROVE  TimerEnds'
<1>1. timer' = timer /\ run[g].kind # "install" /\ run' = [run EXCEPT ![g] = None]
      /\ run \in [Proxies -> Command \cup {None}]
  BY DEF ProxyInfo, Typed, TypeOK
<1>2. More
  <2>1. \/ queueIn' = queueIn
        \/ \E m \in Message : m.type \notin Marks /\ queueIn' = Append(queueIn, m)
    BY MessageTyped DEF ProxyInfo, Marks
  <2> QED BY <2>1, AddedMore, SameMore DEF Typed
<1>3. ASSUME NEW h \in Proxies, NEW d \in InstallCommand, NEW k, Ended(h, d, k)
      PROVE  EndedNext(h, d, k)
  <2>1. d.kind = "install"
    BY DEF InstallCommand
  <2>2. h # g \/ run[h] # d
    BY <1>1, <2>1
  <2>3. CASE h # g
    <3>1. run'[h] = run[h]
      BY <1>1, <2>3
    <3> QED BY <1>2, <1>3, <3>1, EndedMore DEF More
  <2>4. CASE run[h] # d
    BY <1>2, <1>3, <2>4 DEF Ended, EndedNext, More
  <2> QED BY <2>2, <2>3, <2>4
<1>4. timer' # None => EndedNext(timer.from, timer.cmd, 0)
  BY <1>1, <1>3 DEF TimerEnds, Typed, TypeOK, TimerEntry
<1>5. ASSUME NEW i \in DOMAIN queueIn', queueIn'[i].type = "start"
      PROVE  EndedNext(queueIn'[i].from, queueIn'[i].cmd, i)
  <2>1. i \in DOMAIN queueIn /\ queueIn'[i] = queueIn[i]
    BY <1>2, <1>5 DEF More, Marks
  <2>2. queueIn[i].from \in Proxies /\ queueIn[i].cmd \in InstallCommand
    BY <1>5, <2>1, MessageFields, ElementOfSeq DEF Typed, TypeOK
  <2>3. EndedNext(queueIn[i].from, queueIn[i].cmd, i)
    BY <1>3, <1>5, <2>1, <2>2 DEF TimerEnds
  <2> QED BY <2>1, <2>3 DEF Ended, EndedNext
<1> QED BY <1>1, <1>4, <1>5 DEF TimerEnds, Ended, EndedNext

LEMMA TimerEndsNext == Typed /\ TimerEnds /\ [Next]_vars => TimerEnds'
<1> SUFFICES ASSUME Typed, TimerEnds, [Next]_vars PROVE TimerEnds'
  OBVIOUS
<1>1. ASSUME NEW g \in Proxies, ProxyInstall(g) PROVE TimerEnds'
  <2>1. UNCHANGED <<run, timer>>
    BY <1>1 DEF ProxyInstall
  <2> QED BY <1>1, <2>1, ProxyInstallMore, TimerEndsCalm
<1>2. ASSUME NEW g \in Proxies, ProxyStep(g) PROVE TimerEnds'
  BY <1>1, <1>2, TimerEndsTake, TimerEndsAfter, TimerEndsInfo DEF ProxyStep
<1>3. CASE MasterStart \/ MasterStop
  BY <1>3, TimerEndsPop DEF MasterStart, MasterStop, Pop, Popped, proxyVars
<1>4. ASSUME NEW t \in Threads, Timeout(t) PROVE TimerEnds'
  <2>1. UNCHANGED <<run, queueIn>> /\ timer' \in {timer, None}
    BY <1>4 DEF Timeout
  <2> QED BY <2>1, SameMore, TimerEndsCalm
<1>5. CASE Calm
  BY <1>5, TimerEndsCalm, TimerEndsPop DEF Calm, Marks
<1> QED BY <1>2, <1>3, <1>4, <1>5, StepIs

\* Whatever proxies a timeout leaves behind and however they end, an entry of
\* last_command_timeout belongs to an install that runs, or its removal is
\* under way (master.py:671-692).
THEOREM TimersEnd == Spec => []NoDanglingTimer
<1>1. Init => TimerEnds
  BY DEF Init, TimerEnds
<1>2. Typed /\ TimerEnds => NoDanglingTimer
  BY DEF TimerEnds, Ended, NoDanglingTimer
<1>3. Spec => []TimerEnds
  BY <1>1, TypedAlways, TimerEndsNext, PTL DEF Spec
<1> QED BY <1>2, <1>3, TypedAlways, PTL

-----------------------------------------------------------------------------
(* No install without a timer, until the first timeout *)

\* Before the first timeout there is at most one proxy, and it is the current
\* one ...
OneProxy == made <= 1 /\ (cur = 0 => made = 0)

\* ... and the last start or stop it announced is the start of the install in
\* its hands: the timer is set, or that message waits behind all others.
LastMark(g) ==
  \/ /\ timer # None /\ timer.from = g /\ timer.cmd = run[g]
     /\ \A j \in DOMAIN queueIn : queueIn[j].type \notin Marks
  \/ \E i \in DOMAIN queueIn :
       /\ queueIn[i].type = "start" /\ queueIn[i].from = g /\ queueIn[i].cmd = run[g]
       /\ \A j \in DOMAIN queueIn : j > i => queueIn[j].type \notin Marks

InHand(g) == run[g] # None /\ run[g].kind = "install"

TimedInv ==
  everTimedOut = {} =>
    /\ OneProxy
    /\ \A g \in Proxies : InHand(g) => LastMark(g)

\* One proxy means one proxy at work.
LEMMA OneAtWork ==
  ASSUME Typed, FreshIdle, OneProxy, NEW g \in Proxies, NEW h \in Proxies,
         run[g] # None \/ cmds[g] # <<>>, run[h] # None \/ cmds[h] # <<>>
  PROVE  g = h
<1>1. made \in Nat /\ \A k \in Proxies : k \in Nat /\ k >= 1
  BY ConstantsAssumption DEF Typed, TypeOK, Proxies
<1>2. g <= made /\ h <= made
  BY <1>1 DEF FreshIdle
<1> QED BY <1>1, <1>2 DEF OneProxy

\* Nothing comes between a proxy and its timer.
LEMMA LastMarkCalm ==
  ASSUME Typed, UNCHANGED <<run, timer>>, More \/ (Popped /\ Head(queueIn).type \notin Marks),
         NEW g \in Proxies, LastMark(g)
  PROVE  LastMark(g)'
<1>1. CASE More
  <2>1. CASE timer # None /\ timer.from = g /\ timer.cmd = run[g]
             /\ \A j \in DOMAIN queueIn : queueIn[j].type \notin Marks
    BY <1>1, <2>1 DEF LastMark, More
  <2>2. ASSUME NEW i \in DOMAIN queueIn,
               queueIn[i].type = "start", queueIn[i].from = g, queueIn[i].cmd = run[g],
               \A j \in DOMAIN queueIn : j > i => queueIn[j].type \notin Marks
        PROVE  LastMark(g)'
    <3>1. i \in DOMAIN queueIn' /\ queueIn'[i] = queueIn[i]
      BY <1>1, <2>2 DEF More
    <3>2. \A j \in DOMAIN queueIn' : j > i => queueIn'[j].type \notin Marks
      BY <1>1, <2>2 DEF More
    <3> QED BY <2>2, <3>1, <3>2 DEF LastMark
  <2> QED BY <2>1, <2>2 DEF LastMark
<1>2. CASE Popped /\ Head(queueIn).type \notin Marks
  <2>1. /\ 1 \in DOMAIN queueIn /\ queueIn[1] = Head(queueIn) /\ DOMAIN queueIn \subseteq Nat
        /\ \A i \in DOMAIN queueIn' : i \in Nat \ {0} /\ i + 1 \in DOMAIN queueIn /\ queueIn'[i] = queueIn[i + 1]
        /\ \A i \in DOMAIN queueIn : i # 1 => i - 1 \in DOMAIN queueIn' /\ queueIn'[i - 1] = queueIn[i]
    BY <1>2, PoppedIs DEF Typed
  <2>2. CASE timer # None /\ timer.from = g /\ timer.cmd = run[g]
             /\ \A j \in DOMAIN queueIn : queueIn[j].type \notin Marks
    BY <2>1, <2>2 DEF LastMark
  <2>3. ASSUME NEW i \in DOMAIN queueIn,
               queueIn[i].type = "start", queueIn[i].from = g, queueIn[i].cmd = run[g],
               \A j \in DOMAIN queueIn : j > i => queueIn[j].type \notin Marks
        PROVE  LastMark(g)'
    <3>1. i # 1
      BY <1>2, <2>1, <2>3 DEF Marks
    <3>2. i - 1 \in DOMAIN queueIn' /\ queueIn'[i - 1] = queueIn[i]
      BY <2>1, <3>1
    <3>3. ASSUME NEW j \in DOMAIN queueIn', j > i - 1
          PROVE  queueIn'[j].type \notin Marks
      <4>1. j + 1 \in DOMAIN queueIn /\ j + 1 > i /\ queueIn'[j] = queueIn[j + 1]
        BY <2>1, <3>3
      <4> QED BY <2>3, <4>1
    <3> QED BY <2>3, <3>2, <3>3 DEF LastMark
  <2> QED BY <2>2, <2>3 DEF LastMark
<1> QED BY <1>1, <1>2

\* ProcessStartCheckTimeOut sets the timer of the install in hand, and a stop
\* message is of the one before.
LEMMA LastMarkMaster ==
  ASSUME Typed, MasterStart \/ MasterStop, NEW g \in Proxies, LastMark(g)
  PROVE  LastMark(g)'
<1>1. Popped /\ Head(queueIn).type \in Marks /\ run' = run
  BY DEF MasterStart, MasterStop, Pop, Popped, Marks, proxyVars
<1>2. /\ 1 \in DOMAIN queueIn /\ queueIn[1] = Head(queueIn) /\ DOMAIN queueIn \subseteq Nat
      /\ \A i \in DOMAIN queueIn' : i \in Nat \ {0} /\ i + 1 \in DOMAIN queueIn /\ queueIn'[i] = queueIn[i + 1]
      /\ \A i \in DOMAIN queueIn : i # 1 => i - 1 \in DOMAIN queueIn' /\ queueIn'[i - 1] = queueIn[i]
  BY <1>1, PoppedIs DEF Typed
<1>3. PICK i \in DOMAIN queueIn :
        /\ queueIn[i].type = "start" /\ queueIn[i].from = g /\ queueIn[i].cmd = run[g]
        /\ \A j \in DOMAIN queueIn : j > i => queueIn[j].type \notin Marks
  BY <1>1, <1>2 DEF LastMark
<1>4. ASSUME NEW j \in DOMAIN queueIn', j > i - 1
      PROVE  queueIn'[j].type \notin Marks
  <2>1. j + 1 \in DOMAIN queueIn /\ j + 1 > i /\ queueIn'[j] = queueIn[j + 1]
    BY <1>2, <1>4
  <2> QED BY <1>3, <2>1
<1>5. CASE i # 1
  <2>1. i - 1 \in DOMAIN queueIn' /\ queueIn'[i - 1] = queueIn[i]
    BY <1>2, <1>5
  <2> QED BY <1>1, <1>3, <1>4, <2>1 DEF LastMark
<1>6. CASE i = 1
  <2>1. MasterStart
    BY <1>2, <1>3, <1>6 DEF MasterStop, Pop
  <2>2. timer' = [from |-> Head(queueIn).from, cmd |-> Head(queueIn).cmd]
    BY <2>1 DEF MasterStart
  <2>3. timer' # None
    <3>1. Head(queueIn) \in Message
      BY <1>2, ElementOfSeq DEF Typed, TypeOK
    <3>2. timer' \in TimerEntry
      BY <1>2, <1>3, <1>6, <2>2, <3>1, MessageFields DEF TimerEntry
    <3> QED BY <3>2, NoneAssumption
  <2>4. \A j \in DOMAIN queueIn' : queueIn'[j].type \notin Marks
    BY <1>2, <1>4, <1>6
  <2> QED BY <1>1, <1>2, <1>3, <1>6, <2>2, <2>3, <2>4 DEF LastMark
<1> QED BY <1>5, <1>6

\* A proxy takes a command and announces it behind everything else.
LEMMA TimedTake ==
  ASSUME Typed, FreshIdle, OneProxy, NEW g \in Proxies, ProxyTake(g),
         NEW h \in Proxies, InHand(h)'
  PROVE  LastMark(h)'
<1> DEFINE c == Head(cmds[g])
           m == [type |-> "start", from |-> g, cmd |-> c]
<1>1. /\ cmds[g] # <<>> /\ c \in Command
      /\ run \in [Proxies -> Command \cup {None}] /\ run' = [run EXCEPT ![g] = c]
  BY HeadTail DEF ProxyTake, Typed, TypeOK
<1>2. h = g
  <2>1. CASE h # g
    <3>1. run[h] # None
      BY <1>1, <2>1 DEF InHand
    <3> QED BY <1>1, <3>1, OneAtWork
  <2> QED BY <2>1
<1>3. run'[g] = c /\ c.kind = "install"
  BY <1>1, <1>2 DEF InHand
<1>4. m \in Message /\ m.type = "start" /\ m.from = g /\ m.cmd = c
  BY <1>1, <1>3, InstallTyped, MessageTyped
<1>5. queueIn' = Append(queueIn, m)
  BY <1>3 DEF ProxyTake
<1> HIDE DEF m
<1>6. /\ Len(queueIn) + 1 \in DOMAIN queueIn' /\ queueIn'[Len(queueIn) + 1] = m
      /\ \A j \in DOMAIN queueIn' : ~(j > Len(queueIn) + 1)
  BY <1>4, <1>5 DEF Typed, TypeOK
<1> QED BY <1>2, <1>3, <1>4, <1>6 DEF LastMark

\* A proxy is done with its command, and no other has one.
LEMMA TimedDone ==
  ASSUME Typed, FreshIdle, OneProxy, NEW g \in Proxies, ProxyAfterInstall(g) \/ ProxyInfo(g),
         NEW h \in Proxies
  PROVE  ~InHand(h)'
<1>1. /\ run[g] # None
      /\ run \in [Proxies -> Command \cup {None}] /\ run' = [run EXCEPT ![g] = None]
  BY DEF ProxyAfterInstall, ProxyInfo, Typed, TypeOK, RanInstall
<1>2. CASE h = g
  BY <1>1, <1>2 DEF InHand
<1>3. CASE h # g
  <2>1. run[h] = None
    BY <1>1, <1>3, OneAtWork
  <2> QED BY <1>1, <1>3, <2>1 DEF InHand
<1> QED BY <1>2, <1>3

\* What a step does to the proxies: nothing, except what Grow allows.
LEMMA GrowIs ==
  ASSUME Typed, Linked, [Next]_vars
  PROVE  \/ \E g \in Proxies : ProxyStep(g)
         \/ \E t \in Threads : Timeout(t)
         \/ Grow
         \/ UNCHANGED <<cur, made>>
<1>1. UNCHANGED vars => UNCHANGED <<cur, made>>
  BY DEF vars, proxyVars
<1> QED BY <1>1, CallStepGrows, MasterStepGrows, PhoneStepGrows, DevicesFoundGrows DEF Next

LEMMA OneProxyNext ==
  ASSUME Typed, Linked, OneProxy, [Next]_vars, everTimedOut' = {}
  PROVE  OneProxy'
<1>1. ASSUME NEW g \in Proxies, ProxyStep(g) PROVE UNCHANGED <<cur, made>>
  BY <1>1 DEF ProxyStep, ProxyTake, ProxyInstall, ProxyAfterInstall, ProxyInfo
<1>2. ASSUME NEW t \in Threads, Timeout(t) PROVE UNCHANGED <<cur, made>>
  BY <1>2 DEF Timeout
<1>3. UNCHANGED <<cur, made>> => OneProxy'
  BY DEF OneProxy
<1>4. CASE Grow
  <2>1. cur \in Nat /\ made \in Nat
    BY ConstantsAssumption DEF Typed, TypeOK
  <2>2. CASE cur' = cur /\ made' = made
    BY <1>3, <2>2
  <2>3. CASE cur = 0 /\ cur' = made + 1 /\ made' = made + 1
    BY <2>1, <2>3 DEF OneProxy
  <2> QED BY <1>4, <2>2, <2>3 DEF Grow
<1> QED BY <1>1, <1>2, <1>3, <1>4, GrowIs

LEMMA TimedNext == Typed /\ Linked /\ TimedInv /\ [Next]_vars => TimedInv'
<1> SUFFICES ASSUME Typed, Linked, TimedInv, [Next]_vars, everTimedOut' = {}
             PROVE  OneProxy' /\ \A h \in Proxies : InHand(h)' => LastMark(h)'
  BY DEF TimedInv
<1>1. everTimedOut = {}
  <2>1. ASSUME NEW g \in Proxies, ProxyStep(g) PROVE UNCHANGED everTimedOut
    BY <2>1 DEF ProxyStep, ProxyTake, ProxyInstall, ProxyAfterInstall, ProxyInfo, envVars
  <2>2. ASSUME NEW t \in Threads, Timeout(t) PROVE everTimedOut \subseteq everTimedOut'
    BY <2>2 DEF Timeout
  <2>3. MasterStart \/ MasterStop => UNCHANGED everTimedOut
    BY DEF MasterStart, MasterStop, envVars
  <2> QED BY <2>1, <2>2, <2>3, StepIs DEF Calm
<1>2. OneProxy /\ FreshIdle /\ \A h \in Proxies : InHand(h) => LastMark(h)
  BY <1>1 DEF TimedInv, Linked
<1>3. OneProxy'
  BY <1>2, OneProxyNext
<1> SUFFICES ASSUME NEW h \in Proxies, InHand(h)'
             PROVE  LastMark(h)'
  BY <1>3
<1>4. ASSUME UNCHANGED run PROVE LastMark(h)
  BY <1>2, <1>4 DEF InHand
<1>5. ASSUME NEW g \in Proxies, ProxyInstall(g) PROVE LastMark(h)'
  <2>1. UNCHANGED <<run, timer>>
    BY <1>5 DEF ProxyInstall
  <2> QED BY <1>4, <1>5, <2>1, ProxyInstallMore, LastMarkCalm
<1>6. ASSUME NEW g \in Proxies, ProxyStep(g) PROVE LastMark(h)'
  BY <1>2, <1>5, <1>6, TimedTake, TimedDone DEF ProxyStep
<1>7. CASE MasterStart \/ MasterStop
  <2>1. UNCHANGED run
    BY <1>7 DEF MasterStart, MasterStop, proxyVars
  <2> QED BY <1>4, <1>7, <2>1, LastMarkMaster
<1>8. ASSUME NEW t \in Threads, Timeout(t) PROVE LastMark(h)'
  <2>1. UNCHANGED <<run, timer, queueIn>>
    BY <1>8 DEF Timeout
  <2> QED BY <1>4, <2>1 DEF LastMark
<1>9. CASE Calm
  BY <1>4, <1>9, LastMarkCalm DEF Calm
<1> QED BY <1>6, <1>7, <1>8, <1>9, StepIs

\* The order of queue_in and the map keyed by serial number suffice as long
\* as no proxy has been given up: an install that runs has its entry in
\* last_command_timeout, or will get it, and no older stop message waits to
\* take it away.
THEOREM InstallTimed == Spec => []InstallTimedUntilFirstTimeout
<1>1. Init => TimedInv
  BY DEF Init, TimedInv, OneProxy, InHand
<1>2. TimedInv => InstallTimedUntilFirstTimeout
  BY DEF TimedInv, InHand, LastMark, InstallTimedUntilFirstTimeout, Installing, Timed
<1>3. Spec => []TimedInv
  BY <1>1, TypedAlways, LinkedAlways, TimedNext, PTL DEF Spec
<1> QED BY <1>2, <1>3, PTL
=============================================================================
