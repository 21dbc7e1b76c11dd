----------------------- MODULE DeviceMasterAutoProofs -----------------------
(***************************************************************************)
(* Proofs about the sessions of DeviceMaster in which no install is asked  *)
(* for by hand: what the automatic mode queues, and that the master thread *)
(* lives.  The hypotheses are on UiCommands and MaxReload, and every other *)
(* constant is arbitrary.                                                  *)
(***************************************************************************)
EXTENDS DeviceMasterProofs, FiniteSetTheorems

\* The user interface sends no install of its own.
NoInstallUi == "install" \notin UiCommands /\ "force" \notin UiCommands

\* What the threads still pass to ProcessCommand are then the questions of
\* ProcessScanDevicesResponse and of the user.
NoInstallAsked == \A t \in Threads : \A i \in DOMAIN pending[t] : pending[t][i].kind # "install"

-----------------------------------------------------------------------------
(* No install is asked for *)

LEMMA AskedBegin ==
  ASSUME Typed, NoInstallAsked, NEW t \in Threads, NEW seq,
         \A i \in DOMAIN seq : seq[i].kind # "install", BeginCommands(t, seq)
  PROVE  NoInstallAsked'
<1>1. pending \in [Threads -> Seq(Command)] /\ pending' = [pending EXCEPT ![t] = seq]
  BY DEF BeginCommands, Typed, TypeOK
<1> QED BY <1>1 DEF NoInstallAsked

LEMMA AskedSend ==
  ASSUME Typed, NoInstallAsked, NEW t \in Threads, Send(t)
  PROVE  Head(pending[t]).kind # "install" /\ NoInstallAsked'
<1>1. pending \in [Threads -> Seq(Command)] /\ pending[t] \in Seq(Command) /\ pending[t] # <<>>
  BY DEF Send, Typed, TypeOK, SendHasCommand
<1>2. Head(pending[t]).kind # "install"
  <2>1. 1 \in DOMAIN pending[t] /\ Head(pending[t]) = pending[t][1]
    BY <1>1
  <2> QED BY <2>1 DEF NoInstallAsked
<1>3. CASE Len(pending[t]) > 1
  <2>1. \A i \in DOMAIN Tail(pending[t]) :
          i + 1 \in DOMAIN pending[t] /\ Tail(pending[t])[i] = pending[t][i + 1]
    BY <1>1
  <2>2. \A i \in DOMAIN Tail(pending[t]) : Tail(pending[t])[i].kind # "install"
    BY <2>1 DEF NoInstallAsked
  <2>3. BeginCommands(t, Tail(pending[t]))
    BY <1>3 DEF Send
  <2> QED BY <1>2, <2>2, <2>3, AskedBegin
<1>4. CASE ~(Len(pending[t]) > 1)
  <2>1. pending' = [pending EXCEPT ![t] = <<>>]
    BY <1>4 DEF Send
  <2> QED BY <1>1, <1>2, <2>1 DEF NoInstallAsked
<1> QED BY <1>3, <1>4

LEMMA AskedDevices ==
  ASSUME Typed, NoInstallAsked, MasterDevices
  PROVE  NoInstallAsked'
<1> DEFINE a == IF imei THEN <<>> ELSE <<Ask("imei", None, FALSE)>>
           b == IF pkgSet # None /\ pkgSet # {} THEN <<>> ELSE <<Ask("list", None, FALSE)>>
<1>1. BeginCommands("master", a \o b) \/ UNCHANGED pending
  BY DEF MasterDevices
<1>2. Ask("imei", None, FALSE).kind # "install" /\ Ask("list", None, FALSE).kind # "install"
  BY DEF Ask
<1>3. \A i \in DOMAIN (a \o b) : (a \o b)[i].kind # "install"
  <2> DEFINE Others == {Ask("imei", None, FALSE), Ask("list", None, FALSE)}
  <2>1. a \in Seq(Others) /\ b \in Seq(Others)
    <3>1. \A S : <<>> \in Seq(S) /\ \A c \in S : <<c>> \in Seq(S)
      OBVIOUS
    <3> QED BY <3>1, Zenon
  <2>2. \A c \in Others : c.kind # "install"
    BY <1>2
  <2> HIDE DEF a, b, Others
  <2>3. a \o b \in Seq(Others)
    BY <2>1
  <2> QED BY <2>2, <2>3, ElementOfSeq
<1> HIDE DEF a, b
<1>4. "master" \in Threads
  BY DEF Threads
<1> QED BY <1>1, <1>3, <1>4, AskedBegin DEF NoInstallAsked

LEMMA AskedNext ==
  ASSUME NoInstallUi, Typed, NoInstallAsked, [Next]_vars
  PROVE  NoInstallAsked'
<1>1. UNCHANGED pending => NoInstallAsked'
  BY DEF NoInstallAsked
<1>2. ASSUME NEW g \in Proxies, ProxyStep(g) PROVE UNCHANGED pending
  BY <1>2 DEF ProxyStep, ProxyTake, ProxyInstall, ProxyAfterInstall, ProxyInfo, threadVars
<1>3. ASSUME NEW t \in Threads, CallStep(t) PROVE NoInstallAsked'
  <2>1. UNCHANGED pending \/ Send(t)
    BY <1>3 DEF CallStep, NoTimeout, Timeout, BeginTrigger, TriggerOne, EndTrigger
  <2> QED BY <1>1, <2>1, AskedSend
<1>4. CASE MasterStep
  <2>1. MasterCheckTimeout => NoInstallAsked'
    <3>1. "master" \in Threads /\ \A i \in DOMAIN <<>> : <<>>[i].kind # "install"
      BY DEF Threads
    <3> QED BY <3>1, AskedBegin DEF MasterCheckTimeout
  <2>2. MasterStart \/ MasterStop \/ MasterReply \/ MasterInfo => UNCHANGED pending
    BY DEF MasterStart, MasterStop, MasterReply, MasterInfo, threadVars
  <2> QED BY <1>1, <1>4, <2>1, <2>2, AskedDevices DEF MasterStep
<1>5. CASE PhoneStep
  <2>1. PhonePackageList => NoInstallAsked'
    <3> DEFINE c == Ask("list", None, FALSE)
    <3>1. "phone" \in Threads /\ c.kind # "install"
      BY DEF Threads, Ask
    <3> HIDE DEF c
    <3>2. \A i \in DOMAIN <<c>> : <<c>>[i].kind # "install"
      BY <3>1
    <3> QED BY <3>1, <3>2, AskedBegin DEF PhonePackageList, PhoneCommand, c
  <2>2. ASSUME NEW mode, PhoneAutoInstall(mode) PROVE UNCHANGED pending
    BY <2>2 DEF PhoneAutoInstall
  <2>3. PhoneClearApkList \/ PhoneUpdateApkList => UNCHANGED pending
    BY DEF PhoneClearApkList, PhoneUpdateApkList
  <2>4. \A force \in BOOLEAN : ~PhoneInstall(force)
    BY DEF PhoneInstall, NoInstallUi
  <2> QED BY <1>1, <1>5, <2>1, <2>2, <2>3, <2>4 DEF PhoneStep
<1>6. ASSUME NEW present, DevicesFound(present) PROVE UNCHANGED pending
  BY <1>6 DEF DevicesFound, threadVars
<1>7. UNCHANGED vars => UNCHANGED pending
  BY DEF vars, threadVars
<1> QED BY <1>1, <1>2, <1>3, <1>4, <1>5, <1>6, <1>7 DEF Next

-----------------------------------------------------------------------------
(* How often a package waits in the queue of a proxy *)

Indices(s, p) == {i \in DOMAIN s : s[i].pkg = p}
Waiting(s, p) == Cardinality(Indices(s, p))

LEMMA WaitingFinite ==
  ASSUME NEW S, NEW s \in Seq(S), NEW p
  PROVE  IsFiniteSet(Indices(s, p)) /\ Waiting(s, p) \in Nat
<1>1. IsFiniteSet(1..Len(s)) /\ Indices(s, p) \subseteq 1..Len(s)
  BY FS_Interval DEF Indices
<1>2. IsFiniteSet(Indices(s, p))
  BY <1>1, FS_Subset
<1> QED BY <1>2, FS_CardinalityType DEF Waiting

LEMMA WaitingEmpty ==
  ASSUME NEW p
  PROVE  Waiting(<<>>, p) = 0
<1>1. Indices(<<>>, p) = {}
  BY DEF Indices
<1> QED BY <1>1, FS_EmptySet DEF Waiting

LEMMA WaitingAppend ==
  ASSUME NEW S, NEW s \in Seq(S), NEW x \in S, NEW p
  PROVE  /\ x.pkg = p => Waiting(Append(s, x), p) = Waiting(s, p) + 1
         /\ x.pkg # p => Waiting(Append(s, x), p) = Waiting(s, p)
<1> DEFINE t == Append(s, x)
<1>1. /\ DOMAIN s = 1..Len(s) /\ Len(s) \in Nat /\ DOMAIN t = 1..(Len(s) + 1)
      /\ t[Len(s) + 1] = x /\ \A i \in 1..Len(s) : t[i] = s[i]
  BY AppendProperties
<1>2. Len(s) + 1 \notin Indices(s, p)
  BY <1>1 DEF Indices
<1>3. IsFiniteSet(Indices(s, p))
  BY WaitingFinite
<1> HIDE DEF t
<1>4. ASSUME x.pkg = p PROVE Waiting(t, p) = Waiting(s, p) + 1
  <2>1. Indices(t, p) = Indices(s, p) \cup {Len(s) + 1}
    BY <1>1, <1>4 DEF Indices
  <2> QED BY <1>2, <1>3, <2>1, FS_AddElement DEF Waiting
<1>5. ASSUME x.pkg # p PROVE Waiting(t, p) = Waiting(s, p)
  <2>1. Indices(t, p) = Indices(s, p)
    BY <1>1, <1>5 DEF Indices
  <2> QED BY <2>1 DEF Waiting
<1> QED BY <1>4, <1>5 DEF t

LEMMA WaitingTail ==
  ASSUME NEW S, NEW s \in Seq(S), s # <<>>, NEW p
  PROVE  Waiting(Tail(s), p) <= Waiting(s, p)
<1> DEFINE t == Tail(s)
           shift == [i \in Indices(t, p) |-> i + 1]
<1>1. /\ DOMAIN s = 1..Len(s) /\ Len(s) \in Nat \ {0} /\ DOMAIN t = 1..(Len(s) - 1)
      /\ \A i \in 1..(Len(s) - 1) : t[i] = s[i + 1]
  BY HeadTailProperties
<1> HIDE DEF t
<1>2. shift \in Injection(Indices(t, p), Indices(s, p))
  <2>1. ASSUME NEW i \in Indices(t, p)
        PROVE  i + 1 \in Indices(s, p)
    BY <1>1, <2>1 DEF Indices
  <2>2. ASSUME NEW i \in Indices(t, p), NEW j \in Indices(t, p), i + 1 = j + 1
        PROVE  i = j
    BY <1>1, <2>2 DEF Indices
  <2> QED BY <2>1, <2>2 DEF Injection, IsInjective
<1>3. IsFiniteSet(Indices(s, p))
  BY WaitingFinite
<1> QED BY <1>2, <1>3, FS_Injection DEF Waiting, t, ExistsInjection

-----------------------------------------------------------------------------
(* What OneDevice.ProcessInstallApk does with an install *)

LEMMA ResolvedPackage ==
  ASSUME NEW c \in InstallCommand, NEW n \in Nat, NEW op \in {"none", "delete", "just"}
  PROVE  [c EXCEPT !.op = op, !.sub = n].pkg = c.pkg
<1>1. DOMAIN c = {"kind", "pkg", "force", "op", "sub"}
  BY DEF InstallCommand
<1> QED BY <1>1

LEMMA NumberedInstall ==
  ASSUME NEW c \in InstallCommand, NEW n \in Nat
  PROVE  [c EXCEPT !.sub = n] \in InstallCommand /\ [c EXCEPT !.sub = n].pkg = c.pkg
<1>1. [c EXCEPT !.sub = n] =
        [kind |-> c.kind, pkg |-> c.pkg, force |-> c.force, op |-> c.op, sub |-> n]
  BY DEF InstallCommand
<1> QED BY <1>1 DEF InstallCommand

\* It goes to the proxy, or is answered, or there is no proxy for it.
LEMMA InstallEffect ==
  ASSUME TypeOK, NEW g \in 0..MaxProxy, NEW c \in InstallCommand, NEW base \in Nat,
         ProcessInstallApk(g, c, base)
  PROVE  \/ UNCHANGED <<queueIn, cmds>>
         \/ /\ UNCHANGED queueIn /\ g \in Proxies
            /\ \E d \in InstallCommand :
                 d.pkg = c.pkg /\ cmds' = [cmds EXCEPT ![g] = Append(@, d)]
         \/ /\ UNCHANGED cmds
            /\ \E m \in Message :
                 m.cmd.pkg = c.pkg /\ queueIn' = Append(queueIn, m)
<1> DEFINE op  == IF c.op # "none" THEN c.op
                  ELSE IF pkgSet # None /\ c.pkg \in pkgSet THEN "delete" ELSE "just"
           one == [c EXCEPT !.op = op, !.sub = base + 1]
           d   == [one EXCEPT !.sub = base + 2]
           Answer(why) == [type |-> "reply", from |-> 0, cmd |-> one, res |-> why]
<1>1. one \in InstallCommand /\ one.pkg = c.pkg
  <2>1. op \in {"none", "delete", "just"} /\ base + 1 \in Nat
    BY DEF InstallCommand
  <2> HIDE DEF op
  <2> QED BY <2>1, ResolvedTyped, ResolvedPackage
<1>2. \/ SendCommand(g, one, base + 1) /\ UNCHANGED queueIn
      \/ queueIn' = Append(queueIn, Answer("skip_installed")) /\ UNCHANGED cmds
      \/ queueIn' = Append(queueIn, Answer("skip_timeout")) /\ UNCHANGED cmds
  BY DEF ProcessInstallApk
<1> HIDE DEF one
<1>3. ASSUME NEW why \in Skips
      PROVE  Answer(why) \in Message /\ Answer(why).cmd.pkg = c.pkg
  <2>1. 0 \in 0..MaxProxy /\ why \in Results \cup Skips
    BY ConstantsAssumption
  <2> QED BY <1>1, <2>1, MessageTyped
<1>4. CASE SendCommand(g, one, base + 1) /\ UNCHANGED queueIn /\ g # 0
  <2>1. d \in InstallCommand /\ d.pkg = c.pkg
    <3>1. base + 2 \in Nat
      OBVIOUS
    <3> QED BY <1>1, <3>1, NumberedInstall
  <2>2. base + 1 + 1 = base + 2
    OBVIOUS
  <2>3. cmds' = [cmds EXCEPT ![g] = Append(@, d)]
    BY <1>4, <2>2 DEF SendCommand
  <2>4. g \in Proxies
    BY <1>4, ConstantsAssumption DEF Proxies
  <2> QED BY <1>4, <2>1, <2>3, <2>4
<1>5. CASE SendCommand(g, one, base + 1) /\ UNCHANGED queueIn /\ g = 0
  BY <1>5 DEF SendCommand
<1> HIDE DEF Answer
<1> QED BY <1>2, <1>3, <1>4, <1>5 DEF Skips

-----------------------------------------------------------------------------
(***************************************************************************)
(* A package waits once per thread.  What waits in the queue of the        *)
(* current proxy and what the threads may still put there are counted      *)
(* together: a loop of TriggerAutoInstall starts on an empty queue only.   *)
(***************************************************************************)

\* Thread t has still to come to package p.
ToGo(t, p) == IF p \in left[t] THEN 1 ELSE 0

QueueInv ==
  \A g \in Proxies, p \in Packages :
    /\ Waiting(cmds[g], p) <= 2
    /\ g = cur => Waiting(cmds[g], p) + (ToGo("master", p) + ToGo("phone", p)) <= 2

\* A step that queues no install: the packages to come to are no more than
\* before, or the queue they are for is empty.
Lighter ==
  /\ \A g \in Proxies, p \in Packages : Waiting(cmds'[g], p) <= Waiting(cmds[g], p)
  /\ \/ cur' = 0
     \/ cur' \in Proxies /\ cmds[cur'] = <<>>
     \/ cur' = cur /\ \A t \in Threads : left'[t] \subseteq left[t]

LEMMA ToGoIs ==
  ASSUME NEW t, NEW p
  PROVE  ToGo(t, p) \in {0, 1} /\ ToGo(t, p)' \in {0, 1}
BY DEF ToGo

LEMMA WaitingNat ==
  ASSUME TypeOK, NEW g \in Proxies, NEW p
  PROVE  Waiting(cmds[g], p) \in Nat
BY WaitingFinite DEF TypeOK

LEMMA LighterQueue ==
  ASSUME Typed, Typed', QueueInv, Lighter
  PROVE  QueueInv'
<1> SUFFICES ASSUME NEW g \in Proxies, NEW p \in Packages
             PROVE  /\ Waiting(cmds'[g], p) <= 2
                    /\ g = cur' => Waiting(cmds'[g], p) + (ToGo("master", p)' + ToGo("phone", p)') <= 2
  BY DEF QueueInv
<1> DEFINE v == Waiting(cmds[g], p)
           w == Waiting(cmds'[g], p)
           a == ToGo("master", p) + ToGo("phone", p)
           b == ToGo("master", p)' + ToGo("phone", p)'
<1>1. v \in Nat /\ w \in Nat /\ a \in Nat /\ b \in Nat /\ b <= 2
  <2>1. v \in Nat /\ w \in Nat
    BY WaitingFinite DEF Typed, TypeOK
  <2> QED BY <2>1, ToGoIs
<1>2. v <= 2 /\ w <= v
  BY DEF QueueInv, Lighter
<1>3. ASSUME g = cur' PROVE w + b <= 2
  <2>1. CASE cmds[g] = <<>>
    <3>1. v = 0
      BY <2>1, WaitingEmpty
    <3> HIDE DEF v, w, b
    <3> QED BY <1>1, <1>2, <3>1
  <2>2. CASE g = cur /\ \A t \in Threads : left'[t] \subseteq left[t]
    <3>1. v + a <= 2
      BY <2>2 DEF QueueInv
    <3>2. b <= a
      <4>1. \A t \in Threads : ToGo(t, p)' <= ToGo(t, p)
        BY <2>2 DEF ToGo
      <4>2. "master" \in Threads /\ "phone" \in Threads
        BY DEF Threads
      <4> QED BY <4>1, <4>2, ToGoIs
    <3> HIDE DEF v, w, a, b
    <3> QED BY <1>1, <1>2, <3>1, <3>2
  <2>3. g # 0
    BY ConstantsAssumption DEF Proxies
  <2> QED BY <1>3, <2>1, <2>2, <2>3 DEF Lighter
<1> HIDE DEF v, w, b
<1> QED BY <1>1, <1>2, <1>3 DEF v, w, b

\* One round of TriggerAutoInstall: what comes into the queue is no longer to
\* come.
LEMMA TriggerOneQueue ==
  ASSUME Typed, Typed', QueueInv, NEW t \in Threads, NEW p \in Packages, TriggerOne(t, p)
  PROVE  QueueInv'
<1> DEFINE item == failed[p]
           op == IF item # None /\ InnerCode(item) = 1 THEN "delete" ELSE "none"
           c  == [kind |-> "install", pkg |-> p, force |-> FALSE, op |-> op, sub |-> 0]
<1>1. c \in InstallCommand /\ c.pkg = p /\ subId + 1 \in Nat /\ cur \in 0..MaxProxy
  BY DEF InstallCommand, Typed, TypeOK
<1>2. cur' = cur /\ p \in left[t] /\ left' = [left EXCEPT ![t] = @ \ {p}]
      /\ left \in [Threads -> SUBSET Packages] /\ cmds \in [Proxies -> Seq(Command)]
  BY DEF TriggerOne, Typed, TypeOK
<1>3. ProcessInstallApk(cur, c, subId + 1) \/ UNCHANGED cmds
  BY DEF TriggerOne
<1> HIDE DEF c
<1>4. \/ UNCHANGED cmds
      \/ /\ cur \in Proxies
         /\ \E d \in InstallCommand : d.pkg = p /\ cmds' = [cmds EXCEPT ![cur] = Append(@, d)]
  BY <1>1, <1>3, InstallEffect DEF Typed
<1>5. CASE UNCHANGED cmds
  <2>1. Lighter
    <3>1. \A g \in Proxies, q \in Packages : Waiting(cmds'[g], q) <= Waiting(cmds[g], q)
      <4>1. \A g \in Proxies, q \in Packages : Waiting(cmds[g], q) \in Nat
        BY WaitingNat DEF Typed
      <4> QED BY <1>5, <4>1
    <3> QED BY <1>2, <3>1 DEF Lighter
  <2> QED BY <2>1, LighterQueue
<1>6. ASSUME cur \in Proxies, NEW d \in InstallCommand, d.pkg = p,
             cmds' = [cmds EXCEPT ![cur] = Append(@, d)]
      PROVE  QueueInv'
  <2>1. ASSUME NEW g \in Proxies, g # cur, NEW q \in Packages
        PROVE  Waiting(cmds'[g], q) <= 2
    BY <1>2, <1>6, <2>1 DEF QueueInv
  <2>2. ASSUME NEW q \in Packages
        PROVE  /\ Waiting(cmds'[cur], q) <= 2
               /\ Waiting(cmds'[cur], q) + (ToGo("master", q)' + ToGo("phone", q)') <= 2
    <3> DEFINE v == Waiting(cmds[cur], q)
               w == Waiting(cmds'[cur], q)
               a == ToGo("master", q)
               b == ToGo("phone", q)
               x == ToGo("master", q)'
               y == ToGo("phone", q)'
    <3>1. v + (a + b) <= 2
      BY <1>6 DEF QueueInv
    <3>2. v \in Nat /\ w \in Nat /\ a \in {0, 1} /\ b \in {0, 1} /\ x \in {0, 1} /\ y \in {0, 1}
      BY <1>6, WaitingFinite, ToGoIs DEF Typed, TypeOK
    <3>3. cmds'[cur] = Append(cmds[cur], d) /\ d \in Command /\ cmds[cur] \in Seq(Command)
      BY <1>2, <1>6 DEF Command
    <3>4. CASE q = p
      <4>1. w = v + 1
        BY <1>6, <3>3, <3>4, WaitingAppend
      <4>2. /\ t = "master" => a = 1 /\ x = 0 /\ y = b
            /\ t = "phone" => b = 1 /\ y = 0 /\ x = a
        BY <1>2, <3>4 DEF ToGo, Threads
      <4>3. t = "master" \/ t = "phone"
        BY DEF Threads
      <4> HIDE DEF v, w, a, b, x, y
      <4>4. w <= 2 /\ w + (x + y) <= 2
        <5>1. CASE a = 1 /\ x = 0 /\ y = b
          BY <3>1, <3>2, <4>1, <5>1
        <5>2. CASE b = 1 /\ y = 0 /\ x = a
          BY <3>1, <3>2, <4>1, <5>2
        <5> QED BY <4>2, <4>3, <5>1, <5>2
      <4> QED BY <4>4 DEF w, x, y
    <3>5. CASE q # p
      <4>1. w = v
        BY <1>6, <3>3, <3>5, WaitingAppend
      <4>2. x = a /\ y = b
        BY <1>2, <3>5 DEF ToGo, Threads
      <4> HIDE DEF v, w, a, b, x, y
      <4>3. w <= 2 /\ w + (x + y) <= 2
        BY <3>1, <3>2, <4>1, <4>2
      <4> QED BY <4>3 DEF w, x, y
    <3> QED BY <3>4, <3>5
  <2> QED BY <1>2, <2>1, <2>2 DEF QueueInv
<1> QED BY <1>4, <1>5, <1>6

\* MaybeCreate keeps the proxy or makes one that nothing waits for.
LEMMA MaybeCreateEmpty ==
  ASSUME Typed, FreshIdle, NEW g \in Proxies, MaybeCreate(g)
  PROVE  cur' \in Proxies /\ (cur' = cur \/ cmds[cur'] = <<>>)
<1>1. cur' = g /\ (cur' = cur \/ g = made + 1) /\ made \in Nat
  BY ConstantsAssumption DEF MaybeCreate, Typed, TypeOK
<1> QED BY <1>1 DEF FreshIdle

LEMMA SameWaiting ==
  ASSUME Typed, UNCHANGED cmds
  PROVE  \A g \in Proxies, p \in Packages : Waiting(cmds'[g], p) <= Waiting(cmds[g], p)
<1>1. \A g \in Proxies, p \in Packages : Waiting(cmds[g], p) \in Nat
  BY WaitingNat DEF Typed
<1> QED BY <1>1

LEMMA ProxyTakeLighter ==
  ASSUME Typed, NEW g \in Proxies, ProxyTake(g)
  PROVE  Lighter
<1>1. /\ cmds' = [cmds EXCEPT ![g] = Tail(@)] /\ cmds[g] # <<>>
      /\ cmds \in [Proxies -> Seq(Command)] /\ cur' = cur /\ left' = left
  BY DEF ProxyTake, threadVars, Typed, TypeOK
<1>2. ASSUME NEW h \in Proxies, NEW p \in Packages
      PROVE  Waiting(cmds'[h], p) <= Waiting(cmds[h], p)
  <2>1. CASE h = g
    BY <1>1, <2>1, WaitingTail
  <2>2. CASE h # g
    <3>1. cmds'[h] = cmds[h] /\ Waiting(cmds[h], p) \in Nat
      BY <1>1, <2>2, WaitingNat DEF Typed
    <3> QED BY <3>1
  <2> QED BY <2>1, <2>2
<1> QED BY <1>1, <1>2 DEF Lighter

LEMMA SendLighter ==
  ASSUME Typed, FreshIdle, NoInstallAsked, NEW t \in Threads, Send(t)
  PROVE  Lighter
<1> DEFINE c == Head(pending[t])
<1>1. c.kind # "install" /\ c \in Command
  BY AskedSend, HeadTail DEF Send, Typed, TypeOK, SendHasCommand
<1>2. PICK g \in Proxies : MaybeCreate(g) /\ SendCommand(g, c, subId)
  BY <1>1 DEF Send
<1> DEFINE d == [c EXCEPT !.sub = subId + 1]
<1>3. g # 0 /\ cmds' = [cmds EXCEPT ![g] = Append(@, d)] /\ cmds \in [Proxies -> Seq(Command)]
  <2>1. g # 0
    BY ConstantsAssumption DEF Proxies
  <2>2. cmds' = [cmds EXCEPT ![g] = Append(@, d)]
    BY <1>2, <2>1 DEF SendCommand
  <2> QED BY <2>1, <2>2 DEF Typed, TypeOK
<1>4. d \in Command /\ d.pkg \notin Packages
  <2>1. c \in InfoCommand /\ subId + 1 \in Nat
    BY <1>1 DEF Command, InstallCommand, Typed, TypeOK
  <2>2. d = [kind |-> c.kind, pkg |-> c.pkg, force |-> c.force, op |-> c.op, sub |-> subId + 1]
    BY <2>1 DEF InfoCommand
  <2>3. d \in InfoCommand
    BY <2>1, <2>2 DEF InfoCommand
  <2> QED BY <2>3, ConstantsAssumption DEF InfoCommand, Command
<1> HIDE DEF d
<1>5. ASSUME NEW h \in Proxies, NEW p \in Packages
      PROVE  Waiting(cmds'[h], p) <= Waiting(cmds[h], p)
  <2>1. Waiting(cmds[h], p) \in Nat
    BY WaitingNat DEF Typed
  <2>2. CASE h = g
    <3>1. cmds'[h] = Append(cmds[h], d) /\ cmds[h] \in Seq(Command) /\ d.pkg # p
      BY <1>3, <1>4, <2>2
    <3>2. Waiting(cmds'[h], p) = Waiting(cmds[h], p)
      BY <1>4, <3>1, WaitingAppend
    <3> QED BY <2>1, <3>2
  <2>3. CASE h # g
    <3>1. cmds'[h] = cmds[h]
      BY <1>3, <2>3
    <3> QED BY <2>1, <3>1
  <2> QED BY <2>2, <2>3
<1>6. cur' \in Proxies /\ (cur' = cur \/ cmds[cur'] = <<>>) /\ left' = left
  BY <1>2, MaybeCreateEmpty DEF Send
<1> QED BY <1>5, <1>6 DEF Lighter

LEMMA BeginTriggerLighter ==
  ASSUME Typed, FreshIdle, NEW t \in Threads, BeginTrigger(t)
  PROVE  Lighter
<1>1. UNCHANGED cmds
  BY DEF BeginTrigger
<1>2. CASE auto /\ listed
  <2>1. PICK g \in Proxies :
          MaybeCreate(g) /\ (cmds[g] = <<>> \/ UNCHANGED left)
    BY <1>2 DEF BeginTrigger
  <2>2. cur' = g
    BY <2>1 DEF MaybeCreate
  <2>3. cur' \in Proxies /\ (cur' = cur \/ cmds[cur'] = <<>>)
    BY <2>1, MaybeCreateEmpty
  <2> QED BY <1>1, <2>1, <2>2, <2>3, SameWaiting DEF Lighter
<1>3. CASE ~(auto /\ listed)
  BY <1>1, <1>3, SameWaiting DEF BeginTrigger, Lighter
<1> QED BY <1>2, <1>3

LEMMA QueueNext ==
  ASSUME NoInstallUi, Typed, Linked, NoInstallAsked, QueueInv, [Next]_vars
  PROVE  QueueInv'
<1>1. Typed' /\ FreshIdle
  BY TypedNext DEF Linked
<1>2. ASSUME Lighter PROVE QueueInv'
  BY <1>1, <1>2, LighterQueue
<1>3. ASSUME UNCHANGED <<cmds, left>>, cur' \in {cur, 0} \/ \E g \in Proxies : MaybeCreate(g)
      PROVE  QueueInv'
  <2>1. \/ cur' = 0
        \/ cur' \in Proxies /\ cmds[cur'] = <<>>
        \/ cur' = cur
    BY <1>1, <1>3, MaybeCreateEmpty
  <2> QED BY <1>2, <1>3, <2>1, SameWaiting DEF Lighter
<1>4. ASSUME NEW g \in Proxies, ProxyStep(g) PROVE QueueInv'
  <2>1. ProxyTake(g) \/ UNCHANGED <<cmds, left, cur>>
    BY <1>4 DEF ProxyStep, ProxyInstall, ProxyAfterInstall, ProxyInfo, threadVars
  <2> QED BY <1>2, <1>3, <2>1, ProxyTakeLighter
<1>5. ASSUME NEW t \in Threads, CallStep(t) PROVE QueueInv'
  <2>1. NoTimeout(t) \/ EndTrigger(t) => UNCHANGED <<cmds, left, cur>>
    BY DEF NoTimeout, EndTrigger, proxyVars
  <2>2. Timeout(t) => UNCHANGED <<cmds, left>> /\ cur' \in {cur, 0}
    BY DEF Timeout
  <2>3. ASSUME NEW p \in Packages, TriggerOne(t, p) PROVE QueueInv'
    BY <1>1, <2>3, TriggerOneQueue
  <2> QED BY <1>1, <1>2, <1>3, <1>5, <2>1, <2>2, <2>3, SendLighter, BeginTriggerLighter DEF CallStep
<1>6. CASE MasterStep
  <2>1. /\ UNCHANGED <<cmds, left>>
        /\ cur' = cur \/ \E g \in Proxies : MaybeCreate(g)
    BY <1>6 DEF MasterStep, MasterStart, MasterStop, MasterReply, MasterInfo, MasterDevices,
                MasterCheckTimeout, proxyVars, threadVars
  <2> QED BY <1>3, <2>1
<1>7. CASE PhoneStep
  <2>1. /\ UNCHANGED <<cmds, left>>
        /\ cur' = cur \/ \E g \in Proxies : MaybeCreate(g)
    BY <1>7 DEF PhoneStep, PhoneInstall, PhonePackageList, PhoneCommand, PhoneAutoInstall,
                PhoneClearApkList, PhoneUpdateApkList, proxyVars
  <2> QED BY <1>3, <2>1
<1>8. ASSUME NEW present, DevicesFound(present) PROVE QueueInv'
  BY <1>3, <1>8 DEF DevicesFound, proxyVars, threadVars
<1>9. CASE UNCHANGED vars
  BY <1>3, <1>9 DEF vars, proxyVars, threadVars
<1> QED BY <1>4, <1>5, <1>6, <1>7, <1>8, <1>9 DEF Next

\* As long as the user asks for no install by hand, a package waits at most
\* twice in the queue of a proxy, once for each thread: Empty() is tested
\* before the loop of TriggerAutoInstall, by both threads and without a lock.
THEOREM QueuedOnce ==
  ASSUME NoInstallUi
  PROVE  Spec => []QueuedOncePerThread
<1>1. Init => NoInstallAsked /\ QueueInv
  <2>1. Init => NoInstallAsked
    BY DEF Init, NoInstallAsked
  <2>2. ASSUME Init, NEW g \in Proxies, NEW p \in Packages
        PROVE  Waiting(cmds[g], p) = 0 /\ ToGo("master", p) = 0 /\ ToGo("phone", p) = 0
    BY <2>2, WaitingEmpty DEF Init, ToGo, Threads
  <2> QED BY <2>1, <2>2 DEF QueueInv
<1>2. QueueInv => QueuedOncePerThread
  <2>1. Cardinality(Threads) = 2
    <3>1. IsFiniteSet({"master"}) /\ Cardinality({"master"}) = 1
      BY FS_Singleton
    <3>2. Threads = {"master"} \cup {"phone"} /\ "phone" \notin {"master"}
      BY DEF Threads
    <3> QED BY <3>1, <3>2, FS_AddElement
  <2> QED BY <2>1 DEF QueueInv, QueuedOncePerThread, Waiting, Indices
<1>3. Spec => [](NoInstallAsked /\ QueueInv)
  <2>1. Typed /\ Linked /\ NoInstallAsked /\ QueueInv /\ [Next]_vars
          => (NoInstallAsked /\ QueueInv)'
    BY AskedNext, QueueNext
  <2> QED BY <1>1, <2>1, TypedAlways, LinkedAlways, PTL DEF Spec
<1> QED BY <1>2, <1>3, PTL

-----------------------------------------------------------------------------
(***************************************************************************)
(* The master thread lives.  It would die of a KeyError outside            *)
(* ProcessIncome: on a package that is not in todo_install_apk_map, or on  *)
(* an entry of last_command_timeout the other thread has popped.           *)
(***************************************************************************)

\* The user only enters and leaves the automatic mode, and the phone's list
\* of packages is read once.
AutoSession == UiCommands \subseteq {"auto_on", "auto_off"} /\ MaxReload <= 1

\* That list is read before anything is installed from it.
OneList ==
  /\ reloads \in {0, 1}
  /\ pc["phone"] = "reload" => reloads = 0 /\ ~loaded
  /\ loaded => reloads = 0
  /\ held = "map" => loaded

\* Every package OneDevice, a timer or a command speaks of is in the list.
Known(c) == c.kind = "install" => c.pkg \in DevTodo

KnownDevice == installed \subseteq DevTodo /\ \A p \in Packages : failed[p] # None => p \in DevTodo
KnownTimer  == timer # None => timer.cmd.pkg \in DevTodo
KnownQueue  ==
  \A i \in DOMAIN queueIn : queueIn[i].type \in {"start", "reply"} => queueIn[i].cmd.pkg \in DevTodo
KnownCmds   == \A g \in Proxies : \A i \in DOMAIN cmds[g] : Known(cmds[g][i])
KnownRun    == \A g \in Proxies : run[g] # None => Known(run[g])
KnownLeft   == \A t \in Threads : left[t] \subseteq DevTodo

KnownPackages == KnownDevice /\ KnownTimer /\ KnownQueue /\ KnownCmds /\ KnownRun /\ KnownLeft

\* Only the master thread runs CheckTimeout, on the timer as it is.
MasterChecks ==
  /\ pc["phone"] \notin {"fire", "send"}
  /\ pc["master"] = "fire" => tmp["master"] = timer

AutoInv == NoInstallAsked /\ OneList /\ KnownPackages /\ MasterChecks /\ MasterSurvives

LEMMA AutoUi ==
  ASSUME AutoSession
  PROVE  /\ NoInstallUi
         /\ \A force \in BOOLEAN : ~PhoneInstall(force)
         /\ ~PhonePackageList
BY DEF AutoSession, NoInstallUi, PhoneInstall, PhonePackageList

-----------------------------------------------------------------------------
(* The list of packages only grows *)

Keeps ==
  /\ UNCHANGED <<held, pmap, loaded, reloads>>
  /\ pc'["phone"] = "reload" => pc["phone"] = "reload"

LEMMA KeepsTodo ==
  ASSUME OneList, Keeps
  PROVE  OneList' /\ DevTodo' = DevTodo
BY DEF Keeps, OneList, DevTodo

LEMMA CallStepKeeps ==
  ASSUME Typed, NEW t \in Threads, CallStep(t)
  PROVE  Keeps
<1>1. pc \in [Threads -> {"idle", "fire", "send", "auto", "trigger", "reload", "dead"}]
  BY DEF Typed, TypeOK
<1>2. ASSUME NEW v, v # "reload", pc' = [pc EXCEPT ![t] = v]
      PROVE  pc'["phone"] = "reload" => pc["phone"] = "reload"
  BY <1>1, <1>2 DEF Threads
<1>3. CASE NoTimeout(t) \/ Timeout(t)
  <2>1. AfterCheck(t) # "reload"
    BY DEF AfterCheck
  <2>2. \/ pc' = [pc EXCEPT ![t] = AfterCheck(t)]
        \/ pc' = [pc EXCEPT ![t] = "idle"] \/ pc' = [pc EXCEPT ![t] = "dead"]
    BY <1>3 DEF NoTimeout, Timeout, Raise
  <2>3. UNCHANGED <<held, pmap, loaded, reloads>>
    BY <1>3 DEF NoTimeout, Timeout, masterVars, deviceVars, envVars
  <2> QED BY <1>2, <2>1, <2>2, <2>3 DEF Keeps
<1>4. CASE Send(t)
  <2>1. \/ pc' = [pc EXCEPT ![t] = "fire"] \/ pc' = [pc EXCEPT ![t] = "auto"]
        \/ pc' = [pc EXCEPT ![t] = "idle"]
    BY <1>4 DEF Send, BeginCommands, Leave
  <2>2. UNCHANGED <<held, pmap, loaded, reloads>>
    BY <1>4 DEF Send, envVars
  <2> QED BY <1>2, <2>1, <2>2 DEF Keeps
<1>5. CASE BeginTrigger(t)
  <2>1. pc' = [pc EXCEPT ![t] = "trigger"] \/ pc' = [pc EXCEPT ![t] = "idle"]
    BY <1>5 DEF BeginTrigger, Leave
  <2>2. UNCHANGED <<held, pmap, loaded, reloads>>
    BY <1>5 DEF BeginTrigger, masterVars, deviceVars, envVars
  <2> QED BY <1>2, <2>1, <2>2 DEF Keeps
<1>6. ASSUME NEW p \in Packages, TriggerOne(t, p)
      PROVE  Keeps
  <2>1. \/ UNCHANGED pc
        \/ pc' = [pc EXCEPT ![t] = "idle"] \/ pc' = [pc EXCEPT ![t] = "dead"]
    BY <1>6 DEF TriggerOne, Raise
  <2>2. UNCHANGED <<held, pmap, loaded, reloads>>
    BY <1>6 DEF TriggerOne, envVars
  <2> QED BY <1>2, <2>1, <2>2 DEF Keeps
<1>7. CASE EndTrigger(t)
  <2>1. pc' = [pc EXCEPT ![t] = "idle"] \/ pc' = [pc EXCEPT ![t] = "dead"]
    BY <1>7 DEF EndTrigger, Leave, Raise
  <2>2. UNCHANGED <<held, pmap, loaded, reloads>>
    BY <1>7 DEF EndTrigger, masterVars, deviceVars, envVars
  <2> QED BY <1>2, <2>1, <2>2 DEF Keeps
<1> QED BY <1>3, <1>4, <1>5, <1>6, <1>7 DEF CallStep

LEMMA TodoGrows ==
  ASSUME AutoSession, Typed, OneList, [Next]_vars
  PROVE  OneList' /\ DevTodo \subseteq DevTodo'
<1>1. ASSUME Keeps PROVE OneList' /\ DevTodo \subseteq DevTodo'
  BY <1>1, KeepsTodo
<1>2. pc \in [Threads -> {"idle", "fire", "send", "auto", "trigger", "reload", "dead"}]
      /\ "master" \in Threads /\ "phone" \in Threads /\ "master" # "phone"
  BY DEF Typed, TypeOK, Threads
<1>3. ASSUME NEW g \in Proxies, ProxyStep(g) PROVE Keeps
  BY <1>3 DEF ProxyStep, ProxyTake, ProxyInstall, ProxyAfterInstall, ProxyInfo,
              deviceVars, threadVars, envVars, Keeps
<1>4. CASE MasterStart \/ MasterStop \/ MasterReply \/ MasterInfo
  BY <1>1, <1>4 DEF MasterStart, MasterStop, MasterReply, MasterInfo, deviceVars, threadVars, envVars, Keeps
<1>5. CASE MasterDevices
  <2>1. UNCHANGED <<pmap, loaded, reloads>>
    BY <1>5 DEF MasterDevices, envVars
  <2>2. pc'["phone"] = pc["phone"]
    BY <1>2, <1>5 DEF MasterDevices, BeginCommands
  <2>3. held' = held \/ (held = "absent" /\ held' \in {"map", "empty"} /\ (held' = "map" => loaded))
    BY <1>5 DEF MasterDevices
  <2>4. OneList'
    BY <2>1, <2>2, <2>3 DEF OneList
  <2>5. DevTodo \subseteq DevTodo'
    BY <2>1, <2>3 DEF DevTodo
  <2> QED BY <2>4, <2>5
<1>6. CASE MasterCheckTimeout
  BY <1>1, <1>2, <1>6 DEF MasterCheckTimeout, BeginCommands, masterVars, deviceVars, envVars, Keeps
<1>7. ASSUME NEW mode \in BOOLEAN, PhoneAutoInstall(mode) PROVE Keeps
  <2>1. UNCHANGED <<held, pmap, loaded, reloads>>
    BY <1>7 DEF PhoneAutoInstall, deviceVars
  <2>2. pc' = pc \/ pc' = [pc EXCEPT !["phone"] = "auto"]
    BY <1>7 DEF PhoneAutoInstall
  <2> QED BY <1>2, <2>1, <2>2 DEF Keeps
<1>8. CASE PhoneClearApkList
  <2>1. reloads > 0 /\ reloads' = reloads - 1 /\ UNCHANGED <<held, loaded>>
    BY <1>8 DEF PhoneClearApkList, masterVars, deviceVars
  <2>2. reloads = 1 /\ reloads' = 0 /\ ~loaded /\ held # "map"
    BY <2>1 DEF OneList
  <2>3. OneList'
    BY <2>1, <2>2 DEF OneList
  <2>4. DevTodo = {}
    BY <2>2 DEF DevTodo
  <2> QED BY <2>3, <2>4
<1>9. CASE PhoneUpdateApkList
  <2>1. /\ pc["phone"] = "reload" /\ loaded' = TRUE /\ pc' = [pc EXCEPT !["phone"] = "idle"]
        /\ UNCHANGED reloads
    BY <1>9 DEF PhoneUpdateApkList, envVars
  <2>2. reloads = 0 /\ held # "map"
    BY <2>1 DEF OneList
  <2>3. pc'["phone"] # "reload"
    BY <1>2, <2>1
  <2> QED BY <2>1, <2>2, <2>3 DEF OneList, DevTodo
<1>10. ASSUME NEW present, DevicesFound(present) PROVE Keeps
  BY <1>10 DEF DevicesFound, deviceVars, threadVars, Keeps
<1>11. ASSUME UNCHANGED vars PROVE Keeps
  BY <1>11 DEF vars, masterVars, deviceVars, threadVars, envVars, Keeps
<1> QED BY <1>1, <1>3, <1>4, <1>5, <1>6, <1>7, <1>8, <1>9, <1>10, <1>11, AutoUi, CallStepKeeps
        DEF Next, MasterStep, PhoneStep

-----------------------------------------------------------------------------
(* Every package is in the list *)

\* The first message of queue_in names a package of the list.
LEMMA KnownHead ==
  ASSUME Typed, KnownQueue, queueIn # <<>>, Head(queueIn).type \in {"start", "reply"}
  PROVE  Head(queueIn).cmd.pkg \in DevTodo
<1>1. 1 \in DOMAIN queueIn /\ Head(queueIn) = queueIn[1]
  BY DEF Typed, TypeOK
<1> QED BY <1>1 DEF KnownQueue

\* A timeout is the master thread's, of the entry that is there.
LEMMA TimeoutIs ==
  ASSUME MasterChecks, NEW t \in Threads, Timeout(t)
  PROVE  t = "master" /\ tmp[t] = timer /\ timer # None
BY DEF MasterChecks, Timeout, Threads

LEMMA KnownDeviceNext ==
  ASSUME Typed, AutoInv, [Next]_vars, DevTodo \subseteq DevTodo'
  PROVE  KnownDevice'
<1> USE DEF AutoInv, KnownPackages
<1>1. failed \in [Packages -> FailedItem \cup {None}]
  BY DEF Typed, TypeOK
<1>2. ASSUME UNCHANGED <<installed, failed>> PROVE KnownDevice'
  BY <1>2 DEF KnownDevice
<1>3. ASSUME NEW p, p \in DevTodo, NEW x, failed' = [failed EXCEPT ![p] = x],
             installed' \in {installed, installed \cup {p}}
      PROVE  KnownDevice'
  BY <1>1, <1>3 DEF KnownDevice
<1>4. ASSUME NEW g \in Proxies, ProxyStep(g) PROVE UNCHANGED <<installed, failed>>
  BY <1>4 DEF ProxyStep, ProxyTake, ProxyInstall, ProxyAfterInstall, ProxyInfo, deviceVars
<1>5. ASSUME NEW t \in Threads, CallStep(t) PROVE KnownDevice'
  <2>1. CASE Timeout(t)
    <3> DEFINE p == tmp[t].cmd.pkg
    <3>1. tmp[t] = timer /\ timer # None
      BY <2>1, TimeoutIs
    <3>2. p \in DevTodo
      BY <3>1 DEF KnownTimer
    <3>3. failed' = [failed EXCEPT ![p] = Failure(@, "timeout", "timeout")] /\ UNCHANGED installed
      BY <2>1, <3>1 DEF Timeout
    <3> HIDE DEF p
    <3> QED BY <1>3, <3>2, <3>3
  <2>2. ASSUME NEW p \in Packages, TriggerOne(t, p)
        PROVE  KnownDevice'
    <3>1. \/ UNCHANGED failed
          \/ failed[p] # None /\ failed' = [failed EXCEPT ![p] = TryAgain(@)]
      BY <2>2 DEF TriggerOne
    <3>2. UNCHANGED installed
      BY <2>2 DEF TriggerOne
    <3> QED BY <1>2, <1>3, <3>1, <3>2 DEF KnownDevice
  <2>3. NoTimeout(t) \/ Send(t) \/ BeginTrigger(t) \/ EndTrigger(t) => UNCHANGED <<installed, failed>>
    BY DEF NoTimeout, Send, BeginTrigger, EndTrigger, deviceVars
  <2> QED BY <1>2, <1>5, <2>1, <2>2, <2>3 DEF CallStep
<1>6. CASE MasterStep
  <2>1. CASE MasterReply
    <3> DEFINE p == Head(queueIn).cmd.pkg
    <3>1. p \in DevTodo
      BY <2>1, KnownHead DEF MasterReply, Pop
    <3>2. \/ UNCHANGED <<installed, failed>>
          \/ /\ \E x : failed' = [failed EXCEPT ![p] = x]
             /\ installed' \in {installed, installed \cup {p}}
      BY <2>1 DEF MasterReply
    <3> HIDE DEF p
    <3> QED BY <1>2, <1>3, <3>1, <3>2
  <2>2. MasterStart \/ MasterStop \/ MasterInfo \/ MasterDevices \/ MasterCheckTimeout
          => UNCHANGED <<installed, failed>>
    BY DEF MasterStart, MasterStop, MasterInfo, MasterDevices, MasterCheckTimeout, deviceVars
  <2> QED BY <1>2, <1>6, <2>1, <2>2 DEF MasterStep
<1>7. PhoneStep => UNCHANGED <<installed, failed>>
  BY DEF PhoneStep, PhoneInstall, PhonePackageList, PhoneCommand, PhoneAutoInstall,
         PhoneClearApkList, PhoneUpdateApkList, deviceVars
<1>8. ASSUME NEW present, DevicesFound(present) PROVE UNCHANGED <<installed, failed>>
  BY <1>8 DEF DevicesFound, deviceVars
<1>9. UNCHANGED vars => UNCHANGED <<installed, failed>>
  BY DEF vars, deviceVars
<1> QED BY <1>2, <1>4, <1>5, <1>6, <1>7, <1>8, <1>9 DEF Next

LEMMA KnownTimerNext ==
  ASSUME Typed, AutoInv, [Next]_vars, DevTodo \subseteq DevTodo'
  PROVE  KnownTimer'
<1> USE DEF AutoInv, KnownPackages
<1>1. timer' \in {timer, None} => KnownTimer'
  BY DEF KnownTimer
<1>2. MasterStart => KnownTimer'
  <2> SUFFICES ASSUME MasterStart PROVE KnownTimer'
    OBVIOUS
  <2>1. Head(queueIn).cmd.pkg \in DevTodo
    BY KnownHead DEF MasterStart, Pop
  <2>2. timer' = [from |-> Head(queueIn).from, cmd |-> Head(queueIn).cmd]
    BY DEF MasterStart
  <2> QED BY <2>1, <2>2 DEF KnownTimer
<1>3. ASSUME NEW g \in Proxies, ProxyStep(g) PROVE timer' = timer
  BY <1>3 DEF ProxyStep, ProxyTake, ProxyInstall, ProxyAfterInstall, ProxyInfo
<1>4. ASSUME NEW t \in Threads, Timeout(t) PROVE timer' \in {timer, None}
  BY <1>4 DEF Timeout
<1>5. MasterStop => timer' = None
  BY DEF MasterStop
<1> QED BY <1>1, <1>2, <1>3, <1>4, <1>5, StepIs DEF Calm

\* queue_in after one more message.
LEMMA KnownAdded ==
  ASSUME TypeOK, KnownQueue, DevTodo \subseteq DevTodo', NEW m \in Message,
         m.type \in {"start", "reply"} => m.cmd.pkg \in DevTodo,
         queueIn' = Append(queueIn, m)
  PROVE  KnownQueue'
<1>1. \A i \in DOMAIN queueIn' : (i \in DOMAIN queueIn /\ queueIn'[i] = queueIn[i]) \/ queueIn'[i] = m
  BY AddedIs
<1> QED BY <1>1 DEF KnownQueue

LEMMA KnownQueueNext ==
  ASSUME Typed, AutoInv, [Next]_vars, DevTodo \subseteq DevTodo'
  PROVE  KnownQueue'
<1> USE DEF AutoInv, KnownPackages
<1>1. ASSUME UNCHANGED queueIn PROVE KnownQueue'
  BY <1>1 DEF KnownQueue
<1>2. ASSUME Popped PROVE KnownQueue'
  <2>1. \A i \in DOMAIN queueIn' : i + 1 \in DOMAIN queueIn /\ queueIn'[i] = queueIn[i + 1]
    BY <1>2, PoppedIs DEF Typed
  <2> QED BY <2>1 DEF KnownQueue
<1>3. ASSUME NEW g \in Proxies, ProxyTake(g) PROVE KnownQueue'
  <2> DEFINE c == Head(cmds[g])
             m == [type |-> "start", from |-> g, cmd |-> c]
  <2>1. cmds[g] \in Seq(Command) /\ cmds[g] # <<>> /\ c \in Command /\ c = cmds[g][1] /\ 1 \in DOMAIN cmds[g]
    BY <1>3, HeadTail DEF ProxyTake, Typed, TypeOK
  <2>2. CASE c.kind = "install"
    <3>1. m \in Message /\ m.cmd.pkg \in DevTodo
      BY <2>1, <2>2, InstallTyped, MessageTyped DEF KnownCmds, Known
    <3>2. queueIn' = Append(queueIn, m)
      BY <1>3, <2>2 DEF ProxyTake
    <3> HIDE DEF m
    <3> QED BY <3>1, <3>2, KnownAdded DEF Typed
  <2>3. CASE c.kind # "install"
    BY <1>1, <1>3, <2>3 DEF ProxyTake
  <2> QED BY <2>2, <2>3
<1>4. ASSUME NEW g \in Proxies, ProxyInstall(g) PROVE KnownQueue'
  <2> DEFINE Reply(r) == [type |-> "reply", from |-> g, cmd |-> run[g], res |-> r]
             Replies(o) == [i \in 1..Len(o) |-> Reply(o[i])]
  <2>1. PICK out \in AdbOutcomes : queueIn' = queueIn \o Replies(out)
    BY <1>4 DEF ProxyInstall
  <2>2. Len(out) \in Nat /\ queueIn \in Seq(Message)
    BY ConstantsAssumption DEF Typed, TypeOK
  <2>3. run[g].pkg \in DevTodo
    BY <1>4 DEF ProxyInstall, KnownRun, Known
  <2>4. ASSUME NEW i \in DOMAIN queueIn', i \in DOMAIN queueIn
        PROVE  queueIn'[i] = queueIn[i]
    BY <2>1, <2>2, <2>4
  <2>5. ASSUME NEW i \in DOMAIN queueIn', i \notin DOMAIN queueIn
        PROVE  queueIn'[i].cmd = run[g]
    <3>1. i - Len(queueIn) \in 1..Len(out) /\ queueIn'[i] = Reply(out[i - Len(queueIn)])
      BY <2>1, <2>2, <2>5
    <3> QED BY <3>1
  <2> QED BY <2>3, <2>4, <2>5 DEF KnownQueue
<1>5. ASSUME NEW g \in Proxies, ProxyAfterInstall(g) PROVE KnownQueue'
  <2> DEFINE m == [type |-> "stop", from |-> g, cmd |-> run[g]]
  <2>1. m \in Message /\ m.type \notin {"start", "reply"}
    BY <1>5, InstallTyped, MessageTyped DEF ProxyAfterInstall, RanInstall, Typed, TypeOK
  <2>2. queueIn' = Append(queueIn, m)
    BY <1>5 DEF ProxyAfterInstall
  <2> HIDE DEF m
  <2> QED BY <2>1, <2>2, KnownAdded DEF Typed
<1>6. ASSUME NEW g \in Proxies, ProxyInfo(g) PROVE KnownQueue'
  <2>1. \/ queueIn' = queueIn
        \/ \E m \in Message : m.type \notin {"start", "reply"} /\ queueIn' = Append(queueIn, m)
    BY <1>6, MessageTyped DEF ProxyInfo
  <2> QED BY <1>1, <2>1, KnownAdded DEF Typed
<1>7. ASSUME NEW t \in Threads, Send(t) PROVE UNCHANGED queueIn
  BY <1>7, AskedSend DEF Send
<1>8. ASSUME NEW t \in Threads, NEW p \in Packages, TriggerOne(t, p) PROVE KnownQueue'
  <2> DEFINE item == failed[p]
             op == IF item # None /\ InnerCode(item) = 1 THEN "delete" ELSE "none"
             c  == [kind |-> "install", pkg |-> p, force |-> FALSE, op |-> op, sub |-> 0]
  <2>1. c \in InstallCommand /\ c.pkg = p /\ subId + 1 \in Nat /\ cur \in 0..MaxProxy
    BY DEF InstallCommand, Typed, TypeOK
  <2>2. p \in DevTodo
    BY <1>8 DEF TriggerOne, KnownLeft
  <2>3. ProcessInstallApk(cur, c, subId + 1) \/ UNCHANGED queueIn
    BY <1>8 DEF TriggerOne
  <2> HIDE DEF c
  <2>4. \/ UNCHANGED queueIn
        \/ \E m \in Message : m.cmd.pkg = p /\ queueIn' = Append(queueIn, m)
    BY <2>1, <2>3, InstallEffect DEF Typed
  <2> QED BY <1>1, <2>2, <2>4, KnownAdded DEF Typed
<1>9. ASSUME NEW t \in Threads, CallStep(t) PROVE KnownQueue'
  <2>1. NoTimeout(t) \/ Timeout(t) \/ BeginTrigger(t) \/ EndTrigger(t) => UNCHANGED queueIn
    BY DEF NoTimeout, Timeout, BeginTrigger, EndTrigger, masterVars
  <2> QED BY <1>1, <1>7, <1>8, <1>9, <2>1 DEF CallStep
<1>10. CASE MasterStep
  <2>1. ASSUME NEW type, Pop(type) PROVE Popped
    BY <2>1 DEF Pop, Popped
  <2>2. Popped \/ UNCHANGED queueIn
    BY <1>10, <2>1 DEF MasterStep, MasterStart, MasterStop, MasterReply, MasterInfo, MasterDevices,
                       MasterCheckTimeout, masterVars
  <2> QED BY <1>1, <1>2, <2>2
<1>11. PhoneStep => UNCHANGED queueIn
  BY DEF PhoneStep, PhoneInstall, PhonePackageList, PhoneCommand, PhoneAutoInstall,
         PhoneClearApkList, PhoneUpdateApkList, masterVars
<1>12. ASSUME NEW present \in BOOLEAN, DevicesFound(present) PROVE KnownQueue'
  <2> DEFINE m == [type |-> "devices", present |-> present]
  <2>1. m \in Message /\ m.type \notin {"start", "reply"}
    BY MessageTyped
  <2>2. queueIn' = Append(queueIn, m)
    BY <1>12 DEF DevicesFound
  <2> HIDE DEF m
  <2> QED BY <2>1, <2>2, KnownAdded DEF Typed
<1>13. UNCHANGED vars => UNCHANGED queueIn
  BY DEF vars, masterVars
<1>14. ASSUME NEW g \in Proxies, ProxyStep(g) PROVE KnownQueue'
  BY <1>3, <1>4, <1>5, <1>6, <1>14 DEF ProxyStep
<1> QED BY <1>1, <1>9, <1>10, <1>11, <1>12, <1>13, <1>14 DEF Next

\* A command of the current proxy, a command in hand and a package to come
\* to: they come from TriggerAutoInstall, or install nothing.
LEMMA KnownCmdsNext ==
  ASSUME Typed, AutoInv, [Next]_vars, DevTodo \subseteq DevTodo'
  PROVE  KnownCmds'
<1> USE DEF AutoInv, KnownPackages
<1>1. ASSUME UNCHANGED cmds PROVE KnownCmds'
  BY <1>1 DEF KnownCmds, Known
<1>2. cmds \in [Proxies -> Seq(Command)]
  BY DEF Typed, TypeOK
<1>3. ASSUME NEW g \in Proxies, NEW d \in Command, Known(d), cmds' = [cmds EXCEPT ![g] = Append(@, d)]
      PROVE  KnownCmds'
  <2> SUFFICES ASSUME NEW h \in Proxies, NEW i \in DOMAIN cmds'[h], cmds'[h][i].kind = "install"
               PROVE  cmds'[h][i].pkg \in DevTodo
    BY DEF KnownCmds, Known
  <2>1. CASE h # g
    <3>1. cmds'[h] = cmds[h]
      BY <1>2, <1>3, <2>1
    <3> QED BY <3>1 DEF KnownCmds, Known
  <2>2. CASE h = g
    <3>1. cmds'[h] = Append(cmds[h], d) /\ cmds[h] \in Seq(Command)
      BY <1>2, <1>3, <2>2
    <3>2. (i \in DOMAIN cmds[h] /\ cmds'[h][i] = cmds[h][i]) \/ cmds'[h][i] = d
      BY <3>1
    <3> QED BY <1>3, <3>2 DEF KnownCmds, Known
  <2> QED BY <2>1, <2>2
<1>4. ASSUME NEW g \in Proxies, ProxyTake(g) PROVE KnownCmds'
  <2>1. cmds' = [cmds EXCEPT ![g] = Tail(@)] /\ cmds[g] # <<>>
    BY <1>4 DEF ProxyTake
  <2> SUFFICES ASSUME NEW h \in Proxies, NEW i \in DOMAIN cmds'[h], cmds'[h][i].kind = "install"
               PROVE  cmds'[h][i].pkg \in DevTodo
    BY DEF KnownCmds, Known
  <2>2. CASE h # g
    <3>1. cmds'[h] = cmds[h]
      BY <1>2, <2>1, <2>2
    <3> QED BY <3>1 DEF KnownCmds, Known
  <2>3. CASE h = g
    <3>1. cmds'[h] = Tail(cmds[h]) /\ cmds[h] \in Seq(Command) /\ cmds[h] # <<>>
      BY <1>2, <2>1, <2>3
    <3>2. i + 1 \in DOMAIN cmds[h] /\ cmds'[h][i] = cmds[h][i + 1]
      BY <3>1
    <3> QED BY <3>2 DEF KnownCmds, Known
  <2> QED BY <2>2, <2>3
<1>5. ASSUME NEW g \in Proxies, ProxyStep(g) PROVE KnownCmds'
  BY <1>1, <1>4, <1>5 DEF ProxyStep, ProxyInstall, ProxyAfterInstall, ProxyInfo
<1>6. ASSUME NEW t \in Threads, Send(t) PROVE KnownCmds'
  <2> DEFINE c == Head(pending[t])
             d == [c EXCEPT !.sub = subId + 1]
  <2>1. c.kind # "install" /\ c \in Command
    BY <1>6, AskedSend, HeadTail DEF Send, Typed, TypeOK, SendHasCommand
  <2>2. d \in Command /\ d.kind # "install"
    <3>1. c \in InfoCommand /\ subId + 1 \in Nat
      BY <2>1 DEF Command, InstallCommand, Typed, TypeOK
    <3>2. d = [kind |-> c.kind, pkg |-> c.pkg, force |-> c.force, op |-> c.op, sub |-> subId + 1]
      BY <3>1 DEF InfoCommand
    <3> QED BY <2>1, <3>1, <3>2 DEF InfoCommand, Command
  <2>3. PICK g \in Proxies : SendCommand(g, c, subId)
    BY <1>6, <2>1 DEF Send
  <2>4. g # 0
    BY ConstantsAssumption DEF Proxies
  <2>5. cmds' = [cmds EXCEPT ![g] = Append(@, d)]
    BY <2>3, <2>4 DEF SendCommand
  <2> HIDE DEF d
  <2> QED BY <1>3, <2>2, <2>5 DEF Known
<1>7. ASSUME NEW t \in Threads, NEW p \in Packages, TriggerOne(t, p) PROVE KnownCmds'
  <2> DEFINE item == failed[p]
             op == IF item # None /\ InnerCode(item) = 1 THEN "delete" ELSE "none"
             c  == [kind |-> "install", pkg |-> p, force |-> FALSE, op |-> op, sub |-> 0]
  <2>1. c \in InstallCommand /\ c.pkg = p /\ subId + 1 \in Nat /\ cur \in 0..MaxProxy
    BY DEF InstallCommand, Typed, TypeOK
  <2>2. p \in DevTodo
    BY <1>7 DEF TriggerOne, KnownLeft
  <2>3. ProcessInstallApk(cur, c, subId + 1) \/ UNCHANGED cmds
    BY <1>7 DEF TriggerOne
  <2> HIDE DEF c
  <2>4. \/ UNCHANGED cmds
        \/ /\ cur \in Proxies
           /\ \E d \in InstallCommand : d.pkg = p /\ cmds' = [cmds EXCEPT ![cur] = Append(@, d)]
    BY <2>1, <2>3, InstallEffect DEF Typed
  <2>5. \A d \in InstallCommand : d \in Command /\ (d.pkg = p => Known(d))
    BY <2>2 DEF Command, Known
  <2> QED BY <1>1, <1>3, <2>4, <2>5
<1>8. ASSUME NEW t \in Threads, CallStep(t) PROVE KnownCmds'
  <2>1. NoTimeout(t) \/ Timeout(t) \/ BeginTrigger(t) \/ EndTrigger(t) => UNCHANGED cmds
    BY DEF NoTimeout, Timeout, BeginTrigger, EndTrigger, proxyVars
  <2> QED BY <1>1, <1>6, <1>7, <1>8, <2>1 DEF CallStep
<1>9. MasterStep \/ PhoneStep => UNCHANGED cmds
  BY DEF MasterStep, MasterStart, MasterStop, MasterReply, MasterInfo, MasterDevices,
         MasterCheckTimeout, PhoneStep, PhoneInstall, PhonePackageList, PhoneCommand,
         PhoneAutoInstall, PhoneClearApkList, PhoneUpdateApkList, proxyVars
<1>10. ASSUME NEW present, DevicesFound(present) PROVE UNCHANGED cmds
  BY <1>10 DEF DevicesFound, proxyVars
<1>11. UNCHANGED vars => UNCHANGED cmds
  BY DEF vars, proxyVars
<1> QED BY <1>1, <1>5, <1>8, <1>9, <1>10, <1>11 DEF Next

LEMMA KnownRunNext ==
  ASSUME Typed, AutoInv, [Next]_vars, DevTodo \subseteq DevTodo'
  PROVE  KnownRun'
<1> USE DEF AutoInv, KnownPackages
<1>1. ASSUME UNCHANGED run PROVE KnownRun'
  BY <1>1 DEF KnownRun, Known
<1>2. run \in [Proxies -> Command \cup {None}]
  BY DEF Typed, TypeOK
<1>3. ASSUME NEW g \in Proxies, NEW c, c = None \/ Known(c), run' = [run EXCEPT ![g] = c]
      PROVE  KnownRun'
  BY <1>2, <1>3 DEF KnownRun, Known
<1>4. ASSUME NEW g \in Proxies, ProxyTake(g) PROVE KnownRun'
  <2> DEFINE c == Head(cmds[g])
  <2>1. c = cmds[g][1] /\ 1 \in DOMAIN cmds[g]
    BY <1>4 DEF ProxyTake, Typed, TypeOK
  <2>2. Known(c)
    BY <2>1 DEF KnownCmds
  <2>3. run' = [run EXCEPT ![g] = c]
    BY <1>4 DEF ProxyTake
  <2> HIDE DEF c
  <2> QED BY <1>3, <2>2, <2>3
<1>5. ASSUME NEW g \in Proxies, ProxyAfterInstall(g) \/ ProxyInfo(g) PROVE KnownRun'
  BY <1>3, <1>5 DEF ProxyAfterInstall, ProxyInfo
<1>6. ASSUME NEW g \in Proxies, ProxyInstall(g) PROVE KnownRun'
  BY <1>1, <1>6 DEF ProxyInstall
<1>7. ASSUME NEW t \in Threads, Timeout(t) PROVE UNCHANGED run
  BY <1>7 DEF Timeout
<1>8. MasterStart \/ MasterStop => UNCHANGED run
  BY DEF MasterStart, MasterStop, proxyVars
<1> QED BY <1>1, <1>4, <1>5, <1>6, <1>7, <1>8, StepIs DEF Calm, ProxyStep

LEMMA KnownLeftNext ==
  ASSUME Typed, AutoInv, [Next]_vars, DevTodo \subseteq DevTodo'
  PROVE  KnownLeft'
<1> USE DEF AutoInv, KnownPackages
<1>1. left \in [Threads -> SUBSET Packages] /\ \A t \in Threads : left[t] \subseteq DevTodo
  BY DEF Typed, TypeOK, KnownLeft
<1>2. ASSUME UNCHANGED left PROVE KnownLeft'
  BY <1>1, <1>2 DEF KnownLeft
<1>3. ASSUME NEW t \in Threads, NEW S, S \subseteq DevTodo, left' = [left EXCEPT ![t] = S]
      PROVE  KnownLeft'
  BY <1>1, <1>3 DEF KnownLeft
<1>4. ASSUME NEW t \in Threads, CallStep(t) PROVE KnownLeft'
  <2>1. BeginTrigger(t) => KnownLeft'
    BY <1>2, <1>3 DEF BeginTrigger
  <2>2. ASSUME NEW p \in Packages, TriggerOne(t, p) PROVE KnownLeft'
    <3>1. left' = [left EXCEPT ![t] = left[t] \ {p}] /\ left[t] \ {p} \subseteq DevTodo
      BY <1>1, <2>2 DEF TriggerOne
    <3> QED BY <1>3, <3>1
  <2>3. NoTimeout(t) \/ Timeout(t) \/ Send(t) \/ EndTrigger(t) => UNCHANGED left
    BY DEF NoTimeout, Timeout, Send, EndTrigger
  <2> QED BY <1>2, <1>4, <2>1, <2>2, <2>3 DEF CallStep
<1>5. MasterStep \/ PhoneStep => UNCHANGED left
  BY DEF MasterStep, MasterStart, MasterStop, MasterReply, MasterInfo, MasterDevices,
         MasterCheckTimeout, PhoneStep, PhoneInstall, PhonePackageList, PhoneCommand,
         PhoneAutoInstall, PhoneClearApkList, PhoneUpdateApkList, threadVars
<1>6. ASSUME NEW g \in Proxies, ProxyStep(g) PROVE UNCHANGED left
  BY <1>6 DEF ProxyStep, ProxyTake, ProxyInstall, ProxyAfterInstall, ProxyInfo, threadVars
<1>7. ASSUME NEW present, DevicesFound(present) PROVE UNCHANGED left
  BY <1>7 DEF DevicesFound, threadVars
<1>8. UNCHANGED vars => UNCHANGED left
  BY DEF vars, threadVars
<1> QED BY <1>2, <1>4, <1>5, <1>6, <1>7, <1>8 DEF Next

-----------------------------------------------------------------------------
(* The two threads *)

LEMMA MasterChecksNext ==
  ASSUME AutoSession, Typed, MasterChecks, [Next]_vars
  PROVE  MasterChecks'
<1>1. /\ pc \in [Threads -> {"idle", "fire", "send", "auto", "trigger", "reload", "dead"}]
      /\ tmp \in [Threads -> TimerEntry \cup {None}]
      /\ Threads = {"master", "phone"}
  BY DEF Typed, TypeOK, Threads
<1>2. ASSUME UNCHANGED <<pc, tmp, timer>> PROVE MasterChecks'
  BY <1>2 DEF MasterChecks
<1>3. ASSUME NEW v, v \notin {"fire", "send"}, pc' = [pc EXCEPT !["phone"] = v], UNCHANGED <<tmp, timer>>
      PROVE  MasterChecks'
  BY <1>1, <1>3 DEF MasterChecks
<1>4. ASSUME NEW v, v # "fire", pc' = [pc EXCEPT !["master"] = v]
      PROVE  MasterChecks'
  BY <1>1, <1>4 DEF MasterChecks
<1>5. ASSUME NEW seq, BeginCommands("master", seq), UNCHANGED timer
      PROVE  MasterChecks'
  BY <1>1, <1>5 DEF BeginCommands, MasterChecks
<1>6. ASSUME NEW g \in Proxies, ProxyStep(g) PROVE MasterChecks'
  BY <1>2, <1>6 DEF ProxyStep, ProxyTake, ProxyInstall, ProxyAfterInstall, ProxyInfo, threadVars
<1>7. ASSUME CallStep("master") PROVE MasterChecks'
  <2>1. CASE NoTimeout("master") \/ Timeout("master")
    <3>1. \E v : v # "fire" /\ pc' = [pc EXCEPT !["master"] = v]
      BY <2>1 DEF NoTimeout, Timeout, AfterCheck, Raise
    <3> QED BY <1>4, <3>1
  <2>2. CASE Send("master")
    <3>1. UNCHANGED timer /\ (BeginCommands("master", Tail(pending["master"]))
                              \/ pc' = [pc EXCEPT !["master"] = "auto"])
      BY <2>2 DEF Send
    <3> QED BY <1>4, <1>5, <3>1
  <2>3. CASE BeginTrigger("master") \/ EndTrigger("master")
    <3>1. \E v : v # "fire" /\ pc' = [pc EXCEPT !["master"] = v]
      BY <2>3 DEF BeginTrigger, EndTrigger, Leave, Raise
    <3> QED BY <1>4, <3>1
  <2>4. ASSUME NEW p \in Packages, TriggerOne("master", p) PROVE MasterChecks'
    <3>1. UNCHANGED <<pc, tmp, timer>> \/ \E v : v # "fire" /\ pc' = [pc EXCEPT !["master"] = v]
      BY <2>4 DEF TriggerOne, Raise
    <3> QED BY <1>2, <1>4, <3>1
  <2> QED BY <1>7, <2>1, <2>2, <2>3, <2>4 DEF CallStep
<1>8. ASSUME CallStep("phone") PROVE MasterChecks'
  <2>1. ~NoTimeout("phone") /\ ~Timeout("phone") /\ ~Send("phone")
    BY DEF NoTimeout, Timeout, Send, MasterChecks
  <2>2. CASE BeginTrigger("phone") \/ EndTrigger("phone")
    <3>1. /\ UNCHANGED <<tmp, timer>>
          /\ \E v : v \notin {"fire", "send"} /\ pc' = [pc EXCEPT !["phone"] = v]
      BY <2>2 DEF BeginTrigger, EndTrigger, Leave, Raise, masterVars
    <3> QED BY <1>3, <3>1
  <2>3. ASSUME NEW p \in Packages, TriggerOne("phone", p) PROVE MasterChecks'
    <3>1. /\ UNCHANGED <<tmp, timer>>
          /\ UNCHANGED pc \/ \E v : v \notin {"fire", "send"} /\ pc' = [pc EXCEPT !["phone"] = v]
      BY <2>3 DEF TriggerOne, Raise
    <3> QED BY <1>2, <1>3, <3>1
  <2> QED BY <1>8, <2>1, <2>2, <2>3 DEF CallStep
<1>9. CASE MasterStep
  <2>1. MasterStart \/ MasterStop \/ MasterReply \/ MasterInfo => MasterChecks'
    <3>1. MasterStart \/ MasterStop \/ MasterReply \/ MasterInfo
            => UNCHANGED <<pc, tmp>> /\ pc["master"] = "idle"
      BY DEF MasterStart, MasterStop, MasterReply, MasterInfo, Pop, MasterIdle, threadVars
    <3> QED BY <3>1 DEF MasterChecks
  <2>2. MasterDevices => MasterChecks'
    <3>1. MasterDevices => UNCHANGED timer /\ ((\E seq : BeginCommands("master", seq))
                                              \/ pc' = [pc EXCEPT !["master"] = "auto"])
      BY DEF MasterDevices
    <3> QED BY <1>4, <1>5, <3>1
  <2>3. MasterCheckTimeout => MasterChecks'
    BY <1>5 DEF MasterCheckTimeout, masterVars
  <2> QED BY <1>9, <2>1, <2>2, <2>3 DEF MasterStep
<1>10. CASE PhoneStep
  <2>1. ASSUME NEW mode, PhoneAutoInstall(mode) PROVE MasterChecks'
    <3>1. UNCHANGED <<tmp, timer>> /\ (UNCHANGED pc \/ pc' = [pc EXCEPT !["phone"] = "auto"])
      BY <2>1 DEF PhoneAutoInstall
    <3> QED BY <1>2, <1>3, <3>1
  <2>2. PhoneClearApkList \/ PhoneUpdateApkList => MasterChecks'
    <3>1. PhoneClearApkList \/ PhoneUpdateApkList
            => UNCHANGED <<tmp, timer>> /\ (pc' = [pc EXCEPT !["phone"] = "reload"]
                                            \/ pc' = [pc EXCEPT !["phone"] = "idle"])
      BY DEF PhoneClearApkList, PhoneUpdateApkList, masterVars
    <3> QED BY <1>3, <3>1
  <2> QED BY <1>10, <2>1, <2>2, AutoUi DEF PhoneStep
<1>11. ASSUME NEW present, DevicesFound(present) PROVE MasterChecks'
  BY <1>2, <1>11 DEF DevicesFound, threadVars
<1>12. UNCHANGED vars => MasterChecks'
  BY <1>2 DEF vars, masterVars, threadVars
<1> QED BY <1>1, <1>6, <1>7, <1>8, <1>9, <1>10, <1>11, <1>12 DEF Next

\* Nothing raises on the master thread.
LEMMA MasterSurvivesNext ==
  ASSUME Typed, AutoInv, KnownDevice', [Next]_vars
  PROVE  MasterSurvives'
<1> USE DEF AutoInv, KnownPackages
<1>1. /\ pc \in [Threads -> {"idle", "fire", "send", "auto", "trigger", "reload", "dead"}]
      /\ Threads = {"master", "phone"} /\ pc["master"] # "dead"
  BY DEF Typed, TypeOK, Threads, MasterSurvives
<1>2. ASSUME NEW t \in Threads, NEW v, v # "dead" \/ t = "phone", pc' = [pc EXCEPT ![t] = v]
      PROVE  MasterSurvives'
  BY <1>1, <1>2 DEF MasterSurvives
<1>3. ASSUME UNCHANGED pc PROVE MasterSurvives'
  BY <1>1, <1>3 DEF MasterSurvives
<1>4. ASSUME NEW t \in Threads, Timeout(t) PROVE MasterSurvives'
  <2>1. t = "master" /\ timer # None
    BY <1>4, TimeoutIs
  <2>2. UNCHANGED <<installed, held, pmap>>
    BY <1>4 DEF Timeout
  <2>3. DigestOK(installed, failed')
    BY <2>2 DEF DigestOK, KnownDevice, DevTodo
  <2>4. pc' = [pc EXCEPT ![t] = AfterCheck(t)] /\ AfterCheck(t) # "dead"
    BY <1>4, <2>1, <2>3 DEF Timeout, AfterCheck
  <2> QED BY <1>2, <2>4
<1>5. ASSUME NEW t \in Threads, NEW p \in Packages, TriggerOne(t, p) PROVE MasterSurvives'
  <2>1. p \in DevTodo
    BY <1>5 DEF TriggerOne, KnownLeft
  <2>2. UNCHANGED pc
    BY <1>5, <2>1 DEF TriggerOne
  <2> QED BY <1>3, <2>2
<1>6. ASSUME NEW t \in Threads, EndTrigger(t) PROVE MasterSurvives'
  <2>1. DigestOK(installed, failed)
    BY DEF DigestOK, KnownDevice
  <2>2. pc' = [pc EXCEPT ![t] = "idle"]
    BY <1>6, <2>1 DEF EndTrigger, Leave
  <2> QED BY <1>2, <2>2
<1>7. ASSUME NEW t \in Threads, CallStep(t) PROVE MasterSurvives'
  <2>1. ASSUME NoTimeout(t) \/ Send(t) \/ BeginTrigger(t)
        PROVE  \E v : v # "dead" /\ pc' = [pc EXCEPT ![t] = v]
    BY <2>1 DEF NoTimeout, Send, BeginTrigger, BeginCommands, Leave, AfterCheck
  <2> QED BY <1>2, <1>4, <1>5, <1>6, <1>7, <2>1 DEF CallStep
<1>8. MasterStep => UNCHANGED pc \/ \E v : v # "dead" /\ pc' = [pc EXCEPT !["master"] = v]
  BY DEF MasterStep, MasterStart, MasterStop, MasterReply, MasterInfo, MasterDevices,
         MasterCheckTimeout, BeginCommands, threadVars
<1>9. PhoneStep => UNCHANGED pc \/ \E v : pc' = [pc EXCEPT !["phone"] = v]
  BY DEF PhoneStep, PhoneInstall, PhonePackageList, PhoneCommand, PhoneAutoInstall,
         PhoneClearApkList, PhoneUpdateApkList, BeginCommands
<1>10. ASSUME NEW g \in Proxies, ProxyStep(g) PROVE UNCHANGED pc
  BY <1>10 DEF ProxyStep, ProxyTake, ProxyInstall, ProxyAfterInstall, ProxyInfo, threadVars
<1>11. ASSUME NEW present, DevicesFound(present) PROVE UNCHANGED pc
  BY <1>11 DEF DevicesFound, threadVars
<1>12. UNCHANGED vars => UNCHANGED pc
  BY DEF vars, threadVars
<1> QED BY <1>1, <1>2, <1>3, <1>7, <1>8, <1>9, <1>10, <1>11, <1>12 DEF Next

-----------------------------------------------------------------------------
LEMMA AutoInit ==
  ASSUME AutoSession, Init
  PROVE  AutoInv
<1>1. OneList
  BY ConstantsAssumption DEF AutoSession, Init, OneList, Threads
<1>2. KnownPackages
  BY DEF Init, KnownPackages, KnownDevice, KnownTimer, KnownQueue, KnownCmds, KnownRun, KnownLeft
<1>3. NoInstallAsked /\ MasterChecks /\ MasterSurvives
  BY DEF Init, NoInstallAsked, MasterChecks, MasterSurvives, Threads
<1> QED BY <1>1, <1>2, <1>3 DEF AutoInv

LEMMA AutoNext ==
  ASSUME AutoSession, Typed, AutoInv, [Next]_vars
  PROVE  AutoInv'
<1>1. OneList' /\ DevTodo \subseteq DevTodo'
  BY TodoGrows DEF AutoInv
<1>2. KnownPackages'
  BY <1>1, KnownDeviceNext, KnownTimerNext, KnownQueueNext, KnownCmdsNext, KnownRunNext,
     KnownLeftNext DEF KnownPackages
<1>3. NoInstallAsked' /\ MasterChecks' /\ MasterSurvives'
  BY <1>2, AutoUi, AskedNext, MasterChecksNext, MasterSurvivesNext DEF AutoInv, KnownPackages
<1> QED BY <1>1, <1>2, <1>3 DEF AutoInv

\* In a session with one list of packages whose only commands are those of
\* the automatic mode, no KeyError ends Master.Work, whatever adb reports,
\* whenever its installs time out and however the two threads interleave.
THEOREM MasterLives ==
  ASSUME AutoSession
  PROVE  Spec => []MasterSurvives
<1>1. Init => AutoInv
  BY AutoInit
<1>2. Typed /\ AutoInv /\ [Next]_vars => AutoInv'
  BY AutoNext
<1>3. AutoInv => MasterSurvives
  BY DEF AutoInv
<1> QED BY <1>1, <1>2, <1>3, TypedAlways, PTL DEF Spec
=============================================================================
