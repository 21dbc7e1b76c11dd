-------------------------- MODULE PythonHostProofs --------------------------
(***************************************************************************)
(* The safety of ChannelHost's tables and of the pending total auto        *)
(* command, for any number of processes and of messages of the UI.         *)
(***************************************************************************)
EXTENDS PythonHost, SequenceTheorems, TLAPS

\* The tables of ChannelHost and the flags of CTPModule have their types.
Tables ==
  /\ proc \in [Pythons -> {"unborn", "starting", "running", "orphan", "gone"}]
  /\ sock \in [Pythons -> {"none", "unnamed", "named", "closed"}]
  /\ reading \in [Pythons -> {"none", "armed", "posted"}]
  /\ entry \in Pythons \cup {None}
  /\ ui \in BOOLEAN /\ pending \in BOOLEAN /\ totalParam \in BOOLEAN

HostInv == Tables /\ NoDanglingSocket /\ UiShowsEntry /\ TotalInOrder

tableVars == <<proc, sock, reading, entry, ui, pending, totalParam, asked, lastTotal>>

\* A step that leaves the tables alone preserves the invariant.
LEMMA HostInvFrame ==
  ASSUME HostInv, UNCHANGED tableVars
  PROVE  HostInv'
BY DEF HostInv, Tables, NoDanglingSocket, UiShowsEntry, TotalInOrder, tableVars, Total

\* Steps of the processes, launches included, change proc alone.
LEMMA HostInvProc ==
  ASSUME HostInv, NEW p \in Pythons,
         NEW s \in {"unborn", "starting", "running", "orphan", "gone"},
         proc' = [proc EXCEPT ![p] = s],
         UNCHANGED <<sock, reading, entry, ui, pending, totalParam, asked, lastTotal>>
  PROVE  HostInv'
BY DEF HostInv, Tables, NoDanglingSocket, UiShowsEntry, TotalInOrder, Total

\* The tables are empty when the host starts.
LEMMA HostInvInit ==
  ASSUME Init
  PROVE  HostInv
BY HostAssumption DEF Init, HostInv, Tables, NoDanglingSocket, UiShowsEntry, TotalInOrder, Pythons

\* The handshake gives its socket the entry, tells the UI and sends what waits.
LEMMA HostInvKnowName ==
  ASSUME HostInv, NEW p \in Pythons, SocketAlreadyKnowName(p)
  PROVE  HostInv'
<1> USE DEF HostInv, SocketAlreadyKnowName, ConnectHandler, Reads, Posts
<1>1. p # None
  BY HostAssumption DEF Pythons
<1>2. Tables'
  BY DEF Tables, ScanDevices
<1>3. NoDanglingSocket'
  BY DEF Tables, NoDanglingSocket
<1>4. UiShowsEntry'
  BY <1>1 DEF UiShowsEntry
<1>5. TotalInOrder'
  BY DEF TotalInOrder, userVars, Tables, Total
<1>6. QED
  BY <1>2, <1>3, <1>4, <1>5

\* A closed socket leaves no entry, whether it had a name or not.
LEMMA HostInvClose ==
  ASSUME HostInv, NEW p \in Pythons, OnClose(p)
  PROVE  HostInv'
<1> USE DEF HostInv, OnClose, Reads
<1>1. Tables'
  BY DEF Tables, modVars
<1>2. NoDanglingSocket'
  <2>1. CASE sock[p] = "named"
    BY <2>1 DEF Tables, NoDanglingSocket
  <2>2. CASE sock[p] # "named"
    BY <2>2 DEF Tables, NoDanglingSocket
  <2>3. QED
    BY <2>1, <2>2
<1>3. UiShowsEntry'
  BY DEF UiShowsEntry, NoDanglingSocket
<1>4. TotalInOrder'
  BY DEF TotalInOrder, modVars, userVars, Total
<1>5. QED
  BY <1>1, <1>2, <1>3, <1>4

\* Reads that leave the socket in its table.
LEMMA HostInvRead ==
  ASSUME HostInv, NEW p \in Pythons,
         OnAccept(p) \/ OnMessage(p) \/ OnReadError(p) \/ AsyncRead(p)
  PROVE  HostInv'
<1> USE DEF HostInv, Reads, Posts, pyVars, modVars, userVars
<1>1. Tables'
  BY DEF Tables, OnAccept, OnMessage, OnReadError, AsyncRead
<1>2. NoDanglingSocket'
  BY DEF Tables, NoDanglingSocket, OnAccept, OnMessage, OnReadError, AsyncRead
<1>3. UiShowsEntry' /\ TotalInOrder'
  BY DEF UiShowsEntry, TotalInOrder, Total, OnAccept, OnMessage, OnReadError, AsyncRead
<1>4. QED
  BY <1>1, <1>2, <1>3

\* A total auto command is sent, or waits while there is no entry.
LEMMA HostInvTotal ==
  ASSUME HostInv, NEW b \in BOOLEAN, OnTotalAutoInstall(b)
  PROVE  HostInv'
<1> USE DEF HostInv, OnTotalAutoInstall, Ui, connVars
<1>1. Tables'
  BY DEF Tables, Launch, Unborn
<1>2. NoDanglingSocket' /\ UiShowsEntry'
  BY DEF NoDanglingSocket, UiShowsEntry
<1>3. TotalInOrder'
  BY DEF TotalInOrder, Tables
<1>4. QED
  BY <1>1, <1>2, <1>3

\* The other tasks of CTPModule.
LEMMA HostInvModule ==
  ASSUME HostInv,
         \/ ScanDevicesNow \/ OnLaunchPYWrapper \/ OnDeviceChange
         \/ OnLaunchPY \/ OnCommand \/ Quits
  PROVE  HostInv'
<1>1. CASE ScanDevicesNow \/ OnDeviceChange \/ OnCommand \/ Quits
  BY <1>1, HostInvFrame
  DEF ScanDevicesNow, OnDeviceChange, OnCommand, Quits, tableVars, pyVars, connVars, modVars, userVars, Ui
<1>2. CASE OnLaunchPYWrapper \/ OnLaunchPY
  <2>1. UNCHANGED <<sock, reading, entry, ui, pending, totalParam, asked, lastTotal>>
    BY <1>2 DEF OnLaunchPYWrapper, OnLaunchPY, connVars, modVars, userVars, Ui
  <2>2. CASE Launch
    <3>1. PICK p \in Pythons : proc' = [proc EXCEPT ![p] = "starting"]
      BY <2>2 DEF Launch, Unborn
    <3>2. QED
      BY <2>1, <3>1, HostInvProc
  <2>3. CASE UNCHANGED proc
    BY <2>1, <2>3, HostInvFrame DEF tableVars
  <2>4. QED
    BY <1>2, <2>2, <2>3 DEF OnLaunchPYWrapper, OnLaunchPY
<1>3. QED
  BY <1>1, <1>2

\* Every step preserves the invariant.
LEMMA HostInvNext ==
  ASSUME HostInv, [Next]_vars
  PROVE  HostInv'
<1>1. CASE UNCHANGED vars
  BY <1>1, HostInvFrame DEF vars, tableVars, pyVars, connVars, modVars, userVars
<1>2. ASSUME NEW p \in Pythons, PythonStep(p) \/ Dies(p)
      PROVE  HostInv'
  <2>1. CASE Shakehand(p)
    BY <2>1, HostInvFrame DEF Shakehand, tableVars, connVars, modVars, userVars
  <2>2. CASE Connects(p)
    BY <2>2, HostInvProc DEF Connects, connVars, modVars, userVars
  <2>3. CASE HandleClose(p)
    BY <2>3, HostInvProc DEF HandleClose, connVars, modVars, userVars
  <2>4. CASE Dies(p)
    BY <2>4, HostInvProc DEF Dies, connVars, modVars, userVars
  <2>5. QED
    BY <1>2, <2>1, <2>2, <2>3, <2>4 DEF PythonStep
<1>3. ASSUME NEW p \in Pythons, ChannelStep(p) \/ AsyncRead(p)
      PROVE  HostInv'
  BY <1>3, HostInvKnowName, HostInvClose, HostInvRead DEF ChannelStep
<1>4. CASE ScanDevicesNow \/ OnLaunchPYWrapper \/ UiStep \/ Quits
  BY <1>4, HostInvModule, HostInvTotal DEF UiStep
<1>5. QED
  BY <1>1, <1>2, <1>3, <1>4 DEF Next

\* The invariant holds always.
LEMMA HostInvAlways == Spec => []HostInv
<1>1. Init => HostInv
  BY HostInvInit
<1>2. HostInv /\ [Next]_vars => HostInv'
  BY HostInvNext
<1>3. QED
  BY <1>1, <1>2, PTL DEF Spec

\* The raw pointers of ChannelHost never outlive their sockets, for any number
\* of Pythons that connect and die in any order (channel_host.cc:210-309).
THEOREM SocketsOwned == Spec => []NoDanglingSocket
<1>1. HostInv => NoDanglingSocket
  BY DEF HostInv
<1>2. QED
  BY <1>1, HostInvAlways, PTL

\* The UI is told of every gain and loss of the entry (phone_module.cpp:209-263).
THEOREM UiInformed == Spec => []UiShowsEntry
<1>1. HostInv => UiShowsEntry
  BY DEF HostInv
<1>2. QED
  BY <1>1, HostInvAlways, PTL

\* The last total auto command sent is the last one given, or one waits while
\* nothing is connected (phone_module.cpp:240, 761-774).
THEOREM TotalOrdered == Spec => []TotalInOrder
<1>1. HostInv => TotalInOrder
  BY DEF HostInv
<1>2. QED
  BY <1>1, HostInvAlways, PTL

-----------------------------------------------------------------------------
(* What the Pythons are sent *)

\* A command is sent or left out.
LEMMA KeptIs ==
  ASSUME NEW p \in Pythons, NEW cmds \in Seq(Command), NEW i \in Nat \ {0}
  PROVE  /\ Kept(p, cmds, i) \in Seq(Command) /\ Len(Kept(p, cmds, i)) \in {0, 1}
         /\ Len(Kept(p, cmds, i)) = 1 => i \in DOMAIN cmds /\ Kept(p, cmds, i)[1] = cmds[i]
         /\ i \in DOMAIN cmds /\ cmds[i] = "config" => Kept(p, cmds, i) = <<"config">>
BY DEF Kept

\* An index past the first n of at most n + 1 elements.
LEMMA OneMore ==
  ASSUME NEW n \in Nat, NEW k \in {0, 1}, NEW i \in 1..(n + k), i > n
  PROVE  i - n = 1 /\ k = 1
OBVIOUS

\* New only leaves commands out: without py_config among them there is none
\* in what is sent, and a py_config that leads them stays the first.
LEMMA NewIs ==
  ASSUME NEW p \in Pythons, NEW cmds \in Seq(Command),
         \A i \in DOMAIN cmds : cmds[i] = "config" => i = 1
  PROVE  /\ New(p, cmds) \in Seq(Command)
         /\ \A i \in DOMAIN New(p, cmds) : New(p, cmds)[i] = "config" =>
              i = 1 /\ 1 \in DOMAIN cmds /\ cmds[1] = "config"
         /\ 1 \in DOMAIN cmds /\ cmds[1] = "config" =>
              New(p, cmds) # <<>> /\ New(p, cmds)[1] = "config"
<1> DEFINE a == Kept(p, cmds, 1)
           b == Kept(p, cmds, 2)
           c == Kept(p, cmds, 3)
<1>1. /\ a \in Seq(Command) /\ b \in Seq(Command) /\ c \in Seq(Command)
      /\ Len(a) \in {0, 1} /\ Len(b) \in {0, 1} /\ Len(c) \in {0, 1}
  BY KeptIs
<1>2. /\ Len(a) = 1 => a[1] = cmds[1] /\ 1 \in DOMAIN cmds
      /\ Len(b) = 1 => 2 \in DOMAIN cmds /\ b[1] = cmds[2]
      /\ Len(c) = 1 => 3 \in DOMAIN cmds /\ c[1] = cmds[3]
      /\ 1 \in DOMAIN cmds /\ cmds[1] = "config" => a = <<"config">>
  <2>1. 1 \in Nat \ {0} /\ 2 \in Nat \ {0} /\ 3 \in Nat \ {0}
    OBVIOUS
  <2> QED BY <2>1, KeptIs
<1>3. (Len(b) = 1 => b[1] # "config") /\ (Len(c) = 1 => c[1] # "config")
  BY <1>2
<1>4. New(p, cmds) = (a \o b) \o c
  BY DEF New
<1> HIDE DEF a, b, c
<1> DEFINE ab == a \o b
<1>5. /\ ab \in Seq(Command) /\ Len(ab) = Len(a) + Len(b)
      /\ \A i \in 1..(Len(a) + Len(b)) : ab[i] = IF i <= Len(a) THEN a[i] ELSE b[i - Len(a)]
  BY <1>1, ConcatProperties
<1>6. New(p, cmds) = ab \o c
  BY <1>4
<1> HIDE DEF ab
<1> DEFINE abc == ab \o c
<1>7. /\ abc \in Seq(Command) /\ Len(abc) = Len(ab) + Len(c)
      /\ \A i \in 1..(Len(ab) + Len(c)) : abc[i] = IF i <= Len(ab) THEN ab[i] ELSE c[i - Len(ab)]
  <2>1. ab \in Seq(Command) /\ c \in Seq(Command)
    BY <1>1, <1>5
  <2> QED BY ONLY <2>1, ConcatProperties
<1>8. DOMAIN abc = 1..Len(abc) /\ Len(abc) \in Nat
  BY <1>7
<1>9. New(p, cmds) = abc
  BY <1>6
<1> HIDE DEF abc
<1>10. ASSUME NEW i \in DOMAIN abc, abc[i] = "config"
       PROVE  i = 1 /\ 1 \in DOMAIN cmds /\ cmds[1] = "config"
  <2>1. i \in 1..(Len(ab) + Len(c)) /\ Len(ab) \in Nat /\ Len(c) \in {0, 1}
    BY <1>1, <1>5, <1>7, <1>8, <1>10
  <2>2. ~(i > Len(ab))
    <3>1. SUFFICES ASSUME i > Len(ab)
                   PROVE  FALSE
      OBVIOUS
    <3>2. i - Len(ab) = 1 /\ Len(c) = 1
      BY ONLY <2>1, <3>1, OneMore
    <3>3. abc[i] = c[1]
      BY <1>7, <2>1, <3>1, <3>2
    <3> QED BY <1>3, <1>10, <3>2, <3>3
  <2>3. i \in 1..(Len(a) + Len(b)) /\ ab[i] = "config"
    BY <1>5, <1>7, <1>10, <2>1, <2>2
  <2>4. ~(i > Len(a))
    <3>1. SUFFICES ASSUME i > Len(a)
                   PROVE  FALSE
      OBVIOUS
    <3>2. i - Len(a) = 1 /\ Len(b) = 1
      <4>1. Len(a) \in Nat /\ Len(b) \in {0, 1}
        BY <1>1
      <4> QED BY ONLY <2>3, <3>1, <4>1, OneMore
    <3>3. ab[i] = b[1]
      BY <1>1, <1>5, <2>3, <3>1, <3>2
    <3> QED BY <1>3, <2>3, <3>2, <3>3
  <2>5. i = 1 /\ Len(a) = 1 /\ ab[i] = a[1]
    BY <1>1, <1>5, <2>3, <2>4
  <2> QED BY <1>2, <2>3, <2>5
<1>11. 1 \in DOMAIN cmds /\ cmds[1] = "config" => abc # <<>> /\ abc[1] = "config"
  <2>1. SUFFICES ASSUME 1 \in DOMAIN cmds, cmds[1] = "config"
                 PROVE  abc # <<>> /\ abc[1] = "config"
    OBVIOUS
  <2>2. Len(a) = 1 /\ a[1] = "config"
    BY <1>2, <2>1
  <2>3. ab[1] = "config" /\ Len(ab) >= 1
    BY <1>1, <1>5, <2>2
  <2>4. Len(abc) >= 1 /\ abc[1] = "config"
    BY <1>1, <1>5, <1>7, <2>3
  <2> QED BY <1>8, <2>4
<1> QED BY <1>7, <1>9, <1>10, <1>11

\* The commands a task sends without a py_config.
Later(cmds) == cmds \in Seq(Command) /\ \A i \in DOMAIN cmds : cmds[i] # "config"

LEMMA LaterIs ==
  /\ Later(<<"scan">>) /\ Later(<<"other">>) /\ Later(<<"scan", "packages">>)
  /\ \A b \in BOOLEAN : Later(<<Total(b)>>)
BY DEF Later, Total, Command

\* What the connect handler sends begins with the only py_config in it.
LEMMA ConnectCommands ==
  ASSUME pending \in BOOLEAN, totalParam \in BOOLEAN
  PROVE  LET cmds == <<"config", "scan">> \o IF pending THEN <<Total(totalParam)>> ELSE <<>>
         IN  /\ cmds \in Seq(Command) /\ 1 \in DOMAIN cmds /\ cmds[1] = "config"
             /\ \A i \in DOMAIN cmds : cmds[i] = "config" => i = 1
<1> DEFINE two == <<"config", "scan">>
           more == IF pending THEN <<Total(totalParam)>> ELSE <<>>
           cmds == two \o more
<1>1. /\ two \in Seq(Command) /\ Len(two) = 2 /\ two[1] = "config" /\ two[2] # "config"
  BY DEF Command
<1>2. more \in Seq(Command) /\ \A i \in 1..Len(more) : more[i] # "config"
  BY LaterIs DEF Later
<1> HIDE DEF two, more
<1>3. /\ cmds \in Seq(Command) /\ Len(cmds) = 2 + Len(more) /\ Len(more) \in Nat
      /\ \A i \in 1..(Len(two) + Len(more)) : cmds[i] = IF i <= Len(two) THEN two[i] ELSE more[i - Len(two)]
  BY <1>1, <1>2, ConcatProperties
<1>4. DOMAIN cmds = 1..(2 + Len(more))
  BY <1>3
<1> HIDE DEF cmds
<1>5. ASSUME NEW i \in DOMAIN cmds, cmds[i] = "config"
      PROVE  i = 1
  BY <1>1, <1>2, <1>3, <1>4, <1>5
<1>6. 1 \in DOMAIN cmds /\ cmds[1] = "config"
  BY <1>1, <1>3, <1>4
<1> QED BY <1>3, <1>5, <1>6 DEF cmds, two, more

\* The histories are sequences of commands.
SentTyped == sent \in [Pythons -> Seq(Command)]

LEMMA SendTyped ==
  ASSUME SentTyped, NEW cmds \in Seq(Command), NEW e, Send(cmds, e),
         \A i \in DOMAIN cmds : cmds[i] = "config" => i = 1
  PROVE  SentTyped'
<1>1. \A p \in Pythons : sent[p] \o New(p, cmds) \in Seq(Command)
  BY NewIs, ConcatProperties DEF SentTyped
<1> QED BY <1>1 DEF Send, SentTyped

\* More commands do not change that when there are some already.
LEMMA SendLater ==
  ASSUME SentTyped, ConfigFirst, NEW cmds, Later(cmds), NEW e, Send(cmds, e),
         e \in Pythons /\ proc[e] = "running" => sent[e] # <<>>
  PROVE  /\ SentTyped' /\ ConfigFirst'
         /\ \A p \in Pythons : sent'[p] = <<>> <=> sent[p] = <<>>
<1>1. cmds \in Seq(Command) /\ \A i \in DOMAIN cmds : cmds[i] # "config"
  BY DEF Later
<1>2. SentTyped'
  BY <1>1, SendTyped
<1>3. ASSUME NEW p \in Pythons
      PROVE  /\ sent'[p] = <<>> <=> sent[p] = <<>>
             /\ \A i \in DOMAIN sent'[p] : sent'[p][i] = "config" <=> i = 1
  <2>1. CASE ~(p = e /\ proc[p] = "running")
    <3>1. sent'[p] = sent[p]
      BY <2>1 DEF Send
    <3> QED BY <3>1 DEF ConfigFirst
  <2>2. CASE p = e /\ proc[p] = "running"
    <3> DEFINE s == sent[p]
               n == New(p, cmds)
    <3>1. sent'[p] = s \o n
      BY <2>2 DEF Send
    <3>2. n \in Seq(Command) /\ \A i \in DOMAIN n : n[i] # "config"
      <4>1. \A i \in DOMAIN cmds : cmds[i] = "config" => i = 1
        BY <1>1
      <4>2. /\ n \in Seq(Command)
            /\ \A i \in DOMAIN n : n[i] = "config" => 1 \in DOMAIN cmds /\ cmds[1] = "config"
        BY <1>1, <4>1, NewIs
      <4> QED BY <1>1, <4>2
    <3>3. s \in Seq(Command) /\ s # <<>> /\ \A i \in DOMAIN s : s[i] = "config" <=> i = 1
      BY <2>2 DEF SentTyped, ConfigFirst
    <3> HIDE DEF s, n
    <3> DEFINE sn == s \o n
    <3>4. /\ sn \in Seq(Command) /\ Len(sn) = Len(s) + Len(n)
          /\ \A i \in 1..(Len(s) + Len(n)) : sn[i] = IF i <= Len(s) THEN s[i] ELSE n[i - Len(s)]
      BY <3>2, <3>3, ConcatProperties
    <3>5. /\ DOMAIN sn = 1..Len(sn) /\ DOMAIN s = 1..Len(s) /\ DOMAIN n = 1..Len(n)
          /\ Len(s) \in Nat \ {0} /\ Len(n) \in Nat /\ Len(sn) \in Nat
      BY <3>2, <3>3, <3>4
    <3> HIDE DEF sn
    <3>6. ASSUME NEW i \in DOMAIN sn
          PROVE  sn[i] = "config" <=> i = 1
      <4>1. CASE i <= Len(s)
        BY <3>3, <3>4, <3>5, <4>1
      <4>2. CASE i > Len(s)
        <5>1. i - Len(s) \in DOMAIN n /\ sn[i] = n[i - Len(s)] /\ i # 1
          BY <3>4, <3>5, <4>2
        <5> QED BY <3>2, <5>1
      <4> QED BY <3>5, <4>1, <4>2
    <3>7. sn # <<>>
      BY <3>4, <3>5
    <3> QED BY <3>1, <3>3, <3>6, <3>7 DEF s, sn
  <2> QED BY <2>1, <2>2
<1> QED BY <1>2, <1>3 DEF ConfigFirst

\* The connect handler is the first to send anything over a socket.
LEMMA SendFirst ==
  ASSUME SentTyped, ConfigFirst, NEW p \in Pythons, sent[p] = <<>>,
         pending \in BOOLEAN, totalParam \in BOOLEAN, ConnectHandler(p)
  PROVE  /\ SentTyped' /\ ConfigFirst'
         /\ \A q \in Pythons : q # p => sent'[q] = sent[q]
         /\ proc[p] = "running" => sent'[p] # <<>>
<1>1. PICK cmds : cmds = <<"config", "scan">> \o IF pending THEN <<Total(totalParam)>> ELSE <<>>
  OBVIOUS
<1>2. /\ cmds \in Seq(Command) /\ 1 \in DOMAIN cmds /\ cmds[1] = "config"
      /\ \A i \in DOMAIN cmds : cmds[i] = "config" => i = 1
  BY <1>1, ConnectCommands
<1>3. Send(cmds, p)
  BY <1>1 DEF ConnectHandler
<1>4. SentTyped'
  BY <1>2, <1>3, SendTyped
<1>5. \A q \in Pythons : q # p \/ proc[q] # "running" => sent'[q] = sent[q]
  BY <1>3 DEF Send
<1>6. ASSUME proc[p] = "running"
      PROVE  sent'[p] # <<>> /\ \A i \in DOMAIN sent'[p] : sent'[p][i] = "config" <=> i = 1
  <2>1. sent'[p] = <<>> \o New(p, cmds)
    BY <1>3, <1>6 DEF Send
  <2>2. New(p, cmds) \in Seq(Command)
    BY <1>2, NewIs
  <2>3. sent'[p] = New(p, cmds)
    BY <2>1, <2>2, ConcatEmptySeq
  <2> QED BY <1>2, <2>3, NewIs
<1> QED BY <1>4, <1>5, <1>6 DEF ConfigFirst

-----------------------------------------------------------------------------
(* Types and the order of what is sent *)

\* A socket that has no name was sent nothing; one that has got py_config.
\* Only a Python that has connected has a socket.
SentInv ==
  \A p \in Pythons :
    /\ sock[p] \in {"none", "unnamed"} => sent[p] = <<>>
    /\ sock[p] # "none" => proc[p] \notin {"unborn", "starting"}
    /\ entry = p /\ proc[p] = "running" => sent[p] # <<>>

ConfigInv == TypeOK /\ NoDanglingSocket /\ SentInv /\ ConfigFirst

LEMMA ConfigInit == Init => ConfigInv
<1> SUFFICES ASSUME Init
             PROVE  ConfigInv
  OBVIOUS
<1>1. TypeOK
  <2>1. scanTimes \in 0..ScanTimes /\ chains \in Nat /\ uiLeft \in 0..MaxUi
    BY HostAssumption DEF Init
  <2>2. sent \in [Pythons -> Seq(Command)]
    BY DEF Init
  <2> QED BY <2>1, <2>2 DEF Init, TypeOK
<1>2. NoDanglingSocket /\ SentInv /\ ConfigFirst
  BY HostAssumption DEF Init, NoDanglingSocket, SentInv, ConfigFirst, Pythons
<1> QED BY <1>1, <1>2 DEF ConfigInv

\* A task that sends no py_config, over the entry.
LEMMA ConfigSend ==
  ASSUME ConfigInv, NEW cmds, Later(cmds), Send(cmds, entry), UNCHANGED <<sock, proc, entry>>
  PROVE  SentTyped' /\ SentInv' /\ ConfigFirst'
<1>1. SentTyped /\ entry \in Pythons \cup {None} /\ None \notin Pythons
  BY HostAssumption DEF ConfigInv, TypeOK, SentTyped, Pythons
<1>2. entry \in Pythons /\ proc[entry] = "running" => sent[entry] # <<>>
  BY DEF ConfigInv, SentInv
<1>3. /\ SentTyped' /\ ConfigFirst'
      /\ \A p \in Pythons : sent'[p] = <<>> <=> sent[p] = <<>>
  BY <1>1, <1>2, SendLater DEF ConfigInv
<1>4. SentInv'
  BY <1>3 DEF ConfigInv, SentInv
<1> QED BY <1>3, <1>4

\* A process starts, connects, stays behind or dies.
LEMMA ConfigProc ==
  ASSUME ConfigInv, NEW p \in Pythons, NEW s \in {"starting", "running", "orphan", "gone"},
         proc' = [proc EXCEPT ![p] = s], s = "starting" => proc[p] = "unborn",
         s = "running" => proc[p] = "starting",
         UNCHANGED <<sock, entry, sent>>
  PROVE  SentInv' /\ ConfigFirst'
<1>1. proc \in [Pythons -> {"unborn", "starting", "running", "orphan", "gone"}]
  BY DEF ConfigInv, TypeOK
<1>2. \A q \in Pythons : entry = q => sock[q] = "named"
  BY HostAssumption DEF ConfigInv, NoDanglingSocket, Pythons
<1>3. SentInv'
  BY <1>1, <1>2 DEF ConfigInv, SentInv
<1> QED BY <1>3 DEF ConfigInv, ConfigFirst

LEMMA LaunchIs ==
  ASSUME Launch
  PROVE  \E p \in Pythons : proc[p] = "unborn" /\ proc' = [proc EXCEPT ![p] = "starting"]
BY DEF Launch, Unborn

\* The typing of a step, without the histories.
LEMMA TypeStep ==
  ASSUME TypeOK, [Next]_vars, SentTyped'
  PROVE  TypeOK'
<1> USE DEF TypeOK, SentTyped
<1>1. CASE UNCHANGED vars
  BY <1>1 DEF vars, pyVars, connVars, modVars, userVars
<1>2. ASSUME NEW p \in Pythons, PythonStep(p) \/ Dies(p)
      PROVE  TypeOK'
  BY <1>2 DEF PythonStep, Dies, Connects, Shakehand, HandleClose, connVars, modVars, userVars
<1>3. ASSUME NEW p \in Pythons, SocketAlreadyKnowName(p)
      PROVE  TypeOK'
  <2>1. scanTimes' \in 0..ScanTimes /\ chains' \in Nat
    BY <1>3, HostAssumption DEF SocketAlreadyKnowName, ConnectHandler, ScanDevices
  <2>2. lastTotal' \in {None, "total_on", "total_off"} /\ pending' \in BOOLEAN /\ ui' \in BOOLEAN
    BY <1>3 DEF SocketAlreadyKnowName, ConnectHandler, Total
  <2> QED BY <1>3, <2>1, <2>2 DEF SocketAlreadyKnowName, Posts, userVars
<1>4. ASSUME NEW p \in Pythons,
             OnAccept(p) \/ OnMessage(p) \/ OnClose(p) \/ OnReadError(p) \/ AsyncRead(p)
      PROVE  TypeOK'
  BY <1>4 DEF OnAccept, OnMessage, OnClose, OnReadError, AsyncRead, Posts, pyVars, modVars, userVars
<1>5. CASE ScanDevicesNow
  <2>1. scanTimes' \in 0..ScanTimes /\ chains' \in Nat
    BY <1>5, HostAssumption DEF ScanDevicesNow
  <2> QED BY <1>5, <2>1 DEF ScanDevicesNow, pyVars, connVars, userVars
<1>6. CASE OnLaunchPYWrapper
  BY <1>6 DEF OnLaunchPYWrapper, Launch, Unborn, connVars, userVars
<1>7. CASE UiStep
  <2>1. uiLeft' \in 0..MaxUi
    <3>1. uiLeft > 0 /\ uiLeft' = uiLeft - 1
      BY <1>7 DEF UiStep, OnDeviceChange, OnLaunchPY, OnCommand, OnTotalAutoInstall, Ui
    <3>2. uiLeft \in 0..MaxUi
      OBVIOUS
    <3> QED BY ONLY <3>1, <3>2, HostAssumption
  <2>2. CASE OnDeviceChange
    <3>1. scanTimes' \in 0..ScanTimes /\ chains' \in Nat
      BY <2>2, HostAssumption DEF OnDeviceChange, ScanDevices
    <3> QED BY <2>1, <2>2, <3>1 DEF OnDeviceChange, Ui, pyVars, connVars
  <2>3. CASE OnLaunchPY
    BY <2>1, <2>3 DEF OnLaunchPY, Ui, Launch, Unborn, connVars, modVars
  <2>4. CASE OnCommand
    BY <2>1, <2>4 DEF OnCommand, Ui, pyVars, connVars, modVars
  <2>5. ASSUME NEW b \in BOOLEAN, OnTotalAutoInstall(b)
        PROVE  TypeOK'
    BY <2>1, <2>5 DEF OnTotalAutoInstall, Ui, Launch, Unborn, connVars, Total
  <2> QED BY <1>7, <2>2, <2>3, <2>4, <2>5 DEF UiStep
<1>8. CASE Quits
  BY <1>8 DEF Quits, pyVars, connVars, modVars, userVars
<1> QED BY <1>1, <1>2, <1>3, <1>4, <1>5, <1>6, <1>7, <1>8 DEF Next, ChannelStep

LEMMA ConfigStep ==
  ASSUME ConfigInv, Next
  PROVE  SentTyped' /\ SentInv' /\ ConfigFirst'
<1>1. SentTyped /\ None \notin Pythons
  BY HostAssumption DEF ConfigInv, TypeOK, SentTyped, Pythons
<1>2. ASSUME UNCHANGED <<sock, proc, entry, sent>>
      PROVE  SentTyped' /\ SentInv' /\ ConfigFirst'
  BY <1>1, <1>2 DEF ConfigInv, SentTyped, SentInv, ConfigFirst
<1>3. ASSUME NEW p \in Pythons, PythonStep(p) \/ Dies(p)
      PROVE  SentTyped' /\ SentInv' /\ ConfigFirst'
  <2>1. UNCHANGED <<sock, entry, sent>>
    BY <1>3 DEF PythonStep, Dies, Connects, Shakehand, HandleClose, connVars
  <2>2. \/ UNCHANGED proc
        \/ \E s \in {"running", "orphan", "gone"} :
             proc' = [proc EXCEPT ![p] = s] /\ (s = "running" => proc[p] = "starting")
    BY <1>3 DEF PythonStep, Dies, Connects, Shakehand, HandleClose
  <2> QED BY <1>1, <1>2, <2>1, <2>2, ConfigProc DEF SentTyped
<1>4. ASSUME NEW p \in Pythons, OnAccept(p)
      PROVE  SentTyped' /\ SentInv' /\ ConfigFirst'
  <2>1. /\ sock[p] = "none" /\ proc[p] = "running" /\ sock' = [sock EXCEPT ![p] = "unnamed"]
        /\ UNCHANGED <<proc, entry, sent>>
    BY <1>4 DEF OnAccept, pyVars
  <2>2. sock \in [Pythons -> {"none", "unnamed", "named", "closed"}]
    BY DEF ConfigInv, TypeOK
  <2> QED BY <1>1, <2>1, <2>2 DEF ConfigInv, SentTyped, SentInv, ConfigFirst
<1>5. ASSUME NEW p \in Pythons, SocketAlreadyKnowName(p)
      PROVE  SentTyped' /\ SentInv' /\ ConfigFirst'
  <2>1. /\ sock[p] = "unnamed" /\ sock' = [sock EXCEPT ![p] = "named"] /\ entry' = p
        /\ UNCHANGED proc /\ ConnectHandler(p)
    BY <1>5 DEF SocketAlreadyKnowName
  <2>2. sent[p] = <<>> /\ pending \in BOOLEAN /\ totalParam \in BOOLEAN
        /\ sock \in [Pythons -> {"none", "unnamed", "named", "closed"}]
    BY <2>1 DEF ConfigInv, SentInv, TypeOK
  <2>3. /\ SentTyped' /\ ConfigFirst'
        /\ \A q \in Pythons : q # p => sent'[q] = sent[q]
        /\ proc[p] = "running" => sent'[p] # <<>>
    BY <1>1, <2>1, <2>2, SendFirst DEF ConfigInv
  <2>4. SentInv'
    BY <2>1, <2>2, <2>3 DEF ConfigInv, SentInv
  <2> QED BY <2>3, <2>4
<1>6. ASSUME NEW p \in Pythons, OnMessage(p) \/ OnReadError(p) \/ AsyncRead(p)
      PROVE  SentTyped' /\ SentInv' /\ ConfigFirst'
  BY <1>2, <1>6 DEF OnMessage, OnReadError, AsyncRead, pyVars
<1>7. ASSUME NEW p \in Pythons, OnClose(p)
      PROVE  SentTyped' /\ SentInv' /\ ConfigFirst'
  <2>1. /\ sock' = [sock EXCEPT ![p] = "closed"] /\ entry' \in {entry, None}
        /\ proc[p] = "gone" /\ UNCHANGED <<proc, sent>>
    BY <1>7 DEF OnClose
  <2>2. sock \in [Pythons -> {"none", "unnamed", "named", "closed"}]
    BY DEF ConfigInv, TypeOK
  <2> QED BY <1>1, <2>1, <2>2 DEF ConfigInv, SentTyped, SentInv, ConfigFirst
<1>8. CASE ScanDevicesNow \/ OnDeviceChange \/ OnCommand
  <2>1. UNCHANGED <<sock, proc, entry>>
    BY <1>8 DEF ScanDevicesNow, OnDeviceChange, OnCommand, connVars, pyVars
  <2>2. \E cmds : Later(cmds) /\ Send(cmds, entry)
    BY <1>8, LaterIs DEF ScanDevicesNow, OnDeviceChange, OnCommand
  <2> QED BY <2>1, <2>2, ConfigSend
<1>9. ASSUME UNCHANGED <<sock, entry, sent>>, Launch \/ UNCHANGED proc
      PROVE  SentTyped' /\ SentInv' /\ ConfigFirst'
  BY <1>1, <1>2, <1>9, LaunchIs, ConfigProc DEF SentTyped
<1>10. CASE OnLaunchPYWrapper \/ OnLaunchPY \/ Quits
  BY <1>9, <1>10 DEF OnLaunchPYWrapper, OnLaunchPY, Quits, connVars, pyVars
<1>11. ASSUME NEW b \in BOOLEAN, OnTotalAutoInstall(b)
       PROVE  SentTyped' /\ SentInv' /\ ConfigFirst'
  <2>1. UNCHANGED <<sock, entry>>
    BY <1>11 DEF OnTotalAutoInstall, connVars
  <2>2. CASE entry # None
    BY <1>11, <2>1, <2>2, LaterIs, ConfigSend DEF OnTotalAutoInstall
  <2>3. CASE entry = None
    BY <1>9, <1>11, <2>1, <2>3 DEF OnTotalAutoInstall
  <2> QED BY <2>2, <2>3
<1> QED
  BY <1>3, <1>4, <1>5, <1>6, <1>7, <1>8, <1>10, <1>11 DEF Next, ChannelStep, UiStep

LEMMA ConfigNext == ConfigInv /\ HostInv' /\ [Next]_vars => ConfigInv'
<1> SUFFICES ASSUME ConfigInv, HostInv', [Next]_vars
             PROVE  ConfigInv'
  OBVIOUS
<1>1. SentTyped' /\ SentInv' /\ ConfigFirst'
  <2>1. CASE UNCHANGED vars
    BY <2>1 DEF vars, pyVars, connVars, ConfigInv, TypeOK, SentTyped, SentInv, ConfigFirst
  <2> QED BY <2>1, ConfigStep
<1>2. TypeOK'
  BY <1>1, TypeStep DEF ConfigInv
<1>3. NoDanglingSocket'
  BY DEF HostInv
<1> QED BY <1>1, <1>2, <1>3 DEF ConfigInv

LEMMA ConfigAlways == Spec => []ConfigInv
BY ConfigInit, ConfigNext, HostInvAlways, PTL DEF Spec

\* Every variable of the host keeps its type: the countdown scan_times_, which
\* all chains of scans share, stays within its bounds (adb_py_interface.cc:38-66).
THEOREM TypeCorrect == Spec => []TypeOK
<1>1. ConfigInv => TypeOK
  BY DEF ConfigInv
<1> QED BY <1>1, ConfigAlways, PTL

\* Each Python is sent py_config first and once, whatever Pythons of the same
\* name come and go meanwhile (phone_module.cpp:209-263).
THEOREM ConfigSentFirst == Spec => []ConfigFirst
<1>1. ConfigInv => ConfigFirst
  BY DEF ConfigInv
<1> QED BY <1>1, ConfigAlways, PTL
=============================================================================
