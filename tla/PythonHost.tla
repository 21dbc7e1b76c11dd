----------------------------- MODULE PythonHost -----------------------------
(***************************************************************************)
(* The host side of the system: CTPModule, its ChannelHost and its         *)
(* PythonAdbInterface, which all run on the CTP thread, against the Python *)
(* processes the host launches and the TCP connection each of them makes.  *)
(*                                                                         *)
(* One action is one task of the CTP thread: an accept, a read, a posted   *)
(* AsyncRead, a delayed scan, a message of the UI.  Process p makes one    *)
(* connection, so p also names its socket.  The release build is modelled  *)
(* (DCHECK does nothing, OnTotalAutoInstall launches).                     *)
(***************************************************************************)
EXTENDS Integers, Sequences

CONSTANTS
  MaxLaunch,   \* bound: processes launched
  MaxUi,       \* bound: messages of the UI
  ScanTimes,   \* scans that follow the first, 6 in the code
  None         \* no entry

ASSUME HostAssumption ==
  /\ MaxLaunch \in Nat /\ MaxUi \in Nat /\ ScanTimes \in Nat \ {0}
  /\ None \notin 1..MaxLaunch

Pythons == 1..MaxLaunch

\* Commands to Python: py_config, pyadb.scan_devices, pyadb.get_package_list,
\* pyadb.total_auto_install with "1" or "0", and every other one.
Total(b) == IF b THEN "total_on" ELSE "total_off"
Command == {"config", "scan", "packages", "total_on", "total_off", "other"}

VARIABLES
  host,       \* the host runs
  proc,       \* each process: unborn, starting, running, orphan, gone
  hello,      \* processes whose handshake waits to be read
  sock,       \* socket_name_map_: none, unnamed, named, closed (erased)
  reading,    \* each socket: none, armed (Read pends), posted (AsyncRead)
  entry,      \* name_socket_map_[update-apk]
  ui,         \* the connection state the UI was told last
  pending,    \* pending_total_auto_
  totalParam, \* total_param_
  scanTimes,  \* scan_times_
  chains,     \* delayed ScanDevicesNow tasks
  launcher,   \* the delayed OnLaunchPYWrapper is still to run
  uiLeft,     \* messages left for the UI
  sent,       \* history: what each process was sent, repeats left out
  asked,      \* history: the last total auto command of the UI
  lastTotal   \* history: the last total auto command handed to a socket

pyVars   == <<proc, hello>>
connVars == <<sock, reading, entry, ui>>
modVars  == <<pending, totalParam, scanTimes, chains, launcher>>
userVars == <<uiLeft, asked>>
vars == <<host, pyVars, connVars, modVars, userVars, sent, lastTotal>>

\* The end of CTPModule's constructor: it listens, nothing is launched yet.
Init ==
  /\ host = TRUE
  /\ proc = [p \in Pythons |-> "unborn"] /\ hello = {}
  /\ sock = [p \in Pythons |-> "none"] /\ reading = [p \in Pythons |-> "none"]
  /\ entry = None /\ ui = FALSE
  /\ pending = FALSE /\ totalParam = FALSE /\ scanTimes = 0 /\ chains = 0
  /\ launcher = TRUE /\ uiLeft = MaxUi
  /\ sent = [p \in Pythons |-> <<>>] /\ asked = None /\ lastTotal = None

-----------------------------------------------------------------------------
(* Python processes *)

Unborn == {p \in Pythons : proc[p] = "unborn"}

\* OnLaunchPY
Launch ==
  \E p \in Unborn :
    /\ \A q \in Unborn : p <= q
    /\ proc' = [proc EXCEPT ![p] = "starting"]

Connects(p) ==
  /\ proc[p] = "starting" /\ host
  /\ proc' = [proc EXCEPT ![p] = "running"]
  /\ UNCHANGED <<host, hello, connVars, modVars, userVars, sent, lastTotal>>

\* The handshake is the first thing in write_buffer.
Shakehand(p) ==
  /\ proc[p] = "running" /\ p \notin hello /\ sock[p] = "unnamed"
  /\ hello' = hello \cup {p}
  /\ UNCHANGED <<host, proc, connVars, modVars, userVars, sent, lastTotal>>

\* handle_close: sys.exit on the network thread ends that thread.  The
\* PhoneLogic thread is no daemon, and the process stays.
HandleClose(p) ==
  /\ proc[p] \in {"starting", "running"} /\ ~host
  /\ proc' = [proc EXCEPT ![p] = "orphan"]
  /\ UNCHANGED <<host, hello, connVars, modVars, userVars, sent, lastTotal>>

\* A crash, a kill, a launch that fails.
Dies(p) ==
  /\ proc[p] \in {"starting", "running", "orphan"}
  /\ proc' = [proc EXCEPT ![p] = "gone"]
  /\ UNCHANGED <<host, hello, connVars, modVars, userVars, sent, lastTotal>>

-----------------------------------------------------------------------------
(* ChannelHost *)

\* SendProtobufMsg: without an entry the message is dropped, on a connection
\* whose peer is gone it is lost.
\* The history keeps the first of each command and every py_config; no task
\* sends more than three commands.
SentTo(p, cmd) == \E i \in DOMAIN sent[p] : sent[p][i] = cmd
Kept(p, cmds, i) ==
  IF i \in DOMAIN cmds /\ (cmds[i] = "config" \/ ~SentTo(p, cmds[i])) THEN <<cmds[i]>> ELSE <<>>
New(p, cmds) == Kept(p, cmds, 1) \o Kept(p, cmds, 2) \o Kept(p, cmds, 3)
Send(cmds, e) ==
  sent' = [p \in Pythons |->
    IF p = e /\ proc[p] = "running" THEN sent[p] \o New(p, cmds) ELSE sent[p]]

\* ScanDevices: the scan that starts a chain of delayed ones.  The messages
\* are the caller's to send.
ScanDevices ==
  /\ scanTimes' = ScanTimes - 1
  /\ chains' = chains + 1

\* Mutant of OnAccept: the next Accept is not asked for.
OnAcceptOnce(p) ==
  /\ host /\ proc[p] = "running" /\ \A q \in Pythons : sock[q] = "none"
  /\ sock' = [sock EXCEPT ![p] = "unnamed"]
  /\ reading' = [reading EXCEPT ![p] = "armed"]
  /\ UNCHANGED <<host, pyVars, entry, ui, modVars, userVars, sent, lastTotal>>

OnAccept(p) ==
  /\ host /\ proc[p] = "running" /\ sock[p] = "none"
  /\ sock' = [sock EXCEPT ![p] = "unnamed"]
  /\ reading' = [reading EXCEPT ![p] = "armed"]
  /\ UNCHANGED <<host, pyVars, entry, ui, modVars, userVars, sent, lastTotal>>

Reads(p) == host /\ reading[p] = "armed"

\* OnReadComplete posts the next read when data came.
Posts(p) == reading' = [reading EXCEPT ![p] = "posted"]

\* Mutant of ConnectHandler: the pending command is kept.
ConnectHandlerPendingKept(e) ==
  /\ ui' = TRUE
  /\ ScanDevices
  /\ pending' = pending
  /\ lastTotal' = IF pending THEN Total(totalParam) ELSE lastTotal
  /\ Send(<<"config", "scan">> \o IF pending THEN <<Total(totalParam)>> ELSE <<>>, e)

\* Mutant of ConnectHandler: no scan is started.
ConnectHandlerNoScan(e) ==
  /\ ui' = TRUE
  /\ UNCHANGED <<scanTimes, chains>>
  /\ pending' = FALSE
  /\ lastTotal' = IF pending THEN Total(totalParam) ELSE lastTotal
  /\ Send(<<"config">> \o IF pending THEN <<Total(totalParam)>> ELSE <<>>, e)

\* The connect handler of CTPModule, told of a connection: it sends py_config
\* over entry e, starts the scans and sends the total auto command that waited.
ConnectHandler(e) ==
  /\ ui' = TRUE
  /\ ScanDevices
  /\ pending' = FALSE
  /\ lastTotal' = IF pending THEN Total(totalParam) ELSE lastTotal
  /\ Send(<<"config", "scan">> \o IF pending THEN <<Total(totalParam)>> ELSE <<>>, e)

\* Mutant of SocketAlreadyKnowName: the handler runs before the entry is set.
SocketAlreadyKnowNameTooLate(p) ==
  /\ Reads(p) /\ p \in hello /\ sock[p] = "unnamed"
  /\ hello' = hello \ {p}
  /\ sock' = [sock EXCEPT ![p] = "named"] /\ entry' = p
  /\ ConnectHandler(entry)
  /\ Posts(p)
  /\ UNCHANGED <<host, proc, totalParam, launcher, userVars>>

\* The handshake is read: its name gets the socket as its entry, over an older
\* one too, before the handler runs.
SocketAlreadyKnowName(p) ==
  /\ Reads(p) /\ p \in hello /\ sock[p] = "unnamed"
  /\ hello' = hello \ {p}
  /\ sock' = [sock EXCEPT ![p] = "named"] /\ entry' = p
  /\ ConnectHandler(p)
  /\ Posts(p)
  /\ UNCHANGED <<host, proc, totalParam, launcher, userVars>>

\* DispatchProtobufMessage only passes the responses on to the UI.
OnMessage(p) ==
  /\ Reads(p) /\ sock[p] = "named" /\ proc[p] = "running"
  /\ Posts(p)
  /\ UNCHANGED <<host, pyVars, sock, entry, ui, modVars, userVars, sent, lastTotal>>

AsyncRead(p) ==
  /\ host /\ reading[p] = "posted"
  /\ reading' = [reading EXCEPT ![p] = "armed"]
  /\ UNCHANGED <<host, pyVars, sock, entry, ui, modVars, userVars, sent, lastTotal>>

\* Mutant of OnClose: only the socket is erased.
OnCloseEntryKept(p) ==
  /\ Reads(p) /\ proc[p] = "gone"
  /\ sock' = [sock EXCEPT ![p] = "closed"]
  /\ reading' = [reading EXCEPT ![p] = "none"]
  /\ ui' = (sock[p] # "named" /\ ui)
  /\ hello' = hello \ {p}
  /\ UNCHANGED <<host, proc, entry, modVars, userVars, sent, lastTotal>>

\* Mutant of OnClose: the handler runs for the socket of the entry only.
OnCloseUnnoticed(p) ==
  /\ Reads(p) /\ proc[p] = "gone"
  /\ sock' = [sock EXCEPT ![p] = "closed"]
  /\ reading' = [reading EXCEPT ![p] = "none"]
  /\ entry' = IF sock[p] = "named" THEN None ELSE entry
  /\ ui' = (entry # p /\ ui)
  /\ hello' = hello \ {p}
  /\ UNCHANGED <<host, proc, modVars, userVars, sent, lastTotal>>

\* ERR_CONNECTION_RESET or 0: the handler is told, the socket is erased and
\* with it the entry of its name, whichever socket that is.  A socket without
\* a name has no handler and no entry.
OnClose(p) ==
  /\ Reads(p) /\ proc[p] = "gone"
  /\ sock' = [sock EXCEPT ![p] = "closed"]
  /\ reading' = [reading EXCEPT ![p] = "none"]
  /\ entry' = IF sock[p] = "named" THEN None ELSE entry
  /\ ui' = (sock[p] # "named" /\ ui)
  /\ hello' = hello \ {p}
  /\ UNCHANGED <<host, proc, modVars, userVars, sent, lastTotal>>

\* Any other error is logged; nobody reads this socket again.
OnReadError(p) ==
  /\ Reads(p) /\ proc[p] = "gone"
  /\ reading' = [reading EXCEPT ![p] = "none"]
  /\ UNCHANGED <<host, pyVars, sock, entry, ui, modVars, userVars, sent, lastTotal>>

-----------------------------------------------------------------------------
(* CTPModule and PythonAdbInterface *)

\* Mutant of ScanDevicesNow: the last scan is counted, too.
ScanDevicesNowPastZero ==
  /\ host /\ chains > 0
  /\ scanTimes' = scanTimes - 1
  /\ IF scanTimes > 0
     THEN Send(<<"scan">>, entry) /\ UNCHANGED chains
     ELSE Send(<<"scan", "packages">>, entry) /\ chains' = chains - 1
  /\ UNCHANGED <<host, pyVars, connVars, pending, totalParam, launcher, userVars, lastTotal>>

\* A delayed task: all chains count down the one scan_times_, the ones that
\* find it at zero ask for the packages and end.
ScanDevicesNow ==
  /\ host /\ chains > 0
  /\ IF scanTimes > 0
     THEN /\ scanTimes' = scanTimes - 1
          /\ Send(<<"scan">>, entry)
          /\ UNCHANGED chains
     ELSE /\ chains' = chains - 1
          /\ Send(<<"scan", "packages">>, entry)
          /\ UNCHANGED scanTimes
  /\ UNCHANGED <<host, pyVars, connVars, pending, totalParam, launcher, userVars, lastTotal>>

\* Five seconds after the start.
OnLaunchPYWrapper ==
  /\ host /\ launcher
  /\ launcher' = FALSE
  /\ IF entry = None THEN Launch ELSE UNCHANGED proc
  /\ UNCHANGED <<host, hello, connVars, pending, totalParam, scanTimes, chains, userVars, sent, lastTotal>>

Ui == host /\ uiLeft > 0 /\ uiLeft' = uiLeft - 1

OnDeviceChange ==
  /\ Ui
  /\ ScanDevices
  /\ Send(<<"scan">>, entry)
  /\ UNCHANGED <<host, pyVars, connVars, pending, totalParam, launcher, asked, lastTotal>>

\* HasConnection looks at the entry: a Python that starts has none.
OnTotalAutoInstall(b) ==
  /\ Ui
  /\ asked' = Total(b)
  /\ IF entry # None
     THEN /\ Send(<<Total(b)>>, entry)
          /\ lastTotal' = Total(b)
          /\ UNCHANGED <<proc, pending, totalParam>>
     ELSE /\ Launch
          /\ pending' = TRUE /\ totalParam' = b
          /\ UNCHANGED <<sent, lastTotal>>
  /\ UNCHANGED <<host, hello, connVars, scanTimes, chains, launcher>>

\* U2L_LaunchPY, a button: whether or not a Python runs.
OnLaunchPY ==
  /\ Ui /\ Launch
  /\ UNCHANGED <<host, hello, connVars, modVars, asked, sent, lastTotal>>

\* OnAutoInstall, OnRefresh, OnInstallApkList, OnLogin and the others.
OnCommand ==
  /\ Ui
  /\ Send(<<"other">>, entry)
  /\ UNCHANGED <<host, pyVars, connVars, modVars, asked, lastTotal>>

\* The user closes the host; every connection closes with it.
Quits ==
  /\ host
  /\ host' = FALSE
  /\ UNCHANGED <<pyVars, connVars, modVars, userVars, sent, lastTotal>>

-----------------------------------------------------------------------------
PythonStep(p) == Connects(p) \/ Shakehand(p) \/ HandleClose(p)

ChannelStep(p) ==
  OnAccept(p) \/ SocketAlreadyKnowName(p) \/ OnMessage(p) \/ OnClose(p) \/ OnReadError(p)

UiStep ==
  \/ OnDeviceChange \/ OnLaunchPY \/ OnCommand
  \/ \E b \in BOOLEAN : OnTotalAutoInstall(b)

Next ==
  \/ \E p \in Pythons : PythonStep(p) \/ Dies(p) \/ ChannelStep(p) \/ AsyncRead(p)
  \/ ScanDevicesNow \/ OnLaunchPYWrapper \/ UiStep \/ Quits

Spec == Init /\ [][Next]_vars

\* A Python that lives connects, sends its handshake and sees the connection
\* close; the CTP thread runs every task posted to it, delayed ones included.
\* Nobody has to press a button, to quit or to die.
Fairness ==
  /\ \A p \in Pythons :
       /\ WF_vars(PythonStep(p))
       /\ WF_vars(OnAccept(p) \/ SocketAlreadyKnowName(p) \/ OnClose(p) \/ OnReadError(p))
       /\ WF_vars(AsyncRead(p))
  /\ WF_vars(ScanDevicesNow) /\ WF_vars(OnLaunchPYWrapper)

FairSpec == Spec /\ Fairness

-----------------------------------------------------------------------------
(* Properties *)

\* Every variable has its type.
TypeOK ==
  /\ host \in BOOLEAN /\ ui \in BOOLEAN /\ pending \in BOOLEAN
  /\ totalParam \in BOOLEAN /\ launcher \in BOOLEAN
  /\ proc \in [Pythons -> {"unborn", "starting", "running", "orphan", "gone"}]
  /\ hello \subseteq Pythons
  /\ sock \in [Pythons -> {"none", "unnamed", "named", "closed"}]
  /\ reading \in [Pythons -> {"none", "armed", "posted"}]
  /\ entry \in Pythons \cup {None}
  /\ scanTimes \in 0..ScanTimes /\ chains \in Nat /\ uiLeft \in 0..MaxUi
  /\ sent \in [Pythons -> Seq(Command)]
  /\ asked \in {None, "total_on", "total_off"}
  /\ lastTotal \in {None, "total_on", "total_off"}

\* channel_host.cc keeps raw pointers: the one in name_socket_map_ and the
\* one bound into a posted AsyncRead never outlive the shared_ptr in
\* socket_name_map_, whatever connections of the same name come and go.
NoDanglingSocket ==
  /\ entry # None => sock[entry] = "named"
  /\ \A p \in Pythons : reading[p] # "none" => sock[p] \in {"unnamed", "named"}

\* PhoneLogic ignores everything before py_config and configures itself once:
\* each Python is sent py_config first, and never again, also while another
\* Python of the same name is or was connected.
ConfigFirst ==
  \A p \in Pythons : \A i \in DOMAIN sent[p] : sent[p][i] = "config" <=> i = 1

\* What the UI was told of the connection agrees with the entry commands are
\* sent to: it never shows a connection over which a click would be lost.
UiShowsEntry == ui <=> entry # None

\* A total auto command that waits for a Python never overtakes a later one:
\* it waits only while there is no entry, and once nothing waits the last
\* command sent is the last one the UI gave.
TotalInOrder ==
  /\ pending => entry = None /\ asked = Total(totalParam)
  /\ ~pending => lastTotal = asked

\* The command that waits is sent when a Python that starts has connected.
PendingDelivered ==
  \A p \in Pythons :
    pending /\ proc[p] = "starting" ~> ~pending \/ proc[p] \in {"orphan", "gone"} \/ ~host

\* Every connected Python is told in the end to list the packages of its
\* phones, whatever chains of scans were under way when it connected.
ConnectedGetsPackages ==
  \A p \in Pythons :
    entry = p ~> SentTo(p, "packages") \/ entry # p \/ proc[p] # "running" \/ ~host
=============================================================================
