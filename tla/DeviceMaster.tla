---------------------------- MODULE DeviceMaster ----------------------------
(***************************************************************************)
(* One phone as the Python worker sees it: the part of device.master.Master*)
(* that concerns one serial number, its OneDevice object, and the Proxy    *)
(* threads that run adb for it.                                            *)
(*                                                                         *)
(* Threads: "master" (Master.Work: drain queue_in, CheckTimeout,           *)
(* TriggerAutoInstall), "phone" (PhoneLogic.DealMsg, which calls straight  *)
(* into Master), and one thread per Proxy.  A Proxy that is stopped cannot *)
(* be killed (ForceStop is empty), so proxies are numbered: a timeout makes*)
(* the current one a zombie and the next command creates a new one.  A     *)
(* proxy number is a ghost: no message of the code carries it.             *)
(***************************************************************************)
EXTENDS Integers, Sequences, FiniteSets

CONSTANTS
  Packages,      \* package names of the apk list
  None,          \* Python's None
  MaxTry,        \* FailedItem.MAX_TRY
  AdbOutcomes,   \* what one "adb install" may report: sequences of Results
  UiCommands,    \* what the user interface may send
  MaxProxy,      \* bound: proxies created for this serial
  MaxSub,        \* bound: sub_command_id
  MaxUi,         \* bound: commands of the user interface
  MaxScan,       \* bound: device lists found by "adb devices"
  MaxReload      \* bound: loads of the local apk list

Results == {"success", "downgrade", "fatal", "other"}
Skips   == {"skip_installed", "skip_timeout"}

ASSUME ConstantsAssumption ==
  /\ None \notin Packages
  /\ AdbOutcomes \subseteq Seq(Results)
  /\ UiCommands \subseteq {"install", "force", "list", "auto_on", "auto_off"}
  /\ MaxTry \in Nat /\ MaxProxy \in Nat /\ MaxSub \in Nat
  /\ MaxUi \in Nat /\ MaxScan \in Nat /\ MaxReload \in Nat

Threads == {"master", "phone"}
Proxies == 1..MaxProxy

\* A Command of apk_protomsg.proto: param[0] is force, param[1] the package,
\* param[3] op, the operation GetOP reads.
InstallCommand == [kind: {"install"}, pkg: Packages, force: BOOLEAN,
                   op: {"none", "delete", "just"}, sub: Nat]
InfoCommand    == [kind: {"list", "imei"}, pkg: {None}, force: BOOLEAN,
                   op: {"none"}, sub: Nat]
Command == InstallCommand \cup InfoCommand
TimerEntry == [from: Proxies, cmd: InstallCommand]

\* Python's None is neither a protobuf command nor a dict.
ASSUME NoneAssumption == None \notin Command /\ None \notin TimerEntry

FailedItem == [try: Nat, code: {"timeout", "adb"},
               msg: Results \cup Skips \cup {"timeout"}, inner: {0, 1, 1000}]

\* What Master.queue_in carries for this serial; from is the proxy (ghost),
\* 0 for the replies OneDevice.ProcessInstallApk makes itself.
Message ==
  [type: {"start", "stop"}, from: Proxies, cmd: InstallCommand]
    \cup [type: {"reply"}, from: 0..MaxProxy, cmd: InstallCommand, res: Results \cup Skips]
    \cup [type: {"packages"}, set: SUBSET Packages]
    \cup [type: {"imei"}]
    \cup [type: {"devices"}, present: BOOLEAN]

VARIABLES
  queueIn,    \* Master.queue_in
  timer,      \* last_command_timeout[serial]: [from, cmd] or None
  auto,       \* auto_install_mode
  listed,     \* serial is in last_devices_list
  loaded,     \* Master.todo_install_apk_map is the phone's package_map
  \* OneDevice
  held,       \* "absent": no OneDevice; "empty"/"map": its todo_install_apk_map
  minSub, lastSub, subId,
  installed,  \* installed_set
  failed,     \* installed_failed: Packages -> FailedItem or None
  pkgSet,     \* package_set, None while empty
  imei,       \* imei is known
  \* Proxy objects
  cur,        \* OneDevice.proxy, 0 for None
  made,       \* proxies created so far
  on,         \* Proxy._continue
  cmds,       \* Proxy.queue_in
  run,        \* the command Proxy.Process holds, or None
  ran,        \* its handler has returned, AfterCommand is next
  \* threads
  pc,         \* idle, fire, send, auto, trigger, reload, dead
  tmp,        \* CheckTimeout's copy of last_command_timeout
  pending,    \* commands the thread still passes to ProcessCommand
  left,       \* packages TriggerAutoInstall still goes through
  inHandler,  \* the master thread is inside ProcessIncome's try block
  pmap,       \* keys of PhoneLogic.package_map
  uis, scans, reloads, \* work left for the environment
  everTimedOut         \* history: packages a timeout was recorded for

masterVars == <<queueIn, timer, auto, listed, loaded>>
deviceVars == <<held, minSub, lastSub, subId, installed, failed, pkgSet, imei>>
proxyVars  == <<cur, made, on, cmds, run, ran>>
threadVars == <<pc, tmp, pending, left, inHandler, pmap>>
envVars    == <<uis, scans, reloads, everTimedOut>>
vars == <<masterVars, deviceVars, proxyVars, threadVars, envVars>>

Init ==
  /\ queueIn = <<>> /\ timer = None
  /\ auto = FALSE /\ listed = FALSE /\ loaded = FALSE
  /\ held = "absent" /\ minSub = 0 /\ lastSub = 0 /\ subId = 0
  /\ installed = {} /\ failed = [p \in Packages |-> None]
  /\ pkgSet = None /\ imei = FALSE
  /\ cur = 0 /\ made = 0
  /\ on = [g \in Proxies |-> FALSE] /\ cmds = [g \in Proxies |-> <<>>]
  /\ run = [g \in Proxies |-> None] /\ ran = [g \in Proxies |-> FALSE]
  /\ pc = [t \in Threads |-> "idle"] /\ tmp = [t \in Threads |-> None]
  /\ pending = [t \in Threads |-> <<>>] /\ left = [t \in Threads |-> {}]
  /\ inHandler = FALSE /\ pmap = {}
  /\ uis = MaxUi /\ scans = MaxScan /\ reloads = MaxReload
  /\ everTimedOut = {}

-----------------------------------------------------------------------------
(* OneDevice *)

DevTodo == IF held = "map" THEN pmap ELSE {}

IsTimeOut(p) == failed[p] # None /\ failed[p].code = "timeout"

\* AddInstallFailed
Failure(item, code, msg) ==
  IF item = None THEN [try |-> 1, code |-> code, msg |-> msg, inner |-> 0]
                 ELSE [item EXCEPT !.try = @ + 1, !.code = code, !.msg = msg]

\* FailedItem._GenInnerErrorCode: an unknown message keeps the old code.
InnerCode(item) ==
  CASE item.msg = "downgrade" -> 1
    [] item.msg = "fatal"     -> 1000
    [] OTHER                  -> item.inner

CanTryAgain(item) == item.try < MaxTry /\ InnerCode(item) < 1000

\* FailedItem.TryAgain: what it leaves in the item.
TryAgain(item) ==
  [item EXCEPT !.inner = InnerCode(item), !.try = IF CanTryAgain(item) THEN @ ELSE MaxTry]

\* NotifyInstallApkDigest looks every recorded package up in
\* todo_install_apk_map; a missing one is a KeyError.
DigestOK(ins, fail) ==
  ins \cup {p \in Packages : fail[p] # None} \subseteq DevTodo

\* MaybeCreate, with g the proxy the device then has.
MaybeCreate(g) ==
  \/ /\ cur # 0 /\ g = cur
     /\ UNCHANGED <<cur, made, on>>
  \/ /\ cur = 0 /\ made < MaxProxy /\ g = made + 1
     /\ cur' = g /\ made' = g
     /\ on' = [on EXCEPT ![g] = TRUE]

\* Mutant of SendCommand: last_sub_command_id is taken before the id is.
SendCommandLastTooEarly(g, c, base) ==
  IF g = 0
  THEN subId' = base /\ UNCHANGED <<lastSub, cmds>>
  ELSE /\ base < MaxSub
       /\ subId' = base + 1 /\ lastSub' = base
       /\ cmds' = [cmds EXCEPT ![g] = Append(@, [c EXCEPT !.sub = base + 1])]

\* OneDevice.SendCommand to proxy g, when base ids are already used up.
SendCommand(g, c, base) ==
  IF g = 0
  THEN subId' = base /\ UNCHANGED <<lastSub, cmds>>
  ELSE /\ base < MaxSub
       /\ subId' = base + 1 /\ lastSub' = base + 1
       /\ cmds' = [cmds EXCEPT ![g] = Append(@, [c EXCEPT !.sub = base + 1])]

\* OneDevice.ProcessInstallApk: a forced command goes to the proxy; others
\* are answered at once when the package is installed or has timed out.
ProcessInstallApk(g, c, base) ==
  LET op  == IF c.op # "none" THEN c.op
             ELSE IF pkgSet # None /\ c.pkg \in pkgSet THEN "delete" ELSE "just"
      one == [c EXCEPT !.op = op, !.sub = base + 1]
      Skip(why) ==
        /\ queueIn' = Append(queueIn, [type |-> "reply", from |-> 0, cmd |-> one, res |-> why])
        /\ subId' = base + 1
        /\ UNCHANGED <<lastSub, cmds>>
  IN  /\ base < MaxSub
      /\ \/ /\ c.force \/ (c.pkg \notin installed /\ ~IsTimeOut(c.pkg))
            /\ SendCommand(g, one, base + 1)
            /\ UNCHANGED queueIn
         \/ ~c.force /\ c.pkg \in installed /\ Skip("skip_installed")
         \/ ~c.force /\ c.pkg \notin installed /\ IsTimeOut(c.pkg) /\ Skip("skip_timeout")

-----------------------------------------------------------------------------
(* Proxy threads *)

\* Mutant of ProxyTake: a forced install starts no timer.
ProxyTakeForcedUntimed(g) ==
  /\ on[g] /\ run[g] = None /\ cmds[g] # <<>>
  /\ run' = [run EXCEPT ![g] = Head(cmds[g])]
  /\ cmds' = [cmds EXCEPT ![g] = Tail(@)]
  /\ IF Head(cmds[g]).kind = "install" /\ ~Head(cmds[g]).force
     THEN queueIn' = Append(queueIn, [type |-> "start", from |-> g, cmd |-> Head(cmds[g])])
     ELSE UNCHANGED queueIn
  /\ UNCHANGED <<timer, auto, listed, loaded, deviceVars, cur, made, on, ran, threadVars, envVars>>

\* DealWithIncomeQueue takes a command; BeforeCommand arms the timer of an
\* install.
ProxyTake(g) ==
  /\ on[g] /\ run[g] = None /\ cmds[g] # <<>>
  /\ run' = [run EXCEPT ![g] = Head(cmds[g])]
  /\ cmds' = [cmds EXCEPT ![g] = Tail(@)]
  /\ IF Head(cmds[g]).kind = "install"
     THEN queueIn' = Append(queueIn, [type |-> "start", from |-> g, cmd |-> Head(cmds[g])])
     ELSE UNCHANGED queueIn
  /\ UNCHANGED <<timer, auto, listed, loaded, deviceVars, cur, made, on, ran, threadVars, envVars>>

\* ProcessInstallApk returns after adb has reported one of AdbOutcomes.
ProxyInstall(g) ==
  /\ run[g] # None /\ run[g].kind = "install" /\ ~ran[g]
  /\ \E out \in AdbOutcomes :
       queueIn' = queueIn \o
         [i \in 1..Len(out) |-> [type |-> "reply", from |-> g, cmd |-> run[g], res |-> out[i]]]
  /\ ran' = [ran EXCEPT ![g] = TRUE]
  /\ UNCHANGED <<timer, auto, listed, loaded, deviceVars, cur, made, on, cmds, run, threadVars, envVars>>

\* Mutant of ProxyAfterInstall: AfterCommand forgets the timer.
ProxyAfterInstallNoStop(g) ==
  /\ ran[g]
  /\ run' = [run EXCEPT ![g] = None]
  /\ ran' = [ran EXCEPT ![g] = FALSE]
  /\ UNCHANGED <<masterVars, deviceVars, cur, made, on, cmds, threadVars, envVars>>

\* AfterCommand stops the timer of an install, by serial number.
ProxyAfterInstall(g) ==
  /\ ran[g]
  /\ queueIn' = Append(queueIn, [type |-> "stop", from |-> g, cmd |-> run[g]])
  /\ run' = [run EXCEPT ![g] = None]
  /\ ran' = [ran EXCEPT ![g] = FALSE]
  /\ UNCHANGED <<timer, auto, listed, loaded, deviceVars, cur, made, on, cmds, threadVars, envVars>>

\* ProcessGetPackageList, ProcessIMEI; adb may fail and then nothing is sent.
ProxyInfo(g) ==
  /\ run[g] # None /\ run[g].kind # "install"
  /\ \/ UNCHANGED queueIn
     \/ /\ run[g].kind = "list"
        /\ \E S \in SUBSET Packages :
             queueIn' = Append(queueIn, [type |-> "packages", set |-> S])
     \/ /\ run[g].kind = "imei"
        /\ queueIn' = Append(queueIn, [type |-> "imei"])
  /\ run' = [run EXCEPT ![g] = None]
  /\ UNCHANGED <<timer, auto, listed, loaded, deviceVars, cur, made, on, cmds, ran, threadVars, envVars>>

ProxyStep(g) == ProxyTake(g) \/ ProxyInstall(g) \/ ProxyAfterInstall(g) \/ ProxyInfo(g)

-----------------------------------------------------------------------------
(* Master: what both threads run *)

\* An exception that leaves the current call: swallowed by ProcessIncome,
\* otherwise the thread's target returns and the thread is gone.
Raise(t) ==
  LET swallowed == t = "master" /\ inHandler
  IN  /\ pc' = [pc EXCEPT ![t] = IF swallowed THEN "idle" ELSE "dead"]
      /\ inHandler' = IF swallowed THEN FALSE ELSE inHandler

\* Return to the thread's loop.
Leave(t) ==
  /\ pc' = [pc EXCEPT ![t] = "idle"]
  /\ inHandler' = IF t = "master" THEN FALSE ELSE inHandler

\* ProcessCommand for each of the commands: it begins with CheckTimeout,
\* which copies the timeout map.  An empty sequence is CheckTimeout alone.
BeginCommands(t, seq) ==
  /\ pc' = [pc EXCEPT ![t] = "fire"]
  /\ tmp' = [tmp EXCEPT ![t] = timer]
  /\ pending' = [pending EXCEPT ![t] = seq]

AfterCheck(t) == IF pending[t] = <<>> THEN "auto" ELSE "send"

\* CheckTimeout with nothing in the copy, or nothing expired.
NoTimeout(t) ==
  /\ pc[t] = "fire"
  /\ pc' = [pc EXCEPT ![t] = AfterCheck(t)]
  /\ UNCHANGED <<masterVars, deviceVars, proxyVars, tmp, pending, left, inHandler, pmap, envVars>>

\* CheckTimeout with an expired entry: pop it (KeyError if the other thread
\* did), record the timeout, send the digest, drop the proxy (_Remove).
Timeout(t) ==
  /\ pc[t] = "fire" /\ tmp[t] # None /\ made < MaxProxy
  /\ IF timer = None
     THEN /\ Raise(t)
          /\ UNCHANGED <<timer, minSub, failed, cur, on, everTimedOut>>
     ELSE LET p == tmp[t].cmd.pkg
          IN  /\ timer' = None
              /\ failed' = [failed EXCEPT ![p] = Failure(@, "timeout", "timeout")]
              /\ everTimedOut' = everTimedOut \cup {p}
              /\ IF DigestOK(installed, failed')
                 THEN /\ minSub' = lastSub /\ cur' = 0
                      /\ on' = [g \in Proxies |-> on[g] /\ g # cur]
                      /\ pc' = [pc EXCEPT ![t] = AfterCheck(t)]
                      /\ UNCHANGED inHandler
                 ELSE Raise(t) /\ UNCHANGED <<minSub, cur, on>>
  /\ UNCHANGED <<queueIn, auto, listed, loaded, held, lastSub, subId, installed, pkgSet, imei,
                 made, cmds, run, ran, tmp, pending, left, pmap, uis, scans, reloads>>

\* The rest of ProcessCommand: _Add, then ProcessInstallApk or SendCommand.
Send(t) ==
  /\ pc[t] = "send"
  /\ \E g \in Proxies :
       /\ MaybeCreate(g)
       /\ LET c == Head(pending[t])
          IN  IF c.kind = "install" THEN ProcessInstallApk(g, c, subId)
              ELSE SendCommand(g, c, subId) /\ UNCHANGED queueIn
  /\ IF Len(pending[t]) > 1
     THEN BeginCommands(t, Tail(pending[t])) /\ UNCHANGED inHandler
     ELSE /\ pending' = [pending EXCEPT ![t] = <<>>]
          /\ UNCHANGED tmp
          /\ IF t = "master" THEN pc' = [pc EXCEPT ![t] = "auto"] /\ UNCHANGED inHandler
                             ELSE Leave(t)
  /\ UNCHANGED <<timer, auto, listed, loaded, held, minSub, installed, failed, pkgSet, imei,
                 run, ran, left, pmap, envVars>>

\* Mutant of BeginTrigger: the loop goes over more than the device's own map.
BeginTriggerForeignMap(t) ==
  /\ pc[t] = "auto"
  /\ IF auto /\ listed
     THEN \E g \in Proxies :
            /\ MaybeCreate(g)
            /\ IF cmds[g] = <<>>
               THEN /\ left' = [left EXCEPT ![t] = Packages]
                    /\ pc' = [pc EXCEPT ![t] = "trigger"]
                    /\ UNCHANGED inHandler
               ELSE Leave(t) /\ UNCHANGED left
     ELSE Leave(t) /\ UNCHANGED <<cur, made, on, left>>
  /\ UNCHANGED <<masterVars, deviceVars, cmds, run, ran, tmp, pending, pmap, envVars>>

\* Mutant of BeginTrigger: Empty() is not asked.
BeginTriggerNotEmpty(t) ==
  /\ pc[t] = "auto"
  /\ IF auto /\ listed
     THEN /\ \E g \in Proxies : MaybeCreate(g)
          /\ left' = [left EXCEPT ![t] = DevTodo]
          /\ pc' = [pc EXCEPT ![t] = "trigger"]
          /\ UNCHANGED inHandler
     ELSE Leave(t) /\ UNCHANGED <<cur, made, on, left>>
  /\ UNCHANGED <<masterVars, deviceVars, cmds, run, ran, tmp, pending, pmap, envVars>>

\* Mutant of BeginTrigger: only entering the automatic mode triggers, Work
\* does not.
BeginTriggerOnEntryOnly(t) ==
  /\ pc[t] = "auto"
  /\ IF auto /\ listed /\ t = "phone"
     THEN \E g \in Proxies :
            /\ MaybeCreate(g)
            /\ IF cmds[g] = <<>>
               THEN /\ left' = [left EXCEPT ![t] = DevTodo]
                    /\ pc' = [pc EXCEPT ![t] = "trigger"]
                    /\ UNCHANGED inHandler
               ELSE Leave(t) /\ UNCHANGED left
     ELSE Leave(t) /\ UNCHANGED <<cur, made, on, left>>
  /\ UNCHANGED <<masterVars, deviceVars, cmds, run, ran, tmp, pending, pmap, envVars>>

\* TriggerAutoInstall up to the loop over the packages.
BeginTrigger(t) ==
  /\ pc[t] = "auto"
  /\ IF auto /\ listed
     THEN \E g \in Proxies :
            /\ MaybeCreate(g)
            /\ IF cmds[g] = <<>>
               THEN /\ left' = [left EXCEPT ![t] = DevTodo]
                    /\ pc' = [pc EXCEPT ![t] = "trigger"]
                    /\ UNCHANGED inHandler
               ELSE Leave(t) /\ UNCHANGED left
     ELSE Leave(t) /\ UNCHANGED <<cur, made, on, left>>
  /\ UNCHANGED <<masterVars, deviceVars, cmds, run, ran, tmp, pending, pmap, envVars>>

\* One round of that loop: MayTryAgain unless the package is installed.
\* _GenInstallApkCommand takes an id of its own and looks the package up in
\* todo_install_apk_map.
TriggerOne(t, p) ==
  /\ pc[t] = "trigger" /\ p \in left[t]
  /\ left' = [left EXCEPT ![t] = @ \ {p}]
  /\ LET item  == failed[p]
         again == item = None \/ CanTryAgain(item)
         op    == IF item # None /\ InnerCode(item) = 1 THEN "delete" ELSE "none"
         c     == [kind |-> "install", pkg |-> p, force |-> FALSE, op |-> op, sub |-> 0]
     IN  IF p \in installed
         THEN UNCHANGED <<queueIn, lastSub, subId, failed, cmds, pc, inHandler>>
         ELSE /\ failed' = IF item = None THEN failed
                           ELSE [failed EXCEPT ![p] = TryAgain(@)]
              /\ IF ~again
                 THEN UNCHANGED <<queueIn, lastSub, subId, cmds, pc, inHandler>>
                 ELSE IF p \notin DevTodo
                 THEN /\ subId < MaxSub /\ subId' = subId + 1
                      /\ Raise(t)
                      /\ UNCHANGED <<queueIn, lastSub, cmds>>
                 ELSE /\ ProcessInstallApk(cur, c, subId + 1)
                      /\ UNCHANGED <<pc, inHandler>>
  /\ UNCHANGED <<timer, auto, listed, loaded, held, minSub, installed, pkgSet, imei,
                 cur, made, on, run, ran, tmp, pending, pmap, envVars>>

\* The loop is over: the digest goes to the user interface.
EndTrigger(t) ==
  /\ pc[t] = "trigger" /\ left[t] = {}
  /\ IF DigestOK(installed, failed) THEN Leave(t) ELSE Raise(t)
  /\ UNCHANGED <<masterVars, deviceVars, proxyVars, tmp, pending, left, pmap, envVars>>

-----------------------------------------------------------------------------
(* Master thread: Work and ProcessIncome *)

MasterIdle == pc["master"] = "idle"

\* DealWithIncomeQueue pops the message the handler below works on.
Pop(type) ==
  /\ MasterIdle
  /\ queueIn # <<>> /\ Head(queueIn).type = type
  /\ queueIn' = Tail(queueIn)

\* ProcessStartCheckTimeOut
MasterStart ==
  /\ Pop("start")
  /\ timer' = [from |-> Head(queueIn).from, cmd |-> Head(queueIn).cmd]
  /\ UNCHANGED <<auto, listed, loaded, deviceVars, proxyVars, threadVars, envVars>>

\* ProcessStopCheckTimeOut pops by serial, whichever proxy asks.
MasterStop ==
  /\ Pop("stop")
  /\ timer' = None
  /\ UNCHANGED <<auto, listed, loaded, deviceVars, proxyVars, threadVars, envVars>>

\* ProcessInstallApkResponse for a final reply; everything up to
\* minSub is a late answer of a stopped proxy.
MasterReply ==
  /\ Pop("reply")
  /\ LET m == Head(queueIn)
         p == m.cmd.pkg
     IN  IF m.cmd.sub > minSub
         THEN IF m.res = "success"
              THEN /\ installed' = installed \cup {p}
                   /\ failed' = [failed EXCEPT ![p] = None]
              ELSE /\ failed' = [failed EXCEPT ![p] = Failure(@, "adb", m.res)]
                   /\ UNCHANGED installed
         ELSE UNCHANGED <<installed, failed>>
  /\ UNCHANGED <<timer, auto, listed, loaded, held, minSub, lastSub, subId, pkgSet, imei,
                 proxyVars, threadVars, envVars>>

\* ProcessPackageListResponse and ProcessIMEIResponse
MasterInfo ==
  /\ \/ /\ Pop("packages")
        /\ pkgSet' = Head(queueIn).set
        /\ UNCHANGED imei
     \/ /\ Pop("imei")
        /\ imei' = TRUE
        /\ UNCHANGED pkgSet
  /\ UNCHANGED <<timer, auto, listed, loaded, held, minSub, lastSub, subId, installed, failed,
                 proxyVars, threadVars, envVars>>

\* Mutant of Ask: the two parameters are swapped.
AskSwapped(kind, p, force) == [kind |-> kind, pkg |-> force, force |-> p, op |-> "none", sub |-> 0]

\* A command OneDevice is asked for: kind, package, force.
Ask(kind, p, force) == [kind |-> kind, pkg |-> p, force |-> force, op |-> "none", sub |-> 0]

\* ProcessScanDevicesResponse: the list is replaced; a listed phone gets its
\* OneDevice and is asked for what is not known of it yet.
MasterDevices ==
  /\ Pop("devices")
  /\ listed' = Head(queueIn).present
  /\ inHandler' = TRUE
  /\ LET asks == (IF imei THEN <<>> ELSE <<Ask("imei", None, FALSE)>>)
                 \o (IF pkgSet # None /\ pkgSet # {} THEN <<>> ELSE <<Ask("list", None, FALSE)>>)
     IN  IF Head(queueIn).present
         THEN /\ \E g \in Proxies : MaybeCreate(g)
              /\ held' = IF held = "absent" THEN (IF loaded THEN "map" ELSE "empty") ELSE held
              /\ IF asks # <<>> THEN BeginCommands("master", asks)
                 ELSE pc' = [pc EXCEPT !["master"] = "auto"] /\ UNCHANGED <<tmp, pending>>
         ELSE /\ pc' = [pc EXCEPT !["master"] = "auto"]
              /\ UNCHANGED <<held, cur, made, on, tmp, pending>>
  /\ UNCHANGED <<timer, auto, loaded, minSub, lastSub, subId, installed, failed, pkgSet, imei,
                 cmds, run, ran, left, pmap, envVars>>

\* Work, once the queue is drained: CheckTimeout, then TriggerAutoInstall.
MasterCheckTimeout ==
  /\ MasterIdle /\ queueIn = <<>>
  /\ BeginCommands("master", <<>>)
  /\ UNCHANGED <<masterVars, deviceVars, proxyVars, left, inHandler, pmap, envVars>>

-----------------------------------------------------------------------------
(* Phone thread: PhoneLogic.DealMsg *)

PhoneIdle == pc["phone"] = "idle"

\* ProcessInstallApk3 and ProcessGetPackageList, for a listed phone.
PhoneCommand(c) ==
  /\ PhoneIdle /\ listed /\ uis > 0
  /\ uis' = uis - 1
  /\ BeginCommands("phone", <<c>>)
  /\ UNCHANGED <<masterVars, deviceVars, proxyVars, left, inHandler, pmap, scans, reloads, everTimedOut>>

PhoneInstall(force) ==
  /\ (IF force THEN "force" ELSE "install") \in UiCommands
  /\ \E p \in Packages : PhoneCommand(Ask("install", p, force))

PhonePackageList == "list" \in UiCommands /\ PhoneCommand(Ask("list", None, FALSE))

\* EnterAutoInstall
PhoneAutoInstall(mode) ==
  /\ (IF mode THEN "auto_on" ELSE "auto_off") \in UiCommands
  /\ PhoneIdle /\ uis > 0
  /\ uis' = uis - 1
  /\ auto' = mode
  /\ IF mode THEN pc' = [pc EXCEPT !["phone"] = "auto"] ELSE UNCHANGED pc
  /\ UNCHANGED <<queueIn, timer, listed, loaded, deviceVars, proxyVars, tmp, pending, left,
                 inHandler, pmap, scans, reloads, everTimedOut>>

\* ProcessGetLocalPackageList empties package_map, which Master and OneDevice
\* share, ...
PhoneClearApkList ==
  /\ PhoneIdle /\ reloads > 0
  /\ reloads' = reloads - 1
  /\ pmap' = {}
  /\ pc' = [pc EXCEPT !["phone"] = "reload"]
  /\ UNCHANGED <<masterVars, deviceVars, proxyVars, tmp, pending, left, inHandler, uis, scans, everTimedOut>>

\* ... fills it again and hands it to Master.UpdateApkList.
PhoneUpdateApkList ==
  /\ pc["phone"] = "reload"
  /\ pmap' \in SUBSET Packages
  /\ loaded' = TRUE
  /\ IF listed THEN held' = "map" /\ \E g \in Proxies : MaybeCreate(g)
               ELSE UNCHANGED <<held, cur, made, on>>
  /\ pc' = [pc EXCEPT !["phone"] = "idle"]
  /\ UNCHANGED <<queueIn, timer, auto, listed, minSub, lastSub, subId, installed, failed, pkgSet, imei,
                 cmds, run, ran, tmp, pending, left, inHandler, envVars>>

-----------------------------------------------------------------------------
\* The proxy of "-" has run "adb devices" (Proxy.ProcessScanDevices).
DevicesFound(present) ==
  /\ scans > 0
  /\ scans' = scans - 1
  /\ queueIn' = Append(queueIn, [type |-> "devices", present |-> present])
  /\ UNCHANGED <<timer, auto, listed, loaded, deviceVars, proxyVars, threadVars, uis, reloads, everTimedOut>>

CallStep(t) ==
  \/ NoTimeout(t) \/ Timeout(t) \/ Send(t)
  \/ BeginTrigger(t) \/ (\E p \in Packages : TriggerOne(t, p)) \/ EndTrigger(t)

MasterStep ==
  \/ MasterStart \/ MasterStop \/ MasterReply \/ MasterInfo \/ MasterDevices
  \/ MasterCheckTimeout

PhoneStep ==
  \/ (\E force \in BOOLEAN : PhoneInstall(force)) \/ PhonePackageList
  \/ (\E mode \in BOOLEAN : PhoneAutoInstall(mode))
  \/ PhoneClearApkList \/ PhoneUpdateApkList

Next ==
  \/ \E g \in Proxies : ProxyStep(g)
  \/ \E t \in Threads : CallStep(t)
  \/ MasterStep
  \/ PhoneStep
  \/ \E present \in BOOLEAN : DevicesFound(present)

Spec == Init /\ [][Next]_vars

\* The daemon threads keep looping and adb returns in the end; the user and
\* the phones owe nothing.
Fairness ==
  /\ \A g \in Proxies : WF_vars(ProxyStep(g))
  /\ \A t \in Threads : WF_vars(CallStep(t))
  /\ WF_vars(MasterStep)
  /\ WF_vars(PhoneUpdateApkList)

FairSpec == Spec /\ Fairness

-----------------------------------------------------------------------------
(* Properties *)

\* Every variable has its type.
TypeOK ==
  /\ queueIn \in Seq(Message)
  /\ timer \in TimerEntry \cup {None}
  /\ auto \in BOOLEAN /\ listed \in BOOLEAN /\ loaded \in BOOLEAN
  /\ held \in {"absent", "empty", "map"}
  /\ minSub \in Nat /\ lastSub \in Nat /\ subId \in Nat
  /\ installed \subseteq Packages
  /\ failed \in [Packages -> FailedItem \cup {None}]
  /\ pkgSet \in (SUBSET Packages) \cup {None} /\ imei \in BOOLEAN
  /\ cur \in 0..MaxProxy /\ made \in 0..MaxProxy
  /\ on \in [Proxies -> BOOLEAN] /\ cmds \in [Proxies -> Seq(Command)]
  /\ run \in [Proxies -> Command \cup {None}] /\ ran \in [Proxies -> BOOLEAN]
  /\ pc \in [Threads -> {"idle", "fire", "send", "auto", "trigger", "reload", "dead"}]
  /\ tmp \in [Threads -> TimerEntry \cup {None}]
  /\ pending \in [Threads -> Seq(Command)]
  /\ left \in [Threads -> SUBSET Packages]
  /\ inHandler \in BOOLEAN /\ pmap \subseteq Packages
  /\ uis \in Nat /\ scans \in Nat /\ reloads \in Nat
  /\ everTimedOut \subseteq Packages

\* The promise of min_sub_command_id: of the replies waiting in queue_in,
\* ProcessInstallApkResponse will count exactly those of the current proxy,
\* and ignore those of every proxy a timeout has stopped.
RepliesOfLiveProxyOnly ==
  \A i \in DOMAIN queueIn :
    queueIn[i].type = "reply" /\ queueIn[i].from # 0
      => (queueIn[i].cmd.sub > minSub <=> queueIn[i].from = cur)

\* An install is timed while adb runs: its entry is in last_command_timeout
\* or the message that makes it is still in queue_in.
Timed(g) ==
  \/ timer # None /\ timer.from = g /\ timer.cmd = run[g]
  \/ \E i \in DOMAIN queueIn :
       queueIn[i].type = "start" /\ queueIn[i].from = g /\ queueIn[i].cmd = run[g]

Installing(g) == run[g] # None /\ run[g].kind = "install" /\ ~ran[g]

\* Until the first timeout, no adb install runs without a timer: neither the
\* stop message of the install before it nor the order of the queue takes
\* the timer away.
InstallTimedUntilFirstTimeout ==
  everTimedOut = {} => \A g \in Proxies : Installing(g) => Timed(g)

\* No timer outlives its install: as long as the entry is there the install
\* still runs, or the message that removes the entry is in queue_in.
NoDanglingTimer ==
  timer # None =>
    \/ run[timer.from] = timer.cmd
    \/ \E i \in DOMAIN queueIn :
         queueIn[i].type = "stop" /\ queueIn[i].from = timer.from /\ queueIn[i].cmd = timer.cmd

\* The master thread never dies of a KeyError (for a session with one apk
\* list whose only commands are the automatic ones).
MasterSurvives == pc["master"] # "dead"

\* TriggerAutoInstall tests Empty() and queues later, on two threads: a
\* package waits at most once per thread in the queue of the proxy.
QueuedOncePerThread ==
  \A g \in Proxies, p \in Packages :
    Cardinality({i \in DOMAIN cmds[g] : cmds[g][i].pkg = p}) <= Cardinality(Threads)

\* A package is settled when it is installed or will not be tried again.
Settled(p) == p \in installed \/ (failed[p] # None /\ ~CanTryAgain(failed[p]))

\* Automatic mode: while the phone stays listed, every package of the list
\* is installed or given up in the end.
AutoInstallSettles ==
  \A p \in Packages : <>[](auto /\ listed /\ p \in DevTodo) => <>Settled(p)

-----------------------------------------------------------------------------
(* What the comments of the code say and the code does not do *)

\* master.py:109: a thread that could not be killed does not interfere with
\* its later replies: the install a successor runs keeps its timer.
SuccessorTimed == cur > 1 /\ Installing(cur) => Timed(cur)

\* master.py:92: a package that timed out is not installed again unless forced.
NoRetryAfterTimeout ==
  [][\A g \in Proxies :
       ProxyTake(g) /\ run'[g].kind = "install" /\ ~run'[g].force
         => run'[g].pkg \notin everTimedOut]_vars
=============================================================================
