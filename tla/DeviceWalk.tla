------------------------------ MODULE DeviceWalk ------------------------------
(***************************************************************************)
(* Several phones: the phone thread walks over last_devices_list and hands *)
(* one Command object to every phone, while the master thread rebuilds the *)
(* list, creates devices and stops their proxies.  DeviceMaster has one    *)
(* phone and takes what Master does for a command as few steps; here the   *)
(* steps of _Add, MaybeCreate, _GenSubCommandID and SendCommand are apart. *)
(*                                                                         *)
(* Lists, OneDevice objects, proxies and commands are numbered in the      *)
(* order of their creation: a thread keeps the object it has read, and the *)
(* names in Master may stand for another one by then.  What adb reports,   *)
(* the automatic mode and the records of packages are DeviceMaster's.      *)
(***************************************************************************)
EXTENDS Naturals, Sequences, SequencesExt, FiniteSets

CONSTANTS
  Phone,      \* serial numbers
  None,
  Sessions,   \* bounds: what may happen in a session, one of them
  MaxDevice, MaxProxy \* bounds: objects made

Thread == {"phone", "master"}

ASSUME WalkAssumption ==
  /\ None \notin Phone
  /\ MaxDevice \in Nat /\ MaxProxy \in Nat
  \* the lists "adb devices" prints and the walks, in this order, the commands
  \* of the master thread's own, and the timers that expire
  /\ Sessions \subseteq [found : Seq(Seq(Phone)), walks : Seq({"install", "info", "update"}),
                         infos : Nat, timeouts : Nat]
  /\ \A x \in Sessions : \A i \in DOMAIN x.found : IsInjective(x.found[i])

VARIABLES
  lists,    \* the list objects; the last one is last_devices_list
  known,    \* keys of last_devices_map
  device,   \* devices_map, 0 for an absent key
  devs,     \* the OneDevice objects: their numbers and proxy (0 for None)
  proxies,  \* the Proxy objects: phone, started, on (_continue), queue, run
  cmds,     \* the Command objects: kind, sub_cmd_no, the operations appended
  queueIn,  \* Master.queue_in
  timer,    \* last_command_timeout has an entry of the phone
  pc,       \* where a thread is
  at,       \* its local variables: list, position, phone, device, command
  session,  \* what may still happen
  walk,     \* history of the current walk: what it began with, what it reached
  shared,   \* history: commands numbered by more than one phone
  raced,    \* history: phones two threads made a device or numbers for at once
  done      \* history: which operations each command was run with

masterVars == <<lists, known, device, timer>>
objectVars == <<devs, proxies, cmds>>
history    == <<walk, shared, raced, done>>
vars == <<masterVars, objectVars, queueIn, pc, at, session, history>>

Nowhere == [list |-> 0, pos |-> 0, phone |-> None, dev |-> 0, own |-> FALSE, cmd |-> 0, num |-> 0]
NoWalk  == [list |-> <<>>, ready |-> FALSE, reached |-> <<>>]

Init ==
  /\ lists = <<<<>>>> /\ known = {} /\ device = [s \in Phone |-> 0]
  /\ devs = <<>> /\ proxies = <<>> /\ cmds = <<>>
  /\ queueIn = <<>> /\ timer = [s \in Phone |-> FALSE]
  /\ pc = [t \in Thread |-> "idle"] /\ at = [t \in Thread |-> Nowhere]
  /\ session \in Sessions
  /\ walk = NoWalk /\ shared = {} /\ raced = {} /\ done = {}

Spend(e) == session[e] > 0 /\ session' = [session EXCEPT ![e] = @ - 1]
TakeNext(e) == session[e] # <<>> /\ session' = [session EXCEPT ![e] = Tail(@)]

-----------------------------------------------------------------------------
(* What every step of a thread says of the thread *)

Goto(t, label)  == pc' = [pc EXCEPT ![t] = label]
From(t, label)  == pc[t] = label
Stay(t)         == at' = at
Local(t, new)   == at' = [at EXCEPT ![t] = new]

\* An exception ends the phone thread; ProcessIncome logs it.
Raise(t) ==
  /\ Goto(t, IF t = "phone" THEN "dead" ELSE "idle")
  /\ Local(t, Nowhere)

Other(t) == IF t = "phone" THEN "master" ELSE "phone"
Numbering(t, d) == pc[t] \in {"gen1w", "gen2", "gen2w", "put"} /\ at[t].dev = d

-----------------------------------------------------------------------------
(* Walking over the list: PhoneLogic, and Master in ProcessScanDevicesResponse *)

Ready(list) == \A i \in DOMAIN list : LET d == device[list[i]] IN d # 0 /\ devs[d].proxy # 0

\* ProcessInstallApk3, ProcessGetPackageList and ProcessRefresh; "update" is
\* UpdateApkList, which only adds the devices.
BeginWalk ==
  /\ From("phone", "idle") /\ TakeNext("walks")
  /\ LET kind == Head(session.walks) IN
     IF kind = "update" THEN UNCHANGED cmds
     ELSE cmds' = Append(cmds, [kind |-> kind, sub |-> 0, ops |-> <<>>])
  /\ Goto("phone", "next")
  /\ Local("phone", [Nowhere EXCEPT !.list = Len(lists), !.pos = 1,
                                    !.cmd = IF Head(session.walks) = "update" THEN 0 ELSE Len(cmds')])
  /\ walk' = [list |-> Last(lists), reached |-> <<>>,
              ready |-> pc["master"] \notin {"fill", "map", "new"} /\ Ready(Last(lists))]
  /\ UNCHANGED <<masterVars, devs, proxies, queueIn, shared, raced, done>>

\* The for statement: the next phone, or the end of the list as it is now.
NextPhone(t) ==
  /\ From(t, "next")
  /\ LET list == lists[at[t].list] IN
       IF at[t].pos > Len(list)
       THEN Goto(t, "idle") /\ Local(t, Nowhere)
       ELSE Goto(t, "add") /\ Local(t, [at[t] EXCEPT !.phone = list[at[t].pos], !.pos = @ + 1])
  /\ UNCHANGED <<masterVars, objectVars, queueIn, session, history>>

\* The master thread asks a phone for its IMEI and its packages, or goes on.
Ask ==
  /\ From("master", "ask")
  /\ \/ /\ Spend("infos")
        /\ cmds' = Append(cmds, [kind |-> "info", sub |-> 0, ops |-> <<>>])
        /\ Goto("master", "add") /\ Local("master", [at["master"] EXCEPT !.cmd = Len(cmds')])
     \/ /\ Goto("master", "next") /\ Stay("master")
        /\ UNCHANGED <<session, cmds>>
  /\ UNCHANGED <<masterVars, devs, proxies, queueIn, history>>

\* After a phone: its command is sent, given up or answered.
Handled(t) ==
  /\ Goto(t, IF t = "master" THEN "ask" ELSE "next")
  /\ Local(t, [at[t] EXCEPT !.cmd = IF t = "master" THEN 0 ELSE @,
                            !.dev = 0, !.own = FALSE, !.num = 0])
Reached(t) ==
  walk' = IF t = "phone" THEN [walk EXCEPT !.reached = Append(@, at[t].phone)] ELSE walk

-----------------------------------------------------------------------------
(* Master.ProcessCommand: CheckTimeout, then _Add *)

\* CheckTimeout with an expired timer: the device is stopped and loses its
\* proxy.  The master thread also calls it in its loop.
CheckTimeout(t, s) ==
  /\ \/ From(t, "add") /\ at[t].cmd # 0
     \/ From(t, "idle") /\ t = "master"
  /\ timer[s] /\ Spend("timeouts")
  /\ timer' = [timer EXCEPT ![s] = FALSE]
  /\ LET d == device[s]
         g == devs[d].proxy
     IN /\ devs' = [devs EXCEPT ![d].minSub = devs[d].lastSub, ![d].proxy = 0]
        /\ proxies' = IF g = 0 THEN proxies ELSE [proxies EXCEPT ![g].on = FALSE]
  /\ walk' = [walk EXCEPT !.ready = FALSE]
  /\ UNCHANGED <<lists, known, device, cmds, queueIn, pc, at, shared, raced, done>>

\* _Add looks the serial number up, and MaybeCreate its proxy if it is there.
Add(t) ==
  /\ From(t, "add")
  /\ LET d == device[at[t].phone] IN
       /\ Goto(t, IF d = 0 THEN "new" ELSE IF devs[d].proxy = 0 THEN "create" ELSE "added")
       /\ Local(t, [at[t] EXCEPT !.dev = d, !.own = d = 0])
  /\ UNCHANGED <<masterVars, objectVars, queueIn, session, history>>

\* A new OneDevice reads the product in last_devices_map, or raises KeyError.
AddNew(t) ==
  /\ From(t, "new")
  /\ IF at[t].phone \in known
     THEN /\ Len(devs) < MaxDevice
          /\ devs' = Append(devs, [subId |-> 0, lastSub |-> 0, minSub |-> 0, proxy |-> 0])
          /\ device' = [device EXCEPT ![at[t].phone] = Len(devs')]
          /\ raced' = IF device[at[t].phone] # 0 THEN raced \cup {at[t].phone} ELSE raced
          /\ Goto(t, "maybe") /\ Local(t, [at[t] EXCEPT !.dev = Len(devs')])
     ELSE Raise(t) /\ UNCHANGED <<devs, device, raced>>
  /\ UNCHANGED <<lists, known, timer, proxies, cmds, queueIn, session, walk, shared, done>>

\* MaybeCreate of the new one, which the other thread may have found by now.
MaybeCreate(t) ==
  /\ From(t, "maybe")
  /\ Goto(t, IF devs[at[t].dev].proxy = 0 THEN "create" ELSE "added") /\ Stay(t)
  /\ UNCHANGED <<masterVars, objectVars, queueIn, session, history>>

\* Mutant of Create: the thread of the proxy is not started.
CreateUnstarted(t) ==
  /\ From(t, "create") /\ Len(proxies) < MaxProxy /\ Goto(t, "added") /\ Stay(t)
  /\ proxies' = Append(proxies, [phone |-> at[t].phone, started |-> FALSE, on |-> TRUE,
                                 queue |-> <<>>, run |-> 0])
  /\ devs' = [devs EXCEPT ![at[t].dev].proxy = Len(proxies')]
  /\ UNCHANGED <<masterVars, cmds, queueIn, session, history>>

Create(t) ==
  /\ From(t, "create") /\ Len(proxies) < MaxProxy /\ Goto(t, "start") /\ Stay(t)
  /\ proxies' = Append(proxies, [phone |-> at[t].phone, started |-> FALSE, on |-> TRUE,
                                 queue |-> <<>>, run |-> 0])
  /\ devs' = [devs EXCEPT ![at[t].dev].proxy = Len(proxies')]
  /\ UNCHANGED <<masterVars, cmds, queueIn, session, history>>

\* The proxy may be None or started by the other thread: both are errors.
Start(t) ==
  /\ From(t, "start")
  /\ LET g == devs[at[t].dev].proxy IN
       IF g # 0 /\ ~proxies[g].started
       THEN proxies' = [proxies EXCEPT ![g].started = TRUE] /\ Goto(t, "added") /\ Stay(t)
       ELSE Raise(t) /\ UNCHANGED proxies
  /\ UNCHANGED <<masterVars, devs, cmds, queueIn, session, history>>

\* _Add returns the object it made, or looks it up once more.
Added(t) ==
  /\ From(t, "added")
  /\ IF at[t].cmd = 0 THEN Handled(t) /\ Reached(t)
     ELSE /\ Local(t, [at[t] EXCEPT !.dev = IF at[t].own THEN @ ELSE device[at[t].phone],
                                    !.own = FALSE])
          /\ Goto(t, IF cmds[at[t].cmd].kind = "install" THEN "gen1" ELSE "gen2")
          /\ UNCHANGED walk
  /\ UNCHANGED <<masterVars, objectVars, queueIn, session, shared, raced, done>>

-----------------------------------------------------------------------------
(* OneDevice.ProcessInstallApk and SendCommand *)

\* _GenSubCommandID reads the number ...
ReadNumber(t) ==
  /\ Local(t, [at[t] EXCEPT !.num = devs[at[t].dev].subId + 1])
  /\ raced' = IF Numbering(Other(t), at[t].dev) THEN raced \cup {at[t].phone} ELSE raced

\* ... and writes it; the command is numbered.
WriteNumber(t) ==
  LET c == at[t].cmd
      d == at[t].dev
  IN /\ devs' = [devs EXCEPT ![d].subId = at[t].num]
     /\ shared' = IF t = "phone" /\ at[t].pos > 2 THEN shared \cup {c} ELSE shared

Gen1(t) ==
  /\ From(t, "gen1") /\ Goto(t, "gen1w")
  /\ ReadNumber(t)
  /\ UNCHANGED <<masterVars, objectVars, queueIn, session, walk, shared, done>>

\* Mutant of InstallOp: the operation is put where GetOP reads it.
InstallOpInFront(t) ==
  /\ From(t, "gen1w")
  /\ WriteNumber(t)
  /\ \E op \in {"delete", "just"} :
       cmds' = [cmds EXCEPT ![at[t].cmd].sub = at[t].num, ![at[t].cmd].ops = <<op>> \o @]
  /\ \/ Goto(t, "gen2") /\ Stay(t) /\ UNCHANGED <<queueIn, walk>>
     \/ /\ queueIn' = Append(queueIn, [type |-> "reply", phone |-> at[t].phone, proxy |-> 0,
                                       cmd |-> at[t].cmd, sub |-> at[t].num])
        /\ Handled(t) /\ Reached(t)
  /\ UNCHANGED <<masterVars, proxies, session, raced, done>>

\* Mutant of InstallOp: no operation as long as the packages are not known.
InstallOpNone(t) ==
  /\ From(t, "gen1w")
  /\ WriteNumber(t)
  /\ \E op \in {"none", "delete", "just"} :
       cmds' = [cmds EXCEPT ![at[t].cmd].sub = at[t].num, ![at[t].cmd].ops = Append(@, op)]
  /\ \/ Goto(t, "gen2") /\ Stay(t) /\ UNCHANGED <<queueIn, walk>>
     \/ /\ queueIn' = Append(queueIn, [type |-> "reply", phone |-> at[t].phone, proxy |-> 0,
                                       cmd |-> at[t].cmd, sub |-> at[t].num])
        /\ Handled(t) /\ Reached(t)
  /\ UNCHANGED <<masterVars, proxies, session, raced, done>>

\* ProcessInstallApk appends the operation it chooses by its package list;
\* a package that is installed or has timed out is answered at once.
InstallOp(t) ==
  /\ From(t, "gen1w")
  /\ WriteNumber(t)
  /\ \E op \in {"delete", "just"} :
       cmds' = [cmds EXCEPT ![at[t].cmd].sub = at[t].num, ![at[t].cmd].ops = Append(@, op)]
  /\ \/ Goto(t, "gen2") /\ Stay(t) /\ UNCHANGED <<queueIn, walk>>
     \/ /\ queueIn' = Append(queueIn, [type |-> "reply", phone |-> at[t].phone, proxy |-> 0,
                                       cmd |-> at[t].cmd, sub |-> at[t].num])
        /\ Handled(t) /\ Reached(t)
  /\ UNCHANGED <<masterVars, proxies, session, raced, done>>

\* SendCommand drops the command of a device without a proxy.
Gen2(t) ==
  /\ From(t, "gen2")
  /\ IF devs[at[t].dev].proxy = 0
     THEN Handled(t) /\ UNCHANGED raced
     ELSE Goto(t, "gen2w") /\ ReadNumber(t)
  /\ UNCHANGED <<masterVars, objectVars, queueIn, session, walk, shared, done>>

Gen2Write(t) ==
  /\ From(t, "gen2w") /\ Goto(t, "put") /\ Stay(t)
  /\ WriteNumber(t)
  /\ cmds' = [cmds EXCEPT ![at[t].cmd].sub = at[t].num]
  /\ UNCHANGED <<masterVars, proxies, queueIn, session, walk, raced, done>>

\* Mutant of Put: last_sub_command_id is the number before.
PutLastTooEarly(t) ==
  /\ From(t, "put")
  /\ LET g == devs[at[t].dev].proxy IN
       /\ devs' = [devs EXCEPT ![at[t].dev].lastSub = cmds[at[t].cmd].sub - 1]
       /\ IF g = 0 THEN Raise(t) /\ UNCHANGED <<proxies, walk>>
          ELSE /\ proxies' = [proxies EXCEPT ![g].queue = Append(@, at[t].cmd)]
               /\ Handled(t) /\ Reached(t)
  /\ UNCHANGED <<masterVars, cmds, queueIn, session, shared, raced, done>>

Put(t) ==
  /\ From(t, "put")
  /\ LET g == devs[at[t].dev].proxy IN
       /\ devs' = [devs EXCEPT ![at[t].dev].lastSub = cmds[at[t].cmd].sub]
       /\ IF g = 0 THEN Raise(t) /\ UNCHANGED <<proxies, walk>>
          ELSE /\ proxies' = [proxies EXCEPT ![g].queue = Append(@, at[t].cmd)]
               /\ Handled(t) /\ Reached(t)
  /\ UNCHANGED <<masterVars, cmds, queueIn, session, shared, raced, done>>

-----------------------------------------------------------------------------
(* The master thread: queue_in *)

\* Start and stop messages arm and disarm the timer of a phone, a reply is
\* judged by its number, which changes nothing here.
ProcessIncome ==
  /\ From("master", "idle") /\ queueIn # <<>> /\ Head(queueIn).type # "devices"
  /\ LET m == Head(queueIn) IN
       timer' = IF m.type = "reply" THEN timer ELSE [timer EXCEPT ![m.phone] = m.type = "start"]
  /\ queueIn' = Tail(queueIn)
  /\ UNCHANGED <<lists, known, device, objectVars, pc, at, session, history>>

\* Mutant of ScanDevicesResponse: the old list is emptied in place.
ScanDevicesResponseInPlace ==
  /\ From("master", "idle") /\ queueIn # <<>> /\ Head(queueIn).type = "devices"
  /\ lists' = [lists EXCEPT ![Len(lists)] = <<>>] /\ known' = {}
  /\ Goto("master", "fill") /\ Local("master", [Nowhere EXCEPT !.list = Len(lists'), !.pos = 1])
  /\ UNCHANGED <<device, timer, objectVars, queueIn, session, history>>

\* ProcessScanDevicesResponse: a new list and a new map, ...
ScanDevicesResponse ==
  /\ From("master", "idle") /\ queueIn # <<>> /\ Head(queueIn).type = "devices"
  /\ lists' = Append(lists, <<>>) /\ known' = {}
  /\ Goto("master", "fill") /\ Local("master", [Nowhere EXCEPT !.list = Len(lists'), !.pos = 1])
  /\ UNCHANGED <<device, timer, objectVars, queueIn, session, history>>

\* ... the phones, first in the list, then in the map, ...
ListPhone ==
  /\ From("master", "fill")
  /\ LET found == Head(queueIn).list
         n == Len(Last(lists))
     IN IF n < Len(found)
        THEN /\ lists' = [lists EXCEPT ![Len(lists)] = Append(@, found[n + 1])]
             /\ Goto("master", "map") /\ UNCHANGED queueIn
        ELSE /\ Goto("master", "next") /\ queueIn' = Tail(queueIn) /\ UNCHANGED lists
  /\ Stay("master")
  /\ UNCHANGED <<known, device, timer, objectVars, session, history>>

\* ... then a walk that adds each of them.
MapPhone ==
  /\ From("master", "map") /\ Goto("master", "fill") /\ Stay("master")
  /\ known' = known \cup {Last(Last(lists))}
  /\ UNCHANGED <<lists, device, timer, objectVars, queueIn, session, history>>

-----------------------------------------------------------------------------
(* Proxies *)

\* DealWithIncomeQueue takes a command; BeforeCommand arms the timer of an
\* install.
Take(g) ==
  /\ proxies[g].started /\ proxies[g].on /\ proxies[g].run = 0 /\ proxies[g].queue # <<>>
  /\ LET c == Head(proxies[g].queue) IN
       /\ proxies' = [proxies EXCEPT ![g].queue = Tail(@), ![g].run = c]
       /\ queueIn' = IF cmds[c].kind # "install" THEN queueIn
                     ELSE Append(queueIn, [type |-> "start", phone |-> proxies[g].phone])
  /\ UNCHANGED <<masterVars, devs, cmds, pc, at, session, history>>

\* The handler of the command and AfterCommand.  The operation and the number
\* are read in the object, which other phones may have been given since.
Run(g) ==
  /\ proxies[g].run # 0
  /\ LET c == proxies[g].run
         s == proxies[g].phone
     IN /\ proxies' = [proxies EXCEPT ![g].run = 0]
        /\ IF cmds[c].kind # "install" THEN UNCHANGED <<queueIn, done>>
           ELSE /\ queueIn' = queueIn \o
                     <<[type |-> "reply", phone |-> s, proxy |-> g, cmd |-> c, sub |-> cmds[c].sub],
                       [type |-> "stop", phone |-> s]>>
                /\ done' = done \cup {<<c, Head(cmds[c].ops)>>}
  /\ UNCHANGED <<masterVars, devs, cmds, pc, at, session, walk, shared, raced>>

\* The scanning proxy sends what adb has found.
Scan ==
  /\ TakeNext("found")
  /\ queueIn' = Append(queueIn, [type |-> "devices", list |-> Head(session.found)])
  /\ UNCHANGED <<masterVars, objectVars, pc, at, history>>

ThreadStep(t) ==
  \/ NextPhone(t) \/ Add(t) \/ AddNew(t)
  \/ MaybeCreate(t) \/ Create(t) \/ Start(t) \/ Added(t)
  \/ Gen1(t) \/ InstallOp(t) \/ Gen2(t) \/ Gen2Write(t) \/ Put(t)

MasterStep ==
  Ask \/ ProcessIncome \/ ScanDevicesResponse \/ ListPhone \/ MapPhone

ProxyStep(g) == g \in DOMAIN proxies /\ (Take(g) \/ Run(g))

Next ==
  \/ BeginWalk \/ Scan
  \/ \E t \in Thread : ThreadStep(t) \/ \E s \in Phone : CheckTimeout(t, s)
  \/ MasterStep
  \/ \E g \in DOMAIN proxies : ProxyStep(g)

Spec == Init /\ [][Next]_vars

-----------------------------------------------------------------------------
(* Properties *)

Place == {"idle", "dead", "next", "ask", "add", "new", "maybe", "create", "start", "added",
          "gen1", "gen1w", "gen2", "gen2w", "put", "fill", "map"}

\* The objects refer to each other by number, 0 for None.
Command == [kind : {"install", "info"}, sub : Nat, ops : Seq({"delete", "just"})]
Device  == [subId : Nat, lastSub : Nat, minSub : Nat, proxy : 0..Len(proxies)]
Proxy   == [phone : Phone, started : BOOLEAN, on : BOOLEAN,
            queue : Seq(1..Len(cmds)), run : 0..Len(cmds)]
Frame   == [list : 0..Len(lists), pos : Nat, phone : Phone \cup {None},
            dev : 0..Len(devs), own : BOOLEAN, cmd : 0..Len(cmds), num : Nat]
Message == [type : {"start", "stop"}, phone : Phone]
           \cup [type : {"devices"}, list : Seq(Phone)]
           \cup [type : {"reply"}, phone : Phone, proxy : 0..Len(proxies),
                 cmd : 1..Len(cmds), sub : Nat]

\* Every variable has its type, and no number points past the objects made.
TypeOK ==
  /\ session \in [found : Seq(Seq(Phone)), walks : Seq({"install", "info", "update"}),
                  infos : Nat, timeouts : Nat]
  /\ pc \in [Thread -> Place] /\ at \in [Thread -> Frame]
  /\ lists \in Seq(Seq(Phone)) \ {<<>>} /\ known \subseteq Phone
  /\ device \in [Phone -> 0..Len(devs)] /\ timer \in [Phone -> BOOLEAN]
  /\ devs \in Seq(Device) /\ proxies \in Seq(Proxy) /\ cmds \in Seq(Command)
  /\ queueIn \in Seq(Message)
  /\ walk \in [list : Seq(Phone), ready : BOOLEAN, reached : Seq(Phone)]
  /\ shared \subseteq 1..Len(cmds) /\ raced \subseteq Phone
  /\ done \subseteq (1..Len(cmds)) \X {"delete", "just"}

\* A walk over a list that was complete, and whose phones all had a proxy, is
\* not disturbed by the lists found meanwhile, however its steps and those of
\* the master thread mix: each phone gets the command once, in the order of
\* the list, and no exception ends the phone thread, as long as no timer
\* expires during the walk.  (Without either condition both may happen: the
\* comment at phone.py:448 knows of the danger.)
WalkReachesAll ==
  walk.ready => /\ pc["phone"] # "dead"
                /\ pc["phone"] = "idle" => walk.reached = walk.list

\* min_sub_command_id tells the replies of a stopped proxy from those of the
\* phone's current one (master.py:109), unless the command was numbered by
\* another phone too, or both threads were numbering commands of the phone at
\* once or both made its device.
FilterExact ==
  \A i \in DOMAIN queueIn :
    LET m == queueIn[i] IN
    m.type = "reply" /\ m.proxy # 0 /\ m.cmd \notin shared /\ m.phone \notin raced =>
      LET d == devs[device[m.phone]]
          counted == m.sub > d.minSub
      IN /\ ~proxies[m.proxy].on => ~counted
         /\ d.proxy = m.proxy => counted

\* One command is one operation: the phones it is handed to run the same one,
\* whenever they get to it, although each appends its own (GetOP).
OneOperation == \A x, y \in done : x[1] = y[1] => x = y

\* No command waits at a proxy nobody starts: while the threads race to make
\* one for the same phone, a command is only put where a thread runs or is
\* about to be started (MaybeCreate, SendCommand).
QueuedIsServed ==
  \A g \in DOMAIN proxies :
    proxies[g].queue # <<>> /\ proxies[g].on /\ ~proxies[g].started =>
      \E t \in Thread : pc[t] = "start" /\ devs[at[t].dev].proxy = g
=============================================================================
