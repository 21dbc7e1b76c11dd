---------------------------- MODULE UpdateCheck ----------------------------
(***************************************************************************)
(* The update of the apk list: net_logic.master.Master (its thread, its    *)
(* pool, its queue_in), util.utility.Task, and the part of PhoneLogic that *)
(* asks for updates and for the fully automatic mode.                      *)
(*                                                                         *)
(* Threads: "phone" (PhoneLogic.DealMsg), "net" (Master.Work: ProcessIncome*)
(* and every Task callback), and the Workers of the pool.  A Deferred is a *)
(* number; check c is the c-th check ProcessInnerCheckUpdate begins, a     *)
(* ghost for the closures of CheckUpdate2.                                 *)
(***************************************************************************)
EXTENDS Integers, Sequences, FiniteSets

CONSTANTS
  Packages,   \* package names
  Versions,   \* md5 values
  None,       \* Python's None
  Partial,    \* a file cut short
  Lists,      \* what the server may list: functions from packages to md5
  InUse,      \* packages whose file adb may be reading
  Workers,    \* threads of the pool
  UserMay,    \* what the user does besides the automatic mode
  MaxCheck,   \* bound: checks
  MaxAuto,    \* bound: Deferreds, commands of the fully automatic mode
  MaxUser     \* bound: other commands

List == UNION {[S -> Versions] : S \in SUBSET Packages}

ASSUME ConstantsAssumption ==
  /\ Lists \subseteq List /\ {None, Partial} \cap List = {}
  /\ IsFiniteSet(Packages) /\ InUse \subseteq Packages
  /\ {None, Partial} \cap Versions = {} /\ None # Partial /\ None \notin Nat
  /\ UserMay \subseteq {"check", "load", "remove"}
  /\ Workers \in Nat /\ MaxCheck \in Nat /\ MaxAuto \in Nat /\ MaxUser \in Nat

Checks == 1..MaxCheck
Autos  == 1..MaxAuto

Job == [check: Checks, pkg: Packages, md5: Versions]

\* Master.queue_in: a command with its Deferred, or a CallObject that comes
\* back with the answer of the server or the end of a download.
Message ==
  [type: {"check"}, auto: Autos \cup {None}]
    \cup [type: {"pulled"}, check: Checks, list: Lists \cup {None}]
    \cup [type: {"downloaded"}, check: Checks, pkg: Packages]

VARIABLES
  queueIn,    \* Master.queue_in
  tmpDeferred,\* Master.tmp_defferd
  localProp,  \* local_prop, of PhoneLogic and of Master
  begun,      \* checks begun so far
  pulls,      \* checks whose PullJsonFile2 runs or waits
  waiting,    \* downloads the pool has not begun, in order
  asking,     \* downloads that wait for the server to answer
  writing,    \* downloads that have opened their file
  listed,     \* the list each check works on
  group,      \* groupMap['downloadApk'][0] of each check
  pc,         \* net thread: idle, saving, filling, callback, forget
  cur,        \* the check the net thread works on
  files,      \* apk files: None, Partial or the md5
  json,       \* the config file: None, Partial or a list
  totalAuto,  \* PhoneLogic.total_auto_defer
  autos,      \* Deferreds made so far
  fired,      \* history: how often each Deferred was called back
  users       \* commands left for the user

netVars   == <<tmpDeferred, begun, listed, group, pc, cur>>
poolVars  == <<pulls, waiting, asking, writing>>
diskVars  == <<files, json>>
phoneVars == <<totalAuto, autos, fired, users>>
vars == <<queueIn, localProp, netVars, poolVars, diskVars, phoneVars>>

\* The disk is what earlier sessions left; PhoneLogic.Init has loaded it.
Init ==
  /\ queueIn = <<>> /\ tmpDeferred = None /\ begun = 0
  /\ pulls = {} /\ waiting = <<>> /\ asking = {} /\ writing = {}
  /\ listed = [c \in Checks |-> None] /\ group = [c \in Checks |-> {}]
  /\ pc = "idle" /\ cur = None
  /\ files \in [Packages -> Versions \cup {None, Partial}]
  /\ json \in Lists \cup {None, Partial}
  /\ localProp = IF json = Partial THEN None ELSE json
  /\ totalAuto = None /\ autos = 0 /\ fired = [a \in Autos |-> 0]
  /\ users = MaxUser

-----------------------------------------------------------------------------
(* The pool *)

Busy == Cardinality(pulls) + Cardinality(asking) + Cardinality(writing)

\* An open file cannot be removed (the program runs on Windows): one that a
\* download writes, or that adb may be reading.
Open(p, writers) == \E j \in writers : j.pkg = p

\* PullJsonFile2: a list, or an error code and None.
PullEnds(c) ==
  /\ c \in pulls
  /\ \E answer \in Lists \cup {None} :
       queueIn' = Append(queueIn, [type |-> "pulled", check |-> c, list |-> answer])
  /\ pulls' = pulls \ {c}
  /\ UNCHANGED <<localProp, netVars, waiting, asking, writing, diskVars, phoneVars>>

Downloaded(j) == [type |-> "downloaded", check |-> j.check, pkg |-> j.pkg]

\* DownloadOneApk up to the request: a good file needs no download, a wrong
\* one is removed first.  When os.remove raises, future.result() raises in
\* Task's Callback and the CallObject never reaches queue_in.
DownloadBegins ==
  /\ waiting # <<>> /\ Busy < Workers
  /\ waiting' = Tail(waiting)
  /\ LET j == Head(waiting)
         p == j.pkg
     IN  IF files[p] = j.md5
         THEN queueIn' = Append(queueIn, Downloaded(j)) /\ UNCHANGED <<files, asking>>
         ELSE \/ /\ files[p] = None \/ ~Open(p, writing)
                 /\ files' = [files EXCEPT ![p] = None]
                 /\ asking' = asking \cup {j}
                 /\ UNCHANGED queueIn
              \/ /\ files[p] # None /\ (p \in InUse \/ Open(p, writing))
                 /\ UNCHANGED <<queueIn, files, asking>>
  /\ UNCHANGED <<localProp, netVars, pulls, writing, json, phoneVars>>

\* DownloadFile: the server answers and the file is opened, which empties
\* it, or the request fails and DownloadOneApk returns.
DownloadOpens(j) ==
  /\ j \in asking
  /\ asking' = asking \ {j}
  /\ \/ /\ files' = [files EXCEPT ![j.pkg] = Partial]
        /\ writing' = writing \cup {j}
        /\ UNCHANGED queueIn
     \/ /\ queueIn' = Append(queueIn, Downloaded(j))
        /\ UNCHANGED <<files, writing>>
  /\ UNCHANGED <<localProp, netVars, pulls, waiting, json, phoneVars>>

\* The file is closed: it is the right one, a wrong one (removed unless it is
\* open elsewhere, which the try block swallows), or what an error left.
DownloadEnds(j) ==
  /\ j \in writing
  /\ writing' = writing \ {j}
  /\ \/ files' = [files EXCEPT ![j.pkg] = j.md5]
     \/ files' = [files EXCEPT ![j.pkg] = IF Open(j.pkg, writing') THEN Partial ELSE None]
     \/ UNCHANGED files
  /\ queueIn' = Append(queueIn, Downloaded(j))
  /\ UNCHANGED <<localProp, netVars, pulls, waiting, asking, json, phoneVars>>

-----------------------------------------------------------------------------
(* The net thread *)

Pop(type) ==
  /\ pc = "idle" /\ queueIn # <<>> /\ Head(queueIn).type = type
  /\ queueIn' = Tail(queueIn)

\* ProcessIncome, ProcessInnerCheckUpdate, CheckUpdate2: there is one
\* tmp_defferd for all checks.
BeginCheck ==
  /\ Pop("check") /\ begun < MaxCheck
  /\ tmpDeferred' = Head(queueIn).auto
  /\ begun' = begun + 1
  /\ pulls' = pulls \cup {begun + 1}
  /\ UNCHANGED <<localProp, listed, group, pc, cur, waiting, asking, writing, diskVars, phoneVars>>

\* The packages of list that Step2 sends to the pool.  Without a local entry
\* to compare with, the loop over local_prop['data'] has no round.
Needed(list) ==
  IF localProp = None THEN DOMAIN list
  ELSE {p \in DOMAIN list :
          /\ DOMAIN localProp # {}
          /\ \/ p \notin DOMAIN localProp
             \/ list[p] # localProp[p]
             \/ files[p] = None}

\* Mutant of Step2: without a list the Deferred is forgotten.
Step2NoListIgnored ==
  /\ Pop("pulled")
  /\ LET c == Head(queueIn).check
         list == Head(queueIn).list
     IN  /\ cur' = c
         /\ listed' = [listed EXCEPT ![c] = list]
         /\ IF list = None
            THEN UNCHANGED <<pc, group, waiting>>
            ELSE IF Needed(list) = {}
            THEN pc' = "saving" /\ UNCHANGED <<group, waiting>>
            ELSE /\ group' = [group EXCEPT ![c] = Needed(list)]
                 /\ \E order \in [1..Cardinality(Needed(list)) -> Needed(list)] :
                      /\ \A i, k \in DOMAIN order : i # k => order[i] # order[k]
                      /\ waiting' = waiting \o [i \in DOMAIN order |->
                           [check |-> c, pkg |-> order[i], md5 |-> list[order[i]]]]
                 /\ UNCHANGED pc
  /\ UNCHANGED <<localProp, tmpDeferred, begun, pulls, asking, writing, diskVars, phoneVars>>

\* Step2: downloads for a new list, Step3 at once when there is nothing to
\* load, the Deferred at once when the answer is no list.
Step2 ==
  /\ Pop("pulled")
  /\ LET c == Head(queueIn).check
         list == Head(queueIn).list
     IN  /\ cur' = c
         /\ listed' = [listed EXCEPT ![c] = list]
         /\ IF list = None
            THEN pc' = "callback" /\ UNCHANGED <<group, waiting>>
            ELSE IF Needed(list) = {}
            THEN pc' = "saving" /\ UNCHANGED <<group, waiting>>
            ELSE /\ group' = [group EXCEPT ![c] = Needed(list)]
                 /\ \E order \in [1..Cardinality(Needed(list)) -> Needed(list)] :
                      /\ \A i, k \in DOMAIN order : i # k => order[i] # order[k]
                      /\ waiting' = waiting \o [i \in DOMAIN order |->
                           [check |-> c, pkg |-> order[i], md5 |-> list[order[i]]]]
                 /\ UNCHANGED pc
  /\ UNCHANGED <<localProp, tmpDeferred, begun, pulls, asking, writing, diskVars, phoneVars>>

\* Mutant of GroupCallback: the first download counts for all.
GroupCallbackFirst ==
  /\ Pop("downloaded")
  /\ LET c == Head(queueIn).check
         rest == group[c] \ {Head(queueIn).pkg}
     IN  /\ group' = [group EXCEPT ![c] = rest]
         /\ IF rest # {} THEN pc' = "saving" /\ cur' = c ELSE UNCHANGED <<pc, cur>>
  /\ UNCHANGED <<localProp, tmpDeferred, begun, listed, poolVars, diskVars, phoneVars>>

\* Mutant of GroupCallback: the list of the check is not stored.
GroupCallbackUnsaved ==
  /\ Pop("downloaded")
  /\ LET c == Head(queueIn).check
         rest == group[c] \ {Head(queueIn).pkg}
     IN  /\ group' = [group EXCEPT ![c] = rest]
         /\ IF rest = {} THEN pc' = "callback" /\ cur' = c ELSE UNCHANGED <<pc, cur>>
  /\ UNCHANGED <<localProp, tmpDeferred, begun, listed, poolVars, diskVars, phoneVars>>

\* GroupCallback: the last download of a check is followed by its Step3.
GroupCallback ==
  /\ Pop("downloaded")
  /\ LET c == Head(queueIn).check
         rest == group[c] \ {Head(queueIn).pkg}
     IN  /\ group' = [group EXCEPT ![c] = rest]
         /\ IF rest = {} THEN pc' = "saving" /\ cur' = c ELSE UNCHANGED <<pc, cur>>
  /\ UNCHANGED <<localProp, tmpDeferred, begun, listed, poolVars, diskVars, phoneVars>>

\* Step3, WriteJsonFile: open(.., "w") empties the file, ...
SaveBegins ==
  /\ pc = "saving"
  /\ json' = Partial
  /\ pc' = "filling"
  /\ UNCHANGED <<queueIn, localProp, tmpDeferred, begun, listed, group, cur, poolVars, files, phoneVars>>

\* ... write and close fill it.
SaveEnds ==
  /\ pc = "filling"
  /\ json' = listed[cur]
  /\ pc' = "callback"
  /\ UNCHANGED <<queueIn, localProp, tmpDeferred, begun, listed, group, cur, poolVars, files, phoneVars>>

\* LoadLocalProp keeps the old list when the file does not parse.
LoadLocalProp == localProp' = IF json \in {None, Partial} THEN localProp ELSE json

\* CallbackDeferred: step1 loads the list, step2 enters the automatic mode
\* and clears total_auto_defer, all on this thread; ...
CallbackDeferred ==
  /\ pc = "callback"
  /\ IF tmpDeferred # None
     THEN /\ LoadLocalProp
          /\ fired' = [fired EXCEPT ![tmpDeferred] = @ + 1]
          /\ totalAuto' = None
          /\ pc' = "forget"
          /\ UNCHANGED cur
     ELSE /\ pc' = "idle" /\ cur' = None
          /\ UNCHANGED <<localProp, fired, totalAuto>>
  /\ UNCHANGED <<queueIn, tmpDeferred, begun, listed, group, poolVars, diskVars, autos, users>>

\* ... then tmp_defferd is cleared.
ForgetDeferred ==
  /\ pc = "forget"
  /\ tmpDeferred' = None
  /\ pc' = "idle" /\ cur' = None
  /\ UNCHANGED <<queueIn, localProp, begun, listed, group, poolVars, diskVars, phoneVars>>

-----------------------------------------------------------------------------
(* The phone thread *)

\* Mutant of TotalAutoInstall: total_auto_defer is not looked at.
TotalAutoInstallAlways ==
  /\ autos < MaxAuto
  /\ autos' = autos + 1
  /\ totalAuto' = autos + 1
  /\ queueIn' = Append(queueIn, [type |-> "check", auto |-> autos + 1])
  /\ UNCHANGED <<localProp, netVars, poolVars, diskVars, fired, users>>

\* Mutant of TotalAutoInstall: the number the last Deferred had.
TotalAutoInstallStale ==
  /\ autos < MaxAuto /\ totalAuto = None
  /\ autos' = autos + 1
  /\ totalAuto' = autos
  /\ queueIn' = Append(queueIn, [type |-> "check", auto |-> autos])
  /\ UNCHANGED <<localProp, netVars, poolVars, diskVars, fired, users>>

\* ProcessTotalAutoInstall: a Deferred of its own with its check, unless one
\* is under way ("just wait").
TotalAutoInstall ==
  /\ autos < MaxAuto
  /\ autos' = autos + 1
  /\ IF totalAuto = None
     THEN /\ totalAuto' = autos + 1
          /\ queueIn' = Append(queueIn, [type |-> "check", auto |-> autos + 1])
     ELSE UNCHANGED <<totalAuto, queueIn>>
  /\ UNCHANGED <<localProp, netVars, poolVars, diskVars, fired, users>>

User(what) ==
  /\ what \in UserMay /\ users > 0
  /\ users' = users - 1

\* ProcessCheckUpdatePackageList without a Deferred
CheckUpdate ==
  /\ User("check")
  /\ queueIn' = Append(queueIn, [type |-> "check", auto |-> None])
  /\ UNCHANGED <<localProp, netVars, poolVars, diskVars, totalAuto, autos, fired>>

\* ProcessGetLocalPackageList
GetLocalPackageList ==
  /\ User("load")
  /\ LoadLocalProp
  /\ UNCHANGED <<queueIn, netVars, poolVars, diskVars, totalAuto, autos, fired>>

\* ProcessRemoveLocalPackageList: the config file unless it is being written,
\* and the apk files up to the first that is open.
RemoveLocalPackageList ==
  /\ User("remove")
  /\ json' = IF pc = "filling" THEN json ELSE None
  /\ \E gone \in SUBSET {p \in Packages : ~Open(p, writing)} :
       /\ gone = Packages \/ writing # {} \/ InUse # {}
       /\ files' = [p \in Packages |-> IF p \in gone THEN None ELSE files[p]]
  /\ UNCHANGED <<queueIn, localProp, netVars, poolVars, totalAuto, autos, fired>>

-----------------------------------------------------------------------------
PoolStep ==
  \/ \E c \in Checks : PullEnds(c)
  \/ DownloadBegins
  \/ \E j \in Job : DownloadOpens(j) \/ DownloadEnds(j)

NetStep ==
  \/ BeginCheck \/ Step2 \/ GroupCallback \/ SaveBegins \/ SaveEnds
  \/ CallbackDeferred \/ ForgetDeferred

PhoneStep == TotalAutoInstall \/ CheckUpdate \/ GetLocalPackageList \/ RemoveLocalPackageList

Next == PoolStep \/ NetStep \/ PhoneStep

Spec == Init /\ [][Next]_vars

\* Requests time out and the threads keep running; the user owes nothing.
Fairness ==
  /\ \A c \in Checks : WF_vars(PullEnds(c))
  /\ WF_vars(DownloadBegins)
  /\ \A j \in Job : WF_vars(DownloadOpens(j) \/ DownloadEnds(j))
  /\ WF_vars(NetStep)

FairSpec == Spec /\ Fairness

-----------------------------------------------------------------------------
(* Properties *)

\* Every variable has its type.
TypeOK ==
  /\ queueIn \in Seq(Message)
  /\ tmpDeferred \in Autos \cup {None} /\ totalAuto \in Autos \cup {None}
  /\ localProp \in Lists \cup {None} /\ json \in Lists \cup {None, Partial}
  /\ begun \in 0..MaxCheck /\ autos \in 0..MaxAuto /\ users \in 0..MaxUser
  /\ pulls \subseteq Checks
  /\ waiting \in Seq(Job) /\ asking \subseteq Job /\ writing \subseteq Job
  /\ listed \in [Checks -> Lists \cup {None}] /\ group \in [Checks -> SUBSET Packages]
  /\ pc \in {"idle", "saving", "filling", "callback", "forget"}
  /\ cur \in Checks \cup {None}
  /\ files \in [Packages -> Versions \cup {None, Partial}]
  /\ fired \in [Autos -> Nat]

\* CheckUpdate2 keeps the promise of Task: a check goes through pull, load
\* and save in order, and Step3 runs once, when each download of its own
\* group has returned.
Phase(c) ==
  CASE c > begun -> "none"
    [] c \in pulls \/ \E i \in DOMAIN queueIn :
         queueIn[i].type = "pulled" /\ queueIn[i].check = c -> "pull"
    [] group[c] # {} -> "load"
    [] cur = c /\ pc \in {"saving", "filling"} -> "save"
    [] OTHER -> "end"

Phases == INSTANCE TaskPhases WITH
  phase <- [c \in Checks |-> Phase(c)], open <- group

PhasesInOrder == Phases!Spec

\* Step3 writes the config file only when the pool is done with the check:
\* no download of it waits or runs, none of its CallObjects is in queue_in.
PoolDoneBeforeSave ==
  pc \in {"saving", "filling"} =>
    /\ \A j \in asking \cup writing : j.check # cur
    /\ \A i \in DOMAIN waiting : waiting[i].check # cur
    /\ \A i \in DOMAIN queueIn : queueIn[i].type = "downloaded" => queueIn[i].check # cur

\* The phone thread makes a Deferred while the net thread calls one back: a
\* Deferred that is still to be called back is always total_auto_defer, so
\* none is called back twice and no two are under way.
DeferredIsCurrent ==
  /\ tmpDeferred # None /\ pc # "forget" => tmpDeferred = totalAuto
  /\ \A i \in DOMAIN queueIn :
       queueIn[i].type = "check" /\ queueIn[i].auto # None => queueIn[i].auto = totalAuto
  /\ \A a \in Autos : fired[a] <= 1

\* phone.py:401, the last step of the fully automatic mode clears
\* total_auto_defer: every total auto that begins ends, and the next command
\* does not "just wait".
TotalAutoEnds == totalAuto # None ~> totalAuto = None

\* There are only two ways for it not to end: another check has overwritten
\* tmp_defferd (master.py:293), or os.remove of a file in use has raised in
\* the pool (master.py:155) and a download of some check never returns.
Overwritten ==
  /\ tmpDeferred # totalAuto
  /\ \A i \in DOMAIN queueIn : queueIn[i].type = "check" => queueIn[i].auto # totalAuto

Raised == \E c \in Checks : \E p \in group[c] :
  /\ \A j \in asking \cup writing : ~(j.check = c /\ j.pkg = p)
  /\ \A i \in DOMAIN waiting : ~(waiting[i].check = c /\ waiting[i].pkg = p)
  /\ \A i \in DOMAIN queueIn : queueIn[i].type = "downloaded" =>
       ~(queueIn[i].check = c /\ queueIn[i].pkg = p)

TotalAutoEndsOrIsLost ==
  totalAuto # None ~> (totalAuto = None \/ Overwritten \/ Raised)
=============================================================================
