--------------------------- MODULE DeviceWalkProofs ---------------------------
(***************************************************************************)
(* Theorems about DeviceWalk, for any phones, lists and walks: the types,  *)
(* that a command is one operation, that no command waits at a proxy       *)
(* nobody starts, that an undisturbed walk reaches every phone, and that a *)
(* reply counts exactly as long as its proxy is the phone's.               *)
(***************************************************************************)
EXTENDS DeviceWalk, SequenceTheorems, TLAPS

Adding    == {"add", "new", "maybe", "create", "start", "added"}
Sending   == {"gen1", "gen1w", "gen2", "gen2w", "put"}

\* What a thread has read when it is somewhere.
Placed(t) ==
  /\ pc[t] \notin {"idle", "dead"} => at[t].list \in 1..Len(lists) /\ at[t].pos \in Nat \ {0}
  /\ pc[t] \in Adding \cup Sending \cup {"ask"} => at[t].phone \in Phone
  /\ pc[t] \in (Adding \ {"add", "new"}) \cup Sending => at[t].dev # 0 /\ device[at[t].phone] # 0
  /\ pc[t] \in Sending => at[t].cmd # 0

Places ==
  /\ \A t \in Thread : Placed(t)
  /\ pc["master"] \in {"fill", "map"} => queueIn # <<>> /\ Head(queueIn).type = "devices"
  /\ pc["master"] = "map" => Last(lists) # <<>>
  /\ \A g \in DOMAIN proxies : device[proxies[g].phone] # 0
  /\ \A i \in DOMAIN queueIn : queueIn[i].type \in {"start", "stop"} => device[queueIn[i].phone] # 0
  /\ \A s \in Phone : timer[s] => device[s] # 0

Typed == TypeOK /\ Places

\* An install has an operation before it is put, and its first one is final.
HasOp(c) == cmds[c].kind = "install" => cmds[c].ops # <<>>
OpsKnown ==
  /\ \A x \in done : cmds[x[1]].ops # <<>> /\ x[2] = Head(cmds[x[1]].ops)
  /\ \A t \in Thread : pc[t] \in {"gen2", "gen2w", "put"} => HasOp(at[t].cmd)
  /\ \A g \in DOMAIN proxies : /\ \A i \in DOMAIN proxies[g].queue : HasOp(proxies[g].queue[i])
                               /\ proxies[g].run # 0 => HasOp(proxies[g].run)

Unstarted(g) == proxies[g].on /\ ~proxies[g].started
Served ==
  \* the proxy of a device runs, or a thread is about to start it
  /\ \A d \in DOMAIN devs : devs[d].proxy # 0 /\ ~proxies[devs[d].proxy].started =>
       \E t \in Thread : pc[t] = "start" /\ at[t].dev = d
  \* what was put is at the proxy of a device, as long as it may run
  /\ \A g \in DOMAIN proxies : proxies[g].queue # <<>> /\ Unstarted(g) =>
       \E d \in DOMAIN devs : devs[d].proxy = g
  \* the proxy a thread is about to replace holds no command unless it runs
  /\ \A t \in Thread : pc[t] = "create" /\ devs[at[t].dev].proxy # 0
                       /\ ~proxies[devs[at[t].dev].proxy].started =>
       proxies[devs[at[t].dev].proxy].queue = <<>>

\* A walk that was ready goes over its own complete list and has reached the
\* phones before its position.
OnTheWay ==
  LET a == at["phone"]
      n == IF pc["phone"] = "next" THEN a.pos - 1 ELSE a.pos - 2
  IN /\ pc["phone"] \in {"next", "add", "added"} \cup Sending /\ ~a.own
     /\ lists[a.list] = walk.list /\ (pc["master"] \in {"fill", "map"} => a.list # Len(lists))
     /\ n \in 0..Len(walk.list) /\ Len(walk.reached) = n
     /\ \A i \in 1..n : walk.reached[i] = walk.list[i]
     /\ pc["phone"] # "next" => n < Len(walk.list) /\ a.phone = walk.list[n + 1]
     /\ pc["phone"] \in Sending => devs[a.dev].proxy # 0

\* Its phones have devices with a proxy, and nobody makes another for them.
WalkKept ==
  walk.ready =>
    /\ \A i \in 1..Len(walk.list) : device[walk.list[i]] # 0 /\ devs[device[walk.list[i]]].proxy # 0
    /\ pc["master"] = "new" => \A i \in 1..Len(walk.list) : walk.list[i] # at["master"].phone
    /\ IF pc["phone"] = "idle" THEN walk.reached = walk.list ELSE OnTheWay

-----------------------------------------------------------------------------
(* Objects are only added, so what refers to one keeps its type *)

LEMMA Lengths == TypeOK =>
  /\ Len(lists) \in Nat \ {0} /\ Len(devs) \in Nat /\ Len(proxies) \in Nat /\ Len(cmds) \in Nat
  /\ DOMAIN lists = 1..Len(lists) /\ DOMAIN devs = 1..Len(devs)
  /\ DOMAIN proxies = 1..Len(proxies) /\ DOMAIN cmds = 1..Len(cmds)
<1> SUFFICES ASSUME TypeOK PROVE Len(lists) # 0
  BY LenProperties DEF TypeOK
<1> QED
  BY EmptySeq DEF TypeOK

LEMMA Grows ==
  ASSUME TypeOK,
         Len(lists)' \in Nat, Len(devs)' \in Nat, Len(proxies)' \in Nat, Len(cmds)' \in Nat,
         Len(lists) <= Len(lists)', Len(devs) <= Len(devs)',
         Len(proxies) <= Len(proxies)', Len(cmds) <= Len(cmds)'
  PROVE  /\ Device \subseteq Device' /\ Frame \subseteq Frame'
         /\ Proxy \subseteq Proxy' /\ Message \subseteq Message'
         /\ devs \in Seq(Device') /\ proxies \in Seq(Proxy') /\ queueIn \in Seq(Message')
         /\ at \in [Thread -> Frame'] /\ device \in [Phone -> 0..Len(devs)']
         /\ shared \subseteq 1..Len(cmds)' /\ done \subseteq (1..Len(cmds)') \X {"delete", "just"}
<1>1. Len(lists) \in Nat /\ Len(devs) \in Nat /\ Len(proxies) \in Nat /\ Len(cmds) \in Nat
  BY Lengths
<1>2. /\ 0..Len(lists) \subseteq 0..Len(lists)' /\ 0..Len(devs) \subseteq 0..Len(devs)'
      /\ 0..Len(proxies) \subseteq 0..Len(proxies)' /\ 0..Len(cmds) \subseteq 0..Len(cmds)'
      /\ 1..Len(cmds) \subseteq 1..Len(cmds)'
  BY <1>1
<1>3. Seq(1..Len(cmds)) \subseteq Seq(1..Len(cmds)')
  BY <1>2, SeqMonotonic
<1>4. Device \subseteq Device' /\ Frame \subseteq Frame'
  BY <1>2 DEF Device, Frame
<1>5. Proxy \subseteq Proxy'
  BY <1>2, <1>3 DEF Proxy
<1>6. Message \subseteq Message'
  BY <1>2 DEF Message
<1>7. devs \in Seq(Device') /\ proxies \in Seq(Proxy') /\ queueIn \in Seq(Message')
  BY <1>4, <1>5, <1>6, SeqMonotonic DEF TypeOK
<1> QED
  BY <1>2, <1>4, <1>5, <1>6, <1>7 DEF TypeOK

\* A step that makes no object keeps every type it does not touch.
LEMMA SameObjects ==
  ASSUME TypeOK, Len(lists)' = Len(lists), Len(devs)' = Len(devs),
         Len(proxies)' = Len(proxies), Len(cmds)' = Len(cmds)
  PROVE  Device' = Device /\ Frame' = Frame /\ Proxy' = Proxy /\ Message' = Message
BY DEF Device, Frame, Proxy, Message

-----------------------------------------------------------------------------
(* Sequences *)

LEMMA AppendLast ==
  ASSUME NEW S, NEW s \in Seq(S), NEW m \in S
  PROVE  /\ s # <<>> => Head(Append(s, m)) = Head(s)
         /\ Append(s, m) # <<>>
         /\ \A i \in DOMAIN Append(s, m) :
              \/ i \in DOMAIN s /\ Append(s, m)[i] = s[i]
              \/ i = Len(s) + 1 /\ Append(s, m)[i] = m
<1> DEFINE r == Append(s, m)
<1>1. r \in Seq(S) /\ r # <<>> /\ Len(r) = Len(s) + 1 /\ Len(s) \in Nat
  BY AppendProperties
<1>2. DOMAIN r = 1..(Len(s) + 1) /\ DOMAIN s = 1..Len(s)
  BY <1>1
<1>3. (\A i \in 1..Len(s) : r[i] = s[i]) /\ r[Len(s) + 1] = m
  BY AppendProperties
<1>4. \A i \in 1..(Len(s) + 1) : i \in 1..Len(s) \/ i = Len(s) + 1
  BY <1>1
<1>5. Head(r) = r[1] /\ (s # <<>> => Head(s) = s[1] /\ 1 \in 1..Len(s))
  <2>1. Head(r) = r[1]
    OBVIOUS
  <2>2. s # <<>> => Head(s) = s[1]
    OBVIOUS
  <2>3. s # <<>> => Len(s) # 0
    OBVIOUS
  <2> HIDE DEF r
  <2> QED
    BY <1>1, <2>1, <2>2, <2>3
<1> HIDE DEF r
<1>6. \A i \in DOMAIN r : \/ i \in DOMAIN s /\ r[i] = s[i]
                          \/ i = Len(s) + 1 /\ r[i] = m
  BY <1>2, <1>3, <1>4
<1>7. s # <<>> => Head(r) = Head(s)
  BY <1>3, <1>5
<1> QED
  BY <1>1, <1>6, <1>7 DEF r

-----------------------------------------------------------------------------
(* Types are kept: what the steps of a thread share *)

LEMMA FrameFields == ASSUME TypeOK, NEW t \in Thread
  PROVE  /\ at[t] \in Frame /\ at[t].list \in 0..Len(lists) /\ at[t].pos \in Nat
         /\ at[t].dev \in 0..Len(devs) /\ at[t].cmd \in 0..Len(cmds)
         /\ at[t].own \in BOOLEAN /\ at[t].num \in Nat
<1>1. at[t] \in Frame
  BY DEF TypeOK
<1> QED
  BY <1>1 DEF Frame

\* A thread that has moved, and the queue of the master, which only grows.
LEMMA StepPlaces ==
  ASSUME Typed, NEW t \in Thread, TypeOK', Placed(t)', UNCHANGED <<lists, timer>>,
         \A u \in Thread \ {t} : pc'[u] = pc[u] /\ at'[u] = at[u],
         \A s \in Phone : device[s] # 0 => device'[s] # 0,
         \A g \in DOMAIN proxies' : device'[proxies'[g].phone] # 0,
         queueIn' = queueIn \/ \E m \in Message' : /\ queueIn' = Append(queueIn, m)
                                                   /\ m.type \notin {"start", "stop"},
         pc'["master"] \in {"fill", "map"} => pc'["master"] = pc["master"]
  PROVE  Places'
<1> USE DEF Typed
<1>1. ASSUME NEW u \in Thread, u # t PROVE Placed(u)'
  <2>1. pc[u] \in Adding \cup Sending \cup {"ask"} => at[u].phone \in Phone
    BY DEF Places, Placed
  <2> QED
    BY <1>1, <2>1 DEF Places, Placed
<1>2. queueIn \in Seq(Message) /\ queueIn' \in Seq(Message')
  BY DEF TypeOK
<1>3. /\ queueIn # <<>> => queueIn' # <<>> /\ Head(queueIn') = Head(queueIn)
      /\ \A i \in DOMAIN queueIn' :
           \/ i \in DOMAIN queueIn /\ queueIn'[i] = queueIn[i]
           \/ queueIn'[i].type \notin {"start", "stop"}
  <2>1. CASE queueIn' = queueIn
    BY <2>1
  <2>2. CASE queueIn' # queueIn
    <3>1. PICK m \in Message' : queueIn' = Append(queueIn, m) /\ m.type \notin {"start", "stop"}
      BY <2>2
    <3> QED
      BY <3>1, <1>2, AppendLast
  <2> QED
    BY <2>1, <2>2
<1>4. \A m \in Message : m.type \in {"start", "stop"} => m.phone \in Phone
  BY DEF Message
<1>5. ASSUME NEW i \in DOMAIN queueIn', queueIn'[i].type \in {"start", "stop"}
      PROVE  device'[queueIn'[i].phone] # 0
  <2>1. i \in DOMAIN queueIn /\ queueIn'[i] = queueIn[i]
    BY <1>3, <1>5
  <2>2. queueIn[i] \in Message
    BY <2>1, <1>2
  <2> QED
    BY <2>1, <2>2, <1>4, <1>5 DEF Places
<1>6. \A s \in Phone : timer'[s] => device'[s] # 0
  BY DEF Places
<1> QED
  BY <1>1, <1>3, <1>5, <1>6 DEF Places, Thread

\* A thread that only moves.
LEMMA Moves ==
  ASSUME Typed, NEW t \in Thread,
         UNCHANGED <<masterVars, objectVars, queueIn, session, shared, done>>,
         raced' \subseteq Phone,
         walk' \in [list : Seq(Phone), ready : BOOLEAN, reached : Seq(Phone)],
         pc' \in [Thread -> Place], at' \in [Thread -> Frame],
         \A u \in Thread \ {t} : pc'[u] = pc[u] /\ at'[u] = at[u],
         Placed(t)', pc'["master"] \in {"fill", "map"} => pc'["master"] = pc["master"]
  PROVE  Typed'
<1>1. UNCHANGED <<lists, devs, proxies, cmds>>
  BY DEF masterVars, objectVars
<1>2. Device' = Device /\ Frame' = Frame /\ Proxy' = Proxy /\ Message' = Message
  BY <1>1, SameObjects DEF Typed
<1>3. TypeOK'
  BY <1>1, <1>2 DEF Typed, TypeOK, masterVars
<1>4. UNCHANGED <<lists, timer, device, proxies>>
  BY DEF masterVars, objectVars
<1>5. Places'
  BY <1>3, <1>4, StepPlaces DEF Typed, Places
<1> QED
  BY <1>3, <1>5 DEF Typed

LEMMA HandledFrame ==
  ASSUME Typed, NEW t \in Thread, Handled(t)
  PROVE  /\ at'[t] \in Frame /\ at' \in [Thread -> Frame]
         /\ \A u \in Thread \ {t} : at'[u] = at[u] /\ pc'[u] = pc[u]
         /\ at'[t].list = at[t].list /\ at'[t].pos = at[t].pos /\ at'[t].phone = at[t].phone
         /\ pc'[t] = IF t = "master" THEN "ask" ELSE "next"
         /\ pc' \in [Thread -> Place]
<1> DEFINE c == IF t = "master" THEN 0 ELSE at[t].cmd
           b1 == [at[t] EXCEPT !.cmd = c]
           b2 == [b1 EXCEPT !.dev = 0]
           b3 == [b2 EXCEPT !.own = FALSE]
           b4 == [b3 EXCEPT !.num = 0]
<1>1. at[t] \in Frame /\ c \in 0..Len(cmds) /\ 0 \in 0..Len(devs)
  <2>1. at[t] \in Frame
    BY DEF Typed, TypeOK
  <2>2. at[t].cmd \in 0..Len(cmds)
    BY <2>1 DEF Frame
  <2> QED
    BY <2>1, <2>2, Lengths DEF Typed
<1>2. b1 \in Frame
  BY <1>1 DEF Frame
<1>3. PICK f2 \in Frame : f2 = b2
  BY <1>1, <1>2 DEF Frame
<1>4. PICK f3 \in Frame : f3 = [f2 EXCEPT !.own = FALSE]
  BY ONLY f2 \in Frame DEF Frame
<1>5. PICK f4 \in Frame : f4 = [f3 EXCEPT !.num = 0]
  BY ONLY f3 \in Frame DEF Frame
<1>6. at' = [at EXCEPT ![t] = f4] /\ pc' = [pc EXCEPT ![t] = IF t = "master" THEN "ask" ELSE "next"]
  BY <1>3, <1>4, <1>5 DEF Handled, Goto, Local
<1>7. f4.list = at[t].list /\ f4.pos = at[t].pos /\ f4.phone = at[t].phone
  BY <1>1, <1>3, <1>4, <1>5 DEF Frame
<1> HIDE DEF c, b1, b2, b3, b4
<1> QED
  BY <1>6, <1>7 DEF Typed, TypeOK, Place, Thread

LEMMA WalkTyped == TypeOK =>
  /\ walk.list \in Seq(Phone) /\ walk.ready \in BOOLEAN /\ walk.reached \in Seq(Phone)
BY DEF TypeOK

LEMMA ReachedTyped ==
  ASSUME TypeOK, NEW t \in Thread, Reached(t), at[t].phone \in Phone
  PROVE  walk' \in [list : Seq(Phone), ready : BOOLEAN, reached : Seq(Phone)]
<1>1. Append(walk.reached, at[t].phone) \in Seq(Phone)
  BY WalkTyped, AppendProperties
<1> QED
  BY <1>1 DEF Reached, TypeOK

-----------------------------------------------------------------------------
(* Types are kept: Init and the walk *)

LEMMA InitTyped == Init => Typed
<1> SUFFICES ASSUME Init PROVE Typed
  OBVIOUS
<1> USE WalkAssumption DEF Init
<1>1. lists = <<<<>>>> /\ Len(lists) = 1 /\ lists \in Seq(Seq(Phone))
  OBVIOUS
<1>2. Nowhere \in Frame
  BY <1>1 DEF Nowhere, Frame
<1>3. TypeOK
  <2>1. session \in [found : Seq(Seq(Phone)), walks : Seq({"install", "info", "update"}),
                     infos : Nat, timeouts : Nat]
    OBVIOUS
  <2>2. devs \in Seq(Device) /\ proxies \in Seq(Proxy) /\ cmds \in Seq(Command)
        /\ queueIn \in Seq(Message) /\ Len(devs) = 0
    OBVIOUS
  <2>3. walk \in [list : Seq(Phone), ready : BOOLEAN, reached : Seq(Phone)]
    BY DEF NoWalk
  <2>4. device \in [Phone -> 0..Len(devs)]
    BY <2>2
  <2> QED
    BY <1>1, <1>2, <2>1, <2>2, <2>3, <2>4 DEF TypeOK, Place
<1>4. Places
  BY DEF Places, Placed, Adding, Sending, Thread
<1> QED
  BY <1>3, <1>4 DEF Typed

LEMMA BeginWalkTyped ==
  ASSUME Typed, BeginWalk
  PROVE  Typed'
<1> USE DEF Typed
<1>1. UNCHANGED <<lists, device, known, timer, devs, proxies, queueIn, shared, raced, done>>
  BY DEF BeginWalk, masterVars
<1>2. cmds' \in Seq(Command) /\ Len(cmds)' \in Nat /\ Len(cmds) <= Len(cmds)'
  <2>1. CASE UNCHANGED cmds
    BY <2>1, Lengths DEF TypeOK
  <2>2. CASE ~UNCHANGED cmds
    <3>1. Head(session.walks) \in {"install", "info"}
      BY <2>2, HeadTailProperties DEF BeginWalk, TakeNext, TypeOK
    <3> DEFINE c == [kind |-> Head(session.walks), sub |-> 0, ops |-> <<>>]
    <3>2. cmds' = Append(cmds, c) /\ c \in Command
      BY <3>1, <2>2 DEF BeginWalk, Command
    <3>3. cmds' \in Seq(Command) /\ Len(cmds)' = Len(cmds) + 1
      BY <3>2, AppendProperties DEF TypeOK
    <3> QED
      BY <3>3, Lengths
  <2> QED
    BY <2>1, <2>2
<1>3. session' \in [found : Seq(Seq(Phone)), walks : Seq({"install", "info", "update"}),
                    infos : Nat, timeouts : Nat]
  BY HeadTailProperties DEF BeginWalk, TakeNext, TypeOK
<1>4. Last(lists) \in Seq(Phone)
  BY Lengths, ElementOfSeq DEF Last, TypeOK
<1>5. walk' \in [list : Seq(Phone), ready : BOOLEAN, reached : Seq(Phone)]
  BY <1>4 DEF BeginWalk, Ready
<1>6. /\ Frame \subseteq Frame' /\ devs \in Seq(Device') /\ proxies \in Seq(Proxy')
      /\ queueIn \in Seq(Message') /\ at \in [Thread -> Frame']
      /\ device \in [Phone -> 0..Len(devs)']
      /\ shared \subseteq 1..Len(cmds)' /\ done \subseteq (1..Len(cmds)') \X {"delete", "just"}
  BY <1>1, <1>2, Lengths, Grows
<1>7. /\ at' \in [Thread -> Frame'] /\ at'["master"] = at["master"]
      /\ at'["phone"].list = Len(lists) /\ at'["phone"].pos = 1
  <2> DEFINE c == IF Head(session.walks) = "update" THEN 0 ELSE Len(cmds')
  <2>1. c \in 0..Len(cmds)' /\ Len(lists) \in 0..Len(lists)'
        /\ 0 \in 0..Len(lists)' /\ 0 \in 0..Len(devs)' /\ 0 \in 0..Len(cmds)'
    BY <1>1, <1>2, Lengths
  <2>2. Nowhere \in Frame'
    BY <2>1 DEF Nowhere, Frame
  <2>3. PICK f1 \in Frame' : f1 = [Nowhere EXCEPT !.list = Len(lists)]
    BY <2>1, <2>2 DEF Frame
  <2>4. PICK f2 \in Frame' : f2 = [f1 EXCEPT !.pos = 1]
    BY ONLY f1 \in Frame' DEF Frame
  <2>5. PICK f3 \in Frame' : f3 = [f2 EXCEPT !.cmd = c]
    BY ONLY f2 \in Frame', <2>1 DEF Frame
  <2>6. at' = [at EXCEPT !["phone"] = f3]
    BY <2>3, <2>4, <2>5 DEF BeginWalk, Local
  <2>7. f3.list = Len(lists) /\ f3.pos = 1
    BY <2>3, <2>4, <2>5 DEF Nowhere
  <2> QED
    BY <1>6, <2>6, <2>7 DEF Thread
<1>8. pc' = [pc EXCEPT !["phone"] = "next"] /\ pc["phone"] = "idle"
  BY DEF BeginWalk, Goto, From
<1>9. TypeOK'
  BY <1>1, <1>2, <1>3, <1>5, <1>6, <1>7, <1>8 DEF TypeOK, Place
<1>10. Placed("phone")'
  BY <1>1, <1>7, <1>8, Lengths DEF Placed, Adding, Sending, TypeOK, Thread
<1>11. Places'
  BY <1>1, <1>7, <1>8, <1>9, <1>10, StepPlaces DEF Places, Thread, TypeOK
<1> QED
  BY <1>9, <1>11

LEMMA NextPhoneTyped ==
  ASSUME Typed, NEW t \in Thread, NextPhone(t)
  PROVE  Typed'
<1> USE DEF Typed
<1> DEFINE list == lists[at[t].list]
<1>1. at[t].list \in 1..Len(lists) /\ at[t].pos \in Nat \ {0} /\ at[t] \in Frame
  BY FrameFields DEF NextPhone, From, Places, Placed
<1>2. list \in Seq(Phone) /\ Len(list) \in Nat
  BY <1>1, ElementOfSeq, LenProperties DEF TypeOK
<1>3. UNCHANGED <<masterVars, objectVars, queueIn, session, walk, shared, raced, done>>
  BY DEF NextPhone, history
<1>4. Len(lists)' = Len(lists)
  BY <1>3 DEF masterVars
<1>5. CASE at[t].pos > Len(list)
  <2>1. pc' = [pc EXCEPT ![t] = "idle"] /\ at' = [at EXCEPT ![t] = Nowhere]
    BY <1>5 DEF NextPhone, Goto, Local
  <2>2. Nowhere \in Frame
    BY Lengths DEF Nowhere, Frame
  <2>3. Placed(t)'
    BY <2>1 DEF Placed, Adding, Sending, TypeOK
  <2> QED
    BY <2>1, <2>2, <2>3, <1>3, Moves DEF TypeOK, Place, Thread
<1>6. CASE ~(at[t].pos > Len(list))
  <2>1. list[at[t].pos] \in Phone
    BY <1>1, <1>2, <1>6, ElementOfSeq
  <2>2. PICK f1 \in Frame : f1 = [at[t] EXCEPT !.phone = list[at[t].pos]]
    BY <1>1, <2>1 DEF Frame
  <2>3. PICK f2 \in Frame : f2 = [f1 EXCEPT !.pos = at[t].pos + 1]
    <3>1. at[t].pos + 1 \in Nat
      BY <1>1
    <3> QED
      BY ONLY f1 \in Frame, <3>1 DEF Frame
  <2>4. pc' = [pc EXCEPT ![t] = "add"] /\ at' = [at EXCEPT ![t] = f2]
    BY <1>6, <2>2, <2>3 DEF NextPhone, Goto, Local
  <2>5. f2.list = at[t].list /\ f2.pos = at[t].pos + 1 /\ f2.phone \in Phone
    BY <1>1, <2>1, <2>2, <2>3 DEF Frame
  <2>6. pc'[t] = "add" /\ at'[t] = f2
    BY <2>4 DEF TypeOK
  <2>7. Placed(t)'
    BY <2>5, <2>6, <1>1, <1>4 DEF Placed, Adding, Sending
  <2> QED
    BY <2>4, <2>7, <1>3, Moves DEF TypeOK, Place, Thread
<1> QED
  BY <1>5, <1>6

LEMMA SpendTyped ==
  ASSUME TypeOK, NEW e \in {"infos", "timeouts"}, Spend(e)
  PROVE  session' \in [found : Seq(Seq(Phone)), walks : Seq({"install", "info", "update"}),
                      infos : Nat, timeouts : Nat]
<1>1. session[e] - 1 \in Nat
  BY DEF TypeOK, Spend
<1>2. session' = [session EXCEPT ![e] = session[e] - 1]
  BY DEF Spend
<1>3. CASE e = "infos"
  BY <1>1, <1>2, <1>3 DEF TypeOK
<1>4. CASE e = "timeouts"
  BY <1>1, <1>2, <1>4 DEF TypeOK
<1> QED
  BY <1>3, <1>4

LEMMA AskTyped ==
  ASSUME Typed, Ask
  PROVE  Typed'
<1> USE DEF Typed
<1>1. UNCHANGED <<lists, known, device, timer, devs, proxies, queueIn, walk, shared, raced, done>>
  BY DEF Ask, masterVars, history
<1>2. pc["master"] = "ask" /\ at["master"].list \in 1..Len(lists)
      /\ at["master"].pos \in Nat \ {0} /\ at["master"] \in Frame
      /\ at["master"].phone \in Phone
  BY FrameFields DEF Ask, From, Places, Placed, Thread
<1>3. CASE Goto("master", "next") /\ Stay("master") /\ UNCHANGED <<session, cmds>>
  <2>1. Placed("master")'
    BY <1>1, <1>2, <1>3 DEF Goto, Stay, Placed, Adding, Sending, TypeOK, Thread
  <2> QED
    BY <1>1, <1>3, <2>1, Moves
       DEF Goto, Stay, TypeOK, Place, Thread, masterVars, objectVars
<1>4. CASE Spend("infos") /\ Goto("master", "add")
           /\ cmds' = Append(cmds, [kind |-> "info", sub |-> 0, ops |-> <<>>])
           /\ Local("master", [at["master"] EXCEPT !.cmd = Len(cmds')])
  <2>1. [kind |-> "info", sub |-> 0, ops |-> <<>>] \in Command
    BY DEF Command
  <2>2. cmds' \in Seq(Command) /\ Len(cmds)' = Len(cmds) + 1 /\ Len(cmds) \in Nat
    BY <1>4, <2>1, AppendProperties DEF TypeOK
  <2>3. /\ Frame \subseteq Frame' /\ devs \in Seq(Device') /\ proxies \in Seq(Proxy')
        /\ queueIn \in Seq(Message') /\ at \in [Thread -> Frame']
        /\ device \in [Phone -> 0..Len(devs)']
        /\ shared \subseteq 1..Len(cmds)' /\ done \subseteq (1..Len(cmds)') \X {"delete", "just"}
    BY <1>1, <2>2, Lengths, Grows
  <2>4. session' \in [found : Seq(Seq(Phone)), walks : Seq({"install", "info", "update"}),
                      infos : Nat, timeouts : Nat]
    BY <1>4, SpendTyped
  <2>5. PICK f \in Frame' : f = [at["master"] EXCEPT !.cmd = Len(cmds')]
    <3>1. Len(cmds') \in 0..Len(cmds)' /\ at["master"] \in Frame'
      BY <1>2, <2>2, <2>3
    <3> QED
      BY ONLY <3>1 DEF Frame
  <2>6. pc' = [pc EXCEPT !["master"] = "add"] /\ at' = [at EXCEPT !["master"] = f]
    BY <1>4, <2>5 DEF Goto, Local
  <2>7. f.list = at["master"].list /\ f.pos = at["master"].pos /\ f.phone = at["master"].phone
    BY <1>2, <2>5 DEF Frame
  <2>8. pc'["master"] = "add" /\ at'["master"] = f /\ Len(lists)' = Len(lists)
    BY <1>1, <2>6 DEF TypeOK, Thread
  <2>9. Placed("master")'
    BY <1>2, <2>7, <2>8 DEF Placed, Adding, Sending
  <2>10. TypeOK'
    BY <1>1, <2>2, <2>3, <2>4, <2>6 DEF TypeOK, Place
  <2>11. Places'
    BY <1>1, <2>6, <2>9, <2>10, StepPlaces DEF Places, Thread, TypeOK
  <2> QED
    BY <2>10, <2>11
<1> QED
  BY <1>3, <1>4 DEF Ask

LEMMA TimerHasDevice ==
  ASSUME Typed, NEW s \in Phone, timer[s]
  PROVE  device[s] \in 1..Len(devs) /\ devs[device[s]] \in Device
<1>1. device[s] # 0 /\ device[s] \in 0..Len(devs)
  BY DEF Typed, Places, TypeOK
<1>2. device[s] \in 1..Len(devs)
  BY <1>1, Lengths DEF Typed
<1> QED
  BY <1>2, ElementOfSeq DEF Typed, TypeOK

LEMMA CheckTimeoutTyped ==
  ASSUME Typed, NEW t \in Thread, NEW s \in Phone, CheckTimeout(t, s)
  PROVE  Typed'
<1> USE DEF Typed
<1> DEFINE d == device[s]
           g == devs[d].proxy
<1>1. UNCHANGED <<lists, known, device, cmds, queueIn, pc, at, shared, raced, done>>
      /\ timer[s] /\ timer' = [timer EXCEPT ![s] = FALSE]
  BY DEF CheckTimeout
<1>2. d \in 1..Len(devs) /\ devs[d] \in Device
  BY <1>1, TimerHasDevice
<1>3. devs[d].lastSub \in Nat /\ g \in 0..Len(proxies)
  BY <1>2 DEF Device
<1>4. proxies' \in Seq(Proxy) /\ Len(proxies)' = Len(proxies)
      /\ \A h \in DOMAIN proxies' : h \in DOMAIN proxies /\ proxies'[h].phone = proxies[h].phone
  <2>1. CASE g = 0
    BY <2>1 DEF CheckTimeout, TypeOK
  <2>2. CASE g # 0
    <3>1. g \in 1..Len(proxies) /\ Len(proxies) \in Nat
      BY <1>3, <2>2, Lengths
    <3>2. proxies[g] \in Proxy
      BY <3>1, ElementOfSeq DEF TypeOK
    <3>3. PICK p \in Proxy : p = [proxies[g] EXCEPT !.on = FALSE]
      BY ONLY <3>2 DEF Proxy
    <3>4. proxies' = [proxies EXCEPT ![g] = p] /\ p.phone = proxies[g].phone
      BY <2>2, <3>2, <3>3 DEF CheckTimeout, Proxy
    <3>5. proxies' \in Seq(Proxy) /\ Len(proxies)' = Len(proxies)
          /\ \A h \in 1..Len(proxies) : proxies'[h] = IF h = g THEN p ELSE proxies[h]
      BY SMTT(30), <3>1, <3>4, ExceptSeq DEF TypeOK
    <3> QED
      BY <3>4, <3>5, Lengths
  <2> QED
    BY <2>1, <2>2
<1>5. devs' \in Seq(Device) /\ Len(devs)' = Len(devs)
  <2>1. PICK r1 \in Device : r1 = [devs[d] EXCEPT !.minSub = devs[d].lastSub]
    BY ONLY <1>2, <1>3 DEF Device
  <2>2. PICK r2 \in Device : r2 = [r1 EXCEPT !.proxy = 0]
    <3>1. 0 \in 0..Len(proxies)
      BY Lengths
    <3> QED
      BY ONLY r1 \in Device, <3>1 DEF Device
  <2>3. devs' = [devs EXCEPT ![d] = r2]
    BY <1>2, <2>1, <2>2 DEF CheckTimeout, TypeOK
  <2> QED
    BY <1>2, <2>3, ExceptSeq DEF TypeOK
<1>6. Device' = Device /\ Frame' = Frame /\ Proxy' = Proxy /\ Message' = Message
  BY <1>1, <1>4, <1>5, SameObjects
<1>7. /\ session' \in [found : Seq(Seq(Phone)), walks : Seq({"install", "info", "update"}),
                       infos : Nat, timeouts : Nat]
      /\ walk' \in [list : Seq(Phone), ready : BOOLEAN, reached : Seq(Phone)]
  BY SpendTyped DEF CheckTimeout, TypeOK
<1>8. TypeOK'
  BY <1>1, <1>4, <1>5, <1>6, <1>7 DEF TypeOK
<1>9. ASSUME NEW u \in Thread PROVE Placed(u)'
  BY <1>1 DEF Places, Placed
<1>10. \A x \in Phone : timer'[x] => device'[x] # 0
  BY <1>1 DEF Places, TypeOK
<1>11. Places'
  BY <1>1, <1>4, <1>9, <1>10 DEF Places
<1> QED
  BY <1>8, <1>11

LEMMA AddTyped ==
  ASSUME Typed, NEW t \in Thread, Add(t)
  PROVE  Typed'
<1> USE DEF Typed
<1> DEFINE d == device[at[t].phone]
           l == IF d = 0 THEN "new" ELSE IF devs[d].proxy = 0 THEN "create" ELSE "added"
<1>1. UNCHANGED <<masterVars, objectVars, queueIn, session, walk, shared, raced, done>>
      /\ pc' = [pc EXCEPT ![t] = l] /\ pc[t] = "add"
  BY DEF Add, history, Goto, From
<1>2. at[t].phone \in Phone /\ at[t].list \in 1..Len(lists) /\ at[t].pos \in Nat \ {0}
  BY <1>1 DEF Places, Placed, Adding, Sending
<1>3. d \in 0..Len(devs) /\ (d = 0) \in BOOLEAN /\ at[t] \in Frame
  BY <1>2, FrameFields DEF TypeOK
<1>4. PICK f1 \in Frame : f1 = [at[t] EXCEPT !.dev = d]
  BY ONLY <1>3 DEF Frame
<1>5. PICK f2 \in Frame : f2 = [f1 EXCEPT !.own = (d = 0)]
  BY ONLY <1>3, f1 \in Frame DEF Frame
<1>6. at' = [at EXCEPT ![t] = f2]
  BY <1>4, <1>5 DEF Add, Local
<1>7. f2.list = at[t].list /\ f2.pos = at[t].pos /\ f2.phone = at[t].phone /\ f2.dev = d
  BY <1>3, <1>4, <1>5 DEF Frame
<1>8. at'[t] = f2 /\ pc'[t] = l /\ Len(lists)' = Len(lists) /\ device' = device
  BY <1>1, <1>6 DEF TypeOK, masterVars
<1>9. Placed(t)'
  BY <1>2, <1>7, <1>8 DEF Placed, Adding, Sending
<1> QED
  BY <1>1, <1>6, <1>9, Moves DEF TypeOK, Place, Thread

LEMMA MaybeCreateTyped ==
  ASSUME Typed, NEW t \in Thread, MaybeCreate(t)
  PROVE  Typed'
<1> USE DEF Typed
<1>1. UNCHANGED <<masterVars, objectVars, queueIn, session, walk, shared, raced, done, at>>
      /\ pc[t] = "maybe" /\ pc' = [pc EXCEPT ![t] = IF devs[at[t].dev].proxy = 0
                                                   THEN "create" ELSE "added"]
  BY DEF MaybeCreate, history, Goto, From, Stay
<1>2. Placed(t)'
  BY <1>1 DEF Places, Placed, Adding, Sending, TypeOK, masterVars
<1> QED
  BY <1>1, <1>2, Moves DEF TypeOK, Place, Thread

LEMMA RaiseTyped ==
  ASSUME Typed, NEW t \in Thread, Raise(t),
         UNCHANGED <<masterVars, objectVars, queueIn, session, walk, shared, raced, done>>
  PROVE  Typed'
<1>1. Nowhere \in Frame
  BY Lengths DEF Typed, Nowhere, Frame
<1>2. pc' = [pc EXCEPT ![t] = IF t = "phone" THEN "dead" ELSE "idle"]
      /\ at' = [at EXCEPT ![t] = Nowhere]
  BY DEF Raise, Goto, Local
<1>3. Placed(t)'
  BY <1>2 DEF Typed, TypeOK, Placed, Adding, Sending
<1> QED
  BY <1>1, <1>2, <1>3, Moves DEF Typed, TypeOK, Place, Thread

\* Where a thread is tells which of its variables are set.
LEMMA Here ==
  ASSUME Typed, NEW t \in Thread, pc[t] \in Adding \cup Sending
  PROVE  /\ at[t].phone \in Phone /\ at[t].list \in 1..Len(lists) /\ at[t].pos \in Nat \ {0}
         /\ pc[t] \notin {"add", "new"} =>
              /\ at[t].dev \in 1..Len(devs) /\ devs[at[t].dev] \in Device
              /\ device[at[t].phone] \in 1..Len(devs)
         /\ pc[t] \in Sending => at[t].cmd \in 1..Len(cmds) /\ cmds[at[t].cmd] \in Command
<1>1. at[t].phone \in Phone /\ at[t].list \in 1..Len(lists) /\ at[t].pos \in Nat \ {0}
  BY DEF Typed, Places, Placed, Adding, Sending
<1>2. /\ at[t].dev \in 0..Len(devs) /\ device[at[t].phone] \in 0..Len(devs)
      /\ at[t].cmd \in 0..Len(cmds) /\ Len(devs) \in Nat /\ Len(cmds) \in Nat
  BY <1>1, FrameFields, Lengths DEF Typed, TypeOK
<1>3. pc[t] \notin {"add", "new"} => at[t].dev # 0 /\ device[at[t].phone] # 0
  BY DEF Typed, Places, Placed, Adding, Sending
<1>4. pc[t] \notin {"add", "new"} => at[t].dev \in 1..Len(devs) /\ device[at[t].phone] \in 1..Len(devs)
  BY <1>2, <1>3
<1>5. pc[t] \in Sending => at[t].cmd \in 1..Len(cmds)
  BY <1>2 DEF Typed, Places, Placed
<1> QED
  BY <1>1, <1>4, <1>5, ElementOfSeq DEF Typed, TypeOK

\* And what it refers to exists.
LEMMA ProxyPhones == Typed => \A g \in DOMAIN proxies : proxies[g].phone \in Phone /\ device[proxies[g].phone] # 0
<1> SUFFICES ASSUME Typed, NEW g \in DOMAIN proxies
             PROVE  proxies[g].phone \in Phone /\ device[proxies[g].phone] # 0
  OBVIOUS
<1>1. proxies[g] \in Proxy
  BY Lengths, ElementOfSeq DEF Typed, TypeOK
<1> QED
  BY <1>1 DEF Proxy, Typed, Places

LEMMA AddNewTyped ==
  ASSUME Typed, NEW t \in Thread, AddNew(t)
  PROVE  Typed'
<1> USE DEF Typed
<1> DEFINE s == at[t].phone
           r == [subId |-> 0, lastSub |-> 0, minSub |-> 0, proxy |-> 0]
<1>1. UNCHANGED <<lists, known, timer, proxies, cmds, queueIn, session, walk, shared, done>>
      /\ pc[t] = "new"
  BY DEF AddNew, From
<1>2. s \in Phone /\ at[t].list \in 1..Len(lists) /\ at[t].pos \in Nat \ {0} /\ at[t] \in Frame
  BY <1>1, Here, FrameFields DEF Adding
<1>3. CASE s \in known
  <2>1. r \in Device /\ devs' = Append(devs, r)
    BY <1>3, Lengths DEF AddNew, Device
  <2>2. devs' \in Seq(Device) /\ Len(devs)' = Len(devs) + 1 /\ Len(devs) \in Nat
    BY <2>1, AppendProperties DEF TypeOK
  <2>3. /\ Frame \subseteq Frame' /\ Device \subseteq Device' /\ proxies \in Seq(Proxy')
        /\ queueIn \in Seq(Message') /\ at \in [Thread -> Frame']
        /\ device \in [Phone -> 0..Len(devs)']
        /\ shared \subseteq 1..Len(cmds)' /\ done \subseteq (1..Len(cmds)') \X {"delete", "just"}
    BY <1>1, <2>2, Lengths, Grows
  <2>4. devs' \in Seq(Device')
    BY <2>2, <2>3, SeqMonotonic
  <2>5. Len(devs') \in 0..Len(devs)' /\ Len(devs') # 0
    BY <2>2
  <2>6. device' = [device EXCEPT ![s] = Len(devs')] /\ device' \in [Phone -> 0..Len(devs)']
    BY <1>3, <2>3, <2>5 DEF AddNew
  <2>7. PICK f \in Frame' : f = [at[t] EXCEPT !.dev = Len(devs')]
    <3>1. at[t] \in Frame'
      BY <1>2, <2>3
    <3> QED
      BY ONLY <2>5, <3>1 DEF Frame
  <2>8. at' = [at EXCEPT ![t] = f] /\ pc' = [pc EXCEPT ![t] = "maybe"]
    BY <1>3, <2>7 DEF AddNew, Goto, Local
  <2>9. f.list = at[t].list /\ f.pos = at[t].pos /\ f.phone = at[t].phone /\ f.dev = Len(devs')
    BY <1>2, <2>7 DEF Frame
  <2>10. raced' \subseteq Phone
    BY <1>2, <1>3 DEF AddNew, TypeOK
  <2>11. TypeOK'
    BY <1>1, <2>3, <2>4, <2>6, <2>8, <2>10 DEF TypeOK, Place
  <2>12. at'[t] = f /\ pc'[t] = "maybe" /\ Len(lists)' = Len(lists) /\ device'[s] = Len(devs')
    BY <1>1, <1>2, <2>6, <2>8 DEF TypeOK
  <2>13. Placed(t)'
    BY <1>2, <2>5, <2>9, <2>12 DEF Placed, Adding, Sending
  <2>14. \A x \in Phone : device[x] # 0 => device'[x] # 0
    BY <2>5, <2>6 DEF TypeOK
  <2>15. Places'
    BY <1>1, <2>8, <2>11, <2>13, <2>14, ProxyPhones, StepPlaces DEF Thread, TypeOK
  <2> QED
    BY <2>11, <2>15
<1>4. CASE s \notin known
  BY <1>1, <1>4, RaiseTyped DEF AddNew, masterVars, objectVars
<1> QED
  BY <1>3, <1>4

LEMMA CreateTyped ==
  ASSUME Typed, NEW t \in Thread, Create(t)
  PROVE  Typed'
<1> USE DEF Typed
<1> DEFINE d == at[t].dev
           p == [phone |-> at[t].phone, started |-> FALSE, on |-> TRUE, queue |-> <<>>, run |-> 0]
<1>1. UNCHANGED <<lists, known, device, timer, cmds, queueIn, session, at, walk, shared, raced, done>>
      /\ pc[t] = "create" /\ pc' = [pc EXCEPT ![t] = "start"]
  BY DEF Create, From, Goto, Stay, masterVars, history
<1>2. /\ at[t].phone \in Phone /\ at[t].list \in 1..Len(lists) /\ at[t].pos \in Nat \ {0}
      /\ d \in 1..Len(devs) /\ devs[d] \in Device /\ device[at[t].phone] \in 1..Len(devs)
  BY <1>1, Here DEF Adding
<1>3. p \in Proxy /\ proxies' = Append(proxies, p)
  BY <1>2, Lengths DEF Create, Proxy
<1>4. proxies' \in Seq(Proxy) /\ Len(proxies)' = Len(proxies) + 1 /\ Len(proxies) \in Nat
  BY <1>3, AppendProperties DEF TypeOK
<1>5. devs \in Seq(Device')
  <2>1. Device \subseteq Device'
    BY <1>4 DEF Device
  <2> QED
    BY <2>1, SeqMonotonic DEF TypeOK
<1>6. devs' \in Seq(Device') /\ Len(devs)' = Len(devs)
  <2>1. devs[d] \in Device' /\ Len(proxies') \in 0..Len(proxies)'
    BY <1>2, <1>4, <1>5, ElementOfSeq
  <2>2. PICK r \in Device' : r = [devs[d] EXCEPT !.proxy = Len(proxies')]
    BY ONLY <2>1 DEF Device
  <2>3. devs' = [devs EXCEPT ![d] = r]
    BY <2>2 DEF Create
  <2> QED
    BY <1>2, <1>5, <2>3, ExceptSeq
<1>7. /\ Proxy \subseteq Proxy' /\ queueIn \in Seq(Message') /\ at \in [Thread -> Frame']
      /\ device \in [Phone -> 0..Len(devs)']
      /\ shared \subseteq 1..Len(cmds)' /\ done \subseteq (1..Len(cmds)') \X {"delete", "just"}
  BY <1>1, <1>4, <1>6, Lengths, Grows
<1>8. proxies' \in Seq(Proxy')
  BY <1>4, <1>7, SeqMonotonic
<1>9. TypeOK'
  BY <1>1, <1>6, <1>7, <1>8 DEF TypeOK, Place
<1>10. pc'[t] = "start" /\ at' = at /\ Len(lists)' = Len(lists) /\ device' = device
  BY <1>1 DEF TypeOK
<1>11. Placed(t)'
  BY <1>2, <1>10, Lengths DEF Placed, Adding, Sending
<1>12. \A g \in DOMAIN proxies' : device'[proxies'[g].phone] # 0
  <2>1. TAKE g \in DOMAIN proxies'
  <2>2. \/ g \in DOMAIN proxies /\ proxies'[g] = proxies[g]
        \/ proxies'[g] = p
    BY <1>3, AppendLast DEF TypeOK
  <2> QED
    BY <2>2, <1>1, <1>2, ProxyPhones, Lengths
<1>13. Places'
  BY <1>1, <1>9, <1>11, <1>12, StepPlaces DEF Thread, TypeOK
<1> QED
  BY <1>9, <1>13

LEMMA StartTyped ==
  ASSUME Typed, NEW t \in Thread, Start(t)
  PROVE  Typed'
<1> USE DEF Typed
<1> DEFINE d == at[t].dev
           g == devs[d].proxy
<1>1. UNCHANGED <<masterVars, devs, cmds, queueIn, session, walk, shared, raced, done>> /\ pc[t] = "start"
  BY DEF Start, From, history
<1>2. /\ at[t].phone \in Phone /\ at[t].list \in 1..Len(lists) /\ at[t].pos \in Nat \ {0}
      /\ d \in 1..Len(devs) /\ devs[d] \in Device /\ device[at[t].phone] \in 1..Len(devs)
  BY <1>1, Here DEF Adding
<1>3. CASE g # 0 /\ ~proxies[g].started
  <2>1. g \in 1..Len(proxies) /\ proxies[g] \in Proxy
    <3>1. g \in 0..Len(proxies) /\ Len(proxies) \in Nat
      BY <1>2, Lengths DEF Device
    <3>2. g \in 1..Len(proxies)
      BY <3>1, <1>3
    <3> QED
      BY <3>2, ElementOfSeq DEF TypeOK
  <2>2. PICK p \in Proxy : p = [proxies[g] EXCEPT !.started = TRUE]
    BY ONLY <2>1 DEF Proxy
  <2>3. proxies' = [proxies EXCEPT ![g] = p] /\ p.phone = proxies[g].phone
        /\ pc' = [pc EXCEPT ![t] = "added"] /\ at' = at
    BY Zenon, <1>3, <2>1, <2>2 DEF Start, Proxy, Goto, Stay
  <2>4. proxies' \in Seq(Proxy) /\ Len(proxies)' = Len(proxies)
        /\ \A h \in 1..Len(proxies) : proxies'[h] = IF h = g THEN p ELSE proxies[h]
    BY SMTT(30), <2>1, <2>3, ExceptSeq DEF TypeOK
  <2>5. \A h \in DOMAIN proxies' : device'[proxies'[h].phone] # 0
    BY <2>3, <2>4, <1>1, Lengths, ProxyPhones DEF masterVars
  <2>6. Device' = Device /\ Frame' = Frame /\ Proxy' = Proxy /\ Message' = Message
    BY <1>1, <2>4, SameObjects DEF masterVars
  <2>7. TypeOK'
    BY <1>1, <2>3, <2>4, <2>6 DEF TypeOK, Place, masterVars
  <2>8. pc'[t] = "added" /\ at' = at /\ Len(lists)' = Len(lists) /\ device' = device
    BY <1>1, <2>3 DEF TypeOK, masterVars
  <2>9. Placed(t)'
    BY SMTT(30), <1>2, <2>8, Lengths DEF Placed, Adding, Sending
  <2>10. Places'
    BY <1>1, <2>3, <2>5, <2>7, <2>9, StepPlaces DEF Thread, TypeOK, masterVars
  <2> QED
    BY <2>7, <2>10
<1>4. CASE ~(g # 0 /\ ~proxies[g].started)
  BY <1>1, <1>4, RaiseTyped DEF Start, masterVars, objectVars
<1> QED
  BY <1>3, <1>4

\* With a command, _Add returns the object it made or looks it up.
LEMMA AddedLocal ==
  ASSUME Typed, NEW t \in Thread, Added(t), at[t].cmd # 0
  PROVE  /\ at' \in [Thread -> Frame] /\ walk' = walk
         /\ \A u \in Thread \ {t} : at'[u] = at[u] /\ pc'[u] = pc[u]
         /\ at'[t].list = at[t].list /\ at'[t].pos = at[t].pos /\ at'[t].phone = at[t].phone
         /\ at'[t].cmd = at[t].cmd /\ ~at'[t].own
         /\ at'[t].dev = IF at[t].own THEN at[t].dev ELSE device[at[t].phone]
         /\ pc'[t] = IF cmds[at[t].cmd].kind = "install" THEN "gen1" ELSE "gen2"
         /\ pc' \in [Thread -> Place]
<1> USE DEF Typed
<1> DEFINE x == IF at[t].own THEN at[t].dev ELSE device[at[t].phone]
           l == IF cmds[at[t].cmd].kind = "install" THEN "gen1" ELSE "gen2"
<1>1. x \in 0..Len(devs) /\ at[t] \in Frame
  BY Here, FrameFields, Lengths DEF Added, From, Adding
<1>2. PICK f1 \in Frame : f1 = [at[t] EXCEPT !.dev = x]
  BY ONLY <1>1 DEF Frame
<1>3. PICK f2 \in Frame : f2 = [f1 EXCEPT !.own = FALSE]
  BY ONLY f1 \in Frame DEF Frame
<1>4. at' = [at EXCEPT ![t] = f2] /\ pc' = [pc EXCEPT ![t] = l] /\ walk' = walk
  BY <1>2, <1>3 DEF Added, Local, Goto
<1>5. f2.list = at[t].list /\ f2.pos = at[t].pos /\ f2.phone = at[t].phone /\ f2.dev = x
      /\ f2.cmd = at[t].cmd /\ ~f2.own
  BY <1>1, <1>2, <1>3 DEF Frame
<1> HIDE DEF x
<1> QED
  BY <1>4, <1>5 DEF TypeOK, Place, x

LEMMA AddedTyped ==
  ASSUME Typed, NEW t \in Thread, Added(t)
  PROVE  Typed'
<1> USE DEF Typed
<1>1. UNCHANGED <<masterVars, objectVars, queueIn, session, shared, raced, done>> /\ pc[t] = "added"
  BY DEF Added, From
<1>2. /\ at[t].phone \in Phone /\ at[t].list \in 1..Len(lists) /\ at[t].pos \in Nat \ {0}
      /\ at[t].dev \in 1..Len(devs) /\ device[at[t].phone] \in 1..Len(devs)
  BY <1>1, Here DEF Adding
<1>3. CASE at[t].cmd = 0
  <2>1. Handled(t) /\ Reached(t)
    BY <1>3 DEF Added
  <2>2. walk' \in [list : Seq(Phone), ready : BOOLEAN, reached : Seq(Phone)]
    BY <1>2, <2>1, ReachedTyped
  <2>3. Placed(t)'
    BY <1>1, <1>2, <2>1, HandledFrame DEF Placed, Adding, Sending, masterVars
  <2> QED
    BY <1>1, <2>1, <2>2, <2>3, HandledFrame, Moves DEF TypeOK, Thread
<1>4. CASE at[t].cmd # 0
  <2>1. Placed(t)'
    BY <1>1, <1>2, <1>4, AddedLocal, Lengths DEF Placed, Adding, Sending, masterVars
  <2> QED
    BY <1>1, <1>4, <2>1, AddedLocal, Moves DEF TypeOK, Thread
<1> QED
  BY <1>3, <1>4

LEMMA ReadNumberTyped ==
  ASSUME Typed, NEW t \in Thread, pc[t] \in Sending, ReadNumber(t)
  PROVE  /\ raced' \subseteq Phone /\ at' \in [Thread -> Frame]
         /\ \A u \in Thread \ {t} : at'[u] = at[u]
         /\ at'[t].list = at[t].list /\ at'[t].pos = at[t].pos /\ at'[t].phone = at[t].phone
         /\ at'[t].dev = at[t].dev /\ at'[t].cmd = at[t].cmd /\ at'[t].own = at[t].own
<1>1. at[t].phone \in Phone /\ devs[at[t].dev] \in Device /\ at[t] \in Frame
  BY Here, FrameFields DEF Sending, Typed
<1>2. devs[at[t].dev].subId + 1 \in Nat
  BY <1>1 DEF Device
<1>3. PICK f \in Frame : f = [at[t] EXCEPT !.num = devs[at[t].dev].subId + 1]
  BY ONLY <1>1, <1>2 DEF Frame
<1>4. at' = [at EXCEPT ![t] = f]
  BY <1>3 DEF ReadNumber, Local
<1>5. f.list = at[t].list /\ f.pos = at[t].pos /\ f.phone = at[t].phone
      /\ f.dev = at[t].dev /\ f.cmd = at[t].cmd /\ f.own = at[t].own
  BY <1>1, <1>3 DEF Frame
<1> QED
  BY <1>1, <1>4, <1>5 DEF ReadNumber, Typed, TypeOK

LEMMA Gen1Typed ==
  ASSUME Typed, NEW t \in Thread, Gen1(t)
  PROVE  Typed'
<1> USE DEF Typed
<1>1. UNCHANGED <<masterVars, objectVars, queueIn, session, walk, shared, done>>
      /\ pc[t] = "gen1" /\ pc' = [pc EXCEPT ![t] = "gen1w"] /\ ReadNumber(t) /\ pc[t] \in Sending
  BY DEF Gen1, From, Goto, Sending
<1>2. Placed(t)'
  BY <1>1, ReadNumberTyped DEF Places, Placed, Adding, Sending, TypeOK, masterVars
<1> QED
  BY <1>1, <1>2, ReadNumberTyped, Moves DEF TypeOK, Place, Thread

LEMMA Gen2Typed ==
  ASSUME Typed, NEW t \in Thread, Gen2(t)
  PROVE  Typed'
<1> USE DEF Typed
<1>1. UNCHANGED <<masterVars, objectVars, queueIn, session, walk, shared, done>>
      /\ pc[t] = "gen2" /\ pc[t] \in Sending
  BY DEF Gen2, From, Sending
<1>2. CASE devs[at[t].dev].proxy = 0
  <2>1. Handled(t) /\ raced' = raced
    BY <1>2 DEF Gen2
  <2>2. Placed(t)'
    BY <1>1, <2>1, Here, HandledFrame DEF Placed, Adding, Sending, masterVars
  <2> QED
    BY <1>1, <2>1, <2>2, HandledFrame, Moves DEF TypeOK, Thread
<1>3. CASE devs[at[t].dev].proxy # 0
  <2>1. pc' = [pc EXCEPT ![t] = "gen2w"] /\ ReadNumber(t)
    BY <1>3 DEF Gen2, Goto
  <2>2. Placed(t)'
    BY <1>1, <2>1, ReadNumberTyped DEF Places, Placed, Adding, Sending, TypeOK, masterVars
  <2> QED
    BY <1>1, <2>1, <2>2, ReadNumberTyped, Moves DEF TypeOK, Place, Thread
<1> QED
  BY <1>2, <1>3

-----------------------------------------------------------------------------
(* Types are kept: commands are numbered and put *)

LEMMA WriteNumberTyped ==
  ASSUME Typed, NEW t \in Thread, pc[t] \in Sending, WriteNumber(t)
  PROVE  /\ devs' \in Seq(Device) /\ Len(devs)' = Len(devs) /\ shared' \subseteq 1..Len(cmds)
         /\ \A d \in 1..Len(devs) : devs'[d].proxy = devs[d].proxy
<1> DEFINE d == at[t].dev
<1>1. /\ d \in 1..Len(devs) /\ devs[d] \in Device /\ at[t].num \in Nat
      /\ at[t].cmd \in 1..Len(cmds)
  BY Here, FrameFields DEF Sending, Typed
<1>2. PICK r \in Device : r = [devs[d] EXCEPT !.subId = at[t].num]
  BY ONLY <1>1 DEF Device
<1>3. devs' = [devs EXCEPT ![d] = r] /\ r.proxy = devs[d].proxy
  BY <1>1, <1>2 DEF WriteNumber, Device
<1>4. devs' \in Seq(Device) /\ Len(devs)' = Len(devs)
      /\ \A x \in 1..Len(devs) : devs'[x] = IF x = d THEN r ELSE devs[x]
  <2>1. devs \in Seq(Device)
    BY DEF Typed, TypeOK
  <2> QED
    BY <1>1, <1>3, <2>1, ExceptSeq
<1>5. shared' \subseteq 1..Len(cmds)
  BY <1>1 DEF WriteNumber, Typed, TypeOK
<1> QED
  BY <1>3, <1>4, <1>5

\* InstallOp writes the number and appends an operation.
LEMMA InstallOpCommand ==
  ASSUME Typed, NEW t \in Thread, InstallOp(t)
  PROVE  /\ at[t].cmd \in 1..Len(cmds) /\ cmds' \in Seq(Command) /\ Len(cmds)' = Len(cmds)
         /\ \A c \in 1..Len(cmds) : cmds'[c].kind = cmds[c].kind
         /\ \A c \in 1..Len(cmds) : c # at[t].cmd => cmds'[c] = cmds[c]
         /\ \E op \in {"delete", "just"} : cmds'[at[t].cmd].ops = Append(cmds[at[t].cmd].ops, op)
<1> DEFINE c == at[t].cmd
<1>1. c \in 1..Len(cmds) /\ cmds[c] \in Command /\ at[t].num \in Nat
  BY Here, FrameFields DEF InstallOp, From, Sending, Typed
<1>2. PICK op \in {"delete", "just"} :
        cmds' = [cmds EXCEPT ![c].sub = at[t].num, ![c].ops = Append(@, op)]
  BY DEF InstallOp
<1>3. Append(cmds[c].ops, op) \in Seq({"delete", "just"})
  <2>1. cmds[c].ops \in Seq({"delete", "just"})
    BY <1>1 DEF Command
  <2> QED
    BY <2>1, AppendProperties
<1>4. PICK m1 \in Command : m1 = [cmds[c] EXCEPT !.sub = at[t].num]
  BY ONLY <1>1 DEF Command
<1>5. PICK m2 \in Command : m2 = [m1 EXCEPT !.ops = Append(cmds[c].ops, op)]
  BY ONLY <1>3, m1 \in Command DEF Command
<1>6. m2.kind = cmds[c].kind /\ m2.ops = Append(cmds[c].ops, op) /\ m1.ops = cmds[c].ops
  BY <1>1, <1>4, <1>5 DEF Command
<1>7. cmds' = [cmds EXCEPT ![c] = m2]
  BY <1>1, <1>2, <1>4, <1>5, <1>6 DEF Typed, TypeOK
<1>8. cmds' \in Seq(Command) /\ Len(cmds)' = Len(cmds)
      /\ \A x \in 1..Len(cmds) : cmds'[x] = IF x = c THEN m2 ELSE cmds[x]
  <2>1. cmds \in Seq(Command)
    BY DEF Typed, TypeOK
  <2> QED
    BY <1>1, <1>7, <2>1, ExceptSeq
<1> QED
  BY <1>1, <1>6, <1>8

LEMMA InstallOpTyped ==
  ASSUME Typed, NEW t \in Thread, InstallOp(t)
  PROVE  Typed'
<1> USE DEF Typed
<1>1. UNCHANGED <<lists, known, device, timer, proxies, session, raced, done>>
      /\ pc[t] = "gen1w" /\ pc[t] \in Sending /\ WriteNumber(t)
  BY DEF InstallOp, From, Sending, masterVars
<1>2. /\ at[t].phone \in Phone /\ at[t].list \in 1..Len(lists) /\ at[t].pos \in Nat \ {0}
      /\ at[t].dev \in 1..Len(devs) /\ device[at[t].phone] \in 1..Len(devs)
      /\ at[t].cmd \in 1..Len(cmds)
  BY <1>1, Here DEF Sending
<1>3. /\ devs' \in Seq(Device) /\ Len(devs)' = Len(devs) /\ shared' \subseteq 1..Len(cmds)
      /\ cmds' \in Seq(Command) /\ Len(cmds)' = Len(cmds)
  BY <1>1, WriteNumberTyped, InstallOpCommand
<1>4. Device' = Device /\ Frame' = Frame /\ Proxy' = Proxy /\ Message' = Message
  BY <1>1, <1>3, SameObjects
<1>5. \A g \in DOMAIN proxies' : device'[proxies'[g].phone] # 0
  BY <1>1, ProxyPhones
<1>6. CASE Goto(t, "gen2") /\ Stay(t) /\ UNCHANGED <<queueIn, walk>>
  <2>1. TypeOK'
    BY <1>1, <1>3, <1>4, <1>6 DEF TypeOK, Place, Goto, Stay
  <2>2. pc'[t] = "gen2" /\ at' = at /\ Len(lists)' = Len(lists) /\ device' = device
    BY <1>1, <1>6 DEF TypeOK, Goto, Stay
  <2>3. Placed(t)'
    BY <1>2, <2>2, Lengths DEF Placed, Adding, Sending
  <2>4. Places'
    BY <1>1, <1>5, <1>6, <2>1, <2>3, StepPlaces DEF Thread, TypeOK, Goto, Stay
  <2> QED
    BY <2>1, <2>4
<1>7. CASE Handled(t) /\ Reached(t)
           /\ queueIn' = Append(queueIn, [type |-> "reply", phone |-> at[t].phone, proxy |-> 0,
                                          cmd |-> at[t].cmd, sub |-> at[t].num])
  <2> DEFINE m == [type |-> "reply", phone |-> at[t].phone, proxy |-> 0,
                   cmd |-> at[t].cmd, sub |-> at[t].num]
  <2>1. m \in Message'
    BY <1>2, <1>4, FrameFields, Lengths DEF Message
  <2>2. queueIn' \in Seq(Message)
    BY <1>4, <1>7, <2>1, AppendProperties DEF TypeOK
  <2>3. walk' \in [list : Seq(Phone), ready : BOOLEAN, reached : Seq(Phone)]
    BY <1>2, <1>7, ReachedTyped
  <2>4. TypeOK'
    BY <1>1, <1>3, <1>4, <1>7, <2>2, <2>3, HandledFrame DEF TypeOK
  <2>5. Placed(t)'
    BY <1>1, <1>2, <1>7, HandledFrame DEF Placed, Adding, Sending
  <2>6. m.type \notin {"start", "stop"}
    OBVIOUS
  <2>7. pc'["master"] \in {"fill", "map"} => pc'["master"] = pc["master"]
    BY <1>7, HandledFrame DEF Thread
  <2>8. \A u \in Thread \ {t} : pc'[u] = pc[u] /\ at'[u] = at[u]
    BY <1>7, HandledFrame
  <2>9. \E x \in Message' : queueIn' = Append(queueIn, x) /\ x.type \notin {"start", "stop"}
    BY <1>7, <2>1, <2>6
  <2>10. Places'
    BY <1>1, <1>5, <2>4, <2>5, <2>7, <2>8, <2>9, StepPlaces
  <2> QED
    BY <2>4, <2>10
<1> QED
  BY <1>6, <1>7 DEF InstallOp

LEMMA Gen2WriteCommand ==
  ASSUME Typed, NEW t \in Thread, Gen2Write(t)
  PROVE  /\ at[t].cmd \in 1..Len(cmds) /\ cmds' \in Seq(Command) /\ Len(cmds)' = Len(cmds)
         /\ \A c \in 1..Len(cmds) : cmds'[c].kind = cmds[c].kind /\ cmds'[c].ops = cmds[c].ops
<1> DEFINE c == at[t].cmd
<1>1. c \in 1..Len(cmds) /\ cmds[c] \in Command /\ at[t].num \in Nat
  BY Here, FrameFields DEF Gen2Write, From, Sending, Typed
<1>2. PICK m \in Command : m = [cmds[c] EXCEPT !.sub = at[t].num]
  BY ONLY <1>1 DEF Command
<1>3. cmds' = [cmds EXCEPT ![c] = m] /\ m.kind = cmds[c].kind /\ m.ops = cmds[c].ops
  BY <1>1, <1>2 DEF Gen2Write, Command
<1>4. cmds' \in Seq(Command) /\ Len(cmds)' = Len(cmds)
      /\ \A x \in 1..Len(cmds) : cmds'[x] = IF x = c THEN m ELSE cmds[x]
  <2>1. cmds \in Seq(Command)
    BY DEF Typed, TypeOK
  <2> QED
    BY <1>1, <1>3, <2>1, ExceptSeq
<1> QED
  BY <1>1, <1>3, <1>4

LEMMA Gen2WriteTyped ==
  ASSUME Typed, NEW t \in Thread, Gen2Write(t)
  PROVE  Typed'
<1> USE DEF Typed
<1>1. UNCHANGED <<lists, known, device, timer, proxies, queueIn, session, walk, raced, done, at>>
      /\ pc[t] = "gen2w" /\ pc[t] \in Sending /\ WriteNumber(t) /\ pc' = [pc EXCEPT ![t] = "put"]
  BY DEF Gen2Write, From, Goto, Stay, Sending, masterVars
<1>2. /\ at[t].phone \in Phone /\ at[t].list \in 1..Len(lists) /\ at[t].pos \in Nat \ {0}
      /\ at[t].dev \in 1..Len(devs) /\ device[at[t].phone] \in 1..Len(devs)
      /\ at[t].cmd \in 1..Len(cmds)
  BY <1>1, Here DEF Sending
<1>3. /\ devs' \in Seq(Device) /\ Len(devs)' = Len(devs) /\ shared' \subseteq 1..Len(cmds)
      /\ cmds' \in Seq(Command) /\ Len(cmds)' = Len(cmds)
  BY <1>1, WriteNumberTyped, Gen2WriteCommand
<1>4. Device' = Device /\ Frame' = Frame /\ Proxy' = Proxy /\ Message' = Message
  BY <1>1, <1>3, SameObjects
<1>5. \A g \in DOMAIN proxies' : device'[proxies'[g].phone] # 0
  BY <1>1, ProxyPhones
<1>6. TypeOK'
  BY <1>1, <1>3, <1>4 DEF TypeOK, Place
<1>7. pc'[t] = "put" /\ at' = at /\ Len(lists)' = Len(lists) /\ device' = device
  BY <1>1 DEF TypeOK
<1>8. Placed(t)'
  BY <1>2, <1>7, Lengths DEF Placed, Adding, Sending
<1>9. Places'
  BY <1>1, <1>5, <1>6, <1>8, StepPlaces DEF Thread, TypeOK
<1> QED
  BY <1>6, <1>9

\* Put appends the command to the queue of the proxy of the device.
LEMMA PutQueue ==
  ASSUME Typed, NEW t \in Thread, Put(t)
  PROVE  LET d == at[t].dev
             g == devs[d].proxy
         IN /\ d \in 1..Len(devs) /\ g \in 0..Len(proxies) /\ at[t].cmd \in 1..Len(cmds)
            /\ devs' \in Seq(Device) /\ Len(devs)' = Len(devs)
            /\ \A x \in 1..Len(devs) : devs'[x].proxy = devs[x].proxy
            /\ proxies' \in Seq(Proxy) /\ Len(proxies)' = Len(proxies)
            /\ g = 0 => Raise(t) /\ UNCHANGED <<proxies, walk>>
            /\ g # 0 => Handled(t) /\ Reached(t)
            /\ \A h \in 1..Len(proxies) :
                 /\ proxies'[h].phone = proxies[h].phone /\ proxies'[h].started = proxies[h].started
                 /\ proxies'[h].on = proxies[h].on /\ proxies'[h].run = proxies[h].run
                 /\ proxies'[h].queue = IF h = g THEN Append(proxies[h].queue, at[t].cmd)
                                        ELSE proxies[h].queue
<1> DEFINE d == at[t].dev
           g == devs[d].proxy
           c == at[t].cmd
<1>1. /\ d \in 1..Len(devs) /\ devs[d] \in Device /\ c \in 1..Len(cmds) /\ cmds[c] \in Command
      /\ pc[t] \in Sending
  BY Here DEF Put, From, Sending
<1>2. g \in 0..Len(proxies) /\ cmds[c].sub \in Nat /\ Len(proxies) \in Nat
  BY SMTT(30), <1>1, Lengths DEF Device, Command, Typed
<1>3. devs' \in Seq(Device) /\ Len(devs)' = Len(devs)
      /\ \A x \in 1..Len(devs) : devs'[x].proxy = devs[x].proxy
  <2>1. PICK r \in Device : r = [devs[d] EXCEPT !.lastSub = cmds[c].sub]
    BY ONLY Zenon, <1>1, <1>2 DEF Device
  <2>2. devs' = [devs EXCEPT ![d] = r] /\ r.proxy = g
    BY <1>1, <2>1 DEF Put, Device
  <2>3. devs \in Seq(Device)
    BY DEF Typed, TypeOK
  <2>4. devs' \in Seq(Device) /\ Len(devs)' = Len(devs)
        /\ \A x \in 1..Len(devs) : devs'[x] = IF x = d THEN r ELSE devs[x]
    BY <1>1, <2>2, <2>3, ExceptSeq
  <2> QED
    BY <2>2, <2>4
<1>4. CASE g = 0
  <2>1. Raise(t) /\ UNCHANGED <<proxies, walk>>
    BY <1>4 DEF Put
  <2>2. proxies' \in Seq(Proxy)
    BY <2>1 DEF Typed, TypeOK
  <2>3. \A h \in 1..Len(proxies) : h # g
    BY <1>4
  <2> QED
    BY <1>1, <1>2, <1>3, <1>4, <2>1, <2>2, <2>3
<1>5. CASE g # 0
  <2>1. g \in 1..Len(proxies)
    BY <1>2, <1>5
  <2>2. proxies[g] \in Proxy /\ proxies \in Seq(Proxy)
    BY <2>1, ElementOfSeq DEF Typed, TypeOK
  <2>3. Append(proxies[g].queue, c) \in Seq(1..Len(cmds))
    <3>1. proxies[g].queue \in Seq(1..Len(cmds))
      BY SMTT(30), <2>2 DEF Proxy
    <3> QED
      BY <1>1, <3>1, AppendProperties
  <2>4. PICK p \in Proxy : p = [proxies[g] EXCEPT !.queue = Append(proxies[g].queue, c)]
    BY ONLY ZenonT(60), <2>2, <2>3 DEF Proxy
  <2>5. /\ p.phone = proxies[g].phone /\ p.started = proxies[g].started /\ p.on = proxies[g].on
        /\ p.run = proxies[g].run /\ p.queue = Append(proxies[g].queue, c)
    BY ZenonT(60), <2>2, <2>4 DEF Proxy
  <2>6. proxies' = [proxies EXCEPT ![g] = p] /\ Handled(t) /\ Reached(t)
    BY Zenon, <1>5, <2>4 DEF Put
  <2>7. proxies' \in Seq(Proxy) /\ Len(proxies)' = Len(proxies)
        /\ \A h \in 1..Len(proxies) : proxies'[h] = IF h = g THEN p ELSE proxies[h]
    BY <2>1, <2>2, <2>6, ExceptSeq
  <2>8. ASSUME NEW h \in 1..Len(proxies)
        PROVE  /\ proxies'[h].phone = proxies[h].phone /\ proxies'[h].started = proxies[h].started
               /\ proxies'[h].on = proxies[h].on /\ proxies'[h].run = proxies[h].run
               /\ proxies'[h].queue = IF h = g THEN Append(proxies[h].queue, c)
                                      ELSE proxies[h].queue
    <3>1. CASE h = g
      BY Zenon, <3>1, <2>5, <2>7
    <3>2. CASE h # g
      BY <3>2, <2>7
    <3> QED
      BY SMTT(30), <3>1, <3>2
  <2> QED
    BY <1>1, <1>2, <1>3, <1>5, <2>6, <2>7, <2>8
<1> QED
  BY <1>4, <1>5

LEMMA PutTyped ==
  ASSUME Typed, NEW t \in Thread, Put(t)
  PROVE  Typed'
<1> USE DEF Typed
<1>1. UNCHANGED <<lists, known, device, timer, cmds, queueIn, session, shared, raced, done>>
      /\ pc[t] = "put" /\ pc[t] \in Sending
  BY DEF Put, From, Sending, masterVars
<1>2. /\ at[t].phone \in Phone /\ at[t].list \in 1..Len(lists) /\ at[t].pos \in Nat \ {0}
  BY <1>1, Here DEF Sending
<1>3. /\ devs' \in Seq(Device) /\ Len(devs)' = Len(devs)
      /\ proxies' \in Seq(Proxy) /\ Len(proxies)' = Len(proxies)
  BY PutQueue
<1>4. \A h \in 1..Len(proxies) : proxies'[h].phone = proxies[h].phone
  BY PutQueue
<1>5. \A g \in DOMAIN proxies' : device'[proxies'[g].phone] # 0
  <2>1. DOMAIN proxies' = DOMAIN proxies /\ DOMAIN proxies = 1..Len(proxies)
    BY <1>3, LenProperties, Lengths
  <2> QED
    BY <1>1, <1>4, <2>1, ProxyPhones
<1>6. Device' = Device /\ Frame' = Frame /\ Proxy' = Proxy /\ Message' = Message
  BY <1>1, <1>3, SameObjects
<1>7. CASE devs[at[t].dev].proxy = 0
  <2>1. Raise(t) /\ walk' = walk
    BY <1>7, PutQueue
  <2>2. Nowhere \in Frame
    BY Lengths DEF Nowhere, Frame
  <2>3. pc' = [pc EXCEPT ![t] = IF t = "phone" THEN "dead" ELSE "idle"]
        /\ at' = [at EXCEPT ![t] = Nowhere]
    BY <2>1 DEF Raise, Goto, Local
  <2>4. TypeOK'
    BY <1>1, <1>3, <1>6, <2>1, <2>2, <2>3 DEF TypeOK, Place
  <2>5. Placed(t)'
    BY <2>3 DEF TypeOK, Placed, Adding, Sending
  <2>6. Places'
    BY <1>1, <1>5, <2>3, <2>4, <2>5, StepPlaces DEF Thread, TypeOK
  <2> QED
    BY <2>4, <2>6
<1>8. CASE devs[at[t].dev].proxy # 0
  <2>1. Handled(t) /\ Reached(t)
    BY <1>8, PutQueue
  <2>2. walk' \in [list : Seq(Phone), ready : BOOLEAN, reached : Seq(Phone)]
    BY <1>2, <2>1, ReachedTyped
  <2>3. TypeOK'
    BY <1>1, <1>3, <1>6, <2>1, <2>2, HandledFrame DEF TypeOK
  <2>4. Placed(t)'
    BY <1>1, <1>2, <2>1, HandledFrame DEF Placed, Adding, Sending
  <2>5. Places'
    BY <1>1, <1>5, <2>1, <2>3, <2>4, HandledFrame, StepPlaces DEF Thread
  <2> QED
    BY <2>3, <2>5
<1> QED
  BY <1>7, <1>8

-----------------------------------------------------------------------------
(* Types are kept: the master thread and the proxies *)

LEMMA FrontMessage ==
  ASSUME Typed, queueIn # <<>>
  PROVE  /\ Head(queueIn) \in Message /\ Tail(queueIn) \in Seq(Message)
         /\ \A i \in DOMAIN Tail(queueIn) :
              i + 1 \in DOMAIN queueIn /\ Tail(queueIn)[i] = queueIn[i + 1]
         /\ 1 \in DOMAIN queueIn /\ Head(queueIn) = queueIn[1]
<1>1. queueIn \in Seq(Message) /\ Len(queueIn) \in Nat \ {0}
  BY EmptySeq DEF Typed, TypeOK
<1>2. Head(queueIn) \in Message /\ Tail(queueIn) \in Seq(Message)
      /\ Len(Tail(queueIn)) = Len(queueIn) - 1
  BY <1>1, HeadTailProperties
<1>3. \A i \in DOMAIN Tail(queueIn) :
        i + 1 \in DOMAIN queueIn /\ Tail(queueIn)[i] = queueIn[i + 1]
  BY <1>1, <1>2
<1> QED
  BY <1>1, <1>2, <1>3

LEMMA ProcessIncomeTyped ==
  ASSUME Typed, ProcessIncome
  PROVE  Typed'
<1> USE DEF Typed
<1> DEFINE m == Head(queueIn)
<1>1. UNCHANGED <<lists, known, device, devs, proxies, cmds, pc, at, session,
                  walk, shared, raced, done>>
      /\ pc["master"] = "idle" /\ queueIn # <<>> /\ m.type # "devices" /\ queueIn' = Tail(queueIn)
      /\ timer' = IF m.type = "reply" THEN timer ELSE [timer EXCEPT ![m.phone] = (m.type = "start")]
  BY DEF ProcessIncome, From, objectVars, history
<1>2. Device' = Device /\ Frame' = Frame /\ Proxy' = Proxy /\ Message' = Message
  BY <1>1, SameObjects
<1>3. TypeOK'
  BY <1>1, <1>2, FrontMessage DEF TypeOK
<1>4. m.type \in {"start"} => device[m.phone] # 0
  BY <1>1, FrontMessage DEF Places
<1>5. \A s \in Phone : timer'[s] => device'[s] # 0
  BY <1>1, <1>4 DEF Places, TypeOK
<1>6. \A u \in Thread : Placed(u)'
  BY <1>1 DEF Places, Placed
<1>7. \A i \in DOMAIN queueIn' : queueIn'[i].type \in {"start", "stop"} => device'[queueIn'[i].phone] # 0
  BY <1>1, FrontMessage DEF Places
<1>8. Places'
  BY <1>1, <1>5, <1>6, <1>7, ProxyPhones DEF Places
<1> QED
  BY <1>3, <1>8

LEMMA ScanDevicesResponseTyped ==
  ASSUME Typed, ScanDevicesResponse
  PROVE  Typed'
<1> USE DEF Typed
<1>1. UNCHANGED <<device, timer, devs, proxies, cmds, queueIn, session, walk, shared, raced, done>>
      /\ queueIn # <<>> /\ Head(queueIn).type = "devices" /\ known' = {}
      /\ lists' = Append(lists, <<>>) /\ pc' = [pc EXCEPT !["master"] = "fill"]
  BY DEF ScanDevicesResponse, objectVars, history, Goto
<1>2. <<>> \in Seq(Phone) /\ lists \in Seq(Seq(Phone))
  BY DEF TypeOK
<1>3. lists' \in Seq(Seq(Phone)) /\ lists' # <<>> /\ Len(lists)' = Len(lists) + 1
  BY <1>1, <1>2, AppendProperties
<1>4. /\ Frame \subseteq Frame' /\ devs \in Seq(Device') /\ proxies \in Seq(Proxy')
      /\ queueIn \in Seq(Message') /\ at \in [Thread -> Frame']
      /\ device \in [Phone -> 0..Len(devs)']
      /\ shared \subseteq 1..Len(cmds)' /\ done \subseteq (1..Len(cmds)') \X {"delete", "just"}
  BY <1>1, <1>3, Lengths, Grows
<1>5. PICK f \in Frame' : f = [Nowhere EXCEPT !.list = Len(lists'), !.pos = 1]
  <2>1. Len(lists') \in 0..Len(lists)' /\ Nowhere \in Frame
    BY <1>3, Lengths DEF Nowhere, Frame
  <2>2. PICK f1 \in Frame' : f1 = [Nowhere EXCEPT !.list = Len(lists')]
    <3>1. Nowhere \in Frame'
      BY <2>1, <1>4
    <3> QED
      BY ONLY <2>1, <3>1 DEF Frame
  <2>3. PICK f2 \in Frame' : f2 = [f1 EXCEPT !.pos = 1]
    BY ONLY f1 \in Frame' DEF Frame
  <2> QED
    BY <2>2, <2>3
<1>6. at' = [at EXCEPT !["master"] = f] /\ f.list = Len(lists') /\ f.pos = 1
  BY <1>5 DEF ScanDevicesResponse, Local, Nowhere
<1>7. TypeOK'
  BY <1>1, <1>3, <1>4, <1>6 DEF TypeOK, Place
<1>8. at'["master"] = f /\ pc'["master"] = "fill" /\ at'["phone"] = at["phone"] /\ pc'["phone"] = pc["phone"]
  BY <1>1, <1>6 DEF TypeOK, Thread
<1>9. Placed("master")'
  BY <1>3, <1>6, <1>8, Lengths DEF Placed, Adding, Sending
<1>10. Placed("phone")'
  <2>1. Placed("phone")
    BY DEF Places, Thread
  <2> QED
    BY <1>1, <1>3, <1>8, <2>1, Lengths DEF Placed
<1>11. Places'
  BY <1>1, <1>8, <1>9, <1>10 DEF Places, Thread
<1> QED
  BY <1>7, <1>11

\* The list that is being filled is the last one.
LEMMA LastList ==
  ASSUME Typed
  PROVE  Last(lists) \in Seq(Phone) /\ Last(lists) = lists[Len(lists)]
BY Lengths, ElementOfSeq DEF Last, Typed, TypeOK

LEMMA ListPhoneTyped ==
  ASSUME Typed, ListPhone
  PROVE  Typed'
<1> USE DEF Typed
<1> DEFINE found == Head(queueIn).list
           n == Len(Last(lists))
<1>1. UNCHANGED <<known, device, timer, devs, proxies, cmds, session, at, walk, shared, raced, done>>
      /\ pc["master"] = "fill"
  BY DEF ListPhone, objectVars, history, From, Stay
<1>2. queueIn # <<>> /\ Head(queueIn).type = "devices"
  BY <1>1 DEF Places
<1>3. found \in Seq(Phone) /\ n \in Nat
  <2>1. Head(queueIn) \in Message
    BY <1>2, FrontMessage
  <2> QED
    BY <1>2, <2>1, LastList, LenProperties DEF Message
<1>4. CASE n < Len(found)
  <2>1. lists' = [lists EXCEPT ![Len(lists)] = Append(Last(lists), found[n + 1])]
        /\ pc' = [pc EXCEPT !["master"] = "map"] /\ queueIn' = queueIn
    BY <1>4, LastList DEF ListPhone, Goto
  <2>2. found[n + 1] \in Phone
    <3>1. n + 1 \in 1..Len(found)
      BY <1>3, <1>4, LenProperties
    <3> QED
      BY <1>3, <3>1, ElementOfSeq
  <2>3. Append(Last(lists), found[n + 1]) \in Seq(Phone) /\ Append(Last(lists), found[n + 1]) # <<>>
    BY <2>2, LastList, AppendProperties
  <2>4. lists' \in Seq(Seq(Phone)) /\ Len(lists') = Len(lists)
        /\ lists'[Len(lists)] = Append(Last(lists), found[n + 1])
    <3>1. lists \in Seq(Seq(Phone)) /\ Len(lists) \in 1..Len(lists)
      BY Lengths DEF TypeOK
    <3> QED
      BY <2>1, <2>3, <3>1, ExceptSeq
  <2>5. lists' # <<>> /\ Last(lists') # <<>>
    BY <2>3, <2>4, Lengths DEF Last
  <2>6. Device' = Device /\ Frame' = Frame /\ Proxy' = Proxy /\ Message' = Message
    BY <1>1, <2>4, SameObjects
  <2>7. TypeOK'
    BY <1>1, <2>1, <2>4, <2>5, <2>6 DEF TypeOK, Place
  <2>8. pc'["master"] = "map" /\ pc'["phone"] = pc["phone"] /\ Len(lists)' = Len(lists)
    BY <2>1, <2>4 DEF TypeOK, Thread
  <2>9. Placed("master")' /\ Placed("phone")'
    BY <1>1, <2>8 DEF Places, Placed, Adding, Sending, Thread
  <2>10. Places'
    BY <1>1, <1>2, <2>1, <2>5, <2>9 DEF Places, Thread
  <2> QED
    BY <2>7, <2>10
<1>5. CASE ~(n < Len(found))
  <2>1. queueIn' = Tail(queueIn) /\ lists' = lists /\ pc' = [pc EXCEPT !["master"] = "next"]
    BY <1>5 DEF ListPhone, Goto
  <2>2. Device' = Device /\ Frame' = Frame /\ Proxy' = Proxy /\ Message' = Message
    BY <1>1, <2>1, SameObjects
  <2>3. TypeOK'
    BY <1>1, <1>2, <2>1, <2>2, FrontMessage DEF TypeOK, Place
  <2>4. pc'["master"] = "next" /\ pc'["phone"] = pc["phone"] /\ Len(lists)' = Len(lists)
    BY <2>1 DEF TypeOK, Thread
  <2>5. Placed("master")' /\ Placed("phone")'
    BY <1>1, <2>4 DEF Places, Placed, Adding, Sending, Thread
  <2>6. \A i \in DOMAIN queueIn' : queueIn'[i].type \in {"start", "stop"} => device'[queueIn'[i].phone] # 0
    BY <1>1, <1>2, <2>1, FrontMessage DEF Places
  <2>7. Places'
    BY <1>1, <2>1, <2>4, <2>5, <2>6 DEF Places, Thread
  <2> QED
    BY <2>3, <2>7
<1> QED
  BY <1>4, <1>5

LEMMA MapPhoneTyped ==
  ASSUME Typed, MapPhone
  PROVE  Typed'
<1> USE DEF Typed
<1>1. UNCHANGED <<lists, device, timer, devs, proxies, cmds, queueIn, session, at,
                  walk, shared, raced, done>>
      /\ pc["master"] = "map" /\ pc' = [pc EXCEPT !["master"] = "fill"]
      /\ known' = known \cup {Last(Last(lists))}
  BY DEF MapPhone, objectVars, history, From, Goto, Stay
<1>2. Last(Last(lists)) \in Phone
  <2>1. Last(lists) \in Seq(Phone) /\ Last(lists) # <<>>
    BY <1>1, LastList DEF Places
  <2>2. Len(Last(lists)) \in 1..Len(Last(lists))
    BY <2>1, EmptySeq
  <2> QED
    BY <2>1, <2>2, ElementOfSeq DEF Last
<1>3. Device' = Device /\ Frame' = Frame /\ Proxy' = Proxy /\ Message' = Message
  BY <1>1, SameObjects
<1>4. TypeOK'
  BY <1>1, <1>2, <1>3 DEF TypeOK, Place
<1>5. pc'["master"] = "fill" /\ pc'["phone"] = pc["phone"] /\ Len(lists)' = Len(lists)
  BY <1>1 DEF TypeOK, Thread
<1>6. Placed("master")' /\ Placed("phone")'
  BY <1>1, <1>5 DEF Places, Placed, Adding, Sending, Thread
<1>7. Places'
  BY <1>1, <1>5, <1>6 DEF Places, Thread
<1> QED
  BY <1>4, <1>7

\* A proxy takes the front command of its queue, and runs none then.
LEMMA TakeQueue ==
  ASSUME Typed, NEW g \in DOMAIN proxies, Take(g)
  PROVE  /\ proxies' \in Seq(Proxy) /\ Len(proxies)' = Len(proxies)
         /\ proxies[g].queue # <<>> /\ proxies[g].started /\ proxies[g].queue \in Seq(1..Len(cmds))
         /\ proxies'[g].run = Head(proxies[g].queue) /\ proxies'[g].queue = Tail(proxies[g].queue)
         /\ \A h \in 1..Len(proxies) :
              /\ proxies'[h].phone = proxies[h].phone /\ proxies'[h].started = proxies[h].started
              /\ proxies'[h].on = proxies[h].on
              /\ h # g => proxies'[h].queue = proxies[h].queue /\ proxies'[h].run = proxies[h].run
<1> DEFINE c == Head(proxies[g].queue)
<1>1. g \in 1..Len(proxies) /\ proxies \in Seq(Proxy) /\ proxies[g] \in Proxy
  BY Lengths, ElementOfSeq DEF Typed, TypeOK
<1>2. proxies[g].queue \in Seq(1..Len(cmds)) /\ proxies[g].queue # <<>> /\ proxies[g].started
  BY <1>1 DEF Take, Proxy
<1>3. c \in 1..Len(cmds) /\ Tail(proxies[g].queue) \in Seq(1..Len(cmds))
  BY <1>2, HeadTailProperties
<1>4. PICK p1 \in Proxy : p1 = [proxies[g] EXCEPT !.queue = Tail(proxies[g].queue)]
  BY ONLY <1>1, <1>3 DEF Proxy
<1>5. c \in 0..Len(cmds)
  BY <1>3
<1>6. PICK p2 \in Proxy : p2 = [p1 EXCEPT !.run = c]
  BY ONLY <1>5, p1 \in Proxy DEF Proxy
<1>7. /\ p2.phone = proxies[g].phone /\ p2.started = proxies[g].started /\ p2.on = proxies[g].on
      /\ p2.queue = Tail(proxies[g].queue) /\ p2.run = c
  BY <1>1, <1>4, <1>6 DEF Proxy
<1>8. proxies' = [proxies EXCEPT ![g] = p2]
  BY <1>1, <1>4, <1>6 DEF Take
<1>9. proxies' \in Seq(Proxy) /\ Len(proxies)' = Len(proxies)
      /\ \A h \in 1..Len(proxies) : proxies'[h] = IF h = g THEN p2 ELSE proxies[h]
  BY <1>1, <1>8, ExceptSeq
<1> QED
  BY <1>1, <1>2, <1>7, <1>9

LEMMA TakeTyped ==
  ASSUME Typed, NEW g \in DOMAIN proxies, Take(g)
  PROVE  Typed'
<1> USE DEF Typed
<1> DEFINE m == [type |-> "start", phone |-> proxies[g].phone]
<1>1. UNCHANGED <<lists, known, device, timer, devs, cmds, pc, at, session, walk, shared, raced, done>>
      /\ (queueIn' = queueIn \/ queueIn' = Append(queueIn, m))
  BY DEF Take, masterVars, history
<1>2. proxies' \in Seq(Proxy) /\ Len(proxies)' = Len(proxies)
  BY TakeQueue
<1>3. \A h \in DOMAIN proxies' : device'[proxies'[h].phone] # 0
  <2>1. DOMAIN proxies' = DOMAIN proxies /\ DOMAIN proxies = 1..Len(proxies)
    BY <1>2, LenProperties, Lengths
  <2> QED
    BY <1>1, <2>1, TakeQueue, ProxyPhones
<1>4. Device' = Device /\ Frame' = Frame /\ Proxy' = Proxy /\ Message' = Message
  BY <1>1, <1>2, SameObjects
<1>5. m \in Message /\ device[m.phone] # 0
  BY ProxyPhones DEF Message
<1>6. queueIn \in Seq(Message) /\ queueIn' \in Seq(Message)
  <2>1. queueIn \in Seq(Message)
    BY DEF TypeOK
  <2>2. Append(queueIn, m) \in Seq(Message)
    BY <1>5, <2>1, AppendProperties
  <2> HIDE DEF m
  <2> QED
    BY <1>1, <2>1, <2>2
<1>7. TypeOK'
  BY <1>1, <1>2, <1>4, <1>6 DEF TypeOK
<1>8. /\ queueIn # <<>> => queueIn' # <<>> /\ Head(queueIn') = Head(queueIn)
      /\ \A i \in DOMAIN queueIn' : \/ i \in DOMAIN queueIn /\ queueIn'[i] = queueIn[i]
                                    \/ queueIn'[i] = m
  BY <1>1, <1>5, <1>6, AppendLast
<1>9. \A i \in DOMAIN queueIn' : queueIn'[i].type \in {"start", "stop"} => device'[queueIn'[i].phone] # 0
  BY <1>1, <1>5, <1>8 DEF Places
<1>10. \A u \in Thread : Placed(u)'
  BY <1>1 DEF Places, Placed
<1>11. Places'
  BY <1>1, <1>3, <1>8, <1>9, <1>10 DEF Places
<1> QED
  BY <1>7, <1>11

LEMMA ScanTyped ==
  ASSUME Typed, Scan
  PROVE  Typed'
<1> USE DEF Typed
<1> DEFINE m == [type |-> "devices", list |-> Head(session.found)]
<1>1. UNCHANGED <<lists, known, device, timer, devs, proxies, cmds, pc, at, walk, shared, raced, done>>
      /\ queueIn' = Append(queueIn, m) /\ TakeNext("found")
  BY DEF Scan, masterVars, objectVars, history
<1>2. session.found \in Seq(Seq(Phone)) /\ session.found # <<>>
      /\ session' = [session EXCEPT !.found = Tail(session.found)]
  BY <1>1 DEF TakeNext, TypeOK
<1>3. Head(session.found) \in Seq(Phone) /\ Tail(session.found) \in Seq(Seq(Phone))
  BY <1>2, HeadTailProperties
<1>4. session' \in [found : Seq(Seq(Phone)), walks : Seq({"install", "info", "update"}),
                    infos : Nat, timeouts : Nat]
  BY <1>2, <1>3 DEF TypeOK
<1>5. Device' = Device /\ Frame' = Frame /\ Proxy' = Proxy /\ Message' = Message
  BY <1>1, SameObjects
<1>6. m \in Message /\ m.type = "devices"
  BY <1>3 DEF Message
<1>7. queueIn \in Seq(Message) /\ queueIn' \in Seq(Message)
  BY <1>1, <1>6, AppendProperties DEF TypeOK
<1>8. TypeOK'
  BY <1>1, <1>4, <1>5, <1>7 DEF TypeOK
<1>9. Placed("master")'
  BY <1>1 DEF Places, Placed, Thread
<1>10. Places'
  BY <1>1, <1>5, <1>6, <1>8, <1>9, ProxyPhones, StepPlaces DEF Thread
<1> QED
  BY <1>8, <1>10

\* Run answers with the number and the first operation the command has now.
LEMMA RunTyped ==
  ASSUME Typed, OpsKnown, NEW g \in DOMAIN proxies, Run(g)
  PROVE  Typed'
<1> USE DEF Typed
<1> DEFINE c == proxies[g].run
           s == proxies[g].phone
           m1 == [type |-> "reply", phone |-> s, proxy |-> g, cmd |-> c, sub |-> cmds[c].sub]
           m2 == [type |-> "stop", phone |-> s]
<1>1. UNCHANGED <<lists, known, device, timer, devs, cmds, pc, at, session, walk, shared, raced>>
      /\ c # 0
  BY DEF Run, masterVars
<1>2. g \in 1..Len(proxies) /\ proxies \in Seq(Proxy) /\ proxies[g] \in Proxy /\ Len(proxies) \in Nat
  BY Lengths, ElementOfSeq DEF TypeOK
<1>3. c \in 1..Len(cmds) /\ cmds[c] \in Command
  <2>1. c \in 0..Len(cmds) /\ Len(cmds) \in Nat
    BY <1>2, Lengths DEF Proxy
  <2>2. c \in 1..Len(cmds)
    BY <1>1, <2>1
  <2> QED
    BY <2>2, ElementOfSeq DEF TypeOK
<1>4. 0 \in 0..Len(cmds)
  BY Lengths
<1>5. PICK p \in Proxy : p = [proxies[g] EXCEPT !.run = 0]
  BY ONLY <1>2, <1>4 DEF Proxy
<1>6. proxies' = [proxies EXCEPT ![g] = p] /\ p.phone = s
  BY <1>2, <1>5 DEF Run, Proxy
<1>7. proxies' \in Seq(Proxy) /\ Len(proxies)' = Len(proxies)
      /\ \A h \in 1..Len(proxies) : proxies'[h] = IF h = g THEN p ELSE proxies[h]
  BY <1>2, <1>6, ExceptSeq
<1>8. \A h \in DOMAIN proxies' : device'[proxies'[h].phone] # 0
  <2>1. DOMAIN proxies' = DOMAIN proxies /\ DOMAIN proxies = 1..Len(proxies)
    BY <1>7, LenProperties, Lengths
  <2> QED
    BY <1>1, <1>6, <1>7, <2>1, ProxyPhones
<1>9. Device' = Device /\ Frame' = Frame /\ Proxy' = Proxy /\ Message' = Message
  BY <1>1, <1>7, SameObjects
<1>10. m1 \in Message /\ m2 \in Message /\ m1.type = "reply" /\ device[m2.phone] # 0
  BY <1>2, <1>3, ProxyPhones DEF Message, Command
<1>11. CASE cmds[c].kind # "install"
  <2>1. UNCHANGED <<queueIn, done>>
    BY <1>11 DEF Run
  <2>2. TypeOK'
    BY <1>1, <1>7, <1>9, <2>1 DEF TypeOK
  <2>3. \A u \in Thread : Placed(u)'
    BY <1>1 DEF Places, Placed
  <2>4. Places'
    BY <1>1, <1>8, <2>1, <2>3 DEF Places
  <2> QED
    BY <2>2, <2>4
<1>12. CASE cmds[c].kind = "install"
  <2>1. queueIn' = queueIn \o <<m1, m2>> /\ done' = done \cup {<<c, Head(cmds[c].ops)>>}
    BY <1>12 DEF Run
  <2>2. Head(cmds[c].ops) \in {"delete", "just"}
    <3>1. cmds[c].ops \in Seq({"delete", "just"}) /\ cmds[c].ops # <<>>
      BY <1>1, <1>3, <1>12 DEF OpsKnown, HasOp, Command
    <3> QED
      BY <3>1, HeadTailProperties
  <2>3. queueIn \in Seq(Message) /\ <<m1, m2>> \in Seq(Message)
    BY <1>10 DEF TypeOK
  <2>4. queueIn' = Append(Append(queueIn, m1), m2)
    BY <2>1, <2>3
  <2>5. Append(queueIn, m1) \in Seq(Message) /\ queueIn' \in Seq(Message)
    BY <1>10, <2>3, <2>4, AppendProperties
  <2>6. TypeOK'
    <3>1. done' \subseteq (1..Len(cmds)) \X {"delete", "just"}
      <4>1. done \subseteq (1..Len(cmds)) \X {"delete", "just"}
        BY DEF TypeOK
      <4>2. <<c, Head(cmds[c].ops)>> \in (1..Len(cmds)) \X {"delete", "just"}
        BY <1>3, <2>2
      <4> QED
        BY ONLY <2>1, <4>1, <4>2
    <3> HIDE DEF c, m1, m2
    <3> QED
      BY <1>1, <1>7, <1>9, <2>5, <3>1 DEF TypeOK
  <2>7. /\ queueIn # <<>> => queueIn' # <<>> /\ Head(queueIn') = Head(queueIn)
        /\ \A i \in DOMAIN queueIn' : \/ i \in DOMAIN queueIn /\ queueIn'[i] = queueIn[i]
                                      \/ queueIn'[i] = m1 \/ queueIn'[i] = m2
    <3> DEFINE q == Append(queueIn, m1)
    <3>1. /\ queueIn # <<>> => Head(q) = Head(queueIn)
          /\ q # <<>>
          /\ \A i \in DOMAIN q : \/ i \in DOMAIN queueIn /\ q[i] = queueIn[i]
                                 \/ q[i] = m1
      BY <1>10, <2>3, AppendLast
    <3>2. /\ Head(queueIn') = Head(q) /\ queueIn' # <<>>
          /\ \A i \in DOMAIN queueIn' : \/ i \in DOMAIN q /\ queueIn'[i] = q[i]
                                        \/ queueIn'[i] = m2
      BY <1>10, <2>4, <2>5, <3>1, AppendLast
    <3> HIDE DEF q, m1, m2
    <3> QED
      BY <3>1, <3>2
  <2>8. \A i \in DOMAIN queueIn' : queueIn'[i].type \in {"start", "stop"} => device'[queueIn'[i].phone] # 0
    BY <1>1, <1>10, <2>7 DEF Places
  <2>9. \A u \in Thread : Placed(u)'
    BY <1>1 DEF Places, Placed
  <2>10. Places'
    BY <1>1, <1>8, <2>7, <2>8, <2>9 DEF Places
  <2> QED
    BY <2>6, <2>10
<1> QED
  BY <1>11, <1>12

-----------------------------------------------------------------------------
(* The first operation of a command is final *)

\* A step changes the operations of a command only behind the first one, and
\* puts only what was known before.
LEMMA OpsStep ==
  ASSUME Typed, OpsKnown, Typed',
         \A c \in 1..Len(cmds) :
           /\ cmds'[c].kind = cmds[c].kind
           /\ cmds[c].ops # <<>> => cmds'[c].ops # <<>> /\ Head(cmds'[c].ops) = Head(cmds[c].ops),
         done' = done \/ \E c \in 1..Len(cmds) : /\ done' = done \cup {<<c, Head(cmds[c].ops)>>}
                                                 /\ cmds[c].ops # <<>>,
         \A t \in Thread : pc'[t] \in {"gen2", "gen2w", "put"} =>
           at'[t].cmd \in 1..Len(cmds) /\ (HasOp(at'[t].cmd) \/ cmds'[at'[t].cmd].ops # <<>>),
         \A g \in DOMAIN proxies' :
           /\ \A i \in DOMAIN proxies'[g].queue :
                proxies'[g].queue[i] \in 1..Len(cmds) /\ HasOp(proxies'[g].queue[i])
           /\ proxies'[g].run # 0 => proxies'[g].run \in 1..Len(cmds) /\ HasOp(proxies'[g].run)
  PROVE  OpsKnown'
<1>1. \A c \in 1..Len(cmds) : HasOp(c) => /\ cmds'[c].kind = "install" => cmds'[c].ops # <<>>
  BY DEF HasOp
<1>2. \A x \in done' : x[1] \in 1..Len(cmds) /\ cmds[x[1]].ops # <<>> /\ x[2] = Head(cmds[x[1]].ops)
  <2>1. \A x \in done : x[1] \in 1..Len(cmds)
    BY DEF Typed, TypeOK
  <2> QED
    BY <2>1 DEF OpsKnown
<1>3. \A x \in done' : cmds'[x[1]].ops # <<>> /\ x[2] = Head(cmds'[x[1]].ops)
  BY <1>2
<1>4. \A t \in Thread : pc'[t] \in {"gen2", "gen2w", "put"} =>
        (cmds'[at'[t].cmd].kind = "install" => cmds'[at'[t].cmd].ops # <<>>)
  BY <1>1 DEF HasOp
<1>5. \A g \in DOMAIN proxies' :
        /\ \A i \in DOMAIN proxies'[g].queue :
             cmds'[proxies'[g].queue[i]].kind = "install" => cmds'[proxies'[g].queue[i]].ops # <<>>
        /\ proxies'[g].run # 0 =>
             (cmds'[proxies'[g].run].kind = "install" => cmds'[proxies'[g].run].ops # <<>>)
  BY <1>1
<1> QED
  BY <1>3, <1>4, <1>5 DEF OpsKnown, HasOp

\* What OpsKnown says of the queues, with the range of what they hold.
LEMMA OpsQueued ==
  ASSUME Typed, OpsKnown
  PROVE  \A g \in DOMAIN proxies :
           /\ \A i \in DOMAIN proxies[g].queue :
                proxies[g].queue[i] \in 1..Len(cmds) /\ HasOp(proxies[g].queue[i])
           /\ proxies[g].run # 0 => proxies[g].run \in 1..Len(cmds) /\ HasOp(proxies[g].run)
<1> TAKE g \in DOMAIN proxies
<1>1. proxies[g] \in Proxy /\ Len(cmds) \in Nat
  BY Lengths, ElementOfSeq DEF Typed, TypeOK
<1>2. proxies[g].queue \in Seq(1..Len(cmds)) /\ proxies[g].run \in 0..Len(cmds)
  BY <1>1 DEF Proxy
<1>3. \A i \in DOMAIN proxies[g].queue : proxies[g].queue[i] \in 1..Len(cmds)
  BY <1>2
<1>4. proxies[g].run # 0 => proxies[g].run \in 1..Len(cmds)
  BY <1>1, <1>2
<1> QED
  BY <1>3, <1>4 DEF OpsKnown

LEMMA OpsSent ==
  ASSUME Typed, OpsKnown
  PROVE  \A t \in Thread : pc[t] \in {"gen2", "gen2w", "put"} =>
           at[t].cmd \in 1..Len(cmds) /\ HasOp(at[t].cmd)
BY Here DEF Sending, OpsKnown

\* Steps that leave the commands and the proxies alone.
LEMMA OpsMoves ==
  ASSUME Typed, OpsKnown, Typed', UNCHANGED <<cmds, proxies, done>>,
         \A t \in Thread : pc'[t] \in {"gen2", "gen2w", "put"} =>
           \/ pc[t] \in {"gen2", "gen2w", "put"} /\ at'[t].cmd = at[t].cmd
           \/ at'[t].cmd \in 1..Len(cmds) /\ HasOp(at'[t].cmd)
  PROVE  OpsKnown'
<1>1. \A t \in Thread : pc'[t] \in {"gen2", "gen2w", "put"} =>
        at'[t].cmd \in 1..Len(cmds) /\ HasOp(at'[t].cmd)
  BY OpsSent
<1> QED
  BY <1>1, OpsQueued, OpsStep

\* A thread that is not sending after its step.
LEMMA OpsElsewhere ==
  ASSUME Typed, OpsKnown, Typed', UNCHANGED <<cmds, proxies, done>>, NEW t \in Thread,
         pc'[t] \notin {"gen2", "gen2w", "put"},
         \A u \in Thread \ {t} : pc'[u] = pc[u] /\ at'[u] = at[u]
  PROVE  OpsKnown'
BY OpsMoves

LEMMA ThreadMovesOps ==
  ASSUME Typed, OpsKnown, Typed', NEW t \in Thread,
         \/ NextPhone(t) \/ Add(t) \/ AddNew(t) \/ MaybeCreate(t) \/ Added(t) \/ Gen1(t) \/ Gen2(t)
  PROVE  OpsKnown'
<1>1. UNCHANGED <<cmds, proxies, done>>
  BY DEF NextPhone, Add, AddNew, MaybeCreate, Added, Gen1, Gen2, objectVars, history
<1>2. \A u \in Thread \ {t} : pc'[u] = pc[u] /\ at'[u] = at[u]
  BY DEF NextPhone, Add, AddNew, MaybeCreate, Added, Gen1, Gen2, Goto, Local, Stay, Raise, Handled,
         ReadNumber, Typed, TypeOK
<1>3. CASE NextPhone(t) \/ Add(t) \/ AddNew(t) \/ MaybeCreate(t) \/ Gen1(t)
  <2>1. pc'[t] \notin {"gen2", "gen2w", "put"}
    BY ZenonT(60), <1>3 DEF NextPhone, Add, AddNew, MaybeCreate, Gen1, Goto, Raise, Typed, TypeOK
  <2> QED
    BY <1>1, <1>2, <2>1, OpsElsewhere
<1>4. CASE Added(t)
  <2>1. CASE at[t].cmd = 0 \/ cmds[at[t].cmd].kind = "install"
    <3>1. pc'[t] \notin {"gen2", "gen2w", "put"}
      BY <1>4, <2>1 DEF Added, Handled, Goto, Typed, TypeOK
    <3> QED
      BY <1>1, <1>2, <3>1, OpsElsewhere
  <2>2. CASE at[t].cmd # 0 /\ cmds[at[t].cmd].kind # "install"
    <3>1. at'[t].cmd = at[t].cmd
      BY <1>4, <2>2, AddedLocal
    <3>2. at[t].cmd \in 1..Len(cmds)
      BY <2>2, FrameFields, Lengths DEF Typed
    <3>3. HasOp(at'[t].cmd)
      BY <2>2, <3>1 DEF HasOp
    <3> QED
      BY <1>1, <1>2, <3>1, <3>2, <3>3, OpsMoves
  <2> QED
    BY <2>1, <2>2
<1>5. CASE Gen2(t)
  <2>1. CASE devs[at[t].dev].proxy = 0
    <3>1. pc'[t] \notin {"gen2", "gen2w", "put"}
      BY <1>5, <2>1 DEF Gen2, Handled, Goto, Typed, TypeOK
    <3> QED
      BY <1>1, <1>2, <3>1, OpsElsewhere
  <2>2. CASE devs[at[t].dev].proxy # 0
    <3>1. pc[t] = "gen2" /\ at'[t].cmd = at[t].cmd
      BY <1>5, <2>2, ReadNumberTyped DEF Gen2, From, Sending
    <3> QED
      BY <1>1, <1>2, <3>1, OpsMoves
  <2> QED
    BY <2>1, <2>2
<1> QED
  BY <1>3, <1>4, <1>5

LEMMA MasterMovesOps ==
  ASSUME Typed, OpsKnown, Typed',
         ProcessIncome \/ ScanDevicesResponse \/ ListPhone \/ MapPhone \/ Scan
  PROVE  OpsKnown'
<1>1. UNCHANGED <<cmds, proxies, done>>
  BY DEF ProcessIncome, ScanDevicesResponse, ListPhone, MapPhone, Scan, objectVars, history
<1>2. pc'["phone"] = pc["phone"] /\ at'["phone"] = at["phone"]
  BY DEF ProcessIncome, ScanDevicesResponse, ListPhone, MapPhone, Scan, Goto, Local, Stay,
         Typed, TypeOK, Thread
<1>3. pc'["master"] \notin {"gen2", "gen2w", "put"} \/ (pc' = pc /\ at' = at)
  BY DEF ProcessIncome, ScanDevicesResponse, ListPhone, MapPhone, Scan, Goto, Typed, TypeOK, Thread
<1> QED
  BY <1>1, <1>2, <1>3, OpsMoves DEF Thread

LEMMA AllProxies == Typed => \A g \in DOMAIN proxies : proxies[g] \in Proxy /\ g \in 1..Len(proxies)
<1> SUFFICES ASSUME Typed, NEW g \in DOMAIN proxies
             PROVE  proxies[g] \in Proxy /\ g \in 1..Len(proxies)
  OBVIOUS
<1> QED
  BY Lengths, ElementOfSeq DEF Typed, TypeOK

LEMMA BeginWalkCommand ==
  ASSUME TypeOK, BeginWalk
  PROVE  UNCHANGED cmds \/ \E c \in Command : cmds' = Append(cmds, c)
<1>1. CASE UNCHANGED cmds
  BY <1>1
<1>2. CASE ~UNCHANGED cmds
  <2>1. Head(session.walks) \in {"install", "info"}
    BY <1>2, HeadTailProperties DEF BeginWalk, TakeNext, TypeOK
  <2> DEFINE c == [kind |-> Head(session.walks), sub |-> 0, ops |-> <<>>]
  <2>2. cmds' = Append(cmds, c) /\ c \in Command
    BY <2>1, <1>2 DEF BeginWalk, Command
  <2> QED
    BY <2>2
<1> QED
  BY <1>1, <1>2

\* A new command changes no other one.
LEMMA NewCommandOps ==
  ASSUME Typed, OpsKnown, Typed', BeginWalk \/ Ask
  PROVE  OpsKnown'
<1>1. UNCHANGED <<proxies, done>>
  BY DEF BeginWalk, Ask, masterVars, history
<1>2. \A t \in Thread : pc'[t] \in {"gen2", "gen2w", "put"} =>
        pc[t] \in {"gen2", "gen2w", "put"} /\ at'[t] = at[t]
  BY DEF BeginWalk, Ask, Goto, Local, Stay, Typed, TypeOK
<1>3. UNCHANGED cmds \/ \E c \in Command : cmds' = Append(cmds, c)
  <2>1. CASE BeginWalk
    BY <2>1, BeginWalkCommand DEF Typed
  <2>2. CASE Ask
    <3>1. [kind |-> "info", sub |-> 0, ops |-> <<>>] \in Command
      BY DEF Command
    <3> QED
      BY <2>2, <3>1 DEF Ask
  <2> QED
    BY <2>1, <2>2
<1>4. \A c \in 1..Len(cmds) : cmds'[c] = cmds[c]
  <2>1. cmds \in Seq(Command)
    BY DEF Typed, TypeOK
  <2>2. CASE UNCHANGED cmds
    BY <2>2
  <2>3. ASSUME NEW c \in Command, cmds' = Append(cmds, c) PROVE \A x \in 1..Len(cmds) : cmds'[x] = cmds[x]
    BY <2>1, <2>3, AppendProperties
  <2> QED
    BY <1>3, <2>2, <2>3
<1>5. \A t \in Thread : pc'[t] \in {"gen2", "gen2w", "put"} =>
        at'[t].cmd \in 1..Len(cmds) /\ HasOp(at'[t].cmd)
  BY <1>2, OpsSent
<1> QED
  BY <1>1, <1>4, <1>5, OpsQueued, OpsStep

\* What a step makes of the proxies: each had its commands before.
LEMMA ProxyStepOps ==
  ASSUME Typed, OpsKnown, Typed', UNCHANGED <<cmds, done>>,
         \A t \in Thread : pc'[t] \in {"gen2", "gen2w", "put"} =>
           pc[t] \in {"gen2", "gen2w", "put"} /\ at'[t] = at[t],
         \A g \in DOMAIN proxies' :
           \/ g \in DOMAIN proxies /\ proxies'[g].queue = proxies[g].queue
                                   /\ proxies'[g].run = proxies[g].run
           \/ proxies'[g].queue = <<>> /\ proxies'[g].run = 0
  PROVE  OpsKnown'
<1>1. \A t \in Thread : pc'[t] \in {"gen2", "gen2w", "put"} =>
        at'[t].cmd \in 1..Len(cmds) /\ HasOp(at'[t].cmd)
  BY OpsSent
<1>2. \A g \in DOMAIN proxies' :
        /\ \A i \in DOMAIN proxies'[g].queue :
             proxies'[g].queue[i] \in 1..Len(cmds) /\ HasOp(proxies'[g].queue[i])
        /\ proxies'[g].run # 0 => proxies'[g].run \in 1..Len(cmds) /\ HasOp(proxies'[g].run)
  BY OpsQueued
<1> QED
  BY <1>1, <1>2, OpsStep

LEMMA CheckTimeoutOps ==
  ASSUME Typed, OpsKnown, Typed', NEW t \in Thread, NEW s \in Phone, CheckTimeout(t, s)
  PROVE  OpsKnown'
<1> DEFINE g == devs[device[s]].proxy
<1>1. UNCHANGED <<cmds, done, pc, at>>
  BY DEF CheckTimeout
<1>2. CASE g = 0
  BY <1>1, <1>2, OpsMoves DEF CheckTimeout
<1>3. CASE g # 0
  <2>1. proxies' = [proxies EXCEPT ![g].on = FALSE]
    BY <1>3 DEF CheckTimeout
  <2>2. ASSUME NEW h \in DOMAIN proxies'
        PROVE  /\ h \in DOMAIN proxies
               /\ proxies'[h].queue = proxies[h].queue /\ proxies'[h].run = proxies[h].run
    <3>1. h \in DOMAIN proxies /\ proxies[h] \in Proxy
      BY <2>1, AllProxies
    <3> QED
      BY <2>1, <3>1 DEF Proxy
  <2> QED
    BY <1>1, <2>2, ProxyStepOps
<1> QED
  BY <1>2, <1>3

LEMMA StartOps ==
  ASSUME Typed, OpsKnown, Typed', NEW t \in Thread, Start(t)
  PROVE  OpsKnown'
<1> DEFINE g == devs[at[t].dev].proxy
<1>1. UNCHANGED <<cmds, done>>
  BY DEF Start, history
<1>2. \A u \in Thread : pc'[u] \in {"gen2", "gen2w", "put"} =>
        pc[u] \in {"gen2", "gen2w", "put"} /\ at'[u] = at[u]
  BY SMTT(30) DEF Start, Goto, Local, Stay, Raise, Typed, TypeOK
<1>3. CASE UNCHANGED proxies
  BY <1>1, <1>2, <1>3, OpsMoves
<1>4. CASE proxies' = [proxies EXCEPT ![g].started = TRUE]
  <2>1. ASSUME NEW h \in DOMAIN proxies'
        PROVE  /\ h \in DOMAIN proxies
               /\ proxies'[h].queue = proxies[h].queue /\ proxies'[h].run = proxies[h].run
    <3>1. h \in DOMAIN proxies /\ proxies[h] \in Proxy
      BY <1>4, AllProxies
    <3> QED
      BY <1>4, <3>1 DEF Proxy
  <2> QED
    BY <1>1, <1>2, <2>1, ProxyStepOps
<1> QED
  BY <1>3, <1>4 DEF Start

LEMMA CreateOps ==
  ASSUME Typed, OpsKnown, Typed', NEW t \in Thread, Create(t)
  PROVE  OpsKnown'
<1> DEFINE p == [phone |-> at[t].phone, started |-> FALSE, on |-> TRUE, queue |-> <<>>, run |-> 0]
<1>1. UNCHANGED <<cmds, done, at>> /\ proxies' = Append(proxies, p)
  BY DEF Create, history, Stay
<1>2. \A u \in Thread : pc'[u] \in {"gen2", "gen2w", "put"} => pc[u] \in {"gen2", "gen2w", "put"}
  BY DEF Create, Goto, Typed, TypeOK
<1>3. p \in Proxy /\ proxies \in Seq(Proxy)
  BY Here, Lengths DEF Create, From, Adding, Proxy, Typed, TypeOK
<1>4. \A g \in DOMAIN proxies' : \/ g \in DOMAIN proxies /\ proxies'[g] = proxies[g]
                                 \/ proxies'[g] = p
  BY <1>1, <1>3, AppendLast
<1>5. p.queue = <<>> /\ p.run = 0
  OBVIOUS
<1> HIDE DEF p
<1> QED
  BY <1>1, <1>2, <1>4, <1>5, ProxyStepOps

LEMMA PutOps ==
  ASSUME Typed, OpsKnown, Typed', NEW t \in Thread, Put(t)
  PROVE  OpsKnown'
<1> DEFINE c == at[t].cmd
           g == devs[at[t].dev].proxy
<1>1. UNCHANGED <<cmds, done>> /\ pc[t] = "put"
  BY DEF Put, From
<1>2. \A u \in Thread : pc'[u] \in {"gen2", "gen2w", "put"} =>
        pc[u] \in {"gen2", "gen2w", "put"} /\ at'[u] = at[u]
  BY ZenonT(60) DEF Put, Goto, Local, Raise, Handled, Typed, TypeOK
<1>3. c \in 1..Len(cmds) /\ HasOp(c)
  BY <1>1, OpsSent
<1>4. \A h \in 1..Len(proxies) :
        /\ proxies'[h].run = proxies[h].run
        /\ proxies'[h].queue = IF h = g THEN Append(proxies[h].queue, c) ELSE proxies[h].queue
  BY PutQueue
<1>5. DOMAIN proxies' = DOMAIN proxies /\ DOMAIN proxies = 1..Len(proxies)
  BY PutQueue, LenProperties, Lengths DEF Typed
<1>6. ASSUME NEW h \in DOMAIN proxies', NEW i \in DOMAIN proxies'[h].queue
      PROVE  proxies'[h].queue[i] \in 1..Len(cmds) /\ HasOp(proxies'[h].queue[i])
  <2>1. proxies[h].queue \in Seq(1..Len(cmds))
    <3>1. proxies[h] \in Proxy
      BY <1>5, ElementOfSeq DEF Typed, TypeOK
    <3> QED
      BY <3>1 DEF Proxy
  <2>2. \/ i \in DOMAIN proxies[h].queue /\ proxies'[h].queue[i] = proxies[h].queue[i]
        \/ proxies'[h].queue[i] = c
    <3>1. CASE h # g
      BY <1>4, <1>5, <1>6, <3>1
    <3>2. CASE h = g
      <4>1. proxies'[h].queue = Append(proxies[h].queue, c)
        BY <1>4, <1>5, <3>2
      <4>2. i \in DOMAIN Append(proxies[h].queue, c)
        BY <1>6, <4>1
      <4> HIDE DEF c
      <4> QED
        BY <1>3, <2>1, <4>1, <4>2, AppendLast
    <3> QED
      BY <3>1, <3>2
  <2> QED
    BY <1>3, <1>5, <2>2, OpsQueued
<1>7. \A h \in DOMAIN proxies' : proxies'[h].run # 0 =>
        proxies'[h].run \in 1..Len(cmds) /\ HasOp(proxies'[h].run)
  BY <1>4, <1>5, OpsQueued
<1>8. \A u \in Thread : pc'[u] \in {"gen2", "gen2w", "put"} =>
        at'[u].cmd \in 1..Len(cmds) /\ HasOp(at'[u].cmd)
  BY <1>2, OpsSent
<1> QED
  BY SMTT(30), <1>1, <1>6, <1>7, <1>8, OpsStep

LEMMA TakeOps ==
  ASSUME Typed, OpsKnown, Typed', NEW g \in DOMAIN proxies, Take(g)
  PROVE  OpsKnown'
<1>1. UNCHANGED <<cmds, done, pc, at>>
  BY DEF Take, history
<1>2. DOMAIN proxies' = DOMAIN proxies /\ DOMAIN proxies = 1..Len(proxies)
  BY TakeQueue, LenProperties, Lengths DEF Typed
<1>3. ASSUME NEW h \in DOMAIN proxies'
      PROVE  /\ \A i \in DOMAIN proxies'[h].queue :
                  proxies'[h].queue[i] \in 1..Len(cmds) /\ HasOp(proxies'[h].queue[i])
             /\ proxies'[h].run # 0 => proxies'[h].run \in 1..Len(cmds) /\ HasOp(proxies'[h].run)
  <2>1. CASE h # g
    BY <1>2, <2>1, TakeQueue, OpsQueued
  <2>2. CASE h = g
    <3> DEFINE q == proxies[g].queue
    <3>1. q # <<>> /\ q \in Seq(1..Len(cmds)) /\ proxies'[h].run = Head(q) /\ proxies'[h].queue = Tail(q)
      BY <2>2, TakeQueue
    <3>2. /\ Head(q) = q[1] /\ 1 \in DOMAIN q
          /\ \A i \in DOMAIN Tail(q) : i + 1 \in DOMAIN q /\ Tail(q)[i] = q[i + 1]
      <4> HIDE DEF q
      <4>1. Len(q) \in Nat \ {0}
        BY <3>1, EmptySeq
      <4> QED
        BY <3>1, <4>1
    <3>3. \A i \in DOMAIN q : q[i] \in 1..Len(cmds) /\ HasOp(q[i])
      BY OpsQueued
    <3> HIDE DEF q
    <3> QED
      BY <3>1, <3>2, <3>3
  <2> QED
    BY <2>1, <2>2
<1>4. \A u \in Thread : pc'[u] \in {"gen2", "gen2w", "put"} =>
        at'[u].cmd \in 1..Len(cmds) /\ HasOp(at'[u].cmd)
  BY <1>1, OpsSent
<1> QED
  BY <1>1, <1>3, <1>4, OpsStep

LEMMA RunOps ==
  ASSUME Typed, OpsKnown, Typed', NEW g \in DOMAIN proxies, Run(g)
  PROVE  OpsKnown'
<1> DEFINE c == proxies[g].run
<1>1. UNCHANGED <<cmds, pc, at>> /\ c # 0 /\ proxies' = [proxies EXCEPT ![g].run = 0]
  BY DEF Run
<1>2. c \in 1..Len(cmds) /\ HasOp(c)
  BY <1>1, OpsQueued
<1>3. done' = done \/ \E x \in 1..Len(cmds) : /\ done' = done \cup {<<x, Head(cmds[x].ops)>>}
                                              /\ cmds[x].ops # <<>>
  BY <1>2 DEF Run, HasOp
<1>4. ASSUME NEW h \in DOMAIN proxies'
      PROVE  /\ h \in DOMAIN proxies /\ proxies'[h].queue = proxies[h].queue
             /\ proxies'[h].run = IF h = g THEN 0 ELSE proxies[h].run
  <2>1. h \in DOMAIN proxies /\ proxies[h] \in Proxy
    BY <1>1, AllProxies
  <2> QED
    BY <1>1, <2>1 DEF Proxy
<1>5. \A h \in DOMAIN proxies' :
        /\ \A i \in DOMAIN proxies'[h].queue :
             proxies'[h].queue[i] \in 1..Len(cmds) /\ HasOp(proxies'[h].queue[i])
        /\ proxies'[h].run # 0 => proxies'[h].run \in 1..Len(cmds) /\ HasOp(proxies'[h].run)
  BY <1>4, OpsQueued
<1>6. \A u \in Thread : pc'[u] \in {"gen2", "gen2w", "put"} =>
        at'[u].cmd \in 1..Len(cmds) /\ HasOp(at'[u].cmd)
  BY <1>1, OpsSent
<1> QED
  BY <1>1, <1>3, <1>5, <1>6, OpsStep

LEMMA InstallOpOps ==
  ASSUME Typed, OpsKnown, Typed', NEW t \in Thread, InstallOp(t)
  PROVE  OpsKnown'
<1> DEFINE c == at[t].cmd
<1>1. UNCHANGED <<proxies, done>> /\ pc[t] = "gen1w"
  BY DEF InstallOp, From
<1>2. /\ c \in 1..Len(cmds) /\ \A x \in 1..Len(cmds) : cmds'[x].kind = cmds[x].kind
      /\ \A x \in 1..Len(cmds) : x # c => cmds'[x] = cmds[x]
  BY InstallOpCommand
<1>3. PICK op \in {"delete", "just"} : cmds'[c].ops = Append(cmds[c].ops, op)
  BY InstallOpCommand
<1>4. cmds[c].ops \in Seq({"delete", "just"})
  <2>1. cmds[c] \in Command
    BY <1>2, ElementOfSeq DEF Typed, TypeOK
  <2> QED
    BY <2>1 DEF Command
<1>5. cmds'[c].ops # <<>> /\ (cmds[c].ops # <<>> => Head(cmds'[c].ops) = Head(cmds[c].ops))
  BY <1>3, <1>4, AppendLast
<1>6. \A u \in Thread : pc'[u] \in {"gen2", "gen2w", "put"} =>
        at'[u].cmd \in 1..Len(cmds) /\ (HasOp(at'[u].cmd) \/ cmds'[at'[u].cmd].ops # <<>>)
  <2> TAKE u \in Thread
  <2>1. CASE u # t
    <3>1. pc'[u] = pc[u] /\ at'[u] = at[u]
      BY <2>1 DEF InstallOp, Goto, Stay, Handled, Local, Typed, TypeOK
    <3> QED
      BY <3>1, OpsSent
  <2>2. CASE u = t
    <3>1. pc'[u] \in {"gen2", "gen2w", "put"} => at' = at
      BY <2>2 DEF InstallOp, Goto, Stay, Handled, Typed, TypeOK
    <3> QED
      BY <1>2, <1>5, <2>2, <3>1
  <2> QED
    BY <2>1, <2>2
<1>7. \A x \in 1..Len(cmds) :
        /\ cmds'[x].kind = cmds[x].kind
        /\ cmds[x].ops # <<>> => cmds'[x].ops # <<>> /\ Head(cmds'[x].ops) = Head(cmds[x].ops)
  BY <1>2, <1>5
<1> QED
  BY <1>1, <1>6, <1>7, OpsQueued, OpsStep

LEMMA Gen2WriteOps ==
  ASSUME Typed, OpsKnown, Typed', NEW t \in Thread, Gen2Write(t)
  PROVE  OpsKnown'
<1>1. UNCHANGED <<proxies, done, at>> /\ pc[t] = "gen2w" /\ pc' = [pc EXCEPT ![t] = "put"]
  BY DEF Gen2Write, From, Goto, Stay
<1>2. \A c \in 1..Len(cmds) : cmds'[c].kind = cmds[c].kind /\ cmds'[c].ops = cmds[c].ops
  BY Gen2WriteCommand
<1>3. \A u \in Thread : pc'[u] \in {"gen2", "gen2w", "put"} =>
        at'[u].cmd \in 1..Len(cmds) /\ HasOp(at'[u].cmd)
  BY <1>1, OpsSent DEF Typed, TypeOK
<1> QED
  BY <1>1, <1>2, <1>3, OpsQueued, OpsStep

-----------------------------------------------------------------------------
(* Types and operations, together: Run records the first operation *)

KnownInv == Typed /\ OpsKnown

LEMMA InitKnown == Init => KnownInv
<1> SUFFICES ASSUME Init PROVE KnownInv
  OBVIOUS
<1>1. OpsKnown
  BY DEF Init, OpsKnown, Thread
<1> QED
  BY <1>1, InitTyped DEF KnownInv

LEMMA ThreadKnown ==
  ASSUME KnownInv, NEW t \in Thread, ThreadStep(t)
  PROVE  KnownInv'
<1> USE DEF KnownInv
<1>1. CASE NextPhone(t)
  BY <1>1, NextPhoneTyped, ThreadMovesOps
<1>2. CASE Add(t)
  BY <1>2, AddTyped, ThreadMovesOps
<1>3. CASE AddNew(t)
  BY <1>3, AddNewTyped, ThreadMovesOps
<1>4. CASE MaybeCreate(t)
  BY <1>4, MaybeCreateTyped, ThreadMovesOps
<1>5. CASE Create(t)
  BY <1>5, CreateTyped, CreateOps
<1>6. CASE Start(t)
  BY <1>6, StartTyped, StartOps
<1>7. CASE Added(t)
  BY <1>7, AddedTyped, ThreadMovesOps
<1>8. CASE Gen1(t)
  BY <1>8, Gen1Typed, ThreadMovesOps
<1>9. CASE InstallOp(t)
  BY <1>9, InstallOpTyped, InstallOpOps
<1>10. CASE Gen2(t)
  BY <1>10, Gen2Typed, ThreadMovesOps
<1>11. CASE Gen2Write(t)
  BY <1>11, Gen2WriteTyped, Gen2WriteOps
<1>12. CASE Put(t)
  BY <1>12, PutTyped, PutOps
<1> QED
  BY <1>1, <1>2, <1>3, <1>4, <1>5, <1>6, <1>7, <1>8, <1>9, <1>10, <1>11, <1>12 DEF ThreadStep

LEMMA StutterKnown ==
  ASSUME KnownInv, UNCHANGED vars
  PROVE  KnownInv'
<1>1. UNCHANGED <<lists, known, device, timer, devs, proxies, cmds, queueIn, pc, at, session,
                  walk, shared, raced, done>>
  BY DEF vars, masterVars, objectVars, history
<1>2. Device' = Device /\ Frame' = Frame /\ Proxy' = Proxy /\ Message' = Message
  BY <1>1, SameObjects DEF KnownInv, Typed
<1>3. TypeOK'
  BY <1>1, <1>2 DEF KnownInv, Typed, TypeOK
<1>4. Places'
  BY <1>1 DEF KnownInv, Typed, Places, Placed
<1>5. OpsKnown'
  BY <1>1 DEF KnownInv, OpsKnown, HasOp
<1> QED
  BY <1>3, <1>4, <1>5 DEF KnownInv, Typed

LEMMA NextKnown == KnownInv /\ [Next]_vars => KnownInv'
<1> SUFFICES ASSUME KnownInv, [Next]_vars PROVE KnownInv'
  OBVIOUS
<1> USE DEF KnownInv
<1>1. CASE BeginWalk
  BY <1>1, BeginWalkTyped, NewCommandOps
<1>2. CASE Scan
  BY <1>2, ScanTyped, MasterMovesOps
<1>3. ASSUME NEW t \in Thread, ThreadStep(t) PROVE KnownInv'
  BY <1>3, ThreadKnown
<1>4. ASSUME NEW t \in Thread, NEW s \in Phone, CheckTimeout(t, s) PROVE KnownInv'
  BY <1>4, CheckTimeoutTyped, CheckTimeoutOps
<1>5. CASE Ask
  BY <1>5, AskTyped, NewCommandOps
<1>6. CASE ProcessIncome
  BY <1>6, ProcessIncomeTyped, MasterMovesOps
<1>7. CASE ScanDevicesResponse
  BY <1>7, ScanDevicesResponseTyped, MasterMovesOps
<1>8. CASE ListPhone
  BY <1>8, ListPhoneTyped, MasterMovesOps
<1>9. CASE MapPhone
  BY <1>9, MapPhoneTyped, MasterMovesOps
<1>10. ASSUME NEW g \in DOMAIN proxies, Take(g) PROVE KnownInv'
  BY <1>10, TakeTyped, TakeOps
<1>11. ASSUME NEW g \in DOMAIN proxies, Run(g) PROVE KnownInv'
  BY <1>11, RunTyped, RunOps
<1>12. CASE UNCHANGED vars
  BY <1>12, StutterKnown
<1> QED
  BY <1>1, <1>2, <1>3, <1>4, <1>5, <1>6, <1>7, <1>8, <1>9, <1>10, <1>11, <1>12
     DEF Next, MasterStep, ProxyStep

LEMMA Known == Spec => []KnownInv
BY InitKnown, NextKnown, PTL DEF Spec

\* Every variable of DeviceWalk keeps its type, for any phones, lists of adb
\* and walks; no thread and no proxy refers to an object that was not made.
THEOREM TypeCorrect == Spec => []TypeOK
<1>1. KnownInv => TypeOK
  BY DEF KnownInv, Typed
<1> QED
  BY <1>1, Known, PTL

\* The phones a command is handed to run the same operation, although each
\* appends its own to the shared object (GetOP reads the first).
THEOREM OneOperationHolds == Spec => []OneOperation
<1>1. KnownInv => OneOperation
  <2> SUFFICES ASSUME KnownInv, NEW x \in done, NEW y \in done, x[1] = y[1]
               PROVE  x = y
    BY DEF OneOperation
  <2>1. x[2] = y[2]
    BY DEF KnownInv, OpsKnown
  <2>2. x \in (1..Len(cmds)) \X {"delete", "just"} /\ y \in (1..Len(cmds)) \X {"delete", "just"}
    BY DEF KnownInv, Typed, TypeOK
  <2> QED
    BY <2>1, <2>2
<1> QED
  BY <1>1, Known, PTL

-----------------------------------------------------------------------------
(* What is put is served *)

\* Steps that leave the proxies of devices alone, and put nothing.
LEMMA ServedStep ==
  ASSUME Typed, Typed', Served, Len(devs) <= Len(devs'), Len(proxies') = Len(proxies),
         \A d \in 1..Len(devs) : devs'[d].proxy = devs[d].proxy,
         \A d \in 1..Len(devs') : d \in 1..Len(devs) \/ devs'[d].proxy = 0,
         \A g \in 1..Len(proxies) :
           /\ proxies'[g].started = proxies[g].started /\ proxies'[g].on = proxies[g].on
           /\ proxies[g].started \/ proxies'[g].queue = proxies[g].queue,
         \A u \in Thread : pc[u] = "start" =>
           \/ pc'[u] = "start" /\ at'[u].dev = at[u].dev
           \/ devs[at[u].dev].proxy = 0
           \/ proxies[devs[at[u].dev].proxy].started,
         \A u \in Thread : pc'[u] = "create" =>
           \/ pc[u] = "create" /\ at'[u].dev = at[u].dev
           \/ devs'[at'[u].dev].proxy = 0
  PROVE  Served'
<1>1. /\ DOMAIN devs = 1..Len(devs) /\ DOMAIN devs' = 1..Len(devs')
      /\ DOMAIN proxies = 1..Len(proxies) /\ DOMAIN proxies' = 1..Len(proxies)
  BY Lengths, LenProperties DEF Typed, TypeOK
<1>2. \A d \in 1..Len(devs) : devs[d].proxy # 0 => devs[d].proxy \in 1..Len(proxies)
  <2> TAKE d \in 1..Len(devs)
  <2>1. devs[d] \in Device
    BY ElementOfSeq DEF Typed, TypeOK
  <2>2. devs[d].proxy \in 0..Len(proxies) /\ Len(proxies) \in Nat
    BY <2>1, Lengths DEF Typed, Device
  <2> QED
    BY <2>2
<1>3. ASSUME NEW d \in DOMAIN devs', devs'[d].proxy # 0, ~proxies'[devs'[d].proxy].started
      PROVE  \E t \in Thread : pc'[t] = "start" /\ at'[t].dev = d
  <2>1. d \in 1..Len(devs) /\ devs'[d].proxy = devs[d].proxy
    BY <1>1, <1>3
  <2>2. devs[d].proxy # 0 /\ ~proxies[devs[d].proxy].started
    BY <1>2, <1>3, <2>1
  <2>3. PICK t \in Thread : pc[t] = "start" /\ at[t].dev = d
    BY <1>1, <2>1, <2>2 DEF Served
  <2> QED
    BY <2>2, <2>3
<1>4. ASSUME NEW g \in DOMAIN proxies', proxies'[g].queue # <<>>,
             proxies'[g].on, ~proxies'[g].started
      PROVE  \E d \in DOMAIN devs' : devs'[d].proxy = g
  <2>1. g \in DOMAIN proxies /\ proxies[g].queue # <<>> /\ proxies[g].on /\ ~proxies[g].started
    BY <1>1, <1>4
  <2>2. PICK d \in DOMAIN devs : devs[d].proxy = g
    BY <2>1 DEF Served, Unstarted
  <2>3. d \in 1..Len(devs')
    BY <1>1, Lengths DEF Typed
  <2> QED
    BY <1>1, <2>2, <2>3
<1>5. ASSUME NEW u \in Thread, pc'[u] = "create", devs'[at'[u].dev].proxy # 0,
             ~proxies'[devs'[at'[u].dev].proxy].started
      PROVE  proxies'[devs'[at'[u].dev].proxy].queue = <<>>
  <2>1. pc[u] = "create" /\ at'[u].dev = at[u].dev
    BY <1>5
  <2>2. at[u].dev \in 1..Len(devs)
    BY <2>1, Here DEF Adding
  <2>3. devs'[at'[u].dev].proxy = devs[at[u].dev].proxy /\ devs[at[u].dev].proxy \in 1..Len(proxies)
    BY <1>2, <1>5, <2>1, <2>2
  <2>4. ~proxies[devs[at[u].dev].proxy].started
    BY <1>5, <2>3
  <2> QED
    BY <1>5, <2>1, <2>3, <2>4 DEF Served
<1> QED
  BY <1>3, <1>4, <1>5 DEF Served, Unstarted

\* The same with the objects untouched.
LEMMA ServedMoves ==
  ASSUME Typed, Typed', Served, UNCHANGED proxies, Len(devs') = Len(devs),
         \A d \in 1..Len(devs) : devs'[d].proxy = devs[d].proxy,
         \A u \in Thread : pc[u] = "start" =>
           \/ pc'[u] = "start" /\ at'[u].dev = at[u].dev
           \/ devs[at[u].dev].proxy = 0
           \/ proxies[devs[at[u].dev].proxy].started,
         \A u \in Thread : pc'[u] = "create" =>
           \/ pc[u] = "create" /\ at'[u].dev = at[u].dev
           \/ devs'[at'[u].dev].proxy = 0
  PROVE  Served'
BY ServedStep, Lengths DEF Typed

\* A thread that is neither at start nor comes to create.
LEMMA ServedElsewhere ==
  ASSUME Typed, Typed', Served, UNCHANGED proxies, Len(devs') = Len(devs),
         \A d \in 1..Len(devs) : devs'[d].proxy = devs[d].proxy,
         NEW t \in Thread, pc[t] # "start", pc'[t] # "create",
         \A u \in Thread \ {t} : pc'[u] = pc[u] /\ at'[u] = at[u]
  PROVE  Served'
BY ServedMoves

LEMMA QuietServed ==
  ASSUME Typed, Typed', Served, NEW t \in Thread,
         NextPhone(t) \/ Added(t) \/ Gen1(t) \/ InstallOp(t) \/ Gen2(t) \/ Gen2Write(t)
  PROVE  Served'
<1>1. UNCHANGED proxies
  BY DEF NextPhone, Added, Gen1, InstallOp, Gen2, Gen2Write, objectVars
<1>2. Len(devs') = Len(devs) /\ \A d \in 1..Len(devs) : devs'[d].proxy = devs[d].proxy
  <2>1. CASE NextPhone(t) \/ Added(t) \/ Gen1(t) \/ Gen2(t)
    BY <2>1 DEF NextPhone, Added, Gen1, Gen2, objectVars
  <2>2. CASE InstallOp(t) \/ Gen2Write(t)
    BY <2>2, WriteNumberTyped DEF InstallOp, Gen2Write, From, Sending
  <2> QED
    BY <2>1, <2>2
<1>3. \A u \in Thread \ {t} : pc'[u] = pc[u] /\ at'[u] = at[u]
  BY DEF NextPhone, Added, Gen1, InstallOp, Gen2, Gen2Write, Goto, Local, Stay, Handled,
         ReadNumber, Typed, TypeOK
<1>4. pc[t] # "start" /\ pc'[t] # "create"
  BY DEF NextPhone, Added, Gen1, InstallOp, Gen2, Gen2Write, From, Goto, Handled, Typed, TypeOK
<1> QED
  BY <1>1, <1>2, <1>3, <1>4, ServedElsewhere

LEMMA MasterServed ==
  ASSUME Typed, Typed', Served,
         BeginWalk \/ Ask \/ ProcessIncome \/ ScanDevicesResponse \/ ListPhone \/ MapPhone \/ Scan
  PROVE  Served'
<1>1. UNCHANGED <<devs, proxies>>
  BY DEF BeginWalk, Ask, ProcessIncome, ScanDevicesResponse, ListPhone, MapPhone, Scan,
         objectVars
<1>2. \A u \in Thread : pc[u] = "start" => pc'[u] = "start" /\ at'[u].dev = at[u].dev
  BY DEF BeginWalk, Ask, ProcessIncome, ScanDevicesResponse, ListPhone, MapPhone, Scan,
         From, Goto, Local, Stay, Typed, TypeOK
<1>3. \A u \in Thread : pc'[u] = "create" => pc[u] = "create" /\ at'[u].dev = at[u].dev
  BY DEF BeginWalk, Ask, ProcessIncome, ScanDevicesResponse, ListPhone, MapPhone, Scan,
         From, Goto, Local, Stay, Typed, TypeOK
<1> QED
  BY <1>1, <1>2, <1>3, ServedMoves

LEMMA AddServed ==
  ASSUME Typed, Typed', Served, NEW t \in Thread, Add(t) \/ MaybeCreate(t)
  PROVE  Served'
<1>1. UNCHANGED <<devs, proxies>> /\ pc[t] \in {"add", "maybe"}
  BY DEF Add, MaybeCreate, objectVars, From
<1>2. \A u \in Thread \ {t} : pc'[u] = pc[u] /\ at'[u] = at[u]
  BY DEF Add, MaybeCreate, Goto, Local, Stay, Typed, TypeOK
<1>3. pc'[t] = "create" => devs[at'[t].dev].proxy = 0
  <2>1. CASE Add(t)
    <3>1. at[t] \in Frame
      BY FrameFields DEF Typed
    <3>2. at'[t].dev = device[at[t].phone]
      BY <2>1, <3>1 DEF Add, Local, Typed, TypeOK, Frame
    <3>3. pc'[t] = "create" => devs[device[at[t].phone]].proxy = 0
      BY <2>1 DEF Add, Goto, Typed, TypeOK
    <3> QED
      BY <3>2, <3>3
  <2>2. CASE MaybeCreate(t)
    BY <2>2 DEF MaybeCreate, Goto, Stay, Typed, TypeOK
  <2> QED
    BY <2>1, <2>2
<1> QED
  BY <1>1, <1>2, <1>3, ServedMoves

LEMMA AddNewServed ==
  ASSUME Typed, Typed', Served, NEW t \in Thread, AddNew(t)
  PROVE  Served'
<1> DEFINE r == [subId |-> 0, lastSub |-> 0, minSub |-> 0, proxy |-> 0]
<1>1. UNCHANGED proxies /\ pc[t] = "new"
  BY DEF AddNew, From
<1>2. \A u \in Thread \ {t} : pc'[u] = pc[u] /\ at'[u] = at[u]
  BY DEF AddNew, Goto, Local, Raise, Typed, TypeOK
<1>3. pc'[t] # "create"
  BY DEF AddNew, Goto, Raise, Typed, TypeOK
<1>4. CASE devs' = devs
  BY <1>1, <1>2, <1>3, <1>4, ServedElsewhere
<1>5. CASE devs' = Append(devs, r)
  <2>1. r \in Device /\ devs \in Seq(Device)
    BY Lengths DEF Device, Typed, TypeOK
  <2>2. Len(devs') = Len(devs) + 1 /\ Len(devs) \in Nat
        /\ \A d \in 1..Len(devs) : devs'[d] = devs[d]
    BY <1>5, <2>1, AppendProperties
  <2>3. devs'[Len(devs) + 1].proxy = 0
    BY <1>5, <2>1, AppendProperties
  <2>4. \A d \in 1..Len(devs') : d \in 1..Len(devs) \/ devs'[d].proxy = 0
    BY <2>2, <2>3
  <2> QED
    BY <1>1, <1>2, <1>3, <2>2, <2>4, ServedStep
<1> QED
  BY <1>4, <1>5 DEF AddNew

\* The proxies that are referred to exist.
LEMMA DeviceProxy ==
  ASSUME Typed, NEW d \in 1..Len(devs)
  PROVE  devs[d].proxy # 0 => devs[d].proxy \in 1..Len(proxies)
<1>1. devs[d] \in Device
  BY ElementOfSeq DEF Typed, TypeOK
<1>2. devs[d].proxy \in 0..Len(proxies) /\ Len(proxies) \in Nat
  BY <1>1, Lengths DEF Typed, Device
<1> QED
  BY <1>2

\* The objects are numbered from 1, before and after a step.
LEMMA Numbers ==
  ASSUME Typed, Typed'
  PROVE  /\ DOMAIN devs = 1..Len(devs) /\ DOMAIN devs' = 1..Len(devs')
         /\ DOMAIN proxies = 1..Len(proxies) /\ DOMAIN proxies' = 1..Len(proxies')
BY Lengths, LenProperties DEF Typed, TypeOK

LEMMA CreateServed ==
  ASSUME Typed, Typed', Served, NEW t \in Thread, Create(t)
  PROVE  Served'
<1> DEFINE D == at[t].dev
           p == [phone |-> at[t].phone, started |-> FALSE, on |-> TRUE, queue |-> <<>>, run |-> 0]
           n == Len(proxies) + 1
<1>1. proxies' = Append(proxies, p) /\ pc[t] = "create" /\ at' = at
      /\ pc'[t] = "start" /\ \A u \in Thread \ {t} : pc'[u] = pc[u]
  BY DEF Create, From, Goto, Stay, Typed, TypeOK
<1>2. at[t].phone \in Phone /\ D \in 1..Len(devs) /\ devs[D] \in Device
  BY <1>1, Here DEF Adding
<1>3. p \in Proxy /\ p.queue = <<>> /\ proxies \in Seq(Proxy)
  BY <1>2, Lengths DEF Proxy, Typed, TypeOK
<1>4. /\ Len(proxies') = n /\ Len(proxies) \in Nat /\ proxies'[n] = p
      /\ \A g \in 1..Len(proxies) : proxies'[g] = proxies[g]
  BY <1>1, <1>3, AppendProperties
<1> HIDE DEF p
<1>5. /\ Len(devs') = Len(devs)
      /\ \A d \in 1..Len(devs) : devs'[d].proxy = IF d = D THEN n ELSE devs[d].proxy
  <2>1. devs' = [devs EXCEPT ![D].proxy = n] /\ devs \in Seq(Device)
    BY <1>1, <1>4 DEF Create, Typed, TypeOK
  <2>2. Len(devs') = Len(devs) /\ DOMAIN devs = 1..Len(devs)
    BY <2>1, Lengths DEF Typed
  <2> QED
    BY <1>2, <2>1, <2>2 DEF Device
<1>6. ASSUME NEW d \in 1..Len(devs'), devs'[d].proxy # 0, ~proxies'[devs'[d].proxy].started
      PROVE  \E u \in Thread : pc'[u] = "start" /\ at'[u].dev = d
  <2>1. CASE d = D
    BY <1>1, <2>1
  <2>2. CASE d # D
    <3>1. devs[d].proxy # 0 /\ ~proxies[devs[d].proxy].started
      BY <1>4, <1>5, <1>6, <2>2, DeviceProxy
    <3>2. PICK u \in Thread : pc[u] = "start" /\ at[u].dev = d
      BY <1>5, <3>1, Lengths DEF Served, Typed
    <3> QED
      BY <1>1, <3>2
  <2> QED
    BY <2>1, <2>2
<1>7. ASSUME NEW g \in 1..Len(proxies'), proxies'[g].queue # <<>>,
             proxies'[g].on, ~proxies'[g].started
      PROVE  \E d \in 1..Len(devs') : devs'[d].proxy = g
  <2>1. g # n
    BY <1>3, <1>4, <1>7
  <2>2. g \in 1..Len(proxies)
    BY <1>4, <2>1
  <2>3. proxies[g].queue # <<>> /\ proxies[g].on /\ ~proxies[g].started
    BY <1>4, <1>7, <2>2
  <2>4. PICK d \in 1..Len(devs) : devs[d].proxy = g
    BY <2>2, <2>3, Lengths DEF Served, Unstarted, Typed
  <2>5. d # D
    BY <1>1, <2>2, <2>3, <2>4 DEF Served
  <2> QED
    BY <1>5, <2>4, <2>5
<1>8. ASSUME NEW u \in Thread, pc'[u] = "create", devs'[at'[u].dev].proxy # 0,
             ~proxies'[devs'[at'[u].dev].proxy].started
      PROVE  proxies'[devs'[at'[u].dev].proxy].queue = <<>>
  <2>1. u # t /\ pc[u] = "create" /\ at'[u].dev = at[u].dev
    BY <1>1, <1>8
  <2>2. at[u].dev \in 1..Len(devs)
    BY <2>1, Here DEF Adding
  <2>3. CASE at[u].dev = D
    BY <1>3, <1>4, <1>5, <2>1, <2>2, <2>3
  <2>4. CASE at[u].dev # D
    <3>1. devs'[at'[u].dev].proxy = devs[at[u].dev].proxy /\ devs[at[u].dev].proxy # 0
      BY <1>5, <1>8, <2>1, <2>2, <2>4
    <3>2. proxies'[devs[at[u].dev].proxy] = proxies[devs[at[u].dev].proxy]
      BY <1>4, <2>2, <3>1, DeviceProxy
    <3> QED
      BY <1>8, <2>1, <3>1, <3>2 DEF Served
  <2> QED
    BY <2>3, <2>4
<1> QED
  BY <1>6, <1>7, <1>8, Numbers DEF Served, Unstarted

LEMMA StartServed ==
  ASSUME Typed, Typed', Served, NEW t \in Thread, Start(t)
  PROVE  Served'
<1> DEFINE D == at[t].dev
           g == devs[D].proxy
<1>1. devs' = devs /\ pc[t] = "start" /\ pc'[t] # "create"
      /\ \A u \in Thread \ {t} : pc'[u] = pc[u] /\ at'[u] = at[u]
  BY DEF Start, From, Goto, Stay, Raise, Local, Typed, TypeOK
<1>2. D \in 1..Len(devs)
  BY <1>1, Here DEF Adding
<1>3. CASE ~(g # 0 /\ ~proxies[g].started)
  <2>1. UNCHANGED proxies
    BY <1>3 DEF Start
  <2> QED
    BY <1>1, <1>3, <2>1, ServedMoves
<1>4. CASE g # 0 /\ ~proxies[g].started
  <2>1. proxies' = [proxies EXCEPT ![g].started = TRUE] /\ g \in 1..Len(proxies)
    BY <1>2, <1>4, DeviceProxy DEF Start
  <2>2. /\ Len(proxies') = Len(proxies) /\ proxies'[g].started
        /\ \A h \in 1..Len(proxies) : proxies'[h].queue = proxies[h].queue
                                      /\ proxies'[h].on = proxies[h].on
        /\ \A h \in 1..Len(proxies) : h # g => proxies'[h] = proxies[h]
    <3>1. proxies[g] \in Proxy
      BY <2>1, Lengths, AllProxies DEF Typed
    <3>2. PICK p \in Proxy : p = [proxies[g] EXCEPT !.started = TRUE]
      BY ONLY <3>1 DEF Proxy
    <3>3. p.started /\ p.queue = proxies[g].queue /\ p.on = proxies[g].on
      BY <3>1, <3>2 DEF Proxy
    <3>4. proxies' = [proxies EXCEPT ![g] = p] /\ proxies \in Seq(Proxy)
      BY <2>1, <3>1, <3>2 DEF Typed, TypeOK
    <3>5. Len(proxies') = Len(proxies)
          /\ \A h \in 1..Len(proxies) : proxies'[h] = IF h = g THEN p ELSE proxies[h]
      BY <2>1, <3>4, ExceptSeq
    <3> QED
      BY Zenon, <2>1, <3>3, <3>5
  <2>3. ASSUME NEW d \in 1..Len(devs), devs'[d].proxy # 0, ~proxies'[devs'[d].proxy].started
        PROVE  \E u \in Thread : pc'[u] = "start" /\ at'[u].dev = d
    <3>1. devs[d].proxy # 0 /\ devs[d].proxy # g /\ ~proxies[devs[d].proxy].started
      BY <1>1, <2>2, <2>3, DeviceProxy
    <3>2. PICK u \in Thread : pc[u] = "start" /\ at[u].dev = d
      BY <3>1, Numbers DEF Served
    <3> QED
      BY <1>1, <3>1, <3>2
  <2>4. ASSUME NEW h \in 1..Len(proxies), proxies'[h].queue # <<>>,
               proxies'[h].on, ~proxies'[h].started
        PROVE  \E d \in DOMAIN devs' : devs'[d].proxy = h
    <3>1. proxies[h].queue # <<>> /\ proxies[h].on /\ ~proxies[h].started
      BY <2>2, <2>4
    <3> QED
      BY <1>1, <3>1, Numbers DEF Served, Unstarted
  <2>5. ASSUME NEW u \in Thread, pc'[u] = "create", devs'[at'[u].dev].proxy # 0,
               ~proxies'[devs'[at'[u].dev].proxy].started
        PROVE  proxies'[devs'[at'[u].dev].proxy].queue = <<>>
    <3>1. u # t /\ pc[u] = "create" /\ at'[u] = at[u]
      BY <1>1, <2>5
    <3>2. at[u].dev \in 1..Len(devs)
      BY <3>1, Here DEF Adding
    <3>3. devs[at[u].dev].proxy \in 1..Len(proxies) /\ devs[at[u].dev].proxy # g
      BY <1>1, <2>2, <2>5, <3>1, <3>2, DeviceProxy
    <3> QED
      BY <1>1, <2>2, <2>5, <3>1, <3>3 DEF Served
  <2> QED
    BY <1>1, <2>2, <2>3, <2>4, <2>5, Numbers DEF Served, Unstarted
<1> QED
  BY <1>3, <1>4

\* A thread only puts a command where nobody is about to replace the proxy:
\* either the proxy is started or the other thread is about to start it.
LEMMA PutServed ==
  ASSUME Typed, Typed', Served, NEW t \in Thread, Put(t)
  PROVE  Served'
<1> DEFINE D == at[t].dev
           g == devs[D].proxy
<1>1. pc[t] = "put" /\ pc'[t] # "create"
      /\ \A u \in Thread \ {t} : pc'[u] = pc[u] /\ at'[u] = at[u]
  BY DEF Put, From, Goto, Handled, Raise, Local, Typed, TypeOK
<1>2. /\ D \in 1..Len(devs) /\ Len(devs') = Len(devs) /\ Len(proxies') = Len(proxies)
      /\ \A x \in 1..Len(devs) : devs'[x].proxy = devs[x].proxy
      /\ \A h \in 1..Len(proxies) :
           /\ proxies'[h].started = proxies[h].started /\ proxies'[h].on = proxies[h].on
           /\ h # g => proxies'[h].queue = proxies[h].queue
  BY PutQueue
<1>3. ASSUME NEW d \in 1..Len(devs), devs'[d].proxy # 0, ~proxies'[devs'[d].proxy].started
      PROVE  \E u \in Thread : pc'[u] = "start" /\ at'[u].dev = d
  <2>1. devs[d].proxy # 0 /\ ~proxies[devs[d].proxy].started
    BY <1>2, <1>3, DeviceProxy
  <2>2. PICK u \in Thread : pc[u] = "start" /\ at[u].dev = d
    BY <2>1, Numbers DEF Served
  <2> QED
    BY <1>1, <2>2
<1>4. ASSUME NEW h \in 1..Len(proxies), proxies'[h].queue # <<>>,
             proxies'[h].on, ~proxies'[h].started
      PROVE  \E d \in 1..Len(devs) : devs'[d].proxy = h
  <2>1. CASE h = g
    BY <1>2, <2>1
  <2>2. CASE h # g
    <3>1. proxies[h].queue # <<>> /\ proxies[h].on /\ ~proxies[h].started
      BY <1>2, <1>4, <2>2
    <3>2. PICK d \in 1..Len(devs) : devs[d].proxy = h
      BY <3>1, Numbers DEF Served, Unstarted
    <3> QED
      BY <1>2, <3>2
  <2> QED
    BY <2>1, <2>2
<1>5. ASSUME NEW u \in Thread, pc'[u] = "create", devs'[at'[u].dev].proxy # 0,
             ~proxies'[devs'[at'[u].dev].proxy].started
      PROVE  proxies'[devs'[at'[u].dev].proxy].queue = <<>>
  <2>1. u # t /\ pc[u] = "create" /\ at'[u] = at[u]
    BY <1>1, <1>5
  <2>2. at[u].dev \in 1..Len(devs)
    BY <2>1, Here DEF Adding
  <2>3. /\ devs'[at'[u].dev].proxy = devs[at[u].dev].proxy
        /\ devs[at[u].dev].proxy \in 1..Len(proxies) /\ ~proxies[devs[at[u].dev].proxy].started
    BY <1>2, <1>5, <2>1, <2>2, DeviceProxy
  <2>4. devs[at[u].dev].proxy # g
    <3>1. SUFFICES ASSUME devs[at[u].dev].proxy = g PROVE FALSE
      OBVIOUS
    <3>2. PICK v \in Thread : pc[v] = "start"
      BY <1>2, <2>3, <3>1, Numbers DEF Served
    <3> QED
      BY <1>1, <2>1, <3>2 DEF Thread
  <2> QED
    BY SMTT(30), <1>2, <2>1, <2>3, <2>4 DEF Served
<1> QED
  BY <1>2, <1>3, <1>4, <1>5, Numbers DEF Served, Unstarted

\* A stopped proxy is no device's any more.
LEMMA CheckTimeoutServed ==
  ASSUME Typed, Typed', Served, NEW t \in Thread, NEW s \in Phone, CheckTimeout(t, s)
  PROVE  Served'
<1> DEFINE D == device[s]
           g == devs[D].proxy
<1>1. UNCHANGED <<pc, at>> /\ D \in 1..Len(devs)
  BY TimerHasDevice DEF CheckTimeout
<1>2. /\ Len(devs') = Len(devs)
      /\ \A d \in 1..Len(devs) : devs'[d].proxy = IF d = D THEN 0 ELSE devs[d].proxy
  <2>1. devs \in Seq(Device) /\ devs[D] \in Device
    BY <1>1, ElementOfSeq DEF Typed, TypeOK
  <2>2. devs[D].lastSub \in Nat /\ 0 \in 0..Len(proxies)
    BY <2>1, Lengths DEF Device, Typed
  <2>3. PICK x \in Device : x = [devs[D] EXCEPT !.minSub = devs[D].lastSub]
    BY ONLY <2>1, <2>2 DEF Device
  <2>4. PICK r \in Device : r = [x EXCEPT !.proxy = 0]
    BY ONLY <2>2, x \in Device DEF Device
  <2>5. r.proxy = 0
    BY <2>4 DEF Device
  <2>6. devs' = [devs EXCEPT ![D] = r]
    BY <1>1, <2>1, <2>3, <2>4 DEF CheckTimeout
  <2>7. Len(devs') = Len(devs) /\ \A d \in 1..Len(devs) : devs'[d] = IF d = D THEN r ELSE devs[d]
    BY <1>1, <2>1, <2>6, ExceptSeq
  <2> QED
    BY <2>5, <2>7
<1>3. /\ Len(proxies') = Len(proxies)
      /\ \A h \in 1..Len(proxies) :
           /\ proxies'[h].started = proxies[h].started /\ proxies'[h].queue = proxies[h].queue
           /\ proxies'[h].on => proxies[h].on /\ h # g
  <2>1. CASE g = 0
    BY <2>1, Lengths DEF CheckTimeout, Typed
  <2>2. CASE g # 0
    <3>1. proxies' = [proxies EXCEPT ![g].on = FALSE]
      BY <2>2 DEF CheckTimeout
    <3> QED
      BY <3>1, Lengths, AllProxies, Numbers DEF Typed, Proxy
  <2> QED
    BY <2>1, <2>2
<1>4. ASSUME NEW d \in 1..Len(devs), devs'[d].proxy # 0, ~proxies'[devs'[d].proxy].started
      PROVE  \E u \in Thread : pc'[u] = "start" /\ at'[u].dev = d
  <2>1. devs[d].proxy # 0 /\ ~proxies[devs[d].proxy].started
    BY <1>2, <1>3, <1>4, DeviceProxy
  <2> QED
    BY <1>1, <2>1, Numbers DEF Served
<1>5. ASSUME NEW h \in 1..Len(proxies), proxies'[h].queue # <<>>,
             proxies'[h].on, ~proxies'[h].started
      PROVE  \E d \in 1..Len(devs) : devs'[d].proxy = h
  <2>1. PICK d \in 1..Len(devs) : devs[d].proxy = h
    BY <1>3, <1>5, Numbers DEF Served, Unstarted
  <2>2. d # D
    BY <1>3, <1>5, <2>1
  <2> QED
    BY <1>2, <2>1, <2>2
<1>6. ASSUME NEW u \in Thread, pc'[u] = "create", devs'[at'[u].dev].proxy # 0,
             ~proxies'[devs'[at'[u].dev].proxy].started
      PROVE  proxies'[devs'[at'[u].dev].proxy].queue = <<>>
  <2>1. at[u].dev \in 1..Len(devs) /\ at'[u] = at[u] /\ pc[u] = "create"
    BY <1>1, <1>6, Here DEF Adding
  <2>2. devs'[at'[u].dev].proxy = devs[at[u].dev].proxy /\ devs[at[u].dev].proxy \in 1..Len(proxies)
    BY <1>2, <1>6, <2>1, DeviceProxy
  <2> QED
    BY <1>3, <1>6, <2>1, <2>2 DEF Served
<1> QED
  BY <1>2, <1>3, <1>4, <1>5, <1>6, Numbers DEF Served, Unstarted

LEMMA ProxyServed ==
  ASSUME Typed, Typed', Served, NEW g \in DOMAIN proxies, Take(g) \/ Run(g)
  PROVE  Served'
<1>1. UNCHANGED <<devs, pc, at>>
  BY DEF Take, Run
<1>2. /\ Len(proxies') = Len(proxies)
      /\ \A h \in 1..Len(proxies) :
           /\ proxies'[h].started = proxies[h].started /\ proxies'[h].on = proxies[h].on
           /\ proxies[h].started \/ proxies'[h].queue = proxies[h].queue
  <2>1. CASE Take(g)
    BY <2>1, TakeQueue
  <2>2. CASE Run(g)
    <3>1. proxies' = [proxies EXCEPT ![g].run = 0]
      BY <2>2 DEF Run
    <3> QED
      BY <3>1, Lengths, AllProxies, Numbers DEF Typed, Proxy
  <2> QED
    BY <2>1, <2>2
<1> QED
  BY <1>1, <1>2, Lengths, ServedStep DEF Typed

ServedInv == KnownInv /\ Served

LEMMA NextServed == ServedInv /\ [Next]_vars => ServedInv'
<1> SUFFICES ASSUME ServedInv, [Next]_vars PROVE ServedInv'
  OBVIOUS
<1>1. KnownInv'
  BY NextKnown DEF ServedInv
<1>2. Typed /\ Typed' /\ Served
  BY <1>1 DEF ServedInv, KnownInv
<1>3. ASSUME BeginWalk \/ Scan \/ MasterStep PROVE Served'
  <2>1. BeginWalk \/ Ask \/ ProcessIncome \/ ScanDevicesResponse \/ ListPhone \/ MapPhone \/ Scan
    BY <1>3 DEF MasterStep
  <2> QED
    BY <1>2, <2>1, MasterServed
<1>4. ASSUME NEW t \in Thread, ThreadStep(t) PROVE Served'
  BY <1>2, <1>4, QuietServed, AddServed, AddNewServed, CreateServed, StartServed, PutServed
     DEF ThreadStep
<1>5. ASSUME NEW t \in Thread, NEW s \in Phone, CheckTimeout(t, s) PROVE Served'
  BY <1>2, <1>5, CheckTimeoutServed
<1>6. ASSUME NEW g \in DOMAIN proxies, ProxyStep(g) PROVE Served'
  BY <1>2, <1>6, ProxyServed DEF ProxyStep
<1>7. ASSUME UNCHANGED vars PROVE Served'
  <2>1. UNCHANGED <<devs, proxies, pc, at>>
    BY <1>7 DEF vars, objectVars
  <2> QED
    BY <1>2, <2>1, ServedMoves
<1>8. Served'
  BY <1>2, <1>3, <1>4, <1>5, <1>6, <1>7 DEF Next
<1> QED
  BY <1>1, <1>8 DEF ServedInv

\* No command ever waits at a proxy that may run and that nobody starts,
\* although two threads may make a proxy for one phone at once (MaybeCreate).
THEOREM QueuedServed == Spec => []QueuedIsServed
<1>1. Init => ServedInv
  <2> SUFFICES ASSUME Init PROVE ServedInv
    OBVIOUS
  <2>1. Served
    BY DEF Init, Served, Thread
  <2> QED
    BY <2>1, InitKnown DEF ServedInv
<1>2. ServedInv => QueuedIsServed
  <2> SUFFICES ASSUME ServedInv, NEW g \in DOMAIN proxies, proxies[g].queue # <<>>,
                      proxies[g].on, ~proxies[g].started
               PROVE  \E t \in Thread : pc[t] = "start" /\ devs[at[t].dev].proxy = g
    BY DEF QueuedIsServed
  <2>1. PICK d \in DOMAIN devs : devs[d].proxy = g
    BY DEF ServedInv, Served, Unstarted
  <2>2. g # 0
    BY AllProxies DEF ServedInv, KnownInv
  <2> QED
    BY <2>1, <2>2 DEF ServedInv, Served
<1> QED
  BY <1>1, <1>2, NextServed, PTL DEF Spec

-----------------------------------------------------------------------------
(* An undisturbed walk *)

LEMMA WalkPhone ==
  ASSUME Typed, NEW i \in 1..Len(walk.list)
  PROVE  /\ walk.list[i] \in Phone /\ Len(walk.list) \in Nat
         /\ device[walk.list[i]] # 0 => device[walk.list[i]] \in 1..Len(devs)
<1>1. walk.list \in Seq(Phone)
  BY WalkTyped DEF Typed
<1>2. walk.list[i] \in Phone /\ Len(walk.list) \in Nat
  BY <1>1, ElementOfSeq, LenProperties
<1>3. device[walk.list[i]] \in 0..Len(devs) /\ Len(devs) \in Nat
  BY <1>2, Lengths DEF Typed, TypeOK
<1> QED
  BY <1>2, <1>3

\* Steps of the master thread and the proxies: they may make devices of other
\* phones and proxies, and fill another list.
LEMMA WalkStays ==
  ASSUME Typed, Typed', WalkKept, walk' = walk,
         pc'["phone"] = pc["phone"], at'["phone"] = at["phone"],
         walk.ready /\ pc["phone"] # "idle" =>
           /\ lists'[at["phone"].list] = lists[at["phone"].list]
           /\ pc'["master"] \in {"fill", "map"} => at["phone"].list # Len(lists'),
         \A s \in Phone : device'[s] = device[s] \/ (pc["master"] = "new" /\ s = at["master"].phone),
         \A d \in 1..Len(devs) : devs[d].proxy # 0 => devs'[d].proxy # 0,
         pc'["master"] = "new" => \/ pc["master"] = "new" /\ at'["master"].phone = at["master"].phone
                                  \/ device[at'["master"].phone] = 0
  PROVE  WalkKept'
<1> SUFFICES ASSUME walk.ready
             PROVE  /\ \A i \in 1..Len(walk.list) :
                         device'[walk.list[i]] # 0 /\ devs'[device'[walk.list[i]]].proxy # 0
                    /\ pc'["master"] = "new" =>
                         \A i \in 1..Len(walk.list) : walk.list[i] # at'["master"].phone
                    /\ IF pc'["phone"] = "idle" THEN walk.reached = walk.list ELSE OnTheWay'
  BY DEF WalkKept
<1>1. ASSUME NEW i \in 1..Len(walk.list)
      PROVE  /\ device'[walk.list[i]] # 0 /\ devs'[device'[walk.list[i]]].proxy # 0
             /\ pc'["master"] = "new" => walk.list[i] # at'["master"].phone
  <2>1. walk.list[i] \in Phone /\ device[walk.list[i]] # 0 /\ devs[device[walk.list[i]]].proxy # 0
    BY WalkPhone DEF WalkKept
  <2>2. device'[walk.list[i]] = device[walk.list[i]] /\ device[walk.list[i]] \in 1..Len(devs)
    BY <2>1, WalkPhone DEF WalkKept
  <2>3. pc'["master"] = "new" => walk.list[i] # at'["master"].phone
    BY <2>1 DEF WalkKept
  <2> QED
    BY <2>1, <2>2, <2>3
<1>2. ASSUME pc["phone"] # "idle" PROVE OnTheWay'
  <2>1. OnTheWay
    BY <1>2 DEF WalkKept
  <2>2. pc["phone"] \in Sending => at["phone"].dev \in 1..Len(devs)
    BY Here DEF Sending, Thread
  <2>3. pc["phone"] \in Sending => devs'[at["phone"].dev].proxy # 0
    BY <2>1, <2>2 DEF OnTheWay
  <2> QED
    BY <1>2, <2>1, <2>3 DEF OnTheWay
<1>3. pc["phone"] = "idle" => walk.reached = walk.list
  BY DEF WalkKept
<1> QED
  BY <1>1, <1>2, <1>3

\* Steps of the phone thread on its way: it goes on with a phone, or has
\* handled it.
LEMMA WalkGoesOn ==
  ASSUME Typed, Typed', WalkKept, walk.ready, pc["phone"] \notin {"idle", "next"},
         walk'.list = walk.list, UNCHANGED <<lists, device>>,
         pc'["master"] = pc["master"], at'["master"] = at["master"],
         \A d \in 1..Len(devs) : devs[d].proxy # 0 => devs'[d].proxy # 0,
         at'["phone"].list = at["phone"].list, at'["phone"].pos = at["phone"].pos,
         ~at'["phone"].own,
         \/ /\ pc'["phone"] = "next" /\ walk'.reached = Append(walk.reached, at["phone"].phone)
         \/ /\ pc'["phone"] \in {"added"} \cup Sending /\ walk'.reached = walk.reached
            /\ at'["phone"].phone = at["phone"].phone
            /\ pc'["phone"] \in Sending => devs'[at'["phone"].dev].proxy # 0
  PROVE  WalkKept'
<1> DEFINE a == at["phone"]
           n == a.pos - 2
           r == walk.reached
<1>1. OnTheWay /\ a.pos \in Nat
  BY FrameFields DEF WalkKept, Typed, Thread
<1>2. /\ n \in 0..Len(walk.list) /\ Len(r) = n /\ \A i \in 1..n : r[i] = walk.list[i]
      /\ n < Len(walk.list) /\ a.phone = walk.list[n + 1]
      /\ lists[a.list] = walk.list /\ (pc["master"] \in {"fill", "map"} => a.list # Len(lists))
  BY <1>1 DEF OnTheWay
<1>3. r \in Seq(Phone) /\ walk.list \in Seq(Phone) /\ Len(walk.list) \in Nat
  BY WalkTyped, LenProperties DEF Typed
<1>4. /\ \A i \in 1..Len(walk.list) : device'[walk.list[i]] # 0 /\ devs'[device'[walk.list[i]]].proxy # 0
      /\ pc'["master"] = "new" => \A i \in 1..Len(walk.list) : walk.list[i] # at'["master"].phone
  BY WalkPhone DEF WalkKept
<1>5. CASE pc'["phone"] = "next" /\ walk'.reached = Append(r, a.phone)
  <2>1. a.phone \in Phone
    BY <1>2, <1>3, ElementOfSeq
  <2>2. Len(walk'.reached) = n + 1 /\ (\A i \in 1..n : walk'.reached[i] = r[i])
        /\ walk'.reached[n + 1] = a.phone
    BY <1>2, <1>3, <1>5, <2>1, AppendProperties
  <2>3. n + 1 = at'["phone"].pos - 1 /\ n + 1 \in 0..Len(walk.list)
    BY <1>1, <1>2, <1>3
  <2>4. \A i \in 1..(n + 1) : walk'.reached[i] = walk.list[i]
    BY SMTT(30), <1>2, <2>2
  <2>5. OnTheWay'
    BY <1>2, <1>5, <2>2, <2>3, <2>4 DEF OnTheWay, Sending
  <2> QED
    BY <1>4, <1>5, <2>5 DEF WalkKept
<1>6. CASE /\ pc'["phone"] \in {"added"} \cup Sending /\ walk'.reached = r
           /\ at'["phone"].phone = a.phone
           /\ pc'["phone"] \in Sending => devs'[at'["phone"].dev].proxy # 0
  <2>1. pc'["phone"] # "idle" /\ pc'["phone"] # "next" /\ pc'["phone"] \in {"next", "add", "added"} \cup Sending
    BY <1>6 DEF Sending
  <2>2. OnTheWay'
    BY <1>2, <1>6, <2>1 DEF OnTheWay
  <2> QED
    BY <1>4, <2>1, <2>2 DEF WalkKept
<1> QED
  BY <1>5, <1>6

\* The for statement: the next phone of the list, or the walk is complete.
LEMMA NextPhoneWalk ==
  ASSUME Typed, Typed', WalkKept, NextPhone("phone")
  PROVE  WalkKept'
<1> DEFINE a == at["phone"]
           n == a.pos - 1
<1>1. UNCHANGED <<lists, device, devs, walk>> /\ pc["phone"] = "next"
      /\ pc'["master"] = pc["master"] /\ at'["master"] = at["master"]
  BY DEF NextPhone, masterVars, objectVars, history, From, Goto, Local, Typed, TypeOK, Thread
<1> SUFFICES ASSUME walk.ready PROVE WalkKept'
  BY <1>1 DEF WalkKept
<1>2. OnTheWay
  BY <1>1 DEF WalkKept
<1>3. /\ ~a.own /\ lists[a.list] = walk.list
      /\ (pc["master"] \in {"fill", "map"} => a.list # Len(lists))
      /\ n \in 0..Len(walk.list) /\ Len(walk.reached) = n
      /\ \A i \in 1..n : walk.reached[i] = walk.list[i]
  BY <1>1, <1>2 DEF OnTheWay
<1>4. a \in Frame /\ a.pos \in Nat /\ walk.list \in Seq(Phone) /\ walk.reached \in Seq(Phone)
      /\ Len(walk.list) \in Nat
  BY FrameFields, WalkTyped, LenProperties DEF Typed, Thread
<1>5. /\ \A i \in 1..Len(walk.list) : device'[walk.list[i]] # 0 /\ devs'[device'[walk.list[i]]].proxy # 0
      /\ pc'["master"] = "new" => \A i \in 1..Len(walk.list) : walk.list[i] # at'["master"].phone
  BY <1>1 DEF WalkKept
<1>6. CASE a.pos > Len(walk.list)
  <2>1. pc'["phone"] = "idle"
    BY <1>3, <1>6 DEF NextPhone, Goto, Typed, TypeOK, Thread
  <2>2. n = Len(walk.list)
    BY <1>3, <1>4, <1>6
  <2>3. walk.reached = walk.list
    BY <1>3, <1>4, <2>2, SeqEqual
  <2> QED
    BY <1>1, <1>5, <2>1, <2>3 DEF WalkKept
<1>7. CASE ~(a.pos > Len(walk.list))
  <2>1. a.pos \in 1..Len(walk.list)
    BY <1>3, <1>4, <1>7
  <2>2. walk.list[a.pos] \in Phone
    BY <1>4, <2>1, ElementOfSeq
  <2>3. PICK f1 \in Frame : f1 = [a EXCEPT !.phone = walk.list[a.pos]]
    BY <1>4, <2>2 DEF Frame
  <2>4. PICK f2 \in Frame : f2 = [f1 EXCEPT !.pos = a.pos + 1]
    <3>1. a.pos + 1 \in Nat
      BY <1>4
    <3> QED
      BY ONLY f1 \in Frame, <3>1 DEF Frame
  <2>5. f1.pos = a.pos
    BY <1>4, <2>3 DEF Frame
  <2>6. pc' = [pc EXCEPT !["phone"] = "add"] /\ at' = [at EXCEPT !["phone"] = f2]
    BY <1>3, <1>7, <2>3, <2>4, <2>5 DEF NextPhone, Goto, Local
  <2>7. /\ f2.list = a.list /\ f2.pos = a.pos + 1 /\ f2.phone = walk.list[a.pos] /\ ~f2.own
    BY <1>3, <1>4, <2>3, <2>4 DEF Frame
  <2>8. at'["phone"] = f2 /\ pc'["phone"] = "add"
    BY <2>6 DEF Typed, TypeOK, Thread
  <2>9. at'["phone"].pos - 2 = n /\ n < Len(walk.list) /\ n + 1 = a.pos
    BY <1>3, <1>4, <1>7, <2>7, <2>8
  <2>10. OnTheWay'
    BY <1>1, <1>3, <2>7, <2>8, <2>9 DEF OnTheWay, Sending
  <2> QED
    BY <1>1, <1>5, <2>8, <2>10 DEF WalkKept
<1> QED
  BY <1>6, <1>7

\* The walk of a phone that is handled, or handed on.
LEMMA PhoneWalk ==
  ASSUME Typed, Typed', WalkKept,
         Add("phone") \/ Added("phone") \/ Gen1("phone") \/ InstallOp("phone") \/ Gen2("phone")
         \/ Gen2Write("phone") \/ Put("phone")
  PROVE  WalkKept'
<1> DEFINE a == at["phone"]
           D == devs[a.dev]
<1>1. walk'.list = walk.list /\ walk'.ready = walk.ready
      /\ UNCHANGED <<lists, device>>
  BY ZenonT(60), WalkTyped DEF Add, Added, Gen1, InstallOp, Gen2, Gen2Write, Put, Reached, masterVars, history,
         Typed, TypeOK
<1> SUFFICES ASSUME walk.ready PROVE WalkKept'
  BY <1>1 DEF WalkKept
<1>2. pc["phone"] \in Adding \cup Sending /\ pc["phone"] \notin {"idle", "next"}
  BY Zenon DEF Add, Added, Gen1, InstallOp, Gen2, Gen2Write, Put, From, Adding, Sending
<1>3. OnTheWay
  BY <1>2 DEF WalkKept
<1>4. /\ ~a.own /\ device[a.phone] # 0 /\ devs[device[a.phone]].proxy # 0
      /\ pc["phone"] \in Sending => D.proxy # 0
  <2>1. /\ ~a.own /\ a.pos - 2 \in 0..Len(walk.list) /\ a.pos - 2 < Len(walk.list)
        /\ a.phone = walk.list[a.pos - 2 + 1] /\ (pc["phone"] \in Sending => D.proxy # 0)
    BY <1>2, <1>3 DEF OnTheWay
  <2>2. a.pos - 2 + 1 \in 1..Len(walk.list)
    <3>1. a.pos \in Nat /\ Len(walk.list) \in Nat
      BY FrameFields, WalkTyped, LenProperties DEF Typed, Thread
    <3> QED
      BY SMTT(30), <2>1, <3>1
  <2> QED
    BY <2>1, <2>2 DEF WalkKept
<1>5. pc'["master"] = pc["master"] /\ at'["master"] = at["master"]
  BY ZenonT(60) DEF Add, Added, Gen1, InstallOp, Gen2, Gen2Write, Put, Goto, Local, Stay, Handled, Raise,
         ReadNumber, Typed, TypeOK, Thread
<1>6. CASE Add("phone")
  <2>1. a \in Frame /\ device[a.phone] \in 0..Len(devs)
    BY <1>2, Here, FrameFields DEF Typed, TypeOK, Thread
  <2>2. PICK f1 \in Frame : f1 = [a EXCEPT !.dev = device[a.phone]]
    BY ONLY <2>1 DEF Frame
  <2>3. PICK f2 \in Frame : f2 = [f1 EXCEPT !.own = FALSE]
    BY ONLY f1 \in Frame DEF Frame
  <2>4. at' = [at EXCEPT !["phone"] = f2] /\ pc' = [pc EXCEPT !["phone"] = "added"]
        /\ UNCHANGED <<devs, walk>>
    BY <1>4, <1>6, <2>2, <2>3 DEF Add, Local, Goto, objectVars, history
  <2>5. f2.list = a.list /\ f2.pos = a.pos /\ f2.phone = a.phone /\ ~f2.own
    BY <2>1, <2>2, <2>3 DEF Frame
  <2>6. at'["phone"] = f2 /\ pc'["phone"] = "added"
    BY <2>4 DEF Typed, TypeOK, Thread
  <2> QED
    BY <1>1, <1>2, <1>5, <2>4, <2>5, <2>6, WalkGoesOn DEF Sending
<1>7. CASE Added("phone")
  <2>1. UNCHANGED devs
    BY <1>7 DEF Added, objectVars
  <2>2. CASE a.cmd = 0
    <3>1. Handled("phone") /\ walk'.reached = Append(walk.reached, a.phone)
      BY <1>7, <2>2, WalkTyped DEF Added, Reached, Typed, TypeOK
    <3>2. ~at'["phone"].own
      BY <3>1, FrameFields DEF Handled, Local, Typed, TypeOK, Thread, Frame
    <3> QED
      BY <1>1, <1>2, <1>5, <2>1, <3>1, <3>2, HandledFrame, WalkGoesOn DEF Thread
  <2>3. CASE a.cmd # 0
    <3>1. walk' = walk /\ pc'["phone"] \in Sending
          /\ at'["phone"].list = a.list /\ at'["phone"].pos = a.pos /\ at'["phone"].phone = a.phone
          /\ ~at'["phone"].own /\ at'["phone"].dev = device[a.phone]
      BY <1>4, <1>7, <2>3, AddedLocal DEF Thread, Sending
    <3> QED
      BY <1>1, <1>2, <1>4, <1>5, <2>1, <3>1, WalkGoesOn
  <2> QED
    BY <2>2, <2>3
<1>8. CASE Gen1("phone") \/ Gen2("phone")
  <2>1. UNCHANGED <<devs, walk>> /\ pc["phone"] \in Sending
    BY <1>8 DEF Gen1, Gen2, objectVars, From, Sending
  <2>2. ReadNumber("phone") /\ pc'["phone"] \in Sending
    BY <1>4, <1>8, <2>1 DEF Gen1, Gen2, Goto, Sending, Typed, TypeOK, Thread
  <2> QED
    BY <1>1, <1>2, <1>4, <1>5, <2>1, <2>2, ReadNumberTyped, WalkGoesOn DEF Thread
<1>9. CASE InstallOp("phone") \/ Gen2Write("phone")
  <2>1. WriteNumber("phone") /\ pc["phone"] \in Sending
    BY <1>9 DEF InstallOp, Gen2Write, From, Sending
  <2>2. \A d \in 1..Len(devs) : devs'[d].proxy = devs[d].proxy
    BY <2>1, WriteNumberTyped DEF Thread
  <2>3. a.dev \in 1..Len(devs)
    BY <2>1, Here DEF Sending, Thread
  <2>4. CASE at' = at /\ walk' = walk /\ pc'["phone"] \in Sending
    BY <1>1, <1>2, <1>4, <1>5, <2>1, <2>2, <2>3, <2>4, WalkGoesOn
  <2>5. CASE Handled("phone") /\ Reached("phone")
    <3>1. ~at'["phone"].own /\ walk'.reached = Append(walk.reached, a.phone)
      BY <2>5, FrameFields, WalkTyped DEF Handled, Local, Reached, Typed, TypeOK, Thread, Frame
    <3> QED
      BY <1>1, <1>2, <1>5, <2>2, <2>5, <3>1, HandledFrame, WalkGoesOn DEF Thread
  <2> QED
    BY <1>9, <2>4, <2>5 DEF InstallOp, Gen2Write, Goto, Stay, Sending, Typed, TypeOK, Thread
<1>10. CASE Put("phone")
  <2>1. Handled("phone") /\ Reached("phone")
    BY Zenon, <1>4, <1>10 DEF Put, From, Sending
  <2>2. \A d \in 1..Len(devs) : devs'[d].proxy = devs[d].proxy
    BY <1>10, PutQueue DEF Thread
  <2>3. ~at'["phone"].own /\ walk'.reached = Append(walk.reached, a.phone)
    BY <2>1, FrameFields, WalkTyped DEF Handled, Local, Reached, Typed, TypeOK, Thread, Frame
  <2> QED
    BY SMTT(30), <1>1, <1>2, <1>5, <2>1, <2>2, <2>3, HandledFrame, WalkGoesOn DEF Thread
<1> QED
  BY SMTT(30), <1>6, <1>7, <1>8, <1>9, <1>10

\* The master thread makes devices and proxies, the proxies run commands.
LEMMA MasterThreadWalk ==
  ASSUME Typed, Typed', WalkKept, ThreadStep("master")
  PROVE  WalkKept'
<1> DEFINE a == at["master"]
<1>1. pc'["phone"] = pc["phone"] /\ at'["phone"] = at["phone"] /\ lists' = lists
      /\ pc["master"] \notin {"fill", "map"} /\ pc'["master"] \notin {"fill", "map"}
  <2>1. UNCHANGED lists
    BY Zenon DEF ThreadStep, NextPhone, Add, AddNew, MaybeCreate, Create, Start, Added, Gen1, InstallOp,
           Gen2, Gen2Write, Put, masterVars
  <2>2. pc'["phone"] = pc["phone"] /\ pc["master"] \notin {"fill", "map"}
        /\ pc'["master"] \notin {"fill", "map"}
    <3>1. CASE NextPhone("master") \/ Add("master") \/ AddNew("master")
      BY Zenon, <3>1 DEF NextPhone, Add, AddNew, From, Goto, Raise, Typed, TypeOK, Thread
    <3>2. CASE MaybeCreate("master") \/ Create("master") \/ Start("master")
      BY Zenon, <3>2 DEF MaybeCreate, Create, Start, From, Goto, Raise, Typed, TypeOK, Thread
    <3>3. CASE Added("master") \/ Gen1("master") \/ InstallOp("master")
      BY Zenon, <3>3 DEF Added, Gen1, InstallOp, From, Goto, Handled, Typed, TypeOK, Thread
    <3>4. CASE Gen2("master") \/ Gen2Write("master") \/ Put("master")
      BY Zenon, <3>4 DEF Gen2, Gen2Write, Put, From, Goto, Handled, Raise, Typed, TypeOK, Thread
    <3> QED
      BY <3>1, <3>2, <3>3, <3>4 DEF ThreadStep
  <2>3. at'["phone"] = at["phone"]
    <3>1. CASE NextPhone("master") \/ Add("master") \/ AddNew("master") \/ MaybeCreate("master")
               \/ Create("master") \/ Start("master")
      BY Zenon, <3>1 DEF NextPhone, Add, AddNew, MaybeCreate, Create, Start, Local, Stay, Raise,
                  Typed, TypeOK, Thread
    <3>2. CASE Added("master") \/ Gen1("master") \/ InstallOp("master") \/ Gen2("master")
               \/ Gen2Write("master") \/ Put("master")
      BY <3>2 DEF Added, Gen1, InstallOp, Gen2, Gen2Write, Put, Local, Stay, Handled, Raise,
                  ReadNumber, Typed, TypeOK, Thread
    <3> QED
      BY <3>1, <3>2 DEF ThreadStep
  <2> QED
    BY SMTT(30), <2>1, <2>2, <2>3
<1>2. walk' = walk
  BY Zenon DEF ThreadStep, NextPhone, Add, AddNew, MaybeCreate, Create, Start, Added, Gen1, InstallOp,
         Gen2, Gen2Write, Put, Reached, history
<1>3. CASE Add("master")
  <2>1. UNCHANGED <<device, devs>> /\ pc["master"] = "add"
    BY <1>3 DEF Add, masterVars, objectVars, From
  <2>2. at'["master"].phone = a.phone /\ (pc'["master"] = "new" => device[a.phone] = 0)
    BY <1>3, FrameFields DEF Add, Local, Goto, Typed, TypeOK, Thread, Frame
  <2> QED
    BY <1>1, <1>2, <2>1, <2>2, WalkStays
<1>4. CASE AddNew("master")
  <2> DEFINE r == [subId |-> 0, lastSub |-> 0, minSub |-> 0, proxy |-> 0]
  <2>1. pc["master"] = "new" /\ pc'["master"] # "new"
    BY <1>4 DEF AddNew, From, Goto, Raise, Typed, TypeOK, Thread
  <2>2. \A s \in Phone : device'[s] = device[s] \/ s = a.phone
    BY <1>4 DEF AddNew, Typed, TypeOK
  <2>3. r \in Device /\ devs \in Seq(Device)
    BY Lengths DEF Device, Typed, TypeOK
  <2>4. \A d \in 1..Len(devs) : devs'[d] = devs[d]
    <3>1. CASE devs' = devs
      BY <3>1
    <3>2. CASE devs' = Append(devs, r)
      BY <2>3, <3>2, AppendProperties
    <3> QED
      BY <1>4, <3>1, <3>2 DEF AddNew
  <2> QED
    BY <1>1, <1>2, <2>1, <2>2, <2>4, WalkStays
<1>5. CASE Create("master")
  <2>1. UNCHANGED device /\ pc["master"] = "create" /\ pc'["master"] # "new"
    BY <1>5 DEF Create, masterVars, From, Goto, Typed, TypeOK, Thread
  <2>2. a.dev \in 1..Len(devs)
    BY <2>1, Here DEF Adding, Thread
  <2>3. Len(proxies') # 0
    <3> DEFINE p == [phone |-> a.phone, started |-> FALSE, on |-> TRUE, queue |-> <<>>, run |-> 0]
    <3>1. p \in Proxy /\ proxies \in Seq(Proxy)
      <4>1. a.phone \in Phone /\ Len(cmds) \in Nat
        BY <2>1, Here, Lengths DEF Adding, Thread, Typed
      <4> QED
        BY <4>1 DEF Proxy, Typed, TypeOK
    <3>2. Len(proxies') = Len(proxies) + 1 /\ Len(proxies) \in Nat
      BY <1>5, <3>1, AppendProperties DEF Create
    <3> QED
      BY <3>2
  <2>4. \A d \in 1..Len(devs) : devs[d].proxy # 0 => devs'[d].proxy # 0
    <3> TAKE d \in 1..Len(devs)
    <3>1. devs[d] \in Device /\ DOMAIN devs = 1..Len(devs)
      BY Lengths, ElementOfSeq DEF Typed, TypeOK
    <3>2. devs' = [devs EXCEPT ![a.dev].proxy = Len(proxies')]
      BY <1>5 DEF Create
    <3> QED
      BY <2>2, <2>3, <3>1, <3>2 DEF Device
  <2> QED
    BY <1>1, <1>2, <2>1, <2>4, WalkStays
<1>6. CASE InstallOp("master") \/ Gen2Write("master") \/ Put("master")
  <2>1. UNCHANGED device /\ pc'["master"] # "new" /\ pc["master"] \in Sending
    BY Zenon, <1>6 DEF InstallOp, Gen2Write, Put, masterVars, From, Goto, Handled, Raise, Sending,
       Typed, TypeOK, Thread
  <2>2. \A d \in 1..Len(devs) : devs'[d].proxy = devs[d].proxy
    BY <1>6, <2>1, WriteNumberTyped, PutQueue DEF InstallOp, Gen2Write, Thread
  <2> QED
    BY SMTT(30), <1>1, <1>2, <2>1, <2>2, WalkStays
<1>7. CASE NextPhone("master") \/ MaybeCreate("master") \/ Start("master") \/ Added("master")
           \/ Gen1("master") \/ Gen2("master")
  <2>1. UNCHANGED <<device, devs>> /\ pc'["master"] # "new"
    BY ZenonT(60), <1>7 DEF NextPhone, MaybeCreate, Start, Added, Gen1, Gen2, masterVars, objectVars, From,
       Goto, Handled, Raise, Typed, TypeOK, Thread
  <2> QED
    BY <1>1, <1>2, <2>1, WalkStays
<1> QED
  BY <1>3, <1>4, <1>5, <1>6, <1>7 DEF ThreadStep

LEMMA MasterWalk ==
  ASSUME Typed, Typed', WalkKept,
         Ask \/ ProcessIncome \/ MapPhone \/ Scan \/ \E g \in DOMAIN proxies : ProxyStep(g)
  PROVE  WalkKept'
<1>1. UNCHANGED <<lists, device, devs, walk>> /\ pc'["phone"] = pc["phone"] /\ at'["phone"] = at["phone"]
  BY DEF Ask, ProcessIncome, MapPhone, Scan, ProxyStep, Take, Run, masterVars, objectVars, history,
         Goto, Local, Stay, Typed, TypeOK, Thread
<1>2. pc'["master"] = "new" => pc["master"] = "new" /\ at'["master"] = at["master"]
  BY DEF Ask, ProcessIncome, MapPhone, Scan, ProxyStep, Take, Run, Goto, From, Typed, TypeOK, Thread
<1>3. pc'["master"] \in {"fill", "map"} => pc["master"] \in {"fill", "map"}
  BY DEF Ask, ProcessIncome, MapPhone, Scan, ProxyStep, Take, Run, Goto, From, Typed, TypeOK, Thread
<1>4. walk.ready /\ pc["phone"] # "idle" => (pc["master"] \in {"fill", "map"} => at["phone"].list # Len(lists))
  BY DEF WalkKept, OnTheWay
<1> QED
  BY <1>1, <1>2, <1>3, <1>4, WalkStays

\* Another list is begun and filled: the walk keeps its own.
LEMMA ListWalk ==
  ASSUME Typed, Typed', WalkKept, ScanDevicesResponse \/ ListPhone
  PROVE  WalkKept'
<1> DEFINE l == at["phone"].list
<1>1. UNCHANGED <<device, devs, walk>> /\ pc'["phone"] = pc["phone"] /\ at'["phone"] = at["phone"]
      /\ pc'["master"] # "new"
  BY DEF ScanDevicesResponse, ListPhone, objectVars, history, Goto, Local, Stay, Typed, TypeOK, Thread
<1>2. ASSUME walk.ready, pc["phone"] # "idle"
      PROVE  lists'[l] = lists[l] /\ (pc'["master"] \in {"fill", "map"} => l # Len(lists'))
  <2>1. OnTheWay
    BY <1>2 DEF WalkKept
  <2>2. l \in 1..Len(lists) /\ Len(lists) \in Nat /\ lists \in Seq(Seq(Phone))
        /\ (pc["master"] \in {"fill", "map"} => l # Len(lists))
    <3>1. pc["phone"] \notin {"idle", "dead"}
      BY <2>1 DEF OnTheWay, Sending
    <3> QED
      BY <2>1, <3>1, Lengths DEF OnTheWay, Typed, TypeOK, Places, Placed, Thread
  <2>3. CASE ScanDevicesResponse
    <3>1. lists' = Append(lists, <<>>) /\ <<>> \in Seq(Phone)
      BY <2>3 DEF ScanDevicesResponse
    <3>2. Len(lists') = Len(lists) + 1 /\ lists'[l] = lists[l]
      BY <2>2, <3>1, AppendProperties
    <3> QED
      BY <2>2, <3>2
  <2>4. CASE ListPhone
    <3>1. l # Len(lists)
      BY <2>2, <2>4 DEF ListPhone, From
    <3>2. Len(lists') = Len(lists) /\ lists'[l] = lists[l]
      <4>1. CASE lists' = lists
        BY <4>1
      <4>2. CASE lists' # lists
        <5>1. PICK x : lists' = [lists EXCEPT ![Len(lists)] = x]
          BY <2>4, <4>2 DEF ListPhone
        <5> QED
          BY <2>2, <3>1, <5>1, Numbers, LenProperties DEF Typed, TypeOK
      <4> QED
        BY <4>1, <4>2
    <3> QED
      BY <3>1, <3>2
  <2> QED
    BY <2>3, <2>4
<1> QED
  BY <1>1, <1>2, WalkStays

LEMMA BeginWalkKept ==
  ASSUME Typed, Typed', BeginWalk
  PROVE  WalkKept'
<1> DEFINE list == Last(lists)
<1>1. UNCHANGED <<lists, device, devs>> /\ pc'["master"] = pc["master"]
      /\ pc'["phone"] = "next" /\ at'["master"] = at["master"]
  BY DEF BeginWalk, masterVars, Goto, Local, Typed, TypeOK, Thread
<1>2. walk'.list = list /\ walk'.reached = <<>>
      /\ (walk'.ready => pc["master"] \notin {"fill", "map", "new"} /\ Ready(list))
  BY DEF BeginWalk
<1>3. list \in Seq(Phone) /\ list = lists[Len(lists)] /\ DOMAIN list = 1..Len(list)
      /\ Len(list) \in Nat
  BY LastList, LenProperties
<1>4. at'["phone"].list = Len(lists) /\ at'["phone"].pos = 1 /\ ~at'["phone"].own
  <2> DEFINE c == IF Head(session.walks) = "update" THEN 0 ELSE Len(cmds')
             f == [Nowhere EXCEPT !.list = Len(lists), !.pos = 1, !.cmd = c]
  <2>1. at'["phone"] = f
    BY DEF BeginWalk, Local, Typed, TypeOK, Thread
  <2>2. f.list = Len(lists) /\ f.pos = 1 /\ ~f.own
    BY DEF Nowhere
  <2> HIDE DEF f
  <2> QED
    BY <2>1, <2>2
<1> SUFFICES ASSUME walk'.ready PROVE WalkKept'
  BY DEF WalkKept
<1>5. OnTheWay'
  <2>1. at'["phone"].pos - 1 = 0 /\ Len(walk'.reached) = 0 /\ 0 \in 0..Len(walk'.list)
    BY <1>2, <1>3, <1>4
  <2>2. lists'[at'["phone"].list] = walk'.list /\ pc'["master"] \notin {"fill", "map"}
    BY <1>1, <1>2, <1>3, <1>4
  <2> QED
    BY <1>1, <1>4, <2>1, <2>2 DEF OnTheWay, Sending
<1>6. \A i \in 1..Len(list) : device[list[i]] # 0 /\ devs[device[list[i]]].proxy # 0
  BY <1>2, <1>3 DEF Ready
<1> QED
  BY <1>1, <1>2, <1>5, <1>6 DEF WalkKept

WalkInv == KnownInv /\ WalkKept

LEMMA NextWalk == WalkInv /\ [Next]_vars => WalkInv'
<1> SUFFICES ASSUME WalkInv, [Next]_vars PROVE WalkInv'
  OBVIOUS
<1>1. KnownInv'
  BY NextKnown DEF WalkInv
<1>2. Typed /\ Typed' /\ WalkKept
  BY <1>1 DEF WalkInv, KnownInv
<1>3. ASSUME BeginWalk PROVE WalkKept'
  BY <1>2, <1>3, BeginWalkKept
<1>4. ASSUME ThreadStep("phone") PROVE WalkKept'
  <2>1. CASE walk.ready
    <3>1. pc["phone"] \notin {"new", "maybe", "create", "start"}
      BY <1>2, <2>1 DEF WalkKept, OnTheWay, Sending
    <3>2. NextPhone("phone") \/ Add("phone") \/ Added("phone") \/ Gen1("phone")
          \/ InstallOp("phone") \/ Gen2("phone") \/ Gen2Write("phone") \/ Put("phone")
      BY <1>4, <3>1 DEF ThreadStep, AddNew, MaybeCreate, Create, Start, From
    <3> QED
      BY <1>2, <3>2, NextPhoneWalk, PhoneWalk
  <2>2. CASE ~walk.ready
    <3>1. ~walk'.ready
      BY Zenon, <1>2, <1>4, <2>2 DEF ThreadStep, NextPhone, Add, AddNew, MaybeCreate, Create, Start, Added,
         Gen1, InstallOp, Gen2, Gen2Write, Put, Reached, history, Typed, TypeOK
    <3> QED
      BY SMTT(30), <3>1 DEF WalkKept
  <2> QED
    BY <2>1, <2>2
<1>5. ASSUME ThreadStep("master") PROVE WalkKept'
  BY <1>2, <1>5, MasterThreadWalk
<1>6. ASSUME NEW t \in Thread, NEW s \in Phone, CheckTimeout(t, s) PROVE WalkKept'
  <2>1. ~walk'.ready
    BY <1>2, <1>6 DEF CheckTimeout, Typed, TypeOK
  <2> QED
    BY <2>1 DEF WalkKept
<1>7. ASSUME ScanDevicesResponse \/ ListPhone PROVE WalkKept'
  BY <1>2, <1>7, ListWalk
<1>8. ASSUME Ask \/ ProcessIncome \/ MapPhone \/ Scan \/ \E g \in DOMAIN proxies : ProxyStep(g)
      PROVE  WalkKept'
  BY <1>2, <1>8, MasterWalk
<1>9. ASSUME UNCHANGED vars PROVE WalkKept'
  <2>1. UNCHANGED <<lists, device, devs, pc, at, walk>>
    BY <1>9 DEF vars, masterVars, objectVars, history
  <2> QED
    BY <1>2, <2>1 DEF WalkKept, OnTheWay
<1>10. WalkKept'
  BY <1>3, <1>4, <1>5, <1>6, <1>7, <1>8, <1>9 DEF Next, MasterStep, Thread
<1> QED
  BY <1>1, <1>10 DEF WalkInv

\* A walk over a complete list whose phones have proxies reaches each of them
\* once and in order, whatever the master thread finds and makes meanwhile,
\* unless a timer expires (the concurrency of the comment at phone.py:448).
THEOREM WalkReaches == Spec => []WalkReachesAll
<1>1. Init => WalkInv
  <2> SUFFICES ASSUME Init PROVE WalkInv
    OBVIOUS
  <2>1. WalkKept
    BY DEF Init, WalkKept, NoWalk
  <2> QED
    BY <2>1, InitKnown DEF WalkInv
<1>2. WalkInv => WalkReachesAll
  BY DEF WalkInv, WalkKept, OnTheWay, Sending, WalkReachesAll
<1> QED
  BY <1>1, <1>2, NextWalk, PTL DEF Spec

-----------------------------------------------------------------------------
(* Numbers: min_sub_command_id tells the replies of a stopped proxy apart *)

Holding == (Adding \ {"add", "new"}) \cup Sending
Drawing == {"gen1w", "gen2w", "put"}

\* What a thread holds belongs to its phone: the device, unless two threads
\* made one each, and its proxy.
ProxyOf(d, s) == devs[d].proxy # 0 => proxies[devs[d].proxy].phone = s
Owned(t) ==
  /\ \A s \in Phone : device[s] = at[t].dev => s = at[t].phone
  /\ at[t].phone \notin raced => device[at[t].phone] = at[t].dev
  /\ ProxyOf(at[t].dev, at[t].phone)
Owners ==
  /\ \A s, x \in Phone : device[s] = device[x] /\ device[s] # 0 => s = x
  /\ \A s \in Phone : device[s] # 0 => ProxyOf(device[s], s)
  /\ \A t \in Thread : pc[t] \in Holding => Owned(t)
  /\ \A t, u \in Thread : pc[t] \in Holding /\ pc[u] \in Holding /\ at[t].dev = at[u].dev
                          => at[t].phone = at[u].phone

\* The proxy of a device is no other's, and may run.
Live ==
  \A d \in 1..Len(devs) : devs[d].proxy # 0 =>
    /\ proxies[devs[d].proxy].on
    /\ \A e \in 1..Len(devs) : devs[e].proxy = devs[d].proxy => e = d

\* The numbers of a device are in order, a thread has drawn the next one, and
\* two threads do not draw from the same device at once.
Ordered(d) == devs[d].minSub <= devs[d].lastSub /\ devs[d].lastSub <= devs[d].subId
Drawn(t) ==
  LET d == devs[at[t].dev]
  IN IF pc[t] = "put" THEN cmds[at[t].cmd].sub = d.subId /\ d.lastSub < d.subId
     ELSE at[t].num = d.subId + 1
Counting ==
  /\ \A s \in Phone \ raced : device[s] # 0 => Ordered(device[s])
  /\ \A t \in Thread : pc[t] \in Drawing /\ at[t].phone \notin raced =>
       /\ Drawn(t)
       /\ ~(pc[Other(t)] \in Drawing /\ at[Other(t)].dev = at[t].dev)

\* A command of one thread is not the other's.
Apart == at["phone"].cmd # 0 => at["phone"].cmd # at["master"].cmd

\* The first phone of a walk is behind the position.
Begun == pc["phone"] \in Adding \cup Sending => at["phone"].pos > 1

\* Command c went, or will answer, with number n from proxy g: it is in the
\* queue, runs, or its reply is in queue_in.
InProxy(g, c) == proxies[g].run = c \/ \E i \in DOMAIN proxies[g].queue : proxies[g].queue[i] = c
IsReply(m, g, c, n) == m.type = "reply" /\ m.proxy = g /\ m.cmd = c /\ m.sub = n
Replied(g, c, n) == \E i \in DOMAIN queueIn : IsReply(queueIn[i], g, c, n)
Out(g, c, n) == (InProxy(g, c) /\ n = cmds[c].sub) \/ Replied(g, c, n)

\* Such a command is numbered again only by the phone thread, for a later phone.
Passed(c) ==
  /\ at["master"].cmd # c
  /\ at["phone"].cmd = c => at["phone"].pos > 2 \/ (at["phone"].pos = 2 /\ pc["phone"] = "next")
\* Its number is above min_sub_command_id exactly as long as its proxy is the
\* current one.
Above(g, n) ==
  LET d == devs[device[proxies[g].phone]]
  IN /\ n <= d.lastSub
     /\ ~proxies[g].on => n <= d.minSub
     /\ d.proxy = g => n > d.minSub
Judged(g, c, n) == c \notin shared /\ proxies[g].phone \notin raced => Above(g, n)
Handing ==
  /\ \A g \in 1..Len(proxies), c \in 1..Len(cmds), n \in Nat :
       Out(g, c, n) => Passed(c) /\ Judged(g, c, n)
  /\ \A i \in DOMAIN queueIn : queueIn[i].type = "reply" /\ queueIn[i].proxy # 0 =>
       queueIn[i].phone = proxies[queueIn[i].proxy].phone

FilterInv == KnownInv /\ Owners /\ Live /\ Counting /\ Apart /\ Begun /\ Handing

-----------------------------------------------------------------------------
(* What the steps that make or start an object do to the others *)

LEMMA CreateShape ==
  ASSUME Typed, NEW t \in Thread, Create(t)
  PROVE  LET n == Len(proxies) + 1
         IN /\ at[t].dev \in 1..Len(devs) /\ at[t].phone \in Phone
            /\ Len(proxies) \in Nat /\ Len(proxies)' = n /\ Len(devs)' = Len(devs)
            /\ \A g \in 1..Len(proxies) : proxies'[g] = proxies[g] /\ g # n
            /\ proxies'[n].phone = at[t].phone /\ proxies'[n].on
            /\ proxies'[n].queue = <<>> /\ proxies'[n].run = 0
            /\ \A d \in 1..Len(devs) :
                 /\ devs'[d].proxy = IF d = at[t].dev THEN n ELSE devs[d].proxy
                 /\ devs'[d].subId = devs[d].subId /\ devs'[d].lastSub = devs[d].lastSub
                 /\ devs'[d].minSub = devs[d].minSub
<1> DEFINE D == at[t].dev
           n == Len(proxies) + 1
           p == [phone |-> at[t].phone, started |-> FALSE, on |-> TRUE, queue |-> <<>>, run |-> 0]
<1>1. /\ D \in 1..Len(devs) /\ at[t].phone \in Phone
      /\ proxies' = Append(proxies, p) /\ devs' = [devs EXCEPT ![D].proxy = Len(proxies')]
  BY Here DEF Create, From, Adding
<1>2. p.on /\ p.phone = at[t].phone /\ p.queue = <<>> /\ p.run = 0
  OBVIOUS
<1> HIDE DEF p
<1>3. Len(proxies) \in Nat /\ \A g \in 1..Len(proxies) : g # n
  BY Lengths DEF Typed
<1>4. Len(proxies') = n /\ proxies'[n] = p /\ \A g \in 1..Len(proxies) : proxies'[g] = proxies[g]
  BY <1>1, AppendProperties DEF Typed, TypeOK
<1>5. devs' = [devs EXCEPT ![D].proxy = n]
  BY <1>1, <1>4
<1>6. DOMAIN devs = 1..Len(devs) /\ \A d \in 1..Len(devs) : devs[d] \in Device
  BY Lengths, ElementOfSeq DEF Typed, TypeOK
<1>7. /\ Len(devs') = Len(devs)
      /\ \A d \in 1..Len(devs) : devs'[d] = IF d = D THEN [devs[d] EXCEPT !.proxy = n] ELSE devs[d]
  BY <1>5, <1>6
<1> QED
  BY <1>1, <1>2, <1>3, <1>4, <1>6, <1>7 DEF Device

LEMMA AddNewShape ==
  ASSUME Typed, NEW t \in Thread, AddNew(t), at[t].phone \in known
  PROVE  LET n == Len(devs) + 1
             s == at[t].phone
         IN /\ pc[t] = "new" /\ s \in Phone /\ UNCHANGED proxies
            /\ Len(devs) \in Nat /\ Len(devs)' = n
            /\ devs'[n] = [subId |-> 0, lastSub |-> 0, minSub |-> 0, proxy |-> 0]
            /\ \A d \in 1..Len(devs) : devs'[d] = devs[d] /\ d # n
            /\ device' = [device EXCEPT ![s] = n]
            /\ raced' = IF device[s] # 0 THEN raced \cup {s} ELSE raced
            /\ pc'[t] = "maybe" /\ at'[t].dev = n /\ at'[t].phone = s
<1> DEFINE r == [subId |-> 0, lastSub |-> 0, minSub |-> 0, proxy |-> 0]
           f == [at[t] EXCEPT !.dev = Len(devs')]
           s == at[t].phone
<1>1. /\ pc[t] = "new" /\ UNCHANGED proxies /\ devs' = Append(devs, r)
      /\ device' = [device EXCEPT ![s] = Len(devs')]
      /\ raced' = IF device[s] # 0 THEN raced \cup {s} ELSE raced
      /\ pc' = [pc EXCEPT ![t] = "maybe"] /\ at' = [at EXCEPT ![t] = f]
  BY DEF AddNew, From, Goto, Local
<1>2. s \in Phone /\ at[t] \in Frame
  BY <1>1, Here, FrameFields DEF Adding, Typed
<1>3. f.dev = Len(devs') /\ f.phone = s
  BY <1>2 DEF Frame
<1> HIDE DEF r, f
<1>4. Len(devs) \in Nat /\ \A d \in 1..Len(devs) : d # Len(devs) + 1
  BY Lengths DEF Typed
<1>5. Len(devs') = Len(devs) + 1 /\ devs'[Len(devs) + 1] = r /\ \A d \in 1..Len(devs) : devs'[d] = devs[d]
  BY <1>1, AppendProperties DEF Typed, TypeOK
<1>6. at'[t] = f /\ pc'[t] = "maybe"
  BY <1>1 DEF Typed, TypeOK
<1> QED
  BY <1>1, <1>2, <1>3, <1>4, <1>5, <1>6 DEF r

LEMMA StartShape ==
  ASSUME Typed, NEW t \in Thread, Start(t)
  PROVE  /\ UNCHANGED <<device, devs, cmds, queueIn, raced, shared>> /\ Len(proxies)' = Len(proxies)
         /\ \A g \in 1..Len(proxies) :
              /\ proxies'[g].phone = proxies[g].phone /\ proxies'[g].on = proxies[g].on
              /\ proxies'[g].queue = proxies[g].queue /\ proxies'[g].run = proxies[g].run
<1> DEFINE G == devs[at[t].dev].proxy
<1>1. UNCHANGED <<device, devs, cmds, queueIn, raced, shared>>
  BY DEF Start, masterVars, history
<1>2. UNCHANGED proxies \/ proxies' = [proxies EXCEPT ![G].started = TRUE]
  BY DEF Start
<1>3. DOMAIN proxies = 1..Len(proxies) /\ \A g \in 1..Len(proxies) : proxies[g] \in Proxy
  BY Lengths, AllProxies DEF Typed
<1>4. CASE proxies' = [proxies EXCEPT ![G].started = TRUE]
  <2> HIDE DEF G
  <2>1. Len(proxies') = Len(proxies) /\ DOMAIN proxies' = DOMAIN proxies
    BY <1>4, Lengths DEF Typed
  <2>2. \A g \in 1..Len(proxies) : proxies'[g] = IF g = G THEN [proxies[g] EXCEPT !.started = TRUE] ELSE proxies[g]
    BY <1>3, <1>4
  <2> QED
    BY <1>1, <1>3, <2>1, <2>2 DEF Proxy
<1> QED
  BY <1>1, <1>2, <1>4

LEMMA HeldHere ==
  ASSUME Typed, NEW t \in Thread, pc[t] \in Holding
  PROVE  /\ at[t].phone \in Phone /\ at[t].dev \in 1..Len(devs) /\ devs[at[t].dev] \in Device
         /\ device[at[t].phone] \in 1..Len(devs)
<1>1. pc[t] \in Adding \cup Sending /\ pc[t] \notin {"add", "new"}
  BY DEF Holding, Adding, Sending
<1> QED
  BY <1>1, Here

LEMMA ProxyOfKept ==
  ASSUME Typed, Len(devs)' = Len(devs),
         \A d \in 1..Len(devs) : devs'[d].proxy \in {devs[d].proxy, 0},
         \A g \in 1..Len(proxies) : proxies'[g].phone = proxies[g].phone
  PROVE  \A d \in 1..Len(devs), s \in Phone : ProxyOf(d, s) => ProxyOf(d, s)'
<1> SUFFICES ASSUME NEW d \in 1..Len(devs), NEW s \in Phone, ProxyOf(d, s), devs'[d].proxy # 0
             PROVE  proxies'[devs'[d].proxy].phone = s
  BY DEF ProxyOf
<1>1. devs'[d].proxy = devs[d].proxy /\ devs[d].proxy \in 1..Len(proxies)
  BY DeviceProxy
<1> QED
  BY <1>1 DEF ProxyOf

\* A step after which a thread holds what it held, or the device of its phone.
LEMMA OwnersStay ==
  ASSUME Typed, Owners, UNCHANGED device, Len(devs)' = Len(devs),
         \A d \in 1..Len(devs) : devs'[d].proxy \in {devs[d].proxy, 0},
         \A g \in 1..Len(proxies) : proxies'[g].phone = proxies[g].phone,
         raced \subseteq raced',
         \A t \in Thread : pc'[t] \in Holding =>
           /\ at'[t].phone = at[t].phone /\ pc[t] \in Adding \cup Sending
           /\ \/ pc[t] \in Holding /\ at'[t].dev = at[t].dev
              \/ at'[t].dev = device[at[t].phone] /\ device[at[t].phone] # 0
  PROVE  Owners'
<1>1. \A d \in 1..Len(devs), s \in Phone : ProxyOf(d, s) => ProxyOf(d, s)'
  BY ProxyOfKept
<1>2. \A s \in Phone : device[s] # 0 => device[s] \in 1..Len(devs)
  BY Lengths DEF Typed, TypeOK
<1>3. ASSUME NEW t \in Thread, pc'[t] \in Holding
      PROVE  /\ at[t].phone \in Phone /\ at'[t].phone = at[t].phone /\ at'[t].dev \in 1..Len(devs)
             /\ \A s \in Phone : device[s] = at'[t].dev => s = at[t].phone
             /\ at[t].phone \notin raced => device[at[t].phone] = at'[t].dev
             /\ ProxyOf(at'[t].dev, at[t].phone)
  <2>1. at[t].phone \in Phone
    BY <1>3, Here
  <2>2. CASE pc[t] \in Holding /\ at'[t].dev = at[t].dev
    <3>1. at[t].dev \in 1..Len(devs)
      BY <2>2, HeldHere
    <3> QED
      BY <1>3, <2>1, <2>2, <3>1 DEF Owners, Owned
  <2>3. CASE at'[t].dev = device[at[t].phone] /\ device[at[t].phone] # 0
    BY <1>2, <1>3, <2>1, <2>3 DEF Owners
  <2> QED
    BY <1>3, <2>2, <2>3
<1>4. ASSUME NEW t \in Thread, pc'[t] \in Holding
      PROVE  Owned(t)'
  <2>1. (at[t].phone \in Phone /\ ProxyOf(at'[t].dev, at[t].phone))
    BY <1>3, <1>4
  <2>2. ASSUME NEW d, NEW s, d = at'[t].dev, s = at'[t].phone PROVE ProxyOf(d, s)'
    BY <1>1, <1>3, <1>4, <2>1, <2>2
  <2>3. devs'[at'[t].dev].proxy # 0 => proxies'[devs'[at'[t].dev].proxy].phone = at'[t].phone
    BY <2>2 DEF ProxyOf
  <2> QED
    BY <1>3, <1>4, <2>3 DEF Owned, ProxyOf
<1>5. ASSUME NEW t \in Thread, NEW u \in Thread, pc'[t] \in Holding, pc'[u] \in Holding,
             at'[t].dev = at'[u].dev
      PROVE  at'[t].phone = at'[u].phone
  <2>1. \A v \in Thread : pc'[v] \in Holding =>
          \/ pc[v] \in Holding /\ at'[v].dev = at[v].dev
          \/ at'[v].dev = device[at[v].phone]
    OBVIOUS
  <2>2. CASE /\ pc[t] \in Holding /\ at'[t].dev = at[t].dev
             /\ pc[u] \in Holding /\ at'[u].dev = at[u].dev
    BY <1>5, <2>2 DEF Owners
  <2>3. CASE at'[t].dev = device[at[t].phone]
    <3>1. \A s \in Phone : device[s] = at'[u].dev => s = at[u].phone
      BY <1>3, <1>5
    <3>2. at[t].phone \in Phone /\ at'[t].phone = at[t].phone /\ at'[u].phone = at[u].phone
      BY <1>3, <1>5
    <3> QED
      BY <1>5, <2>3, <3>1, <3>2
  <2>4. CASE at'[u].dev = device[at[u].phone]
    <3>1. \A s \in Phone : device[s] = at'[t].dev => s = at[t].phone
      BY <1>3, <1>5
    <3>2. at[u].phone \in Phone /\ at'[t].phone = at[t].phone /\ at'[u].phone = at[u].phone
      BY <1>3, <1>5
    <3> QED
      BY <1>5, <2>4, <3>1, <3>2
  <2> QED
    BY <1>5, <2>1, <2>2, <2>3, <2>4
<1>6. \A s \in Phone : device'[s] # 0 => (devs'[device'[s]].proxy # 0 => proxies'[devs'[device'[s]].proxy].phone = s)
  <2> SUFFICES ASSUME NEW s \in Phone, device[s] # 0
               PROVE  devs'[device[s]].proxy # 0 => proxies'[devs'[device[s]].proxy].phone = s
    OBVIOUS
  <2>1. ProxyOf(device[s], s) /\ device[s] \in 1..Len(devs)
    BY <1>2 DEF Owners
  <2>2. ASSUME NEW d, d = device[s] PROVE ProxyOf(d, s)'
    BY <1>1, <2>1, <2>2
  <2> QED
    BY <2>2 DEF ProxyOf
<1>7. \A s, x \in Phone : device'[s] = device'[x] /\ device'[s] # 0 => s = x
  BY DEF Owners
<1> QED
  BY <1>4, <1>5, <1>6, <1>7 DEF Owners, ProxyOf

\* A new device is nobody else's.
LEMMA AddNewOwners ==
  ASSUME Typed, Owners, NEW t \in Thread, AddNew(t)
  PROVE  Owners'
<1> DEFINE s == at[t].phone
           n == Len(devs) + 1
<1>1. CASE s \notin known
  <2>1. /\ UNCHANGED <<device, devs, proxies, raced>> /\ pc'[t] \notin Holding
        /\ \A u \in Thread \ {t} : pc'[u] = pc[u] /\ at'[u] = at[u]
    BY <1>1 DEF AddNew, Raise, Goto, Local, Typed, TypeOK, Holding, Adding, Sending
  <2>2. \A u \in Thread : pc'[u] \in Holding => pc[u] \in Holding /\ at'[u] = at[u]
    BY <2>1
  <2> QED
    BY <2>1, <2>2, OwnersStay DEF Holding
<1>2. CASE s \in known
  <2> DEFINE r == [subId |-> 0, lastSub |-> 0, minSub |-> 0, proxy |-> 0]
  <2>1. /\ pc[t] = "new" /\ UNCHANGED proxies /\ devs' = Append(devs, r)
        /\ device' = [device EXCEPT ![s] = Len(devs')]
        /\ raced' = IF device[s] # 0 THEN raced \cup {s} ELSE raced
        /\ pc' = [pc EXCEPT ![t] = "maybe"] /\ at' = [at EXCEPT ![t] = [at[t] EXCEPT !.dev = Len(devs')]]
    BY <1>2 DEF AddNew, From, Goto, Local
  <2>2. s \in Phone /\ at[t] \in Frame
    BY <2>1, Here, FrameFields DEF Adding, Typed
  <2>3. /\ Len(devs') = n /\ Len(devs) \in Nat /\ devs'[n].proxy = 0
        /\ \A d \in 1..Len(devs) : devs'[d] = devs[d]
    BY <2>1, AppendProperties DEF Typed, TypeOK
  <2>4. /\ at'[t].dev = n /\ at'[t].phone = s
        /\ \A u \in Thread \ {t} : pc'[u] = pc[u] /\ at'[u] = at[u]
    BY <2>1, <2>2, <2>3 DEF Typed, TypeOK, Frame
  <2>5. /\ device'[s] = n
        /\ \A x \in Phone : x # s => device'[x] = device[x]
        /\ \A x \in Phone : device[x] \in 0..Len(devs) /\ device[x] # n
        /\ \A x \in Phone : device[x] # 0 => device[x] \in 1..Len(devs)
    BY SMTT(30), <2>1, <2>2, <2>3 DEF Typed, TypeOK
  <2>4a. \A d \in 1..Len(devs) : d # n
    BY <2>3
  <2>6. \A u \in Thread \ {t} : pc'[u] \in Holding =>
          /\ pc[u] \in Holding /\ at'[u] = at[u] /\ at[u].dev \in 1..Len(devs) /\ at[u].dev # n
    BY <2>3, <2>4, <2>4a, HeldHere
  <2>7. \A x, y \in Phone : device'[x] = device'[y] /\ device'[x] # 0 => x = y
    BY <2>5 DEF Owners
  <2>8. \A x \in Phone : device'[x] # 0 => x = s \/ (ProxyOf(device[x], x) /\ device[x] \in 1..Len(devs))
    BY <2>5 DEF Owners
  <2>9. ASSUME NEW x \in Phone, device'[x] # 0, devs'[device'[x]].proxy # 0
        PROVE  proxies'[devs'[device'[x]].proxy].phone = x
    <3>1. x # s
      BY <2>3, <2>5, <2>9
    <3>2. devs'[device'[x]] = devs[device[x]]
      BY <2>3, <2>5, <2>8, <2>9, <3>1
    <3> QED
      BY <2>1, <2>5, <2>8, <2>9, <3>1, <3>2 DEF ProxyOf
  <2>10. ASSUME NEW u \in Thread, pc'[u] \in Holding
         PROVE  Owned(u)'
    <3>1. CASE u = t
      <4>1. /\ \A x \in Phone : device'[x] = at'[u].dev => x = at'[u].phone
            /\ device'[at'[u].phone] = at'[u].dev
            /\ devs'[at'[u].dev].proxy = 0
        BY <2>3, <2>4, <2>5, <3>1
      <4> QED
        BY <4>1 DEF Owned, ProxyOf
    <3>2. CASE u # t
      <4>1. pc[u] \in Holding /\ at'[u] = at[u] /\ at[u].dev \in 1..Len(devs) /\ at[u].dev # n
        BY <2>6, <2>10, <3>2
      <4>2. Owned(u) /\ at[u].phone \in Phone
        BY <4>1, Here DEF Owners, Holding
      <4>3. \A x \in Phone : device'[x] = at[u].dev => x = at[u].phone
        BY <2>5, <4>1, <4>2 DEF Owned
      <4>4. at[u].phone \notin raced' => device'[at[u].phone] = at[u].dev
        <5> SUFFICES ASSUME at[u].phone \notin raced' PROVE device'[at[u].phone] = at[u].dev
          OBVIOUS
        <5>1. device[at[u].phone] = at[u].dev
          BY <2>1, <4>2 DEF Owned
        <5>2. device[at[u].phone] # 0
          BY <4>1, <5>1
        <5>3. at[u].phone # s
          BY <2>1, <5>2
        <5> QED
          BY <2>5, <4>2, <5>1, <5>3
      <4>5. devs'[at[u].dev] = devs[at[u].dev]
        BY <2>3, <4>1
      <4> QED
        BY <2>1, <4>1, <4>2, <4>3, <4>4, <4>5 DEF Owned, ProxyOf
    <3> QED
      BY <3>1, <3>2
  <2>11. ASSUME NEW u \in Thread, NEW v \in Thread, pc'[u] \in Holding, pc'[v] \in Holding,
                at'[u].dev = at'[v].dev
         PROVE  at'[u].phone = at'[v].phone
    <3>1. CASE u = t \/ v = t
      BY <2>4, <2>6, <2>11, <3>1
    <3>2. CASE u # t /\ v # t
      BY <2>6, <2>11, <3>2 DEF Owners
    <3> QED
      BY <3>1, <3>2
  <2> QED
    BY <2>7, <2>9, <2>10, <2>11 DEF Owners, ProxyOf
<1> QED
  BY <1>1, <1>2

LEMMA CreateOwners ==
  ASSUME Typed, Owners, NEW t \in Thread, Create(t)
  PROVE  Owners'
<1> DEFINE D == at[t].dev
           s == at[t].phone
           n == Len(proxies) + 1
<1>1. /\ pc[t] = "create" /\ UNCHANGED <<device, raced, at>>
      /\ \A u \in Thread : pc'[u] \in Holding => pc[u] \in Holding
  BY DEF Create, From, Goto, Stay, masterVars, history, Typed, TypeOK, Holding, Adding, Sending
<1>2. D \in 1..Len(devs) /\ devs[D] \in Device /\ s \in Phone
  BY <1>1, Here DEF Adding
<1>3. /\ Len(proxies') = n /\ Len(proxies) \in Nat /\ proxies'[n].phone = s
      /\ \A g \in 1..Len(proxies) : proxies'[g] = proxies[g]
  <2> DEFINE p == [phone |-> at[t].phone, started |-> FALSE, on |-> TRUE, queue |-> <<>>, run |-> 0]
  <2>1. proxies' = Append(proxies, p) /\ p.phone = s
    BY DEF Create
  <2> HIDE DEF p
  <2> QED
    BY <2>1, AppendProperties DEF Typed, TypeOK
<1>4. \A d \in 1..Len(devs) : devs'[d].proxy = IF d = D THEN n ELSE devs[d].proxy
  <2>1. devs' = [devs EXCEPT ![D].proxy = n]
    BY <1>3 DEF Create
  <2> QED
    BY <1>2, <2>1, Numbers, Lengths, ElementOfSeq DEF Typed, TypeOK, Device
<1>5. \A d \in 1..Len(devs), x \in Phone : ProxyOf(d, x) /\ (d = D => x = s) =>
        (devs'[d].proxy # 0 => proxies'[devs'[d].proxy].phone = x)
  BY <1>3, <1>4, DeviceProxy DEF ProxyOf
<1>6. \A x \in Phone : device[x] # 0 => device[x] \in 1..Len(devs)
  BY Lengths DEF Typed, TypeOK
<1>7. Owned(t)
  BY <1>1 DEF Owners, Holding, Adding
<1>8a. pc[t] \in Holding
  BY <1>1 DEF Holding, Adding
<1>8. ASSUME NEW u \in Thread, pc'[u] \in Holding
      PROVE  Owned(u)'
  <2>1. /\ Owned(u) /\ at[u].phone \in Phone /\ at[u].dev \in 1..Len(devs)
        /\ at[u].dev = D => at[u].phone = s
    BY <1>1, <1>8, <1>8a, HeldHere DEF Owners
  <2> QED
    BY <1>1, <1>5, <2>1 DEF Owned, ProxyOf
<1>9. \A x \in Phone : device[x] # 0 =>
         (devs'[device[x]].proxy # 0 => proxies'[devs'[device[x]].proxy].phone = x)
  <2> SUFFICES ASSUME NEW x \in Phone, device[x] # 0
               PROVE  devs'[device[x]].proxy # 0 => proxies'[devs'[device[x]].proxy].phone = x
    OBVIOUS
  <2>1. ProxyOf(device[x], x) /\ device[x] \in 1..Len(devs) /\ (device[x] = D => x = s)
    BY <1>6, <1>7 DEF Owners, Owned
  <2> QED
    BY <1>5, <2>1
<1>10. \A u, v \in Thread : pc'[u] \in Holding /\ pc'[v] \in Holding /\ at'[u].dev = at'[v].dev
                            => at'[u].phone = at'[v].phone
  BY <1>1 DEF Owners
<1> QED
  BY <1>1, <1>8, <1>9, <1>10 DEF Owners, ProxyOf

LEMMA HandledLocal ==
  ASSUME Typed, NEW t \in Thread, Handled(t)
  PROVE  /\ pc'[t] = IF t = "master" THEN "ask" ELSE "next"
         /\ at'[t].cmd = IF t = "master" THEN 0 ELSE at[t].cmd
         /\ at'[t].pos = at[t].pos
         /\ \A u \in Thread \ {t} : at'[u] = at[u] /\ pc'[u] = pc[u]
<1> DEFINE c == IF t = "master" THEN 0 ELSE at[t].cmd
<1>1. at[t] \in Frame /\ at \in [Thread -> Frame]
  BY DEF Typed, TypeOK
<1>2. at'[t] = [[[[at[t] EXCEPT !.cmd = c] EXCEPT !.dev = 0] EXCEPT !.own = FALSE] EXCEPT !.num = 0]
  BY <1>1 DEF Handled, Local
<1>3. at'[t].cmd = c
  BY <1>1, <1>2 DEF Frame
<1> QED
  BY <1>3, HandledFrame

LEMMA RaiseLocal ==
  ASSUME Typed, NEW t \in Thread, Raise(t)
  PROVE  /\ pc'[t] \in {"dead", "idle"} /\ at'[t] = Nowhere
         /\ \A u \in Thread \ {t} : at'[u] = at[u] /\ pc'[u] = pc[u]
BY DEF Raise, Goto, Local, Typed, TypeOK

\* How a step of ThreadStep moves its thread.
LEMMA ThreadMoves ==
  ASSUME Typed, NEW t \in Thread, ThreadStep(t)
  PROVE  /\ \A u \in Thread \ {t} : pc'[u] = pc[u] /\ at'[u] = at[u]
         /\ pc'[t] \in Adding \cup Sending =>
              /\ at'[t].cmd = at[t].cmd
              /\ \/ pc[t] = "next" /\ pc'[t] = "add" /\ at'[t].pos = at[t].pos + 1
                 \/ /\ pc[t] \in Adding \cup Sending
                    /\ at'[t].pos = at[t].pos /\ at'[t].phone = at[t].phone
         /\ pc'[t] = "next" =>
              pc[t] \in Adding \cup Sending /\ at'[t].pos = at[t].pos /\ at'[t].cmd = at[t].cmd
         /\ pc'[t] \notin Adding \cup Sending \cup {"next"} => at'[t].cmd = 0
<1> DEFINE Done == Handled(t) \/ Raise(t)
<1>1. at[t] \in Frame
  BY DEF Typed, TypeOK
<1>2. CASE Done /\ pc[t] \in Adding \cup Sending
  <2>1. Nowhere.cmd = 0
    BY DEF Nowhere
  <2> QED
    BY <1>2, <2>1, HandledLocal, RaiseLocal DEF Adding, Sending, Thread
<1>3. CASE NextPhone(t)
  <2>1. CASE at[t].pos > Len(lists[at[t].list])
    BY <1>3, <2>1 DEF NextPhone, From, Goto, Local, Typed, TypeOK, Adding, Sending, Nowhere
  <2>2. CASE ~(at[t].pos > Len(lists[at[t].list]))
    <3> DEFINE f == [at[t] EXCEPT !.phone = lists[at[t].list][at[t].pos], !.pos = @ + 1]
    <3>1. pc[t] = "next" /\ pc' = [pc EXCEPT ![t] = "add"] /\ at' = [at EXCEPT ![t] = f]
      BY <1>3, <2>2 DEF NextPhone, From, Goto, Local
    <3>2. f.cmd = at[t].cmd /\ f.pos = at[t].pos + 1
      BY <1>1 DEF Frame
    <3> HIDE DEF f
    <3> QED
      BY <3>1, <3>2 DEF Typed, TypeOK, Adding, Sending
  <2> QED
    BY <2>1, <2>2
<1>4. CASE Add(t)
  <2> DEFINE f == [at[t] EXCEPT !.dev = device[at[t].phone], !.own = device[at[t].phone] = 0]
  <2>1. /\ pc[t] = "add" /\ at' = [at EXCEPT ![t] = f]
        /\ \E l \in {"new", "create", "added"} : pc' = [pc EXCEPT ![t] = l]
    BY <1>4 DEF Add, From, Goto, Local
  <2>2. f.cmd = at[t].cmd /\ f.pos = at[t].pos /\ f.phone = at[t].phone
    BY <1>1 DEF Frame
  <2> HIDE DEF f
  <2> QED
    BY <2>1, <2>2 DEF Typed, TypeOK, Adding, Sending
<1>5. CASE AddNew(t) /\ at[t].phone \in known
  <2> DEFINE f == [at[t] EXCEPT !.dev = Len(devs')]
  <2>1. pc[t] = "new" /\ pc' = [pc EXCEPT ![t] = "maybe"] /\ at' = [at EXCEPT ![t] = f]
    BY <1>5 DEF AddNew, From, Goto, Local
  <2>2. f.cmd = at[t].cmd /\ f.pos = at[t].pos /\ f.phone = at[t].phone
    BY <1>1 DEF Frame
  <2> HIDE DEF f
  <2> QED
    BY <2>1, <2>2 DEF Typed, TypeOK, Adding, Sending
<1>6. CASE AddNew(t) /\ at[t].phone \notin known
  BY <1>2, <1>6 DEF AddNew, From, Adding
<1>7. CASE MaybeCreate(t) \/ Create(t) \/ Gen2Write(t)
  BY <1>7 DEF MaybeCreate, Create, Gen2Write, From, Goto, Stay, Typed, TypeOK, Adding, Sending
<1>8. CASE Start(t)
  <2>1. CASE Raise(t)
    BY <1>2, <1>8, <2>1 DEF Start, From, Adding
  <2>2. CASE ~Raise(t)
    BY <1>8, <2>2 DEF Start, From, Goto, Stay, Typed, TypeOK, Adding, Sending
  <2> QED
    BY <2>1, <2>2
<1>9. CASE Added(t)
  <2>1. CASE at[t].cmd = 0
    BY SMTT(30), <1>2, <1>9, <2>1 DEF Added, From, Adding
  <2>2. CASE at[t].cmd # 0
    BY Zenon, <1>9, <2>2, AddedLocal DEF Added, From, Adding, Sending
  <2> QED
    BY <2>1, <2>2
<1>10. CASE Gen1(t)
  BY <1>10, ReadNumberTyped DEF Gen1, From, Goto, Typed, TypeOK, Adding, Sending
<1>11. CASE InstallOp(t)
  <2>1. CASE Handled(t)
    BY <1>2, <1>11, <2>1 DEF InstallOp, From, Sending
  <2>2. CASE ~Handled(t)
    BY <1>11, <2>2 DEF InstallOp, From, Goto, Stay, Typed, TypeOK, Adding, Sending
  <2> QED
    BY <2>1, <2>2
<1>12. CASE Gen2(t)
  <2>1. CASE devs[at[t].dev].proxy = 0
    BY <1>2, <1>12, <2>1 DEF Gen2, From, Sending
  <2>2. CASE devs[at[t].dev].proxy # 0
    BY SMTT(30), <1>12, <2>2, ReadNumberTyped DEF Gen2, From, Goto, Typed, TypeOK, Adding, Sending
  <2> QED
    BY <2>1, <2>2
<1>13. CASE Put(t)
  BY Zenon, <1>2, <1>13 DEF Put, From, Sending
<1> QED
  BY <1>3, <1>4, <1>5, <1>6, <1>7, <1>8, <1>9, <1>10, <1>11, <1>12, <1>13 DEF ThreadStep

LEMMA ThreadOwners ==
  ASSUME Typed, Owners, NEW t \in Thread, ThreadStep(t)
  PROVE  Owners'
<1>1. CASE AddNew(t) \/ Create(t)
  BY <1>1, AddNewOwners, CreateOwners
<1>2. CASE ~AddNew(t) /\ ~Create(t)
  <2>1. /\ UNCHANGED device /\ raced \subseteq raced' /\ Len(devs)' = Len(devs)
        /\ \A d \in 1..Len(devs) : devs'[d].proxy = devs[d].proxy
        /\ \A g \in 1..Len(proxies) : proxies'[g].phone = proxies[g].phone
    <3>1. CASE NextPhone(t) \/ Add(t) \/ MaybeCreate(t) \/ Added(t) \/ Gen1(t) \/ Gen2(t)
      BY <3>1 DEF NextPhone, Add, MaybeCreate, Added, Gen1, Gen2, ReadNumber, masterVars, objectVars, history
    <3>2. CASE InstallOp(t) \/ Gen2Write(t)
      BY SMTT(30), <3>2, WriteNumberTyped DEF InstallOp, Gen2Write, From, Sending, masterVars
    <3>3. CASE Put(t)
      BY Zenon, <3>3, PutQueue DEF Put, masterVars
    <3>4. CASE Start(t)
      <4>1. UNCHANGED <<device, raced, devs>>
        BY <3>4 DEF Start, masterVars, history
      <4>2. UNCHANGED proxies \/ proxies' = [proxies EXCEPT ![devs[at[t].dev].proxy].started = TRUE]
        BY <3>4 DEF Start
      <4>3. \A g \in 1..Len(proxies) : proxies'[g].phone = proxies[g].phone
        BY SMTT(30), <4>2, AllProxies, Numbers, Lengths DEF Proxy, Typed
      <4> QED
        BY <4>1, <4>3
    <3> QED
      BY <1>2, <3>1, <3>2, <3>3, <3>4 DEF ThreadStep
  <2>2. ASSUME pc'[t] \in Holding
        PROVE  /\ at'[t].phone = at[t].phone /\ pc[t] \in Adding \cup Sending
               /\ \/ pc[t] \in Holding /\ at'[t].dev = at[t].dev
                  \/ at'[t].dev = device[at[t].phone] /\ device[at[t].phone] # 0
    <3>1. at'[t].phone = at[t].phone /\ pc[t] \in Adding \cup Sending
      <4>1. pc'[t] \in Adding \cup Sending /\ pc'[t] # "add"
        BY <2>2 DEF Holding, Sending, Adding
      <4> QED
        BY <4>1, ThreadMoves
    <3>2. pc'[t] \notin {"idle", "dead", "next", "ask"}
      BY <2>2 DEF Holding, Adding, Sending
    <3>3. CASE Add(t)
      <4>1. at[t] \in Frame
        BY FrameFields DEF Typed
      <4>2. at'[t].dev = device[at[t].phone]
        BY <3>3, <4>1 DEF Add, Local, Typed, TypeOK, Frame
      <4>3. device[at[t].phone] # 0
        BY SMTT(30), <2>2, <3>3 DEF Add, Goto, Typed, TypeOK, Holding, Adding, Sending
      <4> QED
        BY <3>1, <4>2, <4>3
    <3>4. CASE MaybeCreate(t) \/ Start(t) \/ Gen1(t) \/ Gen2(t) \/ Gen2Write(t) \/ InstallOp(t) \/ Put(t)
      <4>1. pc[t] \in Holding
        BY Zenon, <3>4 DEF MaybeCreate, Start, Gen1, Gen2, Gen2Write, InstallOp, Put, From, Holding, Adding, Sending
      <4>2. at'[t].dev = at[t].dev
        <5>1. ~Handled(t) /\ ~Raise(t)
          BY <3>2, HandledLocal, RaiseLocal
        <5>2. CASE Gen1(t) \/ Gen2(t)
          BY SMTT(30), <5>1, <5>2, ReadNumberTyped DEF Gen1, Gen2, From, Sending
        <5>3. CASE MaybeCreate(t) \/ Start(t) \/ Gen2Write(t) \/ InstallOp(t) \/ Put(t)
          BY Zenon, <5>1, <5>3 DEF MaybeCreate, Start, Gen2Write, InstallOp, Put, Stay
        <5> QED
          BY <3>4, <5>2, <5>3
      <4> QED
        BY <3>1, <4>1, <4>2
    <3>5. CASE Added(t)
      <4>1. at[t].cmd # 0
        BY <3>2, <3>5, HandledLocal DEF Added
      <4>2. pc[t] \in Holding /\ device[at[t].phone] # 0
        <5>1. pc[t] = "added"
          BY <3>5 DEF Added, From
        <5> QED
          BY <5>1 DEF Holding, Adding, Typed, Places, Placed
      <4> QED
        BY <3>1, <3>5, <4>1, <4>2, AddedLocal
    <3>6. CASE NextPhone(t)
      BY <3>1, <3>6 DEF NextPhone, From, Adding, Sending
    <3> QED
      BY <1>2, <3>3, <3>4, <3>5, <3>6 DEF ThreadStep
  <2>3. \A u \in Thread : pc'[u] \in Holding =>
          /\ at'[u].phone = at[u].phone /\ pc[u] \in Adding \cup Sending
          /\ \/ pc[u] \in Holding /\ at'[u].dev = at[u].dev
             \/ at'[u].dev = device[at[u].phone] /\ device[at[u].phone] # 0
    BY <2>2, ThreadMoves DEF Holding
  <2> QED
    BY <2>1, <2>3, OwnersStay
<1> QED
  BY <1>1, <1>2

\* The steps of the master thread and of the environment.
LEMMA MasterOwners ==
  ASSUME Typed, Owners, BeginWalk \/ Scan \/ MasterStep
  PROVE  Owners'
<1>1. UNCHANGED <<device, devs, proxies, raced>>
  BY DEF BeginWalk, Scan, MasterStep, Ask, ProcessIncome, ScanDevicesResponse, ListPhone, MapPhone,
         masterVars, objectVars, history
<1>2. \A u \in Thread : pc'[u] \in Holding => pc[u] \in Holding /\ at'[u] = at[u]
  <2>1. CASE BeginWalk
    BY <2>1 DEF BeginWalk, From, Goto, Local, Typed, TypeOK, Holding, Adding, Sending
  <2>2. CASE Ask
    BY <2>2 DEF Ask, From, Goto, Local, Stay, Typed, TypeOK, Holding, Adding, Sending
  <2>3. CASE ScanDevicesResponse
    BY <2>3 DEF ScanDevicesResponse, From, Goto, Local, Typed, TypeOK, Holding, Adding, Sending
  <2>4. CASE Scan \/ ProcessIncome \/ ListPhone \/ MapPhone
    BY SMTT(30), <2>4 DEF Scan, ProcessIncome, ListPhone, MapPhone,
                From, Goto, Stay, Typed, TypeOK, Holding, Adding, Sending
  <2> QED
    BY <2>1, <2>2, <2>3, <2>4 DEF MasterStep
<1> QED
  BY <1>1, <1>2, OwnersStay DEF Holding

\* What a timeout does to the device and its proxy.
LEMMA TimeoutNumbers ==
  ASSUME Typed, NEW t \in Thread, NEW s \in Phone, CheckTimeout(t, s)
  PROVE  /\ UNCHANGED <<pc, at, cmds, device, raced, shared, queueIn>> /\ device[s] \in 1..Len(devs)
         /\ Len(devs)' = Len(devs) /\ Len(proxies)' = Len(proxies)
         /\ \A d \in 1..Len(devs) :
              /\ devs'[d].subId = devs[d].subId /\ devs'[d].lastSub = devs[d].lastSub
              /\ devs'[d].minSub = IF d = device[s] THEN devs[d].lastSub ELSE devs[d].minSub
              /\ devs'[d].proxy = IF d = device[s] THEN 0 ELSE devs[d].proxy
         /\ \A h \in 1..Len(proxies) :
              /\ proxies'[h].phone = proxies[h].phone
              /\ proxies'[h].queue = proxies[h].queue /\ proxies'[h].run = proxies[h].run
              /\ proxies'[h].on = (proxies[h].on /\ h # devs[device[s]].proxy)
<1> DEFINE D == device[s]
           g == devs[D].proxy
<1>1. UNCHANGED <<pc, at, cmds, device, raced, shared, queueIn>> /\ D \in 1..Len(devs)
  BY TimerHasDevice DEF CheckTimeout
<1>2. devs \in Seq(Device) /\ devs[D] \in Device
  BY <1>1, ElementOfSeq DEF Typed, TypeOK
<1>3. devs[D].lastSub \in Nat /\ 0 \in 0..Len(proxies)
  BY <1>2, Lengths DEF Device, Typed
<1>4. PICK x \in Device : x = [devs[D] EXCEPT !.minSub = devs[D].lastSub]
  BY ONLY <1>2, <1>3 DEF Device
<1>5. PICK r \in Device : r = [x EXCEPT !.proxy = 0]
  BY ONLY <1>3, x \in Device DEF Device
<1>6. r.proxy = 0 /\ r.minSub = devs[D].lastSub /\ r.lastSub = devs[D].lastSub /\ r.subId = devs[D].subId
  BY <1>2, <1>4, <1>5 DEF Device
<1>7. devs' = [devs EXCEPT ![D] = r]
  BY <1>1, <1>2, <1>4, <1>5 DEF CheckTimeout
<1>8. Len(devs') = Len(devs) /\ \A d \in 1..Len(devs) : devs'[d] = IF d = D THEN r ELSE devs[d]
  BY <1>1, <1>2, <1>7, ExceptSeq
<1>9. /\ Len(proxies)' = Len(proxies)
      /\ \A h \in 1..Len(proxies) :
           /\ proxies'[h].phone = proxies[h].phone
           /\ proxies'[h].queue = proxies[h].queue /\ proxies'[h].run = proxies[h].run
           /\ proxies'[h].on = (proxies[h].on /\ h # g)
  <2>0. \A h \in 1..Len(proxies) : proxies[h] \in Proxy /\ proxies[h].on \in BOOLEAN /\ h # 0
    BY AllProxies, Lengths DEF Proxy, Typed
  <2>1. CASE g = 0
    BY <2>0, <2>1 DEF CheckTimeout
  <2>2. CASE g # 0
    <3>1. proxies' = [proxies EXCEPT ![g].on = FALSE]
      BY <2>2 DEF CheckTimeout
    <3>2. Len(proxies') = Len(proxies) /\ DOMAIN proxies = 1..Len(proxies)
      BY <3>1, Lengths DEF Typed
    <3>3. \A h \in 1..Len(proxies) : proxies'[h] = IF h = g THEN [proxies[h] EXCEPT !.on = FALSE] ELSE proxies[h]
      BY <3>1, <3>2
    <3> QED
      BY <2>0, <3>2, <3>3 DEF Proxy
  <2> QED
    BY <2>1, <2>2
<1> HIDE DEF D, g
<1>10. \A d \in 1..Len(devs) :
              /\ devs'[d].subId = devs[d].subId /\ devs'[d].lastSub = devs[d].lastSub
              /\ devs'[d].minSub = IF d = D THEN devs[d].lastSub ELSE devs[d].minSub
              /\ devs'[d].proxy = IF d = D THEN 0 ELSE devs[d].proxy
  BY <1>6, <1>8
<1> QED
  BY <1>1, <1>8, <1>9, <1>10 DEF D, g

LEMMA TimeoutOwners ==
  ASSUME Typed, Owners, NEW t \in Thread, NEW s \in Phone, CheckTimeout(t, s)
  PROVE  Owners'
<1>1. \A u \in Thread : pc'[u] \in Holding => pc[u] \in Adding \cup Sending /\ pc[u] \in Holding /\ at'[u] = at[u]
  BY TimeoutNumbers DEF Holding
<1>2. /\ UNCHANGED device /\ Len(devs)' = Len(devs) /\ raced \subseteq raced'
      /\ \A d \in 1..Len(devs) : devs'[d].proxy \in {devs[d].proxy, 0}
      /\ \A g \in 1..Len(proxies) : proxies'[g].phone = proxies[g].phone
  BY TimeoutNumbers
<1> QED
  BY <1>1, <1>2, OwnersStay

\* A proxy's own steps.
LEMMA ProxyMoves ==
  ASSUME Typed, NEW g \in DOMAIN proxies, Take(g) \/ Run(g)
  PROVE  /\ UNCHANGED <<pc, at, cmds, device, devs, raced, shared>> /\ Len(proxies)' = Len(proxies)
         /\ \A h \in 1..Len(proxies) :
              /\ proxies'[h].phone = proxies[h].phone /\ proxies'[h].on = proxies[h].on
              /\ h # g => proxies'[h].queue = proxies[h].queue /\ proxies'[h].run = proxies[h].run
         /\ Run(g) => proxies'[g].queue = proxies[g].queue /\ proxies'[g].run = 0
<1>1. UNCHANGED <<pc, at, cmds, device, devs, raced, shared>>
  BY DEF Take, Run, masterVars, history
<1>2. CASE Run(g)
  <2>1. proxies' = [proxies EXCEPT ![g].run = 0]
    BY <1>2 DEF Run
  <2>2. Len(proxies') = Len(proxies) /\ DOMAIN proxies = 1..Len(proxies)
    BY <2>1, Lengths DEF Typed
  <2>3. \A h \in 1..Len(proxies) : proxies'[h] = IF h = g THEN [proxies[h] EXCEPT !.run = 0] ELSE proxies[h]
    BY <2>1, <2>2
  <2>4. \A h \in 1..Len(proxies) : proxies[h] \in Proxy
    BY <2>2, AllProxies
  <2> QED
    BY <1>1, <2>2, <2>3, <2>4 DEF Proxy
<1>3. CASE ~Run(g)
  BY <1>1, <1>3, TakeQueue
<1> QED
  BY <1>2, <1>3

LEMMA ProxyOwners ==
  ASSUME Typed, Owners, NEW g \in DOMAIN proxies, Take(g) \/ Run(g)
  PROVE  Owners'
<1>1. \A u \in Thread : pc'[u] \in Holding => pc[u] \in Adding \cup Sending /\ pc[u] \in Holding /\ at'[u] = at[u]
  BY ProxyMoves DEF Holding
<1> QED
  BY <1>1, ProxyMoves, OwnersStay

-----------------------------------------------------------------------------
(* Numbers are drawn by one thread at a time, unless the phone is in raced *)

LEMMA NumberWritten ==
  ASSUME Typed, NEW t \in Thread, pc[t] \in Sending, WriteNumber(t)
  PROVE  /\ Len(devs)' = Len(devs)
         /\ \A d \in 1..Len(devs) :
              /\ devs'[d].subId = IF d = at[t].dev THEN at[t].num ELSE devs[d].subId
              /\ devs'[d].lastSub = devs[d].lastSub /\ devs'[d].minSub = devs[d].minSub
              /\ devs'[d].proxy = devs[d].proxy
<1> DEFINE D == at[t].dev
<1>1. D \in 1..Len(devs) /\ devs' = [devs EXCEPT ![D].subId = at[t].num]
  BY Here DEF WriteNumber, Sending
<1>2. devs \in Seq(Device) /\ DOMAIN devs = 1..Len(devs) /\ \A d \in 1..Len(devs) : devs[d] \in Device
  BY Lengths, ElementOfSeq DEF Typed, TypeOK
<1>3. Len(devs') = Len(devs)
      /\ \A d \in 1..Len(devs) : devs'[d] = IF d = D THEN [devs[d] EXCEPT !.subId = at[t].num] ELSE devs[d]
  BY <1>1, <1>2
<1> QED
  BY <1>2, <1>3 DEF Device

LEMMA SubWritten ==
  ASSUME Typed, NEW t \in Thread, InstallOp(t) \/ Gen2Write(t)
  PROVE  /\ at[t].cmd \in 1..Len(cmds) /\ Len(cmds)' = Len(cmds)
         /\ \A c \in 1..Len(cmds) : cmds'[c].sub = IF c = at[t].cmd THEN at[t].num ELSE cmds[c].sub
<1> DEFINE C == at[t].cmd
<1>1. C \in 1..Len(cmds) /\ Len(cmds)' = Len(cmds)
  BY InstallOpCommand, Gen2WriteCommand
<1>2. cmds \in Seq(Command) /\ DOMAIN cmds = 1..Len(cmds) /\ \A c \in 1..Len(cmds) : cmds[c] \in Command
  BY Lengths, ElementOfSeq DEF Typed, TypeOK
<1>3. CASE InstallOp(t)
  <2>1. PICK op \in {"delete", "just"} :
          cmds' = [cmds EXCEPT ![C].sub = at[t].num, ![C].ops = Append(@, op)]
    BY <1>3 DEF InstallOp
  <2>2. \A c \in 1..Len(cmds) : c # C => cmds'[c] = cmds[c]
    BY <1>2, <2>1
  <2>3. cmds'[C] = [[cmds[C] EXCEPT !.sub = at[t].num] EXCEPT !.ops = Append(cmds[C].ops, op)]
    BY <1>1, <1>2, <2>1 DEF Command
  <2>4. cmds'[C].sub = at[t].num
    BY <1>1, <1>2, <2>3 DEF Command
  <2> QED
    BY <1>1, <2>2, <2>4
<1>4. CASE Gen2Write(t)
  <2>1. cmds' = [cmds EXCEPT ![C].sub = at[t].num]
    BY <1>4 DEF Gen2Write
  <2>2. \A c \in 1..Len(cmds) : cmds'[c] = IF c = C THEN [cmds[c] EXCEPT !.sub = at[t].num] ELSE cmds[c]
    BY <1>2, <2>1
  <2> QED
    BY <1>1, <1>2, <2>2 DEF Command
<1> QED
  BY <1>3, <1>4

LEMMA PutNumbers ==
  ASSUME Typed, NEW t \in Thread, Put(t)
  PROVE  \A d \in 1..Len(devs) :
           /\ devs'[d].lastSub = IF d = at[t].dev THEN cmds[at[t].cmd].sub ELSE devs[d].lastSub
           /\ devs'[d].subId = devs[d].subId /\ devs'[d].minSub = devs[d].minSub
<1> DEFINE D == at[t].dev
<1>1. D \in 1..Len(devs) /\ devs' = [devs EXCEPT ![D].lastSub = cmds[at[t].cmd].sub]
  BY Zenon, PutQueue DEF Put
<1>2. DOMAIN devs = 1..Len(devs) /\ \A d \in 1..Len(devs) : devs[d] \in Device
  BY Lengths, ElementOfSeq DEF Typed, TypeOK
<1>3. \A d \in 1..Len(devs) :
        devs'[d] = IF d = D THEN [devs[d] EXCEPT !.lastSub = cmds[at[t].cmd].sub] ELSE devs[d]
  BY <1>1, <1>2
<1> QED
  BY Zenon, <1>2, <1>3 DEF Device

-----------------------------------------------------------------------------
(* The proxies of the devices *)

LEMMA LiveStays ==
  ASSUME Typed, Live, Len(devs)' = Len(devs),
         \A d \in 1..Len(devs) : devs'[d].proxy \in {devs[d].proxy, 0},
         \A g \in 1..Len(proxies) :
           proxies[g].on => proxies'[g].on \/ \A d \in 1..Len(devs) : devs'[d].proxy # g
  PROVE  Live'
<1> SUFFICES ASSUME NEW d \in 1..Len(devs), devs'[d].proxy # 0
             PROVE  /\ proxies'[devs'[d].proxy].on
                    /\ \A e \in 1..Len(devs) : devs'[e].proxy = devs'[d].proxy => e = d
  BY DEF Live
<1>1. devs'[d].proxy = devs[d].proxy /\ devs[d].proxy \in 1..Len(proxies)
  BY DeviceProxy
<1>2. proxies[devs[d].proxy].on /\ \A e \in 1..Len(devs) : devs[e].proxy = devs[d].proxy => e = d
  BY <1>1 DEF Live
<1> QED
  BY <1>1, <1>2

LEMMA ThreadLive ==
  ASSUME Typed, Live, NEW t \in Thread, ThreadStep(t)
  PROVE  Live'
<1>1. CASE Create(t)
  <2> DEFINE D == at[t].dev
             n == Len(proxies) + 1
  <2>1. /\ Len(devs)' = Len(devs) /\ D \in 1..Len(devs) /\ n # 0 /\ proxies'[n].on
        /\ \A g \in 1..Len(proxies) : proxies'[g] = proxies[g] /\ g # n
        /\ \A d \in 1..Len(devs) : devs'[d].proxy = IF d = D THEN n ELSE devs[d].proxy
    BY <1>1, CreateShape
  <2> SUFFICES ASSUME NEW d \in 1..Len(devs), devs'[d].proxy # 0
               PROVE  /\ proxies'[devs'[d].proxy].on
                      /\ \A e \in 1..Len(devs) : devs'[e].proxy = devs'[d].proxy => e = d
    BY <2>1 DEF Live
  <2> HIDE DEF n, D
  <2>2. \A e \in 1..Len(devs) : devs[e].proxy # 0 => devs[e].proxy \in 1..Len(proxies) /\ devs[e].proxy # n
    BY <2>1, DeviceProxy
  <2>3. CASE d = D
    BY <2>1, <2>2, <2>3
  <2>4. CASE d # D
    <3>1. devs'[d].proxy = devs[d].proxy /\ devs[d].proxy \in 1..Len(proxies)
      BY <2>1, <2>2, <2>4
    <3>2. proxies[devs[d].proxy].on /\ \A e \in 1..Len(devs) : devs[e].proxy = devs[d].proxy => e = d
      BY <3>1 DEF Live
    <3> QED
      BY <2>1, <2>2, <3>1, <3>2
  <2> QED
    BY <2>3, <2>4
<1>2. CASE AddNew(t) /\ at[t].phone \in known
  <2>1. /\ UNCHANGED proxies /\ Len(devs)' = Len(devs) + 1 /\ Len(devs) \in Nat
        /\ devs'[Len(devs) + 1].proxy = 0 /\ \A d \in 1..Len(devs) : devs'[d] = devs[d]
    BY <1>2, AddNewShape
  <2>2. \A d \in 1..Len(devs)' : devs'[d].proxy # 0 => d \in 1..Len(devs) /\ devs'[d] = devs[d]
    BY <2>1
  <2> QED
    BY <2>1, <2>2 DEF Live
<1>3. CASE ~Create(t) /\ ~(AddNew(t) /\ at[t].phone \in known)
  <2>1. /\ Len(devs)' = Len(devs)
        /\ \A d \in 1..Len(devs) : devs'[d].proxy = devs[d].proxy
        /\ \A g \in 1..Len(proxies) : proxies'[g].on = proxies[g].on
    <3>1. CASE NextPhone(t) \/ Add(t) \/ MaybeCreate(t) \/ Added(t) \/ Gen1(t) \/ Gen2(t)
      BY <3>1 DEF NextPhone, Add, MaybeCreate, Added, Gen1, Gen2, ReadNumber, objectVars
    <3>2. CASE InstallOp(t) \/ Gen2Write(t)
      BY <3>2, WriteNumberTyped DEF InstallOp, Gen2Write, From, Sending
    <3>3. CASE Put(t)
      BY <3>3, PutQueue
    <3>4. CASE Start(t)
      BY <3>4, StartShape
    <3>5. CASE AddNew(t) /\ at[t].phone \notin known
      BY <3>5 DEF AddNew
    <3> QED
      BY <1>3, <3>1, <3>2, <3>3, <3>4, <3>5 DEF ThreadStep
  <2> QED
    BY <2>1, LiveStays
<1> QED
  BY <1>1, <1>2, <1>3

LEMMA TimeoutLive ==
  ASSUME Typed, Live, NEW t \in Thread, NEW s \in Phone, CheckTimeout(t, s)
  PROVE  Live'
<1>1. \A d \in 1..Len(devs) : devs'[d].proxy = IF d = device[s] THEN 0 ELSE devs[d].proxy
  BY TimeoutNumbers
<1>2. /\ device[s] \in 1..Len(devs) /\ Len(devs)' = Len(devs)
      /\ \A h \in 1..Len(proxies) : proxies'[h].on = (proxies[h].on /\ h # devs[device[s]].proxy)
  BY TimeoutNumbers
<1>3. \A h \in 1..Len(proxies) : h # 0
  BY Lengths DEF Typed
<1>4. ASSUME NEW h \in 1..Len(proxies), proxies[h].on, ~proxies'[h].on, NEW d \in 1..Len(devs)
      PROVE  devs'[d].proxy # h
  <2>1. h = devs[device[s]].proxy /\ h # 0
    BY <1>2, <1>3, <1>4
  <2>2. devs[d].proxy = h => d = device[s]
    BY <1>2, <2>1 DEF Live
  <2> QED
    BY <1>1, <2>1, <2>2
<1> QED
  BY <1>1, <1>2, <1>4, LiveStays

LEMMA NextLive ==
  ASSUME Typed, Live, Next
  PROVE  Live'
<1>1. ASSUME BeginWalk \/ Scan \/ MasterStep PROVE Live'
  <2>1. UNCHANGED <<devs, proxies>>
    BY <1>1 DEF BeginWalk, Scan, MasterStep, Ask, ProcessIncome, ScanDevicesResponse, ListPhone, MapPhone, objectVars
  <2> QED
    BY <2>1 DEF Live
<1>2. ASSUME NEW g \in DOMAIN proxies, Take(g) \/ Run(g) PROVE Live'
  BY <1>2, ProxyMoves, LiveStays
<1> QED
  BY <1>1, <1>2, ThreadLive, TimeoutLive DEF Next, ProxyStep

-----------------------------------------------------------------------------
(* Drawing numbers *)

LEMMA DeviceNumbers ==
  ASSUME Typed, NEW d \in 1..Len(devs)
  PROVE  devs[d].subId \in Nat /\ devs[d].lastSub \in Nat /\ devs[d].minSub \in Nat
<1>1. devs[d] \in Device
  BY Lengths, ElementOfSeq DEF Typed, TypeOK
<1> QED
  BY <1>1 DEF Device

\* A step after which numbers are as they were, those put in minSub excepted.
LEMMA CountingStays ==
  ASSUME Typed, Counting, UNCHANGED device, raced \subseteq raced',
         \A d \in 1..Len(devs) :
           /\ devs'[d].subId = devs[d].subId /\ devs'[d].lastSub = devs[d].lastSub
           /\ devs'[d].minSub \in {devs[d].minSub, devs[d].lastSub},
         \A c \in 1..Len(cmds) : cmds'[c].sub = cmds[c].sub,
         \A t \in Thread : pc'[t] \in Drawing => pc'[t] = pc[t] /\ at'[t] = at[t]
  PROVE  Counting'
<1>1. ASSUME NEW s \in Phone, s \notin raced', device'[s] # 0
      PROVE  /\ devs'[device'[s]].minSub <= devs'[device'[s]].lastSub
             /\ devs'[device'[s]].lastSub <= devs'[device'[s]].subId
  <2>1. device[s] \in 1..Len(devs) /\ devs[device[s]] \in Device
    BY SMTT(30), <1>1, Lengths, ElementOfSeq DEF Typed, TypeOK
  <2>2. Ordered(device[s])
    BY <1>1 DEF Counting
  <2> QED
    BY <2>1, <2>2 DEF Ordered, Device
<1>2. ASSUME NEW t \in Thread, pc'[t] \in Drawing, at'[t].phone \notin raced'
      PROVE  /\ Drawn(t)'
             /\ ~(pc'[Other(t)] \in Drawing /\ at'[Other(t)].dev = at'[t].dev)
  <2>1. pc'[t] = pc[t] /\ at'[t] = at[t] /\ pc[t] \in Sending
    BY <1>2 DEF Drawing, Sending
  <2>2. at[t].dev \in 1..Len(devs) /\ at[t].cmd \in 1..Len(cmds)
    BY <2>1, Here DEF Sending
  <2>3. Drawn(t) /\ ~(pc[Other(t)] \in Drawing /\ at[Other(t)].dev = at[t].dev)
    BY <1>2, <2>1 DEF Counting
  <2>4. Drawn(t)'
    BY <2>1, <2>2, <2>3 DEF Drawn
  <2>5. Other(t) \in Thread
    BY DEF Other, Thread
  <2> QED
    BY <2>1, <2>3, <2>4, <2>5
<1> QED
  BY <1>1, <1>2 DEF Counting, Ordered

\* A thread draws a number.
LEMMA ReadCounting ==
  ASSUME Typed, Owners, Counting, NEW t \in Thread, Gen1(t) \/ Gen2(t)
  PROVE  Counting'
<1>1. UNCHANGED <<device, devs, cmds>> /\ pc[t] \in Sending
  BY DEF Gen1, Gen2, From, masterVars, objectVars, Sending
<1>2. CASE Handled(t)
  <2>1. raced \subseteq raced'
    BY DEF Gen1, Gen2, ReadNumber
  <2>2. \A u \in Thread : pc'[u] \in Drawing => pc'[u] = pc[u] /\ at'[u] = at[u]
    BY <1>2, HandledLocal DEF Drawing
  <2> QED
    BY <1>1, <2>1, <2>2, CountingStays
<1>3. CASE ~Handled(t)
  <2>1. /\ ReadNumber(t) /\ pc[t] \in {"gen1", "gen2"} /\ pc'[t] \in {"gen1w", "gen2w"}
        /\ \A u \in Thread \ {t} : pc'[u] = pc[u]
    BY <1>3 DEF Gen1, Gen2, From, Goto, Typed, TypeOK
  <2>2. /\ \A u \in Thread \ {t} : at'[u] = at[u]
        /\ at'[t].phone = at[t].phone /\ at'[t].dev = at[t].dev
    BY <1>1, <2>1, ReadNumberTyped
  <2>3. at'[t].num = devs[at[t].dev].subId + 1
    BY <2>1, FrameFields DEF ReadNumber, Local, Frame, Typed, TypeOK
  <2>4. /\ raced' = IF Numbering(Other(t), at[t].dev) THEN raced \cup {at[t].phone} ELSE raced
        /\ raced \subseteq raced'
    BY <2>1 DEF ReadNumber
  <2>5. \A s \in Phone : s \notin raced' /\ device'[s] # 0 => Ordered(device[s])
    BY <1>1, <2>4 DEF Counting
  <2>6. ASSUME NEW u \in Thread, pc'[u] \in Drawing, at'[u].phone \notin raced'
        PROVE  /\ Drawn(u)'
               /\ ~(pc'[Other(u)] \in Drawing /\ at'[Other(u)].dev = at'[u].dev)
    <3>0. Other(u) \in Thread /\ Other(u) # u /\ Other(t) # t /\ Other(t) \in Thread
      BY DEF Other, Thread
    <3>1. CASE u = t
      <4>1. ~Numbering(Other(t), at[t].dev)
        BY <2>2, <2>4, <2>6, <3>1
      <4>2. pc'[Other(t)] = pc[Other(t)] /\ at'[Other(t)] = at[Other(t)]
        BY <2>1, <2>2, <3>0
      <4>3. Drawn(u)'
        BY <1>1, <2>1, <2>2, <2>3, <3>1 DEF Drawn
      <4> QED
        BY <2>2, <3>1, <4>1, <4>2, <4>3 DEF Numbering, Drawing
    <3>2. CASE u # t
      <4>1. pc'[u] = pc[u] /\ at'[u] = at[u] /\ Other(u) = t /\ Other(t) = u
        BY <2>1, <2>2, <3>2 DEF Other, Thread
      <4>2. Drawn(u)
        BY <2>4, <2>6, <4>1 DEF Counting
      <4>3. Drawn(u)'
        BY <1>1, <4>1, <4>2 DEF Drawn
      <4>4. at[u].dev # at[t].dev
        <5> SUFFICES ASSUME at[u].dev = at[t].dev PROVE FALSE
          OBVIOUS
        <5>1. Numbering(Other(t), at[t].dev)
          BY <2>6, <4>1 DEF Numbering, Drawing
        <5>2. at[u].phone = at[t].phone
          BY <1>1, <2>6, <4>1 DEF Owners, Holding, Drawing, Sending
        <5> QED
          BY <2>4, <2>6, <4>1, <5>1, <5>2
      <4> QED
        BY <2>2, <4>1, <4>3, <4>4
    <3> QED
      BY <3>1, <3>2
  <2>7. \A s \in Phone : Ordered(device[s]) => Ordered(device[s])'
    BY <1>1 DEF Ordered
  <2> QED
    BY <1>1, <2>5, <2>6 DEF Counting, Ordered
<1> QED
  BY <1>2, <1>3

\* Who draws from a device of a phone that is not in raced, draws alone.
LEMMA Alone ==
  ASSUME Typed, Owners, Counting, NEW t \in Thread, pc[t] \in Drawing,
         NEW u \in Thread, u # t, pc[u] \in Drawing, at[u].phone \notin raced
  PROVE  at[u].dev # at[t].dev
<1>1. Other(u) = t
  BY DEF Other, Thread
<1> QED
  BY <1>1 DEF Counting

\* The phone of a device, when it is not in raced, is that of the thread.
LEMMA OnePhone ==
  ASSUME Typed, Owners, Counting, NEW t \in Thread, pc[t] \in Drawing,
         NEW s \in Phone, device[s] = at[t].dev, s \notin raced
  PROVE  s = at[t].phone /\ Ordered(at[t].dev) /\ Drawn(t)
<1>1. pc[t] \in Holding /\ pc[t] \in Sending
  BY DEF Drawing, Holding, Sending
<1>2. s = at[t].phone
  BY <1>1 DEF Owners, Owned
<1>3. device[s] # 0
  BY <1>1, HeldHere, Lengths DEF Typed
<1> QED
  BY <1>2, <1>3 DEF Counting

\* ... and writes it.
LEMMA WriteCounting ==
  ASSUME Typed, Owners, Counting, Apart, NEW t \in Thread, InstallOp(t) \/ Gen2Write(t)
  PROVE  Counting'
<1> DEFINE D == at[t].dev
<1>1. /\ WriteNumber(t) /\ pc[t] \in Drawing /\ pc[t] \in Sending /\ pc[t] # "put"
      /\ UNCHANGED <<device, raced>>
  BY DEF InstallOp, Gen2Write, From, Drawing, Sending, masterVars
<1>2. /\ Len(devs)' = Len(devs)
      /\ \A d \in 1..Len(devs) :
           /\ devs'[d].subId = IF d = D THEN at[t].num ELSE devs[d].subId
           /\ devs'[d].lastSub = devs[d].lastSub /\ devs'[d].minSub = devs[d].minSub
  BY <1>1, NumberWritten
<1>3. /\ at[t].cmd \in 1..Len(cmds)
      /\ \A c \in 1..Len(cmds) : cmds'[c].sub = IF c = at[t].cmd THEN at[t].num ELSE cmds[c].sub
  BY SubWritten
<1>4. D \in 1..Len(devs)
  BY <1>1, Here DEF Sending
<1>5. \A d \in 1..Len(devs) : devs[d].subId \in Nat /\ devs[d].lastSub \in Nat /\ devs[d].minSub \in Nat
  BY DeviceNumbers
<1>6. ASSUME NEW s \in Phone, s \notin raced, device[s] # 0
      PROVE  /\ devs'[device[s]].minSub <= devs'[device[s]].lastSub
             /\ devs'[device[s]].lastSub <= devs'[device[s]].subId
  <2>1. device[s] \in 1..Len(devs) /\ Ordered(device[s])
    BY <1>6, Lengths DEF Counting, Typed, TypeOK
  <2>2. CASE device[s] = D
    <3>1. at[t].num = devs[D].subId + 1
      BY <1>1, <1>6, <2>2, OnePhone DEF Drawn
    <3>2. /\ devs'[D].subId = devs[D].subId + 1
          /\ devs'[D].lastSub = devs[D].lastSub /\ devs'[D].minSub = devs[D].minSub
      BY <1>2, <1>4, <3>1
    <3>3. devs[D].minSub <= devs[D].lastSub /\ devs[D].lastSub <= devs[D].subId
      BY <2>1, <2>2 DEF Ordered
    <3> HIDE DEF D
    <3> QED
      BY <1>4, <1>5, <2>2, <3>2, <3>3
  <2> QED
    BY <1>2, <2>1, <2>2 DEF Ordered
<1>7. \A u \in Thread \ {t} : pc'[u] = pc[u] /\ at'[u] = at[u]
  BY ThreadMoves DEF ThreadStep
<1>8. ASSUME NEW u \in Thread, pc'[u] \in Drawing, at'[u].phone \notin raced
      PROVE  /\ Drawn(u)'
             /\ ~(pc'[Other(u)] \in Drawing /\ at'[Other(u)].dev = at'[u].dev)
  <2>0. Other(u) \in Thread /\ Other(u) # u
    BY DEF Other, Thread
  <2>1. CASE u = t
    <3>1. pc'[t] = "put" /\ at'[t] = at[t] /\ Gen2Write(t)
      <4>1. CASE Gen2Write(t)
        BY <4>1 DEF Gen2Write, Goto, Stay, Typed, TypeOK
      <4>2. CASE InstallOp(t)
        <5>1. Goto(t, "gen2") \/ Handled(t)
          BY <4>2 DEF InstallOp
        <5>2. pc'[t] \notin Drawing
          BY <5>1, HandledLocal DEF Goto, Typed, TypeOK, Drawing
        <5> QED
          BY <1>8, <2>1, <5>2
      <4> QED
        BY <4>1, <4>2
    <3>2. Drawn(t) /\ device[at[t].phone] = D /\ device[at[t].phone] # 0 /\ at[t].phone \in Phone
      <4>1. pc[t] \in Holding
        BY <1>1 DEF Drawing, Holding, Sending
      <4> QED
        BY <1>1, <1>8, <2>1, <3>1, <4>1, HeldHere, Lengths DEF Counting, Owners, Owned, Typed
    <3>3. Ordered(D) /\ at[t].num = devs[D].subId + 1
      BY <1>1, <1>8, <2>1, <3>1, <3>2 DEF Counting, Drawn
    <3>4. Drawn(t)'
      <4>1. cmds'[at[t].cmd].sub = at[t].num /\ devs'[D].subId = at[t].num /\ devs'[D].lastSub = devs[D].lastSub
        BY <1>2, <1>3, <1>4
      <4>2. devs[D].lastSub < at[t].num
        BY <1>4, <1>5, <3>3 DEF Ordered
      <4> QED
        BY <3>1, <4>1, <4>2 DEF Drawn
    <3>5. ~(pc[Other(t)] \in Drawing /\ at[Other(t)].dev = D)
      BY <1>1, <1>8, <2>1, <3>1 DEF Counting
    <3> QED
      BY <1>7, <2>0, <2>1, <3>1, <3>4, <3>5
  <2>2. CASE u # t
    <3>1. pc'[u] = pc[u] /\ at'[u] = at[u] /\ Other(u) = t
      BY <1>7, <2>2 DEF Other, Thread
    <3>2. at[u].dev # D /\ Drawn(u)
      BY <1>1, <1>8, <2>2, <3>1, Alone DEF Counting
    <3>3. at[u].dev \in 1..Len(devs) /\ at[u].cmd \in 1..Len(cmds) /\ at[u].cmd # at[t].cmd
      <4>1. at[u].cmd # at[t].cmd
        <5>1. at["phone"].cmd # at["master"].cmd
          BY <1>1, <1>8, <2>2, <3>1, Here, Lengths DEF Apart, Thread, Drawing, Sending, Typed
        <5> QED
          BY <2>2, <5>1 DEF Thread
      <4> QED
        BY <1>8, <3>1, <4>1, Here DEF Drawing, Sending
    <3>4. Drawn(u)'
      BY SMTT(30), <1>2, <1>3, <3>1, <3>2, <3>3 DEF Drawn
    <3>5. pc'[t] \in Drawing => at'[t].dev = D
      <4>1. CASE Handled(t)
        BY <4>1, HandledLocal DEF Drawing
      <4>2. CASE ~Handled(t)
        BY <4>2 DEF InstallOp, Gen2Write, Stay
      <4> QED
        BY <4>1, <4>2
    <3> QED
      BY <3>1, <3>2, <3>4, <3>5
  <2> QED
    BY <2>1, <2>2
<1> QED
  BY <1>1, <1>6, <1>8 DEF Counting, Ordered

\* The last number put is the last one drawn.
LEMMA PutCounting ==
  ASSUME Typed, Owners, Counting, NEW t \in Thread, Put(t)
  PROVE  Counting'
<1> DEFINE D == at[t].dev
<1>1. pc[t] = "put" /\ pc[t] \in Drawing /\ pc[t] \in Sending /\ UNCHANGED <<device, raced, cmds>>
  BY DEF Put, From, Drawing, Sending, masterVars
<1>2. \A d \in 1..Len(devs) :
        /\ devs'[d].lastSub = IF d = D THEN cmds[at[t].cmd].sub ELSE devs[d].lastSub
        /\ devs'[d].subId = devs[d].subId /\ devs'[d].minSub = devs[d].minSub
  BY PutNumbers
<1>3. \A d \in 1..Len(devs) : devs[d].subId \in Nat /\ devs[d].lastSub \in Nat /\ devs[d].minSub \in Nat
  BY DeviceNumbers
<1>4. ASSUME NEW s \in Phone, s \notin raced, device[s] # 0
      PROVE  /\ devs'[device[s]].minSub <= devs'[device[s]].lastSub
             /\ devs'[device[s]].lastSub <= devs'[device[s]].subId
  <2>1. device[s] \in 1..Len(devs) /\ Ordered(device[s])
    BY <1>4, Lengths DEF Counting, Typed, TypeOK
  <2>2. CASE device[s] = D
    <3>1. cmds[at[t].cmd].sub = devs[D].subId /\ devs[D].lastSub < devs[D].subId
      BY <1>1, <1>4, <2>2, OnePhone DEF Drawn
    <3> QED
      BY <1>2, <1>3, <2>1, <2>2, <3>1 DEF Ordered
  <2> QED
    BY <1>2, <2>1, <2>2 DEF Ordered
<1>5. pc'[t] \notin Drawing /\ \A u \in Thread \ {t} : pc'[u] = pc[u] /\ at'[u] = at[u]
  BY PutQueue, HandledLocal, RaiseLocal DEF Drawing
<1>6. ASSUME NEW u \in Thread, pc'[u] \in Drawing, at'[u].phone \notin raced
      PROVE  /\ Drawn(u)'
             /\ ~(pc'[Other(u)] \in Drawing /\ at'[Other(u)].dev = at'[u].dev)
  <2>1. u # t /\ pc'[u] = pc[u] /\ at'[u] = at[u] /\ Other(u) = t
    BY <1>5, <1>6 DEF Other, Thread
  <2>2. at[u].dev # D /\ Drawn(u)
    BY <1>1, <1>6, <2>1, Alone DEF Counting
  <2>3. at[u].dev \in 1..Len(devs)
    BY <1>6, <2>1, Here DEF Drawing, Sending
  <2>4. Drawn(u)'
    BY <1>1, <1>2, <2>1, <2>2, <2>3 DEF Drawn
  <2> QED
    BY <1>5, <2>1, <2>4
<1> QED
  BY SMTT(30), <1>1, <1>4, <1>6 DEF Counting, Ordered

\* A new device has drawn no number.
LEMMA AddNewCounting ==
  ASSUME Typed, Counting, NEW t \in Thread, AddNew(t), at[t].phone \in known
  PROVE  Counting'
<1> DEFINE n == Len(devs) + 1
           s == at[t].phone
<1>1. /\ s \in Phone /\ Len(devs) \in Nat
      /\ devs'[n].subId = 0 /\ devs'[n].lastSub = 0 /\ devs'[n].minSub = 0
      /\ \A d \in 1..Len(devs) : devs'[d] = devs[d]
      /\ device' = [device EXCEPT ![s] = n] /\ raced \subseteq raced' /\ pc'[t] = "maybe"
  BY AddNewShape
<1>2. UNCHANGED cmds /\ \A u \in Thread \ {t} : pc'[u] = pc[u] /\ at'[u] = at[u]
  BY ThreadMoves DEF AddNew, ThreadStep
<1> HIDE DEF n
<1>3. \A x \in Phone : device'[x] = IF x = s THEN n ELSE device[x]
  BY <1>1 DEF Typed, TypeOK
<1>4. ASSUME NEW x \in Phone, x \notin raced', device'[x] # 0
      PROVE  /\ devs'[device'[x]].minSub <= devs'[device'[x]].lastSub
             /\ devs'[device'[x]].lastSub <= devs'[device'[x]].subId
  <2>1. CASE x = s
    BY <1>1, <1>3, <2>1
  <2>2. CASE x # s
    <3>1. device[x] \in 1..Len(devs) /\ Ordered(device[x]) /\ device'[x] = device[x]
      BY <1>1, <1>3, <1>4, <2>2 DEF Counting, Typed, TypeOK
    <3> QED
      BY <1>1, <3>1 DEF Ordered
  <2> QED
    BY <2>1, <2>2
<1>5. ASSUME NEW u \in Thread, pc'[u] \in Drawing, at'[u].phone \notin raced'
      PROVE  /\ Drawn(u)'
             /\ ~(pc'[Other(u)] \in Drawing /\ at'[Other(u)].dev = at'[u].dev)
  <2>1. u # t /\ pc'[u] = pc[u] /\ at'[u] = at[u] /\ Other(u) = t
    BY <1>1, <1>2, <1>5 DEF Other, Thread, Drawing
  <2>2. Drawn(u) /\ at[u].dev \in 1..Len(devs)
    BY <1>1, <1>5, <2>1, Here DEF Counting, Drawing, Sending
  <2>3. Drawn(u)'
    BY <1>1, <1>2, <2>1, <2>2 DEF Drawn
  <2> QED
    BY <1>1, <2>1, <2>3 DEF Drawing
<1> QED
  BY <1>4, <1>5 DEF Counting, Ordered

\* A command is added behind those there are.
LEMMA NewCommand ==
  ASSUME Typed, BeginWalk \/ Ask
  PROVE  /\ Len(cmds) \in Nat /\ Len(cmds)' \in {Len(cmds), Len(cmds) + 1}
         /\ \A c \in 1..Len(cmds) : cmds'[c] = cmds[c] /\ c # Len(cmds) + 1
<1>1. UNCHANGED cmds \/ \E c \in Command : cmds' = Append(cmds, c)
  <2>1. CASE Ask
    <3>1. [kind |-> "info", sub |-> 0, ops |-> <<>>] \in Command
      BY DEF Command
    <3> QED
      BY <2>1, <3>1 DEF Ask
  <2> QED
    BY <2>1, BeginWalkCommand DEF Typed
<1>2. Len(cmds) \in Nat /\ \A c \in 1..Len(cmds) : c # Len(cmds) + 1
  BY Lengths DEF Typed
<1>3. ASSUME NEW c \in Command, cmds' = Append(cmds, c)
      PROVE  Len(cmds') = Len(cmds) + 1 /\ \A b \in 1..Len(cmds) : cmds'[b] = cmds[b]
  BY <1>3, AppendProperties DEF Typed, TypeOK
<1> QED
  BY <1>1, <1>2, <1>3

LEMMA OtherMoves ==
  ASSUME Typed, Counting, BeginWalk \/ Scan \/ MasterStep
  PROVE  Counting'
<1>1. UNCHANGED <<device, devs, raced>>
  BY DEF BeginWalk, Scan, MasterStep, Ask, ProcessIncome, ScanDevicesResponse, ListPhone, MapPhone,
         masterVars, objectVars, history
<1>2. \A c \in 1..Len(cmds) : cmds'[c].sub = cmds[c].sub
  <2>1. CASE BeginWalk \/ Ask
    BY <2>1, NewCommand
  <2>2. CASE ~BeginWalk /\ ~Ask
    BY <2>2 DEF Scan, MasterStep, ProcessIncome, ScanDevicesResponse, ListPhone, MapPhone, objectVars
  <2> QED
    BY <2>1, <2>2
<1>3. \A u \in Thread : pc'[u] \in Drawing => pc'[u] = pc[u] /\ at'[u] = at[u]
  <2>1. CASE BeginWalk
    BY <2>1 DEF BeginWalk, From, Goto, Local, Typed, TypeOK, Drawing
  <2>2. CASE Ask
    BY <2>2 DEF Ask, From, Goto, Local, Stay, Typed, TypeOK, Drawing
  <2>3. CASE ScanDevicesResponse
    BY <2>3 DEF ScanDevicesResponse, From, Goto, Local, Typed, TypeOK, Drawing
  <2>4. CASE Scan \/ ProcessIncome \/ ListPhone \/ MapPhone
    BY <2>4 DEF Scan, ProcessIncome, ListPhone, MapPhone, From, Goto, Stay, Typed, TypeOK, Drawing
  <2> QED
    BY <2>1, <2>2, <2>3, <2>4 DEF MasterStep
<1> QED
  BY <1>1, <1>2, <1>3, CountingStays

LEMMA ThreadCounting ==
  ASSUME Typed, Owners, Counting, Apart, NEW t \in Thread, ThreadStep(t)
  PROVE  Counting'
<1>1. CASE Gen1(t) \/ Gen2(t) \/ InstallOp(t) \/ Gen2Write(t) \/ Put(t)
  BY <1>1, ReadCounting, WriteCounting, PutCounting
<1>2. CASE AddNew(t) /\ at[t].phone \in known
  BY <1>2, AddNewCounting
<1>3. CASE \/ NextPhone(t) \/ Add(t) \/ MaybeCreate(t) \/ Create(t) \/ Start(t) \/ Added(t)
           \/ AddNew(t) /\ at[t].phone \notin known
  <2>1. /\ UNCHANGED <<device, cmds, raced>>
        /\ \A d \in 1..Len(devs) :
             /\ devs'[d].subId = devs[d].subId /\ devs'[d].lastSub = devs[d].lastSub
             /\ devs'[d].minSub = devs[d].minSub
    <3>1. CASE Create(t)
      BY <3>1, CreateShape DEF Create, masterVars, history
    <3>2. CASE Start(t)
      BY <3>2, StartShape
    <3>3. CASE \/ NextPhone(t) \/ Add(t) \/ MaybeCreate(t) \/ Added(t)
               \/ AddNew(t) /\ at[t].phone \notin known
      BY <3>3 DEF NextPhone, Add, MaybeCreate, Added, AddNew, masterVars, objectVars, history
    <3> QED
      BY <1>3, <3>1, <3>2, <3>3
  <2>2. pc'[t] \notin Drawing
    <3>1. CASE Added(t)
      BY <3>1, AddedLocal, HandledLocal DEF Added, Drawing
    <3>2. CASE Start(t) \/ AddNew(t)
      BY <1>3, <3>2, RaiseLocal DEF Start, AddNew, Goto, Typed, TypeOK, Drawing
    <3>3. CASE NextPhone(t) \/ Add(t) \/ MaybeCreate(t) \/ Create(t)
      BY <3>3 DEF NextPhone, Add, MaybeCreate, Create, Goto, Typed, TypeOK, Drawing
    <3> QED
      BY SMTT(30), <1>3, <3>1, <3>2, <3>3
  <2>3. \A u \in Thread : pc'[u] \in Drawing => pc'[u] = pc[u] /\ at'[u] = at[u]
    BY <2>2, ThreadMoves
  <2> QED
    BY <2>1, <2>3, CountingStays
<1> QED
  BY <1>1, <1>2, <1>3 DEF ThreadStep

LEMMA NextCounting ==
  ASSUME Typed, Owners, Counting, Apart, Next
  PROVE  Counting'
<1>1. ASSUME NEW t \in Thread, NEW s \in Phone, CheckTimeout(t, s) PROVE Counting'
  <2>1. /\ UNCHANGED <<pc, at, cmds, device, raced>>
        /\ \A d \in 1..Len(devs) :
             /\ devs'[d].subId = devs[d].subId /\ devs'[d].lastSub = devs[d].lastSub
             /\ devs'[d].minSub \in {devs[d].minSub, devs[d].lastSub}
    BY <1>1, TimeoutNumbers
  <2> QED
    BY <2>1, CountingStays
<1>2. ASSUME NEW g \in DOMAIN proxies, Take(g) \/ Run(g) PROVE Counting'
  <2>1. UNCHANGED <<pc, at, cmds, device, devs, raced>>
    BY <1>2, ProxyMoves
  <2> QED
    BY <2>1, CountingStays
<1> QED
  BY <1>1, <1>2, OtherMoves, ThreadCounting DEF Next, ProxyStep

LEMMA NextOwners ==
  ASSUME Typed, Owners, Next
  PROVE  Owners'
BY MasterOwners, ThreadOwners, TimeoutOwners, ProxyOwners DEF Next, ProxyStep

-----------------------------------------------------------------------------
(* Commands are not taken back *)

\* A thread keeps its command or gets a new one, and the walk goes on.
Onward ==
  /\ \A t \in Thread : at'[t].cmd \in 1..Len(cmds) => at'[t].cmd = at[t].cmd
  /\ at'["phone"].cmd \in 1..Len(cmds) =>
       /\ at'["phone"].pos \in Nat /\ at'["phone"].pos >= at["phone"].pos
       /\ pc["phone"] = "next" => pc'["phone"] = "next" \/ at'["phone"].pos > at["phone"].pos

LEMMA PassedStays ==
  ASSUME Typed, Onward, NEW c \in 1..Len(cmds), Passed(c)
  PROVE  Passed(c)'
<1>1. at["phone"].pos \in Nat /\ "phone" \in Thread /\ "master" \in Thread
  BY FrameFields DEF Typed, Thread
<1>2. at'["master"].cmd # c
  BY <1>1 DEF Onward, Passed
<1>3. ASSUME at'["phone"].cmd = c
      PROVE  at'["phone"].pos > 2 \/ (at'["phone"].pos = 2 /\ pc'["phone"] = "next")
  <2>1. /\ at["phone"].cmd = c /\ at'["phone"].pos \in Nat /\ at'["phone"].pos >= at["phone"].pos
        /\ pc["phone"] = "next" => pc'["phone"] = "next" \/ at'["phone"].pos > at["phone"].pos
    BY <1>1, <1>3 DEF Onward
  <2>2. at["phone"].pos > 2 \/ (at["phone"].pos = 2 /\ pc["phone"] = "next")
    BY <2>1 DEF Passed
  <2> QED
    BY <1>1, <2>1, <2>2
<1> QED
  BY <1>2, <1>3 DEF Passed

LEMMA ThreadOnward ==
  ASSUME Typed, Apart, Begun, NEW t \in Thread, ThreadStep(t)
  PROVE  Onward /\ Apart' /\ Begun'
<1> DEFINE u == "phone"
<1>1. /\ \A x \in Thread : x # t => at'[x] = at[x] /\ pc'[x] = pc[x]
      /\ at'[t].cmd \in {at[t].cmd, 0}
  BY ThreadMoves
<1>2. at["phone"].pos \in Nat /\ "phone" \in Thread /\ "master" \in Thread
  BY FrameFields DEF Typed, Thread
<1>3. CASE t = "phone"
  <2>1. CASE pc'[t] \in Adding \cup Sending
    <3>1. at'[t].cmd = at[t].cmd
      BY <2>1, ThreadMoves
    <3>2. CASE pc[t] = "next" /\ at'[t].pos = at[t].pos + 1
      <4>1. at[t].pos \in Nat \ {0}
        BY <3>2 DEF Typed, Places, Placed
      <4>2. at'[t].pos \in Nat /\ at'[t].pos > at[t].pos /\ at'[t].pos >= at[t].pos /\ at'[t].pos > 1
        BY <3>2, <4>1
      <4> QED
        BY <1>1, <1>2, <1>3, <3>1, <4>2 DEF Onward, Apart, Begun
    <3>3. CASE pc[t] \in Adding \cup Sending /\ at'[t].pos = at[t].pos
      <4>1. pc[t] # "next" /\ at'[t].pos \in Nat /\ at'[t].pos >= at[t].pos /\ at'[t].pos > 1
        BY <1>2, <1>3, <3>3 DEF Begun, Adding, Sending
      <4> QED
        BY <1>1, <1>2, <1>3, <3>1, <4>1 DEF Onward, Apart, Begun
    <3> QED
      BY <2>1, <3>2, <3>3, ThreadMoves
  <2>2. CASE pc'[t] = "next"
    <3>1. at'[t].pos = at[t].pos
      BY <2>2, ThreadMoves
    <3>2. at'[t].pos \in Nat /\ at'[t].pos >= at[t].pos /\ pc'[t] \notin Adding \cup Sending
      BY <1>2, <1>3, <2>2, <3>1 DEF Adding, Sending
    <3> QED
      BY <1>1, <1>2, <1>3, <2>2, <3>2 DEF Onward, Apart, Begun
  <2>3. CASE pc'[t] \notin Adding \cup Sending \cup {"next"}
    <3>1. at'[t].cmd = 0 /\ 0 \notin 1..Len(cmds)
      BY <2>3, ThreadMoves, Lengths DEF Typed
    <3> QED
      BY <1>1, <1>2, <1>3, <2>3, <3>1 DEF Onward, Apart, Begun
  <2> QED
    BY <2>1, <2>2, <2>3
<1>4. CASE t = "master"
  <2>1. at'["phone"] = at["phone"] /\ pc'["phone"] = pc["phone"] /\ 0 \notin 1..Len(cmds)
    BY <1>1, <1>2, <1>4, Lengths DEF Typed
  <2> QED
    BY <1>1, <1>2, <1>4, <2>1 DEF Onward, Apart, Begun, Thread
<1> QED
  BY <1>3, <1>4 DEF Thread

LEMMA MasterOnward ==
  ASSUME Typed, Apart, Begun, BeginWalk \/ Scan \/ MasterStep
  PROVE  Onward /\ Apart' /\ Begun'
<1> DEFINE n == Len(cmds) + 1
<1>1. /\ at["phone"].pos \in Nat /\ "phone" \in Thread /\ "master" \in Thread
      /\ at["phone"].cmd \in 0..Len(cmds) /\ at["master"].cmd \in 0..Len(cmds)
      /\ Len(cmds) \in Nat
  BY FrameFields, Lengths DEF Typed, Thread
<1>2. 0 \notin 1..Len(cmds) /\ n \notin 0..Len(cmds) /\ n \notin 1..Len(cmds) /\ n # 0
  BY <1>1
<1>3. Nowhere.cmd = 0
  BY DEF Nowhere
<1> HIDE DEF n
<1>4. CASE BeginWalk
  <2>1. at'["phone"].cmd \in {0, n} /\ pc'["phone"] = "next" /\ at'["master"] = at["master"]
    <3> DEFINE e == IF Head(session.walks) = "update" THEN 0 ELSE Len(cmds')
               f == [Nowhere EXCEPT !.list = Len(lists), !.pos = 1, !.cmd = e]
    <3>1. at' = [at EXCEPT !["phone"] = f] /\ pc' = [pc EXCEPT !["phone"] = "next"]
      BY <1>4 DEF BeginWalk, Goto, Local
    <3>2. f.cmd = e
      BY DEF Nowhere
    <3>3. e \in {0, n}
      <4>1. CASE Head(session.walks) # "update"
        <5> DEFINE c == [kind |-> Head(session.walks), sub |-> 0, ops |-> <<>>]
        <5>1. cmds' = Append(cmds, c)
          BY <1>4, <4>1 DEF BeginWalk
        <5> HIDE DEF c
        <5> QED
          BY <5>1, LenProperties, AppendProperties DEF Typed, TypeOK, n
      <4> QED
        BY <4>1
    <3> HIDE DEF e, f
    <3> QED
      BY <3>1, <3>2, <3>3 DEF Typed, TypeOK, Thread
  <2> QED
    BY <1>1, <1>2, <2>1 DEF Onward, Apart, Begun, Thread, Adding, Sending
<1>5. CASE Ask
  <2>1. at'["master"].cmd \in {at["master"].cmd, n} /\ at'["phone"] = at["phone"] /\ pc'["phone"] = pc["phone"]
    <3>1. CASE Stay("master")
      BY <1>5, <3>1 DEF Ask, Goto, Stay, Typed, TypeOK, Thread
    <3>2. CASE ~Stay("master")
      <4> DEFINE c == [kind |-> "info", sub |-> 0, ops |-> <<>>]
                 f == [at["master"] EXCEPT !.cmd = Len(cmds')]
      <4>1. cmds' = Append(cmds, c) /\ at' = [at EXCEPT !["master"] = f] /\ pc' = [pc EXCEPT !["master"] = "add"]
        BY <1>5, <3>2 DEF Ask, Goto, Local
      <4>2. f.cmd = Len(cmds')
        BY <1>1, FrameFields DEF Frame, Typed
      <4> HIDE DEF c, f
      <4>3. Len(cmds') = n
        BY <4>1, AppendProperties DEF Typed, TypeOK, n
      <4> QED
        BY <4>1, <4>2, <4>3 DEF Typed, TypeOK, Thread
    <3> QED
      BY <3>1, <3>2
  <2> QED
    BY <1>1, <1>2, <2>1 DEF Onward, Apart, Begun, Thread
<1>6. CASE ScanDevicesResponse
  <2>1. at'["master"].cmd = 0 /\ at'["phone"] = at["phone"] /\ pc'["phone"] = pc["phone"]
    BY <1>3, <1>6 DEF ScanDevicesResponse, Goto, Local, Typed, TypeOK, Thread, Nowhere
  <2> QED
    BY <1>1, <1>2, <2>1 DEF Onward, Apart, Begun, Thread
<1>7. CASE Scan \/ ProcessIncome \/ ListPhone \/ MapPhone
  <2>1. at' = at /\ pc'["phone"] = pc["phone"]
    <3>1. CASE Scan \/ ProcessIncome
      BY <3>1 DEF Scan, ProcessIncome
    <3>2. CASE ListPhone
      <4>1. at' = at /\ \E l \in {"map", "next"} : pc' = [pc EXCEPT !["master"] = l]
        BY <3>2 DEF ListPhone, Goto, Stay
      <4>2. pc \in [Thread -> Place]
        BY DEF Typed, TypeOK
      <4> QED
        BY <4>1, <4>2
    <3>3. CASE MapPhone
      BY <3>3 DEF MapPhone, Goto, Stay, Typed, TypeOK
    <3> QED
      BY <1>7, <3>1, <3>2, <3>3
  <2> QED
    BY <1>1, <1>2, <2>1 DEF Onward, Apart, Begun, Thread
<1> QED
  BY <1>4, <1>5, <1>6, <1>7 DEF MasterStep

\* Steps that are not of the threads.
LEMMA AsideOnward ==
  ASSUME Typed, Apart, Begun, UNCHANGED <<pc, at>>
  PROVE  Onward /\ Apart' /\ Begun'
<1>1. at["phone"].pos \in Nat
  BY FrameFields DEF Typed, Thread
<1> QED
  BY <1>1 DEF Onward, Apart, Begun

-----------------------------------------------------------------------------
(* What is under way from a proxy is judged by its number *)

\* No reply of a proxy is new.
RepliesStay ==
  \A i \in DOMAIN queueIn' : queueIn'[i].type = "reply" /\ queueIn'[i].proxy # 0 =>
    \E j \in DOMAIN queueIn : queueIn[j] = queueIn'[i]

LEMMA ReplyIs ==
  ASSUME Typed, NEW i \in DOMAIN queueIn, queueIn[i].type = "reply"
  PROVE  /\ queueIn[i].proxy \in 0..Len(proxies) /\ queueIn[i].cmd \in 1..Len(cmds)
         /\ queueIn[i].sub \in Nat /\ queueIn[i].phone \in Phone
<1>1. queueIn[i] \in Message
  BY ElementOfSeq DEF Typed, TypeOK
<1> QED
  BY <1>1 DEF Message

\* A command in a proxy is one of those there are.
LEMMA InProxyIs ==
  ASSUME Typed, NEW g \in 1..Len(proxies), NEW c, InProxy(g, c), c # 0
  PROVE  c \in 1..Len(cmds) /\ cmds[c].sub \in Nat
<1>1. g \in DOMAIN proxies
  BY Lengths DEF Typed
<1>2. proxies[g].run \in 0..Len(cmds) /\ proxies[g].queue \in Seq(1..Len(cmds))
  BY <1>1, AllProxies DEF Proxy
<1>3. c \in 1..Len(cmds)
  BY <1>2, Lengths DEF InProxy, Typed
<1>4. cmds[c] \in Command
  BY <1>3, Lengths, ElementOfSeq DEF Typed, TypeOK
<1> QED
  BY <1>3, <1>4 DEF Command

\* What is under way was under way before.
OutKept ==
  \A g \in 1..Len(proxies)', c \in 1..Len(cmds)', n \in Nat :
    Out(g, c, n)' => g \in 1..Len(proxies) /\ c \in 1..Len(cmds) /\ Out(g, c, n)

LEMMA OutStays ==
  ASSUME Typed, RepliesStay,
         \A g \in 1..Len(proxies) : \A c : InProxy(g, c)' => InProxy(g, c),
         \A g \in (1..Len(proxies)') \ (1..Len(proxies)) : proxies'[g].queue = <<>> /\ proxies'[g].run = 0,
         \A c \in 1..Len(cmds) : cmds'[c].sub = cmds[c].sub
  PROVE  OutKept
<1> SUFFICES ASSUME NEW g \in 1..Len(proxies)', NEW c \in 1..Len(cmds)', NEW n \in Nat, Out(g, c, n)'
             PROVE  g \in 1..Len(proxies) /\ c \in 1..Len(cmds) /\ Out(g, c, n)
  BY DEF OutKept
<1>0. g # 0 /\ c # 0
  OBVIOUS
<1>1. CASE InProxy(g, c)' /\ n = cmds'[c].sub
  <2>1. g \in 1..Len(proxies)
    BY <1>0, <1>1 DEF InProxy
  <2>2. InProxy(g, c)
    BY <1>1, <2>1
  <2>3. c \in 1..Len(cmds)
    BY <1>0, <2>1, <2>2, InProxyIs
  <2> QED
    BY <1>1, <2>1, <2>2, <2>3 DEF Out
<1>2. CASE Replied(g, c, n)'
  <2>1. PICK i \in DOMAIN queueIn' : IsReply(queueIn'[i], g, c, n)
    BY <1>2 DEF Replied
  <2>2. PICK j \in DOMAIN queueIn : queueIn[j] = queueIn'[i]
    BY <1>0, <2>1 DEF RepliesStay, IsReply
  <2>3. IsReply(queueIn[j], g, c, n)
    BY <2>1, <2>2
  <2>4. g \in 1..Len(proxies) /\ c \in 1..Len(cmds)
    BY <1>0, <2>3, ReplyIs, Lengths DEF IsReply, Typed
  <2> QED
    BY <2>3, <2>4 DEF Out, Replied
<1> QED
  BY <1>1, <1>2 DEF Out

LEMMA ProxyDevice ==
  ASSUME Typed, NEW g \in 1..Len(proxies)
  PROVE  proxies[g].phone \in Phone /\ device[proxies[g].phone] \in 1..Len(devs)
<1>1. proxies[g].phone \in Phone /\ device[proxies[g].phone] # 0
  BY ProxyPhones, Lengths DEF Typed
<1>2. device[proxies[g].phone] \in 0..Len(devs) /\ Len(devs) \in Nat
  BY <1>1, Lengths DEF Typed, TypeOK
<1> QED
  BY <1>1, <1>2

\* ... and what is judged by its number still is.
JudgedKept ==
  \A g \in 1..Len(proxies), c \in 1..Len(cmds), n \in Nat : Judged(g, c, n) => Judged(g, c, n)'

LEMMA JudgedStays ==
  ASSUME Typed, shared \subseteq shared', raced \subseteq raced',
         \A g \in 1..Len(proxies) : proxies'[g].phone = proxies[g].phone /\ proxies'[g].on = proxies[g].on,
         \A s \in Phone : device[s] # 0 /\ s \notin raced' => device'[s] = device[s],
         \A d \in 1..Len(devs) :
           /\ devs'[d].lastSub = devs[d].lastSub /\ devs'[d].minSub = devs[d].minSub
           /\ devs'[d].proxy = devs[d].proxy \/ devs'[d].proxy \notin 1..Len(proxies)
  PROVE  JudgedKept
<1> SUFFICES ASSUME NEW g \in 1..Len(proxies), NEW c \in 1..Len(cmds), NEW n \in Nat,
                    Judged(g, c, n), c \notin shared', proxies'[g].phone \notin raced'
             PROVE  Above(g, n)'
  BY DEF JudgedKept, Judged
<1> DEFINE s == proxies[g].phone
           d == device[s]
<1>1. s \in Phone /\ d \in 1..Len(devs)
  BY ProxyDevice
<1>2. Above(g, n)
  BY DEF Judged
<1>3. device'[proxies'[g].phone] = d
  BY <1>1, Lengths DEF Typed
<1>4. proxies'[g].on = proxies[g].on
  OBVIOUS
<1>5. /\ devs'[d].lastSub = devs[d].lastSub /\ devs'[d].minSub = devs[d].minSub
      /\ devs'[d].proxy = g => devs[d].proxy = g
  BY <1>1
<1> QED
  BY <1>2, <1>3, <1>4, <1>5 DEF Above

RepliesOurs ==
  \A i \in DOMAIN queueIn : queueIn[i].type = "reply" /\ queueIn[i].proxy # 0 =>
    queueIn[i].phone = proxies[queueIn[i].proxy].phone

LEMMA RepliesOursStays ==
  ASSUME Typed, Handing, RepliesStay,
         \A g \in 1..Len(proxies) : proxies'[g].phone = proxies[g].phone
  PROVE  RepliesOurs'
<1> SUFFICES ASSUME NEW i \in DOMAIN queueIn', queueIn'[i].type = "reply", queueIn'[i].proxy # 0
             PROVE  queueIn'[i].phone = proxies'[queueIn'[i].proxy].phone
  BY DEF RepliesOurs
<1>1. PICK j \in DOMAIN queueIn : queueIn[j] = queueIn'[i]
  BY DEF RepliesStay
<1>2. queueIn[j].proxy \in 1..Len(proxies)
  BY <1>1, ReplyIs, Lengths DEF Typed
<1> QED
  BY <1>1, <1>2 DEF Handing

\* The steps that send nothing.
LEMMA HandingStays ==
  ASSUME Typed, Handing, Onward, OutKept, JudgedKept, RepliesStay,
         \A g \in 1..Len(proxies) : proxies'[g].phone = proxies[g].phone
  PROVE  Handing'
<1>1. RepliesOurs'
  BY RepliesOursStays
<1>2. ASSUME NEW g \in 1..Len(proxies)', NEW c \in 1..Len(cmds)', NEW n \in Nat, Out(g, c, n)'
      PROVE  Passed(c)' /\ Judged(g, c, n)'
  <2>1. g \in 1..Len(proxies) /\ c \in 1..Len(cmds) /\ Out(g, c, n)
    BY <1>2 DEF OutKept
  <2>2. Passed(c) /\ Judged(g, c, n)
    BY <2>1 DEF Handing
  <2> QED
    BY <2>1, <2>2, PassedStays DEF JudgedKept
<1> QED
  BY <1>1, <1>2 DEF Handing, RepliesOurs

-----------------------------------------------------------------------------
(* The steps, one by one *)

LEMMA SameReplies ==
  ASSUME UNCHANGED queueIn
  PROVE  RepliesStay
BY DEF RepliesStay

LEMMA AddedMessage ==
  ASSUME Typed, NEW m, queueIn' = Append(queueIn, m), m.type = "reply" => m.proxy = 0
  PROVE  RepliesStay
<1> SUFFICES ASSUME NEW i \in DOMAIN queueIn', queueIn'[i].type = "reply", queueIn'[i].proxy # 0
             PROVE  \E j \in DOMAIN queueIn : queueIn[j] = queueIn'[i]
  BY DEF RepliesStay
<1>1. queueIn \in Seq(Message)
  BY DEF Typed, TypeOK
<1>2. /\ Len(queueIn') = Len(queueIn) + 1 /\ queueIn'[Len(queueIn) + 1] = m
      /\ \A j \in 1..Len(queueIn) : queueIn'[j] = queueIn[j]
      /\ DOMAIN queueIn' = 1..Len(queueIn') /\ DOMAIN queueIn = 1..Len(queueIn) /\ Len(queueIn) \in Nat
  BY <1>1
<1>3. i \in 1..Len(queueIn)
  BY <1>2
<1> QED
  BY <1>2, <1>3

LEMMA TakenMessage ==
  ASSUME Typed, queueIn # <<>>, queueIn' = Tail(queueIn)
  PROVE  RepliesStay
BY FrontMessage DEF RepliesStay

\* BeginWalk, Scan and the steps of the master thread's own.
LEMMA MasterHanding ==
  ASSUME Typed, Handing, Onward, BeginWalk \/ Scan \/ MasterStep
  PROVE  Handing'
<1>1. UNCHANGED <<device, devs, proxies, shared, raced>>
  BY DEF BeginWalk, Scan, MasterStep, Ask, ProcessIncome, ScanDevicesResponse, ListPhone, MapPhone,
         masterVars, objectVars, history
<1>2. \A c \in 1..Len(cmds) : cmds'[c].sub = cmds[c].sub
  <2>1. CASE BeginWalk \/ Ask
    BY <2>1, NewCommand
  <2>2. CASE ~BeginWalk /\ ~Ask
    BY <2>2 DEF Scan, MasterStep, ProcessIncome, ScanDevicesResponse, ListPhone, MapPhone, objectVars
  <2> QED
    BY <2>1, <2>2
<1>3. RepliesStay
  <2>1. CASE BeginWalk \/ Ask \/ ScanDevicesResponse \/ MapPhone
    BY <2>1, SameReplies DEF BeginWalk, Ask, ScanDevicesResponse, MapPhone
  <2>2. CASE Scan
    <3> DEFINE m == [type |-> "devices", list |-> Head(session.found)]
    <3>1. queueIn' = Append(queueIn, m) /\ m.type # "reply"
      BY <2>2 DEF Scan
    <3> HIDE DEF m
    <3> QED
      BY <3>1, AddedMessage
  <2>3. CASE ProcessIncome
    BY <2>3, TakenMessage DEF ProcessIncome
  <2>4. CASE ListPhone
    <3>1. UNCHANGED queueIn \/ queueIn' = Tail(queueIn)
      BY <2>4 DEF ListPhone
    <3>2. queueIn # <<>>
      BY <2>4 DEF ListPhone, From, Typed, Places
    <3> QED
      BY <3>1, <3>2, SameReplies, TakenMessage
  <2> QED
    BY <2>1, <2>2, <2>3, <2>4 DEF MasterStep
<1>4. OutKept
  BY <1>1, <1>2, <1>3, OutStays DEF InProxy
<1>5. JudgedKept
  BY <1>1, JudgedStays
<1> QED
  BY <1>1, <1>3, <1>4, <1>5, HandingStays

\* The steps of a thread before the command is numbered.
LEMMA AddHanding ==
  ASSUME Typed, Handing, Onward, NEW t \in Thread,
         \/ NextPhone(t) \/ Add(t) \/ MaybeCreate(t) \/ Added(t) \/ Gen1(t) \/ Gen2(t) \/ Start(t)
         \/ AddNew(t) /\ at[t].phone \notin known
  PROVE  Handing'
<1>1. UNCHANGED <<device, devs, cmds, queueIn, shared>> /\ raced \subseteq raced'
  <2>1. CASE Start(t)
    BY <2>1, StartShape
  <2>2. CASE Gen1(t) \/ Gen2(t)
    BY <2>2 DEF Gen1, Gen2, ReadNumber, masterVars, objectVars
  <2>3. CASE ~Start(t) /\ ~Gen1(t) /\ ~Gen2(t)
    BY <2>3 DEF NextPhone, Add, MaybeCreate, Added, AddNew, masterVars, objectVars, history
  <2> QED
    BY <2>1, <2>2, <2>3
<1>2. /\ Len(proxies)' = Len(proxies)
      /\ \A g \in 1..Len(proxies) :
           /\ proxies'[g].phone = proxies[g].phone /\ proxies'[g].on = proxies[g].on
           /\ proxies'[g].queue = proxies[g].queue /\ proxies'[g].run = proxies[g].run
  <2>1. CASE Start(t)
    BY <2>1, StartShape
  <2>2. CASE ~Start(t)
    BY <2>2 DEF NextPhone, Add, MaybeCreate, Added, AddNew, Gen1, Gen2, objectVars
  <2> QED
    BY <2>1, <2>2
<1>3. RepliesStay
  BY <1>1, SameReplies
<1>4. OutKept
  BY <1>1, <1>2, <1>3, OutStays DEF InProxy
<1>5. JudgedKept
  BY <1>1, <1>2, JudgedStays
<1> QED
  BY <1>2, <1>3, <1>4, <1>5, HandingStays

\* A new device takes the place of another one only for a phone in raced.
LEMMA AddNewHanding ==
  ASSUME Typed, Handing, Onward, NEW t \in Thread, AddNew(t), at[t].phone \in known
  PROVE  Handing'
<1> DEFINE s == at[t].phone
           n == Len(devs) + 1
<1>1. /\ UNCHANGED <<proxies, cmds, queueIn, shared>>
      /\ \A d \in 1..Len(devs) : devs'[d] = devs[d]
      /\ device' = [device EXCEPT ![s] = n]
      /\ raced' = IF device[s] # 0 THEN raced \cup {s} ELSE raced
  BY AddNewShape DEF AddNew
<1> HIDE DEF s, n
<1>2. \A x \in Phone : device[x] # 0 /\ x \notin raced' => device'[x] = device[x]
  BY <1>1 DEF Typed, TypeOK
<1>3. RepliesStay
  BY <1>1, SameReplies
<1>4. OutKept
  BY <1>1, <1>3, OutStays DEF InProxy
<1>5. JudgedKept
  BY <1>1, <1>2, JudgedStays
<1> QED
  BY <1>1, <1>3, <1>4, <1>5, HandingStays

\* A new proxy has nothing under way.
LEMMA CreateHanding ==
  ASSUME Typed, Handing, Onward, NEW t \in Thread, Create(t)
  PROVE  Handing'
<1> DEFINE n == Len(proxies) + 1
<1>1. UNCHANGED <<device, cmds, queueIn, shared, raced>>
  BY DEF Create, masterVars, history
<1>2. /\ Len(proxies) \in Nat /\ Len(proxies)' = n
      /\ \A g \in 1..Len(proxies) : proxies'[g] = proxies[g] /\ g # n
      /\ proxies'[n].queue = <<>> /\ proxies'[n].run = 0
      /\ \A d \in 1..Len(devs) :
           /\ devs'[d].lastSub = devs[d].lastSub /\ devs'[d].minSub = devs[d].minSub
           /\ devs'[d].proxy = devs[d].proxy \/ devs'[d].proxy = n
  BY CreateShape
<1>3. RepliesStay
  BY <1>1, SameReplies
<1>4. \A g \in (1..Len(proxies)') \ (1..Len(proxies)) : proxies'[g].queue = <<>> /\ proxies'[g].run = 0
  BY <1>2
<1>5. OutKept
  BY <1>1, <1>2, <1>3, <1>4, OutStays DEF InProxy
<1>6. \A d \in 1..Len(devs) : devs'[d].proxy = devs[d].proxy \/ devs'[d].proxy \notin 1..Len(proxies)
  BY <1>2
<1>7. JudgedKept
  BY <1>1, <1>2, <1>6, JudgedStays
<1> QED
  BY <1>2, <1>3, <1>5, <1>7, HandingStays

\* A command that is numbered once more is in shared.
LEMMA WriteHanding ==
  ASSUME Typed, Handing, Onward, NEW t \in Thread, InstallOp(t) \/ Gen2Write(t)
  PROVE  Handing'
<1> DEFINE C == at[t].cmd
<1>1. UNCHANGED <<device, proxies, raced>> /\ WriteNumber(t) /\ pc[t] \in Sending /\ pc[t] # "next"
  BY DEF InstallOp, Gen2Write, masterVars, From, Sending
<1>2. shared' = IF t = "phone" /\ at[t].pos > 2 THEN shared \cup {C} ELSE shared
  BY <1>1 DEF WriteNumber
<1>3. /\ C \in 1..Len(cmds) /\ Len(cmds)' = Len(cmds)
      /\ \A c \in 1..Len(cmds) : c # C => cmds'[c].sub = cmds[c].sub
  BY SubWritten
<1>4. \A d \in 1..Len(devs) :
        /\ devs'[d].lastSub = devs[d].lastSub /\ devs'[d].minSub = devs[d].minSub
        /\ devs'[d].proxy = devs[d].proxy
  BY <1>1, NumberWritten
<1>5. RepliesStay
  <2>1. CASE UNCHANGED queueIn
    BY <2>1, SameReplies
  <2>2. CASE ~UNCHANGED queueIn
    <3> DEFINE m == [type |-> "reply", phone |-> at[t].phone, proxy |-> 0, cmd |-> at[t].cmd, sub |-> at[t].num]
    <3>1. queueIn' = Append(queueIn, m) /\ m.proxy = 0
      BY <2>2 DEF InstallOp, Gen2Write
    <3> HIDE DEF m
    <3> QED
      BY <3>1, AddedMessage
  <2> QED
    BY <2>1, <2>2
<1>6. JudgedKept
  BY <1>1, <1>2, <1>4, JudgedStays
<1>7. RepliesOurs'
  BY <1>1, <1>5, RepliesOursStays
<1>8. ASSUME NEW g \in 1..Len(proxies), NEW c \in 1..Len(cmds), NEW n \in Nat, Out(g, c, n)'
      PROVE  Passed(c)' /\ Judged(g, c, n)'
  <2>1. CASE Replied(g, c, n)'
    <3>1. Replied(g, c, n)
      <4>1. PICK i \in DOMAIN queueIn' : IsReply(queueIn'[i], g, c, n)
        BY <2>1 DEF Replied
      <4>2. PICK j \in DOMAIN queueIn : queueIn[j] = queueIn'[i]
        BY <1>5, <4>1 DEF RepliesStay, IsReply
      <4> QED
        BY <4>1, <4>2 DEF Replied
    <3>2. Passed(c) /\ Judged(g, c, n)
      BY <3>1 DEF Handing, Out
    <3> QED
      BY <1>6, <3>2, PassedStays DEF JudgedKept
  <2>2. CASE InProxy(g, c)' /\ n = cmds'[c].sub /\ c # C
    <3>1. Out(g, c, n)
      BY <1>1, <1>3, <2>2 DEF Out, InProxy
    <3>2. Passed(c) /\ Judged(g, c, n)
      BY <3>1 DEF Handing
    <3> QED
      BY <1>6, <3>2, PassedStays DEF JudgedKept
  <2>3. CASE InProxy(g, c)' /\ c = C
    <3>1. InProxy(g, c)
      BY <1>1, <2>3 DEF InProxy
    <3>2. cmds[c].sub \in Nat /\ Out(g, c, cmds[c].sub)
      BY <3>1, InProxyIs DEF Out
    <3>3. Passed(c)
      BY <3>2 DEF Handing
    <3>4. t = "phone" /\ at[t].pos > 2
      <4>1. at["phone"].pos \in Nat
        BY FrameFields DEF Typed, Thread
      <4> QED
        BY <1>1, <2>3, <3>3, <4>1 DEF Passed, Thread
    <3>5. c \in shared'
      BY <1>2, <2>3, <3>4
    <3> QED
      BY <3>3, <3>5, PassedStays DEF Judged
  <2> QED
    BY <1>8, <2>1, <2>2, <2>3 DEF Out
<1> QED
  BY <1>1, <1>3, <1>7, <1>8 DEF Handing, RepliesOurs

\* What Put sends is passed: its thread has left the phone.
LEMMA PutPassed ==
  ASSUME Typed, Apart, Begun, NEW t \in Thread, Put(t), Handled(t), NEW c, c = at[t].cmd
  PROVE  Passed(c)'
<1>0. pc[t] = "put" /\ pc[t] \in Sending
  BY DEF Put, From, Sending
<1>1. c # 0
  <2>1. at[t].cmd \in 1..Len(cmds)
    BY <1>0, Here
  <2> QED
    BY <2>1, Lengths DEF Typed
<1>2. at["phone"].pos \in Nat
  BY FrameFields DEF Typed, Thread
<1>3. at["phone"].cmd = c => at["master"].cmd # c
  BY <1>1 DEF Apart
<1>4. CASE t = "phone"
  <2>1. at'["master"].cmd # c /\ at'["phone"].pos = at["phone"].pos /\ pc'["phone"] = "next"
        /\ at["phone"].pos > 1
    BY <1>0, <1>3, <1>4, HandledLocal DEF Begun, Thread
  <2>2. at["phone"].pos > 2 \/ at["phone"].pos = 2
    BY <1>2, <2>1
  <2> QED
    BY <2>1, <2>2 DEF Passed
<1>5. CASE t = "master"
  <2>1. at'["master"].cmd = 0 /\ at'["phone"].cmd # c
    BY <1>0, <1>1, <1>3, <1>5, HandledLocal DEF Thread
  <2> QED
    BY <1>1, <2>1 DEF Passed
<1> QED
  BY SMTT(30), <1>4, <1>5 DEF Thread

LEMMA PutHanding ==
  ASSUME Typed, Owners, Live, Counting, Apart, Begun, Handing, Onward, NEW t \in Thread, Put(t)
  PROVE  Handing'
<1> DEFINE D == at[t].dev
           G == devs[D].proxy
           C == at[t].cmd
           S == at[t].phone
<1>1. /\ UNCHANGED <<device, cmds, queueIn, shared, raced>>
      /\ pc[t] = "put" /\ pc[t] \in Holding /\ pc[t] \in Drawing
  BY DEF Put, From, masterVars, Holding, Drawing, Sending
<1>2. /\ D \in 1..Len(devs) /\ G \in 0..Len(proxies) /\ C \in 1..Len(cmds)
      /\ Len(proxies)' = Len(proxies)
      /\ \A d \in 1..Len(devs) : devs'[d].proxy = devs[d].proxy
      /\ G # 0 => Handled(t)
      /\ G = 0 => UNCHANGED proxies
      /\ \A h \in 1..Len(proxies) :
           /\ proxies'[h].phone = proxies[h].phone /\ proxies'[h].on = proxies[h].on
           /\ proxies'[h].run = proxies[h].run
           /\ proxies'[h].queue = IF h = G THEN Append(proxies[h].queue, C) ELSE proxies[h].queue
  BY PutQueue
<1>3. \A d \in 1..Len(devs) :
        /\ devs'[d].lastSub = IF d = D THEN cmds[C].sub ELSE devs[d].lastSub
        /\ devs'[d].minSub = devs[d].minSub
  BY PutNumbers
<1>4. \A s \in Phone : device[s] = D /\ s \notin raced =>
        /\ s = S /\ devs[D].minSub <= devs[D].lastSub
        /\ cmds[C].sub = devs[D].subId /\ devs[D].lastSub < devs[D].subId
  BY <1>1, OnePhone DEF Ordered, Drawn
<1>4a. S \in Phone /\ (S \notin raced => device[S] = D) /\ ProxyOf(D, S)
  BY <1>1, HeldHere DEF Owners, Owned
<1>5. \A d \in 1..Len(devs) : devs[d].subId \in Nat /\ devs[d].lastSub \in Nat /\ devs[d].minSub \in Nat
  BY DeviceNumbers
<1>6. RepliesStay
  BY <1>1, SameReplies
<1>7. RepliesOurs'
  BY <1>2, <1>6, RepliesOursStays
<1> HIDE DEF D, C, S, G
<1>8. JudgedKept
  <2> SUFFICES ASSUME NEW g \in 1..Len(proxies), NEW c \in 1..Len(cmds), NEW n \in Nat,
                      Judged(g, c, n), c \notin shared', proxies'[g].phone \notin raced'
               PROVE  Above(g, n)'
    BY DEF JudgedKept, Judged
  <2> DEFINE s == proxies[g].phone
             d == device[s]
  <2>1. s \in Phone /\ d \in 1..Len(devs) /\ Above(g, n) /\ s \notin raced
    BY <1>1, <1>2, ProxyDevice DEF Judged
  <2>2. device'[proxies'[g].phone] = d /\ proxies'[g].on = proxies[g].on
    BY <1>1, <1>2
  <2>3. devs'[d].minSub = devs[d].minSub /\ devs'[d].proxy = devs[d].proxy
    BY <1>2, <1>3, <2>1
  <2>4. n <= devs'[d].lastSub
    <3>1. n <= devs[d].lastSub
      BY <2>1 DEF Above
    <3>2. CASE d = D
      <4>1. cmds[C].sub = devs[D].subId /\ devs[D].lastSub < devs[D].subId
        BY <1>4, <2>1, <3>2
      <4>2. devs'[d].lastSub = devs[D].subId
        BY <1>3, <2>1, <3>2, <4>1
      <4> QED
        BY <1>2, <1>5, <3>1, <3>2, <4>1, <4>2
    <3> QED
      BY <1>3, <2>1, <3>1, <3>2
  <2> QED
    BY <2>1, <2>2, <2>3, <2>4 DEF Above
<1>9. ASSUME NEW g \in 1..Len(proxies), NEW c \in 1..Len(cmds), NEW n \in Nat, Out(g, c, n)'
      PROVE  Passed(c)' /\ Judged(g, c, n)'
  <2>1. CASE Out(g, c, n)
    BY <1>8, <2>1, PassedStays DEF Handing, JudgedKept
  <2>2. CASE ~Out(g, c, n)
    <3>1. InProxy(g, c)' /\ ~InProxy(g, c) /\ n = cmds[c].sub
      BY <1>1, <1>9, <2>2 DEF Out, Replied
    <3>2. g = G /\ c = C
      <4>1. PICK i \in DOMAIN proxies'[g].queue : proxies'[g].queue[i] = c
        BY <1>2, <3>1 DEF InProxy
      <4>2. \A j \in DOMAIN proxies[g].queue : proxies[g].queue[j] # c
        BY <3>1 DEF InProxy
      <4>3. g = G /\ proxies'[g].queue = Append(proxies[g].queue, C)
        BY <1>2, <4>1, <4>2
      <4>4. proxies[g].queue \in Seq(1..Len(cmds))
        BY AllProxies, Lengths DEF Proxy, Typed
      <4> DEFINE q == proxies[g].queue
                 r == proxies'[g].queue
      <4>5. q \in Seq(1..Len(cmds)) /\ C \in 1..Len(cmds) /\ r = Append(q, C)
        BY <1>2, <4>3, <4>4
      <4>6. i \in DOMAIN r /\ r[i] = c
        BY <4>1
      <4> HIDE DEF q, r
      <4>7. i \in 1..(Len(q) + 1) /\ Len(q) \in Nat /\ DOMAIN q = 1..Len(q)
        BY <4>5, <4>6
      <4>8. IF i = Len(q) + 1 THEN r[i] = C ELSE i \in DOMAIN q /\ r[i] = q[i]
        BY <4>5, <4>7
      <4> QED
        BY <4>2, <4>3, <4>6, <4>8 DEF q
    <3>3. Passed(c)'
      <4>1. G # 0
        BY <3>2, Lengths DEF Typed
      <4> QED
        BY <1>2, <3>2, <4>1, PutPassed DEF C
    <3>4. G # 0 /\ proxies[g].phone = S /\ proxies[g].on /\ G = devs[D].proxy
      <4>1. G # 0
        BY <3>2, Lengths DEF Typed
      <4> QED
        BY <1>2, <1>4a, <3>2, <4>1 DEF ProxyOf, Live, G
    <3>5. ASSUME S \notin raced
          PROVE  Above(g, n)'
      <4>1. /\ device[S] = D /\ devs[D].minSub <= devs[D].lastSub
            /\ n = devs[D].subId /\ devs[D].lastSub < devs[D].subId
        BY <1>4, <1>4a, <3>1, <3>2, <3>5
      <4>2. n > devs[D].minSub
        BY <1>2, <1>5, <4>1
      <4>3. /\ device'[proxies'[g].phone] = D /\ proxies'[g].on = proxies[g].on /\ proxies'[g].on
            /\ devs'[D].lastSub = n /\ devs'[D].minSub = devs[D].minSub
        BY <1>1, <1>2, <1>3, <3>1, <3>2, <3>4, <4>1
      <4> QED
        BY <4>2, <4>3 DEF Above
    <3>6. proxies'[g].phone = S
      BY <1>2, <3>4
    <3> QED
      BY <1>1, <3>3, <3>5, <3>6 DEF Judged
  <2> QED
    BY <2>1, <2>2
<1> QED
  BY SMTT(30), <1>1, <1>2, <1>7, <1>9 DEF Handing, RepliesOurs

\* A timeout puts min_sub_command_id at the last number sent.
LEMMA TimeoutHanding ==
  ASSUME Typed, Owners, Counting, Handing, Onward, NEW t \in Thread, NEW x \in Phone, CheckTimeout(t, x)
  PROVE  Handing'
<1> DEFINE D == device[x]
           G == devs[D].proxy
<1>1. /\ UNCHANGED <<pc, at, cmds, device, raced, shared, queueIn>> /\ D \in 1..Len(devs)
      /\ Len(proxies)' = Len(proxies)
      /\ \A d \in 1..Len(devs) :
           /\ devs'[d].lastSub = devs[d].lastSub
           /\ devs'[d].minSub = IF d = D THEN devs[d].lastSub ELSE devs[d].minSub
           /\ devs'[d].proxy = IF d = D THEN 0 ELSE devs[d].proxy
      /\ \A h \in 1..Len(proxies) :
           /\ proxies'[h].phone = proxies[h].phone
           /\ proxies'[h].queue = proxies[h].queue /\ proxies'[h].run = proxies[h].run
           /\ proxies'[h].on = (proxies[h].on /\ h # G)
  BY TimeoutNumbers
<1>2. RepliesStay
  BY <1>1, SameReplies
<1>3. OutKept
  BY <1>1, <1>2, OutStays DEF InProxy
<1>4. G # 0 => proxies[G].phone = x
  <2>1. D # 0
    BY <1>1, Lengths DEF Typed
  <2> QED
    BY <2>1 DEF Owners, ProxyOf
<1>5. \A d \in 1..Len(devs) : devs[d].lastSub \in Nat /\ devs[d].minSub \in Nat
  BY DeviceNumbers
<1>6. JudgedKept
  <2> SUFFICES ASSUME NEW g \in 1..Len(proxies), NEW c \in 1..Len(cmds), NEW n \in Nat,
                      Judged(g, c, n), c \notin shared', proxies'[g].phone \notin raced'
               PROVE  Above(g, n)'
    BY DEF JudgedKept, Judged
  <2> DEFINE s == proxies[g].phone
             d == device[s]
  <2>1. s \in Phone /\ d \in 1..Len(devs) /\ Above(g, n) /\ s \notin raced
    BY <1>1, ProxyDevice DEF Judged
  <2>2. device'[proxies'[g].phone] = d /\ devs'[d].lastSub = devs[d].lastSub
    BY <1>1, <2>1
  <2>3. n <= devs[d].lastSub
    BY <2>1 DEF Above
  <2>4. g # 0
    BY Lengths DEF Typed
  <2>5. CASE d = D
    <3>1. devs'[d].minSub = devs[d].lastSub /\ devs'[d].proxy # g
      BY <1>1, <2>1, <2>4, <2>5
    <3> QED
      BY <2>2, <2>3, <3>1 DEF Above
  <2>6. CASE d # D
    <3>1. g # G
      BY <1>4, <2>4, <2>6
    <3>2. /\ devs'[d].minSub = devs[d].minSub /\ devs'[d].proxy = devs[d].proxy
          /\ proxies'[g].on = (proxies[g].on /\ g # G)
      BY <1>1, <2>1, <2>6
    <3> HIDE DEF D, G, d, s
    <3> QED
      BY <2>1, <2>2, <3>1, <3>2 DEF Above, d, s
  <2> QED
    BY <2>5, <2>6
<1> QED
  BY <1>1, <1>2, <1>3, <1>6, HandingStays

\* Taken from the queue, a command runs.
LEMMA TakeHanding ==
  ASSUME Typed, Handing, Onward, NEW g \in DOMAIN proxies, Take(g)
  PROVE  Handing'
<1>1. UNCHANGED <<device, devs, cmds, shared, raced>>
  BY DEF Take, masterVars, history
<1>2. /\ Len(proxies)' = Len(proxies) /\ g \in 1..Len(proxies)
      /\ proxies[g].queue # <<>> /\ proxies[g].queue \in Seq(1..Len(cmds))
      /\ proxies'[g].run = Head(proxies[g].queue) /\ proxies'[g].queue = Tail(proxies[g].queue)
      /\ \A h \in 1..Len(proxies) :
           /\ proxies'[h].phone = proxies[h].phone /\ proxies'[h].on = proxies[h].on
           /\ h # g => proxies'[h].queue = proxies[h].queue /\ proxies'[h].run = proxies[h].run
  BY TakeQueue, AllProxies
<1>3. RepliesStay
  <2>1. CASE UNCHANGED queueIn
    BY <2>1, SameReplies
  <2>2. CASE ~UNCHANGED queueIn
    <3> DEFINE m == [type |-> "start", phone |-> proxies[g].phone]
    <3>1. queueIn' = Append(queueIn, m) /\ m.type # "reply"
      BY <2>2 DEF Take
    <3> HIDE DEF m
    <3> QED
      BY <3>1, AddedMessage
  <2> QED
    BY <2>1, <2>2
<1>4. ASSUME NEW h \in 1..Len(proxies), NEW c, InProxy(h, c)'
      PROVE  InProxy(h, c)
  <2>1. CASE h # g
    BY <1>2, <1>4, <2>1 DEF InProxy
  <2>2. CASE h = g
    <3> DEFINE q == proxies[g].queue
    <3>1. q \in Seq(1..Len(cmds)) /\ q # <<>>
      BY <1>2
    <3> HIDE DEF q
    <3>2. /\ 1 \in DOMAIN q /\ Head(q) = q[1]
          /\ \A i \in DOMAIN Tail(q) : i + 1 \in DOMAIN q /\ Tail(q)[i] = q[i + 1]
      BY <3>1
    <3>3. proxies'[g].run = Head(q) /\ proxies'[g].queue = Tail(q) /\ q = proxies[g].queue
      BY <1>2 DEF q
    <3>4. CASE proxies'[g].run = c
      BY <2>2, <3>2, <3>3, <3>4 DEF InProxy
    <3>5. CASE proxies'[g].run # c
      <4>1. PICK i \in DOMAIN Tail(q) : Tail(q)[i] = c
        BY <1>4, <2>2, <3>3, <3>5 DEF InProxy
      <4> QED
        BY <2>2, <3>2, <3>3, <4>1 DEF InProxy
    <3> QED
      BY <3>4, <3>5
  <2> QED
    BY <2>1, <2>2
<1>5. OutKept
  BY <1>1, <1>2, <1>3, <1>4, OutStays
<1>6. JudgedKept
  BY <1>1, <1>2, JudgedStays
<1> QED
  BY <1>2, <1>3, <1>5, <1>6, HandingStays

\* Its reply is that of the proxy, with the number the command has.
LEMMA RunHanding ==
  ASSUME Typed, Handing, Onward, NEW g \in DOMAIN proxies, Run(g)
  PROVE  Handing'
<1> DEFINE C == proxies[g].run
           r == [type |-> "reply", phone |-> proxies[g].phone, proxy |-> g, cmd |-> C, sub |-> cmds[C].sub]
           p == [type |-> "stop", phone |-> proxies[g].phone]
<1>1. /\ UNCHANGED <<device, devs, cmds, shared, raced>> /\ C # 0
      /\ queueIn' = queueIn \/ queueIn' = queueIn \o <<r, p>>
  BY DEF Run, masterVars
<1>2. /\ Len(proxies)' = Len(proxies) /\ g \in 1..Len(proxies)
      /\ proxies'[g].run = 0
      /\ \A h \in 1..Len(proxies) :
           /\ proxies'[h].phone = proxies[h].phone /\ proxies'[h].on = proxies[h].on
           /\ proxies'[h].queue = proxies[h].queue
           /\ h # g => proxies'[h].run = proxies[h].run
  BY ProxyMoves, AllProxies
<1>3. C \in 1..Len(cmds) /\ Out(g, C, cmds[C].sub)
  <2>1. InProxy(g, C)
    BY DEF InProxy
  <2> QED
    BY <1>1, <1>2, <2>1, InProxyIs DEF Out
<1>4. /\ r.proxy = g /\ r.cmd = C /\ r.sub = cmds[C].sub /\ r.phone = proxies[g].phone
      /\ p.type # "reply"
  OBVIOUS
<1> HIDE DEF r, p
<1>5. \A i \in DOMAIN queueIn' : \/ \E j \in DOMAIN queueIn : queueIn[j] = queueIn'[i]
                                 \/ queueIn'[i] \in {r, p}
  <2>1. CASE queueIn' = queueIn
    BY <2>1
  <2>2. CASE queueIn' = queueIn \o <<r, p>>
    <3>1. queueIn \in Seq(Message)
      BY DEF Typed, TypeOK
    <3>2. /\ DOMAIN queueIn = 1..Len(queueIn) /\ Len(queueIn) \in Nat
          /\ DOMAIN queueIn' = 1..(Len(queueIn) + 2)
          /\ \A i \in 1..Len(queueIn) : queueIn'[i] = queueIn[i]
          /\ queueIn'[Len(queueIn) + 1] = r /\ queueIn'[Len(queueIn) + 2] = p
      BY <2>2, <3>1
    <3>3. \A i \in 1..(Len(queueIn) + 2) :
            i \in 1..Len(queueIn) \/ i = Len(queueIn) + 1 \/ i = Len(queueIn) + 2
      BY <3>2
    <3> QED
      BY <3>2, <3>3
  <2> QED
    BY <1>1, <2>1, <2>2
<1>6. ASSUME NEW i \in DOMAIN queueIn', queueIn'[i].type = "reply", queueIn'[i].proxy # 0
      PROVE  queueIn'[i].phone = proxies'[queueIn'[i].proxy].phone
  <2>1. CASE \E j \in DOMAIN queueIn : queueIn[j] = queueIn'[i]
    <3>1. PICK j \in DOMAIN queueIn : queueIn[j] = queueIn'[i]
      BY <2>1
    <3>2. queueIn[j].proxy \in 1..Len(proxies)
      BY <1>6, <3>1, ReplyIs, Lengths DEF Typed
    <3> QED
      BY <1>2, <1>6, <3>1, <3>2 DEF Handing
  <2>2. CASE queueIn'[i] \in {r, p}
    BY <1>2, <1>4, <1>6, <2>2
  <2> QED
    BY <1>5, <2>1, <2>2
<1>7. ASSUME NEW h \in 1..Len(proxies), NEW c \in 1..Len(cmds), NEW n \in Nat, Out(h, c, n)'
      PROVE  Out(h, c, n)
  <2>1. CASE InProxy(h, c)' /\ n = cmds'[c].sub
    <3>1. c # 0
      BY Lengths DEF Typed
    <3> QED
      BY <1>1, <1>2, <2>1, <3>1 DEF InProxy, Out
  <2>2. CASE Replied(h, c, n)'
    <3>1. PICK i \in DOMAIN queueIn' : IsReply(queueIn'[i], h, c, n)
      BY <2>2 DEF Replied
    <3>2. CASE \E j \in DOMAIN queueIn : queueIn[j] = queueIn'[i]
      <4>1. PICK j \in DOMAIN queueIn : queueIn[j] = queueIn'[i]
        BY <3>2
      <4>2. IsReply(queueIn[j], h, c, n)
        BY <3>1, <4>1
      <4> QED
        BY <4>2 DEF Out, Replied
    <3>3. CASE queueIn'[i] \in {r, p}
      BY <1>3, <1>4, <3>1, <3>3 DEF IsReply
    <3> QED
      BY <1>5, <3>2, <3>3
  <2> QED
    BY <1>7, <2>1, <2>2 DEF Out
<1>8. JudgedKept
  BY <1>1, <1>2, JudgedStays
<1>9. ASSUME NEW h \in 1..Len(proxies), NEW c \in 1..Len(cmds), NEW n \in Nat, Out(h, c, n)'
      PROVE  Passed(c)' /\ Judged(h, c, n)'
  <2>1. Out(h, c, n)
    BY <1>7, <1>9
  <2>2. Passed(c) /\ Judged(h, c, n)
    BY <2>1 DEF Handing
  <2> QED
    BY <1>8, <2>2, PassedStays DEF JudgedKept
<1> QED
  BY <1>1, <1>2, <1>6, <1>9 DEF Handing

-----------------------------------------------------------------------------
(* The steps together *)

LEMMA NextOnward ==
  ASSUME Typed, Apart, Begun, Next
  PROVE  Onward /\ Apart' /\ Begun'
<1>1. ASSUME NEW t \in Thread, NEW s \in Phone, CheckTimeout(t, s)
      PROVE  Onward /\ Apart' /\ Begun'
  BY <1>1, AsideOnward DEF CheckTimeout
<1>2. ASSUME NEW g \in DOMAIN proxies, ProxyStep(g)
      PROVE  Onward /\ Apart' /\ Begun'
  BY <1>2, AsideOnward DEF ProxyStep, Take, Run
<1> QED
  BY <1>1, <1>2, MasterOnward, ThreadOnward DEF Next

LEMMA ThreadHanding ==
  ASSUME Typed, Owners, Live, Counting, Apart, Begun, Handing, Onward, NEW t \in Thread, ThreadStep(t)
  PROVE  Handing'
<1>1. CASE AddNew(t)
  BY <1>1, AddHanding, AddNewHanding
<1>2. CASE Create(t)
  BY <1>2, CreateHanding
<1>3. CASE InstallOp(t) \/ Gen2Write(t)
  BY <1>3, WriteHanding
<1>4. CASE Put(t)
  BY <1>4, PutHanding
<1>5. CASE NextPhone(t) \/ Add(t)
  BY <1>5, AddHanding
<1>6. CASE MaybeCreate(t) \/ Added(t)
  BY <1>6, AddHanding
<1>7. CASE Gen1(t) \/ Gen2(t)
  BY <1>7, AddHanding
<1>8. CASE Start(t)
  BY <1>8, AddHanding
<1> QED
  BY <1>1, <1>2, <1>3, <1>4, <1>5, <1>6, <1>7, <1>8 DEF ThreadStep

LEMMA NextHanding ==
  ASSUME Typed, Owners, Live, Counting, Apart, Begun, Handing, Onward, Next
  PROVE  Handing'
<1>1. ASSUME NEW g \in DOMAIN proxies, ProxyStep(g) PROVE Handing'
  BY <1>1, TakeHanding, RunHanding DEF ProxyStep
<1> QED
  BY <1>1, MasterHanding, ThreadHanding, TimeoutHanding DEF Next

LEMMA NextFilter == FilterInv /\ [Next]_vars => FilterInv'
<1> SUFFICES ASSUME FilterInv, [Next]_vars PROVE FilterInv'
  OBVIOUS
<1>1. KnownInv' /\ Typed
  BY NextKnown DEF FilterInv, KnownInv
<1>2. CASE Next
  <2>1. Owners' /\ Live' /\ Counting'
    BY <1>1, <1>2, NextOwners, NextLive, NextCounting DEF FilterInv
  <2>2. Onward /\ Apart' /\ Begun'
    BY <1>1, <1>2, NextOnward DEF FilterInv
  <2>3. Handing'
    BY <1>1, <1>2, <2>2, NextHanding DEF FilterInv
  <2> QED
    BY <1>1, <2>1, <2>2, <2>3 DEF FilterInv
<1>3. CASE UNCHANGED vars
  <2>1. UNCHANGED <<device, devs, proxies, cmds, queueIn, pc, at, shared, raced>>
    BY <1>3 DEF vars, masterVars, objectVars, history
  <2>2. Owners'
    BY <2>1 DEF FilterInv, Owners, Owned, ProxyOf
  <2>3. Live'
    BY <2>1 DEF FilterInv, Live
  <2>4. Counting'
    BY <2>1 DEF FilterInv, Counting, Drawn, Ordered, Other
  <2>5. Apart' /\ Begun'
    BY <2>1 DEF FilterInv, Apart, Begun
  <2>6. Handing'
    BY <2>1 DEF FilterInv, Handing, Out, InProxy, Replied, IsReply, Passed, Judged, Above
  <2> QED
    BY <1>1, <2>2, <2>3, <2>4, <2>5, <2>6 DEF FilterInv
<1> QED
  BY <1>2, <1>3

LEMMA InitFilter == Init => FilterInv
<1> SUFFICES ASSUME Init PROVE FilterInv
  OBVIOUS
<1>1. /\ \A s \in Phone : device[s] = 0
      /\ \A t \in Thread : pc[t] = "idle" /\ at[t].cmd = 0
      /\ Len(devs) = 0 /\ Len(proxies) = 0 /\ 1..0 = {} /\ queueIn = <<>> /\ DOMAIN queueIn = {}
  BY DEF Init, Nowhere
<1>2. Owners
  BY <1>1 DEF Owners, Holding, Adding, Sending
<1>3. Live
  BY <1>1 DEF Live
<1>4. Counting
  BY <1>1 DEF Counting, Drawing
<1>5. Apart /\ Begun
  BY <1>1 DEF Apart, Begun, Adding, Sending, Thread
<1>6. Handing
  BY <1>1 DEF Handing
<1> QED
  BY <1>2, <1>3, <1>4, <1>5, <1>6, InitKnown DEF FilterInv

\* A reply counts exactly as long as the proxy that sends it is the device's:
\* a stopped proxy is never heard again, the current one always, if the number
\* of the command is of this phone and no two threads drew it at once
\* (min_sub_command_id and IsCurrentCommand, master.py:109).
THEOREM FilterHolds == Spec => []FilterExact
<1>1. FilterInv => FilterExact
  <2> SUFFICES ASSUME FilterInv, NEW i \in DOMAIN queueIn,
                      queueIn[i].type = "reply", queueIn[i].proxy # 0,
                      queueIn[i].cmd \notin shared, queueIn[i].phone \notin raced
               PROVE  LET m == queueIn[i]
                          d == devs[device[m.phone]]
                      IN /\ ~proxies[m.proxy].on => ~(m.sub > d.minSub)
                         /\ d.proxy = m.proxy => m.sub > d.minSub
    BY DEF FilterExact
  <2> DEFINE m == queueIn[i]
  <2>1. Typed /\ Handing
    BY DEF FilterInv, KnownInv
  <2>2. /\ m.proxy \in 1..Len(proxies) /\ m.cmd \in 1..Len(cmds) /\ m.sub \in Nat
        /\ m.phone \in Phone
    BY <2>1, ReplyIs, Lengths DEF Typed
  <2>3. Out(m.proxy, m.cmd, m.sub) /\ m.phone = proxies[m.proxy].phone
    BY <2>1 DEF Out, Replied, IsReply, Handing
  <2>4. Above(m.proxy, m.sub)
    BY <2>1, <2>2, <2>3 DEF Handing, Judged
  <2>5. devs[device[m.phone]].minSub \in Nat
    BY <2>1, <2>2, <2>3, ProxyDevice, DeviceNumbers
  <2> QED
    BY <2>2, <2>3, <2>4, <2>5 DEF Above
<1> QED
  BY <1>1, InitFilter, NextFilter, PTL DEF Spec
===============================================================================
