------------------------- MODULE UpdateCheckProofs -------------------------
(***************************************************************************)
(* Proofs about UpdateCheck for any apk list, any number of checks, of     *)
(* Deferreds and of threads in the pool.                                   *)
(***************************************************************************)
EXTENDS UpdateCheck, SequenceTheorems, FiniteSetTheorems, TLAPS

\* queue_in, the queue of the pool and the numbers of checks have their
\* types: what most steps of the proofs need of TypeOK.
LEMMA AppendTyped ==
  ASSUME NEW m \in Message, queueIn \in Seq(Message), queueIn' = Append(queueIn, m)
  PROVE  /\ queueIn' \in Seq(Message)
         /\ DOMAIN queueIn' = 1..(Len(queueIn) + 1)
         /\ DOMAIN queueIn = 1..Len(queueIn) /\ Len(queueIn) \in Nat
         /\ \A i \in DOMAIN queueIn : queueIn'[i] = queueIn[i]
         /\ queueIn'[Len(queueIn) + 1] = m
OBVIOUS

\* The first of a queue is taken, and the others move up.
LEMMA TailTyped ==
  ASSUME NEW S, NEW s \in Seq(S), s # <<>>
  PROVE  /\ Head(s) \in S /\ Head(s) = s[1] /\ 1 \in DOMAIN s
         /\ Tail(s) \in Seq(S)
         /\ DOMAIN Tail(s) = 1..(Len(s) - 1)
         /\ DOMAIN s = 1..Len(s) /\ Len(s) \in Nat
         /\ \A i \in DOMAIN Tail(s) : i + 1 \in DOMAIN s /\ Tail(s)[i] = s[i + 1]
OBVIOUS

\* Every message the threads build is a Message, ...
LEMMA MessageTyped ==
  /\ \A a \in Autos \cup {None} : [type |-> "check", auto |-> a] \in Message
  /\ \A c \in Checks, l \in Lists \cup {None} :
       [type |-> "pulled", check |-> c, list |-> l] \in Message
  /\ \A j \in Job : Downloaded(j) \in Message
BY DEF Message, Job, Downloaded

\* ... and has the fields its handler reads.
LEMMA MessageFields ==
  ASSUME NEW m \in Message
  PROVE  /\ m.type \in {"check", "pulled", "downloaded"}
         /\ m.type = "check" => m.auto \in Autos \cup {None}
         /\ m.type = "pulled" => m.check \in Checks /\ m.list \in Lists \cup {None}
         /\ m.type = "downloaded" => m.check \in Checks /\ m.pkg \in Packages
BY DEF Message

\* The packages Step2 asks for are packages of the list, finitely many, each
\* with an md5.
LEMMA NeededTyped ==
  ASSUME NEW list \in Lists
  PROVE  /\ Needed(list) \subseteq DOMAIN list /\ Needed(list) \subseteq Packages
         /\ \A p \in Needed(list) : list[p] \in Versions
         /\ Cardinality(Needed(list)) \in Nat
<1>1. PICK S \in SUBSET Packages : list \in [S -> Versions]
  BY ConstantsAssumption DEF List
<1>2. Needed(list) \subseteq S
  BY <1>1 DEF Needed
<1>3. IsFiniteSet(Needed(list))
  BY <1>1, <1>2, ConstantsAssumption, FS_Subset
<1>4. Cardinality(Needed(list)) \in Nat
  BY <1>3, FS_CardinalityType
<1> QED BY <1>1, <1>2, <1>4

\* The jobs of check c, in the order the dictionary yields them.
JobsOf(c, list, order) ==
  [i \in DOMAIN order |-> [check |-> c, pkg |-> order[i], md5 |-> list[order[i]]]]

LEMMA JobsTyped ==
  ASSUME NEW c \in Checks, NEW list \in Lists,
         NEW order \in [1..Cardinality(Needed(list)) -> Needed(list)]
  PROVE  /\ JobsOf(c, list, order) \in Seq(Job)
         /\ DOMAIN JobsOf(c, list, order) = DOMAIN order
         /\ Len(JobsOf(c, list, order)) = Cardinality(Needed(list))
<1> DEFINE n == Cardinality(Needed(list))
           job(i) == [check |-> c, pkg |-> order[i], md5 |-> list[order[i]]]
<1>1. n \in Nat
  BY NeededTyped
<1>2. \A i \in 1..n : job(i) \in Job
  BY NeededTyped DEF Job
<1>3. JobsOf(c, list, order) = [i \in 1..n |-> job(i)]
  BY DEF JobsOf
<1> HIDE DEF n, job
<1>4. [i \in 1..n |-> job(i)] \in Seq(Job)
  BY <1>1, <1>2, IsASeq
<1>5. DOMAIN [i \in 1..n |-> job(i)] = 1..n
  OBVIOUS
<1>6. Len(JobsOf(c, list, order)) = n
  BY <1>1, <1>3, <1>4, <1>5
<1>7. DOMAIN order = 1..n
  BY DEF n
<1> QED BY <1>3, <1>4, <1>5, <1>6, <1>7 DEF n

-----------------------------------------------------------------------------
(* Types *)

\* Step3 has a check to work on.
SavedKnown == pc \in {"saving", "filling"} => cur \in Checks

Typed == TypeOK /\ SavedKnown

LEMMA TypeInit == Init => Typed
<1> SUFFICES ASSUME Init
             PROVE  Typed
  OBVIOUS
<1>1. queueIn \in Seq(Message) /\ waiting \in Seq(Job)
  BY DEF Init
<1>2. listed \in [Checks -> Lists \cup {None}] /\ group \in [Checks -> SUBSET Packages]
  BY DEF Init
<1>3. fired \in [Autos -> Nat]
  BY DEF Init
<1>4. localProp \in Lists \cup {None} /\ json \in Lists \cup {None, Partial}
  BY DEF Init
<1>5. begun \in 0..MaxCheck /\ autos \in 0..MaxAuto /\ users \in 0..MaxUser
  BY ConstantsAssumption DEF Init
<1> QED BY <1>1, <1>2, <1>3, <1>4, <1>5 DEF Init, Typed, TypeOK, SavedKnown

LEMMA PoolTyped ==
  ASSUME Typed, PoolStep
  PROVE  Typed'
<1> USE DEF Typed, TypeOK, SavedKnown, netVars, diskVars, phoneVars
<1>1. ASSUME NEW c \in Checks, PullEnds(c)
      PROVE  Typed'
  <2>1. queueIn' \in Seq(Message)
    BY <1>1, MessageTyped, AppendTyped DEF PullEnds
  <2> QED BY <1>1, <2>1 DEF PullEnds
<1>2. CASE DownloadBegins
  <2> DEFINE j == Head(waiting)
  <2>1. j \in Job /\ waiting' \in Seq(Job)
    BY <1>2, TailTyped DEF DownloadBegins
  <2>2. queueIn' \in Seq(Message)
    BY <1>2, <2>1, MessageTyped, AppendTyped DEF DownloadBegins
  <2>3. files' \in [Packages -> Versions \cup {None, Partial}]
    BY <1>2, <2>1 DEF DownloadBegins
  <2>4. asking' \subseteq Job
    BY <1>2, <2>1 DEF DownloadBegins
  <2> QED BY <1>2, <2>1, <2>2, <2>3, <2>4 DEF DownloadBegins
<1>3. ASSUME NEW j \in Job, DownloadOpens(j)
      PROVE  Typed'
  <2>1. queueIn' \in Seq(Message)
    BY <1>3, MessageTyped, AppendTyped DEF DownloadOpens
  <2>2. files' \in [Packages -> Versions \cup {None, Partial}]
    BY <1>3 DEF DownloadOpens
  <2> QED BY <1>3, <2>1, <2>2 DEF DownloadOpens
<1>4. ASSUME NEW j \in Job, DownloadEnds(j)
      PROVE  Typed'
  <2>1. queueIn' \in Seq(Message)
    BY <1>4, MessageTyped, AppendTyped DEF DownloadEnds
  <2>2. j.pkg \in Packages /\ j.md5 \in Versions
    BY DEF Job
  <2>3. files' \in [Packages -> Versions \cup {None, Partial}]
    BY <1>4, <2>2 DEF DownloadEnds
  <2> QED BY <1>4, <2>1, <2>3 DEF DownloadEnds
<1> QED BY <1>1, <1>2, <1>3, <1>4 DEF PoolStep

LEMMA PopTyped ==
  ASSUME TypeOK, NEW type, Pop(type)
  PROVE  /\ Head(queueIn) \in Message /\ Head(queueIn).type = type
         /\ queueIn' \in Seq(Message)
BY TailTyped DEF Pop, TypeOK

\* LoadLocalProp never takes a file that is cut short for a list.
LEMMA LoadTyped ==
  ASSUME TypeOK, LoadLocalProp
  PROVE  localProp' \in Lists \cup {None}
BY DEF TypeOK, LoadLocalProp

LEMMA Step2Typed ==
  ASSUME Typed, Step2
  PROVE  Typed'
<1> DEFINE c == Head(queueIn).check
           list == Head(queueIn).list
<1> USE DEF Typed, TypeOK, SavedKnown, diskVars, phoneVars
<1>1. c \in Checks /\ list \in Lists \cup {None} /\ queueIn' \in Seq(Message)
  BY PopTyped, MessageFields DEF Step2
<1>2. pc' \in {"idle", "saving", "filling", "callback", "forget"}
  BY DEF Step2
<1>3. listed' \in [Checks -> Lists \cup {None}]
  BY <1>1 DEF Step2
<1>4. CASE UNCHANGED <<group, waiting>>
  BY <1>1, <1>2, <1>3, <1>4 DEF Step2
<1>5. CASE list # None /\ Needed(list) # {}
  <2>1. list \in Lists
    BY <1>1, <1>5
  <2>2. PICK order \in [1..Cardinality(Needed(list)) -> Needed(list)] :
          waiting' = waiting \o JobsOf(c, list, order)
    BY <1>5 DEF Step2, JobsOf
  <2>3. waiting' \in Seq(Job)
    BY <1>1, <2>1, <2>2, JobsTyped, ConcatProperties
  <2>4. group' = [group EXCEPT ![c] = Needed(list)]
    BY <1>5 DEF Step2
  <2>5. group' \in [Checks -> SUBSET Packages]
    BY <1>1, <2>1, <2>4, NeededTyped
  <2> QED BY <1>1, <1>2, <1>3, <2>3, <2>5 DEF Step2
<1> QED BY <1>4, <1>5 DEF Step2

LEMMA NetTyped ==
  ASSUME Typed, NetStep
  PROVE  Typed'
<1> USE DEF Typed, TypeOK, SavedKnown, poolVars, diskVars, phoneVars
<1>1. CASE BeginCheck
  <2>1. queueIn' \in Seq(Message) /\ Head(queueIn).auto \in Autos \cup {None}
    BY <1>1, PopTyped, MessageFields DEF BeginCheck
  <2>2. begun' \in 0..MaxCheck /\ pulls' \subseteq Checks
    BY <1>1, ConstantsAssumption DEF BeginCheck, Checks
  <2> QED BY <1>1, <2>1, <2>2 DEF BeginCheck
<1>2. CASE GroupCallback
  <2>1. queueIn' \in Seq(Message) /\ Head(queueIn).check \in Checks
    BY <1>2, PopTyped, MessageFields DEF GroupCallback
  <2>2. group' \in [Checks -> SUBSET Packages]
    BY <1>2, <2>1 DEF GroupCallback
  <2>3. pc' \in {"idle", "saving", "filling", "callback", "forget"} /\ cur' \in Checks \cup {None}
    BY <1>2, <2>1 DEF GroupCallback
  <2> QED BY <1>2, <2>1, <2>2, <2>3 DEF GroupCallback
<1>3. CASE SaveBegins
  BY <1>3 DEF SaveBegins
<1>4. CASE SaveEnds
  BY <1>4 DEF SaveEnds
<1>5. CASE CallbackDeferred
  <2>1. localProp' \in Lists \cup {None}
    BY <1>5, LoadTyped DEF CallbackDeferred
  <2>2. fired' \in [Autos -> Nat]
    BY <1>5 DEF CallbackDeferred
  <2>3. totalAuto' \in Autos \cup {None} /\ cur' \in Checks \cup {None}
        /\ pc' \in {"idle", "saving", "filling", "callback", "forget"}
    BY <1>5 DEF CallbackDeferred
  <2> QED BY <1>5, <2>1, <2>2, <2>3 DEF CallbackDeferred
<1>6. CASE ForgetDeferred
  BY <1>6 DEF ForgetDeferred
<1> QED BY <1>1, <1>2, <1>3, <1>4, <1>5, <1>6, Step2Typed DEF NetStep

LEMMA PhoneTyped ==
  ASSUME Typed, PhoneStep
  PROVE  Typed'
<1> USE DEF Typed, TypeOK, SavedKnown, netVars, poolVars, diskVars, User
<1>1. CASE TotalAutoInstall
  <2>1. autos + 1 \in Autos /\ autos' \in 0..MaxAuto
    BY <1>1, ConstantsAssumption DEF TotalAutoInstall, Autos
  <2>2. queueIn' \in Seq(Message)
    BY <1>1, <2>1, MessageTyped, AppendTyped DEF TotalAutoInstall
  <2> QED BY <1>1, <2>1, <2>2 DEF TotalAutoInstall
<1>2. CASE CheckUpdate
  <2>1. queueIn' \in Seq(Message)
    BY <1>2, MessageTyped, AppendTyped DEF CheckUpdate
  <2> QED BY <1>2, <2>1, ConstantsAssumption DEF CheckUpdate
<1>3. CASE GetLocalPackageList
  <2>1. localProp' \in Lists \cup {None}
    BY <1>3, LoadTyped DEF GetLocalPackageList
  <2> QED BY <1>3, <2>1, ConstantsAssumption DEF GetLocalPackageList
<1>4. CASE RemoveLocalPackageList
  <2>1. files' \in [Packages -> Versions \cup {None, Partial}]
    BY <1>4 DEF RemoveLocalPackageList
  <2> QED BY <1>4, <2>1, ConstantsAssumption DEF RemoveLocalPackageList
<1> QED BY <1>1, <1>2, <1>3, <1>4 DEF PhoneStep

LEMMA TypeNext == Typed /\ [Next]_vars => Typed'
<1> SUFFICES ASSUME Typed, [Next]_vars
             PROVE  Typed'
  OBVIOUS
<1>1. CASE UNCHANGED vars
  BY <1>1 DEF vars, netVars, poolVars, diskVars, phoneVars, Typed, TypeOK, SavedKnown
<1> QED BY <1>1, PoolTyped, NetTyped, PhoneTyped DEF Next

LEMMA TypedAlways == Spec => []Typed
BY TypeInit, TypeNext, PTL DEF Spec

\* Every variable keeps its type: a Deferred, a check or a file is always what
\* the handlers of net_logic/master.py take it for.
THEOREM TypeCorrect == Spec => []TypeOK
<1>1. Typed => TypeOK
  BY DEF Typed
<1> QED BY <1>1, TypedAlways, PTL

-----------------------------------------------------------------------------
(* The one tmp_defferd, and total_auto_defer *)

\* The message at i brings the Deferred of a fully automatic mode.
Brings(i) == i \in DOMAIN queueIn /\ queueIn[i].type = "check" /\ queueIn[i].auto # None

\* A Deferred that waits for its check is total_auto_defer, and there is only
\* one such message.  Once it is tmp_defferd there is none.
Waits ==
  /\ \A i \in DOMAIN queueIn : Brings(i) => queueIn[i].auto = totalAuto
  /\ \A i, k \in DOMAIN queueIn : Brings(i) /\ Brings(k) => i = k

Kept ==
  tmpDeferred # None /\ pc # "forget" =>
    tmpDeferred = totalAuto /\ \A i \in DOMAIN queueIn : ~Brings(i)

\* total_auto_defer has not been called back; nor has a Deferred not made yet.
Unfired ==
  /\ totalAuto # None => totalAuto <= autos /\ fired[totalAuto] = 0
  /\ \A a \in Autos : fired[a] <= 1 /\ (a > autos => fired[a] = 0)

DeferredInv == Waits /\ Kept /\ Unfired

LEMMA DeferredInit == Init => DeferredInv
BY ConstantsAssumption DEF Init, DeferredInv, Waits, Kept, Unfired, Brings, Autos

\* queue_in gets a message that brings no Deferred, or nothing.
LEMMA DeferredAppend ==
  ASSUME Typed, DeferredInv,
         \/ UNCHANGED queueIn
         \/ \E m \in Message : queueIn' = Append(queueIn, m) /\ (m.type = "check" => m.auto = None),
         UNCHANGED <<tmpDeferred, pc, totalAuto, autos, fired>>
  PROVE  DeferredInv'
<1>1. ASSUME UNCHANGED queueIn
      PROVE  DeferredInv'
  BY <1>1 DEF DeferredInv, Waits, Kept, Unfired, Brings
<1>2. ASSUME NEW m \in Message, queueIn' = Append(queueIn, m), m.type = "check" => m.auto = None
      PROVE  DeferredInv'
  <2>1. \A i \in DOMAIN queueIn' : Brings(i)' => i \in DOMAIN queueIn /\ queueIn'[i] = queueIn[i] /\ Brings(i)
    BY <1>2, AppendTyped DEF Typed, TypeOK, Brings
  <2> QED BY <2>1 DEF DeferredInv, Waits, Kept, Unfired
<1> QED BY <1>1, <1>2

\* queue_in loses its first message, and no Deferred comes or goes.
LEMMA PopBrings ==
  ASSUME Typed, NEW type, Pop(type)
  PROVE  /\ \A i \in DOMAIN queueIn' : Brings(i)' =>
              i + 1 \in DOMAIN queueIn /\ queueIn'[i] = queueIn[i + 1] /\ Brings(i + 1)
         /\ \A i \in DOMAIN queueIn' : i \in Nat \ {0}
         /\ 1 \in DOMAIN queueIn /\ Head(queueIn) = queueIn[1]
<1>1. queueIn \in Seq(Message) /\ queueIn # <<>> /\ queueIn' = Tail(queueIn)
  BY DEF Typed, TypeOK, Pop
<1> QED BY <1>1, TailTyped DEF Brings

LEMMA DeferredPop ==
  ASSUME Typed, DeferredInv, Step2 \/ GroupCallback
  PROVE  DeferredInv'
<1>1. \/ Pop("pulled") \/ Pop("downloaded")
  BY DEF Step2, GroupCallback
<1>2. UNCHANGED <<tmpDeferred, totalAuto, autos, fired>> /\ pc' # "forget" /\ pc # "forget"
  BY <1>1 DEF Step2, GroupCallback, phoneVars, Pop
<1>3. /\ \A i \in DOMAIN queueIn' : Brings(i)' =>
            i + 1 \in DOMAIN queueIn /\ queueIn'[i] = queueIn[i + 1] /\ Brings(i + 1)
      /\ \A i \in DOMAIN queueIn' : i \in Nat
  BY <1>1, PopBrings
<1>4. Waits'
  <2>1. ASSUME NEW i \in DOMAIN queueIn', NEW k \in DOMAIN queueIn', Brings(i)', Brings(k)'
        PROVE  i = k
    <3>1. i + 1 = k + 1
      BY <1>3, <2>1 DEF DeferredInv, Waits
    <3> QED BY <1>3, <3>1
  <2>2. ASSUME NEW i \in DOMAIN queueIn', Brings(i)'
        PROVE  queueIn'[i].auto = totalAuto'
    BY <1>2, <1>3, <2>2 DEF DeferredInv, Waits
  <2> QED BY <2>1, <2>2 DEF Waits
<1>5. Kept' /\ Unfired'
  BY <1>2, <1>3 DEF DeferredInv, Kept, Unfired
<1> QED BY <1>4, <1>5 DEF DeferredInv

\* ProcessInnerCheckUpdate takes over the one Deferred that waited.
LEMMA DeferredBegin ==
  ASSUME Typed, DeferredInv, BeginCheck
  PROVE  DeferredInv'
<1>1. Pop("check") /\ tmpDeferred' = Head(queueIn).auto /\ Head(queueIn).type = "check"
  BY DEF BeginCheck, Pop
<1>2. UNCHANGED <<pc, totalAuto, autos, fired>> /\ pc # "forget"
  BY <1>1 DEF BeginCheck, phoneVars, Pop
<1>3. /\ \A i \in DOMAIN queueIn' : Brings(i)' =>
            i + 1 \in DOMAIN queueIn /\ queueIn'[i] = queueIn[i + 1] /\ Brings(i + 1)
      /\ \A i \in DOMAIN queueIn' : i \in Nat \ {0}
      /\ 1 \in DOMAIN queueIn /\ Head(queueIn) = queueIn[1]
  BY <1>1, PopBrings
<1>4. Waits'
  <2>1. ASSUME NEW i \in DOMAIN queueIn', NEW k \in DOMAIN queueIn', Brings(i)', Brings(k)'
        PROVE  i = k
    <3>1. i + 1 = k + 1
      BY <1>3, <2>1 DEF DeferredInv, Waits
    <3> QED BY <1>3, <3>1
  <2>2. ASSUME NEW i \in DOMAIN queueIn', Brings(i)'
        PROVE  queueIn'[i].auto = totalAuto'
    BY <1>2, <1>3, <2>2 DEF DeferredInv, Waits
  <2> QED BY <2>1, <2>2 DEF Waits
<1>5. Kept'
  <2>1. SUFFICES ASSUME tmpDeferred' # None
                 PROVE  tmpDeferred' = totalAuto' /\ \A i \in DOMAIN queueIn' : ~Brings(i)'
    BY DEF Kept
  <2>2. Brings(1)
    BY <1>1, <1>3, <2>1 DEF Brings
  <2>3. tmpDeferred' = totalAuto'
    BY <1>1, <1>2, <1>3, <2>2 DEF DeferredInv, Waits
  <2>4. ASSUME NEW i \in DOMAIN queueIn', Brings(i)'
        PROVE  FALSE
    <3>1. i + 1 = 1
      BY <1>3, <2>2, <2>4 DEF DeferredInv, Waits
    <3> QED BY <1>3, <3>1
  <2> QED BY <2>3, <2>4
<1>6. Unfired'
  BY <1>2 DEF DeferredInv, Unfired
<1> QED BY <1>4, <1>5, <1>6 DEF DeferredInv

\* The Deferred that is called back is total_auto_defer, and has not been.
LEMMA DeferredCallback ==
  ASSUME Typed, DeferredInv, CallbackDeferred
  PROVE  DeferredInv'
<1> USE DEF DeferredInv, CallbackDeferred
<1>1. UNCHANGED <<queueIn, tmpDeferred, autos>> /\ pc = "callback"
  OBVIOUS
<1>2. CASE tmpDeferred = None
  <2>1. UNCHANGED <<fired, totalAuto>>
    BY <1>2
  <2> QED BY <1>1, <1>2, <2>1 DEF Waits, Kept, Unfired, Brings
<1>3. CASE tmpDeferred # None
  <2>1. tmpDeferred = totalAuto /\ tmpDeferred \in Autos /\ \A i \in DOMAIN queueIn : ~Brings(i)
    BY <1>1, <1>3 DEF Kept, Typed, TypeOK
  <2>2. fired' = [fired EXCEPT ![tmpDeferred] = @ + 1] /\ totalAuto' = None /\ pc' = "forget"
    BY <1>3
  <2>3. Waits' /\ Kept'
    BY <1>1, <2>1, <2>2 DEF Waits, Kept, Brings
  <2>4. Unfired'
    BY <1>1, <2>1, <2>2 DEF Unfired, Typed, TypeOK, Autos
  <2> QED BY <2>3, <2>4
<1> QED BY <1>2, <1>3

\* A Deferred is made only while there is no total_auto_defer, so none waits.
LEMMA DeferredMade ==
  ASSUME Typed, DeferredInv, TotalAutoInstall
  PROVE  DeferredInv'
<1> USE DEF DeferredInv, TotalAutoInstall, netVars
<1>1. autos' = autos + 1 /\ autos \in Nat /\ UNCHANGED <<tmpDeferred, pc, fired>>
  BY DEF Typed, TypeOK
<1>2. CASE totalAuto # None
  <2>1. UNCHANGED <<totalAuto, queueIn>>
    BY <1>2
  <2>2. totalAuto \in Nat /\ \A a \in Autos : a \in Nat
    BY <1>2 DEF Typed, TypeOK, Autos
  <2>3. Waits' /\ Kept'
    BY <1>1, <2>1 DEF Waits, Kept, Brings
  <2>4. Unfired'
    BY <1>1, <2>1, <2>2 DEF Unfired
  <2> QED BY <2>3, <2>4
<1>3. CASE totalAuto = None
  <2> DEFINE m == [type |-> "check", auto |-> autos + 1]
  <2>1. totalAuto' = autos + 1 /\ queueIn' = Append(queueIn, m)
    BY <1>3
  <2>2. autos + 1 \in Autos
    BY <1>1, ConstantsAssumption DEF Autos
  <2>3. m \in Message /\ queueIn \in Seq(Message)
    BY <2>2, MessageTyped DEF Typed, TypeOK
  <2>4. \A i \in DOMAIN queueIn : ~Brings(i)
    BY <1>3 DEF Waits, Brings
  <2>5. tmpDeferred = None \/ pc = "forget"
    BY <1>3 DEF Kept
  <2>6. \A i \in DOMAIN queueIn' : Brings(i)' => i = Len(queueIn) + 1 /\ queueIn'[i] = m
    BY <2>1, <2>3, <2>4, AppendTyped DEF Brings
  <2>7. Waits' /\ Kept'
    BY <1>1, <2>1, <2>5, <2>6 DEF Waits, Kept
  <2>8. Unfired'
    BY <1>1, <2>1, <2>2 DEF Unfired, Autos
  <2> QED BY <2>7, <2>8
<1> QED BY <1>2, <1>3

LEMMA DeferredNext == Typed /\ DeferredInv /\ [Next]_vars => DeferredInv'
<1> SUFFICES ASSUME Typed, DeferredInv, [Next]_vars
             PROVE  DeferredInv'
  OBVIOUS
<1>1. CASE UNCHANGED vars
  BY <1>1, DeferredAppend DEF vars, netVars, phoneVars
<1>2. ASSUME NEW c \in Checks, PullEnds(c)
      PROVE  DeferredInv'
  <2>1. \E m \in Message : queueIn' = Append(queueIn, m) /\ m.type = "pulled"
    BY <1>2, MessageTyped DEF PullEnds
  <2> QED BY <1>2, <2>1, DeferredAppend DEF PullEnds, netVars, phoneVars
<1>3. CASE DownloadBegins \/ \E j \in Job : DownloadOpens(j) \/ DownloadEnds(j)
  <2>1. \/ UNCHANGED queueIn
        \/ \E j \in Job : queueIn' = Append(queueIn, Downloaded(j))
    BY <1>3, TailTyped DEF DownloadBegins, DownloadOpens, DownloadEnds, Typed, TypeOK
  <2>2. \/ UNCHANGED queueIn
        \/ \E m \in Message : queueIn' = Append(queueIn, m) /\ m.type = "downloaded"
    BY <2>1, MessageTyped DEF Downloaded
  <2>3. UNCHANGED <<tmpDeferred, pc, totalAuto, autos, fired>>
    BY <1>3 DEF DownloadBegins, DownloadOpens, DownloadEnds, netVars, phoneVars
  <2> QED BY <2>2, <2>3, DeferredAppend
<1>4. CASE SaveBegins \/ SaveEnds
  BY <1>4 DEF SaveBegins, SaveEnds, phoneVars, DeferredInv, Waits, Kept, Unfired, Brings
<1>5. CASE ForgetDeferred
  BY <1>5 DEF ForgetDeferred, phoneVars, DeferredInv, Waits, Kept, Unfired, Brings
<1>6. CASE CheckUpdate
  <2>1. [type |-> "check", auto |-> None] \in Message
    BY MessageTyped
  <2>2. queueIn' = Append(queueIn, [type |-> "check", auto |-> None])
    BY <1>6 DEF CheckUpdate
  <2>3. UNCHANGED <<tmpDeferred, pc, totalAuto, autos, fired>>
    BY <1>6 DEF CheckUpdate, netVars
  <2> QED BY <2>1, <2>2, <2>3, DeferredAppend
<1>7. CASE GetLocalPackageList \/ RemoveLocalPackageList
  BY <1>7, DeferredAppend DEF GetLocalPackageList, RemoveLocalPackageList, netVars
<1> QED
  BY <1>1, <1>2, <1>3, <1>4, <1>5, <1>6, <1>7,
     DeferredBegin, DeferredPop, DeferredCallback, DeferredMade
  DEF Next, PoolStep, NetStep, PhoneStep

LEMMA DeferredAlways == Spec => []DeferredInv
BY TypedAlways, DeferredInit, DeferredNext, PTL DEF Spec

\* However the phone thread makes Deferreds while the net thread calls one
\* back, none is called back twice and no two are under way (master.py:293,
\* phone.py:385-401).
THEOREM DeferredOnce == Spec => []DeferredIsCurrent
<1>1. DeferredInv => DeferredIsCurrent
  BY DEF DeferredInv, Waits, Kept, Unfired, Brings, DeferredIsCurrent
<1> QED BY <1>1, DeferredAlways, PTL

-----------------------------------------------------------------------------
(* The calls of a check and where they are *)

Same(j, k) == j.check = k.check /\ j.pkg = k.pkg

\* The message at i is the end of a download, or the answer check c waits for.
Back(i)      == i \in DOMAIN queueIn /\ queueIn[i].type = "downloaded"
Answer(i, c) == i \in DOMAIN queueIn /\ queueIn[i].type = "pulled" /\ queueIn[i].check = c

\* Every call in the pool, and every one on its way back, is still open in
\* the group of its check.
Called ==
  /\ \A j \in asking \cup writing : j.pkg \in group[j.check]
  /\ \A i \in DOMAIN waiting : waiting[i].pkg \in group[waiting[i].check]
  /\ \A i \in DOMAIN queueIn : Back(i) => queueIn[i].pkg \in group[queueIn[i].check]

\* And it is in one place only, so its return closes it.
InPool ==
  /\ asking \cap writing = {}
  /\ \A j, k \in asking \cup writing : Same(j, k) => j = k
  /\ \A i \in DOMAIN waiting, j \in asking \cup writing : ~Same(waiting[i], j)
  /\ \A i, k \in DOMAIN waiting : Same(waiting[i], waiting[k]) => i = k

Returned ==
  /\ \A i, k \in DOMAIN queueIn :
       Back(i) /\ Back(k) /\ Same(queueIn[i], queueIn[k]) => i = k
  /\ \A i \in DOMAIN queueIn : Back(i) => \A j \in asking \cup writing : ~Same(queueIn[i], j)
  /\ \A i \in DOMAIN queueIn : Back(i) => \A k \in DOMAIN waiting : ~Same(queueIn[i], waiting[k])

\* A check is answered once, has no calls before that and is saved after it.
Pulling(c) == c \in pulls \/ \E i \in DOMAIN queueIn : Answer(i, c)

AnsweredOnce ==
  \A c \in Checks :
    /\ \A i \in DOMAIN queueIn : Answer(i, c) => c \notin pulls
    /\ \A i, k \in DOMAIN queueIn : Answer(i, c) /\ Answer(k, c) => i = k

NotYet ==
  \A c \in Checks :
    /\ Pulling(c) => c <= begun /\ group[c] = {} /\ ~(cur = c /\ pc \in {"saving", "filling"})
    /\ c > begun => group[c] = {}

Saving == pc \in {"saving", "filling"} => cur \in Checks /\ cur <= begun /\ group[cur] = {}

PoolInv == Called /\ InPool /\ Returned /\ AnsweredOnce /\ NotYet /\ Saving

LEMMA PoolInit == Init => PoolInv
BY DEF Init, PoolInv, Called, InPool, Returned, AnsweredOnce, NotYet, Saving,
       Pulling, Answer, Back, Same

\* Steps that neither call nor answer: a message of another kind at most.
LEMMA PoolFrame ==
  ASSUME Typed, PoolInv, UNCHANGED <<poolVars, group, begun>>,
         \/ UNCHANGED queueIn
         \/ \E m \in Message : queueIn' = Append(queueIn, m) /\ m.type = "check",
         \/ UNCHANGED <<pc, cur>>
         \/ pc' \notin {"saving", "filling"}
         \/ UNCHANGED cur /\ pc = "saving" /\ pc' = "filling"
  PROVE  PoolInv'
<1>1. /\ \A i : Back(i)' => Back(i) /\ queueIn'[i] = queueIn[i]
      /\ \A i, c : Answer(i, c)' => Answer(i, c)
  <2>1. CASE UNCHANGED queueIn
    BY <2>1 DEF Back, Answer
  <2>2. ASSUME NEW m \in Message, queueIn' = Append(queueIn, m), m.type = "check"
        PROVE  /\ \A i : Back(i)' => Back(i) /\ queueIn'[i] = queueIn[i]
               /\ \A i, c : Answer(i, c)' => Answer(i, c)
    BY <2>2, AppendTyped DEF Typed, TypeOK, Back, Answer
  <2> QED BY <2>1, <2>2
<1>2. UNCHANGED <<pulls, waiting, asking, writing, group, begun>>
  BY DEF poolVars
<1>3. \A i : (Back(i) => i \in DOMAIN queueIn) /\ \A c : Answer(i, c) => i \in DOMAIN queueIn
  BY DEF Back, Answer
<1>4. Called' /\ InPool' /\ Returned'
  BY <1>1, <1>2, <1>3 DEF PoolInv, Called, InPool, Returned, Same
<1>5. AnsweredOnce'
  BY <1>1, <1>2, <1>3 DEF PoolInv, AnsweredOnce
<1>6. \A c : Pulling(c)' => Pulling(c)
  BY <1>1, <1>2, <1>3 DEF Pulling
<1>7. NotYet' /\ Saving'
  BY <1>2, <1>6 DEF PoolInv, NotYet, Saving
<1> QED BY <1>4, <1>5, <1>7 DEF PoolInv

LEMMA PoolPull ==
  ASSUME Typed, PoolInv, NEW c \in Checks, PullEnds(c)
  PROVE  PoolInv'
<1>1. PICK m \in Message : queueIn' = Append(queueIn, m) /\ m.type = "pulled" /\ m.check = c
  BY MessageTyped DEF PullEnds
<1>2. pulls' = pulls \ {c} /\ c \in pulls
      /\ UNCHANGED <<waiting, asking, writing, group, begun, pc, cur>>
  BY DEF PullEnds, netVars
<1>3. /\ \A i : Back(i)' => Back(i) /\ queueIn'[i] = queueIn[i]
      /\ \A i, d : Answer(i, d)' => Answer(i, d) \/ (i = Len(queueIn) + 1 /\ d = c)
  BY <1>1, AppendTyped DEF Typed, TypeOK, Back, Answer
<1>4. \A i : (Back(i) => i \in DOMAIN queueIn) /\ \A d : Answer(i, d) => i \in DOMAIN queueIn
  BY DEF Back, Answer
<1>5. Called' /\ InPool' /\ Returned'
  BY <1>2, <1>3, <1>4 DEF PoolInv, Called, InPool, Returned, Same
<1>6. AnsweredOnce'
  BY <1>2, <1>3, <1>4 DEF PoolInv, AnsweredOnce
<1>7. \A d : Pulling(d)' => Pulling(d)
  BY <1>2, <1>3, <1>4 DEF Pulling
<1>8. NotYet' /\ Saving'
  BY <1>2, <1>7 DEF PoolInv, NotYet, Saving
<1> QED BY <1>5, <1>6, <1>8 DEF PoolInv

\* The end of download j is put into queue_in, or nothing is; the pool keeps
\* the other calls.
LEMMA PoolMoves ==
  ASSUME Typed, PoolInv, NEW j \in Job, j.pkg \in group[j.check],
         UNCHANGED <<pulls, group, begun, pc, cur>>,
         \A i \in DOMAIN queueIn : Back(i) => ~Same(queueIn[i], j),
         Called /\ InPool => InPool',
         \A k \in asking' \cup writing' : k \in asking \cup writing \/ k = j,
         \A i \in DOMAIN waiting' : \E k \in DOMAIN waiting : waiting'[i] = waiting[k],
         \/ UNCHANGED queueIn
         \/ /\ queueIn' = Append(queueIn, Downloaded(j))
            /\ \A k \in asking' \cup writing' : ~Same(j, k)
            /\ \A i \in DOMAIN waiting' : ~Same(j, waiting'[i])
  PROVE  PoolInv'
<1> DEFINE n == Len(queueIn) + 1
           Gone == /\ \A k \in asking' \cup writing' : ~Same(j, k)
                   /\ \A i \in DOMAIN waiting' : ~Same(j, waiting'[i])
<1>1. /\ \A i : Back(i)' => \/ Back(i) /\ queueIn'[i] = queueIn[i]
                            \/ i = n /\ Same(queueIn'[i], j) /\ Gone
      /\ \A i, c : Answer(i, c)' => Answer(i, c)
  <2>1. CASE UNCHANGED queueIn
    BY <2>1 DEF Back, Answer
  <2>2. CASE queueIn' = Append(queueIn, Downloaded(j)) /\ Gone
    <3>1. Downloaded(j) \in Message /\ Downloaded(j).type = "downloaded" /\ Same(Downloaded(j), j)
      BY MessageTyped DEF Downloaded, Same
    <3>2. /\ DOMAIN queueIn' = 1..n /\ queueIn'[n] = Downloaded(j)
          /\ DOMAIN queueIn = 1..Len(queueIn) /\ Len(queueIn) \in Nat
          /\ \A i \in DOMAIN queueIn : queueIn'[i] = queueIn[i]
      BY <2>2, <3>1, AppendTyped DEF Typed, TypeOK
    <3>3. \A i \in DOMAIN queueIn' : i \in DOMAIN queueIn \/ i = n
      BY <3>2
    <3> HIDE DEF n, Gone
    <3> QED BY <2>2, <3>1, <3>2, <3>3 DEF Back, Answer
  <2> QED BY <2>1, <2>2
<1>2. \A i : (Back(i) => i \in DOMAIN queueIn) /\ \A c : Answer(i, c) => i \in DOMAIN queueIn
  BY DEF Back, Answer
<1> HIDE DEF n
<1>3. Called'
  <2>1. \A k \in asking' \cup writing' : k.pkg \in group'[k.check]
    BY DEF PoolInv, Called
  <2>2. \A i \in DOMAIN waiting' : waiting'[i].pkg \in group'[waiting'[i].check]
    BY DEF PoolInv, Called
  <2>3. \A i \in DOMAIN queueIn' : Back(i)' => queueIn'[i].pkg \in group'[queueIn'[i].check]
    BY <1>1, <1>2 DEF PoolInv, Called, Same
  <2> QED BY <2>1, <2>2, <2>3 DEF Called
<1>4. InPool'
  BY DEF PoolInv
<1>5. Returned'
  <2>1. ASSUME NEW i \in DOMAIN queueIn', NEW k \in DOMAIN queueIn',
               Back(i)', Back(k)', Same(queueIn'[i], queueIn'[k])
        PROVE  i = k
    BY <1>1, <1>2, <2>1 DEF PoolInv, Returned, Same
  <2>2. ASSUME NEW i \in DOMAIN queueIn', Back(i)'
        PROVE  /\ \A k \in asking' \cup writing' : ~Same(queueIn'[i], k)
               /\ \A k \in DOMAIN waiting' : ~Same(queueIn'[i], waiting'[k])
    <3>1. CASE Back(i) /\ queueIn'[i] = queueIn[i]
      BY <1>2, <3>1 DEF PoolInv, Returned
    <3>2. CASE Same(queueIn'[i], j) /\ Gone
      BY <3>2 DEF Same
    <3> QED BY <1>1, <2>2, <3>1, <3>2
  <2> QED BY <2>1, <2>2 DEF Returned, Same
<1>6. AnsweredOnce'
  BY <1>1, <1>2 DEF PoolInv, AnsweredOnce
<1>7. \A c : Pulling(c)' => Pulling(c)
  BY <1>1, <1>2 DEF Pulling
<1>8. NotYet' /\ Saving'
  BY <1>7 DEF PoolInv, NotYet, Saving
<1> QED BY <1>3, <1>4, <1>5, <1>6, <1>8 DEF PoolInv

LEMMA PoolDownload ==
  ASSUME Typed, PoolInv, DownloadBegins \/ \E j \in Job : DownloadOpens(j) \/ DownloadEnds(j)
  PROVE  PoolInv'
<1>1. ASSUME NEW j \in Job, DownloadOpens(j) \/ DownloadEnds(j)
      PROVE  PoolInv'
  <2>1. UNCHANGED <<pulls, waiting, group, begun, pc, cur>>
    BY <1>1 DEF DownloadOpens, DownloadEnds, netVars
  <2>2. /\ j \in asking \cup writing
        /\ asking' \subseteq asking /\ asking' \cup writing' \subseteq asking \cup writing
        /\ InPool => InPool'
        /\ \/ UNCHANGED queueIn
           \/ queueIn' = Append(queueIn, Downloaded(j)) /\ (InPool => j \notin asking' \cup writing')
    BY <1>1, <2>1 DEF DownloadOpens, DownloadEnds, InPool
  <2>3. j.pkg \in group[j.check] /\ \A i \in DOMAIN queueIn : Back(i) => ~Same(queueIn[i], j)
    BY <2>2 DEF PoolInv, Called, Returned
  <2>4. \A i \in DOMAIN waiting : ~Same(j, waiting[i])
    BY <2>2 DEF PoolInv, InPool, Same
  <2>5. j \notin asking' \cup writing' => \A k \in asking' \cup writing' : ~Same(j, k)
    BY <2>2 DEF PoolInv, InPool
  <2> QED BY <2>1, <2>2, <2>3, <2>4, <2>5, PoolMoves DEF PoolInv
<1>2. CASE DownloadBegins
  <2> DEFINE j == Head(waiting)
  <2>1. UNCHANGED <<pulls, writing, group, begun, pc, cur>> /\ waiting' = Tail(waiting) /\ waiting # <<>>
    BY <1>2 DEF DownloadBegins, netVars
  <2>2. /\ j \in Job /\ j = waiting[1] /\ 1 \in DOMAIN waiting
        /\ \A i \in DOMAIN waiting' : i + 1 \in DOMAIN waiting /\ waiting'[i] = waiting[i + 1]
        /\ \A i \in DOMAIN waiting' : i \in Nat \ {0}
    BY <2>1, TailTyped DEF Typed, TypeOK
  <2>3. \/ UNCHANGED <<queueIn, asking>>
        \/ UNCHANGED queueIn /\ asking' = asking \cup {j}
        \/ queueIn' = Append(queueIn, Downloaded(j)) /\ UNCHANGED asking
    BY <1>2 DEF DownloadBegins
  <2> HIDE DEF j
  <2>4. \A i \in DOMAIN waiting' : ~Same(j, waiting'[i])
    BY <2>2 DEF PoolInv, InPool
  <2>5. \A k \in asking \cup writing : ~Same(j, k)
    BY <2>2 DEF PoolInv, InPool
  <2>6. InPool'
    <3>1. \A i, k \in DOMAIN waiting' : Same(waiting'[i], waiting'[k]) => i = k
      <4> SUFFICES ASSUME NEW i \in DOMAIN waiting', NEW k \in DOMAIN waiting',
                          Same(waiting'[i], waiting'[k])
                   PROVE  i = k
        OBVIOUS
      <4>1. i + 1 = k + 1
        BY <2>2 DEF PoolInv, InPool
      <4> QED BY <2>2, <4>1
    <3>2. \A i \in DOMAIN waiting', k \in asking \cup writing : ~Same(waiting'[i], k)
      BY <2>2 DEF PoolInv, InPool
    <3>3. asking' \subseteq asking \cup {j} /\ writing' = writing
      BY <2>1, <2>3
    <3>4. j \notin asking \cup writing
      BY <2>5 DEF Same
    <3>5. \A i \in DOMAIN waiting', k \in asking' \cup writing' : ~Same(waiting'[i], k)
      BY <2>4, <3>2, <3>3 DEF Same
    <3>6. \A a, b \in asking' \cup writing' : Same(a, b) => a = b
      BY <2>5, <3>3 DEF PoolInv, InPool, Same
    <3>7. asking' \cap writing' = {}
      BY <3>3, <3>4 DEF PoolInv, InPool
    <3> QED BY <3>1, <3>5, <3>6, <3>7 DEF InPool
  <2>7. j.pkg \in group[j.check] /\ \A i \in DOMAIN queueIn : Back(i) => ~Same(queueIn[i], j)
    BY <2>2 DEF PoolInv, Called, Returned
  <2>8. \A k \in asking' \cup writing' : k \in asking \cup writing \/ k = j
    BY <2>1, <2>3
  <2>9. \A i \in DOMAIN waiting' : \E k \in DOMAIN waiting : waiting'[i] = waiting[k]
    BY <2>2
  <2>10. \/ UNCHANGED queueIn
         \/ /\ queueIn' = Append(queueIn, Downloaded(j))
            /\ \A k \in asking' \cup writing' : ~Same(j, k)
    BY <2>1, <2>3, <2>5
  <2> QED BY <2>1, <2>2, <2>4, <2>6, <2>7, <2>8, <2>9, <2>10, PoolMoves
<1> QED BY <1>1, <1>2

\* What the net thread leaves in queue_in when it has taken a message.
LEMMA PopRest ==
  ASSUME Typed, NEW type, Pop(type)
  PROVE  /\ Head(queueIn) = queueIn[1] /\ 1 \in DOMAIN queueIn /\ queueIn[1].type = type
         /\ pc = "idle"
         /\ \A i \in DOMAIN queueIn' :
              i \in Nat \ {0} /\ i + 1 \in DOMAIN queueIn /\ queueIn'[i] = queueIn[i + 1]
         /\ \A i : Back(i)' => i \in DOMAIN queueIn' /\ Back(i + 1)
         /\ \A i, c : Answer(i, c)' => i \in DOMAIN queueIn' /\ Answer(i + 1, c)
         /\ \A i : (Back(i) => i \in DOMAIN queueIn) /\ \A c : Answer(i, c) => i \in DOMAIN queueIn
<1>1. queueIn \in Seq(Message) /\ queueIn # <<>> /\ queueIn' = Tail(queueIn)
      /\ Head(queueIn).type = type /\ pc = "idle"
  BY DEF Typed, TypeOK, Pop
<1> QED BY <1>1, TailTyped DEF Back, Answer

\* Whatever is popped, the rest of queue_in keeps what it says of the calls.
LEMMA PopReturned ==
  ASSUME Typed, PoolInv, NEW type, Pop(type), UNCHANGED <<asking, writing>>
  PROVE  /\ \A i, k \in DOMAIN queueIn' :
              Back(i)' /\ Back(k)' /\ Same(queueIn'[i], queueIn'[k]) => i = k
         /\ \A i \in DOMAIN queueIn' : Back(i)' => \A j \in asking' \cup writing' : ~Same(queueIn'[i], j)
         /\ \A c \in Checks : \A i, k \in DOMAIN queueIn' : Answer(i, c)' /\ Answer(k, c)' => i = k
<1>1. ASSUME NEW i \in DOMAIN queueIn', NEW k \in DOMAIN queueIn',
             Back(i)', Back(k)', Same(queueIn'[i], queueIn'[k])
      PROVE  i = k
  <2>1. i + 1 = k + 1
    BY <1>1, PopRest DEF PoolInv, Returned
  <2>2. i \in Nat /\ k \in Nat
    BY PopRest
  <2> QED BY <2>1, <2>2
<1>2. ASSUME NEW c \in Checks, NEW i \in DOMAIN queueIn', NEW k \in DOMAIN queueIn',
             Answer(i, c)', Answer(k, c)'
      PROVE  i = k
  <2>1. i + 1 = k + 1
    BY <1>2, PopRest DEF PoolInv, AnsweredOnce
  <2>2. i \in Nat /\ k \in Nat
    BY PopRest
  <2> QED BY <2>1, <2>2
<1>3. \A i \in DOMAIN queueIn' : Back(i)' => \A j \in asking' \cup writing' : ~Same(queueIn'[i], j)
  BY PopRest DEF PoolInv, Returned
<1> QED BY <1>1, <1>2, <1>3

\* A check that begins is a new one.
LEMMA PoolBegin ==
  ASSUME Typed, PoolInv, BeginCheck
  PROVE  PoolInv'
<1>1. Pop("check") /\ UNCHANGED <<waiting, asking, writing, group, pc, cur>>
      /\ begun' = begun + 1 /\ pulls' = pulls \cup {begun + 1}
  BY DEF BeginCheck
<1>2. begun \in Nat /\ \A c \in Checks : c \in Nat
  BY DEF Typed, TypeOK, Checks
<1>3. Called' /\ InPool'
  BY <1>1, PopRest DEF PoolInv, Called, InPool
<1>4. Returned'
  <2>1. \A i \in DOMAIN queueIn' : Back(i)' => \A k \in DOMAIN waiting' : ~Same(queueIn'[i], waiting'[k])
    BY <1>1, PopRest DEF PoolInv, Returned
  <2> QED BY <1>1, <2>1, PopReturned DEF Returned, Same
<1>5. \A c \in Checks : ~(c = begun + 1 /\ Pulling(c))
  BY <1>2 DEF PoolInv, NotYet
<1>6. AnsweredOnce'
  <2>1. \A c \in Checks : \A i \in DOMAIN queueIn' : Answer(i, c)' => c \notin pulls'
    BY <1>1, <1>5, PopRest DEF PoolInv, AnsweredOnce, Pulling
  <2> QED BY <1>1, <2>1, PopReturned DEF AnsweredOnce
<1>7. \A c \in Checks : Pulling(c)' => Pulling(c) \/ c = begun + 1
  BY <1>1, PopRest DEF Pulling
<1>8. NotYet' /\ Saving'
  BY <1>1, <1>2, <1>7, PopRest DEF PoolInv, NotYet, Saving
<1> QED BY <1>3, <1>4, <1>6, <1>8 DEF PoolInv

\* The check whose answer Step2 has popped is not pulling any more.
LEMMA PopAnswer ==
  ASSUME Typed, PoolInv, Pop("pulled"), UNCHANGED pulls, NEW c, c = Head(queueIn).check
  PROVE  /\ c \in Checks /\ Pulling(c) /\ ~Pulling(c)'
         /\ \A d \in Checks : d # c => (Pulling(d)' <=> Pulling(d))
<1>1. c \in Checks /\ Answer(1, c) /\ 1 \in DOMAIN queueIn
  BY PopTyped, PopRest, MessageFields DEF Answer, Typed
<1>2. ~Pulling(c)'
  <2>1. c \notin pulls'
    BY <1>1 DEF PoolInv, AnsweredOnce
  <2>2. ASSUME NEW i \in DOMAIN queueIn', Answer(i, c)'
        PROVE  FALSE
    <3>1. i + 1 = 1
      BY <1>1, <2>2, PopRest DEF PoolInv, AnsweredOnce
    <3> QED BY <3>1, PopRest
  <2> QED BY <2>1, <2>2 DEF Pulling
<1>3. ASSUME NEW d \in Checks, d # c
      PROVE  Pulling(d)' <=> Pulling(d)
  <2>1. Pulling(d)' => Pulling(d)
    BY PopRest DEF Pulling
  <2>2. ASSUME NEW i \in DOMAIN queueIn, Answer(i, d)
        PROVE  Pulling(d)'
    <3>1. queueIn \in Seq(Message) /\ queueIn' = Tail(queueIn) /\ queueIn # <<>>
      BY DEF Typed, TypeOK, Pop
    <3>2. i # 1
      BY <1>3, <2>2, PopRest DEF Answer
    <3>3. i - 1 \in DOMAIN queueIn' /\ queueIn'[i - 1] = queueIn[i]
      BY <3>1, <3>2
    <3> QED BY <2>2, <3>3 DEF Pulling, Answer
  <2> QED BY <2>1, <2>2 DEF Pulling
<1> QED BY <1>1, <1>2, <1>3 DEF Pulling

LEMMA PoolStep2 ==
  ASSUME Typed, PoolInv, Step2
  PROVE  PoolInv'
<1>0. PICK c, list : c = Head(queueIn).check /\ list = Head(queueIn).list
  OBVIOUS
<1>1. Pop("pulled") /\ UNCHANGED <<pulls, asking, writing, begun>> /\ cur' = c
  BY <1>0 DEF Step2
<1>2. c \in Checks /\ list \in Lists \cup {None}
  BY <1>0, <1>1, PopTyped, MessageFields DEF Typed
<1>3. /\ Pulling(c) /\ ~Pulling(c)' /\ c <= begun /\ group[c] = {}
      /\ \A d \in Checks : Pulling(d)' => Pulling(d) /\ d # c
  BY <1>0, <1>1, PopAnswer DEF PoolInv, NotYet
<1>4. \/ UNCHANGED <<group, waiting>> /\ pc' \in {"saving", "callback"}
      \/ list # None /\ pc' = "idle"
         /\ group' = [group EXCEPT ![c] = Needed(list)]
         /\ \E order \in [1..Cardinality(Needed(list)) -> Needed(list)] :
              /\ \A i, k \in DOMAIN order : i # k => order[i] # order[k]
              /\ waiting' = waiting \o JobsOf(c, list, order)
  BY <1>0, <1>1 DEF Step2, JobsOf, Pop
<1>5. AnsweredOnce'
  <2>1. \A d \in Checks : \A i \in DOMAIN queueIn' : Answer(i, d)' => d \notin pulls'
    BY <1>1, PopRest DEF PoolInv, AnsweredOnce
  <2> QED BY <1>1, <2>1, PopReturned DEF AnsweredOnce
<1>6. pc = "idle"
  BY <1>1 DEF Pop
<1>7. CASE UNCHANGED <<group, waiting>> /\ pc' \in {"saving", "callback"}
  <2>1. Called' /\ InPool'
    BY <1>1, <1>7, PopRest DEF PoolInv, Called, InPool
  <2>2. Returned'
    <3>1. \A i \in DOMAIN queueIn' : Back(i)' => \A k \in DOMAIN waiting' : ~Same(queueIn'[i], waiting'[k])
      BY <1>1, <1>7, PopRest DEF PoolInv, Returned
    <3> QED BY <1>1, <3>1, PopReturned DEF Returned, Same
  <2>3. NotYet' /\ Saving'
    BY <1>1, <1>2, <1>3, <1>6, <1>7 DEF PoolInv, NotYet, Saving
  <2> QED BY <1>5, <2>1, <2>2, <2>3 DEF PoolInv
<1>8. ASSUME list # None, pc' = "idle", group' = [group EXCEPT ![c] = Needed(list)],
             NEW order \in [1..Cardinality(Needed(list)) -> Needed(list)],
             \A i, k \in DOMAIN order : i # k => order[i] # order[k],
             waiting' = waiting \o JobsOf(c, list, order)
      PROVE  PoolInv'
  <2> DEFINE jobs == JobsOf(c, list, order)
  <2>1. list \in Lists /\ group \in [Checks -> SUBSET Packages] /\ waiting \in Seq(Job)
    BY <1>2, <1>8 DEF Typed, TypeOK
  <2>2. /\ jobs \in Seq(Job) /\ DOMAIN jobs = DOMAIN order
        /\ \A i \in DOMAIN order : jobs[i].check = c /\ jobs[i].pkg = order[i]
    BY <1>2, <2>1, JobsTyped DEF JobsOf
  <2>3. group'[c] = Needed(list) /\ \A d \in Checks : d # c => group'[d] = group[d]
    BY <1>2, <1>8, <2>1
  <2> HIDE DEF jobs
  <2>4. /\ \A i \in DOMAIN waiting' :
             \/ i \in DOMAIN waiting /\ waiting'[i] = waiting[i]
             \/ /\ i - Len(waiting) \in DOMAIN order
                /\ waiting'[i] = jobs[i - Len(waiting)]
        /\ Len(waiting) \in Nat /\ \A i \in DOMAIN waiting' : i \in Nat
    <3>1. waiting' = waiting \o jobs
      BY <1>8 DEF jobs
    <3>2. /\ Len(waiting) \in Nat /\ Len(jobs) \in Nat
          /\ DOMAIN jobs = 1..Len(jobs) /\ DOMAIN waiting = 1..Len(waiting)
          /\ DOMAIN waiting' = 1..(Len(waiting) + Len(jobs))
          /\ \A i \in 1..(Len(waiting) + Len(jobs)) : waiting'[i] =
               IF i <= Len(waiting) THEN waiting[i] ELSE jobs[i - Len(waiting)]
      BY <2>1, <2>2, <3>1
    <3> QED BY <2>2, <3>2
  <2>5. /\ \A j \in asking \cup writing : j.check \in Checks /\ j.check # c
        /\ \A i \in DOMAIN waiting : waiting[i].check \in Checks /\ waiting[i].check # c
        /\ \A i \in DOMAIN queueIn' : Back(i)' => queueIn'[i].check \in Checks /\ queueIn'[i].check # c
    <3>1. \A j \in asking \cup writing : j.check \in Checks
      BY DEF Typed, TypeOK, Job
    <3>2. \A i \in DOMAIN waiting : waiting[i] \in Job
      BY <2>1
    <3>3. \A i \in DOMAIN queueIn : Back(i) => queueIn[i].check \in Checks
      <4>1. \A i \in DOMAIN queueIn : queueIn[i] \in Message
        BY DEF Typed, TypeOK
      <4> QED BY <4>1, MessageFields DEF Back
    <3>4. \A i \in DOMAIN waiting : waiting[i].check \in Checks
      BY <3>2 DEF Job
    <3> QED BY <1>1, <1>3, <3>1, <3>3, <3>4, PopRest DEF PoolInv, Called
  <2>6. Called'
    <3>1. \A j \in asking' \cup writing' : j.pkg \in group'[j.check]
      BY <1>1, <2>3, <2>5 DEF PoolInv, Called
    <3>2. \A i \in DOMAIN waiting' : waiting'[i].pkg \in group'[waiting'[i].check]
      BY <2>2, <2>3, <2>4, <2>5 DEF PoolInv, Called
    <3>3. \A i \in DOMAIN queueIn' : Back(i)' => queueIn'[i].pkg \in group'[queueIn'[i].check]
      BY <1>1, <2>3, <2>5, PopRest DEF PoolInv, Called
    <3> QED BY <3>1, <3>2, <3>3 DEF Called
  <2>7. InPool'
    <3>1. \A i \in DOMAIN waiting', j \in asking' \cup writing' : ~Same(waiting'[i], j)
      BY <1>1, <2>2, <2>4, <2>5 DEF PoolInv, InPool, Same
    <3>2. ASSUME NEW i \in DOMAIN waiting', NEW k \in DOMAIN waiting', Same(waiting'[i], waiting'[k])
          PROVE  i = k
      <4>1. CASE i \in DOMAIN waiting /\ waiting'[i] = waiting[i]
        BY <2>2, <2>4, <2>5, <3>2, <4>1 DEF PoolInv, InPool, Same
      <4>2. CASE i - Len(waiting) \in DOMAIN order /\ waiting'[i] = jobs[i - Len(waiting)]
        <5>1. ~(k \in DOMAIN waiting /\ waiting'[k] = waiting[k])
          BY <2>2, <2>5, <3>2, <4>2 DEF Same
        <5>2. k - Len(waiting) \in DOMAIN order /\ waiting'[k] = jobs[k - Len(waiting)]
          BY <2>4, <5>1
        <5>3. i - Len(waiting) = k - Len(waiting)
          BY <1>8, <2>2, <3>2, <4>2, <5>2 DEF Same
        <5> QED BY <2>4, <5>3
      <4> QED BY <2>4, <4>1, <4>2
    <3>3. asking' \cap writing' = {} /\ \A j, k \in asking' \cup writing' : Same(j, k) => j = k
      BY <1>1 DEF PoolInv, InPool, Same
    <3> QED BY <3>1, <3>2, <3>3 DEF InPool, Same
  <2>8. Returned'
    <3>1. ASSUME NEW i \in DOMAIN queueIn', Back(i)', NEW k \in DOMAIN waiting'
          PROVE  ~Same(queueIn'[i], waiting'[k])
      <4>1. CASE k \in DOMAIN waiting /\ waiting'[k] = waiting[k]
        BY <1>1, <3>1, <4>1, PopRest DEF PoolInv, Returned
      <4>2. CASE waiting'[k].check = c
        BY <2>5, <3>1, <4>2 DEF Same
      <4> QED BY <2>2, <2>4, <4>1, <4>2
    <3> QED BY <1>1, <3>1, PopReturned DEF Returned, Same
  <2>9. NotYet' /\ Saving'
    <3>1. begun \in Nat /\ c \in Nat
      BY <1>2 DEF Typed, TypeOK, Checks
    <3>2. NotYet'
      BY <1>1, <1>2, <1>3, <1>8, <2>3, <3>1 DEF PoolInv, NotYet
    <3> QED BY <1>8, <3>2 DEF Saving
  <2> QED BY <1>5, <2>6, <2>7, <2>8, <2>9 DEF PoolInv
<1> QED BY <1>4, <1>7, <1>8

\* A download that returns is the only trace of its call.
LEMMA PoolGroup ==
  ASSUME Typed, PoolInv, GroupCallback
  PROVE  PoolInv'
<1> DEFINE m == Head(queueIn)
           rest == group[m.check] \ {m.pkg}
<1>1. Pop("downloaded") /\ UNCHANGED <<pulls, asking, writing, waiting, begun>>
      /\ group' = [group EXCEPT ![m.check] = rest]
      /\ \/ rest = {} /\ pc' = "saving" /\ cur' = m.check
         \/ UNCHANGED <<pc, cur>>
  BY DEF GroupCallback, poolVars
<1>2. m.check \in Checks /\ Back(1) /\ m = queueIn[1] /\ 1 \in DOMAIN queueIn /\ pc = "idle"
  BY <1>1, PopTyped, PopRest, MessageFields DEF Back, Typed
<1>3. group'[m.check] = rest /\ \A d \in Checks : d # m.check => group'[d] = group[d]
  BY <1>1, <1>2 DEF Typed, TypeOK
<1> HIDE DEF m
<1>4. /\ \A j \in asking \cup writing : ~Same(m, j)
      /\ \A k \in DOMAIN waiting : ~Same(m, waiting[k])
      /\ \A i \in DOMAIN queueIn' : Back(i)' => ~Same(m, queueIn'[i])
  <2>1. \A j \in asking \cup writing : ~Same(m, j)
    BY <1>2 DEF PoolInv, Returned
  <2>2. \A k \in DOMAIN waiting : ~Same(m, waiting[k])
    BY <1>2 DEF PoolInv, Returned
  <2>3. ASSUME NEW i \in DOMAIN queueIn', Back(i)', Same(m, queueIn'[i])
        PROVE  FALSE
    <3>1. i + 1 = 1
      BY <1>1, <1>2, <2>3, PopRest DEF PoolInv, Returned
    <3> QED BY <1>1, <3>1, PopRest
  <2> QED BY <2>1, <2>2, <2>3
<1>5. Called'
  <2>0. /\ \A j \in asking \cup writing : j.check \in Checks
        /\ \A i \in DOMAIN waiting : waiting[i].check \in Checks
        /\ \A i \in DOMAIN queueIn : Back(i) => queueIn[i].check \in Checks
    <3>1. \A j \in asking \cup writing : j.check \in Checks
      BY DEF Typed, TypeOK, Job
    <3>2. \A i \in DOMAIN waiting : waiting[i] \in Job
      BY DEF Typed, TypeOK
    <3>3. \A i \in DOMAIN waiting : waiting[i].check \in Checks
      BY <3>2 DEF Job
    <3>4. \A i \in DOMAIN queueIn : queueIn[i] \in Message
      BY DEF Typed, TypeOK
    <3> QED BY <3>1, <3>3, <3>4, MessageFields DEF Back
  <2>1. \A j \in asking' \cup writing' : j.pkg \in group'[j.check]
    BY <1>1, <1>3, <1>4, <2>0 DEF PoolInv, Called, Same
  <2>2. \A i \in DOMAIN waiting' : waiting'[i].pkg \in group'[waiting'[i].check]
    BY <1>1, <1>3, <1>4, <2>0 DEF PoolInv, Called, Same
  <2>3. ASSUME NEW i \in DOMAIN queueIn', Back(i)'
        PROVE  queueIn'[i].pkg \in group'[queueIn'[i].check]
    <3>1. /\ queueIn'[i].check \in Checks /\ queueIn'[i].pkg \in group[queueIn'[i].check]
          /\ ~Same(m, queueIn'[i])
      BY <1>1, <1>4, <2>0, <2>3, PopRest DEF PoolInv, Called
    <3> QED BY <1>3, <3>1 DEF Same
  <2> QED BY <2>1, <2>2, <2>3 DEF Called
<1>6. InPool'
  BY <1>1 DEF PoolInv, InPool
<1>7. Returned'
  <2>1. \A i \in DOMAIN queueIn' : Back(i)' => \A k \in DOMAIN waiting' : ~Same(queueIn'[i], waiting'[k])
    BY <1>1, PopRest DEF PoolInv, Returned
  <2> QED BY <1>1, <2>1, PopReturned DEF Returned, Same
<1>8. AnsweredOnce'
  <2>1. \A d \in Checks : \A i \in DOMAIN queueIn' : Answer(i, d)' => d \notin pulls'
    BY <1>1, PopRest DEF PoolInv, AnsweredOnce
  <2> QED BY <1>1, <2>1, PopReturned DEF AnsweredOnce
<1>9. \A d \in Checks : Pulling(d)' => Pulling(d)
  BY <1>1, PopRest DEF Pulling
<1>10. m.pkg \in group[m.check]
  BY <1>2 DEF PoolInv, Called
<1>11. m.check <= begun
  <2>1. begun \in Nat /\ m.check \in Nat
    BY <1>2 DEF Typed, TypeOK, Checks
  <2> QED BY <1>2, <1>10, <2>1 DEF PoolInv, NotYet
<1>12. NotYet' /\ Saving'
  <2>1. NotYet'
    BY <1>1, <1>2, <1>3, <1>9, <1>10 DEF PoolInv, NotYet
  <2>2. Saving'
    BY <1>1, <1>2, <1>3, <1>11 DEF Saving
  <2> QED BY <2>1, <2>2
<1> QED BY <1>5, <1>6, <1>7, <1>8, <1>12 DEF PoolInv

LEMMA PoolNext == Typed /\ PoolInv /\ [Next]_vars => PoolInv'
<1> SUFFICES ASSUME Typed, PoolInv, [Next]_vars
             PROVE  PoolInv'
  OBVIOUS
<1>1. CASE UNCHANGED vars
  BY <1>1, PoolFrame DEF vars, netVars
<1>2. CASE SaveBegins \/ SaveEnds \/ CallbackDeferred \/ ForgetDeferred
  <2>1. UNCHANGED <<queueIn, poolVars, group, begun>>
    BY <1>2 DEF SaveBegins, SaveEnds, CallbackDeferred, ForgetDeferred
  <2>2. \/ pc' \notin {"saving", "filling"}
        \/ UNCHANGED cur /\ pc = "saving" /\ pc' = "filling"
    BY <1>2 DEF SaveBegins, SaveEnds, CallbackDeferred, ForgetDeferred
  <2> QED BY <2>1, <2>2, PoolFrame
<1>3. CASE PhoneStep
  <2>1. UNCHANGED <<poolVars, group, begun, pc, cur>>
    BY <1>3 DEF PhoneStep, TotalAutoInstall, CheckUpdate, GetLocalPackageList,
                RemoveLocalPackageList, netVars
  <2>2. \/ UNCHANGED queueIn
        \/ \E a \in Autos \cup {None} : queueIn' = Append(queueIn, [type |-> "check", auto |-> a])
    <3>1. autos < MaxAuto => autos + 1 \in Autos
      BY ConstantsAssumption DEF Typed, TypeOK, Autos
    <3> QED BY <1>3, <3>1 DEF PhoneStep, TotalAutoInstall, CheckUpdate, GetLocalPackageList,
                RemoveLocalPackageList
  <2>3. \/ UNCHANGED queueIn
        \/ \E m \in Message : queueIn' = Append(queueIn, m) /\ m.type = "check"
    BY <2>2, MessageTyped
  <2> QED BY <2>1, <2>3, PoolFrame
<1> QED
  BY <1>1, <1>2, <1>3, PoolPull, PoolDownload, PoolBegin, PoolStep2, PoolGroup
  DEF Next, PoolStep, NetStep

LEMMA PoolAlways == Spec => []PoolInv
BY TypedAlways, PoolInit, PoolNext, PTL DEF Spec

\* When Step3 writes the config file, every download of the check has returned
\* and its CallObject has been taken (utility.py, Task; master.py:150-175).
THEOREM PoolDone == Spec => []PoolDoneBeforeSave
<1>1. PoolInv => PoolDoneBeforeSave
  BY DEF PoolInv, Called, Saving, Back, PoolDoneBeforeSave
<1> QED BY <1>1, PoolAlways, PTL

-----------------------------------------------------------------------------
(* A check goes through the phases of Task *)

\* Step3 works on check c.
Held(c) == cur = c /\ pc \in {"saving", "filling"}

\* The guards of Phase exclude each other, ...
LEMMA PhaseIs ==
  ASSUME Typed, PoolInv, NEW c \in Checks
  PROVE  Phase(c) = IF c > begun THEN "none"
                    ELSE IF Pulling(c) THEN "pull"
                    ELSE IF group[c] # {} THEN "load"
                    ELSE IF Held(c) THEN "save" ELSE "end"
<1>1. begun \in Nat /\ c \in Nat
  BY DEF Typed, TypeOK, Checks
<1>2. (c \in pulls \/ \E i \in DOMAIN queueIn : queueIn[i].type = "pulled" /\ queueIn[i].check = c)
        <=> Pulling(c)
  BY DEF Pulling, Answer
<1>3. /\ c > begun => ~Pulling(c) /\ group[c] = {} /\ ~Held(c)
      /\ Pulling(c) => group[c] = {} /\ ~Held(c)
      /\ Held(c) => group[c] = {}
  BY <1>1 DEF PoolInv, NotYet, Saving, Held
<1> QED BY <1>2, <1>3 DEF Phase, Held

\* ... after the step as well.
LEMMA PhaseIsThen ==
  ASSUME Typed', PoolInv', NEW c \in Checks
  PROVE  Phase(c)' = IF c > begun' THEN "none"
                     ELSE IF Pulling(c)' THEN "pull"
                     ELSE IF group'[c] # {} THEN "load"
                     ELSE IF Held(c)' THEN "save" ELSE "end"
<1>1. begun' \in Nat /\ c \in Nat
  BY DEF Typed, TypeOK, Checks
<1>2. (c \in pulls' \/ \E i \in DOMAIN queueIn' : queueIn'[i].type = "pulled" /\ queueIn'[i].check = c)
        <=> Pulling(c)'
  BY DEF Pulling, Answer
<1>3. /\ c > begun' => ~Pulling(c)' /\ group'[c] = {} /\ ~Held(c)'
      /\ Pulling(c)' => group'[c] = {} /\ ~Held(c)'
      /\ Held(c)' => group'[c] = {}
  BY <1>1 DEF PoolInv, NotYet, Saving, Held
<1> QED BY <1>2, <1>3 DEF Phase, Held

Stable == Typed /\ Typed' /\ PoolInv /\ PoolInv'

\* A check that nothing touches stays in its phase, ...
LEMMA PhaseKept ==
  ASSUME Stable, NEW c \in Checks,
         c > begun' <=> c > begun, Pulling(c)' <=> Pulling(c),
         group'[c] = group[c], Held(c)' <=> Held(c)
  PROVE  Phase(c)' = Phase(c)
BY PhaseIs, PhaseIsThen DEF Stable

\* ... and a step that touches no check is a stutter of Task.
LEMMA PhasesSame ==
  ASSUME \A c \in Checks : Phase(c)' = Phase(c), UNCHANGED group
  PROVE  UNCHANGED Phases!vars
BY DEF Phases!vars

\* One check enters another phase.
LEMMA PhasesMove ==
  ASSUME NEW c \in Checks, NEW a, NEW b, Phase(c) = a, Phase(c)' = b,
         \A d \in Checks : d # c => Phase(d)' = Phase(d)
  PROVE  Phases!To(c, a, b)
BY DEF Phases!To

LEMMA PhasesInit == Init => Phases!Init
<1> SUFFICES ASSUME Init
             PROVE  Phases!Init
  OBVIOUS
<1>1. \A c \in Checks : c > begun
  BY DEF Init, Checks
<1>2. \A c \in Checks : ~(c \in pulls \/ \E i \in DOMAIN queueIn :
                            queueIn[i].type = "pulled" /\ queueIn[i].check = c)
  BY DEF Init
<1>3. \A c \in Checks : group[c] = {} /\ ~(cur = c /\ pc \in {"saving", "filling"})
  BY DEF Init
<1>4. \A c \in Checks : Phase(c) = "none"
  BY <1>1, <1>2, <1>3 DEF Phase
<1>5. group = [c \in Checks |-> {}]
  BY DEF Init
<1> QED BY <1>4, <1>5 DEF Phases!Init

\* The answer comes back to queue_in, downloads move through the pool, and
\* the phone thread asks for more.
LEMMA PhasesFrame ==
  ASSUME Stable, UNCHANGED <<group, begun>>,
         \/ UNCHANGED <<queueIn, pulls>>
         \/ UNCHANGED pulls /\ \E m \in Message :
              queueIn' = Append(queueIn, m) /\ m.type # "pulled"
         \/ \E c \in Checks : PullEnds(c),
         \A c \in Checks : Held(c)' <=> Held(c)
  PROVE  UNCHANGED Phases!vars
<1>1. \A c \in Checks : Pulling(c)' <=> Pulling(c)
  <2>1. CASE UNCHANGED <<queueIn, pulls>>
    BY <2>1 DEF Pulling, Answer
  <2>2. ASSUME NEW m \in Message, queueIn' = Append(queueIn, m), m.type # "pulled", UNCHANGED pulls
        PROVE  \A c \in Checks : Pulling(c)' <=> Pulling(c)
    <3> DEFINE n == Len(queueIn) + 1
    <3>1. /\ DOMAIN queueIn' = 1..n /\ queueIn'[n].type # "pulled"
          /\ DOMAIN queueIn = 1..Len(queueIn) /\ Len(queueIn) \in Nat
          /\ \A i \in DOMAIN queueIn : queueIn'[i] = queueIn[i]
      BY <2>2, AppendTyped DEF Stable, Typed, TypeOK
    <3>2. /\ \A i \in DOMAIN queueIn' : i \in DOMAIN queueIn \/ i = n
          /\ \A i \in DOMAIN queueIn : i \in DOMAIN queueIn'
      BY <3>1
    <3> HIDE DEF n
    <3> QED BY <2>2, <3>1, <3>2 DEF Pulling, Answer
  <2>3. ASSUME NEW d \in Checks, PullEnds(d)
        PROVE  \A c \in Checks : Pulling(c)' <=> Pulling(c)
    <3>1. PICK m \in Message : queueIn' = Append(queueIn, m) /\ m.type = "pulled" /\ m.check = d
      BY <2>3, MessageTyped DEF PullEnds
    <3>2. pulls' = pulls \ {d} /\ d \in pulls
      BY <2>3 DEF PullEnds
    <3> DEFINE n == Len(queueIn) + 1
    <3>3. /\ DOMAIN queueIn' = 1..n /\ queueIn'[n].type = "pulled" /\ queueIn'[n].check = d
          /\ DOMAIN queueIn = 1..Len(queueIn) /\ Len(queueIn) \in Nat
          /\ \A i \in DOMAIN queueIn : queueIn'[i] = queueIn[i]
      BY <3>1, AppendTyped DEF Stable, Typed, TypeOK
    <3>4. /\ \A i \in DOMAIN queueIn' : i \in DOMAIN queueIn \/ i = n
          /\ \A i \in DOMAIN queueIn : i \in DOMAIN queueIn'
          /\ n \in DOMAIN queueIn'
      BY <3>3
    <3> HIDE DEF n
    <3> QED BY <3>2, <3>3, <3>4 DEF Pulling, Answer
  <2> QED BY <2>1, <2>2, <2>3
<1> QED BY <1>1, PhaseKept, PhasesSame

LEMMA PhasesBegin ==
  ASSUME Stable, BeginCheck
  PROVE  Phases!Next
<1>1. PICK c : c = begun + 1
  OBVIOUS
<1>2. c \in Checks /\ begun \in Nat /\ \A d \in Checks : d \in Nat
  BY <1>1, ConstantsAssumption DEF BeginCheck, Stable, Typed, TypeOK, Checks
<1>3. begun' = c /\ pulls' = pulls \cup {c} /\ UNCHANGED <<group, pc, cur>> /\ Pop("check")
  BY <1>1 DEF BeginCheck
<1>4. Phase(c) = "none" /\ Phase(c)' = "pull"
  <2>1. Pulling(c)'
    BY <1>3 DEF Pulling
  <2> QED BY <1>1, <1>2, <1>3, <2>1, PhaseIs, PhaseIsThen DEF Stable
<1>5. ASSUME NEW d \in Checks, d # c
      PROVE  Phase(d)' = Phase(d)
  <2>1. Pulling(d)' => Pulling(d)
    BY <1>3, <1>5, PopRest DEF Pulling, Stable
  <2>2. ASSUME NEW i \in DOMAIN queueIn, Answer(i, d)
        PROVE  Pulling(d)'
    <3>1. queueIn \in Seq(Message) /\ queueIn' = Tail(queueIn) /\ queueIn # <<>>
      BY <1>3 DEF Stable, Typed, TypeOK, Pop
    <3>2. i # 1
      BY <1>3, <2>2, PopRest DEF Answer, Stable
    <3>3. i - 1 \in DOMAIN queueIn' /\ queueIn'[i - 1] = queueIn[i]
      BY <3>1, <3>2
    <3> QED BY <2>2, <3>3 DEF Pulling, Answer
  <2>3. Pulling(d)' <=> Pulling(d)
    BY <1>3, <2>1, <2>2 DEF Pulling
  <2>4. d > begun' <=> d > begun
    BY <1>1, <1>2, <1>3, <1>5
  <2> QED BY <1>3, <2>3, <2>4, PhaseKept DEF Held
<1> QED BY <1>2, <1>3, <1>4, <1>5, PhasesMove DEF Phases!Next, Phases!Start

LEMMA PhasesStep2 ==
  ASSUME Stable, Step2
  PROVE  Phases!Next
<1>1. PICK c, list : c = Head(queueIn).check /\ list = Head(queueIn).list
  OBVIOUS
<1>2. Pop("pulled") /\ UNCHANGED <<pulls, begun>> /\ cur' = c /\ pc = "idle"
  BY <1>1 DEF Step2, Pop
<1>3. /\ c \in Checks /\ Pulling(c) /\ ~Pulling(c)'
      /\ \A d \in Checks : d # c => (Pulling(d)' <=> Pulling(d))
  BY <1>1, <1>2, PopAnswer DEF Stable
<1>4. c <= begun /\ group[c] = {} /\ Phase(c) = "pull" /\ begun \in Nat /\ c \in Nat
  <2>1. c <= begun /\ group[c] = {} /\ begun \in Nat /\ c \in Nat
    BY <1>3 DEF Stable, PoolInv, NotYet, Typed, TypeOK, Checks
  <2> QED BY <1>3, <2>1, PhaseIs DEF Stable
<1>5. list \in Lists \cup {None} /\ group \in [Checks -> SUBSET Packages]
  BY <1>1, <1>2, PopTyped, MessageFields DEF Stable, Typed, TypeOK
<1>6. \A d \in Checks : d # c => group'[d] = group[d]
  BY <1>1, <1>3, <1>5 DEF Step2
<1>7. \A d \in Checks : d # c => Phase(d)' = Phase(d)
  BY <1>2, <1>3, <1>6, PhaseKept DEF Held
<1>8. CASE list = None
  <2>1. pc' = "callback" /\ UNCHANGED group
    BY <1>1, <1>8 DEF Step2
  <2>2. Phase(c)' = "end"
    BY <1>2, <1>3, <1>4, <2>1, PhaseIsThen DEF Held, Stable
  <2> QED BY <1>3, <1>4, <1>7, <2>1, <2>2, PhasesMove DEF Phases!Next, Phases!GiveUp
<1>9. CASE list # None /\ Needed(list) = {}
  <2>1. pc' = "saving" /\ UNCHANGED group
    BY <1>1, <1>9 DEF Step2
  <2>2. Phase(c)' = "save"
    BY <1>2, <1>3, <1>4, <2>1, PhaseIsThen DEF Held, Stable
  <2> QED BY <1>3, <1>4, <1>7, <2>1, <2>2, PhasesMove DEF Phases!Next, Phases!Fork
<1>10. CASE list # None /\ Needed(list) # {}
  <2>1. group' = [group EXCEPT ![c] = Needed(list)]
    BY <1>1, <1>10 DEF Step2
  <2>2. Needed(list) \in (SUBSET Packages) \ {{}}
    BY <1>5, <1>10, NeededTyped
  <2>3. Phase(c)' = "load"
    BY <1>2, <1>3, <1>4, <1>5, <1>10, <2>1, PhaseIsThen DEF Stable
  <2> QED BY <1>3, <1>4, <1>7, <2>1, <2>2, <2>3, PhasesMove DEF Phases!Next, Phases!Fork
<1> QED BY <1>8, <1>9, <1>10

LEMMA PhasesGroup ==
  ASSUME Stable, GroupCallback
  PROVE  Phases!Next
<1>1. PICK c, p : c = Head(queueIn).check /\ p = Head(queueIn).pkg
  OBVIOUS
<1>2. /\ Pop("downloaded") /\ UNCHANGED <<pulls, begun>> /\ pc = "idle"
      /\ group' = [group EXCEPT ![c] = @ \ {p}]
      /\ IF group[c] \ {p} = {} THEN pc' = "saving" /\ cur' = c ELSE UNCHANGED <<pc, cur>>
  BY <1>1 DEF GroupCallback, Pop, poolVars
<1>3. c \in Checks /\ p \in Packages /\ group \in [Checks -> SUBSET Packages]
  BY <1>1, <1>2, PopTyped, MessageFields DEF Stable, Typed, TypeOK
<1>4. p \in group[c]
  <2>1. Back(1) /\ 1 \in DOMAIN queueIn /\ queueIn[1] = Head(queueIn)
    BY <1>2, PopRest DEF Back, Stable
  <2> QED BY <1>1, <2>1 DEF Stable, PoolInv, Called
<1>5. c <= begun /\ ~Pulling(c) /\ begun \in Nat /\ c \in Nat
  <2>1. begun \in Nat /\ c \in Nat
    BY <1>3 DEF Stable, Typed, TypeOK, Checks
  <2> QED BY <1>3, <1>4, <2>1 DEF Stable, PoolInv, NotYet
<1>6. \A d \in Checks : Pulling(d)' <=> Pulling(d)
  <2>1. ASSUME NEW d \in Checks, NEW i \in DOMAIN queueIn, Answer(i, d)
        PROVE  Pulling(d)'
    <3>1. queueIn \in Seq(Message) /\ queueIn' = Tail(queueIn) /\ queueIn # <<>>
      BY <1>2 DEF Stable, Typed, TypeOK, Pop
    <3>2. i # 1
      BY <1>2, <2>1, PopRest DEF Answer, Stable
    <3>3. i - 1 \in DOMAIN queueIn' /\ queueIn'[i - 1] = queueIn[i]
      BY <3>1, <3>2
    <3> QED BY <2>1, <3>3 DEF Pulling, Answer
  <2>2. \A d \in Checks : Pulling(d)' => Pulling(d)
    BY <1>2, PopRest DEF Pulling, Stable
  <2> QED BY <1>2, <2>1, <2>2 DEF Pulling
<1>7. Phase(c) = "load"
  BY <1>3, <1>4, <1>5, PhaseIs DEF Stable
<1>8. \A d \in Checks : d # c => Phase(d)' = Phase(d)
  BY <1>2, <1>3, <1>6, PhaseKept DEF Held
<1>9. CASE group[c] = {p}
  <2>1. Phase(c)' = "save"
    BY <1>2, <1>3, <1>5, <1>6, <1>9, PhaseIsThen DEF Stable, Held
  <2>2. [d \in Checks |-> Phase(d)]' = [[d \in Checks |-> Phase(d)] EXCEPT ![c] = "save"]
    BY <1>8, <2>1
  <2> QED BY <1>2, <1>3, <1>4, <1>7, <1>9, <2>2 DEF Phases!Next, Phases!Return
<1>10. CASE group[c] # {p}
  <2>1. Phase(c)' = "load"
    BY <1>2, <1>3, <1>4, <1>5, <1>6, <1>10, PhaseIsThen DEF Stable
  <2>2. [d \in Checks |-> Phase(d)]' = [d \in Checks |-> Phase(d)]
    BY <1>7, <1>8, <2>1
  <2> QED BY <1>2, <1>3, <1>4, <1>7, <1>10, <2>2 DEF Phases!Next, Phases!Return
<1> QED BY <1>9, <1>10

LEMMA PhasesSaved ==
  ASSUME Stable, SaveEnds
  PROVE  Phases!Next
<1>1. PICK c : c = cur
  OBVIOUS
<1>2. c \in Checks /\ c <= begun /\ group[c] = {} /\ begun \in Nat /\ c \in Nat /\ Held(c)
  BY <1>1 DEF SaveEnds, Stable, PoolInv, Saving, Typed, TypeOK, Checks, Held
<1>3. ~Pulling(c)
  BY <1>2 DEF Stable, PoolInv, NotYet, Held
<1>4. UNCHANGED <<group, begun>> /\ \A d \in Checks : (Pulling(d)' <=> Pulling(d)) /\ ~Held(d)'
  BY DEF SaveEnds, poolVars, Pulling, Answer, Held
<1>5. Phase(c) = "save" /\ Phase(c)' = "end"
  BY <1>2, <1>3, <1>4, PhaseIs, PhaseIsThen DEF Stable
<1>6. \A d \in Checks : d # c => Phase(d)' = Phase(d)
  BY <1>1, <1>4, PhaseKept DEF Held
<1> QED BY <1>2, <1>4, <1>5, <1>6, PhasesMove DEF Phases!Next, Phases!Finish

\* Every step of the update is a step of Task or a stutter.
LEMMA PhasesNext == Stable /\ [Next]_vars => [Phases!Next]_(Phases!vars)
<1> SUFFICES ASSUME Stable, [Next]_vars
             PROVE  Phases!Next \/ UNCHANGED Phases!vars
  OBVIOUS
<1>1. CASE UNCHANGED vars
  BY <1>1, PhasesFrame DEF vars, netVars, poolVars, Held
<1>2. CASE PoolStep
  <2>1. UNCHANGED <<group, begun, pc, cur>>
    BY <1>2 DEF PoolStep, PullEnds, DownloadBegins, DownloadOpens, DownloadEnds, netVars
  <2>2. \/ UNCHANGED <<queueIn, pulls>>
        \/ UNCHANGED pulls /\ \E j \in Job : queueIn' = Append(queueIn, Downloaded(j))
        \/ \E c \in Checks : PullEnds(c)
    BY <1>2, TailTyped DEF PoolStep, DownloadBegins, DownloadOpens, DownloadEnds, Stable, Typed, TypeOK
  <2>3. \A j \in Job : Downloaded(j) \in Message /\ Downloaded(j).type # "pulled"
    BY MessageTyped DEF Downloaded
  <2> QED BY <2>1, <2>2, <2>3, PhasesFrame DEF Held
<1>3. CASE PhoneStep
  <2>1. UNCHANGED <<pulls, group, begun, pc, cur>>
    BY <1>3 DEF PhoneStep, TotalAutoInstall, CheckUpdate, GetLocalPackageList,
                RemoveLocalPackageList, netVars, poolVars
  <2>2. autos < MaxAuto => autos + 1 \in Autos
    BY ConstantsAssumption DEF Stable, Typed, TypeOK, Autos
  <2>3. \/ UNCHANGED queueIn
        \/ \E a \in Autos \cup {None} : queueIn' = Append(queueIn, [type |-> "check", auto |-> a])
    BY <1>3, <2>2 DEF PhoneStep, TotalAutoInstall, CheckUpdate, GetLocalPackageList,
                      RemoveLocalPackageList
  <2>4. \/ UNCHANGED queueIn
        \/ \E m \in Message : queueIn' = Append(queueIn, m) /\ m.type # "pulled"
    BY <2>3, MessageTyped
  <2> QED BY <2>1, <2>4, PhasesFrame DEF Held
<1>4. CASE SaveBegins \/ CallbackDeferred \/ ForgetDeferred
  <2>1. UNCHANGED <<queueIn, pulls, group, begun>> /\ \A c \in Checks : Held(c)' <=> Held(c)
    BY <1>4 DEF SaveBegins, CallbackDeferred, ForgetDeferred, poolVars, Held
  <2> QED BY <2>1, PhasesFrame
<1> QED
  BY <1>1, <1>2, <1>3, <1>4, PhasesBegin, PhasesStep2, PhasesGroup, PhasesSaved
  DEF Next, NetStep

\* CheckUpdate2 keeps the promise of Task for any number of overlapping checks
\* and of threads in the pool: pull, load and save in order, and Step3 once,
\* after the last download of its own group (utility.py, Task).
THEOREM TaskKept == Spec => PhasesInOrder
<1>1. Init => Phases!Init
  BY PhasesInit
<1>2. Typed /\ PoolInv /\ Typed' /\ PoolInv' /\ [Next]_vars => [Phases!Next]_(Phases!vars)
  BY PhasesNext DEF Stable
<1> QED BY <1>1, <1>2, TypedAlways, PoolAlways, PTL DEF Spec, PhasesInOrder, Phases!Spec
=============================================================================
