------------------------- MODULE PhoneWindowProofs -------------------------
(***************************************************************************)
(* Theorems about PhoneWindow, for any phones, keys, packages, lists of    *)
(* devices and budgets.                                                    *)
(***************************************************************************)
EXTENDS PhoneWindow, FiniteSetTheorems, WellFoundedInduction, TLAPS

-----------------------------------------------------------------------------
(* Tables *)

\* A least number: what stands for induction in the lemmas on loops.
LEMMA LeastElement ==
  ASSUME NEW T \in SUBSET Nat, T # {}
  PROVE  \E n \in T : \A m \in T : n <= m
<1> DEFINE R == OpToRel(<, Nat)
<1>1. IsWellFoundedOn(R, Nat)
  BY NatLessThanWellFounded
<1>2. PICK n \in T : \A m \in T : <<m, n>> \notin R
  BY <1>1, WFMin
<1>3. \A m \in Nat : m < n => <<m, n>> \in R
  BY DEF OpToRel
<1>. HIDE DEF R
<1>4. \A m \in T : ~(m < n)
  BY <1>2, <1>3
<1>. QED
  BY <1>4

\* A table whose map and rows agree.
Table(table, keys) == IsTable(table, keys) /\ Indexed(table)

\* What no new row changes: the rows there were, and where the map finds them.
Grown(table, new) ==
  /\ Len(table.rows) <= Len(new.rows)
  /\ \A i \in DOMAIN table.rows : new.rows[i] = table.rows[i]
  /\ \A i \in DOMAIN new.rows \ DOMAIN table.rows : new.rows[i].report = 0
  /\ DOMAIN table.index \subseteq DOMAIN new.index
  /\ \A k \in DOMAIN table.index : new.index[k] = table.index[k]

LEMMA AddedIsTable ==
  ASSUME NEW keys, NEW table, Table(table, keys),
         NEW k \in keys \ DOMAIN table.index, NEW r \in Nat
  PROVE  /\ Table(Added(table, k, r), keys)
         /\ Added(table, k, r).rows = Append(table.rows, [key |-> k, report |-> r])
         /\ DOMAIN Added(table, k, r).index = DOMAIN table.index \cup {k}
         /\ Added(table, k, r).index[k] = Len(table.rows) + 1
         /\ \A x \in DOMAIN table.index : Added(table, k, r).index[x] = table.index[x]
<1> DEFINE row == [key |-> k, report |-> r]
           new == Added(table, k, r)
           n == Len(table.rows)
<1>1. /\ new = [rows |-> new.rows, index |-> new.index]
      /\ new.rows = Append(table.rows, row)
      /\ new.index = [x \in DOMAIN table.index \cup {k} |->
                        IF x = k THEN n + 1 ELSE table.index[x]]
  BY DEF Added
<1>2. /\ table.rows \in Seq([key : keys, report : Nat]) /\ n \in Nat
      /\ DOMAIN table.index \subseteq keys /\ table.index \in [DOMAIN table.index -> Nat]
  BY DEF Table, IsTable
<1>3. row \in [key : keys, report : Nat]
  OBVIOUS
<1>4. /\ new.rows \in Seq([key : keys, report : Nat])
      /\ Len(new.rows) = n + 1 /\ new.rows[n + 1] = row
      /\ \A i \in 1..n : new.rows[i] = table.rows[i]
      /\ DOMAIN new.rows = 1..(n + 1) /\ DOMAIN table.rows = 1..n
  BY <1>1, <1>2, <1>3
<1>4a. /\ n \in Nat /\ DOMAIN new.rows = 1..(n + 1) /\ DOMAIN table.rows = 1..n
       /\ new.rows[n + 1].key = k
       /\ \A i \in 1..n : new.rows[i] = table.rows[i]
  BY <1>2, <1>4
<1>5. DOMAIN new.index = DOMAIN table.index \cup {k}
  BY <1>1
<1>6. new.index[k] = n + 1 /\ \A x \in DOMAIN table.index : new.index[x] = table.index[x]
  BY <1>1
<1>. HIDE DEF new, n
<1>7. IsTable(new, keys)
  <2>1. new.index \in [DOMAIN new.index -> Nat]
    BY <1>1, <1>2, <1>4a, <1>5
  <2>. QED
    BY <1>1, <1>2, <1>4, <1>5, <2>1 DEF IsTable
<1>8. Indexed(new)
  <2>0. /\ \A x \in DOMAIN table.index : table.index[x] \in 1..n /\ table.rows[table.index[x]].key = x
        /\ \A i \in 1..n : table.rows[i].key \in DOMAIN table.index /\ table.index[table.rows[i].key] = i
    BY <1>4a DEF Table, Indexed
  <2>1. ASSUME NEW x \in DOMAIN new.index
        PROVE  new.index[x] \in DOMAIN new.rows /\ new.rows[new.index[x]].key = x
    <3>1. CASE x = k
      BY <3>1, <1>4a, <1>6
    <3>2. CASE x # k
      <4>1. x \in DOMAIN table.index
        BY <3>2, <1>5
      <4>2. PICK i \in 1..n : i = table.index[x] /\ table.rows[i].key = x
        BY <4>1, <2>0
      <4>3. new.index[x] = i
        BY <4>1, <4>2, <1>6
      <4>4. i \in 1..(n + 1) /\ new.rows[i] = table.rows[i]
        BY <4>2, <1>4a
      <4>. QED
        BY <4>2, <4>3, <4>4, <1>4a
    <3>. QED
      BY <3>1, <3>2
  <2>2. ASSUME NEW i \in DOMAIN new.rows
        PROVE  new.rows[i].key \in DOMAIN new.index /\ new.index[new.rows[i].key] = i
    <3>1. CASE i = n + 1
      BY <3>1, <1>4a, <1>5, <1>6
    <3>2. CASE i # n + 1
      <4>1. i \in 1..n
        BY <3>2, <1>4a
      <4>. QED
        BY <4>1, <2>0, <1>4a, <1>5, <1>6
    <3>. QED
      BY <3>1, <3>2
  <2>. QED
    BY <2>1, <2>2, Zenon DEF Indexed
<1>. QED
  BY <1>1, <1>5, <1>6, <1>7, <1>8 DEF Table, new, n

LEMMA RefreshedIsTable ==
  ASSUME NEW keys, NEW table, Table(table, keys), NEW k \in keys, NEW r \in Nat
  PROVE  /\ Table(Refreshed(table, k, r), keys)
         /\ DOMAIN Refreshed(table, k, r).index = DOMAIN table.index \cup {k}
         /\ Refreshed(table, k, r).rows[Refreshed(table, k, r).index[k]] = [key |-> k, report |-> r]
         /\ \A x \in DOMAIN table.index \ {k} :
              /\ Refreshed(table, k, r).index[x] = table.index[x]
              /\ Refreshed(table, k, r).rows[table.index[x]] = table.rows[table.index[x]]
         /\ k \in DOMAIN table.index =>
              /\ Len(Refreshed(table, k, r).rows) = Len(table.rows)
              /\ Refreshed(table, k, r).index = table.index
         /\ k \notin DOMAIN table.index =>
              /\ Len(Refreshed(table, k, r).rows) = Len(table.rows) + 1
              /\ Refreshed(table, k, r).index[k] = Len(table.rows) + 1
<1> DEFINE new == Refreshed(table, k, r)
           n == Len(table.rows)
<1>0. /\ table = [rows |-> table.rows, index |-> table.index]
      /\ table.rows \in Seq([key : keys, report : Nat]) /\ n \in Nat /\ DOMAIN table.rows = 1..n
      /\ DOMAIN table.index \subseteq keys /\ table.index \in [DOMAIN table.index -> Nat]
      /\ \A x \in DOMAIN table.index : table.index[x] \in 1..n /\ table.rows[table.index[x]].key = x
      /\ \A i \in 1..n : table.rows[i].key \in DOMAIN table.index /\ table.index[table.rows[i].key] = i
  BY DEF Table, IsTable, Indexed
<1>1. CASE k \notin DOMAIN table.index
  <2>1. new = Added(table, k, r) /\ k \in keys \ DOMAIN table.index
    BY <1>1 DEF Refreshed
  <2>2. /\ Table(new, keys)
        /\ new.rows = Append(table.rows, [key |-> k, report |-> r])
        /\ DOMAIN new.index = DOMAIN table.index \cup {k}
        /\ new.index[k] = n + 1
        /\ \A x \in DOMAIN table.index : new.index[x] = table.index[x]
    BY <2>1, AddedIsTable
  <2>3. /\ Len(new.rows) = n + 1 /\ new.rows[n + 1] = [key |-> k, report |-> r]
        /\ \A i \in 1..n : new.rows[i] = table.rows[i]
    BY <2>2, <1>0
  <2>. QED
    BY <1>0, <1>1, <2>2, <2>3
<1>2. CASE k \in DOMAIN table.index
  <2> DEFINE at == table.index[k]
  <2>1. new = [table EXCEPT !.rows[at].report = r]
    BY <1>2 DEF Refreshed
  <2>2. /\ new.index = table.index /\ new.rows = [table.rows EXCEPT ![at].report = r]
        /\ new = [rows |-> new.rows, index |-> new.index]
    BY <2>1, <1>0
  <2>3. at \in 1..n /\ table.rows[at].key = k
    BY <1>0, <1>2
  <2>. HIDE DEF new, at, n
  <2>4. table.rows[at] \in [key : keys, report : Nat]
    <3>1. \A S : \A s \in Seq(S) : \A i \in 1..Len(s) : s[i] \in S
      OBVIOUS
    <3>. QED
      BY <1>0, <2>3, <3>1 DEF n
  <2>5. [table.rows[at] EXCEPT !.report = r] = [key |-> k, report |-> r]
    BY <2>3, <2>4
  <2>6. new.rows = [table.rows EXCEPT ![at] = [key |-> k, report |-> r]]
    BY <2>2, <2>5
  <2>7. /\ new.rows \in Seq([key : keys, report : Nat])
        /\ Len(new.rows) = n /\ DOMAIN new.rows = 1..n
        /\ new.rows[at] = [key |-> k, report |-> r]
        /\ \A i \in (1..n) \ {at} : new.rows[i] = table.rows[i]
    BY <2>3, <2>6, <1>0 DEF n
  <2>8. IsTable(new, keys)
    BY <2>2, <2>7, <1>0 DEF IsTable
  <2>9. \A i \in 1..n : new.rows[i].key = table.rows[i].key
    BY <2>3, <2>7
  <2>10. Indexed(new)
    <3>1. ASSUME NEW x \in DOMAIN new.index
          PROVE  new.index[x] \in DOMAIN new.rows /\ new.rows[new.index[x]].key = x
      <4>1. PICK i \in 1..n : i = table.index[x] /\ table.rows[i].key = x
        BY <2>2, <1>0
      <4>2. new.index[x] = i /\ new.rows[i].key = x
        BY <2>2, <2>9, <4>1
      <4>. QED
        BY <4>1, <4>2, <2>7
    <3>2. \A i \in DOMAIN new.rows :
            new.rows[i].key \in DOMAIN new.index /\ new.index[new.rows[i].key] = i
      BY <2>2, <2>7, <2>9, <1>0
    <3>. QED
      BY <3>1, <3>2, Zenon DEF Indexed
  <2>11. ASSUME NEW x \in DOMAIN table.index \ {k}
         PROVE  new.rows[table.index[x]] = table.rows[table.index[x]]
    <3>1. PICK i \in 1..n : i = table.index[x] /\ table.rows[i].key = x
      BY <1>0
    <3>2. i # at
      BY <3>1, <2>3
    <3>3. new.rows[i] = table.rows[i]
      BY <3>1, <3>2, <2>7
    <3>. QED
      BY <3>1, <3>3
  <2>. QED
    BY <1>2, <2>2, <2>7, <2>8, <2>10, <2>11 DEF new, at, n, Table
<1>. QED
  BY <1>1, <1>2

\* One round of the loop in Listed.
Round(table, list, i, after) ==
  IF i = 0 THEN table
  ELSE IF list[i] \in DOMAIN after[i - 1].index THEN after[i - 1]
  ELSE Added(after[i - 1], list[i], 0)

Loop(table, list, n, f) == f = [i \in 0..n |-> Round(table, list, i, f)]

\* The loop defines a function.
LEMMA LoopExists ==
  ASSUME NEW table, NEW list, NEW n \in Nat
  PROVE  \E f : Loop(table, list, n, f)
<1> DEFINE P(m, f) == Loop(table, list, m, f)
           Bad == {m \in Nat : ~ \E f : P(m, f)}
<1>. USE DEF Loop
<1>1. CASE Bad = {}
  BY <1>1
<1>2. CASE Bad # {}
  <2>1. PICK m \in Bad : \A j \in Bad : m <= j
    <3>1. Bad \in SUBSET Nat
      OBVIOUS
    <3>. HIDE DEF Bad
    <3>. QED
      BY <1>2, <3>1, LeastElement
  <2>2. m \in Nat /\ ~ \E f : P(m, f)
    OBVIOUS
  <2>3. CASE m = 0
    <3> DEFINE f == [i \in 0..0 |-> table]
    <3>1. P(0, f)
      <4>1. \A i \in 0..0 : Round(table, list, i, f) = table
        BY DEF Round
      <4>. QED
        BY <4>1
    <3>. HIDE DEF f
    <3>. QED
      BY <2>2, <2>3, <3>1
  <2>4. CASE m # 0
    <3>1. m - 1 \in Nat /\ m - 1 \notin Bad
      BY <2>1, <2>2, <2>4
    <3>2. PICK f : P(m - 1, f)
      BY <3>1
    <3> DEFINE g == [i \in 0..m |-> IF i = m THEN Round(table, list, m, f) ELSE f[i]]
    <3>3. \A i \in 0..m : Round(table, list, i, g) = Round(table, list, i, f)
      <4>1. \A i \in 0..m : i # 0 => i - 1 \in 0..m /\ i - 1 # m
        BY <2>2
      <4>2. \A i \in 0..m : i # 0 => g[i - 1] = f[i - 1]
        BY <4>1
      <4>. HIDE DEF g
      <4>. QED
        BY <4>2 DEF Round
    <3>4. \A i \in 0..m : i # m => i \in 0..(m - 1)
      BY <2>2
    <3>5. \A i \in 0..m : i # m => f[i] = Round(table, list, i, f)
      <4>1. \A i \in 0..(m - 1) : f[i] = Round(table, list, i, f)
        BY <3>2
      <4>. QED
        BY <3>4, <4>1
    <3>6. P(m, g)
      <4>1. \A i \in 0..m : g[i] = Round(table, list, i, g)
        BY <3>3, <3>5
      <4>2. g = [i \in 0..m |-> g[i]]
        OBVIOUS
      <4>. HIDE DEF g
      <4>. QED
        BY <4>1, <4>2
    <3>. HIDE DEF g
    <3>. QED
      BY <2>2, <3>6
  <2>. QED
    BY <2>3, <2>4
<1>. QED
  BY <1>1, <1>2

LEMMA ListedIsLoop ==
  ASSUME NEW table, NEW keys, NEW list \in Seq(keys)
  PROVE  \E f : /\ f = [i \in 0..Len(list) |-> Round(table, list, i, f)]
                /\ Listed(table, list) = f[Len(list)]
<1> DEFINE P(f) == f = [i \in 0..Len(list) |-> Round(table, list, i, f)]
<1>1. \E f : P(f)
  <2>1. PICK n \in Nat : n = Len(list)
    OBVIOUS
  <2>2. \E f : Loop(table, list, n, f)
    BY LoopExists
  <2>. QED
    BY <2>1, <2>2 DEF Loop
<1>2. P(CHOOSE f : P(f))
  BY <1>1
<1>3. Listed(table, list) = (CHOOSE f : P(f))[Len(list)]
  BY DEF Listed, Round
<1>. QED
  BY <1>2, <1>3

\* A list of devices adds blank rows to a table, and changes nothing else.
LEMMA ListedIsTable ==
  ASSUME NEW keys, NEW table, Table(table, keys), NEW list \in Seq(keys)
  PROVE  Table(Listed(table, list), keys) /\ Grown(table, Listed(table, list))
<1>1. PICK f : /\ f = [i \in 0..Len(list) |-> Round(table, list, i, f)]
               /\ Listed(table, list) = f[Len(list)]
  BY ListedIsLoop
<1> DEFINE n == Len(list)
           Bad == {i \in 0..n : ~(Table(f[i], keys) /\ Grown(table, f[i]))}
<1>2. n \in Nat /\ \A i \in 0..n : f[i] = Round(table, list, i, f)
  BY <1>1
<1>. HIDE DEF n
<1>3. CASE Bad = {}
  BY <1>1, <1>2, <1>3 DEF n
<1>4. CASE Bad # {}
  <2>1. PICK m \in Bad : \A j \in Bad : m <= j
    <3>1. Bad \in SUBSET Nat
      OBVIOUS
    <3>. HIDE DEF Bad
    <3>. QED
      BY <1>4, <3>1, LeastElement
  <2>2. m \in 0..n /\ ~(Table(f[m], keys) /\ Grown(table, f[m]))
    OBVIOUS
  <2>3. m # 0
    <3>1. CASE m = 0
      <4>1. f[m] = table
        BY <1>2, <2>2, <3>1 DEF Round
      <4>2. Grown(table, table)
        BY DEF Grown, Table, IsTable
      <4>. QED
        BY <2>2, <4>1, <4>2
    <3>. QED
      BY <3>1
  <2>4. m - 1 \in 0..n /\ m - 1 \notin Bad
    BY <1>2, <2>1, <2>2, <2>3
  <2>5. Table(f[m - 1], keys) /\ Grown(table, f[m - 1])
    BY <2>4
  <2>6. list[m] \in keys
    BY <2>2, <2>3 DEF n
  <2> DEFINE old == f[m - 1]
  <2>7. CASE list[m] \in DOMAIN old.index
    <3>1. f[m] = old
      BY <1>2, <2>2, <2>3, <2>7 DEF Round
    <3>. QED
      BY <2>2, <2>5, <3>1
  <2>8. CASE list[m] \notin DOMAIN old.index
    <3>1. f[m] = Added(old, list[m], 0)
      BY <1>2, <2>2, <2>3, <2>8 DEF Round
    <3>. HIDE DEF old
    <3>2. Table(old, keys) /\ Grown(table, old)
      BY <2>5 DEF old
    <3>3. /\ Table(f[m], keys)
          /\ f[m].rows = Append(old.rows, [key |-> list[m], report |-> 0])
          /\ DOMAIN f[m].index = DOMAIN old.index \cup {list[m]}
          /\ \A x \in DOMAIN old.index : f[m].index[x] = old.index[x]
      BY <2>6, <2>8, <3>1, <3>2, AddedIsTable
    <3>4. Grown(table, f[m])
      BY <3>2, <3>3 DEF Grown, Table, IsTable
    <3>. QED
      BY <2>2, <3>3, <3>4
  <2>. QED
    BY <2>7, <2>8
<1>. QED
  BY <1>3, <1>4

-----------------------------------------------------------------------------
(* Types *)

\* The members of the two kinds of tasks, by type.
LEMMA HostTasks ==
  ASSUME NEW m \in ToHostMessage
  PROVE  m.type = "mode" => m.mode \in 1..2
BY DEF ToHostMessage

LEMMA UiTasks ==
  ASSUME NEW m \in ToUiMessage
  PROVE  /\ m.type = "digest" => m.key \in Serial /\ m.report \in Nat
         /\ m.type = "devices" => m.list \in DeviceLists
         /\ m.type = "status" => m.key \in Key /\ m.report \in Nat
         /\ m.type = "update" => m.key \in Package /\ m.report \in Nat /\ m.info \in Info
         /\ m.type = "login" => m.success \in BOOLEAN
         /\ m.type \in {"digest", "devices", "status", "text", "update", "login"}
BY DEF ToUiMessage

LEMMA NewTasks ==
  /\ \A mode \in 1..2 : [type |-> "mode", mode |-> mode] \in ToHostMessage
  /\ [type |-> "login"] \in ToHostMessage
  /\ \A on \in BOOLEAN : [type |-> "total", on |-> on] \in ToHostMessage
  /\ \A k \in Serial, r \in Nat : [type |-> "digest", key |-> k, report |-> r] \in ToUiMessage
  /\ \A list \in DeviceLists : [type |-> "devices", list |-> list] \in ToUiMessage
  /\ \A k \in Key, r \in Nat : [type |-> "status", key |-> k, report |-> r] \in ToUiMessage
  /\ [type |-> "text"] \in ToUiMessage
  /\ \A k \in Package, r \in Nat, info \in Info :
       [type |-> "update", key |-> k, report |-> r, info |-> info] \in ToUiMessage
  /\ \A success \in BOOLEAN : [type |-> "login", success |-> success] \in ToUiMessage
BY DEF ToHostMessage, ToUiMessage

\* Queues, with what a step may do to them.
LEMMA QueueFacts ==
  ASSUME NEW S, NEW q \in Seq(S)
  PROVE  /\ Len(q) \in Nat /\ DOMAIN q = 1..Len(q)
         /\ \A i \in DOMAIN q : q[i] \in S
         /\ q # <<>> => /\ Head(q) = q[1] /\ Head(q) \in S /\ 1 \in DOMAIN q
                        /\ Tail(q) \in Seq(S) /\ Len(Tail(q)) = Len(q) - 1
                        /\ \A i \in DOMAIN Tail(q) : i + 1 \in DOMAIN q /\ Tail(q)[i] = q[i + 1]
                        /\ \A i \in DOMAIN q : i # 1 => i - 1 \in DOMAIN Tail(q)
         /\ \A m \in S : /\ Append(q, m) \in Seq(S) /\ Len(Append(q, m)) = Len(q) + 1
                         /\ DOMAIN Append(q, m) = 1..(Len(q) + 1)
                         /\ Append(q, m)[Len(q) + 1] = m
                         /\ \A i \in DOMAIN q : i \in DOMAIN Append(q, m) /\ Append(q, m)[i] = q[i]
OBVIOUS

\* What a step needs to keep the types: the maps of the tables stay in their rows.
Typed == TypeOK /\ RowsIndexed

LEMMA TablesTyped ==
  Typed <=> /\ TypeOK /\ Table(digests, Serial) /\ Table(statuses, Key)
BY DEF Typed, TypeOK, RowsIndexed, Table

LEMMA TypedInit == Init => Typed
<1>. SUFFICES ASSUME Init PROVE Typed
  OBVIOUS
<1>. USE DEF Init
<1>1. budget \in [Event -> Nat]
  BY WindowAssumption DEF WindowAssumption
<1>2. toHost \in Seq(ToHostMessage) /\ toUi \in Seq(ToUiMessage)
  BY NewTasks
<1>3. \A keys : IsTable(NoRows, keys) /\ Indexed(NoRows)
  BY DEF NoRows, IsTable, Indexed
<1>4. updates \in Seq([key : Package, report : Nat, info : Info])
  OBVIOUS
<1>5. reported \in [Serial \cup Key \cup Package -> Nat]
  OBVIOUS
<1>. QED
  BY <1>1, <1>2, <1>3, <1>4, <1>5 DEF Typed, TypeOK, RowsIndexed

LEMMA SpendTyped ==
  ASSUME TypeOK, NEW e \in Event, Spend(e)
  PROVE  budget' \in [Event -> Nat]
BY DEF TypeOK, Spend

LEMMA PostTyped ==
  ASSUME TypeOK, NEW m \in ToUiMessage, Post(m)
  PROVE  toUi' \in Seq(ToUiMessage)
BY QueueFacts DEF TypeOK, Post

LEMMA TakeTyped ==
  ASSUME TypeOK, NEW type, Take(type)
  PROVE  toUi' \in Seq(ToUiMessage) /\ Head(toUi) \in ToUiMessage /\ Head(toUi).type = type
BY QueueFacts DEF TypeOK, Take

\* The steps of the user.
LEMMA TypedUser ==
  ASSUME Typed
  PROVE  /\ \A page \in {"login", "auto", "manual"} : Choose(page) => Typed'
         /\ \A row \in 0..Len(digests.rows) : SelectRow(row) => Typed'
         /\ Login => Typed'
         /\ ClearStatuses => Typed'
         /\ ClearUpdates => Typed'
<1>. USE DEF Typed
<1>1. ASSUME NEW page \in {"login", "auto", "manual"}, Choose(page) PROVE Typed'
  <2>1. budget' \in [Event -> Nat]
    BY <1>1, SpendTyped DEF Choose, Event
  <2>2. uiMode' \in 1..2
    BY <1>1 DEF Choose
  <2>3. toHost' \in Seq(ToHostMessage)
    BY <1>1, <2>2, NewTasks DEF Choose, TypeOK
  <2>. QED
    BY <1>1, <2>1, <2>2, <2>3
    DEF Choose, TypeOK, RowsIndexed, tableVars, pythonVars, IsTable, Indexed
<1>2. ASSUME NEW row \in 0..Len(digests.rows), SelectRow(row) PROVE Typed'
  <2>1. budget' \in [Event -> Nat]
    BY <1>2, SpendTyped DEF SelectRow, Event
  <2>2. row # 0 => digests.rows[row] \in [key : Serial, report : Nat]
    <3>1. digests.rows \in Seq([key : Serial, report : Nat])
      BY DEF TypeOK, IsTable
    <3>2. \A i \in DOMAIN digests.rows : digests.rows[i] \in [key : Serial, report : Nat]
      BY <3>1, QueueFacts
    <3>3. Len(digests.rows) \in Nat /\ DOMAIN digests.rows = 1..Len(digests.rows)
      BY <3>1, QueueFacts
    <3>4. row # 0 => row \in DOMAIN digests.rows
      BY <3>3
    <3>. QED
      BY <3>2, <3>4
  <2>3. selected' \in Nat /\ current' \in Serial \cup {None} /\ failed' \in Nat
    BY <1>2, <2>2 DEF SelectRow, Detail
  <2>. QED
    BY <1>2, <2>1, <2>3 DEF SelectRow, TypeOK, RowsIndexed, pageVars, pythonVars, IsTable, Indexed
<1>3. ASSUME Login PROVE Typed'
  <2>1. budget' \in [Event -> Nat]
    BY <1>3, SpendTyped DEF Login, Event
  <2>2. toHost' \in Seq(ToHostMessage)
    BY <1>3, NewTasks DEF Login, TypeOK
  <2>. QED
    BY <1>3, <2>1, <2>2 DEF Login, TypeOK, RowsIndexed, tableVars, pageVars, pythonVars, IsTable, Indexed
<1>4. ASSUME ClearStatuses PROVE Typed'
  <2>1. budget' \in [Event -> Nat]
    BY <1>4, SpendTyped DEF ClearStatuses, Event
  <2>2. IsTable(NoRows, Key) /\ Indexed(NoRows)
    BY DEF NoRows, IsTable, Indexed
  <2>3. IsTable(statuses', Key) /\ Indexed(statuses')
    BY <1>4, <2>2 DEF ClearStatuses
  <2>. QED
    BY <1>4, <2>1, <2>3 DEF ClearStatuses, TypeOK, RowsIndexed, pageVars, pythonVars
<1>5. ASSUME ClearUpdates PROVE Typed'
  <2>1. budget' \in [Event -> Nat]
    BY <1>5, SpendTyped DEF ClearUpdates, Event
  <2>2. updates' \in Seq([key : Package, report : Nat, info : Info])
    BY <1>5 DEF ClearUpdates
  <2>. QED
    BY <1>5, <2>1, <2>2 DEF ClearUpdates, TypeOK, RowsIndexed, pageVars, pythonVars, IsTable, Indexed
<1>. QED
  BY <1>1, <1>2, <1>3, <1>4, <1>5

\* The steps of the CTP thread.
LEMMA TypedHost ==
  ASSUME Typed
  PROVE  /\ HostTask => Typed'
         /\ \A s \in Serial : InstallDigest(s) => Typed'
         /\ \A list \in DeviceLists : DevicesList(list) => Typed'
         /\ \A k \in Key : ApkIRStatus(k) => Typed'
         /\ \A success \in BOOLEAN : LoginAnswer(success) => Typed'
<1>. USE DEF Typed
<1>1. ASSUME HostTask PROVE Typed'
  <2>1. toHost' \in Seq(ToHostMessage) /\ Head(toHost) \in ToHostMessage
    BY <1>1, QueueFacts DEF HostTask, TypeOK
  <2>2. hostMode' \in 0..2 /\ logins' \in Nat
    BY <1>1, <2>1, HostTasks DEF HostTask, TypeOK
  <2>. QED
    BY <1>1, <2>1, <2>2 DEF HostTask, TypeOK, RowsIndexed, pageVars, tableVars, IsTable, Indexed
<1>2. ASSUME NEW s \in Serial, InstallDigest(s) PROVE Typed'
  <2>1. budget' \in [Event -> Nat]
    BY <1>2, SpendTyped DEF InstallDigest, Event
  <2>2. reported' \in [Serial \cup Key \cup Package -> Nat] /\ reported'[s] \in Nat
    BY <1>2 DEF InstallDigest, TypeOK
  <2>3. toUi' \in Seq(ToUiMessage)
    BY <1>2, <2>2, NewTasks, PostTyped DEF InstallDigest
  <2>. QED
    BY <1>2, <2>1, <2>2, <2>3 DEF InstallDigest, TypeOK, RowsIndexed, pageVars, tableVars, IsTable, Indexed
<1>3. ASSUME NEW list \in DeviceLists, DevicesList(list) PROVE Typed'
  <2>1. budget' \in [Event -> Nat]
    BY <1>3, SpendTyped DEF DevicesList, Event
  <2>2. toUi' \in Seq(ToUiMessage)
    BY <1>3, NewTasks, PostTyped DEF DevicesList
  <2>. QED
    BY <1>3, <2>1, <2>2 DEF DevicesList, TypeOK, RowsIndexed, pageVars, tableVars, pythonVars, IsTable, Indexed
<1>4. ASSUME NEW k \in Key, ApkIRStatus(k) PROVE Typed'
  <2>1. budget' \in [Event -> Nat]
    BY <1>4, SpendTyped DEF ApkIRStatus, Event
  <2>2. reported' \in [Serial \cup Key \cup Package -> Nat] /\ reported'[k] \in Nat
    BY <1>4 DEF ApkIRStatus, TypeOK
  <2>3. toUi' \in Seq(ToUiMessage)
    BY <1>4, <2>2, NewTasks, PostTyped DEF ApkIRStatus
  <2>. QED
    BY <1>4, <2>1, <2>2, <2>3 DEF ApkIRStatus, TypeOK, RowsIndexed, pageVars, tableVars, IsTable, Indexed
<1>5. ASSUME NEW success \in BOOLEAN, LoginAnswer(success) PROVE Typed'
  <2>1. toUi' \in Seq(ToUiMessage)
    BY <1>5, NewTasks, PostTyped DEF LoginAnswer
  <2>2. logins' \in Nat
    BY <1>5 DEF LoginAnswer, TypeOK
  <2>. QED
    BY <1>5, <2>1, <2>2 DEF LoginAnswer, TypeOK, RowsIndexed, pageVars, tableVars, IsTable, Indexed
<1>. QED
  BY <1>1, <1>2, <1>3, <1>4, <1>5

\* A notification about a download is posted in one of its two forms.
LEMMA NotifyTyped ==
  ASSUME TypeOK, NEW p \in Package, NEW info \in Info, reported'[p] \in Nat,
         NotifyApkCheckUpdateInfo(p, info)
  PROVE  toUi' \in Seq(ToUiMessage)
<1> DEFINE m == IF hostMode = 1
                THEN [type |-> "update", key |-> p, report |-> reported'[p], info |-> info]
                ELSE [type |-> "text"]
<1>1. m \in ToUiMessage
  BY NewTasks
<1>2. Post(m)
  BY DEF NotifyApkCheckUpdateInfo
<1>. HIDE DEF m
<1>. QED
  BY <1>1, <1>2, PostTyped

LEMMA TypedDownloads ==
  ASSUME Typed, NEW p \in Package
  PROVE  /\ DownloadBegins(p) => Typed'
         /\ Downloading(p) => Typed'
         /\ DownloadEnds(p) => Typed'
<1>. USE DEF Typed
<1>1. ASSUME DownloadBegins(p) PROVE Typed'
  <2>1. budget' \in [Event -> Nat]
    BY <1>1, SpendTyped DEF DownloadBegins, Event
  <2>2. reported' \in [Serial \cup Key \cup Package -> Nat]
    BY <1>1 DEF DownloadBegins, TypeOK
  <2>3. toUi' \in Seq(ToUiMessage)
    BY <1>1, <2>2, NotifyTyped DEF DownloadBegins, Info
  <2>4. loading' \subseteq Package
    BY <1>1 DEF DownloadBegins, TypeOK
  <2>5. overlapped' \subseteq Package \X Nat
    <3>1. \A q \in loading' : reported'[q] \in Nat
      BY <2>2, <2>4
    <3>2. {<<q, reported'[q]>> : q \in loading'} \subseteq Package \X Nat
      BY <2>4, <3>1
    <3>. QED
      BY <1>1, <3>2 DEF DownloadBegins, TypeOK
  <2>. QED
    BY <1>1, <2>1, <2>2, <2>3, <2>4, <2>5
    DEF DownloadBegins, NotifyApkCheckUpdateInfo, TypeOK, RowsIndexed, pageVars, tableVars, IsTable, Indexed
<1>2. ASSUME Downloading(p) PROVE Typed'
  <2>1. budget' \in [Event -> Nat]
    BY <1>2, SpendTyped DEF Downloading, Event
  <2>2. reported'[p] \in Nat
    BY <1>2 DEF Downloading, TypeOK
  <2>3. toUi' \in Seq(ToUiMessage)
    BY <1>2, <2>2, NotifyTyped DEF Downloading, Info
  <2>. QED
    BY <1>2, <2>1, <2>3
    DEF Downloading, NotifyApkCheckUpdateInfo, TypeOK, RowsIndexed, pageVars, tableVars, IsTable, Indexed
<1>3. ASSUME DownloadEnds(p) PROVE Typed'
  <2>2. reported'[p] \in Nat
    BY <1>3 DEF DownloadEnds, TypeOK
  <2>3. toUi' \in Seq(ToUiMessage)
    BY <1>3, <2>2, NotifyTyped DEF DownloadEnds, Info
  <2>. QED
    BY <1>3, <2>3
    DEF DownloadEnds, NotifyApkCheckUpdateInfo, TypeOK, RowsIndexed, pageVars, tableVars, IsTable, Indexed
<1>. QED
  BY <1>1, <1>2, <1>3

\* The row a table has last.
LEMMA LastRow ==
  ASSUME NEW keys, NEW table, Table(table, keys), Len(table.rows) # 0
  PROVE  table.rows[Len(table.rows)] \in [key : keys, report : Nat] /\ Len(table.rows) \in Nat
<1>1. table.rows \in Seq([key : keys, report : Nat])
  BY DEF Table, IsTable
<1>2. Len(table.rows) \in DOMAIN table.rows
  BY <1>1
<1>. QED
  BY <1>1, <1>2, QueueFacts

\* The steps of the UI thread.
LEMMA TypedUi ==
  ASSUME Typed
  PROVE  /\ OnUpdateInstallApkDigest => Typed'
         /\ OnDeviceUpdate => Typed'
         /\ OnUpdateApkIRStatus => Typed'
         /\ OnApkUpdateInfo => Typed'
         /\ OnApkUpdateInfoToString => Typed'
         /\ OnLoginResponse => Typed'
<1>. USE DEF Typed
<1>0. Table(digests, Serial) /\ Table(statuses, Key)
  BY TablesTyped
<1>1. ASSUME OnUpdateInstallApkDigest PROVE Typed'
  <2> DEFINE m == Head(toUi)
  <2>1. toUi' \in Seq(ToUiMessage) /\ m.key \in Serial /\ m.report \in Nat
    BY <1>1, TakeTyped, UiTasks DEF OnUpdateInstallApkDigest
  <2>2. digests' = Refreshed(digests, m.key, m.report)
    BY <1>1 DEF OnUpdateInstallApkDigest
  <2>. HIDE DEF m
  <2>3. Table(digests', Serial)
    BY <1>0, <2>1, <2>2, RefreshedIsTable
  <2>4. m.key \notin DOMAIN digests.index => Len(digests'.rows) # 0
    <3>1. m.key \notin DOMAIN digests.index => Len(digests'.rows) = Len(digests.rows) + 1
      BY <2>1, <2>2 DEF Refreshed, Added, TypeOK, IsTable
    <3>2. Len(digests.rows) \in Nat
      BY DEF TypeOK, IsTable
    <3>. QED
      BY <3>1, <3>2
  <2>5. selected' \in Nat /\ current' \in Serial \cup {None} /\ failed' \in Nat
    BY <1>1, <2>1, <2>3, <2>4, LastRow DEF OnUpdateInstallApkDigest, Detail, TypeOK, m
  <2>. QED
    BY <1>1, <2>1, <2>3, <2>5
    DEF OnUpdateInstallApkDigest, TypeOK, RowsIndexed, pageVars, pythonVars, Table, IsTable, Indexed
<1>2. ASSUME OnDeviceUpdate PROVE Typed'
  <2>1. toUi' \in Seq(ToUiMessage) /\ Head(toUi).list \in Seq(Serial)
    BY <1>2, TakeTyped, UiTasks, WindowAssumption DEF OnDeviceUpdate, WindowAssumption
  <2>2. Table(digests', Serial)
    BY <1>0, <1>2, <2>1, ListedIsTable DEF OnDeviceUpdate
  <2>3. Len(digests'.rows) > Len(digests.rows) => Len(digests'.rows) # 0
    BY DEF TypeOK, IsTable
  <2>4. selected' \in Nat /\ current' \in Serial \cup {None} /\ failed' \in Nat
    BY <1>2, <2>2, <2>3, LastRow DEF OnDeviceUpdate, Detail, TypeOK
  <2>. QED
    BY <1>2, <2>1, <2>2, <2>4
    DEF OnDeviceUpdate, TypeOK, RowsIndexed, pageVars, pythonVars, Table, IsTable, Indexed
<1>3. ASSUME OnUpdateApkIRStatus PROVE Typed'
  <2>1. toUi' \in Seq(ToUiMessage) /\ Head(toUi).key \in Key /\ Head(toUi).report \in Nat
    BY <1>3, TakeTyped, UiTasks DEF OnUpdateApkIRStatus
  <2>2. Table(statuses', Key)
    BY <1>0, <1>3, <2>1, RefreshedIsTable DEF OnUpdateApkIRStatus
  <2>. QED
    BY <1>3, <2>1, <2>2
    DEF OnUpdateApkIRStatus, TypeOK, RowsIndexed, pageVars, pythonVars, Table, IsTable, Indexed
<1>4. ASSUME OnApkUpdateInfo PROVE Typed'
  <2> DEFINE m == Head(toUi)
             row == [key |-> m.key, report |-> m.report, info |-> m.info]
             Row == [key : Package, report : Nat, info : Info]
  <2>1. toUi' \in Seq(ToUiMessage) /\ row \in Row
    BY <1>4, TakeTyped, UiTasks DEF OnApkUpdateInfo
  <2>2. updates \in Seq(Row)
    BY DEF TypeOK
  <2>3. \/ updates # <<>> /\ updates' = [updates EXCEPT ![Len(updates)] = row]
        \/ updates' = Append(updates, row)
    BY <1>4 DEF OnApkUpdateInfo
  <2>. HIDE DEF row, Row
  <2>4. updates' \in Seq(Row)
    <3>1. \A n \in 1..Len(updates) : [updates EXCEPT ![n] = row] \in Seq(Row)
      BY <2>1, <2>2
    <3>2. updates # <<>> => Len(updates) \in 1..Len(updates)
      BY <2>2
    <3>3. Append(updates, row) \in Seq(Row)
      BY <2>1, <2>2
    <3>. QED
      BY <2>3, <3>1, <3>2, <3>3
  <2>. QED
    BY <1>4, <2>1, <2>4
    DEF OnApkUpdateInfo, TypeOK, RowsIndexed, pageVars, pythonVars, IsTable, Indexed, Row
<1>5. ASSUME OnApkUpdateInfoToString PROVE Typed'
  <2>1. toUi' \in Seq(ToUiMessage)
    BY <1>5, TakeTyped DEF OnApkUpdateInfoToString
  <2>. QED
    BY <1>5, <2>1
    DEF OnApkUpdateInfoToString, TypeOK, RowsIndexed, pageVars, tableVars, pythonVars, IsTable, Indexed
<1>6. ASSUME OnLoginResponse PROVE Typed'
  <2>1. toUi' \in Seq(ToUiMessage) /\ Head(toUi).success \in BOOLEAN
    BY <1>6, TakeTyped, UiTasks DEF OnLoginResponse
  <2>2. toHost' \in Seq(ToHostMessage)
    <3>1. [type |-> "total", on |-> Head(toUi).success] \in ToHostMessage
      BY <2>1, NewTasks
    <3>. QED
      BY <1>6, <3>1, QueueFacts DEF OnLoginResponse, TypeOK
  <2>. QED
    BY <1>6, <2>1, <2>2
    DEF OnLoginResponse, TypeOK, RowsIndexed, tableVars, pythonVars, IsTable, Indexed
<1>. QED
  BY <1>1, <1>2, <1>3, <1>4, <1>5, <1>6

LEMMA TypedStutter ==
  ASSUME Typed, UNCHANGED vars
  PROVE  Typed'
BY DEF Typed, TypeOK, RowsIndexed, vars, pageVars, tableVars, pythonVars, IsTable, Indexed

LEMMA TypedStep == Typed /\ [Next]_vars => Typed'
<1>. SUFFICES ASSUME Typed, [Next]_vars PROVE Typed'
  OBVIOUS
<1>1. CASE UNCHANGED vars
  BY <1>1, TypedStutter
<1>2. CASE Next
  BY <1>2, TypedUser, TypedHost, TypedDownloads, TypedUi DEF Next
<1>. QED
  BY <1>1, <1>2

LEMMA TypedAlways == Spec => []Typed
  BY TypedInit, TypedStep, PTL DEF Spec

\* Every variable of PhoneWindow keeps its type (TypeOK): a report always
\* names a row there is, and what is posted between the threads is a task
\* the other one knows.
THEOREM TypeCorrect == Spec => []TypeOK
<1>1. Typed => TypeOK
  BY DEF Typed
<1>. QED
  BY <1>1, TypedAlways, PTL

\* A map of a table names exactly its rows (RowsIndexed), through new phones,
\* reports and a table cleared while reports were under way.
THEOREM MapsAgree == Spec => []RowsIndexed
<1>1. Typed => RowsIndexed
  BY DEF Typed
<1>. QED
  BY <1>1, TypedAlways, PTL

-----------------------------------------------------------------------------
(* The detail of the selected phone *)

LEMMA DetailInit == Init => DetailShowsSelected
BY DEF Init, DetailShowsSelected

\* Selecting a row shows what the row holds.
LEMMA DetailOfRow ==
  ASSUME NEW table, Table(table, Serial), NEW row \in 0..Len(table.rows),
         Detail(row, table), digests' = table
  PROVE  DetailShowsSelected'
<1>1. CASE row = 0
  BY <1>1 DEF Detail, DetailShowsSelected
<1>2. CASE row # 0
  <2>1. table.rows \in Seq([key : Serial, report : Nat])
    BY DEF Table, IsTable
  <2>2. row \in DOMAIN table.rows
    BY <1>2, <2>1
  <2>3. table.rows[row] \in [key : Serial, report : Nat]
    BY <2>1, <2>2, QueueFacts
  <2>4. selected' = row /\ current' = table.rows[row].key /\ failed' = table.rows[row].report
    BY <1>2 DEF Detail
  <2>. QED
    BY <1>2, <2>2, <2>3, <2>4 DEF DetailShowsSelected
<1>. QED
  BY <1>1, <1>2

LEMMA DetailDigest ==
  ASSUME Typed, DetailShowsSelected, OnUpdateInstallApkDigest
  PROVE  DetailShowsSelected'
<1> DEFINE k == Head(toUi).key
           r == Head(toUi).report
<1>1. k \in Serial /\ r \in Nat
  BY TakeTyped, UiTasks DEF Typed, OnUpdateInstallApkDigest
<1>2. digests' = Refreshed(digests, k, r) /\ Table(digests, Serial)
  BY TablesTyped DEF OnUpdateInstallApkDigest
<1>3. Table(digests', Serial)
  BY <1>1, <1>2, RefreshedIsTable
<1>4. CASE k \notin DOMAIN digests.index
  <2>1. Detail(Len(digests'.rows), digests')
    BY <1>4 DEF OnUpdateInstallApkDigest
  <2>2. Len(digests'.rows) \in 0..Len(digests'.rows)
    BY <1>3 DEF Table, IsTable
  <2>. QED
    BY <1>3, <2>1, <2>2, DetailOfRow
<1>5. CASE k \in DOMAIN digests.index
  <2>1. /\ failed' = IF current = k THEN r ELSE failed
        /\ selected' = selected /\ current' = current
    BY <1>5 DEF OnUpdateInstallApkDigest
  <2> DEFINE at == digests.index[k]
  <2>2. /\ at \in DOMAIN digests.rows /\ digests.rows[at].key = k
        /\ \A i \in DOMAIN digests.rows : digests.index[digests.rows[i].key] = i
    BY <1>2, <1>5 DEF Table, Indexed
  <2>3. digests' = [digests EXCEPT !.rows[at].report = r]
    BY <1>2, <1>5 DEF Refreshed
  <2>4. /\ digests = [rows |-> digests.rows, index |-> digests.index]
        /\ digests.rows \in Seq([key : Serial, report : Nat])
    BY <1>2 DEF Table, IsTable
  <2>5. digests'.rows = [digests.rows EXCEPT ![at].report = r]
    BY <2>3, <2>4
  <2>. HIDE DEF at, k, r
  <2>6. DOMAIN digests'.rows = DOMAIN digests.rows
    BY <2>5
  <2>7. digests.rows[at] \in [key : Serial, report : Nat]
    <3>1. \A S : \A s \in Seq(S) : \A i \in DOMAIN s : s[i] \in S
      OBVIOUS
    <3>. QED
      BY <2>2, <2>4, <3>1
  <2>8. digests'.rows[at] = [key |-> k, report |-> r]
    BY <2>2, <2>5, <2>7
  <2>9. \A i \in DOMAIN digests.rows : i # at => digests'.rows[i] = digests.rows[i]
    BY <2>5
  <2>10. CASE selected = 0
    <3>1. current = None /\ failed = 0
      BY <2>10 DEF DetailShowsSelected
    <3>2. current # k
      BY <1>1, <3>1, WindowAssumption DEF WindowAssumption, k, r
    <3>. QED
      BY <2>1, <2>10, <3>1, <3>2 DEF DetailShowsSelected
  <2>11. CASE selected # 0 /\ selected = at
    <3>1. digests.rows[at].key = current
      BY <2>11 DEF DetailShowsSelected
    <3>2. current = k
      BY <2>2, <3>1
    <3>. QED
      BY <2>1, <2>2, <2>6, <2>8, <2>11, <3>2 DEF DetailShowsSelected
  <2>12. CASE selected # 0 /\ selected # at
    <3>1. selected \in DOMAIN digests.rows /\ digests.rows[selected] = [key |-> current, report |-> failed]
      BY <2>12 DEF DetailShowsSelected
    <3>2. digests.index[current] = selected
      BY <2>2, <3>1
    <3>3. current # k
      BY <2>12, <3>2 DEF at
    <3>. QED
      BY <2>1, <2>6, <2>9, <2>12, <3>1, <3>3 DEF DetailShowsSelected
  <2>. QED
    BY <2>10, <2>11, <2>12
<1>. QED
  BY <1>4, <1>5

LEMMA DetailDevices ==
  ASSUME Typed, DetailShowsSelected, OnDeviceUpdate
  PROVE  DetailShowsSelected'
<1>1. Head(toUi).list \in Seq(Serial) /\ Table(digests, Serial)
  BY TablesTyped, TakeTyped, UiTasks, WindowAssumption DEF Typed, OnDeviceUpdate, WindowAssumption
<1>2. Table(digests', Serial) /\ Grown(digests, digests')
  BY <1>1, ListedIsTable DEF OnDeviceUpdate
<1>3. Len(digests'.rows) \in Nat /\ DOMAIN digests'.rows = 1..Len(digests'.rows)
  BY <1>2 DEF Table, IsTable
<1>4. Len(digests.rows) \in Nat /\ DOMAIN digests.rows = 1..Len(digests.rows)
  BY <1>1 DEF Table, IsTable
<1>5. CASE Len(digests'.rows) > Len(digests.rows)
  <2>1. Detail(Len(digests'.rows), digests')
    BY <1>5 DEF OnDeviceUpdate
  <2>2. Len(digests'.rows) \in 0..Len(digests'.rows)
    BY <1>3
  <2>. QED
    BY <1>2, <2>1, <2>2, DetailOfRow
<1>6. CASE ~(Len(digests'.rows) > Len(digests.rows))
  <2>1. selected' = selected /\ current' = current /\ failed' = failed
    BY <1>6 DEF OnDeviceUpdate
  <2>2. \A i \in DOMAIN digests.rows : i \in DOMAIN digests'.rows /\ digests'.rows[i] = digests.rows[i]
    BY <1>2, <1>3, <1>4 DEF Grown
  <2>. QED
    BY <2>1, <2>2 DEF DetailShowsSelected
<1>. QED
  BY <1>5, <1>6

LEMMA DetailStep == Typed /\ DetailShowsSelected /\ [Next]_vars => DetailShowsSelected'
<1>. SUFFICES ASSUME Typed, DetailShowsSelected, [Next]_vars PROVE DetailShowsSelected'
  OBVIOUS
<1>1. CASE OnUpdateInstallApkDigest
  BY <1>1, DetailDigest
<1>2. CASE OnDeviceUpdate
  BY <1>2, DetailDevices
<1>3. ASSUME NEW row \in 0..Len(digests.rows), SelectRow(row) PROVE DetailShowsSelected'
  <2>1. Table(digests, Serial)
    BY TablesTyped
  <2>. QED
    BY <1>3, <2>1, DetailOfRow DEF SelectRow
<1>4. CASE UNCHANGED <<digests, selected, current, failed>>
  BY <1>4 DEF DetailShowsSelected
<1>5. \/ OnUpdateInstallApkDigest \/ OnDeviceUpdate
      \/ \E row \in 0..Len(digests.rows) : SelectRow(row)
      \/ UNCHANGED <<digests, selected, current, failed>>
  BY DEF Next, Choose, Login, ClearStatuses, ClearUpdates, HostTask, InstallDigest, DevicesList,
    ApkIRStatus, DownloadBegins, Downloading, DownloadEnds, NotifyApkCheckUpdateInfo, LoginAnswer,
    OnUpdateApkIRStatus, OnApkUpdateInfo, OnApkUpdateInfoToString, OnLoginResponse, vars, tableVars
<1>. QED
  BY <1>1, <1>2, <1>3, <1>4, <1>5

\* The list of failures on the screen is that of the selected phone, as of the
\* digest its row shows (DetailShowsSelected).
THEOREM DetailFollows == Spec => []DetailShowsSelected
  BY TypedAlways, DetailInit, DetailStep, PTL DEF Spec

-----------------------------------------------------------------------------
(* The mode *)

LEMMA ModeInit == Init => ModeAgrees
BY DEF Init, ModeAgrees

\* A mode that is posted is the one the tasks end with.
LEMMA ModeChoose ==
  ASSUME Typed, NEW page \in {"login", "auto", "manual"}, Choose(page)
  PROVE  ModeAgrees'
<1> DEFINE m == [type |-> "mode", mode |-> uiMode']
<1>1. toHost' = Append(toHost, m) /\ m \in ToHostMessage /\ toHost \in Seq(ToHostMessage)
  BY NewTasks DEF Choose, Typed, TypeOK
<1>2. /\ Len(toHost) + 1 \in DOMAIN toHost' /\ toHost'[Len(toHost) + 1] = m
      /\ DOMAIN toHost' = 1..(Len(toHost) + 1) /\ Len(toHost) \in Nat
  BY <1>1
<1>3. shown' = "manual" => uiMode' = 1
  BY DEF Choose
<1>4. ASSUME NEW i \in DOMAIN toHost', toHost'[i].type = "mode",
             \A j \in DOMAIN toHost' : toHost'[j].type = "mode" => j <= i
      PROVE  toHost'[i].mode = uiMode'
  <2>1. i = Len(toHost) + 1
    BY <1>2, <1>4
  <2>. QED
    BY <1>2, <2>1
<1>. QED
  BY <1>2, <1>3, <1>4 DEF ModeAgrees

\* A task of another type changes nothing.
LEMMA ModePosted ==
  ASSUME Typed, ModeAgrees, NEW m \in ToHostMessage, m.type # "mode",
         toHost' = Append(toHost, m), UNCHANGED <<hostMode, uiMode>>,
         shown' # "manual" \/ shown' = shown
  PROVE  ModeAgrees'
<1>1. toHost \in Seq(ToHostMessage)
  BY DEF Typed, TypeOK
<1>2. /\ DOMAIN toHost = 1..Len(toHost) /\ Len(toHost) \in Nat
      /\ DOMAIN toHost' = 1..(Len(toHost) + 1) /\ toHost'[Len(toHost) + 1] = m
      /\ \A i \in DOMAIN toHost : toHost'[i] = toHost[i]
  BY <1>1, QueueFacts
<1>3. {i \in DOMAIN toHost' : toHost'[i].type = "mode"} = {i \in DOMAIN toHost : toHost[i].type = "mode"}
  BY <1>2
<1>. QED
  BY <1>2, <1>3 DEF ModeAgrees

LEMMA ModeTask ==
  ASSUME Typed, ModeAgrees, HostTask
  PROVE  ModeAgrees'
<1>1. /\ toHost \in Seq(ToHostMessage) /\ toHost # <<>> /\ toHost' = Tail(toHost)
      /\ uiMode' = uiMode /\ shown' = shown
      /\ hostMode' = IF Head(toHost).type = "mode" THEN Head(toHost).mode ELSE hostMode
  BY DEF Typed, TypeOK, HostTask, pageVars
<1>2. /\ DOMAIN toHost = 1..Len(toHost) /\ Len(toHost) \in Nat
      /\ Head(toHost) = toHost[1] /\ 1 \in DOMAIN toHost
      /\ DOMAIN toHost' = 1..(Len(toHost) - 1)
      /\ \A i \in DOMAIN toHost' : i + 1 \in DOMAIN toHost /\ toHost'[i] = toHost[i + 1]
      /\ \A i \in DOMAIN toHost : i # 1 => i - 1 \in DOMAIN toHost'
  BY <1>1
<1>3. ASSUME \A i \in DOMAIN toHost' : toHost'[i].type # "mode"
      PROVE  uiMode' = hostMode'
  <2>1. \A i \in DOMAIN toHost : i # 1 => toHost[i].type # "mode"
    <3>1. ASSUME NEW i \in DOMAIN toHost, i # 1 PROVE toHost[i].type # "mode"
      <4>1. i - 1 \in DOMAIN toHost' /\ toHost'[i - 1] = toHost[(i - 1) + 1] /\ (i - 1) + 1 = i
        BY <1>2, <3>1
      <4>. QED
        BY <1>3, <4>1
    <3>. QED
      BY <3>1
  <2>2. CASE toHost[1].type = "mode"
    <3>1. \A j \in DOMAIN toHost : toHost[j].type = "mode" => j <= 1
      BY <1>2, <2>1
    <3>2. uiMode = toHost[1].mode
      BY <1>2, <2>2, <3>1 DEF ModeAgrees
    <3>. QED
      BY <1>1, <1>2, <2>2, <3>2
  <2>3. CASE toHost[1].type # "mode"
    <3>1. {i \in DOMAIN toHost : toHost[i].type = "mode"} = {}
      BY <2>1, <2>3
    <3>. QED
      BY <1>1, <1>2, <2>3, <3>1 DEF ModeAgrees
  <2>. QED
    BY <2>2, <2>3
<1>4. ASSUME NEW i \in DOMAIN toHost', toHost'[i].type = "mode",
             \A j \in DOMAIN toHost' : toHost'[j].type = "mode" => j <= i
      PROVE  toHost'[i].mode = uiMode'
  <2>1. i + 1 \in DOMAIN toHost /\ toHost'[i] = toHost[i + 1] /\ i \in Nat /\ i >= 1
    BY <1>2
  <2>2. ASSUME NEW j \in DOMAIN toHost, toHost[j].type = "mode" PROVE j <= i + 1
    <3>1. CASE j = 1
      BY <2>1, <3>1
    <3>2. CASE j # 1
      <4>1. j - 1 \in DOMAIN toHost' /\ (j - 1) + 1 = j /\ toHost'[j - 1] = toHost[j]
        BY <1>2, <3>2
      <4>2. j - 1 <= i
        BY <1>4, <2>2, <4>1
      <4>. QED
        BY <1>2, <2>1, <4>2
    <3>. QED
      BY <3>1, <3>2
  <2>3. uiMode = toHost[i + 1].mode
    BY <1>4, <2>1, <2>2 DEF ModeAgrees
  <2>. QED
    BY <1>1, <2>1, <2>3
<1>. QED
  BY <1>1, <1>3, <1>4 DEF ModeAgrees

LEMMA ModeStep == Typed /\ ModeAgrees /\ [Next]_vars => ModeAgrees'
<1>. SUFFICES ASSUME Typed, ModeAgrees, [Next]_vars PROVE ModeAgrees'
  OBVIOUS
<1>1. ASSUME NEW page \in {"login", "auto", "manual"}, Choose(page) PROVE ModeAgrees'
  BY <1>1, ModeChoose
<1>2. CASE HostTask
  BY <1>2, ModeTask
<1>3. CASE Login
  BY <1>3, NewTasks, ModePosted DEF Login, pageVars
<1>4. CASE OnLoginResponse
  <2>1. Head(toUi).success \in BOOLEAN
    BY <1>4, TakeTyped, UiTasks DEF OnLoginResponse, Typed
  <2>2. [type |-> "total", on |-> Head(toUi).success] \in ToHostMessage
    BY <2>1, NewTasks
  <2>3. shown' # "manual" /\ UNCHANGED <<hostMode, uiMode>>
    BY <1>4 DEF OnLoginResponse
  <2>. QED
    BY <1>4, <2>2, <2>3, ModePosted DEF OnLoginResponse
<1>5. CASE UNCHANGED <<toHost, hostMode, uiMode, shown>>
  BY <1>5 DEF ModeAgrees
<1>6. \/ \E page \in {"login", "auto", "manual"} : Choose(page)
      \/ HostTask \/ Login \/ OnLoginResponse
      \/ UNCHANGED <<toHost, hostMode, uiMode, shown>>
  BY DEF Next, SelectRow, ClearStatuses, ClearUpdates, InstallDigest, DevicesList,
    ApkIRStatus, DownloadBegins, Downloading, DownloadEnds, NotifyApkCheckUpdateInfo, LoginAnswer,
    OnUpdateInstallApkDigest, OnDeviceUpdate,
    OnUpdateApkIRStatus, OnApkUpdateInfo, OnApkUpdateInfoToString, vars, pageVars
<1>. QED
  BY <1>1, <1>2, <1>3, <1>4, <1>5, <1>6

\* Once it has run the tasks it was posted, the CTP thread is in the mode the
\* UI is in, and the manual page is only shown in its mode (ModeAgrees).
THEOREM ModesMeet == Spec => []ModeAgrees
  BY TypedAlways, ModeInit, ModeStep, PTL DEF Spec

-----------------------------------------------------------------------------
(* Reports *)

\* The reports for a key behind position i of a queue.
IsReport(m, k) == m.type \in {"digest", "status"} /\ m.key = k
Behind(q, k, i) == {j \in DOMAIN q : j > i /\ IsReport(q[j], k)}

\* The reports under way are numbered without a gap, up to the last there was.
Numbered ==
  \A i \in DOMAIN toUi : toUi[i].type \in {"digest", "status"} =>
    toUi[i].report + Cardinality(Behind(toUi, toUi[i].key, i)) = reported[toUi[i].key]

LEMMA BehindFinite ==
  ASSUME NEW S, NEW q \in Seq(S), NEW k, NEW i
  PROVE  IsFiniteSet(Behind(q, k, i)) /\ Cardinality(Behind(q, k, i)) \in Nat
<1>1. PICK n \in Nat : n = Len(q) /\ DOMAIN q = 1..n
  OBVIOUS
<1>2. IsFiniteSet(1..n)
  BY FS_Interval
<1>3. Behind(q, k, i) \in SUBSET (1..n)
  BY <1>1 DEF Behind
<1>. QED
  BY <1>2, <1>3, FS_Subset, FS_CardinalityType

\* What is posted is behind everything, and nothing is behind it.
LEMMA BehindAppend ==
  ASSUME NEW S, NEW q \in Seq(S), NEW m \in S, NEW k, NEW i \in 0..Len(q)
  PROVE  /\ Cardinality(Behind(Append(q, m), k, i)) =
              Cardinality(Behind(q, k, i)) + (IF IsReport(m, k) THEN 1 ELSE 0)
         /\ Cardinality(Behind(Append(q, m), k, Len(q) + 1)) = 0
<1>1. PICK n \in Nat : n = Len(q) /\ DOMAIN q = 1..n
  OBVIOUS
<1> DEFINE r == Append(q, m)
<1>2. /\ DOMAIN r = 1..(n + 1) /\ r[n + 1] = m
      /\ \A j \in 1..n : r[j] = q[j]
  BY <1>1
<1>. HIDE DEF r
<1>3. Behind(r, k, i) = IF IsReport(m, k) THEN Behind(q, k, i) \cup {n + 1} ELSE Behind(q, k, i)
  BY <1>1, <1>2 DEF Behind
<1>4. n + 1 \notin Behind(q, k, i)
  BY <1>1 DEF Behind
<1>5. Cardinality(Behind(r, k, i)) = Cardinality(Behind(q, k, i)) + (IF IsReport(m, k) THEN 1 ELSE 0)
  <2>1. IsFiniteSet(Behind(q, k, i)) /\ Cardinality(Behind(q, k, i)) \in Nat
    BY BehindFinite
  <2>2. Cardinality(Behind(q, k, i) \cup {n + 1}) = Cardinality(Behind(q, k, i)) + 1
    BY <1>4, <2>1, FS_AddElement
  <2>. QED
    BY <1>3, <2>1, <2>2
<1>6. Behind(r, k, n + 1) = {}
  BY <1>2 DEF Behind
<1>. QED
  BY <1>1, <1>5, <1>6, FS_EmptySet DEF r

\* Taking the first task moves the others up by one.
LEMMA BehindTail ==
  ASSUME NEW S, NEW q \in Seq(S), q # <<>>, NEW k, NEW i \in Nat
  PROVE  Cardinality(Behind(Tail(q), k, i)) = Cardinality(Behind(q, k, i + 1))
<1>1. PICK n \in Nat \ {0} : n = Len(q) /\ DOMAIN q = 1..n
  OBVIOUS
<1> DEFINE t == Tail(q)
           A == Behind(t, k, i)
           B == Behind(q, k, i + 1)
           shift == [j \in A |-> j + 1]
<1>2. /\ t \in Seq(S) /\ DOMAIN t = 1..(n - 1)
      /\ \A j \in 1..(n - 1) : t[j] = q[j + 1]
  BY <1>1
<1>3. IsFiniteSet(A)
  BY <1>2, BehindFinite
<1>. HIDE DEF t
<1>4. \A j \in A : j \in Nat /\ j + 1 \in B
  BY <1>1, <1>2 DEF Behind
<1>5. \A j \in B : j - 1 \in A /\ (j - 1) + 1 = j
  BY <1>1, <1>2 DEF Behind
<1>. HIDE DEF A, B
<1>6. shift \in Bijection(A, B)
  <2>1. shift \in [A -> B]
    BY <1>4
  <2>2. \A x, y \in A : shift[x] = shift[y] => x = y
    BY <1>4
  <2>3. \A y \in B : \E x \in A : shift[x] = y
    BY <1>5
  <2>. QED
    BY <2>1, <2>2, <2>3 DEF Bijection, Injection, Surjection, IsInjective
<1>7. ExistsBijection(A, B)
  BY <1>6 DEF ExistsBijection
<1>. QED
  BY <1>3, <1>7, FS_Bijection DEF A, B, t

LEMMA BehindHead ==
  ASSUME NEW S, NEW q \in Seq(S), q # <<>>, NEW k
  PROVE  Cardinality(Behind(q, k, 0)) =
           Cardinality(Behind(q, k, 1)) + (IF IsReport(Head(q), k) THEN 1 ELSE 0)
<1>1. PICK n \in Nat \ {0} : n = Len(q) /\ DOMAIN q = 1..n /\ Head(q) = q[1]
  OBVIOUS
<1>2. Behind(q, k, 0) = IF IsReport(Head(q), k) THEN Behind(q, k, 1) \cup {1} ELSE Behind(q, k, 1)
  BY <1>1 DEF Behind
<1>3. 1 \notin Behind(q, k, 1)
  BY DEF Behind
<1>. QED
  BY <1>2, <1>3, BehindFinite, FS_AddElement

LEMMA InFlightIsBehind ==
  ASSUME NEW S, toUi \in Seq(S), NEW k
  PROVE  InFlight(k) = Cardinality(Behind(toUi, k, 0))
<1>1. \A i \in DOMAIN toUi : i > 0
  OBVIOUS
<1>2. {i \in DOMAIN toUi : toUi[i].type \in {"digest", "status"} /\ toUi[i].key = k} = Behind(toUi, k, 0)
  BY <1>1 DEF Behind, IsReport
<1>. QED
  BY <1>2, Zenon DEF InFlight

LEMMA InFlightIsBehindNext ==
  ASSUME NEW S, toUi' \in Seq(S), NEW k
  PROVE  InFlight(k)' = Cardinality(Behind(toUi', k, 0))
<1>1. \A i \in DOMAIN toUi' : i > 0
  OBVIOUS
<1>2. {i \in DOMAIN toUi' : toUi'[i].type \in {"digest", "status"} /\ toUi'[i].key = k} = Behind(toUi', k, 0)
  BY <1>1 DEF Behind, IsReport
<1>. QED
  BY <1>2, Zenon DEF InFlight

\* The row the map of a table names.
LEMMA RowOf ==
  ASSUME NEW keys, NEW table, Table(table, keys), NEW k \in DOMAIN table.index
  PROVE  /\ k \in keys /\ table.index[k] \in DOMAIN table.rows
         /\ table.rows[table.index[k]].report \in Nat
         /\ table.rows[table.index[k]].key = k
<1>1. table.rows \in Seq([key : keys, report : Nat]) /\ k \in keys
  BY DEF Table, IsTable
<1>2. table.index[k] \in DOMAIN table.rows /\ table.rows[table.index[k]].key = k
  BY DEF Table, Indexed
<1>3. table.rows[table.index[k]] \in [key : keys, report : Nat]
  BY <1>1, <1>2, QueueFacts
<1>. QED
  BY <1>1, <1>2, <1>3

ReportInv == Numbered /\ LatestShown

\* A report is named by one kind of key.
LEMMA ReportKeys ==
  ASSUME NEW m \in ToUiMessage, m.type \in {"digest", "status"}
  PROVE  /\ m.key \in Serial \cup Key /\ m.report \in Nat
         /\ m.type = "digest" => m.key \notin Key
         /\ m.type = "status" => m.key \notin Serial
BY UiTasks, WindowAssumption DEF WindowAssumption

LEMMA ReportInit == Init => ReportInv
<1>. SUFFICES ASSUME Init PROVE ReportInv
  OBVIOUS
<1>1. toUi = <<>> /\ digests = NoRows /\ statuses = NoRows
      /\ reported = [k \in Serial \cup Key \cup Package |-> 0]
  BY DEF Init
<1>2. \A k : InFlight(k) = 0
  <2>1. \A k : {i \in DOMAIN toUi : toUi[i].type \in {"digest", "status"} /\ toUi[i].key = k} = {}
    BY <1>1
  <2>. QED
    BY <2>1, FS_EmptySet DEF InFlight
<1>. QED
  BY <1>1, <1>2 DEF ReportInv, Numbered, LatestShown, NoRows

\* A new report is the next one of its key.
LEMMA ReportPosted ==
  ASSUME Typed, ReportInv, Typed', NEW s \in Serial \cup Key, NEW m \in ToUiMessage,
         IsReport(m, s), m.report = reported[s] + 1,
         toUi' = Append(toUi, m), reported' = [reported EXCEPT ![s] = @ + 1],
         UNCHANGED <<digests, statuses>>
  PROVE  ReportInv'
<1>1. /\ toUi \in Seq(ToUiMessage) /\ toUi' \in Seq(ToUiMessage)
      /\ reported \in [Serial \cup Key \cup Package -> Nat]
  BY DEF Typed, TypeOK
<1>2. PICK n \in Nat : n = Len(toUi) /\ DOMAIN toUi = 1..n
  BY <1>1
<1>3. /\ DOMAIN toUi' = 1..(n + 1) /\ toUi'[n + 1] = m
      /\ \A i \in 1..n : toUi'[i] = toUi[i] /\ toUi[i] \in ToUiMessage
  BY <1>1, <1>2
<1>4. \A k, i : Cardinality(Behind(toUi, k, i)) \in Nat
  BY <1>1, BehindFinite
<1>5. \A k : \A i \in 0..n : Cardinality(Behind(toUi', k, i)) =
               Cardinality(Behind(toUi, k, i)) + (IF IsReport(m, k) THEN 1 ELSE 0)
  BY <1>1, <1>2, BehindAppend
<1>6. \A k : Cardinality(Behind(toUi', k, n + 1)) = 0
  <2>1. 0 \in 0..Len(toUi)
    BY <1>2
  <2>. QED
    BY <1>1, <1>2, <2>1, BehindAppend
<1>7. \A k \in Serial \cup Key : reported'[k] = reported[k] + (IF IsReport(m, k) THEN 1 ELSE 0)
  BY <1>1 DEF IsReport
<1>8. Numbered'
  <2>. SUFFICES ASSUME NEW i \in DOMAIN toUi', toUi'[i].type \in {"digest", "status"}
                PROVE  toUi'[i].report + Cardinality(Behind(toUi', toUi'[i].key, i)) = reported'[toUi'[i].key]
    BY DEF Numbered
  <2>1. CASE i = n + 1
    <3>1. reported'[s] = m.report /\ m.key = s /\ m.report \in Nat
      BY <1>1, ReportKeys DEF IsReport
    <3>. QED
      BY <1>3, <1>6, <2>1, <3>1
  <2>2. CASE i # n + 1
    <3>1. i \in 1..n /\ i \in 0..n /\ toUi'[i] = toUi[i]
      BY <1>2, <1>3, <2>2
    <3>2. PICK k \in Serial \cup Key : k = toUi[i].key
      BY <1>3, <3>1, ReportKeys
    <3>3. toUi[i].report \in Nat
      BY <1>3, <3>1, ReportKeys
    <3>4. toUi[i].report + Cardinality(Behind(toUi, k, i)) = reported[k]
      BY <1>2, <3>1, <3>2 DEF ReportInv, Numbered
    <3>5. Cardinality(Behind(toUi', k, i)) = Cardinality(Behind(toUi, k, i)) + (IF IsReport(m, k) THEN 1 ELSE 0)
      BY <1>5, <3>1
    <3>. QED
      BY <1>4, <1>7, <3>1, <3>2, <3>3, <3>4, <3>5
  <2>. QED
    BY <2>1, <2>2
<1>9. \A k : InFlight(k)' = InFlight(k) + (IF IsReport(m, k) THEN 1 ELSE 0)
  <2>1. \A k : InFlight(k) = Cardinality(Behind(toUi, k, 0))
    BY <1>1, InFlightIsBehind
  <2>2. \A k : InFlight(k)' = Cardinality(Behind(toUi', k, 0))
    BY <1>1, InFlightIsBehindNext
  <2>3. 0 \in 0..n
    OBVIOUS
  <2>. QED
    BY <1>5, <2>1, <2>2, <2>3
<1>10. \A k : InFlight(k) \in Nat
  BY <1>1, <1>4, InFlightIsBehind
<1>11. LatestShown'
  <2>0. Table(digests, Serial) /\ Table(statuses, Key) /\ digests' = digests /\ statuses' = statuses
    BY TablesTyped
  <2>1. ASSUME NEW k \in Serial
        PROVE  reported'[k] = InFlight(k)' + IF k \in DOMAIN digests.index
                                             THEN digests.rows[digests.index[k]].report ELSE 0
    <3>1. PICK r \in Nat : r = IF k \in DOMAIN digests.index
                               THEN digests.rows[digests.index[k]].report ELSE 0
      BY <2>0, RowOf
    <3>2. reported[k] = InFlight(k) + r
      BY <3>1 DEF ReportInv, LatestShown
    <3>3. reported'[k] = InFlight(k)' + r
      BY <1>7, <1>9, <1>10, <3>2
    <3>. QED
      BY <3>1, <3>3
  <2>2. ASSUME NEW k \in DOMAIN statuses.index
        PROVE  reported'[k] = InFlight(k)' + statuses.rows[statuses.index[k]].report
    <3>1. PICK r \in Nat : r = statuses.rows[statuses.index[k]].report
      BY <2>0, RowOf
    <3>2. reported[k] = InFlight(k) + r /\ k \in Key
      BY <2>0, <3>1, RowOf DEF ReportInv, LatestShown
    <3>3. reported'[k] = InFlight(k)' + r
      BY <1>7, <1>9, <1>10, <3>2
    <3>. QED
      BY <3>1, <3>3
  <2>. QED
    BY <2>0, <2>1, <2>2 DEF LatestShown
<1>. QED
  BY <1>8, <1>11 DEF ReportInv

\* Other notifications number nothing.
LEMMA OtherPosted ==
  ASSUME Typed, ReportInv, Typed', NEW m \in ToUiMessage, m.type \notin {"digest", "status"},
         toUi' = Append(toUi, m), \A k \in Serial \cup Key : reported'[k] = reported[k],
         UNCHANGED <<digests, statuses>>
  PROVE  ReportInv'
<1>1. toUi \in Seq(ToUiMessage) /\ toUi' \in Seq(ToUiMessage)
  BY DEF Typed, TypeOK
<1>2. PICK n \in Nat : n = Len(toUi) /\ DOMAIN toUi = 1..n
  BY <1>1
<1>3. /\ DOMAIN toUi' = 1..(n + 1) /\ toUi'[n + 1] = m
      /\ \A i \in 1..n : toUi'[i] = toUi[i] /\ toUi[i] \in ToUiMessage
  BY <1>1, <1>2
<1>4. \A k, i : Cardinality(Behind(toUi, k, i)) \in Nat
  BY <1>1, BehindFinite
<1>5. ASSUME NEW k, NEW i \in 0..n
      PROVE  Cardinality(Behind(toUi', k, i)) = Cardinality(Behind(toUi, k, i))
  <2>1. ~IsReport(m, k)
    BY DEF IsReport
  <2>2. Cardinality(Behind(toUi', k, i)) =
          Cardinality(Behind(toUi, k, i)) + (IF IsReport(m, k) THEN 1 ELSE 0)
    BY <1>1, <1>2, BehindAppend
  <2>. QED
    BY <1>4, <2>1, <2>2
<1>6. Numbered'
  <2>. SUFFICES ASSUME NEW i \in DOMAIN toUi', toUi'[i].type \in {"digest", "status"}
                PROVE  toUi'[i].report + Cardinality(Behind(toUi', toUi'[i].key, i)) = reported'[toUi'[i].key]
    BY DEF Numbered
  <2>1. i \in 1..n /\ i \in 0..n /\ toUi'[i] = toUi[i]
    BY <1>2, <1>3
  <2>2. PICK k \in Serial \cup Key : k = toUi[i].key
    BY <1>3, <2>1, ReportKeys
  <2>3. toUi[i].report + Cardinality(Behind(toUi, k, i)) = reported[k]
    BY <1>2, <2>1, <2>2 DEF ReportInv, Numbered
  <2>. QED
    BY <1>5, <2>1, <2>2, <2>3
<1>7. \A k : InFlight(k)' = InFlight(k)
  <2>1. \A k : InFlight(k) = Cardinality(Behind(toUi, k, 0))
    BY <1>1, InFlightIsBehind
  <2>2. \A k : InFlight(k)' = Cardinality(Behind(toUi', k, 0))
    BY <1>1, InFlightIsBehindNext
  <2>3. 0 \in 0..n
    OBVIOUS
  <2>. QED
    BY <1>5, <2>1, <2>2, <2>3
<1>8. LatestShown'
  <2>0. Table(statuses, Key) /\ digests' = digests /\ statuses' = statuses
    BY TablesTyped
  <2>1. \A k \in DOMAIN statuses.index : k \in Key
    BY <2>0, RowOf
  <2>. QED
    BY <1>7, <2>0, <2>1 DEF ReportInv, LatestShown
<1>. QED
  BY <1>6, <1>8 DEF ReportInv

\* Taking a task: the others keep their numbers, and a report that is taken
\* is the one before those still under way.
LEMMA ReportTaken ==
  ASSUME Typed, ReportInv, Typed', toUi # <<>>, toUi' = Tail(toUi), reported' = reported
  PROVE  /\ Numbered'
         /\ \A k : ~IsReport(Head(toUi), k) => InFlight(k)' = InFlight(k)
         /\ \A k : IsReport(Head(toUi), k) => reported[k] = InFlight(k)' + Head(toUi).report
         /\ Head(toUi) \in ToUiMessage
<1>1. toUi \in Seq(ToUiMessage) /\ toUi' \in Seq(ToUiMessage) /\ Head(toUi) \in ToUiMessage
  BY QueueFacts DEF Typed, TypeOK
<1>2. PICK n \in Nat \ {0} : n = Len(toUi) /\ DOMAIN toUi = 1..n /\ Head(toUi) = toUi[1]
  BY <1>1
<1>3. /\ DOMAIN toUi' = 1..(n - 1)
      /\ \A i \in 1..(n - 1) : toUi'[i] = toUi[i + 1] /\ toUi[i + 1] \in ToUiMessage
  BY <1>1, <1>2
<1>4. \A k, i : Cardinality(Behind(toUi, k, i)) \in Nat /\ Cardinality(Behind(toUi', k, i)) \in Nat
  BY <1>1, BehindFinite
<1>5. \A k : \A i \in Nat : Cardinality(Behind(toUi', k, i)) = Cardinality(Behind(toUi, k, i + 1))
  BY <1>1, BehindTail
<1>6. Numbered'
  <2>. SUFFICES ASSUME NEW i \in DOMAIN toUi', toUi'[i].type \in {"digest", "status"}
                PROVE  toUi'[i].report + Cardinality(Behind(toUi', toUi'[i].key, i)) = reported'[toUi'[i].key]
    BY DEF Numbered
  <2>1. i \in 1..(n - 1) /\ i \in Nat /\ i + 1 \in 1..n /\ toUi'[i] = toUi[i + 1]
    BY <1>2, <1>3
  <2>2. PICK k \in Serial \cup Key : k = toUi[i + 1].key
    BY <1>3, <2>1, ReportKeys
  <2>3. toUi[i + 1].report + Cardinality(Behind(toUi, k, i + 1)) = reported[k]
    BY <1>2, <2>1, <2>2 DEF ReportInv, Numbered
  <2>4. Cardinality(Behind(toUi', k, i)) = Cardinality(Behind(toUi, k, i + 1))
    BY <1>5, <2>1
  <2>. QED
    BY <2>1, <2>2, <2>3, <2>4
<1>7. \A k : InFlight(k) = Cardinality(Behind(toUi, k, 0))
  BY <1>1, InFlightIsBehind
<1>8. ASSUME NEW k PROVE InFlight(k)' = Cardinality(Behind(toUi, k, 1))
  <2>1. InFlight(k)' = Cardinality(Behind(toUi', k, 0))
    BY <1>1, InFlightIsBehindNext
  <2>2. Cardinality(Behind(toUi', k, 0)) = Cardinality(Behind(toUi, k, 0 + 1)) /\ 0 + 1 = 1
    BY <1>5
  <2>. QED
    BY <2>1, <2>2
<1>9. \A k : Cardinality(Behind(toUi, k, 0)) =
               Cardinality(Behind(toUi, k, 1)) + (IF IsReport(Head(toUi), k) THEN 1 ELSE 0)
  BY <1>1, BehindHead
<1>10. ASSUME NEW k, IsReport(Head(toUi), k)
       PROVE  reported[k] = InFlight(k)' + Head(toUi).report
  <2>1. /\ toUi[1].type \in {"digest", "status"} /\ toUi[1].key = k
        /\ toUi[1].report \in Nat
    BY <1>1, <1>2, <1>10, ReportKeys DEF IsReport
  <2>2. toUi[1].report + Cardinality(Behind(toUi, k, 1)) = reported[k]
    BY <1>2, <2>1 DEF ReportInv, Numbered
  <2>. QED
    BY <1>2, <1>4, <1>8, <2>1, <2>2
<1>11. ASSUME NEW k, ~IsReport(Head(toUi), k)
       PROVE  InFlight(k)' = InFlight(k)
  BY <1>4, <1>7, <1>8, <1>9, <1>11
<1>. QED
  BY <1>1, <1>6, <1>10, <1>11

\* A report that is drawn is the newest but those under way.
LEMMA ReportDrawn ==
  ASSUME Typed, ReportInv, Typed'
  PROVE  /\ OnUpdateInstallApkDigest => ReportInv'
         /\ OnUpdateApkIRStatus => ReportInv'
<1>0. Table(digests, Serial) /\ Table(statuses, Key)
  BY TablesTyped
<1>0a. \A k \in DOMAIN statuses.index : k \in Key
  BY <1>0, RowOf
<1> DEFINE m == Head(toUi)
<1>1. ASSUME OnUpdateInstallApkDigest PROVE ReportInv'
  <2>1. toUi # <<>> /\ toUi' = Tail(toUi) /\ reported' = reported /\ statuses' = statuses
        /\ m.type = "digest" /\ digests' = Refreshed(digests, m.key, m.report)
    BY <1>1 DEF OnUpdateInstallApkDigest, Take, pythonVars
  <2>2. /\ Numbered' /\ m \in ToUiMessage
        /\ \A k : ~IsReport(m, k) => InFlight(k)' = InFlight(k)
        /\ \A k : IsReport(m, k) => reported[k] = InFlight(k)' + m.report
    BY <2>1, ReportTaken
  <2>3. m.key \in Serial /\ m.report \in Nat /\ m.key \notin Key
    BY <2>1, <2>2, UiTasks, ReportKeys
  <2>4. \A k : IsReport(m, k) <=> k = m.key
    BY <2>1 DEF IsReport
  <2>. HIDE DEF m
  <2>5. /\ DOMAIN digests'.index = DOMAIN digests.index \cup {m.key}
        /\ digests'.rows[digests'.index[m.key]] = [key |-> m.key, report |-> m.report]
        /\ \A x \in DOMAIN digests.index \ {m.key} :
              /\ digests'.index[x] = digests.index[x]
              /\ digests'.rows[digests.index[x]] = digests.rows[digests.index[x]]
    BY <1>0, <2>1, <2>3, RefreshedIsTable
  <2>6. ASSUME NEW k \in Serial
        PROVE  reported'[k] = InFlight(k)' + IF k \in DOMAIN digests'.index
                                             THEN digests'.rows[digests'.index[k]].report ELSE 0
    <3>1. CASE k = m.key
      BY <2>1, <2>2, <2>4, <2>5, <3>1
    <3>2. CASE k # m.key
      <4>1. reported[k] = InFlight(k) + IF k \in DOMAIN digests.index
                                        THEN digests.rows[digests.index[k]].report ELSE 0
        BY DEF ReportInv, LatestShown
      <4>2. InFlight(k)' = InFlight(k)
        BY <2>2, <2>4, <3>2
      <4>3. k \in DOMAIN digests'.index <=> k \in DOMAIN digests.index
        BY <2>5, <3>2
      <4>4. k \in DOMAIN digests.index => digests'.rows[digests'.index[k]] = digests.rows[digests.index[k]]
        BY <2>5, <3>2
      <4>. QED
        BY <2>1, <4>1, <4>2, <4>3, <4>4
    <3>. QED
      BY <3>1, <3>2
  <2>7. \A k \in DOMAIN statuses.index : InFlight(k)' = InFlight(k)
    BY <1>0a, <2>2, <2>3, <2>4
  <2>8. LatestShown'
    BY <2>1, <2>6, <2>7 DEF ReportInv, LatestShown
  <2>. QED
    BY <2>2, <2>8 DEF ReportInv
<1>2. ASSUME OnUpdateApkIRStatus PROVE ReportInv'
  <2>1. toUi # <<>> /\ toUi' = Tail(toUi) /\ reported' = reported /\ digests' = digests
        /\ m.type = "status" /\ statuses' = Refreshed(statuses, m.key, m.report)
    BY <1>2 DEF OnUpdateApkIRStatus, Take, pythonVars
  <2>2. /\ Numbered' /\ m \in ToUiMessage
        /\ \A k : ~IsReport(m, k) => InFlight(k)' = InFlight(k)
        /\ \A k : IsReport(m, k) => reported[k] = InFlight(k)' + m.report
    BY <2>1, ReportTaken
  <2>3. m.key \in Key /\ m.report \in Nat /\ m.key \notin Serial
    BY <2>1, <2>2, UiTasks, ReportKeys
  <2>4. \A k : IsReport(m, k) <=> k = m.key
    BY <2>1 DEF IsReport
  <2>. HIDE DEF m
  <2>5. /\ DOMAIN statuses'.index = DOMAIN statuses.index \cup {m.key}
        /\ statuses'.rows[statuses'.index[m.key]] = [key |-> m.key, report |-> m.report]
        /\ \A x \in DOMAIN statuses.index \ {m.key} :
              /\ statuses'.index[x] = statuses.index[x]
              /\ statuses'.rows[statuses.index[x]] = statuses.rows[statuses.index[x]]
    BY <1>0, <2>1, <2>3, RefreshedIsTable
  <2>6. ASSUME NEW k \in DOMAIN statuses'.index
        PROVE  reported'[k] = InFlight(k)' + statuses'.rows[statuses'.index[k]].report
    <3>1. CASE k = m.key
      BY <2>1, <2>2, <2>4, <2>5, <3>1
    <3>2. CASE k # m.key
      <4>1. k \in DOMAIN statuses.index
        BY <2>5, <3>2
      <4>2. reported[k] = InFlight(k) + statuses.rows[statuses.index[k]].report
        BY <4>1 DEF ReportInv, LatestShown
      <4>3. InFlight(k)' = InFlight(k)
        BY <2>2, <2>4, <3>2
      <4>4. statuses'.rows[statuses'.index[k]] = statuses.rows[statuses.index[k]]
        BY <2>5, <3>2, <4>1
      <4>. QED
        BY <2>1, <4>2, <4>3, <4>4
    <3>. QED
      BY <3>1, <3>2
  <2>7. \A k \in Serial : InFlight(k)' = InFlight(k)
    BY <2>2, <2>3, <2>4
  <2>8. LatestShown'
    BY <2>1, <2>6, <2>7 DEF ReportInv, LatestShown
  <2>. QED
    BY <2>2, <2>8 DEF ReportInv
<1>. QED
  BY <1>1, <1>2

\* A list of devices takes no report back.
LEMMA ReportDevices ==
  ASSUME Typed, ReportInv, Typed', OnDeviceUpdate
  PROVE  ReportInv'
<1>0. Table(digests, Serial) /\ Table(digests', Serial) /\ Table(statuses, Key)
  BY TablesTyped DEF Typed, TypeOK, RowsIndexed, Table
<1>1. toUi # <<>> /\ toUi' = Tail(toUi) /\ reported' = reported /\ statuses' = statuses
      /\ Head(toUi).type = "devices"
  BY DEF OnDeviceUpdate, Take, pythonVars
<1>2. Numbered' /\ \A k : InFlight(k)' = InFlight(k)
  <2>1. \A k : ~IsReport(Head(toUi), k)
    BY <1>1 DEF IsReport
  <2>. QED
    BY <1>1, <2>1, ReportTaken
<1>3. Grown(digests, digests')
  <2>1. Head(toUi).list \in Seq(Serial)
    BY TakeTyped, UiTasks, WindowAssumption DEF Typed, OnDeviceUpdate, WindowAssumption
  <2>. QED
    BY <1>0, <2>1, ListedIsTable DEF OnDeviceUpdate
<1>4. ASSUME NEW k \in DOMAIN digests'.index
      PROVE  digests'.rows[digests'.index[k]].report =
               IF k \in DOMAIN digests.index THEN digests.rows[digests.index[k]].report ELSE 0
  <2>1. PICK i \in DOMAIN digests'.rows : i = digests'.index[k] /\ digests'.rows[i].key = k
    BY <1>0, RowOf
  <2>2. CASE k \in DOMAIN digests.index
    <3>1. digests.index[k] = i /\ i \in DOMAIN digests.rows
      BY <1>0, <1>3, <2>1, <2>2, RowOf DEF Grown
    <3>2. digests'.rows[i] = digests.rows[i]
      BY <1>3, <3>1 DEF Grown
    <3>. QED
      BY <2>1, <2>2, <3>1, <3>2
  <2>3. CASE k \notin DOMAIN digests.index
    <3>1. i \notin DOMAIN digests.rows
      <4>1. SUFFICES ASSUME i \in DOMAIN digests.rows PROVE FALSE
        OBVIOUS
      <4>2. digests.rows[i].key = k
        BY <1>3, <2>1, <4>1 DEF Grown
      <4>. QED
        BY <1>0, <2>3, <4>1, <4>2 DEF Table, Indexed
    <3>. QED
      BY <1>3, <2>1, <2>3, <3>1 DEF Grown
  <2>. QED
    BY <2>2, <2>3
<1>5. DOMAIN digests.index \subseteq DOMAIN digests'.index
  BY <1>3 DEF Grown
<1>6. LatestShown'
  <2>1. ASSUME NEW k \in Serial
        PROVE  reported'[k] = InFlight(k)' + IF k \in DOMAIN digests'.index
                                             THEN digests'.rows[digests'.index[k]].report ELSE 0
    <3>1. reported[k] = InFlight(k) + IF k \in DOMAIN digests.index
                                      THEN digests.rows[digests.index[k]].report ELSE 0
      BY DEF ReportInv, LatestShown
    <3>2. (IF k \in DOMAIN digests'.index THEN digests'.rows[digests'.index[k]].report ELSE 0)
            = IF k \in DOMAIN digests.index THEN digests.rows[digests.index[k]].report ELSE 0
      BY <1>4, <1>5
    <3>. QED
      BY <1>1, <1>2, <3>1, <3>2
  <2>. QED
    BY <1>1, <1>2, <2>1 DEF ReportInv, LatestShown
<1>. QED
  BY <1>2, <1>6 DEF ReportInv

\* What takes another task leaves the tables alone.
LEMMA OtherTaken ==
  ASSUME Typed, ReportInv, Typed', toUi # <<>>, toUi' = Tail(toUi), reported' = reported,
         Head(toUi).type \notin {"digest", "status"}, UNCHANGED <<digests, statuses>>
  PROVE  ReportInv'
<1>1. \A k : ~IsReport(Head(toUi), k)
  BY DEF IsReport
<1>2. Numbered' /\ \A k : InFlight(k)' = InFlight(k)
  BY <1>1, ReportTaken
<1>. QED
  BY <1>2 DEF ReportInv, LatestShown

LEMMA ReportUnchanged ==
  ASSUME ReportInv, UNCHANGED <<toUi, reported, digests>>, statuses' = statuses \/ statuses' = NoRows
  PROVE  ReportInv'
<1>1. Numbered'
  BY DEF ReportInv, Numbered
<1>2. \A k : InFlight(k)' = InFlight(k)
  BY DEF InFlight
<1>. QED
  BY <1>1, <1>2 DEF ReportInv, LatestShown, NoRows

LEMMA ReportDownloads ==
  ASSUME Typed, ReportInv, Typed', NEW p \in Package,
         DownloadBegins(p) \/ Downloading(p) \/ DownloadEnds(p)
  PROVE  ReportInv'
<1>1. PICK info \in Info : NotifyApkCheckUpdateInfo(p, info)
  BY DEF DownloadBegins, Downloading, DownloadEnds, Info
<1>2. reported \in [Serial \cup Key \cup Package -> Nat] /\ reported' \in [Serial \cup Key \cup Package -> Nat]
  BY DEF Typed, TypeOK
<1>3. \A k \in Serial \cup Key : reported'[k] = reported[k]
  BY <1>2, WindowAssumption DEF DownloadBegins, Downloading, DownloadEnds, WindowAssumption
<1> DEFINE m == IF hostMode = 1
                THEN [type |-> "update", key |-> p, report |-> reported'[p], info |-> info]
                ELSE [type |-> "text"]
<1>4. m \in ToUiMessage /\ m.type \notin {"digest", "status"}
  BY <1>2, NewTasks
<1>5. toUi' = Append(toUi, m) /\ UNCHANGED <<digests, statuses>>
  BY <1>1 DEF NotifyApkCheckUpdateInfo, Post, tableVars
<1>. HIDE DEF m
<1>. QED
  BY <1>3, <1>4, <1>5, OtherPosted

LEMMA ReportStep == Typed /\ ReportInv /\ Typed' /\ [Next]_vars => ReportInv'
<1>. SUFFICES ASSUME Typed, ReportInv, Typed', [Next]_vars PROVE ReportInv'
  OBVIOUS
<1>0. reported \in [Serial \cup Key \cup Package -> Nat]
  BY DEF Typed, TypeOK
<1>1. ASSUME NEW s \in Serial, InstallDigest(s) PROVE ReportInv'
  <2> DEFINE m == [type |-> "digest", key |-> s, report |-> reported'[s]]
  <2>1. reported' = [reported EXCEPT ![s] = @ + 1] /\ reported'[s] = reported[s] + 1
    BY <1>0, <1>1 DEF InstallDigest
  <2>2. m \in ToUiMessage /\ IsReport(m, s) /\ m.report = reported[s] + 1
    BY <1>0, <2>1, NewTasks DEF IsReport
  <2>3. toUi' = Append(toUi, m) /\ UNCHANGED <<digests, statuses>>
    BY <1>1 DEF InstallDigest, Post, tableVars
  <2>. HIDE DEF m
  <2>. QED
    BY <2>1, <2>2, <2>3, ReportPosted
<1>2. ASSUME NEW k \in Key, ApkIRStatus(k) PROVE ReportInv'
  <2> DEFINE m == [type |-> "status", key |-> k, report |-> reported'[k]]
  <2>1. reported' = [reported EXCEPT ![k] = @ + 1] /\ reported'[k] = reported[k] + 1
    BY <1>0, <1>2 DEF ApkIRStatus
  <2>2. m \in ToUiMessage /\ IsReport(m, k) /\ m.report = reported[k] + 1
    BY <1>0, <2>1, NewTasks DEF IsReport
  <2>3. toUi' = Append(toUi, m) /\ UNCHANGED <<digests, statuses>>
    BY <1>2 DEF ApkIRStatus, Post, tableVars
  <2>. HIDE DEF m
  <2>. QED
    BY <2>1, <2>2, <2>3, ReportPosted
<1>3. ASSUME NEW list \in DeviceLists, DevicesList(list) PROVE ReportInv'
  BY <1>3, NewTasks, OtherPosted DEF DevicesList, Post, tableVars, pythonVars
<1>4. ASSUME NEW success \in BOOLEAN, LoginAnswer(success) PROVE ReportInv'
  BY <1>4, NewTasks, OtherPosted DEF LoginAnswer, Post, tableVars
<1>5. ASSUME NEW p \in Package, DownloadBegins(p) \/ Downloading(p) \/ DownloadEnds(p) PROVE ReportInv'
  BY <1>5, ReportDownloads
<1>6. CASE OnUpdateInstallApkDigest \/ OnUpdateApkIRStatus
  BY <1>6, ReportDrawn
<1>7. CASE OnDeviceUpdate
  BY <1>7, ReportDevices
<1>8. CASE OnApkUpdateInfo \/ OnApkUpdateInfoToString \/ OnLoginResponse
  BY <1>8, OtherTaken
  DEF OnApkUpdateInfo, OnApkUpdateInfoToString, OnLoginResponse, Take, tableVars, pythonVars
<1>9. CASE UNCHANGED <<toUi, reported, digests>> /\ (statuses' = statuses \/ statuses' = NoRows)
  BY <1>9, ReportUnchanged
<1>10. \/ UNCHANGED <<toUi, reported, digests>> /\ (statuses' = statuses \/ statuses' = NoRows)
       \/ \E s \in Serial : InstallDigest(s)
       \/ \E list \in DeviceLists : DevicesList(list)
       \/ \E k \in Key : ApkIRStatus(k)
       \/ \E p \in Package : DownloadBegins(p) \/ Downloading(p) \/ DownloadEnds(p)
       \/ \E success \in BOOLEAN : LoginAnswer(success)
       \/ OnUpdateInstallApkDigest \/ OnDeviceUpdate \/ OnUpdateApkIRStatus
       \/ OnApkUpdateInfo \/ OnApkUpdateInfoToString \/ OnLoginResponse
  BY DEF Next, Choose, SelectRow, Login, ClearStatuses, ClearUpdates, HostTask, vars, tableVars, pythonVars
<1>. QED
  BY <1>1, <1>2, <1>3, <1>4, <1>5, <1>6, <1>7, <1>8, <1>9, <1>10

\* A row shows the newest report there was before those still under way:
\* neither a list of devices nor a late report takes one back (LatestShown).
THEOREM LatestReports == Spec => []LatestShown
<1>1. ReportInv => LatestShown
  BY DEF ReportInv
<1>. QED
  BY <1>1, TypedAlways, ReportInit, ReportStep, PTL DEF Spec

-----------------------------------------------------------------------------
(* Downloads *)

\* A download that is under way beside another one is marked.
Marked ==
  \A p, q \in loading : p # q => <<p, reported[p]>> \in overlapped

\* Of one download d: the notification m is about it; it has not ended.
About(m, d) == m.type = "update" /\ <<m.key, m.report>> = d
Active(d) == d[1] \in loading /\ reported[d[1]] = d[2]
Progress(m, d) == About(m, d) /\ m.info = "progress"

\* Nothing is numbered higher than the downloads there were.
PastDownloads ==
  /\ \A i \in DOMAIN toUi : toUi[i].type = "update" => toUi[i].report <= reported[toUi[i].key]
  /\ \A i \in DOMAIN updates : updates[i].report <= reported[updates[i].key]

\* What is posted between two notifications of a download that ran alone, or
\* after one while it runs, is its progress.
QueuedAlone ==
  \A d \in (Package \X Nat) \ overlapped : \A k, i \in DOMAIN toUi :
    /\ k < i /\ About(toUi[k], d) /\ toUi[i].type = "update"
    /\ Active(d) \/ \E j \in DOMAIN toUi : i < j /\ Progress(toUi[j], d)
    => Progress(toUi[i], d)

\* A row of progress that will be refreshed is the last one, and nothing else
\* comes before its next progress.
ShownAlone ==
  \A d \in (Package \X Nat) \ overlapped : \A i \in DOMAIN updates :
    <<updates[i].key, updates[i].report>> = d /\ updates[i].info = "progress" =>
      /\ Active(d) \/ (\E j \in DOMAIN toUi : Progress(toUi[j], d)) => i = Len(updates)
      /\ \A k \in DOMAIN toUi : toUi[k].type = "update"
           /\ (Active(d) \/ \E j \in DOMAIN toUi : k < j /\ Progress(toUi[j], d))
           => Progress(toUi[k], d)

ProgressInv == Marked /\ PastDownloads /\ QueuedAlone /\ ShownAlone /\ OneProgressRow

LEMMA ProgressInit == Init => ProgressInv
BY DEF Init, ProgressInv, Marked, PastDownloads, QueuedAlone, ShownAlone, OneProgressRow

\* The queues, as the lemmas below use them.
LEMMA UiQueue ==
  ASSUME Typed
  PROVE  /\ toUi \in Seq(ToUiMessage) /\ Len(toUi) \in Nat /\ DOMAIN toUi = 1..Len(toUi)
         /\ \A i \in DOMAIN toUi : toUi[i].type = "update" =>
              toUi[i].key \in Package /\ toUi[i].report \in Nat /\ toUi[i].info \in Info
         /\ updates \in Seq([key : Package, report : Nat, info : Info])
         /\ Len(updates) \in Nat /\ DOMAIN updates = 1..Len(updates)
         /\ \A i \in DOMAIN updates :
              updates[i].key \in Package /\ updates[i].report \in Nat /\ updates[i].info \in Info
         /\ \A p \in Package : reported[p] \in Nat
         /\ loading \subseteq Package
<1>1. toUi \in Seq(ToUiMessage) /\ updates \in Seq([key : Package, report : Nat, info : Info])
  BY DEF Typed, TypeOK
<1>2. \A i \in DOMAIN toUi : toUi[i] \in ToUiMessage
  BY <1>1
<1>3. \A i \in DOMAIN updates : updates[i] \in [key : Package, report : Nat, info : Info]
  <2>1. \A S : \A s \in Seq(S) : \A i \in DOMAIN s : s[i] \in S
    OBVIOUS
  <2>. QED
    BY <1>1, <2>1
<1>4. Len(updates) \in Nat /\ DOMAIN updates = 1..Len(updates)
  BY <1>1
<1>5. \A i \in DOMAIN toUi : toUi[i].type = "update" =>
              toUi[i].key \in Package /\ toUi[i].report \in Nat /\ toUi[i].info \in Info
  BY <1>2, UiTasks
<1>. QED
  BY <1>1, <1>3, <1>4, <1>5 DEF Typed, TypeOK

\* One more element at the end of a queue.
LEMMA Appended ==
  ASSUME NEW S, NEW q \in Seq(S), NEW m \in S
  PROVE  \E n \in Nat : /\ n = Len(q) /\ DOMAIN q = 1..n
                        /\ DOMAIN Append(q, m) = 1..(n + 1) /\ Append(q, m)[n + 1] = m
                        /\ \A i \in 1..n : Append(q, m)[i] = q[i]
OBVIOUS

\* What a notification does to the queue of the interface.
LEMMA UiGrows ==
  ASSUME Typed, NEW m \in ToUiMessage, toUi' = Append(toUi, m)
  PROVE  \E n \in Nat : /\ n = Len(toUi) /\ DOMAIN toUi = 1..n
                        /\ DOMAIN toUi' = 1..(n + 1) /\ toUi'[n + 1] = m
                        /\ \A i \in 1..n : toUi'[i] = toUi[i]
<1>1. toUi \in Seq(ToUiMessage)
  BY UiQueue
<1>2. PICK n \in Nat : /\ n = Len(toUi) /\ DOMAIN toUi = 1..n
                       /\ DOMAIN Append(toUi, m) = 1..(n + 1) /\ Append(toUi, m)[n + 1] = m
                       /\ \A i \in 1..n : Append(toUi, m)[i] = toUi[i]
  BY <1>1, Appended
<1>. QED
  BY <1>2

\* A notification about no download.
LEMMA ProgressOther ==
  ASSUME Typed, ProgressInv, NEW m \in ToUiMessage, m.type # "update",
         toUi' = Append(toUi, m) \/ toUi' = toUi,
         \A p \in Package : reported'[p] = reported[p],
         UNCHANGED <<loading, overlapped>>, updates' = updates \/ updates' = <<>>
  PROVE  ProgressInv'
<1>1. PICK n \in Nat : /\ n = Len(toUi) /\ DOMAIN toUi = 1..n
                       /\ \/ DOMAIN toUi' = 1..n
                          \/ DOMAIN toUi' = 1..(n + 1) /\ toUi'[n + 1] = m
                       /\ \A i \in 1..n : toUi'[i] = toUi[i]
  <2>1. CASE toUi' = Append(toUi, m)
    BY <2>1, UiGrows
  <2>2. CASE toUi' = toUi
    BY <2>2, UiQueue
  <2>. QED
    BY <2>1, <2>2
<1>2. \A i \in DOMAIN toUi' : toUi'[i].type = "update" => i \in DOMAIN toUi /\ toUi'[i] = toUi[i]
  BY <1>1
<1>3. \A i \in DOMAIN toUi : i \in DOMAIN toUi' /\ toUi'[i] = toUi[i]
  BY <1>1
<1>4. \A d \in Package \X Nat : Active(d)' <=> Active(d)
  <2>1. \A d \in Package \X Nat : d[1] \in Package
    OBVIOUS
  <2>. QED
    BY <2>1 DEF Active
<1>5. \A d : \A i \in DOMAIN toUi' : Progress(toUi'[i], d) => i \in DOMAIN toUi /\ Progress(toUi[i], d)
  BY <1>2 DEF Progress, About
<1>6. \A d : \A i \in DOMAIN toUi' : About(toUi'[i], d) => i \in DOMAIN toUi /\ About(toUi[i], d)
  BY <1>2 DEF About
<1>7. Marked'
  BY UiQueue DEF ProgressInv, Marked
<1>8. PastDownloads'
  <2>1. \A i \in DOMAIN toUi : toUi[i].type = "update" => toUi[i].report <= reported'[toUi[i].key]
    BY UiQueue DEF ProgressInv, PastDownloads
  <2>2. \A i \in DOMAIN updates : updates[i].report <= reported'[updates[i].key]
    BY UiQueue DEF ProgressInv, PastDownloads
  <2>. QED
    BY <1>2, <2>1, <2>2 DEF PastDownloads
<1>9. QueuedAlone'
  <2>. SUFFICES ASSUME NEW d \in (Package \X Nat) \ overlapped, NEW k \in DOMAIN toUi', NEW i \in DOMAIN toUi',
                       k < i, About(toUi'[k], d), toUi'[i].type = "update",
                       Active(d)' \/ \E j \in DOMAIN toUi' : i < j /\ Progress(toUi'[j], d)
                PROVE  Progress(toUi'[i], d)
    BY DEF QueuedAlone
  <2>1. k \in DOMAIN toUi /\ i \in DOMAIN toUi /\ toUi'[i] = toUi[i] /\ About(toUi[k], d)
    BY <1>2, <1>6
  <2>2. Active(d) \/ \E j \in DOMAIN toUi : i < j /\ Progress(toUi[j], d)
    BY <1>4, <1>5
  <2>. QED
    BY <2>1, <2>2 DEF ProgressInv, QueuedAlone
<1>10. ShownAlone'
  <2>1. CASE updates' = updates
    <3>. SUFFICES ASSUME NEW d \in (Package \X Nat) \ overlapped, NEW i \in DOMAIN updates,
                         <<updates[i].key, updates[i].report>> = d, updates[i].info = "progress"
                  PROVE  /\ Active(d)' \/ (\E j \in DOMAIN toUi' : Progress(toUi'[j], d)) => i = Len(updates)
                         /\ \A k \in DOMAIN toUi' : toUi'[k].type = "update"
                              /\ (Active(d)' \/ \E j \in DOMAIN toUi' : k < j /\ Progress(toUi'[j], d))
                              => Progress(toUi'[k], d)
      BY <2>1 DEF ShownAlone
    <3>1. Active(d) \/ (\E j \in DOMAIN toUi : Progress(toUi[j], d)) => i = Len(updates)
      BY DEF ProgressInv, ShownAlone
    <3>2. \A k \in DOMAIN toUi : toUi[k].type = "update"
             /\ (Active(d) \/ \E j \in DOMAIN toUi : k < j /\ Progress(toUi[j], d))
             => Progress(toUi[k], d)
      BY DEF ProgressInv, ShownAlone
    <3>3. ASSUME NEW k \in DOMAIN toUi', toUi'[k].type = "update",
                 Active(d)' \/ \E j \in DOMAIN toUi' : k < j /\ Progress(toUi'[j], d)
          PROVE  Progress(toUi'[k], d)
      <4>1. k \in DOMAIN toUi /\ toUi'[k] = toUi[k]
        BY <1>2, <3>3
      <4>2. Active(d) \/ \E j \in DOMAIN toUi : k < j /\ Progress(toUi[j], d)
        BY <1>4, <1>5, <3>3
      <4>. QED
        BY <3>2, <3>3, <4>1, <4>2
    <3>. QED
      BY <1>4, <1>5, <3>1, <3>3
  <2>2. CASE updates' = <<>>
    BY <2>2 DEF ShownAlone
  <2>. QED
    BY <2>1, <2>2
<1>11. OneProgressRow'
  BY DEF ProgressInv, OneProgressRow
<1>. QED
  BY <1>7, <1>8, <1>9, <1>10, <1>11 DEF ProgressInv

\* Downloads that run beside another one are marked, so one that is not is alone.
LEMMA Alone ==
  ASSUME Typed, Marked, NEW d \in (Package \X Nat) \ overlapped, Active(d),
         NEW p \in Package, p \in loading
  PROVE  d = <<p, reported[p]>>
BY DEF Marked, Active

\* The three steps of a download, and the notification m they post.
LEMMA ProgressBegins ==
  ASSUME Typed, ProgressInv, NEW p \in Package, DownloadBegins(p), NEW m,
         toUi' = Append(toUi, m), m \in ToUiMessage,
         m.type = "update" => About(m, <<p, reported'[p]>>) /\ m.info = "begin"
  PROVE  ProgressInv'
<1>1. PICK n \in Nat : /\ n = Len(toUi) /\ DOMAIN toUi = 1..n
                       /\ DOMAIN toUi' = 1..(n + 1) /\ toUi'[n + 1] = m
                       /\ \A i \in 1..n : toUi'[i] = toUi[i]
  BY UiGrows
<1>2. /\ p \notin loading /\ loading' = loading \cup {p} /\ updates' = updates
      /\ reported' = [reported EXCEPT ![p] = @ + 1]
      /\ overlapped' = IF loading = {} THEN overlapped
                       ELSE overlapped \cup {<<q, reported'[q]>> : q \in loading'}
  BY DEF DownloadBegins, NotifyApkCheckUpdateInfo, tableVars
<1>3. /\ \A q \in Package : reported[q] \in Nat /\ reported'[q] \in Nat /\ reported[q] <= reported'[q]
      /\ reported'[p] = reported[p] + 1
      /\ \A q \in Package : q # p => reported'[q] = reported[q]
  BY <1>2 DEF Typed, TypeOK
<1>4. \A d \in (Package \X Nat) \ overlapped' : d \notin overlapped /\ (Active(d)' => d = <<p, reported'[p]>>)
  <2>. SUFFICES ASSUME NEW d \in (Package \X Nat) \ overlapped', Active(d)', d[1] # p
                PROVE  FALSE
    BY <1>2 DEF Active
  <2>1. d[1] \in loading' /\ reported'[d[1]] = d[2] /\ loading # {}
    BY <1>2 DEF Active
  <2>2. d = <<d[1], reported'[d[1]]>>
    BY <2>1
  <2>3. d \in overlapped'
    BY <1>2, <2>1, <2>2
  <2>. QED
    BY <2>3
<1>5. /\ \A i \in DOMAIN toUi : ~About(toUi[i], <<p, reported'[p]>>)
      /\ \A i \in DOMAIN updates : <<updates[i].key, updates[i].report>> # <<p, reported'[p]>>
  BY <1>3, UiQueue DEF ProgressInv, PastDownloads, About
<1>6. \A d : \A j \in DOMAIN toUi' : Progress(toUi'[j], d) => j \in DOMAIN toUi /\ Progress(toUi[j], d)
  <2>1. \A d : ~Progress(m, d)
    BY DEF Progress, About
  <2>. QED
    BY <1>1, <2>1
<1>7. Marked'
  <2>. SUFFICES ASSUME NEW q \in loading', NEW r \in loading', q # r
                PROVE  <<q, reported'[q]>> \in overlapped'
    BY DEF Marked
  <2>1. loading # {}
    BY <1>2
  <2>. QED
    BY <1>2, <2>1
<1>8. PastDownloads'
  <2>1. \A i \in DOMAIN toUi : toUi[i].type = "update" => toUi[i].report <= reported'[toUi[i].key]
    <3>. SUFFICES ASSUME NEW i \in DOMAIN toUi, toUi[i].type = "update"
                  PROVE  toUi[i].report <= reported'[toUi[i].key]
      OBVIOUS
    <3>1. PICK q \in Package : q = toUi[i].key
      BY UiQueue
    <3>2. toUi[i].report \in Nat /\ toUi[i].report <= reported[q]
      BY <3>1, UiQueue DEF ProgressInv, PastDownloads
    <3>. QED
      BY <1>3, <3>1, <3>2
  <2>2. \A i \in DOMAIN updates : updates[i].report <= reported'[updates[i].key]
    <3>. SUFFICES ASSUME NEW i \in DOMAIN updates
                  PROVE  updates[i].report <= reported'[updates[i].key]
      OBVIOUS
    <3>1. PICK q \in Package : q = updates[i].key
      BY UiQueue
    <3>2. updates[i].report \in Nat /\ updates[i].report <= reported[q]
      BY <3>1, UiQueue DEF ProgressInv, PastDownloads
    <3>. QED
      BY <1>3, <3>1, <3>2
  <2>3. m.type = "update" => m.report <= reported'[m.key]
    BY <1>3 DEF About
  <2>. QED
    BY <1>1, <1>2, <2>1, <2>2, <2>3 DEF PastDownloads
<1>9. QueuedAlone'
  <2>. SUFFICES ASSUME NEW d \in (Package \X Nat) \ overlapped', NEW k \in DOMAIN toUi', NEW i \in DOMAIN toUi',
                       k < i, About(toUi'[k], d), toUi'[i].type = "update",
                       Active(d)' \/ \E j \in DOMAIN toUi' : i < j /\ Progress(toUi'[j], d)
                PROVE  Progress(toUi'[i], d)
    BY DEF QueuedAlone
  <2>1. k \in DOMAIN toUi /\ toUi'[k] = toUi[k]
    BY <1>1
  <2>2. d \notin overlapped /\ ~Active(d)'
    BY <1>4, <1>5, <2>1
  <2>3. PICK j \in DOMAIN toUi : i < j /\ Progress(toUi[j], d)
    BY <1>6, <2>2
  <2>4. i \in DOMAIN toUi /\ toUi'[i] = toUi[i]
    BY <1>1, <2>3
  <2>. QED
    BY <2>1, <2>2, <2>3, <2>4 DEF ProgressInv, QueuedAlone
<1>10. ShownAlone'
  <2>. SUFFICES ASSUME NEW d \in (Package \X Nat) \ overlapped', NEW i \in DOMAIN updates,
                       <<updates[i].key, updates[i].report>> = d, updates[i].info = "progress"
                PROVE  /\ Active(d)' \/ (\E j \in DOMAIN toUi' : Progress(toUi'[j], d)) => i = Len(updates)
                       /\ \A k \in DOMAIN toUi' : toUi'[k].type = "update"
                            /\ (Active(d)' \/ \E j \in DOMAIN toUi' : k < j /\ Progress(toUi'[j], d))
                            => Progress(toUi'[k], d)
    BY <1>2 DEF ShownAlone
  <2>1. d \notin overlapped /\ ~Active(d)'
    BY <1>4, <1>5
  <2>2. (\E j \in DOMAIN toUi : Progress(toUi[j], d)) => i = Len(updates)
    BY <2>1 DEF ProgressInv, ShownAlone
  <2>3. \A k \in DOMAIN toUi : toUi[k].type = "update"
          /\ (\E j \in DOMAIN toUi : k < j /\ Progress(toUi[j], d)) => Progress(toUi[k], d)
    BY <2>1 DEF ProgressInv, ShownAlone
  <2>4. ASSUME NEW k \in DOMAIN toUi', toUi'[k].type = "update",
               \E j \in DOMAIN toUi' : k < j /\ Progress(toUi'[j], d)
        PROVE  Progress(toUi'[k], d)
    <3>1. PICK j \in DOMAIN toUi : k < j /\ Progress(toUi[j], d)
      BY <1>6, <2>4
    <3>2. k \in DOMAIN toUi /\ toUi'[k] = toUi[k]
      BY <1>1, <3>1
    <3>. QED
      BY <2>3, <2>4, <3>1, <3>2
  <2>. QED
    BY <1>6, <2>1, <2>2, <2>4
<1>11. OneProgressRow'
  BY <1>2 DEF ProgressInv, OneProgressRow
<1>. QED
  BY <1>7, <1>8, <1>9, <1>10, <1>11 DEF ProgressInv

LEMMA ProgressGoesOn ==
  ASSUME Typed, ProgressInv, NEW p \in Package, Downloading(p), NEW m,
         toUi' = Append(toUi, m), m \in ToUiMessage,
         m.type = "update" => Progress(m, <<p, reported[p]>>)
  PROVE  ProgressInv'
<1>1. PICK n \in Nat : /\ n = Len(toUi) /\ DOMAIN toUi = 1..n
                       /\ DOMAIN toUi' = 1..(n + 1) /\ toUi'[n + 1] = m
                       /\ \A i \in 1..n : toUi'[i] = toUi[i]
  BY UiGrows
<1>2. /\ p \in loading /\ loading' = loading /\ updates' = updates
      /\ reported' = reported /\ overlapped' = overlapped
  BY DEF Downloading, NotifyApkCheckUpdateInfo, tableVars
<1>3. \A d : Active(d)' <=> Active(d)
  BY <1>2 DEF Active
<1>4. Active(<<p, reported[p]>>)
  BY <1>2 DEF Active
<1>5. \A d \in (Package \X Nat) \ overlapped : Active(d) => d = <<p, reported[p]>>
  BY <1>2, Alone DEF ProgressInv
<1>6. \A d : Progress(m, d) => Active(d)
  <2>1. \A d : Progress(m, d) => d = <<p, reported[p]>>
    BY DEF Progress, About
  <2>. QED
    BY <1>4, <2>1
<1>7. ASSUME NEW d, NEW i \in 1..n,
             Active(d) \/ \E j \in DOMAIN toUi' : i < j /\ Progress(toUi'[j], d)
      PROVE  Active(d) \/ \E j \in DOMAIN toUi : i < j /\ Progress(toUi[j], d)
  BY <1>1, <1>6, <1>7
<1>8. ASSUME NEW d \in (Package \X Nat) \ overlapped, m.type = "update",
             Active(d) \/ \E j \in DOMAIN toUi' : n + 1 < j /\ Progress(toUi'[j], d)
      PROVE  Progress(m, d)
  <2>1. Active(d)
    BY <1>1, <1>8
  <2>2. d = <<p, reported[p]>>
    BY <1>5, <2>1
  <2>. QED
    BY <1>8, <2>2
<1>9. Marked'
  BY <1>2 DEF ProgressInv, Marked
<1>10. PastDownloads'
  <2>1. m.type = "update" => m.report <= reported[m.key]
    BY UiQueue DEF Progress, About
  <2>. QED
    BY <1>1, <1>2, <2>1 DEF ProgressInv, PastDownloads
<1>11. QueuedAlone'
  <2>. SUFFICES ASSUME NEW d \in (Package \X Nat) \ overlapped, NEW k \in DOMAIN toUi', NEW i \in DOMAIN toUi',
                       k < i, About(toUi'[k], d), toUi'[i].type = "update",
                       Active(d) \/ \E j \in DOMAIN toUi' : i < j /\ Progress(toUi'[j], d)
                PROVE  Progress(toUi'[i], d)
    BY <1>2, <1>3 DEF QueuedAlone
  <2>1. CASE i = n + 1
    BY <1>1, <1>8, <2>1
  <2>2. CASE i # n + 1
    <3>1. k \in 1..n /\ i \in 1..n /\ toUi'[k] = toUi[k] /\ toUi'[i] = toUi[i]
      BY <1>1, <2>2
    <3>2. Active(d) \/ \E j \in DOMAIN toUi : i < j /\ Progress(toUi[j], d)
      BY <1>7, <3>1
    <3>. QED
      BY <1>1, <3>1, <3>2 DEF ProgressInv, QueuedAlone
  <2>. QED
    BY <2>1, <2>2
<1>12. ShownAlone'
  <2>. SUFFICES ASSUME NEW d \in (Package \X Nat) \ overlapped, NEW i \in DOMAIN updates,
                       <<updates[i].key, updates[i].report>> = d, updates[i].info = "progress"
                PROVE  /\ Active(d) \/ (\E j \in DOMAIN toUi' : Progress(toUi'[j], d)) => i = Len(updates)
                       /\ \A k \in DOMAIN toUi' : toUi'[k].type = "update"
                            /\ (Active(d) \/ \E j \in DOMAIN toUi' : k < j /\ Progress(toUi'[j], d))
                            => Progress(toUi'[k], d)
    BY <1>2, <1>3 DEF ShownAlone
  <2>1. Active(d) \/ (\E j \in DOMAIN toUi : Progress(toUi[j], d)) => i = Len(updates)
    BY DEF ProgressInv, ShownAlone
  <2>2. \A k \in DOMAIN toUi : toUi[k].type = "update"
          /\ (Active(d) \/ \E j \in DOMAIN toUi : k < j /\ Progress(toUi[j], d))
          => Progress(toUi[k], d)
    BY DEF ProgressInv, ShownAlone
  <2>3. Active(d) \/ (\E j \in DOMAIN toUi' : Progress(toUi'[j], d)) => i = Len(updates)
    <3>1. ASSUME NEW j \in DOMAIN toUi', Progress(toUi'[j], d) PROVE i = Len(updates)
      <4>1. CASE j = n + 1
        BY <1>1, <1>6, <2>1, <3>1, <4>1
      <4>2. CASE j # n + 1
        BY <1>1, <2>1, <3>1, <4>2
      <4>. QED
        BY <4>1, <4>2
    <3>. QED
      BY <2>1, <3>1
  <2>4. ASSUME NEW k \in DOMAIN toUi', toUi'[k].type = "update",
               Active(d) \/ \E j \in DOMAIN toUi' : k < j /\ Progress(toUi'[j], d)
        PROVE  Progress(toUi'[k], d)
    <3>1. CASE k = n + 1
      BY <1>1, <1>8, <2>4, <3>1
    <3>2. CASE k # n + 1
      <4>1. k \in 1..n /\ toUi'[k] = toUi[k]
        BY <1>1, <3>2
      <4>2. Active(d) \/ \E j \in DOMAIN toUi : k < j /\ Progress(toUi[j], d)
        BY <1>7, <2>4, <4>1
      <4>. QED
        BY <1>1, <2>2, <2>4, <4>1, <4>2
    <3>. QED
      BY <3>1, <3>2
  <2>. QED
    BY <2>3, <2>4
<1>13. OneProgressRow'
  BY <1>2 DEF ProgressInv, OneProgressRow
<1>. QED
  BY <1>9, <1>10, <1>11, <1>12, <1>13 DEF ProgressInv

LEMMA ProgressEnds ==
  ASSUME Typed, ProgressInv, NEW p \in Package, DownloadEnds(p), NEW m,
         toUi' = Append(toUi, m), m \in ToUiMessage,
         m.type = "update" => About(m, <<p, reported[p]>>) /\ m.info = "end"
  PROVE  ProgressInv'
<1>1. PICK n \in Nat : /\ n = Len(toUi) /\ DOMAIN toUi = 1..n
                       /\ DOMAIN toUi' = 1..(n + 1) /\ toUi'[n + 1] = m
                       /\ \A i \in 1..n : toUi'[i] = toUi[i]
  BY UiGrows
<1>2. /\ p \in loading /\ loading' = loading \ {p} /\ updates' = updates
      /\ reported' = reported /\ overlapped' = overlapped
  BY DEF DownloadEnds, NotifyApkCheckUpdateInfo, tableVars
<1>3. \A d \in (Package \X Nat) \ overlapped : ~Active(d)'
  <2>. SUFFICES ASSUME NEW d \in (Package \X Nat) \ overlapped, Active(d)' PROVE FALSE
    OBVIOUS
  <2>1. Active(d) /\ d[1] # p
    BY <1>2 DEF Active
  <2>2. d = <<p, reported[p]>>
    BY <1>2, <2>1, Alone DEF ProgressInv
  <2>. QED
    BY <2>1, <2>2
<1>4. \A d : \A j \in DOMAIN toUi' : Progress(toUi'[j], d) => j \in DOMAIN toUi /\ Progress(toUi[j], d)
  <2>1. \A d : ~Progress(m, d)
    BY DEF Progress, About
  <2>. QED
    BY <1>1, <2>1
<1>5. Marked'
  BY <1>2 DEF ProgressInv, Marked
<1>6. PastDownloads'
  <2>1. m.type = "update" => m.report <= reported[m.key]
    BY UiQueue DEF About
  <2>. QED
    BY <1>1, <1>2, <2>1 DEF ProgressInv, PastDownloads
<1>7. QueuedAlone'
  <2>. SUFFICES ASSUME NEW d \in (Package \X Nat) \ overlapped, NEW k \in DOMAIN toUi', NEW i \in DOMAIN toUi',
                       k < i, About(toUi'[k], d), toUi'[i].type = "update",
                       \E j \in DOMAIN toUi' : i < j /\ Progress(toUi'[j], d)
                PROVE  Progress(toUi'[i], d)
    BY <1>2, <1>3 DEF QueuedAlone
  <2>1. PICK j \in DOMAIN toUi : i < j /\ Progress(toUi[j], d)
    BY <1>4
  <2>2. k \in DOMAIN toUi /\ i \in DOMAIN toUi /\ toUi'[k] = toUi[k] /\ toUi'[i] = toUi[i]
    BY <1>1, <2>1
  <2>. QED
    BY <2>1, <2>2 DEF ProgressInv, QueuedAlone
<1>8. ShownAlone'
  <2>. SUFFICES ASSUME NEW d \in (Package \X Nat) \ overlapped, NEW i \in DOMAIN updates,
                       <<updates[i].key, updates[i].report>> = d, updates[i].info = "progress"
                PROVE  /\ (\E j \in DOMAIN toUi' : Progress(toUi'[j], d)) => i = Len(updates)
                       /\ \A k \in DOMAIN toUi' : toUi'[k].type = "update"
                            /\ (\E j \in DOMAIN toUi' : k < j /\ Progress(toUi'[j], d))
                            => Progress(toUi'[k], d)
    BY <1>2, <1>3 DEF ShownAlone
  <2>1. (\E j \in DOMAIN toUi : Progress(toUi[j], d)) => i = Len(updates)
    BY DEF ProgressInv, ShownAlone
  <2>2. \A k \in DOMAIN toUi : toUi[k].type = "update"
          /\ (\E j \in DOMAIN toUi : k < j /\ Progress(toUi[j], d)) => Progress(toUi[k], d)
    BY DEF ProgressInv, ShownAlone
  <2>3. ASSUME NEW k \in DOMAIN toUi', toUi'[k].type = "update",
               \E j \in DOMAIN toUi' : k < j /\ Progress(toUi'[j], d)
        PROVE  Progress(toUi'[k], d)
    <3>1. PICK j \in DOMAIN toUi : k < j /\ Progress(toUi[j], d)
      BY <1>4, <2>3
    <3>2. k \in DOMAIN toUi /\ toUi'[k] = toUi[k]
      BY <1>1, <3>1
    <3>. QED
      BY <2>2, <2>3, <3>1, <3>2
  <2>. QED
    BY <1>4, <2>1, <2>3
<1>9. OneProgressRow'
  BY <1>2 DEF ProgressInv, OneProgressRow
<1>. QED
  BY <1>5, <1>6, <1>7, <1>8, <1>9 DEF ProgressInv

\* The first task is taken: what is behind it keeps its order.
LEMMA ProgressShift ==
  ASSUME Typed, ProgressInv, toUi # <<>>, toUi' = Tail(toUi),
         UNCHANGED <<loading, reported, overlapped>>
  PROVE  /\ \A d : Active(d)' <=> Active(d)
         /\ 1 \in DOMAIN toUi /\ Head(toUi) = toUi[1]
         /\ \A i \in DOMAIN toUi' : i \in Nat \ {0} /\ i + 1 \in DOMAIN toUi /\ toUi'[i] = toUi[i + 1]
         /\ Marked' /\ QueuedAlone'
<1>1. PICK n \in Nat \ {0} : /\ n = Len(toUi) /\ DOMAIN toUi = 1..n /\ Head(toUi) = toUi[1]
                             /\ DOMAIN toUi' = 1..(n - 1)
                             /\ \A i \in 1..(n - 1) : toUi'[i] = toUi[i + 1]
  BY UiQueue
<1>2. \A d : Active(d)' <=> Active(d)
  BY DEF Active
<1>3. \A i \in DOMAIN toUi' : i \in Nat \ {0} /\ i + 1 \in DOMAIN toUi /\ toUi'[i] = toUi[i + 1]
  BY <1>1
<1>4. QueuedAlone'
  <2>. SUFFICES ASSUME NEW d \in (Package \X Nat) \ overlapped, NEW k \in DOMAIN toUi', NEW i \in DOMAIN toUi',
                       k < i, About(toUi'[k], d), toUi'[i].type = "update",
                       Active(d) \/ \E j \in DOMAIN toUi' : i < j /\ Progress(toUi'[j], d)
                PROVE  Progress(toUi'[i], d)
    BY <1>2 DEF QueuedAlone
  <2>1. /\ k + 1 \in DOMAIN toUi /\ i + 1 \in DOMAIN toUi /\ k + 1 < i + 1
        /\ About(toUi[k + 1], d) /\ toUi[i + 1].type = "update"
    BY <1>3
  <2>2. Active(d) \/ \E j \in DOMAIN toUi : i + 1 < j /\ Progress(toUi[j], d)
    BY <1>3
  <2>3. Progress(toUi[i + 1], d)
    BY <2>1, <2>2 DEF ProgressInv, QueuedAlone
  <2>. QED
    BY <1>3, <2>3
<1>5. Marked'
  BY DEF ProgressInv, Marked
<1>. QED
  BY <1>1, <1>2, <1>3, <1>4, <1>5

LEMMA ProgressTaken ==
  ASSUME Typed, ProgressInv, toUi # <<>>, toUi' = Tail(toUi),
         UNCHANGED <<loading, reported, overlapped, updates>>
  PROVE  ProgressInv'
<1>1. /\ \A d : Active(d)' <=> Active(d)
      /\ \A i \in DOMAIN toUi' : i \in Nat \ {0} /\ i + 1 \in DOMAIN toUi /\ toUi'[i] = toUi[i + 1]
      /\ Marked' /\ QueuedAlone'
  BY ProgressShift
<1>2. PastDownloads'
  BY <1>1 DEF ProgressInv, PastDownloads
<1>3. ShownAlone'
  <2>. SUFFICES ASSUME NEW d \in (Package \X Nat) \ overlapped, NEW i \in DOMAIN updates,
                       <<updates[i].key, updates[i].report>> = d, updates[i].info = "progress"
                PROVE  /\ Active(d) \/ (\E j \in DOMAIN toUi' : Progress(toUi'[j], d)) => i = Len(updates)
                       /\ \A k \in DOMAIN toUi' : toUi'[k].type = "update"
                            /\ (Active(d) \/ \E j \in DOMAIN toUi' : k < j /\ Progress(toUi'[j], d))
                            => Progress(toUi'[k], d)
    BY <1>1 DEF ShownAlone
  <2>1. Active(d) \/ (\E j \in DOMAIN toUi : Progress(toUi[j], d)) => i = Len(updates)
    BY DEF ProgressInv, ShownAlone
  <2>2. \A k \in DOMAIN toUi : toUi[k].type = "update"
          /\ (Active(d) \/ \E j \in DOMAIN toUi : k < j /\ Progress(toUi[j], d))
          => Progress(toUi[k], d)
    BY DEF ProgressInv, ShownAlone
  <2>3. ASSUME NEW k \in DOMAIN toUi', toUi'[k].type = "update",
               Active(d) \/ \E j \in DOMAIN toUi' : k < j /\ Progress(toUi'[j], d)
        PROVE  Progress(toUi'[k], d)
    <3>1. k + 1 \in DOMAIN toUi /\ toUi'[k] = toUi[k + 1]
      BY <1>1
    <3>2. Active(d) \/ \E j \in DOMAIN toUi : k + 1 < j /\ Progress(toUi[j], d)
      BY <1>1, <2>3
    <3>. QED
      BY <2>2, <2>3, <3>1, <3>2
  <2>. QED
    BY <1>1, <2>1, <2>3
<1>4. OneProgressRow'
  BY DEF ProgressInv, OneProgressRow
<1>. QED
  BY <1>1, <1>2, <1>3, <1>4 DEF ProgressInv

\* What an invariant says of a row of progress when a notification is drawn
\* and a later one, or the download itself, is still to come.
LEMMA RowBefore ==
  ASSUME Typed, ProgressInv, OnApkUpdateInfo,
         NEW d \in (Package \X Nat) \ overlapped, NEW i \in DOMAIN updates,
         <<updates[i].key, updates[i].report>> = d, updates[i].info = "progress",
         Active(d) \/ \E j \in DOMAIN toUi : 1 < j /\ Progress(toUi[j], d)
  PROVE  i = Len(updates) /\ Progress(toUi[1], d)
<1>1. toUi # <<>> /\ toUi[1].type = "update" /\ 1 \in DOMAIN toUi
  BY UiQueue DEF OnApkUpdateInfo, Take
<1>. QED
  BY <1>1 DEF ProgressInv, ShownAlone

LEMMA ProgressDrawn ==
  ASSUME Typed, ProgressInv, OnApkUpdateInfo
  PROVE  ProgressInv'
<1>0. /\ toUi # <<>> /\ toUi' = Tail(toUi) /\ Head(toUi).type = "update"
      /\ UNCHANGED <<loading, reported, overlapped>>
  BY DEF OnApkUpdateInfo, Take, pythonVars
<1>1. /\ \A d : Active(d)' <=> Active(d)
      /\ 1 \in DOMAIN toUi /\ Head(toUi) = toUi[1]
      /\ \A i \in DOMAIN toUi' : i \in Nat \ {0} /\ i + 1 \in DOMAIN toUi /\ toUi'[i] = toUi[i + 1]
      /\ Marked' /\ QueuedAlone'
  BY <1>0, ProgressShift
<1> DEFINE m == toUi[1]
           row == [key |-> m.key, report |-> m.report, info |-> m.info]
           dm == <<m.key, m.report>>
<1>2. PICK n \in Nat : n = Len(updates) /\ DOMAIN updates = 1..n
  BY UiQueue
<1>3. /\ m.type = "update" /\ m.key \in Package /\ m.report \in Nat /\ m.info \in Info
      /\ m.report <= reported[m.key] /\ About(m, dm)
  BY <1>0, <1>1, UiQueue DEF ProgressInv, PastDownloads, About
<1>4. \/ /\ m.info = "progress" /\ n # 0 /\ updates[n].key = m.key
         /\ updates' = [updates EXCEPT ![n] = row]
      \/ /\ ~(m.info = "progress" /\ n # 0 /\ updates[n].key = m.key)
         /\ updates' = Append(updates, row)
  <2>1. updates # <<>> <=> n # 0
    BY <1>2, UiQueue
  <2>. QED
    BY <1>1, <1>2, <2>1 DEF OnApkUpdateInfo, Last
<1>. HIDE DEF m, row
\* The row that is written, and the others.
<1>5. PICK at \in DOMAIN updates' :
        /\ updates'[at] = row /\ at = Len(updates')
        /\ \A i \in DOMAIN updates' : i # at => i \in DOMAIN updates /\ updates'[i] = updates[i]
        /\ at \in DOMAIN updates => at = n /\ m.info = "progress" /\ updates[n].key = m.key
        /\ at \notin DOMAIN updates => ~(m.info = "progress" /\ n # 0 /\ updates[n].key = m.key)
  <2>1. updates \in Seq([key : Package, report : Nat, info : Info])
    BY UiQueue
  <2>2. row \in [key : Package, report : Nat, info : Info]
    BY <1>3 DEF row
  <2>3. CASE /\ m.info = "progress" /\ n # 0 /\ updates[n].key = m.key
             /\ updates' = [updates EXCEPT ![n] = row]
    <3>1. n \in DOMAIN updates /\ DOMAIN updates' = 1..n /\ Len(updates') = n
      BY <1>2, <2>1, <2>3
    <3>. QED
      BY <1>2, <2>3, <3>1
  <2>4. CASE /\ ~(m.info = "progress" /\ n # 0 /\ updates[n].key = m.key)
             /\ updates' = Append(updates, row)
    <3>1. /\ DOMAIN updates' = 1..(n + 1) /\ Len(updates') = n + 1 /\ updates'[n + 1] = row
          /\ \A i \in 1..n : updates'[i] = updates[i]
      BY <1>2, <2>1, <2>2, <2>4
    <3>. QED
      BY <1>2, <2>4, <3>1
  <2>. QED
    BY <1>4, <2>3, <2>4
<1>6. \* No other row of a download will be refreshed.
      ASSUME NEW d \in (Package \X Nat) \ overlapped, NEW i \in DOMAIN updates', i # at,
             <<updates'[i].key, updates'[i].report>> = d, updates'[i].info = "progress",
             Active(d) \/ \E j \in DOMAIN toUi : 1 < j /\ Progress(toUi[j], d)
      PROVE  FALSE
  <2>1. /\ i \in DOMAIN updates /\ <<updates[i].key, updates[i].report>> = d
        /\ updates[i].info = "progress"
    BY <1>5, <1>6
  <2>2. i = n /\ Progress(m, d)
    BY <1>2, <1>6, <2>1, RowBefore DEF m
  <2>3. updates[n].key = m.key /\ m.info = "progress" /\ n # 0
    BY <1>2, <2>1, <2>2 DEF Progress, About
  <2>. QED
    BY <1>5, <1>6, <2>1, <2>2, <2>3
<1>7. PastDownloads'
  <2>1. \A i \in DOMAIN toUi' : toUi'[i].type = "update" => toUi'[i].report <= reported[toUi'[i].key]
    BY <1>1 DEF ProgressInv, PastDownloads
  <2>2. ASSUME NEW i \in DOMAIN updates' PROVE updates'[i].report <= reported[updates'[i].key]
    <3>1. CASE i = at
      BY <1>3, <1>5, <3>1 DEF row
    <3>2. CASE i # at
      BY <1>5, <3>2 DEF ProgressInv, PastDownloads
    <3>. QED
      BY <3>1, <3>2
  <2>. QED
    BY <1>0, <2>1, <2>2 DEF PastDownloads
<1>8. ShownAlone'
  <2>. SUFFICES ASSUME NEW d \in (Package \X Nat) \ overlapped, NEW i \in DOMAIN updates',
                       <<updates'[i].key, updates'[i].report>> = d, updates'[i].info = "progress"
                PROVE  /\ Active(d) \/ (\E j \in DOMAIN toUi' : Progress(toUi'[j], d)) => i = Len(updates')
                       /\ \A k \in DOMAIN toUi' : toUi'[k].type = "update"
                            /\ (Active(d) \/ \E j \in DOMAIN toUi' : k < j /\ Progress(toUi'[j], d))
                            => Progress(toUi'[k], d)
    BY <1>0, <1>1 DEF ShownAlone
  <2>1. (\E j \in DOMAIN toUi' : Progress(toUi'[j], d)) => \E j \in DOMAIN toUi : 1 < j /\ Progress(toUi[j], d)
    BY <1>1
  <2>2. CASE i # at
    <3>1. ~Active(d) /\ ~ \E j \in DOMAIN toUi' : Progress(toUi'[j], d)
      BY <1>6, <2>1, <2>2
    <3>. QED
      BY <3>1
  <2>3. CASE i = at
    <3>1. i = Len(updates') /\ d = dm
      BY <1>5, <2>3 DEF row
    <3>2. ASSUME NEW k \in DOMAIN toUi', toUi'[k].type = "update",
                 Active(d) \/ \E j \in DOMAIN toUi' : k < j /\ Progress(toUi'[j], d)
          PROVE  Progress(toUi'[k], d)
      <4>1. k + 1 \in DOMAIN toUi /\ 1 < k + 1 /\ toUi'[k] = toUi[k + 1]
        BY <1>1
      <4>2. Active(d) \/ \E j \in DOMAIN toUi : k + 1 < j /\ Progress(toUi[j], d)
        BY <1>1, <3>2
      <4>3. About(toUi[1], d)
        BY <1>3, <3>1 DEF m
      <4>4. Progress(toUi[k + 1], d)
        BY <1>1, <3>2, <4>1, <4>2, <4>3 DEF ProgressInv, QueuedAlone
      <4>. QED
        BY <4>1, <4>4
    <3>. QED
      BY <3>1, <3>2
  <2>. QED
    BY <2>2, <2>3
<1>9. \* A row of progress that was there is not written again.
      ASSUME NEW i \in DOMAIN updates', i # at, updates'[i] = row, row.info = "progress",
             dm \notin overlapped
      PROVE  FALSE
  <2>1. i \in DOMAIN updates /\ updates[i] = row
    BY <1>5, <1>9
  <2>2. dm \in (Package \X Nat) \ overlapped /\ Progress(m, dm)
    BY <1>3, <1>9 DEF row, Progress
  <2>3. <<updates[i].key, updates[i].report>> = dm /\ updates[i].info = "progress"
    BY <1>9, <2>1 DEF row
  <2>4. i = n
    BY <1>1, <1>2, <2>1, <2>2, <2>3 DEF ProgressInv, ShownAlone, m
  <2>5. m.info = "progress" /\ n # 0 /\ updates[n].key = m.key
    BY <1>2, <2>1, <2>2, <2>3, <2>4 DEF Progress
  <2>. QED
    BY <1>5, <1>9, <2>1, <2>4, <2>5
<1>10. OneProgressRow'
  <2>. SUFFICES ASSUME NEW i \in DOMAIN updates', NEW j \in DOMAIN updates',
                       updates'[i] = updates'[j], updates'[i].info = "progress",
                       <<updates'[i].key, updates'[i].report>> \notin overlapped
                PROVE  i = j
    BY <1>0 DEF OneProgressRow
  <2>1. CASE i # at /\ j # at
    <3>1. i \in DOMAIN updates /\ j \in DOMAIN updates /\ updates'[i] = updates[i] /\ updates'[j] = updates[j]
      BY <1>5, <2>1
    <3>. QED
      BY <3>1 DEF ProgressInv, OneProgressRow
  <2>2. CASE i = at /\ j # at
    BY <1>5, <1>9, <2>2 DEF row
  <2>3. CASE i # at /\ j = at
    BY <1>5, <1>9, <2>3 DEF row
  <2>. QED
    BY <2>1, <2>2, <2>3
<1>. QED
  BY <1>1, <1>7, <1>8, <1>10 DEF ProgressInv

LEMMA ProgressDownloads ==
  ASSUME Typed, ProgressInv, Typed', NEW p \in Package
  PROVE  DownloadBegins(p) \/ Downloading(p) \/ DownloadEnds(p) => ProgressInv'
<1> DEFINE Sent(info) == IF hostMode = 1
                         THEN [type |-> "update", key |-> p, report |-> reported'[p], info |-> info]
                         ELSE [type |-> "text"]
<1>1. reported'[p] \in Nat
  BY DEF Typed, TypeOK
<1>2. \A info \in Info :
        /\ Sent(info) \in ToUiMessage
        /\ Sent(info).type = "update" => About(Sent(info), <<p, reported'[p]>>) /\ Sent(info).info = info
        /\ NotifyApkCheckUpdateInfo(p, info) => toUi' = Append(toUi, Sent(info))
  BY <1>1, NewTasks DEF About, NotifyApkCheckUpdateInfo, Post
<1>. HIDE DEF Sent
<1>3. "begin" \in Info /\ "progress" \in Info /\ "end" \in Info
  BY DEF Info
<1>4. ASSUME DownloadBegins(p) PROVE ProgressInv'
  <2>1. NotifyApkCheckUpdateInfo(p, "begin")
    BY <1>4 DEF DownloadBegins
  <2>. QED
    BY <1>2, <1>3, <1>4, <2>1, ProgressBegins
<1>5. ASSUME Downloading(p) PROVE ProgressInv'
  <2>1. NotifyApkCheckUpdateInfo(p, "progress") /\ reported' = reported
    BY <1>5 DEF Downloading
  <2>2. Sent("progress").type = "update" => Progress(Sent("progress"), <<p, reported[p]>>)
    BY <1>2, <1>3, <2>1 DEF Progress
  <2>. QED
    BY <1>2, <1>3, <1>5, <2>1, <2>2, ProgressGoesOn
<1>6. ASSUME DownloadEnds(p) PROVE ProgressInv'
  <2>1. NotifyApkCheckUpdateInfo(p, "end") /\ reported' = reported
    BY <1>6 DEF DownloadEnds
  <2>. QED
    BY <1>2, <1>3, <1>6, <2>1, ProgressEnds
<1>. QED
  BY <1>4, <1>5, <1>6

LEMMA ProgressStep == Typed /\ ProgressInv /\ Typed' /\ [Next]_vars => ProgressInv'
<1>. SUFFICES ASSUME Typed, ProgressInv, Typed', [Next]_vars PROVE ProgressInv'
  OBVIOUS
<1>0. /\ reported \in [Serial \cup Key \cup Package -> Nat]
      /\ \A p \in Package : p \notin Serial \cup Key
  BY WindowAssumption DEF Typed, TypeOK, WindowAssumption
<1>1. ASSUME NEW s \in Serial, InstallDigest(s) PROVE ProgressInv'
  <2> DEFINE m == [type |-> "digest", key |-> s, report |-> reported'[s]]
  <2>1. m \in ToUiMessage /\ m.type # "update"
    BY <1>0, <1>1, NewTasks DEF InstallDigest
  <2>2. toUi' = Append(toUi, m) /\ \A p \in Package : reported'[p] = reported[p]
    BY <1>0, <1>1 DEF InstallDigest, Post
  <2>3. UNCHANGED <<loading, overlapped, updates>>
    BY <1>1 DEF InstallDigest, tableVars
  <2>. HIDE DEF m
  <2>. QED
    BY <2>1, <2>2, <2>3, ProgressOther
<1>2. ASSUME NEW k \in Key, ApkIRStatus(k) PROVE ProgressInv'
  <2> DEFINE m == [type |-> "status", key |-> k, report |-> reported'[k]]
  <2>1. m \in ToUiMessage /\ m.type # "update"
    BY <1>0, <1>2, NewTasks DEF ApkIRStatus
  <2>2. toUi' = Append(toUi, m) /\ \A p \in Package : reported'[p] = reported[p]
    BY <1>0, <1>2 DEF ApkIRStatus, Post
  <2>3. UNCHANGED <<loading, overlapped, updates>>
    BY <1>2 DEF ApkIRStatus, tableVars
  <2>. HIDE DEF m
  <2>. QED
    BY <2>1, <2>2, <2>3, ProgressOther
<1>3. ASSUME NEW list \in DeviceLists, DevicesList(list) PROVE ProgressInv'
  BY <1>3, NewTasks, ProgressOther DEF DevicesList, Post, tableVars, pythonVars
<1>4. ASSUME NEW success \in BOOLEAN, LoginAnswer(success) PROVE ProgressInv'
  BY <1>4, NewTasks, ProgressOther DEF LoginAnswer, Post, tableVars
<1>5. ASSUME NEW p \in Package, DownloadBegins(p) \/ Downloading(p) \/ DownloadEnds(p) PROVE ProgressInv'
  BY <1>5, ProgressDownloads
<1>6. CASE OnApkUpdateInfo
  BY <1>6, ProgressDrawn
<1>7. CASE \/ OnUpdateInstallApkDigest \/ OnDeviceUpdate \/ OnUpdateApkIRStatus
           \/ OnApkUpdateInfoToString \/ OnLoginResponse
  BY <1>7, ProgressTaken
  DEF OnUpdateInstallApkDigest, OnDeviceUpdate, OnUpdateApkIRStatus,
    OnApkUpdateInfoToString, OnLoginResponse, Take, tableVars, pythonVars
<1>8. CASE UNCHANGED <<toUi, loading, reported, overlapped>> /\ (updates' = updates \/ updates' = <<>>)
  BY <1>8, NewTasks, ProgressOther
<1>9. \/ UNCHANGED <<toUi, loading, reported, overlapped>> /\ (updates' = updates \/ updates' = <<>>)
      \/ \E s \in Serial : InstallDigest(s)
      \/ \E list \in DeviceLists : DevicesList(list)
      \/ \E k \in Key : ApkIRStatus(k)
      \/ \E p \in Package : DownloadBegins(p) \/ Downloading(p) \/ DownloadEnds(p)
      \/ \E success \in BOOLEAN : LoginAnswer(success)
      \/ OnUpdateInstallApkDigest \/ OnDeviceUpdate \/ OnUpdateApkIRStatus
      \/ OnApkUpdateInfo \/ OnApkUpdateInfoToString \/ OnLoginResponse
  BY DEF Next, Choose, SelectRow, Login, ClearStatuses, ClearUpdates, HostTask, vars, tableVars, pythonVars
<1>. QED
  BY <1>1, <1>2, <1>3, <1>4, <1>5, <1>6, <1>7, <1>8, <1>9

\* A download that ran alone has one row of progress, whatever the user clears
\* and whichever way the mode changes meanwhile (OneProgressRow).
THEOREM RefreshedInPlace == Spec => []OneProgressRow
<1>1. ProgressInv => OneProgressRow
  BY DEF ProgressInv
<1>. QED
  BY <1>1, TypedAlways, ProgressInit, ProgressStep, PTL DEF Spec


=============================================================================
