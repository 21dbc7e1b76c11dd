----------------------------- MODULE PhoneWindow -----------------------------
(***************************************************************************)
(* The window of the host: its three pages, the mode it shares with the    *)
(* CTP thread, and the tables it keeps of what Python reports.             *)
(*                                                                         *)
(* Two queues of tasks join the threads: toHost (U2L_...) and toUi         *)
(* (L2U_...).  What Python says is turned into an L2U message on the CTP   *)
(* thread, according to the mode that thread knows, and drawn on the UI    *)
(* thread later.  AutoInstallApkListTable exists twice (total_auto_ or     *)
(* not) and both get the same notifications; the module has one of them.   *)
(***************************************************************************)
EXTENDS Naturals, Sequences, SequencesExt, FiniteSets

CONSTANTS
  Serial,      \* serial numbers of phones
  DeviceLists, \* the lists of devices Python may report
  Key,         \* keys of ApkIRStatus: serial number, command and sub command
  Package,     \* packages that may be downloaded
  PoolSize,    \* workers of the pool that downloads
  Budgets,     \* bounds: how often each thing may happen, one choice a session
  None

Event == {"digest", "devices", "status", "download", "progress", "login", "choose", "click"}

ASSUME WindowAssumption ==
  /\ None \notin Serial \cup Key \cup Package
  /\ Serial \cap Key = {} /\ Package \cap (Serial \cup Key) = {}
  /\ DeviceLists \subseteq Seq(Serial)
  /\ PoolSize \in Nat \ {0} /\ Budgets \subseteq [Event -> Nat]

VARIABLES
  budget,    \* what may still happen
  toHost,    \* tasks posted to the CTP thread
  hostMode,  \* now_mode_ of CTPModule
  toUi,      \* tasks posted to the UI thread
  shown,     \* the page in example_shown_
  uiMode,    \* g_current_mode_
  digests,   \* install_digest_data_ and install_digest_map_
  selected,  \* selected row of table_apk_ir_, 0 for none
  current,   \* current_serial_number_
  failed,    \* failed_list_: the digest it was copied from
  statuses,  \* apk_ir_data_ and apk_ir_data_map_
  updates,   \* data_ of UpdateView
  loading,   \* packages Python is downloading
  logins,    \* logins Python has not answered
  reported,  \* history: the digests, statuses and downloads there were of each
  overlapped \* history: downloads that ran beside another one

tableVars == <<digests, selected, current, failed, statuses, updates>>
pageVars  == <<shown, uiMode>>
pythonVars == <<loading, logins, reported, overlapped>>
vars == <<budget, toHost, hostMode, toUi, pageVars, tableVars, pythonVars>>

Spend(e) == budget[e] > 0 /\ budget' = [budget EXCEPT ![e] = @ - 1]

-----------------------------------------------------------------------------
(* A table: rows, and a map from keys to row numbers.  A row holds the     *)
(* number of the report it shows, 0 if none came yet.                      *)

NoRows == [rows |-> <<>>, index |-> <<>>]

\* push_back and insert, for a key that has no row yet.
Added(table, k, r) ==
  [rows  |-> Append(table.rows, [key |-> k, report |-> r]),
   index |-> [x \in DOMAIN table.index \cup {k} |->
                IF x = k THEN Len(table.rows) + 1 ELSE table.index[x]]]

\* A row that exists is refreshed where the map says it is.
Refreshed(table, k, r) ==
  IF k \in DOMAIN table.index
  THEN [table EXCEPT !.rows[table.index[k]].report = r]
  ELSE Added(table, k, r)

Init ==
  /\ budget \in Budgets
  /\ hostMode \in 0..2 \* CTPModule does not set it
  /\ shown = "login" /\ uiMode = 2
  /\ toHost = <<[type |-> "mode", mode |-> 2]>> /\ toUi = <<>>
  /\ digests = NoRows /\ selected = 0 /\ current = None /\ failed = 0
  /\ statuses = NoRows /\ updates = <<>>
  /\ loading = {} /\ logins = 0
  /\ reported = [k \in Serial \cup Key \cup Package |-> 0] /\ overlapped = {}

-----------------------------------------------------------------------------
(* UI thread: the user *)

\* Mutant of Choose: the host is told the mode before the page was chosen.
ChooseOldMode(page) ==
  /\ Spend("choose")
  /\ shown' = page
  /\ uiMode' = IF page = "manual" THEN 1 ELSE 2
  /\ toHost' = Append(toHost, [type |-> "mode", mode |-> uiMode])
  /\ UNCHANGED <<hostMode, toUi, tableVars, pythonVars>>

\* Mutant of Choose: the host is told the place of the page in the combobox.
ChooseIndex(page) ==
  /\ Spend("choose")
  /\ shown' = page
  /\ uiMode' = IF page = "manual" THEN 1 ELSE 2
  /\ toHost' = Append(toHost, [type |-> "mode", mode |-> [login |-> 0, auto |-> 1, manual |-> 2][page]])
  /\ UNCHANGED <<hostMode, toUi, tableVars, pythonVars>>

\* OnSelectedIndexChanged and GetItemViewAt
Choose(page) ==
  /\ Spend("choose")
  /\ shown' = page
  /\ uiMode' = IF page = "manual" THEN 1 ELSE 2
  /\ toHost' = Append(toHost, [type |-> "mode", mode |-> uiMode'])
  /\ UNCHANGED <<hostMode, toUi, tableVars, pythonVars>>

\* The button of the login page
Login ==
  /\ shown = "login" /\ Spend("login")
  /\ toHost' = Append(toHost, [type |-> "login"])
  /\ UNCHANGED <<hostMode, toUi, pageVars, tableVars, pythonVars>>

\* OnFirstTableSelectionChanged, for the row the table has selected
Detail(row, table) ==
  /\ selected' = row
  /\ current' = IF row = 0 THEN None ELSE table.rows[row].key
  /\ failed' = IF row = 0 THEN 0 ELSE table.rows[row].report

SelectRow(row) ==
  /\ shown # "login" /\ row # selected /\ Spend("click")
  /\ Detail(row, digests)
  /\ UNCHANGED <<toHost, hostMode, toUi, pageVars, digests, statuses, updates, pythonVars>>

\* Mutant of ClearStatuses: the map keeps the numbers of the old rows.
ClearStatusesMapKept ==
  /\ shown = "manual" /\ Spend("click")
  /\ statuses' = [statuses EXCEPT !.rows = <<>>]
  /\ UNCHANGED <<toHost, hostMode, toUi, pageVars, digests, selected, current, failed, updates, pythonVars>>

ClearStatuses ==
  /\ shown = "manual" /\ Spend("click")
  /\ statuses' = NoRows
  /\ UNCHANGED <<toHost, hostMode, toUi, pageVars, digests, selected, current, failed, updates, pythonVars>>

ClearUpdates ==
  /\ shown = "manual" /\ Spend("click")
  /\ updates' = <<>>
  /\ UNCHANGED <<toHost, hostMode, toUi, pageVars, digests, selected, current, failed, statuses, pythonVars>>

-----------------------------------------------------------------------------
(* CTP thread *)

Post(m) == toUi' = Append(toUi, m)

\* OnModeChange, or OnLogin and OnTotalAutoInstall, which only pass on
HostTask ==
  /\ toHost # <<>>
  /\ toHost' = Tail(toHost)
  /\ hostMode' = IF Head(toHost).type = "mode" THEN Head(toHost).mode ELSE hostMode
  /\ logins' = IF Head(toHost).type = "login" THEN logins + 1 ELSE logins
  /\ UNCHANGED <<budget, toUi, pageVars, tableVars, loading, reported, overlapped>>

\* DispatchProtobufMessage: an InstallDigest of a phone
InstallDigest(s) ==
  /\ Spend("digest")
  /\ reported' = [reported EXCEPT ![s] = @ + 1]
  /\ Post([type |-> "digest", key |-> s, report |-> reported'[s]])
  /\ UNCHANGED <<toHost, hostMode, pageVars, tableVars, loading, logins, overlapped>>

\* ... the list of devices; the connect handler sends an empty one
DevicesList(list) ==
  /\ Spend("devices")
  /\ Post([type |-> "devices", list |-> list])
  /\ UNCHANGED <<toHost, hostMode, pageVars, tableVars, pythonVars>>

\* ... a CommandInstallApkResponse
ApkIRStatus(k) ==
  /\ Spend("status")
  /\ reported' = [reported EXCEPT ![k] = @ + 1]
  /\ Post([type |-> "status", key |-> k, report |-> reported'[k]])
  /\ UNCHANGED <<toHost, hostMode, pageVars, tableVars, loading, logins, overlapped>>

\* NotifyApkCheckUpdateInfo
NotifyApkCheckUpdateInfo(p, info) ==
  /\ Post(IF hostMode = 1 THEN [type |-> "update", key |-> p, report |-> reported'[p], info |-> info]
                          ELSE [type |-> "text"])
  /\ UNCHANGED <<toHost, hostMode, pageVars, tableVars, logins>>

\* A download in the pool of Python: it begins, reports its progress, ends.
DownloadBegins(p) ==
  /\ p \notin loading /\ Cardinality(loading) < PoolSize /\ Spend("download")
  /\ loading' = loading \cup {p}
  /\ reported' = [reported EXCEPT ![p] = @ + 1]
  /\ overlapped' = IF loading = {} THEN overlapped
                   ELSE overlapped \cup {<<q, reported'[q]>> : q \in loading'}
  /\ NotifyApkCheckUpdateInfo(p, "begin")

Downloading(p) ==
  /\ p \in loading /\ Spend("progress")
  /\ UNCHANGED <<loading, reported, overlapped>>
  /\ NotifyApkCheckUpdateInfo(p, "progress")

DownloadEnds(p) ==
  /\ p \in loading
  /\ loading' = loading \ {p}
  /\ UNCHANGED <<budget, reported, overlapped>>
  /\ NotifyApkCheckUpdateInfo(p, "end")

\* ... the answer to a login
LoginAnswer(success) ==
  /\ logins > 0
  /\ logins' = logins - 1
  /\ Post([type |-> "login", success |-> success])
  /\ UNCHANGED <<budget, toHost, hostMode, pageVars, tableVars, loading, reported, overlapped>>

-----------------------------------------------------------------------------
(* UI thread: the messages *)

Take(type) == toUi # <<>> /\ Head(toUi).type = type /\ toUi' = Tail(toUi)

\* Mutant of OnUpdateInstallApkDigest: the list of failures on the screen is
\* the one of the last click.
OnUpdateInstallApkDigestListKept ==
  /\ Take("digest")
  /\ LET m == Head(toUi) IN
       /\ digests' = Refreshed(digests, m.key, m.report)
       /\ IF m.key \notin DOMAIN digests.index
          THEN Detail(Len(digests'.rows), digests')
          ELSE UNCHANGED <<selected, current, failed>>
  /\ UNCHANGED <<budget, toHost, hostMode, pageVars, statuses, updates, pythonVars>>

\* InnerUpdateInstallApkDigest: a new row is selected; the list of failures
\* follows the digest of the current phone.
OnUpdateInstallApkDigest ==
  /\ Take("digest")
  /\ LET m == Head(toUi) IN
       /\ digests' = Refreshed(digests, m.key, m.report)
       /\ IF m.key \notin DOMAIN digests.index
          THEN Detail(Len(digests'.rows), digests')
          ELSE /\ failed' = IF current = m.key THEN m.report ELSE failed
               /\ UNCHANGED <<selected, current>>
  /\ UNCHANGED <<budget, toHost, hostMode, pageVars, statuses, updates, pythonVars>>

\* The table after the loop of InnerOnDeviceUpdate over a list: a phone
\* without a row gets one, blank, and no row is removed.
Listed(table, list) ==
  LET after[i \in 0..Len(list)] ==
        IF i = 0 THEN table
        ELSE IF list[i] \in DOMAIN after[i - 1].index THEN after[i - 1]
        ELSE Added(after[i - 1], list[i], 0)
  IN after[Len(list)]

\* Mutant of OnDeviceUpdate: the rows of the phones that are listed begin anew.
OnDeviceUpdateReset ==
  /\ Take("devices")
  /\ LET listed == ToSet(Head(toUi).list)
         reset == [digests EXCEPT !.rows =
                     [i \in DOMAIN @ |-> IF @[i].key \in listed THEN [@[i] EXCEPT !.report = 0] ELSE @[i]]]
     IN digests' = Listed(reset, Head(toUi).list)
  /\ IF Len(digests'.rows) > Len(digests.rows) THEN Detail(Len(digests'.rows), digests')
     ELSE UNCHANGED <<selected, current, failed>>
  /\ UNCHANGED <<budget, toHost, hostMode, pageVars, statuses, updates, pythonVars>>

\* InnerOnDeviceUpdate: the last of the new rows is selected in the end.
OnDeviceUpdate ==
  /\ Take("devices")
  /\ digests' = Listed(digests, Head(toUi).list)
  /\ IF Len(digests'.rows) > Len(digests.rows) THEN Detail(Len(digests'.rows), digests')
     ELSE UNCHANGED <<selected, current, failed>>
  /\ UNCHANGED <<budget, toHost, hostMode, pageVars, statuses, updates, pythonVars>>

\* InnerOnUpdateApkIRStatus
OnUpdateApkIRStatus ==
  /\ Take("status")
  /\ statuses' = Refreshed(statuses, Head(toUi).key, Head(toUi).report)
  /\ UNCHANGED <<budget, toHost, hostMode, pageVars, digests, selected, current, failed, updates, pythonVars>>

\* Mutant of OnApkUpdateInfo: a progress refreshes the row of its beginning only.
OnApkUpdateInfoBeginOnly ==
  /\ Take("update")
  /\ LET m == Head(toUi)
         row == [key |-> m.key, report |-> m.report, info |-> m.info]
     IN updates' = IF m.info = "progress" /\ updates # <<>> /\ Last(updates) = [row EXCEPT !.info = "begin"]
                   THEN [updates EXCEPT ![Len(updates)] = row]
                   ELSE Append(updates, row)
  /\ UNCHANGED <<budget, toHost, hostMode, pageVars, digests, selected, current, failed, statuses, pythonVars>>

\* A progress refreshes the last row if that is of its package.
OnApkUpdateInfo ==
  /\ Take("update")
  /\ LET m == Head(toUi)
         row == [key |-> m.key, report |-> m.report, info |-> m.info]
     IN updates' = IF m.info = "progress" /\ updates # <<>> /\ Last(updates).key = m.key
                   THEN [updates EXCEPT ![Len(updates)] = row]
                   ELSE Append(updates, row)
  /\ UNCHANGED <<budget, toHost, hostMode, pageVars, digests, selected, current, failed, statuses, pythonVars>>

\* The text of a label, which is left out
OnApkUpdateInfoToString ==
  /\ Take("text")
  /\ UNCHANGED <<budget, toHost, hostMode, pageVars, tableVars, pythonVars>>

\* The page changes, the combobox and the mode do not.
OnLoginResponse ==
  /\ Take("login")
  /\ shown' = IF Head(toUi).success THEN "auto" ELSE "login"
  /\ toHost' = Append(toHost, [type |-> "total", on |-> Head(toUi).success])
  /\ UNCHANGED <<budget, hostMode, uiMode, tableVars, pythonVars>>

Next ==
  \/ \E page \in {"login", "auto", "manual"} : Choose(page)
  \/ \E row \in 0..Len(digests.rows) : SelectRow(row)
  \/ Login \/ ClearStatuses \/ ClearUpdates
  \/ HostTask
  \/ \E s \in Serial : InstallDigest(s)
  \/ \E list \in DeviceLists : DevicesList(list)
  \/ \E k \in Key : ApkIRStatus(k)
  \/ \E p \in Package : DownloadBegins(p) \/ Downloading(p) \/ DownloadEnds(p)
  \/ \E success \in BOOLEAN : LoginAnswer(success)
  \/ OnUpdateInstallApkDigest \/ OnDeviceUpdate \/ OnUpdateApkIRStatus
  \/ OnApkUpdateInfo \/ OnApkUpdateInfoToString \/ OnLoginResponse

Spec == Init /\ [][Next]_vars

-----------------------------------------------------------------------------
(* Properties *)

IsTable(table, keys) ==
  /\ table = [rows |-> table.rows, index |-> table.index]
  /\ table.rows \in Seq([key : keys, report : Nat])
  /\ DOMAIN table.index \subseteq keys /\ table.index \in [DOMAIN table.index -> Nat]

ToHostMessage ==
  [type : {"mode"}, mode : 1..2] \cup [type : {"login"}] \cup [type : {"total"}, on : BOOLEAN]
Info == {"begin", "progress", "end"}
ToUiMessage ==
  [type : {"digest"}, key : Serial, report : Nat] \cup [type : {"devices"}, list : DeviceLists]
  \cup [type : {"status"}, key : Key, report : Nat] \cup [type : {"text"}]
  \cup [type : {"update"}, key : Package, report : Nat, info : Info]
  \cup [type : {"login"}, success : BOOLEAN]

\* Every variable has its type.
TypeOK ==
  /\ budget \in [Event -> Nat]
  /\ toHost \in Seq(ToHostMessage) /\ hostMode \in 0..2
  /\ toUi \in Seq(ToUiMessage)
  /\ shown \in {"login", "auto", "manual"} /\ uiMode \in 1..2
  /\ IsTable(digests, Serial) /\ IsTable(statuses, Key)
  /\ selected \in Nat /\ current \in Serial \cup {None} /\ failed \in Nat
  /\ updates \in Seq([key : Package, report : Nat, info : Info])
  /\ loading \subseteq Package /\ logins \in Nat
  /\ reported \in [Serial \cup Key \cup Package -> Nat] /\ overlapped \subseteq Package \X Nat

\* A map of a table names exactly its rows, so that no report is written
\* outside the vector or into the row of another phone: through new rows,
\* a cleared table and reports that were under way while it was cleared
\* (InnerUpdateInstallApkDigest, InnerOnUpdateApkIRStatus, ButtonPressed).
Indexed(table) ==
  /\ \A k \in DOMAIN table.index :
       table.index[k] \in DOMAIN table.rows /\ table.rows[table.index[k]].key = k
  /\ \A i \in DOMAIN table.rows :
       table.rows[i].key \in DOMAIN table.index /\ table.index[table.rows[i].key] = i
RowsIndexed == Indexed(digests) /\ Indexed(statuses)

\* The list of failures on the screen is that of the selected phone, as of the
\* digest its row shows, whether the selection, the digest or the list of
\* devices came last (OnFirstTableSelectionChanged, InnerUpdateInstallApkDigest).
DetailShowsSelected ==
  IF selected = 0 THEN current = None /\ failed = 0
  ELSE /\ selected \in DOMAIN digests.rows
       /\ digests.rows[selected] = [key |-> current, report |-> failed]

\* A row shows the newest report there was before those still in the queue:
\* neither a list of devices nor a late report takes one back.
InFlight(k) == Cardinality({i \in DOMAIN toUi : toUi[i].type \in {"digest", "status"} /\ toUi[i].key = k})
LatestShown ==
  /\ \A s \in Serial :
       reported[s] = InFlight(s) + IF s \in DOMAIN digests.index
                                   THEN digests.rows[digests.index[s]].report ELSE 0
  /\ \A k \in DOMAIN statuses.index :
       reported[k] = InFlight(k) + statuses.rows[statuses.index[k]].report

\* The CTP thread will format reports for the mode the UI is in, once it has
\* run the tasks it was posted; and the manual page is only shown in its mode.
\* Before the first task it may hold anything: now_mode_ is not initialised.
ModeAgrees ==
  LET modes == {i \in DOMAIN toHost : toHost[i].type = "mode"} IN
  /\ modes = {} => uiMode = hostMode
  /\ \A i \in modes : (\A j \in modes : j <= i) => uiMode = toHost[i].mode
  /\ shown = "manual" => uiMode = 1

\* A download has one row of progress, which is refreshed in place, whatever
\* the user clears and whichever way the mode changes meanwhile.  The comment
\* at update_view.cc:347 names the premise, that downloads are not concurrent:
\* the pool of Python has five workers, and downloads that ran side by side
\* get a new row each time they take turns.
OneProgressRow ==
  \A i, j \in DOMAIN updates :
    /\ updates[i] = updates[j] /\ updates[i].info = "progress"
    /\ <<updates[i].key, updates[i].report>> \notin overlapped
    => i = j

=============================================================================
