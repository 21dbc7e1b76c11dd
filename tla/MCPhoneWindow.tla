---------------------------- MODULE MCPhoneWindow ----------------------------
(***************************************************************************)
(* PhoneWindow for TLC.  A session is busy with the phones, with the       *)
(* commands and their states, or with the mode and the downloads.          *)
(***************************************************************************)
EXTENDS PhoneWindow

CONSTANTS s1, s2, k1, k2, p1, p2

MCDeviceLists == {<<>>, <<s1>>, <<s2, s1>>}
Budget(digest, devices, status, download, progress, login, choose, click) ==
  [digest |-> digest, devices |-> devices, status |-> status, download |-> download,
   progress |-> progress, login |-> login, choose |-> choose, click |-> click]
MCBudgets == {Budget(2, 2, 0, 0, 0, 0, 1, 2), Budget(0, 0, 4, 0, 0, 0, 1, 2),
              Budget(0, 0, 0, 2, 3, 0, 2, 1), Budget(0, 0, 0, 1, 2, 1, 2, 1)}
=============================================================================
