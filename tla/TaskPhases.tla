----------------------------- MODULE TaskPhases -----------------------------
(***************************************************************************)
(* What util.utility.Task promises its caller: an update check goes        *)
(* through its phases in order, the phase after a group of calls begins    *)
(* when the last of them has returned, and each phase is entered once.     *)
(***************************************************************************)
EXTENDS Integers

CONSTANTS Checks, Packages

VARIABLES
  phase,  \* of each check: none, pull, load, save, end
  open    \* the calls of its group that have not returned

vars == <<phase, open>>

Init ==
  /\ phase = [c \in Checks |-> "none"]
  /\ open = [c \in Checks |-> {}]

To(c, from, to) ==
  /\ phase[c] = from
  /\ phase' = [phase EXCEPT ![c] = to]

Start(c) == To(c, "none", "pull") /\ UNCHANGED open

\* The answer is unusable: the check is over.
GiveUp(c) == To(c, "pull", "end") /\ UNCHANGED open

\* The answer asks for a group of downloads, or for none.
Fork(c) ==
  \/ /\ To(c, "pull", "load")
     /\ \E S \in (SUBSET Packages) \ {{}} : open' = [open EXCEPT ![c] = S]
  \/ To(c, "pull", "save") /\ UNCHANGED open

\* A call returns; the last one ends the phase.
Return(c, p) ==
  /\ phase[c] = "load" /\ p \in open[c]
  /\ open' = [open EXCEPT ![c] = @ \ {p}]
  /\ phase' = IF open[c] = {p} THEN [phase EXCEPT ![c] = "save"] ELSE phase

Finish(c) == To(c, "save", "end") /\ UNCHANGED open

Next ==
  \E c \in Checks :
    \/ Start(c) \/ GiveUp(c) \/ Fork(c) \/ Finish(c)
    \/ \E p \in Packages : Return(c, p)

Spec == Init /\ [][Next]_vars
=============================================================================
