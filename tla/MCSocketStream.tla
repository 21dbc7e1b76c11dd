--------------------------- MODULE MCSocketStream ---------------------------
(***************************************************************************)
(* SocketStream for TLC: two messages whose bodies differ in length, one   *)
(* of which the host has no type for.                                      *)
(***************************************************************************)
EXTENDS SocketStream

CONSTANTS m1, m2

MCMessage == {m1, m2}
MCUnknown == {m2}
MCBody == [m \in MCMessage \cup {Hello} |-> IF m = m2 THEN 2 ELSE 1]
MCMaxSend == {[host |-> 2, python |-> 0], [host |-> 0, python |-> 2], [host |-> 1, python |-> 1]}
=============================================================================
