--------------------------- MODULE MCUpdateCheck ---------------------------
(* Small instances of UpdateCheck for TLC. *)
EXTENDS UpdateCheck
CONSTANTS p1, p2, v1, v2

Only(pkg, md5) == [k \in {pkg} |-> md5]
Both(m, n) == [k \in {p1, p2} |-> IF k = p1 THEN m ELSE n]

\* One package in two versions.
OneList == {Only(p1, v1), Only(p1, v2)}
\* Two packages, and a list without the second.
TwoLists == {Both(v1, v1), Only(p1, v1)}
=============================================================================
