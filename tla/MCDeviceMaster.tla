--------------------------- MODULE MCDeviceMaster ---------------------------
(* Small instances of DeviceMaster for TLC. *)
EXTENDS DeviceMaster
CONSTANTS p1, p2

\* One success, one retryable failure.
Mixed == {<<"success">>, <<"other">>}
\* A failure that is not tried again as well.
WithFatal == Mixed \cup {<<"fatal">>}
=============================================================================
