----------------------------- MODULE MCDeviceWalk -----------------------------
(***************************************************************************)
(* DeviceWalk for TLC.                                                     *)
(***************************************************************************)
EXTENDS DeviceWalk

CONSTANTS s1, s2

Session(found, walks, infos, timeouts) ==
  [found |-> found, walks |-> walks, infos |-> infos, timeouts |-> timeouts]
One == <<s1>>
Two == <<s2, s1>>
MCSessions ==
  {Session(<<One, Two>>, <<"info">>, 0, 0), Session(<<One, Two>>, <<"update">>, 0, 0),
   Session(<<One, Two>>, <<"info", "install">>, 0, 1),
   Session(<<One, One>>, <<"install">>, 1, 1),
   Session(<<One>>, <<"install", "info">>, 1, 1)}
=============================================================================
