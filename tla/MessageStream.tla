--------------------------- MODULE MessageStream ---------------------------
(***************************************************************************)
(* What one direction of a connection promises its users: messages arrive  *)
(* whole, once and in the order they were handed over.  A lossy stream may *)
(* drop a message as a whole; one that breaks keeps a prefix of what was   *)
(* under way.  SocketStream implements it, once for each direction.        *)
(***************************************************************************)
EXTENDS Naturals, Sequences, SequencesExt

CONSTANTS
  Message,
  Lossy  \* whether a message may be dropped

VARIABLES
  queued,    \* handed over, not yet dispatched
  delivered, \* dispatched by the receiver
  broken     \* the stream has been torn or closed

Init ==
  /\ queued = <<>> /\ delivered = <<>>
  /\ broken = FALSE

Accept(m) ==
  /\ ~broken
  /\ queued' = Append(queued, m)
  /\ UNCHANGED <<delivered, broken>>

\* One read of the receiver may complete several messages.
Deliver(n) ==
  /\ queued' = SubSeq(queued, n + 1, Len(queued))
  /\ delivered' = delivered \o SubSeq(queued, 1, n)
  /\ UNCHANGED broken

Drop(i) ==
  /\ Lossy /\ ~broken
  /\ queued' = RemoveAt(queued, i)
  /\ UNCHANGED <<delivered, broken>>

Break ==
  /\ broken' = TRUE
  /\ \E n \in 0..Len(queued) : queued' = SubSeq(queued, 1, n)
  /\ UNCHANGED delivered

Next ==
  \/ \E m \in Message : Accept(m)
  \/ \E n \in DOMAIN queued : Deliver(n) \/ Drop(n)
  \/ Break

Spec == Init /\ [][Next]_<<queued, delivered, broken>>
=============================================================================
