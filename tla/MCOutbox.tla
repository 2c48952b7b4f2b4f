------------------------------- MODULE MCOutbox -------------------------------
(* Instances of Outbox for TLC: the replica that publishes, and another one.  *)
EXTENDS Outbox

CONSTANTS publisher, other

MCNodes == {publisher, other}
=============================================================================
