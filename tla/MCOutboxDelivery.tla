-------------------------- MODULE MCOutboxDelivery --------------------------
(* The instance OutboxDelivery is checked on.  Two edits, one of each      *)
(* kind, are what it takes: an insertion the vector names and a deletion   *)
(* it does not, either of them made while the other is being sealed,       *)
(* stored or acknowledged.                                                 *)
EXTENDS OutboxDelivery

ASSUME BothKindsOfEdit == Inserts # {} /\ Deletes # {}
=============================================================================
