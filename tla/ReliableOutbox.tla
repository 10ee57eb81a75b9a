---------------------------- MODULE ReliableOutbox ----------------------------
(***************************************************************************)
(* What the durable outbox promises, with no engine, socket or cache queue *)
(* in sight: an accepted operation stays in the outbox until the relay has *)
(* stored it, is stored exactly once, and is then settled.                 *)
(***************************************************************************)
EXTENDS Naturals, Sequences

CONSTANT OpIds     \* every outbox id there can be

VARIABLES
    outbox,     \* ids of the operations in the durable outbox
    stored      \* ids of the operations the relay stored, in order

vars == <<outbox, stored>>

StoredIds == {stored[i] : i \in 1..Len(stored)}

Init == outbox = {} /\ stored = <<>>

\* An operation enters an empty outbox under an id the relay has never seen.
Accept(id) ==
    /\ outbox = {} /\ id \notin StoredIds
    /\ outbox' = {id}
    /\ UNCHANGED stored

\* The relay stores an operation it does not hold.
Store(id) ==
    /\ id \in outbox /\ id \notin StoredIds
    /\ stored' = Append(stored, id)
    /\ UNCHANGED outbox

\* Only a stored operation leaves the outbox.
Settle(id) ==
    /\ id \in outbox /\ id \in StoredIds
    /\ outbox' = outbox \ {id}
    /\ UNCHANGED stored

Deliver == \E id \in outbox : Store(id) \/ Settle(id)

Next == (\E id \in OpIds : Accept(id)) \/ Deliver

\* What never happens, and with it what must.
Safely == Init /\ [][Next]_vars
Spec == Safely /\ WF_vars(Deliver)
=============================================================================
