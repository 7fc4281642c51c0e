------------------------------ MODULE MCOutbox ------------------------------
(* Outbox with two messages and two processes, the first of which runs the *)
(* handlers.  The mixes put every kind next to a message of a run, so that *)
(* a batch holds two deliveries and the first can outlive the claim of the *)
(* second.                                                                 *)
EXTENDS Outbox

CONSTANTS k1, k2, p1, p2

MCKeys == {k1, k2}
MCProcs == {p1, p2}
MCOwner == [k \in MCKeys |-> p1]

Mix(a, b) == [k \in MCKeys |-> IF k = k1 THEN a ELSE b]

MCKinds == {Mix("reply", "direct"), Mix("refusal", "panel"), Mix("panel", "notice")}
=============================================================================
