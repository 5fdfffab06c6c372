--------------------------- MODULE MCIdempotency ---------------------------
(* Instances of Idempotency for TLC.  Keys do not interact, so all         *)
(* requests carry the same one.                                            *)
EXTENDS Idempotency, TLC

CONSTANTS r1, r2, r3, key

MCKeyOf == [r \in Requests |-> key]

=============================================================================
