------------------------- MODULE MCPaymentRequests -------------------------
(* An instance of PaymentRequests for TLC: two requests with one           *)
(* Idempotency-Key, which carry any of three payments, with and without    *)
(* client_tx_id, and a retry with another Idempotency-Key.                 *)
EXTENDS PaymentRequests, TLC

CONSTANTS a, b, susp, x, r1, r2, r3, k1, k2

Payment(kind, id, first, second, amount) ==
    [kind |-> kind, id |-> id, first |-> first, second |-> second,
     amount |-> amount]

MCIntents ==
    [r \in Requests |->
        {Payment("p2p", x, a, b, 1)} \cup
            (IF r = r3 THEN {} ELSE {Payment("p2p", NoId, a, b, 2),
                                     Payment("card_out", x, b, susp, 1)})]

MCCalls == UNION {{Identified(c, r) : c \in MCIntents[r]} : r \in Requests}

MCKeyOf == [r \in Requests |-> IF r = r3 THEN k2 ELSE k1]

MCOpening == (a :> 4) @@ (b :> 0) @@ (susp :> -4)

SameKeySymmetry == Permutations({r1, r2})

=============================================================================
