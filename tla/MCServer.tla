------------------------------ MODULE MCServer ------------------------------
(* An instance of Server for TLC: two requests with one Idempotency-Key,   *)
(* transfers that cross under one client_tx_id, or a transfer and a card.  *)
EXTENDS Server, TLC

CONSTANTS a, b, susp, x, r1, r2, k

Payment(kind, id, first, second, amount) ==
    [kind |-> kind, id |-> id, first |-> first, second |-> second,
     amount |-> amount]

MCIntents ==
    (r1 :> {Payment("p2p", x, a, b, 1)}) @@
    (r2 :> {Payment("p2p", x, b, a, 1), Payment("card_in", NoId, b, susp, 1)})

MCCalls ==
    {Payment("p2p", x, a, b, 1), Payment("p2p", x, b, a, 1),
     Payment("card_in", r2, b, susp, 1)}

MCKeyOf == [r \in Requests |-> k]

MCOpening == (a :> 2) @@ (b :> 1) @@ (susp :> 0)

=============================================================================
