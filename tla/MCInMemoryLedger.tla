-------------------------- MODULE MCInMemoryLedger --------------------------
(* Instances of InMemoryLedger for TLC.                                    *)
EXTENDS InMemoryLedger, TLC

CONSTANTS a, b, susp, x, y, r1, r2, r3, r4

Posting(kind, id, first, second, amount) ==
    [kind |-> kind, id |-> id, first |-> first, second |-> second,
     amount |-> amount]

(* Every kind, identifiers shared and not, amounts that overdraw when they *)
(* are spent twice or overflow when they are received twice, one refused   *)
(* at once.                                                                *)
MixedCalls ==
    {Posting("p2p", x, a, b, 2), Posting("p2p", x, b, a, 1),
     Posting("p2p", y, b, a, 1), Posting("card_out", x, a, susp, 2),
     Posting("card_in", x, b, susp, 2), Posting("card_in", y, b, susp, 0)}

SelfTransfers == {Posting("p2p", x, a, a, 1), Posting("p2p", y, a, a, 2)}

MCOpening == (a :> 2) @@ (b :> 0) @@ (susp :> -2)

RequestSymmetry == Permutations(Requests)

(* "ledger always balances to zero" (congo_pay_go_roadmap.md).             *)
BalancesToZero == Total(balance, Accounts) = 0

=============================================================================
