-------------------------- MODULE MCPostgresLedger --------------------------
(* Instances of PostgresLedger for TLC.                                    *)
EXTENDS PostgresLedgerInvariant, TLC

CONSTANTS a, b, susp, x, y, r1, r2, r3

Posting(kind, id, first, second, amount) ==
    [kind |-> kind, id |-> id, first |-> first, second |-> second,
     amount |-> amount]

(* Transfers in both directions and two that share an identifier and no    *)
(* account, card postings on both wallets, an amount refused at once and   *)
(* amounts that overdraw when they are spent twice.                        *)
MixedCalls ==
    {Posting("p2p", x, a, b, 2), Posting("p2p", x, b, a, 1),
     Posting("p2p", y, a, a, 1), Posting("p2p", y, b, b, 1),
     Posting("card_out", x, a, susp, 2), Posting("card_in", y, b, susp, 2),
     Posting("card_in", y, b, susp, 0)}

MCOpening == (a :> 2) @@ (b :> 0) @@ (susp :> -2)

=============================================================================
