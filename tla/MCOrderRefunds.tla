--------------------------- MODULE MCOrderRefunds ---------------------------
(* A bounded instance of OrderRefunds for TLC.                             *)
EXTENDS OrderRefunds, TLC

\* Claims are interchangeable.
Symmetry == Permutations(Claims)

PricesOf(totals, fees, parts) ==
    {p \in [total : totals, fee : fees, fromCommission : parts] :
        p.fee <= p.total /\ p.fromCommission <= p.total}

\* Totals that two accounts share evenly in whole dong, some of them with every
\* split between the two balances, to the hundredth.
SmallPrices ==
    PricesOf({200}, {0, 100}, 0 .. 200)
        \cup PricesOf({400, 1000}, {0, 100, 200}, {0, 200, 350, 400})

=============================================================================
