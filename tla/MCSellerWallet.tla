--------------------------- MODULE MCSellerWallet ---------------------------
(* Small instances of SellerWallet for TLC: what a seller and others do.   *)
EXTENDS SellerWallet

CONSTANTS d1, d2, w1, w2, s1, s2, x1, x2, q1, q2

\* Deposits and withdrawals; deposits and source top-ups; a deposit, tier purchases and
\* refunds; the commission of a referred seller's plan, spent before it is taken back.
Days ==
    {{d1, w1, w2, "adjust"}, {d1, x1, x2, "adjust"}, {d1, d2, s1, s2}, {d1, s1, q1, q2}, {s1, s2, q1, q2},
     {s1, w1, q1, "adjust"}}

\* PayOS, or another rail for the first deposit.
Providers == {[d \in Deposits |-> IF d = d1 THEN r ELSE "callback"] : r \in {"callback", "chain"}}

\* The seller cancels the first deposit only, with two clicks.
Clicks == [d \in Deposits |-> IF d = d1 THEN 2 ELSE 0]
=============================================================================
