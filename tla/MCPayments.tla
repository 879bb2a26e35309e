----------------------------- MODULE MCPayments -----------------------------
(* A small instance of Payments for TLC: an order and a top-up, on one    *)
(* rail, so that a transfer can be taken for the other's, and of one price *)
(* or of neighbouring ones.                                                *)
EXTENDS Payments, TLC

CONSTANTS i1, i2

MCKinds == {i1 :> "order" @@ i2 :> "topup"}
MCRails == {i1 :> r @@ i2 :> r : r \in {"callback", "notice", "receipt", "direct"}}
MCPrices == {i1 :> 1 @@ i2 :> p : p \in 1 .. 2}

\* The properties are not about the direct scanners: an hour of them is enough to run all
\* of their steps.
DirectBound == (\E i \in Invoices : rail[i] = "direct") => now <= 2

=============================================================================
