-------------------------- MODULE MCWarrantyClaims --------------------------
(***************************************************************************)
(* WarrantyClaims for TLC: one or two claims, one stock entry, two        *)
(* requests that may apply a verdict.                                      *)
(***************************************************************************)
EXTENDS WarrantyClaims

TwoClaims == 1 .. 2
OneEntry == {1}
AllModes == {"AUTO_STOCK", "AUTO_API", "MANUAL"}

\* The customer asks twice, or the claim is checked again and its callback repeated.
Starts == {[claims |-> 2, attempts |-> 1, rechecks |-> 1],
           [claims |-> 1, attempts |-> 2, rechecks |-> 0]}
=============================================================================
