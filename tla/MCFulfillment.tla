---------------------------- MODULE MCFulfillment ----------------------------
(* Fulfillment on small instances: two orders of one product, two job slots. *)
EXTENDS Fulfillment, TLC

CONSTANTS o1, o2

QtyOne    == [o \in Orders |-> 1]
QtyTwoOne == [o \in Orders |-> IF o = o1 THEN 2 ELSE 1]

ByWallet  == [o \in Orders |-> IF o = o1 THEN "wallet" ELSE "webhook"]
ByScan    == [o \in Orders |-> "scan"]

WorkerSymmetry == Permutations(Workers)
=============================================================================
