---------------------------- MODULE OrderPromise ----------------------------
(***************************************************************************)
(* What a shop promises its customers about paid orders, without jobs,     *)
(* queues, sweeps and stock counters: an order that was paid ends at most  *)
(* once, with the goods or with the money back; a pre-order is handed out  *)
(* only after it was called up as the one with the earliest payment in     *)
(* line; and nothing is handed out while the customer waits for an answer  *)
(* to a request to cancel.  The time of a payment is taken a little before *)
(* the order joins the line with it: a pre-order that is called up before  *)
(* an earlier payment has joined may still be served first.  Fulfillment   *)
(* is shown to implement this specification.                               *)
(***************************************************************************)
EXTENDS Naturals

CONSTANTS Orders

VARIABLES
    outcome, \* how each order stands: "open", "paid", "delivered", "refunded"
    place,   \* place[o]: the rank of a waiting pre-order, 0 for every other order
    time,    \* time[o]: the rank taken for the order's payment, 0 for none
    last,    \* the last rank given out
    asked,   \* waiting pre-orders whose customers have asked to cancel
    called   \* waiting pre-orders that were called up as the first in line

vars == <<outcome, place, time, last, asked, called>>

Init ==
    /\ outcome = [o \in Orders |-> "open"]
    /\ place = [o \in Orders |-> 0]
    /\ time = [o \in Orders |-> 0]
    /\ last = 0
    /\ asked = {}
    /\ called = {}

InLine(o) == place[o] > 0

\* A payment begins: it takes the next rank.
Begin(o) ==
    /\ outcome[o] = "open"
    /\ last' = last + 1
    /\ time' = [time EXCEPT ![o] = last + 1]
    /\ UNCHANGED <<outcome, place, asked, called>>

\* It is given up before it was taken.
GiveUp(o) ==
    /\ outcome[o] = "open"
    /\ time' = [time EXCEPT ![o] = 0]
    /\ UNCHANGED <<outcome, place, last, asked, called>>

\* The order is paid; a pre-order joins the line with the rank of its payment.
Pay(o) ==
    /\ outcome[o] = "open"
    /\ time[o] > 0
    /\ outcome' = [outcome EXCEPT ![o] = "paid"]
    /\ place' = place \/ place' = [place EXCEPT ![o] = time[o]]
    /\ UNCHANGED <<time, last, asked, called>>

\* The first in line is called up; it may also be sent back to its place.
Call(o) ==
    /\ InLine(o)
    /\ \A p \in Orders : InLine(p) => place[o] <= place[p]
    /\ called' = called \cup {o}
    /\ UNCHANGED <<outcome, place, time, last, asked>>

SendBack(o) ==
    /\ called' = called \ {o}
    /\ UNCHANGED <<outcome, place, time, last, asked>>

Settle(o, how) ==
    /\ outcome[o] = "paid"
    /\ outcome' = [outcome EXCEPT ![o] = how]
    /\ place' = [place EXCEPT ![o] = 0]
    /\ asked' = asked \ {o}
    /\ called' = called \ {o}
    /\ UNCHANGED <<time, last>>

\* The goods are handed out: to a pre-order only when it was called up and its
\* customer has not asked to cancel.
Deliver(o) ==
    /\ InLine(o) => o \in called
    /\ o \notin asked
    /\ Settle(o, "delivered")

\* The money goes back.
Refund(o) == Settle(o, "refunded")

\* The customer of a waiting pre-order asks to cancel, and the seller declines.
Ask(o) ==
    /\ InLine(o)
    /\ asked' = asked \cup {o}
    /\ UNCHANGED <<outcome, place, time, last, called>>

Decline(o) ==
    /\ asked' = asked \ {o}
    /\ UNCHANGED <<outcome, place, time, last, called>>

Next ==
    \E o \in Orders :
        \/ Begin(o) \/ GiveUp(o) \/ Pay(o) \/ Call(o) \/ SendBack(o)
        \/ Deliver(o) \/ Refund(o) \/ Ask(o) \/ Decline(o)

Spec == Init /\ [][Next]_vars

=============================================================================
