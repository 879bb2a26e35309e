--------------------------- MODULE SourcingProofs ---------------------------
(***************************************************************************)
(* What buying goods elsewhere guarantees for any number of orders, rows,  *)
(* runs and calls, and every mix of kinds of orders.                       *)
(***************************************************************************)
EXTENDS Sourcing, FiniteSetTheorems, TLAPS

\* A row is an order and the number of a run.
LEMMA RowParts ==
    ASSUME NEW r \in Rows
    PROVE  r[1] \in Orders /\ r[2] \in 1 .. MaxRuns /\ r = <<r[1], r[2]>>
  BY DEF Rows

\* The part of TypeOK that a Boolean is not mixed into.
Ranges ==
    /\ stock \in Nat /\ balance \in Int /\ crashes \in Nat
    /\ order \in [Orders -> {"PROCESSING", "WAITING", "DELIVERED", "REFUNDED", "FAILED"}]
    /\ link \in [Orders -> 0 .. MaxRuns]
    /\ source \in [Rows -> {"NONE", "PENDING", "PARKED"} \union Closed]
    /\ pc \in [Rows -> {"idle", "look", "deliver", "buy", "bought", "bare", "pending", "failed", "park",
                        "debit", "done", "dead"}]
    /\ runs \in [Orders -> 0 .. MaxRuns]
    /\ debits \in [Orders -> Nat] /\ bought \in [Orders -> Nat]
    /\ refunded \in [Rows -> Nat] /\ failing \subseteq Rows \X (1 .. MaxCalls)
    /\ cascaded \subseteq Orders /\ paidBack \subseteq Orders /\ handed \subseteq Orders /\ cancelling \subseteq Orders
    /\ verdict \in [Orders -> {"none", "open", "delivered", "failed", "cancelled"}]
    /\ delivering \subseteq Rows
    /\ recon \in [Orders -> Poll .. MaxRuns]

\* No step changes the case or the circumstances.
LEMMA CaseStays == [Next]_vars => case' = case /\ calm' = calm
<1> SUFFICES ASSUME [Next]_vars PROVE case' = case /\ calm' = calm
  OBVIOUS
<1> USE DEF otherVars
<1>1. ASSUME NEW o \in Orders,
             \/ KeyOrder(o) \/ Start(o) \/ Decide(o) \/ Cascade(o) \/ CompleteByHand(o)
             \/ CancelRead(o) \/ CancelWrite(o) \/ ReconList(o) \/ ReconWrite(o)
             \/ PollList(o) \/ PollWrite(o)
      PROVE  case' = case /\ calm' = calm
  BY <1>1 DEF KeyOrder, Start, Decide, Cascade, CompleteByHand, CancelRead, CancelWrite, ReconList,
              ReconWrite, PollList, PollWrite
<1>2. ASSUME NEW r \in Rows,
             \/ Buy(r) \/ KeyLook(r) \/ KeyDeliver(r) \/ KeyBought(r) \/ KeyPark(r) \/ KeyFail(r)
             \/ Look(r) \/ Deliver(r) \/ Bring(r) \/ Wait(r) \/ FailBare(r) \/ DebitStep(r)
             \/ GiveBack(r) \/ Crash(r) \/ OwnerDeliverRead(r) \/ OwnerDeliverWrite(r)
      PROVE  case' = case /\ calm' = calm
  BY <1>2 DEF Buy, KeyLook, KeyDeliver, KeyBought, KeyPark, KeyFail, Look, Deliver, Bring, Wait,
              FailBare, DebitStep, GiveBack, Crash, OwnerDeliverRead, OwnerDeliverWrite
<1>3. ASSUME NEW r \in Rows, NEW c, MarkFailedRead(r, c) \/ MarkFailedWrite(r, c)
      PROVE  case' = case /\ calm' = calm
  BY <1>3 DEF MarkFailedRead, MarkFailedWrite
<1>4. CASE UNCHANGED vars
  BY <1>4 DEF vars
<1> QED
  BY <1>1, <1>2, <1>3, <1>4 DEF Next

\* The states of an order.
Statuses == {"PROCESSING", "WAITING", "DELIVERED", "REFUNDED", "FAILED"}

\* Writing an order's state keeps its range.
LEMMA OrderTypes ==
    ASSUME Ranges, NEW o \in Orders, NEW s \in Statuses, SetOrder(o, s)
    PROVE  order' \in [Orders -> Statuses] /\ handed' \subseteq Orders
  BY DEF Ranges, SetOrder, Statuses

\* A debit keeps the ranges of the balance and of the count of debits.
LEMMA DebitTypes ==
    ASSUME Ranges, NEW o \in Orders, Debit(o) \/ UNCHANGED <<balance, debits>>
    PROVE  balance' \in Int /\ debits' \in [Orders -> Nat]
  BY DEF Ranges, Debit

\* Failing a source order keeps the ranges of rows, refunds and balance.
LEMMA FailTypes ==
    ASSUME Ranges, NEW r \in Rows, Fail(r)
    PROVE  /\ source' \in [Rows -> {"NONE", "PENDING", "PARKED"} \union Closed]
           /\ refunded' \in [Rows -> Nat] /\ balance' \in Int
  BY DEF Ranges, Fail, SetSource, Closed

\* Refunding the customer keeps the ranges of what it writes.
LEMMA RefundTypes ==
    ASSUME Ranges, NEW o \in Orders, RefundCustomer(o)
    PROVE  order' \in [Orders -> Statuses] /\ handed' \subseteq Orders /\ paidBack' \subseteq Orders
<1>1. CASE SetOrder(o, "REFUNDED") /\ paidBack' = paidBack \union {o}
  BY <1>1, OrderTypes DEF Ranges, Statuses
<1>2. CASE UNCHANGED <<statusVars, paidBack>>
  BY <1>2 DEF Ranges, Statuses, statusVars
<1> QED
  BY <1>1, <1>2 DEF RefundCustomer

\* Every step keeps the ranges.
LEMMA RangesInductive == case \in Cases /\ Ranges /\ [Next]_vars => Ranges'
<1> SUFFICES ASSUME case \in Cases, Ranges, [Next]_vars PROVE Ranges'
  OBVIOUS
<1> USE BoundsAssumption
    DEF Ranges, ownerVars, moneyVars, providerVars, statusVars, customerVars, otherVars, Goto,
        SetOrder, SetSource, Closed
<1>1. ASSUME NEW o \in Orders, KeyOrder(o) PROVE Ranges'
  <2>1. <<o, 1>> \in Rows
    BY DEF Rows
  <2> QED
    BY <1>1, <2>1 DEF KeyOrder
<1>2. ASSUME NEW o \in Orders, Start(o) PROVE Ranges'
  <2>1. case[o].most \in 0 .. MaxRuns
    OBVIOUS
  <2>2. runs[o] + 1 \in 1 .. MaxRuns
    BY <1>2, <2>1 DEF Start
  <2>3. <<o, runs[o] + 1>> \in Rows
    BY <2>2 DEF Rows
  <2> QED
    BY <1>2, <2>2, <2>3 DEF Start
<1>3. ASSUME NEW o \in Orders, Decide(o) PROVE Ranges'
  BY <1>3 DEF Decide
<1>4. ASSUME NEW o \in Orders, Cascade(o) PROVE Ranges'
  <2>1. source' \in [Rows -> {"NONE", "PENDING", "PARKED"} \union Closed]
    BY <1>4 DEF Cascade
  <2> QED
    BY <1>4, <2>1 DEF Cascade
<1>5. ASSUME NEW o \in Orders, CompleteByHand(o) PROVE Ranges'
  <2>1. Debit(o) \/ UNCHANGED <<balance, debits>>
    BY <1>5 DEF CompleteByHand
  <2>2. balance' \in Int /\ debits' \in [Orders -> Nat]
    BY <2>1, DebitTypes
  <2>3. order' \in [Orders -> Statuses] /\ handed' \subseteq Orders
    BY <1>5, OrderTypes DEF CompleteByHand, Statuses
  <2> QED
    BY <1>5, <2>2, <2>3 DEF CompleteByHand, Statuses
<1>6. ASSUME NEW o \in Orders, CancelRead(o) \/ CancelWrite(o) PROVE Ranges'
  BY <1>6 DEF CancelRead, CancelWrite
<1>7. ASSUME NEW o \in Orders, ReconList(o) \/ PollList(o) PROVE Ranges'
  <2>1. Poll \in Poll .. MaxRuns /\ link[o] \in Poll .. MaxRuns
    BY DEF Poll
  <2>2. recon' \in [Orders -> Poll .. MaxRuns]
    BY <1>7, <2>1 DEF ReconList, PollList
  <2> QED
    BY <1>7, <2>2 DEF ReconList, PollList
<1>8. ASSUME NEW o \in Orders, ReconWrite(o) PROVE Ranges'
  <2>1. Idle \in Poll .. MaxRuns
    BY DEF Poll, Idle
  <2>2. recon' \in [Orders -> Poll .. MaxRuns]
    BY <1>8, <2>1 DEF ReconWrite
  <2>3. \/ SetOrder(o, "DELIVERED") \/ SetOrder(o, "FAILED") \/ UNCHANGED statusVars
    BY <1>8 DEF ReconWrite
  <2>4. order' \in [Orders -> Statuses] /\ handed' \subseteq Orders
    BY <2>3, OrderTypes DEF Statuses
  <2> QED
    BY <1>8, <2>2, <2>4 DEF ReconWrite, Statuses
<1>9. ASSUME NEW o \in Orders, PollWrite(o) PROVE Ranges'
  <2>1. Idle \in Poll .. MaxRuns
    BY DEF Poll, Idle
  <2>2. recon' \in [Orders -> Poll .. MaxRuns]
    BY <1>9, <2>1 DEF PollWrite
  <2>3. \/ SetOrder(o, "DELIVERED") /\ UNCHANGED paidBack
        \/ RefundCustomer(o) \/ UNCHANGED <<statusVars, paidBack>>
    BY <1>9 DEF PollWrite
  <2>4. order' \in [Orders -> Statuses] /\ handed' \subseteq Orders /\ paidBack' \subseteq Orders
    BY <2>3, OrderTypes, RefundTypes DEF Statuses
  <2> QED
    BY <1>9, <2>2, <2>4 DEF PollWrite, Statuses
<1>10. ASSUME NEW r \in Rows, Buy(r) PROVE Ranges'
  <2>1. r[1] \in Orders
    BY RowParts
  <2>2. bought' \in [Orders -> Nat]
    BY <1>10, <2>1 DEF Buy, Buys
  <2>3. verdict' \in [Orders -> {"none", "open", "delivered", "failed", "cancelled"}]
    BY <1>10, <2>1 DEF Buy
  <2>4. \E l \in {"bought", "failed", "bare", "pending"} : pc' = [pc EXCEPT ![r] = l]
    BY <1>10 DEF Buy
  <2> QED
    BY <1>10, <2>2, <2>3, <2>4 DEF Buy
<1>11. ASSUME NEW r \in Rows, KeyLook(r) \/ KeyDeliver(r) PROVE Ranges'
  <2>1. CASE KeyLook(r)
    BY <2>1 DEF KeyLook
  <2>2. CASE KeyDeliver(r)
    <3>1. source' \in [Rows -> {"NONE", "PENDING", "PARKED"} \union Closed]
      BY <2>2 DEF KeyDeliver
    <3>2. stock' \in Nat
      BY <2>2 DEF KeyDeliver
    <3>3. \E l \in {"done", "failed", "park"} : pc' = [pc EXCEPT ![r] = l]
      BY <2>2 DEF KeyDeliver
    <3> QED
      BY <2>2, <3>1, <3>2, <3>3 DEF KeyDeliver
  <2> QED
    BY <1>11, <2>1, <2>2
<1>12. ASSUME NEW r \in Rows, KeyBought(r) \/ KeyPark(r) PROVE Ranges'
  BY <1>12 DEF KeyBought, KeyPark
<1>13. ASSUME NEW r \in Rows, KeyFail(r) PROVE Ranges'
  BY <1>13, FailTypes DEF KeyFail
<1>14. ASSUME NEW r \in Rows, Look(r) PROVE Ranges'
  BY <1>14 DEF Look
<1>15. ASSUME NEW r \in Rows, Deliver(r) PROVE Ranges'
  <2>1. r[1] \in Orders /\ r[2] \in 0 .. MaxRuns
    BY RowParts
  <2>2. SetOrder(r[1], "DELIVERED") \/ UNCHANGED statusVars
    BY <1>15 DEF Deliver
  <2>3. order' \in [Orders -> Statuses] /\ handed' \subseteq Orders
    BY <2>1, <2>2, OrderTypes DEF Statuses
  <2>4. stock' \in Nat
    BY <1>15 DEF Deliver
  <2>5. /\ source' \in [Rows -> {"NONE", "PENDING", "PARKED"} \union Closed]
        /\ link' \in [Orders -> 0 .. MaxRuns]
    BY <1>15, <2>1 DEF Deliver
  <2>6. \E l \in {"debit", "failed"} : pc' = [pc EXCEPT ![r] = l]
    BY <1>15 DEF Deliver
  <2> QED
    BY <1>15, <2>3, <2>4, <2>5, <2>6 DEF Deliver, Statuses
<1>16. ASSUME NEW r \in Rows, Bring(r) PROVE Ranges'
  <2>1. r[1] \in Orders /\ r[2] \in 0 .. MaxRuns
    BY RowParts
  <2>2. order' \in [Orders -> Statuses] /\ handed' \subseteq Orders
    BY <1>16, <2>1, OrderTypes DEF Bring, Statuses
  <2>3. /\ source' \in [Rows -> {"NONE", "PENDING", "PARKED"} \union Closed]
        /\ link' \in [Orders -> 0 .. MaxRuns]
    BY <1>16, <2>1 DEF Bring
  <2>4. \E l \in {"debit", "done"} : pc' = [pc EXCEPT ![r] = l]
    BY <1>16 DEF Bring
  <2> QED
    BY <1>16, <2>2, <2>3, <2>4 DEF Bring, Statuses
<1>17. ASSUME NEW r \in Rows, Wait(r) PROVE Ranges'
  <2>1. r[1] \in Orders /\ r[2] \in 0 .. MaxRuns
    BY RowParts
  <2>2. order' \in [Orders -> Statuses] /\ handed' \subseteq Orders
    BY <1>17, <2>1, OrderTypes DEF Wait, Statuses
  <2>3. /\ source' \in [Rows -> {"NONE", "PENDING", "PARKED"} \union Closed]
        /\ link' \in [Orders -> 0 .. MaxRuns]
    BY <1>17, <2>1 DEF Wait
  <2>4. \E l \in {"debit", "done"} : pc' = [pc EXCEPT ![r] = l]
    BY <1>17 DEF Wait
  <2> QED
    BY <1>17, <2>2, <2>3, <2>4 DEF Wait, Statuses
<1>18. ASSUME NEW r \in Rows, DebitStep(r) PROVE Ranges'
  <2>1. r[1] \in Orders /\ (Debit(r[1]) \/ UNCHANGED <<balance, debits>>)
    BY <1>18, RowParts DEF DebitStep
  <2>2. balance' \in Int /\ debits' \in [Orders -> Nat]
    BY <2>1, DebitTypes
  <2> QED
    BY <1>18, <2>2 DEF DebitStep
<1>19. ASSUME NEW r \in Rows, GiveBack(r) PROVE Ranges'
  <2>1. order' \in [Orders -> Statuses] /\ handed' \subseteq Orders /\ paidBack' \subseteq Orders
    BY <1>19, RowParts, RefundTypes DEF GiveBack
  <2> QED
    BY <1>19, <2>1 DEF GiveBack, Statuses
<1>20. ASSUME NEW r \in Rows, Crash(r) PROVE Ranges'
  BY <1>20 DEF Crash
<1>21. ASSUME NEW r \in Rows, OwnerDeliverRead(r) \/ OwnerDeliverWrite(r) PROVE Ranges'
  BY <1>21 DEF OwnerDeliverRead, OwnerDeliverWrite
<1>22. ASSUME NEW r \in Rows, NEW c \in 1 .. MaxCalls, MarkFailedRead(r, c) PROVE Ranges'
  BY <1>22 DEF MarkFailedRead
<1>23. ASSUME NEW r \in Rows, NEW c \in 1 .. MaxCalls, MarkFailedWrite(r, c) PROVE Ranges'
  BY <1>23, FailTypes DEF MarkFailedWrite
<1>24. CASE UNCHANGED vars
  BY <1>24 DEF vars
<1>25. ASSUME NEW r \in Rows, FailBare(r) PROVE Ranges'
  <2>1. order' \in [Orders -> Statuses] /\ handed' \subseteq Orders
    BY <1>25, RowParts, OrderTypes DEF FailBare, Statuses
  <2> QED
    BY <1>25, <2>1 DEF FailBare, Statuses
<1> HIDE DEF Ranges
<1> QED
  BY <1>1, <1>2, <1>3, <1>4, <1>5, <1>6, <1>7, <1>8, <1>9, <1>10, <1>11, <1>12, <1>13, <1>14, <1>15,
     <1>16, <1>17, <1>18, <1>19, <1>20, <1>21, <1>22, <1>23, <1>24, <1>25 DEF Next

\* Every reachable state of purchases, source orders and reconcilers is well typed.
THEOREM TypeCorrect == Spec => []TypeOK
<1>1. Init => case \in Cases /\ Ranges
  BY BoundsAssumption DEF Init, Ranges, Idle, Poll
<1>2. (case \in Cases /\ Ranges) /\ [Next]_vars => (case \in Cases /\ Ranges)'
  BY CaseStays, RangesInductive
<1>3. Init => calm \in BOOLEAN
  BY DEF Init
<1>4. calm \in BOOLEAN /\ [Next]_vars => (calm \in BOOLEAN)'
  BY CaseStays
<1>5. case \in Cases /\ Ranges /\ calm \in BOOLEAN => TypeOK
  BY DEF Ranges, TypeOK
<1> QED
  BY <1>1, <1>2, <1>3, <1>4, <1>5, PTL DEF Spec

-----------------------------------------------------------------------------
\* A row's run has not begun, or is one of the order's.
Unstarted == \A r \in Rows : r[2] > runs[r[1]] => pc[r] = "idle"

\* While all is calm, an order's runs follow one another, each after the last has died; one
\* that has bought and left its order waiting has ended for good; and only orders whose goods
\* come from a provider are bought.
RunsInv(o) ==
    /\ \A n \in 1 .. MaxRuns : n < runs[o] => pc[<<o, n>>] = "dead"
    /\ order[o] = "WAITING" /\ (Who(o) = "direct" \/ External(o)) =>
          runs[o] >= 1 /\ pc[<<o, runs[o]>>] = "done"

\* Which runs buy and which leave the goods to the source's owner.
WaysInv(r) ==
    /\ pc[r] = "buy" => Who(r[1]) = "direct" \/ External(r[1])
    /\ pc[r] = "park" /\ Who(r[1]) \in {"shop", "direct"} => Who(r[1]) = "shop" /\ ~External(r[1])

\* How far a row is and what it says: the request or job that makes it has it for itself,
\* and so has each call of the owner that was let in.
RowInv(r) ==
    /\ pc[r] = "idle" => source[r] = "NONE"
    /\ Who(r[1]) \in {"key", "bound"} /\ ~Ended(r) => source[r] = "PENDING"
    /\ Who(r[1]) \in {"shop", "direct"} /\ pc[r] \notin {"debit", "done", "dead"} => source[r] = "NONE"
    /\ r \in delivering => Ended(r) /\ pc[r] # "idle" /\ refunded[r] = 0
    /\ \A c \in 1 .. MaxCalls :
          <<r, c>> \in failing => Ended(r) /\ pc[r] # "idle" /\ r \notin delivering

\* What a row says and how often it was refunded.
RefundInv(r) ==
    /\ source[r] \in {"NONE", "PENDING", "PARKED", "DELIVERED"} => refunded[r] = 0
    /\ source[r] = "FAILED" => refunded[r] = 1
    /\ source[r] = "CANCELED" => refunded[r] <= 1

\* An order whose first run has neither delivered, nor parked, nor given back.
FreshInv(o) ==
    pc[<<o, 1>>] \notin {"debit", "done", "dead"} =>
        /\ order[o] = "PROCESSING" /\ link[o] = Idle /\ recon[o] = Idle
        /\ o \notin handed /\ o \notin paidBack /\ o \notin cancelling
        /\ pc[<<o, 1>>] # "pending" => verdict[o] = "none"

\* Money back means that no source order and no purchase can bring the goods any more, and
\* goods from a provider that nothing can take them for missing.
GoodsInv(o) ==
    /\ o \in paidBack =>
          /\ link[o] = Idle /\ verdict[o] \in {"none", "failed"}
          /\ order[o] \in {"REFUNDED", "FAILED"} /\ o \notin handed
    /\ Who(o) = "direct" /\ o \in handed =>
          verdict[o] = "delivered" \/ (order[o] = "DELIVERED" /\ o \notin cancelling)

\* The reconcilers list source orders, or direct ones to ask the provider; a direct order
\* has no source order.
ReconInv ==
    /\ \A o \in Orders :
          /\ recon[o] > 0 => link[o] # Idle
          /\ recon[o] = Poll => Who(o) = "direct"
          /\ Who(o) = "direct" => link[o] = Idle
    /\ \A r \in Rows : pc[r] = "park" => Who(r[1]) # "direct"

-----------------------------------------------------------------------------
\* The types and the case, in every reachable state.
LEMMA RangesInvariant == Spec => [](case \in Cases /\ Ranges)
<1>1. Init => case \in Cases /\ Ranges
  BY BoundsAssumption DEF Init, Ranges, Idle, Poll
<1>2. (case \in Cases /\ Ranges) /\ [Next]_vars => (case \in Cases /\ Ranges)'
  BY CaseStays, RangesInductive
<1> QED
  BY <1>1, <1>2, PTL DEF Spec

\* createOrderByKey, safeDebitConnectionBalance and the seller's completion by hand all look
\* for the order's debit under the wallet's lock: any number of runs of its job and any
\* number of clicks debit the buyer once.
THEOREM PaidForOnce == Spec => []DebitOnce
<1>1. Init => DebitOnce
  BY DEF Init, DebitOnce
<1>2. Ranges /\ DebitOnce /\ [Next]_vars => DebitOnce'
  <2> SUFFICES ASSUME Ranges, DebitOnce, [Next]_vars PROVE DebitOnce'
    OBVIOUS
  <2> USE DEF ownerVars, moneyVars, providerVars, statusVars, customerVars, otherVars
  <2>1. ASSUME NEW o \in Orders, Debit(o) \/ UNCHANGED debits PROVE DebitOnce'
    BY <2>1 DEF Debit, DebitOnce, Ranges
  <2>2. ASSUME NEW o \in Orders, KeyOrder(o) PROVE DebitOnce'
    BY <2>2 DEF KeyOrder, DebitOnce, Ranges
  <2>3. ASSUME NEW o \in Orders, CompleteByHand(o) PROVE DebitOnce'
    BY <2>1, <2>3 DEF CompleteByHand
  <2>4. ASSUME NEW r \in Rows, DebitStep(r) PROVE DebitOnce'
    BY <2>1, <2>4, RowParts DEF DebitStep
  <2>5. ASSUME NEW o \in Orders,
               \/ Start(o) \/ Decide(o) \/ Cascade(o) \/ CancelRead(o) \/ CancelWrite(o)
               \/ ReconList(o) \/ ReconWrite(o) \/ PollList(o) \/ PollWrite(o)
        PROVE  DebitOnce'
    <3>1. UNCHANGED debits
      BY <2>5 DEF Start, Decide, Cascade, CancelRead, CancelWrite, ReconList, ReconWrite, PollList,
                  PollWrite
    <3> QED
      BY <2>1, <3>1
  <2>6. ASSUME NEW r \in Rows,
               \/ Buy(r) \/ KeyLook(r) \/ KeyDeliver(r) \/ KeyBought(r) \/ KeyPark(r) \/ KeyFail(r)
               \/ Look(r) \/ Deliver(r) \/ Bring(r) \/ Wait(r) \/ FailBare(r) \/ GiveBack(r)
               \/ Crash(r) \/ OwnerDeliverRead(r) \/ OwnerDeliverWrite(r)
        PROVE  DebitOnce'
    <3>1. UNCHANGED debits
      BY <2>6 DEF Buy, KeyLook, KeyDeliver, KeyBought, KeyPark, KeyFail, Look, Deliver, Bring, Wait,
                  FailBare, GiveBack, Crash, OwnerDeliverRead, OwnerDeliverWrite
    <3> QED
      BY <3>1 DEF DebitOnce
  <2>7. ASSUME NEW r \in Rows, NEW c, MarkFailedRead(r, c) \/ MarkFailedWrite(r, c) PROVE DebitOnce'
    BY <2>7 DEF MarkFailedRead, MarkFailedWrite, DebitOnce
  <2>8. CASE UNCHANGED vars
    BY <2>8 DEF vars, DebitOnce
  <2> QED
    BY <2>2, <2>3, <2>4, <2>5, <2>6, <2>7, <2>8 DEF Next
<1> QED
  BY <1>1, <1>2, RangesInvariant, PTL DEF Spec

-----------------------------------------------------------------------------
\* The run that begins is the next of its order; while all is calm, the one before has died.
LEMMA NextRun ==
    ASSUME case \in Cases, Ranges, NEW o \in Orders, KeyOrder(o) \/ Start(o)
    PROVE  /\ runs[o] \in 0 .. MaxRuns /\ runs[o] + 1 \in 1 .. MaxRuns
           /\ runs' = [runs EXCEPT ![o] = runs[o] + 1]
           /\ pc' = [pc EXCEPT ![<<o, runs[o] + 1>>] = "look"]
           /\ calm /\ runs[o] >= 1 => pc[<<o, runs[o]>>] = "dead"
<1>1. case[o].most \in 0 .. MaxRuns /\ runs[o] \in 0 .. MaxRuns
  BY BoundsAssumption DEF Ranges
<1>2. CASE KeyOrder(o)
  <2>1. runs[o] = 0 /\ runs[o] + 1 = 1 /\ 1 \in 1 .. MaxRuns
    BY <1>2, BoundsAssumption DEF KeyOrder
  <2> QED
    BY <1>1, <1>2, <2>1 DEF KeyOrder, Goto
<1>3. CASE Start(o)
  <2>1. runs[o] + 1 \in 1 .. MaxRuns
    BY <1>1, <1>3, BoundsAssumption DEF Start
  <2>2. (runs[o] + 1) - 1 = runs[o] /\ (runs[o] >= 1 => runs[o] + 1 > 1)
    BY <1>1, BoundsAssumption
  <2>3. calm /\ runs[o] + 1 > 1 => pc[<<o, (runs[o] + 1) - 1>>] = "dead"
    BY <1>3 DEF Start
  <2>4. runs' = [runs EXCEPT ![o] = runs[o] + 1] /\ pc' = [pc EXCEPT ![<<o, runs[o] + 1>>] = "look"]
    BY <1>3 DEF Start, Goto
  <2> QED
    BY <1>1, <2>1, <2>2, <2>3, <2>4
<1> QED
  BY <1>2, <1>3

\* Every step keeps the rows of runs that have not begun.
LEMMA UnstartedInductive == case \in Cases /\ Ranges /\ Unstarted /\ [Next]_vars => Unstarted'
<1> SUFFICES ASSUME case \in Cases, Ranges, Unstarted, [Next]_vars PROVE Unstarted'
  OBVIOUS
<1> USE DEF ownerVars, moneyVars, providerVars, statusVars, customerVars, otherVars, Goto
<1>1. ASSUME NEW o \in Orders, KeyOrder(o) \/ Start(o) PROVE Unstarted'
  <2>1. PICK r \in Rows : /\ r[1] = o /\ r[2] = runs[o] + 1 /\ runs[o] \in 0 .. MaxRuns
                          /\ runs' = [runs EXCEPT ![o] = r[2]] /\ pc' = [pc EXCEPT ![r] = "look"]
    BY <1>1, NextRun DEF Rows
  <2>2. ASSUME NEW q \in Rows, q[2] > runs'[q[1]] PROVE pc'[q] = "idle"
    <3>1. q[1] \in Orders /\ q[2] \in 1 .. MaxRuns /\ q = <<q[1], q[2]>> /\ runs[q[1]] \in 0 .. MaxRuns
      BY RowParts DEF Ranges
    <3>2. q[2] > runs[q[1]] /\ q # r
      BY <2>1, <2>2, <3>1, BoundsAssumption DEF Ranges
    <3> QED
      BY <2>1, <3>2 DEF Unstarted, Ranges
  <2> QED
    BY <2>2 DEF Unstarted
<1>2. ASSUME NEW r \in Rows, NEW l, pc' = [pc EXCEPT ![r] = l], pc[r] # "idle", runs' = runs
      PROVE  Unstarted'
  BY <1>2 DEF Unstarted, Ranges
<1>3. ASSUME NEW r \in Rows,
             \/ Buy(r) \/ KeyLook(r) \/ KeyDeliver(r) \/ KeyBought(r) \/ KeyPark(r) \/ KeyFail(r)
             \/ Look(r) \/ Deliver(r) \/ Bring(r) \/ Wait(r) \/ FailBare(r) \/ DebitStep(r)
             \/ GiveBack(r) \/ Crash(r)
      PROVE  Unstarted'
  <2>1. pc[r] # "idle" /\ runs' = runs /\ \E l : pc' = [pc EXCEPT ![r] = l]
    BY <1>3 DEF Buy, KeyLook, KeyDeliver, KeyBought, KeyPark, KeyFail, Look, Deliver, Bring, Wait,
                FailBare, DebitStep, GiveBack, Crash, Ended
  <2> QED
    BY <1>2, <2>1
<1>4. CASE UNCHANGED <<pc, runs>>
  BY <1>4 DEF Unstarted
<1>5. ASSUME NEW o \in Orders,
             \/ Decide(o) \/ Cascade(o) \/ CompleteByHand(o) \/ CancelRead(o) \/ CancelWrite(o)
             \/ ReconList(o) \/ ReconWrite(o) \/ PollList(o) \/ PollWrite(o)
      PROVE  UNCHANGED <<pc, runs>>
  BY <1>5 DEF Decide, Cascade, CompleteByHand, CancelRead, CancelWrite, ReconList, ReconWrite,
              PollList, PollWrite
<1>6. ASSUME NEW r \in Rows, NEW c,
             \/ OwnerDeliverRead(r) \/ OwnerDeliverWrite(r)
             \/ MarkFailedRead(r, c) \/ MarkFailedWrite(r, c)
      PROVE  UNCHANGED <<pc, runs>>
  BY <1>6 DEF OwnerDeliverRead, OwnerDeliverWrite, MarkFailedRead, MarkFailedWrite
<1>7. CASE UNCHANGED vars
  BY <1>4, <1>7 DEF vars
<1> QED
  BY <1>1, <1>3, <1>4, <1>5, <1>6, <1>7 DEF Next

\* The rows of runs that have not begun, in every reachable state.
LEMMA UnstartedInvariant == Spec => []Unstarted
<1>1. Init => Unstarted
  BY RowParts DEF Init, Unstarted
<1> QED
  BY <1>1, UnstartedInductive, RangesInvariant, PTL DEF Spec

\* The ways runs go follow from the order's kind.
LEMMA WaysInductive ==
    ASSUME case \in Cases, Ranges, [Next]_vars, \A r \in Rows : WaysInv(r)
    PROVE  \A r \in Rows : WaysInv(r)'
<1> USE DEF ownerVars, moneyVars, providerVars, statusVars, customerVars, otherVars, Goto
<1>1. \A o \in Orders : Who(o)' = Who(o) /\ External(o)' = External(o)
  BY CaseStays DEF Who, External, Goods
<1>2. ASSUME NEW r \in Rows, NEW l, pc' = [pc EXCEPT ![r] = l],
             l = "buy" => Who(r[1]) = "direct" \/ External(r[1]),
             l = "park" /\ Who(r[1]) \in {"shop", "direct"} => Who(r[1]) = "shop" /\ ~External(r[1])
      PROVE  \A q \in Rows : WaysInv(q)'
  <2> SUFFICES ASSUME NEW q \in Rows PROVE WaysInv(q)'
    OBVIOUS
  <2>1. q[1] \in Orders /\ (q = r => pc'[q] = l) /\ (q # r => pc'[q] = pc[q])
    BY <1>2, RowParts DEF Ranges
  <2> QED
    BY <1>1, <1>2, <2>1 DEF WaysInv
<1>3. ASSUME pc' = pc PROVE \A q \in Rows : WaysInv(q)'
  <2> SUFFICES ASSUME NEW q \in Rows PROVE WaysInv(q)'
    OBVIOUS
  <2> QED
    BY <1>1, <1>3, RowParts DEF WaysInv
<1>4. ASSUME NEW o \in Orders, KeyOrder(o) \/ Start(o) PROVE \A q \in Rows : WaysInv(q)'
  <2>1. PICK r \in Rows : pc' = [pc EXCEPT ![r] = "look"]
    BY <1>4, NextRun DEF Rows
  <2> QED
    BY <1>2, <2>1
<1>5. ASSUME NEW r \in Rows, Look(r) \/ KeyLook(r) PROVE \A q \in Rows : WaysInv(q)'
  <2>1. PICK l : /\ pc' = [pc EXCEPT ![r] = l]
                 /\ l = "buy" => Who(r[1]) = "direct" \/ External(r[1])
                 /\ l = "park" /\ Who(r[1]) \in {"shop", "direct"} => Who(r[1]) = "shop" /\ ~External(r[1])
    <3>1. CASE KeyLook(r)
      BY <3>1 DEF KeyLook
    <3>2. CASE Look(r)
      BY <3>2 DEF Look
    <3> QED
      BY <1>5, <3>1, <3>2
  <2> QED
    BY <1>2, <2>1
<1>6. ASSUME NEW r \in Rows,
             \/ Buy(r) \/ KeyDeliver(r) \/ KeyBought(r) \/ KeyPark(r) \/ KeyFail(r)
             \/ Deliver(r) \/ Bring(r) \/ Wait(r) \/ FailBare(r) \/ DebitStep(r) \/ GiveBack(r) \/ Crash(r)
      PROVE  \A q \in Rows : WaysInv(q)'
  <2>1. \E l : /\ pc' = [pc EXCEPT ![r] = l] /\ l # "buy"
               /\ l = "park" => Who(r[1]) \in {"key", "bound"}
    BY <1>6 DEF Buy, KeyDeliver, KeyBought, KeyPark, KeyFail, Deliver, Bring, Wait, FailBare, DebitStep,
                GiveBack, Crash
  <2> QED
    BY <1>2, <2>1
<1>7. ASSUME NEW o \in Orders,
             \/ Decide(o) \/ Cascade(o) \/ CompleteByHand(o) \/ CancelRead(o) \/ CancelWrite(o)
             \/ ReconList(o) \/ ReconWrite(o) \/ PollList(o) \/ PollWrite(o)
      PROVE  pc' = pc
  BY <1>7 DEF Decide, Cascade, CompleteByHand, CancelRead, CancelWrite, ReconList, ReconWrite,
              PollList, PollWrite
<1>8. ASSUME NEW r \in Rows, NEW c,
             \/ OwnerDeliverRead(r) \/ OwnerDeliverWrite(r)
             \/ MarkFailedRead(r, c) \/ MarkFailedWrite(r, c)
      PROVE  pc' = pc
  BY <1>8 DEF OwnerDeliverRead, OwnerDeliverWrite, MarkFailedRead, MarkFailedWrite
<1>9. CASE UNCHANGED vars
  BY <1>3, <1>9 DEF vars
<1> QED
  BY <1>3, <1>4, <1>5, <1>6, <1>7, <1>8, <1>9 DEF Next

\* All orders and their runs.
AllRuns == (\A r \in Rows : WaysInv(r)) /\ (\A o \in Orders : RunsInv(o))

\* A run under way, or one that has ended well, is the latest of its order.
LEMMA LatestRun ==
    ASSUME Ranges, Unstarted, AllRuns, NEW r \in Rows, pc[r] \notin {"idle", "dead"}
    PROVE  r[2] = runs[r[1]]
<1>1. r[1] \in Orders /\ r[2] \in 1 .. MaxRuns /\ r = <<r[1], r[2]>> /\ runs[r[1]] \in 0 .. MaxRuns
  BY RowParts DEF Ranges
<1>2. ~(r[2] > runs[r[1]])
  BY DEF Unstarted
<1>3. ~(r[2] < runs[r[1]])
  <2>1. r[2] < runs[r[1]] => pc[<<r[1], r[2]>>] = "dead"
    BY <1>1 DEF AllRuns, RunsInv
  <2> QED
    BY <1>1, <2>1
<1> QED
  BY <1>1, <1>2, <1>3, BoundsAssumption

\* An order that a step leaves alone keeps the sequence of its runs.
LEMMA RunsSame ==
    ASSUME case' = case, NEW o \in Orders, RunsInv(o), runs'[o] = runs[o],
           order'[o] = "WAITING" => order[o] = "WAITING",
           \A n \in 1 .. MaxRuns : pc'[<<o, n>>] = pc[<<o, n>>], runs[o] \in 0 .. MaxRuns
    PROVE  RunsInv(o)'
<1>1. Who(o)' = Who(o) /\ External(o)' = External(o)
  BY DEF Who, External, Goods
<1>2. runs[o] >= 1 => pc'[<<o, runs[o]>>] = pc[<<o, runs[o]>>]
  BY BoundsAssumption
<1> QED
  BY <1>1, <1>2 DEF RunsInv

\* While all is calm, runs follow one another, and none follows one that left the order
\* waiting for a purchase.
LEMMA RunsInductive ==
    ASSUME case \in Cases, Ranges, Unstarted, calm, AllRuns, [Next]_vars
    PROVE  AllRuns'
<1> USE DEF ownerVars, moneyVars, providerVars, statusVars, customerVars, otherVars, Goto
<1>1. case' = case /\ \A o \in Orders : Who(o)' = Who(o) /\ External(o)' = External(o)
  BY CaseStays DEF Who, External, Goods
<1>2. \A r \in Rows : WaysInv(r)'
  BY WaysInductive DEF AllRuns
<1>3. \A o \in Orders : runs[o] \in 0 .. MaxRuns /\ \A n \in 1 .. MaxRuns : <<o, n>> \in Rows
  BY DEF Ranges, Rows
<1>4. ASSUME NEW o \in Orders, KeyOrder(o) \/ Start(o) PROVE AllRuns'
  <2>1. PICK r \in Rows : /\ r[1] = o /\ r[2] = runs[o] + 1 /\ r[2] \in 1 .. MaxRuns
                          /\ runs' = [runs EXCEPT ![o] = r[2]] /\ pc' = [pc EXCEPT ![r] = "look"]
    BY <1>4, NextRun DEF Rows
  <2>2. order' = order
    BY <1>4 DEF KeyOrder, Start
  <2>3. ASSUME NEW p \in Orders, p # o PROVE RunsInv(p)'
    <3>1. \A m \in 1 .. MaxRuns : pc'[<<p, m>>] = pc[<<p, m>>]
      BY <1>3, <2>1, <2>3 DEF Ranges
    <3>2. runs'[p] = runs[p] /\ RunsInv(p)
      BY <2>1, <2>3 DEF Ranges, AllRuns
    <3> QED
      BY <1>1, <1>3, <2>2, <3>1, <3>2, RunsSame
  <2>4. RunsInv(o)'
    <3>1. runs'[o] = r[2] /\ RunsInv(o)
      BY <2>1 DEF Ranges, AllRuns
    <3>2. runs[o] >= 1 => pc[<<o, runs[o]>>] = "dead"
      BY <1>4, NextRun
    <3>3. ASSUME NEW m \in 1 .. MaxRuns, m < r[2] PROVE pc'[<<o, m>>] = "dead"
      <4>1. pc'[<<o, m>>] = pc[<<o, m>>]
        BY <1>3, <2>1, <3>3 DEF Ranges
      <4>2. m = runs[o] \/ m < runs[o]
        BY <1>3, <2>1, <3>3, BoundsAssumption
      <4>3. m < runs[o] => pc[<<o, m>>] = "dead"
        BY <3>1 DEF RunsInv
      <4>4. m >= 1
        BY BoundsAssumption
      <4> QED
        BY <3>2, <4>1, <4>2, <4>3, <4>4
    <3>4. ~(order[o] = "WAITING" /\ (Who(o) = "direct" \/ External(o)))
      <4> SUFFICES ASSUME order[o] = "WAITING", Who(o) = "direct" \/ External(o) PROVE FALSE
        OBVIOUS
      <4>1. runs[o] >= 1 /\ pc[<<o, runs[o]>>] = "done"
        BY <3>1 DEF RunsInv
      <4> QED
        BY <3>2, <4>1
    <3> QED
      BY <1>1, <2>2, <3>1, <3>3, <3>4 DEF RunsInv
  <2> QED
    BY <1>2, <2>3, <2>4 DEF AllRuns
\* A step of the latest run: only it moves, and it may leave its order waiting.
<1>5. ASSUME NEW r \in Rows, NEW l, pc' = [pc EXCEPT ![r] = l], pc[r] \notin {"idle", "dead", "done"},
             runs' = runs, \A p \in Orders \ {r[1]} : order'[p] = order[p],
             order'[r[1]] = "WAITING" /\ (Who(r[1]) = "direct" \/ External(r[1])) =>
                 order[r[1]] = "WAITING" \/ l = "done"
      PROVE  AllRuns'
  <2> DEFINE o == r[1]
  <2>1. o \in Orders /\ r[2] \in 1 .. MaxRuns /\ r = <<o, r[2]>> /\ r[2] = runs[o]
    BY <1>5, RowParts, LatestRun
  <2>2. ASSUME NEW p \in Orders, p # o PROVE RunsInv(p)'
    <3>1. \A m \in 1 .. MaxRuns : pc'[<<p, m>>] = pc[<<p, m>>]
      BY <1>3, <1>5, <2>1, <2>2 DEF Ranges
    <3>2. runs'[p] = runs[p] /\ RunsInv(p) /\ order'[p] = order[p]
      BY <1>5, <2>2 DEF AllRuns
    <3> QED
      BY <1>1, <1>3, <3>1, <3>2, RunsSame
  <2>3. RunsInv(o)
    BY <2>1 DEF AllRuns
  <2>4. pc'[<<o, runs[o]>>] = l /\ pc[<<o, runs[o]>>] \notin {"idle", "dead", "done"}
    BY <1>5, <2>1 DEF Ranges
  <2>5. \A m \in 1 .. MaxRuns : m < runs[o] => pc'[<<o, m>>] = pc[<<o, m>>]
    BY <1>3, <1>5, <2>1, BoundsAssumption DEF Ranges
  <2>6. order'[o] = "WAITING" /\ (Who(o) = "direct" \/ External(o)) => runs[o] >= 1 /\ l = "done"
    BY <1>3, <1>5, <2>1, <2>3, <2>4, BoundsAssumption DEF RunsInv
  <2>7. RunsInv(o)'
    BY <1>1, <1>5, <2>1, <2>3, <2>4, <2>5, <2>6 DEF RunsInv
  <2> QED
    BY <1>2, <2>2, <2>7 DEF AllRuns
<1>6. ASSUME NEW r \in Rows,
             \/ Buy(r) \/ KeyLook(r) \/ KeyDeliver(r) \/ KeyBought(r) \/ KeyPark(r) \/ KeyFail(r)
             \/ Look(r) \/ DebitStep(r) \/ Crash(r)
      PROVE  AllRuns'
  <2>1. /\ pc[r] \notin {"idle", "dead", "done"} /\ runs' = runs /\ order' = order
        /\ \E l : pc' = [pc EXCEPT ![r] = l]
    BY <1>6 DEF Buy, KeyLook, KeyDeliver, KeyBought, KeyPark, KeyFail, Look, DebitStep, Crash, Ended
  <2> QED
    BY <1>5, <2>1
<1>7. ASSUME NEW r \in Rows, Deliver(r) \/ Bring(r) \/ FailBare(r) \/ GiveBack(r) PROVE AllRuns'
  <2>1. /\ pc[r] \in {"deliver", "bought", "bare", "failed"} /\ runs' = runs
        /\ \E l : pc' = [pc EXCEPT ![r] = l]
    BY <1>7 DEF Deliver, Bring, FailBare, GiveBack
  <2>2. \/ SetOrder(r[1], "DELIVERED") \/ SetOrder(r[1], "FAILED") \/ SetOrder(r[1], "REFUNDED")
        \/ order' = order
    BY <1>7 DEF Deliver, Bring, FailBare, GiveBack, RefundCustomer
  <2>3. /\ \A p \in Orders \ {r[1]} : order'[p] = order[p]
        /\ order'[r[1]] = "WAITING" => order[r[1]] = "WAITING"
    BY <2>2, RowParts DEF SetOrder, Ranges
  <2> QED
    BY <1>5, <2>1, <2>3
<1>8. ASSUME NEW r \in Rows, Wait(r) PROVE AllRuns'
  <2>1. /\ Who(r[1]) \in {"shop", "direct"} /\ runs' = runs /\ pc[r] \in {"pending", "park"}
        /\ \A p \in Orders \ {r[1]} : order'[p] = order[p]
    BY <1>8 DEF Wait, SetOrder, Ranges
  <2>2. CASE pc[r] = "pending"
    <3>1. pc' = [pc EXCEPT ![r] = "done"]
      BY <1>8, <2>2 DEF Wait
    <3> QED
      BY <1>5, <2>1, <3>1
  <2>3. CASE pc[r] = "park"
    <3>1. pc' = [pc EXCEPT ![r] = "debit"] /\ ~(Who(r[1]) = "direct" \/ External(r[1]))
      BY <1>8, <2>1, <2>3 DEF Wait, AllRuns, WaysInv
    <3> QED
      BY <1>5, <2>1, <3>1
  <2> QED
    BY <2>1, <2>2, <2>3
\* A step of nobody's run, which leaves no order waiting that did not wait.
<1>9. ASSUME UNCHANGED <<pc, runs>>, \A p \in Orders : order'[p] = "WAITING" => order[p] = "WAITING"
      PROVE  AllRuns'
  <2>1. ASSUME NEW p \in Orders PROVE RunsInv(p)'
    BY <1>1, <1>3, <1>9, RunsSame DEF AllRuns
  <2> QED
    BY <1>2, <2>1 DEF AllRuns
<1>10. ASSUME NEW o \in Orders,
              \/ CompleteByHand(o) \/ CancelWrite(o) \/ ReconWrite(o) \/ PollWrite(o)
       PROVE  AllRuns'
  <2>1. UNCHANGED <<pc, runs>>
    BY <1>10 DEF CompleteByHand, CancelWrite, ReconWrite, PollWrite
  <2>2. \/ SetOrder(o, "DELIVERED") \/ SetOrder(o, "FAILED") \/ SetOrder(o, "REFUNDED")
        \/ order' = order
    BY <1>10 DEF CompleteByHand, CancelWrite, ReconWrite, PollWrite, RefundCustomer
  <2>3. \A p \in Orders : order'[p] = "WAITING" => order[p] = "WAITING"
    BY <2>2 DEF SetOrder, Ranges
  <2> QED
    BY <1>9, <2>1, <2>3
<1>11. ASSUME NEW o \in Orders,
              Decide(o) \/ Cascade(o) \/ CancelRead(o) \/ ReconList(o) \/ PollList(o)
       PROVE  AllRuns'
  BY <1>9, <1>11 DEF Decide, Cascade, CancelRead, ReconList, PollList
<1>12. ASSUME NEW r \in Rows, NEW c,
              \/ OwnerDeliverRead(r) \/ OwnerDeliverWrite(r)
              \/ MarkFailedRead(r, c) \/ MarkFailedWrite(r, c)
       PROVE  AllRuns'
  BY <1>9, <1>12 DEF OwnerDeliverRead, OwnerDeliverWrite, MarkFailedRead, MarkFailedWrite
<1>13. CASE UNCHANGED vars
  BY <1>9, <1>13 DEF vars
<1> QED
  BY <1>4, <1>6, <1>7, <1>8, <1>10, <1>11, <1>12, <1>13 DEF Next

\* Only a run that has come to the purchase buys.
LEMMA OnlyRunsBuy ==
    ASSUME [Next]_vars, bought' # bought
    PROVE  \E r \in Rows : /\ pc[r] = "buy"
                           /\ Ranges => \A o \in Orders \ {r[1]} : bought'[o] = bought[o]
<1> USE DEF ownerVars, moneyVars, providerVars, statusVars, customerVars, otherVars
<1>1. ASSUME NEW r \in Rows, Buy(r)
      PROVE  pc[r] = "buy" /\ (Ranges => \A o \in Orders \ {r[1]} : bought'[o] = bought[o])
  BY <1>1 DEF Buy, Buys, Ranges
<1>2. ASSUME NEW o \in Orders,
             \/ KeyOrder(o) \/ Start(o) \/ Decide(o) \/ Cascade(o) \/ CompleteByHand(o)
             \/ CancelRead(o) \/ CancelWrite(o) \/ ReconList(o) \/ ReconWrite(o)
             \/ PollList(o) \/ PollWrite(o)
      PROVE  bought' = bought
  BY <1>2 DEF KeyOrder, Start, Decide, Cascade, CompleteByHand, CancelRead, CancelWrite, ReconList,
              ReconWrite, PollList, PollWrite
<1>3. ASSUME NEW r \in Rows,
             \/ KeyLook(r) \/ KeyDeliver(r) \/ KeyBought(r) \/ KeyPark(r) \/ KeyFail(r)
             \/ Look(r) \/ Deliver(r) \/ Bring(r) \/ Wait(r) \/ FailBare(r) \/ DebitStep(r)
             \/ GiveBack(r) \/ Crash(r) \/ OwnerDeliverRead(r) \/ OwnerDeliverWrite(r)
      PROVE  bought' = bought
  BY <1>3 DEF KeyLook, KeyDeliver, KeyBought, KeyPark, KeyFail, Look, Deliver, Bring, Wait,
              FailBare, DebitStep, GiveBack, Crash, OwnerDeliverRead, OwnerDeliverWrite
<1>4. ASSUME NEW r \in Rows, NEW c, MarkFailedRead(r, c) \/ MarkFailedWrite(r, c) PROVE bought' = bought
  BY <1>4 DEF MarkFailedRead, MarkFailedWrite
<1>5. CASE UNCHANGED vars
  BY <1>5 DEF vars
<1> QED
  BY <1>1, <1>2, <1>3, <1>4, <1>5 DEF Next

\* An order that was recorded as waiting is not bought again, neither by the poll nor by a
\* later run: the run that recorded it has ended, the ones before it are dead, and none follows
\* while no job stalls or dies after its last write.
THEOREM WaitingIsNotBoughtAgain == Spec => NeverBoughtAgain
<1>1. Init => (calm => AllRuns)
  <2> SUFFICES ASSUME Init PROVE AllRuns
    OBVIOUS
  <2>1. \A r \in Rows : WaysInv(r)
    BY DEF Init, WaysInv
  <2>2. \A o \in Orders : RunsInv(o)
    BY DEF Init, RunsInv
  <2> QED
    BY <2>1, <2>2 DEF AllRuns
<1>2. (case \in Cases /\ Ranges) /\ Unstarted /\ (calm => AllRuns) /\ [Next]_vars => (calm => AllRuns)'
  BY CaseStays, RunsInductive
<1>3. (case \in Cases /\ Ranges) /\ Unstarted /\ (calm => AllRuns) /\ [Next]_vars
      => [\A o \in Orders : calm /\ order[o] = "WAITING" => bought'[o] = bought[o]]_vars
  <2> SUFFICES ASSUME Ranges, Unstarted, AllRuns, [Next]_vars, NEW o \in Orders, order[o] = "WAITING",
                      bought'[o] # bought[o]
               PROVE  FALSE
    OBVIOUS
  <2>1. PICK r \in Rows : pc[r] = "buy" /\ \A p \in Orders \ {r[1]} : bought'[p] = bought[p]
    BY OnlyRunsBuy
  <2>2. r[1] = o /\ r = <<o, r[2]>>
    BY <2>1, RowParts
  <2>3. r[2] = runs[o]
    BY <2>1, <2>2, LatestRun
  <2>4. Who(o) = "direct" \/ External(o)
    BY <2>1, <2>2 DEF AllRuns, WaysInv
  <2>5. pc[<<o, runs[o]>>] = "done"
    BY <2>4 DEF AllRuns, RunsInv
  <2> QED
    BY <2>1, <2>2, <2>3, <2>5
<1> QED
  BY <1>1, <1>2, <1>3, RangesInvariant, UnstartedInvariant, PTL DEF Spec, NeverBoughtAgain

-----------------------------------------------------------------------------
\* All rows.
AllRows == \A r \in Rows : RowInv(r) /\ RefundInv(r)

\* A row that a step leaves alone keeps its invariant.
LEMMA RowSame ==
    ASSUME case' = case, NEW q \in Rows, RowInv(q), RefundInv(q),
           pc'[q] = pc[q], source'[q] = source[q], refunded'[q] = refunded[q],
           q \in delivering' <=> q \in delivering,
           \A c \in 1 .. MaxCalls : <<q, c>> \in failing' => <<q, c>> \in failing
    PROVE  RowInv(q)' /\ RefundInv(q)'
  BY DEF RowInv, RefundInv, Ended, Who

\* A step that touches one row, and no call of the owner.
OneRow(r) ==
    /\ \A q \in Rows \ {r} : pc'[q] = pc[q] /\ source'[q] = source[q] /\ refunded'[q] = refunded[q]
    /\ UNCHANGED ownerVars

\* Such a step keeps every row's invariant if it keeps that one's.
LEMMA OneRowKeeps ==
    ASSUME case' = case, AllRows, NEW r \in Rows, OneRow(r), RowInv(r)' /\ RefundInv(r)'
    PROVE  AllRows'
<1> SUFFICES ASSUME NEW q \in Rows PROVE RowInv(q)' /\ RefundInv(q)'
  BY DEF AllRows
<1>1. CASE q = r
  BY <1>1
<1>2. CASE q # r
  BY <1>2, RowSame DEF AllRows, OneRow, ownerVars
<1> QED
  BY <1>1, <1>2

\* The request through a key that is under way has its row, PENDING, for itself.
LEMMA KeyOwns ==
    ASSUME Ranges, AllRows, NEW r \in Rows, Who(r[1]) \in {"key", "bound"}, ~Ended(r)
    PROVE  /\ source[r] = "PENDING" /\ refunded[r] = 0 /\ r \notin delivering
           /\ \A c \in 1 .. MaxCalls : <<r, c>> \notin failing
  BY DEF AllRows, RowInv, RefundInv

\* The job that is under way has its row, not written yet, for itself.
LEMMA JobOwns ==
    ASSUME Ranges, AllRows, NEW r \in Rows, Who(r[1]) \in {"shop", "direct"},
           pc[r] \notin {"debit", "done", "dead"}
    PROVE  /\ source[r] = "NONE" /\ refunded[r] = 0 /\ r \notin delivering
           /\ \A c \in 1 .. MaxCalls : <<r, c>> \notin failing
  BY DEF AllRows, RowInv, RefundInv, Ended

\* With a calm owner, every step keeps every row's invariant.
LEMMA RowsInductive ==
    ASSUME case \in Cases, Ranges, Unstarted, calm, AllRows, [Next]_vars
    PROVE  AllRows'
<1> USE DEF ownerVars, moneyVars, providerVars, statusVars, customerVars, otherVars, Goto, SetSource
<1>1. case' = case
  BY CaseStays
<1>2. ASSUME NEW o \in Orders, KeyOrder(o) PROVE AllRows'
  <2> DEFINE r == <<o, 1>>
  <2>1. r \in Rows /\ r[1] = o /\ r[2] = 1 /\ runs[o] = 0 /\ Who(o) \in {"key", "bound"}
    BY <1>2, BoundsAssumption DEF KeyOrder, Rows
  <2>2. pc[r] = "idle"
    BY <2>1 DEF Unstarted
  <2>3. /\ refunded[r] = 0 /\ r \notin delivering
        /\ \A c \in 1 .. MaxCalls : <<r, c>> \notin failing
    BY <2>1, <2>2 DEF AllRows, RowInv, RefundInv
  <2>4. pc'[r] = "look" /\ source'[r] = "PENDING" /\ refunded'[r] = 0 /\ OneRow(r)
    BY <1>2, <2>1, <2>3 DEF KeyOrder, OneRow, Ranges
  <2>5. RowInv(r)' /\ RefundInv(r)'
    BY <1>1, <2>1, <2>3, <2>4 DEF RowInv, RefundInv, Ended, Who, OneRow
  <2> QED
    BY <1>1, <2>1, <2>4, <2>5, OneRowKeeps
<1>3. ASSUME NEW o \in Orders, Start(o) PROVE AllRows'
  <2>1. PICK r \in Rows : /\ r = <<o, runs[o] + 1>> /\ r[1] = o /\ r[2] = runs[o] + 1 /\ runs[o] \in Nat
                          /\ Who(o) \in {"shop", "direct"}
    <3>1. case[o].most \in 0 .. MaxRuns /\ runs[o] \in 0 .. MaxRuns
      BY BoundsAssumption DEF Ranges
    <3> QED
      BY <1>3, <3>1, BoundsAssumption DEF Start, Rows
  <2>2. pc[r] = "idle"
    BY <2>1 DEF Unstarted
  <2>3. /\ source[r] = "NONE" /\ refunded[r] = 0 /\ r \notin delivering
        /\ \A c \in 1 .. MaxCalls : <<r, c>> \notin failing
    BY <2>1, <2>2 DEF AllRows, RowInv, RefundInv
  <2>4. pc' = [pc EXCEPT ![r] = "look"] /\ UNCHANGED <<source, refunded, delivering, failing>>
    BY <1>3, <2>1 DEF Start
  <2>5. pc'[r] = "look" /\ source'[r] = "NONE" /\ refunded'[r] = 0 /\ OneRow(r)
    BY <2>3, <2>4 DEF OneRow, Ranges
  <2>6. RowInv(r)' /\ RefundInv(r)'
    BY <1>1, <2>1, <2>3, <2>4, <2>5 DEF RowInv, RefundInv, Ended, Who
  <2> QED
    BY <1>1, <2>5, <2>6, OneRowKeeps
<1>4. ASSUME NEW r \in Rows, Buy(r) PROVE AllRows'
  <2>1. /\ OneRow(r) /\ pc[r] = "buy" /\ pc'[r] \in {"bought", "bare", "failed", "pending"}
        /\ UNCHANGED <<source, refunded, delivering, failing>>
    BY <1>4 DEF Buy, OneRow, Ranges
  <2>2. RowInv(r)' /\ RefundInv(r)'
    BY <1>1, <2>1 DEF AllRows, RowInv, RefundInv, Ended, Who
  <2> QED
    BY <1>1, <2>1, <2>2, OneRowKeeps
<1>5. ASSUME NEW r \in Rows, KeyLook(r) \/ KeyDeliver(r) \/ KeyBought(r) \/ KeyPark(r)
      PROVE  AllRows'
  <2>1. Who(r[1]) \in {"key", "bound"} /\ ~Ended(r)
    BY <1>5 DEF KeyLook, KeyDeliver, KeyBought, KeyPark, Ended
  <2>2. OneRow(r) /\ refunded' = refunded /\ UNCHANGED <<delivering, failing>>
    BY <1>5 DEF KeyLook, KeyDeliver, KeyBought, KeyPark, OneRow, Ranges
  <2>3. /\ pc'[r] # "idle" /\ source'[r] \in {"PENDING", "PARKED", "DELIVERED"}
        /\ pc'[r] # "done" => source'[r] = "PENDING"
    BY <1>5, <2>1, KeyOwns DEF KeyLook, KeyDeliver, KeyBought, KeyPark, Ranges
  <2>4. RowInv(r)' /\ RefundInv(r)'
    BY <1>1, <2>1, <2>2, <2>3, KeyOwns DEF RowInv, RefundInv, Ended, Who
  <2> QED
    BY <1>1, <2>2, <2>4, OneRowKeeps
<1>6. ASSUME NEW r \in Rows, KeyFail(r) PROVE AllRows'
  <2>1. Who(r[1]) \in {"key", "bound"} /\ ~Ended(r)
    BY <1>6 DEF KeyFail, Ended
  <2>2. /\ pc'[r] = "done" /\ source'[r] = "FAILED" /\ refunded'[r] = 1 /\ OneRow(r)
        /\ UNCHANGED <<delivering, failing>>
    BY <1>6, <2>1, KeyOwns DEF KeyFail, Fail, OneRow, Closed, Ranges
  <2>3. RowInv(r)' /\ RefundInv(r)'
    BY <1>1, <2>1, <2>2, KeyOwns DEF RowInv, RefundInv, Ended, Who
  <2> QED
    BY <1>1, <2>2, <2>3, OneRowKeeps
<1>7. ASSUME NEW r \in Rows, Look(r) \/ GiveBack(r) \/ FailBare(r) PROVE AllRows'
  <2>1. Who(r[1]) \in {"shop", "direct"} /\ pc[r] \in {"look", "failed", "bare"}
    BY <1>7 DEF Look, GiveBack, FailBare
  <2>2. /\ pc'[r] # "idle" /\ OneRow(r) /\ UNCHANGED <<source, refunded, delivering, failing>>
    BY <1>7 DEF Look, GiveBack, FailBare, OneRow, Ranges
  <2>3. RowInv(r)' /\ RefundInv(r)'
    BY <1>1, <2>1, <2>2, JobOwns DEF RowInv, RefundInv, Ended, Who
  <2> QED
    BY <1>1, <2>2, <2>3, OneRowKeeps
<1>8. ASSUME NEW r \in Rows, Deliver(r) \/ Bring(r) \/ Wait(r) PROVE AllRows'
  <2>1. Who(r[1]) \in {"shop", "direct"} /\ pc[r] \in {"deliver", "bought", "pending", "park"}
    BY <1>8 DEF Deliver, Bring, Wait
  <2>2. source[r] = "NONE"
    BY <2>1, JobOwns
  <2>3. /\ \/ pc'[r] = "debit" /\ source'[r] \in {"DELIVERED", "PARKED"}
           \/ pc'[r] \in {"done", "failed"} /\ source'[r] = "NONE"
        /\ UNCHANGED <<refunded, delivering, failing>>
    BY <1>8, <2>2 DEF Deliver, Bring, Wait, Ranges
  <2>4. OneRow(r)
    BY <1>8 DEF Deliver, Bring, Wait, OneRow, Ranges
  <2>5. RowInv(r)' /\ RefundInv(r)'
    BY <1>1, <2>1, <2>3, JobOwns DEF RowInv, RefundInv, Ended, Who
  <2> QED
    BY <1>1, <2>4, <2>5, OneRowKeeps
<1>9. ASSUME NEW r \in Rows, DebitStep(r) \/ Crash(r) PROVE AllRows'
  <2>1. /\ pc[r] \notin {"idle", "done", "dead"} /\ pc'[r] \in {"done", "dead"} /\ OneRow(r)
        /\ UNCHANGED <<source, refunded, delivering, failing>>
    BY <1>9 DEF DebitStep, Crash, Ended, OneRow, Ranges
  <2>2. RowInv(r)' /\ RefundInv(r)'
    BY <1>1, <2>1 DEF AllRows, RowInv, RefundInv, Ended, Who
  <2> QED
    BY <1>1, <2>1, <2>2, OneRowKeeps
<1>10. ASSUME NEW r \in Rows, OwnerDeliverRead(r) PROVE AllRows'
  <2>1. /\ source[r] \in {"PENDING", "PARKED"} /\ Ended(r)
        /\ \A c \in 1 .. MaxCalls : <<r, c>> \notin failing
        /\ delivering' = delivering \union {r} /\ UNCHANGED <<source, pc, refunded, failing>>
    BY <1>10 DEF OwnerDeliverRead
  <2>2. RowInv(r)' /\ RefundInv(r)'
    BY <1>1, <2>1 DEF AllRows, RowInv, RefundInv, Ended, Who
  <2>3. ASSUME NEW q \in Rows, q # r PROVE RowInv(q)' /\ RefundInv(q)'
    BY <1>1, <2>1, <2>3, RowSame DEF AllRows
  <2> QED
    BY <2>2, <2>3 DEF AllRows
<1>11. ASSUME NEW r \in Rows, OwnerDeliverWrite(r) PROVE AllRows'
  <2>1. /\ r \in delivering /\ delivering' = delivering \ {r} /\ source' = [source EXCEPT ![r] = "DELIVERED"]
        /\ UNCHANGED <<pc, refunded, failing>>
    BY <1>11 DEF OwnerDeliverWrite
  <2>2. RowInv(r)' /\ RefundInv(r)'
    BY <1>1, <2>1 DEF AllRows, RowInv, RefundInv, Ended, Who, Ranges
  <2>3. ASSUME NEW q \in Rows, q # r PROVE RowInv(q)' /\ RefundInv(q)'
    BY <1>1, <2>1, <2>3, RowSame DEF AllRows, Ranges
  <2> QED
    BY <2>2, <2>3 DEF AllRows
<1>12. ASSUME NEW r \in Rows, NEW d \in 1 .. MaxCalls, MarkFailedRead(r, d) PROVE AllRows'
  <2>1. /\ source[r] \in {"PENDING", "PARKED"} /\ Ended(r) /\ r \notin delivering
        /\ failing' = failing \union {<<r, d>>} /\ UNCHANGED <<source, pc, refunded, delivering>>
    BY <1>12 DEF MarkFailedRead
  <2>2. RowInv(r)' /\ RefundInv(r)'
    BY <1>1, <2>1 DEF AllRows, RowInv, RefundInv, Ended, Who
  <2>3. ASSUME NEW q \in Rows, q # r PROVE RowInv(q)' /\ RefundInv(q)'
    BY <1>1, <2>1, <2>3, RowSame DEF AllRows
  <2> QED
    BY <2>2, <2>3 DEF AllRows
<1>13. ASSUME NEW r \in Rows, NEW d \in 1 .. MaxCalls, MarkFailedWrite(r, d) PROVE AllRows'
  <2>1. /\ <<r, d>> \in failing /\ failing' \subseteq failing /\ UNCHANGED <<pc, delivering>>
        /\ \/ source[r] \in Closed /\ UNCHANGED <<source, refunded>>
           \/ /\ source[r] \notin Closed
              /\ source' = [source EXCEPT ![r] = "FAILED"]
              /\ refunded' = [refunded EXCEPT ![r] = @ + 1]
    BY <1>13 DEF MarkFailedWrite, Fail
  <2>2. Ended(r) /\ pc[r] # "idle" /\ r \notin delivering
    BY <2>1 DEF AllRows, RowInv
  <2>3. RowInv(r)' /\ RefundInv(r)'
    BY <1>1, <2>1, <2>2 DEF AllRows, RowInv, RefundInv, Ended, Who, Ranges, Closed
  <2>4. ASSUME NEW q \in Rows, q # r PROVE RowInv(q)' /\ RefundInv(q)'
    BY <1>1, <2>1, <2>4, RowSame DEF AllRows, Ranges
  <2> QED
    BY <2>3, <2>4 DEF AllRows
<1>14. ASSUME NEW o \in Orders, Cascade(o) PROVE AllRows'
  <2>1. PICK n \in 1 .. MaxRuns : /\ source[<<o, n>>] # "NONE"
                                  /\ source' = [source EXCEPT ![<<o, n>>] = "CANCELED"]
    BY <1>14 DEF Cascade
  <2> DEFINE r == <<o, n>>
  <2>2. r \in Rows /\ r[1] = o /\ Who(o) = "shop" /\ UNCHANGED <<pc, refunded, delivering, failing>>
    BY <1>14 DEF Cascade, Rows
  <2>3. source[r] # "NONE" /\ source' = [source EXCEPT ![r] = "CANCELED"]
    BY <2>1
  <2> HIDE DEF r
  <2>4. OneRow(r) /\ source'[r] = "CANCELED"
    BY <2>2, <2>3 DEF OneRow, Ranges
  <2>5. RowInv(r)' /\ RefundInv(r)'
    BY <1>1, <2>2, <2>3, <2>4 DEF AllRows, RowInv, RefundInv, Ended, Who, Ranges, Closed
  <2> QED
    BY <1>1, <2>2, <2>4, <2>5, OneRowKeeps
<1>15. CASE UNCHANGED <<pc, source, refunded, delivering, failing>>
  BY <1>1, <1>15, RowSame DEF AllRows
<1>16. ASSUME NEW o \in Orders,
              \/ Decide(o) \/ CompleteByHand(o) \/ CancelRead(o) \/ CancelWrite(o) \/ ReconList(o)
              \/ ReconWrite(o) \/ PollList(o) \/ PollWrite(o)
       PROVE  UNCHANGED <<pc, source, refunded, delivering, failing>>
  BY <1>16 DEF Decide, CompleteByHand, CancelRead, CancelWrite, ReconList, ReconWrite, PollList, PollWrite
<1>17. CASE UNCHANGED vars
  BY <1>15, <1>17 DEF vars
<1> HIDE DEF ownerVars, moneyVars, providerVars, statusVars, customerVars, otherVars, Goto, SetSource
<1> QED
  BY <1>2, <1>3, <1>4, <1>5, <1>6, <1>7, <1>8, <1>9, <1>10, <1>11, <1>12, <1>13, <1>14, <1>15, <1>16,
     <1>17 DEF Next

\* failInternalSourceOrder looks at the locked row before it pays: while the owner waits for
\* the request to end and does not deliver and refuse at once, no source order is refunded
\* twice, none that is delivered is refunded, and every failed one is.
THEOREM FailureRefundsOnce == Spec => []RefundedOnce
<1>1. Init => (calm => AllRows)
  <2> SUFFICES ASSUME Init PROVE AllRows
    OBVIOUS
  <2> QED
    BY DEF Init, AllRows, RowInv, RefundInv, Ended
<1>2. (case \in Cases /\ Ranges) /\ Unstarted /\ (calm => AllRows) /\ [Next]_vars
      => (calm => AllRows)'
  BY CaseStays, RowsInductive
<1>3. (case \in Cases /\ Ranges) /\ (calm => AllRows) => RefundedOnce
  BY DEF Ranges, AllRows, RefundInv, RefundedOnce, Closed
<1> QED
  BY <1>1, <1>2, <1>3, RangesInvariant, UnstartedInvariant, PTL DEF Spec

-----------------------------------------------------------------------------
\* Every step keeps what the reconcilers have listed.
LEMMA ReconInductive == case \in Cases /\ Ranges /\ ReconInv /\ [Next]_vars => ReconInv'
<1> SUFFICES ASSUME case \in Cases, Ranges, ReconInv, [Next]_vars PROVE ReconInv'
  OBVIOUS
<1> USE DEF ownerVars, moneyVars, providerVars, statusVars, customerVars, otherVars, Goto
<1>1. case' = case
  BY CaseStays
<1>2. \A o \in Orders : Who(o)' = Who(o)
  BY <1>1 DEF Who
<1>3. ASSUME NEW r \in Rows, NEW l, pc' = [pc EXCEPT ![r] = l], l = "park" => Who(r[1]) # "direct",
             UNCHANGED recon,
             \/ link' = link
             \/ link' = [link EXCEPT ![r[1]] = r[2]] /\ Who(r[1]) # "direct"
      PROVE  ReconInv'
  <2>1. r[1] \in Orders /\ r[2] # Idle
    BY RowParts DEF Idle
  <2>2. \A q \in Rows : pc'[q] = "park" => Who(q[1])' # "direct"
    <3>1. \A q \in Rows : q[1] \in Orders
      BY RowParts
    <3> QED
      BY <1>2, <1>3, <3>1 DEF ReconInv, Ranges
  <2>3. \A o \in Orders : /\ recon'[o] > 0 => link'[o] # Idle
                          /\ Who(o)' = "direct" => link'[o] = Idle
    BY <1>2, <1>3, <2>1 DEF ReconInv, Ranges
  <2> QED
    BY <1>2, <1>3, <2>2, <2>3 DEF ReconInv
<1>4. ASSUME UNCHANGED <<pc, link, recon>> PROVE ReconInv'
  <2>1. \A q \in Rows : q[1] \in Orders
    BY RowParts
  <2> QED
    BY <1>2, <1>4, <2>1 DEF ReconInv
<1>5. ASSUME NEW o \in Orders, NEW n \in Int, UNCHANGED <<pc, link>>, recon' = [recon EXCEPT ![o] = n],
             n > 0 => link[o] # Idle, n = Poll => Who(o) = "direct"
      PROVE  ReconInv'
  <2>1. \A q \in Rows : q[1] \in Orders
    BY RowParts
  <2>2. \A q \in Rows : pc'[q] = "park" => Who(q[1])' # "direct"
    BY <1>2, <1>5, <2>1 DEF ReconInv
  <2>3. \A p \in Orders : /\ recon'[p] > 0 => link'[p] # Idle
                          /\ recon'[p] = Poll => Who(p)' = "direct"
                          /\ Who(p)' = "direct" => link'[p] = Idle
    BY <1>2, <1>5 DEF ReconInv, Ranges, Idle, Poll
  <2> QED
    BY <2>2, <2>3 DEF ReconInv
<1>6. ASSUME NEW o \in Orders, KeyOrder(o) \/ Start(o) PROVE ReconInv'
  <2>1. PICK r \in Rows : pc' = [pc EXCEPT ![r] = "look"]
    <3>1. case[o].most \in 0 .. MaxRuns /\ runs[o] \in 0 .. MaxRuns
      BY BoundsAssumption DEF Ranges
    <3> QED
      BY <1>6, <3>1, BoundsAssumption DEF KeyOrder, Start, Rows
  <2>2. UNCHANGED <<link, recon>>
    BY <1>6 DEF KeyOrder, Start
  <2> QED
    BY <1>3, <2>1, <2>2
<1>7. ASSUME NEW r \in Rows,
             \/ Buy(r) \/ KeyLook(r) \/ KeyDeliver(r) \/ KeyBought(r) \/ KeyPark(r) \/ KeyFail(r)
             \/ Look(r) \/ FailBare(r) \/ DebitStep(r) \/ GiveBack(r) \/ Crash(r)
      PROVE  ReconInv'
  <2>1. \E l : pc' = [pc EXCEPT ![r] = l] /\ (l = "park" => Who(r[1]) # "direct")
    BY <1>7 DEF Buy, KeyLook, KeyDeliver, KeyBought, KeyPark, KeyFail, Look, FailBare, DebitStep,
               GiveBack, Crash
  <2>2. UNCHANGED <<link, recon>>
    BY <1>7 DEF Buy, KeyLook, KeyDeliver, KeyBought, KeyPark, KeyFail, Look, FailBare, DebitStep,
               GiveBack, Crash
  <2> QED
    BY <1>3, <2>1, <2>2
<1>8. ASSUME NEW r \in Rows, Deliver(r) \/ Bring(r) \/ Wait(r) PROVE ReconInv'
  <2>1. \E l \in {"debit", "failed", "done"} : pc' = [pc EXCEPT ![r] = l]
    BY <1>8 DEF Deliver, Bring, Wait
  <2>2. \/ link' = link
        \/ link' = [link EXCEPT ![r[1]] = r[2]] /\ Who(r[1]) # "direct"
    BY <1>8 DEF Deliver, Bring, Wait, ReconInv
  <2>3. UNCHANGED recon
    BY <1>8 DEF Deliver, Bring, Wait
  <2> QED
    BY <1>3, <2>1, <2>2, <2>3
<1>9. ASSUME NEW o \in Orders,
             Decide(o) \/ Cascade(o) \/ CompleteByHand(o) \/ CancelRead(o) \/ CancelWrite(o)
      PROVE  ReconInv'
  BY <1>4, <1>9 DEF Decide, Cascade, CompleteByHand, CancelRead, CancelWrite
<1>10. ASSUME NEW o \in Orders, ReconList(o) \/ ReconWrite(o) \/ PollList(o) \/ PollWrite(o)
       PROVE  ReconInv'
  <2>1. UNCHANGED <<pc, link>>
    BY <1>10 DEF ReconList, ReconWrite, PollList, PollWrite
  <2>2. \/ recon' = [recon EXCEPT ![o] = link[o]] /\ link[o] # Idle
        \/ recon' = [recon EXCEPT ![o] = Idle]
        \/ recon' = [recon EXCEPT ![o] = Poll] /\ Who(o) = "direct"
    BY <1>10 DEF ReconList, ReconWrite, PollList, PollWrite, Unfulfilled
  <2>3. PICK n \in Int : /\ recon' = [recon EXCEPT ![o] = n]
                         /\ n > 0 => link[o] # Idle
                         /\ n = Poll => Who(o) = "direct"
    BY <2>2 DEF Ranges, Idle, Poll
  <2> QED
    BY ONLY <1>5, <2>1, <2>3, o \in Orders
<1>11. ASSUME NEW r \in Rows, NEW c,
              \/ OwnerDeliverRead(r) \/ OwnerDeliverWrite(r)
              \/ MarkFailedRead(r, c) \/ MarkFailedWrite(r, c)
       PROVE  ReconInv'
  BY <1>4, <1>11 DEF OwnerDeliverRead, OwnerDeliverWrite, MarkFailedRead, MarkFailedWrite
<1>12. CASE UNCHANGED vars
  BY <1>4, <1>12 DEF vars
<1> QED
  BY <1>6, <1>7, <1>8, <1>9, <1>10, <1>11, <1>12 DEF Next

-----------------------------------------------------------------------------
\* All orders whose job has run at most once.
AllOrders == \A o \in Orders : runs[o] <= 1 => FreshInv(o) /\ GoodsInv(o)

\* A step leaves an order, its first row and its purchase alone.
OrderSame(p) ==
    /\ pc'[<<p, 1>>] = pc[<<p, 1>>] /\ order'[p] = order[p] /\ link'[p] = link[p]
    /\ verdict'[p] = verdict[p] /\ runs'[p] = runs[p] /\ recon'[p] = recon[p]
    /\ p \in handed' <=> p \in handed
    /\ p \in paidBack' <=> p \in paidBack
    /\ p \in cancelling' <=> p \in cancelling

\* A step that leaves all orders but one alone keeps the invariant if it keeps that one's.
LEMMA OneOrderKeeps ==
    ASSUME case' = case, AllOrders, NEW o \in Orders, \A p \in Orders \ {o} : OrderSame(p),
           runs'[o] <= 1 => FreshInv(o)' /\ GoodsInv(o)'
    PROVE  AllOrders'
<1> SUFFICES ASSUME NEW p \in Orders, runs'[p] <= 1 PROVE FreshInv(p)' /\ GoodsInv(p)'
  BY DEF AllOrders
<1>1. CASE p = o
  BY <1>1
<1>2. CASE p # o
  <2>1. OrderSame(p) /\ FreshInv(p) /\ GoodsInv(p)
    BY <1>2 DEF AllOrders, OrderSame
  <2> QED
    BY <2>1 DEF OrderSame, FreshInv, GoodsInv, Who
<1> QED
  BY <1>1, <1>2

\* The only run of an order is the one of its first row.
LEMMA OnlyRun ==
    ASSUME Ranges, Unstarted, NEW r \in Rows, pc[r] # "idle", runs[r[1]] <= 1
    PROVE  r = <<r[1], 1>>
<1>1. r[1] \in Orders /\ r[2] \in 1 .. MaxRuns /\ r = <<r[1], r[2]>>
  BY RowParts
<1>2. r[2] <= runs[r[1]] /\ runs[r[1]] \in Nat
  BY <1>1, BoundsAssumption DEF Unstarted, Ranges
<1> QED
  BY <1>1, <1>2, BoundsAssumption

\* With a calm owner and seller, every step keeps the invariant of the orders.
LEMMA OrdersInductive ==
    ASSUME case \in Cases, Ranges, Unstarted, ReconInv, calm, AllOrders, [Next]_vars
    PROVE  AllOrders'
<1> USE DEF ownerVars, moneyVars, providerVars, statusVars, customerVars, otherVars, Goto
<1>1. case' = case /\ \A o \in Orders : Who(o)' = Who(o)
  BY CaseStays DEF Who
<1>2. ASSUME NEW o \in Orders, KeyOrder(o) \/ Start(o) PROVE AllOrders'
  <2>1. PICK n \in 1 .. MaxRuns : /\ n = runs[o] + 1 /\ runs' = [runs EXCEPT ![o] = n]
                                 /\ pc' = [pc EXCEPT ![<<o, n>>] = "look"]
    <3>1. case[o].most \in 0 .. MaxRuns /\ runs[o] \in 0 .. MaxRuns
      BY BoundsAssumption DEF Ranges
    <3>2. runs[o] + 1 \in 1 .. MaxRuns
      <4>1. runs[o] + 1 <= MaxRuns
        <5>1. CASE KeyOrder(o)
          BY <5>1, BoundsAssumption DEF KeyOrder
        <5>2. CASE Start(o)
          <6>1. runs[o] + 1 <= case[o].most
            BY <5>2 DEF Start
          <6> QED
            BY <3>1, <6>1, BoundsAssumption
        <5> QED
          BY <1>2, <5>1, <5>2
      <4> QED
        BY <3>1, <4>1, BoundsAssumption
    <3>3. /\ runs' = [runs EXCEPT ![o] = runs[o] + 1]
          /\ pc' = [pc EXCEPT ![<<o, runs[o] + 1>>] = "look"]
      <4>1. CASE KeyOrder(o)
        <5>1. runs[o] + 1 = 1
          BY <4>1 DEF KeyOrder
        <5> QED
          BY <4>1, <5>1 DEF KeyOrder
      <4>2. CASE Start(o)
        BY <4>2 DEF Start
      <4> QED
        BY <1>2, <4>1, <4>2
    <3> QED
      BY <3>2, <3>3
  <2>2. UNCHANGED <<order, handed, link, paidBack, verdict, recon, cancelling>>
    BY <1>2 DEF KeyOrder, Start
  <2>3. \A p \in Orders : <<p, 1>> \in Rows
    BY BoundsAssumption DEF Rows
  <2>4. \A p \in Orders \ {o} : OrderSame(p)
    BY <2>1, <2>2, <2>3 DEF OrderSame, Ranges
  <2>5. ASSUME runs'[o] <= 1 PROVE FreshInv(o)' /\ GoodsInv(o)'
    <3>1. n = 1 /\ runs[o] = 0
      BY <2>1, <2>5 DEF Ranges
    <3>2. pc[<<o, 1>>] = "idle"
      BY <2>3, <3>1 DEF Unstarted
    <3>3. FreshInv(o) /\ GoodsInv(o)
      BY <3>1 DEF AllOrders
    <3>4. pc'[<<o, 1>>] = "look"
      BY <2>1, <2>3, <3>1 DEF Ranges
    <3> QED
      BY <1>1, <2>2, <3>2, <3>3, <3>4 DEF FreshInv, GoodsInv
  <2> QED
    BY <1>1, <2>4, <2>5, OneOrderKeeps
\* A step of a run: only its order is touched, and its first row alone if it ran once.
<1>3. ASSUME NEW r \in Rows, NEW l, pc' = [pc EXCEPT ![r] = l], pc[r] # "idle",
             UNCHANGED <<runs, recon, cancelling>>,
             \A p \in Orders \ {r[1]} : /\ order'[p] = order[p] /\ link'[p] = link[p]
                                        /\ verdict'[p] = verdict[p]
                                        /\ p \in handed' <=> p \in handed
                                        /\ p \in paidBack' <=> p \in paidBack,
             /\ r = <<r[1], 1>> /\ pc'[<<r[1], 1>>] = l /\ FreshInv(r[1]) /\ GoodsInv(r[1])
             => FreshInv(r[1])' /\ GoodsInv(r[1])'
      PROVE  AllOrders'
  <2>1. \A p \in Orders : <<p, 1>> \in Rows
    BY BoundsAssumption DEF Rows
  <2>2. r[1] \in Orders
    BY RowParts
  <2>3. ASSUME NEW p \in Orders, p # r[1] PROVE OrderSame(p)
    <3>1. pc'[<<p, 1>>] = pc[<<p, 1>>]
      BY <1>3, <2>1, <2>3 DEF Ranges
    <3> QED
      BY <1>3, <2>3, <3>1 DEF OrderSame
  <2>4. ASSUME runs'[r[1]] <= 1 PROVE FreshInv(r[1])' /\ GoodsInv(r[1])'
    <3>1. runs[r[1]] <= 1
      BY <1>3, <2>4
    <3>2. r = <<r[1], 1>>
      BY <1>3, <3>1, OnlyRun
    <3>3. pc'[r] = l
      BY <1>3 DEF Ranges
    <3>4. FreshInv(r[1]) /\ GoodsInv(r[1])
      BY <2>2, <3>1 DEF AllOrders
    <3> QED
      BY <1>3, <3>2, <3>3, <3>4
  <2> QED
    BY <1>1, <2>2, <2>3, <2>4, OneOrderKeeps
<1>4. ASSUME NEW r \in Rows, Buy(r) PROVE AllOrders'
  <2>1. /\ pc[r] = "buy"
        /\ \/ pc' = [pc EXCEPT ![r] = "pending"] /\ verdict' \in {verdict, [verdict EXCEPT ![r[1]] = "open"]}
           \/ pc' = [pc EXCEPT ![r] = "bought"] /\ verdict' = verdict
           \/ pc' = [pc EXCEPT ![r] = "failed"] /\ verdict' = verdict
           \/ pc' = [pc EXCEPT ![r] = "bare"] /\ verdict' = verdict
        /\ UNCHANGED <<runs, recon, cancelling, order, handed, link, paidBack>>
    BY <1>4 DEF Buy
  <2>2. PICK l \in {"pending", "bought", "bare", "failed"} :
           /\ pc' = [pc EXCEPT ![r] = l]
           /\ verdict' = verdict \/ (l = "pending" /\ verdict' = [verdict EXCEPT ![r[1]] = "open"])
    BY <2>1
  <2>3. \A p \in Orders \ {r[1]} : verdict'[p] = verdict[p]
    BY <2>2 DEF Ranges
  <2>4. l # "pending" => verdict'[r[1]] = verdict[r[1]]
    BY <2>2
  <2>5. ASSUME r = <<r[1], 1>>, pc'[<<r[1], 1>>] = l, FreshInv(r[1]), GoodsInv(r[1])
        PROVE  FreshInv(r[1])' /\ GoodsInv(r[1])'
    <3>1. pc[<<r[1], 1>>] = "buy"
      BY <2>1, <2>5
    <3> QED
      BY <2>1, <2>4, <2>5, <3>1 DEF FreshInv, GoodsInv
  <2> QED
    BY <1>3, <2>1, <2>2, <2>3, <2>5
<1>5. ASSUME NEW r \in Rows,
             \/ KeyLook(r) \/ KeyDeliver(r) \/ KeyBought(r) \/ KeyPark(r) \/ KeyFail(r)
             \/ Look(r) \/ DebitStep(r) \/ Crash(r)
      PROVE  AllOrders'
  <2>1. PICK l : /\ pc' = [pc EXCEPT ![r] = l] /\ pc[r] \notin {"idle", "done", "dead"} /\ l # "pending"
                 /\ l \notin {"debit", "done", "dead"} => pc[r] \notin {"debit", "done", "dead", "pending"}
    BY <1>5 DEF KeyLook, KeyDeliver, KeyBought, KeyPark, KeyFail, Look, DebitStep, Crash, Ended
  <2>2. UNCHANGED <<runs, recon, cancelling, order, handed, link, paidBack, verdict>>
    BY <1>5 DEF KeyLook, KeyDeliver, KeyBought, KeyPark, KeyFail, Look, DebitStep, Crash
  <2>3. ASSUME r = <<r[1], 1>>, pc'[<<r[1], 1>>] = l, FreshInv(r[1]), GoodsInv(r[1])
        PROVE  FreshInv(r[1])' /\ GoodsInv(r[1])'
    <3>1. GoodsInv(r[1])'
      BY <1>1, <2>2, <2>3, RowParts DEF GoodsInv
    <3>2. FreshInv(r[1])'
      BY <2>1, <2>2, <2>3 DEF FreshInv
    <3> QED
      BY <3>1, <3>2
  <2> QED
    BY <1>3, <2>1, <2>2, <2>3
<1>6. ASSUME NEW r \in Rows, Deliver(r) \/ Bring(r) \/ Wait(r) \/ FailBare(r) PROVE AllOrders'
  <2>1. PICK l \in {"debit", "done", "failed"} : pc' = [pc EXCEPT ![r] = l]
    BY <1>6 DEF Deliver, Bring, Wait, FailBare
  <2>2. /\ UNCHANGED <<runs, recon, cancelling, paidBack, verdict>>
        /\ pc[r] \in {"deliver", "bought", "pending", "park", "bare"}
    BY <1>6 DEF Deliver, Bring, Wait, FailBare
  <2>3. \A p \in Orders \ {r[1]} : order'[p] = order[p] /\ link'[p] = link[p] /\ (p \in handed' <=> p \in handed)
    BY <1>6 DEF Deliver, Bring, Wait, FailBare, SetOrder, Ranges
  <2>4. r[1] \in Orders
    BY RowParts
  <2>5. \/ l \in {"debit", "done"} /\ order'[r[1]] \in {"DELIVERED", "WAITING", "FAILED"}
           /\ (r[1] \in handed' => order'[r[1]] = "DELIVERED" \/ r[1] \in handed)
        \/ l = "failed" /\ UNCHANGED <<order, handed, link>> /\ pc[r] # "pending"
    <3>1. pc'[r] = l
      BY <2>1 DEF Ranges
    <3> QED
      BY <1>6, <2>4, <3>1 DEF Deliver, Bring, Wait, FailBare, SetOrder, Ranges
  <2>6. ASSUME r = <<r[1], 1>>, pc'[<<r[1], 1>>] = l, FreshInv(r[1]), GoodsInv(r[1])
        PROVE  FreshInv(r[1])' /\ GoodsInv(r[1])'
    <3>1. r[1] \notin handed /\ r[1] \notin paidBack /\ r[1] \notin cancelling
      BY <2>2, <2>6 DEF FreshInv
    <3>2. GoodsInv(r[1])'
      BY <1>1, <2>2, <2>4, <2>5, <2>6, <3>1 DEF GoodsInv
    <3>3. FreshInv(r[1])'
      BY <2>2, <2>5, <2>6 DEF FreshInv
    <3> QED
      BY <3>2, <3>3
  <2> QED
    BY <1>3, <2>1, <2>2, <2>3, <2>6
<1>7. ASSUME NEW r \in Rows, GiveBack(r) PROVE AllOrders'
  <2>1. /\ pc' = [pc EXCEPT ![r] = "done"] /\ pc[r] = "failed" /\ RefundCustomer(r[1])
        /\ UNCHANGED <<runs, recon, cancelling, link, verdict>>
    BY <1>7 DEF GiveBack
  <2>2. \A p \in Orders \ {r[1]} : /\ order'[p] = order[p]
                                   /\ p \in handed' <=> p \in handed
                                   /\ p \in paidBack' <=> p \in paidBack
    BY <2>1 DEF RefundCustomer, SetOrder, Ranges
  <2>3. r[1] \in Orders
    BY RowParts
  <2>4. ASSUME r = <<r[1], 1>>, pc'[<<r[1], 1>>] = "done", FreshInv(r[1]), GoodsInv(r[1])
        PROVE  FreshInv(r[1])' /\ GoodsInv(r[1])'
    <3>1. /\ order[r[1]] = "PROCESSING" /\ link[r[1]] = Idle /\ r[1] \notin handed /\ r[1] \notin paidBack
          /\ verdict[r[1]] = "none"
      BY <2>1, <2>4 DEF FreshInv
    <3>2. order'[r[1]] = "REFUNDED" /\ r[1] \notin handed'
      BY <2>1, <2>3, <3>1 DEF RefundCustomer, SetOrder, Ranges
    <3> QED
      BY <2>1, <2>4, <3>1, <3>2 DEF FreshInv, GoodsInv
  <2> QED
    BY <1>3, <2>1, <2>2, <2>4
\* A step that changes no run: one order, whose job's place stays.
<1>8. ASSUME NEW o \in Orders, UNCHANGED <<pc, runs>>,
             \A p \in Orders \ {o} : /\ order'[p] = order[p] /\ link'[p] = link[p]
                                     /\ verdict'[p] = verdict[p] /\ recon'[p] = recon[p]
                                     /\ p \in handed' <=> p \in handed
                                     /\ p \in paidBack' <=> p \in paidBack
                                     /\ p \in cancelling' <=> p \in cancelling,
             FreshInv(o) /\ GoodsInv(o) => FreshInv(o)' /\ GoodsInv(o)'
      PROVE  AllOrders'
  <2>1. \A p \in Orders \ {o} : OrderSame(p)
    BY <1>8 DEF OrderSame
  <2>2. ASSUME runs'[o] <= 1 PROVE FreshInv(o)' /\ GoodsInv(o)'
    BY <1>8, <2>2 DEF AllOrders
  <2> QED
    BY <1>1, <2>1, <2>2, OneOrderKeeps
<1>9. ASSUME NEW o \in Orders, Decide(o) PROVE AllOrders'
  <2>1. /\ verdict[o] = "open" /\ verdict' \in [Orders -> {"none", "open", "delivered", "failed", "cancelled"}]
        /\ \A p \in Orders \ {o} : verdict'[p] = verdict[p]
        /\ UNCHANGED <<pc, runs, recon, cancelling, order, handed, link, paidBack>>
    BY <1>9 DEF Decide, Ranges
  <2>2. ASSUME FreshInv(o), GoodsInv(o) PROVE FreshInv(o)' /\ GoodsInv(o)'
    BY <1>1, <2>1, <2>2 DEF FreshInv, GoodsInv
  <2> QED
    BY <1>8, <2>1, <2>2
<1>10. ASSUME NEW o \in Orders, CompleteByHand(o) PROVE AllOrders'
  <2>1. /\ order[o] = "WAITING" /\ o \notin cancelling /\ SetOrder(o, "DELIVERED")
        /\ UNCHANGED <<pc, runs, recon, cancelling, link, paidBack, verdict>>
    BY <1>10 DEF CompleteByHand
  <2>2. /\ order'[o] = "DELIVERED" /\ \A p \in Orders \ {o} : order'[p] = order[p]
        /\ \A p \in Orders \ {o} : p \in handed' <=> p \in handed
    BY <2>1 DEF SetOrder, Ranges
  <2>3. ASSUME FreshInv(o), GoodsInv(o) PROVE FreshInv(o)' /\ GoodsInv(o)'
    BY <1>1, <2>1, <2>2, <2>3 DEF FreshInv, GoodsInv
  <2> QED
    BY <1>8, <2>1, <2>2, <2>3
<1>11. ASSUME NEW o \in Orders, CancelRead(o) PROVE AllOrders'
  <2>1. /\ order[o] = "WAITING" /\ cancelling' = cancelling \union {o}
        /\ UNCHANGED <<pc, runs, recon, order, handed, link, paidBack, verdict>>
    BY <1>11 DEF CancelRead
  <2>2. ASSUME FreshInv(o), GoodsInv(o) PROVE FreshInv(o)' /\ GoodsInv(o)'
    BY <1>1, <2>1, <2>2 DEF FreshInv, GoodsInv
  <2>3. \A p \in Orders \ {o} : p \in cancelling' <=> p \in cancelling
    BY <2>1
  <2> QED
    BY <1>8, <2>1, <2>2, <2>3
<1>12. ASSUME NEW o \in Orders, CancelWrite(o) PROVE AllOrders'
  <2>1. /\ o \in cancelling /\ cancelling' = cancelling \ {o} /\ SetOrder(o, "FAILED")
        /\ UNCHANGED <<pc, runs, recon, link, paidBack, verdict>>
    BY <1>12 DEF CancelWrite
  <2>2. /\ order'[o] = "FAILED" /\ \A p \in Orders \ {o} : order'[p] = order[p]
        /\ handed' = handed
    BY <2>1 DEF SetOrder, Ranges
  <2>3. ASSUME FreshInv(o), GoodsInv(o) PROVE FreshInv(o)' /\ GoodsInv(o)'
    BY <1>1, <2>1, <2>2, <2>3 DEF FreshInv, GoodsInv
  <2>4. \A p \in Orders \ {o} : p \in cancelling' <=> p \in cancelling
    BY <2>1
  <2> QED
    BY <1>8, <2>1, <2>2, <2>3, <2>4
<1>13. ASSUME NEW o \in Orders, ReconList(o) \/ PollList(o) PROVE AllOrders'
  <2>1. /\ order[o] = "WAITING" \/ link[o] # Idle
        /\ UNCHANGED <<pc, runs, order, handed, link, paidBack, verdict, cancelling>>
    BY <1>13 DEF ReconList, PollList, Unfulfilled, Referred
  <2>2. \A p \in Orders \ {o} : recon'[p] = recon[p]
    BY <1>13 DEF ReconList, PollList, Ranges
  <2>3. ASSUME FreshInv(o), GoodsInv(o) PROVE FreshInv(o)' /\ GoodsInv(o)'
    BY <1>1, <2>1, <2>3 DEF FreshInv, GoodsInv
  <2> QED
    BY <1>8, <2>1, <2>2, <2>3
<1>14. ASSUME NEW o \in Orders, ReconWrite(o) PROVE AllOrders'
  <2>1. /\ recon[o] > 0 /\ recon' = [recon EXCEPT ![o] = Idle]
        /\ SetOrder(o, "DELIVERED") \/ SetOrder(o, "FAILED") \/ UNCHANGED statusVars
        /\ UNCHANGED <<pc, runs, link, paidBack, verdict, cancelling>>
    BY <1>14 DEF ReconWrite
  <2>2. \A p \in Orders \ {o} : /\ order'[p] = order[p] /\ recon'[p] = recon[p]
                                /\ p \in handed' <=> p \in handed
    BY <2>1 DEF SetOrder, Ranges
  <2>3. link[o] # Idle /\ Who(o) # "direct"
    BY <2>1 DEF ReconInv
  <2>4. ASSUME FreshInv(o), GoodsInv(o) PROVE FreshInv(o)' /\ GoodsInv(o)'
    BY <1>1, <2>1, <2>3, <2>4 DEF FreshInv, GoodsInv
  <2> QED
    BY <1>8, <2>1, <2>2, <2>4
<1>15. ASSUME NEW o \in Orders, PollWrite(o) PROVE AllOrders'
  <2>1. /\ recon[o] = Poll /\ recon' = [recon EXCEPT ![o] = Idle]
        /\ \/ verdict[o] = "delivered" /\ SetOrder(o, "DELIVERED") /\ UNCHANGED paidBack
           \/ verdict[o] = "failed" /\ RefundCustomer(o)
           \/ UNCHANGED <<statusVars, paidBack>>
        /\ UNCHANGED <<pc, runs, link, verdict, cancelling>>
    BY <1>15 DEF PollWrite
  <2>2. \A p \in Orders \ {o} : /\ order'[p] = order[p] /\ recon'[p] = recon[p]
                                /\ p \in handed' <=> p \in handed
                                /\ p \in paidBack' <=> p \in paidBack
    BY <2>1 DEF SetOrder, RefundCustomer, Ranges
  <2>3. link[o] = Idle /\ Who(o) = "direct" /\ recon[o] # Idle
    BY <2>1 DEF ReconInv, Poll, Idle
  <2>4. ASSUME FreshInv(o), GoodsInv(o) PROVE FreshInv(o)' /\ GoodsInv(o)'
    <3>1. pc[<<o, 1>>] \in {"debit", "done", "dead"}
      BY <2>3, <2>4 DEF FreshInv
    <3>2. FreshInv(o)'
      BY <2>1, <3>1 DEF FreshInv
    <3>3. CASE verdict[o] = "delivered" /\ SetOrder(o, "DELIVERED") /\ UNCHANGED paidBack
      BY <1>1, <2>1, <2>4, <3>2, <3>3 DEF GoodsInv
    <3>4. CASE verdict[o] = "failed" /\ RefundCustomer(o)
      <4>1. CASE /\ order[o] \notin {"REFUNDED", "DELIVERED"} /\ o \notin paidBack
                 /\ SetOrder(o, "REFUNDED") /\ paidBack' = paidBack \union {o}
        <5>1. o \notin handed /\ handed' = handed /\ order'[o] = "REFUNDED"
          BY <2>3, <2>4, <3>4, <4>1 DEF GoodsInv, SetOrder, Ranges
        <5> QED
          BY <1>1, <2>1, <2>3, <3>2, <3>4, <5>1 DEF GoodsInv
      <4>2. CASE UNCHANGED <<statusVars, paidBack>>
        BY <1>1, <2>1, <2>4, <3>2, <4>2 DEF GoodsInv
      <4> QED
        BY <3>4, <4>1, <4>2 DEF RefundCustomer
    <3>5. CASE UNCHANGED <<statusVars, paidBack>>
      BY <1>1, <2>1, <2>4, <3>2, <3>5 DEF GoodsInv
    <3> QED
      BY <2>1, <3>3, <3>4, <3>5
  <2> QED
    BY <1>8, <2>1, <2>2, <2>4
<1>16. ASSUME UNCHANGED <<pc, runs, order, handed, link, paidBack, verdict, recon, cancelling>>
       PROVE  AllOrders'
  BY <1>1, <1>16 DEF AllOrders, FreshInv, GoodsInv
<1>17. ASSUME NEW r \in Rows, NEW c,
              \/ OwnerDeliverRead(r) \/ OwnerDeliverWrite(r)
              \/ MarkFailedRead(r, c) \/ MarkFailedWrite(r, c)
       PROVE  AllOrders'
  BY <1>16, <1>17 DEF OwnerDeliverRead, OwnerDeliverWrite, MarkFailedRead, MarkFailedWrite
<1>18. ASSUME NEW o \in Orders, Cascade(o) PROVE AllOrders'
  BY <1>16, <1>18 DEF Cascade
<1>19. CASE UNCHANGED vars
  BY <1>16, <1>19 DEF vars
<1> QED
  BY <1>2, <1>4, <1>5, <1>6, <1>7, <1>9, <1>10, <1>11, <1>12, <1>13, <1>14, <1>15, <1>17, <1>18, <1>19
     DEF Next

\* A customer whose job ran once, and who has the money back, does not have the goods: the
\* refund takes an order no source order and no open purchase stands behind, and the
\* reconcilers, the completion by hand and the cancellation leave a refunded order alone.
THEOREM NoGoodsAfterMoney == Spec => []GoodsOrMoney
<1>1. Init => ReconInv /\ (calm => AllOrders)
  BY DEF Init, ReconInv, AllOrders, FreshInv, GoodsInv, Idle, Poll
<1>2. (case \in Cases /\ Ranges) /\ Unstarted /\ (ReconInv /\ (calm => AllOrders))
      /\ [Next]_vars => (ReconInv /\ (calm => AllOrders))'
  BY CaseStays, ReconInductive, OrdersInductive
<1>3. (case \in Cases /\ Ranges) /\ ReconInv /\ (calm => AllOrders) => GoodsOrMoney
  BY DEF Ranges, AllOrders, GoodsInv, GoodsOrMoney
<1> QED
  BY <1>1, <1>2, <1>3, RangesInvariant, UnstartedInvariant, PTL DEF Spec

=============================================================================
