--------------------------- MODULE FulfillmentProofs ---------------------------
(***************************************************************************)
(* Proofs about Fulfillment for any number of orders, job slots and stock  *)
(* entries.  TypeInv and PaidInv are inductive whatever fails and however  *)
(* orders are paid; TokenInv is inductive on the claiming payment routes,  *)
(* as long as only the queue fails, and carries the proof that Fulfillment *)
(* implements OrderPromise there.                                          *)
(***************************************************************************)
EXTENDS Fulfillment, TLAPS

-----------------------------------------------------------------------------
(* Type correctness.                                                         *)

\* The sweep never claims an order its remaining budget does not cover.
TypeInv ==
    /\ TypeOK
    /\ sweep.pc = "add" => sweep.budget >= Qty[sweep.cur]

-----------------------------------------------------------------------------
(* Refunds.                                                                  *)

\* The states of an order before its payment.
Unpaid == {"NONE", "DRAFT", "AWAITING_PAYMENT"}

\* Whoever works on an order works on one whose payment has been taken.  Only
\* ordinary orders are refunded by a job, and a refunded pre-order has its
\* cancellation on record for good, even if a late scan marks it paid again.
PaidInv ==
    /\ \A o \in Orders : payment[o] = "PENDING" <=> status[o] \in Unpaid
    /\ \A o \in Orders :
          \/ api[o] # "no" \/ adding[o] > 0 \/ queued[o] > 0 \/ canceling[o] > 0
          \/ o \in sweep.todo \/ sweep.cur = o
          => payment[o] # "PENDING"
    /\ \A w \in Workers :
          /\ wpc[w] # "idle" => payment[word[w]] # "PENDING"
          /\ wpc[w] = "refund" => ~isPreorder[word[w]]
    /\ \A o \in Orders :
          /\ seen[o] > 0 => status[o] \notin {"NONE", "DRAFT"}
          /\ refunds[o] <= 1
          /\ refunds[o] > 0 => payment[o] # "PENDING"
          /\ refunds[o] > 0 /\ isPreorder[o] =>
                cancel[o] \in {"APPROVED", "SELLER_CANCELED"}

-----------------------------------------------------------------------------
(* One holder per order.                                                     *)

\* Job slot w has not yet finished with order o.
Busy(w, o) == word[w] = o /\ wpc[w] # "post"

\* An order is in the hands of at most one of: the enqueuing request, the
\* queue, a job slot, the sweep.  Whoever holds it finds it PROCESSING_PURCHASE.
TokenInv ==
    /\ \A o \in Orders : seen[o] = 0 /\ adding[o] = 0
    /\ \A w \in Workers :
          /\ wpc[w] # "lost"
          /\ wpc[w] \in {"requested", "turn", "wait"} => isPreorder[word[w]]
    /\ \A o \in Orders : queued[o] > 0 =>
          /\ queued[o] = 1
          /\ status[o] = "PROCESSING_PURCHASE"
          /\ api[o] # "add" /\ sweep.cur # o
          /\ \A w \in Workers : ~Busy(w, o)
    /\ \A w \in Workers, o \in Orders : Busy(w, o) =>
          /\ status[o] = "PROCESSING_PURCHASE"
          /\ api[o] # "add" /\ sweep.cur # o
          /\ \A v \in Workers : Busy(v, o) => v = w
    /\ \A o \in Orders : api[o] = "add" =>
          status[o] = "PROCESSING_PURCHASE" /\ ~jobKnown[o] /\ sweep.cur # o
    /\ \A o \in Orders : sweep.cur = o => status[o] = "PROCESSING_PURCHASE"
    /\ \A o \in Orders : jobKnown[o] => status[o] \notin Unpaid \cup {"PAID"}

\* Goods and money against the order row.
GoodsInv ==
    \A o \in Orders :
        /\ given[o] <= Qty[o]
        /\ given[o] > 0 => status[o] \in {"DELIVERED", "FAILED"}
        /\ refunds[o] > 0 => status[o] = "REFUNDED"
        /\ canceling[o] > 0 =>
              /\ ~isPreorder[o]
              /\ status[o] \in {"PAID_WAITING_STOCK", "DELIVERED", "FAILED"}
        /\ canceling[o] <= MaxClicks
        /\ cancel[o] = "REQUESTED" =>
              isPreorder[o] /\ status[o] = "PAID_WAITING_STOCK"

\* How orders are paid and what fails where TokenInv holds.
ClaimingRoutes ==
    /\ \A o \in Orders : Route[o] \in {"wallet", "webhook"}
    /\ FaultKinds \subseteq {"queue"}
-----------------------------------------------------------------------------
(* Induction steps, one case per action.                                     *)

\* Every action keeps the types, and the sweep's budget covers its claim.
LEMMA TypeInductive == TypeInv /\ [Next]_vars => TypeInv'
<1> SUFFICES ASSUME TypeInv, [Next]_vars PROVE TypeInv'
  OBVIOUS
<1> USE OrdersAssumption, QtyAssumption, BoundsAssumption
    DEF TypeInv, TypeOK, Statuses, Steps, orderVars, queueVars, scanVars, workerVars, stockVars
<1>1. ASSUME NEW o \in Orders, Prepare(o) PROVE TypeInv'
  BY <1>1 DEF Prepare, Min0
<1>2. ASSUME NEW o \in Orders, Create(o) PROVE TypeInv'
  BY <1>2 DEF Create
<1>3. ASSUME NEW o \in Orders, Reject(o) PROVE TypeInv'
  BY <1>3 DEF Reject
<1>4. ASSUME NEW o \in Orders, Pay(o) PROVE TypeInv'
  BY <1>4 DEF Pay, MarkPaid
<1>5. ASSUME NEW o \in Orders, RequestCancel(o) PROVE TypeInv'
  BY <1>5 DEF RequestCancel, Waiting
<1>6. ASSUME NEW o \in Orders, EnqueueClaim(o) PROVE TypeInv'
  BY <1>6 DEF EnqueueClaim, SetStatus
<1>7. ASSUME NEW o \in Orders, EnqueueAdd(o) PROVE TypeInv'
  BY <1>7 DEF EnqueueAdd, AddPurchaseJob
<1>8. ASSUME NEW o \in Orders, NEW added \in BOOLEAN, EnqueueFail(o, added)
      PROVE  TypeInv'
  <2>1. queued' \in [Orders -> Nat] /\ jobKnown' \in [Orders -> BOOLEAN]
    <3>1. CASE added
      <4>1. AddPurchaseJob(o)
        BY <3>1, <1>8 DEF EnqueueFail
      <4> QED
        BY <4>1 DEF AddPurchaseJob
    <3>2. CASE ~added
      BY <3>2, <1>8 DEF EnqueueFail
    <3> QED
      BY <3>1, <3>2
  <2> QED
    BY <2>1, <1>8 DEF EnqueueFail, Fault, SetStatus
<1>9. ASSUME NEW o \in Orders, ApiCrash(o) PROVE TypeInv'
  BY <1>9 DEF ApiCrash, Fault
<1>10. ASSUME NEW o \in Orders, ScanSee(o) PROVE TypeInv'
  BY <1>10 DEF ScanSee
<1>11. ASSUME NEW o \in Orders, ScanPay(o) PROVE TypeInv'
  BY <1>11 DEF ScanPay, MarkPaid
<1>12. ASSUME NEW o \in Orders, ScanAdd(o) PROVE TypeInv'
  BY <1>12 DEF ScanAdd
<1>13. ASSUME NEW o \in Orders, ScanFail(o) PROVE TypeInv'
  BY <1>13 DEF ScanFail, Fault
<1>14. ASSUME NEW w \in Workers, NEW o \in Orders, Load(w, o) PROVE TypeInv'
  BY <1>14 DEF Load, Goto, FirstStep
<1>15. ASSUME NEW w \in Workers, CheckTurn(w) PROVE TypeInv'
  BY <1>15 DEF CheckTurn, Goto
<1>16. ASSUME NEW w \in Workers, MoveToWaiting(w) PROVE TypeInv'
  BY <1>16 DEF MoveToWaiting, Goto
<1>17. ASSUME NEW w \in Workers, Count(w) PROVE TypeInv'
  BY <1>17 DEF Count, Goto
<1>18. ASSUME NEW w \in Workers, Deliver(w) PROVE TypeInv'
  BY <1>18 DEF Deliver, Goto
<1>19. ASSUME NEW w \in Workers, Shortage(w) PROVE TypeInv'
  BY <1>19 DEF Shortage, Goto
<1>20. ASSUME NEW w \in Workers, Park(w) PROVE TypeInv'
  BY <1>20 DEF Park, Goto, Min0
<1>21. ASSUME NEW w \in Workers, Refund(w) PROVE TypeInv'
  BY <1>21 DEF Refund, Goto
<1>22. ASSUME NEW w \in Workers, JobFail(w) PROVE TypeInv'
  BY <1>22 DEF JobFail, Goto, Fault
<1>23. ASSUME NEW w \in Workers, Finish(w) PROVE TypeInv'
  BY <1>23 DEF Finish, Goto
<1>24. ASSUME NEW w \in Workers, Recover(w) PROVE TypeInv'
  BY <1>24 DEF Recover, Goto
<1>25. CASE Crash
  BY <1>25 DEF Crash, Fault, NoSweep
<1>26. CASE SweepStart
  BY <1>26 DEF SweepStart, NoSweep, Sweepable
<1>27. CASE SweepBudget
  BY <1>27 DEF SweepBudget
<1>28. ASSUME NEW o \in Orders, SweepClaim(o) PROVE TypeInv'
  BY <1>28 DEF SweepClaim, SweepNext, Sweepable
<1>29. ASSUME NEW o \in Orders, SweepSkip(o) PROVE TypeInv'
  BY <1>29 DEF SweepSkip, SweepNext
<1>30. CASE SweepEnd
  BY <1>30 DEF SweepEnd, NoSweep
<1>31. CASE SweepAdd
  <2>1. sweep.cur \in Orders /\ sweep.budget - Qty[sweep.cur] \in Nat
    BY <1>31 DEF SweepAdd
  <2>2. sweep' \in [pc : {"idle", "budget", "scan", "add"}, todo : SUBSET Orders,
                     budget : Nat, cur : Orders \cup {NoOrder}]
    BY <2>1, <1>31 DEF SweepAdd
  <2>3. sweep'.pc = "scan" /\ sweep'.cur = NoOrder
    BY <1>31 DEF SweepAdd
  <2> QED
    BY <2>1, <2>2, <2>3, <1>31 DEF SweepAdd
<1>32. ASSUME NEW added \in BOOLEAN, SweepFail(added) PROVE TypeInv'
  BY <1>32 DEF SweepFail, Fault, SetStatus, NoSweep
<1>33. ASSUME NEW n \in 1 .. Supply, Upload(n) PROVE TypeInv'
  BY <1>33 DEF Upload
<1>34. ASSUME NEW n \in 1 .. Supply, Extract(n) PROVE TypeInv'
  BY <1>34 DEF Extract
<1>35. ASSUME NEW n \in 1 .. Supply, SetCapacity(n) PROVE TypeInv'
  BY <1>35 DEF SetCapacity
<1>36. ASSUME NEW o \in Orders, Complete(o) PROVE TypeInv'
  BY <1>36 DEF Complete, Min0
<1>37. ASSUME NEW o \in Orders, CancelRead(o) PROVE TypeInv'
  BY <1>37 DEF CancelRead
<1>38. ASSUME NEW o \in Orders, CancelWrite(o) PROVE TypeInv'
  BY <1>38 DEF CancelWrite
<1>39. ASSUME NEW o \in Orders, RejectCancel(o) PROVE TypeInv'
  BY <1>39 DEF RejectCancel, Waiting
<1>40. ASSUME NEW o \in Orders, NEW by \in {"APPROVED", "SELLER_CANCELED"}, ResolveCancel(o, by)
      PROVE  TypeInv'
  BY <1>40 DEF ResolveCancel, Waiting
<1>41. ASSUME NEW o \in Orders, TakeTime(o) PROVE TypeInv'
  BY <1>41 DEF TakeTime
<1>42. ASSUME NEW w \in Workers, CountShared(w) PROVE TypeInv'
  BY <1>42 DEF CountShared, SharedShortage, Goto
<1>43. ASSUME NEW w \in Workers, DeliverShared(w) PROVE TypeInv'
  BY <1>43 DEF DeliverShared, Goto, Min0
<1>44. CASE UNCHANGED vars
  BY <1>44 DEF vars
<1> QED
  BY <1>1, <1>2, <1>3, <1>4, <1>5, <1>6, <1>7, <1>8, <1>9, <1>10, <1>11,
     <1>12, <1>13, <1>14, <1>15, <1>16, <1>17, <1>18, <1>19, <1>20, <1>21,
     <1>22, <1>23, <1>24, <1>25, <1>26, <1>27, <1>28, <1>29, <1>30, <1>31,
     <1>32, <1>33, <1>34, <1>35, <1>36, <1>37, <1>38, <1>39, <1>40, <1>41, <1>42, <1>43, <1>44
     DEF Next, Customer, Enqueue, Job, Sweep, Seller

\* No action, fault or payment route breaks PaidInv.
LEMMA PaidInductive == TypeInv /\ TypeInv' /\ PaidInv /\ [Next]_vars => PaidInv'
<1> SUFFICES ASSUME TypeInv, TypeInv', PaidInv, [Next]_vars PROVE PaidInv'
  OBVIOUS
<1> USE OrdersAssumption, QtyAssumption
    DEF TypeInv, TypeOK, PaidInv, Unpaid, orderVars, queueVars, scanVars, workerVars, stockVars
<1>1. ASSUME NEW o \in Orders, Prepare(o) PROVE PaidInv'
  BY <1>1 DEF Prepare, Min0
<1>2. ASSUME NEW o \in Orders, Create(o) PROVE PaidInv'
  BY <1>2 DEF Create
<1>3. ASSUME NEW o \in Orders, Reject(o) PROVE PaidInv'
  BY <1>3 DEF Reject
<1>4. ASSUME NEW o \in Orders, Pay(o) PROVE PaidInv'
  BY <1>4 DEF Pay, MarkPaid
<1>5. ASSUME NEW o \in Orders, RequestCancel(o) PROVE PaidInv'
  BY <1>5 DEF RequestCancel, Waiting
<1>6. ASSUME NEW o \in Orders, EnqueueClaim(o) PROVE PaidInv'
  BY <1>6 DEF EnqueueClaim, SetStatus
<1>7. ASSUME NEW o \in Orders, EnqueueAdd(o) PROVE PaidInv'
  BY <1>7 DEF EnqueueAdd, AddPurchaseJob
<1>8. ASSUME NEW o \in Orders, NEW added \in BOOLEAN, EnqueueFail(o, added)
      PROVE  PaidInv'
  BY <1>8 DEF EnqueueFail, Fault, AddPurchaseJob, SetStatus
<1>9. ASSUME NEW o \in Orders, ApiCrash(o) PROVE PaidInv'
  BY <1>9 DEF ApiCrash, Fault
<1>10. ASSUME NEW o \in Orders, ScanSee(o) PROVE PaidInv'
  BY <1>10 DEF ScanSee
<1>11. ASSUME NEW o \in Orders, ScanPay(o) PROVE PaidInv'
  BY <1>11 DEF ScanPay, MarkPaid
<1>12. ASSUME NEW o \in Orders, ScanAdd(o) PROVE PaidInv'
  BY <1>12 DEF ScanAdd
<1>13. ASSUME NEW o \in Orders, ScanFail(o) PROVE PaidInv'
  BY <1>13 DEF ScanFail, Fault
<1>14. ASSUME NEW w \in Workers, NEW o \in Orders, Load(w, o) PROVE PaidInv'
  BY <1>14 DEF Load, Goto, FirstStep
<1>15. ASSUME NEW w \in Workers, CheckTurn(w) PROVE PaidInv'
  BY <1>15 DEF CheckTurn, Goto
<1>16. ASSUME NEW w \in Workers, MoveToWaiting(w) PROVE PaidInv'
  BY <1>16 DEF MoveToWaiting, Goto
<1>17. ASSUME NEW w \in Workers, Count(w) PROVE PaidInv'
  BY <1>17 DEF Count, Goto
<1>18. ASSUME NEW w \in Workers, Deliver(w) PROVE PaidInv'
  BY <1>18 DEF Deliver, Goto
<1>19. ASSUME NEW w \in Workers, Shortage(w) PROVE PaidInv'
  BY <1>19 DEF Shortage, Goto
<1>20. ASSUME NEW w \in Workers, Park(w) PROVE PaidInv'
  BY <1>20 DEF Park, Goto, Min0
<1>21. ASSUME NEW w \in Workers, Refund(w) PROVE PaidInv'
  BY <1>21 DEF Refund, Goto
<1>22. ASSUME NEW w \in Workers, JobFail(w) PROVE PaidInv'
  BY <1>22 DEF JobFail, Goto, Fault
<1>23. ASSUME NEW w \in Workers, Finish(w) PROVE PaidInv'
  BY <1>23 DEF Finish, Goto
<1>24. ASSUME NEW w \in Workers, Recover(w) PROVE PaidInv'
  <2>1. word[w] \in Orders /\ payment[word[w]] # "PENDING"
    BY <1>24 DEF Recover
  <2>2. \A o \in Orders : queued'[o] > 0 => queued[o] > 0 \/ o = word[w]
    BY <2>1, <1>24 DEF Recover
  <2>3. \A v \in Workers : wpc'[v] # "idle" => wpc'[v] = wpc[v] /\ word'[v] = word[v]
    BY <1>24 DEF Recover, Goto
  <2>4. \A v \in Workers :
           /\ wpc'[v] # "idle" => payment'[word'[v]] # "PENDING"
           /\ wpc'[v] = "refund" => ~isPreorder'[word'[v]]
    BY <2>3, <1>24 DEF Recover
  <2>5. \A o \in Orders :
           \/ api'[o] # "no" \/ adding'[o] > 0 \/ queued'[o] > 0
           \/ canceling'[o] > 0 \/ o \in sweep'.todo \/ sweep'.cur = o
           => payment'[o] # "PENDING"
    BY <2>1, <2>2, <1>24 DEF Recover
  <2> QED
    BY <2>4, <2>5, <1>24 DEF Recover
<1>25. CASE Crash
  BY <1>25 DEF Crash, Fault, NoSweep
<1>26. CASE SweepStart
  <2>1. \A o \in Orders : o \in sweep'.todo => payment[o] = "PAID"
    BY <1>26 DEF SweepStart, NoSweep, Sweepable, InQueue
  <2>2. sweep'.cur = NoOrder
    BY <1>26 DEF SweepStart, NoSweep
  <2>3. UNCHANGED <<orderVars, queueVars, workerVars, refunds, canceling>>
    BY <1>26 DEF SweepStart
  <2> QED
    BY <2>1, <2>2, <2>3
<1>27. CASE SweepBudget
  BY <1>27 DEF SweepBudget
<1>28. ASSUME NEW o \in Orders, SweepClaim(o) PROVE PaidInv'
  BY <1>28 DEF SweepClaim, SweepNext, Sweepable
<1>29. ASSUME NEW o \in Orders, SweepSkip(o) PROVE PaidInv'
  BY <1>29 DEF SweepSkip, SweepNext
<1>30. CASE SweepEnd
  BY <1>30 DEF SweepEnd, NoSweep
<1>31. CASE SweepAdd
  BY <1>31 DEF SweepAdd
<1>32. ASSUME NEW added \in BOOLEAN, SweepFail(added) PROVE PaidInv'
  BY <1>32 DEF SweepFail, Fault, SetStatus, NoSweep
<1>33. ASSUME NEW n \in 1 .. Supply, Upload(n) PROVE PaidInv'
  BY <1>33 DEF Upload
<1>34. ASSUME NEW n \in 1 .. Supply, Extract(n) PROVE PaidInv'
  BY <1>34 DEF Extract
<1>35. ASSUME NEW n \in 1 .. Supply, SetCapacity(n) PROVE PaidInv'
  BY <1>35 DEF SetCapacity
<1>36. ASSUME NEW o \in Orders, Complete(o) PROVE PaidInv'
  BY <1>36 DEF Complete, Min0
<1>37. ASSUME NEW o \in Orders, CancelRead(o) PROVE PaidInv'
  BY <1>37 DEF CancelRead
<1>38. ASSUME NEW o \in Orders, CancelWrite(o) PROVE PaidInv'
  BY <1>38 DEF CancelWrite
<1>39. ASSUME NEW o \in Orders, RejectCancel(o) PROVE PaidInv'
  BY <1>39 DEF RejectCancel, Waiting
<1>40. ASSUME NEW o \in Orders, NEW by \in {"APPROVED", "SELLER_CANCELED"}, ResolveCancel(o, by)
      PROVE  PaidInv'
  BY <1>40 DEF ResolveCancel, Waiting
<1>41. ASSUME NEW o \in Orders, TakeTime(o) PROVE PaidInv'
  BY <1>41 DEF TakeTime
<1>42. ASSUME NEW w \in Workers, CountShared(w) PROVE PaidInv'
  BY <1>42 DEF CountShared, SharedShortage, Goto
<1>43. ASSUME NEW w \in Workers, DeliverShared(w) PROVE PaidInv'
  BY <1>43 DEF DeliverShared, Goto, Min0
<1>44. CASE UNCHANGED vars
  BY <1>44 DEF vars
<1> QED
  BY <1>1, <1>2, <1>3, <1>4, <1>5, <1>6, <1>7, <1>8, <1>9, <1>10, <1>11,
     <1>12, <1>13, <1>14, <1>15, <1>16, <1>17, <1>18, <1>19, <1>20, <1>21,
     <1>22, <1>23, <1>24, <1>25, <1>26, <1>27, <1>28, <1>29, <1>30, <1>31,
     <1>32, <1>33, <1>34, <1>35, <1>36, <1>37, <1>38, <1>39, <1>40, <1>41, <1>42, <1>43, <1>44
     DEF Next, Customer, Enqueue, Job, Sweep, Seller

\* Each claim (PAID or PAID_WAITING_STOCK to PROCESSING_PURCHASE) creates one
\* holder, each hand-over moves it, and nothing else touches the order.
LEMMA TokenInductive ==
    ASSUME ClaimingRoutes, TypeInv, TypeInv', TokenInv, GoodsInv, [Next]_vars
    PROVE  TokenInv'
<1> USE OrdersAssumption, QtyAssumption, BoundsAssumption
    DEF ClaimingRoutes, TypeInv, TypeOK, TokenInv, Busy, Unpaid,
        orderVars, queueVars, scanVars, workerVars, stockVars
<1>1. ASSUME NEW o \in Orders, Prepare(o) PROVE TokenInv'
  BY <1>1 DEF Prepare, Min0
<1>2. ASSUME NEW o \in Orders, Create(o) PROVE TokenInv'
  BY <1>2 DEF Create
<1>3. ASSUME NEW o \in Orders, Reject(o) PROVE TokenInv'
  BY <1>3 DEF Reject
<1>4. ASSUME NEW o \in Orders, Pay(o) PROVE TokenInv'
  BY <1>4 DEF Pay, MarkPaid
<1>5. ASSUME NEW o \in Orders, RequestCancel(o) PROVE TokenInv'
  BY <1>5 DEF RequestCancel, Waiting
<1>6. ASSUME NEW o \in Orders, EnqueueClaim(o) PROVE TokenInv'
  BY <1>6 DEF EnqueueClaim, SetStatus
<1>7. ASSUME NEW o \in Orders, EnqueueAdd(o) PROVE TokenInv'
  BY <1>7 DEF EnqueueAdd, AddPurchaseJob
<1>8. ASSUME NEW o \in Orders, NEW added \in BOOLEAN, EnqueueFail(o, added)
      PROVE  TokenInv'
  BY <1>8 DEF EnqueueFail, Fault, AddPurchaseJob, SetStatus
<1>9. ASSUME NEW o \in Orders, ApiCrash(o) PROVE TokenInv'
  BY <1>9 DEF ApiCrash, Fault
<1>10. ASSUME NEW o \in Orders, ScanSee(o) PROVE TokenInv'
  BY <1>10 DEF ScanSee
<1>11. ASSUME NEW o \in Orders, ScanPay(o) PROVE TokenInv'
  BY <1>11 DEF ScanPay, MarkPaid
<1>12. ASSUME NEW o \in Orders, ScanAdd(o) PROVE TokenInv'
  BY <1>12 DEF ScanAdd
<1>13. ASSUME NEW o \in Orders, ScanFail(o) PROVE TokenInv'
  BY <1>13 DEF ScanFail, Fault
<1>14. ASSUME NEW w \in Workers, NEW o \in Orders, Load(w, o) PROVE TokenInv'
  BY <1>14 DEF Load, Goto, FirstStep
<1>15. ASSUME NEW w \in Workers, CheckTurn(w) PROVE TokenInv'
  BY <1>15 DEF CheckTurn, Goto
<1>16. ASSUME NEW w \in Workers, MoveToWaiting(w) PROVE TokenInv'
  BY <1>16 DEF MoveToWaiting, Goto
<1>17. ASSUME NEW w \in Workers, Count(w) PROVE TokenInv'
  BY <1>17 DEF Count, Goto
<1>18. ASSUME NEW w \in Workers, Deliver(w) PROVE TokenInv'
  BY <1>18 DEF Deliver, Goto
<1>19. ASSUME NEW w \in Workers, Shortage(w) PROVE TokenInv'
  BY <1>19 DEF Shortage, Goto
<1>20. ASSUME NEW w \in Workers, Park(w) PROVE TokenInv'
  BY <1>20 DEF Park, Goto, Min0
<1>21. ASSUME NEW w \in Workers, Refund(w) PROVE TokenInv'
  BY <1>21 DEF Refund, Goto
<1>22. ASSUME NEW w \in Workers, JobFail(w) PROVE TokenInv'
  BY <1>22 DEF JobFail, Goto, Fault
<1>23. ASSUME NEW w \in Workers, Finish(w) PROVE TokenInv'
  BY <1>23 DEF Finish, Goto
<1>24. ASSUME NEW w \in Workers, Recover(w) PROVE TokenInv'
  BY <1>24 DEF Recover, Goto
<1>25. CASE Crash
  BY <1>25 DEF Crash, Fault, NoSweep
<1>26. CASE SweepStart
  <2>1. sweep'.cur = NoOrder
    BY <1>26 DEF SweepStart, NoSweep
  <2>2. UNCHANGED <<orderVars, queueVars, workerVars>>
    BY <1>26 DEF SweepStart
  <2> QED
    BY <2>1, <2>2
<1>27. CASE SweepBudget
  BY <1>27 DEF SweepBudget
<1>28. ASSUME NEW o \in Orders, SweepClaim(o) PROVE TokenInv'
  BY <1>28 DEF SweepClaim, SweepNext, Sweepable
<1>29. ASSUME NEW o \in Orders, SweepSkip(o) PROVE TokenInv'
  BY <1>29 DEF SweepSkip, SweepNext
<1>30. CASE SweepEnd
  BY <1>30 DEF SweepEnd, NoSweep
<1>31. CASE SweepAdd
  BY <1>31 DEF SweepAdd
<1>32. ASSUME NEW added \in BOOLEAN, SweepFail(added) PROVE TokenInv'
  BY <1>32 DEF SweepFail, Fault, SetStatus, NoSweep
<1>33. ASSUME NEW n \in 1 .. Supply, Upload(n) PROVE TokenInv'
  BY <1>33 DEF Upload
<1>34. ASSUME NEW n \in 1 .. Supply, Extract(n) PROVE TokenInv'
  BY <1>34 DEF Extract
<1>35. ASSUME NEW n \in 1 .. Supply, SetCapacity(n) PROVE TokenInv'
  BY <1>35 DEF SetCapacity
<1>36. ASSUME NEW o \in Orders, Complete(o) PROVE TokenInv'
  BY <1>36 DEF Complete, Min0
<1>37. ASSUME NEW o \in Orders, CancelRead(o) PROVE TokenInv'
  BY <1>37 DEF CancelRead
<1>38. ASSUME NEW o \in Orders, CancelWrite(o) PROVE TokenInv'
  BY <1>38 DEF CancelWrite, GoodsInv
<1>39. ASSUME NEW o \in Orders, RejectCancel(o) PROVE TokenInv'
  BY <1>39 DEF RejectCancel, Waiting
<1>40. ASSUME NEW o \in Orders, NEW by \in {"APPROVED", "SELLER_CANCELED"}, ResolveCancel(o, by)
      PROVE  TokenInv'
  BY <1>40 DEF ResolveCancel, Waiting
<1>41. ASSUME NEW o \in Orders, TakeTime(o) PROVE TokenInv'
  BY <1>41 DEF TakeTime
<1>42. ASSUME NEW w \in Workers, CountShared(w) PROVE TokenInv'
  BY <1>42 DEF CountShared, SharedShortage, Goto
<1>43. ASSUME NEW w \in Workers, DeliverShared(w) PROVE TokenInv'
  BY <1>43 DEF DeliverShared, Goto, Min0
<1>44. CASE UNCHANGED vars
  BY <1>44 DEF vars
<1> QED
  BY <1>1, <1>2, <1>3, <1>4, <1>5, <1>6, <1>7, <1>8, <1>9, <1>10, <1>11,
     <1>12, <1>13, <1>14, <1>15, <1>16, <1>17, <1>18, <1>19, <1>20, <1>21,
     <1>22, <1>23, <1>24, <1>25, <1>26, <1>27, <1>28, <1>29, <1>30, <1>31,
     <1>32, <1>33, <1>34, <1>35, <1>36, <1>37, <1>38, <1>39, <1>40, <1>41, <1>42, <1>43, <1>44
     DEF Next, Customer, Enqueue, Job, Sweep, Seller

\* Goods and refunds are booked by the holder, or under the order's row lock.
LEMMA GoodsInductive ==
    ASSUME ClaimingRoutes, TypeInv, TypeInv', TokenInv, GoodsInv, [Next]_vars
    PROVE  GoodsInv'
<1> USE OrdersAssumption, QtyAssumption, BoundsAssumption
    DEF ClaimingRoutes, TypeInv, TypeOK, TokenInv, Busy, Unpaid, GoodsInv,
        orderVars, queueVars, scanVars, workerVars, stockVars
<1>1. ASSUME NEW o \in Orders, Prepare(o) PROVE GoodsInv'
  BY <1>1 DEF Prepare, Min0
<1>2. ASSUME NEW o \in Orders, Create(o) PROVE GoodsInv'
  BY <1>2 DEF Create
<1>3. ASSUME NEW o \in Orders, Reject(o) PROVE GoodsInv'
  BY <1>3 DEF Reject
<1>4. ASSUME NEW o \in Orders, Pay(o) PROVE GoodsInv'
  BY <1>4 DEF Pay, MarkPaid
<1>5. ASSUME NEW o \in Orders, RequestCancel(o) PROVE GoodsInv'
  BY <1>5 DEF RequestCancel, Waiting
<1>6. ASSUME NEW o \in Orders, EnqueueClaim(o) PROVE GoodsInv'
  BY <1>6 DEF EnqueueClaim, SetStatus
<1>7. ASSUME NEW o \in Orders, EnqueueAdd(o) PROVE GoodsInv'
  BY <1>7 DEF EnqueueAdd, AddPurchaseJob
<1>8. ASSUME NEW o \in Orders, NEW added \in BOOLEAN, EnqueueFail(o, added)
      PROVE  GoodsInv'
  BY <1>8 DEF EnqueueFail, Fault, AddPurchaseJob, SetStatus
<1>9. ASSUME NEW o \in Orders, ApiCrash(o) PROVE GoodsInv'
  BY <1>9 DEF ApiCrash, Fault
<1>10. ASSUME NEW o \in Orders, ScanSee(o) PROVE GoodsInv'
  BY <1>10 DEF ScanSee
<1>11. ASSUME NEW o \in Orders, ScanPay(o) PROVE GoodsInv'
  BY <1>11 DEF ScanPay, MarkPaid
<1>12. ASSUME NEW o \in Orders, ScanAdd(o) PROVE GoodsInv'
  BY <1>12 DEF ScanAdd
<1>13. ASSUME NEW o \in Orders, ScanFail(o) PROVE GoodsInv'
  BY <1>13 DEF ScanFail, Fault
<1>14. ASSUME NEW w \in Workers, NEW o \in Orders, Load(w, o) PROVE GoodsInv'
  BY <1>14 DEF Load, Goto, FirstStep
<1>15. ASSUME NEW w \in Workers, CheckTurn(w) PROVE GoodsInv'
  BY <1>15 DEF CheckTurn, Goto
<1>16. ASSUME NEW w \in Workers, MoveToWaiting(w) PROVE GoodsInv'
  BY <1>16 DEF MoveToWaiting, Goto
<1>17. ASSUME NEW w \in Workers, Count(w) PROVE GoodsInv'
  BY <1>17 DEF Count, Goto
<1>18. ASSUME NEW w \in Workers, Deliver(w) PROVE GoodsInv'
  BY <1>18 DEF Deliver, Goto
<1>19. ASSUME NEW w \in Workers, Shortage(w) PROVE GoodsInv'
  BY <1>19 DEF Shortage, Goto
<1>20. ASSUME NEW w \in Workers, Park(w) PROVE GoodsInv'
  BY <1>20 DEF Park, Goto, Min0
<1>21. ASSUME NEW w \in Workers, Refund(w) PROVE GoodsInv'
  BY <1>21 DEF Refund, Goto
<1>22. ASSUME NEW w \in Workers, JobFail(w) PROVE GoodsInv'
  BY <1>22 DEF JobFail, Goto, Fault
<1>23. ASSUME NEW w \in Workers, Finish(w) PROVE GoodsInv'
  BY <1>23 DEF Finish, Goto
<1>24. ASSUME NEW w \in Workers, Recover(w) PROVE GoodsInv'
  BY <1>24 DEF Recover, Goto
<1>25. CASE Crash
  BY <1>25 DEF Crash, Fault, NoSweep
<1>26. CASE SweepStart
  <2>1. sweep'.cur = NoOrder /\ sweep.cur = NoOrder
    BY <1>26 DEF SweepStart, NoSweep
  <2>2. UNCHANGED <<orderVars, queueVars, workerVars, given, refunds, canceling>>
    BY <1>26 DEF SweepStart
  <2> QED
    BY <2>1, <2>2
<1>27. CASE SweepBudget
  BY <1>27 DEF SweepBudget
<1>28. ASSUME NEW o \in Orders, SweepClaim(o) PROVE GoodsInv'
  BY <1>28 DEF SweepClaim, Sweepable, InQueue
<1>29. ASSUME NEW o \in Orders, SweepSkip(o) PROVE GoodsInv'
  BY <1>29 DEF SweepSkip, SweepNext
<1>30. CASE SweepEnd
  BY <1>30 DEF SweepEnd, NoSweep
<1>31. CASE SweepAdd
  BY <1>31 DEF SweepAdd
<1>32. ASSUME NEW added \in BOOLEAN, SweepFail(added) PROVE GoodsInv'
  BY <1>32 DEF SweepFail, Fault, SetStatus, NoSweep
<1>33. ASSUME NEW n \in 1 .. Supply, Upload(n) PROVE GoodsInv'
  BY <1>33 DEF Upload
<1>34. ASSUME NEW n \in 1 .. Supply, Extract(n) PROVE GoodsInv'
  BY <1>34 DEF Extract
<1>35. ASSUME NEW n \in 1 .. Supply, SetCapacity(n) PROVE GoodsInv'
  BY <1>35 DEF SetCapacity
<1>36. ASSUME NEW o \in Orders, Complete(o) PROVE GoodsInv'
  BY <1>36 DEF Complete, Min0
<1>37. ASSUME NEW o \in Orders, CancelRead(o) PROVE GoodsInv'
  BY <1>37 DEF CancelRead
<1>38. ASSUME NEW o \in Orders, CancelWrite(o) PROVE GoodsInv'
  BY <1>38 DEF CancelWrite
<1>39. ASSUME NEW o \in Orders, RejectCancel(o) PROVE GoodsInv'
  BY <1>39 DEF RejectCancel, Waiting
<1>40. ASSUME NEW o \in Orders, NEW by \in {"APPROVED", "SELLER_CANCELED"}, ResolveCancel(o, by)
      PROVE  GoodsInv'
  BY <1>40 DEF ResolveCancel, Waiting
<1>41. ASSUME NEW o \in Orders, TakeTime(o) PROVE GoodsInv'
  BY <1>41 DEF TakeTime
<1>42. ASSUME NEW w \in Workers, CountShared(w) PROVE GoodsInv'
  BY <1>42 DEF CountShared, SharedShortage, Goto
<1>43. ASSUME NEW w \in Workers, DeliverShared(w) PROVE GoodsInv'
  BY <1>43 DEF DeliverShared, Goto, Min0
<1>44. CASE UNCHANGED vars
  BY <1>44 DEF vars
<1> QED
  BY <1>1, <1>2, <1>3, <1>4, <1>5, <1>6, <1>7, <1>8, <1>9, <1>10, <1>11,
     <1>12, <1>13, <1>14, <1>15, <1>16, <1>17, <1>18, <1>19, <1>20, <1>21,
     <1>22, <1>23, <1>24, <1>25, <1>26, <1>27, <1>28, <1>29, <1>30, <1>31,
     <1>32, <1>33, <1>34, <1>35, <1>36, <1>37, <1>38, <1>39, <1>40, <1>41, <1>42, <1>43, <1>44
     DEF Next, Customer, Enqueue, Job, Sweep, Seller

\* An ordinary order is never dropped between two holders.
LEMMA HeldInductive ==
    ASSUME ClaimingRoutes, TypeInv, TypeInv', TokenInv, GoodsInv, OrdinaryNotStranded, [Next]_vars
    PROVE  OrdinaryNotStranded'
<1> USE OrdersAssumption, QtyAssumption, BoundsAssumption
    DEF ClaimingRoutes, TypeInv, TypeOK, TokenInv, Busy, Unpaid, GoodsInv, OrdinaryNotStranded, Held,
        orderVars, queueVars, scanVars, workerVars, stockVars
<1>1. ASSUME NEW o \in Orders, Prepare(o) PROVE OrdinaryNotStranded'
  BY <1>1 DEF Prepare, Min0
<1>2. ASSUME NEW o \in Orders, Create(o) PROVE OrdinaryNotStranded'
  BY <1>2 DEF Create
<1>3. ASSUME NEW o \in Orders, Reject(o) PROVE OrdinaryNotStranded'
  BY <1>3 DEF Reject
<1>4. ASSUME NEW o \in Orders, Pay(o) PROVE OrdinaryNotStranded'
  BY <1>4 DEF Pay, MarkPaid
<1>5. ASSUME NEW o \in Orders, RequestCancel(o) PROVE OrdinaryNotStranded'
  BY <1>5 DEF RequestCancel, Waiting
<1>6. ASSUME NEW o \in Orders, EnqueueClaim(o) PROVE OrdinaryNotStranded'
  BY <1>6 DEF EnqueueClaim, SetStatus
<1>7. ASSUME NEW o \in Orders, EnqueueAdd(o) PROVE OrdinaryNotStranded'
  BY <1>7 DEF EnqueueAdd, AddPurchaseJob
<1>8. ASSUME NEW o \in Orders, NEW added \in BOOLEAN, EnqueueFail(o, added)
      PROVE  OrdinaryNotStranded'
  BY <1>8 DEF EnqueueFail, Fault, AddPurchaseJob, SetStatus
<1>9. ASSUME NEW o \in Orders, ApiCrash(o) PROVE OrdinaryNotStranded'
  BY <1>9 DEF ApiCrash, Fault
<1>10. ASSUME NEW o \in Orders, ScanSee(o) PROVE OrdinaryNotStranded'
  BY <1>10 DEF ScanSee
<1>11. ASSUME NEW o \in Orders, ScanPay(o) PROVE OrdinaryNotStranded'
  BY <1>11 DEF ScanPay, MarkPaid
<1>12. ASSUME NEW o \in Orders, ScanAdd(o) PROVE OrdinaryNotStranded'
  BY <1>12 DEF ScanAdd
<1>13. ASSUME NEW o \in Orders, ScanFail(o) PROVE OrdinaryNotStranded'
  BY <1>13 DEF ScanFail, Fault
<1>14. ASSUME NEW w \in Workers, NEW o \in Orders, Load(w, o)
      PROVE  OrdinaryNotStranded'
  BY <1>14 DEF Load, Goto, FirstStep
<1>15. ASSUME NEW w \in Workers, CheckTurn(w) PROVE OrdinaryNotStranded'
  BY <1>15 DEF CheckTurn, Goto
<1>16. ASSUME NEW w \in Workers, MoveToWaiting(w) PROVE OrdinaryNotStranded'
  BY <1>16 DEF MoveToWaiting, Goto
<1>17. ASSUME NEW w \in Workers, Count(w) PROVE OrdinaryNotStranded'
  BY <1>17 DEF Count, Goto
<1>18. ASSUME NEW w \in Workers, Deliver(w) PROVE OrdinaryNotStranded'
  BY <1>18 DEF Deliver, Goto
<1>19. ASSUME NEW w \in Workers, Shortage(w) PROVE OrdinaryNotStranded'
  BY <1>19 DEF Shortage, Goto
<1>20. ASSUME NEW w \in Workers, Park(w) PROVE OrdinaryNotStranded'
  BY <1>20 DEF Park, Goto, Min0
<1>21. ASSUME NEW w \in Workers, Refund(w) PROVE OrdinaryNotStranded'
  BY <1>21 DEF Refund, Goto
<1>22. ASSUME NEW w \in Workers, JobFail(w) PROVE OrdinaryNotStranded'
  BY <1>22 DEF JobFail, Goto, Fault
<1>23. ASSUME NEW w \in Workers, Finish(w) PROVE OrdinaryNotStranded'
  BY <1>23 DEF Finish, Goto
<1>24. ASSUME NEW w \in Workers, Recover(w) PROVE OrdinaryNotStranded'
  BY <1>24 DEF Recover, Goto
<1>25. CASE Crash
  BY <1>25 DEF Crash, Fault, NoSweep
<1>26. CASE SweepStart
  <2>1. sweep'.cur = NoOrder /\ sweep.cur = NoOrder
    BY <1>26 DEF SweepStart, NoSweep
  <2>2. UNCHANGED <<orderVars, queueVars, workerVars, given, refunds, canceling>>
    BY <1>26 DEF SweepStart
  <2> QED
    BY <2>1, <2>2
<1>27. CASE SweepBudget
  BY <1>27 DEF SweepBudget
<1>28. ASSUME NEW o \in Orders, SweepClaim(o) PROVE OrdinaryNotStranded'
  BY <1>28 DEF SweepClaim, SweepNext, Sweepable
<1>29. ASSUME NEW o \in Orders, SweepSkip(o) PROVE OrdinaryNotStranded'
  BY <1>29 DEF SweepSkip, SweepNext
<1>30. CASE SweepEnd
  BY <1>30 DEF SweepEnd, NoSweep
<1>31. CASE SweepAdd
  BY <1>31 DEF SweepAdd
<1>32. ASSUME NEW added \in BOOLEAN, SweepFail(added) PROVE OrdinaryNotStranded'
  BY <1>32 DEF SweepFail, Fault, SetStatus, NoSweep
<1>33. ASSUME NEW n \in 1 .. Supply, Upload(n) PROVE OrdinaryNotStranded'
  BY <1>33 DEF Upload
<1>34. ASSUME NEW n \in 1 .. Supply, Extract(n) PROVE OrdinaryNotStranded'
  BY <1>34 DEF Extract
<1>35. ASSUME NEW n \in 1 .. Supply, SetCapacity(n) PROVE OrdinaryNotStranded'
  BY <1>35 DEF SetCapacity
<1>36. ASSUME NEW o \in Orders, Complete(o) PROVE OrdinaryNotStranded'
  BY <1>36 DEF Complete, Min0
<1>37. ASSUME NEW o \in Orders, CancelRead(o) PROVE OrdinaryNotStranded'
  BY <1>37 DEF CancelRead
<1>38. ASSUME NEW o \in Orders, CancelWrite(o) PROVE OrdinaryNotStranded'
  BY <1>38 DEF CancelWrite
<1>39. ASSUME NEW o \in Orders, RejectCancel(o) PROVE OrdinaryNotStranded'
  BY <1>39 DEF RejectCancel, Waiting
<1>40. ASSUME NEW o \in Orders, NEW by \in {"APPROVED", "SELLER_CANCELED"}, ResolveCancel(o, by)
      PROVE  OrdinaryNotStranded'
  BY <1>40 DEF ResolveCancel, Waiting
<1>41. ASSUME NEW o \in Orders, TakeTime(o) PROVE OrdinaryNotStranded'
  BY <1>41 DEF TakeTime
<1>42. ASSUME NEW w \in Workers, CountShared(w) PROVE OrdinaryNotStranded'
  BY <1>42 DEF CountShared, SharedShortage, Goto
<1>43. ASSUME NEW w \in Workers, DeliverShared(w) PROVE OrdinaryNotStranded'
  BY <1>43 DEF DeliverShared, Goto, Min0
<1>44. CASE UNCHANGED vars
  BY <1>44 DEF vars
<1> QED
  BY <1>1, <1>2, <1>3, <1>4, <1>5, <1>6, <1>7, <1>8, <1>9, <1>10, <1>11,
     <1>12, <1>13, <1>14, <1>15, <1>16, <1>17, <1>18, <1>19, <1>20, <1>21,
     <1>22, <1>23, <1>24, <1>25, <1>26, <1>27, <1>28, <1>29, <1>30, <1>31,
     <1>32, <1>33, <1>34, <1>35, <1>36, <1>37, <1>38, <1>39, <1>40, <1>41, <1>42, <1>43, <1>44, ZenonT(60)
     DEF Next, Customer, Enqueue, Job, Sweep, Seller

-----------------------------------------------------------------------------
(* The theorems.                                                             *)

\* TypeInv holds in every reachable state.
LEMMA TypeInvariant == Spec => []TypeInv
<1>1. Init => TypeInv
  BY OrdersAssumption, BoundsAssumption
     DEF Init, TypeInv, TypeOK, Statuses, Steps, NoSweep
<1> QED
  BY <1>1, TypeInductive, PTL DEF Spec

\* Every reachable state is well typed, for all orders, quantities, payment
\* routes and faults.
THEOREM FulfillmentTypes == Spec => []TypeOK
<1>1. TypeInv => TypeOK
  BY DEF TypeInv
<1> QED
  BY <1>1, TypeInvariant, PTL

\* refundOutOfStockOrderToCustomerWallet and resolvePreorderCancellation never
\* credit the same order twice, however it was paid, whatever crashes, is run
\* again or fails.
THEOREM NoDoubleRefund == Spec => []RefundOnce
<1>1. Init => PaidInv
  BY OrdersAssumption DEF Init, PaidInv, Unpaid, NoSweep
<1>2. PaidInv => RefundOnce
  BY DEF PaidInv, RefundOnce
<1> QED
  BY <1>1, <1>2, TypeInvariant, PaidInductive, PTL DEF Spec

\* The inductive invariant of the claiming routes.
AllInv == TypeInv /\ TokenInv /\ GoodsInv /\ OrdinaryNotStranded

\* It holds in every reachable state when orders are claimed before they are
\* enqueued and only queue.add may fail.
LEMMA AllInvariant ==
    ASSUME ClaimingRoutes
    PROVE  Spec => []AllInv
<1>1. Init => AllInv
  <2> SUFFICES ASSUME Init PROVE AllInv
    OBVIOUS
  <2>1. TypeInv
    BY OrdersAssumption, BoundsAssumption
       DEF Init, TypeInv, TypeOK, Statuses, Steps, NoSweep
  <2>2. TokenInv
    BY OrdersAssumption DEF Init, TokenInv, Busy, Unpaid, NoSweep
  <2>3. GoodsInv
    BY QtyAssumption, BoundsAssumption DEF Init, GoodsInv
  <2>4. OrdinaryNotStranded
    BY DEF Init, OrdinaryNotStranded
  <2> QED
    BY <2>1, <2>2, <2>3, <2>4 DEF AllInv
<1>2. AllInv /\ [Next]_vars => AllInv'
  <2> SUFFICES ASSUME AllInv, [Next]_vars PROVE AllInv'
    OBVIOUS
  <2>1. TypeInv'
    BY TypeInductive DEF AllInv
  <2> QED
    BY <2>1, ClaimingRoutes, TokenInductive, GoodsInductive, HeldInductive DEF AllInv
<1> QED
  BY <1>1, <1>2, PTL DEF Spec

\* On the claiming routes an order gets its goods at most once and never both
\* goods and a refund: processPurchase, the seller's completion and the
\* cancellation workflow exclude each other.
THEOREM SettledAtMostOnce ==
    ASSUME ClaimingRoutes
    PROVE  Spec => []SettledOnce
<1>1. AllInv => SettledOnce
  BY QtyAssumption DEF AllInv, TypeInv, TypeOK, GoodsInv, SettledOnce
<1> QED
  BY <1>1, AllInvariant, PTL

\* On the claiming routes every ordinary order in PROCESSING_PURCHASE has a
\* job or somebody about to add one, a failing queue included.
THEOREM OrdinaryAlwaysHeld ==
    ASSUME ClaimingRoutes
    PROVE  Spec => []OrdinaryNotStranded
<1>1. AllInv => OrdinaryNotStranded
  BY DEF AllInv
<1> QED
  BY <1>1, AllInvariant, PTL

\* Only the delivery transaction and the seller's completion hand out goods.
LEMMA WhoGives ==
    [Next]_vars => \/ UNCHANGED given
                   \/ \E w \in Workers : Deliver(w) \/ DeliverShared(w)
                   \/ \E o \in Orders : Complete(o)
<1> USE DEF orderVars, queueVars, scanVars, workerVars, stockVars
<1> QED
  BY ZenonT(60) DEF Next, Customer, Enqueue, Job, Sweep, Seller, vars, Prepare, Create,
     Reject, TakeTime, Pay, RequestCancel, EnqueueClaim, EnqueueAdd, EnqueueFail,
     ApiCrash, ScanSee, ScanPay, ScanAdd, ScanFail, Load, CheckTurn,
     MoveToWaiting, CountShared, Count, Shortage, Park, Refund, JobFail, Finish, Recover,
     Crash, SweepStart, SweepBudget, SweepClaim, SweepSkip, SweepEnd, SweepAdd,
     SweepFail, Upload, Extract, SetCapacity, CancelRead, CancelWrite,
     RejectCancel, ResolveCancel

\* On the claiming routes nothing is delivered on a pre-order while a
\* customer's cancellation request waits for the seller's decision.
THEOREM RequestsHoldGoods ==
    ASSUME ClaimingRoutes
    PROVE  Spec => RequestHoldsDelivery
<1>1. AllInv /\ [Next]_vars =>
         [\A o \in Orders : cancel[o] = "REQUESTED" => given'[o] = given[o]]_vars
  <2> SUFFICES ASSUME AllInv, [Next]_vars, NEW o \in Orders, cancel[o] = "REQUESTED"
               PROVE  given'[o] = given[o]
    OBVIOUS
  <2> USE DEF orderVars, queueVars, scanVars, workerVars, stockVars
  <2>1. ASSUME NEW w \in Workers, Deliver(w) \/ DeliverShared(w) PROVE given'[o] = given[o]
    BY <2>1 DEF Deliver, DeliverShared, AllInv, TypeInv, TypeOK, TokenInv, Busy, GoodsInv
  <2>2. ASSUME NEW q \in Orders, Complete(q) PROVE given'[o] = given[o]
    BY <2>2 DEF Complete, AllInv, TypeInv, TypeOK, GoodsInv
  <2> QED
    BY <2>1, <2>2, WhoGives
<1> QED
  BY <1>1, AllInvariant, PTL DEF Spec, RequestHoldsDelivery

-----------------------------------------------------------------------------
\* Fulfillment implements OrderPromise on the claiming payment routes, as long as only the
\* queue fails: every step of a job, the sweep, a callback, a seller or a customer maps to a
\* step of the promise or to none.

\* An order whose payment was taken has a rank.
RankInv == \A o \in Orders : payment[o] # "PENDING" => paidAt[o] > 0

\* What is as it was for the customer of order o.
Same(o) ==
    /\ Outcome(o)' = Outcome(o)
    /\ InQueue(o)' <=> InQueue(o)
    /\ InQueue(o) => paidAt'[o] = paidAt[o] /\ cancel'[o] = cancel[o]

\* A step that is no customer's business is no step of the promise.
LEMMA Stutters ==
    ASSUME \A o \in Orders : Same(o)
    PROVE  UNCHANGED <<Outcomes, Places, Requests>>
<1>1. UNCHANGED Outcomes
  BY DEF Same, Outcomes
<1>2. UNCHANGED Places
  BY DEF Same, Places
<1>3. UNCHANGED Requests
  BY DEF Same, Requests
<1> QED
  BY <1>1, <1>2, <1>3

\* An order leaves the line when it is settled, and no other is concerned.
LEMMA Settles ==
    ASSUME NEW o \in Orders, NEW how,
           Outcome(o) = "paid", Outcome(o)' = how, ~InQueue(o)',
           \A p \in Orders \ {o} : Same(p), Called' = Called \ {o},
           UNCHANGED <<stamp, clock>>
    PROVE  Promise!Settle(o, how)
<1>1. Outcomes[o] = "paid"
  BY DEF Outcomes
<1>2. Outcomes' = [Outcomes EXCEPT ![o] = how]
  BY DEF Outcomes, Same
<1>3. Places' = [Places EXCEPT ![o] = 0]
  BY DEF Places, Same
<1>4. Requests' = Requests \ {o}
  BY DEF Requests, Same
<1> QED
  BY <1>1, <1>2, <1>3, <1>4 DEF Promise!Settle

\* A step that touches no order row, no goods and no money.
LEMMA FrameSame ==
    ASSUME UNCHANGED <<orderVars, given, refunds>>
    PROVE  UNCHANGED <<Outcomes, Places, stamp, clock, Requests>>
<1>1. \A o \in Orders : Same(o)
  BY DEF Same, Outcome, InQueue, orderVars
<1> QED
  BY <1>1, Stutters DEF orderVars

\* A step that moves unpaid orders about, or paid ones within the line.
LEMMA StatusSame ==
    ASSUME UNCHANGED <<payment, paidAt, cancel, given, refunds>>,
           \A o \in Orders :
              payment[o] = "PAID" =>
                 /\ isPreorder'[o] = isPreorder[o]
                 /\ isPreorder[o] =>
                       (status'[o] \in {"PAID", "PROCESSING_PURCHASE", "PAID_WAITING_STOCK"}
                        <=> status[o] \in {"PAID", "PROCESSING_PURCHASE", "PAID_WAITING_STOCK"})
    PROVE  UNCHANGED <<Outcomes, Places, Requests>>
<1>1. \A o \in Orders : Outcome(o)' = Outcome(o)
  BY DEF Outcome
<1>2. \A o \in Orders : InQueue(o)' <=> InQueue(o)
  BY DEF InQueue
<1>3. \A o \in Orders : Same(o)
  BY <1>1, <1>2 DEF Same
<1> QED
  BY <1>3, Stutters

\* Job slot w has passed the turn check of pre-order o and goes for the goods.
OnTurn(w, o) == isPreorder[o] /\ word[w] = o /\ wpc[w] \in {"count", "pop"}

\* Who is called up changes only with a job that passes or leaves its turn.
LEMMA CalledSame ==
    ASSUME \A w \in Workers, o \in Orders : OnTurn(w, o)' <=> OnTurn(w, o)
    PROVE  UNCHANGED Called
<1>1. Called = {o \in Orders : \E w \in Workers : OnTurn(w, o)}
  BY DEF Called, OnTurn
<1>2. Called' = {o \in Orders : \E w \in Workers : OnTurn(w, o)'}
  BY DEF Called, OnTurn
<1> QED
  BY <1>1, <1>2

-----------------------------------------------------------------------------
(* One case per kind of step.                                                *)

\* Everything the proof knows of a state.
FullInv == AllInv /\ PaidInv /\ RankInv

\* No other slot holds the order of a slot that has not finished with it.
LEMMA OneSlot ==
    ASSUME FullInv, NEW w \in Workers, NEW o \in Orders, Busy(w, o),
           NEW v \in Workers, v # w
    PROVE  ~OnTurn(v, o)
BY DEF FullInv, AllInv, TokenInv, Busy, OnTurn

\* A job that is not, or no longer, on its turn leaves the call.
LEMMA LeavesTurn ==
    ASSUME FullInv, NEW w \in Workers, word[w] \in Orders, wpc[w] # "post",
           UNCHANGED isPreorder,
           \A o \in Orders : ~OnTurn(w, o)',
           \A v \in Workers \ {w} : word'[v] = word[v] /\ wpc'[v] = wpc[v]
    PROVE  Called' = Called \ {word[w]}
<1>1. Called = {o \in Orders : \E v \in Workers : OnTurn(v, o)}
  BY DEF Called, OnTurn
<1>2. Called' = {o \in Orders : \E v \in Workers : OnTurn(v, o)'}
  BY DEF Called, OnTurn
<1>3. \A v \in Workers \ {w}, o \in Orders : OnTurn(v, o)' <=> OnTurn(v, o)
  BY DEF OnTurn
<1>4. \A v \in Workers \ {w} : ~OnTurn(v, word[w])
  BY OneSlot DEF Busy
<1>5. \A o \in Orders \ {word[w]} : ~OnTurn(w, o)
  BY DEF OnTurn
<1> QED
  BY <1>1, <1>2, <1>3, <1>4, <1>5

\* Steps that move no job and touch no row of a job's order leave the calls.
LEMMA NoJobMoves ==
    ASSUME FullInv, UNCHANGED <<wpc, word>>,
           \A o \in Orders : payment[o] # "PENDING" => isPreorder'[o] = isPreorder[o]
    PROVE  UNCHANGED Called
<1>1. ASSUME NEW w \in Workers, NEW o \in Orders, word[w] = o, wpc[w] \in {"count", "pop"}
      PROVE  payment[o] # "PENDING"
  BY <1>1 DEF FullInv, PaidInv
<1> QED
  BY <1>1, CalledSame DEF OnTurn

\* Taking the payment is the promise's Pay.
LEMMA PayRefines ==
    ASSUME FullInv, NEW o \in Orders, Pay(o)
    PROVE  Promise!Pay(o)
<1> USE DEF FullInv, AllInv, TypeInv, TypeOK
<1>1. status[o] \in {"DRAFT", "AWAITING_PAYMENT"} /\ payment[o] = "PENDING"
  BY DEF Pay, PaidInv, Unpaid
<1>2. given[o] = 0 /\ refunds[o] = 0 /\ cancel[o] # "REQUESTED"
  BY <1>1 DEF GoodsInv
<1>3. /\ status' = [status EXCEPT ![o] = "PAID"] /\ payment' = [payment EXCEPT ![o] = "PAID"]
      /\ stamp[o] > 0 /\ paidAt' = [paidAt EXCEPT ![o] = stamp[o]]
      /\ UNCHANGED <<isPreorder, cancel, given, refunds, wpc, word, stamp, clock>>
  BY DEF Pay, MarkPaid, workerVars
<1>4. Outcome(o) = "open" /\ Outcome(o)' = "paid"
  BY <1>1, <1>2, <1>3 DEF Outcome
<1>5. ~InQueue(o) /\ (InQueue(o)' <=> isPreorder[o])
  BY <1>1, <1>3 DEF InQueue
<1>6. \A p \in Orders \ {o} : Same(p)
  BY <1>3 DEF Same, Outcome, InQueue
<1>7. Outcomes[o] = "open" /\ Outcomes' = [Outcomes EXCEPT ![o] = "paid"]
  BY ONLY <1>4, <1>6, o \in Orders DEF Outcomes, Same
<1>8. Places' = Places \/ Places' = [Places EXCEPT ![o] = stamp[o]]
  <2>1. CASE isPreorder[o]
    <3>1. paidAt'[o] = stamp[o]
      BY <1>3
    <3>2. InQueue(o)'
      BY <1>5, <2>1
    <3> QED
      BY ONLY <1>6, <3>1, <3>2, o \in Orders DEF Places, Same
  <2>2. CASE ~isPreorder[o]
    BY <1>3, <1>5, <1>6, <2>2 DEF Places, Same
  <2> QED
    BY <2>1, <2>2
<1>9. Requests' = Requests
  BY <1>2, <1>3, <1>5, <1>6 DEF Requests, Same
<1>10. UNCHANGED Called
  BY <1>3, NoJobMoves
<1> QED
  BY <1>3, <1>7, <1>8, <1>9, <1>10 DEF Promise!Pay

\* Handing out the goods of an unsettled order that nobody asked to cancel is
\* the promise's Deliver, if a pre-order was called up.
LEMMA GoodsRefine ==
    ASSUME FullInv, NEW o \in Orders,
           status[o] \in {"PROCESSING_PURCHASE", "PAID_WAITING_STOCK"},
           payment[o] # "PENDING", cancel[o] # "REQUESTED",
           isPreorder[o] => o \in Called, Called' = Called \ {o},
           status' = [status EXCEPT ![o] = "DELIVERED"],
           given' = [given EXCEPT ![o] = @ + Qty[o]],
           UNCHANGED <<payment, isPreorder, cancel, paidAt, stamp, clock, refunds>>
    PROVE  Promise!Deliver(o)
<1> USE QtyAssumption DEF FullInv, AllInv, TypeInv, TypeOK
<1>1. given[o] = 0 /\ refunds[o] = 0 /\ given'[o] > 0
  <2>1. given[o] \in Nat /\ refunds[o] \in Nat /\ Qty[o] \in Nat \ {0}
    OBVIOUS
  <2>2. given[o] = 0 /\ refunds[o] = 0
    BY <2>1 DEF GoodsInv
  <2>3. given'[o] = given[o] + Qty[o]
    OBVIOUS
  <2> QED
    BY <2>1, <2>2, <2>3
<1>2. Outcome(o) = "paid" /\ Outcome(o)' = "delivered"
  BY <1>1 DEF Outcome
<1>3. ~InQueue(o)'
  BY DEF InQueue
<1>4. \A p \in Orders \ {o} : Same(p)
  BY DEF Same, Outcome, InQueue
<1>5. Promise!Settle(o, "delivered")
  BY <1>2, <1>3, <1>4, Settles
<1>6. o \notin Requests
  BY DEF Requests
<1>7. Places[o] > 0 => o \in Called
  BY DEF Places, InQueue
<1> QED
  BY <1>5, <1>6, <1>7 DEF Promise!Deliver, Promise!InLine

\* Crediting the refund of an unsettled order is the promise's Refund.
LEMMA MoneyRefines ==
    ASSUME FullInv, NEW o \in Orders,
           status[o] \in {"PROCESSING_PURCHASE", "PAID_WAITING_STOCK"},
           payment[o] # "PENDING",
           status' = [status EXCEPT ![o] = "REFUNDED"],
           payment' = [payment EXCEPT ![o] = "REFUNDED"],
           refunds' = [refunds EXCEPT ![o] = @ + 1],
           \A p \in Orders \ {o} : cancel'[p] = cancel[p], Called' = Called \ {o},
           UNCHANGED <<isPreorder, paidAt, stamp, clock, given>>
    PROVE  Promise!Refund(o)
<1> USE DEF FullInv, AllInv, TypeInv, TypeOK
<1>1. given[o] = 0 /\ refunds[o] = 0 /\ refunds'[o] > 0
  BY DEF GoodsInv
<1>2. Outcome(o) = "paid" /\ Outcome(o)' = "refunded"
  BY <1>1 DEF Outcome
<1>3. ~InQueue(o)'
  BY DEF InQueue
<1>4. \A p \in Orders \ {o} : Same(p)
  BY DEF Same, Outcome, InQueue
<1> QED
  BY <1>2, <1>3, <1>4, Settles DEF Promise!Refund

\* The customer's request and the seller's refusal are Ask and Decline.
LEMMA RequestRefines ==
    ASSUME FullInv, NEW o \in Orders
    PROVE  /\ RequestCancel(o) => Promise!Ask(o)
           /\ RejectCancel(o) => Promise!Decline(o)
<1> USE DEF FullInv, AllInv, TypeInv, TypeOK
<1>1. ASSUME Waiting(o), UNCHANGED <<status, payment, isPreorder, paidAt, given, refunds, wpc, word>>
      PROVE  /\ InQueue(o) /\ Places[o] > 0
             /\ UNCHANGED <<Outcomes, Places, Called>>
             /\ \A p \in Orders : InQueue(p)' <=> InQueue(p)
  <2>1. \A p \in Orders : InQueue(p)' <=> InQueue(p)
    BY <1>1 DEF InQueue
  <2>2. \A p \in Orders : Outcome(p)' = Outcome(p)
    BY <1>1 DEF Outcome
  <2>3. UNCHANGED Outcomes
    BY <2>2 DEF Outcomes
  <2>4. UNCHANGED Places
    BY <1>1, <2>1 DEF Places
  <2>5. InQueue(o)
    BY <1>1 DEF Waiting, InQueue
  <2>6. Places[o] > 0
    BY <2>5 DEF Places, InQueue, RankInv
  <2>7. UNCHANGED Called
    BY <1>1, NoJobMoves
  <2> QED
    BY <2>1, <2>3, <2>4, <2>5, <2>6, <2>7
<1>2. ASSUME RequestCancel(o) PROVE Promise!Ask(o)
  <2>1. Waiting(o) /\ cancel' = [cancel EXCEPT ![o] = "REQUESTED"]
        /\ UNCHANGED <<status, payment, isPreorder, paidAt, stamp, clock, given, refunds, wpc, word>>
    BY <1>2 DEF RequestCancel, workerVars
  <2>2. Requests' = Requests \cup {o}
    BY <1>1, <2>1 DEF Requests
  <2> QED
    BY <1>1, <2>1, <2>2 DEF Promise!Ask, Promise!InLine
<1>3. ASSUME RejectCancel(o) PROVE Promise!Decline(o)
  <2>1. Waiting(o) /\ cancel' = [cancel EXCEPT ![o] = "REJECTED"]
        /\ UNCHANGED <<status, payment, isPreorder, paidAt, stamp, clock, given, refunds, wpc, word>>
    BY <1>3 DEF RejectCancel, workerVars
  <2>2. Requests' = Requests \ {o}
    BY <1>1, <2>1 DEF Requests
  <2> QED
    BY <1>1, <2>1, <2>2 DEF Promise!Decline
<1> QED
  BY <1>2, <1>3

-----------------------------------------------------------------------------
\* Taking a payment's time is the promise's Begin, a rejected checkout its GiveUp.
LEMMA BeginRefines ==
    ASSUME FullInv, NEW o \in Orders
    PROVE  /\ ClaimingRoutes /\ TakeTime(o) => Promise!Begin(o)
           /\ Reject(o) => Promise!GiveUp(o)
<1> USE DEF FullInv, AllInv, TypeInv, TypeOK
<1>1. ASSUME ClaimingRoutes, TakeTime(o) PROVE Promise!Begin(o)
  <2>1. UNCHANGED <<status, payment, isPreorder, cancel, paidAt, given, refunds, wpc, word>>
    BY <1>1 DEF TakeTime, workerVars
  <2>2. payment[o] = "PENDING"
    BY <1>1 DEF TakeTime, PaidInv, Unpaid, TokenInv
  <2>3. given[o] = 0 /\ refunds[o] = 0
    BY <2>2 DEF GoodsInv, PaidInv, Unpaid
  <2>4. Outcomes[o] = "open"
    BY <2>2, <2>3 DEF Outcomes, Outcome
  <2>5. UNCHANGED <<Outcomes, Places, Requests>>
    BY <2>1, StatusSame
  <2>6. UNCHANGED Called
    BY <2>1, NoJobMoves
  <2> QED
    BY <1>1, <2>4, <2>5, <2>6 DEF TakeTime, Promise!Begin
<1>2. ASSUME Reject(o) PROVE Promise!GiveUp(o)
  <2>1. /\ UNCHANGED <<payment, cancel, paidAt, clock, given, refunds, wpc, word>>
        /\ stamp' = [stamp EXCEPT ![o] = 0]
    BY <1>2 DEF Reject, workerVars
  <2>2. payment[o] = "PENDING"
    BY <1>2 DEF Reject, PaidInv, Unpaid
  <2>3. given[o] = 0 /\ refunds[o] = 0
    BY <2>2 DEF GoodsInv, PaidInv, Unpaid
  <2>4. Outcomes[o] = "open"
    BY <2>2, <2>3 DEF Outcomes, Outcome
  <2>5. \A p \in Orders \ {o} : isPreorder'[p] = isPreorder[p] /\ status'[p] = status[p]
    BY <1>2 DEF Reject
  <2>6. UNCHANGED <<Outcomes, Places, Requests>>
    BY <2>1, <2>2, <2>5, StatusSame
  <2>7. UNCHANGED Called
    BY <2>1, <2>2, <2>5, NoJobMoves
  <2> QED
    BY <2>1, <2>4, <2>6, <2>7 DEF Promise!GiveUp
<1> QED
  BY <1>1, <1>2

\* A job that passes its turn check is the promise's Call.
LEMMA TurnRefines ==
    ASSUME FullInv, NEW w \in Workers, CheckTurn(w)
    PROVE  (Promise!Call(word[w])) \/ UNCHANGED Called
<1> USE DEF FullInv, AllInv, TypeInv, TypeOK
<1>1. word[w] \in Orders /\ isPreorder[word[w]]
  BY DEF CheckTurn, TokenInv
<1>2. UNCHANGED <<orderVars, given, refunds, word>> /\ \A v \in Workers \ {w} : wpc'[v] = wpc[v]
  BY DEF CheckTurn, Goto
<1>3. \A v \in Workers \ {w}, p \in Orders : OnTurn(v, p)' <=> OnTurn(v, p)
  BY <1>2 DEF OnTurn, orderVars
<1>4. \A p \in Orders : ~OnTurn(w, p)
  BY DEF CheckTurn, OnTurn
<1>5. CASE IsFirstInQueue(word[w]) /\ wpc'[w] = "count"
  <2>1. OnTurn(w, word[w])' /\ \A p \in Orders \ {word[w]} : ~OnTurn(w, p)'
    BY <1>1, <1>2, <1>5 DEF OnTurn, orderVars
  <2>2. Called = {p \in Orders : \E v \in Workers : OnTurn(v, p)}
    BY DEF Called, OnTurn
  <2>3. Called' = {p \in Orders : \E v \in Workers : OnTurn(v, p)'}
    BY DEF Called, OnTurn
  <2>4. Called' = Called \cup {word[w]}
    <3>1. \A p \in Orders \ {word[w]} :
             (\E v \in Workers : OnTurn(v, p)') <=> \E v \in Workers : OnTurn(v, p)
      BY <1>3, <1>4, <2>1
    <3>2. \A p \in Orders : p = word[w] => \E v \in Workers : OnTurn(v, p)'
      BY <1>2, <2>1
    <3> QED
      BY <1>1, <2>2, <2>3, <3>1, <3>2
  <2>5. Places[word[w]] > 0
    BY <1>1, <1>5 DEF Places, IsFirstInQueue, InQueue, RankInv
  <2>6. \A p \in Orders : Places[p] > 0 => Places[word[w]] <= Places[p]
    BY <1>1, <1>5 DEF Places, IsFirstInQueue
  <2> QED
    BY <1>2, <2>4, <2>5, <2>6, FrameSame DEF Promise!Call, Promise!InLine
<1>6. CASE wpc'[w] = "wait"
  <2>1. \A p \in Orders : ~OnTurn(w, p)'
    BY <1>6 DEF OnTurn
  <2> QED
    BY <1>3, <1>4, <2>1, CalledSame
<1> QED
  BY <1>5, <1>6 DEF CheckTurn, Goto

\* A job that ends or turns away without the goods sends its order back.
LEMMA BackRefines ==
    ASSUME FullInv, NEW w \in Workers,
           CountShared(w) \/ Count(w) \/ Shortage(w) \/ JobFail(w)
    PROVE  (Promise!SendBack(word[w])) \/ UNCHANGED Called
<1> USE DEF FullInv, AllInv, TypeInv, TypeOK
<1>1. word[w] \in Orders /\ wpc[w] # "post"
  BY DEF CountShared, Count, Shortage, JobFail
<1>2. /\ UNCHANGED <<orderVars, given, refunds, word>>
      /\ \A v \in Workers \ {w} : wpc'[v] = wpc[v]
      /\ UNCHANGED isPreorder
  BY DEF CountShared, Count, Shortage, JobFail, Goto, orderVars
<1>3. CASE wpc'[w] \notin {"count", "pop"}
  <2>1. \A p \in Orders : ~OnTurn(w, p)'
    BY <1>3 DEF OnTurn
  <2>2. Called' = Called \ {word[w]}
    BY <1>1, <1>2, <2>1, LeavesTurn
  <2> QED
    BY <1>2, <2>2, FrameSame DEF Promise!SendBack
<1>4. CASE wpc'[w] \in {"count", "pop"}
  <2>1. wpc[w] = "count"
    BY <1>4 DEF CountShared, Count, Shortage, JobFail, Goto
  <2>2. \A v \in Workers, p \in Orders : OnTurn(v, p)' <=> OnTurn(v, p)
    BY <1>2, <1>4, <2>1 DEF OnTurn
  <2> QED
    BY <2>2, CalledSame
<1> QED
  BY <1>3, <1>4

\* The other steps of a job call nobody up and send nobody back.
LEMMA JobKeepsCalled ==
    ASSUME FullInv, NEW w \in Workers,
           \/ MoveToWaiting(w) \/ Park(w) \/ Refund(w) \/ Finish(w) \/ Recover(w)
           \/ \E o \in Orders : Load(w, o)
    PROVE  UNCHANGED Called
<1> USE DEF FullInv, AllInv, TypeInv, TypeOK
<1>1. /\ wpc[w] \notin {"count", "pop"}
      /\ UNCHANGED isPreorder
      /\ \A v \in Workers \ {w} : wpc'[v] = wpc[v] /\ word'[v] = word[v]
  BY DEF MoveToWaiting, Park, Refund, Finish, Recover, Load, Goto, orderVars
<1>2. wpc'[w] \in {"count", "pop"} => ~isPreorder[word'[w]]
  BY DEF MoveToWaiting, Park, Refund, Finish, Recover, Load, Goto, FirstStep
<1> QED
  BY <1>1, <1>2, CalledSame DEF OnTurn

-----------------------------------------------------------------------------
\* Who marks orders paid has taken a time for them, and nobody takes it away.
LEMMA RankInductive ==
    ASSUME TypeInv, PaidInv, RankInv, [Next]_vars
    PROVE  RankInv'
<1> USE DEF TypeInv, TypeOK, RankInv, orderVars
<1>1. CASE UNCHANGED <<payment, paidAt>>
  BY <1>1
<1>2. ASSUME NEW o \in Orders, MarkPaid(o) PROVE RankInv'
  BY <1>2 DEF MarkPaid
<1>3. ASSUME NEW w \in Workers, Refund(w) PROVE RankInv'
  BY <1>3 DEF Refund, PaidInv
<1>4. ASSUME NEW o \in Orders, NEW by, ResolveCancel(o, by) PROVE RankInv'
  BY <1>4 DEF ResolveCancel, Waiting
<1>5. \/ UNCHANGED <<payment, paidAt>>
      \/ \E o \in Orders : MarkPaid(o)
      \/ \E w \in Workers : Refund(w)
      \/ \E o \in Orders : \E by \in {"APPROVED", "SELLER_CANCELED"} : ResolveCancel(o, by)
  BY ZenonT(60) DEF Next, Customer, Enqueue, Job, Sweep, Seller, vars, Prepare, Create,
     Reject, TakeTime, Pay, RequestCancel, EnqueueClaim, EnqueueAdd, EnqueueFail,
     ApiCrash, ScanSee, ScanPay, ScanAdd, ScanFail, Load, CheckTurn,
     MoveToWaiting, CountShared, DeliverShared, Count, Deliver, Shortage, Park,
     JobFail, Finish, Recover,
     Crash, SweepStart, SweepBudget, SweepClaim, SweepSkip, SweepEnd, SweepAdd,
     SweepFail, Upload, Extract, SetCapacity, Complete, CancelRead, CancelWrite,
     RejectCancel
<1> QED
  BY <1>1, <1>2, <1>3, <1>4, <1>5

\* Every step maps to a step of the promise or leaves it alone.
LEMMA StepRefines ==
    ASSUME ClaimingRoutes, FullInv, [Next]_vars
    PROVE  Promise!Next \/ UNCHANGED <<Outcomes, Places, stamp, clock, Requests, Called>>
<1> DEFINE Quiet == UNCHANGED <<Outcomes, Places, stamp, clock, Requests, Called>>
<1> HIDE DEF Quiet
<1>0. /\ status \in [Orders -> Statuses] /\ cancel \in [Orders -> {"NONE", "REQUESTED",
             "REJECTED", "APPROVED", "SELLER_CANCELED"}]
      /\ payment \in [Orders -> {"PENDING", "PAID", "REFUNDED"}]
      /\ isPreorder \in [Orders -> BOOLEAN] /\ given \in [Orders -> Nat]
      /\ refunds \in [Orders -> Nat] /\ word \in [Workers -> Orders \cup {NoOrder}]
      /\ wpc \in [Workers -> Steps]
      /\ \A w \in Workers : wpc[w] = "idle" <=> word[w] = NoOrder
  BY DEF FullInv, AllInv, TypeInv, TypeOK
<1>1. ASSUME UNCHANGED <<orderVars, given, refunds>>, UNCHANGED Called PROVE Quiet
  BY <1>1, FrameSame DEF Quiet
<1>2. ASSUME NEW o \in Orders, Prepare(o) \/ Create(o) PROVE Quiet
  <2>1. payment[o] = "PENDING"
    BY <1>2 DEF Prepare, Create, FullInv, PaidInv, Unpaid
  <2>2. UNCHANGED <<payment, paidAt, stamp, clock, cancel, given, refunds, wpc, word>>
    BY <1>2 DEF Prepare, Create, workerVars
  <2>3. \A p \in Orders \ {o} : isPreorder'[p] = isPreorder[p] /\ status'[p] = status[p]
    BY <1>0, <1>2 DEF Prepare, Create
  <2>4. UNCHANGED Called
    BY <2>1, <2>2, <2>3, NoJobMoves
  <2> QED
    BY <2>1, <2>2, <2>3, <2>4, StatusSame DEF Quiet
<1>3. ASSUME NEW o \in Orders, NEW to \in {"PROCESSING_PURCHASE", "PAID_WAITING_STOCK", "PAID"},
             status[o] \in {"PROCESSING_PURCHASE", "PAID_WAITING_STOCK", "PAID"},
             status' = [status EXCEPT ![o] = to] \/ status' = status,
             UNCHANGED <<payment, isPreorder, paidAt, stamp, clock, cancel, given, refunds>>,
             UNCHANGED Called
      PROVE  Quiet
  BY <1>0, <1>3, StatusSame DEF Quiet
<1>4. ASSUME UNCHANGED <<wpc, word, isPreorder>> PROVE UNCHANGED Called
  BY <1>4, NoJobMoves
<1>5. ASSUME NEW o \in Orders, EnqueueClaim(o) PROVE Quiet
  <2>1. UNCHANGED Called
    BY <1>4, <1>5 DEF EnqueueClaim, workerVars
  <2>2. CASE status[o] = "PAID"
    BY <1>0, <1>3, <1>5, <2>1, <2>2 DEF EnqueueClaim, SetStatus
  <2>3. CASE status[o] # "PAID"
    BY <1>0, <1>1, <1>5, <2>1, <2>3 DEF EnqueueClaim, SetStatus, orderVars
  <2> QED
    BY <2>2, <2>3
<1>6. ASSUME NEW o \in Orders, NEW added \in BOOLEAN, EnqueueFail(o, added) PROVE Quiet
  <2>1. UNCHANGED Called
    BY <1>4, <1>6 DEF EnqueueFail, workerVars
  <2>2. CASE status[o] = "PROCESSING_PURCHASE"
    BY <1>0, <1>3, <1>6, <2>1, <2>2 DEF EnqueueFail, SetStatus
  <2>3. CASE status[o] # "PROCESSING_PURCHASE"
    BY <1>0, <1>1, <1>6, <2>1, <2>3 DEF EnqueueFail, SetStatus, orderVars
  <2> QED
    BY <2>2, <2>3
<1>7. ASSUME NEW w \in Workers, wpc[w] \notin {"idle", "post"}
      PROVE  /\ word[w] \in Orders /\ status[word[w]] = "PROCESSING_PURCHASE"
             /\ payment[word[w]] # "PENDING" /\ cancel[word[w]] # "REQUESTED"
  <2>1. word[w] \in Orders
    BY <1>0, <1>7
  <2>2. status[word[w]] = "PROCESSING_PURCHASE"
    BY <1>7, <2>1 DEF FullInv, AllInv, TokenInv, Busy
  <2>3. payment[word[w]] # "PENDING"
    BY <1>7, <2>1 DEF FullInv, PaidInv
  <2>4. cancel[word[w]] # "REQUESTED"
    BY <2>1, <2>2 DEF FullInv, AllInv, GoodsInv
  <2> QED
    BY <2>1, <2>2, <2>3, <2>4
<1>8. ASSUME NEW w \in Workers, MoveToWaiting(w) PROVE Quiet
  <2>1. word[w] \in Orders /\ status[word[w]] = "PROCESSING_PURCHASE"
    BY <1>7, <1>8 DEF MoveToWaiting
  <2>2. status' = [status EXCEPT ![word[w]] = "PAID_WAITING_STOCK"] \/ status' = status
    BY <1>0, <1>8, <2>1 DEF MoveToWaiting
  <2>3. UNCHANGED Called
    BY <1>8, JobKeepsCalled
  <2> QED
    BY <1>3, <1>8, <2>1, <2>2, <2>3 DEF MoveToWaiting
<1>9. ASSUME NEW w \in Workers, Park(w) PROVE Quiet
  <2>1. UNCHANGED Called
    BY <1>9, JobKeepsCalled
  <2> QED
    BY <1>3, <1>7, <1>9, <2>1 DEF Park
<1>10. ASSUME NEW w \in Workers, Deliver(w) \/ DeliverShared(w) PROVE Promise!Next
  <2>1. wpc[w] \in {"count", "pop"} /\ word[w] \in Orders
    BY <1>7, <1>10 DEF Deliver, DeliverShared
  <2>2. isPreorder[word[w]] => word[w] \in Called
    BY <2>1 DEF Called
  <2>3. /\ status' = [status EXCEPT ![word[w]] = "DELIVERED"]
        /\ given' = [given EXCEPT ![word[w]] = @ + Qty[word[w]]]
        /\ UNCHANGED <<payment, isPreorder, cancel, paidAt, stamp, clock, refunds>>
    BY <1>10 DEF Deliver, DeliverShared
  <2>4. /\ \A p \in Orders : ~OnTurn(w, p)'
        /\ \A v \in Workers \ {w} : word'[v] = word[v] /\ wpc'[v] = wpc[v]
    BY <1>0, <1>10 DEF Deliver, DeliverShared, Goto, OnTurn
  <2>5. Called' = Called \ {word[w]}
    BY <2>1, <2>3, <2>4, LeavesTurn
  <2>6. Promise!Deliver(word[w])
    BY <1>7, <2>1, <2>2, <2>3, <2>5, GoodsRefine
  <2> QED
    BY <2>1, <2>6 DEF Promise!Next
<1>11. ASSUME NEW w \in Workers, Refund(w) PROVE Promise!Next \/ Quiet
  <2>1. word[w] \in Orders
    BY <1>7, <1>11 DEF Refund
  <2>2. UNCHANGED Called
    BY <1>11, JobKeepsCalled
  <2>3. CASE UNCHANGED <<status, payment, refunds>>
    BY <1>1, <1>11, <2>2, <2>3 DEF Refund, orderVars
  <2>4. CASE ~UNCHANGED <<status, payment, refunds>>
    <3>1. /\ status' = [status EXCEPT ![word[w]] = "REFUNDED"]
          /\ payment' = [payment EXCEPT ![word[w]] = "REFUNDED"]
          /\ refunds' = [refunds EXCEPT ![word[w]] = @ + 1]
          /\ UNCHANGED <<isPreorder, cancel, paidAt, stamp, clock, given>>
      BY <1>11, <2>4 DEF Refund
    <3>2. word[w] \notin Called
      BY <1>11, <2>1 DEF Refund, Called, FullInv, PaidInv
    <3>3. Promise!Refund(word[w])
      BY <1>7, <1>11, <2>1, <2>2, <3>1, <3>2, MoneyRefines DEF Refund
    <3> QED
      BY <2>1, <3>3 DEF Promise!Next
  <2> QED
    BY <2>3, <2>4
<1>12. ASSUME NEW o \in Orders, Complete(o) PROVE Promise!Next
  <2>1. payment[o] # "PENDING" /\ cancel[o] # "REQUESTED" /\ ~isPreorder[o]
    BY <1>12 DEF Complete, FullInv, PaidInv, Unpaid, AllInv, GoodsInv
  <2>2. UNCHANGED Called
    BY <1>4, <1>12 DEF Complete, workerVars
  <2>3. o \notin Called
    BY <2>1 DEF Called
  <2>4. Promise!Deliver(o)
    BY <1>12, <2>1, <2>2, <2>3, GoodsRefine DEF Complete
  <2> QED
    BY <2>4 DEF Promise!Next
<1>13. ASSUME NEW o \in Orders, NEW by \in {"APPROVED", "SELLER_CANCELED"}, ResolveCancel(o, by)
       PROVE  Promise!Next
  <2>1. Waiting(o) /\ \A p \in Orders \ {o} : cancel'[p] = cancel[p]
    BY <1>0, <1>13 DEF ResolveCancel
  <2>2. UNCHANGED Called
    BY <1>4, <1>13 DEF ResolveCancel, workerVars
  <2>3. o \notin Called
    BY <1>7, <2>1 DEF Called, Waiting
  <2>4. Promise!Refund(o)
    BY <1>13, <2>1, <2>2, <2>3, MoneyRefines DEF ResolveCancel, Waiting
  <2> QED
    BY <2>4 DEF Promise!Next
<1>14. ASSUME NEW o \in Orders, SweepClaim(o) PROVE Quiet
  <2>1. UNCHANGED Called
    BY <1>4, <1>14 DEF SweepClaim, workerVars
  <2> QED
    BY <1>3, <1>14, <2>1 DEF SweepClaim, Sweepable
<1>15. ASSUME NEW added \in BOOLEAN, SweepFail(added) PROVE Quiet
  <2>1. sweep.cur \in Orders
    BY <1>15 DEF SweepFail, FullInv, AllInv, TypeInv, TypeOK
  <2>2. status[sweep.cur] = "PROCESSING_PURCHASE"
    BY <2>1 DEF FullInv, AllInv, TokenInv
  <2>3. status' = [status EXCEPT ![sweep.cur] = "PAID_WAITING_STOCK"]
    BY <1>15, <2>2 DEF SweepFail, SetStatus
  <2>4. UNCHANGED Called
    BY <1>4, <1>15 DEF SweepFail, workerVars
  <2> QED
    BY <1>3, <1>15, <2>1, <2>2, <2>3, <2>4 DEF SweepFail
<1>16. ASSUME NEW o \in Orders, CancelWrite(o) PROVE Quiet
  <2>1. ~isPreorder[o]
    BY <1>16 DEF CancelWrite, FullInv, AllInv, GoodsInv
  <2>2. UNCHANGED <<payment, isPreorder, paidAt, stamp, clock, cancel, given, refunds>>
    BY <1>16 DEF CancelWrite
  <2>3. \A p \in Orders \ {o} : status'[p] = status[p]
    BY <1>0, <1>16 DEF CancelWrite
  <2>4. UNCHANGED Called
    BY <1>4, <1>16 DEF CancelWrite, workerVars
  <2> QED
    BY <2>1, <2>2, <2>3, <2>4, StatusSame DEF Quiet
<1>17. ASSUME NEW o \in Orders,
              TakeTime(o) \/ Reject(o) \/ Pay(o) \/ RequestCancel(o) \/ RejectCancel(o)
       PROVE  Promise!Next
  BY <1>17, BeginRefines, PayRefines, RequestRefines DEF Promise!Next
<1>18. ASSUME NEW o \in Orders, ScanPay(o) PROVE FALSE
  BY <1>18 DEF ScanPay, FullInv, AllInv, TokenInv
<1>19. ASSUME NEW o \in Orders,
              EnqueueAdd(o) \/ ApiCrash(o) \/ ScanSee(o) \/ ScanAdd(o) \/ ScanFail(o)
              \/ SweepSkip(o) \/ CancelRead(o)
       PROVE  Quiet
  <2>1. UNCHANGED <<orderVars, given, refunds, wpc, word>>
    BY <1>19 DEF EnqueueAdd, ApiCrash, ScanSee, ScanAdd, ScanFail, SweepSkip, CancelRead, workerVars
  <2> QED
    BY <1>1, <1>4, <2>1 DEF orderVars
<1>20. ASSUME NEW w \in Workers,
              MoveToWaiting(w) \/ Finish(w) \/ Recover(w) \/ \E o \in Orders : Load(w, o)
       PROVE  Quiet
  BY <1>1, <1>8, <1>20, JobKeepsCalled DEF Finish, Recover, Load
<1>21. ASSUME NEW w \in Workers,
              CheckTurn(w) \/ CountShared(w) \/ Count(w) \/ Shortage(w) \/ JobFail(w)
       PROVE  Promise!Next \/ Quiet
  <2>1. word[w] \in Orders /\ UNCHANGED <<orderVars, given, refunds>>
    BY <1>0, <1>21 DEF CheckTurn, CountShared, Count, Shortage, JobFail
  <2>2. (Promise!Call(word[w])) \/ (Promise!SendBack(word[w])) \/ UNCHANGED Called
    BY <1>21, TurnRefines, BackRefines
  <2> QED
    BY <1>1, <2>1, <2>2 DEF Promise!Next
<1>22. CASE Crash
  BY <1>22 DEF Crash, Fault, ClaimingRoutes
<1>23. CASE SweepStart \/ SweepBudget \/ SweepEnd \/ SweepAdd
  <2>1. UNCHANGED <<orderVars, given, refunds, wpc, word>>
    BY <1>23 DEF SweepStart, SweepBudget, SweepEnd, SweepAdd, workerVars
  <2> QED
    BY <1>1, <1>4, <2>1 DEF orderVars, Quiet
<1>24. ASSUME NEW n, Upload(n) \/ Extract(n) \/ SetCapacity(n) PROVE Quiet
  <2>1. UNCHANGED <<orderVars, given, refunds, wpc, word>>
    BY <1>24 DEF Upload, Extract, SetCapacity, workerVars
  <2> QED
    BY <1>1, <1>4, <2>1 DEF orderVars
<1>25. CASE UNCHANGED vars
  <2>1. UNCHANGED <<orderVars, given, refunds, wpc, word>>
    BY <1>25 DEF vars, workerVars
  <2> QED
    BY <1>1, <1>4, <2>1 DEF orderVars, Quiet
<1>26. Quiet => UNCHANGED <<Outcomes, Places, stamp, clock, Requests, Called>>
  BY DEF Quiet
<1> QED
  BY <1>2, <1>5, <1>6, <1>9, <1>10, <1>11, <1>12, <1>13, <1>14, <1>15, <1>16, <1>17,
     <1>18, <1>19, <1>20, <1>21, <1>22, <1>23, <1>24, <1>25, <1>26
     DEF Next, Customer, Enqueue, Job, Sweep, Seller

\* On the claiming routes, with a queue that may fail, every behaviour of the
\* API, the worker, the sweep, the seller and the customers is one that the
\* promise allows: no order is settled twice; a pre-order gets its goods only
\* after a job found it first in line by payment time, and is passed over then
\* only by payments that were not written yet; and a request to cancel holds
\* the goods back.
THEOREM FulfillmentKeepsPromise ==
    ASSUME ClaimingRoutes
    PROVE  Spec => KeepsPromise
<1>1. Init => Promise!Init
  BY DEF Init, Promise!Init, Outcomes, Outcome, Places, InQueue, Requests, Called
<1>2. Init => PaidInv /\ RankInv
  BY OrdersAssumption DEF Init, PaidInv, RankInv, Unpaid, NoSweep
<1>3. ASSUME FullInv, [Next]_vars PROVE [Promise!Next]_(Promise!vars)
  BY <1>3, StepRefines DEF Promise!vars
<1>4. AllInv => TypeInv
  BY DEF AllInv
<1>5. FullInv <=> AllInv /\ PaidInv /\ RankInv
  BY DEF FullInv
<1>6. TypeInv /\ PaidInv /\ RankInv /\ [Next]_vars => RankInv'
  BY RankInductive
<1> QED
  BY <1>1, <1>2, <1>3, <1>4, <1>5, <1>6, AllInvariant, PaidInductive, PTL
     DEF Spec, KeepsPromise, Promise!Spec

=============================================================================
