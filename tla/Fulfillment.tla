----------------------------- MODULE Fulfillment -----------------------------
(***************************************************************************)
(* Fulfilment of paid orders for one manually stocked product: the API     *)
(* side that creates, pays and enqueues orders and lets sellers and        *)
(* customers cancel (apps/api/src/orders/orders.service.ts), the purchase  *)
(* queue, and the worker that runs processPurchase with two jobs at a time *)
(* and sweeps waiting pre-orders (apps/worker/src/fulfillment/purchase.ts).*)
(*                                                                         *)
(* Every database transaction or single statement is one step; what the    *)
(* code reads before such a step and uses after it (the loaded order, the  *)
(* stock count, the sweep's list) is kept in the actor's own variables, so *)
(* the interleavings are those of the program.  Stock entries are counted, *)
(* not told apart.  Payment is abstracted to two steps: a request takes    *)
(* the time, and later the order's row becomes PAID with that time.        *)
(***************************************************************************)
EXTENDS Naturals, FiniteSets, FiniteSetsExt

CONSTANTS
    Orders,          \* order ids
    Workers,         \* job slots of the purchase worker, running or lost
    Qty,             \* Qty[o]: quantity of order o
    Supply,          \* bound: entries the seller ever uploads
    PreorderEnabled, \* SourceProduct.preorderEnabled
    ByHand,          \* the values addMail may have
    ByContent,       \* the values shared may have
    FaultKinds,      \* which of "crash", "db" and "queue" may fail
    MaxFaults,       \* bound: faults in a behaviour
    MaxStalled,      \* BullMQ maxStalledCount: re-runs of a dead worker's job
    MaxClicks,       \* bound: overlapping cancel requests of the seller
    MaxScans,        \* bound: overlapping scans that have seen one payment
    Route,           \* Route[o]: how order o is paid and by whom it is enqueued
    NoOrder

ASSUME OrdersAssumption == NoOrder \notin Orders

ASSUME QtyAssumption == Qty \in [Orders -> Nat \ {0}]

ASSUME BoundsAssumption ==
    /\ Supply \in Nat
    /\ FaultKinds \subseteq {"crash", "db", "queue"}
    /\ MaxFaults \in Nat
    /\ MaxStalled \in Nat
    /\ PreorderEnabled \in BOOLEAN
    /\ ByHand \subseteq BOOLEAN
    /\ ByContent \subseteq BOOLEAN
    /\ MaxClicks \in Nat
    /\ MaxScans \in Nat

\* "wallet": createTelegramOrderWithWallet; "webhook": markPaymentCompleted;
\* "scan": markPaymentCompleted or the worker's TRC20 and Solana scanners.
ASSUME RouteAssumption == Route \in [Orders -> {"wallet", "webhook", "scan"}]

VARIABLES
    status,     \* Order.status ("NONE": no row, "DRAFT": context prepared)
    payment,    \* Order.paymentStatus
    isPreorder, \* Order.isPreorder
    cancel,     \* Order.preorderCancellationStatus
    paidAt,     \* Order.paidAt as a rank, 0 while unpaid
    stamp,      \* new Date() of the request that marks the order paid, 0: none
    clock,      \* last rank given out
    api,        \* the API's enqueuePaidOrder: "no", "due", "add"
    seen,       \* scans that have matched the order's payment, not yet written
    adding,     \* scans that have written PAID and are about to add a job
    jobKnown,   \* the queue knows the job id purchase-<order>
    queued,     \* jobs waiting in the purchase queue, per order
    stalled,    \* re-runs already spent on the order's job
    wpc,        \* what each worker does next
    word,       \* the order each worker has loaded
    wseen,      \* SourceProduct.available as each worker loaded it
    sweep,      \* the pre-order sweep: its step, list, budget, current order
    stock,      \* deliverable stock entries (AVAILABLE, batch not expired)
    available,  \* SourceProduct.available, the counter shown to customers
    supply,     \* entries the seller has not uploaded yet
    addMail,    \* the product is fulfilled by hand (ADD_MAIL)
    shared,     \* every buyer gets the same content; available is all its stock
    given,      \* stock entries handed to each order
    refunds,    \* REFUND_ORDER ledger rows of each order
    canceling,  \* seller cancels that have read the order, not yet written
    faults      \* faults so far

orderVars  == <<status, payment, isPreorder, cancel, paidAt, stamp, clock>>
scanVars   == <<seen, adding>>
queueVars  == <<api, scanVars, jobKnown, queued, stalled>>
workerVars == <<wpc, word, wseen>>
stockVars  == <<stock, available, supply, addMail, shared>>
vars == <<orderVars, queueVars, workerVars, sweep, stockVars, given, refunds,
          canceling, faults>>

Statuses == {"NONE", "DRAFT", "AWAITING_PAYMENT", "PAID", "PROCESSING_PURCHASE",
             "PAID_WAITING_STOCK", "DELIVERED", "FAILED", "REFUNDED"}

Steps == {"idle", "requested", "turn", "wait", "count", "pop", "park",
          "refund", "post", "lost"}

NoSweep == [pc |-> "idle", todo |-> {}, budget |-> 0, cur |-> NoOrder]

Init ==
    /\ status = [o \in Orders |-> "NONE"]
    /\ payment = [o \in Orders |-> "PENDING"]
    /\ isPreorder = [o \in Orders |-> FALSE]
    /\ cancel = [o \in Orders |-> "NONE"]
    /\ paidAt = [o \in Orders |-> 0]
    /\ stamp = [o \in Orders |-> 0]
    /\ clock = 0
    /\ api = [o \in Orders |-> "no"]
    /\ seen = [o \in Orders |-> 0]
    /\ adding = [o \in Orders |-> 0]
    /\ jobKnown = [o \in Orders |-> FALSE]
    /\ queued = [o \in Orders |-> 0]
    /\ stalled = [o \in Orders |-> 0]
    /\ wpc = [w \in Workers |-> "idle"]
    /\ word = [w \in Workers |-> NoOrder]
    /\ wseen = [w \in Workers |-> 0]
    /\ sweep = NoSweep
    /\ stock = 0
    /\ available = 0
    /\ supply = Supply
    /\ addMail \in ByHand
    /\ shared \in ByContent
    /\ ~(addMail /\ shared)
    /\ given = [o \in Orders |-> 0]
    /\ refunds = [o \in Orders |-> 0]
    /\ canceling = [o \in Orders |-> 0]
    /\ faults = 0

-----------------------------------------------------------------------------
(* The FIFO queue of paid pre-orders.                                        *)

\* getPaidPreorderQueue: paid pre-orders that are not settled, requested
\* cancellations included, by paidAt.
InQueue(o) ==
    /\ isPreorder[o]
    /\ payment[o] = "PAID"
    /\ status[o] \in {"PAID", "PROCESSING_PURCHASE", "PAID_WAITING_STOCK"}

IsFirstInQueue(o) ==
    InQueue(o) /\ \A p \in Orders : InQueue(p) => paidAt[o] <= paidAt[p]

\* What new orders may count on: the counter less what paid pre-orders without
\* a cancellation request are waiting for.
Reserved ==
    MapThenSumSet(LAMBDA o : Qty[o],
                  {o \in Orders : InQueue(o) /\ cancel[o] # "REQUESTED"})

Min0(n, m) == IF n > m THEN n - m ELSE 0

-----------------------------------------------------------------------------
(* Customers: checkout and payment.                                          *)

\* prepareOrderContext: whether the order is a pre-order is decided from a
\* read outside the checkout transaction.
Prepare(o) ==
    /\ status[o] = "NONE"
    /\ LET pre == Min0(available, Reserved) < Qty[o] IN
       /\ pre => PreorderEnabled /\ ~addMail
       /\ isPreorder' = [isPreorder EXCEPT ![o] = pre]
    /\ status' = [status EXCEPT ![o] = "DRAFT"]
    /\ UNCHANGED <<payment, cancel, paidAt, stamp, clock, queueVars, workerVars,
                   sweep, stockVars, given, refunds, canceling, faults>>

\* assertPhysicalStockAvailable: the checkout transaction re-reads the counter
\* for ordinary orders; unpaid orders reserve nothing.
PhysicalStockAvailable(o) == isPreorder[o] \/ available >= Qty[o]

\* createTelegramOrder.
Create(o) ==
    /\ status[o] = "DRAFT"
    /\ Route[o] # "wallet"
    /\ PhysicalStockAvailable(o)
    /\ status' = [status EXCEPT ![o] = "AWAITING_PAYMENT"]
    /\ UNCHANGED <<payment, isPreorder, cancel, paidAt, stamp, clock, queueVars,
                   workerVars, sweep, stockVars, given, refunds, canceling,
                   faults>>

\* The checkout transaction finds too little stock and rejects the order.
Reject(o) ==
    /\ status[o] = "DRAFT"
    /\ ~PhysicalStockAvailable(o)
    /\ status' = [status EXCEPT ![o] = "NONE"]
    /\ isPreorder' = [isPreorder EXCEPT ![o] = FALSE]
    /\ stamp' = [stamp EXCEPT ![o] = 0]
    /\ UNCHANGED <<payment, cancel, paidAt, clock, queueVars, workerVars,
                   sweep, stockVars, given, refunds, canceling, faults>>

\* new Date(): the request that is about to mark the order paid takes its time,
\* outside the transaction that writes it (of overlapping scans the last one's).
TakeTime(o) ==
    /\ stamp[o] <= paidAt[o]
    /\ \/ Route[o] = "wallet" /\ status[o] = "DRAFT"
       \/ status[o] = "AWAITING_PAYMENT"
       \/ seen[o] > 0
    /\ clock' = clock + 1
    /\ stamp' = [stamp EXCEPT ![o] = clock + 1]
    /\ UNCHANGED <<status, payment, isPreorder, cancel, paidAt, queueVars,
                   workerVars, sweep, stockVars, given, refunds, canceling, faults>>

\* The row becomes PAID with the time taken before: another order may have taken
\* a later time by now, and may have been marked, queued and served already.
MarkPaid(o) ==
    /\ stamp[o] > paidAt[o]
    /\ status' = [status EXCEPT ![o] = "PAID"]
    /\ payment' = [payment EXCEPT ![o] = "PAID"]
    /\ paidAt' = [paidAt EXCEPT ![o] = stamp[o]]
    /\ UNCHANGED <<stamp, clock>>

\* The order becomes paid: in the checkout transaction itself for a wallet
\* order, in markPaymentCompleted's for the others.  The same request goes on
\* to enqueue it.
Pay(o) ==
    /\ \/ Route[o] = "wallet" /\ status[o] = "DRAFT" /\ PhysicalStockAvailable(o)
       \/ Route[o] # "wallet" /\ status[o] = "AWAITING_PAYMENT"
    /\ MarkPaid(o)
    /\ api' = [api EXCEPT ![o] = "due"]
    /\ UNCHANGED <<isPreorder, cancel, scanVars, jobKnown, queued, stalled, workerVars,
                   sweep, stockVars, given, refunds, canceling, faults>>

\* A chain scan reads the pending payments and matches a transfer whose hash
\* nobody has recorded yet.
ScanSee(o) ==
    /\ Route[o] = "scan"
    /\ status[o] = "AWAITING_PAYMENT"
    /\ seen[o] < MaxScans
    /\ seen' = [seen EXCEPT ![o] = @ + 1]
    /\ UNCHANGED <<orderVars, api, adding, jobKnown, queued, stalled, workerVars,
                   sweep, stockVars, given, refunds, canceling, faults>>

\* Later it writes PAID to the transaction and the order, whatever they say by
\* now (its two writes are one step here).
ScanPay(o) ==
    /\ seen[o] > 0
    /\ seen' = [seen EXCEPT ![o] = @ - 1]
    /\ adding' = [adding EXCEPT ![o] = @ + 1]
    /\ MarkPaid(o)
    /\ UNCHANGED <<isPreorder, cancel, api, jobKnown, queued, stalled, workerVars,
                   sweep, stockVars, given, refunds, canceling, faults>>

-----------------------------------------------------------------------------
(* From paid to queued.                                                      *)

\* A fault of the given kind happens.
Fault(kind) ==
    /\ kind \in FaultKinds
    /\ faults < MaxFaults
    /\ faults' = faults + 1

SetStatus(o, from, to) ==
    status' = [status EXCEPT ![o] = IF @ = from THEN to ELSE @]

\* queue.add with job id purchase-<order>: a known id is not added again.
AddPurchaseJob(o) ==
    /\ jobKnown' = [jobKnown EXCEPT ![o] = TRUE]
    /\ queued' = IF jobKnown[o] THEN queued ELSE [queued EXCEPT ![o] = @ + 1]

\* enqueuePaidOrder, first statement: claim PAID -> PROCESSING_PURCHASE, by the
\* request that took the payment or by a repeated callback, which exists for
\* every payment but a wallet one.
EnqueueClaim(o) ==
    /\ \/ api[o] = "due"
       \/ api[o] = "no" /\ Route[o] # "wallet" /\ status[o] = "PAID"
    /\ api' = [api EXCEPT ![o] = IF status[o] = "PAID" THEN "add" ELSE "no"]
    /\ SetStatus(o, "PAID", "PROCESSING_PURCHASE")
    /\ UNCHANGED <<payment, isPreorder, cancel, paidAt, stamp, clock, scanVars, jobKnown,
                   queued, stalled, workerVars, sweep, stockVars, given,
                   refunds, canceling, faults>>

EnqueueAdd(o) ==
    /\ api[o] = "add"
    /\ api' = [api EXCEPT ![o] = "no"]
    /\ AddPurchaseJob(o)
    /\ UNCHANGED <<orderVars, scanVars, stalled, workerVars, sweep, stockVars, given,
                   refunds, canceling, faults>>

\* queue.add fails, or (added) the job is in but its event cannot be recorded:
\* the catch block undoes the claim either way.
EnqueueFail(o, added) ==
    /\ Fault(IF added THEN "db" ELSE "queue")
    /\ api[o] = "add"
    /\ api' = [api EXCEPT ![o] = "no"]
    /\ IF added THEN AddPurchaseJob(o) ELSE UNCHANGED <<jobKnown, queued>>
    /\ SetStatus(o, "PROCESSING_PURCHASE", "PAID")
    /\ UNCHANGED <<payment, isPreorder, cancel, paidAt, stamp, clock, scanVars, stalled,
                   workerVars, sweep, stockVars, given, refunds, canceling>>

\* The scanner adds a job of its own, without an id and without claiming the
\* order.
ScanAdd(o) ==
    /\ adding[o] > 0
    /\ adding' = [adding EXCEPT ![o] = @ - 1]
    /\ queued' = [queued EXCEPT ![o] = @ + 1]
    /\ UNCHANGED <<orderVars, api, seen, jobKnown, stalled, workerVars, sweep,
                   stockVars, given, refunds, canceling, faults>>

\* queue.add fails: the scanner ignores it and never returns to the order.
ScanFail(o) ==
    /\ Fault("queue")
    /\ adding[o] > 0
    /\ adding' = [adding EXCEPT ![o] = @ - 1]
    /\ UNCHANGED <<orderVars, api, seen, jobKnown, queued, stalled, workerVars,
                   sweep, stockVars, given, refunds, canceling>>

\* The API process dies between two statements of a payment request.
ApiCrash(o) ==
    /\ api[o] # "no"
    /\ Fault("crash")
    /\ api' = [api EXCEPT ![o] = "no"]
    /\ UNCHANGED <<orderVars, scanVars, jobKnown, queued, stalled, workerVars, sweep,
                   stockVars, given, refunds, canceling>>

-----------------------------------------------------------------------------
(* The worker: processPurchase, one job per worker.                          *)

\* Where a job goes after its first read: ordinary orders are not checked at
\* all, pre-orders must be PROCESSING_PURCHASE and PAID.
FirstStep(o) ==
    CASE ~isPreorder[o] -> "count"
      [] isPreorder[o] /\ (status[o] # "PROCESSING_PURCHASE" \/ payment[o] # "PAID")
                       -> "post"
      [] OTHER -> IF cancel[o] = "REQUESTED" THEN "requested" ELSE "turn"

Goto(w, step) == wpc' = [wpc EXCEPT ![w] = step]

\* A worker takes a job and loads the order with its product.
Load(w, o) ==
    /\ wpc[w] = "idle"
    /\ queued[o] > 0
    /\ queued' = [queued EXCEPT ![o] = @ - 1]
    /\ word' = [word EXCEPT ![w] = o]
    /\ wseen' = [wseen EXCEPT ![w] = available]
    /\ Goto(w, FirstStep(o))
    /\ UNCHANGED <<orderVars, api, scanVars, jobKnown, stalled, sweep, stockVars,
                   given, refunds, canceling, faults>>

\* getPreorderAvailableQuantity in a job: the entries in stock, or the counter
\* of shared content as it was loaded with the order.
TurnStock(w) == IF shared THEN wseen[w] ELSE stock

\* Mutant of CheckTurn: stock alone decides, not the place in the queue.
CheckTurnWithoutQueue(w) ==
    /\ wpc[w] = "turn"
    /\ Goto(w, IF TurnStock(w) >= Qty[word[w]] THEN "count" ELSE "wait")
    /\ UNCHANGED <<orderVars, queueVars, word, wseen, sweep, stockVars, given,
                   refunds, canceling, faults>>

\* A pre-order goes on only if it is first in the FIFO queue and there is
\* enough stock for it.  The two reads run in parallel and are one step here.
CheckTurn(w) ==
    /\ wpc[w] = "turn"
    /\ Goto(w, IF IsFirstInQueue(word[w]) /\ TurnStock(w) >= Qty[word[w]]
                 THEN "count" ELSE "wait")
    /\ UNCHANGED <<orderVars, queueVars, word, wseen, sweep, stockVars, given,
                   refunds, canceling, faults>>

\* movePreorderToWaiting, and the release of an order whose cancellation was
\* requested: both are conditional updates.
MoveToWaiting(w) ==
    /\ wpc[w] \in {"wait", "requested"}
    /\ LET o == word[w] IN
       status' = [status EXCEPT ![o] =
                    IF /\ @ = "PROCESSING_PURCHASE"
                       /\ wpc[w] = "requested" => cancel[o] = "REQUESTED"
                      THEN "PAID_WAITING_STOCK" ELSE @]
    /\ Goto(w, "post")
    /\ UNCHANGED <<payment, isPreorder, cancel, paidAt, stamp, clock, queueVars, word,
                   wseen, sweep, stockVars, given, refunds, canceling, faults>>

\* An order of shared content is refunded if it is an ordinary one and the counter
\* loaded with it was too low ...
SharedShortage(w) == ~isPreorder[word[w]] /\ wseen[w] < Qty[word[w]]

CountShared(w) ==
    /\ wpc[w] = "count"
    /\ shared
    /\ SharedShortage(w)
    /\ Goto(w, "refund")
    /\ UNCHANGED <<orderVars, queueVars, word, wseen, sweep, stockVars, given,
                   refunds, canceling, faults>>

\* ... and delivered otherwise, whatever its status is by now; the counter is
\* written from the value loaded.
DeliverShared(w) ==
    /\ wpc[w] = "count"
    /\ shared
    /\ ~SharedShortage(w)
    /\ LET o == word[w] IN
       /\ available' = Min0(wseen[w], Qty[o])
       /\ given' = [given EXCEPT ![o] = @ + Qty[o]]
       /\ status' = [status EXCEPT ![o] = "DELIVERED"]
    /\ Goto(w, "post")
    /\ UNCHANGED <<payment, isPreorder, cancel, paidAt, stamp, clock, queueVars, word,
                   wseen, sweep, stock, supply, addMail, shared, refunds, canceling,
                   faults>>

\* countAvailableManualEntries decides the branch, outside any transaction.
\* What a branch without enough stock does: refund an ordinary order, park a
\* pre-order or (with no entry at all) an ADD_MAIL order for the seller.
Count(w) ==
    /\ wpc[w] = "count"
    /\ ~shared
    /\ LET o == word[w] IN
       Goto(w, IF stock >= Qty[o] THEN "pop"
               ELSE IF isPreorder[o] \/ (addMail /\ stock = 0) THEN "park"
               ELSE "refund")
    /\ UNCHANGED <<orderVars, queueVars, word, wseen, sweep, stockVars, given,
                   refunds, canceling, faults>>

\* The delivery transaction finds enough entries under the product lock: they
\* become SOLD and the order DELIVERED, whatever its status is by now.
Deliver(w) ==
    /\ wpc[w] = "pop"
    /\ LET o == word[w] IN
       /\ stock >= Qty[o]
       /\ stock' = stock - Qty[o]
       /\ available' = stock - Qty[o]
       /\ given' = [given EXCEPT ![o] = @ + Qty[o]]
       /\ status' = [status EXCEPT ![o] = "DELIVERED"]
    /\ Goto(w, "post")
    /\ UNCHANGED <<payment, isPreorder, cancel, paidAt, stamp, clock, queueVars, word,
                   wseen, sweep, addMail, shared, supply, refunds, canceling, faults>>

\* Mutant of Shortage: every job that loses the race for stock just ends.
ShortageJustEnds(w) ==
    /\ wpc[w] = "pop"
    /\ stock < Qty[word[w]]
    /\ Goto(w, "post")
    /\ UNCHANGED <<orderVars, queueVars, word, wseen, sweep, stockVars, given,
                   refunds, canceling, faults>>

\* The entries counted before are gone.  An ordinary order is refunded.  For a
\* pre-order the transaction sets PAID_WAITING_STOCK and then throws a
\* sentinel, so the update is rolled back and the job just ends.
Shortage(w) ==
    /\ wpc[w] = "pop"
    /\ stock < Qty[word[w]]
    /\ Goto(w, IF isPreorder[word[w]] THEN "post" ELSE "refund")
    /\ UNCHANGED <<orderVars, queueVars, word, wseen, sweep, stockVars, given,
                   refunds, canceling, faults>>

\* The order is left for the seller; the counter is written from the value
\* loaded at the start of the job.
Park(w) ==
    /\ wpc[w] = "park"
    /\ status' = [status EXCEPT ![word[w]] = "PAID_WAITING_STOCK"]
    /\ available' = Min0(wseen[w], Qty[word[w]])
    /\ Goto(w, "post")
    /\ UNCHANGED <<payment, isPreorder, cancel, paidAt, stamp, clock, queueVars, word,
                   wseen, sweep, addMail, shared, stock, supply, given, refunds, canceling,
                   faults>>

\* Mutant of Refund: the ledger and the status are not looked at again.
RefundUnconditionally(w) ==
    /\ wpc[w] = "refund"
    /\ status' = [status EXCEPT ![word[w]] = "REFUNDED"]
    /\ payment' = [payment EXCEPT ![word[w]] = "REFUNDED"]
    /\ refunds' = [refunds EXCEPT ![word[w]] = @ + 1]
    /\ Goto(w, "post")
    /\ UNCHANGED <<isPreorder, cancel, paidAt, stamp, clock, queueVars, word, wseen,
                   sweep, stockVars, given, canceling, faults>>

\* refundOutOfStockOrderToCustomerWallet: re-reads the order under its row
\* lock and the wallet ledger, and credits at most once.
Refund(w) ==
    /\ wpc[w] = "refund"
    /\ LET o == word[w] IN
       IF status[o] \in {"REFUNDED", "DELIVERED"} \/ refunds[o] > 0
         THEN UNCHANGED <<status, payment, refunds>>
         ELSE /\ status' = [status EXCEPT ![o] = "REFUNDED"]
              /\ payment' = [payment EXCEPT ![o] = "REFUNDED"]
              /\ refunds' = [refunds EXCEPT ![o] = @ + 1]
    /\ Goto(w, "post")
    /\ UNCHANGED <<isPreorder, cancel, paidAt, stamp, clock, queueVars, word, wseen,
                   sweep, stockVars, given, canceling, faults>>

\* A database error inside the job: it fails and is not attempted again (the
\* refund logs and swallows its own errors, with the same outcome).
JobFail(w) ==
    /\ Fault("db")
    /\ wpc[w] \notin {"idle", "lost", "post"}
    /\ Goto(w, "post")
    /\ UNCHANGED <<orderVars, queueVars, word, wseen, sweep, stockVars, given,
                   refunds, canceling>>

\* Warranty snapshot, commission and Telegram messages are done: the job
\* completes.
Finish(w) ==
    /\ wpc[w] = "post"
    /\ Goto(w, "idle")
    /\ word' = [word EXCEPT ![w] = NoOrder]
    /\ wseen' = [wseen EXCEPT ![w] = 0]
    /\ UNCHANGED <<orderVars, queueVars, sweep, stockVars, given, refunds,
                   canceling, faults>>

\* The worker process dies, or shutdown exits after waiting three seconds: its
\* jobs, its sweep and its scans stop where they are.
Crash ==
    /\ Fault("crash")
    /\ wpc' = [w \in Workers |-> IF wpc[w] = "idle" THEN "idle" ELSE "lost"]
    /\ sweep' = NoSweep
    /\ seen' = [o \in Orders |-> 0]
    /\ adding' = [o \in Orders |-> 0]
    /\ UNCHANGED <<orderVars, api, jobKnown, queued, stalled, word, wseen,
                   stockVars, given, refunds, canceling>>

\* BullMQ finds the stalled job and hands it out again, maxStalledCount times.
Recover(w) ==
    /\ wpc[w] = "lost"
    /\ LET o == word[w] IN
       IF stalled[o] < MaxStalled
         THEN /\ stalled' = [stalled EXCEPT ![o] = @ + 1]
              /\ queued' = [queued EXCEPT ![o] = @ + 1]
         ELSE UNCHANGED <<stalled, queued>>
    /\ Goto(w, "idle")
    /\ word' = [word EXCEPT ![w] = NoOrder]
    /\ wseen' = [wseen EXCEPT ![w] = 0]
    /\ UNCHANGED <<orderVars, api, scanVars, jobKnown, sweep, stockVars, given,
                   refunds, canceling, faults>>

-----------------------------------------------------------------------------
(* The pre-order sweep: enqueueFulfillablePreorders.                         *)

Sweepable(o) ==
    InQueue(o) /\ status[o] = "PAID_WAITING_STOCK" /\ cancel[o] # "REQUESTED"

\* One sweep at a time; it reads the queue ...
SweepStart ==
    /\ sweep.pc = "idle"
    /\ \E o \in Orders : Sweepable(o)
    /\ sweep' = [NoSweep EXCEPT !.pc = "budget",
                                !.todo = {o \in Orders : Sweepable(o)}]
    /\ UNCHANGED <<orderVars, queueVars, workerVars, stockVars, given, refunds,
                   canceling, faults>>

\* ... and then the stock.
SweepBudget ==
    /\ sweep.pc = "budget"
    /\ sweep' = [sweep EXCEPT !.pc = "scan", !.budget = IF shared THEN available ELSE stock]
    /\ UNCHANGED <<orderVars, queueVars, workerVars, stockVars, given, refunds,
                   canceling, faults>>

SweepNext(o) ==
    /\ sweep.pc = "scan"
    /\ o \in sweep.todo
    /\ \A p \in sweep.todo : paidAt[o] <= paidAt[p]

\* enqueueWaitingPreorder, first statement: claim the next order of the list.
SweepClaim(o) ==
    /\ SweepNext(o)
    /\ sweep.budget >= Qty[o]
    /\ Sweepable(o)
    /\ status' = [status EXCEPT ![o] = "PROCESSING_PURCHASE"]
    /\ sweep' = [sweep EXCEPT !.pc = "add", !.cur = o, !.todo = @ \ {o}]
    /\ UNCHANGED <<payment, isPreorder, cancel, paidAt, stamp, clock, queueVars,
                   workerVars, stockVars, given, refunds, canceling, faults>>

\* The conditional claim finds an order changed since the list was read: it is
\* passed over.
SweepSkip(o) ==
    /\ SweepNext(o)
    /\ sweep.budget >= Qty[o]
    /\ ~Sweepable(o)
    /\ sweep' = [sweep EXCEPT !.todo = @ \ {o}]
    /\ UNCHANGED <<orderVars, queueVars, workerVars, stockVars, given, refunds,
                   canceling, faults>>

\* The list is done, or the budget does not cover the next order.
SweepEnd ==
    /\ sweep.pc = "scan"
    /\ \/ sweep.todo = {}
       \/ \E o \in Orders : SweepNext(o) /\ sweep.budget < Qty[o]
    /\ sweep' = NoSweep
    /\ UNCHANGED <<orderVars, queueVars, workerVars, stockVars, given, refunds,
                   canceling, faults>>

\* queue.add with a fresh job id preorder-<order>-<time>.
SweepAdd ==
    /\ sweep.pc = "add"
    /\ queued' = [queued EXCEPT ![sweep.cur] = @ + 1]
    /\ sweep' = [sweep EXCEPT !.pc = "scan", !.cur = NoOrder,
                              !.budget = @ - Qty[sweep.cur]]
    /\ UNCHANGED <<orderVars, api, scanVars, jobKnown, stalled, workerVars,
                   stockVars, given, refunds, canceling, faults>>

\* queue.add fails, or (added) the event cannot be recorded: the order is put
\* back to waiting and the error ends the sweep.
SweepFail(added) ==
    /\ Fault(IF added THEN "db" ELSE "queue")
    /\ sweep.pc = "add"
    /\ queued' = IF added THEN [queued EXCEPT ![sweep.cur] = @ + 1] ELSE queued
    /\ SetStatus(sweep.cur, "PROCESSING_PURCHASE", "PAID_WAITING_STOCK")
    /\ sweep' = NoSweep
    /\ UNCHANGED <<payment, isPreorder, cancel, paidAt, stamp, clock, api, scanVars,
                   jobKnown, stalled, workerVars, stockVars, given, refunds,
                   canceling>>

-----------------------------------------------------------------------------
(* The seller: stock, hand-fulfilled orders, and pre-order cancellation.     *)

\* createBatch, for a product of any kind: n new entries; the counter is
\* recounted.
Upload(n) ==
    /\ n \in 1 .. supply
    /\ supply' = supply - n
    /\ stock' = stock + n
    /\ available' = stock + n
    /\ UNCHANGED <<orderVars, queueVars, workerVars, sweep, addMail, shared, given, refunds,
                   canceling, faults>>

\* extractStock: the seller takes entries out by hand.
Extract(n) ==
    /\ n \in 1 .. stock
    /\ stock' = stock - n
    /\ available' = stock - n
    /\ UNCHANGED <<orderVars, queueVars, workerVars, sweep, addMail, shared, supply, given,
                   refunds, canceling, faults>>

\* updateProduct of a hand-fulfilled or shared product: the seller types the
\* counter in.
SetCapacity(n) ==
    /\ addMail \/ shared
    /\ n \in 1 .. supply
    /\ supply' = supply - n
    /\ available' = n
    /\ UNCHANGED <<orderVars, queueVars, workerVars, sweep, addMail, shared, stock, given,
                   refunds, canceling, faults>>

\* completePendingManualOrder: the status is read again under the row lock.
Complete(o) ==
    /\ ~isPreorder[o]
    /\ status[o] = "PAID_WAITING_STOCK"
    /\ status' = [status EXCEPT ![o] = "DELIVERED"]
    /\ available' = IF addMail THEN available ELSE Min0(available, Qty[o])
    /\ given' = [given EXCEPT ![o] = @ + Qty[o]]
    /\ UNCHANGED <<payment, isPreorder, cancel, paidAt, stamp, clock, queueVars,
                   workerVars, sweep, addMail, shared, stock, supply, refunds, canceling,
                   faults>>

\* cancelPendingManualOrder reads the order before its transaction ...
CancelRead(o) ==
    /\ ~isPreorder[o]
    /\ status[o] = "PAID_WAITING_STOCK"
    /\ canceling[o] < MaxClicks
    /\ canceling' = [canceling EXCEPT ![o] = @ + 1]
    /\ UNCHANGED <<orderVars, queueVars, workerVars, sweep, stockVars, given,
                   refunds, faults>>

\* ... and writes FAILED without looking again; a hand-fulfilled product gets
\* its capacity back.  Nothing is refunded here.
CancelWrite(o) ==
    /\ canceling[o] > 0
    /\ canceling' = [canceling EXCEPT ![o] = @ - 1]
    /\ status' = [status EXCEPT ![o] = "FAILED"]
    /\ available' = IF addMail THEN available + Qty[o] ELSE available
    /\ UNCHANGED <<payment, isPreorder, cancel, paidAt, stamp, clock, queueVars,
                   workerVars, sweep, addMail, shared, stock, supply, given, refunds, faults>>

\* A paid pre-order that waits for stock, seen under its row lock.
Waiting(o) ==
    /\ isPreorder[o]
    /\ payment[o] = "PAID"
    /\ status[o] = "PAID_WAITING_STOCK"

\* requestPreorderCancellationFromTelegram.
RequestCancel(o) ==
    /\ Waiting(o)
    /\ cancel[o] \in {"NONE", "REJECTED"}
    /\ cancel' = [cancel EXCEPT ![o] = "REQUESTED"]
    /\ UNCHANGED <<status, payment, isPreorder, paidAt, stamp, clock, queueVars,
                   workerVars, sweep, stockVars, given, refunds, canceling,
                   faults>>

\* rejectPreorderCancellation.
RejectCancel(o) ==
    /\ Waiting(o)
    /\ cancel[o] = "REQUESTED"
    /\ cancel' = [cancel EXCEPT ![o] = "REJECTED"]
    /\ UNCHANGED <<status, payment, isPreorder, paidAt, stamp, clock, queueVars,
                   workerVars, sweep, stockVars, given, refunds, canceling,
                   faults>>

\* Mutant of ResolveCancel: the seller cancels whatever is paid, in flight too.
ResolveCancelInFlight(o, by) ==
    /\ InQueue(o)
    /\ by = "APPROVED" => cancel[o] = "REQUESTED"
    /\ status' = [status EXCEPT ![o] = "REFUNDED"]
    /\ payment' = [payment EXCEPT ![o] = "REFUNDED"]
    /\ cancel' = [cancel EXCEPT ![o] = by]
    /\ refunds' = [refunds EXCEPT ![o] = @ + 1]
    /\ UNCHANGED <<isPreorder, paidAt, stamp, clock, queueVars, workerVars, sweep,
                   stockVars, given, canceling, faults>>

\* resolvePreorderCancellation, for a customer's request (by = "APPROVED") or
\* on the seller's own account (by = "SELLER_CANCELED"): the refund is credited
\* in the same transaction.
ResolveCancel(o, by) ==
    /\ Waiting(o)
    /\ by = "APPROVED" => cancel[o] = "REQUESTED"
    /\ cancel[o] \notin {"APPROVED", "SELLER_CANCELED"}
    /\ status' = [status EXCEPT ![o] = "REFUNDED"]
    /\ payment' = [payment EXCEPT ![o] = "REFUNDED"]
    /\ cancel' = [cancel EXCEPT ![o] = by]
    /\ refunds' = [refunds EXCEPT ![o] = @ + 1]
    /\ UNCHANGED <<isPreorder, paidAt, stamp, clock, queueVars, workerVars, sweep,
                   stockVars, given, canceling, faults>>

-----------------------------------------------------------------------------
Customer(o) ==
    \/ Prepare(o) \/ Create(o) \/ Reject(o) \/ TakeTime(o) \/ Pay(o)
    \/ RequestCancel(o)

Enqueue(o) ==
    \/ EnqueueClaim(o) \/ EnqueueAdd(o) \/ EnqueueFail(o, TRUE)
    \/ EnqueueFail(o, FALSE) \/ ApiCrash(o)
    \/ ScanSee(o) \/ ScanPay(o) \/ ScanAdd(o) \/ ScanFail(o)

Job(w) ==
    \/ CheckTurn(w) \/ MoveToWaiting(w) \/ CountShared(w) \/ DeliverShared(w)
    \/ Count(w) \/ Deliver(w) \/ Shortage(w)
    \/ Park(w) \/ Refund(w) \/ JobFail(w) \/ Finish(w) \/ Recover(w)

Sweep ==
    \/ SweepStart \/ SweepBudget \/ SweepEnd \/ SweepAdd
    \/ SweepFail(TRUE) \/ SweepFail(FALSE)
    \/ \E o \in Orders : SweepClaim(o) \/ SweepSkip(o)

Seller ==
    \/ \E n \in 1 .. Supply : Upload(n) \/ Extract(n) \/ SetCapacity(n)
    \/ \E o \in Orders :
          \/ Complete(o) \/ CancelRead(o) \/ CancelWrite(o) \/ RejectCancel(o)
          \/ ResolveCancel(o, "APPROVED") \/ ResolveCancel(o, "SELLER_CANCELED")

Next ==
    \/ \E o \in Orders : Customer(o) \/ Enqueue(o)
    \/ \E w \in Workers : Job(w) \/ \E o \in Orders : Load(w, o)
    \/ Crash
    \/ Sweep
    \/ Seller

Spec == Init /\ [][Next]_vars

\* Requests that were started run to their end, waiting jobs are handed to idle
\* slots, and jobs go on.  Nothing is assumed of customers and sellers.
Fairness ==
    /\ \A o \in Orders :
          /\ WF_vars(EnqueueClaim(o)) /\ WF_vars(EnqueueAdd(o))
          /\ WF_vars(seen[o] > 0 /\ TakeTime(o))
          /\ WF_vars(ScanPay(o)) /\ WF_vars(ScanAdd(o))
    /\ \A w \in Workers : WF_vars(Job(w))
    /\ WF_vars(\E w \in Workers, o \in Orders : Load(w, o))

FairSpec == Spec /\ Fairness

-----------------------------------------------------------------------------
\* Every variable stays in its range.
TypeOK ==
    /\ status \in [Orders -> Statuses]
    /\ payment \in [Orders -> {"PENDING", "PAID", "REFUNDED"}]
    /\ isPreorder \in [Orders -> BOOLEAN]
    /\ cancel \in [Orders -> {"NONE", "REQUESTED", "REJECTED", "APPROVED",
                              "SELLER_CANCELED"}]
    /\ paidAt \in [Orders -> Nat]
    /\ stamp \in [Orders -> Nat]
    /\ clock \in Nat
    /\ api \in [Orders -> {"no", "due", "add"}]
    /\ seen \in [Orders -> Nat]
    /\ adding \in [Orders -> Nat]
    /\ jobKnown \in [Orders -> BOOLEAN]
    /\ queued \in [Orders -> Nat]
    /\ stalled \in [Orders -> Nat]
    /\ wpc \in [Workers -> Steps]
    /\ word \in [Workers -> Orders \cup {NoOrder}]
    /\ wseen \in [Workers -> Nat]
    /\ \A w \in Workers : wpc[w] = "idle" <=> word[w] = NoOrder
    /\ sweep \in [pc : {"idle", "budget", "scan", "add"}, todo : SUBSET Orders,
                  budget : Nat, cur : Orders \cup {NoOrder}]
    /\ sweep.pc = "add" <=> sweep.cur # NoOrder
    /\ stock \in Nat
    /\ available \in Nat
    /\ supply \in Nat
    /\ addMail \in BOOLEAN
    /\ shared \in BOOLEAN
    /\ given \in [Orders -> Nat]
    /\ refunds \in [Orders -> Nat]
    /\ canceling \in [Orders -> Nat]
    /\ faults \in Nat

-----------------------------------------------------------------------------
(* Who still holds an order.                                                 *)

\* A job, a process about to add one, or a worker that will still act on it.
Held(o) ==
    \/ api[o] = "add" \/ seen[o] > 0 \/ adding[o] > 0
    \/ queued[o] > 0 \/ sweep.cur = o
    \/ \E w \in Workers : word[w] = o /\ wpc[w] # "post"

\* An ordinary order in PROCESSING_PURCHASE always has a job, or somebody about
\* to add one: only such an order is invisible to every retry (callbacks want
\* PAID, the sweep and the seller want PAID_WAITING_STOCK).
OrdinaryNotStranded ==
    \A o \in Orders :
        status[o] = "PROCESSING_PURCHASE" /\ ~isPreorder[o] => Held(o)

\* No order is refunded twice, by whichever of the three refunding paths.
RefundOnce == \A o \in Orders : refunds[o] <= 1

\* An order gets its goods once, and never goods and money back.
SettledOnce ==
    \A o \in Orders :
        /\ given[o] <= Qty[o]
        /\ given[o] = 0 \/ refunds[o] = 0

\* Once a customer's cancellation request is on record the goods stay in the
\* shop until the seller has decided.
RequestHoldsDelivery ==
    [][\A o \in Orders : cancel[o] = "REQUESTED" => given'[o] = given[o]]_vars

\* A paid ordinary order is delivered or refunded in the end, whatever races
\* it loses for the last entries in stock.
OrdinarySettles ==
    \A o \in Orders :
        payment[o] = "PAID" /\ ~isPreorder[o] ~>
            status[o] \in {"DELIVERED", "REFUNDED"}

-----------------------------------------------------------------------------
(* What customers are promised.                                              *)

\* How an order stands for its customer: by its goods and its money, whatever
\* the row says.
Outcome(o) ==
    IF given[o] > 0 THEN "delivered"
    ELSE IF refunds[o] > 0 THEN "refunded"
    ELSE IF payment[o] = "PENDING" THEN "open" ELSE "paid"

Outcomes == [o \in Orders |-> Outcome(o)]
Places   == [o \in Orders |-> IF InQueue(o) THEN paidAt[o] ELSE 0]
Requests == {o \in Orders : InQueue(o) /\ cancel[o] = "REQUESTED"}

\* Pre-orders whose job has passed its turn check and goes for the goods.
Called ==
    {o \in Orders : /\ isPreorder[o]
                    /\ \E w \in Workers : word[w] = o /\ wpc[w] \in {"count", "pop"}}

Promise == INSTANCE OrderPromise WITH
    outcome <- Outcomes, place <- Places, time <- stamp, last <- clock,
    asked <- Requests, called <- Called

\* The jobs, the sweep, the callbacks and the seller's and customer's requests,
\* in every interleaving, implement OrderPromise: every step changes nothing that
\* was promised or is one of its steps.  A payment time is taken before the
\* transaction that writes it, so first come, first served holds among the
\* payments written when a job checks its turn, and the promise says just that.
KeepsPromise == Promise!Spec

=============================================================================
