------------------------------ MODULE Sourcing ------------------------------
(***************************************************************************)
(* Goods a shop does not have itself.  An order comes                      *)
(*   key     through the REST key of another shop,                         *)
(*   bound   through the REST key of a customer without a shop,            *)
(*   shop    as a customer's order of a shop whose source is this shop,    *)
(*   direct  as a customer's order of a shop with an external provider.    *)
(* The first three take goods of the source shop: its stock, by hand       *)
(* ("manual"), or from the provider the source shop has itself; they are   *)
(* InternalSourceOrder rows, paid from the buyer's wallet at the source    *)
(* shop, one unit of money each.  A provider is "keyed", as canboso is,    *)
(* when an idempotency key goes with the purchase and nobody asks for its  *)
(* status later; it is "blind", as roboticvn is, when no key goes with the *)
(* purchase, its client repeats requests, and open purchases are polled.   *)
(* No order here is a pre-order (Fulfillment has those).                   *)
(***************************************************************************)
EXTENDS Integers, FiniteSets

CONSTANTS
    Orders,
    Cases,       \* the orders' kinds, and a bound of their runs: [who, goods, most] for each
    Created,     \* Created[o]: Order.createdAt
    Page,        \* how many orders a reconciler takes: 20
    Retries,     \* how often the client of a blind provider repeats a request: 4
    MaxStock,    \* bound: entries of the source shop
    MaxBalance,  \* bound: money of the buyer at the source shop
    MaxRuns,     \* bound: runs of an order's job
    MaxCalls,    \* bound: calls of the source's owner under way at once
    MaxCrashes   \* bound: runs that die

ASSUME PageAssumption ==
    /\ Created \in [Orders -> Nat] /\ \A o, p \in Orders : Created[o] = Created[p] => o = p
    /\ Page \in Nat \ {0}

ASSUME BoundsAssumption ==
    /\ Retries \in Nat
    /\ MaxStock \in Nat /\ MaxBalance \in Nat /\ MaxRuns \in Nat \ {0} /\ MaxCalls \in Nat /\ MaxCrashes \in Nat
    /\ Cases \subseteq [Orders -> [who : {"key", "bound", "shop", "direct"},
                                   goods : {"manual", "none", "keyed", "blind"},
                                   most : 0 .. MaxRuns]]

VARIABLES
    case,       \* case[o]: where order o comes from and how its goods are got
    calm,       \* no job stalls or dies after its last write, the source's owner waits for the
                \* request to end, and no seller completes and cancels one order at once
    stock,      \* AVAILABLE StockEntry rows of the source's product
    balance,    \* CustomerWallet of the buyer at the source shop
    order,      \* order[o]: Order.status at the buying shop
    handed,     \* orders with a deliveredAt, which nothing clears
    link,       \* link[o]: Order.internalSourceOrderId
    source,     \* source[r]: InternalSourceOrder.status
    pc,         \* pc[r]: where the request or the job that made row r is
    runs,       \* runs[o]: requests or jobs begun
    debits,     \* debits[o]: SPEND_ORDER rows for the order
    refunded,   \* refunded[r]: REFUND_ORDER rows for the source order
    cascaded,   \* orders whose warranty claim has been refunded up the chain
    paidBack,   \* orders refunded to the customer's wallet
    bought,     \* bought[o]: purchases the provider has made for the order
    verdict,    \* verdict[o]: what became of a purchase the provider left open, with a reference
    delivering, \* rows the owner's delivery has read
    failing,    \* <<r, c>>: the owner's call c to mark row r failed has read it
    recon,      \* recon[o]: the row a reconciler has listed with the order, or "poll"
    cancelling, \* orders the seller's cancellation has read
    crashes

ownerVars == <<delivering, failing>>
moneyVars == <<balance, debits, refunded, cascaded>>
providerVars == <<bought, verdict>>
statusVars == <<order, handed>>
customerVars == <<statusVars, link, paidBack>>
otherVars == <<case, calm, recon, cancelling>>
vars == <<case, calm, stock, moneyVars, customerVars, source, pc, runs, providerVars, ownerVars,
          recon, cancelling, crashes>>

Rows == Orders \X (1 .. MaxRuns)
Closed == {"DELIVERED", "FAILED", "CANCELED"}
Idle == 0     \* no row
Poll == -1    \* no row either: the provider is asked

Who(o) == case[o].who
Goods(o) == case[o].goods
External(o) == Goods(o) \in {"keyed", "blind"}

Init ==
    /\ case \in Cases
    /\ calm \in BOOLEAN
    /\ stock \in 0 .. MaxStock
    /\ balance \in 0 .. MaxBalance
    /\ order = [o \in Orders |-> "PROCESSING"]
    /\ link = [o \in Orders |-> Idle]
    /\ source = [r \in Rows |-> "NONE"]
    /\ pc = [r \in Rows |-> "idle"]
    /\ runs = [o \in Orders |-> 0]
    /\ debits = [o \in Orders |-> 0]
    /\ refunded = [r \in Rows |-> 0]
    /\ cascaded = {} /\ paidBack = {} /\ handed = {}
    /\ bought = [o \in Orders |-> 0]
    /\ verdict = [o \in Orders |-> "none"]
    /\ delivering = {}
    /\ failing = {}
    /\ recon = [o \in Orders |-> Idle]
    /\ cancelling = {}
    /\ crashes = 0

Ended(r) == pc[r] \in {"idle", "done", "dead"}
Goto(r, l) == pc' = [pc EXCEPT ![r] = l]
SetOrder(o, s) ==
    /\ order' = [order EXCEPT ![o] = s]
    /\ handed' = IF s = "DELIVERED" THEN handed \union {o} ELSE handed
SetSource(r, s) == source' = [source EXCEPT ![r] = s]

-----------------------------------------------------------------------------
\* Money.

\* Mutant: whether there is a row already is not looked up.
DebitAgain(o) ==
    /\ balance > 0
    /\ balance' = balance - 1 /\ debits' = [debits EXCEPT ![o] = @ + 1]

\* debitConnectionBalanceTx: under the wallet's lock, once per order.
Debit(o) ==
    \/ debits[o] > 0 /\ UNCHANGED <<balance, debits>>
    \/ debits[o] = 0 /\ balance > 0
       /\ balance' = balance - 1 /\ debits' = [debits EXCEPT ![o] = 1]

\* Mutant: a row that is closed already is refunded again.
FailAgain(r) ==
    /\ SetSource(r, "FAILED")
    /\ refunded' = [refunded EXCEPT ![r] = @ + 1]
    /\ balance' = balance + 1

\* failInternalSourceOrder with its refund: nothing if the locked row is closed.
Fail(r) ==
    \/ source[r] \in Closed /\ UNCHANGED <<source, refunded, balance>>
    \/ /\ source[r] \notin Closed
       /\ SetSource(r, "FAILED")
       /\ refunded' = [refunded EXCEPT ![r] = @ + 1]
       /\ balance' = balance + 1

\* Mutant: the status of the locked order is not read again.
RefundBlindly(o) ==
    /\ SetOrder(o, "REFUNDED")
    /\ paidBack' = paidBack \union {o}

\* refundOutOfStockOrderToCustomerWallet: the customer's money back, once, unless delivered.
RefundCustomer(o) ==
    \/ /\ order[o] \notin {"REFUNDED", "DELIVERED"} /\ o \notin paidBack
       /\ SetOrder(o, "REFUNDED")
       /\ paidBack' = paidBack \union {o}
    \/ /\ order[o] \in {"REFUNDED", "DELIVERED"} \/ o \in paidBack
       /\ UNCHANGED <<statusVars, paidBack>>

-----------------------------------------------------------------------------
\* purchaseFromProvider.  An answer may be lost: a timeout of a keyed purchase counts as
\* pending, every other lost answer as failed, and the purchase was made or not.  A key makes
\* one purchase of all requests; a blind provider is sent a refused one again, and may have
\* sold each time.  A success without goods, not pending, leaves a job with nothing to hand on.

Buys(o) ==
    \E n \in 1 .. 1 + Retries : bought' = [bought EXCEPT ![o] = IF Goods(o) = "keyed" THEN 1 ELSE @ + n]

Buy(r) ==
    LET o == r[1]
    IN  /\ pc[r] = "buy"
        /\ \/ Goto(r, "bought") /\ Buys(o) /\ UNCHANGED verdict
           \/ Goto(r, "failed") /\ (Buys(o) \/ UNCHANGED bought) /\ UNCHANGED verdict
           \/ /\ Goods(o) = "keyed" /\ Who(o) \in {"shop", "direct"}
              /\ Goto(r, "bare") /\ Buys(o) /\ UNCHANGED verdict
           \/ /\ Goto(r, "pending")
              /\ Buys(o) \/ (Goods(o) = "keyed" /\ UNCHANGED bought)
              /\ \/ Goods(o) = "keyed" /\ UNCHANGED verdict
                 \/ verdict' = [verdict EXCEPT ![o] = "open"]
        /\ UNCHANGED <<stock, moneyVars, customerVars, source, runs, ownerVars, otherVars, crashes>>

\* The provider makes up its mind about a purchase it had left open.
Decide(o) ==
    /\ verdict[o] = "open" /\ Goods(o) = "blind"
    /\ \E v \in {"delivered", "failed", "cancelled"} : verdict' = [verdict EXCEPT ![o] = v]
    /\ UNCHANGED <<stock, moneyVars, customerVars, source, pc, runs, bought, ownerVars, otherVars,
                   crashes>>

-----------------------------------------------------------------------------
\* Orders through a key: createOrderByKey and fulfillInternalSourceOrder.

KeyOrder(o) ==
    LET r == <<o, 1>>
    IN  /\ Who(o) \in {"key", "bound"} /\ runs[o] = 0 /\ case[o].most > 0 /\ balance > 0
        /\ runs' = [runs EXCEPT ![o] = 1]
        /\ balance' = balance - 1
        /\ debits' = [debits EXCEPT ![o] = 1]
        /\ SetSource(r, "PENDING")
        /\ Goto(r, "look")
        /\ UNCHANGED <<stock, refunded, cascaded, customerVars, providerVars, ownerVars, otherVars,
                       crashes>>

\* The row is read again, and the stock counted.
KeyLook(r) ==
    LET o == r[1]
    IN  /\ Who(o) \in {"key", "bound"} /\ pc[r] = "look"
        /\ Goto(r, IF source[r] # "PENDING" THEN "done"
                   ELSE IF External(o) THEN "buy"
                   ELSE IF stock > 0 THEN "deliver" ELSE "park")
        /\ UNCHANGED <<stock, moneyVars, customerVars, source, runs, providerVars, ownerVars, otherVars,
                       crashes>>

\* Entries are taken under the row's lock while it is PENDING; without entries, or for a row
\* that is not, the order is parked, and entries that cost more than was charged fail it.
KeyDeliver(r) ==
    /\ Who(r[1]) \in {"key", "bound"} /\ pc[r] = "deliver"
    /\ \/ /\ source[r] = "PENDING" /\ stock > 0
          /\ SetSource(r, "DELIVERED") /\ stock' = stock - 1 /\ Goto(r, "done")
       \/ /\ source[r] = "PENDING" /\ stock > 0
          /\ Goto(r, "failed") /\ UNCHANGED <<source, stock>>
       \/ /\ source[r] # "PENDING" \/ stock = 0
          /\ Goto(r, "park") /\ UNCHANGED <<source, stock>>
    /\ UNCHANGED <<moneyVars, customerVars, runs, providerVars, ownerVars, otherVars, crashes>>

KeyBought(r) ==
    /\ Who(r[1]) \in {"key", "bound"} /\ pc[r] = "bought"
    /\ source' = IF source[r] = "PENDING" THEN [source EXCEPT ![r] = "DELIVERED"] ELSE source
    /\ Goto(r, "done")
    /\ UNCHANGED <<stock, moneyVars, customerVars, runs, providerVars, ownerVars, otherVars, crashes>>

\* A shop's order waits for the owner, whatever its row says by now.
KeyPark(r) ==
    /\ Who(r[1]) = "key" /\ pc[r] \in {"park", "pending"}
    /\ SetSource(r, "PARKED")
    /\ Goto(r, "done")
    /\ UNCHANGED <<stock, moneyVars, customerVars, runs, providerVars, ownerVars, otherVars, crashes>>

\* A purchase that failed, and a customer's that would have to wait, is refunded.
KeyFail(r) ==
    /\ Who(r[1]) \in {"key", "bound"}
    /\ pc[r] = "failed" \/ (Who(r[1]) = "bound" /\ pc[r] \in {"park", "pending"})
    /\ Fail(r)
    /\ Goto(r, "done")
    /\ UNCHANGED <<stock, debits, cascaded, customerVars, runs, providerVars, ownerVars, otherVars,
                   crashes>>

-----------------------------------------------------------------------------
\* Customers' orders: processPurchase.

\* A run begins, a second one after the first has died or, unless calm, has stalled.  An
\* order that is settled is looked at like any other.
Start(o) ==
    LET n == runs[o] + 1
    IN  /\ Who(o) \in {"shop", "direct"} /\ n <= case[o].most
        /\ n > 1 => pc[<<o, n - 1>>] = "dead" \/ (~calm /\ ~Ended(<<o, n - 1>>))
        /\ runs' = [runs EXCEPT ![o] = n]
        /\ Goto(<<o, n>>, "look")
        /\ UNCHANGED <<stock, moneyVars, customerVars, source, providerVars, ownerVars, otherVars,
                       crashes>>

\* The source's stock is counted, or the provider's catalogue read: it says that there is
\* nothing, or does not answer in time and the purchase is tried.
Look(r) ==
    LET o == r[1]
    IN  /\ Who(o) \in {"shop", "direct"} /\ pc[r] = "look"
        /\ \/ Who(o) = "shop" /\ stock > 0 /\ Goto(r, "deliver")
           \/ Who(o) = "shop" /\ stock = 0
              /\ Goto(r, IF External(o) THEN "buy" ELSE IF Goods(o) = "manual" THEN "park" ELSE "failed")
           \/ Who(o) = "direct" /\ Goto(r, "buy")
           \/ Who(o) = "direct" /\ Goto(r, "failed")
        /\ UNCHANGED <<stock, moneyVars, customerVars, source, runs, providerVars, ownerVars, otherVars,
                       crashes>>

\* One transaction takes the entry, records the source order and delivers; a shop's goods
\* are paid for in another one.
Deliver(r) ==
    /\ Who(r[1]) = "shop" /\ pc[r] = "deliver"
    /\ \/ /\ stock > 0
          /\ stock' = stock - 1
          /\ SetSource(r, "DELIVERED") /\ SetOrder(r[1], "DELIVERED")
          /\ link' = [link EXCEPT ![r[1]] = r[2]]
          /\ Goto(r, "debit")
       \/ stock = 0 /\ Goto(r, "failed") /\ UNCHANGED <<stock, source, statusVars, link>>
    /\ UNCHANGED <<moneyVars, paidBack, runs, providerVars, ownerVars, otherVars, crashes>>

\* The provider has delivered.
Bring(r) ==
    LET o == r[1]
    IN  /\ Who(o) \in {"shop", "direct"} /\ pc[r] = "bought"
        /\ SetOrder(o, "DELIVERED")
        /\ \/ Who(o) = "shop" /\ SetSource(r, "DELIVERED") /\ link' = [link EXCEPT ![o] = r[2]]
              /\ Goto(r, "debit")
           \/ Who(o) = "direct" /\ Goto(r, "done") /\ UNCHANGED <<source, link>>
        /\ UNCHANGED <<stock, moneyVars, paidBack, runs, providerVars, ownerVars, otherVars, crashes>>

\* The provider's answer is not known, or the source delivers by hand.
Wait(r) ==
    LET o == r[1]
    IN  /\ Who(o) \in {"shop", "direct"}
        /\ SetOrder(o, "WAITING")
        /\ \/ pc[r] = "pending" /\ Goto(r, "done") /\ UNCHANGED <<source, link>>
           \/ pc[r] = "park" /\ SetSource(r, "PARKED") /\ link' = [link EXCEPT ![o] = r[2]]
              /\ Goto(r, "debit")
        /\ UNCHANGED <<stock, moneyVars, paidBack, runs, providerVars, ownerVars, otherVars, crashes>>

\* Bought, but no goods to hand on: the order fails, and nobody gets money back.
FailBare(r) ==
    /\ Who(r[1]) \in {"shop", "direct"} /\ pc[r] = "bare"
    /\ SetOrder(r[1], "FAILED")
    /\ Goto(r, "done")
    /\ UNCHANGED <<stock, moneyVars, link, paidBack, source, runs, providerVars, ownerVars, otherVars,
                   crashes>>

\* safeDebitConnectionBalance: a debit that is refused is logged and forgotten.
DebitStep(r) ==
    /\ pc[r] = "debit"
    /\ Debit(r[1]) \/ (debits[r[1]] = 0 /\ balance = 0 /\ UNCHANGED <<balance, debits>>)
    /\ Goto(r, "done")
    /\ UNCHANGED <<stock, refunded, cascaded, customerVars, source, runs, providerVars, ownerVars,
                   otherVars, crashes>>

GiveBack(r) ==
    /\ Who(r[1]) \in {"shop", "direct"} /\ pc[r] = "failed"
    /\ RefundCustomer(r[1])
    /\ Goto(r, "done")
    /\ UNCHANGED <<stock, moneyVars, link, source, runs, providerVars, ownerVars, otherVars, crashes>>

\* The process of a run dies; that of a customer's order perhaps after its last write, before
\* the queue has heard that the job is over.
Crash(r) ==
    /\ crashes < MaxCrashes
    /\ ~Ended(r) \/ (~calm /\ pc[r] = "done" /\ Who(r[1]) \in {"shop", "direct"})
    /\ Goto(r, "dead")
    /\ crashes' = crashes + 1
    /\ UNCHANGED <<stock, moneyVars, customerVars, source, runs, providerVars, ownerVars, otherVars>>

-----------------------------------------------------------------------------
\* The owner of the source shop.

MoreCalls == Cardinality(delivering) + Cardinality(failing) < MaxCalls

\* manualDeliverSourceOrder reads the row, and writes DELIVERED whatever it says by then.
OwnerDeliverRead(r) ==
    /\ source[r] \in {"PENDING", "PARKED"} /\ r \notin delivering /\ MoreCalls
    /\ calm => Ended(r) /\ \A c \in 1 .. MaxCalls : <<r, c>> \notin failing
    /\ delivering' = delivering \union {r}
    /\ UNCHANGED <<stock, moneyVars, customerVars, source, pc, runs, providerVars, failing, otherVars,
                   crashes>>

OwnerDeliverWrite(r) ==
    /\ r \in delivering
    /\ delivering' = delivering \ {r}
    /\ SetSource(r, "DELIVERED")
    /\ UNCHANGED <<stock, moneyVars, customerVars, pc, runs, providerVars, failing, otherVars, crashes>>

\* markSourceOrderFailed, perhaps twice at once.
MarkFailedRead(r, c) ==
    /\ source[r] \in {"PENDING", "PARKED"} /\ <<r, c>> \notin failing /\ MoreCalls
    /\ calm => Ended(r) /\ r \notin delivering
    /\ failing' = failing \union {<<r, c>>}
    /\ UNCHANGED <<stock, moneyVars, customerVars, source, pc, runs, providerVars, delivering, otherVars,
                   crashes>>

MarkFailedWrite(r, c) ==
    /\ <<r, c>> \in failing
    /\ failing' = failing \ {<<r, c>>}
    /\ Fail(r)
    /\ UNCHANGED <<stock, debits, cascaded, customerVars, pc, runs, providerVars, delivering, otherVars,
                   crashes>>

\* cascadeRefundUpstream: the customer's warranty refund of the whole order goes up the
\* chain, once for the claim, to the first source order there is.
Cascade(o) ==
    /\ Who(o) = "shop" /\ order[o] = "DELIVERED" /\ o \notin cascaded
    /\ \E n \in 1 .. MaxRuns : source[<<o, n>>] # "NONE" /\ SetSource(<<o, n>>, "CANCELED")
    /\ cascaded' = cascaded \union {o}
    /\ balance' = balance + 1
    /\ UNCHANGED <<stock, debits, refunded, customerVars, pc, runs, providerVars, ownerVars, otherVars,
                   crashes>>

-----------------------------------------------------------------------------
\* The seller of the waiting order.

\* completePendingManualOrder: one transaction, refused if the goods cannot be paid for.
CompleteByHand(o) ==
    /\ order[o] = "WAITING" /\ (calm => o \notin cancelling)
    /\ IF Who(o) = "shop" THEN Debit(o) ELSE UNCHANGED <<balance, debits>>
    /\ SetOrder(o, "DELIVERED")
    /\ UNCHANGED <<stock, refunded, cascaded, link, paidBack, source, pc, runs, providerVars, ownerVars,
                   otherVars, crashes>>

\* cancelPendingManualOrder reads the order, and fails it without a refund.
CancelRead(o) ==
    /\ order[o] = "WAITING" /\ o \notin cancelling
    /\ cancelling' = cancelling \union {o}
    /\ UNCHANGED <<case, calm, stock, moneyVars, customerVars, source, pc, runs, providerVars, ownerVars,
                   recon, crashes>>

CancelWrite(o) ==
    /\ o \in cancelling
    /\ cancelling' = cancelling \ {o}
    /\ SetOrder(o, "FAILED")
    /\ UNCHANGED <<case, calm, stock, moneyVars, link, paidBack, source, pc, runs, providerVars, ownerVars,
                   recon, crashes>>

-----------------------------------------------------------------------------
\* The reconcilers take the oldest orders that match their queries.

Unfulfilled == {o \in Orders : Who(o) = "shop" /\ order[o] \in {"PROCESSING", "WAITING"} /\ link[o] # Idle}
Referred == {o \in Orders : order[o] = "WAITING" /\ (link[o] # Idle \/ verdict[o] # "none")}

Crowded(o, all) == Cardinality({p \in all : Created[p] < Created[o]}) >= Page

\* Mutant: only orders whose job has not ended are listed.
ReconListProcessing(o) ==
    /\ recon[o] = Idle /\ o \in Unfulfilled /\ order[o] = "PROCESSING" /\ ~Crowded(o, Unfulfilled)
    /\ recon' = [recon EXCEPT ![o] = link[o]]
    /\ UNCHANGED <<case, calm, stock, moneyVars, customerVars, source, pc, runs, providerVars, ownerVars,
                   cancelling, crashes>>

\* reconcilePendingInternalSourceOrders lists orders with their source order.
ReconList(o) ==
    /\ recon[o] = Idle /\ o \in Unfulfilled /\ ~Crowded(o, Unfulfilled)
    /\ recon' = [recon EXCEPT ![o] = link[o]]
    /\ UNCHANGED <<case, calm, stock, moneyVars, customerVars, source, pc, runs, providerVars, ownerVars,
                   cancelling, crashes>>

\* What the source decided is written to the order, whatever it says by now.  The customer
\* of an order whose source failed gets no money here.
ReconWrite(o) ==
    LET r == <<o, recon[o]>>
    IN  /\ recon[o] > 0
        /\ recon' = [recon EXCEPT ![o] = Idle]
        /\ \/ source[r] = "DELIVERED" /\ SetOrder(o, "DELIVERED")
           \/ source[r] \in {"FAILED", "CANCELED"} /\ SetOrder(o, "FAILED")
           \/ source[r] \notin Closed /\ UNCHANGED statusVars
        /\ UNCHANGED <<case, calm, stock, moneyVars, link, paidBack, source, pc, runs, providerVars,
                       ownerVars, cancelling, crashes>>

\* reconcilePendingRoboticvnOrders lists waiting orders with any reference, and then asks
\* about those of blind providers.
PollList(o) ==
    /\ recon[o] = Idle /\ o \in Referred /\ ~Crowded(o, Referred)
    /\ Who(o) = "direct" /\ Goods(o) = "blind"
    /\ recon' = [recon EXCEPT ![o] = Poll]
    /\ UNCHANGED <<case, calm, stock, moneyVars, customerVars, source, pc, runs, providerVars, ownerVars,
                   cancelling, crashes>>

\* Mutant: a purchase that failed is made again.
PollAgain(o) ==
    /\ recon[o] = Poll
    /\ recon' = [recon EXCEPT ![o] = Idle]
    /\ \/ verdict[o] = "delivered" /\ SetOrder(o, "DELIVERED") /\ UNCHANGED <<paidBack, bought>>
       \/ verdict[o] = "failed" /\ Buys(o) /\ SetOrder(o, "DELIVERED") /\ UNCHANGED paidBack
       \/ verdict[o] \in {"open", "cancelled"} /\ UNCHANGED <<statusVars, paidBack, bought>>
    /\ UNCHANGED <<case, calm, stock, moneyVars, link, source, pc, runs, verdict, ownerVars, cancelling,
                   crashes>>

\* It asks for the status of each, and never buys again.  A purchase that is "cancelled" has
\* not "failed": its order goes on waiting.
PollWrite(o) ==
    /\ recon[o] = Poll
    /\ recon' = [recon EXCEPT ![o] = Idle]
    /\ \/ verdict[o] = "delivered" /\ SetOrder(o, "DELIVERED") /\ UNCHANGED paidBack
       \/ verdict[o] = "failed" /\ RefundCustomer(o)
       \/ verdict[o] \in {"open", "cancelled"} /\ UNCHANGED <<statusVars, paidBack>>
    /\ UNCHANGED <<case, calm, stock, moneyVars, link, source, pc, runs, providerVars, ownerVars,
                   cancelling, crashes>>

-----------------------------------------------------------------------------
Next ==
    \/ \E o \in Orders :
          \/ KeyOrder(o) \/ Start(o) \/ Decide(o) \/ Cascade(o) \/ CompleteByHand(o)
          \/ CancelRead(o) \/ CancelWrite(o) \/ ReconList(o) \/ ReconWrite(o)
          \/ PollList(o) \/ PollWrite(o)
    \/ \E r \in Rows :
          \/ Buy(r) \/ KeyLook(r) \/ KeyDeliver(r) \/ KeyBought(r) \/ KeyPark(r) \/ KeyFail(r)
          \/ Look(r) \/ Deliver(r) \/ Bring(r) \/ Wait(r) \/ FailBare(r) \/ DebitStep(r) \/ GiveBack(r) \/ Crash(r)
          \/ OwnerDeliverRead(r) \/ OwnerDeliverWrite(r)
    \/ \E r \in Rows, c \in 1 .. MaxCalls : MarkFailedRead(r, c) \/ MarkFailedWrite(r, c)

Spec == Init /\ [][Next]_vars

\* The reconcilers are timers: they list what is on their page, and write what they have
\* listed; the provider answers when it is asked for a status.
Fairness ==
    \A o \in Orders :
        WF_vars(ReconList(o)) /\ WF_vars(ReconWrite(o)) /\ WF_vars(PollList(o)) /\ WF_vars(PollWrite(o))

FairSpec == Spec /\ Fairness

-----------------------------------------------------------------------------
\* Every variable stays in its range.
TypeOK ==
    /\ case \in Cases /\ calm \in BOOLEAN
    /\ stock \in Nat /\ balance \in Int /\ crashes \in Nat
    /\ order \in [Orders -> {"PROCESSING", "WAITING", "DELIVERED", "REFUNDED", "FAILED"}]
    /\ link \in [Orders -> 0 .. MaxRuns]
    /\ source \in [Rows -> {"NONE", "PENDING", "PARKED"} \union Closed]
    /\ pc \in [Rows -> {"idle", "look", "deliver", "buy", "bought", "bare", "pending", "failed", "park", "debit",
                        "done", "dead"}]
    /\ runs \in [Orders -> 0 .. MaxRuns]
    /\ debits \in [Orders -> Nat] /\ bought \in [Orders -> Nat]
    /\ refunded \in [Rows -> Nat] /\ failing \subseteq Rows \X (1 .. MaxCalls)
    /\ cascaded \subseteq Orders /\ paidBack \subseteq Orders /\ handed \subseteq Orders /\ cancelling \subseteq Orders
    /\ verdict \in [Orders -> {"none", "open", "delivered", "failed", "cancelled"}]
    /\ delivering \subseteq Rows
    /\ recon \in [Orders -> Poll .. MaxRuns]

\* An order is paid for at most once at its source, also when its job runs twice and the
\* seller completes it by hand.
DebitOnce == \A o \in Orders : debits[o] <= 1

\* "Never re-purchase": an order that was recorded as waiting is not bought again, neither by
\* the poll that follows up its purchase nor by a job that begins after another has died,
\* while no job stalls or dies after its last write.  What is sold to repeated requests, or to
\* jobs that die before they record, is sold before the order waits.
NeverBoughtAgain == [][\A o \in Orders : calm /\ order[o] = "WAITING" => bought'[o] = bought[o]]_vars

\* The owner's refusals, the request's own failure and a second click give the money of a
\* source order back once, and never for one that is delivered, as long as the owner waits
\* for the request and does not deliver and refuse at once.
RefundedOnce ==
    calm => \A r \in Rows :
        /\ refunded[r] <= 1
        /\ source[r] = "DELIVERED" => refunded[r] = 0
        /\ source[r] = "FAILED" => refunded[r] = 1

\* A customer whose job ran once does not get the money and the goods.
GoodsOrMoney == calm => \A o \in paidBack : runs[o] = 1 => o \notin handed

\* The source, or the provider, has decided to deliver or to refuse, and the order, not
\* refunded yet, does not know.
Decided(o) ==
    /\ order[o] = "WAITING" /\ o \notin paidBack
    /\ \/ link[o] # Idle /\ source[<<o, link[o]>>] \in Closed
       \/ Who(o) = "direct" /\ verdict[o] \in {"delivered", "failed"}

\* Older orders that match the same query fill the page of the reconciler that looks after it.
Starved(o) == Crowded(o, IF Who(o) = "shop" THEN Unfulfilled ELSE Referred)

\* An order whose source order is closed, or whose own blind provider has delivered or
\* refused the open purchase, does not wait for ever, whoever else writes to it, unless a page
\* of older orders that stay undecided keeps it off the reconciler's list.
SourceTold == \A o \in Orders : Decided(o) ~> (~Decided(o) \/ Starved(o))

=============================================================================
