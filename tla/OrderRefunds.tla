---------------------------- MODULE OrderRefunds ----------------------------
(***************************************************************************)
(* The money of one paid order on its way back to the customer's wallet.   *)
(* Four parts of the program refund orders, each in a transaction of its   *)
(* own and each with its own idea of what was refunded before: the worker  *)
(* (no stock, or the supplier failed), the seller who cancels a waiting    *)
(* pre-order, the administrator, and the warranty desk.  The model keeps   *)
(* what these guards look at: the order's status and payment status, the   *)
(* REFUND_ORDER rows of the ledger and the claims.                         *)
(*                                                                         *)
(* Every refund locks the order or claim row and then the wallet row, so   *)
(* it is one step.  Amounts are in hundredths of a dong, as the database   *)
(* keeps them; the warranty desk and the administrator work in whole dong. *)
(* The goods themselves are the subject of Fulfillment.                    *)
(***************************************************************************)
EXTENDS Integers

CONSTANTS
    Prices,     \* the prices looked at: total, fee and fromCommission of the order
    Quantity,   \* Order.quantity
    Days,       \* warranty days of the product
    Claims,     \* warranty claims that may be opened
    MaxLines,   \* bound: accounts that one claim counts as dead
    MaxResweeps \* bound: how often a waiting pre-order is tried again

Vnd == 100

ASSUME PricesAssumption ==
    \A p \in Prices :
        /\ p \in [total : Nat \ {0}, fee : Nat, fromCommission : Nat]
        /\ p.fee <= p.total /\ p.fromCommission <= p.total

ASSUME BoundsAssumption ==
    /\ Quantity \in Nat \ {0} /\ Days \in Nat \ {0}
    /\ MaxLines \in Nat /\ MaxResweeps \in Nat

VARIABLES
    price,      \* what the order cost and how it was paid
    isPreorder, \* Order.isPreorder
    status,     \* Order.status
    payment,    \* Order.paymentStatus
    cancel,     \* the customer has asked the seller to cancel
    job,        \* the order's purchase job
    sweeps,     \* times the order was tried again
    main,       \* refunded to the withdrawable balance
    comm,       \* refunded to the commission balance
    rows,       \* referenceTypes of the order's own REFUND_ORDER rows
    admin,      \* the sum of its admin_order_refund rows
    warranty,   \* the sum of the refunds of its claims
    claim,      \* where each claim stands
    refund      \* refund[c]: what claim c has refunded

order  == <<price, isPreorder, cancel, job, sweeps>>
ledger == <<main, comm, rows, admin, warranty>>
claims == <<claim, refund>>
vars   == <<order, status, payment, ledger, claims>>

\* The order is paid and its purchase job is in the queue.
Init ==
    /\ price \in Prices
    /\ isPreorder \in BOOLEAN
    /\ status = "PROCESSING_PURCHASE"
    /\ payment = "PAID"
    /\ cancel = FALSE
    /\ job = "queued"
    /\ sweeps = 0
    /\ main = 0 /\ comm = 0
    /\ rows = {}
    /\ admin = 0
    /\ warranty = 0
    /\ claim = [c \in Claims |-> "none"]
    /\ refund = [c \in Claims |-> 0]

-----------------------------------------------------------------------------
(* Arithmetic of the refunds.                                                *)

Total == price.total                   \* Order.totalSaleAmount
PreorderFee == price.fee               \* Order.preorderFeeAmount
FromCommission == price.fromCommission \* what commissionBalance paid of it

Least(a, b) == IF a < b THEN a ELSE b

\* Math.round(a / b) and toFixed of it, for a >= 0 and b > 0.
RoundDiv(a, b) == (2 * a + b) \div (2 * b)

\* One more row: amount altogether, the part that goes back to commission.
Credit(amount, toCommission) ==
    /\ main' = main + amount - toCommission
    /\ comm' = comm + toCommission

\* creditPreorderRefund: the commission part in proportion, to the hundredth.
PreorderCommission(amount) ==
    Least(amount, RoundDiv(FromCommission * amount, Total))

\* autoRefundForOutOfStock and applyPartialStockRefund: the share of k accounts
\* with d of the warranty days left, in whole dong.
WarrantyAmount(k, d) ==
    Vnd * RoundDiv(RoundDiv(Total * k, Quantity * Vnd) * d, Days)

\* computeRefundCommissionSplit: the commission part in whole dong, capped.
CommissionShare(amount) ==
    Least(Vnd * RoundDiv(amount * FromCommission, Total * Vnd),
          Least(FromCommission, amount))

-----------------------------------------------------------------------------
(* The worker.                                                               *)

\* processPurchase loads the order; only pre-orders have their status checked.
Load ==
    /\ job = "queued"
    /\ job' = IF isPreorder /\ (status # "PROCESSING_PURCHASE" \/ payment # "PAID")
                THEN "done" ELSE "run"
    /\ UNCHANGED <<price, isPreorder, cancel, sweeps, status, payment, ledger, claims>>

\* The delivery transaction, whatever the order's status is by now.
Deliver ==
    /\ job = "run"
    /\ job' = "done"
    /\ status' = "DELIVERED"
    /\ UNCHANGED <<price, isPreorder, cancel, sweeps, payment, ledger, claims>>

\* There is no stock: a pre-order goes back to waiting, or is left as it is
\* where the transaction rolls that back; another order is refunded.
OutOfStock ==
    /\ job = "run"
    /\ job' = IF isPreorder THEN "done" ELSE "refund"
    /\ \/ isPreorder /\ status' = "PAID_WAITING_STOCK"
       \/ UNCHANGED status
    /\ UNCHANGED <<price, isPreorder, cancel, sweeps, payment, ledger, claims>>

\* refundOutOfStockOrderToCustomerWallet, the read before the transaction.
RefundLoad ==
    /\ job = "refund"
    /\ job' = IF status \in {"REFUNDED", "DELIVERED"} THEN "done" ELSE "credit"
    /\ UNCHANGED <<price, isPreorder, cancel, sweeps, status, payment, ledger, claims>>

\* Mutant of RefundWrite: the ledger is not looked at before crediting.
RefundWriteWithoutLedger ==
    /\ job = "credit"
    /\ job' = "done"
    /\ Credit(Total, Least(Total, FromCommission))
    /\ rows' = rows \cup {"worker"}
    /\ status' = "REFUNDED" /\ payment' = "REFUNDED"
    /\ UNCHANGED <<price, isPreorder, cancel, sweeps, admin, warranty, claims>>

\* Its transaction: nothing happens when the order was settled meanwhile or has
\* any REFUND_ORDER row.
RefundWrite ==
    /\ job = "credit"
    /\ job' = "done"
    /\ IF status \in {"REFUNDED", "DELIVERED"} \/ rows # {}
         THEN UNCHANGED <<status, payment, main, comm, rows>>
         ELSE /\ Credit(Total, Least(Total, FromCommission))
              /\ rows' = rows \cup {"worker"}
              /\ status' = "REFUNDED" /\ payment' = "REFUNDED"
    /\ UNCHANGED <<price, isPreorder, cancel, sweeps, admin, warranty, claims>>

-----------------------------------------------------------------------------
(* The seller and waiting pre-orders.                                        *)

Waiting == isPreorder /\ status = "PAID_WAITING_STOCK" /\ payment = "PAID"

\* enqueueWaitingPreorder: stock has come, the order is tried again.
Resweep ==
    /\ Waiting /\ ~cancel
    /\ sweeps < MaxResweeps
    /\ sweeps' = sweeps + 1
    /\ status' = "PROCESSING_PURCHASE"
    /\ job' = "queued"
    /\ UNCHANGED <<price, isPreorder, cancel, payment, ledger, claims>>

RequestCancel ==
    /\ Waiting /\ ~cancel
    /\ cancel' = TRUE
    /\ UNCHANGED <<price, isPreorder, job, sweeps, status, payment, ledger, claims>>

RejectCancel ==
    /\ Waiting /\ cancel
    /\ cancel' = FALSE
    /\ UNCHANGED <<price, isPreorder, job, sweeps, status, payment, ledger, claims>>

\* Mutant of CancelPreorder: the order stays where the sweep finds it.
CancelPreorderKeepsStatus(kind) ==
    /\ Waiting
    /\ kind = "customer_cancel" => cancel
    /\ kind \notin rows
    /\ LET amount == IF kind = "seller_cancel" THEN Total ELSE Total - PreorderFee IN
       Credit(amount, PreorderCommission(amount))
    /\ rows' = rows \cup {kind}
    /\ UNCHANGED <<order, status, payment, admin, warranty, claims>>

\* Mutant of CancelPreorder: everything is refunded to the main balance.
CancelPreorderToMain(kind) ==
    /\ Waiting
    /\ kind = "customer_cancel" => cancel
    /\ kind \notin rows
    /\ Credit(IF kind = "seller_cancel" THEN Total ELSE Total - PreorderFee, 0)
    /\ rows' = rows \cup {kind}
    /\ status' = "REFUNDED" /\ payment' = "REFUNDED"
    /\ UNCHANGED <<order, admin, warranty, claims>>

\* resolvePreorderCancellation: all the money if the seller cancels, all but
\* the fee if the customer asked for it.
CancelPreorder(kind) ==
    /\ Waiting
    /\ kind = "customer_cancel" => cancel
    /\ kind \notin rows
    /\ LET amount == IF kind = "seller_cancel" THEN Total ELSE Total - PreorderFee IN
       Credit(amount, PreorderCommission(amount))
    /\ rows' = rows \cup {kind}
    /\ status' = "REFUNDED" /\ payment' = "REFUNDED"
    /\ UNCHANGED <<order, admin, warranty, claims>>

-----------------------------------------------------------------------------
(* The administrator.                                                        *)

\* refundOrderToCustomerWallet: what remains is computed from the
\* administrator's own rows, and everything goes to the main balance.
AdminRefund(amount) ==
    /\ status # "REFUNDED" /\ payment = "PAID"
    /\ amount <= Total - admin
    /\ Credit(amount, 0)
    /\ rows' = rows \cup {"admin"}
    /\ admin' = admin + amount
    /\ IF admin + amount >= Total
         THEN status' = "REFUNDED" /\ payment' = "REFUNDED"
         ELSE UNCHANGED <<status, payment>>
    /\ UNCHANGED <<order, warranty, claims>>

-----------------------------------------------------------------------------
(* The warranty desk.                                                        *)
(*                                                                           *)
(* Which accounts a claim is about is left out: the customer's forms leave   *)
(* out accounts that an earlier claim replaced, the seller's own form does   *)
(* not, and a refund counts the accounts found dead or, where the verdict    *)
(* names none, those the customer named or the whole order.  Here a claim    *)
(* may count any number of accounts, whatever earlier claims refunded.       *)

\* A claim is taken on an order that was delivered when its row was read.
OpenClaim(c) ==
    /\ status = "DELIVERED"
    /\ claim[c] = "none"
    /\ claim' = [claim EXCEPT ![c] = "open"]
    /\ UNCHANGED <<order, status, payment, ledger, refund>>

\* The claim ends with nothing handed out: rejected, or nothing left to refund.
CloseClaim(c) ==
    /\ claim[c] = "open"
    /\ claim' = [claim EXCEPT ![c] = "closed"]
    /\ UNCHANGED <<order, status, payment, ledger, refund>>

\* The accounts a refund is for: a delivered text may hold extra lines.
Clamped(k) == Least(Quantity, k)

\* A warranty refund of claim c for k accounts with d of the warranty days left.
PayOut(c, k, d) ==
    LET amount == WarrantyAmount(k, d) IN
    /\ Credit(amount, CommissionShare(amount))
    /\ warranty' = warranty + amount
    /\ refund' = [refund EXCEPT ![c] = @ + amount]

\* Mutant of AutoRefund: every line counts.
AutoRefundUnclamped(c, k, d) ==
    /\ claim[c] = "open"
    /\ WarrantyAmount(k, d) > 0
    /\ PayOut(c, k, d)
    /\ claim' = [claim EXCEPT ![c] = "closed"]
    /\ status' = IF k >= Quantity THEN "REFUNDED" ELSE status
    /\ UNCHANGED <<order, payment, rows, admin>>

\* autoRefundForOutOfStock: no dead account can be replaced, all are paid out; a
\* refund of the whole order marks it.  The order's status and rows are not
\* looked at, and its payment status stays.
AutoRefund(c, k, d) ==
    /\ claim[c] = "open"
    /\ WarrantyAmount(Clamped(k), d) > 0
    /\ PayOut(c, Clamped(k), d)
    /\ claim' = [claim EXCEPT ![c] = "closed"]
    /\ status' = IF Clamped(k) >= Quantity THEN "REFUNDED" ELSE status
    /\ UNCHANGED <<order, payment, rows, admin>>

\* applyAutoCheckResult replaces dead accounts, and applyPartialStockRefund pays
\* out the ones (unserved) the stock was too small for.
Replace(c, unserved, d) ==
    /\ claim[c] = "open"
    /\ PayOut(c, Clamped(unserved), d)
    /\ claim' = [claim EXCEPT ![c] = "replaced"]
    /\ UNCHANGED <<order, status, payment, rows, admin>>

-----------------------------------------------------------------------------
Worker == Load \/ Deliver \/ OutOfStock \/ RefundLoad \/ RefundWrite \/ Resweep

Preorder ==
    \/ RequestCancel \/ RejectCancel
    \/ CancelPreorder("seller_cancel") \/ CancelPreorder("customer_cancel")

Admin == \E dong \in 1 .. Total \div Vnd : AdminRefund(dong * Vnd)

Warranty ==
    \E c \in Claims :
        \/ OpenClaim(c) \/ CloseClaim(c)
        \/ \E k \in 0 .. MaxLines, d \in 0 .. Days :
              AutoRefund(c, k, d) \/ Replace(c, k, d)

Next == Worker \/ Preorder \/ Admin \/ Warranty

Spec == Init /\ [][Next]_vars

-----------------------------------------------------------------------------
\* Every variable stays in its range.
TypeOK ==
    /\ price \in Prices
    /\ isPreorder \in BOOLEAN /\ cancel \in BOOLEAN
    /\ status \in {"PROCESSING_PURCHASE", "PAID_WAITING_STOCK", "DELIVERED",
                   "REFUNDED"}
    /\ payment \in {"PAID", "REFUNDED"}
    /\ job \in {"queued", "run", "refund", "credit", "done"}
    /\ sweeps \in 0 .. MaxResweeps
    /\ main \in Nat /\ comm \in Nat
    /\ rows \subseteq {"worker", "seller_cancel", "customer_cancel", "admin"}
    /\ admin \in 0 .. Total
    /\ warranty \in Nat
    /\ claim \in [Claims -> {"none", "open", "closed", "replaced"}]
    /\ refund \in [Claims -> Nat]

\* Apart from warranty refunds the customer never gets back more than the order
\* cost, in whatever order the desks refund.  A cancelled pre-order that the
\* administrator had refunded in part is the exception: resolvePreorderCancellation
\* does not look at the administrator's rows.
RefundsWithinPrice ==
    "admin" \notin rows \/ rows \subseteq {"admin", "worker"} =>
        main + comm <= Total + warranty

\* No claim refunds more than the order cost, however many accounts it counts
\* and however its share is rounded.  Claims together may: an account refunded
\* because no replacement was left can be claimed again.
ClaimWithinPrice == \A c \in Claims : refund[c] <= Total

\* The worker, the seller and the administrator give back to the commission
\* balance at most what was paid from it.
CommissionRestored == warranty = 0 => comm <= FromCommission

\* Money paid from the commission balance, which cannot be withdrawn, never
\* comes back as withdrawable balance, unless by hand of the administrator.
CommissionNotCashed ==
    warranty = 0 /\ "admin" \notin rows => main <= Total - FromCommission

\* An order that was not delivered is refunded in full by one desk only: the
\* worker and the two cancellations exclude each other.
UndeliveredOnce ==
    \A r, s \in rows \ {"admin"} : r = s

=============================================================================
