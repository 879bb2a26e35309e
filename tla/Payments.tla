------------------------------ MODULE Payments ------------------------------
(***************************************************************************)
(* From a customer's transfer to the invoice it pays.  An invoice is an    *)
(* order or a wallet top-up; its rail decides who tells the shop that the  *)
(* money is there:                                                         *)
(*   callback (PayOS, PAY2S by order code, PayPal, Binance Pay) the        *)
(*            provider calls the webhook, again until it is answered;      *)
(*   notice   (WEB2M, PAY2S by content) the bank reports a transfer once,  *)
(*            and it is looked for among the open rows;                    *)
(*   receipt  (BEP20, TON) a scanner, or the customer with the hash of the *)
(*            transfer, asks the API, which verifies the transfer and      *)
(*            claims a receipt for it: unique per transfer and per invoice;*)
(*   direct   (TRC20, SOL) a scanner writes the rows by itself.            *)
(* On a chain the amount tells invoices apart: an open one has reserved    *)
(* its amount for an hour, and a new one keeps a distance from those that  *)
(* are pending, for a transfer may differ from its invoice by a tolerance. *)
(* Time is counted in half hours: an invoice is valid for one, a           *)
(* reservation and a scanner's view of the chain for two.                  *)
(***************************************************************************)
EXTENDS Integers, FiniteSets, FiniteSetsExt

CONSTANTS
    Invoices,   \* invoices; a transfer has the name of the invoice it was meant for
    Rails,      \* rails of the invoices: a set of [Invoices -> rail]
    Kinds,      \* and their kinds: a set of [Invoices -> {"order", "topup"}]
    Prices,     \* and their prices on a chain: a set of [Invoices -> amount]
    Tolerance,  \* usdtPaymentTolerance, in the smallest step of an amount
    Tries,      \* amounts tried above the price
    Valid,      \* half hours an invoice is valid
    Reserved,   \* half hours its amount is reserved
    Early, Late,\* allowance for clocks: a transfer before its invoice, or after its end
    View,       \* half hours a scanner looks back
    MaxTime,    \* bound: time
    MaxCrashes  \* bound: requests that die between a receipt and its settlement

ASSUME TimesAssumption ==
    /\ Valid \in Nat \ {0} /\ Reserved \in Nat /\ View \in Nat
    /\ Early \in Nat /\ Late \in Nat
    /\ Valid + Early <= Reserved /\ Valid + Late <= Reserved
    /\ Rails \subseteq [Invoices -> {"callback", "notice", "receipt", "direct"}]
    /\ Prices \subseteq [Invoices -> Nat] /\ Tolerance \in Nat /\ Tries \in Nat
    /\ Kinds \subseteq [Invoices -> {"order", "topup"}]
    /\ MaxTime \in Nat /\ MaxCrashes \in Nat

VARIABLES
    now,
    rail,      \* rail[i]: provider
    kind,      \* kind[i]: "order" or "topup"
    status,    \* Order.status with its failureReason, or CustomerWalletTopup.status
    unpaid,    \* invoices whose PaymentTransaction (or top-up) is still PENDING
    created,   \* created[i]: createdAt, the end of the reservation and of validity follow
    amount,    \* amount[i]: the price, then the amount to transfer on a chain
    sent,      \* sent[t]: when the money was transferred, 0 if it was not
    receipt,   \* receipt[t]: OnchainPaymentReceipt.externalOrderCode of transfer t
    hash,      \* hash[i]: the transfer cryptoTxHash of the invoice's row names
    inflight,  \* <<t, by>>: requests, of a scanner or a customer, past t's receipt, and
               \* reports of a bank that have found t's invoice
    listed,    \* invoices a direct scan has loaded
    tagged,    \* <<t, i>>: a direct scan has written t's hash and goes on to pay i
    completing,\* <<t, i>>: markPaymentCompleted has found order i eligible
    cancelling,\* orders the customer's cancellation has found awaiting payment
    settled,   \* settled[i]: what has paid invoice i
    crashes

invoiceVars == <<rail, kind, created, amount>>
chainVars == <<receipt, inflight, listed, tagged>>
vars == <<now, invoiceVars, status, unpaid, sent, hash, chainVars, completing, cancelling, settled, crashes>>

None == "none"
Manual == "manual"   \* the seller's word, instead of a transfer
Bank == {"callback", "notice"}

ASSUME InvoicesAssumption ==
    IsFiniteSet(Invoices) /\ None \notin Invoices /\ Manual \notin Invoices

Init ==
    /\ now = 1
    /\ rail \in Rails
    /\ kind \in Kinds
    /\ status = [i \in Invoices |-> "NONE"]
    /\ unpaid = {}
    /\ created = [i \in Invoices |-> 0]
    /\ amount \in Prices
    /\ sent = [t \in Invoices |-> 0]
    /\ receipt = [t \in Invoices |-> None]
    /\ hash = [i \in Invoices |-> None]
    /\ inflight = {} /\ listed = {} /\ tagged = {} /\ completing = {} /\ cancelling = {}
    /\ settled = [i \in Invoices |-> {}]
    /\ crashes = 0

Tick ==
    /\ now < MaxTime
    /\ now' = now + 1
    /\ UNCHANGED <<invoiceVars, status, unpaid, sent, hash, chainVars, completing, cancelling, settled, crashes>>

-----------------------------------------------------------------------------
\* Invoices.

Distance(a, b) == IF a >= b THEN a - b ELSE b - a

\* Amount a is too near to that of a pending invoice of the last hour: on a rail with
\* receipts within twice the tolerance, on the others only when it is the same.
Collides(r, a) ==
    \E j \in unpaid :
        /\ rail[j] = r /\ now <= created[j] + Reserved
        /\ Distance(a, amount[j]) <= IF r = "receipt" THEN 2 * Tolerance ELSE 0

\* createPaymentLink looks for an amount that collides with none, without a lock ...
Quote(i) ==
    LET free == {a \in amount[i] .. amount[i] + Tries : ~Collides(rail[i], a)}
    IN  /\ status[i] = "NONE" /\ rail[i] \notin Bank
        /\ status' = [status EXCEPT ![i] = "QUOTED"]
        /\ amount' = [amount EXCEPT ![i] = Min(free \union {amount[i] + Tries})]
        /\ UNCHANGED <<now, rail, kind, created, unpaid, sent, hash, chainVars, completing,
                       cancelling, settled, crashes>>

\* Amounts that are reserved on rail r, by invoices in any state.
Taken(r) == {amount[j] : j \in {k \in Invoices : rail[k] = r /\ created[k] # 0 /\ now <= created[k] + Reserved}}

\* ... and reserves it, or the first above it, in steps beyond the tolerance, that nobody
\* has (reserveOnchainInvoiceAmount).
Unreserved(i) == {amount[i] + k * (2 * Tolerance + 1) : k \in 0 .. Tries} \ Taken(rail[i])

\* createTelegramOrder and createTopupForTelegram.
Create(i) ==
    /\ \/ /\ status[i] = "QUOTED" /\ Unreserved(i) # {}
          /\ amount' = [amount EXCEPT ![i] = Min(Unreserved(i))]
       \/ status[i] = "NONE" /\ rail[i] \in Bank /\ UNCHANGED amount
    /\ status' = [status EXCEPT ![i] = "OPEN"]
    /\ unpaid' = unpaid \union {i}
    /\ created' = [created EXCEPT ![i] = now]
    /\ UNCHANGED <<now, rail, kind, sent, hash, chainVars, completing, cancelling, settled, crashes>>

\* The customer transfers the money that was asked for, in time or too late.
Send(i) ==
    /\ created[i] # 0 /\ sent[i] = 0
    /\ sent' = [sent EXCEPT ![i] = now]
    /\ UNCHANGED <<now, invoiceVars, status, unpaid, hash, chainVars, completing, cancelling, settled, crashes>>

\* An order on a bank's or BEP20's rail is overdue after five minutes, before the first
\* half hour has passed, a top-up and an order on another rail when it is not valid any more.
Overdue(i) ==
    \/ rail[i] \in Bank \/ (rail[i] = "receipt" /\ kind[i] = "order")
    \/ now >= created[i] + Valid

\* expireAwaitingPaymentOrders, whose payment row stays PENDING, and expireCustomerWalletTopups.
Expire(i) ==
    /\ status[i] = "OPEN" /\ Overdue(i)
    /\ status' = [status EXCEPT ![i] = "EXPIRED"]
    /\ unpaid' = IF kind[i] = "topup" THEN unpaid \ {i} ELSE unpaid
    /\ UNCHANGED <<now, invoiceVars, sent, hash, chainVars, completing, cancelling, settled, crashes>>

\* cancelPendingOrder reads the order ...
CancelRead(i) ==
    /\ kind[i] = "order" /\ status[i] = "OPEN" /\ i \notin cancelling
    /\ cancelling' = cancelling \union {i}
    /\ UNCHANGED <<now, invoiceVars, status, unpaid, sent, hash, chainVars, completing, settled, crashes>>

\* ... and writes FAILED whatever it says by now.
CancelWrite(i) ==
    /\ i \in cancelling
    /\ status' = [status EXCEPT ![i] = "CANCELLED"]
    /\ cancelling' = cancelling \ {i}
    /\ UNCHANGED <<now, invoiceVars, unpaid, sent, hash, chainVars, completing, settled, crashes>>

-----------------------------------------------------------------------------
\* Settlement: processPaymentCompletion.

\* Mutant: an order that has expired is not settled any more.
EligibleInTime(i) == i \in unpaid /\ status[i] = "OPEN"

\* markPaymentCompleted: an order that has expired is recovered, one that the customer
\* cancelled is not.
Eligible(i) == i \in unpaid /\ status[i] \in {"OPEN", "EXPIRED"}

CompleteRead(t, i) ==
    /\ kind[i] = "order" /\ Eligible(i) /\ <<t, i>> \notin completing
    /\ completing' = completing \union {<<t, i>>}
    /\ UNCHANGED <<now, invoiceVars, status, unpaid, sent, hash, cancelling, settled, crashes>>

\* confirmManualCryptoPayment: the seller says that the order is paid, whatever its status.
ConfirmManually(i) ==
    /\ kind[i] = "order" /\ rail[i] \notin Bank /\ i \in unpaid /\ <<Manual, i>> \notin completing
    /\ completing' = completing \union {<<Manual, i>>}
    /\ UNCHANGED <<now, invoiceVars, status, unpaid, sent, hash, chainVars, cancelling, settled, crashes>>

\* Mutant: the transaction does not claim the payment row by its status.
CompleteBlindly(t, i) ==
    /\ <<t, i>> \in completing
    /\ completing' = completing \ {<<t, i>>}
    /\ status' = [status EXCEPT ![i] = "PAID"]
    /\ unpaid' = unpaid \ {i}
    /\ settled' = [settled EXCEPT ![i] = @ \union {t}]
    /\ hash' = IF rail[i] \in Bank THEN hash ELSE [hash EXCEPT ![i] = t]
    /\ UNCHANGED <<now, invoiceVars, sent, chainVars, cancelling, crashes>>

\* Its transaction takes the payment row from PENDING to PAID once, and the order with it.
CompleteWrite(t, i) ==
    /\ <<t, i>> \in completing
    /\ completing' = completing \ {<<t, i>>}
    /\ \/ /\ i \in unpaid
          /\ status' = [status EXCEPT ![i] = "PAID"]
          /\ unpaid' = unpaid \ {i}
          /\ settled' = [settled EXCEPT ![i] = @ \union {t}]
          /\ hash' = IF rail[i] \in Bank THEN hash ELSE [hash EXCEPT ![i] = t]
       \/ i \notin unpaid /\ UNCHANGED <<status, unpaid, settled, hash>>
    /\ UNCHANGED <<now, invoiceVars, sent, chainVars, cancelling, crashes>>

\* markTopupPaid, one transaction: confirmed by a provider, it revives an expired top-up.
TopupPayable(i, confirmed) == status[i] = "OPEN" \/ (confirmed /\ status[i] = "EXPIRED")

TopupPaid(t, i, confirmed) ==
    /\ kind[i] = "topup" /\ TopupPayable(i, confirmed)
    /\ status' = [status EXCEPT ![i] = "PAID"]
    /\ unpaid' = unpaid \ {i}
    /\ settled' = [settled EXCEPT ![i] = @ \union {t}]
    /\ hash' = IF rail[i] \in Bank THEN hash ELSE [hash EXCEPT ![i] = t]
    /\ UNCHANGED <<now, invoiceVars, sent, completing, cancelling, crashes>>

\* The provider's callback.
Webhook(i) ==
    /\ rail[i] = "callback" /\ sent[i] # 0
    /\ TopupPaid(i, i, TRUE) \/ CompleteRead(i, i)
    /\ UNCHANGED chainVars

\* The bank's report of a transfer finds its invoice among the pending rows
\* (listPendingWeb2mPayments, findPay2sPendingByContent).
Notice(i) ==
    /\ rail[i] = "notice" /\ sent[i] # 0 /\ i \in unpaid /\ <<i, "notice">> \notin inflight
    /\ inflight' = inflight \union {<<i, "notice">>}
    /\ UNCHANGED <<now, invoiceVars, status, unpaid, sent, hash, receipt, listed, tagged, completing,
                   cancelling, settled, crashes>>

-----------------------------------------------------------------------------
\* Receipts.

\* Transfer t is money on invoice i's rail, of its amount or within the tolerance.
Near(t, i) ==
    /\ sent[t] # 0 /\ rail[t] = rail[i] /\ created[i] # 0
    /\ Distance(amount[t], amount[i]) <= Tolerance

Exact(t, i) == Near(t, i) /\ amount[t] = amount[i]

\* Mutant: only the end of the invoice's validity is checked.
DatedLate(t, i) == sent[t] <= created[i] + Valid + Late

\* The transfer was made for this invoice: not before it and not after it had expired,
\* as far as the clocks can tell.
Dated(t, i) == created[i] <= sent[t] + Early /\ sent[t] <= created[i] + Valid + Late

\* Both unique keys of OnchainPaymentReceipt are free, or they name each other.
Claimable(t, i) == receipt[t] = i \/ (receipt[t] = None /\ \A u \in Invoices : receipt[u] # i)

\* Invoices a scanner loads, and transfers it sees: those whose hash is on no row.
Scanned(i) == i \in unpaid /\ now <= created[i] + View
Visible(t) == now <= sent[t] + View /\ \A j \in Invoices : hash[j] # t

\* claimOnchainPaymentReceipt, which returns the receipt there is if it is the same.
Claim(t, i, by) ==
    /\ Near(t, i) /\ Dated(t, i) /\ Claimable(t, i) /\ <<t, by>> \notin inflight
    /\ receipt' = [receipt EXCEPT ![t] = i]
    /\ inflight' = inflight \union {<<t, by>>}
    /\ UNCHANGED <<now, invoiceVars, status, unpaid, sent, listed, tagged, completing, cancelling,
                   settled, crashes>>

\* The provider of the chain's events takes a near amount, if only one invoice is near.
OnlyOne(t, i) ==
    \A j \in Invoices : Scanned(j) /\ Near(t, j) /\ created[j] <= sent[t] + Early => j = i

\* A scanner calls it through internalCryptoConfirm, for the exact amount ...
ClaimByScan(t, i) ==
    /\ rail[i] = "receipt" /\ Scanned(i) /\ Visible(t)
    /\ Exact(t, i) \/ OnlyOne(t, i)
    /\ Claim(t, i, "scan")
    /\ UNCHANGED hash

\* ... and the customer by sending a hash (submitTelegramTxHash, submitTelegramTopupTxHash)
\* that no other row has; a top-up's row has it from then on.
ClaimByHash(t, i) ==
    /\ rail[i] \notin Bank /\ i \in unpaid /\ \A j \in Invoices \ {i} : hash[j] # t
    /\ Claim(t, i, "hash")
    /\ hash' = IF kind[i] = "topup" THEN [hash EXCEPT ![i] = t] ELSE hash

\* The request settles the invoice of its receipt, the bank's report the one it has found,
\* or finds that it cannot; the bank is answered as if it could, whatever happens.
Settle(t, by) ==
    LET i == IF by = "notice" THEN t ELSE receipt[t]
    IN  /\ <<t, by>> \in inflight
        /\ inflight' = inflight \ {<<t, by>>}
        /\ \/ TopupPaid(t, i, by # "hash")
           \/ CompleteRead(t, i)
           \/ /\ \/ by = "notice"
                 \/ IF kind[i] = "order" THEN ~Eligible(i) ELSE ~TopupPayable(i, by = "scan")
              /\ UNCHANGED <<now, invoiceVars, status, unpaid, sent, hash, completing, cancelling,
                             settled, crashes>>
        /\ UNCHANGED <<receipt, listed, tagged>>

\* The API and the worker die: requests and scans that were under way are gone.
Crash ==
    /\ crashes < MaxCrashes /\ inflight \union completing \union tagged # {}
    /\ inflight' = {} /\ completing' = {} /\ tagged' = {} /\ listed' = {} /\ cancelling' = {}
    /\ crashes' = crashes + 1
    /\ UNCHANGED <<now, invoiceVars, status, unpaid, sent, receipt, hash, settled>>

-----------------------------------------------------------------------------
\* The direct scanners.

DirectLoad ==
    LET found == {i \in Invoices : rail[i] = "direct" /\ Scanned(i)}
    IN  /\ found # {} /\ listed = {} /\ tagged = {}
        /\ listed' = found
        /\ UNCHANGED <<now, invoiceVars, status, unpaid, sent, hash, receipt, inflight, tagged,
                       completing, cancelling, settled, crashes>>

\* The amount is all that is compared.  The hash goes on the row, and the payment row of an
\* order is paid with it, whatever it says by now ...
DirectTag(t, i) ==
    /\ i \in listed /\ Exact(t, i) /\ Visible(t)
    /\ hash' = [hash EXCEPT ![i] = t]
    /\ unpaid' = IF kind[i] = "order" THEN unpaid \ {i} ELSE unpaid
    /\ tagged' = {<<t, i>>}
    /\ listed' = listed \ {i}
    /\ UNCHANGED <<now, invoiceVars, status, sent, receipt, inflight, completing, cancelling, settled,
                   crashes>>

\* ... and then the order, or the top-up with its credit.
DirectPay(t, i) ==
    /\ <<t, i>> \in tagged
    /\ tagged' = {}
    /\ status' = [status EXCEPT ![i] = "PAID"]
    /\ unpaid' = unpaid \ {i}
    /\ settled' = [settled EXCEPT ![i] = @ \union {t}]
    /\ UNCHANGED <<now, invoiceVars, sent, hash, receipt, inflight, listed, completing, cancelling,
                   crashes>>

\* A scan that finds nothing more ends.
DirectEnd ==
    /\ listed # {} /\ tagged = {}
    /\ \A t \in Invoices, i \in listed : ~(Exact(t, i) /\ Visible(t))
    /\ listed' = {}
    /\ UNCHANGED <<now, invoiceVars, status, unpaid, sent, hash, receipt, inflight, tagged, completing,
                   cancelling, settled, crashes>>

-----------------------------------------------------------------------------
Next ==
    \/ Tick \/ Crash \/ DirectLoad \/ DirectEnd
    \/ \E i \in Invoices :
          \/ Quote(i) \/ Create(i) \/ Send(i) \/ Expire(i) \/ CancelRead(i) \/ CancelWrite(i)
          \/ Webhook(i) \/ Notice(i) \/ ConfirmManually(i)
          \/ Settle(i, "scan") \/ Settle(i, "hash") \/ Settle(i, "notice")
          \/ CompleteWrite(Manual, i)
    \/ \E t, i \in Invoices :
          \/ ClaimByScan(t, i) \/ ClaimByHash(t, i) \/ CompleteWrite(t, i)
          \/ DirectTag(t, i) \/ DirectPay(t, i)

Spec == Init /\ [][Next]_vars

\* A provider repeats its callback until it is answered with success, and a transaction
\* that began ends.  A bank's report is not repeated.
Fairness ==
    \A i \in Invoices : WF_vars(Webhook(i)) /\ WF_vars(CompleteWrite(i, i))

FairSpec == Spec /\ Fairness

-----------------------------------------------------------------------------
\* Every variable stays in its range.
TypeOK ==
    /\ now \in Nat /\ crashes \in Nat
    /\ rail \in [Invoices -> Bank \union {"receipt", "direct"}]
    /\ kind \in [Invoices -> {"order", "topup"}]
    /\ status \in [Invoices -> {"NONE", "QUOTED", "OPEN", "EXPIRED", "CANCELLED", "PAID"}]
    /\ unpaid \subseteq Invoices /\ listed \subseteq Invoices /\ cancelling \subseteq Invoices
    /\ inflight \subseteq Invoices \X {"scan", "hash", "notice"} /\ tagged \subseteq Invoices \X Invoices
    /\ completing \subseteq (Invoices \union {Manual}) \X Invoices
    /\ created \in [Invoices -> Nat] /\ amount \in [Invoices -> Nat] /\ sent \in [Invoices -> Nat]
    /\ receipt \in [Invoices -> Invoices \union {None}]
    /\ hash \in [Invoices -> Invoices \union {None, Manual}]
    /\ settled \in [Invoices -> SUBSET (Invoices \union {Manual})]

\* With receipts, one transfer pays one invoice and one invoice is paid by one transfer,
\* whatever scanners, customers and the seller do at once.
OnePayment ==
    \A i, j \in Invoices :
        rail[i] # "direct" =>
            /\ Cardinality(settled[i]) <= 1
            /\ settled[i] \intersect settled[j] \intersect Invoices # {} => i = j

\* With receipts, money that was sent in time and as asked pays the invoice it was sent
\* for, or none, or a neighbour whose amount is not the same but within the tolerance:
\* when an amount is reserved again, it belongs to nobody else by then.
OwnMoney ==
    \A i, t \in Invoices :
        rail[i] # "direct" /\ t \in settled[i] /\ sent[t] <= created[t] + Valid
        => t = i \/ Distance(amount[t], amount[i]) \in 1 .. Tolerance

\* A payment whose provider repeats the callback settles its invoice in the end, also after
\* it has expired, unless the customer has cancelled the order.  A bank's report settles
\* nothing when it fails or comes after the top-up's end.
CallbackSettles ==
    \A i \in Invoices :
        rail[i] = "callback" /\ sent[i] # 0 ~> settled[i] # {} \/ status[i] = "CANCELLED"

=============================================================================
