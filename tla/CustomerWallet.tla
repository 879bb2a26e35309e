--------------------------- MODULE CustomerWallet ---------------------------
(***************************************************************************)
(* One customer's wallet in a shop.  It has a main balance and a spend-    *)
(* only commission balance, and many writers: payment callbacks and the    *)
(* on-chain scanners that credit top-ups, purchases and refunds, the       *)
(* seller's adjustments, and the affiliate commission of orders that the   *)
(* customer referred.  Most of them lock the wallet row and read it again; *)
(* the scanners and the adjustment compute from a value read before, and   *)
(* the commission is checked before the transaction that credits it.       *)
(***************************************************************************)
EXTENDS Integers, FiniteSets, FiniteSetsExt

CONSTANTS
    Topups,      \* top-ups the customer may open
    Rails,       \* how the money may come: "callback" (a payment link or card, which
                 \* names the top-up), "notice" (a bank's report of a transfer, matched
                 \* with the open rows), "chain" (TRC20, SOL)
    Amount,      \* amount of a top-up
    Bonus,       \* bonusAmount, snapshotted when the top-up is opened
    Scanners,    \* scans that run side by side: the timer does not wait for the last
    Price,       \* price of a purchase from the wallet
    Referred,    \* orders of other customers that this customer referred
    Rate,        \* commission of such an order
    Followers,   \* jobs that credit the commission of an order
    Refunders,   \* requests that take it back
    Adjustments, \* amounts the seller types in
    MaxAdjusts,  \* bound: adjustments by the seller
    MaxCredits,  \* bound: commission credits for one order
    MaxOrders,   \* bound: purchases from the wallet
    MaxCrashes   \* bound: deaths of the worker

ASSUME AmountsAssumption ==
    /\ Rails \subseteq {"callback", "notice", "chain"}
    /\ Amount \in Nat \ {0} /\ Bonus \in Nat /\ Price \in Nat \ {0} /\ Rate \in Nat \ {0}
    /\ Adjustments \subseteq Nat

ASSUME BoundsAssumption ==
    MaxAdjusts \in Nat /\ MaxCredits \in Nat /\ MaxOrders \in Nat /\ MaxCrashes \in Nat

VARIABLES
    rail,       \* rail[t]: CustomerWalletTopup.provider
    topup,      \* CustomerWalletTopup.status
    tagged,     \* CustomerWalletTopup.cryptoTxHash is set
    sent,       \* the customer's money is on its way
    submitted,  \* a request that found the top-up pending, by the bank's report or
                \* with the customer's transaction hash, is under way
    credits,    \* credits[t]: how often the top-up was credited
    balance,    \* CustomerWallet.balance
    commission, \* CustomerWallet.commissionBalance
    ledger,     \* sum of the main-balance changes the ledger records
    earned,     \* sum of the commission changes the ledger records
    scan,       \* the scanners: step, list loaded, top-up, balance read
    adjust,     \* the seller's adjustment: step, balance read, balance to write
    adjusts,
    bought,     \* purchases so far
    row,        \* row[r]: Order.affiliateCommission, what may still be taken back
    credited,   \* commission credited for r in all
    revoked,    \* and taken back
    follow,     \* follow[f]: the order found without commission
    refund,     \* refund[q]: the order and the amount asked back
    lost,       \* a balance was written over a change it had not seen
    crashes

topupVars == <<rail, topup, tagged, sent, submitted, credits>>
walletVars == <<balance, commission, ledger, earned, lost>>
affiliateVars == <<row, credited, revoked, follow, refund>>
vars == <<topupVars, walletVars, affiliateVars, scan, adjust, adjusts, bought, crashes>>

None == "none"
ASSUME NamesAssumption == None \notin Topups

IdleScan == [pc |-> "idle", todo |-> {}, cur |-> None, read |-> 0]
IdleAdjust == [pc |-> "idle", read |-> 0, to |-> 0]
IdleRefund == [r |-> None, amount |-> 0]

Init ==
    /\ rail \in [Topups -> Rails]
    /\ topup = [t \in Topups |-> "NONE"]
    /\ tagged = [t \in Topups |-> FALSE]
    /\ sent = [t \in Topups |-> FALSE]
    /\ submitted = [t \in Topups |-> FALSE]
    /\ credits = [t \in Topups |-> 0]
    /\ balance = 0 /\ commission = 0 /\ ledger = 0 /\ earned = 0 /\ lost = FALSE
    /\ scan = [s \in Scanners |-> IdleScan]
    /\ adjust = IdleAdjust /\ adjusts = 0
    /\ bought = 0
    /\ row = [r \in Referred |-> 0]
    /\ credited = [r \in Referred |-> 0]
    /\ revoked = [r \in Referred |-> 0]
    /\ follow = [f \in Followers |-> None]
    /\ refund = [q \in Refunders |-> IdleRefund]
    /\ crashes = 0

\* A transaction that holds the row of top-up t: others wait for it.
RowHeld(t) == \E s \in Scanners : scan[s].pc = "write" /\ scan[s].cur = t

-----------------------------------------------------------------------------
\* Top-ups.

CreateTopup(t) ==
    /\ topup[t] = "NONE"
    /\ topup' = [topup EXCEPT ![t] = "PENDING"]
    /\ UNCHANGED <<rail, tagged, sent, submitted, credits, walletVars, affiliateVars,
                   scan, adjust, adjusts, bought, crashes>>

\* The customer pays; nothing tells the customer's bank or chain that the top-up expired.
Send(t) ==
    /\ topup[t] # "NONE" /\ ~sent[t]
    /\ sent' = [sent EXCEPT ![t] = TRUE]
    /\ UNCHANGED <<rail, topup, tagged, submitted, credits, walletVars, affiliateVars,
                   scan, adjust, adjusts, bought, crashes>>

\* expireCustomerWalletTopups and expirePendingTopups.
Expire(t) ==
    /\ topup[t] = "PENDING" /\ ~RowHeld(t)
    /\ topup' = [topup EXCEPT ![t] = "CANCELED"]
    /\ UNCHANGED <<rail, tagged, sent, submitted, credits, walletVars, affiliateVars,
                   scan, adjust, adjusts, bought, crashes>>

\* Mutant: a callback finds its top-up in any state.
PayableTwice(t, confirmed) == topup[t] # "NONE"

\* Mutant: an expired top-up stays expired.
PayableInTime(t, confirmed) == topup[t] = "PENDING"

\* Money that is known to have arrived also revives an expired top-up.
Payable(t, confirmed) == topup[t] = "PENDING" \/ (topup[t] = "CANCELED" /\ confirmed)

\* Mutant: the bonus gets no ledger row.
MarkTopupPaidOneRow(t, confirmed) ==
    /\ Payable(t, confirmed) /\ ~RowHeld(t)
    /\ topup' = [topup EXCEPT ![t] = "PAID"]
    /\ credits' = [credits EXCEPT ![t] = @ + 1]
    /\ balance' = balance + Amount + Bonus
    /\ ledger' = ledger + Amount
    /\ UNCHANGED <<rail, tagged, sent, commission, earned, lost, affiliateVars,
                   scan, adjust, adjusts, bought, crashes>>

\* markTopupPaid's transaction: the top-up and the wallet are locked and read again.
MarkTopupPaid(t, confirmed) ==
    /\ Payable(t, confirmed) /\ ~RowHeld(t)
    /\ topup' = [topup EXCEPT ![t] = "PAID"]
    /\ credits' = [credits EXCEPT ![t] = @ + 1]
    /\ balance' = balance + Amount + Bonus
    /\ ledger' = ledger + Amount + Bonus
    /\ UNCHANGED <<rail, tagged, sent, commission, earned, lost, affiliateVars,
                   scan, adjust, adjusts, bought, crashes>>

\* The provider's callback (PayOS, PAY2S by order code, PayPal, Binance Pay), as often
\* as the provider likes: a failure is answered as one.
Callback(t) ==
    /\ rail[t] = "callback" /\ sent[t]
    /\ MarkTopupPaid(t, TRUE)
    /\ UNCHANGED submitted

\* The bank's report of a transfer (WEB2M, PAY2S by content) looks for pending
\* top-ups only ...
Notice(t) ==
    /\ rail[t] = "notice" /\ sent[t] /\ ~submitted[t]
    /\ topup[t] = "PENDING"
    /\ submitted' = [submitted EXCEPT ![t] = TRUE]
    /\ UNCHANGED <<rail, topup, tagged, sent, credits, walletVars, affiliateVars,
                   scan, adjust, adjusts, bought, crashes>>

\* ... and is answered as done whether the top-up could be credited or not.
NoticePaid(t) ==
    /\ rail[t] = "notice" /\ submitted[t]
    /\ submitted' = [submitted EXCEPT ![t] = FALSE]
    /\ \/ MarkTopupPaid(t, TRUE)
       \/ UNCHANGED <<rail, topup, tagged, sent, credits, walletVars, affiliateVars,
                      scan, adjust, adjusts, bought, crashes>>

\* submitTelegramTopupTxHash: the hash goes on the row while the top-up is open ...
SubmitHash(t) ==
    /\ rail[t] = "chain" /\ sent[t] /\ ~submitted[t]
    /\ topup[t] = "PENDING"
    /\ tagged' = [tagged EXCEPT ![t] = TRUE]
    /\ submitted' = [submitted EXCEPT ![t] = TRUE]
    /\ UNCHANGED <<rail, topup, sent, credits, walletVars, affiliateVars,
                   scan, adjust, adjusts, bought, crashes>>

\* ... and the top-up is credited if it still is.
HashPaid(t) ==
    /\ rail[t] = "chain" /\ submitted[t]
    /\ submitted' = [submitted EXCEPT ![t] = FALSE]
    /\ \/ MarkTopupPaid(t, FALSE)
       \/ /\ ~Payable(t, FALSE) /\ ~RowHeld(t)
          /\ UNCHANGED <<rail, topup, tagged, sent, credits, walletVars, affiliateVars,
                         scan, adjust, adjusts, bought, crashes>>

-----------------------------------------------------------------------------
\* The TRC20 and Solana scanners: pending top-ups are listed once per scan, a transfer
\* is skipped when some row carries its hash, and the wallet is read without a lock.

ScanLoad(s) ==
    LET open == {t \in Topups : rail[t] = "chain" /\ topup[t] = "PENDING"}
    IN  /\ scan[s].pc = "idle" /\ open # {}
        /\ scan' = [scan EXCEPT ![s].pc = "scan", ![s].todo = open]
        /\ UNCHANGED <<topupVars, walletVars, affiliateVars, adjust, adjusts, bought, crashes>>

ScanFind(s, t) ==
    /\ scan[s].pc = "scan" /\ t \in scan[s].todo
    /\ sent[t] /\ ~tagged[t]
    /\ scan' = [scan EXCEPT ![s].pc = "found", ![s].cur = t, ![s].todo = @ \ {t}]
    /\ UNCHANGED <<topupVars, walletVars, affiliateVars, adjust, adjusts, bought, crashes>>

ScanEnd(s) ==
    /\ scan[s].pc = "scan"
    /\ scan' = [scan EXCEPT ![s] = IdleScan]
    /\ UNCHANGED <<topupVars, walletVars, affiliateVars, adjust, adjusts, bought, crashes>>

ScanTag(s) ==
    LET t == scan[s].cur
    IN  /\ scan[s].pc = "found" /\ ~RowHeld(t)
        /\ tagged' = [tagged EXCEPT ![t] = TRUE]
        /\ scan' = [scan EXCEPT ![s].pc = "tagged"]
        /\ UNCHANGED <<rail, topup, sent, submitted, credits, walletVars, affiliateVars,
                       adjust, adjusts, bought, crashes>>

\* The transaction begins: PAID whatever the row says, and the balance as it is now.
ScanRead(s) ==
    LET t == scan[s].cur
    IN  /\ scan[s].pc = "tagged" /\ ~RowHeld(t)
        /\ scan' = [scan EXCEPT ![s].pc = "write", ![s].read = balance]
        /\ UNCHANGED <<topupVars, walletVars, affiliateVars, adjust, adjusts, bought, crashes>>

ScanWrite(s) ==
    LET t == scan[s].cur
    IN  /\ scan[s].pc = "write"
        /\ topup' = [topup EXCEPT ![t] = "PAID"]
        /\ credits' = [credits EXCEPT ![t] = @ + 1]
        /\ balance' = scan[s].read + Amount
        /\ ledger' = ledger + Amount
        /\ lost' = (lost \/ balance # scan[s].read)
        /\ scan' = [scan EXCEPT ![s].pc = "scan", ![s].cur = None, ![s].read = 0]
        /\ UNCHANGED <<rail, tagged, sent, submitted, commission, earned, affiliateVars,
                       adjust, adjusts, bought, crashes>>

\* The worker dies: an open transaction is rolled back, a tag on a row stays.
Crash ==
    /\ crashes < MaxCrashes
    /\ \E s \in Scanners : scan[s].pc # "idle"
    /\ scan' = [s \in Scanners |-> IdleScan]
    /\ crashes' = crashes + 1
    /\ UNCHANGED <<topupVars, walletVars, affiliateVars, adjust, adjusts, bought>>

-----------------------------------------------------------------------------
\* Purchases from the wallet, commission first (createTelegramOrderWithWallet).

FromCommission == Min({commission, Price})
FromMain == Price - FromCommission

\* Mutant: a claw-back debt is not counted when the purchase is priced.
SpendMain ==
    /\ bought < MaxOrders
    /\ balance >= Price
    /\ bought' = bought + 1
    /\ balance' = balance - FromMain
    /\ commission' = commission - FromCommission
    /\ ledger' = ledger - FromMain
    /\ earned' = earned - FromCommission
    /\ UNCHANGED <<topupVars, affiliateVars, scan, adjust, adjusts, lost, crashes>>

Spend ==
    /\ bought < MaxOrders
    /\ balance + commission >= Price
    /\ bought' = bought + 1
    /\ balance' = balance - FromMain
    /\ commission' = commission - FromCommission
    /\ ledger' = ledger - FromMain
    /\ earned' = earned - FromCommission
    /\ UNCHANGED <<topupVars, affiliateVars, scan, adjust, adjusts, lost, crashes>>

-----------------------------------------------------------------------------
\* adjustCustomerWallet: the row is locked after its values were read.

AdjustTo(action, n) ==
    CASE action = "topup"  -> balance + n
      [] action = "deduct" -> balance - n
      [] action = "set"    -> n

AdjustRead(action, n) ==
    /\ adjust.pc = "idle" /\ adjusts < MaxAdjusts
    /\ AdjustTo(action, n) >= 0
    /\ adjust' = [pc |-> "write", read |-> balance, to |-> AdjustTo(action, n)]
    /\ adjusts' = adjusts + 1
    /\ UNCHANGED <<topupVars, walletVars, affiliateVars, scan, bought, crashes>>

AdjustWrite ==
    /\ adjust.pc = "write"
    /\ balance' = adjust.to
    /\ ledger' = ledger + (adjust.to - adjust.read)
    /\ lost' = (lost \/ balance # adjust.read)
    /\ adjust' = IdleAdjust
    /\ UNCHANGED <<topupVars, commission, earned, affiliateVars, scan, adjusts, bought, crashes>>

-----------------------------------------------------------------------------
\* Affiliate commission: creditAffiliateCommission looks before its transaction.

FollowRead(f, r) ==
    /\ follow[f] = None
    /\ row[r] <= 0
    /\ follow' = [follow EXCEPT ![f] = r]
    /\ UNCHANGED <<topupVars, walletVars, row, credited, revoked, refund, scan, adjust,
                   adjusts, bought, crashes>>

CreditCommission(f) ==
    LET r == follow[f]
    IN  /\ r # None
        /\ credited[r] < MaxCredits * Rate
        /\ row' = [row EXCEPT ![r] = Rate]
        /\ credited' = [credited EXCEPT ![r] = @ + Rate]
        /\ commission' = commission + Rate
        /\ earned' = earned + Rate
        /\ follow' = [follow EXCEPT ![f] = None]
        /\ UNCHANGED <<topupVars, balance, ledger, lost, revoked, refund, scan, adjust,
                       adjusts, bought, crashes>>

\* resolveAffiliateCommissionRefund for a refund of one part in parts of the price.
Proportion(r, parts) ==
    IF row[r] <= 0 THEN 0 ELSE Min({row[r], credited[r] \div parts})

\* revokeCommissionForRefund: what to take back is computed from an unlocked read.  A
\* full refund asks for everything (amount 0).
RevokeRead(q, r, parts) ==
    /\ refund[q] = IdleRefund
    /\ refund' = [refund EXCEPT ![q] =
           [r |-> r, amount |-> IF parts = 1 THEN 0 ELSE Proportion(r, parts)]]
    /\ parts > 1 => credited[r] > 0
    /\ UNCHANGED <<topupVars, walletVars, row, credited, revoked, follow, scan, adjust,
                   adjusts, bought, crashes>>

\* Mutant: the amount computed before the lock is taken back as it is.
RevokedBlindly(q) ==
    IF refund[q].amount > 0 THEN refund[q].amount ELSE row[refund[q].r]

\* revokeCommission's transaction, under the order's row lock.
Revoked(q) ==
    LET r == refund[q].r
    IN  Min({row[r], IF refund[q].amount > 0 THEN refund[q].amount ELSE row[r]})

RevokeCommission(q) ==
    LET r == refund[q].r
    IN  /\ r # None
        /\ row' = [row EXCEPT ![r] = @ - Revoked(q)]
        /\ revoked' = [revoked EXCEPT ![r] = @ + Revoked(q)]
        /\ commission' = commission - Revoked(q)
        /\ earned' = earned - Revoked(q)
        /\ refund' = [refund EXCEPT ![q] = IdleRefund]
        /\ UNCHANGED <<topupVars, balance, ledger, lost, credited, follow, scan, adjust,
                       adjusts, bought, crashes>>

-----------------------------------------------------------------------------
Next ==
    \/ \E t \in Topups : \/ CreateTopup(t) \/ Send(t) \/ Expire(t)
                         \/ Callback(t) \/ Notice(t) \/ NoticePaid(t)
                         \/ SubmitHash(t) \/ HashPaid(t)
    \/ \E s \in Scanners : \/ ScanLoad(s) \/ ScanEnd(s) \/ ScanTag(s)
                           \/ ScanRead(s) \/ ScanWrite(s)
                           \/ \E t \in Topups : ScanFind(s, t)
    \/ Crash
    \/ Spend
    \/ \E n \in Adjustments, action \in {"topup", "deduct", "set"} : AdjustRead(action, n)
    \/ AdjustWrite
    \/ \E f \in Followers : CreditCommission(f) \/ \E r \in Referred : FollowRead(f, r)
    \/ \E q \in Refunders :
          \/ RevokeCommission(q)
          \/ \E r \in Referred, parts \in 1 .. 2 : RevokeRead(q, r, parts)

Spec == Init /\ [][Next]_vars

\* Payment providers repeat a callback until it is answered with success, and requests
\* that were started run to their end.  Nobody repeats a bank's report: every one is
\* answered as done.
Fairness ==
    /\ \A t \in Topups : WF_vars(Callback(t)) /\ WF_vars(HashPaid(t))
    /\ \A s \in Scanners : WF_vars(ScanTag(s)) /\ WF_vars(ScanRead(s)) /\ WF_vars(ScanWrite(s))

FairSpec == Spec /\ Fairness

-----------------------------------------------------------------------------
\* Every variable stays in its range; amounts are whole, balances may be negative.
TypeOK ==
    /\ rail \in [Topups -> {"callback", "notice", "chain"}]
    /\ topup \in [Topups -> {"NONE", "PENDING", "CANCELED", "PAID"}]
    /\ tagged \in [Topups -> BOOLEAN]
    /\ sent \in [Topups -> BOOLEAN]
    /\ submitted \in [Topups -> BOOLEAN]
    /\ credits \in [Topups -> Nat]
    /\ balance \in Int /\ commission \in Int /\ ledger \in Int /\ earned \in Int
    /\ lost \in BOOLEAN
    /\ scan \in [Scanners -> [pc : {"idle", "scan", "found", "tagged", "write"},
                             todo : SUBSET Topups, cur : Topups \union {None}, read : Int]]
    /\ \A s \in Scanners : scan[s].pc \in {"found", "tagged", "write"} => scan[s].cur \in Topups
    /\ adjust \in [pc : {"idle", "write"}, read : Int, to : Int]
    /\ adjusts \in Nat
    /\ bought \in Nat
    /\ row \in [Referred -> Int]
    /\ credited \in [Referred -> Int]
    /\ revoked \in [Referred -> Int]
    /\ follow \in [Followers -> Referred \union {None}]
    /\ refund \in [Refunders -> [r : Referred \union {None}, amount : Int]]
    /\ crashes \in Nat

\* The main balance is never negative: not when a claw-back leaves the commission
\* balance negative and a purchase pays that debt too, and not when a scanner or the
\* seller writes a balance that others have changed since.
NeverOverdrawn == balance >= 0

\* The ledger explains both balances, to the last change, unless a scanner or the
\* seller's adjustment has written over a change that it had not seen.
LedgerExplains == /\ earned = commission
                  /\ ~lost => ledger = balance

\* A top-up that a provider or a bank confirms is credited once, however often it
\* does, with several confirmations under way and whether or not the top-up had expired.
CallbackOnce == \A t \in Topups : rail[t] # "chain" => credits[t] <= 1

\* A claw-back takes no more than was credited: what the order row still offers is
\* covered, with partial refunds computed from stale reads and repeated credits.
CommissionCovered ==
    \A r \in Referred : row[r] >= 0 /\ credited[r] - revoked[r] >= row[r]

\* A payment whose provider repeats the callback is credited in the end, also when it
\* arrives after the top-up has expired.  A transfer that only the bank reports is not
\* covered: nothing credits it when it is late or its one report fails.
TransferCredited == \A t \in Topups : rail[t] = "callback" /\ sent[t] ~> credits[t] > 0

=============================================================================
