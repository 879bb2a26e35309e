---------------------------- MODULE SellerWallet ----------------------------
(***************************************************************************)
(* One seller's wallet and paid tier on the platform.  Money comes in by   *)
(* deposits and by the commission of tiers that referred sellers buy, and  *)
(* goes out by withdrawals, tier purchases and top-ups of a source         *)
(* connection.  The provider's callbacks, the poll, the expiry jobs, the   *)
(* seller and the administrators work on the same rows.  Most transactions *)
(* lock the wallet and read it again; the source top-up locks it and       *)
(* computes from what it read before.  The seller's own cancellations and  *)
(* the administrator's tier refunds check a status that they read outside  *)
(* any transaction, and the tier dates are not locked by anybody.          *)
(***************************************************************************)
EXTENDS Integers, FiniteSets, FiniteSetsExt

CONSTANTS
    Deposits,     \* DepositRequest rows of the seller
    Withdrawals,  \* WithdrawRequest rows
    Subs,         \* TierSubscription rows: the seller's, or of sellers he referred
    SourceTopups, \* requests that move money to a source connection
    Refunders,    \* administrators' requests to refund a subscription
    Agendas,      \* sets of requests; a behaviour makes the requests of one of them
    Rails,        \* rails of the deposits: a set of [Deposits -> rail]
    Deposit,      \* amount of a deposit for the wallet
    Withdrawal,   \* amount of a withdrawal
    Price,        \* price of a tier plan
    Commission,   \* affiliate commission for a referred seller's plan
    SourceAmount, \* amount of a source top-up
    Adjustments,  \* amounts an administrator types in
    Duration,     \* length of a plan
    ClawbackDays, \* REFUND_CLAWBACK_DAYS in the same unit
    MaxTime,      \* bound: time
    MaxErrors,    \* bound: failed questions to the payment provider
    MaxCancels    \* bound: MaxCancels[d] cancellations of deposit d in flight

ASSUME AmountsAssumption ==
    /\ Deposit \in Nat \ {0} /\ Withdrawal \in Nat \ {0} /\ Price \in Nat \ {0}
    /\ Commission \in Nat /\ SourceAmount \in Nat \ {0} /\ Adjustments \subseteq Nat
    /\ Duration \in Nat \ {0} /\ ClawbackDays \in Nat

ASSUME BoundsAssumption == MaxTime \in Nat /\ MaxErrors \in Nat /\ MaxCancels \in [Deposits -> Nat]

VARIABLES
    agenda,    \* the requests of this behaviour
    now,
    errors,
    kind,      \* kind[d]: what DepositRequest.note says the money is for
    rail,      \* rail[d]: DepositRequest.provider
    deposit,   \* DepositRequest.status
    paid,      \* deposits whose money the provider has
    cancelling,\* cancelling[d]: cancellations that found the deposit PENDING and will write
    revoking,  \* withdrawals that a cancellation found PENDING and will write
    undone,    \* undone[d]: how often a cancellation has written REJECTED over CONFIRMED
    expiring,  \* deposits the expiry job will reject: the provider had no money for them
    credits,   \* credits[d]: how often the deposit was credited, or its tier granted
    withdraw,  \* WithdrawRequest.status
    asked,     \* asked[w]: balance read by the request for a withdrawal
    balance,   \* SellerWallet.balance
    ledger,    \* sum of the amounts in WalletLedger
    clawed,    \* commission taken back
    lost,      \* a balance was written over a change it had not seen
    source,    \* source[x]: balance read by a source top-up
    tier,      \* Seller.tier and Seller.tierExpiresAt
    sub,       \* TierSubscription rows
    buying,    \* sub of the purchase that has read the tier dates, and its end
    granting,  \* granting[d]: the end of the plan that a tier deposit will grant
    listed,    \* the tier expiry job has found the tier expired
    refund,    \* refund[q]: the subscription, and whether it was the current one
    refunds    \* refunds[s]: how often the subscription was refunded

depositVars == <<kind, rail, deposit, paid, expiring, credits, granting>>
withdrawVars == <<withdraw, asked>>
cancelVars == <<cancelling, revoking, undone>>
moneyVars == <<balance, ledger, clawed, lost>>
tierVars == <<tier, sub, buying, listed, refund, refunds>>
vars == <<agenda, now, errors, depositVars, withdrawVars, cancelVars, moneyVars, source, tierVars>>

None == "none"
Unread == -1

\* PayOS calls back; the other rails of a deposit are read from a chain, or by a person.
ASSUME RailsAssumption == Rails \subseteq [Deposits -> {"callback", "chain"}]

\* None is no subscription.
ASSUME NamesAssumption == IsFiniteSet(Subs) /\ None \notin Subs

NoSub == [state |-> "NONE", by |-> None, ends |-> 0, at |-> 0]
IdleRefund == [s |-> None, current |-> FALSE]

Init ==
    /\ agenda \in Agendas
    /\ now = 1 /\ errors = 0
    /\ kind \in [Deposits -> {"wallet", "tier"}]
    /\ rail \in Rails
    /\ \A d \in Deposits \ agenda : kind[d] = "wallet" /\ rail[d] = "callback"
    /\ deposit = [d \in Deposits |-> "NONE"]
    /\ paid = {} /\ revoking = {} /\ expiring = {}
    /\ cancelling = [d \in Deposits |-> 0] /\ undone = [d \in Deposits |-> 0]
    /\ credits = [d \in Deposits |-> 0]
    /\ withdraw = [w \in Withdrawals |-> "NONE"]
    /\ asked = [w \in Withdrawals |-> Unread]
    /\ balance = 0 /\ ledger = 0 /\ clawed = 0 /\ lost = FALSE
    /\ source = [x \in SourceTopups |-> Unread]
    /\ tier = [level |-> "FREE", ends |-> 0]
    /\ sub = [s \in Subs |-> NoSub]
    /\ buying = [s |-> None, ends |-> 0]
    /\ granting = [d \in Deposits |-> 0]
    /\ listed = FALSE
    /\ refund = [q \in Refunders |-> IdleRefund]
    /\ refunds = [s \in Subs |-> 0]

\* A wallet purchase keeps the wallet row locked until it commits.
WalletFree == buying.s = None
\* The transaction that grants a tier keeps its deposit row locked.
RowFree(d) == granting[d] = 0

\* One change of the balance with its ledger row, under the row lock.
Book(delta) ==
    /\ WalletFree
    /\ balance' = balance + delta
    /\ ledger' = ledger + delta

Tick ==
    /\ now < MaxTime
    /\ now' = now + 1
    /\ UNCHANGED <<agenda, errors, depositVars, withdrawVars, cancelVars, moneyVars, source, tierVars>>

-----------------------------------------------------------------------------
\* Deposits.

CreateDepositRequest(d) ==
    /\ d \in agenda /\ deposit[d] = "NONE"
    /\ deposit' = [deposit EXCEPT ![d] = "PENDING"]
    /\ UNCHANGED <<agenda, now, errors, kind, rail, paid, expiring, credits, granting, withdrawVars,
                   cancelVars, moneyVars, source, tierVars>>

\* The seller transfers the money, while the payment link lives or after.
Pay(d) ==
    /\ deposit[d] # "NONE" /\ d \notin paid
    /\ paid' = paid \union {d}
    /\ UNCHANGED <<agenda, now, errors, kind, rail, deposit, expiring, credits, granting, withdrawVars,
                   cancelVars, moneyVars, source, tierVars>>

\* Mutant: the status is not read again under the lock.
CreditableTwice(d) == TRUE

\* Mutant: money that comes after the request was closed is not credited.
CreditableInTime(d) == deposit[d] = "PENDING"

\* A deposit for the wallet is credited unless it says CONFIRMED.
Creditable(d) == deposit[d] # "CONFIRMED"

\* confirmDepositRequestByExternalOrderCode: a callback, the poll, the expiry job, a
\* scanner or somebody with the transfer's hash.
ConfirmDeposit(d) ==
    /\ d \in paid /\ kind[d] = "wallet" /\ Creditable(d)
    /\ Book(Deposit)
    /\ deposit' = [deposit EXCEPT ![d] = "CONFIRMED"]
    /\ credits' = [credits EXCEPT ![d] = @ + 1]
    /\ UNCHANGED <<agenda, now, errors, kind, rail, paid, expiring, granting, withdrawVars,
                   cancelVars, clawed, lost, source, tierVars>>

\* expireSellerDepositRequests asks PayOS once more: a deposit that is paid is left to
\* ConfirmDeposit or ConfirmTier.  One that is not, one whose question failed, and one on
\* another rail, about which nobody is asked, ...
ExpireAsk(d) ==
    /\ deposit[d] = "PENDING" /\ d \notin expiring
    /\ \/ (rail[d] # "callback" \/ d \notin paid) /\ UNCHANGED errors
       \/ rail[d] = "callback" /\ d \in paid /\ errors < MaxErrors /\ errors' = errors + 1
    /\ expiring' = expiring \union {d}
    /\ UNCHANGED <<agenda, now, kind, rail, deposit, paid, credits, granting, withdrawVars,
                   cancelVars, moneyVars, source, tierVars>>

\* ... is rejected if it still is pending.
ExpireReject(d) ==
    /\ d \in expiring /\ RowFree(d)
    /\ deposit' = [deposit EXCEPT ![d] = IF @ = "PENDING" THEN "REJECTED" ELSE @]
    /\ expiring' = expiring \ {d}
    /\ UNCHANGED <<agenda, now, errors, kind, rail, paid, credits, granting, withdrawVars,
                   cancelVars, moneyVars, source, tierVars>>

\* cancelDepositRequest reads the status, and writes the row without looking again.  Two
\* clicks are two cancellations.
CancelDepositRead(d) ==
    /\ deposit[d] = "PENDING" /\ cancelling[d] < MaxCancels[d]
    /\ cancelling' = [cancelling EXCEPT ![d] = @ + 1]
    /\ UNCHANGED <<agenda, now, errors, depositVars, withdrawVars, revoking, undone, moneyVars,
                   source, tierVars>>

CancelDepositWrite(d) ==
    /\ cancelling[d] > 0 /\ RowFree(d)
    /\ deposit' = [deposit EXCEPT ![d] = "REJECTED"]
    /\ cancelling' = [cancelling EXCEPT ![d] = @ - 1]
    /\ undone' = [undone EXCEPT ![d] = IF deposit[d] = "CONFIRMED" THEN @ + 1 ELSE @]
    /\ UNCHANGED <<agenda, now, errors, kind, rail, paid, expiring, credits, granting,
                   withdrawVars, revoking, moneyVars, source, tierVars>>

-----------------------------------------------------------------------------
\* Withdrawals.

\* createWithdrawRequest reads the balance before the lock ...
AskWithdrawal(w) ==
    /\ w \in agenda /\ withdraw[w] = "NONE" /\ asked[w] = Unread
    /\ balance >= 0
    /\ asked' = [asked EXCEPT ![w] = balance]
    /\ UNCHANGED <<agenda, now, errors, depositVars, withdraw, cancelVars, moneyVars, source, tierVars>>

\* ... and what is pending under it.
CreateWithdrawRequest(w) ==
    LET pending == Withdrawal * Cardinality({v \in Withdrawals : withdraw[v] = "PENDING"})
    IN  /\ asked[w] # Unread /\ WalletFree
        /\ withdraw' = [withdraw EXCEPT ![w] =
               IF asked[w] - pending >= Withdrawal THEN "PENDING" ELSE @]
        /\ asked' = [asked EXCEPT ![w] = Unread]
        /\ UNCHANGED <<agenda, now, errors, depositVars, cancelVars, moneyVars, source, tierVars>>

\* Mutant: what was checked when the request was made is not checked again.
ApproveUnchecked(w) ==
    /\ withdraw[w] = "PENDING"
    /\ Book(-Withdrawal)
    /\ withdraw' = [withdraw EXCEPT ![w] = "APPROVED"]
    /\ UNCHANGED <<agenda, now, errors, depositVars, asked, cancelVars, clawed, lost, source, tierVars>>

\* adminApproveWithdrawRequest, under the locks of the request and of the wallet.
ApproveWithdrawal(w) ==
    /\ withdraw[w] = "PENDING" /\ balance >= Withdrawal
    /\ Book(-Withdrawal)
    /\ withdraw' = [withdraw EXCEPT ![w] = "APPROVED"]
    /\ UNCHANGED <<agenda, now, errors, depositVars, asked, cancelVars, clawed, lost, source, tierVars>>

RejectWithdrawal(w) ==
    /\ withdraw[w] = "PENDING"
    /\ withdraw' = [withdraw EXCEPT ![w] = "REJECTED"]
    /\ UNCHANGED <<agenda, now, errors, depositVars, asked, cancelVars, moneyVars, source, tierVars>>

\* cancelWithdrawRequest: read, then write without looking again.  Nothing takes a
\* withdrawal out of REJECTED, so that a second cancellation in flight changes nothing.
CancelWithdrawRead(w) ==
    /\ withdraw[w] = "PENDING" /\ w \notin revoking
    /\ revoking' = revoking \union {w}
    /\ UNCHANGED <<agenda, now, errors, depositVars, withdrawVars, cancelling, undone, moneyVars,
                   source, tierVars>>

CancelWithdrawWrite(w) ==
    /\ w \in revoking
    /\ withdraw' = [withdraw EXCEPT ![w] = "REJECTED"]
    /\ revoking' = revoking \ {w}
    /\ UNCHANGED <<agenda, now, errors, depositVars, asked, cancelling, undone, moneyVars, source,
                   tierVars>>

-----------------------------------------------------------------------------
\* Other changes of the balance.

\* adminAdjustSellerBalance.
AdjustBy(action, n) ==
    CASE action = "topup"  -> n
      [] action = "deduct" -> -n
      [] action = "set"    -> n - balance

AdminAdjust(action, n) ==
    /\ "adjust" \in agenda
    /\ action = "deduct" => balance >= n
    /\ Book(AdjustBy(action, n))
    /\ agenda' = agenda \ {"adjust"}
    /\ UNCHANGED <<now, errors, depositVars, withdrawVars, cancelVars, clawed, lost, source, tierVars>>

\* topUpConnectionByRecord reads the wallet, locks it ...
SourceTopupRead(x) ==
    /\ x \in agenda /\ source[x] = Unread
    /\ balance >= SourceAmount
    /\ source' = [source EXCEPT ![x] = balance]
    /\ UNCHANGED <<agenda, now, errors, depositVars, withdrawVars, cancelVars, moneyVars, tierVars>>

\* ... and writes what it computes from the first reading.
SourceTopupWrite(x) ==
    /\ source[x] # Unread /\ WalletFree
    /\ balance' = source[x] - SourceAmount
    /\ ledger' = ledger - SourceAmount
    /\ lost' = (lost \/ balance # source[x])
    /\ source' = [source EXCEPT ![x] = Unread]
    /\ agenda' = agenda \ {x}
    /\ UNCHANGED <<now, errors, depositVars, withdrawVars, cancelVars, clawed, tierVars>>

-----------------------------------------------------------------------------
\* Tiers.

\* Mutant: the plan is added to an end that already includes it.
NewEndCountedTwice == (IF tier.level = "PRO" /\ tier.ends > now THEN tier.ends ELSE now + Duration) + Duration

\* The end of a plan bought now: a running tier is extended.
NewEnd == (IF tier.level = "PRO" /\ tier.ends > now THEN tier.ends ELSE now) + Duration

\* purchaseFromWalletBalance, by the seller or by processAutoRenewals: the wallet is
\* locked and checked, and the tier dates are read ...
BuyTierRead(s) ==
    /\ s \in agenda /\ sub[s].state = "NONE"
    /\ WalletFree /\ balance >= Price
    /\ buying' = [s |-> s, ends |-> NewEnd]
    /\ UNCHANGED <<agenda, now, errors, depositVars, withdrawVars, cancelVars, moneyVars, source,
                   tier, sub, listed, refund, refunds>>

\* ... and written with the subscription and the debit.
BuyTierWrite ==
    /\ ~WalletFree
    /\ balance' = balance - Price
    /\ ledger' = ledger - Price
    /\ sub' = [sub EXCEPT ![buying.s] =
           [state |-> "ACTIVE", by |-> "wallet", ends |-> buying.ends, at |-> now]]
    /\ tier' = [level |-> "PRO", ends |-> buying.ends]
    /\ buying' = [s |-> None, ends |-> 0]
    /\ UNCHANGED <<agenda, now, errors, depositVars, withdrawVars, cancelVars, clawed, lost, source,
                   listed, refund, refunds>>

\* confirmFromExternalOrderCode of a tier deposit: only a pending one, under its row lock.
\* The reversal of a credit to the wallet is left out: ConfirmDeposit refuses tier deposits,
\* so that only rows of earlier versions of the program have one.
ConfirmTierRead(d) ==
    /\ d \in paid /\ kind[d] = "tier" /\ deposit[d] = "PENDING" /\ RowFree(d)
    /\ granting' = [granting EXCEPT ![d] = NewEnd]
    /\ UNCHANGED <<agenda, now, errors, kind, rail, deposit, paid, expiring, credits, withdrawVars,
                   cancelVars, moneyVars, source, tierVars>>

ConfirmTierWrite(d, s) ==
    /\ granting[d] # 0
    /\ s \in agenda /\ sub[s].state = "NONE" /\ buying.s # s
    /\ deposit' = [deposit EXCEPT ![d] = "CONFIRMED"]
    /\ credits' = [credits EXCEPT ![d] = @ + 1]
    /\ sub' = [sub EXCEPT ![s] =
           [state |-> "ACTIVE", by |-> "deposit", ends |-> granting[d], at |-> now]]
    /\ tier' = [level |-> "PRO", ends |-> granting[d]]
    /\ granting' = [granting EXCEPT ![d] = 0]
    /\ UNCHANGED <<agenda, now, errors, kind, rail, paid, expiring, withdrawVars, cancelVars,
                   moneyVars, source, buying, listed, refund, refunds>>

\* A referred seller buys a plan: creditCommissionsForSubscription.
ReferredBuys(s) ==
    /\ s \in agenda /\ sub[s].state = "NONE" /\ buying.s # s
    /\ Book(Commission)
    /\ sub' = [sub EXCEPT ![s] = [state |-> "ACTIVE", by |-> "referred", ends |-> 0, at |-> now]]
    /\ UNCHANGED <<agenda, now, errors, depositVars, withdrawVars, cancelVars, clawed, lost, source,
                   tier, buying, listed, refund, refunds>>

\* expireSellerTiers lists the expired tiers ...
ListExpired ==
    /\ ~listed /\ tier.level = "PRO" /\ tier.ends < now
    /\ listed' = TRUE
    /\ UNCHANGED <<agenda, now, errors, depositVars, withdrawVars, cancelVars, moneyVars, source,
                   tier, sub, buying, refund, refunds>>

\* ... and sets every seller on the list to FREE.
ExpireTier ==
    /\ listed
    /\ tier' = [tier EXCEPT !.level = "FREE"]
    /\ listed' = FALSE
    /\ UNCHANGED <<agenda, now, errors, depositVars, withdrawVars, cancelVars, moneyVars, source,
                   sub, buying, refund, refunds>>

\* refundTierSubscription decides outside its transaction ...
RefundRead(q, s) ==
    /\ q \in agenda /\ refund[q] = IdleRefund
    /\ sub[s].state = "ACTIVE"
    /\ refund' = [refund EXCEPT ![q] =
           [s |-> s, current |-> sub[s].by # "referred" /\ tier = [level |-> "PRO", ends |-> sub[s].ends]]]
    /\ UNCHANGED <<agenda, now, errors, depositVars, withdrawVars, cancelVars, moneyVars, source,
                   tier, sub, buying, listed, refunds>>

\* What goes back: the price if it came from the wallet; a referred seller's commission
\* is taken back while it is young.
RefundDelta(s) ==
    CASE sub[s].by = "wallet" -> Price
      [] sub[s].by = "referred" /\ now - sub[s].at <= ClawbackDays -> -Commission
      [] OTHER -> 0

\* ... and refunds whatever the row says by then.
RefundWrite(q) ==
    LET s == refund[q].s
    IN  /\ s # None
        /\ Book(RefundDelta(s))
        /\ clawed' = clawed + (IF RefundDelta(s) < 0 THEN Commission ELSE 0)
        /\ sub' = [sub EXCEPT ![s].state = "REFUNDED"]
        /\ refunds' = [refunds EXCEPT ![s] = @ + 1]
        /\ tier' = IF refund[q].current THEN [level |-> "FREE", ends |-> 0] ELSE tier
        /\ refund' = [refund EXCEPT ![q] = IdleRefund]
        /\ agenda' = agenda \ {q}
        /\ UNCHANGED <<now, errors, depositVars, withdrawVars, cancelVars, lost, source, buying, listed>>

-----------------------------------------------------------------------------
Next ==
    \/ Tick
    \/ \E d \in Deposits :
          \/ CreateDepositRequest(d) \/ Pay(d) \/ ConfirmDeposit(d) \/ ExpireAsk(d)
          \/ ExpireReject(d) \/ CancelDepositRead(d) \/ CancelDepositWrite(d)
          \/ ConfirmTierRead(d)
          \/ \E s \in Subs : ConfirmTierWrite(d, s)
    \/ \E w \in Withdrawals :
          \/ AskWithdrawal(w) \/ CreateWithdrawRequest(w) \/ ApproveWithdrawal(w)
          \/ RejectWithdrawal(w) \/ CancelWithdrawRead(w) \/ CancelWithdrawWrite(w)
    \/ \E n \in Adjustments, action \in {"topup", "deduct", "set"} : AdminAdjust(action, n)
    \/ \E x \in SourceTopups : SourceTopupRead(x) \/ SourceTopupWrite(x)
    \/ \E s \in Subs : BuyTierRead(s) \/ ReferredBuys(s)
    \/ BuyTierWrite
    \/ ListExpired \/ ExpireTier
    \/ \E q \in Refunders : RefundWrite(q) \/ \E s \in Subs : RefundRead(q, s)

Spec == Init /\ [][Next]_vars

\* PayOS repeats its callback until it is answered with success, whatever became of the
\* deposit; nothing is assumed of scanners.  A transaction that was begun ends.
Fairness ==
    /\ \A d \in Deposits : SF_vars(rail[d] = "callback" /\ ConfirmDeposit(d))
    /\ WF_vars(BuyTierWrite)

FairSpec == Spec /\ Fairness

-----------------------------------------------------------------------------
\* Every variable stays in its range.
TypeOK ==
    /\ now \in Nat /\ errors \in Nat
    /\ kind \in [Deposits -> {"wallet", "tier"}]
    /\ rail \in [Deposits -> {"callback", "chain"}]
    /\ deposit \in [Deposits -> {"NONE", "PENDING", "CONFIRMED", "REJECTED"}]
    /\ paid \subseteq Deposits /\ expiring \subseteq Deposits
    /\ cancelling \in [Deposits -> Nat] /\ undone \in [Deposits -> Nat]
    /\ revoking \subseteq Withdrawals
    /\ credits \in [Deposits -> Nat]
    /\ withdraw \in [Withdrawals -> {"NONE", "PENDING", "APPROVED", "REJECTED"}]
    /\ asked \in [Withdrawals -> Nat \union {Unread}]
    /\ balance \in Int /\ ledger \in Int /\ clawed \in Nat /\ lost \in BOOLEAN
    /\ source \in [SourceTopups -> Nat \union {Unread}]
    /\ tier \in [level : {"FREE", "PRO"}, ends : Nat]
    /\ sub \in [Subs -> [state : {"NONE", "ACTIVE", "REFUNDED"},
                         by : {None, "wallet", "deposit", "referred"}, ends : Nat, at : Nat]]
    /\ buying \in [s : Subs \union {None}, ends : Nat]
    /\ granting \in [Deposits -> Nat]
    /\ listed \in BOOLEAN
    /\ refund \in [Refunders -> [s : Subs \union {None}, current : BOOLEAN]]
    /\ refunds \in [Subs -> Nat]

\* Only a claw-back of commission makes the balance negative, and by no more than was
\* clawed back: withdrawals approved long after they were asked for, tier purchases,
\* deductions and source top-ups all find the money there.  And the ledger explains the
\* balance, unless a source top-up has written over a change it had not seen.
BalanceSound == balance >= -clawed /\ (~lost => ledger = balance)

\* However often the provider calls and the poll asks, and whoever expires or cancels the
\* deposit meanwhile, it is credited once, and a tier deposit grants one plan.  The one way
\* to a further credit is a cancellation that writes REJECTED over CONFIRMED: each such
\* write pays for one credit at most, and never for a second plan.
DepositOnce ==
    \A d \in Deposits :
        credits[d] <= IF kind[d] = "wallet" THEN 1 + undone[d] ELSE 1

\* Plans that the seller has, or is about to have.
Plans == {s \in Subs : sub[s].by \in {"wallet", "deposit"} \/ buying.s = s}

\* Overlapping purchases never give more time than was paid for.
TimePaidFor ==
    tier.level = "PRO" => tier.ends <= now + Duration * Cardinality(Plans)

\* Money paid through PayOS for a deposit to the wallet is credited in the end, also when
\* the deposit had expired or the seller had cancelled it.  A deposit on another rail may be
\* rejected with its money there: its scanner looks at pending deposits only.
MoneyCredited ==
    \A d \in Deposits :
        kind[d] = "wallet" /\ rail[d] = "callback" /\ d \in paid ~> credits[d] > 0

=============================================================================
