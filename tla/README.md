# Reseller platform: TLA+ models and proofs

The platform runs Telegram shops that sell digital accounts. A NestJS API
(`apps/api`) serves bots, the seller dashboard and payment webhooks; a worker
(`apps/worker`) drains BullMQ queues and runs periodic scans; both share one
PostgreSQL database and one Redis. What can go badly wrong is money and goods: a
paid order that nobody fulfils or refunds, goods handed out twice, a refund paid
twice or to the wrong balance, a deposit credited twice or never. The modules here
are about that.

Paths below are relative to the repository; `O` is
`apps/api/src/orders/orders.service.ts`, `P` is
`apps/worker/src/fulfillment/purchase.ts`, `W` is
`apps/api/src/warranty/warranty.service.ts`, `IS` is
`apps/api/src/internal-source/internal-source.service.ts`.

## Inventory

| Part | State | Operations | Correct when |
|---|---|---|---|
| Checkout, payment | `orders`, `payment_transactions`, receipts | create an order or pre-order, pay from the wallet, callbacks, chain scans, hashes, expiry, cancellation | a transfer pays one invoice, its own, and always leads to fulfilment |
| Fulfilment | `orders.status`, stock entries, `SourceProduct.available`, the purchase queue | claim and enqueue, `processPurchase`, pre-order sweep, completion by hand, cancellation | goods or money back, one of them, once; pre-orders first come, first served |
| Refunds | order status, `customer_wallet_ledger`, two balances per customer | worker's refund, seller's and customer's cancellation, administrator's refund, warranty refund | never more than the price; each balance gets back what it paid |
| Warranty | `warranty_claims`, replacement stock, check queue | open, check, apply the verdict, replace, refund, reject, recheck | one outcome per claim; an account is replaced or paid once |
| Customer wallets | `customer_wallets`, ledger, top-ups | top up, spend, adjust, expire | the balance is the sum of the ledger; a top-up is credited once |
| Affiliate | commission balance, `orders.affiliateCommission` | credit on delivery, revoke on refund | what is revoked was credited |
| Internal source | balance between two shops, source orders | order, fulfil, fail, refund, reconcile | the source is paid once for what it delivers |
| External providers | the provider's order code on the order | buy, poll, reconcile a lost answer | bought once per order |
| Seller wallet, tiers | `seller_wallets`, deposits, withdrawals, subscriptions | deposit, withdraw, buy and refund a plan, expire | money is credited once, paid out once, and buys the time it paid for |
| User-bot campaigns | `telegram_user_campaigns`, a lock per session | create, start, pause, send, recover | one message per group and cycle, none skipped |
| Idempotency wrapper | one Redis key per request | `runOnce` | the work is done once per key |
| Discount codes, broadcasts | own tables | count uses; send | not on the path of money |
| Bot dialogues | one Redis key per pending question and customer, claimed update ids | open, close and answer a question; receive an update again | a dialogue leads to one order, top-up or claim |
| Dashboard, reports, settings | forms | | no state the money depends on |

How they interact. The API writes the order row and adds a job to the purchase
queue; the worker loads the order, decides outside any transaction what to do and
then does it in transactions that lock rows. Sweeps in the worker re-enqueue
waiting pre-orders and interrupted campaigns. Sellers, customers, administrators
and payment providers act on the same rows through the API at any time. The
refunding parts meet only in the order row, the wallet row and the ledger, and each
looks at its own kind of ledger rows. Claims are written by the API, checked by the
worker and applied by the API when the result arrives. An order between two shops
is a row of each, joined by `internalSourceOrderId`, which reconcilers compare.
Most of what customers do comes in through the bot, whose handlers run side by side
and share only the pending questions in Redis.

What makes it hard: values read before a transaction and used in it; conditional
updates that must cover every writer; jobs that run again after a crash; enqueues
that fail after the row was claimed; writers that do not look (chain scanners, the
seller's cancel); answers that are lost or come twice; locks that expire; partial
refunds with rounding. `PROJECT.json` lists these as hazards at their lines.

## Modules

| Module | What it is |
|---|---|
| `Idempotency` | `runOnce` seen from one Redis key |
| `Fulfillment` | orders of one product from checkout to goods or money back |
| `OrderPromise` | what `Fulfillment` looks like from outside; its abstract specification |
| `OrderRefunds` | the money of one order on its way back to the wallet |
| `WarrantyClaims` | claims about one account through check, callback, apply and recheck |
| `CustomerWallet` | one customer's two balances and everybody who writes them |
| `SellerWallet` | one seller's wallet and paid tier |
| `Payments` | from a transfer to the invoice it pays |
| `Sourcing` | goods from another shop or from a provider |
| `Campaigns` | user-bot campaigns, their jobs, lock and recovery sweep |
| `BotDialog` | one customer's conversation with the bot and the questions it leaves open |
| `MC...` | instances for TLC |
| `FulfillmentProofs`, `OrderRefundsProofs`, `SellerWalletProofs`, `PaymentsProofs`, `SourcingProofs`, `CampaignsProofs` | theorems about the module of that name, checked by TLAPS |
| `WarrantyClaimsProofs`, `CustomerWalletProofs` | the same, each for two modules: claims and `Idempotency`, wallets and `BotDialog` |

A module of proofs extends what it is about. Two specifications can share one when
their names differ, which is why those of `Idempotency` begin with `Key` (`KeySpec`,
`KeyTypeOK`) and those of `BotDialog` with `Chat`.

The components meet in a few shared facts, and each module has its own side of
them: `Payments` ends where an invoice is settled, `Fulfillment` begins with the
payment and ends with goods or a refund, `OrderRefunds` adds up all refunds of one
order, `CustomerWallet` takes them as credits, and `Sourcing` replaces the stock of
`Fulfillment` by another shop or a provider. `BotDialog` is where the orders,
top-ups and claims of the others come from.

Every module also has operators that no specification uses, each introduced as
what a plausible slip would do (a dropped guard, a missing reset). `PROJECT.json`
pairs each with the definition it stands in for and the property that then fails,
which shows that the property looks at that code.

### Idempotency

A request's life is `pc` (idle, waiting, running, done, failed); `cell` is the
Redis key with its remaining life; time is counted in poll intervals. `Acquire`
is the SET NX EX, `Join` and `Poll` the loop of a duplicate, `Succeed` and
`Throw` what follows `fn` (the SET or DEL may be lost), `Crash` the death of the
claimer, `Retry` a client that asks again, `Tick` a poll interval. `fresh` is a
history variable: how long the last stored result should still be served. The
code neither renews the claim nor checks that it is still the caller's, so the
constant `MaxRun`, the longest run of `fn`, decides everything.

### Fulfillment and OrderPromise

One product, any number of orders and job slots. Each database transaction or
lone statement is one action, and what an actor read before is in its own
variables: `word`/`wpc`/`wseen` of a job slot, `sweep` of the sweep, `canceling`
of a seller's click, `seen`/`adding` of a chain scan, `api` of a payment request.

| Code | Actions |
|---|---|
| `prepareTelegramOrderContext`, `createTelegramOrder` (O) | `Prepare`, `Create`, `Reject` |
| `createTelegramOrderWithWallet`, `markPaymentCompleted` (O) | `TakeTime`, `Pay` |
| `enqueuePaidOrder` (O), `addPurchaseJob` | `EnqueueClaim`, `EnqueueAdd`, `EnqueueFail`, `ApiCrash` |
| chain scanners `payments/trc20.ts`, `payments/solana.ts` | `ScanSee`, `ScanPay`, `ScanAdd`, `ScanFail` |
| `processPurchase` (P) | `Load`, `CheckTurn`, `MoveToWaiting`, `CountShared`, `DeliverShared`, `Count`, `Deliver`, `Shortage`, `Park`, `Refund`, `JobFail`, `Finish`, `Crash`, `Recover` |
| `enqueueFulfillablePreorders` (P) | `SweepStart` ... `SweepFail` |
| `createBatch`, `extractStock`, `updateProduct` | `Upload`, `Extract`, `SetCapacity` |
| `completePendingManualOrder`, `cancelPendingManualOrder` (O) | `Complete`, `CancelRead`, `CancelWrite` |
| pre-order cancellation (O) | `RequestCancel`, `RejectCancel`, `ResolveCancel` |

`Route[o]` says how an order is paid: from the wallet, by callback, or by
callback and chain scanner together. `FaultKinds` says what may fail: `queue`
(a `queue.add` throws), `db` (a statement throws), `crash` (a process dies; a
stalled job is handed out again `MaxStalled` times).

A payment takes its `paidAt` (`new Date()` at orders.service.ts:281, and again in
`markPaymentCompleted`) before the transaction that makes the order PAID commits.
`TakeTime` and `Pay` are therefore two steps, and the place in the queue is the time
of the first. A job that checks its turn sees only what is committed, so a pre-order
with an earlier `paidAt` can join after a later one has passed the check, and is
then served second.

`OrderPromise` says what is left: a payment begins and is taken (or given up), and
the order takes its place by the time of the beginning; the first in line may be
called up, and sent back; goods go to an order that nobody asked to cancel, and to a
pre-order only after it was called up; or the money goes back. So nobody is passed
over by an order that was called up after it joined the line. `Promise` in
`Fulfillment` is the refinement mapping: `outcome` is read off goods and refunds,
`place` and `time` are the ranks of the payment, `called` are the pre-orders whose
job is past `CheckTurn`.

Abstractions: stock entries are counted, expiry of entries is left out; of
overlapping scans of one payment the last one's time counts; the scanner's two
writes are one step, and so are the two parallel reads of `CheckTurn`; the job id
`purchase-<order>` is remembered for good (the code keeps the last 100); messages,
commissions and warranty snapshots after the delivery are the step `Finish`. A
product of shared content (`shared`) has no entries: its counter is its stock, and
a job believes the value it loaded.

### OrderRefunds

One paid order with a price, a pre-order fee and the part of the price that came
from the commission balance, in hundredths of a dong as the database has them.

| Code | Actions |
|---|---|
| `processPurchase`, `refundOutOfStockOrderToCustomerWallet` (P) | `Load`, `Deliver`, `OutOfStock`, `RefundLoad`, `RefundWrite`, `Resweep` |
| `resolvePreorderCancellation`, `creditPreorderRefund` (O) | `RequestCancel`, `RejectCancel`, `CancelPreorder` |
| `refundOrderToCustomerWallet` (`admin.service.ts`) | `AdminRefund` |
| `createAutoCheckClaim`, `applyAutoCheckResult`, `autoRefundForOutOfStock`, `applyPartialStockRefund`, `rejectClaim` (W) | `OpenClaim`, `Replace`, `AutoRefund`, `CloseClaim` |

Each refund locks the order or claim row and then the wallet row, so it is one
step. The rounding is the code's: `RoundDiv` is `Math.round` of a quotient,
`WarrantyAmount` and `CommissionShare` round to whole dong, `PreorderCommission`
to hundredths. The days of warranty left are chosen freely for every refund, and
so is the number of accounts a claim counts: the three routes that open claims
differ in what they hand to the checker (the customer's forms leave out accounts
already replaced, `openClaim` hands over all of the active text), and a refund
counts the accounts found dead or, when the verdict names none, the named ones or
the whole order (W:2222-2229), clamped to the quantity. The cooldown and the caps
on the number of claims are left out (time passes and the caps are above what the
instances open). All of this allows more than the code does.

### WarrantyClaims

The rows of claims about one account, the API request that opens or rechecks each
(`request`), its job in the check queue, the deliveries of the worker's callback
still to come (`calls`), and the calls of `applyAutoCheckResult` under way
(`applier`), which take the claim by the flag `applying` and then work in short
transactions. Customers submit and retry (`Submit`, `CreateClaim`), the worker
checks and reports (`StartJob`, `FinishJob`, `JobFailed`, `SweepStuck`), the API
applies (`Callback`, `ApplyToolFailed` ... `CommitDecision`, `RefundCredit`), the
seller decides (`ResolveClaimManually`, `RejectClaim`, `RecheckClaim`), and other
buyers take the stock a replacement was chosen from (`SellEntry`). Verdicts are the
five the apply distinguishes; how a login leads to one is left out.

### CustomerWallet

Top-ups by a provider's callback, which names the top-up (`Callback`), by a bank's
report, which is looked up among the open ones (`Notice`, `NoticePaid`), by hash
(`SubmitHash`, `HashPaid`) and by the TRC20 and Solana scanners (`ScanLoad` ... `ScanWrite`, whose credit is an absolute
write of a balance read before), purchases (`Spend`), the seller's adjustment
(`AdjustRead`, `AdjustWrite`), commission (`FollowRead`, `CreditCommission`) and
its reversal (`RevokeRead`, `RevokeCommission`). `lost` remembers that a balance
was written over a change its writer had not seen.

### SellerWallet

Deposits with their callbacks, poll and expiry (`ConfirmDeposit`, `ExpireAsk`,
`ExpireReject`) on two rails: `callback` (PayOS), where the provider repeats its call
and the expiry job asks it before it rejects, and `chain` (USDT on Solana, TON and TRON, a
Binance transfer), where nobody is asked and scanners look at pending deposits only; tier deposits (`ConfirmTierRead`, `ConfirmTierWrite`),
withdrawals, the seller's cancellations (a read, then a write by id, as often as the
seller clicks; `undone` counts those that wrote over CONFIRMED), source
top-ups (the balance read before the lock), plans bought from the wallet, plans of
referred sellers and their commission, refunds of plans with the claw-back, and the
job that ends expired tiers. A behaviour makes the requests of one `agenda`, so
that the instance holds few at a time.

### Payments

An invoice is an order or a top-up on one of four rails. `callback` (PayOS, PAY2S by
order code, PayPal, Binance Pay): the provider calls until it is answered
(`Webhook`). `notice` (WEB2M, PAY2S by content): the bank reports a transfer, which is
looked for among the pending rows and answered as done whatever comes of it
(`Notice`). `receipt` (BEP20, TON): a scanner, the provider of the chain's events
(`OnlyOne`) or the customer with a hash claims a receipt, unique per transfer and per
invoice (`ClaimByScan`, `ClaimByHash`), then settles (`Settle`). `direct` (TRC20,
Solana): a scanner tags the invoice and pays it in separate statements (`DirectTag`,
`DirectPay`). `Quote` is the unlocked look for an amount that keeps its distance from
pending ones, `Create` the reservation and the rows. Scanners compare amounts exactly
(`Exact`), receipts within the tolerance (`Near`). A customer sends the amount that was
asked for. Time is in half hours, since that is what an invoice's validity, the
reservation of its amount and a scanner's view differ by; the allowances for clocks,
of one and three minutes in the code, are a whole half hour in the instance.

### Sourcing

An order's `case` is how it came (by key, bound key, connected shop, own provider)
and how its goods are got (stock, by hand, a provider). Providers come in the two
sorts that differ most. A "keyed" one, as canboso, gets an idempotency key and is not
asked later; a "blind" one, as roboticvn, gets none, its client repeats a refused
request up to four times (`Retries`), and `reconcilePendingRoboticvnOrders` follows
its open purchases. dinostore and doicard send a key and are followed, shopmmo sends
one on its retries: their behaviours are in between, and the reconcilers list their
orders as well. `KeyOrder` ... `KeyFail` are `createOrderByKey` and
`fulfillInternalSourceOrder` (IS); `Start` ... `GiveBack` the source branches of
`processPurchase` (P); then the owner's delivery and refusal, the warranty cascade,
the seller's completion and cancellation, and the two reconcilers (`ReconList`,
`ReconWrite`, `PollList`, `PollWrite`), each of which takes a page of the oldest
orders that match (`Crowded`; `Created` and `Page` are createdAt and the 20 of the
code). `calm` is chosen at the start: in a calm behaviour no job stalls or dies after
its last write, the owner waits for the request to end, and no seller completes and
cancels at once; some properties need it (see below).

### Campaigns

`camp` are the rows, `queue` the jobs, `lock` the session's key in Redis, `run` the
local variables of an execution of `processUserbotCampaignJob`, `seen` what the
sweep has found stuck. `PickUp`, `ReadFresh`, `Claim`, `Check`, `SendArrives`,
`CountSent`, `Finish` and `Release` are its steps; `FloodWait`, `PeerFlood`,
`SendFails`, `CountSentThrows` and `Throw` its error paths; `FindStuck`,
`RearmStuck` and `EnqueueDue` are the scheduler. Times serve as names: a job is
`armed` or `old`, as the row still holds the time it was queued for or not.
Refused messages and the write that counts them are one step, since the refusal is
seen by nobody else. `hist` records the current cycle: messages per target, targets
tried, and the faults that excuse a second message.

### BotDialog

`sess` are the keys `bot:session:<type>:<shop>:<user>` of one customer, one per kind
of question; `hand` the executions of `handleIncomingUpdate`; `claimed` the update
ids that `claimOnce` has taken. A dialogue goes from a first question to the order,
top-up or claim it is for, and its number stands for what the keys hold (product,
amount, order code). `SendUpdate` and `Resend` are the webhook and the poller, `Receive`
the claim of the id, `Refuse` the flood control, lock, ban and channel gates.
`Navigate`, `OpenQuestion`, `PromptQuantity`, `PromptTxHash`, `PromptId`,
`VerifyButton`, `CancelOrder`, `ClaimButton` and `PayButton` are the buttons, labels
and commands; `Text` gives a text to the first open question in the order of the
code (`Rank`), and the `...Message` actions are the handlers of the questions. Each
read of a key, each write and each call that makes something is a step of its own
where another handler's step in between matters. Adjacent deletions of keys are one
step. Whether an amount, a code or a link is valid is chosen freely; a hash or an
exchange id may also pass for an amount, since `parseFloat` and `parseInt` stop at
the first letter. Pressing an old button is an input like any other.

## Runs

| Run | Instance | Shows |
|---|---|---|
| `idempotency` | 2 requests, lock of 3 intervals, `fn` up to 2, lost writes, crashes, retries | `OneRunner`, `NoRerunWhileFresh`, `CallersEnd` |
| `fulfillment` | 2 orders (wallet and callback, quantities 2 and 1), 2 slots, 3 entries, one queue failure | `SettledOnce`, `OrdinaryNotStranded`; implements `OrderPromise` (`KeepsPromise`) |
| `fulfillment_scan` | 1 order, of stock, by hand or of shared content, marked paid by callback and scanner, 2 slots, 2 faults of any kind | `RefundOnce` |
| `fulfillment_live` | 2 ordinary orders competing for stock, no failures, fair workers | `OrdinarySettles` |
| `refunds` | 2 accounts, 3 delivered lines, all desks, 2 claims, every split of small prices | `UndeliveredOnce`, `ClaimWithinPrice`, `RefundsWithinPrice`, `CommissionRestored`, `CommissionNotCashed` |
| `warranty` | 1 claim with a recheck and repeated callbacks, or 2 claims, 1 entry, 2 applies, every delivery mode, lost callbacks and crashes | `EntryOnce`, `CompensatedOnce`, `OneApply`, `EveryClaimMoves` |
| `customer_wallet` | 1 top-up, 1 scanner, 2 purchases, an adjustment, a referred order with 2 follow-ups and 2 refunds, a crash | `NeverOverdrawn`, `LedgerExplains`, `CallbackOnce`, `CommissionCovered`, `TransferCredited` |
| `seller_wallet` | six agendas of deposits, withdrawals, plans, source top-ups and refunds, one deposit on either rail and cancelled by two clicks, 3 units of time | `BalanceSound`, `DepositOnce`, `TimePaidFor`, `MoneyCredited` |
| `payments` | an order and a top-up on one rail of each sort, of one price or of neighbouring ones, 4 half hours (2 on direct rails), a crash | `OnePayment`, `OwnMoney`, `CallbackSettles` |
| `sourcing` | 2 orders in twelve pairings of origin and goods, 1 entry, up to 2 runs per job, 1 repeated request, pages of one order, a crash | `DebitOnce`, `RefundedOnce`, `GoodsOrMoney`, `NeverBoughtAgain`, `SourceTold` |
| `campaigns` | 1 campaign (2 groups once, or members again and again), 2 slots, 2 events among restarts, FLOOD_WAIT, crashes, expired locks and failing writes | `SessionExclusive`, `OneMessageEach`, `NoneSkipped`, `CycleEnds` |
| `bot_dialog` | 1 customer, 5 updates of one of five mixes, 2 handlers, 2 dialogues, a repeated update, a crash | `OncePerDialog`, `OneUnpaidOrder` |

Why the bounds are enough. Races in `Fulfillment` are between two holders of one
order, or between two orders over stock or over a place in the queue: two orders
with different quantities, two slots and a supply one short of or equal to the
demand reach every branch, each action fires in a passing run, and the theorems
cover any number. Two faults allow a failure while another is being recovered
from. A refund is a step on one order, so one order with two accounts has every
combination of desks; two claims with the same target are refused by `OpenClaim`
itself. The prices of `refunds` are such that the accounts share them in whole
dong, one with every split to the hundredth, where the rounding matters most.
A claim's races are between the calls that act on it, of which two can be at work;
a behaviour of `warranty` has either a second claim (the customer's retry) or a
recheck and repeated callbacks, because a recheck followed by a retry does
compensate twice (see below). A wallet's writers interfere in pairs, one between another's
read and write, and the amounts are such that a lost update shows in the sum. Two
invoices on one rail are enough for one's transfer to be taken for the other's, four
half hours for an amount to be reserved again, and prices one step apart, with a
tolerance of one step, for neighbours; no property is about the direct scanners, which
have an hour. Two orders of `Sourcing` share
stock and money once each; an order whose job runs twice is next to one that does
not interfere; two that may take each other's place on a page of one run once, and
one repeated request is as good as four for what a second purchase does. The
constraint `Means` leaves out stock and money where no order of the pairing uses
them, and more money than orders that spend it; it speaks of the start only. Two executions of a campaign overlap only after a lock expired;
two events let that happen once more, or to a restarted or resumed campaign.
Five updates of the customer are two purchases of two inputs each, or a question left
open while the next purchase goes through its payment, and one more; two dialogues
are what one key can confuse.

`CHECK_DEADLOCK FALSE`: these systems may stop, when all orders are settled, claims
closed, requests made and bounded time has run out. `idempotency` and `campaigns`
check for deadlock.

Symmetry is used over job slots and over the bot's handlers, never in a run with a
liveness property.

### Fairness

- `Idempotency`: time passes, waiters poll when their timer fires, and a running
  `fn` settles or its process dies. A poll timer is a `setTimeout`, and nothing in
  the loop waits for another request.
- `Fulfillment`: a request that took a payment goes on to enqueue it, waiting jobs
  are handed to free slots, and a job goes on. BullMQ hands out jobs first in, first
  out, and a job waits for nothing but the database. Nothing is assumed of
  customers, sellers, the sweep or uploads, so `OrdinarySettles` does not rest on
  new stock coming in: an order that loses the race for the last entries must be
  refunded.
- `WarrantyClaims`: started requests and applies run on, the queue hands out jobs,
  the worker's sweep is a timer and the callback is retried. Nobody has to act on a
  claim, so `EveryClaimMoves` names the three situations only a person ends.
- `CustomerWallet`, `SellerWallet`, `Payments`: providers with a callback repeat it
  until it is answered with success, and a request that was begun ends. Nothing is
  assumed of a bank's reports: their webhooks answer `true` to everything. The
  confirmation of a PayOS deposit is strongly fair, because the callback is repeated
  while purchases take and release the wallet's lock; nothing is assumed of the
  scanners, which miss a deposit that is not pending any more.
- `Sourcing`: the reconcilers are timers. They list the orders on their page and
  write what they have listed, and the provider answers a question about a status.
  An order behind a full page is promised nothing (`Starved` in `SourceTold`).
- `Campaigns`: executions go on, time passes, the sweep runs every 15 seconds and
  the lock of a dead worker expires; with a single campaign on the session nothing
  else holds the lock for good.

## Proofs

Checked by TLAPS for all values of the constants that meet the named assumptions
(an order's quantity and price are positive, parts of a price do not exceed it,
bounds are natural numbers, sets of rows are finite, the names for nothing and for a
manual confirmation are no row's name). Where a theorem
needs more than that, it says so in its own `ASSUME`: how long a run, or an apply,
may take, which payment routes are used, that prices are whole dong.

`Idempotency` (in `WarrantyClaimsProofs`). `WrapperTypes`; `ExclusiveRun`: if `MaxRun < LOCK_TTL` no two
requests are inside `fn`. The invariant is `ClaimHeld`: while a caller runs, its
marker is on the key, and the marker's remaining life plus the time the caller has
run is `LOCK_TTL`. Without it a claim might expire under the caller. `NoRerun`:
`NoRerunWhileFresh` under the same condition, because the stored result
stays on the key for as long as it should be served (`ResultKept`): with one runner
at a time nobody is left to overwrite or delete it.

`FulfillmentProofs`.

- `FulfillmentTypes`, from `TypeInv` (the sweep never claims more than its budget).
- `NoDoubleRefund`: `RefundOnce` on every route and under every fault. `PaidInv`
  says that refunded orders are either closed for jobs by their ledger row or are
  pre-orders with their cancellation on record, which no job refunds; so a late
  scan that writes PAID over REFUNDED does not open the way to a second refund.
- Under `ClaimingRoutes` (orders paid by wallet or callback, only `queue.add`
  fails): `SettledAtMostOnce`, `OrdinaryAlwaysHeld`,
  `RequestsHoldGoods`. The invariant `AllInv` is the types and three parts. `TokenInv`: an order
  has at most one holder among the enqueuing request, the queue, a slot and the
  sweep, and the holder finds it in PROCESSING_PURCHASE; every claim is a
  conditional update, and this is what makes the unconditional write of the
  delivery harmless. `GoodsInv`: goods and refunds agree with the row.
  `OrdinaryNotStranded` is inductive with these. The assumption is needed: with the scanner's unclaimed,
  id-less jobs, or with jobs run again after a crash, two holders exist and TLC
  finds goods handed out twice.
- `FulfillmentKeepsPromise`: under `ClaimingRoutes`, `Fulfillment` implements
  `OrderPromise`. Each action is shown to be one action of the promise or to leave its
  variables alone; `TokenInv` supplies that only one slot is past the turn check of an
  order, so a call ends when that job does, and `GoodsInv` that a delivery finds no
  request open.

`OrderRefundsProofs`.

- `TypeCorrect`, with the administrator's rows bounded by the price.
- `RefundedByOneDesk`: `UndeliveredOnce` with all desks acting, from `SettledRow`
  (a row of the worker or of a cancellation closes the order, and nobody takes it
  back to PAID).
- `NeverOverPrice`: `RefundsWithinPrice`, from `MoneyMatches`, which says per kind
  of row how much money is out.
- `CommissionKeepsItsBalance` and `CommissionIsNotCashed`: `CommissionRestored` and
  `CommissionNotCashed`, both from `SplitMatches`. The core is the lemma
  `PreorderSplitFair`: the rounded proportional split of a refund within the price
  stays within both parts.
- `ClaimNeverOverPrice`: `ClaimWithinPrice` for prices in whole dong
  (`WholePrices`), from `NothingYet` (a claim that is not over has refunded nothing)
  and the lemma `WarrantyAmountBound`: two roundings and the clamp stay within the
  price.

`WarrantyClaimsProofs`, for any number of claims, entries and applies.

- `TypeCorrect`, together with `Working`: an apply names its claim from transaction A
  on, which is what the rows it writes rest on.
- `EntryHandedOnce`: `EntryOnce` whatever fails and however often claims are
  rechecked; the property is inductive over the types, since transaction B looks at
  the entry again.
- `OneApplyAtATime` and `PaidAtMostOnce`: `OneApply` and `CompensatedOnce`, if
  `MaxRechecks <= 1` and `"slow"` is not among the faults. `OneApplyWhileQueued` and
  `PaidOnceWhileQueued`: the same for any number of rechecks, in behaviours where the
  queue refuses no recheck with an exception (`RechecksQueued`); a recheck it refuses
  because it is full does no harm, since its row reads OVERLOADED and no callback
  takes it. `SettledForGood`: a settled claim keeps its status and is not compensated
  again. All five rest on the invariant `Guarded`: applies work on different claims
  (`Single`); the flag of a running one is up and, as long as a recheck may come, its
  check is recent (`Flagged`, with `Recent` for the callback that starts it); a
  request that opens a claim has no check yet and a recheck was counted (`Asked`); a
  claim not opened yet has nothing (`Opening`); and a compensated claim is settled and
  a settled one has no apply left (`Settlement`). The step lemmas are proved once,
  for a step that refuses a recheck only when none is left; `LastRecheck` shows that
  one recheck at most is such a case. The conditions are needed, see below; they are
  about how often sellers recheck, whether the queue can be reached and how long the
  API takes, not something the code enforces.

`CustomerWalletProofs`, for all amounts.

- `TypeCorrect`; `WalletNeverOverdrawn` and `LedgerInStep`: `NeverOverdrawn` and
  `LedgerExplains`, from `Covered`, which adds that what a scanner or an adjustment
  has read and is about to write is not negative.
- `CallbackCreditsOnce`: `CallbackOnce`, from `Credits` (scanners handle chain top-ups
  only, and any other top-up that was credited is PAID).
- `ClawBackCovered`: `CommissionCovered`, inductive over the types with the lemma that
  a claw-back takes at most what the order's row offers.

`SellerWalletProofs`, for all amounts, deposits and plans.

- `TypeCorrect`; `BalanceKept`: `BalanceSound`, from `Funds` (a purchase that holds the
  lock has found the price, a source top-up has read at least what it takes).
- `DepositCreditedOnce`: `DepositOnce`, from `Ticket`: a deposit's credits are one per
  cancellation that wrote over CONFIRMED, and one more while the row says CONFIRMED.
- `NoFreeTime`: `TimePaidFor`, from `Terms`: the tier, a purchase and every grant
  computed earlier end no later than now plus the time of all plans (`Latest`).

`PaymentsProofs`, for any number of invoices.

- `TypeCorrect`; `OneTransferOneInvoice` and `MoneyPaysItsOwnInvoice`: `OnePayment`
  and `OwnMoney`. `ChainInv` says that invoices with overlapping reservations have
  different amounts and that a receipt names an invoice its transfer is near to, alone;
  `MoneyInv`, that whoever is about to settle is entitled to and that a settled
  invoice is closed. `Valid + Early <= Reserved` and `Valid + Late <= Reserved`,
  assumptions of the module (1800 + 180 and 1800 + 60 against 3600 seconds in the
  code), are what tells equal amounts apart by their dates.

`SourcingProofs`, for any number of orders, runs and calls.

- `TypeCorrect`; `PaidForOnce`: `DebitOnce`, inductive over the types.
- `WaitingIsNotBoughtAgain`: `NeverBoughtAgain`, an action property. In a calm
  behaviour only the latest run of a job is at work (`RunsInv`, from which
  `LatestRun`), and an order waits only when that run has done its last write or is
  at the debit, past the provider (`WaysInv`); no other action buys (`OnlyRunsBuy`).
- `FailureRefundsOnce`: `RefundedOnce`, from `RowInv` (a row belongs to the request
  that makes it until that ends, then to the calls of the owner that were let in) and
  `RefundInv` for every row.
- `NoGoodsAfterMoney`: `GoodsOrMoney`, from `FreshInv` (before its first run has
  delivered, parked or given back an order is untouched), `GoodsInv` (after the
  refund nothing can bring the goods) and `ReconInv` (what the reconcilers have
  listed). `calm` is the property's own premise.

`CampaignsProofs`, for any number of campaigns, groups, executions and faults.

- `TypeCorrect`; `SessionExclusiveAlways`: `SessionExclusive`, which is inductive with
  the types: an execution leaves the lock only at its release or when it lapses.
- `OneMessageEachAlways` and `NoneSkippedAlways`: `OneMessageEach` and `NoneSkipped`,
  from three facts about each campaign (`Good`), stated over its row, its history and
  the executions that have claimed it (senders, the `Current` one is that of the last
  claim) or still may (candidates). `Marked`: nobody can claim under a current sender
  unless its lock expired. `Bounded`: up to where the current sender, or the next
  claim, will start, groups have one message more than the faults account for, and
  beyond none more; messages on their way from overtaken senders are counted with
  those that arrived. `Complete`: without an expired lock, the counters a run
  continues from count no more than the groups tried.
- The bound of `OneMessageEach` came out of the proof. With one message per
  expired lock it holds in the instance TLC checks and fails with more executions:
  the sender whose lock expired goes on beside its successor, and the row's counters,
  which the two write one over the other, may send the next run back. An expired lock
  costs two.

`BotDialog` (in `CustomerWalletProofs`), for any number of updates, handlers and
dialogues.

- `ChatTypes`.
- `OncePerDialogAlways`: `OncePerDialog`. The invariant `AllSole` says of every
  dialogue outside `shared` that the right to make something of it is in one
  place: one key, or one handler and the key which that handler is going to close
  (`MayKeep`), and nowhere once something was made, except in the key of a top-up
  whose handler is about to close it. The property alone is not inductive, since two
  keys with the same dialogue would make two orders later.
- `OneUnpaidOrderAlways`: `OneUnpaidOrder`, from `OneOrder`: while updates do not
  overlap, no key and no handler is on the way to an order of an own product
  (`Shopping`) when one is unpaid. It holds although orders are looked up
  when the question is opened and not when the order is made, because
  `handleBuy` closes the questions of other purchases first.
- The handlers are sorted into those that end, ask, go on, take up, begin and make
  (`Leaves`, `Asks`, `GoesOn`, `Takes`, `Begins`, `Makes`); each sort keeps the
  invariant, and each of the 26 actions is of one or two sorts.

Only model-checked: liveness (`CallersEnd`, `OrdinarySettles`, `EveryClaimMoves`,
`TransferCredited`, `MoneyCredited`, `CallbackSettles`, `SourceTold`, `CycleEnds`),
which is outside the prover's reach together with fairness. Every safety property
that a run checks is a theorem. No run spends a search on the type invariants,
which are proved.

## What the code does outside the properties

Several properties name an exception, or hold for some constants only. What TLC
shows beyond them, with other constants or without the exception:

Fulfilment

- `MaxRun = 3` with `LOCK_TTL = 3` breaks `OneRunner`: the wrapper's claim is not
  renewed and a `fn` of 30 seconds or more runs twice.
- A pre-order whose stock is gone when the delivery transaction looks again is left
  in PROCESSING_PURCHASE without a job: the write of PAID_WAITING_STOCK is rolled
  back with the sentinel that follows it (P:1281).
- `ByHand = {TRUE}`, `MaxClicks = 2`: a settled order changes again, because
  `cancelPendingManualOrder` writes FAILED over a DELIVERED that was committed after
  its read (O:2014).
- `Route <- ByScan`: the scanner leaves a pre-order PAID, its job wants
  PROCESSING_PURCHASE and the sweep PAID_WAITING_STOCK.
- `FaultKinds = {"crash"}`: `SettledOnce` fails, since a re-run job delivers an
  ordinary order again, and `OrdinaryNotStranded` fails when the API dies between
  the claim and `queue.add`. A wallet order whose enqueue fails stays PAID with
  nobody to try again, because only payments with a callback have a repeat.

Refunds and warranty

- `warranty <= Total` fails: the claims of one order together can refund more than it
  cost. Claims are told apart by their first account (W:406), so one about accounts
  1 and 2 and one about account 2 refund an order of two one and a half times. An
  account refunded for want of stock can be claimed again: `openClaim` passes all
  accounts (W:796, 814-819), the customer's form looks for replaced accounts only
  when the named one is not in the active text, and the cooldown asks for two
  earlier claims. A verdict that names no dead account counts those named, or the
  whole order, whatever was refunded before (W:2222-2229). The comment at W:2386
  expects a refund to "BLOCK a later re-claim".
- After a partial refund by the administrator a cancellation refunds the whole price
  (the exception in `RefundsWithinPrice`), and the worker's refund does nothing
  although the customer is told that all of it is back (P:624).
- A price of 5 dong for two accounts: two claims pay 3 dong each, and their
  commission shares, capped per refund, restore more than was spent.
- A recheck leaves `autoCheckSoftFailed` set (W:1445), so the customer's retry
  supersedes a claim whose verdict is being applied; the refund transaction (W:2312)
  does not look at the new status, and both claims compensate the account.
- `MaxRechecks = 2` breaks `OneApply` and `CompensatedOnce`: a recheck that the queue
  refuses with an exception leaves no completion time, a late callback of the earlier
  check starts an apply, and a second recheck takes that apply for dead and lets
  another one start. By `OneApplyWhileQueued` this is the only way, as long as no
  apply takes five minutes; one that does (`"slow"`) breaks both with the first
  recheck.
- A text replacement is re-validated by the number of entries only (W:1858-1866).
- When all deliveries of a callback fail the claim stays PENDING with its check
  completed, although `account-check.ts` says "The API-side sweep will recover this
  row when the API is back"; no such sweep exists. A recheck refused by a full queue
  leaves the claim pending outside the review queue.

Wallets and payments

- The scanner and the hash route, or two overlapping scans, credit one chain top-up
  twice; a crash between tagging and crediting makes later scans skip the transfer.
  Two follow-ups of one delivery credit a commission twice. `revokeCommission` with
  nothing asked for takes everything.
- A seller's cancellation of a deposit writes REJECTED over CONFIRMED, and the next
  callback credits again; two clicks that both read PENDING do so twice (`undone` in
  `DepositOnce`). One of a withdrawal writes over APPROVED. A source top-up computes
  from the balance read before the lock (IS:1127). Two purchases of a plan at once
  lose an extension; the expiry job may end a tier that was renewed after its list.
  A tier deposit paid between the expiry job's question and its rejection is refused
  for good. A deposit on a chain or through Binance whose money arrives late, or while no
  scanner runs, is rejected without a question (payos.ts:288-339), although
  the comment above it (payos.ts:268-271) is about users who pay and get no balance;
  it asks for "any PayOS deposit" only. The TRC20 scanner's confirmation of a deposit names no provider, which
  `internalCryptoConfirm` refuses.
- WEB2M's webhook looks for PENDING rows of the last 24 hours
  (`listPendingWeb2mPayments`), PAY2S's for PENDING ones by content; both catch what
  the completion throws and answer as if it had succeeded (webhooks.controller.ts:358,
  467). Expired top-ups are CANCELED, so a transfer that is late, or whose one report
  fails, is credited by nobody.
- `OwnMoney` for equal amounts only: a hash, or an event from the chain's provider, pays
  an invoice within `usdtPaymentTolerance` of its amount. "Invoice amounts must be
  farther apart than twice that tolerance" (payment.service.ts:924), but the look for
  such an amount takes no lock, sees PENDING rows only, and is followed by a reservation
  of the exact amount, which may step to one that was not looked at. Two customers who
  check out at once for 10.00 and 10.02 can each pay the other's invoice by hash. The
  rails TRC20 and Solana look for equal amounts only.
- On direct rails a transfer for an expired invoice can settle a newer invoice of
  somebody else with the same amount. A receipt claimed before a crash whose top-up
  expires is never settled. `cancelPendingOrder` writes FAILED over PAID; payments
  for cancelled orders are refused. The PayOS and OKX polls select `UNPAID` while
  orders are created `PENDING`; the order-timeout queue has no consumer.

Sourcing

- Without `calm`: an owner who refuses a source order while its request runs has it
  reopened by the parking write, and refunds twice; his delivery writes over a
  refund; stalled runs side by side refund and deliver; a seller who completes and
  cancels at once gives goods and money.
- A re-run job makes a second source row. A crash after the debit by key leaves a
  PENDING row and the money taken. `safeDebitConnectionBalance` delivers although
  the debit was refused. The reconciler marks an order FAILED without refunding the
  customer, and so does the seller's cancellation.
- A lost answer of a provider without a key counts as nothing bought, and the
  customer is refunded for what may have been bought.
- A provider may sell one order several times. roboticvn's client sends every request
  that is answered with 429 or a 5xx up to four more times (roboticvn.ts:96-134),
  `POST /orders` without a key among them, although a purchase is meant to be "never
  re-purchased (which would double-charge: roboticvn has no idempotency key)"
  (roboticvn.ts:497-499). A job that dies before it records the purchase buys again.
  So does one that stalls, or dies after its last write, an order that waits included
  (not `calm`): `processPurchase` takes an order up again whatever its status. The poll
  itself keeps what it says, "We re-check STATUS only" (purchase.ts:2775).
- A purchase that succeeds without goods, and is not pending, leaves the order FAILED
  and the customer without goods or money (purchase.ts:2398-2427).
- The poll knows "delivered" and "failed" (purchase.ts:2861); roboticvn also reports
  "cancelled" (roboticvn.ts:656-660), and such an order waits for ever.
- Both reconcilers take the 20 oldest orders (purchase.ts:2462-2465, 2797-2798). Twenty
  older ones that stay undecided keep a decided one off the page; on the poll's, orders
  with a source order or of a keyed provider take up places as well, and nobody asks
  about those. A source order left open by the source shop's own blind provider is
  followed by nobody.

Campaigns

- When the worker's own catch block cannot write FAILED
  (userbot-campaign.worker.ts:541) the row stays RUNNING and the sweep starts it again,
  as after a crash: the run goes on where it was counted, and one more message may go to
  a group. In the model only a crash does that (`Crash`); `Abort` always writes.
- A message whose log cannot be written counts as sent and as failed, so a resumed
  run skips a group; so may the successor of a worker whose lock expired, because it
  counts from numbers it read before its claim (the conditions in `NoneSkipped`).

Bot

- Nothing keeps two updates of a customer apart: two taps on a payment button, or two
  texts, that overlap both read the question before either closes it, and both make
  an order or a top-up. A top-up's question is closed after the top-up is made, so a
  crash in between leaves it open for the next text (the exceptions in
  `OncePerDialog`).
- An update is claimed before it is handled: one whose handler died is dropped when
  it comes again. The claim lasts ten minutes, and with Redis down every delivery is
  handled (`claimOnce` fails open); in the model a claim stays and Redis is up.
- The payment button names no purchase: an old message's button pays for the
  selection that is open now.
- A text goes to an older question when that is tried first: a number meant as a
  quantity makes a top-up while the question for its amount is open, because `buy:`
  closes only the question for a hash. Nothing closes the questions for exchange ids
  and for the source connection but an answer or their expiry.
- "Please pay or cancel it before creating a new one" is looked up when the question
  is opened: `social:qty:` does not ask, and the question for a social order's link
  survives other purchases, so a customer can have several unpaid orders (the
  exception in `OneUnpaidOrder`).

## Not modelled

Texts and layout of the bot, the dashboard, reports, settings and authentication hold
no state the properties speak of; they are most of the repository's lines (the
dashboard alone is a third). Provider
adapters are request building and parsing. Throttling and caches change no order.
Discount codes are a counter checked at checkout. Broadcasts have no claim at all:
a rescued broadcast may have two jobs, which both write to the same customers.
Left out of modelled parts: deleting campaigns and sessions, the administrator's
grants and edits of tiers, the older upgrade service, licence keys, the tier
affiliate programme, partial warranty cascades between shops, chains of more than
two shops, stock that expires. The counter `SourceProduct.available` is in
`Fulfillment`, but no invariant ties it to the entries: `Park` writes it from an old
read.

## Plan

A claim of `WarrantyClaims` as an abstract specification: open, then one outcome. A
REJECTED claim can come back, since an apply ends without looking at the row, so the
outcome that stays is the settled one, which `SettledForGood` states.
