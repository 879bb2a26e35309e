--------------------------- MODULE WarrantyClaims ---------------------------
(***************************************************************************)
(* Warranty claims about one sold account, from the customer's request to  *)
(* the compensation.  A claim is checked by a worker job that logs in to   *)
(* the account; the worker stores a verdict and calls the API back, and    *)
(* the API applies the verdict: a replacement from stock or from the       *)
(* provider, a refund when stock is out, a rejection, or the seller's      *)
(* manual queue.  The API works in short transactions with slow calls in   *)
(* between, so a claim is guarded by a flag in its metadata                *)
(* (autoApplyInProgress), while the customer may retry, the seller may     *)
(* resolve, reject or recheck, callbacks repeat and processes die.         *)
(***************************************************************************)
EXTENDS Integers, FiniteSets, FiniteSetsExt

CONSTANTS
    Claims,     \* claim numbers, in the order the customer opens them
    Entries,    \* stock entries of the product, oldest first
    Modes,      \* warranty delivery modes looked at
    Appliers,   \* requests of the API that may apply a verdict at one time
    MaxClaims,  \* claims the order allows
    Settings,   \* what a behaviour may start from, see setting
    MaxRechecks,\* bound: rechecks by the seller
    Faults      \* what goes wrong: "lost", "crash", "slow"

ASSUME SetsAssumption ==
    /\ Claims \subseteq Nat \ {0} /\ IsFiniteSet(Claims)
    /\ Entries \subseteq Nat \ {0} /\ IsFiniteSet(Entries)
    /\ Modes \subseteq {"AUTO_STOCK", "AUTO_API", "MANUAL"}

ASSUME BoundsAssumption ==
    /\ MaxClaims \in Nat /\ MaxRechecks \in Nat
    /\ Settings \subseteq [claims : Nat, attempts : Nat \ {0}, rechecks : 0 .. MaxRechecks]

ASSUME FaultsAssumption == Faults \subseteq {"lost", "crash", "slow"}

VARIABLES
    mode,     \* Order.warrantyDeliveryModeSnapshot
    setting,  \* claims: bound, how often the customer asks;
              \* attempts: deliveries of one callback (up to CALLBACK_MAX_ATTEMPTS);
              \* rechecks: rechecks already made
    claim,    \* the WarrantyClaim rows
    request,  \* what the API request that opened or rechecks a claim does next
    job,      \* the claim's job in the account-check queue, "none" when it has ended
    calls,    \* deliveries of the worker's callback still to come
    applier,  \* the running calls of applyAutoCheckResult
    stock,    \* stock entries that are AVAILABLE
    handed,   \* handed[e]: how often entry e was handed to somebody
    paid,     \* paid[c]: how often claim c was compensated
    rechecks

vars == <<mode, setting, claim, request, job, calls, applier, stock, handed, paid, rechecks>>

Active == {"PENDING", "PENDING_MANUAL", "PENDING_REVIEW", "PENDING_STOCK"}
Resolved == {"AUTO_RESOLVED", "RESOLVED_MANUAL", "REJECTED"}
Settled == {"AUTO_RESOLVED", "RESOLVED_MANUAL"}
Verdicts == {"dead", "paid", "unclear", "fail", "infra"}
MaxAttemptsOfCustomer == 3
NoEntry == 0
Unset == -1

ClaimRows ==
    [status : {"NONE"} \union Active \union Resolved,
     auto : {"NULL", "QUEUED", "RUNNING", "COMPLETED", "FAILED", "OVERLOADED", "CANCELLED"},
     verdict : {"none"} \union Verdicts,
     applying : BOOLEAN,             \* autoApplyInProgress
     soft : BOOLEAN,                 \* autoCheckSoftFailed
     slots : Int,                    \* autoCheckSlotsUsed
     stale : BOOLEAN,                \* autoCheckCompletedAt is unset or five minutes old
     text : BOOLEAN,                 \* deliveredAccountText is set
     refunded : BOOLEAN]             \* the ledger has the claim's warranty_refund row

Requests ==
    [pc : {"idle", "submitted", "adding", "added", "refused"},
     recheck : BOOLEAN, own : BOOLEAN]

Idle == [pc |-> "idle", c |-> 0, auto |-> "NULL", verdict |-> "none",
         slots |-> Unset, entry |-> NoEntry, to |-> "NONE"]

Init ==
    /\ mode \in Modes /\ setting \in Settings /\ rechecks = setting.rechecks
    /\ claim = [c \in Claims |-> [status |-> "NONE", auto |-> "NULL", verdict |-> "none",
                                  applying |-> FALSE, soft |-> FALSE, slots |-> Unset, stale |-> TRUE,
                                  text |-> FALSE, refunded |-> FALSE]]
    /\ request = [c \in Claims |-> [pc |-> "idle", recheck |-> FALSE, own |-> FALSE]]
    /\ job = [c \in Claims |-> "none"]
    /\ calls = [c \in Claims |-> 0]
    /\ applier = [a \in Appliers |-> Idle]
    /\ stock = Entries
    /\ handed = [e \in Entries |-> 0]
    /\ paid = [c \in Claims |-> 0]

Live(c) == {a \in Appliers : applier[a].c = c}

NonRejected == {c \in Claims : claim[c].status \notin {"NONE", "REJECTED"}}

-----------------------------------------------------------------------------
\* The customer's request: what is under way and what was settled is looked up before
\* the transaction.  A claim that soft-failed waits for the customer's next attempt.

Superseded(row) == row.status = "PENDING" /\ row.soft

Submit(c) ==
    /\ claim[c].status = "NONE" /\ request[c].pc = "idle" /\ c <= setting.claims
    /\ \A d \in Claims : d < c => claim[d].status # "NONE"
    /\ \A d \in Claims : /\ claim[d].status \in Active => Superseded(claim[d])
                         /\ claim[d].status \notin Settled
    /\ request' = [request EXCEPT ![c].pc = "submitted"]
    /\ UNCHANGED <<mode, setting, claim, job, calls, applier, stock, handed, paid, rechecks>>

\* A claim of the account that soft-failed is closed and its attempts are inherited.
CreateClaim(c, bypass) ==
    LET active == {d \in Claims : claim[d].status \in Active}
    IN  /\ request[c].pc = "submitted"
        /\ Cardinality(NonRejected) + 1 <= MaxClaims
        /\ \E old \in IF active = {} THEN {c} ELSE active :
               /\ old # c => Superseded(claim[old])
               /\ claim' = [d \in Claims |->
                     IF d = c
                     THEN [status |-> "PENDING",
                           auto |-> IF bypass THEN "COMPLETED" ELSE "QUEUED",
                           verdict |-> IF bypass THEN "dead" ELSE "none",
                           applying |-> FALSE, soft |-> FALSE,
                           slots |-> claim[old].slots, stale |-> ~bypass,
                           text |-> FALSE, refunded |-> FALSE]
                     ELSE IF d = old THEN [claim[d] EXCEPT !.status = "REJECTED"]
                     ELSE claim[d]]
        /\ request' = [request EXCEPT ![c] = [pc |-> IF bypass THEN "idle" ELSE "adding",
                                              recheck |-> FALSE, own |-> FALSE]]
        /\ calls' = [calls EXCEPT ![c] = IF bypass THEN 1 ELSE @]
        /\ UNCHANGED <<mode, setting, job, applier, stock, handed, paid, rechecks>>

RefuseClaim(c) ==
    /\ request[c].pc = "submitted"
    /\ \/ Cardinality(NonRejected) + 1 > MaxClaims
       \/ \E d \in Claims : claim[d].status \in Active /\ ~Superseded(claim[d])
    /\ request' = [request EXCEPT ![c].pc = "idle"]
    /\ UNCHANGED <<mode, setting, claim, job, calls, applier, stock, handed, paid, rechecks>>

-----------------------------------------------------------------------------
\* tryEnqueueForClaim: the queue is touched first, the row is written afterwards.

EnqueueRefused(c, as) ==
    /\ request[c].pc = "adding"
    /\ claim' = [claim EXCEPT ![c].auto = as]
    /\ request' = [request EXCEPT ![c].pc = "refused"]
    /\ UNCHANGED <<mode, setting, job, calls, applier, stock, handed, paid, rechecks>>

AddJob(c) ==
    LET own == job[c] = "none"
    IN  /\ request[c].pc = "adding"
        /\ job' = [job EXCEPT ![c] = IF own THEN "waiting" ELSE @]
        /\ request' = [request EXCEPT ![c].pc = "added", ![c].own = own]
        /\ UNCHANGED <<mode, setting, claim, calls, applier, stock, handed, paid, rechecks>>

OverHardCap(c) ==
    /\ request[c].pc = "added" /\ request[c].own
    /\ job' = [job EXCEPT ![c] = IF @ = "active" THEN @ ELSE "none"]
    /\ claim' = [claim EXCEPT ![c].auto = "OVERLOADED"]
    /\ request' = [request EXCEPT ![c].pc = "refused"]
    /\ UNCHANGED <<mode, setting, calls, applier, stock, handed, paid, rechecks>>

Enqueued(c) ==
    /\ request[c].pc = "added"
    /\ claim' = [claim EXCEPT ![c].auto = "QUEUED"]
    /\ request' = [request EXCEPT ![c].pc = "idle", ![c].own = FALSE]
    /\ UNCHANGED <<mode, setting, job, calls, applier, stock, handed, paid, rechecks>>

\* Only the request that opens a claim hands it to the seller.
Refused(c) ==
    /\ request[c].pc = "refused"
    /\ claim' = [claim EXCEPT ![c].status =
                    IF ~request[c].recheck /\ @ = "PENDING" THEN "PENDING_REVIEW" ELSE @]
    /\ request' = [request EXCEPT ![c].pc = "idle", ![c].own = FALSE]
    /\ UNCHANGED <<mode, setting, job, calls, applier, stock, handed, paid, rechecks>>

-----------------------------------------------------------------------------
\* The worker.

CheckEnds(c, auto, verdict) ==
    /\ claim' = [claim EXCEPT ![c].auto = auto, ![c].verdict = verdict, ![c].stale = FALSE]
    /\ calls' = [calls EXCEPT ![c] = setting.attempts]

StartJob(c) ==
    /\ job[c] = "waiting"
    /\ job' = [job EXCEPT ![c] = "active"]
    /\ claim' = [claim EXCEPT ![c].auto = "RUNNING"]
    /\ UNCHANGED <<mode, setting, request, calls, applier, stock, handed, paid, rechecks>>

ToolDisabled(c) ==
    /\ job[c] = "waiting"
    /\ job' = [job EXCEPT ![c] = "none"]
    /\ CheckEnds(c, "FAILED", claim[c].verdict)
    /\ UNCHANGED <<mode, setting, request, applier, stock, handed, paid, rechecks>>

\* The accounts are logged in to, with retries over the live proxies; a timeout, an
\* unreadable answer or an exception leaves no verdict.
CheckOutcomes(before) == ({"COMPLETED"} \X Verdicts) \union {<<"FAILED", before>>}

FinishJob(c) ==
    /\ job[c] = "active"
    /\ job' = [job EXCEPT ![c] = "none"]
    /\ IF claim[c].auto = "RUNNING"
       THEN \E o \in CheckOutcomes(claim[c].verdict) : CheckEnds(c, o[1], o[2])
       ELSE UNCHANGED <<claim, calls>>
    /\ UNCHANGED <<mode, setting, request, applier, stock, handed, paid, rechecks>>

WorkerCrash(c) ==
    /\ job[c] = "active"
    /\ job' = [job EXCEPT ![c] = "stalled"]
    /\ UNCHANGED <<mode, setting, claim, request, calls, applier, stock, handed, paid, rechecks>>

InFlight == {"QUEUED", "RUNNING"}

JobFailed(c) ==
    /\ job[c] = "stalled"
    /\ job' = [job EXCEPT ![c] = "none"]
    /\ IF claim[c].auto \in InFlight THEN CheckEnds(c, "FAILED", claim[c].verdict)
                                     ELSE UNCHANGED <<claim, calls>>
    /\ UNCHANGED <<mode, setting, request, applier, stock, handed, paid, rechecks>>

\* Mutant: the sweep looks for running checks only.
SweepStuckRunning(c) ==
    /\ claim[c].auto = "RUNNING" /\ request[c].pc = "idle"
    /\ job[c] = "none"
    /\ CheckEnds(c, "FAILED", claim[c].verdict)
    /\ UNCHANGED <<mode, setting, request, job, applier, stock, handed, paid, rechecks>>

\* The sweep looks at rows of ten minutes and more: no request is on its way then.
SweepStuck(c) ==
    /\ claim[c].auto \in InFlight /\ request[c].pc = "idle"
    /\ job[c] = "none"
    /\ CheckEnds(c, "FAILED", claim[c].verdict)
    /\ UNCHANGED <<mode, setting, request, job, applier, stock, handed, paid, rechecks>>

CallbackLost(c) ==
    /\ "lost" \in Faults /\ calls[c] > 0
    /\ calls' = [calls EXCEPT ![c] = @ - 1]
    /\ UNCHANGED <<mode, setting, claim, request, job, applier, stock, handed, paid, rechecks>>

-----------------------------------------------------------------------------
\* applyAutoCheckResult.  Transaction A takes the claim; the worker may have given up
\* waiting for the answer and call again.

\* Mutant: the flag is not looked at.
CallbackTwice(c, a) ==
    LET row == claim[c]
        mine == row.auto \in {"COMPLETED", "FAILED"} /\ row.status = "PENDING"
    IN  /\ calls[c] > 0 /\ applier[a].pc = "idle"
        /\ calls' = [calls EXCEPT ![c] = @ - 1]
        /\ claim' = [claim EXCEPT ![c].applying = @ \/ mine]
        /\ applier' = [applier EXCEPT ![a] =
               IF mine THEN [Idle EXCEPT !.pc = "apply", !.c = c, !.auto = row.auto,
                                         !.verdict = row.verdict, !.slots = row.slots]
                       ELSE @]
        /\ UNCHANGED <<mode, setting, request, job, stock, handed, paid, rechecks>>

Callback(c, a) ==
    LET row == claim[c]
        mine == /\ row.auto \in {"COMPLETED", "FAILED"}
                /\ row.status = "PENDING"
                /\ ~row.applying
    IN  /\ calls[c] > 0 /\ applier[a].pc = "idle"
        /\ \E left \in {0, calls[c] - 1} : calls' = [calls EXCEPT ![c] = left]
        /\ claim' = [claim EXCEPT ![c].applying = @ \/ mine]
        /\ applier' = [applier EXCEPT ![a] =
               IF mine THEN [Idle EXCEPT !.pc = "apply", !.c = c, !.auto = row.auto,
                                         !.verdict = row.verdict, !.slots = row.slots]
                       ELSE @]
        /\ UNCHANGED <<mode, setting, request, job, stock, handed, paid, rechecks>>

Dead(s) == s.verdict = "dead"
ToolFailed(s) == ~Dead(s) /\ (s.auto = "FAILED" \/ s.verdict \in {"fail", "infra"})

\* The attempts of the customer that are used up when this check has failed.
SlotCount(s) ==
    IF s.verdict = "infra" THEN Max({s.slots, 0})
    ELSE IF s.slots # Unset THEN s.slots + 1
    ELSE Cardinality(NonRejected)

LastSlot(s) == s.verdict # "infra" /\ SlotCount(s) >= MaxAttemptsOfCustomer

\* One write that ends an apply, made without the lock and without looking at the row.
EndApply(a, row) ==
    /\ claim' = [claim EXCEPT ![applier[a].c] = [row EXCEPT !.applying = FALSE]]
    /\ applier' = [applier EXCEPT ![a] = Idle]

ApplyToolFailed(a) ==
    LET s == applier[a]
    IN  /\ s.pc = "apply" /\ ToolFailed(s)
        /\ EndApply(a, [claim[s.c] EXCEPT !.status = IF LastSlot(s) THEN "PENDING_REVIEW" ELSE @,
                                          !.soft = ~LastSlot(s),
                                          !.slots = SlotCount(s)])
        /\ UNCHANGED <<mode, setting, request, job, calls, stock, handed, paid, rechecks>>

ApplyStillPaid(a) ==
    LET s == applier[a]
    IN  /\ s.pc = "apply" /\ ~ToolFailed(s) /\ s.verdict = "paid"
        /\ EndApply(a, [claim[s.c] EXCEPT !.status = "REJECTED"])
        /\ UNCHANGED <<mode, setting, request, job, calls, stock, handed, paid, rechecks>>

ApplyUnclear(a) ==
    LET s == applier[a]
    IN  /\ s.pc = "apply" /\ ~ToolFailed(s) /\ s.verdict = "unclear"
        /\ EndApply(a, [claim[s.c] EXCEPT !.status = "PENDING_REVIEW"])
        /\ UNCHANGED <<mode, setting, request, job, calls, stock, handed, paid, rechecks>>

\* decideClaimRoute reads the stock, or asks the provider, outside every lock.
DecideClaimRoute(a) ==
    LET Next_(pc, e, to) == applier' = [applier EXCEPT ![a].pc = pc, ![a].entry = e, ![a].to = to]
    IN  /\ applier[a].pc = "apply" /\ Dead(applier[a])
        /\ \/ mode = "MANUAL" /\ Next_("hold", NoEntry, "PENDING_MANUAL")
           \/ mode = "AUTO_STOCK" /\ stock # {} /\ Next_("replace", Min(stock), "AUTO_RESOLVED")
           \/ mode = "AUTO_STOCK" /\ stock = {} /\ Next_("refund", NoEntry, "NONE")
           \/ mode = "AUTO_API" /\ Next_("replace", NoEntry, "AUTO_RESOLVED")
           \/ mode = "AUTO_API" /\ Next_("refund", NoEntry, "NONE")
           \/ mode = "AUTO_API" /\ \E to \in {"PENDING_STOCK", "PENDING_REVIEW"} :
                                       Next_("hold", NoEntry, to)
        /\ UNCHANGED <<mode, setting, claim, request, job, calls, stock, handed, paid, rechecks>>

\* Mutant: the entry chosen earlier is taken without looking whether it is still there.
CommitBlindly(a) ==
    LET s == applier[a]
        done == claim[s.c].status = "PENDING" /\ s.to = "AUTO_RESOLVED"
    IN  /\ s.pc \in {"replace", "hold"}
        /\ claim' = [claim EXCEPT ![s.c] =
               IF @.status # "PENDING" THEN @
               ELSE [@ EXCEPT !.status = s.to, !.text = done, !.applying = FALSE]]
        /\ stock' = IF done THEN stock \ {s.entry} ELSE stock
        /\ handed' = [e \in Entries |-> handed[e] + IF done /\ e = s.entry THEN 1 ELSE 0]
        /\ paid' = [paid EXCEPT ![s.c] = @ + IF done THEN 1 ELSE 0]
        /\ applier' = [applier EXCEPT ![a] = Idle]
        /\ UNCHANGED <<mode, setting, request, job, calls, rechecks>>

\* Transaction B locks the claim again, and the product when an entry is taken.
CommitDecision(a) ==
    LET s == applier[a]
        open == claim[s.c].status = "PENDING"
        gone == s.entry # NoEntry /\ s.entry \notin stock
        done == open /\ ~gone /\ s.to = "AUTO_RESOLVED"
    IN  /\ s.pc \in {"replace", "hold"}
        /\ claim' = [claim EXCEPT ![s.c] =
               IF ~open THEN @
               ELSE [@ EXCEPT !.status = IF gone THEN "PENDING_REVIEW" ELSE s.to,
                              !.text = done, !.applying = FALSE]]
        /\ stock' = IF done THEN stock \ {s.entry} ELSE stock
        /\ handed' = [e \in Entries |-> handed[e] + IF done /\ e = s.entry THEN 1 ELSE 0]
        /\ paid' = [paid EXCEPT ![s.c] = @ + IF done THEN 1 ELSE 0]
        /\ applier' = [applier EXCEPT ![a] = Idle]
        /\ UNCHANGED <<mode, setting, request, job, calls, rechecks>>

\* autoRefundForOutOfStock: nothing left to refund, too much for one verdict, or the
\* transaction that credits the wallet.
RefundNothing(a) ==
    /\ applier[a].pc = "refund"
    /\ EndApply(a, [claim[applier[a].c] EXCEPT !.status = "RESOLVED_MANUAL"])
    /\ UNCHANGED <<mode, setting, request, job, calls, stock, handed, paid, rechecks>>

RefundHeld(a) ==
    /\ applier[a].pc = "refund"
    /\ EndApply(a, [claim[applier[a].c] EXCEPT !.status = "PENDING_REVIEW"])
    /\ UNCHANGED <<mode, setting, request, job, calls, stock, handed, paid, rechecks>>

RefundCredit(a) ==
    LET c == applier[a].c
        row == claim[c]
        delivered == row.text \/ row.status = "AUTO_RESOLVED"
    IN  /\ applier[a].pc = "refund"
        /\ IF delivered
           THEN /\ applier' = [applier EXCEPT ![a] = Idle]
                /\ claim' = [claim EXCEPT ![c].applying = @ /\ row.status # "PENDING"]
                /\ UNCHANGED paid
           ELSE /\ EndApply(a, [row EXCEPT !.status = "RESOLVED_MANUAL", !.refunded = TRUE])
                /\ paid' = [paid EXCEPT ![c] = @ + IF row.refunded THEN 0 ELSE 1]
        /\ UNCHANGED <<mode, setting, request, job, calls, stock, handed, rechecks>>

\* An exception on the way: the finally block frees a claim that is still pending.
ApplyThrows(a) ==
    /\ "crash" \in Faults /\ applier[a].pc # "idle"
    /\ claim' = [claim EXCEPT ![applier[a].c].applying =
                    @ /\ claim[applier[a].c].status # "PENDING"]
    /\ applier' = [applier EXCEPT ![a] = Idle]
    /\ UNCHANGED <<mode, setting, request, job, calls, stock, handed, paid, rechecks>>

\* The API process dies: no finally block, the flag stays.
ApiCrash ==
    /\ "crash" \in Faults
    /\ \E a \in Appliers : applier[a].pc # "idle"
    /\ applier' = [a \in Appliers |-> Idle]
    /\ request' = [c \in Claims |-> [pc |-> "idle", recheck |-> FALSE, own |-> FALSE]]
    /\ UNCHANGED <<mode, setting, claim, job, calls, stock, handed, paid, rechecks>>

-----------------------------------------------------------------------------
\* The seller, and the rest of the shop.

\* Mutant: a claim that is closed may be closed again.
MayCloseTwice(row) == row.status # "NONE" /\ ~row.applying

MayClose(row) == row.status \in Active /\ ~row.applying

Closed(row, as) ==
    [row EXCEPT !.status = as, !.auto = IF row.status = "PENDING" THEN "CANCELLED" ELSE @]

\* The account the seller pastes may be one of the stock entries.
ResolveClaimManually(c, e) ==
    /\ MayClose(claim[c])
    /\ e = NoEntry \/ e \in stock
    /\ claim' = [claim EXCEPT ![c] = [Closed(@, "RESOLVED_MANUAL") EXCEPT !.text = TRUE]]
    /\ stock' = stock \ {e}
    /\ handed' = [f \in Entries |-> handed[f] + IF f = e THEN 1 ELSE 0]
    /\ paid' = [paid EXCEPT ![c] = @ + 1]
    /\ UNCHANGED <<mode, setting, request, job, calls, applier, rechecks>>

RejectClaim(c) ==
    /\ MayClose(claim[c])
    /\ claim' = [claim EXCEPT ![c] = Closed(@, "REJECTED")]
    /\ UNCHANGED <<mode, setting, request, job, calls, applier, stock, handed, paid, rechecks>>

RecheckClaim(c) ==
    LET row == claim[c]
    IN  /\ row.status \in Active /\ row.auto \notin InFlight
        /\ row.applying => row.stale
        /\ request[c].pc = "idle" /\ rechecks < MaxRechecks
        /\ claim' = [claim EXCEPT ![c] =
               [@ EXCEPT !.status = "PENDING", !.auto = "NULL", !.verdict = "none",
                         !.applying = FALSE, !.stale = TRUE]]
        /\ request' = [request EXCEPT ![c] = [pc |-> "adding", recheck |-> TRUE, own |-> FALSE]]
        /\ rechecks' = rechecks + 1
        /\ UNCHANGED <<mode, setting, job, calls, applier, stock, handed, paid>>

\* Five minutes pass since the check ended; unless "slow", no apply runs that long.
FiveMinutesPass(c) ==
    /\ claim[c].applying /\ ~claim[c].stale
    /\ "slow" \in Faults \/ Live(c) = {}
    /\ claim' = [claim EXCEPT ![c].stale = TRUE]
    /\ UNCHANGED <<mode, setting, request, job, calls, applier, stock, handed, paid, rechecks>>

\* An order of another customer takes the oldest entry.
SellEntry ==
    /\ mode = "AUTO_STOCK" /\ stock # {}
    /\ stock' = stock \ {Min(stock)}
    /\ handed' = [handed EXCEPT ![Min(stock)] = @ + 1]
    /\ UNCHANGED <<mode, setting, claim, request, job, calls, applier, paid, rechecks>>

-----------------------------------------------------------------------------
Worker(c) ==
    StartJob(c) \/ ToolDisabled(c) \/ FinishJob(c) \/ JobFailed(c) \/ SweepStuck(c)

Api(c) ==
    \/ CreateClaim(c, TRUE) \/ CreateClaim(c, FALSE) \/ RefuseClaim(c)
    \/ EnqueueRefused(c, "OVERLOADED") \/ EnqueueRefused(c, "FAILED")
    \/ AddJob(c) \/ OverHardCap(c) \/ Enqueued(c) \/ Refused(c)

Apply(a) ==
    \/ ApplyToolFailed(a) \/ ApplyStillPaid(a) \/ ApplyUnclear(a)
    \/ DecideClaimRoute(a) \/ CommitDecision(a)
    \/ RefundNothing(a) \/ RefundHeld(a) \/ RefundCredit(a)

People(c) ==
    \/ Submit(c) \/ RejectClaim(c) \/ RecheckClaim(c) \/ FiveMinutesPass(c)
    \/ \E e \in Entries \union {NoEntry} : ResolveClaimManually(c, e)

Next ==
    \/ \E c \in Claims :
           \/ Worker(c) \/ WorkerCrash(c) \/ Api(c) \/ People(c) \/ CallbackLost(c)
           \/ \E a \in Appliers : Callback(c, a)
    \/ \E a \in Appliers : Apply(a) \/ ApplyThrows(a)
    \/ ApiCrash
    \/ SellEntry

Spec == Init /\ [][Next]_vars

\* Started requests run on, the queue hands out its jobs, the sweep is a timer of the
\* worker and the callback is retried.  Nobody has to act on a claim.
FairSpec ==
    /\ Spec
    /\ \A c \in Claims : /\ WF_vars(Worker(c)) /\ WF_vars(Api(c))
                         /\ WF_vars(\E a \in Appliers : Callback(c, a))
    /\ \A a \in Appliers : WF_vars(Apply(a))

-----------------------------------------------------------------------------
\* Every variable stays in its range.
TypeOK ==
    /\ mode \in Modes /\ setting \in Settings
    /\ claim \in [Claims -> ClaimRows]
    /\ request \in [Claims -> Requests]
    /\ job \in [Claims -> {"none", "waiting", "active", "stalled"}]
    /\ calls \in [Claims -> 0 .. setting.attempts]
    /\ applier \in [Appliers -> [pc : {"idle", "apply", "replace", "hold", "refund"},
                                 c : Claims \union {0}, auto : {"NULL", "COMPLETED", "FAILED"},
                                 verdict : {"none"} \union Verdicts, slots : Int,
                                 entry : Entries \union {NoEntry},
                                 to : {"NONE"} \union Active \union {"AUTO_RESOLVED"}]]
    /\ stock \subseteq Entries
    /\ handed \in [Entries -> Nat]
    /\ paid \in [Claims -> Nat]
    /\ rechecks \in 0 .. MaxRechecks

\* A stock entry is handed out at most once, to a claim or to a buyer, although a
\* replacement is chosen long before it is taken and buyers, other claims and the
\* seller's pasted accounts take entries in between.
EntryOnce == \A e \in Entries : handed[e] + (IF e \in stock THEN 1 ELSE 0) <= 1

\* A claim is compensated at most once, by a replacement, a refund or the seller,
\* however often callbacks repeat and applies die.
CompensatedOnce == \A c \in Claims : paid[c] <= 1

\* At most one call of applyAutoCheckResult works on a claim, and the flag is up while it does.
OneApply ==
    \A c \in Claims : /\ Cardinality(Live(c)) <= 1
                      /\ Live(c) # {} => claim[c].applying

\* Pending, with the decision up to the program and not to the customer.
Undecided(c) == claim[c].status = "PENDING" /\ ~claim[c].soft

\* A claim that is applied by a process that died, whose callbacks all failed, or whose
\* recheck was refused: only the seller moves it on.
Forsaken(c) ==
    /\ Live(c) = {} /\ calls[c] = 0
    /\ claim[c].auto \notin InFlight

\* Every claim is decided, or waits for the customer, or is forsaken.
EveryClaimMoves == \A c \in Claims : Undecided(c) ~> (~Undecided(c) \/ Forsaken(c))

=============================================================================
