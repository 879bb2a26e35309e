------------------------ MODULE WarrantyClaimsProofs ------------------------
(***************************************************************************)
(* What the warranty flow guarantees for any number of claims, entries and *)
(* requests at a time, every delivery mode and every verdict: types, and   *)
(* entries that are handed out once, whatever happens; and one apply and   *)
(* one compensation per claim as long as no apply takes five minutes and   *)
(* there is at most one recheck, or the queue refuses none with an         *)
(* exception.                                                              *)
(*                                                                         *)
(* At the end, what the idempotency wrapper around the public claim        *)
(* guarantees for every number of callers and every choice of the TTLs:    *)
(* types, and as long as fn settles before the lock's TTL runs out no two  *)
(* callers are in fn and nobody runs it again while its result lives.      *)
(***************************************************************************)
EXTENDS WarrantyClaims, Idempotency, FiniteSetTheorems, NaturalsInduction, WellFoundedInduction, TLAPS

\* The oldest entry is one of the entries.
LEMMA MinIsMember ==
    ASSUME NEW S \in SUBSET Nat, S # {}
    PROVE  Min(S) \in S
<1> DEFINE R == OpToRel(<, Nat)
<1>1. IsWellFoundedOn(R, Nat)
  BY NatLessThanWellFounded, Zenon
<1>2. PICK a \in S : \A b \in S : ~ (<<b, a>> \in R)
  BY <1>1, WFMin, Zenon
<1>3. \A b \in S : b < a => <<b, a>> \in R
  BY DEF OpToRel
<1> HIDE DEF R
<1>4. \A b \in S : ~ (b < a)
  BY <1>2, <1>3, Zenon
<1>5. \E x \in S : \A y \in S : x =< y
  BY <1>4
<1> QED
  BY <1>5 DEF Min

\* The larger of a number and zero is a number.
LEMMA MaxOfTwo ==
    ASSUME NEW a \in Int
    PROVE  Max({a, 0}) \in Int
<1>1. \E x \in {a, 0} : \A y \in {a, 0} : x >= y
  OBVIOUS
<1>2. Max({a, 0}) \in {a, 0}
  BY <1>1 DEF Max
<1> QED
  BY <1>2

\* What a running apply remembers.
ApplierRows ==
    [pc : {"idle", "apply", "replace", "hold", "refund"},
     c : Claims \union {0}, auto : {"NULL", "COMPLETED", "FAILED"},
     verdict : {"none"} \union Verdicts, slots : Int,
     entry : Entries \union {NoEntry},
     to : {"NONE"} \union Active \union {"AUTO_RESOLVED"}]

\* The attempts used up are a number.
LEMMA SlotsType ==
    ASSUME NEW s \in ApplierRows
    PROVE  SlotCount(s) \in Int
<1>1. Cardinality(NonRejected) \in Nat
  BY SetsAssumption, FS_Subset, FS_CardinalityType DEF NonRejected
<1>2. s.slots \in Int
  BY DEF ApplierRows
<1> QED
  BY <1>1, <1>2, MaxOfTwo DEF SlotCount

\* The states of a claim.
Statuses == {"NONE"} \union Active \union Resolved

\* The states of a claim's automatic check.
Autos == {"NULL", "QUEUED", "RUNNING", "COMPLETED", "FAILED", "OVERLOADED", "CANCELLED"}

\* The steps of a request that opens or rechecks a claim.
Stages == {"idle", "submitted", "adding", "added", "refused"}

\* A row with a new status is a row.
LEMMA StatusRow ==
    ASSUME NEW row \in ClaimRows, NEW x \in Statuses
    PROVE  [row EXCEPT !.status = x] \in ClaimRows
BY DEF ClaimRows, Statuses

\* A row whose check has moved on is a row.
LEMMA AutoRow ==
    ASSUME NEW row \in ClaimRows, NEW x \in Autos
    PROVE  [row EXCEPT !.auto = x] \in ClaimRows
BY DEF ClaimRows, Autos

\* A row whose check has ended is a row.
LEMMA VerdictRow ==
    ASSUME NEW row \in ClaimRows, NEW x \in Autos, NEW v \in {"none"} \union Verdicts, NEW b \in BOOLEAN
    PROVE  [row EXCEPT !.auto = x, !.verdict = v, !.stale = b] \in ClaimRows
BY DEF ClaimRows, Autos

\* A row after a check that failed is a row.
LEMMA SlotsRow ==
    ASSUME NEW row \in ClaimRows, NEW x \in Statuses, NEW b \in BOOLEAN, NEW n \in Int
    PROVE  [row EXCEPT !.status = x, !.soft = b, !.slots = n] \in ClaimRows
BY DEF ClaimRows, Statuses

\* A row after a decision is a row.
LEMMA DecidedRow ==
    ASSUME NEW row \in ClaimRows, NEW x \in Statuses, NEW t \in BOOLEAN, NEW b \in BOOLEAN
    PROVE  [row EXCEPT !.status = x, !.text = t, !.applying = b] \in ClaimRows
BY DEF ClaimRows, Statuses

\* A row after a refund is a row.
LEMMA RefundedRow ==
    ASSUME NEW row \in ClaimRows, NEW x \in Statuses, NEW b \in BOOLEAN
    PROVE  [row EXCEPT !.status = x, !.refunded = b] \in ClaimRows
BY DEF ClaimRows, Statuses

\* A row the seller closed is a row, with a text or without.
LEMMA ClosedRow ==
    ASSUME NEW row \in ClaimRows, NEW x \in Statuses
    PROVE  /\ Closed(row, x) \in ClaimRows
           /\ [Closed(row, x) EXCEPT !.text = TRUE] \in ClaimRows
<1>1. ASSUME NEW y \in Autos
      PROVE  [row EXCEPT !.status = x, !.auto = y] \in ClaimRows
  BY DEF ClaimRows, Statuses, Autos
<1>2. ASSUME NEW r \in ClaimRows PROVE [r EXCEPT !.text = TRUE] \in ClaimRows
  BY DEF ClaimRows
<1>3. "CANCELLED" \in Autos /\ row.auto \in Autos
  BY DEF Autos, ClaimRows
<1>4. Closed(row, x) \in ClaimRows
  BY <1>1, <1>3 DEF Closed
<1> QED
  BY <1>2, <1>4

\* A row that is rechecked is a row.
LEMMA RecheckedRow ==
    ASSUME NEW row \in ClaimRows, NEW x \in Statuses, NEW y \in Autos, NEW v \in {"none"} \union Verdicts,
           NEW p \in BOOLEAN, NEW b \in BOOLEAN
    PROVE  [row EXCEPT !.status = x, !.auto = y, !.verdict = v, !.applying = p, !.stale = b] \in ClaimRows
BY DEF ClaimRows, Statuses, Autos

\* A row whose flag or whose age changes is a row.
LEMMA FlagRow ==
    ASSUME NEW row \in ClaimRows, NEW b \in BOOLEAN
    PROVE  [row EXCEPT !.applying = b] \in ClaimRows /\ [row EXCEPT !.stale = b] \in ClaimRows
BY DEF ClaimRows

\* A request that moves on is a request.
LEMMA StageRow ==
    ASSUME NEW r \in Requests, NEW x \in Stages, NEW b \in BOOLEAN
    PROVE  /\ [r EXCEPT !.pc = x] \in Requests
           /\ [r EXCEPT !.pc = x, !.own = b] \in Requests
BY DEF Requests, Stages

\* The types of what an end of an apply writes.
LEMMA EndTypes ==
    ASSUME TypeOK, NEW a \in Appliers, NEW row \in ClaimRows, EndApply(a, row)
    PROVE  claim' \in [Claims -> ClaimRows] /\ applier' \in [Appliers -> ApplierRows]
<1>1. [row EXCEPT !.applying = FALSE] \in ClaimRows
  BY FlagRow
<1>2. Idle \in ApplierRows
  BY DEF Idle, ApplierRows, NoEntry, Unset
<1> QED
  BY <1>1, <1>2 DEF TypeOK, EndApply, ApplierRows

\* An apply works on a claim from its transaction A on, and knows where the claim goes
\* before its transaction B.
Working ==
    \A a \in Appliers :
        /\ applier[a].pc # "idle" => applier[a].c \in Claims
        /\ applier[a].pc = "idle" => applier[a].c = 0
        /\ applier[a].pc \in {"replace", "hold"} => applier[a].to # "NONE"

\* Every step keeps the types.
LEMMA TypeInductive == TypeOK /\ Working /\ [Next]_vars => TypeOK'
<1> SUFFICES ASSUME TypeOK, Working, [Next]_vars PROVE TypeOK'
  OBVIOUS
<1> DEFINE Rows == claim' \in [Claims -> ClaimRows]
<1>1. setting \in Settings /\ setting.attempts \in Nat \ {0} /\ setting.rechecks \in 0 .. MaxRechecks
  BY BoundsAssumption DEF TypeOK
<1>2. /\ 0 \in 0 .. setting.attempts /\ 1 \in 0 .. setting.attempts
      /\ setting.attempts \in 0 .. setting.attempts
      /\ \A n \in 0 .. setting.attempts : n > 0 => n - 1 \in 0 .. setting.attempts
  BY <1>1
<1>3. Idle \in ApplierRows /\ applier \in [Appliers -> ApplierRows]
  BY DEF Idle, ApplierRows, NoEntry, Unset, TypeOK
<1>4. ASSUME NEW c \in Claims, NEW row \in ClaimRows, claim' = [claim EXCEPT ![c] = row]
      PROVE  Rows
  BY <1>4 DEF TypeOK
<1>5. ASSUME NEW c \in Claims, NEW x \in Stages, NEW b \in BOOLEAN,
             \/ request' = [request EXCEPT ![c].pc = x]
             \/ request' = [request EXCEPT ![c].pc = x, ![c].own = b]
      PROVE  request' \in [Claims -> Requests]
  <2>1. request \in [Claims -> Requests]
    BY DEF TypeOK
  <2>2. request[c] \in Requests
    BY <2>1
  <2>3. CASE request' = [request EXCEPT ![c].pc = x]
    BY <2>1, <2>2, <2>3, StageRow
  <2>4. CASE request' = [request EXCEPT ![c].pc = x, ![c].own = b]
    <3>1. request' = [request EXCEPT ![c] = [request[c] EXCEPT !.pc = x, !.own = b]]
      BY <2>1, <2>2, <2>4 DEF Requests
    <3>2. [request[c] EXCEPT !.pc = x, !.own = b] \in Requests
      BY <2>2, StageRow
    <3> QED
      BY <2>1, <3>1, <3>2
  <2> QED
    BY <1>5, <2>3, <2>4
<1>6. ASSUME NEW c \in Claims, Submit(c) \/ RefuseClaim(c) PROVE TypeOK'
  <2>1. request' \in [Claims -> Requests]
    BY <1>5, <1>6 DEF Submit, RefuseClaim, Stages
  <2> QED
    BY <1>6, <2>1 DEF TypeOK, Submit, RefuseClaim
<1>7. ASSUME NEW c \in Claims, NEW bypass \in BOOLEAN, CreateClaim(c, bypass) PROVE TypeOK'
  <2>1. PICK old \in Claims : claim' = [d \in Claims |->
                     IF d = c
                     THEN [status |-> "PENDING",
                           auto |-> IF bypass THEN "COMPLETED" ELSE "QUEUED",
                           verdict |-> IF bypass THEN "dead" ELSE "none",
                           applying |-> FALSE, soft |-> FALSE,
                           slots |-> claim[old].slots, stale |-> ~bypass,
                           text |-> FALSE, refunded |-> FALSE]
                     ELSE IF d = old THEN [claim[d] EXCEPT !.status = "REJECTED"]
                     ELSE claim[d]]
    BY <1>7 DEF CreateClaim
  <2>2. [status |-> "PENDING", auto |-> IF bypass THEN "COMPLETED" ELSE "QUEUED",
         verdict |-> IF bypass THEN "dead" ELSE "none", applying |-> FALSE, soft |-> FALSE,
         slots |-> claim[old].slots, stale |-> ~bypass, text |-> FALSE, refunded |-> FALSE] \in ClaimRows
    BY DEF TypeOK, ClaimRows, Verdicts, Active
  <2>3. claim[old] \in ClaimRows /\ "REJECTED" \in Statuses
    BY DEF TypeOK, Statuses, Resolved
  <2>4. [claim[old] EXCEPT !.status = "REJECTED"] \in ClaimRows
    BY <2>3, StatusRow
  <2>5. Rows
    BY <2>1, <2>2, <2>4 DEF TypeOK
  <2>6. request' \in [Claims -> Requests] /\ calls' \in [Claims -> 0 .. setting.attempts]
    BY <1>2, <1>7 DEF CreateClaim, TypeOK, Requests
  <2> QED
    BY <1>7, <2>5, <2>6 DEF CreateClaim, TypeOK
<1>8. ASSUME NEW c \in Claims, NEW x \in Autos, claim' = [claim EXCEPT ![c].auto = x] PROVE Rows
  BY <1>4, <1>8, AutoRow DEF TypeOK
<1>9. ASSUME NEW c \in Claims, NEW as \in {"OVERLOADED", "FAILED"}, EnqueueRefused(c, as) PROVE TypeOK'
  <2>1. Rows
    BY <1>8, <1>9 DEF EnqueueRefused, Autos
  <2>2. request' \in [Claims -> Requests]
    BY <1>5, <1>9 DEF EnqueueRefused, Stages
  <2> QED
    BY <1>9, <2>1, <2>2 DEF EnqueueRefused, TypeOK
<1>10. ASSUME NEW c \in Claims, AddJob(c) PROVE TypeOK'
  <2>1. (job[c] = "none") \in BOOLEAN
    OBVIOUS
  <2>2. request' \in [Claims -> Requests]
    BY <1>5, <1>10, <2>1 DEF AddJob, Stages
  <2> QED
    BY <1>10, <2>2 DEF AddJob, TypeOK
<1>11. ASSUME NEW c \in Claims, OverHardCap(c) \/ Enqueued(c) PROVE TypeOK'
  <2>1. Rows
    BY <1>8, <1>11 DEF OverHardCap, Enqueued, Autos
  <2>2. request' \in [Claims -> Requests]
    BY <1>5, <1>11 DEF OverHardCap, Enqueued, Stages
  <2> QED
    BY <1>11, <2>1, <2>2 DEF OverHardCap, Enqueued, TypeOK
<1>12. ASSUME NEW c \in Claims, Refused(c) PROVE TypeOK'
  <2>1. claim[c] \in ClaimRows /\ claim[c].status \in Statuses /\ "PENDING_REVIEW" \in Statuses
    BY DEF TypeOK, ClaimRows, Statuses, Active
  <2>2. PICK x \in Statuses : claim' = [claim EXCEPT ![c] = [claim[c] EXCEPT !.status = x]]
    BY <1>12, <2>1 DEF Refused
  <2>3. Rows
    BY <1>4, <2>1, <2>2, StatusRow
  <2>4. request' \in [Claims -> Requests]
    BY <1>5, <1>12 DEF Refused, Stages
  <2> QED
    BY <1>12, <2>3, <2>4 DEF Refused, TypeOK
<1>13. ASSUME NEW c \in Claims, NEW auto \in {"COMPLETED", "FAILED"}, NEW verdict \in {"none"} \union Verdicts,
              CheckEnds(c, auto, verdict)
       PROVE  Rows /\ calls' \in [Claims -> 0 .. setting.attempts]
  <2>1. claim[c] \in ClaimRows /\ auto \in Autos
    BY DEF TypeOK, Autos
  <2>2. [claim[c] EXCEPT !.auto = auto, !.verdict = verdict, !.stale = FALSE] \in ClaimRows
    BY <2>1, VerdictRow
  <2>3. Rows
    <3>1. claim' = [claim EXCEPT ![c] = [claim[c] EXCEPT !.auto = auto, !.verdict = verdict, !.stale = FALSE]]
      BY <1>13, <2>1 DEF CheckEnds, TypeOK, ClaimRows
    <3> QED
      BY <1>4, <2>2, <3>1
  <2>4. calls' \in [Claims -> 0 .. setting.attempts]
    BY <1>2, <1>13 DEF CheckEnds, TypeOK
  <2> QED
    BY <2>3, <2>4
<1>14. ASSUME NEW c \in Claims, StartJob(c) \/ WorkerCrash(c) \/ CallbackLost(c) PROVE TypeOK'
  <2>1. Rows
    BY <1>8, <1>14 DEF StartJob, WorkerCrash, CallbackLost, Autos, TypeOK
  <2>2. calls' \in [Claims -> 0 .. setting.attempts]
    BY <1>2, <1>14 DEF StartJob, WorkerCrash, CallbackLost, TypeOK
  <2> QED
    BY <1>14, <2>1, <2>2 DEF StartJob, WorkerCrash, CallbackLost, TypeOK
<1>15. ASSUME NEW c \in Claims, ToolDisabled(c) \/ SweepStuck(c) \/ JobFailed(c) \/ FinishJob(c) PROVE TypeOK'
  <2>1. claim[c].verdict \in {"none"} \union Verdicts
    BY DEF TypeOK, ClaimRows
  <2>2. \/ CheckEnds(c, "FAILED", claim[c].verdict)
        \/ \E v \in Verdicts : CheckEnds(c, "COMPLETED", v)
        \/ UNCHANGED <<claim, calls>>
    BY <1>15 DEF ToolDisabled, SweepStuck, JobFailed, FinishJob, CheckOutcomes
  <2>3. Rows /\ calls' \in [Claims -> 0 .. setting.attempts]
    BY <1>13, <2>1, <2>2 DEF TypeOK
  <2>4. job' \in [Claims -> {"none", "waiting", "active", "stalled"}]
    BY <1>15 DEF ToolDisabled, SweepStuck, JobFailed, FinishJob, TypeOK
  <2> QED
    BY <1>15, <2>3, <2>4 DEF ToolDisabled, SweepStuck, JobFailed, FinishJob, TypeOK
<1>16. ASSUME NEW c \in Claims, NEW a \in Appliers, Callback(c, a) PROVE TypeOK'
  <2>1. \A x \in BOOLEAN : [claim[c] EXCEPT !.applying = x] \in ClaimRows
    BY FlagRow DEF TypeOK
  <2>2. \E x \in BOOLEAN : claim' = [claim EXCEPT ![c] = [claim[c] EXCEPT !.applying = x]]
    BY <1>16, Zenon DEF Callback
  <2>3. Rows
    BY <1>4, <2>1, <2>2
  <2>4. calls' \in [Claims -> 0 .. setting.attempts]
    BY <1>2, <1>16 DEF Callback, TypeOK
  <2>5. claim[c].auto \in {"COMPLETED", "FAILED"} =>
           [Idle EXCEPT !.pc = "apply", !.c = c, !.auto = claim[c].auto,
                        !.verdict = claim[c].verdict, !.slots = claim[c].slots] \in ApplierRows
    BY DEF TypeOK, ClaimRows, ApplierRows, Idle, NoEntry
  <2>6. applier' \in [Appliers -> ApplierRows]
    BY <1>3, <1>16, <2>5 DEF Callback
  <2> QED
    BY <1>16, <2>3, <2>4, <2>6 DEF Callback, TypeOK, ApplierRows
<1>17. ASSUME NEW a \in Appliers, NEW row \in ClaimRows, EndApply(a, row), paid' \in [Claims -> Nat],
              UNCHANGED <<mode, setting, request, job, calls, stock, handed, rechecks>>
       PROVE  TypeOK'
  <2>1. Rows /\ applier' \in [Appliers -> ApplierRows]
    BY <1>17, EndTypes
  <2> QED
    BY <1>17, <2>1 DEF TypeOK, ApplierRows
<1>18. ASSUME NEW a \in Appliers PROVE applier[a] \in ApplierRows
  BY <1>3
<1>19. ASSUME NEW a \in Appliers, applier[a].c \in Claims PROVE claim[applier[a].c] \in ClaimRows
  BY <1>19 DEF TypeOK
<1>20. {"REJECTED", "PENDING", "PENDING_REVIEW", "RESOLVED_MANUAL", "AUTO_RESOLVED"} \subseteq Statuses
  BY DEF Statuses, Active, Resolved
<1>21. ASSUME NEW a \in Appliers, applier[a].c \in Claims,
              ApplyToolFailed(a) \/ ApplyStillPaid(a) \/ ApplyUnclear(a) \/ RefundNothing(a) \/ RefundHeld(a)
       PROVE  TypeOK'
  <2>1. claim[applier[a].c] \in ClaimRows /\ claim[applier[a].c].status \in Statuses
    BY <1>19, <1>21 DEF ClaimRows, Statuses
  <2>2. SlotCount(applier[a]) \in Int /\ LastSlot(applier[a]) \in BOOLEAN
    BY <1>18, SlotsType DEF LastSlot
  <2>3. \E row \in ClaimRows : EndApply(a, row)
    <3>1. CASE ApplyToolFailed(a)
      <4>1. (IF LastSlot(applier[a]) THEN "PENDING_REVIEW" ELSE claim[applier[a].c].status) \in Statuses
        BY <1>20, <2>1
      <4>2. (~LastSlot(applier[a])) \in BOOLEAN
        OBVIOUS
      <4> QED
        BY <2>1, <2>2, <3>1, <4>1, <4>2, SlotsRow DEF ApplyToolFailed
    <3>2. CASE ApplyStillPaid(a) \/ ApplyUnclear(a) \/ RefundNothing(a) \/ RefundHeld(a)
      BY <1>20, <2>1, <3>2, StatusRow DEF ApplyStillPaid, ApplyUnclear, RefundNothing, RefundHeld
    <3> QED
      BY <1>21, <3>1, <3>2
  <2>4. paid' \in [Claims -> Nat] /\ UNCHANGED <<mode, setting, request, job, calls, stock, handed, rechecks>>
    BY <1>21 DEF TypeOK, ApplyToolFailed, ApplyStillPaid, ApplyUnclear, RefundNothing, RefundHeld
  <2> QED
    BY <1>17, <2>3, <2>4
<1>22. ASSUME NEW a \in Appliers, DecideClaimRoute(a) PROVE TypeOK'
  <2>1. ASSUME NEW st \in {"hold", "replace", "refund"}, NEW e \in Entries \union {NoEntry},
               NEW to \in {"NONE"} \union Active \union {"AUTO_RESOLVED"},
               applier' = [applier EXCEPT ![a].pc = st, ![a].entry = e, ![a].to = to]
        PROVE  applier' \in [Appliers -> ApplierRows]
    <3>1. applier' = [applier EXCEPT ![a] = [applier[a] EXCEPT !.pc = st, !.entry = e, !.to = to]]
      BY <1>3, <2>1 DEF ApplierRows
    <3>2. [applier[a] EXCEPT !.pc = st, !.entry = e, !.to = to] \in ApplierRows
      BY <1>18 DEF ApplierRows
    <3> QED
      BY <1>3, <3>1, <3>2
  <2>2. stock # {} => Min(stock) \in Entries
    BY MinIsMember, SetsAssumption DEF TypeOK
  <2>3. applier' \in [Appliers -> ApplierRows]
    BY <1>22, <2>1, <2>2 DEF DecideClaimRoute, Active
  <2> QED
    BY <1>22, <2>3 DEF DecideClaimRoute, TypeOK, ApplierRows
<1>23. ASSUME NEW a \in Appliers, applier[a].c \in Claims, CommitDecision(a) PROVE TypeOK'
  <2>1. claim[applier[a].c] \in ClaimRows
    BY <1>19, <1>23
  <2>2. applier[a].to \in Statuses
    BY <1>18 DEF ApplierRows, Statuses, Resolved
  <2>3. \E row \in ClaimRows : claim' = [claim EXCEPT ![applier[a].c] = row]
    <3>1. PICK x \in Statuses, t \in BOOLEAN :
               \/ claim' = [claim EXCEPT ![applier[a].c] = claim[applier[a].c]]
               \/ claim' = [claim EXCEPT ![applier[a].c] =
                               [claim[applier[a].c] EXCEPT !.status = x, !.text = t, !.applying = FALSE]]
      BY <1>20, <1>23, <2>2 DEF CommitDecision
    <3> QED
      BY <2>1, <3>1, DecidedRow
  <2>4. Rows
    BY <1>4, <1>23, <2>3
  <2>5. applier' \in [Appliers -> ApplierRows]
    BY <1>3, <1>23 DEF CommitDecision
  <2>6. handed' \in [Entries -> Nat] /\ paid' \in [Claims -> Nat] /\ stock' \subseteq Entries
    BY <1>23 DEF CommitDecision, TypeOK
  <2> QED
    BY <1>23, <2>4, <2>5, <2>6 DEF CommitDecision, TypeOK, ApplierRows
<1>24. ASSUME NEW a \in Appliers, applier[a].c \in Claims, RefundCredit(a) PROVE TypeOK'
  <2>1. claim[applier[a].c] \in ClaimRows
    BY <1>19, <1>24
  <2>2. CASE EndApply(a, [claim[applier[a].c] EXCEPT !.status = "RESOLVED_MANUAL", !.refunded = TRUE])
             /\ paid' = [paid EXCEPT ![applier[a].c] = @ + IF claim[applier[a].c].refunded THEN 0 ELSE 1]
    <3>1. [claim[applier[a].c] EXCEPT !.status = "RESOLVED_MANUAL", !.refunded = TRUE] \in ClaimRows
      BY <1>20, <2>1, RefundedRow
    <3>2. paid' \in [Claims -> Nat]
      <4>1. PICK n \in {0, 1} : paid' = [paid EXCEPT ![applier[a].c] = @ + n]
        BY <2>2, Zenon
      <4> QED
        BY <1>24, <4>1 DEF TypeOK
    <3> QED
      BY <1>17, <1>24, <2>2, <3>1, <3>2 DEF RefundCredit
  <2>3. CASE UNCHANGED paid /\ applier' = [applier EXCEPT ![a] = Idle]
             /\ claim' = [claim EXCEPT ![applier[a].c].applying = @ /\ claim[applier[a].c].status # "PENDING"]
    <3>1. PICK b \in BOOLEAN : claim' = [claim EXCEPT ![applier[a].c] = [claim[applier[a].c] EXCEPT !.applying = b]]
      BY <2>3, Zenon
    <3>2. Rows
      BY <1>4, <1>24, <2>1, <3>1, FlagRow
    <3>3. applier' \in [Appliers -> ApplierRows]
      BY <1>3, <2>3
    <3> QED
      BY <1>24, <2>3, <3>2, <3>3 DEF RefundCredit, TypeOK, ApplierRows
  <2> QED
    BY <1>24, <2>2, <2>3 DEF RefundCredit
<1>25. ASSUME NEW a \in Appliers, applier[a].c \in Claims, ApplyThrows(a) PROVE TypeOK'
  <2>1. PICK b \in BOOLEAN : claim' = [claim EXCEPT ![applier[a].c] = [claim[applier[a].c] EXCEPT !.applying = b]]
    BY <1>25, Zenon DEF ApplyThrows
  <2>2. Rows
    BY <1>4, <1>19, <1>25, <2>1, FlagRow
  <2>3. applier' \in [Appliers -> ApplierRows]
    BY <1>3, <1>25 DEF ApplyThrows
  <2> QED
    BY <1>25, <2>2, <2>3 DEF ApplyThrows, TypeOK, ApplierRows
<1>26. CASE ApiCrash
  <2>1. applier' \in [Appliers -> ApplierRows]
    BY <1>3, <1>26 DEF ApiCrash
  <2>2. request' \in [Claims -> Requests]
    BY <1>26 DEF ApiCrash, Requests
  <2> QED
    BY <1>26, <2>1, <2>2 DEF ApiCrash, TypeOK, ApplierRows
<1>27. ASSUME NEW c \in Claims, NEW e \in Entries \union {NoEntry}, ResolveClaimManually(c, e) PROVE TypeOK'
  <2>1. claim[c] \in ClaimRows
    BY DEF TypeOK
  <2>2. [Closed(claim[c], "RESOLVED_MANUAL") EXCEPT !.text = TRUE] \in ClaimRows
    BY <1>20, <2>1, ClosedRow
  <2>3. Rows
    BY <1>4, <1>27, <2>2 DEF ResolveClaimManually
  <2>4. handed' \in [Entries -> Nat] /\ paid' \in [Claims -> Nat] /\ stock' \subseteq Entries
    BY <1>27 DEF ResolveClaimManually, TypeOK
  <2> QED
    BY <1>27, <2>3, <2>4 DEF ResolveClaimManually, TypeOK
<1>28. ASSUME NEW c \in Claims, RejectClaim(c) \/ RecheckClaim(c) \/ FiveMinutesPass(c) PROVE TypeOK'
  <2>1. claim[c] \in ClaimRows /\ "NULL" \in Autos
    BY DEF TypeOK, Autos
  <2>2. Closed(claim[c], "REJECTED") \in ClaimRows
    BY <1>20, <2>1, ClosedRow
  <2>3. [claim[c] EXCEPT !.status = "PENDING", !.auto = "NULL", !.verdict = "none",
                         !.applying = FALSE, !.stale = TRUE] \in ClaimRows
    BY <1>20, <2>1, RecheckedRow
  <2>4. [claim[c] EXCEPT !.stale = TRUE] \in ClaimRows
    BY <2>1, FlagRow
  <2>5. Rows
    BY <1>4, <1>28, <2>2, <2>3, <2>4 DEF RejectClaim, RecheckClaim, FiveMinutesPass
  <2>6. request' \in [Claims -> Requests]
    <3>1. request \in [Claims -> Requests] /\ [pc |-> "adding", recheck |-> TRUE, own |-> FALSE] \in Requests
      BY DEF TypeOK, Requests
    <3> QED
      BY <1>28, <3>1 DEF RejectClaim, RecheckClaim, FiveMinutesPass
  <2>7. rechecks' \in 0 .. MaxRechecks
    BY <1>28, BoundsAssumption DEF RejectClaim, RecheckClaim, FiveMinutesPass, TypeOK
  <2> QED
    BY <1>28, <2>5, <2>6, <2>7 DEF RejectClaim, RecheckClaim, FiveMinutesPass, TypeOK
<1>29. CASE SellEntry
  <2>1. Min(stock) \in Entries
    BY <1>29, MinIsMember, SetsAssumption DEF SellEntry, TypeOK
  <2>2. handed' \in [Entries -> Nat]
    BY <1>29, <2>1 DEF SellEntry, TypeOK
  <2> QED
    BY <1>29, <2>2 DEF SellEntry, TypeOK
<1>30. CASE UNCHANGED vars
  BY <1>30 DEF TypeOK, vars
<1>31. ASSUME NEW a \in Appliers, Apply(a) \/ ApplyThrows(a) PROVE TypeOK'
  <2>1. CASE DecideClaimRoute(a)
    BY <1>22, <2>1
  <2>2. CASE ~DecideClaimRoute(a)
    <3>1. applier[a].pc # "idle"
      BY <1>31, <2>2 DEF Apply, ApplyThrows, ApplyToolFailed, ApplyStillPaid, ApplyUnclear, CommitDecision,
                         RefundNothing, RefundHeld, RefundCredit
    <3>2. applier[a].c \in Claims
      BY <3>1 DEF Working
    <3> QED
      BY <1>21, <1>23, <1>24, <1>25, <1>31, <2>2, <3>2 DEF Apply
  <2> QED
    BY <2>1, <2>2
<1>32. ASSUME NEW c \in Claims, Api(c) PROVE TypeOK'
  BY <1>6, <1>7, <1>9, <1>10, <1>11, <1>12, <1>32 DEF Api
<1>33. ASSUME NEW c \in Claims, People(c) PROVE TypeOK'
  BY <1>6, <1>27, <1>28, <1>33 DEF People
<1>34. ASSUME NEW c \in Claims, Worker(c) PROVE TypeOK'
  BY <1>14, <1>15, <1>34 DEF Worker
<1> QED
  BY <1>14, <1>16, <1>26, <1>29, <1>30, <1>31, <1>32, <1>33, <1>34 DEF Next

\* Every step keeps what is known about the running applies.
LEMMA WorkingInductive == TypeOK /\ Working /\ [Next]_vars => Working'
<1> SUFFICES ASSUME TypeOK, Working, [Next]_vars PROVE Working'
  OBVIOUS
<1>1. ASSUME UNCHANGED applier PROVE Working'
  BY <1>1 DEF Working
<1>2. applier \in [Appliers -> ApplierRows]
  BY DEF TypeOK, ApplierRows
<1>3. ASSUME NEW a \in Appliers, applier' = [applier EXCEPT ![a] = Idle] PROVE Working'
  BY <1>2, <1>3 DEF Working, Idle
<1>4. ASSUME NEW c \in Claims, NEW a \in Appliers, Callback(c, a) PROVE Working'
  <2>1. \/ UNCHANGED applier
        \/ applier' = [applier EXCEPT ![a] = [Idle EXCEPT !.pc = "apply", !.c = c, !.auto = claim[c].auto,
                                                          !.verdict = claim[c].verdict, !.slots = claim[c].slots]]
    BY <1>2, <1>4 DEF Callback
  <2> QED
    BY <1>1, <1>2, <2>1, ZenonT(60) DEF Working, Idle
<1>5. ASSUME NEW a \in Appliers, DecideClaimRoute(a) PROVE Working'
  <2>1. applier[a].c \in Claims
    BY <1>5 DEF DecideClaimRoute, Working
  <2>2. ASSUME NEW st, NEW e, NEW to, st # "idle", st # "refund" => to # "NONE",
               applier' = [applier EXCEPT ![a].pc = st, ![a].entry = e, ![a].to = to]
        PROVE  Working'
    <3>1. /\ applier'[a].pc = st /\ applier'[a].to = to /\ applier'[a].c = applier[a].c
          /\ \A b \in Appliers \ {a} : applier'[b] = applier[b]
      BY <1>2, <2>2 DEF ApplierRows
    <3> QED
      BY <2>1, <2>2, <3>1 DEF Working
  <2> DEFINE Goes(st, e, to) == applier' = [applier EXCEPT ![a].pc = st, ![a].entry = e, ![a].to = to]
  <2>3. \/ Goes("hold", NoEntry, "PENDING_MANUAL")
        \/ Goes("replace", Min(stock), "AUTO_RESOLVED")
        \/ Goes("refund", NoEntry, "NONE")
        \/ Goes("replace", NoEntry, "AUTO_RESOLVED")
        \/ Goes("hold", NoEntry, "PENDING_STOCK")
        \/ Goes("hold", NoEntry, "PENDING_REVIEW")
    BY <1>5, Zenon DEF DecideClaimRoute
  <2>4. ASSUME NEW st \in {"hold", "replace", "refund"}, NEW e, NEW to, st # "refund" => to # "NONE",
               Goes(st, e, to)
        PROVE  Working'
    BY <2>2, <2>4
  <2> HIDE DEF Goes
  <2> QED
    BY <2>3, <2>4
<1>6. ASSUME NEW a \in Appliers, Apply(a) \/ ApplyThrows(a) PROVE Working'
  BY <1>3, <1>5, <1>6 DEF Apply, ApplyThrows, ApplyToolFailed, ApplyStillPaid, ApplyUnclear, CommitDecision,
                          RefundNothing, RefundHeld, RefundCredit, EndApply
<1>7. CASE ApiCrash
  BY <1>7 DEF ApiCrash, Working, Idle
<1>8. ASSUME NEW c \in Claims, Api(c) \/ People(c) \/ Worker(c) \/ WorkerCrash(c) \/ CallbackLost(c)
      PROVE  UNCHANGED applier
  BY <1>8 DEF Api, People, Worker, WorkerCrash, CallbackLost, CreateClaim, RefuseClaim, EnqueueRefused, AddJob,
              OverHardCap, Enqueued, Refused, Submit, RejectClaim, RecheckClaim, FiveMinutesPass,
              ResolveClaimManually, StartJob, ToolDisabled, FinishJob, JobFailed, SweepStuck
<1>9. CASE SellEntry \/ UNCHANGED vars
  BY <1>1, <1>9 DEF SellEntry, vars
<1> QED
  BY <1>1, <1>4, <1>6, <1>7, <1>8, <1>9 DEF Next

\* The types and what the running applies know hold throughout.
LEMMA Basics == Spec => [](TypeOK /\ Working)
<1>1. Init => TypeOK /\ Working
  <2> SUFFICES ASSUME Init PROVE TypeOK /\ Working
    OBVIOUS
  <2>1. setting \in Settings /\ setting.rechecks \in 0 .. MaxRechecks /\ setting.attempts \in Nat \ {0}
    BY BoundsAssumption DEF Init
  <2>2. claim \in [Claims -> ClaimRows] /\ request \in [Claims -> Requests]
    BY DEF Init, ClaimRows, Requests, Unset
  <2>3. applier \in [Appliers -> ApplierRows] /\ Working
    BY DEF Init, ApplierRows, Idle, NoEntry, Unset, Working
  <2>4. calls \in [Claims -> 0 .. setting.attempts]
    BY <2>1 DEF Init
  <2> QED
    BY <2>1, <2>2, <2>3, <2>4 DEF Init, TypeOK, ApplierRows
<1>2. TypeOK /\ Working /\ [Next]_vars => (TypeOK /\ Working)'
  BY TypeInductive, WorkingInductive
<1> QED
  BY <1>1, <1>2, PTL DEF Spec

\* Every variable keeps its type, whatever the order of requests, jobs, callbacks, people,
\* exceptions and crashes.
THEOREM TypeCorrect == Spec => []TypeOK
BY Basics, PTL

\* A step that takes entries from the stock hands each out once.
LEMMA EntryInductive == TypeOK /\ EntryOnce /\ [Next]_vars => EntryOnce'
<1> SUFFICES ASSUME TypeOK, EntryOnce, [Next]_vars PROVE EntryOnce'
  OBVIOUS
<1>1. ASSUME UNCHANGED <<stock, handed>> PROVE EntryOnce'
  BY <1>1 DEF EntryOnce
<1>2. ASSUME NEW x, x \in stock \/ x \notin Entries,
             stock' = stock \ {x}, \A e \in Entries : handed'[e] = handed[e] + IF e = x THEN 1 ELSE 0
      PROVE  EntryOnce'
  BY <1>2 DEF EntryOnce, TypeOK
<1>3. NoEntry \notin Entries
  BY SetsAssumption DEF NoEntry
<1>4. ASSUME NEW a \in Appliers, CommitDecision(a) PROVE EntryOnce'
  <2>1. CASE handed' = [e \in Entries |-> handed[e] + 0] /\ UNCHANGED stock
    BY <2>1 DEF EntryOnce, TypeOK
  <2>2. CASE /\ applier[a].entry \in stock \/ applier[a].entry = NoEntry
             /\ stock' = stock \ {applier[a].entry}
             /\ handed' = [e \in Entries |-> handed[e] + IF e = applier[a].entry THEN 1 ELSE 0]
    BY <1>2, <1>3, <2>2
  <2> QED
    BY <1>4, <2>1, <2>2 DEF CommitDecision
<1>5. ASSUME NEW a \in Appliers, Apply(a) \/ ApplyThrows(a), ~CommitDecision(a) PROVE UNCHANGED <<stock, handed>>
  BY <1>5 DEF Apply, ApplyThrows, ApplyToolFailed, ApplyStillPaid, ApplyUnclear, DecideClaimRoute,
              RefundNothing, RefundHeld, RefundCredit
<1>6. ASSUME NEW c \in Claims, NEW e \in Entries \union {NoEntry}, ResolveClaimManually(c, e) PROVE EntryOnce'
  BY <1>2, <1>3, <1>6 DEF ResolveClaimManually
<1>7. ASSUME NEW c \in Claims, Api(c) \/ Worker(c) \/ WorkerCrash(c) \/ CallbackLost(c)
      PROVE  UNCHANGED <<stock, handed>>
  BY <1>7 DEF Api, Worker, WorkerCrash, CallbackLost, CreateClaim, RefuseClaim, EnqueueRefused, AddJob,
              OverHardCap, Enqueued, Refused, StartJob, ToolDisabled, FinishJob, JobFailed, SweepStuck
<1>8. ASSUME NEW c \in Claims, People(c) PROVE EntryOnce'
  BY <1>1, <1>6, <1>8 DEF People, Submit, RejectClaim, RecheckClaim, FiveMinutesPass
<1>9. CASE SellEntry
  <2>1. PICK x \in stock : x = Min(stock)
    BY <1>9, MinIsMember, SetsAssumption DEF SellEntry, TypeOK
  <2>2. x \in Entries /\ stock' = stock \ {x} /\ handed' = [handed EXCEPT ![x] = @ + 1]
    BY <1>9, <2>1 DEF SellEntry, TypeOK
  <2>3. \A e \in Entries : handed'[e] = handed[e] + IF e = x THEN 1 ELSE 0
    BY <2>2 DEF TypeOK
  <2> QED
    BY <1>2, <2>2, <2>3
<1>10. ASSUME NEW c \in Claims, NEW a \in Appliers, Callback(c, a) PROVE EntryOnce'
  BY <1>1, <1>10 DEF Callback
<1>11. CASE ApiCrash \/ UNCHANGED vars
  BY <1>1, <1>11 DEF ApiCrash, vars
<1> QED
  BY <1>1, <1>4, <1>5, <1>7, <1>8, <1>9, <1>10, <1>11 DEF Next

\* A stock entry is handed out at most once: a replacement chosen outside every lock is
\* looked at again in the transaction that takes it, buyers and the seller take what is there.
THEOREM EntryHandedOnce == Spec => []EntryOnce
<1>1. Init => EntryOnce
  BY DEF Init, EntryOnce
<1> QED
  BY <1>1, Basics, EntryInductive, PTL DEF Spec

-----------------------------------------------------------------------------
\* One apply at a time.

\* Two applies work on two claims.
Single == \A a, b \in Appliers : applier[a].c # 0 /\ applier[a].c = applier[b].c => a = b

\* Another recheck may still come.
Left == rechecks < MaxRechecks

\* While an apply runs its flag is up and, as long as a recheck may come, the check is not
\* five minutes old: the recheck does not take the claim away from it.
Flagged(a) ==
    applier[a].pc # "idle" => /\ claim[applier[a].c].applying
                              /\ Left => ~claim[applier[a].c].stale

\* A claim that is not opened yet has no check, no callback and no compensation.
Opening(c) ==
    /\ request[c].pc = "submitted" => claim[c].status = "NONE"
    /\ claim[c].status = "NONE" =>
           /\ ~claim[c].applying /\ claim[c].auto = "NULL"
           /\ calls[c] = 0 /\ job[c] = "none"
           /\ request[c].pc \in {"idle", "submitted"}

\* The check of the claim is over, and a callback may take the claim.
Ended(row) == row.auto \in {"COMPLETED", "FAILED"}

\* As long as a recheck may come, a callback that takes the claim is about a recent check.
Recent(c) == Left /\ calls[c] > 0 /\ ~claim[c].applying /\ Ended(claim[c]) => ~claim[c].stale

\* A request that opens a claim has no check yet; a recheck was counted.
Asked(c) ==
    /\ request[c].recheck => rechecks > 0
    /\ request[c].pc = "adding" /\ ~request[c].recheck => calls[c] = 0 /\ job[c] = "none"

\* A compensated claim is settled, and no apply works on a settled claim.
Settlement(c) ==
    /\ paid[c] = 0 \/ (paid[c] = 1 /\ claim[c].status \in Settled)
    /\ claim[c].status \in Settled => \A a \in Appliers : applier[a].c # c

\* What is said of one claim.
Sound(c) == Opening(c) /\ Recent(c) /\ Asked(c) /\ Settlement(c)

\* Inductive, as long as no apply takes five minutes and no recheck but the last one is
\* refused by the queue with an exception.
Guarded ==
    /\ Single
    /\ \A a \in Appliers : Flagged(a)
    /\ \A c \in Claims : Sound(c)

\* A recheck whose job could not be added: the row reads FAILED, without a completion time,
\* and callbacks of the earlier check can take it.
RecheckThrows(c) == request[c].recheck /\ EnqueueRefused(c, "FAILED")

\* A step about one claim that leaves the running applies alone keeps the invariant when it
\* keeps what is said of that claim, and of an apply of that claim.
LEMMA OneClaim ==
    ASSUME TypeOK, Guarded, NEW c \in Claims, UNCHANGED applier,
           \A d \in Claims \ {c} : /\ claim'[d] = claim[d] /\ request'[d] = request[d]
                                   /\ calls'[d] = calls[d] /\ job'[d] = job[d] /\ paid'[d] = paid[d],
           rechecks' \in {rechecks, rechecks + 1},
           \A a \in Appliers : applier[a].pc # "idle" /\ applier[a].c = c =>
                                   claim'[c].applying /\ (Left' => ~claim'[c].stale),
           Working, Sound(c)'
    PROVE  Guarded'
<1>0. Left' => Left
  BY BoundsAssumption DEF TypeOK, Left
<1>1. Single'
  BY DEF Guarded, Single
<1>2. ASSUME NEW a \in Appliers PROVE Flagged(a)'
  <2>1. CASE applier[a].pc = "idle"
    BY <2>1 DEF Flagged
  <2>2. CASE applier[a].pc # "idle" /\ applier[a].c = c
    BY <2>2 DEF Flagged
  <2>3. CASE applier[a].pc # "idle" /\ applier[a].c # c
    BY <1>0, <2>3 DEF Flagged, Guarded, Working
  <2> QED
    BY <2>1, <2>2, <2>3
<1>3. ASSUME NEW d \in Claims \ {c} PROVE Sound(d)'
  <2>1. Sound(d)
    BY DEF Guarded
  <2>2. Opening(d)' /\ Settlement(d)'
    BY <2>1 DEF Sound, Opening, Settlement
  <2>3. Recent(d)'
    BY <1>0, <2>1 DEF Sound, Recent
  <2>4. Asked(d)'
    BY <2>1 DEF Sound, Asked, TypeOK
  <2> QED
    BY <2>2, <2>3, <2>4 DEF Sound
<1> QED
  BY <1>1, <1>2, <1>3 DEF Guarded

\* A step that ends an apply keeps the invariant when it neither unopens the claim nor makes
\* its check older, and pays at most once, settling the claim.
LEMMA OneEnd ==
    ASSUME TypeOK, Working, Guarded, NEW a \in Appliers, NEW c \in Claims,
           applier[a].pc # "idle", applier[a].c = c, applier' = [applier EXCEPT ![a] = Idle],
           \A d \in Claims \ {c} : claim'[d] = claim[d] /\ paid'[d] = paid[d],
           UNCHANGED <<request, calls, job, rechecks>>,
           claim'[c].status # "NONE", claim'[c].stale = claim[c].stale,
           \/ paid'[c] = paid[c]
           \/ paid'[c] = paid[c] + 1 /\ claim'[c].status \in Settled
    PROVE  Guarded'
<1>1. applier'[a].pc = "idle" /\ applier'[a].c = 0 /\ \A b \in Appliers \ {a} : applier'[b] = applier[b]
  BY DEF TypeOK, Idle
<1>2. \A b \in Appliers \ {a} : applier[b].c # c
  BY SetsAssumption DEF Guarded, Single
<1>3. Single'
  BY <1>1 DEF Guarded, Single
<1>4. ASSUME NEW b \in Appliers PROVE Flagged(b)'
  <2>1. CASE b = a
    BY <1>1, <2>1 DEF Flagged
  <2>2. CASE b # a
    BY <1>1, <1>2, <2>2 DEF Flagged, Guarded, Working, Left
  <2> QED
    BY <2>1, <2>2
<1>5. claim[c].applying /\ (Left => ~claim[c].stale) /\ UNCHANGED Left
  BY DEF Guarded, Flagged, Left
<1>6. paid[c] = 0
  BY DEF Guarded, Sound, Settlement
<1>7. Opening(c)' /\ Asked(c)'
  BY <1>5 DEF Guarded, Sound, Opening, Asked
<1>8. Recent(c)'
  BY <1>5 DEF Recent
<1>9. Settlement(c)'
  <2>1. \A b \in Appliers : applier'[b].c # c
    BY <1>1, <1>2, SetsAssumption
  <2> QED
    BY <1>6, <2>1 DEF Settlement
<1>10. ASSUME NEW d \in Claims \ {c} PROVE Sound(d)'
  <2>1. Opening(d)' /\ Recent(d)' /\ Asked(d)'
    BY <1>5 DEF Guarded, Sound, Opening, Recent, Asked
  <2>2. \A b \in Appliers : applier'[b].c = applier[b].c \/ applier'[b].c = 0
    BY <1>1
  <2>3. Settlement(d)'
    BY <2>2, SetsAssumption DEF Guarded, Sound, Settlement
  <2> QED
    BY <2>1, <2>3 DEF Sound
<1> QED
  BY <1>3, <1>4, <1>7, <1>8, <1>9, <1>10 DEF Guarded, Sound

\* The steps of the customer, of the queue and of the worker keep the invariant, unless the
\* queue refuses a recheck although another one may come.
LEMMA QueueKeeps ==
    ASSUME TypeOK, Working, Guarded, NEW c \in Claims, RecheckThrows(c) => ~Left,
           \/ Submit(c) \/ RefuseClaim(c) \/ AddJob(c) \/ OverHardCap(c) \/ Enqueued(c) \/ Refused(c)
           \/ EnqueueRefused(c, "OVERLOADED") \/ EnqueueRefused(c, "FAILED")
           \/ Worker(c) \/ WorkerCrash(c) \/ CallbackLost(c)
    PROVE  Guarded'
<1>1. Opening(c) /\ Recent(c) /\ Asked(c) /\ Settlement(c) /\ \A a \in Appliers : Flagged(a)
  BY DEF Guarded, Sound
<1>2. /\ claim \in [Claims -> ClaimRows] /\ request \in [Claims -> Requests]
      /\ calls \in [Claims -> 0 .. setting.attempts] /\ setting.attempts \in Nat \ {0}
      /\ job \in [Claims -> {"none", "waiting", "active", "stalled"}]
      /\ \A d \in Claims : calls[d] \in Nat
      /\ rechecks \in Nat
  BY BoundsAssumption DEF TypeOK
<1>3. ASSUME UNCHANGED <<claim, calls, job, paid, rechecks, applier>>,
             NEW r \in Requests, request' = [request EXCEPT ![c] = r],
             r.recheck = request[c].recheck,
             r.pc = "idle" \/ (r.pc = "submitted" /\ claim[c].status = "NONE")
      PROVE  Guarded'
  <2>1. Opening(c)'
    BY <1>1, <1>2, <1>3 DEF Opening
  <2>2. Recent(c)' /\ Asked(c)' /\ Settlement(c)'
    BY <1>1, <1>2, <1>3 DEF Recent, Left, Asked, Settlement
  <2>3. \A a \in Appliers : applier[a].pc # "idle" /\ applier[a].c = c =>
                                   claim'[c].applying /\ (Left' => ~claim'[c].stale)
    BY <1>1, <1>3 DEF Flagged, Left
  <2> QED
    BY <1>2, <1>3, <2>1, <2>2, <2>3, OneClaim DEF Sound
<1>4. CASE Submit(c) \/ RefuseClaim(c)
  <2>1. PICK x \in {"idle", "submitted"} :
             /\ request' = [request EXCEPT ![c] = [request[c] EXCEPT !.pc = x]]
             /\ x = "submitted" => claim[c].status = "NONE"
    BY <1>4 DEF Submit, RefuseClaim
  <2>2. /\ [request[c] EXCEPT !.pc = x] \in Requests /\ [request[c] EXCEPT !.pc = x].pc = x
        /\ [request[c] EXCEPT !.pc = x].recheck = request[c].recheck
    BY <1>2 DEF Requests
  <2>3. UNCHANGED <<claim, calls, job, paid, rechecks, applier>>
    BY <1>4 DEF Submit, RefuseClaim
  <2> QED
    BY <1>3, <2>1, <2>2, <2>3
\* The other steps are about a claim that is open.
<1>5. ASSUME claim[c].status # "NONE", UNCHANGED <<paid, rechecks, applier>>,
             NEW row \in ClaimRows, claim' = [claim EXCEPT ![c] = row],
             row.applying = claim[c].applying,
             row.status = claim[c].status \/ (claim[c].status = "PENDING" /\ row.status = "PENDING_REVIEW"),
             row.stale => claim[c].stale,
             \/ ~row.stale
             \/ (Ended(row) => Ended(claim[c])) /\ calls'[c] <= calls[c]
             \/ calls'[c] = 0 \/ ~Left,
             calls'[c] \in Nat,
             request'[c].pc # "submitted",
             request'[c].recheck => request[c].recheck,
             request'[c].pc = "adding" => request'[c].recheck,
             \A d \in Claims \ {c} : /\ request'[d] = request[d]
                                     /\ calls'[d] = calls[d] /\ job'[d] = job[d]
      PROVE  Guarded'
  <2>1. claim'[c] = row /\ \A d \in Claims \ {c} : claim'[d] = claim[d]
    BY <1>2, <1>5
  <2>2. Opening(c)'
    BY <1>5, <2>1 DEF Opening
  <2>3. Recent(c)'
    <3>1. CASE ~row.stale
      BY <2>1, <3>1 DEF Recent
    <3>2. CASE (Ended(row) => Ended(claim[c])) /\ calls'[c] <= calls[c]
      BY <1>1, <1>2, <1>5, <2>1, <3>2 DEF Recent, Left
    <3>3. CASE calls'[c] = 0 \/ ~Left
      BY <1>5, <3>3 DEF Recent, Left
    <3> QED
      BY <1>5, <3>1, <3>2, <3>3
  <2>4. Settlement(c)'
    BY <1>1, <1>5, <2>1 DEF Settlement, Settled
  <2>5. Asked(c)'
    BY <1>1, <1>5 DEF Asked
  <2>6. \A a \in Appliers : applier[a].pc # "idle" /\ applier[a].c = c =>
                                   claim'[c].applying /\ (Left' => ~claim'[c].stale)
    BY <1>1, <1>5, <2>1 DEF Flagged, Left
  <2> QED
    BY <1>2, <1>5, <2>1, <2>2, <2>3, <2>4, <2>5, <2>6, OneClaim DEF Sound
<1>6. CASE AddJob(c)
  <2>1. claim[c].status # "NONE" /\ request'[c].pc = "added" /\ request'[c].recheck = request[c].recheck
    BY <1>1, <1>2, <1>6 DEF AddJob, Opening, Requests
  <2>2. claim[c] \in ClaimRows /\ claim' = [claim EXCEPT ![c] = claim[c]]
    BY <1>2, <1>6 DEF AddJob
  <2>3. calls'[c] \in Nat /\ calls'[c] <= calls[c]
        /\ \A d \in Claims \ {c} : request'[d] = request[d] /\ calls'[d] = calls[d] /\ job'[d] = job[d]
    BY <1>2, <1>6 DEF AddJob
  <2>4. UNCHANGED <<paid, rechecks, applier>>
    BY <1>6 DEF AddJob
  <2> QED
    BY <1>5, <2>1, <2>2, <2>3, <2>4
<1>7. ASSUME NEW x \in Autos, claim' = [claim EXCEPT ![c].auto = x],
             request'[c].pc # "submitted", claim[c].status # "NONE",
             request'[c].recheck = request[c].recheck,
             request'[c].pc = "adding" => request'[c].recheck,
             x \notin {"COMPLETED", "FAILED"} \/ calls[c] = 0 \/ ~Left,
             UNCHANGED <<calls, paid, rechecks, applier>>,
             \A d \in Claims \ {c} : request'[d] = request[d] /\ job'[d] = job[d]
      PROVE  Guarded'
  <2>1. PICK row \in ClaimRows : /\ claim' = [claim EXCEPT ![c] = row] /\ row.applying = claim[c].applying
                                 /\ row.status = claim[c].status /\ row.stale = claim[c].stale
                                 /\ row.auto = x
    <3>1. [claim[c] EXCEPT !.auto = x] \in ClaimRows
      BY <1>2, AutoRow
    <3> QED
      BY <1>2, <1>7, <3>1 DEF ClaimRows
  <2>2. calls'[c] \in Nat /\ calls'[c] <= calls[c] /\ \A d \in Claims \ {c} : calls'[d] = calls[d]
    BY <1>2, <1>7
  <2> QED
    BY <1>5, <1>7, <2>1, <2>2 DEF Ended
<1>8. CASE OverHardCap(c) \/ Enqueued(c)
  <2>1. claim[c].status # "NONE" /\ request'[c].pc \in {"refused", "idle"}
        /\ request'[c].recheck = request[c].recheck
        /\ \A d \in Claims \ {c} : request'[d] = request[d] /\ job'[d] = job[d]
    BY <1>1, <1>2, <1>8 DEF OverHardCap, Enqueued, Opening, Requests
  <2>2. \E x \in Autos \ {"COMPLETED", "FAILED"} : claim' = [claim EXCEPT ![c].auto = x]
    BY <1>8 DEF OverHardCap, Enqueued, Autos
  <2>3. UNCHANGED <<calls, paid, rechecks, applier>>
    BY <1>8 DEF OverHardCap, Enqueued
  <2> QED
    BY <1>7, <2>1, <2>2, <2>3
<1>9. CASE EnqueueRefused(c, "OVERLOADED") \/ EnqueueRefused(c, "FAILED")
  <2>1. claim[c].status # "NONE" /\ request'[c].pc = "refused"
        /\ request'[c].recheck = request[c].recheck
        /\ \A d \in Claims \ {c} : request'[d] = request[d] /\ job'[d] = job[d]
    BY <1>1, <1>2, <1>9 DEF EnqueueRefused, Opening, Requests
  <2>2. \E x \in Autos : /\ claim' = [claim EXCEPT ![c].auto = x]
                         /\ x \notin {"COMPLETED", "FAILED"} \/ calls[c] = 0 \/ ~Left
    <3>1. CASE EnqueueRefused(c, "OVERLOADED")
      BY <3>1 DEF EnqueueRefused, Autos
    <3>2. CASE EnqueueRefused(c, "FAILED")
      BY <1>1, <3>2 DEF EnqueueRefused, Autos, Asked, RecheckThrows
    <3> QED
      BY <1>9, <3>1, <3>2
  <2>3. UNCHANGED <<calls, paid, rechecks, applier>>
    BY <1>9 DEF EnqueueRefused
  <2> QED
    BY <1>7, <2>1, <2>2, <2>3
<1>10. CASE StartJob(c)
  <2>1. claim[c].status # "NONE" /\ request'[c].pc # "submitted" /\ request' = request
        /\ (request'[c].pc = "adding" => request'[c].recheck)
        /\ \A d \in Claims \ {c} : request'[d] = request[d] /\ job'[d] = job[d]
    BY <1>1, <1>2, <1>10 DEF StartJob, Opening, Asked
  <2>2. \E x \in Autos \ {"COMPLETED", "FAILED"} : claim' = [claim EXCEPT ![c].auto = x]
    BY <1>10 DEF StartJob, Autos
  <2>3. UNCHANGED <<calls, paid, rechecks, applier>>
    BY <1>10 DEF StartJob
  <2> QED
    BY <1>7, <2>1, <2>2, <2>3
<1>11. CASE Refused(c)
  <2>1. claim[c].status # "NONE" /\ request'[c].pc = "idle"
        /\ request'[c].recheck = request[c].recheck
        /\ \A d \in Claims \ {c} : request'[d] = request[d] /\ job'[d] = job[d]
    BY <1>1, <1>2, <1>11 DEF Refused, Opening, Requests
  <2>2. PICK x \in Statuses : /\ claim' = [claim EXCEPT ![c] = [claim[c] EXCEPT !.status = x]]
                              /\ x = claim[c].status \/ (claim[c].status = "PENDING" /\ x = "PENDING_REVIEW")
    <3>1. claim[c].status \in Statuses /\ "PENDING_REVIEW" \in Statuses
      BY <1>2 DEF ClaimRows, Statuses, Active
    <3> QED
      BY <1>11, <3>1 DEF Refused
  <2>3. PICK row \in ClaimRows : /\ claim' = [claim EXCEPT ![c] = row] /\ row.applying = claim[c].applying
                                 /\ row.status = x /\ row.stale = claim[c].stale
                                 /\ row.auto = claim[c].auto
    <3>1. [claim[c] EXCEPT !.status = x] \in ClaimRows
      BY <1>2, StatusRow
    <3> QED
      BY <1>2, <2>2, <3>1 DEF ClaimRows
  <2>4. UNCHANGED <<calls, paid, rechecks, applier>>
    BY <1>11 DEF Refused
  <2>5. calls'[c] \in Nat /\ calls'[c] <= calls[c] /\ \A d \in Claims \ {c} : calls'[d] = calls[d]
    BY <1>2, <2>4
  <2> QED
    BY <1>5, <2>1, <2>2, <2>3, <2>4, <2>5 DEF Ended
<1>12. ASSUME claim[c].status # "NONE", request[c].pc = "adding" => request[c].recheck,
              NEW x \in {"COMPLETED", "FAILED"}, NEW v \in {"none"} \union Verdicts,
              CheckEnds(c, x, v), UNCHANGED <<request, paid, rechecks, applier>>,
              \A d \in Claims \ {c} : job'[d] = job[d]
       PROVE  Guarded'
  <2>1. PICK row \in ClaimRows : /\ claim' = [claim EXCEPT ![c] = row] /\ row.applying = claim[c].applying
                                 /\ row.status = claim[c].status /\ ~row.stale
    <3>1. [claim[c] EXCEPT !.auto = x, !.verdict = v, !.stale = FALSE] \in ClaimRows
      BY <1>2, VerdictRow DEF Autos
    <3>2. claim' = [claim EXCEPT ![c] = [claim[c] EXCEPT !.auto = x, !.verdict = v, !.stale = FALSE]]
      BY <1>2, <1>12 DEF CheckEnds, ClaimRows
    <3> QED
      BY <1>2, <3>1, <3>2 DEF ClaimRows
  <2>2. calls'[c] \in Nat /\ \A d \in Claims \ {c} : calls'[d] = calls[d]
    BY <1>2, <1>12 DEF CheckEnds
  <2>3. request'[c].pc # "submitted"
    BY <1>1, <1>12 DEF Opening
  <2> QED
    BY <1>5, <1>12, <2>1, <2>2, <2>3
<1>13. ASSUME claim[c].status # "NONE", request[c].pc = "adding" => request[c].recheck,
              UNCHANGED <<claim, request, paid, rechecks, applier>>,
              calls'[c] \in Nat, calls'[c] <= calls[c],
              \A d \in Claims \ {c} : calls'[d] = calls[d] /\ job'[d] = job[d]
       PROVE  Guarded'
  <2>1. claim[c] \in ClaimRows /\ claim' = [claim EXCEPT ![c] = claim[c]]
    BY <1>2, <1>13
  <2>2. request'[c].pc # "submitted"
    BY <1>1, <1>13 DEF Opening
  <2> QED
    BY <1>5, <1>13, <2>1, <2>2
<1>14. CASE ToolDisabled(c) \/ SweepStuck(c) \/ JobFailed(c) \/ FinishJob(c)
  <2>1. claim[c].status # "NONE" /\ (request[c].pc = "adding" => request[c].recheck)
    BY <1>1, <1>14 DEF Opening, Asked, ToolDisabled, SweepStuck, JobFailed, FinishJob, InFlight
  <2>2. \/ CheckEnds(c, "FAILED", claim[c].verdict)
        \/ \E v \in Verdicts : CheckEnds(c, "COMPLETED", v)
        \/ UNCHANGED <<claim, calls>>
    BY <1>14 DEF ToolDisabled, SweepStuck, JobFailed, FinishJob, CheckOutcomes
  <2>3. UNCHANGED <<request, paid, rechecks, applier>> /\ \A d \in Claims \ {c} : job'[d] = job[d]
    BY <1>2, <1>14 DEF ToolDisabled, SweepStuck, JobFailed, FinishJob
  <2>4. claim[c].verdict \in {"none"} \union Verdicts
    BY <1>2 DEF ClaimRows
  <2>5. CASE UNCHANGED <<claim, calls>>
    BY <1>2, <1>13, <2>1, <2>3, <2>5
  <2> QED
    BY <1>12, <2>1, <2>2, <2>3, <2>4, <2>5
<1>15. CASE WorkerCrash(c) \/ CallbackLost(c)
  <2>1. claim[c].status # "NONE" /\ (request[c].pc = "adding" => request[c].recheck)
    BY <1>1, <1>15 DEF Opening, Asked, WorkerCrash, CallbackLost
  <2>2. calls'[c] \in Nat /\ calls'[c] <= calls[c]
        /\ \A d \in Claims \ {c} : calls'[d] = calls[d] /\ job'[d] = job[d]
    BY <1>2, <1>15 DEF WorkerCrash, CallbackLost
  <2> QED
    BY <1>13, <1>15, <2>1, <2>2 DEF WorkerCrash, CallbackLost
<1> QED
  BY <1>4, <1>6, <1>8, <1>9, <1>10, <1>11, <1>14, <1>15 DEF Worker

\* The steps of the seller keep the invariant, as long as no apply takes five minutes.
LEMMA SellerKeeps ==
    ASSUME "slow" \notin Faults, TypeOK, Working, Guarded, NEW c \in Claims,
           \/ RejectClaim(c) \/ RecheckClaim(c) \/ FiveMinutesPass(c)
           \/ \E e \in Entries \union {NoEntry} : ResolveClaimManually(c, e)
    PROVE  Guarded'
<1>1. Opening(c) /\ Recent(c) /\ Asked(c) /\ Settlement(c) /\ \A a \in Appliers : Flagged(a)
  BY DEF Guarded, Sound
<1>2. /\ claim \in [Claims -> ClaimRows] /\ request \in [Claims -> Requests]
      /\ paid \in [Claims -> Nat] /\ rechecks \in Nat
  BY BoundsAssumption DEF TypeOK
<1>3. 0 \notin Claims
  BY SetsAssumption
<1>4. ASSUME ~claim[c].applying PROVE \A a \in Appliers : applier[a].c # c
  BY <1>1, <1>3, <1>4 DEF Flagged, Working
<1>5. CASE RejectClaim(c)
  <2>1. MayClose(claim[c]) /\ claim' = [claim EXCEPT ![c] = Closed(claim[c], "REJECTED")]
    BY <1>5 DEF RejectClaim
  <2>2. claim'[c].status = "REJECTED" /\ claim'[c].stale = claim[c].stale /\ ~claim'[c].applying
        /\ (Ended(claim'[c]) => Ended(claim[c])) /\ \A d \in Claims \ {c} : claim'[d] = claim[d]
    BY <1>2, <2>1 DEF MayClose, Closed, ClaimRows, Ended
  <2>3. claim[c].status \notin {"NONE"} \union Settled
    BY <2>1 DEF MayClose, Active, Settled
  <2>4. Opening(c)' /\ Recent(c)' /\ Asked(c)'
    BY <1>1, <1>5, <2>1, <2>2, <2>3 DEF RejectClaim, Opening, Recent, Left, Asked, MayClose
  <2>5. Settlement(c)'
    BY <1>1, <1>5, <2>2, <2>3 DEF Settlement, RejectClaim, Settled
  <2> QED
    BY <1>2, <1>4, <1>5, <2>1, <2>2, <2>4, <2>5, OneClaim DEF RejectClaim, MayClose, Sound
<1>6. ASSUME NEW e \in Entries \union {NoEntry}, ResolveClaimManually(c, e) PROVE Guarded'
  <2>1. /\ MayClose(claim[c])
        /\ claim' = [claim EXCEPT ![c] = [Closed(claim[c], "RESOLVED_MANUAL") EXCEPT !.text = TRUE]]
    BY <1>6 DEF ResolveClaimManually
  <2>2. claim'[c].status = "RESOLVED_MANUAL" /\ claim'[c].stale = claim[c].stale /\ ~claim'[c].applying
        /\ (Ended(claim'[c]) => Ended(claim[c])) /\ \A d \in Claims \ {c} : claim'[d] = claim[d]
    BY <1>2, <2>1 DEF MayClose, Closed, ClaimRows, Ended
  <2>3. claim[c].status \notin {"NONE"} \union Settled
    BY <2>1 DEF MayClose, Active, Settled
  <2>4. Opening(c)' /\ Recent(c)' /\ Asked(c)'
    BY <1>1, <1>6, <2>1, <2>2, <2>3 DEF ResolveClaimManually, Opening, Recent, Left, Asked, MayClose
  <2>5. Settlement(c)'
    BY <1>1, <1>2, <1>4, <1>6, <2>1, <2>2, <2>3 DEF Settlement, ResolveClaimManually, MayClose, Settled
  <2>6. \A d \in Claims \ {c} : paid'[d] = paid[d]
    BY <1>2, <1>6 DEF ResolveClaimManually
  <2> QED
    BY <1>2, <1>4, <1>6, <2>1, <2>2, <2>4, <2>5, <2>6, OneClaim DEF ResolveClaimManually, MayClose, Sound
<1>7. CASE RecheckClaim(c)
  <2>1. Left /\ rechecks' = rechecks + 1
    BY <1>7 DEF RecheckClaim, Left
  <2>2. /\ claim' = [claim EXCEPT ![c] = [claim[c] EXCEPT !.status = "PENDING", !.auto = "NULL", !.verdict = "none",
                                                          !.applying = FALSE, !.stale = TRUE]]
        /\ request' = [request EXCEPT ![c] = [pc |-> "adding", recheck |-> TRUE, own |-> FALSE]]
        /\ claim[c].status \in Active /\ (claim[c].applying => claim[c].stale)
    BY <1>7 DEF RecheckClaim
  <2>3. \A a \in Appliers : applier[a].c # c
    BY <1>1, <1>3, <2>1, <2>2 DEF Flagged, Working
  <2>4. claim'[c].status = "PENDING" /\ claim'[c].auto = "NULL"
        /\ request'[c].pc = "adding" /\ request'[c].recheck
        /\ \A d \in Claims \ {c} : claim'[d] = claim[d] /\ request'[d] = request[d]
    BY <1>2, <2>2 DEF ClaimRows
  <2>5. Opening(c)' /\ Recent(c)' /\ Asked(c)'
    BY <1>2, <2>1, <2>4 DEF Opening, Recent, Ended, Asked
  <2>6. Settlement(c)'
    BY <1>1, <1>7, <2>2, <2>4 DEF Settlement, Settled, Active, RecheckClaim
  <2> QED
    BY <1>7, <2>1, <2>3, <2>4, <2>5, <2>6, OneClaim DEF RecheckClaim, Sound
<1>8. CASE FiveMinutesPass(c)
  <2>1. claim[c].applying /\ claim' = [claim EXCEPT ![c] = [claim[c] EXCEPT !.stale = TRUE]]
    BY <1>8 DEF FiveMinutesPass
  <2>2. \A a \in Appliers : applier[a].c # c
    BY <1>8 DEF FiveMinutesPass, Live
  <2>3. claim'[c].applying /\ claim'[c].status = claim[c].status
        /\ \A d \in Claims \ {c} : claim'[d] = claim[d]
    BY <1>2, <2>1 DEF ClaimRows
  <2>4. claim[c].status # "NONE"
    BY <1>1, <2>1 DEF Opening
  <2>5. Opening(c)' /\ Recent(c)' /\ Asked(c)'
    BY <1>1, <1>8, <2>3, <2>4 DEF Opening, Recent, Asked, FiveMinutesPass
  <2>6. Settlement(c)'
    BY <1>1, <1>8, <2>3 DEF Settlement, FiveMinutesPass
  <2> QED
    BY <1>2, <1>8, <2>2, <2>3, <2>5, <2>6, OneClaim DEF FiveMinutesPass, Sound
<1> QED
  BY <1>5, <1>6, <1>7, <1>8

\* Opening a claim, and closing the one it replaces, keeps the invariant.
LEMMA CreateKeeps ==
    ASSUME TypeOK, Working, Guarded, NEW c \in Claims, NEW bypass \in BOOLEAN, CreateClaim(c, bypass)
    PROVE  Guarded'
<1>1. \A a \in Appliers : Flagged(a)
  BY DEF Guarded
<1>2. /\ claim \in [Claims -> ClaimRows] /\ request \in [Claims -> Requests]
      /\ calls \in [Claims -> 0 .. setting.attempts] /\ 0 \notin Claims
  BY SetsAssumption DEF TypeOK
<1>3. /\ claim[c].status = "NONE" /\ ~claim[c].applying /\ calls[c] = 0 /\ paid[c] = 0
      /\ job[c] = "none"
  BY DEF CreateClaim, Guarded, Sound, Opening, Settlement, Settled
<1>4. \A a \in Appliers : applier[a].c # c
  BY <1>1, <1>2, <1>3 DEF Flagged, Working
<1>5. PICK old \in Claims :
           /\ old # c => claim[old].status \in Active
           /\ claim' = [d \in Claims |->
                     IF d = c
                     THEN [status |-> "PENDING",
                           auto |-> IF bypass THEN "COMPLETED" ELSE "QUEUED",
                           verdict |-> IF bypass THEN "dead" ELSE "none",
                           applying |-> FALSE, soft |-> FALSE,
                           slots |-> claim[old].slots, stale |-> ~bypass,
                           text |-> FALSE, refunded |-> FALSE]
                     ELSE IF d = old THEN [claim[d] EXCEPT !.status = "REJECTED"]
                     ELSE claim[d]]
  BY DEF CreateClaim
<1>6. UNCHANGED <<applier, job, paid, rechecks>>
  BY DEF CreateClaim
<1>7. claim'[c].status = "PENDING" /\ claim'[c].stale = ~bypass
  BY <1>5
<1>8. request'[c].pc \in {"idle", "adding"} /\ (request'[c].pc = "adding" => ~bypass)
      /\ ~request'[c].recheck /\ \A d \in Claims \ {c} : request'[d] = request[d]
  BY <1>2 DEF CreateClaim
<1>9. calls'[c] = (IF bypass THEN 1 ELSE 0) /\ \A d \in Claims \ {c} : calls'[d] = calls[d]
  BY <1>2, <1>3 DEF CreateClaim
<1>10. Sound(c)'
  <2>1. Opening(c)'
    BY <1>7, <1>8 DEF Opening
  <2>2. Recent(c)'
    <3>1. CASE bypass
      BY <1>7, <3>1 DEF Recent
    <3>2. CASE ~bypass
      BY <1>9, <3>2 DEF Recent
    <3> QED
      BY <3>1, <3>2
  <2>3. Settlement(c)'
    BY <1>3, <1>6, <1>7 DEF Settlement, Settled
  <2>4. Asked(c)'
    BY <1>3, <1>6, <1>8, <1>9 DEF Asked
  <2> QED
    BY <2>1, <2>2, <2>3, <2>4 DEF Sound
<1>11. ASSUME NEW d \in Claims \ {c}
       PROVE  /\ claim'[d].applying = claim[d].applying /\ claim'[d].stale = claim[d].stale
              /\ claim'[d].auto = claim[d].auto
              /\ \/ claim'[d].status = claim[d].status
                 \/ claim'[d].status = "REJECTED" /\ claim[d].status \in Active
  BY <1>2, <1>5 DEF ClaimRows
<1>12. ASSUME NEW d \in Claims \ {c} PROVE Sound(d)'
  <2>1. Opening(d) /\ Recent(d) /\ Asked(d) /\ Settlement(d)
    BY DEF Guarded, Sound
  <2>2. Opening(d)'
    BY <1>6, <1>8, <1>9, <1>11, <2>1 DEF Opening, Active
  <2>3. Recent(d)'
    BY <1>6, <1>9, <1>11, <2>1 DEF Recent, Left, Ended
  <2>4. Settlement(d)'
    BY <1>6, <1>11, <2>1 DEF Settlement, Settled, Active
  <2>5. Asked(d)'
    BY <1>6, <1>8, <1>9, <2>1 DEF Asked
  <2> QED
    BY <2>2, <2>3, <2>4, <2>5 DEF Sound
<1>13. Single'
  BY <1>6 DEF Guarded, Single
<1>14. ASSUME NEW a \in Appliers PROVE Flagged(a)'
  BY <1>1, <1>4, <1>6, <1>11 DEF Flagged, Left, Working
<1> QED
  BY <1>10, <1>12, <1>13, <1>14 DEF Guarded

\* Transaction A keeps the invariant: it takes a claim whose flag is down, and puts it up.
LEMMA CallbackKeeps ==
    ASSUME TypeOK, Working, Guarded, NEW c \in Claims, NEW a \in Appliers, Callback(c, a)
    PROVE  Guarded'
<1>1. Single /\ Opening(c) /\ Recent(c) /\ Asked(c) /\ Settlement(c) /\ \A b \in Appliers : Flagged(b)
  BY DEF Guarded, Sound
<1>2. /\ claim \in [Claims -> ClaimRows] /\ applier \in [Appliers -> ApplierRows]
      /\ calls \in [Claims -> 0 .. setting.attempts] /\ 0 \notin Claims /\ setting.attempts \in Nat
      /\ \A d \in Claims : calls[d] \in Nat
  BY SetsAssumption, BoundsAssumption DEF TypeOK, ApplierRows
<1>3. UNCHANGED <<request, job, paid, rechecks>> /\ calls[c] > 0 /\ applier[a].pc = "idle" /\ UNCHANGED Left
  BY DEF Callback, Left
<1>4. calls'[c] \in Nat /\ calls'[c] <= calls[c] /\ \A d \in Claims \ {c} : calls'[d] = calls[d]
  BY <1>2 DEF Callback
<1>5. claim[c].status # "NONE"
  BY <1>1, <1>3 DEF Opening
<1>6. CASE claim' = [claim EXCEPT ![c].applying = @ \/ FALSE] /\ UNCHANGED applier
  <2>1. claim'[c].applying = claim[c].applying /\ claim'[c].stale = claim[c].stale
        /\ claim'[c].status = claim[c].status /\ claim'[c].auto = claim[c].auto
        /\ \A d \in Claims \ {c} : claim'[d] = claim[d]
    BY <1>2, <1>6 DEF ClaimRows
  <2>2. Opening(c)' /\ Recent(c)' /\ Asked(c)'
    BY <1>1, <1>2, <1>3, <1>4, <1>5, <2>1 DEF Opening, Recent, Ended, Asked
  <2>3. Settlement(c)'
    BY <1>1, <1>3, <1>6, <2>1 DEF Settlement
  <2>4. \A b \in Appliers : applier[b].pc # "idle" /\ applier[b].c = c =>
                                   claim'[c].applying /\ (Left' => ~claim'[c].stale)
    BY <1>1, <1>3, <2>1 DEF Flagged
  <2> QED
    BY <1>3, <1>4, <1>6, <2>1, <2>2, <2>3, <2>4, OneClaim DEF Sound
<1>7. CASE /\ ~claim[c].applying /\ claim[c].status = "PENDING" /\ Ended(claim[c])
           /\ claim' = [claim EXCEPT ![c].applying = @ \/ TRUE]
           /\ applier' = [applier EXCEPT ![a] = [Idle EXCEPT !.pc = "apply", !.c = c, !.auto = claim[c].auto,
                                                 !.verdict = claim[c].verdict, !.slots = claim[c].slots]]
  <2>1. claim'[c].applying /\ claim'[c].stale = claim[c].stale
        /\ claim'[c].status = claim[c].status /\ claim'[c].auto = claim[c].auto
        /\ \A d \in Claims \ {c} : claim'[d] = claim[d]
    BY <1>2, <1>7 DEF ClaimRows
  <2>2. applier'[a].c = c /\ applier'[a].pc = "apply" /\ \A b \in Appliers \ {a} : applier'[b] = applier[b]
    BY <1>2, <1>7 DEF Idle
  <2>3. \A b \in Appliers : applier[b].c # c
    BY <1>1, <1>2, <1>7 DEF Flagged, Working
  <2>4. Single'
    BY <1>1, <2>2, <2>3 DEF Single
  <2>5. ~(Left /\ claim[c].stale)
    BY <1>1, <1>3, <1>7 DEF Recent
  <2>6. ASSUME NEW b \in Appliers PROVE Flagged(b)'
    <3>1. CASE b = a
      BY <1>3, <2>1, <2>2, <2>5, <3>1 DEF Flagged
    <3>2. CASE b # a
      BY <1>1, <1>3, <2>1, <2>2, <2>3, <3>2 DEF Flagged, Working
    <3> QED
      BY <3>1, <3>2
  <2>7. Opening(c)' /\ Recent(c)' /\ Asked(c)'
    BY <1>1, <1>3, <1>5, <2>1 DEF Opening, Recent, Asked
  <2>8. Settlement(c)'
    BY <1>1, <1>3, <1>7, <2>1 DEF Settlement, Settled
  <2>9. ASSUME NEW d \in Claims \ {c} PROVE Sound(d)'
    <3>1. Opening(d) /\ Recent(d) /\ Asked(d) /\ Settlement(d)
      BY DEF Guarded, Sound
    <3>2. \A b \in Appliers : applier[b].c # d => applier'[b].c # d
      BY <2>2
    <3> QED
      BY <1>3, <1>4, <2>1, <3>1, <3>2 DEF Sound, Opening, Recent, Asked, Settlement
  <2> QED
    BY <2>4, <2>6, <2>7, <2>8, <2>9 DEF Guarded, Sound
<1> QED
  <2>1. applier = [applier EXCEPT ![a] = applier[a]]
    BY <1>2
  <2> QED
    BY <1>6, <1>7, <2>1, Zenon DEF Callback, Ended

\* The steps of an apply keep the invariant.
LEMMA ApplyKeeps ==
    ASSUME TypeOK, Working, Guarded, NEW a \in Appliers, Apply(a) \/ ApplyThrows(a)
    PROVE  Guarded'
<1>1. PICK c \in Claims : c = applier[a].c /\ applier[a].pc # "idle"
  BY DEF Working, Apply, ApplyThrows, ApplyToolFailed, ApplyStillPaid, ApplyUnclear, DecideClaimRoute,
         CommitDecision, RefundNothing, RefundHeld, RefundCredit
<1>2. claim[c].applying /\ paid[c] = 0 /\ claim[c].status # "NONE" /\ Opening(c)
  BY <1>1 DEF Guarded, Flagged, Sound, Opening, Settlement
<1>3. /\ claim \in [Claims -> ClaimRows] /\ claim[c] \in ClaimRows
      /\ paid \in [Claims -> Nat] /\ applier \in [Appliers -> ApplierRows]
  BY DEF TypeOK, ApplierRows
<1>4. ASSUME NEW row \in ClaimRows, EndApply(a, row), row.status # "NONE", row.stale = claim[c].stale,
             UNCHANGED <<request, calls, job, rechecks>>,
             \A d \in Claims \ {c} : paid'[d] = paid[d],
             \/ paid'[c] = paid[c]
             \/ paid'[c] = paid[c] + 1 /\ row.status \in Settled
      PROVE  Guarded'
  <2>1. claim'[c].status = row.status /\ claim'[c].stale = row.stale
        /\ \A d \in Claims \ {c} : claim'[d] = claim[d]
    BY <1>1, <1>3, <1>4 DEF EndApply, ClaimRows
  <2>2. applier' = [applier EXCEPT ![a] = Idle]
    BY <1>4 DEF EndApply
  <2> QED
    BY <1>1, <1>4, <2>1, <2>2, OneEnd
<1>5. CASE ApplyToolFailed(a)
  <2>1. PICK x \in Statuses \ {"NONE"}, b \in BOOLEAN, n \in Int :
             EndApply(a, [claim[c] EXCEPT !.status = x, !.soft = b, !.slots = n])
    <3>1. SlotCount(applier[a]) \in Int
      BY <1>3, SlotsType
    <3>2. (~LastSlot(applier[a])) \in BOOLEAN
      OBVIOUS
    <3>3. (IF LastSlot(applier[a]) THEN "PENDING_REVIEW" ELSE claim[c].status) \in Statuses \ {"NONE"}
      BY <1>2, <1>3 DEF Statuses, Active, ClaimRows
    <3> QED
      BY <1>1, <1>5, <3>1, <3>2, <3>3 DEF ApplyToolFailed
  <2>2. [claim[c] EXCEPT !.status = x, !.soft = b, !.slots = n] \in ClaimRows
    BY <1>3, SlotsRow
  <2>3. /\ [claim[c] EXCEPT !.status = x, !.soft = b, !.slots = n].status = x
        /\ [claim[c] EXCEPT !.status = x, !.soft = b, !.slots = n].stale = claim[c].stale
    BY <1>3 DEF ClaimRows
  <2> QED
    BY <1>4, <1>5, <2>1, <2>2, <2>3 DEF ApplyToolFailed
<1>6. CASE ApplyStillPaid(a) \/ ApplyUnclear(a) \/ RefundNothing(a) \/ RefundHeld(a)
  <2>1. PICK x \in Statuses \ {"NONE"} : EndApply(a, [claim[c] EXCEPT !.status = x])
    BY <1>1, <1>6 DEF ApplyStillPaid, ApplyUnclear, RefundNothing, RefundHeld, Statuses, Active, Resolved
  <2>2. [claim[c] EXCEPT !.status = x] \in ClaimRows
    BY <1>3, StatusRow
  <2>3. [claim[c] EXCEPT !.status = x].status = x /\ [claim[c] EXCEPT !.status = x].stale = claim[c].stale
    BY <1>3 DEF ClaimRows
  <2>4. UNCHANGED <<request, calls, job, rechecks, paid>>
    BY <1>6 DEF ApplyStillPaid, ApplyUnclear, RefundNothing, RefundHeld
  <2> QED
    BY <1>4, <2>1, <2>2, <2>3, <2>4
<1>7. CASE DecideClaimRoute(a)
  <2>1. /\ applier'[a].c = c
        /\ \A b \in Appliers \ {a} : applier'[b] = applier[b]
    <3> DEFINE Goes(st, e, to) == applier' = [applier EXCEPT ![a].pc = st, ![a].entry = e, ![a].to = to]
    <3>1. ASSUME NEW st, NEW e, NEW to, Goes(st, e, to)
          PROVE  applier'[a].c = c /\ \A b \in Appliers \ {a} : applier'[b] = applier[b]
      BY <1>1, <1>3, <3>1 DEF ApplierRows
    <3>2. \/ Goes("hold", NoEntry, "PENDING_MANUAL")
          \/ Goes("replace", Min(stock), "AUTO_RESOLVED")
          \/ Goes("refund", NoEntry, "NONE")
          \/ Goes("replace", NoEntry, "AUTO_RESOLVED")
          \/ Goes("hold", NoEntry, "PENDING_STOCK")
          \/ Goes("hold", NoEntry, "PENDING_REVIEW")
      BY <1>7, Zenon DEF DecideClaimRoute
    <3> HIDE DEF Goes
    <3> QED
      BY <3>1, <3>2
  <2>2. UNCHANGED <<claim, request, job, calls, paid, rechecks>>
    BY <1>7 DEF DecideClaimRoute
  <2>3. \A b \in Appliers : applier'[b].c = applier[b].c
    BY <1>1, <2>1
  <2>4. Single'
    BY <2>3 DEF Single, Guarded
  <2>5. ASSUME NEW b \in Appliers PROVE Flagged(b)'
    BY <1>1, <2>1, <2>2 DEF Flagged, Left, Guarded
  <2>6. ASSUME NEW d \in Claims PROVE Sound(d)'
    BY <2>2, <2>3 DEF Guarded, Sound, Opening, Recent, Left, Asked, Settlement
  <2> QED
    BY <2>4, <2>5, <2>6 DEF Guarded
<1>8. CASE CommitDecision(a)
  <2>1. applier[a].to # "NONE"
    BY <1>8 DEF CommitDecision, Working
  <2>2. applier' = [applier EXCEPT ![a] = Idle] /\ UNCHANGED <<request, calls, job, rechecks>>
    BY <1>8 DEF CommitDecision
  <2>3. CASE UNCHANGED claim /\ paid' = [paid EXCEPT ![c] = @ + 0]
    <3>1. UNCHANGED paid
      BY <1>3, <2>3
    <3> QED
      BY <1>1, <1>2, <2>2, <2>3, <3>1, OneEnd
  <2>4. ASSUME NEW x, x # "NONE", NEW t,
               claim' = [claim EXCEPT ![c] = [claim[c] EXCEPT !.status = x, !.text = t, !.applying = FALSE]],
               \/ paid'[c] = paid[c]
               \/ paid'[c] = paid[c] + 1 /\ x = "AUTO_RESOLVED",
               \A d \in Claims \ {c} : paid'[d] = paid[d]
        PROVE  Guarded'
    <3>1. claim'[c].status = x /\ claim'[c].stale = claim[c].stale
          /\ \A d \in Claims \ {c} : claim'[d] = claim[d]
      BY <1>3, <2>4 DEF ClaimRows
    <3>2. \/ paid'[c] = paid[c]
          \/ paid'[c] = paid[c] + 1 /\ claim'[c].status \in Settled
      BY <2>4, <3>1 DEF Settled
    <3> QED
      BY <1>1, <2>2, <2>4, <3>1, <3>2, OneEnd
  <2>5. CASE claim[c].status # "PENDING"
    <3>1. claim' = [claim EXCEPT ![c] = claim[c]] /\ paid' = [paid EXCEPT ![c] = @ + 0]
      BY <1>1, <1>8, <2>5 DEF CommitDecision
    <3> QED
      BY <1>3, <2>3, <3>1
  <2>6. CASE claim[c].status = "PENDING" /\ applier[a].entry # NoEntry /\ applier[a].entry \notin stock
    <3>1. claim' = [claim EXCEPT ![c] = [claim[c] EXCEPT !.status = "PENDING_REVIEW", !.text = FALSE,
                                                         !.applying = FALSE]]
      BY <1>1, <1>8, <2>6 DEF CommitDecision
    <3>2. paid' = [paid EXCEPT ![c] = @ + 0]
      BY <1>1, <1>8, <2>6 DEF CommitDecision
    <3>3. paid'[c] = paid[c] /\ \A d \in Claims \ {c} : paid'[d] = paid[d]
      BY <1>3, <3>2
    <3> QED
      BY <2>4, <3>1, <3>3
  <2>7. CASE claim[c].status = "PENDING" /\ (applier[a].entry = NoEntry \/ applier[a].entry \in stock)
    <3>1. PICK t : claim' = [claim EXCEPT ![c] = [claim[c] EXCEPT !.status = applier[a].to, !.text = t,
                                                                  !.applying = FALSE]]
      <4>1. ~(applier[a].entry # NoEntry /\ applier[a].entry \notin stock)
        BY <2>7
      <4> QED
        BY <1>1, <1>8, <2>7, <4>1, Zenon DEF CommitDecision
    <3>2. paid' = [paid EXCEPT ![c] = @ + IF applier[a].to = "AUTO_RESOLVED" THEN 1 ELSE 0]
      BY <1>1, <1>8, <2>7 DEF CommitDecision
    <3>3. /\ \/ paid'[c] = paid[c]
             \/ paid'[c] = paid[c] + 1 /\ applier[a].to = "AUTO_RESOLVED"
          /\ \A d \in Claims \ {c} : paid'[d] = paid[d]
      BY <1>3, <3>2
    <3> QED
      BY <2>1, <2>4, <3>1, <3>3
  <2> QED
    BY <2>5, <2>6, <2>7
<1>9. CASE RefundCredit(a)
  <2>1. UNCHANGED <<request, calls, job, rechecks>>
    BY <1>9 DEF RefundCredit
  <2>2. CASE /\ applier' = [applier EXCEPT ![a] = Idle] /\ UNCHANGED paid
             /\ claim' = [claim EXCEPT ![c].applying = @ /\ claim[c].status # "PENDING"]
    <3>1. claim'[c].status = claim[c].status /\ claim'[c].stale = claim[c].stale
          /\ \A d \in Claims \ {c} : claim'[d] = claim[d]
      BY <1>3, <2>2 DEF ClaimRows
    <3> QED
      BY <1>1, <1>2, <2>1, <2>2, <3>1, OneEnd
  <2>3. CASE /\ EndApply(a, [claim[c] EXCEPT !.status = "RESOLVED_MANUAL", !.refunded = TRUE])
             /\ paid' = [paid EXCEPT ![c] = @ + IF claim[c].refunded THEN 0 ELSE 1]
    <3>1. PICK row : row = [claim[c] EXCEPT !.status = "RESOLVED_MANUAL", !.refunded = TRUE]
      OBVIOUS
    <3>2. row \in ClaimRows
      BY <1>3, <3>1, RefundedRow DEF Statuses, Resolved
    <3>3. row.status = "RESOLVED_MANUAL" /\ row.stale = claim[c].stale
      BY <1>3, <3>1 DEF ClaimRows
    <3>4. PICK n \in {0, 1} : paid' = [paid EXCEPT ![c] = @ + n]
      BY <2>3, Zenon
    <3>5. (paid'[c] = paid[c] \/ paid'[c] = paid[c] + 1) /\ \A d \in Claims \ {c} : paid'[d] = paid[d]
      BY <1>3, <3>4
    <3> QED
      BY <1>4, <2>1, <2>3, <3>1, <3>2, <3>3, <3>5 DEF Settled
  <2> QED
    BY <1>1, <1>9, <2>2, <2>3 DEF RefundCredit
<1>10. CASE ApplyThrows(a)
  <2>1. claim'[c].status = claim[c].status /\ claim'[c].stale = claim[c].stale
        /\ \A d \in Claims \ {c} : claim'[d] = claim[d]
    BY <1>1, <1>3, <1>10 DEF ApplyThrows, ClaimRows
  <2> QED
    BY <1>1, <1>2, <1>10, <2>1, OneEnd DEF ApplyThrows
<1> QED
  BY <1>5, <1>6, <1>7, <1>8, <1>9, <1>10 DEF Apply

\* Every step keeps the invariant, as long as no apply takes five minutes and no recheck
\* is refused with an exception while another one may come.
LEMMA GuardedInductive ==
    ASSUME "slow" \notin Faults, TypeOK, Working, Guarded, [Next]_vars,
           [\A c \in Claims : RecheckThrows(c) => ~Left]_vars
    PROVE  Guarded'
<1>1. ASSUME UNCHANGED <<claim, request, calls, job, paid, rechecks, applier>> PROVE Guarded'
  BY <1>1 DEF Guarded, Single, Flagged, Sound, Opening, Recent, Left, Asked, Settlement
<1>2. CASE UNCHANGED vars \/ SellEntry
  BY <1>1, <1>2 DEF vars, SellEntry
<1> SUFFICES ASSUME Next, \A c \in Claims : RecheckThrows(c) => ~Left PROVE Guarded'
  BY <1>2
<1>3. CASE ApiCrash
  <2>1. \A a \in Appliers : applier'[a].c = 0 /\ applier'[a].pc = "idle"
    BY <1>3 DEF ApiCrash, Idle
  <2>2. UNCHANGED <<claim, calls, job, paid, rechecks>>
        /\ \A c \in Claims : request'[c].pc = "idle" /\ ~request'[c].recheck
    BY <1>3 DEF ApiCrash
  <2>3. Single' /\ \A a \in Appliers : Flagged(a)'
    BY <2>1 DEF Single, Flagged
  <2>4. ASSUME NEW c \in Claims PROVE Sound(c)'
    <3>1. Sound(c)
      BY DEF Guarded
    <3>2. Opening(c)' /\ Recent(c)' /\ Asked(c)'
      BY <2>2, <3>1 DEF Sound, Opening, Recent, Left, Asked
    <3>3. Settlement(c)'
      BY <2>1, <2>2, <3>1, SetsAssumption DEF Sound, Settlement
    <3> QED
      BY <3>2, <3>3 DEF Sound
  <2> QED
    BY <2>3, <2>4 DEF Guarded
<1>4. ASSUME NEW c \in Claims, Api(c) PROVE Guarded'
  BY <1>4, QueueKeeps, CreateKeeps DEF Api
<1>5. ASSUME NEW c \in Claims, People(c) PROVE Guarded'
  BY <1>5, QueueKeeps, SellerKeeps DEF People
<1>6. ASSUME NEW c \in Claims, Worker(c) \/ WorkerCrash(c) \/ CallbackLost(c) PROVE Guarded'
  BY <1>6, QueueKeeps
<1>7. ASSUME NEW c \in Claims, NEW a \in Appliers, Callback(c, a) PROVE Guarded'
  BY <1>7, CallbackKeeps
<1>8. ASSUME NEW a \in Appliers, Apply(a) \/ ApplyThrows(a) PROVE Guarded'
  BY <1>8, ApplyKeeps
<1> QED
  BY <1>2, <1>3, <1>4, <1>5, <1>6, <1>7, <1>8 DEF Next

\* The invariant holds at the start.
LEMMA GuardedInit == Init => Guarded
BY SetsAssumption DEF Init, Guarded, Single, Flagged, Sound, Opening, Recent, Asked, Settlement, Settled, Idle

\* With one recheck at most, none is left when one is refused.
LEMMA LastRecheck ==
    ASSUME MaxRechecks <= 1, TypeOK, Guarded, NEW c \in Claims, RecheckThrows(c)
    PROVE  ~Left
<1>1. rechecks > 0
  BY DEF Guarded, Sound, Asked, RecheckThrows
<1> QED
  BY <1>1, BoundsAssumption DEF TypeOK, Left

\* No recheck is refused by the queue with an exception.
RechecksQueued == [][\A c \in Claims : ~RecheckThrows(c)]_vars

\* The invariant holds throughout, when the seller rechecks once at most.
LEMMA GuardedOnce ==
    ASSUME MaxRechecks <= 1, "slow" \notin Faults
    PROVE  Spec => [](TypeOK /\ Working /\ Guarded)
<1>1. TypeOK /\ Working /\ Guarded /\ [Next]_vars => Guarded'
  BY LastRecheck, GuardedInductive
<1> QED
  BY <1>1, GuardedInit, Basics, PTL DEF Spec

\* The invariant holds throughout, however often the seller rechecks, when the queue takes
\* every recheck.
LEMMA GuardedQueued ==
    ASSUME "slow" \notin Faults
    PROVE  Spec /\ RechecksQueued => [](TypeOK /\ Working /\ Guarded)
<1>1. TypeOK /\ Working /\ Guarded /\ [Next]_vars /\ [\A c \in Claims : ~RecheckThrows(c)]_vars => Guarded'
  BY GuardedInductive
<1> QED
  BY <1>1, GuardedInit, Basics, PTL DEF Spec, RechecksQueued

\* What the invariant says of the applies and of the compensation.
LEMMA GuardedImplies ==
    TypeOK /\ Working /\ Guarded => OneApply /\ CompensatedOnce
<1> SUFFICES ASSUME TypeOK, Working, Guarded PROVE OneApply /\ CompensatedOnce
  OBVIOUS
<1>1. ASSUME NEW c \in Claims PROVE Cardinality(Live(c)) <= 1 /\ (Live(c) # {} => claim[c].applying)
  <2>1. c # 0
    BY SetsAssumption
  <2>2. Live(c) # {} => claim[c].applying
    BY <2>1 DEF Live, Guarded, Flagged, Working
  <2>3. Cardinality(Live(c)) <= 1
    <3>1. CASE Live(c) = {}
      BY <3>1, FS_EmptySet
    <3>2. CASE Live(c) # {}
      <4>1. PICK a \in Appliers : a \in Live(c)
        BY <3>2 DEF Live
      <4>2. Live(c) = {a}
        BY <2>1, <4>1 DEF Live, Guarded, Single
      <4> QED
        BY <4>2, FS_Singleton, SMTT(40)
    <3> QED
      BY <3>1, <3>2
  <2> QED
    BY <2>2, <2>3
<1>2. ASSUME NEW c \in Claims PROVE paid[c] <= 1
  BY DEF Guarded, Sound, Settlement
<1> QED
  BY <1>1, <1>2 DEF OneApply, CompensatedOnce

\* At most one call of applyAutoCheckResult works on a claim, and its flag is up, as long as
\* there is at most one recheck and no apply takes five minutes.  Both are needed: a recheck
\* that the queue refuses leaves no completion time, a late callback of the earlier check then
\* starts an apply, and a second recheck takes that apply for dead.
THEOREM OneApplyAtATime ==
    ASSUME MaxRechecks <= 1, "slow" \notin Faults
    PROVE  Spec => []OneApply
BY GuardedImplies, GuardedOnce, PTL

\* A claim is compensated at most once, by a replacement, a refund or the seller, under the
\* same conditions: who pays finds the claim unpaid, and no other apply of it is left.
THEOREM PaidAtMostOnce ==
    ASSUME MaxRechecks <= 1, "slow" \notin Faults
    PROVE  Spec => []CompensatedOnce
BY GuardedImplies, GuardedOnce, PTL

\* The refused recheck is the only way: the seller may recheck as often as it likes, and one
\* apply at a time works on a claim, as long as the queue takes every recheck and no apply
\* takes five minutes.
THEOREM OneApplyWhileQueued ==
    ASSUME "slow" \notin Faults
    PROVE  Spec /\ RechecksQueued => []OneApply
BY GuardedImplies, GuardedQueued, PTL

\* Under the same conditions a claim is compensated at most once.
THEOREM PaidOnceWhileQueued ==
    ASSUME "slow" \notin Faults
    PROVE  Spec /\ RechecksQueued => []CompensatedOnce
BY GuardedImplies, GuardedQueued, PTL

\* A claim that was settled by a replacement, a refund or the seller keeps its status and is
\* not compensated again: no recheck, retry, late callback or dying process reopens it.
SettledStays ==
    [][\A c \in Claims : claim[c].status \in Settled =>
           claim'[c].status = claim[c].status /\ paid'[c] = paid[c]]_vars

\* No step moves a settled claim: what moves a claim finds it open, or holds it in an apply.
LEMMA SettledStep ==
    ASSUME TypeOK, Working, Guarded, [Next]_vars, NEW c \in Claims, claim[c].status \in Settled
    PROVE  claim'[c].status = claim[c].status /\ paid'[c] = paid[c]
<1>1. /\ claim \in [Claims -> ClaimRows] /\ paid \in [Claims -> Nat]
      /\ claim[c].status \notin {"NONE", "PENDING"} \union Active
  BY DEF TypeOK, Settled, Active
<1>2. /\ request[c].pc # "submitted"
      /\ \A a \in Appliers : applier[a].c # c
  BY <1>1 DEF Guarded, Sound, Opening, Settlement
<1>3. CASE UNCHANGED <<claim, paid>>
  BY <1>3
<1>4. CASE UNCHANGED vars \/ SellEntry \/ ApiCrash
  BY <1>3, <1>4 DEF vars, SellEntry, ApiCrash
\* The steps of the API, the queue, the worker and the seller about a claim d.
<1>5. ASSUME NEW d \in Claims, NEW bypass \in BOOLEAN, CreateClaim(d, bypass)
      PROVE  claim'[c] = claim[c] /\ paid'[c] = paid[c]
  <2>1. c # d /\ UNCHANGED paid
    BY <1>2, <1>5 DEF CreateClaim
  <2>2. PICK old \in Claims :
             /\ old # d => claim[old].status \in Active
             /\ claim'[c] = IF c = old THEN [claim[c] EXCEPT !.status = "REJECTED"] ELSE claim[c]
    BY <1>5, <2>1 DEF CreateClaim
  <2> QED
    BY <1>1, <2>1, <2>2
<1>6. ASSUME NEW d \in Claims, UNCHANGED paid,
             \/ \E x \in Autos : claim' = [claim EXCEPT ![d].auto = x]
             \/ \E x, v : CheckEnds(d, x, v)
             \/ \E x \in BOOLEAN : claim' = [claim EXCEPT ![d].applying = x]
             \/ claim' = [claim EXCEPT ![d].stale = TRUE]
      PROVE  claim'[c].status = claim[c].status
  <2>1. ASSUME NEW x, claim' = [claim EXCEPT ![d].auto = x] PROVE claim'[c].status = claim[c].status
    BY <1>1, <2>1 DEF ClaimRows
  <2>2. ASSUME NEW x, NEW v, CheckEnds(d, x, v) PROVE claim'[c].status = claim[c].status
    BY <1>1, <2>2 DEF CheckEnds, ClaimRows
  <2>3. ASSUME NEW x, claim' = [claim EXCEPT ![d].applying = x] PROVE claim'[c].status = claim[c].status
    BY <1>1, <2>3 DEF ClaimRows
  <2>4. CASE claim' = [claim EXCEPT ![d].stale = TRUE]
    BY <1>1, <2>4 DEF ClaimRows
  <2> QED
    BY <1>6, <2>1, <2>2, <2>3, <2>4
<1>7. ASSUME NEW d \in Claims, Submit(d) \/ RefuseClaim(d) \/ AddJob(d) \/ WorkerCrash(d) \/ CallbackLost(d)
      PROVE  UNCHANGED <<claim, paid>>
  BY <1>7 DEF Submit, RefuseClaim, AddJob, WorkerCrash, CallbackLost
<1>8. ASSUME NEW d \in Claims, OverHardCap(d) \/ Enqueued(d) \/ StartJob(d)
                \/ EnqueueRefused(d, "OVERLOADED") \/ EnqueueRefused(d, "FAILED")
      PROVE  UNCHANGED paid /\ \E x \in Autos : claim' = [claim EXCEPT ![d].auto = x]
  BY <1>8 DEF OverHardCap, Enqueued, StartJob, EnqueueRefused, Autos
<1>9. ASSUME NEW d \in Claims, ToolDisabled(d) \/ FinishJob(d) \/ JobFailed(d) \/ SweepStuck(d)
      PROVE  UNCHANGED paid /\ (UNCHANGED claim \/ \E x, v : CheckEnds(d, x, v))
  BY <1>9, Zenon DEF ToolDisabled, FinishJob, JobFailed, SweepStuck
<1>10. ASSUME NEW d \in Claims, Refused(d) PROVE claim'[c] = claim[c] /\ paid'[c] = paid[c]
  <2>1. PICK x : claim' = [claim EXCEPT ![d] = [claim[d] EXCEPT !.status = x]]
                 /\ (claim[d].status # "PENDING" => x = claim[d].status)
    BY <1>10, <1>1 DEF Refused
  <2> QED
    BY <1>1, <1>10, <2>1 DEF Refused, ClaimRows
<1>11. ASSUME NEW d \in Claims, RejectClaim(d) \/ RecheckClaim(d)
                 \/ \E e \in Entries \union {NoEntry} : ResolveClaimManually(d, e)
       PROVE  claim'[c] = claim[c] /\ paid'[c] = paid[c]
  <2>1. claim[d].status \in Active
    BY <1>11 DEF RejectClaim, RecheckClaim, ResolveClaimManually, MayClose
  <2>2. c # d
    BY <1>1, <2>1
  <2> QED
    BY <1>1, <1>11, <2>2 DEF RejectClaim, RecheckClaim, ResolveClaimManually
<1>12. ASSUME NEW d \in Claims, FiveMinutesPass(d)
       PROVE  UNCHANGED paid /\ claim' = [claim EXCEPT ![d].stale = TRUE]
  BY <1>12 DEF FiveMinutesPass
<1>13. ASSUME NEW d \in Claims, NEW a \in Appliers, Callback(d, a)
       PROVE  UNCHANGED paid /\ \E x \in BOOLEAN : claim' = [claim EXCEPT ![d].applying = x]
  BY <1>1, <1>13 DEF Callback, ClaimRows
\* The steps of an apply are about another claim.
<1>14. ASSUME NEW a \in Appliers, Apply(a) \/ ApplyThrows(a)
       PROVE  claim'[c] = claim[c] /\ paid'[c] = paid[c]
  <2>1. applier[a].c # c
    BY <1>2
  <2>2. CASE DecideClaimRoute(a)
    BY <2>2 DEF DecideClaimRoute
  <2>3. CASE CommitDecision(a)
    BY <1>1, <2>1, <2>3 DEF CommitDecision
  <2>4. CASE RefundCredit(a)
    BY <1>1, <2>1, <2>4 DEF RefundCredit, EndApply
  <2>5. CASE ApplyThrows(a)
    BY <1>1, <2>1, <2>5 DEF ApplyThrows
  <2>6. CASE ApplyToolFailed(a)
    BY <1>1, <2>1, <2>6 DEF ApplyToolFailed, EndApply
  <2>7. CASE ApplyStillPaid(a) \/ ApplyUnclear(a) \/ RefundNothing(a) \/ RefundHeld(a)
    BY <1>1, <2>1, <2>7 DEF ApplyStillPaid, ApplyUnclear, RefundNothing, RefundHeld, EndApply
  <2> QED
    BY <1>14, <2>2, <2>3, <2>4, <2>5, <2>6, <2>7 DEF Apply
<1>15. ASSUME NEW d \in Claims, Worker(d) PROVE claim'[c].status = claim[c].status /\ paid'[c] = paid[c]
  BY <1>6, <1>8, <1>9, <1>15 DEF Worker
<1>16. ASSUME NEW d \in Claims, Api(d) PROVE claim'[c].status = claim[c].status /\ paid'[c] = paid[c]
  BY <1>5, <1>6, <1>7, <1>8, <1>10, <1>16 DEF Api
<1>17. ASSUME NEW d \in Claims, People(d) PROVE claim'[c].status = claim[c].status /\ paid'[c] = paid[c]
  BY <1>6, <1>7, <1>11, <1>12, <1>17 DEF People
<1>18. ASSUME NEW d \in Claims, NEW a \in Appliers, Callback(d, a)
       PROVE  claim'[c].status = claim[c].status /\ paid'[c] = paid[c]
  BY <1>6, <1>13, <1>18
<1> QED
  BY <1>4, <1>7, <1>14, <1>15, <1>16, <1>17, <1>18 DEF Next

\* A settled claim stays as it is, as long as the queue takes every recheck and no apply
\* takes five minutes.
THEOREM SettledForGood ==
    ASSUME "slow" \notin Faults
    PROVE  Spec /\ RechecksQueued => SettledStays
<1>1. TypeOK /\ Working /\ Guarded /\ [Next]_vars =>
          [\A c \in Claims : claim[c].status \in Settled =>
               claim'[c].status = claim[c].status /\ paid'[c] = paid[c]]_vars
  BY SettledStep
<1> QED
  BY <1>1, GuardedQueued, PTL DEF Spec, SettledStays


-----------------------------------------------------------------------------
(* The idempotency wrapper around the public warranty claim: Idempotency,  *)
(* seen from one key.                                                      *)

\* The claim of a running caller is still on the key, and its remaining life
\* and the caller's running time add up to the TTL it was taken with.
KeyHeld ==
    \A c \in Callers : pc[c] = "running" =>
        /\ cell.kind = "pending"
        /\ cell.ttl + elapsed[c] = LOCK_TTL
        /\ elapsed[c] <= MaxRun

\* Inductive: the claim of whoever runs outlives the run, so nobody else starts one.
KeyInv == KeyTypeOK /\ KeyHeld /\ OneRunner

-----------------------------------------------------------------------------
\* Every reachable state of the wrapper (runOnce and the Redis key it uses)
\* is well typed.
THEOREM WrapperTypes == KeySpec => []KeyTypeOK
<1>1. KeyInit => KeyTypeOK
  BY TimesAssumption DEF KeyInit, KeyTypeOK, Absent
<1>2. KeyTypeOK /\ [KeyNext]_keyVars => KeyTypeOK'
  <2> SUFFICES ASSUME KeyTypeOK, [KeyNext]_keyVars PROVE KeyTypeOK'
    OBVIOUS
  <2> USE TimesAssumption DEF KeyTypeOK
  <2>1. ASSUME NEW c \in Callers, Acquire(c) PROVE KeyTypeOK'
    BY <2>1 DEF Acquire, Pending
  <2>2. ASSUME NEW c \in Callers, Join(c) PROVE KeyTypeOK'
    BY <2>2 DEF Join
  <2>3. ASSUME NEW c \in Callers, Poll(c) PROVE KeyTypeOK'
    <3>1. polls' \in [Callers -> Nat] /\ due' \in [Callers -> BOOLEAN]
      BY <2>3 DEF Poll
    <3>2. pc' \in [Callers -> {"idle", "waiting", "running", "done", "failed"}]
      BY <2>3 DEF Poll
    <3>3. answer' \in [Callers -> Callers \cup {NoResult}]
      BY <2>3 DEF Poll
    <3> QED
      BY <3>1, <3>2, <3>3, <2>3 DEF Poll
  <2>4. ASSUME NEW c \in Callers, Succeed(c) PROVE KeyTypeOK'
    BY <2>4 DEF Succeed, ResultOf
  <2>5. ASSUME NEW c \in Callers, Throw(c) PROVE KeyTypeOK'
    BY <2>5 DEF Throw, Absent
  <2>6. ASSUME NEW c \in Callers, Crash(c) PROVE KeyTypeOK'
    BY <2>6 DEF Crash
  <2>7. ASSUME NEW c \in Callers, Retry(c) PROVE KeyTypeOK'
    BY <2>7 DEF Retry
  <2>8. CASE Tick
    <3>1. cell' \in [kind : {"absent", "pending", "result"},
                     by : Callers \cup {NoResult}, ttl : Nat]
      BY <2>8 DEF Tick, Absent
    <3> QED
      BY <3>1, <2>8 DEF Tick
  <2>9. CASE UNCHANGED keyVars
    BY <2>9 DEF keyVars
  <2> QED
    BY <2>1, <2>2, <2>3, <2>4, <2>5, <2>6, <2>7, <2>8, <2>9 DEF KeyNext
<1> QED
  BY <1>1, <1>2, PTL DEF KeySpec

-----------------------------------------------------------------------------
\* As long as fn always settles before LOCK_TTL_SEC has passed, the claim of the
\* running caller stays on the key and keeps the others out.
LEMMA KeyInvariant ==
    ASSUME MaxRun < LOCK_TTL
    PROVE  KeySpec => []KeyInv
<1>1. KeyInit => KeyInv
  BY TimesAssumption DEF KeyInit, KeyInv, KeyTypeOK, KeyHeld, OneRunner, Absent
<1>2. KeyTypeOK /\ KeyTypeOK' /\ KeyInv /\ [KeyNext]_keyVars => KeyInv'
  <2> SUFFICES ASSUME KeyTypeOK, KeyTypeOK', KeyHeld, OneRunner, [KeyNext]_keyVars
               PROVE  KeyHeld' /\ OneRunner'
    BY DEF KeyInv
  <2> USE TimesAssumption DEF KeyTypeOK
  <2>1. ASSUME NEW c \in Callers, Acquire(c) PROVE KeyHeld' /\ OneRunner'
    <3>1. \A d \in Callers : pc[d] # "running"
      BY <2>1 DEF Acquire, KeyHeld
    <3> QED
      BY <3>1, <2>1 DEF Acquire, Pending, KeyHeld, OneRunner
  <2>2. ASSUME NEW c \in Callers, Join(c) PROVE KeyHeld' /\ OneRunner'
    BY <2>2 DEF Join, KeyHeld, OneRunner
  <2>3. ASSUME NEW c \in Callers, Poll(c) PROVE KeyHeld' /\ OneRunner'
    <3>1. \A d \in Callers : pc'[d] = "running" => pc[d] = "running"
      BY <2>3 DEF Poll
    <3> QED
      BY <3>1, <2>3 DEF Poll, KeyHeld, OneRunner
  <2>4. ASSUME NEW c \in Callers, Succeed(c) \/ Throw(c) \/ Crash(c)
        PROVE  KeyHeld' /\ OneRunner'
    <3>1. \A d \in Callers : pc'[d] # "running"
      BY <2>4 DEF Succeed, Throw, Crash, OneRunner
    <3> QED
      BY <3>1 DEF KeyHeld, OneRunner
  <2>5. ASSUME NEW c \in Callers, Retry(c) PROVE KeyHeld' /\ OneRunner'
    BY <2>5 DEF Retry, KeyHeld, OneRunner
  <2>6. CASE Tick
    <3>1. OneRunner'
      BY <2>6 DEF Tick, OneRunner
    <3>2. ASSUME NEW d \in Callers, pc'[d] = "running"
          PROVE  /\ cell'.kind = "pending"
                 /\ cell'.ttl + elapsed'[d] = LOCK_TTL
                 /\ elapsed'[d] <= MaxRun
      <4>1. /\ pc[d] = "running" /\ elapsed[d] < MaxRun
            /\ elapsed'[d] = elapsed[d] + 1
        BY <2>6, <3>2 DEF Tick
      <4>2. cell.kind = "pending" /\ cell.ttl + elapsed[d] = LOCK_TTL
        BY <4>1 DEF KeyHeld
      <4>3. cell.ttl > 1
        BY <4>1, <4>2
      <4>4. cell' = [cell EXCEPT !.ttl = cell.ttl - 1]
        BY <4>3, <2>6 DEF Tick
      <4> QED
        BY <4>1, <4>2, <4>3, <4>4
    <3> QED
      BY <3>1, <3>2 DEF KeyHeld
  <2>7. CASE UNCHANGED keyVars
    BY <2>7 DEF keyVars, KeyHeld, OneRunner
  <2> QED
    BY <2>1, <2>2, <2>3, <2>4, <2>5, <2>6, <2>7 DEF KeyNext
<1>4. KeySpec => []KeyTypeOK
  BY WrapperTypes
<1> QED
  BY <1>1, <1>2, <1>4, PTL DEF KeySpec

\* If fn always settles before LOCK_TTL_SEC has passed, the claim taken by
\* SET NX EX excludes every other caller for as long as fn runs, whatever the
\* other requests, failing SET and DEL calls and crashes do.
THEOREM ExclusiveRun ==
    ASSUME MaxRun < LOCK_TTL
    PROVE  KeySpec => []OneRunner
<1>1. KeyInv => OneRunner
  BY DEF KeyInv
<1>2. KeySpec => []KeyInv
  BY KeyInvariant
<1> QED
  BY <1>1, <1>2, PTL

-----------------------------------------------------------------------------
\* The result that made the promise is still on the key, and lives as long as it.
ResultKept == fresh > 0 => cell.kind = "result" /\ cell.ttl = fresh

\* If fn always settles before LOCK_TTL_SEC has passed, then for RESULT_TTL_SEC after
\* runOnce has stored a result nobody runs fn for the key again: no late Succeed or
\* Throw of an earlier claim overwrites or deletes it, and no caller gets past SET NX.
THEOREM NoRerun ==
    ASSUME MaxRun < LOCK_TTL
    PROVE  KeySpec => []NoRerunWhileFresh
<1>1. KeyInit => ResultKept
  BY DEF KeyInit, ResultKept
<1>2. KeyInv /\ ResultKept /\ [KeyNext]_keyVars => ResultKept'
  <2> SUFFICES ASSUME KeyTypeOK, KeyHeld, ResultKept, [KeyNext]_keyVars PROVE ResultKept'
    BY DEF KeyInv
  <2> USE TimesAssumption DEF KeyTypeOK, ResultKept
  <2>1. ASSUME NEW c \in Callers, Acquire(c) PROVE ResultKept'
    BY <2>1 DEF Acquire
  <2>2. ASSUME NEW c \in Callers, Join(c) \/ Poll(c) \/ Crash(c) \/ Retry(c)
        PROVE  ResultKept'
    BY <2>2 DEF Join, Poll, Crash, Retry
  <2>3. ASSUME NEW c \in Callers, Succeed(c) PROVE ResultKept'
    BY <2>3 DEF Succeed, ResultOf
  <2>4. ASSUME NEW c \in Callers, Throw(c) PROVE ResultKept'
    <3>1. cell.kind = "pending"
      BY <2>4 DEF Throw, KeyHeld
    <3> QED
      BY <3>1, <2>4 DEF Throw
  <2>5. CASE Tick
    <3>1. CASE fresh > 1
      <4>1. cell.kind = "result" /\ cell.ttl = fresh
        BY <3>1
      <4>2. cell' = [cell EXCEPT !.ttl = cell.ttl - 1] /\ fresh' = fresh - 1
        BY <4>1, <3>1, <2>5 DEF Tick
      <4> QED
        BY <4>1, <4>2
    <3>2. CASE ~(fresh > 1)
      BY <3>2, <2>5 DEF Tick
    <3> QED
      BY <3>1, <3>2
  <2>6. CASE UNCHANGED keyVars
    BY <2>6 DEF keyVars
  <2> QED
    BY <2>1, <2>2, <2>3, <2>4, <2>5, <2>6 DEF KeyNext
<1>3. KeyInv /\ ResultKept => NoRerunWhileFresh
  BY DEF KeyInv, ResultKept, KeyHeld, NoRerunWhileFresh
<1>4. KeySpec => []KeyInv
  BY KeyInvariant
<1> QED
  BY <1>1, <1>2, <1>3, <1>4, PTL DEF KeySpec
=============================================================================
