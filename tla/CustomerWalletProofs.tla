------------------------ MODULE CustomerWalletProofs ------------------------
(***************************************************************************)
(* What a customer's wallet guarantees for any number of top-ups, scanners,*)
(* referred orders and requests, and for all amounts: types, a main balance*)
(* that is never negative, a ledger that explains it, one credit per bank  *)
(* or card top-up and claw-backs that are covered.  Then the dialogues of *)
(* module BotDialog, in which top-ups, orders and claims are made: for any *)
(* number of updates, handlers and dialogues, one of each per dialogue.    *)
(***************************************************************************)
EXTENDS CustomerWallet, BotDialog, FiniteSetTheorems, TLAPS

\* The first of two numbers is one of them.
LEMMA MinOfTwo ==
    ASSUME NEW a \in Int, NEW b \in Int
    PROVE  Min({a, b}) = IF a <= b THEN a ELSE b
<1> DEFINE m == IF a <= b THEN a ELSE b
<1>1. m \in {a, b} /\ \A y \in {a, b} : m =< y
  OBVIOUS
<1>2. \A x \in {a, b} : (\A y \in {a, b} : x =< y) => x = m
  OBVIOUS
<1> QED
  BY <1>1, <1>2 DEF Min

\* A purchase takes from the commission what it can and the rest from the main balance.
LEMMA Purchase ==
    ASSUME commission \in Int
    PROVE  /\ FromCommission = IF commission <= Price THEN commission ELSE Price
           /\ FromMain = Price - FromCommission
           /\ FromCommission \in Int /\ FromMain \in Int
  BY MinOfTwo, AmountsAssumption DEF FromCommission, FromMain

\* A claw-back takes what was asked, at most what the order's row still offers.
LEMMA ClawBack ==
    ASSUME TypeOK, NEW q \in Refunders, refund[q].r # None
    PROVE  /\ refund[q].r \in Referred /\ Revoked(q) \in Int
           /\ Revoked(q) <= row[refund[q].r]
<1> DEFINE r == refund[q].r
           asked == IF refund[q].amount > 0 THEN refund[q].amount ELSE row[r]
<1>1. r \in Referred /\ row[r] \in Int /\ asked \in Int
  BY DEF TypeOK
<1>2. Revoked(q) = Min({row[r], asked})
  BY DEF Revoked
<1> HIDE DEF asked, r
<1>3. Revoked(q) = IF row[r] <= asked THEN row[r] ELSE asked
  BY <1>1, <1>2, MinOfTwo
<1> QED
  BY <1>1, <1>3 DEF r

-----------------------------------------------------------------------------
\* What a scanner remembers.
ScanRecords == [pc : {"idle", "scan", "found", "tagged", "write"}, todo : SUBSET Topups,
                cur : Topups \union {None}, read : Int]

\* Every step keeps types.
LEMMA TypeInductive == TypeOK /\ [Next]_vars => TypeOK'
<1> SUFFICES ASSUME TypeOK, [Next]_vars PROVE TypeOK'
  OBVIOUS
<1> USE AmountsAssumption, BoundsAssumption DEF TypeOK, topupVars, walletVars, affiliateVars
<1>1. ASSUME NEW t \in Topups, CreateTopup(t) \/ Expire(t) PROVE TypeOK'
  BY <1>1 DEF CreateTopup, Expire
<1>2. ASSUME NEW t \in Topups, Send(t) \/ Notice(t) \/ SubmitHash(t) PROVE TypeOK'
  BY <1>2, ZenonT(60) DEF Send, Notice, SubmitHash
<1>3. ASSUME NEW t \in Topups, NEW c, MarkTopupPaid(t, c), submitted' \in [Topups -> BOOLEAN]
      PROVE  TypeOK'
  BY <1>3 DEF MarkTopupPaid
<1>4. ASSUME NEW t \in Topups, Callback(t) PROVE TypeOK'
  BY <1>3, <1>4 DEF Callback
<1>5. ASSUME NEW t \in Topups, NoticePaid(t) \/ HashPaid(t) PROVE TypeOK'
  <2>1. submitted' \in [Topups -> BOOLEAN]
    BY <1>5 DEF NoticePaid, HashPaid
  <2>2. ASSUME NEW c, MarkTopupPaid(t, c) PROVE TypeOK'
    BY <1>3, <2>1, <2>2
  <2>3. CASE UNCHANGED <<rail, topup, tagged, sent, credits, walletVars, affiliateVars,
                         scan, adjust, adjusts, bought, crashes>>
    BY <2>1, <2>3, ZenonT(60)
  <2> QED
    BY <1>5, <2>2, <2>3 DEF NoticePaid, HashPaid
<1>6. ASSUME NEW s \in Scanners, ScanLoad(s) \/ ScanEnd(s) PROVE TypeOK'
  <2>1. PICK x \in ScanRecords : scan' = [scan EXCEPT ![s] = x] /\ x.pc \in {"idle", "scan"}
    BY <1>6 DEF ScanLoad, ScanEnd, IdleScan, ScanRecords
  <2>2. UNCHANGED <<topupVars, walletVars, affiliateVars, adjust, adjusts, bought, crashes>>
    BY <1>6 DEF ScanLoad, ScanEnd
  <2> QED
    BY <2>1, <2>2 DEF ScanRecords
<1>7. ASSUME NEW s \in Scanners, NEW t \in Topups, ScanFind(s, t) PROVE TypeOK'
  BY <1>7 DEF ScanFind
<1>7a. ASSUME NEW s \in Scanners, ScanTag(s) \/ ScanRead(s)
       PROVE  \E x \in ScanRecords : scan' = [scan EXCEPT ![s] = x] /\ x.cur \in Topups
  <2>1. scan[s] \in ScanRecords /\ scan[s].cur \in Topups
    BY <1>7a DEF ScanTag, ScanRead, ScanRecords
  <2>2. CASE ScanTag(s)
    <3> DEFINE x == [scan[s] EXCEPT !.pc = "tagged"]
    <3>1. scan' = [scan EXCEPT ![s] = x]
      BY <2>2 DEF ScanTag
    <3>2. x \in ScanRecords /\ x.cur \in Topups
      BY <2>1 DEF ScanRecords
    <3> QED
      BY <3>1, <3>2
  <2>3. CASE ScanRead(s)
    <3> DEFINE x == [scan[s] EXCEPT !.pc = "write", !.read = balance]
    <3>1. scan' = [scan EXCEPT ![s] = x]
      BY <2>3 DEF ScanRead
    <3>2. x \in ScanRecords /\ x.cur \in Topups
      BY <2>1 DEF ScanRecords
    <3> QED
      BY <3>1, <3>2
  <2> QED
    BY <1>7a, <2>2, <2>3
<1>8. ASSUME NEW s \in Scanners, ScanTag(s) PROVE TypeOK'
  <2>1. PICK x \in ScanRecords : scan' = [scan EXCEPT ![s] = x] /\ x.cur \in Topups
    BY <1>8, <1>7a
  <2>2. /\ UNCHANGED <<rail, topup, sent, submitted, credits, walletVars, affiliateVars, adjust,
                       adjusts, bought, crashes>>
        /\ tagged' \in [Topups -> BOOLEAN]
    BY <1>8 DEF ScanTag
  <2> QED
    BY <2>1, <2>2 DEF ScanRecords
<1>9. ASSUME NEW s \in Scanners, ScanRead(s) PROVE TypeOK'
  <2>1. PICK x \in ScanRecords : scan' = [scan EXCEPT ![s] = x] /\ x.cur \in Topups
    BY <1>9, <1>7a
  <2>2. UNCHANGED <<topupVars, walletVars, affiliateVars, adjust, adjusts, bought, crashes>>
    BY <1>9 DEF ScanRead
  <2> QED
    BY <2>1, <2>2 DEF ScanRecords
<1>10. ASSUME NEW s \in Scanners, ScanWrite(s) PROVE TypeOK'
  <2> DEFINE x == [scan[s] EXCEPT !.pc = "scan", !.cur = None, !.read = 0]
  <2>1. scan' = [scan EXCEPT ![s] = x] /\ x \in ScanRecords /\ x.pc = "scan"
    <3>1. scan' = [scan EXCEPT ![s] = x]
      BY <1>10 DEF ScanWrite
    <3>2. scan[s] \in ScanRecords
      BY DEF ScanRecords
    <3>3. ASSUME NEW y \in ScanRecords, NEW c \in Topups \union {None}, NEW n \in Int
          PROVE  LET z == [y EXCEPT !.pc = "scan", !.cur = c, !.read = n]
                 IN  z \in ScanRecords /\ z.pc = "scan"
      BY ONLY <3>3 DEF ScanRecords
    <3>4. None \in Topups \union {None} /\ 0 \in Int
      OBVIOUS
    <3>5. x \in ScanRecords /\ x.pc = "scan"
      BY ONLY <3>2, <3>3, <3>4
    <3> QED
      BY ONLY <3>1, <3>5
  <2>2. UNCHANGED <<rail, tagged, sent, submitted, commission, earned, affiliateVars, adjust,
                    adjusts, bought, crashes>>
    BY <1>10 DEF ScanWrite
  <2>3. /\ topup' \in [Topups -> {"NONE", "PENDING", "CANCELED", "PAID"}]
        /\ credits' \in [Topups -> Nat] /\ balance' \in Int /\ ledger' \in Int
    BY <1>10 DEF ScanWrite
  <2>4. lost' \in BOOLEAN
    BY <1>10 DEF ScanWrite
  <2> HIDE DEF x
  <2> QED
    BY <2>1, <2>2, <2>3, <2>4 DEF ScanRecords
<1>11. CASE Crash
  BY <1>11 DEF Crash, IdleScan
<1>12. CASE Spend
  BY <1>12, Purchase DEF Spend
<1>13. ASSUME NEW n \in Adjustments, NEW action \in {"topup", "deduct", "set"}, AdjustRead(action, n)
       PROVE  TypeOK'
  <2>1. AdjustTo(action, n) \in Int
    BY DEF AdjustTo
  <2> QED
    BY <1>13, <2>1 DEF AdjustRead
<1>14. CASE AdjustWrite
  BY <1>14 DEF AdjustWrite, IdleAdjust
<1>15. ASSUME NEW f \in Followers, CreditCommission(f) PROVE TypeOK'
  BY <1>15 DEF CreditCommission
<1>16. ASSUME NEW f \in Followers, NEW r \in Referred, FollowRead(f, r) PROVE TypeOK'
  BY <1>16 DEF FollowRead
<1>17. ASSUME NEW q \in Refunders, RevokeCommission(q) PROVE TypeOK'
  BY <1>17, ClawBack DEF RevokeCommission, IdleRefund
<1>18. ASSUME NEW q \in Refunders, NEW r \in Referred, NEW parts \in 1 .. 2, RevokeRead(q, r, parts)
       PROVE  TypeOK'
  <2>1. credited[r] \div 2 \in Int /\ row[r] \in Int
    OBVIOUS
  <2>2. parts = 2 => Proportion(r, parts) \in Int
    BY <2>1, MinOfTwo DEF Proportion
  <2>3. (IF parts = 1 THEN 0 ELSE Proportion(r, parts)) \in Int
    BY <2>2
  <2> QED
    BY <1>18, <2>3 DEF RevokeRead
<1>19. CASE UNCHANGED vars
  BY <1>19 DEF vars
<1> HIDE DEF TypeOK, topupVars, walletVars, affiliateVars
<1> QED
  BY <1>1, <1>2, <1>4, <1>5, <1>6, <1>7, <1>8, <1>9, <1>10, <1>11, <1>12, <1>13, <1>14, <1>15,
     <1>16, <1>17, <1>18, <1>19 DEF Next

\* Every reachable state of the wallet is well typed.
THEOREM TypeCorrect == Spec => []TypeOK
<1>1. Init => TypeOK
  <2> SUFFICES ASSUME Init PROVE TypeOK
    OBVIOUS
  <2>1. rail \in [Topups -> {"callback", "notice", "chain"}]
    BY AmountsAssumption DEF Init
  <2>2. /\ topup \in [Topups -> {"NONE", "PENDING", "CANCELED", "PAID"}]
        /\ tagged \in [Topups -> BOOLEAN] /\ sent \in [Topups -> BOOLEAN]
        /\ submitted \in [Topups -> BOOLEAN] /\ credits \in [Topups -> Nat]
    BY DEF Init
  <2>3. scan \in [Scanners -> ScanRecords] /\ \A s \in Scanners : scan[s].pc = "idle"
    BY DEF Init, IdleScan, ScanRecords
  <2>4. refund \in [Refunders -> [r : Referred \union {None}, amount : Int]]
    BY DEF Init, IdleRefund
  <2>5. /\ adjust \in [pc : {"idle", "write"}, read : Int, to : Int]
        /\ row \in [Referred -> Int] /\ credited \in [Referred -> Int]
        /\ revoked \in [Referred -> Int] /\ follow \in [Followers -> Referred \union {None}]
    BY DEF Init, IdleAdjust
  <2>6. /\ balance \in Int /\ commission \in Int /\ ledger \in Int /\ earned \in Int
        /\ adjusts \in Nat /\ bought \in Nat /\ crashes \in Nat
    BY DEF Init
  <2>7. lost \in BOOLEAN
    BY DEF Init
  <2> QED
    BY <2>1, <2>2, <2>3, <2>4, <2>5, <2>6, <2>7 DEF TypeOK, ScanRecords
<1> QED
  BY <1>1, TypeInductive, PTL DEF Spec

-----------------------------------------------------------------------------
\* No balance that is written later is negative: neither the one a scanner has read nor
\* the one the seller's adjustment has computed.
Covered ==
    /\ NeverOverdrawn
    /\ \A s \in Scanners : scan[s].read >= 0
    /\ adjust.to >= 0

\* Every step keeps every balance, present and pending, nonnegative, and the ledger in step.
LEMMA MoneyInductive ==
    TypeOK /\ Covered /\ LedgerExplains /\ [Next]_vars => Covered' /\ LedgerExplains'
<1> SUFFICES ASSUME TypeOK, Covered, LedgerExplains, [Next]_vars PROVE Covered' /\ LedgerExplains'
  OBVIOUS
<1> USE AmountsAssumption DEF TypeOK, topupVars, walletVars, affiliateVars, Covered, NeverOverdrawn,
                              LedgerExplains
<1>1. ASSUME NEW t \in Topups, \/ CreateTopup(t) \/ Expire(t) \/ Send(t)
                               \/ Notice(t) \/ SubmitHash(t)
      PROVE  Covered' /\ LedgerExplains'
  BY <1>1 DEF CreateTopup, Expire, Send, Notice, SubmitHash
<1>2. ASSUME NEW t \in Topups, NEW c, MarkTopupPaid(t, c) PROVE Covered' /\ LedgerExplains'
  BY <1>2 DEF MarkTopupPaid
<1>3. ASSUME NEW t \in Topups, Callback(t) \/ NoticePaid(t) \/ HashPaid(t)
      PROVE  Covered' /\ LedgerExplains'
  BY <1>2, <1>3 DEF Callback, NoticePaid, HashPaid
<1>4. ASSUME NEW s \in Scanners, ScanLoad(s) \/ ScanEnd(s) \/ ScanTag(s)
      PROVE  Covered' /\ LedgerExplains'
  <2>1. UNCHANGED <<walletVars, adjust>>
    BY <1>4 DEF ScanLoad, ScanEnd, ScanTag
  <2>2. \A u \in Scanners : scan'[u].read >= 0
    <3>1. CASE ScanLoad(s)
      BY <3>1 DEF ScanLoad
    <3>2. CASE ScanEnd(s)
      BY <3>2 DEF ScanEnd, IdleScan
    <3>3. CASE ScanTag(s)
      BY <3>3 DEF ScanTag
    <3> QED
      BY <1>4, <3>1, <3>2, <3>3
  <2> QED
    BY <2>1, <2>2
<1>5. ASSUME NEW s \in Scanners, NEW t \in Topups, ScanFind(s, t) PROVE Covered' /\ LedgerExplains'
  BY <1>5 DEF ScanFind
<1>6. ASSUME NEW s \in Scanners, ScanRead(s) PROVE Covered' /\ LedgerExplains'
  BY <1>6 DEF ScanRead
<1>7. ASSUME NEW s \in Scanners, ScanWrite(s) PROVE Covered' /\ LedgerExplains'
  <2>1. Covered'
    BY <1>7 DEF ScanWrite
  <2>2. LedgerExplains'
    BY <1>7 DEF ScanWrite
  <2> QED
    BY <2>1, <2>2
<1>8. CASE Crash
  BY <1>8 DEF Crash, IdleScan
<1>9. CASE Spend
  BY <1>9, Purchase DEF Spend
<1>10. ASSUME NEW n \in Adjustments, NEW action \in {"topup", "deduct", "set"}, AdjustRead(action, n)
       PROVE  Covered' /\ LedgerExplains'
  BY <1>10 DEF AdjustRead
<1>11. CASE AdjustWrite
  <2>1. Covered'
    BY <1>11 DEF AdjustWrite, IdleAdjust
  <2>2. ~lost' => ~lost /\ balance = adjust.read
    BY <1>11, Zenon DEF AdjustWrite
  <2>3. /\ balance' = adjust.to /\ ledger' = ledger + (adjust.to - adjust.read)
        /\ UNCHANGED <<commission, earned>>
    BY <1>11 DEF AdjustWrite
  <2>4. LedgerExplains'
    BY <2>2, <2>3
  <2> QED
    BY <2>1, <2>4
<1>12. ASSUME NEW f \in Followers, CreditCommission(f) PROVE Covered' /\ LedgerExplains'
  BY <1>12 DEF CreditCommission
<1>13. ASSUME NEW f \in Followers, NEW r \in Referred, FollowRead(f, r)
       PROVE  Covered' /\ LedgerExplains'
  BY <1>13 DEF FollowRead
<1>14. ASSUME NEW q \in Refunders, RevokeCommission(q) PROVE Covered' /\ LedgerExplains'
  BY <1>14, ClawBack DEF RevokeCommission
<1>15. ASSUME NEW q \in Refunders, NEW r \in Referred, NEW parts \in 1 .. 2, RevokeRead(q, r, parts)
       PROVE  Covered' /\ LedgerExplains'
  BY <1>15 DEF RevokeRead
<1>16. CASE UNCHANGED vars
  BY <1>16 DEF vars
<1> QED
  BY <1>1, <1>3, <1>4, <1>5, <1>6, <1>7, <1>8, <1>9, <1>10, <1>11, <1>12, <1>13, <1>14, <1>15,
     <1>16 DEF Next

\* The balances and the ledger, in every reachable state.
LEMMA MoneyInvariant == Spec => [](Covered /\ LedgerExplains)
<1>1. Init => Covered /\ LedgerExplains
  BY DEF Init, Covered, NeverOverdrawn, LedgerExplains, IdleScan, IdleAdjust
<1> QED
  BY <1>1, MoneyInductive, TypeCorrect, PTL DEF Spec

\* The main balance is never negative, for all amounts: a purchase after a claw-back that
\* left a commission debt pays the debt only if the main balance covers it, and a balance
\* that a scanner or the seller's adjustment writes from a stale read is not negative either.
THEOREM WalletNeverOverdrawn == Spec => []NeverOverdrawn
<1>1. Covered => NeverOverdrawn
  BY DEF Covered
<1> QED
  BY <1>1, MoneyInvariant, PTL

\* The ledger rows add up to the balances as long as no scanner and no adjustment has
\* written over a change it had not seen, whatever else interleaves.
THEOREM LedgerInStep == Spec => []LedgerExplains
  BY MoneyInvariant, PTL

-----------------------------------------------------------------------------
\* The scanners only handle top-ups of the chain, and any other top-up that was credited,
\* once, is PAID.
Credits ==
    /\ \A s \in Scanners : /\ \A t \in scan[s].todo : rail[t] = "chain"
                           /\ scan[s].cur \in Topups => rail[scan[s].cur] = "chain"
    /\ \A t \in Topups : rail[t] # "chain" => credits[t] = IF topup[t] = "PAID" THEN 1 ELSE 0

\* However often a provider or a bank confirms, whether or not the top-up had expired, and
\* whatever the scanners write without looking, a bank or card top-up is credited once.
THEOREM CallbackCreditsOnce == Spec => []CallbackOnce
<1>1. Init => Credits
  BY NamesAssumption DEF Init, Credits, IdleScan
<1>2. TypeOK /\ Credits /\ [Next]_vars => Credits'
  <2> SUFFICES ASSUME TypeOK, Credits, [Next]_vars PROVE Credits'
    OBVIOUS
  <2> USE NamesAssumption DEF TypeOK, topupVars, walletVars, affiliateVars, Credits
  <2>1. ASSUME NEW t \in Topups, CreateTopup(t) \/ Expire(t) PROVE Credits'
    BY <2>1 DEF CreateTopup, Expire
  <2>2. ASSUME NEW t \in Topups, Send(t) \/ Notice(t) \/ SubmitHash(t) PROVE Credits'
    BY <2>2 DEF Send, Notice, SubmitHash
  <2>3. ASSUME NEW t \in Topups, NEW c, MarkTopupPaid(t, c) PROVE Credits'
    BY <2>3 DEF MarkTopupPaid, Payable
  <2>4. ASSUME NEW t \in Topups, Callback(t) \/ NoticePaid(t) \/ HashPaid(t) PROVE Credits'
    BY <2>3, <2>4, ZenonT(60) DEF Callback, NoticePaid, HashPaid
  <2>5. ASSUME NEW s \in Scanners, ScanLoad(s) \/ ScanEnd(s) PROVE Credits'
    <3>1. CASE ScanLoad(s)
      BY <3>1 DEF ScanLoad
    <3>2. CASE ScanEnd(s)
      BY <3>2 DEF ScanEnd, IdleScan
    <3> QED
      BY <2>5, <3>1, <3>2
  <2>14. ASSUME NEW s \in Scanners, ScanTag(s) \/ ScanRead(s) PROVE Credits'
    <3>1. CASE ScanTag(s)
      BY <3>1 DEF ScanTag
    <3>2. CASE ScanRead(s)
      BY <3>2 DEF ScanRead
    <3> QED
      BY <2>14, <3>1, <3>2
  <2>6. ASSUME NEW s \in Scanners, NEW t \in Topups, ScanFind(s, t) PROVE Credits'
    BY <2>6 DEF ScanFind
  <2>7. ASSUME NEW s \in Scanners, ScanWrite(s) PROVE Credits'
    BY <2>7 DEF ScanWrite
  <2>8. CASE Crash
    BY <2>8 DEF Crash, IdleScan
  <2>9. CASE Spend \/ AdjustWrite
    BY <2>9 DEF Spend, AdjustWrite
  <2>10. ASSUME NEW n, NEW action, AdjustRead(action, n) PROVE Credits'
    BY <2>10 DEF AdjustRead
  <2>11. ASSUME NEW f \in Followers, NEW r, CreditCommission(f) \/ FollowRead(f, r) PROVE Credits'
    BY <2>11 DEF CreditCommission, FollowRead
  <2>12. ASSUME NEW q \in Refunders, NEW r, NEW parts, RevokeCommission(q) \/ RevokeRead(q, r, parts)
         PROVE  Credits'
    BY <2>12 DEF RevokeCommission, RevokeRead
  <2>13. CASE UNCHANGED vars
    BY <2>13 DEF vars
  <2> QED
    BY <2>1, <2>2, <2>4, <2>5, <2>6, <2>7, <2>8, <2>9, <2>10, <2>11, <2>12, <2>13, <2>14 DEF Next
<1>3. Credits => CallbackOnce
  BY DEF Credits, CallbackOnce
<1> QED
  BY <1>1, <1>2, <1>3, TypeCorrect, PTL DEF Spec

-----------------------------------------------------------------------------
\* With any number of follow-up jobs that credit an order's commission twice and refunds
\* that ask for a share computed from a stale read, revokeCommission's look at the locked
\* row keeps claw-backs within what was credited and not yet taken back.
THEOREM ClawBackCovered == Spec => []CommissionCovered
<1>1. Init => CommissionCovered
  BY DEF Init, CommissionCovered
<1>2. TypeOK /\ CommissionCovered /\ [Next]_vars => CommissionCovered'
  <2> SUFFICES ASSUME TypeOK, CommissionCovered, [Next]_vars PROVE CommissionCovered'
    OBVIOUS
  <2> USE AmountsAssumption DEF TypeOK, affiliateVars, CommissionCovered
  <2>1. ASSUME NEW f \in Followers, CreditCommission(f) PROVE CommissionCovered'
    BY <2>1 DEF CreditCommission
  <2>2. ASSUME NEW q \in Refunders, RevokeCommission(q) PROVE CommissionCovered'
    BY <2>2, ClawBack DEF RevokeCommission
  <2>3. CASE UNCHANGED <<row, credited, revoked>>
    BY <2>3
  <2>4. ASSUME NEW t \in Topups,
               \/ CreateTopup(t) \/ Send(t) \/ Expire(t) \/ Callback(t) \/ Notice(t)
               \/ NoticePaid(t) \/ SubmitHash(t) \/ HashPaid(t)
        PROVE  UNCHANGED <<row, credited, revoked>>
    BY <2>4 DEF CreateTopup, Send, Expire, Callback, Notice, NoticePaid, SubmitHash, HashPaid,
                MarkTopupPaid
  <2>5. ASSUME NEW s \in Scanners, NEW t,
               \/ ScanLoad(s) \/ ScanEnd(s) \/ ScanTag(s) \/ ScanRead(s) \/ ScanWrite(s)
               \/ ScanFind(s, t)
        PROVE  UNCHANGED <<row, credited, revoked>>
    BY <2>5 DEF ScanLoad, ScanEnd, ScanTag, ScanRead, ScanWrite, ScanFind
  <2>6. CASE Crash \/ Spend \/ AdjustWrite \/ UNCHANGED vars
    BY <2>6 DEF Crash, Spend, AdjustWrite, vars
  <2>7. ASSUME NEW n, NEW action, NEW f, NEW q, NEW r, NEW parts,
               AdjustRead(action, n) \/ FollowRead(f, r) \/ RevokeRead(q, r, parts)
        PROVE  UNCHANGED <<row, credited, revoked>>
    BY <2>7 DEF AdjustRead, FollowRead, RevokeRead
  <2> QED
    BY <2>1, <2>2, <2>3, <2>4, <2>5, <2>6, <2>7 DEF Next
<1> QED
  BY <1>1, <1>2, TypeCorrect, PTL DEF Spec

-----------------------------------------------------------------------------
\* What a running handler may hold.
Hands == [u : 0 .. MaxUpdates, in : Inputs \union {"none"}, pc : Steps,
          d : {NoDialog} \union Dialogs]
\* What a dialogue may be about.
Subjects == {"none", "plain", "social", "topup", "connection", "warranty"}
\* What may have become of the order or top-up of a dialogue.
Bills == {"none", "unpaid", "paid", "closed"}

\* The keys that carry the right to make something.
Rights == {"quantity", "social", "payment", "topup", "connection", "warranty", "account"}
\* The steps of a purchase after the quantity or the way to pay was asked for.
Shop == {"ask", "quantity", "method", "buy", "create"}
\* The steps on the way to an order, a top-up or a claim.
Making == Shop \union {"social", "offer", "topup", "connection", "warranty", "account",
                       "check", "make"}

\* A handler at step pc leaves its dialogue in the key of kind k until it closes it.
MayKeep(pc, k) ==
    \/ pc \in {"quantity", "buy"} /\ k = "quantity"
    \/ pc \in {"method", "buy"} /\ k = "payment"
    \/ pc \in {"topup", "toppedUp"} /\ k = "topup"
    \/ pc \in {"social", "connection", "warranty", "account"} /\ k = pc

\* Handlers that run are handlers of different updates; a dialogue that has not begun has
\* no traces.
Known ==
    /\ \A h \in Handlers : hand[h].pc = "idle" => hand[h] = Idle
    /\ \A h \in Handlers : hand[h].pc = "run" => hand[h].d = NoDialog
    /\ \A h \in Handlers : hand[h].pc # "idle" => hand[h].u \in claimed
    /\ \A g, h \in Handlers :
          hand[g].pc # "idle" /\ hand[h].pc # "idle" /\ hand[g].u = hand[h].u => g = h
    /\ \A d \in Dialogs : subject[d] = "none" => invoice[d] = "none" /\ made[d] = 0
    /\ last # Idle => last.u # 0

\* Questions and handlers of a purchase have a dialogue about one.
Fit ==
    /\ \A k \in {"quantity", "payment"} :
          sess[k] # NoDialog => subject[sess[k]] \in {"plain", "social"}
    /\ sess["social"] # NoDialog => subject[sess["social"]] = "social"
    /\ sess["topup"] # NoDialog => subject[sess["topup"]] = "topup"
    /\ \A h \in Handlers :
          /\ hand[h].pc \in Shop => subject[hand[h].d] \in {"plain", "social"}
          /\ hand[h].pc \in {"social", "offer"} => subject[hand[h].d] = "social"
          /\ hand[h].pc = "topup" => subject[hand[h].d] = "topup"

\* The right to make something of dialogue d is in one place, a key or a handler and the
\* key it will close, and it is gone once something was made.
Sole(d) ==
    /\ \A j, k \in Rights : sess[j] = d /\ sess[k] = d => j = k
    /\ \A g, h \in Handlers : hand[g].d = d /\ hand[h].d = d => g = h
    /\ \A h \in Handlers, k \in Rights :
          hand[h].d = d /\ hand[h].pc \in Making \union {"toppedUp"} /\ sess[k] = d
              => MayKeep(hand[h].pc, k)
    /\ made[d] <= 1
    /\ \A h \in Handlers : hand[h].d = d /\ hand[h].pc \in Making => made[d] = 0
    /\ \A k \in Rights : sess[k] = d =>
          made[d] = 0 \/ \E h \in Handlers : hand[h].d = d /\ hand[h].pc = "toppedUp"

\* Dialogues two updates worked on are left out.
AllSole == \A d \in Dialogs : d \notin shared => Sole(d)

\* Dialogue d is on the way to an order.
Shopping(d) ==
    \/ sess["quantity"] = d \/ sess["payment"] = d
    \/ \E h \in Handlers : hand[h].d = d /\ hand[h].pc \in Shop

\* An order of an own product awaits its payment.
Owed(d) == subject[d] = "plain" /\ invoice[d] = "unpaid"

\* One update after the other: one handler, and while an order of an own product is
\* unpaid no dialogue is on the way to another.
OneOrder ==
    ~overlapped =>
        /\ \A g, h \in Handlers : hand[g].pc # "idle" /\ hand[h].pc # "idle" => g = h
        /\ \A h \in Handlers : hand[h].pc = "create" =>
              sess["quantity"] = NoDialog /\ sess["payment"] = NoDialog
        /\ \A c, d \in Dialogs : Owed(c) /\ Owed(d) => c = d
        /\ \A c, d \in Dialogs : Owed(c) /\ subject[d] = "plain" => ~Shopping(d)

\* The inductive invariant of the dialogues.
ChatInv == ChatTypeOK /\ Known /\ Fit /\ AllSole /\ OneOrder

-----------------------------------------------------------------------------
\* A handler moves, the others stay.
LEMMA OneHand ==
    ASSUME hand \in [Handlers -> Hands], NEW h \in Handlers, NEW x \in Hands,
           hand' = [hand EXCEPT ![h] = x]
    PROVE  /\ hand' \in [Handlers -> Hands] /\ hand'[h] = x
           /\ \A g \in Handlers : g # h => hand'[g] = hand[g]
  OBVIOUS

\* The ranges of the variables.
Chat ==
    /\ talk \in Talks
    /\ sess \in [Kinds -> {NoDialog} \union Dialogs]
    /\ subject \in [Dialogs -> Subjects]
    /\ invoice \in [Dialogs -> Bills]
    /\ made \in [Dialogs -> Nat]
    /\ hand \in [Handlers -> Hands]
    /\ updates \in 0 .. MaxUpdates /\ claimed \subseteq 1 .. updates
    /\ last \in [u : 0 .. updates, in : Inputs \union {"none"}, pc : {"idle"}, d : {NoDialog}]
    /\ resends \in 0 .. MaxResends /\ deaths \in 0 .. MaxDeaths
    /\ overlapped \in BOOLEAN /\ shared \subseteq {NoDialog} \union Dialogs

\* Handlers and keys name dialogues that have begun.
Begun ==
    /\ \A h \in Handlers :
           hand[h].pc \notin {"idle", "run"} => hand[h].d # NoDialog /\ subject[hand[h].d] # "none"
    /\ \A k \in Kinds : sess[k] # NoDialog => subject[sess[k]] # "none"

\* The type invariant is these two parts ...
LEMMA TypeParts == ChatTypeOK <=> Chat /\ Begun
  BY DEF ChatTypeOK, Chat, Begun, Hands, Subjects, Bills

\* ... in the next state, too.
LEMMA TypePartsNext == Chat' /\ Begun' => ChatTypeOK'
  BY DEF ChatTypeOK, Chat, Begun, Hands, Subjects, Bills

\* A handler that does nothing.
LEMMA IdleHand == Idle \in Hands /\ Idle.pc = "idle" /\ Idle.d = NoDialog
  BY ChatBounds DEF Idle, Hands, Steps

\* Who is at work has a dialogue or has just begun.
LEMMA Dialogue ==
    ASSUME ChatInv, NEW h \in Handlers, hand[h].pc \notin {"idle", "run"}
    PROVE  hand[h].d \in Dialogs /\ hand[h] \in Hands /\ subject[hand[h].d] # "none"
  BY TypeParts DEF ChatInv, Chat, Begun, Hands

\* No new handler, order or way to one.
LEMMA OrderKept ==
    ASSUME OneOrder, overlapped' = overlapped,
           \A g \in Handlers : hand'[g].pc # "idle" => hand[g].pc # "idle",
           \A g \in Handlers : ~overlapped /\ hand'[g].pc = "create" =>
               sess'["quantity"] = NoDialog /\ sess'["payment"] = NoDialog,
           \A d \in Dialogs : Owed(d)' => Owed(d),
           \A d \in Dialogs : subject'[d] = "plain" /\ Shopping(d)' =>
               \/ subject[d] = "plain" /\ Shopping(d)
               \/ \A c \in Dialogs : ~Owed(c)
    PROVE  OneOrder'
<1> SUFFICES ASSUME ~overlapped
             PROVE  /\ \A g, h \in Handlers : hand'[g].pc # "idle" /\ hand'[h].pc # "idle" => g = h
                    /\ \A c, d \in Dialogs : Owed(c)' /\ Owed(d)' => c = d
                    /\ \A c, d \in Dialogs : Owed(c)' /\ subject'[d] = "plain" => ~Shopping(d)'
  BY DEF OneOrder
<1>1. /\ \A g, h \in Handlers : hand[g].pc # "idle" /\ hand[h].pc # "idle" => g = h
      /\ \A c, d \in Dialogs : Owed(c) /\ Owed(d) => c = d
      /\ \A c, d \in Dialogs : Owed(c) /\ subject[d] = "plain" => ~Shopping(d)
  BY DEF OneOrder
<1> QED
  BY <1>1

-----------------------------------------------------------------------------
\* The handler is done, having closed questions at most.
Leaves(h) ==
    /\ hand[h].pc # "idle" /\ hand' = [hand EXCEPT ![h] = Idle]
    /\ sess' \in [Kinds -> {NoDialog} \union Dialogs]
    /\ \A k \in Rights : sess'[k] \in {sess[k], NoDialog}
    /\ \A k \in Kinds : sess'[k] # NoDialog => subject[sess'[k]] # "none"
    /\ hand[h].pc = "toppedUp" => sess'["topup"] = NoDialog
    /\ invoice' \in [Dialogs -> Bills]
    /\ \A d \in Dialogs :
          \/ invoice'[d] = invoice[d]
          \/ subject[d] # "none" /\ invoice'[d] # "unpaid"
    /\ subject' = subject /\ made' = made /\ shared' = shared
    /\ UNCHANGED mailVars

\* A handler that is done keeps the invariant.
LEMMA LeavesKeeps ==
    ASSUME ChatInv, NEW h \in Handlers, Leaves(h)
    PROVE  ChatInv'
<1>1. /\ Chat /\ Begun /\ hand' \in [Handlers -> Hands] /\ hand'[h] = Idle
      /\ \A g \in Handlers : g # h => hand'[g] = hand[g]
  BY TypeParts, IdleHand, OneHand DEF ChatInv, Leaves, Chat
<1>2. Chat'
  BY <1>1 DEF Chat, Leaves, mailVars
<1>3. Begun'
  BY <1>1, IdleHand DEF Begun, Leaves
<1>4. Known'
  <2>1. Known
    BY DEF ChatInv
  <2> QED
    BY <1>1, <2>1, IdleHand DEF Known, Leaves, mailVars
<1>5. Fit'
  <2>1. Fit
    BY DEF ChatInv
  <2> QED
    BY <1>1, <2>1, IdleHand DEF Fit, Leaves, Shop, Rights
<1>6. AllSole'
  <2> SUFFICES ASSUME NEW d \in Dialogs, d \notin shared, Sole(d) PROVE Sole(d)'
    BY DEF ChatInv, AllSole, Leaves
  <2>1. /\ \A g \in Handlers : hand'[g].d = d => g # h /\ hand[g].d = d /\ hand'[g].pc = hand[g].pc
        /\ \A k \in Rights : sess'[k] = d => sess[k] = d
        /\ made'[d] = made[d]
    BY <1>1, IdleHand DEF Leaves, Dialogs, NoDialog
  <2>2. ASSUME NEW k \in Rights, sess'[k] = d
        PROVE  made[d] = 0 \/ \E g \in Handlers : hand'[g].d = d /\ hand'[g].pc = "toppedUp"
    <3>1. sess[k] = d
      BY <2>1, <2>2
    <3>2. ASSUME NEW g \in Handlers, hand[g].d = d, hand[g].pc = "toppedUp"
          PROVE  hand'[g].d = d /\ hand'[g].pc = "toppedUp"
      <4>1. MayKeep("toppedUp", k)
        BY <3>1, <3>2 DEF Sole
      <4>2. g # h
        BY <4>1, <2>2, <3>2 DEF MayKeep, Leaves, NoDialog, Dialogs
      <4> QED
        BY <4>2, <3>2, <1>1
    <3> QED
      BY <3>1, <3>2 DEF Sole
  <2> QED
    BY <2>1, <2>2 DEF Sole
<1>7. OneOrder'
  <2>1. OneOrder
    BY DEF ChatInv
  <2>2. \A d \in Dialogs : Shopping(d)' => Shopping(d)
    BY <1>1, IdleHand DEF Shopping, Leaves, Rights, Shop, NoDialog, Dialogs
  <2>3. \A d \in Dialogs : Owed(d)' => Owed(d)
    BY DEF Leaves, Owed
  <2>4. /\ \A g \in Handlers : hand'[g].pc # "idle" => hand[g].pc = hand'[g].pc /\ hand[g].pc # "idle"
        /\ sess["quantity"] = NoDialog => sess'["quantity"] = NoDialog
        /\ sess["payment"] = NoDialog => sess'["payment"] = NoDialog
        /\ overlapped' = overlapped /\ subject' = subject
    BY <1>1, IdleHand DEF Leaves, mailVars, Rights
  <2>5. \A g \in Handlers : ~overlapped /\ hand'[g].pc = "create" =>
            sess'["quantity"] = NoDialog /\ sess'["payment"] = NoDialog
    BY <2>1, <2>4 DEF OneOrder
  <2> QED
    BY <2>1, <2>2, <2>3, <2>4, <2>5, OrderKept
<1> QED
  BY <1>2, <1>3, <1>4, <1>5, <1>6, <1>7, TypePartsNext DEF ChatInv

-----------------------------------------------------------------------------
\* The handler asks its customer about its dialogue, in key k, and is done.
Asks(h, k) ==
    /\ hand[h].pc \in Making /\ hand' = [hand EXCEPT ![h] = Idle]
    /\ sess' \in [Kinds -> {NoDialog} \union Dialogs]
    /\ \A j \in Kinds : sess'[j] # NoDialog => subject[sess'[j]] # "none"
    /\ sess'[k] = hand[h].d
    /\ \A j \in Rights : j # k =>
          sess'[j] \in {sess[j], NoDialog} /\ ~ (MayKeep(hand[h].pc, j) /\ sess'[j] = hand[h].d)
    /\ k = "quantity" => hand[h].pc \in Shop
    /\ k = "payment" => hand[h].pc \in Shop \/ subject[hand[h].d] = "social"
    /\ k = "social" => subject[hand[h].d] = "social"
    /\ k # "topup"
    /\ subject' = subject /\ invoice' = invoice /\ made' = made /\ shared' = shared
    /\ UNCHANGED mailVars

\* A question about a handler's own dialogue keeps the invariant.
LEMMA AsksKeeps ==
    ASSUME ChatInv, NEW h \in Handlers, NEW k \in Rights, Asks(h, k)
    PROVE  ChatInv'
<1>0. /\ hand[h].d \in Dialogs /\ subject[hand[h].d] # "none" /\ hand[h].d # NoDialog
      /\ hand[h].pc \notin {"idle", "run"}
  BY Dialogue DEF Asks, Making, Shop, Dialogs, NoDialog
<1>1. /\ Chat /\ Begun /\ hand' \in [Handlers -> Hands] /\ hand'[h] = Idle
      /\ \A g \in Handlers : g # h => hand'[g] = hand[g]
  BY TypeParts, IdleHand, OneHand DEF ChatInv, Asks, Chat
<1>2. Chat'
  BY <1>1 DEF Chat, Asks, mailVars
<1>3. Begun'
  BY <1>1, IdleHand DEF Begun, Asks
<1>4. Known'
  <2>1. Known
    BY DEF ChatInv
  <2> QED
    BY <1>1, <2>1, IdleHand DEF Known, Asks, mailVars
<1>5. Fit'
  <2>1. Fit
    BY DEF ChatInv
  <2>2. \A g \in Handlers : hand'[g].pc # "idle" => hand'[g] = hand[g]
    BY <1>1, IdleHand
  <2>3. \A j \in Rights : j # k => sess'[j] \in {sess[j], NoDialog}
    BY DEF Asks
  <2>4. k = "quantity" \/ k = "payment" => subject[hand[h].d] \in {"plain", "social"}
    BY <2>1 DEF Fit, Asks
  <2> QED
    BY <2>1, <2>2, <2>3, <2>4 DEF Fit, Asks, Shop, Rights
<1>6. AllSole'
  <2> SUFFICES ASSUME NEW d \in Dialogs, d \notin shared, Sole(d) PROVE Sole(d)'
    BY DEF ChatInv, AllSole, Asks
  <2>1. /\ \A g \in Handlers : hand'[g].d = d => g # h /\ hand[g].d = d /\ hand'[g].pc = hand[g].pc
        /\ made'[d] = made[d]
    BY <1>1, IdleHand DEF Asks, Dialogs, NoDialog
  <2>2. CASE d # hand[h].d
    <3>1. /\ \A j \in Rights : sess'[j] = d => sess[j] = d
          /\ \A g \in Handlers : hand[g].d = d => hand'[g].d = d /\ hand'[g].pc = hand[g].pc
      BY <1>1, <2>2 DEF Asks, Dialogs, NoDialog
    <3> QED
      BY <2>1, <3>1 DEF Sole
  <2>3. CASE d = hand[h].d
    <3>1. made[d] = 0 /\ \A g \in Handlers : hand'[g].d # d
      BY <2>1, <2>3 DEF Sole, Asks
    <3>2. \A j \in Rights : sess'[j] = d => j = k
      BY <2>3 DEF Sole, Asks, Dialogs, NoDialog
    <3> QED
      BY <2>1, <3>1, <3>2 DEF Sole
  <2> QED
    BY <2>2, <2>3
<1>7. OneOrder'
  <2>1. OneOrder
    BY DEF ChatInv
  <2>2. \A d \in Dialogs : subject'[d] = "plain" /\ Shopping(d)' => subject[d] = "plain" /\ Shopping(d)
    BY <1>0, <1>1, IdleHand DEF Shopping, Asks, Rights, Shop, NoDialog, Dialogs
  <2>3. \A d \in Dialogs : Owed(d)' => Owed(d)
    BY DEF Asks, Owed
  <2>4. /\ \A g \in Handlers : hand'[g].pc # "idle" => g # h /\ hand[g].pc # "idle"
        /\ overlapped' = overlapped /\ hand[h].pc # "idle"
    BY <1>0, <1>1, IdleHand DEF Asks, mailVars
  <2>5. \A g \in Handlers : ~overlapped /\ hand'[g].pc = "create" =>
            sess'["quantity"] = NoDialog /\ sess'["payment"] = NoDialog
    BY <2>1, <2>4 DEF OneOrder
  <2> QED
    BY <2>1, <2>2, <2>3, <2>4, <2>5, OrderKept
<1> QED
  BY <1>2, <1>3, <1>4, <1>5, <1>6, <1>7, TypePartsNext DEF ChatInv

-----------------------------------------------------------------------------
\* The handler begins dialogue d with a question in key k and is done.
Opening(h, k, d) ==
    /\ hand[h].pc = "run" /\ hand' = [hand EXCEPT ![h] = Idle]
    /\ subject[d] = "none" /\ k \in {"topup", "social", "connection", "warranty"}
    /\ subject' = [subject EXCEPT ![d] = k]
    /\ sess' \in [Kinds -> {NoDialog} \union Dialogs] /\ sess'[k] = d
    /\ \A j \in Kinds : j # k => sess'[j] \in {sess[j], NoDialog}
    /\ invoice' = invoice /\ made' = made /\ shared' = shared
    /\ UNCHANGED mailVars

\* A question that begins a dialogue keeps the invariant.
LEMMA OpeningKeeps ==
    ASSUME ChatInv, NEW h \in Handlers, NEW k, NEW d \in Dialogs, Opening(h, k, d)
    PROVE  ChatInv'
<1>1. /\ Chat /\ Begun /\ hand' \in [Handlers -> Hands] /\ hand'[h] = Idle
      /\ \A g \in Handlers : g # h => hand'[g] = hand[g]
  BY TypeParts, IdleHand, OneHand DEF ChatInv, Opening, Chat
<1>2. /\ subject' \in [Dialogs -> Subjects] /\ subject'[d] = k
      /\ \A c \in Dialogs : c # d => subject'[c] = subject[c]
      /\ k \in Rights /\ k # "none" /\ k # "plain" /\ Rights \subseteq Kinds
  BY <1>1 DEF Chat, Opening, Subjects, Rights, Kinds
<1>3. /\ \A g \in Handlers : hand[g].d # d
      /\ \A j \in Kinds : sess[j] # d
      /\ invoice[d] = "none" /\ made[d] = 0 /\ d # NoDialog
  <2>1. \A g \in Handlers : hand[g].pc = "idle" => hand[g].d = NoDialog
    BY IdleHand DEF ChatInv, Known
  <2>2. \A g \in Handlers : hand[g].pc = "run" => hand[g].d = NoDialog
    BY DEF ChatInv, Known
  <2>3. d # NoDialog
    BY DEF Dialogs, NoDialog
  <2> QED
    BY <2>1, <2>2, <2>3, <1>1 DEF ChatInv, Known, Begun, Opening
<1>4. \A g \in Handlers : hand'[g].pc # "idle" => g # h /\ hand'[g] = hand[g]
  BY <1>1, IdleHand
<1>5. Chat'
  BY <1>1, <1>2 DEF Chat, Opening, mailVars
<1>6. Begun'
  <2>1. ASSUME NEW g \in Handlers, hand'[g].pc \notin {"idle", "run"}
        PROVE  hand'[g].d # NoDialog /\ subject'[hand'[g].d] # "none"
    <3>1. hand'[g] = hand[g] /\ hand[g].d \in Dialogs /\ subject[hand[g].d] # "none"
      BY <1>4, <2>1, Dialogue
    <3> QED
      BY <3>1, <1>2, <1>3, <2>1 DEF Dialogs, NoDialog
  <2>2. ASSUME NEW j \in Kinds, sess'[j] # NoDialog PROVE subject'[sess'[j]] # "none"
    <3>1. CASE j = k
      BY <3>1, <1>2 DEF Opening
    <3>2. CASE j # k
      <4>1. sess'[j] = sess[j] /\ sess[j] \in Dialogs /\ subject[sess[j]] # "none"
        BY <3>2, <2>2, <1>1 DEF Opening, Begun, Chat
      <4> QED
        BY <4>1, <1>2, <1>3
    <3> QED
      BY <3>1, <3>2
  <2> QED
    BY <2>1, <2>2 DEF Begun
<1>7. Known'
  <2>1. Known
    BY DEF ChatInv
  <2> QED
    BY <1>1, <1>2, <1>3, <2>1, IdleHand DEF Known, Opening, mailVars
<1>8. Fit'
  <2>1. Fit
    BY DEF ChatInv
  <2>2. ASSUME NEW j \in Kinds, sess'[j] # NoDialog, j # k
        PROVE  sess'[j] = sess[j] /\ subject'[sess'[j]] = subject[sess[j]]
    <3>1. sess'[j] = sess[j] /\ sess[j] \in Dialogs
      BY <2>2, <1>1 DEF Opening, Chat
    <3> QED
      BY <3>1, <1>2, <1>3
  <2>3. ASSUME NEW g \in Handlers, hand'[g].pc \notin {"idle", "run"}
        PROVE  hand'[g] = hand[g] /\ subject'[hand'[g].d] = subject[hand[g].d]
    <3>1. hand'[g] = hand[g] /\ hand[g].d \in Dialogs
      BY <1>4, <2>3, Dialogue
    <3> QED
      BY <3>1, <1>2, <1>3
  <2>4. subject'[sess'[k]] = k
    BY <1>2 DEF Opening
  <2>5. /\ \A j \in {"quantity", "payment"} :
             sess'[j] # NoDialog => subject'[sess'[j]] \in {"plain", "social"}
        /\ sess'["social"] # NoDialog => subject'[sess'["social"]] = "social"
        /\ sess'["topup"] # NoDialog => subject'[sess'["topup"]] = "topup"
    BY <2>1, <2>2, <2>4 DEF Fit, Kinds, Opening
  <2>6. \A g \in Handlers :
          /\ hand'[g].pc \in Shop => subject'[hand'[g].d] \in {"plain", "social"}
          /\ hand'[g].pc \in {"social", "offer"} => subject'[hand'[g].d] = "social"
          /\ hand'[g].pc = "topup" => subject'[hand'[g].d] = "topup"
    BY <2>1, <2>3 DEF Fit, Shop
  <2> QED
    BY <2>5, <2>6 DEF Fit
<1>9. AllSole'
  <2> SUFFICES ASSUME NEW c \in Dialogs, c \notin shared, Sole(c) PROVE Sole(c)'
    BY DEF ChatInv, AllSole, Opening
  <2>1. /\ \A g \in Handlers : hand'[g].d = c => g # h /\ hand[g].d = c /\ hand'[g].pc = hand[g].pc
        /\ \A g \in Handlers : hand[g].d = c => hand'[g].d = c /\ hand'[g].pc = hand[g].pc
        /\ made'[c] = made[c]
    <3>1. hand[h].d = NoDialog /\ c # NoDialog
      BY DEF ChatInv, Known, Opening, Dialogs, NoDialog
    <3> QED
      BY <3>1, <1>1, IdleHand DEF Opening
  <2>2. CASE c # d
    <3>1. \A j \in Rights : sess'[j] = c => sess[j] = c
      BY <1>2, <2>2 DEF Opening, Dialogs, NoDialog
    <3> QED
      BY <2>1, <3>1 DEF Sole
  <2>3. CASE c = d
    <3>1. ASSUME NEW j \in Rights, sess'[j] = c, j # k PROVE FALSE
      <4>1. j \in Kinds /\ sess'[j] \in {sess[j], NoDialog}
        BY <1>2, <3>1 DEF Opening
      <4> QED
        BY <4>1, <3>1, <2>3, <1>3
    <3> QED
      BY <2>1, <2>3, <3>1, <1>3 DEF Sole
  <2> QED
    BY <2>2, <2>3
<1>10. OneOrder'
  <2>1. OneOrder
    BY DEF ChatInv
  <2>2. ASSUME NEW c \in Dialogs, subject'[c] = "plain", Shopping(c)'
        PROVE  subject[c] = "plain" /\ Shopping(c)
    <3>1. c # d /\ c # NoDialog
      BY <2>2, <1>2 DEF Dialogs, NoDialog
    <3>2. /\ sess'["quantity"] = c => sess["quantity"] = c
          /\ sess'["payment"] = c => sess["payment"] = c
      BY <3>1 DEF Opening, Kinds
    <3>3. \A g \in Handlers : hand'[g].pc \in Shop => hand'[g] = hand[g]
      BY <1>4 DEF Shop
    <3> QED
      BY <2>2, <3>1, <3>2, <3>3, <1>2 DEF Shopping
  <2>3. \A c \in Dialogs : Owed(c)' => Owed(c)
    BY <1>2 DEF Opening, Owed
  <2>4. overlapped' = overlapped
    BY DEF Opening, mailVars
  <2>5. \A g \in Handlers : ~overlapped /\ hand'[g].pc = "create" =>
            sess'["quantity"] = NoDialog /\ sess'["payment"] = NoDialog
    BY <2>1, <1>4 DEF OneOrder, Opening, Kinds
  <2> QED
    BY <2>1, <2>2, <2>3, <2>4, <2>5, <1>4, OrderKept
<1> QED
  BY <1>5, <1>6, <1>7, <1>8, <1>9, <1>10, TypePartsNext DEF ChatInv

-----------------------------------------------------------------------------
\* The handler goes on with its dialogue at another step, having closed questions at most.
GoesOn(h, p) ==
    /\ hand[h].pc \notin {"idle", "run", "toppedUp"} /\ hand' = [hand EXCEPT ![h].pc = p]
    /\ p \in Steps \ {"idle", "run", "toppedUp"}
    /\ p \in Making => hand[h].pc \in Making
    /\ sess' \in [Kinds -> {NoDialog} \union Dialogs]
    /\ \A k \in Kinds : sess'[k] \in {sess[k], NoDialog}
    /\ \A k \in Rights : p \in Making /\ MayKeep(hand[h].pc, k) =>
          MayKeep(p, k) \/ sess'[k] = NoDialog
    /\ p \in Shop => hand[h].pc \in Shop \/ subject[hand[h].d] = "social"
    /\ p \in Shop => subject[hand[h].d] \in {"plain", "social"}
    /\ p \in {"social", "offer"} => subject[hand[h].d] = "social"
    /\ p # "topup"
    /\ p = "create" => sess'["quantity"] = NoDialog /\ sess'["payment"] = NoDialog
    /\ subject' = subject /\ invoice' = invoice /\ made' = made /\ shared' = shared
    /\ UNCHANGED mailVars

\* A handler that goes on keeps the invariant.
LEMMA GoesOnKeeps ==
    ASSUME ChatInv, NEW h \in Handlers, NEW p, GoesOn(h, p)
    PROVE  ChatInv'
<1>1. Chat /\ Begun /\ Known /\ Fit /\ AllSole /\ OneOrder
  BY TypeParts DEF ChatInv
<1>2. /\ hand[h].d \in Dialogs /\ subject[hand[h].d] # "none" /\ hand[h].d # NoDialog
      /\ hand[h] \in Hands
  BY Dialogue DEF GoesOn, Dialogs, NoDialog
<1>3. /\ hand' \in [Handlers -> Hands] /\ hand'[h].pc = p /\ hand'[h].d = hand[h].d
      /\ hand'[h].u = hand[h].u
      /\ \A g \in Handlers : g # h => hand'[g] = hand[g]
  <2> DEFINE x == [hand[h] EXCEPT !.pc = p]
  <2>1. x \in Hands /\ x.pc = p /\ x.d = hand[h].d /\ x.u = hand[h].u
    BY <1>2 DEF Hands, GoesOn
  <2>2. hand' = [hand EXCEPT ![h] = x]
    BY DEF GoesOn
  <2> HIDE DEF x
  <2> QED
    BY <1>1, <2>1, <2>2, OneHand DEF Chat
<1>4. Chat'
  BY <1>1, <1>3 DEF Chat, GoesOn, mailVars
<1>5. Begun'
  BY <1>1, <1>2, <1>3 DEF Begun, GoesOn
<1>6. Known'
  BY <1>1, <1>3 DEF Known, GoesOn, mailVars
<1>7. Fit'
  BY <1>1, <1>3 DEF Fit, GoesOn, Kinds
<1>8. AllSole'
  <2> SUFFICES ASSUME NEW d \in Dialogs, d \notin shared, Sole(d) PROVE Sole(d)'
    BY <1>1 DEF AllSole, GoesOn
  <2>1. /\ \A k \in Rights : sess'[k] = d => sess[k] = d /\ sess'[k] # NoDialog
        /\ \A g \in Handlers : hand'[g].d = hand[g].d
        /\ \A g \in Handlers : g # h => hand'[g] = hand[g]
        /\ made'[d] = made[d]
    BY <1>3 DEF GoesOn, Dialogs, NoDialog, Rights, Kinds
  <2>2. ASSUME NEW k \in Rights, sess'[k] = d
        PROVE  made[d] = 0 \/ \E g \in Handlers : hand'[g].d = d /\ hand'[g].pc = "toppedUp"
    BY <2>1, <2>2 DEF Sole, GoesOn
  <2>3. ASSUME NEW g \in Handlers, NEW k \in Rights, hand'[g].d = d,
               hand'[g].pc \in Making \union {"toppedUp"}, sess'[k] = d
        PROVE  MayKeep(hand'[g].pc, k)
    <3>1. CASE g # h
      BY <3>1, <2>1, <2>3 DEF Sole
    <3>2. CASE g = h
      <4>1. p \in Making /\ hand[h].pc \in Making /\ hand[h].d = d /\ sess[k] = d /\ sess'[k] # NoDialog
        BY <3>2, <2>1, <2>3, <1>3 DEF GoesOn
      <4>2. MayKeep(hand[h].pc, k)
        BY <4>1 DEF Sole
      <4> QED
        BY <4>1, <4>2, <3>2, <1>3 DEF GoesOn
    <3> QED
      BY <3>1, <3>2
  <2>4. ASSUME NEW g \in Handlers, hand'[g].d = d, hand'[g].pc \in Making PROVE made[d] = 0
    BY <2>1, <2>4, <1>3 DEF Sole, GoesOn
  <2> QED
    BY <2>1, <2>2, <2>3, <2>4 DEF Sole
<1>9. OneOrder'
  <2>2. \A d \in Dialogs : subject'[d] = "plain" /\ Shopping(d)' => subject[d] = "plain" /\ Shopping(d)
    BY <1>2, <1>3 DEF Shopping, GoesOn, Kinds, NoDialog, Dialogs
  <2>3. \A d \in Dialogs : Owed(d)' => Owed(d)
    BY DEF GoesOn, Owed
  <2>4. /\ \A g \in Handlers : hand'[g].pc # "idle" => hand[g].pc # "idle"
        /\ overlapped' = overlapped
    BY <1>3 DEF GoesOn, mailVars
  <2>5. \A g \in Handlers : ~overlapped /\ hand'[g].pc = "create" =>
            sess'["quantity"] = NoDialog /\ sess'["payment"] = NoDialog
    BY <1>1, <1>3 DEF OneOrder, GoesOn, Kinds
  <2> QED
    BY <1>1, <2>2, <2>3, <2>4, <2>5, OrderKept
<1> QED
  BY <1>4, <1>5, <1>6, <1>7, <1>8, <1>9, TypePartsNext DEF ChatInv

-----------------------------------------------------------------------------
\* A handler that takes up a dialogue has it alone, or the dialogue is shared.
LEMMA HoldFacts ==
    ASSUME ChatInv, NEW h \in Handlers, hand[h].pc = "run", NEW p \in Steps, NEW d \in Dialogs,
           Hold(h, p, d)
    PROVE  /\ hand' \in [Handlers -> Hands]
           /\ hand'[h].pc = p /\ hand'[h].d = d /\ hand'[h].u = hand[h].u
           /\ \A g \in Handlers : g # h => hand'[g] = hand[g]
           /\ shared \subseteq shared' /\ shared' \subseteq shared \union {d}
           /\ d \notin shared' => \A g \in Handlers : hand[g].d # d
<1>1. Chat /\ Known /\ d # NoDialog /\ hand[h] \in Hands
  BY TypeParts DEF ChatInv, Chat, Dialogs, NoDialog
<1> DEFINE x == [hand[h] EXCEPT !.pc = p, !.d = d]
<1>2. x \in Hands /\ x.pc = p /\ x.d = d /\ x.u = hand[h].u
  BY <1>1 DEF Hands
<1>3. hand' = [hand EXCEPT ![h] = x]
  BY DEF Hold
<1> HIDE DEF x
<1>4. /\ hand' \in [Handlers -> Hands] /\ hand'[h] = x
      /\ \A g \in Handlers : g # h => hand'[g] = hand[g]
  BY <1>1, <1>2, <1>3, OneHand DEF Chat
<1>5. shared \subseteq shared' /\ shared' \subseteq shared \union {d}
  BY DEF Hold
<1>6. ASSUME d \notin shared', NEW g \in Handlers, hand[g].d = d PROVE FALSE
  <2>1. hand[g] # Idle /\ g # h
    BY <1>1, <1>6, IdleHand DEF Known
  <2>2. hand[g].pc # "idle" /\ hand[g].u # hand[h].u
    BY <2>1, <1>1 DEF Known
  <2> QED
    BY <2>1, <2>2, <1>6 DEF Hold, Busy
<1> QED
  BY <1>2, <1>4, <1>5, <1>6

\* The handler takes up dialogue d, which has begun, with the key that has it if it is to
\* make something of it.
Takes(h, p, d) ==
    /\ hand[h].pc = "run" /\ Hold(h, p, d)
    /\ p \in Steps \ {"idle", "run", "toppedUp", "create"}
    /\ subject[d] # "none"
    /\ sess' \in [Kinds -> {NoDialog} \union Dialogs]
    /\ \A k \in Kinds : sess'[k] # NoDialog => subject[sess'[k]] # "none"
    /\ \A k \in Rights : sess'[k] = sess[k]
    /\ p \in Making => \E k \in Rights : sess[k] = d /\ MayKeep(p, k)
    /\ p \in Shop => /\ subject[d] \in {"plain", "social"}
                     /\ sess["quantity"] = d \/ sess["payment"] = d
    /\ p \in {"social", "offer"} => subject[d] = "social"
    /\ p = "topup" => subject[d] = "topup"
    /\ subject' = subject /\ invoice' = invoice /\ made' = made
    /\ UNCHANGED mailVars

\* A handler that takes up a dialogue keeps the invariant.
LEMMA TakesKeeps ==
    ASSUME ChatInv, NEW h \in Handlers, NEW p, NEW d \in Dialogs, Takes(h, p, d)
    PROVE  ChatInv'
<1>1. Chat /\ Begun /\ Known /\ Fit /\ AllSole /\ OneOrder
  BY TypeParts DEF ChatInv
<1>2. /\ hand' \in [Handlers -> Hands]
      /\ hand'[h].pc = p /\ hand'[h].d = d /\ hand'[h].u = hand[h].u
      /\ \A g \in Handlers : g # h => hand'[g] = hand[g]
      /\ shared \subseteq shared' /\ shared' \subseteq shared \union {d}
      /\ d \notin shared' => \A g \in Handlers : hand[g].d # d
  <2>1. p \in Steps /\ hand[h].pc = "run" /\ Hold(h, p, d)
    BY DEF Takes
  <2> QED
    BY <2>1, HoldFacts
<1>3. hand[h].d = NoDialog /\ d # NoDialog
  BY <1>1 DEF Known, Takes, Dialogs, NoDialog
<1>4. Chat'
  BY <1>1, <1>2 DEF Chat, Takes, mailVars
<1>5. Begun'
  BY <1>1, <1>2, <1>3 DEF Begun, Takes
<1>6. Known'
  BY <1>1, <1>2 DEF Known, Takes, mailVars
<1>7. Fit'
  BY <1>1, <1>2 DEF Fit, Takes, Rights
<1>8. AllSole'
  <2> SUFFICES ASSUME NEW c \in Dialogs, c \notin shared', Sole(c) PROVE Sole(c)'
    BY <1>1, <1>2 DEF AllSole
  <2>1. made'[c] = made[c] /\ \A k \in Rights : sess'[k] = sess[k]
    BY DEF Takes
  <2>2. CASE c # d
    <3>1. /\ \A g \in Handlers : hand'[g].d = c => hand[g].d = c /\ hand'[g].pc = hand[g].pc
          /\ \A g \in Handlers : hand[g].d = c => hand'[g].d = c /\ hand'[g].pc = hand[g].pc
      BY <2>2, <1>2, <1>3 DEF Dialogs, NoDialog
    <3> QED
      BY <2>1, <3>1 DEF Sole
  <2>3. CASE c = d
    <3>1. \A g \in Handlers : hand[g].d # d
      BY <2>3, <1>2
    <3>2. \A g \in Handlers : hand'[g].d = d => g = h
      BY <3>1, <1>2
    <3>3. /\ \A k \in Rights : sess[k] = d => made[d] = 0
          /\ \A j, k \in Rights : sess[j] = d /\ sess[k] = d => j = k
          /\ made[d] <= 1
      BY <2>3, <3>1 DEF Sole
    <3>4. p # "toppedUp"
      BY DEF Takes
    <3>5. p \in Making => made[d] = 0 /\ \A k \in Rights : sess[k] = d => MayKeep(p, k)
      BY <3>3 DEF Takes
    <3> QED
      BY <2>1, <2>3, <3>2, <3>3, <3>4, <3>5, <1>2 DEF Sole
  <2> QED
    BY <2>2, <2>3
<1>9. OneOrder'
  <2>2. \A c \in Dialogs : subject'[c] = "plain" /\ Shopping(c)' => subject[c] = "plain" /\ Shopping(c)
    <3>1. sess'["quantity"] = sess["quantity"] /\ sess'["payment"] = sess["payment"]
      BY DEF Takes, Rights
    <3>2. p \in Shop => Shopping(d)
      BY DEF Takes, Shopping
    <3> QED
      BY <3>1, <3>2, <1>2 DEF Shopping, Takes
  <2>3. \A c \in Dialogs : Owed(c)' => Owed(c)
    BY DEF Takes, Owed
  <2>4. /\ \A g \in Handlers : hand'[g].pc # "idle" => hand[g].pc # "idle"
        /\ overlapped' = overlapped
    BY <1>2 DEF Takes, mailVars
  <2>5. \A g \in Handlers : ~overlapped /\ hand'[g].pc = "create" =>
            sess'["quantity"] = NoDialog /\ sess'["payment"] = NoDialog
    BY <1>1, <1>2 DEF OneOrder, Takes, Rights
  <2> QED
    BY <1>1, <2>2, <2>3, <2>4, <2>5, OrderKept
<1> QED
  BY <1>4, <1>5, <1>6, <1>7, <1>8, <1>9, TypePartsNext DEF ChatInv

\* The handler begins dialogue d about s and goes on with it.
Begins(h, p, d, s) ==
    /\ hand[h].pc = "run" /\ Hold(h, p, d) /\ p \in {"ask", "check"}
    /\ subject[d] = "none" /\ s \in Subjects \ {"none"}
    /\ subject' = [subject EXCEPT ![d] = s]
    /\ sess' \in [Kinds -> {NoDialog} \union Dialogs]
    /\ \A k \in Kinds : sess'[k] \in {sess[k], NoDialog}
    /\ p = "check" => s = "warranty"
    /\ p = "ask" => s \in {"plain", "social"} /\ \A c \in Dialogs : ~Owed(c)
    /\ invoice' = invoice /\ made' = made
    /\ UNCHANGED mailVars

\* A handler that begins a dialogue keeps the invariant.
LEMMA BeginsKeeps ==
    ASSUME ChatInv, NEW h \in Handlers, NEW p, NEW d \in Dialogs, NEW s, Begins(h, p, d, s)
    PROVE  ChatInv'
<1>1. Chat /\ Begun /\ Known /\ Fit /\ AllSole /\ OneOrder
  BY TypeParts DEF ChatInv
<1>2. /\ hand' \in [Handlers -> Hands]
      /\ hand'[h].pc = p /\ hand'[h].d = d /\ hand'[h].u = hand[h].u
      /\ \A g \in Handlers : g # h => hand'[g] = hand[g]
      /\ shared \subseteq shared' /\ shared' \subseteq shared \union {d}
  <2>1. p \in Steps /\ hand[h].pc = "run" /\ Hold(h, p, d)
    BY DEF Begins, Steps
  <2> QED
    BY <2>1, HoldFacts
<1>3. /\ subject' \in [Dialogs -> Subjects] /\ subject'[d] = s
      /\ \A c \in Dialogs : c # d => subject'[c] = subject[c]
      /\ s # "none" /\ (s # "plain" \/ p = "ask")
  BY <1>1 DEF Chat, Begins
<1>4. /\ \A g \in Handlers : hand[g].d # d
      /\ \A k \in Kinds : sess[k] # d
      /\ invoice[d] = "none" /\ made[d] = 0 /\ d # NoDialog
  <2>1. \A g \in Handlers : hand[g].pc = "idle" => hand[g].d = NoDialog
    BY <1>1, IdleHand DEF Known
  <2>2. d # NoDialog
    BY DEF Dialogs, NoDialog
  <2> QED
    BY <2>1, <2>2, <1>1 DEF Known, Begun, Begins
<1>5. ASSUME NEW g \in Handlers, hand[g].pc \notin {"idle", "run"}
      PROVE  g # h /\ hand'[g] = hand[g] /\ subject'[hand'[g].d] = subject[hand[g].d]
  <2>1. g # h /\ hand'[g] = hand[g] /\ hand[g].d \in Dialogs
    BY <1>2, <1>5, Dialogue DEF Begins
  <2> QED
    BY <2>1, <1>3, <1>4
<1>6. ASSUME NEW k \in Kinds, sess'[k] # NoDialog
      PROVE  sess'[k] = sess[k] /\ subject'[sess'[k]] = subject[sess[k]]
  <2>1. sess'[k] = sess[k] /\ sess[k] \in Dialogs
    BY <1>1, <1>6 DEF Begins, Chat
  <2> QED
    BY <2>1, <1>3, <1>4
<1>7. Chat'
  <2>1. shared' \subseteq {NoDialog} \union Dialogs
    BY <1>1, <1>2 DEF Chat
  <2> QED
    BY <1>1, <1>2, <1>3, <2>1 DEF Chat, Begins, mailVars
<1>8. \A g \in Handlers : g # h => hand'[g].pc = hand[g].pc /\ hand'[g].d = hand[g].d
  BY <1>2
<1>9. Begun'
  <2>1. \A g \in Handlers : hand'[g].pc \notin {"idle", "run"} =>
            hand'[g].d # NoDialog /\ subject'[hand'[g].d] # "none"
    BY <1>1, <1>2, <1>3, <1>4, <1>5, <1>8 DEF Begun, Begins, Subjects
  <2>2. \A k \in Kinds : sess'[k] # NoDialog => subject'[sess'[k]] # "none"
    BY <1>1, <1>6 DEF Begun
  <2> QED
    BY <2>1, <2>2 DEF Begun
<1>10. Known'
  BY <1>1, <1>2, <1>3, <1>4 DEF Known, Begins, mailVars
<1>11. Fit'
  <2>1. /\ \A k \in {"quantity", "payment"} :
             sess'[k] # NoDialog => subject'[sess'[k]] \in {"plain", "social"}
        /\ sess'["social"] # NoDialog => subject'[sess'["social"]] = "social"
        /\ sess'["topup"] # NoDialog => subject'[sess'["topup"]] = "topup"
    BY <1>1, <1>6 DEF Fit, Kinds
  <2>2. ASSUME NEW g \in Handlers
        PROVE  /\ hand'[g].pc \in Shop => subject'[hand'[g].d] \in {"plain", "social"}
               /\ hand'[g].pc \in {"social", "offer"} => subject'[hand'[g].d] = "social"
               /\ hand'[g].pc = "topup" => subject'[hand'[g].d] = "topup"
    <3>1. CASE g = h
      BY <3>1, <1>2, <1>3 DEF Begins, Shop
    <3>2. CASE g # h
      BY <3>2, <1>1, <1>5, <1>8 DEF Fit, Shop
    <3> QED
      BY <3>1, <3>2
  <2> QED
    BY <2>1, <2>2 DEF Fit
<1>12. AllSole'
  <2> SUFFICES ASSUME NEW c \in Dialogs, c \notin shared', Sole(c) PROVE Sole(c)'
    BY <1>1, <1>2 DEF AllSole
  <2>1. made'[c] = made[c] /\ c # NoDialog /\ hand[h].d = NoDialog
    BY <1>1 DEF Begins, Known, Dialogs, NoDialog
  <2>2. \A k \in Rights : sess'[k] = c => sess[k] = c
    BY <2>1 DEF Begins, Rights, Kinds
  <2>3. CASE c # d
    <3>1. /\ \A g \in Handlers : hand'[g].d = c => hand[g].d = c /\ hand'[g].pc = hand[g].pc
          /\ \A g \in Handlers : hand[g].d = c => hand'[g].d = c /\ hand'[g].pc = hand[g].pc
      BY <2>1, <2>3, <1>2
    <3> QED
      BY <2>1, <2>2, <3>1 DEF Sole
  <2>4. CASE c = d
    <3>1. \A g \in Handlers : hand'[g].d = d => g = h
      BY <1>2, <1>4
    <3>2. \A k \in Rights : sess'[k] # d
      BY <2>2, <2>4, <1>4 DEF Rights, Kinds
    <3> QED
      BY <2>1, <2>4, <3>1, <3>2, <1>4 DEF Sole
  <2> QED
    BY <2>3, <2>4
<1>13. OneOrder'
  <2>2. ASSUME NEW c \in Dialogs, subject'[c] = "plain", Shopping(c)', c # d
        PROVE  subject[c] = "plain" /\ Shopping(c)
    <3>1. c # NoDialog
      BY DEF Dialogs, NoDialog
    <3> QED
      BY <2>2, <3>1, <1>2, <1>3 DEF Shopping, Begins, Kinds
  <2>3. subject'[d] = "plain" => \A c \in Dialogs : ~Owed(c)
    BY <1>3 DEF Begins
  <2>4. \A c \in Dialogs : Owed(c)' => Owed(c)
    BY <1>3, <1>4 DEF Begins, Owed
  <2>5. /\ \A g \in Handlers : hand'[g].pc # "idle" => hand[g].pc # "idle"
        /\ overlapped' = overlapped
    BY <1>2 DEF Begins, mailVars
  <2>6. \A g \in Handlers : ~overlapped /\ hand'[g].pc = "create" =>
            sess'["quantity"] = NoDialog /\ sess'["payment"] = NoDialog
    BY <1>1, <1>2 DEF OneOrder, Begins, Kinds
  <2> QED
    BY <1>1, <2>2, <2>3, <2>4, <2>5, <2>6, OrderKept
<1> QED
  BY <1>7, <1>9, <1>10, <1>11, <1>12, <1>13, TypePartsNext DEF ChatInv

-----------------------------------------------------------------------------
\* The handler makes what its dialogue is for; an order may be left unpaid.
Makes(h) ==
    LET d == hand[h].d
    IN  /\ hand[h].pc \in {"create", "make"}
        /\ \/ hand[h].pc = "make" /\ invoice' = invoice
           \/ hand[h].pc = "create" /\ \E status \in {"unpaid", "paid"} :
                  invoice' = [invoice EXCEPT ![d] = status]
        /\ made' = [made EXCEPT ![d] = @ + 1]
        /\ hand' = [hand EXCEPT ![h] = Idle]
        /\ sess' = sess /\ subject' = subject /\ shared' = shared
        /\ UNCHANGED mailVars

\* Making the order, the top-up or the claim of a dialogue keeps the invariant.
LEMMA MakesKeeps ==
    ASSUME ChatInv, NEW h \in Handlers, Makes(h)
    PROVE  ChatInv'
<1> DEFINE e == hand[h].d
<1>1. Chat /\ Begun /\ Known /\ Fit /\ AllSole /\ OneOrder
  BY TypeParts DEF ChatInv
<1>2. /\ hand' \in [Handlers -> Hands] /\ hand'[h] = Idle
      /\ \A g \in Handlers : g # h => hand'[g] = hand[g]
      /\ \A g \in Handlers : hand'[g].pc # "idle" => g # h /\ hand'[g] = hand[g]
  BY <1>1, IdleHand, OneHand DEF Makes, Chat
<1>3. e \in Dialogs /\ subject[e] # "none" /\ e # NoDialog
  BY Dialogue DEF Makes, Dialogs, NoDialog
<1>4. /\ made' \in [Dialogs -> Nat] /\ made'[e] = made[e] + 1
      /\ \A d \in Dialogs : d # e => made'[d] = made[d]
  BY <1>1, <1>3 DEF Makes, Chat
<1>5. /\ invoice' \in [Dialogs -> Bills]
      /\ \A d \in Dialogs : d # e => invoice'[d] = invoice[d]
      /\ hand[h].pc # "create" => invoice' = invoice
  BY <1>1, <1>3 DEF Makes, Chat, Bills
<1> HIDE DEF e
<1>6. /\ sess' = sess /\ subject' = subject /\ shared' = shared
      /\ hand[h].pc \in {"create", "make"} /\ hand[h].d = e
  BY DEF Makes, e
<1>7. Chat'
  BY <1>1, <1>2, <1>4, <1>5, <1>6 DEF Chat, Makes, mailVars
<1>8. Begun'
  BY <1>1, <1>2, <1>6, IdleHand DEF Begun
<1>9. Known'
  BY <1>1, <1>2, <1>3, <1>4, <1>5, <1>6, IdleHand DEF Known, Makes, mailVars
<1>10. Fit'
  BY <1>1, <1>2, <1>6, IdleHand DEF Fit, Shop
<1>11. AllSole'
  <2> SUFFICES ASSUME NEW d \in Dialogs, d \notin shared, Sole(d) PROVE Sole(d)'
    BY <1>1, <1>6 DEF AllSole
  <2>1. d # NoDialog
    BY DEF Dialogs, NoDialog
  <2>2. \A g \in Handlers : hand'[g].d = d => g # h /\ hand[g].d = d /\ hand'[g].pc = hand[g].pc
    BY <2>1, <1>2, IdleHand
  <2>3. CASE d # e
    <3>1. \A g \in Handlers : hand[g].d = d => hand'[g].d = d /\ hand'[g].pc = hand[g].pc
      BY <2>3, <1>2, <1>6
    <3> QED
      BY <2>2, <2>3, <3>1, <1>4, <1>6 DEF Sole
  <2>4. CASE d = e
    <3>1. made[d] = 0
      BY <2>4, <1>6 DEF Sole, Making, Shop
    <3>2. \A g \in Handlers : hand'[g].d # d
      BY <2>2, <2>4, <1>6 DEF Sole
    <3>3. \A k \in Rights : sess[k] # d
      BY <2>4, <1>6 DEF Sole, Making, Shop, MayKeep
    <3> QED
      BY <2>4, <3>1, <3>2, <3>3, <1>4, <1>6 DEF Sole
  <2> QED
    BY <2>3, <2>4
<1>12. OneOrder'
  <2>1. CASE hand[h].pc # "create" \/ subject[e] # "plain"
    <3>1. \A d \in Dialogs : Owed(d)' => Owed(d)
      BY <2>1, <1>5, <1>6 DEF Owed
    <3>2. \A d \in Dialogs : subject'[d] = "plain" /\ Shopping(d)' => subject[d] = "plain" /\ Shopping(d)
      BY <1>2, <1>6 DEF Shopping, Shop
    <3>3. overlapped' = overlapped
      BY DEF Makes, mailVars
    <3>4. \A g \in Handlers : ~overlapped /\ hand'[g].pc = "create" =>
              sess'["quantity"] = NoDialog /\ sess'["payment"] = NoDialog
      BY <1>1, <1>2, <1>6 DEF OneOrder
    <3> QED
      BY <1>1, <1>2, <3>1, <3>2, <3>3, <3>4, OrderKept
  <2>2. CASE hand[h].pc = "create" /\ subject[e] = "plain"
    <3> SUFFICES ASSUME ~overlapped
                 PROVE  /\ \A g \in Handlers : hand'[g].pc = "idle"
                        /\ \A c, d \in Dialogs : Owed(c)' /\ Owed(d)' => c = d
                        /\ \A d \in Dialogs : ~Shopping(d)'
      BY DEF OneOrder, Makes, mailVars
    <3>1. \A g \in Handlers : hand'[g].pc = "idle"
      BY <2>2, <1>1, <1>2, IdleHand DEF OneOrder
    <3>2. \A d \in Dialogs : ~Shopping(d)'
      BY <2>2, <3>1, <1>1, <1>6 DEF OneOrder, Shopping, Shop, Dialogs, NoDialog
    <3>3. Shopping(e)
      BY <2>2, <1>6 DEF Shopping, Shop
    <3>4. \A c \in Dialogs : ~Owed(c)
      BY <2>2, <3>3, <1>1, <1>3 DEF OneOrder
    <3>5. \A c \in Dialogs : Owed(c)' => c = e
      BY <3>4, <1>5, <1>6 DEF Owed
    <3> QED
      BY <3>1, <3>2, <3>5
  <2> QED
    BY <2>1, <2>2
<1> QED
  BY <1>7, <1>8, <1>9, <1>10, <1>11, <1>12, TypePartsNext DEF ChatInv

\* Making a top-up, whose question is still open, keeps the invariant.
LEMMA TopupKeeps ==
    ASSUME ChatInv, NEW h \in Handlers, hand[h].pc = "topup",
           invoice' = [invoice EXCEPT ![hand[h].d] = "unpaid"],
           made' = [made EXCEPT ![hand[h].d] = @ + 1],
           GoOn(h, "toppedUp"), sess' = sess, subject' = subject, shared' = shared,
           UNCHANGED mailVars
    PROVE  ChatInv'
<1> DEFINE e == hand[h].d
<1>1. Chat /\ Begun /\ Known /\ Fit /\ AllSole /\ OneOrder
  BY TypeParts DEF ChatInv
<1>2. e \in Dialogs /\ subject[e] = "topup" /\ e # NoDialog /\ hand[h] \in Hands
  BY <1>1, Dialogue DEF Fit, Dialogs, NoDialog
<1>3. /\ hand' \in [Handlers -> Hands] /\ hand'[h].pc = "toppedUp" /\ hand'[h].d = e
      /\ hand'[h].u = hand[h].u
      /\ \A g \in Handlers : g # h => hand'[g] = hand[g]
  <2> DEFINE x == [hand[h] EXCEPT !.pc = "toppedUp"]
  <2>1. x \in Hands /\ x.pc = "toppedUp" /\ x.d = hand[h].d /\ x.u = hand[h].u
    BY <1>2 DEF Hands, Steps
  <2>2. hand' = [hand EXCEPT ![h] = x]
    BY DEF GoOn
  <2> HIDE DEF x
  <2> QED
    BY <1>1, <2>1, <2>2, OneHand DEF Chat
<1>4. /\ made' \in [Dialogs -> Nat] /\ made'[e] = made[e] + 1
      /\ \A d \in Dialogs : d # e => made'[d] = made[d]
      /\ invoice' \in [Dialogs -> Bills]
      /\ \A d \in Dialogs : d # e => invoice'[d] = invoice[d]
  BY <1>1, <1>2 DEF Chat, Bills
<1>5. hand[h].d = e
  OBVIOUS
<1> HIDE DEF e
<1>6. Chat'
  BY <1>1, <1>3, <1>4 DEF Chat, mailVars
<1>7. Begun'
  BY <1>1, <1>2, <1>3 DEF Begun
<1>8. Known'
  BY <1>1, <1>2, <1>3, <1>4 DEF Known, mailVars
<1>9. Fit'
  BY <1>1, <1>2, <1>3 DEF Fit, Shop
<1>10. AllSole'
  <2> SUFFICES ASSUME NEW d \in Dialogs, d \notin shared, Sole(d) PROVE Sole(d)'
    BY <1>1 DEF AllSole
  <2>1. \A g \in Handlers : hand'[g].d = hand[g].d
    BY <1>3, <1>5
  <2>2. CASE d # e
    <3>1. \A g \in Handlers : hand[g].d = d => hand'[g] = hand[g]
      BY <2>2, <1>3, <1>5
    <3> QED
      BY <2>1, <2>2, <3>1, <1>4 DEF Sole
  <2>3. CASE d = e
    <3>1. made[d] = 0
      BY <2>3, <1>5 DEF Sole, Making
    <3>2. \A g \in Handlers : hand'[g].d = d => g = h
      BY <2>1, <2>3, <1>5 DEF Sole
    <3>3. \A k \in Rights : sess[k] = d => k = "topup"
      BY <2>3, <1>5 DEF Sole, Making, Shop, MayKeep
    <3> QED
      BY <2>3, <3>1, <3>2, <3>3, <1>3, <1>4 DEF Sole, MayKeep, Making, Shop
  <2> QED
    BY <2>2, <2>3
<1>11. OneOrder'
  <2>1. \A d \in Dialogs : Owed(d)' => Owed(d)
    BY <1>2, <1>4 DEF Owed
  <2>2. \A d \in Dialogs : subject'[d] = "plain" /\ Shopping(d)' => subject[d] = "plain" /\ Shopping(d)
    BY <1>3 DEF Shopping, Shop
  <2>3. /\ \A g \in Handlers : hand'[g].pc # "idle" => hand[g].pc # "idle"
        /\ overlapped' = overlapped
    BY <1>3 DEF mailVars
  <2>4. \A g \in Handlers : ~overlapped /\ hand'[g].pc = "create" =>
            sess'["quantity"] = NoDialog /\ sess'["payment"] = NoDialog
    BY <1>1, <1>3 DEF OneOrder
  <2> QED
    BY <1>1, <2>1, <2>2, <2>3, <2>4, OrderKept
<1> QED
  BY <1>6, <1>7, <1>8, <1>9, <1>10, <1>11, TypePartsNext DEF ChatInv

-----------------------------------------------------------------------------
\* An update that is received.
LEMMA ReceiveKeeps ==
    ASSUME ChatInv, NEW h \in Handlers, NEW u \in 1 .. updates', NEW in \in Inputs \union {"none"},
           Receive(h, u, in), updates' \in 0 .. MaxUpdates, updates <= updates',
           last' \in [u : 0 .. updates', in : Inputs \union {"none"}, pc : {"idle"}, d : {NoDialog}],
           resends' \in 0 .. MaxResends, last' # Idle => last'.u # 0,
           UNCHANGED <<talk, sess, goodsVars, deaths, shared>>
    PROVE  ChatInv'
<1>1. Chat /\ Begun /\ Known /\ Fit /\ AllSole /\ OneOrder
  BY TypeParts DEF ChatInv
<1> DEFINE x == [u |-> u, in |-> in, pc |-> "run", d |-> NoDialog]
<1>2. x \in Hands /\ x.pc = "run" /\ x.d = NoDialog /\ x.u = u
  BY ChatBounds DEF Hands, Steps
<1> HIDE DEF x
<1>3. /\ claimed' = claimed \union {u} /\ hand[h] = Idle
      /\ u \in claimed => hand' = hand /\ overlapped' = overlapped
      /\ u \notin claimed => /\ hand' = [hand EXCEPT ![h] = x]
                             /\ overlapped' = (overlapped \/ Busy # {})
  BY DEF Receive, x
<1>4. /\ hand' \in [Handlers -> Hands] /\ overlapped' \in BOOLEAN
      /\ hand' = hand \/ (hand'[h] = x /\ u \notin claimed)
      /\ \A g \in Handlers : g # h => hand'[g] = hand[g]
  BY <1>1, <1>2, <1>3, OneHand DEF Chat
<1>5. /\ sess' = sess /\ subject' = subject /\ invoice' = invoice /\ made' = made
      /\ shared' = shared /\ talk' = talk /\ deaths' = deaths
  BY DEF goodsVars
<1>6. Chat'
  <2>1. claimed' \subseteq 1 .. updates'
    BY <1>1, <1>3, ChatBounds DEF Chat
  <2> QED
    BY <2>1, <1>1, <1>4, <1>5 DEF Chat
<1>7. Begun'
  BY <1>1, <1>2, <1>4, <1>5 DEF Begun
<1>8. Known'
  BY <1>1, <1>2, <1>3, <1>4, <1>5, IdleHand DEF Known
<1>9. Fit'
  BY <1>1, <1>2, <1>4, <1>5 DEF Fit, Shop
<1>10. AllSole'
  <2> SUFFICES ASSUME NEW d \in Dialogs, d \notin shared, Sole(d) PROVE Sole(d)'
    BY <1>1, <1>5 DEF AllSole
  <2>1. /\ \A g \in Handlers : hand'[g].d = d => hand[g].d = d /\ hand'[g].pc = hand[g].pc
        /\ \A g \in Handlers : hand[g].d = d => hand'[g].d = d /\ hand'[g].pc = hand[g].pc
    BY <1>2, <1>3, <1>4, IdleHand DEF Dialogs, NoDialog
  <2> QED
    BY <2>1, <1>5 DEF Sole
<1>11. OneOrder'
  <2> SUFFICES ASSUME ~overlapped'
               PROVE  /\ \A g, k \in Handlers : hand'[g].pc # "idle" /\ hand'[k].pc # "idle" => g = k
                      /\ \A g \in Handlers : hand'[g].pc = "create" =>
                            sess["quantity"] = NoDialog /\ sess["payment"] = NoDialog
                      /\ \A c, d \in Dialogs : Owed(c) /\ Owed(d) => c = d
                      /\ \A c, d \in Dialogs : Owed(c) /\ subject[d] = "plain" => ~Shopping(d)'
    BY <1>5 DEF OneOrder, Owed
  <2>1. ~overlapped
    BY <1>1, <1>3 DEF Chat
  <2>2. \A d \in Dialogs : Shopping(d)' => Shopping(d)
    BY <1>2, <1>4, <1>5 DEF Shopping, Shop
  <2>3. \A g \in Handlers : hand'[g].pc = "create" => hand[g].pc = "create"
    BY <1>2, <1>4
  <2>4. \A g, k \in Handlers : hand'[g].pc # "idle" /\ hand'[k].pc # "idle" => g = k
    <3>1. CASE hand' = hand
      BY <3>1, <2>1, <1>1 DEF OneOrder
    <3>2. CASE hand' # hand
      <4>1. \A g \in Handlers : hand[g].pc = "idle"
        BY <3>2, <1>3, IdleHand DEF Busy
      <4> QED
        BY <4>1, <1>4
    <3> QED
      BY <3>1, <3>2
  <2> QED
    BY <2>1, <2>2, <2>3, <2>4, <1>1 DEF OneOrder
<1> QED
  BY <1>6, <1>7, <1>8, <1>9, <1>10, <1>11, TypePartsNext DEF ChatInv

\* An update that the customer sends keeps the invariant.
LEMMA SendKeeps ==
    ASSUME ChatInv, NEW h \in Handlers, NEW in \in talk, SendUpdate(h, in)
    PROVE  ChatInv'
<1>1. /\ updates \in Nat /\ updates < MaxUpdates /\ MaxUpdates \in Nat /\ in \in Inputs
      /\ updates' = updates + 1 /\ resends \in 0 .. MaxResends
  BY TypeParts, ChatBounds, TalksAssumption DEF ChatInv, Chat, SendUpdate
<1>2. updates + 1 \in 1 .. updates' /\ updates' \in 0 .. MaxUpdates /\ updates <= updates'
  BY <1>1
<1>3. last' \in [u : 0 .. updates', in : Inputs \union {"none"}, pc : {"idle"}, d : {NoDialog}]
  <2>1. last' = Idle \/ last' = [u |-> updates + 1, in |-> in, pc |-> "idle", d |-> NoDialog]
    BY DEF SendUpdate, Idle
  <2>2. Idle \in [u : 0 .. updates', in : Inputs \union {"none"}, pc : {"idle"}, d : {NoDialog}]
    BY <1>2 DEF Idle
  <2> QED
    BY <1>1, <1>2, <2>1, <2>2
<1>4. last' # Idle => last'.u # 0
  BY <1>1 DEF SendUpdate, Idle
<1> QED
  BY <1>1, <1>2, <1>3, <1>4, ReceiveKeeps DEF SendUpdate

\* An update that comes again keeps the invariant.
LEMMA ResendKeeps ==
    ASSUME ChatInv, NEW h \in Handlers, Resend(h)
    PROVE  ChatInv'
<1>1. /\ updates \in 0 .. MaxUpdates /\ MaxUpdates \in Nat /\ updates' = updates
      /\ last \in [u : 0 .. updates, in : Inputs \union {"none"}, pc : {"idle"}, d : {NoDialog}]
      /\ last # Idle /\ last.u # 0 /\ resends \in Nat /\ MaxResends \in Nat
      /\ resends < MaxResends /\ resends' = resends + 1 /\ last' = Idle
  BY TypeParts, ChatBounds DEF ChatInv, Chat, Known, Resend
<1>2. /\ last.u \in 1 .. updates' /\ last.in \in Inputs \union {"none"}
      /\ updates' \in 0 .. MaxUpdates /\ updates <= updates' /\ resends' \in 0 .. MaxResends
  BY <1>1
<1>3. last' \in [u : 0 .. updates', in : Inputs \union {"none"}, pc : {"idle"}, d : {NoDialog}]
  BY <1>1, <1>2 DEF Idle
<1> QED
  BY <1>1, <1>2, <1>3, ReceiveKeeps DEF Resend

-----------------------------------------------------------------------------
\* A question that runs out keeps the invariant.
LEMMA ExpiresKeeps ==
    ASSUME ChatInv, NEW k \in Kinds, SessionExpires(k)
    PROVE  ChatInv'
<1>1. Chat /\ Begun /\ Known /\ Fit /\ AllSole /\ OneOrder
  BY TypeParts DEF ChatInv
<1>2. /\ sess' \in [Kinds -> {NoDialog} \union Dialogs]
      /\ \A j \in Kinds : sess'[j] \in {sess[j], NoDialog}
      /\ subject' = subject /\ invoice' = invoice /\ made' = made /\ hand' = hand
      /\ shared' = shared /\ UNCHANGED mailVars
  BY <1>1 DEF SessionExpires, Cleared, goodsVars, Chat
<1>3. Chat' /\ Begun' /\ Known' /\ Fit'
  <2>1. Chat'
    BY <1>1, <1>2 DEF Chat, mailVars
  <2>2. Begun'
    BY <1>1, <1>2 DEF Begun
  <2>3. Known'
    BY <1>1, <1>2 DEF Known, mailVars
  <2>4. Fit'
    BY <1>1, <1>2 DEF Fit, Kinds
  <2> QED
    BY <2>1, <2>2, <2>3, <2>4
<1>4. AllSole'
  <2> SUFFICES ASSUME NEW d \in Dialogs, d \notin shared, Sole(d) PROVE Sole(d)'
    BY <1>1, <1>2 DEF AllSole
  <2>1. \A j \in Rights : sess'[j] = d => sess[j] = d
    BY <1>2 DEF Rights, Kinds, Dialogs, NoDialog
  <2> QED
    BY <2>1, <1>2 DEF Sole
<1>5. OneOrder'
  <2>1. \A d \in Dialogs : Owed(d)' => Owed(d)
    BY <1>2 DEF Owed
  <2>2. \A d \in Dialogs : subject'[d] = "plain" /\ Shopping(d)' => subject[d] = "plain" /\ Shopping(d)
    BY <1>2 DEF Shopping, Kinds, Dialogs, NoDialog
  <2>3. \A g \in Handlers : ~overlapped /\ hand'[g].pc = "create" =>
            sess'["quantity"] = NoDialog /\ sess'["payment"] = NoDialog
    BY <1>1, <1>2 DEF OneOrder, Kinds
  <2> QED
    BY <1>1, <1>2, <2>1, <2>2, <2>3, OrderKept DEF mailVars
<1> QED
  BY <1>3, <1>4, <1>5, TypePartsNext DEF ChatInv

\* An invoice that ends keeps the invariant.
LEMMA EndsKeeps ==
    ASSUME ChatInv, NEW d \in Dialogs, InvoiceEnds(d)
    PROVE  ChatInv'
<1>1. Chat /\ Begun /\ Known /\ Fit /\ AllSole /\ OneOrder
  BY TypeParts DEF ChatInv
<1>2. /\ invoice' \in [Dialogs -> Bills]
      /\ \A c \in Dialogs : c # d => invoice'[c] = invoice[c]
      /\ invoice[d] = "unpaid" /\ invoice'[d] # "unpaid"
      /\ sess' = sess /\ subject' = subject /\ made' = made /\ hand' = hand
      /\ shared' = shared /\ UNCHANGED mailVars
  BY <1>1 DEF InvoiceEnds, Chat, Bills
<1>3. Chat' /\ Begun' /\ Known' /\ Fit'
  <2>1. Chat'
    BY <1>1, <1>2 DEF Chat, mailVars
  <2>2. Begun' /\ Fit'
    BY <1>1, <1>2 DEF Begun, Fit
  <2>3. Known'
    BY <1>1, <1>2 DEF Known, mailVars
  <2> QED
    BY <2>1, <2>2, <2>3
<1>4. AllSole'
  BY <1>1, <1>2 DEF AllSole, Sole
<1>5. OneOrder'
  <2>1. \A c \in Dialogs : Owed(c)' => Owed(c)
    BY <1>2 DEF Owed
  <2>2. \A c \in Dialogs : subject'[c] = "plain" /\ Shopping(c)' => subject[c] = "plain" /\ Shopping(c)
    BY <1>2 DEF Shopping
  <2>3. \A g \in Handlers : ~overlapped /\ hand'[g].pc = "create" =>
            sess'["quantity"] = NoDialog /\ sess'["payment"] = NoDialog
    BY <1>1, <1>2 DEF OneOrder
  <2> QED
    BY <1>1, <1>2, <2>1, <2>2, <2>3, OrderKept DEF mailVars
<1> QED
  BY <1>3, <1>4, <1>5, TypePartsNext DEF ChatInv

\* The death of the API keeps the invariant.
LEMMA CrashKeeps ==
    ASSUME ChatInv, ApiCrash
    PROVE  ChatInv'
<1>1. Chat /\ Begun /\ Known /\ Fit /\ AllSole /\ OneOrder
  BY TypeParts DEF ChatInv
<1>2. /\ hand' \in [Handlers -> Hands] /\ \A h \in Handlers : hand'[h] = Idle
      /\ sess' = sess /\ subject' = subject /\ invoice' = invoice /\ made' = made
      /\ overlapped' = overlapped /\ claimed' = claimed /\ last' = last
  BY IdleHand DEF ApiCrash, goodsVars
<1>3. /\ shared' \subseteq {NoDialog} \union Dialogs /\ shared \subseteq shared'
      /\ \A h \in Handlers : hand[h].pc = "toppedUp" => hand[h].d \in shared'
  <2>1. \A h \in Handlers : hand[h].d \in {NoDialog} \union Dialogs
    BY <1>1 DEF Chat, Hands
  <2> QED
    BY <2>1, <1>1, IdleHand DEF ApiCrash, Chat, Busy
<1>4. Chat' /\ Begun' /\ Known' /\ Fit'
  <2>1. deaths' \in 0 .. MaxDeaths
    BY <1>1, ChatBounds DEF Chat, ApiCrash
  <2>2. Chat'
    BY <1>1, <1>2, <1>3, <2>1 DEF Chat, ApiCrash
  <2>3. Begun' /\ Known' /\ Fit'
    BY <1>1, <1>2, IdleHand DEF Begun, Known, Fit, Shop
  <2> QED
    BY <2>2, <2>3
<1>5. AllSole'
  <2> SUFFICES ASSUME NEW d \in Dialogs, d \notin shared', Sole(d) PROVE Sole(d)'
    BY <1>1, <1>3 DEF AllSole
  <2>1. \A h \in Handlers : hand'[h].d # d /\ ~ (hand[h].d = d /\ hand[h].pc = "toppedUp")
    BY <1>2, <1>3, IdleHand DEF Dialogs, NoDialog
  <2> QED
    BY <2>1, <1>2 DEF Sole
<1>6. OneOrder'
  <2>1. \A d \in Dialogs : Owed(d)' => Owed(d)
    BY <1>2 DEF Owed
  <2>2. \A d \in Dialogs : subject'[d] = "plain" /\ Shopping(d)' => subject[d] = "plain" /\ Shopping(d)
    BY <1>2, IdleHand DEF Shopping, Shop
  <2>3. \A g \in Handlers : hand'[g].pc = "idle"
    BY <1>2, IdleHand
  <2> QED
    BY <1>1, <1>2, <2>1, <2>2, <2>3, OrderKept
<1> QED
  BY <1>4, <1>5, <1>6, TypePartsNext DEF ChatInv

-----------------------------------------------------------------------------
\* Closing questions.
LEMMA ClearedFacts ==
    ASSUME Chat, NEW ks
    PROVE  /\ Cleared(ks) \in [Kinds -> {NoDialog} \union Dialogs]
           /\ \A k \in Kinds : Cleared(ks)[k] \in {sess[k], NoDialog}
           /\ \A k \in Kinds : k \in ks => Cleared(ks)[k] = NoDialog
           /\ \A k \in Kinds : k \notin ks => Cleared(ks)[k] = sess[k]
  BY DEF Chat, Cleared

\* A handler that closes questions, changes no invoice, and is done.
LEMMA ClosesKeeps ==
    ASSUME ChatInv, NEW h \in Handlers, hand[h].pc \notin {"idle", "toppedUp"}, Done(h),
           sess' = sess \/ \E ks : sess' = Cleared(ks),
           UNCHANGED <<goodsVars, mailVars, shared>>
    PROVE  ChatInv'
<1>1. Chat /\ Begun
  BY TypeParts DEF ChatInv
<1>2. /\ sess' \in [Kinds -> {NoDialog} \union Dialogs]
      /\ \A k \in Kinds : sess'[k] \in {sess[k], NoDialog}
  <2>1. CASE sess' = sess
    BY <2>1, <1>1 DEF Chat
  <2>2. ASSUME NEW ks, sess' = Cleared(ks)
        PROVE  /\ sess' \in [Kinds -> {NoDialog} \union Dialogs]
               /\ \A k \in Kinds : sess'[k] \in {sess[k], NoDialog}
    BY <1>1, <2>2, ClearedFacts
  <2> QED
    BY <2>1, <2>2
<1>3. Leaves(h)
  BY <1>1, <1>2 DEF Leaves, Done, goodsVars, Chat, Begun, Rights, Kinds
<1> QED
  BY <1>3, LeavesKeeps

\* A handler that changes no question, only what its invoices may become, and is done.
LEMMA SettlesKeeps ==
    ASSUME ChatInv, NEW h \in Handlers, hand[h].pc \notin {"idle", "toppedUp"}, Done(h),
           sess' = sess \/ \E ks : sess' = Cleared(ks),
           NEW d \in Dialogs, NEW status \in Bills \ {"unpaid"}, subject[d] # "none",
           invoice' = [invoice EXCEPT ![d] = status],
           subject' = subject, made' = made, UNCHANGED <<mailVars, shared>>
    PROVE  ChatInv'
<1>1. Chat /\ Begun
  BY TypeParts DEF ChatInv
<1>2. /\ sess' \in [Kinds -> {NoDialog} \union Dialogs]
      /\ \A k \in Kinds : sess'[k] \in {sess[k], NoDialog}
  <2>1. CASE sess' = sess
    BY <2>1, <1>1 DEF Chat
  <2>2. ASSUME NEW ks, sess' = Cleared(ks)
        PROVE  /\ sess' \in [Kinds -> {NoDialog} \union Dialogs]
               /\ \A k \in Kinds : sess'[k] \in {sess[k], NoDialog}
    BY <1>1, <2>2, ClearedFacts
  <2> QED
    BY <2>1, <2>2
<1>3. /\ invoice' \in [Dialogs -> Bills]
      /\ \A c \in Dialogs : invoice'[c] = invoice[c] \/ (subject[c] # "none" /\ invoice'[c] # "unpaid")
  BY <1>1 DEF Chat
<1>4. Leaves(h)
  BY <1>1, <1>2, <1>3 DEF Leaves, Done, Begun, Rights, Kinds
<1> QED
  BY <1>4, LeavesKeeps

\* Each button that opens a question opens one of four.
LEMMA OpensFacts ==
    ASSUME NEW in \in DOMAIN Opens
    PROVE  Opens[in].kind \in {"topup", "social", "connection", "warranty"}
  BY DEF Opens

\* The question a text answers is one of those that may be answered.
LEMMA FirstIn ==
    ASSUME NEW ks \in SUBSET DOMAIN Rank, ks # {}
    PROVE  First(ks) \in ks
<1>1. ASSUME NEW k \in ks, \A j \in ks : Rank[k] <= Rank[j]
      PROVE  First(ks) \in ks
  BY <1>1 DEF First
<1>2. DOMAIN Rank = {"txHash", "topup", "social", "quantity", "connection", "account",
                     "warranty", "binance", "okx"}
  BY DEF Rank
<1>3. /\ Rank["txHash"] = 1 /\ Rank["topup"] = 2 /\ Rank["social"] = 3 /\ Rank["quantity"] = 4
      /\ Rank["connection"] = 5 /\ Rank["account"] = 6 /\ Rank["warranty"] = 7
      /\ Rank["binance"] = 8 /\ Rank["okx"] = 9
  BY DEF Rank
<1>4. \E k \in ks : \A j \in ks : Rank[k] <= Rank[j]
  <2>1. CASE "txHash" \in ks
    BY <2>1, <1>2, <1>3
  <2>2. CASE "txHash" \notin ks /\ "topup" \in ks
    BY <2>2, <1>2, <1>3
  <2>3. CASE ks \intersect {"txHash", "topup"} = {} /\ "social" \in ks
    BY <2>3, <1>2, <1>3
  <2>4. CASE ks \intersect {"txHash", "topup", "social"} = {} /\ "quantity" \in ks
    BY <2>4, <1>2, <1>3
  <2>5. CASE ks \intersect {"txHash", "topup", "social", "quantity"} = {} /\ "connection" \in ks
    BY <2>5, <1>2, <1>3
  <2>6. CASE /\ ks \intersect {"txHash", "topup", "social", "quantity", "connection"} = {}
             /\ "account" \in ks
    BY <2>6, <1>2, <1>3
  <2>7. CASE ks \subseteq {"warranty", "binance", "okx"} /\ "warranty" \in ks
    BY <2>7, <1>3
  <2>8. CASE ks \subseteq {"binance", "okx"} /\ "binance" \in ks
    BY <2>8, <1>3
  <2>9. CASE ks = {"okx"}
    BY <2>9, <1>3
  <2> QED
    BY <2>1, <2>2, <2>3, <2>4, <2>5, <2>6, <2>7, <2>8, <2>9, <1>2
<1> QED
  BY <1>1, <1>4

-----------------------------------------------------------------------------
\* Handlers that end, having closed questions at most.
LEMMA EndingSteps ==
    ASSUME ChatInv, NEW h \in Handlers,
           \/ Refuse(h) \/ Navigate(h) \/ CloseTopup(h)
           \/ PromptTxHash(h) \/ PromptId(h) \/ CancelOrder(h)
    PROVE  ChatInv'
<1>1. Chat /\ Begun /\ Known /\ Fit
  BY TypeParts DEF ChatInv
<1>2. CASE Refuse(h)
  BY <1>2, ClosesKeeps DEF Refuse
<1>3. CASE Navigate(h)
  BY <1>3, ClosesKeeps DEF Navigate
<1>4. CASE CloseTopup(h)
  <2>1. /\ sess' \in [Kinds -> {NoDialog} \union Dialogs]
        /\ \A k \in Kinds : sess'[k] \in {sess[k], NoDialog}
        /\ sess'["topup"] = NoDialog
    BY <1>1, <1>4, ClearedFacts DEF CloseTopup, Kinds
  <2>2. Leaves(h)
    BY <2>1, <1>1, <1>4 DEF Leaves, CloseTopup, Done, goodsVars, Chat, Begun, Rights, Kinds
  <2> QED
    BY <2>2, LeavesKeeps
<1>5. ASSUME hand[h].pc = "run", NEW d \in Unpaid \union Verifiable,
             NEW k \in Kinds \ Rights, NEW ks,
             sess' = [sess EXCEPT ![k] = d] \/ sess' = [Cleared(ks) EXCEPT ![k] = d],
             Done(h), UNCHANGED <<goodsVars, mailVars, shared>>
      PROVE  ChatInv'
  <2>1. d \in Dialogs /\ subject[d] # "none"
    BY <1>1, <1>5 DEF Known, Unpaid, Verifiable
  <2>2. /\ sess' \in [Kinds -> {NoDialog} \union Dialogs]
        /\ \A j \in Kinds : j # k => sess'[j] \in {sess[j], NoDialog}
        /\ sess'[k] = d
    <3>1. CASE sess' = [sess EXCEPT ![k] = d]
      BY <3>1, <2>1, <1>1, <1>5 DEF Chat
    <3>2. CASE sess' = [Cleared(ks) EXCEPT ![k] = d]
      <4>1. /\ Cleared(ks) \in [Kinds -> {NoDialog} \union Dialogs]
            /\ \A j \in Kinds : Cleared(ks)[j] \in {sess[j], NoDialog}
        BY <1>1, ClearedFacts
      <4> QED
        BY <4>1, <3>2, <2>1, <1>5
    <3> QED
      BY <3>1, <3>2, <1>5
  <2>3. Leaves(h)
    BY <2>1, <2>2, <1>1, <1>5 DEF Leaves, Done, goodsVars, Chat, Begun, Rights, Kinds
  <2> QED
    BY <2>3, LeavesKeeps
<1>6. CASE PromptTxHash(h)
  <2>1. CASE UNCHANGED sess
    BY <2>1, <1>6, ClosesKeeps DEF PromptTxHash
  <2>2. ASSUME NEW d \in Unpaid,
               sess' = [Cleared({"quantity", "topup", "payment"}) EXCEPT !["txHash"] = d]
        PROVE  ChatInv'
    BY <2>2, <1>6, <1>5 DEF PromptTxHash, Kinds, Rights
  <2> QED
    BY <2>1, <2>2, <1>6 DEF PromptTxHash
<1>7. CASE PromptId(h)
  <2>1. CASE UNCHANGED sess
    BY <2>1, <1>7, ClosesKeeps DEF PromptId
  <2>2. ASSUME NEW d \in Verifiable, sess' = [sess EXCEPT !["binance"] = d]
        PROVE  ChatInv'
    BY <2>2, <1>7, <1>5 DEF PromptId, Kinds, Rights
  <2>3. ASSUME NEW d \in Unpaid \intersect Orders, sess' = [sess EXCEPT !["okx"] = d]
        PROVE  ChatInv'
    BY <2>3, <1>7, <1>5 DEF PromptId, Kinds, Rights
  <2> QED
    BY <2>1, <2>2, <2>3, <1>7 DEF PromptId
<1>8. CASE CancelOrder(h)
  <2>1. CASE UNCHANGED invoice
    BY <2>1, <1>8, ClosesKeeps DEF CancelOrder, goodsVars
  <2>2. ASSUME NEW d \in Orders \intersect Unpaid, invoice' = [invoice EXCEPT ![d] = "closed"]
        PROVE  ChatInv'
    <3>1. d \in Dialogs /\ subject[d] # "none" /\ "closed" \in Bills \ {"unpaid"}
      BY DEF Orders, Bills
    <3> QED
      BY <3>1, <2>2, <1>8, SettlesKeeps DEF CancelOrder
  <2> QED
    BY <2>1, <2>2, <1>8 DEF CancelOrder
<1> QED
  BY <1>2, <1>3, <1>4, <1>6, <1>7, <1>8

\* Handlers that may begin a dialogue.
LEMMA BeginningSteps ==
    ASSUME ChatInv, NEW h \in Handlers,
           OpenQuestion(h) \/ PromptQuantity(h) \/ ClaimButton(h)
    PROVE  ChatInv'
<1>1. Chat /\ Begun /\ Known /\ Fit
  BY TypeParts DEF ChatInv
<1>2. CASE OpenQuestion(h)
  <2> DEFINE o == Opens[hand[h].in]
  <2>1. ASSUME NEW ks, sess' = Cleared(ks), UNCHANGED subject
        PROVE  ChatInv'
    BY <2>1, <1>2, ClosesKeeps DEF OpenQuestion, goodsVars
  <2>2. ASSUME NEW d \in Dialogs, New(d), sess' = [Cleared(o.close) EXCEPT ![o.kind] = d],
               subject' = [subject EXCEPT ![d] = o.kind]
        PROVE  ChatInv'
    <3>1. o.kind \in {"topup", "social", "connection", "warranty"} /\ o.kind \in Kinds
      BY <1>2, OpensFacts DEF OpenQuestion, Kinds
    <3>2. PICK k : k = o.kind
      OBVIOUS
    <3>3. PICK ks : ks = o.close
      OBVIOUS
    <3>4. /\ sess' = [Cleared(ks) EXCEPT ![k] = d] /\ subject' = [subject EXCEPT ![d] = k]
          /\ k \in Kinds /\ k \in {"topup", "social", "connection", "warranty"}
      BY <2>2, <3>1, <3>2, <3>3
    <3>5. /\ Cleared(ks) \in [Kinds -> {NoDialog} \union Dialogs]
          /\ \A j \in Kinds : Cleared(ks)[j] \in {sess[j], NoDialog}
      BY <1>1, ClearedFacts
    <3>6. Opening(h, k, d)
      BY <3>4, <3>5, <2>2, <1>2 DEF Opening, OpenQuestion, New, Done
    <3> QED
      BY <3>6, OpeningKeeps
  <2>3. \/ \E ks \in o.else : sess' = Cleared(ks) /\ UNCHANGED subject
        \/ \E d \in Dialogs :
               /\ New(d)
               /\ sess' = [Cleared(o.close) EXCEPT ![o.kind] = d]
               /\ subject' = [subject EXCEPT ![d] = o.kind]
    BY <1>2 DEF OpenQuestion
  <2> QED
    BY <2>1, <2>2, <2>3
<1>3. CASE PromptQuantity(h)
  <2>1. CASE Done(h) /\ UNCHANGED <<subject, shared>>
    BY <2>1, <1>3, ClosesKeeps DEF PromptQuantity, goodsVars
  <2>2. ASSUME Orders \intersect Unpaid = {}, NEW d \in Dialogs, NEW s \in {"plain", "social"},
               New(d), subject' = [subject EXCEPT ![d] = s], Hold(h, "ask", d)
        PROVE  ChatInv'
    <3>1. \A c \in Dialogs : ~Owed(c)
      BY <2>2 DEF Orders, Unpaid, Owed
    <3>2. /\ sess' \in [Kinds -> {NoDialog} \union Dialogs]
          /\ \A k \in Kinds : sess'[k] \in {sess[k], NoDialog}
      BY <1>1, <1>3, ClearedFacts DEF PromptQuantity
    <3>3. Begins(h, "ask", d, s)
      BY <3>1, <3>2, <2>2, <1>3 DEF Begins, PromptQuantity, New, Subjects
    <3> QED
      BY <3>3, BeginsKeeps
  <2> QED
    BY <2>1, <2>2, <1>3 DEF PromptQuantity
<1>4. CASE ClaimButton(h)
  <2>1. CASE Done(h) /\ UNCHANGED <<subject, shared>>
    BY <2>1, <1>4, ClosesKeeps DEF ClaimButton, goodsVars
  <2>2. ASSUME NEW d \in Dialogs, New(d), subject' = [subject EXCEPT ![d] = "warranty"],
               Hold(h, "check", d)
        PROVE  ChatInv'
    <3>1. /\ sess' \in [Kinds -> {NoDialog} \union Dialogs]
          /\ \A k \in Kinds : sess'[k] \in {sess[k], NoDialog}
      BY <1>1, <1>4, ClearedFacts DEF ClaimButton
    <3>2. Begins(h, "check", d, "warranty")
      BY <3>1, <2>2, <1>4 DEF Begins, ClaimButton, New, Subjects
    <3> QED
      BY <3>2, BeginsKeeps
  <2> QED
    BY <2>1, <2>2, <1>4 DEF ClaimButton
<1> QED
  BY <1>2, <1>3, <1>4

\* Handlers that may take up a dialogue.
LEMMA TakingSteps ==
    ASSUME ChatInv, NEW h \in Handlers,
           Text(h) \/ PayButton(h) \/ VerifyButton(h)
    PROVE  ChatInv'
<1>1. Chat /\ Begun /\ Known /\ Fit
  BY TypeParts DEF ChatInv
<1>2. ASSUME hand[h].pc = "run", NEW d \in Unpaid \union Verifiable, Hold(h, "verify", d),
             UNCHANGED <<sess, goodsVars, mailVars>>
      PROVE  ChatInv'
  <2>1. d \in Dialogs /\ subject[d] # "none"
    BY <1>1, <1>2 DEF Known, Unpaid, Verifiable
  <2>2. Takes(h, "verify", d)
    BY <2>1, <1>1, <1>2 DEF Takes, Chat, Begun, goodsVars, Steps, Making, Shop
  <2> QED
    BY <2>1, <2>2, TakesKeeps
<1>3. CASE VerifyButton(h)
  <2>1. CASE Done(h) /\ UNCHANGED shared
    BY <2>1, <1>3, ClosesKeeps DEF VerifyButton
  <2>2. ASSUME NEW d \in Unpaid, Hold(h, "verify", d) PROVE ChatInv'
    BY <2>2, <1>3, <1>2 DEF VerifyButton
  <2> QED
    BY <2>1, <2>2, <1>3 DEF VerifyButton
<1>4. CASE PayButton(h)
  <2>1. CASE sess["payment"] = NoDialog
    BY <2>1, <1>4, ClosesKeeps DEF PayButton
  <2>2. CASE sess["payment"] # NoDialog
    <3>1. PICK d \in Dialogs : d = sess["payment"]
      BY <1>1, <2>2 DEF Chat, Kinds
    <3>2. subject[d] # "none" /\ subject[d] \in {"plain", "social"} /\ Hold(h, "method", d)
      BY <1>1, <1>4, <2>2, <3>1 DEF Begun, Fit, PayButton
    <3>3. Takes(h, "method", d)
      BY <3>1, <3>2, <1>1, <1>4
         DEF Takes, PayButton, Chat, Begun, goodsVars, Steps, Making, Shop, MayKeep, Rights
    <3> QED
      BY <3>3, TakesKeeps
  <2> QED
    BY <2>1, <2>2
<1>5. CASE Text(h)
  <2> DEFINE ks == Takers(hand[h].in)
  <2>1. ASSUME NEW d \in Unpaid, sess["txHash"] = NoDialog, sess' = [sess EXCEPT !["txHash"] = d],
               Hold(h, "txHash", d)
        PROVE  ChatInv'
    <3>1. d \in Dialogs /\ subject[d] # "none"
      BY <1>1 DEF Known, Unpaid
    <3>2. /\ sess' \in [Kinds -> {NoDialog} \union Dialogs]
          /\ sess'["txHash"] = d
          /\ \A k \in Kinds : k # "txHash" => sess'[k] = sess[k]
      BY <3>1, <2>1, <1>1 DEF Chat, Kinds
    <3>3. Takes(h, "txHash", d)
      BY <3>1, <3>2, <2>1, <1>1, <1>5
         DEF Takes, Text, Begun, goodsVars, Steps, Making, Shop, Kinds, Rights
    <3> QED
      BY <3>1, <3>3, TakesKeeps
  <2>2. ASSUME ks # {}, Hold(h, First(ks), sess[First(ks)]), UNCHANGED sess
        PROVE  ChatInv'
    <3>1. ks \in SUBSET DOMAIN Rank
      BY DEF Takers
    <3>2. PICK k : k = First(ks)
      OBVIOUS
    <3>3. k \in ks
      BY <3>1, <3>2, <2>2, FirstIn
    <3>4. k \in DOMAIN Rank /\ sess[k] # NoDialog
      BY <3>3 DEF Takers
    <3>5. k \in {"txHash", "topup", "social", "quantity", "connection", "account", "warranty",
                 "binance", "okx"}
      BY <3>4 DEF Rank
    <3>6. k \in Kinds
      BY <3>5 DEF Kinds
    <3>7. PICK d \in Dialogs : d = sess[k]
      BY <1>1, <3>4, <3>6 DEF Chat
    <3>8. Hold(h, k, d) /\ sess[k] = d /\ subject[d] # "none" /\ d # NoDialog
      BY <2>2, <3>2, <3>4, <3>6, <3>7, <1>1 DEF Begun
    <3>9. /\ k = "quantity" => subject[d] \in {"plain", "social"}
          /\ k = "social" => subject[d] = "social"
          /\ k = "topup" => subject[d] = "topup"
      BY <3>8, <1>1 DEF Fit
    <3>10. k \in Making => k \in Rights /\ MayKeep(k, k)
      BY <3>5 DEF Making, Shop, Rights, MayKeep
    <3>11. Takes(h, k, d)
      <4>1. k \in Steps \ {"idle", "run", "toppedUp", "create"}
        BY <3>5 DEF Steps, Kinds
      <4>2. hand[h].pc = "run" /\ sess' = sess /\ UNCHANGED <<goodsVars, mailVars>>
        BY <1>5, <2>2 DEF Text
      <4>3. k \in Shop => k = "quantity"
        BY <3>5 DEF Shop
      <4>4. /\ sess' \in [Kinds -> {NoDialog} \union Dialogs]
            /\ \A j \in Kinds : sess'[j] # NoDialog => subject[sess'[j]] # "none"
            /\ \A j \in Rights : sess'[j] = sess[j]
        BY <4>2, <1>1 DEF Chat, Begun
      <4>5. k \in Making => \E j \in Rights : sess[j] = d /\ MayKeep(k, j)
        BY <3>8, <3>10
      <4>6. k \in Shop => subject[d] \in {"plain", "social"} /\ sess["quantity"] = d
        BY <4>3, <3>8, <3>9
      <4>7. k \notin {"offer"}
        BY <3>5
      <4>8. subject' = subject /\ invoice' = invoice /\ made' = made /\ UNCHANGED mailVars
        BY <4>2 DEF goodsVars
      <4> QED
        BY <4>1, <4>2, <4>4, <4>5, <4>6, <4>7, <4>8, <3>8, <3>9 DEF Takes
    <3> QED
      BY <3>11, TakesKeeps
  <2>3. ASSUME NEW d \in Verifiable, Hold(h, "verify", d), UNCHANGED sess
        PROVE  ChatInv'
    BY <2>3, <1>5, <1>2 DEF Text
  <2>4. CASE Done(h) /\ UNCHANGED <<sess, shared>>
    BY <2>4, <1>5, ClosesKeeps DEF Text
  <2> QED
    BY <2>1, <2>2, <2>3, <2>4, <1>5 DEF Text
<1> QED
  BY <1>3, <1>4, <1>5

\* Handlers at work on a dialogue.
LEMMA AskingSteps ==
    ASSUME ChatInv, NEW h \in Handlers,
           \/ AskQuantity(h) \/ QuantityMessage(h) \/ SocialTargetMessage(h)
           \/ SocialPayment(h) \/ CheckWarranty(h)
    PROVE  ChatInv'
<1>1. Chat /\ Begun /\ Known /\ Fit
  BY TypeParts DEF ChatInv
<1> DEFINE d == hand[h].d
           p == hand[h].pc
<1>2. /\ p \in {"ask", "quantity", "social", "offer", "check"} /\ d \in Dialogs
      /\ subject[d] # "none"
  BY Dialogue DEF AskQuantity, QuantityMessage, SocialTargetMessage, SocialPayment, CheckWarranty
\* A question in key k of which no other key is left that the step keeps.
<1>3. ASSUME NEW k \in {"quantity", "payment", "social", "account"}, NEW ks, Done(h),
             \/ /\ sess' = [sess EXCEPT ![k] = d]
                /\ \A j \in Rights : MayKeep(p, j) => j = k
             \/ /\ sess' = [Cleared(ks) EXCEPT ![k] = d]
                /\ \A j \in Rights : MayKeep(p, j) => j = k \/ j \in ks,
             k = "quantity" => p \in Shop,
             k = "payment" => p \in Shop \/ subject[d] = "social",
             k = "social" => subject[d] = "social",
             UNCHANGED <<goodsVars, mailVars, shared>>
      PROVE  ChatInv'
  <2>1. /\ sess' \in [Kinds -> {NoDialog} \union Dialogs] /\ sess'[k] = d
        /\ \A j \in Kinds : j # k => sess'[j] \in {sess[j], NoDialog}
        /\ \A j \in Rights : j # k /\ MayKeep(p, j) => sess'[j] = NoDialog
    <3>1. CASE /\ sess' = [sess EXCEPT ![k] = d]
               /\ \A j \in Rights : MayKeep(p, j) => j = k
      BY <3>1, <1>1, <1>2, <1>3 DEF Chat, Kinds
    <3>2. CASE /\ sess' = [Cleared(ks) EXCEPT ![k] = d]
               /\ \A j \in Rights : MayKeep(p, j) => j = k \/ j \in ks
      <4>1. /\ Cleared(ks) \in [Kinds -> {NoDialog} \union Dialogs]
            /\ \A j \in Kinds : Cleared(ks)[j] \in {sess[j], NoDialog}
            /\ \A j \in Kinds : j \in ks => Cleared(ks)[j] = NoDialog
        BY <1>1, ClearedFacts
      <4>2. k \in Kinds /\ Rights \subseteq Kinds
        BY DEF Kinds, Rights
      <4> QED
        BY <4>1, <4>2, <3>2, <1>2, <1>3
    <3> QED
      BY <3>1, <3>2, <1>3
  <2>2. k \in Rights /\ k # "topup" /\ p \in Making /\ d # NoDialog /\ Rights \subseteq Kinds
    BY <1>2 DEF Rights, Making, Shop, Kinds, Dialogs, NoDialog
  <2>3. \A j \in Kinds : sess'[j] # NoDialog => subject[sess'[j]] # "none"
    BY <2>1, <1>1, <1>2 DEF Begun
  <2>4. Asks(h, k)
    BY <2>1, <2>2, <2>3, <1>2, <1>3 DEF Asks, Done, goodsVars
  <2> QED
    BY <2>2, <2>4, AsksKeeps
\* The next step of the same dialogue.
<1>4. ASSUME NEW q \in {"buy", "offer", "make"}, GoOn(h, q), NEW ks,
             sess' = sess \/ sess' = Cleared(ks),
             p \in {"quantity", "social", "offer", "check"},
             p = "quantity" => q = "buy" /\ subject[d] = "plain",
             p = "social" => q = "offer" /\ sess' = Cleared(ks) /\ "social" \in ks,
             p = "offer" => q = "buy",
             p = "check" => q = "make",
             UNCHANGED <<goodsVars, mailVars, shared>>
      PROVE  ChatInv'
  <2>1. /\ sess' \in [Kinds -> {NoDialog} \union Dialogs]
        /\ \A k \in Kinds : sess'[k] \in {sess[k], NoDialog}
        /\ p = "social" => sess'["social"] = NoDialog
    BY <1>1, <1>4, ClearedFacts DEF Chat, Kinds
  <2>2. p \in {"social", "offer"} => subject[d] = "social"
    BY <1>1 DEF Fit
  <2>3. GoesOn(h, q)
    BY <2>1, <2>2, <1>4 DEF GoesOn, GoOn, goodsVars, Steps, Making, Shop, MayKeep
  <2> QED
    BY <2>3, GoesOnKeeps
<1> HIDE DEF d, p
<1>5. CASE AskQuantity(h)
  BY <1>5, <1>3 DEF AskQuantity, MayKeep, Shop, d, p
<1>6. CASE QuantityMessage(h)
  <2>1. p = "quantity" /\ UNCHANGED <<goodsVars, mailVars, shared>>
    BY <1>6 DEF QuantityMessage, p
  <2>2. ASSUME Done(h), sess' = sess \/ sess' = Cleared({"quantity"}) PROVE ChatInv'
    BY <2>1, <2>2, ClosesKeeps DEF p
  <2>3. ASSUME Done(h), sess' = [sess EXCEPT !["quantity"] = d] PROVE ChatInv'
    BY <2>1, <2>3, <1>3 DEF MayKeep, Shop
  <2>4. ASSUME Done(h), NEW k \in {"social", "payment"},
               sess' = [sess EXCEPT !["quantity"] = NoDialog, ![k] = d],
               k = "social" => subject[d] = "social"
        PROVE  ChatInv'
    <3>1. sess' = [Cleared({"quantity"}) EXCEPT ![k] = d]
      BY <2>4, <1>1 DEF Cleared, Chat, Kinds
    <3> QED
      BY <3>1, <2>1, <2>4, <1>3 DEF MayKeep, Shop
  <2>5. ASSUME subject[d] = "plain", UNCHANGED sess, GoOn(h, "buy") PROVE ChatInv'
    BY <2>1, <2>5, <1>4
  <2> QED
    BY <2>2, <2>3, <2>4, <2>5, <1>6 DEF QuantityMessage, d
<1>7. CASE SocialTargetMessage(h)
  <2>1. p = "social" /\ UNCHANGED <<goodsVars, mailVars, shared>>
    BY <1>7 DEF SocialTargetMessage, p
  <2>2. ASSUME Done(h), sess' = sess PROVE ChatInv'
    BY <2>1, <2>2, ClosesKeeps DEF p
  <2>3. ASSUME Done(h), sess' = [sess EXCEPT !["social"] = d] PROVE ChatInv'
    BY <2>1, <2>3, <1>1, <1>3 DEF MayKeep, Fit, d, p
  <2>4. ASSUME sess' = Cleared({"social"}), GoOn(h, "offer") PROVE ChatInv'
    BY <2>1, <2>4, <1>4
  <2> QED
    BY <2>2, <2>3, <2>4, <1>7 DEF SocialTargetMessage, d
<1>8. CASE SocialPayment(h)
  <2>1. p = "offer" /\ UNCHANGED <<goodsVars, mailVars, shared>>
    BY <1>8 DEF SocialPayment, p
  <2>2. ASSUME Done(h), sess' = sess PROVE ChatInv'
    BY <2>1, <2>2, ClosesKeeps DEF p
  <2>3. ASSUME Done(h), sess' = [sess EXCEPT !["payment"] = d] PROVE ChatInv'
    BY <2>1, <2>3, <1>1, <1>3 DEF MayKeep, Fit, d, p
  <2>4. ASSUME UNCHANGED sess, GoOn(h, "buy") PROVE ChatInv'
    BY <2>1, <2>4, <1>4
  <2> QED
    BY <2>2, <2>3, <2>4, <1>8 DEF SocialPayment, d
<1>9. CASE CheckWarranty(h)
  <2>1. p = "check" /\ UNCHANGED <<goodsVars, mailVars, shared>>
    BY <1>9 DEF CheckWarranty, p
  <2>2. ASSUME Done(h), sess' = sess PROVE ChatInv'
    BY <2>1, <2>2, ClosesKeeps DEF p
  <2>3. ASSUME Done(h), sess' = [sess EXCEPT !["account"] = d] PROVE ChatInv'
    BY <2>1, <2>3, <1>3 DEF MayKeep
  <2>4. ASSUME UNCHANGED sess, GoOn(h, "make") PROVE ChatInv'
    BY <2>1, <2>4, <1>4
  <2> QED
    BY <2>2, <2>3, <2>4, <1>9 DEF CheckWarranty, d
<1> QED
  BY <1>5, <1>6, <1>7, <1>8, <1>9

\* Handlers that may go on or make what the dialogue is for.
LEMMA MakingSteps ==
    ASSUME ChatInv, NEW h \in Handlers,
           \/ PaymentMethod(h) \/ Buy(h) \/ CreateOrder(h) \/ WalletTopupMessage(h)
           \/ TakeAnswer(h) \/ Make(h)
    PROVE  ChatInv'
<1>1. Chat /\ Begun /\ Known /\ Fit
  BY TypeParts DEF ChatInv
<1>2. CASE PaymentMethod(h)
  <2>1. CASE sess' = Cleared({"payment"}) /\ Done(h)
    BY <2>1, <1>2, ClosesKeeps DEF PaymentMethod
  <2>2. CASE GoOn(h, "buy") /\ UNCHANGED sess
    <3>1. GoesOn(h, "buy")
      BY <2>2, <1>1, <1>2
         DEF PaymentMethod, GoesOn, GoOn, Chat, Fit, goodsVars, Steps, Making, Shop, MayKeep
    <3> QED
      BY <3>1, GoesOnKeeps
  <2> QED
    BY <2>1, <2>2, <1>2 DEF PaymentMethod
<1>3. CASE Buy(h)
  <2>1. CASE Done(h) /\ UNCHANGED sess
    BY <2>1, <1>3, ClosesKeeps DEF Buy
  <2>2. CASE GoOn(h, "create") /\ sess' = Cleared({"quantity", "payment", "txHash"})
    <3>1. /\ sess' \in [Kinds -> {NoDialog} \union Dialogs]
          /\ \A k \in Kinds : sess'[k] \in {sess[k], NoDialog}
          /\ sess'["quantity"] = NoDialog /\ sess'["payment"] = NoDialog
      BY <2>2, <1>1, ClearedFacts DEF Kinds
    <3>2. GoesOn(h, "create")
      BY <3>1, <2>2, <1>1, <1>3
         DEF Buy, GoesOn, GoOn, Fit, goodsVars, Steps, Making, Shop, MayKeep
    <3> QED
      BY <3>2, GoesOnKeeps
  <2> QED
    BY <2>1, <2>2, <1>3 DEF Buy
<1>4. CASE CreateOrder(h)
  <2>1. CASE UNCHANGED <<invoice, made>>
    BY <2>1, <1>4, ClosesKeeps DEF CreateOrder, goodsVars
  <2>2. CASE \E status \in {"unpaid", "paid"} :
                /\ invoice' = [invoice EXCEPT ![hand[h].d] = status]
                /\ made' = [made EXCEPT ![hand[h].d] = @ + 1]
    <3>1. Makes(h)
      BY <2>2, <1>4 DEF Makes, CreateOrder, Done
    <3> QED
      BY <3>1, MakesKeeps
  <2> QED
    BY <2>1, <2>2, <1>4 DEF CreateOrder
<1>5. CASE WalletTopupMessage(h)
  <2>1. CASE Done(h) /\ UNCHANGED <<invoice, made>>
    BY <2>1, <1>5, ClosesKeeps DEF WalletTopupMessage, goodsVars
  <2>2. CASE /\ invoice' = [invoice EXCEPT ![hand[h].d] = "unpaid"]
             /\ made' = [made EXCEPT ![hand[h].d] = @ + 1]
             /\ GoOn(h, "toppedUp")
    BY <2>2, <1>5, TopupKeeps DEF WalletTopupMessage
  <2> QED
    BY <2>1, <2>2, <1>5 DEF WalletTopupMessage
<1>6. CASE TakeAnswer(h)
  <2>1. CASE hand[h].pc = "connection" /\ Done(h) /\ UNCHANGED sess
    BY <2>1, <1>6, ClosesKeeps DEF TakeAnswer
  <2>2. ASSUME NEW k \in {"connection", "warranty", "account"}, k = hand[h].pc,
               NEW q \in {"check", "make"}, sess' = Cleared({k}), GoOn(h, q)
        PROVE  ChatInv'
    <3>1. /\ sess' \in [Kinds -> {NoDialog} \union Dialogs]
          /\ \A j \in Kinds : sess'[j] \in {sess[j], NoDialog}
          /\ sess'[k] = NoDialog
      BY <2>2, <1>1, ClearedFacts DEF Kinds
    <3>2. GoesOn(h, q)
      BY <3>1, <2>2, <1>6
         DEF TakeAnswer, GoesOn, GoOn, goodsVars, Steps, Making, Shop, MayKeep
    <3> QED
      BY <3>2, GoesOnKeeps
  <2>3. /\ hand[h].pc \in {"connection", "warranty", "account"}
        /\ \/ hand[h].pc = "connection" /\ Done(h) /\ UNCHANGED sess
           \/ \E q \in {"check", "make"} : sess' = Cleared({hand[h].pc}) /\ GoOn(h, q)
    BY <1>6 DEF TakeAnswer
  <2> QED
    BY <2>1, <2>2, <2>3
<1>7. CASE Make(h)
  <2>1. CASE made' = made
    BY <2>1, <1>7, ClosesKeeps DEF Make, goodsVars
  <2>2. CASE made' = [made EXCEPT ![hand[h].d] = @ + 1]
    <3>1. Makes(h)
      BY <2>2, <1>7 DEF Makes, Make, Done
    <3> QED
      BY <3>1, MakesKeeps
  <2> QED
    BY <2>1, <2>2, <1>7 DEF Make
<1> QED
  BY <1>2, <1>3, <1>4, <1>5, <1>6, <1>7

\* Handlers that look a payment up.
LEMMA SettlingSteps ==
    ASSUME ChatInv, NEW h \in Handlers,
           TxHashMessage(h) \/ ExchangeIdMessage(h) \/ Verify(h)
    PROVE  ChatInv'
<1>1. Chat /\ Begun /\ Known /\ Fit /\ "paid" \in Bills \ {"unpaid"}
  BY TypeParts DEF ChatInv, Bills
<1>2. hand[h].d \in Dialogs /\ subject[hand[h].d] # "none"
  BY Dialogue DEF TxHashMessage, ExchangeIdMessage, Verify
<1>3. CASE TxHashMessage(h)
  <2>1. CASE UNCHANGED <<sess, invoice>>
    BY <2>1, <1>3, ClosesKeeps DEF TxHashMessage, goodsVars
  <2>2. CASE invoice' = [invoice EXCEPT ![hand[h].d] = "paid"] /\ sess' = Cleared({"txHash"})
    BY <2>2, <1>1, <1>2, <1>3, SettlesKeeps DEF TxHashMessage
  <2> QED
    BY <2>1, <2>2, <1>3 DEF TxHashMessage
<1>4. CASE ExchangeIdMessage(h)
  <2>1. CASE Done(h) /\ UNCHANGED sess
    BY <2>1, <1>4, ClosesKeeps DEF ExchangeIdMessage
  <2>2. CASE sess' = Cleared({hand[h].pc}) /\ GoOn(h, "verify")
    <3>1. /\ sess' \in [Kinds -> {NoDialog} \union Dialogs]
          /\ \A j \in Kinds : sess'[j] \in {sess[j], NoDialog}
      BY <2>2, <1>1, ClearedFacts
    <3>2. GoesOn(h, "verify")
      BY <3>1, <2>2, <1>4
         DEF ExchangeIdMessage, GoesOn, GoOn, goodsVars, Steps, Making, Shop, MayKeep
    <3> QED
      BY <3>2, GoesOnKeeps
  <2> QED
    BY <2>1, <2>2, <1>4 DEF ExchangeIdMessage
<1>5. CASE Verify(h)
  <2>1. CASE invoice' = invoice
    BY <2>1, <1>5, ClosesKeeps DEF Verify, goodsVars
  <2>2. CASE invoice' # invoice
    <3>1. invoice' = [invoice EXCEPT ![hand[h].d] = "paid"]
      <4>1. invoice' = [invoice EXCEPT ![hand[h].d] =
                            IF hand[h].d \in Verifiable THEN "paid" ELSE @]
        BY <2>2, <1>5 DEF Verify
      <4> QED
        BY <4>1, <2>2, <1>1, <1>2 DEF Chat
    <3> QED
      BY <3>1, <1>1, <1>2, <1>5, SettlesKeeps DEF Verify
  <2> QED
    BY <2>1, <2>2
<1> QED
  BY <1>3, <1>4, <1>5

-----------------------------------------------------------------------------
\* The first state has the invariant.
LEMMA ChatBegins == ChatInit => ChatInv
<1> SUFFICES ASSUME ChatInit PROVE ChatInv
  OBVIOUS
<1>1. /\ \A h \in Handlers : hand[h] = Idle
      /\ \A k \in Kinds : sess[k] = NoDialog
      /\ \A d \in Dialogs : subject[d] = "none" /\ invoice[d] = "none" /\ made[d] = 0
      /\ \A d \in Dialogs : d # NoDialog
  BY DEF ChatInit, Dialogs, NoDialog
<1>2. Chat
  <2>1. /\ sess \in [Kinds -> {NoDialog} \union Dialogs]
        /\ subject \in [Dialogs -> Subjects] /\ invoice \in [Dialogs -> Bills]
        /\ made \in [Dialogs -> Nat] /\ hand \in [Handlers -> Hands]
    BY IdleHand DEF ChatInit, Subjects, Bills
  <2>2. /\ updates \in 0 .. MaxUpdates /\ claimed \subseteq 1 .. updates
        /\ resends \in 0 .. MaxResends /\ deaths \in 0 .. MaxDeaths
    BY ChatBounds DEF ChatInit
  <2>3. last \in [u : 0 .. updates, in : Inputs \union {"none"}, pc : {"idle"}, d : {NoDialog}]
    BY DEF ChatInit, Idle
  <2> QED
    BY <2>1, <2>2, <2>3 DEF ChatInit, Chat
<1>3. Begun /\ Known /\ Fit
  BY <1>1, IdleHand DEF ChatInit, Begun, Known, Fit, Shop, Kinds
<1>4. AllSole
  BY <1>1, IdleHand DEF AllSole, Sole, Rights, Kinds
<1>5. OneOrder
  BY <1>1, IdleHand DEF OneOrder, Owed
<1> QED
  BY <1>2, <1>3, <1>4, <1>5, TypeParts DEF ChatInv

\* Every step keeps the invariant.
LEMMA ChatSteps == ChatInv /\ [ChatNext]_chatVars => ChatInv'
<1> SUFFICES ASSUME ChatInv, [ChatNext]_chatVars PROVE ChatInv'
  OBVIOUS
<1>1. ASSUME NEW h \in Handlers, Handle(h) PROVE ChatInv'
  BY <1>1, EndingSteps, BeginningSteps, TakingSteps, AskingSteps, MakingSteps, SettlingSteps
     DEF Handle
<1>2. CASE UNCHANGED chatVars
  <2>1. /\ talk' = talk /\ sess' = sess /\ subject' = subject /\ invoice' = invoice
        /\ made' = made /\ hand' = hand /\ updates' = updates /\ claimed' = claimed
        /\ last' = last /\ resends' = resends /\ deaths' = deaths
        /\ overlapped' = overlapped /\ shared' = shared
    BY <1>2 DEF chatVars
  <2>2. ChatTypeOK'
    BY <2>1 DEF ChatInv, ChatTypeOK
  <2>3. Known' /\ Fit'
    BY <2>1 DEF ChatInv, Known, Fit
  <2>4. AllSole'
    BY <2>1 DEF ChatInv, AllSole, Sole
  <2>5. OneOrder'
    BY <2>1 DEF ChatInv, OneOrder, Owed, Shopping
  <2> QED
    BY <2>2, <2>3, <2>4, <2>5 DEF ChatInv
<1> QED
  BY <1>1, <1>2, SendKeeps, ResendKeeps, ExpiresKeeps, EndsKeeps, CrashKeeps DEF ChatNext

\* The invariant holds always.
LEMMA ChatInvariant == ChatSpec => []ChatInv
  BY ChatBegins, ChatSteps, PTL DEF ChatSpec

\* Every variable of the dialogues stays in its range, a handler at work has a dialogue
\* that has begun, and a key names one that has.
THEOREM ChatTypes == ChatSpec => []ChatTypeOK
<1>1. ChatInv => ChatTypeOK
  BY DEF ChatInv
<1> QED
  BY <1>1, ChatInvariant, PTL

\* A dialogue leads to one order, top-up or claim, however updates come again and whatever
\* the customer taps and types, unless two updates worked on it at the same time or a
\* top-up died between its making and the closing of its question.
THEOREM OncePerDialogAlways == ChatSpec => []OncePerDialog
<1>1. ChatInv => OncePerDialog
  BY DEF ChatInv, AllSole, Sole, OncePerDialog
<1> QED
  BY <1>1, ChatInvariant, PTL

\* While updates are handled one after the other, a customer has at most one unpaid order
\* of an own product.
THEOREM OneUnpaidOrderAlways == ChatSpec => []OneUnpaidOrder
<1>1. ChatInv => OneUnpaidOrder
  <2> SUFFICES ASSUME ChatInv, ~overlapped
               PROVE  Cardinality({d \in Unpaid : subject[d] = "plain"}) <= 1
    BY DEF OneUnpaidOrder
  <2> DEFINE S == {d \in Unpaid : subject[d] = "plain"}
  <2>1. \A c, d \in S : c = d
    BY DEF ChatInv, OneOrder, Owed, Unpaid
  <2> HIDE DEF S
  <2>2. Cardinality(S) <= 1
    <3>1. CASE S = {}
      BY <3>1, FS_EmptySet
    <3>2. CASE S # {}
      <4>1. PICK c \in S : S = {c}
        BY <2>1, <3>2
      <4>2. Cardinality({c}) = 1
        BY FS_Singleton
      <4> QED
        BY <4>1, <4>2
    <3> QED
      BY <3>1, <3>2
  <2> QED
    BY <2>2 DEF S
<1> QED
  BY <1>1, ChatInvariant, PTL
=============================================================================
