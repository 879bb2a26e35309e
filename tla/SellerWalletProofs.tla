------------------------- MODULE SellerWalletProofs -------------------------
(***************************************************************************)
(* What a seller's wallet and tier guarantee for any number of deposits,   *)
(* withdrawals, plans, source top-ups and refunds, and for all amounts:    *)
(* types, a balance that only claw-backs make negative and that the ledger *)
(* explains, one credit per deposit, and no time that was not paid for.    *)
(***************************************************************************)
EXTENDS SellerWallet, FiniteSetTheorems, TLAPS

\* The end of a plan bought now is a time, and later than now.
LEMMA NewEndType ==
    ASSUME tier.ends \in Nat, now \in Nat
    PROVE  NewEnd \in Nat
  BY AmountsAssumption DEF NewEnd

\* What a refund moves.
LEMMA RefundDeltaType ==
    ASSUME NEW s
    PROVE  RefundDelta(s) \in {Price, -Commission, 0}
  BY DEF RefundDelta

\* Every step keeps the types.
LEMMA TypeInductive == TypeOK /\ [Next]_vars => TypeOK'
<1> SUFFICES ASSUME TypeOK, [Next]_vars PROVE TypeOK'
  OBVIOUS
<1> USE AmountsAssumption, BoundsAssumption
    DEF TypeOK, depositVars, withdrawVars, cancelVars, moneyVars, tierVars, Book
<1>1. CASE Tick
  BY <1>1 DEF Tick
<1>2. ASSUME NEW d \in Deposits, CreateDepositRequest(d) \/ Pay(d) PROVE TypeOK'
  BY <1>2, SMTT(40) DEF CreateDepositRequest, Pay
<1>3. ASSUME NEW d \in Deposits, ConfirmDeposit(d) PROVE TypeOK'
  BY <1>3 DEF ConfirmDeposit
<1>4. ASSUME NEW d \in Deposits, ExpireAsk(d) \/ ExpireReject(d) PROVE TypeOK'
  BY <1>4 DEF ExpireAsk, ExpireReject
<1>5. ASSUME NEW d \in Deposits, CancelDepositRead(d) \/ CancelDepositWrite(d) PROVE TypeOK'
  <2>1. CASE CancelDepositRead(d)
    BY <2>1 DEF CancelDepositRead
  <2>2. CASE CancelDepositWrite(d)
    <3>1. cancelling' \in [Deposits -> Nat] /\ undone' \in [Deposits -> Nat]
      BY <2>2 DEF CancelDepositWrite
    <3>2. deposit' \in [Deposits -> {"NONE", "PENDING", "CONFIRMED", "REJECTED"}]
      BY <2>2 DEF CancelDepositWrite
    <3> QED
      BY <2>2, <3>1, <3>2 DEF CancelDepositWrite
  <2> QED
    BY <1>5, <2>1, <2>2
<1>6. ASSUME NEW d \in Deposits, ConfirmTierRead(d) PROVE TypeOK'
  <2>1. NewEnd \in Nat
    BY NewEndType
  <2> QED
    BY <1>6, <2>1 DEF ConfirmTierRead
<1>7. ASSUME NEW d \in Deposits, NEW s \in Subs, ConfirmTierWrite(d, s) PROVE TypeOK'
  <2>1. /\ sub' \in [Subs -> [state : {"NONE", "ACTIVE", "REFUNDED"},
                              by : {None, "wallet", "deposit", "referred"}, ends : Nat, at : Nat]]
        /\ tier' \in [level : {"FREE", "PRO"}, ends : Nat]
    BY <1>7 DEF ConfirmTierWrite
  <2> QED
    BY <1>7, <2>1 DEF ConfirmTierWrite
<1>8. ASSUME NEW w \in Withdrawals, AskWithdrawal(w) \/ CreateWithdrawRequest(w) PROVE TypeOK'
  BY <1>8, SMTT(40) DEF AskWithdrawal, CreateWithdrawRequest
<1>9. ASSUME NEW w \in Withdrawals, ApproveWithdrawal(w) \/ RejectWithdrawal(w) PROVE TypeOK'
  BY <1>9 DEF ApproveWithdrawal, RejectWithdrawal
<1>10. ASSUME NEW w \in Withdrawals, CancelWithdrawRead(w) \/ CancelWithdrawWrite(w) PROVE TypeOK'
  BY <1>10 DEF CancelWithdrawRead, CancelWithdrawWrite
<1>11. ASSUME NEW n \in Adjustments, NEW action \in {"topup", "deduct", "set"}, AdminAdjust(action, n)
       PROVE  TypeOK'
  <2>1. AdjustBy(action, n) \in Int
    BY DEF AdjustBy
  <2> QED
    BY <1>11, <2>1 DEF AdminAdjust
<1>12. ASSUME NEW x \in SourceTopups, SourceTopupRead(x) PROVE TypeOK'
  BY <1>12 DEF SourceTopupRead
<1>13. ASSUME NEW x \in SourceTopups, SourceTopupWrite(x) PROVE TypeOK'
  <2>1. balance' \in Int /\ ledger' \in Int /\ source' \in [SourceTopups -> Nat \union {Unread}]
    BY <1>13 DEF SourceTopupWrite, Unread
  <2>2. lost' \in BOOLEAN
    BY <1>13, Zenon DEF SourceTopupWrite
  <2> QED
    BY <1>13, <2>1, <2>2 DEF SourceTopupWrite
<1>14. ASSUME NEW s \in Subs, BuyTierRead(s) PROVE TypeOK'
  <2>1. NewEnd \in Nat
    BY NewEndType
  <2> QED
    BY <1>14, <2>1 DEF BuyTierRead
<1>15. CASE BuyTierWrite
  <2>1. buying.s \in Subs
    BY <1>15 DEF BuyTierWrite, WalletFree
  <2>2. /\ sub' \in [Subs -> [state : {"NONE", "ACTIVE", "REFUNDED"},
                              by : {None, "wallet", "deposit", "referred"}, ends : Nat, at : Nat]]
        /\ tier' \in [level : {"FREE", "PRO"}, ends : Nat]
    BY <1>15, <2>1 DEF BuyTierWrite
  <2> QED
    BY <1>15, <2>2 DEF BuyTierWrite
<1>16. ASSUME NEW s \in Subs, ReferredBuys(s) PROVE TypeOK'
  <2>1. sub' \in [Subs -> [state : {"NONE", "ACTIVE", "REFUNDED"},
                           by : {None, "wallet", "deposit", "referred"}, ends : Nat, at : Nat]]
    BY <1>16 DEF ReferredBuys
  <2> QED
    BY <1>16, <2>1 DEF ReferredBuys
<1>17. CASE ListExpired \/ ExpireTier
  BY <1>17 DEF ListExpired, ExpireTier
<1>18. ASSUME NEW q \in Refunders, NEW s \in Subs, RefundRead(q, s) PROVE TypeOK'
  <2>1. (sub[s].by # "referred" /\ tier = [level |-> "PRO", ends |-> sub[s].ends]) \in BOOLEAN
    OBVIOUS
  <2>2. refund' \in [Refunders -> [s : Subs \union {None}, current : BOOLEAN]]
    BY <1>18, <2>1 DEF RefundRead
  <2> QED
    BY <1>18, <2>2 DEF RefundRead
<1>19. ASSUME NEW q \in Refunders, RefundWrite(q) PROVE TypeOK'
  <2>1. PICK s \in Subs : s = refund[q].s
    BY <1>19 DEF RefundWrite
  <2>2. RefundDelta(s) \in {Price, -Commission, 0}
    BY RefundDeltaType
  <2>3. balance' \in Int /\ ledger' \in Int
    BY <1>19, <2>1, <2>2 DEF RefundWrite
  <2>4. clawed' \in Nat
    BY <1>19, <2>1 DEF RefundWrite
  <2>5. /\ sub' \in [Subs -> [state : {"NONE", "ACTIVE", "REFUNDED"},
                              by : {None, "wallet", "deposit", "referred"}, ends : Nat, at : Nat]]
        /\ tier' \in [level : {"FREE", "PRO"}, ends : Nat]
        /\ refunds' \in [Subs -> Nat]
    <3>1. /\ sub' = [sub EXCEPT ![s].state = "REFUNDED"] /\ refunds' = [refunds EXCEPT ![s] = @ + 1]
          /\ tier' \in {tier, [level |-> "FREE", ends |-> 0]}
      BY <1>19, <2>1 DEF RefundWrite
    <3>2. sub[s] \in [state : {"NONE", "ACTIVE", "REFUNDED"},
                      by : {None, "wallet", "deposit", "referred"}, ends : Nat, at : Nat]
      OBVIOUS
    <3>3. [sub[s] EXCEPT !.state = "REFUNDED"] \in
              [state : {"NONE", "ACTIVE", "REFUNDED"},
               by : {None, "wallet", "deposit", "referred"}, ends : Nat, at : Nat]
      BY <3>2
    <3> QED
      BY <3>1, <3>3
  <2>6. refund' \in [Refunders -> [s : Subs \union {None}, current : BOOLEAN]]
    BY <1>19 DEF RefundWrite, IdleRefund
  <2> QED
    BY <1>19, <2>3, <2>4, <2>5, <2>6 DEF RefundWrite
<1>20. CASE UNCHANGED vars
  BY <1>20 DEF vars
<1> HIDE DEF TypeOK
<1> QED
  BY <1>1, <1>2, <1>3, <1>4, <1>5, <1>6, <1>7, <1>8, <1>9, <1>10, <1>11, <1>12, <1>13, <1>14, <1>15,
     <1>16, <1>17, <1>18, <1>19, <1>20 DEF Next

\* Every reachable state of a seller's deposits, withdrawals, balance and tier is well typed.
THEOREM TypeCorrect == Spec => []TypeOK
<1>1. Init => TypeOK
  <2> SUFFICES ASSUME Init PROVE TypeOK
    OBVIOUS
  <2>1. /\ NoSub \in [state : {"NONE", "ACTIVE", "REFUNDED"},
                      by : {None, "wallet", "deposit", "referred"}, ends : Nat, at : Nat]
        /\ IdleRefund \in [s : Subs \union {None}, current : BOOLEAN]
    BY DEF NoSub, IdleRefund
  <2>2. /\ sub \in [Subs -> [state : {"NONE", "ACTIVE", "REFUNDED"},
                            by : {None, "wallet", "deposit", "referred"}, ends : Nat, at : Nat]]
        /\ refund \in [Refunders -> [s : Subs \union {None}, current : BOOLEAN]]
    BY <2>1 DEF Init
  <2>3. lost \in BOOLEAN /\ listed \in BOOLEAN
    BY DEF Init
  <2>4. /\ tier \in [level : {"FREE", "PRO"}, ends : Nat] /\ buying \in [s : Subs \union {None}, ends : Nat]
        /\ now \in Nat /\ errors \in Nat /\ balance \in Int /\ ledger \in Int /\ clawed \in Nat
    BY DEF Init
  <2>5. /\ kind \in [Deposits -> {"wallet", "tier"}]
        /\ deposit \in [Deposits -> {"NONE", "PENDING", "CONFIRMED", "REJECTED"}]
        /\ withdraw \in [Withdrawals -> {"NONE", "PENDING", "APPROVED", "REJECTED"}]
        /\ asked \in [Withdrawals -> Nat \union {Unread}] /\ source \in [SourceTopups -> Nat \union {Unread}]
    BY DEF Init
  <2>6. /\ paid = {} /\ expiring = {} /\ revoking = {} /\ rail \in [Deposits -> {"callback", "chain"}]
        /\ cancelling \in [Deposits -> Nat] /\ undone \in [Deposits -> Nat]
        /\ credits \in [Deposits -> Nat] /\ granting \in [Deposits -> Nat] /\ refunds \in [Subs -> Nat]
    BY RailsAssumption DEF Init
  <2> QED
    BY <2>2, <2>3, <2>4, <2>5, <2>6 DEF TypeOK
<1> QED
  BY <1>1, TypeInductive, PTL DEF Spec

-----------------------------------------------------------------------------
\* The money: BalanceSound, a purchase that holds the lock has found the price there, and a
\* source top-up has read at least what it takes.
Funds ==
    /\ balance >= -clawed
    /\ ~lost => ledger = balance
    /\ buying.s # None => balance >= Price
    /\ \A x \in SourceTopups : source[x] # Unread => source[x] >= SourceAmount

\* Every step keeps it.
LEMMA FundsInductive == TypeOK /\ Funds /\ [Next]_vars => Funds'
<1> SUFFICES ASSUME TypeOK, Funds, [Next]_vars PROVE Funds'
  OBVIOUS
<1> USE AmountsAssumption DEF depositVars, withdrawVars, cancelVars, moneyVars, tierVars
<1>1. ASSUME UNCHANGED <<moneyVars, source, buying>> PROVE Funds'
  BY <1>1 DEF Funds
\* A change of the balance under the lock.
<1>2. ASSUME NEW n \in Int, Book(n), UNCHANGED <<lost, source, buying>>, clawed' \in Nat,
             balance + n >= -clawed'
      PROVE  Funds'
  <2>1. balance' = balance + n /\ ledger' = ledger + n /\ buying'.s = None
    BY <1>2 DEF Book, WalletFree
  <2>2. ~lost' => ledger' = balance'
    BY <1>2, <2>1 DEF Funds
  <2>3. balance' >= -clawed'
    BY <1>2, <2>1
  <2> QED
    BY <1>2, <2>1, <2>2, <2>3 DEF Funds
<1>3. ASSUME NEW d \in Deposits, ConfirmDeposit(d) PROVE Funds'
  <2>1. Book(Deposit) /\ UNCHANGED <<clawed, lost, source, buying>>
    BY <1>3 DEF ConfirmDeposit
  <2>2. balance + Deposit >= -clawed
    BY DEF Funds, TypeOK
  <2> QED
    BY <1>2, <2>1, <2>2 DEF TypeOK
<1>4. ASSUME NEW w \in Withdrawals, ApproveWithdrawal(w) PROVE Funds'
  <2>1. Book(-Withdrawal) /\ UNCHANGED <<clawed, lost, source, buying>> /\ balance >= Withdrawal
    BY <1>4 DEF ApproveWithdrawal
  <2>2. balance + (-Withdrawal) >= -clawed /\ -Withdrawal \in Int
    BY <2>1 DEF TypeOK
  <2> QED
    BY <1>2, <2>1, <2>2 DEF TypeOK
<1>5. ASSUME NEW n \in Adjustments, NEW action \in {"topup", "deduct", "set"}, AdminAdjust(action, n)
      PROVE  Funds'
  <2>1. PICK m \in Int : /\ Book(m) /\ UNCHANGED <<clawed, lost, source, buying>>
                         /\ balance + m >= -clawed
    <3>1. AdjustBy(action, n) \in Int
      BY DEF AdjustBy, TypeOK
    <3>2. Book(AdjustBy(action, n)) /\ UNCHANGED <<clawed, lost, source, buying>>
      BY <1>5 DEF AdminAdjust
    <3>3. balance + AdjustBy(action, n) >= -clawed
      BY <1>5 DEF AdminAdjust, AdjustBy, TypeOK, Funds
    <3> QED
      BY <3>1, <3>2, <3>3
  <2> QED
    BY <1>2, <2>1 DEF TypeOK
<1>6. ASSUME NEW x \in SourceTopups, SourceTopupRead(x) PROVE Funds'
  BY <1>6 DEF SourceTopupRead, Funds, TypeOK
<1>7. ASSUME NEW x \in SourceTopups, SourceTopupWrite(x) PROVE Funds'
  <2>1. source[x] >= SourceAmount /\ source[x] \in Nat /\ buying'.s = None
    BY <1>7 DEF SourceTopupWrite, Funds, TypeOK, WalletFree
  <2>2. balance' = source[x] - SourceAmount /\ ledger' = ledger - SourceAmount /\ clawed' = clawed
    BY <1>7 DEF SourceTopupWrite
  <2>3. balance' >= -clawed'
    BY <2>1, <2>2 DEF TypeOK
  <2>4. ASSUME ~lost' PROVE ledger' = balance'
    <3>1. ~lost /\ balance = source[x]
      BY <1>7, <2>4 DEF SourceTopupWrite
    <3> QED
      BY <2>2, <3>1 DEF Funds
  <2>5. \A y \in SourceTopups : source'[y] # Unread => source'[y] >= SourceAmount
    BY <1>7 DEF SourceTopupWrite, Funds, TypeOK
  <2> QED
    BY <2>1, <2>3, <2>4, <2>5 DEF Funds
<1>8. ASSUME NEW s \in Subs, BuyTierRead(s) PROVE Funds'
  <2>1. balance >= Price /\ UNCHANGED <<balance, ledger, clawed, lost, source>>
    BY <1>8 DEF BuyTierRead
  <2> QED
    BY <2>1 DEF Funds
<1>9. CASE BuyTierWrite
  <2>1. balance >= Price
    BY <1>9 DEF BuyTierWrite, WalletFree, Funds
  <2>2. /\ balance' = balance - Price /\ ledger' = ledger - Price /\ buying'.s = None
        /\ UNCHANGED <<clawed, lost, source>>
    BY <1>9 DEF BuyTierWrite
  <2>3. balance' >= -clawed'
    BY <2>1, <2>2 DEF TypeOK
  <2>4. ~lost' => ledger' = balance'
    BY <2>2 DEF Funds
  <2> QED
    BY <2>2, <2>3, <2>4 DEF Funds
<1>10. ASSUME NEW s \in Subs, ReferredBuys(s) PROVE Funds'
  <2>1. Book(Commission) /\ UNCHANGED <<clawed, lost, source, buying>>
    BY <1>10 DEF ReferredBuys
  <2>2. balance + Commission >= -clawed
    BY DEF Funds, TypeOK
  <2> QED
    BY <1>2, <2>1, <2>2 DEF TypeOK
<1>11. ASSUME NEW q \in Refunders, RefundWrite(q) PROVE Funds'
  <2>1. PICK n \in {Price, -Commission, 0} :
           /\ Book(n) /\ clawed' = clawed + (IF n < 0 THEN Commission ELSE 0)
           /\ UNCHANGED <<lost, source, buying>>
    <3>1. RefundDelta(refund[q].s) \in {Price, -Commission, 0}
      BY RefundDeltaType
    <3> QED
      BY <1>11, <3>1 DEF RefundWrite
  <2>2. n \in Int /\ clawed' \in Nat /\ balance + n >= -clawed'
    BY <2>1 DEF Funds, TypeOK
  <2> QED
    BY <1>2, <2>1, <2>2
<1>12. ASSUME NEW d \in Deposits, NEW s \in Subs, ConfirmTierWrite(d, s) PROVE Funds'
  BY <1>1, <1>12 DEF ConfirmTierWrite
<1>13. ASSUME NEW d \in Deposits,
              \/ CreateDepositRequest(d) \/ Pay(d) \/ ExpireAsk(d) \/ ExpireReject(d)
              \/ CancelDepositRead(d) \/ CancelDepositWrite(d) \/ ConfirmTierRead(d)
       PROVE  Funds'
  BY <1>1, <1>13 DEF CreateDepositRequest, Pay, ExpireAsk, ExpireReject, CancelDepositRead,
                     CancelDepositWrite, ConfirmTierRead
<1>14. ASSUME NEW w \in Withdrawals,
              \/ AskWithdrawal(w) \/ CreateWithdrawRequest(w) \/ RejectWithdrawal(w)
              \/ CancelWithdrawRead(w) \/ CancelWithdrawWrite(w)
       PROVE  Funds'
  BY <1>1, <1>14 DEF AskWithdrawal, CreateWithdrawRequest, RejectWithdrawal, CancelWithdrawRead,
                     CancelWithdrawWrite
<1>15. ASSUME NEW q \in Refunders, NEW s \in Subs, RefundRead(q, s) PROVE Funds'
  BY <1>1, <1>15 DEF RefundRead
<1>16. CASE Tick \/ ListExpired \/ ExpireTier
  BY <1>1, <1>16 DEF Tick, ListExpired, ExpireTier
<1>17. CASE UNCHANGED vars
  BY <1>1, <1>17 DEF vars
<1> HIDE DEF depositVars, withdrawVars, cancelVars, moneyVars, tierVars
<1> QED
  BY <1>3, <1>4, <1>5, <1>6, <1>7, <1>8, <1>9, <1>10, <1>11, <1>12, <1>13, <1>14, <1>15, <1>16, <1>17
     DEF Next

\* Withdrawals, tier purchases, deductions and source top-ups find the money there, so only
\* claw-backs of commission make a seller's balance negative, and the ledger explains it
\* unless a source top-up has written over a change.
THEOREM BalanceKept == Spec => []BalanceSound
<1>1. Init => Funds
  BY AmountsAssumption DEF Init, Funds, Unread
<1>2. Funds => BalanceSound
  BY DEF Funds, BalanceSound
<1> QED
  BY <1>1, <1>2, TypeCorrect, FundsInductive, PTL DEF Spec

-----------------------------------------------------------------------------
\* How far a deposit is and what came of it: what was credited and not undone by a
\* cancellation shows as CONFIRMED.
Ticket(d) ==
    /\ deposit[d] \in {"NONE", "PENDING"} => credits[d] = 0
    /\ credits[d] = undone[d] + (IF deposit[d] = "CONFIRMED" THEN 1 ELSE 0)
    /\ kind[d] = "tier" => credits[d] <= 1
    /\ granting[d] # 0 => kind[d] = "tier" /\ deposit[d] = "PENDING"

\* A deposit that a step leaves alone.
LEMMA TicketSame ==
    ASSUME NEW d \in Deposits, Ticket(d), deposit'[d] = deposit[d], credits'[d] = credits[d],
           granting'[d] = granting[d], kind' = kind, undone'[d] = undone[d]
    PROVE  Ticket(d)'
  BY DEF Ticket

\* Every step keeps the tickets.
LEMMA TicketsInductive ==
    TypeOK /\ (\A d \in Deposits : Ticket(d)) /\ [Next]_vars => (\A d \in Deposits : Ticket(d))'
<1> SUFFICES ASSUME TypeOK, \A d \in Deposits : Ticket(d), [Next]_vars, NEW d \in Deposits
             PROVE  Ticket(d)'
  OBVIOUS
<1> USE DEF depositVars, withdrawVars, cancelVars, moneyVars, tierVars
<1>1. Ticket(d)
  OBVIOUS
<1>2. ASSUME UNCHANGED <<kind, deposit, credits, granting, undone>> PROVE Ticket(d)'
  BY <1>1, <1>2, TicketSame
<1>3. ASSUME NEW e \in Deposits, CreateDepositRequest(e) PROVE Ticket(d)'
  BY <1>1, <1>3 DEF CreateDepositRequest, Ticket, TypeOK
<1>4. ASSUME NEW e \in Deposits, ConfirmDeposit(e) PROVE Ticket(d)'
  <2>1. /\ kind[e] = "wallet" /\ deposit[e] # "CONFIRMED"
        /\ deposit' = [deposit EXCEPT ![e] = "CONFIRMED"] /\ credits' = [credits EXCEPT ![e] = @ + 1]
        /\ UNCHANGED <<kind, granting, undone>>
    BY <1>4 DEF ConfirmDeposit, Creditable
  <2>2. CASE e # d
    BY <1>1, <2>1, <2>2, TicketSame DEF TypeOK
  <2>3. CASE e = d
    BY <1>1, <2>1, <2>3 DEF Ticket, TypeOK
  <2> QED
    BY <2>2, <2>3
<1>5. ASSUME NEW e \in Deposits, ExpireReject(e) PROVE Ticket(d)'
  BY <1>1, <1>5 DEF ExpireReject, RowFree, Ticket, TypeOK
<1>6. ASSUME NEW e \in Deposits, CancelDepositRead(e) PROVE Ticket(d)'
  BY <1>1, <1>6 DEF CancelDepositRead, Ticket, TypeOK
<1>7. ASSUME NEW e \in Deposits, CancelDepositWrite(e) PROVE Ticket(d)'
  <2>1. /\ cancelling[e] > 0 /\ granting[e] = 0
        /\ deposit' = [deposit EXCEPT ![e] = "REJECTED"]
        /\ undone' = [undone EXCEPT ![e] = IF deposit[e] = "CONFIRMED" THEN @ + 1 ELSE @]
        /\ UNCHANGED <<kind, credits, granting>>
    BY <1>7 DEF CancelDepositWrite, RowFree
  <2>2. CASE e # d
    BY <1>1, <2>1, <2>2, TicketSame DEF TypeOK
  <2>3. CASE e = d
    BY <1>1, <2>1, <2>3 DEF Ticket, TypeOK
  <2> QED
    BY <2>2, <2>3
<1>8. ASSUME NEW e \in Deposits, ConfirmTierRead(e) PROVE Ticket(d)'
  BY <1>1, <1>8 DEF ConfirmTierRead, Ticket, TypeOK
<1>9. ASSUME NEW e \in Deposits, NEW s \in Subs, ConfirmTierWrite(e, s) PROVE Ticket(d)'
  <2>1. /\ granting[e] # 0
        /\ deposit' = [deposit EXCEPT ![e] = "CONFIRMED"] /\ credits' = [credits EXCEPT ![e] = @ + 1]
        /\ granting' = [granting EXCEPT ![e] = 0]
        /\ UNCHANGED <<kind, undone>>
    BY <1>9 DEF ConfirmTierWrite
  <2>2. CASE e # d
    BY <1>1, <2>1, <2>2, TicketSame DEF TypeOK
  <2>3. CASE e = d
    BY <1>1, <2>1, <2>3 DEF Ticket, TypeOK
  <2> QED
    BY <2>2, <2>3
<1>10. ASSUME NEW w \in Withdrawals, CancelWithdrawRead(w) \/ CancelWithdrawWrite(w) PROVE Ticket(d)'
  BY <1>2, <1>10 DEF CancelWithdrawRead, CancelWithdrawWrite
<1>11. ASSUME NEW e \in Deposits, Pay(e) \/ ExpireAsk(e) PROVE Ticket(d)'
  BY <1>2, <1>11 DEF Pay, ExpireAsk
<1>12. ASSUME NEW w \in Withdrawals,
              \/ AskWithdrawal(w) \/ CreateWithdrawRequest(w) \/ ApproveWithdrawal(w) \/ RejectWithdrawal(w)
       PROVE  Ticket(d)'
  BY <1>2, <1>12 DEF AskWithdrawal, CreateWithdrawRequest, ApproveWithdrawal, RejectWithdrawal
<1>13. ASSUME NEW action, NEW n, AdminAdjust(action, n) PROVE Ticket(d)'
  BY <1>2, <1>13 DEF AdminAdjust
<1>14. ASSUME NEW x \in SourceTopups, SourceTopupRead(x) \/ SourceTopupWrite(x) PROVE Ticket(d)'
  BY <1>2, <1>14 DEF SourceTopupRead, SourceTopupWrite
<1>15. ASSUME NEW s \in Subs, BuyTierRead(s) \/ ReferredBuys(s) PROVE Ticket(d)'
  BY <1>2, <1>15 DEF BuyTierRead, ReferredBuys
<1>16. ASSUME NEW q \in Refunders, NEW s, RefundRead(q, s) \/ RefundWrite(q) PROVE Ticket(d)'
  BY <1>2, <1>16 DEF RefundRead, RefundWrite
<1>17. CASE Tick \/ BuyTierWrite \/ ListExpired \/ ExpireTier
  BY <1>2, <1>17 DEF Tick, BuyTierWrite, ListExpired, ExpireTier
<1>18. CASE UNCHANGED vars
  BY <1>2, <1>18 DEF vars
<1> HIDE DEF depositVars, withdrawVars, cancelVars, moneyVars, tierVars
<1> QED
  BY <1>3, <1>4, <1>5, <1>6, <1>7, <1>8, <1>9, <1>10, <1>11, <1>12, <1>13, <1>14, <1>15, <1>16, <1>17,
     <1>18 DEF Next

\* Callbacks, polls, scanners and expiry jobs credit a deposit once and grant one plan for a
\* tier deposit; each cancellation that writes over CONFIRMED opens the way to one more
\* credit of a deposit for the wallet.
THEOREM DepositCreditedOnce == Spec => []DepositOnce
<1>1. Init => \A d \in Deposits : Ticket(d)
  BY DEF Init, Ticket
<1>2. TypeOK /\ (\A d \in Deposits : Ticket(d)) => DepositOnce
  BY DEF Ticket, DepositOnce, TypeOK
<1> QED
  BY <1>1, <1>2, TypeCorrect, TicketsInductive, PTL DEF Spec

-----------------------------------------------------------------------------
\* The latest end that the plans bought so far can add up to.
Latest == now + Duration * Cardinality(Plans)

\* The tier, a purchase and the grants that were computed from it end by then; a grant
\* brings its plan along when it is written.
Terms ==
    /\ \A s \in Subs : sub[s].state = "NONE" => sub[s].by = None
    /\ tier.level = "PRO" => tier.ends <= Latest
    /\ buying.s # None => sub[buying.s].state = "NONE" /\ buying.ends <= Latest
    /\ \A d \in Deposits : granting[d] <= Latest + Duration

\* The plans are finitely many, so the latest end is a number.
LEMMA LatestType ==
    ASSUME TypeOK
    PROVE  IsFiniteSet(Plans) /\ Latest \in Nat /\ Cardinality(Plans) \in Nat
<1>1. IsFiniteSet(Plans) /\ Cardinality(Plans) \in Nat
  BY NamesAssumption, FS_Subset, FS_CardinalityType DEF Plans
<1>2. \A n \in Nat : Duration * n \in Nat
  BY AmountsAssumption
<1> QED
  BY <1>1, <1>2 DEF Latest, TypeOK

\* One more plan is one more duration.
LEMMA OneMorePlan ==
    ASSUME TypeOK, NEW s, s \notin Plans, Plans' = Plans \union {s}, now' = now
    PROVE  Latest' = Latest + Duration
<1>1. Cardinality(Plans') = Cardinality(Plans) + 1
  BY LatestType, FS_AddElement
<1>2. \A n \in Nat : Duration * (n + 1) = Duration * n + Duration
  BY AmountsAssumption
<1>3. Duration * Cardinality(Plans') = Duration * Cardinality(Plans) + Duration
  BY <1>1, <1>2, LatestType
<1>4. \A n \in Nat : Duration * n \in Nat
  BY AmountsAssumption
<1> QED
  BY <1>3, <1>4, LatestType, AmountsAssumption DEF Latest, TypeOK

\* A plan bought now ends one duration after the latest end at most.
LEMMA NewEndBound ==
    ASSUME TypeOK, Terms
    PROVE  NewEnd \in Nat /\ NewEnd <= Latest + Duration
<1>1. now <= Latest
  <2>1. \A n \in Nat : Duration * n \in Nat
    BY AmountsAssumption
  <2> QED
    BY <2>1, LatestType DEF Latest, TypeOK
<1>2. tier.ends \in Nat /\ now \in Nat /\ Latest \in Nat
  BY LatestType DEF TypeOK
<1>3. tier.level = "PRO" => tier.ends <= Latest
  BY DEF Terms
<1> QED
  BY <1>1, <1>2, <1>3, AmountsAssumption DEF NewEnd

\* Every step keeps the terms.
LEMMA TermsInductive == TypeOK /\ Terms /\ [Next]_vars => Terms'
<1> SUFFICES ASSUME TypeOK, Terms, [Next]_vars PROVE Terms'
  OBVIOUS
<1> USE DEF depositVars, withdrawVars, cancelVars, moneyVars, tierVars
<1>1. ASSUME UNCHANGED <<now, tier, sub, buying, granting>> PROVE Terms'
  <2>1. Plans' = Plans
    BY <1>1 DEF Plans
  <2>2. Latest' = Latest
    BY <1>1, <2>1 DEF Latest
  <2> QED
    BY <1>1, <2>2 DEF Terms
<1>2. CASE Tick
  <2>1. Plans' = Plans /\ now' = now + 1 /\ UNCHANGED <<tier, sub, buying, granting>>
    BY <1>2 DEF Tick, Plans
  <2>2. Latest' = Latest + 1
    <3>1. \A n \in Nat : Duration * n \in Nat
      BY AmountsAssumption
    <3> QED
      BY <2>1, <3>1, LatestType, SMTT(40) DEF Latest, TypeOK
  <2>3. Latest \in Nat /\ tier.ends \in Nat /\ buying.ends \in Nat /\ \A d \in Deposits : granting[d] \in Nat
    BY LatestType DEF TypeOK
  <2> QED
    BY <2>1, <2>2, <2>3, AmountsAssumption DEF Terms
<1>3. ASSUME NEW d \in Deposits, ConfirmTierRead(d) PROVE Terms'
  <2>1. granting' = [granting EXCEPT ![d] = NewEnd] /\ UNCHANGED <<now, tier, sub, buying>>
    BY <1>3 DEF ConfirmTierRead
  <2>2. Plans' = Plans
    BY <2>1 DEF Plans
  <2>3. Latest' = Latest
    BY <2>1, <2>2 DEF Latest
  <2>4. \A e \in Deposits : granting'[e] <= Latest + Duration
    BY <2>1, NewEndBound DEF Terms, TypeOK
  <2> QED
    BY <2>1, <2>3, <2>4 DEF Terms
<1>4. ASSUME NEW d \in Deposits, NEW s \in Subs, ConfirmTierWrite(d, s) PROVE Terms'
  <2>1. /\ sub[s].state = "NONE" /\ buying.s # s
        /\ sub' = [sub EXCEPT ![s] =
               [state |-> "ACTIVE", by |-> "deposit", ends |-> granting[d], at |-> now]]
        /\ tier' = [level |-> "PRO", ends |-> granting[d]]
        /\ granting' = [granting EXCEPT ![d] = 0] /\ UNCHANGED <<now, buying>>
    BY <1>4 DEF ConfirmTierWrite
  <2>2. s \notin Plans
    BY <2>1 DEF Terms, Plans, None
  <2>3. Plans' = Plans \union {s}
    BY <2>1 DEF Plans, TypeOK
  <2>4. Latest' = Latest + Duration
    BY <2>1, <2>2, <2>3, OneMorePlan
  <2>5. /\ Latest \in Nat /\ buying.ends \in Nat /\ buying.s \in Subs \union {None}
        /\ \A e \in Deposits : granting[e] \in Nat
    BY LatestType DEF TypeOK
  <2>6. \A t \in Subs : sub'[t].state = "NONE" => sub'[t].by = None
    BY <2>1 DEF Terms, TypeOK
  <2>7. tier'.ends <= Latest'
    BY <2>1, <2>4 DEF Terms
  <2>8. buying'.s # None => sub'[buying'.s].state = "NONE" /\ buying'.ends <= Latest'
    BY <2>1, <2>4, <2>5, AmountsAssumption DEF Terms, TypeOK
  <2>9. \A e \in Deposits : granting'[e] <= Latest' + Duration
    BY <2>1, <2>4, <2>5, AmountsAssumption DEF Terms, TypeOK
  <2> QED
    BY <2>6, <2>7, <2>8, <2>9 DEF Terms
<1>5. ASSUME NEW s \in Subs, BuyTierRead(s) PROVE Terms'
  <2>1. /\ sub[s].state = "NONE" /\ buying.s = None
        /\ buying' = [s |-> s, ends |-> NewEnd] /\ UNCHANGED <<now, tier, sub, granting>>
    BY <1>5 DEF BuyTierRead, WalletFree
  <2>2. s \notin Plans
    BY <2>1, NamesAssumption DEF Terms, Plans, None
  <2>3. Plans' = Plans \union {s}
    BY <2>1, NamesAssumption DEF Plans
  <2>4. Latest' = Latest + Duration
    BY <2>1, <2>2, <2>3, OneMorePlan
  <2>5. Latest \in Nat /\ tier.ends \in Nat /\ \A e \in Deposits : granting[e] \in Nat
    BY LatestType DEF TypeOK
  <2>6. buying'.ends <= Latest' /\ sub'[buying'.s].state = "NONE"
    BY <2>1, <2>4, NewEndBound
  <2> QED
    BY <2>1, <2>4, <2>5, <2>6, AmountsAssumption DEF Terms
<1>6. CASE BuyTierWrite
  <2>1. PICK s \in Subs : s = buying.s
    BY <1>6 DEF BuyTierWrite, WalletFree, TypeOK
  <2>2. /\ sub' = [sub EXCEPT ![s] =
               [state |-> "ACTIVE", by |-> "wallet", ends |-> buying.ends, at |-> now]]
        /\ tier' = [level |-> "PRO", ends |-> buying.ends]
        /\ buying' = [s |-> None, ends |-> 0] /\ UNCHANGED <<now, granting>>
    BY <1>6, <2>1 DEF BuyTierWrite
  <2>3. Plans' = Plans
    BY <2>1, <2>2, NamesAssumption DEF Plans, TypeOK
  <2>4. Latest' = Latest
    BY <2>2, <2>3 DEF Latest
  <2>5. tier'.ends <= Latest
    BY <2>1, <2>2, NamesAssumption DEF Terms
  <2>6. \A t \in Subs : sub'[t].state = "NONE" => sub'[t].by = None
    BY <2>2 DEF Terms, TypeOK
  <2> QED
    BY <2>2, <2>4, <2>5, <2>6 DEF Terms
<1>7. ASSUME NEW s \in Subs, ReferredBuys(s) PROVE Terms'
  <2>1. /\ sub[s].state = "NONE" /\ buying.s # s
        /\ sub' = [sub EXCEPT ![s] = [state |-> "ACTIVE", by |-> "referred", ends |-> 0, at |-> now]]
        /\ UNCHANGED <<now, tier, buying, granting>>
    BY <1>7 DEF ReferredBuys
  <2>2. Plans' = Plans
    BY <2>1 DEF Plans, Terms, TypeOK, None
  <2>3. Latest' = Latest
    BY <2>1, <2>2 DEF Latest
  <2>4. \A t \in Subs : sub'[t].state = "NONE" => sub'[t].by = None
    BY <2>1 DEF Terms, TypeOK
  <2>5. buying.s # None => sub'[buying.s].state = "NONE"
    BY <2>1 DEF Terms, TypeOK
  <2> QED
    BY <2>1, <2>3, <2>4, <2>5 DEF Terms
<1>8. CASE ListExpired \/ ExpireTier
  <2>1. UNCHANGED <<now, sub, buying, granting>> /\ (tier' = tier \/ tier'.level = "FREE")
    BY <1>8 DEF ListExpired, ExpireTier, TypeOK
  <2>2. Plans' = Plans
    BY <2>1 DEF Plans
  <2>3. Latest' = Latest
    BY <2>1, <2>2 DEF Latest
  <2> QED
    BY <2>1, <2>3 DEF Terms
<1>9. ASSUME NEW q \in Refunders, RefundWrite(q) PROVE Terms'
  <2>1. PICK s \in Subs : s = refund[q].s
    BY <1>9 DEF RefundWrite, TypeOK
  <2>2. /\ sub' = [sub EXCEPT ![s].state = "REFUNDED"]
        /\ tier' = tier \/ tier'.level = "FREE"
        /\ UNCHANGED <<now, buying, granting>>
    BY <1>9, <2>1 DEF RefundWrite
  <2>3. \A t \in Subs : sub'[t].by = sub[t].by /\ (t # s => sub'[t] = sub[t])
    BY <2>2 DEF TypeOK
  <2>4. Plans' = Plans
    BY <2>2, <2>3 DEF Plans
  <2>5. Latest' = Latest
    BY <2>2, <2>4 DEF Latest
  <2>6. \A t \in Subs : sub'[t].state = "NONE" => sub'[t].by = None
    BY <2>2, <2>3 DEF Terms, TypeOK
  <2>7. buying.s = None
    BY <1>9 DEF RefundWrite, Book, WalletFree
  <2> QED
    BY <2>2, <2>5, <2>6, <2>7 DEF Terms
<1>10. ASSUME NEW d \in Deposits,
              \/ CreateDepositRequest(d) \/ Pay(d) \/ ConfirmDeposit(d) \/ ExpireAsk(d)
              \/ ExpireReject(d) \/ CancelDepositRead(d) \/ CancelDepositWrite(d)
       PROVE  Terms'
  BY <1>1, <1>10 DEF CreateDepositRequest, Pay, ConfirmDeposit, ExpireAsk, ExpireReject,
                     CancelDepositRead, CancelDepositWrite
<1>11. ASSUME NEW w \in Withdrawals,
              \/ AskWithdrawal(w) \/ CreateWithdrawRequest(w) \/ ApproveWithdrawal(w)
              \/ RejectWithdrawal(w) \/ CancelWithdrawRead(w) \/ CancelWithdrawWrite(w)
       PROVE  Terms'
  BY <1>1, <1>11 DEF AskWithdrawal, CreateWithdrawRequest, ApproveWithdrawal, RejectWithdrawal,
                     CancelWithdrawRead, CancelWithdrawWrite
<1>12. ASSUME NEW action, NEW n, AdminAdjust(action, n) PROVE Terms'
  BY <1>1, <1>12 DEF AdminAdjust
<1>13. ASSUME NEW x \in SourceTopups, SourceTopupRead(x) \/ SourceTopupWrite(x) PROVE Terms'
  BY <1>1, <1>13 DEF SourceTopupRead, SourceTopupWrite
<1>14. ASSUME NEW q \in Refunders, NEW s \in Subs, RefundRead(q, s) PROVE Terms'
  BY <1>1, <1>14 DEF RefundRead
<1>15. CASE UNCHANGED vars
  BY <1>1, <1>15 DEF vars
<1> HIDE DEF depositVars, withdrawVars, cancelVars, moneyVars, tierVars
<1> QED
  BY <1>2, <1>3, <1>4, <1>5, <1>6, <1>7, <1>8, <1>9, <1>10, <1>11, <1>12, <1>13, <1>14, <1>15 DEF Next

\* Plans bought from the wallet, by deposits and by renewals at the same moment, with nobody
\* locking the tier dates, may lose time but never give more than was paid for.
THEOREM NoFreeTime == Spec => []TimePaidFor
<1>1. Init => Terms
  <2> SUFFICES ASSUME Init PROVE Terms
    OBVIOUS
  <2>1. Plans = {}
    BY NamesAssumption DEF Init, Plans, NoSub, None
  <2>2. Cardinality(Plans) = 0
    BY <2>1, FS_EmptySet
  <2>3. Latest = 1
    BY <2>2, AmountsAssumption DEF Init, Latest
  <2> QED
    BY <2>3, AmountsAssumption DEF Init, Terms, NoSub
<1>2. Terms => TimePaidFor
  BY DEF Terms, Latest, TimePaidFor
<1> QED
  BY <1>1, <1>2, TypeCorrect, TermsInductive, PTL DEF Spec

=============================================================================
