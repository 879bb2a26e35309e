------------------------- MODULE OrderRefundsProofs -------------------------
(***************************************************************************)
(* Proofs about OrderRefunds, for every price, quantity and set of claims. *)
(***************************************************************************)
EXTENDS OrderRefunds, TLAPS

\* Rounding a quotient of natural numbers gives a natural number.
LEMMA RoundDivNat ==
    ASSUME NEW a \in Nat, NEW b \in Nat \ {0}
    PROVE  RoundDiv(a, b) \in Nat
  BY DEF RoundDiv

\* Products of natural numbers are natural numbers.
LEMMA ProductNat ==
    ASSUME NEW a \in Nat, NEW b \in Nat
    PROVE  a * b \in Nat
  OBVIOUS

\* A refund's commission part is a natural number no larger than the refund,
\* for the pre-order's split.
LEMMA PreorderSplit ==
    ASSUME price \in Prices, NEW amount \in Nat
    PROVE  PreorderCommission(amount) \in 0 .. amount
<1>1. FromCommission \in Nat /\ Total \in Nat \ {0}
  BY PricesAssumption DEF FromCommission, Total
<1>2. RoundDiv(FromCommission * amount, Total) \in Nat
  BY <1>1, ProductNat, RoundDivNat
<1> QED
  BY <1>2 DEF PreorderCommission, Least

\* The same for the warranty desk's split, whatever amount it refunds.
LEMMA WarrantySplit ==
    ASSUME price \in Prices, NEW k \in Nat, NEW d \in Nat
    PROVE  /\ WarrantyAmount(k, d) \in Nat
           /\ CommissionShare(WarrantyAmount(k, d)) \in 0 .. WarrantyAmount(k, d)
<1>1. FromCommission \in Nat /\ Total \in Nat \ {0}
  BY PricesAssumption DEF FromCommission, Total
<1>2. Vnd * RoundDiv(RoundDiv(Total * k, Quantity * Vnd) * d, Days) \in Nat
  <2>1. Total * k \in Nat /\ Quantity * Vnd \in Nat \ {0}
    BY <1>1, BoundsAssumption, ProductNat DEF Vnd
  <2>2. RoundDiv(Total * k, Quantity * Vnd) \in Nat
    BY <2>1, RoundDivNat
  <2>3. RoundDiv(Total * k, Quantity * Vnd) * d \in Nat
    BY <2>2, ProductNat
  <2> DEFINE n == RoundDiv(RoundDiv(Total * k, Quantity * Vnd) * d, Days)
  <2>4. n \in Nat
    BY <2>3, BoundsAssumption, RoundDivNat
  <2> HIDE DEF n
  <2>5. Vnd * n \in Nat
    BY <2>4 DEF Vnd
  <2> QED
    BY <2>5 DEF n
<1>3. WarrantyAmount(k, d) \in Nat
  BY <1>2 DEF WarrantyAmount
<1> DEFINE w == WarrantyAmount(k, d)
           m == RoundDiv(w * FromCommission, Total * Vnd)
<1> HIDE DEF w
<1>4. w \in Nat
  BY <1>3 DEF w
<1>5. w * FromCommission \in Nat /\ Total * Vnd \in Nat \ {0}
  BY <1>1, <1>4, ProductNat DEF Vnd
<1>6. m \in Nat
  BY <1>5, RoundDivNat
<1> HIDE DEF m
<1>7. Vnd * m \in Nat
  BY <1>6 DEF Vnd
<1>8. Least(Vnd * m, Least(FromCommission, w)) \in 0 .. w
  BY <1>1, <1>4, <1>7 DEF Least
<1>9. CommissionShare(w) \in 0 .. w
  BY <1>8 DEF CommissionShare, m
<1> QED
  BY <1>3, <1>9 DEF w

\* A claim counts no more accounts than the order has.
LEMMA ClampedRange ==
    ASSUME NEW k \in 0 .. MaxLines
    PROVE  Clamped(k) \in 0 .. Quantity
  BY BoundsAssumption DEF Clamped, Least

\* A warranty refund adds one amount to the balances, to the sum of such refunds
\* and to its claim's.
LEMMA PayOutAmount ==
    ASSUME TypeOK, NEW c \in Claims, NEW k \in 0 .. Quantity, NEW d \in 0 .. Days,
           PayOut(c, k, d)
    PROVE  \E amount \in Nat : \E share \in 0 .. amount :
               /\ Credit(amount, share)
               /\ warranty' = warranty + amount
               /\ refund' = [refund EXCEPT ![c] = @ + amount]
<1> DEFINE amount == WarrantyAmount(k, d)
           share == CommissionShare(amount)
<1>1. price \in Prices /\ k \in Nat /\ d \in Nat
  BY BoundsAssumption DEF TypeOK
<1>2. amount \in Nat /\ share \in 0 .. amount
  BY ONLY <1>1, WarrantySplit
<1>3. /\ Credit(amount, share) /\ warranty' = warranty + amount
      /\ refund' = [refund EXCEPT ![c] = @ + amount]
  BY DEF PayOut
<1> HIDE DEF amount, share
<1> QED
  BY <1>2, <1>3

\* The balances and the sums stay natural numbers.
LEMMA PayOutTypes ==
    ASSUME TypeOK, NEW c \in Claims, NEW k \in 0 .. Quantity, NEW d \in 0 .. Days,
           PayOut(c, k, d)
    PROVE  /\ main' \in Nat /\ comm' \in Nat /\ warranty' \in Nat
           /\ refund' \in [Claims -> Nat]
<1>1. PICK amount \in Nat : \E share \in 0 .. amount :
               /\ Credit(amount, share)
               /\ warranty' = warranty + amount
               /\ refund' = [refund EXCEPT ![c] = @ + amount]
  BY PayOutAmount
<1> QED
  BY <1>1 DEF Credit, TypeOK

-----------------------------------------------------------------------------
\* Every step keeps the variables in their ranges.
LEMMA TypeInductive ==
    ASSUME TypeOK, [Next]_vars
    PROVE  TypeOK'
<1> USE PricesAssumption, BoundsAssumption
    DEF TypeOK, order, ledger, claims, Total, PreorderFee, FromCommission
<1>1. CASE Worker
  <2>1. CASE Load \/ Deliver \/ OutOfStock \/ RefundLoad
    BY <2>1 DEF Load, Deliver, OutOfStock, RefundLoad
  <2>2. CASE RefundWrite
    <3>1. Total \in Nat /\ Least(Total, FromCommission) \in 0 .. Total
      BY DEF Least
    <3>2. main' \in Nat /\ comm' \in Nat
      BY <2>2, <3>1 DEF RefundWrite, Credit
    <3> QED
      BY <2>2, <3>2 DEF RefundWrite
  <2>3. CASE Resweep
    BY <2>3 DEF Resweep
  <2> QED
    BY <1>1, <2>1, <2>2, <2>3 DEF Worker
<1>2. ASSUME NEW kind \in {"seller_cancel", "customer_cancel"}, CancelPreorder(kind)
      PROVE  TypeOK'
  <2> DEFINE amount == IF kind = "seller_cancel" THEN Total ELSE Total - PreorderFee
  <2>1. amount \in Nat
    OBVIOUS
  <2>2. PreorderCommission(amount) \in 0 .. amount
    BY <2>1, PreorderSplit
  <2>3. Credit(amount, PreorderCommission(amount))
    BY <1>2 DEF CancelPreorder
  <2> HIDE DEF amount
  <2>4. main' \in Nat /\ comm' \in Nat
    BY <2>1, <2>2, <2>3 DEF Credit
  <2> QED
    BY <1>2, <2>4 DEF CancelPreorder
<1>3. CASE RequestCancel \/ RejectCancel
  BY <1>3 DEF RequestCancel, RejectCancel
<1>4. ASSUME NEW dong \in 1 .. Total \div Vnd, AdminRefund(dong * Vnd)
      PROVE  TypeOK'
  <2>1. dong * Vnd \in Nat
    BY DEF Vnd
  <2> QED
    BY <1>4, <2>1 DEF AdminRefund, Credit
<1>5. ASSUME NEW c \in Claims, OpenClaim(c) PROVE TypeOK'
  BY <1>5 DEF OpenClaim
<1>6. ASSUME NEW c \in Claims, CloseClaim(c) PROVE TypeOK'
  BY <1>6 DEF CloseClaim
<1>7. ASSUME NEW c \in Claims, NEW k \in 0 .. MaxLines, NEW d \in 0 .. Days,
             AutoRefund(c, k, d)
      PROVE  TypeOK'
  <2>1. /\ main' \in Nat /\ comm' \in Nat /\ warranty' \in Nat
        /\ refund' \in [Claims -> Nat]
    BY <1>7, ClampedRange, PayOutTypes DEF AutoRefund
  <2> QED
    BY <1>7, <2>1 DEF AutoRefund
<1>8. ASSUME NEW c \in Claims, NEW k \in 0 .. MaxLines, NEW d \in 0 .. Days,
             Replace(c, k, d)
      PROVE  TypeOK'
  <2>1. /\ main' \in Nat /\ comm' \in Nat /\ warranty' \in Nat
        /\ refund' \in [Claims -> Nat]
    BY <1>8, ClampedRange, PayOutTypes DEF Replace
  <2> QED
    BY <1>8, <2>1 DEF Replace
<1>9. CASE UNCHANGED vars
  BY <1>9 DEF vars
<1> QED
  BY <1>1, <1>2, <1>3, <1>4, <1>5, <1>6, <1>7, <1>8, <1>9
     DEF Next, Preorder, Admin, Warranty

\* A paid order starts with every variable in its range.
LEMMA InitTypes == Init => TypeOK
<1> SUFFICES ASSUME Init PROVE TypeOK
  OBVIOUS
<1>1. admin \in 0 .. Total
  BY PricesAssumption DEF Init, Total
<1>2. claim \in [Claims -> {"none", "open", "closed", "replaced"}]
  BY DEF Init
<1>3. sweeps \in 0 .. MaxResweeps
  BY BoundsAssumption DEF Init
<1> QED
  BY <1>1, <1>2, <1>3 DEF Init, TypeOK

\* The variables of OrderRefunds stay in their ranges: refunds never take
\* money away, and the administrator's rows add up to the price at most.
THEOREM TypeCorrect == Spec => []TypeOK
<1>1. Init => TypeOK
  BY InitTypes
<1>2. TypeOK /\ [Next]_vars => TypeOK'
  BY TypeInductive
<1> QED
  BY <1>1, <1>2, PTL DEF Spec

-----------------------------------------------------------------------------
\* An order with a refund row of the worker or of a cancellation is closed.
SettledRow == rows \ {"admin"} # {} => payment = "REFUNDED"

\* The inductive invariant behind UndeliveredOnce.
OnceInv == TypeOK /\ SettledRow /\ UndeliveredOnce

\* Every step of every desk keeps it: a row is added only while the order has
\* none of these rows, and no desk takes an order back to PAID.
LEMMA OnceInductive ==
    ASSUME OnceInv, [Next]_vars
    PROVE  OnceInv'
<1>1. TypeOK /\ TypeOK'
  BY TypeInductive DEF OnceInv
<1>2. SettledRow /\ UndeliveredOnce
  BY DEF OnceInv
<1> USE DEF SettledRow, UndeliveredOnce, TypeOK, order, ledger, claims
<1>3. CASE UNCHANGED <<rows, payment>>
  BY <1>1, <1>2, <1>3 DEF OnceInv
<1>4. CASE RefundWrite
  BY <1>1, <1>2, <1>4 DEF OnceInv, RefundWrite
<1>5. ASSUME NEW kind \in {"seller_cancel", "customer_cancel"}, CancelPreorder(kind)
      PROVE  OnceInv'
  BY <1>1, <1>2, <1>5 DEF OnceInv, CancelPreorder, Waiting
<1>6. ASSUME NEW amount, AdminRefund(amount)
      PROVE  OnceInv'
  BY <1>1, <1>2, <1>6 DEF OnceInv, AdminRefund
<1>7. CASE Load \/ Deliver \/ OutOfStock \/ RefundLoad \/ Resweep
  BY <1>3, <1>7 DEF Load, Deliver, OutOfStock, RefundLoad, Resweep
<1>8. CASE RequestCancel \/ RejectCancel
  BY <1>3, <1>8 DEF RequestCancel, RejectCancel
<1>9. CASE Warranty
  BY <1>3, <1>9 DEF Warranty, OpenClaim, CloseClaim, AutoRefund, Replace
<1>10. CASE UNCHANGED vars
  BY <1>3, <1>10 DEF vars
<1> QED
  BY <1>4, <1>5, <1>6, <1>7, <1>8, <1>9, <1>10 DEF Next, Worker, Preorder, Admin

\* Whatever desks act and in whatever order, the worker's refund and the two
\* pre-order cancellations exclude each other.
THEOREM RefundedByOneDesk == Spec => []UndeliveredOnce
<1>2. Init => OnceInv
  BY InitTypes DEF Init, OnceInv, SettledRow, UndeliveredOnce
<1>3. OnceInv /\ [Next]_vars => OnceInv'
  BY OnceInductive
<1>4. OnceInv => UndeliveredOnce
  BY DEF OnceInv
<1> QED
  BY <1>2, <1>3, <1>4, PTL DEF Spec

-----------------------------------------------------------------------------
\* What the ledger rows say about the money.
MoneyMatches ==
    /\ "admin" \notin rows => admin = 0
    /\ "worker" \in rows => "admin" \notin rows
    /\ rows \ {"admin"} = {} => main + comm = admin + warranty
    /\ rows \ {"admin"} # {} /\ "admin" \notin rows => main + comm <= Total + warranty

\* The inductive invariant behind RefundsWithinPrice.
WithinInv == TypeOK /\ SettledRow /\ MoneyMatches

\* Every step keeps it: the worker refunds an order without rows only, the
\* administrator adds to the administrator's own rows, and a warranty refund adds
\* as much to the balances as to the sum of the claims.
LEMMA WithinInductive ==
    ASSUME WithinInv, [Next]_vars
    PROVE  WithinInv'
<1>1. TypeOK /\ TypeOK'
  BY TypeInductive DEF WithinInv
<1>2. SettledRow /\ MoneyMatches
  BY DEF WithinInv
<1>3. Total \in Nat \ {0} /\ FromCommission \in 0 .. Total /\ PreorderFee \in 0 .. Total
  BY <1>1, PricesAssumption DEF TypeOK, Total, FromCommission, PreorderFee
<1>4. ASSUME UNCHANGED <<price, payment, ledger>>
      PROVE  WithinInv'
  BY <1>1, <1>2, <1>4 DEF WithinInv, SettledRow, MoneyMatches, ledger, Total
<1>5. CASE RefundWrite
  <2>1. CASE UNCHANGED <<status, payment, main, comm, rows>>
    BY <1>4, <1>5, <2>1 DEF RefundWrite, ledger
  <2>2. CASE rows = {} /\ Credit(Total, Least(Total, FromCommission))
             /\ rows' = rows \cup {"worker"} /\ payment' = "REFUNDED"
    <3>1. main + comm = warranty
      BY <1>1, <1>2, <2>2 DEF MoneyMatches, TypeOK
    <3>2. main' + comm' = Total + warranty
      BY <1>1, <1>3, <2>2, <3>1 DEF Credit, Least, TypeOK
    <3>3. UNCHANGED <<price, admin, warranty>>
      BY <1>5 DEF RefundWrite
    <3>4. SettledRow'
      BY <2>2 DEF SettledRow
    <3>5. MoneyMatches'
      <4>1. rows' = {"worker"} /\ rows' \ {"admin"} # {} /\ "admin" \notin rows'
        BY <2>2
      <4>2. admin' = 0
        BY <1>2, <2>2, <3>3 DEF MoneyMatches
      <4>3. main' + comm' <= Total' + warranty'
        BY <1>1, <1>3, <3>2, <3>3 DEF Total, TypeOK
      <4> QED
        BY <4>1, <4>2, <4>3 DEF MoneyMatches
    <3> QED
      BY <1>1, <3>4, <3>5 DEF WithinInv
  <2> QED
    BY <1>5, <2>1, <2>2 DEF RefundWrite
<1>6. ASSUME NEW kind \in {"seller_cancel", "customer_cancel"}, CancelPreorder(kind)
      PROVE  WithinInv'
  <2> DEFINE amount == IF kind = "seller_cancel" THEN Total ELSE Total - PreorderFee
  <2>1. amount \in 0 .. Total
    BY <1>3
  <2>2. PreorderCommission(amount) \in 0 .. amount
    BY <1>1, <2>1, <1>3, PreorderSplit DEF TypeOK
  <2>3. Credit(amount, PreorderCommission(amount))
    BY <1>6 DEF CancelPreorder
  <2> HIDE DEF amount
  <2>4. rows \ {"admin"} = {}
    BY <1>2, <1>6 DEF CancelPreorder, Waiting, SettledRow
  <2>5. main + comm = admin + warranty
    BY <1>2, <2>4 DEF MoneyMatches
  <2>6. main' + comm' <= Total + admin + warranty
    BY <1>1, <1>3, <2>1, <2>2, <2>3, <2>5 DEF Credit, TypeOK
  <2>7. /\ rows' = rows \cup {kind} /\ payment' = "REFUNDED"
        /\ UNCHANGED <<price, admin, warranty>>
    BY <1>6 DEF CancelPreorder, order
  <2>8. SettledRow' /\ MoneyMatches'
    <3>1. SettledRow'
      BY <2>7 DEF SettledRow
    <3>2. rows' \ {"admin"} # {} /\ "worker" \notin rows'
      BY <2>4, <2>7
    <3>3. "admin" \notin rows' => admin' = 0
      BY <1>2, <2>7 DEF MoneyMatches
    <3>4. /\ Total' = Total /\ admin' = admin /\ warranty' = warranty
          /\ warranty \in Nat /\ main' \in Nat /\ comm' \in Nat
      BY <1>1, <2>7 DEF Total, TypeOK
    <3>5. ASSUME admin' = 0 PROVE main' + comm' <= Total' + warranty'
      <4>1. admin = 0 /\ Total \in Nat
        BY <1>3, <3>4, <3>5
      <4>2. Total + admin + warranty = Total + warranty
        BY <3>4, <4>1
      <4>3. main' + comm' <= Total + warranty
        BY <2>6, <4>2
      <4> QED
        BY <3>4, <4>3
    <3>6. MoneyMatches'
      BY <3>2, <3>3, <3>5 DEF MoneyMatches
    <3> QED
      BY <3>1, <3>6
  <2> QED
    BY <1>1, <2>8 DEF WithinInv
<1>7. ASSUME NEW dong \in 1 .. Total \div Vnd, AdminRefund(dong * Vnd)
      PROVE  WithinInv'
  <2>1. dong * Vnd \in Nat
    BY <1>3 DEF Vnd
  <2>2. rows \ {"admin"} = {}
    BY <1>2, <1>7 DEF AdminRefund, SettledRow
  <2>3. main' + comm' = admin' + warranty'
    BY <1>1, <1>2, <1>7, <2>1, <2>2 DEF AdminRefund, Credit, MoneyMatches, TypeOK
  <2>4. rows' = rows \cup {"admin"} /\ UNCHANGED <<price, warranty>>
    BY <1>7 DEF AdminRefund, order
  <2>5. SettledRow' /\ MoneyMatches'
    BY <1>2, <2>2, <2>3, <2>4 DEF SettledRow, MoneyMatches
  <2> QED
    BY <1>1, <2>5 DEF WithinInv
<1>8. CASE Load \/ Deliver \/ OutOfStock \/ RefundLoad \/ Resweep
  BY <1>4, <1>8 DEF Load, Deliver, OutOfStock, RefundLoad, Resweep
<1>9. CASE RequestCancel \/ RejectCancel
  BY <1>4, <1>9 DEF RequestCancel, RejectCancel
<1>10. ASSUME NEW c \in Claims, NEW k \in 0 .. Quantity, NEW d \in 0 .. Days,
              PayOut(c, k, d), UNCHANGED <<price, payment, rows, admin>>
       PROVE  WithinInv'
  <2>1. PICK amount \in Nat : \E share \in 0 .. amount :
                Credit(amount, share) /\ warranty' = warranty + amount
    BY <1>1, <1>10, PayOutAmount
  <2>2. main' + comm' = main + comm + amount
    BY <1>1, <2>1 DEF Credit, TypeOK
  <2>3. SettledRow' /\ MoneyMatches'
    <3>1. SettledRow'
      BY <1>2, <1>10 DEF SettledRow
    <3>2. /\ Total' = Total /\ rows' = rows /\ admin' = admin
          /\ warranty' = warranty + amount /\ warranty \in Nat /\ admin \in Nat
          /\ main \in Nat /\ comm \in Nat
      BY <1>1, <1>3, <1>10, <2>1 DEF Total, TypeOK
    <3>3. ASSUME main + comm = admin + warranty
          PROVE  main' + comm' = admin' + warranty'
      BY <2>2, <3>2, <3>3
    <3>4. ASSUME main + comm <= Total + warranty
          PROVE  main' + comm' <= Total' + warranty'
      BY <1>3, <2>2, <3>2, <3>4
    <3>5. MoneyMatches'
      BY <1>2, <3>2, <3>3, <3>4 DEF MoneyMatches
    <3> QED
      BY <3>1, <3>5
  <2> QED
    BY <1>1, <2>3 DEF WithinInv
<1>12. CASE Warranty
  <2>1. PICK c \in Claims :
            \/ OpenClaim(c) \/ CloseClaim(c)
            \/ \E k \in 0 .. MaxLines, d \in 0 .. Days :
                  AutoRefund(c, k, d) \/ Replace(c, k, d)
    BY <1>12 DEF Warranty
  <2>2. CASE OpenClaim(c) \/ CloseClaim(c)
    BY <1>4, <2>2 DEF OpenClaim, CloseClaim, order
  <2>3. ASSUME NEW k \in 0 .. MaxLines, NEW d \in 0 .. Days, AutoRefund(c, k, d)
        PROVE  WithinInv'
    BY <1>10, <2>3, ClampedRange DEF AutoRefund, order
  <2>4. ASSUME NEW k \in 0 .. MaxLines, NEW d \in 0 .. Days, Replace(c, k, d)
        PROVE  WithinInv'
    BY <1>10, <2>4, ClampedRange DEF Replace, order
  <2> QED
    BY <2>1, <2>2, <2>3, <2>4
<1>11. CASE UNCHANGED vars
  BY <1>4, <1>11 DEF vars, order
<1> QED
  BY <1>5, <1>6, <1>7, <1>8, <1>9, <1>11, <1>12 DEF Next, Worker, Preorder, Admin

\* Warranty refunds apart, an order never pays back more than it cost, unless
\* the administrator and a cancellation of the pre-order both refunded it.
THEOREM NeverOverPrice == Spec => []RefundsWithinPrice
<1>1. Init => WithinInv
  BY InitTypes DEF Init, WithinInv, SettledRow, MoneyMatches
<1>2. WithinInv /\ [Next]_vars => WithinInv'
  BY WithinInductive
<1>3. WithinInv => RefundsWithinPrice
  BY PricesAssumption DEF WithinInv, MoneyMatches, RefundsWithinPrice, TypeOK, Total
<1> QED
  BY <1>1, <1>2, <1>3, PTL DEF Spec

-----------------------------------------------------------------------------
\* Math.round of a quotient lies between the bounds the quotient has.
LEMMA RoundDivBounds ==
    ASSUME NEW a \in Nat, NEW b \in Nat \ {0}, NEW n \in Int
    PROVE  /\ a <= n * b => RoundDiv(a, b) <= n
           /\ n * b <= a => n <= RoundDiv(a, b)
<1> DEFINE q == (2 * a + b) \div (2 * b)
           r == (2 * a + b) % (2 * b)
<1>1. q \in Int /\ r \in 0 .. 2 * b - 1 /\ 2 * a + b = (2 * b) * q + r
  OBVIOUS
<1> HIDE DEF q, r
<1>2. ASSUME a <= n * b, q >= n + 1 PROVE FALSE
  <2>1. b * q >= b * (n + 1)
    BY <1>1, <1>2
  <2>2. b * (n + 1) = n * b + b
    OBVIOUS
  <2>3. b * q \in Int /\ n * b \in Int /\ (2 * b) * q = 2 * (b * q)
    BY <1>1
  <2> QED
    BY <1>1, <1>2, <2>1, <2>2, <2>3
<1>3. ASSUME n * b <= a, q <= n - 1 PROVE FALSE
  <2>1. b * q <= b * (n - 1)
    BY <1>1, <1>3
  <2>2. b * (n - 1) = n * b - b
    OBVIOUS
  <2>3. b * q \in Int /\ n * b \in Int /\ (2 * b) * q = 2 * (b * q)
    BY <1>1
  <2> QED
    BY <1>1, <1>3, <2>1, <2>2, <2>3
<1> QED
  BY <1>1, <1>2, <1>3 DEF RoundDiv, q

\* creditPreorderRefund's split of a refund of at most the price: no more goes
\* to the commission balance than came from it, and no more to the main balance.
LEMMA PreorderSplitFair ==
    ASSUME price \in Prices, NEW amount \in 0 .. Total
    PROVE  /\ PreorderCommission(amount) <= FromCommission
           /\ amount - PreorderCommission(amount) <= Total - FromCommission
<1>1. FromCommission \in 0 .. Total /\ Total \in Nat \ {0} /\ amount \in 0 .. Total
  BY PricesAssumption DEF FromCommission, Total
<1> DEFINE F == FromCommission
           T == Total
           share == RoundDiv(F * amount, T)
           low == F - (T - amount)
<1> HIDE DEF F, T
<1>2. F \in 0 .. T /\ T \in Nat \ {0} /\ amount \in 0 .. T
  BY <1>1 DEF F, T
<1>3. F * amount \in Nat /\ low \in Int
  BY <1>2, ProductNat
<1>4. F * amount <= F * T
  BY <1>2
<1>5. low * T <= F * amount
  <2>1. (T - F) * (T - amount) \in Nat
    BY <1>2, ProductNat
  <2>2. F * amount - low * T = (T - F) * (T - amount)
    BY <1>2
  <2>3. low * T \in Int
    BY <1>2
  <2> QED
    BY <1>3, <2>1, <2>2, <2>3
<1>6. share \in Nat
  BY <1>2, <1>3, RoundDivNat
<1>7. share <= F
  BY <1>2, <1>3, <1>4, RoundDivBounds
<1>8. low <= share
  BY <1>2, <1>3, <1>5, RoundDivBounds
<1> HIDE DEF share
<1>9. PreorderCommission(amount) = Least(amount, share)
  BY DEF PreorderCommission, share, F, T
<1>10. Least(amount, share) <= F /\ amount - Least(amount, share) <= T - F
  BY <1>2, <1>6, <1>7, <1>8 DEF Least
<1> QED
  BY <1>9, <1>10 DEF F, T

\* Where the commission part of the price may be, before any warranty refund.
SplitMatches ==
    /\ warranty = 0 /\ rows \subseteq {"admin"} => comm = 0
    /\ warranty = 0 /\ rows = {} => main = 0
    /\ CommissionRestored
    /\ CommissionNotCashed

\* The inductive invariant behind the two commission properties.
SplitInv == TypeOK /\ SettledRow /\ SplitMatches

\* Every step of every desk keeps it.
LEMMA SplitInductive ==
    ASSUME SplitInv, [Next]_vars
    PROVE  SplitInv'
<1>1. TypeOK /\ TypeOK'
  BY TypeInductive DEF SplitInv
<1>2. SettledRow /\ SplitMatches
  BY DEF SplitInv
<1>3. Total \in Nat \ {0} /\ FromCommission \in 0 .. Total /\ PreorderFee \in 0 .. Total
  BY <1>1, PricesAssumption DEF TypeOK, Total, FromCommission, PreorderFee
<1> USE DEF CommissionRestored, CommissionNotCashed
<1>4. ASSUME UNCHANGED <<price, payment, ledger>>
      PROVE  SplitInv'
  BY <1>1, <1>2, <1>4 DEF SplitInv, SettledRow, SplitMatches, ledger, Total, FromCommission
<1>5. CASE RefundWrite
  <2>1. CASE UNCHANGED <<status, payment, main, comm, rows>>
    BY <1>4, <1>5, <2>1 DEF RefundWrite, ledger
  <2>2. CASE rows = {} /\ Credit(Total, Least(Total, FromCommission))
             /\ rows' = rows \cup {"worker"} /\ payment' = "REFUNDED"
    <3>1. warranty = 0 => main = 0 /\ comm = 0
      BY <1>2, <2>2 DEF SplitMatches
    <3>2. warranty = 0 => main' = Total - FromCommission /\ comm' = FromCommission
      BY <1>3, <2>2, <3>1 DEF Credit, Least
    <3>3. UNCHANGED <<price, warranty>>
      BY <1>5 DEF RefundWrite
    <3>4. SettledRow' /\ SplitMatches'
      BY <1>2, <1>3, <2>2, <3>2, <3>3
         DEF SettledRow, SplitMatches, Total, FromCommission
    <3> QED
      BY <1>1, <3>4 DEF SplitInv
  <2> QED
    BY <1>5, <2>1, <2>2 DEF RefundWrite
<1>6. ASSUME NEW kind \in {"seller_cancel", "customer_cancel"}, CancelPreorder(kind)
      PROVE  SplitInv'
  <2> DEFINE amount == IF kind = "seller_cancel" THEN Total ELSE Total - PreorderFee
             share == PreorderCommission(amount)
  <2>1. amount \in 0 .. Total
    BY <1>3
  <2>2. share \in 0 .. amount /\ share <= FromCommission
        /\ amount - share <= Total - FromCommission
    BY <1>1, <1>3, <2>1, PreorderSplit, PreorderSplitFair DEF TypeOK
  <2>3. Credit(amount, share)
    BY <1>6 DEF CancelPreorder
  <2> HIDE DEF amount, share
  <2>4. rows \subseteq {"admin"}
    BY <1>1, <1>2, <1>6 DEF CancelPreorder, Waiting, SettledRow
  <2>5. warranty = 0 => comm = 0 /\ ("admin" \notin rows => main = 0)
    BY <1>2, <2>4 DEF SplitMatches
  <2>6. warranty = 0 => comm' = share /\ ("admin" \notin rows => main' = amount - share)
    BY <1>3, <2>1, <2>2, <2>3, <2>5 DEF Credit
  <2>7. /\ rows' = rows \cup {kind} /\ payment' = "REFUNDED"
        /\ UNCHANGED <<price, warranty>>
    BY <1>6 DEF CancelPreorder, order
  <2>8. SettledRow' /\ SplitMatches'
    BY <1>2, <1>3, <2>1, <2>2, <2>4, <2>6, <2>7
       DEF SettledRow, SplitMatches, Total, FromCommission
  <2> QED
    BY <1>1, <2>8 DEF SplitInv
<1>7. ASSUME NEW dong \in 1 .. Total \div Vnd, AdminRefund(dong * Vnd)
      PROVE  SplitInv'
  <2>1. rows \subseteq {"admin"}
    BY <1>1, <1>2, <1>7 DEF AdminRefund, SettledRow
  <2>2. comm' = comm
    BY <1>1, <1>7 DEF AdminRefund, Credit, TypeOK
  <2>3. rows' = {"admin"} /\ UNCHANGED <<price, warranty>>
    BY <1>7, <2>1 DEF AdminRefund, order
  <2>4. SettledRow' /\ SplitMatches'
    BY <1>2, <1>3, <2>1, <2>2, <2>3 DEF SettledRow, SplitMatches, FromCommission
  <2> QED
    BY <1>1, <2>4 DEF SplitInv
<1>8. CASE Load \/ Deliver \/ OutOfStock \/ RefundLoad \/ Resweep
  BY <1>4, <1>8 DEF Load, Deliver, OutOfStock, RefundLoad, Resweep
<1>9. CASE RequestCancel \/ RejectCancel
  BY <1>4, <1>9 DEF RequestCancel, RejectCancel
<1>10. ASSUME NEW c \in Claims, NEW k \in 0 .. Quantity, NEW d \in 0 .. Days,
              PayOut(c, k, d), UNCHANGED <<price, payment, rows, admin>>
       PROVE  SplitInv'
  <2>1. PICK amount \in Nat : \E share \in 0 .. amount :
                Credit(amount, share) /\ warranty' = warranty + amount
    BY <1>1, <1>10, PayOutAmount
  <2>2. warranty' = 0 => warranty = 0 /\ main' = main /\ comm' = comm
    BY <1>1, <2>1 DEF Credit, TypeOK
  <2>3. SettledRow' /\ SplitMatches'
    BY <1>2, <1>10, <2>2 DEF SettledRow, SplitMatches, Total, FromCommission
  <2> QED
    BY <1>1, <2>3 DEF SplitInv
<1>12. CASE Warranty
  <2>1. PICK c \in Claims :
            \/ OpenClaim(c) \/ CloseClaim(c)
            \/ \E k \in 0 .. MaxLines, d \in 0 .. Days :
                  AutoRefund(c, k, d) \/ Replace(c, k, d)
    BY <1>12 DEF Warranty
  <2>2. CASE OpenClaim(c) \/ CloseClaim(c)
    BY <1>4, <2>2 DEF OpenClaim, CloseClaim, order
  <2>3. ASSUME NEW k \in 0 .. MaxLines, NEW d \in 0 .. Days, AutoRefund(c, k, d)
        PROVE  SplitInv'
    BY <1>10, <2>3, ClampedRange DEF AutoRefund, order
  <2>4. ASSUME NEW k \in 0 .. MaxLines, NEW d \in 0 .. Days, Replace(c, k, d)
        PROVE  SplitInv'
    BY <1>10, <2>4, ClampedRange DEF Replace, order
  <2> QED
    BY <2>1, <2>2, <2>3, <2>4
<1>11. CASE UNCHANGED vars
  BY <1>4, <1>11 DEF vars, order
<1> QED
  BY <1>5, <1>6, <1>7, <1>8, <1>9, <1>11, <1>12 DEF Next, Worker, Preorder, Admin

\* The split of what was paid into main balance and commission is kept by every step.
LEMMA SplitInvariant == Spec => []SplitInv
<1>1. Init => SplitInv
  <2> SUFFICES ASSUME Init PROVE SplitInv
    OBVIOUS
  <2>1. FromCommission \in Nat /\ Total \in Nat /\ FromCommission <= Total
    BY PricesAssumption DEF Init, Total, FromCommission
  <2> QED
    BY InitTypes, <2>1 DEF Init, SplitInv, SettledRow, SplitMatches,
                           CommissionRestored, CommissionNotCashed
<1>2. SplitInv /\ [Next]_vars => SplitInv'
  BY SplitInductive
<1> QED
  BY <1>1, <1>2, PTL DEF Spec

\* Warranty refunds apart, the commission balance gets back at most what was paid
\* from it, whatever the rounding of a partial refund does.
THEOREM CommissionKeepsItsBalance == Spec => []CommissionRestored
<1>1. SplitInv => CommissionRestored
  BY DEF SplitInv, SplitMatches
<1> QED
  BY <1>1, SplitInvariant, PTL

\* Warranty refunds and the administrator's apart, the main balance gets back at most
\* what was paid from it: commission, which cannot be withdrawn, is not turned into money.
THEOREM CommissionIsNotCashed == Spec => []CommissionNotCashed
<1>1. SplitInv => CommissionNotCashed
  BY DEF SplitInv, SplitMatches
<1> QED
  BY <1>1, SplitInvariant, PTL

-----------------------------------------------------------------------------
\* Prices are whole dong.
WholePrices == \A p \in Prices : \E u \in Nat : p.total = Vnd * u

\* Then the refund of at most the accounts of the order is at most its price,
\* whatever is rounded.
LEMMA WarrantyAmountBound ==
    ASSUME WholePrices, price \in Prices, NEW k \in 0 .. Quantity, NEW d \in 0 .. Days
    PROVE  WarrantyAmount(k, d) <= Total
<1>1. PICK u \in Nat : Total = Vnd * u
  BY DEF WholePrices, Total
<1>2. Total \in Nat /\ k \in Nat /\ Quantity * Vnd \in Nat \ {0}
  BY <1>1, BoundsAssumption DEF Vnd
<1>3. Total * k \in Nat
  BY <1>2, ProductNat
<1>4. Total * k <= u * (Quantity * Vnd)
  <2>1. u * k <= u * Quantity /\ u * k \in Nat /\ u * Quantity \in Nat
    BY BoundsAssumption, ProductNat
  <2>2. Total * k = Vnd * (u * k) /\ u * (Quantity * Vnd) = Vnd * (u * Quantity)
    BY <1>1, BoundsAssumption DEF Vnd
  <2> QED
    BY <2>1, <2>2 DEF Vnd
<1> DEFINE base == RoundDiv(Total * k, Quantity * Vnd)
           days == RoundDiv(base * d, Days)
<1>5. base \in Nat /\ base <= u
  BY <1>2, <1>3, <1>4, RoundDivNat, RoundDivBounds
<1> HIDE DEF base
<1>6. base * d \in Nat /\ base * d <= base * Days
  BY <1>5, BoundsAssumption, ProductNat
<1>7. days \in Nat /\ days <= base
  BY <1>5, <1>6, BoundsAssumption, RoundDivNat, RoundDivBounds
<1> HIDE DEF days
<1>8. Vnd * days <= Total
  BY <1>1, <1>5, <1>7 DEF Vnd
<1> QED
  BY <1>8 DEF WarrantyAmount, days, base

\* A claim that is not over has refunded nothing.
NothingYet == \A c \in Claims : claim[c] \in {"none", "open"} => refund[c] = 0

\* The inductive invariant behind ClaimWithinPrice.
ClaimInv == TypeOK /\ NothingYet /\ ClaimWithinPrice

\* Every step keeps it: a claim refunds once, and for no more accounts than the
\* order has.
LEMMA ClaimInductive ==
    ASSUME WholePrices, ClaimInv, [Next]_vars
    PROVE  ClaimInv'
<1>1. TypeOK /\ TypeOK' /\ NothingYet /\ ClaimWithinPrice
  BY TypeInductive DEF ClaimInv
<1>2. ASSUME UNCHANGED <<price, claims>> PROVE ClaimInv'
  BY <1>1, <1>2 DEF ClaimInv, NothingYet, ClaimWithinPrice, Total, claims
<1>3. ASSUME NEW c \in Claims, OpenClaim(c) \/ CloseClaim(c) PROVE ClaimInv'
  <2>1. UNCHANGED <<price, refund>>
    BY <1>3 DEF OpenClaim, CloseClaim, order
  <2>2. \A b \in Claims : claim'[b] \in {"none", "open"} => claim[b] \in {"none", "open"}
    BY <1>1, <1>3 DEF OpenClaim, CloseClaim, TypeOK
  <2> QED
    BY <1>1, <2>1, <2>2 DEF ClaimInv, NothingYet, ClaimWithinPrice, Total
<1>4. ASSUME NEW c \in Claims, claim[c] = "open", price' = price,
             NEW k \in 0 .. Quantity, NEW d \in 0 .. Days, PayOut(c, k, d),
             NEW over \in {"closed", "replaced"}, claim' = [claim EXCEPT ![c] = over]
      PROVE  ClaimInv'
  <2> DEFINE amount == WarrantyAmount(k, d)
  <2>1. price \in Prices /\ k \in Nat /\ d \in Nat /\ Total' = Total
    BY <1>1, <1>4, BoundsAssumption DEF TypeOK, Total
  <2>2. amount \in Nat /\ amount <= Total
    BY <2>1, WarrantySplit, WarrantyAmountBound
  <2>3. refund' = [refund EXCEPT ![c] = @ + amount]
    BY <1>4 DEF PayOut
  <2> HIDE DEF amount
  <2>4. refund'[c] = amount
    BY <1>1, <1>4, <2>2, <2>3 DEF TypeOK, NothingYet
  <2>5. ClaimWithinPrice'
    BY <1>1, <2>1, <2>2, <2>3, <2>4 DEF TypeOK, ClaimWithinPrice
  <2>6. NothingYet'
    BY <1>1, <1>4, <2>3 DEF TypeOK, NothingYet
  <2> QED
    BY <1>1, <2>5, <2>6 DEF ClaimInv
<1>5. ASSUME NEW c \in Claims, NEW k \in 0 .. MaxLines, NEW d \in 0 .. Days,
             AutoRefund(c, k, d) \/ Replace(c, k, d)
      PROVE  ClaimInv'
  BY <1>4, <1>5, ClampedRange DEF AutoRefund, Replace, order
<1>6. CASE Worker
  BY <1>2, <1>6 DEF Worker, Load, Deliver, OutOfStock, RefundLoad, RefundWrite, Resweep
<1>7. CASE Preorder
  BY <1>2, <1>7 DEF Preorder, RequestCancel, RejectCancel, CancelPreorder, order
<1>8. CASE Admin
  BY <1>2, <1>8 DEF Admin, AdminRefund, order
<1>9. CASE UNCHANGED vars
  BY <1>2, <1>9 DEF vars, order
<1> QED
  BY <1>3, <1>5, <1>6, <1>7, <1>8, <1>9 DEF Next, Warranty

\* When prices are whole dong, no claim refunds more than the order cost,
\* whatever number of accounts it counts and however the days are prorated.
THEOREM ClaimNeverOverPrice ==
    ASSUME WholePrices
    PROVE  Spec => []ClaimWithinPrice
<1>1. Init => ClaimInv
  <2> SUFFICES ASSUME Init PROVE ClaimInv
    OBVIOUS
  <2>1. Total \in Nat
    BY PricesAssumption DEF Init, Total
  <2> QED
    BY InitTypes, <2>1 DEF Init, ClaimInv, NothingYet, ClaimWithinPrice
<1>2. ClaimInv /\ [Next]_vars => ClaimInv'
  BY ClaimInductive
<1>3. ClaimInv => ClaimWithinPrice
  BY DEF ClaimInv
<1> QED
  BY <1>1, <1>2, <1>3, PTL DEF Spec

=============================================================================
