--------------------------- MODULE PaymentsProofs ---------------------------
(***************************************************************************)
(* What checkout guarantees for any number of invoices on any rails: types,*)
(* that on the rails with receipts and at the bank one transfer pays one   *)
(* invoice once, and that money sent in time pays the invoice it was sent  *)
(* for, or a neighbour of another amount.                                  *)
(***************************************************************************)
EXTENDS Payments, FiniteSetTheorems, WellFoundedInduction, TLAPS

\* A request in flight has its receipt, a bank's report is about its own rail.
InFlight == \A p \in inflight : IF p[2] = "notice" THEN rail[p[1]] = "notice"
                                                  ELSE receipt[p[1]] \in Invoices

\* A transaction under way and a cancellation are about orders.
Orders ==
    /\ \A p \in completing : kind[p[2]] = "order"
    /\ \A i \in cancelling : kind[i] = "order"

\* The types, with what they need to stay so.
TypeInv == TypeOK /\ InFlight /\ Orders

\* What the chain knows: an invoice that exists has a date, money is sent for an
\* invoice that exists, and no later than now; whatever is under way is about one.
Dates ==
    /\ now >= 1
    /\ \A i \in unpaid \union cancelling : created[i] # 0
    /\ \A p \in completing \union tagged : created[p[2]] # 0
    /\ \A i \in Invoices :
          /\ created[i] <= now /\ sent[i] <= now
          /\ status[i] \in {"NONE", "QUOTED"} <=> created[i] = 0
          /\ sent[i] # 0 => created[i] # 0 /\ created[i] <= sent[i]

\* Two invoices of one chain whose reservations overlap have different amounts.
Distinct ==
    \A i, j \in Invoices :
        /\ i # j /\ rail[i] = rail[j] /\ rail[i] \notin Bank /\ created[i] # 0 /\ created[j] # 0
        /\ created[i] <= created[j] /\ created[j] <= created[i] + Reserved
        => amount[i] # amount[j]

\* A receipt names an invoice its transfer is near to, and is the only one to do so.
Receipts ==
    \A t \in Invoices : receipt[t] # None =>
        /\ rail[receipt[t]] \notin Bank
        /\ Near(t, receipt[t]) /\ Dated(t, receipt[t])
        /\ \A u \in Invoices : receipt[u] = receipt[t] => u = t

\* What makes the receipt of a transfer its own.
ChainInv == Dates /\ Distinct /\ Receipts

\* Transfer t is entitled to pay invoice i: the bank's own, or by its receipt.
Source(t, i) == t \in Invoices /\ IF rail[i] \in Bank THEN t = i ELSE receipt[t] = i

\* Whoever is about to settle an invoice, or has, is the seller or entitled to; only
\* the direct scanners go by the amount alone, among themselves.
Entitled ==
    /\ \A p \in completing : p[1] = Manual \/ Source(p[1], p[2])
    /\ \A i \in listed : rail[i] = "direct"
    /\ \A p \in tagged : rail[p[1]] = "direct" /\ rail[p[2]] = "direct"
    /\ \A i \in Invoices : \A t \in settled[i] :
          \/ t = Manual \/ Source(t, i)
          \/ rail[i] = "direct" /\ rail[t] = "direct"

\* An invoice that has been settled is closed: its order's row is not PENDING any more,
\* its top-up is PAID.
Closed ==
    \A i \in Invoices : rail[i] # "direct" =>
        \/ settled[i] = {}
        \/ /\ \E t \in Invoices \union {Manual} : settled[i] = {t}
           /\ i \notin unpaid /\ status[i] \notin {"NONE", "QUOTED"}
           /\ kind[i] = "topup" => status[i] = "PAID"

\* What makes the settlement of an invoice rest on its own money.
MoneyInv == Entitled /\ Closed

-----------------------------------------------------------------------------
\* A nonempty set of natural numbers has a first element, and Min is it.
LEMMA MinIsMember ==
    ASSUME NEW S \in SUBSET Nat, S # {}
    PROVE  Min(S) \in S
<1> DEFINE R == OpToRel(<, Nat)
<1>1. IsWellFoundedOn(R, Nat)
  BY NatLessThanWellFounded, Zenon
<1>2. PICK a \in S : \A b \in S : ~ (<<b, a>> \in R)
  BY <1>1, WFMin, Zenon
<1>3. \A b \in S : b < a => <<b, a>> \in R
  BY DEF OpToRel
<1> HIDE DEF R
<1>4. \A b \in S : ~ (b < a)
  BY <1>2, <1>3, Zenon
<1>5. \A b \in S : a =< b
  BY <1>4
<1> QED
  BY <1>5 DEF Min

\* The amount of an invoice stays a number, and the reserved one is not taken.
LEMMA AmountIsFree ==
    ASSUME TypeOK, NEW i \in Invoices
    PROVE  /\ Quote(i) => amount' \in [Invoices -> Nat]
           /\ Create(i) => amount' \in [Invoices -> Nat]
           /\ Create(i) /\ rail[i] \notin Bank => amount'[i] \notin Taken(rail[i])
<1> USE TimesAssumption DEF TypeOK
<1>1. ASSUME Quote(i) PROVE amount' \in [Invoices -> Nat]
  <2> DEFINE S == {a \in amount[i] .. amount[i] + Tries : ~Collides(rail[i], a)}
                 \union {amount[i] + Tries}
  <2>1. S \in SUBSET Nat /\ S # {}
    OBVIOUS
  <2>2. amount' = [amount EXCEPT ![i] = Min(S)]
    BY <1>1 DEF Quote
  <2> HIDE DEF S
  <2>3. Min(S) \in Nat
    BY <2>1, MinIsMember
  <2> QED
    BY <2>2, <2>3
<1>2. Unreserved(i) \in SUBSET Nat
  BY DEF Unreserved
<1>3. Unreserved(i) # {} => Min(Unreserved(i)) \in Nat /\ Min(Unreserved(i)) \notin Taken(rail[i])
  <2>1. Unreserved(i) # {} => Min(Unreserved(i)) \in Unreserved(i)
    BY <1>2, MinIsMember
  <2> QED
    BY <1>2, <2>1 DEF Unreserved
<1> QED
  BY <1>1, <1>3 DEF Create

-----------------------------------------------------------------------------
\* Every action, with the requests' and the webhook's parts as alternatives of their own.
LEMMA Steps ==
    ASSUME [Next]_vars
    PROVE  \/ UNCHANGED vars \/ Tick \/ Crash \/ DirectLoad \/ DirectEnd
           \/ \E i \in Invoices :
                 \/ Quote(i) \/ Create(i) \/ Send(i) \/ Expire(i) \/ CancelRead(i)
                 \/ CancelWrite(i) \/ Webhook(i) \/ Notice(i) \/ ConfirmManually(i)
           \/ \E t \in Invoices, by \in {"scan", "hash", "notice"} : Settle(t, by)
           \/ \E t \in Invoices \union {Manual}, i \in Invoices : CompleteWrite(t, i)
           \/ \E t, i \in Invoices :
                 \/ ClaimByScan(t, i) \/ ClaimByHash(t, i) \/ DirectTag(t, i) \/ DirectPay(t, i)
  BY DEF Next

\* Types and dates hold at the start.
LEMMA InitTypes == Init => TypeInv /\ Dates
  BY TimesAssumption DEF Init, TypeInv, TypeOK, InFlight, Orders, Dates, Bank

\* Every step keeps types and dates.
LEMMA TypeInductive == TypeInv /\ Dates /\ [Next]_vars => TypeInv' /\ Dates'
<1> SUFFICES ASSUME TypeInv, Dates, [Next]_vars PROVE TypeInv' /\ Dates'
  OBVIOUS
<1> USE InvoicesAssumption, TimesAssumption
    DEF TypeInv, TypeOK, InFlight, Orders, Dates, chainVars, invoiceVars, Bank
<1>1. CASE Tick
  BY <1>1 DEF Tick
<1>2. CASE Crash
  BY <1>2 DEF Crash
<1>3. CASE DirectLoad
  BY <1>3 DEF DirectLoad
<1>4. CASE DirectEnd
  BY <1>4 DEF DirectEnd
<1>5. ASSUME NEW i \in Invoices, Create(i) PROVE TypeInv' /\ Dates'
  <2>1. amount' \in [Invoices -> Nat]
    BY <1>5, AmountIsFree
  <2>2. /\ status' = [status EXCEPT ![i] = "OPEN"] /\ unpaid' = unpaid \union {i}
        /\ created' = [created EXCEPT ![i] = now] /\ created[i] = 0 /\ sent[i] = 0
        /\ UNCHANGED <<now, rail, kind, sent, hash, chainVars, completing, cancelling, settled,
                       crashes>>
    BY <1>5 DEF Create
  <2> QED
    BY <2>1, <2>2
<1>18. ASSUME NEW i \in Invoices, Quote(i) PROVE TypeInv' /\ Dates'
  <2>1. amount' \in [Invoices -> Nat]
    BY <1>18, AmountIsFree
  <2>2. /\ status[i] = "NONE" /\ status' = [status EXCEPT ![i] = "QUOTED"]
        /\ UNCHANGED <<now, rail, kind, created, unpaid, sent, hash, chainVars, completing,
                       cancelling, settled, crashes>>
    BY <1>18 DEF Quote
  <2> QED
    BY <2>1, <2>2
<1>19. ASSUME NEW i \in Invoices, Notice(i) PROVE TypeInv' /\ Dates'
  BY <1>19 DEF Notice
<1>6. ASSUME NEW i \in Invoices, Send(i) PROVE TypeInv' /\ Dates'
  BY <1>6 DEF Send
<1>7. ASSUME NEW i \in Invoices, Expire(i) PROVE TypeInv' /\ Dates'
  BY <1>7 DEF Expire
<1>8. ASSUME NEW i \in Invoices, CancelRead(i) PROVE TypeInv' /\ Dates'
  BY <1>8 DEF CancelRead
<1>9. ASSUME NEW i \in Invoices, CancelWrite(i) PROVE TypeInv' /\ Dates'
  <2>1. TypeOK'
    BY <1>9 DEF CancelWrite
  <2>2. Dates'
    BY <1>9 DEF CancelWrite
  <2>3. InFlight' /\ Orders'
    BY <1>9 DEF CancelWrite
  <2> QED
    BY <2>1, <2>2, <2>3
<1>10. ASSUME NEW i \in Invoices, Webhook(i) PROVE TypeInv' /\ Dates'
  <2>1. CASE TopupPaid(i, i, TRUE)
    BY <1>10, <2>1 DEF Webhook, TopupPaid, TopupPayable
  <2>2. CASE CompleteRead(i, i)
    BY <1>10, <2>2 DEF Webhook, CompleteRead, Eligible
  <2> QED
    BY <1>10, <2>1, <2>2 DEF Webhook
<1>11. ASSUME NEW i \in Invoices, ConfirmManually(i) PROVE TypeInv' /\ Dates'
  BY <1>11 DEF ConfirmManually
<1>12. ASSUME NEW t \in Invoices, NEW by \in {"scan", "hash", "notice"}, Settle(t, by)
       PROVE  TypeInv' /\ Dates'
  <2> DEFINE i == IF by = "notice" THEN t ELSE receipt[t]
  <2>1. i \in Invoices
    BY <1>12 DEF Settle
  <2>2. inflight' \subseteq inflight /\ UNCHANGED <<receipt, listed, tagged>>
    BY <1>12 DEF Settle
  <2> HIDE DEF i
  <2>3. CASE TopupPaid(t, i, by # "hash")
    <3>1. TypeOK'
      BY <2>1, <2>2, <2>3 DEF TopupPaid, TopupPayable
    <3>2. Dates'
      BY <2>1, <2>2, <2>3 DEF TopupPaid, TopupPayable
    <3>3. InFlight' /\ Orders'
      BY <2>1, <2>2, <2>3 DEF TopupPaid, TopupPayable
    <3> QED
      BY <3>1, <3>2, <3>3
  <2>4. CASE CompleteRead(t, i)
    BY <2>1, <2>2, <2>4 DEF CompleteRead, Eligible
  <2>5. CASE UNCHANGED <<now, invoiceVars, status, unpaid, sent, hash, completing, cancelling, settled,
                         crashes>>
    BY <2>2, <2>5
  <2> QED
    BY <1>12, <2>3, <2>4, <2>5 DEF Settle, i
<1>13. ASSUME NEW t \in Invoices \union {Manual}, NEW i \in Invoices, CompleteWrite(t, i)
       PROVE  TypeInv' /\ Dates'
  <2>1. TypeOK'
    BY <1>13 DEF CompleteWrite
  <2>2. Dates'
    BY <1>13 DEF CompleteWrite
  <2>3. InFlight' /\ Orders'
    BY <1>13 DEF CompleteWrite
  <2> QED
    BY <2>1, <2>2, <2>3
<1>14. ASSUME NEW t \in Invoices, NEW i \in Invoices, ClaimByScan(t, i) \/ ClaimByHash(t, i)
       PROVE  TypeInv' /\ Dates'
  <2>1. PICK by \in {"scan", "hash"} : Claim(t, i, by)
    BY <1>14 DEF ClaimByScan, ClaimByHash
  <2>2. hash' = hash \/ hash' = [hash EXCEPT ![i] = t]
    BY <1>14 DEF ClaimByScan, ClaimByHash
  <2> QED
    BY <2>1, <2>2 DEF Claim
<1>15. ASSUME NEW t \in Invoices, NEW i \in Invoices, DirectTag(t, i) PROVE TypeInv' /\ Dates'
  BY <1>15 DEF DirectTag, Exact, Near
<1>16. ASSUME NEW t \in Invoices, NEW i \in Invoices, DirectPay(t, i) PROVE TypeInv' /\ Dates'
  <2>1. TypeOK'
    BY <1>16 DEF DirectPay
  <2>2. Dates'
    BY <1>16 DEF DirectPay
  <2>3. InFlight' /\ Orders'
    BY <1>16 DEF DirectPay
  <2> QED
    BY <2>1, <2>2, <2>3
<1>17. CASE UNCHANGED vars
  BY <1>17 DEF vars
<1> QED
  BY Steps, <1>1, <1>2, <1>3, <1>4, <1>5, <1>6, <1>7, <1>8, <1>9, <1>10, <1>11, <1>12, <1>13,
     <1>14, <1>15, <1>16, <1>17, <1>18, <1>19, SMTT(40)

\* Every reachable state of checkout, of its scanners and of its requests is well typed,
\* for any number of invoices.
THEOREM TypeCorrect == Spec => []TypeOK
<1>1. TypeInv /\ Dates => TypeOK
  BY DEF TypeInv
<1> QED
  BY <1>1, InitTypes, TypeInductive, PTL DEF Spec

-----------------------------------------------------------------------------
\* What no new invoice, transfer or receipt touches.
LEMMA ChainSame ==
    ASSUME Distinct, Receipts, UNCHANGED <<rail, created, amount, sent, receipt>>
    PROVE  Distinct' /\ Receipts'
  BY DEF Distinct, Receipts, Near, Dated

\* Every step keeps what the reservations and the receipts say.
LEMMA ChainInductive ==
    TypeInv /\ Dates /\ Distinct /\ Receipts /\ [Next]_vars => Distinct' /\ Receipts'
<1> SUFFICES ASSUME TypeInv, Dates, Distinct, Receipts, [Next]_vars PROVE Distinct' /\ Receipts'
  OBVIOUS
<1> USE InvoicesAssumption, TimesAssumption DEF TypeInv, TypeOK
<1>1. ASSUME NEW i \in Invoices, Create(i) PROVE Distinct' /\ Receipts'
  <2>1. /\ rail[i] \notin Bank => amount'[i] \notin Taken(rail[i])
        /\ created[i] = 0 /\ created' = [created EXCEPT ![i] = now]
        /\ UNCHANGED <<rail, sent, receipt>>
        /\ \A j \in Invoices \ {i} : amount'[j] = amount[j]
    BY <1>1, AmountIsFree DEF Create, invoiceVars, chainVars, Dates
  <2>2. rail[i] \notin Bank => \A j \in Invoices \ {i} :
            /\ rail[j] = rail[i] /\ created[j] # 0 /\ now <= created[j] + Reserved
            => amount'[j] # amount'[i]
    BY <2>1 DEF Taken
  <2>3. ASSUME NEW j \in Invoices \ {i}, rail[i] \notin Bank, rail[j] = rail[i], created[j] # 0,
               now <= created[j],
               created[j] <= now + Reserved
        PROVE  amount'[j] # amount'[i]
    BY <2>2, <2>3 DEF Dates
  <2>4. Distinct'
    BY <2>1, <2>2, <2>3 DEF Distinct
  <2>5. \A t \in Invoices : receipt[t] # None => t # i /\ receipt[t] # i /\ receipt[t] \in Invoices
    BY <2>1 DEF Receipts, Near, Dates
  <2>6. Receipts'
    BY <2>1, <2>5 DEF Receipts, Near, Dated
  <2> QED
    BY <2>4, <2>6
<1>8. ASSUME NEW i \in Invoices, Quote(i) PROVE Distinct' /\ Receipts'
  <2>1. /\ created[i] = 0 /\ UNCHANGED <<rail, created, sent, receipt>>
        /\ \A j \in Invoices \ {i} : amount'[j] = amount[j]
    BY <1>8 DEF Quote, chainVars, Dates
  <2>2. \A t \in Invoices : receipt[t] # None => t # i /\ receipt[t] # i /\ receipt[t] \in Invoices
    BY <2>1 DEF Receipts, Near, Dates
  <2> QED
    BY <2>1, <2>2 DEF Distinct, Receipts, Near, Dated
<1>2. ASSUME NEW i \in Invoices, Send(i) PROVE Distinct' /\ Receipts'
  <2>1. /\ sent[i] = 0 /\ sent' = [sent EXCEPT ![i] = now]
        /\ UNCHANGED <<rail, created, amount, receipt>>
    BY <1>2 DEF Send, invoiceVars, chainVars
  <2>2. \A t \in Invoices : receipt[t] # None => sent'[t] = sent[t]
    BY <2>1 DEF Receipts, Near
  <2> QED
    BY <2>1, <2>2 DEF Distinct, Receipts, Near, Dated
<1>3. ASSUME NEW t \in Invoices, NEW i \in Invoices, ClaimByScan(t, i) \/ ClaimByHash(t, i)
      PROVE  Distinct' /\ Receipts'
  <2>1. /\ Near(t, i) /\ Dated(t, i) /\ Claimable(t, i) /\ rail[i] \notin Bank
        /\ receipt' = [receipt EXCEPT ![t] = i] /\ UNCHANGED <<rail, created, amount, sent>>
    BY <1>3 DEF ClaimByScan, ClaimByHash, Claim, invoiceVars, Bank
  <2>2. \A u \in Invoices \ {t} : receipt[u] # i
    BY <2>1 DEF Claimable, Receipts
  <2>3. ASSUME NEW u \in Invoices, receipt'[u] # None
        PROVE  (/\ rail[receipt[u]] \notin Bank
                /\ Near(u, receipt[u]) /\ Dated(u, receipt[u])
                /\ \A v \in Invoices : receipt[v] = receipt[u] => v = u)'
    BY <2>1, <2>2, <2>3 DEF Receipts, Near, Dated
  <2> QED
    BY <2>1, <2>3 DEF Distinct, Receipts
<1>4. ASSUME NEW i \in Invoices,
             \/ Expire(i) \/ CancelRead(i) \/ CancelWrite(i) \/ Webhook(i) \/ Notice(i)
             \/ ConfirmManually(i)
      PROVE  UNCHANGED <<rail, created, amount, sent, receipt>>
  BY <1>4 DEF Expire, CancelRead, CancelWrite, Webhook, Notice, TopupPaid, CompleteRead,
              ConfirmManually, invoiceVars, chainVars
<1>5. ASSUME NEW t, NEW i \in Invoices, CompleteWrite(t, i) \/ DirectTag(t, i) \/ DirectPay(t, i)
      PROVE  UNCHANGED <<rail, created, amount, sent, receipt>>
  BY <1>5 DEF CompleteWrite, DirectTag, DirectPay, invoiceVars, chainVars
<1>6. ASSUME NEW t \in Invoices, NEW by, Settle(t, by)
      PROVE  UNCHANGED <<rail, created, amount, sent, receipt>>
  BY <1>6 DEF Settle, TopupPaid, CompleteRead, invoiceVars
<1>7. CASE Tick \/ Crash \/ DirectLoad \/ DirectEnd \/ UNCHANGED vars
  BY <1>7, ChainSame DEF Tick, Crash, DirectLoad, DirectEnd, vars, invoiceVars, chainVars
<1> QED
  BY Steps, ChainSame, <1>1, <1>2, <1>3, <1>4, <1>5, <1>6, <1>7, <1>8

-----------------------------------------------------------------------------
\* Rails and kinds never change, and a receipt stays what it is: entitlement is for good.
LEMMA SourceStays ==
    ASSUME TypeInv, [Next]_vars
    PROVE  /\ rail' = rail /\ kind' = kind
           /\ \A t, i \in Invoices : Source(t, i) => Source(t, i)'
<1> USE InvoicesAssumption DEF TypeInv, TypeOK, Source
<1>1. ASSUME NEW t \in Invoices, NEW i \in Invoices, ClaimByScan(t, i) \/ ClaimByHash(t, i)
      PROVE  /\ rail' = rail /\ kind' = kind
             /\ \A u \in Invoices : receipt[u] \in Invoices => receipt'[u] = receipt[u]
  BY <1>1 DEF ClaimByScan, ClaimByHash, Claim, Claimable, invoiceVars
<1>2. ASSUME NEW i \in Invoices,
             \/ Quote(i) \/ Create(i) \/ Send(i) \/ Expire(i) \/ CancelRead(i) \/ CancelWrite(i)
             \/ Webhook(i) \/ Notice(i) \/ ConfirmManually(i)
      PROVE  UNCHANGED <<rail, kind, receipt>>
  BY <1>2 DEF Quote, Create, Send, Expire, CancelRead, CancelWrite, Webhook, Notice, TopupPaid, CompleteRead,
              ConfirmManually, invoiceVars, chainVars
<1>3. ASSUME NEW t, NEW i \in Invoices, CompleteWrite(t, i) \/ DirectTag(t, i) \/ DirectPay(t, i)
      PROVE  UNCHANGED <<rail, kind, receipt>>
  BY <1>3 DEF CompleteWrite, DirectTag, DirectPay, invoiceVars, chainVars
<1>4. ASSUME NEW t \in Invoices, NEW by, Settle(t, by) PROVE UNCHANGED <<rail, kind, receipt>>
  BY <1>4 DEF Settle, TopupPaid, CompleteRead, invoiceVars
<1>5. CASE Tick \/ Crash \/ DirectLoad \/ DirectEnd \/ UNCHANGED vars
  BY <1>5 DEF Tick, Crash, DirectLoad, DirectEnd, vars, invoiceVars, chainVars
<1> QED
  BY Steps, <1>1, <1>2, <1>3, <1>4, <1>5

\* A step that settles nothing and begins nothing keeps entitlement.
LEMMA EntitledSame ==
    ASSUME TypeInv, [Next]_vars, Entitled, settled' = settled,
           completing' \subseteq completing, listed' \subseteq listed, tagged' \subseteq tagged
    PROVE  Entitled'
<1>1. /\ rail' = rail
      /\ \A t, i \in Invoices : Source(t, i) => Source(t, i)'
  BY SourceStays
<1>2. \A p \in completing : p[1] \in Invoices \union {Manual} /\ p[2] \in Invoices
  BY DEF TypeInv, TypeOK
<1>3. \A i \in Invoices : settled[i] \subseteq Invoices \union {Manual}
  BY DEF TypeInv, TypeOK
<1> HIDE DEF Source
<1> QED
  BY <1>1, <1>2, <1>3 DEF Entitled

\* A step that settles nothing, opens no closed row and leaves a paid top-up alone keeps
\* settled invoices closed.
LEMMA ClosedSame ==
    ASSUME TypeInv, [Next]_vars, Closed, settled' = settled, unpaid' \subseteq unpaid,
           \A i \in Invoices : \/ status'[i] = status[i]
                               \/ status'[i] \notin {"NONE", "QUOTED"} /\ (kind[i] = "order" \/ status[i] # "PAID")
    PROVE  Closed'
<1>1. rail' = rail /\ kind' = kind
  BY SourceStays
<1> QED
  BY <1>1 DEF Closed, TypeInv, TypeOK

\* Transfer t settles invoice i, which was not: it is closed with that.
LEMMA SettlesOnce ==
    ASSUME TypeInv, [Next]_vars, Closed, NEW t \in Invoices \union {Manual}, NEW i \in Invoices,
           rail[i] # "direct" => i \in unpaid \/ (kind[i] = "topup" /\ status[i] # "PAID"),
           settled' = [settled EXCEPT ![i] = @ \union {t}], unpaid' = unpaid \ {i},
           status' = [status EXCEPT ![i] = "PAID"]
    PROVE  Closed'
<1>1. rail' = rail /\ kind' = kind
  BY SourceStays
<1>2. rail[i] # "direct" => settled[i] = {}
  BY DEF Closed
<1>3. ASSUME NEW j \in Invoices, rail'[j] # "direct"
      PROVE  (\/ settled[j] = {}
              \/ /\ \E u \in Invoices \union {Manual} : settled[j] = {u}
                 /\ j \notin unpaid /\ status[j] \notin {"NONE", "QUOTED"}
                 /\ kind[j] = "topup" => status[j] = "PAID")'
  <2>1. CASE j = i
    BY <1>1, <1>2, <1>3, <2>1 DEF TypeInv, TypeOK
  <2>2. CASE j # i
    BY <1>1, <1>3, <2>2 DEF TypeInv, TypeOK, Closed
  <2> QED
    BY <2>1, <2>2
<1> QED
  BY <1>3 DEF Closed

\* ... and entitled, if t was.
LEMMA SettlesEntitled ==
    ASSUME TypeInv, [Next]_vars, Entitled, NEW t \in Invoices \union {Manual}, NEW i \in Invoices,
           t = Manual \/ Source(t, i) \/ (rail[i] = "direct" /\ rail[t] = "direct"),
           settled' = [settled EXCEPT ![i] = @ \union {t}],
           completing' \subseteq completing, listed' \subseteq listed, tagged' \subseteq tagged
    PROVE  Entitled'
<1>1. /\ rail' = rail
      /\ \A u, j \in Invoices : Source(u, j) => Source(u, j)'
  BY SourceStays
<1>2. \A p \in completing : p[1] \in Invoices \union {Manual} /\ p[2] \in Invoices
  BY DEF TypeInv, TypeOK
<1>3. \A j \in Invoices : settled[j] \subseteq Invoices \union {Manual}
  BY DEF TypeInv, TypeOK
<1>4. \A j \in Invoices : \A u \in settled'[j] : u \in settled[j] \/ (j = i /\ u = t)
  BY DEF TypeInv, TypeOK
<1>5. ASSUME NEW j \in Invoices, NEW u \in settled'[j]
      PROVE  (u = Manual \/ Source(u, j) \/ (rail[j] = "direct" /\ rail[u] = "direct"))'
  BY <1>1, <1>3, <1>4 DEF Entitled
<1> QED
  BY <1>1, <1>2, <1>5 DEF Entitled

\* A transaction begins for an entitled transfer, or on the seller's word.
LEMMA BeginsEntitled ==
    ASSUME TypeInv, [Next]_vars, MoneyInv, NEW t \in Invoices \union {Manual}, NEW i \in Invoices,
           t = Manual \/ Source(t, i),
           completing' = completing \union {<<t, i>>},
           UNCHANGED <<status, unpaid, listed, tagged, settled>>
    PROVE  MoneyInv'
<1>1. /\ rail' = rail
      /\ \A u, j \in Invoices : Source(u, j) => Source(u, j)'
  BY SourceStays
<1>2. \A p \in completing' :
          \/ p[1] = Manual /\ p[2] \in Invoices
          \/ p[1] \in Invoices /\ p[2] \in Invoices /\ Source(p[1], p[2])
  BY DEF TypeInv, TypeOK, MoneyInv, Entitled
<1>3. \A j \in Invoices : settled[j] \subseteq Invoices \union {Manual}
  BY DEF TypeInv, TypeOK
<1>4. Entitled'
  BY <1>1, <1>2, <1>3 DEF MoneyInv, Entitled
<1>5. Closed'
  BY ClosedSame DEF MoneyInv
<1> QED
  BY <1>4, <1>5 DEF MoneyInv

\* A step that only gives up what is under way, or changes the status of an order or of a
\* top-up that is not paid.
LEMMA MoneySame ==
    ASSUME TypeInv, [Next]_vars, MoneyInv, settled' = settled, unpaid' \subseteq unpaid,
           completing' \subseteq completing, listed' \subseteq listed, tagged' \subseteq tagged,
           \A i \in Invoices : \/ status'[i] = status[i]
                               \/ status'[i] \notin {"NONE", "QUOTED"} /\ (kind[i] = "order" \/ status[i] # "PAID")
    PROVE  MoneyInv'
  BY EntitledSame, ClosedSame DEF MoneyInv

\* Every step keeps who is entitled and what is closed.
LEMMA MoneyInductive == TypeInv /\ ChainInv /\ MoneyInv /\ [Next]_vars => MoneyInv'
<1> SUFFICES ASSUME TypeInv, ChainInv, MoneyInv, [Next]_vars PROVE MoneyInv'
  OBVIOUS
<1> USE DEF invoiceVars, chainVars
<1>1. CASE Tick
  BY <1>1, MoneySame DEF Tick
<1>2. CASE Crash
  BY <1>2, MoneySame DEF Crash
<1>3. CASE DirectLoad
  <2>1. \A i \in listed' : rail[i] = "direct"
    BY <1>3 DEF DirectLoad
  <2>2. UNCHANGED <<status, unpaid, completing, tagged, settled, rail, receipt>>
    BY <1>3 DEF DirectLoad
  <2>3. Closed'
    BY <2>2, ClosedSame DEF MoneyInv
  <2>4. Entitled'
    BY <2>1, <2>2 DEF MoneyInv, Entitled, Source
  <2> QED
    BY <2>3, <2>4 DEF MoneyInv
<1>4. CASE DirectEnd
  BY <1>4, MoneySame DEF DirectEnd
<1>5. ASSUME NEW i \in Invoices, Create(i) PROVE MoneyInv'
  <2>1. rail[i] # "direct" => settled[i] = {}
    BY <1>5 DEF Create, MoneyInv, Closed
  <2>2. Closed'
    BY <1>5, <2>1 DEF Create, MoneyInv, Closed, TypeInv, TypeOK
  <2>3. Entitled'
    BY <1>5, EntitledSame DEF Create, MoneyInv
  <2> QED
    BY <2>2, <2>3 DEF MoneyInv
<1>20. ASSUME NEW i \in Invoices, Quote(i) PROVE MoneyInv'
  <2>1. rail[i] # "direct" => settled[i] = {}
    BY <1>20 DEF Quote, MoneyInv, Closed
  <2>2. Closed'
    BY <1>20, <2>1 DEF Quote, MoneyInv, Closed, TypeInv, TypeOK
  <2>3. Entitled'
    BY <1>20, EntitledSame DEF Quote, MoneyInv
  <2> QED
    BY <2>2, <2>3 DEF MoneyInv
<1>21. ASSUME NEW i \in Invoices, Notice(i) PROVE MoneyInv'
  BY <1>21, MoneySame DEF Notice
<1>6. ASSUME NEW i \in Invoices, Send(i) PROVE MoneyInv'
  BY <1>6, MoneySame DEF Send
<1>7. ASSUME NEW i \in Invoices, Expire(i) PROVE MoneyInv'
  BY <1>7, MoneySame DEF Expire, TypeInv, TypeOK
<1>8. ASSUME NEW i \in Invoices, CancelRead(i) PROVE MoneyInv'
  BY <1>8, MoneySame DEF CancelRead
<1>9. ASSUME NEW i \in Invoices, CancelWrite(i) PROVE MoneyInv'
  BY <1>9, MoneySame DEF CancelWrite, TypeInv, TypeOK, Orders
<1>10. ASSUME NEW t \in Invoices, NEW i \in Invoices, NEW confirmed, Source(t, i),
              TopupPaid(t, i, confirmed), UNCHANGED <<listed, tagged>>
       PROVE  MoneyInv'
  <2>1. /\ kind[i] = "topup" /\ status[i] # "PAID"
        /\ settled' = [settled EXCEPT ![i] = @ \union {t}] /\ unpaid' = unpaid \ {i}
        /\ status' = [status EXCEPT ![i] = "PAID"] /\ completing' = completing
    BY <1>10 DEF TopupPaid, TopupPayable
  <2>2. Closed'
    BY <2>1, SettlesOnce DEF MoneyInv
  <2>3. Entitled'
    BY <1>10, <2>1, SettlesEntitled DEF MoneyInv
  <2> QED
    BY <2>2, <2>3 DEF MoneyInv
<1>11. ASSUME NEW t \in Invoices, NEW i \in Invoices, Source(t, i), CompleteRead(t, i),
              UNCHANGED <<listed, tagged>>
       PROVE  MoneyInv'
  BY <1>11, BeginsEntitled DEF CompleteRead
<1>12. ASSUME NEW i \in Invoices, Webhook(i) PROVE MoneyInv'
  <2>1. Source(i, i) /\ UNCHANGED <<listed, tagged>>
    BY <1>12 DEF Webhook, Source, Bank
  <2> QED
    BY <1>10, <1>11, <1>12, <2>1 DEF Webhook
<1>13. ASSUME NEW i \in Invoices, ConfirmManually(i) PROVE MoneyInv'
  BY <1>13, BeginsEntitled DEF ConfirmManually
<1>14. ASSUME NEW t \in Invoices, NEW by \in {"scan", "hash", "notice"}, Settle(t, by)
       PROVE  MoneyInv'
  <2> DEFINE i == IF by = "notice" THEN t ELSE receipt[t]
  <2>1. i \in Invoices /\ UNCHANGED <<listed, tagged>>
    BY <1>14 DEF Settle, TypeInv, InFlight
  <2>2. Source(t, i)
    <3>1. CASE by = "notice"
      BY <1>14, <3>1 DEF Settle, TypeInv, InFlight, Source, Bank
    <3>2. CASE by # "notice"
      BY <2>1, <3>2, InvoicesAssumption DEF Source, ChainInv, Receipts
    <3> QED
      BY <3>1, <3>2
  <2>3. \/ TopupPaid(t, i, by # "hash") \/ CompleteRead(t, i)
        \/ UNCHANGED <<status, unpaid, completing, settled>>
    BY <1>14 DEF Settle
  <2> HIDE DEF i
  <2> QED
    BY <1>10, <1>11, <2>1, <2>2, <2>3, MoneySame
<1>15. ASSUME NEW t \in Invoices \union {Manual}, NEW i \in Invoices, CompleteWrite(t, i)
       PROVE  MoneyInv'
  <2>1. <<t, i>> \in completing /\ completing' \subseteq completing /\ UNCHANGED <<listed, tagged>>
    BY <1>15 DEF CompleteWrite
  <2>2. t = Manual \/ Source(t, i)
    BY <2>1 DEF MoneyInv, Entitled
  <2>3. CASE UNCHANGED <<status, unpaid, settled>>
    BY <2>1, <2>3, MoneySame
  <2>4. CASE /\ i \in unpaid /\ status' = [status EXCEPT ![i] = "PAID"]
             /\ unpaid' = unpaid \ {i} /\ settled' = [settled EXCEPT ![i] = @ \union {t}]
    BY <2>1, <2>2, <2>4, SettlesOnce, SettlesEntitled DEF MoneyInv
  <2> QED
    BY <1>15, <2>3, <2>4 DEF CompleteWrite
<1>16. ASSUME NEW t \in Invoices, NEW i \in Invoices, ClaimByScan(t, i) \/ ClaimByHash(t, i)
       PROVE  MoneyInv'
  BY <1>16, MoneySame DEF ClaimByScan, ClaimByHash, Claim
<1>17. ASSUME NEW t \in Invoices, NEW i \in Invoices, DirectTag(t, i) PROVE MoneyInv'
  <2>1. rail[i] = "direct" /\ rail[t] = "direct"
    BY <1>17 DEF DirectTag, Exact, Near, MoneyInv, Entitled
  <2>2. Closed'
    BY <1>17, ClosedSame DEF DirectTag, MoneyInv
  <2>3. /\ \A p \in tagged' : p[1] = t /\ p[2] = i
        /\ listed' \subseteq listed /\ UNCHANGED <<rail, receipt, completing, settled>>
    BY <1>17 DEF DirectTag
  <2>4. Entitled'
    BY <2>1, <2>3 DEF MoneyInv, Entitled, Source
  <2> QED
    BY <2>2, <2>4 DEF MoneyInv
<1>18. ASSUME NEW t \in Invoices, NEW i \in Invoices, DirectPay(t, i) PROVE MoneyInv'
  <2>1. rail[i] = "direct" /\ rail[t] = "direct"
    BY <1>18 DEF DirectPay, MoneyInv, Entitled
  <2>2. Closed'
    BY <1>18, <2>1, SettlesOnce DEF DirectPay, MoneyInv
  <2>3. Entitled'
    BY <1>18, <2>1, SettlesEntitled DEF DirectPay, MoneyInv
  <2> QED
    BY <2>2, <2>3 DEF MoneyInv
<1>19. CASE UNCHANGED vars
  BY <1>19, MoneySame DEF vars
<1> QED
  BY Steps, <1>1, <1>2, <1>3, <1>4, <1>5, <1>6, <1>7, <1>8, <1>9, <1>12, <1>13, <1>14, <1>15,
     <1>16, <1>17, <1>18, <1>19, <1>20, <1>21

-----------------------------------------------------------------------------
\* The whole inductive invariant.
LEMMA PaymentsInvariant == Spec => [](TypeInv /\ ChainInv /\ MoneyInv)
<1>1. Init => TypeInv /\ ChainInv /\ MoneyInv
  BY InitTypes DEF Init, ChainInv, MoneyInv, Distinct, Receipts, Entitled, Closed
<1>2. TypeInv /\ ChainInv /\ MoneyInv /\ [Next]_vars => (TypeInv /\ ChainInv /\ MoneyInv)'
  BY TypeInductive, ChainInductive, MoneyInductive DEF ChainInv
<1> QED
  BY <1>1, <1>2, PTL DEF Spec

\* On the bank's rail and on the chains with receipts, whatever scanners, customers who send
\* a hash, the bank's repeated calls, the seller and crashes do at once, an invoice is
\* settled once and a transfer settles one invoice: claimOnchainPaymentReceipt's two unique
\* keys and the PENDING-to-PAID claim of the payment row are enough.
THEOREM OneTransferOneInvoice == Spec => []OnePayment
<1>1. TypeInv /\ ChainInv /\ MoneyInv => OnePayment
  <2> SUFFICES ASSUME TypeInv, ChainInv, MoneyInv, NEW i \in Invoices, NEW j \in Invoices,
                      rail[i] # "direct"
               PROVE  /\ Cardinality(settled[i]) <= 1
                      /\ settled[i] \intersect settled[j] \intersect Invoices # {} => i = j
    BY DEF OnePayment
  <2>1. settled[i] = {} \/ \E t : settled[i] = {t}
    BY DEF MoneyInv, Closed
  <2>2. Cardinality(settled[i]) <= 1
    <3>1. CASE settled[i] = {}
      <4>1. Cardinality(settled[i]) = 0
        BY <3>1, FS_EmptySet, Zenon
      <4> QED
        BY <4>1
    <3>2. ASSUME NEW t, settled[i] = {t} PROVE Cardinality(settled[i]) <= 1
      <4>1. Cardinality({t}) = 1
        BY FS_Singleton, Zenon
      <4>2. Cardinality(settled[i]) = 1
        BY <3>2, <4>1, Zenon
      <4> QED
        BY <4>2
    <3> QED
      BY <2>1, <3>1, <3>2, Zenon
  <2>3. ASSUME NEW t \in Invoices, t \in settled[i], t \in settled[j] PROVE i = j
    <3>1. Source(t, i) /\ (Source(t, j) \/ rail[t] = "direct")
      BY <2>3, InvoicesAssumption DEF MoneyInv, Entitled
    <3>2. \A k \in Invoices : Source(t, k) => rail[t] = rail[k]
      BY InvoicesAssumption DEF Source, ChainInv, Receipts, Near
    <3> QED
      BY <3>1, <3>2 DEF Source
  <2> QED
    BY <2>2, <2>3
<1> QED
  BY <1>1, PaymentsInvariant, PTL

\* Money sent while its invoice was valid pays that invoice or none, or a neighbour of
\* another amount within the tolerance: another invoice with the same amount was created
\* more than the reservation apart, and Dated, which compares the transfer's time with the
\* invoice's and allows for their clocks, tells the two from each other.
THEOREM MoneyPaysItsOwnInvoice == Spec => []OwnMoney
<1>1. TypeInv /\ ChainInv /\ MoneyInv => OwnMoney
  <2> SUFFICES ASSUME TypeInv, ChainInv, MoneyInv, NEW i \in Invoices, NEW t \in Invoices,
                      rail[i] # "direct", t \in settled[i], sent[t] <= created[t] + Valid, t # i
               PROVE  Distance(amount[t], amount[i]) \in 1 .. Tolerance
    BY DEF OwnMoney
  <2>1. Source(t, i)
    BY InvoicesAssumption DEF MoneyInv, Entitled
  <2>2. receipt[t] = i
    BY <2>1 DEF Source
  <2>3. Near(t, i) /\ Dated(t, i) /\ rail[i] \notin Bank
    BY <2>2, InvoicesAssumption DEF ChainInv, Receipts
  <2>4. /\ created[t] \in Nat /\ created[i] \in Nat /\ sent[t] \in Nat /\ created[t] # 0
        /\ created[t] <= sent[t]
    BY <2>3 DEF TypeInv, TypeOK, ChainInv, Dates, Near
  <2>5. \/ created[i] <= created[t] /\ created[t] <= created[i] + Reserved
        \/ created[t] <= created[i] /\ created[i] <= created[t] + Reserved
    BY <2>3, <2>4, TimesAssumption DEF Dated
  <2>6. amount[t] # amount[i]
    BY <2>3, <2>4, <2>5 DEF Near, ChainInv, Distinct
  <2>7. /\ amount[t] \in Nat /\ amount[i] \in Nat /\ Tolerance \in Nat
        /\ Distance(amount[t], amount[i]) <= Tolerance
    BY <2>3, TimesAssumption DEF Near, TypeInv, TypeOK
  <2> QED
    BY <2>6, <2>7 DEF Distance
<1> QED
  BY <1>1, PaymentsInvariant, PTL

=============================================================================
