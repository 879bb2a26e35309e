------------------------------ MODULE BotDialog ------------------------------
(***************************************************************************)
(* One customer's conversation with a shop's Telegram bot.  What the bot   *)
(* has asked is kept in Redis, one key per kind of question, and the next  *)
(* text is taken for the answer to the first question that is open, in a   *)
(* fixed order; buttons close some questions and open others.  Telegram    *)
(* sends updates side by side and repeats one it got no answer to, so      *)
(* handlers overlap between reading a question and acting on the answer.   *)
(* A dialogue is one conversation from its first question to the order,    *)
(* top-up or claim it is for; its number stands for the product, amount or *)
(* order code its keys hold.                                               *)
(*                                                                         *)
(* The names of the specification carry the prefix Chat, because its       *)
(* theorems are stated in one module with those of CustomerWallet, whose   *)
(* top-ups the dialogues make.                                             *)
(***************************************************************************)
EXTENDS Integers, FiniteSets

CONSTANTS
    Handlers,     \* executions of handleIncomingUpdate at one time
    Talks,        \* sets of inputs; a customer sends those of one set
    MaxUpdates,   \* bound: updates
    MaxDialogs,   \* bound: dialogues
    MaxResends,   \* bound: updates sent again
    MaxDeaths     \* bound: deaths of the API

ASSUME ChatBounds ==
    MaxUpdates \in Nat /\ MaxDialogs \in Nat /\ MaxResends \in Nat /\ MaxDeaths \in Nat

Kinds == {"quantity", "social", "payment", "topup", "txHash", "connection",
          "warranty", "account", "binance", "okx"}
Menu == {"quantity", "topup", "payment", "txHash"}

Texts == {"text", "hash"}
\* Labels, commands and buttons that close questions and open none: what each closes.
Closes ==
    [label |-> Menu, walletLabel |-> Menu \ {"topup"}, home |-> Menu \union {"social"}]
\* Buttons that open a question at once: what each closes before, the question, and what
\* is closed when no question can be asked.
Opens ==
    [topupMenu |-> [close |-> Menu, kind |-> "topup", else |-> {Menu}],
     topup |-> [close |-> {"topup"}, kind |-> "topup", else |-> {}],
     socialQty |-> [close |-> {"quantity"}, kind |-> "social", else |-> {{"quantity"}}],
     connection |-> [close |-> {}, kind |-> "connection", else |-> {{}}],
     warrantyCommand |-> [close |-> {}, kind |-> "warranty", else |-> {{}}],
     warranty |-> [close |-> Menu \union {"account"}, kind |-> "warranty", else |-> {{}}]]
\* Ways to start a purchase, a button and a link to the shop: what each closes.
Buys == [buy |-> {"txHash"}, startBuy |-> Menu]
Inputs == Texts \union DOMAIN Closes \union DOMAIN Opens
            \union DOMAIN Buys \union {"pay", "claim", "txButton", "idButton", "verify", "cancel"}

ASSUME TalksAssumption == Talks \subseteq SUBSET Inputs

\* Where a handler stands: the handler of one kind of question, or a step of one.
Steps == (Kinds \ {"payment"}) \union
             {"idle", "run", "ask", "offer", "method", "buy", "create", "toppedUp", "verify",
              "check", "make"}

Dialogs == 1 .. MaxDialogs
NoDialog == 0

VARIABLES
    talk,
    sess,      \* sess[k]: the dialogue in the key of kind k
    subject,   \* subject[d]: what dialogue d is about, "none" before it begins
    invoice,   \* invoice[d]: the order or top-up made in dialogue d
    made,      \* made[d]: orders, top-ups or claims made in dialogue d
    hand,      \* the running handlers
    updates,   \* updates the customer has sent
    claimed,   \* updates whose id is claimed in Redis
    last,      \* the update that may come again
    resends, deaths,
    overlapped,\* two updates were handled at the same time
    shared     \* dialogues two updates worked on at a time, or a top-up died in

chatVars == <<talk, sess, subject, invoice, made, hand, updates, claimed, last, resends, deaths,
          overlapped, shared>>
mailVars == <<talk, updates, claimed, last, resends, deaths, overlapped>>
goodsVars == <<subject, invoice, made>>

Idle == [u |-> 0, in |-> "none", pc |-> "idle", d |-> NoDialog]
Busy == {h \in Handlers : hand[h] # Idle}
Orders == {d \in Dialogs : subject[d] \in {"plain", "social"}}
Unpaid == {d \in Dialogs : invoice[d] = "unpaid"}
\* What an exchange id is looked up for: a top-up also after it was canceled.
Verifiable == Unpaid \union {d \in Dialogs : subject[d] = "topup" /\ invoice[d] = "closed"}
New(d) == subject[d] = "none" /\ \A c \in Dialogs : c < d => subject[c] # "none"

ChatInit ==
    /\ talk \in Talks
    /\ sess = [k \in Kinds |-> NoDialog]
    /\ subject = [d \in Dialogs |-> "none"]
    /\ invoice = [d \in Dialogs |-> "none"]
    /\ made = [d \in Dialogs |-> 0]
    /\ hand = [h \in Handlers |-> Idle]
    /\ updates = 0 /\ claimed = {} /\ last = Idle
    /\ resends = 0 /\ deaths = 0
    /\ overlapped = FALSE /\ shared = {}

Done(h) == hand' = [hand EXCEPT ![h] = Idle]
GoOn(h, pc) == hand' = [hand EXCEPT ![h].pc = pc]

\* The handler goes on with dialogue d in hand.
Hold(h, pc, d) ==
    /\ hand' = [hand EXCEPT ![h].pc = pc, ![h].d = d]
    /\ shared' = IF \E g \in Busy \ {h} : hand[g].d = d /\ hand[g].u # hand[h].u
                 THEN shared \union {d} ELSE shared

Cleared(ks) == [k \in Kinds |-> IF k \in ks THEN NoDialog ELSE sess[k]]

-----------------------------------------------------------------------------
\* Delivery.

\* Mutant: an update is handled as often as it comes.
ReceiveAlways(h, u, in) ==
    /\ hand[h] = Idle
    /\ claimed' = claimed \union {u}
    /\ hand' = [hand EXCEPT ![h] = [u |-> u, in |-> in, pc |-> "run", d |-> NoDialog]]
    /\ overlapped' = (overlapped \/ Busy # {})

\* handleIncomingUpdate claims the update's id; a second delivery ends here.  The claim lasts
\* ten minutes in the code, and here for good; Redis is up.
Receive(h, u, in) ==
    /\ hand[h] = Idle
    /\ claimed' = claimed \union {u}
    /\ IF u \in claimed
       THEN UNCHANGED <<hand, overlapped>>
       ELSE /\ hand' = [hand EXCEPT ![h] = [u |-> u, in |-> in, pc |-> "run", d |-> NoDialog]]
            /\ overlapped' = (overlapped \/ Busy # {})

SendUpdate(h, in) ==
    /\ in \in talk /\ updates < MaxUpdates
    /\ Receive(h, updates + 1, in)
    /\ updates' = updates + 1
    /\ last' = IF resends < MaxResends THEN [Idle EXCEPT !.u = updates + 1, !.in = in] ELSE Idle
    /\ UNCHANGED <<talk, sess, goodsVars, resends, deaths, shared>>

\* Telegram had no answer, or the poller's request took more than ten seconds and the
\* offset was not advanced.
Resend(h) ==
    /\ last # Idle /\ resends < MaxResends
    /\ Receive(h, last.u, last.in)
    /\ resends' = resends + 1 /\ last' = Idle
    /\ UNCHANGED <<talk, sess, goodsVars, updates, deaths, shared>>

\* A group chat, too many updates, a locked shop, a banned customer, a channel to join first.
Refuse(h) ==
    /\ hand[h].pc = "run"
    /\ Done(h)
    /\ UNCHANGED <<sess, goodsVars, mailVars, shared>>

-----------------------------------------------------------------------------
\* Buttons, labels and commands.

Navigate(h) ==
    /\ hand[h].pc = "run" /\ hand[h].in \in DOMAIN Closes
    /\ sess' = Cleared(Closes[hand[h].in])
    /\ Done(h)
    /\ UNCHANGED <<goodsVars, mailVars, shared>>

\* The top-up menu opens the question only when there is one way to pay; the other
\* buttons may find no account to open it for.
OpenQuestion(h) ==
    /\ hand[h].pc = "run" /\ hand[h].in \in DOMAIN Opens
    /\ LET o == Opens[hand[h].in]
       IN  \/ \E ks \in o.else : sess' = Cleared(ks) /\ UNCHANGED subject
           \/ \E d \in Dialogs :
                  /\ New(d)
                  /\ sess' = [Cleared(o.close) EXCEPT ![o.kind] = d]
                  /\ subject' = [subject EXCEPT ![d] = o.kind]
    /\ Done(h)
    /\ UNCHANGED <<invoice, made, mailVars, shared>>

\* Mutant: the customer's unpaid orders are not looked up.
PromptQuantityAnyway(h) ==
    /\ hand[h].pc = "run" /\ hand[h].in \in DOMAIN Buys
    /\ sess' = Cleared(Buys[hand[h].in])
    /\ \E d \in Dialogs, s \in {"plain", "social"} :
           /\ New(d)
           /\ subject' = [subject EXCEPT ![d] = s]
           /\ Hold(h, "ask", d)
    /\ UNCHANGED <<invoice, made, mailVars>>

\* promptQuantitySelection: not while an order awaits payment, and not when stock is out.
PromptQuantity(h) ==
    /\ hand[h].pc = "run" /\ hand[h].in \in DOMAIN Buys
    /\ sess' = Cleared(Buys[hand[h].in])
    /\ \/ Done(h) /\ UNCHANGED <<subject, shared>>
       \/ /\ Orders \intersect Unpaid = {}
          /\ \E d \in Dialogs, s \in {"plain", "social"} :
                 /\ New(d)
                 /\ subject' = [subject EXCEPT ![d] = s]
                 /\ Hold(h, "ask", d)
    /\ UNCHANGED <<invoice, made, mailVars>>

\* sendQuantityReplyPrompt: the message is sent before the question is stored.
AskQuantity(h) ==
    /\ hand[h].pc = "ask"
    /\ sess' = [sess EXCEPT !["quantity"] = hand[h].d]
    /\ Done(h)
    /\ UNCHANGED <<goodsVars, mailVars, shared>>

\* promptTxHashSubmission and promptTopupTxHashSubmission
PromptTxHash(h) ==
    /\ hand[h].pc = "run" /\ hand[h].in = "txButton"
    /\ \/ UNCHANGED sess
       \/ \E d \in Unpaid : sess' = [Cleared({"quantity", "topup", "payment"}) EXCEPT !["txHash"] = d]
    /\ Done(h)
    /\ UNCHANGED <<goodsVars, mailVars, shared>>

\* handleBinanceOrderIdPrompt and handleOkxTxHashPrompt, which is for orders only.
PromptId(h) ==
    /\ hand[h].pc = "run" /\ hand[h].in = "idButton"
    /\ \/ UNCHANGED sess
       \/ \E d \in Verifiable : sess' = [sess EXCEPT !["binance"] = d]
       \/ \E d \in Unpaid \intersect Orders : sess' = [sess EXCEPT !["okx"] = d]
    /\ Done(h)
    /\ UNCHANGED <<goodsVars, mailVars, shared>>

\* handleCheckoutPaymentVerify and handleBinancePersonalVerify: the provider is asked.
VerifyButton(h) ==
    /\ hand[h].pc = "run" /\ hand[h].in = "verify"
    /\ \/ Done(h) /\ UNCHANGED shared
       \/ \E d \in Unpaid : Hold(h, "verify", d)
    /\ UNCHANGED <<sess, goodsVars, mailVars>>

\* "order:cancel:": cancelPendingOrder
CancelOrder(h) ==
    /\ hand[h].pc = "run" /\ hand[h].in = "cancel"
    /\ \/ UNCHANGED invoice
       \/ \E d \in Orders \intersect Unpaid : invoice' = [invoice EXCEPT ![d] = "closed"]
    /\ Done(h)
    /\ UNCHANGED <<sess, subject, made, mailVars, shared>>

\* "warranty_claim:": the button names the order.
ClaimButton(h) ==
    /\ hand[h].pc = "run" /\ hand[h].in = "claim"
    /\ sess' = Cleared(Menu \union {"warranty"})
    /\ \/ Done(h) /\ UNCHANGED <<subject, shared>>
       \/ \E d \in Dialogs :
              /\ New(d)
              /\ subject' = [subject EXCEPT ![d] = "warranty"]
              /\ Hold(h, "check", d)
    /\ UNCHANGED <<invoice, made, mailVars>>

-----------------------------------------------------------------------------
\* Texts.

\* The order in which the questions are tried; a text that is no hash is no answer to okx.
Rank == [txHash |-> 1, topup |-> 2, social |-> 3, quantity |-> 4, connection |-> 5,
         account |-> 6, warranty |-> 7, binance |-> 8, okx |-> 9]
Takers(in) == {k \in DOMAIN Rank : sess[k] # NoDialog /\ (k = "okx" => in = "hash")}
First(ks) == CHOOSE k \in ks : \A j \in ks : Rank[k] <= Rank[j]

\* A text is taken by the first open question.  A hash that nobody asked for is tried on a
\* recent invoice: as a transaction before all questions, as a Binance id after them.
Text(h) ==
    LET in == hand[h].in
        ks == Takers(in)
    IN  /\ hand[h].pc = "run" /\ in \in Texts
        /\ \/ /\ sess["txHash"] = NoDialog
              /\ in = "hash"
              /\ \E d \in Unpaid : /\ sess' = [sess EXCEPT !["txHash"] = d]
                                   /\ Hold(h, "txHash", d)
           \/ /\ ks # {}
              /\ Hold(h, First(ks), sess[First(ks)])
              /\ UNCHANGED sess
           \/ /\ ks \subseteq {"okx"}
              /\ in = "hash" /\ \E d \in Verifiable : Hold(h, "verify", d)
              /\ UNCHANGED sess
           \/ ks = {} /\ Done(h) /\ UNCHANGED <<sess, shared>>
        /\ UNCHANGED <<goodsVars, mailVars>>

\* handlePendingQuantityMessage: asked again, or the target of a social order is asked
\* for, or the way to pay is, or there is only one and the order is made.
QuantityMessage(h) ==
    LET d == hand[h].d
    IN  /\ hand[h].pc = "quantity"
        /\ \/ Done(h) /\ sess' \in {sess, [sess EXCEPT !["quantity"] = d]}
           \/ /\ subject[d] = "social"
              /\ sess' = [sess EXCEPT !["quantity"] = NoDialog, !["social"] = d]
              /\ Done(h)
           \/ /\ subject[d] = "plain"
              /\ \/ sess' = Cleared({"quantity"}) /\ Done(h)
                 \/ sess' = [sess EXCEPT !["quantity"] = NoDialog, !["payment"] = d] /\ Done(h)
                 \/ UNCHANGED sess /\ GoOn(h, "buy")
        /\ UNCHANGED <<goodsVars, mailVars, shared>>

\* handlePendingSocialTargetMessage: no link, or the comments are asked for, or it is complete.
SocialTargetMessage(h) ==
    /\ hand[h].pc = "social"
    /\ \/ Done(h) /\ sess' \in {sess, [sess EXCEPT !["social"] = hand[h].d]}
       \/ sess' = Cleared({"social"}) /\ GoOn(h, "offer")
    /\ UNCHANGED <<goodsVars, mailVars, shared>>

\* proceedToSocialPayment
SocialPayment(h) ==
    /\ hand[h].pc = "offer"
    /\ \/ Done(h) /\ sess' \in {sess, [sess EXCEPT !["payment"] = hand[h].d]}
       \/ GoOn(h, "buy") /\ UNCHANGED sess
    /\ UNCHANGED <<goodsVars, mailVars, shared>>

\* handlePaymentMethodSelection: the button carries the way to pay, the key the purchase.
PayButton(h) ==
    /\ hand[h].pc = "run" /\ hand[h].in = "pay"
    /\ IF sess["payment"] = NoDialog THEN Done(h) /\ UNCHANGED shared
       ELSE Hold(h, "method", sess["payment"])
    /\ UNCHANGED <<sess, goodsVars, mailVars>>

PaymentMethod(h) ==
    /\ hand[h].pc = "method"
    /\ \/ sess' = Cleared({"payment"}) /\ Done(h)
       \/ GoOn(h, "buy") /\ UNCHANGED sess
    /\ UNCHANGED <<goodsVars, mailVars, shared>>

\* handleBuy and handleBuyWithWallet: a shop without a plan takes no order; the questions
\* of a purchase are closed first ...
Buy(h) ==
    /\ hand[h].pc = "buy"
    /\ \/ Done(h) /\ UNCHANGED sess
       \/ GoOn(h, "create") /\ sess' = Cleared({"quantity", "payment", "txHash"})
    /\ UNCHANGED <<goodsVars, mailVars, shared>>

\* ... and the order is made, or stock, the wallet or the provider refuse.
CreateOrder(h) ==
    /\ hand[h].pc = "create"
    /\ \/ UNCHANGED <<invoice, made>>
       \/ \E status \in {"unpaid", "paid"} :
              /\ invoice' = [invoice EXCEPT ![hand[h].d] = status]
              /\ made' = [made EXCEPT ![hand[h].d] = @ + 1]
    /\ Done(h)
    /\ UNCHANGED <<sess, subject, mailVars, shared>>

\* handlePendingWalletTopupMessage: the top-up is made first ...
WalletTopupMessage(h) ==
    /\ hand[h].pc = "topup"
    /\ \/ Done(h) /\ UNCHANGED <<invoice, made>>
       \/ /\ invoice' = [invoice EXCEPT ![hand[h].d] = "unpaid"]
          /\ made' = [made EXCEPT ![hand[h].d] = @ + 1]
          /\ GoOn(h, "toppedUp")
    /\ UNCHANGED <<sess, subject, mailVars, shared>>

\* ... and its question closed afterwards.
CloseTopup(h) ==
    /\ hand[h].pc = "toppedUp"
    /\ sess' = Cleared({"topup"})
    /\ Done(h)
    /\ UNCHANGED <<goodsVars, mailVars, shared>>

\* handlePendingTxHashMessage: the question is closed when the payment was found.
TxHashMessage(h) ==
    LET d == hand[h].d
    IN  /\ hand[h].pc = "txHash"
        /\ \/ UNCHANGED <<sess, invoice>>
           \/ /\ hand[h].in = "hash" /\ invoice[d] \in {"unpaid", "paid"}
              /\ invoice' = [invoice EXCEPT ![d] = "paid"]
              /\ sess' = Cleared({"txHash"})
        /\ Done(h)
        /\ UNCHANGED <<subject, made, mailVars, shared>>

\* handlePendingBinanceOrderIdMessage and handlePendingOkxTxHashMessage close the question
\* and then ask the exchange.
ExchangeIdMessage(h) ==
    /\ hand[h].pc \in {"binance", "okx"}
    /\ \/ hand[h].pc = "binance" /\ Done(h) /\ UNCHANGED sess
       \/ hand[h].in = "hash" /\ sess' = Cleared({hand[h].pc}) /\ GoOn(h, "verify")
    /\ UNCHANGED <<goodsVars, mailVars, shared>>

Verify(h) ==
    LET d == hand[h].d
    IN  /\ hand[h].pc = "verify"
        /\ invoice' \in {invoice, [invoice EXCEPT ![d] = IF d \in Verifiable THEN "paid" ELSE @]}
        /\ Done(h)
        /\ UNCHANGED <<sess, subject, made, mailVars, shared>>

\* handlePendingConnectionTopupAmountMessage closes the question before the top-up is made;
\* so do the warranty questions.
TakeAnswer(h) ==
    LET k == hand[h].pc
    IN  /\ k \in {"connection", "warranty", "account"}
        /\ \/ k = "connection" /\ Done(h) /\ UNCHANGED sess
           \/ /\ sess' = Cleared({k})
              /\ GoOn(h, IF k = "warranty" THEN "check" ELSE "make")
        /\ UNCHANGED <<goodsVars, mailVars, shared>>

\* checkTelegramWarrantyEligibility and routeWarrantyByAccountCount
CheckWarranty(h) ==
    /\ hand[h].pc = "check"
    /\ \/ Done(h) /\ sess' \in {sess, [sess EXCEPT !["account"] = hand[h].d]}
       \/ GoOn(h, "make") /\ UNCHANGED sess
    /\ UNCHANGED <<goodsVars, mailVars, shared>>

\* createPayosTopupForConnection and submitTelegramWarrantyClaim
Make(h) ==
    /\ hand[h].pc = "make"
    /\ made' \in {made, [made EXCEPT ![hand[h].d] = @ + 1]}
    /\ Done(h)
    /\ UNCHANGED <<sess, subject, invoice, mailVars, shared>>

-----------------------------------------------------------------------------
\* The rest of the world.

\* A key of Redis runs out.
SessionExpires(k) ==
    /\ sess[k] # NoDialog
    /\ sess' = Cleared({k})
    /\ UNCHANGED <<goodsVars, mailVars, hand, shared>>

\* An invoice is paid or runs out.
InvoiceEnds(d) ==
    /\ invoice[d] = "unpaid"
    /\ \E status \in {"paid", "closed"} : invoice' = [invoice EXCEPT ![d] = status]
    /\ UNCHANGED <<sess, subject, made, mailVars, hand, shared>>

ApiCrash ==
    /\ deaths < MaxDeaths /\ Busy # {}
    /\ deaths' = deaths + 1
    /\ shared' = shared \union {hand[h].d : h \in {g \in Busy : hand[g].pc = "toppedUp"}}
    /\ hand' = [h \in Handlers |-> Idle]
    /\ UNCHANGED <<talk, sess, goodsVars, updates, claimed, last, resends, overlapped>>

Handle(h) ==
    \/ Refuse(h) \/ Navigate(h) \/ OpenQuestion(h) \/ PromptQuantity(h) \/ AskQuantity(h)
    \/ PromptTxHash(h) \/ PromptId(h) \/ VerifyButton(h) \/ CancelOrder(h) \/ ClaimButton(h)
    \/ Text(h) \/ QuantityMessage(h) \/ SocialTargetMessage(h) \/ SocialPayment(h)
    \/ PayButton(h) \/ PaymentMethod(h) \/ Buy(h) \/ CreateOrder(h)
    \/ WalletTopupMessage(h) \/ CloseTopup(h) \/ TxHashMessage(h)
    \/ ExchangeIdMessage(h) \/ Verify(h) \/ TakeAnswer(h) \/ CheckWarranty(h) \/ Make(h)

ChatNext ==
    \/ \E h \in Handlers : Handle(h) \/ Resend(h) \/ \E in \in talk : SendUpdate(h, in)
    \/ \E k \in Kinds : SessionExpires(k)
    \/ \E d \in Dialogs : InvoiceEnds(d)
    \/ ApiCrash

ChatSpec == ChatInit /\ [][ChatNext]_chatVars

-----------------------------------------------------------------------------
\* Every variable stays in its range: a handler knows its update and a dialogue that has
\* begun, and a key names one that has.
ChatTypeOK ==
    /\ talk \in Talks
    /\ sess \in [Kinds -> {NoDialog} \union Dialogs]
    /\ subject \in [Dialogs -> {"none", "plain", "social", "topup", "connection", "warranty"}]
    /\ invoice \in [Dialogs -> {"none", "unpaid", "paid", "closed"}]
    /\ made \in [Dialogs -> Nat]
    /\ hand \in [Handlers -> [u : 0 .. MaxUpdates, in : Inputs \union {"none"}, pc : Steps,
                              d : {NoDialog} \union Dialogs]]
    /\ updates \in 0 .. MaxUpdates /\ claimed \subseteq 1 .. updates
    /\ last \in [u : 0 .. updates, in : Inputs \union {"none"}, pc : {"idle"}, d : {NoDialog}]
    /\ resends \in 0 .. MaxResends /\ deaths \in 0 .. MaxDeaths
    /\ overlapped \in BOOLEAN /\ shared \subseteq {NoDialog} \union Dialogs
    /\ \A h \in Handlers :
           hand[h].pc \notin {"idle", "run"} => hand[h].d # NoDialog /\ subject[hand[h].d] # "none"
    /\ \A k \in Kinds : sess[k] # NoDialog => subject[sess[k]] # "none"

\* A dialogue leads to one order, top-up or claim, however often Telegram repeats an
\* update and in whatever order the customer taps and types, unless two of his updates
\* worked on the dialogue at the same time (both read the question before either closed
\* it), or the API died between making a top-up and closing its question.
OncePerDialog == \A d \in Dialogs \ shared : made[d] <= 1

\* "Please pay or cancel it before creating a new one": when the updates are handled one
\* after the other, a customer has one unpaid order at a time, whatever buttons of older
\* messages he uses; only orders of social products, whose question other purchases leave
\* open, come on top.
OneUnpaidOrder ==
    ~overlapped => Cardinality({d \in Unpaid : subject[d] = "plain"}) <= 1

=============================================================================
