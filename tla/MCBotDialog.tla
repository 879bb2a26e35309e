---------------------------- MODULE MCBotDialog ----------------------------
(* Small instances of BotDialog for TLC: what the customer does.           *)
EXTENDS BotDialog, TLC

\* Shopping; topping up and buying; hashes and ids; warranty and the source connection.
Evenings ==
    {{"buy", "startBuy", "text", "pay", "home", "cancel"},
     {"buy", "text", "pay", "socialQty", "label"},
     {"topup", "topupMenu", "walletLabel", "text", "buy"},
     {"buy", "text", "hash", "txButton", "idButton", "verify"},
     {"warranty", "warrantyCommand", "claim", "connection", "text"}}

Symmetry == Permutations(Handlers)
=============================================================================
