---------------------------- MODULE MCWalletLedger ----------------------------
(* A small instance of WalletLedger at the boundaries of fee and dust. *)
EXTENDS WalletLedger

Coin(id, asset, value, conf, owner) ==
    [id |-> id, asset |-> asset, value |-> value, conf |-> conf, owner |-> owner]

Small == Coin(1, 0, 40, FALSE, Wallet)
Middle == Coin(2, 0, 795, FALSE, Wallet)
Big == Coin(3, 0, 2400, FALSE, Wallet)
Hidden == Coin(4, 0, 9600, TRUE, Wallet)
Gold == Coin(5, 1, 10, FALSE, Wallet)
Bullion == Coin(5, 1, 150, FALSE, Wallet)    \* as many units as MakerC's coin
HiddenGold == Coin(6, 1, 7, TRUE, Wallet)

MCWallets ==
    {{Small, Middle, Gold}, {Middle, Hidden}, {Small, Big, HiddenGold}, {Hidden, Gold, HiddenGold},
     {Big, Bullion, HiddenGold}}

MakerA == Coin(7, 1, 3, FALSE, "makerA")
MakerB == Coin(8, 1, 4, FALSE, "makerB")
MakerC == Coin(9, 0, 150, FALSE, "makerC")
MCMakerCoins == {MakerA, MakerB, MakerC}

OfferFor(coin, asset, amount, flag) ==
    LET out == [asset |-> asset, value |-> amount, to |-> coin.owner, key |-> "none"]
        tx == [ins |-> <<SpentCoin(coin)>>, outs |-> <<out>>]
    IN  [genesis |-> Genesis, id |-> coin.id, out |-> out,
         sig |-> Signature(tx, 1, flag, coin.owner),
         give |-> [asset |-> coin.asset, amount |-> coin.value],
         want |-> [asset |-> asset, amount |-> amount]]

Acp == "SINGLE|ANYONECANPAY"
MCMarket ==
    {OfferFor(MakerA, 0, 150, Acp), OfferFor(MakerB, 0, 206, Acp),
     OfferFor(MakerB, 0, 214, Acp), OfferFor(MakerC, 1, 7, Acp),
     OfferFor(MakerA, 0, 100, "ALL"),
     [OfferFor(MakerA, 0, 150, Acp) EXCEPT !.give.amount = 4]}

\* Ways in which a bundle may differ from the one that was stored: another payee
\* behind a wallet derivation, an unclaimed wallet output, another amount paid by
\* the fee, another value, asset, confidentiality or coin claimed for an input,
\* the assets of two inputs exchanged, a repeated input, another chain, or another
\* summary.
MCEdits(b) ==
    LET p == b.pset
        n == Len(p.outs)
        withPset(q) == [b EXCEPT !.pset = q]
    IN  UNION {
          {withPset([p EXCEPT !.outs[i].to = "recipient"]) :
              i \in {j \in DOMAIN p.outs : p.outs[j].to = Wallet}},
          {withPset([p EXCEPT !.outs[i].derived = FALSE]) :
              i \in {j \in DOMAIN p.outs : p.outs[j].derived}},
          {withPset([p EXCEPT !.outs[1].value = @ + 1, !.outs[n].value = @ - 1])},
          {withPset([p EXCEPT !.ins[1].value = @ + 1, !.outs[1].value = @ + 1])},
          {withPset([p EXCEPT !.ins[i].asset = p.ins[i + 1].asset,
                              !.ins[i + 1].asset = p.ins[i].asset]) :
              i \in {j \in 1..(Len(p.ins) - 1) : p.ins[j].asset # p.ins[j + 1].asset}},
          {withPset([p EXCEPT !.ins[1].asset = 1 - Min({@, 1})])},
          {withPset([p EXCEPT !.ins[1].conf = ~@])},
          {withPset([p EXCEPT !.ins[1].id = 7])},
          {withPset([p EXCEPT !.ins = Append(@, @[1])])},
          {withPset([p EXCEPT !.genesis = "other"])},
          {[b EXCEPT !.review.fee = 0]},
          {[b EXCEPT !.review.kind = k] : k \in {"Cancel", "Transfer"}}}

MCAmounts == <<{7}>> @@ (0 :> {533})
================================================================================
