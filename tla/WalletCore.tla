------------------------------ MODULE WalletCore ------------------------------
(***************************************************************************)
(* The wallet core (rust/wallet-core): how a request becomes a funded      *)
(* PSET, what the reviewer recomputes from that PSET, and what the signer  *)
(* accepts.  Everything here is a pure function of its arguments, as it is *)
(* in the code; WalletLedger puts it to work on a ledger.                  *)
(*                                                                         *)
(* Abstractions.  An asset is a number (0 the policy asset, even and odd   *)
(* numbers above 1 the assets and tokens a coin issues).  A script is the  *)
(* name of its owner and all scripts are P2WPKH.  A commitment is the pair *)
(* it opens to, a proof the fact that the claim equals that pair, a        *)
(* signature the data it covers, the review hash the pair it hashes.       *)
(* The PSET fields that every kind refuses outright are left out: a PSET   *)
(* of the model carries none of them.                                      *)
(***************************************************************************)
EXTENDS Integers, Sequences, FiniteSets, SequencesExt

CONSTANTS MaxMoney,         \* MAX_MONEY
          MaxFeeRate,       \* MAX_FEE_RATE
          MaxRequestItems,  \* MAX_REQUEST_ITEMS: coins or offers per request
          MaxPsetItems      \* inputs or outputs analyze accepts

ASSUME BoundsAssumption ==
    {MaxMoney, MaxFeeRate, MaxRequestItems, MaxPsetItems} \subseteq Nat \ {0}

Policy == 0
Dust == 546                 \* POLICY_DUST_LIMIT
Wallet == "wallet"          \* the scripts and keys derived from this seed
Fee == "fee"                \* the empty script
Genesis == "pinned"

\* Asset and token that the issuance on the coin with this id creates.
IssuanceIds(id) == [asset |-> 2 * id + 2, token |-> 2 * id + 3]

NoIssuance == [amount |-> 0, tokens |-> 0]
NoSig == [flag |-> "none", by |-> "none", over |-> [ins |-> <<>>, outs |-> <<>>]]

Failure(e) == [ok |-> FALSE, error |-> e]

\* Amount of asset a in a sequence of inputs, outputs or coins.
Values(s) == [i \in DOMAIN s |-> s[i].value]
Total(s, a) == SumFunctionOnSet(Values(s), {i \in DOMAIN s : s[i].asset = a})

Rank(S, Less(_, _)) ==
    [i \in 1..Cardinality(S) |->
        CHOOSE x \in S : Cardinality({y \in S : Less(y, x)}) = i - 1]
Sorted(S) == Rank(S, <)

-----------------------------------------------------------------------------
(* Fees and coin selection (build.rs). *)

\* estimate_vsize: upper bound on the size of a transaction, the fee output
\* (the only one with an empty script) counted in outputs.
Vsize(inputs, issuance, outputs, blinded) ==
    LET base == 15 + 41 * inputs + (IF issuance THEN 82 ELSE 0)
                   + 66 * outputs - 22 + 56 * blinded
        witness == 112 * inputs + 2 * outputs + 4340 * blinded
    IN  (4 * base + witness + 3) \div 4

\* The fee of the largest transaction analyze accepts, at the highest rate, is
\* an amount like any other: MAX_MONEY is far beyond it.
ASSUME FeesAssumption ==
    MaxFeeRate * Vsize(MaxPsetItems, TRUE, MaxPsetItems + 1, MaxPsetItems + 1) + Dust
        <= MaxMoney

(* Mutant of Before: small coins are used up first. *)
BeforeSmallestFirst(c, d) == c.value < d.value \/ (c.value = d.value /\ c.id < d.id)

Before(c, d) == c.value > d.value \/ (c.value = d.value /\ c.id < d.id)

\* Largest first, then outpoint.
Pool(coins, a) == Rank({c \in coins : c.asset = a}, Before)

AnyConfidential(inputs) == \E i \in DOMAIN inputs : inputs[i].conf

(* Mutant of EstimatedFee: the policy change is sized as an explicit output. *)
EstimatedFeeExplicitChange(inputs, changes, shape, rate) ==
    LET blindedChanges == IF AnyConfidential(inputs) THEN Len(changes) ELSE 0
    IN  rate * Vsize(shape.foreign + Len(inputs), shape.issuance,
                     shape.fixed + Len(changes) + 2, shape.blinded + blindedChanges)

\* The fee of a transaction that also pays a policy change: change is blinded
\* as soon as one wallet input is confidential.
EstimatedFee(inputs, changes, shape, rate) ==
    LET blindedChanges == IF AnyConfidential(inputs) THEN Len(changes) + 1 ELSE 0
    IN  rate * Vsize(shape.foreign + Len(inputs), shape.issuance,
                     shape.fixed + Len(changes) + 2, shape.blinded + blindedChanges)

(* Mutant of Reserve: nothing is set aside for the blinded output. *)
ReserveNone(inputs, changes, shape) == 0

\* Blinding factors of confidential inputs need a blinded output to balance.
Reserve(inputs, changes, shape) ==
    IF AnyConfidential(inputs) /\ shape.blinded = 0 /\ changes = <<>> THEN Dust ELSE 0

\* What is needed is one amount of one asset.
Only(asset, amount) == [a \in {asset} |-> amount]

NeedOf(needs, a) == IF a \in DOMAIN needs THEN needs[a] ELSE 0

\* Coins of asset a to add: the shortest prefix of its pool that makes up the
\* need with the forced coins, or the whole pool if there is none.
Covering(forced, pool, a, need) ==
    LET covers == {k \in 0..Len(pool) :
                      Total(forced, a) + Total(SubSeq(pool, 1, k), a) >= need}
    IN  IF covers = {} THEN pool ELSE SubSeq(pool, 1, Min(covers))

\* The policy change, or what is not worth one added to the fee.
Settled(inputs, changes, fee, rest) ==
    [ok |-> TRUE, inputs |-> inputs,
     fee |-> IF rest < Dust THEN fee + rest ELSE fee,
     changes |-> IF rest < Dust THEN changes
                 ELSE Append(changes, [asset |-> Policy, value |-> rest])]

\* The policy loop: coins of the pool are added until need, fee and reserve
\* are covered by a transaction with at least one wallet input.
PayFee(inputs, changes, pool, need, shape, rate) ==
    LET with(k) == inputs \o SubSeq(pool, 1, k)
        fee(k) == EstimatedFee(with(k), changes, shape, rate)
        rest(k) == Total(with(k), Policy) - need - fee(k)
        ready == {k \in 0..Len(pool) :
                    rest(k) >= Reserve(with(k), changes, shape) /\ with(k) # <<>>}
    IN  IF ready = {} THEN Failure("InsufficientFunds")
        ELSE Settled(with(Min(ready)), changes, fee(Min(ready)), rest(Min(ready)))

\* What the token inputs leave over goes back to the wallet.
ChangesOf(inputs, tokens, needs) ==
    LET left(a) == Total(inputs, a) - NeedOf(needs, a)
        kept == Sorted({a \in tokens : left(a) > 0})
    IN  [i \in DOMAIN kept |-> [asset |-> kept[i], value |-> left(kept[i])]]

\* Forced coins are always spent, then tokens are covered one asset at a time.
CoverTokens(forced, candidates, needs, tokens) ==
    LET order == Sorted(tokens)
    IN  forced \o FlattenSeq([i \in DOMAIN order |->
            Covering(forced, Pool(candidates, order[i]), order[i], NeedOf(needs, order[i]))])

FundTokens(inputs, candidates, needs, tokens, shape, rate) ==
    IF \E a \in tokens : Total(inputs, a) < NeedOf(needs, a)
    THEN Failure("InsufficientFunds")
    ELSE PayFee(inputs, ChangesOf(inputs, tokens, needs), Pool(candidates, Policy),
                NeedOf(needs, Policy), shape, rate)

\* fund: the tokens first, then the policy asset for what is sent and the fee.
Fund(forced, candidates, needs, shape, rate) ==
    LET tokens == (DOMAIN needs \cup {forced[i].asset : i \in DOMAIN forced}) \ {Policy}
    IN  IF rate \notin 1..MaxFeeRate THEN Failure("InvalidFeeRate")
        ELSE IF \E i \in DOMAIN forced : forced[i] \in candidates
        THEN Failure("DuplicateUtxo")
        ELSE FundTokens(CoverTokens(forced, candidates, needs, tokens),
                        candidates, needs, tokens, shape, rate)

-----------------------------------------------------------------------------
(* The parts of a PSET (build.rs, confidential.rs). *)

WalletInput(c, flag) ==
    [id |-> c.id, asset |-> c.asset, value |-> c.value, conf |-> c.conf,
     opens |-> <<c.asset, c.value>>, script |-> c.owner, derived |-> TRUE,
     sighash |-> flag, witness |-> NoSig, issuance |-> NoIssuance]

WalletInputs(coins) == [i \in DOMAIN coins |-> WalletInput(coins[i], "ALL")]

\* An output to a script; key is the blinding key it is blinded to, or "none".
PsetOutput(asset, value, to, derived, key) ==
    [asset |-> asset, value |-> value, to |-> to, derived |-> derived, key |-> key,
     opens |-> <<asset, value>>]

WalletOutput(asset, value, blinded) ==
    PsetOutput(asset, value, Wallet, TRUE, IF blinded THEN Wallet ELSE "none")

FeeOutput(fee) == PsetOutput(Policy, fee, Fee, FALSE, "none")

(* Mutant of ChangesAndFee: only the first input decides on blinding. *)
ChangesAndFeeByFirst(funding) ==
    Append([i \in DOMAIN funding.changes |->
              WalletOutput(funding.changes[i].asset, funding.changes[i].value,
                           funding.inputs[1].conf)],
           FeeOutput(funding.fee))

ChangesAndFee(funding) ==
    LET blinded == AnyConfidential(funding.inputs)
    IN  Append([i \in DOMAIN funding.changes |->
                  WalletOutput(funding.changes[i].asset, funding.changes[i].value, blinded)],
               FeeOutput(funding.fee))

Blinded(o) == o.key # "none"

Confidential(p) ==
    AnyConfidential(p.ins) \/ \E i \in DOMAIN p.outs : Blinded(p.outs[i])

\* The commitment of a confidential coin binds its asset and its value.
Commitment(conf, opens) == IF conf THEN opens ELSE <<>>

\* What a signature covers of a coin: its value or commitment, never the asset
\* of an explicit one (BIP-143 as in Elements).
SpentCoin(c) ==
    [id |-> c.id, value |-> c.value, commits |-> Commitment(c.conf, <<c.asset, c.value>>),
     issuance |-> NoIssuance]

\* What a transaction shows of a PSET input and output, and what a signature
\* with this sighash flag on input i covers.
TxIn(in) == [id |-> in.id, value |-> in.value, commits |-> Commitment(in.conf, in.opens),
             issuance |-> in.issuance]
TxOut(o) == [asset |-> IF Blinded(o) THEN o.opens[1] ELSE o.asset,
             value |-> IF Blinded(o) THEN o.opens[2] ELSE o.value,
             to |-> o.to, key |-> o.key]

UnsignedTx(p) == [ins |-> [i \in DOMAIN p.ins |-> TxIn(p.ins[i])],
                  outs |-> [i \in DOMAIN p.outs |-> TxOut(p.outs[i])]]

SighashData(tx, i, flag) ==
    IF flag = "ALL" THEN [ins |-> tx.ins, outs |-> tx.outs]
    ELSE [ins |-> <<tx.ins[i]>>,
          outs |-> IF i \in DOMAIN tx.outs THEN <<tx.outs[i]>> ELSE <<>>]

Signature(tx, i, flag, owner) ==
    [flag |-> flag, by |-> owner, over |-> SighashData(tx, i, flag)]

\* verify_p2wpkh_witness: the witness signs this transaction for this script.
WitnessVerifies(tx, i, witness, script) ==
    /\ witness # NoSig
    /\ witness = Signature(tx, i, witness.flag, script)

-----------------------------------------------------------------------------
(* The review (review.rs). *)

Kinds == {"Transfer", "Issuance", "SwapOffer", "SwapTake", "OfferSplit", "Cancel"}

(* Mutant of KindSighash: offers are signed like payments. *)
KindSighashAll(kind) == "ALL"

\* TxKind::sighash.
KindSighash(kind) == IF kind = "SwapOffer" THEN "SINGLE|ANYONECANPAY" ELSE "ALL"

(* Mutant of OutputIsWallet: the derivation is believed. *)
OutputIsWalletClaimed(o) == o.derived

\* output_is_wallet: the derivation must lead to the output's own script.
OutputIsWallet(o) == o.derived /\ o.to = Wallet

\* A derivation that is not ours is refused, not taken for a foreign input.
InputIsWallet(in) == in.derived /\ in.script = Wallet

\* The explicit claim about a commitment is what it opens to.
InputProofsVerify(in) == in.opens = <<in.asset, in.value>>
OutputProofsVerify(o) == o.opens = <<o.asset, o.value>>

ExplicitIssuance(issuance) ==
    issuance.amount \in 1..MaxMoney /\ issuance.tokens \in 0..MaxMoney

\* The input loop of analyze: claims match proofs, wallet inputs are ours and
\* unsigned with the kind's sighash, others are finished maker inputs.
InputAccepted(p, i, kind) ==
    LET in == p.ins[i] IN
    /\ in.conf => InputProofsVerify(in)
    /\ in.value \in 1..MaxMoney
    /\ IF in.derived
       THEN /\ InputIsWallet(in)
            /\ in.witness = NoSig
            /\ in.sighash = KindSighash(kind)
       ELSE /\ kind = "SwapTake"
            /\ in.sighash = "none"
            /\ in.witness # NoSig
    /\ in.issuance # NoIssuance =>
         /\ kind = "Issuance" /\ i = 1 /\ in.derived
         /\ ExplicitIssuance(in.issuance)

\* unblind_wallet_output: only what is blinded to the wallet's key unblinds.
Unblinds(o) == o.key = Wallet

\* The output loop of analyze: the fee is explicit, last and in the policy
\* asset, and blinded change unblinds with the wallet's key.
OutputAccepted(p, i) ==
    LET o == p.outs[i] IN
    /\ o.value \in 1..MaxMoney
    /\ Blinded(o) => /\ OutputProofsVerify(o)
                     /\ o.to # Fee
                     /\ OutputIsWallet(o) => Unblinds(o)
    /\ o.to = Fee => o.asset = Policy /\ i = Len(p.outs)

\* What the inputs bring in, an issuance's asset and token included.
Issued(in, a) ==
      (IF a = IssuanceIds(in.id).asset THEN in.issuance.amount ELSE 0)
    + (IF a = IssuanceIds(in.id).token THEN in.issuance.tokens ELSE 0)

Brought(p, a) ==
    Total(p.ins, a) + SumFunction([i \in DOMAIN p.ins |-> Issued(p.ins[i], a)])

AssetsOf(p) ==
    {p.ins[i].asset : i \in DOMAIN p.ins} \cup {p.outs[i].asset : i \in DOMAIN p.outs}
    \cup UNION {{IssuanceIds(p.ins[i].id).asset, IssuanceIds(p.ins[i].id).token} :
                    i \in DOMAIN p.ins}

Conserved(p) == \A a \in AssetsOf(p) : Brought(p, a) = Total(p.outs, a)

\* verify_tx_amt_proofs: blinders of confidential inputs go into some output.
CommitmentsBalance(p) ==
    /\ Conserved(p)
    /\ AnyConfidential(p.ins) => \E i \in DOMAIN p.outs : Blinded(p.outs[i])

FeeOutputs(p) == {i \in DOMAIN p.outs : p.outs[i].to = Fee}
External(p) == {i \in DOMAIN p.outs : p.outs[i].to # Fee /\ ~OutputIsWallet(p.outs[i])}

\* The per-kind rules that end analyze.
KindAccepted(p, kind) ==
    LET foreign == Cardinality({i \in DOMAIN p.ins : ~p.ins[i].derived})
        issues == \E i \in DOMAIN p.ins : p.ins[i].issuance # NoIssuance
    IN  /\ foreign < Len(p.ins)
        /\ kind = "Transfer" => External(p) # {} /\ ~issues
        /\ kind \in {"OfferSplit", "Cancel"} => External(p) = {} /\ ~issues
        /\ kind = "Issuance" => issues
        /\ kind = "SwapOffer" =>
             /\ Len(p.ins) = 1 /\ Len(p.outs) = 1 /\ foreign = 0
             /\ FeeOutputs(p) = {} /\ External(p) = {}
             /\ p.ins[1].asset # p.outs[1].asset
        /\ kind = "SwapTake" =>
             /\ foreign > 0 /\ ~issues
             /\ \A i \in 1..foreign : ~p.ins[i].derived
             /\ Len(p.outs) > foreign
             /\ \A i \in 1..foreign :
                  /\ ~p.outs[i].derived /\ p.outs[i].to # Fee
                  /\ WitnessVerifies(UnsignedTx(p), i, p.ins[i].witness, p.ins[i].script)
                  /\ p.ins[i].witness.flag = "SINGLE|ANYONECANPAY"

FeeOf(p) == SumFunctionOnSet(Values(p.outs), FeeOutputs(p))

WalletIns(p, a) == {i \in DOMAIN p.ins : p.ins[i].derived /\ p.ins[i].asset = a}
WalletOuts(p, a) == {i \in DOMAIN p.outs : OutputIsWallet(p.outs[i]) /\ p.outs[i].asset = a}

(* Mutant of BalanceChange: the fee is not added back. *)
BalanceChangeWithFee(p, a) ==
      SumFunctionOnSet(Values(p.outs), WalletOuts(p, a))
    - SumFunctionOnSet(Values(p.ins), WalletIns(p, a))

\* Net effect on the wallet per asset, the fee it pays added back.
BalanceChange(p, a) ==
      SumFunctionOnSet(Values(p.outs), WalletOuts(p, a))
    - SumFunctionOnSet(Values(p.ins), WalletIns(p, a))
    + (IF a = Policy THEN FeeOf(p) ELSE 0)

TxReview(p, kind) ==
    [kind |-> kind, genesis |-> p.genesis,
     changes |-> [a \in {b \in AssetsOf(p) : BalanceChange(p, b) # 0} |-> BalanceChange(p, a)],
     fee |-> FeeOf(p),
     external |-> [i \in External(p) |-> TxOut(p.outs[i])],
     signs |-> {p.ins[i].id : i \in {j \in DOMAIN p.ins : p.ins[j].derived}},
     foreign |-> {p.ins[i].id : i \in {j \in DOMAIN p.ins : ~p.ins[j].derived}},
     issuance |-> p.ins[1].issuance,
     confidential |-> Confidential(p)]

Analyze(p, kind) ==
    IF p.genesis # Genesis \/ p.ins = <<>> \/ p.outs = <<>> THEN Failure("InvalidPset")
    ELSE IF Confidential(p) /\ kind \in {"SwapOffer", "SwapTake"}
    THEN Failure("Confidential")
    ELSE IF Len(p.ins) > MaxPsetItems \/ Len(p.outs) > MaxPsetItems
    THEN Failure("TooManyItems")
    ELSE IF Cardinality({p.ins[i].id : i \in DOMAIN p.ins}) < Len(p.ins)
    THEN Failure("DuplicateUtxo")
    ELSE IF /\ \A i \in DOMAIN p.ins : InputAccepted(p, i, kind)
            /\ \A i \in DOMAIN p.outs : OutputAccepted(p, i)
            /\ Confidential(p) => CommitmentsBalance(p)
            /\ kind # "SwapOffer" => Cardinality(FeeOutputs(p)) = 1 /\ Conserved(p)
            /\ KindAccepted(p, kind)
    THEN [ok |-> TRUE, review |-> TxReview(p, kind)]
    ELSE Failure("InvalidPset")

\* review_commitment: what the user approves is this pair.
ReviewCommitment(p, review) == <<p, review>>

\* review_pset, and the last lines of finish.
ReviewPset(p, kind) ==
    LET analysis == Analyze(p, kind) IN
    IF ~analysis.ok THEN analysis
    ELSE [ok |-> TRUE, pset |-> p, review |-> analysis.review,
          hash |-> ReviewCommitment(p, analysis.review)]

\* finish: only transactions the wallet funds alone may blind outputs.
Finish(ins, outs, kind, funded) ==
    LET p == [genesis |-> Genesis, ins |-> ins, outs |-> outs] IN
    IF (\E i \in DOMAIN outs : Blinded(outs[i])) /\ funded # Len(ins)
    THEN Failure("InvalidPset")
    ELSE ReviewPset(p, kind)

-----------------------------------------------------------------------------
(* Requests (build.rs). *)

AmountAccepted(amount) == amount \in 1..MaxMoney

\* parse_and_verify_utxo.
UtxoAccepted(c) == c.value \in 1..MaxMoney /\ c.owner = Wallet

UtxosAccepted(coins) ==
    Cardinality(coins) <= MaxRequestItems /\ \A c \in coins : UtxoAccepted(c)

\* parse_recipient: a confidential address brings a blinding key.
Recipient(asset, amount, key) == PsetOutput(asset, amount, "recipient", FALSE, key)

Shape(foreign, issuance, fixed, blinded) ==
    [foreign |-> foreign, issuance |-> issuance, fixed |-> fixed, blinded |-> blinded]

PrepareTransfer(coins, asset, amount, key, rate) ==
    LET funding == Fund(<<>>, coins, Only(asset, amount),
                        Shape(0, FALSE, 1, IF key = "none" THEN 0 ELSE 1), rate)
    IN  IF ~AmountAccepted(amount) \/ ~UtxosAccepted(coins) THEN Failure("InvalidRequest")
        ELSE IF ~funding.ok THEN funding
        ELSE Finish(WalletInputs(funding.inputs),
                    <<Recipient(asset, amount, key)>> \o ChangesAndFee(funding),
                    "Transfer", Len(funding.inputs))

PrepareIssuance(coins, amount, tokens, rate) ==
    LET funding == Fund(<<>>, coins, <<>>,
                        Shape(0, TRUE, IF tokens > 0 THEN 2 ELSE 1, 0), rate)
        issuer == funding.inputs[1].id
        ins == [WalletInputs(funding.inputs) EXCEPT
                  ![1].issuance = [amount |-> amount, tokens |-> tokens]]
        issued == <<WalletOutput(IssuanceIds(issuer).asset, amount, FALSE)>>
        token == IF tokens > 0 THEN <<WalletOutput(IssuanceIds(issuer).token, tokens, FALSE)>>
                 ELSE <<>>
    IN  IF ~AmountAccepted(amount) \/ tokens > MaxMoney \/ ~UtxosAccepted(coins)
        THEN Failure("InvalidRequest")
        ELSE IF ~funding.ok THEN funding
        ELSE Finish(ins, issued \o token \o ChangesAndFee(funding),
                    "Issuance", Len(funding.inputs))

PrepareOfferSplit(coins, asset, amount, rate) ==
    LET funding == Fund(<<>>, coins, Only(asset, amount), Shape(0, FALSE, 1, 0), rate)
    IN  IF ~AmountAccepted(amount) \/ ~UtxosAccepted(coins) THEN Failure("InvalidRequest")
        ELSE IF ~funding.ok THEN funding
        ELSE Finish(WalletInputs(funding.inputs),
                    <<WalletOutput(asset, amount, FALSE)>> \o ChangesAndFee(funding),
                    "OfferSplit", Len(funding.inputs))

PrepareSwapOffer(coin, want, amount) ==
    IF ~AmountAccepted(amount) \/ ~UtxoAccepted(coin) \/ coin.asset = want
    THEN Failure("InvalidRequest")
    ELSE IF coin.conf THEN Failure("Confidential")
    ELSE Finish(<<WalletInput(coin, KindSighash("SwapOffer"))>>,
                <<WalletOutput(want, amount, FALSE)>>, "SwapOffer", 0)

PrepareCancel(coin, others, rate) ==
    LET funding == Fund(<<coin>>, others, <<>>, Shape(0, FALSE, 0, 0), rate)
    IN  IF ~UtxoAccepted(coin) \/ ~UtxosAccepted(others) THEN Failure("InvalidRequest")
        ELSE IF ~funding.ok THEN funding
        ELSE IF funding.changes = <<>> THEN Failure("InsufficientFunds")
        ELSE Finish(WalletInputs(funding.inputs), ChangesAndFee(funding),
                    "Cancel", Len(funding.inputs))

-----------------------------------------------------------------------------
(* Swap offers (offer.rs, sign.rs, build.rs). *)

\* verify_offer: the offer is what the fetched funding output and the maker's
\* signature over the single output say it is.
OfferVerifies(offer, coin) ==
    LET tx == [ins |-> <<SpentCoin(coin)>>, outs |-> <<offer.out>>]
    IN  /\ offer.genesis = Genesis
        /\ offer.id = coin.id
        /\ ~coin.conf /\ coin.value > 0
        /\ offer.out.key = "none" /\ offer.out.value > 0 /\ offer.out.to # Fee
        /\ coin.asset # offer.out.asset
        /\ WitnessVerifies(tx, 1, offer.sig, coin.owner)
        /\ offer.sig.flag = "SINGLE|ANYONECANPAY"
        /\ offer.give = [asset |-> coin.asset, amount |-> coin.value]
        /\ offer.want = [asset |-> offer.out.asset, amount |-> offer.out.value]

MakerInput(offer, coin) ==
    [id |-> coin.id, asset |-> coin.asset, value |-> coin.value, conf |-> FALSE,
     opens |-> <<coin.asset, coin.value>>, script |-> coin.owner, derived |-> FALSE,
     sighash |-> "none", witness |-> offer.sig, issuance |-> NoIssuance]

MakerOutput(offer) ==
    PsetOutput(offer.out.asset, offer.out.value, offer.out.to, FALSE, offer.out.key)

\* Amounts per asset of what all the offers want, or give.
LegSums(legs) ==
    [a \in {legs[i].asset : i \in DOMAIN legs} |->
        SumFunctionOnSet([i \in DOMAIN legs |-> legs[i].amount],
                         {i \in DOMAIN legs : legs[i].asset = a})]

\* take_swap_offers: makers' inputs and outputs first and paired; the wallet's
\* confidential coins are left out.  offers is a sequence of offers, fetched the
\* coin each of them spends, as found in its funding transaction.
TakeSwapOffers(offers, fetched, coins, rate) ==
    LET ids == {offers[i].id : i \in DOMAIN offers}
        mine == {c \in coins : c.id \notin ids}
        needs == LegSums([i \in DOMAIN offers |-> offers[i].want])
        receives == LegSums([i \in DOMAIN offers |-> offers[i].give])
        assets == Sorted(DOMAIN receives)
        funding == Fund(<<>>, {c \in mine : ~c.conf}, needs,
                        Shape(Len(offers), FALSE, Len(offers) + Len(assets), 0), rate)
        makers == [i \in DOMAIN offers |-> MakerInput(offers[i], fetched[i])]
        paid == [i \in DOMAIN offers |-> MakerOutput(offers[i])]
        received == [i \in DOMAIN assets |->
                        WalletOutput(assets[i], receives[assets[i]], FALSE)]
    IN  IF offers = <<>> \/ Len(offers) > MaxRequestItems \/ ~UtxosAccepted(coins)
        THEN Failure("InvalidRequest")
        ELSE IF \/ \E i \in DOMAIN offers : ~OfferVerifies(offers[i], fetched[i])
                \/ Cardinality(ids) < Len(offers)
        THEN Failure("Offer")
        ELSE IF \E v \in Range(needs) \cup Range(receives) : v > MaxMoney
        THEN Failure("AmountOverflow")
        ELSE IF ~funding.ok
        THEN IF funding.error = "InsufficientFunds" /\ \E c \in mine : c.conf
             THEN Failure("Confidential") ELSE funding
        ELSE Finish(makers \o WalletInputs(funding.inputs),
                    paid \o received \o ChangesAndFee(funding), "SwapTake", 0)

-----------------------------------------------------------------------------
(* Signing (sign.rs). *)

\* Wallet inputs are signed with the kind's sighash, maker witnesses are kept.
Finalized(p, kind) ==
    LET tx == UnsignedTx(p) IN
    [ins |-> tx.ins, outs |-> tx.outs,
     witness |-> [i \in DOMAIN p.ins |->
                    IF p.ins[i].derived
                    THEN Signature(tx, i, KindSighash(kind), Wallet)
                    ELSE p.ins[i].witness]]

\* validate_final_transaction: each witness verifies with the expected flag,
\* and a maker's is the one that was reviewed.
FinalAccepted(p, tx, kind) ==
    \A i \in DOMAIN p.ins :
        /\ WitnessVerifies(tx, i, tx.witness[i], p.ins[i].script)
        /\ IF p.ins[i].derived
           THEN tx.witness[i].flag = KindSighash(kind)
           ELSE /\ tx.witness[i] = p.ins[i].witness
                /\ tx.witness[i].flag = "SINGLE|ANYONECANPAY"

\* sign_prepared: everything is recomputed from the PSET, and the approval must
\* be of this very PSET and review.
SignPrepared(bundle, approved) ==
    LET kind == bundle.review.kind
        analysis == Analyze(bundle.pset, kind)
        hash == ReviewCommitment(bundle.pset, analysis.review)
        tx == Finalized(bundle.pset, kind)
    IN  IF ~analysis.ok THEN analysis
        ELSE IF analysis.review # bundle.review THEN Failure("ReviewMismatch")
        ELSE IF hash # bundle.hash \/ hash # approved THEN Failure("ApprovalMismatch")
        ELSE IF ~FinalAccepted(bundle.pset, tx, kind) THEN Failure("FinalTransaction")
        ELSE [ok |-> TRUE, tx |-> tx]

\* The offer a signed swap offer is published as.
OfferOf(p, tx) ==
    [genesis |-> Genesis, id |-> tx.ins[1].id, out |-> tx.outs[1], sig |-> tx.witness[1],
     give |-> [asset |-> p.ins[1].asset, amount |-> p.ins[1].value],
     want |-> [asset |-> tx.outs[1].asset, amount |-> tx.outs[1].value]]

=============================================================================
