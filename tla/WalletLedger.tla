----------------------------- MODULE WalletLedger -----------------------------
(***************************************************************************)
(* One wallet at work on a ledger: requests are built by the wallet core,  *)
(* the prepared bundle is shown to the user, may be replaced or altered on *)
(* its way, is approved, signed, and later mined, while makers' offers are *)
(* taken and the wallet's own offers are filled by others.  The swap       *)
(* request checks a DEX server's quote (rust/wallet-cli wallet.rs).        *)
(*                                                                         *)
(* coins     every output the ledger ever had                              *)
(* spent     ids of the spent ones                                         *)
(* bundle    the request in progress, the coins it could use, and its      *)
(*           prepared transaction or error                                 *)
(* approved  the review hash the user approved, with the review on screen  *)
(* signed    signed transactions not yet mined, with the approved review   *)
(*           and the PSET                                                  *)
(* offers    the wallet's signed offers, open as long as the coin is       *)
(*           unspent                                                       *)
(* owed      what the approved reviews and filled offers of mined          *)
(*           transactions say the wallet has of each asset                 *)
(* mined     number of mined transactions                                  *)
(* misled    (history) the wallet has signed a PSET that gave one of its    *)
(*           inputs a false asset                                          *)
(***************************************************************************)
EXTENDS WalletCore

CONSTANTS Wallets,      \* initial coins of the wallet: a set of sets of coins
          MakerCoins,   \* coins of the makers
          Market,       \* offers the DEX server may show, good and bad
          Amounts,      \* amounts a request may name, per asset
          Rates,        \* fee rates a request may name
          MaxBps,       \* slippage limits a swap may name
          ImpactRange,  \* the 2^64 values of price_impact_bps
          MaxTxs,       \* bound on mined transactions
          MaxSigned,    \* bound on signed transactions not yet mined
          MaxOffers,    \* bound on the wallet's open offers
          Edits(_),     \* what may be found in the place of a stored bundle
          AlterTwice,   \* bound: whether a bundle is altered more than once
          AlterUntil    \* bound on what is signed, offered and mined meanwhile

VARIABLES coins, spent, bundle, approved, signed, offers, owed, mined, misled
vars == <<coins, spent, bundle, approved, signed, offers, owed, mined, misled>>

\* ids grow by at most Slots per mined transaction.
Slots == MaxPsetItems
Assets == 0..(2 * (Slots * (MaxTxs + 1) + Slots) + 3)

\* The wallet's coins and the makers' are told apart by owner and id, and the
\* makers cannot sign for the wallet.
ASSUME LedgerAssumption ==
    /\ MaxTxs \in Nat /\ MaxPsetItems > 1
    /\ IsFiniteSet(MakerCoins) /\ \A c \in MakerCoins : c.owner # Wallet
    /\ \A w \in Wallets :
         /\ IsFiniteSet(w) /\ \A c \in w : c.owner = Wallet
         /\ \A c \in w \cup MakerCoins :
              /\ c.id \in 1..(2 * Slots) /\ c.asset \in Assets
              /\ c.value \in 1..MaxMoney /\ c.conf \in BOOLEAN
         /\ \A c, d \in w \cup MakerCoins : c.id = d.id => c = d
    /\ \A o \in Market : /\ o.sig.by # Wallet
                           /\ o.out.value \in Nat /\ o.out.asset \in Assets
                           /\ o.out = [asset |-> o.out.asset, value |-> o.out.value,
                                       to |-> o.out.to, key |-> o.out.key]
    /\ MaxBps \subseteq Nat /\ ImpactRange \in Nat \ {0}

NoBundle == [req |-> [op |-> "none"], from |-> {}, res |-> Failure("none"),
             altered |-> FALSE]
NoApproval == [hash |-> <<>>, review |-> <<>>]

Unspent == {c \in coins : c.id \notin spent}
Exists(id) == \E c \in coins : c.id = id
CoinAt(id) == CHOOSE c \in coins : c.id = id
Worth(S) == SumFunction([c \in S |-> c.value])
Balance(a) == Worth({c \in Unspent : c.owner = Wallet /\ c.asset = a})

\* spendable: verified coins without those of open offers.
Spendable == {c \in Unspent : c.owner = Wallet /\ c.id \notin {o.id : o \in offers}}

Init ==
    /\ \E w \in Wallets :
         /\ coins = w \cup MakerCoins
         /\ owed = [a \in Assets |-> Worth({c \in w : c.asset = a})]
    /\ spent = {} /\ signed = {} /\ offers = {} /\ mined = 0
    /\ bundle = NoBundle /\ approved = NoApproval /\ misled = FALSE

-----------------------------------------------------------------------------
(* Requests. *)

Start(req, res) ==
    /\ bundle = NoBundle /\ mined < MaxTxs
    /\ Cardinality(signed) < MaxSigned
    /\ bundle' = [req |-> req, from |-> Spendable, res |-> res, altered |-> FALSE]
    /\ UNCHANGED <<coins, spent, approved, signed, offers, owed, mined, misled>>

Transfer(asset, amount, key, rate) ==
    Start([op |-> "transfer", asset |-> asset, amount |-> amount, key |-> key, rate |-> rate],
          PrepareTransfer(Spendable, asset, amount, key, rate))

Issue(amount, tokens, rate) ==
    Start([op |-> "issue", amount |-> amount, tokens |-> tokens, rate |-> rate],
          PrepareIssuance(Spendable, amount, tokens, rate))

Split(asset, amount, rate) ==
    Start([op |-> "split", asset |-> asset, amount |-> amount, rate |-> rate],
          PrepareOfferSplit(Spendable, asset, amount, rate))

MakeOffer(coin, want, amount) ==
    /\ Cardinality({o \in offers : o.id \notin spent}) < MaxOffers
    /\ Start([op |-> "offer", coin |-> coin, want |-> want, amount |-> amount],
             PrepareSwapOffer(coin, want, amount))

\* offer_cancel: any unspent wallet coin, paid for by the other policy coins.
Cancel(coin, rate) ==
    Start([op |-> "cancel", coin |-> coin, rate |-> rate],
          PrepareCancel(coin, {c \in Spendable : c.asset = Policy /\ c # coin}, rate))

\* What the offers of a quote want and give in all.
Wanted(s) == SumFunction([i \in DOMAIN s |-> s[i].want.amount])
Given(s) == SumFunction([i \in DOMAIN s |-> s[i].give.amount])

(* Mutant of Impact: the average is measured against the worst offer. *)
ImpactOfWorst(s) ==
    LET best == CHOOSE i \in DOMAIN s : \A j \in DOMAIN s :
                    s[i].want.amount * s[j].give.amount >= s[j].want.amount * s[i].give.amount
        average == Wanted(s) * s[best].give.amount
        bestNum == s[best].want.amount * Given(s)
    IN  IF s = <<>> \/ average <= bestNum THEN 0
        ELSE (((average - bestNum) * 10000) \div bestNum) % ImpactRange

\* The offer of a quote with the best price.
BestOffer(s) ==
    CHOOSE i \in DOMAIN s : \A j \in DOMAIN s :
        s[i].want.amount * s[j].give.amount <= s[j].want.amount * s[i].give.amount

\* Price impact in basis points: the average price against the best offer's,
\* cast from 128 bits to the 64 it is kept in.
Impact(s) ==
    LET best == s[BestOffer(s)]
        average == Wanted(s) * best.give.amount
        bestNum == best.want.amount * Given(s)
    IN  IF s = <<>> \/ average <= bestNum THEN 0
        ELSE (((average - bestNum) * 10000) \div bestNum) % ImpactRange

\* verified_quote: nothing the server says is believed.
QuoteVerifies(quote, sell, buy, amount, side) ==
    LET s == quote.offers
        sold == Wanted(s)
        bought == Given(s)
    IN  /\ \A i \in DOMAIN s : /\ Exists(s[i].id) /\ OfferVerifies(s[i], CoinAt(s[i].id))
                               /\ s[i].give.asset = buy /\ s[i].want.asset = sell
        /\ Cardinality({s[i].id : i \in DOMAIN s}) = Len(s)
        /\ quote.sell = sold /\ quote.buy = bought
        /\ (IF side = "exact_out" THEN bought ELSE sold) <= amount

\* swap: the verified quote, the slippage limit, the spent check, then the take.
PrepareSwap(quote, sell, buy, amount, side, maxBps, rate) ==
    IF ~QuoteVerifies(quote, sell, buy, amount, side) THEN Failure("Quote")
    ELSE IF quote.offers = <<>> \/ Impact(quote.offers) > maxBps THEN Failure("Quote")
    ELSE IF \E i \in DOMAIN quote.offers : quote.offers[i].id \in spent
    THEN Failure("Spent")
    ELSE TakeSwapOffers(quote.offers,
                        [i \in DOMAIN quote.offers |-> CoinAt(quote.offers[i].id)],
                        Spendable, rate)

\* (A refused quote leaves nothing worth remembering.)
Swap(quote, sell, buy, amount, side, maxBps, rate) ==
    LET res == PrepareSwap(quote, sell, buy, amount, side, maxBps, rate)
        req == [op |-> "swap", quote |-> quote, sell |-> sell, buy |-> buy,
                amount |-> amount, side |-> side, maxBps |-> maxBps, rate |-> rate]
    IN  Start(IF res.ok THEN req ELSE [op |-> "swap"], res)

\* Quotes a DEX server may answer with: any known offers, totals right or wrong.
Quotes ==
    LET known == Market \cup offers
        totals(s, lie) == [offers |-> s, sell |-> Wanted(s) + lie,
                           buy |-> Given(s)]
    IN  {totals(s, 0) : s \in {<<>>} \cup {<<o>> : o \in known}
                                     \cup {<<o, q>> : o, q \in known}}
        \cup {totals(<<o>>, 1) : o \in Market}

-----------------------------------------------------------------------------
(* From the prepared bundle to the signature. *)

Discard ==
    /\ bundle # NoBundle
    /\ bundle' = NoBundle /\ approved' = NoApproval
    /\ UNCHANGED <<coins, spent, signed, offers, owed, mined, misled>>

\* What is approved is recomputed from the PSET, and a bundle whose stored
\* review or hash differs is not offered for approval.
Approve ==
    LET kind == bundle.res.review.kind
        shown == ReviewPset(bundle.res.pset, kind)
    IN  /\ bundle.res.ok /\ approved = NoApproval
        /\ shown = bundle.res
        /\ approved' = [hash |-> shown.hash, review |-> shown.review]
        /\ UNCHANGED <<coins, spent, bundle, signed, offers, owed, mined, misled>>

\* What can be in the place of a stored bundle: any PSET that names outputs of the
\* ledger (an outpoint is a hash) and holds no signature of the wallet other than
\* those it made, with any review and any hash.
Storable(b) ==
    LET p == b.pset IN
    /\ b = [ok |-> TRUE, pset |-> p, review |-> b.review, hash |-> b.hash]
    /\ p = [genesis |-> p.genesis, ins |-> p.ins, outs |-> p.outs]
    /\ p.ins \in Seq(Range(p.ins)) /\ p.outs \in Seq(Range(p.outs)) /\ p.ins # <<>>
    /\ \A in \in Range(p.ins) :
         /\ in = [id |-> in.id, asset |-> in.asset, value |-> in.value, conf |-> in.conf,
                  opens |-> in.opens, script |-> in.script, derived |-> in.derived,
                  sighash |-> in.sighash, witness |-> in.witness, issuance |-> in.issuance]
         /\ Exists(in.id) /\ in.asset \in Assets
         /\ in.witness.by = Wallet /\ in.witness.flag = "SINGLE|ANYONECANPAY" =>
              \E o \in offers : in.witness = o.sig
    /\ \A o \in Range(p.outs) :
         /\ o = [asset |-> o.asset, value |-> o.value, to |-> o.to, derived |-> o.derived,
                 key |-> o.key, opens |-> o.opens]
         /\ o.asset \in Assets

\* bound: how often, and how late in its life, the wallet is given altered bundles.
AlterBound ==
    /\ bundle.altered => AlterTwice
    /\ mined + Cardinality(signed) + Cardinality(offers) <= AlterUntil

Alter ==
    /\ bundle.res.ok /\ AlterBound
    /\ \E b \in Edits(bundle.res) :
         /\ Storable(b)
         /\ bundle' = [bundle EXCEPT !.res = b, !.altered = TRUE]
    /\ UNCHANGED <<coins, spent, approved, signed, offers, owed, mined, misled>>

\* review_pset: the altered PSET gets the review and hash that belong to it.
Rereview ==
    /\ bundle.res.ok /\ bundle.altered
    /\ \E kind \in Kinds :
         LET r == ReviewPset(bundle.res.pset, kind) IN
         /\ r # bundle.res
         /\ bundle' = [bundle EXCEPT !.res = r]
    /\ UNCHANGED <<coins, spent, approved, signed, offers, owed, mined, misled>>

\* A PSET gives an input that it says is the wallet's another asset than the coin
\* it names has.
Misnames(p) ==
    \E i \in DOMAIN p.ins :
        p.ins[i].script = Wallet /\ p.ins[i].asset # CoinAt(p.ins[i].id).asset

Sign ==
    LET r == SignPrepared(bundle.res, approved.hash) IN
    /\ bundle.res.ok /\ approved # NoApproval
    /\ bundle' = NoBundle /\ approved' = NoApproval
    /\ IF ~r.ok THEN UNCHANGED <<signed, offers>>
       ELSE IF bundle.res.review.kind = "SwapOffer"
       THEN /\ offers' = offers \cup {OfferOf(bundle.res.pset, r.tx)}
            /\ UNCHANGED signed
       ELSE /\ signed' = signed \cup {[tx |-> r.tx, review |-> approved.review,
                                       pset |-> bundle.res.pset, altered |-> bundle.altered]}
            /\ UNCHANGED offers
    /\ misled' = (misled \/ (r.ok /\ Misnames(bundle.res.pset)))
    /\ UNCHANGED <<coins, spent, owed, mined>>

-----------------------------------------------------------------------------
(* The ledger. *)

\* Consensus: unspent inputs signed by their owners, every asset balanced with
\* the coins' true contents, blinders balanced.
Accepts(tx) ==
    LET c(i) == CoinAt(tx.ins[i].id)
        actual == [ins |-> [i \in DOMAIN tx.ins |->
                              [id |-> c(i).id, asset |-> c(i).asset, value |-> c(i).value,
                               conf |-> c(i).conf, issuance |-> tx.ins[i].issuance]],
                   outs |-> tx.outs]
    IN  /\ \A i \in DOMAIN tx.ins :
             /\ Exists(tx.ins[i].id) /\ c(i) \in Unspent
             /\ tx.ins[i] = [SpentCoin(c(i)) EXCEPT !.issuance = tx.ins[i].issuance]
             /\ WitnessVerifies(tx, i, tx.witness[i], c(i).owner)
        /\ \A i, j \in DOMAIN tx.ins : i # j => tx.ins[i].id # tx.ins[j].id
        /\ \A i \in DOMAIN tx.outs : tx.outs[i].value > 0
        /\ CommitmentsBalance(actual)

(* Mutant of Created: outpoints repeat from one transaction to the next. *)
CreatedSameIds(tx) ==
    {[id |-> 2 * Slots + i, asset |-> tx.outs[i].asset, value |-> tx.outs[i].value,
      conf |-> tx.outs[i].key # "none", owner |-> tx.outs[i].to] :
        i \in {j \in DOMAIN tx.outs : tx.outs[j].to # Fee}}

\* The coins a transaction creates; wallet scripts blinded to another key are lost.
Created(tx) ==
    {[id |-> Slots * (mined + 2) + i, asset |-> tx.outs[i].asset, value |-> tx.outs[i].value,
      conf |-> tx.outs[i].key # "none",
      owner |-> IF tx.outs[i].to = Wallet /\ tx.outs[i].key \notin {"none", Wallet}
                THEN "lost" ELSE tx.outs[i].to] :
        i \in {j \in DOMAIN tx.outs : tx.outs[j].to # Fee}}

\* What the wallet's own offers among the inputs of tx promised of asset a.
FromOffers(tx, a) ==
    SumFunctionOnSet([o \in offers |-> (IF o.want.asset = a THEN o.want.amount ELSE 0)
                                      - (IF o.give.asset = a THEN o.give.amount ELSE 0)],
                     {o \in offers : \E i \in DOMAIN tx.ins : tx.witness[i] = o.sig})

FromReview(review, a) ==
    NeedOf(review.changes, a) - (IF a = Policy THEN review.fee ELSE 0)

\* A transaction is mined; review is what the wallet was shown of it.
Apply(tx, review) ==
    /\ coins' = coins \cup Created(tx)
    /\ spent' = spent \cup {tx.ins[i].id : i \in DOMAIN tx.ins}
    /\ owed' = [a \in Assets |-> owed[a] + FromReview(review, a) + FromOffers(tx, a)]
    /\ mined' = mined + 1

Mine(s) ==
    /\ mined < MaxTxs /\ Accepts(s.tx)
    /\ Apply(s.tx, s.review)
    /\ signed' = signed \ {s}
    /\ UNCHANGED <<bundle, approved, offers, misled>>

\* Someone with just the wanted amount completes one of the wallet's offers.
TakerCoin(offer) ==
    [id |-> 0, asset |-> offer.want.asset, value |-> offer.want.amount,
     conf |-> FALSE, owner |-> "taker"]

Completion(offer) ==
    LET given == [id |-> offer.id, asset |-> offer.give.asset, value |-> offer.give.amount,
                  conf |-> FALSE]
        ins == <<SpentCoin(given), SpentCoin(TakerCoin(offer))>>
        outs == <<offer.out, [asset |-> offer.give.asset, value |-> offer.give.amount,
                              to |-> "taker", key |-> "none"]>>
        tx == [ins |-> ins, outs |-> outs]
    IN  [ins |-> ins, outs |-> outs,
         witness |-> <<offer.sig, Signature(tx, 2, "ALL", "taker")>>]

\* The ledger's verdict on the completion, the taker's own coin being good.
Completes(offer) ==
    LET c == CoinAt(offer.id) IN
    /\ Exists(offer.id) /\ c \in Unspent
    /\ ~c.conf /\ c.asset = offer.give.asset /\ c.value = offer.give.amount
    /\ WitnessVerifies(Completion(offer), 1, offer.sig, c.owner)

Fill(offer) ==
    /\ mined < MaxTxs /\ Completes(offer)
    /\ Apply(Completion(offer), [changes |-> <<>>, fee |-> 0])
    /\ UNCHANGED <<bundle, approved, signed, offers, misled>>

-----------------------------------------------------------------------------

Request ==
    \/ \E a \in {0, 1}, key \in {"none", "recipient"}, r \in Rates :
         \E n \in Amounts[a] : Transfer(a, n, key, r)
    \/ \E n \in Amounts[1], t \in {0, 1}, r \in Rates : Issue(n, t, r)
    \/ \E a \in {0, 1}, r \in Rates : \E n \in Amounts[a] : Split(a, n, r)
    \/ \E c \in Spendable, want \in {0, 1} : \E n \in Amounts[want] : MakeOffer(c, want, n)
    \/ \E c \in {d \in Unspent : d.owner = Wallet}, r \in Rates : Cancel(c, r)
    \/ \E sell \in {0, 1}, q \in Quotes, m \in MaxBps, r \in Rates :
         \/ \E n \in Amounts[sell] : Swap(q, sell, 1 - sell, n, "exact_in", m, r)
         \/ \E n \in Amounts[1 - sell] : Swap(q, sell, 1 - sell, n, "exact_out", m, r)

Next ==
    \/ Request
    \/ Approve
    \/ Alter
    \/ Rereview
    \/ Sign
    \/ Discard
    \/ \E s \in signed : Mine(s)
    \/ \E o \in offers : Fill(o)

Spec == Init /\ [][Next]_vars

-----------------------------------------------------------------------------
(* Properties. *)

TypeOK ==
    /\ \A c, d \in coins : c.id = d.id => c = d
    /\ \A c \in coins : c.value \in 1..MaxMoney /\ c.asset \in Assets /\ c.conf \in BOOLEAN
    /\ mined \in 0..MaxTxs
    /\ owed \in [Assets -> Int]
    /\ approved # NoApproval => bundle # NoBundle

Prepared(op) == bundle.req.op = op /\ bundle.res.ok /\ ~bundle.altered

\* Whatever a request selects and assembles (an issuance next to confidential
\* coins, an exact match without change, a cancel paid by another coin, a take
\* of two makers) passes the independent review: build.rs and review.rs agree,
\* and the request never fails after selection with an invalid PSET.
BuildsReview ==
    (~bundle.altered /\ ~bundle.res.ok) =>
        bundle.res.error \notin {"InvalidPset", "DuplicateUtxo"}

\* What the review of a request shows if it shows just what was asked for.
ShowsRequest(req, review) ==
    LET shows(changes, payees) == review.changes = changes /\ review.external = payees
    IN  /\ req.op = "transfer" =>
             shows(Only(req.asset, -req.amount),
                   <<[asset |-> req.asset, value |-> req.amount,
                      to |-> "recipient", key |-> req.key]>>)
        /\ req.op \in {"split", "cancel"} => shows(<<>>, <<>>)
        /\ req.op = "offer" =>
             shows([a \in {req.coin.asset, req.want} |->
                       IF a = req.want THEN req.amount ELSE -req.coin.value], <<>>)
        /\ req.op = "issue" =>
             \E id \in review.signs :
               shows([a \in {IssuanceIds(id).asset}
                             \cup (IF req.tokens = 0 THEN {} ELSE {IssuanceIds(id).token}) |->
                        IF a = IssuanceIds(id).asset THEN req.amount ELSE req.tokens],
                     <<>>)

\* The recomputed review shows what was asked for and nothing else: change and
\* self-sends vanish, a transfer shows one payee, an issuance the new asset.
ReviewExact ==
    bundle.res.ok /\ ~bundle.altered => ShowsRequest(bundle.req, bundle.res.review)

\* The fee pays the requested rate for the transaction as it really came out
\* (blinded outputs, maker inputs and all), and exceeds it by no more than a
\* change output that was not worth making.
FeeFair ==
    LET p == bundle.res.pset
        issues == bundle.req.op = "issue"
        blinded == Cardinality({i \in DOMAIN p.outs : Blinded(p.outs[i])})
        size == Vsize(Len(p.ins), issues, Len(p.outs), blinded)
        withChange == Vsize(Len(p.ins), issues, Len(p.outs) + 1,
                            blinded + IF AnyConfidential(p.ins) THEN 1 ELSE 0)
    IN  \A op \in {"transfer", "split", "issue", "cancel", "swap"} :
          Prepared(op) =>
            /\ bundle.res.review.fee >= bundle.req.rate * size
            /\ bundle.res.review.fee < bundle.req.rate * withChange + Dust

\* Spending confidential coins never shows what is left: all outputs back to
\* the wallet other than those the request wants public are blinded.  Swaps
\* spend no confidential coin at all.
ChangeStaysConfidential ==
    LET p == bundle.res.pset
        public == CASE bundle.req.op = "split" -> {1}
                    [] bundle.req.op = "issue" -> IF bundle.req.tokens > 0 THEN {1, 2} ELSE {1}
                    [] OTHER -> {}
    IN  bundle.res.ok /\ ~bundle.altered =>
          /\ AnyConfidential(p.ins) =>
               \A i \in DOMAIN p.outs \ public : OutputIsWallet(p.outs[i]) => Blinded(p.outs[i])
          /\ bundle.req.op \in {"swap", "offer"} => ~Confidential(p)

\* The greedy selection gives up on a policy payment from explicit coins only
\* when no set of coins pays for the amount and its own fee with change.
SelectionComplete ==
    LET req == bundle.req
        pool == {c \in bundle.from : c.asset = Policy}
    IN  ( /\ req.op = "transfer" /\ req.asset = Policy /\ req.key = "none"
          /\ bundle.res = Failure("InsufficientFunds")
          /\ \A c \in pool : ~c.conf )
        => \A S \in SUBSET pool :
             Worth(S) < req.amount + req.rate * Vsize(Cardinality(S), FALSE, 3, 0)

\* A swap stays within what was asked and shown whatever the server quotes: it
\* trades the pair only, at most the named amount on the named side, and at an
\* average price within the slippage limit of the best offer taken, unless that
\* price exceeds an offer's by more than 64 bits of basis points can hold.
SwapBounded ==
    LET req == bundle.req
        p == bundle.res.pset
        makers == {i \in DOMAIN p.ins : ~p.ins[i].derived}
        sold == -BalanceChange(p, req.sell)
        bought == BalanceChange(p, req.buy)
    IN  Prepared("swap") =>
          /\ bundle.res.review.changes =
               [a \in {req.sell, req.buy} |-> IF a = req.sell THEN -sold ELSE bought]
          /\ sold > 0 /\ bought > 0
          /\ (IF req.side = "exact_in" THEN sold ELSE bought) <= req.amount
          /\ \/ \A i \in makers :
                  sold * p.ins[i].value * 10000
                    < p.outs[i].value * bought * (10000 + req.maxBps + 1)
             \/ \E i \in makers :
                  (sold * p.ins[i].value * 10000) \div (p.outs[i].value * bought)
                    >= 10000 + ImpactRange

\* The offer names its coin rightly: an explicit coin of the wallet.
NamesItsCoin(o) ==
    LET c == CoinAt(o.id)
    IN  /\ c.owner = Wallet /\ ~c.conf
        /\ o.give = [asset |-> c.asset, amount |-> c.value]

\* A signature is worth something: what was prepared from true coins and signed
\* is accepted by the ledger while its coins are unspent, and an offer of a coin
\* that is there verifies for every taker and completes in a transaction it does
\* not know.
SignedIsValid ==
    /\ \A s \in signed :
         (~s.altered /\ \A i \in DOMAIN s.tx.ins : s.tx.ins[i].id \notin spent)
            => Accepts(s.tx)
    /\ \A o \in offers :
         (o.id \notin spent /\ NamesItsCoin(o))
            => OfferVerifies(o, CoinAt(o.id)) /\ Completes(o)

\* Whatever takes the place of a bundle between review, approval and signature,
\* the wallet never ends up with less of any asset than the reviews the user
\* approved and the offers it signed account for; but the asset of an explicit
\* coin is the PSET's word, which neither the review nor the signature compares
\* with the coin (review.rs:290): nothing is claimed once that was false.
NoLoss == ~misled => \A a \in Assets : Balance(a) >= owed[a]

=============================================================================
