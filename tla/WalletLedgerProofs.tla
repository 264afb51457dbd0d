-------------------------- MODULE WalletLedgerProofs --------------------------
(***************************************************************************)
(* Proofs about WalletLedger, for any wallets, makers, offers on the       *)
(* market, quotes, amounts and bounds, from BoundsAssumption,              *)
(* FeesAssumption and LedgerAssumption.                                    *)
(*                                                                         *)
(* What the builder hands out and what the review shows of it (module      *)
(* WalletCoreProofs) is brought together in the bundle of each request     *)
(* (StartBlinds, ...Good).  The invariant adds what the ledger knows:      *)
(* coins are told apart by their ids, whatever takes the place of a bundle *)
(* names coins of the ledger (but may say of them what it likes), what was *)
(* signed had been analyzed, the wallet's offers are signatures over one   *)
(* coin and one output, and as long as the wallet was not misled about the *)
(* asset of an input, what it signed gives its coins their true asset.  No *)
(* loss follows by accounting: what a mined transaction takes from the     *)
(* wallet and what it brings are compared, asset by asset, with what its   *)
(* review and the offers in it said; owner and value of the coins taken    *)
(* are those of the PSET because the ledger would not accept it otherwise. *)
(***************************************************************************)
EXTENDS WalletLedger, WalletCoreProofs

-----------------------------------------------------------------------------
(* Coins, backed PSETs, and the three properties of a bundle: the review     *)
(* shows the request, the fee is fair, the change stays confidential.        *)

(* Every coin the ledger ever had is proper, and ids grow with the ledger.   *)
CoinsTrue ==
    /\ mined \in 0..MaxTxs
    /\ IsFiniteSet(coins)
    /\ \A c \in coins : /\ c.id \in 1..(Slots * (mined + 2)) /\ c.value \in 1..MaxMoney
                        /\ c.asset \in Assets /\ c.conf \in BOOLEAN
    /\ \A c, d \in coins : c.id = d.id => c = d

(* Inputs and outputs, whatever was altered: a record of some asset, which   *)
(* names a coin; a signature that is the wallet's is that of an offer.       *)
BackedInput(in) ==
    /\ in = [id |-> in.id, asset |-> in.asset, value |-> in.value, conf |-> in.conf,
             opens |-> in.opens, script |-> in.script, derived |-> in.derived,
             sighash |-> in.sighash, witness |-> in.witness, issuance |-> in.issuance]
    /\ in.asset \in Assets /\ \E c \in coins : in.id = c.id
    /\ in.witness.by = Wallet /\ in.witness.flag = "SINGLE|ANYONECANPAY" =>
         \E o \in offers : in.witness = o.sig

BackedOutput(o) ==
    /\ o = [asset |-> o.asset, value |-> o.value, to |-> o.to, derived |-> o.derived,
            key |-> o.key, opens |-> o.opens]
    /\ o.asset \in Assets

Backed(p) ==
    /\ p = [genesis |-> p.genesis, ins |-> p.ins, outs |-> p.outs]
    /\ IsSeq(p.ins) /\ Len(p.ins) > 0 /\ IsSeq(p.outs)
    /\ \A i \in 1..Len(p.ins) : BackedInput(p.ins[i])
    /\ \A i \in 1..Len(p.outs) : BackedOutput(p.outs[i])

(* Unaltered, what is said of the coin is true.                              *)
ExactInput(in) ==
    \E c \in coins : /\ in.id = c.id /\ in.asset = c.asset /\ in.value = c.value
                     /\ in.conf = c.conf /\ in.script = c.owner
                     /\ in.opens = <<c.asset, c.value>>

Exact(p) == \A i \in 1..Len(p.ins) : ExactInput(p.ins[i])

(* The assets and ids that the bounds of the model admit.                    *)
LEMMA AssetsAre ==
    /\ Assets \subseteq Nat /\ {0, 1} \subseteq Assets /\ Policy \in Assets
    /\ Slots \in Nat /\ Slots > 1 /\ MaxTxs \in Nat
    /\ \A n \in 0..(MaxTxs - 1) : \A id \in 1..(Slots * (n + 2)) :
         IssuanceIds(id).asset \in Assets /\ IssuanceIds(id).token \in Assets
<1>1. Slots \in Nat /\ Slots > 1 /\ MaxTxs \in Nat
  BY LedgerAssumption, BoundsAssumption DEF Slots
<1>2. PICK m : m = Slots * (MaxTxs + 1)
  OBVIOUS
<1>3. m \in Nat
  BY <1>1, <1>2
<1>4. Assets = 0..(2 * (m + Slots) + 3)
  BY <1>2 DEF Assets
<1>5. ASSUME NEW n \in 0..(MaxTxs - 1), NEW id \in 1..(Slots * (n + 2))
      PROVE  IssuanceIds(id).asset \in Assets /\ IssuanceIds(id).token \in Assets
  <2>1. n + 2 <= MaxTxs + 1 /\ n \in Nat
    BY <1>1
  <2>2. Slots * (n + 2) <= m
    BY <1>1, <1>2, <2>1
  <2>3. id \in Nat /\ id <= m
    BY <1>1, <1>3, <2>1, <2>2
  <2>4. 2 * id + 2 \in Assets /\ 2 * id + 3 \in Assets
    BY ONLY <1>1, <1>3, <1>4, <2>3
  <2> QED BY <2>4 DEF IssuanceIds
<1> QED BY <1>1, <1>3, <1>4, <1>5 DEF Policy

(* A PSET assembled from coins of the ledger names them truthfully.          *)
LEMMA AssembledBacked ==
    ASSUME CoinsTrue, NEW C, NEW p, NEW f, NEW makers, NEW head, Assembled(p, f, makers, head),
           NEW shape, NEW rate, Funded(f, C, Assets, shape, rate),
           \A c \in C : c \in coins /\ c.owner = Wallet,
           Len(makers) \in Nat, Len(head) \in Nat,
           \A i \in 1..Len(makers) : BackedInput(makers[i]) /\ ExactInput(makers[i]),
           \A i \in 1..Len(head) : BackedOutput(head[i])
    PROVE  Backed(p) /\ Exact(p)
<1> DEFINE n == Len(makers)
           h == Len(head)
           m == Len(f.inputs)
           k == Len(f.changes)
<1>1. f.inputs \in Seq(C) /\ m \in Nat /\ m > 0 /\ f.changes \in Seq(Change(Assets)) /\ k \in Nat
  BY DEF Funded
<1>2. \A i \in 1..m : f.inputs[i] \in C
  BY <1>1
<1>3. \A i \in 1..k : f.changes[i].asset \in Assets
  <2>1. PICK q : q = f.changes
    OBVIOUS
  <2>2. q \in Seq(Change(Assets)) /\ k = Len(q)
    BY <1>1, <2>1
  <2>3. \A i \in 1..Len(q) : q[i] \in Change(Assets)
    BY ONLY <2>2
  <2> QED BY <2>1, <2>2, <2>3 DEF Change
<1>4. /\ Len(p.ins) = n + m /\ Len(p.outs) = h + k + 1
      /\ \A i \in 1..n : p.ins[i] = makers[i]
      /\ \A i \in 1..m : p.ins[n + i] = [WalletInput(f.inputs[i], "ALL") EXCEPT
                                           !.issuance = p.ins[n + i].issuance]
      /\ \A i \in 1..h : p.outs[i] = head[i]
      /\ \A i \in 1..k : p.outs[h + i] = WalletOutput(f.changes[i].asset, f.changes[i].value,
                                                      AnyConfidential(f.inputs))
      /\ p.outs[Len(p.outs)] = FeeOutput(f.fee)
  BY DEF Assembled
<1> HIDE DEF m, k
<1>5. ASSUME NEW i \in 1..Len(p.ins) PROVE BackedInput(p.ins[i]) /\ ExactInput(p.ins[i])
  <2>1. CASE i <= n
    BY <1>1, <1>4, <2>1
  <2>2. CASE i > n
    <3>1. PICK j \in 1..m : i = n + j
      <4>1. i - n \in 1..m /\ i = n + (i - n)
        BY <1>1, <1>4, <2>2
      <4> QED BY <4>1
    <3>2. PICK c, in : c = f.inputs[j] /\ in = p.ins[i]
      OBVIOUS
    <3>3. c \in coins /\ c.owner = Wallet
      BY <1>2, <3>2
    <3>4. in = [WalletInput(c, "ALL") EXCEPT !.issuance = in.issuance]
      BY <1>4, <3>1, <3>2
    <3>5. in = [id |-> c.id, asset |-> c.asset, value |-> c.value, conf |-> c.conf,
                opens |-> <<c.asset, c.value>>, script |-> c.owner, derived |-> TRUE,
                sighash |-> "ALL", witness |-> NoSig, issuance |-> in.issuance]
      BY <3>4 DEF WalletInput
    <3>6. c.asset \in Assets /\ NoSig.by # Wallet
      BY <3>3 DEF CoinsTrue, NoSig, Wallet
    <3>7. BackedInput(in) /\ ExactInput(in)
      BY <3>3, <3>5, <3>6 DEF BackedInput, ExactInput
    <3> QED BY <3>2, <3>7
  <2> QED BY <1>1, <1>4, <2>1, <2>2
<1>6. ASSUME NEW i \in 1..Len(p.outs) PROVE BackedOutput(p.outs[i])
  <2>1. CASE i <= h
    BY <1>1, <1>4, <2>1
  <2>2. CASE i > h /\ i <= h + k
    <3>1. i - h \in 1..k /\ i = h + (i - h)
      BY <1>1, <1>4, <2>2
    <3>2. PICK a, v, b : p.outs[i] = WalletOutput(a, v, b) /\ a \in Assets
      BY <1>3, <1>4, <3>1
    <3> QED BY <3>2 DEF WalletOutput, PsetOutput, BackedOutput
  <2>3. CASE i = h + k + 1
    <3>1. p.outs[i] = FeeOutput(f.fee)
      BY <1>4, <2>3
    <3> QED BY <3>1, AssetsAre DEF FeeOutput, PsetOutput, BackedOutput
  <2> QED BY <1>1, <1>4, <2>1, <2>2, <2>3
<1>7. Len(p.ins) > 0
  BY <1>1, <1>4
<1>8. p = [genesis |-> p.genesis, ins |-> p.ins, outs |-> p.outs] /\ IsSeq(p.ins) /\ IsSeq(p.outs)
  BY DEF Assembled
<1> QED BY <1>5, <1>6, <1>7, <1>8 DEF Backed, Exact

(* A request that was started and prepared a bundle.                         *)
Starts(req, res) ==
    bundle' = [req |-> req, from |-> Spendable, res |-> res, altered |-> FALSE]

(* Every request that funds a transaction gives it a fair fee (FeeFair).     *)
LEMMA StartFair ==
    ASSUME NEW req, NEW res, Starts(req, res),
           NEW kind, kind # "SwapOffer", NEW p, NEW f, NEW C, NEW A,
           NEW shape, NEW makers, NEW head,
           Prepares(res, kind, p, f, C, A, shape, req.rate, makers, head),
           Len(makers) \in Nat, \A i \in 1..Len(makers) : ~makers[i].conf,
           shape.foreign = Len(makers), shape.fixed = Len(head), Len(head) \in Nat,
           shape.blinded \in Nat,
           Cardinality({i \in 1..Len(head) : Blinded(head[i])}) = shape.blinded,
           shape.issuance = (req.op = "issue")
    PROVE  FeeFair'
<1> DEFINE b(q) == Cardinality({i \in DOMAIN q.outs : Blinded(q.outs[i])})
           size(q, issues) == Vsize(Len(q.ins), issues, Len(q.outs), b(q))
           withChange(q, issues) == Vsize(Len(q.ins), issues, Len(q.outs) + 1,
                                b(q) + IF AnyConfidential(q.ins) THEN 1 ELSE 0)
<1>1. /\ res.ok /\ res.pset = p
      /\ res.review.fee >= req.rate * size(p, shape.issuance)
      /\ res.review.fee < req.rate * withChange(p, shape.issuance) + Dust
  BY FairGives
<1>2. bundle'.req = req /\ bundle'.res = res
  BY DEF Starts
<1>3. FeeFair' = \A op \in {"transfer", "split", "issue", "cancel", "swap"} :
                    Prepared(op)' =>
                      /\ bundle'.res.review.fee >= bundle'.req.rate * size(bundle'.res.pset, bundle'.req.op = "issue")
                      /\ bundle'.res.review.fee < bundle'.req.rate * withChange(bundle'.res.pset, bundle'.req.op = "issue") + Dust
  BY DEF FeeFair
<1> HIDE DEF size, withChange
<1> QED BY <1>1, <1>2, <1>3

(* Whatever the wallet gets back next to confidential coins is blinded.      *)
LEMMA StartBlinds ==
    ASSUME NEW req, NEW res, Starts(req, res),
           NEW kind, NEW p, NEW f, NEW C, NEW A, NEW shape, NEW rate, NEW makers, NEW head,
           Prepares(res, kind, p, f, C, A, shape, rate, makers, head),
           Len(makers) \in Nat, \A i \in 1..Len(makers) : ~makers[i].conf,
           Len(head) \in Nat,
           NEW b \in Nat, Cardinality({i \in 1..Len(head) : Blinded(head[i])}) = b,
           \A i \in 1..Len(head) :
              ~OutputIsWallet(head[i]) \/ Public(req, i),
           req.op \notin {"swap", "offer"}
    PROVE  ChangeStaysConfidential'
<1> DEFINE public(r) == CASE r.op = "split" -> {1}
                          [] r.op = "issue" -> IF r.tokens > 0 THEN {1, 2} ELSE {1}
                          [] OTHER -> {}
<1>1. /\ Assembled(p, f, makers, head) /\ res = Reviewed(p, kind)
      /\ f.inputs \in Seq(C) /\ f.changes \in Seq(Change(A))
  BY DEF Prepares, Funded
<1>2. AnyConfidential(p.ins) <=> AnyConfidential(f.inputs)
  BY <1>1, ConfidentialAsFunded
<1>3. \A i \in DOMAIN p.outs :
         i > Len(head) /\ AnyConfidential(f.inputs) /\ OutputIsWallet(p.outs[i])
           => Blinded(p.outs[i])
  BY <1>1, BlindedOutputs
<1>4. DOMAIN p.outs = 1..Len(p.outs) /\ Len(p.outs) \in Nat /\ \A i \in 1..Len(head) : p.outs[i] = head[i]
  BY <1>1, IsSeqOf DEF Assembled, IsSeq
<1>5. \A i \in DOMAIN p.outs \ public(req) :
         AnyConfidential(p.ins) /\ OutputIsWallet(p.outs[i]) => Blinded(p.outs[i])
  <2> SUFFICES ASSUME NEW i \in DOMAIN p.outs, i \notin public(req),
                      AnyConfidential(p.ins), OutputIsWallet(p.outs[i])
               PROVE  Blinded(p.outs[i])
    OBVIOUS
  <2>1. CASE i > Len(head)
    BY <1>2, <1>3, <2>1
  <2>2. CASE i <= Len(head)
    <3>1. i \in 1..Len(head) /\ p.outs[i] = head[i]
      BY <1>4, <2>2
    <3> QED BY <3>1 DEF Public
  <2> QED BY <1>4, <2>1, <2>2
<1>6. bundle'.req = req /\ bundle'.res = res /\ res.pset = p
  BY <1>1 DEF Starts, Reviewed
<1>7. ChangeStaysConfidential' =
        (bundle'.res.ok /\ ~bundle'.altered =>
          /\ AnyConfidential(bundle'.res.pset.ins) =>
               \A i \in DOMAIN bundle'.res.pset.outs \ public(bundle'.req) :
                   OutputIsWallet(bundle'.res.pset.outs[i]) => Blinded(bundle'.res.pset.outs[i])
          /\ bundle'.req.op \in {"swap", "offer"} => ~Confidential(bundle'.res.pset))
  BY DEF ChangeStaysConfidential
<1> HIDE DEF public
<1> QED BY <1>5, <1>6, <1>7

(* Swaps and offers have no confidential inputs, so that nothing is asked of *)
(* their change.                                                             *)
LEMMA StartPublic ==
    ASSUME NEW req, NEW res, Starts(req, res), NEW p, NEW kind \in {"SwapOffer", "SwapTake"},
           res = Reviewed(p, kind), Analyzed(p, kind), req.op \in {"swap", "offer"}
    PROVE  ChangeStaysConfidential'
<1>1. ~Confidential(p)
  BY DEF Analyzed
<1>2. bundle'.req = req /\ bundle'.res = res /\ res.pset = p
  BY DEF Starts, Reviewed
<1>3. ~AnyConfidential(p.ins)
  BY <1>1 DEF Confidential
<1> QED BY <1>1, <1>2, <1>3 DEF ChangeStaysConfidential

(* The bundle on its way: where it comes from, and that its parts are there. *)
BundleTrue ==
    /\ bundle = [req |-> bundle.req, from |-> bundle.from, res |-> bundle.res,
                 altered |-> bundle.altered]
    /\ bundle.res.ok =>
         /\ bundle.res = [ok |-> TRUE, pset |-> bundle.res.pset,
                          review |-> bundle.res.review, hash |-> bundle.res.hash]
         /\ Backed(bundle.res.pset)
         /\ ~bundle.altered => Exact(bundle.res.pset)

Good == ReviewExact /\ FeeFair /\ ChangeStaysConfidential

(* Any coins of the ledger may be offered to the builder, ...                *)
LEMMA CoinsUsable ==
    ASSUME CoinsTrue, NEW C, C \subseteq coins PROVE Usable(C, Assets)
<1>1. C \subseteq coins
  OBVIOUS
<1>2. IsFiniteSet(C)
  BY <1>1, FS_Subset DEF CoinsTrue
<1>3. Assets \subseteq Nat /\ Policy \in Assets /\ Slots \in Nat /\ mined \in Nat
  BY AssetsAre DEF CoinsTrue
<1>4. Slots * (mined + 2) \in Nat
  BY <1>3
<1>5. \A c \in coins : c.value \in Int /\ c.id \in Int /\ c.asset \in Int /\ c.asset \in Assets
  <2> SUFFICES ASSUME NEW c \in coins
               PROVE  c.value \in Int /\ c.id \in Int /\ c.asset \in Int /\ c.asset \in Assets
    OBVIOUS
  <2>1. c.id \in 1..(Slots * (mined + 2)) /\ c.value \in 1..MaxMoney /\ c.asset \in Assets
    BY DEF CoinsTrue
  <2>2. MaxMoney \in Nat
    BY BoundsAssumption
  <2>3. PICK n, m : n = Slots * (mined + 2) /\ m = MaxMoney
    OBVIOUS
  <2>4. c.id \in 1..n /\ c.value \in 1..m /\ n \in Nat /\ m \in Nat
    BY <1>4, <2>1, <2>2, <2>3
  <2>5. c.id \in Int /\ c.value \in Int
    BY ONLY <2>4
  <2>6. c.asset \in Nat
    BY <1>3, <2>1
  <2> QED BY <2>1, <2>5, <2>6
<1>6. \A c, d \in coins : c.id = d.id => c = d
  BY DEF CoinsTrue
<1>7. Assets \subseteq Int
  BY <1>3
<1> QED BY <1>1, <1>2, <1>3, <1>5, <1>6, <1>7 DEF Usable, Proper

WalletCoins == {c \in Unspent : c.owner = Wallet}

(* ... in particular the wallet's ...                                        *)
LEMMA WalletUsable ==
    ASSUME CoinsTrue, NEW C, C \subseteq WalletCoins PROVE Usable(C, Assets)
<1>1. C \subseteq coins
  BY DEF WalletCoins, Unspent
<1> QED BY <1>1, CoinsUsable

(* ... and those that no offer holds.                                        *)
LEMMA SpendableUsable == ASSUME CoinsTrue PROVE Usable(Spendable, Assets)
<1>1. Spendable \subseteq WalletCoins
  BY DEF Spendable, WalletCoins
<1> QED BY <1>1, WalletUsable

(* A request that fails leaves nothing to be wrong about.                    *)
LEMMA FailedGood ==
    ASSUME NEW req, NEW res, Starts(req, res), ~res.ok
    PROVE  BundleTrue' /\ Good'
<1>1. /\ bundle'.req = req /\ bundle'.res = res /\ ~bundle'.res.ok
      /\ bundle' = [req |-> bundle'.req, from |-> bundle'.from, res |-> bundle'.res,
                    altered |-> bundle'.altered]
  BY DEF Starts
<1>2. BundleTrue'
  BY <1>1 DEF BundleTrue
<1>3. ReviewExact'
  BY <1>1 DEF ReviewExact, ShowsRequest, Prepared
<1>4. FeeFair'
  BY <1>1 DEF FeeFair, Prepared
<1>5. ChangeStaysConfidential'
  BY <1>1 DEF ChangeStaysConfidential
<1> QED BY <1>2, <1>3, <1>4, <1>5 DEF Good

(* A request whose PSET is backed leaves a truthful bundle.                  *)
LEMMA StartBacked ==
    ASSUME NEW req, NEW res, Starts(req, res), UNCHANGED <<coins, offers>>,
           NEW p, NEW kind, res = Reviewed(p, kind), Backed(p), Exact(p)
    PROVE  BundleTrue'
<1>1. bundle' = [req |-> bundle'.req, from |-> bundle'.from, res |-> bundle'.res,
                 altered |-> bundle'.altered]
      /\ bundle'.res = res
  BY DEF Starts
<1>2. res = [ok |-> TRUE, pset |-> p, review |-> res.review, hash |-> res.hash] /\ res.pset = p
  BY DEF Reviewed
<1>3. \A in : BackedInput(in) => BackedInput(in)'
  BY DEF BackedInput
<1>4. \A o : BackedOutput(o) => BackedOutput(o)'
  BY DEF BackedOutput
<1>5. Backed(bundle.res.pset)'
  BY <1>1, <1>2, <1>3, <1>4 DEF Backed
<1>6. Exact(bundle.res.pset)'
  BY <1>1, <1>2 DEF Exact, ExactInput
<1> QED BY <1>1, <1>2, <1>5, <1>6 DEF BundleTrue

(* A PSET funded by the wallet alone is backed ...                           *)
LEMMA OwnBacked ==
    ASSUME CoinsTrue, NEW C, C \subseteq WalletCoins, NEW p, NEW f, NEW head, NEW shape, NEW rate,
           NEW res, NEW kind, Prepares(res, kind, p, f, C, Assets, shape, rate, <<>>, head),
           Len(head) \in Nat, \A i \in 1..Len(head) : BackedOutput(head[i])
    PROVE  Backed(p) /\ Exact(p)
<1>1. Assembled(p, f, <<>>, head) /\ Funded(f, C, Assets, shape, rate)
  BY DEF Prepares
<1>2. \A c \in C : c \in coins /\ c.owner = Wallet
  BY DEF WalletCoins, Unspent
<1>3. Len(<<>>) = 0
  BY NoElement
<1>4. \A i \in 1..Len(<<>>) : BackedInput(<<>>[i]) /\ ExactInput(<<>>[i])
  BY <1>3
<1> QED BY <1>1, <1>2, <1>3, <1>4, AssembledBacked

(* ... and, given what the outputs of the request are, pays a fair fee and   *)
(* keeps its change confidential.                                            *)
LEMMA OwnGood ==
    ASSUME CoinsTrue, NEW req, NEW res, Starts(req, res), UNCHANGED <<coins, offers>>,
           NEW C, C \subseteq WalletCoins, NEW p, NEW f, NEW head, NEW issues \in BOOLEAN, NEW b \in Nat,
           NEW kind, kind # "SwapOffer",
           Prepares(res, kind, p, f, C, Assets, Shape(0, issues, Len(head), b), req.rate, <<>>, head),
           Len(head) \in Nat, \A i \in 1..Len(head) : BackedOutput(head[i]),
           Cardinality({i \in 1..Len(head) : Blinded(head[i])}) = b,
           issues <=> req.op = "issue", req.op \notin {"swap", "offer"},
           \A i \in 1..Len(head) :
              ~OutputIsWallet(head[i]) \/ Public(req, i)
    PROVE  /\ BundleTrue' /\ FeeFair' /\ ChangeStaysConfidential'
           /\ bundle'.req = req /\ bundle'.res = res
           /\ res.pset = p /\ res.review = TxReview(p, kind)
<1> DEFINE shape == Shape(0, issues, Len(head), b)
<1>1. Len(<<>>) = 0 /\ \A i \in 1..Len(<<>>) : ~<<>>[i].conf
  BY NoElement
<1>2. shape.foreign = 0 /\ shape.fixed = Len(head) /\ shape.blinded = b /\ shape.issuance = issues
  BY DEF Shape
<1>3. Prepares(res, kind, p, f, C, Assets, shape, req.rate, <<>>, head)
  OBVIOUS
<1> HIDE DEF shape
<1>4. res = Reviewed(p, kind)
  BY <1>3 DEF Prepares
<1>5. Backed(p) /\ Exact(p)
  BY <1>3, OwnBacked
<1>6. BundleTrue'
  BY <1>4, <1>5, StartBacked
<1>7. /\ shape.foreign = Len(<<>>) /\ Len(<<>>) \in Nat /\ shape.blinded \in Nat
      /\ shape.fixed = Len(head)
      /\ Cardinality({i \in 1..Len(head) : Blinded(head[i])}) = shape.blinded
  BY <1>1, <1>2
<1>8. shape.issuance = (req.op = "issue")
  BY <1>2
<1>9. FeeFair'
  BY <1>1, <1>3, <1>7, <1>8, StartFair
<1>10. ChangeStaysConfidential'
  BY <1>1, <1>3, <1>7, StartBlinds
<1>11. bundle'.req = req /\ bundle'.res = res
  BY DEF Starts
<1>12. res.pset = p /\ res.review = TxReview(p, kind)
  BY <1>4 DEF Reviewed
<1> QED BY <1>6, <1>9, <1>10, <1>11, <1>12

(* An output of the wallet or to a recipient is backed by its asset alone.   *)
LEMMA OutputsBacked ==
    ASSUME NEW asset \in Assets, NEW amount, NEW to, NEW derived, NEW key
    PROVE  BackedOutput(PsetOutput(asset, amount, to, derived, key))
BY DEF PsetOutput, BackedOutput

(* Transfer: the bundle is truthful, the review exact, the fee fair, the     *)
(* change confidential.                                                      *)
LEMMA TransferGood ==
    ASSUME CoinsTrue, NEW asset, asset \in {0, 1}, NEW amount, NEW key, NEW rate,
           Transfer(asset, amount, key, rate)
    PROVE  BundleTrue' /\ Good'
<1> DEFINE req == [op |-> "transfer", asset |-> asset, amount |-> amount, key |-> key, rate |-> rate]
           res == PrepareTransfer(Spendable, asset, amount, key, rate)
           b == IF key = "none" THEN 0 ELSE 1
           shape == Shape(0, FALSE, 1, b)
           head == <<Recipient(asset, amount, key)>>
<1>1. Starts(req, res) /\ UNCHANGED <<coins, offers>>
  BY DEF Transfer, Start, Starts
<1>2. CASE ~res.ok
  BY <1>1, <1>2, FailedGood
<1>3. CASE res.ok
  <2>1. asset \in Assets
    BY AssetsAre
  <2>2. Usable(Spendable, Assets)
    BY SpendableUsable
  <2>3. amount \in 1..MaxMoney
    BY <1>3, <2>1, <2>2, TransferGives
  <2>4. PICK p, f : Prepares(res, "Transfer", p, f, Spendable, Assets, shape, rate, <<>>, head)
    BY <1>3, <2>1, <2>2, TransferGives
  <2>5. /\ Analyzed(p, "Transfer")
        /\ f.inputs \in Seq(Spendable) /\ f.changes \in Seq(Change(Assets))
        /\ Assembled(p, f, <<>>, head)
    BY <2>4 DEF Prepares, Funded
  <2>6. /\ IsSeq(head) /\ Len(head) = 1 /\ head[1] = Recipient(asset, amount, key)
        /\ DOMAIN head = {1} /\ 1..Len(head) = {1}
    BY One
  <2>7. ~OutputIsWallet(head[1]) /\ (Blinded(head[1]) <=> key # "none") /\ BackedOutput(head[1])
    BY <2>1, <2>6, OutputsBacked DEF Recipient, PsetOutput, OutputIsWallet, Blinded, Wallet
  <2>8. req.op = "transfer" /\ req.rate = rate /\ req.asset = asset /\ req.amount = amount /\ req.key = key
    OBVIOUS
  <2>9. Shows(TxReview(p, "Transfer"), Only(asset, -amount),
              <<[asset |-> asset, value |-> amount, to |-> "recipient", key |-> key]>>)
    BY <2>3, <2>5, TransferReview
  <2>10. b \in Nat /\ shape = Shape(0, FALSE, Len(head), b)
    BY <2>6
  <2>11. Cardinality({i \in 1..Len(head) : Blinded(head[i])}) = b
    <3>1. CASE key = "none"
      <4>1. {i \in 1..Len(head) : Blinded(head[i])} = {}
        BY <2>6, <2>7, <3>1
      <4> QED BY <3>1, <4>1, FS_EmptySet
    <3>2. CASE key # "none"
      <4>1. {i \in 1..Len(head) : Blinded(head[i])} = {1}
        BY <2>6, <2>7, <3>2
      <4> QED BY <3>2, <4>1, FS_Singleton
    <3> QED BY <3>1, <3>2
  <2> HIDE DEF req, res, shape, head, b
  <2>12. /\ Prepares(res, "Transfer", p, f, Spendable, Assets, Shape(0, FALSE, Len(head), b), req.rate, <<>>, head)
         /\ req.op # "issue"  /\ req.op \notin {"swap", "offer"}
         /\ \A i \in 1..Len(head) : BackedOutput(head[i]) /\ ~OutputIsWallet(head[i])
         /\ "Transfer" # "SwapOffer" /\ Len(head) \in Nat
    <3>1. Prepares(res, "Transfer", p, f, Spendable, Assets, Shape(0, FALSE, Len(head), b), req.rate, <<>>, head)
      BY <2>4, <2>8, <2>10
    <3>2. req.op # "issue"  /\ req.op \notin {"swap", "offer"}
      BY <2>8
    <3>3. \A i \in 1..Len(head) : BackedOutput(head[i]) /\ ~OutputIsWallet(head[i])
      BY <2>6, <2>7
    <3>4. "Transfer" # "SwapOffer" /\ Len(head) \in Nat
      BY <2>6
    <3> QED BY <3>1, <3>2, <3>3, <3>4
  <2>13. /\ BundleTrue' /\ FeeFair' /\ ChangeStaysConfidential'
         /\ bundle'.req = req /\ bundle'.res = res /\ res.review = TxReview(p, "Transfer")
    <3>1. Spendable \subseteq WalletCoins
      BY DEF Spendable, WalletCoins
    <3> QED BY <1>1, <2>10, <2>11, <2>12, <3>1, OwnGood, ZenonT(60)
  <2>14. ReviewExact'
    BY <2>8, <2>9, <2>13 DEF ReviewExact, ShowsRequest, Prepared, Shows
  <2> QED BY <2>13, <2>14 DEF Good
<1> QED BY <1>2, <1>3

(* Split: the same.                                                          *)
LEMMA SplitGood ==
    ASSUME CoinsTrue, NEW asset, asset \in {0, 1}, NEW amount, NEW rate,
           Split(asset, amount, rate)
    PROVE  BundleTrue' /\ Good'
<1> DEFINE req == [op |-> "split", asset |-> asset, amount |-> amount, rate |-> rate]
           res == PrepareOfferSplit(Spendable, asset, amount, rate)
           head == <<WalletOutput(asset, amount, FALSE)>>
<1>1. Starts(req, res) /\ UNCHANGED <<coins, offers>>
  BY DEF Split, Start, Starts
<1>2. CASE ~res.ok
  BY <1>1, <1>2, FailedGood
<1>3. CASE res.ok
  <2>1. asset \in Assets
    BY AssetsAre
  <2>2. Usable(Spendable, Assets)
    BY SpendableUsable
  <2>4. PICK p, f : Prepares(res, "OfferSplit", p, f, Spendable, Assets, Shape(0, FALSE, 1, 0), rate, <<>>, head)
    BY <1>3, <2>1, <2>2, SplitGives
  <2>5. /\ Analyzed(p, "OfferSplit")
        /\ f.inputs \in Seq(Spendable) /\ f.changes \in Seq(Change(Assets))
        /\ Assembled(p, f, <<>>, head)
    BY <2>4 DEF Prepares, Funded
  <2>6. /\ IsSeq(head) /\ Len(head) = 1 /\ head[1] = WalletOutput(asset, amount, FALSE)
        /\ 1..Len(head) = {1}
    BY One
  <2>7. ~Blinded(head[1]) /\ BackedOutput(head[1])
    BY <2>1, <2>6, OutputsBacked DEF WalletOutput, PsetOutput, Blinded
  <2>8. req.op = "split" /\ req.rate = rate
    OBVIOUS
  <2>11. Cardinality({i \in 1..Len(head) : Blinded(head[i])}) = 0
    <3>1. {i \in 1..Len(head) : Blinded(head[i])} = {}
      BY <2>6, <2>7
    <3> QED BY <3>1, FS_EmptySet
  <2> HIDE DEF req, res, head
  <2>9. Shows(TxReview(p, "OfferSplit"), <<>>, <<>>)
    BY <2>5, QuietReview
  <2>12. Prepares(res, "OfferSplit", p, f, Spendable, Assets, Shape(0, FALSE, Len(head), 0), req.rate, <<>>, head)
    BY <2>4, <2>6, <2>8
  <2>13. req.op # "issue" /\ req.op \notin {"swap", "offer"} /\ "OfferSplit" # "SwapOffer"
         /\ Len(head) \in Nat /\ FALSE \in BOOLEAN /\ 0 \in Nat
    BY <2>6, <2>8
  <2>14. \A i \in 1..Len(head) : BackedOutput(head[i]) /\ (req.op = "split" /\ i = 1)
    BY <2>6, <2>7, <2>8
  <2>14a. \A i \in 1..Len(head) : ~OutputIsWallet(head[i]) \/ Public(req, i)
    BY <2>14 DEF Public
  <2>14b. \A i \in 1..Len(head) : BackedOutput(head[i])
    BY <2>14
  <2>15. /\ BundleTrue' /\ FeeFair' /\ ChangeStaysConfidential'
         /\ bundle'.req = req /\ bundle'.res = res /\ res.review = TxReview(p, "OfferSplit")
    <3>1. Spendable \subseteq WalletCoins
      BY DEF Spendable, WalletCoins
    <3> QED BY <1>1, <2>11, <2>12, <2>13, <2>14a, <2>14b, <3>1, OwnGood
  <2>16. ReviewExact'
    BY <2>8, <2>9, <2>15 DEF ReviewExact, ShowsRequest, Prepared, Shows
  <2> QED BY <2>15, <2>16 DEF Good
<1> QED BY <1>2, <1>3

(* Cancel: the same.                                                         *)
LEMMA CancelGood ==
    ASSUME CoinsTrue, NEW coin, coin \in Unspent, coin.owner = Wallet, NEW rate,
           Cancel(coin, rate)
    PROVE  BundleTrue' /\ Good'
<1> DEFINE req == [op |-> "cancel", coin |-> coin, rate |-> rate]
           others == {c \in Spendable : c.asset = Policy /\ c # coin}
           res == PrepareCancel(coin, others, rate)
           C == {c \in Unspent : c.owner = Wallet}
<1>1. Starts(req, res) /\ UNCHANGED <<coins, offers>>
  BY DEF Cancel, Start, Starts
<1>2. CASE ~res.ok
  BY <1>1, <1>2, FailedGood
<1>3. CASE res.ok
  <2>2. Usable(C, Assets)
    BY WalletUsable DEF WalletCoins
  <2>3. coin \in C /\ others \in SUBSET C
    BY DEF Spendable
  <2>4. PICK p, f : Prepares(res, "Cancel", p, f, C, Assets, Shape(0, FALSE, 0, 0), rate, <<>>, <<>>)
    <3> HIDE DEF C, others
    <3> QED BY <1>3, <2>2, <2>3, CancelGives
  <2>5. /\ Analyzed(p, "Cancel")
        /\ f.inputs \in Seq(C) /\ f.changes \in Seq(Change(Assets))
        /\ Assembled(p, f, <<>>, <<>>)
    BY <2>4 DEF Prepares, Funded
  <2>6. Len(<<>>) = 0 /\ 1..Len(<<>>) = {}
    BY NoElement
  <2>8. req.op = "cancel" /\ req.rate = rate
    OBVIOUS
  <2>11. Cardinality({i \in 1..Len(<<>>) : Blinded(<<>>[i])}) = 0
    <3>1. {i \in 1..Len(<<>>) : Blinded(<<>>[i])} = {}
      BY <2>6
    <3> QED BY <3>1, FS_EmptySet
  <2> HIDE DEF req, res, C
  <2>9. Shows(TxReview(p, "Cancel"), <<>>, <<>>)
    BY <2>5, QuietReview
  <2>10. PICK head : head = <<>>
    OBVIOUS
  <2>12. Prepares(res, "Cancel", p, f, C, Assets, Shape(0, FALSE, Len(head), 0), req.rate, <<>>, head)
    BY <2>4, <2>6, <2>8, <2>10
  <2>13. req.op # "issue" /\ req.op \notin {"swap", "offer"} /\ "Cancel" # "SwapOffer"
         /\ Len(head) \in Nat /\ FALSE \in BOOLEAN /\ 0 \in Nat
    BY <2>6, <2>8, <2>10
  <2>14. (\A i \in 1..Len(head) : BackedOutput(head[i]) /\ ~OutputIsWallet(head[i]))
         /\ Cardinality({i \in 1..Len(head) : Blinded(head[i])}) = 0
    BY <2>6, <2>10, <2>11
  <2>15. /\ BundleTrue' /\ FeeFair' /\ ChangeStaysConfidential'
         /\ bundle'.req = req /\ bundle'.res = res /\ res.review = TxReview(p, "Cancel")
    <3>1. C \subseteq WalletCoins
      BY DEF C, WalletCoins
    <3> QED BY <1>1, <2>12, <2>13, <2>14, <3>1, OwnGood
  <2>16. ReviewExact'
    BY <2>8, <2>9, <2>15 DEF ReviewExact, ShowsRequest, Prepared, Shows
  <2> QED BY <2>15, <2>16 DEF Good
<1> QED BY <1>2, <1>3

(* The outputs of an issuance are backed and public.                         *)
LEMMA IssueHeadOk ==
    ASSUME CoinsTrue, mined < MaxTxs, NEW c, c \in coins, NEW amount, NEW tokens, NEW head,
           head = IssueHead(c.id, amount, tokens)
    PROVE  /\ Len(head) = IF tokens > 0 THEN 2 ELSE 1
           /\ \A i \in 1..Len(head) :
                /\ BackedOutput(head[i]) /\ ~Blinded(head[i])
                /\ i = 1 \/ (tokens > 0 /\ i = 2)
           /\ Cardinality({i \in 1..Len(head) : Blinded(head[i])}) = 0
<1>1. /\ Len(head) = IF tokens > 0 THEN 2 ELSE 1
      /\ head[1] = WalletOutput(IssuanceIds(c.id).asset, amount, FALSE)
      /\ tokens > 0 => head[2] = WalletOutput(IssuanceIds(c.id).token, tokens, FALSE)
  <2>1. PICK id : id = c.id
    OBVIOUS
  <2>2. head = IssueHead(id, amount, tokens)
    BY <2>1
  <2>3. /\ Len(head) = IF tokens > 0 THEN 2 ELSE 1
        /\ head[1] = WalletOutput(IssuanceIds(id).asset, amount, FALSE)
        /\ tokens > 0 => head[2] = WalletOutput(IssuanceIds(id).token, tokens, FALSE)
    BY ONLY <2>2, IssueHeads
  <2> QED BY <2>1, <2>3
<1>2. IssuanceIds(c.id).asset \in Assets /\ IssuanceIds(c.id).token \in Assets
  <2>1. c.id \in 1..(Slots * (mined + 2)) /\ mined \in 0..MaxTxs
    BY DEF CoinsTrue
  <2>2. mined \in 0..(MaxTxs - 1)
    BY <2>1, AssetsAre
  <2> QED BY <2>1, <2>2, AssetsAre
<1>3. \A a, v : a \in Assets => /\ BackedOutput(WalletOutput(a, v, FALSE))
                                /\ ~Blinded(WalletOutput(a, v, FALSE))
  BY OutputsBacked DEF WalletOutput, PsetOutput, Blinded
<1>4. \A i \in 1..Len(head) : i = 1 \/ (tokens > 0 /\ i = 2)
  <2>1. CASE tokens > 0
    <3>1. 1..Len(head) = {1, 2}
      BY <1>1, <2>1
    <3> QED BY <2>1, <3>1
  <2>2. CASE ~(tokens > 0)
    <3>1. 1..Len(head) = {1}
      BY <1>1, <2>2
    <3> QED BY <3>1
  <2> QED BY <2>1, <2>2
<1>5. /\ BackedOutput(head[1]) /\ ~Blinded(head[1])
      /\ tokens > 0 => BackedOutput(head[2]) /\ ~Blinded(head[2])
  BY <1>1, <1>2, <1>3
<1>6. \A i \in 1..Len(head) : BackedOutput(head[i]) /\ ~Blinded(head[i])
  BY <1>4, <1>5
<1>7. {i \in 1..Len(head) : Blinded(head[i])} = {}
  BY <1>6
<1>8. Cardinality({i \in 1..Len(head) : Blinded(head[i])}) = 0
  BY <1>7, FS_EmptySet
<1> QED BY <1>1, <1>4, <1>6, <1>8

(* Issue: the same.                                                          *)
LEMMA IssueGood ==
    ASSUME CoinsTrue, NEW amount, NEW tokens, NEW rate, Issue(amount, tokens, rate)
    PROVE  BundleTrue' /\ Good'
<1> DEFINE req == [op |-> "issue", amount |-> amount, tokens |-> tokens, rate |-> rate]
           res == PrepareIssuance(Spendable, amount, tokens, rate)
           n == Heads(tokens)
<1>1. Starts(req, res) /\ UNCHANGED <<coins, offers>> /\ mined < MaxTxs
  BY DEF Issue, Start, Starts
<1>2. CASE ~res.ok
  BY <1>1, <1>2, FailedGood
<1>3. CASE res.ok
  <2>2. Usable(Spendable, Assets)
    BY SpendableUsable
  <2>3. amount \in 1..MaxMoney
    BY <1>3, <2>2, IssueGives
  <2>4. PICK p, f : Issues(res, p, f, Spendable, Assets, amount, tokens, rate)
    BY <1>3, <2>2, IssueGives
  <2>4b. /\ Prepares(res, "Issuance", p, f, Spendable, Assets, Shape(0, TRUE, n, 0), rate,
                     <<>>, IssueHead(f.inputs[1].id, amount, tokens))
         /\ p.ins[1].issuance = [amount |-> amount, tokens |-> tokens]
    BY <2>4 DEF Issues
  <2>4a. PICK head : head = IssueHead(f.inputs[1].id, amount, tokens)
    OBVIOUS
  <2>5. /\ Analyzed(p, "Issuance")
        /\ f.inputs \in Seq(Spendable) /\ f.inputs # <<>> /\ f.changes \in Seq(Change(Assets))
        /\ Assembled(p, f, <<>>, head)
    BY <2>4b, <2>4a DEF Prepares, Funded
  <2>6. f.inputs[1] \in Spendable
    BY <2>5
  <2>7. f.inputs[1] \in coins
    BY <2>6 DEF Spendable, Unspent
  <2>8. req.op = "issue" /\ req.rate = rate /\ req.amount = amount /\ req.tokens = tokens
    OBVIOUS
  <2>9. /\ Len(head) = n
        /\ \A i \in 1..Len(head) : BackedOutput(head[i]) /\ (i = 1 \/ (tokens > 0 /\ i = 2))
        /\ Cardinality({i \in 1..Len(head) : Blinded(head[i])}) = 0
    <3>1. PICK c : c = f.inputs[1]
      OBVIOUS
    <3>2. c \in coins /\ head = IssueHead(c.id, amount, tokens) /\ mined < MaxTxs
      BY <1>1, <2>4a, <2>7, <3>1
    <3>3. /\ Len(head) = IF tokens > 0 THEN 2 ELSE 1
          /\ \A i \in 1..Len(head) :
               /\ BackedOutput(head[i]) /\ ~Blinded(head[i])
               /\ i = 1 \/ (tokens > 0 /\ i = 2)
          /\ Cardinality({i \in 1..Len(head) : Blinded(head[i])}) = 0
      BY ONLY CoinsTrue, <3>2, IssueHeadOk
    <3> QED BY <3>3 DEF Heads
  <2>10. n \in Nat
    BY DEF Heads
  <2> HIDE DEF req, res, n
  <2>11. Prepares(res, "Issuance", p, f, Spendable, Assets, Shape(0, TRUE, Len(head), 0), req.rate, <<>>, head)
    BY <2>4b, <2>4a, <2>8, <2>9
  <2>12. /\ f.inputs[1].id \in TxReview(p, "Issuance").signs
         /\ Shows(TxReview(p, "Issuance"), IssueChanges(f.inputs[1].id, amount, tokens), <<>>)
    <3>1. \A c \in Spendable : c.id \in Nat
      <4> SUFFICES ASSUME NEW c \in Spendable PROVE c.id \in Nat
        OBVIOUS
      <4>1. c \in coins
        BY DEF Spendable, Unspent
      <4>2. c.id \in 1..(Slots * (mined + 2))
        BY <4>1 DEF CoinsTrue
      <4> QED BY <4>2
    <3>2. Assembled(p, f, <<>>, IssueHead(f.inputs[1].id, amount, tokens))
      BY <2>4a, <2>5
    <3> QED BY <2>3, <2>4b, <2>5, <3>1, <3>2, IssueReview
  <2>13. /\ req.op = "issue" /\ req.op \notin {"swap", "offer"} /\ "Issuance" # "SwapOffer"
         /\ Len(head) \in Nat /\ TRUE \in BOOLEAN /\ 0 \in Nat
    BY <2>8, <2>9, <2>10
  <2>14a. \A i \in 1..Len(head) : ~OutputIsWallet(head[i]) \/ Public(req, i)
    BY <2>8, <2>9 DEF Public
  <2>14b. \A i \in 1..Len(head) : BackedOutput(head[i])
    BY <2>9
  <2>14c. Cardinality({i \in 1..Len(head) : Blinded(head[i])}) = 0
    BY <2>9
  <2>15. /\ BundleTrue' /\ FeeFair' /\ ChangeStaysConfidential'
         /\ bundle'.req = req /\ bundle'.res = res /\ res.review = TxReview(p, "Issuance")
    <3>1. Spendable \subseteq WalletCoins
      BY DEF Spendable, WalletCoins
    <3> QED BY <1>1, <2>11, <2>13, <2>14a, <2>14b, <2>14c, <3>1, OwnGood, ZenonT(60)
  <2>16. ReviewExact'
    <3>1. bundle'.req.op = "issue"
      BY <2>8, <2>15
    <3>2. /\ f.inputs[1].id \in bundle'.res.review.signs
          /\ Shows(bundle'.res.review, IssueChanges(f.inputs[1].id, bundle'.req.amount, bundle'.req.tokens), <<>>)
      BY <2>8, <2>12, <2>15
    <3>3. PICK id : /\ id \in bundle'.res.review.signs
                    /\ Shows(bundle'.res.review, IssueChanges(id, bundle'.req.amount, bundle'.req.tokens), <<>>)
      BY <3>2
    <3> QED BY <3>1, <3>3 DEF ReviewExact, ShowsRequest, Shows, IssueChanges
  <2> QED BY <2>15, <2>16 DEF Good
<1> QED BY <1>2, <1>3

(* MakeOffer: the same.                                                      *)
LEMMA OfferGood ==
    ASSUME CoinsTrue, NEW coin, coin \in Spendable, NEW want, want \in {0, 1}, NEW amount,
           MakeOffer(coin, want, amount)
    PROVE  BundleTrue' /\ Good'
<1> DEFINE req == [op |-> "offer", coin |-> coin, want |-> want, amount |-> amount]
           res == PrepareSwapOffer(coin, want, amount)
           p == [genesis |-> Genesis, ins |-> <<WalletInput(coin, "SINGLE|ANYONECANPAY")>>,
                 outs |-> <<WalletOutput(want, amount, FALSE)>>]
<1>1. Starts(req, res) /\ UNCHANGED <<coins, offers>>
  BY DEF MakeOffer, Start, Starts
<1>2. CASE ~res.ok
  BY <1>1, <1>2, FailedGood
<1>3. CASE res.ok
  <2>1. want \in Assets
    BY AssetsAre
  <2>2. coin \in coins /\ coin.owner = Wallet
    BY DEF Spendable, Unspent
  <2>3. /\ amount \in 1..MaxMoney /\ coin.asset # want /\ ~coin.conf
        /\ res = Reviewed(p, "SwapOffer") /\ Analyzed(p, "SwapOffer")
    BY <1>3, OfferGives
  <2>4. coin.value \in 1..MaxMoney
    BY <2>2 DEF CoinsTrue
  <2>5. req.op = "offer" /\ req.coin = coin /\ req.want = want /\ req.amount = amount
    OBVIOUS
  <2>6. Backed(p)
    <3>1. BackedInput(WalletInput(coin, "SINGLE|ANYONECANPAY"))
      <4>1. coin.asset \in Assets /\ NoSig.by # Wallet
        BY <2>2 DEF CoinsTrue, NoSig, Wallet
      <4> QED BY <2>2, <4>1 DEF BackedInput, WalletInput
    <3>2. BackedOutput(WalletOutput(want, amount, FALSE))
      BY <2>1, OutputsBacked DEF WalletOutput
    <3>3. PICK x, y : /\ x = WalletInput(coin, "SINGLE|ANYONECANPAY")
                      /\ y = WalletOutput(want, amount, FALSE)
      OBVIOUS
    <3>4. IsSeq(<<x>>) /\ Len(<<x>>) = 1 /\ IsSeq(<<y>>) /\ Len(<<y>>) = 1
      BY One
    <3>5. p = [genesis |-> Genesis, ins |-> <<x>>, outs |-> <<y>>]
      BY <3>3
    <3> HIDE DEF p
    <3>6. p.ins = <<x>> /\ p.outs = <<y>> /\ p = [genesis |-> p.genesis, ins |-> p.ins, outs |-> p.outs]
      BY <3>5
    <3>7. 1..Len(p.ins) = {1} /\ 1..Len(p.outs) = {1} /\ p.ins[1] = x /\ p.outs[1] = y
      BY <3>4, <3>6
    <3>8. IsSeq(p.ins) /\ Len(p.ins) = 1 /\ IsSeq(p.outs)
      BY <3>4, <3>6
    <3>9. (\A i \in 1..Len(p.ins) : BackedInput(p.ins[i])) /\ (\A i \in 1..Len(p.outs) : BackedOutput(p.outs[i]))
      BY <3>1, <3>2, <3>3, <3>7
    <3>10. p = [genesis |-> p.genesis, ins |-> p.ins, outs |-> p.outs] /\ Len(p.ins) > 0
      BY <3>6, <3>8
    <3> QED BY <3>8, <3>9, <3>10 DEF Backed
  <2>7. Exact(p)
    <3>1. ExactInput(WalletInput(coin, "SINGLE|ANYONECANPAY"))
      BY <2>2 DEF ExactInput, WalletInput
    <3>2. PICK x : x = WalletInput(coin, "SINGLE|ANYONECANPAY")
      OBVIOUS
    <3>3. Len(<<x>>) = 1
      BY One
    <3> QED BY <3>1, <3>2, <3>3 DEF Exact
  <2>8. Shows(TxReview(p, "SwapOffer"), OfferChanges(coin, want, amount), <<>>)
    <3>1. p = OfferPset(coin, want, amount)
      BY DEF OfferPset
    <3> HIDE DEF p
    <3> QED BY <2>3, <2>4, <3>1, OfferReview
  <2> HIDE DEF req, res, p
  <2>9. bundle'.req = req /\ bundle'.res = res /\ res.review = TxReview(p, "SwapOffer")
    BY <1>1, <2>3 DEF Starts, Reviewed
  <2>10. BundleTrue'
    BY <1>1, <2>3, <2>6, <2>7, StartBacked
  <2>11. FeeFair'
    BY <2>5, <2>9 DEF FeeFair, Prepared
  <2>12. ChangeStaysConfidential'
    BY <1>1, <2>3, <2>5, StartPublic
  <2>13. ReviewExact'
    BY <2>5, <2>8, <2>9 DEF ReviewExact, ShowsRequest, Prepared, Shows, OfferChanges
  <2> QED BY <2>10, <2>11, <2>12, <2>13 DEF Good
<1> QED BY <1>2, <1>3

(* What the signature of an offer says of the coin it gives: an id and an    *)
(* explicit value, but not the asset.                                        *)
Single == "SINGLE|ANYONECANPAY"

OfferedIn(o) == [id |-> o.id, value |-> o.give.amount, commits |-> <<>>, issuance |-> NoIssuance]

(* The wallet's offers: each gives a coin of the ledger for an explicit      *)
(* output to the wallet, and its signature covers just these two.            *)
OwnOffer(o) ==
    /\ o = [genesis |-> Genesis, id |-> o.id, out |-> o.out, sig |-> o.sig,
            give |-> o.give, want |-> [asset |-> o.out.asset, amount |-> o.out.value]]
    /\ o.give = [asset |-> o.give.asset, amount |-> o.give.amount]
    /\ o.give.amount \in 1..MaxMoney
    /\ o.out = [asset |-> o.out.asset, value |-> o.out.value, to |-> Wallet, key |-> "none"]
    /\ o.out.asset \in Assets /\ o.out.value \in 1..MaxMoney
    /\ o.sig = Signature([ins |-> <<OfferedIn(o)>>, outs |-> <<o.out>>], 1, Single, Wallet)
    /\ o.give.asset # o.out.asset
    /\ \E c \in coins : c.id = o.id

OffersTrue == IsFiniteSet(offers) /\ \A o \in offers : OwnOffer(o)

(* A coin is found by its id.                                                *)
LEMMA CoinFound ==
    ASSUME NEW id, Exists(id) PROVE CoinAt(id) \in coins /\ CoinAt(id).id = id
BY DEF Exists, CoinAt

(* The offers of a quote are the market's or the wallet's.                   *)
LEMMA QuoteOffers ==
    ASSUME NEW q, q \in Quotes
    PROVE  /\ IsSeq(q.offers)
           /\ \A i \in 1..Len(q.offers) : q.offers[i] \in Market \cup offers
<1> DEFINE known == Market \cup offers
           totals(s, lie) == [offers |-> s, sell |-> Wanted(s) + lie, buy |-> Given(s)]
           S == {<<>>} \cup {<<o>> : o \in known} \cup {<<o, p>> : o, p \in known}
<1>1. \E s, lie : q = totals(s, lie) /\ s \in S
  <2>1. Quotes = {totals(s, 0) : s \in S} \cup {totals(<<o>>, 1) : o \in Market}
    BY DEF Quotes
  <2>2. CASE \E s \in S : q = totals(s, 0)
    <3> HIDE DEF S, totals
    <3> QED BY <2>2
  <2>3. CASE \E o \in Market : q = totals(<<o>>, 1)
    <3>1. PICK o \in Market : q = totals(<<o>>, 1)
      BY <2>3
    <3>2. <<o>> \in S
      OBVIOUS
    <3> HIDE DEF S, totals
    <3> QED BY <3>1, <3>2
  <2> HIDE DEF S, totals
  <2> QED BY <2>1, <2>2, <2>3
<1>2. PICK s, lie : q = totals(s, lie) /\ s \in S
  BY <1>1
<1>3. q.offers = s
  BY <1>2
<1>4. CASE s = <<>>
  <2>1. IsSeq(<<>>) /\ Len(<<>>) = 0
    BY NoElement
  <2> QED BY <1>3, <1>4, <2>1
<1>5. CASE \E o \in known : s = <<o>>
  <2>1. PICK o \in known : s = <<o>>
    BY <1>5
  <2>2. IsSeq(<<o>>) /\ Len(<<o>>) = 1 /\ <<o>>[1] = o
    BY One
  <2>3. \A i \in 1..Len(<<o>>) : <<o>>[i] \in known
    BY <2>2
  <2> QED BY <1>3, <2>1, <2>2, <2>3
<1>6. CASE \E o, p \in known : s = <<o, p>>
  <2>1. PICK o \in known, p \in known : s = <<o, p>>
    BY <1>6
  <2>2. IsSeq(<<o, p>>) /\ Len(<<o, p>>) = 2 /\ <<o, p>>[1] = o /\ <<o, p>>[2] = p
    BY Two
  <2>3. \A i \in 1..Len(<<o, p>>) : <<o, p>>[i] \in known
    BY <2>2
  <2> QED BY <1>3, <2>1, <2>2, <2>3
<1> QED BY <1>2, <1>4, <1>5, <1>6

(* What a successful swap has: a verified quote within the limit of slippage,*)
(* taken with the coins that its offers name.                                *)
SwapTaken(res, q, sell, buy, amount, side, maxBps, rate) ==
    LET n == Len(q.offers)
    IN  /\ QuoteVerifies(q, sell, buy, amount, side) /\ n \in Nat /\ n > 0
        /\ ~(Impact(q.offers) > maxBps)
        /\ IsSeq(q.offers) /\ \A i \in 1..n : /\ q.offers[i] \in Market \cup offers
                                             /\ q.offers[i].out.value \in Int
                                             /\ q.offers[i].out.asset \in Assets
        /\ \E p, f, makers, head, fetched :
             /\ Prepares(res, "SwapTake", p, f, {c \in Spendable : ~c.conf}, Assets,
                         Shape(n, FALSE, Len(head), 0), rate, makers, head)
             /\ Taken(q.offers, fetched, makers, head, Assets)
             /\ IsSeq(makers) /\ IsSeq(head)
             /\ \A i \in 1..n : fetched[i] \in coins

(* swap, when it succeeds.                                                   *)
LEMMA SwapTakes ==
    ASSUME CoinsTrue, OffersTrue, NEW q, q \in Quotes, NEW sell, NEW buy, NEW amount, NEW side,
           NEW maxBps, NEW rate, NEW res, res = PrepareSwap(q, sell, buy, amount, side, maxBps, rate),
           res.ok
    PROVE  SwapTaken(res, q, sell, buy, amount, side, maxBps, rate)
<1> DEFINE taken == q.offers
           fetched == [i \in DOMAIN taken |-> CoinAt(taken[i].id)]
           n == Len(taken)
           C == {c \in Spendable : ~c.conf}
<1>1. ASSUME NEW e PROVE ~Failure(e).ok
  BY DEF Failure
<1>2. /\ QuoteVerifies(q, sell, buy, amount, side) /\ res = TakeSwapOffers(taken, fetched, Spendable, rate)
      /\ taken # <<>> /\ ~(Impact(taken) > maxBps)
  <2>1. PICK v, w, y, x, t : /\ v = QuoteVerifies(q, sell, buy, amount, side)
                             /\ w = (taken = <<>>) /\ y = (Impact(taken) > maxBps)
                             /\ x = (\E i \in DOMAIN taken : taken[i].id \in spent)
                             /\ t = TakeSwapOffers(taken, fetched, Spendable, rate)
    OBVIOUS
  <2>2. res = IF ~v THEN Failure("Quote") ELSE IF w \/ y THEN Failure("Quote")
              ELSE IF x THEN Failure("Spent") ELSE t
    BY <2>1 DEF PrepareSwap
  <2>3. v /\ res = t /\ ~w /\ ~y
    BY <1>1, <2>2
  <2> QED BY <2>1, <2>3
<1>3. IsSeq(taken) /\ \A i \in 1..n : taken[i] \in Market \cup offers
  BY QuoteOffers
<1>4. DOMAIN taken = 1..n /\ n \in Nat
  BY <1>3, IsSeqOf DEF IsSeq
<1>5. n > 0
  <2>1. n # 0
    <3> SUFFICES ASSUME n = 0 PROVE FALSE
      OBVIOUS
    <3>1. taken \in Seq({taken[i] : i \in 1..Len(taken)})
      BY <1>3, IsSeqOf
    <3> QED BY <1>2, <3>1
  <2> QED BY <1>4, <2>1
<1>6. \A i \in 1..n : fetched[i] \in coins
  <2>1. \A i \in 1..n : Exists(taken[i].id)
    BY <1>2, <1>4 DEF QuoteVerifies
  <2> QED BY <1>4, <2>1, CoinFound
<1>7. \A o \in Market \cup offers : o.out.value \in Int /\ o.out.asset \in Assets
  <2>1. MaxMoney \in Nat
    BY BoundsAssumption
  <2>2. \A o \in Market : o.out.value \in Nat /\ o.out.asset \in Assets
    BY LedgerAssumption
  <2>3. \A o \in offers : o.out.value \in 1..MaxMoney /\ o.out.asset \in Assets
    BY DEF OffersTrue, OwnOffer
  <2> QED BY <2>1, <2>2, <2>3
<1>8. Usable(Spendable, Assets) /\ Usable(coins, Assets)
  BY SpendableUsable, CoinsUsable
<1>9. \A i \in 1..n : /\ taken[i].out.value \in Int /\ taken[i].out.asset \in Assets
                      /\ fetched[i].value \in Int /\ fetched[i].asset \in Assets
  <2>1. \A c \in coins : c.value \in Int /\ c.asset \in Assets
    BY <1>8 DEF Usable, Proper
  <2> HIDE DEF fetched
  <2> QED BY <1>3, <1>6, <1>7, <2>1
<1>10. Assets \subseteq Int
  BY <1>8 DEF Usable
<1>11. \E p, f, makers, head :
          /\ Prepares(res, "SwapTake", p, f, C, Assets, Shape(n, FALSE, Len(head), 0), rate, makers, head)
          /\ Taken(taken, fetched, makers, head, Assets)
          /\ IsSeq(makers) /\ IsSeq(head)
  <2>1. PICK got, t : got = fetched /\ t = taken
    OBVIOUS
  <2>2. res = TakeSwapOffers(t, got, Spendable, rate)
    BY <1>2, <2>1
  <2>3. \A i \in 1..Len(t) : /\ t[i].out.value \in Int /\ t[i].out.asset \in Assets
                             /\ got[i].value \in Int /\ got[i].asset \in Assets
    BY <1>9, <2>1
  <2>4. IsSeq(t)
    BY <1>3, <2>1
  <2> HIDE DEF fetched, taken
  <2>5. TakeSwapOffers(t, got, Spendable, rate).ok
    BY <2>2
  <2>6. \E p, f, makers, head :
          /\ Prepares(TakeSwapOffers(t, got, Spendable, rate), "SwapTake", p, f, C, Assets,
                      Shape(Len(t), FALSE, Len(head), 0), rate, makers, head)
          /\ Taken(t, got, makers, head, Assets)
          /\ IsSeq(makers) /\ IsSeq(head)
    BY <1>8, <1>10, <2>3, <2>4, <2>5, TakeGives
  <2> HIDE DEF C
  <2> QED BY <2>1, <2>2, <2>6
<1> HIDE DEF fetched, C
<1>12. \E p, f, makers, head, got :
          /\ Prepares(res, "SwapTake", p, f, C, Assets, Shape(n, FALSE, Len(head), 0), rate, makers, head)
          /\ Taken(taken, got, makers, head, Assets)
          /\ IsSeq(makers) /\ IsSeq(head)
          /\ \A i \in 1..n : got[i] \in coins
  BY <1>6, <1>11
<1> QED BY <1>2, <1>3, <1>4, <1>5, <1>9, <1>12 DEF C, SwapTaken

(* Swap: the same; the inputs of makers are public and named by offers that  *)
(* verify, and the change of the wallet's own coins is public with them.     *)
LEMMA SwapGood ==
    ASSUME CoinsTrue, OffersTrue, NEW q, q \in Quotes, NEW sell, NEW buy, NEW amount, NEW side,
           NEW maxBps, NEW rate, Swap(q, sell, buy, amount, side, maxBps, rate)
    PROVE  BundleTrue' /\ Good'
<1> DEFINE full == [op |-> "swap", quote |-> q, sell |-> sell, buy |-> buy,
                    amount |-> amount, side |-> side, maxBps |-> maxBps, rate |-> rate]
           taken == q.offers
           n == Len(taken)
<1>0. PICK res : res = PrepareSwap(q, sell, buy, amount, side, maxBps, rate)
  OBVIOUS
<1> DEFINE req == IF res.ok THEN full ELSE [op |-> "swap"]
<1>1. Starts(req, res) /\ UNCHANGED <<coins, offers>>
  BY <1>0 DEF Swap, Start, Starts
<1>2. CASE ~res.ok
  BY <1>1, <1>2, FailedGood
<1>3. CASE res.ok
  <2> DEFINE C == {c \in Spendable : ~c.conf}
  <2>1. SwapTaken(res, q, sell, buy, amount, side, maxBps, rate)
    BY <1>0, <1>3, SwapTakes
  <2>2. /\ n \in Nat
        /\ \A i \in 1..n : taken[i] \in Market \cup offers /\ taken[i].out.asset \in Assets
    BY <2>1 DEF SwapTaken
  <2>3. PICK p, f, makers, head, fetched :
              /\ Prepares(res, "SwapTake", p, f, C, Assets,
                          Shape(n, FALSE, Len(head), 0), rate, makers, head)
              /\ Taken(taken, fetched, makers, head, Assets)
              /\ IsSeq(makers) /\ IsSeq(head) /\ \A i \in 1..n : fetched[i] \in coins
    BY <2>1 DEF SwapTaken
  <2>4. /\ Len(makers) = n /\ Len(head) >= n /\ Len(head) \in Nat
        /\ \A i \in 1..n :
             /\ makers[i] = MakerInput(taken[i], fetched[i]) /\ head[i] = MakerOutput(taken[i])
             /\ OfferVerifies(taken[i], fetched[i])
        /\ \A i \in 1..Len(head) : i > n => \E a \in Assets : \E v : head[i] = WalletOutput(a, v, FALSE)
    BY <2>3 DEF Taken, IsSeq
  <2>5. \A i \in 1..n : ~makers[i].conf /\ BackedInput(makers[i]) /\ ExactInput(makers[i])
    <3> SUFFICES ASSUME NEW i \in 1..n
                 PROVE  ~makers[i].conf /\ BackedInput(makers[i]) /\ ExactInput(makers[i])
      OBVIOUS
    <3>1. PICK o, c : o = taken[i] /\ c = fetched[i]
      OBVIOUS
    <3>2. o \in Market \cup offers /\ c \in coins /\ ~c.conf /\ makers[i] = MakerInput(o, c)
      BY <2>2, <2>3, <2>4, <3>1 DEF OfferVerifies
    <3>3. c.conf = FALSE
      BY <3>2 DEF CoinsTrue
    <3>4. PICK in : in = MakerInput(o, c)
      OBVIOUS
    <3>5. in = [id |-> c.id, asset |-> c.asset, value |-> c.value, conf |-> FALSE,
                opens |-> <<c.asset, c.value>>, script |-> c.owner, derived |-> FALSE,
                sighash |-> "none", witness |-> o.sig, issuance |-> NoIssuance]
      BY <3>4 DEF MakerInput
    <3>6. /\ in.id = c.id /\ in.asset = c.asset /\ in.conf = c.conf /\ in.script = c.owner
          /\ in.witness = o.sig /\ in.value = c.value /\ ~in.conf
          /\ in.opens = <<c.asset, c.value>> /\ c.asset \in Assets
      <4>1. c.asset \in Assets
        BY <3>2 DEF CoinsTrue
      <4> QED BY <3>3, <3>5, <4>1
    <3>7. in = [id |-> in.id, asset |-> in.asset, value |-> in.value, conf |-> in.conf,
                opens |-> in.opens, script |-> in.script, derived |-> in.derived,
                sighash |-> in.sighash, witness |-> in.witness, issuance |-> in.issuance]
      BY <3>5
    <3>8. in.witness.by = Wallet => o \in offers
      <4>1. \A m \in Market : m.sig.by # Wallet
        BY LedgerAssumption
      <4> QED BY <3>2, <3>6, <4>1
    <3>9. BackedInput(in) /\ ExactInput(in)
      BY <3>2, <3>6, <3>7, <3>8 DEF BackedInput, ExactInput
    <3> QED BY <3>2, <3>4, <3>6, <3>9
  <2>6. \A i \in 1..Len(head) : BackedOutput(head[i]) /\ ~Blinded(head[i])
    <3> SUFFICES ASSUME NEW i \in 1..Len(head) PROVE BackedOutput(head[i]) /\ ~Blinded(head[i])
      OBVIOUS
    <3>1. CASE i > n
      <4>0. PICK a \in Assets : \E v : head[i] = WalletOutput(a, v, FALSE)
        BY <2>4, <3>1
      <4>1. PICK v : head[i] = WalletOutput(a, v, FALSE)
        BY <4>0
      <4> QED BY <4>1, OutputsBacked DEF WalletOutput, PsetOutput, Blinded
    <3>2. CASE i <= n
      <4>1. i \in 1..n
        BY <2>2, <2>4, <3>2
      <4>2. PICK o : o = taken[i]
        OBVIOUS
      <4>3. o.out.asset \in Assets /\ o.out.key = "none" /\ head[i] = MakerOutput(o)
        BY <2>2, <2>4, <4>1, <4>2 DEF OfferVerifies
      <4> QED BY <4>3, OutputsBacked DEF MakerOutput, PsetOutput, Blinded
    <3> QED BY <2>2, <2>4, <3>1, <3>2
  <2>7. /\ res = Reviewed(p, "SwapTake") /\ Analyzed(p, "SwapTake")
        /\ Funded(f, C, Assets, Shape(n, FALSE, Len(head), 0), rate) /\ Assembled(p, f, makers, head)
    BY <2>3 DEF Prepares
  <2>8. \A c \in C : c \in coins /\ c.owner = Wallet
    BY DEF Spendable, Unspent
  <2> HIDE DEF C
  <2>9. Backed(p) /\ Exact(p)
    <3>1. \A i \in 1..Len(makers) : BackedInput(makers[i]) /\ ExactInput(makers[i])
      BY <2>4, <2>5
    <3>2. Len(makers) \in Nat /\ Len(head) \in Nat
      BY <2>2, <2>4
    <3>3. \A i \in 1..Len(head) : BackedOutput(head[i])
      BY <2>6
    <3> QED BY <2>7, <2>8, <3>1, <3>2, <3>3, AssembledBacked
  <2>10. BundleTrue'
    BY <1>1, <2>7, <2>9, StartBacked
  <2>11. req.op = "swap" /\ req.rate = rate
    BY <1>3
  <2>12. bundle'.req = req
    BY <1>1 DEF Starts
  <2> HIDE DEF req
  <2>13. ReviewExact'
    BY <2>11, <2>12 DEF ReviewExact, ShowsRequest, Prepared
  <2>14. ChangeStaysConfidential'
    BY <1>1, <2>7, <2>11, StartPublic
  <2>15. FeeFair'
    <3>1. PICK shape : shape = Shape(n, FALSE, Len(head), 0)
      OBVIOUS
    <3>2. /\ shape.foreign = Len(makers) /\ shape.fixed = Len(head) /\ shape.blinded = 0
          /\ shape.issuance = FALSE /\ shape.blinded \in Nat
      BY <2>4, <3>1 DEF Shape
    <3>3. {i \in 1..Len(head) : Blinded(head[i])} = {}
      BY <2>6
    <3>4. Cardinality({i \in 1..Len(head) : Blinded(head[i])}) = shape.blinded
      BY <3>2, <3>3, FS_EmptySet
    <3>5. shape.issuance = (req.op = "issue")
      BY <2>11, <3>2
    <3>6. Prepares(res, "SwapTake", p, f, C, Assets, shape, req.rate, makers, head)
      BY <2>3, <2>11, <3>1
    <3>7. Len(makers) \in Nat /\ (\A i \in 1..Len(makers) : ~makers[i].conf) /\ Len(head) \in Nat
          /\ "SwapTake" # "SwapOffer"
      BY <2>2, <2>4, <2>5
    <3> QED BY <1>1, <3>2, <3>4, <3>5, <3>6, <3>7, StartFair
  <2> QED BY <2>10, <2>13, <2>14, <2>15 DEF Good
<1> QED BY <1>2, <1>3

-----------------------------------------------------------------------------
(* Swaps: what was asked for and shown bounds what is traded.                *)

(* Prices compare across: if x is no dearer than b and b no dearer than j,   *)
(* then x is no dearer than j.                                               *)
LEMMA CheaperStill ==
    ASSUME NEW wx \in Nat, NEW gx \in Nat, NEW wb \in Nat, NEW gb \in Nat, gb > 0,
           NEW wj \in Nat, NEW gj \in Nat, wx * gb <= wb * gx, wb * gj <= wj * gb
    PROVE  wx * gj <= wj * gx
<1>1. (wx * gb) * gj <= (wb * gx) * gj
  OBVIOUS
<1>2. (wb * gj) * gx <= (wj * gb) * gx
  OBVIOUS
<1>3. gb * (wx * gj) <= gb * (wj * gx)
  BY <1>1, <1>2
<1>4. wx * gj \in Int /\ wj * gx \in Int
  OBVIOUS
<1> QED BY <1>3, <1>4, Cancelled

(* Among finitely many offers one has the best price.                        *)
LEMMA BestPrice ==
    ASSUME NEW D, IsFiniteSet(D), D # {}, NEW w, NEW g,
           \A i \in D : w[i] \in Nat /\ g[i] \in Nat /\ g[i] > 0
    PROVE  \E i \in D : \A j \in D : w[i] * g[j] <= w[j] * g[i]
<1> DEFINE best(s, i) == \A j \in s : w[i] * g[j] <= w[j] * g[i]
           P == {s \in SUBSET D : s # {} => \E i \in s : best(s, i)}
<1>1. {} \in P
  OBVIOUS
<1>2. ASSUME NEW s \in SUBSET D, NEW x \in D, s \in P, x \notin s
      PROVE  s \cup {x} \in P
  <2>1. \E i \in s \cup {x} : best(s \cup {x}, i)
    <3>1. CASE s = {}
      BY <3>1
    <3>2. CASE s # {}
      <4>1. PICK b \in s : best(s, b)
        BY <1>2, <3>2
      <4>2. CASE w[b] * g[x] <= w[x] * g[b]
        BY <4>1, <4>2
      <4>3. CASE w[x] * g[b] <= w[b] * g[x]
        <5>1. ASSUME NEW j \in s PROVE w[x] * g[j] <= w[j] * g[x]
          <6>1. w[b] * g[j] <= w[j] * g[b]
            BY <4>1
          <6>2. b \in D /\ j \in D /\ x \in D
            OBVIOUS
          <6> QED BY <4>3, <6>1, <6>2, CheaperStill
        <5> QED BY <5>1
      <4>4. w[b] * g[x] \in Int /\ w[x] * g[b] \in Int
        OBVIOUS
      <4> QED BY <4>2, <4>3, <4>4
    <3> QED BY <3>1, <3>2
  <2> HIDE DEF best
  <2> QED BY <2>1
<1> HIDE DEF best
<1>3. D \in P
  <2> HIDE DEF P
  <2> QED BY <1>1, <1>2, ByAddition
<1>4. \E i \in D : best(D, i)
  BY <1>3
<1> QED BY <1>4 DEF best

(* The average is within the limit of the best price: so it is of any other. *)
LEMMA WithinLimit ==
    ASSUME NEW sold \in Nat, NEW bought \in Nat, bought > 0, NEW m \in Nat,
           NEW wb \in Nat, wb > 0, NEW gb \in Nat, gb > 0,
           NEW impact, impact = (IF sold * gb <= wb * bought THEN 0
                                 ELSE ((sold * gb - wb * bought) * 10000) \div (wb * bought)),
           ~(impact > m),
           NEW w \in Nat, NEW g \in Nat, g > 0, wb * g <= w * gb
    PROVE  sold * g * 10000 < w * bought * (10000 + m + 1)
<1>1. PICK x, y : x = sold * gb /\ y = wb * bought
  OBVIOUS
<1>2. x \in Nat /\ y \in Nat /\ y > 0
  BY <1>1
<1>3. x * 10000 < y * (10000 + m + 1)
  <2>1. CASE x <= y
    BY <1>2, <2>1
  <2>2. CASE ~(x <= y)
    <3>1. ((x - y) * 10000) \div y <= m
      <4>1. ((x - y) * 10000) \div y \in Int
        BY <1>2
      <4>2. impact = ((x - y) * 10000) \div y
        BY <1>1, <2>2
      <4> QED BY <4>1, <4>2
    <3>2. (x - y) * 10000 < y * (m + 1)
      <4>1. PICK z : z = (x - y) * 10000
        OBVIOUS
      <4>2. z \in Int
        BY <1>2, <4>1
      <4> QED BY <1>2, <3>1, <4>1, <4>2, Quotient
    <3>3. y * (10000 + m + 1) = y * 10000 + y * (m + 1)
      BY <1>2
    <3> QED BY <1>2, <3>2, <3>3
  <2> QED BY <2>1, <2>2
<1>4. PICK k : k = 10000 + m + 1
  OBVIOUS
<1>5. k \in Nat /\ k > 0
  BY <1>4
<1>6. (sold * gb) * 10000 < (wb * bought) * k
  BY <1>1, <1>3, <1>4
<1>7. gb * (sold * g * 10000) < gb * (w * bought * k)
  <2>1. ((sold * gb) * 10000) * g < ((wb * bought) * k) * g
    <3>1. PICK s, t : s = (sold * gb) * 10000 /\ t = (wb * bought) * k
      OBVIOUS
    <3>2. s \in Nat /\ t \in Nat /\ s < t
      BY <1>5, <1>6, <3>1
    <3>3. s * g < t * g
      BY <3>2
    <3> QED BY <3>1, <3>3
  <2>2. (wb * g) * (bought * k) <= (w * gb) * (bought * k)
    <3>1. PICK s, t, u : s = wb * g /\ t = w * gb /\ u = bought * k
      OBVIOUS
    <3>2. s \in Nat /\ t \in Nat /\ u \in Nat /\ s <= t
      BY <1>5, <3>1
    <3>3. s * u <= t * u
      BY <3>2
    <3> QED BY <3>1, <3>3
  <2>3. ((sold * gb) * 10000) * g = gb * (sold * g * 10000)
    OBVIOUS
  <2>4. ((wb * bought) * k) * g = (wb * g) * (bought * k)
    BY <1>5
  <2>5. (w * gb) * (bought * k) = gb * (w * bought * k)
    BY <1>5
  <2>6. /\ gb * (sold * g * 10000) \in Int /\ (wb * g) * (bought * k) \in Int
        /\ (w * gb) * (bought * k) \in Int
    BY <1>5
  <2> QED BY <2>1, <2>2, <2>3, <2>4, <2>5, <2>6
<1>8. sold * g * 10000 \in Int /\ w * bought * k \in Int
  BY <1>5
<1>9. sold * g * 10000 < w * bought * k
  BY <1>7, <1>8, CancelledStrictly
<1> QED BY <1>4, <1>9

(* An impact that does not fit is that of a price far from the best one.     *)
LEMMA FarFromBest ==
    ASSUME NEW x \in Nat, NEW y \in Nat, y > 0, NEW r \in Nat, ((x - y) * 10000) \div y >= r
    PROVE  (x * 10000) \div y >= 10000 + r
<1>1. PICK z, q : z = (x - y) * 10000 /\ q = z \div y
  OBVIOUS
<1>2. z \in Int /\ q \in Int /\ q >= r
  BY <1>1
<1>3. y * q <= z
  BY <1>1, <1>2, QuotientBelow
<1>4. y * r <= y * q
  BY <1>2
<1>5. y * (10000 + r) = y * 10000 + y * r /\ x * 10000 = z + y * 10000
  BY <1>1
<1>6. y * r \in Int /\ y * q \in Int
  BY <1>2
<1>7. y * (10000 + r) <= x * 10000
  BY <1>2, <1>3, <1>4, <1>5, <1>6
<1>8. x * 10000 \in Int /\ 10000 + r \in Int
  OBVIOUS
<1> QED BY <1>7, <1>8, QuotientAtLeast

(* What the offers want and give in all, as sums over their positions.       *)
Priceable(s) ==
    /\ IsSeq(s) /\ Len(s) > 0
    /\ \A i \in 1..Len(s) : /\ s[i].want.amount \in Nat /\ s[i].want.amount > 0
                            /\ s[i].give.amount \in Nat /\ s[i].give.amount > 0

(* Both sums are positive.                                                   *)
LEMMA QuoteSums ==
    ASSUME NEW s, Priceable(s)
    PROVE  /\ Wanted(s) \in Nat /\ Wanted(s) > 0 /\ Given(s) \in Nat /\ Given(s) > 0
           /\ Wanted(s) = SumFunctionOnSet([i \in 1..Len(s) |-> s[i].want.amount], 1..Len(s))
           /\ Given(s) = SumFunctionOnSet([i \in 1..Len(s) |-> s[i].give.amount], 1..Len(s))
<1>1. DOMAIN s = 1..Len(s) /\ Len(s) \in Nat /\ 1 \in 1..Len(s)
  BY IsSeqOf DEF Priceable, IsSeq
<1>2. IsFiniteSet(1..Len(s)) /\ 1..Len(s) # {}
  <2>1. IsFiniteSet(1..Len(s))
    BY <1>1, FS_Interval
  <2> QED BY <1>1, <2>1
<1>3. PICK w, g : w = [i \in 1..Len(s) |-> s[i].want.amount] /\ g = [i \in 1..Len(s) |-> s[i].give.amount]
  OBVIOUS
<1>4. \A i \in 1..Len(s) : w[i] \in Nat /\ w[i] > 0 /\ g[i] \in Nat /\ g[i] > 0
  BY <1>3 DEF Priceable
<1>5. Wanted(s) = SumFunctionOnSet(w, 1..Len(s)) /\ Given(s) = SumFunctionOnSet(g, 1..Len(s))
  <2>1. DOMAIN w = 1..Len(s) /\ DOMAIN g = 1..Len(s)
    BY <1>3
  <2> QED BY <1>1, <1>3, <2>1 DEF Wanted, Given, SumFunction
<1>6. /\ SumFunctionOnSet(w, 1..Len(s)) \in Nat /\ SumFunctionOnSet(w, 1..Len(s)) > 0
      /\ SumFunctionOnSet(g, 1..Len(s)) \in Nat /\ SumFunctionOnSet(g, 1..Len(s)) > 0
  BY <1>2, <1>4, SumPositive
<1> QED BY <1>3, <1>5, <1>6

(* price_impact_bps: within the limit, every maker is paid at a price that   *)
(* the average exceeds by no more than the limit, if the impact fits.        *)
LEMMA ImpactBounds ==
    ASSUME NEW s, Priceable(s), NEW m \in Nat, ~(Impact(s) > m)
    PROVE  \/ \A i \in 1..Len(s) : Wanted(s) * s[i].give.amount * 10000
                                    < s[i].want.amount * Given(s) * (10000 + m + 1)
           \/ \E i \in 1..Len(s) : (Wanted(s) * s[i].give.amount * 10000) \div (s[i].want.amount * Given(s))
                                    >= 10000 + ImpactRange
<1> DEFINE Near == \A i \in 1..Len(s) : Wanted(s) * s[i].give.amount * 10000
                                           < s[i].want.amount * Given(s) * (10000 + m + 1)
           Far == \E i \in 1..Len(s) :
                      (Wanted(s) * s[i].give.amount * 10000) \div (s[i].want.amount * Given(s))
                      >= 10000 + ImpactRange
<1> SUFFICES Near \/ Far
  OBVIOUS
<1> HIDE DEF Near, Far
<1>1. DOMAIN s = 1..Len(s) /\ Len(s) \in Nat /\ 1 \in 1..Len(s) /\ s # <<>>
  BY IsSeqOf, NoElement DEF Priceable, IsSeq
<1>2. PICK w, g : w = [j \in 1..Len(s) |-> s[j].want.amount] /\ g = [j \in 1..Len(s) |-> s[j].give.amount]
  OBVIOUS
<1>3. \A j \in 1..Len(s) : /\ w[j] \in Nat /\ w[j] > 0 /\ g[j] \in Nat /\ g[j] > 0
                           /\ w[j] = s[j].want.amount /\ g[j] = s[j].give.amount
  BY <1>2 DEF Priceable
<1>4. \E b \in DOMAIN s : \A j \in DOMAIN s :
        s[b].want.amount * s[j].give.amount <= s[j].want.amount * s[b].give.amount
  <2>1. IsFiniteSet(1..Len(s)) /\ 1..Len(s) # {}
    <3>1. IsFiniteSet(1..Len(s))
      BY <1>1, FS_Interval
    <3> QED BY <1>1, <3>1
  <2>2. PICK b \in 1..Len(s) : \A j \in 1..Len(s) : w[b] * g[j] <= w[j] * g[b]
    BY <1>3, <2>1, BestPrice
  <2>3. ASSUME NEW j \in 1..Len(s)
        PROVE  s[b].want.amount * s[j].give.amount <= s[j].want.amount * s[b].give.amount
    BY <1>3, <2>2
  <2> QED BY <1>1, <2>3
<1>5. /\ BestOffer(s) \in DOMAIN s
      /\ \A j \in DOMAIN s : s[BestOffer(s)].want.amount * s[j].give.amount
                               <= s[j].want.amount * s[BestOffer(s)].give.amount
  BY <1>4 DEF BestOffer
<1>6. PICK b, r : b = BestOffer(s) /\ r = ImpactRange
  OBVIOUS
<1>7. PICK wb, gb : wb = s[b].want.amount /\ gb = s[b].give.amount
  OBVIOUS
<1>8. PICK sold, bought : sold = Wanted(s) /\ bought = Given(s)
  OBVIOUS
<1>9. PICK x, y : x = sold * gb /\ y = wb * bought
  OBVIOUS
<1>10. /\ b \in 1..Len(s) /\ wb = w[b] /\ gb = g[b]
       /\ \A j \in 1..Len(s) : wb * g[j] <= w[j] * gb
  BY <1>1, <1>3, <1>5, <1>6, <1>7
<1>11. /\ sold \in Nat /\ bought \in Nat /\ bought > 0
       /\ wb \in Nat /\ wb > 0 /\ gb \in Nat /\ gb > 0
  BY <1>3, <1>8, <1>10, QuoteSums
<1>12. x \in Nat /\ y \in Nat /\ y > 0
  BY <1>9, <1>11
<1>13. r \in Nat /\ r > 0
  BY <1>6, LedgerAssumption
<1>14. PICK raw : raw = (IF x <= y THEN 0 ELSE ((x - y) * 10000) \div y)
  OBVIOUS
<1>15. Impact(s) = IF x <= y THEN 0 ELSE (((x - y) * 10000) \div y) % r
  BY <1>1, <1>6, <1>7, <1>8, <1>9 DEF Impact
<1>16. raw \in Nat
  <2>1. CASE x <= y
    BY <1>14, <2>1
  <2>2. CASE ~(x <= y)
    <3>1. PICK z : z = (x - y) * 10000
      OBVIOUS
    <3>2. z \in Int /\ y * 0 <= z
      BY <1>12, <2>2, <3>1
    <3>3. z \div y \in Int /\ z \div y >= 0
      BY <1>12, <3>2, QuotientAtLeast
    <3> QED BY <1>14, <2>2, <3>1, <3>3
  <2> QED BY <2>1, <2>2
<1>17. CASE raw < r
  <2>1. Impact(s) = raw
    <3>1. CASE x <= y
      BY <1>14, <1>15, <3>1
    <3>2. CASE ~(x <= y)
      <4>1. Impact(s) = raw % r
        BY <1>14, <1>15, <3>2
      <4> QED BY <1>13, <1>16, <1>17, <4>1
    <3> QED BY <3>1, <3>2
  <2>2. ~(raw > m) /\ raw = (IF sold * gb <= wb * bought THEN 0
                             ELSE ((sold * gb - wb * bought) * 10000) \div (wb * bought))
    BY <1>9, <1>14, <2>1
  <2>3. ASSUME NEW i \in 1..Len(s) PROVE sold * g[i] * 10000 < w[i] * bought * (10000 + m + 1)
    <3>1. PICK wi, gi : wi = w[i] /\ gi = g[i]
      OBVIOUS
    <3>2. wi \in Nat /\ gi \in Nat /\ gi > 0 /\ wb * gi <= wi * gb
      BY <1>3, <1>10, <3>1
    <3>3. sold * gi * 10000 < wi * bought * (10000 + m + 1)
      BY <1>11, <2>2, <3>2, WithinLimit
    <3> QED BY <3>1, <3>3
  <2>4. \A i \in 1..Len(s) : Wanted(s) * s[i].give.amount * 10000
                                < s[i].want.amount * Given(s) * (10000 + m + 1)
    BY <1>3, <1>8, <2>3
  <2> QED BY <2>4 DEF Near
<1>18. CASE raw >= r
  <2>1. ~(x <= y) /\ ((x - y) * 10000) \div y >= r
    BY <1>13, <1>14, <1>18
  <2>2. (x * 10000) \div y >= 10000 + r
    BY <1>12, <1>13, <2>1, FarFromBest
  <2>3. (Wanted(s) * s[b].give.amount * 10000) \div (s[b].want.amount * Given(s)) >= 10000 + ImpactRange
    BY <1>6, <1>7, <1>8, <1>9, <2>2
  <2> QED BY <1>10, <2>3 DEF Far
<1>19. raw < r \/ raw >= r
  BY ONLY <1>13, <1>16
<1> QED BY ONLY <1>17, <1>18, <1>19

(* What the wallet trades: it pays what the makers want, gets what they      *)
(* give, and nothing else changes.                                           *)
LEMMA SwapBalance ==
    ASSUME NEW p, Analyzed(p, "SwapTake"), IsSeq(p.ins), IsSeq(p.outs),
           NEW s, Priceable(s), NEW sell, NEW buy, sell # buy, Trades(p, s, sell, buy)
    PROVE  /\ {sell, buy} \subseteq AssetsOf(p)
           /\ BalanceChange(p, sell) = -Wanted(s) /\ BalanceChange(p, buy) = Given(s)
           /\ \A a \in AssetsOf(p) : a \notin {sell, buy} => BalanceChange(p, a) = 0
<1> DEFINE n == Len(s)
<1>1. n \in Nat /\ n > 0 /\ IsFiniteSet(1..n)
  <2>1. n \in Nat /\ n > 0
    BY DEF Priceable, IsSeq
  <2> QED BY <2>1, FS_Interval
<1>2. {sell, buy} \subseteq AssetsOf(p)
  <2>1. 1 \in 1..n
    BY <1>1
  <2>2. p.ins[1].asset = buy /\ 1 \in DOMAIN p.ins /\ p.outs[1].asset = sell /\ 1 \in DOMAIN p.outs
    BY <2>1 DEF Trades
  <2> QED BY <2>2 DEF AssetsOf
<1>3. \A i \in DOMAIN p.ins : p.ins[i].issuance = NoIssuance
  BY DEF Analyzed, KindAccepted
<1>4. \A a : SumFunctionOnSet(IssuedBy(p, a), DOMAIN p.ins) = 0
  BY <1>3, NothingIssued
<1>5. \A a : /\ ForeignOf(p, a) = IF a = buy THEN 1..n ELSE {}
             /\ ExternalOf(p, a) = IF a = sell THEN 1..n ELSE {}
  <2> SUFFICES ASSUME NEW a
               PROVE  /\ ForeignOf(p, a) = IF a = buy THEN 1..n ELSE {}
                      /\ ExternalOf(p, a) = IF a = sell THEN 1..n ELSE {}
    OBVIOUS
  <2>1. ForeignOf(p, a) = {i \in 1..n : p.ins[i].asset = a}
    BY DEF Trades, ForeignOf
  <2>2. ExternalOf(p, a) = {i \in 1..n : p.outs[i].asset = a}
    BY DEF Trades, ExternalOf
  <2>3. \A i \in 1..n : p.ins[i].asset = buy /\ p.outs[i].asset = sell
    BY DEF Trades
  <2> QED BY <2>1, <2>2, <2>3
<1>6. SumFunctionOnSet(Values(p.ins), 1..n) = Given(s) /\ SumFunctionOnSet(Values(p.outs), 1..n) = Wanted(s)
  <2>1. PICK w, g : w = [i \in 1..n |-> s[i].want.amount] /\ g = [i \in 1..n |-> s[i].give.amount]
    OBVIOUS
  <2>2. \A i \in 1..n : Values(p.ins)[i] = g[i] /\ Values(p.outs)[i] = w[i]
    BY <2>1 DEF Trades, Values
  <2>3. SumFunctionOnSet(Values(p.ins), 1..n) = SumFunctionOnSet(g, 1..n)
    BY <1>1, <2>2, SumSame
  <2>4. SumFunctionOnSet(Values(p.outs), 1..n) = SumFunctionOnSet(w, 1..n)
    BY <1>1, <2>2, SumSame
  <2> QED BY <2>1, <2>3, <2>4, QuoteSums
<1>7. \A a \in AssetsOf(p) : BalanceChange(p, a) = SumFunctionOnSet(Values(p.ins), ForeignOf(p, a)) + 0
                                                 - SumFunctionOnSet(Values(p.outs), ExternalOf(p, a))
  <2> SUFFICES ASSUME NEW a \in AssetsOf(p)
               PROVE  BalanceChange(p, a) = SumFunctionOnSet(Values(p.ins), ForeignOf(p, a)) + 0
                                          - SumFunctionOnSet(Values(p.outs), ExternalOf(p, a))
    OBVIOUS
  <2>1. BalanceChange(p, a) = SumFunctionOnSet(Values(p.ins), ForeignOf(p, a))
                            + SumFunctionOnSet(IssuedBy(p, a), DOMAIN p.ins)
                            - SumFunctionOnSet(Values(p.outs), ExternalOf(p, a))
    BY BalanceBy
  <2> QED BY <1>4, <2>1
<1>8. SumFunctionOnSet(Values(p.ins), {}) = 0 /\ SumFunctionOnSet(Values(p.outs), {}) = 0
  BY SumEmpty
<1>9. Wanted(s) \in Nat /\ Given(s) \in Nat
  BY QuoteSums
<1>10. BalanceChange(p, sell) = -Wanted(s)
  <2>1. BalanceChange(p, sell) = 0 + 0 - Wanted(s)
    BY <1>2, <1>5, <1>6, <1>7, <1>8
  <2> QED BY <1>9, <2>1
<1>11. BalanceChange(p, buy) = Given(s)
  <2>1. BalanceChange(p, buy) = Given(s) + 0 - 0
    BY <1>2, <1>5, <1>6, <1>7, <1>8
  <2> QED BY <1>9, <2>1
<1>12. ASSUME NEW a \in AssetsOf(p), a \notin {sell, buy} PROVE BalanceChange(p, a) = 0
  <2>1. ForeignOf(p, a) = {} /\ ExternalOf(p, a) = {}
    BY <1>5, <1>12
  <2>2. BalanceChange(p, a) = 0 + 0 - 0
    BY <1>7, <1>8, <2>1
  <2> QED BY <2>2
<1> QED BY <1>2, <1>10, <1>11, <1>12

(* A verified quote has offers at positive prices, between two assets.       *)
LEMMA QuotePriceable ==
    ASSUME CoinsTrue, NEW s, IsSeq(s), Len(s) > 0, NEW fetched, NEW makers, NEW head, NEW A,
           Taken(s, fetched, makers, head, A), \A i \in 1..Len(s) : fetched[i] \in coins,
           \A i \in 1..Len(s) : s[i].out.value \in Int, NEW sell, NEW buy,
           \A i \in 1..Len(s) : s[i].give.asset = buy /\ s[i].want.asset = sell
    PROVE  Priceable(s) /\ sell # buy
<1>1. ASSUME NEW i \in 1..Len(s)
      PROVE  /\ s[i].want.amount \in Nat /\ s[i].want.amount > 0
             /\ s[i].give.amount \in Nat /\ s[i].give.amount > 0
             /\ sell # buy
  <2>1. PICK o, c : o = s[i] /\ c = fetched[i]
    OBVIOUS
  <2>2. OfferVerifies(o, c) /\ o.give.asset = buy /\ o.want.asset = sell /\ c \in coins /\ o.out.value \in Int
    BY <2>1 DEF Taken
  <2>3. /\ o.give = [asset |-> c.asset, amount |-> c.value] /\ o.out.value > 0
        /\ o.want = [asset |-> o.out.asset, amount |-> o.out.value] /\ c.asset # o.out.asset
    BY <2>2 DEF OfferVerifies
  <2>4. c.value \in 1..MaxMoney
    BY <2>2 DEF CoinsTrue
  <2>5. c.value \in Nat /\ c.value > 0
    BY <2>4, BoundsAssumption
  <2>6. o.give.amount = c.value /\ o.want.amount = o.out.value /\ sell # buy
    BY <2>2, <2>3
  <2> QED BY <2>1, <2>2, <2>3, <2>5, <2>6
<1>2. 1 \in 1..Len(s)
  BY DEF IsSeq
<1> QED BY <1>1, <1>2 DEF Priceable

(* SwapBounded, of the parts of a bundle.                                    *)
SwapWithin(req, review, p) ==
    LET makers == {i \in DOMAIN p.ins : ~p.ins[i].derived}
        sold == -BalanceChange(p, req.sell)
        bought == BalanceChange(p, req.buy)
    IN  /\ review.changes = [a \in {req.sell, req.buy} |-> IF a = req.sell THEN -sold ELSE bought]
        /\ sold > 0 /\ bought > 0
        /\ (IF req.side = "exact_in" THEN sold ELSE bought) <= req.amount
        /\ \/ \A i \in makers :
                sold * p.ins[i].value * 10000 < p.outs[i].value * bought * (10000 + req.maxBps + 1)
           \/ \E i \in makers :
                (sold * p.ins[i].value * 10000) \div (p.outs[i].value * bought) >= 10000 + ImpactRange

(* Swap: what was asked for and shown bounds what is traded, whatever the    *)
(* server quoted.                                                            *)
LEMMA SwapBounds ==
    ASSUME CoinsTrue, OffersTrue, NEW q, q \in Quotes, NEW sell, NEW buy, NEW amount, NEW side,
           side \in {"exact_in", "exact_out"}, NEW maxBps \in Nat, NEW rate,
           Swap(q, sell, buy, amount, side, maxBps, rate)
    PROVE  SwapBounded'
<1> DEFINE full == [op |-> "swap", quote |-> q, sell |-> sell, buy |-> buy,
                    amount |-> amount, side |-> side, maxBps |-> maxBps, rate |-> rate]
           s == q.offers
           n == Len(s)
<1>1. PICK res : res = PrepareSwap(q, sell, buy, amount, side, maxBps, rate)
  OBVIOUS
<1>2. bundle' = [req |-> IF res.ok THEN full ELSE [op |-> "swap"], from |-> Spendable,
                 res |-> res, altered |-> FALSE]
  BY <1>1 DEF Swap, Start
<1>3. CASE ~res.ok
  <2>1. ~bundle'.res.ok
    BY <1>2, <1>3
  <2> QED BY SMTT(30), <2>1 DEF SwapBounded, Prepared
<1>4. CASE res.ok
  <2>1. /\ QuoteVerifies(q, sell, buy, amount, side) /\ n \in Nat /\ n > 0
        /\ ~(Impact(s) > maxBps) /\ IsSeq(s) /\ \A i \in 1..n : s[i].out.value \in Int
        /\ \E p, f, makers, head, fetched :
             /\ Prepares(res, "SwapTake", p, f, {c \in Spendable : ~c.conf}, Assets,
                         Shape(n, FALSE, Len(head), 0), rate, makers, head)
             /\ Taken(s, fetched, makers, head, Assets)
             /\ IsSeq(makers) /\ IsSeq(head)
             /\ \A i \in 1..n : fetched[i] \in coins
    <3>1. SwapTaken(res, q, sell, buy, amount, side, maxBps, rate)
      BY <1>1, <1>4, SwapTakes
    <3> QED BY <3>1 DEF SwapTaken
  <2> DEFINE C == {c \in Spendable : ~c.conf}
  <2>2. PICK p, f, makers, head, fetched :
             /\ Prepares(res, "SwapTake", p, f, C, Assets,
                         Shape(n, FALSE, Len(head), 0), rate, makers, head)
             /\ Taken(s, fetched, makers, head, Assets)
             /\ IsSeq(makers) /\ IsSeq(head)
             /\ \A i \in 1..n : fetched[i] \in coins
    BY <2>1
  <2> HIDE DEF C
  <2>3. /\ res = Reviewed(p, "SwapTake") /\ Analyzed(p, "SwapTake") /\ Assembled(p, f, makers, head)
        /\ f.inputs \in Seq(C) /\ f.changes \in Seq(Change(Assets))
    BY <2>2 DEF Prepares, Funded
  <2>4. IsSeq(p.ins) /\ IsSeq(p.outs)
    BY <2>3 DEF Assembled
  <2>5. /\ \A i \in 1..n : s[i].give.asset = buy /\ s[i].want.asset = sell
        /\ (IF side = "exact_out" THEN Given(s) ELSE Wanted(s)) <= amount
    <3>1. DOMAIN s = 1..n
      BY <2>1, IsSeqOf
    <3> QED BY <2>1, <3>1 DEF QuoteVerifies
  <2>6. Priceable(s) /\ sell # buy
    BY <2>1, <2>2, <2>5, QuotePriceable, ZenonT(60)
  <2>7. Trades(p, s, sell, buy)
    BY <2>1, <2>2, <2>3, <2>5, SwapTrades
  <2>8. /\ {sell, buy} \subseteq AssetsOf(p)
        /\ BalanceChange(p, sell) = -Wanted(s) /\ BalanceChange(p, buy) = Given(s)
        /\ \A a \in AssetsOf(p) : a \notin {sell, buy} => BalanceChange(p, a) = 0
    BY <2>3, <2>4, <2>6, <2>7, SwapBalance
  <2>9. PICK w, g : w = Wanted(s) /\ g = Given(s)
    OBVIOUS
  <2>10. w \in Nat /\ w > 0 /\ g \in Nat /\ g > 0
    BY <2>6, <2>9, QuoteSums
  <2>11. \/ \A i \in 1..n : w * s[i].give.amount * 10000 < s[i].want.amount * g * (10000 + maxBps + 1)
         \/ \E i \in 1..n : (w * s[i].give.amount * 10000) \div (s[i].want.amount * g) >= 10000 + ImpactRange
    BY SMTT(30), <2>1, <2>6, <2>9, ImpactBounds
  <2>12. PICK x, y : x = BalanceChange(p, sell) /\ y = BalanceChange(p, buy)
    OBVIOUS
  <2>13. x = -w /\ y = g /\ -x = w /\ x # 0 /\ y # 0
    BY <2>8, <2>9, <2>10, <2>12
  <2>14. {b \in AssetsOf(p) : BalanceChange(p, b) # 0} = {sell, buy}
    BY <2>8, <2>12, <2>13
  <2>15. res.review.changes = [a \in {sell, buy} |-> IF a = sell THEN -w ELSE g]
    <3>1. res.review = TxReview(p, "SwapTake")
      BY <2>3 DEF Reviewed
    <3>2. res.review.changes = [a \in {sell, buy} |-> BalanceChange(p, a)]
      BY <2>14, <3>1 DEF TxReview
    <3>3. \A a \in {sell, buy} : BalanceChange(p, a) = IF a = sell THEN -w ELSE g
      BY <2>6, <2>12, <2>13
    <3> QED BY <3>2, <3>3
  <2>16. /\ bundle'.req = full /\ bundle'.res = res /\ ~bundle'.altered /\ res.ok /\ res.pset = p
    BY <1>2, <1>4, <2>3 DEF Reviewed
  <2>17. /\ full.op = "swap" /\ full.sell = sell /\ full.buy = buy /\ full.side = side
         /\ full.amount = amount /\ full.maxBps = maxBps
    OBVIOUS
  <2>18. (IF side = "exact_in" THEN w ELSE g) <= amount
    BY <2>5, <2>9
  <2>19. \/ \A i \in {j \in DOMAIN p.ins : ~p.ins[j].derived} :
              w * p.ins[i].value * 10000 < p.outs[i].value * g * (10000 + maxBps + 1)
         \/ \E i \in {j \in DOMAIN p.ins : ~p.ins[j].derived} :
              (w * p.ins[i].value * 10000) \div (p.outs[i].value * g) >= 10000 + ImpactRange
    <3>1. /\ {j \in DOMAIN p.ins : ~p.ins[j].derived} = 1..n
          /\ \A i \in 1..n : p.ins[i].value = s[i].give.amount /\ p.outs[i].value = s[i].want.amount
      BY <2>7 DEF Trades
    <3>2. CASE \A i \in 1..n : w * s[i].give.amount * 10000 < s[i].want.amount * g * (10000 + maxBps + 1)
      <4>1. ASSUME NEW i \in 1..n
            PROVE  w * p.ins[i].value * 10000 < p.outs[i].value * g * (10000 + maxBps + 1)
        BY ONLY <3>1, <3>2, i \in 1..n
      <4> QED BY <3>1, <4>1
    <3>3. ASSUME NEW i \in 1..n,
                 (w * s[i].give.amount * 10000) \div (s[i].want.amount * g) >= 10000 + ImpactRange
          PROVE  (w * p.ins[i].value * 10000) \div (p.outs[i].value * g) >= 10000 + ImpactRange
      BY ONLY <3>1, <3>3
    <3>4. CASE \E i \in 1..n : (w * s[i].give.amount * 10000) \div (s[i].want.amount * g)
                                    >= 10000 + ImpactRange
      <4>1. PICK i \in 1..n : (w * s[i].give.amount * 10000) \div (s[i].want.amount * g)
                                    >= 10000 + ImpactRange
        BY <3>4
      <4>2. (w * p.ins[i].value * 10000) \div (p.outs[i].value * g) >= 10000 + ImpactRange
        BY <3>3, <4>1
      <4> QED BY <3>1, <4>2
    <3> QED BY ONLY <2>11, <3>2, <3>4
  <2> HIDE DEF full
  <2>20. PICK r, changes : r = full /\ changes = res.review.changes
    OBVIOUS
  <2>21. /\ r.sell = sell /\ r.buy = buy /\ r.side = side /\ r.amount = amount /\ r.maxBps = maxBps
         /\ -BalanceChange(p, sell) = w /\ BalanceChange(p, buy) = g
    BY <2>12, <2>13, <2>17, <2>20
  <2>22. -w = -(-BalanceChange(p, sell))
    BY <2>21
  <2>23. res.review.changes = [a \in {sell, buy} |-> IF a = sell THEN -(-BalanceChange(p, sell))
                                                  ELSE BalanceChange(p, buy)]
    BY <2>15, <2>21, <2>22
  <2>24. SwapWithin(r, res.review, p)
    BY <2>10, <2>18, <2>19, <2>21, <2>23 DEF SwapWithin
  <2>25. SwapWithin(full, res.review, p)
    BY <2>20, <2>24
  <2> QED BY <2>16, <2>25 DEF SwapBounded, SwapWithin
<1> QED BY <1>3, <1>4

(* A bundle that stays as it is keeps its bounds.                            *)
LEMMA SwapBoundedStays ==
    ASSUME SwapBounded, bundle' = bundle PROVE SwapBounded'
BY SMTT(60) DEF SwapBounded, Prepared

(* A bundle that is altered, failed or of another request promises nothing.  *)
LEMMA SwapBoundedGone ==
    ASSUME bundle'.altered \/ ~bundle'.res.ok \/ bundle'.req.op # "swap" PROVE SwapBounded'
BY SMTT(30) DEF SwapBounded, Prepared

-----------------------------------------------------------------------------
(* The ledger: transactions applied to it, and the wallet's balance.         *)

(* What coins are worth.                                                     *)
Priced(S) == IsFiniteSet(S) /\ \A c \in S : c.value \in Int

(* The worth of coins is the sum of their values, ...                        *)
LEMMA WorthIs ==
    ASSUME NEW S, Priced(S), NEW T, T \subseteq S
    PROVE  Priced(T) /\ Worth(T) \in Int /\ Worth(T) = SumFunctionOnSet([c \in S |-> c.value], T)
<1> DEFINE f == [c \in S |-> c.value]
           g == [c \in T |-> c.value]
<1>1. IsFiniteSet(T)
  BY FS_Subset DEF Priced
<1>2. \A c \in T : f[c] = g[c] /\ f[c] \in Int /\ c.value \in Int
  BY DEF Priced
<1>3. Worth(T) = SumFunctionOnSet(g, T)
  BY DEF Worth, SumFunction
<1> HIDE DEF f, g
<1>4. SumFunctionOnSet(f, T) = SumFunctionOnSet(g, T) /\ SumFunctionOnSet(f, T) \in Int
  BY <1>1, <1>2, SumSame, SumType
<1> QED BY <1>1, <1>2, <1>3, <1>4 DEF f, Priced

(* ... and that of separate coins adds up.                                   *)
LEMMA WorthUnion ==
    ASSUME NEW S, NEW T, Priced(S), Priced(T), S \cap T = {}
    PROVE  /\ Priced(S \cup T) /\ Worth(S) \in Int /\ Worth(T) \in Int
           /\ Worth(S \cup T) = Worth(S) + Worth(T)
<1>1. Priced(S \cup T)
  BY FS_Union DEF Priced
<1>2. PICK f : f = [c \in S \cup T |-> c.value]
  OBVIOUS
<1>3. \A c \in S \cup T : f[c] \in Int
  BY <1>1, <1>2 DEF Priced
<1>4. /\ Worth(S) = SumFunctionOnSet(f, S) /\ Worth(S) \in Int
      /\ Worth(T) = SumFunctionOnSet(f, T) /\ Worth(T) \in Int
      /\ Worth(S \cup T) = SumFunctionOnSet(f, S \cup T)
  <2>1. S \subseteq S \cup T /\ T \subseteq S \cup T
    OBVIOUS
  <2> QED BY <1>1, <1>2, <2>1, WorthIs
<1>5. IsFiniteSet(S) /\ IsFiniteSet(T)
  BY DEF Priced
<1> QED BY <1>1, <1>3, <1>4, <1>5, SumUnion

(* The worth of coins numbered by some indices.                              *)
LEMMA WorthNumbered ==
    ASSUME NEW I, IsFiniteSet(I), NEW h, NEW S, h \in [I -> S],
           \A c \in S : \E i \in I : h[i] = c, \A i, j \in I : h[i] = h[j] => i = j,
           NEW v, \A i \in I : v[i] = h[i].value /\ v[i] \in Int
    PROVE  Priced(S) /\ Worth(S) = SumFunctionOnSet(v, I)
<1>1. PICK f : f = [c \in S |-> c.value]
  OBVIOUS
<1>2. \A i \in I : v[i] = f[h[i]]
  BY <1>1
<1>3. IsFiniteSet(S) /\ SumFunctionOnSet(v, I) = SumFunctionOnSet(f, S)
  <2>1. \A i \in I : v[i] \in Int
    OBVIOUS
  <2>2. \A x, y \in I : h[x] = h[y] => x = y
    OBVIOUS
  <2>3. \A y \in S : \E x \in I : h[x] = y
    OBVIOUS
  <2> QED BY ONLY IsFiniteSet(I), h \in [I -> S], <1>2, <2>1, <2>2, <2>3, SumRenamed
<1>4. Worth(S) = SumFunctionOnSet(f, S)
  BY <1>1 DEF Worth, SumFunction
<1>5. \A c \in S : c.value \in Int
  OBVIOUS
<1> QED BY <1>3, <1>4, <1>5 DEF Priced

(* Ids of spent coins do not run ahead of the ledger.                        *)
Base == Slots * (mined + 2)

SpentTrue == spent \subseteq 0..Base

(* A transaction the ledger can carry, and the wallet's part in it.          *)
Sound(tx) ==
    /\ IsSeq(tx.ins) /\ IsSeq(tx.outs) /\ Len(tx.outs) <= Slots
    /\ \A i \in 1..Len(tx.outs) : tx.outs[i].value \in 1..MaxMoney /\ tx.outs[i].asset \in Assets
    /\ \A i \in 1..Len(tx.ins) :
         /\ tx.ins[i].id \in 0..Base
         /\ Exists(tx.ins[i].id) => /\ CoinAt(tx.ins[i].id) \in Unspent
                                    /\ CoinAt(tx.ins[i].id).value = tx.ins[i].value
    /\ \A i, j \in 1..Len(tx.ins) : tx.ins[i].id = tx.ins[j].id => i = j

Gone(tx, a) ==
    {i \in DOMAIN tx.ins : LET c == CoinAt(tx.ins[i].id)
                           IN  Exists(tx.ins[i].id) /\ c.owner = Wallet /\ c.asset = a}

Gained(tx, a) ==
    {i \in DOMAIN tx.outs : /\ tx.outs[i].to = Wallet /\ tx.outs[i].key \in {"none", Wallet}
                            /\ tx.outs[i].asset = a}

Purse(a) == {c \in Unspent : c.owner = Wallet /\ c.asset = a}

-----------------------------------------------------------------------------
(* When the wallet gives up for want of funds.                               *)

(* Selecting a coin more at a time, largest first, misses nothing: no coins  *)
(* of the pool are worth more than as many from its beginning.               *)
LEMMA PrefixIsMost ==
    ASSUME NEW C, Proper(C), NEW a, NEW S, S \subseteq {c \in C : c.asset = a}, S # {}
    PROVE  LET k == Cardinality(S)
           IN  /\ k \in 1..Len(Pool(C, a))
               /\ Worth(S) <= Total(SubSeq(Pool(C, a), 1, k), a)
<1> DEFINE P == {c \in C : c.asset = a}
           r == Pool(C, a)
           n == Cardinality(P)
           k == Cardinality(S)
<1>1. IsFiniteSet(P) /\ IsFiniteSet(S) /\ n \in Nat /\ k \in Nat /\ k <= n /\ k > 0
  <2>1. IsFiniteSet(P)
    BY FS_Subset DEF Proper
  <2> HIDE DEF P
  <2>2. S \subseteq P
    BY DEF P
  <2> QED BY <2>1, <2>2, FS_Subset, FS_CardinalityType, FS_EmptySet
<1>2. /\ \A c \in P : c.value \in Int /\ c.id \in Int /\ c.asset = a
      /\ \A c, d \in P : c.id = d.id => c = d
      /\ r = Rank(P, Before) /\ S \subseteq P
  BY DEF Proper, Pool
<1> HIDE DEF P
<1>3. r \in Seq(P) /\ Len(r) = n
  BY <1>1, <1>2, RankCoins
<1>4. /\ \A i \in 1..n : r[i] \in P
      /\ \A c \in P : \E i \in 1..n : r[i] = c
      /\ \A i, j \in 1..n : r[i] = r[j] => i = j
      /\ \A i, j \in 1..n : i < j => r[j].value <= r[i].value
  <2>1. ListsDown(Rank(P, Before), P)
    BY ONLY <1>1, <1>2, LargestFirst
  <2>2. ListsDown(r, P)
    BY <1>2, <2>1
  <2> QED BY <2>2 DEF ListsDown, n
<1> HIDE DEF r, n, k
<1>5. PICK v : v = [i \in 1..n |-> r[i].value]
  OBVIOUS
<1>6. /\ \A i \in 1..n : v[i] \in Int /\ v[i] = r[i].value
      /\ \A i, j \in 1..n : i < j => v[j] <= v[i]
  BY <1>2, <1>4, <1>5
<1>7. PICK I : I = {i \in 1..n : r[i] \in S}
  OBVIOUS
<1>8. PICK h : h = [i \in I |-> r[i]]
  OBVIOUS
<1>9. /\ h \in [I -> S] /\ \A c \in S : \E i \in I : h[i] = c
      /\ \A i, j \in I : h[i] = h[j] => i = j
      /\ I \subseteq 1..n
  BY <1>2, <1>4, <1>7, <1>8
<1>10. IsFiniteSet(I)
  BY <1>1, <1>9, Positions
<1>11. Cardinality(I) = k
  <2>1. h \in Bijection(I, S)
    BY <1>9 DEF Bijection, Injection, Surjection, IsInjective
  <2> QED BY <1>10, <2>1, FS_Bijection DEF ExistsBijection, k
<1>12. Worth(S) = SumFunctionOnSet(v, I)
  <2>1. \A i \in I : v[i] = h[i].value /\ v[i] \in Int
    BY <1>6, <1>8, <1>9
  <2>2. h \in [I -> S]
    BY <1>9
  <2>3. \A c \in S : \E i \in I : h[i] = c
    BY <1>9
  <2>4. \A i, j \in I : h[i] = h[j] => i = j
    BY <1>9
  <2>5. Priced(S) /\ Worth(S) = SumFunctionOnSet(v, I)
    BY <1>10, <2>1, <2>2, <2>3, <2>4, WorthNumbered
  <2> QED BY <2>5
<1>13. SumFunctionOnSet(v, I) <= SumFunctionOnSet(v, 1..k)
  <2>1. \A i \in 1..n : v[i] \in Int
    BY <1>6
  <2>2. \A i, j \in 1..n : i < j => v[j] <= v[i]
    BY <1>6
  <2>3. k \in 1..n /\ n \in Nat
    BY <1>1 DEF n, k
  <2>4. I \subseteq 1..n
    BY <1>9
  <2> QED BY ONLY <1>11, <2>1, <2>2, <2>3, <2>4, FirstAreMost
<1>14. Total(SubSeq(r, 1, k), a) = SumFunctionOnSet(v, 1..k)
  <2>1. PICK s : s = SubSeq(r, 1, k)
    OBVIOUS
  <2>2. DOMAIN s = 1..k /\ \A i \in 1..k : s[i] = r[i] /\ i \in 1..n
    BY <1>1, <1>3, <2>1
  <2>3. {i \in DOMAIN s : s[i].asset = a} = 1..k
    BY <1>2, <1>4, <2>2
  <2>4. \A i \in 1..k : Values(s)[i] = v[i]
    BY <1>6, <2>2 DEF Values
  <2>5. IsFiniteSet(1..k)
    BY <1>1, FS_Interval
  <2>6. SumFunctionOnSet(Values(s), 1..k) = SumFunctionOnSet(v, 1..k)
    BY <2>4, <2>5, SumSame
  <2> QED BY <2>1, <2>3, <2>6 DEF Total
<1> QED BY <1>1, <1>3, <1>12, <1>13, <1>14 DEF r, k

(* prepare_transfer of the policy asset: without confidential coins, the     *)
(* wallet is told that it lacks funds only if it does: no coins at all make  *)
(* up the amount and the fee of spending them.                               *)
LEMMA TransferFails ==
    ASSUME NEW C, Proper(C), \A c \in C : c.asset = Policy => ~c.conf, NEW amount, NEW rate,
           PrepareTransfer(C, Policy, amount, "none", rate) = Failure("InsufficientFunds"),
           NEW S, S \subseteq {c \in C : c.asset = Policy}
    PROVE  Worth(S) < amount + rate * Vsize(Cardinality(S), FALSE, 3, 0)
<1> DEFINE shape == Shape(0, FALSE, 1, 0)
           funding == Fund(<<>>, C, Only(Policy, amount), shape, rate)
           k == Cardinality(S)
           size == Vsize(k, FALSE, 3, 0)
<1>1. Failure("InvalidRequest") # Failure("InsufficientFunds") /\ Failure("InvalidFeeRate") # Failure("InsufficientFunds")
  BY DEF Failure
<1>2. amount \in 1..MaxMoney
  BY <1>1 DEF PrepareTransfer, AmountAccepted
<1>3. funding = Failure("InsufficientFunds")
  <2>1. PICK ins, outs, n : \/ PrepareTransfer(C, Policy, amount, "none", rate) = Failure("InvalidRequest")
                            \/ PrepareTransfer(C, Policy, amount, "none", rate) = funding
                            \/ PrepareTransfer(C, Policy, amount, "none", rate) = Finish(ins, outs, "Transfer", n)
    <3> DEFINE theIns == WalletInputs(funding.inputs)
               theOuts == <<Recipient(Policy, amount, "none")>> \o ChangesAndFee(funding)
               theLen == Len(funding.inputs)
    <3>1. \/ PrepareTransfer(C, Policy, amount, "none", rate) = Failure("InvalidRequest")
          \/ PrepareTransfer(C, Policy, amount, "none", rate) = funding
          \/ PrepareTransfer(C, Policy, amount, "none", rate) = Finish(theIns, theOuts, "Transfer", theLen)
      BY DEF PrepareTransfer
    <3> HIDE DEF theIns, theOuts, theLen, funding
    <3> QED BY <3>1
  <2> HIDE DEF funding
  <2> QED BY <1>1, <2>1, FinishNotFunds
<1>4. rate \in 1..MaxFeeRate
  BY <1>1, <1>3 DEF Fund
<1>5. PayFee(<<>>, <<>>, Pool(C, Policy), amount, shape, rate) = Failure("InsufficientFunds")
  BY <1>3, <1>4, FundPolicy
<1>6. rate \in Nat /\ amount \in Int /\ amount > 0
  BY <1>2, <1>4, BoundsAssumption
<1>7. IsFiniteSet(S) /\ k \in Nat
  <2>1. IsFiniteSet(C) /\ S \subseteq C
    BY DEF Proper
  <2> QED BY <2>1, FS_Subset, FS_CardinalityType
<1>8. Priced(S) /\ Worth(S) \in Int
  <2>1. Priced(S)
    BY <1>7 DEF Priced, Proper
  <2> QED BY <2>1, WorthIs
<1> HIDE DEF k, shape
<1>9. size \in Nat
  BY <1>7 DEF Vsize
<1>10. rate * size \in Nat
  <2> HIDE DEF size
  <2> QED BY <1>6, <1>9
<1>11. CASE S = {}
  <2>1. Worth(S) = 0
    BY <1>11, SumEmpty DEF Worth, SumFunction
  <2> HIDE DEF size
  <2>2. Worth(S) < amount + rate * size
    BY <1>6, <1>10, <2>1
  <2> QED BY <2>2 DEF size, k
<1>12. CASE S # {}
  <2>1. k \in 1..Len(Pool(C, Policy)) /\ Worth(S) <= Total(SubSeq(Pool(C, Policy), 1, k), Policy)
    BY <1>12, PrefixIsMost DEF k
  <2>2. ~(Total(SubSeq(Pool(C, Policy), 1, k), Policy) - amount - rate * size >= 0)
    BY <1>5, <2>1, PayFeeFails DEF shape
  <2>3. Total(SubSeq(Pool(C, Policy), 1, k), Policy) \in Int
    <3>1. Pool(C, Policy) \in Seq(C)
      BY PoolType
    <3>2. PICK s : s = SubSeq(Pool(C, Policy), 1, k)
      OBVIOUS
    <3>3. PICK pool : pool = Pool(C, Policy)
      OBVIOUS
    <3>4. pool \in Seq(C) /\ k \in 1..Len(pool) /\ s = SubSeq(pool, 1, k)
      BY <2>1, <3>1, <3>2, <3>3
    <3>5. s \in Seq(C)
      BY ONLY <3>4
    <3>6. \A c \in C : c.value \in Int
      BY DEF Proper
    <3> QED BY <3>2, <3>5, <3>6, TotalType
  <2> HIDE DEF size
  <2>4. PICK t : t = Total(SubSeq(Pool(C, Policy), 1, k), Policy)
    OBVIOUS
  <2>5. PICK f : f = rate * size
    OBVIOUS
  <2>6. t \in Int /\ f \in Nat /\ Worth(S) <= t /\ ~(t - amount - f >= 0)
    BY <1>10, <2>1, <2>2, <2>3, <2>4, <2>5
  <2>7. Worth(S) < amount + f
    BY <1>6, <1>8, <2>6
  <2> QED BY <2>5, <2>7 DEF size, k
<1> QED BY <1>11, <1>12

-----------------------------------------------------------------------------
(* The coins of the ledger and what is mined.                                *)

(* Ids tell coins apart.                                                     *)
LEMMA CoinIs ==
    ASSUME CoinsTrue, NEW c, c \in coins PROVE Exists(c.id) /\ CoinAt(c.id) = c
<1>1. Exists(c.id)
  BY DEF Exists
<1>2. CoinAt(c.id) \in coins /\ CoinAt(c.id).id = c.id
  BY <1>1, CoinFound
<1> QED BY <1>1, <1>2 DEF CoinsTrue

(* The ledger's coins have values.                                           *)
LEMMA CoinsPriced == ASSUME CoinsTrue PROVE Priced(coins)
<1>1. Usable(coins, Assets)
  BY CoinsUsable
<1> QED BY <1>1 DEF Usable, Proper, Priced

(* Each mined transaction has numbers of its own for its outputs.            *)
LEMMA BaseGrows ==
    ASSUME mined \in 0..MaxTxs, mined < MaxTxs, mined' = mined + 1
    PROVE  Base \in Nat /\ Base' = Base + Slots /\ Slots \in Nat /\ mined' \in 0..MaxTxs
<1>1. Slots \in Nat /\ MaxTxs \in Nat
  BY AssetsAre
<1>2. mined \in Nat
  BY <1>1
<1>3. PICK k, m : k = Slots /\ m = mined + 2
  OBVIOUS
<1>4. k \in Nat /\ m \in Nat
  BY <1>1, <1>2, <1>3
<1>5. k * m \in Nat /\ k * (m + 1) = k * m + k
  BY <1>4
<1>6. Base = k * m
  BY <1>3 DEF Base
<1>7. Base' = k * (m + 1)
  <2>1. Slots' = Slots
    BY DEF Slots
  <2>2. mined' + 2 = m + 1
    BY <1>2, <1>3
  <2> QED BY <1>3, <2>1, <2>2 DEF Base
<1> QED BY <1>1, <1>2, <1>3, <1>5, <1>6, <1>7

NewCoin(tx, i) ==
    [id |-> Slots * (mined + 2) + i, asset |-> tx.outs[i].asset, value |-> tx.outs[i].value,
     conf |-> tx.outs[i].key # "none",
     owner |-> IF tx.outs[i].to = Wallet /\ tx.outs[i].key \notin {"none", Wallet}
               THEN "lost" ELSE tx.outs[i].to]

(* Applying a sound transaction keeps the ledger proper: new coins have new  *)
(* ids, and nothing unspent is spent by the way.                             *)
LEMMA CoinsGrow ==
    ASSUME CoinsTrue, SpentTrue, mined < MaxTxs, NEW tx, Sound(tx), NEW review, Apply(tx, review)
    PROVE  /\ CoinsTrue' /\ SpentTrue'
           /\ \A c \in Created(tx) : c.id \notin spent' /\ c \notin coins
           /\ \A c \in coins : c.id \in 1..Base
<1> DEFINE J == {j \in DOMAIN tx.outs : tx.outs[j].to # Fee}
<1>1. /\ coins' = coins \cup Created(tx)
      /\ spent' = spent \cup {tx.ins[i].id : i \in DOMAIN tx.ins}
      /\ mined' = mined + 1
  BY DEF Apply
<1>2. Base \in Nat /\ Base' = Base + Slots /\ Slots \in Nat /\ mined' \in 0..MaxTxs
  BY <1>1, BaseGrows DEF CoinsTrue
<1>3. Created(tx) = {NewCoin(tx, i) : i \in J}
  BY DEF Created, NewCoin
<1>4. DOMAIN tx.outs = 1..Len(tx.outs) /\ Len(tx.outs) \in Nat /\ DOMAIN tx.ins = 1..Len(tx.ins)
  BY IsSeqOf DEF Sound, IsSeq
<1>5. \A i \in J : /\ NewCoin(tx, i).id = Base + i /\ i \in 1..Slots
                   /\ NewCoin(tx, i).value \in 1..MaxMoney /\ NewCoin(tx, i).asset \in Assets
                   /\ NewCoin(tx, i).conf \in BOOLEAN
  <2> SUFFICES ASSUME NEW i \in J
               PROVE  /\ NewCoin(tx, i).id = Base + i /\ i \in 1..Slots
                      /\ NewCoin(tx, i).value \in 1..MaxMoney /\ NewCoin(tx, i).asset \in Assets
                      /\ NewCoin(tx, i).conf \in BOOLEAN
    OBVIOUS
  <2>1. i \in 1..Len(tx.outs) /\ Len(tx.outs) <= Slots
    BY <1>4 DEF Sound
  <2>2. i \in 1..Slots
    BY <1>2, <1>4, <2>1
  <2>3. tx.outs[i].value \in 1..MaxMoney /\ tx.outs[i].asset \in Assets
    BY <2>1 DEF Sound
  <2> QED BY <2>2, <2>3 DEF NewCoin, Base
<1>6. IsFiniteSet(Created(tx))
  <2>1. IsFiniteSet(J)
    <3>1. J \in SUBSET (1..Len(tx.outs))
      BY <1>4
    <3> QED BY <1>4, <3>1, Positions
  <2>2. PICK h : h = [i \in J |-> NewCoin(tx, i)]
    OBVIOUS
  <2>3. h \in Surjection(J, Created(tx))
    BY <1>3, <2>2 DEF Surjection
  <2> HIDE DEF J
  <2> QED BY <2>1, <2>3, FS_Surjection
<1> HIDE DEF J
<1>7. \A c \in coins : c.id \in 1..Base
  BY DEF CoinsTrue, Base
<1>8. \A c \in Created(tx) : c.id > Base /\ c.id \in 1..(Base + Slots)
  <2> SUFFICES ASSUME NEW c \in Created(tx) PROVE c.id > Base /\ c.id \in 1..(Base + Slots)
    OBVIOUS
  <2>1. PICK i \in J : c = NewCoin(tx, i)
    BY <1>3
  <2>2. c.id = Base + i /\ i \in 1..Slots
    BY <1>5, <2>1
  <2> QED BY <1>2, <2>2
<1>9. IsFiniteSet(coins \cup Created(tx))
  BY <1>6, FS_Union DEF CoinsTrue
<1>10. \A c \in coins \cup Created(tx) :
          /\ c.id \in 1..(Base + Slots) /\ c.value \in 1..MaxMoney
          /\ c.asset \in Assets /\ c.conf \in BOOLEAN
  <2>1. \A c \in coins : c.id \in 1..(Base + Slots)
    BY <1>2, <1>7
  <2>2. \A c \in coins : c.value \in 1..MaxMoney /\ c.asset \in Assets /\ c.conf \in BOOLEAN
    BY DEF CoinsTrue
  <2>3. \A c \in Created(tx) : c.value \in 1..MaxMoney /\ c.asset \in Assets /\ c.conf \in BOOLEAN
    BY <1>3, <1>5
  <2> QED BY <1>8, <2>1, <2>2, <2>3
<1>11. \A c, d \in coins \cup Created(tx) : c.id = d.id => c = d
  <2>1. \A c \in coins, d \in Created(tx) : c.id # d.id
    <3> SUFFICES ASSUME NEW c \in coins, NEW d \in Created(tx) PROVE c.id # d.id
      OBVIOUS
    <3>1. c.id \in 1..Base /\ d.id > Base
      BY <1>7, <1>8
    <3> QED BY <1>2, <3>1
  <2>2. \A c, d \in Created(tx) : c.id = d.id => c = d
    <3> SUFFICES ASSUME NEW c \in Created(tx), NEW d \in Created(tx), c.id = d.id PROVE c = d
      OBVIOUS
    <3>1. PICK i \in J, j \in J : c = NewCoin(tx, i) /\ d = NewCoin(tx, j)
      BY <1>3
    <3>2. Base + i = Base + j /\ i \in Int /\ j \in Int
      BY <1>5, <3>1
    <3>3. i = j
      BY <1>2, <3>2
    <3> QED BY <3>1, <3>3
  <2>3. \A c, d \in coins : c.id = d.id => c = d
    BY DEF CoinsTrue
  <2> QED BY <2>1, <2>2, <2>3
<1>12. CoinsTrue'
  <2>1. (Slots * (mined + 2))' = Base + Slots /\ Assets' = Assets
    BY <1>2 DEF Base, Assets, Slots
  <2> QED BY <1>1, <1>2, <1>9, <1>10, <1>11, <2>1 DEF CoinsTrue
<1>13. spent' \subseteq 0..Base
  <2>1. \A i \in DOMAIN tx.ins : tx.ins[i].id \in 0..Base
    BY <1>4 DEF Sound
  <2> QED BY <1>1, <2>1 DEF SpentTrue
<1>14. SpentTrue'
  BY <1>2, <1>13 DEF SpentTrue
<1>15. \A c \in Created(tx) : c.id \notin spent' /\ c \notin coins
  <2> SUFFICES ASSUME NEW c \in Created(tx) PROVE c.id \notin spent' /\ c \notin coins
    OBVIOUS
  <2>1. c.id > Base /\ c.id \in Int
    BY <1>8
  <2>2. c.id \notin 0..Base /\ c.id \notin 1..Base
    BY <1>2, <2>1
  <2> QED BY <1>7, <1>13, <2>2
<1> QED BY <1>7, <1>12, <1>14, <1>15

-----------------------------------------------------------------------------
(* What was approved and signed, and the alterations of a bundle.            *)

(* Approvals, signed transactions and the account of what is owed.           *)
ApprovedTrue ==
    approved # NoApproval => bundle # NoBundle /\ approved.review = approved.hash[2]

SignedOk(s) ==
    LET p == s.pset
        kind == s.review.kind
    IN  /\ Analyzed(p, kind) /\ kind # "SwapOffer" /\ Backed(p)
        /\ s.review = TxReview(p, kind) /\ s.tx = Finalized(p, kind)
        /\ FinalAccepted(p, s.tx, kind)
        /\ ~s.altered => Exact(p)

SignedTrue == \A s \in signed : SignedOk(s)

OwedTrue == owed \in [Assets -> Int]

(* As long as the wallet was not misled, what it signed gives its coins      *)
(* their true assets.                                                        *)
NamedTrue ==
    ~misled => /\ \A s \in signed : ~Misnames(s.pset)
               /\ \A o \in offers : CoinAt(o.id).asset = o.give.asset

(* The transaction shows the PSET's inputs and outputs as they are.          *)
Carries(tx, p) ==
    /\ IsSeq(tx.ins) /\ Len(tx.ins) = Len(p.ins) /\ Len(p.ins) \in Nat
    /\ IsSeq(tx.outs) /\ Len(tx.outs) = Len(p.outs) /\ Len(p.outs) \in Nat
    /\ DOMAIN p.ins = 1..Len(p.ins) /\ DOMAIN p.outs = 1..Len(p.outs)
    /\ DOMAIN tx.ins = 1..Len(p.ins) /\ DOMAIN tx.outs = 1..Len(p.outs)
    /\ \A i \in 1..Len(p.ins) :
         tx.ins[i] = [id |-> p.ins[i].id, value |-> p.ins[i].value,
                      commits |-> Commitment(p.ins[i].conf, p.ins[i].opens),
                      issuance |-> p.ins[i].issuance]
    /\ \A i \in 1..Len(p.outs) :
         tx.outs[i] = [asset |-> p.outs[i].asset, value |-> p.outs[i].value,
                       to |-> p.outs[i].to, key |-> p.outs[i].key]

Witnessed(tx, p, kind) ==
    tx.witness = [i \in 1..Len(p.ins) |->
                    IF p.ins[i].derived THEN Signature(UnsignedTx(p), i, KindSighash(kind), Wallet)
                    ELSE p.ins[i].witness]

(* finalize: the transaction carries the PSET's inputs and outputs, and      *)
(* every derived input has the wallet's signature.                           *)
LEMMA TxOfPset ==
    ASSUME NEW p, NEW kind, Analyzed(p, kind), Backed(p), NEW tx, tx = Finalized(p, kind)
    PROVE  Carries(tx, p) /\ Witnessed(tx, p, kind)
<1>1. DOMAIN p.ins = 1..Len(p.ins) /\ DOMAIN p.outs = 1..Len(p.outs)
      /\ Len(p.ins) \in Nat /\ Len(p.outs) \in Nat
  BY IsSeqOf DEF Backed, IsSeq
<1>2. /\ tx.ins = [i \in 1..Len(p.ins) |-> TxIn(p.ins[i])]
      /\ tx.outs = [i \in 1..Len(p.outs) |-> TxOut(p.outs[i])]
      /\ tx.witness = [i \in 1..Len(p.ins) |->
                IF p.ins[i].derived THEN Signature(UnsignedTx(p), i, KindSighash(kind), Wallet)
                ELSE p.ins[i].witness]
  BY <1>1 DEF Finalized, UnsignedTx
<1>3. \A i \in 1..Len(p.outs) :
         TxOut(p.outs[i]) = [asset |-> p.outs[i].asset, value |-> p.outs[i].value,
                              to |-> p.outs[i].to, key |-> p.outs[i].key]
  <2> SUFFICES ASSUME NEW i \in 1..Len(p.outs)
               PROVE  TxOut(p.outs[i]) = [asset |-> p.outs[i].asset, value |-> p.outs[i].value,
                              to |-> p.outs[i].to, key |-> p.outs[i].key]
    OBVIOUS
  <2>1. OutputAccepted(p, i)
    BY <1>1 DEF Analyzed
  <2>2. Blinded(p.outs[i]) => p.outs[i].opens = <<p.outs[i].asset, p.outs[i].value>>
    BY <2>1 DEF OutputAccepted, OutputProofsVerify
  <2> QED BY <2>2 DEF TxOut
<1>4. /\ IsSeq(tx.ins) /\ Len(tx.ins) = Len(p.ins) /\ DOMAIN tx.ins = 1..Len(p.ins)
      /\ IsSeq(tx.outs) /\ Len(tx.outs) = Len(p.outs) /\ DOMAIN tx.outs = 1..Len(p.outs)
  <2>1. tx.ins = [i \in 1..Len(p.ins) |-> tx.ins[i]] /\ tx.outs = [i \in 1..Len(p.outs) |-> tx.outs[i]]
    BY <1>2
  <2> QED BY <1>1, <2>1, Listed
<1>5. \A i \in 1..Len(p.ins) : tx.ins[i] = TxIn(p.ins[i])
  BY <1>2
<1>6. \A i \in 1..Len(p.outs) : tx.outs[i] = TxOut(p.outs[i])
  BY <1>2
<1> QED BY <1>1, <1>2, <1>3, <1>4, <1>5, <1>6 DEF TxIn, Carries, Witnessed

(* The same, part by part.                                                   *)
LEMMA CarriesParts ==
    ASSUME NEW tx, NEW p, Carries(tx, p)
    PROVE  /\ \A i \in 1..Len(p.outs) : /\ tx.outs[i].value = p.outs[i].value
                                        /\ tx.outs[i].asset = p.outs[i].asset
                                        /\ tx.outs[i].to = p.outs[i].to
                                        /\ tx.outs[i].key = p.outs[i].key
           /\ \A i \in 1..Len(p.ins) : /\ tx.ins[i].id = p.ins[i].id
                                       /\ tx.ins[i].value = p.ins[i].value
                                       /\ tx.ins[i].issuance = p.ins[i].issuance
           /\ Len(tx.outs) = Len(p.outs) /\ Len(tx.ins) = Len(p.ins)
<1>1. ASSUME NEW i \in 1..Len(p.outs)
      PROVE  /\ tx.outs[i].value = p.outs[i].value /\ tx.outs[i].asset = p.outs[i].asset
             /\ tx.outs[i].to = p.outs[i].to /\ tx.outs[i].key = p.outs[i].key
  <2>1. tx.outs[i] = [asset |-> p.outs[i].asset, value |-> p.outs[i].value,
                       to |-> p.outs[i].to, key |-> p.outs[i].key]
    BY DEF Carries
  <2> QED BY <2>1
<1>2. ASSUME NEW i \in 1..Len(p.ins)
      PROVE  /\ tx.ins[i].id = p.ins[i].id /\ tx.ins[i].value = p.ins[i].value
             /\ tx.ins[i].issuance = p.ins[i].issuance
  <2>1. PICK com : com = Commitment(p.ins[i].conf, p.ins[i].opens)
    OBVIOUS
  <2>2. tx.ins[i] = [id |-> p.ins[i].id, value |-> p.ins[i].value, commits |-> com,
                     issuance |-> p.ins[i].issuance]
    BY <2>1 DEF Carries
  <2> QED BY <2>2
<1>3. Len(tx.outs) = Len(p.outs) /\ Len(tx.ins) = Len(p.ins)
  BY DEF Carries
<1> QED BY <1>1, <1>2, <1>3

(* Whatever the wallet signed and the ledger accepts is a sound transaction. *)
LEMMA MineSound ==
    ASSUME CoinsTrue, NEW s, SignedOk(s), Accepts(s.tx)
    PROVE  Sound(s.tx)
<1> DEFINE p == s.pset
           kind == s.review.kind
           tx == s.tx
<1>1. Analyzed(p, kind) /\ Backed(p) /\ tx = Finalized(p, kind)
  BY DEF SignedOk
<1> HIDE DEF p, kind, tx
<1>2. Carries(tx, p)
  BY <1>1, TxOfPset
<1>2a. /\ \A i \in 1..Len(p.outs) : tx.outs[i].value = p.outs[i].value /\ tx.outs[i].asset = p.outs[i].asset
       /\ \A i \in 1..Len(p.ins) : tx.ins[i].id = p.ins[i].id
       /\ Len(tx.outs) = Len(p.outs) /\ Len(tx.ins) = Len(p.ins)
  BY <1>2, CarriesParts
<1>3. Len(tx.outs) <= Slots
  BY <1>1, <1>2, AssetsAre DEF Analyzed, Slots, Carries
<1>4. \A i \in 1..Len(tx.outs) : tx.outs[i].value \in 1..MaxMoney /\ tx.outs[i].asset \in Assets
  <2> SUFFICES ASSUME NEW i \in 1..Len(p.outs)
               PROVE  p.outs[i].value \in 1..MaxMoney /\ p.outs[i].asset \in Assets
    BY <1>2a
  <2>1. OutputAccepted(p, i)
    BY <1>1, <1>2 DEF Analyzed, Carries
  <2>2. BackedOutput(p.outs[i])
    BY <1>1 DEF Backed
  <2> QED BY <2>1, <2>2 DEF OutputAccepted, BackedOutput
<1>5. \A i \in 1..Len(tx.ins) : tx.ins[i].id \in 0..Base
  <2> SUFFICES ASSUME NEW i \in 1..Len(p.ins) PROVE p.ins[i].id \in 0..Base
    BY <1>2a
  <2>1. BackedInput(p.ins[i])
    BY <1>1 DEF Backed
  <2>2. PICK c \in coins : p.ins[i].id = c.id
    BY <2>1 DEF BackedInput
  <2>3. c.id \in 1..Base
    BY DEF CoinsTrue, Base
  <2>4. 1..Base \subseteq 0..Base
    OBVIOUS
  <2> QED BY <2>2, <2>3, <2>4
<1>6. Accepts(tx)
  BY DEF tx
<1>7. \A i \in 1..Len(tx.ins) :
         /\ CoinAt(tx.ins[i].id) \in Unspent
         /\ CoinAt(tx.ins[i].id).value = tx.ins[i].value
  <2> SUFFICES ASSUME NEW i \in 1..Len(tx.ins)
               PROVE  /\ CoinAt(tx.ins[i].id) \in Unspent
                      /\ CoinAt(tx.ins[i].id).value = tx.ins[i].value
    OBVIOUS
  <2>1. PICK c : c = CoinAt(tx.ins[i].id)
    OBVIOUS
  <2>2. c \in Unspent /\ tx.ins[i] = [SpentCoin(c) EXCEPT !.issuance = tx.ins[i].issuance]
    BY <1>2, <1>6, <2>1 DEF Accepts, Carries
  <2>3. tx.ins[i].value = c.value
    BY <2>2 DEF SpentCoin
  <2> QED BY <2>1, <2>2, <2>3
<1>8. \A i, j \in 1..Len(tx.ins) : tx.ins[i].id = tx.ins[j].id => i = j
  BY <1>2, <1>6 DEF Accepts, Carries
<1>9. Sound(tx)
  BY <1>2, <1>3, <1>4, <1>5, <1>7, <1>8 DEF Sound, Carries
<1> QED BY <1>9 DEF tx

Completed(tx, o) ==
    /\ IsSeq(tx.ins) /\ Len(tx.ins) = 2 /\ IsSeq(tx.outs) /\ Len(tx.outs) = 2
    /\ DOMAIN tx.ins = {1, 2} /\ DOMAIN tx.outs = {1, 2}
    /\ tx.ins[1] = OfferedIn(o)
    /\ tx.ins[2] = [id |-> 0, value |-> o.want.amount, commits |-> <<>>, issuance |-> NoIssuance]
    /\ tx.outs[1] = o.out
    /\ tx.outs[2] = [asset |-> o.give.asset, value |-> o.give.amount, to |-> "taker", key |-> "none"]
    /\ tx.witness[1] = o.sig /\ tx.witness[2].by = "taker" /\ tx.witness[2].flag = "ALL"

(* What a taker makes of an offer.                                           *)
LEMMA CompletionIs == ASSUME NEW o PROVE Completed(Completion(o), o)
<1>1. PICK x, y, u, v : /\ x = OfferedIn(o)
                        /\ y = [id |-> 0, value |-> o.want.amount, commits |-> <<>>,
                                issuance |-> NoIssuance]
                        /\ u = o.out
                        /\ v = [asset |-> o.give.asset, value |-> o.give.amount,
                                to |-> "taker", key |-> "none"]
  OBVIOUS
<1>2. /\ Completion(o).ins = <<x, y>> /\ Completion(o).outs = <<u, v>>
      /\ Completion(o).witness = <<o.sig, Signature([ins |-> <<x, y>>, outs |-> <<u, v>>], 2, "ALL", "taker")>>
  <2>1. \A w : Commitment(FALSE, w) = <<>>
    BY DEF Commitment
  <2>2. SpentCoin([id |-> o.id, asset |-> o.give.asset, value |-> o.give.amount, conf |-> FALSE]) = x
    BY <1>1, <2>1 DEF SpentCoin, OfferedIn
  <2>3. SpentCoin(TakerCoin(o)) = y
    BY <1>1, <2>1 DEF SpentCoin, TakerCoin
  <2> QED BY <1>1, <2>2, <2>3 DEF Completion
<1>3. /\ IsSeq(<<x, y>>) /\ Len(<<x, y>>) = 2 /\ DOMAIN <<x, y>> = {1, 2}
      /\ IsSeq(<<u, v>>) /\ Len(<<u, v>>) = 2 /\ DOMAIN <<u, v>> = {1, 2}
  BY Two
<1> QED BY <1>1, <1>2, <1>3 DEF Signature, Completed

(* A completed offer is a sound transaction.                                 *)
LEMMA FillSound ==
    ASSUME CoinsTrue, NEW o, OwnOffer(o), Completes(o)
    PROVE  Sound(Completion(o))
<1>1. PICK tx : tx = Completion(o)
  OBVIOUS
<1>2. /\ IsSeq(tx.ins) /\ Len(tx.ins) = 2 /\ IsSeq(tx.outs) /\ Len(tx.outs) = 2
      /\ tx.ins[1].id = o.id /\ tx.ins[1].value = o.give.amount
      /\ tx.ins[2].id = 0
      /\ tx.outs[1] = o.out
      /\ tx.outs[2] = [asset |-> o.give.asset, value |-> o.give.amount,
                                to |-> "taker", key |-> "none"]
  <2>1. Completed(tx, o)
    BY <1>1, CompletionIs
  <2> QED BY <2>1 DEF Completed, OfferedIn
<1>3. PICK c \in coins : c.id = o.id /\ c.asset = o.give.asset
  BY CoinFound DEF Completes
<1>4. c.id \in 1..Base /\ c.asset \in Assets /\ Base \in Nat
  BY AssetsAre DEF CoinsTrue, Base
<1>5. ~Exists(0)
  BY DEF Exists, CoinsTrue
<1>6. CoinAt(o.id) \in Unspent /\ CoinAt(o.id).value = o.give.amount
  BY DEF Completes
<1>7. \A i \in 1..Len(tx.ins) :
         /\ tx.ins[i].id \in 0..Base
         /\ Exists(tx.ins[i].id) => /\ CoinAt(tx.ins[i].id) \in Unspent
                                    /\ CoinAt(tx.ins[i].id).value = tx.ins[i].value
  <2>1. 1..Len(tx.ins) = {1, 2}
    BY <1>2
  <2>2. o.id \in 0..Base /\ 0 \in 0..Base
    BY <1>3, <1>4
  <2> QED BY <1>2, <1>5, <1>6, <2>1, <2>2
<1>8. \A i, j \in 1..Len(tx.ins) : tx.ins[i].id = tx.ins[j].id => i = j
  <2>1. 1..Len(tx.ins) = {1, 2}
    BY <1>2
  <2>2. o.id # 0
    BY <1>3, <1>4
  <2> QED BY <1>2, <2>1, <2>2
<1>9. \A i \in 1..Len(tx.outs) : tx.outs[i].value \in 1..MaxMoney /\ tx.outs[i].asset \in Assets
  <2>1. 1..Len(tx.outs) = {1, 2}
    BY <1>2
  <2>2. /\ o.out.value \in 1..MaxMoney /\ o.out.asset \in Assets
        /\ o.give.amount \in 1..MaxMoney
    BY DEF OwnOffer
  <2> QED BY <1>2, <1>3, <1>4, <2>1, <2>2
<1>10. Len(tx.outs) <= Slots
  BY <1>2, AssetsAre
<1> QED BY <1>1, <1>2, <1>7, <1>8, <1>9, <1>10 DEF Sound

(* A stored bundle, whatever it is, names coins and assets.                  *)
Stored(res) ==
    /\ res = [ok |-> TRUE, pset |-> res.pset, review |-> res.review, hash |-> res.hash]
    /\ Backed(res.pset)

(* Whatever is found in the place of a bundle is of this form: a sequence of *)
(* inputs that name coins, and a sequence of outputs.                        *)
LEMMA StorableStored == ASSUME NEW b, Storable(b) PROVE Stored(b)
<1>1. PICK p : p = b.pset
  OBVIOUS
<1>2. /\ b = [ok |-> TRUE, pset |-> b.pset, review |-> b.review, hash |-> b.hash]
      /\ p = [genesis |-> p.genesis, ins |-> p.ins, outs |-> p.outs]
      /\ p.ins \in Seq(Range(p.ins)) /\ p.outs \in Seq(Range(p.outs)) /\ p.ins # <<>>
  BY <1>1 DEF Storable
<1>3. \A in \in Range(p.ins) : BackedInput(in)
  BY <1>1 DEF Storable, BackedInput, Exists
<1>4. \A o \in Range(p.outs) : BackedOutput(o)
  BY <1>1 DEF Storable, BackedOutput
<1>5. PICK ins, outs : ins = p.ins /\ outs = p.outs
  OBVIOUS
<1>6. /\ IsSeq(ins) /\ DOMAIN ins = 1..Len(ins) /\ Len(ins) \in Nat
      /\ IsSeq(outs) /\ DOMAIN outs = 1..Len(outs)
  <2>1. IsSeq(ins) /\ DOMAIN ins = 1..Len(ins)
    BY <1>2, <1>5, SeqIs
  <2>2. IsSeq(outs) /\ DOMAIN outs = 1..Len(outs)
    BY <1>2, <1>5, SeqIs
  <2> QED BY <2>1, <2>2 DEF IsSeq
<1>7. Len(ins) > 0
  <2>1. ins # <<>> /\ ins \in Seq(Range(ins))
    BY <1>2, <1>5
  <2>2. Len(ins) # 0
    BY ONLY <2>1
  <2> QED BY <1>6, <2>2
<1>8. \A i \in 1..Len(ins) : BackedInput(ins[i])
  BY <1>3, <1>5, <1>6 DEF Range
<1>9. \A i \in 1..Len(outs) : BackedOutput(outs[i])
  BY <1>4, <1>5, <1>6 DEF Range
<1> QED BY <1>1, <1>2, <1>5, <1>6, <1>7, <1>8, <1>9 DEF Stored, Backed

(* What is backed stays backed as the ledger and the offers grow.            *)
Grows == coins \subseteq coins' /\ offers \subseteq offers'

(* ... a PSET, ...                                                           *)
LEMMA BackedGrows ==
    ASSUME Grows, NEW p, Backed(p)
    PROVE  Backed(p)' /\ (Exact(p) => Exact(p)')
<1>1. ASSUME NEW in, BackedInput(in) PROVE BackedInput(in)'
  BY <1>1 DEF BackedInput, Grows
<1>2. ASSUME NEW o, BackedOutput(o) PROVE BackedOutput(o)'
  BY <1>2 DEF BackedOutput, Assets, Slots
<1>3. Backed(p)'
  BY <1>1, <1>2 DEF Backed, IsSeq
<1>4. Exact(p) => Exact(p)'
  BY DEF Exact, ExactInput, Grows
<1> QED BY <1>3, <1>4

(* ... a signed transaction, ...                                             *)
LEMMA SignedGrows ==
    ASSUME Grows, NEW s, SignedOk(s) PROVE SignedOk(s)'
BY BackedGrows DEF SignedOk, Analyzed, TxReview, Finalized, FinalAccepted

(* ... and an offer.                                                         *)
LEMMA OfferGrows ==
    ASSUME Grows, NEW o, OwnOffer(o) PROVE OwnOffer(o)'
<1>1. \E c \in coins' : c.id = o.id
  BY DEF OwnOffer, Grows
<1> QED BY <1>1 DEF OwnOffer, OfferedIn, Assets, Slots

(* The bundle when a step leaves it alone, drops it, or marks it as altered. *)
LEMMA BundleStays ==
    ASSUME BundleTrue, Good, Grows, bundle' = bundle PROVE BundleTrue' /\ Good'
<1>1. PICK b : b = bundle
  OBVIOUS
<1>2. PICK p : p = b.res.pset
  OBVIOUS
<1>3. bundle' = b
  BY <1>1
<1>4. BundleTrue'
  <2>1. /\ b = [req |-> b.req, from |-> b.from, res |-> b.res, altered |-> b.altered]
        /\ b.res.ok =>
             /\ b.res = [ok |-> TRUE, pset |-> b.res.pset, review |-> b.res.review, hash |-> b.res.hash]
             /\ Backed(p) /\ (~b.altered => Exact(p))
    BY <1>1, <1>2 DEF BundleTrue
  <2>2. b.res.ok => Backed(p)' /\ (~b.altered => Exact(p)')
    BY <2>1, BackedGrows
  <2> QED BY <1>2, <1>3, <2>1, <2>2 DEF BundleTrue
<1>5. ReviewExact'
  BY <1>1, <1>3 DEF Good, ReviewExact, Prepared
<1>6. FeeFair'
  BY <1>1, <1>3 DEF Good, FeeFair, Prepared
<1>7. ChangeStaysConfidential'
  BY <1>1, <1>3 DEF Good, ChangeStaysConfidential
<1> QED BY <1>4, <1>5, <1>6, <1>7 DEF Good

(* The empty bundle has nothing to be wrong about.                           *)
LEMMA BundleGone ==
    ASSUME bundle' = NoBundle PROVE BundleTrue' /\ Good'
<1>1. ~bundle'.res.ok /\ bundle' = [req |-> bundle'.req, from |-> bundle'.from,
                                    res |-> bundle'.res, altered |-> bundle'.altered]
  BY DEF NoBundle, Failure
<1>2. BundleTrue'
  BY <1>1 DEF BundleTrue
<1>3. ReviewExact' /\ FeeFair' /\ ChangeStaysConfidential'
  BY <1>1 DEF ReviewExact, FeeFair, ChangeStaysConfidential, Prepared
<1> QED BY <1>2, <1>3 DEF Good

(* Of an altered bundle only the form is claimed.                            *)
LEMMA BundleAltered ==
    ASSUME BundleTrue, UNCHANGED <<coins, offers>>, NEW res, res.ok => Stored(res),
           bundle' = [bundle EXCEPT !.res = res, !.altered = TRUE]
    PROVE  BundleTrue' /\ Good' /\ bundle' # NoBundle
<1>1. PICK req, from : bundle' = [req |-> req, from |-> from, res |-> res, altered |-> TRUE]
  BY DEF BundleTrue
<1>2. /\ bundle'.altered /\ bundle'.res = res
      /\ bundle' = [req |-> bundle'.req, from |-> bundle'.from, res |-> bundle'.res,
                    altered |-> bundle'.altered]
  BY <1>1
<1>3. BundleTrue'
  <2>1. Grows
    BY DEF Grows
  <2>2. res.ok => Backed(res.pset)'
    <3>1. PICK p : p = res.pset
      OBVIOUS
    <3>2. res.ok => Backed(p)
      BY <3>1 DEF Stored
    <3>3. res.ok => Backed(p)'
      BY <2>1, <3>2, BackedGrows
    <3> QED BY <3>1, <3>3
  <2> QED BY <1>2, <2>2 DEF BundleTrue, Stored
<1>4. ReviewExact' /\ FeeFair' /\ ChangeStaysConfidential'
  BY <1>2 DEF ReviewExact, FeeFair, ChangeStaysConfidential, Prepared
<1>5. bundle' # NoBundle
  BY <1>2 DEF NoBundle
<1> QED BY <1>3, <1>4, <1>5 DEF Good

(* The signature of a swap offer gives an offer of the wallet, of an input   *)
(* that the PSET says is the wallet's and has the asset given.               *)
LEMMA SignedOfferOwn ==
    ASSUME NEW p, Analyzed(p, "SwapOffer"), Backed(p), NEW o, o = OfferOf(p, Finalized(p, "SwapOffer"))
    PROVE  /\ OwnOffer(o)
           /\ \E i \in DOMAIN p.ins : /\ p.ins[i].script = Wallet /\ p.ins[i].id = o.id
                                      /\ p.ins[i].asset = o.give.asset
<1> DEFINE kind == "SwapOffer"
<1>1. PICK tx : tx = Finalized(p, kind)
  OBVIOUS
<1>2. PICK in, out : in = p.ins[1] /\ out = p.outs[1]
  OBVIOUS
<1>3. Carries(tx, p) /\ Witnessed(tx, p, kind)
  BY <1>1, TxOfPset
<1>4. Len(p.ins) = 1 /\ Len(p.outs) = 1 /\ FeeOutputs(p) = {} /\ External(p) = {}
      /\ in.asset # out.asset
  BY <1>2 DEF Analyzed, KindAccepted
<1>5. DOMAIN p.ins = {1} /\ DOMAIN p.outs = {1}
  BY <1>3, <1>4 DEF Carries
<1>6. InputAccepted(p, 1, kind) /\ OutputAccepted(p, 1) /\ ~Confidential(p)
  BY <1>5 DEF Analyzed
<1>7. /\ in.derived /\ in.script = Wallet /\ in.issuance = NoIssuance
      /\ in.value \in 1..MaxMoney
  BY <1>2, <1>6 DEF InputAccepted, InputIsWallet
<1>8. ~in.conf /\ out.key = "none"
  BY <1>2, <1>5, <1>6 DEF Confidential, AnyConfidential, Blinded
<1>9. \E c \in coins : c.id = in.id
  BY <1>2, <1>4, <1>7 DEF Backed, BackedInput
<1>10. out.to = Wallet
  BY <1>2, <1>4, <1>5 DEF FeeOutputs, External, OutputIsWallet
<1>11. out.asset \in Assets /\ out.value \in 1..MaxMoney
  BY <1>2, <1>4, <1>6 DEF Backed, BackedOutput, OutputAccepted
<1>12. tx.ins[1] = [id |-> in.id, value |-> in.value, commits |-> <<>>, issuance |-> NoIssuance]
  <2>1. Commitment(in.conf, in.opens) = <<>>
    BY <1>8 DEF Commitment
  <2> QED BY <1>2, <1>3, <1>4, <1>7, <2>1 DEF Carries
<1>13. tx.outs[1] = [asset |-> out.asset, value |-> out.value, to |-> Wallet, key |-> "none"]
  BY <1>2, <1>3, <1>4, <1>8, <1>10 DEF Carries
<1>14. tx.ins = UnsignedTx(p).ins /\ tx.outs = UnsignedTx(p).outs
  BY <1>1 DEF Finalized
<1>15. PICK x, y : x = tx.ins[1] /\ y = tx.outs[1]
  OBVIOUS
<1>16. tx.witness[1] = [flag |-> "SINGLE|ANYONECANPAY", by |-> Wallet,
                        over |-> [ins |-> <<x>>, outs |-> <<y>>]]
  <2>1. tx.witness[1] = Signature(UnsignedTx(p), 1, "SINGLE|ANYONECANPAY", Wallet)
    BY <1>2, <1>3, <1>4, <1>7 DEF Witnessed, KindSighash
  <2>2. 1 \in DOMAIN UnsignedTx(p).outs
    BY <1>3, <1>4, <1>14 DEF Carries
  <2> QED BY <1>14, <1>15, <2>1, <2>2 DEF Signature, SighashData
<1>17. PICK sig : sig = tx.witness[1]
  OBVIOUS
<1>18. o = OfferOf(p, tx)
  BY <1>1
<1>19. o = [genesis |-> Genesis, id |-> x.id, out |-> y, sig |-> sig,
            give |-> [asset |-> in.asset, amount |-> in.value],
            want |-> [asset |-> y.asset, amount |-> y.value]]
  BY <1>2, <1>15, <1>17, <1>18 DEF OfferOf
<1>20. /\ o.id = in.id /\ o.out = y /\ o.sig = sig /\ o.give.asset = in.asset
       /\ o.give.amount = in.value /\ o.out.asset = out.asset /\ o.out.value = out.value
       /\ x = OfferedIn(o)
  BY <1>12, <1>13, <1>15, <1>19 DEF OfferedIn
<1>21. sig = Signature([ins |-> <<x>>, outs |-> <<y>>], 1, "SINGLE|ANYONECANPAY", Wallet)
  BY <1>16, <1>17 DEF Signature, SighashData
<1>22. (\E d \in coins : d.id = o.id) /\ o.give.asset # o.out.asset
  BY <1>4, <1>9, <1>20
<1>23. o.out = [asset |-> o.out.asset, value |-> o.out.value, to |-> Wallet, key |-> "none"]
  BY <1>13, <1>15, <1>20
<1>24. o.give = [asset |-> o.give.asset, amount |-> o.give.amount]
  BY <1>19
<1>25. o = [genesis |-> Genesis, id |-> o.id, out |-> o.out, sig |-> o.sig,
            give |-> o.give, want |-> [asset |-> o.out.asset, amount |-> o.out.value]]
  BY <1>19
<1>26. OwnOffer(o)
  BY <1>7, <1>11, <1>20, <1>21, <1>22, <1>23, <1>24, <1>25 DEF OwnOffer, Single
<1> QED BY <1>2, <1>5, <1>7, <1>20, <1>26

-----------------------------------------------------------------------------
(* Every step keeps what is known of the ledger and of the bundle.           *)

(* The part of the invariant about the ledger and what was signed, and the   *)
(* part about the bundle.                                                    *)
LedgerTrue == CoinsTrue /\ SpentTrue /\ OffersTrue /\ SignedTrue /\ OwedTrue /\ NamedTrue

FlowTrue == BundleTrue /\ ApprovedTrue /\ Good

(* A coin that is there stays the one of its id as the ledger grows, ...     *)
LEMMA CoinStays ==
    ASSUME CoinsTrue, CoinsTrue', Grows, NEW id, \E c \in coins : c.id = id
    PROVE  CoinAt(id)' = CoinAt(id)
<1>1. PICK c \in coins : c.id = id
  OBVIOUS
<1>2. CoinAt(id) = c
  BY <1>1, CoinIs
<1>3. PICK d : d = CoinAt(id)'
  OBVIOUS
<1>4. c \in coins'
  BY <1>1 DEF Grows
<1>5. d \in coins' /\ d.id = id
  BY <1>1, <1>3, <1>4 DEF CoinAt
<1>6. d = c
  BY <1>1, <1>4, <1>5 DEF CoinsTrue
<1> QED BY <1>2, <1>3, <1>6

(* ... so that what was signed goes on giving the coins their true assets.   *)
LEMMA NamedStays ==
    ASSUME LedgerTrue, CoinsTrue', Grows, signed' \subseteq signed, offers' = offers, misled => misled'
    PROVE  NamedTrue'
<1> SUFFICES ASSUME ~misled'
             PROVE  /\ \A s \in signed' : ~Misnames(s.pset)'
                    /\ \A o \in offers' : CoinAt(o.id)' = CoinAt(o.id)
                                          /\ CoinAt(o.id).asset = o.give.asset
  BY DEF NamedTrue
<1>1. ~misled
  OBVIOUS
<1>2. CoinsTrue /\ SignedTrue /\ OffersTrue
      /\ (\A s \in signed : ~Misnames(s.pset)) /\ (\A o \in offers : CoinAt(o.id).asset = o.give.asset)
  BY <1>1 DEF LedgerTrue, NamedTrue
<1>3. ASSUME NEW s \in signed' PROVE ~Misnames(s.pset)'
  <2>1. PICK p : p = s.pset
    OBVIOUS
  <2>2. Backed(p) /\ ~Misnames(p)
    BY <1>2, <1>3, <2>1 DEF SignedTrue, SignedOk
  <2>3. \A i \in DOMAIN p.ins : \E c \in coins : c.id = p.ins[i].id
    <3>1. DOMAIN p.ins = 1..Len(p.ins)
      BY <2>2, IsSeqOf DEF Backed
    <3> QED BY <2>2, <3>1 DEF Backed, BackedInput
  <2>4. \A i \in DOMAIN p.ins : CoinAt(p.ins[i].id)' = CoinAt(p.ins[i].id)
    BY <1>2, <2>3, CoinStays
  <2>5. ~Misnames(p)'
    BY <2>2, <2>4 DEF Misnames
  <2> QED BY <2>1, <2>5
<1>4. ASSUME NEW o \in offers PROVE CoinAt(o.id)' = CoinAt(o.id)
  <2>1. \E c \in coins : c.id = o.id
    BY <1>2 DEF OffersTrue, OwnOffer
  <2> QED BY <1>2, <2>1, CoinStays
<1> QED BY <1>2, <1>3, <1>4

(* Steps that leave the ledger alone.                                        *)
LEMMA LedgerStays ==
    ASSUME LedgerTrue, UNCHANGED <<coins, spent, signed, offers, owed, mined>>, misled => misled'
    PROVE  LedgerTrue'
<1>1. Grows
  BY DEF Grows
<1>2. CoinsTrue' /\ SpentTrue' /\ OwedTrue'
  BY DEF LedgerTrue, CoinsTrue, SpentTrue, OwedTrue, Base, Slots, Assets
<1>3. OffersTrue'
  BY <1>1, OfferGrows DEF LedgerTrue, OffersTrue
<1>4. SignedTrue'
  BY <1>1, SignedGrows DEF LedgerTrue, SignedTrue
<1>5. NamedTrue'
  BY <1>1, <1>2, NamedStays
<1> QED BY <1>2, <1>3, <1>4, <1>5 DEF LedgerTrue

(* Discard: the bundle is dropped.                                           *)
LEMMA DiscardKeeps ==
    ASSUME LedgerTrue, FlowTrue, Discard PROVE LedgerTrue' /\ FlowTrue'
<1>1. LedgerTrue'
  BY LedgerStays DEF Discard
<1>2. BundleTrue' /\ Good'
  BY BundleGone DEF Discard
<1>3. ApprovedTrue'
  BY DEF Discard, ApprovedTrue
<1> QED BY <1>1, <1>2, <1>3 DEF FlowTrue

(* Approve: the gate has recomputed the review of the bundle.                *)
LEMMA ApproveKeeps ==
    ASSUME LedgerTrue, FlowTrue, Approve PROVE LedgerTrue' /\ FlowTrue'
<1>1. /\ bundle.res.ok /\ ReviewPset(bundle.res.pset, bundle.res.review.kind) = bundle.res
      /\ approved' = [hash |-> bundle.res.hash, review |-> bundle.res.review]
      /\ UNCHANGED <<coins, spent, bundle, signed, offers, owed, mined, misled>>
  BY DEF Approve
<1>2. LedgerTrue'
  BY <1>1, LedgerStays
<1>3. BundleTrue' /\ Good'
  BY <1>1, BundleStays DEF FlowTrue, Grows
<1>4. PICK p, kind : p = bundle.res.pset /\ kind = bundle.res.review.kind
  OBVIOUS
<1>5. bundle.res = Reviewed(p, kind)
  BY <1>1, <1>4, ReviewGives
<1>6. bundle.res.hash = <<p, bundle.res.review>>
  BY <1>5 DEF Reviewed, ReviewCommitment
<1>7. approved'.review = approved'.hash[2]
  BY <1>1, <1>6
<1>8. bundle # NoBundle
  BY <1>1 DEF NoBundle, Failure
<1>9. ApprovedTrue'
  BY <1>1, <1>7, <1>8 DEF ApprovedTrue, NoBundle
<1> QED BY <1>2, <1>3, <1>9 DEF FlowTrue

(* Alter: something else is found in the place of the bundle.                *)
LEMMA AlterKeeps ==
    ASSUME LedgerTrue, FlowTrue, Alter PROVE LedgerTrue' /\ FlowTrue'
<1>1. PICK b : Storable(b) /\ bundle' = [bundle EXCEPT !.res = b, !.altered = TRUE]
  BY DEF Alter
<1>2. bundle.res.ok /\ UNCHANGED <<coins, spent, approved, signed, offers, owed, mined, misled>>
  BY DEF Alter
<1>3. LedgerTrue'
  BY <1>2, LedgerStays
<1>4. Stored(b)
  BY <1>1, StorableStored
<1>5. BundleTrue' /\ Good' /\ bundle' # NoBundle
  BY <1>1, <1>2, <1>4, BundleAltered DEF FlowTrue
<1>6. ApprovedTrue'
  BY <1>2, <1>5 DEF FlowTrue, ApprovedTrue, NoBundle
<1> QED BY <1>3, <1>5, <1>6 DEF FlowTrue

(* Rereview: the altered bundle gets the review of what it has become.       *)
LEMMA RereviewKeeps ==
    ASSUME LedgerTrue, FlowTrue, Rereview PROVE LedgerTrue' /\ FlowTrue'
<1>1. PICK p, kind, r : /\ p = bundle.res.pset /\ r = ReviewPset(p, kind)
                        /\ bundle' = [bundle EXCEPT !.res = r]
  BY DEF Rereview
<1>2. /\ bundle.res.ok /\ bundle.altered
      /\ UNCHANGED <<coins, spent, approved, signed, offers, owed, mined, misled>>
  BY DEF Rereview
<1>3. LedgerTrue'
  BY <1>2, LedgerStays
<1>4. r.ok => Stored(r)
  <2> SUFFICES ASSUME r.ok PROVE Stored(r)
    OBVIOUS
  <2>1. r = Reviewed(p, kind)
    BY <1>1, ReviewGives
  <2>2. r = [ok |-> TRUE, pset |-> r.pset, review |-> r.review, hash |-> r.hash] /\ r.pset = p
    BY <2>1 DEF Reviewed
  <2>3. Backed(p)
    BY <1>1, <1>2 DEF FlowTrue, BundleTrue
  <2> QED BY <2>2, <2>3 DEF Stored
<1>5. bundle' = [bundle EXCEPT !.res = r, !.altered = TRUE]
  <2>1. PICK req, from, res : bundle = [req |-> req, from |-> from, res |-> res, altered |-> bundle.altered]
    BY DEF FlowTrue, BundleTrue
  <2>2. bundle.altered = TRUE \/ bundle.altered = bundle.altered
    OBVIOUS
  <2> QED BY <1>1, <1>2, <2>1
<1>6. BundleTrue' /\ Good' /\ bundle' # NoBundle
  BY <1>2, <1>4, <1>5, BundleAltered DEF FlowTrue
<1>7. ApprovedTrue'
  BY <1>2, <1>6 DEF FlowTrue, ApprovedTrue, NoBundle
<1> QED BY <1>3, <1>6, <1>7 DEF FlowTrue

(* sign_prepared, when it succeeds: the PSET was analyzed again, and its     *)
(* review is the one in the bundle, whose commitment was approved.           *)
LEMMA SignedIs ==
    ASSUME NEW b, NEW a, SignPrepared(b, a).ok
    PROVE  LET kind == b.review.kind
               tx == Finalized(b.pset, kind)
           IN  /\ Analyzed(b.pset, kind) /\ TxReview(b.pset, kind) = b.review
               /\ a = <<b.pset, b.review>> /\ FinalAccepted(b.pset, tx, kind)
               /\ SignPrepared(b, a) = [ok |-> TRUE, tx |-> tx]
<1> DEFINE kind == b.review.kind
           tx == Finalized(b.pset, kind)
<1>1. /\ Analyze(b.pset, kind).ok /\ Analyze(b.pset, kind).review = b.review
      /\ ReviewCommitment(b.pset, Analyze(b.pset, kind).review) = a
      /\ FinalAccepted(b.pset, tx, kind) /\ SignPrepared(b, a) = [ok |-> TRUE, tx |-> tx]
  BY DEF SignPrepared, Failure
<1>2. Analyzed(b.pset, kind) /\ Analyze(b.pset, kind) = [ok |-> TRUE, review |-> TxReview(b.pset, kind)]
  BY <1>1, AnalyzeGives
<1> HIDE DEF kind, tx
<1>3. TxReview(b.pset, kind) = b.review
  BY <1>1, <1>2
<1>4. a = <<b.pset, b.review>>
  BY <1>1 DEF ReviewCommitment
<1> QED BY <1>1, <1>2, <1>3, <1>4 DEF kind, tx

(* Sign: what is signed is what was analyzed; an offer is recorded as one of *)
(* the wallet's.                                                             *)
LEMMA SignKeeps ==
    ASSUME LedgerTrue, FlowTrue, Sign PROVE LedgerTrue' /\ FlowTrue'
<1>1. PICK r : r = SignPrepared(bundle.res, approved.hash)
  OBVIOUS
<1>2. /\ bundle.res.ok /\ approved # NoApproval
      /\ bundle' = NoBundle /\ approved' = NoApproval
      /\ UNCHANGED <<coins, spent, owed, mined>>
      /\ misled => misled'
  BY DEF Sign
<1>3. BundleTrue' /\ Good'
  BY <1>2, BundleGone
<1>4. ApprovedTrue'
  BY <1>2 DEF ApprovedTrue
<1>5. FlowTrue'
  BY <1>3, <1>4 DEF FlowTrue
<1>6. CASE ~r.ok
  <2>1. UNCHANGED <<signed, offers>>
    BY <1>1, <1>6 DEF Sign
  <2> QED BY <1>2, <1>5, <2>1, LedgerStays
<1>7. ASSUME r.ok PROVE LedgerTrue'
  <2>1. PICK p, review, kind, tx : /\ p = bundle.res.pset /\ review = bundle.res.review
                                   /\ kind = review.kind /\ tx = Finalized(p, kind)
    OBVIOUS
  <2>2. /\ Analyzed(p, kind) /\ TxReview(p, kind) = review
        /\ approved.hash = <<p, review>> /\ FinalAccepted(p, tx, kind) /\ r.tx = tx
    BY <1>1, <1>7, <2>1, SignedIs
  <2>3. approved.review = review
    BY <1>2, <2>2 DEF FlowTrue, ApprovedTrue
  <2>4. Backed(p) /\ (~bundle.altered => Exact(p))
    BY <1>2, <2>1 DEF FlowTrue, BundleTrue
  <2>5. CoinsTrue' /\ SpentTrue' /\ OwedTrue'
    BY <1>2 DEF LedgerTrue, CoinsTrue, SpentTrue, OwedTrue, Base, Slots, Assets
  <2>5a. /\ ~misled' => ~misled /\ ~Misnames(p)
         /\ ~misled => /\ \A s \in signed : ~Misnames(s.pset)
                       /\ \A q \in offers : CoinAt(q.id).asset = q.give.asset
         /\ \A id : CoinAt(id)' = CoinAt(id)
    BY <1>1, <1>2, <1>7, <2>1 DEF Sign, LedgerTrue, NamedTrue, CoinAt
  <2>5b. \A x : Misnames(x)' <=> Misnames(x)
    BY <2>5a DEF Misnames
  <2>6. CASE kind = "SwapOffer"
    <3>1. PICK o : o = OfferOf(p, tx)
      OBVIOUS
    <3>2. offers' = offers \cup {o} /\ signed' = signed
      BY <1>1, <1>7, <2>1, <2>2, <2>6, <3>1 DEF Sign
    <3>3. /\ OwnOffer(o)
          /\ \E i \in DOMAIN p.ins : /\ p.ins[i].script = Wallet /\ p.ins[i].id = o.id
                                     /\ p.ins[i].asset = o.give.asset
      <4>1. Analyzed(p, "SwapOffer") /\ Backed(p) /\ o = OfferOf(p, Finalized(p, "SwapOffer"))
        BY <2>1, <2>2, <2>4, <2>6, <3>1
      <4> QED BY <4>1, SignedOfferOwn
    <3>4. Grows
      BY <1>2, <3>2 DEF Grows
    <3>5. OffersTrue'
      <4>1. IsFiniteSet(offers \cup {o})
        BY FS_AddElement DEF LedgerTrue, OffersTrue
      <4>2. \A q \in offers \cup {o} : OwnOffer(q)'
        BY <3>3, <3>4, OfferGrows DEF LedgerTrue, OffersTrue
      <4> QED BY <3>2, <4>1, <4>2 DEF OffersTrue
    <3>6. SignedTrue'
      BY <3>2, <3>4, SignedGrows DEF LedgerTrue, SignedTrue
    <3>7. ~Misnames(p) => CoinAt(o.id).asset = o.give.asset
      BY <3>3 DEF Misnames
    <3>8. NamedTrue'
      <4>1. ASSUME ~misled', NEW x \in signed' PROVE ~Misnames(x.pset)'
        BY <2>5a, <2>5b, <3>2, <4>1
      <4>2. ASSUME ~misled', NEW q \in offers' PROVE (CoinAt(q.id).asset = q.give.asset)'
        BY <2>5a, <3>2, <3>7, <4>2
      <4> QED BY <4>1, <4>2 DEF NamedTrue
    <3> QED BY <2>5, <3>5, <3>6, <3>8 DEF LedgerTrue
  <2>7. CASE kind # "SwapOffer"
    <3>1. PICK s : s = [tx |-> tx, review |-> review, pset |-> p, altered |-> bundle.altered]
      OBVIOUS
    <3>2. signed' = signed \cup {s} /\ offers' = offers
      BY <1>1, <1>7, <2>1, <2>2, <2>3, <2>7, <3>1 DEF Sign
    <3>3. SignedOk(s)
      <4>1. s.pset = p /\ s.review = review /\ s.tx = tx /\ s.altered = bundle.altered
        BY <3>1
      <4> QED BY <2>1, <2>2, <2>4, <2>7, <4>1 DEF SignedOk
    <3>4. Grows
      BY <1>2, <3>2 DEF Grows
    <3>5. OffersTrue'
      BY <3>2, <3>4, OfferGrows DEF LedgerTrue, OffersTrue
    <3>6. SignedTrue'
      BY <3>2, <3>3, <3>4, SignedGrows DEF LedgerTrue, SignedTrue
    <3>7. s.pset = p
      BY <3>1
    <3>8. NamedTrue'
      <4>1. ASSUME ~misled', NEW x \in signed' PROVE ~Misnames(x.pset)'
        BY <2>5a, <2>5b, <3>2, <3>7, <4>1
      <4>2. ASSUME ~misled', NEW q \in offers' PROVE (CoinAt(q.id).asset = q.give.asset)'
        BY <2>5a, <3>2, <4>2
      <4> QED BY <4>1, <4>2 DEF NamedTrue
    <3> QED BY <2>5, <3>5, <3>6, <3>8 DEF LedgerTrue
  <2> QED BY <2>6, <2>7
<1> QED BY <1>5, <1>6, <1>7

(* Starting a request changes the bundle only ...                            *)
LEMMA StartKeeps ==
    ASSUME LedgerTrue, FlowTrue, NEW req, NEW res, Start(req, res), BundleTrue' /\ Good'
    PROVE  LedgerTrue' /\ FlowTrue'
<1>1. LedgerTrue'
  BY LedgerStays DEF Start
<1>2. approved = NoApproval
  BY DEF Start, FlowTrue, ApprovedTrue
<1>3. ApprovedTrue'
  BY <1>2 DEF ApprovedTrue, Start, NoApproval
<1> QED BY <1>1, <1>3 DEF FlowTrue

(* ... and each request gives a good one.                                    *)
LEMMA RequestKeeps ==
    ASSUME LedgerTrue, FlowTrue, Request PROVE LedgerTrue' /\ FlowTrue'
<1>1. CoinsTrue /\ OffersTrue
  BY DEF LedgerTrue
<1>2. ASSUME NEW a \in {0, 1}, NEW key, NEW r, NEW n, Transfer(a, n, key, r)
      PROVE  LedgerTrue' /\ FlowTrue'
  BY <1>1, <1>2, TransferGood, StartKeeps DEF Transfer
<1>3. ASSUME NEW n, NEW t, NEW r, Issue(n, t, r) PROVE LedgerTrue' /\ FlowTrue'
  BY <1>1, <1>3, IssueGood, StartKeeps DEF Issue
<1>4. ASSUME NEW a \in {0, 1}, NEW r, NEW n, Split(a, n, r) PROVE LedgerTrue' /\ FlowTrue'
  BY <1>1, <1>4, SplitGood, StartKeeps DEF Split
<1>5. ASSUME NEW c \in Spendable, NEW want \in {0, 1}, NEW n, MakeOffer(c, want, n)
      PROVE  LedgerTrue' /\ FlowTrue'
  BY <1>1, <1>5, OfferGood, StartKeeps DEF MakeOffer
<1>6. ASSUME NEW c \in Unspent, c.owner = Wallet, NEW r, Cancel(c, r) PROVE LedgerTrue' /\ FlowTrue'
  BY <1>1, <1>6, CancelGood, StartKeeps DEF Cancel
<1>7. ASSUME NEW q \in Quotes, NEW sell, NEW buy, NEW n, NEW side, NEW m, NEW r,
             Swap(q, sell, buy, n, side, m, r)
      PROVE  LedgerTrue' /\ FlowTrue'
  BY <1>1, <1>7, SwapGood, StartKeeps DEF Swap
<1> QED BY <1>2, <1>3, <1>4, <1>5, <1>6, <1>7 DEF Request

(* What the review of a transaction and the offers in it say of an asset.    *)
OutSum(p, a) == SumFunctionOnSet(Values(p.outs), WalletOuts(p, a))

InSum(p, a) == SumFunctionOnSet(Values(p.ins), WalletIns(p, a))

(* What a review says of an asset is what its derived outputs hold less its  *)
(* derived inputs.                                                           *)
LEMMA FromReviewIs ==
    ASSUME NEW p, NEW kind, Analyzed(p, kind), Backed(p), NEW a
    PROVE  /\ FromReview(TxReview(p, kind), a) = OutSum(p, a) - InSum(p, a)
           /\ OutSum(p, a) \in Int /\ InSum(p, a) \in Int
<1>1. /\ DOMAIN p.ins = 1..Len(p.ins) /\ Len(p.ins) \in Nat
      /\ DOMAIN p.outs = 1..Len(p.outs) /\ Len(p.outs) \in Nat
  BY IsSeqOf DEF Backed, IsSeq
<1>2. /\ \A i \in DOMAIN p.ins : Values(p.ins)[i] \in Int
      /\ \A i \in DOMAIN p.outs : Values(p.outs)[i] \in Int
  BY AcceptedValues
<1>3. /\ \A b : WalletOuts(p, b) \in SUBSET (1..Len(p.outs)) /\ WalletIns(p, b) \in SUBSET (1..Len(p.ins))
      /\ FeeOutputs(p) \in SUBSET (1..Len(p.outs))
  BY <1>1 DEF WalletOuts, WalletIns, FeeOutputs
<1>4. /\ \A b : IsFiniteSet(WalletOuts(p, b)) /\ IsFiniteSet(WalletIns(p, b))
      /\ IsFiniteSet(FeeOutputs(p))
  BY <1>1, <1>3, Positions
<1>5. \A b : OutSum(p, b) \in Int
  <2> SUFFICES ASSUME NEW b PROVE OutSum(p, b) \in Int
    OBVIOUS
  <2>1. \A i \in WalletOuts(p, b) : Values(p.outs)[i] \in Int
    BY <1>2 DEF WalletOuts
  <2> QED BY <1>4, <2>1, SumType DEF OutSum
<1>6. \A b : InSum(p, b) \in Int
  <2> SUFFICES ASSUME NEW b PROVE InSum(p, b) \in Int
    OBVIOUS
  <2>1. \A i \in WalletIns(p, b) : Values(p.ins)[i] \in Int
    BY <1>2 DEF WalletIns
  <2> QED BY <1>4, <2>1, SumType DEF InSum
<1>7. FeeOf(p) \in Int
  <2>1. \A i \in FeeOutputs(p) : Values(p.outs)[i] \in Int
    BY <1>2 DEF FeeOutputs
  <2> QED BY <1>4, <2>1, SumType DEF FeeOf
<1>8. PICK f, o, i : f = FeeOf(p) /\ o = OutSum(p, a) /\ i = InSum(p, a)
  OBVIOUS
<1>9. f \in Int /\ o \in Int /\ i \in Int
  BY <1>5, <1>6, <1>7, <1>8
<1>10. PICK g : g = BalanceChange(p, a)
  OBVIOUS
<1>11. g = o - i + (IF a = Policy THEN f ELSE 0)
  BY <1>8, <1>10 DEF BalanceChange, OutSum, InSum
<1>12. /\ TxReview(p, kind).fee = f
       /\ TxReview(p, kind).changes
            = [b \in {c \in AssetsOf(p) : BalanceChange(p, c) # 0} |-> BalanceChange(p, b)]
  BY <1>8 DEF TxReview
<1>13. CASE a \in AssetsOf(p)
  <2>1. NeedOf(TxReview(p, kind).changes, a) = g
    BY <1>10, <1>12, <1>13 DEF NeedOf
  <2>2. FromReview(TxReview(p, kind), a) = g - (IF a = Policy THEN f ELSE 0)
    BY <1>12, <2>1 DEF FromReview
  <2>3. FromReview(TxReview(p, kind), a) = o - i
    BY <1>9, <1>11, <2>2
  <2> QED BY <1>8, <1>9, <2>3
<1>14. CASE a \notin AssetsOf(p)
  <2>1. NeedOf(TxReview(p, kind).changes, a) = 0
    BY <1>12, <1>14 DEF NeedOf
  <2>2. WalletOuts(p, a) = {} /\ WalletIns(p, a) = {}
    BY <1>14 DEF WalletOuts, WalletIns, AssetsOf
  <2>3. o = 0 /\ i = 0
    BY <1>8, <2>2, SumEmpty DEF OutSum, InSum
  <2>4. a = Policy => FeeOutputs(p) = {}
    BY <1>14 DEF FeeOutputs, AssetsOf, Analyzed, OutputAccepted
  <2>5. a = Policy => f = 0
    BY <1>8, <2>4, SumEmpty DEF FeeOf
  <2>6. FromReview(TxReview(p, kind), a) = 0
    BY <1>12, <2>1, <2>5 DEF FromReview
  <2> QED BY <1>8, <1>9, <2>3, <2>6
<1> QED BY <1>13, <1>14

Worths(a) ==
    [o \in offers |-> (IF o.want.asset = a THEN o.want.amount ELSE 0)
                      - (IF o.give.asset = a THEN o.give.amount ELSE 0)]

Matched(tx) == {o \in offers : \E i \in DOMAIN tx.ins : tx.witness[i] = o.sig}

(* What the offers in a transaction say of an asset is a sum over the offers *)
(* matched.                                                                  *)
LEMMA FromOffersIs ==
    ASSUME OffersTrue, NEW tx, NEW a
    PROVE  /\ FromOffers(tx, a) = SumFunctionOnSet(Worths(a), Matched(tx))
           /\ IsFiniteSet(Matched(tx)) /\ FromOffers(tx, a) \in Int
<1>1. FromOffers(tx, a) = SumFunctionOnSet(Worths(a), Matched(tx))
  BY DEF FromOffers, Worths, Matched
<1>2. IsFiniteSet(Matched(tx)) /\ Matched(tx) \subseteq offers
  BY FS_Subset DEF OffersTrue, Matched
<1>3. \A o \in Matched(tx) : Worths(a)[o] \in Int
  <2> SUFFICES ASSUME NEW o \in Matched(tx) PROVE Worths(a)[o] \in Int
    OBVIOUS
  <2>1. o \in offers /\ OwnOffer(o)
    BY <1>2 DEF OffersTrue
  <2>2. o.give.amount \in Int /\ o.out.value \in Int
    BY <2>1, BoundsAssumption DEF OwnOffer
  <2>3. o.want.amount = o.out.value
    BY <2>1 DEF OwnOffer
  <2>4. Worths(a)[o] = (IF o.want.asset = a THEN o.want.amount ELSE 0)
                      - (IF o.give.asset = a THEN o.give.amount ELSE 0)
    BY <2>1 DEF Worths
  <2> QED BY <2>2, <2>3, <2>4
<1> QED BY <1>1, <1>2, <1>3, SumType

(* Applying a sound transaction keeps all that is known of the ledger.       *)
LEMMA LedgerGrows ==
    ASSUME LedgerTrue, mined < MaxTxs, NEW tx, Sound(tx), NEW review, Apply(tx, review),
           signed' \subseteq signed, offers' = offers, \A a : FromReview(review, a) \in Int,
           misled => misled'
    PROVE  LedgerTrue'
<1>1. CoinsTrue' /\ SpentTrue'
  BY CoinsGrow DEF LedgerTrue
<1>2. Grows
  BY DEF Grows, Apply
<1>3. OffersTrue'
  BY <1>2, OfferGrows DEF LedgerTrue, OffersTrue
<1>4. SignedTrue'
  BY <1>2, SignedGrows DEF LedgerTrue, SignedTrue
<1>5. OwedTrue'
  <2>1. \A a : FromOffers(tx, a) \in Int
    BY FromOffersIs DEF LedgerTrue
  <2>2. owed' = [a \in Assets |-> owed[a] + FromReview(review, a) + FromOffers(tx, a)]
    BY DEF Apply
  <2>3. \A a \in Assets : owed[a] \in Int
    BY DEF LedgerTrue, OwedTrue
  <2>4. \A a \in Assets : owed[a] + FromReview(review, a) + FromOffers(tx, a) \in Int
    BY <2>1, <2>3
  <2>5. owed' \in [Assets -> Int]
    BY <2>2, <2>4
  <2> QED BY <2>5 DEF OwedTrue, Assets, Slots
<1>6. NamedTrue'
  BY <1>1, <1>2, NamedStays
<1> QED BY <1>1, <1>3, <1>4, <1>5, <1>6 DEF LedgerTrue

(* Nothing about the bundle is lost as the ledger grows.                     *)
LEMMA FlowStays ==
    ASSUME FlowTrue, Grows, UNCHANGED <<bundle, approved>> PROVE FlowTrue'
<1>1. BundleTrue' /\ Good'
  BY BundleStays DEF FlowTrue
<1>2. ApprovedTrue'
  BY DEF FlowTrue, ApprovedTrue, NoBundle
<1> QED BY <1>1, <1>2 DEF FlowTrue

(* Mine: a signed transaction enters the ledger.                             *)
LEMMA MineKeeps ==
    ASSUME LedgerTrue, FlowTrue, NEW s \in signed, Mine(s) PROVE LedgerTrue' /\ FlowTrue'
<1>1. SignedOk(s) /\ CoinsTrue
  BY DEF LedgerTrue, SignedTrue
<1>2. /\ mined < MaxTxs /\ Accepts(s.tx) /\ Apply(s.tx, s.review)
      /\ signed' \subseteq signed /\ UNCHANGED <<bundle, approved, offers, misled>>
  BY DEF Mine
<1>3. Sound(s.tx)
  BY <1>1, <1>2, MineSound
<1>4. \A a : FromReview(s.review, a) \in Int
  <2> SUFFICES ASSUME NEW a PROVE FromReview(s.review, a) \in Int
    OBVIOUS
  <2>1. PICK p, kind : p = s.pset /\ kind = s.review.kind
    OBVIOUS
  <2>2. Analyzed(p, kind) /\ Backed(p) /\ s.review = TxReview(p, kind)
    BY <1>1, <2>1 DEF SignedOk
  <2> QED BY <2>2, FromReviewIs
<1>5. LedgerTrue'
  BY <1>2, <1>3, <1>4, LedgerGrows
<1>6. Grows
  BY <1>2 DEF Grows, Apply
<1> QED BY <1>2, <1>5, <1>6, FlowStays

(* An offer that a taker completes has no review of its own.                 *)
LEMMA NothingReviewed == ASSUME NEW a PROVE FromReview([changes |-> <<>>, fee |-> 0], a) = 0
<1>1. a \notin DOMAIN <<>>
  OBVIOUS
<1> QED BY <1>1 DEF FromReview, NeedOf

(* Fill: a taker completes an offer of the wallet.                           *)
LEMMA FillKeeps ==
    ASSUME LedgerTrue, FlowTrue, NEW o \in offers, Fill(o) PROVE LedgerTrue' /\ FlowTrue'
<1>1. OwnOffer(o) /\ CoinsTrue
  BY DEF LedgerTrue, OffersTrue
<1>2. PICK tx, review : tx = Completion(o) /\ review = [changes |-> <<>>, fee |-> 0]
  OBVIOUS
<1>3. /\ mined < MaxTxs /\ Completes(o) /\ Apply(tx, review)
      /\ UNCHANGED <<bundle, approved, signed, offers, misled>>
  BY <1>2 DEF Fill
<1>4. Sound(tx)
  BY <1>1, <1>2, <1>3, FillSound
<1>5. \A a : FromReview(review, a) \in Int
  BY <1>2, NothingReviewed
<1>6. LedgerTrue'
  BY <1>3, <1>4, <1>5, LedgerGrows
<1>7. Grows
  BY <1>3 DEF Grows, Apply
<1> QED BY <1>3, <1>6, <1>7, FlowStays

-----------------------------------------------------------------------------
(* No loss: what a mined transaction takes and brings, compared with what    *)
(* reviews and offers said.                                                  *)

(* What a mined transaction takes from the wallet and brings it.             *)
GoneSum(tx, a) == SumFunctionOnSet(Values(tx.ins), Gone(tx, a))

GainedSum(tx, a) == SumFunctionOnSet(Values(tx.outs), Gained(tx, a))

LostCoins(tx, a) == {CoinAt(tx.ins[i].id) : i \in Gone(tx, a)}

NewCoins(tx, a) == {NewCoin(tx, i) : i \in Gained(tx, a)}

(* The wallet's coins that a transaction spends are worth what its inputs    *)
(* say.                                                                      *)
LEMMA LostWorth ==
    ASSUME CoinsTrue, NEW tx, Sound(tx), NEW a
    PROVE  /\ LostCoins(tx, a) \subseteq Purse(a)
           /\ \A c \in Purse(a) : c \in LostCoins(tx, a) <=> \E i \in DOMAIN tx.ins : tx.ins[i].id = c.id
           /\ Worth(LostCoins(tx, a)) = GoneSum(tx, a) /\ GoneSum(tx, a) \in Int
<1>1. DOMAIN tx.ins = 1..Len(tx.ins) /\ Len(tx.ins) \in Nat
  BY IsSeqOf DEF Sound, IsSeq
<1>2. \A i \in Gone(tx, a) :
         /\ i \in 1..Len(tx.ins) /\ CoinAt(tx.ins[i].id) \in Purse(a)
         /\ CoinAt(tx.ins[i].id).value = tx.ins[i].value
         /\ CoinAt(tx.ins[i].id).id = tx.ins[i].id
         /\ CoinAt(tx.ins[i].id) \in coins
  <2> SUFFICES ASSUME NEW i \in Gone(tx, a)
               PROVE  /\ i \in 1..Len(tx.ins) /\ CoinAt(tx.ins[i].id) \in Purse(a)
                      /\ CoinAt(tx.ins[i].id).value = tx.ins[i].value
                      /\ CoinAt(tx.ins[i].id).id = tx.ins[i].id
                      /\ CoinAt(tx.ins[i].id) \in coins
    OBVIOUS
  <2>1. /\ i \in DOMAIN tx.ins /\ Exists(tx.ins[i].id)
        /\ CoinAt(tx.ins[i].id).owner = Wallet /\ CoinAt(tx.ins[i].id).asset = a
    BY DEF Gone
  <2>2. CoinAt(tx.ins[i].id) \in Unspent /\ CoinAt(tx.ins[i].id).value = tx.ins[i].value
    BY <1>1, <2>1 DEF Sound
  <2>3. CoinAt(tx.ins[i].id).id = tx.ins[i].id /\ CoinAt(tx.ins[i].id) \in coins
    BY <2>1, CoinFound
  <2> QED BY <1>1, <2>1, <2>2, <2>3 DEF Purse
<1>3. LostCoins(tx, a) \subseteq Purse(a)
  BY <1>2 DEF LostCoins
<1>4. ASSUME NEW c \in Purse(a)
      PROVE  c \in LostCoins(tx, a) <=> \E i \in DOMAIN tx.ins : tx.ins[i].id = c.id
  <2>1. c \in coins /\ Exists(c.id) /\ CoinAt(c.id) = c /\ c.owner = Wallet /\ c.asset = a
    BY CoinIs DEF Purse, Unspent
  <2>2. ASSUME NEW i \in DOMAIN tx.ins, tx.ins[i].id = c.id PROVE c \in LostCoins(tx, a)
    <3>1. i \in Gone(tx, a)
      BY <2>1, <2>2 DEF Gone
    <3>2. CoinAt(tx.ins[i].id) = c
      BY <2>1, <2>2
    <3> QED BY <3>1, <3>2 DEF LostCoins
  <2>3. ASSUME c \in LostCoins(tx, a) PROVE \E i \in DOMAIN tx.ins : tx.ins[i].id = c.id
    <3>1. PICK i \in Gone(tx, a) : c = CoinAt(tx.ins[i].id)
      BY <2>3 DEF LostCoins
    <3>2. c.id = tx.ins[i].id /\ i \in DOMAIN tx.ins
      BY <1>1, <1>2, <3>1
    <3> QED BY <3>2
  <2> QED BY <2>2, <2>3
<1>5. IsFiniteSet(Gone(tx, a))
  <2>1. Gone(tx, a) \in SUBSET (1..Len(tx.ins))
    BY <1>2
  <2> QED BY <1>1, <2>1, Positions
<1>6. PICK h : h = [i \in Gone(tx, a) |-> CoinAt(tx.ins[i].id)]
  OBVIOUS
<1>7. h \in [Gone(tx, a) -> LostCoins(tx, a)] /\ \A c \in LostCoins(tx, a) : \E i \in Gone(tx, a) : h[i] = c
  BY <1>6 DEF LostCoins
<1>8. \A i, j \in Gone(tx, a) : h[i] = h[j] => i = j
  <2> SUFFICES ASSUME NEW i \in Gone(tx, a), NEW j \in Gone(tx, a), h[i] = h[j] PROVE i = j
    OBVIOUS
  <2>1. tx.ins[i].id = tx.ins[j].id
    BY <1>2, <1>6
  <2> QED BY <1>2, <2>1 DEF Sound
<1>9. \A i \in Gone(tx, a) : /\ Values(tx.ins)[i] = tx.ins[i].value /\ Values(tx.ins)[i] = h[i].value
                             /\ Values(tx.ins)[i] \in Int
  <2> SUFFICES ASSUME NEW i \in Gone(tx, a)
               PROVE  /\ Values(tx.ins)[i] = tx.ins[i].value /\ Values(tx.ins)[i] = h[i].value
                      /\ Values(tx.ins)[i] \in Int
    OBVIOUS
  <2>1. Values(tx.ins)[i] = tx.ins[i].value
    BY <1>1, <1>2 DEF Values
  <2>2. h[i].value = tx.ins[i].value /\ h[i] \in coins
    BY <1>2, <1>6
  <2>3. h[i].value \in Int
    BY <2>2, CoinsPriced DEF Priced
  <2> QED BY <2>1, <2>2, <2>3
<1>10. Priced(LostCoins(tx, a)) /\ Worth(LostCoins(tx, a)) = GoneSum(tx, a)
  <2>1. \A i \in Gone(tx, a) : Values(tx.ins)[i] = h[i].value /\ Values(tx.ins)[i] \in Int
    BY <1>9
  <2> QED BY <1>5, <1>7, <1>8, <2>1, WorthNumbered DEF GoneSum
<1>11. GoneSum(tx, a) \in Int
  BY <1>5, <1>9, SumType DEF GoneSum
<1> QED BY <1>3, <1>4, <1>10, <1>11

(* The coins it makes for the wallet are worth what its outputs say.         *)
LEMMA NewWorth ==
    ASSUME CoinsTrue, mined < MaxTxs, NEW tx, Sound(tx), NEW a
    PROVE  /\ NewCoins(tx, a) = {c \in Created(tx) : c.owner = Wallet /\ c.asset = a}
           /\ Priced(NewCoins(tx, a))
           /\ Worth(NewCoins(tx, a)) = GainedSum(tx, a) /\ GainedSum(tx, a) \in Int
<1>1. DOMAIN tx.outs = 1..Len(tx.outs) /\ Len(tx.outs) \in Nat
  BY IsSeqOf DEF Sound, IsSeq
<1>2. Created(tx) = {NewCoin(tx, i) : i \in {j \in DOMAIN tx.outs : tx.outs[j].to # Fee}}
  BY DEF Created, NewCoin
<1>3. \A i \in DOMAIN tx.outs :
         /\ NewCoin(tx, i).owner = Wallet <=> tx.outs[i].to = Wallet /\ tx.outs[i].key \in {"none", Wallet}
         /\ NewCoin(tx, i).asset = tx.outs[i].asset /\ NewCoin(tx, i).value = tx.outs[i].value
         /\ NewCoin(tx, i).id = Slots * (mined + 2) + i
  BY DEF NewCoin, Wallet
<1>4. \A i \in DOMAIN tx.outs :
         i \in Gained(tx, a) <=> /\ tx.outs[i].to # Fee /\ NewCoin(tx, i).owner = Wallet
                                 /\ NewCoin(tx, i).asset = a
  BY <1>3 DEF Gained, Wallet, Fee
<1>5. NewCoins(tx, a) = {c \in Created(tx) : c.owner = Wallet /\ c.asset = a}
  <2>1. Gained(tx, a) \subseteq DOMAIN tx.outs
    BY DEF Gained
  <2> QED BY <1>2, <1>4, <2>1 DEF NewCoins
<1>6. IsFiniteSet(Gained(tx, a))
  <2>1. Gained(tx, a) \in SUBSET (1..Len(tx.outs))
    BY <1>1 DEF Gained
  <2> QED BY <1>1, <2>1, Positions
<1>7. PICK h : h = [i \in Gained(tx, a) |-> NewCoin(tx, i)]
  OBVIOUS
<1>8. h \in [Gained(tx, a) -> NewCoins(tx, a)] /\ \A c \in NewCoins(tx, a) : \E i \in Gained(tx, a) : h[i] = c
  BY <1>7 DEF NewCoins
<1>9. \A i, j \in Gained(tx, a) : h[i] = h[j] => i = j
  <2> SUFFICES ASSUME NEW i \in Gained(tx, a), NEW j \in Gained(tx, a), h[i] = h[j] PROVE i = j
    OBVIOUS
  <2>1. i \in 1..Len(tx.outs) /\ j \in 1..Len(tx.outs)
    BY <1>1 DEF Gained
  <2>2. PICK b : b = Slots * (mined + 2)
    OBVIOUS
  <2>3. b \in Int
    BY <2>2, AssetsAre DEF CoinsTrue
  <2>4. b + i = b + j
    BY <1>1, <1>3, <1>7, <2>1, <2>2
  <2> QED BY ONLY <1>1, <2>1, <2>3, <2>4
<1>10. \A i \in Gained(tx, a) : Values(tx.outs)[i] = h[i].value /\ Values(tx.outs)[i] \in Int
  <2> SUFFICES ASSUME NEW i \in Gained(tx, a)
               PROVE  Values(tx.outs)[i] = h[i].value /\ Values(tx.outs)[i] \in Int
    OBVIOUS
  <2>1. i \in DOMAIN tx.outs /\ i \in 1..Len(tx.outs)
    BY <1>1 DEF Gained
  <2>2. tx.outs[i].value \in Int
    BY <2>1, BoundsAssumption DEF Sound
  <2> QED BY <1>3, <1>7, <2>1, <2>2 DEF Values
<1>11. Priced(NewCoins(tx, a)) /\ Worth(NewCoins(tx, a)) = GainedSum(tx, a)
  BY <1>6, <1>8, <1>9, <1>10, WorthNumbered DEF GainedSum
<1>12. GainedSum(tx, a) \in Int
  BY <1>6, <1>10, SumType DEF GainedSum
<1> QED BY <1>5, <1>11, <1>12

(* The wallet's balance changes by these.                                    *)
LEMMA ApplyBalance ==
    ASSUME CoinsTrue, SpentTrue, mined < MaxTxs, NEW tx, Sound(tx), NEW review, Apply(tx, review), NEW a
    PROVE  /\ Balance(a)' = Balance(a) - GoneSum(tx, a) + GainedSum(tx, a)
           /\ Balance(a) \in Int /\ GoneSum(tx, a) \in Int /\ GainedSum(tx, a) \in Int
<1>1. PICK P, L, N : P = Purse(a) /\ L = LostCoins(tx, a) /\ N = NewCoins(tx, a)
  OBVIOUS
<1>2. /\ coins' = coins \cup Created(tx)
      /\ spent' = spent \cup {tx.ins[i].id : i \in DOMAIN tx.ins}
  BY DEF Apply
<1>3. \A c \in Created(tx) : c.id \notin spent' /\ c \notin coins
  BY CoinsGrow
<1>4. /\ L \subseteq P /\ Worth(L) = GoneSum(tx, a) /\ GoneSum(tx, a) \in Int
      /\ \A c \in P : c \in L <=> \E i \in DOMAIN tx.ins : tx.ins[i].id = c.id
  BY <1>1, LostWorth
<1>5. /\ N = {c \in Created(tx) : c.owner = Wallet /\ c.asset = a}
      /\ Priced(N) /\ Worth(N) = GainedSum(tx, a) /\ GainedSum(tx, a) \in Int
  BY <1>1, NewWorth
<1>6. P = {c \in coins : c.id \notin spent /\ c.owner = Wallet /\ c.asset = a}
  BY <1>1 DEF Purse, Unspent
<1>7. Purse(a)' = (P \ L) \cup N
  <2>1. Purse(a)' = {c \in coins' : c.id \notin spent' /\ c.owner = Wallet /\ c.asset = a}
    BY DEF Purse, Unspent
  <2>2. \A c \in coins : c \in Purse(a)' <=> c \in P \ L
    BY <1>2, <1>4, <1>6, <2>1
  <2>3. \A c \in Created(tx) : c \in Purse(a)' <=> c \in N
    BY <1>2, <1>3, <1>5, <2>1
  <2>4. Purse(a)' \subseteq coins \cup Created(tx) /\ N \subseteq Created(tx) /\ P \subseteq coins
    BY <1>2, <1>5, <1>6, <2>1
  <2> QED BY <1>3, <2>2, <2>3, <2>4
<1>8. Priced(P)
  <2>1. P \subseteq coins
    BY <1>6
  <2> QED BY <2>1, CoinsPriced, WorthIs
<1>9. Worth(P) = Worth(P \ L) + Worth(L) /\ Worth(P \ L) \in Int /\ Worth(L) \in Int
      /\ Priced(P \ L)
  <2>1. Priced(L) /\ Priced(P \ L)
    BY <1>4, <1>8, WorthIs
  <2>2. (P \ L) \cup L = P /\ (P \ L) \cap L = {}
    BY <1>4
  <2>3. Worth((P \ L) \cup L) = Worth(P \ L) + Worth(L) /\ Worth(P \ L) \in Int /\ Worth(L) \in Int
    BY <2>1, <2>2, WorthUnion
  <2> QED BY <2>1, <2>2, <2>3
<1>10. Worth((P \ L) \cup N) = Worth(P \ L) + Worth(N)
  <2>1. (P \ L) \cap N = {}
    BY <1>3, <1>5, <1>6
  <2> QED BY <1>5, <1>9, <2>1, WorthUnion
<1>11. Balance(a) = Worth(P)
  BY <1>1 DEF Balance, Purse
<1>12. Balance(a)' = Worth((P \ L) \cup N)
  <2>1. Balance(a)' = Worth(Purse(a)')
    BY DEF Balance, Purse, Worth
  <2> QED BY <1>7, <2>1
<1> QED BY <1>4, <1>5, <1>9, <1>10, <1>11, <1>12

(* An own offer's signature covers the coin given and the output wanted.     *)
LEMMA OfferSig ==
    ASSUME NEW o, OwnOffer(o)
    PROVE  /\ o.sig.flag = Single /\ o.sig.by = Wallet
           /\ o.sig.over.ins = <<OfferedIn(o)>> /\ o.sig.over.outs = <<o.out>>
<1>1. PICK x, y : x = OfferedIn(o) /\ y = o.out
  OBVIOUS
<1>2. o.sig = Signature([ins |-> <<x>>, outs |-> <<y>>], 1, Single, Wallet)
  BY <1>1 DEF OwnOffer, Single, OfferedIn
<1>3. SighashData([ins |-> <<x>>, outs |-> <<y>>], 1, Single) = [ins |-> <<x>>, outs |-> <<y>>]
  BY DEF SighashData, Single
<1> QED BY <1>1, <1>2, <1>3 DEF Signature

(* Different offers of the wallet have different signatures, the coins they  *)
(* give being named rightly.                                                 *)
LEMMA OfferBySig ==
    ASSUME NEW o, NEW q, OwnOffer(o), OwnOffer(q), o.sig = q.sig,
           CoinAt(o.id).asset = o.give.asset, CoinAt(q.id).asset = q.give.asset
    PROVE  o = q
<1>1. <<OfferedIn(o)>> = <<OfferedIn(q)>> /\ <<o.out>> = <<q.out>>
  BY OfferSig
<1>2. OfferedIn(o) = OfferedIn(q) /\ o.out = q.out
  BY <1>1
<1>3. o.id = q.id /\ o.give.amount = q.give.amount
  BY <1>2 DEF OfferedIn
<1>4. o.give.asset = q.give.asset
  BY <1>3
<1>5. o.give = q.give
  BY <1>3, <1>4 DEF OwnOffer
<1> QED BY <1>2, <1>3, <1>5 DEF OwnOffer

(* Inputs of the wallet that are in a transaction as makers' inputs: each is *)
(* an own offer, paid by the output across from it.                          *)
OwnIns(p) == {i \in DOMAIN p.ins : ~p.ins[i].derived /\ p.ins[i].script = Wallet}

TakesOffer(tx, i, o) ==
    /\ o \in offers /\ OwnOffer(o) /\ tx.witness[i] = o.sig
    /\ tx.ins[i] = OfferedIn(o) /\ i \in DOMAIN tx.outs /\ tx.outs[i] = o.out

(* Nobody else can have signed for a coin of the wallet: the only such       *)
(* signatures that the wallet did not make for this transaction are those of *)
(* its offers.                                                               *)
LEMMA OwnTaken ==
    ASSUME OffersTrue, NEW s, SignedOk(s), NEW i \in OwnIns(s.pset)
    PROVE  \E o : TakesOffer(s.tx, i, o)
<1> DEFINE p == s.pset
           kind == s.review.kind
           tx == s.tx
<1>1. /\ Analyzed(p, kind) /\ Backed(p) /\ tx = Finalized(p, kind) /\ FinalAccepted(p, tx, kind)
  BY DEF SignedOk
<1>2. i \in DOMAIN p.ins /\ ~p.ins[i].derived /\ p.ins[i].script = Wallet
  BY DEF OwnIns
<1> HIDE DEF p, kind, tx
<1>3. Carries(tx, p)
  BY <1>1, TxOfPset
<1>4. /\ tx.witness[i] = p.ins[i].witness /\ tx.witness[i].flag = Single
      /\ WitnessVerifies(tx, i, tx.witness[i], Wallet)
  BY <1>1, <1>2 DEF FinalAccepted, Single
<1>5. PICK w : w = tx.witness[i]
  OBVIOUS
<1>6. w = Signature(tx, i, Single, Wallet)
  BY <1>4, <1>5 DEF WitnessVerifies
<1>7. /\ w.by = Wallet /\ w.over.ins = <<tx.ins[i]>>
      /\ w.over.outs = IF i \in DOMAIN tx.outs THEN <<tx.outs[i]>> ELSE <<>>
  BY <1>6 DEF Signature, SighashData, Single
<1>8. PICK o \in offers : w = o.sig
  <2>1. BackedInput(p.ins[i])
    BY <1>1, <1>2, <1>3 DEF Backed, Carries
  <2> QED BY <1>4, <1>5, <1>7, <2>1 DEF BackedInput, Single
<1>9. o \in offers /\ OwnOffer(o)
  BY <1>8 DEF OffersTrue
<1>10. <<tx.ins[i]>> = <<OfferedIn(o)>> /\ w.over.outs = <<o.out>>
  BY <1>7, <1>8, <1>9, OfferSig
<1>11. i \in DOMAIN tx.outs
  <2>1. PICK y, v : y = o.out /\ v = w.over.outs
    OBVIOUS
  <2>2. v = <<y>> /\ (i \notin DOMAIN tx.outs => v = <<>>)
    BY <1>7, <1>10, <2>1
  <2>3. Len(<<y>>) = 1 /\ Len(<<>>) = 0
    OBVIOUS
  <2> QED BY <2>2, <2>3
<1>12. <<tx.outs[i]>> = <<o.out>>
  BY <1>7, <1>10, <1>11
<1>13. tx.ins[i] = OfferedIn(o) /\ tx.outs[i] = o.out
  BY <1>10, <1>12
<1> QED BY <1>5, <1>8, <1>9, <1>11, <1>13 DEF TakesOffer, tx

(* Their outputs carry no derivation, so that the review does not count them. *)
LEMMA MakersFirst ==
    ASSUME NEW p, NEW kind, Analyzed(p, kind), Backed(p), NEW i \in DOMAIN p.ins, ~p.ins[i].derived
    PROVE  kind = "SwapTake" /\ i \in DOMAIN p.outs /\ ~p.outs[i].derived /\ p.ins[i].issuance = NoIssuance
<1> DEFINE S == {j \in DOMAIN p.ins : ~p.ins[j].derived}
           k == Cardinality(S)
<1>1. InputAccepted(p, i, kind)
  BY DEF Analyzed
<1>2. kind = "SwapTake" /\ p.ins[i].issuance = NoIssuance
  BY <1>1 DEF InputAccepted
<1>3. /\ k < Len(p.ins) /\ \A j \in 1..k : ~p.ins[j].derived
      /\ Len(p.outs) > k /\ \A j \in 1..k : ~p.outs[j].derived
  BY <1>2 DEF Analyzed, KindAccepted
<1>4. /\ DOMAIN p.ins = 1..Len(p.ins) /\ Len(p.ins) \in Nat
      /\ DOMAIN p.outs = 1..Len(p.outs) /\ Len(p.outs) \in Nat
  BY IsSeqOf DEF Backed, IsSeq
<1>5. IsFiniteSet(S)
  <2>1. S \in SUBSET (1..Len(p.ins))
    BY <1>4
  <2> QED BY <1>4, <2>1, Positions
<1>6. i \in S
  OBVIOUS
<1>7. \A j \in DOMAIN p.ins : ~p.ins[j].derived <=> j \in S
  OBVIOUS
<1> HIDE DEF S
<1>8. k \in Nat
  BY <1>5, FS_CardinalityType
<1>9. 1..k \subseteq S
  <2> SUFFICES ASSUME NEW j \in 1..k PROVE j \in S
    OBVIOUS
  <2>1. j \in 1..Len(p.ins)
    BY <1>3, <1>4, <1>8
  <2> QED BY <1>3, <1>4, <1>7, <2>1
<1>10. Cardinality(1..k) = k
  BY <1>8, FS_Interval
<1>11. 1..k = S
  BY <1>5, <1>9, <1>10, FS_Subset
<1>12. i \in 1..k
  BY <1>6, <1>11
<1>13. i \in 1..Len(p.outs)
  BY <1>3, <1>4, <1>8, <1>12
<1> QED BY <1>2, <1>3, <1>4, <1>12, <1>13

(* The inputs of a signed transaction that are the wallet's: those it signed *)
(* for this transaction, and those of its offers.                            *)
OwnInsOf(p, a) == {i \in OwnIns(p) : p.ins[i].asset = a}

OwnOutsOf(p, a) == {i \in OwnIns(p) : i \in DOMAIN p.outs /\ p.outs[i].asset = a}

(* The ledger accepts a signature for a coin from its owner only, so that    *)
(* whatever an input that it accepts says of its script is true.             *)
LEMMA InputCoins ==
    ASSUME NEW p, NEW tx, NEW kind, Carries(tx, p), FinalAccepted(p, tx, kind), Accepts(tx),
           NEW i \in DOMAIN p.ins
    PROVE  /\ Exists(p.ins[i].id) /\ CoinAt(p.ins[i].id).owner = p.ins[i].script
<1>1. i \in DOMAIN tx.ins /\ tx.ins[i].id = p.ins[i].id
  <2>1. i \in 1..Len(p.ins) /\ i \in DOMAIN tx.ins
    BY DEF Carries
  <2> QED BY <2>1, CarriesParts
<1>2. PICK w, owner, script : /\ w = tx.witness[i] /\ script = p.ins[i].script
                              /\ owner = CoinAt(p.ins[i].id).owner
  OBVIOUS
<1>3. Exists(p.ins[i].id) /\ WitnessVerifies(tx, i, w, owner)
  BY <1>1, <1>2 DEF Accepts
<1>4. WitnessVerifies(tx, i, w, script)
  BY <1>2 DEF FinalAccepted
<1>5. w.by = owner /\ w.by = script
  <2>1. w = Signature(tx, i, w.flag, owner) /\ w = Signature(tx, i, w.flag, script)
    BY <1>3, <1>4 DEF WitnessVerifies
  <2>2. \A f, x : Signature(tx, i, f, x).by = x
    BY DEF Signature
  <2> QED BY <2>1, <2>2
<1> QED BY <1>2, <1>3, <1>5

(* What a signed transaction takes from the wallet are the inputs that its   *)
(* review counts, and the coins of the wallet's own offers, if it gives the  *)
(* wallet's coins their true assets.                                         *)
LEMMA GoneIs ==
    ASSUME NEW p, NEW kind, Analyzed(p, kind), ~Misnames(p), NEW tx, Carries(tx, p),
           FinalAccepted(p, tx, kind), Accepts(tx), NEW a
    PROVE  /\ Gone(tx, a) = WalletIns(p, a) \cup OwnInsOf(p, a)
           /\ WalletIns(p, a) \cap OwnInsOf(p, a) = {}
<1>1. DOMAIN tx.ins = DOMAIN p.ins /\ \A i \in DOMAIN p.ins : tx.ins[i].id = p.ins[i].id
  BY CarriesParts DEF Carries
<1>2. \A i \in DOMAIN p.ins :
        /\ Exists(p.ins[i].id) /\ CoinAt(p.ins[i].id).owner = p.ins[i].script
        /\ p.ins[i].script = Wallet => p.ins[i].asset = CoinAt(p.ins[i].id).asset
  BY InputCoins DEF Misnames
<1>3. \A i \in DOMAIN p.ins : p.ins[i].derived => p.ins[i].script = Wallet
  BY DEF Analyzed, InputAccepted, InputIsWallet
<1>4. Gone(tx, a) = {i \in DOMAIN p.ins : p.ins[i].script = Wallet /\ p.ins[i].asset = a}
  BY <1>1, <1>2 DEF Gone
<1> QED BY <1>3, <1>4 DEF WalletIns, OwnInsOf, OwnIns

(* What it brings the wallet are at least the outputs that its review        *)
(* counts, and those across from its own offers.                             *)
LEMMA GainedAre ==
    ASSUME OffersTrue, NEW s, SignedOk(s), NEW a
    PROVE  /\ WalletOuts(s.pset, a) \cup OwnOutsOf(s.pset, a) \subseteq Gained(s.tx, a)
           /\ WalletOuts(s.pset, a) \cap OwnOutsOf(s.pset, a) = {}
<1> DEFINE p == s.pset
           kind == s.review.kind
           tx == s.tx
<1>1. /\ Analyzed(p, kind) /\ Backed(p) /\ tx = Finalized(p, kind)
  BY DEF SignedOk
<1>2. \A i \in OwnIns(p) : \E o : TakesOffer(tx, i, o)
  BY OwnTaken
<1> HIDE DEF p, kind, tx
<1>3. Carries(tx, p)
  BY <1>1, TxOfPset
<1>4. DOMAIN tx.outs = DOMAIN p.outs
      /\ \A i \in DOMAIN p.outs : /\ tx.outs[i].to = p.outs[i].to /\ tx.outs[i].key = p.outs[i].key
                                  /\ tx.outs[i].asset = p.outs[i].asset
  <2>1. DOMAIN tx.outs = DOMAIN p.outs /\ DOMAIN p.outs = 1..Len(p.outs)
    BY <1>3 DEF Carries
  <2>2. \A i \in 1..Len(p.outs) : /\ tx.outs[i].to = p.outs[i].to /\ tx.outs[i].key = p.outs[i].key
                                  /\ tx.outs[i].asset = p.outs[i].asset
    BY <1>3, CarriesParts
  <2> QED BY <2>1, <2>2
<1>5. \A i \in WalletOuts(p, a) : i \in Gained(tx, a) /\ p.outs[i].derived
  <2> SUFFICES ASSUME NEW i \in WalletOuts(p, a) PROVE i \in Gained(tx, a) /\ p.outs[i].derived
    OBVIOUS
  <2>1. i \in DOMAIN p.outs /\ OutputIsWallet(p.outs[i]) /\ p.outs[i].asset = a
    BY DEF WalletOuts
  <2>2. OutputAccepted(p, i)
    BY <1>1, <2>1 DEF Analyzed
  <2>3. p.outs[i].key \in {"none", Wallet}
    BY <2>1, <2>2 DEF OutputAccepted, Blinded, Unblinds
  <2> QED BY <1>4, <2>1, <2>3 DEF Gained, OutputIsWallet
<1>6. \A i \in OwnOutsOf(p, a) : i \in Gained(tx, a) /\ ~p.outs[i].derived
  <2> SUFFICES ASSUME NEW i \in OwnOutsOf(p, a) PROVE i \in Gained(tx, a) /\ ~p.outs[i].derived
    OBVIOUS
  <2>1. i \in OwnIns(p) /\ i \in DOMAIN p.outs /\ p.outs[i].asset = a
    BY DEF OwnOutsOf
  <2>2. PICK o : TakesOffer(tx, i, o)
    BY <1>2, <2>1
  <2>3. tx.outs[i].to = Wallet /\ tx.outs[i].key = "none"
    BY <2>2 DEF TakesOffer, OwnOffer
  <2>4. i \in DOMAIN p.ins /\ ~p.ins[i].derived
    BY <2>1 DEF OwnIns
  <2>5. ~p.outs[i].derived
    BY <1>1, <2>4, MakersFirst
  <2> QED BY <1>4, <2>1, <2>3, <2>5 DEF Gained
<1> QED BY <1>5, <1>6 DEF p, tx

(* What the offers in a signed transaction promised is what these inputs and *)
(* the outputs across from them hold.                                        *)
OfferTaken(tx, i) == CHOOSE o : TakesOffer(tx, i, o)

(* Own offers in a transaction and their inputs correspond one to one.       *)
LEMMA MatchedTaken ==
    ASSUME OffersTrue, \A o \in offers : CoinAt(o.id).asset = o.give.asset,
           NEW s, SignedOk(s), Sound(s.tx), NEW h,
           h = [i \in OwnIns(s.pset) |-> OfferTaken(s.tx, i)]
    PROVE  /\ h \in [OwnIns(s.pset) -> Matched(s.tx)]
           /\ \A o \in Matched(s.tx) : \E i \in OwnIns(s.pset) : h[i] = o
           /\ \A i, j \in OwnIns(s.pset) : h[i] = h[j] => i = j
           /\ \A i \in OwnIns(s.pset) : TakesOffer(s.tx, i, h[i])
<1> DEFINE p == s.pset
           kind == s.review.kind
           tx == s.tx
<1>1. /\ Analyzed(p, kind) /\ Backed(p) /\ tx = Finalized(p, kind) /\ FinalAccepted(p, tx, kind)
      /\ kind # "SwapOffer"
  BY DEF SignedOk
<1>2. \A i \in OwnIns(p) : TakesOffer(tx, i, h[i])
  BY OwnTaken DEF OfferTaken
<1>3. Sound(tx)
  OBVIOUS
<1> HIDE DEF p, kind, tx
<1>4. Carries(tx, p)
  BY <1>1, TxOfPset
<1>5. DOMAIN tx.ins = DOMAIN p.ins /\ OwnIns(p) \subseteq DOMAIN p.ins /\ DOMAIN p.ins = 1..Len(tx.ins)
  BY <1>4 DEF Carries, OwnIns
<1>6. \A i \in OwnIns(p) : h[i] \in Matched(tx)
  BY <1>2, <1>5 DEF TakesOffer, Matched
<1>7. ASSUME NEW o \in Matched(tx) PROVE \E i \in OwnIns(p) : h[i] = o
  <2>1. PICK i \in DOMAIN p.ins : o \in offers /\ OwnOffer(o) /\ tx.witness[i] = o.sig
    BY <1>5 DEF Matched, OffersTrue
  <2>2. o.sig.flag = Single /\ o.sig.by = Wallet
    BY <2>1, OfferSig
  <2>3. ~p.ins[i].derived
    BY <1>1, <2>1, <2>2 DEF FinalAccepted, KindSighash, Single
  <2>4. p.ins[i].script = Wallet
    <3>1. WitnessVerifies(tx, i, o.sig, p.ins[i].script)
      BY <1>1, <2>1 DEF FinalAccepted
    <3>2. o.sig = Signature(tx, i, o.sig.flag, p.ins[i].script)
      BY <3>1 DEF WitnessVerifies
    <3>3. Signature(tx, i, o.sig.flag, p.ins[i].script).by = p.ins[i].script
      BY DEF Signature
    <3> QED BY <2>2, <3>2, <3>3
  <2>5. i \in OwnIns(p)
    BY <2>3, <2>4 DEF OwnIns
  <2>6. h[i] \in offers /\ OwnOffer(h[i]) /\ h[i].sig = o.sig
    BY <1>2, <2>1, <2>5 DEF TakesOffer
  <2>7. h[i] = o
    BY <2>1, <2>6, OfferBySig
  <2> QED BY <2>5, <2>7
<1>8. ASSUME NEW i \in OwnIns(p), NEW j \in OwnIns(p), h[i] = h[j] PROVE i = j
  <2>1. tx.ins[i] = tx.ins[j]
    BY <1>2, <1>8 DEF TakesOffer
  <2> QED BY <1>3, <1>5, <2>1 DEF Sound
<1>9. h \in [OwnIns(p) -> Matched(tx)]
  BY <1>6 DEF p
<1> QED BY <1>2, <1>7, <1>8, <1>9 DEF p, tx

(* An own offer says of an asset what its input and the output across from   *)
(* it hold, ...                                                              *)
LEMMA TakenWorth ==
    ASSUME \A q \in offers : CoinAt(q.id).asset = q.give.asset,
           NEW p, ~Misnames(p), NEW tx, Carries(tx, p), NEW i \in OwnIns(p), NEW o,
           TakesOffer(tx, i, o), NEW a
    PROVE  /\ Worths(a)[o] = (IF i \in OwnOutsOf(p, a) THEN tx.outs[i].value ELSE 0)
                             - (IF i \in OwnInsOf(p, a) THEN tx.ins[i].value ELSE 0)
           /\ tx.outs[i].value \in Int /\ tx.ins[i].value \in Int
<1>1. o \in offers /\ OwnOffer(o) /\ tx.ins[i] = OfferedIn(o) /\ i \in DOMAIN tx.outs /\ tx.outs[i] = o.out
  BY DEF TakesOffer
<1>2. /\ DOMAIN tx.outs = 1..Len(p.outs) /\ DOMAIN p.outs = 1..Len(p.outs) /\ DOMAIN p.ins = 1..Len(p.ins)
  BY DEF Carries
<1>3. i \in 1..Len(p.outs) /\ i \in 1..Len(p.ins) /\ i \in DOMAIN p.ins
  BY <1>1, <1>2 DEF OwnIns
<1>4. tx.outs[i].asset = p.outs[i].asset /\ tx.ins[i].id = p.ins[i].id
  BY <1>3, CarriesParts
<1>5. o.id = tx.ins[i].id /\ o.give.amount = tx.ins[i].value
  BY <1>1 DEF OfferedIn
<1>6. o.want.asset = p.outs[i].asset /\ o.want.amount = tx.outs[i].value
  BY <1>1, <1>4 DEF OwnOffer
<1>7. o.give.asset = p.ins[i].asset
  <2>1. CoinAt(o.id).asset = o.give.asset
    BY <1>1
  <2>2. p.ins[i].asset = CoinAt(p.ins[i].id).asset
    BY <1>3 DEF Misnames, OwnIns
  <2> QED BY <1>4, <1>5, <2>1, <2>2
<1>8. i \in OwnOutsOf(p, a) <=> o.want.asset = a
  BY <1>2, <1>3, <1>6 DEF OwnOutsOf
<1>9. i \in OwnInsOf(p, a) <=> o.give.asset = a
  BY <1>7 DEF OwnInsOf
<1>10. Worths(a)[o] = (IF o.want.asset = a THEN o.want.amount ELSE 0)
                      - (IF o.give.asset = a THEN o.give.amount ELSE 0)
  BY <1>1 DEF Worths
<1>11. o.give.amount \in Int /\ o.out.value \in Int
  BY <1>1, BoundsAssumption DEF OwnOffer
<1> QED BY <1>1, <1>5, <1>6, <1>8, <1>9, <1>10, <1>11

(* ... and so do all of them together.                                       *)
LEMMA TakenSum ==
    ASSUME OffersTrue, \A o \in offers : CoinAt(o.id).asset = o.give.asset,
           NEW s, SignedOk(s), ~Misnames(s.pset), Sound(s.tx), NEW a
    PROVE  /\ FromOffers(s.tx, a) = SumFunctionOnSet(Values(s.tx.outs), OwnOutsOf(s.pset, a))
                                    - SumFunctionOnSet(Values(s.tx.ins), OwnInsOf(s.pset, a))
<1> DEFINE p == s.pset
           tx == s.tx
           I == OwnIns(p)
           O == OwnOutsOf(p, a)
           N == OwnInsOf(p, a)
<1>1. PICK h : h = [i \in OwnIns(s.pset) |-> OfferTaken(s.tx, i)]
  OBVIOUS
<1>2. /\ h \in [I -> Matched(tx)] /\ \A o \in Matched(tx) : \E i \in I : h[i] = o
      /\ \A i, j \in I : h[i] = h[j] => i = j
      /\ \A i \in I : TakesOffer(tx, i, h[i])
  BY <1>1, MatchedTaken
<1>3. Analyzed(p, s.review.kind) /\ Backed(p) /\ tx = Finalized(p, s.review.kind) /\ ~Misnames(p)
  BY DEF SignedOk
<1>4. FromOffers(tx, a) = SumFunctionOnSet(Worths(a), Matched(tx))
  BY FromOffersIs
<1> HIDE DEF p, tx
<1>5. Carries(tx, p)
  BY <1>3, TxOfPset
<1>6. IsFiniteSet(I)
  <2>1. I \in SUBSET (1..Len(p.ins)) /\ Len(p.ins) \in Nat
    BY <1>5 DEF OwnIns, Carries
  <2> QED BY <2>1, Positions
<1>7. O \subseteq I /\ N \subseteq I
  BY DEF OwnOutsOf, OwnInsOf
<1>8. PICK u, v, f : /\ u = [i \in I |-> IF i \in O THEN tx.outs[i].value ELSE 0]
                     /\ v = [i \in I |-> IF i \in N THEN tx.ins[i].value ELSE 0]
                     /\ f = [i \in I |-> Worths(a)[h[i]]]
  OBVIOUS
<1>9. \A i \in I : /\ Worths(a)[h[i]] = (IF i \in O THEN tx.outs[i].value ELSE 0)
                                        - (IF i \in N THEN tx.ins[i].value ELSE 0)
                   /\ tx.outs[i].value \in Int /\ tx.ins[i].value \in Int
  <2> SUFFICES ASSUME NEW i \in I
               PROVE  /\ Worths(a)[h[i]] = (IF i \in O THEN tx.outs[i].value ELSE 0)
                                        - (IF i \in N THEN tx.ins[i].value ELSE 0)
                      /\ tx.outs[i].value \in Int /\ tx.ins[i].value \in Int
    OBVIOUS
  <2>1. TakesOffer(tx, i, h[i])
    BY <1>2
  <2> QED BY <1>3, <1>5, <2>1, TakenWorth
<1>10. /\ DOMAIN tx.outs = DOMAIN p.outs
       /\ \A i \in I : Values(tx.ins)[i] = tx.ins[i].value
       /\ \A i \in O : Values(tx.outs)[i] = tx.outs[i].value
  BY <1>5 DEF Carries, Values, OwnIns, OwnOutsOf
<1> HIDE DEF I, O, N
<1>11. \A i \in I : u[i] \in Int /\ v[i] \in Int /\ f[i] = u[i] - v[i]
  BY <1>8, <1>9
<1>12. SumFunctionOnSet(f, I) = SumFunctionOnSet(u, I) - SumFunctionOnSet(v, I)
  BY <1>6, <1>11, SumDifference
<1>13. SumFunctionOnSet(u, I) = SumFunctionOnSet(Values(tx.outs), O)
  <2>1. \A i \in O : Values(tx.outs)[i] \in Int /\ u[i] = Values(tx.outs)[i]
    BY <1>7, <1>8, <1>9, <1>10
  <2>2. \A i \in I \ O : u[i] = 0
    BY <1>8
  <2> QED BY <1>6, <1>7, <2>1, <2>2, SumWhere
<1>14. SumFunctionOnSet(v, I) = SumFunctionOnSet(Values(tx.ins), N)
  <2>1. \A i \in N : Values(tx.ins)[i] \in Int /\ v[i] = Values(tx.ins)[i]
    BY <1>7, <1>8, <1>9, <1>10
  <2>2. \A i \in I \ N : v[i] = 0
    BY <1>8
  <2> QED BY <1>6, <1>7, <2>1, <2>2, SumWhere
<1>15. SumFunctionOnSet(f, I) = SumFunctionOnSet(Worths(a), Matched(tx))
  <2>1. \A i \in I : f[i] \in Int /\ f[i] = Worths(a)[h[i]]
    BY <1>8, <1>11
  <2> QED BY <1>2, <1>6, <2>1, SumRenamed
<1> QED BY <1>4, <1>12, <1>13, <1>14, <1>15 DEF p, tx, O, N

(* No loss: mining what the wallet signed.                                   *)
LEMMA MineNoLoss ==
    ASSUME LedgerTrue, NoLoss, NEW s \in signed, Mine(s) PROVE NoLoss'
<1> SUFFICES ASSUME ~misled PROVE (\A a \in Assets : Balance(a) >= owed[a])'
  BY DEF NoLoss, Mine
<1> DEFINE p == s.pset
           kind == s.review.kind
           tx == s.tx
<1>1. /\ CoinsTrue /\ SpentTrue /\ OffersTrue /\ SignedOk(s) /\ OwedTrue
  BY DEF LedgerTrue, SignedTrue
<1>2. mined < MaxTxs /\ Accepts(tx) /\ Apply(tx, s.review)
  BY DEF Mine
<1>3. /\ Analyzed(p, kind) /\ Backed(p) /\ tx = Finalized(p, kind) /\ s.review = TxReview(p, kind)
      /\ FinalAccepted(p, tx, kind)
  BY <1>1 DEF SignedOk
<1>3a. ~Misnames(p) /\ \A o \in offers : CoinAt(o.id).asset = o.give.asset
  BY DEF LedgerTrue, NamedTrue
<1>4. Sound(tx)
  BY <1>1, <1>2, MineSound
<1>5. \A a : /\ WalletOuts(p, a) \cup OwnOutsOf(p, a) \subseteq Gained(tx, a)
             /\ WalletOuts(p, a) \cap OwnOutsOf(p, a) = {}
  BY <1>1, GainedAre
<1>6. \A a : FromOffers(tx, a) = SumFunctionOnSet(Values(tx.outs), OwnOutsOf(p, a))
                                    - SumFunctionOnSet(Values(tx.ins), OwnInsOf(p, a))
  BY <1>1, <1>3a, <1>4, TakenSum
<1> HIDE DEF p, kind, tx
<1>7. Carries(tx, p)
  BY <1>3, TxOfPset
<1>8. Values(tx.ins) = Values(p.ins) /\ Values(tx.outs) = Values(p.outs)
  <2>1. DOMAIN tx.ins = DOMAIN p.ins /\ DOMAIN tx.outs = DOMAIN p.outs
    BY <1>7 DEF Carries
  <2>2. /\ \A i \in DOMAIN p.ins : tx.ins[i].value = p.ins[i].value
        /\ \A i \in DOMAIN p.outs : tx.outs[i].value = p.outs[i].value
    <3>1. DOMAIN p.ins = 1..Len(p.ins) /\ DOMAIN p.outs = 1..Len(p.outs)
      BY <1>7 DEF Carries
    <3> QED BY <1>7, <3>1, CarriesParts
  <2> QED BY <2>1, <2>2 DEF Values
<1>9. /\ \A i \in DOMAIN p.ins : Values(p.ins)[i] \in Nat
      /\ \A i \in DOMAIN p.outs : Values(p.outs)[i] \in Nat
  BY <1>3, AcceptedValues
<1> SUFFICES ASSUME NEW a \in Assets PROVE (Balance(a) >= owed[a])'
  BY DEF Assets, Slots
<1> DEFINE in == Values(p.ins)
           out == Values(p.outs)
           wi == WalletIns(p, a)
           wo == WalletOuts(p, a)
           oi == OwnInsOf(p, a)
           oo == OwnOutsOf(p, a)
<1>10. /\ wi \subseteq DOMAIN p.ins /\ oi \subseteq DOMAIN p.ins
       /\ wo \subseteq DOMAIN p.outs /\ oo \subseteq DOMAIN p.outs
       /\ Gained(tx, a) \subseteq DOMAIN p.outs
  <2>1. DOMAIN tx.outs = DOMAIN p.outs
    BY <1>7 DEF Carries
  <2> QED BY <2>1 DEF WalletIns, WalletOuts, OwnInsOf, OwnOutsOf, OwnIns, Gained
<1>11. Gone(tx, a) = wi \cup oi /\ wi \cap oi = {}
  BY <1>2, <1>3, <1>3a, <1>7, GoneIs
<1>12. wo \cup oo \subseteq Gained(tx, a) /\ wo \cap oo = {}
  BY <1>5
<1>13. DOMAIN p.ins = 1..Len(p.ins) /\ DOMAIN p.outs = 1..Len(p.outs) /\ Len(p.ins) \in Nat /\ Len(p.outs) \in Nat
  BY <1>7 DEF Carries
<1>14. /\ Balance(a)' = Balance(a) - GoneSum(tx, a) + GainedSum(tx, a)
       /\ Balance(a) \in Int /\ GoneSum(tx, a) \in Int /\ GainedSum(tx, a) \in Int
  BY <1>1, <1>2, <1>4, ApplyBalance
<1>15. FromReview(s.review, a) = SumFunctionOnSet(out, wo) - SumFunctionOnSet(in, wi)
  BY <1>3, FromReviewIs DEF OutSum, InSum
<1>16. FromOffers(tx, a) = SumFunctionOnSet(out, oo) - SumFunctionOnSet(in, oi)
  BY <1>6, <1>8
<1>17. GoneSum(tx, a) = SumFunctionOnSet(in, wi \cup oi)
       /\ GainedSum(tx, a) = SumFunctionOnSet(out, Gained(tx, a))
  BY <1>8, <1>11 DEF GoneSum, GainedSum
<1> HIDE DEF in, out, wi, wo, oi, oo
<1>18. /\ \A i \in DOMAIN p.ins : in[i] \in Nat /\ in[i] \in Int
       /\ \A i \in DOMAIN p.outs : out[i] \in Nat /\ out[i] \in Int
  BY <1>9 DEF in, out
<1>19. IsFiniteSet(wi) /\ IsFiniteSet(oi) /\ IsFiniteSet(wo) /\ IsFiniteSet(oo) /\ IsFiniteSet(Gained(tx, a))
  BY <1>10, <1>13, Positions
<1>20. PICK A, B, C, D, G : 
          /\ A = SumFunctionOnSet(in, wi) /\ B = SumFunctionOnSet(in, oi)
          /\ C = SumFunctionOnSet(out, wo) /\ D = SumFunctionOnSet(out, oo)
          /\ G = SumFunctionOnSet(out, Gained(tx, a))
  OBVIOUS
<1>21. A \in Int /\ B \in Int /\ C \in Int /\ D \in Int
  <2>1. A \in Int
    BY <1>10, <1>18, <1>19, <1>20, SumType
  <2>2. B \in Int
    BY <1>10, <1>18, <1>19, <1>20, SumType
  <2>3. C \in Int
    BY <1>10, <1>18, <1>19, <1>20, SumType
  <2>4. D \in Int
    BY <1>10, <1>18, <1>19, <1>20, SumType
  <2> QED BY <2>1, <2>2, <2>3, <2>4
<1>22. SumFunctionOnSet(in, wi \cup oi) = A + B
  <2>1. \A i \in wi \cup oi : in[i] \in Int
    BY <1>10, <1>18
  <2> QED BY <1>11, <1>19, <1>20, <2>1, SumUnion
<1>23. C + D <= G
  <2>1. \A i \in wo \cup oo : out[i] \in Int
    BY <1>10, <1>18
  <2>2. SumFunctionOnSet(out, wo \cup oo) = C + D
    BY <1>12, <1>19, <1>20, <2>1, SumUnion
  <2>3. \A i \in Gained(tx, a) : out[i] \in Nat
    BY <1>10, <1>18
  <2>4. SumFunctionOnSet(out, wo \cup oo) <= G
    BY <1>12, <1>19, <1>20, <2>3, SumSubset
  <2> QED BY <2>2, <2>4
<1>24. PICK b, w : b = Balance(a) /\ w = owed[a]
  OBVIOUS
<1>25. b \in Int /\ w \in Int /\ b >= w
  BY <1>1, <1>14, <1>24 DEF NoLoss, OwedTrue
<1>26. owed'[a] = w + (C - A) + (D - B)
  <2>1. owed'[a] = owed[a] + FromReview(s.review, a) + FromOffers(tx, a)
    BY <1>2 DEF Apply
  <2> QED BY <1>15, <1>16, <1>20, <1>24, <2>1
<1>27. Balance(a)' = b - (A + B) + G /\ G \in Int
  BY <1>14, <1>17, <1>20, <1>22, <1>24
<1> QED BY <1>21, <1>23, <1>25, <1>26, <1>27

(* No loss: a taker completes an offer of the wallet.                        *)
LEMMA FillNoLoss ==
    ASSUME LedgerTrue, NoLoss, NEW o \in offers, Fill(o) PROVE NoLoss'
<1> SUFFICES ASSUME ~misled PROVE (\A a \in Assets : Balance(a) >= owed[a])'
  BY DEF NoLoss, Fill
<1>1. /\ CoinsTrue /\ SpentTrue /\ OffersTrue /\ OwnOffer(o) /\ OwedTrue
  BY DEF LedgerTrue, OffersTrue
<1>2. PICK tx, review : tx = Completion(o) /\ review = [changes |-> <<>>, fee |-> 0]
  OBVIOUS
<1>3. mined < MaxTxs /\ Completes(o) /\ Apply(tx, review)
  BY <1>2 DEF Fill
<1>4. Sound(tx)
  BY <1>1, <1>2, <1>3, FillSound
<1>5. Completed(tx, o)
  BY <1>2, CompletionIs
<1>6. /\ DOMAIN tx.ins = {1, 2} /\ DOMAIN tx.outs = {1, 2}
      /\ tx.ins[1].id = o.id /\ tx.ins[1].value = o.give.amount /\ tx.ins[2].id = 0
      /\ tx.outs[1] = o.out /\ tx.outs[2].to = "taker"
      /\ tx.witness[1] = o.sig /\ tx.witness[2].by = "taker"
  BY <1>5 DEF Completed, OfferedIn
<1>7. Matched(tx) = {o}
  <2>1. o \in Matched(tx)
    BY <1>6 DEF Matched
  <2>2. ASSUME NEW q \in Matched(tx) PROVE q = o
    <3>1. PICK i \in {1, 2} : q \in offers /\ OwnOffer(q) /\ tx.witness[i] = q.sig
      BY <1>1, <1>6 DEF Matched, OffersTrue
    <3>2. q.sig.by = Wallet
      BY <3>1, OfferSig
    <3>3. i = 1
      BY <1>6, <3>1, <3>2 DEF Wallet
    <3>4. CoinAt(o.id).asset = o.give.asset /\ CoinAt(q.id).asset = q.give.asset
      BY <3>1 DEF LedgerTrue, NamedTrue
    <3> QED BY <1>1, <1>6, <3>1, <3>3, <3>4, OfferBySig
  <2> QED BY <2>1, <2>2
<1> SUFFICES ASSUME NEW a \in Assets PROVE (Balance(a) >= owed[a])'
  BY DEF Assets, Slots
<1>8. PICK c \in coins : c.id = o.id /\ c.owner = Wallet /\ c.asset = o.give.asset
  <2>1. PICK c : c = CoinAt(o.id)
    OBVIOUS
  <2>2. c \in coins /\ c.id = o.id /\ c.asset = o.give.asset
    BY <1>3, <2>1, CoinFound DEF Completes
  <2>3. WitnessVerifies(Completion(o), 1, o.sig, c.owner)
    BY <1>3, <2>1 DEF Completes
  <2>4. o.sig.by = c.owner
    <3>1. o.sig = Signature(Completion(o), 1, o.sig.flag, c.owner)
      BY <2>3 DEF WitnessVerifies
    <3>2. \A t, f, x : Signature(t, 1, f, x).by = x
      BY DEF Signature
    <3> QED BY <3>1, <3>2
  <2> QED BY <1>1, <2>2, <2>4, OfferSig
<1>9. Gone(tx, a) = IF o.give.asset = a THEN {1} ELSE {}
  <2>1. ~Exists(0)
    BY <1>1 DEF Exists, CoinsTrue
  <2>2. Exists(o.id) /\ CoinAt(o.id) = c
    BY <1>1, <1>8, CoinIs
  <2> QED BY <1>6, <1>8, <2>1, <2>2 DEF Gone
<1>10. Gained(tx, a) = IF o.out.asset = a THEN {1} ELSE {}
  <2>1. o.out.to = Wallet /\ o.out.key = "none"
    BY <1>1 DEF OwnOffer
  <2> QED BY <1>6, <2>1 DEF Gained, Wallet
<1>11. o.give.amount \in Int /\ o.out.value \in Int /\ o.want.asset = o.out.asset /\ o.want.amount = o.out.value
  BY <1>1, BoundsAssumption DEF OwnOffer
<1>12. Values(tx.ins)[1] = o.give.amount /\ Values(tx.outs)[1] = o.out.value
  BY <1>6 DEF Values
<1>13. GoneSum(tx, a) = IF o.give.asset = a THEN o.give.amount ELSE 0
  <2>1. SumFunctionOnSet(Values(tx.ins), {1}) = o.give.amount
    BY <1>11, <1>12, SumOne
  <2>2. SumFunctionOnSet(Values(tx.ins), {}) = 0
    BY SumEmpty
  <2> QED BY <1>9, <2>1, <2>2 DEF GoneSum
<1>14. GainedSum(tx, a) = IF o.out.asset = a THEN o.out.value ELSE 0
  <2>1. SumFunctionOnSet(Values(tx.outs), {1}) = o.out.value
    BY <1>11, <1>12, SumOne
  <2>2. SumFunctionOnSet(Values(tx.outs), {}) = 0
    BY SumEmpty
  <2> QED BY <1>10, <2>1, <2>2 DEF GainedSum
<1>15. FromOffers(tx, a) = (IF o.out.asset = a THEN o.out.value ELSE 0)
                           - (IF o.give.asset = a THEN o.give.amount ELSE 0)
  <2>1. Worths(a)[o] = (IF o.want.asset = a THEN o.want.amount ELSE 0)
                      - (IF o.give.asset = a THEN o.give.amount ELSE 0)
    BY DEF Worths
  <2>2. FromOffers(tx, a) = SumFunctionOnSet(Worths(a), {o})
    BY <1>1, <1>7, FromOffersIs
  <2>3. Worths(a)[o] \in Int
    BY <1>11, <2>1
  <2>4. FromOffers(tx, a) = Worths(a)[o]
    BY <2>2, <2>3, SumOne
  <2> QED BY <1>11, <2>1, <2>4
<1>16. FromReview(review, a) = 0
  BY <1>2, NothingReviewed
<1>17. /\ Balance(a)' = Balance(a) - GoneSum(tx, a) + GainedSum(tx, a) /\ Balance(a) \in Int
  BY <1>1, <1>3, <1>4, ApplyBalance
<1>18. owed'[a] = owed[a] + FromReview(review, a) + FromOffers(tx, a) /\ owed[a] \in Int
  BY <1>1, <1>3 DEF Apply, OwedTrue
<1>19. Balance(a) >= owed[a]
  BY DEF NoLoss
<1>20. PICK b, w, x, y : /\ b = Balance(a) /\ w = owed[a]
                         /\ x = (IF o.give.asset = a THEN o.give.amount ELSE 0)
                         /\ y = (IF o.out.asset = a THEN o.out.value ELSE 0)
  OBVIOUS
<1>21. b \in Int /\ w \in Int /\ x \in Int /\ y \in Int /\ b >= w
  BY <1>11, <1>17, <1>18, <1>19, <1>20
<1>22. Balance(a)' = b - x + y /\ owed'[a] = w + 0 + (y - x)
  BY <1>13, <1>14, <1>15, <1>16, <1>17, <1>18, <1>20
<1> QED BY <1>21, <1>22

(* Nothing else touches the account or the coins.                            *)
LEMMA NoLossStays ==
    ASSUME NoLoss, UNCHANGED <<coins, spent, owed>>, misled => misled' PROVE NoLoss'
<1>1. \A a : Balance(a)' = Balance(a)
  BY DEF Balance, Unspent
<1> QED BY <1>1 DEF NoLoss, Assets, Slots

(* A request touches no coin.                                                *)
LEMMA RequestStarts == ASSUME Request PROVE UNCHANGED <<coins, spent, owed, misled>>
<1>1. ASSUME NEW req, NEW res, Start(req, res) PROVE UNCHANGED <<coins, spent, owed, misled>>
  BY <1>1 DEF Start
<1>2. ASSUME NEW a, NEW key, NEW r, NEW n, Transfer(a, n, key, r)
      PROVE  UNCHANGED <<coins, spent, owed, misled>>
  BY <1>1, <1>2 DEF Transfer
<1>3. ASSUME NEW n, NEW t, NEW r, Issue(n, t, r) PROVE UNCHANGED <<coins, spent, owed, misled>>
  BY <1>1, <1>3 DEF Issue
<1>4. ASSUME NEW a, NEW r, NEW n, Split(a, n, r) PROVE UNCHANGED <<coins, spent, owed, misled>>
  BY <1>1, <1>4 DEF Split
<1>5. ASSUME NEW c, NEW want, NEW n, MakeOffer(c, want, n) PROVE UNCHANGED <<coins, spent, owed, misled>>
  BY <1>1, <1>5 DEF MakeOffer
<1>6. ASSUME NEW c, NEW r, Cancel(c, r) PROVE UNCHANGED <<coins, spent, owed, misled>>
  BY <1>1, <1>6 DEF Cancel
<1>7. ASSUME NEW q, NEW sell, NEW buy, NEW n, NEW side, NEW m, NEW r,
             Swap(q, sell, buy, n, side, m, r)
      PROVE  UNCHANGED <<coins, spent, owed, misled>>
  BY <1>1, <1>7 DEF Swap
<1> QED BY <1>2, <1>3, <1>4, <1>5, <1>6, <1>7 DEF Request

-----------------------------------------------------------------------------
(* The invariant, and the theorems.                                          *)

Inv == LedgerTrue /\ FlowTrue /\ NoLoss

(* Every step keeps the invariant.                                           *)
LEMMA NextKeeps == ASSUME Inv, [Next]_vars PROVE Inv'
<1> USE DEF Inv
<1>1. CASE Request
  <2>1. UNCHANGED <<coins, spent, owed, misled>>
    BY <1>1, RequestStarts
  <2> QED BY <1>1, <2>1, RequestKeeps, NoLossStays
<1>2. CASE Approve
  BY <1>2, ApproveKeeps, NoLossStays DEF Approve
<1>3. CASE Alter
  BY <1>3, AlterKeeps, NoLossStays DEF Alter
<1>4. CASE Rereview
  BY <1>4, RereviewKeeps, NoLossStays DEF Rereview
<1>5. CASE Sign
  BY <1>5, SignKeeps, NoLossStays DEF Sign
<1>6. CASE Discard
  BY <1>6, DiscardKeeps, NoLossStays DEF Discard
<1>7. ASSUME NEW s \in signed, Mine(s) PROVE Inv'
  BY <1>7, MineKeeps, MineNoLoss
<1>8. ASSUME NEW o \in offers, Fill(o) PROVE Inv'
  BY <1>8, FillKeeps, FillNoLoss
<1>9. CASE UNCHANGED vars
  <2>1. UNCHANGED <<coins, spent, bundle, approved, signed, offers, owed, mined, misled>>
    BY <1>9 DEF vars
  <2>2. Grows
    BY <2>1 DEF Grows
  <2> QED BY <2>1, <2>2, LedgerStays, FlowStays, NoLossStays
<1> QED BY <1>1, <1>2, <1>3, <1>4, <1>5, <1>6, <1>7, <1>8, <1>9 DEF Next

(* A new ledger satisfies it.                                                *)
LEMMA InitHolds == ASSUME Init PROVE Inv
<1>1. PICK w \in Wallets : /\ coins = w \cup MakerCoins
                           /\ owed = [a \in Assets |-> Worth({c \in w : c.asset = a})]
  BY DEF Init
<1>2. /\ spent = {} /\ signed = {} /\ offers = {} /\ mined = 0
      /\ bundle = NoBundle /\ approved = NoApproval
  BY DEF Init
<1>3. /\ IsFiniteSet(MakerCoins) /\ \A c \in MakerCoins : c.owner # Wallet
      /\ IsFiniteSet(w) /\ \A c \in w : c.owner = Wallet
      /\ \A c \in w \cup MakerCoins :
              /\ c.id \in 1..(2 * Slots) /\ c.asset \in Assets
              /\ c.value \in 1..MaxMoney /\ c.conf \in BOOLEAN
      /\ \A c, d \in w \cup MakerCoins : c.id = d.id => c = d
  BY LedgerAssumption
<1>4. CoinsTrue
  <2>1. IsFiniteSet(w \cup MakerCoins)
    BY <1>3, FS_Union
  <2>2. Slots * (mined + 2) = 2 * Slots /\ mined \in 0..MaxTxs
    BY <1>2, AssetsAre
  <2> QED BY <1>1, <1>3, <2>1, <2>2 DEF CoinsTrue
<1>5. SpentTrue /\ SignedTrue
  BY <1>2 DEF SpentTrue, SignedTrue
<1>6. OffersTrue
  BY <1>2, FS_EmptySet DEF OffersTrue
<1>6a. NamedTrue
  BY <1>2 DEF NamedTrue
<1>7. \A a : Balance(a) = Worth({c \in w : c.asset = a}) /\ Balance(a) \in Int
  <2> SUFFICES ASSUME NEW a PROVE Balance(a) = Worth({c \in w : c.asset = a}) /\ Balance(a) \in Int
    OBVIOUS
  <2>1. {c \in Unspent : c.owner = Wallet /\ c.asset = a} = {c \in w : c.asset = a}
    BY <1>1, <1>2, <1>3 DEF Unspent
  <2>2. Balance(a) = Worth({c \in w : c.asset = a})
    BY <2>1 DEF Balance
  <2>3. {c \in w : c.asset = a} \subseteq coins
    BY <1>1
  <2> QED BY <1>4, <2>2, <2>3, CoinsPriced, WorthIs
<1>8. OwedTrue
  BY <1>1, <1>7 DEF OwedTrue
<1>9. NoLoss
  BY <1>1, <1>7 DEF NoLoss
<1>10. FlowTrue
  <2>1. ~bundle.res.ok /\ bundle = [req |-> bundle.req, from |-> bundle.from,
                                    res |-> bundle.res, altered |-> bundle.altered]
    BY <1>2 DEF NoBundle, Failure
  <2>2. BundleTrue
    BY <2>1 DEF BundleTrue
  <2>3. Good
    BY <2>1 DEF Good, ReviewExact, FeeFair, ChangeStaysConfidential, Prepared
  <2> QED BY <1>2, <2>2, <2>3 DEF FlowTrue, ApprovedTrue
<1> QED BY <1>4, <1>5, <1>6, <1>6a, <1>8, <1>9, <1>10 DEF Inv, LedgerTrue

(* Inv is an invariant of the specification.                                 *)
LEMMA Invariant == Spec => []Inv
<1>1. Init => Inv
  BY InitHolds
<1>2. Inv /\ [Next]_vars => Inv'
  BY NextKeeps
<1> QED BY <1>1, <1>2, PTL DEF Spec

(* The coins, the account and the approval keep their types (TypeOK), for    *)
(* any wallets, makers, quotes and bounds: no two coins ever share an id,    *)
(* and nothing is approved without a bundle.                                 *)
THEOREM TypeCorrect == Spec => []TypeOK
<1>1. Inv => TypeOK
  BY DEF Inv, LedgerTrue, FlowTrue, CoinsTrue, OwedTrue, ApprovedTrue, TypeOK
<1> QED BY <1>1, Invariant, PTL

(* sign_prepared, analyze and the offer functions: whatever took the place   *)
(* of a bundle between its review and its signature, how often and how late, *)
(* and whoever takes the wallet's offers, the wallet never holds less of any *)
(* asset than the reviews it approved and the offers it made add up to,      *)
(* until it signs a PSET that gives one of its coins a false asset (NoLoss). *)
THEOREM NoLossHolds == Spec => []NoLoss
<1>1. Inv => NoLoss
  BY DEF Inv
<1> QED BY <1>1, Invariant, PTL

(* analyze on what the builder made: the review that a user is shown of a    *)
(* bundle as it was prepared names the payee, the amounts, the issued asset  *)
(* and its token, or the coin given and wanted, exactly (ReviewExact).       *)
THEOREM ReviewExactHolds == Spec => []ReviewExact
<1>1. Inv => ReviewExact
  BY DEF Inv, FlowTrue, Good
<1> QED BY <1>1, Invariant, PTL

(* fund: the fee pays at least the rate asked for the transaction as it came *)
(* out, and exceeds by less than the dust limit what it would cost with one  *)
(* more change (FeeFair).                                                    *)
THEOREM FeeFairHolds == Spec => []FeeFair
<1>1. Inv => FeeFair
  BY DEF Inv, FlowTrue, Good
<1> QED BY <1>1, Invariant, PTL

(* Only swap makes a bundle that SwapBounded speaks of.                      *)
LEMMA SwapBoundedStep ==
    ASSUME Inv, SwapBounded, [Next]_vars PROVE SwapBounded'
<1>1. CoinsTrue /\ OffersTrue /\ BundleTrue
  BY DEF Inv, LedgerTrue, FlowTrue
<1>2. MaxBps \subseteq Nat
  BY LedgerAssumption
<1>3. CASE Request
  <2>1. ASSUME NEW req, NEW res, req.op # "swap", Start(req, res) PROVE SwapBounded'
    <3>1. bundle'.req.op # "swap"
      BY <2>1 DEF Start
    <3> QED BY <3>1, SwapBoundedGone
  <2>2. ASSUME NEW a, NEW key, NEW r, NEW n, Transfer(a, n, key, r) PROVE SwapBounded'
    BY <2>1, <2>2 DEF Transfer
  <2>3. ASSUME NEW n, NEW t, NEW r, Issue(n, t, r) PROVE SwapBounded'
    BY <2>1, <2>3 DEF Issue
  <2>4. ASSUME NEW a, NEW r, NEW n, Split(a, n, r) PROVE SwapBounded'
    BY <2>1, <2>4 DEF Split
  <2>5. ASSUME NEW c, NEW want, NEW n, MakeOffer(c, want, n) PROVE SwapBounded'
    BY <2>1, <2>5 DEF MakeOffer
  <2>6. ASSUME NEW c, NEW r, Cancel(c, r) PROVE SwapBounded'
    BY <2>1, <2>6 DEF Cancel
  <2>7. ASSUME NEW q \in Quotes, NEW sell, NEW buy, NEW n, NEW side \in {"exact_in", "exact_out"},
               NEW m \in MaxBps, NEW r, Swap(q, sell, buy, n, side, m, r)
        PROVE  SwapBounded'
    <3>1. m \in Nat
      BY <1>2
    <3> QED BY <1>1, <2>7, <3>1, SwapBounds
  <2> QED BY <1>3, <2>2, <2>3, <2>4, <2>5, <2>6, <2>7 DEF Request
<1>4. CASE Alter
  <2>1. PICK b : bundle' = [bundle EXCEPT !.res = b, !.altered = TRUE]
    BY <1>4 DEF Alter
  <2>2. bundle'.altered
    BY <1>1, <2>1 DEF BundleTrue
  <2> QED BY <2>2, SwapBoundedGone
<1>5. CASE Rereview
  <2>1. PICK r : bundle' = [bundle EXCEPT !.res = r]
    BY <1>5 DEF Rereview
  <2>2. bundle'.altered
    BY <1>1, <1>5, <2>1 DEF BundleTrue, Rereview
  <2> QED BY <2>2, SwapBoundedGone
<1>6. CASE Sign \/ Discard
  <2>1. ~bundle'.res.ok
    BY <1>6 DEF Sign, Discard, NoBundle, Failure
  <2> QED BY <2>1, SwapBoundedGone
<1>7. CASE Approve \/ (\E s \in signed : Mine(s)) \/ (\E o \in offers : Fill(o)) \/ UNCHANGED vars
  <2>1. bundle' = bundle
    BY <1>7 DEF Approve, Mine, Fill, vars
  <2> QED BY <2>1, SwapBoundedStays
<1> QED BY <1>3, <1>4, <1>5, <1>6, <1>7 DEF Next

(* swap: what the wallet pays in a swap that it prepared, what it gets, and  *)
(* the price of each offer it takes are within what the caller asked for and *)
(* what the review shows, whichever offers the quote lists (SwapBounded).    *)
THEOREM SwapBoundedHolds == Spec => []SwapBounded
<1>1. Init => SwapBounded
  BY DEF Init, NoBundle, Failure, SwapBounded, Prepared
<1>2. Inv /\ SwapBounded /\ [Next]_vars => SwapBounded'
  BY SwapBoundedStep
<1> QED BY <1>1, <1>2, Invariant, PTL DEF Spec

(* As long as the bundle stays, so does what is claimed of it.               *)
LEMMA SelectionCompleteStays ==
    ASSUME SelectionComplete, bundle' = bundle PROVE SelectionComplete'
BY DEF SelectionComplete

(* A bundle that is no such failure claims nothing.                          *)
LEMMA SelectionCompleteGone ==
    ASSUME \/ bundle'.res # Failure("InsufficientFunds") \/ bundle'.req.op # "transfer"
           \/ bundle'.req.asset # Policy \/ bundle'.req.key # "none"
    PROVE  SelectionComplete'
BY DEF SelectionComplete

(* Every step keeps SelectionComplete: a payment is refused for the coins    *)
(* the wallet had then, and no review is ever refused for want of funds.     *)
LEMMA SelectionCompleteStep ==
    ASSUME Inv, SelectionComplete, [Next]_vars PROVE SelectionComplete'
<1>1. CoinsTrue /\ BundleTrue
  BY DEF Inv, LedgerTrue, FlowTrue
<1>2. CASE Request
  <2>1. ASSUME NEW req, NEW res, req.op # "transfer", Start(req, res) PROVE SelectionComplete'
    <3>1. bundle'.req.op # "transfer"
      BY <2>1 DEF Start
    <3> QED BY <3>1, SelectionCompleteGone
  <2>2. ASSUME NEW a, NEW key, NEW r, NEW n, Transfer(a, n, key, r) PROVE SelectionComplete'
    <3>1. /\ bundle'.req.asset = a /\ bundle'.req.key = key
          /\ bundle'.req.amount = n /\ bundle'.req.rate = r
          /\ bundle'.from = Spendable /\ bundle'.res = PrepareTransfer(Spendable, a, n, key, r)
      BY <2>2 DEF Transfer, Start
    <3>2. CASE \/ a # Policy \/ key # "none"
               \/ PrepareTransfer(Spendable, a, n, key, r) # Failure("InsufficientFunds")
               \/ \E c \in Spendable : c.asset = Policy /\ c.conf
      BY <3>1, <3>2 DEF SelectionComplete
    <3>3. CASE /\ a = Policy /\ key = "none"
               /\ PrepareTransfer(Spendable, a, n, key, r) = Failure("InsufficientFunds")
               /\ \A c \in Spendable : c.asset = Policy => ~c.conf
      <4>1. Proper(Spendable)
        BY <1>1, SpendableUsable DEF Usable
      <4>2. \A S \in SUBSET {c \in Spendable : c.asset = Policy} :
                Worth(S) < n + r * Vsize(Cardinality(S), FALSE, 3, 0)
        BY <3>3, <4>1, TransferFails
      <4> QED BY <3>1, <4>2 DEF SelectionComplete
    <3> QED BY <3>2, <3>3
  <2>3. ASSUME NEW n, NEW t, NEW r, Issue(n, t, r) PROVE SelectionComplete'
    BY <2>1, <2>3 DEF Issue
  <2>4. ASSUME NEW a, NEW r, NEW n, Split(a, n, r) PROVE SelectionComplete'
    BY <2>1, <2>4 DEF Split
  <2>5. ASSUME NEW c, NEW want, NEW n, MakeOffer(c, want, n) PROVE SelectionComplete'
    BY <2>1, <2>5 DEF MakeOffer
  <2>6. ASSUME NEW c, NEW r, Cancel(c, r) PROVE SelectionComplete'
    BY <2>1, <2>6 DEF Cancel
  <2>7. ASSUME NEW q, NEW sell, NEW buy, NEW n, NEW side, NEW m, NEW r, Swap(q, sell, buy, n, side, m, r)
        PROVE  SelectionComplete'
    <3>1. PICK req, res : Start(req, res) /\ req.op = "swap"
      BY <2>7 DEF Swap
    <3> QED BY <2>1, <3>1
  <2> QED BY <1>2, <2>2, <2>3, <2>4, <2>5, <2>6, <2>7 DEF Request
<1>3. CASE Alter
  <2>1. PICK b : Storable(b) /\ bundle' = [bundle EXCEPT !.res = b, !.altered = TRUE]
    BY <1>3 DEF Alter
  <2>2. bundle'.res = b
    BY <1>1, <2>1 DEF BundleTrue
  <2>3. b.ok
    BY <2>1, StorableStored DEF Stored
  <2> QED BY <2>2, <2>3, SelectionCompleteGone DEF Failure
<1>4. CASE Rereview
  <2>1. PICK kind : bundle' = [bundle EXCEPT !.res = ReviewPset(bundle.res.pset, kind)]
    BY <1>4 DEF Rereview
  <2>2. bundle'.res = ReviewPset(bundle.res.pset, kind)
    BY <1>1, <2>1 DEF BundleTrue
  <2> QED BY <2>2, ReviewNotFunds, SelectionCompleteGone
<1>5. CASE Sign \/ Discard
  <2>1. bundle'.res # Failure("InsufficientFunds")
    BY <1>5 DEF Sign, Discard, NoBundle, Failure
  <2> QED BY <2>1, SelectionCompleteGone
<1>6. CASE Approve \/ (\E s \in signed : Mine(s)) \/ (\E o \in offers : Fill(o)) \/ UNCHANGED vars
  <2>1. bundle' = bundle
    BY <1>6 DEF Approve, Mine, Fill, vars
  <2> QED BY <2>1, SelectionCompleteStays
<1> QED BY <1>2, <1>3, <1>4, <1>5, <1>6 DEF Next

(* fund: a payment that is refused for want of funds, when the wallet's      *)
(* policy coins are explicit, could not have been made: whichever coins are  *)
(* taken, they are worth less than the amount and the fee of a transaction   *)
(* that spends them (SelectionComplete).                                     *)
THEOREM SelectionCompleteHolds == Spec => []SelectionComplete
<1>1. Init => SelectionComplete
  BY DEF Init, NoBundle, SelectionComplete
<1>2. Inv /\ SelectionComplete /\ [Next]_vars => SelectionComplete'
  BY SelectionCompleteStep
<1> QED BY <1>1, <1>2, Invariant, PTL DEF Spec

(* fund: what the wallet gets back next to confidential coins is blinded     *)
(* (ChangeStaysConfidential).                                                *)
THEOREM ChangeStaysConfidentialHolds == Spec => []ChangeStaysConfidential
<1>1. Inv => ChangeStaysConfidential
  BY DEF Inv, FlowTrue, Good
<1> QED BY <1>1, Invariant, PTL

-----------------------------------------------------------------------------
(* The builder and the review agree.                                         *)

(* The wallet's coins, held.                                                 *)
LEMMA CoinsHeld ==
    ASSUME CoinsTrue, NEW C, C \subseteq WalletCoins PROVE Held(C, Assets)
<1>1. Usable(C, Assets)
  BY WalletUsable
<1>2. \A c \in C : c.value \in 1..MaxMoney /\ c.owner = Wallet
  BY DEF WalletCoins, Unspent, CoinsTrue
<1> QED BY <1>1, <1>2 DEF Held

(* A swap fails for its quote, a spent coin, its amounts or the money.       *)
LEMMA SwapRequestPasses ==
    ASSUME CoinsTrue, OffersTrue, \A c \in Spendable : c.asset = Policy => Fits(c),
           NEW q, q \in Quotes, NEW sell \in Assets, NEW buy \in Assets, NEW amount, NEW side,
           NEW maxBps, NEW rate
    PROVE  NotBroken(PrepareSwap(q, sell, buy, amount, side, maxBps, rate))
<1> DEFINE s == q.offers
           fetched == [i \in DOMAIN s |-> CoinAt(s[i].id)]
           res == PrepareSwap(q, sell, buy, amount, side, maxBps, rate)
           t == TakeSwapOffers(s, fetched, Spendable, rate)
<1>1. NotBroken(Failure("Quote")) /\ NotBroken(Failure("Spent"))
  BY DEF NotBroken, Failure
<1>2. IsSeq(s) /\ \A i \in 1..Len(s) : s[i] \in Market \cup offers
  BY QuoteOffers
<1>3. DOMAIN s = 1..Len(s) /\ Len(s) \in Nat
  BY <1>2, IsSeqOf DEF IsSeq
<1>4. ASSUME QuoteVerifies(q, sell, buy, amount, side), s # <<>> PROVE NotBroken(t)
  <2>1. PICK u, got : u = s /\ got = fetched
    OBVIOUS
  <2>2. IsSeq(u) /\ Len(u) > 0
    <3>1. Len(s) # 0
      <4> SUFFICES ASSUME Len(s) = 0 PROVE FALSE
        OBVIOUS
      <4>1. s \in Seq({s[i] : i \in 1..Len(s)})
        BY <1>2, IsSeqOf
      <4> QED BY <1>4, <4>1
    <3> QED BY <1>2, <1>3, <2>1, <3>1
  <2>3. \A i \in 1..Len(u) : u[i].give.asset = buy /\ u[i].want.asset = sell
    BY <1>3, <1>4, <2>1 DEF QuoteVerifies
  <2>4. \A i \in 1..Len(u) : got[i] \in coins
    <3>1. \A i \in 1..Len(s) : Exists(s[i].id)
      BY <1>3, <1>4 DEF QuoteVerifies
    <3> QED BY <1>3, <2>1, <3>1, CoinFound
  <2>5. \A o \in Market \cup offers :
           /\ o.out.value \in Int
           /\ o.out = [asset |-> o.out.asset, value |-> o.out.value, to |-> o.out.to, key |-> o.out.key]
    <3>1. \A o \in Market :
             /\ o.out.value \in Nat
             /\ o.out = [asset |-> o.out.asset, value |-> o.out.value, to |-> o.out.to, key |-> o.out.key]
      BY LedgerAssumption
    <3>2. MaxMoney \in Nat
      BY BoundsAssumption
    <3>3. \A o \in offers :
             /\ o.out.value \in 1..MaxMoney
             /\ o.out = [asset |-> o.out.asset, value |-> o.out.value, to |-> o.out.to, key |-> o.out.key]
      <4> SUFFICES ASSUME NEW o \in offers
                   PROVE  /\ o.out.value \in 1..MaxMoney
                          /\ o.out = [asset |-> o.out.asset, value |-> o.out.value,
                                      to |-> o.out.to, key |-> o.out.key]
        OBVIOUS
      <4>1. OwnOffer(o)
        BY DEF OffersTrue
      <4>2. PICK x : x = o.out
        OBVIOUS
      <4>3. x = [asset |-> x.asset, value |-> x.value, to |-> Wallet, key |-> "none"]
            /\ x.value \in 1..MaxMoney
        BY <4>1, <4>2 DEF OwnOffer
      <4>4. x = [asset |-> x.asset, value |-> x.value, to |-> x.to, key |-> x.key]
        BY <4>3
      <4> QED BY <4>2, <4>3, <4>4
    <3> SUFFICES ASSUME NEW o \in Market \cup offers
                 PROVE  /\ o.out.value \in Int
                        /\ o.out = [asset |-> o.out.asset, value |-> o.out.value,
                                    to |-> o.out.to, key |-> o.out.key]
      OBVIOUS
    <3>4. CASE o \in Market
      BY <3>1, <3>4
    <3>5. CASE o \in offers
      <4>1. PICK v : v = o.out.value
        OBVIOUS
      <4>2. v \in 1..MaxMoney
        BY <3>3, <3>5, <4>1
      <4>3. v \in Int
        BY ONLY <3>2, <4>2
      <4> QED BY <3>3, <3>5, <4>1, <4>3
    <3> QED BY <3>4, <3>5
  <2>6. \A i \in 1..Len(u) : OfferVerifies(u[i], got[i]) => Deal(u[i], got[i])
    <3> SUFFICES ASSUME NEW i \in 1..Len(u), OfferVerifies(u[i], got[i]) PROVE Deal(u[i], got[i])
      OBVIOUS
    <3>1. PICK o, c : o = u[i] /\ c = got[i]
      OBVIOUS
    <3>2. o \in Market \cup offers /\ c \in coins
      BY <1>2, <2>1, <2>4, <3>1
    <3>3. c.value \in 1..MaxMoney
      BY <3>2 DEF CoinsTrue
    <3>4. Deal(o, c)
      BY <2>5, <3>1, <3>2, <3>3 DEF Deal
    <3> QED BY <3>1, <3>4
  <2>7. Held(Spendable, Assets)
    <3>1. Spendable \subseteq WalletCoins
      BY DEF Spendable, WalletCoins
    <3> QED BY <3>1, CoinsHeld
  <2> HIDE DEF s, fetched
  <2>8. NotBroken(TakeSwapOffers(u, got, Spendable, rate))
    BY <2>2, <2>3, <2>6, <2>7, TakePasses
  <2> QED BY <2>1, <2>8
<1>5. PICK v, none, far, gone, tt :
         /\ v = QuoteVerifies(q, sell, buy, amount, side) /\ none = (s = <<>>)
         /\ far = (Impact(s) > maxBps) /\ gone = (\E i \in DOMAIN s : s[i].id \in spent) /\ tt = t
  OBVIOUS
<1>6. res = IF ~v THEN Failure("Quote") ELSE IF none \/ far THEN Failure("Quote")
            ELSE IF gone THEN Failure("Spent") ELSE tt
  BY <1>5 DEF PrepareSwap
<1> HIDE DEF res, t
<1>7. v /\ ~none => NotBroken(tt)
  BY <1>4, <1>5
<1>8. NotBroken(res)
  BY <1>1, <1>6, <1>7
<1> QED BY <1>8 DEF res

(* No policy coin that a request could draw on is within the dust limit of   *)
(* the largest amount. fund stops at the first coin that makes the payment   *)
(* possible with a change above the dust limit: the change is less than that *)
(* coin and the dust limit together, and it has to be an amount as well.     *)
Modest == \A c \in bundle.from : c.asset = Policy => c.value + Dust <= MaxMoney

(* A bundle that is altered, let go or free of these errors claims nothing.  *)
LEMMA BuildsReviewGone ==
    ASSUME bundle'.altered \/ bundle'.res.ok \/ bundle'.res.error \notin {"InvalidPset", "DuplicateUtxo"}
    PROVE  BuildsReview'
BY DEF BuildsReview

(* A bundle that a step leaves alone keeps what is claimed of it.            *)
LEMMA BuildsReviewStays ==
    ASSUME Modest => BuildsReview, bundle' = bundle PROVE (Modest => BuildsReview)'
BY DEF BuildsReview, Modest

(* Every step keeps it: each request passes its review or fails for another  *)
(* reason.                                                                   *)
LEMMA BuildsReviewStep ==
    ASSUME Inv, Modest => BuildsReview, [Next]_vars PROVE (Modest => BuildsReview)'
<1>1. CoinsTrue /\ OffersTrue /\ BundleTrue
  BY DEF Inv, LedgerTrue, FlowTrue
<1>2. CASE Request
  <2>1. Held(Spendable, Assets)
    <3>1. Spendable \subseteq WalletCoins
      BY DEF Spendable, WalletCoins
    <3> QED BY <1>1, <3>1, CoinsHeld
  <2>2. {0, 1} \subseteq Assets
    BY AssetsAre
  <2>3. ASSUME NEW req, NEW res, Start(req, res),
               (\A c \in Spendable : c.asset = Policy => Fits(c)) => NotBroken(res)
        PROVE  (Modest => BuildsReview)'
    <3>1. bundle'.from = Spendable /\ bundle'.res = res
      BY <2>3 DEF Start
    <3> SUFFICES ASSUME Modest' PROVE BuildsReview'
      OBVIOUS
    <3>2. \A c \in Spendable : c.asset = Policy => Fits(c)
      BY <3>1 DEF Modest, Fits
    <3> QED BY <2>3, <3>1, <3>2, BuildsReviewGone DEF NotBroken
  <2>4. ASSUME \A c \in Spendable : c.asset = Policy => Fits(c),
               NEW a \in {0, 1}, NEW key \in {"none", "recipient"}, NEW r, NEW n
        PROVE  NotBroken(PrepareTransfer(Spendable, a, n, key, r))
    <3>1. a \in Assets
      BY <2>2
    <3> QED BY <2>1, <2>4, <3>1, TransferPasses
  <2>5. ASSUME NEW a \in {0, 1}, NEW key \in {"none", "recipient"}, NEW r, NEW n, Transfer(a, n, key, r)
        PROVE  (Modest => BuildsReview)'
    BY <2>3, <2>4, <2>5 DEF Transfer
  <2>6. ASSUME NEW n, NEW t \in {0, 1}, NEW r, Issue(n, t, r) PROVE (Modest => BuildsReview)'
    <3>1. t \in Nat
      OBVIOUS
    <3>2. (\A c \in Spendable : c.asset = Policy => Fits(c)) => NotBroken(PrepareIssuance(Spendable, n, t, r))
      BY <2>1, <3>1, IssuePasses
    <3> QED BY <2>3, <2>6, <3>2 DEF Issue
  <2>7. ASSUME NEW a \in {0, 1}, NEW r, NEW n, Split(a, n, r) PROVE (Modest => BuildsReview)'
    <3>1. a \in Assets
      BY <2>2
    <3>2. (\A c \in Spendable : c.asset = Policy => Fits(c)) => NotBroken(PrepareOfferSplit(Spendable, a, n, r))
      BY <2>1, <3>1, SplitPasses
    <3> QED BY <2>3, <2>7, <3>2 DEF Split
  <2>8. ASSUME NEW c, NEW want, NEW n, MakeOffer(c, want, n) PROVE (Modest => BuildsReview)'
    <3>1. NotBroken(PrepareSwapOffer(c, want, n))
      BY OfferPasses
    <3> QED BY <2>3, <2>8, <3>1 DEF MakeOffer
  <2>9. ASSUME NEW c \in {d \in Unspent : d.owner = Wallet}, NEW r, Cancel(c, r)
        PROVE  (Modest => BuildsReview)'
    <3>1. PICK others : others = {d \in Spendable : d.asset = Policy /\ d # c}
      OBVIOUS
    <3>2. others \in SUBSET WalletCoins /\ c \in WalletCoins /\ c \notin others /\ others \subseteq Spendable
      BY <3>1 DEF Spendable, WalletCoins
    <3>3. Held(WalletCoins, Assets)
      BY <1>1, CoinsHeld
    <3>4. ASSUME \A d \in Spendable : d.asset = Policy => Fits(d)
          PROVE  NotBroken(PrepareCancel(c, others, r))
      <4>1. \A d \in others : d.asset = Policy => Fits(d)
        BY <3>2, <3>4
      <4> QED BY <3>2, <3>3, <4>1, CancelPasses
    <3>5. Start([op |-> "cancel", coin |-> c, rate |-> r], PrepareCancel(c, others, r))
      BY <2>9, <3>1 DEF Cancel
    <3> QED BY <2>3, <3>4, <3>5
  <2>10. ASSUME NEW sell \in {0, 1}, NEW q \in Quotes, NEW m, NEW r, NEW n, NEW side,
                Swap(q, sell, 1 - sell, n, side, m, r)
         PROVE  (Modest => BuildsReview)'
    <3>1. PICK buy : buy = 1 - sell
      OBVIOUS
    <3>2. sell \in Assets /\ buy \in Assets
      <4>1. buy \in {0, 1}
        BY ONLY sell \in {0, 1}, <3>1
      <4> QED BY <2>2, <4>1
    <3>3. PICK res, req : res = PrepareSwap(q, sell, buy, n, side, m, r) /\ Start(req, res)
      BY <2>10, <3>1 DEF Swap
    <3>4. (\A c \in Spendable : c.asset = Policy => Fits(c)) => NotBroken(res)
      BY <1>1, <3>2, <3>3, SwapRequestPasses
    <3> QED BY <2>3, <3>3, <3>4
  <2> QED BY <1>2, <2>5, <2>6, <2>7, <2>8, <2>9, <2>10 DEF Request
<1>3. CASE Alter
  <2>1. PICK b : bundle' = [bundle EXCEPT !.res = b, !.altered = TRUE]
    BY <1>3 DEF Alter
  <2>2. bundle'.altered
    BY <1>1, <2>1 DEF BundleTrue
  <2> QED BY <2>2, BuildsReviewGone
<1>4. CASE Rereview
  <2>1. PICK r : bundle' = [bundle EXCEPT !.res = r]
    BY <1>4 DEF Rereview
  <2>2. bundle'.altered
    BY <1>1, <1>4, <2>1 DEF BundleTrue, Rereview
  <2> QED BY <2>2, BuildsReviewGone
<1>5. CASE Sign \/ Discard
  <2>1. bundle'.res = Failure("none")
    BY <1>5 DEF Sign, Discard, NoBundle
  <2>2. bundle'.res.error = "none"
    BY <2>1 DEF Failure
  <2> QED BY <2>2, BuildsReviewGone
<1>6. CASE Approve \/ (\E s \in signed : Mine(s)) \/ (\E o \in offers : Fill(o)) \/ UNCHANGED vars
  <2>1. bundle' = bundle
    BY <1>6 DEF Approve, Mine, Fill, vars
  <2> QED BY <2>1, BuildsReviewStays
<1> QED BY <1>2, <1>3, <1>4, <1>5, <1>6 DEF Next

(* build.rs and review.rs agree: whatever request is made of whatever coins, *)
(* none is refused as an invalid PSET or for a coin named twice. The coins   *)
(* are as the ledger has them, but for policy coins within the dust limit of *)
(* the largest amount, which is all there is of that asset (BuildsReview).   *)
THEOREM BuildsReviewHolds == Spec => [](Modest => BuildsReview)
<1>1. Init => (Modest => BuildsReview)
  BY DEF Init, NoBundle, Failure, BuildsReview
<1>2. Inv /\ (Modest => BuildsReview) /\ [Next]_vars => (Modest => BuildsReview)'
  BY BuildsReviewStep
<1> QED BY <1>1, <1>2, Invariant, PTL DEF Spec

-----------------------------------------------------------------------------
(* What is signed is valid on the ledger.                                    *)

(* What was accepted names no coin twice.                                    *)
LEMMA DistinctIds ==
    ASSUME NEW p, NEW kind, Analyzed(p, kind), Backed(p),
           NEW i \in DOMAIN p.ins, NEW j \in DOMAIN p.ins, p.ins[i].id = p.ins[j].id
    PROVE  i = j
<1> DEFINE D == DOMAIN p.ins
           T == {p.ins[k].id : k \in DOMAIN p.ins}
<1>1. D = 1..Len(p.ins) /\ Len(p.ins) \in Nat
  BY IsSeqOf DEF Backed, IsSeq
<1>2. IsFiniteSet(D) /\ Cardinality(D) = Len(p.ins)
  BY <1>1, FS_Interval
<1>3. PICK f : f = [k \in D |-> p.ins[k].id]
  OBVIOUS
<1>4. f \in Surjection(D, T)
  BY <1>3 DEF Surjection
<1>5. ~(Cardinality(T) < Len(p.ins))
  BY DEF Analyzed
<1> HIDE DEF D, T
<1>6. IsFiniteSet(T) /\ Cardinality(T) <= Cardinality(D)
  BY <1>2, <1>4, FS_Surjection
<1>7. Cardinality(T) \in Nat
  BY <1>6, FS_CardinalityType
<1>8. Cardinality(D) = Cardinality(T)
  BY <1>1, <1>2, <1>5, <1>6, <1>7
<1>9. f \in Injection(D, T)
  BY <1>2, <1>4, <1>8, FS_SurjSameCardinalityImpliesInj
<1>10. f[i] = f[j] /\ i \in D /\ j \in D
  BY <1>3 DEF D
<1> QED BY <1>9, <1>10 DEF Injection, IsInjective

(* Balance is about ids, assets, values and confidentiality only.            *)
SameParts(p, q) ==
    /\ DOMAIN q.ins = DOMAIN p.ins /\ DOMAIN q.outs = DOMAIN p.outs
    /\ \A i \in DOMAIN p.ins :
         /\ q.ins[i].id = p.ins[i].id /\ q.ins[i].asset = p.ins[i].asset
         /\ q.ins[i].value = p.ins[i].value /\ q.ins[i].conf = p.ins[i].conf
         /\ q.ins[i].issuance = p.ins[i].issuance
    /\ \A i \in DOMAIN p.outs :
         /\ q.outs[i].asset = p.outs[i].asset /\ q.outs[i].value = p.outs[i].value
         /\ q.outs[i].key = p.outs[i].key

(* So that PSETs with the same parts balance alike.                          *)
LEMMA SameBalance ==
    ASSUME NEW p, NEW q, SameParts(p, q), Conserved(p), AnyConfidential(p.ins) => CommitmentsBalance(p)
    PROVE  CommitmentsBalance(q)
<1>1. Values(q.ins) = Values(p.ins) /\ Values(q.outs) = Values(p.outs)
  BY DEF SameParts, Values
<1>2. \A a : Total(q.ins, a) = Total(p.ins, a) /\ Total(q.outs, a) = Total(p.outs, a)
  <2> SUFFICES ASSUME NEW a PROVE Total(q.ins, a) = Total(p.ins, a) /\ Total(q.outs, a) = Total(p.outs, a)
    OBVIOUS
  <2>1. {i \in DOMAIN q.ins : q.ins[i].asset = a} = {i \in DOMAIN p.ins : p.ins[i].asset = a}
    BY DEF SameParts
  <2>2. {i \in DOMAIN q.outs : q.outs[i].asset = a} = {i \in DOMAIN p.outs : p.outs[i].asset = a}
    BY DEF SameParts
  <2> QED BY <1>1, <2>1, <2>2 DEF Total
<1>3. \A a : Brought(q, a) = Brought(p, a)
  <2> SUFFICES ASSUME NEW a PROVE Brought(q, a) = Brought(p, a)
    OBVIOUS
  <2>1. \A i \in DOMAIN p.ins : Issued(q.ins[i], a) = Issued(p.ins[i], a)
    BY DEF SameParts, Issued
  <2>2. [i \in DOMAIN q.ins |-> Issued(q.ins[i], a)] = [i \in DOMAIN p.ins |-> Issued(p.ins[i], a)]
    BY <2>1 DEF SameParts
  <2> QED BY <1>2, <2>2 DEF Brought
<1>4. AssetsOf(q) = AssetsOf(p)
  <2>1. {q.ins[i].asset : i \in DOMAIN q.ins} = {p.ins[i].asset : i \in DOMAIN p.ins}
    BY DEF SameParts
  <2>2. {q.outs[i].asset : i \in DOMAIN q.outs} = {p.outs[i].asset : i \in DOMAIN p.outs}
    BY DEF SameParts
  <2>3. \A i \in DOMAIN p.ins : q.ins[i].id = p.ins[i].id
    BY DEF SameParts
  <2>4. {{IssuanceIds(q.ins[i].id).asset, IssuanceIds(q.ins[i].id).token} : i \in DOMAIN q.ins}
            = {{IssuanceIds(p.ins[i].id).asset, IssuanceIds(p.ins[i].id).token} : i \in DOMAIN p.ins}
    BY <2>3 DEF SameParts
  <2> QED BY <2>1, <2>2, <2>4 DEF AssetsOf
<1>5. Conserved(q)
  BY <1>2, <1>3, <1>4 DEF Conserved
<1>6. AnyConfidential(q.ins) <=> AnyConfidential(p.ins)
  BY DEF SameParts, AnyConfidential
<1>7. (\E i \in DOMAIN p.outs : Blinded(p.outs[i])) => \E i \in DOMAIN q.outs : Blinded(q.outs[i])
  BY DEF SameParts, Blinded
<1> QED BY <1>5, <1>6, <1>7 DEF CommitmentsBalance

(* A transaction signed as prepared is accepted while its coins are unspent. *)
LEMMA SignedAccepted ==
    ASSUME CoinsTrue, NEW s, SignedOk(s), ~s.altered, \A i \in DOMAIN s.tx.ins : s.tx.ins[i].id \notin spent
    PROVE  Accepts(s.tx)
<1> DEFINE p == s.pset
           kind == s.review.kind
           tx == s.tx
           c(i) == CoinAt(tx.ins[i].id)
<1>1. /\ Analyzed(p, kind) /\ Backed(p) /\ tx = Finalized(p, kind) /\ kind # "SwapOffer"
      /\ FinalAccepted(p, tx, kind) /\ Exact(p)
  BY DEF SignedOk
<1>2. \A i \in DOMAIN tx.ins : tx.ins[i].id \notin spent
  OBVIOUS
<1> HIDE DEF p, kind, tx
<1>3. Carries(tx, p)
  BY <1>1, TxOfPset
<1>4. /\ DOMAIN tx.ins = DOMAIN p.ins /\ DOMAIN tx.outs = DOMAIN p.outs
      /\ DOMAIN p.ins = 1..Len(p.ins) /\ DOMAIN p.outs = 1..Len(p.outs)
  BY <1>3 DEF Carries
<1>5. /\ \A i \in DOMAIN p.ins : /\ tx.ins[i].id = p.ins[i].id /\ tx.ins[i].value = p.ins[i].value
                                 /\ tx.ins[i].issuance = p.ins[i].issuance
      /\ \A i \in DOMAIN p.outs : /\ tx.outs[i].asset = p.outs[i].asset /\ tx.outs[i].value = p.outs[i].value
                                  /\ tx.outs[i].key = p.outs[i].key
  BY <1>3, <1>4, CarriesParts
<1>6. ASSUME NEW i \in DOMAIN p.ins
      PROVE  /\ Exists(tx.ins[i].id) /\ c(i) \in Unspent /\ tx.ins[i].value = c(i).value
             /\ c(i).id = p.ins[i].id /\ c(i).asset = p.ins[i].asset /\ c(i).conf = p.ins[i].conf
             /\ c(i).owner = p.ins[i].script
             /\ tx.ins[i] = [SpentCoin(c(i)) EXCEPT !.issuance = tx.ins[i].issuance]
  <2>1. PICK d \in coins : /\ p.ins[i].id = d.id /\ p.ins[i].asset = d.asset
                           /\ p.ins[i].value = d.value /\ p.ins[i].conf = d.conf
                           /\ p.ins[i].script = d.owner /\ p.ins[i].opens = <<d.asset, d.value>>
    BY <1>1, <1>4 DEF Exact, ExactInput
  <2>2. Exists(d.id) /\ CoinAt(d.id) = d
    BY CoinIs
  <2>3. p.ins[i].id \notin spent
    BY <1>2, <1>4, <1>5
  <2>4. c(i) = d
    BY <1>5, <2>1, <2>2
  <2>5. tx.ins[i] = [SpentCoin(d) EXCEPT !.issuance = tx.ins[i].issuance]
    <3>1. PICK com, k, x : /\ com = Commitment(d.conf, <<d.asset, d.value>>)
                           /\ k = p.ins[i].issuance /\ x = tx.ins[i]
      OBVIOUS
    <3>2. x = [id |-> d.id, value |-> d.value, commits |-> com, issuance |-> k]
      <4>1. tx.ins[i] = [id |-> p.ins[i].id, value |-> p.ins[i].value,
                         commits |-> Commitment(p.ins[i].conf, p.ins[i].opens),
                         issuance |-> p.ins[i].issuance]
        BY <1>3, <1>4 DEF Carries
      <4> QED BY <2>1, <3>1, <4>1
    <3>3. SpentCoin(d) = [id |-> d.id, value |-> d.value, commits |-> com, issuance |-> NoIssuance]
      BY <3>1 DEF SpentCoin
    <3>4. x = [SpentCoin(d) EXCEPT !.issuance = x.issuance]
      BY <3>2, <3>3
    <3> QED BY <3>1, <3>4
  <2> QED BY <1>5, <2>1, <2>2, <2>3, <2>4, <2>5 DEF Unspent
<1>7. \A i \in DOMAIN tx.ins : WitnessVerifies(tx, i, tx.witness[i], c(i).owner)
  <2>1. \A i \in DOMAIN p.ins : WitnessVerifies(tx, i, tx.witness[i], p.ins[i].script)
    BY <1>1 DEF FinalAccepted
  <2>2. \A i \in DOMAIN p.ins : c(i).owner = p.ins[i].script
    BY <1>6
  <2> HIDE DEF c
  <2> QED BY <1>4, <2>1, <2>2
<1>8. \A i, j \in DOMAIN tx.ins : i # j => tx.ins[i].id # tx.ins[j].id
  BY <1>1, <1>4, <1>5, DistinctIds
<1>9. \A i \in DOMAIN tx.outs : tx.outs[i].value > 0
  <2> SUFFICES ASSUME NEW i \in DOMAIN p.outs PROVE p.outs[i].value > 0
    BY <1>4, <1>5
  <2>1. p.outs[i].value \in 1..MaxMoney
    BY <1>1 DEF Analyzed, OutputAccepted
  <2> QED BY <2>1, BoundsAssumption
<1>10. PICK q : q = [ins |-> [i \in DOMAIN tx.ins |->
                              [id |-> c(i).id, asset |-> c(i).asset, value |-> c(i).value,
                               conf |-> c(i).conf, issuance |-> tx.ins[i].issuance]],
                     outs |-> tx.outs]
  OBVIOUS
<1>11. SameParts(p, q)
  <2>1. /\ q.outs = tx.outs /\ DOMAIN q.ins = DOMAIN p.ins
        /\ \A i \in DOMAIN p.ins :
             q.ins[i] = [id |-> c(i).id, asset |-> c(i).asset, value |-> c(i).value,
                         conf |-> c(i).conf, issuance |-> tx.ins[i].issuance]
    BY <1>4, <1>10
  <2>2. ASSUME NEW i \in DOMAIN p.ins
        PROVE  /\ q.ins[i].id = c(i).id /\ q.ins[i].asset = c(i).asset
               /\ q.ins[i].value = c(i).value /\ q.ins[i].conf = c(i).conf
               /\ q.ins[i].issuance = tx.ins[i].issuance
    <3>1. PICK d, k : d = c(i) /\ k = tx.ins[i].issuance
      OBVIOUS
    <3>2. q.ins[i] = [id |-> d.id, asset |-> d.asset, value |-> d.value,
                      conf |-> d.conf, issuance |-> k]
      BY <2>1, <3>1
    <3> QED BY <3>1, <3>2
  <2> HIDE DEF c
  <2>3. \A i \in DOMAIN p.ins :
         /\ q.ins[i].id = p.ins[i].id /\ q.ins[i].asset = p.ins[i].asset
         /\ q.ins[i].value = p.ins[i].value /\ q.ins[i].conf = p.ins[i].conf
         /\ q.ins[i].issuance = p.ins[i].issuance
    BY <1>5, <1>6, <2>2
  <2> QED BY <1>4, <1>5, <2>1, <2>3 DEF SameParts
<1>12. Conserved(p) /\ (AnyConfidential(p.ins) => CommitmentsBalance(p))
  BY <1>1 DEF Analyzed, Confidential
<1>13. CommitmentsBalance(q)
  BY <1>11, <1>12, SameBalance
<1>14. Accepts(tx)
  BY <1>4, <1>6, <1>7, <1>8, <1>9, <1>10, <1>13 DEF Accepts
<1> QED BY <1>14 DEF tx

(* An own offer that names its coin rightly verifies for a taker and         *)
(* completes while the coin is unspent.                                      *)
LEMMA OwnOfferCompletes ==
    ASSUME CoinsTrue, NEW o, OwnOffer(o), o.id \notin spent, NamesItsCoin(o)
    PROVE  OfferVerifies(o, CoinAt(o.id)) /\ Completes(o)
<1>0. PICK c \in coins : c.id = o.id
  BY DEF OwnOffer
<1>2. Exists(o.id) /\ CoinAt(o.id) = c /\ c \in Unspent
  BY <1>0, CoinIs DEF Unspent
<1>1. /\ c.id = o.id /\ c.owner = Wallet /\ ~c.conf /\ c.value = o.give.amount
      /\ c.asset = o.give.asset /\ c.asset # o.out.asset
  BY <1>0, <1>2 DEF NamesItsCoin, OwnOffer
<1>3. /\ o.give.amount > 0 /\ o.out.value > 0 /\ o.out.to # Fee /\ o.out.key = "none"
      /\ o.genesis = Genesis
  <2>1. o.give.amount \in 1..MaxMoney /\ o.out.value \in 1..MaxMoney /\ MaxMoney \in Nat
    BY BoundsAssumption DEF OwnOffer
  <2>2. o.out.to = Wallet /\ o.out.key = "none" /\ o.genesis = Genesis
    BY DEF OwnOffer
  <2>3. o.give.amount > 0 /\ o.out.value > 0
    BY ONLY <2>1
  <2> QED BY <2>2, <2>3 DEF Wallet, Fee
<1>4. PICK x, y : x = OfferedIn(o) /\ y = o.out
  OBVIOUS
<1>5. o.sig = [flag |-> Single, by |-> Wallet, over |-> [ins |-> <<x>>, outs |-> <<y>>]]
  <2>1. o.sig = Signature([ins |-> <<x>>, outs |-> <<y>>], 1, Single, Wallet)
    BY <1>4 DEF OwnOffer, Single, OfferedIn
  <2>2. SighashData([ins |-> <<x>>, outs |-> <<y>>], 1, Single) = [ins |-> <<x>>, outs |-> <<y>>]
    BY DEF SighashData, Single
  <2> QED BY <2>1, <2>2 DEF Signature
<1>6. o.sig # NoSig /\ o.sig.flag = Single
  BY <1>5 DEF NoSig, Single
<1>7. WitnessVerifies([ins |-> <<x>>, outs |-> <<y>>], 1, o.sig, Wallet)
  <2>1. SighashData([ins |-> <<x>>, outs |-> <<y>>], 1, Single) = [ins |-> <<x>>, outs |-> <<y>>]
    BY DEF SighashData, Single
  <2> QED BY <1>5, <1>6, <2>1 DEF WitnessVerifies, Signature
<1>8. WitnessVerifies(Completion(o), 1, o.sig, Wallet)
  <2>1. PICK tx : tx = Completion(o)
    OBVIOUS
  <2>2. Completed(tx, o)
    BY <2>1, CompletionIs
  <2>3. tx.ins[1] = x /\ tx.outs[1] = y /\ 1 \in DOMAIN tx.outs
    BY <1>4, <2>2 DEF Completed
  <2>4. SighashData(tx, 1, Single) = [ins |-> <<x>>, outs |-> <<y>>]
    BY <2>3 DEF SighashData, Single
  <2> QED BY <1>5, <1>6, <2>1, <2>4 DEF WitnessVerifies, Signature
<1>9. x = SpentCoin(c)
  <2>1. Commitment(c.conf, <<c.asset, c.value>>) = <<>>
    BY <1>1 DEF Commitment
  <2> QED BY <1>1, <1>4, <2>1 DEF OfferedIn, SpentCoin
<1>10. /\ o.give = [asset |-> c.asset, amount |-> c.value]
       /\ o.want = [asset |-> o.out.asset, amount |-> o.out.value]
  BY <1>1, <1>2 DEF OwnOffer
<1>11. OfferVerifies(o, c)
  BY <1>1, <1>2, <1>3, <1>4, <1>6, <1>7, <1>9, <1>10 DEF OfferVerifies, Single
<1>12. Completes(o)
  BY <1>1, <1>2, <1>8 DEF Completes
<1> QED BY <1>2, <1>11, <1>12

(* finalize and the ledger: a transaction that was signed as it was prepared *)
(* is valid as long as its coins are there, and so is an offer of the wallet *)
(* for the taker who verifies it (SignedIsValid).                            *)
THEOREM SignedIsValidHolds == Spec => []SignedIsValid
<1>1. Inv => SignedIsValid
  BY SignedAccepted, OwnOfferCompletes DEF Inv, LedgerTrue, SignedTrue, OffersTrue, SignedIsValid
<1> QED BY <1>1, Invariant, PTL

=============================================================================
